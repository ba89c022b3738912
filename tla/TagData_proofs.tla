---------------------------- MODULE TagData_proofs ----------------------------
(***************************************************************************)
(* Proofs about TagData, for every size of the buffer, every width of the  *)
(* clock and of the counts, and every response.                            *)
(***************************************************************************)
EXTENDS TagData, TLAPS

(* The sum of a clock value and a timeout wraps at most once.              *)
LEMMA LaterWraps ==
    ASSUME NEW m \in Clock, NEW d \in 0..Half
    PROVE  /\ Later(m, d) \in Clock
           /\ Later(m, d) \in {m + d, m + d - Width}
<1>1. Half \in Nat /\ Half > 0
  BY HalfAssumption
<1>2. CASE m + d < Width
  BY <1>1, <1>2 DEF Later, Clock, Width
<1>3. CASE m + d >= Width
  BY <1>1, <1>3 DEF Later, Clock, Width
<1> QED
  BY <1>1, <1>2, <1>3 DEF Clock, Width

(* The sign of the difference tells the deadline that has passed from one  *)
(* that is ahead, if neither is more than half the clock away              *)
(* (ExplicitMessage.cpp:143): e is the time since the deadline.            *)
LEMMA SignOfDifference ==
    ASSUME NEW m \in Clock, NEW d \in Clock, NEW e \in Int, -Half <= e, e < Half,
           m - d \in {e, e + Width, e - Width}
    PROVE  Expired(m, d) <=> e >= 0
<1>1. Half \in Nat /\ Half > 0
  BY HalfAssumption
<1>2. m - d \in Int /\ m - d > -Width /\ m - d < Width
  BY <1>1 DEF Clock, Width
<1>3. CASE e >= 0
  <2>1. (m - d) % Width = e
    BY <1>1, <1>2, <1>3 DEF Width
  <2> QED
    BY <2>1, <1>3 DEF Expired
<1>4. CASE e < 0
  <2>1. (m - d) % Width = e + Width
    BY <1>1, <1>2, <1>4 DEF Width
  <2> QED
    BY <2>1, <1>1, <1>4 DEF Expired, Width
<1> QED
  BY <1>3, <1>4
-----------------------------------------------------------------------------
(* The type that is known is the PLC's, or one that no write is made of.   *)
TypeKnown == dataType = wireType \/ (dataType # String /\ ElementSize(dataType) = 0)

(* The deadline, seen from the clock, is where it should be, and no poll   *)
(* has found it passed.                                                    *)
OnTime ==
    Busy => /\ polled <= elapsed /\ elapsed - polled <= MaxGap
            /\ polled = 0 \/ polled < timeout
            /\ millis - deadline \in {elapsed - timeout, elapsed - timeout + Width,
                                      elapsed - timeout - Width}

IInv == TypeOK /\ StaysInBuffer /\ LengthIsFresh /\ WriteIsWhole /\ TypeKnown /\ OnTime

(* The sign of the difference tells whether the operation has lasted its   *)
(* timeout, as long as the polls are no further apart than half the        *)
(* clock's range (ExplicitMessage.cpp:143).                                *)
LEMMA LateIsLate ==
    ASSUME TypeOK, OnTime, Busy
    PROVE  Late <=> elapsed >= timeout
<1> DEFINE e == elapsed - timeout
<1>1. e \in Int /\ -Half <= e /\ e < Half
  BY HalfAssumption, TagDataAssumption DEF TypeOK, OnTime
<1>2. millis \in Clock /\ deadline \in Clock /\ millis - deadline \in {e, e + Width, e - Width}
  BY DEF TypeOK, OnTime
<1>3. Expired(millis, deadline) <=> e >= 0
  <2> HIDE DEF e
  <2> QED BY <1>1, <1>2, SignOfDifference
<1> QED
  BY <1>3 DEF Late, TypeOK

(* The invariant holds of a new tag.                                       *)
LEMMA InitInv == Init => IInv
<1> SUFFICES ASSUME Init PROVE IInv
  OBVIOUS
<1> USE DEF Init
<1>1. TypeOK
  <2>1. data \in [Cells -> Origin]
    BY DEF Origin, Unset
  <2>2. sent \in [asked : Nat, count : Nat, type : Nat, wire : Nat, bytes : Nat]
    BY DEF NoWrite
  <2>3. prefix \in Nat /\ millis \in Clock /\ deadline \in Clock /\ dataType \in 0..(TypeMod - 1)
    BY TagDataAssumption, HalfAssumption DEF Clock, Width
  <2>4. dataLen \in Nat /\ elapsed \in Nat /\ timeout \in 0..Half /\ polled \in Nat /\ ops \in Nat
    BY HalfAssumption
  <2>5. wireType \in Nat /\ resultCode \in BOOLEAN /\ outside \in BOOLEAN
    OBVIOUS
  <2> QED
    BY <2>1, <2>2, <2>3, <2>4, <2>5, Zenon DEF TypeOK
<1>2. StaysInBuffer /\ WriteIsWhole /\ TypeKnown
  BY DEF StaysInBuffer, WriteIsWhole, TypeKnown
<1>3. LengthIsFresh
  BY TagDataAssumption DEF LengthIsFresh
<1>4. OnTime
  BY DEF OnTime, Busy
<1> QED
  BY <1>1, <1>2, <1>3, <1>4 DEF IInv
-----------------------------------------------------------------------------
(* Frames: a step that does not touch the clock,                           *)
LEMMA SameTime ==
    ASSUME OnTime, UNCHANGED <<state, timeVars>>
    PROVE  OnTime'
BY DEF OnTime, Busy, timeVars, Width

(* and one that writes nothing.                                            *)
LEMMA SameWrite ==
    ASSUME WriteIsWhole, UNCHANGED sent
    PROVE  WriteIsWhole'
BY DEF WriteIsWhole

(* The origins of a byte.                                                  *)
LEMMA SetIsOrigin == Set \in Origin /\ Unset \in Origin
BY DEF Set, Unset, Origin

(* setDataType() keeps the invariant.                                      *)
LEMMA SetDataTypeStep ==
    ASSUME IInv, AppSetDataType
    PROVE  IInv'
<1> USE DEF AppSetDataType, histVars
<1>1. TypeOK'
  BY WireTypesAssumption, TagDataAssumption DEF IInv, TypeOK, timeVars, Cells, Clock, Width, Origin
<1>2. StaysInBuffer' /\ LengthIsFresh' /\ TypeKnown'
  BY DEF IInv, StaysInBuffer, LengthIsFresh, TypeKnown, Fresh
<1>3. WriteIsWhole' /\ OnTime'
  BY SameWrite, SameTime DEF IInv
<1> QED
  BY <1>1, <1>2, <1>3 DEF IInv

(* A typed setter touches only bytes of the buffer.                        *)
LEMMA SetValueStep ==
    ASSUME IInv, AppSetValue
    PROVE  IInv'
<1> USE DEF AppSetValue, histVars
<1>1. PICK off \in Offsets, size \in {1, 2, 4, 8} : SetValue(off, size)
  OBVIOUS
<1>2. off \in Nat /\ size \in Nat /\ MaxData \in Nat
  BY TagDataAssumption
<1>3. data' \in [Cells -> Origin] /\ \A i \in Cells : data'[i] \in {data[i], Set}
  <2>1. CASE InBounds(off, size)
    BY <1>1, <2>1, SetIsOrigin DEF SetValue, IInv, TypeOK
  <2>2. CASE ~InBounds(off, size)
    BY <1>1, <2>2 DEF SetValue, IInv, TypeOK
  <2> QED
    BY <2>1, <2>2
<1>4. prefix' \in Nat
  BY <1>1, TagDataAssumption DEF SetValue, PrefixFrom, IInv, TypeOK
<1>5. ~outside'
  <2>1. CASE InBounds(off, size)
    <3>1. ~(off + size > MaxData)
      BY <1>2, <2>1 DEF InBounds
    <3> QED
      BY <1>1, <2>1, <3>1, Zenon DEF SetValue, IInv, StaysInBuffer
  <2>2. CASE ~InBounds(off, size)
    BY <1>1, <2>2 DEF SetValue, IInv, StaysInBuffer
  <2> QED
    BY <2>1, <2>2
<1>6. TypeOK'
  <2>1. outside' \in BOOLEAN
    BY <1>1, Zenon DEF SetValue, IInv, TypeOK
  <2> QED
    BY <2>1, <1>3, <1>4, <1>5 DEF IInv, TypeOK, timeVars, Cells, Clock, Width, Origin
<1>7. LengthIsFresh'
  <2>1. ASSUME NEW i \in 0..(dataLen - 1) PROVE data'[i] = Set \/ data'[i] = Byte(i)
    <3>1. i \in Cells /\ Fresh(i)
      BY <1>2 DEF IInv, LengthIsFresh, Cells, TypeOK
    <3> QED
      BY <1>3, <3>1 DEF Fresh
  <2> QED
    BY <2>1 DEF IInv, LengthIsFresh, Fresh, Byte, Set
<1>8. StaysInBuffer' /\ TypeKnown'
  BY <1>5 DEF IInv, StaysInBuffer, TypeKnown
<1>9. WriteIsWhole' /\ OnTime'
  BY SameWrite, SameTime DEF IInv
<1> QED
  BY <1>6, <1>7, <1>8, <1>9 DEF IInv

(* A typed getter reads only bytes of the buffer.                          *)
LEMMA GetValueStep ==
    ASSUME IInv, AppGetValue
    PROVE  IInv'
<1> USE DEF AppGetValue, histVars, bufVars
<1>1. PICK off \in Offsets, size \in {1, 2, 4, 8} : GetValue(off, size)
  OBVIOUS
<1>2. off \in Nat /\ size \in Nat /\ MaxData \in Nat
  BY TagDataAssumption
<1>3. InBounds(off, size) => ~(off + size > MaxData)
  BY <1>2 DEF InBounds
<1>4. ~outside'
  BY <1>1, <1>3, Zenon DEF GetValue, IInv, StaysInBuffer
<1>5. TypeOK'
  <2>1. outside' \in BOOLEAN
    BY <1>1, Zenon DEF GetValue, IInv, TypeOK
  <2> QED
    BY <2>1 DEF IInv, TypeOK, timeVars, Cells, Clock, Width, Origin
<1>6. StaysInBuffer' /\ LengthIsFresh' /\ TypeKnown'
  BY <1>4 DEF IInv, StaysInBuffer, LengthIsFresh, TypeKnown, Fresh
<1>7. WriteIsWhole' /\ OnTime'
  BY SameWrite, SameTime DEF IInv
<1> QED
  BY <1>5, <1>6, <1>7 DEF IInv

(* setString() keeps the invariant.                                        *)
LEMMA SetStringStep ==
    ASSUME IInv, AppSetString
    PROVE  IInv'
<1> USE DEF AppSetString, histVars
<1>1. PICK n \in StringLens : SetString(n)
  OBVIOUS
<1> DEFINE len == SmallerOf(n, MaxData - PrefixLen)
<1>2. len \in Nat /\ PrefixLen \in Nat /\ PrefixLen + len <= MaxData /\ MaxData \in Nat
  BY TagDataAssumption DEF SmallerOf
<1>3. /\ prefix' = len /\ dataLen' = PrefixLen + len
      /\ data' = [i \in Cells |-> IF i < PrefixLen + len THEN Set ELSE data[i]]
      /\ outside' = (outside \/ PrefixLen + len > MaxData)
  BY <1>1 DEF SetString
<1> HIDE DEF len
<1>4. data' \in [Cells -> Origin]
  BY <1>3, SetIsOrigin DEF IInv, TypeOK
<1>5. ~outside'
  <2>1. ~(PrefixLen + len > MaxData)
    BY <1>2
  <2> QED
    BY <1>3, <2>1, Zenon DEF IInv, StaysInBuffer
<1>6. TypeOK'
  <2>1. prefix' \in Nat /\ dataLen' \in Nat /\ outside' \in BOOLEAN
    BY <1>2, <1>3, <1>5
  <2> QED
    BY <2>1, <1>4 DEF IInv, TypeOK, timeVars, Cells, Clock, Width, Origin
<1>7. LengthIsFresh'
  <2>1. dataLen' <= MaxData
    BY <1>2, <1>3
  <2>2. ASSUME NEW i \in 0..(dataLen' - 1) PROVE i \in Cells /\ i < PrefixLen + len
    BY <1>2, <1>3 DEF Cells
  <2>3. ASSUME NEW i \in 0..(dataLen' - 1) PROVE data'[i] = Set
    BY <2>2, <1>3, Zenon
  <2> QED
    BY <2>1, <2>3 DEF LengthIsFresh, Fresh
<1>8. StaysInBuffer' /\ TypeKnown'
  BY <1>5 DEF IInv, StaysInBuffer, TypeKnown
<1>9. WriteIsWhole' /\ OnTime'
  BY SameWrite, SameTime DEF IInv
<1> QED
  BY <1>6, <1>7, <1>8, <1>9 DEF IInv

(* An operation begins with its deadline ahead of the clock.               *)
LEMMA BeginOnTime ==
    ASSUME TypeOK, NEW ms \in Timeouts, NEW op, Begin(op, ms), millis' = millis
    PROVE  /\ OnTime' /\ ops' \in Nat
           /\ elapsed' = 0 /\ polled' = 0 /\ timeout' \in 0..Half /\ deadline' \in Clock
<1>1. ms \in 0..Half /\ millis \in Clock
  BY TagDataAssumption DEF TypeOK
<1>2. deadline' \in Clock /\ deadline' \in {millis + ms, millis + ms - Width}
  BY <1>1, LaterWraps DEF Begin
<1>3. elapsed' = 0 /\ polled' = 0 /\ timeout' = ms
  BY DEF Begin
<1>4. OnTime'
  <2>1. MaxGap \in Nat /\ ms \in Int /\ millis \in Int /\ Width \in Int
    BY <1>1, HalfAssumption, TagDataAssumption DEF Clock, Width
  <2>2. elapsed' - timeout' = -ms /\ elapsed' - polled' = 0
    BY <1>3, <2>1
  <2>3. millis' - deadline' \in {-ms, -ms + Width, -ms - Width}
    <3>1. CASE deadline' = millis + ms
      BY <2>1, <3>1
    <3>2. CASE deadline' = millis + ms - Width
      BY <2>1, <3>2
    <3> QED
      BY <1>2, <3>1, <3>2
  <2> QED
    BY <1>3, <2>1, <2>2, <2>3, Width' = Width DEF OnTime
<1>5. ops' \in Nat
  BY DEF Begin, TypeOK
<1> QED
  BY <1>1, <1>2, <1>3, <1>4, <1>5

(* read() keeps the invariant.                                             *)
LEMMA ReadStep ==
    ASSUME IInv, AppRead
    PROVE  IInv'
<1> USE DEF AppRead
<1>1. PICK ms \in Timeouts : StartRead(ms)
  OBVIOUS
<1>2. WriteIsWhole' /\ StaysInBuffer' /\ TypeKnown'
  BY SameWrite DEF IInv, StaysInBuffer, TypeKnown
<1>3. CASE Begin("Reading", ms) /\ data' = Aged(data) /\ dataLen' = 0 /\ resultCode' = FALSE
  <2>1. data' \in [Cells -> Origin]
    BY <1>3 DEF Aged, IInv, TypeOK, Origin
  <2>2. state' = "Reading" /\ last' = "Pending"
    BY <1>3 DEF Begin
  <2>3. /\ OnTime' /\ ops' \in Nat /\ elapsed' \in Nat /\ polled' \in Nat
        /\ timeout' \in 0..Half /\ deadline' \in Clock
    BY <1>3, BeginOnTime DEF IInv
  <2>4. TypeOK'
    BY <1>3, <2>1, <2>2, <2>3 DEF IInv, TypeOK
  <2>5. LengthIsFresh'
    BY <1>3, TagDataAssumption DEF LengthIsFresh
  <2> QED
    BY <1>2, <2>3, <2>4, <2>5 DEF IInv
<1>4. CASE Refused /\ UNCHANGED <<data, dataLen, resultCode>>
  <2>1. TypeOK'
    BY <1>4 DEF IInv, TypeOK, Refused, timeVars
  <2>2. LengthIsFresh'
    BY <1>4 DEF IInv, LengthIsFresh, Fresh
  <2>3. OnTime'
    BY <1>4, SameTime DEF IInv, Refused
  <2> QED
    BY <1>2, <2>1, <2>2, <2>3 DEF IInv
<1> QED
  BY <1>1, <1>3, <1>4 DEF StartRead

(* What is written fits the buffer, and its count fits 16 bits.            *)
LEMMA WritableFits ==
    ASSUME TypeOK, NEW count \in Counts, dataType # 0, Writable(count)
    PROVE  /\ WriteBytes(count) \in Nat /\ WriteBytes(count) <= MaxData
           /\ dataType # String => count % CountMod = count
<1> DEFINE size == ElementSize(dataType)
<1>1. prefix \in Nat /\ count \in Nat /\ PrefixLen \in Nat /\ MaxData \in Nat
  BY TagDataAssumption DEF TypeOK
<1>2. CASE dataType = String
  BY <1>1, <1>2 DEF WriteBytes, Writable
<1>3. CASE dataType # String
  <2>1. size \in {1, 2, 4, 8}
    BY <1>3 DEF Writable, ElementSize
  <2>2. count <= MaxData \div size
    BY <1>3 DEF Writable
  <2>3. WriteBytes(count) = count * size
    BY <1>3 DEF WriteBytes
  <2> HIDE DEF size
  <2>4. count * size \in Nat /\ count * size <= MaxData /\ count <= MaxData
    BY <1>1, <2>1, <2>2
  <2>5. count % CountMod = count
    BY <1>1, <2>4, TagDataAssumption
  <2> QED
    BY <2>3, <2>4, <2>5, <1>3
<1> QED
  BY <1>2, <1>3

(* write() keeps the invariant.                                            *)
LEMMA WriteStep ==
    ASSUME IInv, AppWrite
    PROVE  IInv'
<1> USE DEF AppWrite, bufVars
<1>1. PICK count \in Counts, ms \in Timeouts : StartWrite(count, ms)
  OBVIOUS
<1>2. LengthIsFresh' /\ TypeKnown'
  BY DEF IInv, LengthIsFresh, Fresh, TypeKnown
<1>3. CASE Refused /\ UNCHANGED <<sent, outside>>
  <2>1. TypeOK'
    BY <1>3 DEF IInv, TypeOK, Refused, timeVars
  <2>2. WriteIsWhole' /\ StaysInBuffer'
    BY <1>3, SameWrite DEF IInv, StaysInBuffer
  <2>3. OnTime'
    BY <1>3, SameTime DEF IInv, Refused
  <2> QED
    BY <1>2, <2>1, <2>2, <2>3 DEF IInv
<1>4. CASE ~(Refused /\ UNCHANGED <<sent, outside>>)
  <2>1. /\ dataType # 0 /\ Writable(count) /\ Begin("Writing", ms)
        /\ sent' = [asked |-> count, count |-> count % CountMod, type |-> dataType,
                    wire |-> wireType, bytes |-> WriteBytes(count)]
        /\ outside' = (outside \/ WriteBytes(count) > MaxData)
    BY <1>1, <1>4 DEF StartWrite
  <2>2. /\ WriteBytes(count) \in Nat /\ WriteBytes(count) <= MaxData
        /\ dataType # String => count % CountMod = count
    BY <2>1, WritableFits DEF IInv
  <2>3. /\ OnTime' /\ ops' \in Nat /\ elapsed' \in Nat /\ polled' \in Nat
        /\ timeout' \in 0..Half /\ deadline' \in Clock
    BY <2>1, BeginOnTime DEF IInv
  <2>4. sent' \in [asked : Nat, count : Nat, type : Nat, wire : Nat, bytes : Nat]
    <3>1. count \in Nat /\ count % CountMod \in Nat /\ dataType \in Nat /\ wireType \in Nat
      BY TagDataAssumption DEF IInv, TypeOK
    <3> QED
      BY <2>1, <2>2, <3>1
  <2>5. outside' \in BOOLEAN /\ ~outside'
    <3>1. ~(WriteBytes(count) > MaxData)
      BY <2>2, TagDataAssumption
    <3> QED
      BY <2>1, <3>1, Zenon DEF IInv, StaysInBuffer
  <2>6. TypeOK'
    BY <2>1, <2>3, <2>4, <2>5 DEF IInv, TypeOK, Begin
  <2>7. WriteIsWhole'
    <3>1. dataType = wireType
      <4>1. dataType = String \/ ElementSize(dataType) # 0
        BY <2>1 DEF Writable
      <4> QED
        BY <4>1 DEF IInv, TypeKnown
    <3>2. dataType # String => WriteBytes(count) = count * ElementSize(dataType)
      BY DEF WriteBytes
    <3> QED
      BY <2>1, <2>2, <3>1, <3>2 DEF WriteIsWhole
  <2> QED
    BY <1>2, <2>3, <2>5, <2>6, <2>7 DEF IInv, StaysInBuffer
<1> QED
  BY <1>3, <1>4

(* A response fills the front of the buffer, and no more of it than there  *)
(* is.                                                                     *)
LEMMA StoreFills ==
    ASSUME IInv, NEW wire \in WireTypes, NEW n \in Nat, Store(wire, n)
    PROVE  /\ data' \in [Cells -> Origin] /\ prefix' \in Nat /\ dataLen' \in Nat
           /\ dataType' \in 0..(TypeMod - 1) /\ wireType' \in Nat
           /\ outside' \in BOOLEAN /\ ~outside'
           /\ LengthIsFresh' /\ TypeKnown'
<1> DEFINE len == SmallerOf(n, MaxData)
<1>1. len \in Nat /\ len <= MaxData /\ MaxData \in Nat
  BY TagDataAssumption DEF SmallerOf
<1>2. /\ wireType' = wire /\ dataType' = wire % TypeMod /\ dataLen' = len
      /\ data' = [i \in Cells |-> IF i < len THEN Byte(i) ELSE data[i]]
      /\ prefix' \in IF len > 0 THEN PrefixFrom(0) ELSE {prefix}
      /\ outside' = (outside \/ len > MaxData)
  BY DEF Store
<1> HIDE DEF len
<1>3. data' \in [Cells -> Origin]
  <2>1. \A i \in Cells : Byte(i) \in Origin
    BY <1>1 DEF Byte, Origin, Cells
  <2> QED
    BY <1>2, <2>1 DEF IInv, TypeOK
<1>4. prefix' \in Nat
  BY <1>2, TagDataAssumption DEF PrefixFrom, IInv, TypeOK
<1>5. outside' \in BOOLEAN /\ ~outside'
  <2>1. ~(len > MaxData)
    BY <1>1
  <2> QED
    BY <1>2, <2>1, Zenon DEF IInv, StaysInBuffer
<1>6. LengthIsFresh'
  <2>1. dataLen' <= MaxData
    BY <1>1, <1>2
  <2>2. ASSUME NEW i \in 0..(dataLen' - 1) PROVE i \in Cells /\ i < len
    BY <1>1, <1>2 DEF Cells
  <2>3. ASSUME NEW i \in 0..(dataLen' - 1) PROVE data'[i] = Byte(i)
    BY <2>2, <1>2, Zenon
  <2> QED
    BY <2>1, <2>3 DEF LengthIsFresh, Fresh
<1>7. wire \in Nat /\ wire % TypeMod \in 0..(TypeMod - 1)
  BY WireTypesAssumption, TagDataAssumption
<1>8. TypeKnown'
  <2>1. CASE wire >= TypeMod
    BY <1>2, <2>1, WireTypesAssumption DEF TypeKnown
  <2>2. CASE wire < TypeMod
    <3>1. wire % TypeMod = wire
      BY <1>7, <2>2, TagDataAssumption
    <3> QED
      BY <1>2, <3>1 DEF TypeKnown
  <2> QED
    BY <1>7, <2>1, <2>2, TagDataAssumption
<1> QED
  BY <1>1, <1>2, <1>3, <1>4, <1>5, <1>6, <1>7, <1>8

(* poll() keeps the invariant.                                             *)
LEMMA PollStep ==
    ASSUME IInv, AppPoll
    PROVE  IInv'
<1> USE DEF AppPoll, histVars
<1>1. WriteIsWhole'
  BY SameWrite DEF IInv
<1>2. CASE Busy /\ Continue
  <2>1. TypeOK' /\ StaysInBuffer' /\ LengthIsFresh' /\ TypeKnown'
    BY <1>2 DEF Continue, bufVars, IInv, TypeOK, StaysInBuffer, LengthIsFresh, Fresh, TypeKnown
  <2>2. elapsed < timeout
    <3>1. ~(elapsed >= timeout)
      BY <1>2, LateIsLate DEF Continue, IInv
    <3> QED
      BY <3>1 DEF IInv, TypeOK
  <2>3. elapsed - elapsed = 0 /\ MaxGap >= 0
    BY TagDataAssumption DEF IInv, TypeOK
  <2>4. OnTime'
    BY <1>2, <2>2, <2>3 DEF Continue, IInv, OnTime, Busy, Width, TypeOK
  <2> QED
    BY <1>1, <2>1, <2>4 DEF IInv
<1>3. CASE Busy /\ Fail
  <2>1. TypeOK' /\ StaysInBuffer' /\ LengthIsFresh' /\ TypeKnown'
    BY <1>3, HalfAssumption
       DEF Fail, Over, bufVars, IInv, TypeOK, StaysInBuffer, LengthIsFresh, Fresh, TypeKnown
  <2>2. OnTime'
    BY <1>3 DEF Fail, OnTime, Busy
  <2> QED
    BY <1>1, <2>1, <2>2 DEF IInv
<1>4. CASE Busy /\ Complete
  <2>1. /\ state' \in {"Failed", "Done"} /\ resultCode' \in BOOLEAN /\ last' \in {"Error", "Ok"}
        /\ elapsed' = 0 /\ timeout' = 0 /\ polled' = 0
    BY <1>4 DEF Complete, Over
  <2>2. OnTime'
    BY <2>1 DEF OnTime, Busy
  <2>3. CASE UNCHANGED <<bufVars, outside>>
    <3>1. TypeOK' /\ StaysInBuffer' /\ LengthIsFresh' /\ TypeKnown'
      BY <2>1, <2>3, HalfAssumption
         DEF bufVars, IInv, TypeOK, StaysInBuffer, LengthIsFresh, Fresh, TypeKnown
    <3> QED
      BY <1>1, <2>2, <3>1 DEF IInv
  <2>4. CASE ~UNCHANGED <<bufVars, outside>>
    <3>1. PICK n \in AnswerLens, wire \in WireTypes : n >= 2 /\ Store(wire, n - 2)
      BY <1>4, <2>4 DEF Complete
    <3>2. n - 2 \in Nat
      BY <3>1, TagDataAssumption
    <3>3. /\ data' \in [Cells -> Origin] /\ prefix' \in Nat /\ dataLen' \in Nat
          /\ dataType' \in 0..(TypeMod - 1) /\ wireType' \in Nat
          /\ outside' \in BOOLEAN /\ ~outside'
          /\ LengthIsFresh' /\ TypeKnown'
      BY <3>1, <3>2, StoreFills
    <3>4. TypeOK'
      BY <2>1, <3>3, HalfAssumption DEF IInv, TypeOK
    <3> QED
      BY <1>1, <2>2, <3>3, <3>4 DEF IInv, StaysInBuffer
  <2> QED
    BY <2>3, <2>4
<1>5. CASE Settled
  <2>1. TypeOK' /\ StaysInBuffer' /\ LengthIsFresh' /\ TypeKnown'
    BY <1>5 DEF Settled, bufVars, IInv, TypeOK, StaysInBuffer, LengthIsFresh, Fresh, TypeKnown
  <2>2. OnTime'
    BY <1>5, SameTime DEF Settled, IInv, timeVars
  <2> QED
    BY <1>1, <2>1, <2>2 DEF IInv
<1> QED
  BY <1>2, <1>3, <1>4, <1>5

(* abort() keeps the invariant.                                            *)
LEMMA AbortStep ==
    ASSUME IInv, AppAbort
    PROVE  IInv'
<1> USE DEF AppAbort, histVars, Over
<1>1. TypeOK'
  BY HalfAssumption DEF IInv, TypeOK
<1>2. StaysInBuffer' /\ TypeKnown' /\ WriteIsWhole'
  BY SameWrite DEF IInv, StaysInBuffer, TypeKnown
<1>3. LengthIsFresh'
  BY TagDataAssumption DEF LengthIsFresh
<1>4. OnTime'
  BY DEF OnTime, Busy
<1> QED
  BY <1>1, <1>2, <1>3, <1>4 DEF IInv

(* The passing of time keeps the invariant.                                *)
LEMMA TickStep ==
    ASSUME IInv, Tick
    PROVE  IInv'
<1> USE DEF Tick, histVars, bufVars
<1>1. StaysInBuffer' /\ LengthIsFresh' /\ TypeKnown' /\ WriteIsWhole'
  BY SameWrite DEF IInv, StaysInBuffer, LengthIsFresh, Fresh, TypeKnown
<1>2. millis \in Clock /\ millis' \in Clock /\ millis' \in {millis + 1, millis + 1 - Width}
  BY LaterWraps, HalfAssumption DEF IInv, TypeOK
<1>3. TypeOK'
  BY <1>2 DEF IInv, TypeOK
<1>4. ASSUME Busy PROVE OnTime'
  <2>1. /\ elapsed' = elapsed + 1 /\ elapsed - polled < MaxGap
        /\ polled' = polled /\ timeout' = timeout /\ deadline' = deadline
    BY <1>4
  <2>2. /\ elapsed \in Int /\ polled \in Int /\ timeout \in Int /\ deadline \in Int
        /\ millis \in Int /\ MaxGap \in Int /\ Width \in Int
    BY <1>2, HalfAssumption, TagDataAssumption DEF IInv, TypeOK, Clock, Width
  <2>3. polled <= elapsed /\ (polled = 0 \/ polled < timeout)
    BY <1>4 DEF IInv, OnTime
  <2>4. PICK k \in {0, Width, -Width} : millis - deadline = elapsed - timeout + k
    BY <1>4, <2>2 DEF IInv, OnTime
  <2>5. millis' - deadline' \in {elapsed' - timeout', elapsed' - timeout' + Width,
                                 elapsed' - timeout' - Width}
    <3>1. elapsed < timeout + Half /\ timeout <= Half
      BY <2>1, <2>2, <2>3, HalfAssumption, TagDataAssumption DEF IInv, TypeOK
    <3>2. millis' \in 0..(Width - 1) /\ deadline \in 0..(Width - 1) /\ Width = 2 * Half
      BY <1>2 DEF IInv, TypeOK, Clock, Width
    <3>3. CASE millis' = millis + 1
      BY <2>1, <2>2, <2>4, <3>3
    <3>4. CASE millis' = millis + 1 - Width
      <4>1. k \in {0, Width}
        BY <2>1, <2>2, <2>4, <3>1, <3>2, <3>4, HalfAssumption
      <4> QED
        BY <2>1, <2>2, <2>4, <3>4, <4>1
    <3> QED
      BY <1>2, <3>3, <3>4
  <2> QED
    BY <2>1, <2>2, <2>3, <2>5, Width' = Width DEF OnTime
<1>5. ASSUME ~Busy PROVE OnTime'
  BY <1>5 DEF OnTime, Busy
<1> QED
  BY <1>1, <1>3, <1>4, <1>5 DEF IInv
-----------------------------------------------------------------------------
(* So does a step that changes nothing,                                    *)
LEMMA StutterStep ==
    ASSUME IInv, UNCHANGED vars
    PROVE  IInv'
<1>1. TypeOK' /\ StaysInBuffer' /\ LengthIsFresh' /\ TypeKnown'
  BY DEF vars, bufVars, timeVars, histVars, IInv, TypeOK, StaysInBuffer, LengthIsFresh,
         Fresh, TypeKnown
<1>2. WriteIsWhole' /\ OnTime'
  BY SameWrite, SameTime DEF vars, histVars, IInv
<1> QED
  BY <1>1, <1>2 DEF IInv

(* so that it holds in every reachable state.                              *)
LEMMA Inductive == Spec => []IInv
<1>1. IInv /\ [Next]_vars => IInv'
  BY SetDataTypeStep, SetValueStep, GetValueStep, SetStringStep, ReadStep, WriteStep, PollStep,
     AbortStep, TickStep, StutterStep, Zenon DEF Next
<1> QED
  BY <1>1, InitInv, PTL DEF Spec

(* Every reachable state is well-typed, for every size of the buffer and   *)
(* every width of the clock, the counts and the types.                     *)
THEOREM DataTypeCorrect == Spec => []TypeOK
<1>1. IInv => TypeOK
  BY DEF IInv
<1> QED
  BY <1>1, Inductive, PTL

(* No accessor, no response and no write request reaches a byte outside    *)
(* data_, whatever offset, length or count it is given.                    *)
THEOREM BufferBounded == Spec => []StaysInBuffer
<1>1. IInv => StaysInBuffer
  BY DEF IInv
<1> QED
  BY <1>1, Inductive, PTL

(* What dataLength() counts is never left from an earlier read.            *)
THEOREM NoStaleData == Spec => []LengthIsFresh
<1>1. IInv => LengthIsFresh
  BY DEF IInv
<1> QED
  BY <1>1, Inductive, PTL

(* getString() neither overruns the caller's buffer nor gives a byte that  *)
(* the last read, or the application, has not put there.                   *)
THEOREM StringsFresh == Spec => []StringIsFresh
<1>1. ASSUME IInv, NEW cap \in 0..(MaxData + 1)
      PROVE  /\ StringLength(cap) # 0 => StringLength(cap) < cap
             /\ \A i \in PrefixLen..(PrefixLen + StringLength(cap) - 1) : i \in Cells /\ Fresh(i)
  <2> DEFINE n == StringLength(cap)
  <2>1. /\ prefix \in Nat /\ dataLen \in Nat /\ PrefixLen \in Nat /\ MaxData \in Nat
        /\ dataLen <= MaxData /\ cap \in Nat
    BY <1>1, TagDataAssumption DEF IInv, TypeOK, LengthIsFresh
  <2>2. CASE dataLen < PrefixLen \/ cap = 0
    <3>1. n = 0
      BY <2>2 DEF StringLength
    <3> HIDE DEF n
    <3> QED
      BY <2>1, <3>1 DEF n
  <2>3. CASE ~(dataLen < PrefixLen \/ cap = 0)
    <3>1. n \in Nat /\ n < cap /\ PrefixLen + n <= dataLen
      BY <2>1, <2>3 DEF StringLength, SmallerOf
    <3> HIDE DEF n
    <3>2. ASSUME NEW i \in PrefixLen..(PrefixLen + n - 1) PROVE i \in Cells /\ Fresh(i)
      <4>1. i \in 0..(dataLen - 1) /\ i \in Cells
        BY <2>1, <3>1 DEF Cells
      <4> QED
        BY <1>1, <4>1 DEF IInv, LengthIsFresh
    <3> QED
      BY <3>1, <3>2 DEF n
  <2> QED
    BY <2>2, <2>3
<1>2. IInv => StringIsFresh
  BY <1>1 DEF StringIsFresh
<1> QED
  BY <1>2, Inductive, PTL

(* A write announces and carries what was asked for, in every width of the *)
(* element count and of the type; of a STRING it is the type alone that is *)
(* claimed.                                                                *)
THEOREM WritesWhole == Spec => []WriteIsWhole
<1>1. IInv => WriteIsWhole
  BY DEF IInv
<1> QED
  BY <1>1, Inductive, PTL

(* Timeout is returned when the operation has lasted its timeout and never *)
(* before, however often the clock wraps, if the timeout is at most half   *)
(* of the clock and the polls less than half of it apart.                  *)
THEOREM TimeoutsTrue == Spec => TimeoutIsTrue
<1>1. ASSUME IInv, AppPoll, Busy
      PROVE  last' = "Timeout" <=> elapsed >= timeout
  <2>1. Late <=> elapsed >= timeout
    BY <1>1, LateIsLate DEF IInv
  <2>2. CASE Continue
    BY <2>1, <2>2 DEF Continue
  <2>3. CASE Fail
    <3>1. last' = "Timeout" <=> Late
      BY <2>3 DEF Fail
    <3> QED
      BY <2>1, <3>1
  <2>4. CASE Complete
    BY <2>1, <2>4 DEF Complete
  <2> QED
    BY <1>1, <2>2, <2>3, <2>4 DEF AppPoll, Settled
<1>2. IInv => [AppPoll /\ Busy => (last' = "Timeout" <=> elapsed >= timeout)]_vars
  BY <1>1
<1> QED
  BY <1>2, Inductive, PTL DEF TimeoutIsTrue
=============================================================================
