------------------------------- MODULE TagData -------------------------------
(***************************************************************************)
(* The data of one clx::Tag (src/src/tag/Tag.cpp): the buffer data_ of     *)
(* fixed size, dataLen_, dataType_, the typed accessors, the string        *)
(* accessors, and reads and writes with their deadline.  Module Tag has    *)
(* the tags of a pool and the message they share; here the message is what *)
(* it implements, an exchange that ends in a response, an error or a       *)
(* Timeout.                                                                *)
(*                                                                         *)
(* data[i] says where byte i of data_ comes from: it was never written, it *)
(* is byte `at' of the read in progress or last begun, it is of a read     *)
(* before that, or the application has set it.  prefix is getU32(data_).   *)
(*                                                                         *)
(* outside, sent, elapsed, timeout, polled and last are history: whether a *)
(* byte outside data_ was accessed, the last write request, the time since *)
(* the operation began, its timeout, the time of its last poll(), and what *)
(* the last call returned.                                                 *)
(***************************************************************************)
EXTENDS Deadline

CONSTANTS
    MaxData,      \* kMaxDataSize
    PrefixLen,    \* 4: bytes of a STRING's length
    SizeMod,      \* 2^32: the width of size_t
    CountMod,     \* 2^16: the width of the element count in a request
    TypeMod,      \* 2^8: the width of dataType_
    WireTypes,    \* the types a PLC gives in a response
    Counts,       \* element counts the application asks for
    AnswerLens,   \* bytes of data in a response, its type included
    Offsets,      \* offsets the application accesses
    StringLens,   \* lengths of the strings it sets
    Prefixes,     \* values of the first four bytes
    Timeouts,     \* timeouts in ms
    MaxGap,       \* longest time between two polls of an operation, in ms
    MaxOps        \* bound: operations begun

VARIABLES state, data, prefix, dataLen, dataType, resultCode, millis, deadline,
          outside, sent, wireType, ops, elapsed, timeout, polled, last

bufVars == <<data, prefix, dataLen, dataType, wireType>>
timeVars == <<millis, deadline, elapsed, timeout, polled>>
histVars == <<sent, ops>>
vars == <<state, bufVars, timeVars, histVars, resultCode, outside, last>>

String == 208

(* dataTypeElementSize(): 0 is an unknown type, or a STRING.               *)
ElementSize(t) ==
    CASE t \in {193, 194, 198} -> 1
      [] t \in {195, 199}      -> 2
      [] t \in {196, 200, 202} -> 4
      [] t \in {197, 201, 203} -> 8
      [] OTHER                 -> 0

ASSUME TagDataAssumption ==
    /\ PrefixLen \in Nat /\ MaxData \in Nat /\ PrefixLen <= MaxData
    /\ SizeMod \in Nat /\ MaxData < SizeMod
    /\ TypeMod \in Nat \ {0} /\ CountMod \in Nat /\ MaxData < CountMod
    /\ Counts \subseteq Nat /\ AnswerLens \subseteq Nat /\ StringLens \subseteq Nat
    /\ Offsets \subseteq 0..(SizeMod - 1) /\ Prefixes \subseteq Nat
    /\ Timeouts \subseteq 0..Half /\ MaxGap \in Nat /\ MaxGap < Half
    /\ MaxOps \in Nat

(* A type of more than 8 bits is none of those that the code knows.        *)
ASSUME WireTypesAssumption ==
    /\ WireTypes \subseteq Nat
    /\ \A w \in WireTypes : w >= TypeMod =>
          w % TypeMod # String /\ ElementSize(w % TypeMod) = 0

Cells == 0..(MaxData - 1)

Origin == [from : {"init", "old", "read", "app"}, at : Nat]

Unset == [from |-> "init", at |-> 0]
Set   == [from |-> "app", at |-> 0]
Byte(i) == [from |-> "read", at |-> i]

NoWrite == [asked |-> 0, count |-> 0, type |-> 0, wire |-> 0, bytes |-> 0]

Init ==
    /\ state = "Idle" /\ data = [i \in Cells |-> Unset] /\ prefix \in Prefixes
    /\ dataLen = 0 /\ dataType = 0 /\ wireType = 0 /\ resultCode = FALSE
    /\ millis \in Clock /\ deadline = 0
    /\ elapsed = 0 /\ timeout = 0 /\ polled = 0
    /\ outside = FALSE /\ sent = NoWrite /\ ops = 0 /\ last = "NotReady"

Busy == state \in {"Reading", "Writing"}

SmallerOf(a, b) == IF a < b THEN a ELSE b

(* What is at the front once bytes from `low' on have been written.        *)
PrefixFrom(low) == IF low < PrefixLen THEN Prefixes ELSE {prefix}
-----------------------------------------------------------------------------
(* Defect: the end of the access is computed first, in size_t.             *)
EndInBounds(off, size) == (off + size) % SizeMod <= MaxData

(* inBounds(): is [off, off + size) within the buffer?                     *)
InBounds(off, size) == size <= MaxData /\ off <= MaxData - size

(* The typed setters; one that is out of bounds does nothing.              *)
SetValue(off, size) ==
    IF InBounds(off, size)
    THEN /\ data' = [i \in Cells |-> IF i \in off..(off + size - 1) THEN Set ELSE data[i]]
         /\ prefix' \in PrefixFrom(off)
         /\ outside' = (outside \/ off + size > MaxData)
    ELSE UNCHANGED <<data, prefix, outside>>

(* The typed getters; one that is out of bounds gives 0.                   *)
GetValue(off, size) ==
    outside' = (outside \/ (InBounds(off, size) /\ off + size > MaxData))

(* setString(): the length and the characters, cut to what fits.           *)
SetString(n) ==
    LET len == SmallerOf(n, MaxData - PrefixLen)
    IN  /\ prefix' = len
        /\ data' = [i \in Cells |-> IF i < PrefixLen + len THEN Set ELSE data[i]]
        /\ dataLen' = PrefixLen + len
        /\ outside' = (outside \/ PrefixLen + len > MaxData)

(* Defect: the buffer is the limit, not what was received.                 *)
StringToBufferEnd(cap) ==
    IF dataLen < PrefixLen \/ cap = 0 THEN 0
    ELSE SmallerOf(SmallerOf(prefix, MaxData - PrefixLen), cap - 1)

(* getString(): how many characters it copies to a buffer of `cap' bytes.  *)
StringLength(cap) ==
    IF dataLen < PrefixLen \/ cap = 0 THEN 0
    ELSE SmallerOf(SmallerOf(prefix, dataLen - PrefixLen), cap - 1)
-----------------------------------------------------------------------------
(* The message takes the request, with a deadline, or refuses it.          *)
Begin(op, ms) ==
    /\ ~Busy
    /\ state' = op /\ last' = "Pending" /\ ops' = ops + 1
    /\ deadline' = Later(millis, ms)
    /\ timeout' = ms /\ elapsed' = 0 /\ polled' = 0

Refused == last' \in {"InvalidArg", "NotReady", "Busy"} /\ UNCHANGED <<state, timeVars, ops>>

Aged(d) == [i \in Cells |-> IF d[i].from = "read"
                            THEN [from |-> "old", at |-> 0] ELSE d[i]]

(* Defect: a read leaves what the one before it has got.                   *)
ReadKeepsResult(ms) ==
    \/ /\ Begin("Reading", ms)
       /\ data' = Aged(data) /\ UNCHANGED <<dataLen, resultCode>>
    \/ Refused /\ UNCHANGED <<data, dataLen, resultCode>>

(* startRead(): the previous result is dropped once the request is taken.  *)
StartRead(ms) ==
    \/ /\ Begin("Reading", ms)
       /\ data' = Aged(data) /\ dataLen' = 0 /\ resultCode' = FALSE
    \/ Refused /\ UNCHANGED <<data, dataLen, resultCode>>

WriteBytes(count) ==
    IF dataType = String THEN PrefixLen + prefix ELSE count * ElementSize(dataType)

(* Defect: the element count is checked in the width it is sent in.        *)
NarrowWritable(count) ==
    IF dataType = String THEN prefix <= MaxData - PrefixLen
    ELSE /\ ElementSize(dataType) # 0
         /\ count % CountMod <= MaxData \div ElementSize(dataType)

(* The checks of startWrite().                                             *)
Writable(count) ==
    IF dataType = String THEN prefix <= MaxData - PrefixLen
    ELSE /\ ElementSize(dataType) # 0
         /\ count <= MaxData \div ElementSize(dataType)

StartWrite(count, ms) ==
    \/ /\ dataType # 0 /\ Writable(count)
       /\ Begin("Writing", ms)
       /\ sent' = [asked |-> count, count |-> count % CountMod, type |-> dataType,
                   wire |-> wireType, bytes |-> WriteBytes(count)]
       /\ outside' = (outside \/ WriteBytes(count) > MaxData)
    \/ Refused /\ UNCHANGED <<sent, outside>>

(* The response of a read: a type and n bytes of data, cut to what fits.   *)
Store(wire, n) ==
    LET len == SmallerOf(n, MaxData)
    IN  /\ wireType' = wire /\ dataType' = wire % TypeMod
        /\ dataLen' = len
        /\ data' = [i \in Cells |-> IF i < len THEN Byte(i) ELSE data[i]]
        /\ prefix' \in IF len > 0 THEN PrefixFrom(0) ELSE {prefix}
        /\ outside' = (outside \/ len > MaxData)

Late == Expired(millis, deadline)

(* poll() of an operation.  A response that is too short for a type leaves *)
(* the data as it is.                                                      *)
Continue ==
    /\ ~Late /\ last' = "Pending" /\ polled' = elapsed
    /\ UNCHANGED <<state, bufVars, resultCode, outside, elapsed, timeout>>

Over == elapsed' = 0 /\ timeout' = 0 /\ polled' = 0

Fail ==
    /\ state' = "Failed" /\ last' = (IF Late THEN "Timeout" ELSE "Error") /\ Over
    /\ UNCHANGED <<bufVars, resultCode, outside>>

Complete ==
    /\ ~Late /\ Over
    /\ \/ /\ resultCode' = TRUE /\ state' = "Failed" /\ last' = "Error"
          /\ UNCHANGED <<bufVars, outside>>
       \/ /\ resultCode' = FALSE /\ state' = "Done" /\ last' = "Ok"
          /\ \E n \in AnswerLens, wire \in WireTypes :
                IF state = "Reading" /\ n >= 2
                THEN Store(wire, n - 2)
                ELSE UNCHANGED <<bufVars, outside>>

Settled ==
    /\ ~Busy
    /\ last' = CASE state = "Done" -> "Ok" [] state = "Failed" -> "Error" [] OTHER -> "NotReady"
    /\ UNCHANGED <<state, bufVars, resultCode, outside, elapsed, timeout, polled>>
-----------------------------------------------------------------------------
AppSetDataType ==
    /\ \E t \in WireTypes : t < TypeMod /\ dataType' = t /\ wireType' = t
    /\ UNCHANGED <<state, data, prefix, dataLen, timeVars, histVars, resultCode, outside, last>>

AppSetValue ==
    /\ \E off \in Offsets, size \in {1, 2, 4, 8} : SetValue(off, size)
    /\ UNCHANGED <<state, dataLen, dataType, wireType, timeVars, histVars, resultCode, last>>

AppGetValue ==
    /\ \E off \in Offsets, size \in {1, 2, 4, 8} : GetValue(off, size)
    /\ UNCHANGED <<state, bufVars, timeVars, histVars, resultCode, last>>

AppSetString ==
    /\ \E n \in StringLens : SetString(n)
    /\ UNCHANGED <<state, dataType, wireType, timeVars, histVars, resultCode, last>>

AppRead ==
    /\ ops < MaxOps
    /\ \E ms \in Timeouts : StartRead(ms)
    /\ UNCHANGED <<prefix, dataType, wireType, millis, sent, outside>>

AppWrite ==
    /\ ops < MaxOps
    /\ \E count \in Counts, ms \in Timeouts : StartWrite(count, ms)
    /\ UNCHANGED <<bufVars, millis, resultCode>>

AppPoll ==
    /\ (Busy /\ (Continue \/ Fail \/ Complete)) \/ Settled
    /\ UNCHANGED <<millis, deadline, histVars>>

AppAbort ==
    /\ state' = "Idle" /\ dataLen' = 0 /\ Over
    /\ UNCHANGED <<data, prefix, dataType, wireType, millis, deadline, histVars, resultCode,
                   outside, last>>

(* Time passes; the application polls an operation in time.                *)
Tick ==
    /\ Busy => elapsed - polled < MaxGap
    /\ millis' = Later(millis, 1)
    /\ elapsed' = IF Busy THEN elapsed + 1 ELSE elapsed
    /\ UNCHANGED <<state, bufVars, deadline, timeout, polled, histVars, resultCode, outside, last>>

Next ==
    \/ AppSetDataType \/ AppSetValue \/ AppGetValue \/ AppSetString
    \/ AppRead \/ AppWrite \/ AppPoll \/ AppAbort \/ Tick

Spec == Init /\ [][Next]_vars
-----------------------------------------------------------------------------
TypeOK ==
    /\ state \in {"Idle", "Reading", "Writing", "Done", "Failed"}
    /\ data \in [Cells -> Origin] /\ prefix \in Nat /\ dataLen \in Nat
    /\ dataType \in 0..(TypeMod - 1) /\ wireType \in Nat /\ resultCode \in BOOLEAN
    /\ millis \in Clock /\ deadline \in Clock
    /\ elapsed \in Nat /\ timeout \in 0..Half /\ polled \in Nat /\ ops \in Nat
    /\ sent \in [asked : Nat, count : Nat, type : Nat, wire : Nat, bytes : Nat]
    /\ outside \in BOOLEAN
    /\ last \in {"Ok", "Pending", "Timeout", "NotReady", "Busy", "InvalidArg", "Error"}

(* No accessor, no response and no write request reaches a byte outside    *)
(* the buffer, whatever offset, length or count it is given                *)
(* (Tag.cpp:68-83, 135-143, 171-320).                                      *)
StaysInBuffer == ~outside

Fresh(i) == data[i] = Set \/ data[i] = Byte(i)

(* "a failed read cannot leave stale data/result from an earlier exchange" *)
(* (Tag.cpp:58): a byte that dataLength() counts is the byte of that       *)
(* number of the last read that was begun, or the application's own.       *)
LengthIsFresh == dataLen <= MaxData /\ \A i \in 0..(dataLen - 1) : Fresh(i)

(* getString() gives only bytes of the last read or the application's own, *)
(* whatever length the first four bytes claim and however short the        *)
(* response was, and leaves room for the NUL (Tag.cpp:291-303).            *)
StringIsFresh ==
    \A cap \in 0..(MaxData + 1) :
        LET n == StringLength(cap)
        IN  /\ n # 0 => n < cap
            /\ \A i \in PrefixLen..(PrefixLen + n - 1) : i \in Cells /\ Fresh(i)

(* A write request is what the PLC takes it for: it announces the type as  *)
(* the PLC gave it, though dataType_ has 8 of its 16 bits, the number of   *)
(* elements that was asked for, though it has 16 of their 32 bits, and     *)
(* carries the bytes of that many elements (Tag.cpp:66-93).  Of a STRING   *)
(* only the type is claimed: its count is cut without a check (Tag.cpp:90) *)
(* and it carries as many bytes as its length says, whatever the count.    *)
WriteIsWhole ==
    sent # NoWrite =>
        /\ sent.type = sent.wire
        /\ sent.type # String =>
              sent.count = sent.asked /\ sent.bytes = sent.count * ElementSize(sent.type)

(* poll() returns Timeout when the operation has lasted its timeout, and   *)
(* not before, though millis() wraps (ExplicitMessage.cpp:134, 143).       *)
TimeoutIsTrue == [][AppPoll /\ Busy => (last' = "Timeout" <=> elapsed >= timeout)]_vars
=============================================================================
