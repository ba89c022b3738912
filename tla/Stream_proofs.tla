---------------------------- MODULE Stream_proofs ----------------------------
(***************************************************************************)
(* Lemmas about the byte stream: what Framing's operators return, and that *)
(* the actions of EipServer keep the streams well-typed.                   *)
(***************************************************************************)
EXTENDS Framing, EipServer, TLAPS, SequenceTheorems

(* The units of a packet are units.                                        *)
LEMMA UnitsType ==
    ASSUME NEW f \in Packet
    PROVE  Units(f) \in Seq(Unit) /\ Len(Units(f)) = HeaderLen + f.len
<1>1. HeaderLen \in Nat /\ f.len \in Nat
    BY HeaderLenAssumption DEF Packet
<1>2. \A i \in 1..(HeaderLen + f.len) : [f |-> f, i |-> i] \in Unit
    BY <1>1 DEF Unit
<1> QED BY <1>1, <1>2 DEF Units

(* What a packet carries of a connection when it carries nothing.          *)
LEMMA NoConnType == NoConn \in ConnRef
BY DEF NoConn, ConnRef

(* The first n of a sequence, and what comes after them.                   *)
LEMMA SplitType ==
    ASSUME NEW S, NEW s \in Seq(S), NEW n \in 0..Len(s)
    PROVE  /\ SubSeq(s, 1, n) \in Seq(S) /\ Len(SubSeq(s, 1, n)) = n
           /\ SubSeq(s, n + 1, Len(s)) \in Seq(S)
           /\ Len(SubSeq(s, n + 1, Len(s))) = Len(s) - n
OBVIOUS

(* A length that decodeHeader() yields is a length.                        *)
LEMMA DecodedLengthsType ==
    ASSUME NEW buf \in Seq(Unit), Len(buf) = HeaderLen, NEW max \in Nat,
           NEW len \in DecodedLengths(buf, max)
    PROVE  len \in Nat
<1>1. buf[1] \in Unit
    BY HeaderLenAssumption
<1>2. buf[1].f.len \in Nat
    BY <1>1 DEF Unit, Packet
<1> QED BY <1>2 DEF DecodedLengths

(* writePending() moves a prefix of what is to be sent to the socket,      *)
(* within its buffer.                                                      *)
LEMMA WriteAllType ==
    ASSUME NEW tx \in Seq(Unit), out \in Seq(Unit), Len(out) <= SndBuf,
           tcpState \in {"Closed", "Pending", "Ok"},
           NEW w \in WriteAll(tx)
    PROVE  /\ w.tx \in Seq(Unit) /\ w.out \in Seq(Unit) /\ Len(w.out) <= SndBuf
           /\ w.tcp \in {tcpState, "Closed"}
           /\ w.st \in {"Ok", "Pending", "Closed", "Error"}
           /\ w.st = "Ok" => w.tx = <<>> /\ w.tcp = tcpState
<1>1. PICK c \in Taken(tx) :
         w = [tx  |-> SubSeq(tx, c.n + 1, Len(tx)), out |-> out \o SubSeq(tx, 1, c.n),
              tcp |-> c.tcp, st |-> c.st]
    BY DEF WriteAll
<1>2. /\ c.n \in 0..Len(tx) /\ Len(out) + c.n <= SndBuf
      /\ c.tcp \in {tcpState, "Closed"}
      /\ c.st \in {"Ok", "Pending", "Closed", "Error"}
      /\ c.st = "Ok" => c.n = Len(tx) /\ c.tcp = tcpState
    <2>1. Len(tx) \in Nat /\ Len(out) \in Nat /\ SndBuf \in Nat /\ (tx # <<>> => Len(tx) > 0)
        BY SndBufAssumption
    <2>2. CASE tx = <<>>
        <3>1. c = [n |-> 0, tcp |-> tcpState, st |-> "Ok"]
            BY <2>2 DEF Taken
        <3>2. Len(tx) = 0
            BY <2>2
        <3> QED BY <2>1, <3>1, <3>2
    <2>3. CASE tx # <<>> /\ Len(tx) <= SndBuf - Len(out)
        <3>1. \/ c = [n |-> 0, tcp |-> tcpState, st |-> "Closed"]
              \/ c = [n |-> 0, tcp |-> "Closed", st |-> "Closed"]
              \/ c = [n |-> 0, tcp |-> tcpState, st |-> "Error"]
              \/ c = [n |-> Len(tx), tcp |-> tcpState, st |-> "Ok"]
            BY <2>3 DEF Taken
        <3> QED BY <2>1, <2>3, <3>1
    <2>4. CASE tx # <<>> /\ ~(Len(tx) <= SndBuf - Len(out))
        <3>1. \/ c = [n |-> 0, tcp |-> tcpState, st |-> "Closed"]
              \/ c = [n |-> 0, tcp |-> "Closed", st |-> "Closed"]
              \/ c = [n |-> 0, tcp |-> tcpState, st |-> "Error"]
              \/ c = [n |-> SndBuf - Len(out), tcp |-> tcpState, st |-> "Pending"]
            BY <2>4 DEF Taken
        <3> QED BY <2>1, <2>4, <3>1
    <2> QED BY <2>2, <2>3, <2>4
<1>3. /\ SubSeq(tx, 1, c.n) \in Seq(Unit) /\ Len(SubSeq(tx, 1, c.n)) = c.n
      /\ SubSeq(tx, c.n + 1, Len(tx)) \in Seq(Unit)
      /\ Len(SubSeq(tx, c.n + 1, Len(tx))) = Len(tx) - c.n
    BY <1>2, SplitType
<1>4. w.tx \in Seq(Unit) /\ w.out \in Seq(Unit) /\ Len(w.out) = Len(out) + c.n
    BY <1>1, <1>3
<1>5. w.st = "Ok" => w.tx = <<>>
    <2>1. SUFFICES ASSUME w.st = "Ok" PROVE Len(w.tx) = 0
        BY <1>4
    <2> QED BY <1>1, <1>2, <1>3, <2>1
<1> QED BY <1>1, <1>2, <1>4, <1>5

(* A sequence over a set is one over a larger set.                         *)
LEMMA Widen == ASSUME NEW S, NEW T, S \subseteq T, NEW s \in Seq(S) PROVE s \in Seq(T)
OBVIOUS

(* A fill takes no more than is missing, and only of what is there: here   *)
(* and below, S is any set of units the stream consists of, R one for rx.  *)
LEMMA FillType ==
    ASSUME NEW R, NEW S \in SUBSET R, NEW rx \in Seq(R), NEW want \in Nat, Len(rx) <= want,
           NEW avail \in Seq(S), in \in Seq(S)
    PROVE  /\ Fill(rx, want, avail).rx \in Seq(R)
           /\ Fill(rx, want, avail).in \in Seq(S)
           /\ Len(Fill(rx, want, avail).rx) <= want
<1> DEFINE n == Readable(want - Len(rx))
           k == IF n <= Len(avail) THEN n ELSE Len(avail)
<1>1. n \in Nat /\ n <= want - Len(rx)
    BY DEF Readable
<1>2. k \in 0..Len(avail) /\ k <= want - Len(rx)
    BY <1>1
<1>3. /\ SubSeq(avail, 1, k) \in Seq(S) /\ Len(SubSeq(avail, 1, k)) = k
      /\ SubSeq(avail, k + 1, Len(avail)) \in Seq(S)
    BY <1>2, SplitType
<1>4. SubSeq(avail, 1, k) \in Seq(R)
    <2> HIDE DEF k
    <2> QED BY <1>3, Widen
<1>5. /\ Fill(rx, want, avail).rx = rx \o SubSeq(avail, 1, k)
      /\ Fill(rx, want, avail).in = SubSeq(avail, k + 1, Len(avail))
    BY DEF Fill
<1> HIDE DEF k
<1> QED BY <1>2, <1>3, <1>4, <1>5

(* readResponse() never holds more than is expected, and never expects     *)
(* more than a header and `max' units: a header that promises more ends it *)
(* before any of the body is taken.                                        *)
LEMMA ReadResponseType ==
    ASSUME NEW R \in SUBSET Unit, NEW S \in SUBSET R,
           NEW rx \in Seq(R), NEW want \in Nat, NEW max \in Nat,
           Len(rx) <= want, want <= HeaderLen + max,
           in \in Seq(S), tcpState \in {"Closed", "Pending", "Ok"},
           NEW r \in ReadResponse(rx, want, max)
    PROVE  /\ r.rx \in Seq(R) /\ r.in \in Seq(S) /\ r.want \in Nat
           /\ Len(r.rx) <= r.want /\ r.want <= HeaderLen + max
           /\ r.tcp \in {tcpState, "Closed"}
<1> DEFINE Stop(a, w) ==
               IF Len(a.rx) = w
               THEN {[rx |-> a.rx, want |-> w, in |-> a.in, tcp |-> tcpState, st |-> "Ok"]}
               ELSE {[rx |-> a.rx, want |-> w, in |-> a.in, tcp |-> d.tcp, st |-> d.st]
                       : d \in ReadDry}
           first == Fill(rx, want, in)
<1>1. first.rx \in Seq(R) /\ first.in \in Seq(S) /\ Len(first.rx) <= want
    BY FillType
<1>2. \A d \in ReadDry : d.tcp \in {tcpState, "Closed"}
    BY DEF ReadDry
<1>3. ASSUME NEW a, a.rx \in Seq(R), a.in \in Seq(S),
             NEW w \in Nat, Len(a.rx) <= w, w <= HeaderLen + max,
             r \in Stop(a, w)
      PROVE  /\ r.rx \in Seq(R) /\ r.in \in Seq(S) /\ r.want \in Nat
             /\ Len(r.rx) <= r.want /\ r.want <= HeaderLen + max
             /\ r.tcp \in {tcpState, "Closed"}
    <2>1. /\ r.rx = a.rx /\ r.in = a.in /\ r.want = w
          /\ r.tcp \in {tcpState, "Closed"}
        BY <1>2, <1>3
    <2> QED BY <1>3, <2>1
<1>4. CASE Len(rx) < HeaderLen /\ Len(first.rx) = HeaderLen
    <2>1. PICK len \in DecodedLengths(first.rx, max) :
             r \in IF len > max
                  THEN {[rx |-> first.rx, want |-> want, in |-> first.in,
                         tcp |-> tcpState, st |-> "Error"]}
                  ELSE Stop(Fill(first.rx, HeaderLen + len, first.in), HeaderLen + len)
        BY <1>4 DEF ReadResponse
    <2>2. len \in Nat
        <3>1. first.rx \in Seq(Unit)
            <4> HIDE DEF first
            <4> QED BY <1>1
        <3> QED BY <1>4, <2>1, <3>1, DecodedLengthsType
    <2>3. CASE len > max
        <3>1. r = [rx |-> first.rx, want |-> want, in |-> first.in,
                   tcp |-> tcpState, st |-> "Error"]
            BY <2>1, <2>3
        <3> HIDE DEF first
        <3> QED BY <1>1, <3>1
    <2>4. CASE ~(len > max)
        <3> DEFINE w == HeaderLen + len
                   a == Fill(first.rx, w, first.in)
        <3>1. w \in Nat /\ w <= HeaderLen + max /\ Len(first.rx) <= w
            BY <1>4, <2>2, <2>4, HeaderLenAssumption
        <3> HIDE DEF first
        <3>2. a.rx \in Seq(R) /\ a.in \in Seq(S) /\ Len(a.rx) <= w
            <4> HIDE DEF w
            <4> QED BY <1>1, <3>1, FillType
        <3>3. r \in Stop(a, w)
            BY <2>1, <2>4
        <3> HIDE DEF Stop, a, w
        <3> QED BY <1>3, <3>1, <3>2, <3>3
    <2> QED BY <2>3, <2>4
<1>5. CASE ~(Len(rx) < HeaderLen /\ Len(first.rx) = HeaderLen)
    <2>1. r \in Stop(first, want)
        BY <1>5 DEF ReadResponse
    <2> HIDE DEF Stop, first
    <2> QED BY <1>1, <1>3, <2>1
<1> QED BY <1>4, <1>5

(* One poll of an exchange.                                                *)
LEMMA AdvanceType ==
    ASSUME NEW R \in SUBSET Unit, NEW S \in SUBSET R,
           NEW tx \in Seq(Unit), NEW rx \in Seq(R),
           NEW want \in Nat, NEW max \in Nat,
           Len(rx) <= want, want <= HeaderLen + max,
           in \in Seq(S), out \in Seq(Unit), Len(out) <= SndBuf,
           tcpState \in {"Closed", "Pending", "Ok"},
           NEW r \in Advance(tx, rx, want, max)
    PROVE  /\ r.tx \in Seq(Unit) /\ r.rx \in Seq(R)
           /\ r.out \in Seq(Unit) /\ r.in \in Seq(S) /\ Len(r.out) <= SndBuf
           /\ r.want \in Nat /\ Len(r.rx) <= r.want /\ r.want <= HeaderLen + max
           /\ r.tcp \in {tcpState, "Closed"}
<1>1. PICK w \in WriteAll(tx) :
         r \in IF w.st = "Ok"
              THEN {[tx |-> w.tx, rx |-> q.rx, want |-> q.want, out |-> w.out, in |-> q.in,
                     tcp |-> q.tcp, sent |-> TRUE, st |-> q.st]
                      : q \in ReadResponse(rx, want, max)}
              ELSE {[tx |-> w.tx, rx |-> rx, want |-> want, out |-> w.out, in |-> in,
                     tcp |-> w.tcp, sent |-> FALSE, st |-> w.st]}
    BY DEF Advance
<1>2. /\ w.tx \in Seq(Unit) /\ w.out \in Seq(Unit) /\ Len(w.out) <= SndBuf
      /\ w.tcp \in {tcpState, "Closed"}
    BY WriteAllType
<1>3. CASE w.st = "Ok"
    <2>1. PICK q \in ReadResponse(rx, want, max) :
             r = [tx |-> w.tx, rx |-> q.rx, want |-> q.want, out |-> w.out, in |-> q.in,
                  tcp |-> q.tcp, sent |-> TRUE, st |-> q.st]
        BY <1>1, <1>3
    <2>2. /\ q.rx \in Seq(R) /\ q.in \in Seq(S) /\ q.want \in Nat
          /\ Len(q.rx) <= q.want /\ q.want <= HeaderLen + max
          /\ q.tcp \in {tcpState, "Closed"}
        BY ReadResponseType
    <2> QED BY <1>2, <2>1, <2>2
<1>4. CASE w.st # "Ok"
    BY <1>1, <1>2, <1>4
<1> QED BY <1>3, <1>4

(* A response is whole once reading it is Ok: all that is expected has     *)
(* been received, and at least a header is expected.                       *)
LEMMA ReadResponseFull ==
    ASSUME NEW rx \in Seq(Unit), NEW want \in Nat, NEW max \in Nat,
           Len(rx) <= want, HeaderLen <= want, in \in Seq(Unit),
           NEW r \in ReadResponse(rx, want, max)
    PROVE  HeaderLen <= r.want /\ (r.st = "Ok" => Len(r.rx) = r.want)
<1> DEFINE Stop(a, w) ==
               IF Len(a.rx) = w
               THEN {[rx |-> a.rx, want |-> w, in |-> a.in, tcp |-> tcpState, st |-> "Ok"]}
               ELSE {[rx |-> a.rx, want |-> w, in |-> a.in, tcp |-> d.tcp, st |-> d.st]
                       : d \in ReadDry}
           first == Fill(rx, want, in)
<1>1. \A d \in ReadDry : d.st # "Ok"
    BY DEF ReadDry
<1>2. ASSUME NEW a, NEW w, HeaderLen <= w, r \in Stop(a, w)
      PROVE  HeaderLen <= r.want /\ (r.st = "Ok" => Len(r.rx) = r.want)
    <2>1. CASE Len(a.rx) = w
        <3>1. r = [rx |-> a.rx, want |-> w, in |-> a.in, tcp |-> tcpState, st |-> "Ok"]
            BY <1>2, <2>1
        <3> QED BY <1>2, <2>1, <3>1
    <2>2. CASE Len(a.rx) # w
        <3>1. r.want = w /\ r.st # "Ok"
            BY <1>1, <1>2, <2>2
        <3> QED BY <1>2, <3>1
    <2> QED BY <2>1, <2>2
<1>3. CASE Len(rx) < HeaderLen /\ Len(first.rx) = HeaderLen
    <2>1. PICK len \in DecodedLengths(first.rx, max) :
             r \in IF len > max
                  THEN {[rx |-> first.rx, want |-> want, in |-> first.in,
                         tcp |-> tcpState, st |-> "Error"]}
                  ELSE Stop(Fill(first.rx, HeaderLen + len, first.in), HeaderLen + len)
        BY <1>3 DEF ReadResponse
    <2>2. len \in Nat
        BY <1>3, FillType, DecodedLengthsType
    <2>3. HeaderLen <= HeaderLen + len
        BY <2>2, HeaderLenAssumption
    <2>4. CASE len > max
        <3>1. r = [rx |-> first.rx, want |-> want, in |-> first.in,
                   tcp |-> tcpState, st |-> "Error"]
            BY <2>1, <2>4
        <3> HIDE DEF first
        <3> QED BY <3>1
    <2>5. CASE ~(len > max)
        <3> DEFINE w == HeaderLen + len
                   a == Fill(first.rx, w, first.in)
        <3>1. r \in Stop(a, w) /\ HeaderLen <= w
            BY <2>1, <2>3, <2>5
        <3> HIDE DEF Stop, a, w
        <3> QED BY <1>2, <3>1
    <2> QED BY <2>4, <2>5
<1>4. CASE ~(Len(rx) < HeaderLen /\ Len(first.rx) = HeaderLen)
    <2>1. r \in Stop(first, want)
        BY <1>4 DEF ReadResponse
    <2> HIDE DEF Stop, first
    <2> QED BY <1>2, <2>1
<1> QED BY <1>3, <1>4

(* So is the response of a poll that is Ok.                                *)
LEMMA AdvanceFull ==
    ASSUME NEW tx, NEW rx \in Seq(Unit), NEW want \in Nat, NEW max \in Nat,
           Len(rx) <= want, HeaderLen <= want, in \in Seq(Unit),
           NEW r \in Advance(tx, rx, want, max)
    PROVE  HeaderLen <= r.want /\ (r.st = "Ok" => Len(r.rx) = r.want)
<1>1. PICK w \in WriteAll(tx) :
         r \in IF w.st = "Ok"
              THEN {[tx |-> w.tx, rx |-> q.rx, want |-> q.want, out |-> w.out, in |-> q.in,
                     tcp |-> q.tcp, sent |-> TRUE, st |-> q.st]
                      : q \in ReadResponse(rx, want, max)}
              ELSE {[tx |-> w.tx, rx |-> rx, want |-> want, out |-> w.out, in |-> in,
                     tcp |-> w.tcp, sent |-> FALSE, st |-> w.st]}
    BY DEF Advance
<1>2. CASE w.st = "Ok"
    <2>1. PICK q \in ReadResponse(rx, want, max) :
             r.rx = q.rx /\ r.want = q.want /\ r.st = q.st
        BY <1>1, <1>2
    <2> QED BY <2>1, ReadResponseFull
<1>3. CASE w.st # "Ok"
    BY <1>1, <1>3
<1> QED BY <1>2, <1>3

(* What is expected is a header as long as there is none, and then what    *)
(* the header says, if it is one.                                          *)
Framed(rx, want) ==
    IF Len(rx) < HeaderLen THEN want = HeaderLen
    ELSE Aligned(rx) => want = HeaderLen + rx[1].f.len

(* Whether units are a header is settled by the first HeaderLen of them.   *)
LEMMA HeaderStays ==
    ASSUME NEW rx \in Seq(Unit), NEW more \in Seq(Unit), HeaderLen <= Len(rx),
           Aligned(rx \o more)
    PROVE  Aligned(rx) /\ (rx \o more)[1] = rx[1]
<1>1. \A i \in 1..HeaderLen : (rx \o more)[i] = rx[i]
    BY HeaderLenAssumption
<1>2. (rx \o more)[1] = rx[1]
    BY <1>1, HeaderLenAssumption
<1> QED BY <1>1, <1>2 DEF Aligned

(* A fill only adds units.                                                 *)
LEMMA FillAdds ==
    ASSUME NEW rx \in Seq(Unit), NEW want \in Nat, Len(rx) <= want,
           NEW avail \in Seq(Unit)
    PROVE  \E more \in Seq(Unit) : Fill(rx, want, avail).rx = rx \o more
<1> DEFINE n == Readable(want - Len(rx))
           k == IF n <= Len(avail) THEN n ELSE Len(avail)
<1>1. n \in Nat
    BY DEF Readable
<1>2. k \in 0..Len(avail)
    BY <1>1
<1>3. SubSeq(avail, 1, k) \in Seq(Unit)
    BY <1>2, SplitType
<1>4. Fill(rx, want, avail).rx = rx \o SubSeq(avail, 1, k)
    BY DEF Fill
<1> HIDE DEF k
<1> QED BY <1>3, <1>4

(* So what is expected stays right when units are added.                   *)
LEMMA FillFramed ==
    ASSUME NEW rx \in Seq(Unit), NEW want \in Nat, Len(rx) <= want,
           NEW avail \in Seq(Unit), in \in Seq(Unit),
           HeaderLen <= Len(rx), Framed(rx, want)
    PROVE  /\ HeaderLen <= Len(Fill(rx, want, avail).rx)
           /\ Framed(Fill(rx, want, avail).rx, want)
<1>1. PICK more \in Seq(Unit) : Fill(rx, want, avail).rx = rx \o more
    BY FillAdds
<1>2. HeaderLen <= Len(rx \o more)
    BY HeaderLenAssumption
<1>3. Aligned(rx \o more) => want = HeaderLen + (rx \o more)[1].f.len
    <2>1. SUFFICES ASSUME Aligned(rx \o more)
                   PROVE  want = HeaderLen + (rx \o more)[1].f.len
        OBVIOUS
    <2>2. Aligned(rx) /\ (rx \o more)[1] = rx[1]
        BY <2>1, HeaderStays
    <2>3. ~(Len(rx) < HeaderLen)
        BY HeaderLenAssumption
    <2> QED BY <2>2, <2>3 DEF Framed
<1>4. ~(Len(rx \o more) < HeaderLen)
    BY <1>2, HeaderLenAssumption
<1> QED BY <1>1, <1>2, <1>3, <1>4 DEF Framed

(* readResponse() raises what is expected by the length of the header it   *)
(* has just completed; a header that promises too much is an Error.        *)
LEMMA ReadResponseFramed ==
    ASSUME NEW rx \in Seq(Unit), NEW want \in Nat, NEW max \in Nat,
           Len(rx) <= want, Framed(rx, want), in \in Seq(Unit),
           NEW r \in ReadResponse(rx, want, max)
    PROVE  r.st = "Error" \/ Framed(r.rx, r.want)
<1> DEFINE Stop(a, w) ==
               IF Len(a.rx) = w
               THEN {[rx |-> a.rx, want |-> w, in |-> a.in, tcp |-> tcpState, st |-> "Ok"]}
               ELSE {[rx |-> a.rx, want |-> w, in |-> a.in, tcp |-> d.tcp, st |-> d.st]
                       : d \in ReadDry}
           first == Fill(rx, want, in)
<1>1. ASSUME NEW a, NEW w, Framed(a.rx, w), r \in Stop(a, w)
      PROVE  Framed(r.rx, r.want)
    <2>1. r.rx = a.rx /\ r.want = w
        BY <1>1
    <2> QED BY <1>1, <2>1
<1>2. first.rx \in Seq(Unit) /\ first.in \in Seq(Unit) /\ Len(first.rx) <= want
    BY FillType
<1>3. CASE Len(rx) < HeaderLen /\ Len(first.rx) = HeaderLen
    <2>1. PICK len \in DecodedLengths(first.rx, max) :
             r \in IF len > max
                  THEN {[rx |-> first.rx, want |-> want, in |-> first.in,
                         tcp |-> tcpState, st |-> "Error"]}
                  ELSE Stop(Fill(first.rx, HeaderLen + len, first.in), HeaderLen + len)
        BY <1>3 DEF ReadResponse
    <2> HIDE DEF first
    <2>2. len \in Nat
        BY <1>2, <1>3, <2>1, DecodedLengthsType
    <2>3. CASE len > max
        BY <2>1, <2>3
    <2>4. CASE ~(len > max)
        <3> DEFINE w == HeaderLen + len
                   a == Fill(first.rx, w, first.in)
        <3>1. r \in Stop(a, w)
            BY <2>1, <2>4
        <3>2. w \in Nat /\ Len(first.rx) <= w /\ HeaderLen <= Len(first.rx)
            BY <1>3, <2>2, HeaderLenAssumption
        <3>3. Framed(first.rx, w)
            <4>1. Aligned(first.rx) => len = first.rx[1].f.len
                BY <2>1 DEF DecodedLengths
            <4> QED BY <1>3, <4>1, HeaderLenAssumption DEF Framed
        <3>4. Framed(a.rx, w)
            <4> HIDE DEF w
            <4> QED BY <1>2, <3>2, <3>3, FillFramed
        <3> HIDE DEF Stop, a, w
        <3> QED BY <1>1, <3>1, <3>4
    <2> QED BY <2>3, <2>4
<1>4. CASE ~(Len(rx) < HeaderLen /\ Len(first.rx) = HeaderLen)
    <2>1. r \in Stop(first, want)
        BY <1>4 DEF ReadResponse
    <2>2. CASE Len(rx) < HeaderLen
        <3>1. want = HeaderLen
            BY <2>2 DEF Framed
        <3>2. Len(first.rx) < HeaderLen
            <4> HIDE DEF first
            <4> QED BY <1>2, <1>4, <2>2, <3>1, HeaderLenAssumption
        <3>3. Framed(first.rx, want)
            BY <3>1, <3>2 DEF Framed
        <3> HIDE DEF Stop, first
        <3> QED BY <1>1, <2>1, <3>3
    <2>3. CASE ~(Len(rx) < HeaderLen)
        <3>1. HeaderLen <= Len(rx)
            BY <2>3, HeaderLenAssumption
        <3>2. Framed(first.rx, want)
            BY <3>1, FillFramed
        <3> HIDE DEF Stop, first
        <3> QED BY <1>1, <2>1, <3>2
    <2> QED BY <2>2, <2>3
<1> QED BY <1>3, <1>4

(* The same of one poll, which has sent the request once it is Ok.         *)
LEMMA AdvanceFramed ==
    ASSUME NEW tx \in Seq(Unit), NEW rx \in Seq(Unit), NEW want \in Nat, NEW max \in Nat,
           Len(rx) <= want, Framed(rx, want), in \in Seq(Unit),
           out \in Seq(Unit), Len(out) <= SndBuf,
           tcpState \in {"Closed", "Pending", "Ok"},
           NEW r \in Advance(tx, rx, want, max)
    PROVE  /\ r.st = "Error" \/ Framed(r.rx, r.want)
           /\ r.st = "Ok" => r.tx = <<>>
<1>1. PICK w \in WriteAll(tx) :
         r \in IF w.st = "Ok"
              THEN {[tx |-> w.tx, rx |-> q.rx, want |-> q.want, out |-> w.out, in |-> q.in,
                     tcp |-> q.tcp, sent |-> TRUE, st |-> q.st]
                      : q \in ReadResponse(rx, want, max)}
              ELSE {[tx |-> w.tx, rx |-> rx, want |-> want, out |-> w.out, in |-> in,
                     tcp |-> w.tcp, sent |-> FALSE, st |-> w.st]}
    BY DEF Advance
<1>2. CASE w.st = "Ok"
    <2>1. PICK q \in ReadResponse(rx, want, max) :
             r.rx = q.rx /\ r.want = q.want /\ r.st = q.st /\ r.tx = w.tx
        BY <1>1, <1>2
    <2>2. w.tx = <<>>
        BY <1>2, WriteAllType
    <2> QED BY <2>1, <2>2, ReadResponseFramed
<1>3. CASE w.st # "Ok"
    <2>1. r.rx = rx /\ r.want = want /\ r.st # "Ok"
        BY <1>1, <1>3
    <2> QED BY <2>1
<1> QED BY <1>2, <1>3

(* A fill takes nothing from a connection that is not up.                  *)
LEMMA FillNeedsConnection ==
    ASSUME NEW S, NEW rx \in Seq(S), NEW want, NEW avail \in Seq(S), ~Connected
    PROVE  Len(Fill(rx, want, avail).rx) = Len(rx)
<1>1. Readable(want - Len(rx)) = 0
    BY DEF Readable
<1>2. Fill(rx, want, avail).rx = rx \o SubSeq(avail, 1, 0)
    BY <1>1 DEF Fill
<1> QED BY <1>2

(* What a verdict of readResponse() says: Pending, that the response is    *)
(* not whole; Ok, that it is and that the connection is up if anything was *)
(* missing before; and state_ changes only with Closed.                    *)
LEMMA ReadResponseVerdict ==
    ASSUME NEW rx \in Seq(Unit), NEW want \in Nat, NEW max \in Nat,
           in \in Seq(Unit), NEW r \in ReadResponse(rx, want, max)
    PROVE  /\ r.tcp = tcpState \/ r.st = "Closed"
           /\ r.st = "Pending" => Len(r.rx) # r.want
           /\ r.st = "Ok" /\ Len(rx) < want => Connected /\ r.tcp = tcpState
<1> DEFINE Stop(a, w) ==
               IF Len(a.rx) = w
               THEN {[rx |-> a.rx, want |-> w, in |-> a.in, tcp |-> tcpState, st |-> "Ok"]}
               ELSE {[rx |-> a.rx, want |-> w, in |-> a.in, tcp |-> d.tcp, st |-> d.st]
                       : d \in ReadDry}
           first == Fill(rx, want, in)
<1>1. \A d \in ReadDry : d.st # "Ok" /\ (d.tcp = tcpState \/ d.st = "Closed")
    BY DEF ReadDry
<1>2. ASSUME NEW a, NEW w, r \in Stop(a, w)
      PROVE  /\ r.tcp = tcpState \/ r.st = "Closed"
             /\ r.st = "Pending" => Len(r.rx) # r.want
             /\ r.st = "Ok" => Len(a.rx) = w /\ r.tcp = tcpState
    <2>1. CASE Len(a.rx) = w
        <3>1. r = [rx |-> a.rx, want |-> w, in |-> a.in, tcp |-> tcpState, st |-> "Ok"]
            BY <1>2, <2>1
        <3> QED BY <2>1, <3>1
    <2>2. CASE Len(a.rx) # w
        <3>1. PICK d \in ReadDry :
                 r = [rx |-> a.rx, want |-> w, in |-> a.in, tcp |-> d.tcp, st |-> d.st]
            BY <1>2, <2>2
        <3> QED BY <1>1, <2>2, <3>1
    <2> QED BY <2>1, <2>2
<1>3. ~Connected => Len(first.rx) = Len(rx)
    BY FillNeedsConnection
<1>4. CASE Len(rx) < HeaderLen /\ Len(first.rx) = HeaderLen
    <2>1. Connected
        BY <1>3, <1>4, HeaderLenAssumption
    <2>2. PICK len \in DecodedLengths(first.rx, max) :
             r \in IF len > max
                  THEN {[rx |-> first.rx, want |-> want, in |-> first.in,
                         tcp |-> tcpState, st |-> "Error"]}
                  ELSE Stop(Fill(first.rx, HeaderLen + len, first.in), HeaderLen + len)
        BY <1>4 DEF ReadResponse
    <2>3. CASE len > max
        <3>1. r = [rx |-> first.rx, want |-> want, in |-> first.in,
                   tcp |-> tcpState, st |-> "Error"]
            BY <2>2, <2>3
        <3> HIDE DEF first
        <3> QED BY <3>1
    <2>4. CASE ~(len > max)
        <3> DEFINE a == Fill(first.rx, HeaderLen + len, first.in)
        <3>1. r \in Stop(a, HeaderLen + len)
            BY <2>2, <2>4
        <3> HIDE DEF Stop, a
        <3> QED BY <1>2, <2>1, <3>1
    <2> QED BY <2>3, <2>4
<1>5. CASE ~(Len(rx) < HeaderLen /\ Len(first.rx) = HeaderLen)
    <2>1. r \in Stop(first, want)
        BY <1>5 DEF ReadResponse
    <2>2. /\ r.tcp = tcpState \/ r.st = "Closed"
          /\ r.st = "Pending" => Len(r.rx) # r.want
          /\ r.st = "Ok" => Len(first.rx) = want /\ r.tcp = tcpState
        <3> HIDE DEF Stop, first
        <3> QED BY <1>2, <2>1
    <2>3. r.st = "Ok" /\ Len(rx) < want => Connected
        <3> HIDE DEF first
        <3> QED BY <1>3, <2>2
    <2> QED BY <2>2, <2>3
<1> QED BY <1>4, <1>5

(* The same of one poll of an exchange; while the request is not sent, the *)
(* response is left alone.                                                 *)
LEMMA AdvanceVerdict ==
    ASSUME NEW tx, NEW rx \in Seq(Unit), NEW want \in Nat, NEW max \in Nat,
           in \in Seq(Unit), NEW r \in Advance(tx, rx, want, max)
    PROVE  /\ r.tcp = tcpState \/ r.st = "Closed"
           /\ r.sent /\ r.st = "Pending" => Len(r.rx) # r.want
           /\ ~r.sent => r.rx = rx /\ r.want = want /\ r.st # "Ok"
           /\ r.st = "Ok" /\ Len(rx) < want => Connected /\ r.tcp = tcpState
<1>1. PICK w \in WriteAll(tx) :
         r \in IF w.st = "Ok"
              THEN {[tx |-> w.tx, rx |-> q.rx, want |-> q.want, out |-> w.out, in |-> q.in,
                     tcp |-> q.tcp, sent |-> TRUE, st |-> q.st]
                      : q \in ReadResponse(rx, want, max)}
              ELSE {[tx |-> w.tx, rx |-> rx, want |-> want, out |-> w.out, in |-> in,
                     tcp |-> w.tcp, sent |-> FALSE, st |-> w.st]}
    BY DEF Advance
<1>2. w.tcp = tcpState \/ w.st = "Closed"
    BY DEF WriteAll, Taken
<1>3. CASE w.st = "Ok"
    <2>1. PICK q \in ReadResponse(rx, want, max) :
             /\ r.rx = q.rx /\ r.want = q.want /\ r.st = q.st /\ r.tcp = q.tcp
             /\ r.sent = TRUE
        BY <1>1, <1>3
    <2> QED BY <2>1, ReadResponseVerdict
<1>4. CASE w.st # "Ok"
    <2>1. /\ r.rx = rx /\ r.want = want /\ r.st = w.st /\ r.tcp = w.tcp
          /\ r.sent = FALSE
        BY <1>1, <1>4
    <2> QED BY <1>2, <1>4, <2>1
<1> QED BY <1>3, <1>4

(* decodeHeader() yields a packet's header, or garbage.                    *)
LEMMA DecodeHeaderType ==
    ASSUME NEW buf \in Seq(Unit), HeaderLen <= Len(buf)
    PROVE  DecodeHeader(buf) \in Packet
<1>1. buf[1] \in Unit
    BY HeaderLenAssumption
<1>2. buf[1].f \in Packet
    BY <1>1 DEF Unit
<1>3. Garbage \in Packet
    BY NoConnType DEF Garbage, Packet, ReplyKind, Service
<1> QED BY <1>2, <1>3 DEF DecodeHeader
-----------------------------------------------------------------------------
(* The empty stream.                                                       *)
LEMMA EmptyType == ASSUME NEW S PROVE <<>> \in Seq(S) /\ Len(<<>>) = 0
OBVIOUS

(* Taking one unit off a stream and putting it on another.                 *)
LEMMA MoveType ==
    ASSUME NEW S, NEW s \in Seq(S), s # <<>>, NEW t \in Seq(S)
    PROVE  /\ Tail(s) \in Seq(S) /\ Len(Tail(s)) = Len(s) - 1
           /\ Append(t, Head(s)) \in Seq(S) /\ Len(Append(t, Head(s))) = Len(t) + 1
OBVIOUS

(* What the PLC answers is a packet.                                       *)
LEMMA ReplyType ==
    ASSUME NEW req \in Packet, NEW kind \in ReplyKinds, connNo \in Nat
    PROVE  Reply(req, kind) \in Packet
<1> DEFINE sess == IF req.cmd = "UnregisterSession"
                      \/ (req.cmd = "RegisterSession" /\ kind = "malformed")
                   THEN 0 ELSE connNo
           len == CASE kind = "oversize" -> OverLen
                    [] kind = "encapError" \/ req.cmd = "UnregisterSession" -> 0
                    [] OTHER -> ReplyLen
<1>1. sess \in Nat
    OBVIOUS
<1>2. len \in Nat
    <2>1. CASE kind = "oversize"
        BY <2>1, ServerAssumption
    <2>2. CASE kind # "oversize" /\ (kind = "encapError" \/ req.cmd = "UnregisterSession")
        BY <2>2
    <2>3. CASE kind # "oversize" /\ ~(kind = "encapError" \/ req.cmd = "UnregisterSession")
        BY <2>3, ServerAssumption
    <2> QED BY <2>1, <2>2, <2>3
<1>3. kind \in ReplyKind
    BY ServerAssumption
<1>4. Reply(req, kind) = [req EXCEPT !.kind = kind, !.sess = sess, !.len = len]
    BY DEF Reply
<1> HIDE DEF sess, len
<1> QED BY <1>1, <1>2, <1>3, <1>4 DEF Packet

(* The types of everything on either side of the wire.                     *)
StreamOK == TcpTypeOK /\ SrvTypeOK

(* The initial states.                                                     *)
LEMMA StreamInitOK == TcpInit /\ SrvInit => StreamOK
<1> SUFFICES ASSUME TcpInit, SrvInit PROVE StreamOK
    OBVIOUS
<1>1. out \in Seq(Unit) /\ Len(out) = 0 /\ in \in Seq(Unit)
      /\ wire \in Seq(Unit) /\ srvIn \in Seq(Unit)
    BY EmptyType DEF TcpInit, SrvInit
<1>2. Len(out) <= SndBuf
    BY <1>1, SndBufAssumption
<1> QED BY <1>1, <1>2 DEF TcpInit, SrvInit, StreamOK, TcpTypeOK, SrvTypeOK, SocketState

(* No step of the network or of the PLC leaves the types.                  *)
LEMMA ServerKeepsTypes ==
    ASSUME StreamOK, SrvNext
    PROVE  StreamOK'
<1> USE DEF StreamOK, TcpTypeOK, SrvTypeOK
<1>1. CASE Establish /\ UNCHANGED srvVars
    BY <1>1 DEF Establish, srvVars, SocketState
<1>2. CASE PeerResets /\ UNCHANGED srvVars
    BY <1>2 DEF PeerResets, srvVars, SocketState
<1>3. CASE SrvAccept
    <2>1. /\ UNCHANGED <<fd, tcpState, tcpLate, sock, out, in, connNo>>
          /\ srvConn' = connNo /\ srvIn' = <<>> /\ srvLost' = FALSE /\ wire' = <<>>
        BY <1>3 DEF SrvAccept, tcpVars
    <2> QED BY <2>1, EmptyType
<1>4. CASE SrvReceive
    <2>1. NextIn \in Seq(Unit) /\ Tail(out) \in Seq(Unit) /\ Len(Tail(out)) = Len(out) - 1
        BY <1>4, MoveType DEF SrvReceive, NextIn
    <2> QED BY <1>4, <2>1, SndBufAssumption DEF SrvReceive
<1>5. CASE SrvHandle
    <2>1. /\ NextIn \in Seq(Unit) /\ Len(NextIn) > 0
          /\ Tail(out) \in Seq(Unit) /\ Len(Tail(out)) = Len(out) - 1
        BY <1>5, MoveType DEF SrvHandle, Consume, Respond, NextIn
    <2>2. NextIn[1].f \in Packet
        <3>1. NextIn[1] \in Unit
            <4> HIDE DEF StreamOK, TcpTypeOK, SrvTypeOK
            <4> QED BY <2>1
        <3> QED BY <3>1 DEF Unit
    <2>3. wire' \in Seq(Unit)
        <3>1. CASE wire' = wire
            BY <3>1
        <3>2. ASSUME NEW kind \in ReplyKinds, wire' = wire \o Units(Reply(NextIn[1].f, kind))
              PROVE  wire' \in Seq(Unit)
            BY <2>2, <3>2, ReplyType, UnitsType
        <3> QED BY <1>5, <3>1, <3>2 DEF SrvHandle, Consume, Respond
    <2>4. /\ srvIn' = <<>> /\ out' = Tail(out)
          /\ UNCHANGED <<fd, tcpState, tcpLate, sock, in, connNo, srvConn, srvLost>>
        BY <1>5 DEF SrvHandle, Consume, Respond
    <2> QED BY <2>1, <2>3, <2>4, SndBufAssumption
<1>6. CASE SrvMisread
    <2>1. Tail(out) \in Seq(Unit) /\ Len(Tail(out)) = Len(out) - 1
        BY <1>6, MoveType DEF SrvMisread
    <2> QED BY <1>6, <2>1, SndBufAssumption DEF SrvMisread
<1>7. CASE Deliver
    <2>1. Append(in, Head(wire)) \in Seq(Unit) /\ Tail(wire) \in Seq(Unit)
        BY <1>7, MoveType DEF Deliver
    <2> QED BY <1>7, <2>1 DEF Deliver
<1>8. CASE PeerCloses
    BY <1>8 DEF PeerCloses, srvVars, SocketState
<1> QED BY <1>1, <1>2, <1>3, <1>4, <1>5, <1>6, <1>7, <1>8 DEF SrvNext

(* Nor do the operations of TcpConnection.                                 *)
LEMMA TcpKeepsTypes ==
    ASSUME StreamOK, UNCHANGED srvVars,
           TcpClose \/ (\E st : TcpConnect(st)) \/ (\E st, late : TcpPoll(st, late))
    PROVE  StreamOK'
<1>0. SrvTypeOK /\ out' \in Seq(Unit) /\ in' \in Seq(Unit) => SrvTypeOK'
    BY DEF SrvTypeOK, srvVars
<1>1. CASE TcpClose
    <2>1. out' \in Seq(Unit) /\ Len(out') = 0 /\ in' \in Seq(Unit)
        BY <1>1, EmptyType DEF TcpClose
    <2>2. Len(out') <= SndBuf
        BY <2>1, SndBufAssumption
    <2> QED BY <1>0, <1>1, <2>1, <2>2 DEF TcpClose, StreamOK, TcpTypeOK, SocketState
<1>2. CASE UNCHANGED tcpVars
    BY <1>2 DEF tcpVars, srvVars, StreamOK, TcpTypeOK, SrvTypeOK
<1>3. ASSUME NEW st, TcpConnect(st)
      PROVE  StreamOK'
    <2>1. CASE st = "Pending" /\ ~TcpClose /\ ~UNCHANGED tcpVars
        <3>1. /\ fd' = TRUE /\ tcpState' = "Pending" /\ tcpLate' = FALSE
              /\ sock' = "connecting" /\ out' = <<>> /\ in' = <<>>
              /\ connNo' = connNo + 1
            BY <1>3, <2>1 DEF TcpConnect
        <3>2. out' \in Seq(Unit) /\ Len(out') = 0 /\ in' \in Seq(Unit)
            BY <3>1, EmptyType
        <3>3. Len(out') <= SndBuf
            BY <3>2, SndBufAssumption
        <3>4. connNo' \in Nat
            BY <3>1 DEF StreamOK, TcpTypeOK
        <3>5. TcpTypeOK'
            BY <3>1, <3>3, <3>4 DEF TcpTypeOK, SocketState
        <3> QED BY <1>0, <3>2, <3>5 DEF StreamOK
    <2> QED BY <1>1, <1>2, <1>3, <2>1 DEF TcpConnect
<1>4. ASSUME NEW st, NEW late, TcpPoll(st, late)
      PROVE  StreamOK'
    <2>1. CASE ~TcpClose /\ ~UNCHANGED tcpVars
        <3>1. /\ fd /\ sock # "none" /\ tcpState' = "Ok"
              /\ UNCHANGED <<fd, tcpLate, sock, out, in, connNo>>
            BY <1>4, <2>1 DEF TcpPoll
        <3> QED BY <1>0, <3>1 DEF StreamOK, TcpTypeOK, SrvTypeOK
    <2> QED BY <1>1, <1>2, <2>1
<1> QED BY <1>1, <1>3, <1>4
-----------------------------------------------------------------------------
(* Where units come from.  What arrives from a PLC consists of the units   *)
(* of its replies: here S is any set of units that has all of those.       *)
LEMMA ServerReplies ==
    ASSUME StreamOK, SrvNext, NEW S \in SUBSET Unit,
           \A req \in Packet, kind \in ReplyKinds, j \in Nat :
               [f |-> Reply(req, kind), i |-> j] \in S,
           srvConn <= connNo, in \in Seq(S), srvConn = connNo => wire \in Seq(S)
    PROVE  /\ connNo' = connNo /\ srvConn' <= connNo'
           /\ in' \in Seq(S) /\ (srvConn' = connNo' => wire' \in Seq(S))
<1>0. connNo \in Nat /\ srvConn \in Nat
    BY DEF StreamOK, TcpTypeOK, SrvTypeOK
<1>1. CASE Establish /\ UNCHANGED srvVars
    BY <1>0, <1>1 DEF Establish, srvVars
<1>2. CASE PeerResets /\ UNCHANGED srvVars
    BY <1>0, <1>2 DEF PeerResets, srvVars
<1>3. CASE SrvAccept
    BY <1>0, <1>3, EmptyType DEF SrvAccept, tcpVars
<1>4. CASE SrvReceive
    BY <1>0, <1>4 DEF SrvReceive
<1>5. CASE SrvHandle
    <2>1. /\ srvConn = connNo /\ srvConn' = srvConn /\ connNo' = connNo /\ in' = in
          /\ out # <<>> /\ srvIn \in Seq(Unit) /\ out \in Seq(Unit)
        BY <1>5 DEF SrvHandle, Consume, Respond, Serving, StreamOK, SrvTypeOK
    <2>2. NextIn[1].f \in Packet
        <3>1. NextIn \in Seq(Unit) /\ Len(NextIn) > 0
            BY <2>1, MoveType DEF NextIn
        <3>2. NextIn[1] \in Unit
            BY <3>1
        <3> QED BY <3>2 DEF Unit
    <2>3. ASSUME NEW kind \in ReplyKinds
          PROVE  Units(Reply(NextIn[1].f, kind)) \in Seq(S)
        <3> DEFINE reply == Reply(NextIn[1].f, kind)
        <3>1. reply \in Packet
            BY <1>0, <2>2, ReplyType
        <3>2. \A j \in Nat : [f |-> reply, i |-> j] \in S
            BY <2>2
        <3>3. HeaderLen + reply.len \in Nat
            BY <3>1, HeaderLenAssumption DEF Packet
        <3> HIDE DEF reply
        <3>4. \A j \in 1..(HeaderLen + reply.len) : [f |-> reply, i |-> j] \in S
            BY <3>2, <3>3
        <3>5. Units(reply) \in Seq(S)
            BY <3>3, <3>4 DEF Units
        <3> QED BY <3>5 DEF reply
    <2>4. wire' \in Seq(S)
        <3>1. CASE wire' = wire
            BY <2>1, <3>1
        <3>2. ASSUME NEW kind \in ReplyKinds, wire' = wire \o Units(Reply(NextIn[1].f, kind))
              PROVE  wire' \in Seq(S)
            BY <2>1, <2>3, <3>2
        <3> QED BY <1>5, <3>1, <3>2 DEF SrvHandle, Consume, Respond
    <2> QED BY <1>0, <2>1, <2>4
<1>6. CASE SrvMisread
    BY <1>0, <1>6 DEF SrvMisread
<1>7. CASE Deliver
    <2>1. /\ srvConn = connNo /\ srvConn' = srvConn /\ connNo' = connNo /\ wire # <<>>
          /\ in' = Append(in, Head(wire)) /\ wire' = Tail(wire)
        BY <1>7 DEF Deliver, Serving
    <2>2. in' \in Seq(S) /\ wire' \in Seq(S)
        BY <2>1, MoveType
    <2> QED BY <1>0, <2>1, <2>2
<1>8. CASE PeerCloses
    BY <1>0, <1>8 DEF PeerCloses, srvVars
<1> QED BY <1>1, <1>2, <1>3, <1>4, <1>5, <1>6, <1>7, <1>8 DEF SrvNext

(* The units a PLC sends on a connection carry no handle, or the one it    *)
(* gives on this connection.                                               *)
LEMMA ServerSends ==
    ASSUME StreamOK, SrvNext, NEW S \in SUBSET Unit,
           \A u \in Unit : u.f.sess \in {0, connNo} => u \in S,
           srvConn <= connNo, in \in Seq(S), srvConn = connNo => wire \in Seq(S)
    PROVE  /\ connNo' = connNo /\ srvConn' <= connNo'
           /\ in' \in Seq(S) /\ (srvConn' = connNo' => wire' \in Seq(S))
<1>1. ASSUME NEW req \in Packet, NEW kind \in ReplyKinds, NEW j \in Nat
      PROVE  [f |-> Reply(req, kind), i |-> j] \in S
    <2> DEFINE reply == Reply(req, kind)
    <2>1. reply \in Packet
        BY ReplyType DEF StreamOK, TcpTypeOK
    <2>2. reply.sess \in {0, connNo}
        BY DEF Reply, Packet
    <2> HIDE DEF reply
    <2>3. [f |-> reply, i |-> j] \in S
        BY <2>1, <2>2 DEF Unit
    <2> QED BY <2>3 DEF reply
<1> QED BY <1>1, ServerReplies

(* A PLC sends no requests.                                                *)
AnswerUnit == {u \in Unit : u.f.kind # "request"}

(* Its step for the answers: where only answers are under way, it sends    *)
(* only answers.                                                           *)
LEMMA ServerAnswers ==
    ASSUME StreamOK, SrvNext,
           srvConn <= connNo, in \in Seq(AnswerUnit),
           srvConn = connNo => wire \in Seq(AnswerUnit)
    PROVE  /\ connNo' = connNo /\ srvConn' <= connNo'
           /\ in' \in Seq(AnswerUnit)
           /\ (srvConn' = connNo' => wire' \in Seq(AnswerUnit))
<1>1. ASSUME NEW req \in Packet, NEW kind \in ReplyKinds, NEW j \in Nat
      PROVE  [f |-> Reply(req, kind), i |-> j] \in AnswerUnit
    <2> DEFINE reply == Reply(req, kind)
    <2>1. reply \in Packet
        BY ReplyType DEF StreamOK, TcpTypeOK
    <2>2. reply.kind = kind
        BY DEF Reply, Packet
    <2>3. kind # "request"
        BY ServerAssumption DEF ReplyKind
    <2> HIDE DEF reply
    <2>4. [f |-> reply, i |-> j] \in AnswerUnit
        BY <2>1, <2>2, <2>3 DEF Unit, AnswerUnit
    <2> QED BY <2>4 DEF reply
<1>2. AnswerUnit \in SUBSET Unit
    BY DEF AnswerUnit
<1> QED BY <1>1, <1>2, ServerReplies

(* The operations of TcpConnection only ever drop units that have arrived, *)
(* and a new connection begins with none.                                  *)
LEMMA TcpDrops ==
    ASSUME StreamOK, NEW S,
           TcpClose \/ (\E st : TcpConnect(st)) \/ (\E st, late : TcpPoll(st, late))
    PROVE  /\ in \in Seq(S) => in' \in Seq(S)
           /\ connNo' = connNo \/ (connNo' = connNo + 1 /\ in' = <<>>)
           /\ connNo' \in Nat /\ connNo <= connNo'
<1>1. ASSUME NEW st, TcpConnect(st), ~TcpClose, ~UNCHANGED tcpVars
      PROVE  connNo' = connNo + 1 /\ in' = <<>>
    BY <1>1 DEF TcpConnect
<1>2. ASSUME NEW st, NEW late, TcpPoll(st, late), ~TcpClose, ~UNCHANGED tcpVars
      PROVE  connNo' = connNo /\ in' = in
    BY <1>2 DEF TcpPoll
<1>3. \/ connNo' = connNo /\ in' = in
      \/ connNo' = connNo /\ in' = <<>>
      \/ connNo' = connNo + 1 /\ in' = <<>>
    BY <1>1, <1>2 DEF tcpVars, TcpClose
<1>4. connNo \in Nat
    BY DEF StreamOK, TcpTypeOK
<1>5. connNo' \in Nat /\ connNo <= connNo'
    BY <1>3, <1>4
<1>6. in \in Seq(S) => in' \in Seq(S)
    <2>1. <<>> \in Seq(S)
        BY EmptyType
    <2> QED BY <1>3, <2>1
<1> QED BY <1>3, <1>5, <1>6
-----------------------------------------------------------------------------
(* writePending() leaves units of what was to be sent, and adds such units *)
(* to the socket's buffer (Session.cpp:162-175).                           *)
LEMMA AdvanceSends ==
    ASSUME NEW T \in SUBSET Unit, NEW O \in SUBSET Unit, T \subseteq O,
           NEW tx \in Seq(T), out \in Seq(O), Len(out) <= SndBuf,
           NEW rx \in Seq(Unit), NEW want \in Nat, NEW max \in Nat,
           NEW r \in Advance(tx, rx, want, max)
    PROVE  r.tx \in Seq(T) /\ r.out \in Seq(O)
<1>1. PICK w \in WriteAll(tx) : r.tx = w.tx /\ r.out = w.out
    BY DEF Advance
<1>2. PICK c \in Taken(tx) :
         w = [tx  |-> SubSeq(tx, c.n + 1, Len(tx)), out |-> out \o SubSeq(tx, 1, c.n),
              tcp |-> c.tcp, st |-> c.st]
    BY DEF WriteAll
<1>3. c.n \in 0..Len(tx)
    <2>1. Len(out) \in Nat /\ Len(tx) \in Nat /\ SndBuf \in Nat
        BY SndBufAssumption
    <2>2. CASE tx = <<>> \/ ~fd \/ ~Connected \/ sock = "reset"
        BY <2>1, <2>2 DEF Taken
    <2>3. CASE ~(tx = <<>> \/ ~fd \/ ~Connected \/ sock = "reset")
        BY <2>1, <2>3 DEF Taken
    <2> QED BY <2>2, <2>3
<1>4. SubSeq(tx, 1, c.n) \in Seq(T) /\ SubSeq(tx, c.n + 1, Len(tx)) \in Seq(T)
    BY <1>3, SplitType
<1>5. SubSeq(tx, 1, c.n) \in Seq(O)
    BY <1>4, Widen
<1>6. out \o SubSeq(tx, 1, c.n) \in Seq(O)
    BY <1>5
<1> QED BY <1>1, <1>2, <1>4, <1>6

(* The units of a packet, by what holds of each.                           *)
LEMMA UnitsIn ==
    ASSUME NEW S, NEW f, HeaderLen + f.len \in Nat, \A j \in Nat : [f |-> f, i |-> j] \in S
    PROVE  Units(f) \in Seq(S)
BY DEF Units

(* A header that decodes to a known command is the one of a unit received. *)
LEMMA DecodedFrom ==
    ASSUME NEW S, NEW buf \in Seq(S), HeaderLen <= Len(buf),
           DecodeHeader(buf).cmd # "Garbage"
    PROVE  \E u \in S : DecodeHeader(buf) = u.f
<1>1. buf[1] \in S
    BY HeaderLenAssumption
<1>2. DecodeHeader(buf) = buf[1].f
    BY DEF DecodeHeader, Garbage
<1> QED BY <1>1, <1>2

(* The first n of a sequence and what comes after them are the sequence.   *)
LEMMA SplitJoins ==
    ASSUME NEW S, NEW s \in Seq(S), NEW n \in 0..Len(s)
    PROVE  SubSeq(s, 1, n) \o SubSeq(s, n + 1, Len(s)) = s
<1>1. Len(s) \in Nat /\ 1 \in 1..(Len(s) + 1) /\ n \in (1 - 1)..Len(s) /\ Len(s) \in n..Len(s)
    OBVIOUS
<1>2. SubSeq(s, 1, n) \o SubSeq(s, n + 1, Len(s)) = SubSeq(s, 1, Len(s))
    BY <1>1, ConcatAdjacentSubSeq, Zenon
<1> QED BY <1>2, SubSeqFull, Zenon

(* writePending() moves a prefix of what is to be sent to the socket.      *)
LEMMA AdvanceSplits ==
    ASSUME NEW tx \in Seq(Unit), out \in Seq(Unit), Len(out) <= SndBuf,
           NEW rx \in Seq(Unit), NEW want \in Nat, NEW max \in Nat,
           NEW r \in Advance(tx, rx, want, max)
    PROVE  \E n \in 0..Len(tx) : /\ r.tx = SubSeq(tx, n + 1, Len(tx))
                                 /\ r.out = out \o SubSeq(tx, 1, n)
<1>1. PICK w \in WriteAll(tx) : r.tx = w.tx /\ r.out = w.out
    BY DEF Advance
<1>2. PICK c \in Taken(tx) :
         w = [tx  |-> SubSeq(tx, c.n + 1, Len(tx)), out |-> out \o SubSeq(tx, 1, c.n),
              tcp |-> c.tcp, st |-> c.st]
    BY DEF WriteAll
<1>3. c.n \in 0..Len(tx)
    <2>1. Len(out) \in Nat /\ Len(tx) \in Nat /\ SndBuf \in Nat
        BY SndBufAssumption
    <2>2. CASE tx = <<>> \/ ~fd \/ ~Connected \/ sock = "reset"
        BY <2>1, <2>2 DEF Taken
    <2>3. CASE ~(tx = <<>> \/ ~fd \/ ~Connected \/ sock = "reset")
        BY <2>1, <2>3 DEF Taken
    <2> QED BY <2>2, <2>3
<1> QED BY <1>1, <1>2, <1>3

(* A sequence is empty when it has no length, and two make one that is     *)
(* empty when both are.                                                    *)
LEMMA NothingLeft == ASSUME NEW S, NEW s \in Seq(S), Len(s) = 0 PROVE s = <<>>
BY EmptySeq

LEMMA JoinsType ==
    ASSUME NEW S, NEW s \in Seq(S), NEW t \in Seq(S)
    PROVE  s \o t \in Seq(S) /\ (s \o t = <<>> => s = <<>> /\ t = <<>>)
<1>1. s \o t \in Seq(S) /\ Len(s \o t) = Len(s) + Len(t)
    OBVIOUS
<1>2. ASSUME s \o t = <<>>
      PROVE  s = <<>> /\ t = <<>>
    <2>1. Len(s) \in Nat /\ Len(t) \in Nat /\ Len(s) + Len(t) = 0
        BY <1>1, <1>2
    <2>2. Len(s) = 0 /\ Len(t) = 0
        BY <2>1
    <2> QED BY <2>2, NothingLeft
<1> QED BY <1>1, <1>2

(* A unit moves from the front of one stream to the end of another.        *)
LEMMA JoinsMove ==
    ASSUME NEW s \in Seq(Unit), NEW t \in Seq(Unit), NEW w \in Seq(Unit), w # <<>>
    PROVE  (s \o Append(t, Head(w))) \o Tail(w) = (s \o t) \o w
<1> DEFINE a == (s \o Append(t, Head(w))) \o Tail(w)
           b == (s \o t) \o w
<1>1. a \in Seq(Unit) /\ b \in Seq(Unit) /\ Len(a) = Len(b)
    OBVIOUS
<1>2. \A j \in 1..Len(a) : a[j] = b[j]
    OBVIOUS
<1> HIDE DEF a, b
<1> QED BY <1>1, <1>2, SeqEqual DEF a, b

(* Streams are put together in any order.                                  *)
LEMMA JoinsAssociate ==
    ASSUME NEW s \in Seq(Unit), NEW t \in Seq(Unit), NEW u \in Seq(Unit)
    PROVE  (s \o t) \o u = s \o (t \o u)
<1>1. PICK S : S = Unit
    OBVIOUS
<1>2. s \in Seq(S) /\ t \in Seq(S) /\ u \in Seq(S)
    BY <1>1
<1> QED BY <1>2, ConcatAssociative

(* What an exchange does to the streams as a whole: a poll moves units and *)
(* neither adds, loses nor reorders any (Session.cpp:162-206).  A fill     *)
(* takes a prefix of what has arrived,                                     *)
LEMMA FillMoves ==
    ASSUME NEW rx \in Seq(Unit), NEW want \in Nat, Len(rx) <= want,
           NEW avail \in Seq(Unit), in \in Seq(Unit)
    PROVE  Fill(rx, want, avail).rx \o Fill(rx, want, avail).in = rx \o avail
<1> DEFINE n == Readable(want - Len(rx))
           k == IF n <= Len(avail) THEN n ELSE Len(avail)
           a == SubSeq(avail, 1, k)
           b == SubSeq(avail, k + 1, Len(avail))
<1>1. n \in Nat
    BY DEF Readable
<1>2. k \in 0..Len(avail)
    BY <1>1
<1>3. Fill(rx, want, avail).rx = rx \o a /\ Fill(rx, want, avail).in = b
    BY DEF Fill
<1>4. a \o b = avail /\ a \in Seq(Unit) /\ b \in Seq(Unit)
    <2> HIDE DEF k
    <2> QED BY <1>2, SplitType, SplitJoins
<1> HIDE DEF a, b
<1>5. (rx \o a) \o b = rx \o (a \o b)
    BY <1>4, JoinsAssociate
<1> QED BY <1>3, <1>4, <1>5

(* so reading a response does,                                             *)
LEMMA ReadResponseMoves ==
    ASSUME NEW rx \in Seq(Unit), NEW want \in Nat, NEW max \in Nat,
           Len(rx) <= want, want <= HeaderLen + max,
           in \in Seq(Unit), tcpState \in {"Closed", "Pending", "Ok"},
           NEW r \in ReadResponse(rx, want, max)
    PROVE  r.rx \o r.in = rx \o in
<1> DEFINE Stop(a, w) ==
               IF Len(a.rx) = w
               THEN {[rx |-> a.rx, want |-> w, in |-> a.in, tcp |-> tcpState, st |-> "Ok"]}
               ELSE {[rx |-> a.rx, want |-> w, in |-> a.in, tcp |-> d.tcp, st |-> d.st]
                       : d \in ReadDry}
           first == Fill(rx, want, in)
<1>1. /\ first.rx \in Seq(Unit) /\ first.in \in Seq(Unit) /\ Len(first.rx) <= want
      /\ first.rx \o first.in = rx \o in
    BY FillType, FillMoves
<1>2. ASSUME NEW a, NEW w, r \in Stop(a, w)
      PROVE  r.rx = a.rx /\ r.in = a.in
    BY <1>2
<1>3. CASE Len(rx) < HeaderLen /\ Len(first.rx) = HeaderLen
    <2>1. PICK len \in DecodedLengths(first.rx, max) :
             r \in IF len > max
                  THEN {[rx |-> first.rx, want |-> want, in |-> first.in,
                         tcp |-> tcpState, st |-> "Error"]}
                  ELSE Stop(Fill(first.rx, HeaderLen + len, first.in), HeaderLen + len)
        BY <1>3 DEF ReadResponse
    <2>2. len \in Nat
        <3> HIDE DEF first
        <3> QED BY <1>1, <1>3, <2>1, DecodedLengthsType
    <2>3. CASE len > max
        <3>1. r = [rx |-> first.rx, want |-> want, in |-> first.in,
                   tcp |-> tcpState, st |-> "Error"]
            BY <2>1, <2>3
        <3> HIDE DEF first
        <3> QED BY <1>1, <3>1
    <2>4. CASE ~(len > max)
        <3> DEFINE w == HeaderLen + len
                   a == Fill(first.rx, w, first.in)
        <3>1. w \in Nat /\ Len(first.rx) <= w
            BY <1>3, <2>2, HeaderLenAssumption
        <3> HIDE DEF first
        <3>2. a.rx \o a.in = first.rx \o first.in
            <4> HIDE DEF w
            <4> QED BY <1>1, <3>1, FillMoves
        <3>3. r \in Stop(a, w)
            BY <2>1, <2>4
        <3> HIDE DEF Stop, a, w
        <3> QED BY <1>1, <1>2, <3>2, <3>3
    <2> QED BY <2>3, <2>4
<1>4. CASE ~(Len(rx) < HeaderLen /\ Len(first.rx) = HeaderLen)
    <2>1. r \in Stop(first, want)
        BY <1>4 DEF ReadResponse
    <2> HIDE DEF Stop, first
    <2> QED BY <1>1, <1>2, <2>1
<1> QED BY <1>3, <1>4

(* and one poll of an exchange on both sides: here a stream is what two    *)
(* buffers hold together.                                                  *)
Joined(ahead, behind) == ahead \o behind

LEMMA AdvanceMoves ==
    ASSUME NEW tx \in Seq(Unit), NEW rx \in Seq(Unit), NEW want \in Nat, NEW max \in Nat,
           Len(rx) <= want, want <= HeaderLen + max,
           in \in Seq(Unit), out \in Seq(Unit), Len(out) <= SndBuf,
           tcpState \in {"Closed", "Pending", "Ok"},
           NEW r \in Advance(tx, rx, want, max)
    PROVE  Joined(r.out, r.tx) = Joined(out, tx) /\ Joined(r.rx, r.in) = Joined(rx, in)
<1>1. PICK n \in 0..Len(tx) : /\ r.tx = SubSeq(tx, n + 1, Len(tx))
                              /\ r.out = out \o SubSeq(tx, 1, n)
    BY AdvanceSplits, ZenonT(60)
<1>2. r.out \o r.tx = out \o tx
    <2> DEFINE a == SubSeq(tx, 1, n)
               b == SubSeq(tx, n + 1, Len(tx))
    <2>1. a \o b = tx /\ a \in Seq(Unit) /\ b \in Seq(Unit)
        BY SplitType, SplitJoins
    <2>2. r.out = out \o a /\ r.tx = b
        BY <1>1
    <2> HIDE DEF a, b
    <2>3. (out \o a) \o b = out \o (a \o b)
        BY <2>1, JoinsAssociate
    <2> QED BY <2>1, <2>2, <2>3
<1>3. PICK w \in WriteAll(tx) :
         r \in IF w.st = "Ok"
              THEN {[tx |-> w.tx, rx |-> q.rx, want |-> q.want, out |-> w.out, in |-> q.in,
                     tcp |-> q.tcp, sent |-> TRUE, st |-> q.st]
                      : q \in ReadResponse(rx, want, max)}
              ELSE {[tx |-> w.tx, rx |-> rx, want |-> want, out |-> w.out, in |-> in,
                     tcp |-> w.tcp, sent |-> FALSE, st |-> w.st]}
    BY DEF Advance
<1>4. r.rx \o r.in = rx \o in
    <2>1. CASE w.st = "Ok"
        <3>1. PICK q \in ReadResponse(rx, want, max) : r.rx = q.rx /\ r.in = q.in
            BY <1>3, <2>1
        <3> QED BY <3>1, ReadResponseMoves
    <2>2. CASE w.st # "Ok"
        BY <1>3, <2>2
    <2> QED BY <2>1, <2>2
<1> QED BY <1>2, <1>4 DEF Joined
=============================================================================
