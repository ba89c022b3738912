-------------------------- MODULE Requesters_proofs --------------------------
(***************************************************************************)
(* Lemmas about the operations of ExplicitMessage and of Session, the two  *)
(* classes that send a request and wait for its response, used wherever a  *)
(* message or a session is part of a system.                               *)
(***************************************************************************)
EXTENDS ExplicitMessage, Session, Stream_proofs

(* What of the message receive framing rests on.                           *)
MsgOK ==
    /\ MsgTypeOK
    /\ Len(msgRx) <= msgWant /\ msgWant <= HeaderLen + MsgMaxBody

(* Starting an exchange (ExplicitMessage.cpp:91-137).                      *)
LEMMA SendKeepsTypes ==
    ASSUME MsgOK, NEW sess \in Nat, NEW svc \in Service, NEW name \in Names \cup {NoName},
           NEW conn \in ConnRef, NEW valid, NEW st,
           MsgSend(sess, svc, name, conn, valid, st)
    PROVE  MsgOK'
<1>1. CASE UNCHANGED msgVars
    BY <1>1 DEF msgVars, MsgOK, MsgTypeOK
<1>2. CASE StartSend(sess, svc, name, conn)
    <2>1. Request(sess, svc, name, conn) \in Packet
        BY MsgAssumption DEF Request, Packet, MsgOK, MsgTypeOK, Command
    <2>2. msgTx' \in Seq(Unit)
        BY <1>2, <2>1, UnitsType DEF StartSend
    <2>3. msgRx' \in Seq(Unit) /\ Len(msgRx') = 0
        BY <1>2, EmptyType DEF StartSend
    <2>4. /\ msgWant' = HeaderLen /\ sentContext' = context /\ context' = context + 1
          /\ msgLate' = FALSE /\ msgState' = "Sending"
        BY <1>2 DEF StartSend
    <2>5. msgWant' \in Nat /\ Len(msgRx') <= msgWant' /\ msgWant' <= HeaderLen + MsgMaxBody
        BY <2>3, <2>4, HeaderLenAssumption, MsgAssumption
    <2>6. context' \in Nat /\ sentContext' \in Nat
        BY <2>4 DEF MsgOK, MsgTypeOK
    <2> QED BY <2>2, <2>3, <2>4, <2>5, <2>6 DEF MsgOK, MsgTypeOK, MsgStates
<1> QED BY <1>1, <1>2 DEF MsgSend

(* Giving one up (ExplicitMessage.cpp:16-19).                              *)
LEMMA AbortKeepsTypes ==
    ASSUME MsgOK, MsgAbort
    PROVE  MsgOK'
BY DEF MsgAbort, MsgOK, MsgTypeOK, MsgStates

(* Polling it (ExplicitMessage.cpp:139-209): the buffers of both sides     *)
(* stay well-typed and bounded.                                            *)
LEMMA PollKeepsTypes ==
    ASSUME MsgOK, StreamOK, NEW st, MsgPoll(st), UNCHANGED srvVars
    PROVE  MsgOK' /\ StreamOK'
<1>1. CASE MsgTimeout(st)
    BY <1>1 DEF MsgTimeout, MsgOK, MsgTypeOK, MsgStates, StreamOK, TcpTypeOK, SrvTypeOK,
                srvVars, tcpVars
<1>2. CASE MsgSettled(st)
    BY <1>2 DEF MsgSettled, MsgOK, MsgTypeOK, StreamOK, TcpTypeOK, SrvTypeOK, srvVars,
                tcpVars, msgVars
<1>3. CASE MsgAdvance(st)
    <2>1. PICK r \in Advance(msgTx, msgRx, msgWant, MsgMaxBody) :
             /\ msgTx' = r.tx /\ msgRx' = r.rx /\ msgWant' = r.want
             /\ out' = r.out /\ in' = r.in /\ tcpState' = r.tcp
             /\ msgState' = CASE st = "Ok"      -> "Done"
                              [] st = "Pending" -> IF r.sent THEN "Receiving" ELSE msgState
                              [] OTHER          -> "Failed"
        BY <1>3 DEF MsgAdvance
    <2>2. UNCHANGED <<msgLate, context, sentContext, fd, tcpLate, sock, connNo>>
        BY <1>3 DEF MsgAdvance
    <2>3. /\ r.tx \in Seq(Unit) /\ r.rx \in Seq(Unit)
          /\ r.out \in Seq(Unit) /\ r.in \in Seq(Unit) /\ Len(r.out) <= SndBuf
          /\ r.want \in Nat /\ Len(r.rx) <= r.want
          /\ r.want <= HeaderLen + MsgMaxBody
          /\ r.tcp \in {tcpState, "Closed"}
        BY AdvanceType, MsgAssumption
           DEF MsgOK, MsgTypeOK, StreamOK, TcpTypeOK, SrvTypeOK
    <2>4. msgState' \in MsgStates
        BY <2>1 DEF MsgOK, MsgTypeOK, MsgStates
    <2>5. MsgOK'
        BY <2>1, <2>2, <2>3, <2>4 DEF MsgOK, MsgTypeOK
    <2>6. StreamOK'
        BY <2>1, <2>2, <2>3 DEF StreamOK, TcpTypeOK, SrvTypeOK, srvVars
    <2> QED BY <2>5, <2>6
<1> QED BY <1>1, <1>2, <1>3 DEF MsgPoll

-----------------------------------------------------------------------------
(* An exchange waits for a header at least, and has one once it is Done.   *)
MsgFull ==
    /\ MsgInFlight => HeaderLen <= msgWant
    /\ msgState = "Done" => HeaderLen <= Len(msgRx)

(* A message once Done holds a whole header: send() starts over            *)
(* (ExplicitMessage.cpp:21-39).                                            *)
LEMMA SendKeepsFull ==
    ASSUME MsgFull, NEW sess, NEW svc, NEW name, NEW conn, NEW valid, NEW st,
           MsgSend(sess, svc, name, conn, valid, st)
    PROVE  MsgFull'
<1>1. CASE UNCHANGED msgVars
    BY <1>1 DEF msgVars, MsgFull, MsgInFlight
<1>2. CASE StartSend(sess, svc, name, conn)
    <2>1. msgWant' = HeaderLen /\ msgState' = "Sending"
        BY <1>2 DEF StartSend
    <2>2. HeaderLen <= HeaderLen
        BY HeaderLenAssumption
    <2> QED BY <2>1, <2>2 DEF MsgFull
<1> QED BY <1>1, <1>2 DEF MsgSend

(* abort() leaves it Idle (ExplicitMessage.cpp:16-19).                     *)
LEMMA AbortKeepsFull == MsgAbort => MsgFull'
BY DEF MsgAbort, MsgFull, MsgInFlight

(* poll() reports Ok only with the whole response in rx_                   *)
(* (ExplicitMessage.cpp:139-172).                                          *)
LEMMA PollKeepsFull ==
    ASSUME MsgOK, StreamOK, MsgFull, NEW st, MsgPoll(st)
    PROVE  MsgFull' /\ (st = "Ok" => msgState' = "Done")
<1>1. CASE MsgTimeout(st)
    BY <1>1 DEF MsgTimeout, MsgFull, MsgInFlight
<1>2. CASE MsgSettled(st)
    BY <1>2 DEF MsgSettled, MsgFull, MsgInFlight, msgVars
<1>3. CASE MsgAdvance(st)
    <2>1. PICK r \in Advance(msgTx, msgRx, msgWant, MsgMaxBody) :
             /\ msgRx' = r.rx /\ msgWant' = r.want
             /\ st = IF r.st = "Ok" THEN ParseResponse(r.rx) ELSE r.st
             /\ msgState' = CASE st = "Ok"      -> "Done"
                              [] st = "Pending" -> IF r.sent THEN "Receiving" ELSE msgState
                              [] OTHER          -> "Failed"
        BY <1>3 DEF MsgAdvance
    <2>2. HeaderLen <= msgWant /\ MsgInFlight
        BY <1>3 DEF MsgAdvance, MsgFull
    <2>3. HeaderLen <= r.want /\ (r.st = "Ok" => Len(r.rx) = r.want)
        BY <2>2, AdvanceFull, MsgAssumption DEF MsgOK, MsgTypeOK, StreamOK, SrvTypeOK
    <2>4. msgState' = "Done" => st = "Ok"
        BY <2>1, <2>2 DEF MsgInFlight
    <2>5. st = "Ok" => msgState' = "Done" /\ r.st = "Ok"
        BY <2>1
    <2> QED BY <2>1, <2>3, <2>4, <2>5 DEF MsgFull
<1> QED BY <1>1, <1>2, <1>3 DEF MsgPoll

(* The initial states.                                                     *)
LEMMA MsgInitOK == MsgInit => MsgOK
<1> SUFFICES ASSUME MsgInit PROVE MsgOK
    OBVIOUS
<1>1. msgTx \in Seq(Unit) /\ msgRx \in Seq(Unit) /\ Len(msgRx) = 0
    BY EmptyType DEF MsgInit
<1>2. /\ msgWant \in Nat /\ Len(msgRx) <= msgWant /\ msgWant <= HeaderLen + MsgMaxBody
      /\ context \in Nat /\ sentContext \in Nat
    BY <1>1, HeaderLenAssumption, MsgAssumption DEF MsgInit
<1> QED BY <1>1, <1>2 DEF MsgInit, MsgOK, MsgTypeOK, MsgStates

(* poll() takes units from the stream, of whatever set S they are, and     *)
(* finds the connection closed only with the verdict Closed.               *)
LEMMA PollKeepsStream ==
    ASSUME MsgOK, StreamOK, NEW S \in SUBSET Unit, in \in Seq(S), NEW st, MsgPoll(st)
    PROVE  /\ in' \in Seq(S) /\ connNo' = connNo
           /\ tcpState' = tcpState \/ st = "Closed"
<1>1. CASE MsgTimeout(st) \/ MsgSettled(st)
    BY <1>1 DEF MsgTimeout, MsgSettled, tcpVars
<1>2. CASE MsgAdvance(st)
    <2>1. PICK r \in Advance(msgTx, msgRx, msgWant, MsgMaxBody) :
             /\ in' = r.in /\ tcpState' = r.tcp /\ connNo' = connNo
             /\ st = IF r.st = "Ok" THEN ParseResponse(r.rx) ELSE r.st
        BY <1>2 DEF MsgAdvance
    <2>2. r.in \in Seq(S)
        BY AdvanceType, MsgAssumption
           DEF MsgOK, MsgTypeOK, StreamOK, TcpTypeOK, SrvTypeOK
    <2>3. r.tcp = tcpState \/ r.st = "Closed"
        BY AdvanceVerdict, MsgAssumption DEF MsgOK, MsgTypeOK, StreamOK, SrvTypeOK
    <2> QED BY <2>1, <2>2, <2>3
<1> QED BY <1>1, <1>2 DEF MsgPoll
-----------------------------------------------------------------------------
(* What an exchange expects is what the header it has says, and once it is *)
(* Done it has all of that and the whole request is sent.                  *)
MsgFramed ==
    /\ MsgInFlight => Framed(msgRx, msgWant)
    /\ msgState = "Done" => msgTx = <<>> /\ Len(msgRx) = HeaderLen + MsgReply.len

(* An exchange starts by expecting a header (ExplicitMessage.cpp:128-131). *)
LEMMA SendKeepsFramed ==
    ASSUME MsgFramed, NEW sess, NEW svc, NEW name, NEW conn, NEW valid, NEW st,
           MsgSend(sess, svc, name, conn, valid, st)
    PROVE  MsgFramed'
<1>1. CASE UNCHANGED msgVars
    BY <1>1 DEF msgVars, MsgFramed, MsgInFlight, MsgReply, Framed
<1>2. CASE StartSend(sess, svc, name, conn)
    <2>1. msgRx' = <<>> /\ msgWant' = HeaderLen /\ msgState' = "Sending"
        BY <1>2 DEF StartSend
    <2>2. Len(msgRx') < HeaderLen
        BY <2>1, EmptyType, HeaderLenAssumption
    <2>3. Framed(msgRx', msgWant')
        BY <2>1, <2>2 DEF Framed
    <2>4. Framed(msgRx, msgWant)'
        BY <2>3 DEF Framed, Aligned
    <2> QED BY <2>1, <2>4 DEF MsgFramed
<1> QED BY <1>1, <1>2 DEF MsgSend

(* abort() leaves nothing in flight (ExplicitMessage.cpp:16-19).           *)
LEMMA AbortKeepsFramed == MsgAbort => MsgFramed'
BY DEF MsgAbort, MsgFramed, MsgInFlight

(* A response that parses has a header, so that what was expected is what  *)
(* the header said (ExplicitMessage.cpp:189-218).                          *)
LEMMA ParsedHasHeader ==
    ASSUME NEW rx, ParseResponse(rx) = "Ok"
    PROVE  Aligned(rx) /\ DecodeHeader(rx) = rx[1].f
<1>1. DecodeHeader(rx).cmd = "SendRRData"
    BY DEF ParseResponse
<1>2. Garbage.cmd = "Garbage"
    BY DEF Garbage
<1> QED BY <1>1, <1>2 DEF DecodeHeader

(* poll() reports Ok only with all that the header announced in rx_        *)
(* (ExplicitMessage.cpp:139-209).                                          *)
LEMMA PollKeepsFramed ==
    ASSUME MsgOK, StreamOK, MsgFull, MsgFramed, NEW st, MsgPoll(st)
    PROVE  MsgFramed'
<1>1. CASE MsgTimeout(st)
    BY <1>1 DEF MsgTimeout, MsgFramed, MsgInFlight
<1>2. CASE MsgSettled(st)
    BY <1>2 DEF MsgSettled, MsgFramed, MsgInFlight, MsgReply, msgVars
<1>3. CASE MsgAdvance(st)
    <2>1. PICK r \in Advance(msgTx, msgRx, msgWant, MsgMaxBody) :
             /\ msgTx' = r.tx /\ msgRx' = r.rx /\ msgWant' = r.want
             /\ st = IF r.st = "Ok" THEN ParseResponse(r.rx) ELSE r.st
             /\ msgState' = CASE st = "Ok"      -> "Done"
                              [] st = "Pending" -> IF r.sent THEN "Receiving" ELSE msgState
                              [] OTHER          -> "Failed"
        BY <1>3 DEF MsgAdvance
    <2>2. HeaderLen <= msgWant /\ MsgInFlight
        BY <1>3 DEF MsgAdvance, MsgFull
    <2>3. HeaderLen <= r.want /\ (r.st = "Ok" => Len(r.rx) = r.want)
        BY <2>2, AdvanceFull, MsgAssumption DEF MsgOK, MsgTypeOK, StreamOK, SrvTypeOK
    <2>4. (r.st = "Error" \/ Framed(r.rx, r.want)) /\ (r.st = "Ok" => r.tx = <<>>)
        BY <2>2, AdvanceFramed, MsgAssumption
           DEF MsgFramed, MsgOK, MsgTypeOK, StreamOK, TcpTypeOK, SrvTypeOK
    <2>5. msgState' = "Done" => st = "Ok" /\ r.st = "Ok" /\ ParseResponse(r.rx) = "Ok"
        BY <2>1, <2>2 DEF MsgInFlight
    <2>6. MsgInFlight' => Framed(msgRx, msgWant)'
        <3>1. SUFFICES ASSUME MsgInFlight' PROVE Framed(r.rx, r.want)
            BY <2>1 DEF Framed, Aligned
        <3>2. st # "Error"
            BY <2>1, <3>1 DEF MsgInFlight
        <3> QED BY <2>1, <2>4, <3>2
    <2>7. msgState' = "Done" => msgTx' = <<>> /\ Len(msgRx') = HeaderLen + MsgReply'.len
        <3>1. SUFFICES ASSUME msgState' = "Done"
                       PROVE  r.tx = <<>> /\ Len(r.rx) = HeaderLen + DecodeHeader(r.rx).len
            BY <2>1 DEF MsgReply
        <3>2. r.st = "Ok" /\ Aligned(r.rx) /\ DecodeHeader(r.rx) = r.rx[1].f
            BY <2>5, <3>1, ParsedHasHeader
        <3>3. Len(r.rx) = r.want /\ ~(r.want < HeaderLen)
            <4>1. r.want \in Nat
                BY AdvanceType, MsgAssumption
                   DEF MsgOK, MsgTypeOK, StreamOK, TcpTypeOK, SrvTypeOK
            <4> QED BY <2>3, <3>2, <4>1, HeaderLenAssumption
        <3> QED BY <2>4, <3>2, <3>3 DEF Framed
    <2> QED BY <2>6, <2>7 DEF MsgFramed
<1> QED BY <1>1, <1>2, <1>3 DEF MsgPoll

(* poll() puts into rx_ only what has arrived, of whatever set S that is   *)
(* (ExplicitMessage.cpp:189-209).                                          *)
LEMMA PollReads ==
    ASSUME MsgOK, StreamOK, NEW S \in SUBSET Unit, in \in Seq(S), msgRx \in Seq(S),
           NEW st, MsgPoll(st)
    PROVE  msgRx' \in Seq(S)
<1>1. CASE MsgTimeout(st) \/ MsgSettled(st)
    BY <1>1 DEF MsgTimeout, MsgSettled, msgVars
<1>2. CASE MsgAdvance(st)
    <2>1. PICK r \in Advance(msgTx, msgRx, msgWant, MsgMaxBody) : msgRx' = r.rx
        BY <1>2 DEF MsgAdvance
    <2>2. r.rx \in Seq(S)
        BY AdvanceType, MsgAssumption
           DEF MsgOK, MsgTypeOK, StreamOK, TcpTypeOK, SrvTypeOK
    <2> QED BY <2>1, <2>2
<1> QED BY <1>1, <1>2 DEF MsgPoll

(* A poll of the message sends units of its request only                   *)
(* (ExplicitMessage.cpp:139-187).                                          *)
LEMMA PollSends ==
    ASSUME MsgOK, StreamOK, NEW T \in SUBSET Unit, NEW O \in SUBSET Unit, T \subseteq O,
           msgTx \in Seq(T), out \in Seq(O), NEW st, MsgPoll(st)
    PROVE  msgTx' \in Seq(T) /\ out' \in Seq(O) /\ connNo' = connNo
<1>1. CASE MsgTimeout(st) \/ MsgSettled(st)
    BY <1>1 DEF MsgTimeout, MsgSettled, tcpVars, msgVars
<1>2. CASE MsgAdvance(st)
    <2>1. PICK r \in Advance(msgTx, msgRx, msgWant, MsgMaxBody) :
             msgTx' = r.tx /\ out' = r.out /\ connNo' = connNo
        BY <1>2 DEF MsgAdvance
    <2>2. msgRx \in Seq(Unit) /\ msgWant \in Nat /\ MsgMaxBody \in Nat
        BY MsgAssumption DEF MsgOK, MsgTypeOK
    <2>3. Len(out) <= SndBuf
        BY DEF StreamOK, TcpTypeOK
    <2>4. r.tx \in Seq(T) /\ r.out \in Seq(O)
        BY <2>2, <2>3, AdvanceSends
    <2> QED BY <2>1, <2>4
<1> QED BY <1>1, <1>2 DEF MsgPoll
-----------------------------------------------------------------------------
(* What of the session receive framing rests on.                           *)
SessOK ==
    /\ SessTypeOK
    /\ Len(sessRx) <= sessWant /\ sessWant <= HeaderLen + SessMaxBody
    /\ SessInFlight => HeaderLen <= sessWant

(* A new session is Idle, with nothing received.                           *)
LEMMA SessInitOK == SessInit => SessOK
<1> SUFFICES ASSUME SessInit PROVE SessOK
    OBVIOUS
<1>1. sessTx \in Seq(Unit) /\ sessRx \in Seq(Unit) /\ Len(sessRx) = 0
    BY EmptyType DEF SessInit
<1>2. /\ sessWant \in Nat /\ Len(sessRx) <= sessWant
      /\ sessWant <= HeaderLen + SessMaxBody /\ handle \in Nat
    BY <1>1, HeaderLenAssumption, SessAssumption DEF SessInit
<1> QED BY <1>1, <1>2 DEF SessInit, SessOK, SessTypeOK, SessStates, SessInFlight

(* An exchange begins with a request in tx_ and nothing in rx_.            *)
LEMMA StartKeepsTypes ==
    ASSUME SessOK, NEW state \in {"Registering", "Unregistering"},
           NEW cmd \in Command, NEW sess \in Nat, NEW len \in Nat,
           StartExchange(state, cmd, sess, len),
           UNCHANGED handle, sessLate' \in BOOLEAN
    PROVE  SessOK'
<1>1. SessRequest(cmd, sess, len) \in Packet
    BY NoConnType DEF SessRequest, Packet, Service
<1>2. sessTx' \in Seq(Unit)
    BY <1>1, UnitsType DEF StartExchange
<1>3. sessRx' \in Seq(Unit) /\ Len(sessRx') = 0
    BY EmptyType DEF StartExchange
<1>4. sessWant' = HeaderLen /\ sessState' = state
    BY DEF StartExchange
<1>5. /\ sessWant' \in Nat /\ Len(sessRx') <= sessWant'
      /\ sessWant' <= HeaderLen + SessMaxBody /\ HeaderLen <= sessWant'
    BY <1>3, <1>4, HeaderLenAssumption, SessAssumption
<1>6. handle' \in Nat
    BY DEF SessOK, SessTypeOK
<1> QED BY <1>2, <1>3, <1>4, <1>5, <1>6 DEF SessOK, SessTypeOK, SessStates

(* abort() ends the exchange (Session.cpp:36-44).                          *)
LEMMA SessAbortKeepsTypes ==
    ASSUME SessOK, SessAbort
    PROVE  SessOK'
<1>1. sessTx' \in Seq(Unit) /\ sessRx' \in Seq(Unit) /\ Len(sessRx') = 0
    BY EmptyType DEF SessAbort
<1>2. /\ sessWant' \in Nat /\ Len(sessRx') <= sessWant'
      /\ sessWant' <= HeaderLen + SessMaxBody /\ handle' \in Nat
    BY <1>1, HeaderLenAssumption, SessAssumption DEF SessAbort
<1> QED BY <1>1, <1>2 DEF SessAbort, SessOK, SessTypeOK, SessStates, SessInFlight

(* open() starts one or refuses.                                           *)
LEMMA SessOpenKeepsTypes ==
    ASSUME SessOK, NEW up, NEW st, SessOpen(up, st)
    PROVE  SessOK'
<1>1. CASE UNCHANGED sessVars
    BY <1>1 DEF sessVars, SessOK, SessTypeOK, SessInFlight
<1>2. CASE /\ sessLate' = FALSE
           /\ StartExchange("Registering", "RegisterSession", 0, RegLen)
           /\ UNCHANGED handle
    BY <1>2, StartKeepsTypes, SessAssumption DEF Command
<1> QED BY <1>1, <1>2 DEF SessOpen

(* close() starts one, refuses, or lets go of the session.                 *)
LEMMA SessCloseKeepsTypes ==
    ASSUME SessOK, NEW st, SessClose(st)
    PROVE  SessOK'
<1>1. CASE UNCHANGED sessVars
    BY <1>1 DEF sessVars, SessOK, SessTypeOK, SessInFlight
<1>2. CASE /\ StartExchange("Unregistering", "UnregisterSession", handle, 0)
           /\ UNCHANGED <<handle, sessLate>>
    <2>1. handle \in Nat /\ sessLate \in BOOLEAN
        BY DEF SessOK, SessTypeOK
    <2> QED BY <1>2, <2>1, StartKeepsTypes DEF Command
<1>3. CASE SessAbort
    BY <1>3, SessAbortKeepsTypes
<1> QED BY <1>1, <1>2, <1>3 DEF SessClose

(* What open() may take for a handle is a number.                          *)
LEMMA SessHeadersType ==
    ASSUME NEW buf \in Seq(Unit), HeaderLen <= Len(buf), NEW h \in SessHeaders(buf)
    PROVE  h.sess \in Nat
<1>1. CASE Aligned(buf)
    <2>1. h = buf[1].f /\ buf[1] \in Unit
        BY <1>1, HeaderLenAssumption DEF SessHeaders
    <2> QED BY <2>1 DEF Unit, Packet
<1>2. CASE ~Aligned(buf)
    <2>1. h = Garbage \/ \E n \in MisreadHandles : h = Misread(n, Len(buf) - HeaderLen)
        BY <1>2 DEF SessHeaders
    <2>2. \A n, len : Misread(n, len).sess = n
        BY DEF Garbage, Misread
    <2>3. Garbage.sess = 0
        BY DEF Garbage
    <2> QED BY <2>1, <2>2, <2>3, SessAssumption
<1> QED BY <1>1, <1>2

(* poll(): the buffers of both sides stay well-typed and bounded, and what *)
(* is accepted as a handle is a number.                                    *)
LEMMA SessPollKeepsTypes ==
    ASSUME SessOK, StreamOK, NEW st, NEW late, SessPoll(st, late), UNCHANGED srvVars
    PROVE  SessOK' /\ StreamOK'
<1>1. CASE SessTimeout(st, late)
    BY <1>1 DEF SessTimeout, SessOK, SessTypeOK, SessStates, SessInFlight, StreamOK,
                TcpTypeOK, SrvTypeOK, srvVars, tcpVars
<1>2. CASE SessSettled(st)
    BY <1>2 DEF SessSettled, SessOK, SessTypeOK, SessInFlight, StreamOK, TcpTypeOK,
                SrvTypeOK, srvVars, tcpVars, sessVars
<1>3. ASSUME SessInFlight,
             NEW r \in Advance(sessTx, sessRx, sessWant, SessMaxBody), Exchanged(r),
             sessState' \in SessStates,
             \/ handle' = handle
             \/ r.st = "Ok" /\ \E h \in SessHeaders(r.rx) : handle' = h.sess
      PROVE  SessOK' /\ StreamOK'
    <2>1. HeaderLen <= sessWant
        BY <1>3 DEF SessOK
    <2>2. /\ r.tx \in Seq(Unit) /\ r.rx \in Seq(Unit)
          /\ r.out \in Seq(Unit) /\ r.in \in Seq(Unit) /\ Len(r.out) <= SndBuf
          /\ r.want \in Nat /\ Len(r.rx) <= r.want
          /\ r.want <= HeaderLen + SessMaxBody
          /\ r.tcp \in {tcpState, "Closed"}
        BY AdvanceType, SessAssumption
           DEF SessOK, SessTypeOK, StreamOK, TcpTypeOK, SrvTypeOK
    <2>3. HeaderLen <= r.want /\ (r.st = "Ok" => Len(r.rx) = r.want)
        BY <2>1, AdvanceFull, SessAssumption DEF SessOK, SessTypeOK, StreamOK, SrvTypeOK
    <2>4. handle' \in Nat
        <3>1. handle \in Nat
            BY DEF SessOK, SessTypeOK
        <3>2. ASSUME r.st = "Ok", NEW h \in SessHeaders(r.rx), handle' = h.sess
              PROVE  handle' \in Nat
            BY <2>2, <2>3, <3>2, SessHeadersType
        <3> QED BY <1>3, <3>1, <3>2
    <2>5. /\ sessTx' = r.tx /\ sessRx' = r.rx /\ sessWant' = r.want
          /\ out' = r.out /\ in' = r.in /\ tcpState' = r.tcp
          /\ UNCHANGED <<sessLate, fd, tcpLate, sock, connNo>>
        BY <1>3 DEF Exchanged
    <2>6. SessOK'
        BY <1>3, <2>2, <2>3, <2>4, <2>5 DEF SessOK, SessTypeOK
    <2>7. StreamOK'
        BY <2>2, <2>5 DEF StreamOK, TcpTypeOK, SrvTypeOK, srvVars
    <2> QED BY <2>6, <2>7
<1>4. CASE PollRegistering(st, late)
    <2>1. PICK r \in Advance(sessTx, sessRx, sessWant, SessMaxBody) :
             /\ Exchanged(r)
             /\ \/ Unfinished(r, st)
                \/ r.st = "Ok" /\ \E h \in SessHeaders(r.rx) : AcceptRegister(h, st)
        BY <1>4 DEF PollRegistering
    <2>2. SessInFlight /\ sessState = "Registering"
        BY <1>4 DEF PollRegistering, SessInFlight
    <2>3. sessState' \in SessStates
        BY <2>1, <2>2 DEF Unfinished, AcceptRegister, SessStates
    <2>4. \/ handle' = handle
          \/ r.st = "Ok" /\ \E h \in SessHeaders(r.rx) : handle' = h.sess
        BY <2>1 DEF Unfinished, AcceptRegister
    <2> QED BY <1>3, <2>1, <2>2, <2>3, <2>4
<1>5. CASE PollUnregistering(st, late)
    <2>1. PICK r \in Advance(sessTx, sessRx, sessWant, SessMaxBody) :
             /\ Exchanged(r)
             /\ \/ Unfinished(r, st)
                \/ r.st = "Ok" /\ st = "Ok" /\ sessState' = "Closed" /\ UNCHANGED handle
        BY <1>5 DEF PollUnregistering
    <2>2. SessInFlight /\ sessState = "Unregistering"
        BY <1>5 DEF PollUnregistering, SessInFlight
    <2>3. sessState' \in SessStates
        BY <2>1, <2>2 DEF Unfinished, SessStates
    <2>4. handle' = handle
        BY <2>1 DEF Unfinished
    <2> QED BY <1>3, <2>1, <2>2, <2>3, <2>4
<1> QED BY <1>1, <1>2, <1>4, <1>5 DEF SessPoll

(* Time passes.                                                            *)
LEMMA SessDeadlineKeepsTypes ==
    ASSUME SessOK, SessDeadline
    PROVE  SessOK'
BY DEF SessDeadline, SessOK, SessTypeOK, SessInFlight
-----------------------------------------------------------------------------
(* A registration begun on a quiet stream is alone on it: what is going to *)
(* the PLC is at most the rest of its own request, nothing has come back   *)
(* before the last unit of that, and what comes back then is one packet,   *)
(* in order.  That is what the registration owes its header to, since it   *)
(* does not compare the context (Session.cpp:120-134).                     *)
Up == out \o sessTx
Coming == IF sock # "none" /\ srvConn = connNo THEN wire ELSE <<>>
Down == (sessRx \o in) \o Coming
LastUnit(u) == u.i = HeaderLen + u.f.len
EndsOnce(s) == \A j \in 1..Len(s) : LastUnit(s[j]) => j = Len(s)
Alone == EndsOnce(Up) /\ Continues(Down) /\ (Up # <<>> => Down = <<>>)

(* Of streams: what is left when the first unit is taken, or another part  *)
(* of the stream is dropped with all that is behind or before it.          *)
LEMMA EndsOnceLeft ==
    ASSUME NEW s \in Seq(Unit), NEW t \in Seq(Unit), EndsOnce(s \o t)
    PROVE  /\ EndsOnce(t)
           /\ s # <<>> => /\ EndsOnce(Tail(s) \o t)
                          /\ LastUnit(Head(s)) => Tail(s) = <<>> /\ t = <<>>
<1>1. /\ Len(s) \in Nat /\ Len(t) \in Nat /\ Len(s \o t) = Len(s) + Len(t)
      /\ \A j \in 1..Len(t) : (s \o t)[Len(s) + j] = t[j]
    OBVIOUS
<1>2. EndsOnce(t)
    <2>1. SUFFICES ASSUME NEW j \in 1..Len(t), LastUnit(t[j]) PROVE j = Len(t)
        BY DEF EndsOnce
    <2>2. Len(s) + j \in 1..Len(s \o t) /\ LastUnit((s \o t)[Len(s) + j])
        BY <1>1, <2>1
    <2>3. Len(s) + j = Len(s \o t)
        BY <2>2 DEF EndsOnce
    <2> QED BY <1>1, <2>3
<1>3. ASSUME s # <<>>
      PROVE  EndsOnce(Tail(s) \o t)
    <2>1. /\ Len(Tail(s) \o t) = Len(s \o t) - 1
          /\ \A j \in 1..Len(Tail(s) \o t) : (Tail(s) \o t)[j] = (s \o t)[j + 1]
        BY <1>1, <1>3
    <2>2. SUFFICES ASSUME NEW j \in 1..Len(Tail(s) \o t), LastUnit((Tail(s) \o t)[j])
                   PROVE  j = Len(Tail(s) \o t)
        BY DEF EndsOnce
    <2>3. j + 1 \in 1..Len(s \o t) /\ LastUnit((s \o t)[j + 1])
        BY <1>1, <2>1, <2>2
    <2>4. j + 1 = Len(s \o t)
        BY <2>3 DEF EndsOnce
    <2> QED BY <1>1, <2>1, <2>4
<1>4. ASSUME s # <<>>, LastUnit(Head(s))
      PROVE  Tail(s) = <<>> /\ t = <<>>
    <2>1. 1 \in 1..Len(s \o t) /\ (s \o t)[1] = Head(s)
        BY <1>1, <1>4
    <2>2. Len(s \o t) = 1
        BY <1>4, <2>1 DEF EndsOnce
    <2>3. Len(s) # 0
        BY <1>4
    <2>4. Len(s) \in Nat /\ Len(t) \in Nat /\ Len(s) + Len(t) = 1
        BY <1>1, <2>2
    <2>5. Len(s) = 1 /\ Len(t) = 0
        BY <2>3, <2>4
    <2>6. t = <<>>
        BY <2>5
    <2>7. Tail(s) \in Seq(Unit) /\ Len(Tail(s)) = 0
        BY <1>4, <2>5
    <2>8. Tail(s) = <<>>
        BY <2>7, NothingLeft
    <2> QED BY <2>6, <2>8
<1> QED BY <1>2, <1>3, <1>4

(* A part at the front goes on as the whole does.                          *)
LEMMA ContinuesFront ==
    ASSUME NEW s \in Seq(Unit), NEW t \in Seq(Unit), Continues(s \o t)
    PROVE  Continues(s)
<1>1. /\ Len(s) \in Nat /\ Len(t) \in Nat /\ Len(s \o t) = Len(s) + Len(t)
      /\ \A j \in 1..Len(s) : (s \o t)[j] = s[j]
    OBVIOUS
<1>2. SUFFICES ASSUME NEW j \in 1..Len(s) PROVE s[j] = [f |-> s[1].f, i |-> j]
    BY DEF Continues
<1>3. j \in 1..Len(s \o t) /\ 1 \in 1..Len(s)
    BY <1>1
<1>4. (s \o t)[j] = [f |-> (s \o t)[1].f, i |-> j]
    BY <1>3 DEF Continues
<1> QED BY <1>1, <1>3, <1>4

(* Nothing of a stream is all of it.                                       *)
LEMMA NothingContinues == Continues(<<>>) /\ EndsOnce(<<>>)
BY DEF Continues, EndsOnce

(* A packet is one packet, in order.                                       *)
LEMMA PacketAlone ==
    ASSUME NEW f \in Packet
    PROVE  Continues(Units(f)) /\ EndsOnce(Units(f))
<1>1. HeaderLen + f.len \in Nat /\ 0 < HeaderLen + f.len
    BY HeaderLenAssumption DEF Packet
<1>2. Len(Units(f)) = HeaderLen + f.len
    BY UnitsType
<1>3. \A j \in 1..(HeaderLen + f.len) :
         Units(f)[j].f = f /\ Units(f)[j].i = j /\ Units(f)[j] = [f |-> f, i |-> j]
    BY DEF Units
<1>4. Units(f)[1].f = f
    <2>1. 1 \in 1..(HeaderLen + f.len)
        BY <1>1
    <2> QED BY <1>3, <2>1
<1>5. Continues(Units(f))
    BY <1>2, <1>3, <1>4 DEF Continues
<1>6. EndsOnce(Units(f))
    BY <1>2, <1>3 DEF EndsOnce, LastUnit
<1> QED BY <1>5, <1>6

(* It begins that way, on a new connection as on one where nothing is left *)
(* (Session.cpp:56-86).                                                    *)
LEMMA StartsAlone ==
    ASSUME UNCHANGED <<out, in, sock, connNo, srvVars>>,
           out = <<>>, in = <<>>, srvConn = connNo => wire = <<>>,
           NEW state, NEW cmd \in Command, NEW sess \in Nat, NEW len \in Nat,
           StartExchange(state, cmd, sess, len)
    PROVE  Alone'
<1>1. SessRequest(cmd, sess, len) \in Packet
    BY NoConnType DEF SessRequest, Packet, Service
<1>2. /\ sessTx' \in Seq(Unit) /\ Continues(sessTx') /\ EndsOnce(sessTx')
      /\ sessRx' = <<>> /\ out' = <<>> /\ in' = <<>> /\ Coming' = <<>>
    BY <1>1, UnitsType, PacketAlone DEF StartExchange, srvVars, Coming
<1>3. Up' = sessTx' /\ Down' = <<>>
    BY <1>2 DEF Up, Down
<1>4. EndsOnce(Up') /\ Continues(Down')
    BY <1>2, <1>3, NothingContinues
<1> QED BY <1>3, <1>4 DEF Alone, EndsOnce, Continues, LastUnit

(* poll() leaves both streams as they are (Session.cpp:88-160).            *)
LEMMA SessPollKeepsStreams ==
    ASSUME SessOK, StreamOK, NEW st, NEW late, SessPoll(st, late), UNCHANGED srvVars
    PROVE  Up' = Up /\ Down' = Down
<1>1. CASE UNCHANGED <<sessTx, sessRx, tcpVars>>
    BY <1>1 DEF tcpVars, srvVars, Up, Down, Coming
<1>2. ASSUME SessInFlight, NEW r \in Advance(sessTx, sessRx, sessWant, SessMaxBody),
             Exchanged(r)
      PROVE  Up' = Up /\ Down' = Down
    <2>0. /\ sessTx \in Seq(Unit) /\ sessRx \in Seq(Unit) /\ sessWant \in Nat
          /\ SessMaxBody \in Nat
          /\ Len(sessRx) <= sessWant /\ sessWant <= HeaderLen + SessMaxBody
          /\ in \in Seq(Unit) /\ out \in Seq(Unit) /\ Len(out) <= SndBuf
          /\ tcpState \in {"Closed", "Pending", "Ok"}
        BY SessAssumption DEF SessOK, SessTypeOK, StreamOK, TcpTypeOK, SrvTypeOK
    <2>1. Joined(r.out, r.tx) = Joined(out, sessTx) /\ Joined(r.rx, r.in) = Joined(sessRx, in)
        BY <2>0, AdvanceMoves
    <2>2. Coming' = Coming
        BY <1>2 DEF Exchanged, srvVars, Coming
    <2> QED BY <1>2, <2>1, <2>2 DEF Exchanged, Up, Down, Joined
<1>3. CASE SessTimeout(st, late) \/ SessSettled(st)
    BY <1>1, <1>3 DEF SessTimeout, SessSettled, sessVars
<1>4. CASE PollRegistering(st, late) \/ PollUnregistering(st, late)
    <2>1. \E r \in Advance(sessTx, sessRx, sessWant, SessMaxBody) : Exchanged(r)
        BY <1>4 DEF PollRegistering, PollUnregistering
    <2>2. SessInFlight
        BY <1>4 DEF PollRegistering, PollUnregistering, SessInFlight
    <2> QED BY <1>2, <2>1, <2>2
<1> QED BY <1>3, <1>4 DEF SessPoll

(* What is read off a stream that is one packet begins with its header.    *)
LEMMA ReadAligned ==
    ASSUME SessOK, StreamOK, Continues(Down),
           NEW r \in Advance(sessTx, sessRx, sessWant, SessMaxBody), HeaderLen <= Len(r.rx)
    PROVE  Aligned(r.rx)
<1>0. /\ sessTx \in Seq(Unit) /\ sessRx \in Seq(Unit) /\ sessWant \in Nat
      /\ SessMaxBody \in Nat
      /\ Len(sessRx) <= sessWant /\ sessWant <= HeaderLen + SessMaxBody
      /\ in \in Seq(Unit) /\ out \in Seq(Unit) /\ Len(out) <= SndBuf
      /\ tcpState \in {"Closed", "Pending", "Ok"}
    BY SessAssumption DEF SessOK, SessTypeOK, StreamOK, TcpTypeOK, SrvTypeOK
<1>1. Joined(r.rx, r.in) = Joined(sessRx, in)
    BY <1>0, AdvanceMoves
<1>2. r.rx \in Seq(Unit) /\ r.in \in Seq(Unit)
    BY <1>0, AdvanceType
<1>3. Continues(sessRx \o in)
    <2>1. PICK s \in Seq(Unit) : s = sessRx \o in
        BY <1>0, JoinsType
    <2>2. Coming \in Seq(Unit)
        BY EmptyType DEF StreamOK, SrvTypeOK, Coming
    <2>3. Continues(s \o Coming)
        BY <2>1 DEF Down
    <2> QED BY <2>1, <2>2, <2>3, ContinuesFront
<1>4. Continues(r.rx \o r.in)
    BY <1>1, <1>3 DEF Joined
<1>5. Continues(r.rx)
    BY <1>2, <1>4, ContinuesFront
<1> QED BY <1>2, <1>5, HeaderLenAssumption DEF Continues, Aligned

(* The same streams are alone whatever else changes.                       *)
LEMMA AloneStays ==
    ASSUME Alone, Up' = Up, Down' = Down
    PROVE  Alone'
BY DEF Alone, EndsOnce, Continues, LastUnit

(* A connection closed or opened takes both streams but what the session   *)
(* holds (TcpConnection.cpp:20-133).                                       *)
LEMMA TcpKeepsAlone ==
    ASSUME SessOK, StreamOK, Alone, srvConn <= connNo,
           UNCHANGED <<sessTx, sessRx, srvVars>>,
           TcpClose \/ (\E st : TcpConnect(st)) \/ (\E st, late : TcpPoll(st, late))
    PROVE  Alone'
<1>1. CASE UNCHANGED <<sock, out, in, connNo>>
    <2>1. Up' = Up /\ Down' = Down
        BY <1>1 DEF Up, Down, Coming, srvVars
    <2> QED BY <2>1, AloneStays
<1>2. CASE out' = <<>> /\ in' = <<>> /\ Coming' = <<>>
    <2>0. /\ out \in Seq(Unit) /\ in \in Seq(Unit) /\ Coming \in Seq(Unit)
          /\ sessTx \in Seq(Unit) /\ sessRx \in Seq(Unit)
        <3>1. <<>> \in Seq(Unit)
            BY EmptyType
        <3> QED BY <3>1 DEF SessOK, SessTypeOK, StreamOK, SrvTypeOK, Coming
    <2>1. Up' = sessTx /\ Down' = sessRx
        BY <1>2, <2>0 DEF Up, Down
    <2>2. EndsOnce(sessTx)
        BY <2>0, EndsOnceLeft DEF Alone, Up
    <2>3. Continues(sessRx)
        <3>1. PICK s \in Seq(Unit) : s = sessRx \o in
            BY <2>0, JoinsType
        <3>2. Continues(s \o Coming)
            BY <3>1 DEF Alone, Down
        <3>3. Continues(sessRx \o in)
            BY <2>0, <3>1, <3>2, ContinuesFront
        <3> QED BY <2>0, <3>3, ContinuesFront
    <2>4. sessTx # <<>> => sessRx = <<>>
        <3>1. ASSUME sessTx # <<>>
              PROVE  Up # <<>>
            BY <2>0, <3>1 DEF Up
        <3>2. ASSUME Down = <<>>
              PROVE  sessRx = <<>>
            BY <2>0, <3>2 DEF Down
        <3> QED BY <3>1, <3>2 DEF Alone
    <2> QED BY <2>1, <2>2, <2>3, <2>4 DEF Alone, EndsOnce, Continues, LastUnit
<1>3. \/ UNCHANGED <<sock, out, in, connNo>>
      \/ sock' = "none" /\ out' = <<>> /\ in' = <<>>
      \/ connNo' = connNo + 1 /\ out' = <<>> /\ in' = <<>>
    BY DEF TcpClose, TcpConnect, TcpPoll, tcpVars
<1>4. connNo' = connNo + 1 => srvConn' # connNo'
    BY DEF StreamOK, TcpTypeOK, SrvTypeOK, srvVars
<1> QED BY <1>1, <1>2, <1>3, <1>4 DEF Coming

(* The PLC takes units one by one, answers once all of the request has     *)
(* arrived, and what it answers is one packet.                             *)
LEMMA ServerKeepsAlone ==
    ASSUME SessOK, StreamOK, Alone, SrvNext, UNCHANGED <<sessTx, sessRx>>
    PROVE  Alone'
<1>0. /\ out \in Seq(Unit) /\ in \in Seq(Unit) /\ wire \in Seq(Unit)
      /\ srvIn \in Seq(Unit) /\ sessTx \in Seq(Unit) /\ sessRx \in Seq(Unit)
    BY DEF SessOK, SessTypeOK, StreamOK, SrvTypeOK
<1>1. CASE (Establish \/ PeerResets) /\ UNCHANGED srvVars
    <2>1. UNCHANGED <<out, in, connNo, srvVars>> /\ sock # "none" /\ sock' # "none"
        BY <1>1 DEF Establish, PeerResets
    <2>2. Up' = Up /\ Down' = Down
        BY <2>1 DEF Up, Down, Coming, srvVars
    <2> QED BY <2>2, AloneStays
<1>2. CASE PeerCloses
    <2>1. UNCHANGED <<out, in, connNo, srvVars>> /\ sock # "none" /\ sock' # "none"
        BY <1>2 DEF PeerCloses
    <2>2. Up' = Up /\ Down' = Down
        BY <2>1 DEF Up, Down, Coming, srvVars
    <2> QED BY <2>2, AloneStays
<1>3. CASE SrvAccept
    <2>1. Coming = <<>> /\ Coming' = <<>> /\ UNCHANGED <<out, in>>
        BY <1>3 DEF SrvAccept, Coming, tcpVars
    <2>2. Up' = Up /\ Down' = Down
        BY <2>1 DEF Up, Down
    <2> QED BY <2>2, AloneStays
<1>4. CASE Deliver
    <2>1. /\ Coming = wire /\ Coming' = Tail(wire) /\ wire # <<>>
          /\ in' = Append(in, Head(wire)) /\ out' = out
        BY <1>4 DEF Deliver, Serving, Coming
    <2>2. (sessRx \o Append(in, Head(wire))) \o Tail(wire) = (sessRx \o in) \o wire
        BY <1>0, <2>1, JoinsMove
    <2>3. Up' = Up /\ Down' = Down
        BY <2>1, <2>2 DEF Up, Down
    <2> QED BY <2>3, AloneStays
<1>5. ASSUME out # <<>>, out' = Tail(out)
      PROVE  EndsOnce(Up') /\ (LastUnit(Head(out)) => Up' = <<>>) /\ Down = <<>>
    <2>1. Up' = Tail(out) \o sessTx /\ EndsOnce(out \o sessTx)
        BY <1>5 DEF Up, Alone
    <2>2. /\ EndsOnce(Tail(out) \o sessTx)
          /\ LastUnit(Head(out)) => Tail(out) = <<>> /\ sessTx = <<>>
        BY <1>0, <1>5, <2>1, EndsOnceLeft
    <2>3. Up # <<>>
        BY <1>0, <1>5 DEF Up
    <2> QED BY <2>1, <2>2, <2>3 DEF Alone
<1>6. CASE SrvReceive \/ SrvMisread
    <2>1. out # <<>> /\ out' = Tail(out) /\ UNCHANGED <<sock, in, connNo, srvConn, wire>>
        BY <1>6 DEF SrvReceive, SrvMisread
    <2>2. Down' = <<>> /\ EndsOnce(Up')
        BY <1>5, <2>1 DEF Down, Coming
    <2> QED BY <2>2, NothingContinues DEF Alone, EndsOnce, Continues, LastUnit
<1>7. CASE SrvHandle
    <2>1. /\ out # <<>> /\ out' = Tail(out) /\ UNCHANGED <<sock, in, connNo, srvConn>>
          /\ sock # "none" /\ srvConn = connNo /\ Continues(NextIn) /\ Complete(NextIn)
        BY <1>7 DEF SrvHandle, Consume, Serving
    <2>2. NextIn \in Seq(Unit) /\ Len(NextIn) = Len(srvIn) + 1 /\ NextIn[Len(NextIn)] = Head(out)
        BY <1>0, <2>1 DEF NextIn
    <2>3. Len(NextIn) \in 1..Len(NextIn) /\ 1 \in 1..Len(NextIn)
        BY <1>0, <2>2
    <2>4. Head(out) = [f |-> NextIn[1].f, i |-> Len(NextIn)]
        BY <2>1, <2>2, <2>3 DEF Continues
    <2>5. LastUnit(Head(out))
        BY <2>1, <2>4 DEF LastUnit, Complete
    <2>6. Up' = <<>> /\ Down = <<>>
        BY <1>5, <2>1, <2>5
    <2>7. sessRx = <<>> /\ in = <<>> /\ wire = <<>>
        <3>1. Coming = wire
            BY <2>1 DEF Coming
        <3>2. PICK s \in Seq(Unit) : s = sessRx \o in
            BY <1>0, JoinsType
        <3>3. s = <<>> /\ wire = <<>>
            BY <1>0, <2>6, <3>1, <3>2, JoinsType DEF Down
        <3> QED BY <1>0, <3>2, <3>3, JoinsType
    <2>8. Down' = wire'
        <3>1. sessRx' = <<>> /\ in' = <<>> /\ Coming' = wire'
            BY <2>1, <2>7 DEF Coming
        <3>2. wire' \in Seq(Unit)
            BY ServerKeepsTypes DEF StreamOK, SrvTypeOK
        <3> QED BY <3>1, <3>2 DEF Down
    <2>9. Continues(wire')
        <3>1. CASE wire' = wire
            BY <2>7, <3>1, NothingContinues
        <3>2. ASSUME NEW kind \in ReplyKinds, wire' = wire \o Units(Reply(NextIn[1].f, kind))
              PROVE  Continues(wire')
            <4>1. NextIn[1] \in Unit
                BY <2>2, <2>3
            <4>2. PICK f \in Packet : f = Reply(NextIn[1].f, kind)
                BY <4>1, ReplyType DEF Unit, StreamOK, TcpTypeOK
            <4>3. wire' = Units(f)
                BY <2>7, <3>2, <4>2, UnitsType
            <4> QED BY <4>3, PacketAlone
        <3> QED BY <1>7, <3>1, <3>2 DEF SrvHandle, Respond
    <2> QED BY <2>6, <2>8, <2>9, NothingContinues DEF Alone, EndsOnce, Continues, LastUnit
<1> QED BY <1>1, <1>2, <1>3, <1>4, <1>6, <1>7 DEF SrvNext

(* Nothing but sending and receiving touches the streams: time passes.     *)
LEMMA StreamsStay ==
    ASSUME Alone, UNCHANGED <<sock, out, in, connNo, srvVars, sessTx, sessRx>>
    PROVE  Alone'
<1>1. Up' = Up /\ Down' = Down
    BY DEF Up, Down, Coming, srvVars
<1> QED BY <1>1, AloneStays
-----------------------------------------------------------------------------
(* A session that is alone gets registered by a reply in the stream that   *)
(* carries a handle other than 0 (Session.cpp:120-134); S is any set of    *)
(* units that the stream and rx_ consist of.                               *)
LEMMA HandleFromReply ==
    ASSUME SessOK, StreamOK, sessState = "Registering" => Alone,
           NEW S \in SUBSET Unit, in \in Seq(S), sessRx \in Seq(S),
           NEW st, NEW late, SessPoll(st, late)
    PROVE  /\ in' \in Seq(S) /\ sessRx' \in Seq(S)
           /\ sessState' = "Registered" =>
                 \/ sessState = "Registered" /\ UNCHANGED <<sessVars, tcpVars>>
                 \/ /\ sessState = "Registering"
                    /\ \E u \in S : handle' = u.f.sess
                    /\ handle' # 0
           /\ connNo' = connNo
<1>1. CASE SessTimeout(st, late)
    BY <1>1 DEF SessTimeout, tcpVars
<1>2. CASE SessSettled(st)
    <2>1. UNCHANGED <<sessVars, tcpVars>>
        BY <1>2 DEF SessSettled
    <2>2. UNCHANGED <<in, sessRx, sessState, connNo>>
        BY <2>1 DEF sessVars, tcpVars
    <2> QED BY <2>1, <2>2
<1>3. ASSUME SessInFlight, NEW r \in Advance(sessTx, sessRx, sessWant, SessMaxBody),
             Exchanged(r)
      PROVE  /\ in' \in Seq(S) /\ sessRx' \in Seq(S) /\ connNo' = connNo
             /\ r.rx \in Seq(S)
             /\ r.st = "Ok" => HeaderLen <= Len(r.rx)
    <2>1. /\ r.rx \in Seq(S) /\ r.in \in Seq(S)
        BY AdvanceType, SessAssumption
           DEF SessOK, SessTypeOK, StreamOK, TcpTypeOK, SrvTypeOK
    <2>2. HeaderLen <= sessWant
        BY <1>3 DEF SessOK
    <2>3. HeaderLen <= r.want /\ (r.st = "Ok" => Len(r.rx) = r.want)
        BY <2>2, AdvanceFull, SessAssumption DEF SessOK, SessTypeOK, StreamOK, SrvTypeOK
    <2> QED BY <1>3, <2>1, <2>3 DEF Exchanged
<1>4. CASE PollRegistering(st, late)
    <2>1. PICK r \in Advance(sessTx, sessRx, sessWant, SessMaxBody) :
             /\ Exchanged(r)
             /\ \/ Unfinished(r, st)
                \/ r.st = "Ok" /\ \E h \in SessHeaders(r.rx) : AcceptRegister(h, st)
        BY <1>4 DEF PollRegistering
    <2>2. SessInFlight /\ sessState = "Registering"
        BY <1>4 DEF PollRegistering, SessInFlight
    <2>3. /\ in' \in Seq(S) /\ sessRx' \in Seq(S) /\ connNo' = connNo
          /\ r.rx \in Seq(S) /\ (r.st = "Ok" => HeaderLen <= Len(r.rx))
        BY <1>3, <2>1, <2>2
    <2>4. ASSUME sessState' = "Registered"
          PROVE  (\E u \in S : handle' = u.f.sess) /\ handle' # 0
        <3>1. PICK h \in SessHeaders(r.rx) : /\ r.st = "Ok" /\ handle' = h.sess
                                             /\ h.sess # 0
            BY <2>1, <2>2, <2>4 DEF Unfinished, AcceptRegister
        <3>2. Aligned(r.rx)
            <4>1. Continues(Down)
                BY <2>2 DEF Alone
            <4> QED BY <2>1, <2>2, <2>3, <3>1, <4>1, ReadAligned
        <3>3. h = r.rx[1].f /\ r.rx[1] \in S
            BY <2>3, <3>1, <3>2, HeaderLenAssumption DEF SessHeaders
        <3> QED BY <3>1, <3>3
    <2> QED BY <2>2, <2>3, <2>4
<1>5. CASE PollUnregistering(st, late)
    <2>1. PICK r \in Advance(sessTx, sessRx, sessWant, SessMaxBody) :
             /\ Exchanged(r)
             /\ Unfinished(r, st) \/ sessState' = "Closed"
        BY <1>5 DEF PollUnregistering
    <2>2. SessInFlight /\ sessState = "Unregistering"
        BY <1>5 DEF PollUnregistering, SessInFlight
    <2>3. /\ in' \in Seq(S) /\ sessRx' \in Seq(S) /\ connNo' = connNo
        BY <1>3, <2>1, <2>2
    <2>4. sessState' # "Registered"
        BY <2>1, <2>2 DEF Unfinished
    <2> QED BY <2>3, <2>4
<1> QED BY <1>1, <1>2, <1>4, <1>5 DEF SessPoll

(* A registration is accepted only on a connection that is up: poll()      *)
(* returns Ok only when some of the response was still missing before.     *)
LEMMA RegisteredWhileConnected ==
    ASSUME SessOK, StreamOK, sessState \in {"Registering", "Failed"},
           sessState = "Registering" => Len(sessRx) < sessWant,
           NEW st, NEW late, SessPoll(st, late)
    PROVE  \/ st # "Ok" /\ sessState' = "Failed"
           \/ st # "Ok" /\ sessState' = "Registering" /\ Len(sessRx') < sessWant'
           \/ st = "Ok" /\ sessState' = "Registered" /\ tcpState' = "Ok"
<1>1. CASE SessTimeout(st, late)
    BY <1>1 DEF SessTimeout
<1>2. CASE SessSettled(st)
    BY <1>2 DEF SessSettled, sessVars
<1>3. CASE PollRegistering(st, late)
    <2>1. PICK r \in Advance(sessTx, sessRx, sessWant, SessMaxBody) :
             /\ Exchanged(r)
             /\ \/ Unfinished(r, st)
                \/ r.st = "Ok" /\ \E h \in SessHeaders(r.rx) : AcceptRegister(h, st)
        BY <1>3 DEF PollRegistering
    <2>2. sessState = "Registering" /\ Len(sessRx) < sessWant
        BY <1>3 DEF PollRegistering
    <2>3. /\ r.sent /\ r.st = "Pending" => Len(r.rx) # r.want
          /\ ~r.sent => r.rx = sessRx /\ r.want = sessWant /\ r.st # "Ok"
          /\ r.st = "Ok" => Connected /\ r.tcp = tcpState
        BY <2>2, AdvanceVerdict, SessAssumption
           DEF SessOK, SessTypeOK, StreamOK, SrvTypeOK
    <2>4. Len(r.rx) <= r.want /\ Len(r.rx) \in Nat /\ r.want \in Nat
        <3>1. r.rx \in Seq(Unit) /\ r.want \in Nat /\ Len(r.rx) <= r.want
            BY AdvanceType, SessAssumption
               DEF SessOK, SessTypeOK, StreamOK, TcpTypeOK, SrvTypeOK
        <3> QED BY <3>1
    <2>5. sessRx' = r.rx /\ sessWant' = r.want /\ tcpState' = r.tcp
        BY <2>1 DEF Exchanged
    <2>6. CASE Unfinished(r, st)
        <3>1. CASE r.sent /\ r.st # "Pending"
            BY <2>6, <3>1 DEF Unfinished
        <3>2. CASE r.sent /\ r.st = "Pending"
            <4>1. Len(r.rx) < r.want
                BY <2>3, <2>4, <3>2
            <4> QED BY <2>2, <2>5, <2>6, <3>2, <4>1 DEF Unfinished
        <3>3. CASE ~r.sent
            BY <2>2, <2>3, <2>5, <2>6, <3>3 DEF Unfinished
        <3> QED BY <3>1, <3>2, <3>3
    <2>7. CASE r.st = "Ok" /\ \E h \in SessHeaders(r.rx) : AcceptRegister(h, st)
        BY <2>3, <2>5, <2>7 DEF AcceptRegister, Connected
    <2> QED BY <2>1, <2>6, <2>7
<1> QED BY <1>1, <1>2, <1>3 DEF SessPoll, PollUnregistering
=============================================================================
