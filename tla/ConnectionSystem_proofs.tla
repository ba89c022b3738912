----------------------- MODULE ConnectionSystem_proofs -----------------------
(***************************************************************************)
(* Proofs about ConnectionSystem, for every size of packets and buffers,   *)
(* every width of the serial numbers and of the sequence count, any number *)
(* of connections, and every PLC.                                          *)
(***************************************************************************)
EXTENDS ConnectionSystem, Requesters_proofs, SequenceTheorems

(* What of the connection receive framing rests on.                        *)
CxnOK ==
    /\ CxnTypeOK
    /\ Len(cxnRx) <= cxnWant /\ cxnWant <= HeaderLen + CxnMaxBody

(* The inductive invariant of the types, and of who waits for a response.  *)
IInv == MsgOK /\ MsgFull /\ CxnOK /\ StreamOK /\ ConnTypeOK /\ OneReceiver

(* The initial states.                                                     *)
LEMMA InitInv == Init => IInv
<1> SUFFICES ASSUME Init PROVE IInv
    OBVIOUS
<1>1. MsgOK /\ StreamOK
    BY MsgInitOK, StreamInitOK DEF Init
<1>2. MsgFull
    BY DEF Init, MsgInit, MsgFull, MsgInFlight
<1>3. CxnOK
    <2>1. cxnTx \in Seq(Unit) /\ cxnRx \in Seq(Unit) /\ Len(cxnRx) = 0
        BY EmptyType DEF Init, CxnInit
    <2>2. 1 % SeqMod \in 0..(SeqMod - 1) /\ 0 \in 0..(SeqMod - 1) /\ 0 \in 0..(SerialMod - 1)
        BY CxnAssumption
    <2>3. cxnWant = 0 /\ cxnWant \in Nat /\ cxnWant <= HeaderLen + CxnMaxBody
        BY HeaderLenAssumption, CxnAssumption DEF Init, CxnInit
    <2>4. cxnContext \in Nat /\ cxnSentContext \in Nat /\ otId \in Nat
        BY DEF Init, CxnInit
    <2>5. /\ cxnState = "Idle" /\ toId = 0 /\ serial = 0
          /\ sequence = 1 % SeqMod /\ sentSequence = 0 /\ cxnLate = FALSE
        BY DEF Init, CxnInit
    <2>6. sequence \in 0..(SeqMod - 1) /\ sentSequence \in 0..(SeqMod - 1)
          /\ serial \in 0..(SerialMod - 1)
        BY <2>2, <2>5
    <2>7. CxnTypeOK
        BY <2>1, <2>3, <2>4, <2>5, <2>6, Zenon DEF CxnTypeOK, CxnStates
    <2>8. Len(cxnRx) <= cxnWant
        BY <2>1, <2>3
    <2> QED BY <2>3, <2>7, <2>8 DEF CxnOK
<1>4. ConnTypeOK
    BY DEF Init, ConnInit, ConnTypeOK
<1>5. OneReceiver
    BY DEF Init, MsgInit, CxnInit, OneReceiver, MsgInFlight
<1> QED BY <1>1, <1>2, <1>3, <1>4, <1>5 DEF IInv
-----------------------------------------------------------------------------
(* The request a PLC handles is a packet.                                  *)
LEMMA RequestIsPacket ==
    ASSUME StreamOK, Consume
    PROVE  Request1 \in Packet
<1>1. NextIn \in Seq(Unit) /\ Len(NextIn) > 0
    BY MoveType DEF Consume, NextIn, StreamOK, SrvTypeOK
<1>2. NextIn[1] \in Unit
    BY <1>1
<1> QED BY <1>2 DEF Unit, Request1

(* Sending a packet, or nothing, keeps the types of the stream.            *)
LEMMA RespondKeepsTypes ==
    ASSUME StreamOK, Consume, NEW replies \in SUBSET Packet, Respond(replies)
    PROVE  StreamOK'
<1> USE DEF StreamOK, TcpTypeOK, SrvTypeOK
<1>1. Tail(out) \in Seq(Unit) /\ Len(Tail(out)) = Len(out) - 1
    BY MoveType DEF Consume
<1>2. wire' \in Seq(Unit)
    <2>1. ASSUME NEW r \in replies, wire' = wire \o Units(r)
          PROVE  wire' \in Seq(Unit)
        BY <2>1, UnitsType
    <2> QED BY <2>1 DEF Respond
<1>3. /\ srvIn' = <<>> /\ out' = Tail(out)
      /\ UNCHANGED <<fd, tcpState, tcpLate, sock, in, connNo, srvConn, srvLost>>
    BY DEF Consume
<1> QED BY <1>1, <1>2, <1>3, SndBufAssumption

(* Replies that speak of a connection are packets.                         *)
LEMMA RepliesArePackets ==
    ASSUME NEW req \in Packet, NEW kinds \in SUBSET ReplyKinds,
           NEW refs \in SUBSET ConnRef, connNo \in Nat
    PROVE  Replies(req, kinds, refs) \subseteq Packet
<1>1. ASSUME NEW k \in kinds, NEW c \in refs
      PROVE  [Reply(req, k) EXCEPT !.conn = c] \in Packet
    <2>1. Reply(req, k) \in Packet
        BY ReplyType
    <2> QED BY <2>1 DEF Packet
<1> QED BY <1>1 DEF Replies

(* What the PLC says of a connection it has is well-typed.                 *)
LEMMA RefType ==
    ASSUME NEW h \in [conn : Nat, serial : Nat, ot : Nat, to : Nat], NEW seq \in Nat
    PROVE  RefOf(h, seq) \in ConnRef
BY DEF RefOf, ConnRef

(* What the PLC grants is well-typed.                                      *)
LEMMA GrantType ==
    ASSUME NEW req \in Packet, srvConn \in Nat
    PROVE  Grant(req) \in [conn : Nat, serial : Nat, ot : Nat, to : Nat]
BY DEF Grant, Packet, ConnRef

(* Forward Open, Forward Close and connected data in the PLC               *)
(* (synthetic_eip_server.py:209-223, 288-360).                             *)
LEMMA HandleKeepsTypes ==
    ASSUME StreamOK, ConnTypeOK, ConnHandle
    PROVE  StreamOK' /\ ConnTypeOK'
<1>0. connNo \in Nat /\ srvConn \in Nat
    BY DEF StreamOK, TcpTypeOK, SrvTypeOK
<1> DEFINE req == Request1
<1>1. CASE OpenConn
    <2>1. req \in Packet /\ Consume
        BY <1>1, RequestIsPacket DEF OpenConn
    <2>2. Grant(req) \in [conn : Nat, serial : Nat, ot : Nat, to : Nat]
        BY <1>0, <2>1, GrantType
    <2>3. RefOf(Grant(req), 0) \in ConnRef
        BY <2>2, RefType
    <2>4. WrongIds(req) \subseteq ConnRef
        BY <2>1, ConnServerAssumption DEF WrongIds, ConnRef, Packet
    <2>5. /\ Replies(req, ReplyKinds \cap {"ok"}, {RefOf(Grant(req), 0)}) \subseteq Packet
          /\ Replies(req, ReplyKinds \ {"ok"}, {NoConn}) \subseteq Packet
          /\ Replies(req, ReplyKinds \cap {"ok"}, WrongIds(req)) \subseteq Packet
        BY <1>0, <2>1, <2>3, <2>4, NoConnType, RepliesArePackets
    <2>6. PICK replies \in SUBSET Packet : Respond(replies)
        <3> HIDE DEF req
        <3> QED BY <1>1, <2>5 DEF OpenConn, req
    <2>7. StreamOK'
        BY <2>1, <2>6, RespondKeepsTypes
    <2>8. ConnTypeOK'
        <3> HIDE DEF req
        <3> QED BY <1>1, <2>2 DEF OpenConn, ConnTypeOK, req
    <2> QED BY <2>7, <2>8
<1>2. CASE CloseConn
    <2>1. req \in Packet /\ Consume
        BY <1>2, RequestIsPacket DEF CloseConn
    <2>2. PICK done \in SUBSET ReplyKinds :
             /\ Respond(Replies(req, done, {NoConn}))
             /\ held' \subseteq held /\ strays' = strays
        <3> HIDE DEF req
        <3> QED BY <1>2 DEF CloseConn, req
    <2>3. Replies(req, done, {NoConn}) \subseteq Packet
        BY <1>0, <2>1, NoConnType, RepliesArePackets
    <2>4. StreamOK'
        BY <2>1, <2>2, <2>3, RespondKeepsTypes
    <2>5. ConnTypeOK'
        BY <2>2 DEF ConnTypeOK
    <2> QED BY <2>4, <2>5
<1>3. CASE UnitData
    <2>1. req \in Packet /\ Consume
        BY <1>3, RequestIsPacket DEF UnitData
    <2>2. ASSUME NEW h \in OnThis
          PROVE  Replies(req, ReplyKinds, {RefOf(h, req.conn.seq)}) \subseteq Packet
        <3>1. h \in [conn : Nat, serial : Nat, ot : Nat, to : Nat] /\ req.conn.seq \in Nat
            BY <2>1 DEF OnThis, ConnTypeOK, Packet, ConnRef
        <3> QED BY <1>0, <2>1, <3>1, RefType, RepliesArePackets
    <2> DEFINE replies == UNION {Replies(req, ReplyKinds, {RefOf(h, req.conn.seq)})
                                   : h \in {g \in OnThis : g.ot = req.conn.ot}}
    <2>3. replies \subseteq Packet
        BY <2>2
    <2>4. Respond(replies)
        BY <1>3 DEF UnitData
    <2> HIDE DEF replies
    <2>5. StreamOK'
        BY <2>1, <2>3, <2>4, RespondKeepsTypes
    <2>6. ConnTypeOK'
        BY <1>3 DEF UnitData, connVars, ConnTypeOK
    <2> QED BY <2>5, <2>6
<1> QED BY <1>1, <1>2, <1>3 DEF ConnHandle

(* A step of the PLC on a request leaves stream and connections well-      *)
(* typed.                                                                  *)
LEMMA PlcKeepsTypes ==
    ASSUME StreamOK, ConnTypeOK, ConnNext
    PROVE  StreamOK' /\ ConnTypeOK'
<1>1. CASE ConnHandle
    BY <1>1, HandleKeepsTypes
<1>2. CASE ~ConnHandle
    BY <1>2, ServerKeepsTypes DEF ConnNext, SrvNext, connVars, ConnTypeOK
<1> QED BY <1>1, <1>2

(* So does connected data nobody asked for.                                *)
LEMMA StrayKeepsTypes ==
    ASSUME StreamOK, ConnTypeOK, cxnContext \in Nat, PlcStray
    PROVE  StreamOK' /\ ConnTypeOK'
<1>1. PICK c \in 1..(cxnContext - 1), to \in AnyToId, seq \in AnySeq :
         wire' = wire \o Units([cmd |-> "SendUnitData", sess |-> connNo, ctx |-> c,
                                len |-> ReplyLen, kind |-> "ok", svc |-> "Read",
                                name |-> NoName,
                                conn |-> [serial |-> 0, ot |-> 0, to |-> to, seq |-> seq]])
    BY DEF PlcStray, Stray
<1> DEFINE p == [cmd |-> "SendUnitData", sess |-> connNo, ctx |-> c,
                 len |-> ReplyLen, kind |-> "ok", svc |-> "Read", name |-> NoName,
                 conn |-> [serial |-> 0, ot |-> 0, to |-> to, seq |-> seq]]
<1>2. c \in Nat /\ to \in Nat /\ seq \in Nat /\ connNo \in Nat /\ ReplyLen \in Nat
    BY ConnServerAssumption, ServerAssumption DEF StreamOK, TcpTypeOK
<1>3. p \in Packet
    BY <1>2 DEF Packet, Command, ReplyKind, Service, ConnRef
<1>4. wire' = wire \o Units(p)
    BY <1>1
<1> HIDE DEF p
<1>5. wire' \in Seq(Unit)
    BY <1>3, <1>4, UnitsType DEF StreamOK, SrvTypeOK
<1>6. UNCHANGED <<tcpVars, srvConn, srvIn, srvLost, held>> /\ strays' = strays + 1
    BY DEF PlcStray, Stray
<1> QED BY <1>5, <1>6 DEF StreamOK, TcpTypeOK, SrvTypeOK, ConnTypeOK, tcpVars
-----------------------------------------------------------------------------
(* A poll of the message is Pending exactly as long as the message waits.  *)
LEMMA PollPending ==
    ASSUME MsgInFlight, NEW st, MsgPoll(st)
    PROVE  st = "Pending" <=> MsgInFlight'
<1>1. CASE MsgTimeout(st)
    BY <1>1 DEF MsgTimeout, MsgInFlight
<1>2. CASE MsgAdvance(st)
    BY <1>2 DEF MsgAdvance, MsgInFlight
<1>3. CASE MsgSettled(st)
    BY <1>3 DEF MsgSettled, MsgInFlight
<1> QED BY <1>1, <1>2, <1>3 DEF MsgPoll

(* The serial number and the sequence count wrap.                          *)
LEMMA CountersType ==
    ASSUME CxnTypeOK
    PROVE  NextSerial \in 0..(SerialMod - 1) /\ NextSequence \in 0..(SeqMod - 1)
<1>1. serial \in Nat /\ sequence \in Nat
    BY DEF CxnTypeOK
<1>2. (serial + 1) % SerialMod \in 0..(SerialMod - 1) /\ 1 \in 0..(SerialMod - 1)
    BY <1>1, CxnAssumption
<1>3. (sequence + 1) % SeqMod \in 0..(SeqMod - 1)
    BY <1>1, CxnAssumption
<1> QED BY <1>2, <1>3 DEF NextSerial, NextSequence

(* Steps that leave the connection alone, or the peer.                     *)
LEMMA QuietCxn == ASSUME CxnOK, UNCHANGED cxnVars PROVE CxnOK'
BY DEF CxnOK, CxnTypeOK, cxnVars, idVars, sendVars

(* Frames: a step that leaves the message alone keeps its types,           *)
LEMMA QuietMsg == ASSUME MsgOK, MsgFull, UNCHANGED msgVars PROVE MsgOK' /\ MsgFull'
BY DEF MsgOK, MsgTypeOK, MsgFull, MsgInFlight, msgVars

(* one that leaves stream and PLC alone keeps theirs,                      *)
LEMMA QuietPeer ==
    ASSUME StreamOK, ConnTypeOK, UNCHANGED <<tcpVars, peerVars>>
    PROVE  StreamOK' /\ ConnTypeOK'
BY DEF StreamOK, TcpTypeOK, SrvTypeOK, ConnTypeOK, tcpVars, peerVars, srvVars, connVars

(* and one that starts no receiver keeps one at most.                      *)
LEMMA QuietReceivers ==
    ASSUME OneReceiver, UNCHANGED <<msgState, cxnState>> PROVE OneReceiver'
BY DEF OneReceiver, MsgInFlight

(* open() (Connection.cpp:46-55, 87-146).                                  *)
LEMMA OpenStep ==
    ASSUME IInv, AppOpen
    PROVE  IInv'
<1> USE DEF IInv
<1>1. PICK st \in Status, valid \in BOOLEAN : CxnOpen(connNo, valid, st)
    BY DEF AppOpen
<1>2. StreamOK' /\ ConnTypeOK'
    BY QuietPeer DEF AppOpen
<1>3. CASE UNCHANGED <<cxnVars, msgVars>>
    BY <1>2, <1>3, QuietCxn, QuietMsg, QuietReceivers DEF cxnVars, msgVars
<1>4. CASE ~CxnInFlight /\ StartOpen(connNo, st)
    <2>1. PICK t \in ToIds :
             /\ toId' = t /\ otId' = 0 /\ serial' = NextSerial
             /\ MsgSend(connNo, "ForwardOpen", NoName,
                        [serial |-> NextSerial, ot |-> 0, to |-> t, seq |-> 0], TRUE, st)
        BY <1>4 DEF StartOpen
    <2>2. cxnState' = (IF st = "Pending" THEN "Opening" ELSE cxnState) /\ UNCHANGED sendVars
        BY <1>4 DEF StartOpen
    <2>3. NextSerial \in 0..(SerialMod - 1) /\ NextSerial \in Nat /\ t \in Nat
        BY CountersType, CxnAssumption DEF CxnOK
    <2>4. [serial |-> NextSerial, ot |-> 0, to |-> t, seq |-> 0] \in ConnRef
        BY <2>3 DEF ConnRef
    <2>5. connNo \in Nat /\ "ForwardOpen" \in Service /\ NoName \in Names \cup {NoName}
        BY DEF StreamOK, TcpTypeOK, Service
    <2>6. MsgOK' /\ MsgFull'
        BY <2>1, <2>4, <2>5, SendKeepsTypes, SendKeepsFull
    <2>7. CxnOK'
        <3>1. cxnState' \in CxnStates
            BY <2>2 DEF CxnOK, CxnTypeOK, CxnStates
        <3> QED BY <2>1, <2>2, <2>3, <3>1 DEF CxnOK, CxnTypeOK, sendVars
    <2>8. OneReceiver'
        <3>1. ~MsgInFlight /\ cxnState \notin {"Opening", "Closing"}
            BY <1>4 DEF CxnInFlight, OneReceiver
        <3>2. CASE st = "Pending" /\ MsgInFlight'
            <4>1. cxnState' = "Opening"
                BY <2>2, <3>2
            <4> QED BY <3>2, <4>1, Zenon DEF OneReceiver
        <3>3. CASE st # "Pending" /\ UNCHANGED msgVars
            <4>1. UNCHANGED <<msgState, cxnState>>
                BY <2>2, <3>3 DEF msgVars
            <4> QED BY <4>1, QuietReceivers
        <3>4. (st = "Pending" /\ MsgInFlight') \/ (st # "Pending" /\ UNCHANGED msgVars)
            BY <2>1 DEF MsgSend, StartSend, MsgInFlight
        <3> QED BY <3>2, <3>3, <3>4
    <2> QED BY <1>2, <2>6, <2>7, <2>8
<1> QED BY <1>1, <1>3, <1>4 DEF CxnOpen

(* close() (Connection.cpp:66-71, 148-175).                                *)
LEMMA CloseStep ==
    ASSUME IInv, AppCloseCxn
    PROVE  IInv'
<1> USE DEF IInv
<1>1. PICK st \in Status : CxnClose(connNo, st)
    BY DEF AppCloseCxn
<1>2. StreamOK' /\ ConnTypeOK'
    BY QuietPeer DEF AppCloseCxn
<1>3. CASE UNCHANGED <<cxnVars, msgVars>>
    BY <1>2, <1>3, QuietCxn, QuietMsg, QuietReceivers DEF cxnVars, msgVars
<1>4. CASE ~UNCHANGED <<cxnVars, msgVars>>
    <2>1. /\ cxnState = "Open"
          /\ MsgSend(connNo, "ForwardClose", NoName,
                     [serial |-> serial, ot |-> 0, to |-> 0, seq |-> 0], TRUE, st)
          /\ cxnState' = (IF st = "Pending" THEN "Closing" ELSE cxnState)
          /\ UNCHANGED <<idVars, sendVars>>
        BY <1>1, <1>4 DEF CxnClose
    <2>2. [serial |-> serial, ot |-> 0, to |-> 0, seq |-> 0] \in ConnRef
        BY DEF ConnRef, CxnOK, CxnTypeOK
    <2>3. connNo \in Nat /\ "ForwardClose" \in Service /\ NoName \in Names \cup {NoName}
        BY DEF StreamOK, TcpTypeOK, Service
    <2>4. MsgOK' /\ MsgFull'
        BY <2>1, <2>2, <2>3, SendKeepsTypes, SendKeepsFull
    <2>5. CxnOK'
        <3>1. cxnState' \in CxnStates
            BY <2>1 DEF CxnStates
        <3> QED BY <2>1, <3>1 DEF CxnOK, CxnTypeOK, sendVars, idVars
    <2>6. OneReceiver'
        <3>1. ~MsgInFlight
            BY <2>1 DEF OneReceiver
        <3>2. CASE st = "Pending" /\ MsgInFlight'
            <4>1. cxnState' = "Closing"
                BY <2>1, <3>2
            <4> QED BY <3>2, <4>1, Zenon DEF OneReceiver
        <3>3. CASE st # "Pending" /\ UNCHANGED msgVars
            <4>1. UNCHANGED <<msgState, cxnState>>
                BY <2>1, <3>3 DEF msgVars
            <4> QED BY <4>1, QuietReceivers
        <3>4. (st = "Pending" /\ MsgInFlight') \/ (st # "Pending" /\ UNCHANGED msgVars)
            BY <2>1 DEF MsgSend, StartSend, MsgInFlight
        <3> QED BY <3>2, <3>3, <3>4
    <2> QED BY <1>2, <2>4, <2>5, <2>6
<1> QED BY <1>3, <1>4

(* send() (Connection.cpp:57-64, 177-232).                                 *)
LEMMA SendStep ==
    ASSUME IInv, AppSend
    PROVE  IInv'
<1> USE DEF IInv
<1>1. PICK st \in Status, valid \in BOOLEAN : CxnSend(connNo, valid, st)
    BY DEF AppSend
<1>2. StreamOK' /\ ConnTypeOK' /\ MsgOK' /\ MsgFull'
    BY QuietPeer, QuietMsg DEF AppSend
<1>3. CASE UNCHANGED cxnVars
    BY <1>2, <1>3, QuietCxn, QuietReceivers DEF AppSend, cxnVars, msgVars
<1>4. CASE ~UNCHANGED cxnVars
    <2>1. /\ cxnState = "Open" /\ cxnState' = "Sending"
          /\ cxnTx' = Units(ConnectedRequest(connNo))
          /\ cxnRx' = <<>> /\ cxnWant' = HeaderLen
          /\ cxnSentContext' = cxnContext /\ cxnContext' = cxnContext + 1
          /\ sentSequence' = sequence /\ sequence' = NextSequence
          /\ cxnLate' = FALSE
          /\ UNCHANGED idVars
        BY <1>1, <1>4 DEF CxnSend
    <2>2. ConnectedRequest(connNo) \in Packet
        BY CxnAssumption
           DEF ConnectedRequest, Packet, Command, Service, ConnRef, CxnOK, CxnTypeOK,
               StreamOK, TcpTypeOK
    <2>3. cxnTx' \in Seq(Unit)
        BY <2>1, <2>2, UnitsType
    <2>4. cxnRx' \in Seq(Unit) /\ Len(cxnRx') = 0
        BY <2>1, EmptyType
    <2>5. cxnWant' \in Nat /\ Len(cxnRx') <= cxnWant' /\ cxnWant' <= HeaderLen + CxnMaxBody
        BY <2>1, <2>4, HeaderLenAssumption, CxnAssumption
    <2>6. /\ sequence' \in 0..(SeqMod - 1) /\ sentSequence' \in 0..(SeqMod - 1)
          /\ cxnContext' \in Nat /\ cxnSentContext' \in Nat
        BY <2>1, CountersType DEF CxnOK, CxnTypeOK
    <2>7. CxnOK'
        BY <2>1, <2>3, <2>4, <2>5, <2>6 DEF CxnOK, CxnTypeOK, CxnStates, idVars
    <2>8. OneReceiver'
        BY <2>1 DEF AppSend, OneReceiver, MsgInFlight, msgVars
    <2> QED BY <1>2, <2>7, <2>8
<1> QED BY <1>3, <1>4

(* poll() while opening (Connection.cpp:247-275): fwd_ is polled.          *)
LEMMA PollOpeningStep ==
    ASSUME IInv, NEW st, PollOpening(st), UNCHANGED peerVars
    PROVE  IInv'
<1> USE DEF IInv
<1>1. PICK s :
         /\ MsgPoll(s)
         /\ \/ s = "Pending" /\ UNCHANGED <<cxnState, otId>>
            \/ s # "Pending" /\ cxnState' = "Failed" /\ UNCHANGED otId
            \/ s = "Ok" /\ cxnState' = "Open" /\ otId' = MsgReply'.conn.ot
    BY DEF PollOpening
<1>2. cxnState = "Opening" /\ MsgInFlight /\ UNCHANGED <<toId, serial, sendVars>>
    BY DEF PollOpening, OneReceiver
<1>3. MsgOK' /\ StreamOK' /\ ConnTypeOK'
    BY <1>1, PollKeepsTypes DEF peerVars, connVars, ConnTypeOK
<1>4. MsgFull' /\ (s = "Ok" => msgState' = "Done")
    BY <1>1, PollKeepsFull
<1>5. s = "Pending" <=> MsgInFlight'
    BY <1>1, <1>2, PollPending
<1>6. s = "Ok" => MsgReply'.conn.ot \in Nat
    <2> SUFFICES ASSUME s = "Ok" PROVE MsgReply'.conn.ot \in Nat
        OBVIOUS
    <2>1. msgRx' \in Seq(Unit) /\ HeaderLen <= Len(msgRx')
        BY <1>3, <1>4 DEF MsgOK, MsgTypeOK, MsgFull
    <2>2. MsgReply' = DecodeHeader(msgRx')
        BY DEF MsgReply
    <2>3. MsgReply' \in Packet
        BY <2>1, <2>2, DecodeHeaderType
    <2> QED BY <2>3 DEF Packet, ConnRef
<1>7. /\ otId' \in Nat /\ cxnState' \in {"Opening", "Failed", "Open"}
      /\ cxnState' = "Opening" <=> s = "Pending"
    BY <1>1, <1>2, <1>6 DEF CxnOK, CxnTypeOK
<1>8. CxnOK'
    BY <1>2, <1>7 DEF CxnOK, CxnTypeOK, CxnStates, sendVars
<1>9. OneReceiver'
    <2>1. cxnState' \in {"Opening", "Closing"} <=> MsgInFlight'
        BY <1>5, <1>7
    <2> QED BY <2>1, Zenon DEF OneReceiver
<1> QED BY <1>3, <1>4, <1>8, <1>9

(* poll() while closing (Connection.cpp:302-313).                          *)
LEMMA PollClosingStep ==
    ASSUME IInv, NEW st, PollClosing(st), UNCHANGED peerVars
    PROVE  IInv'
<1> USE DEF IInv
<1>1. cxnState = "Closing" /\ MsgPoll(st) /\ MsgInFlight /\ UNCHANGED <<idVars, sendVars>>
    BY DEF PollClosing, OneReceiver
<1>2. /\ cxnState' \in {"Closing", "Closed", "Failed"}
      /\ cxnState' = "Closing" <=> st = "Pending"
    BY DEF PollClosing
<1>3. MsgOK' /\ StreamOK' /\ ConnTypeOK'
    BY <1>1, PollKeepsTypes DEF peerVars, connVars, ConnTypeOK
<1>4. MsgFull'
    BY <1>1, PollKeepsFull
<1>5. CxnOK'
    BY <1>1, <1>2 DEF CxnOK, CxnTypeOK, CxnStates, idVars, sendVars
<1>6. OneReceiver'
    <2>1. st = "Pending" <=> MsgInFlight'
        BY <1>1, PollPending
    <2>2. cxnState' \in {"Opening", "Closing"} <=> MsgInFlight'
        BY <1>2, <2>1
    <2> QED BY <2>2, Zenon DEF OneReceiver
<1> QED BY <1>3, <1>4, <1>5, <1>6

(* poll() while a connected request waits (Connection.cpp:277-300).        *)
LEMMA PollSendingStep ==
    ASSUME IInv, NEW st, PollSending(st), UNCHANGED peerVars
    PROVE  IInv'
<1> USE DEF IInv
<1>1. UNCHANGED msgVars /\ cxnState = "Sending"
    BY DEF PollSending, CxnTimeout, CxnAdvance
<1>2. MsgOK' /\ MsgFull' /\ ConnTypeOK'
    BY <1>1, QuietMsg DEF peerVars, connVars, ConnTypeOK
<1>3. OneReceiver'
    <2>1. cxnState' \notin {"Opening", "Closing"}
        BY DEF PollSending, CxnTimeout, CxnAdvance
    <2>2. ~MsgInFlight'
        BY <1>1 DEF OneReceiver, msgVars, MsgInFlight
    <2> QED BY <2>1, <2>2, Zenon DEF OneReceiver
<1>4. CASE CxnTimeout(st)
    <2>1. CxnOK'
        BY <1>4 DEF CxnTimeout, CxnOK, CxnTypeOK, CxnStates, idVars, sendVars
    <2>2. StreamOK'
        BY <1>4, QuietPeer DEF CxnTimeout, peerVars
    <2> QED BY <1>2, <1>3, <2>1, <2>2
<1>5. CASE CxnAdvance(st)
    <2>1. PICK r \in Advance(cxnTx, cxnRx, cxnWant, CxnMaxBody) :
             /\ cxnTx' = r.tx /\ cxnRx' = r.rx /\ cxnWant' = r.want
             /\ out' = r.out /\ in' = r.in /\ tcpState' = r.tcp
             /\ cxnState' = CASE st = "Ok"      -> "Open"
                              [] st = "Pending" -> "Sending"
                              [] OTHER          -> "Failed"
        BY <1>5 DEF CxnAdvance
    <2>2. UNCHANGED <<idVars, sequence, sentSequence, cxnContext, cxnSentContext, cxnLate,
                      fd, tcpLate, sock, connNo>>
        BY <1>5 DEF CxnAdvance
    <2>3. /\ r.tx \in Seq(Unit) /\ r.rx \in Seq(Unit)
          /\ r.out \in Seq(Unit) /\ r.in \in Seq(Unit) /\ Len(r.out) <= SndBuf
          /\ r.want \in Nat /\ Len(r.rx) <= r.want
          /\ r.want <= HeaderLen + CxnMaxBody
          /\ r.tcp \in {tcpState, "Closed"}
        BY AdvanceType, CxnAssumption
           DEF CxnOK, CxnTypeOK, StreamOK, TcpTypeOK, SrvTypeOK
    <2>4. cxnState' \in CxnStates
        BY <2>1 DEF CxnStates
    <2>5. CxnOK'
        BY <2>1, <2>2, <2>3, <2>4 DEF CxnOK, CxnTypeOK, idVars
    <2>6. StreamOK'
        BY <2>1, <2>2, <2>3
           DEF StreamOK, TcpTypeOK, SrvTypeOK, peerVars, srvVars
    <2> QED BY <1>2, <1>3, <2>5, <2>6
<1> QED BY <1>4, <1>5 DEF PollSending

(* poll() (Connection.cpp:234-245).                                        *)
LEMMA PollStep ==
    ASSUME IInv, AppPoll
    PROVE  IInv'
<1>1. PICK st \in PollStatus : CxnPoll(st)
    BY DEF AppPoll
<1>2. UNCHANGED peerVars
    BY DEF AppPoll
<1>3. CASE CxnSettled(st)
    <2>1. UNCHANGED <<cxnVars, msgVars, tcpVars, peerVars>>
        BY <1>2, <1>3 DEF CxnSettled
    <2>2. UNCHANGED <<msgState, cxnState>>
        BY <2>1 DEF cxnVars, msgVars
    <2> QED BY <2>1, <2>2, QuietCxn, QuietMsg, QuietPeer, QuietReceivers DEF IInv
<1> QED BY <1>1, <1>2, <1>3, PollOpeningStep, PollClosingStep, PollSendingStep DEF CxnPoll

(* Every other step leaves the receivers alone, or only makes a deadline   *)
(* pass.                                                                   *)
LEMMA QuietStep ==
    ASSUME IInv, \/ AppConnect \/ AppClose \/ AppPollTcp \/ Tick \/ UNCHANGED vars
                 \/ (ConnNext \/ PlcStray) /\ UNCHANGED <<msgVars, cxnVars, got>>
    PROVE  IInv'
<1> USE DEF IInv
<1>c. UNCHANGED cxnVars => CxnOK'
    BY QuietCxn
<1>m. UNCHANGED msgVars => MsgOK' /\ MsgFull'
    BY QuietMsg
<1>r. UNCHANGED <<msgState, cxnState>> => OneReceiver'
    BY QuietReceivers
<1>q. UNCHANGED msgVars /\ UNCHANGED cxnVars => UNCHANGED <<msgState, cxnState>>
    BY DEF msgVars, cxnVars
<1>p. UNCHANGED peerVars => ConnTypeOK' /\ UNCHANGED srvVars
    BY DEF peerVars, connVars, ConnTypeOK
<1>1. CASE AppConnect
    <2>1. StreamOK'
        BY <1>1, <1>p, TcpKeepsTypes DEF AppConnect
    <2> QED BY <1>1, <2>1, <1>c, <1>m, <1>r, <1>q, <1>p DEF AppConnect
<1>2. CASE AppClose
    <2>1. StreamOK'
        BY <1>2, <1>p, TcpKeepsTypes DEF AppClose
    <2> QED BY <1>2, <2>1, <1>c, <1>m, <1>r, <1>q, <1>p DEF AppClose
<1>3. CASE AppPollTcp
    <2>1. StreamOK'
        BY <1>3, <1>p, TcpKeepsTypes DEF AppPollTcp
    <2> QED BY <1>3, <2>1, <1>c, <1>m, <1>r, <1>q, <1>p DEF AppPollTcp
<1>4. CASE TcpDeadline /\ UNCHANGED <<msgVars, cxnVars, peerVars, got>>
    <2>1. StreamOK'
        BY <1>4, <1>p DEF TcpDeadline, StreamOK, TcpTypeOK, SrvTypeOK, srvVars
    <2> QED BY <1>4, <2>1, <1>c, <1>m, <1>r, <1>q, <1>p
<1>5. CASE MsgDeadline /\ UNCHANGED <<tcpVars, cxnVars, peerVars, got>>
    <2>1. MsgOK' /\ MsgFull'
        BY <1>5 DEF MsgDeadline, MsgOK, MsgTypeOK, MsgFull, MsgInFlight
    <2>2. UNCHANGED <<msgState, cxnState>>
        BY <1>5 DEF MsgDeadline, cxnVars
    <2> QED BY <1>5, <2>1, <2>2, <1>c, <1>r, QuietPeer
<1>6. CASE CxnDeadline /\ UNCHANGED <<tcpVars, msgVars, peerVars, got>>
    <2>1. CxnOK'
        BY <1>6 DEF CxnDeadline, CxnOK, CxnTypeOK, idVars
    <2>2. UNCHANGED <<msgState, cxnState>>
        BY <1>6 DEF CxnDeadline, msgVars
    <2> QED BY <1>6, <2>1, <2>2, <1>m, <1>r, QuietPeer
<1>7. CASE (ConnNext \/ PlcStray) /\ UNCHANGED <<msgVars, cxnVars, got>>
    <2>1. StreamOK' /\ ConnTypeOK'
        BY <1>7, PlcKeepsTypes, StrayKeepsTypes DEF CxnOK, CxnTypeOK
    <2> QED BY <1>7, <2>1, <1>c, <1>m, <1>r, <1>q
<1>8. CASE UNCHANGED vars
    <2>1. UNCHANGED <<tcpVars, msgVars, cxnVars, peerVars>>
        BY <1>8 DEF vars, peerVars
    <2> QED BY <2>1, <1>c, <1>m, <1>r, <1>q, QuietPeer
<1> QED BY <1>1, <1>2, <1>3, <1>4, <1>5, <1>6, <1>7, <1>8 DEF Tick

(* Every step keeps the invariant,                                         *)
LEMMA InvNext == IInv /\ [Next]_vars => IInv'
BY OpenStep, CloseStep, SendStep, PollStep, QuietStep DEF Next, AppNext

(* so that it holds in every reachable state.                              *)
LEMMA InvAlways == Spec => []IInv
BY InitInv, InvNext, PTL DEF Spec

(* Type correctness of the connection, its message, the TCP connection and *)
(* the PLC, also when the serial number and the sequence count wrap.       *)
THEOREM ConnectionTypeCorrect == Spec => []TypeOK
<1>1. IInv => TypeOK
    BY DEF IInv, MsgOK, CxnOK, StreamOK, TypeOK
<1> QED BY <1>1, InvAlways, PTL

(* Never do fwd_ and the connection both wait for a response on the one    *)
(* stream (Connection.cpp:51, 60, 67).                                     *)
THEOREM ReceiversExclude == Spec => []OneReceiver
<1>1. IInv => OneReceiver
    BY DEF IInv
<1> QED BY <1>1, InvAlways, PTL
-----------------------------------------------------------------------------
(* What the refinement rests on: the next context is the last one plus 1,  *)
(* and what data() gives carries the context of the last request.          *)
AnswerInv ==
    /\ cxnContext \in Nat /\ cxnSentContext \in Nat /\ cxnContext = cxnSentContext + 1
    /\ cxnState = "Sending" => got = Nothing
    /\ got # Nothing => got.ctx = cxnSentContext

(* The phase of the abstract exchange.                                     *)
LEMMA CxnPhaseOf ==
    ASSUME AnswerInv
    PROVE  /\ cxnState = "Sending" => CxnPhase = "open" /\ got = Nothing
           /\ cxnState # "Sending" /\ got # Nothing => CxnPhase = "answered"
           /\ cxnState # "Sending" /\ got = Nothing => CxnPhase = "idle"
BY DEF AnswerInv, CxnPhase

(* The phase of the abstract exchange after a step.                        *)
LEMMA CxnPhaseOfNext ==
    ASSUME AnswerInv'
    PROVE  /\ cxnState' = "Sending" => CxnPhase' = "open" /\ got' = Nothing
           /\ cxnState' # "Sending" /\ got' # Nothing => CxnPhase' = "answered"
           /\ cxnState' # "Sending" /\ got' = Nothing => CxnPhase' = "idle"
<1>1. CxnPhase' = CASE cxnState' = "Sending" -> "open"
                    [] got' # Nothing        -> "answered"
                    [] OTHER                 -> "idle"
    BY DEF CxnPhase, Nothing, Garbage, NoConn
<1>2. cxnState' = "Sending" => got' = Nothing
    BY DEF AnswerInv, Nothing, Garbage, NoConn
<1> QED BY <1>1, <1>2

(* No answer carries no context.                                           *)
LEMMA NothingSaysNothing == Nothing.ctx = 0
BY DEF Nothing, Garbage

(* A step that neither sends nor answers nor forgets is a stutter.         *)
LEMMA QuietAnswer ==
    ASSUME AnswerInv, UNCHANGED <<cxnContext, cxnSentContext, got>>,
           cxnState' = "Sending" <=> cxnState = "Sending"
    PROVE  AnswerInv' /\ UNCHANGED <<CxnPhase, cxnContext - 1, got.ctx>>
<1>1. AnswerInv'
    BY DEF AnswerInv, Nothing, Garbage, NoConn
<1>2. CxnPhase' = CxnPhase
    BY <1>1, CxnPhaseOf, CxnPhaseOfNext
<1> QED BY <1>1, <1>2

(* One that forgets what was got, or fails the open request, abandons it.  *)
LEMMA AbandonsAnswer ==
    ASSUME AnswerInv, UNCHANGED <<cxnContext, cxnSentContext>>,
           got' = Nothing, cxnState' # "Sending"
    PROVE  AnswerInv' /\ Connected1!Abandon
<1>1. AnswerInv'
    BY DEF AnswerInv, Nothing, Garbage, NoConn
<1>2. CxnPhase' = "idle"
    BY <1>1, CxnPhaseOfNext
<1>3. got'.ctx = 0
    BY NothingSaysNothing
<1> QED BY <1>1, <1>2, <1>3 DEF Connected1!Abandon, Connected1!NoAnswer

(* open() forgets (Connection.cpp:87-146), unless it is not sent.          *)
LEMMA OpenMapsToExchange ==
    ASSUME AnswerInv, AppOpen
    PROVE  AnswerInv' /\ (Connected1!Abandon \/ UNCHANGED <<CxnPhase, cxnContext - 1, got.ctx>>)
<1>1. PICK st \in Status, valid \in BOOLEAN :
         CxnOpen(connNo, valid, st) /\ got' = IF st = "Pending" THEN Nothing ELSE got
    BY DEF AppOpen
<1>2. CASE UNCHANGED <<cxnVars, msgVars>> /\ st # "Pending"
    <2>1. UNCHANGED <<cxnContext, cxnSentContext, cxnState, got>>
        BY <1>1, <1>2 DEF cxnVars, sendVars
    <2> QED BY <2>1, QuietAnswer
<1>3. CASE ~CxnInFlight /\ StartOpen(connNo, st)
    <2>1. /\ UNCHANGED <<cxnContext, cxnSentContext>>
          /\ cxnState' = IF st = "Pending" THEN "Opening" ELSE cxnState
          /\ cxnState # "Sending"
        BY <1>3 DEF StartOpen, sendVars, CxnInFlight
    <2>2. CASE st = "Pending"
        BY <1>1, <2>1, <2>2, AbandonsAnswer
    <2>3. CASE st # "Pending"
        BY <1>1, <2>1, <2>3, QuietAnswer
    <2> QED BY <2>2, <2>3
<1> QED BY <1>1, <1>2, <1>3 DEF CxnOpen

(* A new connected request opens the abstract exchange under the next      *)
(* number (Connection.cpp:177-232).                                        *)
LEMMA ConnectedSendMapsToExchange ==
    ASSUME AnswerInv, AppSend
    PROVE  AnswerInv' /\ (Connected1!Open \/ UNCHANGED <<CxnPhase, cxnContext - 1, got.ctx>>)
<1>1. PICK st \in Status, valid \in BOOLEAN :
         CxnSend(connNo, valid, st) /\ got' = IF st = "Pending" THEN Nothing ELSE got
    BY DEF AppSend
<1>2. CASE UNCHANGED cxnVars /\ st # "Pending"
    <2>1. UNCHANGED <<cxnContext, cxnSentContext, cxnState, got>>
        BY <1>1, <1>2 DEF cxnVars, sendVars
    <2> QED BY <2>1, QuietAnswer
<1>3. CASE ~(UNCHANGED cxnVars /\ st # "Pending")
    <2>1. /\ cxnState = "Open" /\ st = "Pending" /\ cxnState' = "Sending"
          /\ cxnSentContext' = cxnContext /\ cxnContext' = cxnContext + 1
        BY <1>1, <1>3 DEF CxnSend
    <2>2. got' = Nothing
        BY <1>1, <2>1
    <2>3. AnswerInv'
        BY <2>1, <2>2 DEF AnswerInv, Nothing, Garbage, NoConn
    <2>4. CxnPhase # "open"
        BY <2>1, CxnPhaseOf
    <2>5. CxnPhase' = "open" /\ got'.ctx = 0
        BY <2>1, <2>2, <2>3, CxnPhaseOfNext, NothingSaysNothing
    <2>6. cxnContext' - 1 = (cxnContext - 1) + 1
        BY <2>1 DEF AnswerInv
    <2> QED BY <2>3, <2>4, <2>5, <2>6 DEF Connected1!Open, Connected1!NoAnswer
<1> QED BY <1>2, <1>3

(* A poll that returns Ok has compared the context of the response with    *)
(* the one of the request (Connection.cpp:352-431).                        *)
LEMMA SendingPollMapsToExchange ==
    ASSUME AnswerInv, NEW st, PollSending(st),
           got' = IF st = "Ok" THEN DecodeHeader(cxnRx)' ELSE got
    PROVE  /\ AnswerInv'
           /\ \/ Connected1!Answer \/ Connected1!Abandon
              \/ UNCHANGED <<CxnPhase, cxnContext - 1, got.ctx>>
<1>1. cxnState = "Sending" /\ got = Nothing /\ CxnPhase = "open"
    BY CxnPhaseOf DEF PollSending, CxnTimeout, CxnAdvance
<1>2. CASE CxnTimeout(st)
    <2>1. UNCHANGED <<cxnContext, cxnSentContext>> /\ got' = Nothing /\ cxnState' = "Failed"
        BY <1>1, <1>2 DEF CxnTimeout, sendVars
    <2> QED BY <2>1, AbandonsAnswer
<1>3. CASE CxnAdvance(st)
    <2>1. PICK r \in Advance(cxnTx, cxnRx, cxnWant, CxnMaxBody) :
             /\ cxnRx' = r.rx
             /\ st = IF r.st = "Ok" THEN ParseConnectedResponse(r.rx) ELSE r.st
             /\ cxnState' = CASE st = "Ok"      -> "Open"
                              [] st = "Pending" -> "Sending"
                              [] OTHER          -> "Failed"
        BY <1>3 DEF CxnAdvance
    <2>2. UNCHANGED <<cxnContext, cxnSentContext>>
        BY <1>3 DEF CxnAdvance
    <2>3. CASE st = "Ok"
        <3>1. r.st = "Ok" => ParseConnectedResponse(r.rx) = "Ok"
            BY <2>1, <2>3
        <3>2. ParseConnectedResponse(r.rx) = "Ok"
            BY <2>1, <2>3
        <3>3. DecodeHeader(r.rx).cmd = "SendUnitData" /\ DecodeHeader(r.rx).ctx = cxnSentContext
            BY <3>2 DEF ParseConnectedResponse
        <3>4. got' = DecodeHeader(r.rx)
            <4>1. DecodeHeader(cxnRx)' = DecodeHeader(cxnRx')
                BY DEF DecodeHeader, Aligned, Garbage, NoConn
            <4> QED BY <2>1, <2>3, <4>1
        <3>5. got'.ctx = cxnSentContext /\ got' # Nothing
            BY <3>3, <3>4 DEF Nothing, Garbage
        <3>6. cxnState' = "Open"
            BY <2>1, <2>3
        <3>7. AnswerInv'
            BY <2>2, <3>5, <3>6 DEF AnswerInv, Nothing, Garbage, NoConn
        <3>8. CxnPhase' = "answered"
            BY <3>5, <3>6, <3>7, CxnPhaseOfNext
        <3>9. got'.ctx = cxnContext - 1
            BY <3>5 DEF AnswerInv
        <3> QED BY <1>1, <2>2, <3>7, <3>8, <3>9 DEF Connected1!Answer
    <2>4. CASE st = "Pending"
        BY <1>1, <2>1, <2>2, <2>4, QuietAnswer
    <2>5. CASE st \notin {"Ok", "Pending"}
        <3>1. cxnState' # "Sending" /\ got' = Nothing
            BY <1>1, <2>1, <2>5
        <3> QED BY <2>2, <3>1, AbandonsAnswer
    <2> QED BY <2>3, <2>4, <2>5
<1> QED BY <1>2, <1>3 DEF PollSending

(* poll() maps to the abstract answer, to giving up, or to a stutter       *)
(* (Connection.cpp:277-300).                                               *)
LEMMA ConnectedPollMapsToExchange ==
    ASSUME AnswerInv, AppPoll
    PROVE  /\ AnswerInv'
           /\ \/ Connected1!Answer \/ Connected1!Abandon
              \/ UNCHANGED <<CxnPhase, cxnContext - 1, got.ctx>>
<1>1. PICK st \in PollStatus :
         /\ CxnPoll(st)
         /\ got' = IF cxnState = "Sending" /\ st = "Ok" THEN DecodeHeader(cxnRx)' ELSE got
    BY DEF AppPoll
<1>2. CASE PollSending(st)
    <2>1. cxnState = "Sending"
        BY <1>2 DEF PollSending, CxnTimeout, CxnAdvance
    <2>2. got' = IF st = "Ok" THEN DecodeHeader(cxnRx)' ELSE got
        BY <1>1, <2>1
    <2> QED BY <1>2, <2>2, SendingPollMapsToExchange
<1>3. CASE PollOpening(st) \/ PollClosing(st) \/ CxnSettled(st)
    <2>1. /\ UNCHANGED <<cxnContext, cxnSentContext>>
          /\ cxnState # "Sending" /\ cxnState' # "Sending"
        BY <1>3 DEF PollOpening, PollClosing, CxnSettled, cxnVars, sendVars
    <2>2. UNCHANGED got
        BY <1>1, <2>1
    <2> QED BY <2>1, <2>2, QuietAnswer
<1> QED BY <1>1, <1>2, <1>3 DEF CxnPoll

(* Every step of the system is one of the abstract exchange, or none.      *)
LEMMA ConnectedStepMapsToExchange ==
    ASSUME AnswerInv, [Next]_vars
    PROVE  AnswerInv' /\ [Connected1!ExNext]_<<CxnPhase, cxnContext - 1, got.ctx>>
<1>1. CASE AppOpen
    BY <1>1, OpenMapsToExchange DEF Connected1!ExNext
<1>2. CASE AppSend
    BY <1>2, ConnectedSendMapsToExchange DEF Connected1!ExNext
<1>3. CASE AppPoll
    BY <1>3, ConnectedPollMapsToExchange DEF Connected1!ExNext
<1>4. CASE ~(AppOpen \/ AppSend \/ AppPoll)
    <2>1. CASE AppCloseCxn
        <3>1. PICK st \in Status : CxnClose(connNo, st) /\ UNCHANGED got
            BY <2>1 DEF AppCloseCxn
        <3>2. /\ UNCHANGED <<cxnContext, cxnSentContext>>
              /\ cxnState' = "Sending" <=> cxnState = "Sending"
            BY <3>1 DEF CxnClose, cxnVars, sendVars
        <3> QED BY <3>1, <3>2, QuietAnswer
    <2>2. CASE Tick
        <3>1. UNCHANGED <<cxnContext, cxnSentContext, cxnState, got>>
            BY <2>2 DEF Tick, CxnDeadline, cxnVars, sendVars
        <3> QED BY <3>1, QuietAnswer
    <2>3. CASE ~(AppCloseCxn \/ Tick)
        <3>1. UNCHANGED <<cxnVars, got>>
            BY <1>4, <2>3 DEF Next, AppNext, AppConnect, AppClose, AppPollTcp, vars
        <3>2. UNCHANGED <<cxnContext, cxnSentContext, cxnState, got>>
            BY <3>1 DEF cxnVars, sendVars
        <3> QED BY <3>2, QuietAnswer
    <2> QED BY <2>1, <2>2, <2>3
<1> QED BY <1>1, <1>2, <1>3, <1>4

(* The initial states map to initial states.                               *)
LEMMA ConnectedInitMapsToExchange == Init => AnswerInv /\ Connected1!ExInit
<1> SUFFICES ASSUME Init PROVE AnswerInv /\ Connected1!ExInit
    OBVIOUS
<1>1. cxnState = "Idle" /\ cxnContext = 1 /\ cxnSentContext = 0 /\ got = Nothing
    BY DEF Init, CxnInit
<1>2. AnswerInv
    BY <1>1 DEF AnswerInv
<1>3. CxnPhase = "idle" /\ got.ctx = 0
    BY <1>1, <1>2, CxnPhaseOf, NothingSaysNothing
<1> QED BY <1>1, <1>2, <1>3 DEF Connected1!ExInit, Connected1!NoAnswer

(* The connection implements the abstract exchange: poll() returns Ok for  *)
(* connected data only with the answer to the very last request, whatever  *)
(* stale, replayed or misrouted data came in between, and also when the    *)
(* sequence count has wrapped.                                             *)
THEOREM ConnectedExchangeImplemented == Spec => ImplementsExchange
<1>1. Init => AnswerInv /\ Connected1!ExInit
    BY ConnectedInitMapsToExchange
<1>2. AnswerInv /\ [Next]_vars
        => AnswerInv' /\ [Connected1!ExNext]_<<CxnPhase, cxnContext - 1, got.ctx>>
    BY ConnectedStepMapsToExchange
<1> QED BY <1>1, <1>2, PTL DEF Spec, ImplementsExchange, Connected1!ExSpec
-----------------------------------------------------------------------------
(* Which ids go with a request: a request that names the present serial    *)
(* number names the present id, and what waits for an answer is tied to    *)
(* its request by its context.                                             *)
RequestOK(f) ==
    /\ f.cmd = "SendRRData" \/ (f.cmd = "SendUnitData" /\ f.svc = "Read")
    /\ f.cmd = "SendRRData" =>
          /\ f.ctx < context
          /\ cxnState = "Opening" /\ f.ctx = sentContext =>
                f.svc = "ForwardOpen" /\ f.conn.serial = serial
    /\ f.svc \in {"ForwardOpen", "ForwardClose"} => f.conn.serial <= serial
    /\ f.svc = "ForwardOpen" /\ f.conn.serial = serial => f.conn.to = toId
    /\ f.svc = "ForwardClose" /\ f.conn.serial = serial =>
          cxnState \in {"Closing", "Closed", "Failed"}
    /\ f.cmd = "SendUnitData" =>
          /\ f.ctx < cxnContext
          /\ cxnState = "Sending" /\ f.ctx = cxnSentContext =>
                f.conn.ot = otId /\ f.conn.seq = sentSequence

(* Which ids go with an answer that the client may accept: those of a      *)
(* connection that the PLC holds, or those of the connection itself.       *)
AnswerOK(f) ==
    /\ f.cmd = "SendRRData" =>
          /\ f.ctx < context
          /\ cxnState = "Opening" /\ f.ctx = sentContext /\ Negotiated(f) =>
                \E h \in held : h.serial = serial /\ h.ot = f.conn.ot /\ h.to = toId
    /\ f.cmd = "SendUnitData" =>
          /\ f.ctx < cxnContext
          /\ (/\ cxnState = "Sending" /\ f.ctx = cxnSentContext
              /\ f.conn.to = toId /\ f.conn.seq = sentSequence) =>
                f.conn = [serial |-> serial, ot |-> otId, to |-> toId, seq |-> sentSequence]

Requests == {u \in Unit : RequestOK(u.f)}
Answers  == {u \in Unit : AnswerOK(u.f)}

AllRequests ==
    msgTx \in Seq(Requests) /\ cxnTx \in Seq(Requests)
    /\ out \in Seq(Requests) /\ srvIn \in Seq(Requests)
AllAnswers ==
    in \in Seq(Answers) /\ wire \in Seq(Answers)
    /\ msgRx \in Seq(Answers) /\ cxnRx \in Seq(Answers)

(* The PLC's id of a connection is its serial number, and no connection    *)
(* has a serial number yet to come.                                        *)
HeldOK ==
    \A h \in held : /\ h.ot = h.serial /\ h.serial <= serial
                    /\ h.serial = serial => h.to = toId

(* What the ids of the connection are.                                     *)
IdsKnown ==
    /\ HeldOK /\ OpenIsHeld /\ GotOnThisConnection
    /\ context = sentContext + 1
    /\ cxnState = "Opening" => got = Nothing
    /\ cxnState = "Sending" => HeaderLen <= cxnWant

(* The inductive invariant of the ids.                                     *)
IdsInv == IInv /\ AnswerInv /\ AllRequests /\ AllAnswers /\ IdsKnown

(* What the ids are judged by.                                             *)
judged == <<context, sentContext, serial, toId, otId, cxnState,
            cxnContext, cxnSentContext, sentSequence>>

(* The serial numbers do not wrap.                                         *)
LEMMA SerialIsNew ==
    ASSUME MaxOpens < SerialMod, CxnTypeOK, serial < MaxOpens
    PROVE  NextSerial = serial + 1
<1>1. serial \in Nat /\ SerialMod \in Nat /\ MaxOpens \in Nat /\ serial + 1 < SerialMod
    BY CxnAssumption, CxnBoundsAssumption DEF CxnTypeOK
<1>2. (serial + 1) % SerialMod = serial + 1 /\ serial + 1 # 0
    BY <1>1
<1> QED BY <1>2 DEF NextSerial

(* Requests and answers are judged as before,                              *)
LEMMA JudgedAsBefore ==
    ASSUME UNCHANGED judged
    PROVE  /\ Requests' = Requests
           /\ held \subseteq held' \/ cxnState # "Opening" => Answers \subseteq Answers'
<1>1. /\ context' = context /\ sentContext' = sentContext /\ serial' = serial /\ toId' = toId
      /\ otId' = otId /\ cxnState' = cxnState /\ cxnContext' = cxnContext
      /\ cxnSentContext' = cxnSentContext /\ sentSequence' = sentSequence
    BY DEF judged
<1>2. Requests' = Requests
    BY <1>1 DEF Requests, RequestOK
<1>3. ASSUME held \subseteq held' \/ cxnState # "Opening"
      PROVE  Answers \subseteq Answers'
    BY <1>1, <1>3 DEF Answers, AnswerOK, Negotiated
<1> QED BY <1>2, <1>3

(* after open() has given new ids and sent them,                           *)
LEMMA OpenJudges ==
    ASSUME IdsInv, serial' = serial + 1, sentContext' = context, context' = context + 1,
           cxnState' = "Opening", UNCHANGED <<cxnContext, cxnSentContext, sentSequence>>
    PROVE  Requests \subseteq Requests' /\ Answers \subseteq Answers'
<1>0. context \in Nat /\ serial \in Nat /\ cxnContext \in Nat
    BY DEF IdsInv, IInv, MsgOK, MsgTypeOK, CxnOK, CxnTypeOK
<1>1. ASSUME NEW u \in Requests PROVE u \in Requests'
    <2>1. u \in Unit /\ RequestOK(u.f) /\ u.f.ctx \in Nat /\ u.f.conn.serial \in Nat
        BY DEF Requests, Unit, Packet, ConnRef
    <2>2. u.f.cmd = "SendRRData" => u.f.ctx < context' /\ u.f.ctx # sentContext'
        BY <1>0, <2>1 DEF RequestOK
    <2>3. u.f.svc \in {"ForwardOpen", "ForwardClose"} =>
             u.f.conn.serial <= serial' /\ u.f.conn.serial # serial'
        BY <1>0, <2>1 DEF RequestOK
    <2> QED BY <2>1, <2>2, <2>3 DEF Requests, RequestOK
<1>2. ASSUME NEW u \in Answers PROVE u \in Answers'
    <2>1. u \in Unit /\ AnswerOK(u.f) /\ u.f.ctx \in Nat
        BY DEF Answers, Unit, Packet
    <2>2. u.f.cmd = "SendRRData" => u.f.ctx < context' /\ u.f.ctx # sentContext'
        BY <1>0, <2>1 DEF AnswerOK
    <2> QED BY <2>1, <2>2 DEF Answers, AnswerOK
<1> QED BY <1>1, <1>2

(* or new ids that were not sent,                                          *)
LEMMA FailedOpenJudges ==
    ASSUME IdsInv, serial' = serial + 1, cxnState \notin {"Opening", "Sending"},
           UNCHANGED <<context, sentContext, cxnState, cxnContext, cxnSentContext, sentSequence>>
    PROVE  Requests \subseteq Requests' /\ Answers \subseteq Answers'
<1>0. serial \in Nat
    BY DEF IdsInv, IInv, CxnOK, CxnTypeOK
<1>1. ASSUME NEW u \in Requests PROVE u \in Requests'
    <2>1. u \in Unit /\ RequestOK(u.f) /\ u.f.conn.serial \in Nat
        BY DEF Requests, Unit, Packet, ConnRef
    <2>2. u.f.svc \in {"ForwardOpen", "ForwardClose"} =>
             u.f.conn.serial <= serial' /\ u.f.conn.serial # serial'
        BY <1>0, <2>1 DEF RequestOK
    <2> QED BY <2>1, <2>2 DEF Requests, RequestOK
<1>2. ASSUME NEW u \in Answers PROVE u \in Answers'
    BY <1>2 DEF Answers, AnswerOK
<1> QED BY <1>1, <1>2

(* after a connected request is sent,                                      *)
LEMMA SendJudges ==
    ASSUME IdsInv, cxnState = "Open", cxnState' = "Sending",
           cxnSentContext' = cxnContext, cxnContext' = cxnContext + 1,
           UNCHANGED <<context, sentContext, serial, toId, otId>>
    PROVE  Requests \subseteq Requests' /\ Answers \subseteq Answers'
<1>0. cxnContext \in Nat
    BY DEF IdsInv, IInv, CxnOK, CxnTypeOK
<1>1. ASSUME NEW u \in Requests PROVE u \in Requests'
    <2>1. u \in Unit /\ RequestOK(u.f) /\ u.f.ctx \in Nat
        BY DEF Requests, Unit, Packet
    <2>2. u.f.cmd = "SendUnitData" => u.f.ctx < cxnContext' /\ u.f.ctx # cxnSentContext'
        BY <1>0, <2>1 DEF RequestOK
    <2> QED BY <2>1, <2>2 DEF Requests, RequestOK
<1>2. ASSUME NEW u \in Answers PROVE u \in Answers'
    <2>1. u \in Unit /\ AnswerOK(u.f) /\ u.f.ctx \in Nat
        BY DEF Answers, Unit, Packet
    <2>2. u.f.cmd = "SendUnitData" => u.f.ctx < cxnContext' /\ u.f.ctx # cxnSentContext'
        BY <1>0, <2>1 DEF AnswerOK
    <2> QED BY <2>1, <2>2 DEF Answers, AnswerOK
<1> QED BY <1>1, <1>2

(* and once nothing is waited for any more.                                *)
LEMMA RestJudges ==
    ASSUME IdsInv, cxnState' \notin {"Opening", "Sending"},
           cxnState \in {"Closing", "Closed", "Failed"} =>
              cxnState' \in {"Closing", "Closed", "Failed"},
           context <= context', context' \in Nat, UNCHANGED <<cxnContext, serial, toId>>
    PROVE  Requests \subseteq Requests' /\ Answers \subseteq Answers'
<1>0. context \in Nat
    BY DEF IdsInv, IInv, MsgOK, MsgTypeOK
<1>1. ASSUME NEW u \in Requests PROVE u \in Requests'
    <2>1. u \in Unit /\ RequestOK(u.f) /\ u.f.ctx \in Nat
        BY DEF Requests, Unit, Packet
    <2>2. u.f.cmd = "SendRRData" => u.f.ctx < context'
        BY <1>0, <2>1 DEF RequestOK
    <2> QED BY <2>1, <2>2 DEF Requests, RequestOK
<1>2. ASSUME NEW u \in Answers PROVE u \in Answers'
    <2>1. u \in Unit /\ AnswerOK(u.f) /\ u.f.ctx \in Nat
        BY DEF Answers, Unit, Packet
    <2>2. u.f.cmd = "SendRRData" => u.f.ctx < context'
        BY <1>0, <2>1 DEF AnswerOK
    <2> QED BY <2>1, <2>2 DEF Answers, AnswerOK
<1> QED BY <1>1, <1>2

(* The units of a packet, as soon as each of them is.                      *)
LEMMA PacketUnits ==
    ASSUME NEW f \in Packet, NEW S, \A j \in Nat : [f |-> f, i |-> j] \in S
    PROVE  Units(f) \in Seq(S)
<1>1. HeaderLen + f.len \in Nat
    BY HeaderLenAssumption DEF Packet
<1> QED BY <1>1, UnitsIn

(* What is judged well in every place, in the state before, is after.      *)
LEMMA UnitsMove ==
    ASSUME Requests \subseteq Requests', Answers \subseteq Answers',
           msgTx' \in Seq(Requests) \/ msgTx' \in Seq(Requests'),
           cxnTx' \in Seq(Requests) \/ cxnTx' \in Seq(Requests'),
           out' \in Seq(Requests), srvIn' \in Seq(Requests),
           in' \in Seq(Answers), wire' \in Seq(Answers) \/ wire' \in Seq(Answers'),
           msgRx' \in Seq(Answers), cxnRx' \in Seq(Answers)
    PROVE  AllRequests' /\ AllAnswers'
<1>1. /\ msgTx' \in Seq(Requests') /\ cxnTx' \in Seq(Requests')
      /\ out' \in Seq(Requests') /\ srvIn' \in Seq(Requests')
    BY Widen
<1>2. /\ in' \in Seq(Answers') /\ wire' \in Seq(Answers')
      /\ msgRx' \in Seq(Answers') /\ cxnRx' \in Seq(Answers')
    BY Widen
<1>3. AllRequests'
    BY <1>1 DEF AllRequests
<1>4. AllAnswers'
    BY <1>2 DEF AllAnswers
<1> QED BY <1>3, <1>4

(* What is known of the ids stays while nothing of it changes.             *)
LEMMA IdsStay ==
    ASSUME IdsKnown, UNCHANGED <<judged, held, got, cxnWant>>
    PROVE  IdsKnown'
<1>1. /\ context' = context /\ sentContext' = sentContext /\ serial' = serial /\ toId' = toId
      /\ otId' = otId /\ cxnState' = cxnState /\ sentSequence' = sentSequence
      /\ held' = held /\ got' = got /\ cxnWant' = cxnWant
    BY DEF judged
<1> QED BY <1>1 DEF IdsKnown, HeldOK, OpenIsHeld, GotOnThisConnection, Nothing, Garbage, NoConn

(* open() (Connection.cpp:87-146): the ids are new, so that nothing under  *)
(* way goes with them but the Forward Open itself.                         *)
LEMMA OpenIds ==
    ASSUME OpenWhileUp, MaxOpens < SerialMod, IdsInv, AppOpen
    PROVE  AllRequests' /\ AllAnswers' /\ IdsKnown'
<1> USE DEF IdsInv
<1>0. /\ context \in Nat /\ serial \in Nat /\ connNo \in Nat /\ ReqLen \in Nat
      /\ CxnTypeOK /\ (MsgInFlight <=> cxnState \in {"Opening", "Closing"})
    BY MsgAssumption
       DEF IInv, MsgOK, MsgTypeOK, CxnOK, CxnTypeOK, StreamOK, TcpTypeOK, OneReceiver
<1>1. PICK st \in Status, valid \in BOOLEAN :
         CxnOpen(connNo, valid, st) /\ got' = IF st = "Pending" THEN Nothing ELSE got
    BY DEF AppOpen
<1>2. /\ serial < MaxOpens /\ (cxnState = "Open" => Connected)
      /\ UNCHANGED <<in, out, srvIn, wire, held>>
    BY DEF AppOpen, tcpVars, peerVars, srvVars, connVars
<1>3. CASE UNCHANGED <<cxnVars, msgVars>> /\ st # "Pending"
    <2>1. UNCHANGED <<judged, held, got, cxnWant, msgTx, msgRx, cxnTx, cxnRx>>
        BY <1>1, <1>2, <1>3 DEF cxnVars, msgVars, idVars, sendVars, judged
    <2>2. Requests \subseteq Requests' /\ Answers \subseteq Answers'
        BY <2>1, JudgedAsBefore
    <2> QED BY <1>2, <2>1, <2>2, UnitsMove, IdsStay DEF AllRequests, AllAnswers
<1>4. CASE ~CxnInFlight /\ StartOpen(connNo, st)
    <2>0. NextSerial = serial + 1
        BY <1>0, <1>2, SerialIsNew
    <2>1. PICK t \in ToIds :
             /\ toId' = t /\ otId' = 0 /\ serial' = serial + 1
             /\ MsgSend(connNo, "ForwardOpen", NoName,
                        [serial |-> serial + 1, ot |-> 0, to |-> t, seq |-> 0], TRUE, st)
        BY <1>4, <2>0 DEF StartOpen
    <2>2. /\ cxnState' = (IF st = "Pending" THEN "Opening" ELSE cxnState)
          /\ cxnState \notin {"Opening", "Sending", "Closing"}
          /\ UNCHANGED <<sentSequence, cxnContext, cxnSentContext, cxnTx, cxnRx, cxnWant>>
        BY <1>4 DEF StartOpen, CxnInFlight, sendVars
    <2>3. t \in Nat
        BY CxnAssumption
    <2>4. HeldOK'
        BY <1>0, <1>2, <2>1 DEF IdsKnown, HeldOK, IInv, ConnTypeOK
    <2>5. CASE st = "Pending"
        <3> DEFINE f == Request(connNo, "ForwardOpen", NoName,
                                [serial |-> serial + 1, ot |-> 0, to |-> t, seq |-> 0])
        <3>1. /\ msgTx' = Units(f) /\ msgRx' = <<>>
              /\ sentContext' = context /\ context' = context + 1
            BY <2>1, <2>5 DEF MsgSend, StartSend
        <3>2. f \in Packet /\ f.cmd = "SendRRData" /\ f.svc = "ForwardOpen" /\ f.ctx = context
              /\ f.conn.serial = serial + 1 /\ f.conn.to = t
            BY <1>0, <2>3 DEF Request, Packet, Command, Service, ConnRef
        <3>3. cxnState' = "Opening" /\ got' = Nothing
            BY <1>1, <2>2, <2>5
        <3> HIDE DEF f
        <3>4. ASSUME NEW j \in Nat PROVE [f |-> f, i |-> j] \in Requests'
            BY <1>0, <2>1, <3>1, <3>2, <3>3 DEF Requests, RequestOK, Unit
        <3>5. msgTx' \in Seq(Requests')
            BY <3>1, <3>2, <3>4, PacketUnits
        <3>6. msgRx' \in Seq(Answers)
            BY <3>1, EmptyType
        <3>7. Requests \subseteq Requests' /\ Answers \subseteq Answers'
            BY <2>1, <2>2, <3>1, <3>3, OpenJudges
        <3>8. AllRequests' /\ AllAnswers'
            BY <1>2, <2>2, <3>5, <3>6, <3>7, UnitsMove DEF AllRequests, AllAnswers
        <3>9. IdsKnown'
            BY <2>4, <3>1, <3>3 DEF IdsKnown, OpenIsHeld, GotOnThisConnection, Nothing,
                                    Garbage, NoConn
        <3> QED BY <3>8, <3>9
    <2>6. CASE st # "Pending"
        <3>1. UNCHANGED msgVars /\ ~Connected
            BY <1>0, <2>1, <2>2, <2>6 DEF MsgSend
        <3>2. cxnState' = cxnState /\ cxnState # "Open" /\ got' = got
              /\ UNCHANGED <<context, sentContext, msgTx, msgRx>>
            BY <1>1, <1>2, <2>2, <2>6, <3>1 DEF msgVars
        <3>3. Requests \subseteq Requests' /\ Answers \subseteq Answers'
            BY <2>1, <2>2, <3>2, FailedOpenJudges
        <3>4. AllRequests' /\ AllAnswers'
            BY <1>2, <2>2, <3>2, <3>3, UnitsMove DEF AllRequests, AllAnswers
        <3>5. IdsKnown'
            BY <2>2, <2>4, <3>2 DEF IdsKnown, OpenIsHeld, GotOnThisConnection, Nothing,
                                    Garbage, NoConn
        <3> QED BY <3>4, <3>5
    <2> QED BY <2>5, <2>6
<1> QED BY <1>1, <1>3, <1>4 DEF CxnOpen

(* close() (Connection.cpp:148-175): the Forward Close goes with the       *)
(* present serial number, and nothing is kept open under it.               *)
LEMMA CloseIds ==
    ASSUME IdsInv, AppCloseCxn
    PROVE  AllRequests' /\ AllAnswers' /\ IdsKnown'
<1> USE DEF IdsInv
<1>0. /\ context \in Nat /\ serial \in Nat /\ connNo \in Nat /\ ReqLen \in Nat
    BY MsgAssumption
       DEF IInv, MsgOK, MsgTypeOK, CxnOK, CxnTypeOK, StreamOK, TcpTypeOK
<1>1. PICK st \in Status : CxnClose(connNo, st)
    BY DEF AppCloseCxn
<1>2. UNCHANGED <<in, out, srvIn, wire, held, got>>
    BY DEF AppCloseCxn, tcpVars, peerVars, srvVars, connVars
<1>3. CASE UNCHANGED <<cxnVars, msgVars>>
    <2>1. UNCHANGED <<judged, held, got, cxnWant, msgTx, msgRx, cxnTx, cxnRx>>
        BY <1>2, <1>3 DEF cxnVars, msgVars, idVars, sendVars, judged
    <2>2. Requests \subseteq Requests' /\ Answers \subseteq Answers'
        BY <2>1, JudgedAsBefore
    <2> QED BY <1>2, <2>1, <2>2, UnitsMove, IdsStay DEF AllRequests, AllAnswers
<1>4. CASE ~UNCHANGED <<cxnVars, msgVars>>
    <2> DEFINE f == Request(connNo, "ForwardClose", NoName,
                            [serial |-> serial, ot |-> 0, to |-> 0, seq |-> 0])
    <2>1. /\ cxnState = "Open" /\ cxnState' = "Closing"
          /\ msgTx' = Units(f) /\ msgRx' = <<>>
          /\ sentContext' = context /\ context' = context + 1
          /\ UNCHANGED <<serial, toId, cxnContext, cxnTx, cxnRx, held>>
        BY <1>1, <1>2, <1>4 DEF CxnClose, MsgSend, StartSend, idVars, sendVars, cxnVars
    <2>2. f \in Packet /\ f.cmd = "SendRRData" /\ f.svc = "ForwardClose" /\ f.ctx = context
          /\ f.conn.serial = serial
        BY <1>0 DEF Request, Packet, Command, Service, ConnRef
    <2> HIDE DEF f
    <2>3. ASSUME NEW j \in Nat PROVE [f |-> f, i |-> j] \in Requests'
        BY <1>0, <2>1, <2>2 DEF Requests, RequestOK, Unit
    <2>4. msgTx' \in Seq(Requests')
        BY <2>1, <2>2, <2>3, PacketUnits
    <2>5. msgRx' \in Seq(Answers)
        BY <2>1, EmptyType
    <2>6. Requests \subseteq Requests' /\ Answers \subseteq Answers'
        BY <1>0, <2>1, RestJudges
    <2>7. AllRequests' /\ AllAnswers'
        BY <1>2, <2>1, <2>4, <2>5, <2>6, UnitsMove DEF AllRequests, AllAnswers
    <2>8. IdsKnown'
        BY <2>1 DEF IdsKnown, HeldOK, OpenIsHeld, GotOnThisConnection
    <2> QED BY <2>7, <2>8
<1> QED BY <1>3, <1>4

(* send() (Connection.cpp:177-232): the request names the connection.      *)
LEMMA SendIds ==
    ASSUME IdsInv, AppSend
    PROVE  AllRequests' /\ AllAnswers' /\ IdsKnown'
<1> USE DEF IdsInv
<1>0. /\ cxnContext \in Nat /\ serial \in Nat /\ connNo \in Nat /\ CxnReqLen \in Nat
      /\ otId \in Nat /\ sequence \in Nat
    BY CxnAssumption
       DEF IInv, CxnOK, CxnTypeOK, StreamOK, TcpTypeOK
<1>1. PICK st \in Status, valid \in BOOLEAN :
         CxnSend(connNo, valid, st) /\ got' = IF st = "Pending" THEN Nothing ELSE got
    BY DEF AppSend
<1>2. UNCHANGED <<in, out, srvIn, wire, held, msgTx, msgRx, context, sentContext>>
    BY DEF AppSend, tcpVars, msgVars, peerVars, srvVars, connVars
<1>3. CASE UNCHANGED cxnVars /\ st # "Pending"
    <2>1. UNCHANGED <<judged, held, got, cxnWant, msgTx, msgRx, cxnTx, cxnRx>>
        BY <1>1, <1>2, <1>3 DEF cxnVars, idVars, sendVars, judged
    <2>2. Requests \subseteq Requests' /\ Answers \subseteq Answers'
        BY <2>1, JudgedAsBefore
    <2> QED BY <1>2, <2>1, <2>2, UnitsMove, IdsStay DEF AllRequests, AllAnswers
<1>4. CASE ~(UNCHANGED cxnVars /\ st # "Pending")
    <2> DEFINE f == ConnectedRequest(connNo)
    <2>1. /\ cxnState = "Open" /\ cxnState' = "Sending" /\ st = "Pending"
          /\ cxnTx' = Units(f) /\ cxnRx' = <<>> /\ cxnWant' = HeaderLen
          /\ cxnSentContext' = cxnContext /\ cxnContext' = cxnContext + 1
          /\ sentSequence' = sequence
          /\ UNCHANGED <<otId, toId, serial>>
        BY <1>1, <1>4 DEF CxnSend, idVars
    <2>2. f \in Packet /\ f.cmd = "SendUnitData" /\ f.svc = "Read" /\ f.ctx = cxnContext
          /\ f.conn.ot = otId /\ f.conn.seq = sequence
        BY <1>0 DEF ConnectedRequest, Packet, Command, Service, ConnRef
    <2> HIDE DEF f
    <2>3. ASSUME NEW j \in Nat PROVE [f |-> f, i |-> j] \in Requests'
        BY <1>0, <2>1, <2>2 DEF Requests, RequestOK, Unit
    <2>4. cxnTx' \in Seq(Requests')
        BY <2>1, <2>2, <2>3, PacketUnits
    <2>5. cxnRx' \in Seq(Answers)
        BY <2>1, EmptyType
    <2>6. Requests \subseteq Requests' /\ Answers \subseteq Answers'
        BY <1>2, <2>1, SendJudges
    <2>7. AllRequests' /\ AllAnswers'
        BY <1>2, <2>4, <2>5, <2>6, UnitsMove DEF AllRequests, AllAnswers
    <2>8. HeaderLen <= cxnWant'
        BY <2>1, HeaderLenAssumption
    <2>9. IdsKnown'
        BY <1>1, <1>2, <2>1, <2>8 DEF IdsKnown, HeldOK, OpenIsHeld, GotOnThisConnection
    <2> QED BY <2>7, <2>9
<1> QED BY <1>3, <1>4

(* A verdict Ok of the message comes with a response to the last request,  *)
(* all of its header received (ExplicitMessage.cpp:211-253).               *)
LEMMA OkIsParsed ==
    ASSUME MsgOK, StreamOK, MsgFull, MsgInFlight, MsgPoll("Ok")
    PROVE  ParseResponse(msgRx') = "Ok" /\ HeaderLen <= Len(msgRx')
<1>1. MsgAdvance("Ok")
    BY DEF MsgPoll, MsgTimeout, MsgSettled, MsgInFlight
<1>2. PICK r \in Advance(msgTx, msgRx, msgWant, MsgMaxBody) :
         msgRx' = r.rx /\ "Ok" = IF r.st = "Ok" THEN ParseResponse(r.rx) ELSE r.st
    BY <1>1 DEF MsgAdvance
<1>3. ParseResponse(r.rx) = "Ok"
    BY <1>2
<1>4. msgState' = "Done" /\ MsgFull'
    BY PollKeepsFull
<1> QED BY <1>2, <1>3, <1>4 DEF MsgFull

(* The contexts of the message stay while it is polled.                    *)
LEMMA PollKeepsContext ==
    ASSUME NEW st, MsgPoll(st)
    PROVE  context' = context /\ sentContext' = sentContext
BY DEF MsgPoll, MsgTimeout, MsgAdvance, MsgSettled, msgVars

(* What the message sends, reads and takes while it is polled.             *)
LEMMA PollMoves ==
    ASSUME IdsInv, NEW s, MsgPoll(s)
    PROVE  /\ msgTx' \in Seq(Requests) /\ out' \in Seq(Requests)
           /\ in' \in Seq(Answers) /\ msgRx' \in Seq(Answers)
<1>1. Requests \in SUBSET Unit /\ Answers \in SUBSET Unit /\ MsgOK /\ StreamOK
    BY DEF Requests, Answers, IdsInv, IInv
<1>2. msgTx' \in Seq(Requests) /\ out' \in Seq(Requests)
    BY <1>1, PollSends DEF IdsInv, AllRequests
<1>3. in' \in Seq(Answers) /\ msgRx' \in Seq(Answers)
    BY <1>1, PollKeepsStream, PollReads DEF IdsInv, AllAnswers
<1> QED BY <1>2, <1>3

(* poll() while opening (Connection.cpp:247-275): Ok is the answer to this *)
(* Forward Open, and says what the PLC holds.                              *)
LEMMA PollOpeningIds ==
    ASSUME IdsInv, NEW st, PollOpening(st), UNCHANGED <<peerVars, got>>
    PROVE  AllRequests' /\ AllAnswers' /\ IdsKnown'
<1> USE DEF IdsInv
<1>1. PICK s :
         /\ MsgPoll(s)
         /\ \/ cxnState' = "Opening" /\ UNCHANGED otId
            \/ cxnState' = "Failed" /\ UNCHANGED otId
            \/ /\ s = "Ok" /\ cxnState' = "Open"
               /\ Negotiated(MsgReply') /\ otId' = MsgReply'.conn.ot
    BY DEF PollOpening
<1>2. /\ cxnState = "Opening" /\ MsgInFlight /\ got = Nothing /\ got' = Nothing
      /\ UNCHANGED <<toId, serial, sentSequence, cxnContext, cxnSentContext, cxnTx, cxnRx,
                     cxnWant, held, srvIn, wire>>
    BY DEF PollOpening, IInv, OneReceiver, IdsKnown, sendVars, peerVars, srvVars, connVars
<1>3. context' = context /\ sentContext' = sentContext /\ context \in Nat
    BY <1>1, PollKeepsContext DEF IInv, MsgOK, MsgTypeOK
<1>4. /\ msgTx' \in Seq(Requests) /\ out' \in Seq(Requests)
      /\ in' \in Seq(Answers) /\ msgRx' \in Seq(Answers)
    BY <1>1, PollMoves
<1>5. CASE cxnState' = "Opening" /\ UNCHANGED otId
    <2>1. UNCHANGED <<judged, held, got, cxnWant>>
        BY <1>2, <1>3, <1>5 DEF judged
    <2>2. Requests \subseteq Requests' /\ Answers \subseteq Answers'
        BY <1>2, <2>1, JudgedAsBefore
    <2> QED BY <1>2, <1>4, <2>1, <2>2, UnitsMove, IdsStay DEF AllRequests, AllAnswers
<1>6. CASE cxnState' # "Opening"
    <2>1. cxnState' \in {"Failed", "Open"}
        BY <1>1, <1>6
    <2>2. Requests \subseteq Requests' /\ Answers \subseteq Answers'
        BY <1>2, <1>3, <2>1, RestJudges
    <2>3. AllRequests' /\ AllAnswers'
        BY <1>2, <1>4, <2>2, UnitsMove DEF AllRequests, AllAnswers
    <2>4. OpenIsHeld'
        <3>1. CASE cxnState' = "Failed"
            BY <3>1 DEF OpenIsHeld
        <3>2. CASE cxnState' # "Failed"
            <4>1. s = "Ok" /\ Negotiated(MsgReply') /\ otId' = MsgReply'.conn.ot
                BY <1>1, <1>6, <3>2
            <4>2. ParseResponse(msgRx') = "Ok" /\ HeaderLen <= Len(msgRx')
                BY <1>1, <1>2, <4>1, OkIsParsed DEF IInv
            <4> DEFINE h == DecodeHeader(msgRx')
            <4>3. h.cmd = "SendRRData" /\ h.ctx = sentContext
                BY <4>2 DEF ParseResponse
            <4>4. PICK u \in Answers : h = u.f
                <5> HIDE DEF h
                <5>1. h.cmd # "Garbage"
                    BY <4>3
                <5> QED BY <1>4, <4>2, <5>1, DecodedFrom DEF h
            <4>5. MsgReply' = h
                BY DEF MsgReply
            <4> HIDE DEF h
            <4>6. AnswerOK(u.f) /\ Negotiated(u.f)
                BY <4>1, <4>4, <4>5 DEF Answers
            <4>7. PICK g \in held : g.serial = serial /\ g.ot = u.f.conn.ot /\ g.to = toId
                BY <1>2, <4>3, <4>4, <4>6 DEF AnswerOK
            <4> QED BY <1>2, <4>1, <4>4, <4>5, <4>7 DEF OpenIsHeld
        <3> QED BY <3>1, <3>2
    <2>5. IdsKnown'
        BY <1>2, <1>3, <2>1, <2>4 DEF IdsKnown, HeldOK, GotOnThisConnection, Nothing,
                                      Garbage, NoConn
    <2> QED BY <2>3, <2>5
<1> QED BY <1>1, <1>5, <1>6

(* poll() while closing (Connection.cpp:302-313).                          *)
LEMMA PollClosingIds ==
    ASSUME IdsInv, NEW st, PollClosing(st), UNCHANGED <<peerVars, got>>
    PROVE  AllRequests' /\ AllAnswers' /\ IdsKnown'
<1> USE DEF IdsInv
<1>1. /\ MsgPoll(st) /\ cxnState = "Closing"
      /\ cxnState' \in {"Closing", "Closed", "Failed"}
      /\ UNCHANGED <<toId, serial, otId, sentSequence, cxnContext, cxnSentContext, cxnTx, cxnRx,
                     cxnWant, held, srvIn, wire, got>>
    BY DEF PollClosing, idVars, sendVars, peerVars, srvVars, connVars
<1>2. context' = context /\ sentContext' = sentContext /\ context \in Nat
    BY <1>1, PollKeepsContext DEF IInv, MsgOK, MsgTypeOK
<1>3. Requests \subseteq Requests' /\ Answers \subseteq Answers'
    BY <1>1, <1>2, RestJudges
<1>4. AllRequests' /\ AllAnswers'
    BY <1>1, <1>3, PollMoves, UnitsMove DEF AllRequests, AllAnswers
<1>5. IdsKnown'
    BY <1>1, <1>2 DEF IdsKnown, HeldOK, OpenIsHeld, GotOnThisConnection
<1> QED BY <1>4, <1>5

(* poll() while a connected request waits (Connection.cpp:277-300): Ok is  *)
(* the answer to this very request, on this connection.                    *)
LEMMA PollSendingIds ==
    ASSUME IdsInv, NEW st, PollSending(st), UNCHANGED peerVars,
           got' = IF st = "Ok" THEN DecodeHeader(cxnRx)' ELSE got
    PROVE  AllRequests' /\ AllAnswers' /\ IdsKnown'
<1> USE DEF IdsInv
<1>1. /\ cxnState = "Sending" /\ got = Nothing
      /\ UNCHANGED <<msgTx, msgRx, context, sentContext, held, srvIn, wire, serial, toId, otId,
                     cxnContext, cxnSentContext, sentSequence>>
    BY DEF PollSending, CxnTimeout, CxnAdvance, AnswerInv, msgVars, idVars, sendVars, peerVars,
           srvVars, connVars
<1>0. context \in Nat
    BY DEF IInv, MsgOK, MsgTypeOK
<1>2. CASE CxnTimeout(st)
    <2>1. /\ cxnState' = "Failed" /\ got' = Nothing /\ UNCHANGED <<in, out, cxnTx, cxnRx>>
        BY <1>1, <1>2 DEF CxnTimeout, sendVars, tcpVars
    <2>2. Requests \subseteq Requests' /\ Answers \subseteq Answers'
        BY <1>0, <1>1, <2>1, RestJudges
    <2>3. AllRequests' /\ AllAnswers'
        BY <1>1, <2>1, <2>2, UnitsMove DEF AllRequests, AllAnswers
    <2>4. IdsKnown'
        BY <1>1, <2>1 DEF IdsKnown, HeldOK, OpenIsHeld, GotOnThisConnection
    <2> QED BY <2>3, <2>4
<1>3. CASE CxnAdvance(st)
    <2>1. PICK r \in Advance(cxnTx, cxnRx, cxnWant, CxnMaxBody) :
             /\ cxnTx' = r.tx /\ cxnRx' = r.rx /\ cxnWant' = r.want
             /\ out' = r.out /\ in' = r.in
             /\ st = IF r.st = "Ok" THEN ParseConnectedResponse(r.rx) ELSE r.st
             /\ cxnState' = CASE st = "Ok"      -> "Open"
                              [] st = "Pending" -> "Sending"
                              [] OTHER          -> "Failed"
        BY <1>3 DEF CxnAdvance
    <2>2. /\ Requests \in SUBSET Unit /\ Answers \in SUBSET Unit
          /\ cxnTx \in Seq(Requests) /\ cxnRx \in Seq(Answers)
          /\ in \in Seq(Answers) /\ out \in Seq(Requests)
          /\ HeaderLen <= cxnWant /\ cxnWant \in Nat /\ CxnMaxBody \in Nat
        BY <1>1, CxnAssumption
           DEF Requests, Answers, AllRequests, AllAnswers, IdsKnown, IInv, CxnOK, CxnTypeOK
    <2>3. /\ cxnTx \in Seq(Unit) /\ cxnRx \in Seq(Unit) /\ Len(cxnRx) <= cxnWant
          /\ cxnWant <= HeaderLen + CxnMaxBody
          /\ in \in Seq(Unit) /\ out \in Seq(Unit) /\ Len(out) <= SndBuf
          /\ tcpState \in {"Closed", "Pending", "Ok"}
        BY DEF IInv, CxnOK, CxnTypeOK, StreamOK, TcpTypeOK, SrvTypeOK
    <2>4. r.rx \in Seq(Answers) /\ r.in \in Seq(Answers)
        BY <2>2, <2>3, AdvanceType
    <2>5. r.tx \in Seq(Requests) /\ r.out \in Seq(Requests)
        BY <2>2, <2>3, AdvanceSends
    <2>6. HeaderLen <= r.want /\ (r.st = "Ok" => Len(r.rx) = r.want)
        BY <2>2, <2>3, AdvanceFull
    <2>7. CASE st = "Pending"
        <3>1. cxnState' = cxnState /\ got' = got
            BY <1>1, <2>1, <2>7
        <3>2. UNCHANGED <<judged, held>>
            BY <1>1, <3>1 DEF judged
        <3>3. Requests \subseteq Requests' /\ Answers \subseteq Answers'
            BY <1>1, <3>2, JudgedAsBefore
        <3>4. AllRequests' /\ AllAnswers'
            BY <1>1, <2>1, <2>4, <2>5, <3>3, UnitsMove DEF AllRequests, AllAnswers
        <3>5. IdsKnown'
            BY <1>1, <2>1, <2>6, <3>1 DEF IdsKnown, HeldOK, OpenIsHeld, GotOnThisConnection
        <3> QED BY <3>4, <3>5
    <2>8. CASE st # "Pending"
        <3>1. cxnState' \in {"Open", "Failed"}
            BY <2>1, <2>8
        <3>2. Requests \subseteq Requests' /\ Answers \subseteq Answers'
            BY <1>0, <1>1, <3>1, RestJudges
        <3>3. AllRequests' /\ AllAnswers'
            BY <1>1, <2>1, <2>4, <2>5, <3>2, UnitsMove DEF AllRequests, AllAnswers
        <3>4. GotOnThisConnection'
            <4>1. CASE st # "Ok"
                BY <1>1, <4>1 DEF GotOnThisConnection, Nothing, Garbage, NoConn
            <4>2. CASE st = "Ok"
                <5> DEFINE h == DecodeHeader(r.rx)
                <5>1. r.st = "Ok" /\ ParseConnectedResponse(r.rx) = "Ok"
                    BY <2>1, <4>2 DEF ParseConnectedResponse
                <5>2. /\ h.cmd = "SendUnitData" /\ h.ctx = cxnSentContext
                      /\ h.conn.to = toId /\ h.conn.seq = sentSequence
                    BY <5>1 DEF ParseConnectedResponse
                <5>3. got' = h
                    <6>1. DecodeHeader(cxnRx)' = DecodeHeader(cxnRx')
                        BY DEF DecodeHeader, Aligned, Garbage, NoConn
                    <6> QED BY <2>1, <4>2, <6>1
                <5>4. HeaderLen <= Len(r.rx)
                    BY <2>6, <5>1
                <5>5. PICK u \in Answers : h = u.f
                    <6> HIDE DEF h
                    <6>1. h.cmd # "Garbage"
                        BY <5>2
                    <6> QED BY <2>4, <5>4, <6>1, DecodedFrom DEF h
                <5> HIDE DEF h
                <5>6. h.conn = [serial |-> serial, ot |-> otId, to |-> toId, seq |-> sentSequence]
                    BY <1>1, <5>2, <5>5 DEF Answers, AnswerOK
                <5> QED BY <1>1, <5>3, <5>6 DEF GotOnThisConnection
            <4> QED BY <4>1, <4>2
        <3>5. IdsKnown'
            BY <1>1, <3>1, <3>4 DEF IdsKnown, HeldOK, OpenIsHeld
        <3> QED BY <3>3, <3>5
    <2> QED BY <2>7, <2>8
<1> QED BY <1>2, <1>3 DEF PollSending

(* poll() (Connection.cpp:234-245).                                        *)
LEMMA PollIds ==
    ASSUME IdsInv, AppPoll
    PROVE  AllRequests' /\ AllAnswers' /\ IdsKnown'
<1>1. PICK st \in PollStatus :
         /\ CxnPoll(st)
         /\ got' = IF cxnState = "Sending" /\ st = "Ok" THEN DecodeHeader(cxnRx)' ELSE got
    BY DEF AppPoll
<1>2. UNCHANGED peerVars
    BY DEF AppPoll
<1>3. CASE PollSending(st)
    <2>1. cxnState = "Sending"
        BY <1>3 DEF PollSending, CxnTimeout, CxnAdvance
    <2>2. got' = IF st = "Ok" THEN DecodeHeader(cxnRx)' ELSE got
        BY <1>1, <2>1
    <2> QED BY <1>2, <1>3, <2>2, PollSendingIds
<1>4. CASE PollOpening(st) \/ PollClosing(st)
    <2>1. cxnState # "Sending"
        BY <1>4 DEF PollOpening, PollClosing
    <2>2. UNCHANGED got
        BY <1>1, <2>1
    <2> QED BY <1>2, <1>4, <2>2, PollOpeningIds, PollClosingIds
<1>5. CASE CxnSettled(st)
    <2>1. UNCHANGED <<cxnVars, msgVars, tcpVars, peerVars>> /\ cxnState # "Sending"
        BY <1>2, <1>5 DEF CxnSettled
    <2>2. UNCHANGED got
        BY <1>1, <2>1
    <2>3. UNCHANGED <<judged, held, cxnWant, msgTx, msgRx, cxnTx, cxnRx, in, out, srvIn, wire>>
        BY <2>1 DEF cxnVars, idVars, sendVars, msgVars, tcpVars, peerVars, srvVars, connVars, judged
    <2>4. Requests \subseteq Requests' /\ Answers \subseteq Answers'
        BY <2>3, JudgedAsBefore
    <2> QED BY <2>2, <2>3, <2>4, UnitsMove, IdsStay DEF IdsInv, AllRequests, AllAnswers
<1> QED BY <1>1, <1>3, <1>4, <1>5 DEF CxnPoll
-----------------------------------------------------------------------------
(* The request a PLC handles is one of the client's.                       *)
LEMMA RequestJudged ==
    ASSUME IdsInv, Consume
    PROVE  Request1 \in Packet /\ RequestOK(Request1)
<1>1. NextIn \in Seq(Requests) /\ Len(NextIn) > 0
    BY MoveType DEF Consume, NextIn, IdsInv, AllRequests
<1>2. NextIn[1] \in Requests
    BY <1>1
<1> QED BY <1>2 DEF Requests, Unit, Request1

(* A reply says of the connection what the PLC puts in, and has command    *)
(* and context of the request.                                             *)
LEMMA ReplyFields ==
    ASSUME NEW req \in Packet, NEW kinds \in SUBSET ReplyKinds, NEW refs \in SUBSET ConnRef,
           connNo \in Nat, NEW r \in Replies(req, kinds, refs)
    PROVE  /\ r \in Packet /\ r.cmd = req.cmd /\ r.ctx = req.ctx
           /\ r.kind \in kinds /\ r.conn \in refs
<1>1. PICK k \in kinds, c \in refs : r = [Reply(req, k) EXCEPT !.conn = c]
    BY DEF Replies
<1>2. Reply(req, k) \in Packet
    BY ReplyType
<1>3. PICK sess, len : Reply(req, k) = [req EXCEPT !.kind = k, !.sess = sess, !.len = len]
    BY DEF Reply
<1>4. Reply(req, k).cmd = req.cmd /\ Reply(req, k).ctx = req.ctx /\ Reply(req, k).kind = k
    BY <1>3 DEF Packet
<1> QED BY <1>1, <1>2, <1>4 DEF Packet

(* The wrong ids are ids.                                                  *)
LEMMA WrongIdsType == ASSUME NEW req \in Packet PROVE WrongIds(req) \subseteq ConnRef
BY ConnServerAssumption DEF WrongIds, ConnRef, Packet

(* Where the units are once the PLC has answered.                          *)
LEMMA RespondMoves ==
    ASSUME IdsInv, Consume, NEW replies \in SUBSET Packet, Respond(replies),
           Answers \subseteq Answers',
           \A r \in replies : \A j \in Nat : [f |-> r, i |-> j] \in Answers'
    PROVE  /\ out' \in Seq(Requests) /\ srvIn' \in Seq(Requests)
           /\ in' = in /\ wire' \in Seq(Answers')
<1>1. out' \in Seq(Requests)
    BY MoveType DEF Consume, IdsInv, AllRequests
<1>2. srvIn' \in Seq(Requests)
    BY EmptyType DEF Consume
<1>3. wire \in Seq(Answers')
    BY Widen DEF IdsInv, AllAnswers
<1>4. ASSUME NEW r \in replies, wire' = wire \o Units(r)
      PROVE  wire' \in Seq(Answers')
    <2>1. Units(r) \in Seq(Answers')
        BY PacketUnits
    <2> QED BY <1>3, <1>4, <2>1
<1>5. wire' \in Seq(Answers')
    BY <1>3, <1>4 DEF Respond
<1> QED BY <1>1, <1>2, <1>5 DEF Consume

(* Forward Open in the PLC (synthetic_eip_server.py:209-220): what it      *)
(* grants is what the answer says.                                         *)
LEMMA GrantIds ==
    ASSUME IdsInv, OpenConn, UNCHANGED judged
    PROVE  /\ out' \in Seq(Requests) /\ srvIn' \in Seq(Requests)
           /\ in' = in /\ wire' \in Seq(Answers') /\ Answers \subseteq Answers'
           /\ HeldOK' /\ OpenIsHeld'
<1> USE DEF IdsInv
<1> DEFINE req == Request1
<1>1. req \in Packet /\ RequestOK(req) /\ Consume /\ req.svc = "ForwardOpen"
    BY RequestJudged DEF OpenConn
<1>2. req.cmd = "SendRRData" /\ req.conn.serial \in Nat /\ req.ctx \in Nat
    BY <1>1 DEF RequestOK, Packet, ConnRef
<1>3. connNo \in Nat /\ srvConn \in Nat /\ serial \in Nat
    BY DEF IInv, StreamOK, TcpTypeOK, SrvTypeOK, CxnOK, CxnTypeOK
<1>4. /\ Grant(req) \in [conn : Nat, serial : Nat, ot : Nat, to : Nat]
      /\ Grant(req).ot = req.conn.serial /\ Grant(req).serial = req.conn.serial
      /\ Grant(req).to = req.conn.to
    BY <1>1, <1>3, GrantType DEF Grant
<1>5. RefOf(Grant(req), 0) \in ConnRef /\ RefOf(Grant(req), 0).ot = req.conn.serial
      /\ RefOf(Grant(req), 0).to = req.conn.to
    BY <1>4, RefType DEF RefOf
<1>6. WrongIds(req) \subseteq ConnRef
    BY <1>1, WrongIdsType
<1>j. /\ context' = context /\ sentContext' = sentContext /\ serial' = serial /\ toId' = toId
      /\ otId' = otId /\ cxnState' = cxnState /\ cxnContext' = cxnContext
      /\ cxnSentContext' = cxnSentContext /\ sentSequence' = sentSequence
    BY DEF judged
<1>k. cxnState = "Opening" /\ req.ctx = sentContext =>
         req.conn.serial = serial /\ req.conn.to = toId
    BY <1>1, <1>2 DEF RequestOK
<1> HIDE DEF req
<1>7. CASE /\ held' = held \cup {Grant(req)}
           /\ Respond(Replies(req, ReplyKinds \cap {"ok"}, {RefOf(Grant(req), 0)}))
    <2> DEFINE replies == Replies(req, ReplyKinds \cap {"ok"}, {RefOf(Grant(req), 0)})
    <2>1. Answers \subseteq Answers'
        BY <1>7, JudgedAsBefore
    <2>2. ASSUME NEW r \in replies
          PROVE  r \in Packet /\ \A j \in Nat : [f |-> r, i |-> j] \in Answers'
        <3>1. /\ r \in Packet /\ r.cmd = "SendRRData" /\ r.ctx = req.ctx
              /\ r.conn = RefOf(Grant(req), 0)
            BY <1>1, <1>2, <1>3, <1>5, ReplyFields
        <3>2. req.ctx < context'
            BY <1>1, <1>2, <1>j DEF RequestOK
        <3>3. cxnState' = "Opening" /\ req.ctx = sentContext' =>
                 /\ Grant(req) \in held' /\ Grant(req).serial = serial'
                 /\ Grant(req).ot = r.conn.ot /\ Grant(req).to = toId'
            BY <1>4, <1>5, <1>7, <1>j, <1>k, <3>1
        <3>4. AnswerOK(r)'
            BY <3>1, <3>2, <3>3 DEF AnswerOK
        <3> QED BY <3>1, <3>4 DEF Answers, Unit
    <2>3. /\ out' \in Seq(Requests) /\ srvIn' \in Seq(Requests)
          /\ in' = in /\ wire' \in Seq(Answers')
        <3>1. replies \in SUBSET Packet /\ Respond(replies)
            BY <1>7, <2>2
        <3> HIDE DEF replies
        <3> QED BY <1>1, <2>1, <2>2, <3>1, RespondMoves
    <2>4. HeldOK'
        <3>1. /\ Grant(req).ot = Grant(req).serial /\ Grant(req).serial <= serial
              /\ Grant(req).serial = serial => Grant(req).to = toId
            BY <1>1, <1>4 DEF RequestOK
        <3> QED BY <1>7, <1>j, <3>1 DEF HeldOK, IdsKnown
    <2>5. OpenIsHeld'
        BY <1>7, <1>j DEF OpenIsHeld, IdsKnown
    <2> QED BY <2>1, <2>3, <2>4, <2>5
<1>8. CASE /\ Respond(Replies(req, ReplyKinds \ {"ok"}, {NoConn})
                      \cup Replies(req, ReplyKinds \cap {"ok"}, WrongIds(req)))
           /\ UNCHANGED held
    <2> DEFINE replies == Replies(req, ReplyKinds \ {"ok"}, {NoConn})
                          \cup Replies(req, ReplyKinds \cap {"ok"}, WrongIds(req))
    <2>1. Answers \subseteq Answers'
        BY <1>8, JudgedAsBefore
    <2>2. ASSUME NEW r \in replies
          PROVE  r \in Packet /\ \A j \in Nat : [f |-> r, i |-> j] \in Answers'
        <3>1. /\ r \in Packet /\ r.cmd = "SendRRData" /\ r.ctx = req.ctx
              /\ r.kind # "ok" \/ r.conn \in WrongIds(req)
            <4>1. CASE r \in Replies(req, ReplyKinds \ {"ok"}, {NoConn})
                BY <1>1, <1>2, <1>3, <4>1, NoConnType, ReplyFields
            <4>2. CASE r \in Replies(req, ReplyKinds \cap {"ok"}, WrongIds(req))
                BY <1>1, <1>2, <1>3, <1>6, <4>2, ReplyFields
            <4> QED BY <4>1, <4>2
        <3>2. req.ctx < context'
            BY <1>1, <1>2, <1>j DEF RequestOK
        <3>3. cxnState' = "Opening" /\ req.ctx = sentContext' /\ r.kind = "ok" /\ r.conn.ot # 0 =>
                 r.conn.to # toId'
            <4> SUFFICES ASSUME cxnState' = "Opening", req.ctx = sentContext', r.kind = "ok",
                                r.conn.ot # 0, r.conn.to = toId'
                         PROVE  FALSE
                OBVIOUS
            <4>1. r.conn \in WrongIds(req) /\ req.conn.to = toId
                BY <1>j, <1>k, <3>1
            <4>2. r.conn = [serial |-> req.conn.serial, ot |-> req.conn.serial,
                            to |-> req.conn.to, seq |-> 0]
                BY <1>j, <4>1 DEF WrongIds
            <4>3. r.conn = RefOf(Grant(req), 0)
                BY <1>4, <4>2 DEF RefOf
            <4> QED BY <4>1, <4>3 DEF WrongIds
        <3>4. AnswerOK(r)'
            BY <3>1, <3>2, <3>3 DEF AnswerOK, Negotiated
        <3> QED BY <3>1, <3>4 DEF Answers, Unit
    <2>3. /\ out' \in Seq(Requests) /\ srvIn' \in Seq(Requests)
          /\ in' = in /\ wire' \in Seq(Answers')
        <3>1. replies \in SUBSET Packet /\ Respond(replies)
            BY <1>8, <2>2
        <3> HIDE DEF replies
        <3> QED BY <1>1, <2>1, <2>2, <3>1, RespondMoves
    <2>4. HeldOK' /\ OpenIsHeld'
        BY <1>8, <1>j DEF HeldOK, OpenIsHeld, IdsKnown
    <2> QED BY <2>1, <2>3, <2>4
<1>9. \/ /\ held' = held \cup {Grant(req)}
         /\ Respond(Replies(req, ReplyKinds \cap {"ok"}, {RefOf(Grant(req), 0)}))
      \/ /\ Respond(Replies(req, ReplyKinds \ {"ok"}, {NoConn})
                    \cup Replies(req, ReplyKinds \cap {"ok"}, WrongIds(req)))
         /\ UNCHANGED held
    BY DEF OpenConn, req
<1> QED BY <1>7, <1>8, <1>9

(* Forward Close in the PLC (synthetic_eip_server.py:221-223): granted or  *)
(* refused, it ends no connection that is open, or being opened.           *)
LEMMA ReleaseIds ==
    ASSUME IdsInv, CloseConn, UNCHANGED judged
    PROVE  /\ out' \in Seq(Requests) /\ srvIn' \in Seq(Requests)
           /\ in' = in /\ wire' \in Seq(Answers') /\ Answers \subseteq Answers'
           /\ HeldOK' /\ OpenIsHeld'
<1> USE DEF IdsInv
<1> DEFINE req == Request1
<1>1. req \in Packet /\ RequestOK(req) /\ Consume /\ req.svc = "ForwardClose"
    BY RequestJudged DEF CloseConn
<1>2. req.cmd = "SendRRData" /\ connNo \in Nat
    BY <1>1 DEF RequestOK, IInv, StreamOK, TcpTypeOK
<1>j. /\ context' = context /\ sentContext' = sentContext /\ serial' = serial /\ toId' = toId
      /\ otId' = otId /\ cxnState' = cxnState /\ cxnContext' = cxnContext
      /\ cxnSentContext' = cxnSentContext /\ sentSequence' = sentSequence
    BY DEF judged
<1>3. PICK done \in SUBSET ReplyKinds :
         /\ Respond(Replies(req, done, {NoConn}))
         /\ held' \subseteq held
         /\ \A h \in held : h.serial # req.conn.serial => h \in held'
    <2> HIDE DEF req
    <2> QED BY DEF CloseConn, req
<1> HIDE DEF req
<1>4. ASSUME cxnState \in {"Opening", "Open", "Sending"}, NEW h \in held, h.serial = serial
      PROVE  h \in held'
    <2>1. req.conn.serial # serial
        BY <1>1, <1>4 DEF RequestOK
    <2> QED BY <1>3, <1>4, <2>1
<1>5. Answers \subseteq Answers'
    <2> SUFFICES ASSUME NEW u \in Answers PROVE u \in Answers'
        OBVIOUS
    <2>1. u \in Unit /\ AnswerOK(u.f)
        BY DEF Answers
    <2>2. AnswerOK(u.f)'
        BY <1>j, <1>4, <2>1 DEF AnswerOK, Negotiated
    <2> QED BY <2>1, <2>2 DEF Answers
<1>6. ASSUME NEW r \in Replies(req, done, {NoConn})
      PROVE  r \in Packet /\ \A j \in Nat : [f |-> r, i |-> j] \in Answers'
    <2>2. /\ r \in Packet /\ r.cmd = "SendRRData" /\ r.ctx = req.ctx /\ r.conn = NoConn
        BY <1>1, <1>2, NoConnType, ReplyFields
    <2>3. req.ctx < context' /\ r.conn.ot = 0
        BY <1>1, <1>2, <1>j, <2>2 DEF RequestOK, NoConn
    <2>4. AnswerOK(r)'
        BY <2>2, <2>3 DEF AnswerOK, Negotiated
    <2> QED BY <2>2, <2>4 DEF Answers, Unit
<1>7. /\ out' \in Seq(Requests) /\ srvIn' \in Seq(Requests)
      /\ in' = in /\ wire' \in Seq(Answers')
    <2>1. Replies(req, done, {NoConn}) \in SUBSET Packet
        BY <1>6
    <2> QED BY <1>1, <1>3, <1>5, <1>6, <2>1, RespondMoves
<1>8. HeldOK'
    BY <1>3, <1>j DEF HeldOK, IdsKnown
<1>9. OpenIsHeld'
    BY <1>4, <1>j DEF OpenIsHeld, IdsKnown
<1> QED BY <1>5, <1>7, <1>8, <1>9

(* Connected data in the PLC (synthetic_eip_server.py:288-360): it comes   *)
(* back on the connection it names.                                        *)
LEMMA UnitDataIds ==
    ASSUME IdsInv, UnitData, UNCHANGED judged
    PROVE  /\ out' \in Seq(Requests) /\ srvIn' \in Seq(Requests)
           /\ in' = in /\ wire' \in Seq(Answers') /\ Answers \subseteq Answers'
           /\ HeldOK' /\ OpenIsHeld'
<1> USE DEF IdsInv
<1> DEFINE req == Request1
<1>1. req \in Packet /\ RequestOK(req) /\ Consume /\ req.cmd = "SendUnitData"
    BY RequestJudged DEF UnitData
<1>2. req.conn.seq \in Nat /\ connNo \in Nat
    BY <1>1 DEF Packet, ConnRef, IInv, StreamOK, TcpTypeOK
<1>j. /\ context' = context /\ sentContext' = sentContext /\ serial' = serial /\ toId' = toId
      /\ otId' = otId /\ cxnState' = cxnState /\ cxnContext' = cxnContext
      /\ cxnSentContext' = cxnSentContext /\ sentSequence' = sentSequence /\ held' = held
    BY DEF judged, UnitData, connVars
<1>3. Answers \subseteq Answers'
    BY <1>j, JudgedAsBefore
<1> DEFINE replies == UNION {Replies(req, ReplyKinds, {RefOf(h, req.conn.seq)})
                               : h \in {g \in OnThis : g.ot = req.conn.ot}}
<1>4. Respond(replies)
    BY DEF UnitData
<1> HIDE DEF req
<1>5. ASSUME NEW r \in replies
      PROVE  r \in Packet /\ \A j \in Nat : [f |-> r, i |-> j] \in Answers'
    <2>1. PICK h \in OnThis :
             h.ot = req.conn.ot /\ r \in Replies(req, ReplyKinds, {RefOf(h, req.conn.seq)})
        OBVIOUS
    <2>2. h \in held /\ h \in [conn : Nat, serial : Nat, ot : Nat, to : Nat]
        BY DEF OnThis, IInv, ConnTypeOK
    <2>3. RefOf(h, req.conn.seq) \in ConnRef
        BY <1>2, <2>2, RefType
    <2>4. /\ r \in Packet /\ r.cmd = "SendUnitData" /\ r.ctx = req.ctx
          /\ r.conn = RefOf(h, req.conn.seq)
        BY <1>1, <1>2, <2>1, <2>3, ReplyFields
    <2>5. req.ctx < cxnContext'
        BY <1>1, <1>j DEF RequestOK
    <2>6. ASSUME cxnState' = "Sending", req.ctx = cxnSentContext'
          PROVE  r.conn = [serial |-> serial', ot |-> otId', to |-> toId', seq |-> sentSequence']
        <3>1. req.conn.ot = otId /\ req.conn.seq = sentSequence
            BY <1>1, <1>j, <2>6 DEF RequestOK
        <3>2. PICK g \in held : g.serial = serial /\ g.ot = otId /\ g.to = toId
            BY <1>j, <2>6 DEF IdsKnown, OpenIsHeld
        <3>3. h.serial = serial /\ h.to = toId
            BY <2>1, <2>2, <3>1, <3>2 DEF IdsKnown, HeldOK
        <3> QED BY <1>j, <2>1, <2>4, <3>1, <3>3 DEF RefOf
    <2>7. AnswerOK(r)'
        BY <2>4, <2>5, <2>6 DEF AnswerOK
    <2> QED BY <2>4, <2>7 DEF Answers, Unit
<1>6. /\ out' \in Seq(Requests) /\ srvIn' \in Seq(Requests)
      /\ in' = in /\ wire' \in Seq(Answers')
    <2>1. replies \in SUBSET Packet
        BY <1>5
    <2> HIDE DEF replies
    <2> QED BY <1>1, <1>3, <1>4, <1>5, <2>1, RespondMoves
<1>7. HeldOK' /\ OpenIsHeld'
    BY <1>j DEF HeldOK, OpenIsHeld, IdsKnown
<1> QED BY <1>3, <1>6, <1>7
-----------------------------------------------------------------------------
(* Steps that leave the ids and what the client sends and receives alone,  *)
(* and only move, or drop, what is on the stream.                          *)
LEMMA StreamIds ==
    ASSUME IdsInv,
           UNCHANGED <<judged, cxnWant, got, held, msgTx, msgRx, cxnTx, cxnRx>>,
           out' \in Seq(Requests), srvIn' \in Seq(Requests),
           in' \in Seq(Answers), wire' \in Seq(Answers) \/ wire' \in Seq(Answers')
    PROVE  AllRequests' /\ AllAnswers' /\ IdsKnown'
<1>1. Requests \subseteq Requests' /\ Answers \subseteq Answers'
    BY JudgedAsBefore
<1>2. /\ msgTx' \in Seq(Requests) /\ cxnTx' \in Seq(Requests)
      /\ msgRx' \in Seq(Answers) /\ cxnRx' \in Seq(Answers)
    BY DEF IdsInv, AllRequests, AllAnswers
<1>3. AllRequests' /\ AllAnswers'
    BY <1>1, <1>2, UnitsMove
<1>4. IdsKnown'
    BY IdsStay DEF IdsInv
<1> QED BY <1>3, <1>4

(* What the client's variables hold when it does nothing.                  *)
LEMMA ClientStays ==
    ASSUME UNCHANGED <<msgVars, cxnVars>>
    PROVE  UNCHANGED <<judged, cxnWant, msgTx, msgRx, cxnTx, cxnRx>>
BY DEF msgVars, cxnVars, idVars, sendVars, judged

(* The PLC handles a request.                                              *)
LEMMA HandleIds ==
    ASSUME IdsInv, ConnHandle, UNCHANGED <<msgVars, cxnVars, got>>
    PROVE  AllRequests' /\ AllAnswers' /\ IdsKnown'
<1>1. UNCHANGED <<judged, cxnWant, msgTx, msgRx, cxnTx, cxnRx>>
    BY ClientStays
<1>2. UNCHANGED judged
    BY <1>1
<1>3. /\ out' \in Seq(Requests) /\ srvIn' \in Seq(Requests)
      /\ in' = in /\ wire' \in Seq(Answers') /\ Answers \subseteq Answers'
      /\ HeldOK' /\ OpenIsHeld'
    BY <1>2, GrantIds, ReleaseIds, UnitDataIds DEF ConnHandle
<1>4. Requests \subseteq Requests'
    BY <1>2, JudgedAsBefore
<1>5. AllRequests' /\ AllAnswers'
    <2>1. /\ msgTx' \in Seq(Requests) /\ cxnTx' \in Seq(Requests)
          /\ in' \in Seq(Answers) /\ msgRx' \in Seq(Answers) /\ cxnRx' \in Seq(Answers)
        BY <1>1, <1>3 DEF IdsInv, AllRequests, AllAnswers
    <2> QED BY <1>3, <1>4, <2>1, UnitsMove
<1>6. IdsKnown'
    <2>1. /\ context' = context /\ sentContext' = sentContext /\ serial' = serial
          /\ toId' = toId /\ otId' = otId /\ cxnState' = cxnState
          /\ sentSequence' = sentSequence /\ cxnWant' = cxnWant /\ got' = got
        BY <1>1 DEF judged
    <2> QED BY <1>3, <2>1 DEF IdsInv, IdsKnown, GotOnThisConnection, Nothing, Garbage, NoConn
<1> QED BY <1>5, <1>6

(* The other steps of the PLC and of the network.                          *)
LEMMA NetworkIds ==
    ASSUME IdsInv, ConnNext, ~ConnHandle, UNCHANGED <<msgVars, cxnVars, got>>
    PROVE  AllRequests' /\ AllAnswers' /\ IdsKnown'
<1>1. UNCHANGED <<judged, cxnWant, msgTx, msgRx, cxnTx, cxnRx>>
    BY ClientStays
<1>2. /\ out \in Seq(Requests) /\ srvIn \in Seq(Requests)
      /\ in \in Seq(Answers) /\ wire \in Seq(Answers)
    BY DEF IdsInv, AllRequests, AllAnswers
<1>3. /\ out' \in Seq(Requests) /\ srvIn' \in Seq(Requests)
      /\ in' \in Seq(Answers) /\ wire' \in Seq(Answers)
    <2>1. CASE Establish /\ UNCHANGED <<srvVars, connVars>>
        BY <1>2, <2>1 DEF Establish, srvVars
    <2>2. CASE PeerResets /\ UNCHANGED <<srvVars, connVars>>
        BY <1>2, <2>2 DEF PeerResets, srvVars
    <2>3. CASE SrvAccept
        BY <1>2, <2>3, EmptyType DEF SrvAccept, tcpVars
    <2>4. CASE SrvReceive
        BY <1>2, <2>4, MoveType DEF SrvReceive, NextIn
    <2>5. CASE SrvMisread
        BY <1>2, <2>5, MoveType, EmptyType DEF SrvMisread
    <2>6. CASE Deliver
        BY <1>2, <2>6, MoveType DEF Deliver
    <2>7. CASE PeerCloses
        BY <1>2, <2>7 DEF PeerCloses, srvVars
    <2> QED BY <2>1, <2>2, <2>3, <2>4, <2>5, <2>6, <2>7 DEF ConnNext
<1>4. UNCHANGED <<held, got>>
    BY DEF ConnNext, connVars
<1> QED BY <1>1, <1>3, <1>4, StreamIds

(* Data the PLC sends of its own accord is not the answer waited for       *)
(* (Connection.h:23-26).                                                   *)
LEMMA StrayIds ==
    ASSUME IdsInv, PlcStray, UNCHANGED <<msgVars, cxnVars, got>>
    PROVE  AllRequests' /\ AllAnswers' /\ IdsKnown'
<1>1. UNCHANGED <<judged, cxnWant, msgTx, msgRx, cxnTx, cxnRx>>
    BY ClientStays
<1>2. PICK c \in 1..(cxnContext - 1), to \in AnyToId, seq \in AnySeq :
         /\ <<c, to, seq>> # <<cxnSentContext, toId, sentSequence>>
         /\ wire' = wire \o Units([cmd |-> "SendUnitData", sess |-> connNo, ctx |-> c,
                                   len |-> ReplyLen, kind |-> "ok", svc |-> "Read",
                                   name |-> NoName,
                                   conn |-> [serial |-> 0, ot |-> 0, to |-> to, seq |-> seq]])
    BY DEF PlcStray, Stray
<1> DEFINE f == [cmd |-> "SendUnitData", sess |-> connNo, ctx |-> c,
                 len |-> ReplyLen, kind |-> "ok", svc |-> "Read", name |-> NoName,
                 conn |-> [serial |-> 0, ot |-> 0, to |-> to, seq |-> seq]]
<1>3. /\ c \in Nat /\ to \in Nat /\ seq \in Nat /\ connNo \in Nat /\ ReplyLen \in Nat
      /\ cxnContext \in Nat
    BY ConnServerAssumption, ServerAssumption
       DEF IdsInv, IInv, StreamOK, TcpTypeOK, CxnOK, CxnTypeOK
<1>4. f \in Packet
    BY <1>3 DEF Packet, Command, ReplyKind, Service, ConnRef
<1>5. /\ f.cmd = "SendUnitData" /\ f.ctx = c /\ c < cxnContext
      /\ f.conn.to = to /\ f.conn.seq = seq
    BY <1>3
<1>6. wire' = wire \o Units(f)
    BY <1>2
<1> HIDE DEF f
<1>7. AnswerOK(f)
    BY <1>2, <1>5 DEF AnswerOK
<1>8. \A j \in Nat : [f |-> f, i |-> j] \in Answers
    BY <1>4, <1>7 DEF Answers, Unit
<1>9. wire' \in Seq(Answers)
    <2>1. Units(f) \in Seq(Answers)
        BY <1>4, <1>8, PacketUnits
    <2> QED BY <1>6, <2>1 DEF IdsInv, AllAnswers
<1>10. UNCHANGED <<in, out, srvIn, held, got>>
    BY DEF PlcStray, Stray, tcpVars
<1> QED BY <1>1, <1>9, <1>10, StreamIds DEF IdsInv, AllRequests, AllAnswers

(* The operations of the TCP connection keep the stream or drop it, and    *)
(* deadlines pass.                                                         *)
LEMMA QuietIds ==
    ASSUME IdsInv, AppConnect \/ AppClose \/ AppPollTcp \/ Tick \/ UNCHANGED vars
    PROVE  AllRequests' /\ AllAnswers' /\ IdsKnown'
<1>1. UNCHANGED <<judged, cxnWant, got, held, msgTx, msgRx, cxnTx, cxnRx, srvIn, wire>>
    <2>1. CASE AppConnect \/ AppClose \/ AppPollTcp \/ UNCHANGED vars
        <3>1. UNCHANGED <<msgVars, cxnVars, peerVars, got>>
            BY <2>1 DEF AppConnect, AppClose, AppPollTcp, vars, peerVars
        <3> QED BY <3>1, ClientStays DEF msgVars, peerVars, srvVars, connVars
    <2>2. CASE TcpDeadline /\ UNCHANGED <<msgVars, cxnVars, peerVars, got>>
        BY <2>2, ClientStays DEF msgVars, peerVars, srvVars, connVars
    <2>3. CASE MsgDeadline /\ UNCHANGED <<tcpVars, cxnVars, peerVars, got>>
        BY <2>3 DEF MsgDeadline, cxnVars, idVars, sendVars, judged, peerVars, srvVars, connVars
    <2>4. CASE CxnDeadline /\ UNCHANGED <<tcpVars, msgVars, peerVars, got>>
        BY <2>4 DEF CxnDeadline, msgVars, idVars, judged, peerVars, srvVars, connVars
    <2> QED BY <2>1, <2>2, <2>3, <2>4 DEF Tick
<1>2. (out' = out /\ in' = in) \/ (out' = <<>> /\ in' = <<>>)
    <2>1. CASE AppConnect
        BY <2>1 DEF AppConnect, TcpConnect, TcpClose, tcpVars
    <2>2. CASE AppClose
        BY <2>2 DEF AppClose, TcpClose
    <2>3. CASE AppPollTcp
        BY <2>3 DEF AppPollTcp, TcpPoll, TcpClose, tcpVars
    <2>4. CASE Tick \/ UNCHANGED vars
        BY <2>4 DEF Tick, TcpDeadline, vars, tcpVars
    <2> QED BY <2>1, <2>2, <2>3, <2>4
<1>3. out' \in Seq(Requests) /\ in' \in Seq(Answers)
    BY <1>2, EmptyType DEF IdsInv, AllRequests, AllAnswers
<1>4. srvIn' \in Seq(Requests) /\ wire' \in Seq(Answers)
    BY <1>1 DEF IdsInv, AllRequests, AllAnswers
<1> QED BY <1>1, <1>3, <1>4, StreamIds

(* The initial states.                                                     *)
LEMMA IdsInit == Init => IdsInv
<1> SUFFICES ASSUME Init PROVE IdsInv
    OBVIOUS
<1>1. /\ msgTx = <<>> /\ msgRx = <<>> /\ cxnTx = <<>> /\ cxnRx = <<>>
      /\ out = <<>> /\ in = <<>> /\ srvIn = <<>> /\ wire = <<>>
      /\ held = {} /\ got = Nothing /\ cxnState = "Idle" /\ context = 1 /\ sentContext = 0
    BY DEF Init, MsgInit, CxnInit, TcpInit, SrvInit, ConnInit
<1>2. AllRequests /\ AllAnswers
    BY <1>1, EmptyType DEF AllRequests, AllAnswers
<1>3. IdsKnown
    BY <1>1 DEF IdsKnown, HeldOK, OpenIsHeld, GotOnThisConnection
<1>4. IInv /\ AnswerInv
    BY InitInv, ConnectedInitMapsToExchange
<1> QED BY <1>2, <1>3, <1>4 DEF IdsInv

(* Every step keeps the invariant, if open() is called on an open          *)
(* connection only while TCP is up and the serial numbers do not wrap.     *)
LEMMA IdsNext ==
    ASSUME OpenWhileUp, MaxOpens < SerialMod, IdsInv, [Next]_vars
    PROVE  IdsInv'
<1>1. IInv' /\ AnswerInv'
    BY InvNext, ConnectedStepMapsToExchange DEF IdsInv
<1>2. AllRequests' /\ AllAnswers' /\ IdsKnown'
    <2>1. CASE AppOpen
        BY <2>1, OpenIds
    <2>2. CASE AppSend
        BY <2>2, SendIds
    <2>3. CASE AppCloseCxn
        BY <2>3, CloseIds
    <2>4. CASE AppPoll
        BY <2>4, PollIds
    <2>5. CASE AppConnect \/ AppClose \/ AppPollTcp \/ Tick \/ UNCHANGED vars
        BY <2>5, QuietIds
    <2>6. CASE ConnNext /\ UNCHANGED <<msgVars, cxnVars, got>>
        BY <2>6, HandleIds, NetworkIds
    <2>7. CASE PlcStray /\ UNCHANGED <<msgVars, cxnVars, got>>
        BY <2>7, StrayIds
    <2> QED BY <2>1, <2>2, <2>3, <2>4, <2>5, <2>6, <2>7 DEF Next, AppNext
<1> QED BY <1>1, <1>2 DEF IdsInv

(* "Connection IDs (valid once open)" (Connection.h:57): the ids of an     *)
(* open connection are those of one that the PLC has granted and not       *)
(* closed.  This needs the rule of use that an open connection is opened   *)
(* again only while TCP is up (open() replaces the ids before it knows     *)
(* whether the Forward Open is sent, Connection.cpp:87-146), and fewer     *)
(* opens than there are serial numbers.                                    *)
THEOREM OpenConnectionIsHeld ==
    ASSUME OpenWhileUp, MaxOpens < SerialMod
    PROVE  Spec => []OpenIsHeld
<1>1. IdsInv /\ [Next]_vars => IdsInv'
    BY IdsNext
<1>2. IdsInv => OpenIsHeld
    BY DEF IdsInv, IdsKnown
<1> QED BY <1>1, <1>2, IdsInit, PTL DEF Spec

(* "rejected unless the connection ID matches the negotiated T->O ID and   *)
(* the sequence number matches the request" (Connection.h:23-26): what     *)
(* data() gives comes from the PLC's end of this very connection, whatever *)
(* stale, replayed or misrouted data arrives, under the same conditions.   *)
THEOREM DataIsOfThisConnection ==
    ASSUME OpenWhileUp, MaxOpens < SerialMod
    PROVE  Spec => []GotOnThisConnection
<1>1. IdsInv /\ [Next]_vars => IdsInv'
    BY IdsNext
<1>2. IdsInv => GotOnThisConnection
    BY DEF IdsInv, IdsKnown
<1> QED BY <1>1, <1>2, IdsInit, PTL DEF Spec
-----------------------------------------------------------------------------
(* A unit of the last request of the message, or of an answer to it; the   *)
(* units that are neither, and those that do not begin that request; and   *)
(* the units of anything but an answer that says the request was granted.  *)
Asked(u)  == u.f.cmd = "SendRRData" /\ u.f.ctx = sentContext
Others    == {u \in Unit : ~Asked(u)}
Rest      == {u \in Unit : ~(u.i = 1 /\ Asked(u))}
Refusals == {u \in Unit : Asked(u) => u.f.kind \in {"cipError", "encapError", "malformed"}}
CxnUnits == {u \in Unit : u.f.cmd = "SendUnitData" /\ u.f.svc = "Read"}

(* Of s all but one element are in S.                                      *)
AllButOne(s, S) == \E k \in 1..Len(s) : \A j \in 1..Len(s) : j # k => s[j] \in S

(* Nothing answers the last request yet.                                   *)
Unanswered == in \in Seq(Others) /\ wire \in Seq(Others) /\ msgRx \in Seq(Others)

(* Nothing says that the last request was granted.                         *)
NoSuccess == in \in Seq(Refusals) /\ wire \in Seq(Refusals) /\ msgRx \in Seq(Refusals)

(* The last request is begun once: its first unit is still to be sent, or  *)
(* in the socket, or with the PLC, or it is gone, and only then answered.  *)
AskedOnce ==
    \/ /\ msgTx # <<>> /\ Tail(msgTx) \in Seq(Rest)
       /\ out \in Seq(Rest) /\ srvIn \in Seq(Rest) /\ Unanswered
    \/ msgTx \in Seq(Rest) /\ AllButOne(out, Rest) /\ srvIn \in Seq(Rest) /\ Unanswered
    \/ msgTx \in Seq(Rest) /\ out \in Seq(Rest) /\ Unanswered
    \/ msgTx \in Seq(Rest) /\ out \in Seq(Rest) /\ srvIn \in Seq(Rest)

(* The Forward Open of the present serial number is the request that is    *)
(* waited for, and once it is answered none begins any more; what is       *)
(* waited for while closing is the Forward Close.                          *)
KeptOK(u) ==
    /\ u.f.svc = "ForwardOpen" /\ u.f.conn.serial = serial =>
          /\ cxnState = "Opening" => Asked(u)
          /\ cxnState \in {"Open", "Sending", "Closing", "Closed"} => u.i # 1
    /\ cxnState = "Closing" /\ Asked(u) =>
          u.f.svc = "ForwardClose" /\ u.f.conn.serial = serial

Kept == {u \in Unit : KeptOK(u)}

AllKept == msgTx \in Seq(Kept) /\ out \in Seq(Kept) /\ srvIn \in Seq(Kept)

(* What is known of the end of a connection: until the PLC has let go of   *)
(* it nothing says that the Forward Close was granted.                     *)
ReleaseKnown ==
    /\ srvConn <= connNo /\ \A h \in held : h.conn <= connNo
    /\ cxnTx \in Seq(CxnUnits)
    /\ AllKept /\ AskedOnce
    /\ cxnState = "Closing" => NoSuccess \/ Released
    /\ cxnState = "Closed" => Released \/ CloseRefused

(* The inductive invariant of the end of a connection.                     *)
ReleaseInv == IdsInv /\ ReleaseKnown

(* Sequences of which all but one element are in S: appending,             *)
LEMMA OneAppends ==
    ASSUME NEW S, NEW U, S \subseteq U, NEW s \in Seq(U), AllButOne(s, S), NEW t \in Seq(S)
    PROVE  AllButOne(s \o t, S)
<1>1. PICK k \in 1..Len(s) : \A j \in 1..Len(s) : j # k => s[j] \in S
    BY DEF AllButOne
<1>2. /\ Len(s \o t) = Len(s) + Len(t) /\ Len(s) \in Nat /\ Len(t) \in Nat
      /\ k \in 1..Len(s \o t)
    BY Widen
<1>3. ASSUME NEW j \in 1..Len(s \o t), j # k
      PROVE  (s \o t)[j] \in S
    <2>1. CASE j \in 1..Len(s)
        BY <1>1, <1>3, <2>1
    <2>2. CASE j \notin 1..Len(s)
        <3>1. j - Len(s) \in 1..Len(t) /\ (s \o t)[j] = t[j - Len(s)]
            BY <1>2, <2>2
        <3> QED BY <3>1
    <2> QED BY <2>1, <2>2
<1> QED BY <1>2, <1>3 DEF AllButOne

(* starting,                                                               *)
LEMMA OneStarts ==
    ASSUME NEW S, NEW U, S \subseteq U, NEW s \in Seq(S), NEW t \in Seq(U), t # <<>>,
           Tail(t) \in Seq(S), NEW n \in 1..Len(t)
    PROVE  AllButOne(s \o SubSeq(t, 1, n), S) /\ SubSeq(t, n + 1, Len(t)) \in Seq(S)
<1>1. Len(t) \in Nat /\ Len(Tail(t)) = Len(t) - 1
    OBVIOUS
<1>2. \A j \in 2..Len(t) : t[j] \in S
    <2> SUFFICES ASSUME NEW j \in 2..Len(t) PROVE t[j] \in S
        OBVIOUS
    <2>1. j - 1 \in 1..Len(Tail(t)) /\ Tail(t)[j - 1] = t[j]
        BY <1>1
    <2> QED BY <2>1
<1>3. SubSeq(t, n + 1, Len(t)) \in Seq(S)
    <2>1. n + 1 \in Int /\ Len(t) \in Int /\ \A i \in (n + 1)..Len(t) : t[i] \in S
        BY <1>1, <1>2
    <2> QED BY <2>1, SubSeqProperties
<1>4. AllButOne(s \o SubSeq(t, 1, n), S)
    <2> DEFINE a == SubSeq(t, 1, n)
    <2>1. a \in Seq(U) /\ Len(a) = n /\ s \in Seq(U) /\ Len(s) \in Nat
        BY SplitType, Widen
    <2>2. \A i \in 1..n : a[i] = t[i]
        BY <1>1, SubSeqProperties
    <2> HIDE DEF a
    <2>3. Len(s \o a) = Len(s) + n /\ Len(s) + 1 \in 1..Len(s \o a)
        BY <2>1
    <2>4. ASSUME NEW j \in 1..Len(s \o a), j # Len(s) + 1
          PROVE  (s \o a)[j] \in S
        <3>1. CASE j \in 1..Len(s)
            BY <2>1, <3>1
        <3>2. CASE j \notin 1..Len(s)
            <4>1. j - Len(s) \in 2..n /\ (s \o a)[j] = a[j - Len(s)]
                BY <2>1, <2>3, <2>4, <3>2
            <4> QED BY <1>1, <1>2, <2>2, <4>1
        <3> QED BY <3>1, <3>2
    <2>5. AllButOne(s \o a, S)
        BY <2>3, <2>4 DEF AllButOne
    <2> QED BY <2>5 DEF a
<1> QED BY <1>3, <1>4

(* and taking.                                                             *)
LEMMA OneTakes ==
    ASSUME NEW S, NEW U, NEW s \in Seq(U), s # <<>>, AllButOne(s, S)
    PROVE  Tail(s) \in Seq(S) \/ (Head(s) \in S /\ AllButOne(Tail(s), S))
<1>1. PICK k \in 1..Len(s) : \A j \in 1..Len(s) : j # k => s[j] \in S
    BY DEF AllButOne
<1>2. /\ Len(s) \in Nat /\ Len(Tail(s)) = Len(s) - 1 /\ Head(s) = s[1]
      /\ \A j \in 1..Len(Tail(s)) : Tail(s)[j] = s[j + 1] /\ j + 1 \in 1..Len(s)
    OBVIOUS
<1>3. CASE k = 1
    <2> DEFINE r == Tail(s)
    <2>1. r \in Seq(U)
        OBVIOUS
    <2>2. \A j \in 1..Len(r) : r[j] \in S
        BY <1>1, <1>2, <1>3
    <2> HIDE DEF r
    <2>3. r \in Seq(S)
        BY <2>1, <2>2
    <2> QED BY <2>3 DEF r
<1>4. CASE k # 1
    <2>1. k - 1 \in 1..Len(Tail(s)) /\ Head(s) \in S
        BY <1>1, <1>2, <1>4
    <2>2. \A j \in 1..Len(Tail(s)) : j # k - 1 => Tail(s)[j] \in S
        BY <1>1, <1>2
    <2> QED BY <2>1, <2>2 DEF AllButOne
<1> QED BY <1>3, <1>4

(* A sequence over two sets is one over what they share.                   *)
LEMMA Share ==
    ASSUME NEW S, NEW T, NEW s \in Seq(S), s \in Seq(T)
    PROVE  s \in Seq(S \cap T)
OBVIOUS

(* A poll of the message moves a prefix of what is to be sent too.         *)
LEMMA PollSplits ==
    ASSUME MsgOK, StreamOK, NEW st, MsgPoll(st)
    PROVE  \/ msgTx' = msgTx /\ out' = out
           \/ \E n \in 1..Len(msgTx) : /\ msgTx' = SubSeq(msgTx, n + 1, Len(msgTx))
                                       /\ out' = out \o SubSeq(msgTx, 1, n)
<1>1. CASE MsgTimeout(st) \/ MsgSettled(st)
    BY <1>1 DEF MsgTimeout, MsgSettled, tcpVars, msgVars
<1>2. CASE MsgAdvance(st)
    <2>0. /\ msgTx \in Seq(Unit) /\ out \in Seq(Unit) /\ Len(out) <= SndBuf
          /\ msgRx \in Seq(Unit) /\ msgWant \in Nat /\ MsgMaxBody \in Nat
        BY MsgAssumption
           DEF MsgOK, MsgTypeOK, StreamOK, TcpTypeOK, SrvTypeOK
    <2>1. PICK r \in Advance(msgTx, msgRx, msgWant, MsgMaxBody) : msgTx' = r.tx /\ out' = r.out
        BY <1>2 DEF MsgAdvance
    <2>2. PICK n \in 0..Len(msgTx) : /\ r.tx = SubSeq(msgTx, n + 1, Len(msgTx))
                                     /\ r.out = out \o SubSeq(msgTx, 1, n)
        BY <2>0, AdvanceSplits, ZenonT(60)
    <2>3. CASE n = 0
        <3>1. SubSeq(msgTx, 1, Len(msgTx)) = msgTx /\ SubSeq(msgTx, 1, 0) = <<>>
            BY <2>0, SubSeqFull, SubSeqEmpty
        <3>2. out \o <<>> = out
            BY <2>0
        <3>3. n + 1 = 1
            BY <2>3
        <3> QED BY <2>1, <2>2, <2>3, <3>1, <3>2, <3>3
    <2>4. CASE n # 0
        <3>1. n \in 1..Len(msgTx)
            BY <2>4
        <3> QED BY <2>1, <2>2, <3>1
    <2> QED BY <2>3, <2>4
<1> QED BY <1>1, <1>2 DEF MsgPoll

(* What the last request is stays while its context does.                  *)
LEMMA AskedStays ==
    ASSUME UNCHANGED sentContext
    PROVE  Others' = Others /\ Rest' = Rest /\ Refusals' = Refusals
BY DEF Others, Rest, Refusals, Asked

(* Units that do not begin the request may answer it, and connected ones   *)
(* are none of its.                                                        *)
LEMMA UnitSets ==
    /\ Others \subseteq Rest /\ Rest \subseteq Unit /\ Others \in SUBSET Unit
    /\ CxnUnits \subseteq Others /\ CxnUnits \in SUBSET Unit
    /\ Others \subseteq Refusals /\ Refusals \in SUBSET Unit
BY DEF Others, Rest, Refusals, CxnUnits, Asked

(* What is not answered is not granted.                                    *)
LEMMA NoAnswerNoSuccess == Unanswered => NoSuccess
BY UnitSets, Widen DEF Unanswered, NoSuccess

(* The last request stays begun once while the message sends it,           *)
LEMMA MessageSendsOnce ==
    ASSUME AskedOnce, UNCHANGED <<sentContext, srvIn>>, msgTx \in Seq(Unit),
           out \in Seq(Unit), Unanswered => Unanswered',
           \/ msgTx' = msgTx /\ out' = out
           \/ \E n \in 1..Len(msgTx) : /\ msgTx' = SubSeq(msgTx, n + 1, Len(msgTx))
                                       /\ out' = out \o SubSeq(msgTx, 1, n)
    PROVE  AskedOnce'
<1> USE AskedStays, UnitSets
<1>1. CASE msgTx' = msgTx /\ out' = out
    BY <1>1 DEF AskedOnce, AllButOne
<1>2. ASSUME NEW n \in 1..Len(msgTx), msgTx' = SubSeq(msgTx, n + 1, Len(msgTx)),
             out' = out \o SubSeq(msgTx, 1, n)
      PROVE  AskedOnce'
    <2>0. n \in 0..Len(msgTx)
        OBVIOUS
    <2>1. ASSUME msgTx \in Seq(Rest)
          PROVE  /\ msgTx' \in Seq(Rest) /\ SubSeq(msgTx, 1, n) \in Seq(Rest)
                 /\ out \in Seq(Rest) => out' \in Seq(Rest)
        <3>1. msgTx' \in Seq(Rest) /\ SubSeq(msgTx, 1, n) \in Seq(Rest)
            BY <1>2, <2>0, <2>1, SplitType
        <3> DEFINE a == SubSeq(msgTx, 1, n)
        <3>2. a \in Seq(Rest) /\ out' = out \o a
            BY <1>2, <3>1
        <3> HIDE DEF a
        <3>3. out \in Seq(Rest) => out' \in Seq(Rest)
            BY <3>2
        <3> QED BY <3>1, <3>3
    <2>2. CASE /\ msgTx # <<>> /\ Tail(msgTx) \in Seq(Rest)
               /\ out \in Seq(Rest) /\ srvIn \in Seq(Rest) /\ Unanswered
        <3>1. AllButOne(out', Rest) /\ msgTx' \in Seq(Rest)
            BY <1>2, <2>2, OneStarts
        <3>2. AllButOne(out, Rest)'
            BY <3>1 DEF AllButOne
        <3> QED BY <2>2, <3>1, <3>2 DEF AskedOnce
    <2>3. CASE msgTx \in Seq(Rest) /\ AllButOne(out, Rest) /\ srvIn \in Seq(Rest) /\ Unanswered
        <3>1. AllButOne(out', Rest) /\ msgTx' \in Seq(Rest)
            BY <1>2, <2>1, <2>3, OneAppends
        <3>2. AllButOne(out, Rest)'
            BY <3>1 DEF AllButOne
        <3> QED BY <2>3, <3>1, <3>2 DEF AskedOnce
    <2>4. CASE msgTx \in Seq(Rest) /\ out \in Seq(Rest) /\ (Unanswered \/ srvIn \in Seq(Rest))
        BY <2>1, <2>4 DEF AskedOnce
    <2> QED BY <2>2, <2>3, <2>4 DEF AskedOnce
<1> QED BY <1>1, <1>2

(* while the connection sends connected requests in between,               *)
LEMMA ConnectionSendsOnce ==
    ASSUME AskedOnce, UNCHANGED <<sentContext, msgTx, srvIn>>, out \in Seq(Unit),
           Unanswered => Unanswered',
           NEW t \in Seq(CxnUnits), out' = out \o t
    PROVE  AskedOnce'
<1> USE AskedStays, UnitSets
<1>1. t \in Seq(Rest)
    BY Widen
<1>2. out \in Seq(Rest) => out' \in Seq(Rest)
    BY <1>1
<1>3. AllButOne(out, Rest) => AllButOne(out, Rest)'
    <2>1. AllButOne(out, Rest) => AllButOne(out', Rest)
        BY <1>1, OneAppends
    <2> QED BY <2>1 DEF AllButOne
<1> QED BY <1>2, <1>3 DEF AskedOnce

(* while answers are on their way, and the stream is dropped,              *)
LEMMA StreamOnce ==
    ASSUME AskedOnce, UNCHANGED <<sentContext, msgTx>>, Unanswered => Unanswered',
           out' \in {out, <<>>}, srvIn' \in {srvIn, <<>>}
    PROVE  AskedOnce'
<1> USE AskedStays, UnitSets
<1>1. <<>> \in Seq(Rest)
    BY EmptyType
<1>2. out' = out => (AllButOne(out, Rest) => AllButOne(out, Rest)')
    BY DEF AllButOne
<1> QED BY <1>1, <1>2 DEF AskedOnce

(* and while the PLC takes what has arrived: it can answer the last        *)
(* request only once it has all of it.                                     *)
LEMMA PlcTakesOnce ==
    ASSUME AskedOnce, UNCHANGED <<sentContext, msgTx>>, out \in Seq(Unit), out # <<>>,
           srvIn \in Seq(Unit), out' = Tail(out), srvIn' \in {NextIn, <<>>},
           Unanswered => Unanswered' \/ (srvIn' = <<>> /\ NextIn \notin Seq(Rest))
    PROVE  AskedOnce'
<1> USE AskedStays, UnitSets
<1>1. <<>> \in Seq(Rest)
    BY EmptyType
<1>2. out \in Seq(Rest) => out' \in Seq(Rest) /\ Head(out) \in Rest
    OBVIOUS
<1>3. srvIn \in Seq(Rest) /\ Head(out) \in Rest => NextIn \in Seq(Rest) /\ srvIn' \in Seq(Rest)
    <2> DEFINE h == Head(out)
    <2>1. srvIn \in Seq(Rest) /\ h \in Rest => Append(srvIn, h) \in Seq(Rest)
        <3> HIDE DEF h
        <3> QED OBVIOUS
    <2> QED BY <1>1, <2>1 DEF NextIn
<1>4. AllButOne(out, Rest) =>
         out' \in Seq(Rest) \/ (Head(out) \in Rest /\ AllButOne(out, Rest)')
    <2>1. AllButOne(out, Rest) =>
             out' \in Seq(Rest) \/ (Head(out) \in Rest /\ AllButOne(out', Rest))
        BY OneTakes
    <2> QED BY <2>1 DEF AllButOne
<1>5. out \in Seq(Rest) /\ Unanswered /\ ~Unanswered' => srvIn' = <<>>
    OBVIOUS
<1>6. CASE /\ msgTx # <<>> /\ Tail(msgTx) \in Seq(Rest)
           /\ out \in Seq(Rest) /\ srvIn \in Seq(Rest) /\ Unanswered
    <2>1. Unanswered'
        BY <1>2, <1>3, <1>6
    <2> QED BY <1>2, <1>3, <1>6, <2>1 DEF AskedOnce
<1>7. CASE msgTx \in Seq(Rest) /\ AllButOne(out, Rest) /\ srvIn \in Seq(Rest) /\ Unanswered
    <2>1. CASE out' \in Seq(Rest)
        <3>1. Unanswered' \/ srvIn' \in Seq(Rest)
            BY <1>1, <1>7
        <3> QED BY <1>7, <2>1, <3>1 DEF AskedOnce
    <2>2. CASE Head(out) \in Rest /\ AllButOne(out, Rest)'
        <3>1. Unanswered' /\ srvIn' \in Seq(Rest)
            BY <1>3, <1>7, <2>2
        <3> QED BY <1>7, <2>2, <3>1 DEF AskedOnce
    <2> QED BY <1>4, <1>7, <2>1, <2>2
<1>8. CASE msgTx \in Seq(Rest) /\ out \in Seq(Rest) /\ Unanswered
    <2>1. Unanswered' \/ srvIn' \in Seq(Rest)
        BY <1>1, <1>8
    <2> QED BY <1>2, <1>8, <2>1 DEF AskedOnce
<1>9. CASE msgTx \in Seq(Rest) /\ out \in Seq(Rest) /\ srvIn \in Seq(Rest)
    BY <1>2, <1>3, <1>9 DEF AskedOnce
<1> QED BY <1>6, <1>7, <1>8, <1>9 DEF AskedOnce

(* A new request has not begun yet, and nothing answers it.                *)
LEMMA NewRequestOnce ==
    ASSUME IdsInv, NEW f \in Packet, msgTx' = Units(f), msgRx' = <<>>, sentContext' = context,
           UNCHANGED <<out, in, srvIn, wire>>
    PROVE  AskedOnce' /\ Unanswered'
<1>0. context \in Nat
    BY DEF IdsInv, IInv, MsgOK, MsgTypeOK
<1>1. Requests \subseteq Rest'
    <2> SUFFICES ASSUME NEW u \in Requests PROVE u \in Rest'
        OBVIOUS
    <2>1. u \in Unit /\ (u.f.cmd = "SendRRData" => u.f.ctx < context) /\ u.f.ctx \in Nat
        BY DEF Requests, RequestOK, Unit, Packet
    <2> QED BY <1>0, <2>1 DEF Rest, Asked
<1>2. Answers \subseteq Others'
    <2> SUFFICES ASSUME NEW u \in Answers PROVE u \in Others'
        OBVIOUS
    <2>1. u \in Unit /\ (u.f.cmd = "SendRRData" => u.f.ctx < context) /\ u.f.ctx \in Nat
        BY DEF Answers, AnswerOK, Unit, Packet
    <2> QED BY <1>0, <2>1 DEF Others, Asked
<1>3. out' \in Seq(Rest') /\ srvIn' \in Seq(Rest')
    BY <1>1, Widen DEF IdsInv, AllRequests
<1>4. Unanswered'
    <2>1. in' \in Seq(Others') /\ wire' \in Seq(Others')
        BY <1>2, Widen DEF IdsInv, AllAnswers
    <2>2. msgRx' \in Seq(Others')
        BY EmptyType
    <2> QED BY <2>1, <2>2 DEF Unanswered
<1>5. msgTx' # <<>> /\ Tail(msgTx') \in Seq(Rest')
    <2> DEFINE s == Units(f)
    <2>1. s \in Seq(Unit) /\ Len(s) = HeaderLen + f.len /\ Len(s) \in Nat /\ Len(s) > 0
        BY UnitsType, HeaderLenAssumption DEF Packet
    <2>2. \A j \in 1..Len(s) : s[j].i = j
        BY <2>1 DEF Units
    <2> HIDE DEF s
    <2>3. s # <<>>
        BY <2>1
    <2> DEFINE r == Tail(s)
    <2>4. r \in Seq(Unit) /\ Len(r) = Len(s) - 1 /\ \A j \in 1..Len(r) : r[j] = s[j + 1]
        BY <2>1, <2>3, HeadTailProperties
    <2> HIDE DEF r
    <2>5. \A j \in 1..Len(r) : r[j] \in Unit /\ r[j].i # 1
        <3> SUFFICES ASSUME NEW j \in 1..Len(r) PROVE r[j] \in Unit /\ r[j].i # 1
            OBVIOUS
        <3>1. j + 1 \in 1..Len(s) /\ j + 1 # 1 /\ r[j] = s[j + 1]
            BY <2>1, <2>4
        <3>2. s[j + 1].i = j + 1 /\ s[j + 1] \in Unit
            BY <2>1, <2>2, <3>1
        <3> QED BY <3>1, <3>2
    <2>6. \A j \in 1..Len(r) : r[j] \in Rest'
        BY <2>5 DEF Rest
    <2>7. r \in Seq(Rest')
        BY <2>4, <2>6
    <2> QED BY <2>3, <2>7 DEF r, s
<1> QED BY <1>3, <1>4, <1>5 DEF AskedOnce

(* A verdict Ok of the message answers the last request.                   *)
LEMMA OkIsAnswered ==
    ASSUME IdsInv, MsgInFlight, MsgPoll("Ok")
    PROVE  ~Unanswered /\ ~Unanswered'
<1>1. ParseResponse(msgRx') = "Ok" /\ HeaderLen <= Len(msgRx')
    BY OkIsParsed DEF IdsInv, IInv
<1>2. sentContext' = sentContext
    BY PollKeepsContext
<1>3. msgRx' \notin Seq(Others)
    <2> SUFFICES ASSUME msgRx' \in Seq(Others) PROVE FALSE
        OBVIOUS
    <2> DEFINE h == DecodeHeader(msgRx')
    <2>1. h.cmd = "SendRRData" /\ h.ctx = sentContext
        BY <1>1 DEF ParseResponse
    <2>2. PICK u \in Others : h = u.f
        <3> HIDE DEF h
        <3>1. h.cmd # "Garbage"
            BY <2>1
        <3> QED BY <1>1, <3>1, DecodedFrom DEF h
    <2> HIDE DEF h
    <2> QED BY <2>1, <2>2 DEF Others, Asked
<1>4. ~Unanswered
    <2>1. in \in Seq(Others) /\ msgRx \in Seq(Others) => msgRx' \in Seq(Others)
        BY UnitSets, PollReads DEF IdsInv, IInv
    <2> QED BY <1>3, <2>1 DEF Unanswered
<1>5. ~Unanswered'
    BY <1>2, <1>3, AskedStays DEF Unanswered
<1> QED BY <1>4, <1>5

(* A poll of the message only receives what has arrived.                   *)
LEMMA PollUnanswered ==
    ASSUME IdsInv, NEW st, MsgPoll(st), wire' = wire
    PROVE  Unanswered => Unanswered'
<1>1. sentContext' = sentContext
    BY PollKeepsContext
<1>2. in \in Seq(Others) /\ msgRx \in Seq(Others) => in' \in Seq(Others) /\ msgRx' \in Seq(Others)
    BY UnitSets, PollReads, PollKeepsStream DEF IdsInv, IInv
<1> QED BY <1>1, <1>2, AskedStays DEF Unanswered

(* Nor does it make a granted request of one that is not.                  *)
LEMMA PollNoSuccess ==
    ASSUME IdsInv, NEW st, MsgPoll(st), wire' = wire
    PROVE  NoSuccess => NoSuccess'
<1>1. sentContext' = sentContext
    BY PollKeepsContext
<1>2. in \in Seq(Refusals) /\ msgRx \in Seq(Refusals) =>
         in' \in Seq(Refusals) /\ msgRx' \in Seq(Refusals)
    BY UnitSets, PollReads, PollKeepsStream DEF IdsInv, IInv
<1> QED BY <1>1, <1>2, AskedStays DEF NoSuccess

(* A verdict Ok where nothing says that the request was granted is that    *)
(* of a refusal.                                                           *)
LEMMA OkIsRefused ==
    ASSUME IdsInv, MsgInFlight, MsgPoll("Ok"), wire' = wire, NoSuccess
    PROVE  CloseRefused'
<1>1. ParseResponse(msgRx') = "Ok" /\ HeaderLen <= Len(msgRx') /\ msgState' = "Done"
    BY OkIsParsed, PollKeepsFull DEF IdsInv, IInv
<1>2. sentContext' = sentContext /\ msgRx' \in Seq(Refusals)
    BY PollKeepsContext, PollNoSuccess, AskedStays DEF NoSuccess
<1> DEFINE h == DecodeHeader(msgRx')
<1>3. h.cmd = "SendRRData" /\ h.ctx = sentContext /\ h.kind \notin {"encapError", "malformed"}
    BY <1>1, <1>2 DEF ParseResponse
<1>4. PICK u \in Refusals : h = u.f
    <2> HIDE DEF h
    <2>1. h.cmd # "Garbage"
        BY <1>3
    <2> QED BY <1>1, <1>2, <2>1, DecodedFrom DEF h
<1>5. MsgReply' = h
    BY DEF MsgReply
<1> HIDE DEF h
<1>6. h.kind = "cipError"
    BY <1>3, <1>4 DEF Refusals, Asked
<1> QED BY <1>1, <1>5, <1>6 DEF CloseRefused
-----------------------------------------------------------------------------
(* What is known of the end of a connection stays while nothing of it      *)
(* changes.                                                                *)
LEMMA ReleaseStays ==
    ASSUME ReleaseKnown,
           UNCHANGED <<sentContext, serial, cxnState, msgState, msgTx, msgRx, cxnTx, in, out,
                       wire, srvIn, srvConn, connNo, held>>
    PROVE  ReleaseKnown'
<1>1. Others' = Others /\ Rest' = Rest /\ Refusals' = Refusals /\ Kept' = Kept
    BY AskedStays DEF Kept, KeptOK, Asked
<1>2. (Unanswered' <=> Unanswered) /\ (NoSuccess' <=> NoSuccess)
    BY <1>1 DEF Unanswered, NoSuccess
<1>3. AskedOnce'
    <2>1. AllButOne(out, Rest)' <=> AllButOne(out, Rest)
        BY <1>1 DEF AllButOne
    <2> QED BY <1>1, <1>2, <2>1 DEF AskedOnce, ReleaseKnown
<1>4. CxnUnits' = CxnUnits
    BY DEF CxnUnits
<1>5. (Released' <=> Released) /\ (CloseRefused' <=> CloseRefused)
    BY DEF Released, CloseRefused, MsgReply
<1> QED BY <1>1, <1>2, <1>3, <1>4, <1>5 DEF ReleaseKnown, AllKept

(* open() (Connection.cpp:87-146).                                         *)
LEMMA OpenRelease ==
    ASSUME OpenWhileUp, MaxOpens < SerialMod, ReleaseInv, AppOpen
    PROVE  ReleaseKnown'
<1> USE DEF ReleaseInv
<1>0. /\ context \in Nat /\ serial \in Nat /\ connNo \in Nat /\ ReqLen \in Nat /\ CxnTypeOK
    BY MsgAssumption
       DEF IdsInv, IInv, MsgOK, MsgTypeOK, CxnOK, CxnTypeOK, StreamOK, TcpTypeOK
<1>1. PICK st \in Status, valid \in BOOLEAN : CxnOpen(connNo, valid, st)
    BY DEF AppOpen
<1>2. /\ serial < MaxOpens /\ (cxnState = "Open" => Connected)
      /\ UNCHANGED <<in, out, srvIn, wire, held, connNo, srvConn>>
    BY DEF AppOpen, tcpVars, peerVars, srvVars, connVars
<1>3. CASE UNCHANGED <<cxnVars, msgVars>>
    BY <1>2, <1>3, ReleaseStays DEF cxnVars, msgVars, idVars, sendVars
<1>4. CASE ~CxnInFlight /\ StartOpen(connNo, st)
    <2>0. NextSerial = serial + 1
        BY <1>0, <1>2, SerialIsNew
    <2>1. PICK t \in ToIds :
             /\ serial' = serial + 1
             /\ MsgSend(connNo, "ForwardOpen", NoName,
                        [serial |-> serial + 1, ot |-> 0, to |-> t, seq |-> 0], TRUE, st)
        BY <1>4, <2>0 DEF StartOpen
    <2>2. /\ cxnState' = (IF st = "Pending" THEN "Opening" ELSE cxnState)
          /\ cxnState \notin {"Opening", "Sending", "Closing"}
          /\ UNCHANGED cxnTx
        BY <1>4 DEF StartOpen, CxnInFlight, sendVars
    <2>3. t \in Nat
        BY CxnAssumption
    <2>4. ASSUME NEW u \in Requests, cxnState' # "Closing"
          PROVE  u \in Kept'
        <3>1. u \in Unit /\ (u.f.svc = "ForwardOpen" => u.f.conn.serial <= serial)
              /\ u.f.conn.serial \in Nat
            BY DEF Requests, RequestOK, Unit, Packet, ConnRef
        <3>2. u.f.svc = "ForwardOpen" => u.f.conn.serial # serial'
            BY <1>0, <2>1, <3>1
        <3> QED BY <2>4, <3>1, <3>2 DEF Kept, KeptOK
    <2>5. cxnTx' \in Seq(CxnUnits') /\ srvConn' <= connNo' /\ \A h \in held' : h.conn <= connNo'
        BY <1>2, <2>2 DEF ReleaseKnown, CxnUnits
    <2>6. CASE st = "Pending"
        <3> DEFINE f == Request(connNo, "ForwardOpen", NoName,
                                [serial |-> serial + 1, ot |-> 0, to |-> t, seq |-> 0])
        <3>1. msgTx' = Units(f) /\ msgRx' = <<>> /\ sentContext' = context
            BY <2>1, <2>6 DEF MsgSend, StartSend
        <3>2. f \in Packet /\ f.cmd = "SendRRData" /\ f.ctx = context
            BY <1>0, <2>3 DEF Request, Packet, Command, Service, ConnRef
        <3>3. cxnState' = "Opening"
            BY <2>2, <2>6
        <3> HIDE DEF f
        <3>4. AskedOnce'
            BY <1>2, <3>1, <3>2, NewRequestOnce
        <3>5. ASSUME NEW j \in Nat PROVE [f |-> f, i |-> j] \in Kept'
            BY <3>1, <3>2, <3>3 DEF Kept, KeptOK, Asked, Unit
        <3>6. msgTx' \in Seq(Kept')
            BY <3>1, <3>2, <3>5, PacketUnits
        <3>7. out' \in Seq(Kept') /\ srvIn' \in Seq(Kept')
            BY <1>2, <2>4, <3>3, Widen DEF IdsInv, AllRequests
        <3> QED BY <2>5, <3>3, <3>4, <3>6, <3>7 DEF ReleaseKnown, AllKept
    <2>7. CASE st # "Pending"
        <3>1. UNCHANGED msgVars /\ cxnState' = cxnState
            BY <2>1, <2>2, <2>7 DEF MsgSend
        <3>2. UNCHANGED <<sentContext, msgTx, msgRx>>
            BY <3>1 DEF msgVars
        <3>3. AllKept'
            <4>1. Requests \subseteq Kept'
                BY <2>2, <2>4, <3>1
            <4>2. msgTx' \in Seq(Requests) /\ out' \in Seq(Requests) /\ srvIn' \in Seq(Requests)
                BY <1>2, <3>2 DEF IdsInv, AllRequests
            <4> QED BY <4>1, <4>2, Widen DEF AllKept
        <3>4. Unanswered => Unanswered'
            BY <1>2, <3>2, AskedStays DEF Unanswered
        <3>5. AskedOnce'
            BY <1>2, <3>2, <3>4, StreamOnce DEF ReleaseKnown
        <3>6. Released'
            BY <1>0, <1>2, <2>1 DEF Released, IdsInv, IdsKnown, HeldOK, IInv, ConnTypeOK
        <3> QED BY <2>2, <2>5, <3>1, <3>3, <3>5, <3>6 DEF ReleaseKnown
    <2> QED BY <2>6, <2>7
<1> QED BY <1>1, <1>3, <1>4 DEF CxnOpen

(* close() (Connection.cpp:148-175).                                       *)
LEMMA CloseRelease ==
    ASSUME ReleaseInv, AppCloseCxn
    PROVE  ReleaseKnown'
<1> USE DEF ReleaseInv
<1>0. /\ context \in Nat /\ serial \in Nat /\ connNo \in Nat /\ ReqLen \in Nat
    BY MsgAssumption
       DEF IdsInv, IInv, MsgOK, MsgTypeOK, CxnOK, CxnTypeOK, StreamOK, TcpTypeOK
<1>1. PICK st \in Status : CxnClose(connNo, st)
    BY DEF AppCloseCxn
<1>2. UNCHANGED <<in, out, srvIn, wire, held, connNo, srvConn>>
    BY DEF AppCloseCxn, tcpVars, peerVars, srvVars, connVars
<1>3. CASE UNCHANGED <<cxnVars, msgVars>>
    BY <1>2, <1>3, ReleaseStays DEF cxnVars, msgVars, idVars, sendVars
<1>4. CASE ~UNCHANGED <<cxnVars, msgVars>>
    <2> DEFINE f == Request(connNo, "ForwardClose", NoName,
                            [serial |-> serial, ot |-> 0, to |-> 0, seq |-> 0])
    <2>1. /\ cxnState = "Open" /\ cxnState' = "Closing"
          /\ msgTx' = Units(f) /\ msgRx' = <<>> /\ sentContext' = context
          /\ UNCHANGED <<serial, cxnTx>>
        BY <1>1, <1>4 DEF CxnClose, MsgSend, StartSend, idVars, sendVars, cxnVars
    <2>2. f \in Packet /\ f.svc = "ForwardClose" /\ f.conn.serial = serial
        BY <1>0 DEF Request, Packet, Command, Service, ConnRef
    <2> HIDE DEF f
    <2>3. AskedOnce' /\ Unanswered'
        BY <1>2, <2>1, <2>2, NewRequestOnce
    <2>4. ASSUME NEW j \in Nat PROVE [f |-> f, i |-> j] \in Kept'
        BY <2>1, <2>2 DEF Kept, KeptOK, Unit
    <2>5. msgTx' \in Seq(Kept')
        BY <2>1, <2>2, <2>4, PacketUnits
    <2>6. Requests \cap Kept \subseteq Kept'
        <3> SUFFICES ASSUME NEW u \in Requests \cap Kept PROVE u \in Kept'
            OBVIOUS
        <3>1. /\ u \in Unit /\ u.f.ctx \in Nat
              /\ u.f.cmd = "SendRRData" => u.f.ctx < context
              /\ u.f.svc = "ForwardOpen" /\ u.f.conn.serial = serial => u.i # 1
            BY <2>1 DEF Requests, RequestOK, Unit, Packet, Kept, KeptOK
        <3>2. u.f.cmd = "SendRRData" => u.f.ctx # sentContext'
            BY <1>0, <2>1, <3>1
        <3> QED BY <2>1, <3>1, <3>2 DEF Kept, KeptOK, Asked
    <2>7. out' \in Seq(Kept') /\ srvIn' \in Seq(Kept')
        <3>1. out \in Seq(Requests \cap Kept) /\ srvIn \in Seq(Requests \cap Kept)
            BY Share DEF IdsInv, AllRequests, ReleaseKnown, AllKept
        <3> QED BY <1>2, <2>6, <3>1, Widen
    <2>8. cxnTx' \in Seq(CxnUnits')
        BY <2>1 DEF ReleaseKnown, CxnUnits
    <2>9. NoSuccess'
        <3>1. Unanswered' => NoSuccess'
            BY NoAnswerNoSuccess, PTL
        <3> QED BY <2>3, <3>1
    <2> QED BY <1>2, <2>1, <2>3, <2>5, <2>7, <2>8, <2>9 DEF ReleaseKnown, AllKept
<1> QED BY <1>3, <1>4

(* send() (Connection.cpp:177-232).                                        *)
LEMMA SendRelease ==
    ASSUME ReleaseInv, AppSend
    PROVE  ReleaseKnown'
<1> USE DEF ReleaseInv
<1>0. /\ cxnContext \in Nat /\ connNo \in Nat /\ CxnReqLen \in Nat
      /\ otId \in Nat /\ sequence \in Nat
    BY CxnAssumption DEF IdsInv, IInv, CxnOK, CxnTypeOK, StreamOK, TcpTypeOK
<1>1. PICK st \in Status, valid \in BOOLEAN : CxnSend(connNo, valid, st)
    BY DEF AppSend
<1>2. UNCHANGED <<in, out, srvIn, wire, held, connNo, srvConn, msgState, msgTx, msgRx,
                  sentContext>>
    BY DEF AppSend, tcpVars, msgVars, peerVars, srvVars, connVars
<1>3. CASE UNCHANGED cxnVars
    BY <1>2, <1>3, ReleaseStays DEF cxnVars, idVars, sendVars
<1>4. CASE ~UNCHANGED cxnVars
    <2> DEFINE f == ConnectedRequest(connNo)
    <2>1. /\ cxnState = "Open" /\ cxnState' = "Sending" /\ cxnTx' = Units(f) /\ serial' = serial
        BY <1>1, <1>4 DEF CxnSend, idVars
    <2>2. f \in Packet /\ f.cmd = "SendUnitData" /\ f.svc = "Read"
        BY <1>0 DEF ConnectedRequest, Packet, Command, Service, ConnRef
    <2> HIDE DEF f
    <2>3. cxnTx' \in Seq(CxnUnits')
        <3>1. \A j \in Nat : [f |-> f, i |-> j] \in CxnUnits'
            BY <2>2 DEF CxnUnits, Unit
        <3> QED BY <2>1, <2>2, <3>1, PacketUnits
    <2>4. Unanswered => Unanswered'
        BY <1>2, AskedStays DEF Unanswered
    <2>5. AskedOnce'
        BY <1>2, <2>4, StreamOnce DEF ReleaseKnown
    <2>6. Kept \subseteq Kept'
        BY <1>2, <2>1 DEF Kept, KeptOK
    <2>7. AllKept'
        BY <1>2, <2>6, Widen DEF ReleaseKnown, AllKept
    <2> QED BY <1>2, <2>1, <2>3, <2>5, <2>7 DEF ReleaseKnown
<1> QED BY <1>3, <1>4

(* A poll of the message keeps what is known of its request.               *)
LEMMA PollKept ==
    ASSUME ReleaseInv, NEW s, MsgPoll(s), wire' = wire, srvIn' = srvIn
    PROVE  /\ AskedOnce' /\ (NoSuccess => NoSuccess') /\ sentContext' = sentContext
           /\ msgTx' \in Seq(Kept) /\ out' \in Seq(Kept) /\ srvIn' \in Seq(Kept)
           /\ connNo' = connNo
<1> USE DEF ReleaseInv
<1>1. MsgOK /\ StreamOK /\ msgTx \in Seq(Unit) /\ out \in Seq(Unit)
    BY DEF IdsInv, IInv, MsgOK, MsgTypeOK, StreamOK, SrvTypeOK
<1>2. sentContext' = sentContext
    BY PollKeepsContext
<1>3. (Unanswered => Unanswered') /\ (NoSuccess => NoSuccess')
    BY PollUnanswered, PollNoSuccess
<1>4. \/ msgTx' = msgTx /\ out' = out
      \/ \E n \in 1..Len(msgTx) : /\ msgTx' = SubSeq(msgTx, n + 1, Len(msgTx))
                                  /\ out' = out \o SubSeq(msgTx, 1, n)
    BY <1>1, PollSplits
<1>5. AskedOnce'
    BY <1>1, <1>2, <1>3, <1>4, MessageSendsOnce DEF ReleaseKnown
<1>6. Kept \in SUBSET Unit
    BY DEF Kept
<1>7. msgTx' \in Seq(Kept) /\ out' \in Seq(Kept) /\ connNo' = connNo
    BY <1>1, <1>6, PollSends DEF ReleaseKnown, AllKept
<1> QED BY <1>2, <1>3, <1>5, <1>7 DEF ReleaseKnown, AllKept

(* poll() while opening (Connection.cpp:247-275): the Forward Open that is *)
(* answered is gone, and will not open the connection again.               *)
LEMMA PollOpeningRelease ==
    ASSUME ReleaseInv, NEW st, PollOpening(st), UNCHANGED peerVars
    PROVE  ReleaseKnown'
<1> USE DEF ReleaseInv
<1>1. PICK s : MsgPoll(s) /\ (cxnState' \in {"Opening", "Failed"} \/ (s = "Ok" /\ cxnState' = "Open"))
    BY DEF PollOpening
<1>2. /\ cxnState = "Opening" /\ MsgInFlight
      /\ UNCHANGED <<serial, cxnTx, held, srvIn, srvConn, wire>>
    BY DEF PollOpening, IdsInv, IInv, OneReceiver, sendVars, peerVars, srvVars, connVars
<1>3. /\ AskedOnce' /\ sentContext' = sentContext
      /\ msgTx' \in Seq(Kept) /\ out' \in Seq(Kept) /\ srvIn' \in Seq(Kept) /\ connNo' = connNo
    BY <1>1, <1>2, PollKept
<1>4. cxnTx' \in Seq(CxnUnits') /\ srvConn' <= connNo' /\ \A h \in held' : h.conn <= connNo'
    BY <1>2, <1>3 DEF ReleaseKnown, CxnUnits
<1>5. AllKept'
    <2>1. CASE cxnState' \in {"Opening", "Failed"}
        <3>1. Kept \subseteq Kept'
            BY <1>2, <1>3, <2>1 DEF Kept, KeptOK, Asked
        <3> QED BY <1>3, <3>1, Widen DEF AllKept
    <2>2. CASE s = "Ok" /\ cxnState' = "Open"
        <3>1. ~Unanswered'
            BY <1>1, <1>2, <2>2, OkIsAnswered
        <3>2. msgTx' \in Seq(Rest') /\ out' \in Seq(Rest') /\ srvIn' \in Seq(Rest')
            BY <1>3, <3>1 DEF AskedOnce
        <3>3. Rest' = Rest
            BY <1>3, AskedStays
        <3>4. /\ msgTx' \in Seq(Kept \cap Rest) /\ out' \in Seq(Kept \cap Rest)
              /\ srvIn' \in Seq(Kept \cap Rest)
            BY <1>3, <3>2, <3>3, Share
        <3>5. Kept \cap Rest \subseteq Kept'
            BY <1>2, <1>3, <2>2 DEF Kept, KeptOK, Rest, Asked
        <3> QED BY <3>4, <3>5, Widen DEF AllKept
    <2> QED BY <1>1, <2>1, <2>2
<1> QED BY <1>1, <1>3, <1>4, <1>5 DEF ReleaseKnown

(* poll() while closing (Connection.cpp:302-313): Ok is the answer to the  *)
(* Forward Close, and where that one does not refuse it the PLC holds      *)
(* nothing of the connection any more.                                     *)
LEMMA PollClosingRelease ==
    ASSUME ReleaseInv, NEW st, PollClosing(st), UNCHANGED peerVars
    PROVE  ReleaseKnown'
<1> USE DEF ReleaseInv
<1>1. /\ MsgPoll(st) /\ cxnState = "Closing" /\ MsgInFlight
      /\ cxnState' = CASE st = "Pending" -> "Closing"
                       [] st = "Ok"      -> "Closed"
                       [] OTHER          -> "Failed"
      /\ UNCHANGED <<serial, cxnTx, held, srvIn, srvConn, wire>>
    BY DEF PollClosing, IdsInv, IInv, OneReceiver, idVars, sendVars, peerVars, srvVars, connVars
<1>2. cxnState' \in {"Closing", "Closed", "Failed"} /\ (cxnState' = "Closed" => st = "Ok")
    BY <1>1
<1>3. /\ AskedOnce' /\ (NoSuccess => NoSuccess') /\ sentContext' = sentContext
      /\ msgTx' \in Seq(Kept) /\ out' \in Seq(Kept) /\ srvIn' \in Seq(Kept) /\ connNo' = connNo
    BY <1>1, PollKept
<1>4. cxnTx' \in Seq(CxnUnits') /\ srvConn' <= connNo' /\ \A h \in held' : h.conn <= connNo'
    BY <1>1, <1>3 DEF ReleaseKnown, CxnUnits
<1>5. AllKept'
    <2>1. Kept \subseteq Kept'
        BY <1>1, <1>2, <1>3 DEF Kept, KeptOK, Asked
    <2> QED BY <1>3, <2>1, Widen DEF AllKept
<1>6. Released => Released'
    BY <1>1, <1>3 DEF Released
<1>7. cxnState' = "Closed" => Released' \/ CloseRefused'
    <2>1. st = "Ok" /\ NoSuccess => CloseRefused'
        BY <1>1, OkIsRefused
    <2> QED BY <1>1, <1>2, <1>6, <2>1 DEF ReleaseKnown
<1>8. NoSuccess' \/ Released'
    BY <1>1, <1>3, <1>6 DEF ReleaseKnown
<1> QED BY <1>3, <1>4, <1>5, <1>7, <1>8 DEF ReleaseKnown

(* poll() while a connected request waits (Connection.cpp:277-300).        *)
LEMMA PollSendingRelease ==
    ASSUME ReleaseInv, NEW st, PollSending(st), UNCHANGED peerVars
    PROVE  ReleaseKnown'
<1> USE DEF ReleaseInv
<1>1. /\ cxnState = "Sending" /\ cxnState' \in {"Sending", "Open", "Failed"}
      /\ UNCHANGED <<serial, sentContext, msgTx, msgRx, held, srvIn, srvConn, wire, connNo>>
    BY DEF PollSending, CxnTimeout, CxnAdvance, idVars, msgVars, tcpVars, peerVars, srvVars,
           connVars
<1>2. Kept \subseteq Kept'
    BY <1>1 DEF Kept, KeptOK, Asked
<1>3. CASE CxnTimeout(st)
    <2>1. UNCHANGED <<in, out, cxnTx>>
        BY <1>3 DEF CxnTimeout, sendVars, tcpVars
    <2>2. Unanswered => Unanswered'
        BY <1>1, <2>1, AskedStays DEF Unanswered
    <2>3. AskedOnce'
        BY <1>1, <2>1, <2>2, StreamOnce DEF ReleaseKnown
    <2>4. AllKept'
        BY <1>1, <1>2, <2>1, Widen DEF ReleaseKnown, AllKept
    <2> QED BY <1>1, <2>1, <2>3, <2>4 DEF ReleaseKnown, CxnUnits
<1>4. CASE CxnAdvance(st)
    <2>1. PICK r \in Advance(cxnTx, cxnRx, cxnWant, CxnMaxBody) :
             cxnTx' = r.tx /\ out' = r.out /\ in' = r.in
        BY <1>4 DEF CxnAdvance
    <2>2. /\ cxnTx \in Seq(Unit) /\ cxnRx \in Seq(Unit) /\ cxnWant \in Nat /\ CxnMaxBody \in Nat
          /\ Len(cxnRx) <= cxnWant /\ cxnWant <= HeaderLen + CxnMaxBody
          /\ in \in Seq(Unit) /\ out \in Seq(Unit) /\ Len(out) <= SndBuf
          /\ tcpState \in {"Closed", "Pending", "Ok"}
        BY CxnAssumption
           DEF IdsInv, IInv, CxnOK, CxnTypeOK, StreamOK, TcpTypeOK, SrvTypeOK
    <2>3. in \in Seq(Others) => in' \in Seq(Others)
        BY <2>1, <2>2, UnitSets, AdvanceType
    <2>4. Unanswered => Unanswered'
        BY <1>1, <2>3, AskedStays DEF Unanswered
    <2>5. PICK n \in 0..Len(cxnTx) : /\ cxnTx' = SubSeq(cxnTx, n + 1, Len(cxnTx))
                                     /\ out' = out \o SubSeq(cxnTx, 1, n)
        <3>1. /\ cxnTx \in Seq(Unit) /\ cxnRx \in Seq(Unit) /\ cxnWant \in Nat
              /\ CxnMaxBody \in Nat /\ out \in Seq(Unit) /\ Len(out) <= SndBuf
            BY <2>2
        <3>2. \E n \in 0..Len(cxnTx) : /\ r.tx = SubSeq(cxnTx, n + 1, Len(cxnTx))
                                       /\ r.out = out \o SubSeq(cxnTx, 1, n)
            BY <3>1, AdvanceSplits, ZenonT(60)
        <3>3. cxnTx' = r.tx /\ out' = r.out
            BY <2>1
        <3> QED BY <3>2, <3>3, Zenon
    <2> DEFINE a == SubSeq(cxnTx, 1, n)
    <2>6. cxnTx \in Seq(CxnUnits)
        BY DEF ReleaseKnown
    <2>7. a \in Seq(CxnUnits) /\ cxnTx' \in Seq(CxnUnits) /\ out' = out \o a
        BY <2>5, <2>6, SplitType
    <2> HIDE DEF a
    <2>8. AskedOnce'
        BY <1>1, <2>2, <2>4, <2>7, ConnectionSendsOnce DEF ReleaseKnown
    <2>9. CxnUnits \subseteq Kept
        BY <1>1 DEF CxnUnits, Kept, KeptOK, Asked
    <2>10. AllKept'
        <3>1. a \in Seq(Kept) /\ out \in Seq(Kept)
            BY <2>7, <2>9, Widen DEF ReleaseKnown, AllKept
        <3>2. out' \in Seq(Kept)
            BY <2>7, <3>1
        <3> QED BY <1>1, <1>2, <3>2, Widen DEF ReleaseKnown, AllKept
    <2>11. cxnTx' \in Seq(CxnUnits')
        BY <2>7 DEF CxnUnits
    <2> QED BY <1>1, <2>8, <2>10, <2>11 DEF ReleaseKnown
<1> QED BY <1>3, <1>4 DEF PollSending

(* poll() (Connection.cpp:234-245).                                        *)
LEMMA PollRelease ==
    ASSUME ReleaseInv, AppPoll
    PROVE  ReleaseKnown'
<1>1. PICK st \in PollStatus : CxnPoll(st)
    BY DEF AppPoll
<1>2. UNCHANGED peerVars
    BY DEF AppPoll
<1>3. CASE CxnSettled(st)
    <2>1. UNCHANGED <<cxnVars, msgVars, tcpVars, peerVars>>
        BY <1>2, <1>3 DEF CxnSettled
    <2> QED BY <2>1, ReleaseStays DEF ReleaseInv, cxnVars, idVars, sendVars, msgVars, tcpVars,
                                      peerVars, srvVars, connVars
<1>4. CASE ~CxnSettled(st)
    BY <1>1, <1>2, <1>4, PollOpeningRelease, PollSendingRelease, PollClosingRelease DEF CxnPoll
<1> QED BY <1>3, <1>4
-----------------------------------------------------------------------------
(* A step that leaves the client and the connections of the PLC alone, and *)
(* answers nothing.                                                        *)
LEMMA PeerRelease ==
    ASSUME ReleaseInv,
           UNCHANGED <<sentContext, serial, cxnState, msgState, msgTx, msgRx, cxnTx, held>>,
           srvConn' <= connNo', connNo' \in Nat, connNo <= connNo',
           out' \in Seq(Kept), srvIn' \in Seq(Kept), AskedOnce', NoSuccess => NoSuccess'
    PROVE  ReleaseKnown'
<1>0. connNo \in Nat /\ \A h \in held : h.conn \in Nat /\ h.conn <= connNo
    BY DEF ReleaseInv, ReleaseKnown, IdsInv, IInv, StreamOK, TcpTypeOK, ConnTypeOK
<1>1. Kept' = Kept
    BY DEF Kept, KeptOK, Asked
<1>2. AllKept'
    BY <1>1 DEF ReleaseInv, ReleaseKnown, AllKept
<1>3. \A h \in held' : h.conn <= connNo'
    BY <1>0
<1>4. Released => Released'
    <2>1. ASSUME Released, NEW h \in held, h.conn = connNo' PROVE h.serial # serial
        BY <1>0, <2>1 DEF Released
    <2> QED BY <2>1 DEF Released
<1>5. cxnTx' \in Seq(CxnUnits')
    BY DEF ReleaseInv, ReleaseKnown, CxnUnits
<1>6. CloseRefused' <=> CloseRefused
    BY DEF CloseRefused, MsgReply
<1> QED BY <1>2, <1>3, <1>4, <1>5, <1>6 DEF ReleaseInv, ReleaseKnown

(* The operations of the TCP connection, and deadlines.                    *)
LEMMA QuietRelease ==
    ASSUME ReleaseInv, AppConnect \/ AppClose \/ AppPollTcp \/ Tick \/ UNCHANGED vars
    PROVE  ReleaseKnown'
<1>0. /\ StreamOK /\ connNo \in Nat /\ srvConn \in Nat
      /\ srvConn <= connNo /\ AskedOnce /\ AllKept
    BY DEF ReleaseInv, ReleaseKnown, IdsInv, IInv, StreamOK, TcpTypeOK, SrvTypeOK
<1>1. UNCHANGED <<judged, held, msgState, msgTx, msgRx, cxnTx, srvIn, wire, srvConn>>
    <2>1. CASE AppConnect \/ AppClose \/ AppPollTcp \/ UNCHANGED vars
        <3>1. UNCHANGED <<msgVars, cxnVars, peerVars>>
            BY <2>1 DEF AppConnect, AppClose, AppPollTcp, vars, peerVars
        <3> QED BY <3>1, ClientStays DEF msgVars, peerVars, srvVars, connVars
    <2>2. CASE TcpDeadline /\ UNCHANGED <<msgVars, cxnVars, peerVars, got>>
        BY <2>2, ClientStays DEF msgVars, peerVars, srvVars, connVars
    <2>3. CASE MsgDeadline /\ UNCHANGED <<tcpVars, cxnVars, peerVars, got>>
        BY <2>3 DEF MsgDeadline, cxnVars, idVars, sendVars, judged, peerVars, srvVars, connVars
    <2>4. CASE CxnDeadline /\ UNCHANGED <<tcpVars, msgVars, peerVars, got>>
        BY <2>4 DEF CxnDeadline, msgVars, idVars, judged, peerVars, srvVars, connVars
    <2> QED BY <2>1, <2>2, <2>3, <2>4 DEF Tick
<1>2. /\ UNCHANGED <<sentContext, serial, cxnState, msgState, msgTx, msgRx, cxnTx, held>>
      /\ UNCHANGED <<srvIn, wire, srvConn>>
    BY <1>1 DEF judged
<1>3. (out' = out /\ in' = in) \/ (out' = <<>> /\ in' = <<>>)
    <2>1. CASE AppConnect
        BY <2>1 DEF AppConnect, TcpConnect, TcpClose, tcpVars
    <2>2. CASE AppClose
        BY <2>2 DEF AppClose, TcpClose
    <2>3. CASE AppPollTcp
        BY <2>3 DEF AppPollTcp, TcpPoll, TcpClose, tcpVars
    <2>4. CASE Tick \/ UNCHANGED vars
        BY <2>4 DEF Tick, TcpDeadline, vars, tcpVars
    <2> QED BY <2>1, <2>2, <2>3, <2>4
<1>4. connNo' \in Nat /\ connNo <= connNo'
    <2>1. CASE AppConnect
        BY <1>0, <2>1, TcpDrops DEF AppConnect
    <2>2. CASE AppClose \/ AppPollTcp
        BY <1>0, <2>2 DEF AppClose, AppPollTcp, TcpClose, TcpPoll, tcpVars
    <2>3. CASE Tick \/ UNCHANGED vars
        BY <1>0, <2>3 DEF Tick, TcpDeadline, vars, tcpVars
    <2> QED BY <2>1, <2>2, <2>3
<1>5. srvConn' <= connNo'
    BY <1>0, <1>2, <1>4
<1>6. (Unanswered => Unanswered') /\ (NoSuccess => NoSuccess')
    BY <1>2, <1>3, AskedStays, EmptyType DEF Unanswered, NoSuccess
<1>7. AskedOnce'
    BY <1>0, <1>2, <1>3, <1>6, StreamOnce
<1>8. out' \in Seq(Kept) /\ srvIn' \in Seq(Kept)
    BY <1>0, <1>2, <1>3, EmptyType DEF AllKept
<1> QED BY <1>2, <1>4, <1>5, <1>6, <1>7, <1>8, PeerRelease

(* The PLC and the network, short of the handling of a request.            *)
LEMMA NetworkRelease ==
    ASSUME ReleaseInv, ConnNext, ~ConnHandle, UNCHANGED <<msgVars, cxnVars>>
    PROVE  ReleaseKnown'
<1>0. /\ connNo \in Nat /\ srvConn <= connNo /\ AskedOnce
      /\ out \in Seq(Unit) /\ srvIn \in Seq(Unit)
      /\ out \in Seq(Kept) /\ srvIn \in Seq(Kept)
    BY DEF ReleaseInv, ReleaseKnown, AllKept, IdsInv, IInv, StreamOK, TcpTypeOK, SrvTypeOK
<1>1. UNCHANGED <<sentContext, serial, cxnState, msgState, msgTx, msgRx, cxnTx>>
    BY ClientStays DEF judged, msgVars
<1>2. held' = held
    BY DEF ConnNext, connVars
<1>3. connNo' = connNo /\ srvConn' <= connNo'
    BY <1>0 DEF ConnNext, Establish, PeerResets, SrvAccept, SrvReceive, SrvMisread, Deliver,
                PeerCloses, srvVars, tcpVars
<1>4. /\ \/ out' = out /\ srvIn' \in {srvIn, <<>>}
         \/ out # <<>> /\ out' = Tail(out) /\ srvIn' \in {NextIn, <<>>}
      /\ \/ in' = in /\ wire' \in {wire, <<>>}
         \/ wire # <<>> /\ in' = Append(in, Head(wire)) /\ wire' = Tail(wire)
    BY DEF ConnNext, Establish, PeerResets, SrvAccept, SrvReceive, SrvMisread, Deliver,
           PeerCloses, srvVars, tcpVars
<1>5. (Unanswered => Unanswered') /\ (NoSuccess => NoSuccess')
    <2>1. ASSUME Unanswered PROVE in' \in Seq(Others) /\ wire' \in Seq(Others)
        BY <1>4, <2>1, EmptyType, MoveType DEF Unanswered
    <2>2. ASSUME NoSuccess PROVE in' \in Seq(Refusals) /\ wire' \in Seq(Refusals)
        BY <1>4, <2>2, EmptyType, MoveType DEF NoSuccess
    <2> QED BY <1>1, <2>1, <2>2, AskedStays DEF Unanswered, NoSuccess
<1>6. AskedOnce'
    <2>1. CASE out' = out /\ srvIn' \in {srvIn, <<>>}
        BY <1>0, <1>1, <1>5, <2>1, StreamOnce
    <2>2. CASE out # <<>> /\ out' = Tail(out) /\ srvIn' \in {NextIn, <<>>}
        BY <1>0, <1>1, <1>5, <2>2, PlcTakesOnce
    <2> QED BY <1>4, <2>1, <2>2
<1>7. out' \in Seq(Kept) /\ srvIn' \in Seq(Kept)
    BY <1>0, <1>4, EmptyType, MoveType DEF NextIn
<1> QED BY <1>0, <1>1, <1>2, <1>3, <1>5, <1>6, <1>7, PeerRelease

(* Units put on the wire that are no answer to the last request.           *)
LEMMA OthersOnWire ==
    ASSUME Unanswered, UNCHANGED <<sentContext, in, msgRx>>, NEW f \in Packet,
           ~(f.cmd = "SendRRData" /\ f.ctx = sentContext), wire' = wire \o Units(f)
    PROVE  Unanswered'
<1>1. \A j \in Nat : [f |-> f, i |-> j] \in Others
    BY DEF Others, Asked, Unit
<1> DEFINE a == Units(f)
<1>2. a \in Seq(Others) /\ wire' = wire \o a
    BY <1>1, PacketUnits
<1> HIDE DEF a
<1>3. wire' \in Seq(Others)
    BY <1>2 DEF Unanswered
<1> QED BY <1>3, AskedStays DEF Unanswered

(* Units put on the wire that do not say that the last request was granted.*)
LEMMA RefusalOnWire ==
    ASSUME NoSuccess, UNCHANGED <<sentContext, in, msgRx>>, NEW f \in Packet,
           f.cmd = "SendRRData" /\ f.ctx = sentContext =>
              f.kind \in {"cipError", "encapError", "malformed"},
           wire' = wire \o Units(f)
    PROVE  NoSuccess'
<1>1. \A j \in Nat : [f |-> f, i |-> j] \in Refusals
    BY DEF Refusals, Asked, Unit
<1> DEFINE a == Units(f)
<1>2. a \in Seq(Refusals) /\ wire' = wire \o a
    BY <1>1, PacketUnits
<1> HIDE DEF a
<1>3. wire' \in Seq(Refusals)
    BY <1>2 DEF NoSuccess
<1> QED BY <1>3, AskedStays DEF NoSuccess

(* Connected data nobody asked for does not answer the message.            *)
LEMMA StrayRelease ==
    ASSUME ReleaseInv, PlcStray, UNCHANGED <<msgVars, cxnVars>>
    PROVE  ReleaseKnown'
<1>0. /\ connNo \in Nat /\ srvConn <= connNo /\ AskedOnce
      /\ out \in Seq(Kept) /\ srvIn \in Seq(Kept)
    BY DEF ReleaseInv, ReleaseKnown, AllKept, IdsInv, IInv, StreamOK, TcpTypeOK
<1>1. UNCHANGED <<sentContext, serial, cxnState, msgState, msgTx, msgRx, cxnTx>>
    BY ClientStays DEF judged, msgVars
<1>2. UNCHANGED <<in, out, connNo, srvIn, srvConn, held>>
    BY DEF PlcStray, Stray, tcpVars
<1>3. PICK c \in 1..(cxnContext - 1), to \in AnyToId, seq \in AnySeq :
         wire' = wire \o Units([cmd |-> "SendUnitData", sess |-> connNo, ctx |-> c,
                                len |-> ReplyLen, kind |-> "ok", svc |-> "Read",
                                name |-> NoName,
                                conn |-> [serial |-> 0, ot |-> 0, to |-> to, seq |-> seq]])
    BY DEF PlcStray, Stray
<1> DEFINE f == [cmd |-> "SendUnitData", sess |-> connNo, ctx |-> c,
                 len |-> ReplyLen, kind |-> "ok", svc |-> "Read", name |-> NoName,
                 conn |-> [serial |-> 0, ot |-> 0, to |-> to, seq |-> seq]]
<1>4. c \in Nat /\ to \in Nat /\ seq \in Nat /\ ReplyLen \in Nat
    BY ConnServerAssumption, ServerAssumption
       DEF ReleaseInv, IdsInv, IInv, CxnOK, CxnTypeOK
<1>5. f \in Packet /\ f.cmd = "SendUnitData" /\ wire' = wire \o Units(f)
    BY <1>0, <1>3, <1>4 DEF Packet, Command, ReplyKind, Service, ConnRef
<1> HIDE DEF f
<1>6. (Unanswered => Unanswered') /\ (NoSuccess => NoSuccess')
    BY <1>1, <1>2, <1>5, OthersOnWire, RefusalOnWire
<1>7. AskedOnce'
    BY <1>0, <1>1, <1>2, <1>6, StreamOnce
<1> QED BY <1>0, <1>1, <1>2, <1>6, <1>7, PeerRelease

(* What the PLC answers a request with is an answer to that request.       *)
LEMMA HandleReplies ==
    ASSUME IdsInv, ConnHandle
    PROVE  /\ Consume /\ Request1 \in Packet
           /\ \E replies \in SUBSET Packet :
                 /\ Respond(replies)
                 /\ \A r \in replies : r.cmd = Request1.cmd /\ r.ctx = Request1.ctx
<1> DEFINE req == Request1
           Answering(replies) == /\ replies \in SUBSET Packet /\ Respond(replies)
                                 /\ \A r \in replies : r.cmd = req.cmd /\ r.ctx = req.ctx
<1>1. Consume
    BY DEF ConnHandle, OpenConn, CloseConn, UnitData
<1>2. req \in Packet /\ connNo \in Nat /\ srvConn \in Nat
    BY <1>1, RequestJudged DEF IdsInv, IInv, StreamOK, TcpTypeOK, SrvTypeOK
<1>3. CASE OpenConn
    <2>1. RefOf(Grant(req), 0) \in ConnRef
        BY <1>2, GrantType, RefType
    <2>2. WrongIds(req) \in SUBSET ConnRef
        BY <1>2, WrongIdsType
    <2> DEFINE granted == Replies(req, ReplyKinds \cap {"ok"}, {RefOf(Grant(req), 0)})
               refused == Replies(req, ReplyKinds \ {"ok"}, {NoConn})
                          \cup Replies(req, ReplyKinds \cap {"ok"}, WrongIds(req))
    <2>3. Respond(granted) \/ Respond(refused)
        BY <1>3 DEF OpenConn
    <2>4. \A r \in granted : r \in Packet /\ r.cmd = req.cmd /\ r.ctx = req.ctx
        <3> HIDE DEF req
        <3> QED BY <1>2, <2>1, ReplyFields
    <2>5. \A r \in refused : r \in Packet /\ r.cmd = req.cmd /\ r.ctx = req.ctx
        <3> HIDE DEF req
        <3> QED BY <1>2, <2>2, NoConnType, ReplyFields
    <2> HIDE DEF granted, refused
    <2>6. Answering(granted) \/ Answering(refused)
        BY <2>3, <2>4, <2>5
    <2> QED BY <1>1, <1>2, <2>6
<1>4. CASE CloseConn
    <2>1. PICK done \in SUBSET ReplyKinds : Respond(Replies(req, done, {NoConn}))
        BY <1>4 DEF CloseConn
    <2> DEFINE replies == Replies(req, done, {NoConn})
    <2>2. \A r \in replies : r \in Packet /\ r.cmd = req.cmd /\ r.ctx = req.ctx
        <3> HIDE DEF req
        <3> QED BY <1>2, NoConnType, ReplyFields
    <2> HIDE DEF replies
    <2>3. Answering(replies)
        BY <2>1, <2>2 DEF replies
    <2> QED BY <1>1, <1>2, <2>3
<1>5. CASE UnitData
    <2> DEFINE replies == UNION {Replies(req, ReplyKinds, {RefOf(h, req.conn.seq)})
                                   : h \in {g \in OnThis : g.ot = req.conn.ot}}
    <2>1. Respond(replies)
        BY <1>5 DEF UnitData
    <2>2. ASSUME NEW r \in replies
          PROVE  r \in Packet /\ r.cmd = req.cmd /\ r.ctx = req.ctx
        <3>1. PICK h \in OnThis : r \in Replies(req, ReplyKinds, {RefOf(h, req.conn.seq)})
            OBVIOUS
        <3>2. RefOf(h, req.conn.seq) \in ConnRef
            BY <1>2, RefType DEF OnThis, IdsInv, IInv, ConnTypeOK, Packet, ConnRef
        <3> HIDE DEF req
        <3> QED BY <1>2, <3>1, <3>2, ReplyFields
    <2> HIDE DEF replies
    <2>3. Answering(replies)
        BY <2>1, <2>2
    <2> QED BY <1>1, <1>2, <2>3
<1> QED BY <1>3, <1>4, <1>5 DEF ConnHandle

(* The PLC handles a request: if it is the last one of the message, that   *)
(* one is gone now; if not, what it says is no answer to the last one.     *)
LEMMA HandleOnce ==
    ASSUME ReleaseInv, ConnHandle, UNCHANGED <<msgVars, cxnVars>>
    PROVE  /\ AskedOnce'
           /\ NoSuccess => NoSuccess' \/ (Request1.cmd = "SendRRData" /\ Request1.ctx = sentContext)
           /\ \E u \in Kept : u.f = Request1 /\ u.i = 1
           /\ out' \in Seq(Kept) /\ srvIn' \in Seq(Kept)
<1>0. /\ AskedOnce /\ out \in Seq(Unit) /\ srvIn \in Seq(Unit)
      /\ out \in Seq(Kept) /\ srvIn \in Seq(Kept)
    BY DEF ReleaseInv, ReleaseKnown, AllKept, IdsInv, IInv, StreamOK, SrvTypeOK
<1>1. UNCHANGED <<sentContext, msgTx, msgRx>>
    BY ClientStays DEF judged
<1>2. Consume /\ Request1 \in Packet
    BY HandleReplies DEF ReleaseInv
<1>3. PICK replies \in SUBSET Packet :
         /\ Respond(replies)
         /\ \A r \in replies : r.cmd = Request1.cmd /\ r.ctx = Request1.ctx
    BY HandleReplies DEF ReleaseInv
<1>4. /\ out # <<>> /\ out' = Tail(out) /\ srvIn' = <<>> /\ in' = in
      /\ Continues(NextIn)
    BY <1>2 DEF Consume
<1>5. NextIn \in Seq(Kept) /\ Len(NextIn) > 0 /\ Len(NextIn) \in Nat
    BY <1>0, <1>4, MoveType DEF NextIn
<1>6. NextIn[1] \in Kept /\ NextIn[1].f = Request1 /\ NextIn[1].i = 1
    <2>1. 1 \in 1..Len(NextIn)
        BY <1>5
    <2>2. NextIn[1] = [f |-> NextIn[1].f, i |-> 1]
        BY <1>4, <2>1 DEF Continues
    <2> QED BY <1>5, <2>1, <2>2 DEF Request1
<1>7. Request1.cmd = "SendRRData" /\ Request1.ctx = sentContext => NextIn \notin Seq(Rest)
    <2> SUFFICES ASSUME Request1.cmd = "SendRRData", Request1.ctx = sentContext,
                        NextIn \in Seq(Rest)
                 PROVE  FALSE
        OBVIOUS
    <2>1. NextIn[1] \in Rest
        BY <1>5
    <2> QED BY <1>6, <2>1 DEF Rest, Asked
<1>8. Unanswered => Unanswered' \/ (Request1.cmd = "SendRRData" /\ Request1.ctx = sentContext)
    <2>1. CASE wire' = wire
        BY <1>1, <1>4, <2>1, AskedStays DEF Unanswered
    <2>2. ASSUME NEW r \in replies, wire' = wire \o Units(r)
          PROVE  Unanswered => Unanswered'
                    \/ (Request1.cmd = "SendRRData" /\ Request1.ctx = sentContext)
        BY <1>1, <1>3, <1>4, <2>2, OthersOnWire
    <2> QED BY <1>3, <2>1, <2>2 DEF Respond
<1>9. AskedOnce'
    BY <1>0, <1>1, <1>4, <1>7, <1>8, PlcTakesOnce
<1>10. out' \in Seq(Kept) /\ srvIn' \in Seq(Kept)
    BY <1>0, <1>4, EmptyType, MoveType
<1>11. NoSuccess => NoSuccess' \/ (Request1.cmd = "SendRRData" /\ Request1.ctx = sentContext)
    <2>1. CASE wire' = wire
        BY <1>1, <1>4, <2>1, AskedStays DEF NoSuccess
    <2>2. ASSUME NEW r \in replies, wire' = wire \o Units(r)
          PROVE  NoSuccess => NoSuccess'
                    \/ (Request1.cmd = "SendRRData" /\ Request1.ctx = sentContext)
        BY <1>1, <1>3, <1>4, <2>2, RefusalOnWire
    <2> QED BY <1>3, <2>1, <2>2 DEF Respond
<1> QED BY <1>6, <1>9, <1>10, <1>11

(* The PLC handles a request (synthetic_eip_server.py:209-223, 288-360):   *)
(* the one waited for while closing is the Forward Close; it lets go of    *)
(* what it holds under the serial number, and no Forward Open brings that  *)
(* back, or it refuses, and says so.                                       *)
LEMMA HandleRelease ==
    ASSUME ReleaseInv, ConnHandle, UNCHANGED <<msgVars, cxnVars>>
    PROVE  ReleaseKnown'
<1>0. connNo \in Nat /\ srvConn \in Nat /\ srvConn <= connNo /\ \A h \in held : h.conn <= connNo
    BY DEF ReleaseInv, ReleaseKnown, IdsInv, IInv, StreamOK, TcpTypeOK, SrvTypeOK
<1>1. UNCHANGED <<sentContext, serial, cxnState, msgState, msgTx, msgRx, cxnTx>>
    BY ClientStays DEF judged, msgVars
<1>2. /\ AskedOnce' /\ out' \in Seq(Kept) /\ srvIn' \in Seq(Kept)
      /\ NoSuccess => NoSuccess' \/ (Request1.cmd = "SendRRData" /\ Request1.ctx = sentContext)
    BY HandleOnce
<1>3. PICK u \in Kept : u.f = Request1 /\ u.i = 1
    BY HandleOnce
<1>4. Serving /\ connNo' = connNo /\ srvConn' = srvConn
    BY HandleReplies DEF ReleaseInv, Consume
<1>5. held' \subseteq held \/ held' = held \cup {Grant(Request1)}
    BY DEF ConnHandle, OpenConn, CloseConn, UnitData, connVars
<1>6. \A h \in held' : h.conn <= connNo'
    BY <1>0, <1>4, <1>5 DEF Grant
<1>7. cxnState \in {"Closing", "Closed"} /\ Released => Released'
    <2> SUFFICES ASSUME cxnState \in {"Closing", "Closed"}, Released, NEW h \in held',
                        h.conn = connNo
                 PROVE  h.serial # serial
        BY <1>1, <1>4 DEF Released
    <2>1. CASE h \in held
        BY <2>1 DEF Released
    <2>2. CASE h \notin held
        <3>1. OpenConn /\ h = Grant(Request1)
            BY <2>2 DEF ConnHandle, OpenConn, CloseConn, UnitData, connVars
        <3>2. u.f.svc = "ForwardOpen" /\ h.serial = u.f.conn.serial
            BY <1>3, <3>1 DEF OpenConn, Grant
        <3> QED BY <1>3, <3>2 DEF Kept, KeptOK
    <2> QED BY <2>1, <2>2
<1>8. ASSUME cxnState = "Closing", Request1.cmd = "SendRRData", Request1.ctx = sentContext
      PROVE  Released' \/ (NoSuccess => NoSuccess')
    <2>1. Request1.svc = "ForwardClose" /\ Request1.conn.serial = serial
        BY <1>3, <1>8 DEF Kept, KeptOK, Asked
    <2>2. CloseConn
        BY <1>8, <2>1 DEF ConnHandle, OpenConn, UnitData
    <2>3. CASE held' = held \ {h \in OnThis : h.serial = serial}
        BY <1>1, <1>4, <2>3 DEF Released, OnThis, Serving
    <2>4. CASE Respond(Replies(Request1, ReplyKinds \ {"ok", "oversize"}, {NoConn}))
        <3> DEFINE req == Request1
        <3>1. req \in Packet /\ in' = in
            BY HandleReplies DEF ReleaseInv, Consume
        <3> HIDE DEF req
        <3>2. ASSUME NEW r \in Replies(req, ReplyKinds \ {"ok", "oversize"}, {NoConn})
              PROVE  r \in Packet /\ r.kind \in {"cipError", "encapError", "malformed"}
            <4> DEFINE kinds == ReplyKinds \ {"ok", "oversize"}
            <4>1. kinds \in SUBSET ReplyKinds /\ NoConn \in ConnRef
                BY NoConnType
            <4>2. \A k \in kinds : k \in {"cipError", "encapError", "malformed"}
                BY ServerAssumption DEF ReplyKind
            <4> HIDE DEF kinds
            <4>3. {NoConn} \in SUBSET ConnRef
                BY <4>1
            <4>4. r \in Replies(req, kinds, {NoConn})
                BY DEF kinds
            <4>5. r \in Packet /\ r.kind \in kinds
                BY <1>0, <3>1, <4>1, <4>3, <4>4, ReplyFields
            <4> QED BY <4>2, <4>5
        <3>3. ASSUME NEW r \in Replies(req, ReplyKinds \ {"ok", "oversize"}, {NoConn}),
                     wire' = wire \o Units(r)
              PROVE  NoSuccess => NoSuccess'
            BY <1>1, <3>1, <3>2, <3>3, RefusalOnWire
        <3>4. CASE wire' = wire
            BY <1>1, <3>1, <3>4, AskedStays DEF NoSuccess
        <3> QED BY <2>4, <3>3, <3>4 DEF Respond, req
    <2> QED BY <2>1, <2>2, <2>3, <2>4 DEF CloseConn
<1>9. AllKept'
    <2>1. Kept' = Kept
        BY <1>1 DEF Kept, KeptOK, Asked
    <2> QED BY <1>1, <1>2, <2>1 DEF ReleaseInv, ReleaseKnown, AllKept
<1>10. cxnTx' \in Seq(CxnUnits')
    BY <1>1 DEF ReleaseInv, ReleaseKnown, CxnUnits
<1>11. cxnState' = "Closing" => NoSuccess' \/ Released'
    BY <1>1, <1>2, <1>7, <1>8 DEF ReleaseInv, ReleaseKnown
<1>12. cxnState' = "Closed" => Released' \/ CloseRefused'
    <2>1. CloseRefused => CloseRefused'
        BY <1>1 DEF CloseRefused, MsgReply
    <2> QED BY <1>1, <1>7, <2>1 DEF ReleaseInv, ReleaseKnown
<1> QED BY <1>0, <1>2, <1>4, <1>6, <1>9, <1>10, <1>11, <1>12 DEF ReleaseKnown

(* The initial states.                                                     *)
LEMMA ReleaseInit == Init => ReleaseInv
<1> SUFFICES ASSUME Init PROVE ReleaseInv
    OBVIOUS
<1>1. /\ msgTx = <<>> /\ msgRx = <<>> /\ cxnTx = <<>> /\ out = <<>> /\ in = <<>>
      /\ srvIn = <<>> /\ wire = <<>> /\ held = {} /\ srvConn = 0 /\ connNo = 0
      /\ cxnState = "Idle"
    BY DEF Init, MsgInit, CxnInit, TcpInit, SrvInit, ConnInit
<1>2. AllKept /\ AskedOnce /\ cxnTx \in Seq(CxnUnits)
    BY <1>1, EmptyType DEF AllKept, AskedOnce
<1> QED BY <1>1, <1>2, IdsInit DEF ReleaseInv, ReleaseKnown

(* Every step keeps the invariant, under the conditions of IdsNext.        *)
LEMMA ReleaseNext ==
    ASSUME OpenWhileUp, MaxOpens < SerialMod, ReleaseInv, [Next]_vars
    PROVE  ReleaseInv'
<1>1. IdsInv'
    BY IdsNext DEF ReleaseInv
<1>2. ReleaseKnown'
    <2>1. CASE AppOpen
        BY <2>1, OpenRelease
    <2>2. CASE AppSend
        BY <2>2, SendRelease
    <2>3. CASE AppCloseCxn
        BY <2>3, CloseRelease
    <2>4. CASE AppPoll
        BY <2>4, PollRelease
    <2>5. CASE AppConnect \/ AppClose \/ AppPollTcp \/ Tick \/ UNCHANGED vars
        BY <2>5, QuietRelease
    <2>6. CASE ConnNext /\ UNCHANGED <<msgVars, cxnVars, got>>
        BY <2>6, HandleRelease, NetworkRelease
    <2>7. CASE PlcStray /\ UNCHANGED <<msgVars, cxnVars, got>>
        BY <2>7, StrayRelease
    <2> QED BY <2>1, <2>2, <2>3, <2>4, <2>5, <2>6, <2>7 DEF Next, AppNext
<1> QED BY <1>1, <1>2 DEF ReleaseInv

(* A connection whose close() has come to an end (state Closed,            *)
(* Connection.cpp:302-313) is closed in the PLC too, which keeps nothing   *)
(* under the serial number of the connection, or the PLC has refused that  *)
(* very Forward Close with an error status, which pollClosing() does not   *)
(* look at; whatever answers of earlier requests are still on their way.   *)
(* The conditions are those of OpenConnectionIsHeld.                       *)
THEOREM ClosedConnectionIsReleased ==
    ASSUME OpenWhileUp, MaxOpens < SerialMod
    PROVE  Spec => []ClosedIsReleased
<1>1. ReleaseInv /\ [Next]_vars => ReleaseInv'
    BY ReleaseNext
<1>2. ReleaseInv => ClosedIsReleased
    BY DEF ReleaseInv, ReleaseKnown, ClosedIsReleased
<1> QED BY <1>1, <1>2, ReleaseInit, PTL DEF Spec
=============================================================================
