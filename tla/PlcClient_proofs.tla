--------------------------- MODULE PlcClient_proofs ---------------------------
(***************************************************************************)
(* Proofs about PlcClient, for every size of the tag pool and of the       *)
(* packets, every PLC and every use an application makes of the library.   *)
(***************************************************************************)
EXTENDS PlcClient, Requesters_proofs

(* send() either starts the exchange, which it does only while none is in  *)
(* flight, or leaves the message alone (ExplicitMessage.cpp:21-39).        *)
LEMMA SendStartsOnlyIfFree ==
    ASSUME NEW sess, NEW svc, NEW name, NEW conn, NEW valid, NEW st,
           MsgSend(sess, svc, name, conn, valid, st)
    PROVE  IF st = "Pending" THEN ~MsgInFlight /\ msgState' = "Sending"
                             ELSE msgState' = msgState
BY DEF MsgSend, StartSend, msgVars

(* poll() of an exchange in flight leaves it in flight exactly when it     *)
(* returns Pending (ExplicitMessage.cpp:139-172).                          *)
LEMMA PollPendingIffInFlight ==
    ASSUME NEW st, MsgInFlight, MsgPoll(st)
    PROVE  (st = "Pending") <=> MsgInFlight'
<1>1. CASE MsgTimeout(st)
    BY <1>1 DEF MsgTimeout, MsgInFlight
<1>2. CASE MsgAdvance(st)
    <2>1. PICK sent \in BOOLEAN :
             msgState' = CASE st = "Ok"      -> "Done"
                           [] st = "Pending" -> IF sent THEN "Receiving" ELSE msgState
                           [] OTHER          -> "Failed"
        BY <1>2 DEF MsgAdvance
    <2> QED BY <2>1 DEF MsgInFlight
<1>3. CASE MsgSettled(st)
    BY <1>3 DEF MsgSettled, MsgInFlight
<1> QED BY <1>1, <1>2, <1>3 DEF MsgPoll

(* A tag operation that is not started leaves everything as it is; one     *)
(* that is was started while nothing was in flight (Tag.cpp:39-108).       *)
LEMMA StartKeepsSingle ==
    ASSUME TagTypeOK, SingleInFlight,
           NEW t \in Tags, NEW st, NEW state \in {"Reading", "Writing"},
           IF st = "Pending" THEN ~MsgInFlight /\ msgState' = "Sending"
                             ELSE msgState' = msgState,
           NEW fresh \in BOOLEAN, NEW code \in BOOLEAN,
           tags' = IF st = "Pending"
                   THEN [tags EXCEPT ![t].state = state, ![t].fresh = fresh, ![t].code = code]
                   ELSE tags
    PROVE  tags' \in [Tags -> TagRecord] /\ SingleInFlight'
<1>1. CASE st # "Pending"
    <2>1. tags' = tags /\ msgState' = msgState
        BY <1>1
    <2> QED BY <2>1 DEF TagTypeOK, SingleInFlight, Busy, MsgInFlight
<1>2. CASE st = "Pending"
    <2>1. msgState' = "Sending" /\ \A u \in Tags : ~Busy(u)
        BY <1>2 DEF SingleInFlight
    <2>2. tags' \in [Tags -> TagRecord]
        BY <1>2 DEF TagTypeOK, TagRecord, TagStates
    <2>3. \A u \in Tags : Busy(u)' <=> u = t
        BY <1>2, <2>1 DEF TagTypeOK, Busy, TagRecord
    <2> QED BY <2>1, <2>2, <2>3 DEF SingleInFlight, MsgInFlight
<1> QED BY <1>1, <1>2

(* read() of a tag starts at most one exchange (Tag.cpp:14-64).            *)
LEMMA ReadKeepsSingle ==
    ASSUME TagTypeOK, SingleInFlight, NEW t \in Tags,
           NEW sess, NEW name, NEW valid, NEW st, TagRead(t, sess, name, valid, st)
    PROVE  tags' \in [Tags -> TagRecord] /\ SingleInFlight'
<1>1. CASE Busy(t) /\ UNCHANGED <<tags, msgVars>>
    BY <1>1 DEF TagTypeOK, SingleInFlight, Busy, MsgInFlight, msgVars
<1>2. CASE /\ ~Busy(t)
           /\ MsgSend(sess, "Read", name, NoConn, valid, st)
           /\ tags' = IF st = "Pending"
                      THEN [tags EXCEPT ![t].state = "Reading", ![t].fresh = FALSE,
                                        ![t].code = FALSE]
                      ELSE tags
    <2>1. IF st = "Pending" THEN ~MsgInFlight /\ msgState' = "Sending"
                            ELSE msgState' = msgState
        BY <1>2, SendStartsOnlyIfFree
    <2> QED BY <1>2, <2>1, StartKeepsSingle
<1> QED BY <1>1, <1>2 DEF TagRead

(* write() of a tag starts at most one exchange (Tag.cpp:25-108).          *)
LEMMA WriteKeepsSingle ==
    ASSUME TagTypeOK, SingleInFlight, NEW t \in Tags,
           NEW sess, NEW name, NEW valid, NEW st, TagWrite(t, sess, name, valid, st)
    PROVE  tags' \in [Tags -> TagRecord] /\ SingleInFlight'
<1>1. CASE UNCHANGED <<tags, msgVars>>
    BY <1>1 DEF TagTypeOK, SingleInFlight, Busy, MsgInFlight, msgVars
<1>2. CASE /\ MsgSend(sess, "Write", name, NoConn, valid, st)
           /\ tags' = IF st = "Pending" THEN [tags EXCEPT ![t].state = "Writing"] ELSE tags
    <2>1. IF st = "Pending" THEN ~MsgInFlight /\ msgState' = "Sending"
                            ELSE msgState' = msgState
        BY <1>2, SendStartsOnlyIfFree
    <2>2. tags[t].fresh \in BOOLEAN /\ tags[t].code \in BOOLEAN
        BY DEF TagTypeOK, TagRecord
    <2>3. [tags EXCEPT ![t].state = "Writing"]
            = [tags EXCEPT ![t].state = "Writing", ![t].fresh = tags[t].fresh,
                           ![t].code = tags[t].code]
        BY DEF TagTypeOK, TagRecord
    <2> QED BY <1>2, <2>1, <2>2, <2>3, StartKeepsSingle
<1> QED BY <1>1, <1>2 DEF TagWrite

(* abort() by the tag in flight frees the message, abort() by another one  *)
(* does not touch it (Tag.cpp:160-169).                                    *)
LEMMA AbortKeepsSingle ==
    ASSUME TagTypeOK, SingleInFlight, NEW t \in Tags, TagAbort(t)
    PROVE  tags' \in [Tags -> TagRecord] /\ SingleInFlight'
<1>1. tags' = [tags EXCEPT ![t].state = "Idle", ![t].fresh = FALSE]
    BY DEF TagAbort
<1>2. tags' \in [Tags -> TagRecord]
    BY <1>1 DEF TagTypeOK, TagRecord, TagStates
<1>3. \A u \in Tags : Busy(u)' <=> Busy(u) /\ u # t
    BY <1>1 DEF TagTypeOK, Busy, TagRecord
<1>4. CASE Busy(t)
    BY <1>2, <1>3, <1>4 DEF TagAbort, MsgAbort, SingleInFlight, MsgInFlight
<1>5. CASE ~Busy(t)
    BY <1>2, <1>3, <1>5 DEF TagAbort, msgVars, SingleInFlight, MsgInFlight
<1> QED BY <1>4, <1>5

(* What poll() makes of a response ends the operation (Tag.cpp:126-146).   *)
LEMMA CompletedEnds ==
    ASSUME TagTypeOK, NEW t \in Tags, NEW m, NEW c \in Completed(t, m)
    PROVE  c.state \in {"Done", "Failed"}
<1>1. Succeeded(t).state = "Done"
    BY DEF Succeeded, TagTypeOK, TagRecord
<1>2. \A r \in ReadInto(t, m) : r.state = "Done"
    BY DEF ReadInto, Succeeded, TagTypeOK, TagRecord
<1>3. [tags[t] EXCEPT !.code = TRUE, !.state = "Failed"].state = "Failed"
    BY DEF TagTypeOK, TagRecord
<1> QED BY <1>1, <1>2, <1>3 DEF Completed

(* The application's setters do not touch an operation (Tag.cpp:208-316).  *)
LEMMA SetKeepsStates ==
    ASSUME TagTypeOK, NEW t \in Tags, TagSet(t)
    PROVE  /\ TagTypeOK'
           /\ \A u \in Tags : tags'[u].state = tags[u].state
           /\ \A u \in Tags : Busy(u)' <=> Busy(u)
<1>1. CASE tags' = [tags EXCEPT ![t].data = FromApp]
    BY <1>1 DEF TagTypeOK, TagRecord, Busy
<1>2. CASE tags' = [tags EXCEPT ![t].data = IF @ = NoName THEN NoName ELSE FromApp,
                                ![t].fresh = TRUE]
    <2>1. PICK d \in {NoName, FromApp} :
             tags' = [tags EXCEPT ![t].data = d, ![t].fresh = TRUE]
        BY <1>2
    <2> QED BY <2>1 DEF TagTypeOK, TagRecord, Busy
<1> QED BY <1>1, <1>2 DEF TagSet

(* poll() of a tag ends its operation together with the exchange           *)
(* (Tag.cpp:110-147).                                                      *)
LEMMA TagPollKeepsSingle ==
    ASSUME TagTypeOK, SingleInFlight, NEW t \in Tags, NEW st, TagPoll(t, st)
    PROVE  SingleInFlight' /\ DOMAIN tags' = Tags
<1>1. CASE ~Busy(t) /\ UNCHANGED <<tags, msgVars, tcpVars>>
    BY <1>1 DEF TagTypeOK, SingleInFlight, Busy, MsgInFlight, msgVars
<1>2. CASE Busy(t) /\ ~(UNCHANGED <<tags, msgVars, tcpVars>> /\ ~Busy(t))
    <2>1. PICK m \in Status :
             /\ MsgPoll(m)
             /\ \/ m = "Pending" /\ tags' = tags
                \/ m # "Pending" /\ \E rec : /\ tags' = [tags EXCEPT ![t] = rec]
                                            /\ rec.state \in {"Done", "Failed"}
        <3>1. [tags EXCEPT ![t].state = "Failed"]
                = [tags EXCEPT ![t] = [tags[t] EXCEPT !.state = "Failed"]]
            BY DEF TagTypeOK
        <3>2. [tags[t] EXCEPT !.state = "Failed"].state = "Failed"
            BY DEF TagTypeOK, TagRecord
        <3> QED BY <1>2, <3>1, <3>2, CompletedEnds DEF TagPoll
    <2>2. MsgInFlight
        BY <1>2 DEF SingleInFlight
    <2>3. (m = "Pending") <=> MsgInFlight'
        BY <2>1, <2>2, PollPendingIffInFlight
    <2>4. CASE m = "Pending"
        BY <2>1, <2>2, <2>3, <2>4 DEF SingleInFlight, Busy, TagTypeOK
    <2>5. CASE m # "Pending"
        <3>1. PICK rec : /\ tags' = [tags EXCEPT ![t] = rec]
                         /\ rec.state \in {"Done", "Failed"}
            BY <2>1, <2>5
        <3>2. \A u \in Tags : ~Busy(u)'
            BY <1>2, <3>1 DEF TagTypeOK, SingleInFlight, Busy
        <3> QED BY <2>3, <2>5, <3>1, <3>2 DEF TagTypeOK, SingleInFlight
    <2> QED BY <2>4, <2>5
<1> QED BY <1>1, <1>2 DEF TagPoll
-----------------------------------------------------------------------------
(* The inductive invariant: the types and the receive framing of the parts *)
(* below the client, the types of its own state, where poll() is in its    *)
(* loop, and single in-flight.                                             *)
ClientOK ==
    /\ eth \in EthStates
    /\ plcState \in PlcStates /\ wantConnect \in BOOLEAN /\ plcLate \in BOOLEAN
    /\ inUse \in [Tags -> BOOLEAN] /\ owed \in [Tags -> BOOLEAN]
    /\ tagName \in [Tags -> Names \cup {NoName}]
    /\ prevStatus \in [Tags -> Status]
    /\ slotOk \in BOOLEAN /\ lost \in BOOLEAN

LoopOK ==
    /\ pc \in {"app", "loop", "tagcb", "statecb", "close"}
    /\ idx \in 1..(MaxTags + 1)
    /\ pc = "tagcb" => idx <= MaxTags

MessageOK == MsgOK /\ MsgFull
PoolOK    == TagTypeOK /\ SingleInFlight

IInv == StreamOK /\ SessOK /\ MessageOK /\ PoolOK /\ ClientOK /\ LoopOK

(* What leaves the variables of a part alone keeps the part.               *)
LEMMA Frames ==
    ASSUME IInv
    PROVE  /\ UNCHANGED <<tcpVars, srvVars>> => StreamOK'
           /\ UNCHANGED sessVars => SessOK'
           /\ UNCHANGED msgVars => MessageOK'
           /\ UNCHANGED <<msgVars, tags>> => PoolOK'
           /\ UNCHANGED <<plcVars, eth, owed, lost>> => ClientOK'
           /\ UNCHANGED <<pc, idx>> => LoopOK'
<1>1. UNCHANGED <<tcpVars, srvVars>> => StreamOK'
    BY DEF IInv, tcpVars, srvVars, StreamOK, TcpTypeOK, SrvTypeOK
<1>2. UNCHANGED sessVars => SessOK'
    BY DEF IInv, sessVars, SessOK, SessTypeOK, SessInFlight
<1>3. UNCHANGED msgVars => MessageOK'
    BY DEF IInv, msgVars, MessageOK, MsgOK, MsgTypeOK, MsgFull, MsgInFlight
<1>4. UNCHANGED <<msgVars, tags>> => PoolOK'
    BY DEF IInv, msgVars, PoolOK, TagTypeOK, SingleInFlight, MsgInFlight, Busy
<1>5. UNCHANGED <<plcVars, eth, owed, lost>> => ClientOK'
    BY DEF IInv, plcVars, ClientOK
<1>6. UNCHANGED <<pc, idx>> => LoopOK'
    BY DEF IInv, LoopOK
<1> QED BY <1>1, <1>2, <1>3, <1>4, <1>5, <1>6

(* A slot poll() visits is a slot.                                         *)
LEMMA LoopVisits ==
    ASSUME LoopOK
    PROVE  /\ idx <= MaxTags => idx \in Tags /\ idx + 1 \in 1..(MaxTags + 1)
           /\ 1 \in 1..(MaxTags + 1)
BY PlcAssumption DEF LoopOK

(* A started tag operation (Tag.cpp:39-108) keeps the message's types.     *)
LEMMA RequestKeepsMessage ==
    ASSUME IInv, NEW t \in Tags, NEW st,
           TagRead(t, handle, tagName[t], slotOk, st)
             \/ TagWrite(t, handle, tagName[t], slotOk, st)
    PROVE  MessageOK'
<1>1. CASE UNCHANGED msgVars
    BY <1>1, Frames
<1>2. ASSUME NEW svc \in {"Read", "Write"}, MsgSend(handle, svc, tagName[t], NoConn, slotOk, st)
      PROVE  MessageOK'
    <2>1. handle \in Nat /\ svc \in Service /\ tagName[t] \in Names \cup {NoName}
        BY DEF IInv, SessOK, SessTypeOK, ClientOK, Service
    <2>2. MsgOK'
        BY <1>2, <2>1, NoConnType, SendKeepsTypes DEF IInv, MessageOK
    <2>3. MsgFull'
        BY <1>2, SendKeepsFull DEF IInv, MessageOK
    <2> QED BY <2>2, <2>3 DEF MessageOK
<1> QED BY <1>1, <1>2 DEF TagRead, TagWrite

(* poll() of a tag keeps the types of the stream and of the message, and   *)
(* what it makes of a response is a tag (Tag.cpp:110-147).                 *)
LEMMA TagPollKeepsTypes ==
    ASSUME IInv, NEW t \in Tags, NEW st, TagPoll(t, st), UNCHANGED srvVars
    PROVE  StreamOK' /\ MessageOK' /\ TagTypeOK'
<1>1. CASE ~Busy(t) /\ UNCHANGED <<tags, msgVars, tcpVars>>
    BY <1>1, Frames DEF PoolOK
<1>2. ASSUME NEW m \in Status, MsgPoll(m),
             \/ tags' = tags
             \/ tags' = [tags EXCEPT ![t].state = "Failed"]
             \/ m = "Ok" /\ \E c \in Completed(t, MsgReply') : tags' = [tags EXCEPT ![t] = c]
      PROVE  StreamOK' /\ MessageOK' /\ TagTypeOK'
    <2>1. MsgOK' /\ StreamOK'
        BY <1>2, PollKeepsTypes DEF IInv, MessageOK
    <2>2. MsgFull' /\ (m = "Ok" => msgState' = "Done")
        BY <1>2, PollKeepsFull DEF IInv, MessageOK
    <2>3. TagTypeOK'
        <3>1. CASE tags' = tags
            BY <3>1 DEF IInv, PoolOK, TagTypeOK
        <3>2. CASE tags' = [tags EXCEPT ![t].state = "Failed"]
            BY <3>2 DEF IInv, PoolOK, TagTypeOK, TagRecord, TagStates
        <3>3. CASE m = "Ok" /\ \E c \in Completed(t, MsgReply') : tags' = [tags EXCEPT ![t] = c]
            <4>1. msgRx' \in Seq(Unit) /\ HeaderLen <= Len(msgRx')
                BY <2>1, <2>2, <3>3 DEF MsgOK, MsgTypeOK, MsgFull
            <4>2. MsgReply' \in Packet
                BY <4>1, DecodeHeaderType DEF MsgReply
            <4>3. MsgReply'.name \in Names \cup {NoName}
                BY <4>2 DEF Packet
            <4>4. TagTypeOK /\ tags[t] \in TagRecord
                BY DEF IInv, PoolOK, TagTypeOK
            <4>5. Succeeded(t) \in TagRecord
                BY <4>4 DEF Succeeded, TagRecord, TagStates
            <4>6. \A c \in ReadInto(t, MsgReply') : c \in TagRecord
                BY <4>3, <4>5 DEF ReadInto, TagRecord
            <4>7. [tags[t] EXCEPT !.code = TRUE, !.state = "Failed"] \in TagRecord
                BY <4>4 DEF TagRecord, TagStates
            <4>8. \A c \in Completed(t, MsgReply') : c \in TagRecord
                BY <4>5, <4>6, <4>7 DEF Completed
            <4> QED BY <3>3, <4>4, <4>8 DEF TagTypeOK
        <3> QED BY <1>2, <3>1, <3>2, <3>3
    <2> QED BY <2>1, <2>2, <2>3 DEF MessageOK
<1> QED BY <1>1, <1>2 DEF TagPoll
-----------------------------------------------------------------------------
(* The calls of the application keep the invariant.                        *)
LEMMA CallsKeepIInv ==
    ASSUME IInv, AppCall
    PROVE  IInv'
<1> USE Frames
<1>0. StreamOK /\ SessOK /\ MessageOK /\ PoolOK /\ ClientOK /\ LoopOK
    BY DEF IInv
<1>1. CASE Begin
    <2>1. /\ plcState' = "Ethernet" /\ wantConnect' = FALSE
          /\ eth' \in {"starting", "failed"}
          /\ UNCHANGED <<plcLate, inUse, tagName, prevStatus, slotOk, owed>>
          /\ UNCHANGED <<tcpVars, srvVars>> /\ UNCHANGED sessVars
          /\ UNCHANGED msgVars /\ UNCHANGED <<msgVars, tags>>
          /\ UNCHANGED <<pc, idx>> /\ UNCHANGED lost
        BY <1>1 DEF Begin, EthBegin, pollVars
    <2>2. ClientOK'
        BY <1>0, <2>1 DEF ClientOK, PlcStates, EthStates
    <2> QED BY <2>1, <2>2 DEF IInv
<1>2. CASE Connect
    <2>1. /\ UNCHANGED srvVars /\ UNCHANGED msgVars /\ UNCHANGED <<msgVars, tags>>
          /\ UNCHANGED <<pc, idx>> /\ UNCHANGED lost
          /\ UNCHANGED <<eth, inUse, tagName, prevStatus, slotOk, owed>>
          /\ ConnectNow \/ ConnectQueued
        BY <1>2 DEF Connect, pollVars
    <2>2. CASE ConnectNow
        <3>1. /\ plcState' \in {"Connecting", "Failed"}
              /\ wantConnect' = FALSE /\ plcLate' = FALSE
              /\ SessAbort /\ (TcpClose \/ TcpConnect("Pending"))
            BY <2>2 DEF ConnectNow
        <3>2. ClientOK'
            BY <1>0, <2>1, <3>1 DEF ClientOK, PlcStates
        <3>3. SessOK'
            BY <1>0, <3>1, SessAbortKeepsTypes
        <3>4. StreamOK'
            BY <1>0, <2>1, <3>1, TcpKeepsTypes
        <3> QED BY <2>1, <3>2, <3>3, <3>4 DEF IInv
    <2>3. CASE ConnectQueued
        <3>1. /\ plcState' = "Ethernet" /\ wantConnect' = TRUE /\ UNCHANGED plcLate
              /\ UNCHANGED <<tcpVars, srvVars>> /\ UNCHANGED sessVars
            BY <2>1, <2>3 DEF ConnectQueued
        <3>2. ClientOK'
            BY <1>0, <2>1, <3>1 DEF ClientOK, PlcStates
        <3> QED BY <2>1, <3>1, <3>2 DEF IInv
    <2> QED BY <2>1, <2>2, <2>3
<1>3. CASE Disconnect
    <2>1. /\ UNCHANGED srvVars /\ UNCHANGED msgVars /\ UNCHANGED <<msgVars, tags>>
          /\ UNCHANGED <<pc, idx>> /\ UNCHANGED lost
          /\ UNCHANGED <<eth, wantConnect, plcLate, inUse, tagName, prevStatus, slotOk, owed>>
          /\ plcState' \in {"Disconnecting", "Idle"}
          /\ (\E st \in Status : SessClose(st)) \/ SessAbort
          /\ UNCHANGED tcpVars \/ TcpClose
        BY <1>3 DEF Disconnect, pollVars
    <2>2. ClientOK'
        BY <1>0, <2>1 DEF ClientOK, PlcStates
    <2>3. SessOK'
        BY <1>0, <2>1, SessAbortKeepsTypes, SessCloseKeepsTypes
    <2>4. StreamOK'
        BY <1>0, <2>1, TcpKeepsTypes
    <2> QED BY <2>1, <2>2, <2>3, <2>4 DEF IInv
<1>4. CASE SetCpuSlot
    <2>1. /\ slotOk' \in BOOLEAN
          /\ UNCHANGED <<eth, plcState, wantConnect, plcLate, inUse, tagName, prevStatus, owed>>
          /\ UNCHANGED <<tcpVars, srvVars>> /\ UNCHANGED sessVars
          /\ UNCHANGED msgVars /\ UNCHANGED <<msgVars, tags>>
          /\ UNCHANGED <<pc, idx>> /\ UNCHANGED lost
        BY <1>4 DEF SetCpuSlot, pollVars, stack
    <2>2. ClientOK'
        BY <1>0, <2>1 DEF ClientOK
    <2> QED BY <2>1, <2>2 DEF IInv
<1>5. CASE CreateTag \/ DestroyTag
    <2>1. PICK t \in Tags :
             /\ \E b \in BOOLEAN : inUse' = [inUse EXCEPT ![t] = b]
             /\ \/ UNCHANGED <<tagName, prevStatus>>
                \/ /\ \E name \in Names : tagName' = [tagName EXCEPT ![t] = name]
                   /\ prevStatus' = [prevStatus EXCEPT ![t] = "NotReady"]
             /\ owed' = [owed EXCEPT ![t] = FALSE]
        BY <1>5 DEF CreateTag, DestroyTag
    <2>2. /\ UNCHANGED <<eth, plcState, wantConnect, plcLate, slotOk>>
          /\ UNCHANGED <<tcpVars, srvVars>> /\ UNCHANGED sessVars
          /\ UNCHANGED msgVars /\ UNCHANGED <<msgVars, tags>>
          /\ UNCHANGED <<pc, idx>> /\ UNCHANGED lost
        BY <1>5 DEF CreateTag, DestroyTag, pollVars, stack
    <2>3. ClientOK'
        BY <1>0, <2>1, <2>2 DEF ClientOK, Status
    <2> QED BY <2>2, <2>3 DEF IInv
<1>6. CASE Read \/ Write
    <2>1. PICK t \in Tags, st \in Status :
             /\ TagRead(t, handle, tagName[t], slotOk, st)
                   \/ TagWrite(t, handle, tagName[t], slotOk, st)
             /\ Started(t, st)
        BY <1>6 DEF Read, Write
    <2>2. /\ UNCHANGED <<tcpVars, srvVars>> /\ UNCHANGED sessVars
          /\ UNCHANGED <<pc, idx>> /\ UNCHANGED lost
          /\ UNCHANGED <<eth, plcState, wantConnect, plcLate, inUse, tagName, prevStatus, slotOk>>
          /\ owed' = owed \/ owed' = [owed EXCEPT ![t] = TRUE]
        BY <2>1 DEF Started, pollVars, plcVars
    <2>3. ClientOK'
        BY <1>0, <2>2 DEF ClientOK
    <2>4. MessageOK'
        BY <2>1, RequestKeepsMessage
    <2>5. PoolOK'
        BY <1>0, <2>1, ReadKeepsSingle, WriteKeepsSingle DEF PoolOK, TagTypeOK
    <2> QED BY <2>2, <2>3, <2>4, <2>5 DEF IInv
<1>7. CASE AbortTag
    <2>1. PICK t \in Tags :
             /\ TagAbort(t)
             /\ prevStatus' = [prevStatus EXCEPT ![t] = "NotReady"]
             /\ owed' = [owed EXCEPT ![t] = FALSE]
        BY <1>7 DEF AbortTag
    <2>2. /\ UNCHANGED <<tcpVars, srvVars>> /\ UNCHANGED sessVars
          /\ UNCHANGED <<pc, idx>> /\ UNCHANGED lost
          /\ UNCHANGED <<eth, plcState, wantConnect, plcLate, inUse, tagName, slotOk>>
        BY <1>7 DEF AbortTag, pollVars
    <2>3. ClientOK'
        BY <1>0, <2>1, <2>2 DEF ClientOK, Status
    <2>4. MessageOK'
        BY <1>0, <2>1, AbortKeepsTypes, AbortKeepsFull DEF TagAbort, MessageOK
    <2>5. PoolOK'
        BY <1>0, <2>1, AbortKeepsSingle DEF PoolOK, TagTypeOK
    <2> QED BY <2>2, <2>3, <2>4, <2>5 DEF IInv
<1>8. CASE SetTag
    <2>1. PICK t \in Tags : TagSet(t)
        BY <1>8 DEF SetTag
    <2>2. /\ UNCHANGED <<tcpVars, srvVars>> /\ UNCHANGED sessVars /\ UNCHANGED msgVars
          /\ UNCHANGED <<plcVars, eth, owed, lost>> /\ UNCHANGED <<pc, idx>>
        BY <1>8 DEF SetTag, pollVars
    <2>3. TagTypeOK' /\ \A u \in Tags : Busy(u)' <=> Busy(u)
        BY <1>0, <2>1, SetKeepsStates DEF PoolOK
    <2>4. PoolOK'
        BY <1>0, <2>2, <2>3 DEF PoolOK, SingleInFlight, MsgInFlight, msgVars
    <2> QED BY <2>2, <2>4 DEF IInv
<1> QED BY <1>1, <1>2, <1>3, <1>4, <1>5, <1>6, <1>7, <1>8 DEF AppCall

(* So does each step of poll().                                            *)
LEMMA PollKeepsIInv ==
    ASSUME IInv, PollStep
    PROVE  IInv'
<1> USE Frames
<1>0. StreamOK /\ SessOK /\ MessageOK /\ PoolOK /\ ClientOK /\ LoopOK
    BY DEF IInv
<1>1. CASE EthernetPoll
    <2>1. /\ UNCHANGED srvVars /\ UNCHANGED sessVars /\ UNCHANGED msgVars
          /\ UNCHANGED <<msgVars, tags>> /\ UNCHANGED <<pc, idx>> /\ UNCHANGED lost
          /\ UNCHANGED <<inUse, tagName, prevStatus, slotOk, owed>>
        BY <1>1 DEF EthernetPoll, pollVars
    <2>2. /\ eth' \in {eth, "ready"}
          /\ wantConnect' \in {wantConnect, FALSE} /\ plcLate' \in {plcLate, FALSE}
          /\ plcState' \in {plcState, "Connecting", "Failed"}
          /\ UNCHANGED tcpVars \/ \E cst : TcpConnect(cst)
        BY <1>1 DEF EthernetPoll, EthPoll
    <2>3. ClientOK'
        BY <1>0, <2>1, <2>2 DEF ClientOK, PlcStates, EthStates
    <2>4. StreamOK'
        BY <1>0, <2>1, <2>2, TcpKeepsTypes
    <2> QED BY <2>1, <2>3, <2>4 DEF IInv
<1>2. CASE ConnectingPoll
    <2>1. /\ UNCHANGED srvVars /\ UNCHANGED msgVars /\ UNCHANGED <<msgVars, tags>>
          /\ UNCHANGED <<pc, idx>> /\ UNCHANGED lost
          /\ UNCHANGED <<eth, wantConnect, plcLate, inUse, tagName, prevStatus, slotOk, owed>>
        BY <1>2 DEF ConnectingPoll, pollVars
    <2>2. /\ plcState' \in {plcState, "Registering", "Failed"}
          /\ UNCHANGED tcpVars \/ \E st, late : TcpPoll(st, late)
          /\ UNCHANGED sessVars \/ \E ost : SessOpen(TRUE, ost)
        BY <1>2 DEF ConnectingPoll
    <2>3. ClientOK'
        BY <1>0, <2>1, <2>2 DEF ClientOK, PlcStates
    <2>4. StreamOK'
        BY <1>0, <2>1, <2>2, TcpKeepsTypes
    <2>5. SessOK'
        BY <1>0, <2>2, SessOpenKeepsTypes
    <2> QED BY <2>1, <2>3, <2>4, <2>5 DEF IInv
<1>3. CASE RegisteringPoll \/ DisconnectingPoll
    <2>1. /\ UNCHANGED srvVars /\ UNCHANGED msgVars /\ UNCHANGED <<msgVars, tags>>
          /\ UNCHANGED idx /\ UNCHANGED lost
          /\ UNCHANGED <<eth, wantConnect, plcLate, inUse, tagName, prevStatus, slotOk, owed>>
        BY <1>3 DEF RegisteringPoll, DisconnectingPoll, plcVars
    <2>2. pc' \in {pc, "app", "statecb", "close"}
        BY <1>3 DEF RegisteringPoll, DisconnectingPoll, AfterStateCallback
    <2>3. plcState' \in {plcState, "Ready", "Failed"}
        BY <1>3 DEF RegisteringPoll, DisconnectingPoll, plcVars
    <2>4. UNCHANGED <<tcpVars, sessVars>> \/ \E st, late : SessPoll(st, late)
        BY <1>3 DEF RegisteringPoll, DisconnectingPoll
    <2>5. ClientOK'
        BY <1>0, <2>1, <2>3 DEF ClientOK, PlcStates
    <2>6. LoopOK'
        BY <1>0, <2>1, <2>2 DEF LoopOK
    <2>7. StreamOK' /\ SessOK'
        BY <1>0, <2>1, <2>4, SessPollKeepsTypes
    <2> QED BY <2>1, <2>5, <2>6, <2>7 DEF IInv
<1>4. CASE DisconnectEnd
    <2>1. /\ UNCHANGED srvVars /\ UNCHANGED sessVars
          /\ UNCHANGED msgVars /\ UNCHANGED <<msgVars, tags>>
          /\ UNCHANGED idx /\ UNCHANGED lost
          /\ UNCHANGED <<eth, wantConnect, plcLate, inUse, tagName, prevStatus, slotOk, owed>>
          /\ pc' \in {"app", "statecb"} /\ plcState' = "Idle" /\ TcpClose
        BY <1>4 DEF DisconnectEnd, AfterStateCallback
    <2>2. ClientOK' /\ LoopOK'
        BY <1>0, <2>1 DEF ClientOK, LoopOK, PlcStates
    <2>3. StreamOK'
        BY <1>0, <2>1, TcpKeepsTypes
    <2> QED BY <2>1, <2>2, <2>3 DEF IInv
<1>5. CASE ReadyPoll \/ SkipTag \/ CallbackReturns
    <2>1. /\ UNCHANGED <<tcpVars, srvVars>> /\ UNCHANGED sessVars
          /\ UNCHANGED msgVars /\ UNCHANGED <<msgVars, tags>>
          /\ UNCHANGED <<plcVars, eth, owed>>
        BY <1>5 DEF ReadyPoll, SkipTag, CallbackReturns, stack
    <2>2. lost' \in {lost, FALSE}
        BY <1>5 DEF ReadyPoll, SkipTag, CallbackReturns
    <2>3. ClientOK'
        BY <1>0, <2>1, <2>2 DEF ClientOK, plcVars
    <2>4. LoopOK'
        <3>1. CASE ReadyPoll
            BY <1>0, <3>1, LoopVisits DEF ReadyPoll, LoopOK
        <3>2. CASE SkipTag
            BY <1>0, <3>2, LoopVisits DEF SkipTag, LoopOK
        <3>3. CASE CallbackReturns
            BY <1>0, <3>3, LoopVisits DEF CallbackReturns, LoopOK
        <3> QED BY <1>5, <3>1, <3>2, <3>3
    <2> QED BY <2>1, <2>3, <2>4 DEF IInv
<1>6. CASE VisitTag
    <2>1. idx <= MaxTags /\ idx \in Tags
        BY <1>0, <1>6, LoopVisits DEF VisitTag
    <2>2. PICK st \in Status :
             /\ TagPoll(idx, st)
             /\ prevStatus' = [prevStatus EXCEPT ![idx] = st]
             /\ lost' = (lost \/ st = "Closed")
             /\ \/ /\ pc' = "tagcb" /\ idx' = idx
                   /\ owed' = [owed EXCEPT ![idx] = FALSE]
                \/ pc' = "loop" /\ idx' = idx + 1 /\ owed' = owed
        BY <1>6 DEF VisitTag
    <2>3. /\ UNCHANGED sessVars /\ UNCHANGED srvVars
          /\ UNCHANGED <<eth, plcState, wantConnect, plcLate, inUse, tagName, slotOk>>
        BY <1>6 DEF VisitTag
    <2>4. StreamOK' /\ MessageOK' /\ TagTypeOK'
        BY <2>1, <2>2, <2>3, TagPollKeepsTypes
    <2>5. PoolOK'
        BY <1>0, <2>1, <2>2, <2>4, TagPollKeepsSingle DEF PoolOK
    <2>6. prevStatus' \in [Tags -> Status] /\ owed' \in [Tags -> BOOLEAN]
        BY <1>0, <2>1, <2>2 DEF ClientOK
    <2>7. lost' \in BOOLEAN
        BY <2>2, Zenon
    <2>8. ClientOK'
        BY <1>0, <2>3, <2>6, <2>7 DEF ClientOK
    <2>9. LoopOK'
        BY <1>0, <2>1, <2>2, LoopVisits DEF LoopOK
    <2> QED BY <2>3, <2>4, <2>5, <2>8, <2>9 DEF IInv
<1>7. CASE ReadyEnd
    <2>1. /\ UNCHANGED srvVars /\ UNCHANGED msgVars /\ UNCHANGED <<msgVars, tags>>
          /\ UNCHANGED <<eth, wantConnect, plcLate, inUse, tagName, prevStatus, slotOk, owed>>
          /\ plcState' \in {plcState, "Idle"} /\ lost' = FALSE
          /\ pc' \in {"app", "statecb"} /\ idx' = 1
          /\ \/ UNCHANGED <<sessVars, tcpVars>>
             \/ SessAbort /\ TcpClose
        BY <1>7 DEF ReadyEnd, AfterStateCallback
    <2>2. ClientOK'
        BY <1>0, <2>1 DEF ClientOK, PlcStates
    <2>3. LoopOK'
        BY <1>0, <2>1, LoopVisits DEF LoopOK
    <2>4. StreamOK' /\ SessOK'
        BY <1>0, <2>1, TcpKeepsTypes, SessAbortKeepsTypes
    <2> QED BY <2>1, <2>2, <2>3, <2>4 DEF IInv
<1> QED BY <1>1, <1>2, <1>3, <1>4, <1>5, <1>6, <1>7 DEF PollStep

(* And so do the clock, the network and the PLC.                           *)
LEMMA WorldKeepsIInv ==
    ASSUME IInv, Tick \/ Environment \/ UNCHANGED vars
    PROVE  IInv'
<1> USE Frames
<1>0. StreamOK /\ SessOK /\ MessageOK /\ PoolOK /\ ClientOK /\ LoopOK
    BY DEF IInv
<1>1. CASE Tick
    <2>1. /\ UNCHANGED tcpVars /\ UNCHANGED srvVars /\ UNCHANGED tags
          /\ UNCHANGED <<pc, idx>> /\ UNCHANGED lost
          /\ UNCHANGED <<eth, plcState, wantConnect, inUse, tagName, prevStatus, slotOk, owed>>
        BY <1>1 DEF Tick, pollVars
    <2>2. /\ plcLate' \in {plcLate, TRUE}
          /\ UNCHANGED sessVars \/ SessDeadline
          /\ UNCHANGED msgVars \/ MsgDeadline
        BY <1>1 DEF Tick
    <2>3. ClientOK'
        BY <1>0, <2>1, <2>2 DEF ClientOK
    <2>4. SessOK'
        BY <1>0, <2>2, SessDeadlineKeepsTypes
    <2>5. MessageOK'
        BY <1>0, <2>2 DEF MsgDeadline, MessageOK, MsgOK, MsgTypeOK, MsgFull, MsgInFlight
    <2>6. UNCHANGED <<tags, msgState>>
        BY <2>1, <2>2 DEF msgVars, MsgDeadline
    <2>7. PoolOK'
        BY <1>0, <2>6 DEF PoolOK, TagTypeOK, SingleInFlight, Busy, MsgInFlight
    <2> QED BY <2>1, <2>3, <2>4, <2>5, <2>7 DEF IInv
<1>2. CASE Environment
    <2>1. /\ SrvNext /\ UNCHANGED sessVars /\ UNCHANGED msgVars
          /\ UNCHANGED <<msgVars, tags>>
          /\ UNCHANGED <<plcVars, eth, owed, lost>> /\ UNCHANGED <<pc, idx>>
        BY <1>2 DEF Environment, pollVars
    <2> QED BY <1>0, <2>1, ServerKeepsTypes DEF IInv
<1>3. CASE UNCHANGED vars
    <2>1. UNCHANGED stack /\ UNCHANGED plcVars /\ UNCHANGED pollVars /\ UNCHANGED owed
        BY <1>3 DEF vars
    <2>2. /\ UNCHANGED <<tcpVars, srvVars>> /\ UNCHANGED sessVars
          /\ UNCHANGED msgVars /\ UNCHANGED <<msgVars, tags>>
          /\ UNCHANGED <<plcVars, eth, owed, lost>> /\ UNCHANGED <<pc, idx>>
        BY <2>1 DEF stack, pollVars
    <2> QED BY <2>2 DEF IInv
<1> QED BY <1>1, <1>2, <1>3

(* The initial states.                                                     *)
LEMMA IInvInit == Init => IInv
<1> SUFFICES ASSUME Init PROVE IInv
    OBVIOUS
<1>1. StreamOK /\ SessOK /\ MsgOK
    BY StreamInitOK, SessInitOK, MsgInitOK DEF Init
<1>2. MsgFull /\ ~MsgInFlight
    BY DEF Init, MsgInit, MsgFull, MsgInFlight
<1>3. TagTypeOK /\ \A t \in Tags : ~Busy(t)
    BY DEF Init, TagInit, TagTypeOK, TagRecord, TagStates, Busy
<1>4. PoolOK
    BY <1>2, <1>3 DEF PoolOK, SingleInFlight
<1>5. ClientOK
    BY DEF Init, EthInit, ClientOK, EthStates, PlcStates, Status
<1>6. LoopOK
    BY PlcAssumption DEF Init, LoopOK
<1> QED BY <1>1, <1>2, <1>4, <1>5, <1>6 DEF IInv, MessageOK

(* The invariant holds always.                                             *)
LEMMA IInvAlways == Spec => []IInv
<1>1. IInv /\ [Next]_vars => IInv'
    BY CallsKeepIInv, PollKeepsIInv, WorldKeepsIInv DEF Next
<1> QED BY <1>1, IInvInit, PTL DEF Spec

(* Single in-flight (PlcClient.h:42-45): at most one tag, allocated or     *)
(* not, is busy, and exactly then the shared message is in flight - for    *)
(* every order of calls, callbacks, aborts, destroys and reconnects.       *)
THEOREM SingleOperation == Spec => []SingleInFlight
<1>1. IInv => SingleInFlight
    BY DEF IInv, PoolOK
<1> QED BY <1>1, IInvAlways, PTL

(* Type correctness of the whole client, its connection and the PLC.       *)
THEOREM ClientTypeCorrect == Spec => []TypeOK
<1>1. IInv => TypeOK
    BY DEF IInv, StreamOK, SessOK, MessageOK, MsgOK, PoolOK, ClientOK, LoopOK, TypeOK
<1> QED BY <1>1, IInvAlways, PTL
-----------------------------------------------------------------------------
(* What being Ready rests on.  All that has arrived, or will arrive, on    *)
(* the connection carries its own handle or none; while Connecting,        *)
(* nothing has been sent or received on it yet, so that the registration   *)
(* is alone on its stream; while Registering, rx_ holds only such units,   *)
(* and not yet a whole response; once Ready, the connection is up, or      *)
(* poll() is in the middle of the loop that has just noticed that it is    *)
(* not.                                                                    *)
FromHere == {u \in Unit : u.f.sess \in {0, connNo}}

(* What has arrived on the connection, and what the PLC has on its way to  *)
(* it.                                                                     *)
StreamIsOwn ==
    /\ in \in Seq(FromHere)
    /\ srvConn <= connNo
    /\ srvConn = connNo => wire \in Seq(FromHere)

(* While the client is Connecting.                                         *)
ConnectingOK ==
    plcState = "Connecting" =>
        /\ ~Connected
        /\ out = <<>> /\ in = <<>>
        /\ srvConn = connNo => wire = <<>>

(* While it is Registering.                                                *)
RegisteringOK ==
    plcState = "Registering" =>
        /\ pc = "app"
        /\ sessState \in {"Registering", "Failed"}
        /\ sessRx \in Seq(FromHere)
        /\ sessState = "Registering" => Len(sessRx) < sessWant /\ Alone

(* While it is Ready.                                                      *)
ReadyOK ==
    plcState = "Ready" =>
        /\ sessState = "Registered" /\ handle = connNo
        /\ Connected \/ (pc \in {"loop", "tagcb"} /\ lost)

(* All of it is inductive together only.                                   *)
ReadyInv == IInv /\ StreamIsOwn /\ ConnectingOK /\ RegisteringOK /\ ReadyOK

(* A step that does not touch the stream.                                  *)
LEMMA StreamIsOwnFrame ==
    ASSUME StreamIsOwn, UNCHANGED <<in, wire, srvConn, connNo>>
    PROVE  StreamIsOwn'
BY DEF StreamIsOwn, FromHere

(* An operation of TcpConnection.                                          *)
LEMMA TcpKeepsOwn ==
    ASSUME IInv, StreamIsOwn, UNCHANGED srvVars,
           TcpClose \/ (\E st : TcpConnect(st)) \/ (\E st, late : TcpPoll(st, late))
    PROVE  StreamIsOwn'
<1>1. connNo \in Nat /\ srvConn \in Nat /\ srvConn <= connNo
    BY DEF IInv, StreamOK, TcpTypeOK, SrvTypeOK, StreamIsOwn
<1>2. srvConn' = srvConn /\ wire' = wire
    BY DEF srvVars
<1>3. /\ in' \in Seq(FromHere)
      /\ connNo' = connNo \/ (connNo' = connNo + 1 /\ in' = <<>>)
    BY TcpDrops DEF IInv, StreamIsOwn
<1>4. CASE connNo' = connNo
    BY <1>2, <1>3, <1>4 DEF StreamIsOwn, FromHere
<1>5. CASE connNo' = connNo + 1 /\ in' = <<>>
    <2>1. srvConn' <= connNo' /\ srvConn' # connNo'
        BY <1>1, <1>2, <1>5
    <2>2. <<>> \in Seq(FromHere')
        BY EmptyType
    <2> QED BY <1>5, <2>1, <2>2 DEF StreamIsOwn
<1> QED BY <1>3, <1>4, <1>5

(* A poll of the session or of the message takes units off the stream.     *)
LEMMA TakingKeepsOwn ==
    ASSUME StreamIsOwn, UNCHANGED srvVars, in' \in Seq(FromHere), connNo' = connNo
    PROVE  StreamIsOwn'
BY DEF StreamIsOwn, FromHere, srvVars

(* The stream of a connection carries no handle but its own, whatever      *)
(* happens.                                                                *)
LEMMA OwnNext ==
    ASSUME IInv, StreamIsOwn, [Next]_vars
    PROVE  StreamIsOwn'
<1>0. FromHere \in SUBSET Unit /\ in \in Seq(FromHere)
    BY DEF FromHere, StreamIsOwn
<1>f. UNCHANGED <<tcpVars, srvVars>> => StreamIsOwn'
    BY StreamIsOwnFrame DEF tcpVars, srvVars
<1>1. CASE AppCall
    <2>1. UNCHANGED srvVars
        BY <1>1 DEF AppCall, Begin, Connect, Disconnect, SetCpuSlot, CreateTag, DestroyTag,
                    Read, Write, AbortTag, SetTag, Started, stack
    <2>2. UNCHANGED tcpVars \/ TcpClose \/ TcpConnect("Pending")
        BY <1>1 DEF AppCall, Begin, Connect, ConnectNow, ConnectQueued, Disconnect,
                    SetCpuSlot, CreateTag, DestroyTag, Read, Write, AbortTag, SetTag,
                    Started, stack
    <2> QED BY <1>f, <2>1, <2>2, TcpKeepsOwn
<1>2. CASE EthernetPoll \/ ConnectingPoll \/ DisconnectEnd \/ ReadyEnd
    <2>1. UNCHANGED srvVars
        BY <1>2 DEF EthernetPoll, ConnectingPoll, DisconnectEnd, ReadyEnd
    <2>2. \/ UNCHANGED tcpVars \/ TcpClose
          \/ (\E st : TcpConnect(st)) \/ (\E st, late : TcpPoll(st, late))
        BY <1>2 DEF EthernetPoll, ConnectingPoll, DisconnectEnd, ReadyEnd
    <2> QED BY <1>f, <2>1, <2>2, TcpKeepsOwn
<1>3. CASE DisconnectingPoll \/ RegisteringPoll
    <2>1. UNCHANGED srvVars
        BY <1>3 DEF DisconnectingPoll, RegisteringPoll
    <2>2. UNCHANGED tcpVars \/ \E st, late : SessPoll(st, late)
        BY <1>3 DEF DisconnectingPoll, RegisteringPoll
    <2>3. ASSUME NEW st, NEW late, SessPoll(st, late)
          PROVE  in' \in Seq(FromHere) /\ connNo' = connNo
        <3>1. CASE SessTimeout(st, late) \/ SessSettled(st)
            BY <1>0, <3>1 DEF SessTimeout, SessSettled, tcpVars
        <3>2. CASE SessInFlight /\ \E r \in Advance(sessTx, sessRx, sessWant, SessMaxBody) :
                                      Exchanged(r)
            <4>1. PICK r \in Advance(sessTx, sessRx, sessWant, SessMaxBody) : Exchanged(r)
                BY <3>2
            <4>2. r.in \in Seq(FromHere)
                BY <1>0, AdvanceType, SessAssumption
                   DEF IInv, SessOK, SessTypeOK, StreamOK, TcpTypeOK, SrvTypeOK
            <4> QED BY <4>1, <4>2 DEF Exchanged
        <3> QED BY <2>3, <3>1, <3>2
                DEF SessPoll, PollRegistering, PollUnregistering, SessInFlight
    <2> QED BY <1>f, <2>1, <2>2, <2>3, TakingKeepsOwn
<1>4. CASE ReadyPoll \/ SkipTag \/ CallbackReturns
    BY <1>f, <1>4 DEF ReadyPoll, SkipTag, CallbackReturns, stack
<1>5. CASE VisitTag
    <2>1. UNCHANGED srvVars /\ \E st : TagPoll(idx, st)
        BY <1>5 DEF VisitTag
    <2>2. UNCHANGED tcpVars \/ \E m : MsgPoll(m)
        BY <2>1 DEF TagPoll
    <2>3. ASSUME NEW m, MsgPoll(m) PROVE in' \in Seq(FromHere) /\ connNo' = connNo
        BY <1>0, <2>3, PollKeepsStream DEF IInv, MessageOK
    <2> QED BY <1>f, <2>1, <2>2, <2>3, TakingKeepsOwn
<1>6. CASE Tick
    BY <1>6, StreamIsOwnFrame DEF Tick, tcpVars, srvVars
<1>7. CASE Environment
    <2>1. connNo \in Nat /\ \A u \in Unit : u.f.sess \in {0, connNo} => u \in FromHere
        BY DEF FromHere, IInv, StreamOK, TcpTypeOK
    <2>2. /\ connNo' = connNo /\ srvConn' <= connNo' /\ in' \in Seq(FromHere)
          /\ srvConn' = connNo' => wire' \in Seq(FromHere)
        BY <1>0, <1>7, <2>1, ServerSends DEF Environment, IInv, StreamIsOwn
    <2> QED BY <2>2 DEF StreamIsOwn, FromHere
<1>8. CASE UNCHANGED vars
    BY <1>8, <1>f DEF vars, stack
<1> QED BY <1>1, <1>2, <1>3, <1>4, <1>5, <1>6, <1>7, <1>8 DEF Next, PollStep

(* Of the client's steps, what leaves these alone keeps what being Ready   *)
(* rests on.                                                               *)
readyVars == <<plcState, sessState, sessTx, sessRx, sessWant, handle, connNo, tcpState,
               sock, out, in, srvVars, pc, lost>>

(* A step that changes none of these keeps what ReadyInv says of them.     *)
LEMMA QuietKeepsReady ==
    ASSUME ReadyInv, UNCHANGED readyVars
    PROVE  ConnectingOK' /\ RegisteringOK' /\ ReadyOK'
<1>1. /\ UNCHANGED <<plcState, sessState, sessTx, sessRx, sessWant, handle, connNo>>
      /\ UNCHANGED <<tcpState, sock, out, in, srvVars, pc, lost>>
    BY DEF readyVars
<1>2. Alone => Alone'
    BY <1>1, StreamsStay
<1>3. ConnectingOK'
    BY <1>1 DEF ReadyInv, ConnectingOK, Connected, srvVars
<1>4. RegisteringOK'
    BY <1>1, <1>2 DEF ReadyInv, RegisteringOK, FromHere
<1>5. ReadyOK'
    BY <1>1 DEF ReadyInv, ReadyOK, Connected
<1> QED BY <1>3, <1>4, <1>5

(* A connection is opened with nothing on it (TcpConnection.cpp:20-79).    *)
LEMMA ConnectsFresh ==
    ASSUME ReadyInv, TcpConnect("Pending"), UNCHANGED srvVars
    PROVE  ConnectingOK'
<1>1. connNo \in Nat /\ srvConn \in Nat /\ srvConn <= connNo
    BY DEF ReadyInv, IInv, StreamOK, TcpTypeOK, SrvTypeOK, StreamIsOwn
<1>2. connNo' = connNo + 1 /\ srvConn' = srvConn /\ tcpState' = "Pending"
      /\ out' = <<>> /\ in' = <<>>
    BY DEF TcpConnect, srvVars
<1>3. srvConn' # connNo'
    BY <1>1, <1>2
<1> QED BY <1>2, <1>3 DEF ConnectingOK, Connected

(* poll() while Connecting opens the session with nothing sent or received *)
(* on the connection, and while Registering it becomes Ready only on the   *)
(* handle of a unit of this connection (PlcClient.cpp:86-123).             *)
LEMMA AttemptKeepsReady ==
    ASSUME ReadyInv, ConnectingPoll \/ RegisteringPoll
    PROVE  ConnectingOK' /\ RegisteringOK' /\ ReadyOK'
<1>1. CASE ConnectingPoll
    <2>0. /\ plcState = "Connecting" /\ pc' = "app" /\ UNCHANGED srvVars
          /\ ~Connected /\ out = <<>> /\ in = <<>> /\ (srvConn = connNo => wire = <<>>)
        BY <1>1 DEF ConnectingPoll, pollVars, ReadyInv, ConnectingOK
    <2>1. CASE plcState' = "Failed"
        BY <2>1 DEF ConnectingOK, RegisteringOK, ReadyOK
    <2>2. CASE plcState' # "Failed"
        <3>1. PICK st \in Status, late \in BOOLEAN :
                 /\ TcpPoll(st, late)
                 /\ IF st = "Ok"
                    THEN plcState' = "Registering" /\ SessOpen(TRUE, "Pending")
                    ELSE plcState' = plcState /\ st \notin {"Timeout", "Error"}
            BY <1>1, <2>2 DEF ConnectingPoll, SessOpen
        <3>2. CASE st # "Ok"
            <4>1. plcState' = "Connecting" /\ UNCHANGED tcpVars
                BY <2>0, <3>1, <3>2 DEF TcpPoll
            <4>2. ConnectingOK'
                BY <2>0, <4>1 DEF ConnectingOK, Connected, tcpVars, srvVars
            <4> QED BY <4>1, <4>2 DEF RegisteringOK, ReadyOK
        <3>3. CASE st = "Ok"
            <4>1. /\ plcState' = "Registering" /\ UNCHANGED <<out, in, sock, connNo>>
                  /\ StartExchange("Registering", "RegisterSession", 0, RegLen)
                BY <2>0, <3>1, <3>3 DEF TcpPoll, Connected, SessOpen
            <4>2. sessState' = "Registering" /\ sessRx' = <<>> /\ sessWant' = HeaderLen
                BY <4>1 DEF StartExchange
            <4>3. sessRx' \in Seq(FromHere') /\ Len(sessRx') = 0
                BY <4>2, EmptyType
            <4>4. Len(sessRx') < sessWant'
                BY <4>2, <4>3, HeaderLenAssumption
            <4>5. "RegisterSession" \in Command /\ 0 \in Nat /\ RegLen \in Nat
                BY SessAssumption DEF Command
            <4>6. Alone'
                BY <2>0, <4>1, <4>5, StartsAlone
            <4> QED BY <2>0, <4>1, <4>2, <4>3, <4>4, <4>6
                    DEF ConnectingOK, RegisteringOK, ReadyOK
        <3> QED BY <3>2, <3>3
    <2> QED BY <2>1, <2>2
<1>2. CASE RegisteringPoll
    <2>1. CASE plcState' = "Failed"
        BY <2>1 DEF ConnectingOK, RegisteringOK, ReadyOK
    <2>2. CASE plcState' # "Failed"
        <3>1. PICK st \in Status, late \in BOOLEAN :
                 /\ SessPoll(st, late)
                 /\ plcState' = CASE st = "Ok" -> "Ready"
                                  [] st \in {"Timeout", "Error"} -> "Failed"
                                  [] OTHER -> plcState
                 /\ pc' = IF st = "Ok" THEN AfterStateCallback ELSE pc
            BY <1>2, <2>2 DEF RegisteringPoll
        <3>2. /\ plcState = "Registering" /\ pc = "app" /\ UNCHANGED srvVars
              /\ StreamOK /\ SessOK /\ StreamIsOwn
            BY <1>2 DEF RegisteringPoll, ReadyInv, IInv
        <3>3. /\ sessState \in {"Registering", "Failed"} /\ sessRx \in Seq(FromHere)
              /\ sessState = "Registering" => Len(sessRx) < sessWant /\ Alone
            BY <3>2 DEF ReadyInv, RegisteringOK
        <3>4. FromHere \in SUBSET Unit /\ in \in Seq(FromHere)
            BY <3>2 DEF FromHere, StreamIsOwn
        <3>5. /\ sessRx' \in Seq(FromHere) /\ connNo' = connNo
              /\ sessState' = "Registered" =>
                    (sessState = "Registered"
                       \/ ((\E u \in FromHere : handle' = u.f.sess) /\ handle' # 0))
            BY <3>1, <3>2, <3>3, <3>4, HandleFromReply
        <3>6. \/ st # "Ok" /\ sessState' = "Failed"
              \/ st # "Ok" /\ sessState' = "Registering" /\ Len(sessRx') < sessWant'
              \/ st = "Ok" /\ sessState' = "Registered" /\ tcpState' = "Ok"
            BY <3>1, <3>2, <3>3, RegisteredWhileConnected
        <3>7. FromHere' = FromHere
            BY <3>5 DEF FromHere
        <3>8. CASE st = "Ok"
            <4>1. plcState' = "Ready" /\ sessState' = "Registered" /\ Connected'
                BY <3>1, <3>6, <3>8 DEF Connected
            <4>2. handle' = connNo'
                BY <3>3, <3>5, <4>1 DEF FromHere
            <4> QED BY <4>1, <4>2 DEF ConnectingOK, RegisteringOK, ReadyOK
        <3>9. CASE st # "Ok"
            <4>1. plcState' = "Registering" /\ pc' = "app"
                BY <2>2, <3>1, <3>2, <3>9
            <4>2. /\ sessState' \in {"Registering", "Failed"}
                  /\ sessState' = "Registering" => Len(sessRx') < sessWant'
                BY <3>6, <3>9
            <4>3. Up' = Up /\ Down' = Down
                BY <3>1, <3>2, SessPollKeepsStreams
            <4>4. sessState' = "Registering" => sessState = "Registering"
                BY <3>1, <3>3 DEF SessPoll, SessTimeout, PollRegistering, PollUnregistering,
                                  SessSettled, sessVars
            <4>5. sessState' = "Registering" => Alone'
                BY <3>3, <4>3, <4>4, AloneStays
            <4> QED BY <3>5, <3>7, <4>1, <4>2, <4>5 DEF ConnectingOK, RegisteringOK, ReadyOK
        <3> QED BY <3>8, <3>9
    <2> QED BY <2>1, <2>2
<1> QED BY <1>1, <1>2

(* poll() of the message on a connection that is not up moves nothing      *)
(* (TcpConnection.cpp:135-190).                                            *)
LEMMA PollWhileDown ==
    ASSUME IInv, ~Connected, out = <<>>, in = <<>>, NEW m, MsgPoll(m)
    PROVE  out' = <<>> /\ in' = <<>> /\ (Connected' => Connected)
<1>0. MsgOK /\ StreamOK /\ msgTx \in Seq(Unit)
    BY DEF IInv, MessageOK, MsgOK, MsgTypeOK
<1>1. in' = <<>>
    <2>1. {} \in SUBSET Unit /\ in \in Seq({})
        BY EmptyType
    <2>2. in' \in Seq({})
        BY <1>0, <2>1, PollKeepsStream
    <2>3. Len(in') = 0
        <3>1. Len(in') \in Nat /\ \A j \in 1..Len(in') : in'[j] \in {}
            BY <2>2
        <3>2. 1 \notin 1..Len(in')
            BY <3>1
        <3> QED BY <3>1, <3>2
    <2> QED BY <2>2, <2>3, NothingLeft
<1>2. CASE MsgTimeout(m) \/ MsgSettled(m)
    BY <1>1, <1>2 DEF MsgTimeout, MsgSettled, tcpVars, Connected
<1>3. CASE MsgAdvance(m)
    <2>1. PICK r \in Advance(msgTx, msgRx, msgWant, MsgMaxBody) :
             out' = r.out /\ tcpState' = r.tcp
        BY <1>3 DEF MsgAdvance
    <2>2. PICK w \in WriteAll(msgTx) : r.out = w.out
        BY DEF Advance
    <2>3. PICK c \in Taken(msgTx) : w.out = out \o SubSeq(msgTx, 1, c.n)
        BY DEF WriteAll
    <2>4. c.n = 0
        BY DEF Taken
    <2>5. SubSeq(msgTx, 1, 0) \in Seq(Unit) /\ Len(SubSeq(msgTx, 1, 0)) = 0
        BY <1>0
    <2>6. r.out \in Seq(Unit) /\ Len(r.out) = 0
        BY <2>2, <2>3, <2>4, <2>5
    <2>7. out' = <<>>
        BY <2>1, <2>6, NothingLeft
    <2>8. r.tcp \in {tcpState, "Closed"}
        BY <1>0, AdvanceType, MsgAssumption
           DEF MsgOK, MsgTypeOK, StreamOK, TcpTypeOK, SrvTypeOK
    <2> QED BY <1>1, <2>1, <2>7, <2>8 DEF Connected
<1> QED BY <1>2, <1>3 DEF MsgPoll

(* poll() while Ready notices in the same call that the connection is      *)
(* down, and leaves Ready before it returns (PlcClient.cpp:128-150).  The  *)
(* loop goes on when a callback opens another connection in the middle of  *)
(* it, but finds nothing to send to or to read from that.                  *)
LEMMA LoopKeepsReady ==
    ASSUME ReadyInv, ReadyPoll \/ SkipTag \/ VisitTag \/ ReadyEnd \/ CallbackReturns
    PROVE  ConnectingOK' /\ RegisteringOK' /\ ReadyOK'
<1>0. plcState # "Registering" /\ UNCHANGED srvVars
    BY DEF ReadyInv, RegisteringOK, ReadyPoll, SkipTag, VisitTag, ReadyEnd, CallbackReturns,
           stack
<1>1. CASE ReadyPoll \/ SkipTag \/ CallbackReturns
    <2>1. /\ UNCHANGED <<plcState, sessState, handle>>
          /\ UNCHANGED <<connNo, tcpState, out, in, srvVars>>
        BY <1>1 DEF ReadyPoll, SkipTag, CallbackReturns, stack, tcpVars, sessVars, plcVars
    <2>2. ConnectingOK' /\ RegisteringOK'
        BY <1>0, <2>1 DEF ReadyInv, ConnectingOK, RegisteringOK, Connected, srvVars
    <2>3. \/ pc = "app" /\ pc' = "loop"
          \/ pc \in {"loop", "tagcb"} /\ pc' = "loop" /\ lost' = lost
          \/ pc = "statecb" /\ pc' = "app"
        BY <1>1 DEF ReadyPoll, SkipTag, CallbackReturns
    <2>4. ReadyOK'
        BY <2>1, <2>3 DEF ReadyInv, ReadyOK, Connected
    <2> QED BY <2>2, <2>4
<1>2. CASE VisitTag
    <2>1. PICK st \in Status :
             /\ TagPoll(idx, st) /\ lost' = (lost \/ st = "Closed")
             /\ pc' \in {"loop", "tagcb"}
        BY <1>2 DEF VisitTag
    <2>2. UNCHANGED <<plcState, sessState, handle>> /\ pc = "loop"
        BY <1>2 DEF VisitTag, sessVars
    <2>a. UNCHANGED tcpVars \/ \E m \in Status : MsgPoll(m) /\ (m = "Closed" => st = "Closed")
        BY <2>1 DEF TagPoll
    <2>3. connNo' = connNo /\ (tcpState' = tcpState \/ st = "Closed")
        <3>1. CASE UNCHANGED tcpVars
            BY <3>1 DEF tcpVars
        <3>2. ASSUME NEW m \in Status, MsgPoll(m), m = "Closed" => st = "Closed"
              PROVE  connNo' = connNo /\ (tcpState' = tcpState \/ st = "Closed")
            <4>1. Unit \in SUBSET Unit /\ in \in Seq(Unit) /\ MsgOK /\ StreamOK
                BY DEF ReadyInv, IInv, MessageOK, StreamOK, SrvTypeOK
            <4> QED BY <3>2, <4>1, PollKeepsStream
        <3> QED BY <2>a, <3>1, <3>2
    <2>4. RegisteringOK'
        BY <1>0, <2>2 DEF RegisteringOK
    <2>5. Connected => Connected' \/ lost'
        BY <2>1, <2>3, Zenon DEF Connected
    <2>6. lost => lost'
        BY <2>1, Zenon
    <2>7. ReadyOK'
        BY <2>1, <2>2, <2>3, <2>5, <2>6 DEF ReadyInv, ReadyOK
    <2>8. ConnectingOK'
        <3>1. SUFFICES ASSUME plcState' = "Connecting" PROVE ConnectingOK'
            BY DEF ConnectingOK
        <3>2. ~Connected /\ out = <<>> /\ in = <<>> /\ (srvConn = connNo => wire = <<>>)
            BY <2>2, <3>1 DEF ReadyInv, ConnectingOK
        <3>3. ~Connected' /\ out' = <<>> /\ in' = <<>>
            BY <2>a, <3>2, PollWhileDown DEF ReadyInv, tcpVars, Connected
        <3> QED BY <1>0, <2>3, <3>2, <3>3 DEF ConnectingOK, srvVars
    <2> QED BY <2>4, <2>7, <2>8
<1>3. CASE ReadyEnd
    <2>1. CASE lost
        BY <1>3, <2>1 DEF ReadyEnd, ConnectingOK, RegisteringOK, ReadyOK
    <2>2. CASE ~lost
        <3>1. UNCHANGED <<plcState, sessState, handle, connNo, tcpState, out, in>>
            BY <1>3, <2>2 DEF ReadyEnd, sessVars, tcpVars
        <3>2. ConnectingOK' /\ RegisteringOK'
            BY <1>0, <3>1 DEF ReadyInv, ConnectingOK, RegisteringOK, Connected, srvVars
        <3>3. ReadyOK'
            BY <2>2, <3>1 DEF ReadyInv, ReadyOK, Connected
        <3> QED BY <3>2, <3>3
    <2> QED BY <2>1, <2>2
<1> QED BY <1>1, <1>2, <1>3

(* The PLC and the network leave a fresh connection and a registration     *)
(* alone.                                                                  *)
LEMMA WorldKeepsReady ==
    ASSUME ReadyInv, Environment
    PROVE  ConnectingOK' /\ RegisteringOK' /\ ReadyOK'
<1>1. /\ SrvNext /\ UNCHANGED <<tcpState, connNo>>
      /\ UNCHANGED <<sessState, sessTx, sessRx, sessWant, handle, plcState, pc, lost>>
    BY DEF Environment, SrvNext, SrvAccept, SrvReceive, SrvHandle, Consume, Respond,
           SrvMisread, Deliver, PeerCloses, Establish, PeerResets, tcpVars, sessVars,
           plcVars, pollVars
<1>2. ConnectingOK'
    <2>1. SUFFICES ASSUME plcState' = "Connecting" PROVE ConnectingOK'
        BY DEF ConnectingOK
    <2>2. ~Connected /\ out = <<>> /\ in = <<>> /\ (srvConn = connNo => wire = <<>>)
        BY <1>1, <2>1 DEF ReadyInv, ConnectingOK
    <2>3. out' = <<>> /\ in' = <<>> /\ (srvConn' = connNo' => wire' = <<>>)
        BY <1>1, <2>2 DEF SrvNext, SrvAccept, SrvReceive, SrvHandle, Consume, SrvMisread,
                          Deliver, Serving, PeerCloses, Establish, PeerResets, tcpVars, srvVars
    <2> QED BY <1>1, <2>2, <2>3 DEF ConnectingOK, Connected
<1>3. RegisteringOK'
    <2>1. Alone => Alone'
        BY <1>1, ServerKeepsAlone DEF ReadyInv, IInv
    <2> QED BY <1>1, <2>1 DEF ReadyInv, RegisteringOK, FromHere
<1>4. ReadyOK'
    BY <1>1 DEF ReadyInv, ReadyOK, Connected
<1> QED BY <1>2, <1>3, <1>4

(* Every step keeps what being Ready rests on.                             *)
LEMMA ReadyNext ==
    ASSUME ReadyInv, [Next]_vars
    PROVE  ConnectingOK' /\ RegisteringOK' /\ ReadyOK'
<1>1. CASE Begin \/ Disconnect \/ DisconnectEnd \/ DisconnectingPoll
    <2>1. plcState' \in {"Ethernet", "Disconnecting", "Idle"}
        BY <1>1 DEF Begin, Disconnect, DisconnectEnd, DisconnectingPoll, plcVars
    <2> QED BY <2>1 DEF ConnectingOK, RegisteringOK, ReadyOK
<1>2. CASE Connect \/ EthernetPoll
    <2>1. UNCHANGED srvVars
        BY <1>2 DEF Connect, EthernetPoll
    <2>2. \/ plcState' \in {"Ethernet", "Failed"}
          \/ plcState' = "Connecting" /\ TcpConnect("Pending")
        BY <1>2 DEF Connect, ConnectNow, ConnectQueued, EthernetPoll
    <2> QED BY <2>1, <2>2, ConnectsFresh DEF ConnectingOK, RegisteringOK, ReadyOK
<1>3. CASE SetCpuSlot \/ CreateTag \/ DestroyTag \/ AbortTag \/ SetTag
    <2>1. UNCHANGED readyVars
        BY <1>3 DEF SetCpuSlot, CreateTag, DestroyTag, AbortTag, SetTag, stack,
                    tcpVars, sessVars, plcVars, pollVars, readyVars
    <2> QED BY <2>1, QuietKeepsReady
<1>4. CASE Read \/ Write
    <2>1. UNCHANGED <<tcpVars, sessVars, srvVars, plcVars, pollVars>>
        BY <1>4 DEF Read, Write, Started
    <2>2. UNCHANGED readyVars
        BY <2>1 DEF tcpVars, sessVars, plcVars, pollVars, readyVars
    <2> QED BY <2>2, QuietKeepsReady
<1>5. CASE Tick
    <2>1. UNCHANGED readyVars
        BY <1>5 DEF Tick, SessDeadline, tcpVars, sessVars, pollVars, readyVars
    <2> QED BY <2>1, QuietKeepsReady
<1>6. CASE UNCHANGED vars
    <2>1. UNCHANGED readyVars
        BY <1>6 DEF vars, stack, tcpVars, sessVars, plcVars, pollVars, readyVars
    <2> QED BY <2>1, QuietKeepsReady
<1> QED BY <1>1, <1>2, <1>3, <1>4, <1>5, <1>6, AttemptKeepsReady, LoopKeepsReady,
           WorldKeepsReady
        DEF Next, AppCall, PollStep

(* The initial states.                                                     *)
LEMMA ReadyInvInit == Init => ReadyInv
<1> SUFFICES ASSUME Init PROVE ReadyInv
    OBVIOUS
<1>1. IInv
    BY IInvInit
<1>2. in = <<>> /\ wire = <<>> /\ srvConn <= connNo
    BY DEF Init, TcpInit, SrvInit
<1>3. StreamIsOwn
    BY <1>2, EmptyType DEF StreamIsOwn
<1>4. ConnectingOK /\ RegisteringOK /\ ReadyOK
    BY DEF Init, ConnectingOK, RegisteringOK, ReadyOK
<1> QED BY <1>1, <1>3, <1>4 DEF ReadyInv

(* ready() means that the connection is up and the session registered on   *)
(* it, with the handle the PLC gave on this very connection                *)
(* (PlcClient.cpp:26-29, 144-147), whatever the PLC sends, however packets *)
(* are cut, and whatever the application does in and out of callbacks.     *)
THEOREM ReadyIsRegistered == Spec => []ReadyMeansRegistered
<1>1. ReadyInv /\ [Next]_vars => ReadyInv'
    <2>1. IInv /\ [Next]_vars => IInv'
        BY CallsKeepIInv, PollKeepsIInv, WorldKeepsIInv DEF Next
    <2> QED BY <2>1, OwnNext, ReadyNext DEF ReadyInv
<1>2. ReadyInv => ReadyMeansRegistered
    <2>1. ReadyInv => (Connected => fd)
        BY DEF ReadyInv, IInv, StreamOK, TcpTypeOK, Connected
    <2> QED BY <2>1 DEF ReadyInv, ReadyOK, ReadyMeansRegistered
<1> QED BY <1>1, <1>2, ReadyInvInit, PTL DEF Spec
-----------------------------------------------------------------------------
(* The rest holds for an application that keeps to a rule of use; each     *)
(* theorem names the one it needs.                                         *)

(* What a step makes of the slots: it leaves tags, slots and what is owed  *)
(* alone, or it is one of the steps that are about a slot.                 *)
slotVars == <<tags, inUse, prevStatus, owed>>

(* A step leaves the slots alone or is one of those about a slot.          *)
LEMMA SlotSteps ==
    ASSUME [Next]_vars
    PROVE  \/ UNCHANGED slotVars
           \/ CreateTag \/ DestroyTag \/ Read \/ Write \/ AbortTag \/ SetTag \/ VisitTag
<1>1. CASE Begin \/ Connect \/ Disconnect \/ SetCpuSlot
    BY <1>1 DEF Begin, Connect, Disconnect, SetCpuSlot, stack, slotVars
<1>2. CASE EthernetPoll \/ ConnectingPoll \/ RegisteringPoll \/ DisconnectingPoll
    BY <1>2 DEF EthernetPoll, ConnectingPoll, RegisteringPoll, DisconnectingPoll, plcVars,
                slotVars
<1>3. CASE DisconnectEnd \/ ReadyPoll \/ SkipTag \/ ReadyEnd \/ CallbackReturns
    BY <1>3 DEF DisconnectEnd, ReadyPoll, SkipTag, ReadyEnd, CallbackReturns, stack, plcVars,
                slotVars
<1>4. CASE Tick \/ Environment \/ UNCHANGED vars
    BY <1>4 DEF Tick, Environment, vars, stack, plcVars, slotVars
<1> QED BY <1>1, <1>2, <1>3, <1>4 DEF Next, AppCall, PollStep

(* A tag operation that is started makes its own tag busy and no other     *)
(* (Tag.cpp:39-108).                                                       *)
LEMMA StartIsOwn ==
    ASSUME TagTypeOK, NEW t \in Tags, NEW sess, NEW name, NEW valid, NEW st,
           TagRead(t, sess, name, valid, st) \/ TagWrite(t, sess, name, valid, st)
    PROVE  /\ st # "Pending" => tags' = tags
           /\ \A u \in Tags : u # t => tags'[u] = tags[u]
<1>1. \/ tags' = tags
      \/ st = "Pending" /\ tags' = [tags EXCEPT ![t].state = "Reading", ![t].fresh = FALSE,
                                                ![t].code = FALSE]
      \/ st = "Pending" /\ tags' = [tags EXCEPT ![t].state = "Writing"]
    BY DEF TagRead, TagWrite
<1> QED BY <1>1 DEF TagTypeOK

(* poll() of a tag is about that tag only, returns Pending just while its  *)
(* operation goes on, and starts none (Tag.cpp:110-147).                   *)
LEMMA TagPollIsOwn ==
    ASSUME TagTypeOK, NEW t \in Tags, NEW st, TagPoll(t, st)
    PROVE  /\ \A u \in Tags : u # t => tags'[u] = tags[u]
           /\ st = "Pending" => Busy(t)
           /\ st # "Pending" => ~Busy(t)'
           /\ Busy(t)' => Busy(t) /\ tags' = tags
<1>1. CASE ~Busy(t)
    BY <1>1 DEF TagPoll, TagStatus, Busy
<1>2. CASE Busy(t)
    <2>1. PICK m \in Status :
             \/ /\ m = "Pending" /\ st = m /\ tags' = tags
             \/ /\ m \notin {"Pending", "Ok"} /\ st = m
                /\ tags' = [tags EXCEPT ![t].state = "Failed"]
             \/ /\ m = "Ok"
                /\ st = IF MsgReply'.kind = "cipError" THEN "Error" ELSE "Ok"
                /\ \E c \in Completed(t, MsgReply') : tags' = [tags EXCEPT ![t] = c]
        BY <1>2 DEF TagPoll
    <2>2. CASE m = "Pending"
        BY <1>2, <2>1, <2>2
    <2>3. CASE m \notin {"Pending", "Ok"}
        <3>1. st # "Pending" /\ tags' = [tags EXCEPT ![t].state = "Failed"]
            BY <2>1, <2>3
        <3> QED BY <1>2, <3>1 DEF TagTypeOK, TagRecord, Busy
    <2>4. CASE m = "Ok"
        <3>1. st # "Pending"
            BY <2>1, <2>4
        <3>2. PICK c \in Completed(t, MsgReply') :
                 tags' = [tags EXCEPT ![t] = c] /\ c.state \in {"Done", "Failed"}
            BY <2>1, <2>4, CompletedEnds
        <3> QED BY <1>2, <3>1, <3>2 DEF TagTypeOK, Busy
    <2> QED BY <2>2, <2>3, <2>4
<1> QED BY <1>1, <1>2

(* Only a tag in use is busy: destroyTag() leaves a busy Tag behind in a   *)
(* free slot (PlcClient.cpp:191-197) unless the application sees to it     *)
(* that the tag is idle.                                                   *)
OwnerOK == \A t \in Tags : Busy(t) => inUse[t]

(* Under the rule every step keeps it: only an idle tag is destroyed.      *)
LEMMA OwnerNext ==
    ASSUME "IdleDestroy" \in AppRules, IInv, OwnerOK, [Next]_vars
    PROVE  OwnerOK'
<1>0. TagTypeOK /\ inUse \in [Tags -> BOOLEAN]
    BY DEF IInv, PoolOK, ClientOK
<1>1. CASE UNCHANGED slotVars
    BY <1>1 DEF slotVars, OwnerOK, Busy
<1>2. CASE CreateTag
    <2>1. tags' = tags /\ \A u \in Tags : inUse[u] => inUse'[u]
        BY <1>0, <1>2 DEF CreateTag, stack
    <2> QED BY <2>1 DEF OwnerOK, Busy
<1>3. CASE DestroyTag
    <2>1. PICK t \in Tags : ~Busy(t) /\ inUse' = [inUse EXCEPT ![t] = FALSE]
        BY <1>3 DEF DestroyTag, Allowed
    <2>2. tags' = tags
        BY <1>3 DEF DestroyTag, stack
    <2> QED BY <1>0, <2>1, <2>2 DEF OwnerOK, Busy
<1>4. CASE Read \/ Write
    <2>1. PICK t \in Tags, st \in Status :
             /\ inUse[t]
             /\ TagRead(t, handle, tagName[t], slotOk, st)
                   \/ TagWrite(t, handle, tagName[t], slotOk, st)
             /\ Started(t, st)
        BY <1>4 DEF Read, Write, validHandle
    <2>2. inUse' = inUse
        BY <2>1 DEF Started, plcVars
    <2> QED BY <1>0, <2>1, <2>2, StartIsOwn DEF OwnerOK, Busy
<1>5. CASE AbortTag
    <2>1. PICK t \in Tags : inUse[t] /\ TagAbort(t)
        BY <1>5 DEF AbortTag, validHandle
    <2>2. inUse' = inUse
        BY <1>5 DEF AbortTag
    <2> QED BY <1>0, <2>1, <2>2 DEF TagAbort, TagTypeOK, OwnerOK, Busy
<1>6. CASE SetTag
    <2>1. PICK t \in Tags : TagSet(t)
        BY <1>6 DEF SetTag
    <2>2. inUse' = inUse
        BY <1>6 DEF SetTag, plcVars
    <2>3. \A u \in Tags : Busy(u)' <=> Busy(u)
        BY <1>0, <2>1, SetKeepsStates
    <2> QED BY <2>2, <2>3 DEF OwnerOK
<1>7. CASE VisitTag
    <2>1. PICK st \in Status : TagPoll(idx, st)
        BY <1>7 DEF VisitTag
    <2>2. idx \in Tags /\ inUse' = inUse
        BY <1>7, LoopVisits DEF VisitTag, IInv
    <2> QED BY <1>0, <2>1, <2>2, TagPollIsOwn DEF OwnerOK, Busy
<1> QED BY <1>1, <1>2, <1>3, <1>4, <1>5, <1>6, <1>7, SlotSteps

(* The two together, always.                                               *)
LEMMA OwnerAlways ==
    ASSUME "IdleDestroy" \in AppRules
    PROVE  Spec => [](IInv /\ OwnerOK)
<1>1. Init => OwnerOK
    BY DEF Init, TagInit, OwnerOK, Busy
<1>2. IInv /\ OwnerOK /\ [Next]_vars => OwnerOK'
    BY OwnerNext
<1> QED BY <1>1, <1>2, IInvAlways, PTL DEF Spec

(* Busy is never for good (PlcClient.h:102-104): while the shared message  *)
(* is in flight some tag in use is busy with it, which the application can *)
(* abort - provided it destroys idle tags only.                            *)
THEOREM BusyIsAbortable ==
    ASSUME "IdleDestroy" \in AppRules
    PROVE  Spec => []BusyHasOwner
<1>1. ASSUME IInv, OwnerOK, MsgInFlight
      PROVE  anyTagBusy
    <2>1. PICK t \in Tags : Busy(t)
        BY <1>1 DEF IInv, PoolOK, SingleInFlight
    <2>2. inUse[t] /\ TagStatus(t) = "Pending"
        BY <1>1, <2>1 DEF OwnerOK, TagStatus, Busy
    <2> QED BY <2>2 DEF anyTagBusy
<1>2. IInv /\ OwnerOK => BusyHasOwner
    BY <1>1 DEF BusyHasOwner
<1> QED BY <1>2, OwnerAlways, PTL
-----------------------------------------------------------------------------
(* A tag in use that is busy, or was when poll() last looked, is owed a    *)
(* callback (PlcClient.cpp:128-143).                                       *)
OwedOK ==
    \A t \in Tags : inUse[t] /\ (Busy(t) \/ prevStatus[t] = "Pending") => owed[t]

(* Every step keeps it: poll() settles the debt with the callback.         *)
LEMMA OwedNext ==
    ASSUME IInv, OwnerOK, OwedOK, [Next]_vars
    PROVE  OwedOK'
<1>0. /\ TagTypeOK /\ inUse \in [Tags -> BOOLEAN] /\ owed \in [Tags -> BOOLEAN]
      /\ prevStatus \in [Tags -> Status]
    BY DEF IInv, PoolOK, ClientOK
<1>1. CASE UNCHANGED slotVars
    BY <1>1 DEF slotVars, OwedOK, Busy
<1>2. CASE CreateTag
    <2>1. PICK t \in Tags :
             /\ ~inUse[t] /\ inUse' = [inUse EXCEPT ![t] = TRUE]
             /\ prevStatus' = [prevStatus EXCEPT ![t] = "NotReady"]
             /\ owed' = [owed EXCEPT ![t] = FALSE]
        BY <1>2 DEF CreateTag
    <2>2. tags' = tags /\ ~Busy(t)
        BY <1>2, <2>1 DEF CreateTag, stack, OwnerOK
    <2> QED BY <1>0, <2>1, <2>2 DEF OwedOK, Busy
<1>3. CASE DestroyTag
    <2>1. PICK t \in Tags :
             inUse' = [inUse EXCEPT ![t] = FALSE] /\ owed' = [owed EXCEPT ![t] = FALSE]
        BY <1>3 DEF DestroyTag
    <2>2. tags' = tags /\ prevStatus' = prevStatus
        BY <1>3 DEF DestroyTag, stack
    <2> QED BY <1>0, <2>1, <2>2 DEF OwedOK, Busy
<1>4. CASE Read \/ Write
    <2>1. PICK t \in Tags, st \in Status :
             /\ TagRead(t, handle, tagName[t], slotOk, st)
                   \/ TagWrite(t, handle, tagName[t], slotOk, st)
             /\ Started(t, st)
        BY <1>4 DEF Read, Write
    <2>2. /\ UNCHANGED <<inUse, prevStatus>>
          /\ owed' = IF st = "Pending" THEN [owed EXCEPT ![t] = TRUE] ELSE owed
        BY <2>1 DEF Started, plcVars
    <2>3. /\ st # "Pending" => tags' = tags
          /\ \A u \in Tags : u # t => tags'[u] = tags[u]
        BY <1>0, <2>1, StartIsOwn
    <2>4. CASE st = "Pending"
        BY <1>0, <2>2, <2>3, <2>4 DEF OwedOK, Busy
    <2>5. CASE st # "Pending"
        BY <2>2, <2>3, <2>5 DEF OwedOK, Busy
    <2> QED BY <2>4, <2>5
<1>5. CASE AbortTag
    <2>1. PICK t \in Tags :
             /\ tags' = [tags EXCEPT ![t].state = "Idle", ![t].fresh = FALSE]
             /\ prevStatus' = [prevStatus EXCEPT ![t] = "NotReady"]
             /\ owed' = [owed EXCEPT ![t] = FALSE]
        BY <1>5 DEF AbortTag, TagAbort
    <2>2. inUse' = inUse
        BY <1>5 DEF AbortTag
    <2>3. ~Busy(t)' /\ \A u \in Tags : u # t => tags'[u] = tags[u]
        BY <1>0, <2>1 DEF TagTypeOK, TagRecord, Busy
    <2> QED BY <1>0, <2>1, <2>2, <2>3 DEF OwedOK, Busy
<1>6. CASE SetTag
    <2>1. PICK t \in Tags : TagSet(t)
        BY <1>6 DEF SetTag
    <2>2. UNCHANGED <<inUse, prevStatus, owed>>
        BY <1>6 DEF SetTag, plcVars
    <2>3. \A u \in Tags : Busy(u)' <=> Busy(u)
        BY <1>0, <2>1, SetKeepsStates
    <2> QED BY <2>2, <2>3 DEF OwedOK
<1>7. CASE VisitTag
    <2>1. PICK t \in Tags : t = idx
        BY <1>7, LoopVisits DEF VisitTag, IInv
    <2>2. PICK st \in Status :
             /\ TagPoll(t, st)
             /\ prevStatus' = [prevStatus EXCEPT ![t] = st]
             /\ owed' = IF Reports(t, st) THEN [owed EXCEPT ![t] = FALSE] ELSE owed
        BY <1>7, <2>1 DEF VisitTag
    <2>3. inUse' = inUse
        BY <1>7 DEF VisitTag
    <2>4. /\ \A u \in Tags : u # t => tags'[u] = tags[u]
          /\ st = "Pending" => Busy(t)
          /\ st # "Pending" => ~Busy(t)'
        BY <1>0, <2>2, TagPollIsOwn
    <2>5. \A u \in Tags : u # t => prevStatus'[u] = prevStatus[u] /\ owed'[u] = owed[u]
        BY <1>0, <2>2
    <2>6. ASSUME NEW u \in Tags, u # t, inUse'[u], Busy(u)' \/ prevStatus'[u] = "Pending"
          PROVE  owed'[u]
        BY <2>3, <2>4, <2>5, <2>6 DEF OwedOK, Busy
    <2>7. ASSUME inUse'[t], Busy(t)' \/ prevStatus'[t] = "Pending"
          PROVE  owed'[t]
        <3>1. st = "Pending"
            BY <1>0, <2>2, <2>4, <2>7
        <3>2. owed' = owed
            BY <2>2, <3>1 DEF Reports
        <3> QED BY <2>3, <2>4, <2>7, <3>1, <3>2 DEF OwedOK
    <2> QED BY <2>6, <2>7 DEF OwedOK
<1> QED BY <1>1, <1>2, <1>3, <1>4, <1>5, <1>6, <1>7, SlotSteps

(* The tag callback tells of an operation that was started on that very    *)
(* tag since it was created, and tells of it once (PlcClient.h:25),        *)
(* whatever is called from callbacks - provided tags are destroyed idle.   *)
THEOREM CallbackIsOwed ==
    ASSUME "IdleDestroy" \in AppRules
    PROVE  Spec => CallbackOnlyIfOwed
<1>1. Init => OwedOK
    BY DEF Init, OwedOK
<1>2. IInv /\ OwnerOK /\ OwedOK /\ [Next]_vars => OwedOK'
    BY OwedNext
<1>3. ASSUME IInv, OwedOK, [Next]_vars, pc' = "tagcb", pc = "loop"
      PROVE  owed[idx]
    <2>1. VisitTag
        <3>1. ~AppCall
            BY <1>3 DEF AppCall, Calls, Begin, Connect, Disconnect, SetCpuSlot, CreateTag,
                        DestroyTag, Read, Write, AbortTag, SetTag
        <3>2. ~Tick /\ ~Environment /\ ~UNCHANGED vars
            BY <1>3 DEF Tick, Environment, vars, pollVars
        <3>3. PollStep
            BY <1>3, <3>1, <3>2 DEF Next
        <3> QED BY <1>3, <3>3
                DEF PollStep, EthernetPoll, ConnectingPoll, RegisteringPoll, DisconnectingPoll,
                    DisconnectEnd, ReadyPoll, SkipTag, ReadyEnd, CallbackReturns,
                    AfterStateCallback
    <2>2. PICK st \in Status : Reports(idx, st)
        BY <1>3, <2>1 DEF VisitTag
    <2>3. idx \in Tags /\ inUse[idx]
        BY <1>3, <2>1, LoopVisits DEF VisitTag, IInv
    <2> QED BY <1>3, <2>2, <2>3 DEF Reports, OwedOK
<1>4. IInv /\ OwedOK /\ [Next]_vars => [pc' = "tagcb" /\ pc = "loop" => owed[idx]]_vars
    BY <1>3
<1> QED BY <1>1, <1>2, <1>4, OwnerAlways, PTL DEF Spec, CallbackOnlyIfOwed
-----------------------------------------------------------------------------
(* A session that is open or opening goes with an Ethernet that is ready,  *)
(* and there is none before the connection is.                             *)
FreshSessionOK ==
    LET noSession == sessState \notin {"Registering", "Registered"}
    IN  /\ eth # "ready" => noSession
        /\ plcState \in {"Ethernet", "Connecting"} => noSession
        /\ plcState \in {"Connecting", "Registering", "Ready", "Disconnecting"}
             => eth = "ready"

(* Every step keeps it: a session is opened only by poll() while           *)
(* Connecting (PlcClient.cpp:93-100), and connect() drops the one there is *)
(* before it starts (PlcClient.cpp:29).                                    *)
LEMMA FreshSessionNext ==
    ASSUME "BeginOnce" \in AppRules, FreshSessionOK, [Next]_vars
    PROVE  FreshSessionOK'
<1>1. CASE Begin
    <2>1. eth # "ready" /\ plcState' = "Ethernet" /\ sessState' = sessState
        BY <1>1 DEF Begin, Allowed, sessVars
    <2> QED BY <2>1 DEF FreshSessionOK
<1>2. CASE Connect
    <2>1. eth' = eth /\ (ConnectNow \/ ConnectQueued)
        BY <1>2 DEF Connect
    <2>2. CASE ConnectNow
        BY <2>1, <2>2 DEF ConnectNow, SessAbort, FreshSessionOK
    <2>3. CASE ConnectQueued
        BY <2>1, <2>3 DEF ConnectQueued, sessVars, FreshSessionOK
    <2> QED BY <2>1, <2>2, <2>3
<1>3. CASE Disconnect
    <2>1. CASE plcState = "Ready"
        BY <1>3, <2>1 DEF Disconnect, FreshSessionOK
    <2>2. CASE plcState # "Ready"
        BY <1>3, <2>2 DEF Disconnect, SessAbort, FreshSessionOK
    <2> QED BY <2>1, <2>2
<1>4. CASE SetCpuSlot \/ CreateTag \/ DestroyTag \/ AbortTag \/ SetTag \/ Read \/ Write
    <2>1. UNCHANGED <<eth, plcState, sessState>>
        BY <1>4 DEF SetCpuSlot, CreateTag, DestroyTag, AbortTag, SetTag, Read, Write, Started,
                    stack, sessVars, plcVars
    <2> QED BY <2>1 DEF FreshSessionOK
<1>5. CASE EthernetPoll
    <2>1. /\ plcState = "Ethernet" /\ sessState' = sessState
          /\ plcState' = "Connecting" => eth' = "ready"
          /\ plcState' \in {"Ethernet", "Connecting", "Failed"}
        BY <1>5 DEF EthernetPoll, EthPoll, sessVars
    <2> QED BY <2>1 DEF FreshSessionOK
<1>6. CASE ConnectingPoll
    <2>1. plcState = "Connecting" /\ eth' = eth
        BY <1>6 DEF ConnectingPoll
    <2>2. \/ plcState' \in {"Failed", "Registering"}
          \/ plcState' = plcState /\ sessState' = sessState
        BY <1>6 DEF ConnectingPoll, sessVars
    <2> QED BY <2>1, <2>2 DEF FreshSessionOK
<1>7. CASE RegisteringPoll \/ DisconnectingPoll
    <2>1. /\ eth' = eth /\ plcState \in {"Registering", "Disconnecting"}
          /\ plcState' \in {"Failed", "Ready", plcState}
        BY <1>7 DEF RegisteringPoll, DisconnectingPoll, plcVars
    <2> QED BY <2>1 DEF FreshSessionOK
<1>8. CASE DisconnectEnd \/ ReadyEnd
    <2>1. /\ eth' = eth
          /\ sessState' \in {sessState, "Closed"} /\ plcState' \in {plcState, "Idle"}
        BY <1>8 DEF DisconnectEnd, ReadyEnd, SessAbort, sessVars
    <2> QED BY <2>1 DEF FreshSessionOK
<1>9. CASE ReadyPoll \/ SkipTag \/ VisitTag \/ CallbackReturns
    <2>1. UNCHANGED <<eth, plcState, sessState>>
        BY <1>9 DEF ReadyPoll, SkipTag, VisitTag, CallbackReturns, stack, sessVars, plcVars
    <2> QED BY <2>1 DEF FreshSessionOK
<1>10. CASE Tick \/ Environment \/ UNCHANGED vars
    <2>1. UNCHANGED <<eth, plcState, sessState>>
        BY <1>10 DEF Tick, SessDeadline, Environment, vars, stack, sessVars, plcVars
    <2> QED BY <2>1 DEF FreshSessionOK
<1> QED BY <1>1, <1>2, <1>3, <1>4, <1>5, <1>6, <1>7, <1>8, <1>9, <1>10
        DEF Next, AppCall, PollStep

(* A connect attempt never finds the session of an earlier one still open  *)
(* (PlcClient.cpp:26-27): whatever was lost, aborted or given up before -  *)
(* provided begin() restarts no Ethernet that is up.                       *)
THEOREM AttemptStartsFresh ==
    ASSUME "BeginOnce" \in AppRules
    PROVE  Spec => []NoLeftoverSession
<1>1. Init => FreshSessionOK
    BY DEF Init, SessInit, EthInit, FreshSessionOK
<1>2. FreshSessionOK /\ [Next]_vars => FreshSessionOK'
    BY FreshSessionNext
<1>3. FreshSessionOK => NoLeftoverSession
    BY DEF FreshSessionOK, NoLeftoverSession
<1> QED BY <1>1, <1>2, <1>3, PTL DEF Spec
-----------------------------------------------------------------------------
(* The units of a tag request carry the handle of this connection, those   *)
(* of the session are of no tag request, and a connect() that waits for    *)
(* Ethernet waits with nothing in flight.                                  *)
OwnUnit == {u \in Unit : u.f.sess = connNo}
Quiet   == {u \in Unit : u.f.cmd # "SendRRData"}
OwnOut  == {u \in Unit : u.f.cmd = "SendRRData" => u.f.sess = connNo}

RequestIsOwn   == MsgInFlight => msgTx \in Seq(OwnUnit)
SessionIsQuiet == sessTx \in Seq(Quiet)
OutIsOwn       == out \in Seq(OwnOut)
WantsIdle      ==
    wantConnect => plcState \in {"Idle", "Ethernet", "Failed"} /\ ~MsgInFlight

HandleOK == RequestIsOwn /\ SessionIsQuiet /\ OutIsOwn /\ WantsIdle

(* A step that leaves a part alone keeps what is said of it.               *)
LEMMA HandleFrames ==
    ASSUME HandleOK
    PROVE  /\ connNo' = connNo /\ UNCHANGED msgVars => RequestIsOwn'
           /\ ~MsgInFlight' => RequestIsOwn'
           /\ connNo' = connNo /\ out' = out => OutIsOwn'
           /\ out' = <<>> => OutIsOwn'
           /\ plcState' = plcState /\ wantConnect' = wantConnect
                /\ (MsgInFlight' => MsgInFlight) => WantsIdle'
<1>1. connNo' = connNo => OwnUnit' = OwnUnit /\ OwnOut' = OwnOut
    BY DEF OwnUnit, OwnOut
<1>2. UNCHANGED msgVars => msgTx' = msgTx /\ MsgInFlight' = MsgInFlight
    BY DEF msgVars, MsgInFlight
<1>3. connNo' = connNo /\ UNCHANGED msgVars => RequestIsOwn'
    BY <1>1, <1>2 DEF HandleOK, RequestIsOwn
<1>4. ~MsgInFlight' => RequestIsOwn'
    BY DEF RequestIsOwn
<1>5. connNo' = connNo /\ out' = out => OutIsOwn'
    BY <1>1 DEF HandleOK, OutIsOwn
<1>6. out' = <<>> => OutIsOwn'
    BY EmptyType DEF OutIsOwn
<1>7. plcState' = plcState /\ wantConnect' = wantConnect
        /\ (MsgInFlight' => MsgInFlight) => WantsIdle'
    BY DEF HandleOK, WantsIdle
<1> QED BY <1>3, <1>4, <1>5, <1>6, <1>7

(* The packets of a session (Session.cpp:48-86) are not tag requests.      *)
LEMMA SessionSendsQuiet ==
    ASSUME NEW cmd \in {"RegisterSession", "UnregisterSession"}, NEW sess \in Nat,
           NEW len \in Nat
    PROVE  Units(SessRequest(cmd, sess, len)) \in Seq(Quiet)
<1> DEFINE f == SessRequest(cmd, sess, len)
<1>1. f \in Packet /\ f.cmd # "SendRRData" /\ HeaderLen + f.len \in Nat
    BY HeaderLenAssumption, NoConnType DEF SessRequest, Packet, Command, Service
<1>2. \A i \in 1..(HeaderLen + f.len) : [f |-> f, i |-> i] \in Quiet
    BY <1>1 DEF Quiet, Unit
<1> HIDE DEF f
<1>3. Units(f) \in Seq(Quiet)
    BY <1>1, <1>2 DEF Units
<1> QED BY <1>3 DEF f

(* A poll of the session sends such packets only, and takes what arrives   *)
(* as it comes (Session.cpp:100-160): S is any set of units that arrive.   *)
LEMMA SessPollSends ==
    ASSUME IInv, SessionIsQuiet, NEW O \in SUBSET Unit, Quiet \subseteq O, out \in Seq(O),
           NEW S \in SUBSET Unit, in \in Seq(S),
           NEW st, NEW late, SessPoll(st, late)
    PROVE  SessionIsQuiet' /\ out' \in Seq(O) /\ in' \in Seq(S) /\ connNo' = connNo
<1>1. CASE SessTimeout(st, late) \/ SessSettled(st)
    <2>1. UNCHANGED <<sessTx, out, in, connNo>>
        BY <1>1 DEF SessTimeout, SessSettled, sessVars, tcpVars
    <2> QED BY <2>1 DEF SessionIsQuiet, Quiet
<1>2. ASSUME NEW r \in Advance(sessTx, sessRx, sessWant, SessMaxBody), Exchanged(r),
             SessInFlight
      PROVE  SessionIsQuiet' /\ out' \in Seq(O) /\ in' \in Seq(S) /\ connNo' = connNo
    <2>1. sessTx \in Seq(Quiet) /\ Quiet \in SUBSET Unit
        BY DEF SessionIsQuiet, Quiet
    <2>2. /\ sessTx \in Seq(Unit) /\ sessRx \in Seq(Unit) /\ sessWant \in Nat
          /\ SessMaxBody \in Nat
        BY SessAssumption DEF IInv, SessOK, SessTypeOK
    <2>3. Len(out) <= SndBuf
        BY DEF IInv, StreamOK, TcpTypeOK
    <2>4. r.tx \in Seq(Quiet) /\ r.out \in Seq(O)
        BY <2>1, <2>2, <2>3, AdvanceSends
    <2>5. r.in \in Seq(S)
        BY <1>2, <2>2, AdvanceType DEF IInv, SessOK, SessTypeOK, StreamOK, TcpTypeOK, SrvTypeOK
    <2>6. sessTx' = r.tx /\ out' = r.out /\ in' = r.in /\ connNo' = connNo
        BY <1>2 DEF Exchanged
    <2> QED BY <2>4, <2>5, <2>6 DEF SessionIsQuiet, Quiet
<1> QED BY <1>1, <1>2 DEF SessPoll, PollRegistering, PollUnregistering, SessInFlight

(* No operation of the client makes the session send anything else.        *)
LEMMA QuietNext ==
    ASSUME IInv, SessionIsQuiet, [Next]_vars
    PROVE  SessionIsQuiet'
<1>1. CASE sessTx' = sessTx \/ sessTx' = <<>>
    BY <1>1, EmptyType DEF SessionIsQuiet, Quiet
<1>2. CASE Disconnect
    <2>1. \/ sessTx' = sessTx \/ sessTx' = <<>>
          \/ sessTx' = Units(SessRequest("UnregisterSession", handle, 0))
        BY <1>2 DEF Disconnect, SessClose, SessAbort, StartExchange, sessVars
    <2>2. handle \in Nat /\ 0 \in Nat
        BY DEF IInv, SessOK, SessTypeOK
    <2>3. Units(SessRequest("UnregisterSession", handle, 0)) \in Seq(Quiet)
        BY <2>2, SessionSendsQuiet
    <2> QED BY <1>1, <2>1, <2>3 DEF SessionIsQuiet, Quiet
<1>3. CASE ConnectingPoll
    <2>1. \/ sessTx' = sessTx
          \/ sessTx' = Units(SessRequest("RegisterSession", 0, RegLen))
        BY <1>3 DEF ConnectingPoll, SessOpen, StartExchange, sessVars
    <2>2. Units(SessRequest("RegisterSession", 0, RegLen)) \in Seq(Quiet)
        BY SessAssumption, SessionSendsQuiet
    <2> QED BY <1>1, <2>1, <2>2 DEF SessionIsQuiet, Quiet
<1>4. CASE RegisteringPoll \/ DisconnectingPoll
    <2>1. UNCHANGED sessVars \/ \E st, late : SessPoll(st, late)
        BY <1>4 DEF RegisteringPoll, DisconnectingPoll
    <2>2. Quiet \subseteq Unit /\ out \in Seq(Unit) /\ in \in Seq(Unit)
        BY DEF Quiet, IInv, StreamOK, SrvTypeOK
    <2> QED BY <1>1, <2>1, <2>2, SessPollSends DEF sessVars
<1>5. CASE Begin \/ Connect
    BY <1>1, <1>5 DEF Begin, Connect, ConnectNow, ConnectQueued, SessAbort, sessVars
<1>6. CASE SetCpuSlot \/ CreateTag \/ DestroyTag \/ Read \/ Write \/ AbortTag \/ SetTag
    BY <1>1, <1>6 DEF SetCpuSlot, CreateTag, DestroyTag, Read, Write, AbortTag, SetTag, Started,
                      stack, sessVars
<1>7. CASE EthernetPoll \/ DisconnectEnd \/ ReadyPoll \/ SkipTag \/ VisitTag \/ ReadyEnd
             \/ CallbackReturns
    BY <1>1, <1>7 DEF EthernetPoll, DisconnectEnd, ReadyPoll, SkipTag, VisitTag, ReadyEnd,
                      CallbackReturns, SessAbort, stack, sessVars
<1>8. CASE Tick \/ Environment \/ UNCHANGED vars
    BY <1>1, <1>8 DEF Tick, SessDeadline, Environment, vars, stack, sessVars
<1> QED BY <1>2, <1>3, <1>4, <1>5, <1>6, <1>7, <1>8 DEF Next, AppCall, PollStep

(* A tag request carries the handle that read() and write() pass on, which *)
(* while Ready is this connection's (ExplicitMessage.cpp:21-89).           *)
LEMMA RequestTakesHandle ==
    ASSUME ReadyInv, HandleOK, plcState = "Ready", UNCHANGED tcpVars,
           NEW svc \in {"Read", "Write"}, NEW t \in Tags, NEW st,
           MsgSend(handle, svc, tagName[t], NoConn, slotOk, st)
    PROVE  RequestIsOwn'
<1>0. connNo' = connNo
    BY DEF tcpVars
<1>1. CASE UNCHANGED msgVars
    BY <1>0, <1>1, HandleFrames
<1>2. CASE StartSend(handle, svc, tagName[t], NoConn)
    <2> DEFINE f == Request(handle, svc, tagName[t], NoConn)
    <2>1. handle = connNo /\ handle \in Nat
        BY DEF ReadyInv, ReadyOK, IInv, SessOK, SessTypeOK
    <2>2. tagName[t] \in Names \cup {NoName} /\ context \in Nat /\ ReqLen \in Nat
        BY MsgAssumption DEF ReadyInv, IInv, ClientOK, MessageOK, MsgOK, MsgTypeOK
    <2>3. f \in Packet /\ f.sess = connNo /\ HeaderLen + f.len \in Nat
        BY <2>1, <2>2, HeaderLenAssumption, NoConnType DEF Request, Packet, Command, Service
    <2>4. \A i \in 1..(HeaderLen + f.len) : [f |-> f, i |-> i] \in OwnUnit
        BY <2>3 DEF OwnUnit, Unit
    <2>5. msgTx' = Units(f)
        BY <1>2 DEF StartSend
    <2> HIDE DEF f
    <2>6. msgTx' \in Seq(OwnUnit)
        BY <2>3, <2>4, <2>5 DEF Units
    <2>7. OwnUnit' = OwnUnit
        BY <1>0 DEF OwnUnit
    <2> QED BY <2>6, <2>7 DEF RequestIsOwn
<1> QED BY <1>1, <1>2 DEF MsgSend

(* An operation of TcpConnection drops what is not sent yet, or keeps the  *)
(* connection (TcpConnection.cpp:15-98).                                  *)
LEMMA TcpKeepsHandles ==
    ASSUME HandleOK, UNCHANGED msgVars,
           \/ TcpClose \/ (\E st, late : TcpPoll(st, late))
           \/ ~MsgInFlight /\ \E st : TcpConnect(st)
    PROVE  RequestIsOwn' /\ OutIsOwn'
<1>1. \/ connNo' = connNo /\ (out' = out \/ out' = <<>>)
      \/ ~MsgInFlight' /\ out' = <<>>
    <2>1. CASE TcpClose
        BY <2>1 DEF TcpClose
    <2>2. ASSUME NEW st, NEW late, TcpPoll(st, late)
          PROVE  connNo' = connNo /\ (out' = out \/ out' = <<>>)
        BY <2>2 DEF TcpPoll, TcpClose, tcpVars
    <2>3. ASSUME ~MsgInFlight, NEW st, TcpConnect(st)
          PROVE  \/ connNo' = connNo /\ (out' = out \/ out' = <<>>)
                 \/ ~MsgInFlight' /\ out' = <<>>
        BY <2>3 DEF TcpConnect, TcpClose, tcpVars, MsgInFlight, msgVars
    <2> QED BY <2>1, <2>2, <2>3
<1> QED BY <1>1, HandleFrames

(* Every step keeps it, if the application ends what is in flight before   *)
(* it reconnects or disconnects.                                           *)
LEMMA HandleNext ==
    ASSUME "AbortFirst" \in AppRules, ReadyInv, HandleOK, [Next]_vars
    PROVE  HandleOK'
<1>0. (\A t \in Tags : ~Busy(t)) => ~MsgInFlight
    BY DEF ReadyInv, IInv, PoolOK, SingleInFlight
<1>q. SessionIsQuiet'
    BY QuietNext DEF ReadyInv, HandleOK
<1> USE HandleFrames
<1>1. CASE Begin
    <2>1. UNCHANGED tcpVars /\ UNCHANGED msgVars /\ wantConnect' = FALSE
        BY <1>1 DEF Begin
    <2>2. connNo' = connNo /\ out' = out /\ WantsIdle'
        BY <2>1 DEF tcpVars, WantsIdle
    <2> QED BY <1>q, <2>1, <2>2 DEF HandleOK
<1>2. CASE Connect
    <2>1. /\ UNCHANGED msgVars /\ ~MsgInFlight /\ (ConnectNow \/ ConnectQueued)
        BY <1>0, <1>2 DEF Connect, Allowed, NothingInFlight
    <2>2. ~MsgInFlight'
        BY <2>1 DEF msgVars, MsgInFlight
    <2>3. CASE ConnectNow
        <3>1. wantConnect' = FALSE /\ (TcpClose \/ TcpConnect("Pending"))
            BY <2>3 DEF ConnectNow
        <3>2. RequestIsOwn' /\ OutIsOwn'
            BY <2>1, <3>1, TcpKeepsHandles
        <3> QED BY <1>q, <3>1, <3>2 DEF HandleOK, WantsIdle
    <2>4. CASE ConnectQueued
        <3>1. UNCHANGED tcpVars /\ plcState' = "Ethernet"
            BY <2>4 DEF ConnectQueued
        <3>2. connNo' = connNo /\ out' = out
            BY <3>1 DEF tcpVars
        <3> QED BY <1>q, <2>1, <2>2, <3>1, <3>2 DEF HandleOK, WantsIdle
    <2> QED BY <2>1, <2>3, <2>4
<1>3. CASE Disconnect
    <2>1. /\ UNCHANGED msgVars /\ wantConnect' = wantConnect
        BY <1>3 DEF Disconnect
    <2>2. CASE plcState = "Ready"
        <3>1. UNCHANGED tcpVars
            BY <1>3, <2>2 DEF Disconnect
        <3>2. connNo' = connNo /\ out' = out /\ ~wantConnect'
            BY <2>1, <2>2, <3>1 DEF tcpVars, HandleOK, WantsIdle
        <3> QED BY <1>q, <2>1, <3>2 DEF HandleOK, WantsIdle
    <2>3. CASE plcState # "Ready"
        <3>1. TcpClose /\ plcState' = "Idle"
            BY <1>3, <2>3 DEF Disconnect
        <3>2. RequestIsOwn' /\ OutIsOwn'
            BY <2>1, <3>1, TcpKeepsHandles
        <3>3. WantsIdle'
            BY <2>1, <3>1 DEF HandleOK, WantsIdle, msgVars, MsgInFlight
        <3> QED BY <1>q, <3>2, <3>3 DEF HandleOK
    <2> QED BY <2>2, <2>3
<1>4. CASE \/ SetCpuSlot \/ CreateTag \/ DestroyTag \/ SetTag
           \/ ReadyPoll \/ SkipTag \/ CallbackReturns \/ UNCHANGED vars
    <2>1. UNCHANGED tcpVars /\ UNCHANGED msgVars /\ UNCHANGED <<plcState, wantConnect>>
        BY <1>4 DEF SetCpuSlot, CreateTag, DestroyTag, SetTag, ReadyPoll, SkipTag,
                    CallbackReturns, vars, stack, plcVars
    <2>2. connNo' = connNo /\ out' = out /\ (MsgInFlight' => MsgInFlight)
        BY <2>1 DEF tcpVars, msgVars, MsgInFlight
    <2> QED BY <1>q, <2>1, <2>2 DEF HandleOK
<1>5. CASE Read \/ Write
    <2>1. PICK t \in Tags, st \in Status :
             /\ plcState = "Ready"
             /\ TagRead(t, handle, tagName[t], slotOk, st)
                   \/ TagWrite(t, handle, tagName[t], slotOk, st)
             /\ Started(t, st)
        BY <1>5 DEF Read, Write
    <2>2. UNCHANGED tcpVars /\ UNCHANGED <<plcState, wantConnect>>
        BY <2>1 DEF Started, plcVars
    <2>3. connNo' = connNo /\ out' = out
        BY <2>2 DEF tcpVars
    <2>4. WantsIdle'
        BY <2>1, <2>2 DEF HandleOK, WantsIdle
    <2>5. \/ UNCHANGED msgVars
          \/ \E svc \in {"Read", "Write"} : MsgSend(handle, svc, tagName[t], NoConn, slotOk, st)
        BY <2>1 DEF TagRead, TagWrite
    <2>6. RequestIsOwn'
        BY <2>1, <2>2, <2>3, <2>5, RequestTakesHandle
    <2> QED BY <1>q, <2>3, <2>4, <2>6 DEF HandleOK
<1>6. CASE AbortTag
    <2>1. /\ UNCHANGED tcpVars /\ UNCHANGED <<plcState, wantConnect>>
          /\ UNCHANGED msgVars \/ msgState' = "Idle"
        BY <1>6 DEF AbortTag, TagAbort, MsgAbort
    <2>2. /\ connNo' = connNo /\ out' = out
          /\ UNCHANGED msgVars \/ ~MsgInFlight'
          /\ MsgInFlight' => MsgInFlight
        BY <2>1 DEF tcpVars, msgVars, MsgInFlight
    <2> QED BY <1>q, <2>1, <2>2 DEF HandleOK
<1>7. CASE EthernetPoll
    <2>1. UNCHANGED msgVars
        BY <1>7 DEF EthernetPoll
    <2>2. MsgInFlight' = MsgInFlight
        BY <2>1 DEF msgVars, MsgInFlight
    <2>3. CASE wantConnect /\ wantConnect' = FALSE /\ \E st : TcpConnect(st)
        <3>1. ~MsgInFlight /\ WantsIdle'
            BY <2>3 DEF HandleOK, WantsIdle
        <3>2. RequestIsOwn' /\ OutIsOwn'
            BY <2>1, <2>3, <3>1, TcpKeepsHandles
        <3> QED BY <1>q, <3>1, <3>2 DEF HandleOK
    <2>4. CASE UNCHANGED tcpVars /\ wantConnect' = wantConnect
                 /\ plcState' \in {"Ethernet", "Failed"}
        <3>1. connNo' = connNo /\ out' = out
            BY <2>4 DEF tcpVars
        <3>2. WantsIdle'
            BY <2>2, <2>4 DEF HandleOK, WantsIdle
        <3> QED BY <1>q, <2>1, <3>1, <3>2 DEF HandleOK
    <2> QED BY <1>7, <2>3, <2>4 DEF EthernetPoll
<1>8. CASE ConnectingPoll
    <2>1. UNCHANGED msgVars /\ ~wantConnect' /\ WantsIdle'
        BY <1>8 DEF ConnectingPoll, HandleOK, WantsIdle
    <2>2. UNCHANGED tcpVars \/ \E st, late : TcpPoll(st, late)
        BY <1>8 DEF ConnectingPoll
    <2>3. RequestIsOwn' /\ OutIsOwn'
        BY <2>1, <2>2, TcpKeepsHandles DEF tcpVars
    <2> QED BY <1>q, <2>1, <2>3 DEF HandleOK
<1>9. CASE RegisteringPoll \/ DisconnectingPoll
    <2>1. UNCHANGED msgVars /\ ~wantConnect' /\ WantsIdle'
        BY <1>9 DEF RegisteringPoll, DisconnectingPoll, plcVars, HandleOK, WantsIdle
    <2>2. UNCHANGED tcpVars \/ \E st, late : SessPoll(st, late)
        BY <1>9 DEF RegisteringPoll, DisconnectingPoll
    <2>3. out' \in Seq(OwnOut) /\ connNo' = connNo
        <3>1. CASE UNCHANGED tcpVars
            BY <3>1 DEF tcpVars, HandleOK, OutIsOwn
        <3>2. Quiet \subseteq OwnOut /\ OwnOut \in SUBSET Unit /\ in \in Seq(Unit)
            BY DEF Quiet, OwnOut, ReadyInv, IInv, StreamOK, SrvTypeOK
        <3> QED BY <2>2, <3>1, <3>2, SessPollSends DEF ReadyInv, HandleOK, OutIsOwn
    <2>4. OutIsOwn'
        BY <2>3 DEF OutIsOwn, OwnOut
    <2> QED BY <1>q, <2>1, <2>3, <2>4 DEF HandleOK
<1>10. CASE DisconnectEnd \/ ReadyEnd
    <2>1. /\ UNCHANGED msgVars /\ wantConnect' = wantConnect
          /\ UNCHANGED tcpVars \/ TcpClose
          /\ plcState' \in {plcState, "Idle"}
        BY <1>10 DEF DisconnectEnd, ReadyEnd
    <2>2. RequestIsOwn' /\ OutIsOwn'
        BY <2>1, TcpKeepsHandles DEF tcpVars
    <2>3. WantsIdle'
        BY <2>1 DEF HandleOK, WantsIdle, msgVars, MsgInFlight
    <2> QED BY <1>q, <2>2, <2>3 DEF HandleOK
<1>11. CASE VisitTag
    <2>1. UNCHANGED <<plcState, wantConnect>>
        BY <1>11 DEF VisitTag
    <2>2. UNCHANGED <<tcpVars, msgVars>> \/ (MsgInFlight /\ \E m : MsgPoll(m))
        <3>1. idx \in Tags /\ (Busy(idx) => MsgInFlight)
            BY <1>11, LoopVisits DEF VisitTag, ReadyInv, IInv, PoolOK, SingleInFlight
        <3> QED BY <1>11, <3>1 DEF VisitTag, TagPoll
    <2>3. CASE UNCHANGED <<tcpVars, msgVars>>
        <3>1. connNo' = connNo /\ out' = out /\ (MsgInFlight' => MsgInFlight)
            BY <2>3 DEF tcpVars, msgVars, MsgInFlight
        <3> QED BY <1>q, <2>1, <2>3, <3>1 DEF HandleOK
    <2>4. ASSUME MsgInFlight, NEW m, MsgPoll(m)
          PROVE  HandleOK'
        <3>1. /\ OwnUnit \in SUBSET Unit /\ OwnOut \in SUBSET Unit /\ OwnUnit \subseteq OwnOut
              /\ msgTx \in Seq(OwnUnit) /\ out \in Seq(OwnOut)
            BY <2>4 DEF OwnUnit, OwnOut, HandleOK, RequestIsOwn, OutIsOwn
        <3>2. msgTx' \in Seq(OwnUnit) /\ out' \in Seq(OwnOut) /\ connNo' = connNo
            BY <2>4, <3>1, PollSends DEF ReadyInv, IInv, MessageOK
        <3>3. RequestIsOwn' /\ OutIsOwn'
            BY <3>2 DEF RequestIsOwn, OutIsOwn, OwnUnit, OwnOut
        <3> QED BY <1>q, <2>1, <2>4, <3>3 DEF HandleOK
    <2> QED BY <2>2, <2>3, <2>4
<1>12. CASE Tick
    <2>1. UNCHANGED tcpVars /\ UNCHANGED <<plcState, wantConnect>>
        BY <1>12 DEF Tick
    <2>2. connNo' = connNo /\ out' = out
        BY <2>1 DEF tcpVars
    <2>3. msgTx' = msgTx /\ MsgInFlight' = MsgInFlight
        BY <1>12 DEF Tick, MsgDeadline, msgVars, MsgInFlight
    <2>4. RequestIsOwn'
        BY <2>2, <2>3 DEF HandleOK, RequestIsOwn, OwnUnit
    <2> QED BY <1>q, <2>1, <2>2, <2>3, <2>4 DEF HandleOK
<1>13. CASE Environment
    <2>1. UNCHANGED msgVars /\ UNCHANGED plcVars
        BY <1>13 DEF Environment
    <2>2. UNCHANGED <<plcState, wantConnect>> /\ (MsgInFlight' => MsgInFlight)
        BY <2>1 DEF msgVars, plcVars, MsgInFlight
    <2>3. /\ connNo' = connNo
          /\ out' = out \/ (out # <<>> /\ out' = Tail(out))
        BY <1>13 DEF Environment, SrvNext, SrvAccept, SrvReceive, SrvHandle, Consume,
                     SrvMisread, Deliver, PeerCloses, Establish, PeerResets, tcpVars
    <2>4. OutIsOwn'
        <3>1. out' \in Seq(OwnOut)
            BY <2>3, MoveType DEF HandleOK, OutIsOwn
        <3> QED BY <2>3, <3>1 DEF OutIsOwn, OwnOut
    <2> QED BY <1>q, <2>1, <2>2, <2>3, <2>4 DEF HandleOK
<1> QED BY <1>1, <1>2, <1>3, <1>4, <1>5, <1>6, <1>7, <1>8, <1>9, <1>10, <1>11, <1>12, <1>13
        DEF Next, AppCall, PollStep

(* The handle in a tag request is the one of the connection its bytes are  *)
(* written to (PlcClient.cpp:26-27), through every reconnect - provided    *)
(* the application aborts what is in flight before it.                     *)
THEOREM RequestsCarryOwnHandle ==
    ASSUME "AbortFirst" \in AppRules
    PROVE  Spec => []NoStaleHandle
<1>1. Init => HandleOK
    BY EmptyType DEF Init, TcpInit, SessInit, MsgInit, HandleOK, RequestIsOwn, MsgInFlight,
                     SessionIsQuiet, OutIsOwn, WantsIdle
<1>2. ReadyInv /\ HandleOK /\ [Next]_vars => HandleOK'
    BY HandleNext
<1>3. ReadyInv /\ [Next]_vars => ReadyInv'
    <2>1. IInv /\ [Next]_vars => IInv'
        BY CallsKeepIInv, PollKeepsIInv, WorldKeepsIInv DEF Next
    <2> QED BY <2>1, OwnNext, ReadyNext DEF ReadyInv
<1>4. HandleOK => NoStaleHandle
    <2>1. ASSUME out \in Seq(OwnOut), NEW i \in 1..Len(out) PROVE out[i] \in OwnOut
        BY <2>1
    <2> QED BY <2>1 DEF HandleOK, OutIsOwn, OwnOut, NoStaleHandle
<1> QED BY <1>1, <1>2, <1>3, <1>4, ReadyInvInit, PTL DEF Spec
-----------------------------------------------------------------------------
(* What the answer to a read or write is known by.  No unit of a tag       *)
(* request or of an answer to one, wherever it is, has a sender context    *)
(* that is not used yet, and those with the context of the request in      *)
(* flight name the tag that is busy and say what it is busy with.          *)
AskedBy(t) == IF tags[t].state = "Reading" THEN "Read" ELSE "Write"

Tied == {u \in Unit : u.f.cmd = "SendRRData" =>
            /\ u.f.ctx < context
            /\ u.f.ctx = sentContext =>
                  \A t \in Tags : Busy(t) => u.f.name = tagName[t] /\ u.f.svc = AskedBy(t)}

AllTied ==
    /\ msgTx \in Seq(Tied) /\ out \in Seq(Tied) /\ srvIn \in Seq(Tied)
    /\ wire \in Seq(Tied) /\ in \in Seq(Tied) /\ msgRx \in Seq(Tied)

TiedInv == IInv /\ OwnerOK /\ SessionIsQuiet /\ AllTied

(* The PLC hands on what it is given and what it makes of that: S is any   *)
(* set of units that has, with a unit, the replies to its packet.          *)
LEMMA ServerPasses ==
    ASSUME StreamOK, SrvNext, NEW S \in SUBSET Unit,
           \A u \in S, kind \in ReplyKinds, j \in Nat : [f |-> Reply(u.f, kind), i |-> j] \in S,
           out \in Seq(S), srvIn \in Seq(S), wire \in Seq(S), in \in Seq(S)
    PROVE  out' \in Seq(S) /\ srvIn' \in Seq(S) /\ wire' \in Seq(S) /\ in' \in Seq(S)
<1>1. CASE (Establish \/ PeerResets) /\ UNCHANGED srvVars
    BY <1>1 DEF Establish, PeerResets, srvVars
<1>2. CASE SrvAccept \/ PeerCloses
    BY <1>2, EmptyType DEF SrvAccept, PeerCloses, tcpVars, srvVars
<1>3. CASE SrvReceive \/ SrvMisread
    BY <1>3, MoveType, EmptyType DEF SrvReceive, SrvMisread, NextIn
<1>4. CASE SrvHandle
    <2>1. out # <<>> /\ srvIn' = <<>> /\ out' = Tail(out) /\ in' = in
        BY <1>4 DEF SrvHandle, Consume
    <2>2. NextIn[1] \in S /\ NextIn[1].f \in Packet /\ connNo \in Nat
        <3>1. NextIn \in Seq(S) /\ Len(NextIn) > 0
            BY <2>1, MoveType DEF NextIn
        <3>2. NextIn[1] \in S
            BY <3>1
        <3> QED BY <3>2 DEF Unit, StreamOK, TcpTypeOK
    <2>3. ASSUME NEW kind \in ReplyKinds
          PROVE  Units(Reply(NextIn[1].f, kind)) \in Seq(S)
        <3> DEFINE reply == Reply(NextIn[1].f, kind)
        <3>1. reply \in Packet
            BY <2>2, ReplyType
        <3>2. \A j \in Nat : [f |-> reply, i |-> j] \in S
            BY <2>2
        <3>3. HeaderLen + reply.len \in Nat
            BY <3>1, HeaderLenAssumption DEF Packet
        <3> HIDE DEF reply
        <3>4. Units(reply) \in Seq(S)
            BY <3>2, <3>3, UnitsIn
        <3> QED BY <3>4 DEF reply
    <2>4. wire' \in Seq(S)
        <3>1. ASSUME NEW kind \in ReplyKinds, wire' = wire \o Units(Reply(NextIn[1].f, kind))
              PROVE  wire' \in Seq(S)
            BY <2>3, <3>1
        <3> QED BY <1>4, <3>1 DEF SrvHandle, Respond
    <2> QED BY <2>1, <2>4, MoveType, EmptyType
<1>5. CASE Deliver
    BY <1>5, MoveType DEF Deliver
<1> QED BY <1>1, <1>2, <1>3, <1>4, <1>5 DEF SrvNext

(* A reply keeps what ties it to its request (send_packet() of the PLC).   *)
LEMMA RepliesTied ==
    ASSUME IInv, NEW u \in Tied, NEW kind \in ReplyKinds, NEW j \in Nat
    PROVE  [f |-> Reply(u.f, kind), i |-> j] \in Tied
<1> DEFINE reply == Reply(u.f, kind)
<1>1. u.f \in Packet /\ connNo \in Nat
    BY DEF Tied, Unit, IInv, StreamOK, TcpTypeOK
<1>2. reply \in Packet
    BY <1>1, ReplyType
<1>3. reply.cmd = u.f.cmd /\ reply.ctx = u.f.ctx /\ reply.name = u.f.name /\ reply.svc = u.f.svc
    BY <1>1 DEF Reply, Packet
<1> HIDE DEF reply
<1>4. [f |-> reply, i |-> j] \in Unit
    BY <1>2 DEF Unit
<1>5. [f |-> reply, i |-> j] \in Tied
    BY <1>3, <1>4 DEF Tied
<1> QED BY <1>5 DEF reply

(* Ties are not loosened by a step that starts no operation: a tag that is *)
(* busy keeps its name and what it is busy with (PlcClient.cpp:165-197).   *)
QuietTags ==
    /\ UNCHANGED <<context, sentContext>>
    /\ \A t \in Tags : Busy(t)' => /\ Busy(t) /\ tags'[t].state = tags[t].state
                                   /\ tagName'[t] = tagName[t]

(* What was tied before such a step is tied after it.                      *)
LEMMA TiesStay == QuietTags => Tied \subseteq Tied'
BY DEF QuietTags, Tied, Busy, AskedBy

(* A step that reads and writes on the stream what is tied.                *)
LEMMA TiesMove ==
    ASSUME QuietTags,
           msgTx' \in Seq(Tied), out' \in Seq(Tied), srvIn' \in Seq(Tied),
           wire' \in Seq(Tied), in' \in Seq(Tied), msgRx' \in Seq(Tied)
    PROVE  AllTied'
BY TiesStay, Widen DEF AllTied

(* Everything is tied still when a request is started: it takes the next   *)
(* context, which no unit has, for the one tag that is busy then           *)
(* (ExplicitMessage.cpp:91-134).                                           *)
LEMMA StartKeepsTied ==
    ASSUME TiedInv, NEW t \in Tags, NEW st,
           \A u \in Tags : ~Busy(u),
           \/ TagRead(t, handle, tagName[t], slotOk, st)
           \/ TagWrite(t, handle, tagName[t], slotOk, st),
           UNCHANGED <<tagName, tcpVars, srvVars>>
    PROVE  AllTied'
<1>0. /\ TagTypeOK /\ context \in Nat /\ ReqLen \in Nat
      /\ handle \in Nat /\ tagName[t] \in Names \cup {NoName}
    BY MsgAssumption DEF TiedInv, IInv, PoolOK, MessageOK, MsgOK, MsgTypeOK, SessOK, SessTypeOK,
                         ClientOK
<1>1. UNCHANGED <<out, srvIn, wire, in>>
    BY DEF tcpVars, srvVars
<1>2. CASE UNCHANGED <<tags, msgVars>>
    <2>1. QuietTags /\ msgTx' = msgTx /\ msgRx' = msgRx
        BY <1>2 DEF QuietTags, msgVars, Busy
    <2> QED BY <1>1, <2>1, TiesMove DEF TiedInv, AllTied
<1>3. ASSUME NEW svc \in {"Read", "Write"}, NEW state \in {"Reading", "Writing"},
             svc = "Read" <=> state = "Reading",
             StartSend(handle, svc, tagName[t], NoConn),
             tags'[t].state = state, \A u \in Tags : u # t => tags'[u] = tags[u]
      PROVE  AllTied'
    <2> DEFINE f == Request(handle, svc, tagName[t], NoConn)
    <2>1. \A u \in Tags : Busy(u)' <=> u = t
        BY <1>3 DEF Busy
    <2>2. sentContext' = context /\ context' = context + 1 /\ msgRx' = <<>> /\ msgTx' = Units(f)
        BY <1>3 DEF StartSend
    <2>3. Tied \subseteq Tied'
        <3>1. ASSUME NEW u \in Unit, u.f.cmd = "SendRRData" => u.f.ctx < context
              PROVE  u \in Tied'
            <4>1. u.f.ctx \in Nat
                BY DEF Unit, Packet
            <4>2. u.f.cmd = "SendRRData" => u.f.ctx < context' /\ u.f.ctx # sentContext'
                BY <1>0, <2>2, <3>1, <4>1
            <4> QED BY <4>2 DEF Tied
        <3> QED BY <3>1 DEF Tied
    <2>4. f \in Packet /\ HeaderLen + f.len \in Nat
        BY <1>0, HeaderLenAssumption, NoConnType DEF Request, Packet, Command, Service
    <2>5. f.ctx = context /\ f.name = tagName[t] /\ f.svc = svc
        BY DEF Request
    <2>6. AskedBy(t)' = svc /\ tagName'[t] = tagName[t]
        BY <1>3 DEF AskedBy
    <2> HIDE DEF f
    <2>7. ASSUME NEW j \in Nat PROVE [f |-> f, i |-> j] \in Tied'
        <3>1. [f |-> f, i |-> j] \in Unit
            BY <2>4 DEF Unit
        <3>2. f.ctx < context'
            BY <1>0, <2>2, <2>5
        <3>3. \A u \in Tags : Busy(u)' => f.name = tagName'[u] /\ f.svc = AskedBy(u)'
            BY <2>1, <2>5, <2>6
        <3> QED BY <3>1, <3>2, <3>3 DEF Tied
    <2>8. Units(f) \in Seq(Tied')
        BY <2>4, <2>7, UnitsIn
    <2>9. msgTx' \in Seq(Tied') /\ msgRx' \in Seq(Tied')
        BY <2>2, <2>8, EmptyType
    <2>10. /\ out' \in Seq(Tied') /\ srvIn' \in Seq(Tied')
           /\ wire' \in Seq(Tied') /\ in' \in Seq(Tied')
        BY <1>1, <2>3, Widen DEF TiedInv, AllTied
    <2> QED BY <2>9, <2>10 DEF AllTied
<1>4. CASE TagRead(t, handle, tagName[t], slotOk, st) /\ ~UNCHANGED <<tags, msgVars>>
    <2>1. /\ StartSend(handle, "Read", tagName[t], NoConn)
          /\ tags' = [tags EXCEPT ![t].state = "Reading", ![t].fresh = FALSE, ![t].code = FALSE]
        BY <1>4 DEF TagRead, MsgSend
    <2>2. tags'[t].state = "Reading" /\ \A u \in Tags : u # t => tags'[u] = tags[u]
        BY <1>0, <2>1 DEF TagTypeOK, TagRecord
    <2> QED BY <1>3, <2>1, <2>2
<1>5. CASE TagWrite(t, handle, tagName[t], slotOk, st) /\ ~UNCHANGED <<tags, msgVars>>
    <2>1. /\ StartSend(handle, "Write", tagName[t], NoConn)
          /\ tags' = [tags EXCEPT ![t].state = "Writing"]
        BY <1>5 DEF TagWrite, MsgSend
    <2>2. tags'[t].state = "Writing" /\ \A u \in Tags : u # t => tags'[u] = tags[u]
        BY <1>0, <2>1 DEF TagTypeOK, TagRecord
    <2> QED BY <1>3, <2>1, <2>2
<1> QED BY <1>2, <1>4, <1>5

(* Every other step only moves units, drops them, or answers them.         *)
LEMMA TiedNext ==
    ASSUME "IdleDestroy" \in AppRules, TiedInv, [Next]_vars
    PROVE  AllTied'
<1>0. /\ IInv /\ OwnerOK /\ TagTypeOK /\ AllTied /\ Tied \in SUBSET Unit
      /\ inUse \in [Tags -> BOOLEAN] /\ tagName \in [Tags -> Names \cup {NoName}]
    BY DEF TiedInv, IInv, PoolOK, ClientOK, Tied
<1>m. UNCHANGED msgVars =>
          msgTx' = msgTx /\ msgRx' = msgRx /\ UNCHANGED <<context, sentContext>>
    BY DEF msgVars
<1>s. UNCHANGED srvVars => srvIn' = srvIn /\ wire' = wire
    BY DEF srvVars
<1>t. UNCHANGED tcpVars => out' = out /\ in' = in
    BY DEF tcpVars
<1>q. ASSUME UNCHANGED msgVars, tags' = tags, tagName' = tagName PROVE QuietTags
    BY <1>m, <1>q DEF QuietTags, Busy
<1>1. CASE Begin \/ Connect \/ Disconnect \/ EthernetPoll \/ ConnectingPoll \/ DisconnectEnd
             \/ ReadyEnd
    <2>1. UNCHANGED <<msgVars, srvVars>> /\ tags' = tags /\ tagName' = tagName
        BY <1>1 DEF Begin, Connect, Disconnect, EthernetPoll, ConnectingPoll, DisconnectEnd,
                    ReadyEnd
    <2>2. \/ UNCHANGED tcpVars \/ TcpClose
          \/ (\E st : TcpConnect(st)) \/ (\E st, late : TcpPoll(st, late))
        BY <1>1 DEF Begin, Connect, ConnectNow, ConnectQueued, Disconnect, EthernetPoll,
                    ConnectingPoll, DisconnectEnd, ReadyEnd
    <2>3. (out' = out \/ out' = <<>>) /\ (in' = in \/ in' = <<>>)
        BY <2>2 DEF TcpClose, TcpConnect, TcpPoll, tcpVars
    <2>4. out' \in Seq(Tied) /\ in' \in Seq(Tied)
        BY <1>0, <2>3, EmptyType DEF AllTied
    <2> QED BY <1>0, <1>m, <1>s, <1>q, <2>1, <2>4, TiesMove DEF AllTied
<1>2. CASE RegisteringPoll \/ DisconnectingPoll
    <2>1. UNCHANGED <<msgVars, srvVars>> /\ tags' = tags /\ tagName' = tagName
        BY <1>2 DEF RegisteringPoll, DisconnectingPoll, plcVars
    <2>2. UNCHANGED tcpVars \/ \E st, late : SessPoll(st, late)
        BY <1>2 DEF RegisteringPoll, DisconnectingPoll
    <2>3. Quiet \subseteq Tied
        BY DEF Quiet, Tied
    <2>4. out' \in Seq(Tied) /\ in' \in Seq(Tied)
        BY <1>0, <1>t, <2>2, <2>3, SessPollSends DEF TiedInv, AllTied
    <2> QED BY <1>0, <1>m, <1>s, <1>q, <2>1, <2>4, TiesMove DEF AllTied
<1>3. CASE SetCpuSlot \/ DestroyTag \/ ReadyPoll \/ SkipTag \/ CallbackReturns
             \/ UNCHANGED vars
    <2>1. UNCHANGED <<msgVars, srvVars, tcpVars>> /\ tags' = tags /\ tagName' = tagName
        BY <1>3 DEF SetCpuSlot, DestroyTag, ReadyPoll, SkipTag, CallbackReturns, vars, stack,
                    plcVars
    <2> QED BY <1>0, <1>m, <1>s, <1>t, <1>q, <2>1, TiesMove DEF AllTied
<1>4. CASE CreateTag
    <2>1. UNCHANGED <<msgVars, srvVars, tcpVars>> /\ tags' = tags
        BY <1>4 DEF CreateTag, stack
    <2>2. PICK t \in Tags, name \in Names :
             ~inUse[t] /\ tagName' = [tagName EXCEPT ![t] = name]
        BY <1>4 DEF CreateTag
    <2>3. \A u \in Tags : Busy(u) => tagName'[u] = tagName[u]
        BY <1>0, <2>2 DEF OwnerOK
    <2>4. QuietTags
        BY <1>m, <2>1, <2>3 DEF QuietTags, Busy
    <2> QED BY <1>0, <1>m, <1>s, <1>t, <2>1, <2>4, TiesMove DEF AllTied
<1>5. CASE Read \/ Write
    <2>1. PICK t \in Tags, st \in Status :
             /\ ~anyTagBusy
             /\ TagRead(t, handle, tagName[t], slotOk, st)
                   \/ TagWrite(t, handle, tagName[t], slotOk, st)
             /\ Started(t, st)
        BY <1>5 DEF Read, Write
    <2>2. \A u \in Tags : ~Busy(u)
        BY <1>0, <2>1 DEF anyTagBusy, TagStatus, OwnerOK, Busy
    <2>3. UNCHANGED <<tagName, tcpVars, srvVars>>
        BY <2>1 DEF Started, plcVars
    <2> QED BY <2>1, <2>2, <2>3, StartKeepsTied
<1>6. CASE AbortTag
    <2>1. PICK t \in Tags : TagAbort(t)
        BY <1>6 DEF AbortTag
    <2>2. UNCHANGED <<tcpVars, srvVars>> /\ tagName' = tagName
        BY <1>6 DEF AbortTag
    <2>3. UNCHANGED <<msgTx, msgRx, context, sentContext>>
        BY <2>1 DEF TagAbort, MsgAbort, msgVars
    <2>4. ~Busy(t)' /\ \A u \in Tags : u # t => tags'[u] = tags[u]
        BY <1>0, <2>1 DEF TagAbort, TagTypeOK, TagRecord, Busy
    <2>5. QuietTags
        BY <2>2, <2>3, <2>4 DEF QuietTags, Busy
    <2> QED BY <1>0, <1>s, <1>t, <2>2, <2>3, <2>5, TiesMove DEF AllTied
<1>7. CASE SetTag
    <2>1. PICK t \in Tags : TagSet(t)
        BY <1>7 DEF SetTag
    <2>2. UNCHANGED <<msgVars, srvVars, tcpVars>> /\ tagName' = tagName
        BY <1>7 DEF SetTag, plcVars
    <2>3. \A u \in Tags : tags'[u].state = tags[u].state
        BY <1>0, <2>1, SetKeepsStates
    <2>4. QuietTags
        BY <1>m, <2>2, <2>3 DEF QuietTags, Busy
    <2> QED BY <1>0, <1>m, <1>s, <1>t, <2>2, <2>4, TiesMove DEF AllTied
<1>8. CASE VisitTag
    <2>1. PICK t \in Tags, st \in Status : TagPoll(t, st)
        BY <1>8, LoopVisits DEF VisitTag, TiedInv, IInv
    <2>2. UNCHANGED srvVars /\ tagName' = tagName
        BY <1>8 DEF VisitTag
    <2>3. /\ \A u \in Tags : u # t => tags'[u] = tags[u]
          /\ Busy(t)' => Busy(t) /\ tags' = tags
        BY <1>0, <2>1, TagPollIsOwn
    <2>4. UNCHANGED <<tcpVars, msgVars>> \/ \E m : MsgPoll(m)
        BY <2>1 DEF TagPoll
    <2>5. UNCHANGED <<context, sentContext>>
        BY <1>m, <2>4 DEF MsgPoll, MsgTimeout, MsgAdvance, MsgSettled
    <2>6. QuietTags
        BY <2>2, <2>3, <2>5 DEF QuietTags, Busy
    <2>7. /\ msgTx' \in Seq(Tied) /\ out' \in Seq(Tied)
          /\ in' \in Seq(Tied) /\ msgRx' \in Seq(Tied)
        <3>1. CASE UNCHANGED <<tcpVars, msgVars>>
            BY <1>0, <1>m, <1>t, <3>1 DEF AllTied
        <3>2. ASSUME NEW m, MsgPoll(m)
              PROVE  /\ msgTx' \in Seq(Tied) /\ out' \in Seq(Tied)
                     /\ in' \in Seq(Tied) /\ msgRx' \in Seq(Tied)
            <4>1. MsgOK /\ StreamOK
                BY <1>0 DEF IInv, MessageOK
            <4>2. msgTx' \in Seq(Tied) /\ out' \in Seq(Tied)
                BY <1>0, <3>2, <4>1, PollSends DEF AllTied
            <4> QED BY <1>0, <3>2, <4>1, <4>2, PollKeepsStream, PollReads DEF AllTied
        <3> QED BY <2>4, <3>1, <3>2
    <2> QED BY <1>0, <1>s, <2>2, <2>6, <2>7, TiesMove DEF AllTied
<1>9. CASE Tick
    <2>1. UNCHANGED <<tcpVars, srvVars>> /\ tags' = tags /\ tagName' = tagName
        BY <1>9 DEF Tick
    <2>2. UNCHANGED <<msgTx, msgRx, context, sentContext>>
        BY <1>9 DEF Tick, MsgDeadline, msgVars
    <2>3. QuietTags
        BY <2>1, <2>2 DEF QuietTags, Busy
    <2> QED BY <1>0, <1>s, <1>t, <2>1, <2>2, <2>3, TiesMove DEF AllTied
<1>10. CASE Environment
    <2>1. SrvNext /\ UNCHANGED msgVars /\ tags' = tags /\ tagName' = tagName
        BY <1>10 DEF Environment, plcVars
    <2>2. StreamOK /\ \A u \in Tied, kind \in ReplyKinds, j \in Nat :
                         [f |-> Reply(u.f, kind), i |-> j] \in Tied
        BY <1>0, RepliesTied DEF IInv
    <2>3. /\ out' \in Seq(Tied) /\ srvIn' \in Seq(Tied)
          /\ wire' \in Seq(Tied) /\ in' \in Seq(Tied)
        BY <1>0, <2>1, <2>2, ServerPasses DEF AllTied
    <2> QED BY <1>0, <1>m, <1>q, <2>1, <2>3, TiesMove DEF AllTied
<1> QED BY <1>1, <1>2, <1>3, <1>4, <1>5, <1>6, <1>7, <1>8, <1>9, <1>10
        DEF Next, AppCall, PollStep

(* A poll of the message that returns Ok has a response to the request in  *)
(* flight, by the header of a unit it received.                            *)
LEMMA OkIsTied ==
    ASSUME TiedInv, MsgInFlight, MsgPoll("Ok")
    PROVE  /\ MsgReply' \in Packet
           /\ \A t \in Tags : Busy(t) => MsgReply'.name = tagName[t] /\ MsgReply'.svc = AskedBy(t)
<1>1. MsgAdvance("Ok")
    BY DEF MsgPoll, MsgTimeout, MsgSettled, MsgInFlight
<1>2. PICK r \in Advance(msgTx, msgRx, msgWant, MsgMaxBody) :
         msgRx' = r.rx /\ "Ok" = IF r.st = "Ok" THEN ParseResponse(r.rx) ELSE r.st
    BY <1>1 DEF MsgAdvance
<1>3. ParseResponse(r.rx) = "Ok"
    BY <1>2
<1>4. /\ MsgOK /\ StreamOK /\ MsgFull /\ Tied \in SUBSET Unit
      /\ in \in Seq(Tied) /\ msgRx \in Seq(Tied)
    BY DEF TiedInv, IInv, MessageOK, AllTied, Tied
<1>5. msgRx' \in Seq(Tied) /\ HeaderLen <= Len(msgRx')
    <2>1. msgRx' \in Seq(Tied)
        BY <1>4, PollReads
    <2>2. MsgFull' /\ msgState' = "Done"
        BY <1>4, PollKeepsFull
    <2> QED BY <2>1, <2>2 DEF MsgFull
<1>6. msgRx'[1] \in Tied
    BY <1>5, HeaderLenAssumption
<1>7. MsgReply' = msgRx'[1].f
    <2>1. DecodeHeader(r.rx) = r.rx[1].f
        BY <1>3, ParsedHasHeader
    <2>2. MsgReply' = DecodeHeader(r.rx)
        BY <1>2 DEF MsgReply, DecodeHeader, Aligned
    <2> QED BY <1>2, <2>1, <2>2
<1>8. MsgReply'.cmd = "SendRRData" /\ MsgReply'.ctx = sentContext
    BY <1>2, <1>3 DEF ParseResponse, MsgReply, DecodeHeader, Aligned
<1> QED BY <1>4, <1>6, <1>7, <1>8 DEF Tied, Unit

(* While a read is on its way there is no value in the slot but one the    *)
(* application has set since it started: startRead() clears dataLen_       *)
(* (Tag.cpp:60) and only setString() sets it before the response does.     *)
OnlyAppSets ==
    \A t \in Tags : tags[t].state = "Reading" /\ tags[t].fresh =>
                        tags[t].data \in {FromApp, NoName}

(* Every step keeps it.                                                    *)
LEMMA OnlyAppSetsNext ==
    ASSUME IInv, OnlyAppSets, [Next]_vars
    PROVE  OnlyAppSets'
<1>0. TagTypeOK
    BY DEF IInv, PoolOK
<1>1. CASE tags' = tags
    BY <1>1 DEF OnlyAppSets
<1>2. CASE Read \/ Write
    <2>1. PICK t \in Tags, st \in Status :
             TagRead(t, handle, tagName[t], slotOk, st)
                \/ TagWrite(t, handle, tagName[t], slotOk, st)
        BY <1>2 DEF Read, Write
    <2>2. \/ tags' = tags
          \/ tags' = [tags EXCEPT ![t].state = "Reading", ![t].fresh = FALSE, ![t].code = FALSE]
          \/ tags' = [tags EXCEPT ![t].state = "Writing"]
        BY <2>1 DEF TagRead, TagWrite
    <2> QED BY <1>0, <2>2 DEF OnlyAppSets, TagTypeOK, TagRecord
<1>3. CASE AbortTag
    <2>1. PICK t \in Tags : tags' = [tags EXCEPT ![t].state = "Idle", ![t].fresh = FALSE]
        BY <1>3 DEF AbortTag, TagAbort
    <2> QED BY <1>0, <2>1 DEF OnlyAppSets, TagTypeOK, TagRecord
<1>4. CASE SetTag
    <2>1. PICK t \in Tags, d \in {NoName, FromApp} :
             \/ tags' = [tags EXCEPT ![t].data = d]
             \/ tags' = [tags EXCEPT ![t].data = d, ![t].fresh = TRUE]
        BY <1>4 DEF SetTag, TagSet
    <2> QED BY <1>0, <2>1 DEF OnlyAppSets, TagTypeOK, TagRecord
<1>5. CASE VisitTag
    <2>1. PICK t \in Tags, st \in Status : TagPoll(t, st)
        BY <1>5, LoopVisits DEF VisitTag, IInv
    <2>2. \A u \in Tags : tags'[u] = tags[u] \/ ~Busy(u)'
        BY <1>0, <2>1, TagPollIsOwn
    <2> QED BY <2>2 DEF OnlyAppSets, Busy
<1>6. CASE CreateTag \/ DestroyTag
    BY <1>1, <1>6 DEF CreateTag, DestroyTag, stack
<1> QED BY <1>1, <1>2, <1>3, <1>4, <1>5, <1>6, SlotSteps DEF slotVars

(* An operation that succeeds was answered by the response to just this    *)
(* read or write of just this tag (Tag.cpp:119-146): never the answer to   *)
(* an operation that was aborted or timed out, or to another tag of that   *)
(* slot, on this connection or on one before.  The value a read leaves is  *)
(* that tag's, or what the application has set during a read that brought  *)
(* none - provided tags are destroyed idle.                                *)
THEOREM AnswersAreOwn ==
    ASSUME "IdleDestroy" \in AppRules
    PROVE  Spec => AnswersOwnOperation
<1> DEFINE Own(t) == /\ MsgReply'.name = tagName[t]
                     /\ MsgReply'.svc = IF tags[t].state = "Reading" THEN "Read" ELSE "Write"
                     /\ tags[t].state = "Reading" /\ tags'[t].fresh =>
                           tags'[t].data \in {tagName[t], FromApp, NoName}
           Succeeds(t) == inUse[t] /\ Busy(t) /\ TagStatus(t)' = "Ok"
<1>1. Init => SessionIsQuiet /\ AllTied /\ OnlyAppSets
    <2>1. Init => SessionIsQuiet /\ AllTied
        BY EmptyType DEF Init, TcpInit, SrvInit, SessInit, MsgInit, SessionIsQuiet, AllTied
    <2>2. Init => OnlyAppSets
        BY DEF Init, TagInit, OnlyAppSets
    <2> QED BY <2>1, <2>2
<1>2. TiedInv /\ OnlyAppSets /\ [Next]_vars => SessionIsQuiet' /\ AllTied' /\ OnlyAppSets'
    BY QuietNext, TiedNext, OnlyAppSetsNext DEF TiedInv
<1>3. ASSUME TiedInv, OnlyAppSets, [Next]_vars, NEW t \in Tags, Succeeds(t)
      PROVE  Own(t)
    <2>0. TagTypeOK /\ tags[t].state # "Done" /\ tags'[t].state = "Done"
        BY <1>3 DEF TiedInv, IInv, PoolOK, TagStatus, Busy
    <2>1. VisitTag
        <3>1. tags' # tags
            BY <2>0
        <3>a. anyTagBusy
            BY <1>3 DEF anyTagBusy, TagStatus, Busy
        <3>2. ~Read /\ ~Write
            BY <3>a DEF Read, Write
        <3>3. ~AbortTag
            BY <2>0 DEF AbortTag, TagAbort, TagTypeOK, TagRecord
        <3>4. ~SetTag
            BY <2>0, SetKeepsStates DEF SetTag
        <3>5. ~CreateTag /\ ~DestroyTag
            BY <3>1 DEF CreateTag, DestroyTag, stack
        <3> QED BY <1>3, <3>1, <3>2, <3>3, <3>4, <3>5, SlotSteps DEF slotVars
    <2>2. PICK st \in Status : TagPoll(idx, st)
        BY <2>1 DEF VisitTag
    <2>3. idx \in Tags
        BY <1>3, <2>1, LoopVisits DEF VisitTag, TiedInv, IInv
    <2>4. idx = t
        <3>1. \A u \in Tags : u # idx => tags'[u] = tags[u]
            BY <2>0, <2>2, <2>3, TagPollIsOwn
        <3> QED BY <2>0, <3>1
    <2>5. PICK m \in Status :
             /\ MsgPoll(m)
             /\ \/ m = "Pending" /\ tags' = tags
                \/ m \notin {"Pending", "Ok"} /\ tags' = [tags EXCEPT ![t].state = "Failed"]
                \/ /\ m = "Ok"
                   /\ \E c \in Completed(t, MsgReply') : tags' = [tags EXCEPT ![t] = c]
        BY <1>3, <2>2, <2>4 DEF TagPoll
    <2>6. m = "Ok" /\ tags'[t] \in Completed(t, MsgReply')
        BY <2>0, <2>5 DEF TagTypeOK, TagRecord
    <2>7. MsgInFlight
        BY <1>3 DEF TiedInv, IInv, PoolOK, SingleInFlight
    <2>8. MsgReply'.name = tagName[t] /\ MsgReply'.svc = AskedBy(t)
        BY <1>3, <2>5, <2>6, <2>7, OkIsTied
    <2>9. tags'[t] = Succeeded(t) \/ tags'[t] \in ReadInto(t, MsgReply')
        BY <2>0, <2>6 DEF Completed, TagTypeOK, TagRecord
    <2>10. \/ tags'[t].fresh = tags[t].fresh /\ tags'[t].data = tags[t].data
           \/ tags'[t].data = MsgReply'.name
        <3>1. CASE tags'[t] = Succeeded(t)
            BY <2>0, <3>1 DEF Succeeded, TagTypeOK, TagRecord
        <3>2. CASE tags'[t] \in ReadInto(t, MsgReply')
            BY <2>0, <3>2 DEF ReadInto, Succeeded, TagTypeOK, TagRecord
        <3> QED BY <2>9, <3>1, <3>2
    <2>11. tags[t].state = "Reading" /\ tags'[t].fresh =>
               tags'[t].data \in {tagName[t], FromApp, NoName}
        BY <1>3, <2>8, <2>10 DEF OnlyAppSets
    <2> QED BY <2>8, <2>11 DEF AskedBy
<1>4. TiedInv /\ OnlyAppSets /\ [Next]_vars => [\A t \in Tags : Succeeds(t) => Own(t)]_vars
    BY <1>3
<1>5. IInv /\ OwnerOK /\ SessionIsQuiet /\ AllTied <=> TiedInv
    BY DEF TiedInv
<1> QED BY <1>1, <1>2, <1>4, <1>5, OwnerAlways, PTL DEF Spec, AnswersOwnOperation
=============================================================================
