------------------------- MODULE SessionSystem_proofs -------------------------
(***************************************************************************)
(* Proofs about SessionSystem, for every size of packets and buffers, any  *)
(* number of registrations and connections, and every PLC.                 *)
(***************************************************************************)
EXTENDS SessionSystem, Requesters_proofs

(* The units that carry no session handle, or one given on the connection  *)
(* the registration was started on or on a later one.                      *)
Given == {u \in Unit : u.f.sess \in {0} \cup openedOn..connNo}

(* What the handle of a registration begun on a quiet stream rests on.     *)
(* Every unit that can still become part of its response carries such a    *)
(* handle: those that have arrived, those under way on the connection      *)
(* being served, and those already in rx_, which may be of an earlier      *)
(* connection.  And they are one packet (Requesters_proofs, Alone), so     *)
(* that its header is not read from the wrong place.                       *)
UnitsGiven ==
    /\ in \in Seq(Given) /\ sessRx \in Seq(Given)
    /\ srvConn = connNo => wire \in Seq(Given)

Begun ==
    /\ openedOn \in Nat /\ openedOn <= connNo /\ srvConn <= connNo
    /\ openedOn # 0 /\ sessState = "Registering" => UnitsGiven /\ Alone

(* The inductive invariant: types, framing, the streams while a session    *)
(* registers, and the handle it is registered with.                        *)
IInv == SessOK /\ StreamOK /\ Begun /\ RegisteredHasHandle

(* Handles are given in the order of connections.                          *)
LEMMA GivenGrows ==
    ASSUME connNo \in Nat, connNo' \in Nat, connNo <= connNo', openedOn \in Nat,
           UNCHANGED openedOn
    PROVE  Given \subseteq Given'
BY DEF Given, Unit, Packet

(* The initial states.                                                     *)
LEMMA IInvInit == Init => IInv
<1> SUFFICES ASSUME Init PROVE IInv
    OBVIOUS
<1>1. StreamOK /\ SessOK
    BY StreamInitOK, SessInitOK DEF Init
<1>2. Begun /\ RegisteredHasHandle
    BY DEF Init, TcpInit, SessInit, SrvInit, Begun, RegisteredHasHandle
<1> QED BY <1>1, <1>2 DEF IInv

(* A connection made, polled or closed by the application.                 *)
LEMMA ConnectionKeepsGiven ==
    ASSUME IInv, UNCHANGED <<sessVars, srvVars, openedOn>>,
           (\E st : TcpConnect(st)) \/ (\E st, late : TcpPoll(st, late))
    PROVE  IInv'
<1>1. StreamOK'
    BY TcpKeepsTypes DEF IInv
<1>2. SessOK'
    BY DEF IInv, sessVars, SessOK, SessTypeOK, SessInFlight
<1>3. connNo \in Nat /\ connNo' \in Nat /\ connNo <= connNo' /\ srvConn \in Nat
    BY TcpDrops DEF IInv, StreamOK, TcpTypeOK, SrvTypeOK
<1>4. Given \subseteq Given'
    BY <1>3, GivenGrows DEF IInv, Begun
<1>5. openedOn' <= connNo' /\ srvConn' <= connNo' /\ (srvConn' = connNo' => srvConn = connNo)
    BY <1>3 DEF IInv, Begun, srvVars
<1>6. ASSUME openedOn # 0, sessState = "Registering"
      PROVE  UnitsGiven' /\ Alone'
    <2>0. UnitsGiven /\ Alone
        BY <1>6 DEF IInv, Begun
    <2>1. in' \in Seq(Given')
        <3>1. in' \in Seq(Given)
            BY <2>0, TcpDrops DEF IInv, UnitsGiven
        <3> QED BY <1>4, <3>1, Widen
    <2>2. sessRx' \in Seq(Given')
        BY <1>4, <2>0, Widen DEF UnitsGiven, sessVars
    <2>3. srvConn' = connNo' => wire' \in Seq(Given')
        BY <1>4, <1>5, <2>0, Widen DEF UnitsGiven, srvVars
    <2>4. Alone'
        BY <2>0, TcpKeepsAlone DEF IInv, Begun, sessVars
    <2> QED BY <2>1, <2>2, <2>3, <2>4 DEF UnitsGiven
<1>7. Begun'
    BY <1>5, <1>6 DEF IInv, Begun, sessVars
<1>8. RegisteredHasHandle'
    BY <1>3 DEF IInv, Begun, RegisteredHasHandle, sessVars, SessOK, SessTypeOK
<1> QED BY <1>1, <1>2, <1>7, <1>8 DEF IInv

(* A call of the session that neither polls nor opens it.                  *)
LEMMA CallKeepsGiven ==
    ASSUME IInv, UNCHANGED <<tcpVars, srvVars, openedOn>>, SessOK',
           sessState' = "Registering" => UNCHANGED <<sessState, sessTx, sessRx>>,
           sessState' = "Registered" => UNCHANGED <<sessState, handle>>
    PROVE  IInv'
<1>1. StreamOK' /\ Given' = Given
    BY DEF IInv, tcpVars, srvVars, StreamOK, TcpTypeOK, SrvTypeOK, Given
<1>2. ASSUME openedOn # 0, sessState' = "Registering"
      PROVE  UnitsGiven' /\ Alone'
    <2>1. UnitsGiven /\ Alone
        BY <1>2 DEF IInv, Begun
    <2>2. UnitsGiven'
        BY <1>1, <1>2, <2>1 DEF UnitsGiven, tcpVars, srvVars
    <2> QED BY <1>2, <2>1, <2>2, StreamsStay DEF tcpVars
<1>3. Begun'
    BY <1>2 DEF IInv, Begun, tcpVars, srvVars
<1>4. RegisteredHasHandle'
    BY DEF IInv, RegisteredHasHandle, tcpVars
<1> QED BY <1>1, <1>3, <1>4 DEF IInv

(* open(), which starts on whatever the stream holds (Session.cpp:46-86).  *)
LEMMA OpenKeepsGiven ==
    ASSUME IInv, AppOpen
    PROVE  IInv'
<1>1. PICK st \in Status :
         /\ SessOpen(Connected, st)
         /\ IF st = "Pending"
            THEN opens' = opens + 1 /\ openedOn' = IF Quiet THEN connNo ELSE 0
            ELSE UNCHANGED appVars
    BY DEF AppOpen
<1>2. UNCHANGED <<tcpVars, srvVars>>
    BY DEF AppOpen
<1>3. SessOK'
    BY <1>1, SessOpenKeepsTypes DEF IInv
<1>4. CASE st # "Pending"
    <2>1. UNCHANGED <<sessVars, openedOn>>
        BY <1>1, <1>4 DEF SessOpen, appVars
    <2> QED BY <1>2, <1>3, <2>1, CallKeepsGiven DEF sessVars
<1>5. CASE st = "Pending"
    <2>1. /\ StartExchange("Registering", "RegisterSession", 0, RegLen)
          /\ sessState' = "Registering" /\ sessRx' = <<>>
        BY <1>1, <1>5 DEF SessOpen, StartExchange
    <2>2. StreamOK' /\ connNo \in Nat /\ connNo' = connNo /\ srvConn' = srvConn
        BY <1>2 DEF IInv, tcpVars, srvVars, StreamOK, TcpTypeOK, SrvTypeOK
    <2>3. openedOn' = IF Quiet THEN connNo ELSE 0
        BY <1>1, <1>5
    <2>4. ASSUME Quiet
          PROVE  UnitsGiven' /\ Alone'
        <3>1. in' = <<>> /\ (srvConn' = connNo' => wire' = <<>>)
            BY <1>2, <2>4 DEF Quiet, tcpVars, srvVars
        <3>2. UnitsGiven'
            BY <2>1, <3>1, EmptyType DEF UnitsGiven
        <3>3. "RegisterSession" \in Command /\ 0 \in Nat /\ RegLen \in Nat
            BY SessAssumption DEF Command
        <3>4. Alone'
            BY <1>2, <2>1, <2>4, <3>3, StartsAlone DEF Quiet, tcpVars
        <3> QED BY <3>2, <3>4
    <2>5. Begun'
        BY <2>2, <2>3, <2>4 DEF IInv, Begun
    <2>6. RegisteredHasHandle'
        BY <2>1 DEF RegisteredHasHandle
    <2> QED BY <1>3, <2>2, <2>5, <2>6 DEF IInv
<1> QED BY <1>4, <1>5

(* poll() of the session (Session.cpp:88-160).                             *)
LEMMA PollKeepsGiven ==
    ASSUME IInv, NEW st, NEW late, SessPoll(st, late), UNCHANGED <<srvVars, openedOn>>
    PROVE  IInv'
<1>1. SessOK' /\ StreamOK' /\ connNo' = connNo
    <2>1. connNo' = connNo
        BY DEF SessPoll, SessTimeout, SessSettled, PollRegistering, PollUnregistering,
               Exchanged, tcpVars
    <2> QED BY <2>1, SessPollKeepsTypes DEF IInv
<1>2. Given \in SUBSET Unit /\ Given' = Given
    BY <1>1 DEF Given
<1>3. ASSUME openedOn # 0, sessState = "Registering"
      PROVE  /\ UnitsGiven' /\ Alone'
             /\ sessState' = "Registered" =>
                   (\E u \in Given : handle' = u.f.sess) /\ handle' # 0
    <2>1. UnitsGiven /\ Alone
        BY <1>3 DEF IInv, Begun
    <2>2. /\ in' \in Seq(Given) /\ sessRx' \in Seq(Given)
          /\ sessState' = "Registered" =>
                (\E u \in Given : handle' = u.f.sess) /\ handle' # 0
        BY <1>2, <1>3, <2>1, HandleFromReply DEF IInv, UnitsGiven
    <2>3. UnitsGiven'
        BY <1>1, <1>2, <2>1, <2>2 DEF UnitsGiven, srvVars
    <2>4. Alone'
        BY <2>1, SessPollKeepsStreams, AloneStays DEF IInv
    <2> QED BY <2>2, <2>3, <2>4
<1>4. /\ sessState' = "Registering" => sessState = "Registering"
      /\ sessState' = "Registered" =>
            sessState = "Registering" \/ (sessState = "Registered" /\ handle' = handle)
    BY DEF SessPoll, SessTimeout, SessSettled, PollRegistering, PollUnregistering,
           Unfinished, sessVars
<1>5. Begun'
    BY <1>1, <1>3, <1>4 DEF IInv, Begun, srvVars
<1>6. RegisteredHasHandle'
    <2>1. SUFFICES ASSUME sessState' = "Registered", openedOn # 0
                   PROVE  handle' \in openedOn..connNo
        BY <1>1 DEF RegisteredHasHandle
    <2>2. CASE sessState = "Registered" /\ handle' = handle
        BY <2>1, <2>2 DEF IInv, RegisteredHasHandle
    <2>3. CASE sessState = "Registering"
        <3>1. PICK u \in Given : handle' = u.f.sess
            BY <1>3, <2>1, <2>3
        <3>2. handle' # 0 /\ u.f.sess \in {0} \cup openedOn..connNo
            BY <1>3, <2>1, <2>3 DEF Given
        <3> QED BY <3>1, <3>2
    <2> QED BY <1>4, <2>1, <2>2, <2>3
<1> QED BY <1>1, <1>5, <1>6 DEF IInv

(* The network and the PLC.                                                *)
LEMMA ServerKeepsGiven ==
    ASSUME IInv, SrvNext, UNCHANGED <<sessVars, openedOn>>
    PROVE  IInv'
<1>1. StreamOK'
    BY ServerKeepsTypes DEF IInv
<1>2. SessOK'
    BY DEF IInv, sessVars, SessOK, SessTypeOK, SessInFlight
<1>3. connNo' = connNo /\ srvConn' <= connNo'
    <2>1. Unit \in SUBSET Unit /\ \A u \in Unit : u.f.sess \in {0, connNo} => u \in Unit
        OBVIOUS
    <2> QED BY <2>1, ServerSends DEF IInv, Begun, StreamOK, SrvTypeOK
<1>4. ASSUME openedOn # 0, sessState = "Registering"
      PROVE  UnitsGiven' /\ Alone'
    <2>0. UnitsGiven /\ Alone
        BY <1>4 DEF IInv, Begun
    <2>1. connNo \in Nat /\ openedOn \in Nat /\ openedOn <= connNo
        BY DEF IInv, Begun, StreamOK, TcpTypeOK
    <2>2. Given \in SUBSET Unit /\ \A u \in Unit : u.f.sess \in {0, connNo} => u \in Given
        BY <2>1 DEF Given
    <2>3. in' \in Seq(Given) /\ (srvConn' = connNo' => wire' \in Seq(Given))
        BY <2>0, <2>2, ServerSends DEF IInv, Begun, UnitsGiven
    <2>4. Given' = Given
        BY <1>3 DEF Given
    <2>5. UnitsGiven'
        BY <2>0, <2>3, <2>4 DEF UnitsGiven, sessVars
    <2> QED BY <2>0, <2>5, ServerKeepsAlone DEF IInv, sessVars
<1>5. Begun'
    BY <1>3, <1>4 DEF IInv, Begun, sessVars
<1>6. RegisteredHasHandle'
    BY <1>3 DEF IInv, RegisteredHasHandle, sessVars
<1> QED BY <1>1, <1>2, <1>5, <1>6 DEF IInv

(* Every step keeps it, so it holds always.                                *)
LEMMA IInvNext == IInv /\ [Next]_vars => IInv'
<1> SUFFICES ASSUME IInv, [Next]_vars PROVE IInv'
    OBVIOUS
<1>0. SessOK
    BY DEF IInv
<1>q. UNCHANGED <<tcpVars, srvVars, openedOn>> /\ UNCHANGED sessVars => IInv'
    <2>1. UNCHANGED sessVars => SessOK' /\ UNCHANGED <<sessTx, sessRx, sessState, handle>>
        BY <1>0 DEF sessVars, SessOK, SessTypeOK, SessInFlight
    <2> QED BY <2>1, CallKeepsGiven
<1>1. CASE AppConnect \/ AppPollTcp
    BY <1>1, ConnectionKeepsGiven DEF AppConnect, AppPollTcp, appVars
<1>2. CASE AppOpen
    BY <1>2, OpenKeepsGiven
<1>3. CASE AppClose \/ AppAbort
    <2>1. (\E st : SessClose(st)) \/ SessAbort
        BY <1>3 DEF AppClose, AppAbort
    <2>2. SessOK'
        BY <1>0, <2>1, SessCloseKeepsTypes, SessAbortKeepsTypes
    <2>3. UNCHANGED <<tcpVars, srvVars, openedOn>>
        BY <1>3 DEF AppClose, AppAbort, appVars
    <2>4. CASE UNCHANGED sessVars
        BY <1>q, <2>3, <2>4
    <2>5. CASE sessState' \in {"Unregistering", "Closed"}
        BY <2>2, <2>3, <2>5, CallKeepsGiven
    <2> QED BY <2>1, <2>4, <2>5 DEF SessClose, SessAbort, StartExchange
<1>4. CASE AppPoll
    BY <1>4, PollKeepsGiven DEF AppPoll, appVars
<1>5. CASE TcpDeadline /\ UNCHANGED <<sessVars, srvVars, appVars>>
    <2>1. UNCHANGED <<fd, tcpState, sock, out, in, connNo>> /\ tcpLate' = TRUE
        BY <1>5 DEF TcpDeadline
    <2>2. StreamOK' /\ Given' = Given
        BY <1>5, <2>1 DEF IInv, StreamOK, TcpTypeOK, SrvTypeOK, srvVars, Given, appVars
    <2>3. RegisteredHasHandle'
        BY <1>5, <2>1 DEF IInv, RegisteredHasHandle, sessVars, appVars
    <2>4. ASSUME openedOn # 0, sessState = "Registering"
          PROVE  UnitsGiven' /\ Alone'
        <3>1. UnitsGiven /\ Alone
            BY <2>4 DEF IInv, Begun
        <3>2. UnitsGiven'
            BY <1>5, <2>1, <2>2, <3>1 DEF UnitsGiven, srvVars, sessVars
        <3> QED BY <1>5, <2>1, <3>1, <3>2, StreamsStay DEF sessVars
    <2>5. Begun'
        BY <1>5, <2>1, <2>4 DEF IInv, Begun, srvVars, sessVars, appVars
    <2>6. SessOK'
        BY <1>0, <1>5 DEF sessVars, SessOK, SessTypeOK, SessInFlight
    <2> QED BY <2>2, <2>3, <2>5, <2>6 DEF IInv
<1>6. CASE SessDeadline /\ UNCHANGED <<tcpVars, srvVars, appVars>>
    <2>1. SessOK' /\ UNCHANGED <<sessTx, sessRx, sessState, handle>>
        BY <1>0, <1>6, SessDeadlineKeepsTypes DEF SessDeadline
    <2> QED BY <1>6, <2>1, CallKeepsGiven DEF appVars
<1>7. CASE SrvNext /\ UNCHANGED <<sessVars, appVars>>
    BY <1>7, ServerKeepsGiven DEF appVars
<1>8. CASE UNCHANGED vars
    BY <1>8, <1>q DEF vars, appVars
<1> QED BY <1>1, <1>2, <1>3, <1>4, <1>5, <1>6, <1>7, <1>8 DEF Next, Tick

(* The invariant holds in every reachable state.                           *)
LEMMA IInvAlways == Spec => []IInv
BY IInvInit, IInvNext, PTL DEF Spec

(* registered() comes with a handle the PLC gave on the connection open()  *)
(* was called on or a later one (Session.cpp:120-134), never 0 and never   *)
(* one of before, when open() found the stream quiet: for what an earlier  *)
(* exchange has left there nothing is claimed, since the response is       *)
(* accepted without a look at its context.                                 *)
THEOREM HandleGiven == Spec => []RegisteredHasHandle
<1>1. IInv => RegisteredHasHandle
    BY DEF IInv
<1> QED BY <1>1, IInvAlways, PTL

(* Bounded receive framing (Session.cpp:183-189): rx_ is not overrun.      *)
THEOREM SessionFramingBounded == Spec => []ReceiveBounded
<1>1. IInv => ReceiveBounded
    BY DEF IInv, SessOK, ReceiveBounded
<1> QED BY <1>1, IInvAlways, PTL

(* Type correctness of the connection, the session and the PLC.            *)
THEOREM SessionTypeCorrect == Spec => []TypeOK
<1>1. IInv => TypeOK
    BY DEF IInv, SessOK, StreamOK, TypeOK
<1> QED BY <1>1, IInvAlways, PTL
=============================================================================
