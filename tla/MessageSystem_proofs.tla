------------------------- MODULE MessageSystem_proofs -------------------------
(***************************************************************************)
(* Proofs about MessageSystem, for every size of packets and buffers, any  *)
(* number of exchanges and connections, and every PLC.                     *)
(***************************************************************************)
EXTENDS MessageSystem, Requesters_proofs

(* The inductive invariant of the exchange: the types of both sides and    *)
(* the receive framing.                                                    *)
IInv == MsgOK /\ StreamOK

(* It holds initially, every step keeps it, so it holds always.            *)
LEMMA IInvInit == Init => IInv
BY MsgInitOK, StreamInitOK DEF Init, IInv

(* Every step keeps it,                                                    *)
LEMMA IInvNext == IInv /\ [Next]_vars => IInv'
<1> SUFFICES ASSUME IInv, [Next]_vars PROVE IInv'
    OBVIOUS
<1> USE DEF IInv
<1>m. UNCHANGED msgVars => MsgOK'
    BY DEF msgVars, MsgOK, MsgTypeOK
<1>s. UNCHANGED <<tcpVars, srvVars>> => StreamOK'
    BY DEF tcpVars, srvVars, StreamOK, TcpTypeOK, SrvTypeOK
<1>1. CASE AppConnect
    BY <1>1, <1>m, TcpKeepsTypes DEF AppConnect
<1>2. CASE AppClose
    BY <1>2, <1>m, TcpKeepsTypes DEF AppClose
<1>3. CASE AppPollTcp
    BY <1>3, <1>m, TcpKeepsTypes DEF AppPollTcp
<1>4. CASE AppSend
    <2>1. PICK st \in Status, name \in Names, valid \in BOOLEAN :
             MsgSend(connNo, "Read", name, NoConn, valid, st)
        BY <1>4 DEF AppSend
    <2>2. connNo \in Nat /\ "Read" \in Service
        BY DEF StreamOK, TcpTypeOK, Service
    <2>3. MsgOK'
        BY <2>1, <2>2, NoConnType, SendKeepsTypes
    <2> QED BY <1>4, <1>s, <2>3 DEF AppSend
<1>5. CASE AppPoll
    BY <1>5, PollKeepsTypes DEF AppPoll
<1>6. CASE AppAbort
    BY <1>6, <1>s, AbortKeepsTypes DEF AppAbort
<1>7. CASE TcpDeadline /\ UNCHANGED <<msgVars, srvVars>>
    <2>1. StreamOK'
        BY <1>7 DEF TcpDeadline, StreamOK, TcpTypeOK, SrvTypeOK, srvVars
    <2> QED BY <1>7, <1>m, <2>1
<1>8. CASE MsgDeadline /\ UNCHANGED <<tcpVars, srvVars>>
    <2>1. MsgOK'
        BY <1>8 DEF MsgDeadline, MsgOK, MsgTypeOK
    <2> QED BY <1>8, <1>s, <2>1
<1>9. CASE SrvNext /\ UNCHANGED msgVars
    BY <1>9, <1>m, ServerKeepsTypes
<1>10. CASE UNCHANGED vars
    BY <1>10, <1>m, <1>s DEF vars
<1> QED BY <1>1, <1>2, <1>3, <1>4, <1>5, <1>6, <1>7, <1>8, <1>9, <1>10
        DEF Next, AppNext, Tick

(* so that it holds in every reachable state.                              *)
LEMMA IInvAlways == Spec => []IInv
BY IInvInit, IInvNext, PTL DEF Spec

(* Type correctness of the connection, the message and the PLC.            *)
THEOREM TypeCorrect == Spec => []TypeOK
<1>1. IInv => TypeOK
    BY DEF IInv, MsgOK, StreamOK, TypeOK
<1> QED BY <1>1, IInvAlways, PTL

(* Bounded receive framing: whatever arrives, rx_ is not overrun.          *)
THEOREM FramingBounded == Spec => []ReceiveBounded
<1>1. IInv => ReceiveBounded
    BY DEF IInv, MsgOK, ReceiveBounded
<1> QED BY <1>1, IInvAlways, PTL
-----------------------------------------------------------------------------
(* What "whole" rests on: the exchange expects what the header says, and   *)
(* nothing that has arrived, or may arrive, is a request.                  *)
AnswersOnly ==
    /\ srvConn <= connNo /\ in \in Seq(AnswerUnit) /\ msgRx \in Seq(AnswerUnit)
    /\ srvConn = connNo => wire \in Seq(AnswerUnit)

CompleteInv == IInv /\ MsgFull /\ MsgFramed /\ AnswersOnly

(* It holds of a client and a PLC that have not begun.                     *)
LEMMA CompleteInit == Init => CompleteInv
<1> SUFFICES ASSUME Init PROVE CompleteInv
    OBVIOUS
<1>1. /\ msgState = "Idle" /\ msgRx = <<>> /\ in = <<>> /\ wire = <<>>
      /\ srvConn = 0 /\ connNo = 0
    BY DEF Init, MsgInit, TcpInit, SrvInit
<1>2. MsgFull /\ MsgFramed
    BY <1>1 DEF MsgFull, MsgFramed, MsgInFlight
<1>3. AnswersOnly
    BY <1>1, EmptyType DEF AnswersOnly
<1> QED BY <1>2, <1>3, IInvInit DEF CompleteInv

(* Only a poll puts anything into rx_, and only what has arrived; a send   *)
(* empties it.                                                             *)
LEMMA AnswersOnlyNext ==
    ASSUME IInv, AnswersOnly, [Next]_vars
    PROVE  AnswersOnly'
<1> USE DEF IInv
<1>0. AnswerUnit \in SUBSET Unit /\ connNo \in Nat /\ srvConn \in Nat
    BY DEF AnswerUnit, StreamOK, TcpTypeOK, SrvTypeOK
<1>1. CASE UNCHANGED <<srvVars, msgRx>> /\ connNo' = connNo /\ in' \in Seq(AnswerUnit)
    BY <1>1 DEF AnswersOnly, srvVars
<1>2. CASE AppConnect \/ AppClose \/ AppPollTcp
    <2>1. UNCHANGED srvVars /\ msgRx' = msgRx
        BY <1>2 DEF AppConnect, AppClose, AppPollTcp, msgVars
    <2>2. /\ in' \in Seq(AnswerUnit) /\ connNo' \in Nat /\ connNo <= connNo'
          /\ connNo' = connNo \/ connNo' = connNo + 1
        BY <1>2, TcpDrops DEF AppConnect, AppClose, AppPollTcp, AnswersOnly
    <2>3. srvConn' <= connNo' /\ (srvConn' = connNo' => connNo' = connNo)
        BY <1>0, <2>1, <2>2 DEF AnswersOnly, srvVars
    <2> QED BY <2>1, <2>2, <2>3 DEF AnswersOnly, srvVars
<1>3. CASE AppSend
    <2>1. UNCHANGED <<tcpVars, srvVars>> /\ (msgRx' = msgRx \/ msgRx' = <<>>)
        BY <1>3 DEF AppSend, MsgSend, StartSend, msgVars
    <2>2. msgRx' \in Seq(AnswerUnit)
        BY <2>1, EmptyType DEF AnswersOnly
    <2> QED BY <2>1, <2>2 DEF AnswersOnly, tcpVars, srvVars
<1>4. CASE AppPoll
    <2>1. PICK st \in Status : MsgPoll(st)
        BY <1>4 DEF AppPoll
    <2>2. /\ in' \in Seq(AnswerUnit) /\ connNo' = connNo
          /\ msgRx' \in Seq(AnswerUnit)
        BY <1>0, <2>1, PollKeepsStream, PollReads DEF AnswersOnly
    <2> QED BY <1>4, <2>2 DEF AppPoll, AnswersOnly, srvVars
<1>5. CASE AppAbort \/ Tick \/ UNCHANGED vars
    <2>1. UNCHANGED <<srvVars, msgRx, in, connNo>>
        BY <1>5 DEF AppAbort, MsgAbort, Tick, TcpDeadline, MsgDeadline, vars, tcpVars, msgVars
    <2> QED BY <1>1, <2>1 DEF AnswersOnly
<1>6. CASE SrvNext /\ UNCHANGED msgVars
    BY <1>6, ServerAnswers DEF AnswersOnly, msgVars
<1> QED BY <1>2, <1>3, <1>4, <1>5, <1>6 DEF Next, AppNext

(* Every step keeps an exchange whole.                                     *)
LEMMA CompleteNext == CompleteInv /\ [Next]_vars => CompleteInv'
<1> SUFFICES ASSUME CompleteInv, [Next]_vars PROVE CompleteInv'
    OBVIOUS
<1> USE DEF CompleteInv
<1>1. IInv' /\ AnswersOnly'
    BY IInvNext, AnswersOnlyNext
<1>2. CASE UNCHANGED msgVars
    BY <1>1, <1>2 DEF msgVars, MsgFull, MsgFramed, MsgInFlight, MsgReply, Framed
<1>3. CASE AppSend
    <2>1. PICK st \in Status, name \in Names, valid \in BOOLEAN :
             MsgSend(connNo, "Read", name, NoConn, valid, st)
        BY <1>3 DEF AppSend
    <2>2. MsgFull' /\ MsgFramed'
        BY <2>1, SendKeepsFull, SendKeepsFramed
    <2> QED BY <1>1, <2>2
<1>4. CASE AppPoll
    <2>1. PICK st \in Status : MsgPoll(st)
        BY <1>4 DEF AppPoll
    <2>2. MsgFull' /\ MsgFramed'
        BY <2>1, PollKeepsFull, PollKeepsFramed DEF IInv
    <2> QED BY <1>1, <2>2
<1>5. CASE AppAbort
    BY <1>1, <1>5, AbortKeepsFull, AbortKeepsFramed DEF AppAbort
<1>6. CASE MsgDeadline
    <2>1. UNCHANGED <<msgState, msgTx, msgRx, msgWant>>
        BY <1>6 DEF MsgDeadline
    <2> QED BY <1>1, <2>1 DEF MsgFull, MsgFramed, MsgInFlight, MsgReply, Framed
<1>7. \/ UNCHANGED msgVars \/ AppSend \/ AppPoll \/ AppAbort \/ MsgDeadline
    BY DEF Next, AppNext, Tick, AppConnect, AppClose, AppPollTcp, vars
<1> QED BY <1>1, <1>2, <1>3, <1>4, <1>5, <1>6, <1>7

(* poll() gives its verdict on a whole response to a whole request: all    *)
(* that the header announced is in rx_, nothing of the request is left to  *)
(* send, and it is not a request that was read back                        *)
(* (ExplicitMessage.cpp:139-209).                                          *)
THEOREM ResponseComplete == Spec => []DoneIsComplete
<1>1. CompleteInv => DoneIsComplete
    <2> SUFFICES ASSUME CompleteInv, msgState = "Done"
                 PROVE  /\ msgTx = <<>> /\ Len(msgRx) = HeaderLen + MsgReply.len
                        /\ MsgReply.kind # "request"
        BY DEF DoneIsComplete
    <2>1. msgTx = <<>> /\ Len(msgRx) = HeaderLen + MsgReply.len
        BY DEF CompleteInv, MsgFramed
    <2>2. msgRx[1] \in AnswerUnit
        BY HeaderLenAssumption DEF CompleteInv, AnswersOnly, MsgFull
    <2>3. MsgReply.kind # "request"
        BY <2>2 DEF MsgReply, DecodeHeader, Garbage, AnswerUnit
    <2> QED BY <2>1, <2>3
<1> QED BY <1>1, CompleteInit, CompleteNext, PTL DEF Spec
-----------------------------------------------------------------------------
(* What the refinement rests on: the next context is the last one plus 1,  *)
(* and the response of an exchange that is Done carries the last one.      *)
ContextInv ==
    /\ context \in Nat /\ context = sentContext + 1 /\ sentContext \in Nat
    /\ msgState \in MsgStates
    /\ msgState = "Done" => MsgReply.ctx = sentContext

(* A poll that returns Ok has compared the context of the response with    *)
(* the one of the request (ExplicitMessage.cpp:216-218).                   *)
LEMMA PollMapsToExchange ==
    ASSUME ContextInv, NEW st, MsgPoll(st)
    PROVE  /\ ContextInv'
           /\ context' = context
           /\ \/ UNCHANGED msgState /\ UNCHANGED msgVars
              \/ MsgInFlight /\ MsgInFlight'
              \/ MsgInFlight /\ msgState' \in {"Done", "Failed"}
<1>1. CASE MsgTimeout(st)
    BY <1>1 DEF MsgTimeout, ContextInv, MsgStates
<1>2. CASE MsgSettled(st)
    BY <1>2 DEF MsgSettled, ContextInv, MsgStates, msgVars, MsgReply
<1>3. CASE MsgAdvance(st)
    <2>1. PICK r \in Advance(msgTx, msgRx, msgWant, MsgMaxBody) :
             /\ msgRx' = r.rx
             /\ st = IF r.st = "Ok" THEN ParseResponse(r.rx) ELSE r.st
             /\ msgState' = CASE st = "Ok"      -> "Done"
                              [] st = "Pending" -> IF r.sent THEN "Receiving" ELSE msgState
                              [] OTHER          -> "Failed"
        BY <1>3 DEF MsgAdvance
    <2>2. UNCHANGED <<context, sentContext>> /\ MsgInFlight
        BY <1>3 DEF MsgAdvance
    <2>3. msgState' \in {"Receiving", "Done", "Failed"} \/ msgState' = msgState
        BY <2>1
    <2>4. msgState' = "Done" => MsgReply'.ctx = sentContext
        <3>1. SUFFICES ASSUME msgState' = "Done" PROVE MsgReply'.ctx = sentContext
            OBVIOUS
        <3>2. st = "Ok"
            BY <2>1, <2>2, <3>1 DEF MsgInFlight
        <3>3. r.st = "Ok" /\ ParseResponse(r.rx) = "Ok"
            BY <2>1, <3>2
        <3> QED BY <2>1, <3>3 DEF ParseResponse, MsgReply
    <2>5. msgState' \in MsgStates
        BY <2>2, <2>3 DEF ContextInv, MsgStates
    <2>6. ContextInv'
        BY <2>2, <2>4, <2>5 DEF ContextInv
    <2> QED BY <2>2, <2>3, <2>6 DEF MsgInFlight
<1> QED BY <1>1, <1>2, <1>3 DEF MsgPoll

(* The phase of the abstract exchange, state by state.                     *)
LEMMA PhaseOf ==
    ASSUME msgState \in MsgStates
    PROVE  /\ MsgInFlight => Phase = "open"
           /\ msgState = "Done" => Phase = "answered"
           /\ msgState = "Failed" => Phase = "failed"
           /\ msgState = "Idle" => Phase = "idle"
<1>1. CASE MsgInFlight
    BY <1>1 DEF Phase, MsgInFlight
<1>2. CASE ~MsgInFlight
    BY <1>2 DEF Phase, MsgInFlight
<1> QED BY <1>1, <1>2

(* The phase the abstract exchange is in, from the state of the message.   *)
LEMMA PhaseOfNext ==
    ASSUME msgState' \in MsgStates
    PROVE  /\ MsgInFlight' => Phase' = "open"
           /\ msgState' = "Done" => Phase' = "answered"
           /\ msgState' = "Failed" => Phase' = "failed"
           /\ msgState' = "Idle" => Phase' = "idle"
<1>1. CASE MsgInFlight'
    BY <1>1 DEF Phase, MsgInFlight
<1>2. CASE ~MsgInFlight'
    BY <1>2 DEF Phase, MsgInFlight
<1> QED BY <1>1, <1>2

(* A new request opens the abstract exchange under the next number.        *)
LEMMA SendMapsToExchange ==
    ASSUME ContextInv, NEW sess, NEW svc, NEW name, NEW conn,
           StartSend(sess, svc, name, conn),
           ~MsgInFlight
    PROVE  ContextInv' /\ Abstract!Open
<1>1. /\ sentContext' = context /\ context' = context + 1 /\ msgState' = "Sending"
    BY DEF StartSend
<1>2. ContextInv'
    BY <1>1 DEF ContextInv, MsgStates
<1>3. Phase # "open"
    BY PhaseOf DEF ContextInv, MsgStates, MsgInFlight
<1>4. Phase' = "open" /\ Answered' = 0
    BY <1>1, PhaseOfNext DEF MsgStates, MsgInFlight, Answered
<1>5. context' - 1 = (context - 1) + 1
    BY <1>1 DEF ContextInv
<1> QED BY <1>2, <1>3, <1>4, <1>5 DEF Abstract!Open, Abstract!NoAnswer

(* A step that leaves the message alone is a stutter.                      *)
LEMMA QuietMapsToExchange ==
    ASSUME ContextInv, UNCHANGED msgVars
    PROVE  ContextInv' /\ UNCHANGED <<Phase, context - 1, Answered>>
BY DEF ContextInv, msgVars, Phase, Answered, MsgInFlight, MsgReply

(* Arithmetic on the sender context.                                       *)
LEMMA Predecessor == \A a, b \in Nat : a = b + 1 => b = a - 1
OBVIOUS

(* The verdict of a poll answers or fails the open request.                *)
LEMMA VerdictMapsToExchange ==
    ASSUME ContextInv, NEW st, MsgPoll(st)
    PROVE  /\ ContextInv'
           /\ \/ Abstract!Answer \/ Abstract!Fail
              \/ UNCHANGED <<Phase, context - 1, Answered>>
<1>1. ContextInv' /\ context' = context
    BY PollMapsToExchange
<1>2. msgState \in MsgStates /\ msgState' \in MsgStates
    BY <1>1 DEF ContextInv
<1>3. CASE UNCHANGED msgState /\ UNCHANGED msgVars
    BY <1>3, QuietMapsToExchange
<1>4. CASE MsgInFlight /\ MsgInFlight'
    <2>1. Phase = "open" /\ Phase' = "open"
        BY <1>2, <1>4, PhaseOf, PhaseOfNext
    <2>2. Answered = 0 /\ Answered' = 0
        BY <1>4 DEF Answered, MsgInFlight
    <2> QED BY <1>1, <2>1, <2>2
<1>5. CASE MsgInFlight /\ msgState' = "Done"
    <2>1. Phase = "open" /\ Phase' = "answered"
        BY <1>2, <1>5, PhaseOf, PhaseOfNext
    <2>2. Answered' = sentContext'
        BY <1>1, <1>5 DEF Answered, ContextInv
    <2>3. sentContext' = context - 1
        <3>1. context = sentContext' + 1 /\ sentContext' \in Nat /\ context \in Nat
            BY <1>1 DEF ContextInv
        <3> QED BY <3>1, Predecessor, Zenon
    <2> QED BY <1>1, <2>1, <2>2, <2>3 DEF Abstract!Answer
<1>6. CASE MsgInFlight /\ msgState' = "Failed"
    <2>1. Phase = "open" /\ Phase' = "failed"
        BY <1>2, <1>6, PhaseOf, PhaseOfNext
    <2>2. Answered = 0 /\ Answered' = 0
        BY <1>6 DEF Answered, MsgInFlight
    <2> QED BY <1>1, <2>1, <2>2 DEF Abstract!Fail
<1> QED BY <1>1, <1>3, <1>4, <1>5, <1>6, PollMapsToExchange

(* Every step of the system is one of the abstract exchange, or none.      *)
LEMMA StepMapsToExchange ==
    ASSUME ContextInv, [Next]_vars
    PROVE  ContextInv' /\ [Abstract!ExNext]_<<Phase, context - 1, Answered>>
<1>1. CASE UNCHANGED msgVars
    BY <1>1, QuietMapsToExchange
<1>2. CASE AppSend /\ ~UNCHANGED msgVars
    <2>1. PICK name \in Names : StartSend(connNo, "Read", name, NoConn) /\ ~MsgInFlight
        BY <1>2 DEF AppSend, MsgSend
    <2> QED BY <2>1, SendMapsToExchange DEF Abstract!ExNext
<1>3. CASE AppPoll
    <2>1. PICK st \in Status : MsgPoll(st)
        BY <1>3 DEF AppPoll
    <2> QED BY <2>1, VerdictMapsToExchange DEF Abstract!ExNext
<1>4. CASE AppAbort
    <2>1. msgState' = "Idle" /\ UNCHANGED <<context, sentContext>>
        BY <1>4 DEF AppAbort, MsgAbort
    <2>2. ContextInv'
        BY <2>1 DEF ContextInv, MsgStates
    <2>3. Phase' = "idle" /\ Answered' = 0
        BY <2>1, <2>2, PhaseOfNext DEF ContextInv, Answered
    <2> QED BY <2>1, <2>2, <2>3 DEF Abstract!ExNext, Abstract!Abandon, Abstract!NoAnswer
<1>5. CASE MsgDeadline
    <2>1. UNCHANGED <<msgState, context, sentContext, msgRx>>
        BY <1>5 DEF MsgDeadline
    <2> QED BY <2>1 DEF ContextInv, Phase, Answered, MsgInFlight, MsgReply
<1> QED BY <1>1, <1>2, <1>3, <1>4, <1>5
        DEF Next, AppNext, Tick, AppConnect, AppClose, AppPollTcp, vars

(* An initial state is one of the abstract exchange.                       *)
LEMMA InitMapsToExchange == Init => ContextInv /\ Abstract!ExInit
<1> SUFFICES ASSUME Init PROVE ContextInv /\ Abstract!ExInit
    OBVIOUS
<1>1. msgState = "Idle" /\ context = 1 /\ sentContext = 0
    BY DEF Init, MsgInit
<1>2. ContextInv
    BY <1>1 DEF ContextInv, MsgStates
<1>3. Phase = "idle" /\ Answered = 0
    BY <1>1, PhaseOf DEF MsgStates, Answered
<1> QED BY <1>1, <1>2, <1>3 DEF Abstract!ExInit, Abstract!NoAnswer

(* ExplicitMessage implements the abstract exchange: a poll() that returns *)
(* Ok has received the answer to the very last request, whatever exchanges *)
(* before it have left in the stream.                                      *)
THEOREM ExchangeImplemented == Spec => ImplementsExchange
<1>1. Init => ContextInv /\ Abstract!ExInit
    BY InitMapsToExchange
<1>2. ContextInv /\ [Next]_vars
        => ContextInv' /\ [Abstract!ExNext]_<<Phase, context - 1, Answered>>
    BY StepMapsToExchange
<1> QED BY <1>1, <1>2, PTL DEF Spec, ImplementsExchange, Abstract!ExSpec
=============================================================================
