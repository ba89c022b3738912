---------------------------- MODULE MessageSystem ----------------------------
(***************************************************************************)
(* An application that uses ExplicitMessage on a TcpConnection of its own, *)
(* the way examples/IdentityQuery does, against a PLC: it connects, starts *)
(* exchanges, polls, and may abort, close or connect again at any moment.  *)
(* The session handle it sends is the one of the connection it is on.      *)
(***************************************************************************)
EXTENDS ExplicitMessage, EipServer

CONSTANTS
    MaxSends,      \* bound: exchanges started
    MaxConnects    \* bound: connections opened

ASSUME BoundsAssumption == MaxSends \in Nat /\ MaxConnects \in Nat

vars == <<tcpVars, msgVars, srvVars>>

Init == TcpInit /\ MsgInit /\ SrvInit
-----------------------------------------------------------------------------
AppConnect ==
    /\ connNo < MaxConnects
    /\ \E st \in Status : TcpConnect(st)
    /\ UNCHANGED <<msgVars, srvVars>>

AppClose == fd /\ TcpClose /\ UNCHANGED <<msgVars, srvVars>>

AppPollTcp ==
    /\ \E st \in Status : TcpPoll(st, tcpLate)
    /\ UNCHANGED <<msgVars, srvVars>>

AppSend ==
    /\ context <= MaxSends
    /\ \E st \in Status, name \in Names, valid \in BOOLEAN :
          MsgSend(connNo, "Read", name, NoConn, valid, st)
    /\ UNCHANGED <<tcpVars, srvVars>>

AppPoll ==
    /\ \E st \in Status : MsgPoll(st)
    /\ UNCHANGED srvVars

AppAbort == msgState # "Idle" /\ MsgAbort /\ UNCHANGED <<tcpVars, srvVars>>

Tick ==
    \/ TcpDeadline /\ UNCHANGED <<msgVars, srvVars>>
    \/ MsgDeadline /\ UNCHANGED <<tcpVars, srvVars>>

AppNext == AppConnect \/ AppClose \/ AppPollTcp \/ AppSend \/ AppPoll \/ AppAbort

Next == AppNext \/ Tick \/ (SrvNext /\ UNCHANGED msgVars)

Spec == Init /\ [][Next]_vars

(* poll() is to be called again and again, and time passes.  Nothing is    *)
(* asked of the PLC or of the network.                                     *)
Fairness == WF_vars(AppPoll) /\ WF_vars(Tick)

FairSpec == Spec /\ Fairness
-----------------------------------------------------------------------------
TypeOK == TcpTypeOK /\ MsgTypeOK /\ SrvTypeOK

(* Bounded receive framing (ExplicitMessage.cpp:194-199): whatever the     *)
(* stream holds, also after an abandoned exchange has left it misaligned,  *)
(* rx_ never takes more than its size, nor more than is expected.          *)
ReceiveBounded ==
    /\ Len(msgRx) <= msgWant
    /\ msgWant <= HeaderLen + MsgMaxBody

(* poll() gives its verdict on a response only after the whole of it was   *)
(* received, and only after the whole request was sent.                    *)
DoneIsComplete ==
    msgState = "Done" => /\ msgTx = <<>>
                         /\ Len(msgRx) = HeaderLen + MsgReply.len
                         /\ MsgReply.kind # "request"

(* ExplicitMessage implements the abstract exchange: poll() returns Ok     *)
(* only on the answer to the last request, whatever late, partial or       *)
(* misaligned bytes earlier exchanges have left behind                     *)
(* (ExplicitMessage.cpp:216-218).                                          *)
Phase == CASE MsgInFlight          -> "open"
           [] msgState = "Done"    -> "answered"
           [] msgState = "Failed"  -> "failed"
           [] OTHER                -> "idle"

Answered == IF msgState = "Done" THEN MsgReply.ctx ELSE 0

Abstract == INSTANCE Exchange WITH
    phase <- Phase, number <- context - 1, answer <- Answered

ImplementsExchange == Abstract!ExSpec

(* Every exchange is over some time after it began: each path through poll *)
(* ends it or is cut off by the deadline (ExplicitMessage.cpp:143-146).    *)
ExchangeEnds == MsgInFlight ~> ~MsgInFlight
=============================================================================
