---------------------------- MODULE SessionSystem ----------------------------
(***************************************************************************)
(* An application that drives a Session on a TcpConnection, the way        *)
(* examples/EipSession does, against a PLC: it may open, close, abort and  *)
(* poll the session and connect again at any moment.                       *)
(***************************************************************************)
EXTENDS Session, EipServer

CONSTANTS
    MaxOpens,      \* bound: RegisterSession exchanges started
    MaxConnects    \* bound: connections opened

ASSUME BoundsAssumption == MaxOpens \in Nat /\ MaxConnects \in Nat

VARIABLES
    opens,         \* RegisterSession exchanges started
    openedOn       \* history: see AppOpen

appVars == <<opens, openedOn>>

vars == <<tcpVars, sessVars, srvVars, appVars>>

Init == TcpInit /\ SessInit /\ SrvInit /\ opens = 0 /\ openedOn = 0
-----------------------------------------------------------------------------
AppConnect ==
    /\ connNo < MaxConnects
    /\ \E st \in Status : TcpConnect(st)
    /\ UNCHANGED <<sessVars, srvVars, appVars>>

AppPollTcp ==
    /\ \E st \in Status : TcpPoll(st, tcpLate)
    /\ UNCHANGED <<sessVars, srvVars, appVars>>

(* Nothing of an earlier exchange is under way in either direction, as on  *)
(* a new connection.                                                       *)
Quiet == out = <<>> /\ in = <<>> /\ (srvConn = connNo => wire = <<>>)

(* openedOn is the connection the registration in progress, or the last    *)
(* one, was started on if that was quiet, and 0 if it was not.  It guards  *)
(* no step.                                                                *)
AppOpen ==
    /\ opens < MaxOpens
    /\ \E st \in Status :
          /\ SessOpen(Connected, st)
          /\ IF st = "Pending"
             THEN opens' = opens + 1 /\ openedOn' = IF Quiet THEN connNo ELSE 0
             ELSE UNCHANGED appVars
    /\ UNCHANGED <<tcpVars, srvVars>>

AppClose ==
    /\ \E st \in Status : SessClose(st)
    /\ UNCHANGED <<tcpVars, srvVars, appVars>>

AppAbort == SessAbort /\ UNCHANGED <<tcpVars, srvVars, appVars>>

AppPoll ==
    /\ \E st \in Status : SessPoll(st, sessLate)
    /\ UNCHANGED <<srvVars, appVars>>

Tick ==
    \/ TcpDeadline /\ UNCHANGED <<sessVars, srvVars, appVars>>
    \/ SessDeadline /\ UNCHANGED <<tcpVars, srvVars, appVars>>

Next ==
    \/ AppConnect \/ AppPollTcp \/ AppOpen \/ AppClose \/ AppAbort \/ AppPoll
    \/ Tick
    \/ SrvNext /\ UNCHANGED <<sessVars, appVars>>

(* The application keeps polling the session, and time passes.             *)
Fairness == WF_vars(AppPoll) /\ WF_vars(Tick)

Spec == Init /\ [][Next]_vars /\ Fairness
-----------------------------------------------------------------------------
TypeOK == TcpTypeOK /\ SessTypeOK /\ SrvTypeOK

(* registered() comes with a handle the PLC has assigned since open(), on  *)
(* the connection open() was called on or on one that came in its place:   *)
(* never 0, never one of before (Session.cpp:120-134).  That is so for an  *)
(* open() on a quiet stream, however the session is aborted, polled late   *)
(* or moved to another connection then.  On what an earlier exchange left  *)
(* in the stream nothing of the kind holds: the response is accepted for   *)
(* its command, status and length, without a look at the context.          *)
RegisteredHasHandle ==
    sessState = "Registered" /\ openedOn # 0 => handle \in openedOn..connNo

(* The receive buffer is never overrun (Session.cpp:183-189).              *)
ReceiveBounded == Len(sessRx) <= sessWant /\ sessWant <= HeaderLen + SessMaxBody

(* A registration comes to an end (Session.cpp:101-104), and so does an    *)
(* unregistration (Session.cpp:138-141).                                   *)
RegistrationEnds == sessState = "Registering" ~> sessState # "Registering"
UnregistrationEnds == sessState = "Unregistering" ~> sessState # "Unregistering"
=============================================================================
