------------------------------- MODULE Session -------------------------------
(***************************************************************************)
(* clx::Session (src/src/eip/Session.cpp): RegisterSession, keep the       *)
(* handle the PLC assigns, UnregisterSession.  The fields are as in        *)
(* ExplicitMessage, with the receive limit kMaxBodySize.  sessLate says    *)
(* that millis() has reached deadline_, which only open() sets.            *)
(***************************************************************************)
EXTENDS Framing

CONSTANTS
    RegLen,         \* body units of a RegisterSession request
    SessMaxBody,    \* kMaxBodySize, in units
    MisreadHandles  \* handles that bytes which are no header may seem to carry

ASSUME SessAssumption ==
    RegLen \in Nat /\ SessMaxBody \in Nat /\ MisreadHandles \subseteq Nat

VARIABLES sessState, handle, sessLate, sessTx, sessRx, sessWant

sessVars == <<sessState, handle, sessLate, sessTx, sessRx, sessWant>>

SessStates == {"Idle", "Registering", "Registered", "Unregistering", "Closed", "Failed"}

SessInit ==
    /\ sessState = "Idle" /\ handle = 0 /\ sessLate = FALSE
    /\ sessTx = <<>> /\ sessRx = <<>> /\ sessWant = 0

SessRequest(cmd, sess, len) ==
    [cmd |-> cmd, sess |-> sess, ctx |-> 1, len |-> len,
     kind |-> "request", svc |-> "None", name |-> NoName, conn |-> NoConn]

StartExchange(state, cmd, sess, len) ==
    /\ sessState' = state
    /\ sessTx' = Units(SessRequest(cmd, sess, len))
    /\ sessRx' = <<>> /\ sessWant' = HeaderLen
-----------------------------------------------------------------------------
(* open(): the only place that sets the deadline; `up' is what connected() *)
(* returns.                                                                *)
SessOpen(up, st) ==
    \/ sessState \in {"Registering", "Registered"} /\ st = "Busy" /\ UNCHANGED sessVars
    \/ /\ sessState \notin {"Registering", "Registered"}
       /\ ~up /\ st = "NotReady" /\ UNCHANGED sessVars
    \/ /\ sessState \notin {"Registering", "Registered"}
       /\ up /\ st = "Pending"
       /\ sessLate' = FALSE
       /\ StartExchange("Registering", "RegisterSession", 0, RegLen)
       /\ UNCHANGED handle

SessAbort ==
    /\ sessState' = "Closed" /\ handle' = 0
    /\ sessTx' = <<>> /\ sessRx' = <<>> /\ sessWant' = 0
    /\ UNCHANGED sessLate

(* close(): startUnregister() leaves the deadline of open() in force.      *)
SessClose(st) ==
    \/ /\ sessState = "Registered" /\ st = "Pending"
       /\ StartExchange("Unregistering", "UnregisterSession", handle, 0)
       /\ UNCHANGED <<handle, sessLate>>
    \/ sessState \in {"Registering", "Unregistering"} /\ st = "Busy" /\ UNCHANGED sessVars
    \/ sessState \in {"Idle", "Closed", "Failed"} /\ st = "Ok" /\ SessAbort
-----------------------------------------------------------------------------
SessInFlight == sessState \in {"Registering", "Unregistering"}

(* Defects: one of the two exchanges does not look at the deadline.        *)
NoUnregisterTimeout(st, late) ==
    /\ sessState = "Registering" /\ late
    /\ st = "Timeout" /\ sessState' = "Failed"
    /\ UNCHANGED <<handle, sessLate, sessTx, sessRx, sessWant, tcpVars>>

NoRegisterTimeout(st, late) ==
    /\ sessState = "Unregistering" /\ late
    /\ st = "Timeout" /\ sessState' = "Failed"
    /\ UNCHANGED <<handle, sessLate, sessTx, sessRx, sessWant, tcpVars>>

SessTimeout(st, late) ==
    /\ SessInFlight /\ late
    /\ st = "Timeout" /\ sessState' = "Failed"
    /\ UNCHANGED <<handle, sessLate, sessTx, sessRx, sessWant, tcpVars>>

(* The part common to pollRegistering() and pollUnregistering(): a write   *)
(* that fails is reported but does not end the exchange, a read that fails *)
(* does.                                                                   *)
Exchanged(r) ==
    /\ sessTx' = r.tx /\ sessRx' = r.rx /\ sessWant' = r.want
    /\ out' = r.out /\ in' = r.in /\ tcpState' = r.tcp
    /\ UNCHANGED <<sessLate, fd, tcpLate, sock, connNo>>

Unfinished(r, st) ==
    /\ r.st # "Ok" /\ st = r.st
    /\ sessState' = IF r.sent /\ r.st # "Pending" THEN "Failed" ELSE sessState
    /\ UNCHANGED handle

(* What decodeHeader() may yield to a receiver that looks at the command,  *)
(* the status and the length alone: bytes that are not a header may well   *)
(* read as a response, with any handle.                                    *)
Misread(h, len) == [Garbage EXCEPT !.cmd = "RegisterSession", !.kind = "ok",
                                   !.sess = h, !.len = len]

SessHeaders(buf) ==
    IF Aligned(buf) THEN {buf[1].f}
    ELSE {Garbage} \cup {Misread(h, Len(buf) - HeaderLen) : h \in MisreadHandles}

(* Defect: the handle is not tested for 0.                                 *)
AcceptAnyHandle(h, st) ==
    IF h.cmd = "RegisterSession" /\ h.kind # "encapError" /\ h.len >= RegLen
    THEN handle' = h.sess /\ st = "Ok" /\ sessState' = "Registered"
    ELSE st = "Error" /\ sessState' = "Failed" /\ UNCHANGED handle

(* The RegisterSession response is accepted for its command, status,       *)
(* length and handle; the sender context is not looked at.                 *)
AcceptRegister(h, st) ==
    IF h.cmd = "RegisterSession" /\ h.kind # "encapError" /\ h.len >= RegLen
    THEN /\ handle' = h.sess
         /\ IF h.sess = 0 THEN st = "Error" /\ sessState' = "Failed"
                          ELSE st = "Ok" /\ sessState' = "Registered"
    ELSE st = "Error" /\ sessState' = "Failed" /\ UNCHANGED handle

PollRegistering(st, late) ==
    /\ sessState = "Registering" /\ ~late
    /\ \E r \in Advance(sessTx, sessRx, sessWant, SessMaxBody) :
          /\ Exchanged(r)
          /\ \/ Unfinished(r, st)
             \/ r.st = "Ok" /\ \E h \in SessHeaders(r.rx) : AcceptRegister(h, st)

(* Whatever packet comes in next counts as the UnregisterSession response. *)
PollUnregistering(st, late) ==
    /\ sessState = "Unregistering" /\ ~late
    /\ \E r \in Advance(sessTx, sessRx, sessWant, SessMaxBody) :
          /\ Exchanged(r)
          /\ \/ Unfinished(r, st)
             \/ r.st = "Ok" /\ st = "Ok" /\ sessState' = "Closed" /\ UNCHANGED handle

SessSettled(st) ==
    /\ \/ sessState = "Registered" /\ st = "Ok"
       \/ sessState = "Closed"     /\ st = "Closed"
       \/ sessState = "Failed"     /\ st = "Error"
       \/ sessState = "Idle"       /\ st = "NotReady"
    /\ UNCHANGED <<sessVars, tcpVars>>

(* poll(): `late' is what the deadline test reads.                         *)
SessPoll(st, late) ==
    \/ SessTimeout(st, late)
    \/ PollRegistering(st, late) \/ PollUnregistering(st, late)
    \/ SessSettled(st)

(* The deadline passes, during the exchange or long after it.              *)
SessDeadline ==
    /\ sessState \in {"Registering", "Registered", "Unregistering"} /\ ~sessLate
    /\ sessLate' = TRUE
    /\ UNCHANGED <<sessState, handle, sessTx, sessRx, sessWant>>

SessTypeOK ==
    /\ sessState \in SessStates
    /\ handle \in Nat /\ sessLate \in BOOLEAN
    /\ sessTx \in Seq(Unit) /\ sessRx \in Seq(Unit) /\ sessWant \in Nat
=============================================================================
