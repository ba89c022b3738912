--------------------------- MODULE ExplicitMessage ---------------------------
(***************************************************************************)
(* clx::ExplicitMessage (src/src/cip/ExplicitMessage.cpp): an unconnected  *)
(* SendRRData exchange.  msgTx is what of tx_ is still to send, msgRx what *)
(* rx_ holds, msgWant is rxExpected_; context and sentContext are the      *)
(* sender context of the next and of the last request; msgLate says that   *)
(* millis() has reached deadline_.                                         *)
(***************************************************************************)
EXTENDS Framing

CONSTANTS
    ReqLen,      \* body units of a request
    MsgMaxBody   \* 16 + kMaxCipData + kRoutedOverhead, in units

ASSUME MsgAssumption == ReqLen \in Nat /\ MsgMaxBody \in Nat

VARIABLES msgState, msgLate, context, sentContext, msgTx, msgRx, msgWant

msgVars == <<msgState, msgLate, context, sentContext, msgTx, msgRx, msgWant>>

MsgStates == {"Idle", "Sending", "Receiving", "Done", "Failed"}

MsgInit ==
    /\ msgState = "Idle" /\ msgLate = FALSE
    /\ context = 1 /\ sentContext = 0
    /\ msgTx = <<>> /\ msgRx = <<>> /\ msgWant = 0

MsgInFlight == msgState \in {"Sending", "Receiving"}

Request(sess, svc, name, conn) ==
    [cmd |-> "SendRRData", sess |-> sess, ctx |-> context, len |-> ReqLen,
     kind |-> "request", svc |-> svc, name |-> name,
     conn |-> conn]
-----------------------------------------------------------------------------
(* startSend(), reached from send() and from sendRouted().                 *)
StartSend(sess, svc, name, conn) ==
    /\ msgTx' = Units(Request(sess, svc, name, conn))
    /\ msgRx' = <<>> /\ msgWant' = HeaderLen
    /\ sentContext' = context /\ context' = context + 1
    /\ msgLate' = FALSE
    /\ msgState' = "Sending"

(* send() and sendRouted(); `valid' is the argument check (a slot beyond   *)
(* 16, a path or data that does not fit); `conn' is what a Forward Open or *)
(* Close says of its connection.                                           *)
MsgSend(sess, svc, name, conn, valid, st) ==
    \/ MsgInFlight /\ st = "Busy" /\ UNCHANGED msgVars
    \/ ~MsgInFlight /\ ~Connected /\ st = "NotReady" /\ UNCHANGED msgVars
    \/ ~MsgInFlight /\ Connected /\ ~valid /\ st = "InvalidArg" /\ UNCHANGED msgVars
    \/ ~MsgInFlight /\ Connected /\ valid /\ st = "Pending" /\ StartSend(sess, svc, name, conn)

MsgAbort == msgState' = "Idle"
            /\ UNCHANGED <<msgLate, context, sentContext, msgTx, msgRx, msgWant>>

(* Defect: the sender context is not compared.                             *)
AnyContext(rx) ==
    LET h == DecodeHeader(rx)
    IN  IF h.cmd = "SendRRData" /\ h.kind \notin {"encapError", "malformed"}
        THEN "Ok" ELSE "Error"

(* parseResponse(): the response must be a SendRRData response to the      *)
(* request just sent, with both CPF items in bounds.                       *)
ParseResponse(rx) ==
    LET h == DecodeHeader(rx)
    IN  IF /\ h.cmd = "SendRRData" /\ h.kind # "encapError"
           /\ h.ctx = sentContext
           /\ h.kind # "malformed"
        THEN "Ok" ELSE "Error"

(* What resultCode(), data() and dataLength() return once Done.            *)
MsgReply == DecodeHeader(msgRx)
-----------------------------------------------------------------------------
(* Defect: the deadline is looked at while sending only.                   *)
SendTimeout(st) ==
    /\ msgState = "Sending" /\ msgLate
    /\ st = "Timeout" /\ msgState' = "Failed"
    /\ UNCHANGED <<msgLate, context, sentContext, msgTx, msgRx, msgWant, tcpVars>>

MsgTimeout(st) ==
    /\ MsgInFlight /\ msgLate
    /\ st = "Timeout" /\ msgState' = "Failed"
    /\ UNCHANGED <<msgLate, context, sentContext, msgTx, msgRx, msgWant, tcpVars>>

MsgAdvance(st) ==
    /\ MsgInFlight /\ ~msgLate
    /\ \E r \in Advance(msgTx, msgRx, msgWant, MsgMaxBody) :
          /\ msgTx' = r.tx /\ msgRx' = r.rx /\ msgWant' = r.want
          /\ out' = r.out /\ in' = r.in /\ tcpState' = r.tcp
          /\ st = IF r.st = "Ok" THEN ParseResponse(r.rx) ELSE r.st
          /\ msgState' = CASE st = "Ok"      -> "Done"
                           [] st = "Pending" -> IF r.sent THEN "Receiving" ELSE msgState
                           [] OTHER          -> "Failed"
    /\ UNCHANGED <<msgLate, context, sentContext, fd, tcpLate, sock, connNo>>

(* poll() of an exchange that is over only repeats its verdict.            *)
MsgSettled(st) ==
    /\ \/ msgState = "Done"   /\ st = "Ok"
       \/ msgState = "Failed" /\ st = "Error"
       \/ msgState = "Idle"   /\ st = "NotReady"
    /\ UNCHANGED <<msgVars, tcpVars>>

MsgPoll(st) == MsgTimeout(st) \/ MsgAdvance(st) \/ MsgSettled(st)

MsgDeadline == MsgInFlight /\ ~msgLate /\ msgLate' = TRUE
               /\ UNCHANGED <<msgState, context, sentContext, msgTx, msgRx, msgWant>>

MsgTypeOK ==
    /\ msgState \in MsgStates /\ msgLate \in BOOLEAN
    /\ context \in Nat /\ sentContext \in Nat
    /\ msgTx \in Seq(Unit) /\ msgRx \in Seq(Unit)
    /\ msgWant \in Nat
=============================================================================
