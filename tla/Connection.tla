----------------------------- MODULE Connection -----------------------------
(***************************************************************************)
(* clx::Connection (src/src/cip/Connection.cpp): a CIP connection.  The    *)
(* Forward Open that begins it and the Forward Close that ends it are      *)
(* exchanges of the ExplicitMessage it owns, fwd_, whose state is that of  *)
(* module ExplicitMessage; what is sent on it goes through buffers and     *)
(* with a context and a deadline of its own, over the same byte stream.    *)
(*                                                                         *)
(* otId, toId, serial and sequence are otConnId_, toConnId_, connSerial_   *)
(* and sequence_; the fields that begin with cxn are as in ExplicitMessage.*)
(* The path of the connection (tagName_, cpuSlot_) is left out.            *)
(***************************************************************************)
EXTENDS ExplicitMessage

CONSTANTS
    CxnReqLen,   \* body units of a connected request
    CxnMaxBody,  \* 22 + kMaxDataSize, in units
    SerialMod,   \* 2^16: the width of the serial number
    SeqMod,      \* 2^16: the width of the sequence count
    ToIds        \* the values esp_random() may give for a T->O id

ASSUME CxnAssumption ==
    /\ CxnReqLen \in Nat /\ CxnMaxBody \in Nat
    /\ SerialMod \in Nat \ {0, 1} /\ SeqMod \in Nat \ {0}
    /\ ToIds \subseteq Nat \ {0}

VARIABLES cxnState, otId, toId, serial, sequence, sentSequence,
          cxnContext, cxnSentContext, cxnLate, cxnTx, cxnRx, cxnWant

idVars == <<otId, toId, serial>>
sendVars == <<sequence, sentSequence, cxnContext, cxnSentContext, cxnLate,
              cxnTx, cxnRx, cxnWant>>
cxnVars == <<cxnState, idVars, sendVars>>

CxnStates == {"Idle", "Opening", "Open", "Sending", "Closing", "Closed", "Failed"}

CxnInit ==
    /\ cxnState = "Idle"
    /\ otId = 0 /\ toId = 0 /\ serial = 0
    /\ sequence = 1 % SeqMod /\ sentSequence = 0
    /\ cxnContext = 1 /\ cxnSentContext = 0
    /\ cxnLate = FALSE /\ cxnTx = <<>> /\ cxnRx = <<>> /\ cxnWant = 0

CxnInFlight == cxnState \in {"Opening", "Sending", "Closing"}

(* ++s_connSerial, which skips 0.                                          *)
NextSerial ==
    IF (serial + 1) % SerialMod = 0 THEN 1 ELSE (serial + 1) % SerialMod

(* Defect: the sequence count is kept in a wider integer.                  *)
UnwrappedSequence == sequence + 1

NextSequence == (sequence + 1) % SeqMod

(* A SendUnitData request: it names the connection by the PLC's id.        *)
ConnectedRequest(sess) ==
    [cmd |-> "SendUnitData", sess |-> sess, ctx |-> cxnContext, len |-> CxnReqLen,
     kind |-> "request", svc |-> "Read", name |-> NoName,
     conn |-> [serial |-> 0, ot |-> otId, to |-> 0, seq |-> sequence]]
-----------------------------------------------------------------------------
(* Defect: the state is changed before it is known whether the Forward     *)
(* Open is sent.                                                           *)
OpeningAtOnce(sess, st) ==
    /\ \E t \in ToIds :
          /\ toId' = t /\ otId' = 0 /\ serial' = NextSerial
          /\ MsgSend(sess, "ForwardOpen", NoName,
                     [serial |-> NextSerial, ot |-> 0, to |-> t, seq |-> 0], TRUE, st)
    /\ cxnState' = "Opening"
    /\ UNCHANGED sendVars

(* startOpen(): new ids first, then the Forward Open; if that is not sent, *)
(* the ids are new and the state is the old one.                           *)
StartOpen(sess, st) ==
    /\ \E t \in ToIds :
          /\ toId' = t /\ otId' = 0 /\ serial' = NextSerial
          /\ MsgSend(sess, "ForwardOpen", NoName,
                     [serial |-> NextSerial, ot |-> 0, to |-> t, seq |-> 0], TRUE, st)
    /\ cxnState' = IF st = "Pending" THEN "Opening" ELSE cxnState
    /\ UNCHANGED sendVars

(* open(); `valid' is the check of the name.                               *)
CxnOpen(sess, valid, st) ==
    \/ ~valid /\ st = "InvalidArg" /\ UNCHANGED <<cxnVars, msgVars>>
    \/ valid /\ CxnInFlight /\ st = "Busy" /\ UNCHANGED <<cxnVars, msgVars>>
    \/ valid /\ ~CxnInFlight /\ StartOpen(sess, st)

(* send(): nobody asks whether the TCP connection is up; `valid' is the    *)
(* check of the path and of the lengths.                                   *)
CxnSend(sess, valid, st) ==
    \/ cxnState # "Open" /\ st = "NotReady" /\ UNCHANGED cxnVars
    \/ cxnState = "Open" /\ ~valid /\ st = "InvalidArg" /\ UNCHANGED cxnVars
    \/ /\ cxnState = "Open" /\ valid /\ st = "Pending"
       /\ cxnState' = "Sending"
       /\ cxnTx' = Units(ConnectedRequest(sess))
       /\ cxnRx' = <<>> /\ cxnWant' = HeaderLen
       /\ cxnSentContext' = cxnContext /\ cxnContext' = cxnContext + 1
       /\ sentSequence' = sequence /\ sequence' = NextSequence
       /\ cxnLate' = FALSE
       /\ UNCHANGED idVars

(* close(): the Forward Close names the connection by its serial number.   *)
CxnClose(sess, st) ==
    \/ cxnState # "Open" /\ st = "NotReady" /\ UNCHANGED <<cxnVars, msgVars>>
    \/ /\ cxnState = "Open"
       /\ MsgSend(sess, "ForwardClose", NoName,
                  [serial |-> serial, ot |-> 0, to |-> 0, seq |-> 0], TRUE, st)
       /\ cxnState' = IF st = "Pending" THEN "Closing" ELSE cxnState
       /\ UNCHANGED <<idVars, sendVars>>
-----------------------------------------------------------------------------
(* The ids a Forward Open response must carry: one of the PLC's and the    *)
(* echo of ours.                                                           *)
Negotiated(r) == r.kind = "ok" /\ r.conn.ot # 0 /\ r.conn.to = toId

(* Defect: the ids of a response are taken as they are.                    *)
PollOpeningTrusting(st) ==
    /\ cxnState = "Opening"
    /\ \/ /\ st = "Pending" /\ MsgPoll("Pending")
          /\ UNCHANGED <<cxnState, otId>>
       \/ /\ st \notin {"Pending", "Ok"} /\ MsgPoll(st)
          /\ cxnState' = "Failed" /\ UNCHANGED otId
       \/ /\ st = "Ok" /\ MsgPoll("Ok") /\ MsgReply'.kind = "ok"
          /\ cxnState' = "Open" /\ otId' = MsgReply'.conn.ot
       \/ /\ st = "Error" /\ MsgPoll("Ok") /\ MsgReply'.kind # "ok"
          /\ cxnState' = "Failed" /\ UNCHANGED otId
    /\ UNCHANGED <<toId, serial, sendVars>>

PollOpening(st) ==
    /\ cxnState = "Opening"
    /\ \/ /\ st = "Pending" /\ MsgPoll("Pending")
          /\ UNCHANGED <<cxnState, otId>>
       \/ /\ st \notin {"Pending", "Ok"} /\ MsgPoll(st)
          /\ cxnState' = "Failed" /\ UNCHANGED otId
       \/ /\ st = "Ok" /\ MsgPoll("Ok") /\ Negotiated(MsgReply')
          /\ cxnState' = "Open" /\ otId' = MsgReply'.conn.ot
       \/ /\ st = "Error" /\ MsgPoll("Ok") /\ ~Negotiated(MsgReply')
          /\ cxnState' = "Failed" /\ UNCHANGED otId
    /\ UNCHANGED <<toId, serial, sendVars>>

(* Defect: a Forward Close that fails counts as a closed connection.       *)
ClosedAnyway(st) ==
    /\ cxnState = "Closing"
    /\ MsgPoll(st)
    /\ cxnState' = IF st = "Pending" THEN "Closing" ELSE "Closed"
    /\ UNCHANGED <<idVars, sendVars>>

(* The result code of the response is not looked at.                       *)
PollClosing(st) ==
    /\ cxnState = "Closing"
    /\ MsgPoll(st)
    /\ cxnState' = CASE st = "Pending" -> "Closing"
                     [] st = "Ok"      -> "Closed"
                     [] OTHER          -> "Failed"
    /\ UNCHANGED <<idVars, sendVars>>
-----------------------------------------------------------------------------
(* Defects: a response is not compared with the request in its context, or *)
(* in its connection id.                                                   *)
AnyConnectedContext(rx) ==
    LET h == DecodeHeader(rx)
    IN  IF /\ h.cmd = "SendUnitData" /\ h.kind \notin {"encapError", "malformed"}
           /\ h.conn.to = toId /\ h.conn.seq = sentSequence
        THEN "Ok" ELSE "Error"

AnyConnectionId(rx) ==
    LET h == DecodeHeader(rx)
    IN  IF /\ h.cmd = "SendUnitData" /\ h.kind \notin {"encapError", "malformed"}
           /\ h.ctx = cxnSentContext /\ h.conn.seq = sentSequence
        THEN "Ok" ELSE "Error"

(* parseConnectedResponse(): a SendUnitData response with the context and  *)
(* the sequence count of the request, on this connection, whose CPF items  *)
(* are in bounds.                                                          *)
ParseConnectedResponse(rx) ==
    LET h == DecodeHeader(rx)
    IN  IF /\ h.cmd = "SendUnitData" /\ h.kind # "encapError"
           /\ h.ctx = cxnSentContext
           /\ h.kind # "malformed"
           /\ h.conn.to = toId
           /\ h.conn.seq = sentSequence
        THEN "Ok" ELSE "Error"

(* Defect: the deadline is looked at only once the request is out.         *)
TimeoutOnceSent(st) ==
    /\ cxnState = "Sending" /\ cxnLate /\ cxnTx = <<>>
    /\ st = "Timeout" /\ cxnState' = "Failed"
    /\ UNCHANGED <<idVars, sendVars, tcpVars>>

CxnTimeout(st) ==
    /\ cxnState = "Sending" /\ cxnLate
    /\ st = "Timeout" /\ cxnState' = "Failed"
    /\ UNCHANGED <<idVars, sendVars, tcpVars>>

CxnAdvance(st) ==
    /\ cxnState = "Sending" /\ ~cxnLate
    /\ \E r \in Advance(cxnTx, cxnRx, cxnWant, CxnMaxBody) :
          /\ cxnTx' = r.tx /\ cxnRx' = r.rx /\ cxnWant' = r.want
          /\ out' = r.out /\ in' = r.in /\ tcpState' = r.tcp
          /\ st = IF r.st = "Ok" THEN ParseConnectedResponse(r.rx) ELSE r.st
          /\ cxnState' = CASE st = "Ok"      -> "Open"
                           [] st = "Pending" -> "Sending"
                           [] OTHER          -> "Failed"
    /\ UNCHANGED <<idVars, sequence, sentSequence, cxnContext, cxnSentContext, cxnLate,
                   fd, tcpLate, sock, connNo>>

PollSending(st) == (CxnTimeout(st) \/ CxnAdvance(st)) /\ UNCHANGED msgVars

CxnSettled(st) ==
    /\ \/ cxnState = "Open"   /\ st = "Ok"
       \/ cxnState = "Closed" /\ st = "Closed"
       \/ cxnState = "Failed" /\ st = "Error"
       \/ cxnState = "Idle"   /\ st = "NotReady"
    /\ UNCHANGED <<cxnVars, msgVars, tcpVars>>

CxnPoll(st) == PollOpening(st) \/ PollSending(st) \/ PollClosing(st) \/ CxnSettled(st)

CxnDeadline ==
    /\ cxnState = "Sending" /\ ~cxnLate /\ cxnLate' = TRUE
    /\ UNCHANGED <<cxnState, idVars, sequence, sentSequence, cxnContext, cxnSentContext,
                   cxnTx, cxnRx, cxnWant>>

CxnTypeOK ==
    /\ cxnState \in CxnStates /\ cxnLate \in BOOLEAN
    /\ otId \in Nat /\ toId \in ToIds \cup {0} /\ serial \in 0..(SerialMod - 1)
    /\ sequence \in 0..(SeqMod - 1) /\ sentSequence \in 0..(SeqMod - 1)
    /\ cxnContext \in Nat /\ cxnSentContext \in Nat
    /\ cxnTx \in Seq(Unit) /\ cxnRx \in Seq(Unit)
    /\ cxnWant \in Nat
=============================================================================
