-------------------------- MODULE ConnectionSystem --------------------------
(***************************************************************************)
(* An application that uses a Connection on a TcpConnection of its own,    *)
(* against a PLC: it connects, opens the CIP connection, sends on it,      *)
(* closes it, polls, in any order and at any moment.  The session handle   *)
(* it sends is the one of the TCP connection it is on.                     *)
(*                                                                         *)
(* got is what the application has last got from data(): the response poll *)
(* returned Ok for, until it sends or opens again.                         *)
(***************************************************************************)
EXTENDS Connection, ConnServer

CONSTANTS
    MaxOpens,      \* bound: Forward Opens
    MaxSends,      \* bound: connected requests
    MaxFaults,     \* bound: TCP connections after the first, and stray responses
    OpenWhileUp    \* an open connection is opened again only while TCP is up

ASSUME CxnBoundsAssumption ==
    MaxOpens \in Nat /\ MaxSends \in Nat /\ MaxFaults \in Nat /\ OpenWhileUp \in BOOLEAN

VARIABLE got

vars == <<tcpVars, msgVars, cxnVars, srvVars, connVars, got>>

peerVars == <<srvVars, connVars>>

Nothing == Garbage

Init == TcpInit /\ MsgInit /\ CxnInit /\ SrvInit /\ ConnInit /\ got = Nothing
-----------------------------------------------------------------------------
AppConnect ==
    /\ connNo + strays <= MaxFaults
    /\ \E st \in Status : TcpConnect(st)
    /\ UNCHANGED <<msgVars, cxnVars, peerVars, got>>

AppClose == fd /\ TcpClose /\ UNCHANGED <<msgVars, cxnVars, peerVars, got>>

AppPollTcp ==
    /\ \E st \in Status : TcpPoll(st, tcpLate)
    /\ UNCHANGED <<msgVars, cxnVars, peerVars, got>>

AppOpen ==
    /\ serial < MaxOpens
    /\ OpenWhileUp /\ cxnState = "Open" => Connected
    /\ \E st \in Status, valid \in BOOLEAN :
          /\ CxnOpen(connNo, valid, st)
          /\ got' = IF st = "Pending" THEN Nothing ELSE got
    /\ UNCHANGED <<tcpVars, peerVars>>

AppSend ==
    /\ cxnContext <= MaxSends
    /\ \E st \in Status, valid \in BOOLEAN :
          /\ CxnSend(connNo, valid, st)
          /\ got' = IF st = "Pending" THEN Nothing ELSE got
    /\ UNCHANGED <<tcpVars, msgVars, peerVars>>

AppCloseCxn ==
    /\ \E st \in Status : CxnClose(connNo, st)
    /\ UNCHANGED <<tcpVars, peerVars, got>>

PollStatus == {"Pending", "Ok", "Closed", "Timeout", "NotReady", "Error"}

AppPoll ==
    /\ UNCHANGED peerVars
    /\ \E st \in PollStatus :
          /\ CxnPoll(st)
          /\ got' = IF cxnState = "Sending" /\ st = "Ok" THEN DecodeHeader(cxnRx)' ELSE got

Tick ==
    \/ TcpDeadline /\ UNCHANGED <<msgVars, cxnVars, peerVars, got>>
    \/ MsgDeadline /\ UNCHANGED <<tcpVars, cxnVars, peerVars, got>>
    \/ CxnDeadline /\ UNCHANGED <<tcpVars, msgVars, peerVars, got>>

(* What the PLC sends of its own accord names a request the client made,   *)
(* and is not the answer that the client is waiting for.                   *)
PlcStray ==
    /\ connNo + strays <= MaxFaults
    /\ Stray(1..(cxnContext - 1), <<cxnSentContext, toId, sentSequence>>)

AppNext ==
    \/ AppConnect \/ AppClose \/ AppPollTcp
    \/ AppOpen \/ AppSend \/ AppCloseCxn \/ AppPoll

Next ==
    \/ AppNext \/ Tick
    \/ (ConnNext \/ PlcStray) /\ UNCHANGED <<msgVars, cxnVars, got>>

Spec == Init /\ [][Next]_vars

(* poll() is to be called again and again, and time passes.  Nothing is    *)
(* asked of the PLC or of the network.                                     *)
Fairness == WF_vars(CxnInFlight /\ AppPoll) /\ WF_vars(Tick)

FairSpec == Spec /\ Fairness
-----------------------------------------------------------------------------
TypeOK == TcpTypeOK /\ MsgTypeOK /\ CxnTypeOK /\ SrvTypeOK /\ ConnTypeOK

(* Two receivers share one stream: fwd_ and the connection itself.  Never  *)
(* do both wait for a response, so that neither takes a unit of the        *)
(* other's (Connection.cpp:51, 60, 67), though the state of the one is not *)
(* looked at by the other.                                                 *)
OneReceiver == MsgInFlight <=> cxnState \in {"Opening", "Closing"}

(* "Connection IDs (valid once open)" (Connection.h:57): while the         *)
(* connection is open its ids are those of a connection that the PLC has   *)
(* granted, and not closed.                                                *)
OpenIsHeld ==
    cxnState \in {"Open", "Sending"} =>
        \E h \in held : h.serial = serial /\ h.ot = otId /\ h.to = toId

(* close() that has come to an end was answered by the PLC, as to this     *)
(* very connection: the PLC keeps nothing under its serial number, or it   *)
(* has refused the Forward Close with an error status, which pollClosing() *)
(* does not look at (Connection.cpp:302-313).  An answer that is stale, or *)
(* to another request, never passes for the end of the connection.         *)
Released == \A h \in held : h.conn = connNo => h.serial # serial

CloseRefused == msgState = "Done" /\ MsgReply.kind = "cipError"

ClosedIsReleased == cxnState = "Closed" => Released \/ CloseRefused

(* "rejected unless the connection ID matches the negotiated T->O ID and   *)
(* the sequence number matches the request" (Connection.h:23-26): what     *)
(* data() gives was sent on the very connection, by the PLC that granted   *)
(* it, whatever stale, replayed or misrouted data came in between.         *)
GotOnThisConnection ==
    got # Nothing /\ cxnState = "Open" =>
        got.conn = [serial |-> serial, ot |-> otId, to |-> toId, seq |-> sentSequence]

(* Connection implements the abstract exchange: Ok only on the answer to   *)
(* the last request (Connection.cpp:352-431), also after the sequence      *)
(* count has wrapped.                                                      *)
CxnPhase == CASE cxnState = "Sending" -> "open"
              [] got # Nothing        -> "answered"
              [] OTHER                -> "idle"

Connected1 == INSTANCE Exchange WITH
    phase <- CxnPhase, number <- cxnContext - 1, answer <- got.ctx

ImplementsExchange == Connected1!ExSpec

(* Forward Open, connected exchange and Forward Close all end.             *)
CxnExchangeEnds == CxnInFlight ~> ~CxnInFlight
=============================================================================
