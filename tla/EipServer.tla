------------------------------ MODULE EipServer ------------------------------
(***************************************************************************)
(* The far end of the connection, after tools/synthetic_eip_server.py,     *)
(* widened to what a PLC may do: answer late or not at all, refuse, answer *)
(* with an error or a packet that does not parse, close, or crash.         *)
(*                                                                         *)
(* srvConn is the connection being served, srvIn the units received of the *)
(* next packet, srvLost whether the stream has lost packet alignment, wire *)
(* the units sent that have not arrived.  A session handle is the number   *)
(* of its connection, so handles of different connections differ.          *)
(***************************************************************************)
EXTENDS Encapsulation, TcpConnection

CONSTANTS
    ReplyLen,     \* body units of an ordinary reply
    OverLen,      \* body units of a reply beyond every receiver's limit
    ReplyKinds    \* the replies this PLC gives

ASSUME ServerAssumption ==
    ReplyLen \in Nat /\ OverLen \in Nat /\ ReplyKinds \subseteq ReplyKind

VARIABLES srvConn, srvIn, srvLost, wire

srvVars == <<srvConn, srvIn, srvLost, wire>>

SrvInit == srvConn = 0 /\ srvIn = <<>> /\ srvLost = FALSE /\ wire = <<>>

Serving == sock = "up" /\ srvConn = connNo

(* What the next unit makes of the packet being received, and whether it   *)
(* is the unit that packet goes on with.                                   *)
NextIn == Append(srvIn, Head(out))
Continues(buf) == \A j \in 1..Len(buf) : buf[j] = [f |-> buf[1].f, i |-> j]
Complete(buf) == Len(buf) = HeaderLen + buf[1].f.len

(* accept() of the connection the client has opened last.                  *)
SrvAccept ==
    /\ sock = "up" /\ srvConn # connNo
    /\ srvConn' = connNo /\ srvIn' = <<>> /\ srvLost' = FALSE /\ wire' = <<>>
    /\ UNCHANGED tcpVars

(* The response to a request: the handlers of the three commands and       *)
(* send_packet().                                                          *)
Reply(req, kind) ==
    [req EXCEPT !.kind = kind,
                !.sess = IF req.cmd = "UnregisterSession"
                            \/ (req.cmd = "RegisterSession" /\ kind = "malformed")
                         THEN 0 ELSE connNo,
                !.len  = CASE kind = "oversize" -> OverLen
                           [] kind = "encapError" \/ req.cmd = "UnregisterSession" -> 0
                           [] OTHER -> ReplyLen]

(* recv_exact() takes one more unit of the request; the rest of the packet *)
(* is still to come.                                                       *)
SrvReceive ==
    /\ Serving /\ ~srvLost /\ out # <<>>
    /\ Continues(NextIn) /\ ~Complete(NextIn)
    /\ srvIn' = NextIn
    /\ out' = Tail(out)
    /\ UNCHANGED <<fd, tcpState, tcpLate, sock, in, connNo, srvConn, srvLost, wire>>

(* The unit that completes a request is taken.                             *)
Consume ==
    /\ Serving /\ ~srvLost /\ out # <<>>
    /\ Continues(NextIn) /\ Complete(NextIn)
    /\ srvIn' = <<>>
    /\ out' = Tail(out)
    /\ UNCHANGED <<fd, tcpState, tcpLate, sock, in, connNo, srvConn, srvLost>>

(* A request is answered with one of `replies', or not at all.             *)
Respond(replies) ==
    \/ wire' = wire
    \/ \E r \in replies : wire' = wire \o Units(r)

(* handle_connection() dispatches a request.                               *)
SrvHandle ==
    Consume /\ Respond({Reply(NextIn[1].f, kind) : kind \in ReplyKinds})

(* A unit that does not continue the packet begun: from here on headers    *)
(* are read from the wrong place and nothing is answered.                  *)
SrvMisread ==
    /\ Serving /\ out # <<>>
    /\ ~(~srvLost /\ Continues(NextIn))
    /\ srvLost' = TRUE /\ srvIn' = <<>>
    /\ out' = Tail(out)
    /\ UNCHANGED <<fd, tcpState, tcpLate, sock, in, connNo, srvConn, wire>>

(* One unit of what the server sent arrives.                               *)
Deliver ==
    /\ Serving /\ wire # <<>>
    /\ in' = Append(in, Head(wire)) /\ wire' = Tail(wire)
    /\ UNCHANGED <<fd, tcpState, tcpLate, sock, out, connNo, srvConn, srvIn, srvLost>>

(* Orderly close (idle for SESSION_TIMEOUT, restart): it arrives after the *)
(* data sent before it.                                                    *)
PeerCloses ==
    /\ sock = "up" /\ (srvConn = connNo => wire = <<>>)
    /\ sock' = "fin"
    /\ UNCHANGED <<fd, tcpState, tcpLate, out, in, connNo, srvVars>>

SrvNext ==
    \/ Establish /\ UNCHANGED srvVars
    \/ PeerResets /\ UNCHANGED srvVars
    \/ SrvAccept \/ SrvReceive \/ SrvHandle \/ SrvMisread \/ Deliver \/ PeerCloses

SrvTypeOK ==
    /\ srvConn \in Nat /\ srvLost \in BOOLEAN
    /\ srvIn \in Seq(Unit) /\ wire \in Seq(Unit)
    /\ out \in Seq(Unit) /\ in \in Seq(Unit)
=============================================================================
