----------------------------- MODULE ConnServer -----------------------------
(***************************************************************************)
(* The PLC of EipServer with its CIP connections, after handle_cip_request *)
(* and handle_send_unit_data of tools/synthetic_eip_server.py: a Forward   *)
(* Open makes a connection, connected data is answered on the connection   *)
(* it names, a Forward Close ends a connection.                            *)
(*                                                                         *)
(* held is the connections it has granted and not closed, each with the    *)
(* TCP connection it lives on; of those only the ones of the present TCP   *)
(* connection count.  The id it gives a connection is the serial number it *)
(* was opened with, so that connections have different ids.                *)
(*                                                                         *)
(* Connection.h:23-26 names what may come back that is no answer: stale,   *)
(* replayed, misrouted and malformed data.                                 *)
(***************************************************************************)
EXTENDS EipServer

CONSTANTS
    AnyToId,      \* ids that may be read in a response
    AnySeq        \* sequence counts that may be read in a response

ASSUME ConnServerAssumption == AnyToId \subseteq Nat /\ AnySeq \subseteq Nat

VARIABLES held, strays

connVars == <<held, strays>>

ConnInit == held = {} /\ strays = 0

Request1 == NextIn[1].f

OnThis == {h \in held : h.conn = srvConn}

Grant(req) == [conn |-> srvConn, serial |-> req.conn.serial,
               ot |-> req.conn.serial, to |-> req.conn.to]

RefOf(h, seq) == [serial |-> h.serial, ot |-> h.ot, to |-> h.to, seq |-> seq]

Replies(req, kinds, refs) ==
    {[Reply(req, k) EXCEPT !.conn = c] : k \in kinds, c \in refs}

(* Ids a Forward Open response should not carry: no id of the PLC's, or    *)
(* not the echo of the client's.                                           *)
WrongIds(req) ==
    {[serial |-> req.conn.serial, ot |-> ot, to |-> to, seq |-> 0]
        : ot \in {0, req.conn.serial}, to \in AnyToId}
    \ {RefOf(Grant(req), 0)}
-----------------------------------------------------------------------------
(* A Forward Open is granted, or it is refused or answered with wrong ids. *)
OpenConn ==
    /\ Consume /\ Request1.svc = "ForwardOpen"
    /\ \/ /\ held' = held \cup {Grant(Request1)}
          /\ Respond(Replies(Request1, ReplyKinds \cap {"ok"}, {RefOf(Grant(Request1), 0)}))
       \/ /\ Respond(Replies(Request1, ReplyKinds \ {"ok"}, {NoConn})
                     \cup Replies(Request1, ReplyKinds \cap {"ok"}, WrongIds(Request1)))
          /\ UNCHANGED held
    /\ UNCHANGED strays

(* A Forward Close names a connection by its serial number, and is granted *)
(* or refused.  The Python server answers each with success and keeps its  *)
(* table as it is; here, as a PLC does, the connection is let go of before *)
(* success is answered, and one that is kept is not answered with success. *)
CloseConn ==
    /\ Consume /\ Request1.svc = "ForwardClose"
    /\ \/ /\ held' = held \ {h \in OnThis : h.serial = Request1.conn.serial}
          /\ Respond(Replies(Request1, ReplyKinds, {NoConn}))
       \/ /\ Respond(Replies(Request1, ReplyKinds \ {"ok", "oversize"}, {NoConn}))
          /\ UNCHANGED held
    /\ UNCHANGED strays

(* Connected data for a connection the PLC does not have is dropped.       *)
UnitData ==
    /\ Consume /\ Request1.cmd = "SendUnitData"
    /\ Respond(UNION {Replies(Request1, ReplyKinds, {RefOf(h, Request1.conn.seq)})
                        : h \in {g \in OnThis : g.ot = Request1.conn.ot}})
    /\ UNCHANGED connVars

ConnHandle == OpenConn \/ CloseConn \/ UnitData

(* Stale, replayed and misrouted connected data: `c' is the context of a   *)
(* request of the client, `to' and `seq' any id and count but `genuine'.   *)
(* That it belongs to no connection of the client is its ot, 0, which is   *)
(* not on the wire.                                                        *)
Stray(contexts, genuine) ==
    /\ Serving
    /\ \E c \in contexts, to \in AnyToId, seq \in AnySeq :
          /\ <<c, to, seq>> # genuine
          /\ wire' = wire \o Units([cmd |-> "SendUnitData", sess |-> connNo, ctx |-> c,
                                    len |-> ReplyLen, kind |-> "ok", svc |-> "Read",
                                    name |-> NoName,
                                    conn |-> [serial |-> 0, ot |-> 0, to |-> to, seq |-> seq]])
    /\ strays' = strays + 1
    /\ UNCHANGED <<tcpVars, srvConn, srvIn, srvLost, held>>

ConnNext ==
    \/ Establish /\ UNCHANGED <<srvVars, connVars>>
    \/ PeerResets /\ UNCHANGED <<srvVars, connVars>>
    \/ (SrvAccept \/ SrvReceive \/ SrvMisread \/ Deliver \/ PeerCloses) /\ UNCHANGED connVars
    \/ ConnHandle

ConnTypeOK ==
    /\ held \subseteq [conn : Nat, serial : Nat, ot : Nat, to : Nat]
    /\ strays \in Nat
=============================================================================
