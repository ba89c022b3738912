------------------------------ MODULE CipPackets ------------------------------
(***************************************************************************)
(* The bytes of one exchange: the request of a tag, of a connection or of  *)
(* the application itself, and the response that is taken apart by the     *)
(* class that sent it.  A PLC may answer anything, so that the parser has  *)
(* nothing of the request but the context, the id and the count that the   *)
(* modules ExplicitMessage and Connection are about: the request is        *)
(* forgotten when the response arrives.                                    *)
(***************************************************************************)
EXTENDS CipRequest, CipReply

vars == <<requestVars, replyVars>>

Init == RequestInit /\ ReplyInit

(* poll() has read a whole response behind a header that fits.             *)
ResponseArrives ==
    /\ got # <<>>
    /\ Parse(IF asked.by = "connected" THEN "connection" ELSE "message")
    /\ asked' = Asked("none", NoRoute, 0, <<>>, <<>>, <<>>)
    /\ packet' = <<>> /\ used' = {} /\ status' = "Answered" /\ got' = <<>>

Next ==
    \/ RequestNext /\ UNCHANGED replyVars
    \/ ResponseArrives
    \/ ReplyNext /\ UNCHANGED requestVars

Spec == Init /\ [][Next]_vars
=============================================================================
