------------------------------ MODULE MCMessage ------------------------------
(* MessageSystem for TLC.                                                  *)
EXTENDS MessageSystem

(* Of the replies to SendRRData, "cipError" is parsed like "ok".           *)
MCReplies == {"ok", "encapError", "malformed", "oversize"}
=============================================================================
