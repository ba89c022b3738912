------------------------------ MODULE MCSession ------------------------------
(* SessionSystem for TLC.                                                  *)
EXTENDS SessionSystem

(* Session requests name no tag, and have no general status to be wrong.   *)
MCNames   == {}
MCReplies == {"ok", "encapError", "malformed", "oversize"}
=============================================================================
