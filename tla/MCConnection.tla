---------------------------- MODULE MCConnection ----------------------------
(* ConnectionSystem for TLC.                                               *)
EXTENDS ConnectionSystem

MCReplies == {"ok", "cipError"}
=============================================================================
