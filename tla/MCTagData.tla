------------------------------ MODULE MCTagData ------------------------------
(* TagData for TLC: a buffer of eight bytes and a clock of six values.   *)
EXTENDS TagData
=============================================================================
