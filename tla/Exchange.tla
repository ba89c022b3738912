------------------------------- MODULE Exchange -------------------------------
(***************************************************************************)
(* What a request/response exchange promises its user: at most one request *)
(* is open at a time, each request gets a number of its own, and an answer *)
(* is an answer to the request that is open.  A request may fail at any    *)
(* time; the user may abandon it.                                          *)
(***************************************************************************)
EXTENDS Naturals

VARIABLES
    phase,    \* "idle", "open", "answered" or "failed"
    number,   \* number of the last request
    answer    \* number of the request that was answered, 0 for none

NoAnswer == 0

ExInit == phase = "idle" /\ number = 0 /\ answer = NoAnswer

Open ==
    /\ phase # "open"
    /\ phase' = "open" /\ number' = number + 1 /\ answer' = NoAnswer

Answer ==
    /\ phase = "open"
    /\ phase' = "answered" /\ answer' = number
    /\ UNCHANGED number

Fail ==
    /\ phase = "open"
    /\ phase' = "failed"
    /\ UNCHANGED <<number, answer>>

Abandon ==
    /\ phase' = "idle" /\ answer' = NoAnswer
    /\ UNCHANGED number

ExNext == Open \/ Answer \/ Fail \/ Abandon

ExSpec == ExInit /\ [][ExNext]_<<phase, number, answer>>
=============================================================================
