------------------------------- MODULE Deadline -------------------------------
(***************************************************************************)
(* The clock of every class that waits: millis() is an unsigned integer    *)
(* that wraps, a deadline is a value it will have, and the code tells by   *)
(* the sign of their difference whether the deadline has passed.           *)
(***************************************************************************)
EXTENDS Integers

CONSTANT Half        \* 2^31

ASSUME HalfAssumption == Half \in Nat \ {0}

Width == 2 * Half

Clock == 0..(Width - 1)

(* Defect: the sum is kept in a wider integer.                             *)
Unwrapped(millis, ms) == millis + ms

(* deadline_ = millis() + timeoutMs                                        *)
Later(millis, ms) == (millis + ms) % Width

(* Defect: the two are compared as they are.                               *)
ComparedUnsigned(millis, deadline) == millis >= deadline

(* (int32_t)(millis() - deadline_) >= 0                                    *)
Expired(millis, deadline) == (millis - deadline) % Width < Half
=============================================================================
