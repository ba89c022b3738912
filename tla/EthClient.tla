------------------------------ MODULE EthClient ------------------------------
(***************************************************************************)
(* clx::Client (src/src/transport/Client.cpp), the Ethernet interface.     *)
(* eth stands for started_, ready_ and failed_, of which at most ready_    *)
(* and started_ are set together.  The PHY, the link and the address are   *)
(* the environment's.                                                      *)
(***************************************************************************)
VARIABLE eth

EthStates == {"off", "starting", "ready", "failed"}

EthInit == eth = "off"

(* begin(): restarts the driver, whatever the state was.                   *)
EthBegin(st) ==
    \/ st = "Pending" /\ eth' = "starting"
    \/ st = "Error" /\ eth' = "failed"

(* poll(): ready_ is sticky, a link lost later goes unnoticed.             *)
EthPoll(st) ==
    \/ eth = "failed" /\ st = "Error" /\ UNCHANGED eth
    \/ eth = "off" /\ st = "NotReady" /\ UNCHANGED eth
    \/ eth = "ready" /\ st = "Ok" /\ UNCHANGED eth
    \/ eth = "starting" /\ st = "Ok" /\ eth' = "ready"
    \/ eth = "starting" /\ st = "Pending" /\ UNCHANGED eth
=============================================================================
