---------------------------- MODULE TcpConnection ----------------------------
(***************************************************************************)
(* The non-blocking TCP client of src/src/transport/TcpConnection.cpp over *)
(* the lwIP socket it drives.                                              *)
(*                                                                         *)
(* fd, tcpState and tcpLate are the object's fields: `fd_ >= 0', `state_'  *)
(* and whether millis() has reached `deadline_'.  sock, out and in are the *)
(* socket: its condition, the units accepted from the client that the PLC  *)
(* has not taken yet, and the units that have arrived but are not read.    *)
(* connNo numbers the connections opened so far.                           *)
(*                                                                         *)
(* An operation of the class is an action with the status it returns as a  *)
(* parameter, so that a caller can compose it with what it does next.      *)
(***************************************************************************)
EXTENDS Naturals, Sequences

CONSTANT SndBuf     \* units the socket accepts before it would block

ASSUME SndBufAssumption == SndBuf \in Nat \ {0}

VARIABLES fd, tcpState, tcpLate, sock, out, in, connNo

tcpVars == <<fd, tcpState, tcpLate, sock, out, in, connNo>>

Status == {"Pending", "Ok", "Busy", "Closed", "Timeout", "NotReady",
           "NoMemory", "InvalidArg", "Error"}

SocketState == {"none", "connecting", "up", "fin", "reset"}

TcpInit ==
    /\ fd = FALSE /\ tcpState = "Closed" /\ tcpLate = FALSE
    /\ sock = "none" /\ out = <<>> /\ in = <<>> /\ connNo = 0

Connected == tcpState = "Ok"
-----------------------------------------------------------------------------
(* Defect: close() forgets state_.                                         *)
CloseKeepsState ==
    /\ fd' = FALSE /\ tcpLate' = FALSE
    /\ sock' = "none" /\ out' = <<>> /\ in' = <<>>
    /\ UNCHANGED <<tcpState, connNo>>

(* close(): lwip_close() drops whatever the socket still holds.            *)
TcpClose ==
    /\ fd' = FALSE /\ tcpState' = "Closed" /\ tcpLate' = FALSE
    /\ sock' = "none" /\ out' = <<>> /\ in' = <<>>
    /\ UNCHANGED connNo

(* connect(): an open socket is closed first, whatever follows.            *)
TcpConnect(st) ==
    \/ /\ st = "Pending"
       /\ fd' = TRUE /\ tcpState' = "Pending" /\ tcpLate' = FALSE
       /\ sock' = "connecting" /\ out' = <<>> /\ in' = <<>>
       /\ connNo' = connNo + 1
    \/ /\ st \in {"InvalidArg", "Error"}    \* bad target; no socket, refused at once
       /\ IF fd THEN TcpClose ELSE UNCHANGED tcpVars

(* poll(): `late' is what the deadline test reads.  A socket is writable   *)
(* once its handshake is over, also after the peer has closed it; SO_ERROR *)
(* reports a reset only once.                                              *)
TcpPoll(st, late) ==
    \/ ~fd /\ st = "Closed" /\ UNCHANGED tcpVars
    \/ fd /\ tcpState = "Ok" /\ st = "Ok" /\ UNCHANGED tcpVars
    \/ /\ fd /\ tcpState # "Ok"
       /\ \/ st = "Error" /\ TcpClose       \* select failed, or SO_ERROR set
          \/ sock = "connecting" /\ late /\ st = "Timeout" /\ TcpClose
          \/ sock = "connecting" /\ ~late /\ st = "Pending" /\ UNCHANGED tcpVars
          \/ /\ sock \in {"up", "fin"} \/ (sock = "reset" /\ tcpState = "Closed")
             /\ st = "Ok" /\ tcpState' = "Ok"
             /\ UNCHANGED <<fd, tcpLate, sock, out, in, connNo>>
-----------------------------------------------------------------------------
(* What calling write() on tx until all of it is sent, or a call does not  *)
(* take anything, can come to: the number of units taken, state_ and the   *)
(* status.                                                                 *)
Taken(tx) ==
    LET room == SndBuf - Len(out)
    IN  IF tx = <<>>               THEN {[n |-> 0, tcp |-> tcpState, st |-> "Ok"]}
        ELSE IF ~fd \/ ~Connected  THEN {[n |-> 0, tcp |-> tcpState, st |-> "Closed"]}
        ELSE IF sock = "reset"     THEN {[n |-> 0, tcp |-> "Closed", st |-> "Closed"],
                                         [n |-> 0, tcp |-> tcpState, st |-> "Error"]}
        ELSE IF Len(tx) <= room    THEN {[n |-> Len(tx), tcp |-> tcpState, st |-> "Ok"]}
        ELSE                            {[n |-> room, tcp |-> tcpState, st |-> "Pending"]}

WriteAll(tx) ==
    { [tx  |-> SubSeq(tx, w.n + 1, Len(tx)),
       out |-> out \o SubSeq(tx, 1, w.n),
       tcp |-> w.tcp, st |-> w.st] : w \in Taken(tx) }

(* The outcomes of a read() that finds nothing to take: no data yet, the   *)
(* peer's orderly close (which read() records), or an error (which it does *)
(* not).                                                                   *)
ReadDry ==
    IF ~fd \/ ~Connected   THEN {[tcp |-> tcpState, st |-> "Closed"]}
    ELSE IF sock = "fin"   THEN {[tcp |-> "Closed", st |-> "Closed"]}
    ELSE IF sock = "reset" THEN {[tcp |-> "Closed", st |-> "Closed"],
                                 [tcp |-> tcpState, st |-> "Error"]}
    ELSE                        {[tcp |-> tcpState, st |-> "Pending"]}

(* Units a sequence of read() calls takes when `want' more are asked for.  *)
Readable(want) ==
    IF ~fd \/ ~Connected    THEN 0
    ELSE IF Len(in) <= want THEN Len(in)
    ELSE                         want
-----------------------------------------------------------------------------
(* The network and the clock.                                              *)
Establish  == sock = "connecting" /\ sock' = "up"
              /\ UNCHANGED <<fd, tcpState, tcpLate, out, in, connNo>>

(* A crash of the PLC, or of the path to it: what it had sent is lost.     *)
PeerResets == sock \in {"up", "fin"} /\ sock' = "reset"
              /\ UNCHANGED <<fd, tcpState, tcpLate, out, in, connNo>>

TcpDeadline == tcpState = "Pending" /\ ~tcpLate /\ tcpLate' = TRUE
               /\ UNCHANGED <<fd, tcpState, sock, out, in, connNo>>

TcpTypeOK ==
    /\ fd \in BOOLEAN /\ tcpLate \in BOOLEAN
    /\ tcpState \in {"Closed", "Pending", "Ok"}
    /\ sock \in SocketState
    /\ connNo \in Nat
    /\ Len(out) <= SndBuf
    /\ ~fd => tcpState = "Closed" /\ sock = "none"
=============================================================================
