---------------------------- MODULE Encapsulation ----------------------------
(***************************************************************************)
(* EtherNet/IP encapsulation packets as the library frames them on a TCP   *)
(* byte stream (src/src/eip/Encapsulation.h, Encapsulation.cpp).           *)
(*                                                                         *)
(* The 24 header bytes are HeaderLen units and a body of f.len units       *)
(* follows them.  A unit of the stream is a pair <<f, i>> (as a record):   *)
(* the i-th unit of packet f.  The text of a packet never matters, only    *)
(* whether the units a receiver took for a header are one packet's header. *)
(***************************************************************************)
EXTENDS Naturals, Sequences

CONSTANTS
    HeaderLen,   \* kEncapsulationHeaderSize, in units
    Names        \* tag names a request may carry

ASSUME HeaderLenAssumption == HeaderLen \in Nat \ {0}

Command == {"RegisterSession", "UnregisterSession", "SendRRData", "SendUnitData"}

(* Replies are told apart by how the client judges them: "ok"; "cipError"  *)
(* (general status not 0); "encapError" (header status not 0); "malformed" *)
(* (the body, or the session handle, does not parse); "oversize" (h.length *)
(* beyond what the receiver accepts).                                      *)
ReplyKind == {"ok", "cipError", "encapError", "malformed", "oversize"}

Service == {"Read", "Write", "ForwardOpen", "ForwardClose", "None"}

NoName == "None"

(* What a packet says of a CIP connection: the serial number the client    *)
(* gave it, the ids both ends gave it (O->T, T->O) and, in connected data, *)
(* the sequence count; 0 where a packet does not carry the field.          *)
ConnRef == [serial : Nat, ot : Nat, to : Nat, seq : Nat]

NoConn == [serial |-> 0, ot |-> 0, to |-> 0, seq |-> 0]

Packet == [cmd  : Command \cup {"Garbage"},
           sess : Nat,
           ctx  : Nat,
           len  : Nat,
           kind : ReplyKind \cup {"request"},
           svc  : Service,
           name : Names \cup {NoName},
           conn : ConnRef]

Unit == [f : Packet, i : Nat]

(* encodeHeader() followed by the body: the units of packet f, in order.   *)
Units(f) == [i \in 1..(HeaderLen + f.len) |-> [f |-> f, i |-> i]]

(* The first HeaderLen units of buf are the header of a single packet.     *)
Aligned(buf) == \A i \in 1..HeaderLen : buf[i] = [f |-> buf[1].f, i |-> i]

(* What decodeHeader() yields for bytes that are not a header, to a        *)
(* receiver that compares the sender context as well as the command: that  *)
(* such bytes spell the 64-bit context it expects is left out.  Session    *)
(* does not compare it: see SessHeaders there.                             *)
Garbage == [cmd |-> "Garbage", sess |-> 0, ctx |-> 0, len |-> 0,
            kind |-> "malformed", svc |-> "None", name |-> NoName,
            conn |-> NoConn]

(* decodeHeader() on a buffer of at least HeaderLen units.                 *)
DecodeHeader(buf) == IF Aligned(buf) THEN buf[1].f ELSE Garbage

(* The values the decoded length field can have: misaligned bytes give any *)
(* length, of which one beyond the receiver's limit `max' stands for all.  *)
DecodedLengths(buf, max) ==
    IF Aligned(buf) THEN {buf[1].f.len} ELSE 0..(max + 1)
=============================================================================
