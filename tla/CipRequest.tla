------------------------------ MODULE CipRequest ------------------------------
(***************************************************************************)
(* How a request is laid out and read: the paths of Cip.h, the requests of *)
(* Tag and Connection, the frames of ExplicitMessage and Connection, and   *)
(* the PLC's reading of them, after tools/synthetic_eip_server.py.         *)
(*                                                                         *)
(* A block of bytes is a sequence of fields: n bytes that are a number v,  *)
(* or n bytes of what the application gave (a name, a path, data).  A      *)
(* reader goes by lengths and offsets, and reads a field only where one    *)
(* begins and ends.                                                        *)
(*                                                                         *)
(* There is one request, since none leaves anything to the next.  asked is *)
(* what the application means by the call, used the buffers the call fills *)
(* and how far, got what the PLC makes of the packet.                      *)
(***************************************************************************)
EXTENDS Naturals, Sequences, SequencesExt

CONSTANTS
    MaxCip,         \* ExplicitMessage::kMaxCipData
    RoutedOverhead, \* kRoutedOverhead
    MaxConnected,   \* Connection::kMaxDataSize
    MaxSymbolic,    \* kMaxSymbolicName
    MaxName,        \* sizeof(tagName_) of a Connection
    MaxTagData,     \* Tag::kMaxDataSize
    NameLens, TagLens,    \* lengths of names, and of the data of writes
    PathLens, DataLens,   \* lengths of the paths and data of other requests
    Slots                 \* slots the application names

VARIABLES asked, packet, used, status, got

requestVars == <<asked, packet, used, status, got>>

NoRoute == 255

Capacity == [path |-> 128, wdata |-> 4 + MaxTagData, open |-> 128,
             wrapper |-> RoutedOverhead + MaxCip,
             tx |-> 24 + 16 + MaxCip + RoutedOverhead,
             cxnTx |-> 24 + 22 + MaxConnected]

(* What the sizes owe each other: buffers of 128 bytes for paths, lengths  *)
(* of paths in one byte, and room for the header of an Unconnected Send    *)
(* and for the longest name beside the most data.                          *)
ASSUME RequestAssumption ==
    /\ {MaxCip, RoutedOverhead, MaxConnected, MaxSymbolic, MaxName, MaxTagData} \subseteq Nat
    /\ NameLens \cup PathLens \cup DataLens \subseteq Nat
    /\ TagLens \subseteq 0..MaxTagData /\ Slots \subseteq 0..NoRoute
    /\ MaxSymbolic <= 126 /\ MaxName <= 85 /\ MaxName <= MaxSymbolic + 1
    /\ MaxCip <= 513 /\ MaxConnected <= 513 /\ RoutedOverhead >= 15
    /\ MaxTagData + MaxSymbolic + 9 <= MaxCip
-----------------------------------------------------------------------------
Number(n, v) == << <<n, "number", v % (256 ^ n)>> >>
Bytes(n, what) == IF n = 0 THEN <<>> ELSE << <<n, what, 0>> >>

Size(b) == FoldLeft(LAMBDA s, f : s + f[1], 0, b)

(* The first n bytes, and all but those; Torn if that cuts a field.        *)
Torn == Bytes(1, "torn")
Cut(b, n) == CHOOSE k \in 0..Len(b) : Size(SubSeq(b, 1, k)) = n
Cuts(b, n) == \E k \in 0..Len(b) : Size(SubSeq(b, 1, k)) = n

Take(b, n) == CASE n >= Size(b) -> b
                [] Cuts(b, n)   -> SubSeq(b, 1, Cut(b, n))
                [] OTHER        -> Torn

Drop(b, n) == CASE n >= Size(b) -> <<>>
                [] Cuts(b, n)   -> SubSeq(b, Cut(b, n) + 1, Len(b))
                [] OTHER        -> Torn

(* The number of n bytes at an offset.                                     *)
Read(b, at, n) ==
    LET rest == Drop(b, at) IN IF rest # <<>> /\ rest[1][1] = n THEN rest[1][3] ELSE 0
-----------------------------------------------------------------------------
Pad(n) == IF n % 2 = 1 THEN Number(1, 0) ELSE <<>>

(* Defect: the name is not padded to whole words.                          *)
UnpaddedSymbolic(name) ==
    LET len == IF name > MaxSymbolic THEN MaxSymbolic ELSE name
    IN  Number(1, 145) \o Number(1, len) \o Bytes(len, "name")

(* appendSymbolic(): a name of that length, cut to the longest there is.   *)
Symbolic(name) ==
    LET len == IF name > MaxSymbolic THEN MaxSymbolic ELSE name
    IN  Number(1, 145) \o Number(1, len) \o Bytes(len, "name") \o Pad(len)

ConnectionManager == Number(1, 32) \o Number(1, 6) \o Number(1, 36) \o Number(1, 1)
MessageRouter     == Number(1, 32) \o Number(1, 2) \o Number(1, 36) \o Number(1, 1)

(* appendBackplaneRoute().                                                 *)
Route(slot) == Number(1, 1) \o Number(1, 0) \o Number(1, 1) \o Number(1, slot)

(* buildConnectionPath().                                                  *)
ConnectionPath(slot, name) ==
    (IF slot = NoRoute THEN <<>> ELSE Number(1, 1) \o Number(1, slot) \o MessageRouter)
    \o Symbolic(name)

(* A CIP request: the service, the path in words, the data.                *)
Request(svc, path, data) ==
    Number(1, svc) \o Number(1, Size(path) \div 2) \o path \o data

(* Defect: the length of the embedded request counts its padding.          *)
PaddedWrapper(slot, svc, path, data) ==
    LET embedded == Request(svc, path, data) \o Pad(Size(data))
    IN  Number(1, 10) \o Number(1, 5) \o Number(2, Size(embedded))
        \o embedded \o Route(slot)

(* sendRouted(): the data of an Unconnected Send.                          *)
Wrapper(slot, svc, path, data) ==
    LET embedded == Request(svc, path, data)
    IN  Number(1, 10) \o Number(1, 5) \o Number(2, Size(embedded))
        \o embedded \o Pad(Size(embedded)) \o Route(slot)

(* The encapsulation header, and the CPF items of SendRRData and of        *)
(* SendUnitData.                                                           *)
Framed(len) == Bytes(2, "command") \o Number(2, len) \o Bytes(20, "header")

Unconnected(cip) ==
    Framed(16 + Size(cip)) \o Bytes(6, "interface") \o Number(2, 2)
    \o Number(2, 0) \o Number(2, 0) \o Number(2, 178) \o Number(2, Size(cip)) \o cip

Connected(cip) ==
    Framed(22 + Size(cip)) \o Bytes(6, "interface") \o Number(2, 2)
    \o Number(2, 161) \o Number(2, 4) \o Bytes(4, "id")
    \o Number(2, 177) \o Number(2, 2 + Size(cip)) \o Bytes(2, "sequence") \o cip
-----------------------------------------------------------------------------
(* Defect: the data is left out of what is compared with the limit.        *)
PathFits(limit, path, data) == 2 + Size(path) <= limit /\ Size(path) % 2 = 0

Fits(limit, path, data) == 2 + Size(path) + Size(data) <= limit /\ Size(path) % 2 = 0

Refuse(buffers) ==
    status' = "InvalidArg" /\ used' = buffers /\ packet' = <<>>

(* send() and sendRouted() of ExplicitMessage.                             *)
SendDirect(svc, path, data, buffers) ==
    IF Fits(MaxCip, path, data)
    THEN /\ status' = "Pending"
         /\ packet' = Unconnected(Request(svc, path, data))
         /\ used' = buffers \cup {<<"tx", Size(packet')>>}
    ELSE Refuse(buffers)

SendRouted(slot, svc, path, data, buffers) ==
    IF slot <= 16 /\ Fits(MaxCip, path, data)
    THEN /\ status' = "Pending"
         /\ LET wrapper == Wrapper(slot, svc, path, data)
            IN  /\ packet' = Unconnected(Request(82, ConnectionManager, wrapper))
                /\ used' = buffers \cup {<<"wrapper", Size(wrapper)>>, <<"tx", Size(packet')>>}
    ELSE Refuse(buffers)

Send(slot, svc, path, data, buffers) ==
    IF slot = NoRoute THEN SendDirect(svc, path, data, buffers)
                      ELSE SendRouted(slot, svc, path, data, buffers)

(* What the PLC is to be asked.                                            *)
Asked(by, slot, svc, path, data, name) ==
    [by |-> by, slot |-> slot, svc |-> svc, path |-> path, data |-> data, name |-> name]

Ask(by, slot, svc, path, data, name) ==
    /\ status = "Idle" /\ UNCHANGED got
    /\ asked' = Asked(by, slot, svc, path, data, Bytes(name, "name"))

(* read() and write() of a Tag, whose data is in bounds (module TagData).  *)
TagCall(name, slot, svc, data, buffers) ==
    /\ Ask("tag", slot, svc, Symbolic(name), data, name)
    /\ IF name > MaxSymbolic
       THEN Refuse({})
       ELSE Send(slot, svc, Symbolic(name), data,
                 buffers \cup {<<"path", Size(Symbolic(name))>>})

TagRead == \E name \in NameLens, slot \in Slots : TagCall(name, slot, 76, Number(2, 1), {})

TagWrite ==
    \E name \in NameLens, slot \in Slots, n \in TagLens :
        LET wdata == Number(2, 1) \o Bytes(2, "type") \o Bytes(n, "data")
        IN  TagCall(name, slot, 77, wdata, {<<"wdata", Size(wdata)>>})

(* The Forward Open and the Forward Close of a Connection.                 *)
OpenData(slot, name) ==
    LET cxnPath == ConnectionPath(slot, name)
    IN  Bytes(35, "parameters") \o Number(1, Size(cxnPath) \div 2) \o cxnPath

CloseData(slot, name) ==
    LET cxnPath == ConnectionPath(slot, name)
    IN  Bytes(10, "parameters") \o Number(1, Size(cxnPath) \div 2) \o Number(1, 0) \o cxnPath

CxnCall(slot, svc, data, name) ==
    /\ Ask("connection", slot, svc, ConnectionManager, data, name)
    /\ IF name >= MaxName
       THEN Refuse({})
       ELSE SendDirect(svc, ConnectionManager, data, {<<"open", Size(data)>>})

CxnOpen  == \E name \in NameLens, slot \in Slots : CxnCall(slot, 84, OpenData(slot, name), name)
CxnClose == \E name \in NameLens, slot \in Slots : CxnCall(slot, 78, CloseData(slot, name), name)

(* The application's own requests.                                         *)
AppSend ==
    \E n \in PathLens, d \in DataLens, slot \in Slots :
        /\ Ask("message", slot, 14, Bytes(n, "path"), Bytes(d, "data"), 0)
        /\ Send(slot, 14, Bytes(n, "path"), Bytes(d, "data"), {})

AppSendConnected ==
    \E n \in PathLens, d \in DataLens :
        /\ Ask("connected", NoRoute, 14, Bytes(n, "path"), Bytes(d, "data"), 0)
        /\ IF Fits(MaxConnected, Bytes(n, "path"), Bytes(d, "data"))
           THEN /\ status' = "Pending"
                /\ packet' = Connected(Request(14, Bytes(n, "path"), Bytes(d, "data")))
                /\ used' = {<<"cxnTx", Size(packet')>>}
           ELSE Refuse({})
-----------------------------------------------------------------------------
(* parse_symbolic_path().                                                  *)
NameIn(path) ==
    IF Read(path, 0, 1) = 145 THEN Take(Drop(path, 2), Read(path, 1, 1)) ELSE <<>>

(* The connection path of a Forward Open or Close, of which `at' is the    *)
(* offset and `size' that of its length.                                   *)
CxnTarget(data, size, at) ==
    LET cxnPath == Take(Drop(data, at), 2 * Read(data, size, 1))
    IN  IF Read(cxnPath, 0, 1) = 1
        THEN [slot |-> Read(cxnPath, 1, 1), name |-> NameIn(Drop(cxnPath, 6))]
        ELSE [slot |-> NoRoute, name |-> NameIn(cxnPath)]

(* handle_cip_request(), given the request and the slot it came for.       *)
Understood(by, slot, cip) ==
    LET svc    == Read(cip, 0, 1)
        path   == Take(Drop(cip, 2), 2 * Read(cip, 1, 1))
        data   == Drop(cip, 2 + 2 * Read(cip, 1, 1))
        target == CASE svc = 84 -> CxnTarget(data, 35, 36)
                    [] svc = 78 -> CxnTarget(data, 10, 12)
                    [] OTHER    -> [slot |-> slot, name |-> NameIn(path)]
    IN  Asked(by, target.slot, svc, path, data, target.name)

(* The embedded request of an Unconnected Send, and the slot after it.     *)
Embedded(rest) == Take(Drop(rest, 4), Read(rest, 2, 2))
SlotIn(rest) ==
    IF Size(rest) >= 8 + Read(rest, 2, 2) THEN Read(rest, Size(rest) - 1, 1) ELSE 0

(* handle_send_rr_data() and handle_send_unit_data(): the body is as long  *)
(* as the header says, each item as long as its length says.               *)
PlcReceives ==
    /\ status = "Pending" /\ got = <<>>
    /\ LET body  == Take(Drop(packet, 24), Read(packet, 2, 2))
           first == Read(body, 10, 2)
           item  == Take(Drop(body, 16 + first), Read(body, 14 + first, 2))
           cip   == IF first = 0 THEN item ELSE Drop(item, 2)
           rest  == Drop(cip, 2 + 2 * Read(cip, 1, 1))
       IN  /\ Size(item) >= 4
           /\ got' = IF first = 0 /\ Read(cip, 0, 1) = 82
                     THEN <<Understood(asked.by, SlotIn(rest), Embedded(rest))>>
                     ELSE <<Understood(asked.by, NoRoute, cip)>>
    /\ UNCHANGED <<asked, packet, used, status>>

RequestInit ==
    /\ asked = Asked("none", NoRoute, 0, <<>>, <<>>, <<>>)
    /\ packet = <<>> /\ used = {} /\ status = "Idle" /\ got = <<>>

RequestNext ==
    \/ TagRead \/ TagWrite \/ CxnOpen \/ CxnClose \/ AppSend \/ AppSendConnected
    \/ PlcReceives
-----------------------------------------------------------------------------
(* Nothing is written past the end of a buffer, neither the limits that    *)
(* send(), sendRouted() and the connection check nor the overhead of the   *)
(* Unconnected Send being off (ExplicitMessage.cpp:33, 56, 63;             *)
(* Connection.cpp:111, 181; Tag.cpp:41, 85-89).                            *)
BuffersHold == \A u \in used : u[2] <= Capacity[u[1]]

(* What the PLC reads is what was asked, to the byte: the service, the     *)
(* slot, the path, the whole of the name and the data, through three       *)
(* lengths in words and bytes and two paddings, and although each length   *)
(* is cut to 8 or 16 bits (ExplicitMessage.cpp:45-135).                    *)
PlcReadsRequest == got # <<>> => got = <<asked>>

(* A read or write that Tag takes is never refused by the message for its  *)
(* size: the limits on names and on data leave room for each other         *)
(* (Tag.cpp:16, 73, 79; ExplicitMessage.h:26).                             *)
TagCallsFit ==
    /\ asked.by = "tag" /\ Size(asked.name) <= MaxSymbolic
    /\ asked.slot = NoRoute \/ asked.slot <= 16
    => status = "Pending"
=============================================================================
