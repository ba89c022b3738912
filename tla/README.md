# A TLA+ verification of ESP32ControlLogix

ESP32ControlLogix is an Arduino library with which an ESP32 reads and writes the
tags of a ControlLogix PLC over EtherNet/IP. It is written as a stack of small
state machines, none of which ever blocks: a call starts something and returns,
`poll()` moves it on. This directory models that stack in TLA+, checks it with
TLC on small instances and proves part of it with TLAPS for instances of every
size. Paths below are relative to the repository (`src/` is its root here, so
`src/src/PlcClient.cpp` is the repository's `src/PlcClient.cpp`).

## 1. The system

| Component | State it keeps | Operations |
|---|---|---|
| `PlcClient` (`src/src/PlcClient.*`) | `state_`, `wantConnect_`, `deadline_`, the tag pool (`inUse_`, names, the status seen by the last poll), `cpuSlot_`; owns one of each object below and all tags | `begin`, `connect`, `disconnect`, `setCpuSlot`, `createTag`, `destroyTag`, `read`, `write`, `abortTag`, `tag()->set...`, `poll`; calls back the application from `poll` |
| `Tag` (`src/src/tag/Tag.*`) | `state_`, the data buffer, its type and length, `resultCode_` | `read`, `write`, `poll`, `abort`, setters and getters |
| `ExplicitMessage` (`src/src/cip/ExplicitMessage.*`) | `state_`, `tx_`/`rx_` and how far they are, the expected length, the sender context, `deadline_` | `send`, `sendRouted`, `poll`, `abort` |
| `Session` (`src/src/eip/Session.*`) | `state_`, `handle_`, `tx_`/`rx_`, `deadline_` | `open`, `close`, `abort`, `poll` |
| `Encapsulation` (`src/src/eip/Encapsulation.*`) | none | the 24-byte header, encoded and decoded |
| `TcpConnection` (`src/src/transport/TcpConnection.*`) | `fd_`, `state_`, `deadline_` over an lwIP socket | `connect`, `poll`, `read`, `write`, `close` |
| `Client` (`src/src/transport/Client.*`) | `started_`, `ready_`, `failed_` | `begin`, `poll` |
| `Connection` (`src/src/cip/Connection.*`) | `state_`, the ids of both ends, the serial number, the 16-bit sequence, buffers, context and deadline of its own, an `ExplicitMessage` `fwd_` | `open` (Forward Open), `send` (SendUnitData), `close` (Forward Close), `poll`, `data` |
| `Cip.h` (`src/src/cip/Cip.h`) | none | path and data type codecs |
| synthetic server (`src/tools/synthetic_eip_server.py`) | sessions, connections, tags | the PLC's side, for bench tests |

**How they interact.** Everything runs in one thread, the sketch's `loop()`.
`PlcClient` calls the objects it owns; `Session` and `ExplicitMessage` read and
write the *same* TCP byte stream, and all tags share *one* `ExplicitMessage`.
The PLC and the network run concurrently, and so does the clock. The application
also runs inside `PlcClient::poll()`: the tag callback is called in the middle of
the loop over the tags and may call any operation.

**What is hard.**

* A receiver that gives up (abort, timeout) leaves the rest of a packet in the
  stream, and a sender that gives up leaves the beginning of one; the next
  exchange starts there. Only the length and the sender context protect it, and
  `Session` does not look at the context (`Session.cpp:120-127`).
* The shared message belongs to the tag that is Reading or Writing, a fact kept
  in two places (`tags_[i].state_` and `msg_.state_`) that no code compares.
* Each object has a deadline of its own and its own idea of whether the
  connection is up.
* The callbacks' view is derived from comparing two polls of a slot, and slots
  are reused without being reset.
* A `Connection` receives connected responses itself and the responses of its
  Forward Open and Forward Close through `fwd_`, from one stream; neither looks
  at the state of the other. Its ids are replaced before it is known whether the
  Forward Open that carries them is sent.
* Lengths, counts and types of tag data have 8, 16 and 32 bits in different
  places; `millis()` wraps.
* A routed request is a request within a request, with a length in words or bytes at
  every level, padding at two of them, and limits that are checked in four classes.
* A response says how long its parts are; two parsers walk it by what it says.

**What makes each component correct.** `ExplicitMessage`: `Ok` only on the answer
to the last request; the receive buffer is never overrun; every exchange ends.
`Session`: opened on a quiet stream, registered only with a handle the PLC gave
since then; both exchanges end.
`Tag`/`PlcClient`: one operation at a time on the shared message, which serves
just the tag that is busy and gives it its own answer; `ready()` means a
registered session on this very connection; callbacks tell of each operation
once; attempts, operations and disconnects end. The data of a `Tag`: nothing
outside the buffer is touched, a length counts only bytes of the last read, a
write request carries what it announces. `Connection`: an open one is one the PLC
holds, data is taken from it alone and for the last request alone, a closed one
is released unless the PLC has refused that. Requests: no buffer is overrun and the PLC reads what was asked.
Responses: only received bytes are read, whatever they say, and `data()` is the data
of the reply. A deadline: it has passed exactly when that much time has.

`PROJECT.json` lists all components and, under `hazards`, each hard spot with its
line and the properties that watch it.

## 2. The modules

```
  Encapsulation   TcpConnection
        \          /      \
         Framing         EipServer           Exchange (abstract)
        /       \           |                    ^
  Session   ExplicitMessage |                    | refines
     |  \        |    \-----+-- MessageSystem ---'
     |   \      Tag         |
     |    `----- | ---------+-- SessionSystem
     |           |          |
     `------- PlcClient ----'   (with EthClient)

  ExplicitMessage -- Connection ----.                    refines
  EipServer -------- ConnServer ---- ConnectionSystem -----------> Exchange

  Deadline -- TagData        CipRequest   CipReply
                                   \       /
                                  CipPackets
```

| Module | Models | State and actions against the code |
|---|---|---|
| `Encapsulation` | the header and how a receiver takes units of the stream for one | a packet is a record and travels as `HeaderLen + len` *units*; `DecodeHeader` yields the packet if the first `HeaderLen` units are its header and `Garbage` otherwise (for `Session`, which compares less, see `SessHeaders` there); `DecodedLengths` lets misaligned bytes spell any length |
| `TcpConnection` | the class, over a socket that handshakes, accepts `SndBuf` units, is closed or reset | `fd`, `tcpState`, `tcpLate` are `fd_ >= 0`, `state_`, "deadline reached"; `sock`, `out`, `in` are the socket; an operation is an action with its return value as parameter |
| `Framing` | `writePending()` then `readResponse()`, the same text in `Session` and `ExplicitMessage` | `Advance` is the set of outcomes of one poll |
| `ExplicitMessage` | the class | `MsgSend`, `MsgPoll`, `MsgAbort`; every early return of `poll()` is a disjunct |
| `Session` | the class | `SessOpen`, `SessClose`, `SessAbort`, `SessPoll`; `SessHeaders` is what its response may read as: bytes out of step may pass for a registration with any of `MisreadHandles` |
| `EipServer` | the PLC, after the synthetic server | takes units, answers a whole request with one of `ReplyKinds` or not at all, closes, crashes; loses alignment for good on a unit that does not continue the packet |
| `Exchange` | the *promise* of `ExplicitMessage`: requests are numbered, an answer is the answer to the open one | abstract specification |
| `MessageSystem` | a sketch with an `ExplicitMessage` on a connection (as `src/examples/IdentityQuery`) | any call at any moment; refines `Exchange` |
| `SessionSystem` | a sketch with a `Session` (as `src/examples/EipSession`) | any call at any moment; `openedOn` is a history of where `open()` was called and guards no step |
| `Tag` | the class, one record per slot | `TagRead`, `TagWrite`, `TagPoll`, `TagAbort`, `TagSet` |
| `EthClient` | the Ethernet interface | `EthBegin`, `EthPoll` |
| `PlcClient` | the whole client | one action per call and per case of `poll()` |
| `Connection` | the class, over the `ExplicitMessage` it owns | `CxnOpen`, `CxnSend`, `CxnClose`, `CxnPoll` (`PollOpening`, `PollSending`, `PollClosing`); `otId`, `toId`, `serial`, `sequence` are the fields of those names, `cxnTx`, `cxnRx`, `cxnWant`, `cxnContext`, `cxnLate` are as in `ExplicitMessage` |
| `ConnServer` | the PLC of `EipServer` with CIP connections | `OpenConn`, `CloseConn`, `UnitData`; `held` is what it has granted and not closed; a Forward Close is granted or refused; `Stray` is data that answers nothing |
| `ConnectionSystem` | a sketch with a `Connection` | any call at any moment; refines `Exchange` |
| `Deadline` | `millis()`, a deadline and their comparison, in `2 * Half` values | `Later`, `Expired` |
| `TagData` | the buffer of one `Tag`, its accessors, the checks and the limits of reads and writes, the deadline | one action per call; the message is what `Exchange` promises |
| `CipRequest` | how a request is laid out, by `Cip.h`, `Tag`, `Connection` and `ExplicitMessage`, and how the PLC reads it, after the synthetic server | a block of bytes is a sequence of fields with lengths; one action per call that sends, `PlcReceives` reads by offsets and lengths; the constants are the sizes in the code |
| `CipReply` | `parseResponse()` and `parseConnectedResponse()`, and what is done with what they find | `Parse` begins, then one step per CPF item; what an item says is chosen where it is read; `p`, `remaining` are the locals of those names, `found` is `cipData` with `cipLen`, or `connData` with `connDataLen` |
| `CipPackets` | one exchange in bytes: a request of `CipRequest`, read by the PLC, and any response, taken apart by `CipReply` | `ResponseArrives` forgets the request, of which the parsers use nothing but what `genuine` stands for |
| `MCMessage`, `MCSession`, `MCPlc`, `MCConnection`, `MCTagData` | values for TLC | the uses of the library the runs look at |
| `Stream_proofs`, `Requesters_proofs`, `MessageSystem_proofs`, `SessionSystem_proofs`, `PlcClient_proofs`, `ConnectionSystem_proofs`, `TagData_proofs`, `CipPackets_proofs` | theorems | section 5 |

**poll() with callbacks.** A call is atomic, since there is one thread, except
`poll()` while Ready: `pc` says where it is (`"app"`, not running; `"loop"`, about
to visit slot `idx`; `"tagcb"`, `"statecb"`, in a callback). In a callback every
operation but `poll()` itself may be called. Network and clock do not move
between two visits of the loop (`pc = "loop"`): of the tags at most one is in
flight, so that one visit per loop touches the connection, and what moves between
two visits may as well move before or after the loop. `DisconnectEnd` is the
second half of one case of `poll()`; it is a step of its own only because
`Session` and `TcpConnection` both change `tcpState`, and nothing else can happen
at `pc = "close"` but a step of the network or the clock.

**Definitions named as defects** (`Defect:` in their comments: `CloseKeepsState`,
`UncheckedLength`, `HeaderOnly`, `AnyContext`, `SendTimeout`, `NoUnregisterTimeout`,
`NoRegisterTimeout`, `AcceptAnyHandle`, `AbortAnyones`, `AbortTagOnly`,
`ConnectKeepsSession`, `WriteUnregistered`, `AbortKeepsStatus`,
`ConnectingForever`, `LastTagDecides`, `UnwrappedSequence`,
`OpeningAtOnce`, `PollOpeningTrusting`, `ClosedAnyway`, `AnyConnectedContext`,
`AnyConnectionId`, `TimeoutOnceSent`, `Unwrapped`, `ComparedUnsigned`, `EndInBounds`,
`StringToBufferEnd`, `ReadKeepsResult`, `NarrowWritable`, `UnpaddedSymbolic`,
`PaddedWrapper`, `PathFits`, `LooseItem`, `UncheckedStatus`, `ShortConnected`) are not part of any
specification. Each is the operator after it with a plausible bug; put in its
place, it makes TLC report the property that is named with it under `mutants` in
`PROJECT.json`. They show that the properties can fail.

**Modelling assumptions.**

* Misaligned bytes may spell any length, but not a known command together with
  the expected 64-bit sender context. This is for the receivers that compare the
  context, `ExplicitMessage` and `Connection`. `Session` compares the command, the
  status and the length, which bytes out of step may well spell: to it they may
  also be a RegisterSession response with any handle of `MisreadHandles` (0, one the
  PLC has not given).
* A successful response to a read may have a value, or a data type without a value, or
  less than two bytes of data, of which `Tag::poll()` takes nothing
  (`Tag.cpp:135`): `Completed` has all three outcomes.
* A PLC that answers a Forward Close with success has let go of the connection before.
  It may refuse one and keep the connection, let go of it and answer nothing, or
  refuse what it does not have. (The synthetic server answers every one with success
  and keeps its table as it is.)
* A PLC that reads a header from the middle of a packet answers nothing from
  then on.
* Session handles are the numbers of the connections they are given on, so that
  different connections have different handles; a PLC may also answer with
  handle 0 (`"malformed"`).
* A reset drops what the PLC had sent and not delivered; an orderly close
  arrives after the data.
* Deadlines are flags that a step of the clock sets. A deadline set later with the
  same or a longer timeout does not pass earlier (`Tick` in `PlcClient`). That a
  flag stands for what the code does is what `TimeoutIsTrue` of `TagData` says of
  the arithmetic of `millis()`: for timeouts up to `Half` (2^31 ms) and operations
  polled at least every `MaxGap < Half` ms, `poll()` returns Timeout when the
  timeout has passed and not before.
* In `PlcClient` tag data is the name of the tag whose value it is, and argument
  checks that depend on lengths (`valid`, `InvalidArg` in `TagWrite`) may go either
  way. In `TagData` a byte is where it comes from: never written, the application,
  the last read, or a read before that. The first four bytes, as which a STRING has
  its length, are any value after they were written.
* Types a PLC gives that need more than eight bits (structures, 0x02A0) are
  unknown to the code when cut to eight (`WireTypesAssumption`).
* A PLC gives a connection the serial number it was opened with as its O->T id, so
  that connections have different ids. Data it sends of its own accord (stale,
  replayed, misrouted) carries a context that the client has used, any id and any
  sequence count, but not all three of the answer being waited for; that it
  belongs to no request is its `ot = 0`, which is not on the wire and which the
  client does not see.
* In `Connection` the name and the slot of a Forward Open are left out; they are in
  `CipRequest`, where they have nothing to do with the state of the connection.
* In `CipRequest` the lengths an application gives are those of buffers that exist: a
  pointer is not null when its length is not 0, and `2 + pathLen + dataLen` stays below
  2^32. What the PLC makes of a Forward Open is the name and the slot in its connection
  path (the synthetic server does not look at them). A field that a reader cuts in two
  reads as `Torn`, which is no part of a request.
* In `CipReply` the response has passed the checks of the header; whether its
  connection id and its sequence count are those that are waited for is `genuine`, TRUE
  or FALSE: module `Connection` is about when they are.

## 3. The runs

| Run | Asks | Result |
|---|---|---|
| `message` | Does `ExplicitMessage` implement the abstract exchange, frame within its buffer, deliver only whole responses, and always end? | holds |
| `session` | Is a session registered only with a handle the PLC gave since it was opened, framing within its buffer, and do both exchanges end? | holds for sessions opened on a quiet stream |
| `plc_tags` | Pool of tags on one connection: is the message always the one busy tag's, and is that tag's answer its own? | holds if only idle tags are destroyed |
| `plc_reconnect` | Connections come and go: is no stale handle sent, does no attempt meet a session left over, do attempts and operations end? | holds if nothing is in flight when connecting or disconnecting, and `begin()` is not called on a running client |
| `plc_callbacks` | Callbacks that call operations: single in-flight, Ready, no callback that is not due | holds |
| `connection` | Is an open connection one the PLC holds, is data taken from it alone and only for the last request, is a closed one released unless that was refused, do two receivers never wait at once, and does every exchange end? | holds if an open connection is opened again only while TCP is up |
| `tag_data` | Is nothing outside the buffer touched, no data of an earlier read counted, a write sent as it was asked for, and Timeout returned exactly when it is due? | holds |
| `packets` | Is no buffer overrun by any request, does the PLC read just what was asked, does the message take what a tag has taken; whatever a response says of itself, are only received bytes read, just the well-formed ones taken, and does `data()` begin where its receiver says? | holds |
| `disconnect_stuck` | Does a graceful disconnect end? | **violated**, finding 1 |
| `destroy_busy` | Is the message busy only for a tag one can see and abort, with tags destroyed at any time? | **violated**, finding 2 |
| `callback_lost` | Is every operation that ends called back? | **violated**, finding 3 |
| `stale_handle` | Is no stale handle sent, with reconnects at any time? | **violated**, finding 4 |

**Bounds.** A constant bounds each dimension; all are in the `.cfg` files.

* `HeaderLen`, `ReqLen`, `RegLen`, `ReplyLen`, `OverLen`, `MsgMaxBody`,
  `SessMaxBody`: lengths in units. In `message` a header has two units, so that it
  can be cut, and requests and replies have a body; `OverLen` is one more than a
  receiver takes. In `session` a header is one unit and packets have a body, cut
  between the two. In the `plc_...` runs a packet is one unit (two for requests in
  `plc_reconnect`): cutting packets is the question of the other two runs, except
  that a request cut by a reconnect or an abort matters to the client as well.
* `SndBuf`: one or two units, less than a request where partial writes matter.
* `MaxSends = 2` and `MaxOpens = 2`: an exchange and one after it, which meets
  what the first has left; more exchanges only repeat that. `MaxConnects = 2`: a
  connection and a reconnect.
* `MaxTags = 2`, two names: two tags that compete, and a slot that is created
  again under another name.
* `connection`: packets are one unit each, since cutting them is the question of
  `message` (the code of the two receivers is the same but for the parser).
  `MaxOpens = MaxSends = 2`: a connection and one after it, a request and the next.
  `SeqMod = 2`: the second request already has the wrapped sequence count.
  A stray response carries the count 0 (`AnySeq`), the count of the second request: to the
  first it has the wrong count, to the second it may differ in the context or in the id only.
  `MaxFaults = 1` allows *either* one more TCP connection *or* one stray response.
  `ToIds = {1}` gives every connection the same T->O id, which is the hard case,
  and `AnyToId = {1, 2}` lets data name that one or another.
* `tag_data`: a buffer of eight bytes, of which `PrefixLen = 4` are a STRING's length;
  `SizeMod = CountMod = 16`, so that a sum that is not kept in its width, and a count
  that is cut, both fall back into the buffer. Offsets, lengths and counts stand on
  either side of every limit. The clock has six values (`Half = 3`) and starts
  anywhere, so that every operation can meet the wrap; `Timeouts = {0, Half}` are the
  shortest and the longest, `MaxGap = 2` the longest gap that is allowed.
  `MaxOps = 3`: what an operation leaves meets a second, and a third that fails.
* `packets`, the request: the limits are those of the code. `NameLens` are odd and even and on
  either side of 64 and 120; `TagLens` go up to the buffer of a tag; `PathLens` have odd
  ones and the longest; `DataLens` stand on either side of what 512 and 508 bytes leave
  for data behind every path, and of 256, where a length in 8 bits would wrap. `Slots`
  are the first, the last, one too many and none. A behaviour is one exchange, as none
  leaves anything to the next.
* `packets`, the response: `ItemLens` are below, at and above every minimum (4 and 6 bytes, an id, two
  ids) and the longest there is; `BodyLens` end within the header of a body, of an item
  and of its content, and up to two whole items; `ItemCounts` have one that no body
  can hold; `StatusSizes` have 255 words, more than any item. `SizeMod` stands for the
  2^32 of `size_t`: it is larger than any sum of lengths, so that only a negative
  difference wraps.

The message run has about 212,000 distinct states, the session run 128,000,
`plc_tags` 3.2 million, `plc_reconnect` 304,000, `plc_callbacks` 2.9 million,
`connection` 365,000, `tag_data` 1.4 million and `packets` 694,000. `MisreadHandles`,
the handles that bytes out of step may pass for, is {0, 3} in the session run, whose
PLC gives 1 and 2, and {7} in the `plc_...` runs: a handle no PLC there gives.

**What the application does.** `AppOps` and `CallbackOps` say which calls a run
makes. `AppRules` name restrictions: `BeginOnce` (`begin()` is called again only
when Ethernet is off or failed), `CreateFirst` (tags are created before
`begin()`; only to save states), `IdleDestroy` (a tag in flight is not
destroyed), and `AbortFirst` (no `connect()` or `disconnect()` while an operation
is in flight). All but `CreateFirst` are needed. Without `IdleDestroy` and
`AbortFirst`, `BusyHasOwner` and `NoStaleHandle` fail, which is what `destroy_busy` and
`stale_handle` show. Without `BeginOnce`, `NoLeftoverSession` fails: `begin()` on a running
client takes the queued path to a connection, which does not abort the session
(`PlcClient.cpp:66-79`).

The setters, `tag()->set...`, are called in `plc_reconnect`. They may be called while the
tag is being read, which makes no difference to the message; `plc_tags` leaves
them out to save states, and `AnswersAreOwn` is proved with them. So `AnswersOwnOperation`
has the values an application sets in it, too: a read answered without a value leaves
what was set while it was on its way.

`RegisteredHasHandle` says nothing of a session opened on a stream with something in it.
Without that condition (`openedOn # 0`) it fails: after a response that is longer
than `Session` takes, the rest of it is still in the stream, a second `open()` reads it
as its response, and any handle may be registered. What the condition asks is what
`PlcClient` does: it opens a session on a new connection only.

`OpenWhileUp` is the restriction of the `connection` run: `open()` on a connection that
is open is called only while TCP is connected. Without it `OpenIsHeld` fails, for
the reason given at the end of section 4.

**Deadlock** is not checked (`CHECK_DEADLOCK FALSE`): with exchanges and
connections bounded, and an application that may stop calling, the system does
come to rest. `packets` ends with its one exchange.

**Fairness.** The sketch calls `poll()` again and again and time passes: weak
fairness of polling and of the clock. In `PlcClient` the clock stands still
between two visits of the loop (a reduction of the model, not of the code),
hence strong fairness of `Tick` there. In `ConnectionSystem` polling is fair while
something is in flight, which is when an application has to poll. `tag_data` has no
liveness property: its clock is bounded by what it asks. Nothing is asked of the PLC, the network
or the application's other calls, so every liveness property rests on deadlines
alone.

## 4. What disagrees with the documentation

Each is a run; TLC prints the behaviour.

1. **`disconnect()` may never end.** `Session::startUnregister()` does not set a
   deadline (`Session.cpp:69`); the one of `open()` has passed when a client has
   been connected for longer than its connect timeout. The first poll then
   returns Timeout, which `PlcClient::poll()` takes for Pending, as all the Errors
   after it (`PlcClient.cpp:155-166`).
2. **`destroyTag()` of a busy tag** leaves the shared message busy; no tag is
   visited for it and none can be aborted until a tag is created in that slot.
3. **A callback can be missed**: it needs one poll that saw Pending.
4. **`connect()` with an operation in flight** sends the rest of its request on
   the new connection, with the session handle of the old one.

Seen while modelling, part of the models but of no run: a slot that is created
again shows the status and data of the tag before it; a `connect()` from a tag
callback is torn down at the end of the loop that noticed the loss
(`PlcClient.cpp:144`); `TcpConnection::poll()` reports a connection that the peer
has closed as connected again (`TcpConnection.cpp:53`); a late answer to an
aborted request fails the exchange after it (the context does not match), it is
not skipped.

Seen in `Connection`: `open()` on an open connection gives it a new serial number
and clears the id of the PLC before it knows whether the Forward Open is sent
(`Connection.cpp:93-107`); if it is refused, because TCP is down, say, `isOpen()`
stays true on ids nobody has granted. A connection that has Failed cannot be closed
(`Connection.cpp:60, 67`), so that after one timeout the PLC is left to time it out
itself. `close()` ends in Closed whatever result code the Forward Close was answered
with (`Connection.cpp:311`), so that a connection the PLC has refused to close is
Closed too, and still held: `ClosedIsReleased` has to except it (`CloseRefused`).

Seen in `Session`: a response is accepted for its command, status and length
(`Session.cpp:122-123`); the sender context is not compared, and `open()` may be called
again on a stream with leftovers of a failed exchange (`Session.cpp:14`).

`data()` of a connected response that has additional status begins with it:
`parseConnectedResponse()` does not read its size (`Connection.cpp:419-428`), which
`parseResponse()` skips (`ExplicitMessage.cpp:256-267`), so that the two classes mean
different things by `data()`; `DataIsOfReply` says where each begins.

Seen in `Tag`: a timeout is `Error` to `tagStatus()`, whatever `README.md:498` says:
`status()` has no other value for a failed operation, and only the callback sees
`Timeout`. The number of elements of a read, and of a STRING's write, is cut to
16 bits without a check (`Tag.cpp:45, 90`), unlike that of other writes. The typed
getters and `write()` use the whole buffer, not what was received, so that after a
failed read they still give and send bytes of an earlier one; the comment at
`Tag.cpp:58` holds of `dataLength()`, `getString()` and `resultCode()`, of which
`LengthIsFresh` and `StringIsFresh` speak. The README's "capped at 508 bytes"
(`README.md:456`) is not the limit of `Tag`, which is 256 (`Tag.h`), and its
`kMaxDataSize` of 256 (`README.md:228`) is not that of `Connection`, which is 508
(`Connection.h`). Its `kMaxCipData` of 256 (`README.md:257`) is 512 in the code
(`ExplicitMessage.h:26`); with 256 a tag could not write a full buffer.

## 5. What is proved

TLAPS checks every step of the `*_proofs` modules. Nothing is assumed but the
types of the constants, named in the modules that declare them
(`HeaderLenAssumption`: a header has at least one unit; `SndBufAssumption`: a
socket accepts at least one; `HalfAssumption`: the clock has at least two values;
`MsgAssumption`, `SessAssumption`, `ServerAssumption`, `ConnServerAssumption`,
`CxnAssumption`, `PlcAssumption`, `TagDataAssumption`, `BoundsAssumption`,
`CxnBoundsAssumption`, `ReplyAssumption`: lengths, widths and bounds are naturals, the
tags are numbered from 1; `WireTypesAssumption`, see section 2) and, in
`RequestAssumption`, what the sizes of the code owe each other, see below. Lengths, buffers, the tag
pool, the names, the widths of the serial number, the sequence count and the
clock, and the numbers of exchanges and connections are arbitrary, and so are the
calls of the application and its rules: the theorems hold for every `AppOps`,
`CallbackOps` and `AppRules`, reconnects and destroys at any moment included.
Eight need a rule of use, and say so in their `ASSUME`.

| Theorem | Says | Checked by run |
|---|---|---|
| `MessageSystem_proofs!TypeCorrect`, `FramingBounded` | well-typed; the message's receive buffer is not overrun | `message` |
| `MessageSystem_proofs!ResponseComplete` | Done only with the request sent and just the bytes received that a response announces | `message` |
| `MessageSystem_proofs!ExchangeImplemented` | `Spec => Abstract!ExSpec`: Ok only on the answer to the last request | `message` |
| `SessionSystem_proofs!SessionTypeCorrect`, `SessionFramingBounded` | the same of the session as of the message | `session` |
| `SessionSystem_proofs!HandleGiven` | a session opened on a quiet stream is registered with a handle the PLC gave since, or not at all | `session` |
| `PlcClient_proofs!ClientTypeCorrect` | the whole client is well-typed | `plc_tags` |
| `PlcClient_proofs!SingleOperation` | one tag at most is busy, exactly when the message is in flight | `plc_tags`, `plc_callbacks` |
| `PlcClient_proofs!ReadyIsRegistered` | Ready means connected and registered on this very connection | `plc_callbacks` |
| `PlcClient_proofs!BusyIsAbortable` (under `IdleDestroy`) | what is in flight belongs to a tag in use | `plc_tags` |
| `PlcClient_proofs!AnswersAreOwn` (under `IdleDestroy`) | a tag that succeeds has the answer to its own request, and a value it then has is its own or the application's of meanwhile | `plc_tags` |
| `PlcClient_proofs!CallbackIsOwed` (under `IdleDestroy`) | a callback tells of an operation not told of before | `plc_callbacks` |
| `PlcClient_proofs!AttemptStartsFresh` (under `BeginOnce`) | no attempt meets the session of the one before | `plc_reconnect` |
| `PlcClient_proofs!RequestsCarryOwnHandle` (under `AbortFirst`) | requests go out with the handle of their connection | `plc_reconnect` |
| `ConnectionSystem_proofs!ConnectionTypeCorrect` | well-typed, numbers within their widths | `connection` |
| `ConnectionSystem_proofs!ReceiversExclude` | the two receivers on one stream never wait at once | `connection` |
| `ConnectionSystem_proofs!ConnectedExchangeImplemented` | connected data implements `Exchange` too, stray data or not | `connection` |
| `ConnectionSystem_proofs!OpenConnectionIsHeld` (under `OpenWhileUp`, with fewer opens than serial numbers) | an open connection is one that the PLC has granted and not closed | `connection` |
| `ConnectionSystem_proofs!DataIsOfThisConnection` (under the same) | `data()` is of this very connection, stray data or not | `connection` |
| `ConnectionSystem_proofs!ClosedConnectionIsReleased` (under the same) | a connection that is Closed is closed in the PLC too, or the PLC has refused to close it | `connection` |
| `TagData_proofs!DataTypeCorrect`, `BufferBounded` | well-typed; no access outside the buffer | `tag_data` |
| `TagData_proofs!NoStaleData`, `StringsFresh` | `dataLength()` and `getString()` count and give nothing of an earlier read | `tag_data` |
| `TagData_proofs!WritesWhole` | a write carries the type and, but for STRINGs, the count it announces | `tag_data` |
| `TagData_proofs!TimeoutsTrue` | Timeout exactly when the timeout has passed, however the clock wraps | `tag_data` |
| `CipPackets_proofs!BuffersNeverOverrun` | a request of any size that is accepted fits every buffer it is built in | `packets` |
| `CipPackets_proofs!TagCallsAlwaysFit` | the message refuses for its size nothing that a tag has taken | `packets` |
| `CipPackets_proofs!PlcReadsWhatIsAsked` | the PLC reads from the packet just the request that was asked for | `packets` |
| `CipPackets_proofs!ReadsReceivedHolds`, `DataIsOfReplyHolds` | only received bytes are read or handed out; `data()` is the rest of the last item that is waited for, of a connected response with its additional status | `packets` |
| `CipPackets_proofs!OkIfWellFormedHolds` | Ok exactly for a response whose items all lie in it, with room for a reply in the one that is waited for | `packets` |

**The lemmas below.** `Stream_proofs` says what one poll of an exchange
(`Advance`) can come to. Its typing lemmas are stated for any set `S` of units the
stream consists of, so that one proof serves for the types (`S` is all units), for
`UnitsGiven`, `StreamIsOwn` and what an answer is tied to. `ServerReplies` does the
same for a step of the PLC: if the replies to all requests that can still reach it
are in `S`, so is all that it sends. `ReadResponseVerdict` and `AdvanceVerdict` hold
the argument about time: a verdict Ok on a response of which something was still
missing has read from a connection that is up. `Requesters_proofs` carries these
over to the two classes that request, `ExplicitMessage` and `Session`.

`CipPackets_proofs` has the induction that the sums over fields and items need.
Only induction theorems that take an operator are out of the prover's reach;
`NatSetInduction` is the principle for a *set* of naturals, from the least element of
what it leaves out. A fold of the community modules is a `CHOOSE` over functions;
`Sums` says what such a function is, `SumsExist` that there is one, and what follows
is stated of `Size` (of a block of fields) and `Span` (of CPF items): that they are
naturals, 0 of nothing, and add up under concatenation (`SizeOfConcat`,
`SizeOfAppend`). As no field is empty, a block that is two blocks one behind the
other has one cut between them (`CutBetween`), so that `Take` and `Drop` at the size
of the first give the two (`TakeFirst`, `DropFirst`). `Behind(b, at, c)` and
`Holds(b, at, n, v)` say what lies at an offset of a block; they survive whatever is
put in front or behind (`BehindLater`, `HoldsMore`), which is how each layout is read.

**The inductive invariants.**

* *Exchange*: `MsgOK` (types, `Len(msgRx) <= msgWant <= HeaderLen + MsgMaxBody`) with
  `StreamOK`. Types alone are not inductive: `SubSeq` stays a sequence only within
  bounds. The refinement adds `ContextInv`: the sender context is one ahead of the
  one sent, and what a message that is Done holds carries the one sent. Every
  step then maps to the abstract step of the same name or to a stutter.
* *Complete responses*: `CompleteInv` adds that a message in flight expects at least a
  header and one that is Done has one (`MsgFull`), that what it expects is what the
  header it has received announces (`MsgFramed`), and that no request is under way
  to the client (`AnswersOnly`).
* *Session*: `HandleGiven` needs `Begun`. The handle comes out of bytes, so the
  invariant speaks of all units that can still end up in the response (`UnitsGiven`):
  on the wire, arrived, and in `sessRx`. That they carry handles given since `open()`
  is not enough, as bytes out of step may read as any handle: `Alone` says that they
  are read in step. What is under way to the PLC is one request at most (`EndsOnce`),
  nothing comes back before all of it is gone, and what comes back then is one packet
  from its first unit on (`Continues`). It holds from an `open()` on a quiet stream
  (`StartsAlone`) as long as the session registers, over aborts of the connection and
  reconnects, which drop what either end has.
* *Client*: `IInv` joins the types of all parts with `SingleInFlight`, which is
  inductive with them: `MsgSend` starts only while nothing is in flight
  (`SendStartsOnlyIfFree`), and a poll ends the tag's operation exactly when it
  ends the exchange (`PollPendingIffInFlight`). Without the first conjunct of
  `SingleInFlight` the second would not survive an abort, and without the second
  the first would not survive a read.
* *Ready*: `ReadyInv` adds four parts. `StreamIsOwn`: all that has arrived or is
  under way on a connection carries its number or 0. It holds because `connect()`
  and `close()` drop what the socket holds, and it is kept by every step
  (`OwnNext`). `ConnectingOK`: while the client is Connecting nothing is in the stream, so
  that its session is opened on a quiet one. `RegisteringOK`: while it is
  Registering, `sessRx` too holds only such units and misses at least one, so that a
  poll that registers has just read from a live connection, and what is under way is
  `Alone`, as for the session, so that it is read in step. `ReadyOK`: a Ready client is registered with the
  handle `connNo` and connected, *or* `poll()` is in the middle of the loop that
  has noticed the loss (`lost`). The last case is why `ReadyMeansRegistered` speaks
  of the moments when the application is asked outside the loop.
* *Owners and callbacks*: `OwnerOK` (a busy tag is in use) is `IInv` carried over to
  the slots; `OwedOK` (a slot that is busy, or was when `poll()` last looked, is owed
  a callback) needs it, for a tag that ends unseen in a free slot is owed nothing.
* *Attempts*: `FreshSessionOK` adds where the Ethernet is to the property. Without
  `BeginOnce` a `begin()` on a ready interface leaves the session behind.
* *Handles*: `HandleOK` has four parts: what a message in flight has still to send
  carries `connNo` (`RequestIsOwn`), what the session sends is no tag request
  (`SessionIsQuiet`), a tag request in the socket carries `connNo` (`OutIsOwn`), and a
  connect that is queued waits with nothing in flight (`WantsIdle`). A new connection
  takes the first from under a message in flight unless `AbortFirst` holds, which is
  what `stale_handle` shows.
* *Answers*: `TiedInv` says of every unit of a tag's request or reply anywhere (to be
  sent, sent, with the PLC, coming back, received) that its context was given out, and
  that one with the context of the last request names the tag that is busy and what
  it is busy with.
  A request ties a new context (`StartKeepsTied`), which no earlier unit has; every
  other step leaves the ties as they are (`TiesStay`, `TiesMove`), the PLC copies
  them to its reply (`RepliesTied`), and Ok compares the context (`OkIsTied`). A tag
  destroyed and created again while busy would have another name than its
  request: hence `IdleDestroy`. For the value a read leaves, `OnlyAppSets` says that
  nothing but the setters gives a busy tag one (a read begins with none), so that
  what is there when it succeeds is from its answer or was set meanwhile.
* *Connections*: `IInv` joins the types of `Connection`, of its message and of the PLC
  with `OneReceiver`, which needs `MsgFull`: a Forward Open that is over is not in
  flight. `AnswerInv` is for the connected exchange what `ContextInv` is for the
  message.
* *Ids of a connection*: `IdsInv` judges every unit on its way by the present ids. A
  request (`RequestOK`) that names the present serial number names the present T->O id,
  a Forward Close that does so exists only once the connection is closing, and the
  connected request that is waited for names the PLC's id. An answer (`AnswerOK`) to the
  Forward Open that is waited for, if it negotiates ids, gives those of a connection the
  PLC holds; one to the connected request, if it would be accepted, is of this very
  connection. `HeldOK` says that the PLC holds one connection at most under a serial
  number. New ids, a new context or the end of waiting only weaken the judgement
  (`OpenJudges`, `SendJudges`, `RestJudges`), other steps keep it (`JudgedAsBefore`),
  and Ok has compared what `AnswerOK` asks for (`PollOpeningIds`, `PollSendingIds`).
  A serial number that comes round again may still be held by the PLC with another
  T->O id: hence `MaxOpens < SerialMod`. An `open()` that is refused leaves an open
  connection with new ids: hence `OpenWhileUp`.
* *End of a connection*: `IdsInv` says nothing of the order of the units, and it is the
  order that keeps a Forward Open from being handled after the Forward Close of the
  same connection. `ReleaseInv` adds it: `AskedOnce` says that the last request of the
  message has its first unit in one place only (to be sent, in the socket, with the
  PLC), and that nothing answers it before that unit is gone; so an Ok of the message
  (`OkIsAnswered`) means that nothing of the request is left to be handled. `AllKept`
  turns that into what matters: once the connection is Open, its Forward Open has left
  every queue and none can begin again, and what is waited for in Closing is the Forward
  Close. The PLC that handles it drops the connection or refuses (`HandleRelease`), a
  new TCP connection leaves it behind (`PeerRelease`), and until either has happened
  nothing in the stream says that the Forward Close was granted (`NoSuccess`), so that an
  Ok is that of a refusal (`OkIsRefused`).
* *Data of a tag*: `TypeOK`, `StaysInBuffer`, `LengthIsFresh`, `WriteIsWhole`, with
  `TypeKnown` (a type with a size is the one the PLC gave or the application set) and
  `OnTime` (clock and deadline differ by what is left, modulo the width, and at most
  `MaxGap` has gone since the last poll). `LateIsLate` then gives that the sign of the difference is the
  truth.

* *Responses*: `ReplyInv` relates the position of the parser to the items it has seen:
  `p` is the offset of the next item (`ContentAt`, by `Span`), `remaining` the bytes from
  there to the end of the body (`Walk`), both within it although `remaining` is computed by
  subtraction in the width of `size_t` (each subtraction is behind a comparison, so none
  wraps), and `found` is the last of the items seen that is waited for. The three
  properties speak of the end of the loop, which says nothing of the items before it
  without this.
* *Requests*: `BuffersHold` and `TagCallsFit` are inductive by themselves, since one call
  fills the buffers; what they need is arithmetic of the layouts (`SymbolicBlock`,
  `WrapperBlock`, `UnconnectedBlock`, ...), which holds for every limit that satisfies
  `RequestAssumption`. `RequestInv` says of the packet under way that what the PLC will
  make of it (`Understanding`) is what was asked; it is established by each call, for
  direct, routed and connected requests separately (`DirectUnderstood`,
  `RoutedUnderstood`, `ConnectedUnderstood`), and used when the PLC reads.

`RequestAssumption` is what the proofs found the sizes of the code to depend on. That
`Tag::kMaxDataSize + kMaxSymbolicName + 9 <= kMaxCipData` and `kRoutedOverhead >= 15` is what
the limits are for, and what the code's constants satisfy (256 + 120 + 9 <= 512; 15). It
also has three that no line of the code states: a path of `kMaxCipData` - 2 bytes is
still counted in words by one byte (`kMaxCipData <= 513`; it is 512), the path of a
tag fits 128 bytes (`kMaxSymbolicName <= 126`; 120), and so does a Forward Open with
its fixed 42 bytes before the name (`sizeof(tagName_) <= 85`; 64). Whoever raises one of
these limits changes a buffer too, or the theorems no longer apply.

The temporal steps are propositional (`PTL`) over `Init => IInv` and
`IInv /\ [Next]_vars => IInv'`.

**Only model-checked.** Liveness (`ExchangeEnds`, `RegistrationEnds`,
`UnregistrationEnds`, `AttemptEnds`, `OperationEnds`, `CxnExchangeEnds`) rests on
fairness, which is out of the prover's reach here. Every other property of a passing
run is a theorem.

## 6. What is not modelled

* Single bytes: the little-endian codecs of `Encapsulation`, the segments for 16- and
  32-bit instances and for attributes, and `decodeShortString()`, which only the example
  sketches use. They are straight-line code without a state. That a path does not fit is
  a choice of the other models (`valid`); `CipRequest` says when it does.
* The parameters of a Forward Open and the timeouts the PLC itself has for connections
  (the RPI and the multiplier are sent and never used).
* What the PLC does with a request it has read: its tags, its identity object.
* The Ethernet driver, the LAN and lwIP are nondeterministic environments;
  `TcpConnection` sees of lwIP what its calls can return.
* Configuration (static addresses, pins) and the getters that only read a field.
* The example sketches, which call the library in one fixed order. `LanInventory` and
  `ListTags` have parsers of their own, for replies the library does not handle.

## 7. Plan for later work

* The parser of `ListTags` with its resumption from the last instance.
* Theorems that drop what is assumed of the application where the code would allow it:
  which rules of use `AnswersAreOwn` and `RequestsCarryOwnHandle` need at the least.
