------------------------------ MODULE PlcClient ------------------------------
(***************************************************************************)
(* clx::PlcClient (src/src/PlcClient.cpp): Ethernet, TCP connection,       *)
(* session, one shared message and a pool of tags, driven by the calls of  *)
(* an application and its poll(), against a PLC (EipServer).               *)
(*                                                                         *)
(* The library has one thread, so a call is atomic, except poll() while    *)
(* Ready: it visits the tags one by one and calls back the application in  *)
(* between, which may call any operation but poll() from there.  pc tells  *)
(* where poll() is: "app", not running; "loop", about to visit tag idx or  *)
(* to finish; "tagcb" and "statecb", inside a callback.  The network and   *)
(* the clock move while the application runs, in its callbacks too; a      *)
(* visit to one tag at most touches the connection, so that what moves     *)
(* between two visits may as well move before or after the loop.           *)
(***************************************************************************)
EXTENDS Tag, Session, EthClient, EipServer

CONSTANTS
    MaxTags,       \* kMaxTags
    Callbacks,     \* callbacks registered, a subset of {"tag", "state"}
    AppOps,        \* operations the application calls outside of callbacks
    CallbackOps,   \* operations it calls from a callback
    AppRules,      \* restrictions the application keeps to, see Allowed
    MaxSends,      \* bound: tag operations started
    MaxConnects    \* bound: connections opened

ASSUME PlcAssumption ==
    /\ MaxTags \in Nat \ {0} /\ Tags = 1..MaxTags
    /\ MaxSends \in Nat /\ MaxConnects \in Nat

VARIABLES
    plcState, wantConnect, plcLate,   \* state_, wantConnect_, deadline_ reached
    inUse, tagName, prevStatus,       \* inUse_[], tagNames_[], tagPrevStatus_[]
    slotOk,                           \* cpuSlot_ is kNoRoute or 0..16
    pc, idx, lost,                    \* poll(): where it is, i, disconnected
    owed                              \* history: operation started, not called back

plcVars  == <<plcState, wantConnect, plcLate, inUse, tagName, prevStatus, slotOk>>
pollVars == <<pc, idx, lost>>
stack    == <<tcpVars, sessVars, msgVars, tags, eth, srvVars>>
vars     == <<stack, plcVars, pollVars, owed>>

PlcStates == {"Idle", "Ethernet", "Connecting", "Registering", "Ready",
              "Disconnecting", "Failed"}

Init ==
    /\ TcpInit /\ SessInit /\ MsgInit /\ TagInit /\ EthInit /\ SrvInit
    /\ plcState = "Idle" /\ wantConnect = FALSE /\ plcLate = FALSE
    /\ inUse = [t \in Tags |-> FALSE]
    /\ tagName = [t \in Tags |-> NoName]
    /\ prevStatus = [t \in Tags |-> "Pending"]      \* zero-initialised
    /\ slotOk = TRUE
    /\ pc = "app" /\ idx = 1 /\ lost = FALSE
    /\ owed = [t \in Tags |-> FALSE]
-----------------------------------------------------------------------------
(* A call is made by the application or from one of its callbacks, and     *)
(* keeps to the rules chosen for the run.                                  *)
Calls(op) ==
    \/ pc = "app" /\ op \in AppOps
    \/ pc \in {"tagcb", "statecb"} /\ op \in CallbackOps

NothingInFlight == \A t \in Tags : ~Busy(t)

Allowed(rule, condition) == rule \in AppRules => condition

validHandle(t) == inUse[t]

anyTagBusy == \E t \in Tags : inUse[t] /\ TagStatus(t) = "Pending"
-----------------------------------------------------------------------------
(* begin(): (re)starts Ethernet; session, connection and tags stay as they *)
(* are.                                                                    *)
Begin ==
    /\ Calls("begin")
    /\ Allowed("BeginOnce", eth \in {"off", "failed"})
    /\ plcState' = "Ethernet" /\ wantConnect' = FALSE
    /\ \E st \in Status : EthBegin(st)
    /\ UNCHANGED <<tcpVars, sessVars, msgVars, tags, srvVars, plcLate, inUse, tagName,
                   prevStatus, slotOk, pollVars, owed>>

(* Defect: connect() keeps the session of the connection before.           *)
ConnectKeepsSession ==
    /\ eth = "ready"
    /\ plcLate' = FALSE
    /\ \/ TcpConnect("Pending") /\ plcState' = "Connecting"
       \/ TcpClose /\ plcState' = "Failed"
    /\ wantConnect' = FALSE
    /\ UNCHANGED sessVars

(* connect(): at once when Ethernet is ready, else queued for poll().      *)
ConnectNow ==
    /\ eth = "ready"
    /\ SessAbort
    /\ plcLate' = FALSE
    /\ \/ TcpConnect("Pending") /\ plcState' = "Connecting"
       \/ TcpClose /\ plcState' = "Failed"      \* bad target; no socket, refused
    /\ wantConnect' = FALSE

ConnectQueued ==
    /\ eth # "ready"
    /\ wantConnect' = TRUE /\ plcState' = "Ethernet"
    /\ UNCHANGED <<tcpVars, sessVars, plcLate>>

Connect ==
    /\ Calls("connect") /\ connNo < MaxConnects
    /\ Allowed("AbortFirst", NothingInFlight)
    /\ ConnectNow \/ ConnectQueued
    /\ UNCHANGED <<msgVars, tags, eth, srvVars, inUse, tagName, prevStatus, slotOk,
                   pollVars, owed>>

(* disconnect(): gracefully when Ready.                                    *)
Disconnect ==
    /\ Calls("disconnect")
    /\ Allowed("AbortFirst", NothingInFlight)
    /\ IF plcState = "Ready"
       THEN /\ plcState' = "Disconnecting"
            /\ \E st \in Status : SessClose(st)
            /\ UNCHANGED tcpVars
       ELSE SessAbort /\ TcpClose /\ plcState' = "Idle"
    /\ UNCHANGED <<msgVars, tags, eth, srvVars, wantConnect, plcLate, inUse, tagName,
                   prevStatus, slotOk, pollVars, owed>>

SetCpuSlot ==
    /\ Calls("setCpuSlot")
    /\ slotOk' \in BOOLEAN
    /\ UNCHANGED <<stack, plcState, wantConnect, plcLate, inUse, tagName, prevStatus,
                   pollVars, owed>>
-----------------------------------------------------------------------------
(* createTag(): the first free slot; the Tag object in it stays as it is.  *)
CreateTag ==
    /\ Calls("createTag")
    /\ Allowed("CreateFirst", eth = "off")
    /\ \E t \in Tags, name \in Names :
          /\ ~inUse[t] /\ \A u \in Tags : u < t => inUse[u]
          /\ inUse' = [inUse EXCEPT ![t] = TRUE]
          /\ tagName' = [tagName EXCEPT ![t] = name]
          /\ prevStatus' = [prevStatus EXCEPT ![t] = "NotReady"]
          /\ owed' = [owed EXCEPT ![t] = FALSE]
    /\ UNCHANGED <<stack, plcState, wantConnect, plcLate, slotOk, pollVars>>

DestroyTag ==
    /\ Calls("destroyTag")
    /\ \E t \in Tags :
          /\ validHandle(t)
          /\ Allowed("IdleDestroy", ~Busy(t))
          /\ inUse' = [inUse EXCEPT ![t] = FALSE]
          /\ owed' = [owed EXCEPT ![t] = FALSE]
    /\ UNCHANGED <<stack, plcState, wantConnect, plcLate, tagName, prevStatus, slotOk,
                   pollVars>>

(* read() and write(): checks of their own, then the tag's.                *)
Started(t, st) ==
    /\ owed' = IF st = "Pending" THEN [owed EXCEPT ![t] = TRUE] ELSE owed
    /\ UNCHANGED <<tcpVars, sessVars, eth, srvVars, plcVars, pollVars>>

Read ==
    /\ Calls("read") /\ context <= MaxSends
    /\ \E t \in Tags, st \in Status :
          /\ validHandle(t) /\ plcState = "Ready" /\ ~anyTagBusy
          /\ TagRead(t, handle, tagName[t], slotOk, st)
          /\ Started(t, st)

(* Defect: write() does not ask whether the session is registered.         *)
WriteUnregistered ==
    /\ Calls("write") /\ context <= MaxSends
    /\ \E t \in Tags, st \in Status :
          /\ validHandle(t) /\ ~anyTagBusy
          /\ TagWrite(t, handle, tagName[t], slotOk, st)
          /\ Started(t, st)

Write ==
    /\ Calls("write") /\ context <= MaxSends
    /\ \E t \in Tags, st \in Status :
          /\ validHandle(t) /\ plcState = "Ready" /\ ~anyTagBusy
          /\ TagWrite(t, handle, tagName[t], slotOk, st)
          /\ Started(t, st)

(* Defect: the status last seen is kept over an abort.                     *)
AbortKeepsStatus ==
    /\ Calls("abortTag")
    /\ \E t \in Tags :
          /\ validHandle(t)
          /\ TagAbort(t)
          /\ owed' = [owed EXCEPT ![t] = FALSE]
    /\ UNCHANGED <<tcpVars, sessVars, eth, srvVars, plcVars, pollVars>>

AbortTag ==
    /\ Calls("abortTag")
    /\ \E t \in Tags :
          /\ validHandle(t)
          /\ TagAbort(t)
          /\ prevStatus' = [prevStatus EXCEPT ![t] = "NotReady"]
          /\ owed' = [owed EXCEPT ![t] = FALSE]
    /\ UNCHANGED <<tcpVars, sessVars, eth, srvVars, plcState, wantConnect, plcLate,
                   inUse, tagName, slotOk, pollVars>>

(* tag()->set...(): the application fills in a value to write.             *)
SetTag ==
    /\ Calls("setTag")
    /\ \E t \in Tags : validHandle(t) /\ TagSet(t)
    /\ UNCHANGED <<tcpVars, sessVars, msgVars, eth, srvVars, plcVars, pollVars, owed>>

AppCall ==
    \/ Begin \/ Connect \/ Disconnect \/ SetCpuSlot
    \/ CreateTag \/ DestroyTag \/ Read \/ Write \/ AbortTag \/ SetTag
-----------------------------------------------------------------------------
(* poll() in each of the states that do something.                         *)
AfterStateCallback == IF "state" \in Callbacks THEN "statecb" ELSE "app"

EthernetPoll ==
    /\ pc = "app" /\ plcState = "Ethernet"
    /\ \E st \in Status :
          /\ EthPoll(st)
          /\ IF st = "Ok" /\ wantConnect
             THEN /\ wantConnect' = FALSE /\ plcLate' = FALSE
                  /\ \E cst \in Status :
                        /\ TcpConnect(cst)
                        /\ plcState' = IF cst = "Pending" THEN "Connecting" ELSE "Failed"
             ELSE /\ plcState' = IF st = "Error" THEN "Failed" ELSE plcState
                  /\ UNCHANGED <<wantConnect, plcLate, tcpVars>>
    /\ UNCHANGED <<sessVars, msgVars, tags, srvVars, inUse, tagName, prevStatus, slotOk,
                   pollVars, owed>>

(* Defect: the deadline is reported but does not end the attempt.          *)
ConnectingForever ==
    /\ pc = "app" /\ plcState = "Connecting"
    /\ IF plcLate
       THEN UNCHANGED <<plcState, tcpVars, sessVars>>
       ELSE \E st \in Status, late \in BOOLEAN :
               /\ TcpPoll(st, late)
               /\ IF st = "Ok"
                  THEN SessOpen(TRUE, "Pending") /\ plcState' = "Registering"
                  ELSE /\ plcState' = IF st \in {"Timeout", "Error"} THEN "Failed" ELSE plcState
                       /\ UNCHANGED sessVars
    /\ UNCHANGED <<msgVars, tags, eth, srvVars, wantConnect, plcLate, inUse, tagName,
                   prevStatus, slotOk, pollVars, owed>>

(* The deadlines of the connection and of the session are set a moment     *)
(* after PlcClient's, so they pass no earlier; `late' is the second look   *)
(* at the clock, which may have gone on since the first.                   *)
ConnectingPoll ==
    /\ pc = "app" /\ plcState = "Connecting"
    /\ IF plcLate
       THEN plcState' = "Failed" /\ UNCHANGED <<tcpVars, sessVars>>
       ELSE \E st \in Status, late \in BOOLEAN :
               /\ TcpPoll(st, late)
               /\ IF st = "Ok"
                  THEN \E ost \in Status :
                          /\ SessOpen(TRUE, ost)
                          /\ plcState' = IF ost = "Pending" THEN "Registering" ELSE "Failed"
                  ELSE /\ plcState' = IF st \in {"Timeout", "Error"} THEN "Failed" ELSE plcState
                       /\ UNCHANGED sessVars
    /\ UNCHANGED <<msgVars, tags, eth, srvVars, wantConnect, plcLate, inUse, tagName,
                   prevStatus, slotOk, pollVars, owed>>

RegisteringPoll ==
    /\ pc = "app" /\ plcState = "Registering"
    /\ IF plcLate
       THEN plcState' = "Failed" /\ pc' = pc /\ UNCHANGED <<tcpVars, sessVars>>
       ELSE \E st \in Status, late \in BOOLEAN :
               /\ SessPoll(st, late)
               /\ plcState' = CASE st = "Ok" -> "Ready"
                                [] st \in {"Timeout", "Error"} -> "Failed"
                                [] OTHER -> plcState
               /\ pc' = IF st = "Ok" THEN AfterStateCallback ELSE pc
    /\ UNCHANGED <<msgVars, tags, eth, srvVars, wantConnect, plcLate, inUse, tagName,
                   prevStatus, slotOk, idx, lost, owed>>

DisconnectingPoll ==
    /\ pc = "app" /\ plcState = "Disconnecting"
    /\ \E st \in Status :
          /\ SessPoll(st, sessLate)
          /\ pc' = IF st \in {"Ok", "Closed"} THEN "close" ELSE pc
    /\ UNCHANGED <<msgVars, tags, eth, srvVars, plcVars, idx, lost, owed>>

DisconnectEnd ==
    /\ pc = "close"
    /\ TcpClose
    /\ plcState' = "Idle" /\ pc' = AfterStateCallback
    /\ UNCHANGED <<sessVars, msgVars, tags, eth, srvVars, wantConnect, plcLate, inUse,
                   tagName, prevStatus, slotOk, idx, lost, owed>>

(* Ready: visit the tags in order, then act on a lost connection, whatever *)
(* the callbacks have done meanwhile.                                      *)
ReadyPoll ==
    /\ pc = "app" /\ plcState = "Ready"
    /\ pc' = "loop" /\ idx' = 1 /\ lost' = FALSE
    /\ UNCHANGED <<stack, plcVars, owed>>

SkipTag ==
    /\ pc = "loop" /\ idx <= MaxTags /\ ~inUse[idx]
    /\ idx' = idx + 1
    /\ UNCHANGED <<stack, plcVars, pc, lost, owed>>

(* The callback fires on a change from Pending to another status.          *)
Reports(t, st) == prevStatus[t] = "Pending" /\ st # "Pending" /\ "tag" \in Callbacks

(* Defect: the status of the last tag decides on the connection.           *)
LastTagDecides ==
    /\ pc = "loop" /\ idx <= MaxTags /\ inUse[idx]
    /\ \E st \in Status :
          /\ TagPoll(idx, st)
          /\ prevStatus' = [prevStatus EXCEPT ![idx] = st]
          /\ lost' = (st = "Closed")
          /\ IF Reports(idx, st)
             THEN /\ pc' = "tagcb" /\ idx' = idx
                  /\ owed' = [owed EXCEPT ![idx] = FALSE]
             ELSE pc' = pc /\ idx' = idx + 1 /\ owed' = owed
    /\ UNCHANGED <<sessVars, eth, srvVars, plcState, wantConnect, plcLate, inUse,
                   tagName, slotOk>>

VisitTag ==
    /\ pc = "loop" /\ idx <= MaxTags /\ inUse[idx]
    /\ \E st \in Status :
          /\ TagPoll(idx, st)
          /\ prevStatus' = [prevStatus EXCEPT ![idx] = st]
          /\ lost' = (lost \/ st = "Closed")
          /\ IF Reports(idx, st)
             THEN /\ pc' = "tagcb" /\ idx' = idx
                  /\ owed' = [owed EXCEPT ![idx] = FALSE]
             ELSE pc' = pc /\ idx' = idx + 1 /\ owed' = owed
    /\ UNCHANGED <<sessVars, eth, srvVars, plcState, wantConnect, plcLate, inUse,
                   tagName, slotOk>>

ReadyEnd ==
    /\ pc = "loop" /\ idx > MaxTags
    /\ IF lost
       THEN SessAbort /\ TcpClose /\ plcState' = "Idle" /\ pc' = AfterStateCallback
       ELSE pc' = "app" /\ UNCHANGED <<sessVars, tcpVars, plcState>>
    /\ idx' = 1 /\ lost' = FALSE
    /\ UNCHANGED <<msgVars, tags, eth, srvVars, wantConnect, plcLate, inUse, tagName,
                   prevStatus, slotOk, owed>>

CallbackReturns ==
    /\ \/ pc = "tagcb" /\ pc' = "loop" /\ idx' = idx + 1
       \/ pc = "statecb" /\ pc' = "app" /\ idx' = idx
    /\ UNCHANGED <<stack, plcVars, lost, owed>>

PollStep ==
    \/ EthernetPoll \/ ConnectingPoll \/ RegisteringPoll
    \/ DisconnectingPoll \/ DisconnectEnd
    \/ ReadyPoll \/ SkipTag \/ VisitTag \/ ReadyEnd \/ CallbackReturns
-----------------------------------------------------------------------------
(* The clock reaches the deadlines.                                        *)
Tick ==
    /\ pc # "loop"
    /\ \/ /\ plcState \in {"Connecting", "Registering"} /\ ~plcLate
          /\ plcLate' = TRUE
          /\ UNCHANGED <<sessVars, msgVars>>
       \/ /\ SessDeadline /\ (plcState = "Registering" => plcLate)
          /\ UNCHANGED <<plcLate, msgVars>>
       \/ MsgDeadline /\ UNCHANGED <<plcLate, sessVars>>
    /\ UNCHANGED <<tcpVars, tags, eth, srvVars, plcState, wantConnect, inUse, tagName,
                   prevStatus, slotOk, pollVars, owed>>

Environment ==
    /\ pc # "loop" /\ SrvNext
    /\ UNCHANGED <<sessVars, msgVars, tags, eth, plcVars, pollVars, owed>>

Next == AppCall \/ PollStep \/ Tick \/ Environment

Spec == Init /\ [][Next]_vars

(* loop() of the sketch calls poll() again and again, callbacks return,    *)
(* and time passes: the clock stands still only between two visits, by the *)
(* reduction above, hence SF.  Nothing is asked of the PLC.                *)
Fairness == WF_vars(PollStep) /\ SF_vars(Tick)

FairSpec == Spec /\ Fairness
-----------------------------------------------------------------------------
TypeOK ==
    /\ TcpTypeOK /\ SessTypeOK /\ MsgTypeOK /\ TagTypeOK /\ SrvTypeOK
    /\ eth \in EthStates
    /\ plcState \in PlcStates /\ wantConnect \in BOOLEAN /\ plcLate \in BOOLEAN
    /\ inUse \in [Tags -> BOOLEAN] /\ owed \in [Tags -> BOOLEAN]
    /\ tagName \in [Tags -> Names \cup {NoName}]
    /\ prevStatus \in [Tags -> Status]
    /\ slotOk \in BOOLEAN /\ lost \in BOOLEAN
    /\ pc \in {"app", "loop", "tagcb", "statecb", "close"}
    /\ idx \in 1..(MaxTags + 1)

(* Single in-flight (PlcClient.h:42-45): at most one tag, allocated or     *)
(* not, has a read or write in flight, and then it is that tag's exchange  *)
(* the shared message is in.  Whatever order of calls, callbacks, aborts   *)
(* and reconnects: no second operation ever gets at the shared buffers.    *)
SingleInFlight ==
    /\ \A t, u \in Tags : Busy(t) /\ Busy(u) => t = u
    /\ MsgInFlight <=> \E t \in Tags : Busy(t)

(* ready() means that this very connection is up and its session           *)
(* registered, with the handle the PLC gave on it: neither a reconnect nor *)
(* a connection lost earlier leaves a stale handle behind                  *)
(* (PlcClient.cpp:26-29, 144-147).                                         *)
ReadyMeansRegistered ==
    plcState = "Ready" /\ pc \in {"app", "statecb"} =>
        /\ fd /\ Connected
        /\ sessState = "Registered" /\ handle = connNo

(* The session handle in the bytes of a tag request is the one of the      *)
(* connection they are written to (PlcClient.cpp:26-27).                   *)
NoStaleHandle ==
    \A i \in 1..Len(out) : out[i].f.cmd = "SendRRData" => out[i].f.sess = connNo

(* The message is busy only while an operation the application can see and *)
(* abort is in flight, so that Busy is never for good                      *)
(* (PlcClient.h:102-104).                                                  *)
BusyHasOwner == MsgInFlight => anyTagBusy

(* A connect attempt is not refused by a session left over from before     *)
(* (PlcClient.cpp:26-27).                                                  *)
NoLeftoverSession ==
    plcState = "Connecting" => sessState \notin {"Registering", "Registered"}

(* The tag callback tells of an operation that was started on that tag and *)
(* has not been told of before (PlcClient.h:25).                           *)
CallbackOnlyIfOwed == [][pc' = "tagcb" /\ pc = "loop" => owed[idx]]_vars

(* An operation that is over has been told of when poll() returns          *)
(* (PlcClient.h:25).                                                       *)
CallbackNotLost ==
    pc = "app" => \A t \in Tags : inUse[t] /\ owed[t] => Busy(t)

(* An operation that succeeds was answered by the response to just this    *)
(* read or write of just this tag (Tag.cpp:119-146): never to an operation *)
(* that was aborted or timed out, or of another tag the slot stood for.    *)
(* The value a read leaves in the slot is of that tag, or was set by the   *)
(* application while the read was on its way and the response had none:    *)
(* never one that was there before the read.                               *)
AnswersOwnOperation ==
    [][\A t \in Tags :
          inUse[t] /\ Busy(t) /\ TagStatus(t)' = "Ok"
             => /\ MsgReply'.name = tagName[t]
                /\ MsgReply'.svc = IF tags[t].state = "Reading" THEN "Read" ELSE "Write"
                /\ tags[t].state = "Reading" /\ tags'[t].fresh =>
                      tags'[t].data \in {tagName[t], FromApp, NoName}]_vars

(* A connection attempt is decided (PlcClient.cpp:89-92, 110-113).         *)
AttemptEnds ==
    plcState \in {"Connecting", "Registering"} ~>
        plcState \notin {"Connecting", "Registering"}

(* While the client stays Ready, a tag operation in flight comes to an end *)
(* (PlcClient.cpp:128-143): poll() reaches it, or it is aborted.           *)
OperationEnds ==
    \A t \in Tags : Busy(t) ~> ~Busy(t) \/ plcState # "Ready"

(* A graceful disconnect comes to an end (PlcClient.h:80-81).              *)
DisconnectEnds == plcState = "Disconnecting" ~> plcState # "Disconnecting"
=============================================================================
