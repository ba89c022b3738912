-------------------------------- MODULE MCPlc --------------------------------
(* PlcClient for TLC: the uses of the library the runs look at, as the     *)
(* operations called by the sketch and by its callbacks.                   *)
EXTENDS PlcClient

(* Tags come, go and are used in any order, on one connection.             *)
PoolOps == {"begin", "connect", "createTag", "destroyTag", "read", "write",
            "abortTag", "setCpuSlot"}

(* Connections come and go at any moment around one tag.                   *)
ReconnectOps == {"begin", "connect", "disconnect", "createTag", "write", "setTag",
                 "abortTag"}

(* Callbacks that chain reads, reconnect, give up or tidy up.              *)
SketchOps == {"begin", "connect", "createTag", "read", "abortTag"}
ChainOps  == {"read", "connect", "disconnect", "abortTag", "destroyTag"}

(* The least use that shows what a finding is about.                       *)
LeaveOps   == {"begin", "connect", "disconnect"}
DestroyOps == {"begin", "connect", "createTag", "destroyTag", "read"}
ReadOps    == {"begin", "connect", "createTag", "read"}
=============================================================================
