--------------------------------- MODULE Tag ---------------------------------
(***************************************************************************)
(* clx::Tag (src/src/tag/Tag.cpp): a symbolic tag whose reads and writes   *)
(* run over one ExplicitMessage that all tags share.  A tag is a record:   *)
(* state_; data, the name of the tag that dataType_ and, when there is a   *)
(* value, data_ were read from ("App" when the application has set either, *)
(* NoName while dataType_ is 0); fresh, whether there is a value: dataLen_ *)
(* is not 0; and code, whether resultCode_ is not 0.                       *)
(***************************************************************************)
EXTENDS ExplicitMessage

CONSTANT Tags        \* the indices of the tag pool

VARIABLE tags        \* tags_[]

TagStates == {"Idle", "Reading", "Writing", "Done", "Failed"}

FromApp == "App"

TagRecord == [state : TagStates, data : Names \cup {NoName, FromApp},
              fresh : BOOLEAN, code : BOOLEAN]

TagInit == tags = [t \in Tags |-> [state |-> "Idle", data |-> NoName,
                                   fresh |-> FALSE, code |-> FALSE]]

Busy(t) == tags[t].state \in {"Reading", "Writing"}

(* status(): a failure is an Error whatever caused it.                     *)
TagStatus(t) ==
    CASE Busy(t)                   -> "Pending"
      [] tags[t].state = "Done"    -> "Ok"
      [] tags[t].state = "Failed"  -> "Error"
      [] OTHER                     -> "NotReady"
-----------------------------------------------------------------------------
(* read(): the previous result is invalidated once the request is on its   *)
(* way, and only then.                                                     *)
TagRead(t, sess, name, valid, st) ==
    \/ Busy(t) /\ st = "Busy" /\ UNCHANGED <<tags, msgVars>>
    \/ /\ ~Busy(t)
       /\ MsgSend(sess, "Read", name, NoConn, valid, st)
       /\ tags' = IF st = "Pending"
                  THEN [tags EXCEPT ![t].state = "Reading", ![t].fresh = FALSE,
                                    ![t].code = FALSE]
                  ELSE tags

(* write(): the data type must be known; the length check of startWrite()  *)
(* may refuse what is in data_.                                            *)
TagWrite(t, sess, name, valid, st) ==
    \/ tags[t].data = NoName /\ st = "NotReady" /\ UNCHANGED <<tags, msgVars>>
    \/ tags[t].data # NoName /\ Busy(t) /\ st = "Busy" /\ UNCHANGED <<tags, msgVars>>
    \/ tags[t].data # NoName /\ ~Busy(t) /\ st = "InvalidArg" /\ UNCHANGED <<tags, msgVars>>
    \/ /\ tags[t].data # NoName /\ ~Busy(t)
       /\ MsgSend(sess, "Write", name, NoConn, valid, st)
       /\ tags' = IF st = "Pending" THEN [tags EXCEPT ![t].state = "Writing"] ELSE tags

(* The outcomes of poll() once msg.poll() is Ok: m is the response.  A     *)
(* successful read need not bring a value: one shorter than a data type    *)
(* leaves data_, dataType_ and dataLen_ alone, one without a byte after it *)
(* sets dataType_ and clears dataLen_.                                     *)
Succeeded(t) == [tags[t] EXCEPT !.code = FALSE, !.state = "Done"]

ReadInto(t, m) == {[Succeeded(t) EXCEPT !.data = m.name, !.fresh = f] : f \in BOOLEAN}

Completed(t, m) ==
    IF m.kind = "cipError"
    THEN {[tags[t] EXCEPT !.code = TRUE, !.state = "Failed"]}
    ELSE {Succeeded(t)} \cup
         (IF tags[t].state = "Reading" /\ m.svc = "Read" THEN ReadInto(t, m) ELSE {})

(* poll(): drives the shared message when this tag is the one in flight.   *)
TagPoll(t, st) ==
    \/ ~Busy(t) /\ st = TagStatus(t) /\ UNCHANGED <<tags, msgVars, tcpVars>>
    \/ /\ Busy(t)
       /\ \E m \in Status :
             /\ MsgPoll(m)
             /\ \/ /\ m = "Pending" /\ st = m /\ tags' = tags
                \/ /\ m \notin {"Pending", "Ok"} /\ st = m
                   /\ tags' = [tags EXCEPT ![t].state = "Failed"]
                \/ /\ m = "Ok"
                   /\ st = IF MsgReply'.kind = "cipError" THEN "Error" ELSE "Ok"
                   /\ \E c \in Completed(t, MsgReply') : tags' = [tags EXCEPT ![t] = c]

(* Defects: abort() lets go of the message whoever uses it, or never.      *)
AbortAnyones(t) ==
    /\ MsgAbort
    /\ tags' = [tags EXCEPT ![t].state = "Idle", ![t].fresh = FALSE]

AbortTagOnly(t) ==
    /\ UNCHANGED msgVars
    /\ tags' = [tags EXCEPT ![t].state = "Idle", ![t].fresh = FALSE]

(* abort(): the shared message is let go of only by the tag that uses it.  *)
TagAbort(t) ==
    /\ IF Busy(t) THEN MsgAbort ELSE UNCHANGED msgVars
    /\ tags' = [tags EXCEPT ![t].state = "Idle", ![t].fresh = FALSE]

(* The application's setters, whatever the tag is doing: setDataType() and *)
(* the numbers leave dataLen_ alone, setString() sets it; without a data   *)
(* type there is nothing to write yet.                                     *)
TagSet(t) ==
    \/ tags' = [tags EXCEPT ![t].data = FromApp]
    \/ tags' = [tags EXCEPT ![t].data = IF @ = NoName THEN NoName ELSE FromApp,
                            ![t].fresh = TRUE]

TagTypeOK == tags \in [Tags -> TagRecord]
=============================================================================
