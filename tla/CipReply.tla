------------------------------- MODULE CipReply -------------------------------
(***************************************************************************)
(* How a response is taken apart: parseResponse() of ExplicitMessage and   *)
(* parseConnectedResponse() of Connection, which walk the CPF items of the *)
(* bodyLen bytes that were received behind a header that fits the request, *)
(* and the use that Tag and Connection make of what they find.             *)
(*                                                                         *)
(* The bytes may be anything: what an item says of its type and length is  *)
(* chosen where the code reads it.  Positions count from the beginning of  *)
(* the body.  items is the history of what was read of each item, reach    *)
(* the end of the furthest byte that was read or handed out.               *)
(***************************************************************************)
EXTENDS Integers, Sequences, SequencesExt

CONSTANTS
    BodyLens,    \* lengths of bodies
    ItemCounts,  \* item counts in the body
    ItemLens,    \* lengths that items say they have
    StatusSizes, \* words of additional status that responses say they have
    SizeMod      \* 2^32: the width of size_t

ASSUME ReplyAssumption ==
    /\ SizeMod \in Nat \ {0} /\ BodyLens \subseteq 0..(SizeMod - 1)
    /\ ItemCounts \cup ItemLens \cup StatusSizes \subseteq Nat

VARIABLES receiver, bodyLen, itemCount, items, p, remaining, found, haveId,
          verdict, genuine, addWords, dataSpan, reach

input == <<receiver, bodyLen, itemCount>>
replyVars == <<input, items, p, remaining, found, haveId, verdict, genuine, addWords,
               dataSpan, reach>>

NoSpan == [at |-> 0, len |-> 0]

Minus(a, b) == (a - b) % SizeMod

Reaches(n) == reach' = IF n > reach THEN n ELSE reach

Verdict(st) == verdict' = st /\ UNCHANGED <<input, genuine, addWords, dataSpan>>

ReplyInit ==
    /\ receiver = "none" /\ bodyLen = 0 /\ itemCount = 0
    /\ items = <<>> /\ p = 0 /\ remaining = 0
    /\ found = NoSpan /\ haveId = FALSE
    /\ verdict = "none" /\ genuine = FALSE
    /\ addWords = 0 /\ dataSpan = NoSpan /\ reach = 0

(* The parser `by' is called on a body of any length and item count.       *)
Parse(by) ==
    /\ verdict = "none" /\ verdict' = "parsing"
    /\ receiver' = by /\ genuine' \in BOOLEAN
    /\ bodyLen' \in BodyLens /\ itemCount' \in ItemCounts
    /\ p' = 8 /\ remaining' = Minus(bodyLen', 8)
    /\ UNCHANGED <<items, found, haveId, addWords, dataSpan, reach>>
-----------------------------------------------------------------------------
(* A body without an item count.                                           *)
TooShort ==
    /\ verdict = "parsing" /\ bodyLen < 8 /\ Verdict("Error")
    /\ UNCHANGED <<items, p, remaining, found, haveId, reach>>

(* The next item has no room for its type and length.                      *)
NoHeader ==
    /\ verdict = "parsing" /\ bodyLen >= 8 /\ Len(items) < itemCount
    /\ remaining < 4 /\ Verdict("Error")
    /\ UNCHANGED <<items, p, remaining, found, haveId, reach>>

(* Defect: an item may be as long as all that remained before its header.  *)
LooseItem(len) == len > remaining

(* An item longer than what remains behind its header.                     *)
TooLong(len) == len > Minus(remaining, 4)

(* One round of the loop.                                                  *)
Item(type, len) ==
    /\ verdict = "parsing" /\ bodyLen >= 8 /\ Len(items) < itemCount /\ remaining >= 4
    /\ items' = Append(items, [type |-> type, len |-> len])
    /\ IF TooLong(len) \/ (receiver = "connection" /\ type = "id" /\ len < 4)
       THEN /\ Verdict("Error") /\ Reaches(p + 4)
            /\ UNCHANGED <<p, remaining, found, haveId>>
       ELSE /\ found' = IF type = "data" THEN [at |-> p + 4, len |-> len] ELSE found
            /\ haveId' = (haveId \/ type = "id")
            /\ Reaches(IF receiver = "connection" /\ type = "id" THEN p + 8 ELSE p + 4)
            /\ p' = p + 4 + len /\ remaining' = Minus(remaining, 4 + len)
            /\ UNCHANGED <<input, verdict, genuine, addWords, dataSpan>>

Walked == verdict = "parsing" /\ bodyLen >= 8 /\ Len(items) = itemCount

(* Defect: only the data is kept within the item, not the status words.    *)
UncheckedStatus(words) ==
    LET left == Minus(found.len, 4)
        add  == IF 2 * words > left THEN left ELSE 2 * words
    IN  /\ addWords' = words
        /\ dataSpan' = [at |-> found.at + 4 + add, len |-> left - add]

(* The additional status, cut to what there is, and the data behind it.    *)
SplitReply(words) ==
    LET left == Minus(found.len, 4)
        add  == IF 2 * words > left THEN left ELSE 2 * words
    IN  /\ addWords' = (IF 2 * words > left THEN add \div 2 ELSE words)
        /\ dataSpan' = [at |-> found.at + 4 + add, len |-> left - add]

MessageDone(words) ==
    /\ Walked /\ receiver = "message"
    /\ IF found.len < 4
       THEN Verdict("Error") /\ UNCHANGED reach
       ELSE /\ verdict' = "Ok" /\ SplitReply(words)
            /\ Reaches(found.at + 4) /\ UNCHANGED <<input, genuine>>
    /\ UNCHANGED <<items, p, remaining, found, haveId>>

(* Defect: a connected response of four bytes is taken for a whole one.    *)
ShortConnected(len) == len < 4

TooShortConnected(len) == len < 6

(* The sequence count and the reply behind it; how much additional status  *)
(* it has is not looked at, so that data() begins with it.  `genuine' is   *)
(* that id and count are those of the request.                             *)
ConnectionDone ==
    /\ Walked /\ receiver = "connection"
    /\ IF ~haveId \/ found.len < 4
       THEN Verdict("Error") /\ UNCHANGED reach
       ELSE /\ IF ~genuine \/ TooShortConnected(found.len)
               THEN Verdict("Error") /\ Reaches(found.at + 2)
               ELSE /\ verdict' = "Ok" /\ Reaches(found.at + 6)
                    /\ dataSpan' = [at |-> found.at + 6, len |-> Minus(found.len, 6)]
                    /\ UNCHANGED <<input, genuine, addWords>>
    /\ UNCHANGED <<items, p, remaining, found, haveId>>

(* What is made of the response: additionalStatus() and data() are handed  *)
(* out, a Tag copies what there is behind the type, and pollOpening()      *)
(* reads two ids.                                                          *)
Used ==
    /\ verdict = "Ok" /\ verdict' = "used"
    /\ \/ Reaches(dataSpan.at + dataSpan.len)
       \/ receiver = "message" /\ addWords > 0 /\ Reaches(found.at + 4 + 2 * addWords)
       \/ receiver = "message" /\ dataSpan.len >= 2 /\ Reaches(dataSpan.at + 2)
       \/ receiver = "message" /\ dataSpan.len >= 12 /\ Reaches(dataSpan.at + 8)
    /\ UNCHANGED <<input, items, p, remaining, found, haveId, genuine, addWords, dataSpan>>

ReplyNext ==
    \/ TooShort \/ NoHeader
    \/ \E type \in {"other", "id", "data"}, len \in ItemLens : Item(type, len)
    \/ \E words \in StatusSizes : MessageDone(words)
    \/ ConnectionDone \/ Used
-----------------------------------------------------------------------------
(* Whatever the lengths in a response say, only bytes that were received   *)
(* are read or handed out (ExplicitMessage.cpp:221-275,                    *)
(* Connection.cpp:362-430).                                                *)
ReadsReceived == reach <= bodyLen

(* Where the content of an item lies: behind the eight bytes of the body,  *)
(* the items before it and its own header.                                 *)
Span(seq)    == FoldLeft(LAMBDA s, i : s + (4 + i.len), 0, seq)
ContentAt(k) == 12 + Span(SubSeq(items, 1, k - 1))

DataItem(k) ==
    items[k].type = "data" /\ \A j \in (k + 1)..Len(items) : items[j].type # "data"

IdWhole(k) == items[k].type = "id" /\ receiver = "connection" => items[k].len >= 4

(* A response as it ought to be: all its items are in it, and the last one *)
(* of the type that is waited for has room for a reply.                    *)
WellFormed ==
    /\ bodyLen >= 8 /\ Len(items) = itemCount
    /\ \A k \in 1..Len(items) : ContentAt(k) + items[k].len <= bodyLen /\ IdWhole(k)
    /\ \E k \in 1..Len(items) :
          DataItem(k) /\ items[k].len >= IF receiver = "message" THEN 4 ELSE 6
    /\ receiver = "connection" => genuine /\ \E k \in 1..Len(items) : items[k].type = "id"

(* The verdict is Ok on responses that are well-formed, and on no others   *)
(* (ExplicitMessage.cpp:224-253, Connection.cpp:375-421).                  *)
OkIfWellFormed ==
    verdict \notin {"none", "parsing"} => (verdict \in {"Ok", "used"} <=> WellFormed)

(* data() is the rest of that item behind the reply's header and, for a    *)
(* message, its additional status, up to the end of the item; the status   *)
(* ends where the data begins, but for an odd byte                         *)
(* (ExplicitMessage.cpp:255-272, Connection.cpp:419-429).                  *)
DataIsOfReply ==
    verdict \in {"Ok", "used"} =>
        \E k \in 1..Len(items) :
            LET begin == ContentAt(k) + IF receiver = "message" THEN 4 ELSE 6
            IN  /\ DataItem(k)
                /\ dataSpan.at + dataSpan.len = ContentAt(k) + items[k].len
                /\ dataSpan.at - (begin + 2 * addWords) \in {0, 1}
                /\ dataSpan.len > 0 => dataSpan.at = begin + 2 * addWords
=============================================================================
