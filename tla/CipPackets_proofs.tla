--------------------------- MODULE CipPackets_proofs ---------------------------
(***************************************************************************)
(* That a request fits its buffers and is read by the PLC as it was meant, *)
(* and that only what was received of a response is used: the invariants   *)
(* of CipRequest and CipReply, as theorems about CipPackets.               *)
(***************************************************************************)
EXTENDS CipPackets, TLAPS, SequenceTheorems, WellFoundedInduction

(* Induction, in the form that has a set for its parameter: the least      *)
(* number that S lacks is neither 0 nor the successor of one in S.         *)
LEMMA NatSetInduction ==
    ASSUME NEW S, 0 \in S, \A n \in Nat : n \in S => n + 1 \in S
    PROVE  Nat \subseteq S
<1> DEFINE T == Nat \ S
<1> SUFFICES ASSUME T # {} PROVE FALSE
    OBVIOUS
<1>1. \E x \in T : \A y \in T : ~(<<y, x>> \in OpToRel(<, Nat))
    <2> HIDE DEF T
    <2>1. T \subseteq Nat
        BY DEF T
    <2> QED BY Zenon, <2>1, WFMin, NatLessThanWellFounded
<1>2. PICK x \in T : \A y \in T : ~(<<y, x>> \in OpToRel(<, Nat))
    BY <1>1
<1>3. \A y \in T : ~(y < x)
    BY <1>2 DEF OpToRel
<1>4. x # 0
    OBVIOUS
<1>5. x - 1 \in Nat /\ x - 1 < x /\ x - 1 \notin T
    BY <1>3, <1>4
<1> QED BY <1>5
-----------------------------------------------------------------------------
(* The fold of a sum over the positions 1..n, as Folds.tla defines it.     *)
Sums(it, g, n) ==
    it = [s \in SUBSET (1..n) |-> IF s = {} THEN 0 ELSE it[s \ {Max(s)}] + g[Max(s)]]

Total(g, n) == (CHOOSE it : Sums(it, g, n))[1..n]

(* A set of positions that is not empty has a greatest.                    *)
LEMMA MaxOfPositions ==
    ASSUME NEW n \in Nat, NEW s \in SUBSET (1..n), s # {}
    PROVE  Max(s) \in s /\ \A y \in s : y <= Max(s)
<1> DEFINE Has(k) == \A t \in SUBSET (1..k) : t # {} => \E x \in t : \A y \in t : x >= y
           S == {k \in Nat : Has(k)}
<1>1. 0 \in S
    <2>1. 1..0 = {}
        OBVIOUS
    <2>2. Has(0)
        BY Zenon, <2>1
    <2> QED BY <2>2
<1>2. ASSUME NEW k \in Nat, k \in S PROVE k + 1 \in S
    <2> SUFFICES ASSUME NEW t \in SUBSET (1..(k + 1)), t # {}
                 PROVE  \E x \in t : \A y \in t : x >= y
        OBVIOUS
    <2>1. CASE k + 1 \in t
        BY <2>1
    <2>2. CASE k + 1 \notin t
        <3>1. t \in SUBSET (1..k)
            BY <2>2
        <3> QED BY <3>1, <1>2
    <2> QED BY <2>1, <2>2
<1> HIDE DEF S
<1>3. n \in S
    BY <1>1, <1>2, NatSetInduction
<1>4. \E x \in s : \A y \in s : x >= y
    BY <1>3 DEF S
<1> QED BY <1>4 DEF Max
(* There is such a fold.                                                   *)
LEMMA SumsExist ==
    ASSUME NEW g, NEW n \in Nat
    PROVE  \E it : Sums(it, g, n)
<1> DEFINE S == {k \in Nat : \E it : Sums(it, g, k)}
<1>1. 0 \in S
    <2> DEFINE it0 == [s \in SUBSET (1..0) |-> 0]
    <2>1. \A s \in SUBSET (1..0) : s = {}
        <3>1. 1..0 = {}
            OBVIOUS
        <3> QED BY Zenon, <3>1
    <2>2. it0 = [s \in SUBSET (1..0) |->
                  IF s = {} THEN 0 ELSE it0[s \ {Max(s)}] + g[Max(s)]]
        BY <2>1
    <2>3. Sums(it0, g, 0)
        BY Zenon, <2>2 DEF Sums
    <2> QED BY <2>3
<1>2. ASSUME NEW k \in Nat, k \in S PROVE k + 1 \in S
    <2>1. PICK it : Sums(it, g, k)
        BY <1>2
    <2> DEFINE More == [s \in SUBSET (1..(k + 1)) |->
                          IF k + 1 \in s THEN it[s \ {k + 1}] + g[k + 1] ELSE it[s]]
               Body(s) == IF s = {} THEN 0 ELSE More[s \ {Max(s)}] + g[Max(s)]
    <2>2. ASSUME NEW s \in SUBSET (1..(k + 1)) PROVE More[s] = Body(s)
        <3>1. CASE k + 1 \in s
            <4>1. Max(s) = k + 1
                <5>1. Max(s) \in s /\ k + 1 <= Max(s)
                    BY <3>1, MaxOfPositions
                <5>2. Max(s) \in 1..(k + 1)
                    BY Zenon, <5>1
                <5> QED BY <5>1, <5>2
            <4>2. s \ {k + 1} \in SUBSET (1..(k + 1)) /\ k + 1 \notin s \ {k + 1}
                OBVIOUS
            <4>3. More[s \ {k + 1}] = it[s \ {k + 1}]
                BY Zenon, <4>2
            <4> QED BY Zenon, <3>1, <4>1, <4>3
        <3>2. CASE k + 1 \notin s
            <4>1. s \in SUBSET (1..k)
                BY <3>2
            <4>2. it[s] = IF s = {} THEN 0 ELSE it[s \ {Max(s)}] + g[Max(s)]
                BY Zenon, <2>1, <4>1 DEF Sums
            <4>3. More[s] = it[s]
                BY Zenon, <3>2
            <4>4. s \ {Max(s)} \in SUBSET (1..(k + 1)) /\ k + 1 \notin s \ {Max(s)}
                BY <3>2
            <4>5. More[s \ {Max(s)}] = it[s \ {Max(s)}]
                BY Zenon, <4>4
            <4> QED BY Zenon, <4>2, <4>3, <4>5
        <3> QED BY <3>1, <3>2
    <2>3. More = [s \in SUBSET (1..(k + 1)) |-> Body(s)]
        <3> HIDE DEF Body
        <3> QED BY Zenon, <2>2
    <2>4. Sums(More, g, k + 1)
        <3> HIDE DEF More
        <3> QED BY Zenon, <2>3 DEF Sums
    <2> QED BY <2>4
<1> HIDE DEF S
<1>3. n \in S
    BY <1>1, <1>2, NatSetInduction
<1> QED BY <1>3 DEF S

(* Two folds agree where their numbers do.                                 *)
AlikeTo(k, a, g, n, b, h, m) ==
    /\ n \in Nat /\ Sums(a, g, n) /\ m \in Nat /\ Sums(b, h, m)
    /\ k \in Nat /\ k <= n /\ k <= m /\ \A i \in 1..k : g[i] = h[i]

LEMMA SumsAgree ==
    ASSUME NEW k, NEW a, NEW g, NEW n, NEW b, NEW h, NEW m, AlikeTo(k, a, g, n, b, h, m)
    PROVE  \A s \in SUBSET (1..k) : a[s] = b[s]
<1> USE DEF AlikeTo
<1> DEFINE Same(j) == \A s \in SUBSET (1..j) : a[s] = b[s]
           S == {j \in Nat : j <= k => Same(j)}
<1>0. ASSUME NEW s \in SUBSET (1..k)
      PROVE  /\ a[s] = IF s = {} THEN 0 ELSE a[s \ {Max(s)}] + g[Max(s)]
             /\ b[s] = IF s = {} THEN 0 ELSE b[s \ {Max(s)}] + h[Max(s)]
    <2>1. s \in SUBSET (1..n) /\ s \in SUBSET (1..m)
        OBVIOUS
    <2> QED BY Zenon, <2>1 DEF Sums
<1>1. 0 \in S
    <2>1. \A s \in SUBSET (1..0) : s = {} /\ s \in SUBSET (1..k)
        <3>1. 1..0 = {}
            OBVIOUS
        <3> QED BY Zenon, <3>1
    <2>2. Same(0)
        BY Zenon, <2>1, <1>0
    <2> QED BY <2>2
<1>2. ASSUME NEW j \in Nat, j \in S PROVE j + 1 \in S
    <2> SUFFICES ASSUME j + 1 <= k, NEW s \in SUBSET (1..(j + 1)) PROVE a[s] = b[s]
        OBVIOUS
    <2>1. Same(j)
        BY <1>2
    <2>2. s \in SUBSET (1..k)
        OBVIOUS
    <2>3. CASE s = {}
        BY Zenon, <2>2, <2>3, <1>0
    <2>4. CASE s # {}
        <3>1. Max(s) \in s /\ \A y \in s : y <= Max(s)
            BY <2>4, MaxOfPositions
        <3>2. Max(s) \in 1..(j + 1)
            BY Zenon, <3>1
        <3>3. Max(s) \in 1..k
            BY <3>2
        <3>4. ASSUME NEW y \in s \ {Max(s)} PROVE y \in 1..j
            <4>1. y <= Max(s) /\ y \in 1..(j + 1) /\ y # Max(s)
                BY Zenon, <3>1
            <4> QED BY <4>1, <3>2
        <3>5. s \ {Max(s)} \in SUBSET (1..j)
            BY Zenon, <3>4
        <3>6. a[s \ {Max(s)}] = b[s \ {Max(s)}] /\ g[Max(s)] = h[Max(s)]
            BY Zenon, <3>3, <3>5, <2>1
        <3> QED BY Zenon, <3>6, <2>2, <2>4, <1>0
    <2> QED BY <2>3, <2>4
<1> HIDE DEF S
<1>3. k \in S
    BY <1>1, <1>2, NatSetInduction
<1> QED BY <1>3 DEF S

(* Totals by what they are summed over: nothing, and one position more.    *)
LEMMA TotalIsOf ==
    ASSUME NEW g, NEW n \in Nat, NEW it, Sums(it, g, n), NEW k \in 0..n
    PROVE  Total(g, k) = it[1..k]
<1>1. k \in Nat /\ k <= k /\ k <= n
    OBVIOUS
<1>2. \E b : Sums(b, g, k)
    BY Zenon, <1>1, SumsExist
<1>3. \E b : Sums(b, g, k) /\ Total(g, k) = b[1..k]
    BY Zenon, <1>2 DEF Total
<1>4. PICK b : Sums(b, g, k) /\ Total(g, k) = b[1..k]
    BY <1>3
<1>5. AlikeTo(k, b, g, k, it, g, n)
    BY <1>1, <1>4 DEF AlikeTo
<1>6. \A s \in SUBSET (1..k) : b[s] = it[s]
    BY <1>5, SumsAgree
<1> QED BY Zenon, <1>4, <1>6

LEMMA TotalOfNone == ASSUME NEW g PROVE Total(g, 0) = 0
<1>1. PICK it : Sums(it, g, 0)
    BY SumsExist
<1>2. 1..0 = {}
    OBVIOUS
<1>3. it[{}] = 0
    BY Zenon, <1>1 DEF Sums
<1>4. Total(g, 0) = it[1..0]
    BY <1>1, TotalIsOf
<1> QED BY Zenon, <1>2, <1>3, <1>4

LEMMA TotalOfNext ==
    ASSUME NEW g, NEW n \in Nat
    PROVE  Total(g, n + 1) = Total(g, n) + g[n + 1]
<1>1. PICK it : Sums(it, g, n + 1)
    BY SumsExist
<1>2. Total(g, n + 1) = it[1..(n + 1)] /\ Total(g, n) = it[1..n]
    BY <1>1, TotalIsOf
<1> DEFINE s == 1..(n + 1)
<1>3. s # {} /\ n + 1 \in s
    OBVIOUS
<1>4. Max(s) \in s /\ n + 1 <= Max(s)
    <2>1. n + 1 \in Nat /\ s \in SUBSET (1..(n + 1))
        OBVIOUS
    <2> QED BY Zenon, <1>3, <2>1, MaxOfPositions
<1>5. Max(s) = n + 1 /\ s \ {Max(s)} = 1..n
    BY <1>4
<1>6. it[s] = it[s \ {Max(s)}] + g[Max(s)]
    <2> HIDE DEF s
    <2>1. s \in SUBSET (1..(n + 1))
        BY DEF s
    <2> QED BY Zenon, <1>1, <1>3, <2>1 DEF Sums
<1> QED BY Zenon, <1>2, <1>5, <1>6

LEMMA TotalAgrees ==
    ASSUME NEW g, NEW h, NEW n \in Nat, \A i \in 1..n : g[i] = h[i]
    PROVE  Total(g, n) = Total(h, n)
<1>1. PICK a : Sums(a, g, n)
    BY SumsExist
<1>2. PICK b : Sums(b, h, n)
    BY SumsExist
<1>3. a[1..n] = b[1..n]
    <2>1. AlikeTo(n, a, g, n, b, h, n)
        BY <1>1, <1>2 DEF AlikeTo
    <2>2. \A s \in SUBSET (1..n) : a[s] = b[s]
        BY <2>1, SumsAgree
    <2> QED BY Zenon, <2>2
<1>4. Total(g, n) = a[1..n] /\ Total(h, n) = b[1..n]
    BY <1>1, <1>2, TotalIsOf
<1> QED BY <1>3, <1>4

LEMMA TotalType ==
    ASSUME NEW n \in Nat, NEW g, \A i \in 1..n : g[i] \in Nat
    PROVE  Total(g, n) \in Nat
<1> DEFINE S == {k \in Nat : k <= n => Total(g, k) \in Nat}
<1>1. 0 \in S
    BY TotalOfNone
<1>2. ASSUME NEW k \in Nat, k \in S PROVE k + 1 \in S
    BY <1>2, TotalOfNext
<1> HIDE DEF S
<1>3. n \in S
    BY <1>1, <1>2, NatSetInduction
<1> QED BY <1>3 DEF S

-----------------------------------------------------------------------------
(* An item, and where the contents of the k-th of a sequence of them lies. *)
ItemRec == [type : {"other", "id", "data"}, len : Nat]
SpanRec == [at : Nat, len : Nat]

At(s, k) == 12 + Span(SubSeq(s, 1, k - 1))

LEMMA SpanIsTotal ==
    ASSUME NEW s \in Seq(ItemRec)
    PROVE  Span(s) = Total([i \in 1..Len(s) |-> 4 + s[i].len], Len(s))
<1> DEFINE g == [i \in 1..Len(s) |-> 4 + s[i].len]
           Folds(it) == it = [u \in SUBSET (DOMAIN s) |->
                                IF u = {} THEN 0 ELSE it[u \ {Max(u)}] + (4 + s[Max(u)].len)]
<1>1. DOMAIN s = 1..Len(s) /\ Len(s) \in Nat
    OBVIOUS
<1>2. ASSUME NEW u \in SUBSET (1..Len(s)), u # {} PROVE g[Max(u)] = 4 + s[Max(u)].len
    <2>1. Max(u) \in 1..Len(s)
        BY <1>1, <1>2, MaxOfPositions
    <2> QED BY Zenon, <2>1
<1>3. ASSUME NEW it
      PROVE  Folds(it) <=> Sums(it, g, Len(s))
    <2> DEFINE F(u) == IF u = {} THEN 0 ELSE it[u \ {Max(u)}] + (4 + s[Max(u)].len)
               G(u) == IF u = {} THEN 0 ELSE it[u \ {Max(u)}] + g[Max(u)]
    <2>1. \A u \in SUBSET (1..Len(s)) : F(u) = G(u)
        <3> HIDE DEF g
        <3> QED BY Zenon, <1>2
    <2>2. [u \in SUBSET (1..Len(s)) |-> F(u)] = [u \in SUBSET (1..Len(s)) |-> G(u)]
        <3> HIDE DEF F, G
        <3> QED BY Zenon, <2>1
    <2> HIDE DEF g
    <2> QED BY Zenon, <1>1, <2>2 DEF Sums
<1>4. Span(s) = (CHOOSE it : Folds(it))[DOMAIN s]
    BY Zenon DEF Span, FoldLeft, MapThenFoldSet
<1> HIDE DEF Folds, g
<1>5. \E it : Folds(it)
    BY <1>1, <1>3, SumsExist
<1>6. PICK it : Folds(it) /\ Span(s) = it[DOMAIN s]
    BY Zenon, <1>4, <1>5
<1>7. Len(s) \in 0..Len(s) /\ Sums(it, g, Len(s))
    BY <1>1, <1>3, <1>6
<1>8. it[1..Len(s)] = Total(g, Len(s))
    BY <1>1, <1>7, TotalIsOf
<1> QED BY <1>1, <1>6, <1>8 DEF g

LEMMA SpanType == ASSUME NEW s \in Seq(ItemRec) PROVE Span(s) \in Nat
<1> DEFINE g == [i \in 1..Len(s) |-> 4 + s[i].len]
<1>1. \A i \in 1..Len(s) : g[i] \in Nat
    <2>1. ASSUME NEW i \in 1..Len(s) PROVE 4 + s[i].len \in Nat
        <3>1. s[i] \in ItemRec
            OBVIOUS
        <3> QED BY <3>1 DEF ItemRec
    <2> QED BY Zenon, <2>1
<1> HIDE DEF g
<1>2. Total(g, Len(s)) \in Nat
    BY <1>1, TotalType
<1> QED BY <1>2, SpanIsTotal DEF g

LEMMA SpanOfNone == Span(<<>>) = 0
<1> DEFINE none == <<>>
           g == [i \in 1..Len(none) |-> 4 + none[i].len]
<1>1. none \in Seq(ItemRec) /\ Len(none) = 0
    OBVIOUS
<1> HIDE DEF none
<1>2. Span(none) = Total(g, Len(none))
    BY Zenon, <1>1, SpanIsTotal
<1> QED BY Zenon, <1>1, <1>2, TotalOfNone DEF none

LEMMA SpanOfAppend ==
    ASSUME NEW s \in Seq(ItemRec), NEW e \in ItemRec
    PROVE  Span(Append(s, e)) = Span(s) + (4 + e.len)
<1> DEFINE t == Append(s, e)
           g == [i \in 1..Len(s) |-> 4 + s[i].len]
           h == [i \in 1..Len(t) |-> 4 + t[i].len]
<1>1. /\ t \in Seq(ItemRec) /\ Len(t) = Len(s) + 1 /\ Len(s) \in Nat
      /\ \A i \in 1..Len(s) : t[i] = s[i] /\ i \in 1..Len(t)
      /\ t[Len(s) + 1] = e /\ Len(s) + 1 \in 1..Len(t)
    OBVIOUS
<1> HIDE DEF t
<1>2. \A i \in 1..Len(s) : g[i] = h[i]
    BY Zenon, <1>1
<1>3. h[Len(s) + 1] = 4 + e.len
    BY Zenon, <1>1
<1>4. Span(s) = Total(g, Len(s)) /\ Span(t) = Total(h, Len(s) + 1)
    BY Zenon, <1>1, SpanIsTotal
<1> HIDE DEF g, h
<1>5. Total(h, Len(s) + 1) = Total(h, Len(s)) + h[Len(s) + 1]
    BY <1>1, TotalOfNext
<1>6. Total(g, Len(s)) = Total(h, Len(s))
    BY <1>1, <1>2, TotalAgrees
<1> QED BY Zenon, <1>3, <1>4, <1>5, <1>6 DEF t

(* Where contents lie: the first one behind the item count and one header, *)
(* each of the others behind the one before it and a header.               *)
LEMMA AtFirst == ASSUME NEW s \in Seq(ItemRec) PROVE At(s, 1) = 12
<1>1. SubSeq(s, 1, 1 - 1) = <<>>
    <2>1. 1 \in Int /\ 1 - 1 \in Int /\ 1 - 1 < 1
        OBVIOUS
    <2> QED BY Zenon, <2>1, SubSeqEmpty
<1>2. At(s, 1) = 12 + 0
    BY Zenon, <1>1, SpanOfNone DEF At
<1> QED BY <1>2

LEMMA AtType ==
    ASSUME NEW s \in Seq(ItemRec), NEW k \in 1..(Len(s) + 1)
    PROVE  At(s, k) \in Nat /\ At(s, k) >= 12
<1>1. SubSeq(s, 1, k - 1) \in Seq(ItemRec)
    OBVIOUS
<1>2. Span(SubSeq(s, 1, k - 1)) \in Nat
    BY <1>1, SpanType
<1> QED BY <1>2 DEF At

LEMMA AtOfNext ==
    ASSUME NEW s \in Seq(ItemRec), NEW k \in 1..Len(s)
    PROVE  At(s, k + 1) = At(s, k) + 4 + s[k].len
<1>1. SubSeq(s, 1, k - 1) \in Seq(ItemRec) /\ s[k] \in ItemRec
    OBVIOUS
<1>2. SubSeq(s, 1, k) = Append(SubSeq(s, 1, k - 1), s[k])
    <2>1. SubSeq(s, 1, k) = SubSeq(s, 1, k - 1) \o <<s[k]>>
        <3>1. 1 \in 1..Len(s) /\ k \in 1..Len(s)
            OBVIOUS
        <3> QED BY Zenon, <3>1, SubSeqRecursiveSecond
    <2> QED BY Zenon, <1>1, <2>1, AppendIsConcat
<1>3. Span(SubSeq(s, 1, k)) = Span(SubSeq(s, 1, k - 1)) + (4 + s[k].len)
    BY <1>1, <1>2, SpanOfAppend
<1>4. Span(SubSeq(s, 1, k - 1)) \in Nat /\ s[k].len \in Nat
    BY <1>1, SpanType DEF ItemRec
<1>5. (k + 1) - 1 = k
    OBVIOUS
<1> QED BY <1>3, <1>4, <1>5 DEF At

LEMMA AtOfAppend ==
    ASSUME NEW s \in Seq(ItemRec), NEW e \in ItemRec, NEW k \in 1..(Len(s) + 1)
    PROVE  At(Append(s, e), k) = At(s, k)
<1>1. SubSeq(Append(s, e), 1, k - 1) = SubSeq(s, 1, k - 1)
    OBVIOUS
<1> QED BY <1>1 DEF At
-----------------------------------------------------------------------------
ReplyTypeOK ==
    /\ receiver \in {"none", "message", "connection"}
    /\ verdict \in {"none", "parsing", "Error", "Ok", "used"}
    /\ bodyLen \in 0..(SizeMod - 1) /\ itemCount \in Nat /\ items \in Seq(ItemRec)
    /\ p \in Nat /\ remaining \in Nat /\ found \in SpanRec /\ haveId \in BOOLEAN
    /\ genuine \in BOOLEAN /\ addWords \in Nat /\ dataSpan \in SpanRec /\ reach \in Nat

(* The items that were walked: all of them lie in the body, the last one   *)
(* of the type that is waited for was found, and whether there is an id.   *)
ItemsWhole ==
    \A k \in 1..Len(items) : ContentAt(k) + items[k].len <= bodyLen /\ IdWhole(k)

FoundLast ==
    \/ found = NoSpan /\ \A k \in 1..Len(items) : items[k].type # "data"
    \/ \E k \in 1..Len(items) :
          DataItem(k) /\ found = [at |-> ContentAt(k), len |-> items[k].len]

IdSeen == haveId <=> \E k \in 1..Len(items) : items[k].type = "id"

Walk ==
    /\ Len(items) <= itemCount
    /\ p = ContentAt(Len(items) + 1) - 4 /\ p + remaining = bodyLen
    /\ ItemsWhole /\ FoundLast /\ IdSeen

(* What was split of the reply lies within the item that was found.        *)
Split ==
    /\ 8 <= bodyLen /\ FoundLast /\ found.len >= 4 /\ found.at + found.len <= bodyLen
    /\ dataSpan.at + dataSpan.len = found.at + found.len
    /\ receiver = "message" => 4 + 2 * addWords <= found.len

ReplyInv ==
    /\ ReplyTypeOK /\ reach <= bodyLen
    /\ verdict = "none" =>
         /\ items = <<>> /\ found = NoSpan /\ ~haveId
         /\ addWords = 0 /\ dataSpan = NoSpan /\ reach = 0
    /\ verdict = "parsing" =>
         /\ receiver # "none" /\ addWords = 0
         /\ bodyLen >= 8 => Walk
    /\ verdict = "Error" => ~WellFormed
    /\ verdict \in {"Ok", "used"} =>
         receiver # "none" /\ Split /\ WellFormed /\ DataIsOfReply

(* What the parser subtracts is never more than it subtracts it from.      *)
LEMMA MinusExact ==
    ASSUME NEW a \in 0..(SizeMod - 1), NEW b \in 0..a
    PROVE  Minus(a, b) = a - b
<1>1. a - b \in 0..(SizeMod - 1)
    BY ReplyAssumption
<1> QED BY <1>1, ReplyAssumption DEF Minus

LEMMA MinusType == ASSUME NEW a \in Int, NEW b \in Int PROVE Minus(a, b) \in Nat
BY ReplyAssumption DEF Minus

LEMMA ItemType ==
    ASSUME ReplyTypeOK, NEW k \in 1..Len(items)
    PROVE  items[k] \in ItemRec /\ items[k].len \in Nat /\ ContentAt(k) \in Nat
<1>1. items \in Seq(ItemRec) /\ k \in 1..(Len(items) + 1)
    BY DEF ReplyTypeOK
<1>2. At(items, k) \in Nat
    BY <1>1, AtType
<1>3. ContentAt(k) \in Nat
    BY Zenon, <1>2 DEF ContentAt, At
<1>4. items[k] \in ItemRec
    BY <1>1
<1> QED BY <1>3, <1>4 DEF ItemRec

(* Only one item is the last of its type.                                  *)
LEMMA FoundOnly ==
    ASSUME ReplyTypeOK, FoundLast, NEW k \in 1..Len(items), DataItem(k)
    PROVE  found = [at |-> ContentAt(k), len |-> items[k].len]
<1>1. PICK j \in 1..Len(items) :
         DataItem(j) /\ found = [at |-> ContentAt(j), len |-> items[j].len]
    <2>1. items[k].type = "data"
        BY Zenon DEF DataItem
    <2> QED BY Zenon, <2>1 DEF FoundLast
<1>2. j = k
    BY <1>1 DEF DataItem
<1> QED BY <1>1, <1>2

(* A parser is called, once (ExplicitMessage.cpp:211, Connection.cpp:354). *)
LEMMA ParseKeeps ==
    ASSUME ReplyInv, NEW by \in {"message", "connection"}, Parse(by)
    PROVE  ReplyInv'
<1> USE DEF ReplyInv, Parse, ReplyTypeOK
<1>1. /\ verdict = "none" /\ verdict' = "parsing" /\ receiver' = by /\ genuine' \in BOOLEAN
      /\ bodyLen' \in 0..(SizeMod - 1) /\ itemCount' \in Nat
      /\ items' = <<>> /\ found' = NoSpan /\ ~haveId' /\ addWords' = 0 /\ dataSpan' = NoSpan
    BY ReplyAssumption
<1>2. p' = 8 /\ p' \in Nat /\ remaining' \in Nat /\ (bodyLen' >= 8 => remaining' = bodyLen' - 8)
    <2>1. remaining' = Minus(bodyLen', 8)
        OBVIOUS
    <2>2. bodyLen' >= 8 => 8 \in 0..bodyLen'
        BY <1>1
    <2>3. bodyLen' >= 8 => Minus(bodyLen', 8) = bodyLen' - 8
        BY <1>1, <2>2, MinusExact
    <2>4. Minus(bodyLen', 8) \in Nat
        <3>1. bodyLen' \in Int /\ 8 \in Int
            BY <1>1
        <3> QED BY Zenon, <3>1, MinusType
    <2>5. p' = 8
        OBVIOUS
    <2> QED BY <2>1, <2>3, <2>4, <2>5
<1>3. ReplyTypeOK'
    BY <1>1, <1>2
<1>4. bodyLen' >= 8 => Walk'
    <2>1. Len(items') = 0
        BY <1>1
    <2>2. At(<<>>, 1) = 12
        BY AtFirst, EmptySeq
    <2>3. ContentAt(Len(items) + 1)' = 12
        BY <1>1, <2>1, <2>2 DEF ContentAt, At
    <2> QED BY <1>1, <1>2, <2>1, <2>3 DEF Walk, ItemsWhole, FoundLast, IdSeen
<1>5. reach' <= bodyLen'
    <2>1. reach' = 0
        BY <1>1
    <2> QED BY <1>1, <2>1
<1> QED BY <1>1, <1>3, <1>4, <1>5

(* One round of the loop keeps what was walked, or ends it with an item    *)
(* that is not whole (ExplicitMessage.cpp:229-250, Connection.cpp:380-409).*)
LEMMA ItemKeeps ==
    ASSUME ReplyInv, NEW type \in {"other", "id", "data"}, NEW len \in ItemLens, Item(type, len)
    PROVE  ReplyInv'
<1> DEFINE e == [type |-> type, len |-> len]
           bad == TooLong(len) \/ (receiver = "connection" /\ type = "id" /\ len < 4)
<1>0. PICK n \in Nat : n = Len(items)
    BY DEF ReplyInv, ReplyTypeOK
<1>1. /\ ReplyTypeOK /\ verdict = "parsing" /\ bodyLen >= 8 /\ n < itemCount /\ remaining >= 4
      /\ items' = Append(items, e) /\ Walk /\ receiver # "none" /\ addWords = 0
      /\ reach <= bodyLen
      /\ UNCHANGED <<receiver, bodyLen, itemCount, genuine, addWords, dataSpan>>
    BY <1>0 DEF ReplyInv, Item, Verdict, input
<1>2. /\ items \in Seq(ItemRec) /\ e \in ItemRec /\ len \in Nat
      /\ n \in Nat /\ n = Len(items) /\ p \in Nat /\ remaining \in Nat /\ reach \in Nat
      /\ bodyLen \in 0..(SizeMod - 1) /\ itemCount \in Nat
    BY <1>0, <1>1, ReplyAssumption DEF ReplyTypeOK, ItemRec
<1>3. /\ items' \in Seq(ItemRec) /\ Len(items') = n + 1 /\ items'[n + 1] = e
      /\ \A k \in 1..n : items'[k] = items[k]
    BY <1>1, <1>2
<1>4. \A k \in 1..(n + 1) : At(items', k) = At(items, k)
    BY Zenon, <1>1, <1>2, AtOfAppend
<1>5. At(items', n + 2) = At(items, n + 1) + 4 + len
    <2>1. n + 1 \in 1..Len(items')
        BY <1>2, <1>3
    <2>2. At(items', (n + 1) + 1) = At(items', n + 1) + 4 + items'[n + 1].len
        BY Zenon, <1>3, <2>1, AtOfNext
    <2>3. At(items', n + 1) = At(items, n + 1) /\ (n + 1) + 1 = n + 2
        BY <1>2, <1>4
    <2> QED BY <1>3, <2>2, <2>3
<1>6. /\ p = At(items, n + 1) - 4 /\ p + remaining = bodyLen /\ remaining <= bodyLen
    <2>1. p = ContentAt(n + 1) - 4 /\ p + remaining = bodyLen
        BY <1>1, <1>2 DEF Walk
    <2> QED BY <1>2, <2>1 DEF ContentAt, At
<1>7. At(items, n + 1) \in Nat
    BY <1>2, AtType
<1>8. Minus(remaining, 4) = remaining - 4
    <2>1. remaining \in 0..(SizeMod - 1) /\ 4 \in 0..remaining
        BY <1>1, <1>2, <1>6, ReplyAssumption
    <2> QED BY Zenon, <2>1, MinusExact
<1>9. TooLong(len) <=> len > remaining - 4
    BY <1>8 DEF TooLong
<1>10. \A k \in 1..(n + 2) : ContentAt(k)' = At(items', k)
    BY DEF ContentAt, At
<1>11. \A k \in 1..(n + 1) : ContentAt(k)' = ContentAt(k)
    BY <1>4, <1>10 DEF ContentAt, At
<1> HIDE DEF e
<1>12. CASE bad
    <2>1. /\ verdict' = "Error" /\ reach' = IF p + 4 > reach THEN p + 4 ELSE reach
          /\ UNCHANGED <<p, remaining, found, haveId>>
        BY <1>12 DEF Item, Verdict, Reaches
    <2>2. ReplyTypeOK'
        BY <1>1, <1>2, <1>3, <2>1 DEF ReplyTypeOK
    <2>3. reach' <= bodyLen'
        BY <1>1, <1>2, <1>6, <2>1
    <2>4. ~WellFormed'
        <3> SUFFICES ASSUME WellFormed' PROVE FALSE
            OBVIOUS
        <3>1. n + 1 \in 1..Len(items')
            BY <1>2, <1>3
        <3>2. (ContentAt(n + 1) + items[n + 1].len <= bodyLen)' /\ IdWhole(n + 1)'
            BY Zenon, <3>1 DEF WellFormed
        <3>3. items'[n + 1].len = len /\ items'[n + 1].type = type
            BY <1>3 DEF e
        <3>4. ~TooLong(len)
            <4>1. ContentAt(n + 1)' = At(items, n + 1)
                BY <1>2, <1>4, <1>10
            <4> QED BY <1>1, <1>2, <1>6, <1>7, <1>9, <3>2, <3>3, <4>1
        <3>5. ~(receiver = "connection" /\ type = "id" /\ len < 4)
            BY <1>1, <1>2, <3>2, <3>3 DEF IdWhole
        <3> QED BY <1>12, <3>4, <3>5
    <2> QED BY <2>1, <2>2, <2>3, <2>4 DEF ReplyInv
<1>13. CASE ~bad
    <2>1. /\ verdict' = "parsing"
          /\ found' = IF type = "data" THEN [at |-> p + 4, len |-> len] ELSE found
          /\ haveId' = (haveId \/ type = "id")
          /\ p' = p + 4 + len /\ remaining' = Minus(remaining, 4 + len)
          /\ reach' = LET r == IF receiver = "connection" /\ type = "id" THEN p + 8 ELSE p + 4
                      IN  IF r > reach THEN r ELSE reach
        BY <1>1, <1>13 DEF Item, Reaches
    <2>2. len <= remaining - 4 /\ (receiver = "connection" /\ type = "id" => len >= 4)
        BY <1>2, <1>9, <1>13
    <2>3. remaining' = remaining - (4 + len) /\ remaining' \in Nat
        <3>1. remaining \in 0..(SizeMod - 1) /\ 4 + len \in 0..remaining
            BY <1>1, <1>2, <1>6, <2>2, ReplyAssumption
        <3>2. Minus(remaining, 4 + len) = remaining - (4 + len)
            BY Zenon, <3>1, MinusExact
        <3> QED BY <1>2, <2>1, <3>1, <3>2
    <2>4. reach' <= bodyLen' /\ reach' \in Nat
        <3>1. p + 4 <= bodyLen /\ p + 4 \in Nat /\ p + 8 \in Nat
            BY <1>1, <1>2, <1>6
        <3>2. receiver = "connection" /\ type = "id" => p + 8 <= bodyLen
            BY <1>2, <1>6, <2>2
        <3>3. reach' \in {p + 4, p + 8, reach} /\ (reach' = p + 8 => p + 8 <= bodyLen)
            BY <1>1, <1>2, <2>1, <3>1, <3>2
        <3> QED BY <1>1, <1>2, <3>1, <3>3
    <2>5. ReplyTypeOK'
        <3>1. found' \in SpanRec
            BY <1>1, <1>2, <2>1 DEF ReplyTypeOK, SpanRec
        <3> QED BY <1>1, <1>2, <1>3, <2>1, <2>3, <2>4, <3>1 DEF ReplyTypeOK
    <2>6. Walk'
        <3>1. (Len(items) <= itemCount)'
            BY <1>1, <1>2, <1>3
        <3>2. (p = ContentAt(Len(items) + 1) - 4)' /\ (p + remaining = bodyLen)'
            <4>1. ContentAt(Len(items) + 1)' = At(items, n + 1) + 4 + len
                <5>1. Len(items') + 1 = n + 2 /\ n + 2 \in 1..(n + 2)
                    BY <1>2, <1>3
                <5> QED BY Zenon, <1>5, <5>1 DEF ContentAt, At
            <4>2. p' = ContentAt(Len(items) + 1)' - 4
                BY <1>2, <1>6, <1>7, <2>1, <4>1
            <4>3. p' + remaining' = bodyLen'
                BY <1>1, <1>2, <1>6, <2>1, <2>3
            <4> QED BY Zenon, <4>2, <4>3
        <3>3. ItemsWhole'
            <4> SUFFICES ASSUME NEW k \in 1..(n + 1)
                         PROVE  ContentAt(k)' + items'[k].len <= bodyLen' /\ IdWhole(k)'
                BY <1>3 DEF ItemsWhole
            <4>1. CASE k \in 1..n
                <5>1. ContentAt(k) + items[k].len <= bodyLen /\ IdWhole(k)
                    BY <1>1, <1>2, <4>1 DEF Walk, ItemsWhole
                <5> QED BY <1>1, <1>3, <1>11, <4>1, <5>1 DEF IdWhole
            <4>2. CASE k = n + 1
                <5>1. items'[k].len = len /\ items'[k].type = type
                    BY <1>3, <4>2 DEF e
                <5>2. ContentAt(k)' = At(items, n + 1)
                    BY <1>2, <1>4, <1>10, <4>2
                <5> QED BY <1>1, <1>2, <1>6, <1>7, <2>2, <5>1, <5>2 DEF IdWhole
            <4> QED BY <1>2, <4>1, <4>2
        <3>4. FoundLast'
            <4>1. CASE type = "data"
                <5>1. found' = [at |-> ContentAt(n + 1)', len |-> items'[n + 1].len]
                    <6>1. ContentAt(n + 1)' = p + 4
                        BY <1>2, <1>4, <1>6, <1>7, <1>10
                    <6> QED BY <1>3, <2>1, <4>1, <6>1 DEF e
                <5>2. DataItem(n + 1)' /\ n + 1 \in 1..Len(items')
                    BY <1>2, <1>3, <4>1 DEF DataItem, e
                <5> QED BY Zenon, <5>1, <5>2 DEF FoundLast
            <4>2. CASE type # "data"
                <5>1. found' = found /\ items'[n + 1].type # "data"
                    BY <1>3, <2>1, <4>2 DEF e
                <5>2. CASE found = NoSpan /\ \A k \in 1..n : items[k].type # "data"
                    <6>1. \A k \in 1..(n + 1) : items'[k].type # "data"
                        BY <1>2, <1>3, <5>1, <5>2
                    <6> QED BY <1>3, <5>1, <5>2, <6>1 DEF FoundLast, NoSpan
                <5>3. CASE \E k \in 1..n :
                              DataItem(k) /\ found = [at |-> ContentAt(k), len |-> items[k].len]
                    <6>1. PICK k \in 1..n :
                              DataItem(k) /\ found = [at |-> ContentAt(k), len |-> items[k].len]
                        BY <5>3
                    <6>2. k \in 1..Len(items') /\ k \in 1..(n + 1)
                        BY <1>2, <1>3
                    <6>3. found' = [at |-> ContentAt(k)', len |-> items'[k].len]
                        BY Zenon, <1>3, <1>11, <5>1, <6>1, <6>2
                    <6>4. DataItem(k)'
                        BY <1>2, <1>3, <5>1, <6>1 DEF DataItem
                    <6> QED BY Zenon, <6>2, <6>3, <6>4 DEF FoundLast
                <5> QED BY <1>1, <1>2, <5>2, <5>3 DEF Walk, FoundLast
            <4> QED BY <4>1, <4>2
        <3>5. IdSeen'
            <4>1. items'[n + 1].type = type
                BY <1>3 DEF e
            <4>2. haveId <=> \E k \in 1..n : items[k].type = "id"
                BY <1>1, <1>2 DEF Walk, IdSeen
            <4>3. (\E k \in 1..(n + 1) : items'[k].type = "id")
                     <=> (type = "id" \/ \E k \in 1..n : items[k].type = "id")
                BY <1>2, <1>3, <4>1
            <4> QED BY <1>3, <2>1, <4>2, <4>3 DEF IdSeen
        <3> QED BY <3>1, <3>2, <3>3, <3>4, <3>5 DEF Walk
    <2> QED BY <1>1, <2>1, <2>4, <2>5, <2>6 DEF ReplyInv
<1> QED BY <1>12, <1>13

(* The other steps leave the items alone, and all that is said of them.    *)
LEMMA SameItems ==
    ASSUME UNCHANGED <<receiver, bodyLen, itemCount, items, genuine>>
    PROVE  /\ \A k : ContentAt(k)' = ContentAt(k)
           /\ \A k : DataItem(k)' <=> DataItem(k)
           /\ WellFormed' <=> WellFormed
           /\ ItemsWhole' <=> ItemsWhole
<1>1. \A k : ContentAt(k)' = ContentAt(k)
    BY DEF ContentAt
<1>2. \A k : (DataItem(k)' <=> DataItem(k)) /\ (IdWhole(k)' <=> IdWhole(k))
    BY DEF DataItem, IdWhole
<1>3. WellFormed' <=> WellFormed
    BY Zenon, <1>1, <1>2 DEF WellFormed
<1>4. ItemsWhole' <=> ItemsWhole
    BY Zenon, <1>1, <1>2 DEF ItemsWhole
<1> QED BY <1>1, <1>2, <1>3, <1>4

LEMMA SameFound ==
    ASSUME UNCHANGED <<items, found>>
    PROVE  FoundLast' <=> FoundLast
<1>1. \A k : ContentAt(k)' = ContentAt(k)
    BY DEF ContentAt
<1>2. \A k : DataItem(k)' <=> DataItem(k)
    BY DEF DataItem
<1> QED BY Zenon, <1>1, <1>2 DEF FoundLast

LEMMA SameReply ==
    ASSUME ReplyInv, UNCHANGED replyVars
    PROVE  ReplyInv'
<1>1. UNCHANGED <<receiver, bodyLen, itemCount, items, p, remaining, found, haveId,
                  verdict, genuine, addWords, dataSpan, reach>>
    BY DEF replyVars, input
<1>2. ReplyTypeOK' /\ reach' <= bodyLen'
    BY <1>1 DEF ReplyInv, ReplyTypeOK
<1>3. /\ \A k : ContentAt(k)' = ContentAt(k)
      /\ \A k : DataItem(k)' <=> DataItem(k)
      /\ WellFormed' <=> WellFormed
      /\ ItemsWhole' <=> ItemsWhole
    BY <1>1, SameItems
<1>4. FoundLast' <=> FoundLast
    BY <1>1, SameFound
<1>5. Split' <=> Split
    BY <1>1, <1>4 DEF Split
<1>6. IdSeen' <=> IdSeen
    BY <1>1 DEF IdSeen
<1>7. p = ContentAt(Len(items) + 1) - 4 => p' = ContentAt(Len(items) + 1)' - 4
    BY <1>1 DEF ContentAt
<1>8. Walk => Walk'
    BY <1>1, <1>3, <1>4, <1>6, <1>7 DEF Walk
<1>9. DataIsOfReply => DataIsOfReply'
    BY <1>1 DEF DataIsOfReply, ContentAt, DataItem
<1>10. /\ verdict = "none" =>
            /\ items = <<>> /\ found = NoSpan /\ ~haveId
            /\ addWords = 0 /\ dataSpan = NoSpan /\ reach = 0
       /\ verdict = "parsing" =>
            /\ receiver # "none" /\ addWords = 0
            /\ bodyLen >= 8 => Walk
       /\ verdict = "Error" => ~WellFormed
       /\ verdict \in {"Ok", "used"} =>
            receiver # "none" /\ Split /\ WellFormed /\ DataIsOfReply
    BY Zenon DEF ReplyInv
<1> QED BY <1>1, <1>2, <1>3, <1>5, <1>8, <1>9, <1>10 DEF ReplyInv

(* A response that is cut off, or has fewer items than it says, is an      *)
(* error (ExplicitMessage.cpp:221-233, Connection.cpp:371-384).            *)
LEMMA CutOffKeeps ==
    ASSUME ReplyInv, TooShort \/ NoHeader
    PROVE  ReplyInv'
<1>1. /\ UNCHANGED <<receiver, bodyLen, itemCount, items, p, remaining, found, haveId,
                     genuine, addWords, dataSpan, reach>>
      /\ verdict' = "Error"
    BY DEF TooShort, NoHeader, Verdict, input
<1>2. ~WellFormed
    BY DEF TooShort, NoHeader, WellFormed, ReplyInv, ReplyTypeOK
<1>3. ~WellFormed'
    BY <1>1, <1>2, SameItems
<1>4. ReplyTypeOK' /\ reach' <= bodyLen'
    BY <1>1 DEF ReplyInv, ReplyTypeOK
<1> QED BY <1>1, <1>3, <1>4 DEF ReplyInv

(* Of a response that was walked, the item that was found is the one that  *)
(* the reply is looked for in.                                             *)
LEMMA WalkedFinds ==
    ASSUME ReplyInv, Walked
    PROVE  /\ ReplyTypeOK /\ FoundLast /\ IdSeen /\ ItemsWhole
           /\ bodyLen >= 8 /\ receiver # "none" /\ addWords = 0
           /\ Len(items) = itemCount /\ found \in SpanRec
           /\ found.len > 0 => found.at + found.len <= bodyLen
           /\ WellFormed <=>
                 /\ found.len >= IF receiver = "message" THEN 4 ELSE 6
                 /\ receiver = "connection" => genuine /\ haveId
<1>1. /\ ReplyTypeOK /\ FoundLast /\ IdSeen /\ ItemsWhole
      /\ bodyLen >= 8 /\ receiver # "none" /\ addWords = 0
      /\ Len(items) = itemCount /\ found \in SpanRec
    BY DEF ReplyInv, Walked, Walk, ReplyTypeOK
<1> DEFINE least == IF receiver = "message" THEN 4 ELSE 6
<1>2. ASSUME found.len > 0
      PROVE  \E k \in 1..Len(items) :
                DataItem(k) /\ found = [at |-> ContentAt(k), len |-> items[k].len]
    BY <1>1, <1>2 DEF FoundLast, NoSpan
<1>3. ASSUME found.len > 0 PROVE found.at + found.len <= bodyLen
    <2>1. PICK k \in 1..Len(items) :
             found = [at |-> ContentAt(k), len |-> items[k].len]
        BY <1>2, <1>3
    <2> QED BY <1>1, <2>1 DEF ItemsWhole
<1>4. (\E k \in 1..Len(items) : DataItem(k) /\ items[k].len >= least) <=> found.len >= least
    <2>1. ASSUME NEW k \in 1..Len(items), DataItem(k), items[k].len >= least
          PROVE  found.len >= least
        <3>1. found.len = items[k].len
            BY <1>1, <2>1, FoundOnly
        <3> QED BY <2>1, <3>1
    <2>2. ASSUME found.len >= least
          PROVE  \E k \in 1..Len(items) : DataItem(k) /\ items[k].len >= least
        <3>1. found.len > 0
            BY <1>1, <2>2 DEF SpanRec
        <3> QED BY <1>2, <2>2, <3>1
    <2> QED BY <2>1, <2>2
<1>5. WellFormed <=> /\ found.len >= least
                     /\ receiver = "connection" => genuine /\ haveId
    BY <1>1, <1>4 DEF WellFormed, ItemsWhole, IdSeen
<1> QED BY <1>1, <1>3, <1>5

(* The status words that are left are those that fit, but for an odd byte  *)
(* (ExplicitMessage.cpp:259-266).                                          *)
LEMMA StatusFits ==
    ASSUME NEW left \in Nat, NEW words \in Nat, NEW add, NEW n,
           add = IF 2 * words > left THEN left ELSE 2 * words,
           n = IF 2 * words > left THEN add \div 2 ELSE words
    PROVE  /\ add \in 0..left /\ n \in Nat /\ 2 * n <= left
           /\ add - 2 * n \in {0, 1} /\ (left - add > 0 => add = 2 * n)
<1>1. CASE 2 * words > left
    <2>1. add = left /\ n = left \div 2
        BY <1>1
    <2> QED BY <1>1, <2>1
<1>2. CASE ~(2 * words > left)
    BY <1>2
<1> QED BY <1>1, <1>2

(* What is handed out of a message's response                              *)
(* (ExplicitMessage.cpp:251-275).                                          *)
LEMMA MessageDoneKeeps ==
    ASSUME ReplyInv, NEW words \in StatusSizes, MessageDone(words)
    PROVE  ReplyInv'
<1>1. /\ Walked /\ receiver = "message"
      /\ UNCHANGED <<receiver, bodyLen, itemCount, items, p, remaining, found, haveId, genuine>>
    BY DEF MessageDone, Verdict, input
<1>2. /\ ReplyTypeOK /\ FoundLast /\ bodyLen >= 8 /\ found \in SpanRec
      /\ found.len > 0 => found.at + found.len <= bodyLen
      /\ WellFormed <=> found.len >= 4
    BY <1>1, WalkedFinds
<1>3. /\ found.at \in Nat /\ found.len \in Nat /\ bodyLen \in 0..(SizeMod - 1) /\ reach \in Nat
      /\ reach <= bodyLen
    BY <1>2 DEF SpanRec, ReplyTypeOK, ReplyInv
<1>4. /\ \A k : ContentAt(k)' = ContentAt(k)
      /\ \A k : DataItem(k)' <=> DataItem(k)
      /\ WellFormed' <=> WellFormed
    BY <1>1, SameItems
<1>5. CASE found.len < 4
    <2>1. verdict' = "Error" /\ UNCHANGED <<reach, addWords, dataSpan>>
        BY <1>1, <1>5 DEF MessageDone, Verdict
    <2>2. ReplyTypeOK' /\ reach' <= bodyLen'
        BY <1>1, <1>2, <1>3, <2>1 DEF ReplyTypeOK
    <2>3. ~WellFormed'
        BY <1>2, <1>3, <1>4, <1>5
    <2> QED BY <2>1, <2>2, <2>3 DEF ReplyInv
<1>6. CASE ~(found.len < 4)
    <2>1. PICK left \in Nat : left = found.len - 4 /\ Minus(found.len, 4) = left
        <3>1. found.len \in 0..(SizeMod - 1) /\ 4 \in 0..found.len /\ found.len - 4 \in Nat
            BY <1>2, <1>3, <1>6, ReplyAssumption
        <3>2. Minus(found.len, 4) = found.len - 4
            BY Zenon, <3>1, MinusExact
        <3> QED BY Zenon, <3>1, <3>2
    <2>2. PICK add, n : /\ add = IF 2 * words > left THEN left ELSE 2 * words
                        /\ n = IF 2 * words > left THEN add \div 2 ELSE words
        OBVIOUS
    <2>3. /\ verdict' = "Ok" /\ addWords' = n
          /\ dataSpan' = [at |-> found.at + 4 + add, len |-> left - add]
          /\ reach' = IF found.at + 4 > reach THEN found.at + 4 ELSE reach
        BY <1>6, <2>1, <2>2 DEF MessageDone, SplitReply, Reaches
    <2>4. /\ add \in 0..left /\ addWords' \in Nat /\ 2 * addWords' <= left
          /\ add - 2 * addWords' \in {0, 1} /\ (left - add > 0 => add = 2 * addWords')
        <3>1. words \in Nat
            BY ReplyAssumption
        <3>2. /\ add \in 0..left /\ n \in Nat /\ 2 * n <= left
              /\ add - 2 * n \in {0, 1} /\ (left - add > 0 => add = 2 * n)
            BY Zenon, <2>1, <2>2, <3>1, StatusFits
        <3> QED BY Zenon, <2>3, <3>2
    <2>5. dataSpan' \in SpanRec /\ reach' \in Nat /\ reach' <= bodyLen'
        BY <1>1, <1>2, <1>3, <1>6, <2>1, <2>3, <2>4 DEF SpanRec
    <2>6. ReplyTypeOK'
        BY <1>1, <1>2, <2>3, <2>4, <2>5 DEF ReplyTypeOK
    <2>7. WellFormed'
        BY <1>2, <1>3, <1>4, <1>6
    <2>8. dataSpan'.at + dataSpan'.len = found.at + found.len
        <3>1. dataSpan'.at = found.at + 4 + add /\ dataSpan'.len = left - add /\ add \in Nat
            BY <2>3, <2>4
        <3>2. (found.at + 4 + add) + (left - add) = found.at + found.len
            BY <1>3, <2>1, <3>1
        <3> QED BY Zenon, <3>1, <3>2
    <2>9. Split'
        <3>1. FoundLast'
            BY <1>1, <1>2, SameFound
        <3>2. 4 + 2 * addWords' <= found.len
            BY <1>3, <2>1, <2>4
        <3> QED BY <1>1, <1>2, <1>3, <1>6, <2>8, <3>1, <3>2 DEF Split
    <2>10. DataIsOfReply'
        <3>1. PICK k \in 1..Len(items) :
                 DataItem(k) /\ found = [at |-> ContentAt(k), len |-> items[k].len]
            BY <1>2, <1>6 DEF FoundLast, NoSpan
        <3>2. DataItem(k)' /\ k \in 1..Len(items') /\ items'[k].len = found.len
              /\ ContentAt(k)' = found.at
            BY <1>1, <1>4, <3>1
        <3>3. dataSpan'.at + dataSpan'.len = ContentAt(k)' + items'[k].len
            BY <2>8, <3>2
        <3>4. /\ dataSpan'.at - (ContentAt(k)' + 4 + 2 * addWords') \in {0, 1}
              /\ dataSpan'.len > 0 => dataSpan'.at = ContentAt(k)' + 4 + 2 * addWords'
            <4>1. /\ dataSpan'.at = found.at + 4 + add /\ dataSpan'.len = left - add
                  /\ add \in Nat /\ addWords' \in Nat
                BY <2>3, <2>4
            <4>2. /\ dataSpan'.at - (found.at + 4 + 2 * addWords') = add - 2 * addWords'
                  /\ dataSpan'.len > 0 => dataSpan'.at = found.at + 4 + 2 * addWords'
                <5>1. PICK a \in Nat, d \in Nat :
                         a = found.at /\ dataSpan'.at = a + 4 + add /\ d = addWords'
                    BY <1>3, <4>1
                <5>2. (a + 4 + add) - (a + 4 + 2 * d) = add - 2 * d
                    BY <4>1
                <5>3. dataSpan'.at - (found.at + 4 + 2 * addWords') = add - 2 * addWords'
                    BY <5>1, <5>2
                <5>4. dataSpan'.len > 0 => add = 2 * addWords'
                    BY Zenon, <2>4, <4>1
                <5> QED BY Zenon, <4>1, <5>3, <5>4
            <4> QED BY <2>4, <3>2, <4>2
        <3>5. receiver' = "message"
            BY <1>1
        <3> QED BY <3>2, <3>3, <3>4, <3>5 DEF DataIsOfReply
    <2> QED BY <1>1, <2>3, <2>5, <2>6, <2>7, <2>9, <2>10 DEF ReplyInv
<1> QED BY <1>5, <1>6

(* What is handed out of a connected response (Connection.cpp:411-430).    *)
LEMMA ConnectionDoneKeeps ==
    ASSUME ReplyInv, ConnectionDone
    PROVE  ReplyInv'
<1>1. /\ Walked /\ receiver = "connection"
      /\ UNCHANGED <<receiver, bodyLen, itemCount, items, p, remaining, found, haveId,
                     genuine, addWords>>
    BY DEF ConnectionDone, Verdict, input
<1>2. /\ ReplyTypeOK /\ FoundLast /\ bodyLen >= 8 /\ found \in SpanRec /\ addWords = 0
      /\ found.len > 0 => found.at + found.len <= bodyLen
      /\ WellFormed <=> found.len >= 6 /\ genuine /\ haveId
    BY <1>1, WalkedFinds
<1>3. /\ found.at \in Nat /\ found.len \in Nat /\ bodyLen \in 0..(SizeMod - 1) /\ reach \in Nat
      /\ reach <= bodyLen
    BY <1>2 DEF SpanRec, ReplyTypeOK, ReplyInv
<1>4. /\ \A k : ContentAt(k)' = ContentAt(k)
      /\ \A k : DataItem(k)' <=> DataItem(k)
      /\ WellFormed' <=> WellFormed
    BY <1>1, SameItems
<1>5. CASE ~haveId \/ found.len < 4 \/ ~genuine \/ found.len < 6
    <2>1. /\ verdict' = "Error" /\ UNCHANGED dataSpan
          /\ \/ reach' = reach
             \/ found.len >= 4 /\ reach' = IF found.at + 2 > reach THEN found.at + 2 ELSE reach
        BY <1>3, <1>5 DEF ConnectionDone, Verdict, TooShortConnected, Reaches
    <2>2. reach' \in Nat /\ reach' <= bodyLen'
        BY <1>1, <1>2, <1>3, <2>1
    <2>3. ReplyTypeOK'
        BY <1>1, <1>2, <2>1, <2>2 DEF ReplyTypeOK
    <2>4. ~WellFormed'
        BY <1>2, <1>3, <1>4, <1>5
    <2> QED BY <2>1, <2>2, <2>3, <2>4 DEF ReplyInv
<1>6. CASE haveId /\ genuine /\ found.len >= 6
    <2>1. Minus(found.len, 6) = found.len - 6
        <3>1. found.len \in 0..(SizeMod - 1) /\ 6 \in 0..found.len
            BY <1>2, <1>3, <1>6, ReplyAssumption
        <3> QED BY Zenon, <3>1, MinusExact
    <2>2. /\ verdict' = "Ok" /\ dataSpan' = [at |-> found.at + 6, len |-> found.len - 6]
          /\ reach' = IF found.at + 6 > reach THEN found.at + 6 ELSE reach
        <3>1. ~(~haveId \/ found.len < 4) /\ ~(~genuine \/ TooShortConnected(found.len))
            BY <1>3, <1>6 DEF TooShortConnected
        <3> QED BY <2>1, <3>1 DEF ConnectionDone, Reaches
    <2>3. dataSpan' \in SpanRec /\ reach' \in Nat /\ reach' <= bodyLen'
        BY <1>1, <1>2, <1>3, <1>6, <2>2 DEF SpanRec
    <2>4. ReplyTypeOK'
        BY <1>1, <1>2, <2>2, <2>3 DEF ReplyTypeOK
    <2>5. WellFormed'
        BY <1>2, <1>4, <1>6
    <2>6. Split'
        <3>1. FoundLast'
            BY <1>1, <1>2, SameFound
        <3> QED BY <1>1, <1>2, <1>3, <1>6, <2>2, <3>1 DEF Split
    <2>7. DataIsOfReply'
        <3>1. PICK k \in 1..Len(items) :
                 DataItem(k) /\ found = [at |-> ContentAt(k), len |-> items[k].len]
            BY <1>2, <1>6 DEF FoundLast, NoSpan
        <3>2. /\ DataItem(k)' /\ k \in 1..Len(items') /\ items'[k].len = found.len
              /\ ContentAt(k)' = found.at
            BY <1>1, <1>4, <3>1
        <3>3. /\ dataSpan'.at + dataSpan'.len = ContentAt(k)' + items'[k].len
              /\ dataSpan'.at - (ContentAt(k)' + 6 + 2 * addWords') \in {0, 1}
              /\ dataSpan'.len > 0 => dataSpan'.at = ContentAt(k)' + 6 + 2 * addWords'
            <4>1. /\ dataSpan'.at = found.at + 6 /\ dataSpan'.len = found.len - 6
                  /\ addWords' = 0
                BY <1>1, <1>2, <2>2
            <4>2. /\ dataSpan'.at + dataSpan'.len = found.at + found.len
                  /\ dataSpan'.at - (found.at + 6 + 2 * addWords') = 0
                  /\ dataSpan'.at = found.at + 6 + 2 * addWords'
                <5>1. PICK a \in Nat, l \in Nat :
                         /\ a = found.at /\ l = found.len
                         /\ dataSpan'.at = a + 6 /\ dataSpan'.len = l - 6
                    BY <1>3, <4>1
                <5>2. a + 6 + (l - 6) = a + l /\ a + 6 - (a + 6 + 2 * 0) = 0
                      /\ a + 6 = a + 6 + 2 * 0
                    OBVIOUS
                <5> QED BY <4>1, <5>1, <5>2
            <4> QED BY <3>2, <4>2
        <3>4. receiver' # "message"
            BY <1>1
        <3> QED BY <3>2, <3>3, <3>4 DEF DataIsOfReply
    <2> QED BY <1>1, <2>2, <2>3, <2>4, <2>5, <2>6, <2>7 DEF ReplyInv
<1> QED BY <1>3, <1>5, <1>6

(* What is made of it afterwards lies within it (Tag.cpp:190-214,          *)
(* Connection.cpp:235-243).                                                *)
LEMMA UsedKeeps ==
    ASSUME ReplyInv, Used
    PROVE  ReplyInv'
<1>1. /\ verdict = "Ok" /\ verdict' = "used"
      /\ UNCHANGED <<receiver, bodyLen, itemCount, items, p, remaining, found, haveId,
                     genuine, addWords, dataSpan>>
    BY DEF Used, input
<1>2. ReplyTypeOK /\ receiver # "none" /\ Split /\ WellFormed /\ DataIsOfReply /\ reach <= bodyLen
    BY <1>1 DEF ReplyInv
<1>3. /\ found.at \in Nat /\ found.len \in Nat /\ bodyLen \in Nat /\ reach \in Nat
      /\ addWords \in Nat /\ dataSpan.at \in Nat /\ dataSpan.len \in Nat
      /\ dataSpan.at + dataSpan.len <= bodyLen
      /\ receiver = "message" => found.at + 4 + 2 * addWords <= bodyLen
    BY <1>2 DEF SpanRec, ReplyTypeOK, Split
<1>4. reach' \in Nat /\ reach' <= bodyLen'
    BY <1>1, <1>2, <1>3 DEF Used, Reaches
<1>5. ReplyTypeOK'
    BY <1>1, <1>2, <1>4 DEF ReplyTypeOK
<1>6. WellFormed'
    BY <1>1, <1>2, SameItems
<1>7. Split'
    <2>1. FoundLast'
        BY <1>1, <1>2, SameFound DEF Split
    <2> QED BY <1>1, <1>2, <2>1 DEF Split
<1>8. DataIsOfReply'
    BY <1>1, <1>2 DEF DataIsOfReply, ContentAt, DataItem
<1> QED BY <1>1, <1>2, <1>4, <1>5, <1>6, <1>7, <1>8 DEF ReplyInv

LEMMA ReplyInvInit == ReplyInit => ReplyInv
<1> SUFFICES ASSUME ReplyInit PROVE ReplyInv
    OBVIOUS
<1>1. ReplyTypeOK /\ reach <= bodyLen
    <2>1. items \in Seq(ItemRec) /\ 0 \in 0..(SizeMod - 1)
        BY ReplyAssumption, EmptySeq DEF ReplyInit
    <2>2. NoSpan \in SpanRec
        BY DEF NoSpan, SpanRec
    <2>3. haveId \in BOOLEAN /\ genuine \in BOOLEAN
        BY Zenon DEF ReplyInit
    <2> QED BY <2>1, <2>2, <2>3 DEF ReplyInit, ReplyTypeOK
<1> QED BY <1>1 DEF ReplyInit, ReplyInv

LEMMA ReplyInvStep == ReplyInv /\ [Next]_vars => ReplyInv'
<1> SUFFICES ASSUME ReplyInv, [Next]_vars PROVE ReplyInv'
    OBVIOUS
<1>1. CASE UNCHANGED replyVars
    BY <1>1, SameReply
<1>2. CASE ResponseArrives
    BY <1>2, ParseKeeps DEF ResponseArrives
<1>3. CASE ReplyNext
    BY <1>3, CutOffKeeps, ItemKeeps, MessageDoneKeeps, ConnectionDoneKeeps, UsedKeeps DEF ReplyNext
<1> QED BY <1>1, <1>2, <1>3 DEF Next, vars

THEOREM ReplyInvariant == Spec => []ReplyInv
<1>1. Init => ReplyInv
    BY ReplyInvInit DEF Init
<1> QED BY <1>1, ReplyInvStep, PTL DEF Spec

(* Only bytes that were received are read or handed out.                   *)
THEOREM ReadsReceivedHolds == Spec => []ReadsReceived
<1>1. ReplyInv => ReadsReceived
    BY DEF ReplyInv, ReadsReceived
<1> QED BY <1>1, ReplyInvariant, PTL

(* The verdict is Ok on the responses that are well-formed and no others.  *)
THEOREM OkIfWellFormedHolds == Spec => []OkIfWellFormed
<1>1. ReplyInv => OkIfWellFormed
    BY DEF ReplyInv, ReplyTypeOK, OkIfWellFormed
<1> QED BY <1>1, ReplyInvariant, PTL

(* data() is the rest of the last item that was waited for, behind the     *)
(* header of the reply: for a message behind the additional status too,    *)
(* which for a connection is the beginning of data().                      *)
THEOREM DataIsOfReplyHolds == Spec => []DataIsOfReply
<1>1. ReplyInv => DataIsOfReply
    <2> SUFFICES ASSUME ReplyInv PROVE DataIsOfReply
        OBVIOUS
    <2>1. CASE verdict \in {"Ok", "used"}
        BY Zenon, <2>1 DEF ReplyInv
    <2>2. CASE verdict \notin {"Ok", "used"}
        BY Zenon, <2>2 DEF DataIsOfReply
    <2> QED BY <2>1, <2>2
<1> QED BY <1>1, ReplyInvariant, PTL
-----------------------------------------------------------------------------
(* Blocks of bytes: sequences of fields, none of them empty.               *)
Kinds  == {"number", "torn", "name", "type", "data", "parameters", "path", "command",
           "header", "interface", "id", "sequence"}
Field  == (Nat \ {0}) \X Kinds \X Nat
Blocks == Seq(Field)

LEMMA FieldType ==
    ASSUME NEW n \in Nat \ {0}, NEW what \in Kinds, NEW v \in Nat
    PROVE  <<n, what, v>> \in Field /\ <<n, what, v>>[1] = n /\ <<n, what, v>>[3] = v
BY DEF Field

LEMMA SizeIsTotal ==
    ASSUME NEW b \in Blocks
    PROVE  Size(b) = Total([i \in 1..Len(b) |-> b[i][1]], Len(b))
<1> DEFINE g == [i \in 1..Len(b) |-> b[i][1]]
           Folds(it) == it = [u \in SUBSET (DOMAIN b) |->
                                IF u = {} THEN 0 ELSE it[u \ {Max(u)}] + b[Max(u)][1]]
<1>1. DOMAIN b = 1..Len(b) /\ Len(b) \in Nat
    BY DEF Blocks
<1>2. ASSUME NEW u \in SUBSET (1..Len(b)), u # {} PROVE g[Max(u)] = b[Max(u)][1]
    <2>1. Max(u) \in 1..Len(b)
        BY <1>1, <1>2, MaxOfPositions
    <2> QED BY Zenon, <2>1
<1>3. ASSUME NEW it
      PROVE  Folds(it) <=> Sums(it, g, Len(b))
    <2> DEFINE F(u) == IF u = {} THEN 0 ELSE it[u \ {Max(u)}] + b[Max(u)][1]
               G(u) == IF u = {} THEN 0 ELSE it[u \ {Max(u)}] + g[Max(u)]
    <2>1. \A u \in SUBSET (1..Len(b)) : F(u) = G(u)
        <3> HIDE DEF g
        <3> QED BY Zenon, <1>2
    <2>2. [u \in SUBSET (1..Len(b)) |-> F(u)] = [u \in SUBSET (1..Len(b)) |-> G(u)]
        <3> HIDE DEF F, G
        <3> QED BY Zenon, <2>1
    <2> HIDE DEF g
    <2> QED BY Zenon, <1>1, <2>2 DEF Sums
<1>4. Size(b) = (CHOOSE it : Folds(it))[DOMAIN b]
    BY Zenon DEF Size, FoldLeft, MapThenFoldSet
<1> HIDE DEF Folds, g
<1>5. \E it : Folds(it)
    BY <1>1, <1>3, SumsExist
<1>6. PICK it : Folds(it) /\ Size(b) = it[DOMAIN b]
    BY Zenon, <1>4, <1>5
<1>7. Len(b) \in 0..Len(b) /\ Sums(it, g, Len(b))
    BY <1>1, <1>3, <1>6
<1>8. it[1..Len(b)] = Total(g, Len(b))
    BY <1>1, <1>7, TotalIsOf
<1> QED BY <1>1, <1>6, <1>8 DEF g

LEMMA SizeType == ASSUME NEW b \in Blocks PROVE Size(b) \in Nat
<1> DEFINE g == [i \in 1..Len(b) |-> b[i][1]]
<1>1. Len(b) \in Nat /\ \A i \in 1..Len(b) : b[i][1] \in Nat
    <2>1. ASSUME NEW i \in 1..Len(b) PROVE b[i][1] \in Nat
        <3>1. b[i] \in Field
            BY DEF Blocks
        <3> QED BY <3>1 DEF Field
    <2> QED BY <2>1 DEF Blocks
<1>2. \A i \in 1..Len(b) : g[i] \in Nat
    BY Zenon, <1>1
<1> HIDE DEF g
<1>3. Total(g, Len(b)) \in Nat
    BY <1>1, <1>2, TotalType
<1> QED BY <1>3, SizeIsTotal DEF g

LEMMA SizeOfNone == <<>> \in Blocks /\ Size(<<>>) = 0
<1> DEFINE none == <<>>
           g == [i \in 1..Len(none) |-> none[i][1]]
<1>1. none \in Blocks /\ Len(none) = 0
    BY DEF Blocks
<1> HIDE DEF none
<1>2. Size(none) = Total(g, Len(none))
    BY Zenon, <1>1, SizeIsTotal
<1> QED BY Zenon, <1>1, <1>2, TotalOfNone DEF none

LEMMA SizeOfAppend ==
    ASSUME NEW b \in Blocks, NEW f \in Field
    PROVE  Append(b, f) \in Blocks /\ Size(Append(b, f)) = Size(b) + f[1]
<1> DEFINE t == Append(b, f)
           g == [i \in 1..Len(b) |-> b[i][1]]
           h == [i \in 1..Len(t) |-> t[i][1]]
<1>1. /\ t \in Blocks /\ Len(t) = Len(b) + 1 /\ Len(b) \in Nat
      /\ \A i \in 1..Len(b) : t[i] = b[i] /\ i \in 1..Len(t)
      /\ t[Len(b) + 1] = f /\ Len(b) + 1 \in 1..Len(t)
    BY DEF Blocks
<1> HIDE DEF t
<1>2. \A i \in 1..Len(b) : g[i] = h[i]
    BY Zenon, <1>1
<1>3. h[Len(b) + 1] = f[1]
    BY Zenon, <1>1
<1>4. Size(b) = Total(g, Len(b)) /\ Size(t) = Total(h, Len(b) + 1)
    BY Zenon, <1>1, SizeIsTotal
<1> HIDE DEF g, h
<1>5. Total(h, Len(b) + 1) = Total(h, Len(b)) + h[Len(b) + 1]
    BY <1>1, TotalOfNext
<1>6. Total(g, Len(b)) = Total(h, Len(b))
    BY <1>1, <1>2, TotalAgrees
<1> QED BY Zenon, <1>1, <1>3, <1>4, <1>5, <1>6 DEF t

LEMMA SizeOfOne == ASSUME NEW f \in Field PROVE <<f>> \in Blocks /\ Size(<<f>>) = f[1]
<1>1. <<>> \in Blocks /\ Append(<<>>, f) = <<f>> /\ f[1] \in Nat
    BY SizeOfNone DEF Blocks, Field
<1>2. Append(<<>>, f) \in Blocks /\ Size(Append(<<>>, f)) = Size(<<>>) + f[1]
    BY <1>1, SizeOfAppend
<1> QED BY <1>1, <1>2, SizeOfNone

LEMMA BlocksAssociate ==
    ASSUME NEW a \in Blocks, NEW b \in Blocks, NEW c \in Blocks
    PROVE  a \o (b \o c) = (a \o b) \o c
<1>1. a \in Seq(Field) /\ b \in Seq(Field) /\ c \in Seq(Field)
    BY DEF Blocks
<1> QED BY <1>1, ConcatAssociative

(* Two blocks one after the other.                                         *)
LEMMA SizeOfConcat ==
    ASSUME NEW a \in Blocks, NEW b \in Blocks
    PROVE  a \o b \in Blocks /\ Size(a \o b) = Size(a) + Size(b)
<1> DEFINE S == {n \in Nat : \A c \in Blocks : Len(c) = n => Size(a \o c) = Size(a) + Size(c)}
<1>1. 0 \in S
    <2> SUFFICES ASSUME NEW c \in Blocks, Len(c) = 0 PROVE Size(a \o c) = Size(a) + Size(c)
        OBVIOUS
    <2>1. c = <<>> /\ a \o c = a
        BY ConcatEmptySeq, EmptySeq DEF Blocks
    <2>2. Size(a) \in Nat
        BY SizeType
    <2> QED BY <2>1, <2>2, SizeOfNone
<1>2. ASSUME NEW n \in Nat, n \in S PROVE n + 1 \in S
    <2> SUFFICES ASSUME NEW c \in Blocks, Len(c) = n + 1 PROVE Size(a \o c) = Size(a) + Size(c)
        OBVIOUS
    <2> DEFINE d == SubSeq(c, 1, n)
               f == c[n + 1]
    <2>1. d \in Blocks /\ Len(d) = n /\ f \in Field
        BY DEF Blocks
    <2>2. c = Append(d, f)
        BY DEF Blocks
    <2>3. a \o c = Append(a \o d, f)
        <3> HIDE DEF d, f
        <3>1. c = d \o <<f>> /\ <<f>> \in Blocks /\ a \o d \in Blocks
            BY <2>1, <2>2, AppendIsConcat, SizeOfOne DEF Blocks
        <3>2. a \o (d \o <<f>>) = (a \o d) \o <<f>>
            BY Zenon, <2>1, <3>1, BlocksAssociate
        <3>3. Append(a \o d, f) = (a \o d) \o <<f>>
            BY Zenon, <2>1, <3>1, AppendIsConcat DEF Blocks
        <3> QED BY Zenon, <3>1, <3>2, <3>3
    <2> HIDE DEF d, f
    <2>4. a \o d \in Blocks /\ Size(a \o d) = Size(a) + Size(d)
        BY <1>2, <2>1 DEF Blocks
    <2>5. Size(c) = Size(d) + f[1] /\ Size(a \o c) = Size(a \o d) + f[1]
        BY <2>1, <2>2, <2>3, <2>4, SizeOfAppend
    <2>6. Size(a) \in Nat /\ Size(d) \in Nat /\ f[1] \in Nat
        BY <2>1, SizeType DEF Field
    <2> QED BY <2>4, <2>5, <2>6
<1> HIDE DEF S
<1>3. Nat \subseteq S
    BY <1>1, <1>2, NatSetInduction
<1>4. a \o b \in Blocks /\ Len(b) \in Nat
    BY DEF Blocks
<1> QED BY <1>3, <1>4 DEF S

LEMMA SizeOfSome ==
    ASSUME NEW b \in Blocks, b # <<>>
    PROVE  Size(b) > 0
<1> DEFINE d == SubSeq(b, 1, Len(b) - 1)
           f == b[Len(b)]
<1>1. d \in Blocks /\ f \in Field /\ b = Append(d, f)
    BY DEF Blocks
<1> HIDE DEF d, f
<1>2. Size(b) = Size(d) + f[1] /\ Size(d) \in Nat
    BY <1>1, SizeOfAppend, SizeType
<1>3. f[1] \in Nat \ {0}
    BY <1>1 DEF Field
<1> QED BY <1>2, <1>3
-----------------------------------------------------------------------------
(* The fields a request is made of.                                        *)
LEMMA NumberBlock ==
    ASSUME NEW n \in {1, 2}, NEW v \in Nat
    PROVE  /\ Number(n, v) \in Blocks /\ Size(Number(n, v)) = n
           /\ v % (256 ^ n) \in Nat /\ v < 256 => v % (256 ^ n) = v
<1>1. 256 ^ 1 = 256 /\ 256 ^ 2 = 65536
    OBVIOUS
<1>2. v % (256 ^ n) \in Nat /\ (v < 256 => v % (256 ^ n) = v)
    <2>1. v % 256 \in Nat /\ v % 65536 \in Nat
        OBVIOUS
    <2>2. v < 256 => v % 256 = v /\ v % 65536 = v
        OBVIOUS
    <2>3. CASE n = 1
        BY <1>1, <2>1, <2>2, <2>3
    <2>4. CASE n = 2
        BY <1>1, <2>1, <2>2, <2>4
    <2> QED BY <2>3, <2>4
<1> DEFINE f == <<n, "number", v % (256 ^ n)>>
<1>3. f \in Field /\ f[1] = n
    <2>1. n \in Nat \ {0}
        OBVIOUS
    <2>2. "number" \in Kinds
        BY DEF Kinds
    <2> QED BY Zenon, <1>2, <2>1, <2>2, FieldType
<1> HIDE DEF f
<1>4. <<f>> \in Blocks /\ Size(<<f>>) = n
    BY <1>3, SizeOfOne
<1> QED BY <1>2, <1>4 DEF Number, f

LEMMA BytesBlock ==
    ASSUME NEW n \in Nat, NEW what \in Kinds
    PROVE  Bytes(n, what) \in Blocks /\ Size(Bytes(n, what)) = n
<1>1. CASE n = 0
    BY <1>1, SizeOfNone DEF Bytes
<1>2. CASE n # 0
    <2>1. <<n, what, 0>> \in Field /\ <<n, what, 0>>[1] = n
        BY <1>2, FieldType
    <2>2. << <<n, what, 0>> >> \in Blocks /\ Size(<< <<n, what, 0>> >>) = n
        BY <2>1, SizeOfOne
    <2> QED BY <1>2, <2>2 DEF Bytes
<1> QED BY <1>1, <1>2
-----------------------------------------------------------------------------
(* Reading by offsets: where one block ends and another begins there is    *)
(* one cut, since no field is empty.                                       *)
LEMMA PrefixSizes ==
    ASSUME NEW b \in Blocks, NEW j \in 0..Len(b), NEW k \in 0..Len(b), j < k
    PROVE  Size(SubSeq(b, 1, j)) < Size(SubSeq(b, 1, k))
<1> DEFINE d == SubSeq(b, 1, j)
           e == SubSeq(b, j + 1, k)
<1>1. d \in Blocks /\ e \in Blocks /\ Len(e) = k - j
    BY DEF Blocks
<1>2. d \o e = SubSeq(b, 1, k)
    <2>1. /\ b \in Seq(Field) /\ 1 \in 1..(Len(b) + 1) /\ j \in 0..Len(b)
          /\ k \in j..Len(b) /\ 1 - 1 = 0
        BY DEF Blocks
    <2> QED BY <2>1, ConcatAdjacentSubSeq
<1>3. e # <<>>
    BY <1>1
<1> HIDE DEF d, e
<1>4. Size(d \o e) = Size(d) + Size(e) /\ Size(e) > 0 /\ Size(d) \in Nat /\ Size(e) \in Nat
    BY <1>1, <1>3, SizeOfConcat, SizeOfSome, SizeType
<1>5. Size(d) < Size(d \o e)
    BY <1>4
<1> QED BY Zenon, <1>2, <1>5 DEF d

LEMMA CutBetween ==
    ASSUME NEW a \in Blocks, NEW c \in Blocks
    PROVE  Cuts(a \o c, Size(a)) /\ Cut(a \o c, Size(a)) = Len(a)
<1> DEFINE b == a \o c
<1>1. /\ b \in Blocks /\ Len(a) \in 0..Len(b) /\ SubSeq(b, 1, Len(a)) = a
      /\ Len(b) \in Nat
    BY DEF Blocks
<1> HIDE DEF b
<1>2. ASSUME NEW k \in 0..Len(b), Size(SubSeq(b, 1, k)) = Size(a) PROVE k = Len(a)
    <2>1. CASE k < Len(a)
        <3>1. Size(SubSeq(b, 1, k)) < Size(SubSeq(b, 1, Len(a)))
            BY <1>1, <2>1, PrefixSizes
        <3>2. Size(a) < Size(a) /\ Size(a) \in Nat
            BY Zenon, <1>1, <1>2, <3>1, SizeType
        <3> QED BY <3>2
    <2>2. CASE Len(a) < k
        <3>1. Size(SubSeq(b, 1, Len(a))) < Size(SubSeq(b, 1, k))
            BY <1>1, <2>2, PrefixSizes
        <3>2. Size(a) < Size(a) /\ Size(a) \in Nat
            BY Zenon, <1>1, <1>2, <3>1, SizeType
        <3> QED BY <3>2
    <2>3. Len(a) \in Nat /\ k \in Nat
        BY <1>1
    <2> QED BY <2>1, <2>2, <2>3
<1>3. Cuts(b, Size(a))
    BY <1>1 DEF Cuts
<1>4. Cut(b, Size(a)) = Len(a)
    BY <1>1, <1>2 DEF Cut
<1> QED BY <1>3, <1>4 DEF b

LEMMA TakeFirst ==
    ASSUME NEW a \in Blocks, NEW c \in Blocks
    PROVE  Take(a \o c, Size(a)) = a
<1> DEFINE b == a \o c
<1>1. /\ Size(a) \in Nat /\ Size(c) \in Nat /\ Size(b) = Size(a) + Size(c)
      /\ Cuts(b, Size(a)) /\ Cut(b, Size(a)) = Len(a) /\ SubSeq(b, 1, Len(a)) = a
    <2>1. SubSeq(b, 1, Len(a)) = a
        BY DEF Blocks
    <2>2. Cuts(b, Size(a)) /\ Cut(b, Size(a)) = Len(a)
        BY Zenon, CutBetween
    <2>3. Size(a) \in Nat /\ Size(c) \in Nat /\ Size(b) = Size(a) + Size(c)
        BY SizeOfConcat, SizeType
    <2> QED BY <2>1, <2>2, <2>3
<1>2. CASE c = <<>>
    <2>1. b = a
        BY <1>2 DEF Blocks
    <2> QED BY <1>1, <2>1 DEF Take
<1>3. CASE c # <<>>
    <2>1. Size(c) > 0
        BY <1>3, SizeOfSome
    <2>2. ~(Size(a) >= Size(b))
        BY <1>1, <2>1
    <2> HIDE DEF b
    <2>3. Take(b, Size(a)) = SubSeq(b, 1, Cut(b, Size(a)))
        BY <1>1, <2>2 DEF Take
    <2> QED BY <1>1, <2>3 DEF b
<1> QED BY <1>2, <1>3

LEMMA DropFirst ==
    ASSUME NEW a \in Blocks, NEW c \in Blocks
    PROVE  Drop(a \o c, Size(a)) = c
<1> DEFINE b == a \o c
<1>1. /\ Size(a) \in Nat /\ Size(c) \in Nat /\ Size(b) = Size(a) + Size(c)
      /\ Cuts(b, Size(a)) /\ Cut(b, Size(a)) = Len(a) /\ SubSeq(b, Len(a) + 1, Len(b)) = c
    <2>1. SubSeq(b, Len(a) + 1, Len(b)) = c
        BY DEF Blocks
    <2>2. Cuts(b, Size(a)) /\ Cut(b, Size(a)) = Len(a)
        BY Zenon, CutBetween
    <2>3. Size(a) \in Nat /\ Size(c) \in Nat /\ Size(b) = Size(a) + Size(c)
        BY SizeOfConcat, SizeType
    <2> QED BY <2>1, <2>2, <2>3
<1>2. CASE c = <<>>
    <2>1. b = a
        BY <1>2 DEF Blocks
    <2> QED BY <1>1, <1>2, <2>1 DEF Drop
<1>3. CASE c # <<>>
    <2>1. Size(c) > 0
        BY <1>3, SizeOfSome
    <2>2. ~(Size(a) >= Size(b))
        BY <1>1, <2>1
    <2> HIDE DEF b
    <2>3. Drop(b, Size(a)) = SubSeq(b, Cut(b, Size(a)) + 1, Len(b))
        BY <1>1, <2>2 DEF Drop
    <2> QED BY <1>1, <2>3 DEF b
<1> QED BY <1>2, <1>3

(* c is what of b lies from the offset `at' on; b has the number v of n    *)
(* bytes there.                                                            *)
Behind(b, at, c) == \E a \in Blocks : b = a \o c /\ Size(a) = at
Holds(b, at, n, v) == \E c \in Blocks : Behind(b, at, Number(n, v) \o c)

LEMMA BehindDrop ==
    ASSUME NEW c \in Blocks, NEW b, NEW at, Behind(b, at, c)
    PROVE  Drop(b, at) = c /\ b \in Blocks
BY Zenon, DropFirst, SizeOfConcat DEF Behind

LEMMA BehindHere ==
    ASSUME NEW a \in Blocks, NEW c \in Blocks
    PROVE  Behind(a \o c, Size(a), c) /\ Behind(a, Size(a), <<>>) /\ Behind(a, 0, a)
<1>1. a \o <<>> = a /\ <<>> \o a = a
    BY DEF Blocks
<1> QED BY Zenon, <1>1, SizeOfNone DEF Behind

LEMMA BehindMore ==
    ASSUME NEW c \in Blocks, NEW d \in Blocks, NEW b, NEW at, Behind(b, at, c)
    PROVE  Behind(b \o d, at, c \o d)
<1>1. PICK a \in Blocks : b = a \o c /\ Size(a) = at
    BY DEF Behind
<1>2. a \o (c \o d) = (a \o c) \o d
    BY BlocksAssociate
<1> QED BY Zenon, <1>1, <1>2 DEF Behind

LEMMA BehindLater ==
    ASSUME NEW a \in Blocks, NEW c \in Blocks, NEW b, NEW at, Behind(b, at, c)
    PROVE  Behind(a \o b, Size(a) + at, c)
<1>1. PICK d \in Blocks : b = d \o c /\ Size(d) = at
    BY DEF Behind
<1>2. a \o (d \o c) = (a \o d) \o c
    BY BlocksAssociate
<1>3. a \o d \in Blocks /\ Size(a \o d) = Size(a) + Size(d)
    BY SizeOfConcat
<1> QED BY Zenon, <1>1, <1>2, <1>3 DEF Behind

LEMMA HoldsHere ==
    ASSUME NEW a \in Blocks, NEW n \in {1, 2}, NEW v \in Nat
    PROVE  Holds(a \o Number(n, v), Size(a), n, v)
<1>1. Number(n, v) \in Blocks /\ Number(n, v) \o <<>> = Number(n, v)
    <2>1. Number(n, v) \in Blocks
        BY NumberBlock
    <2>2. \A b \in Blocks : b \o <<>> = b
        BY DEF Blocks
    <2> QED BY Zenon, <2>1, <2>2
<1> QED BY Zenon, <1>1, BehindHere, SizeOfNone DEF Holds

LEMMA HoldsMore ==
    ASSUME NEW d \in Blocks, NEW n \in {1, 2}, NEW v \in Nat, NEW b, NEW at, Holds(b, at, n, v)
    PROVE  Holds(b \o d, at, n, v)
<1>1. PICK c \in Blocks : Behind(b, at, Number(n, v) \o c)
    BY DEF Holds
<1>2. Number(n, v) \in Blocks /\ Number(n, v) \o c \in Blocks /\ c \o d \in Blocks
    BY NumberBlock, SizeOfConcat
<1>3. Behind(b \o d, at, (Number(n, v) \o c) \o d)
    BY Zenon, <1>1, <1>2, BehindMore
<1>4. Number(n, v) \o (c \o d) = (Number(n, v) \o c) \o d
    BY Zenon, <1>2, BlocksAssociate
<1> QED BY Zenon, <1>2, <1>3, <1>4 DEF Holds

LEMMA HoldsLater ==
    ASSUME NEW a \in Blocks, NEW n \in {1, 2}, NEW v \in Nat, NEW b, NEW at, Holds(b, at, n, v)
    PROVE  Holds(a \o b, Size(a) + at, n, v)
<1>1. PICK c \in Blocks : Behind(b, at, Number(n, v) \o c)
    BY DEF Holds
<1>2. Number(n, v) \o c \in Blocks
    BY NumberBlock, SizeOfConcat
<1> QED BY Zenon, <1>1, <1>2, BehindLater DEF Holds

LEMMA HoldsRead ==
    ASSUME NEW n \in {1, 2}, NEW v \in Nat, NEW b, NEW at, Holds(b, at, n, v)
    PROVE  Read(b, at, n) = v % (256 ^ n)
<1>1. PICK c \in Blocks : Behind(b, at, Number(n, v) \o c)
    BY DEF Holds
<1>2. Number(n, v) \in Blocks /\ Number(n, v) \o c \in Blocks
    BY NumberBlock, SizeOfConcat
<1>3. Drop(b, at) = Number(n, v) \o c
    BY Zenon, <1>1, <1>2, BehindDrop
<1> DEFINE w == v % (256 ^ n)
           f == <<n, "number", w>>
           rest == Number(n, v) \o c
<1>4. f[1] = n /\ f[3] = w
    OBVIOUS
<1>5. rest # <<>> /\ rest[1] = f
    <2>1. Number(n, v) = <<f>>
        BY DEF Number
    <2>2. f \in Field
        <3>1. Len(<<f>>) = 1 /\ <<f>>[1] = f /\ <<f>> \in Seq(Field)
            BY <1>2, <2>1 DEF Blocks
        <3> QED BY <3>1
    <2> HIDE DEF f
    <2>3. <<f>> \o c # <<>> /\ (<<f>> \o c)[1] = f
        BY <2>2 DEF Blocks
    <2> QED BY <2>1, <2>3
<1> HIDE DEF f, rest, w
<1>6. Read(b, at, n) = rest[1][3]
    BY Zenon, <1>3, <1>4, <1>5 DEF Read, rest
<1> QED BY <1>4, <1>5, <1>6 DEF w
-----------------------------------------------------------------------------
(* How long the parts of a request are.                                    *)
LEMMA Join3 ==
    ASSUME NEW a \in Blocks, NEW b \in Blocks, NEW c \in Blocks
    PROVE  a \o b \o c \in Blocks /\ Size(a \o b \o c) = Size(a) + Size(b) + Size(c)
<1>1. a \o b \in Blocks /\ Size(a \o b) = Size(a) + Size(b)
    BY SizeOfConcat
<1>2. (a \o b) \o c \in Blocks /\ Size((a \o b) \o c) = Size(a \o b) + Size(c)
    BY <1>1, SizeOfConcat
<1> QED BY <1>1, <1>2

LEMMA Join4 ==
    ASSUME NEW a \in Blocks, NEW b \in Blocks, NEW c \in Blocks, NEW d \in Blocks
    PROVE  /\ a \o b \o c \o d \in Blocks
           /\ Size(a \o b \o c \o d) = Size(a) + Size(b) + Size(c) + Size(d)
<1>1. a \o b \o c \in Blocks /\ Size(a \o b \o c) = Size(a) + Size(b) + Size(c)
    BY Join3
<1>2. (a \o b \o c) \o d \in Blocks /\ Size((a \o b \o c) \o d) = Size(a \o b \o c) + Size(d)
    BY <1>1, SizeOfConcat
<1> QED BY <1>1, <1>2

LEMMA Bytes4 ==
    ASSUME NEW a \in Nat, NEW b \in Nat, NEW c \in Nat, NEW d \in Nat
    PROVE  /\ Number(1, a) \o Number(1, b) \o Number(1, c) \o Number(1, d) \in Blocks
           /\ Size(Number(1, a) \o Number(1, b) \o Number(1, c) \o Number(1, d)) = 4
<1>1. \A v \in Nat : Number(1, v) \in Blocks /\ Size(Number(1, v)) = 1
    <2>1. 1 \in {1, 2}
        OBVIOUS
    <2> QED BY Zenon, <2>1, NumberBlock
<1> DEFINE w == Number(1, a)  x == Number(1, b)  y == Number(1, c)  z == Number(1, d)
<1>2. w \in Blocks /\ x \in Blocks /\ y \in Blocks /\ z \in Blocks
      /\ Size(w) = 1 /\ Size(x) = 1 /\ Size(y) = 1 /\ Size(z) = 1
    BY <1>1
<1> HIDE DEF w, x, y, z
<1>3. w \o x \o y \o z \in Blocks /\ Size(w \o x \o y \o z) = 4
    BY <1>2, Join4
<1> QED BY <1>3 DEF w, x, y, z

LEMMA PartsOfPath ==
    ASSUME NEW slot \in Nat
    PROVE  /\ ConnectionManager \in Blocks /\ Size(ConnectionManager) = 4
           /\ MessageRouter \in Blocks /\ Size(MessageRouter) = 4
           /\ Route(slot) \in Blocks /\ Size(Route(slot)) = 4
BY Bytes4 DEF ConnectionManager, MessageRouter, Route

LEMMA PadBlock ==
    ASSUME NEW n \in Nat
    PROVE  Pad(n) \in Blocks /\ Size(Pad(n)) = n % 2 /\ n % 2 \in {0, 1}
<1>1. Number(1, 0) \in Blocks /\ Size(Number(1, 0)) = 1
    BY NumberBlock
<1>2. n % 2 \in {0, 1}
    OBVIOUS
<1> QED BY <1>1, <1>2, SizeOfNone DEF Pad

LEMMA SymbolicBlock ==
    ASSUME NEW name \in Nat
    PROVE  LET len == IF name > MaxSymbolic THEN MaxSymbolic ELSE name
           IN  /\ Symbolic(name) \in Blocks
               /\ Size(Symbolic(name)) = 2 + len + (len % 2)
               /\ Size(Symbolic(name)) % 2 = 0
<1> DEFINE len == IF name > MaxSymbolic THEN MaxSymbolic ELSE name
<1>1. len \in Nat
    BY RequestAssumption
<1>2. "name" \in Kinds
    BY DEF Kinds
<1>3. /\ Number(1, 145) \in Blocks /\ Size(Number(1, 145)) = 1
      /\ Number(1, len) \in Blocks /\ Size(Number(1, len)) = 1
    <2> HIDE DEF len
    <2> QED BY <1>1, NumberBlock
<1>4. Bytes(len, "name") \in Blocks /\ Size(Bytes(len, "name")) = len
    BY Zenon, <1>1, <1>2, BytesBlock
<1>5. Pad(len) \in Blocks /\ Size(Pad(len)) = len % 2
    BY Zenon, <1>1, PadBlock
<1>6. Symbolic(name) = Number(1, 145) \o Number(1, len) \o Bytes(len, "name") \o Pad(len)
    BY Zenon DEF Symbolic
<1> HIDE DEF len
<1>7. Symbolic(name) \in Blocks /\ Size(Symbolic(name)) = 1 + 1 + len + (len % 2)
    <2> DEFINE x == Number(1, 145) y == Number(1, len) z == Bytes(len, "name")  u == Pad(len)
    <2>1. x \in Blocks /\ y \in Blocks /\ z \in Blocks /\ u \in Blocks
        BY <1>3, <1>4, <1>5
    <2> HIDE DEF x, y, z, u
    <2>2. /\ x \o y \o z \o u \in Blocks
          /\ Size(x \o y \o z \o u) = Size(x) + Size(y) + Size(z) + Size(u)
        BY <2>1, Join4
    <2>3. Size(x) = 1 /\ Size(y) = 1 /\ Size(z) = len /\ Size(u) = len % 2
        BY Zenon, <1>3, <1>4, <1>5 DEF x, y, z, u
    <2>4. Symbolic(name) = x \o y \o z \o u
        BY Zenon, <1>6 DEF x, y, z, u
    <2>5. Size(x) + Size(y) + Size(z) + Size(u) = 1 + 1 + len + (len % 2)
        BY <1>1, <2>3
    <2> QED BY <2>2, <2>4, <2>5
<1>8. 1 + 1 + len + (len % 2) = 2 + len + (len % 2) /\ (2 + len + (len % 2)) % 2 = 0
    BY <1>1
<1> QED BY <1>7, <1>8 DEF len

LEMMA ConnectionPathBlock ==
    ASSUME NEW slot \in Nat, NEW name \in Nat
    PROVE  /\ ConnectionPath(slot, name) \in Blocks
           /\ Size(ConnectionPath(slot, name)) =
                 (IF slot = NoRoute THEN 0 ELSE 6) + Size(Symbolic(name))
<1>1. Symbolic(name) \in Blocks /\ Size(Symbolic(name)) \in Nat
    BY Zenon, SymbolicBlock, SizeType
<1>2. CASE slot = NoRoute
    <2>1. ConnectionPath(slot, name) = Symbolic(name)
        <3>1. ConnectionPath(slot, name) = <<>> \o Symbolic(name)
            BY Zenon, <1>2 DEF ConnectionPath
        <3>2. \A b \in Blocks : <<>> \o b = b
            BY DEF Blocks
        <3> QED BY Zenon, <1>1, <3>1, <3>2
    <2> QED BY <1>1, <1>2, <2>1
<1>3. CASE slot # NoRoute
    <2> DEFINE x == Number(1, 1)  y == Number(1, slot)  z == MessageRouter
               u == Symbolic(name)
    <2>1. x \in Blocks /\ y \in Blocks /\ Size(x) = 1 /\ Size(y) = 1
        BY NumberBlock
    <2>2. z \in Blocks /\ Size(z) = 4
        BY PartsOfPath
    <2>3. ConnectionPath(slot, name) = x \o y \o z \o u
        BY Zenon, <1>3 DEF ConnectionPath
    <2> HIDE DEF x, y, z
    <2>4. /\ x \o y \o z \o u \in Blocks
          /\ Size(x \o y \o z \o u) = Size(x) + Size(y) + Size(z) + Size(u)
        BY <1>1, <2>1, <2>2, Join4
    <2> QED BY <1>1, <1>3, <2>1, <2>2, <2>3, <2>4
<1> QED BY <1>2, <1>3

LEMMA RequestBlock ==
    ASSUME NEW svc \in Nat, NEW path \in Blocks, NEW data \in Blocks
    PROVE  /\ Request(svc, path, data) \in Blocks
           /\ Size(Request(svc, path, data)) = 2 + Size(path) + Size(data)
<1> DEFINE x == Number(1, svc)  y == Number(1, Size(path) \div 2)
<1>1. Size(path) \in Nat /\ Size(data) \in Nat /\ Size(path) \div 2 \in Nat
    BY SizeType
<1>2. x \in Blocks /\ y \in Blocks /\ Size(x) = 1 /\ Size(y) = 1
    BY <1>1, NumberBlock
<1>3. Request(svc, path, data) = x \o y \o path \o data
    BY Zenon DEF Request
<1> HIDE DEF x, y
<1>4. /\ x \o y \o path \o data \in Blocks
      /\ Size(x \o y \o path \o data) = Size(x) + Size(y) + Size(path) + Size(data)
    BY <1>2, Join4
<1> QED BY <1>1, <1>2, <1>3, <1>4

LEMMA WrapperBlock ==
    ASSUME NEW slot \in Nat, NEW svc \in Nat, NEW path \in Blocks, NEW data \in Blocks
    PROVE  LET len == 2 + Size(path) + Size(data)
           IN  /\ Wrapper(slot, svc, path, data) \in Blocks
               /\ Size(Wrapper(slot, svc, path, data)) = 8 + len + (len % 2)
<1> DEFINE e == Request(svc, path, data)
           h == Number(1, 10) \o Number(1, 5) \o Number(2, Size(e))
           len == 2 + Size(path) + Size(data)
<1>1. e \in Blocks /\ Size(e) = len /\ len \in Nat
    BY RequestBlock, SizeType
<1> HIDE DEF e, len
<1>2. h \in Blocks /\ Size(h) = 4
    <2> DEFINE x == Number(1, 10)  y == Number(1, 5)  z == Number(2, Size(e))
    <2>1. x \in Blocks /\ y \in Blocks /\ z \in Blocks
          /\ Size(x) = 1 /\ Size(y) = 1 /\ Size(z) = 2
        BY <1>1, NumberBlock
    <2> HIDE DEF x, y, z
    <2>2. x \o y \o z \in Blocks /\ Size(x \o y \o z) = 4
        BY <2>1, Join3
    <2> QED BY <2>2 DEF x, y, z
<1>3. Pad(Size(e)) \in Blocks /\ Size(Pad(Size(e))) = len % 2 /\ len % 2 \in {0, 1}
    BY <1>1, PadBlock
<1>4. Route(slot) \in Blocks /\ Size(Route(slot)) = 4
    BY PartsOfPath
<1>5. Wrapper(slot, svc, path, data) = h \o e \o Pad(Size(e)) \o Route(slot)
    BY Zenon DEF Wrapper, e
<1> HIDE DEF h
<1>6. /\ h \o e \o Pad(Size(e)) \o Route(slot) \in Blocks
      /\ Size(h \o e \o Pad(Size(e)) \o Route(slot))
           = Size(h) + Size(e) + Size(Pad(Size(e))) + Size(Route(slot))
    BY <1>1, <1>2, <1>3, <1>4, Join4
<1>7. /\ Wrapper(slot, svc, path, data) \in Blocks
      /\ Size(Wrapper(slot, svc, path, data)) = 8 + len + (len % 2)
    <2>1. PICK pad \in {0, 1} : len % 2 = pad
        BY Zenon, <1>3
    <2>2. Size(h) + Size(e) + Size(Pad(Size(e))) + Size(Route(slot)) = 8 + len + pad
        BY <1>1, <1>2, <1>3, <1>4, <2>1
    <2>3. Size(Wrapper(slot, svc, path, data)) = 8 + len + pad
        BY Zenon, <1>5, <1>6, <2>2
    <2> QED BY Zenon, <1>5, <1>6, <2>1, <2>3
<1> QED BY <1>7 DEF len

LEMMA FramedBlock ==
    ASSUME NEW len \in Nat
    PROVE  Framed(len) \in Blocks /\ Size(Framed(len)) = 24 /\ Holds(Framed(len), 2, 2, len)
<1> DEFINE x == Bytes(2, "command")  y == Number(2, len)  z == Bytes(20, "header")
<1>1. "command" \in Kinds /\ "header" \in Kinds
    BY DEF Kinds
<1>2. x \in Blocks /\ y \in Blocks /\ z \in Blocks /\ Size(x) = 2 /\ Size(y) = 2 /\ Size(z) = 20
    BY <1>1, BytesBlock, NumberBlock
<1>3. Framed(len) = x \o y \o z
    BY DEF Framed
<1> HIDE DEF x, z
<1>4. Holds(x \o y, 2, 2, len)
    <2>1. 2 \in {1, 2}
        OBVIOUS
    <2> QED BY Zenon, <1>2, <2>1, HoldsHere
<1>5. Holds((x \o y) \o z, 2, 2, len)
    <2>1. 2 \in {1, 2}
        OBVIOUS
    <2> QED BY Zenon, <1>2, <1>4, <2>1, HoldsMore
<1> HIDE DEF y
<1>6. x \o y \o z \in Blocks /\ Size(x \o y \o z) = 24
    BY <1>2, Join3
<1> QED BY Zenon, <1>3, <1>5, <1>6

(* The body of SendRRData: what lies behind the encapsulation header.      *)
Body(cip) ==
    Bytes(6, "interface") \o Number(2, 2)
    \o Number(2, 0) \o Number(2, 0) \o Number(2, 178) \o Number(2, Size(cip)) \o cip

(* b is what of `whole' follows f, and has n bytes.                        *)
Follows(whole, f, b, n) == whole = f \o b /\ b \in Blocks /\ Size(b) = n

LEMMA FollowsMore ==
    ASSUME NEW f \in Blocks, NEW c \in Blocks, NEW whole, NEW b, NEW n, Follows(whole, f, b, n)
    PROVE  Follows(whole \o c, f, b \o c, n + Size(c))
<1>1. b \in Blocks /\ whole = f \o b /\ Size(b) = n
    BY DEF Follows
<1>2. b \o c \in Blocks /\ Size(b \o c) = n + Size(c)
    BY Zenon, <1>1, SizeOfConcat
<1>3. (f \o b) \o c = f \o (b \o c)
    BY <1>1, BlocksAssociate
<1> QED BY Zenon, <1>1, <1>2, <1>3 DEF Follows

LEMMA BodyBlock ==
    ASSUME NEW cip \in Blocks
    PROVE  /\ Body(cip) \in Blocks /\ Size(Body(cip)) = 16 + Size(cip)
           /\ Holds(Body(cip), 10, 2, 0) /\ Holds(Body(cip), 14, 2, Size(cip))
           /\ Behind(Body(cip), 16, cip)
           /\ Unconnected(cip) = Framed(16 + Size(cip)) \o Body(cip)
<1> DEFINE f == Framed(16 + Size(cip))
           a == Bytes(6, "interface")  b == Number(2, 2)  c == Number(2, 0)
           d == Number(2, 178)  n == Number(2, Size(cip))
<1>1. Size(cip) \in Nat /\ 16 + Size(cip) \in Nat /\ "interface" \in Kinds /\ 2 \in {1, 2}
    BY SizeType DEF Kinds
<1>2. /\ a \in Blocks /\ b \in Blocks /\ c \in Blocks /\ d \in Blocks /\ n \in Blocks
      /\ Size(a) = 6 /\ Size(b) = 2 /\ Size(c) = 2 /\ Size(d) = 2 /\ Size(n) = 2
    BY <1>1, BytesBlock, NumberBlock
<1>3. f \in Blocks
    BY <1>1, FramedBlock
<1>4. Body(cip) = a \o b \o c \o c \o d \o n \o cip
    BY DEF Body
<1>5. Unconnected(cip) = f \o a \o b \o c \o c \o d \o n \o cip
    BY DEF Unconnected
<1> HIDE DEF f, a, b, d
<1>6. Holds(a \o b \o c \o c, 10, 2, 0)
    <2>1. a \o b \o c \in Blocks /\ Size(a \o b \o c) = 10
        <3> HIDE DEF c
        <3> QED BY <1>2, Join3
    <2>2. 0 \in Nat
        OBVIOUS
    <2> QED BY Zenon, <1>1, <2>1, <2>2, HoldsHere
<1>7. Holds(a \o b \o c \o c \o d \o n \o cip, 10, 2, 0)
    <2>2. 0 \in Nat
        OBVIOUS
    <2>3. Holds(a \o b \o c \o c \o d, 10, 2, 0)
        BY Zenon, <1>1, <1>2, <1>6, <2>2, HoldsMore
    <2>4. Holds(a \o b \o c \o c \o d \o n, 10, 2, 0)
        BY Zenon, <1>1, <1>2, <2>2, <2>3, HoldsMore
    <2> QED BY Zenon, <1>1, <2>2, <2>4, HoldsMore
<1>8. Holds(a \o b \o c \o c \o d \o n, 14, 2, Size(cip))
    <2>1. a \o b \o c \o c \o d \in Blocks /\ Size(a \o b \o c \o c \o d) = 14
        <3> HIDE DEF c
        <3>1. a \o b \o c \o c \in Blocks /\ Size(a \o b \o c \o c) = 12
            BY <1>2, Join4
        <3> QED BY <1>2, <3>1, SizeOfConcat
    <2> QED BY Zenon, <1>1, <2>1, HoldsHere
<1>9. Holds(a \o b \o c \o c \o d \o n \o cip, 14, 2, Size(cip))
    BY Zenon, <1>1, <1>8, HoldsMore
<1> HIDE DEF c, n
<1>10. 6 + 2 = 8 /\ 8 + 2 = 10 /\ 10 + 2 = 12 /\ 12 + 2 = 14 /\ 14 + 2 = 16
    OBVIOUS
<1>11. Follows(f \o a \o b \o c \o c \o d \o n, f, a \o b \o c \o c \o d \o n, 16)
    <2>1. Follows(f \o a, f, a, 6)
        BY Zenon, <1>2 DEF Follows
    <2>2. Follows(f \o a \o b, f, a \o b, 8)
        BY Zenon, <1>2, <1>3, <1>10, <2>1, FollowsMore
    <2>3. Follows(f \o a \o b \o c, f, a \o b \o c, 10)
        BY Zenon, <1>2, <1>3, <1>10, <2>2, FollowsMore
    <2>4. Follows(f \o a \o b \o c \o c, f, a \o b \o c \o c, 12)
        BY Zenon, <1>2, <1>3, <1>10, <2>3, FollowsMore
    <2>5. Follows(f \o a \o b \o c \o c \o d, f, a \o b \o c \o c \o d, 14)
        BY Zenon, <1>2, <1>3, <1>10, <2>4, FollowsMore
    <2> QED BY Zenon, <1>2, <1>3, <1>10, <2>5, FollowsMore
<1>12. Follows(f \o a \o b \o c \o c \o d \o n \o cip, f,
               a \o b \o c \o c \o d \o n \o cip, 16 + Size(cip))
    BY Zenon, <1>3, <1>11, FollowsMore
<1>13. Behind(a \o b \o c \o c \o d \o n \o cip, 16, cip)
    BY Zenon, <1>11, BehindHere DEF Follows
<1> QED BY Zenon, <1>4, <1>5, <1>7, <1>9, <1>12, <1>13 DEF f, Follows

LEMMA UnconnectedBlock ==
    ASSUME NEW cip \in Blocks
    PROVE  Unconnected(cip) \in Blocks /\ Size(Unconnected(cip)) = 40 + Size(cip)
<1>1. Size(cip) \in Nat /\ 16 + Size(cip) \in Nat
    BY SizeType
<1>2. /\ Framed(16 + Size(cip)) \in Blocks /\ Size(Framed(16 + Size(cip))) = 24
      /\ Body(cip) \in Blocks /\ Size(Body(cip)) = 16 + Size(cip)
      /\ Unconnected(cip) = Framed(16 + Size(cip)) \o Body(cip)
    BY Zenon, <1>1, FramedBlock, BodyBlock
<1>3. Size(Framed(16 + Size(cip)) \o Body(cip)) = 24 + (16 + Size(cip))
      /\ Framed(16 + Size(cip)) \o Body(cip) \in Blocks
    BY Zenon, <1>2, SizeOfConcat
<1> QED BY <1>1, <1>2, <1>3

(* The body of SendUnitData.                                               *)
ConnectedBody(cip) ==
    Bytes(6, "interface") \o Number(2, 2)
    \o Number(2, 161) \o Number(2, 4) \o Bytes(4, "id")
    \o Number(2, 177) \o Number(2, 2 + Size(cip)) \o Bytes(2, "sequence") \o cip

LEMMA ConnectedBodyBlock ==
    ASSUME NEW cip \in Blocks
    PROVE  /\ ConnectedBody(cip) \in Blocks /\ Size(ConnectedBody(cip)) = 22 + Size(cip)
           /\ Holds(ConnectedBody(cip), 10, 2, 4)
           /\ Holds(ConnectedBody(cip), 18, 2, 2 + Size(cip))
           /\ Behind(ConnectedBody(cip), 20, Bytes(2, "sequence") \o cip)
           /\ Bytes(2, "sequence") \in Blocks /\ Size(Bytes(2, "sequence")) = 2
           /\ Connected(cip) = Framed(22 + Size(cip)) \o ConnectedBody(cip)
<1> DEFINE f == Framed(22 + Size(cip))
           a == Bytes(6, "interface")  b == Number(2, 2)  c == Number(2, 161)
           d == Number(2, 4)  e == Bytes(4, "id")  g == Number(2, 177)
           n == Number(2, 2 + Size(cip))  q == Bytes(2, "sequence")
<1>1. /\ Size(cip) \in Nat /\ 22 + Size(cip) \in Nat /\ 2 + Size(cip) \in Nat
      /\ "interface" \in Kinds /\ "id" \in Kinds /\ "sequence" \in Kinds
      /\ 2 \in {1, 2} /\ 4 \in Nat
    BY SizeType DEF Kinds
<1>2. /\ a \in Blocks /\ b \in Blocks /\ c \in Blocks /\ d \in Blocks
      /\ e \in Blocks /\ g \in Blocks /\ n \in Blocks /\ q \in Blocks
      /\ Size(a) = 6 /\ Size(b) = 2 /\ Size(c) = 2 /\ Size(d) = 2
      /\ Size(e) = 4 /\ Size(g) = 2 /\ Size(n) = 2 /\ Size(q) = 2
    BY <1>1, BytesBlock, NumberBlock
<1>3. f \in Blocks
    BY <1>1, FramedBlock
<1>4. ConnectedBody(cip) = a \o b \o c \o d \o e \o g \o n \o q \o cip
    BY DEF ConnectedBody
<1>5. Connected(cip) = f \o a \o b \o c \o d \o e \o g \o n \o q \o cip
    BY DEF Connected
<1> HIDE DEF f, a, b, c, e, g, q
<1>6. 6 + 2 = 8 /\ 8 + 2 = 10 /\ 10 + 2 = 12 /\ 12 + 4 = 16 /\ 16 + 2 = 18 /\ 18 + 2 = 20
      /\ 20 + 2 = 22
    OBVIOUS
<1>7. Follows(f \o a \o b \o c, f, a \o b \o c, 10)
    <2>1. Follows(f \o a, f, a, 6)
        BY Zenon, <1>2 DEF Follows
    <2>2. Follows(f \o a \o b, f, a \o b, 8)
        BY Zenon, <1>2, <1>3, <1>6, <2>1, FollowsMore
    <2> QED BY Zenon, <1>2, <1>3, <1>6, <2>2, FollowsMore
<1>8. Holds(a \o b \o c \o d, 10, 2, 4)
    BY Zenon, <1>1, <1>7, HoldsHere DEF Follows
<1> HIDE DEF d
<1>9. Follows(f \o a \o b \o c \o d \o e \o g, f, a \o b \o c \o d \o e \o g, 18)
    <2>1. Follows(f \o a \o b \o c \o d, f, a \o b \o c \o d, 12)
        BY Zenon, <1>2, <1>3, <1>6, <1>7, FollowsMore
    <2>2. Follows(f \o a \o b \o c \o d \o e, f, a \o b \o c \o d \o e, 16)
        BY Zenon, <1>2, <1>3, <1>6, <2>1, FollowsMore
    <2> QED BY Zenon, <1>2, <1>3, <1>6, <2>2, FollowsMore
<1>10. Holds(a \o b \o c \o d \o e \o g \o n, 18, 2, 2 + Size(cip))
    BY Zenon, <1>1, <1>9, HoldsHere DEF Follows
<1> HIDE DEF n
<1>11. Follows(f \o a \o b \o c \o d \o e \o g \o n, f, a \o b \o c \o d \o e \o g \o n, 20)
    BY Zenon, <1>2, <1>3, <1>6, <1>9, FollowsMore
<1>12. Follows(f \o a \o b \o c \o d \o e \o g \o n \o q, f,
               a \o b \o c \o d \o e \o g \o n \o q, 22)
    BY Zenon, <1>2, <1>3, <1>6, <1>11, FollowsMore
<1>13. Follows(f \o a \o b \o c \o d \o e \o g \o n \o q \o cip, f,
               a \o b \o c \o d \o e \o g \o n \o q \o cip, 22 + Size(cip))
    BY Zenon, <1>3, <1>12, FollowsMore
<1>14. Holds(a \o b \o c \o d \o e \o g \o n \o q \o cip, 10, 2, 4)
    <2>1. Holds(a \o b \o c \o d \o e, 10, 2, 4)
        BY Zenon, <1>1, <1>2, <1>8, HoldsMore
    <2>2. Holds(a \o b \o c \o d \o e \o g, 10, 2, 4)
        BY Zenon, <1>1, <1>2, <2>1, HoldsMore
    <2>3. Holds(a \o b \o c \o d \o e \o g \o n, 10, 2, 4)
        BY Zenon, <1>1, <1>2, <2>2, HoldsMore
    <2>4. Holds(a \o b \o c \o d \o e \o g \o n \o q, 10, 2, 4)
        BY Zenon, <1>1, <1>2, <2>3, HoldsMore
    <2> QED BY Zenon, <1>1, <2>4, HoldsMore
<1>15. Holds(a \o b \o c \o d \o e \o g \o n \o q \o cip, 18, 2, 2 + Size(cip))
    <2>1. Holds(a \o b \o c \o d \o e \o g \o n \o q, 18, 2, 2 + Size(cip))
        BY Zenon, <1>1, <1>2, <1>10, HoldsMore
    <2> QED BY Zenon, <1>1, <2>1, HoldsMore
<1>16. Behind(a \o b \o c \o d \o e \o g \o n \o q \o cip, 20, q \o cip)
    <2>1. Behind(a \o b \o c \o d \o e \o g \o n \o q, 20, q)
        BY Zenon, <1>2, <1>11, BehindHere DEF Follows
    <2> QED BY Zenon, <1>2, <2>1, BehindMore
<1> QED BY Zenon, <1>2, <1>4, <1>5, <1>13, <1>14, <1>15, <1>16 DEF f, q, Follows

LEMMA ConnectedBlock ==
    ASSUME NEW cip \in Blocks
    PROVE  Connected(cip) \in Blocks /\ Size(Connected(cip)) = 46 + Size(cip)
<1>1. Size(cip) \in Nat /\ 22 + Size(cip) \in Nat
    BY SizeType
<1>2. /\ Framed(22 + Size(cip)) \in Blocks /\ Size(Framed(22 + Size(cip))) = 24
      /\ ConnectedBody(cip) \in Blocks /\ Size(ConnectedBody(cip)) = 22 + Size(cip)
      /\ Connected(cip) = Framed(22 + Size(cip)) \o ConnectedBody(cip)
    BY Zenon, <1>1, FramedBlock, ConnectedBodyBlock
<1>3. Size(Framed(22 + Size(cip)) \o ConnectedBody(cip)) = 24 + (22 + Size(cip))
      /\ Framed(22 + Size(cip)) \o ConnectedBody(cip) \in Blocks
    BY Zenon, <1>2, SizeOfConcat
<1> QED BY <1>1, <1>2, <1>3

LEMMA OpenBlock ==
    ASSUME NEW slot \in Nat, NEW name \in Nat
    PROVE  LET size == Size(ConnectionPath(slot, name))
           IN  /\ OpenData(slot, name) \in Blocks /\ Size(OpenData(slot, name)) = 36 + size
               /\ CloseData(slot, name) \in Blocks /\ Size(CloseData(slot, name)) = 12 + size
<1> DEFINE size == Size(ConnectionPath(slot, name))
           x == Bytes(35, "parameters")  y == Number(1, size \div 2)  z == ConnectionPath(slot, name)
           u == Bytes(10, "parameters")  v == Number(1, 0)
<1>1. z \in Blocks /\ size \in Nat /\ size \div 2 \in Nat /\ "parameters" \in Kinds
    <2>1. z \in Blocks /\ size \in Nat
        BY Zenon, ConnectionPathBlock, SizeType
    <2> HIDE DEF z, size
    <2> QED BY <2>1 DEF Kinds
<1>2. OpenData(slot, name) = x \o y \o z /\ CloseData(slot, name) = u \o y \o v \o z
    BY DEF OpenData, CloseData
<1>3. /\ x \in Blocks /\ y \in Blocks /\ u \in Blocks /\ v \in Blocks
      /\ Size(x) = 35 /\ Size(y) = 1 /\ Size(u) = 10 /\ Size(v) = 1
    <2> HIDE DEF size, z
    <2> QED BY <1>1, BytesBlock, NumberBlock
<1>4. Size(z) = size
    OBVIOUS
<1> HIDE DEF x, y, z, u, v, size
<1>5. x \o y \o z \in Blocks /\ Size(x \o y \o z) = 36 + size
    BY <1>1, <1>3, <1>4, Join3
<1>6. u \o y \o v \o z \in Blocks /\ Size(u \o y \o v \o z) = 12 + size
    BY <1>1, <1>3, <1>4, Join4
<1> QED BY <1>2, <1>5, <1>6 DEF size
-----------------------------------------------------------------------------
(* Nothing is written past the end of a buffer.                            *)
Bounded(buffers) == \A u \in buffers : u[2] <= Capacity[u[1]]

LEMMA BoundedMore ==
    ASSUME NEW buffers, Bounded(buffers), NEW b, NEW n, n <= Capacity[b]
    PROVE  Bounded(buffers \cup {<<b, n>>})
<1> DEFINE u == <<b, n>>
<1>1. u[1] = b /\ u[2] = n
    OBVIOUS
<1> HIDE DEF u
<1>2. u[2] <= Capacity[u[1]]
    BY Zenon, <1>1
<1>3. Bounded(buffers \cup {u})
    BY Zenon, <1>2 DEF Bounded
<1> QED BY <1>3 DEF u

LEMMA BoundedNone == Bounded({})
BY DEF Bounded

LEMMA Capacities ==
    /\ Capacity["path"] = 128 /\ Capacity["open"] = 128
    /\ Capacity["wdata"] = 4 + MaxTagData /\ Capacity["wrapper"] = RoutedOverhead + MaxCip
    /\ Capacity["tx"] = 24 + 16 + MaxCip + RoutedOverhead
    /\ Capacity["cxnTx"] = 24 + 22 + MaxConnected
BY DEF Capacity

LEMMA SizesAreNat ==
    /\ MaxCip \in Nat /\ RoutedOverhead \in Nat /\ MaxConnected \in Nat
    /\ MaxSymbolic \in Nat /\ MaxName \in Nat /\ MaxTagData \in Nat
    /\ \A name \in NameLens : name \in Nat
    /\ \A n \in PathLens : n \in Nat
    /\ \A n \in DataLens : n \in Nat
    /\ \A n \in TagLens : n \in Nat /\ n <= MaxTagData
    /\ \A slot \in Slots : slot \in Nat /\ slot <= 255
<1>1. MaxTagData \in Nat
    BY RequestAssumption
<1> QED BY <1>1, RequestAssumption DEF NoRoute

LEMMA DirectHolds ==
    ASSUME NEW svc \in Nat, NEW path \in Blocks, NEW data \in Blocks,
           NEW buffers, Bounded(buffers), SendDirect(svc, path, data, buffers)
    PROVE  BuffersHold'
<1> DEFINE cip == Request(svc, path, data)
<1>1. CASE Fits(MaxCip, path, data)
    <2>1. packet' = Unconnected(cip) /\ used' = buffers \cup {<<"tx", Size(packet')>>}
        BY Zenon, <1>1 DEF SendDirect
    <2>2. cip \in Blocks /\ Size(cip) = 2 + Size(path) + Size(data)
        BY RequestBlock
    <2> HIDE DEF cip
    <2>3. Size(packet') = 40 + Size(cip) /\ Size(cip) \in Nat
        BY Zenon, <2>1, <2>2, UnconnectedBlock, SizeType
    <2>4. Size(cip) <= MaxCip
        BY <1>1, <2>2 DEF Fits
    <2>5. Size(packet') <= Capacity["tx"]
        BY <2>3, <2>4, Capacities, SizesAreNat
    <2> QED BY Zenon, <2>1, <2>5, BoundedMore DEF Bounded, BuffersHold
<1>2. CASE ~Fits(MaxCip, path, data)
    BY Zenon, <1>2 DEF SendDirect, Refuse, Bounded, BuffersHold
<1> QED BY <1>1, <1>2

LEMMA RoutedHolds ==
    ASSUME NEW slot \in Nat, NEW svc \in Nat, NEW path \in Blocks, NEW data \in Blocks,
           NEW buffers, Bounded(buffers), SendRouted(slot, svc, path, data, buffers)
    PROVE  BuffersHold'
<1> DEFINE w == Wrapper(slot, svc, path, data)
           cip == Request(82, ConnectionManager, w)
           len == 2 + Size(path) + Size(data)
<1>1. CASE slot <= 16 /\ Fits(MaxCip, path, data)
    <2>1. /\ packet' = Unconnected(cip)
          /\ used' = buffers \cup {<<"wrapper", Size(w)>>, <<"tx", Size(packet')>>}
        BY Zenon, <1>1 DEF SendRouted
    <2>2. w \in Blocks /\ Size(w) = 8 + len + (len % 2)
        BY WrapperBlock
    <2>3. len \in Nat /\ len <= MaxCip
        BY <1>1, SizeType DEF Fits
    <2> HIDE DEF w, len
    <2>4. cip \in Blocks /\ Size(cip) = 2 + Size(ConnectionManager) + Size(w)
        BY <2>2, RequestBlock, PartsOfPath
    <2> HIDE DEF cip
    <2>5. Size(packet') = 40 + Size(cip)
        BY Zenon, <2>1, <2>4, UnconnectedBlock
    <2>6. Size(w) <= Capacity["wrapper"]
        BY <2>2, <2>3, Capacities, SizesAreNat, RequestAssumption
    <2>7. Size(ConnectionManager) = 4
        BY PartsOfPath
    <2>8. Size(packet') <= Capacity["tx"]
        BY <2>2, <2>3, <2>4, <2>5, <2>7, Capacities, SizesAreNat, RequestAssumption
    <2>9. used' = (buffers \cup {<<"wrapper", Size(w)>>}) \cup {<<"tx", Size(packet')>>}
        BY <2>1
    <2> QED BY Zenon, <2>6, <2>8, <2>9, BoundedMore DEF Bounded, BuffersHold
<1>2. CASE ~(slot <= 16 /\ Fits(MaxCip, path, data))
    BY Zenon, <1>2 DEF SendRouted, Refuse, Bounded, BuffersHold
<1> QED BY <1>1, <1>2

LEMMA SendHolds ==
    ASSUME NEW slot \in Nat, NEW svc \in Nat, NEW path \in Blocks, NEW data \in Blocks,
           NEW buffers, Bounded(buffers), Send(slot, svc, path, data, buffers)
    PROVE  BuffersHold'
BY Zenon, DirectHolds, RoutedHolds DEF Send

(* The data of a read, and of a write of n bytes.                          *)
LEMMA TagDataBlock ==
    ASSUME NEW n \in Nat
    PROVE  LET wdata == Number(2, 1) \o Bytes(2, "type") \o Bytes(n, "data")
           IN  /\ Number(2, 1) \in Blocks /\ Size(Number(2, 1)) = 2
               /\ wdata \in Blocks /\ Size(wdata) = 4 + n
<1> DEFINE x == Number(2, 1)  y == Bytes(2, "type")  z == Bytes(n, "data")
<1>1. "type" \in Kinds /\ "data" \in Kinds
    BY DEF Kinds
<1>2. x \in Blocks /\ y \in Blocks /\ z \in Blocks /\ Size(x) = 2 /\ Size(y) = 2 /\ Size(z) = n
    BY <1>1, NumberBlock, BytesBlock
<1> HIDE DEF x, y, z
<1>3. x \o y \o z \in Blocks /\ Size(x \o y \o z) = 4 + n
    BY <1>2, Join3
<1> QED BY <1>2, <1>3 DEF x, y, z

LEMMA SymbolicFits ==
    ASSUME NEW name \in Nat, name <= MaxSymbolic
    PROVE  /\ Symbolic(name) \in Blocks /\ Size(Symbolic(name)) % 2 = 0
           /\ Size(Symbolic(name)) \in Nat /\ Size(Symbolic(name)) <= 3 + name
           /\ Size(Symbolic(name)) <= 128
<1>1. name \in Nat /\ MaxSymbolic \in Nat /\ MaxSymbolic <= 126
    BY RequestAssumption
<1> DEFINE len == IF name > MaxSymbolic THEN MaxSymbolic ELSE name
<1>2. len = name
    BY <1>1
<1>3. /\ Symbolic(name) \in Blocks /\ Size(Symbolic(name)) = 2 + len + (len % 2)
      /\ Size(Symbolic(name)) % 2 = 0
    BY SymbolicBlock
<1> HIDE DEF len
<1>4. 2 + name + (name % 2) \in Nat /\ 2 + name + (name % 2) <= 3 + name
      /\ 2 + name + (name % 2) <= 128
    BY <1>1
<1> QED BY <1>2, <1>3, <1>4

LEMMA TagCallHolds ==
    ASSUME NEW name \in NameLens, NEW slot \in Slots, NEW svc \in Nat, NEW data \in Blocks,
           NEW buffers, Bounded(buffers), TagCall(name, slot, svc, data, buffers)
    PROVE  BuffersHold'
<1>1. name \in Nat /\ slot \in Nat
    BY SizesAreNat
<1>2. CASE name > MaxSymbolic
    BY Zenon, <1>2, BoundedNone DEF TagCall, Refuse, Bounded, BuffersHold
<1>3. CASE ~(name > MaxSymbolic)
    <2>1. Symbolic(name) \in Blocks /\ Size(Symbolic(name)) <= Capacity["path"]
        BY <1>1, <1>3, SymbolicFits, Capacities, SizesAreNat
    <2>2. Bounded(buffers \cup {<<"path", Size(Symbolic(name))>>})
        BY Zenon, <2>1, BoundedMore
    <2>3. Send(slot, svc, Symbolic(name), data,
               buffers \cup {<<"path", Size(Symbolic(name))>>})
        BY Zenon, <1>3 DEF TagCall
    <2> QED BY Zenon, <1>1, <2>1, <2>2, <2>3, SendHolds
<1> QED BY <1>2, <1>3

LEMMA CxnPathFits ==
    ASSUME NEW slot \in Nat, NEW name \in Nat, name < MaxName
    PROVE  LET size == Size(ConnectionPath(slot, name))
           IN  /\ ConnectionPath(slot, name) \in Blocks
               /\ size \in Nat /\ size <= 92 /\ size % 2 = 0
<1>1. name <= MaxSymbolic /\ name <= 84 /\ MaxSymbolic \in Nat
    BY RequestAssumption
<1> DEFINE len == IF name > MaxSymbolic THEN MaxSymbolic ELSE name
<1>2. len = name
    BY <1>1
<1>3. /\ Symbolic(name) \in Blocks /\ Size(Symbolic(name)) = 2 + len + (len % 2)
      /\ Size(Symbolic(name)) % 2 = 0
    BY SymbolicBlock
<1> HIDE DEF len
<1>4. /\ ConnectionPath(slot, name) \in Blocks
      /\ Size(ConnectionPath(slot, name)) =
            (IF slot = NoRoute THEN 0 ELSE 6) + Size(Symbolic(name))
    BY ConnectionPathBlock
<1>5. Size(Symbolic(name)) \in Nat /\ Size(Symbolic(name)) <= 86
    BY <1>1, <1>2, <1>3
<1>6. PICK n \in {0, 6} : Size(ConnectionPath(slot, name)) = n + Size(Symbolic(name))
    BY <1>4
<1> QED BY <1>3, <1>4, <1>5, <1>6

LEMMA CxnCallHolds ==
    ASSUME NEW name \in NameLens, NEW slot \in Slots, NEW svc \in Nat, NEW data,
           data \in {OpenData(slot, name), CloseData(slot, name)},
           CxnCall(slot, svc, data, name)
    PROVE  BuffersHold'
<1>1. name \in Nat /\ slot \in Nat /\ MaxName \in Nat
    BY SizesAreNat
<1>2. CASE name >= MaxName
    BY Zenon, <1>2, BoundedNone DEF CxnCall, Refuse, Bounded, BuffersHold
<1>3. CASE ~(name >= MaxName)
    <2> DEFINE size == Size(ConnectionPath(slot, name))
    <2>1. size \in Nat /\ size <= 92
        BY <1>1, <1>3, CxnPathFits
    <2>2. /\ OpenData(slot, name) \in Blocks /\ Size(OpenData(slot, name)) = 36 + size
          /\ CloseData(slot, name) \in Blocks /\ Size(CloseData(slot, name)) = 12 + size
        BY <1>1, OpenBlock
    <2> HIDE DEF size
    <2>3. data \in Blocks /\ Size(data) <= Capacity["open"]
        BY <2>1, <2>2, Capacities
    <2>4. Bounded({} \cup {<<"open", Size(data)>>})
        BY Zenon, <2>3, BoundedNone, BoundedMore
    <2>5. {} \cup {<<"open", Size(data)>>} = {<<"open", Size(data)>>}
        OBVIOUS
    <2>6. SendDirect(svc, ConnectionManager, data, {<<"open", Size(data)>>})
        BY Zenon, <1>3 DEF CxnCall
    <2> QED BY Zenon, <2>3, <2>4, <2>5, <2>6, PartsOfPath, <1>1, DirectHolds
<1> QED BY <1>2, <1>3

LEMMA AppSendHolds ==
    ASSUME AppSend
    PROVE  BuffersHold'
<1>1. PICK n \in PathLens, d \in DataLens, slot \in Slots :
        Send(slot, 14, Bytes(n, "path"), Bytes(d, "data"), {})
    BY Zenon DEF AppSend
<1>2. n \in Nat /\ d \in Nat /\ slot \in Nat /\ "path" \in Kinds /\ "data" \in Kinds /\ 14 \in Nat
    BY SizesAreNat DEF Kinds
<1> QED BY Zenon, <1>1, <1>2, BytesBlock, BoundedNone, SendHolds

LEMMA AppSendConnectedHolds ==
    ASSUME AppSendConnected
    PROVE  BuffersHold'
<1>1. PICK n \in PathLens, d \in DataLens :
        IF Fits(MaxConnected, Bytes(n, "path"), Bytes(d, "data"))
        THEN /\ packet' = Connected(Request(14, Bytes(n, "path"), Bytes(d, "data")))
             /\ used' = {<<"cxnTx", Size(packet')>>}
        ELSE Refuse({})
    BY Zenon DEF AppSendConnected
<1>2. n \in Nat /\ d \in Nat /\ "path" \in Kinds /\ "data" \in Kinds /\ 14 \in Nat
    BY SizesAreNat DEF Kinds
<1> DEFINE path == Bytes(n, "path")  data == Bytes(d, "data")  cip == Request(14, path, data)
<1>3. path \in Blocks /\ data \in Blocks
    BY Zenon, <1>2, BytesBlock
<1>4. CASE Fits(MaxConnected, path, data)
    <2>1. packet' = Connected(cip) /\ used' = {<<"cxnTx", Size(packet')>>}
        BY Zenon, <1>1, <1>4
    <2>2. Size(path) \in Nat /\ Size(data) \in Nat /\ 2 + Size(path) + Size(data) <= MaxConnected
        BY <1>3, <1>4, SizeType DEF Fits
    <2> HIDE DEF path, data
    <2>3. cip \in Blocks /\ Size(cip) = 2 + Size(path) + Size(data)
        BY <1>2, <1>3, RequestBlock
    <2> HIDE DEF cip
    <2>4. Size(packet') = 46 + Size(cip)
        BY Zenon, <2>1, <2>3, ConnectedBlock
    <2>5. Size(packet') <= Capacity["cxnTx"]
        BY <2>2, <2>3, <2>4, Capacities, SizesAreNat
    <2>6. Bounded({} \cup {<<"cxnTx", Size(packet')>>})
        BY Zenon, <2>5, BoundedNone, BoundedMore
    <2>7. {} \cup {<<"cxnTx", Size(packet')>>} = {<<"cxnTx", Size(packet')>>}
        OBVIOUS
    <2> QED BY Zenon, <2>1, <2>6, <2>7 DEF Bounded, BuffersHold
<1>5. CASE ~Fits(MaxConnected, path, data)
    BY Zenon, <1>1, <1>5, BoundedNone DEF Refuse, Bounded, BuffersHold
<1> QED BY <1>4, <1>5

(* The requests of a step of the application, each with what it puts into  *)
(* the buffers first.                                                      *)
LEMMA TagWriteHolds ==
    ASSUME TagWrite
    PROVE  BuffersHold'
<1>1. PICK name \in NameLens, slot \in Slots, n \in TagLens :
        LET wdata == Number(2, 1) \o Bytes(2, "type") \o Bytes(n, "data")
        IN  TagCall(name, slot, 77, wdata, {<<"wdata", Size(wdata)>>})
    BY Zenon DEF TagWrite
<1> DEFINE wdata == Number(2, 1) \o Bytes(2, "type") \o Bytes(n, "data")
<1>2. n \in Nat /\ n <= MaxTagData /\ MaxTagData \in Nat /\ 77 \in Nat
    BY SizesAreNat
<1>3. wdata \in Blocks /\ Size(wdata) = 4 + n
    BY <1>2, TagDataBlock
<1>4. TagCall(name, slot, 77, wdata, {<<"wdata", Size(wdata)>>})
    BY Zenon, <1>1
<1> HIDE DEF wdata
<1>5. Size(wdata) <= Capacity["wdata"]
    BY <1>2, <1>3, Capacities
<1>6. Bounded({} \cup {<<"wdata", Size(wdata)>>})
    BY Zenon, <1>5, BoundedNone, BoundedMore
<1>7. {} \cup {<<"wdata", Size(wdata)>>} = {<<"wdata", Size(wdata)>>}
    OBVIOUS
<1> QED BY Zenon, <1>2, <1>3, <1>4, <1>6, <1>7, TagCallHolds

LEMMA BuffersHoldKept ==
    ASSUME BuffersHold, [Next]_vars
    PROVE  BuffersHold'
<1>1. CASE TagRead
    <2>1. PICK name \in NameLens, slot \in Slots : TagCall(name, slot, 76, Number(2, 1), {})
        BY Zenon, <1>1 DEF TagRead
    <2>2. 76 \in Nat /\ Number(2, 1) \in Blocks
        BY NumberBlock
    <2> QED BY Zenon, <2>1, <2>2, BoundedNone, TagCallHolds
<1>2. CASE TagWrite
    BY Zenon, <1>2, TagWriteHolds
<1>3. CASE CxnOpen
    <2>1. PICK name \in NameLens, slot \in Slots : CxnCall(slot, 84, OpenData(slot, name), name)
        BY Zenon, <1>3 DEF CxnOpen
    <2>2. 84 \in Nat /\ OpenData(slot, name) \in {OpenData(slot, name), CloseData(slot, name)}
        OBVIOUS
    <2> QED BY Zenon, <2>1, <2>2, CxnCallHolds
<1>4. CASE CxnClose
    <2>1. PICK name \in NameLens, slot \in Slots : CxnCall(slot, 78, CloseData(slot, name), name)
        BY Zenon, <1>4 DEF CxnClose
    <2>2. 78 \in Nat /\ CloseData(slot, name) \in {OpenData(slot, name), CloseData(slot, name)}
        OBVIOUS
    <2> QED BY Zenon, <2>1, <2>2, CxnCallHolds
<1>5. CASE AppSend \/ AppSendConnected
    BY Zenon, <1>5, AppSendHolds, AppSendConnectedHolds
<1>6. CASE used' = used
    BY Zenon, <1>6 DEF BuffersHold
<1>7. CASE ResponseArrives
    BY Zenon, <1>7, BoundedNone DEF ResponseArrives, Bounded, BuffersHold
<1> QED BY Zenon, <1>1, <1>2, <1>3, <1>4, <1>5, <1>6, <1>7
        DEF Next, RequestNext, PlcReceives, vars, requestVars

(* Neither the limits that are checked before a request is built nor the   *)
(* room that is left for what wraps it is off: of all six buffers, no byte *)
(* past the end is written (ExplicitMessage.cpp:33, 56, 63;                *)
(* Connection.cpp:111, 181; Tag.cpp:41, 85-89).                            *)
THEOREM BuffersNeverOverrun == Spec => []BuffersHold
<1>1. Init => BuffersHold
    BY DEF Init, RequestInit, BuffersHold
<1>2. BuffersHold /\ [Next]_vars => BuffersHold'
    BY Zenon, BuffersHoldKept
<1> QED BY <1>1, <1>2, PTL DEF Spec
-----------------------------------------------------------------------------
(* What a tag asks for is never refused for its size.                      *)
LEMMA TagSendTaken ==
    ASSUME NEW name \in Nat, name <= MaxSymbolic, NEW slot \in Nat,
           slot = NoRoute \/ slot <= 16, NEW svc \in Nat,
           NEW data \in Blocks, Size(data) <= 4 + MaxTagData, NEW buffers,
           Send(slot, svc, Symbolic(name), data, buffers)
    PROVE  status' = "Pending"
<1>1. /\ Size(Symbolic(name)) \in Nat /\ Size(Symbolic(name)) <= 3 + name
      /\ Size(Symbolic(name)) % 2 = 0
    BY SymbolicFits
<1>2. MaxTagData \in Nat /\ MaxSymbolic \in Nat /\ MaxCip \in Nat
      /\ MaxTagData + MaxSymbolic + 9 <= MaxCip
    BY SizesAreNat, RequestAssumption
<1>3. Size(data) \in Nat
    BY SizeType
<1>4. Fits(MaxCip, Symbolic(name), data)
    BY <1>1, <1>2, <1>3 DEF Fits
<1> QED BY Zenon, <1>4 DEF Send, SendDirect, SendRouted

LEMMA TagCallTaken ==
    ASSUME NEW name \in NameLens, NEW slot \in Slots, NEW svc \in Nat, NEW data \in Blocks,
           Size(data) <= 4 + MaxTagData, NEW buffers, TagCall(name, slot, svc, data, buffers)
    PROVE  TagCallsFit'
<1>1. name \in Nat /\ slot \in Nat /\ MaxSymbolic \in Nat
    BY SizesAreNat
<1>2. asked' = Asked("tag", slot, svc, Symbolic(name), data, Bytes(name, "name"))
    BY Zenon DEF TagCall, Ask
<1>3. asked'.name = Bytes(name, "name") /\ asked'.slot = slot
    BY Zenon, <1>2 DEF Asked
<1>4. Size(asked'.name) = name
    BY Zenon, <1>1, <1>3, BytesBlock DEF Kinds
<1> SUFFICES ASSUME Size(asked'.name) <= MaxSymbolic, asked'.slot = NoRoute \/ asked'.slot <= 16
             PROVE  status' = "Pending"
    BY Zenon DEF TagCallsFit
<1>5. ~(name > MaxSymbolic) /\ name <= MaxSymbolic /\ (slot = NoRoute \/ slot <= 16)
    BY <1>1, <1>3, <1>4
<1>6. Send(slot, svc, Symbolic(name), data,
           buffers \cup {<<"path", Size(Symbolic(name))>>})
    BY Zenon, <1>5 DEF TagCall
<1> QED BY Zenon, <1>1, <1>5, <1>6, TagSendTaken

LEMMA OthersTaken ==
    ASSUME asked'.by # "tag"
    PROVE  TagCallsFit'
BY Zenon DEF TagCallsFit

LEMMA TagCallsFitKept ==
    ASSUME TagCallsFit, [Next]_vars
    PROVE  TagCallsFit'
<1>1. CASE TagRead
    <2>1. PICK name \in NameLens, slot \in Slots : TagCall(name, slot, 76, Number(2, 1), {})
        BY Zenon, <1>1 DEF TagRead
    <2>2. 76 \in Nat /\ MaxTagData \in Nat /\ 2 <= 4 + MaxTagData
        BY SizesAreNat
    <2>3. Number(2, 1) \in Blocks /\ Size(Number(2, 1)) = 2
        BY NumberBlock
    <2> QED BY Zenon, <2>1, <2>2, <2>3, TagCallTaken
<1>2. CASE TagWrite
    <2>1. PICK name \in NameLens, slot \in Slots, n \in TagLens :
            LET wdata == Number(2, 1) \o Bytes(2, "type") \o Bytes(n, "data")
            IN  TagCall(name, slot, 77, wdata, {<<"wdata", Size(wdata)>>})
        BY Zenon, <1>2 DEF TagWrite
    <2> DEFINE wdata == Number(2, 1) \o Bytes(2, "type") \o Bytes(n, "data")
    <2>2. n \in Nat /\ n <= MaxTagData /\ MaxTagData \in Nat /\ 77 \in Nat
        BY SizesAreNat
    <2>3. wdata \in Blocks /\ Size(wdata) = 4 + n
        BY <2>2, TagDataBlock
    <2>4. TagCall(name, slot, 77, wdata, {<<"wdata", Size(wdata)>>})
        BY Zenon, <2>1
    <2> HIDE DEF wdata
    <2>5. Size(wdata) <= 4 + MaxTagData
        BY <2>2, <2>3
    <2> QED BY Zenon, <2>2, <2>3, <2>4, <2>5, TagCallTaken
<1>3. CASE CxnOpen \/ CxnClose
    <2>1. \E name, slot, svc, data :
            asked' = Asked("connection", slot, svc, ConnectionManager, data, Bytes(name, "name"))
        BY Zenon, <1>3 DEF CxnOpen, CxnClose, CxnCall, Ask
    <2> QED BY <2>1, OthersTaken DEF Asked
<1>4. CASE AppSend \/ AppSendConnected
    <2>1. \E by \in {"message", "connected"} : \E slot, svc, path, data, name :
            asked' = Asked(by, slot, svc, path, data, name)
        BY Zenon, <1>4 DEF AppSend, AppSendConnected, Ask
    <2> QED BY <2>1, OthersTaken DEF Asked
<1>5. CASE asked' = asked /\ status' = status
    BY Zenon, <1>5 DEF TagCallsFit
<1>6. CASE ResponseArrives
    BY <1>6, OthersTaken DEF ResponseArrives, Asked
<1> QED BY Zenon, <1>1, <1>2, <1>3, <1>4, <1>5, <1>6
        DEF Next, RequestNext, PlcReceives, vars, requestVars

(* The limits on names and on data leave room for each other and for the   *)
(* header of an Unconnected Send: the message refuses no read or write     *)
(* that Tag has taken (Tag.cpp:16, 73, 79; ExplicitMessage.h:26).          *)
THEOREM TagCallsAlwaysFit == Spec => []TagCallsFit
<1>1. Init => TagCallsFit
    BY DEF Init, RequestInit, TagCallsFit, Asked
<1>2. TagCallsFit /\ [Next]_vars => TagCallsFit'
    BY Zenon, TagCallsFitKept
<1> QED BY <1>1, <1>2, PTL DEF Spec
-----------------------------------------------------------------------------
(* What the PLC reads is what was asked.  The parts of a request first.    *)
Octets == 0..255
WordMax == 65535
Words  == 0..WordMax

LEMMA OctetRead ==
    ASSUME NEW v \in Octets
    PROVE  v \in Nat /\ v % (256 ^ 1) = v
<1>1. v \in Nat /\ v % 256 = v
    BY DEF Octets
<1>2. 256 ^ 1 = 256
    OBVIOUS
<1> QED BY SMT, <1>1, <1>2

LEMMA Remainder ==
    ASSUME NEW n \in Nat, NEW v \in Nat, v < n
    PROVE  v % n = v
BY SMT

LEMMA WordRead ==
    ASSUME NEW v \in Words
    PROVE  v \in Nat /\ v % (256 ^ 2) = v
<1>1. PICK n : n = 256 ^ 2
    OBVIOUS
<1>2. n \in Nat /\ v \in Nat /\ v < n
    BY SMT, <1>1 DEF Words, WordMax
<1>3. v % n = v
    BY Zenon, <1>2, Remainder
<1> QED BY Zenon, <1>1, <1>2, <1>3

LEMMA SmallWords ==
    0 \in Words /\ 4 \in Words /\ \A n \in Nat : n <= 2000 => n \in Words
<1>1. WordMax \in Nat /\ 2000 <= WordMax
    BY SMT DEF WordMax
<1> QED BY SMT, <1>1 DEF Words

(* Lengths of requests, and of packets, keep well below a word.            *)
CipMax    == 513
LengthMax == 1000

LEMMA LengthWords ==
    ASSUME NEW n \in Nat, n <= LengthMax
    PROVE  n \in Words /\ 2 + n \in Words /\ 16 + n \in Words /\ 22 + n \in Words
BY SMT, SmallWords DEF LengthMax

LEMMA ReadByte ==
    ASSUME NEW v \in Octets, NEW b, NEW at, Holds(b, at, 1, v)
    PROVE  Read(b, at, 1) = v
<1>1. v \in Nat /\ v % (256 ^ 1) = v
    BY Zenon, OctetRead
<1>2. 1 \in {1, 2}
    OBVIOUS
<1> QED BY Zenon, <1>1, <1>2, HoldsRead

LEMMA ReadWord ==
    ASSUME NEW v \in Words, NEW b, NEW at, Holds(b, at, 2, v)
    PROVE  Read(b, at, 2) = v
<1>1. v \in Nat /\ v % (256 ^ 2) = v
    BY Zenon, WordRead
<1>2. 2 \in {1, 2}
    OBVIOUS
<1> QED BY Zenon, <1>1, <1>2, HoldsRead

LEMMA TakeAll ==
    ASSUME NEW b \in Blocks
    PROVE  Take(b, Size(b)) = b
<1>1. b \o <<>> = b /\ <<>> \in Blocks
    BY DEF Blocks
<1> QED BY Zenon, <1>1, TakeFirst

(* The longest path whose length fits its byte.                           *)
PathMax == 510

LEMMA Halves ==
    ASSUME NEW n \in Nat, n % 2 = 0, n <= PathMax
    PROVE  n \div 2 \in Octets /\ 2 * (n \div 2) = n
BY DEF Octets, PathMax

(* Behind nothing is all of it, behind a block what follows it.            *)
LEMMA HoldsFirst ==
    ASSUME NEW c \in Blocks, NEW n \in {1, 2}, NEW v \in Nat
    PROVE  Holds(Number(n, v) \o c, 0, n, v)
<1>1. Number(n, v) \in Blocks
    BY NumberBlock
<1>2. Number(n, v) \o c \in Blocks
    BY <1>1, SizeOfConcat
<1>3. Behind(Number(n, v) \o c, 0, Number(n, v) \o c)
    BY Zenon, <1>2, BehindHere
<1> QED BY Zenon, <1>3 DEF Holds

LEMMA RequestParts ==
    ASSUME NEW svc \in Octets, NEW path \in Blocks, NEW data \in Blocks,
           Size(path) % 2 = 0, Size(path) <= PathMax
    PROVE  LET cip == Request(svc, path, data)
           IN  /\ Read(cip, 0, 1) = svc
               /\ 2 * Read(cip, 1, 1) = Size(path)
               /\ Take(Drop(cip, 2), Size(path)) = path
               /\ Drop(cip, 2 + Size(path)) = data
<1> DEFINE cip == Request(svc, path, data)
           w == Size(path) \div 2
           x == Number(1, svc)  y == Number(1, w)
<1>1. w \in Octets /\ 2 * w = Size(path) /\ Size(path) \in Nat
    BY SizeType, Halves
<1>2. svc \in Nat /\ w \in Nat /\ 1 \in {1, 2} /\ 0 \in Nat
    <2> HIDE DEF w
    <2> QED BY <1>1 DEF Octets
<1>3. cip = x \o y \o path \o data
    BY DEF Request
<1> HIDE DEF cip, w
<1>4. x \in Blocks /\ Size(x) = 1 /\ y \in Blocks /\ Size(y) = 1
    BY Zenon, <1>2, NumberBlock
<1>5. Holds(x \o y, 1, 1, w)
    BY Zenon, <1>2, <1>4, HoldsHere
<1>6. Holds(x \o y, 0, 1, svc)
    BY Zenon, <1>2, <1>4, HoldsFirst
<1>7. Holds(x \o y \o path \o data, 1, 1, w) /\ Holds(x \o y \o path \o data, 0, 1, svc)
    <2>1. Holds(x \o y \o path, 1, 1, w) /\ Holds(x \o y \o path, 0, 1, svc)
        BY Zenon, <1>2, <1>5, <1>6, HoldsMore
    <2> QED BY Zenon, <1>2, <2>1, HoldsMore
<1>8. Read(cip, 0, 1) = svc /\ Read(cip, 1, 1) = w
    BY Zenon, <1>1, <1>3, <1>7, ReadByte
<1> HIDE DEF x, y
<1>9. x \o y \in Blocks /\ Size(x \o y) = 2
    BY <1>4, SizeOfConcat
<1>10. x \o y \o path \in Blocks /\ Size(x \o y \o path) = 2 + Size(path)
    BY Zenon, <1>9, SizeOfConcat
<1>11. Drop(cip, 2) = path \o data
    <2>1. x \o y \o path \o data = (x \o y) \o (path \o data)
        BY <1>9, BlocksAssociate
    <2>2. path \o data \in Blocks
        BY SizeOfConcat
    <2> QED BY Zenon, <1>3, <1>9, <2>1, <2>2, DropFirst
<1>12. Take(path \o data, Size(path)) = path
    BY TakeFirst
<1>13. Drop(cip, 2 + Size(path)) = data
    BY Zenon, <1>3, <1>10, DropFirst
<1>14. 2 * Read(cip, 1, 1) = Size(path)
    BY Zenon, <1>1, <1>8
<1> QED BY Zenon, <1>8, <1>11, <1>12, <1>13, <1>14 DEF cip

LEMMA RouteHolds ==
    ASSUME NEW slot \in Nat
    PROVE  Holds(Route(slot), 3, 1, slot)
<1> DEFINE x == Number(1, 1)  y == Number(1, 0)
<1>1. x \in Blocks /\ Size(x) = 1 /\ y \in Blocks /\ Size(y) = 1 /\ 1 \in {1, 2}
    BY NumberBlock
<1>2. Route(slot) = x \o y \o x \o Number(1, slot)
    BY Zenon DEF Route
<1> HIDE DEF x, y
<1>3. x \o y \o x \in Blocks /\ Size(x \o y \o x) = 3
    BY <1>1, Join3
<1> QED BY Zenon, <1>1, <1>2, <1>3, HoldsHere

LEMMA WrapperParts ==
    ASSUME NEW slot \in Octets, NEW svc \in Nat, NEW path \in Blocks, NEW data \in Blocks,
           2 + Size(path) + Size(data) \in Words
    PROVE  LET rest == Wrapper(slot, svc, path, data)
           IN  Embedded(rest) = Request(svc, path, data) /\ SlotIn(rest) = slot
<1> DEFINE rest == Wrapper(slot, svc, path, data)
           e == Request(svc, path, data)
           x == Number(1, 10)  y == Number(1, 5)  n == Number(2, Size(e))
           p0 == Pad(Size(e))  r == Route(slot)
<1>1. e \in Blocks /\ Size(e) \in Words
    BY Zenon, RequestBlock
<1>2. slot \in Nat /\ Size(e) \in Nat /\ 1 \in {1, 2} /\ 2 \in {1, 2}
    BY Zenon, <1>1, OctetRead, WordRead
<1>3. rest = x \o y \o n \o e \o p0 \o r
    BY Zenon DEF Wrapper
<1>4. x \in Blocks /\ y \in Blocks /\ n \in Blocks /\ Size(x) = 1 /\ Size(y) = 1 /\ Size(n) = 2
    <2> HIDE DEF e
    <2> QED BY <1>2, NumberBlock
<1>5. p0 \in Blocks /\ r \in Blocks /\ Size(r) = 4 /\ Size(p0) \in Nat
    BY Zenon, <1>2, PadBlock, PartsOfPath, SizeType
<1>6. Holds(r, 3, 1, slot)
    BY Zenon, <1>2, RouteHolds
<1> HIDE DEF rest, e, x, y, p0, r
<1>7. x \o y \in Blocks /\ Size(x \o y) = 2
    BY <1>4, SizeOfConcat
<1>8. Holds(x \o y \o n, 2, 2, Size(e))
    BY Zenon, <1>2, <1>7, HoldsHere
<1>9. Holds(x \o y \o n \o e \o p0 \o r, 2, 2, Size(e))
    <2>1. Holds(x \o y \o n \o e, 2, 2, Size(e))
        BY Zenon, <1>1, <1>2, <1>8, HoldsMore
    <2>2. Holds(x \o y \o n \o e \o p0, 2, 2, Size(e))
        BY Zenon, <1>2, <1>5, <2>1, HoldsMore
    <2> QED BY Zenon, <1>2, <1>5, <2>2, HoldsMore
<1>10. Read(rest, 2, 2) = Size(e)
    BY Zenon, <1>1, <1>3, <1>9, ReadWord
<1> HIDE DEF n
<1>11. x \o y \o n \in Blocks /\ Size(x \o y \o n) = 4
    BY <1>4, Join3
<1>12. Embedded(rest) = e
    <2>1. Behind(x \o y \o n \o e, 4, e)
        BY Zenon, <1>1, <1>11, BehindHere
    <2>2. Behind(x \o y \o n \o e \o p0, 4, e \o p0)
        BY Zenon, <1>1, <1>5, <2>1, BehindMore
    <2>3. e \o p0 \in Blocks
        BY <1>1, <1>5, SizeOfConcat
    <2>4. Behind(x \o y \o n \o e \o p0 \o r, 4, (e \o p0) \o r)
        BY Zenon, <1>5, <2>2, <2>3, BehindMore
    <2>5. (e \o p0) \o r = e \o (p0 \o r) /\ p0 \o r \in Blocks /\ e \o (p0 \o r) \in Blocks
        BY <1>1, <1>5, BlocksAssociate, SizeOfConcat
    <2>6. Drop(rest, 4) = e \o (p0 \o r)
        BY Zenon, <1>3, <2>4, <2>5, BehindDrop
    <2>7. Take(e \o (p0 \o r), Size(e)) = e
        BY Zenon, <1>1, <2>5, TakeFirst
    <2> QED BY Zenon, <1>10, <2>6, <2>7 DEF Embedded
<1>13. /\ x \o y \o n \o e \o p0 \in Blocks
       /\ Size(x \o y \o n \o e \o p0) = 4 + Size(e) + Size(p0)
    BY <1>1, <1>5, <1>11, Join3
<1>14. Size(rest) = 4 + Size(e) + Size(p0) + 4
    BY Zenon, <1>3, <1>5, <1>13, SizeOfConcat
<1>15. Holds(rest, (4 + Size(e) + Size(p0)) + 3, 1, slot)
    BY Zenon, <1>2, <1>3, <1>6, <1>13, HoldsLater
<1>16. (4 + Size(e) + Size(p0)) + 3 = Size(rest) - 1 /\ Size(rest) >= 8 + Size(e)
    BY <1>2, <1>5, <1>14
<1>17. SlotIn(rest) = slot
    <2>1. Read(rest, Size(rest) - 1, 1) = slot
        BY Zenon, <1>15, <1>16, ReadByte
    <2> QED BY Zenon, <1>10, <1>16, <2>1 DEF SlotIn
<1> QED BY Zenon, <1>12, <1>17 DEF rest, e

(* The PLC's reading of a packet, up to the CIP request in it.             *)
Received(pk) == Take(Drop(pk, 24), Read(pk, 2, 2))
ItemIn(body, first) == Take(Drop(body, 16 + first), Read(body, 14 + first, 2))

LEMMA UnconnectedParts ==
    ASSUME NEW cip \in Blocks, Size(cip) \in Words, 16 + Size(cip) \in Words
    PROVE  LET body == Received(Unconnected(cip))
           IN  Read(body, 10, 2) = 0 /\ ItemIn(body, 0) = cip
<1> DEFINE f == Framed(16 + Size(cip))
<1>1. 2 \in {1, 2} /\ 16 + Size(cip) \in Nat /\ Size(cip) \in Nat /\ 0 \in Words
      /\ 16 + 0 = 16 /\ 14 + 0 = 14
    <2>1. 2 \in {1, 2} /\ 16 + 0 = 16 /\ 14 + 0 = 14
        OBVIOUS
    <2> QED BY Zenon, <2>1, SmallWords, WordRead
<1>2. f \in Blocks /\ Size(f) = 24 /\ Holds(f, 2, 2, 16 + Size(cip))
    BY Zenon, <1>1, FramedBlock
<1>3. /\ Body(cip) \in Blocks /\ Size(Body(cip)) = 16 + Size(cip)
      /\ Holds(Body(cip), 10, 2, 0) /\ Holds(Body(cip), 14, 2, Size(cip))
      /\ Behind(Body(cip), 16, cip) /\ Unconnected(cip) = f \o Body(cip)
    BY Zenon, BodyBlock
<1> HIDE DEF f
<1>4. Read(Unconnected(cip), 2, 2) = 16 + Size(cip)
    <2>1. Holds(f \o Body(cip), 2, 2, 16 + Size(cip))
        BY Zenon, <1>1, <1>2, <1>3, HoldsMore
    <2> QED BY Zenon, <1>3, <2>1, ReadWord
<1>5. Received(Unconnected(cip)) = Body(cip)
    <2>1. Drop(Unconnected(cip), 24) = Body(cip)
        BY Zenon, <1>2, <1>3, DropFirst
    <2>2. Take(Body(cip), 16 + Size(cip)) = Body(cip)
        BY Zenon, <1>3, TakeAll
    <2> QED BY Zenon, <1>4, <2>1, <2>2 DEF Received
<1>6. Read(Body(cip), 10, 2) = 0 /\ Read(Body(cip), 14, 2) = Size(cip)
    BY Zenon, <1>1, <1>3, ReadWord
<1>7. ItemIn(Body(cip), 0) = cip
    <2>1. Drop(Body(cip), 16) = cip
        BY Zenon, <1>3, BehindDrop
    <2>2. Take(cip, Size(cip)) = cip
        BY Zenon, TakeAll
    <2> QED BY Zenon, <1>1, <1>6, <2>1, <2>2 DEF ItemIn
<1> QED BY Zenon, <1>5, <1>6, <1>7

LEMMA ConnectedParts ==
    ASSUME NEW cip \in Blocks, Size(cip) \in Words, 22 + Size(cip) \in Words,
           2 + Size(cip) \in Words
    PROVE  LET body == Received(Connected(cip))
           IN  Read(body, 10, 2) = 4 /\ Drop(ItemIn(body, 4), 2) = cip
<1> DEFINE f == Framed(22 + Size(cip))  q == Bytes(2, "sequence")
<1>1. 2 \in {1, 2} /\ 22 + Size(cip) \in Nat /\ Size(cip) \in Nat /\ 2 + Size(cip) \in Nat
      /\ 4 \in Words /\ 16 + 4 = 20 /\ 14 + 4 = 18
    <2>1. 2 \in {1, 2} /\ 16 + 4 = 20 /\ 14 + 4 = 18
        OBVIOUS
    <2> QED BY Zenon, <2>1, SmallWords, WordRead
<1>2. f \in Blocks /\ Size(f) = 24 /\ Holds(f, 2, 2, 22 + Size(cip))
    BY Zenon, <1>1, FramedBlock
<1> DEFINE body == ConnectedBody(cip)
<1>3. /\ body \in Blocks /\ Size(body) = 22 + Size(cip)
      /\ Holds(body, 10, 2, 4) /\ Holds(body, 18, 2, 2 + Size(cip))
      /\ Behind(body, 20, q \o cip) /\ q \in Blocks /\ Size(q) = 2
      /\ Connected(cip) = f \o body
    BY Zenon, ConnectedBodyBlock
<1> HIDE DEF f, q, body
<1>4. Read(Connected(cip), 2, 2) = 22 + Size(cip)
    <2>1. Holds(f \o body, 2, 2, 22 + Size(cip))
        BY Zenon, <1>1, <1>2, <1>3, HoldsMore
    <2> QED BY Zenon, <1>3, <2>1, ReadWord
<1>5. Received(Connected(cip)) = body
    <2>1. Drop(Connected(cip), 24) = body
        BY Zenon, <1>2, <1>3, DropFirst
    <2>2. Take(body, 22 + Size(cip)) = body
        BY Zenon, <1>3, TakeAll
    <2> QED BY Zenon, <1>4, <2>1, <2>2 DEF Received
<1>6. Read(body, 10, 2) = 4 /\ Read(body, 18, 2) = 2 + Size(cip)
    BY Zenon, <1>1, <1>3, ReadWord
<1>7. Drop(ItemIn(body, 4), 2) = cip
    <2>1. q \o cip \in Blocks /\ Size(q \o cip) = 2 + Size(cip)
        BY Zenon, <1>3, SizeOfConcat
    <2>2. Drop(body, 20) = q \o cip
        BY Zenon, <1>3, <2>1, BehindDrop
    <2>3. Take(q \o cip, 2 + Size(cip)) = q \o cip
        BY Zenon, <2>1, TakeAll
    <2>4. Drop(q \o cip, 2) = cip
        BY Zenon, <1>3, DropFirst
    <2> QED BY Zenon, <1>1, <1>6, <2>2, <2>3, <2>4 DEF ItemIn
<1> QED BY Zenon, <1>5, <1>6, <1>7

(* The byte that a symbolic segment begins with.                          *)
SymbolicTag == 145

LEMMA SymbolicParts ==
    ASSUME NEW name \in Nat, name <= MaxSymbolic
    PROVE  NameIn(Symbolic(name)) = Bytes(name, "name") /\ Read(Symbolic(name), 0, 1) = SymbolicTag
<1>1. /\ name \in Octets /\ SymbolicTag \in Octets /\ SymbolicTag \in Nat
      /\ 1 \in {1, 2} /\ "name" \in Kinds
    BY RequestAssumption DEF Octets, Kinds, SymbolicTag
<1> DEFINE x == Number(1, SymbolicTag)  y == Number(1, name)  z == Bytes(name, "name")  u == Pad(name)
<1>2. Symbolic(name) = x \o y \o z \o u
    <2>1. ~(name > MaxSymbolic)
        BY RequestAssumption
    <2> QED BY SMT, <2>1 DEF Symbolic, SymbolicTag
<1>3. /\ x \in Blocks /\ Size(x) = 1 /\ y \in Blocks /\ Size(y) = 1
      /\ z \in Blocks /\ Size(z) = name /\ u \in Blocks
    BY Zenon, <1>1, NumberBlock, BytesBlock, PadBlock
<1>4. Holds(x \o y \o z \o u, 0, 1, SymbolicTag) /\ Holds(x \o y \o z \o u, 1, 1, name)
    <2> HIDE DEF z, u
    <2>1. Holds(x \o y, 0, 1, SymbolicTag) /\ Holds(x \o y, 1, 1, name)
        BY Zenon, <1>1, <1>3, HoldsFirst, HoldsHere
    <2>2. Holds(x \o y \o z, 0, 1, SymbolicTag) /\ Holds(x \o y \o z, 1, 1, name)
        BY Zenon, <1>1, <1>3, <2>1, HoldsMore
    <2> QED BY Zenon, <1>1, <1>3, <2>2, HoldsMore
<1>5. Read(Symbolic(name), 0, 1) = SymbolicTag /\ Read(Symbolic(name), 1, 1) = name
    BY Zenon, <1>1, <1>2, <1>4, ReadByte
<1> HIDE DEF x, y, z, u
<1>6. x \o y \in Blocks /\ Size(x \o y) = 2 /\ z \o u \in Blocks
    BY <1>3, SizeOfConcat
<1>7. (x \o y) \o z \o u = (x \o y) \o (z \o u)
    BY <1>3, <1>6, BlocksAssociate
<1>8. Drop(Symbolic(name), 2) = z \o u
    BY Zenon, <1>2, <1>6, <1>7, DropFirst
<1>9. Take(z \o u, name) = z
    BY Zenon, <1>3, TakeFirst
<1> QED BY Zenon, <1>5, <1>8, <1>9 DEF NameIn, z, SymbolicTag

LEMMA PlainPathParts ==
    ASSUME NEW n \in Nat
    PROVE  NameIn(Bytes(n, "path")) = <<>>
<1> DEFINE b == Bytes(n, "path")
<1>1. b \in Blocks /\ Size(b) = n
    BY Zenon, BytesBlock DEF Kinds
<1>2. Drop(b, 0) = b
    BY Zenon, <1>1, BehindHere, BehindDrop
<1>3. b = <<>> \/ b[1] = <<n, "path", 0>>
    BY DEF Bytes
<1> HIDE DEF b
<1>4. Read(b, 0, 1) = 0
    <2>1. CASE b = <<>>
        BY <1>2, <2>1 DEF Read
    <2>2. CASE b[1] = <<n, "path", 0>>
        <3>1. b[1][3] = 0
            BY <2>2
        <3> QED BY Zenon, <1>2, <3>1 DEF Read
    <2> QED BY <1>3, <2>1, <2>2
<1>5. Read(b, 0, 1) # 145
    BY <1>4
<1> QED BY Zenon, <1>5 DEF NameIn, b

LEMMA CxnPathParts ==
    ASSUME NEW slot \in Octets, NEW name \in Nat, name < MaxName
    PROVE  LET cxnPath == ConnectionPath(slot, name)
           IN  (IF Read(cxnPath, 0, 1) = 1
                THEN [slot |-> Read(cxnPath, 1, 1), name |-> NameIn(Drop(cxnPath, 6))]
                ELSE [slot |-> NoRoute, name |-> NameIn(cxnPath)])
               = [slot |-> slot, name |-> Bytes(name, "name")]
<1> DEFINE cxnPath == ConnectionPath(slot, name)  s == Symbolic(name)
           x == Number(1, 1)  y == Number(1, slot)  m == MessageRouter
<1>1. name <= MaxSymbolic
    BY RequestAssumption
<1>2. NameIn(s) = Bytes(name, "name") /\ Read(s, 0, 1) = SymbolicTag /\ s \in Blocks
    BY Zenon, <1>1, SymbolicParts, SymbolicFits
<1>3. SymbolicTag # 1 /\ 1 \in Octets /\ 1 \in Nat /\ slot \in Nat /\ 1 \in {1, 2} /\ s \in Blocks
    BY <1>2 DEF Octets, SymbolicTag
<1>4. CASE slot = NoRoute
    <2>1. cxnPath = <<>> \o s
        BY Zenon, <1>4 DEF ConnectionPath
    <2>2. \A b \in Blocks : <<>> \o b = b
        BY DEF Blocks
    <2>3. cxnPath = s
        BY Zenon, <1>2, <2>1, <2>2
    <2> HIDE DEF cxnPath, s
    <2> QED BY Zenon, <1>2, <1>3, <1>4, <2>3 DEF cxnPath
<1>5. CASE slot # NoRoute
    <2>1. cxnPath = x \o y \o m \o s
        BY Zenon, <1>5 DEF ConnectionPath
    <2>2. x \in Blocks /\ Size(x) = 1 /\ y \in Blocks /\ Size(y) = 1 /\ m \in Blocks /\ Size(m) = 4
        BY Zenon, <1>3, NumberBlock, PartsOfPath
    <2> HIDE DEF s, m, cxnPath
    <2>3. Holds(x \o y, 0, 1, 1) /\ Holds(x \o y, 1, 1, slot)
        BY Zenon, <1>3, <2>2, HoldsFirst, HoldsHere
    <2>4. Holds(x \o y \o m, 0, 1, 1) /\ Holds(x \o y \o m, 1, 1, slot)
        BY Zenon, <1>3, <2>2, <2>3, HoldsMore
    <2>5. Holds(x \o y \o m \o s, 0, 1, 1) /\ Holds(x \o y \o m \o s, 1, 1, slot)
        BY Zenon, <1>2, <1>3, <2>4, HoldsMore
    <2>6. Read(cxnPath, 0, 1) = 1 /\ Read(cxnPath, 1, 1) = slot
        BY Zenon, <1>3, <2>1, <2>5, ReadByte
    <2> HIDE DEF x, y
    <2>7. x \o y \o m \in Blocks /\ Size(x \o y \o m) = 6
        BY <2>2, Join3
    <2>8. Drop(cxnPath, 6) = s
        BY Zenon, <1>2, <2>1, <2>7, DropFirst
    <2> QED BY Zenon, <1>2, <2>6, <2>8 DEF cxnPath
<1> QED BY <1>4, <1>5

(* The service of an Unconnected Send.                                     *)
RoutedService == 82

(* What the PLC understands a packet to ask, for a call of that kind.      *)
Understanding(by, pk) ==
    LET body  == Received(pk)
        first == Read(body, 10, 2)
        cip   == IF first = 0 THEN ItemIn(body, first) ELSE Drop(ItemIn(body, first), 2)
        rest  == Drop(cip, 2 + 2 * Read(cip, 1, 1))
    IN  IF first = 0 /\ Read(cip, 0, 1) = RoutedService
        THEN Understood(by, SlotIn(rest), Embedded(rest))
        ELSE Understood(by, NoRoute, cip)

LEMMA DirectUnderstood ==
    ASSUME NEW cip \in Blocks, Size(cip) <= LengthMax, Read(cip, 0, 1) # RoutedService, NEW by
    PROVE  Understanding(by, Unconnected(cip)) = Understood(by, NoRoute, cip)
<1>1. Size(cip) \in Words /\ 16 + Size(cip) \in Words
    BY Zenon, SizeType, LengthWords
<1>2. Read(Received(Unconnected(cip)), 10, 2) = 0 /\ ItemIn(Received(Unconnected(cip)), 0) = cip
    BY Zenon, <1>1, UnconnectedParts
<1> QED BY <1>2 DEF Understanding

LEMMA ConnectedUnderstood ==
    ASSUME NEW cip \in Blocks, Size(cip) <= LengthMax, NEW by
    PROVE  Understanding(by, Connected(cip)) = Understood(by, NoRoute, cip)
<1>1. Size(cip) \in Words /\ 2 + Size(cip) \in Words /\ 22 + Size(cip) \in Words
    BY Zenon, SizeType, LengthWords
<1>2. /\ Read(Received(Connected(cip)), 10, 2) = 4
      /\ Drop(ItemIn(Received(Connected(cip)), 4), 2) = cip
    BY Zenon, <1>1, ConnectedParts
<1>3. 4 # 0
    OBVIOUS
<1> QED BY Zenon, <1>2, <1>3 DEF Understanding

(* An Unconnected Send is understood as what it carries.                   *)
LEMMA RoutedUnderstood ==
    ASSUME NEW slot \in Octets, NEW svc \in Nat, NEW path \in Blocks, NEW data \in Blocks,
           2 + Size(path) + Size(data) <= CipMax, NEW by
    PROVE  Understanding(by, Unconnected(Request(RoutedService, ConnectionManager,
                                                 Wrapper(slot, svc, path, data))))
             = Understood(by, slot, Request(svc, path, data))
<1> DEFINE w == Wrapper(slot, svc, path, data)
           m == ConnectionManager
           cip == Request(RoutedService, m, w)
           len == 2 + Size(path) + Size(data)
<1>1. Size(path) \in Nat /\ Size(data) \in Nat /\ slot \in Nat
    BY SizeType DEF Octets
<1>2. w \in Blocks /\ Size(w) = 8 + len + (len % 2) /\ len \in Nat /\ len <= CipMax
    <2>1. w \in Blocks /\ Size(w) = 8 + len + (len % 2)
        BY <1>1, WrapperBlock
    <2> QED BY <1>1, <2>1
<1>3. Embedded(w) = Request(svc, path, data) /\ SlotIn(w) = slot
    <2>1. len \in Words
        <3> HIDE DEF len
        <3>1. len <= LengthMax
            BY <1>2 DEF CipMax, LengthMax
        <3> QED BY Zenon, <1>2, <3>1, LengthWords
    <2> QED BY Zenon, <2>1, WrapperParts
<1>4. m \in Blocks /\ Size(m) = 4
    BY Zenon, <1>1, PartsOfPath
<1> HIDE DEF w, m, len
<1>5. cip \in Blocks /\ Size(cip) = 2 + Size(m) + Size(w) /\ RoutedService \in Octets /\ Size(m) % 2 = 0
      /\ Size(m) <= PathMax
    BY <1>2, <1>4, RequestBlock DEF Octets, RoutedService, PathMax
<1>6. Size(cip) \in Nat /\ Size(cip) <= LengthMax
    BY <1>2, <1>4, <1>5 DEF CipMax, LengthMax
<1>7. Read(cip, 0, 1) = RoutedService /\ 2 * Read(cip, 1, 1) = Size(m) /\ Drop(cip, 2 + Size(m)) = w
    BY Zenon, <1>2, <1>4, <1>5, RequestParts
<1>8. Size(cip) \in Words /\ 16 + Size(cip) \in Words
    BY Zenon, <1>6, LengthWords
<1>9. Read(Received(Unconnected(cip)), 10, 2) = 0 /\ ItemIn(Received(Unconnected(cip)), 0) = cip
    BY Zenon, <1>5, <1>8, UnconnectedParts
<1>10. Understanding(by, Unconnected(cip)) = Understood(by, SlotIn(w), Embedded(w))
    BY Zenon, <1>7, <1>9 DEF Understanding
<1> QED BY Zenon, <1>3, <1>10 DEF w, m

(* The request itself: of a tag or a message, and of a connection.         *)
LEMMA RequestUnderstood ==
    ASSUME NEW svc \in Octets, svc # 84, svc # 78, NEW path \in Blocks, NEW data \in Blocks,
           Size(path) % 2 = 0, Size(path) <= PathMax, NEW by, NEW slot
    PROVE  Understood(by, slot, Request(svc, path, data))
             = Asked(by, slot, svc, path, data, NameIn(path))
<1> DEFINE cip == Request(svc, path, data)
<1>1. /\ Read(cip, 0, 1) = svc /\ 2 * Read(cip, 1, 1) = Size(path)
      /\ Take(Drop(cip, 2), Size(path)) = path /\ Drop(cip, 2 + Size(path)) = data
    BY Zenon, RequestParts
<1> HIDE DEF cip
<1> DEFINE target == CASE svc = 84 -> CxnTarget(data, 35, 36)
                       [] svc = 78 -> CxnTarget(data, 10, 12)
                       [] OTHER    -> [slot |-> slot, name |-> NameIn(path)]
<1>2. Understood(by, slot, cip) = Asked(by, target.slot, svc, path, data, target.name)
    BY Zenon, <1>1 DEF Understood
<1>3. target.slot = slot /\ target.name = NameIn(path)
    <2>1. target = [slot |-> slot, name |-> NameIn(path)]
        OBVIOUS
    <2> HIDE DEF target
    <2> QED BY <2>1
<1> QED BY Zenon, <1>2, <1>3 DEF cip

LEMMA OpenParts ==
    ASSUME NEW slot \in Octets, NEW name \in Nat, name < MaxName
    PROVE  /\ CxnTarget(OpenData(slot, name), 35, 36) = [slot |-> slot, name |-> Bytes(name, "name")]
           /\ CxnTarget(CloseData(slot, name), 10, 12) = [slot |-> slot, name |-> Bytes(name, "name")]
<1> DEFINE z == ConnectionPath(slot, name)
           w == Size(z) \div 2
           x == Bytes(35, "parameters")  y == Number(1, w)
           u == Bytes(10, "parameters")  v == Number(1, 0)
           open == OpenData(slot, name)  close == CloseData(slot, name)
<1>1. slot \in Nat /\ slot \in Octets
    BY DEF Octets
<1>2. z \in Blocks /\ Size(z) \in Nat /\ Size(z) <= 92 /\ Size(z) % 2 = 0
    BY Zenon, <1>1, CxnPathFits
<1>3. open = x \o y \o z /\ close = u \o y \o v \o z
    BY Zenon DEF OpenData, CloseData
<1>4. (IF Read(z, 0, 1) = 1
       THEN [slot |-> Read(z, 1, 1), name |-> NameIn(Drop(z, 6))]
       ELSE [slot |-> NoRoute, name |-> NameIn(z)])
      = [slot |-> slot, name |-> Bytes(name, "name")]
    BY Zenon, <1>1, CxnPathParts
<1> HIDE DEF z, open, close
<1>5. w \in Octets /\ 2 * w = Size(z)
    BY <1>2, Halves DEF PathMax
<1> HIDE DEF w
<1>6. w \in Nat /\ 1 \in {1, 2} /\ "parameters" \in Kinds /\ 35 \in Nat /\ 10 \in Nat /\ 0 \in Nat
    BY <1>5 DEF Octets, Kinds
<1>7. /\ x \in Blocks /\ Size(x) = 35 /\ y \in Blocks /\ Size(y) = 1
      /\ u \in Blocks /\ Size(u) = 10 /\ v \in Blocks /\ Size(v) = 1
    BY Zenon, <1>6, BytesBlock, NumberBlock
<1> HIDE DEF x, u, v
<1>8. Read(open, 35, 1) = w
    <2>1. Holds(x \o y, 35, 1, w)
        BY Zenon, <1>6, <1>7, HoldsHere
    <2>2. Holds(x \o y \o z, 35, 1, w)
        BY Zenon, <1>2, <1>6, <2>1, HoldsMore
    <2> QED BY Zenon, <1>3, <1>5, <2>2, ReadByte
<1>9. Read(close, 10, 1) = w
    <2>1. Holds(u \o y, 10, 1, w)
        BY Zenon, <1>6, <1>7, HoldsHere
    <2>2. Holds(u \o y \o v, 10, 1, w)
        BY Zenon, <1>6, <1>7, <2>1, HoldsMore
    <2>3. Holds(u \o y \o v \o z, 10, 1, w)
        BY Zenon, <1>2, <1>6, <2>2, HoldsMore
    <2> QED BY Zenon, <1>3, <1>5, <2>3, ReadByte
<1> HIDE DEF y
<1>10. x \o y \in Blocks /\ Size(x \o y) = 36
    BY <1>7, SizeOfConcat
<1>11. u \o y \o v \in Blocks /\ Size(u \o y \o v) = 12
    BY <1>7, Join3
<1>12. Take(z, 2 * w) = z
    BY Zenon, <1>2, <1>5, TakeAll
<1>13. Drop(open, 36) = z
    BY Zenon, <1>2, <1>3, <1>10, DropFirst
<1>14. Drop(close, 12) = z
    BY Zenon, <1>2, <1>3, <1>11, DropFirst
<1> QED BY Zenon, <1>4, <1>8, <1>9, <1>12, <1>13, <1>14 DEF CxnTarget, open, close

LEMMA CxnRequestUnderstood ==
    ASSUME NEW slot \in Octets, NEW name \in Nat, name < MaxName, NEW svc, NEW data,
           \/ svc = 84 /\ data = OpenData(slot, name)
           \/ svc = 78 /\ data = CloseData(slot, name),
           data \in Blocks, NEW by, NEW s
    PROVE  Understood(by, s, Request(svc, ConnectionManager, data))
             = Asked(by, slot, svc, ConnectionManager, data, Bytes(name, "name"))
<1> DEFINE m == ConnectionManager
           cip == Request(svc, m, data)
           t == [slot |-> slot, name |-> Bytes(name, "name")]
<1>1. 0 \in Nat
    OBVIOUS
<1>2. m \in Blocks /\ Size(m) = 4
    BY Zenon, <1>1, PartsOfPath
<1> HIDE DEF m
<1>3. svc \in Octets /\ Size(m) % 2 = 0 /\ Size(m) <= PathMax /\ 78 # 84
    BY <1>2 DEF Octets, PathMax
<1>4. /\ Read(cip, 0, 1) = svc /\ 2 * Read(cip, 1, 1) = Size(m)
      /\ Take(Drop(cip, 2), Size(m)) = m /\ Drop(cip, 2 + Size(m)) = data
    BY <1>2, <1>3, RequestParts
<1> HIDE DEF cip
<1> DEFINE target == CASE svc = 84 -> CxnTarget(data, 35, 36)
                       [] svc = 78 -> CxnTarget(data, 10, 12)
                       [] OTHER    -> [slot |-> s, name |-> NameIn(m)]
<1>5. Understood(by, s, cip) = Asked(by, target.slot, svc, m, data, target.name)
    BY Zenon, <1>4 DEF Understood
<1>6. t.slot = slot /\ t.name = Bytes(name, "name")
    OBVIOUS
<1> HIDE DEF t
<1>7. target = t
    <2>1. CxnTarget(OpenData(slot, name), 35, 36) = t /\ CxnTarget(CloseData(slot, name), 10, 12) = t
        BY Zenon, OpenParts DEF t
    <2> QED BY <1>3, <2>1
<1> HIDE DEF target
<1> QED BY Zenon, <1>5, <1>6, <1>7 DEF cip, m

(* While a packet is on its way the PLC will make of it what was asked,    *)
(* and nothing is read before something is sent.                           *)
RequestInv ==
    /\ PlcReadsRequest
    /\ status = "Idle" => got = <<>>
    /\ status = "Pending" /\ got = <<>> => Understanding(asked.by, packet) = asked

LEMMA CallKeeps ==
    ASSUME RequestInv, status = "Idle", got' = got,
           status' = "Pending" => Understanding(asked'.by, packet') = asked'
    PROVE  RequestInv'
BY Zenon DEF RequestInv, PlcReadsRequest

LEMMA FittingRequest ==
    ASSUME NEW svc \in Octets, NEW path \in Blocks, NEW data \in Blocks,
           NEW limit, limit = MaxCip \/ limit = MaxConnected, Fits(limit, path, data)
    PROVE  /\ Size(path) % 2 = 0 /\ Size(path) <= PathMax
           /\ Request(svc, path, data) \in Blocks /\ Size(Request(svc, path, data)) <= LengthMax
           /\ 2 + Size(path) + Size(data) <= CipMax
           /\ Read(Request(svc, path, data), 0, 1) = svc
<1>1. limit \in Nat /\ limit <= CipMax
    BY SizesAreNat, RequestAssumption DEF CipMax
<1>2. Size(path) \in Nat /\ Size(data) \in Nat /\ svc \in Nat
    BY SizeType DEF Octets
<1>3. 2 + Size(path) + Size(data) <= limit /\ Size(path) % 2 = 0
    BY Zenon DEF Fits
<1>4. Size(path) <= PathMax /\ 2 + Size(path) + Size(data) <= CipMax
    BY <1>1, <1>2, <1>3 DEF PathMax, CipMax
<1>5. /\ Request(svc, path, data) \in Blocks
      /\ Size(Request(svc, path, data)) = 2 + Size(path) + Size(data)
    BY Zenon, <1>2, RequestBlock
<1>6. Size(Request(svc, path, data)) <= LengthMax
    BY <1>2, <1>4, <1>5 DEF CipMax, LengthMax
<1>7. Read(Request(svc, path, data), 0, 1) = svc
    BY Zenon, <1>3, <1>4, RequestParts
<1> QED BY <1>3, <1>4, <1>5, <1>6, <1>7

(* A service that is neither the Connection Manager's nor an Unconnected   *)
(* Send.                                                                   *)
Plain(svc) == svc \in Octets /\ svc # RoutedService /\ svc # 84 /\ svc # 78

LEMMA SendUnderstood ==
    ASSUME NEW by, NEW slot \in Octets, NEW svc, Plain(svc), NEW path \in Blocks, NEW data \in Blocks,
           NEW buffers, Send(slot, svc, path, data, buffers), status' = "Pending",
           asked' = Asked(by, slot, svc, path, data, NameIn(path))
    PROVE  Understanding(asked'.by, packet') = asked'
<1> DEFINE cip == Request(svc, path, data)
<1>1. asked'.by = by
    BY Zenon DEF Asked
<1>2. svc \in Octets /\ svc # RoutedService /\ svc \in Nat
    BY DEF Plain, Octets
<1>3. "InvalidArg" # "Pending"
    OBVIOUS
<1>4. ASSUME Fits(MaxCip, path, data), NEW s
      PROVE  Understood(by, s, cip) = Asked(by, s, svc, path, data, NameIn(path))
    <2>1. Size(path) % 2 = 0 /\ Size(path) <= PathMax
        BY Zenon, <1>2, <1>4, FittingRequest
    <2>2. svc # 84 /\ svc # 78
        BY Zenon DEF Plain
    <2> QED BY <1>2, <2>1, <2>2, RequestUnderstood
<1>5. CASE slot = NoRoute
    <2>1. SendDirect(svc, path, data, buffers)
        BY Zenon, <1>5 DEF Send
    <2>2. Fits(MaxCip, path, data) /\ packet' = Unconnected(cip)
        BY Zenon, <1>3, <2>1 DEF SendDirect, Refuse
    <2>3. cip \in Blocks /\ Size(cip) <= LengthMax /\ Read(cip, 0, 1) # RoutedService
        BY Zenon, <1>2, <2>2, FittingRequest
    <2>4. Understanding(by, packet') = Understood(by, NoRoute, cip)
        BY Zenon, <2>2, <2>3, DirectUnderstood
    <2> QED BY Zenon, <1>1, <1>4, <1>5, <2>2, <2>4
<1>6. CASE slot # NoRoute
    <2>1. SendRouted(slot, svc, path, data, buffers)
        BY Zenon, <1>6 DEF Send
    <2>2. /\ Fits(MaxCip, path, data)
          /\ packet' = Unconnected(Request(RoutedService, ConnectionManager,
                                           Wrapper(slot, svc, path, data)))
        BY Zenon, <1>3, <2>1 DEF SendRouted, Refuse, RoutedService
    <2>3. 2 + Size(path) + Size(data) <= CipMax
        BY Zenon, <1>2, <2>2, FittingRequest
    <2>4. Understanding(by, packet') = Understood(by, slot, cip)
        BY Zenon, <1>2, <2>2, <2>3, RoutedUnderstood
    <2> QED BY Zenon, <1>1, <1>4, <2>2, <2>4
<1> QED BY <1>5, <1>6

LEMMA PlainServices == Plain(76) /\ Plain(77) /\ Plain(14)
BY DEF Plain, Octets, RoutedService

LEMMA TagCallUnderstood ==
    ASSUME RequestInv, NEW name \in NameLens, NEW slot \in Slots, NEW svc, Plain(svc),
           NEW data \in Blocks, NEW buffers, TagCall(name, slot, svc, data, buffers)
    PROVE  RequestInv'
<1>1. name \in Nat /\ slot \in Octets /\ MaxSymbolic \in Nat
    BY SizesAreNat DEF Octets
<1>2. /\ status = "Idle" /\ got' = got
      /\ asked' = Asked("tag", slot, svc, Symbolic(name), data, Bytes(name, "name"))
    BY Zenon DEF TagCall, Ask
<1>3. ASSUME status' = "Pending"
      PROVE  Understanding(asked'.by, packet') = asked'
    <2>1. ~(name > MaxSymbolic)
        BY <1>3 DEF TagCall, Refuse
    <2>2. name <= MaxSymbolic
        BY <1>1, <2>1
    <2>3. Symbolic(name) \in Blocks /\ NameIn(Symbolic(name)) = Bytes(name, "name")
        BY Zenon, <1>1, <2>2, SymbolicParts, SymbolicFits
    <2>4. Send(slot, svc, Symbolic(name), data,
               buffers \cup {<<"path", Size(Symbolic(name))>>})
        BY Zenon, <2>1 DEF TagCall
    <2> QED BY Zenon, <1>1, <1>2, <1>3, <2>3, <2>4, SendUnderstood
<1> QED BY Zenon, <1>2, <1>3, CallKeeps

LEMMA CxnCallUnderstood ==
    ASSUME RequestInv, NEW name \in NameLens, NEW slot \in Slots, NEW svc, NEW data,
           \/ svc = 84 /\ data = OpenData(slot, name)
           \/ svc = 78 /\ data = CloseData(slot, name),
           CxnCall(slot, svc, data, name)
    PROVE  RequestInv'
<1> DEFINE m == ConnectionManager  cip == Request(svc, m, data)
<1>1. name \in Nat /\ slot \in Octets /\ slot \in Nat /\ MaxName \in Nat
    BY SizesAreNat DEF Octets
<1>2. /\ status = "Idle" /\ got' = got
      /\ asked' = Asked("connection", slot, svc, m, data, Bytes(name, "name"))
    BY Zenon DEF CxnCall, Ask
<1>3. ASSUME status' = "Pending"
      PROVE  Understanding(asked'.by, packet') = asked'
    <2>1. ~(name >= MaxName)
        BY <1>3 DEF CxnCall, Refuse
    <2>2. name < MaxName
        BY <1>1, <2>1
    <2>3. SendDirect(svc, m, data, {<<"open", Size(data)>>})
        BY Zenon, <2>1 DEF CxnCall
    <2>4. "InvalidArg" # "Pending"
        OBVIOUS
    <2>5. Fits(MaxCip, m, data) /\ packet' = Unconnected(cip)
        BY Zenon, <1>3, <2>3, <2>4 DEF SendDirect, Refuse
    <2>6. m \in Blocks /\ data \in Blocks
        <3>1. OpenData(slot, name) \in Blocks /\ CloseData(slot, name) \in Blocks
            BY Zenon, <1>1, OpenBlock
        <3>2. m \in Blocks
            BY Zenon, <1>1, PartsOfPath
        <3> QED BY <3>1, <3>2
    <2>7. svc \in Octets /\ svc # RoutedService
        BY DEF Octets, RoutedService
    <2>8. cip \in Blocks /\ Size(cip) <= LengthMax /\ Read(cip, 0, 1) = svc
        BY Zenon, <2>5, <2>6, <2>7, FittingRequest
    <2>9. Understanding("connection", packet') = Understood("connection", NoRoute, cip)
        BY Zenon, <2>5, <2>7, <2>8, DirectUnderstood
    <2>10. Understood("connection", NoRoute, cip) = asked'
        BY <1>1, <1>2, <2>2, <2>6, CxnRequestUnderstood
    <2>11. asked'.by = "connection"
        BY Zenon, <1>2 DEF Asked
    <2> QED BY Zenon, <2>9, <2>10, <2>11
<1> QED BY Zenon, <1>2, <1>3, CallKeeps

LEMMA AppSendUnderstood ==
    ASSUME RequestInv, AppSend
    PROVE  RequestInv'
<1>1. PICK n \in PathLens, d \in DataLens, slot \in Slots :
        /\ Ask("message", slot, 14, Bytes(n, "path"), Bytes(d, "data"), 0)
        /\ Send(slot, 14, Bytes(n, "path"), Bytes(d, "data"), {})
    BY Zenon DEF AppSend
<1> DEFINE path == Bytes(n, "path")  data == Bytes(d, "data")
<1>2. n \in Nat /\ d \in Nat /\ slot \in Octets /\ "path" \in Kinds /\ "data" \in Kinds
    BY SizesAreNat DEF Kinds, Octets
<1>3. path \in Blocks /\ data \in Blocks /\ NameIn(path) = <<>>
    BY Zenon, <1>2, BytesBlock, PlainPathParts
<1>4. Bytes(0, "name") = <<>>
    BY DEF Bytes
<1>5. status = "Idle" /\ got' = got /\ asked' = Asked("message", slot, 14, path, data, NameIn(path))
    BY Zenon, <1>1, <1>3, <1>4 DEF Ask
<1>6. Send(slot, 14, path, data, {})
    BY Zenon, <1>1
<1> HIDE DEF path, data
<1> QED BY Zenon, <1>2, <1>3, <1>5, <1>6, PlainServices, SendUnderstood, CallKeeps

LEMMA AppSendConnectedUnderstood ==
    ASSUME RequestInv, AppSendConnected
    PROVE  RequestInv'
<1>1. PICK n \in PathLens, d \in DataLens :
        /\ Ask("connected", NoRoute, 14, Bytes(n, "path"), Bytes(d, "data"), 0)
        /\ IF Fits(MaxConnected, Bytes(n, "path"), Bytes(d, "data"))
           THEN packet' = Connected(Request(14, Bytes(n, "path"), Bytes(d, "data")))
           ELSE Refuse({})
    BY Zenon DEF AppSendConnected
<1> DEFINE path == Bytes(n, "path")  data == Bytes(d, "data")  cip == Request(14, path, data)
<1>2. n \in Nat /\ d \in Nat /\ "path" \in Kinds /\ "data" \in Kinds
    BY SizesAreNat DEF Kinds
<1>3. path \in Blocks /\ data \in Blocks /\ NameIn(path) = <<>>
    BY Zenon, <1>2, BytesBlock, PlainPathParts
<1>4. Bytes(0, "name") = <<>>
    BY DEF Bytes
<1>5. /\ status = "Idle" /\ got' = got
      /\ asked' = Asked("connected", NoRoute, 14, path, data, NameIn(path))
    BY Zenon, <1>1, <1>3, <1>4 DEF Ask
<1>6. IF Fits(MaxConnected, path, data) THEN packet' = Connected(cip) ELSE Refuse({})
    BY Zenon, <1>1
<1> HIDE DEF path, data
<1>7. ASSUME status' = "Pending"
      PROVE  Understanding(asked'.by, packet') = asked'
    <2>1. "InvalidArg" # "Pending"
        OBVIOUS
    <2>2. Fits(MaxConnected, path, data) /\ packet' = Connected(cip)
        BY Zenon, <1>6, <1>7, <2>1 DEF Refuse
    <2>3. 14 \in Octets /\ 14 # 84 /\ 14 # 78
        BY DEF Octets
    <2>5. cip \in Blocks /\ Size(cip) <= LengthMax /\ Size(path) % 2 = 0 /\ Size(path) <= PathMax
        BY Zenon, <1>3, <2>2, <2>3, FittingRequest
    <2>6. Understanding("connected", packet') = Understood("connected", NoRoute, cip)
        BY Zenon, <2>2, <2>5, ConnectedUnderstood
    <2>7. Understood("connected", NoRoute, cip) = asked'
        BY Zenon, <1>3, <1>5, <2>3, <2>5, RequestUnderstood
    <2>8. asked'.by = "connected"
        BY Zenon, <1>5 DEF Asked
    <2> QED BY Zenon, <2>6, <2>7, <2>8
<1> QED BY Zenon, <1>5, <1>7, CallKeeps

LEMMA PlcReceivesUnderstood ==
    ASSUME RequestInv, PlcReceives
    PROVE  RequestInv'
<1>1. status = "Pending" /\ got = <<>>
    BY Zenon DEF PlcReceives
<1>2. got' = <<Understanding(asked.by, packet)>>
    BY Zenon DEF PlcReceives, Understanding, Received, ItemIn, RoutedService
<1>3. asked' = asked /\ packet' = packet /\ status' = status
    BY Zenon DEF PlcReceives
<1>4. got' = <<asked>>
    BY Zenon, <1>1, <1>2 DEF RequestInv
<1>5. got' # <<>> /\ "Pending" # "Idle"
    BY <1>4
<1> QED BY Zenon, <1>1, <1>3, <1>4, <1>5 DEF RequestInv, PlcReadsRequest

LEMMA RequestInvKept ==
    ASSUME RequestInv, [Next]_vars
    PROVE  RequestInv'
<1>1. CASE TagRead
    <2>1. PICK name \in NameLens, slot \in Slots : TagCall(name, slot, 76, Number(2, 1), {})
        BY Zenon, <1>1 DEF TagRead
    <2>2. Number(2, 1) \in Blocks
        BY NumberBlock
    <2> QED BY Zenon, <2>1, <2>2, PlainServices, TagCallUnderstood
<1>2. CASE TagWrite
    <2>1. PICK name \in NameLens, slot \in Slots, n \in TagLens :
            LET wdata == Number(2, 1) \o Bytes(2, "type") \o Bytes(n, "data")
            IN  TagCall(name, slot, 77, wdata, {<<"wdata", Size(wdata)>>})
        BY Zenon, <1>2 DEF TagWrite
    <2> DEFINE wdata == Number(2, 1) \o Bytes(2, "type") \o Bytes(n, "data")
    <2>2. wdata \in Blocks
        BY SizesAreNat, TagDataBlock
    <2>3. TagCall(name, slot, 77, wdata, {<<"wdata", Size(wdata)>>})
        BY Zenon, <2>1
    <2> HIDE DEF wdata
    <2> QED BY Zenon, <2>2, <2>3, PlainServices, TagCallUnderstood
<1>3. CASE CxnOpen
    BY Zenon, <1>3, CxnCallUnderstood DEF CxnOpen
<1>4. CASE CxnClose
    BY Zenon, <1>4, CxnCallUnderstood DEF CxnClose
<1>5. CASE AppSend
    BY Zenon, <1>5, AppSendUnderstood
<1>6. CASE AppSendConnected
    BY Zenon, <1>6, AppSendConnectedUnderstood
<1>7. CASE PlcReceives
    BY Zenon, <1>7, PlcReceivesUnderstood
<1>8. CASE ResponseArrives
    <2>1. got' = <<>> /\ status' = "Answered" /\ "Answered" # "Pending"
        BY <1>8 DEF ResponseArrives
    <2> QED BY Zenon, <2>1 DEF RequestInv, PlcReadsRequest
<1>9. CASE UNCHANGED requestVars
    BY Zenon, <1>9 DEF requestVars, RequestInv, PlcReadsRequest
<1> QED BY Zenon, <1>1, <1>2, <1>3, <1>4, <1>5, <1>6, <1>7, <1>8, <1>9
        DEF Next, RequestNext, vars

(* The layouts of the sender and the offsets of the reader agree: through  *)
(* the lengths in bytes and in words, each cut to 8 or 16 bits, and the    *)
(* two paddings, the PLC reads the service, the slot, the path, the whole  *)
(* of the name and the data that were asked for, of direct, routed and     *)
(* connected requests alike (ExplicitMessage.cpp:45-135).                  *)
THEOREM PlcReadsWhatIsAsked == Spec => []PlcReadsRequest
<1>1. Init => RequestInv
    <2>1. "Idle" # "Pending"
        OBVIOUS
    <2> QED BY Zenon, <2>1 DEF Init, RequestInit, RequestInv, PlcReadsRequest
<1>2. RequestInv /\ [Next]_vars => RequestInv'
    BY Zenon, RequestInvKept
<1>3. RequestInv => PlcReadsRequest
    BY Zenon DEF RequestInv
<1> QED BY <1>1, <1>2, <1>3, PTL DEF Spec
=============================================================================
