----------------------------- MODULE AgeingProofs -----------------------------
(***************************************************************************)
(* Proofs about MatchUnit and Ageing for any keys, data, table size and    *)
(* number of handle versions.                                              *)
(***************************************************************************)
EXTENDS Ageing, FiniteSetTheorems, WellFoundedInduction, TLAPS

Entry == [key : Key \union {NoKey}, version : Nat, id : Nat, value : Nat]

UnitTypes ==
    /\ used \subseteq Slot /\ slot \in [Slot -> Entry] /\ adds \in Nat
    /\ issued \subseteq [version : Nat, slot : Slot, id : Nat]

\* Whoever added an entry that is still there was given its handle.
HandlesGiven == \A s \in used : HandleOf(s, slot[s].version, slot[s].id) \in issued

\* Before a reset no handle is from a version still to come, and the handles
\* of the version a slot has now, if any, are those of its entry: a slot that
\* is free has a version nobody has a handle of.
VersionsPast ==
    /\ \A h \in issued :
          /\ h.version <= slot[h.slot].version
          /\ h.version = slot[h.slot].version => h.slot \in used /\ h.id = slot[h.slot].id
    /\ \A s \in used : slot[s].value = slot[s].id
    /\ "wrongEntry" \notin upset

UnitInv == UnitTypes /\ HandlesGiven /\ ("reset" \notin upset => VersionsPast)

----------------------------------------------------------------------------
\* What the assumption says of the constants.
LEMMA UnitNumbers ==
    /\ Size \in Nat \ {0} /\ HandleVersions \in Nat \ {0}
    /\ Slot = 0..Size - 1
BY MatchUnitAssumption DEF Slot

\* The version in a handle is the entry's or, when it has no room for it, less.
LEMMA VersionInHandle ==
    ASSUME NEW v \in Nat
    PROVE  /\ v % HandleVersions \in Nat /\ v % HandleVersions <= v
           /\ v < HandleVersions => v % HandleVersions = v
BY UnitNumbers, SMTT(30)

\* A set of numbers that is not empty has a least one.
LEMMA LeastNumber ==
    ASSUME NEW T \in SUBSET Nat, T # {}
    PROVE  \E x \in T : \A y \in T : x <= y
<1> DEFINE Less == {ss \in Nat \X Nat : ss[1] < ss[2]}
<1>1. IsWellFoundedOn(Less, Nat)
    BY NatLessThanWellFounded, Zenon DEF OpToRel
<1>2. \E x \in T : \A y \in T : <<y, x>> \notin Less
    <2> HIDE DEF Less
    <2> QED  BY <1>1, WFMin, Zenon
<1>3. \A x, y \in Nat : <<y, x>> \notin Less => x <= y
    OBVIOUS
<1> QED  BY <1>2, <1>3

\* A table that is not full has a free slot, and the first one is taken.
LEMMA FreeSlotIsFree ==
    ASSUME used \subseteq Slot, Cardinality(used) < Size
    PROVE  FreeSlot \in Slot \ used /\ \A s \in Slot \ used : FreeSlot <= s
<1>1. IsFiniteSet(Slot) /\ Cardinality(Slot) = Size
    BY FS_Interval, UnitNumbers
<1>2. Slot \ used # {}
    <2>1. Cardinality(used) # Cardinality(Slot)
        BY <1>1, FS_Subset, UnitNumbers
    <2> QED  BY <2>1
<1>3. Slot \ used \subseteq Nat
    BY UnitNumbers
<1>4. \E x \in Slot \ used : \A y \in Slot \ used : x <= y
    BY <1>2, <1>3, LeastNumber
<1> QED  BY <1>4 DEF FreeSlot, Min

----------------------------------------------------------------------------
\* The new handle has the version of a free slot, which no handle has yet.
LEMMA AddKept ==
    ASSUME UnitInv, NEW k \in Key, AddEntry(k)
    PROVE  UnitInv'
<1> DEFINE s == FreeSlot
           e == [key |-> k, version |-> slot[s].version, id |-> adds + 1, value |-> adds + 1]
           h == HandleOf(s, slot[s].version, adds + 1)
<1>1. s \in Slot \ used
    BY FreeSlotIsFree DEF AddEntry, UnitInv, UnitTypes
<1>2. /\ slot' = [slot EXCEPT ![s] = e] /\ used' = used \union {s}
      /\ issued' = issued \union {h} /\ adds' = adds + 1 /\ upset' = upset
    BY <1>1 DEF AddEntry, UnitInv, UnitTypes
<1>3. /\ used \subseteq Slot /\ slot \in [Slot -> Entry] /\ adds \in Nat
      /\ issued \subseteq [version : Nat, slot : Slot, id : Nat]
    BY DEF UnitInv, UnitTypes
<1>4. slot[s].version \in Nat
    BY <1>1, <1>3 DEF Entry
<1>5. /\ h \in [version : Nat, slot : Slot, id : Nat] /\ h.version <= slot[s].version
      /\ h.slot = s /\ h.id = adds + 1
    BY <1>1, <1>3, <1>4, VersionInHandle DEF HandleOf
<1>6. e \in Entry /\ e.version = slot[s].version /\ e.id = adds + 1 /\ e.value = adds + 1
    BY <1>3, <1>4 DEF Entry
<1> HIDE DEF s, e
<1>7. /\ slot'[s] = e /\ \A r \in Slot : r # s => slot'[r] = slot[r]
    BY <1>1, <1>2, <1>3
<1>8. UnitTypes'
    BY <1>1, <1>2, <1>3, <1>5, <1>6 DEF UnitTypes
<1>9. HandlesGiven'
    BY <1>1, <1>2, <1>3, <1>6, <1>7 DEF HandlesGiven, UnitInv
<1>10. ASSUME "reset" \notin upset' PROVE VersionsPast'
    <2>1. VersionsPast
        BY <1>2, <1>10 DEF UnitInv
    <2>2. ASSUME NEW g \in issued'
          PROVE  /\ g.version <= slot'[g.slot].version
                 /\ g.version = slot'[g.slot].version => g.slot \in used' /\ g.id = slot'[g.slot].id
        <3>1. CASE g = h
            BY <3>1, <1>2, <1>5, <1>6, <1>7
        <3>2. CASE g \in issued /\ g.slot = s
            BY <3>2, <2>1, <1>1, <1>2, <1>6, <1>7 DEF VersionsPast
        <3>3. CASE g \in issued /\ g.slot # s
            <4>1. g.slot \in Slot
                BY <3>3, <1>3
            <4> QED  BY <4>1, <3>3, <2>1, <1>2, <1>7 DEF VersionsPast
        <3> QED  BY <2>2, <3>1, <3>2, <3>3, <1>2
    <2>3. \A r \in used' : slot'[r].value = slot'[r].id
        BY <2>1, <1>2, <1>3, <1>6, <1>7 DEF VersionsPast
    <2> QED  BY <2>1, <2>2, <2>3, <1>2 DEF VersionsPast
<1> QED  BY <1>8, <1>9, <1>10 DEF UnitInv

\* A handle that is accepted is of the version its slot has now.
LEMMA DeleteKept ==
    ASSUME UnitInv, NEW h \in issued, DeleteEntry(h)
    PROVE  UnitInv'
<1> DEFINE s == h.slot
<1>1. /\ used \subseteq Slot /\ slot \in [Slot -> Entry] /\ adds \in Nat
      /\ issued \subseteq [version : Nat, slot : Slot, id : Nat]
    BY DEF UnitInv, UnitTypes
<1>2. s \in used /\ slot[s].version = h.version /\ s \in Slot /\ slot[s] \in Entry
    BY <1>1 DEF DeleteEntry, Accepts
<1>3. /\ used' = used \ {s} /\ issued' = issued /\ adds' = adds
      /\ slot' = [slot EXCEPT ![s].version = slot[s].version + 1]
      /\ upset' = IF h.id # slot[s].id THEN upset \union {"wrongEntry"} ELSE upset
    BY DEF DeleteEntry
<1> HIDE DEF s
<1>4. /\ slot'[s] \in Entry /\ slot'[s].version = slot[s].version + 1
      /\ \A r \in Slot : r # s => slot'[r] = slot[r]
    BY <1>1, <1>2, <1>3 DEF Entry
<1>5. slot' \in [Slot -> Entry]
    BY <1>1, <1>2, <1>3, <1>4 DEF Entry
<1>6. UnitTypes'
    BY <1>1, <1>3, <1>5 DEF UnitTypes
<1>7. HandlesGiven'
    BY <1>1, <1>3, <1>4 DEF HandlesGiven, UnitInv
<1>8. ASSUME "reset" \notin upset' PROVE VersionsPast'
    <2>1. VersionsPast
        BY <1>3, <1>8 DEF UnitInv
    <2>2. h.id = slot[s].id /\ upset' = upset
        BY <2>1, <1>2, <1>3 DEF VersionsPast, s
    <2>3. ASSUME NEW g \in issued'
          PROVE  /\ g.version <= slot'[g.slot].version
                 /\ g.version = slot'[g.slot].version => g.slot \in used' /\ g.id = slot'[g.slot].id
        <3>1. g \in issued /\ g.version \in Nat /\ g.slot \in Slot /\ slot[s].version \in Nat
            BY <1>1, <1>2, <1>3 DEF Entry
        <3>2. CASE g.slot = s
            BY <3>1, <3>2, <2>1, <1>4 DEF VersionsPast
        <3>3. CASE g.slot # s
            BY <3>1, <3>3, <2>1, <1>3, <1>4 DEF VersionsPast
        <3> QED  BY <3>2, <3>3
    <2>4. \A r \in used' : slot'[r].value = slot'[r].id
        BY <2>1, <1>1, <1>3, <1>4 DEF VersionsPast
    <2> QED  BY <2>1, <2>2, <2>3, <2>4 DEF VersionsPast
<1> QED  BY <1>6, <1>7, <1>8 DEF UnitInv

\* modify_entry: the entry keeps its handle, slot and version.
LEMMA ModifyKept ==
    ASSUME UnitInv, NEW h \in issued, ModifyEntry(h)
    PROVE  UnitInv'
<1> DEFINE s == h.slot
<1>1. /\ used \subseteq Slot /\ slot \in [Slot -> Entry] /\ adds \in Nat
      /\ issued \subseteq [version : Nat, slot : Slot, id : Nat]
    BY DEF UnitInv, UnitTypes
<1>2. s \in used /\ slot[s].version = h.version /\ s \in Slot /\ slot[s] \in Entry /\ h.id \in Nat
    BY <1>1 DEF ModifyEntry, Accepts
<1>3. /\ used' = used /\ issued' = issued /\ adds' = adds /\ upset' = upset
      /\ slot' = [slot EXCEPT ![s].value = h.id]
    BY DEF ModifyEntry
<1> HIDE DEF s
<1>4. /\ slot'[s] \in Entry /\ slot'[s].version = slot[s].version /\ slot'[s].id = slot[s].id
      /\ slot'[s].value = h.id /\ \A r \in Slot : r # s => slot'[r] = slot[r]
    BY <1>1, <1>2, <1>3 DEF Entry
<1>5. slot' \in [Slot -> Entry]
    BY <1>1, <1>2, <1>3, <1>4 DEF Entry
<1>6. \A r \in Slot : slot'[r].version = slot[r].version /\ slot'[r].id = slot[r].id
    BY <1>4
<1>7. UnitTypes'
    BY <1>1, <1>3, <1>5 DEF UnitTypes
<1>8. HandlesGiven'
    BY <1>1, <1>3, <1>6 DEF HandlesGiven, UnitInv
<1>9. ASSUME "reset" \notin upset' PROVE VersionsPast'
    <2>1. VersionsPast
        BY <1>3, <1>9 DEF UnitInv
    <2>2. h.id = slot[s].id
        BY <2>1, <1>2 DEF VersionsPast, s
    <2>3. \A r \in used : slot'[r].value = slot'[r].id
        BY <2>1, <2>2, <1>1, <1>4 DEF VersionsPast
    <2>4. \A g \in issued : g.slot \in Slot
        BY <1>1
    <2> QED  BY <2>1, <2>3, <2>4, <1>3, <1>6 DEF VersionsPast
<1> QED  BY <1>7, <1>8, <1>9 DEF UnitInv

\* reset_state: an empty table whose versions start again.
LEMMA ResetKept ==
    ASSUME UnitInv, ResetState
    PROVE  UnitInv'
<1>1. /\ used' = {} /\ slot' = [s \in Slot |-> Empty] /\ adds' = adds /\ issued' = issued
      /\ "reset" \in upset'
    BY DEF ResetState
<1>2. slot' \in [Slot -> Entry]
    BY <1>1 DEF Empty, Entry
<1> QED  BY <1>1, <1>2 DEF UnitInv, UnitTypes, HandlesGiven

----------------------------------------------------------------------------
\* Entries, handles and resets: the inductive invariant of the match unit,
\* which the ageing monitor only reads (match_units.cpp:946-1078).
THEOREM UnitInvariant == AgeingSpec => []UnitInv
<1>1. AgeingInit => UnitInv
    BY DEF AgeingInit, Init, UnitInv, UnitTypes, HandlesGiven, VersionsPast, Empty, Entry
<1>2. UnitInv /\ [AgeingNext]_<<vars, monitor>> => UnitInv'
    <2> SUFFICES ASSUME UnitInv, [AgeingNext]_<<vars, monitor>>
                 PROVE  UnitInv'
        OBVIOUS
    <2>1. ASSUME UNCHANGED <<used, slot, adds, issued, upset>>
          PROVE  UnitInv'
        BY <2>1 DEF UnitInv, UnitTypes, HandlesGiven, VersionsPast
    <2>2. ASSUME NEW k \in Key, AddEntry(k) PROVE UnitInv'
        BY <2>2, AddKept
    <2>3. ASSUME NEW h \in issued, DeleteEntry(h) PROVE UnitInv'
        BY <2>3, DeleteKept
    <2>4. ASSUME NEW h \in issued, ModifyEntry(h) PROVE UnitInv'
        BY <2>4, ModifyKept
    <2>5. ASSUME NEW h \in issued, NEW ms \in {0, 1}, SetEntryTtl(h, ms) PROVE UnitInv'
        BY <2>5, <2>1 DEF SetEntryTtl
    <2>6. ASSUME NEW d \in Data, Lookup(d) PROVE UnitInv'
        BY <2>6, <2>1 DEF Lookup
    <2>7. ASSUME NEW s \in Slot, TimePasses(s) PROVE UnitInv'
        BY <2>7, <2>1 DEF TimePasses
    <2>8. ASSUME AgeingReset PROVE UnitInv'
        BY <2>8, ResetKept DEF AgeingReset
    <2>9. ASSUME Sweep PROVE UnitInv'
        BY <2>9, <2>1 DEF Sweep, vars, unit
    <2>10. ASSUME UNCHANGED <<vars, monitor>> PROVE UnitInv'
        BY <2>10, <2>1 DEF vars, unit
    <2> QED  BY <2>2, <2>3, <2>4, <2>5, <2>6, <2>7, <2>8, <2>9, <2>10 DEF AgeingNext, UnitNext
<1> QED  BY <1>1, <1>2, PTL DEF AgeingSpec

\* With a handle delete_entry and modify_entry, which compare its version,
\* reach the entry it was returned for and no other until a reset, and an entry
\* is reached by its handle until its slot has had more entries than a handle
\* has versions.
THEOREM HandlesReachTheirEntries == AgeingSpec => []HandleIsItsEntry
<1>1. UnitInv => HandleIsItsEntry
    <2> SUFFICES ASSUME UnitInv PROVE HandleIsItsEntry
        OBVIOUS
    <2>1. ASSUME NEW s \in used, slot[s].version < HandleVersions
          PROVE  \E h \in issued : h.id = slot[s].id /\ Accepts(h)
        <3> DEFINE h == HandleOf(s, slot[s].version, slot[s].id)
        <3>1. slot[s].version \in Nat
            BY DEF UnitInv, UnitTypes, Entry
        <3>2. h.version = slot[s].version /\ h.slot = s /\ h.id = slot[s].id
            BY <2>1, <3>1, VersionInHandle DEF HandleOf
        <3>3. h \in issued
            BY DEF UnitInv, HandlesGiven
        <3> HIDE DEF h
        <3> QED  BY <3>2, <3>3 DEF Accepts
    <2>2. \A s \in used : slot[s].version \in Nat
        BY DEF UnitInv, UnitTypes, Entry
    <2> QED  BY <2>1, <2>2, UnitNumbers DEF UnitInv, VersionsPast, HandleIsItsEntry
<1> QED  BY <1>1, UnitInvariant, PTL

----------------------------------------------------------------------------
\* The entry list has the slots in use in their order, and the cache, which
\* is only in use with enough entries, has what the scan finds.
Increasing(q) == \A i, j \in DOMAIN q : i < j => q[i] < q[j]
ListInv == list \in Seq(Slot) /\ Increasing(list) /\ Range(list) = used

Priority(i) == slot[list[i]].key.priority
Best(i, d) ==
    /\ i \in Matching(d)
    /\ \A j \in Matching(d) : Priority(i) < Priority(j) \/ (Priority(i) = Priority(j) /\ i <= j)
Seen == {c \in [data : Data, slot : Int] :
            \E i \in DOMAIN list : Best(i, c.data) /\ c.slot = HandleFromEntry(list[i])}
CacheInv == cache \in Seq(Seen) /\ (cache # <<>> => CacheActive)

TableInv == UnitInv /\ ListInv /\ CacheInv

\* Two sequences, one after the other.
LEMMA ConcatFacts ==
    ASSUME NEW S, NEW q \in Seq(S), NEW r \in Seq(S)
    PROVE  q \o r \in Seq(S) /\ Len(q \o r) = Len(q) + Len(r)
OBVIOUS

\* A sequence with an element more.
LEMMA InsertFacts ==
    ASSUME NEW S, NEW q \in Seq(S), NEW i \in 1..Len(q) + 1, NEW e \in S
    PROVE  LET r == InsertAt(q, i, e) IN
           /\ r \in Seq(S) /\ Len(r) = Len(q) + 1
           /\ \A j \in 1..Len(q) + 1 : r[j] = IF j < i THEN q[j] ELSE IF j = i THEN e ELSE q[j - 1]
<1> DEFINE before == SubSeq(q, 1, i - 1)  after == SubSeq(q, i, Len(q))
<1>1. i \in Nat /\ Len(q) \in Nat
    OBVIOUS
<1>2. before \in Seq(S) /\ Len(before) = i - 1 /\ \A j \in 1..i - 1 : before[j] = q[j]
    BY <1>1
<1>3. /\ after \in Seq(S) /\ Len(after) = Len(q) + 1 - i
      /\ \A j \in 1..Len(q) + 1 - i : after[j] = q[i - 1 + j]
    BY <1>1
<1>4. InsertAt(q, i, e) = (before \o <<e>>) \o after
    BY DEF InsertAt
<1> HIDE DEF before, after
<1> DEFINE front == before \o <<e>>
<1>5. /\ front \in Seq(S) /\ Len(front) = i /\ front[i] = e
      /\ \A j \in 1..i - 1 : front[j] = before[j]
    BY <1>1, <1>2
<1> HIDE DEF front
<1>6. front \o after \in Seq(S) /\ Len(front \o after) = Len(q) + 1
    <2>1. front \o after \in Seq(S) /\ Len(front \o after) = Len(front) + Len(after)
        BY <1>3, <1>5, ConcatFacts
    <2>2. i + (Len(q) + 1 - i) = Len(q) + 1
        BY <1>1
    <2> QED  BY <2>1, <2>2, <1>3, <1>5
<1>7. ASSUME NEW j \in 1..Len(q) + 1
      PROVE  (front \o after)[j] = IF j < i THEN q[j] ELSE IF j = i THEN e ELSE q[j - 1]
    <2>1. (front \o after)[j] = IF j <= i THEN front[j] ELSE after[j - i]
        BY <1>1, <1>3, <1>5
    <2>2. CASE j < i
        BY <2>1, <2>2, <1>1, <1>2, <1>5
    <2>3. CASE j = i
        BY <2>1, <2>3, <1>1, <1>5
    <2>4. CASE j > i
        <3>1. /\ j - i \in 1..Len(q) + 1 - i /\ i - 1 + (j - i) = j - 1
              /\ ~ j < i /\ j # i
            BY <1>1, <2>4
        <3>2. (front \o after)[j] = after[j - i]
            BY <2>1, <2>4, <1>1
        <3>3. after[j - i] = q[j - 1]
            BY <1>3, <3>1
        <3> QED  BY <3>1, <3>2, <3>3
    <2>5. j < i \/ j = i \/ j > i
        BY <1>1
    <2> QED  BY <2>2, <2>3, <2>4, <2>5
<1> QED  BY <1>4, <1>6, <1>7 DEF front

\* A sequence with an element less.
LEMMA RemoveFacts ==
    ASSUME NEW S, NEW q \in Seq(S), NEW i \in DOMAIN q
    PROVE  LET r == RemoveAt(q, i) IN
           /\ r \in Seq(S) /\ Len(r) = Len(q) - 1
           /\ \A j \in 1..Len(q) - 1 : r[j] = IF j < i THEN q[j] ELSE q[j + 1]
<1> DEFINE before == SubSeq(q, 1, i - 1)  after == SubSeq(q, i + 1, Len(q))
<1>1. i \in 1..Len(q) /\ Len(q) \in Nat
    OBVIOUS
<1>2. before \in Seq(S) /\ Len(before) = i - 1 /\ \A j \in 1..i - 1 : before[j] = q[j]
    BY <1>1
<1>3. /\ after \in Seq(S) /\ Len(after) = Len(q) - i
      /\ \A j \in 1..Len(q) - i : after[j] = q[i + j]
    BY <1>1
<1>4. RemoveAt(q, i) = before \o after
    BY DEF RemoveAt
<1> HIDE DEF before, after
<1>5. before \o after \in Seq(S) /\ Len(before \o after) = Len(q) - 1
    BY <1>1, <1>2, <1>3
<1>6. ASSUME NEW j \in 1..Len(q) - 1
      PROVE  (before \o after)[j] = IF j < i THEN q[j] ELSE q[j + 1]
    <2>1. (before \o after)[j] = IF j <= i - 1 THEN before[j] ELSE after[j - (i - 1)]
        BY <1>1, <1>2, <1>3
    <2>2. CASE j < i
        BY <2>1, <2>2, <1>1, <1>2
    <2>3. CASE ~ j < i
        <3>1. j - (i - 1) \in 1..Len(q) - i /\ i + (j - (i - 1)) = j + 1
            BY <1>1, <2>3
        <3>2. (before \o after)[j] = after[j - (i - 1)]
            BY <2>1, <2>3, <1>1
        <3>3. after[j - (i - 1)] = q[i + (j - (i - 1))]
            BY <1>3, <3>1
        <3> QED  BY <2>3, <3>1, <3>2, <3>3
    <2> QED  BY <2>2, <2>3
<1> QED  BY <1>4, <1>5, <1>6

\* In its place, an element leaves an increasing sequence increasing ...
LEMMA InsertKeepsOrder ==
    ASSUME NEW q \in Seq(Nat), Increasing(q), NEW i \in 1..Len(q) + 1, NEW e \in Nat,
           \A j \in DOMAIN q : IF j < i THEN q[j] < e ELSE e < q[j]
    PROVE  Increasing(InsertAt(q, i, e)) /\ Range(InsertAt(q, i, e)) = Range(q) \union {e}
<1> DEFINE r == InsertAt(q, i, e)
<1>1. /\ r \in Seq(Nat) /\ Len(r) = Len(q) + 1
      /\ \A j \in 1..Len(q) + 1 : r[j] = IF j < i THEN q[j] ELSE IF j = i THEN e ELSE q[j - 1]
    BY InsertFacts
<1>2. Len(q) \in Nat /\ DOMAIN q = 1..Len(q) /\ \A j \in 1..Len(q) : q[j] \in Nat
    OBVIOUS
<1> HIDE DEF r
<1>3. DOMAIN r = 1..Len(q) + 1
    BY <1>1, <1>2
<1>4. ASSUME NEW j \in DOMAIN r, NEW k \in DOMAIN r, j < k
      PROVE  r[j] < r[k]
    <2>1. CASE k < i
        BY <2>1, <1>1, <1>2, <1>3, <1>4 DEF Increasing
    <2>2. CASE k = i
        BY <2>2, <1>1, <1>2, <1>3, <1>4
    <2>3. CASE k > i /\ j < i
        <3>1. r[j] = q[j] /\ r[k] = q[k - 1] /\ j \in 1..Len(q) /\ k - 1 \in 1..Len(q) /\ ~ k - 1 < i
            BY <2>3, <1>1, <1>2, <1>3
        <3>2. q[j] < e /\ e < q[k - 1] /\ q[j] \in Nat /\ q[k - 1] \in Nat
            BY <3>1, <2>3, <1>2
        <3> QED  BY <3>1, <3>2
    <2>4. CASE k > i /\ j = i
        <3>1. r[j] = e /\ r[k] = q[k - 1] /\ k - 1 \in 1..Len(q) /\ ~ k - 1 < i
            BY <2>4, <1>1, <1>2, <1>3
        <3> QED  BY <3>1, <1>2
    <2>5. CASE k > i /\ j > i
        <3>1. r[j] = q[j - 1] /\ j - 1 \in 1..Len(q)
            BY <2>5, <1>1, <1>2, <1>3
        <3>2. r[k] = q[k - 1] /\ k - 1 \in 1..Len(q)
            BY <2>5, <1>1, <1>2, <1>3
        <3>3. j - 1 < k - 1
            BY <1>2, <1>3, <1>4
        <3> QED  BY <3>1, <3>2, <3>3, <1>2 DEF Increasing
    <2> QED  BY <2>1, <2>2, <2>3, <2>4, <2>5, <1>3
<1>5. \A j \in DOMAIN q : \E k \in DOMAIN r : r[k] = q[j]
    <2> SUFFICES ASSUME NEW j \in DOMAIN q PROVE \E k \in DOMAIN r : r[k] = q[j]
        OBVIOUS
    <2>1. CASE j < i
        <3>1. j \in DOMAIN r /\ r[j] = q[j]
            BY <2>1, <1>1, <1>2, <1>3
        <3> QED  BY <3>1
    <2>2. CASE ~ j < i
        <3>1. j + 1 \in DOMAIN r /\ j + 1 - 1 = j /\ ~ j + 1 < i /\ j + 1 # i
            BY <2>2, <1>2, <1>3
        <3>2. r[j + 1] = q[j]
            BY <3>1, <1>1, <1>3
        <3> QED  BY <3>1, <3>2
    <2> QED  BY <2>1, <2>2
<1>6. \A k \in DOMAIN r : r[k] = e \/ \E j \in DOMAIN q : r[k] = q[j]
    <2> SUFFICES ASSUME NEW k \in DOMAIN r PROVE r[k] = e \/ \E j \in DOMAIN q : r[k] = q[j]
        OBVIOUS
    <2>1. CASE k < i
        BY <2>1, <1>1, <1>2, <1>3
    <2>2. CASE k > i
        <3>1. k - 1 \in DOMAIN q /\ r[k] = q[k - 1]
            BY <2>2, <1>1, <1>2, <1>3
        <3> QED  BY <3>1
    <2>3. CASE k = i
        BY <2>3, <1>1, <1>3
    <2> QED  BY <2>1, <2>2, <2>3, <1>3
<1>7. i \in DOMAIN r /\ r[i] = e
    BY <1>1, <1>2, <1>3
<1> QED  BY <1>4, <1>5, <1>6, <1>7 DEF Increasing, Range, r

\* ... and so does taking one out.
LEMMA RemoveKeepsOrder ==
    ASSUME NEW q \in Seq(Nat), Increasing(q), NEW i \in DOMAIN q
    PROVE  Increasing(RemoveAt(q, i)) /\ Range(RemoveAt(q, i)) = Range(q) \ {q[i]}
<1> DEFINE r == RemoveAt(q, i)
<1>1. /\ r \in Seq(Nat) /\ Len(r) = Len(q) - 1
      /\ \A j \in 1..Len(q) - 1 : r[j] = IF j < i THEN q[j] ELSE q[j + 1]
    BY RemoveFacts
<1>2. Len(q) \in Nat /\ DOMAIN q = 1..Len(q) /\ \A j \in 1..Len(q) : q[j] \in Nat
    OBVIOUS
<1> HIDE DEF r
<1>3. DOMAIN r = 1..Len(q) - 1
    BY <1>1, <1>2
<1> DEFINE From(j) == IF j < i THEN j ELSE j + 1
<1>4. \A j \in DOMAIN r : From(j) \in DOMAIN q /\ From(j) # i /\ r[j] = q[From(j)]
    <2> SUFFICES ASSUME NEW j \in DOMAIN r
                 PROVE  From(j) \in DOMAIN q /\ From(j) # i /\ r[j] = q[From(j)]
        OBVIOUS
    <2>1. CASE j < i
        BY <2>1, <1>1, <1>2, <1>3
    <2>2. CASE ~ j < i
        BY <2>2, <1>1, <1>2, <1>3
    <2> QED  BY <2>1, <2>2
<1>5. \A j, k \in DOMAIN r : j < k => r[j] < r[k]
    <2> SUFFICES ASSUME NEW j \in DOMAIN r, NEW k \in DOMAIN r, j < k PROVE r[j] < r[k]
        OBVIOUS
    <2>1. From(j) < From(k)
        BY <1>2, <1>3
    <2>2. From(j) \in DOMAIN q /\ From(k) \in DOMAIN q /\ r[j] = q[From(j)] /\ r[k] = q[From(k)]
        BY <1>4
    <2> HIDE DEF From
    <2> QED  BY <2>1, <2>2 DEF Increasing
<1>6. \A p \in DOMAIN q : p # i => \E j \in DOMAIN r : r[j] = q[p]
    <2> SUFFICES ASSUME NEW p \in DOMAIN q, p # i PROVE \E j \in DOMAIN r : r[j] = q[p]
        OBVIOUS
    <2>1. CASE p < i
        <3>1. p \in DOMAIN r /\ r[p] = q[p]
            BY <2>1, <1>1, <1>2, <1>3
        <3> QED  BY <3>1
    <2>2. CASE p > i
        <3>1. p - 1 \in DOMAIN r /\ p - 1 + 1 = p /\ ~ p - 1 < i
            BY <2>2, <1>2, <1>3
        <3>2. r[p - 1] = q[p]
            BY <3>1, <1>1, <1>3
        <3> QED  BY <3>1, <3>2
    <2> QED  BY <2>1, <2>2, <1>2
<1>7. \A p \in DOMAIN q : p # i => q[p] # q[i]
    BY <1>2 DEF Increasing
<1>8. ASSUME NEW x
      PROVE  x \in Range(r) <=> x \in Range(q) /\ x # q[i]
    <2> HIDE DEF From
    <2> QED  BY <1>4, <1>6, <1>7 DEF Range
<1> QED  BY <1>5, <1>8 DEF Increasing, r

----------------------------------------------------------------------------
\* Slots are numbers, and before each but the first there is another.
LEMMA SlotNumbers == Slot \subseteq Nat /\ \A s \in Slot : s \in 0..Size - 1 /\ (s # 0 => s - 1 \in Slot)
BY UnitNumbers

\* A sequence of some numbers is a sequence of numbers.
LEMMA NumbersIn ==
    ASSUME NEW S, S \subseteq Nat, NEW q \in Seq(S)
    PROVE  q \in Seq(Nat) /\ Len(q) \in Nat /\ \A i \in DOMAIN q : q[i] \in S
<1>1. \A i \in 1..Len(q) : q[i] \in S
    OBVIOUS
<1>2. q = [i \in 1..Len(q) |-> q[i]] /\ Len(q) \in Nat
    OBVIOUS
<1>3. \A i \in 1..Len(q) : q[i] \in Nat
    BY <1>1
<1>4. q \in Seq(Nat)
    BY <1>2, <1>3
<1> QED  BY <1>1, <1>2, <1>4

\* A slot in use has a place in the list.
LEMMA PlaceFacts ==
    ASSUME ListInv, NEW s \in used
    PROVE  PlaceOf(s) \in DOMAIN list /\ list[PlaceOf(s)] = s
<1>1. \E i \in DOMAIN list : list[i] = s
    BY DEF ListInv, Range
<1> QED  BY <1>1 DEF PlaceOf

\* EntryList::add: all slots before a new one are in use.
LEMMA AddListed ==
    ASSUME UnitTypes, ListInv, NEW k \in Key, AddEntry(k)
    PROVE  ListInv'
<1> DEFINE s == FreeSlot
<1>1. s \in Slot \ used /\ \A r \in Slot \ used : s <= r
    BY FreeSlotIsFree DEF AddEntry, UnitTypes
<1>2. used' = used \union {s} /\ list' = Inserted(s)
    BY DEF AddEntry
<1> HIDE DEF s
<1>3. /\ list \in Seq(Slot) /\ list \in Seq(Nat) /\ Increasing(list) /\ Range(list) = used
      /\ s \in Nat /\ Len(list) \in Nat
    BY <1>1, SlotNumbers, NumbersIn DEF ListInv
<1>4. \A j \in DOMAIN list : list[j] \in used /\ list[j] \in Nat
    BY <1>3 DEF Range
<1>5. ASSUME NEW i \in 1..Len(list) + 1, \A j \in DOMAIN list : IF j < i THEN list[j] < s ELSE s < list[j],
             list' = InsertAt(list, i, s)
      PROVE  ListInv'
    <2>1. Increasing(list') /\ Range(list') = used'
        BY <1>2, <1>3, <1>5, InsertKeepsOrder
    <2>2. list' \in Seq(Slot)
        BY <1>1, <1>3, <1>5, InsertFacts
    <2> QED  BY <2>1, <2>2 DEF ListInv
<1>6. CASE s = 0
    <2>1. list' = InsertAt(list, 1, s)
        <3>1. SubSeq(list, 1, Len(list)) = list /\ SubSeq(list, 1, 0) = <<>>
            BY <1>3
        <3>2. <<>> \o <<s>> = <<s>>
            BY <1>3
        <3> QED  BY <1>2, <1>6, <3>1, <3>2 DEF Inserted, InsertAt
    <2>2. \A j \in DOMAIN list : ~ j < 1 /\ s < list[j]
        <3> SUFFICES ASSUME NEW j \in DOMAIN list PROVE ~ j < 1 /\ s < list[j]
            OBVIOUS
        <3>1. j >= 1
            BY <1>3
        <3>2. list[j] # s
            BY <1>1, <1>4
        <3> QED  BY <3>1, <3>2, <1>3, <1>4, <1>6
    <2>3. 1 \in 1..Len(list) + 1
        BY <1>3
    <2> QED  BY <2>1, <2>2, <2>3, <1>5
<1>7. CASE s # 0
    <2> DEFINE p == PlaceOf(s - 1)
    <2>1. s - 1 \in used
        BY <1>1, <1>3, <1>7, SlotNumbers
    <2>2. p \in DOMAIN list /\ list[p] = s - 1
        BY <2>1, PlaceFacts
    <2>3. list' = InsertAt(list, 1 + p, s)
        BY <1>2, <1>7 DEF Inserted
    <2> HIDE DEF p
    <2>4. 1 + p \in 1..Len(list) + 1 /\ p \in Nat
        BY <2>2, <1>3
    <2>5. ASSUME NEW j \in DOMAIN list
          PROVE  IF j < 1 + p THEN list[j] < s ELSE s < list[j]
        <3>1. list[j] # s /\ list[j] \in Nat /\ j \in Nat
            BY <1>1, <1>3, <1>4
        <3>2. CASE j < 1 + p
            <4>1. j < p \/ j = p
                BY <2>4, <3>1, <3>2
            <4>2. list[j] <= s - 1
                BY <4>1, <2>2, <3>1, <1>3 DEF Increasing
            <4> QED  BY <4>2, <3>1, <3>2, <1>3
        <3>3. CASE ~ j < 1 + p
            <4>1. p < j
                BY <2>4, <3>1, <3>3
            <4>2. s - 1 < list[j]
                BY <4>1, <2>2, <1>3 DEF Increasing
            <4> QED  BY <4>2, <3>1, <3>3, <1>3
        <3> QED  BY <3>2, <3>3
    <2> QED  BY <2>3, <2>4, <2>5, <1>5
<1> QED  BY <1>6, <1>7

\* EntryList::delete_entry.
LEMMA DeleteListed ==
    ASSUME UnitTypes, ListInv, NEW h \in issued, DeleteEntry(h)
    PROVE  ListInv'
<1> DEFINE p == PlaceOf(h.slot)
<1>1. h.slot \in used /\ used' = used \ {h.slot} /\ list' = RemoveAt(list, p)
    BY DEF DeleteEntry, Accepts, Removed
<1>2. p \in DOMAIN list /\ list[p] = h.slot
    BY <1>1, PlaceFacts
<1> HIDE DEF p
<1>3. list \in Seq(Slot) /\ list \in Seq(Nat) /\ Increasing(list) /\ Range(list) = used
    BY SlotNumbers, NumbersIn DEF ListInv
<1>4. Increasing(list') /\ Range(list') = used'
    BY <1>1, <1>2, <1>3, RemoveKeepsOrder
<1>5. list' \in Seq(Slot)
    BY <1>1, <1>2, <1>3, RemoveFacts
<1> QED  BY <1>4, <1>5 DEF ListInv

----------------------------------------------------------------------------
\* What the list names are slots in use, whose priorities are numbers.
LEMMA KeyFacts ==
    ASSUME UnitTypes, ListInv
    PROVE  \A i \in DOMAIN list : list[i] \in used /\ list[i] \in Slot /\ Priority(i) \in Nat
<1>1. \A i \in DOMAIN list : list[i] \in used /\ list[i] \in Slot
    BY DEF UnitTypes, ListInv, Range
<1>2. \A s \in Slot : slot[s].key \in Key \union {NoKey}
    BY DEF UnitTypes, Entry
<1>3. \A k \in Key \union {NoKey} : k.priority \in Nat
    BY MatchUnitAssumption DEF NoKey
<1> QED  BY <1>1, <1>2, <1>3 DEF Priority

\* The scan ends with the first of the entries of the lowest priority value.
LEMMA FirstIsBest ==
    ASSUME UnitTypes, ListInv, NEW d, Matching(d) # {}
    PROVE  Best(FirstMatch(d), d)
<1>1. Matching(d) \subseteq DOMAIN list /\ DOMAIN list \subseteq Nat
    BY DEF Matching, ListInv
<1> DEFINE P == {Priority(i) : i \in Matching(d)}
<1>2. P \in SUBSET Nat /\ P # {}
    BY <1>1, KeyFacts
<1>3. PICK p \in P : \A r \in P : p <= r
    <2> HIDE DEF P
    <2> QED  BY <1>2, LeastNumber
<1> DEFINE I == {i \in Matching(d) : Priority(i) = p}
<1>4. I \in SUBSET Nat /\ I # {}
    BY <1>1, <1>3
<1>5. PICK i \in I : \A j \in I : i <= j
    <2> HIDE DEF I
    <2> QED  BY <1>4, LeastNumber
<1>6. i \in Matching(d) /\ Priority(i) = p
    BY <1>5
<1>7. ASSUME NEW j \in Matching(d)
      PROVE  Priority(i) < Priority(j) \/ (Priority(i) = Priority(j) /\ i <= j)
    <2>1. Priority(j) \in P /\ Priority(j) \in Nat /\ Priority(i) \in Nat
        BY <1>1, <1>6, KeyFacts
    <2>2. p <= Priority(j)
        BY <1>3, <2>1
    <2>3. Priority(j) = p => i <= j
        BY <1>5
    <2> QED  BY <1>6, <2>1, <2>2, <2>3
<1>8. Best(i, d)
    BY <1>6, <1>7 DEF Best
<1> QED  BY <1>8 DEF Best, FirstMatch, Priority

\* A lower priority value has the lower rank, whatever the slots.
LEMMA Ranks ==
    ASSUME NEW n \in Nat \ {0}, NEW p \in Nat, NEW q \in Nat, NEW s \in 0..n - 1, NEW r \in 0..n - 1, p < q
    PROVE  p * n + s < q * n + r /\ p * n + s \in Nat /\ q * n + r \in Nat
<1> DEFINE g == q - p - 1  a == p * n  b == g * n  c == q * n
<1>1. g \in Nat /\ q = p + 1 + g
    OBVIOUS
<1>2. a \in Nat /\ b \in Nat
    BY <1>1
<1>3. c = a + n + b
    <2> HIDE DEF g
    <2> QED  BY <1>1
<1> HIDE DEF g, a, b, c
<1>4. a + s < c + r /\ a + s \in Nat /\ c + r \in Nat
    BY <1>2, <1>3
<1> QED  BY <1>4 DEF a, c

\* Among equal priorities the lower slot has the lower rank.
LEMMA SameRank ==
    ASSUME NEW n \in Nat \ {0}, NEW p \in Nat, NEW s \in 0..n - 1, NEW r \in 0..n - 1
    PROVE  /\ s < r => p * n + s < p * n + r
           /\ p * n + s \in Nat
<1> DEFINE a == p * n
<1>1. a \in Nat
    OBVIOUS
<1> HIDE DEF a
<1>2. (s < r => a + s < a + r) /\ a + s \in Nat
    BY <1>1
<1> QED  BY <1>2 DEF a

\* The best entry of the list is the one a packet should find.
LEMMA BestIsReference ==
    ASSUME UnitTypes, ListInv, 0 \in used, NEW d, NEW i, Best(i, d)
    PROVE  Reference(d) = HandleFromEntry(list[i])
<1> DEFINE match == {s \in used : slot[s].key.priority < IntMax /\ d \in slot[s].key.match}
           rank(s) == slot[s].key.priority * Size + s
<1>1. Head(list) = 0 /\ list \in Seq(Slot)
    <2>1. PICK j \in DOMAIN list : list[j] = 0
        BY DEF ListInv, Range
    <2>2. list \in Seq(Slot) /\ Increasing(list) /\ Len(list) \in Nat /\ 1 \in DOMAIN list
        BY <2>1 DEF ListInv
    <2>3. list[1] \in Nat
        BY <2>2, SlotNumbers, NumbersIn
    <2>4. j = 1
        BY <2>1, <2>2, <2>3 DEF Increasing
    <2> QED  BY <2>1, <2>2, <2>4
<1>2. i \in DOMAIN list /\ list[i] \in match /\ match \subseteq Slot
    <2>1. i \in DOMAIN list /\ slot[list[i]].key.priority < IntMax /\ d \in slot[list[i]].key.match
        BY DEF Best, Matching
    <2> QED  BY <2>1, KeyFacts DEF UnitTypes
<1>3. HandleFromEntry(list[i]) = list[i]
    <2>1. list[i] \in Int
        <3> HIDE DEF match, rank
        <3>1. list[i] \in Slot
            BY <1>2
        <3> QED  BY <3>1, UnitNumbers
    <2> HIDE DEF match, rank
    <2> QED  BY <1>1, <2>1 DEF HandleFromEntry
<1>4. ASSUME NEW r \in match, r # list[i]
      PROVE  rank(list[i]) < rank(r) /\ rank(r) \in Nat /\ rank(list[i]) \in Nat
    <2>1. PICK j \in DOMAIN list : list[j] = r
        BY DEF ListInv, Range
    <2>2. j \in Matching(d)
        <3>1. slot[list[j]].key.priority < IntMax /\ d \in slot[list[j]].key.match
            BY <2>1
        <3> QED  BY <3>1 DEF Matching
    <2> DEFINE p == Priority(i)  q == Priority(j)
    <2>3. p \in Nat /\ q \in Nat /\ list[i] \in 0..Size - 1 /\ r \in 0..Size - 1
        BY <1>2, <2>1, KeyFacts, SlotNumbers
    <2>4. rank(list[i]) = p * Size + list[i] /\ rank(r) = q * Size + r
        BY <2>1 DEF Priority
    <2>5. p < q \/ (p = q /\ i < j)
        <3>1. p < q \/ (p = q /\ i <= j)
            BY <2>2 DEF Best
        <3>2. i # j /\ i \in Nat /\ j \in Nat
            BY <1>2, <1>4, <2>1, <1>1
        <3> QED  BY <3>1, <3>2
    <2> HIDE DEF p, q, rank
    <2>6. CASE p < q
        BY <2>3, <2>4, <2>6, Ranks, UnitNumbers
    <2>7. CASE p = q /\ i < j
        <3>1. list[i] < r
            BY <2>1, <2>7, <1>2 DEF ListInv, Increasing
        <3> QED  BY <3>1, <2>3, <2>4, <2>7, SameRank, UnitNumbers
    <2> QED  BY <2>5, <2>6, <2>7
<1>5. rank(list[i]) \in Nat
    <2>1. list[i] \in 0..Size - 1 /\ slot[list[i]].key.priority \in Nat
        BY <1>2, KeyFacts, SlotNumbers DEF Priority
    <2> QED  BY <2>1, SameRank, UnitNumbers
<1> DEFINE Lowest(s) == \A r \in match : rank(s) <= rank(r)
<1>6. Lowest(list[i])
    <2> HIDE DEF rank, match
    <2> QED  BY <1>4, <1>5
<1>7. \A s \in match : Lowest(s) => s = list[i]
    <2> HIDE DEF rank
    <2> QED  BY <1>2, <1>4
<1>8. Reference(d) = CHOOSE s \in match : Lowest(s)
    BY <1>2 DEF Reference
<1> HIDE DEF match, Lowest
<1> QED  BY <1>2, <1>3, <1>6, <1>7, <1>8

----------------------------------------------------------------------------
\* What the scan finds changes with the list and the keys only.
LEMMA SeenSame ==
    ASSUME list' = list, \A i \in DOMAIN list : slot'[list[i]].key = slot[list[i]].key
    PROVE  Seen' = Seen
<1>1. \A d : Matching(d)' = Matching(d) /\ Matching(d) \subseteq DOMAIN list
    BY DEF Matching
<1>2. \A i \in DOMAIN list : Priority(i)' = Priority(i)
    BY DEF Priority
<1>3. \A d : \A i \in DOMAIN list : Best(i, d)' <=> Best(i, d)
    BY <1>1, <1>2 DEF Best
<1>4. \A i \in DOMAIN list : HandleFromEntry(list[i])' = HandleFromEntry(list[i])
    BY DEF HandleFromEntry
<1> QED  BY <1>3, <1>4 DEF Seen

\* A step that leaves list and keys alone leaves the cache right.
LEMMA StillCached ==
    ASSUME CacheInv, list' = list, \A i \in DOMAIN list : slot'[list[i]].key = slot[list[i]].key,
           cache' = cache
    PROVE  CacheInv'
<1>1. Seen' = Seen
    BY SeenSame
<1> QED  BY <1>1 DEF CacheInv, CacheActive

\* A cache with an element in front.
LEMMA InFront ==
    ASSUME NEW S, NEW e \in S, NEW q \in Seq(S)
    PROVE  <<e>> \o q \in Seq(S)
OBVIOUS

\* TernaryCache: a lookup moves its entry to the front or adds it there.
LEMMA LookupCached ==
    ASSUME UnitTypes, ListInv, CacheInv, NEW d \in Data, Lookup(d)
    PROVE  CacheInv'
<1>1. cache' = CacheAfter(d) /\ list' = list /\ slot' = slot
    BY DEF Lookup
<1>2. Seen' = Seen
    BY <1>1, SeenSame
<1>3. CacheActive' <=> CacheActive
    BY <1>1 DEF CacheActive
<1> HIDE DEF Seen
<1>4. CASE Cached(d)
    <2> DEFINE c == CachedAt(d)  rest == RemoveAt(cache, c)
    <2>1. c \in DOMAIN cache /\ CacheActive
        BY <1>4 DEF Cached, CachedAt
    <2>2. cache' = <<cache[c]>> \o rest
        BY <1>1, <1>4 DEF CacheAfter
    <2> HIDE DEF c
    <2>3. cache[c] \in Seen
        BY <2>1 DEF CacheInv
    <2>4. rest \in Seq(Seen)
        BY <2>1, RemoveFacts DEF CacheInv
    <2> HIDE DEF rest
    <2> QED  BY <2>1, <2>2, <2>3, <2>4, <1>2, <1>3, InFront DEF CacheInv
<1>5. CASE ~ Cached(d) /\ CacheActive /\ Found(d) # NoSlot
    <2> DEFINE e == [data |-> d, slot |-> Found(d)]
               rest == IF Len(cache) = CacheSize THEN Front(cache) ELSE cache
    <2>1. cache' = <<e>> \o rest
        BY <1>1, <1>5 DEF CacheAfter
    <2>2. Matching(d) # {} /\ Found(d) = HandleFromEntry(list[FirstMatch(d)])
        BY <1>5 DEF Found
    <2>3. Best(FirstMatch(d), d) /\ FirstMatch(d) \in DOMAIN list
        BY <2>2, FirstIsBest DEF Best, Matching
    <2>4. Found(d) \in Int
        <3>1. list \in Seq(Slot) /\ DOMAIN list # {}
            BY <2>3 DEF ListInv
        <3>2. \A i \in DOMAIN list : list[i] \in Nat
            BY <3>1, SlotNumbers, NumbersIn
        <3>3. 1 \in DOMAIN list /\ Head(list) = list[1]
            BY <3>1
        <3> QED  BY <2>2, <2>3, <3>2, <3>3 DEF HandleFromEntry
    <2>5. e \in Seen
        BY <2>2, <2>3, <2>4 DEF Seen
    <2>6. rest \in Seq(Seen)
        <3>1. CASE Len(cache) = CacheSize
            <4>1. Len(cache) - 1 \in 0..Len(cache)
                BY <3>1, MatchUnitAssumption
            <4>2. SubSeq(cache, 1, Len(cache) - 1) \in Seq(Seen)
                BY <4>1 DEF CacheInv
            <4> QED  BY <3>1, <4>2 DEF Front
        <3>2. CASE Len(cache) # CacheSize
            BY <3>2 DEF CacheInv
        <3> QED  BY <3>1, <3>2
    <2> HIDE DEF e, rest
    <2> QED  BY <2>1, <2>5, <2>6, <1>2, <1>3, <1>5, InFront DEF CacheInv
<1>6. CASE ~ Cached(d) /\ ~ (CacheActive /\ Found(d) # NoSlot)
    <2>1. cache' = cache
        BY <1>1, <1>6 DEF CacheAfter
    <2> QED  BY <2>1, <1>2, <1>3 DEF CacheInv
<1> QED  BY <1>4, <1>5, <1>6

\* EntryList::add and delete_entry leave nothing in the cache.
LEMMA NothingCached ==
    ASSUME cache' = <<>>
    PROVE  CacheInv'
<1>1. <<>> \in Seq(Seen')
    OBVIOUS
<1> QED  BY <1>1 DEF CacheInv

\* invalidate() empties the cache.
LEMMA InvalidatedIsEmpty == CacheInv => Invalidated = <<>>
BY DEF CacheInv, Invalidated

----------------------------------------------------------------------------
\* An empty table: nothing in use, listed or cached.
LEMMA TableStarts == AgeingInit => TableInv
<1> SUFFICES ASSUME AgeingInit PROVE TableInv
    OBVIOUS
<1>1. UnitInv
    BY DEF AgeingInit, Init, UnitInv, UnitTypes, HandlesGiven, VersionsPast, Empty, Entry
<1>2. list = <<>> /\ cache = <<>> /\ used = {}
    BY DEF AgeingInit, Init
<1>3. DOMAIN list = {} /\ <<>> \in Seq(Slot) /\ <<>> \in Seq(Seen)
    BY <1>2
<1>4. ListInv
    BY <1>2, <1>3 DEF ListInv, Increasing, Range
<1> QED  BY <1>1, <1>2, <1>3, <1>4 DEF TableInv, CacheInv

\* Every step of the table and of the monitor keeps list and cache right.
LEMMA TableKept ==
    ASSUME TableInv, UnitInv', [AgeingNext]_<<vars, monitor>>
    PROVE  TableInv'
<1>1. UnitTypes /\ ListInv /\ CacheInv
    BY DEF TableInv, UnitInv
<1>2. ASSUME UNCHANGED <<used, list, cache>>,
             \A i \in DOMAIN list : slot'[list[i]].key = slot[list[i]].key
      PROVE  ListInv' /\ CacheInv'
    BY <1>1, <1>2, StillCached DEF ListInv
<1>3. ASSUME NEW k \in Key, AddEntry(k) PROVE ListInv' /\ CacheInv'
    BY <1>1, <1>3, AddListed, InvalidatedIsEmpty, NothingCached DEF AddEntry
<1>4. ASSUME NEW h \in issued, DeleteEntry(h) PROVE ListInv' /\ CacheInv'
    BY <1>1, <1>4, DeleteListed, InvalidatedIsEmpty, NothingCached DEF DeleteEntry
<1>5. ASSUME NEW h \in issued, ModifyEntry(h) PROVE ListInv' /\ CacheInv'
    <2>1. UNCHANGED <<used, list, cache>> /\ slot' = [slot EXCEPT ![h.slot].value = h.id]
        BY <1>5 DEF ModifyEntry
    <2>2. slot \in [Slot -> Entry]
        BY <1>1 DEF UnitTypes
    <2>3. \A s \in Slot : slot'[s].key = slot[s].key
        <3> SUFFICES ASSUME NEW s \in Slot PROVE slot'[s].key = slot[s].key
            OBVIOUS
        <3>1. slot[s] \in Entry
            BY <2>2
        <3>2. CASE s = h.slot
            BY <2>1, <2>2, <3>1, <3>2 DEF Entry
        <3>3. CASE s # h.slot
            BY <2>1, <2>2, <3>3
        <3> QED  BY <3>2, <3>3
    <2> QED  BY <2>1, <2>3, <1>1, <1>2, KeyFacts
<1>6. ASSUME NEW d \in Data, Lookup(d) PROVE ListInv' /\ CacheInv'
    BY <1>1, <1>6, LookupCached DEF Lookup, ListInv
<1>7. ASSUME UNCHANGED <<used, slot, list, cache>> PROVE ListInv' /\ CacheInv'
    BY <1>2, <1>7
<1>8. ASSUME NEW h \in issued, NEW ms \in {0, 1}, SetEntryTtl(h, ms) PROVE ListInv' /\ CacheInv'
    BY <1>7, <1>8 DEF SetEntryTtl
<1>9. ASSUME NEW s \in Slot, TimePasses(s) PROVE ListInv' /\ CacheInv'
    BY <1>7, <1>9 DEF TimePasses
<1>10. ASSUME Sweep \/ UNCHANGED <<vars, monitor>> PROVE ListInv' /\ CacheInv'
    <2>1. UNCHANGED vars
        BY <1>10 DEF Sweep
    <2>2. UNCHANGED <<used, slot, list, cache>>
        BY <2>1 DEF vars, unit
    <2> QED  BY <1>7, <2>2
<1>11. ASSUME AgeingReset PROVE ListInv' /\ CacheInv'
    <2>1. list' = <<>> /\ cache' = <<>> /\ used' = {}
        BY <1>11 DEF AgeingReset, ResetState
    <2>2. DOMAIN list' = {} /\ list' \in Seq(Slot)
        BY <2>1
    <2>3. Increasing(list') /\ Range(list') = used'
        BY <2>1, <2>2 DEF Increasing, Range
    <2>4. CacheInv'
        BY <2>1, NothingCached
    <2> QED  BY <2>2, <2>3, <2>4 DEF ListInv
<1>12. ListInv' /\ CacheInv'
    <2>1. UnitNext \/ AgeingReset \/ Sweep \/ UNCHANGED <<vars, monitor>>
        BY DEF AgeingNext
    <2>2. ASSUME UnitNext PROVE ListInv' /\ CacheInv'
        BY <2>2, <1>3, <1>4, <1>5, <1>6, <1>8, <1>9 DEF UnitNext
    <2> QED  BY <2>1, <2>2, <1>10, <1>11
<1> QED  BY <1>12 DEF TableInv

\* The entry list and the cache agree with the table: the inductive invariant
\* of the lookup (lookup_structures.cpp, EntryList and TernaryCache).
THEOREM TableInvariant == AgeingSpec => []TableInv
<1>1. TableInv /\ UnitInv' /\ [AgeingNext]_<<vars, monitor>> => TableInv'
    BY TableKept
<1> QED  BY <1>1, TableStarts, UnitInvariant, PTL DEF AgeingSpec

\* Scan and cache find the entry of the lowest priority value and, among
\* equals, of the lowest slot, whatever entries come and go, as long as slot
\* 0, from which EntryList counts its handles, is in use; an entry of priority
\* INT_MAX, at which the scan starts, is not among those it finds.
THEOREM PacketsFindTheBest == AgeingSpec => []LookupFindsBest
<1>1. ASSUME TableInv, 0 \in used, NEW d \in Data PROVE Found(d) = Reference(d)
    <2>1. UnitTypes /\ ListInv /\ CacheInv
        BY <1>1 DEF TableInv, UnitInv
    <2>2. CASE Cached(d)
        <3>1. CachedAt(d) \in DOMAIN cache /\ cache[CachedAt(d)].data = d
            BY <2>2 DEF Cached, CachedAt
        <3>2. cache[CachedAt(d)] \in Seen
            BY <2>1, <3>1 DEF CacheInv
        <3>3. PICK i \in DOMAIN list : Best(i, d) /\ cache[CachedAt(d)].slot = HandleFromEntry(list[i])
            BY <3>1, <3>2 DEF Seen
        <3> QED  BY <1>1, <2>1, <2>2, <3>3, BestIsReference DEF Found
    <2>3. CASE ~ Cached(d) /\ Matching(d) # {}
        BY <1>1, <2>1, <2>3, FirstIsBest, BestIsReference DEF Found
    <2>4. CASE ~ Cached(d) /\ Matching(d) = {}
        <3>1. {s \in used : slot[s].key.priority < IntMax /\ d \in slot[s].key.match} = {}
            <4> SUFFICES ASSUME NEW s \in used, slot[s].key.priority < IntMax, d \in slot[s].key.match
                         PROVE  FALSE
                OBVIOUS
            <4>1. PICK i \in DOMAIN list : list[i] = s
                BY <2>1 DEF ListInv, Range
            <4> QED  BY <2>4, <4>1 DEF Matching
        <3> QED  BY <2>4, <3>1 DEF Found, Reference
    <2> QED  BY <2>2, <2>3, <2>4
<1>2. TableInv => LookupFindsBest
    BY <1>1 DEF LookupFindsBest, LookupExact
<1> QED  BY <1>2, TableInvariant, PTL
=============================================================================
