------------------------- MODULE ActionProfileProofs -------------------------
(***************************************************************************)
(* Proofs about ActionProfile, for any number of tables, keys, threads,    *)
(* members and groups: the reference counts are exact, nothing an entry    *)
(* refers to is deleted, and no lookup ends the program, unless one of the *)
(* calls that upset names came before.                                     *)
(*                                                                         *)
(* A count is only exact between calls.  The invariant says what it is in  *)
(* the middle of one: a modify that is past its first update has an entry  *)
(* without a reference (Held leaves it out), and an add that will be       *)
(* refused is about to leave a reference nobody holds (Doomed), so that a  *)
(* count is at most so many above its holders that it cannot overflow.     *)
(* Deleting what has a count of 0 is then safe but for an index that a     *)
(* call has validated and not counted yet (Taking): upset has "race" after *)
(* that.                                                                   *)
(*                                                                         *)
(* A lookup finds what it has read before still true (LookInv): the lock   *)
(* of its table keeps the entry or default it has chosen (HoldInv), the    *)
(* count of that keeps the member or the group, and whatever call changes  *)
(* the group or the handles it reads next tears it.                        *)
(***************************************************************************)
EXTENDS ActionProfileProperties, FiniteSetTheorems, TLAPS

-----------------------------------------------------------------------------
\* The inductive invariant.

\* No call went wrong in a way that loses a reference.
Good == upset \intersect {"failedModify", "race"} = {}

\* What a table may refer to.
Live(ix) == ix.h \in IF ix.kind = "mbr" THEN mbrHandles ELSE LiveGroups

\* Between its two updates modify_entry has given the old reference back while
\* the entry still has it.
Released(t, k) ==
    \E c \in Control : /\ op[c] # Idle /\ op[c].call = "modify" /\ op[c].pc # "decStore"
                       /\ op[c].table = t /\ op[c].key = k
Held(ix) == {u \in Users(ix) : ~Released(u[1], u[2])}
GroupsOf(ix) == IF ix.kind = "mbr" THEN {g \in LiveGroups : ix.h \in groups[g].mbrs} ELSE {}

\* The adds under way that will be refused and leave their reference behind.
Doomed == {c \in Control : op[c] # Idle /\ Refused(c)}

\* A call that has checked its new index and will take its reference.
Adding(c) == op[c] # Idle /\ op[c].pc \in {"inc", "incStore"}

NotEmpty(ix) == ix.kind = "grp" => groups[ix.h].mbrs # {}

\* The types of the profile.  The vectors of members and groups only grow; a
\* group has members that exist.
ProfileTypes ==
    /\ mbrHandles \subseteq 0..MaxMbr - 1 /\ grpHandles \subseteq 0..MaxGrp - 1
    /\ mbrHandles \subseteq DOMAIN mbrCount
    /\ \E n \in 0..MaxGrp : DOMAIN groups = 0..n - 1
    /\ groups \in [DOMAIN groups -> [count : Int, mbrs : SUBSET Int]]
    /\ \A g \in LiveGroups : groups[g].mbrs \subseteq mbrHandles

\* The types of the tables and of the calls under way.
Call == [pc : {"inc", "incStore", "decStore", "check"}, call : {"add", "delete", "modify"},
         table : Table, key : Key, index : Index, read : Int, new : Index \union {None}]
TableTypes ==
    /\ entries \in [Table -> UNION {[K -> Index] : K \in SUBSET Key}]
    /\ default \in [Table -> Index \union {None}]
    /\ op \in [Control -> Call \union {Idle}]

\* One call at a time on a table, its index the one it validated (to take) or
\* the one of its entry (to give back).
Calls ==
    /\ \A c, d \in Control : op[c] # Idle /\ op[d] # Idle /\ op[c].table = op[d].table => c = d
    /\ \A c \in Control : op[c] # Idle =>
        /\ op[c].call = "add" => op[c].pc \in {"inc", "incStore"}
        /\ op[c].call = "delete" => op[c].pc = "decStore"
        /\ op[c].call # "add" => op[c].key \in DOMAIN entries[op[c].table]
        /\ op[c].pc = "decStore" => op[c].index = entries[op[c].table][op[c].key]
        /\ op[c].call # "delete" => op[c].new \in Index
        /\ op[c].pc \in {"inc", "incStore"} => op[c].index = op[c].new

\* A count is the number of the holders and of the references left behind.
Exact(ix) ==
    LET refs == Cardinality(Held(ix)) + Cardinality(GroupsOf(ix))
    IN  /\ Count(ix) \in refs..refs + Cardinality(Control) - Cardinality(Doomed)
        /\ "failedAdd" \notin upset => Count(ix) = refs
CountInv == \A ix \in Index : Live(ix) => Exact(ix)

\* What a table refers to, or has checked and is about to refer to.
Taking(ix) == \E c \in Control : Adding(c) /\ op[c].index = ix
Used(ix) == Held(ix) # {} \/ Taking(ix)

\* Deletions leave what is used, removals leave a used group a member, and the
\* defaults, which are not counted, are only as good as the calls were.
Targets == \A ix \in Index : Used(ix) => Live(ix)
Members == "emptied" \notin upset => \A ix \in Index : Used(ix) => NotEmpty(ix)
Defaults ==
    /\ "reset" \notin upset => grpHandles \subseteq DOMAIN groups
    /\ upset \intersect {"default", "reset"} = {} =>
        \A ix \in Index : IsDefault(ix) => Live(ix) /\ ("emptied" \notin upset => NotEmpty(ix))

\* The invariant: as long as no reference was lost or taken late.
Parts == ProfileTypes /\ TableTypes /\ Calls /\ CountInv /\ Targets /\ Members /\ Defaults
APInv == Good => Parts

-----------------------------------------------------------------------------
\* Sizes and numbers.

\* A set of entries is finite, and no larger than all the entries there can be.
LEMMA HeldSize ==
    ASSUME NEW S, S \subseteq Table \X Key
    PROVE  IsFiniteSet(S) /\ Cardinality(S) \in Nat /\ Cardinality(S) <= Cardinality(Table \X Key)
           /\ Cardinality(Table \X Key) \in Nat
<1>1. IsFiniteSet(Table \X Key)
    BY FS_Product, ActionProfileAssumption
<1> QED  BY <1>1, FS_Subset, FS_CardinalityType

\* A set of groups is finite.
LEMMA GroupsSize ==
    ASSUME NEW S, S \subseteq 0..MaxGrp - 1
    PROVE  IsFiniteSet(S) /\ Cardinality(S) \in Nat /\ Cardinality(S) <= MaxGrp
<1>1. IsFiniteSet(0..MaxGrp - 1) /\ Cardinality(0..MaxGrp - 1) = MaxGrp
    <2>1. MaxGrp \in Nat
        BY ActionProfileAssumption
    <2> QED  BY <2>1, FS_Interval
<1> QED  BY <1>1, FS_Subset, FS_CardinalityType

\* A set of threads is finite.
LEMMA ControlSize ==
    ASSUME NEW S, S \subseteq Control
    PROVE  IsFiniteSet(S) /\ Cardinality(S) \in Nat /\ Cardinality(S) <= Cardinality(Control)
           /\ Cardinality(Control) \in Nat
BY FS_Subset, FS_CardinalityType, ActionProfileAssumption

\* An index is a member or a group, never both, and None is neither.
LEMMA IndexFacts ==
    /\ \A m \in 0..MaxMbr - 1 : Mbr(m) \in Index
    /\ \A g \in 0..MaxGrp - 1 : Grp(g) \in Index
    /\ \A x : Mbr(x).kind = "mbr" /\ Mbr(x).h = x /\ Grp(x).kind = "grp" /\ Grp(x).h = x
    /\ \A ix \in Index : (ix.kind = "mbr" /\ ix = Mbr(ix.h)) \/ (ix.kind = "grp" /\ ix = Grp(ix.h))
    /\ None \notin Index
<1>1. /\ \A m \in 0..MaxMbr - 1 : Mbr(m) \in Index
      /\ \A g \in 0..MaxGrp - 1 : Grp(g) \in Index
    BY DEF Index
<1>2. \A x : Mbr(x).kind = "mbr" /\ Mbr(x).h = x /\ Grp(x).kind = "grp" /\ Grp(x).h = x
    BY DEF Mbr, Grp
<1>3. \A ix \in Index : \E x : ix = Mbr(x) \/ ix = Grp(x)
    BY DEF Index
<1>4. \A ix \in Index : ix.kind # None.kind
    BY <1>2, <1>3 DEF None
<1> QED  BY <1>1, <1>2, <1>3, <1>4

\* A set of numbers that is not empty has a least one.
LEMMA LeastNumber ==
  ASSUME NEW T \in SUBSET Nat, T # {}
  PROVE  \E x \in T : \A y \in T : x <= y
<1> DEFINE Less == {ss \in Nat \X Nat : ss[1] < ss[2]}
<1>1. IsWellFoundedOn(Less, Nat)
  BY NatLessThanWellFounded, Zenon DEF OpToRel
<1>2. \E x \in T : \A y \in T : <<y, x>> \notin Less
  <2> HIDE DEF Less
  <2> QED  BY <1>1, WFMin, Zenon
<1>3. \A x, y \in Nat : <<y, x>> \notin Less => x <= y
  OBVIOUS
<1> QED  BY <1>2, <1>3

\* HandleMgr: the new handle is the first one that is free.
LEMMA FirstFreeIsFree ==
    ASSUME NEW b \in Nat, NEW used, used \subseteq 0..b - 1
    PROVE  /\ FirstFree(used) \in Nat /\ FirstFree(used) \notin used
           /\ 0..FirstFree(used) - 1 \subseteq used
<1> DEFINE Out == {h \in Nat : h \notin used}
<1>1. b \in Out
    OBVIOUS
<1>2. PICK h \in Out : \A i \in Out : h <= i
    <2>1. Out \in SUBSET Nat /\ Out # {}
        BY <1>1
    <2> HIDE DEF Out
    <2> QED  BY <2>1, LeastNumber
<1>3. 0..h - 1 \subseteq used
    BY <1>2
<1>4. IsFiniteSet(used) /\ Cardinality(used) \in Nat
    <2>1. IsFiniteSet(0..b - 1)
        BY FS_Interval
    <2> QED  BY <2>1, FS_Subset, FS_CardinalityType
<1>5. h <= Cardinality(used)
    <2>1. Cardinality(0..h - 1) = h
        BY <1>2, FS_Interval
    <2>2. Cardinality(0..h - 1) <= Cardinality(used)
        BY <1>3, <1>4, FS_Subset
    <2> QED  BY <2>1, <2>2
<1>6. h \in 0..Cardinality(used) /\ h \notin used /\ 0..h - 1 \subseteq used
    BY <1>2, <1>3, <1>4, <1>5
<1> HIDE DEF Out
<1> QED  BY <1>6, <1>4 DEF FirstFree

-----------------------------------------------------------------------------
\* Calls on the profile.

\* Calls on the profile change nothing the tables keep.
LEMMA TablesSame ==
    ASSUME UNCHANGED <<entries, default, op>>
    PROVE  /\ \A ix : Held(ix)' = Held(ix) /\ (Used(ix)' <=> Used(ix)) /\ (IsDefault(ix)' <=> IsDefault(ix))
           /\ Doomed' = Doomed
           /\ (Calls => Calls') /\ (TableTypes => TableTypes')
<1>1. \A ix : Held(ix)' = Held(ix)
    BY DEF Held, Users, Released
<1>2. \A ix : Taking(ix)' <=> Taking(ix)
    BY DEF Taking, Adding
<1>3. \A ix : Used(ix)' <=> Used(ix)
    BY <1>1, <1>2 DEF Used
<1>4. Doomed' = Doomed
    BY DEF Doomed, Refused, Full
<1>5. Calls => Calls'
    BY DEF Calls
<1>6. \A ix : IsDefault(ix)' <=> IsDefault(ix)
    BY DEF IsDefault
<1>7. TableTypes => TableTypes'
    BY DEF TableTypes
<1> QED  BY <1>1, <1>3, <1>4, <1>5, <1>6, <1>7

\* A count nobody touched, with the same holders, stays exact.
LEMMA ExactKept ==
    ASSUME NEW ix, Exact(ix), Held(ix)' = Held(ix), GroupsOf(ix)' = GroupsOf(ix),
           Count(ix)' = Count(ix), Doomed' = Doomed, upset \subseteq upset'
    PROVE  Exact(ix)'
BY DEF Exact

\* add_member: a new member that nobody holds, with a count of 0.
LEMMA AddMemberKeeps ==
    ASSUME Parts, AddMember, UNCHANGED <<entries, default, op>>
    PROVE  Parts'
<1> USE DEF Parts
<1>1. PICK m : m = FirstFree(mbrHandles)
    OBVIOUS
<1>2. /\ m < MaxMbr /\ mbrHandles' = mbrHandles \union {m} /\ mbrCount' = With(mbrCount, m, 0)
      /\ UNCHANGED <<grpHandles, groups, upset>>
    BY <1>1 DEF AddMember
<1>3. m \in 0..MaxMbr - 1 /\ m \notin mbrHandles
    BY <1>1, <1>2, FirstFreeIsFree, ActionProfileAssumption DEF ProfileTypes
<1>4. LiveGroups' = LiveGroups
    BY <1>2 DEF LiveGroups
<1>5. ProfileTypes'
    <2>1. DOMAIN mbrCount' = DOMAIN mbrCount \union {m}
        BY <1>2 DEF With
    <2> QED  BY <1>2, <1>3, <1>4, <2>1 DEF ProfileTypes
<1>6. \A ix : (Live(ix) => Live(ix)') /\ (GroupsOf(ix)' = GroupsOf(ix)) /\ (NotEmpty(ix)' <=> NotEmpty(ix))
    BY <1>2, <1>4 DEF Live, GroupsOf, NotEmpty
<1>7. CountInv'
    <2> SUFFICES ASSUME NEW ix \in Index, Live(ix)' PROVE Exact(ix)'
        BY DEF CountInv
    <2>1. CASE ix = Mbr(m)
        <3>1. Held(ix)' = {}
            <4>1. ~ Live(ix)
                BY <2>1, <1>3, IndexFacts DEF Live
            <4> QED  BY <4>1, TablesSame DEF Targets, Used
        <3>2. GroupsOf(ix) = {}
            <4>1. ix.h = m
                BY <2>1, IndexFacts
            <4> QED  BY <1>3, <4>1 DEF GroupsOf, ProfileTypes
        <3>3. Count(ix)' = 0
            BY <1>2, <2>1, IndexFacts DEF Count, With
        <3>4. Cardinality(Control) - Cardinality(Doomed') \in Nat
            BY ControlSize DEF Doomed
        <3> QED  BY <3>1, <3>2, <3>3, <3>4, <1>6, FS_EmptySet DEF Exact
    <2>2. CASE ix # Mbr(m)
        <3>1. Live(ix)
            BY <2>2, <1>2, <1>4, IndexFacts DEF Live
        <3>2. Count(ix)' = Count(ix)
            <4>1. CASE ix.kind = "mbr"
                <5>1. ix.h \in DOMAIN mbrCount /\ ix.h # m
                    BY <2>2, <3>1, <4>1, IndexFacts DEF Live, ProfileTypes
                <5> QED  BY <4>1, <5>1, <1>2 DEF Count, With
            <4>2. CASE ix.kind # "mbr"
                BY <4>2, <1>2 DEF Count
            <4> QED  BY <4>1, <4>2
        <3> QED  BY <3>1, <3>2, <1>2, <1>6, TablesSame, ExactKept DEF CountInv
    <2> QED  BY <2>1, <2>2
<1>8. Targets'
    BY <1>6, TablesSame DEF Targets
<1>9. Members'
    BY <1>2, <1>6, TablesSame DEF Members
<1>10. Defaults'
    BY <1>2, <1>6, TablesSame DEF Defaults
<1> QED  BY <1>5, <1>7, <1>8, <1>9, <1>10, TablesSame

\* What has no reference is not used.
LEMMA Unused ==
    ASSUME Parts, NEW ix \in Index, Live(ix), Count(ix) = 0
    PROVE  Held(ix) = {} /\ GroupsOf(ix) = {}
<1>1. Held(ix) \subseteq Table \X Key /\ GroupsOf(ix) \subseteq 0..MaxGrp - 1 /\ Doomed \subseteq Control
    BY DEF Held, Users, GroupsOf, LiveGroups, Parts, ProfileTypes, Doomed
<1> DEFINE h == Cardinality(Held(ix))  g == Cardinality(GroupsOf(ix))
<1>2. h \in Nat /\ IsFiniteSet(Held(ix))
    BY <1>1, HeldSize
<1>3. g \in Nat /\ IsFiniteSet(GroupsOf(ix))
    BY <1>1, GroupsSize
<1>4. Cardinality(Control) \in Nat /\ Cardinality(Doomed) \in Nat
    BY <1>1, ControlSize
<1>5. 0 \in (h + g)..(h + g) + Cardinality(Control) - Cardinality(Doomed)
    BY DEF Parts, CountInv, Exact
<1> HIDE DEF h, g
<1>6. h = 0 /\ g = 0
    BY <1>2, <1>3, <1>4, <1>5
<1> QED  BY <1>2, <1>3, <1>6, FS_EmptySet DEF h, g

\* Nobody is about to take a reference to what is not pending.
LEMMA NotTaken ==
    ASSUME Calls, NEW ix, ~ Pending(ix)
    PROVE  ~ Taking(ix)
<1> SUFFICES ASSUME NEW c \in Control, Adding(c), op[c].index = ix PROVE FALSE
    BY DEF Taking
<1>1. op[c] # Idle /\ op[c].new = ix
    BY DEF Calls, Adding
<1> QED  BY <1>1 DEF Pending

\* delete_member: a count of 0 means that no entry and no group has the member.
LEMMA DeleteMemberKeeps ==
    ASSUME Parts, Good', NEW m \in mbrHandles, DeleteMember(m), UNCHANGED <<entries, default, op>>
    PROVE  Parts'
<1> USE DEF Parts
<1>1. /\ mbrCount[m] = 0 /\ mbrHandles' = mbrHandles \ {m} /\ UNCHANGED <<grpHandles, mbrCount, groups>>
      /\ upset' = upset \union Upset(Pending(Mbr(m)), "race") \union Upset(IsDefault(Mbr(m)), "default")
    BY DEF DeleteMember, MayDelete
<1>2. m \in 0..MaxMbr - 1 /\ Mbr(m) \in Index /\ Mbr(m).kind = "mbr" /\ Mbr(m).h = m
    BY IndexFacts DEF ProfileTypes
<1>3. Held(Mbr(m)) = {} /\ GroupsOf(Mbr(m)) = {}
    BY <1>1, <1>2, Unused DEF Live, Count
<1>4. ~ Pending(Mbr(m)) /\ upset \subseteq upset' /\ (IsDefault(Mbr(m)) => "default" \in upset')
    BY <1>1 DEF Good, Upset
<1>5. LiveGroups' = LiveGroups
    BY <1>1 DEF LiveGroups
<1>6. \A ix \in Index : ix # Mbr(m) => (Live(ix) <=> Live(ix)')
    BY <1>1, <1>5, IndexFacts DEF Live
<1>7. \A ix : /\ Live(ix)' => Live(ix)
              /\ GroupsOf(ix)' = GroupsOf(ix) /\ (NotEmpty(ix)' <=> NotEmpty(ix))
              /\ Count(ix)' = Count(ix)
    BY <1>1, <1>5 DEF Live, GroupsOf, NotEmpty, Count
<1>8. ProfileTypes'
    <2>1. \A g \in LiveGroups : m \notin groups[g].mbrs
        BY <1>2, <1>3 DEF GroupsOf
    <2> QED  BY <1>1, <1>5, <2>1 DEF ProfileTypes
<1>9. CountInv'
    <2> SUFFICES ASSUME NEW ix \in Index, Live(ix)' PROVE Exact(ix)'
        BY DEF CountInv
    <2>1. Exact(ix)
        BY <1>7 DEF CountInv
    <2> QED  BY <2>1, <1>4, <1>7, TablesSame, ExactKept
<1>10. ~ Used(Mbr(m))
    BY <1>3, <1>4, NotTaken DEF Used
<1>11. Targets'
    <2> SUFFICES ASSUME NEW ix \in Index, Used(ix)' PROVE Live(ix)'
        BY DEF Targets
    <2>1. Used(ix) /\ ix # Mbr(m)
        BY <1>10, TablesSame
    <2> QED  BY <2>1, <1>6 DEF Targets
<1>12. Members'
    BY <1>4, <1>7, TablesSame DEF Members
<1>13. Defaults'
    <2>1. "reset" \notin upset' => grpHandles' \subseteq DOMAIN groups'
        BY <1>1, <1>4 DEF Defaults
    <2>2. ASSUME upset' \intersect {"default", "reset"} = {}, NEW ix \in Index, IsDefault(ix)'
          PROVE  Live(ix)' /\ ("emptied" \notin upset' => NotEmpty(ix)')
        <3>1. IsDefault(ix) /\ ix # Mbr(m)
            BY <2>2, <1>4, TablesSame
        <3>2. upset \intersect {"default", "reset"} = {}
            BY <2>2, <1>4
        <3>3. Live(ix) /\ ("emptied" \notin upset => NotEmpty(ix))
            BY <3>1, <3>2 DEF Defaults
        <3> QED  BY <3>1, <3>3, <1>4, <1>6, <1>7
    <2> QED  BY <2>1, <2>2 DEF Defaults
<1> QED  BY <1>8, <1>9, <1>11, <1>12, <1>13, TablesSame

\* The holders of an index are finitely many, and so are the adds under way.
LEMMA HolderSizes ==
    ASSUME ProfileTypes, NEW ix
    PROVE  /\ IsFiniteSet(Held(ix)) /\ Cardinality(Held(ix)) \in 0..Cardinality(Table \X Key)
           /\ IsFiniteSet(GroupsOf(ix)) /\ Cardinality(GroupsOf(ix)) \in 0..MaxGrp
           /\ IsFiniteSet(Doomed) /\ Cardinality(Doomed) \in 0..Cardinality(Control)
           /\ Cardinality(Table \X Key) \in Nat /\ MaxGrp \in Nat /\ Cardinality(Control) \in Nat
           /\ CountSpace \in Nat
<1>1. Held(ix) \subseteq Table \X Key /\ GroupsOf(ix) \subseteq 0..MaxGrp - 1 /\ Doomed \subseteq Control
    BY DEF Held, Users, GroupsOf, LiveGroups, ProfileTypes, Doomed
<1>2. /\ IsFiniteSet(Held(ix)) /\ Cardinality(Held(ix)) \in 0..Cardinality(Table \X Key)
      /\ Cardinality(Table \X Key) \in Nat
    BY <1>1, HeldSize
<1>3. MaxGrp \in Nat /\ CountSpace \in Nat
    BY ActionProfileAssumption
<1>4. IsFiniteSet(GroupsOf(ix)) /\ Cardinality(GroupsOf(ix)) \in 0..MaxGrp
    BY <1>1, <1>3, GroupsSize
<1>5. /\ IsFiniteSet(Doomed) /\ Cardinality(Doomed) \in 0..Cardinality(Control)
      /\ Cardinality(Control) \in Nat
    BY <1>1, ControlSize
<1> QED  BY <1>2, <1>3, <1>4, <1>5

\* A count can tell apart as many references as there can be.
LEMMA Enough == Cardinality(Table \X Key) + MaxGrp + Cardinality(Control) < CountSpace
BY ActionProfileAssumption

\* The counts of what is live are those of its holders, and none overflows.
LEMMA CountBounds ==
    ASSUME ProfileTypes, NEW ix, Exact(ix)
    PROVE  /\ Count(ix) \in Nat /\ Count(ix) < CountSpace
           /\ Count(ix) >= Cardinality(Held(ix)) + Cardinality(GroupsOf(ix))
           /\ Count(ix) <= Cardinality(Held(ix)) + Cardinality(GroupsOf(ix)) + Cardinality(Control)
<1> DEFINE h == Cardinality(Held(ix))  g == Cardinality(GroupsOf(ix))  n == Cardinality(Doomed)
           tk == Cardinality(Table \X Key)  k == Cardinality(Control)  c == Count(ix)
<1>1. /\ h \in 0..tk /\ g \in 0..MaxGrp /\ n \in 0..k /\ tk \in Nat /\ MaxGrp \in Nat /\ k \in Nat
      /\ CountSpace \in Nat /\ tk + MaxGrp + k < CountSpace
    BY HolderSizes, Enough
<1>2. c \in h + g..h + g + k - n
    BY DEF Exact
<1> HIDE DEF h, g, n, tk, k, c
<1>3. c \in Nat /\ c < CountSpace /\ c >= h + g /\ c <= h + g + k
    BY <1>1, <1>2
<1> QED  BY <1>3 DEF h, g, k, c

\* Without an overflow the modulo does nothing: ref_count_decrease,
LEMMA OneLess ==
    ASSUME NEW n \in Nat, NEW c \in 1..n - 1
    PROVE  (c + n - 1) % n = c - 1 /\ (c + -1 + n) % n = c - 1
OBVIOUS

\* and ref_count_increase.
LEMMA OneMore ==
    ASSUME NEW n \in Nat, NEW c \in 0..n - 2
    PROVE  (c + 1 + n) % n = c + 1
OBVIOUS

\* A count that follows the number of groups that hold the index stays exact.
LEMMA ExactMoved ==
    ASSUME NEW ix, Exact(ix), ProfileTypes, ProfileTypes', Held(ix)' = Held(ix), Doomed' = Doomed, upset \subseteq upset',
           NEW d \in Int, Cardinality(GroupsOf(ix)') = Cardinality(GroupsOf(ix)) + d,
           Count(ix)' = Count(ix) + d
    PROVE  Exact(ix)'
<1>1. /\ Cardinality(Held(ix)) \in Nat /\ Cardinality(GroupsOf(ix)) \in Nat
      /\ Cardinality(Doomed) \in Nat /\ Cardinality(Control) \in Nat
    BY HolderSizes
<1> DEFINE h == Cardinality(Held(ix))  g == Cardinality(GroupsOf(ix))  n == Cardinality(Doomed)
           k == Cardinality(Control)  c == Count(ix)
<1>2. c \in h + g..h + g + k - n /\ ("failedAdd" \notin upset => c = h + g)
    BY DEF Exact
<1> HIDE DEF h, g, n, k, c
<1>3. c + d \in h + (g + d)..h + (g + d) + k - n /\ ("failedAdd" \notin upset => c + d = h + (g + d))
    BY <1>1, <1>2 DEF h, g, n, k
<1>4. /\ Count(ix)' = c + d /\ Cardinality(Held(ix)') = h /\ Cardinality(GroupsOf(ix)') = g + d
      /\ Cardinality(Doomed') = n
    BY DEF c, h, g, n
<1> QED  BY <1>3, <1>4 DEF Exact, k

\* create_group: an empty group, or the assertion after a reset_state.
LEMMA CreateGroupKeeps ==
    ASSUME Parts, CreateGroup, UNCHANGED <<entries, default, op>>
    PROVE  Parts' /\ (dead' /\ ~ dead => "reset" \in upset')
<1> USE DEF Parts
<1>1. PICK g : g = FirstFree(grpHandles)
    OBVIOUS
<1>2. g < MaxGrp /\ grpHandles' = grpHandles \union {g} /\ UNCHANGED <<mbrHandles, mbrCount, upset>>
    BY <1>1 DEF CreateGroup
<1>3. g \in 0..MaxGrp - 1 /\ g \notin grpHandles /\ 0..g - 1 \subseteq grpHandles
    BY <1>1, <1>2, FirstFreeIsFree, ActionProfileAssumption DEF ProfileTypes
<1>4. PICK n \in 0..MaxGrp : DOMAIN groups = 0..n - 1
    BY DEF ProfileTypes
<1>5. Cardinality(DOMAIN groups) = n
    <2>1. n \in Nat
        OBVIOUS
    <2> QED  BY <1>4, <2>1, FS_Interval
<1>6. g > n => "reset" \in upset
    <2>1. ASSUME g > n, "reset" \notin upset PROVE FALSE
        <3>1. grpHandles \subseteq 0..n - 1
            BY <1>4, <2>1 DEF Defaults
        <3>2. n \in 0..g - 1
            BY <1>3, <2>1
        <3>3. n \in 0..n - 1
            BY <3>1, <3>2, <1>3
        <3> QED  BY <3>3
    <2> QED  BY <2>1
<1>7. CASE g > n
    <2>1. groups' = groups
        BY <1>1, <1>5, <1>7 DEF CreateGroup
    <2>2. LiveGroups' = LiveGroups
        BY <1>2, <1>3, <1>4, <1>7, <2>1 DEF LiveGroups
    <2>3. ProfileTypes'
        BY <1>2, <1>3, <2>1, <2>2 DEF ProfileTypes
    <2>4. \A ix : /\ (Live(ix)' <=> Live(ix)) /\ GroupsOf(ix)' = GroupsOf(ix) /\ (NotEmpty(ix)' <=> NotEmpty(ix))
                  /\ Count(ix)' = Count(ix)
        BY <1>2, <2>1, <2>2 DEF Live, GroupsOf, NotEmpty, Count
    <2>5. CountInv'
        <3> SUFFICES ASSUME NEW ix \in Index, Live(ix)' PROVE Exact(ix)'
            BY DEF CountInv
        <3>1. Exact(ix)
            BY <2>4 DEF CountInv
        <3> QED  BY <3>1, <2>4, <1>2, TablesSame, ExactKept
    <2>6. Targets' /\ Members'
        BY <1>2, <2>4, TablesSame DEF Targets, Members
    <2>7. Defaults'
        BY <1>2, <1>6, <1>7 DEF Defaults
    <2> QED  BY <2>3, <2>5, <2>6, <2>7, <1>2, <1>6, <1>7, TablesSame
<1>8. CASE ~ g > n
    <2>1. groups' = With(groups, g, [count |-> 0, mbrs |-> {}]) /\ dead' = dead
        BY <1>1, <1>5, <1>8 DEF CreateGroup
    <2>2. /\ DOMAIN groups' = DOMAIN groups \union {g}
          /\ groups'[g] = [count |-> 0, mbrs |-> {}]
          /\ \A h \in DOMAIN groups \ {g} : groups'[h] = groups[h]
        BY <2>1 DEF With
    <2>3. LiveGroups' = LiveGroups \union {g} /\ g \notin LiveGroups
        BY <1>2, <1>3, <2>2 DEF LiveGroups
    <2>4. ProfileTypes'
        <3>1. \E k \in 0..MaxGrp : DOMAIN groups' = 0..k - 1
            <4>1. CASE g = n
                <5>1. g + 1 \in 0..MaxGrp /\ DOMAIN groups' = 0..(g + 1) - 1
                    BY <1>3, <1>4, <2>2, <4>1, ActionProfileAssumption
                <5> QED  BY <5>1
            <4>2. CASE g < n
                <5>1. DOMAIN groups' = 0..n - 1
                    BY <1>3, <1>4, <2>2, <4>2
                <5> QED  BY <5>1
            <4> QED  BY <4>1, <4>2, <1>3, <1>8
        <3>2. groups' \in [DOMAIN groups' -> [count : Int, mbrs : SUBSET Int]]
            <4>1. \A h \in DOMAIN groups : groups[h] \in [count : Int, mbrs : SUBSET Int]
                BY DEF ProfileTypes
            <4>2. [count |-> 0, mbrs |-> {}] \in [count : Int, mbrs : SUBSET Int]
                OBVIOUS
            <4> QED  BY <2>1, <4>1, <4>2 DEF With
        <3>3. \A h \in LiveGroups' : groups'[h].mbrs \subseteq mbrHandles'
            <4> SUFFICES ASSUME NEW h \in LiveGroups' PROVE groups'[h].mbrs \subseteq mbrHandles'
                OBVIOUS
            <4>1. CASE h = g
                BY <4>1, <2>2
            <4>2. CASE h # g
                BY <4>2, <2>2, <2>3, <1>2 DEF ProfileTypes, LiveGroups
            <4> QED  BY <4>1, <4>2
        <3> QED  BY <1>2, <1>3, <3>1, <3>2, <3>3 DEF ProfileTypes
    <2>5. \A ix : Live(ix) => Live(ix)'
        BY <1>2, <2>3 DEF Live
    <2>6. ASSUME NEW ix \in Index, Live(ix)
          PROVE  Count(ix)' = Count(ix) /\ (NotEmpty(ix)' <=> NotEmpty(ix))
        <3>1. CASE ix.kind = "mbr"
            BY <3>1, <1>2 DEF Count, NotEmpty
        <3>2. CASE ix.kind # "mbr"
            <4>1. ix.h \in LiveGroups /\ ix.h # g /\ ix.h \in DOMAIN groups
                BY <2>3, <2>6, <3>2 DEF Live, LiveGroups
            <4>2. groups'[ix.h] = groups[ix.h]
                BY <4>1, <2>2
            <4> QED  BY <3>2, <4>2 DEF Count, NotEmpty
        <3> QED  BY <3>1, <3>2
    <2>7. ASSUME NEW ix PROVE GroupsOf(ix)' = GroupsOf(ix)
        <3>1. \A h \in LiveGroups : groups'[h] = groups[h]
            BY <2>2, <2>3 DEF LiveGroups
        <3>2. ix.h \notin groups'[g].mbrs
            BY <2>2
        <3> QED  BY <2>3, <3>1, <3>2 DEF GroupsOf
    <2>8. \A ix \in Index : Live(ix)' => Live(ix) \/ ix = Grp(g)
        BY <1>2, <2>3, IndexFacts DEF Live
    <2>9. ~ Live(Grp(g)) /\ Grp(g) \in Index
        BY <1>3, <2>3, IndexFacts DEF Live
    <2>10. CountInv'
        <3> SUFFICES ASSUME NEW ix \in Index, Live(ix)' PROVE Exact(ix)'
            BY DEF CountInv
        <3>1. CASE Live(ix)
            <4>1. Exact(ix)
                BY <3>1 DEF CountInv
            <4> QED  BY <3>1, <4>1, <2>6, <2>7, <1>2, TablesSame, ExactKept
        <3>2. CASE ix = Grp(g)
            <4>1. Held(ix)' = {}
                BY <3>2, <2>9, TablesSame DEF Targets, Used
            <4>2. GroupsOf(ix)' = {}
                BY <3>2, IndexFacts DEF GroupsOf
            <4>3. Count(ix)' = 0
                BY <2>2, <3>2, IndexFacts DEF Count
            <4>4. Cardinality(Control) - Cardinality(Doomed') \in Nat
                BY ControlSize DEF Doomed
            <4> QED  BY <4>1, <4>2, <4>3, <4>4, FS_EmptySet DEF Exact
        <3> QED  BY <3>1, <3>2, <2>8
    <2>11. Targets' /\ Members'
        BY <1>2, <2>5, <2>6, TablesSame DEF Targets, Members
    <2>12. Defaults'
        <3>1. "reset" \notin upset' => grpHandles' \subseteq DOMAIN groups'
            BY <1>2, <2>2 DEF Defaults
        <3> QED  BY <3>1, <1>2, <2>5, <2>6, TablesSame DEF Defaults
    <2> QED  BY <2>1, <2>4, <2>10, <2>11, <2>12, TablesSame
<1> QED  BY <1>7, <1>8

\* The record of a group.
LEMMA GroupTypes ==
    ASSUME ProfileTypes, NEW g \in DOMAIN groups
    PROVE  groups[g] \in [count : Int, mbrs : SUBSET Int]
BY DEF ProfileTypes

\* delete_group: a count of 0 means that no entry has the group; each of its
\* members loses a holder, with the count that stood for it.
LEMMA DeleteGroupKeeps ==
    ASSUME Parts, Good', NEW g \in grpHandles, DeleteGroup(g), UNCHANGED <<entries, default, op>>
    PROVE  Parts' /\ (dead' /\ ~ dead => "reset" \in upset')
<1> USE DEF Parts
<1>1. CASE g \notin DOMAIN groups
    <2>1. UNCHANGED <<mbrHandles, grpHandles, mbrCount, groups, upset>>
        BY <1>1 DEF DeleteGroup, profile, handles
    <2>2. "reset" \in upset
        BY <1>1 DEF Defaults
    <2>3. LiveGroups' = LiveGroups
        BY <2>1 DEF LiveGroups
    <2>4. \A ix : /\ (Live(ix)' <=> Live(ix)) /\ GroupsOf(ix)' = GroupsOf(ix) /\ (NotEmpty(ix)' <=> NotEmpty(ix))
                  /\ Count(ix)' = Count(ix)
        BY <2>1, <2>3 DEF Live, GroupsOf, NotEmpty, Count
    <2>5. ProfileTypes'
        BY <2>1, <2>3 DEF ProfileTypes
    <2>6. CountInv'
        <3> SUFFICES ASSUME NEW ix \in Index, Live(ix)' PROVE Exact(ix)'
            BY DEF CountInv
        <3>1. Exact(ix)
            BY <2>4 DEF CountInv
        <3> QED  BY <3>1, <2>1, <2>4, TablesSame, ExactKept
    <2>7. Targets' /\ Members' /\ Defaults'
        BY <2>1, <2>4, TablesSame DEF Targets, Members, Defaults
    <2> QED  BY <2>1, <2>2, <2>5, <2>6, <2>7, TablesSame
<1>2. CASE g \in DOMAIN groups
    <2>1. /\ groups[g].count = 0 /\ grpHandles' = grpHandles \ {g} /\ MembersReleased(g)
          /\ groups' = groups
          /\ upset' = upset \union Upset(Pending(Grp(g)), "race") \union Upset(IsDefault(Grp(g)), "default")
          /\ mbrHandles' = mbrHandles /\ dead' = dead
        BY <1>2 DEF DeleteGroup
    <2>2. g \in LiveGroups /\ Grp(g) \in Index /\ Grp(g).kind = "grp" /\ Grp(g).h = g
        BY <1>2, IndexFacts DEF LiveGroups, ProfileTypes
    <2>3. Held(Grp(g)) = {}
        BY <2>1, <2>2, Unused DEF Live, Count
    <2>4. ~ Pending(Grp(g)) /\ upset \subseteq upset' /\ (IsDefault(Grp(g)) => "default" \in upset')
        BY <2>1 DEF Good, Upset
    <2>5. ~ Used(Grp(g))
        BY <2>3, <2>4, NotTaken DEF Used
    <2>6. /\ DOMAIN groups' = DOMAIN groups
          /\ \A h \in DOMAIN groups \ {g} : groups'[h] = groups[h]
        BY <2>1
    <2>7. LiveGroups' = LiveGroups \ {g}
        BY <2>1, <2>6 DEF LiveGroups
    <2>8. /\ DOMAIN mbrCount' = DOMAIN mbrCount
          /\ \A m \in DOMAIN mbrCount : mbrCount'[m] = IF m \in groups[g].mbrs THEN (mbrCount[m] + CountSpace - 1) % CountSpace
                                                      ELSE mbrCount[m]
        BY <2>1 DEF MembersReleased
    <2>9. ProfileTypes'
        <3>1. groups' \in [DOMAIN groups' -> [count : Int, mbrs : SUBSET Int]]
            BY <2>1 DEF ProfileTypes
        <3>2. \A h \in LiveGroups' : groups'[h].mbrs \subseteq mbrHandles'
            BY <2>1, <2>6, <2>7 DEF ProfileTypes, LiveGroups
        <3> QED  BY <2>1, <2>6, <2>8, <3>1, <3>2 DEF ProfileTypes
    <2>10. \A ix \in Index : Live(ix)' <=> Live(ix) /\ ix # Grp(g)
        BY <2>1, <2>2, <2>7, IndexFacts DEF Live
    <2>11. ASSUME NEW ix \in Index, ix # Grp(g), Live(ix) PROVE NotEmpty(ix)' <=> NotEmpty(ix)
        <3>1. CASE ix.kind = "mbr"
            BY <3>1 DEF NotEmpty
        <3>2. CASE ix.kind = "grp"
            <4>1. ix.h \in DOMAIN groups \ {g}
                BY <2>11, <3>2, IndexFacts DEF Live, LiveGroups
            <4> QED  BY <4>1, <2>6 DEF NotEmpty
        <3> QED  BY <3>1, <3>2, IndexFacts
    <2>12. CountInv'
        <3> SUFFICES ASSUME NEW ix \in Index, Live(ix)' PROVE Exact(ix)'
            BY DEF CountInv
        <3>1. Live(ix) /\ ix # Grp(g) /\ Exact(ix)
            BY <2>10 DEF CountInv
        <3>2. CASE ix.kind = "grp"
            <4>1. ix.h \in DOMAIN groups \ {g}
                BY <3>1, <3>2, IndexFacts DEF Live, LiveGroups
            <4>2. Count(ix)' = Count(ix) /\ GroupsOf(ix)' = GroupsOf(ix)
                BY <3>2, <4>1, <2>6 DEF Count, GroupsOf
            <4> QED  BY <3>1, <4>2, <2>4, TablesSame, ExactKept
        <3>3. CASE ix.kind = "mbr"
            <4>1. ix.h \in mbrHandles /\ ix.h \in DOMAIN mbrCount
                BY <3>1, <3>3 DEF Live, ProfileTypes
            <4>2. GroupsOf(ix)' = GroupsOf(ix) \ {g}
                BY <3>3, <2>6, <2>7 DEF GroupsOf, LiveGroups
            <4>3. CASE ix.h \notin groups[g].mbrs
                <5>1. GroupsOf(ix)' = GroupsOf(ix)
                    BY <4>2, <4>3 DEF GroupsOf
                <5>2. Count(ix)' = Count(ix)
                    BY <3>3, <4>1, <4>3, <2>8 DEF Count
                <5> QED  BY <3>1, <5>1, <5>2, <2>4, TablesSame, ExactKept
            <4>4. CASE ix.h \in groups[g].mbrs
                <5>1. g \in GroupsOf(ix)
                    BY <3>3, <4>4, <2>2 DEF GroupsOf
                <5>2. Cardinality(GroupsOf(ix)') = Cardinality(GroupsOf(ix)) + -1
                    <6>1. Cardinality(GroupsOf(ix) \ {g}) = Cardinality(GroupsOf(ix)) - 1
                        BY <5>1, FS_RemoveElement, HolderSizes
                    <6> QED  BY <6>1, <4>2, HolderSizes
                <5>3. Cardinality(GroupsOf(ix)) # 0
                    BY <5>1, FS_EmptySet, HolderSizes
                <5>4. Count(ix) \in 1..CountSpace - 1
                    <6> DEFINE c == Count(ix)  h == Cardinality(Held(ix))  n == Cardinality(GroupsOf(ix))
                    <6>1. c \in Nat /\ c < CountSpace /\ c >= h + n /\ h \in Nat /\ n \in Nat /\ n # 0 /\ CountSpace \in Nat
                        BY <3>1, <5>3, CountBounds, HolderSizes
                    <6> HIDE DEF c, h, n
                    <6>2. c \in 1..CountSpace - 1
                        BY <6>1
                    <6> QED  BY <6>2 DEF c
                <5>5. Count(ix)' = (Count(ix) + CountSpace - 1) % CountSpace
                    BY <3>3, <4>1, <4>4, <2>8 DEF Count
                <5>6. Count(ix)' = Count(ix) - 1
                    BY <5>4, <5>5, OneLess, ActionProfileAssumption
                <5>7. Count(ix)' = Count(ix) + -1
                    BY <5>4, <5>6
                <5> QED  BY <3>1, <5>2, <5>7, <2>4, <2>9, TablesSame, ExactMoved
            <4> QED  BY <4>3, <4>4
        <3> QED  BY <3>2, <3>3, IndexFacts
    <2>13. Targets'
        <3> SUFFICES ASSUME NEW ix \in Index, Used(ix)' PROVE Live(ix)'
            BY DEF Targets
        <3>1. Used(ix) /\ ix # Grp(g)
            BY <2>5, TablesSame
        <3> QED  BY <3>1, <2>10 DEF Targets
    <2>14. Members'
        <3> SUFFICES ASSUME "emptied" \notin upset', NEW ix \in Index, Used(ix)' PROVE NotEmpty(ix)'
            BY DEF Members
        <3>1. Used(ix) /\ ix # Grp(g)
            BY <2>5, TablesSame
        <3>2. NotEmpty(ix) /\ Live(ix)
            BY <3>1, <2>4 DEF Members, Targets
        <3> QED  BY <3>1, <3>2, <2>11
    <2>15. Defaults'
        <3>1. "reset" \notin upset' => grpHandles' \subseteq DOMAIN groups'
            BY <2>1, <2>4, <2>6 DEF Defaults
        <3>2. ASSUME upset' \intersect {"default", "reset"} = {}, NEW ix \in Index, IsDefault(ix)'
              PROVE  Live(ix)' /\ ("emptied" \notin upset' => NotEmpty(ix)')
            <4>1. IsDefault(ix) /\ ix # Grp(g)
                BY <3>2, <2>4, TablesSame
            <4>2. upset \intersect {"default", "reset"} = {}
                BY <3>2, <2>4
            <4>3. Live(ix) /\ ("emptied" \notin upset => NotEmpty(ix))
                BY <4>1, <4>2 DEF Defaults
            <4> QED  BY <4>1, <4>3, <2>4, <2>10, <2>11
        <3> QED  BY <3>1, <3>2 DEF Defaults
    <2> QED  BY <2>1, <2>9, <2>12, <2>13, <2>14, <2>15, TablesSame
<1> QED  BY <1>1, <1>2

\* One member in or out of a live group, with one reference more or less.
LEMMA MembershipKeeps ==
    ASSUME Parts, Good', UNCHANGED <<entries, default, op>>,
           NEW m \in mbrHandles, NEW g \in LiveGroups, NEW mbrs \in SUBSET Int, NEW d \in {-1, 1},
           IF d = 1 THEN m \notin groups[g].mbrs /\ mbrs = groups[g].mbrs \union {m}
                    ELSE m \in groups[g].mbrs /\ mbrs = groups[g].mbrs \ {m},
           groups' = [groups EXCEPT ![g].mbrs = mbrs], mbrCount' = Counted(m, d),
           UNCHANGED <<mbrHandles, grpHandles>>, upset \subseteq upset',
           mbrs = {} /\ (Used(Grp(g)) \/ IsDefault(Grp(g))) => "emptied" \in upset'
    PROVE  Parts'
<1> USE DEF Parts
<1>1. g \in DOMAIN groups /\ groups[g] \in [count : Int, mbrs : SUBSET Int] /\ m \in DOMAIN mbrCount
      /\ groups[g].mbrs \subseteq mbrHandles /\ groups \in [DOMAIN groups -> [count : Int, mbrs : SUBSET Int]]
    BY DEF LiveGroups, ProfileTypes
<1>2. /\ DOMAIN groups' = DOMAIN groups /\ groups'[g].mbrs = mbrs /\ groups'[g].count = groups[g].count
      /\ \A h \in DOMAIN groups \ {g} : groups'[h] = groups[h]
    BY <1>1
<1>3. LiveGroups' = LiveGroups
    BY <1>2 DEF LiveGroups
<1>4. mbrs \subseteq mbrHandles
    BY <1>1
<1>5. ProfileTypes'
    <2>1. groups' \in [DOMAIN groups' -> [count : Int, mbrs : SUBSET Int]]
        <3>1. [groups[g] EXCEPT !.mbrs = mbrs] \in [count : Int, mbrs : SUBSET Int]
            BY <1>1
        <3> QED  BY <1>1, <3>1
    <2>2. DOMAIN mbrCount' = DOMAIN mbrCount
        BY DEF Counted
    <2>3. \A h \in LiveGroups : groups'[h].mbrs \subseteq mbrHandles
        BY <1>2, <1>4 DEF ProfileTypes, LiveGroups
    <2> QED  BY <1>2, <1>3, <2>1, <2>2, <2>3 DEF ProfileTypes
<1>6. \A ix : Live(ix)' <=> Live(ix)
    BY <1>3 DEF Live
<1>7. \A ix \in Index : Live(ix) /\ ix # Grp(g) => (NotEmpty(ix)' <=> NotEmpty(ix))
    <2> SUFFICES ASSUME NEW ix \in Index, Live(ix), ix # Grp(g) PROVE NotEmpty(ix)' <=> NotEmpty(ix)
        OBVIOUS
    <2>1. CASE ix.kind = "mbr"
        BY <2>1 DEF NotEmpty
    <2>2. CASE ix.kind = "grp"
        <3>1. ix.h \in DOMAIN groups \ {g}
            BY <2>2, IndexFacts DEF Live, LiveGroups
        <3> QED  BY <3>1, <1>2 DEF NotEmpty
    <2> QED  BY <2>1, <2>2, IndexFacts
<1>8. Grp(g).kind = "grp" /\ Grp(g).h = g /\ (NotEmpty(Grp(g))' <=> mbrs # {})
    BY <1>2, IndexFacts DEF NotEmpty
<1>9. CountInv'
    <2> SUFFICES ASSUME NEW ix \in Index, Live(ix)' PROVE Exact(ix)'
        BY DEF CountInv
    <2>1. Live(ix) /\ Exact(ix)
        BY <1>6 DEF CountInv
    <2>2. CASE ix.kind = "grp"
        <3>1. ix.h \in DOMAIN groups
            BY <2>1, <2>2 DEF Live, LiveGroups
        <3>2. groups'[ix.h].count = groups[ix.h].count
            BY <3>1, <1>2
        <3>3. Count(ix)' = Count(ix) /\ GroupsOf(ix)' = GroupsOf(ix)
            BY <2>2, <3>2 DEF Count, GroupsOf
        <3> QED  BY <2>1, <3>3, TablesSame, ExactKept
    <2>3. CASE ix.kind = "mbr" /\ ix.h # m
        <3>1. ix.h \in DOMAIN mbrCount
            BY <2>1, <2>3 DEF Live, ProfileTypes
        <3>2. Count(ix)' = Count(ix)
            BY <2>3, <3>1 DEF Count, Counted
        <3>3. ix.h \in groups[g].mbrs <=> ix.h \in mbrs
            BY <2>3
        <3>4. GroupsOf(ix)' = GroupsOf(ix)
            BY <2>3, <3>3, <1>2, <1>3 DEF GroupsOf, LiveGroups
        <3> QED  BY <2>1, <3>2, <3>4, TablesSame, ExactKept
    <2>4. CASE ix.kind = "mbr" /\ ix.h = m
        <3>1. Count(ix) = mbrCount[m] /\ Count(ix)' = (Count(ix) + d + CountSpace) % CountSpace
            BY <2>4, <1>1 DEF Count, Counted
        <3> DEFINE c == Count(ix)  h == Cardinality(Held(ix))  n == Cardinality(GroupsOf(ix))
                   k == Cardinality(Control)  tk == Cardinality(Table \X Key)
        <3>2. /\ c \in Nat /\ c < CountSpace /\ c >= h + n /\ c <= h + n + k
              /\ h \in 0..tk /\ n \in 0..MaxGrp /\ tk \in Nat /\ k \in Nat /\ MaxGrp \in Nat /\ CountSpace \in Nat
              /\ tk + MaxGrp + k < CountSpace
            BY <2>1, CountBounds, HolderSizes, Enough
        <3>3. CASE d = 1
            <4>1. GroupsOf(ix)' = GroupsOf(ix) \union {g} /\ g \notin GroupsOf(ix)
                BY <3>3, <2>4, <1>2, <1>3 DEF GroupsOf, LiveGroups
            <4>2. Cardinality(GroupsOf(ix)') = n + 1
                BY <4>1, FS_AddElement, HolderSizes
            <4>3. Cardinality(GroupsOf(ix)') <= MaxGrp
                <5>1. GroupsOf(ix)' \subseteq 0..MaxGrp - 1
                    BY <1>3 DEF GroupsOf, LiveGroups, ProfileTypes
                <5> QED  BY <5>1, GroupsSize
            <4> HIDE DEF c, h, n, k, tk
            <4>4. c \in 0..CountSpace - 2
                BY <3>2, <4>2, <4>3
            <4>5. Count(ix)' = c + 1
                <5>1. Count(ix)' = (c + 1 + CountSpace) % CountSpace
                    BY <3>1, <3>3 DEF c
                <5> QED  BY <5>1, <4>4, <3>2, OneMore
            <4> QED  BY <2>1, <4>2, <4>5, <1>5, TablesSame, ExactMoved DEF c, n
        <3>4. CASE d = -1
            <4>1. GroupsOf(ix)' = GroupsOf(ix) \ {g} /\ g \in GroupsOf(ix)
                BY <3>4, <2>4, <1>2, <1>3 DEF GroupsOf, LiveGroups
            <4>2. Cardinality(GroupsOf(ix)') = n - 1
                BY <4>1, FS_RemoveElement, HolderSizes
            <4>3. n # 0
                BY <4>1, FS_EmptySet, HolderSizes
            <4> HIDE DEF c, h, n, k, tk
            <4>4. c \in 1..CountSpace - 1
                BY <3>2, <4>3
            <4>5. Count(ix)' = c - 1
                <5>1. Count(ix)' = (c + -1 + CountSpace) % CountSpace
                    BY <3>1, <3>4 DEF c
                <5> QED  BY <5>1, <4>4, <3>2, OneLess
            <4>6. Count(ix)' = c + -1 /\ Cardinality(GroupsOf(ix)') = n + -1
                BY <4>2, <4>5, <3>2
            <4> QED  BY <2>1, <4>6, <1>5, TablesSame, ExactMoved DEF c, n
        <3> QED  BY <3>3, <3>4
    <2> QED  BY <2>2, <2>3, <2>4, IndexFacts
<1>10. Targets'
    BY <1>6, TablesSame DEF Targets
<1>11. Members'
    <2> SUFFICES ASSUME "emptied" \notin upset', NEW ix \in Index, Used(ix)' PROVE NotEmpty(ix)'
        BY DEF Members
    <2>1. Used(ix) /\ NotEmpty(ix) /\ Live(ix)
        BY TablesSame DEF Members, Targets
    <2> QED  BY <2>1, <1>7, <1>8
<1>12. Defaults'
    <2>1. "reset" \notin upset' => grpHandles' \subseteq DOMAIN groups'
        BY <1>2 DEF Defaults
    <2>2. ASSUME upset' \intersect {"default", "reset"} = {}, NEW ix \in Index, IsDefault(ix)'
          PROVE  Live(ix)' /\ ("emptied" \notin upset' => NotEmpty(ix)')
        <3>1. IsDefault(ix) /\ upset \intersect {"default", "reset"} = {}
            BY <2>2, TablesSame
        <3>2. Live(ix) /\ ("emptied" \notin upset => NotEmpty(ix))
            BY <3>1 DEF Defaults
        <3> QED  BY <3>1, <3>2, <1>6, <1>7, <1>8
    <2> QED  BY <2>1, <2>2 DEF Defaults
<1> QED  BY <1>5, <1>9, <1>10, <1>11, <1>12, TablesSame

\* add_member_to_group: one more holder of the member.
LEMMA AddMemberToGroupKeeps ==
    ASSUME Parts, Good', NEW m \in mbrHandles, NEW g \in grpHandles, AddMemberToGroup(m, g),
           UNCHANGED <<entries, default, op>>
    PROVE  Parts'
<1>1. PICK mbrs : mbrs = groups[g].mbrs \union {m}
    OBVIOUS
<1>2. /\ g \in LiveGroups /\ m \notin groups[g].mbrs /\ mbrCount' = Counted(m, 1)
      /\ UNCHANGED <<mbrHandles, grpHandles, upset>> /\ groups' = [groups EXCEPT ![g].mbrs = mbrs]
    BY <1>1 DEF AddMemberToGroup, LiveGroups, handles
<1>3. mbrs \in SUBSET Int /\ mbrs # {}
    BY <1>1, <1>2 DEF Parts, ProfileTypes
<1> QED  BY <1>1, <1>2, <1>3, MembershipKeeps

\* remove_member_from_group: one holder less, perhaps the last member.
LEMMA RemoveMemberFromGroupKeeps ==
    ASSUME Parts, Good', NEW m \in mbrHandles, NEW g \in grpHandles, RemoveMemberFromGroup(m, g),
           UNCHANGED <<entries, default, op>>
    PROVE  Parts'
<1>1. PICK mbrs : mbrs = groups[g].mbrs \ {m}
    OBVIOUS
<1>2. /\ g \in LiveGroups /\ m \in groups[g].mbrs /\ mbrCount' = Counted(m, -1)
      /\ UNCHANGED <<mbrHandles, grpHandles>> /\ groups' = [groups EXCEPT ![g].mbrs = mbrs]
      /\ upset' = upset \union Upset(groups[g].mbrs = {m} /\ (Users(Grp(g)) # {} \/ Pending(Grp(g)) \/ IsDefault(Grp(g))), "emptied")
    BY <1>1 DEF RemoveMemberFromGroup, LiveGroups, handles
<1>3. mbrs \in SUBSET Int
    BY <1>1, <1>2 DEF Parts, ProfileTypes
<1>4. ASSUME mbrs = {}, Used(Grp(g)) \/ IsDefault(Grp(g)) PROVE "emptied" \in upset'
    <2>1. groups[g].mbrs = {m}
        BY <1>1, <1>2, <1>4
    <2>2. Used(Grp(g)) => Users(Grp(g)) # {} \/ Pending(Grp(g))
        BY NotTaken DEF Used, Held, Parts
    <2> QED  BY <1>2, <1>4, <2>1, <2>2 DEF Upset
<1>5. upset \subseteq upset' /\ -1 \in {-1, 1} /\ -1 # 1
    BY <1>2
<1> QED  BY <1>1, <1>2, <1>3, <1>4, <1>5, MembershipKeeps

\* Steps that leave profile, entries and defaults alone.
LEMMA ProfileSame ==
    ASSUME UNCHANGED <<profile, entries, default>>
    PROVE  /\ UNCHANGED <<mbrHandles, grpHandles, mbrCount, groups>>
           /\ LiveGroups' = LiveGroups
           /\ \A ix : /\ (Live(ix)' <=> Live(ix)) /\ GroupsOf(ix)' = GroupsOf(ix) /\ (NotEmpty(ix)' <=> NotEmpty(ix))
                      /\ Count(ix)' = Count(ix) /\ (IsDefault(ix)' <=> IsDefault(ix))
                      /\ Users(ix)' = Users(ix)
           /\ (ProfileTypes => ProfileTypes')
<1>1. UNCHANGED <<mbrHandles, grpHandles, mbrCount, groups>>
    BY DEF profile, handles
<1>2. LiveGroups' = LiveGroups
    BY <1>1 DEF LiveGroups
<1>3. \A ix : /\ (Live(ix)' <=> Live(ix)) /\ GroupsOf(ix)' = GroupsOf(ix) /\ (NotEmpty(ix)' <=> NotEmpty(ix))
              /\ Count(ix)' = Count(ix)
    BY <1>1, <1>2 DEF Live, GroupsOf, NotEmpty, Count
<1>4. \A ix : (IsDefault(ix)' <=> IsDefault(ix)) /\ Users(ix)' = Users(ix)
    BY DEF IsDefault, Users
<1>5. ProfileTypes => ProfileTypes'
    BY <1>1, <1>2 DEF ProfileTypes
<1> QED  BY <1>1, <1>2, <1>3, <1>4, <1>5

\* A step that changes at most lookups and dead.
LEMMA NothingMoves ==
    ASSUME Parts, UNCHANGED <<profile, entries, default, op, upset>>
    PROVE  Parts'
<1> USE DEF Parts
<1>1. \A x : Held(x)' = Held(x) /\ (Used(x)' <=> Used(x))
    BY TablesSame
<1>2. CountInv'
    <2> SUFFICES ASSUME NEW x \in Index, Live(x)' PROVE Exact(x)'
        BY DEF CountInv
    <2>1. Exact(x)
        BY ProfileSame DEF CountInv
    <2> QED  BY <2>1, <1>1, ProfileSame, TablesSame, ExactKept
<1>3. Targets' /\ Members'
    BY <1>1, ProfileSame DEF Targets, Members
<1>4. Defaults'
    BY ProfileSame DEF Defaults
<1> QED  BY <1>2, <1>3, <1>4, ProfileSame, TablesSame

\* Every call of the profile keeps the invariant.
LEMMA ProfileKeeps ==
    ASSUME Parts, Good', ProfileCall
    PROVE  Parts' /\ (dead' /\ ~ dead => "reset" \in upset')
<1>1. UNCHANGED <<entries, default, op>>
    BY DEF ProfileCall
<1>2. ASSUME AddMember, dead' = dead PROVE Parts' /\ (dead' /\ ~ dead => "reset" \in upset')
    BY <1>1, <1>2, AddMemberKeeps
<1>3. ASSUME CreateGroup PROVE Parts' /\ (dead' /\ ~ dead => "reset" \in upset')
    BY <1>1, <1>3, CreateGroupKeeps
<1>4. ASSUME NEW m \in mbrHandles, DeleteMember(m), dead' = dead PROVE Parts' /\ (dead' /\ ~ dead => "reset" \in upset')
    BY <1>1, <1>4, DeleteMemberKeeps
<1>5. ASSUME NEW g \in grpHandles, DeleteGroup(g) PROVE Parts' /\ (dead' /\ ~ dead => "reset" \in upset')
    BY <1>1, <1>5, DeleteGroupKeeps
<1>6. ASSUME NEW m \in mbrHandles, NEW g \in grpHandles, AddMemberToGroup(m, g), dead' = dead
      PROVE  Parts' /\ (dead' /\ ~ dead => "reset" \in upset')
    BY <1>1, <1>6, AddMemberToGroupKeeps
<1>7. ASSUME NEW m \in mbrHandles, NEW g \in grpHandles, RemoveMemberFromGroup(m, g), dead' = dead
      PROVE  Parts' /\ (dead' /\ ~ dead => "reset" \in upset')
    BY <1>1, <1>7, RemoveMemberFromGroupKeeps
<1>8. ASSUME NEW m \in mbrHandles, ModifyMember(m), dead' = dead PROVE Parts' /\ (dead' /\ ~ dead => "reset" \in upset')
    BY <1>1, <1>8, NothingMoves DEF ModifyMember
<1> QED  BY <1>2, <1>3, <1>4, <1>5, <1>6, <1>7, <1>8 DEF ProfileCall

-----------------------------------------------------------------------------
\* Calls on a table, under its lock: their first steps.

\* A thread is idle or in a call on some entry.
LEMMA OpFacts ==
    ASSUME TableTypes, NEW c \in Control
    PROVE  /\ op[c] = Idle \/ op[c] \in Call
           /\ op[c] \in Call => op[c] # Idle /\ op[c].table \in Table /\ op[c].key \in Key /\ op[c].index \in Index
                               /\ op[c].pc \in {"inc", "incStore", "decStore", "check"}
                               /\ op[c].call \in {"add", "delete", "modify"}
           /\ Idle.pc = "idle"
<1>1. \A o \in Call : o.pc # Idle.pc
    BY DEF Call, Idle
<1> QED  BY <1>1 DEF TableTypes, Call, Idle

\* A call that starts: its reference is still to come, or still there.
LEMMA BeginKeeps ==
    ASSUME Parts, Good', NEW c \in Control, NEW rec \in Call, op[c] = Idle, ~ Locked(rec.table),
           op' = [op EXCEPT ![c] = rec], UNCHANGED <<profile, entries, default, upset>>,
           rec.call = "add" => /\ rec.pc = "inc" /\ rec.index = rec.new
                               /\ Live(rec.index) /\ NotEmpty(rec.index)
                               /\ ("failedAdd" \in upset => ~ Full(rec.table, rec.key)),
           rec.call # "add" => /\ rec.pc = "decStore" /\ rec.key \in DOMAIN entries[rec.table]
                               /\ rec.index = entries[rec.table][rec.key]
                               /\ (rec.call # "delete" => rec.new \in Index)
    PROVE  Parts'
<1> USE DEF Parts
<1>1. /\ op \in [Control -> Call \union {Idle}]
      /\ op'[c] = rec /\ \A d \in Control \ {c} : op'[d] = op[d]
    BY DEF TableTypes
<1>2. /\ rec # Idle /\ rec.pc \in {"inc", "incStore", "decStore", "check"}
      /\ rec.call \in {"add", "delete", "modify"} /\ rec.index \in Index
    <2>1. rec.pc # Idle.pc
        BY DEF Call, Idle
    <2> QED  BY <2>1 DEF Call
<1>3. \A t, k : Released(t, k)' <=> Released(t, k)
    BY <1>1, <1>2 DEF Released
<1>4. \A ix : Held(ix)' = Held(ix)
    BY <1>3, ProfileSame DEF Held
<1>5. \A ix : Taking(ix)' <=> Taking(ix) \/ (rec.call = "add" /\ rec.index = ix)
    BY <1>1, <1>2 DEF Taking, Adding
<1>6. Doomed \subseteq Doomed' /\ Doomed' \subseteq Doomed \union {c}
      /\ ("failedAdd" \in upset => Doomed' = Doomed)
    <2>1. \A d \in Control \ {c} : d \in Doomed' <=> d \in Doomed
        BY <1>1 DEF Doomed, Refused, Full
    <2>2. c \notin Doomed
        BY DEF Doomed
    <2>3. "failedAdd" \in upset => c \notin Doomed'
        BY <1>1 DEF Doomed, Refused, Full
    <2>4. Doomed \subseteq Control /\ Doomed' \subseteq Control
        BY DEF Doomed
    <2> QED  BY <2>1, <2>2, <2>3, <2>4
<1>7. CountInv'
    <2> SUFFICES ASSUME NEW ix \in Index, Live(ix)' PROVE Exact(ix)'
        BY DEF CountInv
    <2>1. Exact(ix)
        BY ProfileSame DEF CountInv
    <2>2. CASE "failedAdd" \in upset
        BY <2>1, <2>2, <1>4, <1>6, ProfileSame, ExactKept
    <2>3. CASE "failedAdd" \notin upset
        <3>1. Cardinality(Doomed') \in 0..Cardinality(Control) /\ Cardinality(Control) \in Nat
            <4>1. Doomed' \subseteq Control
                BY DEF Doomed
            <4> QED  BY <4>1, ControlSize
        <3>2. Cardinality(Held(ix)) \in Nat /\ Cardinality(GroupsOf(ix)) \in Nat
            BY HolderSizes
        <3> DEFINE h == Cardinality(Held(ix))  g == Cardinality(GroupsOf(ix))  n == Cardinality(Doomed')
                   k == Cardinality(Control)
        <3>3. Count(ix) = h + g
            BY <2>1, <2>3 DEF Exact
        <3>4. Count(ix) \in h + g..h + g + k - n
            <4> HIDE DEF h, g, k, n
            <4> QED  BY <3>3, <3>1, <3>2 DEF h, g, k, n
        <3>5. Count(ix)' = Count(ix) /\ Held(ix)' = Held(ix) /\ GroupsOf(ix)' = GroupsOf(ix)
            BY <1>4, ProfileSame
        <3> QED  BY <3>3, <3>4, <3>5 DEF Exact
    <2> QED  BY <2>2, <2>3
<1>8. \A ix : Used(ix)' => Used(ix) \/ (rec.call = "add" /\ rec.index = ix)
    BY <1>4, <1>5 DEF Used
<1>9. Targets' /\ Members'
    BY <1>8, ProfileSame DEF Targets, Members
<1>10. Defaults'
    BY ProfileSame DEF Defaults
<1>11. TableTypes'
    BY <1>1 DEF TableTypes
<1>12. Calls'
    <2>1. \A d \in Control \ {c} : op[d] # Idle => op[d].table # rec.table
        BY DEF Locked
    <2>2. \A d, e \in Control : op'[d] # Idle /\ op'[e] # Idle /\ op'[d].table = op'[e].table => d = e
        BY <1>1, <2>1 DEF Calls
    <2>3. ASSUME NEW d \in Control, op'[d] # Idle
          PROVE  /\ op'[d].call = "add" => op'[d].pc \in {"inc", "incStore"}
                 /\ op'[d].call = "delete" => op'[d].pc = "decStore"
                 /\ op'[d].call # "add" => op'[d].key \in DOMAIN entries[op'[d].table]
                 /\ op'[d].pc = "decStore" => op'[d].index = entries[op'[d].table][op'[d].key]
                 /\ op'[d].call # "delete" => op'[d].new \in Index
                 /\ op'[d].pc \in {"inc", "incStore"} => op'[d].index = op'[d].new
        <3>1. CASE d = c
            BY <1>1, <1>2, <3>1
        <3>2. CASE d # c
            BY <1>1, <2>3, <3>2 DEF Calls
        <3> QED  BY <3>1, <3>2
    <2> QED  BY <2>2, <2>3 DEF Calls
<1> QED  BY <1>7, <1>9, <1>10, <1>11, <1>12, ProfileSame

\* What validate_ind_hndl accepts exists, with a member to choose.
LEMMA AcceptedIsLive ==
    ASSUME NEW ix \in Index, Accepted(ix)
    PROVE  Live(ix) /\ NotEmpty(ix)
BY IndexFacts DEF Accepted, Valid, HasMember, IsEmpty, Live, NotEmpty, LiveGroups

\* The keys of a table and what their entries refer to.
LEMMA EntryFacts ==
    ASSUME TableTypes, NEW t \in Table, NEW k \in DOMAIN entries[t]
    PROVE  k \in Key /\ entries[t][k] \in Index /\ <<t, k>> \in Users(entries[t][k])
<1>1. k \in Key /\ entries[t][k] \in Index
    BY DEF TableTypes
<1> QED  BY <1>1 DEF Users

\* An entry has its reference unless a modify of it has given it back.
LEMMA EntryIsHeld ==
    ASSUME Parts, NEW t \in Table, NEW k \in DOMAIN entries[t], ~ Released(t, k)
    PROVE  <<t, k>> \in Held(entries[t][k]) /\ Used(entries[t][k]) /\ Live(entries[t][k])
<1>1. k \in Key /\ entries[t][k] \in Index /\ <<t, k>> \in Users(entries[t][k])
    BY EntryFacts DEF Parts
<1>2. <<t, k>> \in Held(entries[t][k])
    BY <1>1 DEF Held
<1>3. Used(entries[t][k])
    BY <1>2 DEF Used
<1> QED  BY <1>1, <1>2, <1>3 DEF Parts, Targets

\* mt_indirect add_entry: the index it validated is live.
LEMMA AddEntryKeeps ==
    ASSUME Parts, Good', NEW c \in Control, NEW t \in Table, NEW k \in Key, NEW ix \in Index,
           AddEntry(c, t, k, ix)
    PROVE  Parts'
<1>1. PICK rec : rec = [pc |-> "inc", call |-> "add", table |-> t, key |-> k,
                        index |-> ix, read |-> 0, new |-> ix]
    OBVIOUS
<1>2. rec \in Call
    BY <1>1 DEF Call
<1>3. /\ op[c] = Idle /\ ~ Locked(rec.table) /\ op' = [op EXCEPT ![c] = rec]
      /\ UNCHANGED <<profile, entries, default, upset>>
    BY <1>1 DEF AddEntry, Begin
<1>4. Live(ix) /\ NotEmpty(ix) /\ ("failedAdd" \in upset => ~ Full(t, k))
    BY AcceptedIsLive DEF AddEntry
<1>5. /\ rec.pc = "inc" /\ rec.index = rec.new /\ Live(rec.index) /\ NotEmpty(rec.index)
      /\ ("failedAdd" \in upset => ~ Full(rec.table, rec.key)) /\ rec.call = "add"
    BY <1>1, <1>4
<1> QED  BY <1>2, <1>3, <1>5, BeginKeeps

\* delete_entry and modify_entry: the reference they load the count of is held.
LEMMA ReleaseKeeps ==
    ASSUME Parts, Good', NEW c \in Control, NEW t \in Table, NEW k \in Key,
           NEW call \in {"delete", "modify"}, NEW new \in Index \union {None},
           call = "modify" => new \in Index, Release(c, call, t, k, new)
    PROVE  Parts'
<1>1. k \in DOMAIN entries[t] /\ ~ Locked(t) /\ op[c] = Idle
    BY DEF Release, Begin
<1>2. entries[t][k] \in Index /\ Live(entries[t][k])
    <2>1. ~ Released(t, k)
        BY <1>1 DEF Released, Locked
    <2> QED  BY <1>1, <2>1, EntryIsHeld, EntryFacts DEF Parts
<1>3. Count(entries[t][k]) \in Int
    BY <1>2, CountBounds DEF Parts, CountInv
<1>4. PICK rec : rec = [pc |-> "decStore", call |-> call, table |-> t, key |-> k,
                        index |-> entries[t][k], read |-> Count(entries[t][k]), new |-> new]
    OBVIOUS
<1>5. rec \in Call
    BY <1>2, <1>3, <1>4 DEF Call
<1>6. op' = [op EXCEPT ![c] = rec] /\ UNCHANGED <<profile, entries, default, upset>>
    BY <1>4 DEF Release, Begin
<1>7. /\ rec.call # "add" /\ rec.pc = "decStore" /\ rec.key \in DOMAIN entries[rec.table]
      /\ rec.index = entries[rec.table][rec.key] /\ (rec.call # "delete" => rec.new \in Index)
      /\ ~ Locked(rec.table)
    BY <1>1, <1>4
<1> QED  BY <1>1, <1>5, <1>6, <1>7, BeginKeeps

\* A call that goes on to take the reference of its new index.
LEMMA GoesOnKeeps ==
    ASSUME Parts, Good', NEW c \in Control, NEW rec \in Call, op[c] \in Call, op[c].pc # "decStore",
           rec.call = op[c].call, rec.table = op[c].table, rec.key = op[c].key, rec.new = op[c].new,
           rec.pc \in {"inc", "incStore"}, rec.index = rec.new,
           (Adding(c) /\ op[c].index = rec.index) \/ (Live(rec.index) /\ NotEmpty(rec.index)),
           op' = [op EXCEPT ![c] = rec], UNCHANGED <<profile, entries, default, upset>>
    PROVE  Parts'
<1> USE DEF Parts
<1>1. /\ op \in [Control -> Call \union {Idle}]
      /\ op'[c] = rec /\ \A d \in Control \ {c} : op'[d] = op[d]
    BY DEF TableTypes
<1>2. /\ rec # Idle /\ op[c] # Idle /\ rec.index \in Index
      /\ op[c].call \in {"add", "delete", "modify"}
    <2>1. \A o \in Call : o.pc # Idle.pc
        BY DEF Call, Idle
    <2> QED  BY <2>1 DEF Call
<1>3. \A t, k : Released(t, k)' <=> Released(t, k)
    <2> SUFFICES ASSUME NEW t, NEW k PROVE Released(t, k)' <=> Released(t, k)
        OBVIOUS
    <2>1. \A d \in Control : /\ op'[d] # Idle <=> op[d] # Idle
                             /\ op'[d].call = op[d].call /\ op'[d].table = op[d].table
                             /\ op'[d].key = op[d].key
                             /\ (op'[d].pc = "decStore" <=> op[d].pc = "decStore")
        BY <1>1, <1>2
    <2> QED  BY <2>1 DEF Released
<1>4. \A ix : Held(ix)' = Held(ix)
    BY <1>3, ProfileSame DEF Held
<1>5. \A ix : Taking(ix)' => Taking(ix) \/ rec.index = ix
    BY <1>1 DEF Taking, Adding
<1>6. Doomed' = Doomed
    BY <1>1, <1>2 DEF Doomed, Refused, Full
<1>7. CountInv'
    <2> SUFFICES ASSUME NEW ix \in Index, Live(ix)' PROVE Exact(ix)'
        BY DEF CountInv
    <2>1. Exact(ix)
        BY ProfileSame DEF CountInv
    <2> QED  BY <2>1, <1>4, <1>6, ProfileSame, ExactKept
<1>8. Live(rec.index) /\ ("emptied" \notin upset => NotEmpty(rec.index))
    <2>1. CASE Adding(c) /\ op[c].index = rec.index
        <3>1. Used(rec.index)
            BY <2>1 DEF Used, Taking
        <3> QED  BY <3>1, <1>2 DEF Targets, Members
    <2> QED  BY <2>1
<1>9. \A ix : Used(ix)' => Used(ix) \/ rec.index = ix
    BY <1>4, <1>5 DEF Used
<1>10. Targets'
    BY <1>8, <1>9, ProfileSame DEF Targets
<1>11. Members'
    BY <1>8, <1>9, ProfileSame DEF Members
<1>12. Defaults'
    BY ProfileSame DEF Defaults
<1>13. TableTypes'
    BY <1>1 DEF TableTypes
<1>14. Calls'
    <2>1. \A d, e \in Control : op'[d] # Idle /\ op'[e] # Idle /\ op'[d].table = op'[e].table => d = e
        BY <1>1, <1>2 DEF Calls
    <2>2. ASSUME NEW d \in Control, op'[d] # Idle
          PROVE  /\ op'[d].call = "add" => op'[d].pc \in {"inc", "incStore"}
                 /\ op'[d].call = "delete" => op'[d].pc = "decStore"
                 /\ op'[d].call # "add" => op'[d].key \in DOMAIN entries[op'[d].table]
                 /\ op'[d].pc = "decStore" => op'[d].index = entries[op'[d].table][op'[d].key]
                 /\ op'[d].call # "delete" => op'[d].new \in Index
                 /\ op'[d].pc \in {"inc", "incStore"} => op'[d].index = op'[d].new
        <3>1. CASE d = c
            BY <1>1, <1>2, <3>1 DEF Calls
        <3>2. CASE d # c
            BY <1>1, <2>2, <3>2 DEF Calls
        <3> QED  BY <3>1, <3>2
    <2> QED  BY <2>1, <2>2 DEF Calls
<1> QED  BY <1>7, <1>10, <1>11, <1>12, <1>13, <1>14, ProfileSame

\* ref_count_increase, its load.
LEMMA IncLoadKeeps ==
    ASSUME Parts, Good', NEW c \in Control, IncLoad(c)
    PROVE  Parts'
<1>1. op[c] \in Call /\ op[c].pc = "inc"
    BY DEF IncLoad, Parts, TableTypes, Idle
<1>2. op[c] # Idle /\ op[c].index \in Index /\ op[c].index = op[c].new
    BY <1>1, OpFacts DEF Parts, Calls
<1>3. Adding(c) /\ Live(op[c].index)
    BY <1>1, <1>2 DEF Adding, Parts, Targets, Used, Taking
<1>4. Count(op[c].index) \in Int
    BY <1>2, <1>3, CountBounds DEF Parts, CountInv
<1>5. PICK rec : rec = [op[c] EXCEPT !.pc = "incStore", !.read = Count(op[c].index)]
    OBVIOUS
<1>6. /\ rec \in Call /\ rec.pc = "incStore" /\ rec.call = op[c].call /\ rec.table = op[c].table
      /\ rec.key = op[c].key /\ rec.new = op[c].new /\ rec.index = op[c].index
    BY <1>1, <1>4, <1>5 DEF Call
<1>7. op' = [op EXCEPT ![c] = rec] /\ UNCHANGED <<profile, entries, default, upset>>
    BY <1>5 DEF IncLoad
<1> QED  BY <1>1, <1>2, <1>3, <1>6, <1>7, GoesOnKeeps

\* modify_entry, the validation of the new index.
LEMMA CheckNewKeeps ==
    ASSUME Parts, Good', NEW c \in Control, CheckNew(c)
    PROVE  Parts'
<1>1. op[c] \in Call /\ op[c].pc = "check"
    BY DEF CheckNew, Parts, TableTypes, Idle
<1>2. op[c] # Idle /\ op[c].call = "modify" /\ op[c].new \in Index
    BY <1>1, OpFacts DEF Parts, Calls
<1>3. Accepted(op[c].new)
    BY DEF CheckNew, Good
<1>4. Live(op[c].new) /\ NotEmpty(op[c].new)
    BY <1>2, <1>3, AcceptedIsLive
<1>5. PICK rec : rec = [op[c] EXCEPT !.pc = "inc", !.index = op[c].new]
    OBVIOUS
<1>6. /\ rec \in Call /\ rec.pc = "inc" /\ rec.call = op[c].call /\ rec.table = op[c].table
      /\ rec.key = op[c].key /\ rec.new = op[c].new /\ rec.index = op[c].new
    BY <1>1, <1>2, <1>5 DEF Call
<1>7. op' = [op EXCEPT ![c] = rec] /\ UNCHANGED <<profile, entries, default, upset>>
    BY <1>3, <1>5 DEF CheckNew
<1> QED  BY <1>1, <1>4, <1>6, <1>7, GoesOnKeeps

-----------------------------------------------------------------------------
\* The stores of the counts, and the ends of the calls.

\* A count that is stored changes nothing else of the profile.
LEMMA SetCountFacts ==
    ASSUME ProfileTypes, UNCHANGED <<mbrHandles, grpHandles>>, NEW ix \in Index, Live(ix),
           NEW n \in Int, SetCount(ix, n)
    PROVE  /\ ProfileTypes' /\ DOMAIN groups' = DOMAIN groups
           /\ \A x : (Live(x)' <=> Live(x)) /\ GroupsOf(x)' = GroupsOf(x)
           /\ \A x : Live(x) => (NotEmpty(x)' <=> NotEmpty(x))
           /\ Count(ix)' = n
           /\ \A x \in Index : Live(x) /\ x # ix => Count(x)' = Count(x)
<1>1. CASE ix.kind = "mbr"
    <2>1. mbrCount' = [mbrCount EXCEPT ![ix.h] = n] /\ groups' = groups
        BY <1>1 DEF SetCount
    <2>2. ix.h \in DOMAIN mbrCount
        BY <1>1 DEF Live, ProfileTypes
    <2>3. LiveGroups' = LiveGroups
        BY <2>1 DEF LiveGroups
    <2>4. ProfileTypes'
        BY <2>1, <2>3 DEF ProfileTypes
    <2>5. \A x : /\ (Live(x)' <=> Live(x)) /\ GroupsOf(x)' = GroupsOf(x)
                 /\ (NotEmpty(x)' <=> NotEmpty(x))
        BY <2>1, <2>3 DEF Live, GroupsOf, NotEmpty
    <2>6. Count(ix)' = n
        BY <1>1, <2>1, <2>2 DEF Count
    <2>7. ASSUME NEW x \in Index, Live(x), x # ix PROVE Count(x)' = Count(x)
        <3>1. CASE x.kind = "mbr"
            <4>1. x.h # ix.h /\ x.h \in DOMAIN mbrCount
                BY <1>1, <2>7, <3>1, IndexFacts DEF Live, ProfileTypes
            <4> QED  BY <3>1, <4>1, <2>1 DEF Count
        <3>2. CASE x.kind # "mbr"
            BY <3>2, <2>1 DEF Count
        <3> QED  BY <3>1, <3>2
    <2> QED  BY <2>1, <2>4, <2>5, <2>6, <2>7
<1>2. CASE ix.kind = "grp"
    <2>1. groups' = [groups EXCEPT ![ix.h].count = n] /\ mbrCount' = mbrCount
        BY <1>2 DEF SetCount
    <2>2. ix.h \in DOMAIN groups
        BY <1>2 DEF Live, LiveGroups
    <2>3. groups[ix.h] \in [count : Int, mbrs : SUBSET Int]
        BY <2>2, GroupTypes
    <2>4. /\ DOMAIN groups' = DOMAIN groups
          /\ groups'[ix.h].count = n /\ groups'[ix.h].mbrs = groups[ix.h].mbrs
          /\ \A h \in DOMAIN groups \ {ix.h} : groups'[h] = groups[h]
        BY <2>1, <2>2, <2>3
    <2>5. LiveGroups' = LiveGroups
        BY <2>4 DEF LiveGroups
    <2>6. \A h \in DOMAIN groups : groups'[h].mbrs = groups[h].mbrs
        BY <2>4
    <2>7. ProfileTypes'
        <3>1. groups' \in [DOMAIN groups' -> [count : Int, mbrs : SUBSET Int]]
            <4>1. [groups[ix.h] EXCEPT !.count = n] \in [count : Int, mbrs : SUBSET Int]
                BY <2>3
            <4>2. groups \in [DOMAIN groups -> [count : Int, mbrs : SUBSET Int]]
                BY DEF ProfileTypes
            <4> QED  BY <2>1, <4>1, <4>2
        <3>2. \A h \in LiveGroups : groups'[h].mbrs \subseteq mbrHandles
            BY <2>6 DEF ProfileTypes, LiveGroups
        <3> QED  BY <2>1, <2>4, <2>5, <3>1, <3>2 DEF ProfileTypes
    <2>8. \A x : (Live(x)' <=> Live(x)) /\ GroupsOf(x)' = GroupsOf(x)
        BY <2>5, <2>6 DEF Live, GroupsOf, LiveGroups
    <2>9. \A x \in Index : Live(x) => (NotEmpty(x)' <=> NotEmpty(x))
        BY <2>6, IndexFacts DEF NotEmpty, Live, LiveGroups
    <2>10. \A x : Live(x) => (NotEmpty(x)' <=> NotEmpty(x))
        BY <2>6 DEF NotEmpty, Live, LiveGroups
    <2>11. Count(ix)' = n
        BY <1>2, <2>4 DEF Count
    <2>12. ASSUME NEW x \in Index, Live(x), x # ix PROVE Count(x)' = Count(x)
        <3>1. CASE x.kind = "grp"
            <4>1. x.h \in DOMAIN groups \ {ix.h}
                BY <1>2, <2>12, <3>1, IndexFacts DEF Live, LiveGroups
            <4> QED  BY <3>1, <4>1, <2>4 DEF Count
        <3>2. CASE x.kind = "mbr"
            BY <3>2, <2>1 DEF Count
        <3> QED  BY <3>1, <3>2, IndexFacts
    <2> QED  BY <2>4, <2>7, <2>8, <2>10, <2>11, <2>12
<1> QED  BY <1>1, <1>2, IndexFacts

\* A step that takes up no new index and changes no members.
LEMMA StillTargets ==
    ASSUME Targets, Members, Defaults, upset \subseteq upset', default' = default,
           grpHandles' = grpHandles, DOMAIN groups' = DOMAIN groups,
           \A x : Live(x)' <=> Live(x), \A x : Live(x) => (NotEmpty(x)' <=> NotEmpty(x)),
           \A x \in Index : Used(x)' => Used(x)
    PROVE  Targets' /\ Members' /\ Defaults'
<1>1. Targets'
    BY DEF Targets
<1>2. Members'
    <2> SUFFICES ASSUME "emptied" \notin upset', NEW x \in Index, Used(x)' PROVE NotEmpty(x)'
        BY DEF Members
    <2>1. Used(x) /\ Live(x) /\ NotEmpty(x)
        BY DEF Targets, Members
    <2> QED  BY <2>1
<1>3. \A x : IsDefault(x)' <=> IsDefault(x)
    BY DEF IsDefault
<1>4. Defaults'
    <2>1. ASSUME upset' \intersect {"default", "reset"} = {}, NEW x \in Index, IsDefault(x)'
          PROVE  Live(x)' /\ ("emptied" \notin upset' => NotEmpty(x)')
        <3>1. Live(x) /\ ("emptied" \notin upset => NotEmpty(x))
            BY <2>1, <1>3 DEF Defaults
        <3> QED  BY <3>1
    <2> QED  BY <2>1 DEF Defaults
<1> QED  BY <1>1, <1>2, <1>4

\* The entry that takes or loses its reference, and the count with it.
LEMMA ExactTaken ==
    ASSUME NEW ix, Exact(ix), ProfileTypes, ProfileTypes', GroupsOf(ix)' = GroupsOf(ix),
           Doomed' = Doomed, upset \subseteq upset',
           NEW d \in Int, Cardinality(Held(ix)') = Cardinality(Held(ix)) + d,
           Count(ix)' = Count(ix) + d
    PROVE  Exact(ix)'
<1>1. /\ Cardinality(Held(ix)) \in Nat /\ Cardinality(GroupsOf(ix)) \in Nat
      /\ Cardinality(Doomed) \in Nat /\ Cardinality(Control) \in Nat
    BY HolderSizes
<1> DEFINE h == Cardinality(Held(ix))  g == Cardinality(GroupsOf(ix))  n == Cardinality(Doomed)
           k == Cardinality(Control)  c == Count(ix)
<1>2. c \in h + g..h + g + k - n /\ ("failedAdd" \notin upset => c = h + g)
    BY DEF Exact
<1> HIDE DEF h, g, n, k, c
<1>3. c + d \in (h + d) + g..(h + d) + g + k - n /\ ("failedAdd" \notin upset => c + d = (h + d) + g)
    BY <1>1, <1>2 DEF h, g, n, k
<1>4. /\ Count(ix)' = c + d /\ Cardinality(Held(ix)') = h + d /\ Cardinality(GroupsOf(ix)') = g
      /\ Cardinality(Doomed') = n
    BY DEF c, h, g, n
<1> QED  BY <1>3, <1>4 DEF Exact, k

\* A call that no other call raced stores its own load, one more or less.
LEMMA StoreIsExact ==
    ASSUME NEW c \in Control, NEW d \in Int, NEW ix, ix = op[c].index, Store(c, d),
           Good', Raced(c) \subseteq upset'
    PROVE  UNCHANGED <<mbrHandles, grpHandles>> /\ SetCount(ix, (Count(ix) + d + CountSpace) % CountSpace)
<1>1. Count(ix) = op[c].read
    BY DEF Raced, Upset, Good
<1>2. PICK n \in {(Count(ix) + d + CountSpace) % CountSpace} \union ({Count(ix)} \ {Count(ix)}) : SetCount(ix, n)
    BY <1>1 DEF Store
<1> QED  BY <1>2 DEF Store, handles

\* A thread that finishes its call leaves the others as they were.
LEMMA CallEnds ==
    ASSUME TableTypes, Calls, NEW c \in Control, op[c] # Idle, op' = [op EXCEPT ![c] = Idle],
           \A t \in Table : t # op[c].table => entries'[t] = entries[t]
    PROVE  /\ op' \in [Control -> Call \union {Idle}] /\ op'[c] = Idle
           /\ \A d \in Control \ {c} : op'[d] = op[d]
           /\ \A d \in Control \ {c} : op[d] # Idle => op[d].table # op[c].table /\ op[d].table \in Table
           /\ Calls'
           /\ \A ix : Taking(ix)' => Taking(ix)
           /\ \A d \in Control \ {c} : d \in Doomed' <=> d \in Doomed
           /\ c \notin Doomed'
<1>1. op' \in [Control -> Call \union {Idle}] /\ op'[c] = Idle /\ \A d \in Control \ {c} : op'[d] = op[d]
    BY DEF TableTypes
<1>2. \A d \in Control \ {c} : op[d] # Idle => op[d].table # op[c].table /\ op[d].table \in Table
    BY OpFacts DEF Calls
<1>3. \A d, e \in Control : op'[d] # Idle /\ op'[e] # Idle /\ op'[d].table = op'[e].table => d = e
    BY <1>1 DEF Calls
<1>4. ASSUME NEW d \in Control, op'[d] # Idle
      PROVE  /\ op'[d].call = "add" => op'[d].pc \in {"inc", "incStore"}
             /\ op'[d].call = "delete" => op'[d].pc = "decStore"
             /\ op'[d].call # "add" => op'[d].key \in DOMAIN entries'[op'[d].table]
             /\ op'[d].pc = "decStore" => op'[d].index = entries'[op'[d].table][op'[d].key]
             /\ op'[d].call # "delete" => op'[d].new \in Index
             /\ op'[d].pc \in {"inc", "incStore"} => op'[d].index = op'[d].new
    <2>1. op'[d] = op[d] /\ op[d] # Idle /\ entries'[op[d].table] = entries[op[d].table]
        BY <1>1, <1>2, <1>4
    <2> QED  BY <2>1 DEF Calls
<1>5. Calls'
    BY <1>3, <1>4 DEF Calls
<1>6. \A ix : Taking(ix)' => Taking(ix)
    BY <1>1 DEF Taking, Adding
<1>7. ASSUME NEW d \in Control \ {c} PROVE d \in Doomed' <=> d \in Doomed
    <2>1. op'[d] = op[d]
        BY <1>1
    <2>2. op[d] # Idle => entries'[op[d].table] = entries[op[d].table]
        BY <1>2
    <2> QED  BY <2>1, <2>2 DEF Doomed, Refused, Full
<1>8. c \notin Doomed'
    BY <1>1 DEF Doomed
<1> QED  BY <1>1, <1>2, <1>5, <1>6, <1>7, <1>8

\* A reference that a refused add leaves behind.
LEMMA RefusedAddKeeps ==
    ASSUME Parts, Good', NEW c \in Control, IncStore(c), Refused(c)
    PROVE  Parts'
<1> USE DEF Parts
<1>1. PICK ix : ix = op[c].index
    OBVIOUS
<1>2. op[c] # Idle /\ op[c] \in Call /\ op[c].pc = "incStore"
    BY OpFacts DEF IncStore
<1>3. ix \in Index /\ Live(ix) /\ op[c].call = "add"
    BY <1>1, <1>2, OpFacts DEF Targets, Used, Taking, Adding, Refused
<1>4. /\ Store(c, 1) /\ entries' = entries /\ upset' = upset \union Raced(c) \union Upset(Refused(c), "failedAdd")
      /\ op' = [op EXCEPT ![c] = Idle] /\ UNCHANGED default
    BY DEF IncStore
<1>5. "failedAdd" \in upset' /\ upset \subseteq upset' /\ Raced(c) \subseteq upset'
    BY <1>4 DEF Upset
<1>6. UNCHANGED <<mbrHandles, grpHandles>> /\ SetCount(ix, (Count(ix) + 1 + CountSpace) % CountSpace)
    <2>1. 1 \in Int
        OBVIOUS
    <2> QED  BY <1>1, <1>4, <1>5, <2>1, StoreIsExact, Zenon
<1>7. c \in Doomed
    BY <1>2 DEF Doomed
<1>8. /\ op'[c] = Idle /\ (\A d \in Control \ {c} : op'[d] = op[d]) /\ Calls'
      /\ (\A x : Taking(x)' => Taking(x)) /\ Doomed' = Doomed \ {c}
      /\ op' \in [Control -> Call \union {Idle}]
    <2>1. Doomed \subseteq Control /\ Doomed' \subseteq Control
        BY DEF Doomed
    <2> QED  BY <1>2, <1>4, <1>7, <2>1, CallEnds
<1>9. \A x : Held(x)' = Held(x)
    <2>1. \A t, k : Released(t, k)' <=> Released(t, k)
        BY <1>3, <1>8 DEF Released
    <2>2. \A x : Users(x)' = Users(x)
        BY <1>4 DEF Users
    <2> QED  BY <2>1, <2>2 DEF Held
<1> DEFINE h(x) == Cardinality(Held(x))  g(x) == Cardinality(GroupsOf(x))  k == Cardinality(Control)
           n == Cardinality(Doomed)  tk == Cardinality(Table \X Key)
<1>10. /\ \A x : h(x) \in 0..tk /\ g(x) \in 0..MaxGrp
       /\ n \in Nat /\ n # 0 /\ n <= k /\ k \in Nat /\ tk \in Nat /\ MaxGrp \in Nat /\ CountSpace \in Nat
       /\ tk + MaxGrp + k < CountSpace
    <2>1. \A x : h(x) \in 0..tk /\ g(x) \in 0..MaxGrp /\ n \in 0..k /\ IsFiniteSet(Doomed)
                 /\ tk \in Nat /\ MaxGrp \in Nat /\ k \in Nat /\ CountSpace \in Nat
        BY HolderSizes
    <2>2. tk + MaxGrp + k < CountSpace
        BY Enough
    <2>3. n # 0
        BY <1>7, <2>1, FS_EmptySet
    <2> HIDE DEF h, g, k, n, tk
    <2> QED  BY <2>1, <2>2, <2>3
<1>11. Cardinality(Doomed') = n - 1
    BY <1>7, <1>8, FS_RemoveElement, HolderSizes
<1>12. \A x \in Index : Live(x) => Count(x) \in h(x) + g(x)..h(x) + g(x) + k - n
    BY DEF CountInv, Exact
<1>13. Count(ix) \in 0..CountSpace - 2
    <2>1. Count(ix) \in h(ix) + g(ix)..h(ix) + g(ix) + k - n
        BY <1>3, <1>12
    <2>2. h(ix) \in 0..tk /\ g(ix) \in 0..MaxGrp
        BY <1>10
    <2> HIDE DEF h, g, k, n, tk
    <2> QED  BY <1>10, <2>1, <2>2
<1>14. (Count(ix) + 1 + CountSpace) % CountSpace = Count(ix) + 1
    BY <1>10, <1>13, OneMore
<1>15. SetCount(ix, Count(ix) + 1) /\ Count(ix) + 1 \in Int
    BY <1>6, <1>13, <1>14
<1>16. PICK m \in Int : m = Count(ix) + 1
    BY <1>15
<1>17. /\ ProfileTypes' /\ DOMAIN groups' = DOMAIN groups
       /\ \A x : (Live(x)' <=> Live(x)) /\ GroupsOf(x)' = GroupsOf(x)
       /\ \A x : Live(x) => (NotEmpty(x)' <=> NotEmpty(x))
       /\ Count(ix)' = Count(ix) + 1
       /\ \A x \in Index : Live(x) /\ x # ix => Count(x)' = Count(x)
    <2>1. SetCount(ix, m)
        BY <1>15, <1>16
    <2> QED  BY <2>1, <1>3, <1>6, <1>16, SetCountFacts
<1>18. CountInv'
    <2> SUFFICES ASSUME NEW x \in Index, Live(x)' PROVE Exact(x)'
        BY DEF CountInv
    <2>1. Live(x) /\ Count(x)' \in {Count(x), Count(x) + 1}
        BY <1>17
    <2>2. Count(x)' \in h(x) + g(x)..h(x) + g(x) + k - (n - 1)
        <3>1. Count(x) \in h(x) + g(x)..h(x) + g(x) + k - n
            BY <2>1, <1>12
        <3>2. h(x) \in 0..tk /\ g(x) \in 0..MaxGrp
            BY <1>10
        <3> HIDE DEF h, g, k, n, tk
        <3> QED  BY <2>1, <3>1, <3>2, <1>10
    <2>3. Held(x)' = Held(x) /\ GroupsOf(x)' = GroupsOf(x)
        BY <1>9, <1>17
    <2> QED  BY <2>2, <2>3, <1>5, <1>11 DEF Exact
<1>19. Targets' /\ Members' /\ Defaults'
    <2>1. \A x \in Index : Used(x)' => Used(x)
        BY <1>8, <1>9 DEF Used
    <2> QED  BY <2>1, <1>4, <1>5, <1>6, <1>17, StillTargets
<1>20. TableTypes'
    BY <1>4, <1>8 DEF TableTypes
<1> QED  BY <1>8, <1>17, <1>18, <1>19, <1>20

\* The entry of an add, or of a modify, with its reference taken.
LEMMA TakenKeeps ==
    ASSUME Parts, Good', NEW c \in Control, IncStore(c), ~ Refused(c)
    PROVE  Parts'
<1> USE DEF Parts
<1>1. PICK ix, T, K : ix = op[c].index /\ T = op[c].table /\ K = op[c].key
    OBVIOUS
<1>2. op[c] # Idle /\ op[c] \in Call /\ op[c].pc = "incStore"
    BY OpFacts DEF IncStore
<1>3. /\ ix \in Index /\ Live(ix) /\ T \in Table /\ K \in Key /\ op[c].new = ix
      /\ op[c].call \in {"add", "modify"}
    <2>1. ix \in Index /\ T \in Table /\ K \in Key /\ op[c].call \in {"add", "delete", "modify"}
        BY <1>1, <1>2, OpFacts
    <2>2. Used(ix)
        BY <1>1, <1>2 DEF Used, Taking, Adding
    <2> QED  BY <1>1, <1>2, <2>1, <2>2 DEF Targets, Calls
<1>4. /\ Store(c, 1) /\ entries' = [entries EXCEPT ![T] = With(@, K, ix)]
      /\ upset' = upset \union Raced(c) \union Upset(Refused(c), "failedAdd")
      /\ op' = [op EXCEPT ![c] = Idle] /\ UNCHANGED default
    BY <1>1, <1>3 DEF IncStore
<1>5. upset \subseteq upset' /\ Raced(c) \subseteq upset'
    BY <1>4
<1>6. UNCHANGED <<mbrHandles, grpHandles>> /\ SetCount(ix, (Count(ix) + 1 + CountSpace) % CountSpace)
    <2>1. 1 \in Int
        OBVIOUS
    <2> QED  BY <1>1, <1>4, <1>5, <2>1, StoreIsExact, Zenon
<1>7. /\ \A t \in Table \ {T} : entries'[t] = entries[t]
      /\ DOMAIN entries'[T] = DOMAIN entries[T] \union {K} /\ entries'[T][K] = ix
      /\ \A k \in DOMAIN entries[T] \ {K} : entries'[T][k] = entries[T][k]
    <2>1. entries'[T] = With(entries[T], K, ix) /\ \A t \in Table \ {T} : entries'[t] = entries[t]
        BY <1>3, <1>4 DEF TableTypes
    <2> QED  BY <2>1 DEF With
<1>8. /\ op' \in [Control -> Call \union {Idle}] /\ op'[c] = Idle
      /\ \A d \in Control \ {c} : op'[d] = op[d]
      /\ \A d \in Control \ {c} : op[d] # Idle => op[d].table # T
      /\ Calls' /\ \A x : Taking(x)' => Taking(x)
    BY <1>1, <1>2, <1>4, <1>7, CallEnds
<1>9. Doomed' = Doomed
    <2>1. Doomed \subseteq Control /\ Doomed' \subseteq Control /\ c \notin Doomed
        BY DEF Doomed
    <2>2. (\A d \in Control \ {c} : d \in Doomed' <=> d \in Doomed) /\ c \notin Doomed'
        BY <1>1, <1>2, <1>4, <1>7, CallEnds
    <2> QED  BY <2>1, <2>2
<1>10. /\ \A t, k : t # T \/ k # K => (Released(t, k)' <=> Released(t, k))
       /\ ~ Released(T, K)'
    BY <1>1, <1>8 DEF Released
<1>11. \A x : <<T, K>> \notin Held(x)
    <2>1. CASE op[c].call = "add"
        <3>1. K \notin DOMAIN entries[T]
            BY <1>1, <2>1 DEF Refused, Full
        <3> QED  BY <3>1 DEF Held, Users
    <2>2. CASE op[c].call = "modify"
        <3>1. Released(T, K)
            BY <1>1, <1>2, <2>2 DEF Released
        <3> QED  BY <3>1 DEF Held
    <2> QED  BY <2>1, <2>2, <1>3
<1>12. ASSUME NEW x, NEW t \in Table, NEW k \in Key, t # T \/ k # K
       PROVE  <<t, k>> \in Users(x)' <=> <<t, k>> \in Users(x)
    <2>1. k \in DOMAIN entries'[t] <=> k \in DOMAIN entries[t]
        BY <1>7, <1>12
    <2>2. k \in DOMAIN entries[t] => entries'[t][k] = entries[t][k]
        BY <1>7, <1>12
    <2> QED  BY <2>1, <2>2 DEF Users
<1>13. \A x : <<T, K>> \in Users(x)' <=> x = ix
    BY <1>3, <1>7 DEF Users
<1>14. /\ Held(ix)' = Held(ix) \union {<<T, K>>}
       /\ \A x : x # ix => Held(x)' = Held(x)
    <2>1. \A x : Held(x) \subseteq Table \X Key /\ Held(x)' \subseteq Table \X Key
        BY DEF Held, Users
    <2>2. ASSUME NEW x, NEW t \in Table, NEW k \in Key, t # T \/ k # K
          PROVE  <<t, k>> \in Held(x)' <=> <<t, k>> \in Held(x)
        BY <2>2, <1>10, <1>12 DEF Held
    <2>3. \A x : <<T, K>> \in Held(x)' <=> x = ix
        BY <1>10, <1>13 DEF Held
    <2>4. ASSUME NEW x PROVE Held(x)' = Held(x) \union (IF x = ix THEN {<<T, K>>} ELSE {})
        <3>1. \A u \in Table \X Key : u = <<u[1], u[2]>> /\ u[1] \in Table /\ u[2] \in Key
            OBVIOUS
        <3>2. \A u \in Table \X Key : u # <<T, K>> => (u \in Held(x)' <=> u \in Held(x))
            BY <2>2, <3>1
        <3> QED  BY <3>2, <2>1, <2>3, <1>3, <1>11
    <2> QED  BY <2>4
<1>15. Cardinality(Held(ix)') = Cardinality(Held(ix)) + 1
    BY <1>11, <1>14, FS_AddElement, HolderSizes
<1>16. TableTypes'
    <2>1. With(entries[T], K, ix) \in UNION {[D -> Index] : D \in SUBSET Key}
        <3>1. DOMAIN entries[T] \subseteq Key /\ \A k \in DOMAIN entries[T] : entries[T][k] \in Index
            BY <1>3 DEF TableTypes
        <3>2. With(entries[T], K, ix) \in [DOMAIN entries[T] \union {K} -> Index]
            BY <1>3, <3>1 DEF With
        <3>3. DOMAIN entries[T] \union {K} \in SUBSET Key
            BY <1>3, <3>1
        <3> QED  BY <3>2, <3>3
    <2>2. entries' \in [Table -> UNION {[D -> Index] : D \in SUBSET Key}]
        BY <1>4, <2>1 DEF TableTypes
    <2> QED  BY <2>2, <1>4, <1>8 DEF TableTypes
<1> DEFINE h == Cardinality(Held(ix))  g == Cardinality(GroupsOf(ix))  k == Cardinality(Control)
           tk == Cardinality(Table \X Key)  cnt == Count(ix)
<1>17. cnt \in 0..CountSpace - 2
    <2>1. h + 1 \in 0..tk
        <3>1. Held(ix)' \subseteq Table \X Key
            BY DEF Held, Users
        <3>2. Cardinality(Held(ix)') \in Nat /\ Cardinality(Held(ix)') <= tk /\ tk \in Nat
            BY <3>1, HeldSize
        <3>3. h \in Nat /\ Cardinality(Held(ix)') = h + 1
            BY <1>15, HolderSizes
        <3> HIDE DEF h, tk
        <3> QED  BY <3>2, <3>3
    <2>2. /\ h \in 0..tk /\ g \in 0..MaxGrp /\ tk \in Nat /\ MaxGrp \in Nat /\ k \in Nat /\ CountSpace \in Nat
          /\ tk + MaxGrp + k < CountSpace
        BY HolderSizes, Enough
    <2>3. cnt \in Nat /\ cnt <= h + g + k
        BY <1>3, CountBounds DEF CountInv
    <2> HIDE DEF h, g, k, tk, cnt
    <2> QED  BY <2>1, <2>2, <2>3
<1>18. PICK m \in Int : m = cnt + 1
    BY <1>17
<1>19. SetCount(ix, m)
    <2>1. (Count(ix) + 1 + CountSpace) % CountSpace = m
        BY <1>17, <1>18, OneMore, ActionProfileAssumption
    <2> QED  BY <1>6, <2>1
<1>20. /\ ProfileTypes' /\ DOMAIN groups' = DOMAIN groups
       /\ \A x : (Live(x)' <=> Live(x)) /\ GroupsOf(x)' = GroupsOf(x)
       /\ \A x : Live(x) => (NotEmpty(x)' <=> NotEmpty(x))
       /\ Count(ix)' = Count(ix) + 1
       /\ \A x \in Index : Live(x) /\ x # ix => Count(x)' = Count(x)
    BY <1>3, <1>6, <1>18, <1>19, SetCountFacts
<1>21. CountInv'
    <2> SUFFICES ASSUME NEW x \in Index, Live(x)' PROVE Exact(x)'
        BY DEF CountInv
    <2>1. Live(x) /\ Exact(x) /\ GroupsOf(x)' = GroupsOf(x)
        BY <1>20 DEF CountInv
    <2>2. CASE x = ix
        BY <2>1, <2>2, <1>5, <1>9, <1>15, <1>20, ExactTaken
    <2>3. CASE x # ix
        BY <2>1, <2>3, <1>5, <1>9, <1>14, <1>20, ExactKept
    <2> QED  BY <2>2, <2>3
<1>22. Targets' /\ Members' /\ Defaults'
    <2>1. Used(ix)
        BY <1>1, <1>2 DEF Used, Taking, Adding
    <2>2. \A x \in Index : Used(x)' => Used(x)
        BY <1>8, <1>14, <2>1 DEF Used
    <2> QED  BY <2>2, <1>4, <1>5, <1>6, <1>20, StillTargets
<1> QED  BY <1>8, <1>16, <1>20, <1>21, <1>22

\* What a delete or a modify releases is the reference of its entry.
LEMMA ReleasesItsOwn ==
    ASSUME Parts, NEW c \in Control, op[c].pc = "decStore"
    PROVE  /\ op[c] # Idle /\ op[c] \in Call /\ op[c].call \in {"delete", "modify"}
           /\ op[c].table \in Table /\ op[c].key \in DOMAIN entries[op[c].table] /\ op[c].key \in Key
           /\ op[c].index \in Index /\ op[c].index = entries[op[c].table][op[c].key]
           /\ <<op[c].table, op[c].key>> \in Held(op[c].index) /\ Live(op[c].index)
<1> USE DEF Parts
<1>1. op[c] # Idle /\ op[c] \in Call
    BY OpFacts
<1>2. /\ op[c].call \in {"delete", "modify"} /\ op[c].table \in Table /\ op[c].key \in Key
      /\ op[c].key \in DOMAIN entries[op[c].table]
      /\ op[c].index = entries[op[c].table][op[c].key] /\ op[c].index \in Index
    <2>1. op[c].table \in Table /\ op[c].key \in Key /\ op[c].index \in Index
          /\ op[c].call \in {"add", "delete", "modify"}
        BY <1>1, OpFacts
    <2> QED  BY <1>1, <2>1 DEF Calls
<1>3. ~ Released(op[c].table, op[c].key)
    BY <1>1 DEF Calls, Released
<1> QED  BY <1>1, <1>2, <1>3, EntryIsHeld

\* The counts after the reference of an entry was given back.
LEMMA GivenBack ==
    ASSUME Parts, Good', NEW c \in Control, DecStore(c), NEW ix, NEW u,
           ix = op[c].index, u = <<op[c].table, op[c].key>>,
           Held(ix)' = Held(ix) \ {u}, \A x : x # ix => Held(x)' = Held(x),
           Doomed' = Doomed, \A x : Taking(x)' => Taking(x)
    PROVE  ProfileTypes' /\ CountInv' /\ Targets' /\ Members' /\ Defaults'
<1> USE DEF Parts
<1>1. op[c].pc = "decStore" /\ Store(c, -1) /\ upset' = upset \union Raced(c) /\ UNCHANGED default
    BY DEF DecStore
<1>2. ix \in Index /\ Live(ix) /\ u \in Held(ix)
    BY <1>1, ReleasesItsOwn
<1>3. upset \subseteq upset' /\ Raced(c) \subseteq upset'
    BY <1>1
<1>4. UNCHANGED <<mbrHandles, grpHandles>> /\ SetCount(ix, (Count(ix) + -1 + CountSpace) % CountSpace)
    <2>1. -1 \in Int
        OBVIOUS
    <2>2. PICK d \in Int : d = -1
        BY <2>1
    <2>3. Store(c, d)
        BY <1>1, <2>2
    <2>4. UNCHANGED <<mbrHandles, grpHandles>> /\ SetCount(ix, (Count(ix) + d + CountSpace) % CountSpace)
        BY <1>3, <2>3, StoreIsExact, Zenon
    <2> QED  BY <2>2, <2>4
<1> DEFINE h == Cardinality(Held(ix))  g == Cardinality(GroupsOf(ix))  cnt == Count(ix)
<1>5. Cardinality(Held(ix)') = h - 1 /\ h \in Nat /\ h # 0
    <2>1. IsFiniteSet(Held(ix)) /\ h \in Nat
        BY HolderSizes
    <2>2. h # 0
        BY <1>2, <2>1, FS_EmptySet
    <2>3. Cardinality(Held(ix) \ {u}) = h - 1
        <3> HIDE DEF Parts
        <3>1. u \in Held(ix)
            BY <1>2
        <3>2. \A S : IsFiniteSet(S) /\ u \in S => Cardinality(S \ {u}) = Cardinality(S) - 1
            BY FS_RemoveElement
        <3> QED  BY <2>1, <3>1, <3>2, Zenon
    <2> QED  BY <2>1, <2>2, <2>3
<1>6. cnt \in 1..CountSpace - 1
    <2>1. cnt \in Nat /\ cnt < CountSpace /\ cnt >= h + g /\ g \in Nat /\ CountSpace \in Nat
        BY <1>2, CountBounds, HolderSizes DEF CountInv
    <2> HIDE DEF h, g, cnt
    <2> QED  BY <1>5, <2>1
<1>7. PICK m \in Int : m = cnt - 1
    BY <1>6
<1>8. SetCount(ix, m)
    <2>1. (cnt + -1 + CountSpace) % CountSpace = m
        BY <1>6, <1>7, OneLess, ActionProfileAssumption
    <2> QED  BY <1>4, <2>1
<1>9. /\ ProfileTypes' /\ DOMAIN groups' = DOMAIN groups
      /\ \A x : (Live(x)' <=> Live(x)) /\ GroupsOf(x)' = GroupsOf(x)
      /\ \A x : Live(x) => (NotEmpty(x)' <=> NotEmpty(x))
      /\ Count(ix)' = m
      /\ \A x \in Index : Live(x) /\ x # ix => Count(x)' = Count(x)
    BY <1>2, <1>4, <1>7, <1>8, SetCountFacts
<1>10. Count(ix)' = Count(ix) + -1 /\ Cardinality(Held(ix)') = Cardinality(Held(ix)) + -1
    BY <1>5, <1>6, <1>7, <1>9
<1>11. CountInv'
    <2> SUFFICES ASSUME NEW x \in Index, Live(x)' PROVE Exact(x)'
        BY DEF CountInv
    <2>1. Live(x) /\ Exact(x) /\ GroupsOf(x)' = GroupsOf(x)
        BY <1>9 DEF CountInv
    <2>2. CASE x = ix
        <3>1. -1 \in Int
            OBVIOUS
        <3> QED  BY <2>1, <2>2, <3>1, <1>3, <1>9, <1>10, ExactTaken
    <2>3. CASE x # ix
        BY <2>1, <2>3, <1>3, <1>9, ExactKept
    <2> QED  BY <2>2, <2>3
<1>12. \A x \in Index : Used(x)' => Used(x)
    BY DEF Used
<1> QED  BY <1>1, <1>3, <1>4, <1>9, <1>11, <1>12, StillTargets

\* delete_entry: the entry goes with its reference.
LEMMA DeletedKeeps ==
    ASSUME Parts, Good', NEW c \in Control, DecStore(c), op[c].call = "delete"
    PROVE  Parts'
<1>1. PICK ix, T, K : ix = op[c].index /\ T = op[c].table /\ K = op[c].key
    OBVIOUS
<1>2. /\ op[c].pc = "decStore" /\ entries' = [entries EXCEPT ![T] = Without(@, K)]
      /\ op' = [op EXCEPT ![c] = Idle] /\ default' = default
    BY <1>1 DEF DecStore
<1>3. op[c] # Idle /\ T \in Table /\ K \in Key /\ entries[T][K] = ix /\ K \in DOMAIN entries[T]
    BY <1>1, <1>2, ReleasesItsOwn
<1>4. /\ \A t \in Table \ {T} : entries'[t] = entries[t]
      /\ DOMAIN entries'[T] = DOMAIN entries[T] \ {K}
      /\ \A k \in DOMAIN entries[T] \ {K} : entries'[T][k] = entries[T][k]
    <2>1. entries'[T] = Without(entries[T], K) /\ \A t \in Table \ {T} : entries'[t] = entries[t]
        BY <1>2, <1>3 DEF Parts, TableTypes
    <2> QED  BY <2>1 DEF Without
<1>5. /\ op' \in [Control -> Call \union {Idle}] /\ op'[c] = Idle
      /\ \A d \in Control \ {c} : op'[d] = op[d]
      /\ Calls' /\ \A x : Taking(x)' => Taking(x)
    BY <1>1, <1>2, <1>3, <1>4, CallEnds DEF Parts
<1>6. Doomed' = Doomed
    <2>1. Doomed \subseteq Control /\ Doomed' \subseteq Control /\ c \notin Doomed
        BY DEF Doomed, Refused
    <2>2. (\A d \in Control \ {c} : d \in Doomed' <=> d \in Doomed) /\ c \notin Doomed'
        BY <1>1, <1>2, <1>3, <1>4, CallEnds DEF Parts
    <2> QED  BY <2>1, <2>2
<1>7. \A t, k : Released(t, k)' <=> Released(t, k)
    BY <1>5 DEF Released
<1>8. ASSUME NEW x, NEW t \in Table, NEW k \in Key, t # T \/ k # K
      PROVE  <<t, k>> \in Users(x)' <=> <<t, k>> \in Users(x)
    <2>1. k \in DOMAIN entries'[t] <=> k \in DOMAIN entries[t]
        BY <1>4, <1>8
    <2>2. k \in DOMAIN entries'[t] => entries'[t][k] = entries[t][k]
        BY <1>4, <1>8
    <2> QED  BY <2>1, <2>2 DEF Users
<1>9. \A x : <<T, K>> \notin Users(x)' /\ (x # ix => <<T, K>> \notin Users(x))
    BY <1>3, <1>4 DEF Users
<1>10. ASSUME NEW x PROVE Held(x)' = Held(x) \ (IF x = ix THEN {<<T, K>>} ELSE {})
    <2>1. Held(x) \subseteq Table \X Key /\ Held(x)' \subseteq Table \X Key
        BY DEF Held, Users
    <2>2. \A u \in Table \X Key : u = <<u[1], u[2]>> /\ u[1] \in Table /\ u[2] \in Key
        OBVIOUS
    <2>3. ASSUME NEW u \in Table \X Key, u # <<T, K>> PROVE u \in Held(x)' <=> u \in Held(x)
        <3>1. u \in Users(x)' <=> u \in Users(x)
            BY <1>8, <2>2, <2>3
        <3> QED  BY <3>1, <1>7 DEF Held
    <2>4. <<T, K>> \notin Held(x)' /\ (x # ix => <<T, K>> \notin Held(x))
        BY <1>9 DEF Held
    <2> QED  BY <2>1, <2>3, <2>4
<1>11. TableTypes'
    <2>1. Without(entries[T], K) \in UNION {[D -> Index] : D \in SUBSET Key}
        <3>1. DOMAIN entries[T] \subseteq Key /\ \A k \in DOMAIN entries[T] : entries[T][k] \in Index
            BY <1>3 DEF Parts, TableTypes
        <3>2. Without(entries[T], K) \in [DOMAIN entries[T] \ {K} -> Index]
            BY <3>1 DEF Without
        <3>3. DOMAIN entries[T] \ {K} \in SUBSET Key
            BY <3>1
        <3> QED  BY <3>2, <3>3
    <2>2. entries' \in [Table -> UNION {[D -> Index] : D \in SUBSET Key}]
        BY <1>2, <2>1 DEF Parts, TableTypes
    <2> QED  BY <2>2, <1>2, <1>5 DEF Parts, TableTypes
<1>12. ProfileTypes' /\ CountInv' /\ Targets' /\ Members' /\ Defaults'
    <2>1. PICK u : u = <<T, K>>
        OBVIOUS
    <2>2. Held(ix)' = Held(ix) \ {u} /\ \A x : x # ix => Held(x)' = Held(x)
        BY <1>10, <2>1
    <2> QED  BY <1>1, <1>5, <1>6, <2>1, <2>2, GivenBack
<1> QED  BY <1>5, <1>11, <1>12 DEF Parts

\* modify_entry: the entry stays, its reference given back.
LEMMA ModifyReleasesKeeps ==
    ASSUME Parts, Good', NEW c \in Control, DecStore(c), op[c].call # "delete"
    PROVE  Parts'
<1>1. PICK ix, T, K : ix = op[c].index /\ T = op[c].table /\ K = op[c].key
    OBVIOUS
<1>2. PICK rec : rec = [op[c] EXCEPT !.pc = "check", !.read = 0]
    OBVIOUS
<1>3. op[c].pc = "decStore" /\ entries' = entries /\ op' = [op EXCEPT ![c] = rec] /\ default' = default
    BY <1>2 DEF DecStore
<1>4. /\ op[c] # Idle /\ op[c] \in Call /\ op[c].call = "modify" /\ T \in Table /\ K \in Key
      /\ entries[T][K] = ix /\ K \in DOMAIN entries[T]
    BY <1>1, <1>3, ReleasesItsOwn
<1>5. /\ rec \in Call /\ rec.pc = "check" /\ rec.call = "modify" /\ rec.table = T
      /\ rec.key = K /\ rec.new = op[c].new /\ rec # Idle
    <2>1. /\ rec \in Call /\ rec.pc = "check" /\ rec.call = op[c].call /\ rec.table = op[c].table
          /\ rec.key = op[c].key /\ rec.new = op[c].new
        <3>1. PICK z \in Int : z = 0
            OBVIOUS
        <3>2. rec = [op[c] EXCEPT !.pc = "check", !.read = z]
            BY <1>2, <3>1
        <3> QED  BY <1>4, <3>2 DEF Call
    <2>2. rec.pc # Idle.pc
        BY <2>1 DEF Idle
    <2> QED  BY <2>1, <2>2, <1>1, <1>4
<1>6. /\ op' \in [Control -> Call \union {Idle}] /\ op'[c] = rec
      /\ \A d \in Control \ {c} : op'[d] = op[d]
    BY <1>3, <1>5 DEF Parts, TableTypes
<1>7. Calls'
    <2>1. \A d, e \in Control : op'[d] # Idle /\ op'[e] # Idle /\ op'[d].table = op'[e].table => d = e
        BY <1>1, <1>4, <1>5, <1>6 DEF Parts, Calls
    <2>2. ASSUME NEW d \in Control, op'[d] # Idle
          PROVE  /\ op'[d].call = "add" => op'[d].pc \in {"inc", "incStore"}
                 /\ op'[d].call = "delete" => op'[d].pc = "decStore"
                 /\ op'[d].call # "add" => op'[d].key \in DOMAIN entries'[op'[d].table]
                 /\ op'[d].pc = "decStore" => op'[d].index = entries'[op'[d].table][op'[d].key]
                 /\ op'[d].call # "delete" => op'[d].new \in Index
                 /\ op'[d].pc \in {"inc", "incStore"} => op'[d].index = op'[d].new
        <3>1. CASE d = c
            BY <1>3, <1>4, <1>5, <1>6, <3>1 DEF Parts, Calls
        <3>2. CASE d # c
            BY <1>3, <1>6, <2>2, <3>2 DEF Parts, Calls
        <3> QED  BY <3>1, <3>2
    <2> QED  BY <2>1, <2>2 DEF Calls
<1>8. Doomed' = Doomed
    BY <1>3, <1>4, <1>5, <1>6 DEF Doomed, Refused, Full
<1>9. \A x : Taking(x)' => Taking(x)
    BY <1>5, <1>6 DEF Taking, Adding
<1>10. \A t, k : Released(t, k)' <=> Released(t, k) \/ (t = T /\ k = K)
    BY <1>1, <1>3, <1>4, <1>5, <1>6 DEF Released
<1>11. \A x : Users(x)' = Users(x)
    BY <1>3 DEF Users
<1>12. ASSUME NEW x PROVE Held(x)' = Held(x) \ (IF x = ix THEN {<<T, K>>} ELSE {})
    <2>1. x # ix => <<T, K>> \notin Users(x)
        BY <1>4 DEF Users
    <2>2. \A u \in Table \X Key : u = <<u[1], u[2]>>
        OBVIOUS
    <2>3. Users(x) \subseteq Table \X Key
        BY DEF Users
    <2>4. \A u \in Users(x) : Released(u[1], u[2])' <=> Released(u[1], u[2]) \/ u = <<T, K>>
        BY <1>10, <2>2, <2>3
    <2> QED  BY <1>11, <2>1, <2>4 DEF Held
<1>13. TableTypes'
    BY <1>3, <1>6 DEF Parts, TableTypes
<1>14. ProfileTypes' /\ CountInv' /\ Targets' /\ Members' /\ Defaults'
    <2>1. PICK u : u = <<T, K>>
        OBVIOUS
    <2>2. Held(ix)' = Held(ix) \ {u} /\ \A x : x # ix => Held(x)' = Held(x)
        BY <1>12, <2>1
    <2> QED  BY <1>1, <1>8, <1>9, <2>1, <2>2, GivenBack
<1> QED  BY <1>7, <1>13, <1>14 DEF Parts

-----------------------------------------------------------------------------
\* Defaults, reset_state, and packets.

\* set_default_member and set_default_group.
LEMMA SetDefaultKeeps ==
    ASSUME Parts, NEW t \in Table, NEW ix \in Index, SetDefault(t, ix)
    PROVE  Parts'
<1> USE DEF Parts
<1>1. /\ Valid(ix) /\ default' = [default EXCEPT ![t] = ix]
      /\ upset' = upset \union Upset(~ HasMember(ix), "emptied")
      /\ UNCHANGED <<mbrHandles, grpHandles, mbrCount, groups, entries, op>>
    BY DEF SetDefault, profile, handles
<1>2. upset \subseteq upset'
    BY <1>1
<1>3. LiveGroups' = LiveGroups
    BY <1>1 DEF LiveGroups
<1>4. \A x : /\ (Live(x)' <=> Live(x)) /\ GroupsOf(x)' = GroupsOf(x) /\ (NotEmpty(x)' <=> NotEmpty(x))
             /\ Count(x)' = Count(x)
    BY <1>1, <1>3 DEF Live, GroupsOf, NotEmpty, Count
<1>5. \A x : Held(x)' = Held(x) /\ (Taking(x)' <=> Taking(x))
    BY <1>1 DEF Held, Users, Released, Taking, Adding
<1>6. Doomed' = Doomed
    BY <1>1 DEF Doomed, Refused, Full
<1>7. ProfileTypes' /\ Calls'
    BY <1>1, <1>3 DEF ProfileTypes, Calls
<1>8. TableTypes'
    BY <1>1 DEF TableTypes
<1>9. CountInv'
    <2> SUFFICES ASSUME NEW x \in Index, Live(x)' PROVE Exact(x)'
        BY DEF CountInv
    <2>1. Exact(x)
        BY <1>4 DEF CountInv
    <2> QED  BY <2>1, <1>2, <1>4, <1>5, <1>6, ExactKept
<1>10. Targets' /\ Members'
    <2>1. \A x : Used(x)' <=> Used(x)
        BY <1>5 DEF Used
    <2> QED  BY <2>1, <1>2, <1>4 DEF Targets, Members
<1>11. Defaults'
    <2>1. "reset" \notin upset' => grpHandles' \subseteq DOMAIN groups'
        BY <1>1, <1>2 DEF Defaults
    <2>2. ASSUME upset' \intersect {"default", "reset"} = {}, NEW x \in Index, IsDefault(x)'
          PROVE  Live(x)' /\ ("emptied" \notin upset' => NotEmpty(x)')
        <3>1. CASE x = ix
            <4>1. Live(ix)
                BY <1>1, <1>2, <2>2 DEF Defaults, Valid, Live, LiveGroups
            <4>2. "emptied" \notin upset' => NotEmpty(ix)
                BY <1>1 DEF Upset, HasMember, IsEmpty, NotEmpty
            <4> QED  BY <3>1, <4>1, <4>2, <1>4
        <3>2. CASE x # ix
            <4>1. IsDefault(x)
                BY <1>1, <2>2, <3>2 DEF IsDefault, TableTypes
            <4>2. Live(x) /\ ("emptied" \notin upset => NotEmpty(x))
                BY <4>1, <1>2, <2>2 DEF Defaults
            <4> QED  BY <4>2, <1>2, <1>4
        <3> QED  BY <3>1, <3>2
    <2> QED  BY <2>1, <2>2 DEF Defaults
<1> QED  BY <1>7, <1>8, <1>9, <1>10, <1>11

\* A profile and tables with nothing in them, but for old handles of groups.
Empty ==
    /\ \A c \in Control : op[c] = Idle
    /\ op \in [Control -> Call \union {Idle}]
    /\ mbrHandles = {} /\ mbrCount = <<>> /\ groups = <<>>
    /\ entries = [t \in Table |-> <<>>]
    /\ default \in [Table -> Index \union {None}]
    /\ grpHandles \subseteq 0..MaxGrp - 1
    /\ "reset" \notin upset => grpHandles = {} /\ \A t \in Table : default[t] = None

\* Nothing holds nothing.
LEMMA EmptyIsGood == Empty => Parts
<1> SUFFICES ASSUME Empty PROVE Parts
    OBVIOUS
<1> USE DEF Empty
<1>1. DOMAIN groups = {} /\ LiveGroups = {} /\ DOMAIN mbrCount = {}
    BY DEF LiveGroups
<1>2. ProfileTypes
    <2>1. 0 \in 0..MaxGrp /\ DOMAIN groups = 0..0 - 1
        BY <1>1, ActionProfileAssumption
    <2>2. groups \in [DOMAIN groups -> [count : Int, mbrs : SUBSET Int]]
        BY <1>1
    <2> QED  BY <1>1, <2>1, <2>2 DEF ProfileTypes
<1>3. \A x : ~ Live(x)
    BY <1>1 DEF Live
<1>4. CountInv
    BY <1>3 DEF CountInv
<1>5. \A x : Held(x) = {} /\ ~ Taking(x)
    BY DEF Held, Users, Taking, Adding
<1>6. Targets /\ Members
    BY <1>5 DEF Targets, Members, Used
<1>7. Defaults
    BY IndexFacts DEF Defaults, IsDefault
<1>8. TableTypes
    <2>1. <<>> \in [{} -> Index] /\ {} \in SUBSET Key
        OBVIOUS
    <2>2. <<>> \in UNION {[K -> Index] : K \in SUBSET Key}
        BY <2>1
    <2> QED  BY <2>2 DEF TableTypes
<1>9. Calls
    BY DEF Calls
<1> QED  BY <1>2, <1>4, <1>6, <1>7, <1>8, <1>9 DEF Parts

-----------------------------------------------------------------------------
\* Lookups.

\* The program ends only after one of these, or by a lookup that was torn.
Harmed == upset \intersect {"failedModify", "race", "default", "emptied", "reset"} # {}
Torn == About("torn") # {}

\* What a lookup that was not torn has read still holds when it reads on: a
\* call that changes it tears the lookup.
HasGroup(w) == \E g \in LiveGroups : look[w].index = Grp(g) /\ groups[g].mbrs # {}
Fresh(w) ==
    /\ look[w].pc \in {"size", "nth"} => HasGroup(w)
    /\ look[w].pc = "check" => look[w].n \in mbrHandles
Looking == [pc : {"size", "nth", "check", "act", "torn"}, table : Table, index : Index, n : Int]
LookInv == look \in [Worker -> Looking \union {Idle}] /\ \A w \in Worker : Fresh(w)

\* The lock of the table keeps what a lookup has chosen in the table.
Holds(w) ==
    look[w] # Idle =>
        LET t == look[w].table
        IN  /\ ~ Locked(t)
            /\ look[w].index = default[t] \/ \E k \in DOMAIN entries[t] : entries[t][k] = look[w].index
HoldInv == \A w \in Worker : Holds(w)

\* What a packet chooses in a table that no call holds exists.
LEMMA ChosenIsLive ==
    ASSUME Parts, ~ Harmed, NEW t \in Table, NEW k \in Key, ~ Locked(t), Chosen(t, k) # None
    PROVE  Chosen(t, k) \in Index /\ Live(Chosen(t, k)) /\ NotEmpty(Chosen(t, k))
<1> USE DEF Parts
<1>1. CASE k \in DOMAIN entries[t]
    <2>1. ~ Released(t, k)
        BY DEF Released, Locked
    <2>2. Used(Chosen(t, k)) /\ Live(Chosen(t, k)) /\ Chosen(t, k) \in Index
        BY <1>1, <2>1, EntryIsHeld, EntryFacts DEF Chosen
    <2> QED  BY <2>2 DEF Members, Harmed
<1>2. CASE k \notin DOMAIN entries[t]
    <2>1. Chosen(t, k) \in Index /\ IsDefault(Chosen(t, k))
        BY <1>2 DEF Chosen, TableTypes, IsDefault
    <2> QED  BY <2>1 DEF Defaults, Harmed
<1> QED  BY <1>1, <1>2

\* A step after which the lookups that were not torn are still fresh.
LEMMA TearsKeeps ==
    ASSUME LookInv, NEW W \in SUBSET Worker, \A w \in W : look[w] # Idle, Tears(W),
           \A w \in Worker \ W : (look[w].pc \in {"size", "nth"} => HasGroup(w)')
                                  /\ (look[w].pc = "check" => look[w].n \in mbrHandles')
    PROVE  LookInv'
<1>1. /\ \A w \in W : look'[w] = [look[w] EXCEPT !.pc = "torn"]
      /\ \A w \in Worker \ W : look'[w] = look[w]
      /\ DOMAIN look' = Worker
    BY DEF Tears
<1>2. \A w \in W : look'[w] \in Looking /\ look'[w].pc = "torn"
    <2>1. \A w \in W : look[w] \in Looking
        BY DEF LookInv
    <2> QED  BY <1>1, <2>1 DEF Looking
<1>3. look' \in [Worker -> Looking \union {Idle}]
    <2>1. \A w \in Worker : look'[w] \in Looking \union {Idle}
        BY <1>1, <1>2 DEF LookInv
    <2>2. look' = [w \in Worker |-> look'[w]]
        BY DEF Tears
    <2> QED  BY <2>1, <2>2
<1>4. ASSUME NEW w \in Worker PROVE Fresh(w)'
    <2>1. CASE w \in W
        BY <1>2, <2>1 DEF Fresh
    <2>2. CASE w \notin W
        BY <1>1, <2>2 DEF Fresh
    <2> QED  BY <2>1, <2>2
<1> QED  BY <1>3, <1>4 DEF LookInv

\* The lookups about to read something are under way.
LEMMA AboutIsBusy ==
    ASSUME NEW pc \in {"size", "nth", "check", "act", "torn"}, NEW w \in About(pc)
    PROVE  w \in Worker /\ look[w].pc = pc /\ look[w] # Idle
BY DEF About, Idle

\* A lookup's group is a live one; it keeps it if the group stays and keeps its members.
LEMMA GroupStays ==
    ASSUME NEW w, NEW W, HasGroup(w), Tears(W), w \in Worker \ W,
           \A g \in LiveGroups : look[w].index = Grp(g) =>
               g \in LiveGroups' /\ groups'[g].mbrs = groups[g].mbrs
    PROVE  HasGroup(w)'
<1>1. look'[w] = look[w]
    BY DEF Tears
<1>2. PICK g \in LiveGroups : look[w].index = Grp(g) /\ groups[g].mbrs # {}
    BY DEF HasGroup
<1> QED  BY <1>1, <1>2 DEF HasGroup, Grp

\* A step that leaves the lookups alone, and what they read.
LEMMA LooksSame ==
    ASSUME LookInv, UNCHANGED <<look, mbrHandles>>, LiveGroups' = LiveGroups,
           \A g \in LiveGroups : groups'[g].mbrs = groups[g].mbrs
    PROVE  LookInv'
<1>1. \A w \in Worker : HasGroup(w) => HasGroup(w)'
    BY DEF HasGroup, Grp
<1> QED  BY <1>1 DEF LookInv, Fresh

\* Calls on the profile tear only lookups that are under way.
LEMMA TornByProfile ==
    ASSUME ProfileCall
    PROVE  \E W : (\A w \in W : look[w] # Idle) /\ (Tears(W) \/ look' = look)
<1>1. \A pc \in {"size", "nth", "check", "act", "torn"} : \A w \in About(pc) : look[w] # Idle
    BY AboutIsBusy
<1>2. ASSUME AddMember PROVE \E W : (\A w \in W : look[w] # Idle) /\ Tears(W)
    BY <1>1, <1>2 DEF AddMember
<1>3. ASSUME CreateGroup PROVE \E W : (\A w \in W : look[w] # Idle) /\ Tears(W)
    BY <1>1, <1>3 DEF CreateGroup
<1>4. ASSUME NEW m, ModifyMember(m) \/ DeleteMember(m) PROVE \E W : (\A w \in W : look[w] # Idle) /\ Tears(W)
    BY <1>1, <1>4 DEF ModifyMember, DeleteMember
<1>5. ASSUME NEW g, DeleteGroup(g) PROVE \E W : (\A w \in W : look[w] # Idle) /\ (Tears(W) \/ look' = look)
    BY <1>1, <1>5 DEF DeleteGroup
<1>6. ASSUME NEW m, NEW g, AddMemberToGroup(m, g) \/ RemoveMemberFromGroup(m, g)
      PROVE  \E W : (\A w \in W : look[w] # Idle) /\ Tears(W)
    BY <1>1, <1>6 DEF AddMemberToGroup, RemoveMemberFromGroup, ReadersOf
<1> QED  BY <1>2, <1>3, <1>4, <1>5, <1>6 DEF ProfileCall

\* delete_group: a group that some packet has chosen is not deleted, unless it is a default.
LEMMA DeletedNotRead ==
    ASSUME Parts, LookInv, HoldInv, ~ Harmed', NEW g \in DOMAIN groups, DeleteGroup(g),
           UNCHANGED default, NEW w \in Worker, look[w] # Idle
    PROVE  look[w].index # Grp(g)
<1> USE DEF Parts
<1> SUFFICES ASSUME look[w].index = Grp(g) PROVE FALSE
    OBVIOUS
<1>1. PICK t \in Table : t = look[w].table
    BY DEF LookInv, Looking
<1>2. /\ groups[g].count = 0 /\ g \in grpHandles
      /\ upset' = upset \union Upset(Pending(Grp(g)), "race") \union Upset(IsDefault(Grp(g)), "default")
    BY DEF DeleteGroup
<1>3. g \in LiveGroups /\ Grp(g) \in Index /\ Grp(g).kind = "grp" /\ Grp(g).h = g
    BY <1>2, IndexFacts DEF LiveGroups, ProfileTypes
<1>4. Held(Grp(g)) = {}
    BY <1>2, <1>3, Unused DEF Live, Count
<1>5. default[t] # Grp(g)
    BY <1>2 DEF Harmed, Upset, IsDefault
<1>6. PICK k \in DOMAIN entries[t] : entries[t][k] = Grp(g)
    BY <1>1, <1>5 DEF HoldInv, Holds
<1>7. ~ Released(t, k)
    BY <1>1 DEF HoldInv, Holds, Released, Locked
<1>8. <<t, k>> \in Held(Grp(g))
    BY <1>6, <1>7, EntryIsHeld
<1> QED  BY <1>4, <1>8

\* A call of the profile tears the lookups that would notice it.
LEMMA ProfileKeepsLooks ==
    ASSUME Parts, LookInv, HoldInv, ProfileCall, ~ Harmed'
    PROVE  LookInv'
<1> USE DEF Parts
<1>1. ASSUME NEW W \in SUBSET Worker, \A w \in W : look[w] # Idle, Tears(W),
             \A w \in Worker \ W : look[w].pc = "check" => look[w].n \in mbrHandles',
             \A w \in Worker \ W, g \in LiveGroups :
                 look[w].pc \in {"size", "nth"} /\ look[w].index = Grp(g) =>
                     g \in LiveGroups' /\ groups'[g].mbrs = groups[g].mbrs
      PROVE  LookInv'
    <2>1. ASSUME NEW w \in Worker \ W, look[w].pc \in {"size", "nth"} PROVE HasGroup(w)'
        <3>1. HasGroup(w)
            BY <2>1 DEF LookInv, Fresh
        <3> QED  BY <3>1, <2>1, <1>1, GroupStays
    <2> QED  BY <1>1, <2>1, TearsKeeps
<1>2. ASSUME AddMember PROVE LookInv'
    <2>1. PICK m : /\ mbrHandles' = mbrHandles \union {m} /\ UNCHANGED <<grpHandles, groups>>
                   /\ Tears(About("check") \union {w \in About("act") : m \notin DOMAIN mbrCount \/ look[w].n = m})
        BY <1>2 DEF AddMember
    <2>2. LiveGroups' = LiveGroups
        BY <2>1 DEF LiveGroups
    <2>3. \A w \in Worker : look[w].pc = "check" => look[w].n \in mbrHandles'
        BY <2>1 DEF LookInv, Fresh
    <2> QED  BY <1>1, <2>1, <2>2, <2>3, AboutIsBusy
<1>3. ASSUME NEW m, ModifyMember(m) PROVE LookInv'
    <2>1. /\ UNCHANGED <<mbrHandles, grpHandles, groups>>
          /\ Tears({w \in About("act") : look[w].n = m})
        BY <1>3 DEF ModifyMember, profile, handles
    <2>2. LiveGroups' = LiveGroups
        BY <2>1 DEF LiveGroups
    <2>3. \A w \in Worker : look[w].pc = "check" => look[w].n \in mbrHandles'
        BY <2>1 DEF LookInv, Fresh
    <2> QED  BY <1>1, <2>1, <2>2, <2>3, AboutIsBusy
<1>4. ASSUME NEW m, DeleteMember(m) PROVE LookInv'
    <2>1. UNCHANGED <<grpHandles, groups>> /\ Tears(About("check"))
        BY <1>4 DEF DeleteMember
    <2>2. LiveGroups' = LiveGroups
        BY <2>1 DEF LiveGroups
    <2>3. \A w \in Worker \ About("check") : look[w].pc # "check"
        BY DEF About
    <2>4. About("check") \in SUBSET Worker
        BY DEF About
    <2> QED  BY <1>1, <2>1, <2>2, <2>3, <2>4, AboutIsBusy
<1>5. ASSUME CreateGroup PROVE LookInv'
    <2>1. PICK g : /\ grpHandles' = grpHandles \union {g} /\ UNCHANGED mbrHandles
                   /\ groups' = groups \/ groups' = With(groups, g, [count |-> 0, mbrs |-> {}])
                   /\ g = FirstFree(grpHandles)
                   /\ Tears(About("size") \union {w \in About("nth") : g \notin DOMAIN groups \/ look[w].index = Grp(g)})
        BY <1>5 DEF CreateGroup
    <2>2. g \notin grpHandles
        BY <2>1, FirstFreeIsFree, ActionProfileAssumption DEF ProfileTypes
    <2>3. \A h \in LiveGroups : h \in LiveGroups' /\ groups'[h] = groups[h]
        BY <2>1, <2>2 DEF LiveGroups, With
    <2>4. \A w \in Worker : look[w].pc = "check" => look[w].n \in mbrHandles'
        BY <2>1 DEF LookInv, Fresh
    <2>5. About("size") \union {w \in About("nth") : g \notin DOMAIN groups \/ look[w].index = Grp(g)} \in SUBSET Worker
        BY DEF About
    <2> QED  BY <1>1, <2>1, <2>3, <2>4, <2>5, AboutIsBusy
<1>6. ASSUME NEW g, DeleteGroup(g) PROVE LookInv'
    <2>1. CASE g \notin DOMAIN groups
        <3>1. UNCHANGED <<look, mbrHandles, grpHandles, groups>>
            BY <1>6, <2>1 DEF DeleteGroup, profile, handles
        <3>2. LiveGroups' = LiveGroups
            BY <3>1 DEF LiveGroups
        <3> QED  BY <3>1, <3>2, LooksSame
    <2>2. CASE g \in DOMAIN groups
        <3>1. /\ UNCHANGED <<mbrHandles, groups>> /\ Tears(About("size")) /\ grpHandles' = grpHandles \ {g}
              /\ groups[g].count = 0 /\ g \in grpHandles
            BY <1>6, <2>2 DEF DeleteGroup
        <3>2. \A w \in Worker : look[w].pc = "nth" => look[w].index # Grp(g)
            BY <1>6, <2>2, DeletedNotRead DEF ProfileCall, Idle
        <3>3. \A h \in LiveGroups \ {g} : h \in LiveGroups' /\ groups'[h] = groups[h]
            BY <3>1 DEF LiveGroups
        <3>4. \A w \in Worker : look[w].pc = "check" => look[w].n \in mbrHandles'
            BY <3>1 DEF LookInv, Fresh
        <3>5. \A w \in Worker \ About("size") : look[w].pc # "size"
            BY DEF About
        <3>6. About("size") \in SUBSET Worker
            BY DEF About
        <3> QED  BY <1>1, <3>1, <3>2, <3>3, <3>4, <3>5, <3>6, AboutIsBusy
    <2> QED  BY <2>1, <2>2
<1>7. ASSUME NEW m \in mbrHandles, NEW g \in grpHandles, AddMemberToGroup(m, g) \/ RemoveMemberFromGroup(m, g) PROVE LookInv'
    <2>1. /\ UNCHANGED <<mbrHandles, grpHandles>> /\ Tears(ReadersOf(g)) /\ g \in DOMAIN groups
          /\ \E mbrs : groups' = [groups EXCEPT ![g].mbrs = mbrs]
        BY <1>7 DEF AddMemberToGroup, RemoveMemberFromGroup, handles
    <2>2. LiveGroups' = LiveGroups /\ \A h \in LiveGroups \ {g} : groups'[h] = groups[h]
        BY <2>1 DEF LiveGroups
    <2>3. \A w \in Worker : look[w].pc = "check" => look[w].n \in mbrHandles'
        BY <2>1 DEF LookInv, Fresh
    <2>4. \A w \in Worker \ ReadersOf(g) : look[w].pc \in {"size", "nth"} => look[w].index # Grp(g)
        BY DEF ReadersOf, About
    <2>5. ReadersOf(g) \in SUBSET Worker /\ \A w \in ReadersOf(g) : look[w] # Idle
        BY AboutIsBusy DEF ReadersOf
    <2> QED  BY <1>1, <2>1, <2>2, <2>3, <2>4, <2>5
<1> QED  BY <1>2, <1>3, <1>4, <1>5, <1>6, <1>7 DEF ProfileCall

\* Calls on a table leave the members and the members of the groups alone.
LEMMA TableStepKeepsLooks ==
    ASSUME Parts, LookInv, ~ Harmed',
           TableCall \/ \E c \in Control : IncLoad(c) \/ IncStore(c) \/ DecStore(c) \/ CheckNew(c)
    PROVE  LookInv'
<1> DEFINE Kept == /\ UNCHANGED <<look, mbrHandles, grpHandles>>
                   /\ groups' = groups \/ \E ix, n : groups' = [groups EXCEPT ![ix.h].count = n]
<1>1. ASSUME UNCHANGED <<look, profile>> PROVE Kept
    BY <1>1 DEF profile, handles
<1>2. ASSUME TableCall PROVE UNCHANGED <<look, profile>>
    BY <1>2 DEF TableCall, DeleteEntry, AddEntry, ModifyEntry, Release, Begin, SetDefault
<1>3. ASSUME NEW c \in Control, IncLoad(c) \/ CheckNew(c) PROVE UNCHANGED <<look, profile>>
    BY <1>3 DEF IncLoad, CheckNew
<1>4. ASSUME NEW c \in Control, NEW d, Store(c, d), UNCHANGED look PROVE Kept
    BY <1>4 DEF Store, SetCount, handles
<1>5. Kept
    BY <1>1, <1>2, <1>3, <1>4 DEF IncStore, DecStore
<1>6. DOMAIN groups' = DOMAIN groups /\ \A g \in DOMAIN groups : groups'[g].mbrs = groups[g].mbrs
    <2>1. \A g \in DOMAIN groups : groups[g] \in [count : Int, mbrs : SUBSET Int]
        BY GroupTypes DEF Parts
    <2> QED  BY <1>5, <2>1
<1> QED  BY <1>5, <1>6, LooksSame DEF LiveGroups

\* The steps of a lookup: nothing it finds wrong was right when it started.
LEMMA LookupKeepsLooks ==
    ASSUME Parts, LookInv, ~ Harmed, NEW w \in Worker, Lookup(w), ~ dead
    PROVE  LookInv' /\ (dead' => Torn')
<1> USE DEF Parts
<1>1. UNCHANGED <<mbrHandles, grpHandles, groups>>
    BY DEF Lookup, LookupIndex, LookupSize, LookupNth, LookupCheck, LookupDone, packetUnchanged, profile, handles
<1>2. LiveGroups' = LiveGroups
    BY <1>1 DEF LiveGroups
<1>3. ASSUME NEW new \in Looking \union {Idle}, look' = [look EXCEPT ![w] = new],
             new.pc \in {"size", "nth"} => \E g \in LiveGroups : new.index = Grp(g) /\ groups[g].mbrs # {},
             new.pc = "check" => new.n \in mbrHandles
      PROVE  LookInv'
    <2>1. look' \in [Worker -> Looking \union {Idle}]
        BY <1>3 DEF LookInv
    <2>2. look'[w] = new /\ \A v \in Worker \ {w} : look'[v] = look[v]
        BY <1>3 DEF LookInv
    <2>3. Fresh(w)'
        <3>1. look'[w].pc \in {"size", "nth"} => HasGroup(w)'
            BY <1>1, <1>2, <1>3, <2>2 DEF HasGroup, Grp
        <3>2. look'[w].pc = "check" => look'[w].n \in mbrHandles'
            BY <1>1, <1>3, <2>2
        <3> QED  BY <3>1, <3>2 DEF Fresh
    <2>4. ASSUME NEW v \in Worker \ {w} PROVE Fresh(v)'
        BY <1>1, <1>2, <2>2 DEF LookInv, Fresh, HasGroup, Grp
    <2> QED  BY <2>1, <2>3, <2>4 DEF LookInv
<1>4. ASSUME NEW pc \in {"nth", "check", "act"}, NEW n \in Int, look[w] \in Looking, Goes(w, pc, n),
             pc = "nth" => HasGroup(w), pc = "check" => n \in mbrHandles
      PROVE  LookInv' /\ dead' = dead
    <2>1. PICK new : new = [look[w] EXCEPT !.pc = pc, !.n = n]
        OBVIOUS
    <2>2. new \in Looking /\ new.pc = pc /\ new.n = n /\ new.index = look[w].index
        BY <1>4, <2>1 DEF Looking
    <2>3. look' = [look EXCEPT ![w] = new] /\ dead' = dead
        BY <1>4, <2>1 DEF Goes
    <2>4. new.pc \in {"size", "nth"} => \E g \in LiveGroups : new.index = Grp(g) /\ groups[g].mbrs # {}
        BY <1>4, <2>2 DEF HasGroup
    <2> QED  BY <1>3, <1>4, <2>2, <2>3, <2>4
<1>5. ASSUME look[w].pc # "idle" PROVE look[w] \in Looking
    BY <1>5 DEF LookInv, Idle
<1>6. ASSUME NEW t \in Table, NEW k \in Key, LookupIndex(w, t, k) PROVE LookInv' /\ dead' = dead
    <2>1. PICK ix : ix = Chosen(t, k)
        OBVIOUS
    <2>2. ix \in Index /\ Live(ix) /\ NotEmpty(ix)
        BY <1>6, <2>1, ChosenIsLive DEF LookupIndex
    <2>3. PICK new : new = [pc |-> IF ix.kind = "mbr" THEN "check" ELSE "size", table |-> t, index |-> ix, n |-> ix.h]
        OBVIOUS
    <2>4. look' = [look EXCEPT ![w] = new] /\ dead' = dead
        BY <1>6, <2>1, <2>3 DEF LookupIndex
    <2>5. ix.h \in Int
        <3>1. \A m \in 0..MaxMbr - 1 : m \in Int
            BY ActionProfileAssumption
        <3> QED  BY <2>2, IndexFacts DEF Index, Mbr, Grp
    <2>6. new \in Looking
        BY <2>2, <2>3, <2>5 DEF Looking
    <2>7. CASE ix.kind = "mbr"
        <3>1. new.pc = "check" /\ new.n \in mbrHandles
            BY <2>2, <2>3, <2>7 DEF Live
        <3> QED  BY <1>3, <2>4, <2>6, <3>1
    <2>8. CASE ix.kind = "grp"
        <3>1. new.pc = "size" /\ new.index = Grp(ix.h) /\ ix.h \in LiveGroups /\ groups[ix.h].mbrs # {}
            BY <2>2, <2>3, <2>8, IndexFacts DEF Live, NotEmpty
        <3> QED  BY <1>3, <2>4, <2>6, <3>1
    <2> QED  BY <2>2, <2>7, <2>8, IndexFacts
<1>7. ASSUME LookupSize(w) PROVE LookInv' /\ dead' = dead
    <2>1. look[w].pc = "size" /\ HasGroup(w) /\ look[w] \in Looking
        BY <1>5, <1>7 DEF LookupSize, LookInv, Fresh
    <2>2. Valid(look[w].index) /\ HasMember(look[w].index)
        BY <2>1, IndexFacts DEF HasGroup, Valid, HasMember, IsEmpty, LiveGroups
    <2>3. Goes(w, "nth", look[w].n) /\ look[w].n \in Int
        BY <1>7, <2>1, <2>2 DEF LookupSize, Looking
    <2> QED  BY <1>4, <2>1, <2>3
<1>8. ASSUME LookupNth(w) PROVE LookInv' /\ dead' = dead
    <2>1. look[w].pc = "nth" /\ HasGroup(w) /\ look[w] \in Looking
        BY <1>5, <1>8 DEF LookupNth, LookInv, Fresh
    <2>2. PICK m \in groups[look[w].index.h].mbrs : Goes(w, "check", m)
        BY <1>8 DEF LookupNth
    <2>3. PICK g \in LiveGroups : look[w].index = Grp(g)
        BY <2>1 DEF HasGroup
    <2>4. look[w].index.h = g
        BY <2>3, IndexFacts
    <2>5. m \in mbrHandles
        BY <2>2, <2>4 DEF ProfileTypes
    <2>6. m \in Int
        BY <2>5, ActionProfileAssumption DEF ProfileTypes
    <2> QED  BY <1>4, <2>1, <2>2, <2>5, <2>6
<1>9. ASSUME LookupCheck(w) PROVE LookInv' /\ dead' = dead
    <2>1. look[w].pc = "check" /\ look[w].n \in mbrHandles /\ look[w] \in Looking
        BY <1>5, <1>9 DEF LookupCheck, LookInv, Fresh
    <2>2. Goes(w, "act", look[w].n) /\ look[w].n \in Int
        BY <1>9, <2>1 DEF LookupCheck, Looking
    <2> QED  BY <1>4, <2>1, <2>2
<1>10. ASSUME LookupDone(w) PROVE LookInv' /\ (dead' => Torn')
    <2>1. CASE look' = [look EXCEPT ![w] = Idle] /\ dead' = dead
        <3>1. Idle.pc \notin {"size", "nth", "check"}
            BY DEF Idle
        <3> QED  BY <1>3, <2>1, <3>1
    <2>2. CASE look[w].pc = "torn" /\ Fails
        <3>1. look' = look /\ w \in About("torn")
            BY <2>2 DEF Fails, About
        <3>2. Torn'
            BY <3>1 DEF Torn, About
        <3> QED  BY <1>1, <1>2, <3>1, <3>2, LooksSame
    <2> QED  BY <1>10, <2>1, <2>2 DEF LookupDone
<1> QED  BY <1>6, <1>7, <1>8, <1>9, <1>10 DEF Lookup

-----------------------------------------------------------------------------
\* All steps.

\* What went wrong stays on record.
LEMMA UpsetGrows ==
    ASSUME [Next]_vars
    PROVE  upset \subseteq upset'
<1>1. ASSUME ProfileCall PROVE upset \subseteq upset'
    <2>1. ASSUME AddMember PROVE upset \subseteq upset'
        BY <2>1 DEF AddMember
    <2>2. ASSUME CreateGroup PROVE upset \subseteq upset'
        BY <2>2 DEF CreateGroup
    <2>3. ASSUME NEW m, DeleteMember(m) PROVE upset \subseteq upset'
        BY <2>3 DEF DeleteMember
    <2>4. ASSUME NEW g, DeleteGroup(g) PROVE upset \subseteq upset'
        BY <2>4 DEF DeleteGroup, profile
    <2>5. ASSUME NEW m, NEW g, AddMemberToGroup(m, g) PROVE upset \subseteq upset'
        BY <2>5 DEF AddMemberToGroup
    <2>6. ASSUME NEW m, NEW g, RemoveMemberFromGroup(m, g) PROVE upset \subseteq upset'
        BY <2>6 DEF RemoveMemberFromGroup
    <2>7. ASSUME NEW m, ModifyMember(m) PROVE upset \subseteq upset'
        BY <2>7 DEF ModifyMember
    <2> QED  BY <1>1, <2>1, <2>2, <2>3, <2>4, <2>5, <2>6, <2>7 DEF ProfileCall
<1>2. ASSUME TableCall PROVE upset \subseteq upset'
    BY <1>2 DEF TableCall, DeleteEntry, AddEntry, ModifyEntry, Release, Begin, SetDefault
<1>3. ASSUME ResetState PROVE upset \subseteq upset'
    BY <1>3 DEF ResetState
<1>4. ASSUME NEW c, IncLoad(c) \/ IncStore(c) \/ DecStore(c) \/ CheckNew(c) PROVE upset \subseteq upset'
    BY <1>4 DEF IncLoad, IncStore, DecStore, CheckNew
<1>5. ASSUME NEW w, Lookup(w) PROVE upset \subseteq upset'
    BY <1>5 DEF Lookup, LookupIndex, LookupSize, LookupNth, LookupCheck, LookupDone, packetUnchanged
<1>6. ASSUME UNCHANGED vars PROVE upset \subseteq upset'
    BY <1>6 DEF vars
<1> QED  BY <1>1, <1>2, <1>3, <1>4, <1>5, <1>6 DEF Next

\* The same of the next state.
LEMMA EmptyIsGoodNext == Empty' => Parts'
BY EmptyIsGood, PTL

\* reset_state.
LEMMA ResetKeeps ==
    ASSUME Parts, ResetState
    PROVE  Parts'
<1>1. /\ \A c \in Control : op[c] = Idle
      /\ op' = op /\ default' = default /\ grpHandles' = grpHandles
      /\ entries' = [t \in Table |-> <<>>]
      /\ mbrHandles' = {} /\ mbrCount' = <<>> /\ groups' = <<>>
      /\ upset' = upset \union Upset(grpHandles # {} \/ \E t \in Table : default[t] # None, "reset")
    BY DEF ResetState
<1>2. "reset" \notin upset' => grpHandles = {} /\ \A t \in Table : default[t] = None
    BY <1>1 DEF Upset
<1>3. Empty'
    BY <1>1, <1>2 DEF Empty, Parts, ProfileTypes, TableTypes
<1> QED  BY <1>3, EmptyIsGoodNext

\* Every call on a table keeps the invariant.
LEMMA TableKeeps ==
    ASSUME Parts, Good', TableCall
    PROVE  Parts'
<1>1. ASSUME NEW c \in Control, NEW t \in Table, NEW k \in Key, DeleteEntry(c, t, k) PROVE Parts'
    <2>1. "delete" \in {"delete", "modify"} /\ None \in Index \union {None} /\ "delete" # "modify"
        OBVIOUS
    <2> QED  BY <1>1, <2>1, ReleaseKeeps DEF DeleteEntry
<1>2. ASSUME NEW c \in Control, NEW t \in Table, NEW k \in Key, NEW ix \in Index, AddEntry(c, t, k, ix)
      PROVE  Parts'
    BY <1>2, AddEntryKeeps
<1>3. ASSUME NEW c \in Control, NEW t \in Table, NEW k \in Key, NEW ix \in Index, ModifyEntry(c, t, k, ix)
      PROVE  Parts'
    <2>1. "modify" \in {"delete", "modify"} /\ ix \in Index \union {None}
        OBVIOUS
    <2> QED  BY <1>3, <2>1, ReleaseKeeps DEF ModifyEntry
<1>4. ASSUME NEW t \in Table, NEW ix \in Index, SetDefault(t, ix) PROVE Parts'
    BY <1>4, SetDefaultKeeps
<1> QED  BY <1>1, <1>2, <1>3, <1>4 DEF TableCall

\* The initial state.
LEMMA InitIsGood == Init => Parts
<1> SUFFICES ASSUME Init PROVE Parts
    OBVIOUS
<1>1. Empty
    BY DEF Init, Empty
<1> QED  BY <1>1, EmptyIsGood

\* Every step keeps the invariant; only a lookup or a harmful call ends the program.
LEMMA StepKeeps ==
    ASSUME Parts, Good', [Next]_vars
    PROVE  Parts' /\ (dead' => dead \/ Harmed' \/ \E w \in Worker : Lookup(w))
<1>1. ASSUME ProfileCall PROVE Parts' /\ (dead' => dead \/ Harmed')
    BY <1>1, ProfileKeeps DEF Harmed
<1>2. ASSUME TableCall PROVE Parts' /\ dead' = dead
    <2>1. dead' = dead
        BY <1>2 DEF TableCall, DeleteEntry, AddEntry, ModifyEntry, Release, Begin, SetDefault
    <2> QED  BY <1>2, <2>1, TableKeeps
<1>3. ASSUME ResetState PROVE Parts' /\ dead' = dead
    BY <1>3, ResetKeeps DEF ResetState
<1>4. ASSUME NEW c \in Control, IncLoad(c) PROVE Parts' /\ dead' = dead
    BY <1>4, IncLoadKeeps DEF IncLoad
<1>5. ASSUME NEW c \in Control, IncStore(c) PROVE Parts' /\ dead' = dead
    <2>1. Parts'
        BY <1>5, RefusedAddKeeps, TakenKeeps
    <2> QED  BY <1>5, <2>1 DEF IncStore
<1>6. ASSUME NEW c \in Control, DecStore(c) PROVE Parts' /\ dead' = dead
    <2>1. Parts'
        BY <1>6, DeletedKeeps, ModifyReleasesKeeps
    <2> QED  BY <1>6, <2>1 DEF DecStore
<1>7. ASSUME NEW c \in Control, CheckNew(c) PROVE Parts' /\ dead' = dead
    BY <1>7, CheckNewKeeps DEF CheckNew
<1>8. ASSUME NEW w \in Worker, Lookup(w) PROVE Parts'
    <2>1. UNCHANGED <<profile, entries, default, op, upset>>
        BY <1>8 DEF Lookup, LookupIndex, LookupSize, LookupNth, LookupCheck, LookupDone, packetUnchanged
    <2> QED  BY <2>1, NothingMoves
<1>9. ASSUME UNCHANGED vars PROVE Parts' /\ dead' = dead
    <2>1. UNCHANGED <<profile, entries, default, op, upset>> /\ dead' = dead
        BY <1>9 DEF vars
    <2> QED  BY <2>1, NothingMoves
<1> QED  BY <1>1, <1>2, <1>3, <1>4, <1>5, <1>6, <1>7, <1>8, <1>9 DEF Next

-----------------------------------------------------------------------------
\* The theorems.

\* As long as no reference was lost, the counts are those of the holders.
THEOREM ProfileInvariant == Spec => []APInv
<1>1. Init => APInv
    BY InitIsGood DEF APInv
<1>2. APInv /\ [Next]_vars => APInv'
    <2> SUFFICES ASSUME APInv, [Next]_vars, Good' PROVE Parts'
        BY DEF APInv
    <2>1. Good
        BY UpsetGrows DEF Good
    <2> QED  BY <2>1, StepKeeps DEF APInv
<1> QED  BY <1>1, <1>2, PTL DEF Spec

\* Between two calls the count of a live member or group is the number of its
\* holders, and not below it after an add that failed (ref_count_increase and
\* ref_count_decrease in match_tables.cpp and action_profile.cpp).
THEOREM CountsAreExact == Spec => []CountsExact
<1>1. APInv => CountsExact
    <2> SUFFICES ASSUME Parts, AtRest, NEW ix \in {Mbr(m) : m \in mbrHandles} \union {Grp(g) : g \in LiveGroups}
                 PROVE  /\ Count(ix) >= References(ix)
                        /\ "failedAdd" \notin upset => Count(ix) = References(ix)
        BY DEF APInv, Good, CountsExact
    <2>1. ix \in Index /\ Live(ix)
        BY IndexFacts DEF Live, Parts, ProfileTypes, LiveGroups
    <2>2. Held(ix) = Users(ix)
        BY DEF Held, Released, AtRest
    <2>3. References(ix) = Cardinality(Held(ix)) + Cardinality(GroupsOf(ix))
        BY <2>2, FS_EmptySet DEF References, GroupsOf
    <2>4. /\ Count(ix) >= Cardinality(Held(ix)) + Cardinality(GroupsOf(ix))
          /\ "failedAdd" \notin upset => Count(ix) = Cardinality(Held(ix)) + Cardinality(GroupsOf(ix))
        BY <2>1, CountBounds DEF Parts, CountInv, Exact
    <2> QED  BY <2>3, <2>4
<1> QED  BY <1>1, ProfileInvariant, PTL

\* delete_member and delete_group never delete what an entry a packet can read,
\* or a group, refers to.
THEOREM NoReferenceDangles == Spec => []NothingDangles
<1>1. APInv => NothingDangles
    <2> SUFFICES ASSUME Parts
                 PROVE  /\ \A t \in Table : Locked(t) \/ \A k \in DOMAIN entries[t] : Valid(entries[t][k])
                        /\ \A g \in LiveGroups : groups[g].mbrs \subseteq mbrHandles
        BY DEF APInv, Good, NothingDangles
    <2>1. ASSUME NEW t \in Table, ~ Locked(t), NEW k \in DOMAIN entries[t] PROVE Valid(entries[t][k])
        <3>1. ~ Released(t, k)
            BY <2>1 DEF Released, Locked
        <3>2. Live(entries[t][k])
            BY <3>1, EntryIsHeld
        <3> QED  BY <3>2 DEF Live, Valid, LiveGroups
    <2> QED  BY <2>1 DEF Parts, ProfileTypes
<1> QED  BY <1>1, ProfileInvariant, PTL

\* The lock of a table keeps the choice of the packets in it, whatever the calls.
LEMMA HoldKeeps ==
    ASSUME Parts, Parts', LookInv, LookInv', HoldInv, [Next]_vars
    PROVE  HoldInv'
<1>1. ASSUME UNCHANGED <<entries, default, op>>,
             \A w \in Worker : look'[w] # Idle => /\ look[w] # Idle
                                                 /\ look'[w].table = look[w].table /\ look'[w].index = look[w].index
      PROVE  HoldInv'
    BY <1>1 DEF HoldInv, Holds, Locked
<1>2. ASSUME ProfileCall PROVE HoldInv'
    <2>1. PICK W : /\ \A w \in W : look[w] # Idle
                   /\ Tears(W) \/ look' = look
        BY <1>2, TornByProfile
    <2>2. ASSUME NEW w \in Worker, look'[w] # Idle
          PROVE  look[w] # Idle /\ look'[w].table = look[w].table /\ look'[w].index = look[w].index
        <3>1. CASE look'[w] = look[w]
            BY <2>2, <3>1
        <3>2. CASE look'[w] # look[w]
            <4>1. w \in W /\ look'[w] = [look[w] EXCEPT !.pc = "torn"]
                BY <2>1, <3>2 DEF Tears
            <4>2. look[w] \in Looking
                BY <2>1, <4>1 DEF LookInv
            <4> QED  BY <2>1, <4>1, <4>2 DEF Looking
        <3> QED  BY <3>1, <3>2
    <2> QED  BY <1>1, <1>2, <2>2 DEF ProfileCall
<1>3. ASSUME NEW w \in Worker, Lookup(w) PROVE HoldInv'
    <2>1. UNCHANGED <<entries, default, op>>
        BY <1>3 DEF Lookup, LookupIndex, LookupSize, LookupNth, LookupCheck, LookupDone, packetUnchanged
    <2>2. CASE \E t \in Table, k \in Key : LookupIndex(w, t, k)
        <3>1. PICK t \in Table, k \in Key : LookupIndex(w, t, k)
            BY <2>2
        <3>2. look'[w].table = t /\ look'[w].index = Chosen(t, k) /\ \A v \in Worker \ {w} : look'[v] = look[v]
            BY <3>1 DEF LookupIndex, LookInv
        <3>3. Holds(w)'
            BY <3>1, <3>2, <2>1 DEF Holds, LookupIndex, Chosen, Locked
        <3>4. \A v \in Worker \ {w} : Holds(v)'
            BY <3>2, <2>1 DEF HoldInv, Holds, Locked
        <3> QED  BY <3>3, <3>4 DEF HoldInv
    <2>3. CASE look' = look \/ look' = [look EXCEPT ![w] = Idle]
        BY <1>1, <2>1, <2>3 DEF LookInv
    <2>4. ASSUME NEW pc, NEW n, look[w].pc # "idle", Goes(w, pc, n) PROVE HoldInv'
        <3>1. look[w] \in Looking
            BY <2>4 DEF LookInv, Idle
        <3>2. /\ look'[w] = [look[w] EXCEPT !.pc = pc, !.n = n]
              /\ \A v \in Worker \ {w} : look'[v] = look[v]
            BY <2>4 DEF Goes, LookInv
        <3>3. look'[w].table = look[w].table /\ look'[w].index = look[w].index /\ look[w] # Idle
            BY <2>4, <3>1, <3>2 DEF Looking, Idle
        <3> QED  BY <1>1, <2>1, <3>2, <3>3
    <2> QED  BY <1>3, <2>2, <2>3, <2>4 DEF Lookup, LookupSize, LookupNth, LookupCheck, LookupDone, Fails
<1>4. ASSUME look' = look,
             \A w \in Worker : look[w] # Idle =>
                 LET t == look[w].table
                 IN  ~ Locked(t)' /\ entries'[t] = entries[t] /\ default'[t] = default[t]
      PROVE  HoldInv'
    BY <1>4 DEF HoldInv, Holds
<1>5. ASSUME NEW c \in Control, NEW rec, NEW t \in Table, rec.table = t, ~ Read(t), op' = [op EXCEPT ![c] = rec],
             UNCHANGED <<look, entries, default>>
      PROVE  HoldInv'
    <2>1. ASSUME NEW w \in Worker, look[w] # Idle PROVE ~ Locked(look[w].table)'
        <3>1. look[w].table # t /\ ~ Locked(look[w].table)
            BY <1>5, <2>1 DEF Read, HoldInv, Holds
        <3> QED  BY <1>5, <3>1 DEF Locked, Parts, TableTypes
    <2> QED  BY <1>4, <1>5, <2>1
<1>6. ASSUME TableCall PROVE HoldInv'
    <2>1. ASSUME NEW c \in Control, NEW pc, NEW call, NEW t \in Table, NEW k, NEW ix, NEW n, NEW new,
                 Begin(c, pc, call, t, k, ix, n, new)
          PROVE  HoldInv'
        <3>1. PICK rec : /\ rec.table = t /\ op' = [op EXCEPT ![c] = rec]
            BY <2>1 DEF Begin
        <3> QED  BY <1>5, <2>1, <3>1 DEF Begin
    <2>2. ASSUME NEW t \in Table, NEW ix \in Index, SetDefault(t, ix) PROVE HoldInv'
        <3>1. /\ ~ Read(t) /\ default' = [default EXCEPT ![t] = ix] /\ UNCHANGED <<look, entries, op>>
            BY <2>2 DEF SetDefault
        <3>2. \A w \in Worker : look[w] # Idle => look[w].table # t /\ ~ Locked(look[w].table)
            BY <3>1 DEF Read, HoldInv, Holds
        <3>3. \A u : Locked(u)' <=> Locked(u)
            BY <3>1 DEF Locked
        <3>4. \A u : u # t => default'[u] = default[u]
            BY <3>1
        <3> QED  BY <1>4, <3>1, <3>2, <3>3, <3>4
    <2> QED  BY <1>6, <2>1, <2>2 DEF TableCall, DeleteEntry, AddEntry, ModifyEntry, Release
<1>7. ASSUME ResetState PROVE HoldInv'
    <2>1. /\ op' = op /\ default' = default /\ \A c \in Control : op[c] = Idle
          /\ Tears({w \in Worker : look[w] # Idle})
          /\ \A w \in Worker : look[w] # Idle => look[w].index = default[look[w].table]
        BY <1>7 DEF ResetState
    <2>2. ASSUME NEW w \in Worker, look'[w] # Idle
          PROVE  look[w] # Idle /\ look'[w].table = look[w].table /\ look'[w].index = look[w].index
        <3>1. CASE look[w] = Idle
            BY <2>1, <2>2, <3>1 DEF Tears
        <3>2. CASE look[w] # Idle
            <4>1. look'[w] = [look[w] EXCEPT !.pc = "torn"] /\ look[w] \in Looking
                BY <2>1, <3>2 DEF Tears, LookInv
            <4> QED  BY <3>2, <4>1 DEF Looking
        <3> QED  BY <3>1, <3>2
    <2> QED  BY <2>1, <2>2 DEF HoldInv, Holds, Locked
<1>8. ASSUME NEW c \in Control, IncLoad(c) \/ IncStore(c) \/ DecStore(c) \/ CheckNew(c) PROVE HoldInv'
    <2>1. op[c] # Idle /\ op[c] \in Call
        BY <1>8 DEF IncLoad, IncStore, DecStore, CheckNew, Parts, TableTypes, Idle
    <2>2. PICK t \in Table : t = op[c].table
        BY <2>1 DEF Call
    <2>3. \A w \in Worker : look[w] # Idle => look[w].table # t /\ ~ Locked(look[w].table)
        BY <2>1, <2>2 DEF HoldInv, Holds, Locked
    <2>4. /\ look' = look /\ default' = default
          /\ entries' = entries \/ \E e : entries' = [entries EXCEPT ![t] = e]
        BY <1>8, <2>2 DEF IncLoad, IncStore, DecStore, CheckNew
    <2>5. \E o : op' = [op EXCEPT ![c] = o] /\ (o # Idle => o.table = t)
        <3>1. CASE op' = [op EXCEPT ![c] = Idle]
            BY <3>1
        <3>2. CASE \E pc, n : op' = [op EXCEPT ![c].pc = pc, ![c].read = n]
            <4>1. PICK pc, n : op' = [op EXCEPT ![c].pc = pc, ![c].read = n]
                BY <3>2
            <4>2. [op[c] EXCEPT !.pc = pc, !.read = n].table = t
                BY <2>1, <2>2 DEF Call
            <4> QED  BY <4>1, <4>2
        <3>3. CASE \E pc, ix : op' = [op EXCEPT ![c].pc = pc, ![c].index = ix]
            <4>1. PICK pc, ix : op' = [op EXCEPT ![c].pc = pc, ![c].index = ix]
                BY <3>3
            <4>2. [op[c] EXCEPT !.pc = pc, !.index = ix].table = t
                BY <2>1, <2>2 DEF Call
            <4> QED  BY <4>1, <4>2
        <3> QED  BY <1>8, <3>1, <3>2, <3>3 DEF IncLoad, IncStore, DecStore, CheckNew
    <2>6. \A u : u # t /\ ~ Locked(u) => ~ Locked(u)'
        <3>1. PICK o : op' = [op EXCEPT ![c] = o] /\ (o # Idle => o.table = t)
            BY <2>5
        <3> QED  BY <3>1 DEF Locked, Parts, TableTypes
    <2>7. \A u \in Table \ {t} : entries'[u] = entries[u]
        BY <2>4 DEF Parts, TableTypes
    <2>8. \A w \in Worker : look[w] # Idle => look[w].table \in Table
        BY DEF LookInv, Looking
    <2> QED  BY <1>4, <2>3, <2>4, <2>6, <2>7, <2>8
<1>9. ASSUME UNCHANGED vars PROVE HoldInv'
    BY <1>1, <1>9 DEF vars
<1> QED  BY <1>2, <1>3, <1>6, <1>7, <1>8, <1>9 DEF Next

\* As long as no call did harm, the lookups that were not torn will find what
\* they look for.
LInv == ~ Harmed => Parts /\ LookInv /\ HoldInv

\* Every step keeps them.
LEMMA LookStepKeeps ==
    ASSUME Parts, Parts', LookInv, HoldInv, ~ Harmed, ~ Harmed', [Next]_vars
    PROVE  LookInv' /\ HoldInv' /\ ((\E w \in Worker : Lookup(w)) /\ ~ dead /\ dead' => Torn')
<1>1. ASSUME ProfileCall PROVE LookInv'
    BY <1>1, ProfileKeepsLooks
<1>2. ASSUME TableCall \/ \E c \in Control : IncLoad(c) \/ IncStore(c) \/ DecStore(c) \/ CheckNew(c) PROVE LookInv'
    BY <1>2, TableStepKeepsLooks
<1>3. ASSUME ResetState PROVE LookInv'
    <2>1. \A t \in Table : default[t] = None
        BY <1>3 DEF ResetState, Harmed, Upset
    <2>2. \A w \in Worker : look[w] = Idle
        BY <1>3, <2>1, IndexFacts DEF ResetState, LookInv, Looking
    <2>3. Tears({w \in Worker : look[w] # Idle})
        BY <1>3 DEF ResetState
    <2>4. \A w \in Worker : look[w].pc \notin {"size", "nth", "check"}
        BY <2>2 DEF Idle
    <2> QED  BY <2>3, <2>4, TearsKeeps
<1>4. ASSUME NEW w \in Worker, Lookup(w), ~ dead PROVE LookInv' /\ (dead' => Torn')
    BY <1>4, LookupKeepsLooks DEF Lookup
<1>5. ASSUME UNCHANGED vars PROVE LookInv' /\ dead' = dead
    <2>1. UNCHANGED <<look, mbrHandles, grpHandles, groups, dead>>
        BY <1>5 DEF vars, profile, handles
    <2> QED  BY <2>1, LooksSame DEF LiveGroups
<1>6. LookInv'
    BY <1>1, <1>2, <1>3, <1>4, <1>5 DEF Next
<1> QED  BY <1>4, <1>6, HoldKeeps

\* A packet's lookup and the calls of the control plane hit no assertion, unless
\* one of the calls that are known to do harm came before, or a call on the
\* profile wrote what the lookup was about to read.
THEOREM LookupsSurvive == Spec => []LookupSurvives
<1> DEFINE Inv == APInv /\ LInv /\ LookupSurvives
<1>1. Init => Inv
    <2> SUFFICES ASSUME Init PROVE Inv
        OBVIOUS
    <2>1. Parts
        BY InitIsGood
    <2>2. \A w \in Worker : look[w] = Idle
        BY DEF Init
    <2>3. LookInv /\ HoldInv
        BY <2>2 DEF Init, LookInv, HoldInv, Fresh, Holds, Idle
    <2> QED  BY <2>1, <2>3 DEF Init, APInv, LInv, LookupSurvives
<1>2. Inv /\ [Next]_vars => Inv'
    <2> SUFFICES ASSUME Inv, [Next]_vars PROVE Inv'
        OBVIOUS
    <2>1. upset \subseteq upset'
        BY UpsetGrows
    <2>2. APInv'
        <3> SUFFICES ASSUME Good' PROVE Parts'
            BY DEF APInv
        <3> QED  BY <2>1, StepKeeps DEF APInv, Good
    <2>3. CASE Harmed'
        BY <2>2, <2>3 DEF LInv, LookupSurvives, Harmed
    <2>4. CASE ~ Harmed'
        <3>1. ~ Harmed /\ Good'
            BY <2>1, <2>4 DEF Harmed, Good
        <3>2. Parts /\ LookInv /\ HoldInv /\ Parts'
            BY <2>2, <3>1 DEF LInv, APInv
        <3>3. LookInv' /\ HoldInv' /\ ((\E w \in Worker : Lookup(w)) /\ ~ dead /\ dead' => Torn')
            BY <2>4, <3>1, <3>2, LookStepKeeps
        <3>4. dead' => dead \/ \E w \in Worker : Lookup(w)
            BY <2>4, <3>1, <3>2, StepKeeps
        <3>5. dead => Torn /\ UNCHANGED <<look, dead>>
            BY <3>1 DEF LookupSurvives, Harmed, Torn, Next, vars
        <3>6. dead' => Torn'
            <4>1. dead /\ Torn => Torn'
                BY <3>5 DEF Torn, About
            <4> QED  BY <3>3, <3>4, <3>5, <4>1
        <3>7. LookupSurvives'
            BY <3>6 DEF LookupSurvives, Torn
        <3> QED  BY <2>2, <3>2, <3>3, <3>7 DEF LInv
    <2> QED  BY <2>3, <2>4
<1>3. Inv => LookupSurvives
    OBVIOUS
<1> QED  BY <1>1, <1>2, <1>3, PTL DEF Spec
=============================================================================
