---------------------------- MODULE SwitchProofs ----------------------------
(***************************************************************************)
(* Proofs about SimpleSwitch and the destination ring its extern keeps,    *)
(* for any number of packets, ports, threads, slots and nodes, and any     *)
(* headers, routes and capacities.                                         *)
(*                                                                         *)
(* The ring first (CBuffer): its type, that the counter is the number of   *)
(* valid slots, that head is the oldest of them, that the search loop of   *)
(* push ends, that a push drops nothing but the oldest element, and that   *)
(* the ring, read from head, implements the list of FutureDestinations.    *)
(* The first three are proved together (CBInv): the counter is only right  *)
(* because a push that does not evict writes an invalid slot, which needs  *)
(* HeadIsOldest; head only stays valid because the search loop finds a     *)
(* slot, which needs CountMatches.                                         *)
(*                                                                         *)
(* Then the switch: the ring keeps its invariant under the switch's        *)
(* threads, packets of a port leave in order unless their queue gave them  *)
(* one send time, packets find their entries                               *)
(* and no entry outlives its packet's egress, requests list the            *)
(* destinations in the order of arrival, and the process does not die once *)
(* it has met its learner.                                                 *)
(***************************************************************************)
EXTENDS SwitchProperties, FiniteSetTheorems, TLAPS

-----------------------------------------------------------------------------
(* The ring: its inductive invariant.                                      *)

CBInv == CBTypeOK /\ CountMatches /\ HeadIsOldest

-----------------------------------------------------------------------------
(* The search loop.                                                        *)

(* A set of numbers that is not empty has a least one. *)
LEMMA LeastNumber ==
  ASSUME NEW T \in SUBSET Nat, T # {}
  PROVE  \E x \in T : \A y \in T : x <= y
<1> DEFINE Less == {ss \in Nat \X Nat : ss[1] < ss[2]}
<1>1. IsWellFoundedOn(Less, Nat)
  BY NatLessThanWellFounded, Zenon DEF OpToRel
<1>2. \E x \in T : \A y \in T : <<y, x>> \notin Less
  <2> HIDE DEF Less
  <2> QED  BY <1>1, WFMin, Zenon
<1>3. \A x, y \in Nat : <<y, x>> \notin Less => x <= y
  OBVIOUS
<1> QED  BY <1>2, <1>3

(* At most one turn around the ring needs no division. *)
LEMMA AfterValue ==
  ASSUME NEW pos \in Slots, NEW i \in 0 .. CBufferSize
  PROVE  After(pos, i) = IF pos + i < CBufferSize THEN pos + i ELSE pos + i - CBufferSize
  BY CBufferAssumption DEF After, Slots

(* If some slot is valid, the loop of push and pop stops, at the first     *)
(* valid slot after pos: no valid slot lies strictly between the two, in   *)
(* the sense of the ring.                                                  *)
LEMMA NextValidIsNext ==
  ASSUME NEW pos \in Slots, ValidSlots # {}
  PROVE  /\ NextValid(pos) \in ValidSlots
         /\ \A p \in ValidSlots :
              IF NextValid(pos) > pos THEN p <= pos \/ p >= NextValid(pos)
                                      ELSE p <= pos /\ p >= NextValid(pos)
<1> DEFINE T == {i \in 1 .. CBufferSize : IsValid(After(pos, i))}
           First(i) == /\ IsValid(After(pos, i))
                       /\ \A j \in 1 .. (i - 1) : ~ IsValid(After(pos, j))
           Steps(p) == IF p > pos THEN p - pos ELSE p - pos + CBufferSize
<1>1. \A p \in Slots : Steps(p) \in 1 .. CBufferSize /\ After(pos, Steps(p)) = p
  BY AfterValue, CBufferAssumption DEF Slots
<1>2. T # {}
  BY <1>1 DEF ValidSlots
<1>3. PICK m \in T : \A i \in T : m <= i
  <2>1. T \in SUBSET Nat
    BY CBufferAssumption
  <2> HIDE DEF T
  <2> QED  BY <2>1, <1>2, LeastNumber, Zenon
<1>4. First(m)
  <2>1. ASSUME NEW j \in 1 .. (m - 1), IsValid(After(pos, j))
        PROVE  FALSE
    BY <2>1, <1>3, CBufferAssumption
  <2> QED  BY <2>1
<1>5. PICK d \in 1 .. CBufferSize : First(d) /\ NextValid(pos) = After(pos, d)
  BY <1>3, <1>4 DEF NextValid
<1>6. NextValid(pos) = (IF pos + d < CBufferSize THEN pos + d ELSE pos + d - CBufferSize)
  BY <1>5, AfterValue, CBufferAssumption
<1>7. NextValid(pos) \in ValidSlots
  BY <1>5, <1>6, CBufferAssumption DEF ValidSlots, Slots
<1>8. ASSUME NEW p \in ValidSlots
      PROVE  Steps(p) >= d
  <2>1. p \in Slots /\ IsValid(p)
    BY DEF ValidSlots
  <2>2. Steps(p) \in 1 .. CBufferSize /\ IsValid(After(pos, Steps(p)))
    BY <2>1, <1>1
  <2> HIDE DEF Steps
  <2> QED  BY <2>2, <1>5, CBufferAssumption
<1>9. ASSUME NEW p \in ValidSlots
      PROVE  IF NextValid(pos) > pos THEN p <= pos \/ p >= NextValid(pos)
                                     ELSE p <= pos /\ p >= NextValid(pos)
  BY <1>6, <1>8, CBufferAssumption DEF ValidSlots, Slots
<1> QED  BY <1>7, <1>9

-----------------------------------------------------------------------------
(* The inductive invariant.                                                *)

(* There are CBufferSize slots, so sets of slots are finite. *)
LEMMA FiniteSlots ==
  /\ IsFiniteSet(Slots) /\ Cardinality(Slots) = CBufferSize
  /\ \A S \in SUBSET Slots : IsFiniteSet(S) /\ Cardinality(S) \in 0 .. CBufferSize
<1>1. IsFiniteSet(Slots) /\ Cardinality(Slots) = CBufferSize
  BY FS_Interval, CBufferAssumption DEF Slots
<1>2. ASSUME NEW S \in SUBSET Slots
      PROVE  IsFiniteSet(S) /\ Cardinality(S) \in 0 .. CBufferSize
  BY <1>1, FS_Subset, FS_CardinalityType, CBufferAssumption
<1> QED  BY <1>1, <1>2

-----------------------------------------------------------------------------
(* The walk.                                                               *)

(* How far round the ring a slot lies from head.                           *)
Age(pos) == IF pos >= head THEN pos - head ELSE pos - head + CBufferSize

(* What holds of 0 and of the successor of each number it holds of, up to  *)
(* n, holds up to n.                                                       *)
LEMMA UpTo ==
  ASSUME NEW n \in Nat, NEW T, 0 \in T, \A i \in 0 .. n - 1 : i \in T => i + 1 \in T
  PROVE  \A i \in 0 .. n : i \in T
<1> SUFFICES ASSUME NEW k \in 0 .. n, k \notin T PROVE FALSE
  OBVIOUS
<1> DEFINE U == {i \in 0 .. n : i \notin T}
<1>1. U \in SUBSET Nat /\ U # {}
  OBVIOUS
<1> HIDE DEF U
<1>2. PICK m \in U : \A i \in U : m <= i
  BY <1>1, LeastNumber
<1>3. m \in 0 .. n /\ m # 0 /\ m \notin T
  BY <1>2 DEF U
<1>4. m - 1 \in 0 .. n - 1 /\ m - 1 \notin U
  BY <1>2, <1>3, <1>1
<1>5. m - 1 \in T
  BY <1>4 DEF U
<1> QED  BY <1>3, <1>4, <1>5

(* The recursive definition of the walk has a solution, hence defines it.  *)
LEMMA WalkSteps ==
  /\ Walk[0] = <<>>
  /\ \A i \in 0 .. CBufferSize - 1 :
       Walk[i + 1] = IF IsValid(After(head, i)) THEN Append(Walk[i], After(head, i)) ELSE Walk[i]
<1> DEFINE Body(f, i) == IF i = 0 THEN <<>>
                         ELSE IF IsValid(After(head, i - 1)) THEN Append(f[i - 1], After(head, i - 1))
                         ELSE f[i - 1]
           T == {n \in Nat : \E f : f = [i \in 0 .. n |-> Body(f, i)]}
<1>1. 0 \in T
  <2> DEFINE f == [i \in 0 .. 0 |-> <<>>]
  <2>1. f = [i \in 0 .. 0 |-> Body(f, i)]
    OBVIOUS
  <2> QED  BY <2>1
<1>2. ASSUME NEW n \in Nat, n \in T PROVE n + 1 \in T
  <2>1. PICK f : f = [i \in 0 .. n |-> Body(f, i)]
    BY <1>2
  <2> DEFINE g == [i \in 0 .. n + 1 |-> IF i = n + 1 THEN Body(f, n + 1) ELSE f[i]]
  <2>2. ASSUME NEW i \in 0 .. n + 1 PROVE g[i] = Body(g, i)
    <3>1. CASE i = 0
      BY <2>1, <3>1
    <3>2. CASE i # 0
      <4>1. i - 1 \in 0 .. n /\ i - 1 \in 0 .. n + 1 /\ i - 1 # n + 1
        BY <3>2
      <4>2. g[i - 1] = f[i - 1]
        BY <4>1
      <4>3. CASE i = n + 1
        BY <4>2, <4>3, <3>2
      <4>4. CASE i # n + 1
        <5>1. i \in 0 .. n /\ g[i] = f[i]
          BY <4>4
        <5>2. f[i] = Body(f, i)
          BY <5>1, <2>1
        <5> QED  BY <5>1, <5>2, <4>2, <3>2
      <4> QED  BY <4>3, <4>4
    <3> QED  BY <3>1, <3>2
  <2>3. g = [i \in 0 .. n + 1 |-> g[i]]
    OBVIOUS
  <2>4. g = [i \in 0 .. n + 1 |-> Body(g, i)]
    <3> HIDE DEF g, Body
    <3> QED  BY <2>2, <2>3
  <2> HIDE DEF g
  <2> QED  BY <2>4
<1>3. CBufferSize \in T
  <2> HIDE DEF T
  <2> QED  BY <1>1, <1>2, UpTo, CBufferAssumption
<1>4. PICK f : f = [i \in 0 .. CBufferSize |-> Body(f, i)]
  BY <1>3
<1>5. Walk = [i \in 0 .. CBufferSize |-> Body(Walk, i)]
  BY <1>4 DEF Walk
<1> HIDE DEF T
<1>6. \A i \in 0 .. CBufferSize : Walk[i] = Body(Walk, i)
  <2> HIDE DEF Body
  <2> QED  BY <1>5
<1> QED  BY <1>6, CBufferAssumption

(* The valid slots less than n places from head.                           *)
Within(n) == {pos \in ValidSlots : Age(pos) < n}

(* s lists the slots of S once each, by their age.                         *)
Lists(s, S) ==
  /\ s \in Seq(S) /\ Len(s) = Cardinality(S)
  /\ \A pos \in S : \E i \in 1 .. Len(s) : s[i] = pos
  /\ \A i, j \in 1 .. Len(s) : i < j => Age(s[i]) < Age(s[j])

(* After and Age are inverse: the slot i places after head is the one of age i. *)
LEMMA AgeOfAfter ==
  ASSUME CBTypeOK
  PROVE  /\ \A pos \in Slots : Age(pos) \in 0 .. CBufferSize - 1
         /\ \A i \in 0 .. CBufferSize - 1 : /\ After(head, i) \in Slots /\ Age(After(head, i)) = i
                                           /\ \A pos \in Slots : Age(pos) = i => pos = After(head, i)
<1>1. head \in Slots
  BY DEF CBTypeOK
<1>2. \A pos \in Slots : Age(pos) \in 0 .. CBufferSize - 1
  BY <1>1, CBufferAssumption DEF Age, Slots
<1>3. ASSUME NEW i \in 0 .. CBufferSize - 1
      PROVE  /\ After(head, i) \in Slots /\ Age(After(head, i)) = i
             /\ \A pos \in Slots : Age(pos) = i => pos = After(head, i)
  <2>1. After(head, i) = IF head + i < CBufferSize THEN head + i ELSE head + i - CBufferSize
    BY <1>1, AfterValue, CBufferAssumption
  <2> QED  BY <1>1, <2>1, CBufferAssumption DEF Age, Slots
<1> QED  BY <1>2, <1>3

(* A list that grows by the one slot of the next age.                      *)
LEMMA WalkLists ==
  ASSUME CBTypeOK
  PROVE  \A n \in 0 .. CBufferSize : Lists(Walk[n], Within(n))
<1> DEFINE T == {n \in 0 .. CBufferSize : Lists(Walk[n], Within(n))}
<1>1. 0 \in T
  <2>1. Within(0) = {}
    BY AgeOfAfter DEF Within, ValidSlots
  <2>2. Walk[0] = <<>> /\ Cardinality({}) = 0
    BY WalkSteps, FS_EmptySet
  <2>3. <<>> \in Seq({}) /\ Len(<<>>) = 0 /\ 1 .. 0 = {}
    OBVIOUS
  <2>4. Lists(<<>>, {})
    BY <2>2, <2>3 DEF Lists
  <2>5. Lists(Walk[0], Within(0))
    BY <2>1, <2>2, <2>4, Zenon
  <2> QED  BY <2>5, CBufferAssumption
<1>2. ASSUME NEW n \in 0 .. CBufferSize - 1, n \in T PROVE n + 1 \in T
  <2> DEFINE pos == After(head, n)
  <2>1. /\ pos \in Slots /\ Age(pos) = n /\ \A p \in Slots : Age(p) = n => p = pos
        /\ \A p \in Slots : Age(p) \in Nat
    BY AgeOfAfter
  <2>2. Lists(Walk[n], Within(n)) /\ n \in Nat /\ n + 1 \in 0 .. CBufferSize
    BY <1>2, CBufferAssumption
  <2>3. Walk[n + 1] = IF IsValid(pos) THEN Append(Walk[n], pos) ELSE Walk[n]
    BY WalkSteps
  <2> HIDE DEF pos
  <2>4. CASE ~ IsValid(pos)
    <3>1. Within(n + 1) = Within(n)
      BY <2>1, <2>2, <2>4 DEF Within, ValidSlots
    <3> QED  BY <2>2, <2>3, <2>4, <3>1
  <2>5. CASE IsValid(pos)
    <3> DEFINE s == Walk[n]
    <3>1. Within(n + 1) = Within(n) \cup {pos} /\ pos \notin Within(n)
      BY <2>1, <2>2, <2>5 DEF Within, ValidSlots
    <3>2. /\ s \in Seq(Within(n)) /\ Len(s) = Cardinality(Within(n)) /\ Len(s) \in Nat
          /\ \A p \in Within(n) : \E i \in 1 .. Len(s) : s[i] = p
          /\ \A i, j \in 1 .. Len(s) : i < j => Age(s[i]) < Age(s[j])
          /\ \A i \in 1 .. Len(s) : s[i] \in Within(n)
      BY <2>2 DEF Lists
    <3>3. Cardinality(Within(n + 1)) = Cardinality(Within(n)) + 1
      <4>1. IsFiniteSet(Within(n))
        BY FiniteSlots DEF Within, ValidSlots
      <4> QED  BY <3>1, <4>1, FS_AddElement
    <3> DEFINE t == Append(s, pos)
    <3>4. s \in Seq(Within(n + 1)) /\ t \in Seq(Within(n + 1))
      BY <3>1, <3>2
    <3>5. /\ Len(t) = Len(s) + 1 /\ t[Len(s) + 1] = pos
          /\ \A i \in 1 .. Len(s) : t[i] = s[i]
      BY <3>4
    <3> HIDE DEF s, t
    <3>6. \A p \in Within(n + 1) : \E i \in 1 .. Len(t) : t[i] = p
      <4> SUFFICES ASSUME NEW p \in Within(n + 1) PROVE \E i \in 1 .. Len(t) : t[i] = p
        OBVIOUS
      <4>1. CASE p = pos
        <5>1. Len(s) + 1 \in 1 .. Len(t)
          BY <3>2, <3>5
        <5> QED  BY <4>1, <5>1, <3>5
      <4>2. CASE p # pos
        <5>1. PICK i \in 1 .. Len(s) : s[i] = p
          BY <4>2, <3>1, <3>2
        <5>2. i \in 1 .. Len(t)
          BY <3>2, <3>5
        <5> QED  BY <5>1, <5>2, <3>5
      <4> QED  BY <4>1, <4>2
    <3>7. \A i, j \in 1 .. Len(t) : i < j => Age(t[i]) < Age(t[j])
      <4> SUFFICES ASSUME NEW i \in 1 .. Len(t), NEW j \in 1 .. Len(t), i < j
                   PROVE  Age(t[i]) < Age(t[j])
        OBVIOUS
      <4>1. i \in 1 .. Len(s) /\ t[i] = s[i] /\ Age(s[i]) < n
        <5>1. i \in 1 .. Len(s)
          BY <3>2, <3>5
        <5> QED  BY <5>1, <3>2, <3>5 DEF Within
      <4>2. CASE j = Len(s) + 1
        BY <4>1, <4>2, <3>5, <2>1
      <4>3. CASE j # Len(s) + 1
        <5>1. j \in 1 .. Len(s)
          BY <4>3, <3>2, <3>5
        <5> QED  BY <4>1, <5>1, <3>2, <3>5
      <4> QED  BY <4>2, <4>3
    <3>8. Lists(t, Within(n + 1))
      BY <3>2, <3>3, <3>4, <3>5, <3>6, <3>7 DEF Lists
    <3> QED  BY <2>2, <2>3, <2>5, <3>8 DEF s, t
  <2> QED  BY <2>4, <2>5
<1>3. \A n \in 0 .. CBufferSize : n \in T
  <2> HIDE DEF T
  <2> QED  BY <1>1, <1>2, UpTo, CBufferAssumption
<1> QED  BY <1>3

(* The whole walk lists the valid slots, each once, by age. *)
LEMMA ListedIsTheRing ==
  ASSUME CBTypeOK
  PROVE  Lists(Listed, ValidSlots)
<1>1. Within(CBufferSize) = ValidSlots
  BY AgeOfAfter, CBufferAssumption DEF Within, ValidSlots
<1> QED  BY <1>1, WalkLists, CBufferAssumption DEF Listed

-----------------------------------------------------------------------------
(* The invariant.                                                          *)

(* The empty ring satisfies the invariant. *)
LEMMA CBInitInv == CBInit => CBInv
<1> SUFFICES ASSUME CBInit PROVE CBInv
  OBVIOUS
<1>1. CBTypeOK
  BY CBufferAssumption DEF CBInit, CBTypeOK, Address, Slots
<1>2. ValidSlots = {}
  BY DEF CBInit, ValidSlots, IsValid
<1>3. CountMatches
  BY <1>2, FS_EmptySet DEF CountMatches, CBInit
<1> QED  BY <1>1, <1>2, <1>3 DEF CBInv, HeadIsOldest, CBInit

(* The ring is empty exactly when the counter is 0; a slot to be written   *)
(* that is not the head is free.                                           *)
LEMMA NextPosFree ==
  ASSUME CBInv
  PROVE  /\ validElements = 0 <=> ValidSlots = {}
         /\ PushPos = nextPos
         /\ Evicts => nextPos \in ValidSlots
         /\ ~ Evicts => nextPos \notin ValidSlots
<1>1. validElements = 0 <=> ValidSlots = {}
  BY FiniteSlots, FS_EmptySet DEF CBInv, CountMatches, ValidSlots
<1>2. PushPos = nextPos
  BY CBufferAssumption DEF CBInv, CBTypeOK, PushPos, Slots
<1>3. Evicts => nextPos \in ValidSlots
  BY <1>1, <1>2 DEF Evicts, CBInv, CBTypeOK, HeadIsOldest, ValidSlots
<1>4. nextPos # head => nextPos \notin ValidSlots
  BY DEF CBInv, CBTypeOK, HeadIsOldest, InWindow, ValidSlots, Slots
<1> QED  BY <1>1, <1>2, <1>3, <1>4 DEF Evicts

(* A push keeps the invariant of the ring, whether it evicts or not. *)
LEMMA PushInv ==
  ASSUME CBInv, NEW address \in Addresses, Push(address)
  PROVE  CBInv'
<1> USE CBufferAssumption
<1>1. /\ futureDestinations' =
           [futureDestinations EXCEPT ![nextPos] = [addr |-> address, valid |-> TRUE]]
      /\ nextPos' = (nextPos + 1) % CBufferSize
  BY NextPosFree DEF Push
<1>2. nextPos \in Slots /\ head \in Slots /\ futureDestinations \in [Slots -> Address]
      /\ validElements \in 0 .. CBufferSize
  BY DEF CBInv, CBTypeOK
<1>3. nextPos' = IF nextPos + 1 < CBufferSize THEN nextPos + 1 ELSE nextPos + 1 - CBufferSize
  BY <1>1, <1>2, AfterValue DEF After
<1>4. ValidSlots' = ValidSlots \cup {nextPos}
  BY <1>1, <1>2 DEF ValidSlots, IsValid, Address
<1>5. head' \in ValidSlots'
  <2>1. CASE Evicts
    BY <2>1, <1>2, <1>4, NextPosFree, NextValidIsNext DEF Push
  <2>2. CASE ~ Evicts
    BY <2>2, <1>2, <1>4 DEF Push, CBInv, HeadIsOldest, ValidSlots
  <2> QED  BY <2>1, <2>2
<1>6. CountMatches'
  <2>1. Cardinality(ValidSlots \cup {nextPos}) =
          IF nextPos \in ValidSlots THEN Cardinality(ValidSlots) ELSE Cardinality(ValidSlots) + 1
    BY FS_AddElement, FiniteSlots DEF ValidSlots
  <2>2. Cardinality(ValidSlots) = validElements
    BY DEF CBInv, CountMatches
  <2> QED  BY <2>1, <2>2, <1>2, <1>4, NextPosFree DEF CountMatches, Push
<1>7. CBTypeOK'
  <2>1. validElements' \in 0 .. CBufferSize
    BY <1>4, <1>6, <1>2, FiniteSlots DEF CountMatches, ValidSlots
  <2> QED  BY <2>1, <1>1, <1>2, <1>3, <1>4, <1>5 DEF CBTypeOK, Slots, Address, ValidSlots
<1>8. ASSUME NEW p \in ValidSlots'
      PROVE  InWindow(p)'
  <2>1. CASE Evicts
    <3>1. nextPos = head /\ ValidSlots # {} /\ p \in ValidSlots /\ head' = NextValid(head)
      BY <2>1, <1>4, NextPosFree DEF Evicts, Push
    <3>2. IF head' > head THEN p <= head \/ p >= head' ELSE p <= head /\ p >= head'
      BY <3>1, <1>2, NextValidIsNext
    <3>3. p \in Slots /\ head' \in Slots
      BY <3>1, <1>2, NextValidIsNext DEF ValidSlots
    <3> QED  BY <3>1, <3>2, <3>3, <1>2, <1>3 DEF InWindow, Slots
  <2>2. CASE ~ Evicts
    <3>1. head' = head
      BY <2>2 DEF Push
    <3>2. p = nextPos \/ InWindow(p)
      BY <1>4 DEF CBInv, HeadIsOldest
    <3>3. p = nextPos \/ nextPos # head
      BY <2>2, <1>4, NextPosFree DEF Evicts
    <3> QED  BY <3>1, <3>2, <3>3, <1>2, <1>3, <1>4 DEF InWindow, Slots, ValidSlots
  <2> QED  BY <2>1, <2>2
<1> QED  BY <1>4, <1>5, <1>6, <1>7, <1>8 DEF CBInv, HeadIsOldest, ValidSlots

(* A pop of a valid slot keeps the invariant of the ring. *)
LEMMA PopInv ==
  ASSUME CBInv, NEW pos \in Slots, PopValid(pos)
  PROVE  CBInv'
<1> USE CBufferAssumption
<1>1. nextPos \in Slots /\ head \in Slots /\ futureDestinations \in [Slots -> Address]
      /\ validElements \in 0 .. CBufferSize
  BY DEF CBInv, CBTypeOK
<1>2. pos \in ValidSlots /\ head \in ValidSlots
  BY <1>1 DEF PopValid, ValidSlots, CBInv, HeadIsOldest
<1>3. ValidSlots' = ValidSlots \ {pos}
  BY <1>1 DEF PopValid, ValidSlots, IsValid, Address
<1>4. CountMatches' /\ validElements' \in 0 .. CBufferSize
  <2>1. Cardinality(ValidSlots \ {pos}) = Cardinality(ValidSlots) - 1
    BY <1>2, FS_RemoveElement, FiniteSlots DEF ValidSlots
  <2>2. Cardinality(ValidSlots) = validElements
    BY DEF CBInv, CountMatches
  <2>3. Cardinality(ValidSlots') \in 0 .. CBufferSize
    BY <1>3, FiniteSlots DEF ValidSlots
  <2> QED  BY <2>1, <2>2, <2>3, <1>3 DEF CountMatches, PopValid
<1> DEFINE h == NextValid(head)
<1>5. /\ h \in ValidSlots
      /\ \A p \in ValidSlots : IF h > head THEN p <= head \/ p >= h
                                           ELSE p <= head /\ p >= h
  BY <1>1, <1>2, NextValidIsNext
<1> HIDE DEF h
<1>6. head' = IF pos # head THEN head ELSE IF h # head THEN h ELSE nextPos
  BY DEF PopValid, h
<1>7. CBTypeOK'
  BY <1>1, <1>4, <1>5, <1>6 DEF CBTypeOK, PopValid, ValidSlots, Address
<1>8. nextPos' = nextPos
  BY DEF PopValid
<1>9. \A p \in ValidSlots : p \in Slots /\ InWindow(p)
  BY <1>2 DEF CBInv, HeadIsOldest, ValidSlots
<1>10. HeadIsOldest'
  <2>1. CASE pos # head
    BY <2>1, <1>2, <1>3, <1>6, <1>8, <1>9 DEF HeadIsOldest, InWindow, ValidSlots
  <2>2. CASE pos = head /\ h # head
    <3>1. h \in ValidSlots' /\ head' = h
      BY <2>2, <1>3, <1>5, <1>6
    <3>2. \A p \in ValidSlots' : InWindow(p)'
      BY <2>2, <3>1, <1>1, <1>3, <1>5, <1>8, <1>9 DEF InWindow, Slots
    <3> QED  BY <3>1, <3>2 DEF HeadIsOldest, ValidSlots
  <2>3. CASE pos = head /\ h = head
    <3>1. ValidSlots' = {}
      BY <2>3, <1>1, <1>3, <1>5, <1>9 DEF Slots
    <3> QED  BY <3>1, <2>3, <1>6, <1>8 DEF HeadIsOldest
  <2> QED  BY <2>1, <2>2, <2>3
<1> QED  BY <1>4, <1>7, <1>10 DEF CBInv

(* Every step of the ring keeps its invariant. *)
LEMMA CBNextInv == CBInv /\ [CBNext]_cbVars => CBInv'
<1> SUFFICES ASSUME CBInv, [CBNext]_cbVars PROVE CBInv'
  OBVIOUS
<1>1. CASE UNCHANGED cbVars
  BY <1>1 DEF CBInv, CBTypeOK, CountMatches, HeadIsOldest, InWindow, ValidSlots, IsValid, cbVars
<1>2. ASSUME NEW address \in Addresses, Push(address) PROVE CBInv'
  BY <1>2, PushInv
<1>3. ASSUME NEW pos \in Slots, Pop(pos) PROVE CBInv'
  BY <1>3, <1>1, PopInv DEF Pop
<1> QED  BY <1>1, <1>2, <1>3 DEF CBNext

(* The ring keeps its invariant whatever is pushed and popped.             *)
THEOREM RingInvariant == CBSpec => []CBInv
  BY CBInitInv, CBNextInv, PTL DEF CBSpec

-----------------------------------------------------------------------------
(* The order of the slots from head on.                                    *)

(* The last slot before next is the farthest from h of those between h and *)
(* next.                                                                   *)
LEMMA NewestIsLast ==
  ASSUME NEW h \in 0 .. CBufferSize - 1, NEW p \in 0 .. CBufferSize - 1, NEW q \in 0 .. CBufferSize - 1,
         NEW next, next = IF q + 1 < CBufferSize THEN q + 1 ELSE 0, p # q,
         IF h < next THEN h <= p /\ p < next ELSE h <= p \/ p < next,
         IF h < next THEN h <= q /\ q < next ELSE h <= q \/ q < next
  PROVE  (IF p >= h THEN p - h ELSE p - h + CBufferSize) < (IF q >= h THEN q - h ELSE q - h + CBufferSize)
  BY CBufferAssumption

(* A push puts its slot behind the others and leaves their order; a pop    *)
(* takes its slot out.                                                     *)
LEMMA OrderKept ==
  ASSUME CBInv, CBInv', NEW p \in ValidSlots', NEW q \in ValidSlots'
  PROVE  /\ \A address \in Addresses : Push(address) =>
              /\ p # nextPos /\ q = nextPos => Age(p)' < Age(q)'
              /\ p # nextPos /\ q # nextPos =>
                   p \in ValidSlots /\ q \in ValidSlots /\ (Age(p)' < Age(q)' => Age(p) < Age(q))
         /\ \A pos \in Slots : Pop(pos) =>
              /\ p \in ValidSlots /\ q \in ValidSlots /\ p # pos /\ q # pos
              /\ Age(p)' < Age(q)' => Age(p) < Age(q)
<1> USE CBufferAssumption
<1>1. /\ nextPos \in Slots /\ head \in Slots /\ futureDestinations \in [Slots -> Address]
      /\ nextPos' \in Slots /\ head' \in Slots /\ p \in Slots /\ q \in Slots
      /\ InWindow(p)' /\ InWindow(q)'
      /\ Slots \in SUBSET Nat
  BY DEF CBInv, CBTypeOK, ValidSlots, HeadIsOldest, Slots
<1>2. ASSUME p \in ValidSlots, q \in ValidSlots, p # head, q # head, head' = NextValid(head)
      PROVE  Age(p)' < Age(q)' => Age(p) < Age(q)
  <2>1. \A r \in ValidSlots :
              IF NextValid(head) > head THEN r <= head \/ r >= NextValid(head)
                                      ELSE r <= head /\ r >= NextValid(head)
    BY <1>1, <1>2, NextValidIsNext
  <2> QED  BY <1>1, <1>2, <2>1 DEF Age, Slots
<1>3. ASSUME NEW address \in Addresses, Push(address)
      PROVE  /\ p # nextPos /\ q = nextPos => Age(p)' < Age(q)'
             /\ p # nextPos /\ q # nextPos =>
                  p \in ValidSlots /\ q \in ValidSlots /\ (Age(p)' < Age(q)' => Age(p) < Age(q))
  <2>1. /\ futureDestinations' = [futureDestinations EXCEPT ![nextPos] = [addr |-> address, valid |-> TRUE]]
        /\ nextPos' = (nextPos + 1) % CBufferSize
        /\ head' = IF Evicts THEN NextValid(head) ELSE head
        /\ Evicts => nextPos = head
    BY <1>3, NextPosFree DEF Push, Evicts
  <2>2. nextPos' = IF nextPos + 1 < CBufferSize THEN nextPos + 1 ELSE nextPos + 1 - CBufferSize
    BY <2>1, <1>1, AfterValue DEF After
  <2>3. p # nextPos /\ q = nextPos => Age(p)' < Age(q)'
    <3> SUFFICES ASSUME p # nextPos, q = nextPos PROVE Age(p)' < Age(q)'
      OBVIOUS
    <3>1. IF head' < nextPos' THEN head' <= p /\ p < nextPos' ELSE head' <= p \/ p < nextPos'
      BY <1>1 DEF InWindow
    <3>2. IF head' < nextPos' THEN head' <= q /\ q < nextPos' ELSE head' <= q \/ q < nextPos'
      BY <1>1 DEF InWindow
    <3>3. /\ p \in 0 .. CBufferSize - 1 /\ q \in 0 .. CBufferSize - 1 /\ head' \in 0 .. CBufferSize - 1
          /\ nextPos' = IF q + 1 < CBufferSize THEN q + 1 ELSE 0
      BY <1>1, <2>2 DEF Slots
    <3>4. (IF p >= head' THEN p - head' ELSE p - head' + CBufferSize)
            < (IF q >= head' THEN q - head' ELSE q - head' + CBufferSize)
      BY <3>1, <3>2, <3>3, NewestIsLast
    <3> QED  BY <3>4 DEF Age
  <2>4. ASSUME p # nextPos, q # nextPos
        PROVE  p \in ValidSlots /\ q \in ValidSlots /\ (Age(p)' < Age(q)' => Age(p) < Age(q))
    <3>1. p \in ValidSlots /\ q \in ValidSlots
      BY <2>1, <2>4, <1>1 DEF ValidSlots, IsValid
    <3>2. CASE Evicts
      BY <2>1, <2>4, <3>1, <3>2, <1>2
    <3>3. CASE ~ Evicts
      BY <2>1, <3>1, <3>3 DEF Age
    <3> QED  BY <3>1, <3>2, <3>3
  <2> QED  BY <2>3, <2>4
<1>4. ASSUME NEW pos \in Slots, Pop(pos)
      PROVE  /\ p \in ValidSlots /\ q \in ValidSlots /\ p # pos /\ q # pos
             /\ Age(p)' < Age(q)' => Age(p) < Age(q)
  <2>1. CASE PopValid(pos)
    <3>1. p \in ValidSlots /\ q \in ValidSlots /\ p # pos /\ q # pos
      BY <2>1, <1>1 DEF PopValid, ValidSlots, IsValid, Address
    <3>2. CASE pos # head
      BY <2>1, <3>1, <3>2 DEF PopValid, Age
    <3>3. CASE pos = head /\ NextValid(head) # head
      BY <2>1, <3>1, <3>3, <1>2 DEF PopValid
    <3>4. CASE pos = head /\ NextValid(head) = head
      <4>1. p = head
        BY <3>1, <3>4, <1>1, NextValidIsNext DEF Slots
      <4> QED  BY <4>1, <3>1, <3>4
    <3> QED  BY <3>1, <3>2, <3>3, <3>4
  <2>2. CASE ~ IsValid(pos) /\ UNCHANGED cbVars
    BY <2>2 DEF ValidSlots, IsValid, cbVars, Age
  <2> QED  BY <1>4, <2>1, <2>2 DEF Pop
<1> QED  BY <1>3, <1>4

-----------------------------------------------------------------------------
(* Its consequences.                                                       *)

(* The fields of the ring stay in their ranges (ccbuffer.h:24-30).         *)
THEOREM RingTypeCorrect == CBSpec => []CBTypeOK
<1>1. CBInv => CBTypeOK
  BY DEF CBInv
<1> QED  BY <1>1, RingInvariant, PTL

(* currElems, the length the request to the learner announces, is the      *)
(* number of the slots getPort finds valid, for a ring of any size.        *)
THEOREM CounterExact == CBSpec => []CountMatches
<1>1. CBInv => CountMatches
  BY DEF CBInv
<1> QED  BY <1>1, RingInvariant, PTL

(* head is the oldest valid slot, and all of them lie in one turn, between *)
(* head and nextPos: the walk of getPort lists them oldest first.          *)
THEOREM HeadOldest == CBSpec => []HeadIsOldest
<1>1. CBInv => HeadIsOldest
  BY DEF CBInv
<1> QED  BY <1>1, RingInvariant, PTL

(* The search loop of push, entered with the mutex held, ends.             *)
THEOREM PushTerminates == CBSpec => []SearchEnds
<1>1. CBInv => SearchEnds
  BY NextPosFree DEF SearchEnds
<1> QED  BY <1>1, RingInvariant, PTL

(* A push never drops an element other than the oldest: a packet's entry   *)
(* is only lost when every older one is gone.                              *)
THEOREM EvictionInOrder == CBSpec => OnlyOldestEvicted
<1> DEFINE A == nextPos' # nextPos =>
                  \A pos \in ValidSlots \ {head} :
                    futureDestinations'[pos] = futureDestinations[pos]
<1>1. CBInv /\ [CBNext]_cbVars => [A]_cbVars
  <2> SUFFICES ASSUME CBInv, CBNext, nextPos' # nextPos, NEW pos \in ValidSlots \ {head}
               PROVE  futureDestinations'[pos] = futureDestinations[pos]
    OBVIOUS
  <2>1. PICK address \in Addresses : Push(address)
    BY DEF CBNext, Pop, PopValid, cbVars
  <2>2. pos # PushPos
    BY NextPosFree DEF Evicts
  <2> QED  BY <2>1, <2>2 DEF Push, CBInv, CBTypeOK, ValidSlots
<1> QED  BY <1>1, RingInvariant, PTL DEF CBSpec, OnlyOldestEvicted

-----------------------------------------------------------------------------
(* The list of the ring.                                                   *)

(* A sequence of the elements of S, each once, in the order of f.          *)
Ordered(s, S, f) ==
  /\ s \in Seq(S) /\ Len(s) = Cardinality(S)
  /\ \A p \in S : \E i \in 1 .. Len(s) : s[i] = p
  /\ \A i, j \in 1 .. Len(s) : i < j => f[s[i]] < f[s[j]]

(* There is only one.                                                      *)
LEMMA OneOrder ==
  ASSUME NEW S, NEW f, \A p \in S : f[p] \in Nat, NEW s, NEW t, Ordered(s, S, f), Ordered(t, S, f)
  PROVE  s = t
<1> DEFINE n == Len(s)
           D == {i \in 1 .. n : s[i] # t[i]}
<1>1. n \in Nat /\ Len(t) = n /\ \A i \in 1 .. n : s[i] \in S /\ t[i] \in S
  BY DEF Ordered
<1>2. s = [i \in 1 .. n |-> s[i]] /\ t = [i \in 1 .. n |-> t[i]]
  BY <1>1 DEF Ordered
<1>3. ASSUME D # {} PROVE FALSE
  <2>1. D \in SUBSET Nat
    BY <1>1
  <2>2. PICK m \in D : \A i \in D : m <= i
    <3> HIDE DEF D
    <3> QED  BY <1>3, <2>1, LeastNumber
  <2>3. m \in 1 .. n /\ s[m] # t[m] /\ \A i \in 1 .. m - 1 : s[i] = t[i]
    BY <1>1, <2>2
  <2> HIDE DEF n, D
  <2>4. f[t[m]] < f[s[m]]
    <3>1. PICK j \in 1 .. n : t[j] = s[m]
      BY <1>1, <2>3 DEF Ordered, n
    <3>2. ~ j < m
      <4>1. ASSUME j < m PROVE FALSE
        <5>1. s[j] = s[m] /\ f[s[j]] < f[s[m]]
          BY <1>1, <2>3, <3>1, <4>1 DEF Ordered, n
        <5>2. f[s[m]] \in Nat
          BY <1>1, <2>3
        <5> QED  BY <5>1, <5>2
      <4> QED  BY <4>1
    <3>3. m < j
      BY <1>1, <2>3, <3>1, <3>2
    <3> QED  BY <1>1, <2>3, <3>1, <3>3 DEF Ordered, n
  <2>5. f[s[m]] < f[t[m]]
    <3>1. PICK j \in 1 .. n : s[j] = t[m]
      BY <1>1, <2>3 DEF Ordered, n
    <3>2. ~ j < m
      <4>1. ASSUME j < m PROVE FALSE
        <5>1. t[j] = t[m] /\ j \in 1 .. Len(t) /\ m \in 1 .. Len(t)
          BY <1>1, <2>3, <3>1, <4>1
        <5>3. f[t[j]] < f[t[m]]
          BY <5>1, <4>1 DEF Ordered
        <5>2. f[t[m]] \in Nat
          BY <1>1, <2>3
        <5> QED  BY <5>1, <5>2, <5>3
      <4> QED  BY <4>1
    <3>3. m < j
      BY <1>1, <2>3, <3>1, <3>2
    <3> QED  BY <1>1, <2>3, <3>1, <3>3 DEF Ordered, n
  <2>6. f[s[m]] \in Nat /\ f[t[m]] \in Nat
    BY <1>1, <2>3
  <2> QED  BY <2>4, <2>5, <2>6
<1> QED  BY <1>2, <1>3

(* Two sequences, one after the other.                                     *)
LEMMA Joined ==
  ASSUME NEW S, NEW q \in Seq(S), NEW r \in Seq(S)
  PROVE  q \o r \in Seq(S) /\ Len(q \o r) = Len(q) + Len(r)
OBVIOUS

(* A sequence with an element less.                                        *)
LEMMA RemovedAt ==
  ASSUME NEW S, NEW q \in Seq(S), NEW i \in 1 .. Len(q)
  PROVE  LET r == Abstract!RemoveAt(q, i) IN
         /\ r \in Seq(S) /\ Len(r) = Len(q) - 1
         /\ \A j \in 1 .. Len(q) - 1 : r[j] = IF j < i THEN q[j] ELSE q[j + 1]
<1> DEFINE before == SubSeq(q, 1, i - 1)  after == SubSeq(q, i + 1, Len(q))
<1>1. i \in 1..Len(q) /\ Len(q) \in Nat
    OBVIOUS
<1>2. before \in Seq(S) /\ Len(before) = i - 1 /\ \A j \in 1..i - 1 : before[j] = q[j]
    BY <1>1
<1>3. /\ after \in Seq(S) /\ Len(after) = Len(q) - i
      /\ \A j \in 1..Len(q) - i : after[j] = q[i + j]
    BY <1>1
<1>4. Abstract!RemoveAt(q, i) = before \o after
    BY DEF Abstract!RemoveAt
<1> HIDE DEF before, after
<1>5. before \o after \in Seq(S) /\ Len(before \o after) = Len(q) - 1
    <2>1. before \o after \in Seq(S) /\ Len(before \o after) = Len(before) + Len(after)
      BY <1>2, <1>3, Joined
    <2> QED  BY <1>1, <1>2, <1>3, <2>1
<1>6. ASSUME NEW j \in 1..Len(q) - 1
      PROVE  (before \o after)[j] = IF j < i THEN q[j] ELSE q[j + 1]
    <2>1. (before \o after)[j] = IF j <= i - 1 THEN before[j] ELSE after[j - (i - 1)]
        BY <1>1, <1>2, <1>3
    <2>2. CASE j < i
        BY <2>1, <2>2, <1>1, <1>2
    <2>3. CASE ~ j < i
        <3>1. j - (i - 1) \in 1..Len(q) - i /\ i + (j - (i - 1)) = j + 1
            BY <1>1, <2>3
        <3>2. (before \o after)[j] = after[j - (i - 1)]
            BY <2>1, <2>3, <1>1
        <3>3. after[j - (i - 1)] = q[i + (j - (i - 1))]
            BY <1>3, <3>1
        <3> QED  BY <2>3, <3>1, <3>2, <3>3
    <2> QED  BY <2>2, <2>3
<1> QED  BY <1>4, <1>5, <1>6

(* Without one of its elements the sequence is still in order.             *)
LEMMA RestOrdered ==
  ASSUME NEW S, IsFiniteSet(S), NEW f, \A p \in S : f[p] \in Nat, NEW s, Ordered(s, S, f),
         NEW k \in 1 .. Len(s)
  PROVE  Ordered(Abstract!RemoveAt(s, k), S \ {s[k]}, f)
<1> DEFINE r == Abstract!RemoveAt(s, k)  n == Len(s)  T == S \ {s[k]}
<1>1. n \in Nat /\ s \in Seq(S) /\ k \in 1 .. n /\ \A i \in 1 .. n : s[i] \in S
  BY DEF Ordered
<1>2. /\ r \in Seq(S) /\ Len(r) = n - 1
      /\ \A j \in 1 .. n - 1 : r[j] = IF j < k THEN s[j] ELSE s[j + 1]
  BY <1>1, RemovedAt
<1> HIDE DEF r
<1> DEFINE From(j) == IF j < k THEN j ELSE j + 1
<1>3. \A j \in 1 .. n - 1 : From(j) \in 1 .. n /\ From(j) # k /\ r[j] = s[From(j)]
  BY <1>1, <1>2
<1>4. \A i, j \in 1 .. n - 1 : i < j => From(i) < From(j)
  BY <1>1
<1>5. \A i \in 1 .. n : i # k => \E j \in 1 .. n - 1 : From(j) = i
  <2> SUFFICES ASSUME NEW i \in 1 .. n, i # k PROVE \E j \in 1 .. n - 1 : From(j) = i
    OBVIOUS
  <2>1. CASE i < k
    <3>1. i \in 1 .. n - 1 /\ From(i) = i
      BY <1>1, <2>1
    <3> QED  BY <3>1
  <2>2. CASE i > k
    <3>1. i - 1 \in 1 .. n - 1 /\ From(i - 1) = i
      BY <1>1, <2>2
    <3> QED  BY <3>1
  <2> QED  BY <1>1, <2>1, <2>2
<1> HIDE DEF From
<1>6. \A i \in 1 .. n : i # k => s[i] # s[k]
  <2> SUFFICES ASSUME NEW i \in 1 .. n, i # k, s[i] = s[k] PROVE FALSE
    OBVIOUS
  <2>1. f[s[k]] \in Nat
    BY <1>1
  <2>2. i < k \/ k < i
    BY <1>1
  <2>3. f[s[k]] < f[s[k]]
    BY <2>2, <1>1 DEF Ordered
  <2> QED  BY <2>1, <2>3
<1>7. \A j \in 1 .. n - 1 : r[j] \in T
  BY <1>1, <1>3, <1>6
<1>8. r \in Seq(T)
  <2>1. r = [j \in 1 .. n - 1 |-> r[j]] /\ n - 1 \in Nat
    BY <1>1, <1>2
  <2> HIDE DEF T
  <2> QED  BY <2>1, <1>7
<1>9. Len(r) = Cardinality(T)
  <2>1. s[k] \in S
    BY <1>1
  <2>2. Cardinality(T) = Cardinality(S) - 1
    BY <2>1, FS_RemoveElement
  <2> QED  BY <2>2, <1>2 DEF Ordered
<1>10. \A p \in T : \E j \in 1 .. n - 1 : r[j] = p
  <2> SUFFICES ASSUME NEW p \in T PROVE \E j \in 1 .. n - 1 : r[j] = p
    OBVIOUS
  <2>1. PICK i \in 1 .. n : s[i] = p
    BY DEF Ordered
  <2>2. i # k
    BY <2>1
  <2>3. PICK j \in 1 .. n - 1 : From(j) = i
    BY <2>2, <1>5
  <2> QED  BY <2>1, <2>3, <1>3
<1>11. \A i, j \in 1 .. n - 1 : i < j => f[r[i]] < f[r[j]]
  <2> SUFFICES ASSUME NEW i \in 1 .. n - 1, NEW j \in 1 .. n - 1, i < j PROVE f[r[i]] < f[r[j]]
    OBVIOUS
  <2>1. From(i) < From(j) /\ From(i) \in 1 .. n /\ From(j) \in 1 .. n
    BY <1>3, <1>4
  <2> QED  BY <2>1, <1>3 DEF Ordered
<1> QED  BY <1>2, <1>8, <1>9, <1>10, <1>11 DEF Ordered, r

-----------------------------------------------------------------------------
(* The ring implements the list.                                           *)

Ages == [p \in Slots |-> Age(p)]
RingList == Ordered(Listed, ValidSlots, Ages)

(* What a list of slots says of the insertions in them.                    *)
EntriesOf(s) == [i \in 1 .. Len(s) |-> [pos |-> s[i], addr |-> futureDestinations[s[i]].addr]]

(* The walk of getPort lists the valid slots by their age.                 *)
LEMMA ListIsOrdered == CBInv => RingList
<1> SUFFICES ASSUME CBInv PROVE RingList
  OBVIOUS
<1>1. Lists(Listed, ValidSlots)
  BY ListedIsTheRing DEF CBInv
<1> DEFINE s == Listed
<1>2. /\ s \in Seq(ValidSlots) /\ Len(s) = Cardinality(ValidSlots)
      /\ \A pos \in ValidSlots : \E i \in 1 .. Len(s) : s[i] = pos
      /\ \A i, j \in 1 .. Len(s) : i < j => Age(s[i]) < Age(s[j])
  BY <1>1 DEF Lists
<1> HIDE DEF s
<1>3. \A i \in 1 .. Len(s) : s[i] \in Slots
  BY <1>2 DEF ValidSlots
<1>4. \A i \in 1 .. Len(s) : Ages[s[i]] = Age(s[i])
  BY <1>3 DEF Ages
<1>5. Ordered(s, ValidSlots, Ages)
  BY <1>2, <1>4 DEF Ordered
<1> QED  BY <1>5 DEF RingList, s

(* The ages of valid slots are numbers.                                    *)
LEMMA AgesAreNumbers ==
  ASSUME CBInv
  PROVE  \A p \in ValidSlots : p \in Slots /\ Ages[p] = Age(p) /\ Ages[p] \in Nat
<1>1. CBTypeOK
  BY DEF CBInv
<1>2. \A p \in Slots : Age(p) \in 0 .. CBufferSize - 1
  BY <1>1, AgeOfAfter
<1> QED  BY <1>2, CBufferAssumption DEF Ages, ValidSlots

(* Without: the slots but one, in the same order.                          *)
LEMMA WithoutOne ==
  ASSUME CBInv, RingList, NEW pos \in Slots
  PROVE  \E r : Ordered(r, ValidSlots \ {pos}, Ages) /\ Abstract!Without(pos) = EntriesOf(r)
<1> DEFINE s == Listed  at == {i \in DOMAIN Entries : Entries[i].pos = pos}
<1>1. Ordered(s, ValidSlots, Ages)
  BY DEF RingList
<1>2. Entries = EntriesOf(s)
  BY DEF Entries, EntriesOf
<1>3. Abstract!Without(pos) = IF at = {} THEN Entries ELSE Abstract!RemoveAt(Entries, CHOOSE i \in at : TRUE)
  BY DEF Abstract!Without
<1> HIDE DEF s
<1>4. s \in Seq(ValidSlots) /\ Len(s) \in Nat /\ DOMAIN Entries = 1 .. Len(s)
  BY <1>1, <1>2 DEF Ordered, EntriesOf
<1>5. \A i \in 1 .. Len(s) : /\ Entries[i] = [pos |-> s[i], addr |-> futureDestinations[s[i]].addr]
                            /\ Entries[i].pos = s[i]
  BY <1>2 DEF EntriesOf
<1>6. CASE at = {}
  <2>1. pos \notin ValidSlots
    <3> SUFFICES ASSUME pos \in ValidSlots PROVE FALSE
      OBVIOUS
    <3>1. PICK i \in 1 .. Len(s) : s[i] = pos
      BY <1>1 DEF Ordered
    <3>2. i \in at
      BY <1>4, <1>5, <3>1
    <3> QED  BY <1>6, <3>2
  <2>2. ValidSlots \ {pos} = ValidSlots
    BY <2>1
  <2> QED  BY <1>1, <1>2, <1>3, <1>6, <2>2
<1>7. CASE at # {}
  <2> DEFINE k == CHOOSE i \in at : TRUE
  <2>1. k \in at
    BY <1>7
  <2>2. Abstract!Without(pos) = Abstract!RemoveAt(Entries, k)
    BY <1>3, <1>7
  <2>3. k \in 1 .. Len(s) /\ s[k] = pos
    BY <2>1, <1>4, <1>5
  <2> HIDE DEF k, at
  <2> DEFINE r == Abstract!RemoveAt(s, k)
             E == Abstract!RemoveAt(Entries, k)
  <2>4. Ordered(r, ValidSlots \ {pos}, Ages)
    <3>1. IsFiniteSet(ValidSlots)
      BY FiniteSlots DEF ValidSlots
    <3>2. \A p \in ValidSlots : Ages[p] \in Nat
      BY AgesAreNumbers
    <3> HIDE DEF s
    <3> QED  BY <1>1, <2>3, <3>1, <3>2, RestOrdered
  <2>5. /\ Len(r) = Len(s) - 1
        /\ \A j \in 1 .. Len(s) - 1 : r[j] = IF j < k THEN s[j] ELSE s[j + 1]
    BY <1>4, <2>3, RemovedAt
  <2> DEFINE R == {Entries[i] : i \in 1 .. Len(s)}
  <2>6. Entries \in Seq(R) /\ Len(Entries) = Len(s)
    <3>1. Entries = [i \in 1 .. Len(s) |-> Entries[i]]
      BY <1>2 DEF EntriesOf
    <3> QED  BY <1>4, <3>1
  <2> HIDE DEF R
  <2>7. /\ E \in Seq(R) /\ Len(E) = Len(s) - 1
        /\ \A j \in 1 .. Len(s) - 1 : E[j] = IF j < k THEN Entries[j] ELSE Entries[j + 1]
    BY <2>3, <2>6, RemovedAt
  <2> HIDE DEF E, r
  <2>8. \A j \in 1 .. Len(s) - 1 : E[j] = [pos |-> r[j], addr |-> futureDestinations[r[j]].addr]
    <3> SUFFICES ASSUME NEW j \in 1 .. Len(s) - 1
                 PROVE  E[j] = [pos |-> r[j], addr |-> futureDestinations[r[j]].addr]
      OBVIOUS
    <3>1. CASE j < k
      <4>1. j \in 1 .. Len(s)
        BY <1>4
      <4>2. E[j] = Entries[j] /\ r[j] = s[j]
        BY <2>5, <2>7, <3>1, Zenon
      <4> QED  BY <1>5, <4>1, <4>2
    <3>2. CASE ~ j < k
      <4>1. j + 1 \in 1 .. Len(s)
        BY <1>4
      <4>2. E[j] = Entries[j + 1] /\ r[j] = s[j + 1]
        BY <2>5, <2>7, <3>2, Zenon
      <4> QED  BY <1>5, <4>1, <4>2
    <3> QED  BY <3>1, <3>2
  <2>9. E = [j \in 1 .. Len(s) - 1 |-> E[j]]
    BY <2>7, <1>4
  <2>10. E = EntriesOf(r)
    BY <2>5, <2>8, <2>9 DEF EntriesOf
  <2> QED  BY <2>2, <2>4, <2>10 DEF E
<1> QED  BY <1>6, <1>7

(* Two slots are not equally far from head.                                *)
LEMMA AgesDiffer ==
  ASSUME NEW h \in 0 .. CBufferSize - 1, NEW p \in 0 .. CBufferSize - 1, NEW q \in 0 .. CBufferSize - 1,
         p # q
  PROVE  (IF p >= h THEN p - h ELSE p - h + CBufferSize) # (IF q >= h THEN q - h ELSE q - h + CBufferSize)
  BY CBufferAssumption

(* What is listed in order and stays is listed in order after the step.    *)
LEMMA StaysOrdered ==
  ASSUME CBInv, CBInv', NEW S, S \subseteq ValidSlots, S \subseteq ValidSlots',
         NEW r, Ordered(r, S, Ages),
         \A p, q \in S : Age(p)' < Age(q)' => Age(p) < Age(q)
  PROVE  \A i, j \in 1 .. Len(r) : i < j => Age(r[i])' < Age(r[j])'
<1> SUFFICES ASSUME NEW i \in 1 .. Len(r), NEW j \in 1 .. Len(r), i < j
             PROVE  Age(r[i])' < Age(r[j])'
  OBVIOUS
<1> DEFINE p == r[i]  q == r[j]
<1>1. p \in S /\ q \in S
  BY DEF Ordered
<1>2. Ages[p] < Ages[q]
  BY DEF Ordered
<1> HIDE DEF p, q
<1>3. Age(p) < Age(q) /\ Age(p) \in Nat /\ Age(q) \in Nat /\ p \in Slots /\ q \in Slots
  BY <1>1, <1>2, AgesAreNumbers
<1>4. ~ Age(q)' < Age(p)'
  <2>1. ASSUME Age(q)' < Age(p)' PROVE FALSE
    <3>1. Age(q) < Age(p)
      BY <1>1, <2>1
    <3> QED  BY <1>3, <3>1
  <2> QED  BY <2>1
<1>5. head' \in Slots
  BY DEF CBInv, CBTypeOK
<1>6. Age(p)' # Age(q)'
  <2>1. p # q
    BY <1>3
  <2> QED  BY <1>3, <1>5, <2>1, AgesDiffer DEF Age, Slots
<1>7. Age(p)' \in Int /\ Age(q)' \in Int
  BY <1>3, <1>5, CBufferAssumption DEF Age, Slots
<1>8. Age(p)' < Age(q)'
  BY <1>4, <1>6, <1>7
<1> QED  BY <1>8 DEF p, q

(* How far round the ring a slot lies is a number.                         *)
LEMMA AgeIsNumber ==
  ASSUME NEW h \in 0 .. CBufferSize - 1, NEW p \in 0 .. CBufferSize - 1
  PROVE  (IF p >= h THEN p - h ELSE p - h + CBufferSize) \in Nat
  BY CBufferAssumption

(* The valid slots in the order of their ages are what the walk lists.     *)
LEMMA NowListed ==
  ASSUME CBInv', RingList', NEW t, t \in Seq(ValidSlots'), Len(t) = Cardinality(ValidSlots'),
         \A p \in ValidSlots' : \E i \in 1 .. Len(t) : t[i] = p,
         \A i, j \in 1 .. Len(t) : i < j => Age(t[i])' < Age(t[j])'
  PROVE  Listed' = t
<1> DEFINE f == Ages'  S == ValidSlots'
<1>1. \A p \in S : p \in Slots /\ f[p] = Age(p)'
  BY DEF Ages, ValidSlots
<1>2. head' \in Slots
  BY DEF CBInv, CBTypeOK
<1>3. \A p \in S : f[p] \in Nat
  <2> HIDE DEF f, S
  <2> SUFFICES ASSUME NEW p \in S PROVE f[p] \in Nat
    OBVIOUS
  <2>1. p \in 0 .. CBufferSize - 1 /\ head' \in 0 .. CBufferSize - 1
    BY <1>1, <1>2 DEF Slots
  <2>2. f[p] = IF p >= head' THEN p - head' ELSE p - head' + CBufferSize
    BY <1>1 DEF Age
  <2> QED  BY <2>1, <2>2, AgeIsNumber
<1>4. \A i \in 1 .. Len(t) : t[i] \in S
  OBVIOUS
<1>5. Ordered(Listed', S, f)
  BY DEF RingList
<1> HIDE DEF f, S
<1>6. \A i, j \in 1 .. Len(t) : i < j => f[t[i]] < f[t[j]]
  BY <1>1, <1>4
<1>7. Ordered(t, S, f)
  BY <1>6 DEF Ordered, S
<1> QED  BY <1>3, <1>5, <1>7, OneOrder

-----------------------------------------------------------------------------
(* push: its insertion is behind all others, the one it replaces gone.     *)
LEMMA PushImplements ==
  ASSUME CBInv, CBInv', RingList, RingList', NEW address \in Addresses, Push(address)
  PROVE  Abstract!Push(address)
<1>1. nextPos \in Slots /\ futureDestinations \in [Slots -> Address]
  BY DEF CBInv, CBTypeOK
<1>2. /\ futureDestinations' = [futureDestinations EXCEPT ![nextPos] = [addr |-> address, valid |-> TRUE]]
      /\ nextPos' = (nextPos + 1) % CBufferSize
  BY NextPosFree DEF Push
<1>3. ValidSlots' = ValidSlots \cup {nextPos}
  BY <1>1, <1>2 DEF ValidSlots, IsValid, Address
<1> DEFINE S == ValidSlots \ {nextPos}
<1>4. PICK r : Ordered(r, S, Ages) /\ Abstract!Without(nextPos) = EntriesOf(r)
  BY <1>1, WithoutOne
<1>0. PICK t, last : t = Append(r, last) /\ last = nextPos
  OBVIOUS
<1>5. /\ r \in Seq(S) /\ Len(r) = Cardinality(S) /\ Len(r) \in Nat
      /\ \A p \in S : \E i \in 1 .. Len(r) : r[i] = p
      /\ \A i \in 1 .. Len(r) : r[i] \in S
  <2> HIDE DEF S
  <2>1. /\ r \in Seq(S) /\ Len(r) = Cardinality(S)
        /\ \A p \in S : \E i \in 1 .. Len(r) : r[i] = p
    BY <1>4 DEF Ordered
  <2> QED  BY <2>1
<1>6. S \subseteq ValidSlots /\ S \subseteq ValidSlots' /\ nextPos \in ValidSlots' /\ nextPos \notin S
      /\ ValidSlots' = S \cup {nextPos}
  BY <1>3
<1> HIDE DEF S
<1>7. ASSUME NEW p \in S
      PROVE  /\ Age(p)' < Age(last)'
             /\ \A q \in S : Age(p)' < Age(q)' => Age(p) < Age(q)
  <2>1. p \in ValidSlots' /\ p # nextPos
    BY <1>6
  <2>2. Age(p)' < Age(last)'
    <3>1. last \in ValidSlots'
      BY <1>6, <1>0
    <3> QED  BY <2>1, <3>1, <1>0, OrderKept
  <2>3. ASSUME NEW q \in S, Age(p)' < Age(q)' PROVE Age(p) < Age(q)
    <3>1. q \in ValidSlots' /\ q # nextPos
      BY <1>6
    <3> QED  BY <2>1, <2>3, <3>1, OrderKept
  <2> QED  BY <2>2, <2>3
<1>8. \A i, j \in 1 .. Len(r) : i < j => Age(r[i])' < Age(r[j])'
  <2>1. \A p, q \in S : Age(p)' < Age(q)' => Age(p) < Age(q)
    BY <1>7
  <2> QED  BY <1>4, <1>6, <2>1, StaysOrdered
<1>9. Cardinality(ValidSlots') = Len(r) + 1
  <2>1. IsFiniteSet(S)
    BY FiniteSlots DEF ValidSlots, S
  <2> QED  BY <2>1, <1>5, <1>6, FS_AddElement
<1>10. /\ t \in Seq(ValidSlots') /\ Len(t) = Len(r) + 1 /\ t[Len(r) + 1] = nextPos
       /\ \A i \in 1 .. Len(r) : t[i] = r[i]
  <2>1. r \in Seq(ValidSlots')
    BY <1>5, <1>6
  <2> QED  BY <2>1, <1>0, <1>5, <1>6
<1>11. \A p \in ValidSlots' : \E i \in 1 .. Len(t) : t[i] = p
  <2> SUFFICES ASSUME NEW p \in ValidSlots' PROVE \E i \in 1 .. Len(t) : t[i] = p
    OBVIOUS
  <2>1. CASE p = nextPos
    <3>1. Len(r) + 1 \in 1 .. Len(t)
      BY <1>5, <1>10
    <3> QED  BY <2>1, <3>1, <1>10
  <2>2. CASE p \in S
    <3>1. PICK i \in 1 .. Len(r) : r[i] = p
      BY <2>2, <1>5
    <3>2. i \in 1 .. Len(t)
      BY <1>5, <1>10
    <3> QED  BY <3>1, <3>2, <1>10
  <2> QED  BY <2>1, <2>2, <1>6
<1>12. \A i, j \in 1 .. Len(t) : i < j => Age(t[i])' < Age(t[j])'
  <2> SUFFICES ASSUME NEW i \in 1 .. Len(t), NEW j \in 1 .. Len(t), i < j
               PROVE  Age(t[i])' < Age(t[j])'
    OBVIOUS
  <2>1. i \in 1 .. Len(r) /\ t[i] = r[i] /\ r[i] \in S
    BY <1>5, <1>10
  <2>2. CASE j = Len(r) + 1
    <3>1. t[j] = last
      BY <2>2, <1>10, <1>0
    <3> QED  BY <2>1, <3>1, <1>7
  <2>3. CASE j # Len(r) + 1
    <3>1. j \in 1 .. Len(r) /\ t[j] = r[j]
      BY <2>3, <1>5, <1>10
    <3> QED  BY <2>1, <3>1, <1>8
  <2> QED  BY <2>2, <2>3
<1>13. Listed' = t
  <2>1. Len(t) = Cardinality(ValidSlots')
    BY <1>9, <1>10
  <2> QED  BY <2>1, <1>10, <1>11, <1>12, NowListed
<1> DEFINE fd == futureDestinations'
           E(p) == [pos |-> p, addr |-> fd[p].addr]
<1>14. Entries' = [i \in 1 .. Len(r) + 1 |-> E(t[i])]
  BY <1>10, <1>13 DEF Entries
<1>15. E(nextPos) = [pos |-> nextPos, addr |-> address]
  BY <1>1, <1>2
<1>16. \A i \in 1 .. Len(r) : E(r[i]) = [pos |-> r[i], addr |-> futureDestinations[r[i]].addr]
  <2> SUFFICES ASSUME NEW i \in 1 .. Len(r)
               PROVE  E(r[i]) = [pos |-> r[i], addr |-> futureDestinations[r[i]].addr]
    OBVIOUS
  <2>1. r[i] \in Slots /\ r[i] # nextPos
    BY <1>5, <1>6 DEF ValidSlots
  <2> QED  BY <2>1, <1>1, <1>2
<1>17. EntriesOf(r) = [i \in 1 .. Len(r) |-> E(r[i])]
  BY <1>16 DEF EntriesOf
<1> HIDE DEF E
<1>18. Entries' = Append(EntriesOf(r), E(nextPos))
  BY <1>5, <1>10, <1>14, <1>17
<1> QED  BY <1>2, <1>4, <1>15, <1>18 DEF Abstract!Push

(* pop: the insertion at pos is gone, the others stay in their order.      *)
LEMMA PopImplements ==
  ASSUME CBInv, CBInv', RingList, RingList', NEW pos \in Slots, PopValid(pos)
  PROVE  Abstract!Pop(pos)
<1>1. futureDestinations \in [Slots -> Address] /\ nextPos' = nextPos
      /\ futureDestinations' = [futureDestinations EXCEPT ![pos].valid = FALSE]
  BY DEF CBInv, CBTypeOK, PopValid
<1> DEFINE S == ValidSlots \ {pos}
<1>2. ValidSlots' = S
  BY <1>1 DEF ValidSlots, IsValid, Address
<1>3. PICK r : Ordered(r, S, Ages) /\ Abstract!Without(pos) = EntriesOf(r)
  BY WithoutOne
<1>4. \A p, q \in S : Age(p)' < Age(q)' => Age(p) < Age(q)
  <2> SUFFICES ASSUME NEW p \in S, NEW q \in S, Age(p)' < Age(q)' PROVE Age(p) < Age(q)
    OBVIOUS
  <2>1. p \in ValidSlots' /\ q \in ValidSlots' /\ Pop(pos)
    BY <1>2 DEF Pop
  <2> QED  BY <2>1, OrderKept
<1>5. S \subseteq ValidSlots /\ S \subseteq ValidSlots'
  BY <1>2
<1> HIDE DEF S
<1>6. \A i, j \in 1 .. Len(r) : i < j => Age(r[i])' < Age(r[j])'
  BY <1>3, <1>4, <1>5, StaysOrdered
<1>7. /\ r \in Seq(S) /\ Len(r) = Cardinality(S)
      /\ \A p \in S : \E i \in 1 .. Len(r) : r[i] = p
      /\ \A i \in 1 .. Len(r) : r[i] \in S
  BY <1>3 DEF Ordered
<1>8. Listed' = r
  BY <1>2, <1>6, <1>7, NowListed
<1>9. \A p \in Slots : futureDestinations'[p].addr = futureDestinations[p].addr
  BY <1>1 DEF Address
<1>10. \A i \in 1 .. Len(r) : r[i] \in Slots
  BY <1>5, <1>7 DEF ValidSlots
<1>11. Entries' = EntriesOf(r)
  BY <1>8, <1>9, <1>10 DEF Entries, EntriesOf
<1> QED  BY <1>1, <1>3, <1>11 DEF Abstract!Pop

(* The ring starts with an empty list.                                     *)
LEMMA StartsEmpty == CBInit /\ RingList => Abstract!Init
<1> SUFFICES ASSUME CBInit, RingList PROVE Abstract!Init
  OBVIOUS
<1>1. ValidSlots = {}
  BY DEF CBInit, ValidSlots, IsValid
<1>2. Len(Listed) = 0
  BY <1>1, FS_EmptySet DEF RingList, Ordered
<1>3. Entries = <<>>
  BY <1>2 DEF Entries
<1> QED  BY <1>3 DEF CBInit, Abstract!Init

(* Reading the ring of ccbuffer.h from head gives the list of the          *)
(* insertions still present, oldest first, for a ring of any size.         *)
THEOREM RingIsTheList == CBSpec => ImplementsFutureDestinations
<1>1. ASSUME CBInv, CBInv', RingList, RingList', [CBNext]_cbVars
      PROVE  [Abstract!Next]_Abstract!vars
  <2>1. CASE UNCHANGED cbVars
    <3>1. Listed' = Listed
      BY <2>1 DEF cbVars, Listed, Walk, IsValid, After
    <3> QED  BY <2>1, <3>1 DEF cbVars, Abstract!vars, Entries
  <2>2. ASSUME NEW address \in Addresses, Push(address) PROVE Abstract!Next
    BY <1>1, <2>2, PushImplements DEF Abstract!Next
  <2>3. ASSUME NEW pos \in Slots, PopValid(pos) PROVE Abstract!Next
    BY <1>1, <2>3, PopImplements DEF Abstract!Next, Slots
  <2> QED  BY <1>1, <2>1, <2>2, <2>3 DEF CBNext, Pop
<1>2. CBInit /\ RingList => Abstract!Init
  BY StartsEmpty
<1>3. CBSpec => []RingList
  BY RingInvariant, ListIsOrdered, PTL
<1> QED  BY <1>1, <1>2, <1>3, RingInvariant, PTL DEF CBSpec, ImplementsFutureDestinations, Abstract!Spec

-----------------------------------------------------------------------------
(* The inductive invariant.                                                *)

(* The types the other parts rest on: packets, queues, threads, extern.    *)
PacketTypes ==
  /\ packet \in [Packets -> PacketRecords]
  /\ \A p \in Packets : packet[p].ip => packet[p].dst \in Addresses

QueueTypes ==
  /\ arrived \in 0 .. NumPackets
  /\ input_buffer \in Seq(Packets) /\ output_buffer \in Seq(Packets) /\ sent \in Seq(Packets)
  /\ egress_buffers \in [EgressThreads -> SUBSET Packets]
  /\ send \in [Packets -> Nat] /\ lastSent \in [OutPorts -> Nat]

ThreadTypes ==
  /\ ingress \in [ stage : {"idle", "push", "table", "choose", "recv", "chosen", "enqueue"},
                   pkt : 0 .. NumPackets, outP : Ports \cup {0, NoPort}, fw : BOOLEAN ]
  /\ ingress.stage # "idle" => ingress.pkt \in Packets
  /\ egress \in [EgressThreads -> [stage : {"idle", "pop", "reward", "out"}, pkt : 0 .. NumPackets]]
  /\ \A w \in EgressThreads : egress[w].stage # "idle" => egress[w].pkt \in Packets

ExternTypes ==
  /\ nextId \in 0 .. RwsSize - 1
  /\ response \in Ports \cup {0}
  /\ owner \in [Slots -> 0 .. NumPackets]

StateTypeOK == PacketTypes /\ QueueTypes /\ ThreadTypes /\ ExternTypes

(* The number of packets ingress has taken, and of those it has finished. *)
Taken == arrived - Len(input_buffer)
Done == IF ingress.stage = "idle" THEN Taken ELSE Taken - 1

(* Packets wait for ingress in the order of their numbers. *)
InputInOrder ==
  /\ Taken \in 0 .. arrived
  /\ \A i \in 1 .. Len(input_buffer) : input_buffer[i] = Taken + i
  /\ ingress.stage # "idle" => ingress.pkt = Taken

(* Where a packet leaves and when; with line such a table, two packets of  *)
(* which one may leave before the other: the port is not the same, or they *)
(* came in that order, or their queue gave them one send time; and a queue *)
(* in which they all may.                                                  *)
LineOf == [p \in Packets |-> [port |-> packet[p].spec, time |-> send[p]]]

Before(p, q, line) ==
  /\ p # q
  /\ line[p].port = line[q].port => p < q \/ line[p].time = line[q].time

InOrder(queue, line) ==
  \A i, j \in 1 .. Len(queue) : i < j => Before(queue[i], queue[j], line)

Past == InSeq(sent) \cup InSeq(output_buffer)
Held(w) == egress[w].stage # "idle"

(* Packets sent may leave before those in the output buffer, those before  *)
(* the ones held by the egress threads, a held one before those in its     *)
(* thread's queue, and all came before the packet in ingress.              *)
QueuesInOrder == InOrder(sent, LineOf) /\ InOrder(output_buffer, LineOf)

InEgress ==
  /\ Past \subseteq 1 .. Done
  /\ \A w \in EgressThreads : \A p \in egress_buffers[w] :
       p \in 1 .. Done /\ ThreadOf(LineOf[p].port) = w
  /\ \A w \in EgressThreads : Held(w) =>
       egress[w].pkt \in 1 .. Done /\ ThreadOf(LineOf[egress[w].pkt].port) = w

StagesInOrder ==
  /\ \A p \in InSeq(sent), q \in InSeq(output_buffer) : Before(p, q, LineOf)
  /\ \A w \in EgressThreads : \A q \in egress_buffers[w] :
       /\ \A p \in Past : Before(p, q, LineOf)
       /\ Held(w) => Before(egress[w].pkt, q, LineOf)
  /\ \A w \in EgressThreads : Held(w) => \A p \in Past : Before(p, egress[w].pkt, LineOf)

(* In a queue, a later packet of a port has no earlier send time, nor one  *)
(* after the last its port was given: what get_next_tp is for.             *)
SendsInOrder ==
  \A w \in EgressThreads : \A p \in egress_buffers[w] :
    /\ LineOf[p].port \in OutPorts /\ LineOf[p].time <= lastSent[LineOf[p].port]
    /\ \A q \in egress_buffers[w] :
         p < q /\ LineOf[p].port = LineOf[q].port => LineOf[p].time <= LineOf[q].time

EgressInOrder == QueuesInOrder /\ InEgress /\ StagesInOrder /\ SendsInOrder

(* A valid slot belongs to an IPv4 packet that is past its push and        *)
(* carries the slot's position.                                            *)
EntriesOwned ==
  \A pos \in ValidSlots :
    /\ owner[pos] \in 1 .. Taken
    /\ packet[owner[pos]].ip /\ packet[owner[pos]].pos = pos
    /\ ingress.stage = "push" => owner[pos] # ingress.pkt

(* A port chosen without a learner is only met while there is none.        *)
PortOrNoLearner ==
  /\ ingress.stage = "chosen" => ingress.outP \in Ports \/ py # "connected"
  /\ CrashOnlyBeforeLearner

(* Between two packets the ingress thread holds none.                      *)
IdleHoldsNothing == ingress.stage = "idle" => ingress.pkt = 0

(* A question or an answer is on the socket only while ingress waits, and  *)
(* never both; a switch that connected has met its learner.                *)
SocketInOrder ==
  /\ request # NoRequest \/ response # 0 => ingress.stage = "recv"
  /\ request = NoRequest \/ response = 0
  /\ py = "connected" => peer # "absent"

(* Slots farther from head belong to later packets, and what they hold are *)
(* destinations of packets.                                                *)
EntriesInOrder ==
  /\ \A p, q \in ValidSlots : Age(p) < Age(q) => owner[p] < owner[q]
  /\ \A pos \in ValidSlots : futureDestinations[pos].addr \in Addresses

(* The packet about to ask its port has pushed last.                       *)
NewestEntry ==
  ingress.stage = "choose" =>
    /\ packet[ingress.pkt].ip /\ nextPos = (packet[ingress.pkt].pos + 1) % CBufferSize
    /\ futureDestinations[packet[ingress.pkt].pos].addr = packet[ingress.pkt].dst

(* The types of what is left: the extern's own state, and the history.     *)
CtrlTypes ==
  /\ hostsLoaded \in BOOLEAN
  /\ host \in Nodes \cup {NullHost}
  /\ counters \in [Addresses -> 0 .. UpdateFrequency]
  /\ nextRw \in 0 .. RwsSize - 1
  /\ rws \in [0 .. RwsSize - 1 -> Rewards]
  /\ py \in {"null", "created", "connected"}
  /\ peer \in {"absent", "listening", "serving", "closed"}
  /\ request \in Requests \cup {NoRequest}

HistoryTypes ==
  /\ status \in {"running", "crashed"}
  /\ overrun \in BOOLEAN
  /\ routed \in Seq(Packets)

(* A packet is routed at most once, and the queues have room for those     *)
(* in them.                                                                *)
RoutedSoFar ==
  Len(routed) <= IF ingress.stage \in {"push", "table", "choose"} THEN Taken - 1 ELSE Taken

Capacities ==
  Len(input_buffer) <= InputCapacity /\ Len(output_buffer) <= OutputCapacity

SwitchInv ==
  /\ CBInv
  /\ StateTypeOK
  /\ InputInOrder
  /\ EgressInOrder
  /\ EntriesOwned
  /\ NoEntryAfterEgress
  /\ IdleHoldsNothing
  /\ OwnEntry
  /\ SocketInOrder
  /\ PortOrNoLearner
  /\ EntriesInOrder
  /\ NewestEntry
  /\ RequestFits
  /\ CtrlTypes
  /\ HistoryTypes
  /\ RoutedSoFar
  /\ Capacities

-----------------------------------------------------------------------------
(* Which action changes which variable.                                    *)

EgressStep ==
  \E w \in EgressThreads : EgressTake(w) \/ PopAddress(w) \/ RewardSent(w) \/ EgressOut(w)

(* Which action changes which variable of the switch. *)
LEMMA Frame ==
  ASSUME [Next]_vars
  PROVE  /\ Receive \/ UNCHANGED arrived
         /\ Receive \/ IngressTake \/ UNCHANGED input_buffer
         /\ \/ Receive \/ PushAddress \/ IngressTable \/ ChoosePort \/ ForwardOrDrop
            \/ UNCHANGED packet
         /\ \/ IngressTake \/ PushAddress \/ SkipAddress \/ IngressTable \/ ChoosePort
            \/ PortChosen \/ ForwardOrDrop \/ Enqueue
            \/ UNCHANGED ingress
         /\ Enqueue \/ (\E w \in EgressThreads : EgressTake(w)) \/ UNCHANGED egress_buffers
         /\ Enqueue \/ UNCHANGED timeVars
         /\ EgressStep \/ UNCHANGED egress
         /\ (\E w \in EgressThreads : EgressOut(w)) \/ Transmit \/ UNCHANGED output_buffer
         /\ Transmit \/ UNCHANGED sent
         /\ PushAddress \/ (\E w \in EgressThreads : PopAddress(w)) \/ UNCHANGED cbVars
         /\ PushAddress \/ UNCHANGED <<owner, overrun>>
         /\ ChoosePort \/ UNCHANGED <<routed, nextRw>>
         /\ (\E w \in EgressThreads : RewardSent(w)) \/ UNCHANGED rws
         /\ ChoosePort \/ Learner \/ UNCHANGED <<request, peer>>
         /\ ChoosePort \/ PortChosen \/ UNCHANGED nextId
         /\ PortChosen \/ Learner \/ UNCHANGED response
         /\ ChoosePort \/ UNCHANGED py
         /\ Segfault \/ NeighborException \/ UNCHANGED status
<1> USE DEF vars, ctrlVars, idVars, socketVars, queueVars, timeVars, historyVars, EgressStep
<1>1. CASE UNCHANGED vars
  BY <1>1
<1>2. CASE Receive
  BY <1>2 DEF Receive
<1>3. CASE IngressTake
  BY <1>3 DEF IngressTake
<1>4. CASE PushAddress
  BY <1>4 DEF PushAddress, PushAddr
<1>5. CASE SkipAddress
  BY <1>5 DEF SkipAddress
<1>6. CASE IngressTable
  BY <1>6 DEF IngressTable
<1>7. CASE ChoosePort
  BY <1>7 DEF ChoosePort, GetOutputPort, NobodyListens
<1>8. CASE PortChosen
  BY <1>8 DEF PortChosen, PortReceived
<1>9. CASE ForwardOrDrop
  BY <1>9 DEF ForwardOrDrop
<1>10. CASE Enqueue
  BY <1>10 DEF Enqueue
<1>11. ASSUME NEW w \in EgressThreads, EgressTake(w)
       PROVE  UNCHANGED <<arrived, packet, input_buffer, ingress, output_buffer, sent, timeVars,
                          cbVars, owner, overrun, routed, nextRw, rws, request, peer,
                          nextId, response, py, status>>
  BY <1>11 DEF EgressTake
<1>12. ASSUME NEW w \in EgressThreads, PopAddress(w)
       PROVE  UNCHANGED <<arrived, packet, input_buffer, ingress, egress_buffers, output_buffer, timeVars,
                          sent, owner, overrun, routed, nextRw, rws, request, peer,
                          nextId, response, py, status>>
  BY <1>12 DEF PopAddress, PopAddr
<1>13. ASSUME NEW w \in EgressThreads, RewardSent(w)
       PROVE  UNCHANGED <<arrived, packet, input_buffer, ingress, egress_buffers, output_buffer, timeVars,
                          sent, cbVars, owner, overrun, routed, nextRw, request, peer,
                          nextId, response, py, status>>
  BY <1>13 DEF RewardSent, SendReward
<1>14. ASSUME NEW w \in EgressThreads, EgressOut(w)
       PROVE  UNCHANGED <<arrived, packet, input_buffer, ingress, egress_buffers, sent, timeVars,
                          cbVars, owner, overrun, routed, nextRw, rws, request, peer,
                          nextId, response, py, status>>
  BY <1>14 DEF EgressOut
<1>15. CASE Transmit
  BY <1>15 DEF Transmit
<1>16. CASE Learner
  BY <1>16 DEF Learner, PeerAnswers, PeerListens, PeerCloses
<1>17. CASE Segfault
  BY <1>17 DEF Segfault
<1>18. CASE NeighborException
  BY <1>18 DEF NeighborException
<1>19. CASE Rest \/ RecvSpins
  BY <1>1, <1>19 DEF Rest, RecvSpins
<1>20. CASE \E w \in EgressThreads : Egress(w)
  BY <1>11, <1>12, <1>13, <1>14, <1>20 DEF Egress
<1> HIDE DEF vars, ctrlVars, idVars, socketVars, queueVars, timeVars, historyVars, EgressStep
<1> QED
  BY <1>1, <1>2, <1>3, <1>4, <1>5, <1>6, <1>7, <1>8, <1>9, <1>10, <1>15, <1>16, <1>17,
     <1>18, <1>19, <1>20
  DEF Next, Step, Ingress

-----------------------------------------------------------------------------
(* Types.                                                                  *)

(* The types hold at the start. *)
LEMMA InitTypes == Init => StateTypeOK
<1> SUFFICES ASSUME Init PROVE StateTypeOK
  OBVIOUS
<1> USE CBufferAssumption, MLControllerAssumption, SimpleSwitchAssumption
<1>1. Fresh(AnyHeader) \in PacketRecords /\ ~ Fresh(AnyHeader).ip
  BY DEF Fresh, AnyHeader, PacketRecords, Slots
<1>2. PacketTypes
  BY <1>1 DEF Init, PacketTypes
<1>3. QueueTypes
  BY DEF Init, QueueTypes
<1>4. ThreadTypes
  BY DEF Init, ThreadTypes, Idle, EgressIdle
<1>5. ExternTypes
  BY DEF Init, CtrlInit, ExternTypes
<1> QED  BY <1>2, <1>3, <1>4, <1>5 DEF StateTypeOK

(* Packets keep their type: what the pipelines write into the headers and metadata is in
   range. *)
LEMMA NextPacketTypes ==
  ASSUME StateTypeOK, CBTypeOK, [Next]_vars
  PROVE  PacketTypes'
<1> USE SimpleSwitchAssumption
<1>1. packet \in [Packets -> PacketRecords] /\ (\A p \in Packets : packet[p].ip => packet[p].dst \in Addresses)
  BY DEF StateTypeOK, PacketTypes
<1>2. ASSUME NEW p \in Packets, NEW r \in PacketRecords, r.ip => r.dst \in Addresses,
             packet' = [packet EXCEPT ![p] = r]
      PROVE  PacketTypes'
  BY <1>1, <1>2 DEF PacketTypes
<1>3. CASE Receive
  <2>1. PICK header \in Headers : packet' = [packet EXCEPT ![arrived'] = Fresh(header)]
    BY <1>3 DEF Receive
  <2>2. arrived' \in Packets
    BY <1>3, MLControllerAssumption DEF Receive, StateTypeOK, QueueTypes, Packets
  <2>3. Fresh(header) \in PacketRecords /\ (Fresh(header).ip => Fresh(header).dst \in Addresses)
    <3>1. header \in [ ip : BOOLEAN, dst : Addresses \cup {NoAddress},
                       dmac : Nodes \cup {Unknown}, smac : Nodes \cup {Unknown} ]
          /\ (header.ip => header.dst \in Addresses)
      OBVIOUS
    <3>2. 0 \in Slots /\ 0 \in 0 .. RwsSize - 1
      BY CBufferAssumption, MLControllerAssumption DEF Slots
    <3> QED  BY <3>1, <3>2 DEF Fresh, PacketRecords
  <2> QED  BY <1>2, <2>1, <2>2, <2>3
<1> DEFINE p == ingress.pkt
<1>4. ASSUME ingress.stage # "idle"
      PROVE  p \in Packets /\ packet[p] \in PacketRecords
             /\ (packet[p].ip => packet[p].dst \in Addresses)
  BY <1>4, <1>1 DEF StateTypeOK, ThreadTypes
<1>5. ASSUME p \in Packets,
              \/ packet' = [packet EXCEPT ![p].spec = DropPort]
              \/ \E spec \in Ports :
                   packet' = [packet EXCEPT ![p].spec = spec, ![p].smac = packet[p].dmac]
       PROVE  PacketTypes'
  <2>1. packet[p] \in PacketRecords /\ (packet[p].ip => packet[p].dst \in Addresses)
    BY <1>1, <1>5
  <2>2. CASE packet' = [packet EXCEPT ![p].spec = DropPort]
    <3> DEFINE r == [packet[p] EXCEPT !.spec = DropPort]
    <3>1. r \in PacketRecords /\ r.ip = packet[p].ip /\ r.dst = packet[p].dst
      BY <2>1 DEF PacketRecords
    <3>2. packet' = [packet EXCEPT ![p] = r]
      BY <2>2
    <3> QED  BY <1>2, <1>5, <2>1, <3>1, <3>2
  <2>3. ASSUME NEW spec \in Ports,
               packet' = [packet EXCEPT ![p].spec = spec, ![p].smac = packet[p].dmac]
        PROVE  PacketTypes'
    <3> DEFINE r == [packet[p] EXCEPT !.spec = spec, !.smac = packet[p].dmac]
    <3>1. r \in PacketRecords /\ r.ip = packet[p].ip /\ r.dst = packet[p].dst
      BY <2>1 DEF PacketRecords
    <3>2. packet' = [packet EXCEPT ![p] = r]
      BY <2>3, <1>1, <1>5
    <3> QED  BY <1>2, <1>5, <2>1, <3>1, <3>2
  <2> QED  BY <1>5, <2>2, <2>3
<1>6. CASE PushAddress
  <2>1. p \in Packets /\ packet[p] \in PacketRecords
        /\ (packet[p].ip => packet[p].dst \in Addresses)
    BY <1>6, <1>4 DEF PushAddress
  <2>2. PushPos \in Slots
    BY CBufferAssumption DEF PushPos, CBTypeOK, Slots
  <2>3. packet' = [packet EXCEPT ![p] = [packet[p] EXCEPT !.pos = PushPos]]
    BY <1>6 DEF PushAddress
  <2>4. [packet[p] EXCEPT !.pos = PushPos] \in PacketRecords
        /\ [packet[p] EXCEPT !.pos = PushPos].ip = packet[p].ip
        /\ [packet[p] EXCEPT !.pos = PushPos].dst = packet[p].dst
    BY <2>1, <2>2 DEF PacketRecords
  <2> QED  BY <1>2, <2>1, <2>3, <2>4
<1>7. CASE IngressTable
  <2>1. p \in Packets
    BY <1>7, <1>4 DEF IngressTable
  <2>2. \/ packet' = [packet EXCEPT ![p].spec = DropPort]
        \/ \E spec \in Ports :
             packet' = [packet EXCEPT ![p].spec = spec, ![p].smac = packet[p].dmac]
    BY <1>7, <2>1 DEF IngressTable
  <2> QED  BY <1>5, <2>1, <2>2
<1>8. CASE ChoosePort
  <2>1. p \in Packets /\ packet[p] \in PacketRecords
        /\ (packet[p].ip => packet[p].dst \in Addresses)
    BY <1>8, <1>4 DEF ChoosePort
  <2>2. nextId \in 0 .. RwsSize - 1
    BY DEF StateTypeOK, ExternTypes
  <2>3. packet' = [packet EXCEPT ![p] = [packet[p] EXCEPT !.id = nextId]]
    BY <1>8 DEF ChoosePort
  <2>4. [packet[p] EXCEPT !.id = nextId] \in PacketRecords
        /\ [packet[p] EXCEPT !.id = nextId].ip = packet[p].ip
        /\ [packet[p] EXCEPT !.id = nextId].dst = packet[p].dst
    BY <2>1, <2>2 DEF PacketRecords
  <2> QED  BY <1>2, <2>1, <2>3, <2>4
<1>9. CASE ForwardOrDrop
  <2>1. p \in Packets
    BY <1>9, <1>4 DEF ForwardOrDrop
  <2>2. \/ packet' = [packet EXCEPT ![p].spec = DropPort]
        \/ \E spec \in Ports :
             packet' = [packet EXCEPT ![p].spec = spec, ![p].smac = packet[p].dmac]
    BY <1>9, <2>1 DEF ForwardOrDrop, NeighborThrows
  <2> QED  BY <1>5, <2>1, <2>2
<1>10. CASE UNCHANGED packet
  BY <1>10, <1>1 DEF PacketTypes
<1> QED  BY Frame, <1>3, <1>6, <1>7, <1>8, <1>9, <1>10

(* A queue that gains an element at its end, or loses its first.           *)
LEMMA Queues ==
  ASSUME NEW S, NEW q \in Seq(S)
  PROVE  /\ \A e \in S : /\ Append(q, e) \in Seq(S) /\ Len(Append(q, e)) = Len(q) + 1
                         /\ Append(q, e)[Len(q) + 1] = e
                         /\ \A i \in 1 .. Len(q) : Append(q, e)[i] = q[i]
         /\ q # <<>> => /\ Head(q) \in S /\ Head(q) = q[1] /\ Len(q) \in Nat \ {0}
                        /\ Tail(q) \in Seq(S) /\ Len(Tail(q)) = Len(q) - 1
                        /\ \A i \in 1 .. Len(q) - 1 : Tail(q)[i] = q[i + 1]
         /\ Len(q) \in Nat
         /\ \A i \in 1 .. Len(q) : q[i] \in S
         /\ \A e \in S : InSeq(Append(q, e)) = InSeq(q) \cup {e}
         /\ q # <<>> => InSeq(q) = {Head(q)} \cup InSeq(Tail(q))
         /\ InSeq(q) = {q[i] : i \in 1 .. Len(q)}
<1>1. /\ \A e \in S : /\ Append(q, e) \in Seq(S) /\ Len(Append(q, e)) = Len(q) + 1
                        /\ Append(q, e)[Len(q) + 1] = e
                        /\ \A i \in 1 .. Len(q) : Append(q, e)[i] = q[i]
      /\ q # <<>> => /\ Head(q) \in S /\ Head(q) = q[1] /\ Len(q) \in Nat \ {0}
                     /\ Tail(q) \in Seq(S) /\ Len(Tail(q)) = Len(q) - 1
                     /\ \A i \in 1 .. Len(q) - 1 : Tail(q)[i] = q[i + 1]
      /\ Len(q) \in Nat
      /\ \A i \in 1 .. Len(q) : q[i] \in S
  OBVIOUS
<1>2. \A r \in Seq(S) : InSeq(r) = {r[i] : i \in 1 .. Len(r)}
  BY DEF InSeq
<1>3. ASSUME NEW e \in S PROVE InSeq(Append(q, e)) = InSeq(q) \cup {e}
  <2> DEFINE r == Append(q, e)
  <2>1. r \in Seq(S) /\ Len(r) = Len(q) + 1 /\ r[Len(q) + 1] = e /\ Len(q) \in Nat
        /\ \A i \in 1 .. Len(q) : r[i] = q[i]
    BY <1>1
  <2>2. 1 .. Len(r) = (1 .. Len(q)) \cup {Len(q) + 1}
    BY <2>1
  <2> HIDE DEF r
  <2>3. InSeq(r) = {r[i] : i \in (1 .. Len(q)) \cup {Len(q) + 1}}
    BY <2>1, <2>2, <1>2
  <2>4. InSeq(q) = {q[i] : i \in 1 .. Len(q)}
    BY <1>2
  <2>5. InSeq(r) = {r[i] : i \in 1 .. Len(q)} \cup {e}
    BY <2>1, <2>3
  <2> QED  BY <2>1, <2>4, <2>5 DEF r
<1>4. ASSUME q # <<>> PROVE InSeq(q) = {Head(q)} \cup InSeq(Tail(q))
  <2> DEFINE r == Tail(q)
  <2>1. r \in Seq(S) /\ Len(r) = Len(q) - 1 /\ Len(q) \in Nat \ {0} /\ Head(q) = q[1]
        /\ \A i \in 1 .. Len(r) : r[i] = q[i + 1] /\ i + 1 \in 1 .. Len(q)
    BY <1>1, <1>4
  <2>2. \A i \in 1 .. Len(q) : i = 1 \/ (i - 1 \in 1 .. Len(r) /\ r[i - 1] = q[i])
    BY <2>1
  <2> HIDE DEF r
  <2>3. InSeq(q) \subseteq {Head(q)} \cup InSeq(r)
    BY <2>1, <2>2, <1>2
  <2>4. {Head(q)} \cup InSeq(r) \subseteq InSeq(q)
    BY <2>1, <2>2, <1>2
  <2> QED  BY <2>3, <2>4 DEF r
<1> QED  BY <1>1, <1>2, <1>3, <1>4

(* The queues go on holding packets. *)
LEMMA NextQueueTypes ==
  ASSUME StateTypeOK, [Next]_vars
  PROVE  QueueTypes'
<1>1. QueueTypes /\ ThreadTypes
  BY DEF StateTypeOK
<1>2. arrived' \in 0 .. NumPackets
  BY Frame, <1>1, MLControllerAssumption DEF QueueTypes, Receive
<1>3. input_buffer' \in Seq(Packets)
  <2>1. CASE Receive
    <3>1. arrived' \in Packets
      BY <2>1, <1>1, MLControllerAssumption DEF Receive, QueueTypes, Packets
    <3> QED  BY <2>1, <3>1, <1>1, Queues DEF Receive, QueueTypes
  <2>2. CASE IngressTake
    BY <2>2, <1>1, Queues DEF IngressTake, QueueTypes
  <2> QED  BY Frame, <2>1, <2>2, <1>1 DEF QueueTypes
<1>4. output_buffer' \in Seq(Packets)
  <2>1. ASSUME NEW w \in EgressThreads, EgressOut(w) PROVE output_buffer' \in Seq(Packets)
    BY <2>1, <1>1, Queues DEF EgressOut, QueueTypes, ThreadTypes
  <2>2. CASE Transmit
    BY <2>2, <1>1, Queues DEF Transmit, QueueTypes
  <2> QED  BY Frame, <2>1, <2>2, <1>1 DEF QueueTypes
<1>5. sent' \in Seq(Packets)
  <2>1. CASE Transmit
    BY <2>1, <1>1, Queues DEF Transmit, QueueTypes
  <2> QED  BY Frame, <2>1, <1>1 DEF QueueTypes
<1>6. egress_buffers' \in [EgressThreads -> SUBSET Packets]
  <2>1. CASE Enqueue
    <3>1. ingress.pkt \in Packets
      BY <2>1, <1>1 DEF Enqueue, ThreadTypes
    <3>2. \A v : egress_buffers' = [egress_buffers EXCEPT ![v] = @ \cup {ingress.pkt}] =>
                  egress_buffers' \in [EgressThreads -> SUBSET Packets]
      BY <3>1, <1>1 DEF QueueTypes
    <3>3. CASE UNCHANGED egress_buffers
      BY <3>3, <1>1 DEF QueueTypes
    <3> QED  BY <2>1, <3>2, <3>3 DEF Enqueue
  <2>2. ASSUME NEW w \in EgressThreads, EgressTake(w)
        PROVE  egress_buffers' \in [EgressThreads -> SUBSET Packets]
    BY <2>2, <1>1 DEF EgressTake, QueueTypes
  <2> QED  BY Frame, <2>1, <2>2, <1>1 DEF QueueTypes
<1>7. send' \in [Packets -> Nat] /\ lastSent' \in [OutPorts -> Nat]
  <2>1. CASE Enqueue
    <3>1. CASE UNCHANGED timeVars
      BY <3>1, <1>1 DEF timeVars, QueueTypes
    <3>2. ASSUME NEW now \in Times, packet[ingress.pkt].spec # DropPort,
                 send' = [send EXCEPT ![ingress.pkt] = NextTp(packet[ingress.pkt].spec, now)],
                 lastSent' = [lastSent EXCEPT ![packet[ingress.pkt].spec] =
                                NextTp(packet[ingress.pkt].spec, now)]
          PROVE  send' \in [Packets -> Nat] /\ lastSent' \in [OutPorts -> Nat]
      <4>1. packet[ingress.pkt].spec \in OutPorts
        <5>1. ingress.pkt \in Packets
          BY <2>1, <1>1 DEF Enqueue, ThreadTypes
        <5>2. packet[ingress.pkt] \in PacketRecords
          BY <5>1 DEF StateTypeOK, PacketTypes
        <5> QED  BY <5>2, <3>2 DEF PacketRecords, OutPorts
      <4>2. NextTp(packet[ingress.pkt].spec, now) \in Nat
        BY <4>1, <1>1, SimpleSwitchAssumption DEF NextTp, QueueTypes
      <4> QED  BY <3>2, <4>2, <1>1 DEF QueueTypes
    <3> QED  BY <2>1, <3>1, <3>2 DEF Enqueue
  <2> QED  BY Frame, <2>1, <1>1 DEF timeVars, QueueTypes
<1> QED  BY <1>2, <1>3, <1>4, <1>5, <1>6, <1>7 DEF QueueTypes

(* The threads keep their types. *)
LEMMA NextThreadTypes ==
  ASSUME StateTypeOK, [Next]_vars
  PROVE  ThreadTypes'
<1> DEFINE IngressOK == ingress \in
             [ stage : {"idle", "push", "table", "choose", "recv", "chosen", "enqueue"},
               pkt : 0 .. NumPackets, outP : Ports \cup {0, NoPort}, fw : BOOLEAN ]
             /\ (ingress.stage # "idle" => ingress.pkt \in Packets)
           EgressOK == egress \in
             [EgressThreads -> [stage : {"idle", "pop", "reward", "out"}, pkt : 0 .. NumPackets]]
             /\ \A w \in EgressThreads : egress[w].stage # "idle" => egress[w].pkt \in Packets
<1>1. Packets \subseteq 0 .. NumPackets
  BY MLControllerAssumption DEF Packets
<1>2. IngressOK /\ EgressOK /\ QueueTypes /\ response \in Ports \cup {0}
  BY DEF StateTypeOK, ThreadTypes, ExternTypes
<1>3. IngressOK'
  <2>1. ASSUME NEW stage \in {"table", "choose", "recv", "chosen", "enqueue"}, Goto(stage),
               ingress.stage # "idle"
        PROVE  IngressOK'
    BY <2>1, <1>2 DEF Goto
  <2>2. ASSUME NEW port \in Ports \cup {0, NoPort}, ingress.stage # "idle",
               ingress' = [ingress EXCEPT !.stage = "chosen", !.outP = port, !.fw = DoForward(port)]
        PROVE  IngressOK'
    BY <2>2, <1>2 DEF DoForward
  <2>3. CASE IngressTake
    <3>1. Head(input_buffer) \in Packets /\ Head(input_buffer) \in 0 .. NumPackets
      BY <2>3, <1>2, <1>1, Queues DEF IngressTake, QueueTypes
    <3> QED  BY <3>1, <2>3 DEF IngressTake, Idle
  <2>4. CASE PushAddress
    BY <2>4, <2>1 DEF PushAddress
  <2>5. CASE SkipAddress
    BY <2>5, <2>1 DEF SkipAddress
  <2>6. CASE IngressTable
    BY <2>6, <2>1 DEF IngressTable
  <2>7. CASE ChoosePort
    BY <2>7, <2>1, <2>2 DEF ChoosePort
  <2>8. CASE PortChosen
    BY <2>8, <2>2, <1>2 DEF PortChosen
  <2>9. CASE ForwardOrDrop
    BY <2>9, <2>1 DEF ForwardOrDrop
  <2>10. CASE Enqueue
    BY <2>10, MLControllerAssumption DEF Enqueue, Idle
  <2> QED  BY Frame, <2>3, <2>4, <2>5, <2>6, <2>7, <2>8, <2>9, <2>10, <1>2
<1>4. EgressOK'
  <2>1. ASSUME NEW w \in EgressThreads, EgressTake(w) PROVE EgressOK'
    <3>1. PICK p \in egress_buffers[w] : egress' = [egress EXCEPT ![w] = [stage |-> "pop", pkt |-> p]]
      BY <2>1 DEF EgressTake
    <3>2. p \in Packets /\ p \in 0 .. NumPackets
      BY <2>1, <1>2, <1>1 DEF QueueTypes
    <3> QED  BY <3>1, <3>2, <1>2
  <2>2. ASSUME NEW w \in EgressThreads, NEW stage \in {"reward", "out"},
               egress[w].stage # "idle", egress' = [egress EXCEPT ![w].stage = stage]
        PROVE  EgressOK'
    BY <2>2, <1>2
  <2>3. ASSUME NEW w \in EgressThreads, PopAddress(w) PROVE EgressOK'
    BY <2>3, <2>2 DEF PopAddress
  <2>4. ASSUME NEW w \in EgressThreads, RewardSent(w) PROVE EgressOK'
    BY <2>4, <2>2 DEF RewardSent
  <2>5. ASSUME NEW w \in EgressThreads, EgressOut(w) PROVE EgressOK'
    BY <2>5, <1>2, MLControllerAssumption DEF EgressOut, EgressIdle
  <2> QED  BY Frame, <2>1, <2>3, <2>4, <2>5, <1>2 DEF EgressStep
<1> QED  BY <1>3, <1>4 DEF ThreadTypes

(* The variables of the extern and of its client keep their types. *)
LEMMA NextExternTypes ==
  ASSUME StateTypeOK, CBTypeOK, [Next]_vars
  PROVE  ExternTypes'
<1>1. ExternTypes /\ ThreadTypes
  BY DEF StateTypeOK
<1>2. nextId' \in 0 .. RwsSize - 1
  <2>1. NextIdUp => nextId' \in 0 .. RwsSize - 1
    BY <1>1, MLControllerAssumption DEF NextIdUp, ExternTypes
  <2> QED  BY Frame, <2>1, <1>1
           DEF ChoosePort, NobodyListens, GetOutputPort, PortChosen, PortReceived, ExternTypes
<1>3. response' \in Ports \cup {0}
  BY Frame, <1>1 DEF PortChosen, PortReceived, Learner, PeerAnswers, PeerListens, PeerCloses,
                     ExternTypes
<1>4. owner' \in [Slots -> 0 .. NumPackets]
  <2>1. CASE PushAddress
    <3>1. ingress.pkt \in 0 .. NumPackets
      BY <1>1 DEF ThreadTypes
    <3> QED  BY <2>1, <3>1, <1>1 DEF PushAddress, ExternTypes
  <2> QED  BY Frame, <2>1, <1>1 DEF ExternTypes
<1> QED  BY <1>2, <1>3, <1>4 DEF ExternTypes

-----------------------------------------------------------------------------
(* Order of arrival.                                                       *)

(* The ingress thread keeps the packet it holds until Enqueue.             *)
LEMMA IngressMoves ==
  ASSUME StateTypeOK, [Next]_vars
  PROVE  \/ IngressTake \/ Enqueue \/ UNCHANGED ingress
         \/ /\ ingress.stage # "idle" /\ ingress'.stage \notin {"idle", "push"}
            /\ ingress'.pkt = ingress.pkt
<1> DEFINE Moves == /\ ingress.stage # "idle" /\ ingress'.stage \notin {"idle", "push"}
                    /\ ingress'.pkt = ingress.pkt
<1>1. ThreadTypes
  BY DEF StateTypeOK
<1>2. ASSUME NEW stage \in {"table", "choose", "recv", "enqueue"}, Goto(stage), ingress.stage # "idle"
      PROVE  Moves
  BY <1>1, <1>2 DEF ThreadTypes, Goto
<1>3. ASSUME NEW port, NEW fw, ingress.stage # "idle",
             ingress' = [ingress EXCEPT !.stage = "chosen", !.outP = port, !.fw = fw]
      PROVE  Moves
  BY <1>1, <1>3 DEF ThreadTypes
<1>4. CASE PushAddress
  BY <1>4, <1>2 DEF PushAddress
<1>5. CASE SkipAddress
  BY <1>5, <1>2 DEF SkipAddress
<1>6. CASE IngressTable
  BY <1>6, <1>2 DEF IngressTable
<1>7. CASE ChoosePort
  BY <1>7, <1>2, <1>3 DEF ChoosePort
<1>8. CASE PortChosen
  BY <1>8, <1>3 DEF PortChosen
<1>9. CASE ForwardOrDrop
  BY <1>9, <1>2 DEF ForwardOrDrop
<1> QED  BY Frame, <1>4, <1>5, <1>6, <1>7, <1>8, <1>9

(* Only the packet in ingress, or the one received, changes.               *)
LEMMA PacketMoves ==
  ASSUME StateTypeOK, [Next]_vars, NEW p \in Packets, packet'[p] # packet[p]
  PROVE  \/ Receive /\ p = arrived + 1
         \/ ingress.stage # "idle" /\ p = ingress.pkt
<1>1. PacketTypes /\ ThreadTypes
  BY DEF StateTypeOK
<1>2. Receive \/ PushAddress \/ IngressTable \/ ChoosePort \/ ForwardOrDrop
  BY Frame
<1>3. CASE Receive
  BY <1>3, <1>1 DEF Receive, PacketTypes
<1>4. CASE PushAddress
  BY <1>4, <1>1 DEF PushAddress, PacketTypes
<1>5. CASE IngressTable
  BY <1>5, <1>1 DEF IngressTable, PacketTypes
<1>6. CASE ChoosePort
  BY <1>6, <1>1 DEF ChoosePort, PacketTypes
<1>7. CASE ForwardOrDrop
  BY <1>7, <1>1 DEF ForwardOrDrop, PacketTypes
<1> QED  BY <1>2, <1>3, <1>4, <1>5, <1>6, <1>7

(* The input queue stays in order, and ingress finishes one packet after   *)
(* the other; those finished do not change any more.                       *)
LEMMA InputStep ==
  ASSUME StateTypeOK, StateTypeOK', InputInOrder, [Next]_vars
  PROVE  /\ InputInOrder'
         /\ Done \in 0 .. Taken /\ Done' \in 0 .. Taken'
         /\ IF Enqueue THEN ingress.pkt = Done + 1 /\ Done' = Done + 1 ELSE Done' = Done
         /\ IF IngressTake THEN Taken' = Taken + 1 ELSE Taken' = Taken
         /\ \A p \in 1 .. Done : p \in Packets /\ packet'[p] = packet[p]
<1> DEFINE Moved ==
      /\ InputInOrder'
      /\ Done \in 0 .. Taken /\ Done' \in 0 .. Taken'
      /\ IF Enqueue THEN ingress.pkt = Done + 1 /\ Done' = Done + 1 ELSE Done' = Done
      /\ IF IngressTake THEN Taken' = Taken + 1 ELSE Taken' = Taken
<1>1. /\ arrived \in 0 .. NumPackets /\ arrived' \in 0 .. NumPackets /\ NumPackets \in Nat
      /\ input_buffer \in Seq(Packets) /\ Len(input_buffer) \in Nat
      /\ Taken \in 0 .. arrived
      /\ ingress.stage # "idle" => ingress.pkt = Taken /\ ingress.pkt \in 1 .. NumPackets
      /\ \A i \in 1 .. Len(input_buffer) : input_buffer[i] = Taken + i
  BY MLControllerAssumption
  DEF StateTypeOK, QueueTypes, ThreadTypes, InputInOrder, Packets
<1>2. Done \in 0 .. Taken
  BY <1>1 DEF Done
<1>3. ASSUME Receive PROVE Moved
  <2>1. /\ arrived' = arrived + 1 /\ ingress' = ingress
        /\ Len(input_buffer') = Len(input_buffer) + 1
        /\ input_buffer'[Len(input_buffer) + 1] = arrived'
        /\ \A i \in 1 .. Len(input_buffer) : input_buffer'[i] = input_buffer[i]
    BY <1>3, <1>1, Queues DEF Receive
  <2>2. Taken' = Taken /\ Done' = Done
    BY <2>1, <1>1 DEF Taken, Done
  <2>3. \A i \in 1 .. Len(input_buffer') : input_buffer'[i] = Taken' + i
    BY <2>1, <2>2, <1>1 DEF Taken
  <2>4. ~ Enqueue /\ ~ IngressTake
    BY <2>1 DEF Enqueue, IngressTake, Idle
  <2>5. InputInOrder'
    BY <2>1, <2>2, <2>3, <1>1 DEF InputInOrder
  <2> QED  BY <2>2, <2>4, <2>5, <1>2
<1>4. ASSUME IngressTake PROVE Moved
  <2>1. /\ arrived' = arrived /\ ingress.stage = "idle" /\ ingress'.stage = "push"
        /\ ingress'.pkt = input_buffer[1] /\ Len(input_buffer) # 0
        /\ Len(input_buffer') = Len(input_buffer) - 1
        /\ \A i \in 1 .. Len(input_buffer) - 1 : input_buffer'[i] = input_buffer[i + 1]
    <3>1. arrived' = arrived /\ ingress.stage = "idle" /\ ingress'.stage = "push"
          /\ ingress'.pkt = Head(input_buffer) /\ input_buffer # <<>>
          /\ input_buffer' = Tail(input_buffer)
      BY <1>4 DEF IngressTake, Idle
    <3> QED  BY <3>1, <1>1, Queues
  <2>2. Taken' = Taken + 1 /\ Done = Taken /\ Done' = Taken /\ ~ Enqueue
    BY <2>1, <1>1 DEF Taken, Done, Enqueue
  <2>3. Len(input_buffer) \in Nat \ {0} /\ Taken' \in 0 .. arrived'
    BY <2>1, <1>1 DEF Taken
  <2>4. \A i \in 1 .. Len(input_buffer') : input_buffer'[i] = Taken' + i
    BY <2>1, <2>2, <2>3, <1>1
  <2>5. InputInOrder'
    BY <2>1, <2>2, <2>3, <2>4, <1>1 DEF InputInOrder
  <2>6. Done' \in 0 .. Taken'
    BY <2>2, <1>1
  <2> QED  BY <1>4, <1>2, <2>2, <2>5, <2>6
<1>5. ASSUME Enqueue PROVE Moved
  <2>1. arrived' = arrived /\ input_buffer' = input_buffer
        /\ ingress.stage = "enqueue" /\ ingress'.stage = "idle"
    BY <1>5 DEF Enqueue, Idle
  <2>2. Taken' = Taken /\ Done = Taken - 1 /\ Done' = Taken
    BY <2>1 DEF Taken, Done
  <2>3. ~ IngressTake
    BY <2>1 DEF IngressTake
  <2> QED  BY <1>5, <2>1, <2>2, <2>3, <1>1, <1>2 DEF InputInOrder
<1>6. ASSUME ~ Receive /\ ~ IngressTake /\ ~ Enqueue PROVE Moved
  <2>1. /\ arrived' = arrived /\ input_buffer' = input_buffer
        /\ ingress'.stage = "idle" <=> ingress.stage = "idle"
        /\ ingress'.pkt = ingress.pkt
    BY <1>6, Frame, IngressMoves
  <2>2. Taken' = Taken /\ Done' = Done
    BY <2>1 DEF Taken, Done
  <2> QED  BY <1>6, <2>1, <2>2, <1>1, <1>2 DEF InputInOrder
<1>7. ASSUME NEW p \in 1 .. Done PROVE p \in Packets /\ packet'[p] = packet[p]
  <2>1. p \in Packets /\ p <= Taken /\ p <= Done /\ p \in Nat
    BY <1>1, <1>2, <1>7 DEF Packets
  <2>2. p # arrived + 1
    BY <2>1, <1>1
  <2>3. ingress.stage # "idle" => p # ingress.pkt
    BY <2>1, <1>1 DEF Done
  <2> QED  BY <2>1, <2>2, <2>3, PacketMoves
<1> QED  BY <1>2, <1>3, <1>4, <1>5, <1>6, <1>7

-----------------------------------------------------------------------------
(* Order of departure.                                                     *)

(* A queue in order stays so when it gains a packet that comes after those *)
(* in it, loses its first, or when the lines of other packets change.      *)
LEMMA InOrderKept ==
  ASSUME NEW q \in Seq(Packets), NEW line, InOrder(q, line)
  PROVE  /\ \A e \in Packets :
              (\A p \in InSeq(q) : Before(p, e, line)) => InOrder(Append(q, e), line)
         /\ q # <<>> => InOrder(Tail(q), line) /\ \A p \in InSeq(Tail(q)) : Before(Head(q), p, line)
         /\ \A other : (\A p \in InSeq(q) : other[p] = line[p]) => InOrder(q, other)
<1>1. ASSUME NEW e \in Packets, \A p \in InSeq(q) : Before(p, e, line)
      PROVE  InOrder(Append(q, e), line)
  BY <1>1, Queues DEF InOrder
<1>2. ASSUME q # <<>>
      PROVE  InOrder(Tail(q), line) /\ \A p \in InSeq(Tail(q)) : Before(Head(q), p, line)
  <2> DEFINE r == Tail(q)
  <2>1. /\ r \in Seq(Packets) /\ Len(r) = Len(q) - 1
        /\ Head(q) = q[1] /\ Len(q) \in Nat \ {0}
        /\ \A i \in 1 .. Len(q) - 1 : r[i] = q[i + 1]
    BY <1>2, Queues
  <2>2. InSeq(r) = {r[i] : i \in 1 .. Len(r)}
    <3> HIDE DEF r
    <3> QED  BY <2>1, Queues
  <2> HIDE DEF r
  <2>3. /\ InSeq(r) = {r[i] : i \in 1 .. Len(r)} /\ Head(q) = q[1]
        /\ \A i \in 1 .. Len(r) : r[i] = q[i + 1] /\ i + 1 \in 1 .. Len(q) /\ i + 1 > 1
        /\ \A i, j \in 1 .. Len(r) : i < j => i + 1 < j + 1
    BY <2>1, <2>2
  <2>4. 1 \in 1 .. Len(q)
    BY <2>1
  <2>5. InOrder(r, line)
    BY <2>3 DEF InOrder
  <2>6. \A p \in InSeq(r) : Before(Head(q), p, line)
    BY <2>3, <2>4 DEF InOrder
  <2> QED  BY <2>5, <2>6 DEF r
<1>3. ASSUME NEW other, \A p \in InSeq(q) : other[p] = line[p]
      PROVE  InOrder(q, other)
  BY <1>3, Queues DEF InOrder, Before
<1> QED  BY <1>1, <1>2, <1>3

(* The order survives a step that moves no packet through egress: packets  *)
(* past ingress do not change, so their lines are still those of LineOf.   *)
LEMMA LinesKept ==
  ASSUME StateTypeOK, StateTypeOK', InputInOrder, EgressInOrder, [Next]_vars
  PROVE  /\ InOrder(sent, LineOf') /\ InOrder(output_buffer, LineOf')
         /\ Past \subseteq 1 .. Done'
         /\ \A w \in EgressThreads : \A p \in egress_buffers[w] :
              /\ p \in 1 .. Done' /\ ThreadOf(LineOf'[p].port) = w
              /\ LineOf'[p] = LineOf[p]
         /\ \A w \in EgressThreads : Held(w) =>
              egress[w].pkt \in 1 .. Done' /\ ThreadOf(LineOf'[egress[w].pkt].port) = w
         /\ \A p \in InSeq(sent), q \in InSeq(output_buffer) : Before(p, q, LineOf')
         /\ \A w \in EgressThreads : \A q \in egress_buffers[w] :
              /\ \A p \in Past : Before(p, q, LineOf')
              /\ Held(w) => Before(egress[w].pkt, q, LineOf')
         /\ \A w \in EgressThreads : Held(w) => \A p \in Past : Before(p, egress[w].pkt, LineOf')
         /\ Done \in Nat /\ Done' \in Nat
<1>1. /\ Done \in Nat /\ Done' \in Nat /\ Done <= Done'
      /\ \A p \in 1 .. Done : p \in Packets /\ packet'[p] = packet[p]
  <2>1. Taken \in Nat /\ Taken' \in Nat
    <3>1. arrived \in Nat /\ arrived' \in Nat
      BY MLControllerAssumption DEF StateTypeOK, QueueTypes
    <3> QED  BY <3>1, InputStep DEF InputInOrder
  <2> QED  BY <2>1, InputStep
<1>2. \A p \in 1 .. Done : p \in 1 .. Done' /\ LineOf'[p] = LineOf[p]
  <2>1. ASSUME NEW p \in 1 .. Done PROVE send'[p] = send[p]
    <3>1. CASE Enqueue
      <4>1. ingress.pkt = Done + 1
        BY <3>1, <1>1 DEF Enqueue, InputInOrder, Done
      <4> QED  BY <3>1, <4>1, <1>1 DEF Enqueue, timeVars, StateTypeOK, QueueTypes
    <3> QED  BY <3>1, Frame DEF timeVars
  <2> QED  BY <1>1, <2>1 DEF LineOf
<1>3. sent \in Seq(Packets) /\ output_buffer \in Seq(Packets)
  BY DEF StateTypeOK, QueueTypes
<1>4. /\ InSeq(sent) \subseteq 1 .. Done /\ InSeq(output_buffer) \subseteq 1 .. Done
      /\ \A w \in EgressThreads : egress_buffers[w] \subseteq 1 .. Done
  BY DEF EgressInOrder, InEgress, Past
<1>5. InOrder(sent, LineOf') /\ InOrder(output_buffer, LineOf')
  <2>1. ASSUME NEW q \in Seq(Packets), InSeq(q) \subseteq 1 .. Done, InOrder(q, LineOf)
        PROVE  InOrder(q, LineOf')
    BY <2>1, <1>2, InOrderKept
  <2> QED  BY <2>1, <1>3, <1>4 DEF EgressInOrder, QueuesInOrder
<1>6. /\ Past \subseteq 1 .. Done'
      /\ \A w \in EgressThreads : \A p \in egress_buffers[w] :
           /\ p \in 1 .. Done' /\ ThreadOf(LineOf'[p].port) = w
           /\ LineOf'[p] = LineOf[p]
      /\ \A w \in EgressThreads : Held(w) =>
           egress[w].pkt \in 1 .. Done' /\ ThreadOf(LineOf'[egress[w].pkt].port) = w
  BY <1>2 DEF EgressInOrder, InEgress
<1>7. \A p, q \in 1 .. Done : Before(p, q, LineOf) => Before(p, q, LineOf')
  BY <1>2 DEF Before
<1>8. /\ \A p \in InSeq(sent), q \in InSeq(output_buffer) : Before(p, q, LineOf')
      /\ \A w \in EgressThreads : \A q \in egress_buffers[w] :
           /\ \A p \in Past : Before(p, q, LineOf')
           /\ Held(w) => Before(egress[w].pkt, q, LineOf')
      /\ \A w \in EgressThreads : Held(w) => \A p \in Past : Before(p, egress[w].pkt, LineOf')
  BY <1>4, <1>7 DEF EgressInOrder, StagesInOrder, InEgress
<1> QED  BY <1>1, <1>5, <1>6, <1>8

(* The send times stay in order: a packet that joins a queue is the newest *)
(* and is given no earlier time than the last of its port.                 *)
LEMMA SendsInOrderKept ==
  ASSUME StateTypeOK, StateTypeOK', InputInOrder, EgressInOrder, [Next]_vars
  PROVE  SendsInOrder'
<1>1. /\ egress_buffers \in [EgressThreads -> SUBSET Packets]
      /\ egress_buffers' \in [EgressThreads -> SUBSET Packets]
      /\ lastSent \in [OutPorts -> Nat] /\ send \in [Packets -> Nat] /\ send' \in [Packets -> Nat]
  BY DEF StateTypeOK, QueueTypes
<1>2. ASSUME \A w \in EgressThreads : egress_buffers'[w] \subseteq egress_buffers[w],
             UNCHANGED timeVars
      PROVE  SendsInOrder'
  BY <1>2, LinesKept DEF SendsInOrder, EgressInOrder, timeVars
<1> DEFINE e    == ingress.pkt
           port == packet[e].spec
<1>3. ASSUME Enqueue, port # DropPort,
             egress_buffers' = [egress_buffers EXCEPT ![ThreadOf(port)] = @ \cup {e}],
             NEW now \in Times,
             send' = [send EXCEPT ![e] = NextTp(port, now)],
             lastSent' = [lastSent EXCEPT ![port] = NextTp(port, now)]
      PROVE  SendsInOrder'
  <2>1. e \in Packets /\ e = Done + 1 /\ Done \in Nat /\ packet' = packet
    BY <1>3, LinesKept DEF Enqueue, StateTypeOK, ThreadTypes, InputInOrder, Done
  <2>2. port \in OutPorts
    <3>1. packet[e] \in PacketRecords
      BY <2>1 DEF StateTypeOK, PacketTypes
    <3> QED  BY <3>1, <1>3 DEF PacketRecords, OutPorts
  <2> DEFINE time == NextTp(port, now)
  <2>3. /\ time \in Nat /\ lastSent[port] <= time
        /\ send' = [send EXCEPT ![e] = time] /\ lastSent' = [lastSent EXCEPT ![port] = time]
    BY <1>3, <2>2, <1>1, SimpleSwitchAssumption DEF NextTp
  <2> HIDE DEF time
  <2>4. LineOf'[e] = [port |-> port, time |-> time]
    BY <2>1, <2>3, <1>1 DEF LineOf
  <2>5. ASSUME NEW w \in EgressThreads, NEW p \in egress_buffers[w]
        PROVE  /\ LineOf'[p] = LineOf[p] /\ p < e /\ p \in Nat
               /\ LineOf[p].port \in OutPorts /\ LineOf[p].time \in Nat
               /\ LineOf[p].time <= lastSent[LineOf[p].port]
               /\ lastSent[LineOf[p].port] <= lastSent'[LineOf[p].port]
               /\ LineOf[p].port = port => LineOf[p].time <= time
    <3>1. p \in 1 .. Done /\ p \in Packets
      BY <2>5, <1>1 DEF EgressInOrder, InEgress
    <3>2. LineOf[p].port \in OutPorts /\ LineOf[p].time <= lastSent[LineOf[p].port]
      BY <2>5 DEF EgressInOrder, SendsInOrder
    <3>3. LineOf[p].time \in Nat
      BY <3>1, <1>1 DEF LineOf
    <3>4. lastSent[LineOf[p].port] \in Nat /\ lastSent[port] \in Nat
      BY <3>2, <2>2, <1>1
    <3>5. lastSent'[LineOf[p].port] = IF LineOf[p].port = port THEN time ELSE lastSent[LineOf[p].port]
      BY <3>2, <2>3, <1>1
    <3> QED  BY <3>1, <3>2, <3>3, <3>4, <3>5, <2>1, <2>3, <2>5, LinesKept
  <2>6. ASSUME NEW w \in EgressThreads, NEW p \in egress_buffers'[w]
        PROVE  p \in egress_buffers[w] \/ p = e
    BY <2>6, <1>3, <1>1
  <2>7. ASSUME NEW w \in EgressThreads, NEW p \in egress_buffers'[w]
        PROVE  LineOf'[p].port \in OutPorts /\ LineOf'[p].time <= lastSent'[LineOf'[p].port]
    <3>1. CASE p = e
      BY <3>1, <2>2, <2>3, <2>4, <1>1
    <3>2. CASE p \in egress_buffers[w]
      <4>1. /\ LineOf'[p] = LineOf[p] /\ LineOf[p].port \in OutPorts /\ LineOf[p].time \in Nat
            /\ LineOf[p].time <= lastSent[LineOf[p].port]
            /\ lastSent[LineOf[p].port] <= lastSent'[LineOf[p].port]
        BY <3>2, <2>5
      <4>2. lastSent[LineOf[p].port] \in Nat /\ lastSent'[LineOf[p].port] \in Nat
        BY <4>1, <1>1 DEF StateTypeOK, QueueTypes
      <4> QED  BY <4>1, <4>2
    <3> QED  BY <3>1, <3>2, <2>6, <2>7
  <2>8. ASSUME NEW w \in EgressThreads, NEW p \in egress_buffers'[w], NEW q \in egress_buffers'[w],
               p < q, LineOf'[p].port = LineOf'[q].port
        PROVE  LineOf'[p].time <= LineOf'[q].time
    <3>1. CASE q = e
      <4>1. p \in egress_buffers[w]
        BY <2>6, <2>8, <3>1, <2>1
      <4> QED  BY <4>1, <3>1, <2>4, <2>5, <2>8
    <3>2. CASE q \in egress_buffers[w]
      <4>1. p \in egress_buffers[w]
        <5>1. q < e /\ q \in Nat /\ e \in Nat
          BY <3>2, <2>5, <2>1
        <5> QED  BY <2>6, <2>8, <5>1
      <4>2. LineOf'[p] = LineOf[p] /\ LineOf'[q] = LineOf[q]
        BY <3>2, <4>1, <2>5
      <4> QED  BY <3>2, <4>1, <4>2, <2>8 DEF EgressInOrder, SendsInOrder
    <3> QED  BY <3>1, <3>2, <2>6, <2>8
  <2> QED  BY <2>7, <2>8 DEF SendsInOrder
<1>4. CASE Enqueue
  BY <1>2, <1>3, <1>4 DEF Enqueue
<1>5. ASSUME NEW w \in EgressThreads, EgressTake(w) PROVE SendsInOrder'
  <2>1. /\ \A v \in EgressThreads : egress_buffers'[v] \subseteq egress_buffers[v]
        /\ UNCHANGED timeVars
    BY <1>5, <1>1 DEF EgressTake, timeVars
  <2> QED  BY <2>1, <1>2
<1> QED  BY Frame, <1>2, <1>4, <1>5

(* Every step keeps the order of arrival among what is sent, about to be, in egress and
   queued. *)
LEMMA EgressOrderKept ==
  ASSUME StateTypeOK, StateTypeOK', InputInOrder, EgressInOrder, [Next]_vars
  PROVE  EgressInOrder'
<1>1. /\ sent \in Seq(Packets) /\ output_buffer \in Seq(Packets)
      /\ egress_buffers \in [EgressThreads -> SUBSET Packets]
      /\ egress \in [EgressThreads -> [stage : {"idle", "pop", "reward", "out"}, pkt : 0 .. NumPackets]]
      /\ \A w \in EgressThreads : Held(w) => egress[w].pkt \in Packets
  BY DEF StateTypeOK, QueueTypes, ThreadTypes, Held
<1>2. ASSUME UNCHANGED <<egress_buffers, output_buffer, sent>>,
             \A w \in EgressThreads : /\ egress'[w].stage = "idle" <=> egress[w].stage = "idle"
                                      /\ egress'[w].pkt = egress[w].pkt
      PROVE  EgressInOrder'
  <2>1. QueuesInOrder'
    BY <1>2, LinesKept DEF QueuesInOrder
  <2>2. InEgress'
    BY <1>2, LinesKept DEF InEgress, Past, Held
  <2>3. StagesInOrder'
    BY <1>2, LinesKept DEF StagesInOrder, Past, Held
  <2> QED  BY <2>1, <2>2, <2>3, SendsInOrderKept DEF EgressInOrder
<1>3. CASE Enqueue
  <2> DEFINE e == ingress.pkt
             v == ThreadOf(packet[e].spec)
  <2>1. /\ e = Done' /\ e \in Nat /\ e = Done + 1 /\ Done \in Nat /\ e \in Packets
        /\ UNCHANGED <<packet, egress, output_buffer, sent>>
    BY <1>3, InputStep, LinesKept DEF Enqueue, StateTypeOK, ThreadTypes, historyVars
  <2>2. /\ Past \subseteq 1 .. Done
        /\ \A w \in EgressThreads : egress_buffers[w] \subseteq 1 .. Done
        /\ \A w \in EgressThreads : Held(w) => egress[w].pkt \in 1 .. Done
    BY DEF EgressInOrder, InEgress
  <2>3. \A p \in 1 .. Done : p < e /\ Before(p, e, LineOf')
    BY <2>1 DEF Before
  <2>4. v \in EgressThreads /\ ThreadOf(LineOf'[e].port) = v
    <3>1. packet[e] \in PacketRecords
      BY <2>1 DEF StateTypeOK, PacketTypes
    <3>2. packet[e].spec \in Ports \cup {0, DropPort}
      BY <3>1 DEF PacketRecords
    <3>3. ASSUME NEW port \in Ports \cup {0, DropPort} PROVE port \in Nat
      BY MLControllerAssumption DEF DropPort
    <3>4. packet[e].spec \in Nat
      BY <3>2, <3>3
    <3> QED  BY <2>1, <3>4, SimpleSwitchAssumption DEF ThreadOf, EgressThreads, LineOf
  <2>5. CASE egress_buffers' = egress_buffers
    BY <1>2, <2>1, <2>5
  <2>6. CASE egress_buffers' = [egress_buffers EXCEPT ![v] = @ \cup {e}]
    <3>1. /\ egress_buffers'[v] = egress_buffers[v] \cup {e}
          /\ \A w \in EgressThreads : w # v => egress_buffers'[w] = egress_buffers[w]
      BY <2>1, <2>4, <2>6, <1>1
    <3>2. ASSUME NEW u \in EgressThreads, NEW r \in egress_buffers'[u]
          PROVE  r \in egress_buffers[u] \/ (u = v /\ r = e)
      BY <3>1, <3>2
    <3>4. QueuesInOrder'
      BY <2>1, LinesKept DEF QueuesInOrder
    <3>5. InEgress'
      <4>1. Past' \subseteq 1 .. Done'
        BY <2>1, LinesKept DEF Past
      <4>2. ASSUME NEW u \in EgressThreads, NEW p \in egress_buffers'[u]
            PROVE  p \in 1 .. Done' /\ ThreadOf(LineOf'[p].port) = u
        <5>1. e \in 1 .. Done' /\ ThreadOf(LineOf'[e].port) = v
          BY <2>1, <2>4
        <5> QED  BY <4>2, <3>2, <5>1, LinesKept
      <4>3. ASSUME NEW u \in EgressThreads, Held(u)'
            PROVE  egress'[u].pkt \in 1 .. Done' /\ ThreadOf(LineOf'[egress'[u].pkt].port) = u
        BY <4>3, <2>1, LinesKept DEF Held
      <4> QED  BY <4>1, <4>2, <4>3 DEF InEgress
    <3>6. StagesInOrder'
      <4>1. \A p \in InSeq(sent'), r \in InSeq(output_buffer') : Before(p, r, LineOf')
        BY <3>1, <2>1, <2>2, <2>3, LinesKept DEF Past
      <4>2. ASSUME NEW u \in EgressThreads, NEW r \in egress_buffers'[u], NEW p \in Past'
            PROVE  Before(p, r, LineOf')
        <5>1. p \in Past /\ p \in 1 .. Done
          BY <2>1, <2>2, <4>2 DEF Past
        <5> QED  BY <4>2, <3>2, <5>1, <2>3, LinesKept
      <4>3. ASSUME NEW u \in EgressThreads, NEW r \in egress_buffers'[u], Held(u)'
            PROVE  Before(egress'[u].pkt, r, LineOf')
        <5>1. Held(u) /\ egress'[u] = egress[u] /\ egress[u].pkt \in 1 .. Done
          BY <2>1, <2>2, <4>3 DEF Held
        <5> QED  BY <4>3, <3>2, <5>1, <2>3, LinesKept
      <4>4. ASSUME NEW u \in EgressThreads, Held(u)', NEW p \in Past'
            PROVE  Before(p, egress'[u].pkt, LineOf')
        BY <3>1, <2>1, <2>2, <2>3, <4>4, LinesKept DEF Past, Held
      <4> QED  BY <4>1, <4>2, <4>3, <4>4 DEF StagesInOrder
    <3> QED  BY <3>4, <3>5, <3>6, SendsInOrderKept DEF EgressInOrder
  <2> QED  BY <1>3, <2>5, <2>6 DEF Enqueue
<1>4. ASSUME NEW w \in EgressThreads, EgressTake(w) PROVE EgressInOrder'
  <2> DEFINE q == egress_buffers[w]
  <2>1. PICK e \in q :
          /\ ~ Held(w) /\ \A p \in q : send[e] <= send[p]
          /\ UNCHANGED <<output_buffer, sent, packet, send>>
          /\ egress'[w].pkt = e
          /\ egress_buffers'[w] = q \ {e}
          /\ \A v \in EgressThreads :
               v # w => egress_buffers'[v] = egress_buffers[v] /\ egress'[v] = egress[v]
    BY <1>4, <1>1 DEF EgressTake, Held, historyVars, timeVars
  <2>2. ASSUME NEW p \in q, p # e PROVE Before(e, p, LineOf')
    <3>1. /\ LineOf'[p] = LineOf[p] /\ LineOf'[e] = LineOf[e]
          /\ e \in Packets /\ p \in Packets /\ e \in Nat /\ p \in Nat
      BY <2>2, <1>1, LinesKept DEF Packets
    <3>2. /\ LineOf[e].time \in Nat /\ LineOf[p].time \in Nat
          /\ LineOf[e].time <= LineOf[p].time
      BY <3>1, <2>1, <2>2 DEF LineOf, StateTypeOK, QueueTypes
    <3>3. p < e /\ LineOf[p].port = LineOf[e].port => LineOf[p].time <= LineOf[e].time
      BY <2>2 DEF EgressInOrder, SendsInOrder
    <3> QED  BY <3>1, <3>2, <3>3, <2>2 DEF Before
  <2>5. QueuesInOrder'
    BY <2>1, LinesKept DEF QueuesInOrder
  <2>6. InEgress'
    BY <2>1, LinesKept DEF InEgress, Past, Held
  <2>7. StagesInOrder'
    <3>1. \A p \in InSeq(sent'), r \in InSeq(output_buffer') : Before(p, r, LineOf')
      BY <2>1, LinesKept DEF Past
    <3>2. ASSUME NEW u \in EgressThreads, NEW r \in egress_buffers'[u], NEW p \in Past'
          PROVE  Before(p, r, LineOf')
      BY <2>1, <3>2, LinesKept DEF Past
    <3>3. ASSUME NEW u \in EgressThreads, NEW r \in egress_buffers'[u], Held(u)'
          PROVE  Before(egress'[u].pkt, r, LineOf')
      BY <2>1, <2>2, <3>3, LinesKept DEF Held
    <3>4. ASSUME NEW u \in EgressThreads, Held(u)', NEW p \in Past'
          PROVE  Before(p, egress'[u].pkt, LineOf')
      <4>1. p \in Past
        BY <2>1, <3>4 DEF Past
      <4>2. CASE u = w
        BY <4>1, <4>2, <2>1, LinesKept
      <4>3. CASE u # w
        BY <4>1, <4>3, <3>4, <2>1, LinesKept DEF Held
      <4> QED  BY <4>2, <4>3
    <3> QED  BY <3>1, <3>2, <3>3, <3>4 DEF StagesInOrder
  <2> QED  BY <2>5, <2>6, <2>7, SendsInOrderKept DEF EgressInOrder
<1>5. ASSUME NEW w \in EgressThreads, EgressOut(w) PROVE EgressInOrder'
  <2> DEFINE e == egress[w].pkt
  <2>1. /\ Held(w) /\ e \in Packets
        /\ UNCHANGED <<egress_buffers, sent>>
        /\ output_buffer' = Append(output_buffer, e)
        /\ ~ Held(w)'
        /\ \A v \in EgressThreads : v # w => egress'[v] = egress[v]
    BY <1>5, <1>1 DEF EgressOut, Held, EgressIdle, historyVars
  <2>2. InSeq(output_buffer') = InSeq(output_buffer) \cup {e}
    BY <2>1, <1>1, Queues
  <2>3. \A p \in Past : Before(p, e, LineOf')
    BY <2>1, LinesKept
  <2>4. /\ \A v \in EgressThreads : \A p \in egress_buffers[v] : Before(e, p, LineOf')
        /\ \A v \in EgressThreads : v # w /\ Held(v) => Before(e, egress[v].pkt, LineOf')
    BY <2>1, LinesKept DEF Before
  <2>5. InOrder(output_buffer', LineOf')
    BY <2>1, <2>3, <1>1, LinesKept, InOrderKept DEF Past
  <2>6. QueuesInOrder'
    BY <2>1, <2>5, LinesKept DEF QueuesInOrder
  <2>7. InEgress'
    BY <2>1, <2>2, LinesKept DEF InEgress, Past, Held
  <2>8. StagesInOrder'
    BY <2>1, <2>2, <2>3, <2>4, LinesKept DEF StagesInOrder, Past, Held
  <2> QED  BY <2>6, <2>7, <2>8, SendsInOrderKept DEF EgressInOrder
<1>6. CASE Transmit
  <2> DEFINE h == Head(output_buffer)
  <2>1. /\ output_buffer # <<>> /\ h \in Packets
        /\ UNCHANGED <<egress_buffers, egress>>
        /\ sent' = Append(sent, h) /\ output_buffer' = Tail(output_buffer)
    BY <1>6, <1>1, Queues DEF Transmit
  <2>2. /\ InSeq(output_buffer) = {h} \cup InSeq(output_buffer')
        /\ InSeq(sent') = InSeq(sent) \cup {h}
    BY <2>1, <1>1, Queues
  <2>3. InOrder(output_buffer', LineOf') /\ \A p \in InSeq(output_buffer') : Before(h, p, LineOf')
    BY <2>1, <1>1, LinesKept, InOrderKept
  <2>4. InOrder(sent', LineOf')
    BY <2>1, <2>2, <1>1, LinesKept, InOrderKept
  <2>5. QueuesInOrder'
    BY <2>1, <2>3, <2>4, LinesKept DEF QueuesInOrder
  <2>6. InEgress'
    BY <2>1, <2>2, LinesKept DEF InEgress, Past, Held
  <2>7. StagesInOrder'
    <3>1. \A p \in InSeq(sent'), r \in InSeq(output_buffer') : Before(p, r, LineOf')
      BY <2>1, <2>2, <2>3, LinesKept DEF Past
    <3>2. ASSUME NEW u \in EgressThreads, NEW r \in egress_buffers'[u], NEW p \in Past'
          PROVE  Before(p, r, LineOf')
      BY <2>1, <2>2, <2>3, <3>2, LinesKept DEF Past
    <3>3. ASSUME NEW u \in EgressThreads, NEW r \in egress_buffers'[u], Held(u)'
          PROVE  Before(egress'[u].pkt, r, LineOf')
      BY <2>1, <2>2, <2>3, <3>3, LinesKept DEF Held
    <3>4. ASSUME NEW u \in EgressThreads, Held(u)', NEW p \in Past'
          PROVE  Before(p, egress'[u].pkt, LineOf')
      BY <2>1, <2>2, <2>3, <3>4, LinesKept DEF Past, Held
    <3> QED  BY <3>1, <3>2, <3>3, <3>4 DEF StagesInOrder
  <2> QED  BY <2>5, <2>6, <2>7, SendsInOrderKept DEF EgressInOrder
<1>7. ASSUME NEW w \in EgressThreads, PopAddress(w) \/ RewardSent(w) PROVE EgressInOrder'
  <2>1. UNCHANGED <<egress_buffers, output_buffer, sent>>
    BY <1>7 DEF PopAddress, RewardSent, queueVars, historyVars
  <2>2. PICK stage \in {"reward", "out"} :
          egress[w].stage # "idle" /\ egress' = [egress EXCEPT ![w].stage = stage]
    BY <1>7 DEF PopAddress, RewardSent
  <2>3. \A v \in EgressThreads : /\ egress'[v].stage = "idle" <=> egress[v].stage = "idle"
                                 /\ egress'[v].pkt = egress[v].pkt
    BY <2>2, <1>1
  <2> QED  BY <1>2, <2>1, <2>3
<1> QED  BY Frame, <1>3, <1>4, <1>5, <1>6, <1>2, <1>7 DEF EgressStep

-----------------------------------------------------------------------------
(* The ring inside the switch.                                             *)

(* Whatever its threads do, the switch only ever pushes an address of a    *)
(* packet, or pops a position of the ring.                                 *)
LEMMA RingStep ==
  ASSUME StateTypeOK, [Next]_vars
  PROVE  [CBNext]_cbVars
<1>1. CASE PushAddress
  <2>1. ingress.pkt \in Packets /\ packet[ingress.pkt].dst \in Addresses
    BY <1>1 DEF PushAddress, StateTypeOK, ThreadTypes, PacketTypes
  <2>2. Push(packet[ingress.pkt].dst)
    BY <1>1 DEF PushAddress, PushAddr
  <2> QED  BY <2>1, <2>2 DEF CBNext
<1>2. ASSUME NEW w \in EgressThreads, PopAddress(w) PROVE [CBNext]_cbVars
  <2>1. egress[w].pkt \in Packets
    BY <1>2 DEF PopAddress, StateTypeOK, ThreadTypes
  <2>2. packet[egress[w].pkt] \in PacketRecords
    BY <2>1 DEF StateTypeOK, PacketTypes
  <2>3. packet[egress[w].pkt].pos \in Slots
    BY <2>2 DEF PacketRecords
  <2>4. Pop(packet[egress[w].pkt].pos) \/ UNCHANGED cbVars
    BY <1>2 DEF PopAddress, PopAddr
  <2> QED  BY <2>3, <2>4 DEF CBNext
<1> QED  BY Frame, <1>1, <1>2

(* What a push and a pop do to the valid slots.                            *)
LEMMA ValidSlotsStep ==
  ASSUME CBInv
  PROVE  /\ \A address \in Addresses : Push(address) => ValidSlots' \subseteq ValidSlots \cup {PushPos}
         /\ \A pos \in Slots : Pop(pos) => ValidSlots' \subseteq ValidSlots \ {pos}
<1>1. futureDestinations \in [Slots -> Address]
  BY DEF CBInv, CBTypeOK
<1>2. ASSUME NEW address \in Addresses, Push(address)
      PROVE  ValidSlots' \subseteq ValidSlots \cup {PushPos}
  BY <1>1, <1>2 DEF Push, ValidSlots, IsValid
<1>3. ASSUME NEW pos \in Slots, Pop(pos)
      PROVE  ValidSlots' \subseteq ValidSlots \ {pos}
  <2>1. CASE PopValid(pos)
    BY <1>1, <2>1 DEF PopValid, ValidSlots, IsValid, Address
  <2>2. CASE ~ IsValid(pos) /\ UNCHANGED cbVars
    BY <2>2 DEF ValidSlots, IsValid, cbVars
  <2> QED  BY <1>3, <2>1, <2>2 DEF Pop
<1> QED  BY <1>2, <1>3

-----------------------------------------------------------------------------
(* Entries and their packets.                                              *)

(* A packet keeps its protocol and destination once it is received, and    *)
(* its position once it is past its push.                                  *)
LEMMA PositionKept ==
  ASSUME StateTypeOK, StateTypeOK', InputInOrder, [Next]_vars, NEW p \in 1 .. Taken
  PROVE  /\ p \in Packets /\ packet'[p].ip = packet[p].ip /\ packet'[p].dst = packet[p].dst
         /\ (ingress.stage = "push" => p # ingress.pkt) => packet'[p].pos = packet[p].pos
<1>1. PacketTypes /\ ThreadTypes /\ QueueTypes /\ NumPackets \in Nat
  BY MLControllerAssumption DEF StateTypeOK
<1>2. p \in Packets /\ p # arrived + 1
  BY <1>1 DEF InputInOrder, QueueTypes, Packets
<1>3. packet \in [Packets -> PacketRecords] /\ packet[p] \in PacketRecords
  BY <1>1, <1>2 DEF PacketTypes
<1>4. CASE Receive
  BY <1>4, <1>2, <1>3 DEF Receive
<1>5. CASE PushAddress
  BY <1>5, <1>2, <1>3 DEF PushAddress, PacketRecords
<1>6. CASE IngressTable
  BY <1>6, <1>2, <1>3 DEF IngressTable, PacketRecords
<1>7. CASE ChoosePort
  BY <1>7, <1>2, <1>3 DEF ChoosePort, PacketRecords
<1>8. CASE ForwardOrDrop
  BY <1>8, <1>2, <1>3 DEF ForwardOrDrop, PacketRecords
<1> QED  BY Frame, <1>2, <1>4, <1>5, <1>6, <1>7, <1>8

(* Every step keeps each valid slot with a packet that is past its push. *)
LEMMA EntriesOwnedKept ==
  ASSUME StateTypeOK, StateTypeOK', CBInv, InputInOrder, EntriesOwned, [Next]_vars
  PROVE  EntriesOwned'
<1> SUFFICES ASSUME NEW pos \in ValidSlots'
             PROVE  /\ owner'[pos] \in 1 .. Taken'
                    /\ packet'[owner'[pos]].ip /\ packet'[owner'[pos]].pos = pos
                    /\ ingress'.stage = "push" => owner'[pos] # ingress'.pkt
  BY DEF EntriesOwned
<1>1. ThreadTypes /\ Taken \in Nat /\ Taken' \in {Taken, Taken + 1}
  <2>1. arrived \in Nat
    BY MLControllerAssumption DEF StateTypeOK, QueueTypes
  <2> QED  BY <2>1, InputStep DEF StateTypeOK, InputInOrder
<1>2. ASSUME pos \in ValidSlots, owner'[pos] = owner[pos],
             ingress'.stage = "push" => IngressTake \/ UNCHANGED ingress
      PROVE  /\ owner'[pos] \in 1 .. Taken'
             /\ packet'[owner'[pos]].ip /\ packet'[owner'[pos]].pos = pos
             /\ ingress'.stage = "push" => owner'[pos] # ingress'.pkt
  <2>1. /\ owner[pos] \in 1 .. Taken /\ packet[owner[pos]].ip /\ packet[owner[pos]].pos = pos
        /\ ingress.stage = "push" => owner[pos] # ingress.pkt
    BY <1>2 DEF EntriesOwned
  <2>2. packet'[owner[pos]].ip /\ packet'[owner[pos]].pos = pos
    BY <2>1, PositionKept
  <2>3. CASE IngressTake
    <3>1. ingress'.pkt = Taken' /\ Taken' = Taken + 1
      <4>1. ingress.stage = "idle" /\ ingress'.stage = "push"
        BY <2>3 DEF IngressTake, Idle
      <4>2. ingress'.pkt = Taken' /\ Done' = Done
        BY <2>3, <4>1, InputStep DEF InputInOrder, Enqueue
      <4>3. Taken' = Taken + 1
        BY <2>3, InputStep
      <4> QED  BY <4>2, <4>3
    <3> QED  BY <1>1, <1>2, <2>1, <2>2, <3>1
  <2>4. CASE UNCHANGED ingress
    BY <1>1, <1>2, <2>1, <2>2, <2>4
  <2> QED  BY <1>1, <1>2, <2>1, <2>2, <2>3, <2>4
<1>3. CASE PushAddress
  <2> DEFINE p == ingress.pkt
  <2>1. /\ ingress.stage = "push" /\ p \in Packets /\ p = Taken /\ packet[p].ip
        /\ packet' = [packet EXCEPT ![p].pos = PushPos]
        /\ owner' = [owner EXCEPT ![PushPos] = p]
        /\ \E address \in Addresses : Push(address)
    BY <1>3, <1>1 DEF PushAddress, PushAddr, ThreadTypes, InputInOrder, StateTypeOK, PacketTypes
  <2>2. ingress'.stage \notin {"idle", "push"} /\ Taken' = Taken
    <3>1. ~ IngressTake /\ ~ Enqueue /\ ingress' # ingress
      BY <1>3, <2>1, <1>1 DEF IngressTake, Enqueue, PushAddress, Goto, ThreadTypes
    <3>2. ingress'.stage \notin {"idle", "push"} /\ Done' = Done
      BY <3>1, IngressMoves, InputStep
    <3> QED  BY <3>2, <2>1, <1>1 DEF Done
  <2>3. owner \in [Slots -> 0 .. NumPackets] /\ packet \in [Packets -> PacketRecords]
        /\ pos \in Slots
    BY DEF StateTypeOK, ExternTypes, PacketTypes, ValidSlots
  <2>4. CASE pos = PushPos
    <3>1. owner'[pos] = p /\ packet'[p].ip /\ packet'[p].pos = pos
      BY <2>1, <2>3, <2>4 DEF PacketRecords
    <3> QED  BY <2>1, <2>2, <3>1, <1>1, MLControllerAssumption DEF Packets
  <2>5. CASE pos # PushPos
    <3>1. pos \in ValidSlots /\ owner'[pos] = owner[pos]
      BY <2>1, <2>3, <2>5, ValidSlotsStep
    <3> QED  BY <3>1, <2>2, <1>2
  <2> QED  BY <2>4, <2>5
<1>4. ASSUME ~ PushAddress
      PROVE  /\ pos \in ValidSlots /\ owner' = owner
             /\ ingress'.stage = "push" => IngressTake \/ UNCHANGED ingress
  <2>1. owner' = owner
    BY <1>4, Frame
  <2>2. ingress'.stage = "push" => IngressTake \/ UNCHANGED ingress
    BY IngressMoves DEF Enqueue, Idle
  <2>3. ASSUME UNCHANGED cbVars PROVE pos \in ValidSlots
    BY <2>3 DEF ValidSlots, IsValid, cbVars
  <2>4. ASSUME NEW w \in EgressThreads, PopAddress(w) PROVE pos \in ValidSlots
    <3>1. egress[w].pkt \in Packets
      BY <2>4 DEF PopAddress, StateTypeOK, ThreadTypes
    <3>2. packet[egress[w].pkt] \in PacketRecords
      BY <3>1 DEF StateTypeOK, PacketTypes
    <3>3. packet[egress[w].pkt].pos \in Slots
      BY <3>2 DEF PacketRecords
    <3>4. Pop(packet[egress[w].pkt].pos) \/ UNCHANGED cbVars
      BY <2>4 DEF PopAddress, PopAddr
    <3> QED  BY <2>3, <3>3, <3>4, ValidSlotsStep
  <2>5. pos \in ValidSlots
    BY <1>4, <2>3, <2>4, Frame
  <2> QED  BY <2>1, <2>2, <2>5
<1> QED  BY <1>2, <1>3, <1>4

(* The packets past popAddress are only joined by the one that pops.       *)
LEMMA PoppedStep ==
  ASSUME StateTypeOK, EgressInOrder, [Next]_vars
  PROVE  /\ Popped \subseteq 1 .. Done
         /\ \/ Popped' \subseteq Popped
            \/ \E w \in EgressThreads : PopAddress(w) /\ Popped' \subseteq Popped \cup {egress[w].pkt}
<1>1. /\ sent \in Seq(Packets) /\ output_buffer \in Seq(Packets)
      /\ egress \in [EgressThreads -> [stage : {"idle", "pop", "reward", "out"}, pkt : 0 .. NumPackets]]
      /\ \A w \in EgressThreads : egress[w].stage # "idle" => egress[w].pkt \in Packets
  BY DEF StateTypeOK, QueueTypes, ThreadTypes
<1>2. Popped \subseteq 1 .. Done
  BY DEF Popped, EgressInOrder, InEgress, Past, Held
<1>3. ASSUME UNCHANGED <<output_buffer, sent>>,
             NEW w \in EgressThreads, \A v \in EgressThreads : v # w => egress'[v] = egress[v],
             NEW S, egress'[w].stage \in {"reward", "out"} => egress'[w].pkt \in S
      PROVE  Popped' \subseteq Popped \cup S
  BY <1>3 DEF Popped
<1>4. ASSUME NEW w \in EgressThreads, EgressTake(w) PROVE Popped' \subseteq Popped
  <2>1. /\ UNCHANGED <<output_buffer, sent>> /\ egress'[w].stage = "pop"
        /\ \A v \in EgressThreads : v # w => egress'[v] = egress[v]
    BY <1>4, <1>1 DEF EgressTake, historyVars
  <2> QED  BY <2>1, <1>3
<1>5. ASSUME NEW w \in EgressThreads, PopAddress(w)
      PROVE  Popped' \subseteq Popped \cup {egress[w].pkt}
  <2>1. /\ UNCHANGED <<output_buffer, sent>> /\ egress'[w].pkt = egress[w].pkt
        /\ \A v \in EgressThreads : v # w => egress'[v] = egress[v]
    BY <1>5, <1>1 DEF PopAddress, queueVars, historyVars
  <2> QED  BY <2>1, <1>3
<1>6. ASSUME NEW w \in EgressThreads, RewardSent(w) PROVE Popped' \subseteq Popped
  <2>1. /\ UNCHANGED <<output_buffer, sent>> /\ egress'[w].pkt = egress[w].pkt
        /\ \A v \in EgressThreads : v # w => egress'[v] = egress[v]
    BY <1>6, <1>1 DEF RewardSent, queueVars, historyVars
  <2>2. egress[w].pkt \in Popped
    BY <1>6 DEF RewardSent, Popped
  <2> QED  BY <2>1, <2>2, <1>3
<1>7. ASSUME NEW w \in EgressThreads, EgressOut(w) PROVE Popped' \subseteq Popped
  <2>1. /\ InSeq(output_buffer') = InSeq(output_buffer) \cup {egress[w].pkt} /\ sent' = sent
        /\ egress'[w].stage = "idle" /\ egress[w].stage = "out"
        /\ \A v \in EgressThreads : v # w => egress'[v] = egress[v]
    BY <1>7, <1>1, Queues DEF EgressOut, EgressIdle, historyVars
  <2> QED  BY <2>1 DEF Popped
<1>8. ASSUME Transmit PROVE Popped' \subseteq Popped
  <2>1. InSeq(sent') \cup InSeq(output_buffer') = InSeq(sent) \cup InSeq(output_buffer)
    BY <1>8, <1>1, Queues DEF Transmit
  <2>2. egress' = egress
    BY <1>8 DEF Transmit
  <2> QED  BY <2>1, <2>2 DEF Popped
<1>9. ASSUME UNCHANGED <<sent, output_buffer, egress>> PROVE Popped' \subseteq Popped
  BY <1>9 DEF Popped
<1>10. Transmit \/ EgressStep \/ UNCHANGED <<sent, output_buffer, egress>>
  BY Frame DEF EgressStep
<1> QED  BY <1>10, <1>2, <1>4, <1>5, <1>6, <1>7, <1>8, <1>9 DEF EgressStep

(* A pop removes the packet's own entry, and no step brings one back. *)
LEMMA NoEntryAfterEgressKept ==
  ASSUME StateTypeOK, StateTypeOK', CBInv, InputInOrder, EgressInOrder, EntriesOwned,
         NoEntryAfterEgress, [Next]_vars
  PROVE  NoEntryAfterEgress'
<1> SUFFICES ASSUME NEW pos \in ValidSlots', owner'[pos] \in Popped' PROVE FALSE
  BY DEF NoEntryAfterEgress
<1>1. /\ Popped \subseteq 1 .. Done /\ Done \in Nat
      /\ ingress.stage # "idle" => ingress.pkt = Done + 1
  <2>1. arrived \in Nat
    BY MLControllerAssumption DEF StateTypeOK, QueueTypes
  <2>2. Taken \in Nat /\ Done \in Nat
    BY <2>1, InputStep DEF InputInOrder
  <2>3. ingress.stage # "idle" => ingress.pkt = Done + 1
    BY <2>2 DEF InputInOrder, Done
  <2> QED  BY <2>2, <2>3, PoppedStep
<1>2. ASSUME pos \in ValidSlots, owner'[pos] = owner[pos], Popped' \subseteq Popped PROVE FALSE
  BY <1>2 DEF NoEntryAfterEgress
<1>3. CASE PushAddress
  <2>1. /\ ingress.stage = "push"
        /\ owner' = [owner EXCEPT ![PushPos] = ingress.pkt]
        /\ \E address \in Addresses : Push(address)
    BY <1>3 DEF PushAddress, PushAddr, ThreadTypes, StateTypeOK, PacketTypes
  <2>2. owner \in [Slots -> 0 .. NumPackets] /\ pos \in Slots
    BY DEF StateTypeOK, ExternTypes, ValidSlots
  <2>3. Popped' = Popped
    BY <1>3 DEF PushAddress, Popped
  <2>4. CASE pos = PushPos
    BY <1>1, <2>1, <2>2, <2>3, <2>4
  <2>5. CASE pos # PushPos
    <3>1. pos \in ValidSlots /\ owner'[pos] = owner[pos]
      BY <2>1, <2>2, <2>5, ValidSlotsStep
    <3> QED  BY <3>1, <2>3, <1>2
  <2> QED  BY <2>4, <2>5
<1>4. ASSUME NEW w \in EgressThreads, PopAddress(w), ~ PushAddress PROVE FALSE
  <2> DEFINE p == egress[w].pkt
  <2>1. p \in Packets
    BY <1>4 DEF PopAddress, StateTypeOK, ThreadTypes
  <2>2. packet[p] \in PacketRecords
    BY <2>1 DEF StateTypeOK, PacketTypes
  <2>3. packet[p].pos \in Slots /\ packet[p].ip \in BOOLEAN
    BY <2>2 DEF PacketRecords
  <2>4. IF packet[p].ip THEN Pop(packet[p].pos) ELSE UNCHANGED cbVars
    BY <1>4 DEF PopAddress, PopAddr
  <2>5. pos \in ValidSlots /\ (packet[p].ip => pos # packet[p].pos)
    <3>1. CASE packet[p].ip
      BY <2>3, <2>4, <3>1, ValidSlotsStep
    <3>2. CASE ~ packet[p].ip
      BY <2>4, <3>2 DEF ValidSlots, IsValid, cbVars
    <3> QED  BY <3>1, <3>2
  <2>6. owner' = owner
    BY <1>4, Frame
  <2>7. owner[pos] # p
    BY <2>5 DEF EntriesOwned
  <2>8. \/ Popped' \subseteq Popped \cup {p}
        \/ Popped' \subseteq Popped
    <3>1. UNCHANGED <<sent, output_buffer>> /\ egress' = [egress EXCEPT ![w].stage = "reward"]
      BY <1>4 DEF PopAddress, queueVars, historyVars
    <3>2. egress \in [EgressThreads -> [stage : {"idle", "pop", "reward", "out"}, pkt : 0 .. NumPackets]]
      BY DEF StateTypeOK, ThreadTypes
    <3> QED  BY <3>1, <3>2 DEF Popped
  <2> QED  BY <2>5, <2>6, <2>7, <2>8 DEF NoEntryAfterEgress
<1>5. CASE UNCHANGED cbVars /\ UNCHANGED owner /\ Popped' \subseteq Popped
  <2>1. pos \in ValidSlots
    BY <1>5 DEF ValidSlots, IsValid, cbVars
  <2> QED  BY <1>5, <2>1, <1>2
<1> QED  BY Frame, PoppedStep, <1>3, <1>4, <1>5

-----------------------------------------------------------------------------
(* The packets inside and their entries.                                   *)

(* An idle ingress thread holds no packet. *)
LEMMA IdleHoldsNothingKept ==
  ASSUME StateTypeOK, IdleHoldsNothing, [Next]_vars
  PROVE  IdleHoldsNothing'
<1>1. ASSUME IngressTake PROVE ingress'.stage # "idle"
  BY <1>1 DEF IngressTake, Idle
<1>2. ASSUME Enqueue PROVE ingress'.pkt = 0
  BY <1>2 DEF Enqueue, Idle
<1> QED  BY IngressMoves, <1>1, <1>2 DEF IdleHoldsNothing

(* The packets inside have passed their push.                              *)
LEMMA InsideRange ==
  ASSUME StateTypeOK, InputInOrder, EgressInOrder, IdleHoldsNothing, NEW p \in Inside
  PROVE  /\ p \in Packets /\ p \in 1 .. Taken /\ packet[p].ip
         /\ ingress.stage = "push" => p # ingress.pkt
<1>1. /\ ThreadTypes /\ Taken \in Nat /\ Done \in {Taken, Taken - 1}
      /\ Done = Taken => ingress.stage = "idle" \/ Taken = Taken - 1
      /\ ingress.stage # "idle" => ingress.pkt = Taken /\ Taken \in 1 .. Taken /\ Done = Taken - 1
  <2>1. arrived \in Nat
    BY MLControllerAssumption DEF StateTypeOK, QueueTypes
  <2>2. Taken \in Nat
    BY <2>1 DEF InputInOrder
  <2> QED  BY <2>2 DEF InputInOrder, StateTypeOK, Done, ThreadTypes, Packets
<1>2. p \in Packets /\ packet[p].ip /\ 0 \notin Packets
  BY MLControllerAssumption DEF Inside, Packets
<1>3. CASE ingress.pkt = p /\ ingress.stage # "push"
  BY <1>1, <1>2, <1>3 DEF IdleHoldsNothing
<1>4. ASSUME NEW w \in EgressThreads,
             p \in egress_buffers[w] \/ egress[w] = [stage |-> "pop", pkt |-> p]
      PROVE  p \in 1 .. Done
  BY <1>4 DEF EgressInOrder, InEgress, Held
<1> QED  BY <1>1, <1>2, <1>3, <1>4 DEF Inside

(* Only a push takes a packet inside.                                      *)
LEMMA InsideStep ==
  ASSUME StateTypeOK, StateTypeOK', InputInOrder, InputInOrder', EgressInOrder, EgressInOrder',
         IdleHoldsNothing, IdleHoldsNothing', [Next]_vars,
         NEW p \in Inside'
  PROVE  p \in Inside \/ (PushAddress /\ p = ingress.pkt)
<1>1. /\ p \in Packets /\ packet'[p].ip
      /\ egress_buffers \in [EgressThreads -> SUBSET Packets]
      /\ egress \in [EgressThreads -> [stage : {"idle", "pop", "reward", "out"}, pkt : 0 .. NumPackets]]
      /\ ThreadTypes
  BY DEF Inside, StateTypeOK, QueueTypes, ThreadTypes
<1>2. ASSUME p \in 1 .. Taken PROVE packet[p].ip
  BY <1>1, <1>2, PositionKept
<1>3. ASSUME ingress.pkt = p, ingress.stage \notin {"idle", "push"} PROVE p \in Inside
  <2>1. p \in 1 .. Taken
    BY <1>3, <1>1, MLControllerAssumption DEF InputInOrder, Packets
  <2> QED  BY <1>1, <1>2, <1>3, <2>1 DEF Inside
<1>4. ASSUME NEW w \in EgressThreads,
             p \in egress_buffers[w] \/ egress[w] = [stage |-> "pop", pkt |-> p]
      PROVE  p \in Inside
  <2>1. p \in 1 .. Done
    BY <1>4 DEF EgressInOrder, InEgress, Held
  <2>2. p \in 1 .. Taken
    BY <2>1, InputStep, MLControllerAssumption DEF InputInOrder, StateTypeOK, QueueTypes
  <2> QED  BY <1>1, <1>2, <1>4, <2>2 DEF Inside
<1>5. ASSUME ingress'.pkt = p, ingress'.stage # "push"
      PROVE  p \in Inside \/ (PushAddress /\ p = ingress.pkt)
  <2>1. ingress'.stage \notin {"idle", "push"} /\ p # 0
    BY <1>1, <1>5, MLControllerAssumption DEF IdleHoldsNothing, Packets
  <2>2. ~ IngressTake /\ ~ Enqueue
    <3>1. IngressTake => ingress'.stage = "push"
      BY DEF IngressTake, Idle
    <3>2. Enqueue => ingress'.stage = "idle"
      BY DEF Enqueue, Idle
    <3> QED  BY <2>1, <3>1, <3>2
  <2>3. ingress.pkt = p /\ ingress.stage # "idle"
    BY <1>5, <2>1, <2>2, IngressMoves
  <2>4. CASE ingress.stage # "push"
    BY <1>3, <2>3, <2>4
  <2>5. CASE ingress.stage = "push"
    <3>1. PushAddress \/ SkipAddress
      BY <1>5, <2>5, Frame DEF IngressTake, IngressTable, ChoosePort, PortChosen, ForwardOrDrop, Enqueue
    <3>2. ~ SkipAddress
      <4>1. SkipAddress => packet' = packet
        BY DEF SkipAddress, queueVars
      <4> QED  BY <4>1, <2>3, <1>1 DEF SkipAddress
    <3> QED  BY <2>3, <3>1, <3>2
  <2> QED  BY <2>4, <2>5
<1>6. ASSUME NEW w \in EgressThreads, p \in egress_buffers'[w]
      PROVE  p \in Inside
  <2>1. CASE Enqueue
    <3>1. ingress.pkt \in Packets /\ ingress.stage = "enqueue"
      BY <2>1, <1>1 DEF Enqueue, ThreadTypes
    <3>2. p \in egress_buffers[w] \cup {ingress.pkt}
      BY <1>6, <2>1, <1>1 DEF Enqueue
    <3> QED  BY <3>1, <3>2, <1>3, <1>4
  <2>2. ASSUME NEW v \in EgressThreads, EgressTake(v) PROVE p \in Inside
    <3>1. p \in egress_buffers[w]
      BY <1>6, <2>2, <1>1 DEF EgressTake
    <3> QED  BY <3>1, <1>4
  <2>3. CASE UNCHANGED egress_buffers
    BY <1>4, <1>6, <2>3
  <2> QED  BY <2>1, <2>2, <2>3, Frame
<1>7. ASSUME NEW w \in EgressThreads, egress'[w] = [stage |-> "pop", pkt |-> p]
      PROVE  p \in Inside
  <2>1. ASSUME NEW v \in EgressThreads, EgressTake(v) PROVE p \in Inside
    <3>1. CASE v = w
      <4>1. p \in egress_buffers[w]
        BY <2>1, <3>1, <1>1, <1>7 DEF EgressTake
      <4> QED  BY <4>1, <1>4
    <3>2. CASE v # w
      BY <2>1, <3>2, <1>1, <1>4, <1>7 DEF EgressTake
    <3> QED  BY <3>1, <3>2
  <2>2. ASSUME NEW v \in EgressThreads, PopAddress(v) \/ RewardSent(v) \/ EgressOut(v)
        PROVE  p \in Inside
    <3>1. egress'[v].stage # "pop" /\ (v # w => egress'[w] = egress[w])
      BY <2>2, <1>1 DEF PopAddress, RewardSent, EgressOut, EgressIdle
    <3>2. v # w
      BY <3>1, <1>7
    <3> QED  BY <3>1, <3>2, <1>4, <1>7
  <2>3. CASE UNCHANGED egress
    BY <2>3, <1>4, <1>7
  <2> QED  BY <2>1, <2>2, <2>3, Frame DEF EgressStep
<1> QED  BY <1>5, <1>6, <1>7 DEF Inside

(* The packet that pops leaves, wherever the others are.                   *)
LEMMA PopLeaves ==
  ASSUME StateTypeOK, StateTypeOK', InputInOrder, EgressInOrder, IdleHoldsNothing, [Next]_vars,
         NEW w \in EgressThreads, PopAddress(w)
  PROVE  /\ egress[w].pkt \in Packets /\ egress[w].pkt \notin Inside'
         /\ packet[egress[w].pkt].ip => egress[w].pkt \in Inside
<1> DEFINE q == egress[w].pkt
<1>1. /\ ThreadTypes /\ egress[w].stage = "pop" /\ q \in Packets
      /\ egress[w] = [stage |-> "pop", pkt |-> q] /\ Held(w)
      /\ egress' = [egress EXCEPT ![w].stage = "reward"]
      /\ ingress' = ingress /\ egress_buffers' = egress_buffers /\ packet' = packet
  <2>1. egress \in [EgressThreads -> [stage : {"idle", "pop", "reward", "out"}, pkt : 0 .. NumPackets]]
        /\ ThreadTypes
    BY DEF StateTypeOK, ThreadTypes
  <2> QED  BY <2>1 DEF PopAddress, ThreadTypes, Held, queueVars
<1>2. q \in 1 .. Done /\ ThreadOf(LineOf[q].port) = w
  BY <1>1 DEF EgressInOrder, InEgress
<1>3. ingress.pkt # q
  <2>1. arrived \in Nat /\ Taken \in Nat
    BY MLControllerAssumption DEF StateTypeOK, QueueTypes, InputInOrder
  <2>2. CASE ingress.stage = "idle"
    BY <2>2, <1>1, MLControllerAssumption DEF IdleHoldsNothing, Packets
  <2>3. CASE ingress.stage # "idle"
    BY <2>1, <2>3, <1>2 DEF InputInOrder, Done
  <2> QED  BY <2>2, <2>3
<1>4. ASSUME NEW v \in EgressThreads, q \in egress_buffers[v] PROVE FALSE
  <2>1. v = w
    BY <1>2, <1>4 DEF EgressInOrder, InEgress
  <2> QED  BY <1>1, <1>4, <2>1 DEF EgressInOrder, StagesInOrder, Before
<1>5. ASSUME NEW v \in EgressThreads, egress'[v] = [stage |-> "pop", pkt |-> q] PROVE FALSE
  <2>1. v # w
    BY <1>1, <1>5 DEF ThreadTypes
  <2>2. egress[v] = [stage |-> "pop", pkt |-> q]
    BY <1>1, <1>5, <2>1 DEF ThreadTypes
  <2>3. ThreadOf(LineOf[q].port) = v
    BY <2>2 DEF EgressInOrder, InEgress, Held
  <2> QED  BY <2>1, <2>3, <1>2
<1> QED  BY <1>1, <1>3, <1>4, <1>5 DEF Inside

(* A push writes the slot of no packet inside, unless it notes an overrun, *)
(* and a pop the slot of the packet that leaves.                           *)
LEMMA OwnEntryKept ==
  ASSUME StateTypeOK, StateTypeOK', CBTypeOK, InputInOrder, InputInOrder', EgressInOrder,
         EgressInOrder', IdleHoldsNothing, IdleHoldsNothing', OwnEntry, [Next]_vars
  PROVE  OwnEntry'
<1> SUFFICES ASSUME ~ overrun', NEW p \in Inside'
             PROVE  /\ owner'[packet'[p].pos] = p
                    /\ futureDestinations'[packet'[p].pos] = [addr |-> packet'[p].dst, valid |-> TRUE]
  BY DEF OwnEntry
<1>1. /\ packet \in [Packets -> PacketRecords] /\ owner \in [Slots -> 0 .. NumPackets]
      /\ futureDestinations \in [Slots -> Address] /\ ThreadTypes
  BY DEF StateTypeOK, PacketTypes, ExternTypes, CBTypeOK
<1>2. ~ overrun
  <2>1. ASSUME ~ PushAddress PROVE overrun' = overrun
    BY <2>1, Frame
  <2> QED  BY <2>1 DEF PushAddress
<1>3. ASSUME NEW q \in Inside
      PROVE  /\ q \in Packets /\ packet[q].pos \in Slots /\ owner[packet[q].pos] = q
             /\ futureDestinations[packet[q].pos] = [addr |-> packet[q].dst, valid |-> TRUE]
             /\ packet'[q].pos = packet[q].pos /\ packet'[q].dst = packet[q].dst
  <2>1. q \in Packets /\ q \in 1 .. Taken /\ (ingress.stage = "push" => q # ingress.pkt)
    BY InsideRange
  <2>2. packet[q].pos \in Slots
    BY <2>1, <1>1 DEF PacketRecords
  <2> QED  BY <1>2, <2>1, <2>2, PositionKept DEF OwnEntry
<1>4. CASE PushAddress
  <2> DEFINE n == ingress.pkt
  <2>1. /\ owner' = [owner EXCEPT ![PushPos] = n]
        /\ futureDestinations' = [futureDestinations EXCEPT ![PushPos] = [addr |-> packet[n].dst, valid |-> TRUE]]
        /\ packet' = [packet EXCEPT ![n].pos = PushPos]
        /\ owner[PushPos] \notin Inside
        /\ n \in Packets /\ PushPos \in Slots
    <3>1. PushPos \in Slots
      BY CBufferAssumption DEF PushPos, CBTypeOK, Slots
    <3>2. n \in Packets /\ (overrun' <=> overrun \/ owner[PushPos] \in Inside)
      BY <1>4, <1>1 DEF PushAddress, ThreadTypes
    <3> QED  BY <1>4, <3>1, <3>2 DEF PushAddress, PushAddr, Push
  <2>2. CASE p = n
    <3>1. packet'[n].pos = PushPos /\ packet'[n].dst = packet[n].dst
      BY <2>1, <1>1 DEF PacketRecords
    <3> QED  BY <2>1, <2>2, <3>1, <1>1
  <2>3. CASE p # n
    <3>1. p \in Inside
      BY <2>3, InsideStep
    <3>2. packet[p].pos # PushPos
      BY <3>1, <1>3, <2>1
    <3> QED  BY <3>1, <3>2, <1>3, <2>1, <1>1
  <2> QED  BY <2>2, <2>3
<1>5. ASSUME NEW w \in EgressThreads, PopAddress(w)
      PROVE  /\ owner'[packet'[p].pos] = p
             /\ futureDestinations'[packet'[p].pos] = [addr |-> packet'[p].dst, valid |-> TRUE]
  <2> DEFINE q == egress[w].pkt
  <2>1. ~ PushAddress
    BY <1>5 DEF PushAddress, PopAddress, Goto, ThreadTypes, StateTypeOK, queueVars
  <2>2. p \in Inside /\ p # q /\ owner' = owner
    BY <2>1, <1>5, InsideStep, PopLeaves, Frame
  <2>3. packet[q].ip => q \in Inside
    BY <1>5, PopLeaves
  <2>4. IF packet[q].ip THEN Pop(packet[q].pos) ELSE UNCHANGED cbVars
    BY <1>5 DEF PopAddress, PopAddr
  <2>5. packet[q].ip => packet[q].pos # packet[p].pos
    <3>1. owner[packet[p].pos] = p
      BY <2>2, <1>3
    <3>2. packet[q].ip => owner[packet[q].pos] = q
      BY <2>3, <1>3
    <3> QED  BY <2>2, <3>1, <3>2
  <2>6. futureDestinations'[packet[p].pos] = futureDestinations[packet[p].pos]
    <3>1. \A pos \in Slots, other \in Slots : Pop(pos) /\ other # pos =>
            futureDestinations'[other] = futureDestinations[other]
      BY <1>1 DEF Pop, PopValid, cbVars
    <3>2. packet[q].ip => packet[q].pos \in Slots
      BY <2>3, <1>3
    <3>3. packet[p].pos \in Slots
      BY <2>2, <1>3
    <3>4. UNCHANGED cbVars => UNCHANGED futureDestinations
      BY DEF cbVars
    <3> QED  BY <2>4, <2>5, <3>1, <3>2, <3>3, <3>4
  <2> QED  BY <2>2, <2>6, <1>3
<1>6. CASE UNCHANGED cbVars /\ ~ PushAddress
  BY <1>6, <1>3, InsideStep, Frame DEF cbVars
<1> QED  BY <1>4, <1>5, <1>6, Frame

-----------------------------------------------------------------------------
(* Deaths of the process.                                                  *)

(* Every answer of a connected learner is a port. *)
LEMMA PortOrNoLearnerKept ==
  ASSUME StateTypeOK, PortOrNoLearner, [Next]_vars
  PROVE  PortOrNoLearner'
<1> DEFINE Chosen == ingress.stage = "chosen" => ingress.outP \in Ports \/ py # "connected"
<1>1. ThreadTypes /\ ExternTypes /\ Chosen /\ CrashOnlyBeforeLearner
  BY DEF StateTypeOK, PortOrNoLearner
<1>2. CASE UNCHANGED vars
  BY <1>1, <1>2 DEF vars, ctrlVars, socketVars, PortOrNoLearner, CrashOnlyBeforeLearner, Running
<1>3. CASE status = "running" /\ Step
  <2>1. CASE ChoosePort
    <3>1. Running'
      BY <1>3, <2>1 DEF ChoosePort, Running
    <3>2. Chosen'
      BY <2>1, <1>1 DEF ChoosePort, Goto, ThreadTypes, NobodyListens, Connects
    <3> QED  BY <3>1, <3>2 DEF PortOrNoLearner, CrashOnlyBeforeLearner
  <2>2. CASE PortChosen
    <3>1. Running' /\ py' = py
      BY <1>3, <2>2, Frame DEF PortChosen, PortReceived, Running
    <3>2. Chosen'
      BY <2>2, <1>1 DEF PortChosen, PortReceived, ThreadTypes, ExternTypes
    <3> QED  BY <3>1, <3>2 DEF PortOrNoLearner, CrashOnlyBeforeLearner
  <2>3. CASE Segfault
    <3>1. py' = py /\ ingress' = ingress /\ py = "null"
      BY <2>3 DEF Segfault, PyIsNull, ctrlVars, socketVars
    <3> QED  BY <3>1, <1>1 DEF PortOrNoLearner, CrashOnlyBeforeLearner
  <2>4. CASE NeighborException
    <3>1. py' = py /\ ingress' = ingress /\ ingress.stage = "chosen" /\ ingress.outP \notin Ports
      BY <2>4 DEF NeighborException, NeighborThrows, ctrlVars, socketVars
    <3> QED  BY <3>1, <1>1 DEF PortOrNoLearner, CrashOnlyBeforeLearner
  <2>5. CASE ~ ChoosePort /\ ~ PortChosen /\ ~ Segfault /\ ~ NeighborException
    <3>1. py' = py /\ status' = status
      BY <2>5, Frame
    <3>2. ingress'.stage = "chosen" => ingress' = ingress
      <4>1. ASSUME NEW stage \in {"table", "choose", "enqueue"}, Goto(stage)
            PROVE  ingress'.stage # "chosen"
        BY <4>1, <1>1 DEF Goto, ThreadTypes
      <4>2. ASSUME PushAddress PROVE ingress'.stage # "chosen"
        BY <4>1, <4>2 DEF PushAddress
      <4>3. ASSUME SkipAddress PROVE ingress'.stage # "chosen"
        BY <4>1, <4>3 DEF SkipAddress
      <4>4. ASSUME IngressTable PROVE ingress'.stage # "chosen"
        BY <4>1, <4>4 DEF IngressTable
      <4>5. ASSUME ForwardOrDrop PROVE ingress'.stage # "chosen"
        BY <4>1, <4>5 DEF ForwardOrDrop
      <4>6. ASSUME IngressTake PROVE ingress'.stage # "chosen"
        BY <4>6 DEF IngressTake, Idle
      <4>7. ASSUME Enqueue PROVE ingress'.stage # "chosen"
        BY <4>7 DEF Enqueue, Idle
      <4> QED  BY <2>5, Frame, <4>2, <4>3, <4>4, <4>5, <4>6, <4>7
    <3> QED  BY <3>1, <3>2, <1>1 DEF PortOrNoLearner, CrashOnlyBeforeLearner, Running
  <2> QED  BY <2>1, <2>2, <2>3, <2>4, <2>5
<1> QED  BY <1>2, <1>3 DEF Next, RecvSpins, Rest

-----------------------------------------------------------------------------
(* The socket.                                                             *)

(* What each step does to the connection: the four ways LearnerSocket knows, or nothing. *)
LEMMA SocketStep ==
  ASSUME StateTypeOK, SocketInOrder, [Next]_vars
  PROVE  /\ SocketInOrder'
         /\ \/ UNCHANGED <<request, response, peer>>
            \/ ChoosePort /\ request' = request /\ UNCHANGED <<response, peer>>
            \/ /\ ChoosePort /\ request = NoRequest /\ response = 0 /\ response' = 0 /\ peer # "absent"
               /\ peer' = IF peer = "listening" THEN "serving" ELSE peer
            \/ PortChosen /\ response # 0 /\ response' = 0 /\ UNCHANGED <<request, peer>>
            \/ Learner
<1>1. ThreadTypes /\ SocketInOrder
  BY DEF StateTypeOK
<1>2. CASE ChoosePort
  <2>1. request = NoRequest /\ response = 0
    BY <1>1, <1>2 DEF ChoosePort, SocketInOrder
  <2>2. CASE GetOutputPort(packet[ingress.pkt].dmac, packet[ingress.pkt].pos) /\ Goto("recv")
    <3>1. /\ ingress'.stage = "recv" /\ py' = "connected" /\ response' = response
          /\ peer' = (IF peer = "listening" THEN "serving" ELSE peer) /\ peer # "absent"
      BY <2>2, <1>1 DEF GetOutputPort, Goto, ThreadTypes, Connects, SocketInOrder
    <3> QED  BY <3>1, <2>1, <1>2 DEF SocketInOrder
  <2>3. CASE NobodyListens(packet[ingress.pkt].dmac)
    BY <2>3, <2>1, <1>1, <1>2 DEF NobodyListens, SocketInOrder
  <2> QED  BY <1>2, <2>2, <2>3 DEF ChoosePort
<1>3. CASE PortChosen
  BY <1>1, <1>3 DEF PortChosen, PortReceived, SocketInOrder
<1>4. CASE Learner
  <2>1. ingress' = ingress
    BY <1>4 DEF Learner
  <2> QED  BY <2>1, <1>1, <1>4 DEF Learner, PeerAnswers, PeerListens, PeerCloses, SocketInOrder
<1>5. CASE ~ ChoosePort /\ ~ PortChosen /\ ~ Learner
  <2>1. UNCHANGED <<request, response, peer, py>>
    BY <1>5, Frame
  <2>2. CASE ingress.stage = "recv"
    <3>1. ingress' = ingress
      BY <1>5, <2>2, Frame DEF IngressTake, PushAddress, SkipAddress, IngressTable, ForwardOrDrop, Enqueue
    <3> QED  BY <2>1, <3>1, <1>1 DEF SocketInOrder
  <2>3. CASE ingress.stage # "recv"
    BY <2>1, <2>3, <1>1 DEF SocketInOrder
  <2> QED  BY <2>1, <2>2, <2>3
<1> QED  BY <1>2, <1>3, <1>4, <1>5

-----------------------------------------------------------------------------
(* The order of the entries, and what a request tells of it.               *)

(* Every step keeps the entries of the ring, read by age, in the order of their packets. *)
LEMMA EntriesInOrderKept ==
  ASSUME StateTypeOK, StateTypeOK', CBInv, CBInv', InputInOrder, EntriesOwned, EntriesInOrder,
         [Next]_vars
  PROVE  EntriesInOrder'
<1> SUFFICES ASSUME NEW p \in ValidSlots', NEW q \in ValidSlots'
             PROVE  /\ Age(p)' < Age(q)' => owner'[p] < owner'[q]
                    /\ futureDestinations'[p].addr \in Addresses
  BY DEF EntriesInOrder
<1>1. /\ ThreadTypes /\ owner \in [Slots -> 0 .. NumPackets] /\ futureDestinations \in [Slots -> Address]
      /\ p \in Slots /\ q \in Slots /\ nextPos \in Slots /\ head' \in Slots /\ CBufferSize \in Nat
  BY CBufferAssumption DEF StateTypeOK, ExternTypes, CBInv, CBTypeOK, ValidSlots
<1> Slots \in SUBSET Nat
  BY CBufferAssumption DEF Slots
<1>2. Age(p)' \in Int /\ Age(q)' \in Int
  BY <1>1 DEF Age
<1>3. CASE PushAddress
  <2> DEFINE n == ingress.pkt
             dst == packet[n].dst
  <2>1. /\ ingress.stage = "push" /\ n = Taken /\ n \in Nat /\ dst \in Addresses /\ Push(dst)
        /\ owner' = [owner EXCEPT ![nextPos] = n]
        /\ futureDestinations' = [futureDestinations EXCEPT ![nextPos] = [addr |-> dst, valid |-> TRUE]]
    <3>1. PushPos = nextPos
      BY NextPosFree
    <3>2. n \in Packets /\ n = Taken /\ n \in Nat /\ packet[n].ip
      BY <1>3, <1>1 DEF PushAddress, ThreadTypes, InputInOrder, Packets
    <3>3. dst \in Addresses
      BY <3>2 DEF StateTypeOK, PacketTypes
    <3> QED  BY <1>3, <3>1, <3>2, <3>3 DEF PushAddress, PushAddr, Push
  <2>2. ASSUME NEW r \in ValidSlots', r # nextPos
        PROVE  /\ r \in ValidSlots /\ owner'[r] = owner[r] /\ owner[r] \in Nat /\ owner[r] < n
               /\ futureDestinations'[r] = futureDestinations[r]
    <3>1. r \in Slots
      BY DEF ValidSlots
    <3>2. r \in ValidSlots
      BY <2>1, <2>2, ValidSlotsStep, NextPosFree
    <3>3. owner[r] \in 1 .. Taken /\ owner[r] # n
      BY <3>2, <2>1 DEF EntriesOwned
    <3> QED  BY <3>1, <3>2, <3>3, <2>1, <2>2, <1>1
  <2> HIDE DEF n, dst
  <2>3. CASE p = nextPos
    <3>1. futureDestinations'[p].addr \in Addresses /\ owner'[p] = n
      BY <2>1, <2>3, <1>1
    <3>2. CASE q = nextPos
      BY <2>3, <3>1, <3>2, <1>2
    <3>3. CASE q # nextPos
      <4>1. Age(q)' < Age(p)'
        BY <2>1, <2>3, <3>3, OrderKept
      <4> QED  BY <4>1, <3>1, <1>2
    <3> QED  BY <3>2, <3>3
  <2>4. CASE p # nextPos
    <3>1. futureDestinations'[p].addr \in Addresses
      BY <2>2, <2>4 DEF EntriesInOrder
    <3>2. CASE q = nextPos
      <4>1. owner'[q] = n
        BY <3>2, <2>1, <1>1
      <4> QED  BY <3>1, <4>1, <2>2, <2>4
    <3>3. CASE q # nextPos
      <4>1. Age(p)' < Age(q)' => Age(p) < Age(q)
        BY <2>1, <2>4, <3>3, OrderKept
      <4> QED  BY <3>1, <3>3, <4>1, <2>2, <2>4 DEF EntriesInOrder
    <3> QED  BY <3>2, <3>3
  <2> QED  BY <2>3, <2>4
<1>4. ASSUME ~ PushAddress,
             /\ p \in ValidSlots /\ q \in ValidSlots
             /\ Age(p)' < Age(q)' => Age(p) < Age(q)
             /\ futureDestinations'[p].addr = futureDestinations[p].addr
      PROVE  /\ Age(p)' < Age(q)' => owner'[p] < owner'[q]
             /\ futureDestinations'[p].addr \in Addresses
  BY <1>4, Frame DEF EntriesInOrder
<1>5. ASSUME ~ PushAddress, UNCHANGED cbVars
      PROVE  /\ Age(p)' < Age(q)' => owner'[p] < owner'[q]
             /\ futureDestinations'[p].addr \in Addresses
  <2>1. /\ p \in ValidSlots /\ q \in ValidSlots
        /\ Age(p)' < Age(q)' => Age(p) < Age(q)
        /\ futureDestinations'[p].addr = futureDestinations[p].addr
    BY <1>5 DEF ValidSlots, IsValid, cbVars, Age
  <2> QED  BY <1>4, <1>5, <2>1
<1>6. ASSUME ~ PushAddress, NEW pos \in Slots, Pop(pos)
      PROVE  /\ Age(p)' < Age(q)' => owner'[p] < owner'[q]
             /\ futureDestinations'[p].addr \in Addresses
  <2>1. /\ p \in ValidSlots /\ q \in ValidSlots /\ p # pos
        /\ Age(p)' < Age(q)' => Age(p) < Age(q)
    BY <1>6, OrderKept
  <2>2. futureDestinations'[p].addr = futureDestinations[p].addr
    BY <1>6, <2>1, <1>1 DEF Pop, PopValid, cbVars
  <2> QED  BY <1>4, <1>6, <2>1, <2>2
<1>7. ASSUME ~ PushAddress, NEW w \in EgressThreads, PopAddress(w)
      PROVE  UNCHANGED cbVars \/ \E pos \in Slots : Pop(pos)
  <2>1. egress[w].pkt \in Packets
    BY <1>7, <1>1 DEF PopAddress, ThreadTypes
  <2>2. packet[egress[w].pkt].pos \in Slots
    BY <2>1 DEF StateTypeOK, PacketTypes, PacketRecords
  <2> QED  BY <1>7, <2>2 DEF PopAddress, PopAddr
<1> QED  BY <1>3, <1>5, <1>6, <1>7, Frame

(* The walk lists packets in the order of arrival. *)
LEMMA ListedByOwner ==
  ASSUME CBTypeOK, EntriesInOrder
  PROVE  OldestFirst
<1>1. Lists(Listed, ValidSlots)
  BY ListedIsTheRing
<1>2. \A i \in 1 .. Len(Listed) : Listed[i] \in ValidSlots
  BY <1>1 DEF Lists
<1> QED  BY <1>1, <1>2 DEF Lists, OldestFirst, EntriesInOrder

(* The thread that reaches a stage does so by the step before it. *)
LEMMA StageReached ==
  ASSUME StateTypeOK, [Next]_vars
  PROVE  /\ ingress'.stage \in {"table", "choose"} => PushAddress \/ UNCHANGED ingress
         /\ ingress'.stage = "recv" => ChoosePort \/ UNCHANGED ingress
<1>1. ThreadTypes
  BY DEF StateTypeOK
<1>2. ASSUME NEW stage \in {"table", "choose", "recv", "chosen", "enqueue"}, Goto(stage)
      PROVE  ingress'.stage = stage
  BY <1>1, <1>2 DEF Goto, ThreadTypes
<1>3. IngressTake \/ Enqueue => ingress'.stage \in {"push", "idle"}
  <2>1. IngressTake => ingress'.stage = "push"
    BY DEF IngressTake, Idle
  <2>2. Enqueue => ingress'.stage = "idle"
    BY DEF Enqueue, Idle
  <2> QED  BY <2>1, <2>2
<1>4. SkipAddress \/ IngressTable \/ ForwardOrDrop => ingress'.stage = "enqueue"
  BY <1>2 DEF SkipAddress, IngressTable, ForwardOrDrop
<1>5. PortChosen => ingress'.stage = "chosen"
  BY <1>1 DEF PortChosen, ThreadTypes
<1>6. ChoosePort => ingress'.stage \in {"recv", "chosen"}
  BY <1>1, <1>2 DEF ChoosePort, ThreadTypes
<1>7. PushAddress => ingress'.stage \in {"choose", "table"}
  BY <1>2 DEF PushAddress
<1> QED  BY <1>3, <1>4, <1>5, <1>6, <1>7, Frame

(* The packet for which a port is asked was pushed last. *)
LEMMA NewestEntryKept ==
  ASSUME StateTypeOK, StateTypeOK', CBInv, InputInOrder, NewestEntry, [Next]_vars
  PROVE  NewestEntry'
<1> SUFFICES ASSUME ingress'.stage = "choose" PROVE NewestEntry'
  BY DEF NewestEntry
<1>1. /\ ThreadTypes /\ packet \in [Packets -> PacketRecords] /\ nextPos \in Slots
      /\ futureDestinations \in [Slots -> Address] /\ packet' \in [Packets -> PacketRecords]
  BY DEF StateTypeOK, PacketTypes, CBInv, CBTypeOK
<1>2. CASE PushAddress
  <2> DEFINE p == ingress.pkt
  <2>1. p \in Packets /\ packet[p].ip /\ PushPos = nextPos /\ ingress'.pkt = p
    BY <1>1, <1>2, NextPosFree DEF PushAddress, ThreadTypes, Goto
  <2>2. packet' = [packet EXCEPT ![p].pos = nextPos]
    BY <1>2, <2>1 DEF PushAddress
  <2>3. packet'[p].ip /\ packet'[p].pos = nextPos /\ packet'[p].dst = packet[p].dst
    BY <2>1, <2>2, <1>1 DEF PacketRecords
  <2>4. nextPos' = (nextPos + 1) % CBufferSize /\ futureDestinations'[nextPos].addr = packet[p].dst
    BY <1>2, <2>1, <1>1 DEF PushAddress, PushAddr, Push
  <2> QED  BY <2>1, <2>3, <2>4 DEF NewestEntry
<1>3. CASE ingress' = ingress
  <2> DEFINE p == ingress.pkt
  <2>1. ~ PushAddress /\ p \in Packets /\ p \in 1 .. Taken
    BY <1>1, <1>3 DEF PushAddress, ThreadTypes, InputInOrder, Packets
  <2>2. packet'[p].ip = packet[p].ip /\ packet'[p].dst = packet[p].dst /\ packet'[p].pos = packet[p].pos
    BY <2>1, <1>3, PositionKept
  <2>3. packet[p].pos \in Slots
    BY <2>1, <1>1 DEF PacketRecords
  <2>4. nextPos' = nextPos /\ futureDestinations'[packet[p].pos].addr = futureDestinations[packet[p].pos].addr
    <3>1. ASSUME NEW w \in EgressThreads, PopAddress(w)
          PROVE  nextPos' = nextPos /\ \A pos \in Slots : futureDestinations'[pos].addr = futureDestinations[pos].addr
      BY <3>1, <1>1 DEF PopAddress, PopAddr, Pop, PopValid, cbVars, Address
    <3> QED  BY <2>1, <2>3, <3>1, Frame DEF cbVars
  <2> QED  BY <1>3, <2>2, <2>4 DEF NewestEntry
<1> QED  BY <1>2, <1>3, StageReached

(* The slot before nextPos, if valid, is the last of the walk. *)
LEMMA NewestIsListedLast ==
  ASSUME CBInv, NEW pos \in ValidSlots, nextPos = (pos + 1) % CBufferSize
  PROVE  Listed # <<>> /\ Listed[Len(Listed)] = pos
<1>1. Lists(Listed, ValidSlots)
  BY ListedIsTheRing DEF CBInv
<1>2. PICK k \in 1 .. Len(Listed) : Listed[k] = pos
  BY <1>1 DEF Lists
<1>3. Len(Listed) \in Nat /\ \A i \in 1 .. Len(Listed) : Listed[i] \in ValidSlots
  BY <1>1 DEF Lists
<1>4. Len(Listed) # 0 /\ Listed # <<>> /\ Len(Listed) \in 1 .. Len(Listed)
  BY <1>2, <1>3
<1> DEFINE last == Listed[Len(Listed)]
<1>5. last \in ValidSlots /\ (k < Len(Listed) => Age(pos) < Age(last))
  BY <1>1, <1>2, <1>3, <1>4 DEF Lists
<1> HIDE DEF last
<1>6. last # pos => Age(last) < Age(pos)
  <2>1. /\ head \in 0 .. CBufferSize - 1 /\ pos \in 0 .. CBufferSize - 1 /\ last \in 0 .. CBufferSize - 1
        /\ nextPos = IF pos + 1 < CBufferSize THEN pos + 1 ELSE 0
    BY <1>5, CBufferAssumption DEF CBInv, CBTypeOK, ValidSlots, Slots
  <2>2. InWindow(pos) /\ InWindow(last)
    BY <1>5 DEF CBInv, HeadIsOldest
  <2> QED  BY <2>1, <2>2, NewestIsLast DEF InWindow, Age
<1>7. Age(last) \in Int /\ Age(pos) \in Int
  BY <1>5, AgeOfAfter, CBufferAssumption DEF CBInv, ValidSlots
<1> QED  BY <1>2, <1>3, <1>4, <1>5, <1>6, <1>7 DEF last

(* A request is consistent with itself when it is built, and is not changed while it waits. *)
LEMMA RequestFitsKept ==
  ASSUME StateTypeOK, StateTypeOK', CBInv, InputInOrder, SocketInOrder, OwnEntry, NewestEntry, RequestFits,
         [Next]_vars
  PROVE  RequestFits'
<1> SUFFICES ASSUME request' # NoRequest PROVE RequestFits'
  BY DEF RequestFits
<1>1. ThreadTypes /\ packet \in [Packets -> PacketRecords]
  BY DEF StateTypeOK, PacketTypes
<1> DEFINE p == ingress.pkt
<1>2. ASSUME request' = request PROVE RequestFits'
  <2>1. ingress.stage = "recv" /\ response = 0
    BY <1>2 DEF SocketInOrder
  <2>2. ingress' = ingress /\ ~ PushAddress
    BY <2>1, Frame DEF IngressTake, PushAddress, SkipAddress, IngressTable, ChoosePort, PortChosen, PortReceived,
                       ForwardOrDrop, Enqueue
  <2>3. p \in 1 .. Taken
    BY <2>1, <1>1 DEF ThreadTypes, InputInOrder, Packets
  <2>4. packet'[p].dst = packet[p].dst /\ overrun' = overrun
    BY <2>2, <2>3, PositionKept, Frame
  <2> QED  BY <1>2, <2>2, <2>4 DEF RequestFits
<1>3. ASSUME ChoosePort, request' # request PROVE RequestFits'
  <2>1. /\ ingress.stage = "choose" /\ p \in Packets /\ overrun' = overrun
        /\ packet' = [packet EXCEPT ![p].id = nextId]
    BY <1>1, <1>3 DEF ChoosePort, ThreadTypes
  <2>2. packet[p].pos \in Slots /\ packet'[p].dst = packet[p].dst
    BY <2>1, <1>1 DEF PacketRecords
  <2>3. GetOutputPort(packet[p].dmac, packet[p].pos) /\ ingress'.pkt = p
    BY <1>3, <1>1 DEF ChoosePort, NobodyListens, Goto, ThreadTypes
  <2>4. /\ request'.size = validElements /\ request'.addr = Signed(futureDestinations[packet[p].pos].addr)
        /\ request'.dests = FutureList
    BY <2>3 DEF GetOutputPort
  <2>5. Lists(Listed, ValidSlots)
    BY ListedIsTheRing DEF CBInv
  <2>6. Len(Listed) = validElements /\ Len(Listed) \in Nat
    BY <2>5 DEF Lists, CBInv, CountMatches
  <2>7. Len(FutureList) = Len(Listed) /\ \A i \in 1 .. Len(Listed) : FutureList[i] = futureDestinations[Listed[i]].addr
    BY <2>6 DEF FutureList
  <2>8. /\ packet[p].ip /\ nextPos = (packet[p].pos + 1) % CBufferSize
        /\ futureDestinations[packet[p].pos].addr = packet[p].dst
    BY <2>1 DEF NewestEntry
  <2>9. ASSUME ~ overrun
        PROVE  FutureList # <<>> /\ FutureList[Len(FutureList)] = packet[p].dst
    <3>1. packet[p].pos \in ValidSlots
      <4>1. p \in Inside
        BY <2>1, <2>8 DEF Inside
      <4>2. futureDestinations[packet[p].pos] = [addr |-> packet[p].dst, valid |-> TRUE]
        BY <4>1, <2>9 DEF OwnEntry
      <4> QED  BY <4>2, <2>2 DEF ValidSlots, IsValid
    <3>2. Listed # <<>> /\ Listed[Len(Listed)] = packet[p].pos
      BY <3>1, <2>8, NewestIsListedLast
    <3>3. Len(Listed) # 0
      BY <3>2, <2>5 DEF Lists
    <3> QED  BY <3>2, <3>3, <2>6, <2>7, <2>8
  <2> QED  BY <2>1, <2>2, <2>3, <2>4, <2>6, <2>7, <2>8, <2>9 DEF RequestFits
<1>4. CASE Learner
  BY <1>2, <1>4 DEF Learner, PeerAnswers, PeerListens, PeerCloses
<1> QED  BY <1>2, <1>3, <1>4, Frame

-----------------------------------------------------------------------------
(* The other types.                                                        *)

(* The list of a request has at most one address for each slot. *)
LEMMA FutureListType ==
  ASSUME CBTypeOK, EntriesInOrder
  PROVE  FutureList \in UNION {[1 .. n -> Addresses] : n \in 0 .. CBufferSize}
<1>1. Lists(Listed, ValidSlots)
  BY ListedIsTheRing
<1>2. Len(Listed) \in 0 .. CBufferSize
  BY <1>1, FiniteSlots DEF Lists, ValidSlots
<1>3. \A i \in 1 .. Len(Listed) : Listed[i] \in ValidSlots
  BY <1>1 DEF Lists
<1>4. FutureList \in [1 .. Len(Listed) -> Addresses]
  BY <1>3 DEF FutureList, EntriesInOrder
<1> QED  BY <1>2, <1>4

(* Counters, rewards, request and answer keep their types. *)
LEMMA CtrlTypesKept ==
  ASSUME StateTypeOK, CBTypeOK, EntriesInOrder, CtrlTypes, [Next]_vars
  PROVE  CtrlTypes'
<1> USE MLControllerAssumption DEF CtrlTypes
<1>1. \A mac, loaded : CheckHost(mac, loaded) => host' \in Nodes \cup {NullHost}
  BY DEF CheckHost
<1>2. ThreadTypes /\ packet \in [Packets -> PacketRecords] /\ ExternTypes
  BY DEF StateTypeOK, PacketTypes
<1>3. CASE PushAddress
  <2> DEFINE dst == packet[ingress.pkt].dst
  <2>1. dst \in Addresses
    BY <1>3 DEF PushAddress, StateTypeOK, ThreadTypes, PacketTypes
  <2>2. PushAddr(packet[ingress.pkt].dmac, dst)
    BY <1>3 DEF PushAddress
  <2>3. (IF Bumped(dst) = UpdateFrequency THEN 0 ELSE Bumped(dst)) \in 0 .. UpdateFrequency
    BY <2>1 DEF Bumped, Unseen
  <2>4. counters' \in [Addresses -> 0 .. UpdateFrequency]
    BY <2>2, <2>3 DEF PushAddr
  <2> QED  BY <2>2, <2>4, <1>1 DEF PushAddr, idVars, socketVars
<1>4. CASE ChoosePort
  <2> DEFINE p == ingress.pkt
  <2>1. p \in Packets /\ packet[p].pos \in Slots
    <3>1. p \in Packets
      BY <1>4, <1>2 DEF ChoosePort, ThreadTypes
    <3> QED  BY <3>1, <1>2 DEF PacketRecords
  <2>2. TakeReward => nextRw' \in 0 .. RwsSize - 1
    BY DEF TakeReward
  <2>3. CASE GetOutputPort(packet[p].dmac, packet[p].pos)
    <3>1. LastRw \in Rewards
      BY DEF LastRw, NoReward, Rewards
    <3>2. futureDestinations[packet[p].pos].addr \in Addresses \cup {NoAddress}
      BY <2>1 DEF CBTypeOK, Address
    <3>3. request' \in Requests
      BY <3>1, <3>2, <2>3, FutureListType DEF GetOutputPort, Requests, CBTypeOK
    <3>4. /\ hostsLoaded' \in BOOLEAN /\ host' \in Nodes \cup {NullHost} /\ nextRw' \in 0 .. RwsSize - 1
          /\ UNCHANGED <<counters, rws>> /\ py' = "connected"
          /\ peer' = IF peer = "listening" THEN "serving" ELSE peer
      BY <2>3, <2>2, <1>1 DEF GetOutputPort
    <3> QED  BY <3>3, <3>4
  <2>4. CASE NobodyListens(packet[p].dmac)
    BY <2>4, <2>2, <1>1 DEF NobodyListens
  <2> QED  BY <1>4, <2>3, <2>4 DEF ChoosePort
<1>5. ASSUME NEW w \in EgressThreads, PopAddress(w) PROVE CtrlTypes'
  BY <1>5, <1>1 DEF PopAddress, PopAddr, idVars, socketVars
<1>6. ASSUME NEW w \in EgressThreads, RewardSent(w) PROVE CtrlTypes'
  <2> DEFINE p == egress[w].pkt
  <2>1. p \in Packets /\ p \in Rewards
    BY <1>6, <1>2 DEF RewardSent, ThreadTypes, Packets, Rewards
  <2>2. packet[p].id \in 0 .. RwsSize - 1
    BY <2>1, <1>2 DEF PacketRecords
  <2>3. SendReward(p, packet[p].id) \/ UNCHANGED ctrlVars
    BY <1>6 DEF RewardSent
  <2> QED  BY <2>1, <2>2, <2>3 DEF SendReward, ctrlVars, idVars, socketVars
<1>7. CASE PortChosen
  BY <1>7 DEF PortChosen, PortReceived
<1>8. CASE Learner
  BY <1>8 DEF Learner, PeerAnswers, PeerListens, PeerCloses, idVars
<1>9. \/ PushAddress \/ ChoosePort \/ PortChosen \/ Learner
      \/ \E w \in EgressThreads : PopAddress(w) \/ RewardSent(w)
      \/ UNCHANGED ctrlVars
  BY DEF Next, Step, Ingress, Egress, Receive, IngressTake, SkipAddress, IngressTable, Segfault, ForwardOrDrop,
         NeighborException, Enqueue, EgressTake, EgressOut, Transmit, Rest, RecvSpins, vars
<1>10. CASE UNCHANGED ctrlVars
  BY <1>10 DEF ctrlVars, idVars, socketVars
<1> QED  BY <1>3, <1>4, <1>5, <1>6, <1>7, <1>8, <1>9, <1>10

(* The history variables keep their types. *)
LEMMA HistoryTypesKept ==
  ASSUME StateTypeOK, HistoryTypes, [Next]_vars
  PROVE  HistoryTypes'
<1>1. CASE PushAddress
  BY <1>1, Frame DEF PushAddress, HistoryTypes
<1>2. CASE ChoosePort
  <2>1. ingress.pkt \in Packets
    BY <1>2 DEF ChoosePort, StateTypeOK, ThreadTypes
  <2> QED  BY <1>2, <2>1 DEF ChoosePort, HistoryTypes
<1>3. CASE Segfault \/ NeighborException
  BY <1>3 DEF Segfault, NeighborException, HistoryTypes, historyVars
<1> QED  BY <1>1, <1>2, <1>3, Frame DEF HistoryTypes

(* No more packets are routed than have been taken. *)
LEMMA RoutedSoFarKept ==
  ASSUME StateTypeOK, StateTypeOK', HistoryTypes, InputInOrder, InputInOrder', RoutedSoFar, [Next]_vars
  PROVE  RoutedSoFar'
<1>1. /\ ThreadTypes /\ Len(routed) \in Nat /\ Taken \in Nat
      /\ (IF IngressTake THEN Taken' = Taken + 1 ELSE Taken' = Taken)
  <2>1. arrived \in Nat
    BY MLControllerAssumption DEF StateTypeOK, QueueTypes
  <2> QED  BY <2>1, InputStep DEF StateTypeOK, HistoryTypes, InputInOrder
<1>2. CASE ChoosePort
  <2>1. /\ ingress.stage = "choose" /\ ingress'.stage \in {"recv", "chosen"}
        /\ Len(routed') = Len(routed) + 1 /\ ~ IngressTake
    <3>1. ingress.pkt \in Packets /\ ingress.stage = "choose"
      BY <1>1, <1>2 DEF ChoosePort, ThreadTypes
    <3>2. Len(Append(routed, ingress.pkt)) = Len(routed) + 1
      BY <3>1, Queues DEF HistoryTypes
    <3> QED  BY <1>1, <1>2, <3>1, <3>2 DEF ChoosePort, IngressTake, Goto, ThreadTypes
  <2> QED  BY <1>1, <2>1 DEF RoutedSoFar
<1>3. CASE ~ ChoosePort
  <2>1. routed' = routed
    BY <1>3, Frame
  <2>2. CASE IngressTake
    <3>1. ingress'.stage = "push" /\ ingress.stage = "idle"
      BY <2>2 DEF IngressTake, Idle
    <3> QED  BY <1>1, <2>1, <2>2, <3>1 DEF RoutedSoFar
  <2>3. CASE ~ IngressTake
    <3>1. ingress'.stage \in {"push", "table", "choose"} => ingress.stage \in {"push", "table", "choose"}
      <4>1. ingress'.stage \in {"push", "idle"} => ingress' = ingress \/ Enqueue
        BY <2>3, IngressMoves
      <4>2. Enqueue => ingress'.stage = "idle"
        BY DEF Enqueue, Idle
      <4>3. PushAddress => ingress.stage = "push"
        BY DEF PushAddress
      <4>4. ingress'.stage \in {"table", "choose"} => ingress' = ingress \/ PushAddress
        BY StageReached
      <4> QED  BY <4>1, <4>2, <4>3, <4>4
    <3> QED  BY <1>1, <2>1, <2>3, <3>1 DEF RoutedSoFar
  <2> QED  BY <2>2, <2>3
<1> QED  BY <1>2, <1>3

(* No queue grows beyond its capacity. *)
LEMMA CapacitiesKept ==
  ASSUME StateTypeOK, Capacities, [Next]_vars
  PROVE  Capacities'
<1>1. /\ QueueTypes /\ ThreadTypes /\ InputCapacity \in Nat /\ OutputCapacity \in Nat
      /\ input_buffer \in Seq(Packets) /\ output_buffer \in Seq(Packets)
      /\ Len(input_buffer) \in Nat /\ Len(output_buffer) \in Nat
  BY SimpleSwitchAssumption DEF StateTypeOK, QueueTypes
<1>2. Len(input_buffer') <= InputCapacity
  <2>1. CASE Receive
    <3>1. Len(Append(input_buffer, arrived')) = Len(input_buffer) + 1
      <4>1. arrived' \in Packets
        BY <2>1, <1>1, MLControllerAssumption DEF Receive, QueueTypes, Packets
      <4> QED  BY <4>1, <1>1, Queues
    <3> QED  BY <2>1, <3>1, <1>1 DEF Receive
  <2>2. CASE IngressTake
    <3>1. Len(Tail(input_buffer)) = Len(input_buffer) - 1
      BY <2>2, <1>1, Queues DEF IngressTake
    <3> QED  BY <2>2, <3>1, <1>1 DEF IngressTake, Capacities
  <2> QED  BY <2>1, <2>2, Frame DEF Capacities
<1>3. Len(output_buffer') <= OutputCapacity
  <2>1. ASSUME NEW w \in EgressThreads, EgressOut(w) PROVE Len(output_buffer') <= OutputCapacity
    <3>1. Len(Append(output_buffer, egress[w].pkt)) = Len(output_buffer) + 1
      <4>1. egress[w].pkt \in Packets
        BY <2>1, <1>1 DEF EgressOut, ThreadTypes
      <4> QED  BY <4>1, <1>1, Queues
    <3> QED  BY <2>1, <3>1, <1>1 DEF EgressOut
  <2>2. CASE Transmit
    <3>1. Len(Tail(output_buffer)) = Len(output_buffer) - 1
      BY <2>2, <1>1, Queues DEF Transmit
    <3> QED  BY <2>2, <3>1, <1>1 DEF Transmit, Capacities
  <2> QED  BY <2>1, <2>2, Frame DEF Capacities
<1> QED  BY <1>2, <1>3 DEF Capacities

(* A queue in order holds no packet twice, hence no more than there are.   *)
LEMMA NoRepeats ==
  ASSUME NEW q \in Seq(Packets), NEW line, InOrder(q, line)
  PROVE  q \in PacketSeqs
<1>1. NumPackets \in Nat /\ Len(q) \in Nat /\ q \in [1 .. Len(q) -> Packets]
  BY MLControllerAssumption
<1>2. IsFiniteSet(1 .. Len(q)) /\ Cardinality(1 .. Len(q)) = Len(q)
  BY <1>1, FS_Interval
<1>3. IsFiniteSet(Packets) /\ Cardinality(Packets) = NumPackets
  BY <1>1, FS_Interval DEF Packets
<1>4. \A i, j \in 1 .. Len(q) : q[i] = q[j] => i = j
  <2>1. ASSUME NEW i \in 1 .. Len(q), NEW j \in 1 .. Len(q), i < j PROVE q[i] # q[j]
    BY <2>1, <1>1 DEF InOrder, Before, Packets
  <2> QED  BY <2>1
<1>5. Len(q) <= NumPackets
  <2>1. q \in Injection(1 .. Len(q), Packets)
    BY <1>1, <1>4 DEF Injection, IsInjective
  <2>2. Cardinality(1 .. Len(q)) <= Cardinality(Packets)
    BY <2>1, <1>3, FS_Injection
  <2> QED  BY <2>2, <1>2, <1>3
<1>6. Len(q) \in 0 .. NumPackets
  BY <1>1, <1>5
<1> QED  BY <1>1, <1>6 DEF PacketSeqs

(* The parts of the invariant together give the full type invariant. *)
LEMMA TypesFollow ==
  ASSUME CBTypeOK, StateTypeOK, InputInOrder, EgressInOrder, CtrlTypes, HistoryTypes, RoutedSoFar, Capacities
  PROVE  TypeOK
<1>1. CtrlTypeOK
  BY DEF CtrlTypes, CtrlTypeOK, StateTypeOK, ExternTypes
<1>2. /\ arrived \in 0 .. NumPackets /\ packet \in [Packets -> PacketRecords] /\ NumPackets \in Nat
      /\ input_buffer \in Seq(Packets) /\ routed \in Seq(Packets) /\ Taken \in 0 .. arrived
      /\ ThreadTypes /\ owner \in [Slots -> 0 .. NumPackets] /\ QueueTypes
  BY MLControllerAssumption DEF StateTypeOK, QueueTypes, PacketTypes, ExternTypes, InputInOrder, HistoryTypes
<1>3. \A q \in Seq(Packets) : Len(q) <= NumPackets => q \in PacketSeqs
  BY <1>2 DEF PacketSeqs
<1>4. input_buffer \in PacketSeqs
  <2>1. Len(input_buffer) \in Nat /\ Len(input_buffer) <= NumPackets
    BY <1>2 DEF Taken
  <2> QED  BY <1>2, <1>3, <2>1
<1>5. routed \in PacketSeqs
  <2>1. Len(routed) \in Nat /\ Len(routed) <= NumPackets
    BY <1>2 DEF RoutedSoFar
  <2> QED  BY <1>2, <1>3, <2>1
<1>6. /\ sent \in PacketSeqs /\ output_buffer \in PacketSeqs
      /\ \A w \in EgressThreads : egress_buffers[w] \subseteq Packets
      /\ send \in [Packets -> Nat] /\ lastSent \in [OutPorts -> Nat]
  BY <1>2, NoRepeats DEF QueueTypes, EgressInOrder, QueuesInOrder
<1>7. \A w \in EgressThreads : egress[w] \in [stage : {"idle", "pop", "reward", "out"}, pkt : 0 .. NumPackets]
  BY <1>2 DEF ThreadTypes
<1> QED  BY <1>1, <1>2, <1>4, <1>5, <1>6, <1>7 DEF TypeOK, ThreadTypes, Capacities, HistoryTypes

-----------------------------------------------------------------------------
(* The invariant.                                                          *)

(* The invariant holds at the start. *)
LEMMA InitInv == Init => SwitchInv
<1> SUFFICES ASSUME Init PROVE SwitchInv
  OBVIOUS
<1>1. CBInv
  BY CBInitInv DEF Init, CtrlInit
<1>2. StateTypeOK
  BY InitTypes
<1>3. /\ arrived = 0 /\ input_buffer = <<>> /\ ingress.stage = "idle" /\ sent = <<>>
      /\ output_buffer = <<>> /\ egress_buffers = [w \in EgressThreads |-> {}]
      /\ \A w \in EgressThreads : egress[w].stage = "idle"
      /\ ValidSlots = {} /\ Running
  BY DEF Init, Idle, EgressIdle, CtrlInit, CBInit, ValidSlots, IsValid, Running
<1>4. InputInOrder
  <2>1. arrived = 0 /\ Len(input_buffer) = 0
    BY <1>3
  <2>2. Taken = 0
    BY <2>1 DEF Taken
  <2> QED  BY <1>3, <2>1, <2>2 DEF InputInOrder
<1>5. EgressInOrder
  <2>1. InSeq(sent) = {} /\ InSeq(output_buffer) = {} /\ \A w \in EgressThreads : egress_buffers[w] = {}
    BY <1>3 DEF InSeq
  <2>2. InOrder(sent, LineOf) /\ InOrder(output_buffer, LineOf)
    BY <1>3 DEF InOrder
  <2> QED  BY <2>1, <2>2, <1>3 DEF EgressInOrder, QueuesInOrder, InEgress, StagesInOrder, SendsInOrder, Past, Held
<1>6. EntriesOwned /\ NoEntryAfterEgress /\ PortOrNoLearner
  BY <1>3 DEF EntriesOwned, NoEntryAfterEgress, PortOrNoLearner, CrashOnlyBeforeLearner
<1>7. IdleHoldsNothing /\ OwnEntry
  <2>1. ingress.pkt = 0 /\ \A p \in Packets : ~ packet[p].ip
    BY DEF Init, Idle, Fresh, AnyHeader
  <2> QED  BY <2>1 DEF IdleHoldsNothing, OwnEntry, Inside
<1>8. SocketInOrder
  BY DEF Init, CtrlInit, SocketInOrder
<1>9. EntriesInOrder /\ NewestEntry /\ RequestFits
  BY <1>3 DEF EntriesInOrder, NewestEntry, RequestFits, Init, CtrlInit
<1>10. CtrlTypes
  <2>1. /\ hostsLoaded = FALSE /\ host = NullHost /\ counters = [address \in Addresses |-> UpdateFrequency]
        /\ nextRw = 0 /\ rws = [id \in 0 .. RwsSize - 1 |-> 0] /\ py = "null" /\ request = NoRequest
        /\ peer \in {"absent", "listening", "serving", "closed"}
    BY SimpleSwitchAssumption DEF Init, CtrlInit, Unseen, NoReward
  <2>2. counters \in [Addresses -> 0 .. UpdateFrequency] /\ 0 \in 0 .. RwsSize - 1 /\ 0 \in Rewards
    BY <2>1, MLControllerAssumption DEF Rewards
  <2> QED  BY <2>1, <2>2 DEF CtrlTypes
<1>11. HistoryTypes
  <2>1. status = "running" /\ overrun = FALSE /\ routed = <<>>
    BY DEF Init
  <2>2. <<>> \in Seq(Packets)
    OBVIOUS
  <2> QED  BY <2>1, <2>2, Zenon DEF HistoryTypes
<1>12. RoutedSoFar /\ Capacities
  <2>1. Len(routed) = 0 /\ Taken = 0 /\ Len(input_buffer) = 0 /\ Len(output_buffer) = 0
    <3>1. routed = <<>>
      BY DEF Init
    <3>2. Len(routed) = 0 /\ Len(input_buffer) = 0 /\ Len(output_buffer) = 0
      BY <1>3, <3>1
    <3>3. arrived = 0
      BY <1>3
    <3> QED  BY <3>2, <3>3 DEF Taken
  <2> QED  BY <2>1, <1>3, SimpleSwitchAssumption DEF RoutedSoFar, Capacities
<1> QED  BY <1>1, <1>2, <1>4, <1>5, <1>6, <1>7, <1>8, <1>9, <1>10, <1>11, <1>12 DEF SwitchInv

(* Every step keeps the invariant. *)
LEMMA NextInv == SwitchInv /\ [Next]_vars => SwitchInv'
<1> SUFFICES ASSUME SwitchInv, [Next]_vars PROVE SwitchInv'
  OBVIOUS
<1> USE DEF SwitchInv
<1>1. CBTypeOK
  BY DEF CBInv
<1>2. StateTypeOK'
  BY <1>1, NextPacketTypes, NextQueueTypes, NextThreadTypes, NextExternTypes DEF StateTypeOK
<1>3. CBInv'
  BY RingStep, CBNextInv
<1>4. InputInOrder'
  BY <1>2, InputStep
<1>5. EgressInOrder'
  BY <1>2, EgressOrderKept
<1>6. EntriesOwned'
  BY <1>2, EntriesOwnedKept
<1>7. NoEntryAfterEgress'
  BY <1>2, NoEntryAfterEgressKept
<1>8. PortOrNoLearner'
  BY PortOrNoLearnerKept
<1>9. IdleHoldsNothing'
  BY IdleHoldsNothingKept
<1>10. OwnEntry'
  BY <1>1, <1>2, <1>4, <1>5, <1>9, OwnEntryKept
<1>11. SocketInOrder'
  BY SocketStep
<1>12. EntriesInOrder'
  BY <1>2, <1>3, EntriesInOrderKept
<1>13. NewestEntry'
  BY <1>2, NewestEntryKept
<1>14. RequestFits'
  BY <1>2, RequestFitsKept
<1>15. CtrlTypes'
  BY <1>1, CtrlTypesKept
<1>16. HistoryTypes'
  BY HistoryTypesKept
<1>17. RoutedSoFar'
  BY <1>2, <1>4, RoutedSoFarKept
<1>18. Capacities'
  BY CapacitiesKept
<1> QED  BY <1>2, <1>3, <1>4, <1>5, <1>6, <1>7, <1>8, <1>9, <1>10, <1>11, <1>12, <1>13, <1>14, <1>15,
            <1>16, <1>17, <1>18

(* The invariant of the switch, for any packets, ports, threads, capacities and routes: the
   ring under its threads (ccbuffer.h), the order of the queues (simple_switch.cpp), the
   entries of the packets (MLRouter.p4), the learner's connection (pymodule.h). *)
THEOREM SwitchInvariant == Spec => []SwitchInv
  BY InitInv, NextInv, PTL DEF Spec

-----------------------------------------------------------------------------
(* The rewards.  The invariant is that of a switch whose table routes no   *)
(* packet and whose rws has not been used up: there the packets routed are *)
(* numbered, and everything that counts or stores is about those numbers.  *)

(* The packet's id is its place among those routed. *)
Numbered(p) == packet[p].id < Len(routed) /\ routed[packet[p].id + 1] = p

(* In the queue of an egress thread, or held by it. *)
InEgressNow(p) ==
  \E w \in EgressThreads : p \in egress_buffers[w] \/ (Held(w) /\ egress[w].pkt = p)

(* nextId is the place of the next packet routed, and that of the one the  *)
(* answer is awaited for until it has come; nextRw is the place before.    *)
Indices ==
  /\ ingress.stage = "recv" => routed # <<>>
  /\ nextId = IF ingress.stage = "recv" THEN Len(routed) - 1 ELSE Len(routed) % RwsSize
  /\ nextRw = IF routed = <<>> THEN 0 ELSE Len(routed) - 1

(* A reward is stored at the place of the packet it was measured on.       *)
RewardsStored ==
  \A i \in 0 .. RwsSize - 1 : rws[i] # NoReward => i < Len(routed) /\ rws[i] = routed[i + 1]

(* Whatever packet may still send a reward was routed, and has its place.  *)
AllNumbered ==
  /\ \A p \in Packets : InEgressNow(p) /\ packet[p].ip => Numbered(p)
  /\ ingress.stage \in {"recv", "chosen"} => Numbered(ingress.pkt)
  /\ ingress.stage = "enqueue" /\ packet[ingress.pkt].ip =>
       packet[ingress.pkt].spec = DropPort \/ Numbered(ingress.pkt)

RewardInv == Indices /\ RewardsStored /\ AllNumbered /\ RewardAligned

(* What getOutputPort does to the list of those routed and to the indices. *)
LEMMA RoutedStep ==
  ASSUME SwitchInv, Indices, NumPackets <= RwsSize, ChoosePort
  PROVE  /\ ingress.pkt \in Packets /\ ingress.stage = "choose" /\ ingress'.pkt = ingress.pkt
         /\ nextId = Len(routed) /\ Len(routed) < RwsSize /\ Len(routed) \in Nat
         /\ routed' = Append(routed, ingress.pkt) /\ Len(routed') = Len(routed) + 1
         /\ routed'[Len(routed) + 1] = ingress.pkt
         /\ \A i \in 1 .. Len(routed) : routed'[i] = routed[i]
         /\ packet' = [packet EXCEPT ![ingress.pkt].id = nextId]
<1>1. /\ ingress.stage = "choose" /\ ingress.pkt \in Packets /\ ingress.pkt = Taken /\ ThreadTypes
      /\ routed \in Seq(Packets) /\ Len(routed) \in Nat
  BY DEF ChoosePort, SwitchInv, StateTypeOK, ThreadTypes, InputInOrder, HistoryTypes
<1>2. Len(routed) < RwsSize
  BY <1>1, MLControllerAssumption DEF SwitchInv, RoutedSoFar, Packets
<1>3. nextId = Len(routed)
  <2>1. Len(routed) % RwsSize = Len(routed)
    BY <1>1, <1>2, MLControllerAssumption
  <2> QED  BY <1>1, <2>1 DEF Indices
<1>4. ingress'.pkt = ingress.pkt
  BY <1>1 DEF ChoosePort, Goto, ThreadTypes
<1>5. routed' = Append(routed, ingress.pkt) /\ packet' = [packet EXCEPT ![ingress.pkt].id = nextId]
  BY DEF ChoosePort
<1> QED  BY <1>1, <1>2, <1>3, <1>4, <1>5, Queues

(* Until the index wraps, nextId and nextRw follow the number of packets routed. *)
LEMMA IndicesKept ==
  ASSUME SwitchInv, Indices, NumPackets <= RwsSize, [Next]_vars
  PROVE  Indices'
<1>1. ThreadTypes /\ routed \in Seq(Packets) /\ Len(routed) \in Nat /\ RwsSize \in Nat \ {0}
  BY MLControllerAssumption DEF SwitchInv, StateTypeOK, HistoryTypes
<1>2. CASE ChoosePort
  <2> DEFINE n == Len(routed)
  <2>1. nextId = n /\ n \in Nat /\ n < RwsSize /\ Len(routed') = n + 1 /\ routed' # <<>>
    <3>1. Len(<<>>) = 0
      OBVIOUS
    <3> QED  BY <1>2, <3>1, RoutedStep
  <2>2. nextRw = IF n = 0 THEN 0 ELSE n - 1
    BY <1>1 DEF Indices
  <2> HIDE DEF n
  <2>3. TakeReward => nextRw' = n
    <3>1. CASE n = 0
      BY <2>1, <2>2, <3>1 DEF TakeReward
    <3>2. CASE n # 0
      <4>1. n % RwsSize = n
        BY <2>1, <1>1
      <4> QED  BY <2>1, <2>2, <3>2, <4>1 DEF TakeReward
    <3> QED  BY <3>1, <3>2
  <2>4. CASE GetOutputPort(packet[ingress.pkt].dmac, packet[ingress.pkt].pos) /\ Goto("recv")
    <3>1. ingress'.stage = "recv" /\ nextId' = n /\ nextRw' = n
      BY <2>1, <2>3, <2>4, <1>1 DEF GetOutputPort, Goto, ThreadTypes
    <3> QED  BY <3>1, <2>1 DEF Indices
  <2>5. CASE NobodyListens(packet[ingress.pkt].dmac)
             /\ ingress' = [ingress EXCEPT !.stage = "chosen", !.outP = NoPort, !.fw = DoForward(NoPort)]
    <3>1. ingress'.stage = "chosen" /\ nextId' = (n + 1) % RwsSize /\ nextRw' = n
      BY <2>1, <2>3, <2>5, <1>1 DEF NobodyListens, NextIdUp, ThreadTypes
    <3> QED  BY <3>1, <2>1 DEF Indices
  <2> QED  BY <1>2, <2>4, <2>5 DEF ChoosePort
<1>3. CASE PortChosen
  <2>1. /\ ingress.stage = "recv" /\ ingress'.stage = "chosen" /\ nextId' = (nextId + 1) % RwsSize
        /\ UNCHANGED <<routed, nextRw>>
    BY <1>1, <1>3 DEF PortChosen, PortReceived, NextIdUp, ThreadTypes, historyVars
  <2>2. nextId + 1 = Len(routed)
    BY <2>1, <1>1 DEF Indices
  <2> QED  BY <2>1, <2>2 DEF Indices
<1>4. CASE ~ ChoosePort /\ ~ PortChosen
  <2>1. UNCHANGED <<routed, nextRw, nextId>>
    BY <1>4, Frame
  <2>2. ingress'.stage = "recv" <=> ingress.stage = "recv"
    <3>1. ingress'.stage = "recv" => ingress.stage = "recv"
      BY <1>4, StageReached DEF SwitchInv
    <3>2. ASSUME ingress.stage = "recv" PROVE ingress' = ingress
      BY <1>4, <3>2, Frame DEF IngressTake, PushAddress, SkipAddress, IngressTable, ForwardOrDrop, Enqueue
    <3> QED  BY <3>1, <3>2
  <2> QED  BY <2>1, <2>2 DEF Indices
<1> QED  BY <1>2, <1>3, <1>4

(* Until the index wraps, a reward is stored under the number of its own packet. *)
LEMMA RewardsStoredKept ==
  ASSUME SwitchInv, Indices, RewardsStored, AllNumbered, NumPackets <= RwsSize, [Next]_vars
  PROVE  RewardsStored'
<1>1. /\ ThreadTypes /\ Len(routed) \in Nat /\ rws \in [0 .. RwsSize - 1 -> Rewards]
      /\ packet \in [Packets -> PacketRecords]
  BY DEF SwitchInv, StateTypeOK, HistoryTypes, CtrlTypes, PacketTypes
<1>2. CASE ChoosePort
  <2>1. rws' = rws
    BY <1>2 DEF ChoosePort, GetOutputPort, NobodyListens
  <2>2. ASSUME NEW i \in 0 .. RwsSize - 1, i < Len(routed)
        PROVE  i < Len(routed') /\ routed'[i + 1] = routed[i + 1]
    <3>1. i + 1 \in 1 .. Len(routed)
      BY <1>1, <2>2
    <3> QED  BY <1>1, <1>2, <2>2, <3>1, RoutedStep
  <2> QED  BY <2>1, <2>2 DEF RewardsStored
<1>3. ASSUME NEW w \in EgressThreads, RewardSent(w) PROVE RewardsStored'
  <2> DEFINE p == egress[w].pkt
  <2>1. /\ p \in Packets /\ InEgressNow(p) /\ routed' = routed
    BY <1>1, <1>3 DEF RewardSent, ThreadTypes, InEgressNow, Held, historyVars
  <2>2. packet[p].id \in 0 .. RwsSize - 1
    BY <2>1, <1>1 DEF PacketRecords
  <2>3. CASE packet[p].ip
    <3>1. Numbered(p)
      BY <2>1, <2>3 DEF AllNumbered
    <3>2. rws' = [rws EXCEPT ![packet[p].id] = p]
      BY <1>3, <2>3 DEF RewardSent, SendReward
    <3> QED  BY <2>1, <2>2, <3>1, <3>2, <1>1 DEF RewardsStored, Numbered
  <2>4. CASE ~ packet[p].ip
    BY <1>3, <2>1, <2>4 DEF RewardSent, ctrlVars, idVars, RewardsStored
  <2> QED  BY <2>3, <2>4
<1>4. CASE UNCHANGED <<routed, rws>>
  BY <1>4 DEF RewardsStored
<1> QED  BY <1>2, <1>3, <1>4, Frame

(* A packet comes to egress out of ingress, and not with the drop port.    *)
LEMMA EgressEntered ==
  ASSUME SwitchInv, [Next]_vars, NEW p \in Packets, InEgressNow(p)'
  PROVE  \/ InEgressNow(p)
         \/ Enqueue /\ p = ingress.pkt /\ packet[p].spec # DropPort
<1>1. /\ egress_buffers \in [EgressThreads -> SUBSET Packets]
      /\ egress \in [EgressThreads -> [stage : {"idle", "pop", "reward", "out"}, pkt : 0 .. NumPackets]]
      /\ ThreadTypes
  BY DEF SwitchInv, StateTypeOK, QueueTypes, ThreadTypes
<1>2. PICK w \in EgressThreads : p \in egress_buffers'[w] \/ (Held(w)' /\ egress'[w].pkt = p)
  BY DEF InEgressNow
<1>3. CASE Enqueue
  <2> DEFINE e == ingress.pkt
  <2>1. egress' = egress /\ e \in Packets
    BY <1>1, <1>3 DEF Enqueue, ThreadTypes
  <2>2. CASE packet[e].spec = DropPort
    <3>1. egress_buffers' = egress_buffers
      BY <1>3, <2>2 DEF Enqueue
    <3> QED  BY <1>2, <2>1, <3>1 DEF InEgressNow, Held
  <2>3. CASE packet[e].spec # DropPort
    <3>1. egress_buffers'[w] \subseteq egress_buffers[w] \cup {e}
      BY <1>1, <1>3 DEF Enqueue
    <3> QED  BY <1>2, <1>3, <2>1, <2>3, <3>1 DEF InEgressNow, Held
  <2> QED  BY <2>2, <2>3
<1>4. ASSUME NEW v \in EgressThreads, EgressTake(v) PROVE InEgressNow(p)
  <2>1. CASE w = v
    <3>1. p \in egress_buffers[w]
      BY <1>1, <1>2, <1>4, <2>1 DEF EgressTake
    <3> QED  BY <3>1 DEF InEgressNow
  <2>2. CASE w # v
    <3>1. egress'[w] = egress[w] /\ egress_buffers'[w] = egress_buffers[w]
      BY <1>1, <1>4, <2>2 DEF EgressTake
    <3> QED  BY <1>2, <3>1 DEF InEgressNow, Held
  <2> QED  BY <2>1, <2>2
<1>5. ASSUME NEW v \in EgressThreads, PopAddress(v) \/ RewardSent(v) \/ EgressOut(v)
      PROVE  InEgressNow(p)
  <2>1. egress_buffers' = egress_buffers
    BY <1>5 DEF PopAddress, RewardSent, EgressOut, queueVars
  <2>2. Held(w)' => Held(w) /\ egress'[w].pkt = egress[w].pkt
    <3>1. ASSUME NEW stage \in {"reward", "out"}, egress[v].stage # "idle", egress' = [egress EXCEPT ![v].stage = stage]
          PROVE  Held(w)' => Held(w) /\ egress'[w].pkt = egress[w].pkt
      BY <1>1, <3>1 DEF Held
    <3>2. EgressOut(v) => (Held(w)' => Held(w) /\ egress'[w].pkt = egress[w].pkt)
      BY <1>1 DEF EgressOut, EgressIdle, Held
    <3>3. PopAddress(v) \/ RewardSent(v) =>
            \E stage \in {"reward", "out"} : egress[v].stage # "idle" /\ egress' = [egress EXCEPT ![v].stage = stage]
      BY DEF PopAddress, RewardSent
    <3> QED  BY <1>5, <3>1, <3>2, <3>3
  <2> QED  BY <1>2, <2>1, <2>2 DEF InEgressNow
<1>6. CASE UNCHANGED <<egress_buffers, egress>>
  BY <1>2, <1>6 DEF InEgressNow, Held
<1> QED  BY <1>3, <1>4, <1>5, <1>6, Frame DEF EgressStep

(* Without table entries every packet on its way out was routed and carries its number. *)
LEMMA AllNumberedKept ==
  ASSUME SwitchInv, SwitchInv', Indices, AllNumbered, DOMAIN Routes = {}, NumPackets <= RwsSize, [Next]_vars
  PROVE  AllNumbered'
<1>1. /\ ThreadTypes /\ packet \in [Packets -> PacketRecords] /\ Len(routed) \in Nat
      /\ Done \in 0 .. Taken /\ Taken \in Nat
      /\ ingress.stage # "idle" => ingress.pkt \in Packets /\ ingress.pkt \in 1 .. Taken
  <2>1. arrived \in Nat
    BY MLControllerAssumption DEF SwitchInv, StateTypeOK, QueueTypes
  <2>2. Taken \in Nat
    BY <2>1 DEF SwitchInv, InputInOrder
  <2> QED  BY <2>2, InputStep DEF SwitchInv, StateTypeOK, PacketTypes, HistoryTypes, ThreadTypes, InputInOrder, Packets
<1>2. ASSUME NEW p \in Packets, Numbered(p), packet'[p].id = packet[p].id
      PROVE  Numbered(p)'
  <2>1. packet[p].id \in Nat
    BY <1>1 DEF PacketRecords
  <2>2. CASE ChoosePort
    <3>1. packet[p].id + 1 \in 1 .. Len(routed) /\ packet[p].id < Len(routed)
      BY <1>1, <1>2, <2>1 DEF Numbered
    <3>2. Len(routed') = Len(routed) + 1 /\ \A i \in 1 .. Len(routed) : routed'[i] = routed[i]
      BY <2>2, RoutedStep
    <3> QED  BY <1>1, <1>2, <2>1, <3>1, <3>2 DEF Numbered
  <2>3. CASE UNCHANGED routed
    BY <1>2, <2>3 DEF Numbered
  <2> QED  BY <2>2, <2>3, Frame
<1>3. ASSUME NEW p \in Packets, InEgressNow(p), packet'[p].ip PROVE Numbered(p)'
  <2>1. p \in 1 .. Done
    BY <1>3 DEF InEgressNow, SwitchInv, EgressInOrder, InEgress
  <2>2. packet'[p] = packet[p]
    BY <2>1, InputStep DEF SwitchInv
  <2> QED  BY <1>2, <1>3, <2>2 DEF AllNumbered
<1>4. ASSUME NEW p \in Packets, InEgressNow(p)', packet'[p].ip PROVE Numbered(p)'
  <2>1. CASE Enqueue /\ p = ingress.pkt /\ packet[p].spec # DropPort
    <3>1. packet' = packet /\ ingress.stage = "enqueue"
      BY <2>1 DEF Enqueue
    <3>2. Numbered(p)
      BY <1>4, <2>1, <3>1 DEF AllNumbered
    <3> QED  BY <1>2, <3>1, <3>2
  <2> QED  BY <1>3, <1>4, <2>1, EgressEntered
<1> DEFINE n == ingress.pkt
           InIngress == /\ ingress.stage \in {"recv", "chosen"} => Numbered(ingress.pkt)
                        /\ ingress.stage = "enqueue" /\ packet[ingress.pkt].ip =>
                             packet[ingress.pkt].spec = DropPort \/ Numbered(ingress.pkt)
<1>5. InIngress'
  <2>1. CASE ChoosePort
    <3>1. /\ n \in Packets /\ ingress'.pkt = n /\ packet' = [packet EXCEPT ![n].id = nextId]
          /\ nextId = Len(routed) /\ Len(routed') = Len(routed) + 1 /\ routed'[Len(routed) + 1] = n
      BY <2>1, RoutedStep
    <3>2. packet'[n].id = Len(routed)
      BY <3>1, <1>1 DEF PacketRecords
    <3>3. Numbered(n)'
      BY <3>1, <3>2, <1>1 DEF Numbered
    <3>4. ingress'.stage \in {"recv", "chosen"}
      BY <2>1, <1>1 DEF ChoosePort, Goto, ThreadTypes
    <3> QED  BY <3>1, <3>3, <3>4
  <2>2. CASE PortChosen
    <3>1. n \in Packets /\ ingress.stage = "recv" /\ ingress'.pkt = n /\ ingress'.stage = "chosen" /\ packet' = packet
      BY <2>2, <1>1 DEF PortChosen, ThreadTypes, queueVars
    <3> QED  BY <3>1, <1>2 DEF AllNumbered
  <2>3. CASE ForwardOrDrop
    <3>1. /\ n \in Packets /\ ingress.stage = "chosen" /\ ingress'.pkt = n /\ ingress'.stage = "enqueue"
          /\ packet'[n].id = packet[n].id
      BY <2>3, <1>1 DEF ForwardOrDrop, ThreadTypes, Goto, PacketRecords
    <3>2. Numbered(n)'
      BY <3>1, <1>2 DEF AllNumbered
    <3> QED  BY <3>1, <3>2
  <2>4. CASE IngressTable
    <3>1. n \in Packets /\ ingress'.pkt = n /\ ingress'.stage = "enqueue" /\ packet' = [packet EXCEPT ![n].spec = DropPort]
      BY <2>4, <1>1 DEF IngressTable, ThreadTypes, Goto
    <3>2. packet'[n].spec = DropPort
      BY <3>1, <1>1 DEF PacketRecords
    <3> QED  BY <3>1, <3>2
  <2>5. CASE SkipAddress
    <3>1. ingress'.pkt = n /\ ingress'.stage = "enqueue" /\ packet' = packet /\ ~ packet[n].ip
      BY <2>5, <1>1 DEF SkipAddress, ThreadTypes, Goto, queueVars
    <3> QED  BY <3>1
  <2>6. CASE IngressTake \/ Enqueue \/ PushAddress
    <3>1. IngressTake => ingress'.stage = "push"
      BY DEF IngressTake, Idle
    <3>2. Enqueue => ingress'.stage = "idle"
      BY DEF Enqueue, Idle
    <3>3. PushAddress => ingress'.stage \in {"choose", "table"}
      BY <1>1 DEF PushAddress, Goto, ThreadTypes
    <3> QED  BY <2>6, <3>1, <3>2, <3>3
  <2>7. CASE UNCHANGED ingress /\ ~ ChoosePort /\ ~ ForwardOrDrop /\ ~ IngressTable /\ ~ PushAddress
    <3>1. CASE ingress.stage \in {"recv", "chosen", "enqueue"}
      <4>1. n \in Packets /\ n # arrived + 1
        BY <3>1, <1>1 DEF SwitchInv, InputInOrder, StateTypeOK, QueueTypes
      <4>2. packet'[n] = packet[n]
        BY <2>7, <4>1, <1>1, Frame DEF Receive
      <4> QED  BY <2>7, <4>1, <4>2, <1>2 DEF AllNumbered
    <3>2. CASE ingress.stage \notin {"recv", "chosen", "enqueue"}
      BY <2>7, <3>2
    <3> QED  BY <3>1, <3>2
  <2> QED  BY <2>1, <2>2, <2>3, <2>4, <2>5, <2>6, <2>7, Frame
<1> QED  BY <1>4, <1>5 DEF AllNumbered

(* A request takes the reward of the packet routed before, or none. *)
LEMMA RewardAlignedKept ==
  ASSUME SwitchInv, SwitchInv', RewardInv, NumPackets <= RwsSize, [Next]_vars
  PROVE  RewardAligned'
<1> SUFFICES ASSUME request' # NoRequest PROVE request'.reward \in {NoReward, PreviousRouted'}
  BY DEF RewardAligned
<1>1. Len(routed) \in Nat /\ rws \in [0 .. RwsSize - 1 -> Rewards] /\ routed \in Seq(Packets)
  BY DEF SwitchInv, HistoryTypes, CtrlTypes
<1>2. CASE ChoosePort
  <2> DEFINE n == Len(routed)
  <2>1. /\ nextId = n /\ n < RwsSize /\ n \in Nat /\ Len(routed') = n + 1 /\ ingress.stage = "choose"
        /\ \A i \in 1 .. n : routed'[i] = routed[i]
    BY <1>2, RoutedStep DEF RewardInv
  <2>2. request = NoRequest
    BY <2>1 DEF SwitchInv, SocketInOrder
  <2>3. request'.reward = LastRw
    <3>1. PICK pos : GetOutputPort(packet[ingress.pkt].dmac, pos)
      BY <1>2, <2>2 DEF ChoosePort, NobodyListens
    <3> QED  BY <3>1 DEF GetOutputPort
  <2>4. nextRw = IF n = 0 THEN 0 ELSE n - 1
    BY <1>1 DEF RewardInv, Indices
  <2> HIDE DEF n
  <2>5. CASE n = 0
    BY <2>1, <2>3, <2>5 DEF LastRw
  <2>6. CASE n # 0
    <3>1. LastRw = rws[n - 1] /\ n - 1 \in 0 .. RwsSize - 1 /\ n \in 1 .. n /\ n > 0
      BY <2>1, <2>4, <2>6, MLControllerAssumption DEF LastRw
    <3>2. rws[n - 1] # NoReward => rws[n - 1] = routed[(n - 1) + 1]
      BY <3>1 DEF RewardInv, RewardsStored
    <3>3. (n - 1) + 1 = n /\ (n + 1) - 1 = n
      BY <2>1
    <3>4. PreviousRouted' = routed[n]
      BY <2>1, <3>1, <3>3 DEF PreviousRouted
    <3> QED  BY <2>3, <3>1, <3>2, <3>3, <3>4
  <2> QED  BY <2>5, <2>6
<1>3. CASE ~ ChoosePort
  <2>1. routed' = routed /\ (request' = request \/ Learner)
    BY <1>3, Frame
  <2>2. request' = request
    BY <2>1 DEF Learner, PeerAnswers, PeerListens, PeerCloses
  <2> QED  BY <2>1, <2>2 DEF RewardInv, RewardAligned, PreviousRouted
<1> QED  BY <1>2, <1>3

-----------------------------------------------------------------------------
(* Its consequences.                                                       *)

(* Seen from the ring, the switch is one of the users ccbuffer.h expects:  *)
(* its pushes and pops, from whatever threads, are a behaviour of the ring *)
(* alone, so all that is proved of the ring holds inside the switch.       *)
THEOREM RingInSwitch == Spec => CBSpec
<1>1. Init => CBInit
  BY DEF Init, CtrlInit
<1>2. SwitchInv /\ [Next]_vars => [CBNext]_cbVars
  BY RingStep DEF SwitchInv
<1> QED  BY <1>1, <1>2, SwitchInvariant, PTL DEF Spec, CBSpec

(* The size announced to the learner is the number of destinations the     *)
(* request lists, while packets push and pop out of order.                 *)
THEOREM CounterExactInSwitch == Spec => []CountMatches
  BY RingInSwitch, CounterExact, PTL

(* Packets of a port leave the switch in the order they came, for any      *)
(* number of egress threads and any readings of the clock, but for those   *)
(* given one send time: among them the queue's heap may choose any.        *)
THEOREM PortOrderHolds == Spec => []PortOrder
<1>1. SwitchInv => PortOrder
  <2> SUFFICES ASSUME SwitchInv, NEW i \in 1 .. Len(sent), NEW j \in 1 .. Len(sent),
                      i < j, packet[sent[i]].spec = packet[sent[j]].spec
               PROVE  sent[i] < sent[j] \/ send[sent[i]] = send[sent[j]]
    BY DEF PortOrder
  <2>1. sent[i] \in Packets /\ sent[j] \in Packets
    BY Queues DEF SwitchInv, StateTypeOK, QueueTypes
  <2>2. /\ LineOf[sent[i]].port = LineOf[sent[j]].port
        /\ LineOf[sent[i]].time = send[sent[i]] /\ LineOf[sent[j]].time = send[sent[j]]
    BY <2>1 DEF LineOf
  <2> QED  BY <2>2 DEF SwitchInv, EgressInOrder, QueuesInOrder, InOrder, Before
<1> QED  BY <1>1, SwitchInvariant, PTL

(* No entry of a packet survives its egress, although its slot may have    *)
(* been written again since it was pushed.                                 *)
THEOREM NoStaleEntry == Spec => []NoEntryAfterEgress
<1>1. SwitchInv => NoEntryAfterEgress
  BY DEF SwitchInv
<1> QED  BY <1>1, SwitchInvariant, PTL

(* Whatever becomes of the learner, a switch connected to it once does not *)
(* die: neither the null pointer nor the exception of getNeighbor is met.  *)
THEOREM NoCrashOnceConnected == Spec => []CrashOnlyBeforeLearner
<1>1. SwitchInv => CrashOnlyBeforeLearner
  BY DEF SwitchInv, PortOrNoLearner
<1> QED  BY <1>1, SwitchInvariant, PTL

(* While no position is handed out again under a packet, every packet      *)
(* between its push and its pop finds its own insertion at its position,   *)
(* still valid, whatever the other threads push and pop.                   *)
THEOREM PacketsFindTheirEntries == Spec => []OwnEntry
<1>1. SwitchInv => OwnEntry
  BY DEF SwitchInv
<1> QED  BY <1>1, SwitchInvariant, PTL

(* The destinations the walk of getPort lists are in the order in which    *)
(* their packets came, for any traffic and any interleaving of the pops.   *)
THEOREM FutureInOrder == Spec => []OldestFirst
<1>1. SwitchInv => OldestFirst
  BY ListedByOwner DEF SwitchInv, CBInv
<1> QED  BY <1>1, SwitchInvariant, PTL

(* The request getPort has on the socket announces the number of           *)
(* destinations it lists and is about the packet ingress waits with, whose *)
(* destination comes last in the list unless the ring overran; the two are *)
(* one address, the first printed as a signed number.                      *)
THEOREM RequestsFit == Spec => []RequestFits
<1>1. SwitchInv => RequestFits
  BY DEF SwitchInv
<1> QED  BY <1>1, SwitchInvariant, PTL

(* Every variable of the switch and of its extern stays in its range: the  *)
(* queues within their capacities, no packet in a queue twice, no index of *)
(* rws out of bounds, and a request made of addresses of the ring.         *)
THEOREM SwitchTypeCorrect == Spec => []TypeOK
<1>1. SwitchInv => TypeOK
  BY TypesFollow DEF SwitchInv, CBInv
<1> QED  BY <1>1, SwitchInvariant, PTL

(* The reward a request carries is that of the packet routed before it, or *)
(* none, however late rewards come out of egress.  The hypotheses are the  *)
(* shipped table (the *_commands.txt of MLRouter give ipv4_lpm no entry,   *)
(* so only routed packets reach egress) and no more packets than rws has   *)
(* room for: beyond them the code does not keep it, see MCRewardWrap.      *)
THEOREM RewardOfThePrevious ==
  ASSUME DOMAIN Routes = {}, NumPackets <= RwsSize
  PROVE  Spec => []RewardAligned
<1>1. Init => RewardInv
  <2> SUFFICES ASSUME Init PROVE RewardInv
    OBVIOUS
  <2>1. /\ routed = <<>> /\ nextId = 0 /\ nextRw = 0 /\ request = NoRequest
        /\ rws = [id \in 0 .. RwsSize - 1 |-> NoReward] /\ ingress.stage = "idle"
        /\ egress_buffers = [w \in EgressThreads |-> {}]
        /\ egress = [w \in EgressThreads |-> EgressIdle]
    BY DEF Init, CtrlInit, Idle
  <2>2. Indices
    <3>1. Len(routed) = 0 /\ 0 % RwsSize = 0
      BY <2>1, MLControllerAssumption
    <3> QED  BY <2>1, <3>1 DEF Indices
  <2>3. RewardsStored /\ RewardAligned
    BY <2>1 DEF RewardsStored, RewardAligned
  <2>4. AllNumbered
    BY <2>1 DEF AllNumbered, InEgressNow, Held, EgressIdle, InSeq
  <2> QED  BY <2>2, <2>3, <2>4 DEF RewardInv
<1>2. SwitchInv /\ SwitchInv' /\ RewardInv /\ [Next]_vars => RewardInv'
  BY IndicesKept, RewardsStoredKept, AllNumberedKept, RewardAlignedKept DEF RewardInv
<1>3. RewardInv => RewardAligned
  BY DEF RewardInv
<1> QED  BY <1>1, <1>2, <1>3, SwitchInvariant, PTL DEF Spec

(* The switch asks one question at a time and takes each answer once:      *)
(* getPort, its locks and the deaths of the process keep to LearnerSocket. *)
THEOREM KeepsSocketProtocol == Spec => ImplementsSocket
<1>1. Init => Socket!LSInit
  <2> SUFFICES ASSUME Init PROVE Socket!LSInit
    OBVIOUS
  <2>1. request = NoRequest /\ response = 0 /\ status = "running"
        /\ peer \in {"absent", "listening", "serving", "closed"}
    BY SimpleSwitchAssumption DEF Init, CtrlInit
  <2> QED  BY <2>1 DEF Socket!LSInit
<1>2. SwitchInv /\ [Next]_vars => [Socket!LSNext]_(Socket!lsVars)
  <2> SUFFICES ASSUME SwitchInv, [Next]_vars,
                      ~ UNCHANGED <<IF status = "crashed" THEN "gone" ELSE "up", peer, request, response>>
               PROVE  Socket!LSNext
    BY DEF Socket!lsVars
  <2> USE DEF Socket!LSNext, Socket!Listen, Socket!Connect, Socket!Ask, Socket!Answer, Socket!Take,
              Socket!LearnerGoes, Socket!SwitchGoes
  <2>0. status = "running"
    BY DEF Next, Rest, RecvSpins, vars, ctrlVars, socketVars
  <2>1. CASE Segfault \/ NeighborException
    <3>1. status' = "crashed" /\ UNCHANGED <<request, response, peer>> /\ ingress.stage # "recv"
      BY <2>1 DEF Segfault, NeighborException, ctrlVars, socketVars
    <3>2. request = NoRequest /\ response = 0
      BY <3>1 DEF SwitchInv, SocketInOrder
    <3> QED  BY <2>0, <3>1, <3>2
  <2>2. CASE ~ Segfault /\ ~ NeighborException
    <3>1. status' = status /\ StateTypeOK /\ SocketInOrder
      BY <2>2, Frame DEF SwitchInv
    <3>2. CASE Learner
      BY <2>0, <3>1, <3>2 DEF Learner, PeerAnswers, PeerListens, PeerCloses
    <3>3. CASE /\ request = NoRequest /\ response = 0 /\ response' = 0 /\ peer # "absent"
               /\ peer' = IF peer = "listening" THEN "serving" ELSE peer
      BY <2>0, <3>1, <3>3
    <3>4. CASE response # 0 /\ response' = 0 /\ UNCHANGED <<request, peer>>
      BY <2>0, <3>1, <3>4
    <3>5. CASE UNCHANGED <<request, response, peer>>
      BY <2>0, <3>1, <3>5
    <3> QED  BY <3>1, <3>2, <3>3, <3>4, <3>5, SocketStep
  <2> QED  BY <2>1, <2>2
<1> QED  BY <1>1, <1>2, SwitchInvariant, PTL DEF Spec, ImplementsSocket, Socket!LSSpec

=============================================================================
