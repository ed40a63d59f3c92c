----------------------------- MODULE PreProofs -----------------------------
(***************************************************************************)
(* Proofs about SimplePre for any handles, groups and LAGs.                *)
(***************************************************************************)
EXTENDS SimplePre, TLAPS

(* Each call that changes a list or an entry changes both alike; ListsExact *)
(* is inductive once the ranges of the tables are known.                    *)
PreInv == PreTypeOK /\ ListsExact

-----------------------------------------------------------------------------
(* A step of any kind is one of these.                                     *)
LEMMA StepKinds ==
  ASSUME PreNext,
         NEW P,
         \A g \in Mgids : McMgrpCreate(g) \/ McMgrpDestroy(g) \/ Replicate(g) => P,
         \A h \in Handles, lags \in SUBSET Lags :
            McNodeCreate(h, lags) \/ McNodeUpdate(h, lags) \/ McNodeDestroy(h) => P,
         \A g \in Mgids, h \in Handles :
            McNodeAssociate(g, h) \/ McNodeDissociate(g, h) => P,
         \A l \in Lags, members \in {"empty", "members"} : McSetLagMembership(l, members) => P,
         ResetState => P
  PROVE  P
<1>1. {} \in SUBSET Lags
  OBVIOUS
<1>2. QED
  BY <1>1 DEF PreNext, Control

(* The ranges and the lists are kept by every call.                        *)
LEMMA PreInvKept ==
  ASSUME PreInv, [PreNext]_preVars
  PROVE  PreInv'
<1> USE DEF PreInv
<1>1. CASE UNCHANGED preVars
  BY <1>1 DEF preVars, PreTypeOK, ListsExact
<1>2. ASSUME NEW g \in Mgids, McMgrpCreate(g) PROVE PreInv'
  BY <1>2 DEF McMgrpCreate, PreTypeOK, ListsExact
<1>3. ASSUME NEW g \in Mgids, McMgrpDestroy(g) PROVE PreInv'
  <2>1. PreTypeOK'
    BY <1>3 DEF McMgrpDestroy, PreTypeOK, EmptyList
  <2>2. ASSUME NEW other \in Mgids, NEW h \in Handles, l1_list'[other][h] # 0
        PROVE  other # g /\ l1_list'[other][h] = l1_list[other][h]
    BY <1>3, <2>2 DEF McMgrpDestroy, PreTypeOK, EmptyList
  <2>3. ListsExact'
    BY <1>3, <2>2 DEF McMgrpDestroy, ListsExact
  <2>4. QED
    BY <2>1, <2>3
<1>4. ASSUME NEW g \in Mgids, Replicate(g) PROVE PreInv'
  BY <1>4 DEF Replicate, PreTypeOK, ListsExact
<1>5. ASSUME NEW node \in Handles, NEW lags \in SUBSET Lags, McNodeCreate(node, lags)
      PROVE  PreInv'
  <2>1. PreTypeOK'
    BY <1>5 DEF McNodeCreate, PreTypeOK, NewNode
  <2>2. \A g \in Mgids : l1_list[g][node] = 0
    BY <1>5 DEF McNodeCreate, ListsExact
  <2>3. ListsExact'
    BY <1>5, <2>2 DEF McNodeCreate, PreTypeOK, ListsExact
  <2>4. QED
    BY <2>1, <2>3
<1>6. ASSUME NEW node \in Handles, NEW lags \in SUBSET Lags, McNodeUpdate(node, lags)
      PROVE  PreInv'
  <2>1. PreTypeOK'
    BY <1>6 DEF McNodeUpdate, PreTypeOK
  <2>2. \A h \in Handles : /\ l1_entries'[h].is_associated = l1_entries[h].is_associated
                           /\ l1_entries'[h].mgrp_hdl = l1_entries[h].mgrp_hdl
    BY <1>6 DEF McNodeUpdate, PreTypeOK
  <2>3. ListsExact'
    BY <1>6, <2>2 DEF McNodeUpdate, ListsExact
  <2>4. QED
    BY <2>1, <2>3
<1>7. ASSUME NEW g \in Mgids, NEW node \in Handles, McNodeAssociate(g, node)
      PROVE  PreInv'
  <2>1. \A other \in Mgids : l1_list[other][node] = 0
    BY <1>7 DEF McNodeAssociate, ListsExact
  <2>2. PreTypeOK'
    BY <1>7, <2>1 DEF McNodeAssociate, PreTypeOK
  <2>3. \A other \in Mgids, h \in Handles :
          l1_list'[other][h] = IF other = g /\ h = node THEN 1 ELSE l1_list[other][h]
    BY <1>7, <2>1 DEF McNodeAssociate, PreTypeOK
  <2>4. \A h \in Handles : h # node => l1_entries'[h] = l1_entries[h]
    BY <1>7 DEF McNodeAssociate, PreTypeOK
  <2>5. l1_entries'[node].is_associated /\ l1_entries'[node].mgrp_hdl = g
    BY <1>7 DEF McNodeAssociate, PreTypeOK
  <2>6. ListsExact'
    <3> SUFFICES ASSUME NEW other \in Mgids, NEW h \in Handles, l1_list'[other][h] # 0
                 PROVE  /\ l1_list'[other][h] = 1
                        /\ other \in mgid_entries' /\ h \in l1_handles'
                        /\ l1_entries'[h].is_associated /\ l1_entries'[h].mgrp_hdl = other
      BY DEF ListsExact
    <3>1. CASE h = node
      <4>1. other = g /\ l1_list'[other][h] = 1
        BY <2>1, <2>3, <3>1
      <4>2. g \in mgid_entries' /\ node \in l1_handles'
        BY <1>7 DEF McNodeAssociate
      <4>3. QED
        BY <2>5, <3>1, <4>1, <4>2
    <3>2. CASE h # node
      <4>1. l1_list'[other][h] = l1_list[other][h] /\ l1_entries'[h] = l1_entries[h]
        BY <2>3, <2>4, <3>2
      <4>2. /\ l1_list[other][h] = 1
            /\ other \in mgid_entries /\ h \in l1_handles
            /\ l1_entries[h].is_associated /\ l1_entries[h].mgrp_hdl = other
        BY <4>1 DEF ListsExact
      <4>3. QED
        BY <1>7, <4>1, <4>2 DEF McNodeAssociate
    <3>3. QED
      BY <3>1, <3>2
  <2>7. QED
    BY <2>2, <2>6
<1>8. ASSUME NEW g \in Mgids, NEW node \in Handles, McNodeDissociate(g, node)
      PROVE  PreInv'
  <2>1. PreTypeOK'
    BY <1>8 DEF McNodeDissociate, Dissociated, PreTypeOK
  <2>2. \A other \in Mgids : l1_list'[other][node] = 0
    BY <1>8 DEF McNodeDissociate, Dissociated, PreTypeOK, ListsExact
  <2>3. \A other \in Mgids, h \in Handles :
          h # node => l1_list'[other][h] = l1_list[other][h] /\ l1_entries'[h] = l1_entries[h]
    BY <1>8 DEF McNodeDissociate, Dissociated, PreTypeOK
  <2>4. ListsExact'
    BY <1>8, <2>2, <2>3 DEF McNodeDissociate, ListsExact
  <2>5. QED
    BY <2>1, <2>4
<1>9. ASSUME NEW node \in Handles, McNodeDestroy(node) PROVE PreInv'
  <2>1. PreTypeOK'
    <3>1. l1_list' \in [Mgids -> [Handles -> {0, 1}]]
      BY <1>9 DEF McNodeDestroy, Dissociated, PreTypeOK
    <3>2. l1_entries' \in [Handles -> [ is_associated : BOOLEAN, mgrp_hdl : Mgids \cup {NoGroup},
                                       lag_map : SUBSET Lags ]]
      BY <1>9 DEF McNodeDestroy, PreTypeOK, NewNode
    <3>3. QED
      BY <1>9, <3>1, <3>2 DEF McNodeDestroy, PreTypeOK
  <2>2. \A other \in Mgids : l1_list'[other][node] = 0
    BY <1>9 DEF McNodeDestroy, Dissociated, PreTypeOK, ListsExact
  <2>3. \A other \in Mgids, h \in Handles :
          h # node => l1_list'[other][h] = l1_list[other][h] /\ l1_entries'[h] = l1_entries[h]
    BY <1>9 DEF McNodeDestroy, Dissociated, PreTypeOK
  <2>4. ListsExact'
    BY <1>9, <2>2, <2>3 DEF McNodeDestroy, ListsExact
  <2>5. QED
    BY <2>1, <2>4
<1>10. ASSUME NEW l \in Lags, NEW members \in {"empty", "members"},
              McSetLagMembership(l, members)
       PROVE  PreInv'
  BY <1>10 DEF McSetLagMembership, PreTypeOK, ListsExact
<1>11. CASE ResetState
  <2>1. PreTypeOK'
    BY <1>11 DEF ResetState, PreTypeOK, EmptyList, NewNode
  <2>2. \A g \in Mgids, h \in Handles : l1_list'[g][h] = 0
    BY <1>11 DEF ResetState, EmptyList
  <2>3. QED
    BY <2>1, <2>2 DEF ListsExact
<1>12. CASE PreNext
  BY <1>12, <1>2, <1>3, <1>4, <1>5, <1>6, <1>7, <1>8, <1>9, <1>10, <1>11, StepKinds
<1>13. QED
  BY <1>1, <1>12

(* The tables of the replication engine are consistent, for any number of  *)
(* groups, nodes and LAGs and any sequence of calls.                       *)
THEOREM PreInvariant == PreSpec => []PreInv
<1>1. ASSUME PreInit PROVE PreInv
  <2>1. PreTypeOK
    BY <1>1 DEF PreInit, PreTypeOK, EmptyList, NewNode
  <2>2. \A g \in Mgids, h \in Handles : l1_list[g][h] = 0
    BY <1>1 DEF PreInit, EmptyList
  <2>3. QED
    BY <2>1, <2>2 DEF PreInv, ListsExact
<1>2. QED
  BY <1>1, PreInvKept, PTL DEF PreSpec

(* The ingress thread dies of a LAG without members or not at all          *)
(* (simple_pre_lag.cpp:162-178).                                           *)
THEOREM DeathsByLag == PreSpec => []DeathByLagOnly
<1>1. PreInit => DeathByLagOnly
  BY DEF PreInit, DeathByLagOnly
<1>2. ASSUME PreInv, DeathByLagOnly, [PreNext]_preVars PROVE DeathByLagOnly'
  <2>1. CASE UNCHANGED preVars
    BY <1>2, <2>1 DEF preVars, DeathByLagOnly, Listed
  <2>2. ASSUME NEW g \in Mgids, Replicate(g) PROVE DeathByLagOnly'
    <3>1. Listed(g) \subseteq l1_handles
      BY <1>2 DEF PreInv, PreTypeOK, ListsExact, Listed
    <3>2. ASSUME dead' PROVE \E h \in Listed(g) : \E l \in l1_entries[h].lag_map : lag_entries[l] # "members"
      BY <2>2, <3>1, <3>2 DEF Replicate, Walkable
    <3>3. QED
      BY <2>2, <3>1, <3>2 DEF Replicate, DeathByLagOnly, Listed
  <2>3. ASSUME PreNext, \A g \in Mgids : ~ Replicate(g) PROVE ~ dead'
    BY <2>3 DEF PreNext, Control, McMgrpCreate, McMgrpDestroy, McNodeCreate, McNodeUpdate,
       McNodeAssociate, McNodeDissociate, McNodeDestroy, McSetLagMembership, ResetState
  <2>4. QED
    BY <1>2, <2>1, <2>2, <2>3 DEF DeathByLagOnly
<1>3. QED
  BY <1>1, <1>2, PreInvariant, PTL DEF PreSpec

-----------------------------------------------------------------------------
(* The group of a node is the group that lists it, once, or none.          *)
Placed ==
  /\ InGroup \in [Handles -> Mgids \cup {NoGroup}]
  /\ \A h \in Handles, g \in Mgids : l1_list[g][h] = IF InGroup[h] = g THEN 1 ELSE 0

(* Each node that exists is a member of no group or of the one that lists it. *)
LEMMA EachPlaced == PreInv => Placed
<1> SUFFICES ASSUME PreInv, NEW h \in Handles
             PROVE  /\ InGroup[h] \in Mgids \cup {NoGroup}
                    /\ \A g \in Mgids : l1_list[g][h] = IF InGroup[h] = g THEN 1 ELSE 0
  BY DEF Placed, InGroup
<1>1. \A g, other \in Mgids : h \in Listed(g) /\ h \in Listed(other) => g = other
  BY DEF PreInv, PreTypeOK, ListsExact, Listed
<1>2. \A g \in Mgids : l1_list[g][h] = IF h \in Listed(g) THEN 1 ELSE 0
  BY DEF PreInv, PreTypeOK, ListsExact, Listed
<1>3. CASE \E g \in Mgids : h \in Listed(g)
  <2>1. PICK g \in Mgids : h \in Listed(g)
    BY <1>3
  <2>2. InGroup[h] \in Mgids /\ h \in Listed(InGroup[h])
    BY <2>1 DEF InGroup
  <2>3. QED
    BY <1>1, <1>2, <2>2
<1>4. CASE ~ \E g \in Mgids : h \in Listed(g)
  BY <1>2, <1>4, PreAssumption DEF InGroup, PreAssumption
<1>5. QED
  BY <1>3, <1>4

(* Every call is a step of the membership, or changes none of it.          *)
LEMMA StepKeepsMembership ==
  ASSUME PreInv, Placed, Placed', [PreNext]_preVars
  PROVE  [MS!MSNext]_(MS!membershipVars)
<1>1. \A h \in Handles, g \in Mgids : /\ InGroup[h] = g <=> l1_list[g][h] # 0
                                      /\ InGroup'[h] = g <=> l1_list'[g][h] # 0
  BY DEF Placed
<1>2. /\ InGroup \in [Handles -> Mgids \cup {NoGroup}]
      /\ InGroup' \in [Handles -> Mgids \cup {NoGroup}]
  BY DEF Placed
<1>3. ASSUME UNCHANGED l1_list PROVE InGroup' = InGroup
  BY <1>3 DEF InGroup, Listed
<1>4. CASE UNCHANGED preVars
  BY <1>3, <1>4 DEF preVars, MS!membershipVars
<1>5. ASSUME NEW g \in Mgids, McMgrpCreate(g) PROVE MS!MSOpen(g)
  BY <1>3, <1>5 DEF McMgrpCreate, MS!MSOpen
<1>6. ASSUME NEW g \in Mgids, McMgrpDestroy(g) PROVE MS!MSClose(g)
  <2>1. \A h \in Handles, other \in Mgids :
          l1_list'[other][h] = IF other = g THEN 0 ELSE l1_list[other][h]
    BY <1>6 DEF McMgrpDestroy, EmptyList, PreInv, PreTypeOK
  <2>2. ASSUME NEW h \in Handles
        PROVE  InGroup'[h] = IF InGroup[h] = g THEN NoGroup ELSE InGroup[h]
    <3>1. \A other \in Mgids : InGroup'[h] = other <=> InGroup[h] = other /\ other # g
      BY <1>1, <2>1
    <3>2. InGroup[h] \in Mgids \cup {NoGroup} /\ InGroup'[h] \in Mgids \cup {NoGroup}
      BY <1>2
    <3>3. QED
      BY <3>1, <3>2
  <2>3. InGroup' = [h \in Handles |-> IF InGroup[h] = g THEN NoGroup ELSE InGroup[h]]
    BY <1>2, <2>2
  <2>4. QED
    BY <1>6, <2>3 DEF McMgrpDestroy, MS!MSClose
<1>7. ASSUME NEW g \in Mgids, Replicate(g) PROVE MS!MSServe(g) \/ UNCHANGED MS!membershipVars
  <2>1. CASE Walkable(g)
    <3>1. l1_list[g] = [h \in Handles |-> IF InGroup[h] = g THEN 1 ELSE 0]
      BY DEF PreInv, PreTypeOK, Placed
    <3>2. QED
      BY <1>3, <1>7, <2>1, <3>1 DEF Replicate, MS!MSServe
  <2>2. CASE ~ Walkable(g)
    BY <1>3, <1>7, <2>2 DEF Replicate, MS!membershipVars
  <2>3. QED
    BY <2>1, <2>2
<1>8. ASSUME NEW h \in Handles, NEW lags \in SUBSET Lags, McNodeCreate(h, lags)
      PROVE  MS!MSCreate(h)
  BY <1>3, <1>8 DEF McNodeCreate, MS!MSCreate
<1>9. ASSUME NEW h \in Handles, NEW lags \in SUBSET Lags, McNodeUpdate(h, lags)
      PROVE  UNCHANGED MS!membershipVars
  BY <1>3, <1>9 DEF McNodeUpdate, MS!membershipVars
<1>10. ASSUME NEW node \in Handles, NEW value \in Mgids \cup {NoGroup},
              \A h \in Handles, g \in Mgids :
                l1_list'[g][h] = IF h = node THEN IF g = value THEN 1 ELSE 0 ELSE l1_list[g][h]
       PROVE  InGroup' = [InGroup EXCEPT ![node] = value]
  <2>1. \A h \in Handles : InGroup'[h] = IF h = node THEN value ELSE InGroup[h]
    BY <1>1, <1>2, <1>10, PreAssumption DEF PreAssumption
  <2>2. QED
    BY <1>2, <2>1
<1>11. ASSUME NEW g \in Mgids, NEW node \in Handles, McNodeAssociate(g, node)
       PROVE  MS!MSJoin(node, g)
  <2>1. \A other \in Mgids : l1_list[other][node] = 0
    BY <1>11 DEF McNodeAssociate, PreInv, ListsExact
  <2>2. InGroup[node] = NoGroup
    BY <1>1, <1>2, <2>1
  <2>3. \A h \in Handles, other \in Mgids :
          l1_list'[other][h] = IF h = node THEN IF other = g THEN 1 ELSE 0 ELSE l1_list[other][h]
    BY <1>11, <2>1 DEF McNodeAssociate, PreInv, PreTypeOK
  <2>4. QED
    BY <1>10, <1>11, <2>2, <2>3 DEF McNodeAssociate, MS!MSJoin
<1>12. ASSUME NEW g \in Mgids, NEW node \in Handles, McNodeDissociate(g, node)
       PROVE  MS!MSLeave(node, g) \/ UNCHANGED MS!membershipVars
  <2>1. \A other \in Mgids : other # g => l1_list[other][node] = 0
    BY <1>12 DEF McNodeDissociate, PreInv, ListsExact
  <2>2. \A h \in Handles, other \in Mgids :
          l1_list'[other][h] = IF h = node THEN 0 ELSE l1_list[other][h]
    BY <1>12, <2>1 DEF McNodeDissociate, Dissociated, PreInv, PreTypeOK
  <2>3. InGroup' = [InGroup EXCEPT ![node] = NoGroup]
    BY <1>10, <2>2, PreAssumption DEF PreAssumption
  <2>4. InGroup[node] \in {g, NoGroup}
    BY <1>1, <1>2, <2>1
  <2>5. InGroup[node] = NoGroup => InGroup' = InGroup
    BY <1>2, <2>3
  <2>6. QED
    BY <1>12, <2>3, <2>4, <2>5 DEF McNodeDissociate, MS!MSLeave, MS!membershipVars
<1>13. ASSUME NEW node \in Handles, McNodeDestroy(node) PROVE MS!MSDestroy(node)
  <2>1. \A g \in Mgids : l1_list'[g][node] = 0
    BY <1>13 DEF McNodeDestroy, Dissociated, PreInv, PreTypeOK, ListsExact
  <2>2. \A h \in Handles, g \in Mgids : h # node => l1_list'[g][h] = l1_list[g][h]
    BY <1>13 DEF McNodeDestroy, Dissociated, PreInv, PreTypeOK
  <2>3. InGroup' = [InGroup EXCEPT ![node] = NoGroup]
    BY <1>10, <2>1, <2>2, PreAssumption DEF PreAssumption
  <2>4. QED
    BY <1>13, <2>3 DEF McNodeDestroy, MS!MSDestroy
<1>14. ASSUME NEW l \in Lags, NEW members \in {"empty", "members"},
              McSetLagMembership(l, members)
       PROVE  UNCHANGED MS!membershipVars
  BY <1>3, <1>14 DEF McSetLagMembership, MS!membershipVars
<1>15. ASSUME ResetState PROVE MS!MSReset
  <2>1. InGroup' = [h \in Handles |-> NoGroup]
    BY <1>15 DEF ResetState, InGroup, Listed, EmptyList
  <2>2. QED
    BY <1>15, <2>1 DEF ResetState, MS!MSReset
<1>16. CASE PreNext
  BY <1>5, <1>6, <1>7, <1>8, <1>9, <1>11, <1>12, <1>13, <1>14, <1>15, <1>16, StepKinds
     DEF MS!MSNext
<1>17. QED
  BY <1>4, <1>16

(* The replication engine is an implementation of group membership: a      *)
(* packet is copied once for each member of its group, whatever nodes and  *)
(* groups were destroyed before and whatever handles were given out again. *)
THEOREM ImplementsMembers == PreSpec => ImplementsMembership
<1>1. PreInit => MS!MSInit
  BY DEF PreInit, MS!MSInit, InGroup, Listed, EmptyList
<1>2. QED
  BY <1>1, EachPlaced, StepKeepsMembership, PreInvariant, PTL
     DEF PreSpec, ImplementsMembership, MS!MSSpec

=============================================================================
