---------------------------- MODULE Membership ----------------------------
(***************************************************************************)
(* What a replication engine promises: nodes are members of at most one    *)
(* group each, and a packet for a group is copied once for each node that  *)
(* is a member then, never for one that left or was destroyed.             *)
(***************************************************************************)
EXTENDS Naturals

CONSTANTS Handles, Mgids,
          NoGroup        \* none of Mgids

VARIABLES nodes, groups, of, served
membershipVars == <<nodes, groups, of, served>>

MSInit ==
  /\ nodes = {} /\ groups = {}
  /\ of = [h \in Handles |-> NoGroup]
  /\ served = [h \in Handles |-> 0]

MSCreate(h) ==
  /\ h \notin nodes
  /\ nodes' = nodes \cup {h}
  /\ UNCHANGED <<groups, of, served>>

MSDestroy(h) ==
  /\ nodes' = nodes \ {h}
  /\ of' = [of EXCEPT ![h] = NoGroup]
  /\ UNCHANGED <<groups, served>>

MSOpen(g) == groups' = groups \cup {g} /\ UNCHANGED <<nodes, of, served>>

MSClose(g) ==
  /\ groups' = groups \ {g}
  /\ of' = [h \in Handles |-> IF of[h] = g THEN NoGroup ELSE of[h]]
  /\ UNCHANGED <<nodes, served>>

MSJoin(h, g) ==
  /\ h \in nodes /\ g \in groups /\ of[h] = NoGroup
  /\ of' = [of EXCEPT ![h] = g]
  /\ UNCHANGED <<nodes, groups, served>>

MSLeave(h, g) ==
  /\ of[h] = g
  /\ of' = [of EXCEPT ![h] = NoGroup]
  /\ UNCHANGED <<nodes, groups, served>>

MSServe(g) ==
  /\ g \in groups
  /\ served' = [h \in Handles |-> IF of[h] = g THEN 1 ELSE 0]
  /\ UNCHANGED <<nodes, groups, of>>

MSReset ==
  /\ nodes' = {} /\ groups' = {}
  /\ of' = [h \in Handles |-> NoGroup]
  /\ UNCHANGED served

MSNext ==
  \/ \E h \in Handles : MSCreate(h) \/ MSDestroy(h)
  \/ \E g \in Mgids : MSOpen(g) \/ MSClose(g) \/ MSServe(g)
  \/ \E h \in Handles, g \in Mgids : MSJoin(h, g) \/ MSLeave(h, g)
  \/ MSReset

MSSpec == MSInit /\ [][MSNext]_membershipVars
=============================================================================
