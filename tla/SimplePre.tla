---------------------------- MODULE SimplePre -----------------------------
(***************************************************************************)
(* The packet replication engine of simple_switch (simple_pre.cpp and      *)
(* simple_pre_lag.cpp): multicast groups list nodes, nodes name ports and  *)
(* link aggregation groups (LAGs).  Every call holds the mutex throughout. *)
(*                                                                         *)
(* An L1 entry and its L2 entry are made, changed and destroyed together   *)
(* and are one record here; the list of a group is a bag of handles (the   *)
(* order of the copies and the plain ports of a node are left out).        *)
(***************************************************************************)
EXTENDS Naturals, FiniteSets

CONSTANTS
  Handles,        \* L1_MAX_ENTRIES of them
  Mgids,          \* multicast group numbers
  Lags,           \* LAG numbers
  MgidTableSize,  \* MGID_TABLE_SIZE
  NoGroup

ASSUME PreAssumption ==
  /\ Handles \subseteq Nat /\ MgidTableSize \in Nat
  /\ NoGroup \notin Mgids

VARIABLES
  mgid_entries,   \* the groups that exist
  l1_list,        \* [Mgids -> [Handles -> number of times it is listed]]
  l1_handles,     \* the handles in use
  l1_entries,     \* [Handles -> [is_associated, mgrp_hdl, lag_map]]
  lag_entries,    \* [Lags -> "unset", or whether the LAG has members]
  served,         \* [Handles -> times the last packet was copied for it]
  dead            \* an exception or a division by zero in the ingress thread

preVars == <<mgid_entries, l1_list, l1_handles, l1_entries, lag_entries, served, dead>>

EmptyList == [h \in Handles |-> 0]
NewNode(lags) == [is_associated |-> FALSE, mgrp_hdl |-> NoGroup, lag_map |-> lags]

Listed(g) == {h \in Handles : l1_list[g][h] > 0}

PreInit ==
  /\ mgid_entries = {} /\ l1_handles = {}
  /\ l1_list = [g \in Mgids |-> EmptyList]
  /\ l1_entries = [h \in Handles |-> NewNode({})]
  /\ lag_entries = [l \in Lags |-> "unset"]
  /\ served = EmptyList
  /\ dead = FALSE

-----------------------------------------------------------------------------
(* Groups. Creating one that exists changes nothing; destroying one tells  *)
(* its nodes nothing.                                                      *)

McMgrpCreate(g) ==
  /\ Cardinality(mgid_entries) < MgidTableSize
  /\ mgid_entries' = mgid_entries \cup {g}
  /\ UNCHANGED <<l1_list, l1_handles, l1_entries, lag_entries, served, dead>>

(* A plausible slip: the list outlives the group.                          *)
McMgrpDestroyKeeps(g) ==
  /\ mgid_entries' = mgid_entries \ {g}
  /\ UNCHANGED <<l1_list, l1_handles, l1_entries, lag_entries, served, dead>>

McMgrpDestroy(g) ==
  /\ mgid_entries' = mgid_entries \ {g}
  /\ l1_list' = [l1_list EXCEPT ![g] = EmptyList]
  /\ UNCHANGED <<l1_handles, l1_entries, lag_entries, served, dead>>

(* Nodes. The handle is the first free one (HandleMgr::get_handle).        *)
McNodeCreate(h, lags) ==
  /\ h \notin l1_handles
  /\ \A other \in Handles \ l1_handles : h <= other
  /\ l1_handles' = l1_handles \cup {h}
  /\ l1_entries' = [l1_entries EXCEPT ![h] = NewNode(lags)]
  /\ UNCHANGED <<mgid_entries, l1_list, lag_entries, served, dead>>

McNodeUpdate(h, lags) ==
  /\ h \in l1_handles
  /\ l1_entries' = [l1_entries EXCEPT ![h].lag_map = lags]
  /\ UNCHANGED <<mgid_entries, l1_list, l1_handles, lag_entries, served, dead>>

McNodeAssociate(g, h) ==
  /\ h \in l1_handles
  /\ g \in mgid_entries
  /\ ~ l1_entries[h].is_associated
  /\ l1_list' = [l1_list EXCEPT ![g][h] = @ + 1]
  /\ l1_entries' = [l1_entries EXCEPT ![h].mgrp_hdl = g, ![h].is_associated = TRUE]
  /\ UNCHANGED <<mgid_entries, l1_handles, lag_entries, served, dead>>

(* node_dissociate: every occurrence of h goes.                            *)
Dissociated(g, h) == [l1_list EXCEPT ![g][h] = 0]

McNodeDissociate(g, h) ==
  /\ h \in l1_handles
  /\ g \in mgid_entries
  /\ l1_entries[h].is_associated /\ l1_entries[h].mgrp_hdl = g
  /\ l1_list' = Dissociated(g, h)
  /\ l1_entries' = [l1_entries EXCEPT ![h].is_associated = FALSE]
  /\ UNCHANGED <<mgid_entries, l1_handles, lag_entries, served, dead>>

(* A plausible slip: the node is not taken off the list.                   *)
McNodeDestroyKeeps(h) ==
  /\ h \in l1_handles
  /\ l1_handles' = l1_handles \ {h}
  /\ l1_entries' = [l1_entries EXCEPT ![h] = NewNode({})]
  /\ UNCHANGED <<mgid_entries, l1_list, lag_entries, served, dead>>

(* A node that still believes itself in a group is taken off its list; if  *)
(* that group is gone the lookup throws and nothing is changed.            *)
McNodeDestroy(h) ==
  /\ h \in l1_handles
  /\ \/ /\ ~ l1_entries[h].is_associated
        /\ UNCHANGED l1_list
     \/ /\ l1_entries[h].is_associated /\ l1_entries[h].mgrp_hdl \in mgid_entries
        /\ l1_list' = Dissociated(l1_entries[h].mgrp_hdl, h)
  /\ l1_handles' = l1_handles \ {h}
  /\ l1_entries' = [l1_entries EXCEPT ![h] = NewNode({})]
  /\ UNCHANGED <<mgid_entries, lag_entries, served, dead>>

McSetLagMembership(l, members) ==
  /\ lag_entries' = [lag_entries EXCEPT ![l] = members]
  /\ UNCHANGED <<mgid_entries, l1_list, l1_handles, l1_entries, served, dead>>

ResetState ==
  /\ mgid_entries' = {} /\ l1_handles' = {}
  /\ l1_list' = [g \in Mgids |-> EmptyList]
  /\ l1_entries' = [h \in Handles |-> NewNode({})]
  /\ lag_entries' = [l \in Lags |-> "unset"]
  /\ UNCHANGED <<served, dead>>

-----------------------------------------------------------------------------
(* The ingress thread asks for the copies of a packet.  The walk looks up  *)
(* every node listed and every LAG of the node: at() throws for one that   *)
(* is not there, and the hash is taken modulo the number of members.       *)
Walkable(g) ==
  \A h \in Listed(g) : /\ h \in l1_handles
                       /\ \A l \in l1_entries[h].lag_map : lag_entries[l] = "members"

Replicate(g) ==
  /\ g \in mgid_entries
  /\ dead' = ~ Walkable(g)
  /\ served' = IF Walkable(g) THEN l1_list[g] ELSE served
  /\ UNCHANGED <<mgid_entries, l1_list, l1_handles, l1_entries, lag_entries>>

Control ==
  \/ \E g \in Mgids : McMgrpCreate(g) \/ McMgrpDestroy(g)
  \/ \E h \in Handles, lags \in SUBSET Lags : McNodeCreate(h, lags) \/ McNodeUpdate(h, lags)
  \/ \E g \in Mgids, h \in Handles : McNodeAssociate(g, h) \/ McNodeDissociate(g, h)
  \/ \E h \in Handles : McNodeDestroy(h)
  \/ \E l \in Lags, members \in {"empty", "members"} : McSetLagMembership(l, members)
  \/ ResetState

PreNext ==
  /\ ~ dead
  /\ Control \/ \E g \in Mgids : Replicate(g)

PreSpec == PreInit /\ [][PreNext]_preVars

-----------------------------------------------------------------------------
(* The tables stay in their ranges.                                        *)
PreTypeOK ==
  /\ mgid_entries \subseteq Mgids /\ l1_handles \subseteq Handles
  /\ l1_list \in [Mgids -> [Handles -> {0, 1}]]
  /\ l1_entries \in [Handles -> [ is_associated : BOOLEAN, mgrp_hdl : Mgids \cup {NoGroup},
                                  lag_map : SUBSET Lags ]]
  /\ lag_entries \in [Lags -> {"unset", "empty", "members"}]
  /\ served \in [Handles -> {0, 1}]
  /\ dead \in BOOLEAN

(* A group lists a node at most once, only while the group and the node    *)
(* exist, and the node then knows it: handles are given out again after a  *)
(* destruction, and groups disappear under their nodes.                    *)
ListsExact ==
  \A g \in Mgids, h \in Handles :
    l1_list[g][h] # 0 => /\ l1_list[g][h] = 1
                         /\ g \in mgid_entries /\ h \in l1_handles
                         /\ l1_entries[h].is_associated /\ l1_entries[h].mgrp_hdl = g

(* A packet to be replicated takes the ingress thread down for one reason  *)
(* only, a node that names a LAG never set or set to no port; never for a  *)
(* node or an entry that is gone.                                          *)
DeathByLagOnly ==
  dead => \E g \in mgid_entries : \E h \in Listed(g) \cap l1_handles :
            \E l \in l1_entries[h].lag_map : lag_entries[l] # "members"

(* The tables implement the membership of nodes in groups: a packet is     *)
(* copied exactly once for each member.                                    *)
InGroup ==
  [h \in Handles |->
     IF \E g \in Mgids : h \in Listed(g) THEN CHOOSE g \in Mgids : h \in Listed(g) ELSE NoGroup]

MS == INSTANCE Membership WITH
  nodes <- l1_handles, groups <- mgid_entries, of <- InGroup

ImplementsMembership == MS!MSSpec

=============================================================================
