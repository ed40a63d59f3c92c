---------------------------- MODULE ActionProfile ----------------------------
(***************************************************************************)
(* An action profile and the indirect tables that share it (bm_sim,        *)
(* action_profile.cpp and match_tables.cpp).  An entry of a table names a  *)
(* member or a group of the profile; the profile counts these references   *)
(* and refuses to delete what is still used.  The tables and the profile   *)
(* have locks of their own: a table operation, which holds only the lock   *)
(* of its table, reads the profile's handles and updates its counts while  *)
(* operations on the profile run, and so does the lookup of a packet.      *)
(***************************************************************************)
EXTENDS Integers, FiniteSets

CONSTANTS Table, Key,
          Size,        \* entries a table may have
          Control,     \* threads of the Thrift server that call a table
          Worker,      \* threads that run packets through the tables
          CountSpace,  \* the reference counts are modulo this (2^32)
          MaxMbr,      \* bound: members at a time
          MaxGrp,      \* bound: groups at a time
          MaxExtra,    \* bound: calls that set a default, and a refused add
          MaxUpset     \* bound: no more calls once so many things went wrong,
                       \* failed adds left aside

ASSUME ActionProfileAssumption ==
    /\ Size \in Nat /\ CountSpace \in Nat \ {0}
    /\ MaxMbr \in Nat /\ MaxGrp \in Nat /\ MaxExtra \in Nat /\ MaxUpset \in Nat
    /\ IsFiniteSet(Table) /\ IsFiniteSet(Key) /\ IsFiniteSet(Control)
    \* There are fewer entries, groups and threads than a count can tell apart.
    /\ Cardinality(Table \X Key) + MaxGrp + Cardinality(Control) < CountSpace

VARIABLES mbrHandles, grpHandles,  \* the handles in use
          mbrCount,                \* mbr_count, indexed like action_entries
          groups,                  \* the groups with their grp_count
          entries, default,        \* of each table
          op,                      \* the table operation of a thread
          look,                    \* the lookup of a packet by a thread
          defaults, upset, dead

handles == <<mbrHandles, grpHandles>>
profile == <<handles, mbrCount, groups>>
vars == <<profile, entries, default, op, look, defaults, upset, dead>>

None == [kind |-> "none"]
Mbr(m) == [kind |-> "mbr", h |-> m]
Grp(g) == [kind |-> "grp", h |-> g]
Index == {Mbr(m) : m \in 0..MaxMbr - 1} \union {Grp(g) : g \in 0..MaxGrp - 1}
Idle == [pc |-> "idle"]

Init ==
    /\ mbrHandles = {} /\ grpHandles = {} /\ mbrCount = <<>> /\ groups = <<>>
    /\ entries = [t \in Table |-> <<>>] /\ default = [t \in Table |-> None]
    /\ op = [c \in Control |-> Idle] /\ look = [w \in Worker |-> Idle]
    /\ defaults = 0 /\ upset = {} /\ dead = FALSE

----------------------------------------------------------------------------
With(f, x, v) == [y \in DOMAIN f \union {x} |-> IF y = x THEN v ELSE f[y]]
Without(f, x) == [y \in DOMAIN f \ {x} |-> f[y]]
FirstFree(used) == CHOOSE h \in 0..Cardinality(used) : h \notin used /\ 0..h - 1 \subseteq used

Valid(ix) == ix.h \in IF ix.kind = "mbr" THEN mbrHandles ELSE grpHandles
IsEmpty(g) == groups[g].mbrs = {}
Count(ix) == IF ix.kind = "mbr" THEN mbrCount[ix.h] ELSE groups[ix.h].count
Counted(m, d) == [mbrCount EXCEPT ![m] = (@ + d + CountSpace) % CountSpace]
SetCount(ix, n) ==
    IF ix.kind = "mbr" THEN mbrCount' = [mbrCount EXCEPT ![ix.h] = n] /\ UNCHANGED groups
                       ELSE groups' = [groups EXCEPT ![ix.h].count = n] /\ UNCHANGED mbrCount

\* Who holds on to an index: the entries, the defaults, the calls under way.
Users(ix) == {u \in Table \X Key : u[2] \in DOMAIN entries[u[1]] /\ entries[u[1]][u[2]] = ix}
IsDefault(ix) == \E t \in Table : default[t] = ix
Pending(ix) == \E c \in Control : op[c] # Idle /\ op[c].new = ix
Upset(condition, name) == IF condition THEN {name} ELSE {}

\* A lookup holds the lock of its table, not the profile's.  A call that
\* writes what the lookup is about to read leaves its outcome open.
About(pc) == {w \in Worker : look[w].pc = pc}
Tears(W) == look' = [w \in Worker |-> IF w \in W THEN [look[w] EXCEPT !.pc = "torn"] ELSE look[w]]
ReadersOf(g) == {w \in About("size") \union About("nth") : look[w].index = Grp(g)}

----------------------------------------------------------------------------
\* Operations on the profile: one step each, under its lock.  The vectors of
\* actions and of groups move when they grow.
AddMember ==
    LET m == FirstFree(mbrHandles)
    IN  /\ m < MaxMbr
        /\ mbrHandles' = mbrHandles \union {m}
        /\ mbrCount' = With(mbrCount, m, 0)
        /\ Tears(About("check") \union {w \in About("act") : m \notin DOMAIN mbrCount \/ look[w].n = m})
        /\ UNCHANGED <<grpHandles, groups, upset>>

\* The new action is written over the one a packet may be executing.
ModifyMember(m) ==
    /\ m \in mbrHandles
    /\ Tears({w \in About("act") : look[w].n = m})
    /\ UNCHANGED <<profile, upset>>

DeleteMemberFreely(m) == m \in mbrHandles
MayDelete(m) == m \in mbrHandles /\ mbrCount[m] = 0

DeleteMember(m) ==
    /\ MayDelete(m)
    /\ mbrHandles' = mbrHandles \ {m}
    /\ upset' = upset \union Upset(Pending(Mbr(m)), "race") \union Upset(IsDefault(Mbr(m)), "default")
    /\ Tears(About("check"))
    /\ UNCHANGED <<grpHandles, mbrCount, groups>>

\* After reset_state the handles of the old groups are still taken, and the
\* new group is beyond the end of the emptied vector: the assertion fails.
CreateGroup ==
    LET g == FirstFree(grpHandles)
    IN  /\ g < MaxGrp
        /\ grpHandles' = grpHandles \union {g}
        /\ IF g > Cardinality(DOMAIN groups)
           THEN dead' = TRUE /\ UNCHANGED groups
           ELSE groups' = With(groups, g, [count |-> 0, mbrs |-> {}]) /\ UNCHANGED dead
        /\ Tears(About("size") \union {w \in About("nth") : g \notin DOMAIN groups \/ look[w].index = Grp(g)})
        /\ UNCHANGED <<mbrHandles, mbrCount, upset>>

MembersKept(g) == UNCHANGED mbrCount
MembersReleased(g) ==
    mbrCount' = [m \in DOMAIN mbrCount |->
        IF m \in groups[g].mbrs THEN (mbrCount[m] + CountSpace - 1) % CountSpace ELSE mbrCount[m]]

\* A group that survived reset_state only as a handle has no count to read.
DeleteGroup(g) ==
    /\ g \in grpHandles
    /\ IF g \notin DOMAIN groups THEN dead' = TRUE /\ UNCHANGED <<profile, look, upset>>
       ELSE /\ groups[g].count = 0
            /\ grpHandles' = grpHandles \ {g}
            /\ MembersReleased(g)
            /\ Tears(About("size"))
            /\ upset' = upset \union Upset(Pending(Grp(g)), "race") \union Upset(IsDefault(Grp(g)), "default")
            /\ UNCHANGED <<mbrHandles, groups, dead>>

AddMemberToGroup(m, g) ==
    /\ m \in mbrHandles /\ g \in grpHandles \intersect DOMAIN groups /\ m \notin groups[g].mbrs
    /\ groups' = [groups EXCEPT ![g].mbrs = @ \union {m}]
    /\ mbrCount' = Counted(m, 1)
    /\ Tears(ReadersOf(g))
    /\ UNCHANGED <<handles, upset>>

\* Nothing keeps the last member of a group that is used.
RemoveMemberFromGroup(m, g) ==
    /\ m \in mbrHandles /\ g \in grpHandles \intersect DOMAIN groups /\ m \in groups[g].mbrs
    /\ groups' = [groups EXCEPT ![g].mbrs = @ \ {m}]
    /\ mbrCount' = Counted(m, -1)
    /\ Tears(ReadersOf(g))
    /\ upset' = upset \union Upset(groups[g].mbrs = {m} /\ (Users(Grp(g)) # {} \/ Pending(Grp(g)) \/ IsDefault(Grp(g))), "emptied")
    /\ UNCHANGED handles

ProfileCall ==
    /\ \/ AddMember /\ UNCHANGED dead
       \/ CreateGroup
       \/ \E m \in mbrHandles : (ModifyMember(m) \/ DeleteMember(m)) /\ UNCHANGED dead
       \/ \E g \in grpHandles : DeleteGroup(g)
       \/ \E m \in mbrHandles, g \in grpHandles :
             (AddMemberToGroup(m, g) \/ RemoveMemberFromGroup(m, g)) /\ UNCHANGED dead
    /\ UNCHANGED <<entries, default, op, defaults>>

----------------------------------------------------------------------------
\* Operations on a table, with its lock held from the first step to the last:
\* no other call and no packet is in the table.
Locked(t) == \E c \in Control : op[c] # Idle /\ op[c].table = t
Read(t) == \E w \in Worker : look[w] # Idle /\ look[w].table = t

\* group_is_empty throws for a group that survived reset_state.
HasMember(ix) == ix.kind = "grp" => ix.h \in DOMAIN groups /\ ~IsEmpty(ix.h)
AcceptedEmpty(ix) == Valid(ix)
Accepted(ix) == Valid(ix) /\ HasMember(ix)

Begin(c, pc, call, t, k, index, read, new) ==
    /\ op[c] = Idle /\ ~Locked(t) /\ ~Read(t)
    /\ op' = [op EXCEPT ![c] = [pc |-> pc, call |-> call, table |-> t, key |-> k,
                                index |-> index, read |-> read, new |-> new]]
    /\ UNCHANGED <<profile, entries, default, look, defaults, upset, dead>>

Extra == defaults + Cardinality(upset \intersect {"failedAdd"})
Full(t, k) == k \in DOMAIN entries[t] \/ Cardinality(DOMAIN entries[t]) >= Size

\* ref_count_increase and ref_count_decrease are a load and a store.
AddEntry(c, t, k, ix) ==
    /\ Accepted(ix)
    /\ Full(t, k) => "failedAdd" \notin upset /\ Extra < MaxExtra   \* bound: one refused add
    /\ Begin(c, "inc", "add", t, k, ix, 0, ix)

Release(c, call, t, k, new) ==
    LET old == entries[t][k]
    IN  k \in DOMAIN entries[t] /\ Begin(c, "decStore", call, t, k, old, Count(old), new)
DeleteEntry(c, t, k) == Release(c, "delete", t, k, None)
ModifyEntry(c, t, k, ix) == Release(c, "modify", t, k, ix)

IncLoad(c) ==
    /\ op[c].pc = "inc"
    /\ op' = [op EXCEPT ![c].pc = "incStore", ![c].read = Count(op[c].index)]
    /\ UNCHANGED <<profile, entries, default, look, defaults, upset, dead>>

\* When the count changed since the load, one of the two updates is lost.
Store(c, d) ==
    LET ix == op[c].index
        old == op[c].read
        new == (old + d + CountSpace) % CountSpace
    IN  /\ \E n \in {new} \union ({Count(ix)} \ {old}) : SetCount(ix, n)
        /\ UNCHANGED handles

Raced(c) == Upset(Count(op[c].index) # op[c].read, "race")

\* An add of a key that is there, or to a full table, keeps the reference.
Refused(c) == op[c].call = "add" /\ Full(op[c].table, op[c].key)

IncStore(c) ==
    /\ op[c].pc = "incStore"
    /\ Store(c, 1)
    /\ entries' = IF Refused(c) THEN entries
                  ELSE [entries EXCEPT ![op[c].table] = With(@, op[c].key, op[c].new)]
    /\ upset' = upset \union Raced(c) \union Upset(Refused(c), "failedAdd")
    /\ op' = [op EXCEPT ![c] = Idle]
    /\ UNCHANGED <<default, look, defaults, dead>>

DecStore(c) ==
    /\ op[c].pc = "decStore"
    /\ Store(c, -1)
    /\ upset' = upset \union Raced(c)
    /\ IF op[c].call = "delete"
       THEN entries' = [entries EXCEPT ![op[c].table] = Without(@, op[c].key)] /\ op' = [op EXCEPT ![c] = Idle]
       ELSE op' = [op EXCEPT ![c].pc = "check", ![c].read = 0] /\ UNCHANGED entries
    /\ UNCHANGED <<default, look, defaults, dead>>

\* modify_entry validates the new index after it released the old one, and
\* does not take the old one again when it returns an error.
CheckNew(c) ==
    /\ op[c].pc = "check"
    /\ IF Accepted(op[c].new)
       THEN op' = [op EXCEPT ![c].pc = "inc", ![c].index = op[c].new] /\ UNCHANGED upset
       ELSE op' = [op EXCEPT ![c] = Idle] /\ upset' = upset \union {"failedModify"}
    /\ UNCHANGED <<profile, entries, default, look, defaults, dead>>

\* set_default_member and set_default_group take no reference, and accept an
\* empty group.
SetDefault(t, ix) ==
    /\ ~Locked(t) /\ ~Read(t) /\ Valid(ix)
    /\ Extra < MaxExtra /\ defaults' = defaults + 1
    /\ default' = [default EXCEPT ![t] = ix]
    /\ upset' = upset \union Upset(~HasMember(ix), "emptied")
    /\ UNCHANGED <<profile, entries, op, look, dead>>

\* P4Objects::reset_state: no other call runs.  The tables go first, each under
\* its lock: packets only look up their defaults when the profile follows.
\* The defaults of the tables and the handles of the groups stay.
ResetState ==
    /\ \A c \in Control : op[c] = Idle
    /\ \A w \in Worker : look[w] # Idle => look[w].index = default[look[w].table]
    /\ entries' = [t \in Table |-> <<>>]
    /\ mbrHandles' = {} /\ mbrCount' = <<>> /\ groups' = <<>>
    /\ Tears({w \in Worker : look[w] # Idle})
    /\ upset' = upset \union Upset(grpHandles # {} \/ \E t \in Table : default[t] # None, "reset")
    /\ UNCHANGED <<grpHandles, default, op, defaults, dead>>

----------------------------------------------------------------------------
\* A packet: the hit or the default, the size of its group, a member of the
\* group, its validity, and its action, all with the table's lock shared and
\* none of the profile's.  The assertions and the modulo of an empty group
\* end the program.
Chosen(t, k) == IF k \in DOMAIN entries[t] THEN entries[t][k] ELSE default[t]
packetUnchanged == UNCHANGED <<profile, entries, default, op, defaults, upset>>
Goes(w, pc, n) == look' = [look EXCEPT ![w].pc = pc, ![w].n = n] /\ UNCHANGED dead
Fails == dead' = TRUE /\ UNCHANGED look

LookupIndex(w, t, k) ==
    /\ look[w] = Idle /\ ~Locked(t) /\ Chosen(t, k) # None
    /\ LET ix == Chosen(t, k)
       IN  look' = [look EXCEPT ![w] = [pc |-> IF ix.kind = "mbr" THEN "check" ELSE "size",
                                        table |-> t, index |-> ix, n |-> ix.h]]
    /\ packetUnchanged /\ UNCHANGED dead

LookupSize(w) ==
    /\ look[w].pc = "size"
    /\ LET ix == look[w].index
       IN  IF Valid(ix) /\ HasMember(ix) THEN Goes(w, "nth", look[w].n) ELSE Fails
    /\ packetUnchanged

LookupNth(w) ==
    /\ look[w].pc = "nth"
    /\ \E m \in groups[look[w].index.h].mbrs : Goes(w, "check", m)
    /\ packetUnchanged

LookupCheck(w) ==
    /\ look[w].pc = "check"
    /\ IF look[w].n \in mbrHandles THEN Goes(w, "act", look[w].n) ELSE Fails
    /\ packetUnchanged

\* The action has run.  A lookup that was torn ends the program, or runs some
\* action.
LookupDone(w) ==
    /\ look[w].pc \in {"act", "torn"}
    /\ \/ look' = [look EXCEPT ![w] = Idle] /\ UNCHANGED dead
       \/ look[w].pc = "torn" /\ Fails
    /\ packetUnchanged

Lookup(w) ==
    \/ \E t \in Table, k \in Key : LookupIndex(w, t, k)
    \/ LookupSize(w) \/ LookupNth(w) \/ LookupCheck(w) \/ LookupDone(w)

----------------------------------------------------------------------------
TableCall ==
    \/ \E c \in Control, t \in Table, k \in Key :
          \/ DeleteEntry(c, t, k)
          \/ \E ix \in Index : AddEntry(c, t, k, ix) \/ ModifyEntry(c, t, k, ix)
    \/ \E t \in Table, ix \in Index : SetDefault(t, ix)

Next ==
    /\ ~dead
    /\ \/ Cardinality(upset \ {"failedAdd"}) < MaxUpset /\ (ProfileCall \/ TableCall \/ ResetState)
       \/ \E c \in Control : IncLoad(c) \/ IncStore(c) \/ DecStore(c) \/ CheckNew(c)
       \/ \E w \in Worker : Lookup(w)

Spec == Init /\ [][Next]_vars
=============================================================================
