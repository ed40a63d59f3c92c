------------------------ MODULE ActionProfileProperties ------------------------
(***************************************************************************)
(* What an action profile must do for the tables that share it (bm_sim,    *)
(* action_profile.cpp, match_tables.cpp).  upset names the calls after     *)
(* which the code is known to break a promise, see README.md.              *)
(***************************************************************************)
EXTENDS ActionProfile

LiveGroups == {g \in grpHandles : g \in DOMAIN groups}
References(ix) ==
    Cardinality(Users(ix)) +
    (IF ix.kind = "mbr" THEN Cardinality({g \in LiveGroups : ix.h \in groups[g].mbrs}) ELSE 0)
AtRest == \A c \in Control : op[c] = Idle

\* Between calls the reference count of a member or a group is the number of
\* entries, over all the tables, and of groups that hold it.  A failed add
\* leaves it too high, a failed modify too low; two tables, or a table and
\* the profile, that update it at once may lose one update.
CountsExact ==
    AtRest /\ upset \intersect {"failedModify", "race"} = {} =>
        \A ix \in {Mbr(m) : m \in mbrHandles} \union {Grp(g) : g \in LiveGroups} :
            /\ Count(ix) >= References(ix)
            /\ "failedAdd" \notin upset => Count(ix) = References(ix)

\* What an entry of a table that can be read, or a group, refers to exists:
\* a member or a group is not deleted under them, whatever calls failed on
\* the way, unless a count was too low or a table was between its check and
\* its count.  Defaults are not counted and may dangle.
NothingDangles ==
    upset \intersect {"failedModify", "race"} = {} =>
        /\ \A t \in Table : Locked(t) \/ \A k \in DOMAIN entries[t] : Valid(entries[t][k])
        /\ \A g \in LiveGroups : groups[g].mbrs \subseteq mbrHandles

\* A packet hits no assertion of lookup, takes no member from an empty group,
\* and create_group and delete_group find their vectors: the program ends
\* only after a count too low or a race, after the member or the group of a
\* default was deleted (defaults are not counted), after the last member left
\* a group in use, after reset_state, or by a lookup that holds no lock of the
\* profile and has what it reads next written by a call on the profile.
LookupSurvives ==
    dead => \/ upset \intersect {"failedModify", "race", "default", "emptied", "reset"} # {}
            \/ About("torn") # {}
=============================================================================
