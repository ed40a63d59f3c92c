-------------------------------- MODULE Ageing --------------------------------
(***************************************************************************)
(* The ageing monitor (bm_sim/ageing.cpp) over one table: a thread sweeps  *)
(* the table for entries past their timeout and notifies the controller,   *)
(* which gets the handle of an entry and may use it at any later time.     *)
(***************************************************************************)
EXTENDS MatchUnit

VARIABLES prevSweep,  \* prev_sweep_entries, handles
          notified    \* history: the adds whose entries were notified

monitor == <<prevSweep, notified>>

AgeingInit == Init /\ prevSweep = {} /\ notified = {}

\* sweep_entries takes the version from the entry's metadata, that of its handle.
Aged == {s \in used : ttl[s] /\ idle[s]}
SweptHandle(s) == [version |-> slot[s].version % HandleVersions, slot |-> s]

\* do_sweep: an entry of the last notification is left out of this one, and
\* is then notified again.
SweepKeepsPrev ==
    LET fresh == {s \in Aged : SweptHandle(s) \notin prevSweep}
    IN  /\ prevSweep' = prevSweep \union {SweptHandle(s) : s \in fresh}
        /\ notified' = notified \union {slot[s].id : s \in fresh}
        /\ UNCHANGED vars
Sweep ==
    LET fresh == {s \in Aged : SweptHandle(s) \notin prevSweep}
    IN  /\ prevSweep' = {SweptHandle(s) : s \in fresh}
        /\ notified' = notified \union {slot[s].id : s \in fresh}
        /\ UNCHANGED vars

AgeingReset == ResetState /\ prevSweep' = {} /\ UNCHANGED notified

AgeingNext == (UnitNext /\ UNCHANGED monitor) \/ AgeingReset \/ Sweep

\* The sweep thread runs; nobody has to call, to send packets or to be idle.
AgeingSpec == AgeingInit /\ [][AgeingNext]_<<vars, monitor>> /\ WF_<<vars, monitor>>(Sweep)

----------------------------------------------------------------------------
\* What a packet finds at best: of the entries that match and whose priority
\* value is below INT_MAX the one with the lowest value, the lowest slot among
\* equals.  No packet finds an entry of priority INT_MAX.
Reference(d) ==
    LET match == {s \in used : slot[s].key.priority < IntMax /\ d \in slot[s].key.match}
        rank(s) == slot[s].key.priority * Size + s
    IN  IF match = {} THEN NoSlot ELSE CHOOSE s \in match : \A r \in match : rank(s) <= rank(r)

LookupExact == \A d \in Data : Found(d) = Reference(d)

\* Scan and cache find the entry a packet should get, over all adds, deletes
\* and modifications and the cache going on and off; not while slot 0 is free,
\* and of the entries whose priority value is below INT_MAX.
LookupFindsBest == 0 \in used => LookupExact

\* The calls that compare a handle's version, delete_entry and modify_entry,
\* reach with it the entry it was returned for and no other, however often its
\* slot was reused, until reset_state starts the versions again; and the owner
\* of an entry reaches it, unless its slot had more entries before it than a
\* handle has versions.  SetEntryTtl compares no version: with an expired
\* handle it reaches the entry that has the slot now.
HandleIsItsEntry ==
    /\ "wrongEntry" \in upset => "reset" \in upset
    /\ "reset" \notin upset => \A s \in used : slot[s].value = slot[s].id
    /\ \A s \in used : slot[s].version >= HandleVersions
                       \/ \E h \in issued : h.id = slot[s].id /\ Accepts(h)

\* An entry that stays idle past a timeout is notified under its own handle,
\* also when the slot, or the same handle, was in the last notification.
\* This is about the first time each add is idle: notified keeps the adds.
IdleWithTimeout(i) == \E s \in Aged : slot[s].id = i
IdleIsNotified == \A i \in 1..MaxAdds : IdleWithTimeout(i) ~> (i \in notified \/ ~IdleWithTimeout(i))
=============================================================================
