------------------------------ MODULE MatchUnit ------------------------------
(***************************************************************************)
(* The match unit of a ternary or range table (bm_sim/match_units.cpp,     *)
(* MatchUnitGeneric) over its lookup structure (lookup_structures.cpp,     *)
(* EntryList and TernaryCache).  A slot is an internal handle; the handle  *)
(* given out carries a version too, so that it expires with its entry.     *)
(* Operations run under the table's lock, lookups under the shared one.    *)
(***************************************************************************)
EXTENDS Integers, FiniteSetsExt, SequencesExt

CONSTANTS Data,            \* the values a packet can have
          Key,             \* the keys of entries, as records:
                           \* the data they match and their priority
          IntMax,          \* the largest priority there is (INT_MAX)
          Size,            \* of the table
          HandleVersions,  \* a handle has room for so many versions (256)
          CacheMin,        \* entries from which the cache is used (16)
          CacheSize,       \* (64)
          MaxAdds          \* bound: calls of add_entry that succeed

ASSUME MatchUnitAssumption ==
    /\ IntMax \in Nat
    /\ Key \subseteq [match : SUBSET Data, priority : 0..IntMax]
    /\ Size \in Nat \ {0} /\ HandleVersions \in Nat \ {0}
    /\ CacheMin \in Nat /\ CacheSize \in Nat \ {0} /\ MaxAdds \in Nat

VARIABLES used,     \* the internal handles in use
          slot,     \* entries: also what is left of a deleted one
          list,     \* the entry list, of slots
          cache,    \* the cache, the latest used first
          ttl,      \* whether the slot has a timeout
          idle,     \* whether the timeout has passed since the slot's last hit
          adds, issued, upset     \* history: adds, handles given out

unit == <<used, slot, list, cache, ttl, idle>>
vars == <<unit, adds, issued, upset>>

Slot == 0..Size - 1
NoKey == [match |-> {}, priority |-> 0]
Empty == [key |-> NoKey, version |-> 0, id |-> 0, value |-> 0]

Init ==
    /\ used = {} /\ slot = [s \in Slot |-> Empty]
    /\ list = <<>> /\ cache = <<>>
    /\ ttl = [s \in Slot |-> FALSE] /\ idle = [s \in Slot |-> FALSE]
    /\ adds = 0 /\ issued = {} /\ upset = {}

----------------------------------------------------------------------------
\* EntryList.  A new entry goes behind the one of the slot before its own.
CacheActive == Len(list) >= CacheMin
InvalidatedLate == IF Len(list) > CacheMin THEN <<>> ELSE cache
Invalidated == IF CacheActive THEN <<>> ELSE cache
PlaceOf(s) == CHOOSE i \in DOMAIN list : list[i] = s
Inserted(s) == IF s = 0 THEN <<0>> \o list
               ELSE InsertAt(list, 1 + PlaceOf(s - 1), s)
Removed(s) == RemoveAt(list, PlaceOf(s))

\* The scan keeps the first of the entries with the lowest priority value.  It
\* starts from INT_MAX and passes over an entry whose value is not below that.
Matching(d) ==
    {i \in DOMAIN list : slot[list[i]].key.priority < IntMax /\ d \in slot[list[i]].key.match}
FirstMatch(d) ==
    CHOOSE i \in Matching(d) : \A j \in Matching(d) :
        \/ slot[list[i]].key.priority < slot[list[j]].key.priority
        \/ slot[list[i]].key.priority = slot[list[j]].key.priority /\ i <= j

\* The handle of an entry of the list is its distance from the head.
HandleFromEntry(s) == s - Head(list)

Cached(d) == CacheActive /\ \E i \in DOMAIN cache : cache[i].data = d
CachedAt(d) == CHOOSE i \in DOMAIN cache : cache[i].data = d
NoSlot == Size
Found(d) == IF Cached(d) THEN cache[CachedAt(d)].slot
            ELSE IF Matching(d) = {} THEN NoSlot
            ELSE HandleFromEntry(list[FirstMatch(d)])

CacheAfter(d) ==
    IF Cached(d) THEN <<cache[CachedAt(d)]>> \o RemoveAt(cache, CachedAt(d))
    ELSE IF CacheActive /\ Found(d) # NoSlot
    THEN <<[data |-> d, slot |-> Found(d)]>> \o (IF Len(cache) = CacheSize THEN Front(cache) ELSE cache)
    ELSE cache

----------------------------------------------------------------------------
\* A packet refreshes the timestamp of what it found.
Lookup(d) ==
    /\ cache' = CacheAfter(d)
    /\ idle' = IF Found(d) = NoSlot THEN idle ELSE [idle EXCEPT ![Found(d)] = FALSE]
    /\ UNCHANGED <<used, slot, list, ttl, adds, issued, upset>>

\* An entry without a timeout is never idle.
TimePasses(s) ==
    /\ s \in used /\ ttl[s] /\ ~idle[s]
    /\ idle' = [idle EXCEPT ![s] = TRUE]
    /\ UNCHANGED <<used, slot, list, cache, ttl, adds, issued, upset>>

FreeSlot == Min(Slot \ used)
Exists(k) == \E s \in used : slot[s].key = k

\* A handle, and the add it was returned to.
HandleOf(s, v, id) == [version |-> v % HandleVersions, slot |-> s, id |-> id]

\* The entry gets the timeout of the slot's last entry: EntryMeta::reset does
\* not touch it.
AddEntry(k) ==
    LET s == FreeSlot
        id == adds + 1
    IN  /\ ~Exists(k) /\ Cardinality(used) < Size
        /\ adds < MaxAdds /\ adds' = id
        /\ slot' = [slot EXCEPT ![s] = [key |-> k, version |-> @.version, id |-> id, value |-> id]]
        /\ used' = used \union {s}
        /\ list' = Inserted(s) /\ cache' = Invalidated
        /\ idle' = [idle EXCEPT ![s] = FALSE]
        /\ issued' = issued \union {HandleOf(s, slot[s].version, id)}
        /\ UNCHANGED <<ttl, upset>>

AcceptsAny(h) == h.slot \in used
Accepts(h) == h.slot \in used /\ slot[h.slot].version = h.version

DeleteEntry(h) ==
    /\ Accepts(h)
    /\ slot' = [slot EXCEPT ![h.slot].version = @ + 1]
    /\ list' = Removed(h.slot) /\ cache' = Invalidated
    /\ used' = used \ {h.slot}
    /\ upset' = IF h.id # slot[h.slot].id THEN upset \union {"wrongEntry"} ELSE upset
    /\ UNCHANGED <<ttl, idle, adds, issued>>

\* The value shows whose handle was used.
ModifyEntry(h) ==
    /\ Accepts(h)
    /\ slot' = [slot EXCEPT ![h.slot].value = h.id]
    /\ UNCHANGED <<used, list, cache, ttl, idle, adds, issued, upset>>

\* set_entry_ttl does not look at the version: an expired handle sets the
\* timeout of the entry that has the slot now.
SetEntryTtl(h, ms) ==
    /\ h.slot \in used
    /\ ttl' = [ttl EXCEPT ![h.slot] = ms # 0]
    /\ idle' = [idle EXCEPT ![h.slot] = FALSE]
    /\ UNCHANGED <<used, slot, list, cache, adds, issued, upset>>

\* The versions start again at 0; the controller keeps its handles.
ResetState ==
    /\ used # {} /\ "reset" \notin upset
    /\ used' = {} /\ slot' = [s \in Slot |-> Empty]
    /\ list' = <<>> /\ cache' = <<>>
    /\ ttl' = [s \in Slot |-> FALSE] /\ idle' = [s \in Slot |-> FALSE]
    /\ upset' = upset \union {"reset"}
    /\ UNCHANGED <<adds, issued>>

UnitNext ==
    \/ \E k \in Key : AddEntry(k)
    \/ \E h \in issued : DeleteEntry(h) \/ ModifyEntry(h) \/ \E ms \in {0, 1} : SetEntryTtl(h, ms)
    \/ \E d \in Data : Lookup(d)
    \/ \E s \in Slot : TimePasses(s)
=============================================================================
