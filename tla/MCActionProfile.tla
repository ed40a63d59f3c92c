--------------------------- MODULE MCActionProfile ---------------------------
(* Two tables of one entry that share a profile, for TLC. *)
EXTENDS ActionProfileProperties, TLC
CONSTANTS t1, t2, k1, c1, c2, w1
MCTable == {t1, t2}
MCKey == {k1}
MCControl == {c1, c2}
MCWorker == {w1}
MCSymmetry == Permutations(MCTable) \union Permutations(MCControl)
=============================================================================
