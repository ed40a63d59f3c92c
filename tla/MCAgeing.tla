------------------------------- MODULE MCAgeing -------------------------------
(* A ternary table of a few slots and its ageing monitor, for TLC. *)
EXTENDS Ageing
CONSTANTS d1, d2
MCData == {d1, d2}
MCKey == {[match |-> {d1}, priority |-> 1], [match |-> {d1, d2}, priority |-> 1],
          [match |-> {d1, d2}, priority |-> 2], [match |-> {d2}, priority |-> 3]}
=============================================================================
