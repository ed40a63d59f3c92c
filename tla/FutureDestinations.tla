------------------------- MODULE FutureDestinations -------------------------
(***************************************************************************)
(* What ccbuffer.h promises its users: a bounded list of the destinations  *)
(* of the packets inside the switch, oldest first.  Every insertion is     *)
(* known by a position; positions are handed out in turn and one that is   *)
(* handed out again takes the place of the insertion that had it.          *)
(***************************************************************************)
EXTENDS Naturals, SequencesExt

CONSTANTS CBufferSize, Addresses

VARIABLES
  queue,   (* the insertions still present, oldest first                   *)
  next     (* the position of the next insertion                           *)

vars == <<queue, next>>

(* The queue without the insertion at pos, if it is still there.           *)
Without(pos) ==
  LET at == {i \in DOMAIN queue : queue[i].pos = pos}
  IN  IF at = {} THEN queue ELSE RemoveAt(queue, CHOOSE i \in at : TRUE)

Init == queue = <<>> /\ next = 0

Push(address) ==
  /\ queue' = Append(Without(next), [pos |-> next, addr |-> address])
  /\ next' = (next + 1) % CBufferSize

Pop(pos) ==
  /\ queue' = Without(pos)
  /\ UNCHANGED next

Next ==
  \/ \E address \in Addresses : Push(address)
  \/ \E pos \in 0 .. CBufferSize - 1 : Pop(pos)

Spec == Init /\ [][Next]_vars

=============================================================================
