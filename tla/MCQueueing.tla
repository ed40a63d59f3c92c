------------------------------ MODULE MCQueueing ------------------------------
(* A small instance of the queues for TLC: two ports, one egress thread. *)
EXTENDS Queueing
CONSTANTS q1, q2, w1
MCQueue == {q1, q2}
MCWorker == {w1}
MCMap == [q \in MCQueue |-> w1]
MCCapacities == {1}
MCDelays == {1}
=============================================================================
