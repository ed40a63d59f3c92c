------------------------------ MODULE MCLearning ------------------------------
(* Small instances of a learn list for TLC. *)
EXTENDS LearningProperties
CONSTANTS s1, s2, ingress, thrift
MCSample == {s1, s2}
MCIngress == {ingress}
MCControl == {thrift}
MCMaxSamples == {1, 2}
MCTimeouts == {TRUE}
=============================================================================
