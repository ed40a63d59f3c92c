------------------------------ MODULE MCNetEnv ------------------------------
(***************************************************************************)
(* Constants for model checking NetEnv: the topology of p4app.json cut     *)
(* down to two leaves and two spines, seen from the leaf l1 and from the   *)
(* spine s1.                                                               *)
(***************************************************************************)
EXTENDS NetEnvProperties, TLC

CONSTANTS h1Ip, h2Ip, s1Ip, strangerIp

TheHosts == <<"h1", "h2">>
TheDigit == [name \in {"h1", "l1", "s1"} |-> 1] @@ [name \in {"h2", "l2", "s2"} |-> 2]
TheDistances ==
  [ s1 |-> [s2 |-> 2, l1 |-> 1, l2 |-> 1, h1 |-> 2, h2 |-> 2],
    s2 |-> [s1 |-> 2, l1 |-> 1, l2 |-> 1, h1 |-> 2, h2 |-> 2],
    l1 |-> [s1 |-> 1, s2 |-> 1, l2 |-> 2, h1 |-> 1, h2 |-> 3],
    l2 |-> [s1 |-> 1, s2 |-> 1, l1 |-> 2, h1 |-> 3, h2 |-> 1] ]

LeafNeighbor  == <<"h1", "s1">>
SpineNeighbor == <<"l1", "l2">>

HostsOnly == (h1Ip :> "h1") @@ (h2Ip :> "h2")
HostsAndSwitch == HostsOnly @@ (s1Ip :> "s1")

(* More destinations than FD_LENGTH, fewer and none.                       *)
SomeListed == {<<>>, <<h2Ip>>, <<h1Ip, h2Ip, h2Ip>>}
StrangerListed == {<<>>, <<strangerIp, h2Ip>>}

=============================================================================
