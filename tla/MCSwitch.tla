------------------------------ MODULE MCSwitch ------------------------------
(***************************************************************************)
(* Constants for model checking SimpleSwitch.                              *)
(***************************************************************************)
EXTENDS SwitchProperties, TLC

CONSTANTS a1, a2, s1, s2

Data(a) == [ip |-> TRUE, dst |-> a, dmac |-> s1, smac |-> Unknown]

(* A frame that is not IPv4 (ARP, IPv6), sent by a neighbouring switch.    *)
NotIP == [ip |-> FALSE, dst |-> NoAddress, dmac |-> Unknown, smac |-> s2]

(* IPv4 to a MAC that is no switch interface: broadcast or multicast.      *)
Stray(a) == [ip |-> TRUE, dst |-> a, dmac |-> Unknown, smac |-> Unknown]

DataOnly == {Data(a1), Data(a2)}
Traffic == DataOnly \cup {NotIP}
AllTraffic == Traffic \cup {Stray(a1)}

NoRoutes == <<>>
SomeRoutes == a1 :> 1

=============================================================================
