------------------------- MODULE EngineProperties -------------------------
(***************************************************************************)
(* What the packet engine promises across copies of packets and changes of *)
(* configuration.                                                          *)
(***************************************************************************)
EXTENDS SwitchEngine

RxThread ==
  [stage : {"idle", "lock", "spin", "swap", "new", "push"}, pkt : Packets \cup {Nobody}]
IngressThread ==
  [ stage : {"idle", "clone", "route", "resubmit", "mcast"},
    pkt : Packets \cup {Nobody}, left : SUBSET Ports ]
EgressThread ==
  [stage : {"idle", "clone", "route", "recirculate"}, pkt : Packets \cup {Nobody}]
ClientStage == {"idle", "ordered", "check", "lock", "spin", "swap", "aborted"}

(* Every variable stays in its range.                                      *)
EngineTypeOK ==
  /\ received \in 0 .. MaxReceived /\ copies \in 0 .. MaxCopies
  /\ factory \in [Packets -> 0 .. MaxConfigs]
  /\ input_buffer \in Seq(Packets) /\ output_buffer \in Seq(Packets)
  /\ egress_buffers \in [Ports -> SUBSET Packets]
  /\ rx \in RxThread /\ ingress \in IngressThread /\ egress \in [EgressThreads -> EgressThread]
  /\ tx \in Packets \cup {Nobody}
  /\ p4objects \in 1 .. MaxConfigs /\ p4objects_rt \in 1 .. MaxConfigs
  /\ swap_ordered \in BOOLEAN /\ aborted \in BOOLEAN
  /\ swapper \in Clients \cup {"rx", "none"} /\ configLock \in Clients \cup {"none"}
  /\ client \in [Clients -> ClientStage] /\ asked \in [Clients -> 1 .. MaxConfigs]

(* A packet is processed from its reception to its transmission by one     *)
(* configuration, the one its headers were made for, and so are its copies *)
(* (switch.cpp:406-411): no swap happens around a packet.                  *)
OneConfig == \A p \in InUse : factory[p] = p4objects

(* When a call of swap_configs ends, well or by its assertion, the         *)
(* configuration it was called for is the one the packets see.  (The       *)
(* assertion does fail, when the receiving thread or another call was      *)
(* quicker: then that one has done the work.)                              *)
AskedIsRunning ==
  \A c \in Clients : client[c] \in {"idle", "aborted"} => asked[c] <= p4objects

(* Ingress waits for room in the queue that only it empties.               *)
Jammed == ingress.stage = "resubmit" /\ Len(input_buffer) >= InputCapacity

(* A program may resubmit or recirculate a packet for ever, and with it    *)
(* keep the input buffer full; this says that at some time it is enough.   *)
Again == Resubmit \/ \E w \in EgressThreads : Recirculate(w)
AskedFinitely == <>[][~ Again]_engineVars

(* A swap that has been ordered is made, although the packets inside must  *)
(* all leave first and none may enter: they go on while the receiving      *)
(* thread is held.  Not when a resubmission met a full queue, and not when *)
(* packets go round for ever.                                              *)
SwapHappens == AskedFinitely => (swap_ordered ~> (~ swap_ordered \/ Jammed \/ aborted))

(* Every packet leaves, wherever its copies go, when packets are asked to  *)
(* do finitely much and no resubmission met a full queue: recirculations   *)
(* wait for ingress, but ingress never waits for egress.                   *)
EveryPacketEnds ==
  AskedFinitely => \A p \in Packets : (p \in InUse) ~> (p \notin InUse \/ Jammed \/ aborted)

=============================================================================
