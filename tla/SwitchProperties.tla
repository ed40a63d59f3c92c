-------------------------- MODULE SwitchProperties --------------------------
(***************************************************************************)
(* What a router must guarantee, and what its documents say of it.         *)
(***************************************************************************)
EXTENDS SimpleSwitch

PacketRecords ==
  [ ip : BOOLEAN, dst : Addresses \cup {NoAddress},
    dmac : Nodes \cup {Unknown}, smac : Nodes \cup {Unknown},
    pos : Slots, id : 0 .. RwsSize - 1, spec : Ports \cup {0, DropPort} ]

PacketSeqs == UNION {[1 .. n -> Packets] : n \in 0 .. NumPackets}

(* Every variable of the switch stays in its range.                        *)
TypeOK ==
  /\ CtrlTypeOK
  /\ arrived \in 0 .. NumPackets
  /\ packet \in [Packets -> PacketRecords]
  /\ input_buffer \in PacketSeqs /\ Len(input_buffer) <= InputCapacity
  /\ ingress \in [ stage : {"idle", "push", "table", "choose", "recv", "chosen", "enqueue"},
                   pkt : 0 .. NumPackets, outP : Ports \cup {0, NoPort}, fw : BOOLEAN ]
  /\ \A w \in EgressThreads :
       /\ egress_buffers[w] \subseteq Packets
       /\ egress[w] \in [stage : {"idle", "pop", "reward", "out"}, pkt : 0 .. NumPackets]
  /\ send \in [Packets -> Nat] /\ lastSent \in [OutPorts -> Nat]
  /\ output_buffer \in PacketSeqs /\ Len(output_buffer) <= OutputCapacity
  /\ status \in {"running", "crashed"}
  /\ owner \in [Slots -> 0 .. NumPackets]
  /\ overrun \in BOOLEAN
  /\ routed \in PacketSeqs /\ sent \in PacketSeqs

Running == status = "running"

(* The packets past popAddress. *)
Popped ==
  InSeq(sent) \cup InSeq(output_buffer) \cup
  {egress[w].pkt : w \in {v \in EgressThreads : egress[v].stage \in {"reward", "out"}}}

(* The future destinations read out of the ring are in the order in which  *)
(* their packets came, whatever pops in between (ccbuffer.h push and pop,  *)
(* and the walk of pymodule.h:169-177).                                    *)
OldestFirst ==
  \A i, j \in 1 .. Len(Listed) : i < j => owner[Listed[i]] < owner[Listed[j]]

(* Once a packet has been through MyEgress its own insertion is not listed *)
(* any more, even if other packets popped or pushed at its position.       *)
NoEntryAfterEgress ==
  \A pos \in ValidSlots : owner[pos] \notin Popped

(* As long as no position was handed out again while its packet was        *)
(* inside, every packet between its push and its pop finds its own         *)
(* insertion, still valid, at the position it carries.                     *)
OwnEntry ==
  ~ overrun => \A p \in Inside :
                 /\ owner[packet[p].pos] = p
                 /\ futureDestinations[packet[p].pos] = [addr |-> packet[p].dst, valid |-> TRUE]

(* The message getPort sends announces as many destinations as it lists,   *)
(* is about the packet ingress is holding, and that packet's destination   *)
(* is the last (newest) listed unless the ring overran.  The two name it   *)
(* differently from 128.0.0.0 on (pymodule.h:163 and 173).                 *)
RequestFits ==
  request # NoRequest =>
    /\ request.size = Len(request.dests)
    /\ request.addr = Signed(packet[ingress.pkt].dst)
    /\ ~ overrun => /\ request.dests # <<>>
                    /\ request.dests[Len(request.dests)] = packet[ingress.pkt].dst

(* The packet whose route was asked for just before that of the packet in  *)
(* ingress, 0 if this is the first.                                        *)
PreviousRouted == IF Len(routed) > 1 THEN routed[Len(routed) - 1] ELSE 0

(* The reward sent with a request is the queueing time of the packet of    *)
(* the previous request, or 0: never that of any other packet.             *)
RewardAligned == request # NoRequest => request.reward \in {NoReward, PreviousRouted}

(* Once the switch has been connected to its learner, no packet can take   *)
(* the process down any more, whatever becomes of the learner.             *)
CrashOnlyBeforeLearner == ~ Running => py # "connected"

(* The packets sent out of a port leave in the order they came in, however *)
(* often the clock is set back, unless their queue gave them one and the   *)
(* same send time, as it does after the clock was set back: the tie-break  *)
(* is commented out (queueing.h:240, 351-352).                             *)
PortOrder ==
  \A i, j \in 1 .. Len(sent) :
    i < j /\ packet[sent[i]].spec = packet[sent[j]].spec =>
      sent[i] < sent[j] \/ send[sent[i]] = send[sent[j]]

Present(p) ==
  \/ p \in InSeq(input_buffer) \cup InSeq(output_buffer)
  \/ ingress.pkt = p
  \/ \E w \in EgressThreads : p \in egress_buffers[w] \/ egress[w].pkt = p

(* Every packet received is eventually dropped or transmitted, although    *)
(* egress stands still whenever ingress waits for the learner.             *)
EveryPacketLeaves == \A p \in Packets : (arrived >= p) ~> ~ Present(p)

(* The switch asks its learner one question at a time over one connection, *)
(* and takes each answer once, as LearnerSocket promises the environment.  *)
Socket == INSTANCE LearnerSocket WITH
  NoAnswer <- 0,
  switch   <- IF status = "crashed" THEN "gone" ELSE "up"

ImplementsSocket == Socket!LSSpec

-----------------------------------------------------------------------------
(* Statements of the documents that the code does not keep.                *)

(* simple_switch/README.md:9-10: the buffer stores the future destinations *)
(* of the packets being processed; an address pushed in ingress is popped  *)
(* once its packet reaches egress.                                         *)
EntriesOfPacketsInside == \A pos \in ValidSlots : owner[pos] \in Inside

(* MLController.cpp:128-129: a packet for which no port could be had (-1)  *)
(* is not forwarded.                                                       *)
NoPortNoForward ==
  ingress.stage = "chosen" /\ ingress.outP = NoPort => ~ ingress.fw

=============================================================================
