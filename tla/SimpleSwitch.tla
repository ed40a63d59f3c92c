---------------------------- MODULE SimpleSwitch ----------------------------
(***************************************************************************)
(* One router: the threads and queues of simple_switch                     *)
(* (bmv2/targets/simple_switch/simple_switch.cpp), the pipelines of        *)
(* MLRouter.p4 they execute, and the MLController the pipelines call.      *)
(* The ingress thread, the egress threads and the transmit thread          *)
(* interleave between two queue operations or two extern calls.            *)
(*                                                                         *)
(* The egress queues are those of QueueingLogicRL with no rate set: each   *)
(* thread has one priority queue ordered by send time only, and the system *)
(* clock that gives the send times may be set back.                        *)
(***************************************************************************)
EXTENDS MLController

CONSTANTS
  Self,             (* the node this switch is                             *)
  Headers,          (* the headers a packet may arrive with: records       *)
                    (* [ip, dst, dmac, smac]                               *)
  Routes,           (* entries of ipv4_lpm: destination -> port            *)
  NbEgressThreads,  (* nb_egress_threads (4)                               *)
  InputCapacity,    (* capacity of input_buffer (1024)                     *)
  EgressCapacity,   (* capacity of each port's egress queue (64)           *)
  Times,            (* what clock::now() may read, at any call             *)
  OutputCapacity,   (* capacity of output_buffer (128)                     *)
  PeerStates,       (* the learner's state when the switch starts          *)
  PeerMayListen,    (* the learner may be started later                    *)
  PeerMayClose      (* the learner may stop                                *)

ASSUME SimpleSwitchAssumption ==
  /\ Self \in Nodes
  /\ Headers \subseteq [ ip : BOOLEAN, dst : Addresses \cup {NoAddress},
                         dmac : Nodes \cup {Unknown}, smac : Nodes \cup {Unknown} ]
  /\ \A header \in Headers : header.ip => header.dst \in Addresses
  /\ NbEgressThreads \in Nat \ {0}
  /\ DOMAIN Routes \subseteq Addresses
  /\ \A address \in DOMAIN Routes : Routes[address] \in Ports
  /\ Times \subseteq Nat
  /\ InputCapacity \in Nat /\ EgressCapacity \in Nat /\ OutputCapacity \in Nat
  /\ PeerStates \subseteq {"absent", "listening", "closed"}

VARIABLES
  arrived,         (* packets received so far: they are numbered in order  *)
  packet,          (* headers and metadata of each packet                  *)
  input_buffer,    (* packets waiting for ingress                          *)
  ingress,         (* the ingress thread                                   *)
  egress_buffers,  (* egress thread -> packets waiting in its queue        *)
  send,            (* the send time a packet was queued with               *)
  lastSent,        (* port -> the last send time given, QueueInfo.last_sent *)
  egress,          (* the egress threads                                   *)
  output_buffer,   (* packets waiting for transmission                     *)
  status,          (* "running", or "crashed" once the process is gone     *)
  \* history variables
  owner,           (* slot -> the packet that pushed it last, 0 if none    *)
  overrun,         (* a slot was reused while its packet was inside        *)
  routed,          (* the packets getOutputPort was called for, in order   *)
  sent             (* the packets transmitted, in order                    *)

timeVars == <<send, lastSent>>
queueVars == <<arrived, packet, input_buffer, egress_buffers, output_buffer, timeVars>>
historyVars == <<owner, overrun, routed, sent>>
vars == <<cbVars, ctrlVars, queueVars, ingress, egress, status, historyVars>>

DropPort == 511
Packets == 1 .. NumPackets
OutPorts == Ports \cup {0}   \* 0 is the egress_spec of a packet nothing was done to
EgressThreads == 0 .. NbEgressThreads - 1
ThreadOf(port) == port % NbEgressThreads

(* The metadata after reset_metadata, and the header of the first packet.  *)
Fresh(header) ==
  [ip |-> header.ip, dst |-> header.dst, dmac |-> header.dmac, smac |-> header.smac,
   pos |-> 0, id |-> 0, spec |-> 0]

Idle == [stage |-> "idle", pkt |-> 0, outP |-> 0, fw |-> FALSE]
EgressIdle == [stage |-> "idle", pkt |-> 0]

(* The extern's mutex is only held across steps by getOutputPort.          *)
ExternFree == ingress.stage # "recv"

AnyHeader == [ip |-> FALSE, dst |-> NoAddress, dmac |-> Unknown, smac |-> Unknown]

Init ==
  /\ CtrlInit
  /\ peer \in PeerStates
  /\ arrived = 0
  /\ packet = [p \in Packets |-> Fresh(AnyHeader)]
  /\ input_buffer = <<>>
  /\ ingress = Idle
  /\ egress_buffers = [w \in EgressThreads |-> {}]
  /\ send = [p \in Packets |-> 0] /\ lastSent = [port \in OutPorts |-> 0]
  /\ egress = [w \in EgressThreads |-> EgressIdle]
  /\ output_buffer = <<>>
  /\ status = "running"
  /\ owner = [pos \in Slots |-> 0]
  /\ overrun = FALSE
  /\ routed = <<>>
  /\ sent = <<>>

InSeq(q) == {q[i] : i \in DOMAIN q}

(* The packets whose address has been pushed and that may still pop it:    *)
(* past pushAddress, not dropped, not yet past popAddress.                 *)
Inside ==
  {p \in Packets : packet[p].ip /\
     \/ ingress.pkt = p /\ ingress.stage # "push"
     \/ \E w \in EgressThreads :
          p \in egress_buffers[w] \/ egress[w] = [stage |-> "pop", pkt |-> p]}

-----------------------------------------------------------------------------
(* The driver's thread: receive_ resets the metadata and queues the packet *)
(* (blocking while input_buffer is full).                                  *)

Receive ==
  /\ arrived < NumPackets
  /\ Len(input_buffer) < InputCapacity
  /\ arrived' = arrived + 1
  /\ \E header \in Headers :
       packet' = [packet EXCEPT ![arrived'] = Fresh(header)]
  /\ input_buffer' = Append(input_buffer, arrived')
  /\ UNCHANGED <<cbVars, ctrlVars, ingress, egress_buffers, timeVars, egress, output_buffer,
                 status, historyVars>>

-----------------------------------------------------------------------------
(* The ingress thread.                                                     *)

IngressTake ==
  /\ ingress.stage = "idle"
  /\ input_buffer # <<>>
  /\ ingress' = [Idle EXCEPT !.stage = "push", !.pkt = Head(input_buffer)]
  /\ input_buffer' = Tail(input_buffer)
  /\ UNCHANGED <<cbVars, ctrlVars, arrived, packet, egress_buffers, timeVars, egress,
                 output_buffer, status, historyVars>>

Goto(stage) == ingress' = [ingress EXCEPT !.stage = stage]

(* pushAddress of an IPv4 packet: the slot is kept in meta.identifier, and *)
(* a destination due for an update is taken to the learner, any other to   *)
(* the table.                                                              *)
PushAddress ==
  LET p == ingress.pkt IN
  /\ ingress.stage = "push"
  /\ packet[p].ip
  /\ PushAddr(packet[p].dmac, packet[p].dst)
  /\ packet' = [packet EXCEPT ![p].pos = PushPos]
  /\ Goto(IF UpdateEntry(packet[p].dst) THEN "choose" ELSE "table")
  /\ owner' = [owner EXCEPT ![PushPos] = p]
  /\ overrun' = (overrun \/ owner[PushPos] \in Inside)
  /\ UNCHANGED <<arrived, input_buffer, egress_buffers, timeVars, egress, output_buffer,
                 status, routed, sent>>

(* Any other packet leaves the block with egress_spec untouched.           *)
SkipAddress ==
  /\ ingress.stage = "push"
  /\ ~ packet[ingress.pkt].ip
  /\ Goto("enqueue")
  /\ UNCHANGED <<cbVars, ctrlVars, queueVars, egress, status, historyVars>>

(* ipv4_lpm: ipv4_forward for the destinations that have an entry, the     *)
(* default action drop for the others.                                     *)
IngressTable ==
  LET p == ingress.pkt
      dst == packet[p].dst
  IN
  /\ ingress.stage = "table"
  /\ packet' = IF dst \in DOMAIN Routes
               THEN [packet EXCEPT ![p].spec = Routes[dst], ![p].smac = packet[p].dmac]
               ELSE [packet EXCEPT ![p].spec = DropPort]
  /\ Goto("enqueue")
  /\ UNCHANGED <<cbVars, ctrlVars, arrived, input_buffer, egress_buffers, timeVars, egress,
                 output_buffer, status, historyVars>>

(* choosePort: meta.id is set before the learner is asked.                 *)
ChoosePort ==
  LET p == ingress.pkt IN
  /\ ingress.stage = "choose"
  /\ packet' = [packet EXCEPT ![p].id = nextId]
  /\ routed' = Append(routed, p)
  /\ \/ /\ GetOutputPort(packet[p].dmac, packet[p].pos)
        /\ Goto("recv")
     \/ /\ NobodyListens(packet[p].dmac)
        /\ ingress' = [ingress EXCEPT !.stage = "chosen", !.outP = NoPort,
                                      !.fw = DoForward(NoPort)]
  /\ UNCHANGED <<arrived, input_buffer, egress_buffers, timeVars, egress, output_buffer,
                 status, owner, overrun, sent>>

Segfault ==
  /\ ingress.stage = "choose"
  /\ PyIsNull(packet[ingress.pkt].dmac)
  /\ status' = "crashed"
  /\ UNCHANGED <<cbVars, ctrlVars, queueVars, ingress, egress, historyVars>>

PortChosen ==
  /\ ingress.stage = "recv"
  /\ PortReceived
  /\ ingress' = [ingress EXCEPT !.stage = "chosen", !.outP = response,
                                !.fw = DoForward(response)]
  /\ UNCHANGED <<queueVars, egress, status, historyVars>>

(* getNeighbor and ipv4_forward_rl, or mark_to_drop, according to fw.      *)
ForwardOrDrop ==
  LET p == ingress.pkt IN
  /\ ingress.stage = "chosen"
  /\ ~ (ingress.fw /\ KnownDestination(packet[p].dmac) /\ NeighborThrows(ingress.outP))
  /\ packet' = IF ingress.fw /\ KnownDestination(packet[p].dmac)
               THEN [packet EXCEPT ![p].spec = ingress.outP, ![p].smac = packet[p].dmac]
               ELSE [packet EXCEPT ![p].spec = DropPort]
  /\ Goto("enqueue")
  /\ UNCHANGED <<cbVars, ctrlVars, arrived, input_buffer, egress_buffers, timeVars, egress,
                 output_buffer, status, historyVars>>

(* The exception of getNeighbor is caught nowhere in the ingress thread.   *)
NeighborException ==
  /\ ingress.stage = "chosen"
  /\ ingress.fw
  /\ KnownDestination(packet[ingress.pkt].dmac)
  /\ NeighborThrows(ingress.outP)
  /\ status' = "crashed"
  /\ UNCHANGED <<cbVars, ctrlVars, queueVars, ingress, egress, historyVars>>

QueueLen(port) == Cardinality({p \in egress_buffers[ThreadOf(port)] : packet[p].spec = port})

(* get_next_tp with no rate set: the clock, but never before the last time *)
(* given to this port.                                                     *)
NextTpNow(port, now) == now
NextTp(port, now) == IF now < lastSent[port] THEN lastSent[port] ELSE now

(* The end of the loop: a packet for port 511 is dropped, and so is one    *)
(* whose egress queue is full.                                             *)
Enqueue ==
  LET p == ingress.pkt
      port == packet[p].spec
      kept == port # DropPort /\ QueueLen(port) < EgressCapacity
  IN
  /\ ingress.stage = "enqueue"
  /\ ingress' = Idle
  /\ \/ ~ kept /\ UNCHANGED <<egress_buffers, timeVars>>
     \/ /\ kept
        /\ egress_buffers' = [egress_buffers EXCEPT ![ThreadOf(port)] = @ \cup {p}]
        /\ \E now \in Times :
             /\ send' = [send EXCEPT ![p] = NextTp(port, now)]
             /\ lastSent' = [lastSent EXCEPT ![port] = NextTp(port, now)]
  /\ UNCHANGED <<cbVars, ctrlVars, arrived, packet, input_buffer, egress,
                 output_buffer, status, historyVars>>

-----------------------------------------------------------------------------
(* The egress threads and the transmit thread.                             *)

(* A slip: leaving the thread at the pop it has done, once the reward is   *)
(* stored.                                                                 *)
RewardSentAgain(w) ==
  LET p == egress[w].pkt IN
  /\ egress[w].stage = "reward"
  /\ ExternFree
  /\ IF packet[p].ip THEN SendReward(p, packet[p].id) ELSE UNCHANGED <<cbVars, ctrlVars>>
  /\ egress' = [egress EXCEPT ![w].stage = "pop"]
  /\ UNCHANGED <<queueVars, ingress, status, historyVars>>

(* pop_back: a packet with the earliest send time; among equal times the   *)
(* priority queue may have any of them at its top.  The wait for a send    *)
(* time still to come is left out: it ends.                                *)
EgressTake(w) ==
  /\ egress[w].stage = "idle"
  /\ \E p \in egress_buffers[w] :
       /\ \A q \in egress_buffers[w] : send[p] <= send[q]
       /\ egress' = [egress EXCEPT ![w] = [stage |-> "pop", pkt |-> p]]
       /\ egress_buffers' = [egress_buffers EXCEPT ![w] = @ \ {p}]
  /\ UNCHANGED <<cbVars, ctrlVars, arrived, packet, input_buffer, ingress,
                 output_buffer, timeVars, status, historyVars>>

PopAddress(w) ==
  LET p == egress[w].pkt IN
  /\ egress[w].stage = "pop"
  /\ ExternFree
  /\ PopAddr(packet[p].smac, packet[p].pos, packet[p].ip)
  /\ egress' = [egress EXCEPT ![w].stage = "reward"]
  /\ UNCHANGED <<queueVars, ingress, status, historyVars>>

RewardSent(w) ==
  LET p == egress[w].pkt IN
  /\ egress[w].stage = "reward"
  /\ ExternFree
  /\ IF packet[p].ip THEN SendReward(p, packet[p].id) ELSE UNCHANGED <<cbVars, ctrlVars>>
  /\ egress' = [egress EXCEPT ![w].stage = "out"]
  /\ UNCHANGED <<queueVars, ingress, status, historyVars>>

EgressOut(w) ==
  /\ egress[w].stage = "out"
  /\ Len(output_buffer) < OutputCapacity
  /\ output_buffer' = Append(output_buffer, egress[w].pkt)
  /\ egress' = [egress EXCEPT ![w] = EgressIdle]
  /\ UNCHANGED <<cbVars, ctrlVars, arrived, packet, input_buffer, ingress,
                 egress_buffers, timeVars, status, historyVars>>

Transmit ==
  /\ output_buffer # <<>>
  /\ sent' = Append(sent, Head(output_buffer))
  /\ output_buffer' = Tail(output_buffer)
  /\ UNCHANGED <<cbVars, ctrlVars, arrived, packet, input_buffer, ingress,
                 egress_buffers, timeVars, egress, status, owner, overrun, routed>>

-----------------------------------------------------------------------------

Learner ==
  /\ \/ PeerAnswers
     \/ PeerMayListen /\ PeerListens
     \/ PeerMayClose /\ PeerCloses
  /\ UNCHANGED <<queueVars, ingress, egress, status, historyVars>>

Ingress ==
  \/ IngressTake \/ PushAddress \/ SkipAddress \/ IngressTable
  \/ ChoosePort \/ Segfault \/ PortChosen
  \/ ForwardOrDrop \/ NeighborException \/ Enqueue

Egress(w) == EgressTake(w) \/ PopAddress(w) \/ RewardSent(w) \/ EgressOut(w)

Step ==
  \/ Receive
  \/ Ingress
  \/ \E w \in EgressThreads : Egress(w)
  \/ Transmit
  \/ Learner

(* The bounded traffic is over and every packet has left: the threads wait *)
(* in their pops.                                                          *)
AllGone ==
  /\ arrived = NumPackets
  /\ input_buffer = <<>> /\ output_buffer = <<>>
  /\ ingress = Idle
  /\ \A w \in EgressThreads : egress_buffers[w] = {} /\ egress[w] = EgressIdle

Rest == (AllGone \/ status = "crashed") /\ UNCHANGED vars

(* recv on a connection the learner closed returns 0 again and again: the  *)
(* loop of getPort spins and never gives the extern's mutex back.          *)
RecvSpins ==
  /\ ingress.stage = "recv"
  /\ peer = "closed" /\ response = 0
  /\ UNCHANGED vars

Next ==
  \/ status = "running" /\ Step
  \/ RecvSpins
  \/ Rest

(* Every thread of the switch runs, and the learner answers (step of       *)
(* net_env.py sends the port before anything else).  Nothing makes packets *)
(* arrive or learners start or stop.                                       *)
Fairness ==
  /\ WF_vars(status = "running" /\ Ingress)
  /\ \A w \in EgressThreads : WF_vars(status = "running" /\ Egress(w))
  /\ WF_vars(status = "running" /\ Transmit)
  /\ WF_vars(status = "running" /\ PeerAnswers
             /\ UNCHANGED <<queueVars, ingress, egress, status, historyVars>>)

Spec == Init /\ [][Next]_vars

FairSpec == Spec /\ Fairness

=============================================================================
