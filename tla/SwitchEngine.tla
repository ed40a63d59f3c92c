--------------------------- MODULE SwitchEngine ---------------------------
(***************************************************************************)
(* The packet engine of simple_switch for any P4 program: packets are      *)
(* received, cloned, resubmitted, replicated, recirculated and transmitted *)
(* by five kinds of threads, while Thrift threads load a new configuration *)
(* and have it swapped in (simple_switch.cpp; switch.cpp; context.cpp).    *)
(*                                                                         *)
(* A configuration is its number.  A packet remembers the configuration    *)
(* whose PHV factory made its headers; what a P4 program asks for a packet *)
(* is any choice at the point where the code reads it.                     *)
(***************************************************************************)
EXTENDS Naturals, Sequences, FiniteSets

CONSTANTS
  Ports,            \* output ports, numbered
  NbEgressThreads,  \* port p is served by the egress thread p % NbEgressThreads
  InputCapacity, EgressCapacity, OutputCapacity,
  Clients,          \* Thrift threads
  MaxReceived,      \* bound: frames that arrive
  MaxCopies,        \* bound: copies made of packets
  MaxConfigs        \* bound: configurations, the first one included

ASSUME EngineAssumption ==
  /\ Ports \subseteq Nat /\ IsFiniteSet(Ports)
  /\ {NbEgressThreads, InputCapacity, EgressCapacity, OutputCapacity} \subseteq Nat \ {0}
  /\ {MaxReceived, MaxCopies} \subseteq Nat /\ MaxConfigs \in Nat \ {0}
  /\ "rx" \notin Clients /\ "none" \notin Clients

EgressThreads == 0 .. NbEgressThreads - 1
(* The frames received, in order, then the copies.                         *)
Packets == 1 .. MaxReceived + MaxCopies
Nobody == 0       \* no packet

VARIABLES
  received, copies,   \* frames and copies so far
  factory,            \* [Packets -> configuration its PHV comes from]
  input_buffer, output_buffer,
  egress_buffers,     \* [Ports -> packets waiting]: Queueing has their order
  rx, ingress, egress, tx,   \* what each thread is doing, with which packet
  p4objects, p4objects_rt,   \* configuration of the packets, of the commands
  swap_ordered,
  swapper,            \* holder of ongoing_swap_mutex for writing, or "none"
  configLock,         \* holder of config_mutex, or "none"
  client,             \* [Clients -> stage of the swap_configs call]
  asked,              \* [Clients -> configuration that call is to swap in]
  aborted             \* an assertion has stopped the process

packetVars == <<received, copies, factory>>
queueVars == <<input_buffer, egress_buffers, output_buffer>>
threadVars == <<rx, ingress, egress, tx>>
configVars == <<p4objects, p4objects_rt, swap_ordered, swapper, configLock, client, asked, aborted>>
engineVars == <<packetVars, queueVars, threadVars, configVars>>

InQueue(q) == {q[i] : i \in DOMAIN q}

(* The packets alive: each holds one PHV of the pool until it is destroyed. *)
InUse ==
  ( InQueue(input_buffer) \cup InQueue(output_buffer)
    \cup (UNION {egress_buffers[port] : port \in Ports})
    \cup {rx.pkt, ingress.pkt, tx} \cup {egress[w].pkt : w \in EgressThreads} )
  \ {Nobody}

EngineInit ==
  /\ received = 0 /\ copies = 0
  /\ factory = [p \in Packets |-> 0]
  /\ input_buffer = <<>> /\ output_buffer = <<>>
  /\ egress_buffers = [port \in Ports |-> {}]
  /\ rx = [stage |-> "idle", pkt |-> Nobody]
  /\ ingress = [stage |-> "idle", pkt |-> Nobody, left |-> {}]
  /\ egress = [w \in EgressThreads |-> [stage |-> "idle", pkt |-> Nobody]]
  /\ tx = Nobody
  /\ p4objects = 1 /\ p4objects_rt = 1 /\ swap_ordered = FALSE
  /\ swapper = "none" /\ configLock = "none"
  /\ client = [c \in Clients |-> "idle"] /\ asked = [c \in Clients |-> 1]
  /\ aborted = FALSE

-----------------------------------------------------------------------------
(* Swapping.  do_swap is called by the receiving thread before each packet *)
(* and by swap_configs.                                                    *)

(* The loop on phvs_in_use ends.                                           *)
Drained == InUse = {}

(* A plausible slip: the order is taken back before the pointer is moved.  *)
SwapInLost == swap_ordered' = FALSE /\ UNCHANGED p4objects

(* Context::do_swap and set_phv_factory, still under ongoing_swap_mutex.   *)
SwapIn ==
  /\ p4objects' = p4objects_rt
  /\ swap_ordered' = FALSE

(* Context::load_new_config: refused while another one waits to be swapped *)
(* in; commands go to the new tables from now on.                          *)
LoadNewConfig(c) ==
  /\ client[c] = "idle"
  /\ p4objects = p4objects_rt /\ p4objects_rt < MaxConfigs
  /\ p4objects_rt' = p4objects_rt + 1
  /\ UNCHANGED <<packetVars, queueVars, threadVars, p4objects, swap_ordered,
                 swapper, configLock, client, asked, aborted>>

(* The first half of SwitchWContexts::swap_configs: Context::swap_configs. *)
OrderSwap(c) ==
  /\ client[c] = "idle"
  /\ p4objects # p4objects_rt
  /\ swap_ordered' = TRUE
  /\ client' = [client EXCEPT ![c] = "ordered"]
  /\ asked' = [asked EXCEPT ![c] = p4objects_rt]
  /\ UNCHANGED <<packetVars, queueVars, threadVars, p4objects, p4objects_rt,
                 swapper, configLock, aborted>>

(* The second half, under config_mutex.                                    *)
LockConfig(c) ==
  /\ client[c] = "ordered"
  /\ configLock = "none"
  /\ configLock' = c
  /\ client' = [client EXCEPT ![c] = "check"]
  /\ UNCHANGED <<packetVars, queueVars, threadVars, p4objects, p4objects_rt,
                 swap_ordered, swapper, asked, aborted>>

(* do_swap reads swap_ordered without a lock.                              *)
ClientFinds(c) ==
  /\ client[c] = "check"
  /\ swap_ordered
  /\ client' = [client EXCEPT ![c] = "lock"]
  /\ UNCHANGED <<packetVars, queueVars, threadVars, p4objects, p4objects_rt,
                 swap_ordered, swapper, configLock, asked, aborted>>

ClientLocks(c) ==
  /\ client[c] = "lock"
  /\ swapper = "none"
  /\ swap_ordered
  /\ swapper' = c
  /\ client' = [client EXCEPT ![c] = "spin"]
  /\ UNCHANGED <<packetVars, queueVars, threadVars, p4objects, p4objects_rt,
                 swap_ordered, configLock, asked, aborted>>

(* Somebody else has swapped: do_swap returns 1 and                        *)
(* assert(do_swap() == 0) stops the process.                               *)
ClientAborts(c) ==
  /\ \/ client[c] = "check"
     \/ client[c] = "lock" /\ swapper = "none"
  /\ ~ swap_ordered
  /\ client' = [client EXCEPT ![c] = "aborted"]
  /\ aborted' = TRUE
  /\ UNCHANGED <<packetVars, queueVars, threadVars, p4objects, p4objects_rt,
                 swap_ordered, swapper, configLock, asked>>

ClientDrained(c) ==
  /\ client[c] = "spin" /\ Drained
  /\ client' = [client EXCEPT ![c] = "swap"]
  /\ UNCHANGED <<packetVars, queueVars, threadVars, p4objects, p4objects_rt,
                 swap_ordered, swapper, configLock, asked, aborted>>

ClientSwaps(c) ==
  /\ client[c] = "swap"
  /\ SwapIn
  /\ swapper' = "none" /\ configLock' = "none"
  /\ client' = [client EXCEPT ![c] = "idle"]
  /\ UNCHANGED <<packetVars, queueVars, threadVars, p4objects_rt, asked, aborted>>

-----------------------------------------------------------------------------
(* The receiving thread: receive_.                                         *)

RxAt(stage) == rx' = [rx EXCEPT !.stage = stage]

(* A plausible slip: the packet is made before the swap is looked for.     *)
ReceiveFirst ==
  /\ rx.stage = "idle" /\ received < MaxReceived
  /\ received' = received + 1
  /\ rx' = [stage |-> IF swap_ordered THEN "lock" ELSE "new", pkt |-> received + 1]
  /\ UNCHANGED <<copies, factory, queueVars, ingress, egress, tx, configVars>>

Receive ==
  /\ rx.stage = "idle" /\ received < MaxReceived
  /\ received' = received + 1
  /\ RxAt(IF swap_ordered THEN "lock" ELSE "new")
  /\ UNCHANGED <<copies, factory, queueVars, ingress, egress, tx, configVars>>

RxLocks ==
  /\ rx.stage = "lock"
  /\ swapper = "none"
  /\ IF swap_ordered THEN RxAt("spin") /\ swapper' = "rx"
                     ELSE RxAt("new") /\ UNCHANGED swapper
  /\ UNCHANGED <<packetVars, queueVars, ingress, egress, tx, p4objects, p4objects_rt,
                 swap_ordered, configLock, client, asked, aborted>>

RxDrained ==
  /\ rx.stage = "spin" /\ Drained
  /\ RxAt("swap")
  /\ UNCHANGED <<packetVars, queueVars, ingress, egress, tx, configVars>>

RxSwaps ==
  /\ rx.stage = "swap"
  /\ SwapIn
  /\ swapper' = "none"
  /\ RxAt("new")
  /\ UNCHANGED <<packetVars, queueVars, ingress, egress, tx, p4objects_rt,
                 configLock, client, asked, aborted>>

(* A PHV comes from the pool, and so from the factory of the configuration *)
(* running now, whatever configuration its packet came in under.           *)
NewPHV(p) == factory' = [factory EXCEPT ![p] = p4objects]

(* A plausible slip: the lock is not taken.                                *)
NewPacketUnlocked ==
  /\ rx.stage = "new"
  /\ NewPHV(received)
  /\ rx' = [stage |-> "push", pkt |-> received]
  /\ UNCHANGED <<received, copies, queueVars, ingress, egress, tx, configVars>>

(* new_packet_ptr, under ongoing_swap_mutex for reading.                   *)
NewPacket ==
  /\ rx.stage = "new"
  /\ swapper = "none"
  /\ NewPHV(received)
  /\ rx' = [stage |-> "push", pkt |-> received]
  /\ UNCHANGED <<received, copies, queueVars, ingress, egress, tx, configVars>>

(* Queue::push_front blocks while the queue is full.                       *)
PushInput(p) ==
  /\ Len(input_buffer) < InputCapacity
  /\ input_buffer' = Append(input_buffer, p)

RxPush ==
  /\ rx.stage = "push"
  /\ PushInput(rx.pkt)
  /\ rx' = [stage |-> "idle", pkt |-> Nobody]
  /\ UNCHANGED <<packetVars, egress_buffers, output_buffer, ingress, egress, tx, configVars>>

-----------------------------------------------------------------------------
(* ingress_thread. *)

IngressIdle == ingress' = [stage |-> "idle", pkt |-> Nobody, left |-> {}]

(* enqueue: the queue of a port drops the packet when it is full.          *)
Enqueue(p, port) ==
  egress_buffers' =
    [egress_buffers EXCEPT ![port] =
       IF Cardinality(@) < EgressCapacity THEN @ \cup {p} ELSE @]

(* A copy of the packet in hand, enqueued for port.                        *)
EnqueueCopy(port) ==
  /\ copies' = copies + 1
  /\ NewPHV(MaxReceived + copies + 1)
  /\ Enqueue(MaxReceived + copies + 1, port)

(* A packet may be cloned within the bound on copies, of which those of    *)
(* the multicast ingress is in are kept.                                   *)
MayClone == copies + Cardinality(ingress.left) < MaxCopies

IngressTake ==
  /\ ingress.stage = "idle"
  /\ input_buffer # <<>>
  /\ input_buffer' = Tail(input_buffer)
  /\ ingress' = [stage |-> "clone", pkt |-> Head(input_buffer), left |-> {}]
  /\ UNCHANGED <<received, copies, factory, egress_buffers, output_buffer, rx, egress, tx, configVars>>

(* Clone at ingress, or not (no clone_spec, or no mirroring for it).       *)
IngressClone ==
  /\ ingress.stage = "clone"
  /\ ingress' = [ingress EXCEPT !.stage = "route"]
  /\ \/ UNCHANGED <<copies, factory, egress_buffers>>
     \/ MayClone /\ \E port \in Ports : EnqueueCopy(port)
  /\ UNCHANGED <<received, input_buffer, output_buffer, rx, egress, tx, configVars>>

(* Resubmit, or modify and resubmit, as often as the program asks for it:  *)
(* the copy goes back to the queue only this thread empties, and ingress   *)
(* is done with the packet.                                                *)
Resubmit ==
  /\ ingress.stage = "route"
  /\ NewPHV(ingress.pkt)
  /\ ingress' = [ingress EXCEPT !.stage = "resubmit"]
  /\ UNCHANGED <<received, copies, queueVars, rx, egress, tx, configVars>>

ResubmitPush ==
  /\ ingress.stage = "resubmit"
  /\ PushInput(ingress.pkt)
  /\ IngressIdle
  /\ UNCHANGED <<packetVars, egress_buffers, output_buffer, rx, egress, tx, configVars>>

(* Multicast: one copy for each port the replication engine gives, then    *)
(* the original is discarded.                                              *)
Multicast ==
  /\ ingress.stage = "route"
  /\ \E ports \in SUBSET Ports :
       /\ copies + Cardinality(ports) <= MaxCopies
       /\ ingress' = [ingress EXCEPT !.stage = "mcast", !.left = ports]
  /\ UNCHANGED <<packetVars, queueVars, rx, egress, tx, configVars>>

Replicate ==
  /\ ingress.stage = "mcast"
  /\ \E port \in ingress.left :
       /\ \A other \in ingress.left : port <= other
       /\ EnqueueCopy(port)
       /\ ingress' = [ingress EXCEPT !.left = @ \ {port}]
  /\ UNCHANGED <<received, input_buffer, output_buffer, rx, egress, tx, configVars>>

(* End of a multicast, or egress_spec = 511.                               *)
IngressDrop ==
  /\ \/ ingress.stage = "mcast" /\ ingress.left = {}
     \/ ingress.stage = "route"
  /\ IngressIdle
  /\ UNCHANGED <<packetVars, queueVars, rx, egress, tx, configVars>>

IngressForward ==
  /\ ingress.stage = "route"
  /\ \E port \in Ports : Enqueue(ingress.pkt, port)
  /\ IngressIdle
  /\ UNCHANGED <<packetVars, input_buffer, output_buffer, rx, egress, tx, configVars>>

-----------------------------------------------------------------------------
(* egress_thread w, and transmit_thread. *)

EgressAt(w, stage, p) == egress' = [egress EXCEPT ![w] = [stage |-> stage, pkt |-> p]]

EgressTake(w) ==
  /\ egress[w].stage = "idle"
  /\ \E port \in Ports :
       /\ port % NbEgressThreads = w
       /\ \E p \in egress_buffers[port] :
            /\ egress_buffers' = [egress_buffers EXCEPT ![port] = @ \ {p}]
            /\ EgressAt(w, "clone", p)
  /\ UNCHANGED <<packetVars, input_buffer, output_buffer, rx, ingress, tx, configVars>>

(* Clone at egress: the copy goes through egress itself.                   *)
EgressClone(w) ==
  /\ egress[w].stage = "clone"
  /\ EgressAt(w, "route", egress[w].pkt)
  /\ \/ UNCHANGED <<copies, factory, egress_buffers>>
     \/ MayClone /\ \E port \in Ports : EnqueueCopy(port)
  /\ UNCHANGED <<received, input_buffer, output_buffer, rx, ingress, tx, configVars>>

EgressDrop(w) ==
  /\ egress[w].stage = "route"
  /\ EgressAt(w, "idle", Nobody)
  /\ UNCHANGED <<packetVars, queueVars, rx, ingress, tx, configVars>>

Recirculate(w) ==
  /\ egress[w].stage = "route"
  /\ NewPHV(egress[w].pkt)
  /\ EgressAt(w, "recirculate", egress[w].pkt)
  /\ UNCHANGED <<received, copies, queueVars, rx, ingress, tx, configVars>>

RecirculatePush(w) ==
  /\ egress[w].stage = "recirculate"
  /\ PushInput(egress[w].pkt)
  /\ EgressAt(w, "idle", Nobody)
  /\ UNCHANGED <<packetVars, egress_buffers, output_buffer, rx, ingress, tx, configVars>>

(* A plausible slip: the thread keeps the packet it has handed on.         *)
EgressOutKeeps(w) ==
  /\ egress[w].stage = "route"
  /\ Len(output_buffer) < OutputCapacity
  /\ output_buffer' = Append(output_buffer, egress[w].pkt)
  /\ EgressAt(w, "idle", egress[w].pkt)
  /\ UNCHANGED <<packetVars, input_buffer, egress_buffers, rx, ingress, tx, configVars>>

EgressOut(w) ==
  /\ egress[w].stage = "route"
  /\ Len(output_buffer) < OutputCapacity
  /\ output_buffer' = Append(output_buffer, egress[w].pkt)
  /\ EgressAt(w, "idle", Nobody)
  /\ UNCHANGED <<packetVars, input_buffer, egress_buffers, rx, ingress, tx, configVars>>

TransmitTake ==
  /\ tx = Nobody /\ output_buffer # <<>>
  /\ tx' = Head(output_buffer)
  /\ output_buffer' = Tail(output_buffer)
  /\ UNCHANGED <<packetVars, input_buffer, egress_buffers, rx, ingress, egress, configVars>>

Transmit ==
  /\ tx # Nobody
  /\ tx' = Nobody
  /\ UNCHANGED <<packetVars, queueVars, rx, ingress, egress, configVars>>

-----------------------------------------------------------------------------
ClientStep(c) ==
  LockConfig(c) \/ ClientFinds(c) \/ ClientLocks(c) \/ ClientAborts(c)
  \/ ClientDrained(c) \/ ClientSwaps(c)
RxStep == RxLocks \/ RxDrained \/ RxSwaps \/ NewPacket \/ RxPush
IngressStep ==
  \/ IngressTake \/ IngressClone \/ Resubmit \/ ResubmitPush
  \/ Multicast \/ Replicate \/ IngressDrop \/ IngressForward
EgressStep(w) ==
  \/ EgressTake(w) \/ EgressClone(w) \/ EgressDrop(w)
  \/ Recirculate(w) \/ RecirculatePush(w) \/ EgressOut(w)

EngineNext ==
  /\ ~ aborted
  /\ \/ \E c \in Clients : LoadNewConfig(c) \/ OrderSwap(c) \/ ClientStep(c)
     \/ Receive \/ RxStep
     \/ IngressStep
     \/ \E w \in EgressThreads : EgressStep(w)
     \/ TransmitTake \/ Transmit

EngineSpec == EngineInit /\ [][EngineNext]_engineVars

(* The threads are scheduled and the locks are granted; nothing is assumed *)
(* of the network and of the clients between two calls.                    *)
EngineFairSpec ==
  /\ EngineSpec
  /\ WF_engineVars(~ aborted /\ RxStep)
  /\ WF_engineVars(~ aborted /\ IngressStep)
  /\ WF_engineVars(~ aborted /\ (TransmitTake \/ Transmit))
  /\ \A w \in EgressThreads : WF_engineVars(~ aborted /\ EgressStep(w))
  /\ \A c \in Clients : WF_engineVars(~ aborted /\ ClientStep(c))

=============================================================================
