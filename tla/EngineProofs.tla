---------------------------- MODULE EngineProofs ----------------------------
(***************************************************************************)
(* Proofs about SwitchEngine for any ports, threads, capacities, clients   *)
(* and numbers of packets and configurations.                              *)
(***************************************************************************)
EXTENDS EngineProperties, FiniteSetTheorems, TLAPS

(* A thread past its "idle" has a packet in hand, which is then in use; and *)
(* the copies of a multicast still to be made are within the bound.        *)
HandsFull ==
  /\ rx.stage # "idle" => received >= 1
  /\ rx.stage = "push" => rx.pkt \in Packets
  /\ ingress.stage # "idle" => ingress.pkt \in Packets
  /\ \A w \in EgressThreads : egress[w].stage # "idle" => egress[w].pkt \in Packets
  /\ copies + Cardinality(ingress.left) <= MaxCopies

(* ongoing_swap_mutex is held for writing by who waits for the packets to  *)
(* end or moves the pointers.                                              *)
SwapLock ==
  /\ swapper = "rx" <=> rx.stage \in {"spin", "swap"}
  /\ \A c \in Clients : swapper = c <=> client[c] \in {"spin", "swap"}

(* Once nobody is found inside, nobody enters until the swap is done.      *)
SwapEmpty ==
  rx.stage = "swap" \/ (\E c \in Clients : client[c] = "swap") => InUse = {}

(* Without a pending order every configuration asked for is running.       *)
Asked ==
  /\ p4objects <= p4objects_rt
  /\ \A c \in Clients : asked[c] <= p4objects_rt
  /\ ~ swap_ordered => \A c \in Clients : asked[c] <= p4objects

EngineInv ==
  EngineTypeOK /\ HandsFull /\ SwapLock /\ SwapEmpty /\ Asked /\ OneConfig /\ AskedIsRunning

-----------------------------------------------------------------------------
(* What the assumption says of the constants. *)
LEMMA Numbers ==
  /\ MaxReceived \in Nat /\ MaxCopies \in Nat
  /\ MaxConfigs \in Nat \ {0} /\ IsFiniteSet(Ports)
  /\ "rx" \notin Clients /\ "none" \notin Clients
BY EngineAssumption

(* Queues. *)
LEMMA AppendIn ==
  ASSUME NEW S, NEW q \in Seq(S), NEW p \in S
  PROVE  Append(q, p) \in Seq(S) /\ InQueue(Append(q, p)) = InQueue(q) \cup {p}
<1>1. /\ Append(q, p) \in Seq(S) /\ DOMAIN Append(q, p) = 1 .. Len(q) + 1
      /\ \A i \in 1 .. Len(q) : Append(q, p)[i] = q[i]
      /\ Append(q, p)[Len(q) + 1] = p
  OBVIOUS
<1>2. DOMAIN q = 1 .. Len(q) /\ Len(q) \in Nat
  OBVIOUS
<1>3. QED
  BY <1>1, <1>2 DEF InQueue

(* What the rest of a queue holds after its first packet is taken. *)
LEMMA TailIn ==
  ASSUME NEW S, NEW q \in Seq(S), q # <<>>
  PROVE  /\ Head(q) \in S /\ Tail(q) \in Seq(S)
         /\ Head(q) \in InQueue(q) /\ InQueue(Tail(q)) \subseteq InQueue(q)
<1>1. /\ Head(q) = q[1] /\ Tail(q) \in Seq(S) /\ DOMAIN Tail(q) = 1 .. Len(q) - 1
      /\ \A i \in 1 .. Len(q) - 1 : Tail(q)[i] = q[i + 1]
  OBVIOUS
<1>2. DOMAIN q = 1 .. Len(q) /\ Len(q) \in Nat \ {0}
  OBVIOUS
<1>3. QED
  BY <1>1, <1>2 DEF InQueue

(* Where a packet in use can be.                                           *)
Inside(p) ==
  \/ p \in InQueue(input_buffer) \/ p \in InQueue(output_buffer)
  \/ \E port \in Ports : p \in egress_buffers[port]
  \/ \E w \in EgressThreads : p = egress[w].pkt
  \/ p = rx.pkt \/ p = ingress.pkt \/ p = tx

(* A packet is in use exactly when some queue or thread holds it, before and after a step. *)
LEMMA InUseIs ==
  /\ \A p : p \in InUse <=> p # Nobody /\ Inside(p)
  /\ \A p : p \in InUse' <=> p # Nobody /\ Inside(p)'
<1> DEFINE Q == UNION {egress_buffers[port] : port \in Ports}
           E == {egress[w].pkt : w \in EgressThreads}
<1>1. \A p : /\ p \in Q <=> \E port \in Ports : p \in egress_buffers[port]
             /\ p \in Q' <=> \E port \in Ports : p \in egress_buffers'[port]
  OBVIOUS
<1>2. \A p : /\ p \in E <=> \E w \in EgressThreads : p = egress[w].pkt
             /\ p \in E' <=> \E w \in EgressThreads : p = egress'[w].pkt
  OBVIOUS
<1>3. /\ InUse = ( InQueue(input_buffer) \cup InQueue(output_buffer) \cup Q
                  \cup {rx.pkt, ingress.pkt, tx} \cup E ) \ {Nobody}
      /\ InUse' = ( InQueue(input_buffer') \cup InQueue(output_buffer') \cup Q'
                   \cup {rx'.pkt, ingress'.pkt, tx'} \cup E' ) \ {Nobody}
  BY DEF InUse
<1> HIDE DEF Q, E
<1>4. QED
  BY <1>1, <1>2, <1>3 DEF Inside

(* A step that leaves the configuration alone takes no packet from nowhere, *)
(* and makes headers from the running configuration only.                  *)
Carried ==
  /\ p4objects' = p4objects
  /\ \A p \in InUse' : (p \in InUse /\ factory'[p] = factory[p]) \/ factory'[p] = p4objects
  /\ InUse = {} => InUse' = {}

(* The parts of a step that move packets.                                  *)
LEMMA PushInputIn ==
  ASSUME EngineTypeOK, NEW p \in Packets, PushInput(p)
  PROVE  input_buffer' \in Seq(Packets) /\ InQueue(input_buffer') = InQueue(input_buffer) \cup {p}
BY AppendIn DEF EngineTypeOK, PushInput

(* Enqueue adds one packet at most to one egress queue and none to others. *)
LEMMA EnqueueIn ==
  ASSUME EngineTypeOK, NEW p \in Packets, NEW port, Enqueue(p, port)
  PROVE  /\ egress_buffers' \in [Ports -> SUBSET Packets]
         /\ \A other \in Ports : egress_buffers'[other] \subseteq egress_buffers[other] \cup {p}
<1>1. egress_buffers \in [Ports -> SUBSET Packets]
  BY DEF EngineTypeOK
<1>2. PICK waiting : /\ egress_buffers' = [egress_buffers EXCEPT ![port] = waiting]
                     /\ waiting \in {egress_buffers[port], egress_buffers[port] \cup {p}}
  BY DEF Enqueue
<1>3. QED
  BY <1>1, <1>2

(* A new packet gets its headers from a configuration there is. *)
LEMMA FactoryKept ==
  ASSUME EngineTypeOK, NEW p, NewPHV(p)
  PROVE  factory' \in [Packets -> 0 .. MaxConfigs]
<1>1. p4objects \in 0 .. MaxConfigs /\ factory \in [Packets -> 0 .. MaxConfigs]
  BY DEF EngineTypeOK
<1>2. QED
  BY <1>1 DEF NewPHV

(* Other headers than those just made stay what they were.                 *)
LEMMA FactoryIs ==
  ASSUME EngineTypeOK, NEW c \in Packets, factory' = [factory EXCEPT ![c] = p4objects]
  PROVE  /\ factory'[c] = p4objects
         /\ \A p : p # c => factory'[p] = factory[p]
<1>1. factory = [p \in Packets |-> factory[p]]
  BY DEF EngineTypeOK
<1>2. QED
  BY <1>1

(* A copy is a new packet of the running configuration, in one egress buffer. *)
LEMMA EnqueueCopyIn ==
  ASSUME EngineTypeOK, copies < MaxCopies, NEW port, EnqueueCopy(port)
  PROVE  /\ copies' = copies + 1 /\ copies' \in 0 .. MaxCopies
         /\ factory' \in [Packets -> 0 .. MaxConfigs]
         /\ egress_buffers' \in [Ports -> SUBSET Packets]
         /\ \E c \in Packets :
              /\ factory' = [factory EXCEPT ![c] = p4objects]
              /\ \A other \in Ports : egress_buffers'[other] \subseteq egress_buffers[other] \cup {c}
<1> DEFINE c == MaxReceived + copies + 1
<1>1. c \in Packets /\ copies + 1 \in 0 .. MaxCopies
  <2>1. copies \in 0 .. MaxCopies
    BY DEF EngineTypeOK
  <2>2. QED
    BY <2>1, Numbers DEF Packets
<1>2. factory' = [factory EXCEPT ![c] = p4objects] /\ Enqueue(c, port) /\ copies' = copies + 1
  BY DEF EnqueueCopy, NewPHV
<1>3. factory' \in [Packets -> 0 .. MaxConfigs]
  BY <1>2, FactoryKept DEF NewPHV
<1>4. QED
  BY <1>1, <1>2, <1>3, EnqueueIn

-----------------------------------------------------------------------------
(* The ingress thread. *)
LEMMA IngressKept ==
  ASSUME EngineTypeOK, HandsFull, IngressStep
  PROVE  EngineTypeOK' /\ HandsFull' /\ Carried
<1> DEFINE Good == EngineTypeOK' /\ HandsFull' /\ Carried
<1> SUFFICES Good
  OBVIOUS
<1>1. /\ ingress.pkt \in Packets \cup {Nobody} /\ ingress.left \in SUBSET Ports
      /\ ingress.stage \in {"idle", "clone", "route", "resubmit", "mcast"}
      /\ copies \in Nat /\ Nobody \notin Packets /\ MaxCopies \in Nat
      /\ IsFiniteSet(ingress.left) /\ Cardinality(ingress.left) \in Nat
  BY Numbers, FS_Subset, FS_CardinalityType DEF EngineTypeOK, IngressThread, Nobody, Packets
<1>2. IsFiniteSet({}) /\ Cardinality({}) = 0
  BY FS_EmptySet
<1>3. CASE IngressTake
  <2>1. input_buffer \in Seq(Packets) /\ input_buffer # <<>>
    BY <1>3 DEF IngressTake, EngineTypeOK, IngressThread
  <2>2. /\ Head(input_buffer) \in Packets /\ input_buffer' \in Seq(Packets)
        /\ Head(input_buffer) \in InQueue(input_buffer)
        /\ InQueue(input_buffer') \subseteq InQueue(input_buffer)
    BY <1>3, <2>1, TailIn DEF IngressTake
  <2>3. EngineTypeOK'
    BY <1>3, <2>2 DEF IngressTake, EngineTypeOK, IngressThread, configVars, packetVars
  <2>4. HandsFull'
    BY <1>1, <1>2, <1>3, <2>2 DEF IngressTake, HandsFull, packetVars
  <2>5. InUse' \subseteq InUse
    BY <1>3, <2>2, InUseIs DEF IngressTake, Inside
  <2>6. Carried
    BY <1>3, <2>5 DEF IngressTake, Carried, configVars, packetVars
  <2>7. QED
    BY <2>3, <2>4, <2>6
<1>4. CASE IngressClone
  <2>1. CASE UNCHANGED <<copies, factory, egress_buffers>>
    <3>1. EngineTypeOK'
      BY <1>4, <2>1 DEF IngressClone, EngineTypeOK, IngressThread, configVars
    <3>2. HandsFull'
      BY <1>4, <2>1 DEF IngressClone, HandsFull, EngineTypeOK, IngressThread
    <3>3. InUse' \subseteq InUse /\ factory' = factory /\ p4objects' = p4objects
      BY <1>4, <2>1, InUseIs DEF IngressClone, Inside, configVars, EngineTypeOK, IngressThread
    <3>4. QED
      BY <3>1, <3>2, <3>3 DEF Carried
  <2>2. ASSUME NEW port \in Ports, MayClone, EnqueueCopy(port) PROVE Good
    <3>1. copies < MaxCopies /\ copies + Cardinality(ingress.left) < MaxCopies
      BY <1>1, <2>2 DEF MayClone
    <3>2. PICK c \in Packets :
            /\ factory' = [factory EXCEPT ![c] = p4objects]
            /\ \A other \in Ports : egress_buffers'[other] \subseteq egress_buffers[other] \cup {c}
      BY <2>2, <3>1, EnqueueCopyIn
    <3>3. /\ copies' = copies + 1 /\ copies' \in 0 .. MaxCopies
          /\ factory' \in [Packets -> 0 .. MaxConfigs]
          /\ egress_buffers' \in [Ports -> SUBSET Packets]
      BY <2>2, <3>1, EnqueueCopyIn
    <3>4. ingress' = [ingress EXCEPT !.stage = "route"] /\ ingress.pkt \in Packets
      BY <1>4 DEF IngressClone, HandsFull
    <3>5. EngineTypeOK'
      BY <1>4, <3>3, <3>4 DEF IngressClone, EngineTypeOK, IngressThread, configVars
    <3>6. HandsFull'
      <4>1. /\ ingress'.pkt = ingress.pkt /\ ingress'.left = ingress.left
            /\ copies + 1 + Cardinality(ingress.left) <= MaxCopies
        BY <1>1, <3>1, <3>4 DEF EngineTypeOK, IngressThread
      <4>2. QED
        BY <1>4, <3>3, <3>4, <4>1 DEF IngressClone, HandsFull
    <3>7. InUse' \subseteq InUse \cup {c} /\ ingress.pkt \in InUse
      <4>1. /\ ingress'.pkt = ingress.pkt /\ ingress.pkt # Nobody
            /\ UNCHANGED <<input_buffer, output_buffer, rx, egress, tx>>
        BY <1>1, <1>4, <3>4 DEF IngressClone, EngineTypeOK, IngressThread, Packets, Nobody
      <4>2. ingress.pkt \in InUse
        BY <4>1, InUseIs DEF Inside
      <4>3. ASSUME NEW p, Inside(p)' PROVE Inside(p) \/ p = c
        BY <4>1, <4>3, <3>2 DEF Inside
      <4>4. QED
        BY <4>2, <4>3, InUseIs
    <3>8. \A p \in Packets : factory'[p] = factory[p] \/ (p = c /\ factory'[p] = p4objects)
      BY <3>2 DEF EngineTypeOK, IngressThread
    <3>9. p4objects' = p4objects
      BY <1>4 DEF IngressClone, configVars
    <3>10. Carried
      BY <3>2, <3>7, <3>8, <3>9, FactoryIs DEF Carried
    <3>11. QED
      BY <3>5, <3>6, <3>10
  <2>3. QED
    BY <1>4, <2>1, <2>2 DEF IngressClone
<1>5. CASE Resubmit
  <2>1. factory' \in [Packets -> 0 .. MaxConfigs]
    BY <1>5, FactoryKept DEF Resubmit
  <2>2. ingress' = [ingress EXCEPT !.stage = "resubmit"] /\ ingress.pkt \in Packets
    BY <1>5 DEF Resubmit, HandsFull
  <2>3. EngineTypeOK'
    BY <1>5, <2>1, <2>2 DEF Resubmit, EngineTypeOK, IngressThread, configVars, queueVars
  <2>4. HandsFull'
    BY <1>1, <1>5, <2>2 DEF Resubmit, HandsFull, EngineTypeOK, IngressThread
  <2>5. InUse' \subseteq InUse /\ p4objects' = p4objects
    BY <1>1, <1>5, <2>2, InUseIs DEF Resubmit, Inside, EngineTypeOK, IngressThread, configVars, queueVars
  <2>6. factory' = [factory EXCEPT ![ingress.pkt] = p4objects]
    BY <1>5 DEF Resubmit, NewPHV
  <2>7. QED
    BY <2>3, <2>4, <2>5, <2>6, FactoryIs DEF Carried
<1>6. CASE ResubmitPush
  <2>1. ingress.pkt \in Packets /\ PushInput(ingress.pkt)
    BY <1>6 DEF ResubmitPush, HandsFull
  <2>2. /\ input_buffer' \in Seq(Packets)
        /\ InQueue(input_buffer') = InQueue(input_buffer) \cup {ingress.pkt}
    BY <2>1, PushInputIn
  <2>3. EngineTypeOK'
    BY <1>6, <2>2 DEF ResubmitPush, IngressIdle, EngineTypeOK, IngressThread, configVars, packetVars
  <2>4. HandsFull'
    BY <1>1, <1>2, <1>6 DEF ResubmitPush, IngressIdle, HandsFull, packetVars
  <2>5. InUse' \subseteq InUse
    BY <1>1, <1>6, <2>1, <2>2, InUseIs DEF ResubmitPush, IngressIdle, Inside
  <2>6. QED
    BY <1>6, <2>3, <2>4, <2>5 DEF ResubmitPush, Carried, configVars, packetVars
<1>7. CASE Multicast
  <2>1. PICK ports \in SUBSET Ports :
          /\ copies + Cardinality(ports) <= MaxCopies
          /\ ingress' = [ingress EXCEPT !.stage = "mcast", !.left = ports]
    BY <1>7 DEF Multicast
  <2>2. EngineTypeOK'
    BY <1>7, <2>1 DEF Multicast, EngineTypeOK, IngressThread, configVars, packetVars, queueVars
  <2>3. HandsFull'
    BY <1>7, <2>1 DEF Multicast, HandsFull, EngineTypeOK, IngressThread, packetVars
  <2>4. InUse' \subseteq InUse
    BY <1>7, <2>1, InUseIs DEF Multicast, Inside, EngineTypeOK, IngressThread, queueVars
  <2>5. QED
    BY <1>7, <2>2, <2>3, <2>4 DEF Multicast, Carried, configVars, packetVars
<1>8. CASE Replicate
  <2>1. PICK port \in ingress.left :
          EnqueueCopy(port) /\ ingress' = [ingress EXCEPT !.left = @ \ {port}]
    BY <1>8 DEF Replicate
  <2>2. /\ Cardinality(ingress.left \ {port}) = Cardinality(ingress.left) - 1
        /\ Cardinality(ingress.left) >= 1
    BY <1>1, <2>1, FS_RemoveElement, FS_EmptySet
  <2>3. copies < MaxCopies
    BY <1>1, <2>2 DEF HandsFull
  <2>4. PICK c \in Packets :
          /\ factory' = [factory EXCEPT ![c] = p4objects]
          /\ \A other \in Ports : egress_buffers'[other] \subseteq egress_buffers[other] \cup {c}
    BY <2>1, <2>3, EnqueueCopyIn
  <2>5. /\ copies' = copies + 1 /\ copies' \in 0 .. MaxCopies
        /\ factory' \in [Packets -> 0 .. MaxConfigs]
        /\ egress_buffers' \in [Ports -> SUBSET Packets]
    BY <2>1, <2>3, EnqueueCopyIn
  <2>6. /\ ingress'.left = ingress.left \ {port} /\ ingress'.pkt = ingress.pkt
        /\ ingress'.stage = ingress.stage
        /\ ingress' \in IngressThread
    BY <2>1 DEF EngineTypeOK, IngressThread
  <2>7. EngineTypeOK'
    BY <1>8, <2>5, <2>6 DEF Replicate, EngineTypeOK, IngressThread, configVars
  <2>8. HandsFull'
    <3>1. copies' + Cardinality(ingress'.left) <= MaxCopies
      BY <1>1, <2>2, <2>5, <2>6 DEF HandsFull
    <3>2. QED
      BY <1>8, <2>6, <3>1 DEF Replicate, HandsFull
  <2>9. InUse' \subseteq InUse \cup {c} /\ ingress.pkt \in InUse
    BY <1>1, <1>8, <2>4, <2>6, InUseIs DEF Replicate, Inside, HandsFull
  <2>10. p4objects' = p4objects
    BY <1>8 DEF Replicate, configVars
  <2>11. QED
    BY <2>4, <2>7, <2>8, <2>9, <2>10, FactoryIs DEF Carried
<1>9. CASE IngressDrop
  <2>1. EngineTypeOK'
    BY <1>9 DEF IngressDrop, IngressIdle, EngineTypeOK, IngressThread, configVars, packetVars, queueVars
  <2>2. HandsFull'
    BY <1>1, <1>2, <1>9 DEF IngressDrop, IngressIdle, HandsFull, packetVars
  <2>3. InUse' \subseteq InUse
    BY <1>9, InUseIs DEF IngressDrop, IngressIdle, Inside, queueVars
  <2>4. QED
    BY <1>9, <2>1, <2>2, <2>3 DEF IngressDrop, Carried, configVars, packetVars
<1>10. CASE IngressForward
  <2>1. PICK port \in Ports : Enqueue(ingress.pkt, port)
    BY <1>10 DEF IngressForward
  <2>2. ingress.pkt \in Packets
    BY <1>10 DEF IngressForward, HandsFull
  <2>3. /\ egress_buffers' \in [Ports -> SUBSET Packets]
        /\ \A other \in Ports : egress_buffers'[other] \subseteq egress_buffers[other] \cup {ingress.pkt}
    BY <2>1, <2>2, EnqueueIn
  <2>4. EngineTypeOK'
    BY <1>10, <2>3 DEF IngressForward, IngressIdle, EngineTypeOK, IngressThread, configVars, packetVars
  <2>5. HandsFull'
    BY <1>1, <1>2, <1>10 DEF IngressForward, IngressIdle, HandsFull, packetVars
  <2>6. InUse' \subseteq InUse
    BY <1>10, <2>3, InUseIs DEF IngressForward, IngressIdle, Inside
  <2>7. QED
    BY <1>10, <2>4, <2>5, <2>6 DEF IngressForward, Carried, configVars, packetVars
<1>11. QED
  BY <1>3, <1>4, <1>5, <1>6, <1>7, <1>8, <1>9, <1>10 DEF IngressStep

-----------------------------------------------------------------------------
(* The egress threads. *)
LEMMA EgressKept ==
  ASSUME EngineTypeOK, HandsFull, NEW v \in EgressThreads, EgressStep(v)
  PROVE  EngineTypeOK' /\ HandsFull' /\ Carried
<1> DEFINE Good == EngineTypeOK' /\ HandsFull' /\ Carried
<1> SUFFICES Good
  OBVIOUS
<1>1. /\ Nobody \notin Packets /\ MaxCopies \in Nat /\ copies \in Nat
      /\ Cardinality(ingress.left) \in Nat
  BY Numbers, FS_Subset, FS_CardinalityType DEF EngineTypeOK, IngressThread, Nobody, Packets
<1>2. ASSUME NEW stage \in {"idle", "clone", "route", "recirculate"},
             NEW p \in Packets \cup {Nobody}, EgressAt(v, stage, p)
      PROVE  /\ egress' \in [EgressThreads -> EgressThread]
             /\ egress'[v] = [stage |-> stage, pkt |-> p]
             /\ \A w \in EgressThreads : w # v => egress'[w] = egress[w]
  BY <1>2 DEF EgressAt, EngineTypeOK, EgressThread
<1>3. CASE EgressTake(v)
  <2>1. PICK port \in Ports : \E p \in egress_buffers[port] :
          /\ egress_buffers' = [egress_buffers EXCEPT ![port] = @ \ {p}]
          /\ EgressAt(v, "clone", p)
    BY <1>3 DEF EgressTake
  <2>2. PICK p \in egress_buffers[port] :
          /\ egress_buffers' = [egress_buffers EXCEPT ![port] = @ \ {p}]
          /\ EgressAt(v, "clone", p)
    BY <2>1
  <2>3. /\ egress_buffers \in [Ports -> SUBSET Packets] /\ p \in Packets
        /\ egress_buffers' \in [Ports -> SUBSET Packets]
        /\ \A other \in Ports : egress_buffers'[other] \subseteq egress_buffers[other]
    BY <2>2 DEF EngineTypeOK
  <2>4. /\ egress' \in [EgressThreads -> EgressThread]
        /\ egress'[v] = [stage |-> "clone", pkt |-> p]
        /\ \A w \in EgressThreads : w # v => egress'[w] = egress[w]
    BY <1>2, <2>2, <2>3
  <2>5. EngineTypeOK'
    BY <1>3, <2>3, <2>4 DEF EgressTake, EngineTypeOK, configVars, packetVars
  <2>6. HandsFull'
    BY <1>3, <2>3, <2>4 DEF EgressTake, HandsFull, packetVars
  <2>7. InUse' \subseteq InUse
    BY <1>3, <2>2, <2>3, <2>4, InUseIs DEF EgressTake, Inside
  <2>8. QED
    BY <1>3, <2>5, <2>6, <2>7 DEF EgressTake, Carried, configVars, packetVars
<1>4. CASE EgressClone(v)
  <2>1. egress[v].pkt \in Packets /\ EgressAt(v, "route", egress[v].pkt)
    BY <1>4 DEF EgressClone, HandsFull
  <2>2. /\ egress' \in [EgressThreads -> EgressThread]
        /\ egress'[v] = [stage |-> "route", pkt |-> egress[v].pkt]
        /\ \A w \in EgressThreads : w # v => egress'[w] = egress[w]
    BY <1>2, <2>1
  <2>3. CASE UNCHANGED <<copies, factory, egress_buffers>>
    <3>1. EngineTypeOK'
      BY <1>4, <2>2, <2>3 DEF EgressClone, EngineTypeOK, configVars
    <3>2. HandsFull'
      BY <1>4, <2>1, <2>2, <2>3 DEF EgressClone, HandsFull
    <3>3. InUse' \subseteq InUse
      BY <1>4, <2>1, <2>2, <2>3, InUseIs DEF EgressClone, Inside
    <3>4. QED
      BY <1>4, <2>3, <3>1, <3>2, <3>3 DEF EgressClone, Carried, configVars
  <2>4. ASSUME NEW port \in Ports, MayClone, EnqueueCopy(port) PROVE Good
    <3>1. copies < MaxCopies /\ copies + 1 + Cardinality(ingress.left) <= MaxCopies
      BY <1>1, <2>4 DEF MayClone
    <3>2. PICK c \in Packets :
            /\ factory' = [factory EXCEPT ![c] = p4objects]
            /\ \A other \in Ports : egress_buffers'[other] \subseteq egress_buffers[other] \cup {c}
      BY <2>4, <3>1, EnqueueCopyIn
    <3>3. /\ copies' = copies + 1 /\ copies' \in 0 .. MaxCopies
          /\ factory' \in [Packets -> 0 .. MaxConfigs]
          /\ egress_buffers' \in [Ports -> SUBSET Packets]
      BY <2>4, <3>1, EnqueueCopyIn
    <3>4. EngineTypeOK'
      BY <1>4, <2>2, <3>3 DEF EgressClone, EngineTypeOK, configVars
    <3>5. HandsFull'
      BY <1>4, <2>1, <2>2, <3>1, <3>3 DEF EgressClone, HandsFull
    <3>6. InUse' \subseteq InUse \cup {c} /\ egress[v].pkt \in InUse
      BY <1>1, <1>4, <2>1, <2>2, <3>2, InUseIs DEF EgressClone, Inside
    <3>7. p4objects' = p4objects
      BY <1>4 DEF EgressClone, configVars
    <3>8. QED
      BY <3>2, <3>4, <3>5, <3>6, <3>7, FactoryIs DEF Carried
  <2>5. QED
    BY <1>4, <2>3, <2>4 DEF EgressClone
<1>5. CASE EgressDrop(v)
  <2>1. /\ egress' \in [EgressThreads -> EgressThread]
        /\ egress'[v] = [stage |-> "idle", pkt |-> Nobody]
        /\ \A w \in EgressThreads : w # v => egress'[w] = egress[w]
    BY <1>2, <1>5 DEF EgressDrop
  <2>2. EngineTypeOK'
    BY <1>5, <2>1 DEF EgressDrop, EngineTypeOK, configVars, packetVars, queueVars
  <2>3. HandsFull'
    BY <1>5, <2>1 DEF EgressDrop, HandsFull, packetVars
  <2>4. InUse' \subseteq InUse
    BY <1>5, <2>1, InUseIs DEF EgressDrop, Inside, queueVars
  <2>5. QED
    BY <1>5, <2>2, <2>3, <2>4 DEF EgressDrop, Carried, configVars, packetVars
<1>6. CASE Recirculate(v)
  <2>1. egress[v].pkt \in Packets
    BY <1>6 DEF Recirculate, HandsFull
  <2>2. /\ egress' \in [EgressThreads -> EgressThread]
        /\ egress'[v] = [stage |-> "recirculate", pkt |-> egress[v].pkt]
        /\ \A w \in EgressThreads : w # v => egress'[w] = egress[w]
    BY <1>2, <1>6, <2>1 DEF Recirculate
  <2>3. factory' \in [Packets -> 0 .. MaxConfigs]
    BY <1>6, FactoryKept DEF Recirculate
  <2>4. factory' = [factory EXCEPT ![egress[v].pkt] = p4objects]
    BY <1>6 DEF Recirculate, NewPHV
  <2>5. EngineTypeOK'
    BY <1>6, <2>2, <2>3 DEF Recirculate, EngineTypeOK, configVars, queueVars
  <2>6. HandsFull'
    BY <1>6, <2>1, <2>2 DEF Recirculate, HandsFull
  <2>7. InUse' \subseteq InUse /\ p4objects' = p4objects
    BY <1>6, <2>1, <2>2, InUseIs DEF Recirculate, Inside, configVars, queueVars
  <2>8. QED
    BY <2>1, <2>4, <2>5, <2>6, <2>7, FactoryIs DEF Carried
<1>7. CASE RecirculatePush(v)
  <2>1. egress[v].pkt \in Packets /\ PushInput(egress[v].pkt)
    BY <1>7 DEF RecirculatePush, HandsFull
  <2>2. /\ input_buffer' \in Seq(Packets)
        /\ InQueue(input_buffer') = InQueue(input_buffer) \cup {egress[v].pkt}
    BY <2>1, PushInputIn
  <2>3. /\ egress' \in [EgressThreads -> EgressThread]
        /\ egress'[v] = [stage |-> "idle", pkt |-> Nobody]
        /\ \A w \in EgressThreads : w # v => egress'[w] = egress[w]
    BY <1>2, <1>7 DEF RecirculatePush
  <2>4. EngineTypeOK'
    BY <1>7, <2>2, <2>3 DEF RecirculatePush, EngineTypeOK, configVars, packetVars
  <2>5. HandsFull'
    BY <1>7, <2>3 DEF RecirculatePush, HandsFull, packetVars
  <2>6. InUse' \subseteq InUse
    BY <1>7, <2>1, <2>2, <2>3, InUseIs DEF RecirculatePush, Inside
  <2>7. QED
    BY <1>7, <2>4, <2>5, <2>6 DEF RecirculatePush, Carried, configVars, packetVars
<1>8. CASE EgressOut(v)
  <2>1. egress[v].pkt \in Packets /\ output_buffer' = Append(output_buffer, egress[v].pkt)
    BY <1>8 DEF EgressOut, HandsFull
  <2>2. /\ output_buffer' \in Seq(Packets)
        /\ InQueue(output_buffer') = InQueue(output_buffer) \cup {egress[v].pkt}
    BY <2>1, AppendIn DEF EngineTypeOK
  <2>3. /\ egress' \in [EgressThreads -> EgressThread]
        /\ egress'[v] = [stage |-> "idle", pkt |-> Nobody]
        /\ \A w \in EgressThreads : w # v => egress'[w] = egress[w]
    BY <1>2, <1>8 DEF EgressOut
  <2>4. EngineTypeOK'
    BY <1>8, <2>2, <2>3 DEF EgressOut, EngineTypeOK, configVars, packetVars
  <2>5. HandsFull'
    BY <1>8, <2>3 DEF EgressOut, HandsFull, packetVars
  <2>6. InUse' \subseteq InUse
    BY <1>8, <2>1, <2>2, <2>3, InUseIs DEF EgressOut, Inside
  <2>7. QED
    BY <1>8, <2>4, <2>5, <2>6 DEF EgressOut, Carried, configVars, packetVars
<1>9. QED
  BY <1>3, <1>4, <1>5, <1>6, <1>7, <1>8 DEF EgressStep

-----------------------------------------------------------------------------
(* The transmitting thread, and the receiving one without a swap.          *)
LEMMA PortsKept ==
  ASSUME EngineTypeOK, HandsFull, TransmitTake \/ Transmit \/ Receive \/ RxPush
  PROVE  EngineTypeOK' /\ HandsFull' /\ Carried
<1>1. CASE TransmitTake
  <2>1. /\ Head(output_buffer) \in Packets /\ output_buffer' \in Seq(Packets)
        /\ Head(output_buffer) \in InQueue(output_buffer)
        /\ InQueue(output_buffer') \subseteq InQueue(output_buffer)
    BY <1>1, TailIn DEF TransmitTake, EngineTypeOK
  <2>2. EngineTypeOK'
    BY <1>1, <2>1 DEF TransmitTake, EngineTypeOK, configVars, packetVars
  <2>3. HandsFull'
    BY <1>1 DEF TransmitTake, HandsFull, packetVars
  <2>4. InUse' \subseteq InUse
    BY <1>1, <2>1, InUseIs DEF TransmitTake, Inside
  <2>5. QED
    BY <1>1, <2>2, <2>3, <2>4 DEF TransmitTake, Carried, configVars, packetVars
<1>2. CASE Transmit
  <2>1. EngineTypeOK' /\ HandsFull'
    BY <1>2 DEF Transmit, EngineTypeOK, HandsFull, configVars, packetVars, queueVars
  <2>2. InUse' \subseteq InUse
    BY <1>2, InUseIs DEF Transmit, Inside, queueVars
  <2>3. QED
    BY <1>2, <2>1, <2>2 DEF Transmit, Carried, configVars, packetVars
<1>3. CASE Receive
  <2>1. /\ received' = received + 1 /\ received' \in 0 .. MaxReceived
        /\ rx'.stage \in {"lock", "new"} /\ rx'.pkt = rx.pkt
        /\ rx' \in RxThread
    <3>1. received \in 0 .. MaxReceived /\ rx \in RxThread
      BY DEF EngineTypeOK
    <3>2. received < MaxReceived /\ received' = received + 1
      BY <1>3 DEF Receive
    <3>3. PICK stage \in {"lock", "new"} : rx' = [rx EXCEPT !.stage = stage]
      BY <1>3 DEF Receive, RxAt
    <3>4. rx' \in RxThread /\ rx'.stage = stage /\ rx'.pkt = rx.pkt
      BY <3>1, <3>3 DEF RxThread
    <3>5. QED
      BY <3>1, <3>2, <3>4, Numbers
  <2>2. EngineTypeOK'
    BY <1>3, <2>1 DEF Receive, EngineTypeOK, configVars, queueVars
  <2>3. HandsFull'
    BY <1>3, <2>1 DEF Receive, HandsFull, EngineTypeOK
  <2>4. InUse' \subseteq InUse
    BY <1>3, <2>1, InUseIs DEF Receive, Inside, queueVars
  <2>5. QED
    BY <1>3, <2>2, <2>3, <2>4 DEF Receive, Carried, configVars
<1>4. CASE RxPush
  <2>1. rx.pkt \in Packets /\ PushInput(rx.pkt)
    BY <1>4 DEF RxPush, HandsFull
  <2>2. /\ input_buffer' \in Seq(Packets)
        /\ InQueue(input_buffer') = InQueue(input_buffer) \cup {rx.pkt}
    BY <2>1, PushInputIn
  <2>3. EngineTypeOK'
    BY <1>4, <2>2 DEF RxPush, EngineTypeOK, RxThread, configVars, packetVars
  <2>4. HandsFull'
    BY <1>4 DEF RxPush, HandsFull, packetVars
  <2>5. InUse' \subseteq InUse
    BY <1>4, <2>1, <2>2, InUseIs DEF RxPush, Inside
  <2>6. QED
    BY <1>4, <2>3, <2>4, <2>5 DEF RxPush, Carried, configVars, packetVars
<1>5. QED
  BY <1>1, <1>2, <1>3, <1>4

-----------------------------------------------------------------------------
(* The other steps are about the swap.                                     *)
ConfigStep ==
  \/ RxLocks \/ RxDrained \/ RxSwaps \/ NewPacket
  \/ \E c \in Clients : LoadNewConfig(c) \/ OrderSwap(c) \/ ClientStep(c)
PacketStep ==
  \/ IngressStep \/ (\E w \in EgressThreads : EgressStep(w))
  \/ TransmitTake \/ Transmit \/ Receive \/ RxPush

(* The steps that move packets keep the invariant. *)
LEMMA PacketStepKept ==
  ASSUME EngineInv, PacketStep
  PROVE  EngineInv'
<1>1. EngineTypeOK' /\ HandsFull' /\ Carried
  BY IngressKept, EgressKept, PortsKept DEF PacketStep, EngineInv
<1>2. /\ UNCHANGED <<p4objects_rt, swapper, client, asked, swap_ordered>>
      /\ p4objects' = p4objects
  BY DEF PacketStep, IngressStep, IngressTake, IngressClone, Resubmit, ResubmitPush,
         Multicast, Replicate, IngressDrop, IngressForward, EgressStep, EgressTake,
         EgressClone, EgressDrop, Recirculate, RecirculatePush, EgressOut,
         TransmitTake, Transmit, Receive, RxPush, configVars
<1>3. rx \in RxThread
  BY DEF EngineInv, EngineTypeOK
<1>4. /\ rx'.stage \in {"spin", "swap"} <=> rx.stage \in {"spin", "swap"}
      /\ rx'.stage = "swap" <=> rx.stage = "swap"
  <2>1. CASE Receive
    BY <1>3, <2>1 DEF Receive, RxAt, RxThread
  <2>2. CASE RxPush
    BY <2>2 DEF RxPush
  <2>3. CASE ~ Receive /\ ~ RxPush
    <3>1. rx' = rx
      BY <2>3 DEF PacketStep, IngressStep, IngressTake, IngressClone, Resubmit, ResubmitPush,
             Multicast, Replicate, IngressDrop, IngressForward, EgressStep, EgressTake,
             EgressClone, EgressDrop, Recirculate, RecirculatePush, EgressOut,
             TransmitTake, Transmit
    <3>2. QED
      BY <3>1
  <2>4. QED
    BY <2>1, <2>2, <2>3
<1>5. SwapLock' /\ Asked' /\ AskedIsRunning'
  BY <1>2, <1>4 DEF EngineInv, SwapLock, Asked, AskedIsRunning
<1>6. SwapEmpty'
  BY <1>1, <1>2, <1>4 DEF EngineInv, SwapEmpty, Carried
<1>7. OneConfig'
  BY <1>1 DEF EngineInv, OneConfig, Carried
<1>8. QED
  BY <1>1, <1>5, <1>6, <1>7 DEF EngineInv

(* A swap: nobody is inside, so nobody is left with the old headers.       *)
LEMMA SwapInKept ==
  ASSUME EngineInv, SwapIn, p4objects_rt' = p4objects_rt, asked' = asked
  PROVE  Asked' /\ AskedIsRunning'
<1>1. /\ p4objects_rt \in Nat /\ p4objects \in Nat
      /\ \A c \in Clients : asked[c] \in Nat
  BY Numbers DEF EngineInv, EngineTypeOK
<1>2. QED
  BY <1>1 DEF EngineInv, SwapIn, Asked, AskedIsRunning

(* The steps that load, order and make a swap keep the invariant. *)
LEMMA ConfigStepKept ==
  ASSUME EngineInv, ConfigStep
  PROVE  EngineInv'
<1> USE DEF EngineInv
<1>1. /\ rx \in RxThread /\ client \in [Clients -> ClientStage] /\ received \in 0 .. MaxReceived
      /\ p4objects \in 1 .. MaxConfigs /\ p4objects_rt \in 1 .. MaxConfigs
      /\ asked \in [Clients -> 1 .. MaxConfigs] /\ swapper \in Clients \cup {"rx", "none"}
  BY DEF EngineTypeOK
<1>2. CASE RxLocks
  <2>1. PICK stage \in {"spin", "new"} :
          /\ rx' = [rx EXCEPT !.stage = stage]
          /\ swapper' = IF stage = "spin" THEN "rx" ELSE swapper
    BY <1>2 DEF RxLocks, RxAt
  <2>2. rx' \in RxThread /\ rx'.stage = stage /\ rx'.pkt = rx.pkt
    BY <1>1, <2>1 DEF RxThread
  <2>3. EngineTypeOK' /\ HandsFull'
    BY <1>2, <2>1, <2>2 DEF RxLocks, EngineTypeOK, HandsFull, packetVars, queueVars
  <2>4. SwapLock' /\ Asked' /\ AskedIsRunning'
    BY <1>2, <2>1, <2>2, Numbers DEF RxLocks, SwapLock, Asked, AskedIsRunning
  <2>5. InUse' \subseteq InUse
    BY <1>2, <2>2, InUseIs DEF RxLocks, Inside, queueVars
  <2>6. SwapEmpty' /\ OneConfig'
    BY <1>2, <2>2, <2>5 DEF RxLocks, SwapEmpty, OneConfig, packetVars
  <2>7. QED
    BY <2>3, <2>4, <2>6
<1>3. CASE RxDrained
  <2>1. rx' \in RxThread /\ rx'.stage = "swap" /\ rx'.pkt = rx.pkt
    BY <1>1, <1>3 DEF RxDrained, RxAt, RxThread
  <2>2. EngineTypeOK' /\ HandsFull'
    BY <1>3, <2>1 DEF RxDrained, EngineTypeOK, HandsFull, packetVars, queueVars, configVars
  <2>3. SwapLock' /\ Asked' /\ AskedIsRunning'
    BY <1>3, <2>1 DEF RxDrained, SwapLock, Asked, AskedIsRunning, configVars
  <2>4. InUse' \subseteq InUse
    BY <1>3, <2>1, InUseIs DEF RxDrained, Inside, queueVars
  <2>5. SwapEmpty' /\ OneConfig'
    BY <1>3, <2>4 DEF RxDrained, Drained, SwapEmpty, OneConfig, packetVars, configVars
  <2>6. QED
    BY <2>2, <2>3, <2>5
<1>4. CASE RxSwaps
  <2>1. rx' \in RxThread /\ rx'.stage = "new" /\ rx'.pkt = rx.pkt
    BY <1>1, <1>4 DEF RxSwaps, RxAt, RxThread
  <2>2. p4objects' = p4objects_rt /\ swap_ordered' = FALSE /\ swapper' = "none"
    BY <1>4 DEF RxSwaps, SwapIn
  <2>3. EngineTypeOK' /\ HandsFull'
    BY <1>1, <1>4, <2>1, <2>2 DEF RxSwaps, EngineTypeOK, HandsFull, packetVars, queueVars
  <2>4. SwapLock'
    BY <1>4, <2>1, <2>2, Numbers DEF RxSwaps, SwapLock
  <2>5. Asked' /\ AskedIsRunning'
    <3>1. SwapIn /\ p4objects_rt' = p4objects_rt /\ asked' = asked
      BY <1>4 DEF RxSwaps
    <3>2. QED
      BY <3>1, SwapInKept
  <2>6. InUse' = {}
    <3>1. InUse' \subseteq InUse
      BY <1>4, <2>1, InUseIs DEF RxSwaps, Inside, queueVars
    <3>2. QED
      BY <1>4, <3>1 DEF RxSwaps, SwapEmpty
  <2>7. QED
    BY <2>3, <2>4, <2>5, <2>6 DEF SwapEmpty, OneConfig
<1>5. CASE NewPacket
  <2>1. received \in Packets /\ rx.stage = "new" /\ rx' = [stage |-> "push", pkt |-> received]
    BY <1>1, <1>5, Numbers DEF NewPacket, HandsFull, Packets
  <2>2. rx' \in RxThread
    BY <2>1 DEF RxThread
  <2>3. factory' \in [Packets -> 0 .. MaxConfigs]
    BY <1>5, FactoryKept DEF NewPacket
  <2>4. EngineTypeOK' /\ HandsFull'
    BY <1>5, <2>1, <2>2, <2>3 DEF NewPacket, EngineTypeOK, HandsFull, queueVars, configVars
  <2>5. SwapLock' /\ Asked' /\ AskedIsRunning'
    BY <1>5, <2>1 DEF NewPacket, SwapLock, Asked, AskedIsRunning, configVars
  <2>6. SwapEmpty'
    <3>1. swapper = "none" /\ client' = client
      BY <1>5 DEF NewPacket, configVars
    <3>2. \A c \in Clients : client[c] # "swap"
      BY <3>1, Numbers DEF SwapLock
    <3>3. QED
      BY <2>1, <3>1, <3>2 DEF SwapEmpty
  <2>7. InUse' \subseteq InUse \cup {received}
    BY <1>5, <2>1, InUseIs DEF NewPacket, Inside, queueVars
  <2>8. factory' = [factory EXCEPT ![received] = p4objects] /\ p4objects' = p4objects
    BY <1>5 DEF NewPacket, NewPHV, configVars
  <2>9. OneConfig'
    BY <2>1, <2>7, <2>8, FactoryIs DEF OneConfig
  <2>10. QED
    BY <2>4, <2>5, <2>6, <2>9
<1>6. ASSUME NEW c \in Clients, LoadNewConfig(c) \/ OrderSwap(c) \/ ClientStep(c) PROVE EngineInv'
  <2>1. /\ UNCHANGED <<packetVars, queueVars, threadVars>>
        /\ p4objects' = p4objects \/ ClientSwaps(c)
    BY <1>6 DEF LoadNewConfig, OrderSwap, ClientStep, LockConfig, ClientFinds, ClientLocks,
                ClientAborts, ClientDrained, ClientSwaps
  <2>2. InUse' = InUse /\ HandsFull'
    BY <2>1 DEF InUse, HandsFull, packetVars, queueVars, threadVars
  <2>3. EngineTypeOK'
    <3>1. /\ client' \in [Clients -> ClientStage] /\ asked' \in [Clients -> 1 .. MaxConfigs]
          /\ p4objects' \in 1 .. MaxConfigs /\ p4objects_rt' \in 1 .. MaxConfigs
          /\ swap_ordered' \in BOOLEAN /\ aborted' \in BOOLEAN
          /\ swapper' \in Clients \cup {"rx", "none"} /\ configLock' \in Clients \cup {"none"}
      <4>1. swap_ordered \in BOOLEAN /\ aborted \in BOOLEAN /\ configLock \in Clients \cup {"none"}
        BY DEF EngineTypeOK
      <4>2. \A stage \in ClientStage : [client EXCEPT ![c] = stage] \in [Clients -> ClientStage]
        BY <1>1
      <4>3. {"ordered", "check", "lock", "spin", "swap", "idle", "aborted"} \subseteq ClientStage
        BY DEF ClientStage
      <4>4. CASE LoadNewConfig(c)
        <5>1. p4objects_rt + 1 \in 1 .. MaxConfigs
          BY <1>1, <4>4, Numbers DEF LoadNewConfig
        <5>2. QED
          BY <1>1, <4>1, <4>4, <5>1 DEF LoadNewConfig
      <4>5. CASE OrderSwap(c)
        BY <1>1, <4>1, <4>2, <4>3, <4>5 DEF OrderSwap
      <4>6. CASE LockConfig(c)
        BY <1>1, <4>1, <4>2, <4>3, <4>6 DEF LockConfig
      <4>7. CASE ClientFinds(c) \/ ClientDrained(c) \/ ClientAborts(c)
        BY <1>1, <4>1, <4>2, <4>3, <4>7 DEF ClientFinds, ClientDrained, ClientAborts
      <4>8. CASE ClientLocks(c)
        BY <1>1, <4>1, <4>2, <4>3, <4>8 DEF ClientLocks
      <4>9. CASE ClientSwaps(c)
        BY <1>1, <4>1, <4>2, <4>3, <4>9 DEF ClientSwaps, SwapIn
      <4>10. QED
        BY <1>6, <4>4, <4>5, <4>6, <4>7, <4>8, <4>9 DEF ClientStep
    <3>2. QED
      BY <2>1, <3>1 DEF EngineTypeOK, packetVars, queueVars, threadVars
  <2>4. SwapLock'
    BY <1>1, <1>6, <2>1, Numbers
    DEF LoadNewConfig, OrderSwap, ClientStep, LockConfig, ClientFinds, ClientLocks,
        ClientAborts, ClientDrained, ClientSwaps, SwapLock, threadVars
  <2>5. Asked' /\ AskedIsRunning'
    <3>1. CASE ClientSwaps(c)
      <4>1. SwapIn /\ p4objects_rt' = p4objects_rt /\ asked' = asked
        BY <3>1 DEF ClientSwaps
      <4>2. QED
        BY <4>1, SwapInKept
    <3>2. CASE ~ ClientSwaps(c)
      BY <1>1, <1>6, <3>2
      DEF LoadNewConfig, OrderSwap, ClientStep, LockConfig, ClientFinds, ClientLocks,
          ClientAborts, ClientDrained, Asked, AskedIsRunning
    <3>3. QED
      BY <3>1, <3>2
  <2>6. SwapEmpty'
    BY <1>1, <1>6, <2>1, <2>2
    DEF LoadNewConfig, OrderSwap, ClientStep, LockConfig, ClientFinds, ClientLocks,
        ClientAborts, ClientDrained, ClientSwaps, SwapEmpty, Drained, threadVars
  <2>7. OneConfig'
    <3>1. CASE ClientSwaps(c)
      BY <2>2, <3>1 DEF ClientSwaps, SwapEmpty, OneConfig
    <3>2. CASE p4objects' = p4objects
      BY <2>1, <2>2, <3>2 DEF OneConfig, packetVars
    <3>3. QED
      BY <2>1, <3>1, <3>2
  <2>8. QED
    BY <2>2, <2>3, <2>4, <2>5, <2>6, <2>7
<1>7. QED
  BY <1>2, <1>3, <1>4, <1>5, <1>6 DEF ConfigStep

(* The invariant holds at the start. *)
LEMMA EngineInvInit ==
  ASSUME EngineInit
  PROVE  EngineInv
<1>1. <<>> \in Seq(Packets) /\ InQueue(<<>>) = {}
  BY DEF InQueue
<1>2. Cardinality({}) = 0
  BY FS_EmptySet
<1>3. EngineTypeOK
  <2>1. rx \in RxThread /\ ingress \in IngressThread
    BY DEF EngineInit, RxThread, IngressThread
  <2>2. egress \in [EgressThreads -> EgressThread]
    BY DEF EngineInit, EgressThread
  <2>3. client \in [Clients -> ClientStage] /\ asked \in [Clients -> 1 .. MaxConfigs]
    BY Numbers DEF EngineInit, ClientStage
  <2>4. /\ received \in 0 .. MaxReceived /\ copies \in 0 .. MaxCopies
        /\ factory \in [Packets -> 0 .. MaxConfigs]
        /\ p4objects \in 1 .. MaxConfigs /\ p4objects_rt \in 1 .. MaxConfigs
    BY Numbers DEF EngineInit
  <2>5. egress_buffers \in [Ports -> SUBSET Packets]
    BY <1>1 DEF EngineInit
  <2>6. QED
    BY <1>1, <2>1, <2>2, <2>3, <2>4, <2>5 DEF EngineInit, EngineTypeOK
<1>4. InUse = {}
  BY <1>1, InUseIs DEF EngineInit, Inside
<1>5. HandsFull
  BY <1>2, Numbers DEF EngineInit, HandsFull
<1>6. QED
  BY <1>3, <1>4, <1>5, Numbers
  DEF EngineInit, EngineInv, SwapLock, SwapEmpty, Asked, OneConfig, AskedIsRunning

(* The inductive invariant of the engine, whatever the P4 program asks for *)
(* its packets and whenever clients load and swap configurations           *)
(* (simple_switch.cpp, switch.cpp).                                        *)
THEOREM EngineInvariant == EngineSpec => []EngineInv
<1>1. EngineInv /\ [EngineNext]_engineVars => EngineInv'
  <2> SUFFICES ASSUME EngineInv, [EngineNext]_engineVars PROVE EngineInv'
    OBVIOUS
  <2>1. CASE UNCHANGED engineVars
    <3>1. InUse' = InUse
      BY <2>1 DEF engineVars, queueVars, threadVars, InUse
    <3>2. QED
      BY <2>1, <3>1 DEF EngineInv, engineVars, packetVars, queueVars, threadVars, configVars,
                   EngineTypeOK, HandsFull, SwapLock, SwapEmpty, Asked, OneConfig, AskedIsRunning
  <2>2. CASE EngineNext
    <3>1. PacketStep \/ ConfigStep
      BY <2>2 DEF EngineNext, PacketStep, ConfigStep, RxStep
    <3>2. QED
      BY <3>1, PacketStepKept, ConfigStepKept
  <2>3. QED
    BY <2>1, <2>2
<1>2. QED
  BY <1>1, EngineInvInit, PTL DEF EngineSpec

(* Every packet inside, copies included, belongs to the one configuration  *)
(* the switch is running (switch.cpp:398-411, phv_source.cpp:45-66).       *)
THEOREM PacketsKeepTheirConfig == EngineSpec => []OneConfig
<1>1. EngineInv => OneConfig
  BY DEF EngineInv
<1>2. QED
  BY <1>1, EngineInvariant, PTL

(* A call of swap_configs that ends has its configuration running, whoever *)
(* of the receiving thread and the other clients did the work              *)
(* (switch.cpp:310-324).                                                   *)
THEOREM SwapDoesWhatWasAsked == EngineSpec => []AskedIsRunning
<1>1. EngineInv => AskedIsRunning
  BY DEF EngineInv
<1>2. QED
  BY <1>1, EngineInvariant, PTL

=============================================================================
