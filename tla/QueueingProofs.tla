--------------------------- MODULE QueueingProofs ---------------------------
(***************************************************************************)
(* Proofs about Queueing for any queues, workers, priorities, capacities   *)
(* and delays, and a clock set back any number of times.                   *)
(***************************************************************************)
EXTENDS Queueing, FiniteSetTheorems, TLAPS

QueueingTypes ==
    /\ now \in Nat /\ pushed \in Nat
    /\ waiting \in [Queue -> [Priority -> SUBSET Element]]
    /\ out \in [Queue -> [Priority -> Seq(Element)]]
    /\ delay \in [Queue -> [Priority -> Nat]] /\ lastSent \in [Queue -> [Priority -> Nat]]

\* In one priority of a queue the send times do not decrease with the ids.
InOrder ==
    \A q \in Queue, p \in Priority :
        /\ \A e \in waiting[q][p] : e.id < pushed /\ e.send <= lastSent[q][p]
        /\ \A e, f \in waiting[q][p] : e.id <= f.id => e = f \/ (e.id < f.id /\ e.send <= f.send)
        /\ \A i \in DOMAIN out[q][p] : out[q][p][i].id < pushed

QueueingInv == QueueingTypes /\ InOrder /\ FifoUnlessTie

\* What the assumption says of the constants.
LEMMA QueueingNumbers ==
    /\ \A q \in Queue : MapToWorker[q] \in Worker
    /\ \A d \in Delays : d \in Nat
    /\ Targets \subseteq SUBSET Priority
BY QueueingAssumption DEF Targets

\* The greater of two numbers is one that neither exceeds.
LEMMA MaxOfTwo ==
    ASSUME NEW a \in Nat, NEW b \in Nat
    PROVE  Max({a, b}) \in Nat /\ Max({a, b}) >= a /\ Max({a, b}) >= b
<1>1. \E x \in {a, b} : \A y \in {a, b} : x >= y
  OBVIOUS
<1>2. Max({a, b}) \in {a, b} /\ \A y \in {a, b} : Max({a, b}) >= y
  BY <1>1 DEF Max
<1>3. QED
  BY <1>2

\* The elements are kept apart by queue and priority: a step that changes one
\* of them leaves the others as they are.
LEMMA Elsewhere ==
    ASSUME NEW S, NEW f \in [Queue -> [Priority -> S]], NEW q \in Queue, NEW p \in Priority,
           NEW v, NEW g, g = [f EXCEPT ![q][p] = v]
    PROVE  /\ g[q][p] = v
           /\ \A r \in Queue, s \in Priority : r # q \/ s # p => g[r][s] = f[r][s]
           /\ v \in S => g \in [Queue -> [Priority -> S]]
OBVIOUS

-----------------------------------------------------------------------------
\* A push, accepted or dropped, keeps the invariant: GetNextTp is never below the last time
\* sent.
LEMMA PushKept ==
    ASSUME QueueingInv, NEW q \in Queue, NEW p \in Priority, Push(q, p)
    PROVE  QueueingInv'
<1> DEFINE send == GetNextTp(q, p)
           new == [id |-> pushed, send |-> send]
<1>1. /\ now \in Nat /\ pushed \in Nat /\ lastSent[q][p] \in Nat /\ delay[q][p] \in Nat
      /\ waiting \in [Queue -> [Priority -> SUBSET Element]]
      /\ lastSent \in [Queue -> [Priority -> Nat]]
  BY DEF QueueingInv, QueueingTypes
<1>2. send \in Nat /\ send >= lastSent[q][p]
  BY <1>1, MaxOfTwo DEF GetNextTp
<1>3. /\ pushed' = pushed + 1 /\ UNCHANGED <<now, delay, out>>
      /\ lastSent' = [lastSent EXCEPT ![q][p] = send]
      /\ waiting' = [waiting EXCEPT ![q][p] = waiting[q][p] \union {new}]
  BY DEF Push, limits
<1> HIDE DEF send
<1>4. new \in Element /\ waiting[q][p] \union {new} \in SUBSET Element
  BY <1>1, <1>2 DEF Element
<1>5. /\ waiting'[q][p] = waiting[q][p] \union {new} /\ lastSent'[q][p] = send
      /\ \A r \in Queue, s \in Priority : r # q \/ s # p =>
            waiting'[r][s] = waiting[r][s] /\ lastSent'[r][s] = lastSent[r][s]
      /\ waiting' \in [Queue -> [Priority -> SUBSET Element]]
      /\ lastSent' \in [Queue -> [Priority -> Nat]]
  BY <1>1, <1>2, <1>3, <1>4, Elsewhere
<1>6. QueueingTypes'
  BY <1>1, <1>3, <1>5 DEF QueueingInv, QueueingTypes
<1>7. \A r \in Queue, s \in Priority :
        /\ \A e \in waiting[r][s] : /\ e.id \in Nat /\ e.send \in Nat /\ e.id < pushed
                                    /\ e.send <= lastSent[r][s]
        /\ lastSent[r][s] \in Nat
        /\ out[r][s] \in Seq(Element)
        /\ \A i \in DOMAIN out[r][s] : out[r][s][i].id \in Nat /\ out[r][s][i].id < pushed
  <2> SUFFICES ASSUME NEW r \in Queue, NEW s \in Priority
               PROVE  /\ \A e \in waiting[r][s] : /\ e.id \in Nat /\ e.send \in Nat /\ e.id < pushed
                                                  /\ e.send <= lastSent[r][s]
                      /\ lastSent[r][s] \in Nat
                      /\ out[r][s] \in Seq(Element)
                      /\ \A i \in DOMAIN out[r][s] : out[r][s][i].id \in Nat /\ out[r][s][i].id < pushed
    OBVIOUS
  <2>1. waiting[r][s] \subseteq Element /\ out[r][s] \in Seq(Element) /\ lastSent[r][s] \in Nat
    BY DEF QueueingInv, QueueingTypes
  <2>2. \A i \in DOMAIN out[r][s] : out[r][s][i] \in Element
    BY <2>1
  <2>3. /\ \A e \in waiting[r][s] : e.id < pushed /\ e.send <= lastSent[r][s]
        /\ \A i \in DOMAIN out[r][s] : out[r][s][i].id < pushed
    BY DEF QueueingInv, InOrder
  <2>4. \A e \in Element : e.id \in Nat /\ e.send \in Nat
    BY DEF Element
  <2>5. QED
    BY <2>1, <2>2, <2>3, <2>4
<1>8. InOrder'
  <2> SUFFICES ASSUME NEW r \in Queue, NEW s \in Priority
               PROVE  /\ \A e \in waiting'[r][s] : e.id < pushed' /\ e.send <= lastSent'[r][s]
                      /\ \A e, f \in waiting'[r][s] :
                            e.id <= f.id => e = f \/ (e.id < f.id /\ e.send <= f.send)
                      /\ \A i \in DOMAIN out'[r][s] : out'[r][s][i].id < pushed'
    BY DEF InOrder
  <2>1. /\ \A e \in waiting[r][s] : e.id < pushed' /\ e.send <= lastSent[r][s]
        /\ \A e, f \in waiting[r][s] : e.id <= f.id => e = f \/ (e.id < f.id /\ e.send <= f.send)
        /\ \A i \in DOMAIN out'[r][s] : out'[r][s][i].id < pushed'
    BY <1>1, <1>3, <1>7 DEF QueueingInv, InOrder
  <2>2. CASE r # q \/ s # p
    BY <1>5, <2>1, <2>2
  <2>3. CASE r = q /\ s = p
    <3>1. new.id = pushed /\ new.send = send /\ pushed < pushed'
      BY <1>1, <1>3
    <3>2. \A e \in waiting[q][p] : e.send <= send
      BY <1>1, <1>2, <1>7
    <3>3. QED
      BY <1>1, <1>2, <1>5, <1>7, <2>1, <2>3, <3>1, <3>2
  <2>4. QED
    BY <2>2, <2>3
<1>9. FifoUnlessTie'
  <2> SUFFICES ASSUME NEW r \in Queue, NEW s \in Priority
               PROVE  /\ \A i, j \in DOMAIN out'[r][s] :
                            i < j => out'[r][s][i].id < out'[r][s][j].id \/ out'[r][s][i].send = out'[r][s][j].send
                      /\ \A i \in DOMAIN out'[r][s], e \in waiting'[r][s] :
                            out'[r][s][i].id < e.id \/ out'[r][s][i].send = e.send
    BY DEF FifoUnlessTie
  <2>1. out' = out
    BY <1>3
  <2>2. waiting'[r][s] \subseteq waiting[r][s] \union {new}
    BY <1>5
  <2>3. \A i \in DOMAIN out[r][s] : out[r][s][i].id < new.id
    BY <1>7
  <2>4. QED
    BY <2>1, <2>2, <2>3 DEF QueueingInv, FifoUnlessTie
<1>10. QED
  BY <1>6, <1>8, <1>9 DEF QueueingInv

\* A pop keeps the invariant: it takes an element with the earliest time.
LEMMA PopBackKept ==
    ASSUME QueueingInv, NEW w \in Worker, PopBack(w)
    PROVE  QueueingInv'
<1>0. PICK p \in Priority : \E e \in Tops(w, p), q \in Queue :
        /\ MapToWorker[q] = w /\ e \in waiting[q][p]
        /\ waiting' = [waiting EXCEPT ![q][p] = waiting[q][p] \ {e}]
        /\ out' = [out EXCEPT ![q][p] = Append(out[q][p], e)]
        /\ UNCHANGED <<now, pushed, delay, lastSent>>
  BY DEF PopBack, limits
<1>1. PICK e \in Tops(w, p), q \in Queue :
        /\ MapToWorker[q] = w /\ e \in waiting[q][p]
        /\ waiting' = [waiting EXCEPT ![q][p] = waiting[q][p] \ {e}]
        /\ out' = [out EXCEPT ![q][p] = Append(out[q][p], e)]
        /\ UNCHANGED <<now, pushed, delay, lastSent>>
  BY <1>0
<1>2. /\ waiting \in [Queue -> [Priority -> SUBSET Element]]
      /\ out \in [Queue -> [Priority -> Seq(Element)]]
      /\ \A r \in Queue, s \in Priority : waiting[r][s] \subseteq Element /\ out[r][s] \in Seq(Element)
      /\ e \in Element
  BY <1>1 DEF QueueingInv, QueueingTypes
<1>3. Append(out[q][p], e) \in Seq(Element) /\ waiting[q][p] \ {e} \in SUBSET Element
  BY <1>1, <1>2
<1>4. /\ waiting'[q][p] = waiting[q][p] \ {e} /\ out'[q][p] = Append(out[q][p], e)
      /\ \A r \in Queue, s \in Priority : r # q \/ s # p =>
            waiting'[r][s] = waiting[r][s] /\ out'[r][s] = out[r][s]
      /\ waiting' \in [Queue -> [Priority -> SUBSET Element]]
      /\ out' \in [Queue -> [Priority -> Seq(Element)]]
  <2>1. /\ waiting'[q][p] = waiting[q][p] \ {e}
        /\ \A r \in Queue, s \in Priority : r # q \/ s # p => waiting'[r][s] = waiting[r][s]
        /\ waiting' \in [Queue -> [Priority -> SUBSET Element]]
    BY <1>1, <1>2, <1>3, Elsewhere
  <2>2. /\ out'[q][p] = Append(out[q][p], e)
        /\ \A r \in Queue, s \in Priority : r # q \/ s # p => out'[r][s] = out[r][s]
        /\ out' \in [Queue -> [Priority -> Seq(Element)]]
    BY <1>1, <1>2, <1>3, Elsewhere
  <2>3. QED
    BY <2>1, <2>2
<1>5. QueueingTypes'
  BY <1>1, <1>4 DEF QueueingInv, QueueingTypes
<1>6. /\ DOMAIN Append(out[q][p], e) = 1..Len(out[q][p]) + 1
      /\ DOMAIN out[q][p] = 1..Len(out[q][p]) /\ Len(out[q][p]) \in Nat
      /\ \A i \in 1..Len(out[q][p]) : Append(out[q][p], e)[i] = out[q][p][i]
      /\ Append(out[q][p], e)[Len(out[q][p]) + 1] = e
  BY <1>2
<1>7. InOrder'
  <2>1. e.id < pushed
    BY <1>1 DEF QueueingInv, InOrder
  <2>2. \A i \in DOMAIN out'[q][p] : out'[q][p][i].id < pushed
    BY <1>4, <1>6, <2>1 DEF QueueingInv, InOrder
  <2>3. QED
    BY <1>1, <1>4, <2>2 DEF QueueingInv, InOrder
<1>8. FifoUnlessTie'
  <2>1. \A f \in waiting[q][p] : e.send <= f.send
    BY <1>1 DEF Tops, Heap
  <2>2. \A f \in waiting[q][p] \ {e} : e.id < f.id \/ e.send = f.send
    <3> SUFFICES ASSUME NEW f \in waiting[q][p], f # e, ~ e.id < f.id PROVE e.send = f.send
      OBVIOUS
    <3>1. e.id \in Nat /\ f.id \in Nat /\ e.send \in Nat /\ f.send \in Nat
      BY <1>2 DEF Element
    <3>2. f.send <= e.send
      BY <1>1, <3>1 DEF QueueingInv, InOrder
    <3>3. QED
      BY <2>1, <3>1, <3>2
  <2>3. \A i \in DOMAIN out[q][p] : out[q][p][i].id < e.id \/ out[q][p][i].send = e.send
    BY <1>1 DEF QueueingInv, FifoUnlessTie
  <2>4. ASSUME NEW r \in Queue, NEW s \in Priority
        PROVE  /\ \A i, j \in DOMAIN out'[r][s] :
                     i < j => out'[r][s][i].id < out'[r][s][j].id \/ out'[r][s][i].send = out'[r][s][j].send
               /\ \A i \in DOMAIN out'[r][s], f \in waiting'[r][s] :
                     out'[r][s][i].id < f.id \/ out'[r][s][i].send = f.send
    <3>1. /\ \A i, j \in DOMAIN out[r][s] :
                i < j => out[r][s][i].id < out[r][s][j].id \/ out[r][s][i].send = out[r][s][j].send
          /\ \A i \in DOMAIN out[r][s], f \in waiting[r][s] :
                out[r][s][i].id < f.id \/ out[r][s][i].send = f.send
      BY DEF QueueingInv, FifoUnlessTie
    <3>2. CASE r # q \/ s # p
      <4>1. waiting'[r][s] = waiting[r][s] /\ out'[r][s] = out[r][s]
        BY <1>4, <3>2
      <4>2. QED
        BY <3>1, <4>1
    <3>3. CASE r = q /\ s = p
      <4> DEFINE n == Len(out[q][p]) + 1
      <4>1. /\ \A i \in DOMAIN out'[q][p] : i # n => i \in DOMAIN out[q][p] /\ out'[q][p][i] = out[q][p][i]
            /\ out'[q][p][n] = e /\ DOMAIN out'[q][p] = 1..n
        BY <1>4, <1>6
      <4> HIDE DEF n
      <4>2. ASSUME NEW i \in DOMAIN out'[q][p], NEW j \in DOMAIN out'[q][p], i < j
            PROVE  out'[q][p][i].id < out'[q][p][j].id \/ out'[q][p][i].send = out'[q][p][j].send
        <5>1. i # n
          BY <1>6, <4>1, <4>2 DEF n
        <5>2. CASE j = n
          BY <2>3, <4>1, <5>1, <5>2
        <5>3. CASE j # n
          BY <3>1, <3>3, <4>1, <4>2, <5>1, <5>3
        <5>4. QED
          BY <5>2, <5>3
      <4>3. ASSUME NEW i \in DOMAIN out'[q][p], NEW f \in waiting'[q][p]
            PROVE  out'[q][p][i].id < f.id \/ out'[q][p][i].send = f.send
        <5>1. f \in waiting[q][p] \ {e}
          BY <1>4
        <5>2. CASE i = n
          BY <2>2, <4>1, <5>1, <5>2
        <5>3. CASE i # n
          BY <3>1, <3>3, <4>1, <5>1, <5>3
        <5>4. QED
          BY <5>2, <5>3
      <4>4. QED
        BY <3>3, <4>2, <4>3
    <3>4. QED
      BY <3>2, <3>3
  <2>5. QED
    BY <2>4 DEF FifoUnlessTie
<1>9. QED
  BY <1>5, <1>7, <1>8 DEF QueueingInv

-----------------------------------------------------------------------------
\* The inductive invariant of the queues: what a priority accepted has send
\* times in the order of acceptance, and left in that order but for ties.
THEOREM QueueingInvariant == Spec => []QueueingInv
<1>1. Init => QueueingInv
  <2> SUFFICES ASSUME Init PROVE QueueingInv
    OBVIOUS
  <2>1. /\ waiting = [q \in Queue |-> [p \in Priority |-> {}]]
        /\ out = [q \in Queue |-> [p \in Priority |-> <<>>]]
        /\ delay = [q \in Queue |-> [p \in Priority |-> 0]]
        /\ lastSent = [q \in Queue |-> [p \in Priority |-> 0]]
        /\ now = 0 /\ pushed = 0
    BY DEF Init, PerPriority
  <2>2. QueueingTypes
    BY <2>1 DEF QueueingTypes
  <2>3. \A q \in Queue, p \in Priority : waiting[q][p] = {} /\ DOMAIN out[q][p] = {}
    BY <2>1
  <2>4. QED
    BY <2>2, <2>3 DEF QueueingInv, InOrder, FifoUnlessTie
<1>2. QueueingInv /\ [Next]_vars => QueueingInv'
  <2> SUFFICES ASSUME QueueingInv, [Next]_vars PROVE QueueingInv'
    OBVIOUS
  <2>1. CASE UNCHANGED vars
    BY <2>1 DEF vars, limits, QueueingInv, QueueingTypes, InOrder, FifoUnlessTie
  <2>2. ASSUME NEW q \in Queue, NEW p \in Priority, Push(q, p) PROVE QueueingInv'
    BY <2>2, PushKept
  <2>3. ASSUME NEW w \in Worker, PopBack(w) PROVE QueueingInv'
    BY <2>3, PopBackKept
  <2>4. ASSUME NEW q \in Queue, NEW ps \in Targets, NEW c \in Capacities, SetCapacity(q, ps, c)
        PROVE  QueueingInv'
    BY <2>4 DEF SetCapacity, QueueingInv, QueueingTypes, InOrder, FifoUnlessTie
  <2>5. ASSUME NEW q \in Queue, NEW ps \in Targets, NEW d \in Delays, SetRate(q, ps, d)
        PROVE  QueueingInv'
    <3>1. d \in Nat /\ delay \in [Queue -> [Priority -> Nat]]
      BY QueueingNumbers DEF QueueingInv, QueueingTypes
    <3>2. delay' \in [Queue -> [Priority -> Nat]]
      <4>1. [p \in Priority |-> IF p \in ps THEN d ELSE delay[q][p]] \in [Priority -> Nat]
        BY <3>1
      <4>2. QED
        BY <2>5, <3>1, <4>1 DEF SetRate
    <3>3. QED
      BY <2>5, <3>2 DEF SetRate, QueueingInv, QueueingTypes, InOrder, FifoUnlessTie
  <2>6. CASE Tick \/ ClockSetBack
    <3>1. now' \in Nat
      BY <2>6 DEF Tick, ClockSetBack, QueueingInv, QueueingTypes
    <3>2. UNCHANGED <<pushed, waiting, out, delay, lastSent>>
      BY <2>6 DEF Tick, ClockSetBack, limits
    <3>3. QED
      BY <3>1, <3>2 DEF QueueingInv, QueueingTypes, InOrder, FifoUnlessTie
  <2>7. ASSUME NEW w \in Worker, Sleep(w) \/ WakeUp(w) PROVE QueueingInv'
    <3>1. UNCHANGED <<now, pushed, waiting, out, delay, lastSent>>
      BY <2>7 DEF Sleep, WakeUp, limits
    <3>2. QED
      BY <3>1 DEF QueueingInv, QueueingTypes, InOrder, FifoUnlessTie
  <2>8. QED
    BY <2>1, <2>2, <2>3, <2>4, <2>5, <2>6, <2>7 DEF Next
<1>3. QED
  BY <1>1, <1>2, PTL DEF Spec

\* Elements of one priority of a queue overtake each other only when they
\* were given the same send time (queueing.h, pop_back and QEComp), for any
\* rates set on the way and however often the clock is set back.
THEOREM NoOvertakingButTies == Spec => []FifoUnlessTie
<1>1. QueueingInv => FifoUnlessTie
  BY DEF QueueingInv
<1>2. QED
  BY <1>1, QueueingInvariant, PTL

-----------------------------------------------------------------------------
\* What the counters count: the elements of one priority, and those of a
\* queue, which no two priorities share.
Counted ==
    /\ now \in 0..MaxTime
    /\ capacity \in [Queue -> [Priority -> Nat]]
    /\ size \in [Queue -> [Priority -> Nat]] /\ total \in [Queue -> Nat]
    /\ \A q \in Queue :
          /\ IsFiniteSet(WaitingIn(q)) /\ total[q] = Cardinality(WaitingIn(q))
          /\ \A p \in Priority : size[q][p] = Cardinality(waiting[q][p])
          /\ \A p, r \in Priority : p # r => waiting[q][p] \intersect waiting[q][r] = {}

\* A push adds one element, to one priority of one queue.
LEMMA PushCounted ==
    ASSUME QueueingInv, Counted, NEW q \in Queue, NEW p \in Priority, Push(q, p)
    PROVE  Counted'
<1> DEFINE new == [id |-> pushed, send |-> GetNextTp(q, p)]
<1>1. /\ UNCHANGED <<now, capacity>>
      /\ waiting' = [waiting EXCEPT ![q][p] = waiting[q][p] \union {new}]
      /\ size' = [size EXCEPT ![q][p] = size[q][p] + 1]
      /\ total' = [total EXCEPT ![q] = total[q] + 1]
  BY DEF Push, limits
<1>2. new.id = pushed
  OBVIOUS
<1> HIDE DEF new
<1>3. \A r \in Queue, s \in Priority : new \notin waiting[r][s]
  <2> SUFFICES ASSUME NEW r \in Queue, NEW s \in Priority, new \in waiting[r][s] PROVE FALSE
    OBVIOUS
  <2>1. new.id < pushed /\ pushed \in Nat
    BY DEF QueueingInv, QueueingTypes, InOrder
  <2>2. QED
    BY <1>2, <2>1
<1>4. /\ waiting \in [Queue -> [Priority -> SUBSET Element]]
      /\ size \in [Queue -> [Priority -> Nat]] /\ total \in [Queue -> Nat]
  BY DEF QueueingInv, QueueingTypes, Counted
<1>5. /\ waiting'[q][p] = waiting[q][p] \union {new}
      /\ \A r \in Queue, s \in Priority : r # q \/ s # p => waiting'[r][s] = waiting[r][s]
  BY <1>1, <1>4, Elsewhere
<1>6. /\ size'[q][p] = size[q][p] + 1
      /\ \A r \in Queue, s \in Priority : r # q \/ s # p => size'[r][s] = size[r][s]
      /\ size' \in [Queue -> [Priority -> Nat]]
  <2>1. size[q][p] + 1 \in Nat
    BY <1>4
  <2>2. QED
    BY <1>1, <1>4, <2>1, Elsewhere
<1>7. /\ total'[q] = total[q] + 1 /\ total' \in [Queue -> Nat]
      /\ \A r \in Queue : r # q => total'[r] = total[r]
  BY <1>1, <1>4
<1>8. /\ WaitingIn(q)' = WaitingIn(q) \union {new} /\ new \notin WaitingIn(q)
      /\ \A r \in Queue : r # q => WaitingIn(r)' = WaitingIn(r)
  <2>1. WaitingIn(q)' = WaitingIn(q) \union {new} /\ new \notin WaitingIn(q)
    BY <1>3, <1>5 DEF WaitingIn
  <2>2. ASSUME NEW r \in Queue, r # q PROVE WaitingIn(r)' = WaitingIn(r)
    BY <1>5, <2>2 DEF WaitingIn
  <2>3. QED
    BY <2>1, <2>2
<1>9. ASSUME NEW r \in Queue
      PROVE  /\ IsFiniteSet(WaitingIn(r)') /\ total'[r] = Cardinality(WaitingIn(r)')
             /\ \A s \in Priority : size'[r][s] = Cardinality(waiting'[r][s])
             /\ \A s, t \in Priority : s # t => waiting'[r][s] \intersect waiting'[r][t] = {}
  <2>1. /\ IsFiniteSet(WaitingIn(r)) /\ total[r] = Cardinality(WaitingIn(r))
        /\ \A s \in Priority : size[r][s] = Cardinality(waiting[r][s])
        /\ \A s, t \in Priority : s # t => waiting[r][s] \intersect waiting[r][t] = {}
    BY DEF Counted
  <2>2. CASE r # q
    BY <1>5, <1>6, <1>7, <1>8, <2>1, <2>2
  <2>3. CASE r = q
    <3>1. IsFiniteSet(WaitingIn(q) \union {new})
          /\ Cardinality(WaitingIn(q) \union {new}) = Cardinality(WaitingIn(q)) + 1
      BY <1>8, <2>1, <2>3, FS_AddElement
    <3>2. IsFiniteSet(waiting[q][p])
      BY <2>1, <2>3, FS_Subset DEF WaitingIn
    <3>3. Cardinality(waiting[q][p] \union {new}) = Cardinality(waiting[q][p]) + 1
      BY <1>3, <3>2, FS_AddElement
    <3>4. \A s \in Priority : size'[q][s] = Cardinality(waiting'[q][s])
      BY <1>5, <1>6, <2>1, <2>3, <3>3
    <3>5. \A s, t \in Priority : s # t => waiting'[q][s] \intersect waiting'[q][t] = {}
      BY <1>3, <1>5, <2>1, <2>3
    <3>6. QED
      BY <1>7, <1>8, <2>1, <2>3, <3>1, <3>4, <3>5
  <2>4. QED
    BY <2>2, <2>3
<1>10. QED
  BY <1>1, <1>6, <1>7, <1>9 DEF Counted

\* A pop takes one, wherever in the heap of its worker it came from.
LEMMA PopBackCounted ==
    ASSUME QueueingInv, Counted, NEW w \in Worker, PopBack(w)
    PROVE  Counted'
<1>0. PICK p \in Priority : \E e \in Tops(w, p), q \in Queue :
        /\ e \in waiting[q][p]
        /\ waiting' = [waiting EXCEPT ![q][p] = waiting[q][p] \ {e}]
        /\ PopSize(q, p)
        /\ UNCHANGED <<now, capacity>>
  BY DEF PopBack, limits
<1>1. PICK e \in Tops(w, p), q \in Queue :
        /\ e \in waiting[q][p]
        /\ waiting' = [waiting EXCEPT ![q][p] = waiting[q][p] \ {e}]
        /\ PopSize(q, p)
        /\ UNCHANGED <<now, capacity>>
  BY <1>0
<1>2. /\ waiting \in [Queue -> [Priority -> SUBSET Element]]
      /\ size \in [Queue -> [Priority -> Nat]] /\ total \in [Queue -> Nat]
  BY DEF QueueingInv, QueueingTypes, Counted
<1>3. /\ IsFiniteSet(WaitingIn(q)) /\ total[q] = Cardinality(WaitingIn(q))
      /\ \A s \in Priority : size[q][s] = Cardinality(waiting[q][s])
      /\ \A s, t \in Priority : s # t => waiting[q][s] \intersect waiting[q][t] = {}
  BY DEF Counted
<1>4. e \in WaitingIn(q)
  BY <1>1 DEF WaitingIn
<1>5. IsFiniteSet(waiting[q][p])
  BY <1>3, FS_Subset DEF WaitingIn
<1>6. /\ IsFiniteSet(WaitingIn(q) \ {e})
      /\ Cardinality(WaitingIn(q) \ {e}) = Cardinality(WaitingIn(q)) - 1
      /\ Cardinality(waiting[q][p] \ {e}) = Cardinality(waiting[q][p]) - 1
      /\ Cardinality(waiting[q][p] \ {e}) \in Nat /\ Cardinality(WaitingIn(q) \ {e}) \in Nat
  BY <1>1, <1>3, <1>4, <1>5, FS_RemoveElement, FS_CardinalityType
<1>7. /\ waiting'[q][p] = waiting[q][p] \ {e}
      /\ \A r \in Queue, s \in Priority : r # q \/ s # p => waiting'[r][s] = waiting[r][s]
  BY <1>1, <1>2, Elsewhere
<1>8. /\ size'[q][p] = size[q][p] - 1
      /\ \A r \in Queue, s \in Priority : r # q \/ s # p => size'[r][s] = size[r][s]
      /\ size' \in [Queue -> [Priority -> Nat]]
  <2>1. size[q][p] - 1 \in Nat
    BY <1>3, <1>6
  <2>2. size' = [size EXCEPT ![q][p] = size[q][p] - 1]
    BY <1>1 DEF PopSize
  <2>3. QED
    BY <1>2, <2>1, <2>2, Elsewhere
<1>9. /\ total'[q] = total[q] - 1 /\ total' \in [Queue -> Nat]
      /\ \A r \in Queue : r # q => total'[r] = total[r]
  <2>1. total[q] - 1 \in Nat
    BY <1>3, <1>6
  <2>2. QED
    BY <1>1, <1>2, <2>1 DEF PopSize
<1>10. /\ WaitingIn(q)' = WaitingIn(q) \ {e}
       /\ \A r \in Queue : r # q => WaitingIn(r)' = WaitingIn(r)
  <2>1. \A s \in Priority : s # p => e \notin waiting[q][s]
    BY <1>1, <1>3
  <2>2. \A s \in Priority : waiting'[q][s] = waiting[q][s] \ {e}
    BY <1>7, <2>1
  <2>3. WaitingIn(q)' = WaitingIn(q) \ {e}
    BY <2>2 DEF WaitingIn
  <2>4. ASSUME NEW r \in Queue, r # q PROVE WaitingIn(r)' = WaitingIn(r)
    BY <1>7, <2>4 DEF WaitingIn
  <2>5. QED
    BY <2>3, <2>4
<1>11. ASSUME NEW r \in Queue
       PROVE  /\ IsFiniteSet(WaitingIn(r)') /\ total'[r] = Cardinality(WaitingIn(r)')
              /\ \A s \in Priority : size'[r][s] = Cardinality(waiting'[r][s])
              /\ \A s, t \in Priority : s # t => waiting'[r][s] \intersect waiting'[r][t] = {}
  <2>1. CASE r # q
    <3>1. /\ IsFiniteSet(WaitingIn(r)) /\ total[r] = Cardinality(WaitingIn(r))
          /\ \A s \in Priority : size[r][s] = Cardinality(waiting[r][s])
          /\ \A s, t \in Priority : s # t => waiting[r][s] \intersect waiting[r][t] = {}
      BY DEF Counted
    <3>2. QED
      BY <1>7, <1>8, <1>9, <1>10, <2>1, <3>1
  <2>2. CASE r = q
    <3>1. \A s \in Priority : size'[q][s] = Cardinality(waiting'[q][s])
      BY <1>3, <1>6, <1>7, <1>8
    <3>2. \A s, t \in Priority : s # t => waiting'[q][s] \intersect waiting'[q][t] = {}
      BY <1>3, <1>7
    <3>3. QED
      BY <1>3, <1>6, <1>9, <1>10, <2>2, <3>1, <3>2
  <2>3. QED
    BY <2>1, <2>2
<1>12. QED
  BY <1>1, <1>8, <1>9, <1>11 DEF Counted

\* A push and a pop change the counters by what they add to and take from the queue.
LEMMA CountedKept ==
    ASSUME QueueingInv, Counted, [Next]_vars
    PROVE  Counted'
<1>1. ASSUME UNCHANGED <<waiting, size, total>>, now' \in 0..MaxTime,
             capacity' \in [Queue -> [Priority -> Nat]]
      PROVE  Counted'
  <2>1. \A q \in Queue : WaitingIn(q)' = WaitingIn(q)
    BY <1>1 DEF WaitingIn
  <2>2. \A q \in Queue :
          /\ IsFiniteSet(WaitingIn(q)') /\ total'[q] = Cardinality(WaitingIn(q)')
          /\ \A p \in Priority : size'[q][p] = Cardinality(waiting'[q][p])
          /\ \A p, r \in Priority : p # r => waiting'[q][p] \intersect waiting'[q][r] = {}
    BY <1>1, <2>1 DEF Counted
  <2>3. size' \in [Queue -> [Priority -> Nat]] /\ total' \in [Queue -> Nat]
    BY <1>1 DEF Counted
  <2>4. QED
    BY <1>1, <2>2, <2>3 DEF Counted
<1>2. ASSUME NEW q \in Queue, NEW ps \in Targets, NEW c \in Capacities, SetCapacity(q, ps, c)
      PROVE  Counted'
  <2>1. c \in Nat /\ capacity \in [Queue -> [Priority -> Nat]]
    BY QueueingAssumption DEF QueueingAssumption, Counted
  <2>2. [p \in Priority |-> IF p \in ps THEN c ELSE capacity[q][p]] \in [Priority -> Nat]
    BY <2>1
  <2>3. capacity' \in [Queue -> [Priority -> Nat]]
    BY <1>2, <2>1, <2>2 DEF SetCapacity
  <2>4. QED
    BY <1>1, <1>2, <2>3 DEF SetCapacity, Counted
<1>3. ASSUME NEW q \in Queue, NEW ps \in Targets, NEW d \in Delays, SetRate(q, ps, d)
      PROVE  Counted'
  BY <1>1, <1>3 DEF SetRate, Counted
<1>4. CASE Tick \/ ClockSetBack
  <2>1. now' \in 0..MaxTime
    BY <1>4, QueueingAssumption DEF Tick, ClockSetBack, Counted, QueueingAssumption
  <2>2. QED
    BY <1>1, <1>4, <2>1 DEF Tick, ClockSetBack, limits, Counted
<1>5. CASE UNCHANGED vars
  BY <1>1, <1>5 DEF vars, limits, Counted
<1>6. ASSUME NEW w \in Worker, Sleep(w) \/ WakeUp(w) PROVE Counted'
  <2>1. UNCHANGED <<now, waiting, size, total, capacity>>
    BY <1>6 DEF Sleep, WakeUp, limits
  <2>2. now' \in 0..MaxTime /\ capacity' \in [Queue -> [Priority -> Nat]]
    BY <2>1 DEF Counted
  <2>3. QED
    BY <1>1, <2>1, <2>2
<1>7. QED
  BY <1>2, <1>3, <1>4, <1>5, <1>6, PushCounted, PopBackCounted DEF Next

\* The counts size() answers, and those a push is refused by, are the numbers
\* of elements that wait: pop_back and push_front keep them over any changes
\* of capacity, although a worker takes from the heaps of several queues.
THEOREM CountersExact == Spec => []SizesExact
<1>1. Init => Counted
  <2> SUFFICES ASSUME Init PROVE Counted
    OBVIOUS
  <2>1. /\ waiting = [q \in Queue |-> [p \in Priority |-> {}]]
        /\ size = [q \in Queue |-> [p \in Priority |-> 0]]
        /\ capacity = [q \in Queue |-> [p \in Priority |-> Capacity]]
        /\ total = [q \in Queue |-> 0] /\ now = 0
    BY DEF Init, PerPriority
  <2>2. now \in 0..MaxTime /\ capacity \in [Queue -> [Priority -> Nat]]
    BY <2>1, QueueingAssumption DEF QueueingAssumption
  <2>3. size \in [Queue -> [Priority -> Nat]] /\ total \in [Queue -> Nat]
    BY <2>1
  <2>4. \A q \in Queue : WaitingIn(q) = {} /\ total[q] = 0
    BY <2>1 DEF WaitingIn
  <2>5. \A q \in Queue, p \in Priority : waiting[q][p] = {} /\ size[q][p] = 0
    BY <2>1
  <2>6. QED
    BY <2>2, <2>3, <2>4, <2>5, FS_EmptySet DEF Counted
<1>2. QueueingInv /\ Counted /\ [Next]_vars => Counted'
  BY CountedKept
<1>3. QueueingInv /\ Counted => SizesExact
  <2> SUFFICES ASSUME QueueingInv, Counted PROVE SizesExact
    OBVIOUS
  <2>1. limits \in [Queue -> [Priority -> Nat]] \X [Queue -> [Priority -> Nat]]
    BY DEF limits, Counted, QueueingInv, QueueingTypes
  <2>2. QED
    BY <2>1 DEF SizesExact, Counted, QueueingInv, QueueingTypes
<1>4. QED
  BY <1>1, <1>2, <1>3, QueueingInvariant, PTL DEF Spec
=============================================================================
