------------------------------ MODULE Queueing ------------------------------
(***************************************************************************)
(* The rate-limited priority queues in front of the egress threads         *)
(* (bm_sim/queueing.h, QueueingLogicPriRL, for SSWITCH_PRIORITY_QUEUEING_ON; *)
(* QueueingLogicRL, compiled by default, does the same with one priority,  *)
(* but that an idle worker then always waits for a push without a time).   *)
(* An element gets its send time when it is pushed; a worker takes, from   *)
(* the highest priority that has one, an element whose time has come, and  *)
(* sleeps on the condition q_not_empty when there is none.  The clock is   *)
(* the system's and may be set back.                                       *)
(***************************************************************************)
EXTENDS Integers, FiniteSetsExt, SequencesExt

CONSTANTS Queue, Worker,  \* logical queues (ports), egress threads
          MapToWorker,    \* the worker of each queue
          NbPriorities,
          Capacity,       \* initial capacity of every priority queue
          Capacities,     \* the values of set_capacity
          Delays,         \* pkt_delay_ticks of the rates given to set_rate; not that
                          \* of 0 packets per second, 1. / 0 ticks, which has no value
          MaxTime,        \* bound: the clock, and the send times
          MaxPushes,      \* bound: elements
          MaxBack,        \* bound: times the clock is set back
          MaxSettings     \* bound: calls of set_capacity and set_rate

ASSUME QueueingAssumption ==
    /\ MapToWorker \in [Queue -> Worker]
    /\ NbPriorities \in Nat \ {0} /\ Capacity \in Nat
    /\ Capacities \subseteq Nat /\ Delays \subseteq Nat
    /\ MaxTime \in Nat /\ MaxPushes \in Nat /\ MaxBack \in Nat /\ MaxSettings \in Nat

Priority == 0..NbPriorities - 1
Element == [id : Nat, send : Nat]

VARIABLES now, back, pushed, settings,  \* clock; bounded counters
          waiting,            \* elements of a queue in the heap of a priority
          size, total,        \* q_info_pri.size, q_info.size
          capacity, delay, lastSent,
          workerSize,         \* w_info.size: pushes, which pop_back does not take off
          until,              \* the time a worker sleeps until, or Awake
          out                 \* history: what left, per queue and priority

vars == <<now, back, pushed, settings, waiting, size, total, capacity, delay, lastSent, workerSize, until, out>>
limits == <<capacity, delay>>

\* A worker never sleeps until 0, as it sleeps for times to come only.
Awake == 0
EndOfTime == MaxTime + 1   \* clock::time_point::max()

PerPriority(v) == [q \in Queue |-> [p \in Priority |-> v]]

Init ==
    /\ now = 0 /\ back = 0 /\ pushed = 0 /\ settings = 0
    /\ waiting = PerPriority({}) /\ out = PerPriority(<<>>)
    /\ size = PerPriority(0) /\ total = [q \in Queue |-> 0]
    /\ capacity = PerPriority(Capacity) /\ delay = PerPriority(0)
    /\ lastSent = PerPriority(0)
    /\ workerSize = [w \in Worker |-> 0] /\ until = [w \in Worker |-> Awake]

GetNextTpNow(q, p) == now + delay[q][p]
GetNextTp(q, p) == Max({now, lastSent[q][p] + delay[q][p]})

\* notify_one: only the worker itself sleeps on its condition.
NotifyFirst(q) ==
    until' = IF workerSize[MapToWorker[q]] = 0 THEN [until EXCEPT ![MapToWorker[q]] = Awake] ELSE until
Notify(q) == until' = [until EXCEPT ![MapToWorker[q]] = Awake]

\* A push into a full queue returns 0: the element is dropped.
Push(q, p) ==
    LET send == GetNextTp(q, p)
    IN  /\ size[q][p] < capacity[q][p]
        /\ pushed < MaxPushes /\ send <= MaxTime
        /\ pushed' = pushed + 1
        /\ lastSent' = [lastSent EXCEPT ![q][p] = send]
        /\ waiting' = [waiting EXCEPT ![q][p] = @ \union {[id |-> pushed, send |-> send]}]
        /\ size' = [size EXCEPT ![q][p] = @ + 1]
        /\ total' = [total EXCEPT ![q] = @ + 1]
        /\ workerSize' = [workerSize EXCEPT ![MapToWorker[q]] = @ + 1]
        /\ Notify(q)
        /\ UNCHANGED <<now, back, settings, limits, out>>

\* The heap of a worker and priority holds the elements of all its queues;
\* its top is one of those with the earliest send time, any one of them.
Heap(w, p) == UNION {waiting[q][p] : q \in {r \in Queue : MapToWorker[r] = w}}
Tops(w, p) == {e \in Heap(w, p) : \A f \in Heap(w, p) : e.send <= f.send}
Ready(w, p) == \E e \in Tops(w, p) : e.send <= now

PopSizeKept(q, p) == UNCHANGED size /\ total' = [total EXCEPT ![q] = @ - 1]
PopSize(q, p) == size' = [size EXCEPT ![q][p] = @ - 1] /\ total' = [total EXCEPT ![q] = @ - 1]

PopBack(w) ==
    /\ until[w] = Awake
    /\ \E p \in Priority :
          /\ Ready(w, p) /\ \A r \in 0..p - 1 : ~Ready(w, r)
          /\ \E e \in Tops(w, p), q \in Queue :
                /\ MapToWorker[q] = w /\ e \in waiting[q][p]
                /\ waiting' = [waiting EXCEPT ![q][p] = @ \ {e}]
                /\ out' = [out EXCEPT ![q][p] = Append(@, e)]
                /\ PopSize(q, p)
    /\ UNCHANGED <<now, back, pushed, settings, limits, lastSent, workerSize, until>>

\* pop_back finds nothing to take: the worker sleeps for a push as long as
\* nothing was ever pushed, and then for a push or the first send time.
WaitsUntil(w) == Min({e.send : e \in UNION {Heap(w, p) : p \in Priority}} \union {EndOfTime})
Sleep(w) ==
    /\ until[w] = Awake
    /\ \/ workerSize[w] = 0 /\ until' = [until EXCEPT ![w] = EndOfTime]
       \/ /\ workerSize[w] > 0 /\ \A p \in Priority : ~Ready(w, p)
          /\ until' = [until EXCEPT ![w] = WaitsUntil(w)]
    /\ UNCHANGED <<now, back, pushed, settings, waiting, size, total, limits, lastSent, workerSize, out>>

\* The time has come, or the wait ends without a reason.
WakeUp(w) ==
    /\ until[w] # Awake
    /\ until' = [until EXCEPT ![w] = Awake]
    /\ UNCHANGED <<now, back, pushed, settings, waiting, size, total, limits, lastSent, workerSize, out>>
TimeIsUp(w) == until[w] <= now /\ WakeUp(w)

\* set_capacity and set_rate, for one priority of a queue or for all.
Targets == {{p} : p \in Priority} \union {Priority}

SetCapacity(q, ps, c) ==
    /\ settings < MaxSettings /\ settings' = settings + 1
    /\ capacity' = [capacity EXCEPT ![q] = [p \in Priority |-> IF p \in ps THEN c ELSE @[p]]]
    /\ UNCHANGED <<now, back, pushed, waiting, size, total, delay, lastSent, workerSize, until, out>>

SetRate(q, ps, d) ==
    /\ settings < MaxSettings /\ settings' = settings + 1
    /\ delay' = [delay EXCEPT ![q] = [p \in Priority |-> IF p \in ps THEN d ELSE @[p]]]
    /\ UNCHANGED <<now, back, pushed, waiting, size, total, capacity, lastSent, workerSize, until, out>>

\* Time passes; somebody sets the clock back.
Tick ==
    /\ now < MaxTime /\ now' = now + 1
    /\ UNCHANGED <<back, pushed, settings, waiting, size, total, limits, lastSent, workerSize, until, out>>

ClockSetBack ==
    /\ now > 0 /\ back < MaxBack
    /\ back' = back + 1 /\ now' = now - 1
    /\ UNCHANGED <<pushed, settings, waiting, size, total, limits, lastSent, workerSize, until, out>>

Next ==
    \/ \E q \in Queue, p \in Priority : Push(q, p)
    \/ \E w \in Worker : PopBack(w) \/ Sleep(w) \/ WakeUp(w)
    \/ \E q \in Queue, ps \in Targets :
          (\E c \in Capacities : SetCapacity(q, ps, c)) \/ (\E d \in Delays : SetRate(q, ps, d))
    \/ Tick \/ ClockSetBack

Spec == Init /\ [][Next]_vars

\* The workers run, and wake up when their time has come; time goes on.
\* Nobody has to push, and no wait has to end without a reason.
WorkerStep(w) == PopBack(w) \/ Sleep(w) \/ TimeIsUp(w)
FairSpec == Spec /\ WF_vars(Tick) /\ \A w \in Worker : WF_vars(WorkerStep(w))

----------------------------------------------------------------------------
WaitingIn(q) == UNION {waiting[q][p] : p \in Priority}

\* The counters behind size() and the drops are the numbers of elements, of
\* each priority and of each queue, over all pushes, pops and set_capacity,
\* although one worker takes the elements of several queues.
SizesExact ==
    /\ now \in 0..MaxTime /\ waiting \in [Queue -> [Priority -> SUBSET Element]]
    /\ limits \in [Queue -> [Priority -> Nat]] \X [Queue -> [Priority -> Nat]]
    /\ lastSent \in [Queue -> [Priority -> Nat]]
    /\ \A q \in Queue : /\ \A p \in Priority : size[q][p] = Cardinality(waiting[q][p])
                        /\ total[q] = Cardinality(WaitingIn(q))

\* What a priority of a queue accepted leaves in the order it came, also
\* across changes of the rate and steps back of the clock, unless two
\* elements were given the same send time: those may overtake each other,
\* the tie-break being commented out.
FifoUnlessTie ==
    \A q \in Queue, p \in Priority :
        /\ \A i, j \in DOMAIN out[q][p] :
              i < j => out[q][p][i].id < out[q][p][j].id \/ out[q][p][i].send = out[q][p][j].send
        /\ \A i \in DOMAIN out[q][p], e \in waiting[q][p] :
              out[q][p][i].id < e.id \/ out[q][p][i].send = e.send

\* Once the pushes end, every element a queue accepted leaves: also after a
\* rate was set or the clock set back, and although its worker sleeps on one
\* condition for all its queues, where a notification or a send time may be
\* missed.  While pushes go on a lower priority may be
\* starved for ever, as the comment of QueueingLogicPriRL says.
PushesEnd == <>[][pushed' = pushed]_vars
AllServed ==
    PushesEnd => \A q \in Queue, p \in Priority : waiting[q][p] # {} ~> waiting[q][p] = {}
=============================================================================
