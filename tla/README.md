# ML-routing: a TLA+ model of the router

ML-routing makes a bmv2 `simple_switch` ask a reinforcement-learning process for
the output port of packets. This directory holds a TLA+ model of one such router,
of the learning process and of the parts of the behavioral model the router is built on
that have a concurrency or a bookkeeping of their own; the TLC configurations that
check them; and TLAPS proofs. Paths below are relative to `src/`; `ss/` stands for
`bmv2/targets/simple_switch/` and `bm/` for `bmv2/src/bm_sim/`.

## The system

| part | source | state | operations |
|---|---|---|---|
| destination ring | `ss/ccbuffer.h`, `ss/address.h` | 30 slots (address, valid bit), `head`, `validElements`, `nextPos` | `push`, `pop`, `get`, `isValid`, `getHead`, `currElems` |
| `MLController` extern | `ss/MLController.cpp` | name of the switch, per-destination counters, reward table `rws` with `nextId`/`nextRw`, pointers to ring and client | `pushAddr`, `popAddr`, `getOutputPort`, `getNeighborMac`, `sendReward` |
| learner client | `ss/pymodule.h` | socket, `connected` | `getPort` |
| topology lookups | `ss/parseMac.h` | `topology.db` | `parseMac`, `getNeighbor` |
| switch | `ss/simple_switch.cpp` | input buffer, one egress queue per port, output buffer; ingress thread, 4 egress threads, transmit thread | the thread loops |
| queues | `bmv2/include/bm/bm_sim/queue.h`, `queueing.h` | bounded deques, priority queues ordered by send time (`QueueingLogicRL` as compiled by default, `QueueingLogicPriRL` with `SSWITCH_PRIORITY_QUEUEING_ON`) | blocking push/pop; push that drops when full |
| pipelines | `MLRouter/MLRouter.p4` | packet headers and metadata | `MyIngress`, `MyEgress` |
| learner environment | `rl/net-env/net_env/envs/net_env.py` | socket, action history, last packet, rewards | `__init__`, `reset`, `step` |
| packet engine | `ss/simple_switch.cpp`, `bm/switch.cpp`, `bm/context.cpp`, `bm/phv_source.cpp` | current and next configuration, order to swap, packets alive per context | clone, resubmit, recirculate, replicate; `load_new_config`, `swap_configs`, `do_swap` |
| learn engine | `bm/learning.cpp` | samples, their filter, two buffers, unacknowledged buffers | `add_sample`, the transmit thread, `ack`, `ack_buffer`, settings, `reset_state` |
| replication engine | `bm/simple_pre.cpp`, `bm/simple_pre_lag.cpp` | groups, nodes, LAGs | `mc_*`, `replicate`, `reset_state` |
| action profiles | `bm/action_profile.cpp`, indirect tables of `bm/match_tables.cpp` | members, groups, reference counts; entries and defaults of the tables | member, group and entry calls, lookup |
| match units | `bm/match_units.cpp`, `bm/lookup_structures.cpp` | entries, handles with versions, list and cache of ternary tables | `add_entry`, `delete_entry`, `modify_entry`, `set_entry_ttl`, lookup |
| ageing monitor | `bm/ageing.cpp` | handles notified in the last sweep | `do_sweep` |
| variants, example externs, scripts, rest of bmv2, p4c | see `PROJECT.json` | | |

A packet is received into the input buffer. The ingress thread pushes its
destination into the ring (`pushAddr` returns the slot, kept in
`meta.identifier`, and whether the destination is *due*: first packet, or every
`UPDATE_FREQUENCY`-th). A due packet goes to `getOutputPort`, which sends the
learner the listed destinations and the reward of an earlier packet and waits for
a port; the neighbour on that port is looked up in `topology.db`. A packet that is
not due goes through the table `ipv4_lpm`. The packet then waits in the queue of
its port; an egress thread pops its destination out of the ring by slot
(`popAddr`), stores its queueing time as a reward (`sendReward`) and hands it to
the transmit thread.

MLRouter uses one table and asks for no clone, resubmission, multicast or learning.
`simple_switch` can do all of them, under a controller that changes tables, groups and
the whole configuration while packets are inside; the second half of the table above is
about that, for any P4 program.

What is hard in the router: the ingress thread and the egress threads share the ring and the
reward table; a position or a reward index taken at one end is used at the other, after an
unbounded number of steps of other packets; packets are dropped between the two; the ingress
thread waits for another process while it holds the lock all egress threads need; that process
may be absent, late or gone. In the behavioral model: each part has locks of its own and calls
that fail half way; handles, buffer ids and configurations are given to a controller that uses
them at any later time; threads wait for each other through bounded queues and through a count
of packets.

What makes each part correct:

* ring: the counter, the valid bits and the head agree; the list read from `head`
  is the entries still present, oldest first; only the oldest is ever evicted; the
  search loops end;
* extern: a packet finds its own entry; the request is consistent with itself; the
  reward sent is the one of the packet routed before; the switch knows its own name;
* switch: per-port order, no packet stuck, the process does not die;
* environment: requests and answers alternate, however often the agent resets; the
  agent decides on the packet that waits; rewards go to the action that earned them;
  the process ends only for a reason, and does end when its switch is gone;
* packet engine: a packet sees one configuration; a swap that was ordered is made and
  is the one asked for; every packet asked to do finitely much leaves;
* queues: the sizes are exact, a queue is in order but for equal send times, nothing accepted
  stays once the pushes end;
* learn engine: what is learned is sent, once, under the id by which it is later
  acknowledged; filter and buffers agree;
* replication: each member of a group gets one copy, nobody else any;
* action profiles: counts equal references, so nothing in use is deleted;
* match units: lookup finds the best entry; the calls that compare a handle's version reach
  its own entry or none; an idle entry is notified under the handle it has.

## Modules

| module | models |
|---|---|
| `CBuffer` | the ring: `Push`, `Pop` and the walk `Listed` of `PyModule::getPort`; the mapping onto `FutureDestinations` |
| `FutureDestinations` | what the ring promises: a list, oldest first, with positions handed out in turn |
| `MCCBuffer` | TLC constants of `CBuffer` |
| `MLController` | the extern with the learner client, extends `CBuffer`; the learner as the peer of the socket |
| `SimpleSwitch` | threads, queues and pipelines, extends `MLController` |
| `SwitchProperties` | invariants and liveness of the router, and the statements of the documents |
| `SwitchProofs` | TLAPS proofs about `CBuffer` and about `SimpleSwitch` |
| `MCSwitch` | TLC constants of `SimpleSwitch` |
| `NetEnv` | the environment: `__init__`, `reset`, `step`, the topology lookups, the reward and the observation; the switch asking, the agent calling |
| `NetEnvProperties` | invariants and liveness of the environment, the mapping onto `LearnerSocket`, the statements of the documents |
| `NetEnvProofs` | TLAPS proofs about `NetEnv` |
| `MCNetEnv` | TLC constants of `NetEnv`: two leaves, two spines |
| `LearnerSocket` | what switch and learner promise each other on their connection |
| `SwitchEngine`, `EngineProperties` | all threads of the switch for any P4 program, and the swap of configurations |
| `EngineProofs` | TLAPS proofs about `SwitchEngine` |
| `Queueing`, `QueueingProofs` | the rate-limited queues (`QueueingLogicPriRL`; with one priority what `QueueingLogicRL` does), with their properties; proofs |
| `Learning`, `LearningProperties`, `LearningProofs` | one learn list; proofs |
| `Membership` | what replication promises: nodes are members of a group, and copied to once |
| `SimplePre`, `PreProofs` | groups, nodes and LAGs, the mapping onto `Membership`; proofs |
| `ActionProfile`, `ActionProfileProperties`, `ActionProfileProofs` | a profile and the indirect tables that share it; proofs |
| `MatchUnit`, `Ageing` | a ternary table; the ageing monitor over it, with the properties of both |
| `AgeingProofs` | TLAPS proofs about both |
| `MCEngine`, `MCQueueing`, `MCLearning`, `MCPre`, `MCActionProfile`, `MCAgeing` | their TLC constants |

Names follow the code (`futureDestinations`, `head`, `nextId`, `nextRw`, `rws`,
`PushAddr`, ...). Some operators that stand just before the definition they vary
(`PushKeepsHead`, `PopOldest`, `TakeRewardKeeps`, ...) are slips a change of the code
could make; no specification uses them. `PROJECT.json` pairs each property with one
that breaks it.

### Correspondence and abstractions

* **One instance, one lock.** Both controls name their extern `ml_controller`; this
  p4c emits that name for both and `P4Objects::add_extern_instance` stores
  instances by name, so there is one object. bmv2 runs every method under its mutex
  (`extern.h:87-99`), hence a method is one atomic action. `getOutputPort` holds the
  mutex while it waits: it is `GetOutputPort` (up to `send`) and `PortReceived`
  (from `recv`), and no egress action of the extern is enabled in between
  (`ExternFree`).
* **Threads** are records with a program counter (`ingress.stage`,
  `egress[w].stage`); a step is one queue operation or one extern call with what
  the thread does up to the next.
* **Queues.** The input and output buffers are sequences; `Queue::push_front` blocks when
  full (a guard). The egress queue of a thread is that of `QueueingLogicRL`, which
  `simple_switch` compiles by default (`simple_switch.h:158-161`), with no rate set: a set of
  packets, from which a pop takes any one with the earliest send time, since the tie-break is
  commented out (`queueing.h:240`, `351-352`). A push reads the clock, any value of `Times` at
  any time, and gives the port's last send time again when the clock is behind it; it drops
  when the port's queue is full.
* **Addresses** are numbers below `AddressSpace`, the 2^32 of the code. The packet's own
  destination goes into a request through `"%d"` (`pymodule.h:163`, `Signed`), the listed ones
  through `"%lu"` (173): from 128.0.0.0 on one address has two spellings. The
  learner makes numbers of both (`net_env.py:232-236`), and the negative one is that of no node:
  in `NetEnv`, an address without one. In the runs of the switch one address is above and one
  below the middle.
* **MAC addresses** are the node that owns them or `Unknown`; a packet is a number
  with headers `ip` (is IPv4), `dst`, `dmac`, `smac` and metadata `pos`, `id`, `spec`.
* **Queueing time** of a packet is the packet's number, 0 meaning "none stored", so
  that a reward can be traced to its packet.
* `rws` is a total map with default 0, as `unordered_map::operator[]`.
* **Counters**: an absent entry is `Unseen`, encoded as `UpdateFrequency`, a value
  that is never stored.
* **Crashes**: a call through the null `py` (`Segfault`) and the uncaught exception
  of `getNeighbor` (`NeighborException`) set `status` to `"crashed"`, after which
  only stuttering is possible.
* **Learner**: absent, listening, serving its one connection, closed. When it closes
  while `getPort` waits, `recv` returns at once for ever: the stutter `RecvSpins`.
* `owner`, `overrun`, `routed` and `sent` are history variables.
* **Two halves, one protocol.** `SimpleSwitch` has the learner as three actions,
  `NetEnv` has the switch as four. Both are shown to implement `LearnerSocket`, so
  what one half assumes of the other is what the other keeps. The switch of `NetEnv` sends
  any reward; that it is the one of the packet before, or 0, is `RewardAligned` of the switch,
  with its limits.
* **Environment.** `agent` is where the process is: in `reset`'s `recv`, holding an
  observation, in `step`'s `recv`, about to raise, dead. `judged` holds the locals of
  the step under way. Addresses and names are different keys, as integers and strings
  are. Rewards are integers in units of 1/200000, in which all the weights are whole;
  the queueing times the switch sends are any of `QTimes`. An observation is the set of the
  features that are 1, with the index arithmetic of `makeNPArray`. The running means
  and plots are only written and left out. What `getNodeByIp` cannot find, and a
  distance that is not in the table, raise: the process ends.
* **TCP.** A stopped switch leaves the connection closed in good order (`fin`) or
  reset. Data already sent is read first; writing to a closed connection succeeds
  once and is answered by a reset (`poked`, `reset`), after which `recv` and `sendall`
  raise. The 400 bytes of a request are read by one `recv(512)`.
* **Agent.** Baselines calls `reset`, then `step`s, and may call `reset` again at any
  time; it follows every reset by a step.
* `Rest` and `RecvSpins` stutter explicitly, so that TLC's deadlock check finds every
  other state in which nothing can happen.
* **Packet engine.** A P4 program is any choice at each point where the code reads what
  it asked for. A configuration is a number; a packet remembers the one its headers were
  made for. `InUse` is the set of packets some queue or thread holds, which is what
  `phvs_in_use` counts. The receiving thread and each call of `swap_configs` go through
  the steps of `do_swap` (find an order, take `ongoing_swap_mutex`, spin, move the
  pointers), since either may find the order of the other. A failed `assert(do_swap() ==
  0)` sets `aborted`, after which there are no steps.
* **Queues with rates.** Time is a counter that may also go back (the clock is the
  system's). The heap of a worker and priority is the union of what its queues hold
  there; its top is any element with the earliest time. A worker that finds nothing to take
  sleeps, until a push if nothing was ever pushed (`w_info.size`, which `pop_back` never
  decrements), else until a push or the first send time (the end of time if there is none);
  `notify_one` wakes it, and so does the time or, at any moment, nothing at all. A rate of 0
  packets per second, a delay of `1. / 0`, is left out.
* **Learn list.** A section under the mutex is one action; the transmit thread works
  without it from `TxTake` to `TxDone`, in three more steps. `notify_one` and
  `notify_all` wake threads that are waiting then, and no others. Sleeping with and
  without a time are different states. An iterator into the filter is the node it points
  to; using one whose node is gone is `undefined`, where the model stops.
* **Action profile.** Calls on the profile are atomic. A call on an indirect table
  holds the table's lock but not the profile's: checks and counts are steps of their own
  (`IncLoad`, `IncStore`, `DecStore`, `CheckNew`), and a count is read and written in two.
  So is the lookup of a packet: the hit (`LookupIndex`), the group's assertion and size
  (`LookupSize`), a member of it (`LookupNth`), the member's assertion (`LookupCheck`) and its
  action (`LookupDone`), with calls on the profile between them. Each step reads at once. What
  a call on the profile does to what a lookup reads next (bits that move, a vector that grows,
  an action written over) is undefined: the lookup is then *torn*, and ends the program or
  runs some action.
* **Match unit.** Calls hold the table's lock and are atomic. A key is the data it matches and
  its priority, a number up to `IntMax`; the scan starts from that and passes over an entry
  whose priority is not below it (`lookup_structures.cpp:262-269`). A handle carries, as
  history, the add it was returned to.
* **Ageing.** A sweep is atomic, under the table's shared lock; that it happens every
  interval is fairness.
* **Replication.** A node's L1 and L2 entry are made and destroyed together and are one
  record. `dead` is the exception of `at()` or the remainder by 0 in the ingress thread.

### What `upset` and `overrun` are

Some calls are followed by behaviour that is wrong in the code as it is. So that the
properties can say exactly what holds otherwise, a history variable `upset` remembers that
such a call was made, and the property excludes exactly the names that break it:

| module | name | what happened, and what goes wrong |
|---|---|---|
| `Learning` | `timeout` | `set_timeout` while the transmit thread sleeps without a time: it is not woken, and the samples wait for the next sample (`learning.cpp:319-324`) |
| | `cut` | `reset_state` while a buffer is full or being sent: the message goes out with an id, or samples, of the time before (`learning.cpp:505-515`) |
| | `stale` | an ack of a message from before a reset: ids start at 0 again, so it releases samples of another buffer |
| | `mixed` | `ack_buffer` after `ack` of some of its samples: `filter.erase` gets iterators that are gone (`learning.cpp:498`) |
| | `emptySwap` | two threads waited for the same swap: the second swaps an empty buffer, and takes an id for it |
| `ActionProfile` | `failedAdd` | the reference was counted and `add_entry` then failed: the count stays too high (`match_tables.cpp:684`) |
| | `failedModify` | the old reference was released and the new member or group refused: the count is too low (`match_tables.cpp:726-759`, `937-973`) |
| | `race` | a table was between its check and its count when the profile or another table changed it |
| | `default` | a member or group was deleted that is some table's default: defaults are not counted (`match_tables.cpp:975-998`) |
| | `emptied` | the last member left a group in use |
| | `reset` | `reset_state` clears members and entries but neither group handles nor defaults |
| `MatchUnit` | `reset` | the versions start at 0 again: handles from before fit new entries |

A torn lookup is not remembered in `upset`: `LookupSurvives` admits that one ends the program
while it is under way.

`overrun`, in the switch, is set when the ring hands out a position that a packet inside
still holds.

## Runs

| run | question | result |
|---|---|---|
| `cbuffer` | Does the ring alone, under any pushes and pops, keep its counter, head and order, and implement `FutureDestinations`? | holds |
| `shipped` | MLRouter as shipped, learner running: are rewards and the order of the ports right in every interleaving and with a clock set back, and does every packet leave? | holds; equal send times may overtake |
| `faults` | A learner absent, late or gone, frames of any kind, a table with an entry: when can the process die, do ring and requests stay consistent, does it keep to `LearnerSocket`? | dies only before the first connection; keeps to it |
| `env_spine` | A spine's environment, a switch that stays, resets at any time: right packet, right reward within `minRw` and `maxRw`, every request answered, no mutual wait? | holds |
| `env_faults` | A leaf's environment, a switch that stops anywhere, unknown addresses, addresses of routers: why and whether the process ends, is the protocol kept? | holds |
| `engine` | Clones, resubmissions, recirculations and multicasts through full queues, two clients swapping configurations: one configuration per packet, the swap asked for, progress for packets asked to do finitely much? | holds unless a resubmission meets a full input buffer |
| `queueing` | Two queues on one worker that sleeps, a rate set, capacities changed, the clock set back: exact sizes, order, progress once the pushes end? | holds; equal send times may overtake |
| `learning` | A learn list and a controller that acknowledges late, twice, in part, and resets: do filter, buffers and messages agree, is everything sent? | holds but for the calls of the table above |
| `pre` | Groups, nodes and LAGs in any order: one copy for each member, why can a packet take the process down? | implements `Membership`; only by a LAG without ports |
| `profile` | Two tables sharing a profile, called at once, calls that fail, a packet looked up in between: are counts exact, does an entry ever dangle, when is an assertion met? | holds but for the calls of the table above and torn lookups |
| `ageing` | A ternary table whose cache goes on and off, expired handles, the sweep: best match, right entry, every add notified when it is idle? | best match holds while slot 0 is used (see `ternary`) |
| `ternary` | `lookup_structures.h:123`: `lookup` sets the handle to the found value | violated once slot 0 is free |

`shipped` checks `RewardAligned` for at most `RWS_SIZE` packets and for the table as
shipped.

**The finding of `ternary`.** `EntryList::handle_from_entry` computes a handle as the
distance of an entry from `head`. `head` is the first entry of the list, `entries[0]` only
while slot 0 is in use. After the entry of slot 0 is deleted every lookup returns a handle
too low by the slot of the new head, so a packet gets the action of another slot, used or
not. TLC finds it with two adds, a delete and a lookup.

Six more configurations state what a document or a comment says and TLC refutes; they
are kept to reproduce the behaviour (`tlc -config <cfg> <module>`) and are not among the
runs:

| configuration | module | what is stated | why it is violated |
|---|---|---|---|
| `MCLeak.cfg` | `MCSwitch` | `ss/README.md:9-10`: "Once it reaches the MyEgress block, it's popped" | a packet dropped in ingress or by a full queue is never popped, its destination stays listed (`MLRouter.p4:118`) |
| `MCNoPort.cfg` | `MCSwitch` | `MLController.cpp:128`: a packet without a port is not forwarded | the 0 in `doForward` is overwritten at `MLController.cpp:131` |
| `MCRewardWrap.cfg` | `MCSwitch` | the reward is the previous packet's, also after ids wrap | `nextRw` is not advanced when `nextId` is 0 (`MLController.cpp:120`) |
| `MCNetEnvHistory.cfg` | `MCNetEnv` | `ss/README.md:19`: the port is chosen on the "action history for that destination" | written under addresses, read under names (`net_env.py:188`) |
| `MCNetEnvStale.cfg` | `MCNetEnv` | `net_env.py:318`: a reward comes with the message that arrives | after an exception an old one is used (`net_env.py:327`) |
| `MCNetEnvStranger.cfg` | `MCNetEnv` | `ss/README.md:19`: `getPort` "sends back the output port for that packet" | one unknown destination ends the environment (`net_env.py:173`) |

Known to go wrong in the code and in the model, without a run of their own:

* `push` hands out positions in turn whatever slots are free, so two queued packets can
  carry one position although fewer are inside than there are slots (`ccbuffer.h:67`;
  `OwnEntry` says what holds until then);
* the reward of a packet is read when the next one is routed; if egress has not written
  it by then, or the packet was dropped, 0 is sent and the time never is
  (`MLController.cpp:121`);
* a packet the table forwarded has `meta.id` 0 and overwrites `rws[0]`
  (`MLController.cpp:163`); the table as shipped forwards none;
* if the first IPv4 frame is for a MAC of no switch, the next frame that reaches egress
  without a rewritten source gives the switch its neighbour's name
  (`MLController.cpp:95`);
* when the switch closes the connection, `step` returns the bare queueing time as the
  reward (`net_env.py:324`);
* a packet resubmitted while the input buffer is full stops the switch: ingress
  waits for room only it can make (`simple_switch.cpp:427`);
* a P4 program may resubmit or recirculate a packet for ever: it never leaves, and an ordered
  swap of configurations is never made (`simple_switch.cpp:387-404`, `538-563`);
* packets of a port with equal send times, as a clock set back gives them, may leave in any
  order (`queueing.h:351-352`), and without a rate a higher priority can starve a lower one for
  ever (`queueing.h:397-399`);
* a request spells its destination as a signed number and the listed ones as unsigned ones
  (`pymodule.h:163`, `173`): they differ from 128.0.0.0 on. A
  queueing time is printed as a signed number, too;
* a lookup holds no lock of the profile: a call on the profile while a packet is between the
  steps of `ActionProfile::lookup` can end the program at the modulo by the size of an empty
  group or at an assertion, or have the packet run an action that is being written
  (`action_profile.cpp:123-128`, `167-183`);
* an entry of priority `INT_MAX` is never found (`lookup_structures.cpp:262-269`);
* `assert(do_swap() == 0)` fails when the receiving thread was quicker, and in a build
  without assertions `do_swap` is not called there at all (`switch.cpp:320`);
* `get_config` waits for as long as a swap spins with `config_mutex` held
  (`switch.cpp:421-424`);
* `load_new_config` goes on when the configuration could not be read (`context.cpp:728`);
* `set_entry_ttl` accepts expired handles, and a new entry inherits the timeout of the last
  one of its slot (`match_units.cpp:719`); so do the calls on an entry's counters and meters
  (`match_tables.cpp:214`, `235`, `248`, `260`), which are not modelled; after 256 entries of
  a slot its handle no longer fits (`match_units.cpp:40-42`);
* an entry that stays idle is notified again at every other sweep (`ageing.cpp:163`);
* `size(queue_id, priority)` returns the size over all priorities (`queueing.h:545-552`;
  the comment at 543 says "the occupancy of priority queue");
* destroying a group leaves its nodes associated with a group that is gone: until one of
  that number is created again they can be neither destroyed (`at` throws, nothing is
  changed) nor associated (`simple_pre.cpp:151`); and the handles are released inside an
  `assert`, so in a build without assertions they never are (`simple_pre.cpp:156-158`; the
  model has assertions on).

### Bounds

`NumPackets` bounds arrivals: 4 in `faults` and 3 in `shipped`, 5 in `MCRewardWrap.cfg`. The
ring has 2 slots in the switch runs, so that it overruns, wraps and evicts with 4 packets, and
5 in its own run, where holes, several turns and every head position occur. `shipped` has two
readings of the clock, so that it goes on, is set back, and gives ties; three packets are
enough for two of one port to be told apart by it while a third is routed between them.
`faults` has one reading: all send times are equal and the egress queues may hand out any
packet, which is the least order the code can have (3.5 million states). Queue capacities of 1 and 2
make every queue full somewhere. Two ports and two egress threads give independent
threads and one thread per port, as `port % 4` does for the ports of MLRouter;
`UpdateFrequency` 1 or 2 gives due and not-due packets of one destination;
`RwsSize` is below `NumPackets` or not, as the run's question needs. Addresses and
nodes are two each: one the property is about and one other. No symmetry is used.

`env_spine` has two leaves for neighbours and three requests, so that a reward is credited
twice and a history of two is full, with any queueing time in each of them; `env_faults`, a
leaf with one host and one spine for neighbours, has two requests, since the switch may stop
anywhere. A request lists one to three destinations or none, fewer and more than `FD_LENGTH`.
`QTimes` goes beyond `MAXQTIME`.

`engine`: capacities of 1 (per port, three ports on two egress threads), two frames and one
copy, so that every queue fills, a packet meets its own copy, and a resubmission can jam;
resubmissions and recirculations are not bounded, and the liveness properties have the premise
that they end (`AskedFinitely`); two clients and two configurations,
so that one may do the other's swap. `queueing`: two queues and two priorities on one
worker, three pushes, a clock of 0 to 2 and one step back, one change of a setting; equal send
times, drops, a priority that overtakes, a rate that delays and a worker that sleeps with and
without a time all occur. With one setting the run sets a rate but never lifts one; the
theorems about order and sizes cover that. `learning`: two
contents, buffers of one or two, one packet thread and one Thrift thread, both of which can
wait for the swap; three buffers, one reset, one change of the timeout. `MaxUpset = 1`
stops further calls, not further steps, once something of the table above has happened.
`profile`: two tables of one entry and two Thrift threads (symmetric: no property or action
names one of them), one thread that looks packets up, two members and one group, and together
one refused add or one default (`MaxExtra`; 6.3 million states). `ageing`: two slots, an entry
of the priority `IntMax`, handles with room for
two versions and four adds, so that versions wrap in a handle and the cache, of one place and
used from two entries, goes on and off. `pre`: three nodes, two groups, one LAG.

### Fairness

`Fairness` is weak fairness of the ingress thread, of each egress thread, of the
transmit thread and of the learner's answer: operating-system threads that run, and
a `step` that sends the port before it does anything else (`net_env.py:299-300`).
Nothing makes packets arrive or a learner start or stop. Under it
`EveryPacketLeaves` holds for a learner that stays; for one that closes the
connection while `getPort` waits it does not (`RecvSpins` goes on for ever).

In `NetEnv` the two processes and the network run (weak fairness), and the agent
steps again and again (strong fairness, since resets come in between). Nothing makes
the switch ask or stop.

`engine`: each thread, and each call once it has begun to swap, is fair, so mutexes are
granted; frames, calls and the order to swap are not. `EveryPacketEnds` and `SwapHappens` are
about packets asked to be resubmitted or recirculated finitely often, what a program asks for
being its own affair. `queueing`: a worker runs, wakes up when its time has come and else only
when it is notified, and the clock goes on up to its bound; `AllServed` is about runs in which
the pushes end (`PushesEnd`), which the bound on pushes makes all of them. `learning`: the
transmit thread and the thread woken by a notification run, the timeout passes; nobody has to
learn or to acknowledge. `ageing`: the sweep runs.

## Proofs

Eight modules prove, for every value of the constants, each safety invariant, action
property and refinement that the passing runs check. Every proof of an invariant has the same
shape: an inductive invariant, a conjunction of named parts; `Init => Inv`; one lemma per
action, or per part, for `Inv /\ [Next]_vars => Inv'`; and the properties as consequences.
TLC finds each of the inductive invariants to hold on the instances of the runs, too.

### Assumptions

The `ASSUME`s of the modules are all that is assumed, and TLC evaluates them on the runs.
Most say which sets the constants come from. Those with content:

* `TopologyAssumption` (`NetEnv`): distances are 1 to 4, which `minRw` and `maxRw` are made
  for; no host is the neighbour of a router of the backbone; each host has its block of the
  observation. `NetEnvAssumption` has every host in `distances.json` for every router;
* `MLControllerAssumption`: addresses are numbers below `AddressSpace`;
* `LearningAssumption`: the ids of buffers do not come round (`MaxId`, the bound on
  buffers, and the number of threads that may still swap one, are below `IdSpace`, the
  2^64 of the code);
* `ActionProfileAssumption`: fewer entries, groups and threads than a reference count, an
  `unsigned int`, can tell apart;
* `MatchUnitAssumption`: priorities are numbers up to `IntMax`, there is at least one slot and
  one version.

`RewardOfThePrevious` alone has hypotheses of its own: no entries in the table, as
MLRouter ships it, and at most `RWS_SIZE` packets. Without either the property is false:
`MCRewardWrap.cfg` shows the second, and "Known to go wrong" above has the first.

### The ring (`SwitchProofs`, first half)

`CBInv` is `CBTypeOK /\ CountMatches /\ HeadIsOldest`; the three are not inductive one
by one. A push that does not evict must add one to the number of valid slots, so the slot it
writes must be invalid: that is `HeadIsOldest` (slots outside the window from `head` to
`nextPos` are invalid). A push or pop that moves the head lands on a valid slot only if
there is one: that is `CountMatches`, since the code tests the counter.
`NextValidIsNext` is the lemma about the search loop; it takes the least step that meets a
valid slot, from the well-foundedness of `<` on the naturals. This gives `RingTypeCorrect`,
`CounterExact`, `HeadOldest`, `PushTerminates` (the search loop ends) and `EvictionInOrder`.

`RingIsTheList` proves that the ring implements `FutureDestinations`, the list of
insertions, oldest first. The walk of `getPort` is a recursive function, `Walk`; what it
returns is proved by the least place where it would go wrong: after *n* steps it has
listed the valid slots less than *n* places from head, once each, by age. There is exactly
one such list (`Ordered`), so a step need only be shown to give *a* list of that kind: a push
appends its slot, which has the greatest age, to what is left when the slot it writes is taken
out; a pop takes one slot out; moving the head changes every age by the same amount,
or the head was the slot taken out, so the order stays.

### The switch (`SwitchProofs`, second half)

For any number of packets, ports, egress threads and slots, any capacities, headers
and routes, and any learner:

* `RingInSwitch`: `Spec => CBSpec`. The switch only pushes addresses of packets and
  only pops positions of the ring, so every result about the ring alone, `RingIsTheList`
  among them, holds inside the switch;
* `PortOrderHolds`: packets of a port are sent in the order they came, but for those with one
  send time, for any readings of the clock;
* `NoStaleEntry`: a packet past its egress has no valid entry left, even if its slot
  was written again in between;
* `PacketsFindTheirEntries`: until the ring overruns, the position a packet carries from
  ingress to egress holds its own destination;
* `FutureInOrder`: what the walk lists are packets in the order of their arrival;
* `RequestsFit`: the number of destinations a request announces is the length of its
  list, the last is that of the packet it is about, and its own destination is the signed
  number of that address;
* `RewardOfThePrevious`: the reward in a request is that of the packet routed before, or none;
* `NoCrashOnceConnected`: after the first connection neither the null pointer nor the
  exception of `getNeighbor` can be met;
* `KeepsSocketProtocol`: the switch implements `LearnerSocket`;
* `SwitchTypeCorrect`: all of `TypeOK`.

The inductive invariant `SwitchInv` adds to `CBInv`, the types and the properties
themselves:

* `InputInOrder`: the input buffer holds the packets numbered after those taken, so
  the one in ingress has a greater number than all that are past it;
* `EgressInOrder`: each packet that was sent may leave before those in the output buffer, those
  before the one an egress thread holds, that one before the queue of its thread: two packets
  may if they are of different ports, came in that order or have one send time. `SendsInOrder`
  is why a pop keeps this: in a queue the send times of a port do not decrease with the order
  of arrival, since a port's last one is never gone below.
  `PortOrder` alone says nothing of packets that have not left, and the order
  is only kept because a packet past ingress never changes its port (`LinesKept`);
* `EntriesOwned`: a valid slot belongs to an IPv4 packet that is past its push and
  carries the slot's position. `NoEntryAfterEgress` needs it: the pop of a packet
  removes its own entry because no valid slot of another position can be its own;
* `EntriesInOrder`: slots farther from head belong to later packets. `OldestFirst` speaks
  of the walk, whose length changes with every step; this part speaks of slots and ages, and
  `ListedByOwner` carries it over;
* `NewestEntry`: the packet that is about to ask for its port was pushed last, since ingress
  is one thread and egress only pops;
* `SocketInOrder`: a question or an answer is there only while ingress waits for it, and not
  both. The request is therefore about the packet in ingress for as long as it is there;
* `PortOrNoLearner`: a port of -1 is only ever held while there is no learner;
* `CtrlTypes`, `HistoryTypes`, `RoutedSoFar` and `Capacities`: what `TypeOK` needs besides.

The rewards have an invariant on top of it, `RewardInv`: `nextId` and `nextRw` follow the
number of packets routed (`Indices`), every reward is stored at the place of its own packet
(`RewardsStored`), and all packets that may still store one carry that place
(`AllNumbered`, which a table entry would break).

`Frame` says which action changes which variable; the proof that a part is kept
looks only at the actions it names. `Queues` and `InOrderKept` give what an append
and a tail do, so that no induction over the length of a queue is needed.

### The environment (`NetEnvProofs`)

For any topology, number of requests and lengths of the histories, and with a switch that may
stop at any step:

* `NoMutualWait`: the environment and the switch never wait for one another;
* `RewardsEarned`: while the switch runs, the action answered to a request and its destination
  are credited with the queueing time of the next request, whatever times the switch sends;
* `RewardsInRange`: a reward computed from a message lies between `minRw` and `maxRw`. The
  end of an episode is given a bare queueing time, which the property leaves out;
* `ObservesWaitingPacket`: the observation the agent decides on is of the packet that waits;
* `DeathsExplained`: the process ends only if the switch is gone or a request listed an
  address of no host;
* `KeepsProtocol`: `Spec => LSSpec` under the mapping of `NetEnvProperties`;
* `EnvTypeCorrect`.

The invariant `EnvInv` consists of the types, of `Turn` (the six ways an open connection can
stand, from which the mutual wait is missing), of `Broken` (only the switch's end breaks the
connection), of `Deaths`, of `Earnings` (what the step under way has recorded and how many
answers were taken, without which a reward cannot be traced to its action when the next
message arrives), of `JudgedInRange` (a packet is not both delivered and dropped; the backbone
only measures distances), and of `Held` and `Remembered` (the destinations that are encoded are
the newest of the request that waits; no history is longer than its part of the observation).

### The packet engine (`EngineProofs`)

For any ports, egress threads, capacities, clients and numbers of packets and configurations:

* `PacketsKeepTheirConfig`: the headers of every packet alive are of the running
  configuration;
* `SwapDoesWhatWasAsked`: when `swap_configs` ends, by return or by its assertion, what it
  was called for is running.

`OneConfig` is not inductive: a swap keeps it only if there are no packets, which was
tested a step before. `EngineInv` adds `HandsFull` (a thread past its first step holds a
packet), `SwapLock` (who spins or swaps holds `ongoing_swap_mutex`, so that there is one,
and no packet is created then) and `SwapEmpty` (from the end of the spin to the swap nothing
is inside: `Carried` says that no step makes a packet from nothing, and copies are made from
packets). `Asked` relates the orders still pending to the configuration being loaded.

### The queues (`QueueingProofs`)

`NoOvertakingButTies`: a priority of a queue is first in first out but for equal send times,
whatever rates and capacities are set and wherever the clock goes. `InOrder` is the
strengthening: within a priority of a queue the send times do not decrease with the order of
arrival, because `get_next_tp` never goes below `last_sent`; a pop takes one with the earliest
time.

`CountersExact`: the sizes by which `push_front` drops are exact, per priority and per queue.
`Counted` adds that no element waits in two priorities; the size of a queue is stated as
the number of elements of their union, so that a push and a pop change one set by one
element.

### The learn list (`LearningProofs`)

For any contents, numbers of threads, settings and bounds, with acknowledgements in any order
and number, threads that wait to swap, and a reset at any step of the transmit thread:

* `StructuresInStep`: filter, unacknowledged buffers and their counts agree;
* `MessagesAreTheirBuffers`: a message has the id and the samples of one buffer, ids go
  out once and in order, and no ack uses an iterator that is gone;
* `NothingIsForgotten`: each sample in the filter is in a buffer or was sent.

Each for what `upset` admits. `MessageIsItsBuffer` relates a message to a list that exists from
the first sample until the last ack, over five steps of the transmit thread without the mutex.
`LearningInv` says what holds in each of them: `Sending` (the message under way is of the
buffer before the current one, those sent are of earlier ones), `Listing` (collected, full
and sent buffers are listed with their contents), `Keeping` (where a node of the filter
is until it is acknowledged), `InPlace` (a node knows its buffer and place, so that acks of
different buffers cannot meet) and `Counting` (after the last buffer only the threads already
waiting swap again, which is why ids do not come round).

### Replication (`PreProofs`)

`DeathsByLag` and `ImplementsMembers`: the bags, back pointers and entries implement
`Membership`. The inductive invariant is `ListsExact` with the types: a group lists a
node at most once and that node points back to it, without which a destroyed handle could be
listed still when it is given out again.

### Match units (`AgeingProofs`)

For any keys, table size, cache and number of versions:

* `HandlesReachTheirEntries`, for `delete_entry` and `modify_entry`. `UnitInv` adds that the
  handles of a slot are of versions up to the one it has, and below it when the slot is free
  (`VersionsPast`), until a reset; and that whoever added an entry that is still there has its
  handle (`HandlesGiven`), always;
* `PacketsFindTheBest`: while slot 0 is in use, a lookup finds the best match of a priority
  below `IntMax`, by the scan or by the cache. `TableInv` is `UnitInv` with `ListInv` (the
  list is the slots in use in increasing order, which inserting at `PlaceOf` and removing
  keep) and `CacheInv` (what is cached is what the scan would find, and the cache is empty
  while it is not used). An add or delete empties the cache before the list is another; a
  modification changes no key.

### Action profiles (`ActionProfileProofs`)

For any tables, keys, threads, members and groups: `CountsAreExact`, `NoReferenceDangles` and
`LookupsSurvive`, each for what `upset` admits (the last also unless a lookup was torn). A
count is exact only between calls, and a call on a table takes up to four steps without the
profile's lock. `APInv` says what it is in the middle: it counts the entries that hold the
index, less those whose `modify_entry` has given the reference back already (`Held`), the
groups that list it, and at most one more for each thread whose add failed or will (`Doomed`).
The model's bound on failing adds (one at most, `MaxExtra`) enters here: every failed add
leaves its reference for good, so in the code enough of them would bring a count round to 0. A
member whose count is 0 has then no holder, and may be deleted, unless a call has checked it
and not counted it yet (`Taking`): that is a `race`, after which nothing is claimed. `LookInv`
is about a lookup under way that was not torn: its index is what its table has for a packet
still, since calls on the table wait for it (`HoldInv`), its group has a member and is not
freed, the member it chose is there; each call on the profile either tears it or leaves what
it reads next as it is (`ProfileKeepsLooks`). `Calls` (one call at a time on a table) is what
makes the index a call holds the one of its entry.

### Not proved, only model-checked

Liveness and what rests on fairness: `EveryPacketLeaves`, `RequestAnswered`, `OrphanStops`,
`LearnedIsSent`, `AllServed`, `IdleIsNotified`, `SwapHappens` and `EveryPacketEnds`. They
need `ENABLED` under weak and strong fairness, which the prover does not handle. The
violations (`ternary` and the six configurations above) are counterexamples and need no proof.

## Plan

1. (done) `CBuffer`, `MLController`, `SimpleSwitch`, their runs; proofs about the ring
   and about the order, the entries and the deaths of the switch.
2. (done) `NetEnv` and `LearnerSocket`, their runs and proofs.
3. (done) The behavioral model below the router: `Queueing`, `SwitchEngine`, `Learning`,
   `SimplePre`, `ActionProfile`, `MatchUnit` with `Ageing`.
4. (done) Proofs of every safety property of the runs.
5. Proofs that go beyond the runs: safety facts the liveness properties rest on (a packet
   inside is always held by exactly one queue or thread; a thread that waits for a swap
   finds one), and the action properties behind `upset` (only the named calls set it).
6. Models: the ring at the granularity of its mutexes, without the extern's lock; the
   exact-match and LPM structures; direct counters and meters; a network of routers (loops, TTL).

## Not modelled

Of the router: parsing of `topology.db`, `p4app.json` and `distances.json`; logs; the TTL
(decremented, never tested); checksums; the 10 s sleep of the first packet; `isIngress`
(written, never read); the disabled `update_routes`; the variants of `MLController.cpp` and
`rewardsQ.h`, which the build does not use; example externs; iperf scripts. They are I/O, or
code that does not run.

Of the behavioral model: parser, deparser, header fields, expressions, action primitives,
checksums, counters, meters (also those of table entries: `query_counters`, `write_counters`,
`set_meter_rates`, `get_meter_rates`), `set_rate` with 0 packets per second, registers, the
JSON reader, Thrift, the logger, packet I/O. They transform data or move bytes, and MLRouter
takes them as they are. The exact-match map is a library's; the LPM trie (`third_party`) is a
data structure with no concurrency of its own. `SwitchEngine` has one context, as
`simple_switch` has.

p4c, PI and p4c-bmv2, nine tenths of the lines of the repository, are vendored compilers and
libraries: they run before the router does and no step of it calls them. A compiler's passes
are transformations of programs, which have no states to explore; so the share of the
repository's lines that this project maps stays small.
