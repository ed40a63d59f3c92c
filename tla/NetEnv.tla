------------------------------- MODULE NetEnv -------------------------------
(***************************************************************************)
(* The learner's environment (rl/net-env/net_env/envs/net_env.py) of one   *)
(* router: reset and step, with the socket they read and write, the        *)
(* history of actions and the rewards, on the topology of loadtopo.py.     *)
(* The switch at the other end is PyModule::getPort asking again and       *)
(* again; the agent is whatever calls reset and step.                      *)
(*                                                                         *)
(* Requests are numbered by asking.  The reward of a request is a queueing *)
(* time: the environment takes it for that of the request before, which    *)
(* the switch does not always send (RewardAligned of SwitchProperties).    *)
(***************************************************************************)
EXTENDS Integers, Sequences

CONSTANTS
  Addresses,     (* the addresses packets may be for                       *)
  NoAddress,     (* the current destination (0) before the first request   *)
  NodeOf,        (* address -> name of its node, for the known ones        *)
  Hosts,         (* the names of the hosts, in the order of p4app.json     *)
  Digit,         (* name -> the number that follows its letter             *)
  NPorts,        (* nports of this router                                  *)
  Neighbor,      (* port -> name of the node behind it                     *)
  Distances,     (* distances.json: name -> name -> hops                   *)
  IsBackbone,    (* "s" in id                                              *)
  FdLength,      (* FD_LENGTH (2)                                          *)
  AhLength,      (* AH_LENGTH (2)                                          *)
  NHosts,        (* NHOSTS (4)                                             *)
  MaxPorts,      (* MAXPORTS (5)                                           *)
  QTimes,        (* the queueing times a request may carry                 *)
  Listed,        (* the lists of destinations a request may carry          *)
  NumRequests,   (* bound: requests of the behaviour                       *)
  SwitchMayGo    (* the switch may be stopped                              *)

Actions == 1 .. NPorts
Names == DOMAIN Digit
HostNames == {Hosts[i] : i \in DOMAIN Hosts}

ASSUME NetEnvAssumption ==
  /\ NoAddress \notin Addresses
  /\ DOMAIN NodeOf \subseteq Addresses
  /\ \A address \in DOMAIN NodeOf : NodeOf[address] \in Names
  /\ "error" \notin Names
  /\ NPorts \in Nat /\ NPorts <= MaxPorts
  /\ HostNames \subseteq Names
  /\ Neighbor \in [Actions -> HostNames \cup DOMAIN Distances]
  /\ \A name \in DOMAIN Distances : HostNames \subseteq DOMAIN Distances[name]
  /\ FdLength \in Nat /\ AhLength \in Nat \ {0} /\ MaxPorts \in Nat /\ NHosts \in Nat
  /\ \A name \in Names : Digit[name] \in 1 .. NHosts
  /\ NumRequests \in Nat
  /\ QTimes \subseteq Nat /\ 0 \in QTimes
  /\ Listed \subseteq Seq(Addresses)

VARIABLES
  agent,           (* starting, resetting (in reset's recv), deciding      *)
                   (* (holds an observation), stepping (in step's recv),   *)
                   (* raising (step is about to raise) or dead             *)
  conn,            (* the connection: listening, open, fin (the switch     *)
                   (* closed it), poked (and was written to since), reset  *)
                   (* (by the switch's machine) or closed                  *)
  inbox,           (* the request sent and not read, 0 if none             *)
  outbox,          (* the port sent back and not received, 0 if none       *)
  curDst, dsts,    (* self.state: current and future destinations          *)
  lastReward,      (* self.pkt.reward                                      *)
  resetvar,        (* reset has read its message                           *)
  actionHistory,   (* destination -> its last actions                      *)
  judged,          (* the locals of the step under way                     *)
  switch,          (* the switch: idle, waiting or gone                    *)
  asked,           (* the requests asked so far                            *)
  \* history variables
  answered,        (* the ports the switch has received                    *)
  reward           (* the last reward step computed or returned            *)

stateVars  == <<curDst, dsts>>
switchVars == <<switch, asked, answered>>
vars == <<agent, conn, inbox, outbox, stateVars, lastReward, resetvar,
          actionHistory, judged, switchVars, reward>>

(* The address asked for need not be one of those listed: after an overrun *)
(* of the ring, or when the switch prints the two differently, it is not.  *)
Requests == [addr : Addresses, dests : Listed, reward : QTimes]

Judgement == [for |-> 0, dst |-> NoAddress, action |-> 0,
              distance |-> 0, dropped |-> 0, delivered |-> 0]

NoRw == [for |-> 0, dst |-> NoAddress, action |-> 0, qtime |-> 0, rw |-> 0, done |-> FALSE]

Init ==
  /\ agent = "starting" /\ conn = "listening"
  /\ inbox = 0 /\ outbox = 0
  /\ curDst = NoAddress /\ dsts = <<>>
  /\ lastReward = 0
  /\ resetvar = FALSE
  /\ actionHistory = [address \in Addresses \cup {NoAddress} |-> <<>>]
  /\ judged = Judgement
  /\ switch = "idle" /\ asked = <<>> /\ answered = <<>>
  /\ reward = NoRw

-----------------------------------------------------------------------------
(* Pure parts: the topology, the reward, the bounded histories and the     *)
(* observation.                                                            *)

GetNodeByIp(address) == IF address \in DOMAIN NodeOf THEN NodeOf[address] ELSE "error"

(* The neighbour behind the chosen port: a host is delivered the packet if *)
(* it is for it, and drops it otherwise; to another router the packet goes *)
(* on from its distance to the target.                                     *)
Judged(dst, action) ==
  LET target == GetNodeByIp(dst)
      this   == [Judgement EXCEPT !.for = Len(asked), !.dst = dst, !.action = action]
  IN
  IF Neighbor[action] \notin HostNames
    THEN [this EXCEPT !.distance = Distances[Neighbor[action]][target]]
  ELSE IF target = Neighbor[action]
    THEN [this EXCEPT !.delivered = 1]
    ELSE [this EXCEPT !.dropped = 1]

(* The table of distances has no entry for an address of no node, nor for  *)
(* the router it belongs to: the lookup raises.                            *)
Judgeable(dst, action) ==
  \/ Neighbor[action] \in HostNames
  \/ GetNodeByIp(dst) \in DOMAIN Distances[Neighbor[action]]

Lambda1 == 200000
Lambda4 == 1000
MaxQTime == 10000
MinDistance == 1
MaxDistance == 4

(* A slip: the queueing time not capped.                                   *)
MakeRw2Uncapped(j, qtime) ==
  200000 * (j.delivered - j.dropped) - qtime - (IF IsBackbone THEN 1000 * j.distance ELSE 0)

(* makeRw2, in units of 1/200000, which make LAMBDA1 and LAMBDA3 200000,   *)
(* LAMBDA2 1 per microsecond and LAMBDA4 1000.                             *)
MakeRw2(j, qtime) ==
  LET capped == IF qtime > MaxQTime THEN MaxQTime ELSE qtime IN
  Lambda1 * (j.delivered - j.dropped) - capped
    - (IF IsBackbone THEN Lambda4 * j.distance ELSE 0)

MinRw == -MaxQTime - (IF IsBackbone THEN Lambda4 * MaxDistance ELSE Lambda1)
MaxRw == IF IsBackbone THEN -Lambda4 * MinDistance ELSE Lambda1

(* The distances are those minRw and maxRw are made for, no host hangs on  *)
(* a backbone router, and every host has its block of the observation.     *)
ASSUME TopologyAssumption ==
  /\ \A name \in DOMAIN Distances : \A other \in DOMAIN Distances[name] :
       Distances[name][other] \in MinDistance .. MaxDistance
  /\ IsBackbone \in BOOLEAN
  /\ IsBackbone => \A action \in Actions : Neighbor[action] \notin HostNames
  /\ Hosts \in Seq(HostNames) /\ Len(Hosts) <= NHosts

(* A slip: a bounded queue that refuses what is new.                       *)
Oldest(q, n) == IF Len(q) <= n THEN q ELSE SubSeq(q, 1, n)

(* What a deque of length n keeps of q: its newest elements.               *)
Newest(q, n) == IF Len(q) <= n THEN q ELSE SubSeq(q, Len(q) - n + 1, Len(q))

(* addAction: under the destination's address.                             *)
AddAction(dst, action) ==
  actionHistory' = [actionHistory EXCEPT ![dst] = Newest(Append(@, action), AhLength)]

(* makeNPArray: the indices of the features that are 1.  Destinations are  *)
(* encoded by the digit of their node's name, block 0 for the current one; *)
(* then come the actions, looked for under the names of the hosts.         *)
DestinationFeature(block, address) == block * NHosts + Digit[GetNodeByIp(address)] - 1

ActionsOf(name) ==
  IF name \in DOMAIN actionHistory THEN actionHistory[name] ELSE <<>>

HistoryStart(h) == FdLength * NHosts + NHosts + (h - 1) * MaxPorts * AhLength

MakeNPArray ==
  {DestinationFeature(0, curDst)}
  \cup {DestinationFeature(i, dsts[i]) : i \in DOMAIN dsts}
  \cup UNION {{HistoryStart(h) + (i - 1) * NPorts + ActionsOf(Hosts[h])[i] - 1 :
                 i \in DOMAIN ActionsOf(Hosts[h])} : h \in DOMAIN Hosts}

NFeatures == AhLength * MaxPorts * NHosts + FdLength * NHosts + NHosts

(* A slip: fewer future destinations than FD_LENGTH not padded for.        *)
EncodableFull(cur, future) ==
  /\ Len(future) = FdLength
  /\ \A address \in {cur} \cup {future[i] : i \in DOMAIN future} : address \in DOMAIN NodeOf

(* The digit of "error" is no digit: makeNPArray raises if any of the      *)
(* destinations is unknown.                                                *)
Encodable(cur, future) ==
  \A address \in {cur} \cup {future[i] : i \in DOMAIN future} : address \in DOMAIN NodeOf

-----------------------------------------------------------------------------
(* The switch: getPort connects the first time, asks with the destinations *)
(* listed and the reward it has for a packet routed before, and waits.     *)

SwitchConnects ==
  /\ switch = "idle" /\ asked = <<>>
  /\ conn = "listening"
  /\ conn' = "open"
  /\ UNCHANGED <<agent, inbox, outbox, stateVars, lastReward, resetvar, actionHistory,
                 judged, switchVars, reward>>

SwitchAsks ==
  /\ switch = "idle"
  /\ Len(asked) < NumRequests
  /\ conn # "listening"
  /\ \E request \in Requests : asked' = Append(asked, request)
  /\ switch' = "waiting"
  /\ inbox' = IF conn = "open" THEN Len(asked) + 1 ELSE inbox
  /\ UNCHANGED <<agent, conn, outbox, stateVars, lastReward, resetvar, actionHistory,
                 judged, answered, reward>>

SwitchTakes ==
  /\ outbox # 0
  /\ answered' = Append(answered, outbox)
  /\ outbox' = 0
  /\ switch' = "idle"
  /\ UNCHANGED <<agent, conn, inbox, stateVars, lastReward, resetvar, actionHistory,
                 judged, asked, reward>>

(* The switch's process ends: the connection is closed in good order or,   *)
(* always if a port was left unread, with a reset.                         *)
SwitchGoes ==
  /\ SwitchMayGo
  /\ switch # "gone"
  /\ switch' = "gone"
  /\ IF conn = "open"
     THEN conn' \in (IF outbox = 0 THEN {"fin", "reset"} ELSE {"reset"})
     ELSE UNCHANGED conn
  /\ outbox' = 0
  /\ UNCHANGED <<agent, inbox, stateVars, lastReward, resetvar, actionHistory,
                 judged, asked, answered, reward>>

(* What was written to a closed connection is answered with a reset.       *)
ResetArrives ==
  /\ conn = "poked"
  /\ conn' = "reset"
  /\ UNCHANGED <<agent, inbox, outbox, stateVars, lastReward, resetvar, actionHistory,
                 judged, switchVars, reward>>

-----------------------------------------------------------------------------
(* The environment.  Its process ends when reset or step raises.           *)

(* __init__ accepts one connection; the agent then calls reset.            *)
Accept ==
  /\ agent = "starting"
  /\ conn # "listening"
  /\ agent' = "resetting"
  /\ UNCHANGED <<conn, inbox, outbox, stateVars, lastReward, resetvar, actionHistory,
                 judged, switchVars, reward>>

(* The end of reset and of step: the observation is made, or making it     *)
(* raises and the process ends; c is the connection otherwise.             *)
Observe(cur, future, c) ==
  IF Encodable(cur, future)
  THEN agent' = "deciding" /\ conn' = c
  ELSE agent' = "dead" /\ conn' = "closed"

(* setDsts with the destinations pushDst kept of request number i.         *)
SetDsts(i) ==
  /\ curDst' = asked[i].addr
  /\ dsts' = Newest(asked[i].dests, FdLength)
  /\ inbox' = 0

(* Slips: a recv that does not wait; a reset that does not look whether it *)
(* has read its message.                                                   *)
NoDataAtOnce == inbox = 0 /\ conn # "reset"

ResetAgainReads ==
  /\ agent = "deciding"
  /\ agent' = "resetting"
  /\ UNCHANGED <<conn, inbox, outbox, stateVars, lastReward, resetvar, actionHistory,
                 judged, switchVars, reward>>

NoData == inbox = 0 /\ conn \in {"fin", "poked"}
RecvRaises == inbox = 0 /\ conn = "reset"

ResetReads ==
  /\ agent = "resetting"
  /\ inbox # 0
  /\ SetDsts(inbox)
  /\ resetvar' = TRUE
  /\ Observe(curDst', dsts', conn)
  /\ UNCHANGED <<outbox, lastReward, actionHistory, judged, switchVars, reward>>

(* The connection was closed before the first message: None is returned    *)
(* for an observation.                                                     *)
ResetNoData ==
  /\ agent = "resetting"
  /\ NoData
  /\ agent' = "deciding"
  /\ UNCHANGED <<conn, inbox, outbox, stateVars, lastReward, resetvar, actionHistory,
                 judged, switchVars, reward>>

ResetFails ==
  /\ agent = "resetting"
  /\ RecvRaises
  /\ resetvar' = TRUE
  /\ Observe(curDst, dsts, "closed")
  /\ UNCHANGED <<inbox, outbox, stateVars, lastReward, actionHistory, judged,
                 switchVars, reward>>

(* A reset once the first message has been read returns the observation    *)
(* of the state there is; before, it goes back to the socket.              *)
ResetAgain ==
  /\ agent = "deciding"
  /\ agent' = IF resetvar THEN agent ELSE "resetting"
  /\ UNCHANGED <<conn, inbox, outbox, stateVars, lastReward, resetvar, actionHistory,
                 judged, switchVars, reward>>

(* step(action - 1) up to recv: the action is recorded and sent, then      *)
(* judged.                                                                 *)
StepSends(action) ==
  /\ agent = "deciding"
  /\ conn \notin {"reset", "closed"}
  /\ AddAction(curDst, action)
  /\ outbox' = IF conn = "open" THEN action ELSE outbox
  /\ conn' = IF conn = "fin" THEN "poked" ELSE conn
  /\ IF Judgeable(curDst, action)
     THEN agent' = "stepping" /\ judged' = Judged(curDst, action)
     ELSE agent' = "raising" /\ UNCHANGED judged
  /\ UNCHANGED <<inbox, stateVars, lastReward, resetvar, switchVars, reward>>

(* A slip: the exception of sendall caught like that of recv.              *)
SendRaisesCaught(action) ==
  /\ agent = "deciding"
  /\ conn \in {"reset", "closed"}
  /\ AddAction(curDst, action)
  /\ conn' = "closed"
  /\ UNCHANGED <<agent, inbox, outbox, stateVars, lastReward, resetvar, judged,
                 switchVars, reward>>

SendRaises(action) ==
  /\ agent = "deciding"
  /\ conn \in {"reset", "closed"}
  /\ AddAction(curDst, action)
  /\ agent' = "dead" /\ conn' = "closed"
  /\ UNCHANGED <<inbox, outbox, stateVars, lastReward, resetvar, judged, switchVars, reward>>

StepRaises ==
  /\ agent = "raising"
  /\ agent' = "dead" /\ conn' = "closed"
  /\ UNCHANGED <<inbox, outbox, stateVars, lastReward, resetvar, actionHistory, judged,
                 switchVars, reward>>

(* A slip: the destination read after the message has replaced it.         *)
EarnedByNext(qtime) ==
  [for |-> judged.for, dst |-> curDst', action |-> judged.action,
   qtime |-> qtime, rw |-> MakeRw2(judged, qtime), done |-> FALSE]

(* The reward of the step under way, with a queueing time.                 *)
Earned(qtime) ==
  [for |-> judged.for, dst |-> judged.dst, action |-> judged.action,
   qtime |-> qtime, rw |-> MakeRw2(judged, qtime), done |-> FALSE]

StepReads ==
  /\ agent = "stepping"
  /\ inbox # 0
  /\ SetDsts(inbox)
  /\ lastReward' = asked[inbox].reward
  /\ reward' = Earned(lastReward')
  /\ Observe(curDst', dsts', conn)
  /\ UNCHANGED <<outbox, resetvar, actionHistory, judged, switchVars>>

(* No data: the episode is over, with the bare queueing time of the packet *)
(* before for a reward.                                                    *)
StepNoData ==
  /\ agent = "stepping"
  /\ NoData
  /\ reward' = [Earned(lastReward) EXCEPT !.rw = Lambda1 * lastReward, !.done = TRUE]
  /\ Observe(curDst, dsts, conn)
  /\ UNCHANGED <<inbox, outbox, stateVars, lastReward, resetvar, actionHistory, judged,
                 switchVars>>

(* An exception: the sockets are closed and step goes on with the packet   *)
(* it had.                                                                 *)
StepFails ==
  /\ agent = "stepping"
  /\ RecvRaises
  /\ reward' = Earned(lastReward)
  /\ Observe(curDst, dsts, "closed")
  /\ UNCHANGED <<inbox, outbox, stateVars, lastReward, resetvar, actionHistory, judged,
                 switchVars>>

-----------------------------------------------------------------------------

StepCalled == \E action \in Actions : StepSends(action) \/ SendRaises(action)

EnvReads ==
  \/ Accept
  \/ ResetReads \/ ResetNoData \/ ResetFails
  \/ StepReads \/ StepNoData \/ StepFails \/ StepRaises

(* Nothing is left to happen: the learner or the switch is over, or all    *)
(* the requests of the bound are answered.                                 *)
Rest ==
  /\ \/ agent = "dead"
     \/ switch = "gone" /\ conn = "listening"
     \/ switch = "idle" /\ Len(asked) = NumRequests
  /\ UNCHANGED vars

Next ==
  \/ SwitchConnects \/ SwitchAsks \/ SwitchTakes \/ SwitchGoes \/ ResetArrives
  \/ EnvReads \/ ResetAgain \/ StepCalled
  \/ Rest

(* Both processes and the network run; the agent steps after it resets     *)
(* (baselines follows every reset with a step).                            *)
Fairness ==
  /\ WF_vars(SwitchTakes)
  /\ WF_vars(ResetArrives)
  /\ WF_vars(EnvReads)
  /\ SF_vars(StepCalled)

Spec == Init /\ [][Next]_vars

FairSpec == Spec /\ Fairness

=============================================================================
