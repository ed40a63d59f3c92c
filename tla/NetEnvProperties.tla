-------------------------- MODULE NetEnvProperties --------------------------
(***************************************************************************)
(* What the environment promises the switch and the agent, and what the    *)
(* documents say of it.                                                    *)
(***************************************************************************)
EXTENDS NetEnv

(* Types of the environment, the socket and the switch's side of it.       *)
NetEnvTypeOK ==
  /\ agent \in {"starting", "resetting", "deciding", "stepping", "raising", "dead"}
  /\ conn \in {"listening", "open", "fin", "poked", "reset", "closed"}
  /\ inbox \in 0 .. Len(asked)
  /\ outbox \in Actions \cup {0}
  /\ curDst \in Addresses \cup {NoAddress}
  /\ dsts \in Seq(Addresses)
  /\ lastReward \in QTimes
  /\ resetvar \in BOOLEAN
  /\ actionHistory \in [Addresses \cup {NoAddress} -> Seq(Actions)]
  /\ judged.for \in 0 .. NumRequests
  /\ switch \in {"idle", "waiting", "gone"}
  /\ asked \in Seq(Requests) /\ Len(asked) <= NumRequests
  /\ answered \in Seq(Actions)

(* The environment never waits for a message while the switch waits for    *)
(* its answer, however often the agent resets: one recv per request.       *)
NeverBothWait ==
  ~ /\ switch = "waiting" /\ conn = "open"
    /\ inbox = 0 /\ outbox = 0
    /\ agent \in {"resetting", "stepping"}

(* The observation the agent decides on describes the packet that waits in *)
(* the switch: its destination first, then the newest of the destinations  *)
(* listed with it, one feature per block, all within the observation space.*)
Block(k) == {f \in MakeNPArray : k * NHosts <= f /\ f < (k + 1) * NHosts}

Expected(request, k) ==
  LET older == IF Len(request.dests) > FdLength THEN Len(request.dests) - FdLength ELSE 0
      dst   == IF k = 0 THEN request.addr ELSE request.dests[older + k]
  IN
  IF older + k <= Len(request.dests)
  THEN {k * NHosts + Digit[GetNodeByIp(dst)] - 1}
  ELSE {}

DecidesOnWaitingPacket ==
  agent = "deciding" /\ conn = "open" =>
    /\ MakeNPArray \subseteq 0 .. NFeatures - 1
    /\ \A k \in 0 .. FdLength : Block(k) = Expected(asked[Len(asked)], k)

(* As long as the switch runs, the action the switch was answered for a    *)
(* request, and that request's destination, are credited with the queueing *)
(* time that came with the very next request, whatever the agent reset in  *)
(* between.  That this time is the one of the request's own packet is the  *)
(* switch's part: RewardAligned of SwitchProperties, with its limits.      *)
RewardOfItsAction ==
  switch # "gone" /\ reward.for # 0 =>
    /\ reward.for < Len(asked)
    /\ reward.qtime = asked[reward.for + 1].reward
    /\ reward.action = answered[reward.for]
    /\ reward.dst = asked[reward.for].addr

(* net_env.py:318: "as msg arrives store fields in state(t + 1) and        *)
(* reward(t)": a reward made by makeRw2 comes from the message that        *)
(* followed the action it rewards.                                         *)
RewardFromMessage == reward.for # 0 /\ ~ reward.done => Len(asked) > reward.for

(* A reward step computes with makeRw2 lies between the bounds of minRw   *)
(* and maxRw, as the axes of net_env.py:379 have it.  The end of the       *)
(* episode (net_env.py:324) is given the bare queueing time instead.       *)
RewardInRange ==
  reward.for # 0 /\ ~ reward.done => MinRw <= reward.rw /\ reward.rw <= MaxRw

(* Addresses of hosts: the ones every part of the environment can handle.  *)
OfHosts(request) ==
  /\ GetNodeByIp(request.addr) \in HostNames
  /\ \A i \in DOMAIN request.dests : GetNodeByIp(request.dests[i]) \in HostNames

(* The environment's process only ends after the switch has gone, or on a  *)
(* request that is for, or lists, an address of no host.                   *)
DeathExplained ==
  agent = "dead" => switch = "gone" \/ \E i \in DOMAIN asked : ~ OfHosts(asked[i])

(* A switch that stays gets an answer to every request (README of          *)
(* simple_switch, line 19: getPort "sends back the output port for that    *)
(* packet").                                                               *)
RequestAnswered == switch = "waiting" ~> switch # "waiting"

(* An environment whose switch is gone does not go on learning for ever.   *)
OrphanStops == switch = "gone" /\ conn # "listening" ~> agent = "dead"

(* The environment is the learner LearnerSocket promises the switch.       *)
NoQuestion == [addr |-> NoAddress]

PeerState ==
  CASE conn = "listening" -> "listening"
    [] conn = "closed"    -> "closed"
    [] OTHER              -> "serving"

Question == IF switch = "waiting" /\ outbox = 0 THEN asked[Len(asked)] ELSE NoQuestion

SwitchState == IF switch = "gone" THEN "gone" ELSE "up"

Socket == INSTANCE LearnerSocket WITH
  Ports     <- Actions,
  NoAnswer  <- 0,
  NoRequest <- NoQuestion,
  switch    <- SwitchState,
  peer      <- PeerState,
  request   <- Question,
  response  <- outbox

ImplementsSocket == Socket!LSSpec

(* simple_switch/README.md:19: the port is chosen on the current and       *)
(* future destinations "plus action history for that destination": the     *)
(* features of a destination's host show the actions taken for it.         *)
ActionsObserved ==
  agent = "deciding" /\ resetvar =>
    \A h \in DOMAIN Hosts : \A address \in DOMAIN NodeOf :
      NodeOf[address] = Hosts[h] /\ actionHistory[address] # <<>> =>
        \E f \in MakeNPArray : HistoryStart(h) <= f /\ f < HistoryStart(h + 1)

=============================================================================
