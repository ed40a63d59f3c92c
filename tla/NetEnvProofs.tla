---------------------------- MODULE NetEnvProofs ----------------------------
(***************************************************************************)
(* Proofs about NetEnv for any topology, number of requests and lengths of *)
(* the histories, and a switch that may stop at any step.                  *)
(***************************************************************************)
EXTENDS NetEnvProperties, TLAPS

(* The socket goes back and forth: who waits for whom while the connection *)
(* is open, and that it is only ever broken by the switch's end.           *)
Turn ==
  conn = "open" =>
    \/ /\ switch = "idle" /\ asked = <<>> /\ inbox = 0 /\ outbox = 0
       /\ agent \in {"starting", "resetting"}
    \/ /\ switch = "waiting" /\ inbox = 1 /\ Len(asked) = 1 /\ outbox = 0
       /\ agent \in {"starting", "resetting"}
    \/ /\ switch = "waiting" /\ asked # <<>> /\ inbox = 0 /\ outbox = 0
       /\ agent = "deciding" /\ resetvar
       /\ curDst = asked[Len(asked)].addr
    \/ /\ switch = "waiting" /\ asked # <<>> /\ inbox = 0 /\ outbox # 0
       /\ agent \in {"stepping", "raising"} /\ resetvar
    \/ /\ switch = "idle" /\ asked # <<>> /\ inbox = 0 /\ outbox = 0
       /\ agent \in {"stepping", "raising"} /\ resetvar
    \/ /\ switch = "waiting" /\ inbox = Len(asked) /\ inbox > 1 /\ outbox = 0
       /\ agent \in {"stepping", "raising"} /\ resetvar

Broken ==
  /\ conn = "listening" =>
       agent = "starting" /\ asked = <<>> /\ switch # "waiting" /\ inbox = 0
  /\ conn \in {"fin", "poked", "reset"} => switch = "gone"
  /\ conn = "closed" => agent = "dead" \/ switch = "gone"
  /\ agent = "dead" => conn = "closed"
  /\ switch = "gone" => conn # "open" /\ outbox = 0
  /\ switch = "waiting" => asked # <<>>
  /\ outbox # 0 => switch = "waiting"
  /\ asked = <<>> => inbox = 0

Unhandled == \E i \in DOMAIN asked : ~ OfHosts(asked[i])

Deaths == agent \in {"raising", "dead"} => switch = "gone" \/ Unhandled

(* What is known of the step under way and of the rewards' owners while    *)
(* the switch runs.                                                        *)
Earnings ==
  /\ switch = "idle" => Len(answered) = Len(asked)
  /\ switch = "waiting" => Len(answered) = Len(asked) - 1
  /\ switch # "gone" /\ agent = "stepping" =>
       /\ judged.for = IF inbox # 0 THEN Len(asked) - 1 ELSE Len(asked)
       /\ judged.dst = asked[judged.for].addr
       /\ judged.action = IF outbox # 0 THEN outbox ELSE answered[judged.for]
  /\ switch # "gone" /\ reward.for # 0 =>
       /\ reward.for \in DOMAIN answered
       /\ reward.for < Len(asked)
       /\ reward.qtime = asked[reward.for + 1].reward
       /\ reward.action = answered[reward.for]
       /\ reward.dst = asked[reward.for].addr

(* What a judgement may hold: at a host 1 or -1 for the packet, at a router *)
(* of the backbone the distance from its neighbour.                        *)
JudgedInRange ==
  agent = "stepping" =>
    /\ judged.delivered \in {0, 1} /\ judged.dropped \in {0, 1}
    /\ judged.delivered = 0 \/ judged.dropped = 0
    /\ IsBackbone => /\ judged.delivered = 0 /\ judged.dropped = 0
                     /\ judged.distance \in MinDistance .. MaxDistance

(* While the agent decides with a switch that waits, the environment holds *)
(* the destinations of the request that waits, all of them known; a host's *)
(* history never grows beyond AH_LENGTH.                                   *)
Held ==
  agent = "deciding" /\ conn = "open" =>
    /\ dsts = Newest(asked[Len(asked)].dests, FdLength)
    /\ Encodable(curDst, dsts)

Remembered == \A address \in Addresses \cup {NoAddress} : Len(actionHistory[address]) <= AhLength

EnvInv ==
  /\ NetEnvTypeOK /\ Turn /\ Broken /\ Deaths /\ Earnings
  /\ JudgedInRange /\ RewardInRange
  /\ Held /\ Remembered

-----------------------------------------------------------------------------

(* What a request consists of.                                             *)
LEMMA RequestFacts ==
  ASSUME NEW request \in Requests
  PROVE  /\ request.addr \in Addresses
         /\ request.dests \in Seq(Addresses)
         /\ request.reward \in QTimes
BY NetEnvAssumption DEF NetEnvAssumption, Requests

(* A bounded queue keeps a part of what was in it.                         *)
LEMMA NewestFacts ==
  ASSUME NEW S, NEW q \in Seq(S), NEW n \in Nat
  PROVE  /\ Newest(q, n) \in Seq(S)
         /\ \A i \in DOMAIN Newest(q, n) : \E j \in DOMAIN q : Newest(q, n)[i] = q[j]
<1>1. CASE Len(q) <= n
  BY <1>1 DEF Newest
<1>2. CASE Len(q) > n
  <2>1. /\ Len(q) - n + 1 \in 1 .. Len(q) + 1
        /\ Newest(q, n) = SubSeq(q, Len(q) - n + 1, Len(q))
    BY <1>2 DEF Newest
  <2>2. /\ Newest(q, n) \in Seq(S)
        /\ DOMAIN Newest(q, n) = 1 .. n
        /\ \A i \in 1 .. n : Newest(q, n)[i] = q[Len(q) - n + i]
    BY <1>2, <2>1
  <2>3. \A i \in 1 .. n : Len(q) - n + i \in DOMAIN q
    BY <1>2
  <2>4. QED
    BY <2>2, <2>3
<1>3. QED
  BY <1>1, <1>2

(* The state after reading a message.                                      *)
LEMMA SetDstsTypes ==
  ASSUME NetEnvTypeOK, inbox # 0, SetDsts(inbox)
  PROVE  /\ inbox \in DOMAIN asked /\ asked[inbox] \in Requests
         /\ curDst' = asked[inbox].addr /\ curDst' \in Addresses
         /\ dsts' \in Seq(Addresses)
         /\ inbox' = 0
         /\ ~ Encodable(curDst', dsts') => ~ OfHosts(asked[inbox])
<1> DEFINE request == asked[inbox]
<1>1. inbox \in DOMAIN asked /\ request \in Requests
  BY DEF NetEnvTypeOK
<1>2. request.addr \in Addresses /\ request.dests \in Seq(Addresses)
  BY <1>1, RequestFacts
<1>3. FdLength \in Nat
  BY NetEnvAssumption DEF NetEnvAssumption
<1>4. /\ dsts' = Newest(request.dests, FdLength) /\ curDst' = request.addr /\ inbox' = 0
  BY DEF SetDsts
<1>5. /\ dsts' \in Seq(Addresses)
      /\ \A i \in DOMAIN dsts' : \E j \in DOMAIN request.dests : dsts'[i] = request.dests[j]
  <2> DEFINE q == request.dests
  <2>1. q \in Seq(Addresses)
    BY <1>2
  <2> HIDE DEF q
  <2>2. /\ Newest(q, FdLength) \in Seq(Addresses)
        /\ \A i \in DOMAIN Newest(q, FdLength) :
             \E j \in DOMAIN q : Newest(q, FdLength)[i] = q[j]
    BY <2>1, <1>3, NewestFacts
  <2>3. QED
    BY <2>2, <1>4 DEF q
<1>6. ASSUME ~ Encodable(curDst', dsts')
      PROVE  ~ OfHosts(request)
  <2>1. \/ request.addr \notin DOMAIN NodeOf
        \/ \E j \in DOMAIN request.dests : request.dests[j] \notin DOMAIN NodeOf
    <3>1. PICK address \in {curDst'} \cup {dsts'[i] : i \in DOMAIN dsts'} :
            address \notin DOMAIN NodeOf
      BY <1>6 DEF Encodable
    <3>2. QED
      BY <1>4, <1>5, <3>1
  <2>2. "error" \notin HostNames
    BY NetEnvAssumption DEF NetEnvAssumption
  <2>3. QED
    BY <2>1, <2>2 DEF OfHosts, GetNodeByIp
<1>7. QED
  BY <1>1, <1>2, <1>4, <1>5, <1>6

(* Every action keeps the types.                                           *)
LEMMA NextTypes ==
  ASSUME NetEnvTypeOK, [Next]_vars
  PROVE  NetEnvTypeOK'
<1> USE DEF NetEnvTypeOK
<1>1. CASE SwitchConnects
  BY <1>1 DEF SwitchConnects, stateVars, switchVars
<1>2. CASE SwitchAsks
  <2>1. PICK request \in Requests : asked' = Append(asked, request)
    BY <1>2 DEF SwitchAsks
  <2>2. asked' \in Seq(Requests) /\ Len(asked') = Len(asked) + 1
    BY <2>1
  <2>3. NumRequests \in Nat
    BY NetEnvAssumption DEF NetEnvAssumption
  <2>4. QED
    BY <1>2, <2>2, <2>3 DEF SwitchAsks, stateVars
<1>3. CASE SwitchTakes
  BY <1>3 DEF SwitchTakes, stateVars
<1>4. CASE SwitchGoes
  BY <1>4 DEF SwitchGoes, stateVars
<1>5. CASE ResetArrives
  BY <1>5 DEF ResetArrives, stateVars, switchVars
<1>6. CASE Accept
  BY <1>6 DEF Accept, stateVars, switchVars
<1>7. CASE ResetReads
  <2>1. curDst' \in Addresses /\ dsts' \in Seq(Addresses) /\ inbox' = 0
    BY <1>7, SetDstsTypes DEF ResetReads
  <2>2. agent' \in {"deciding", "dead"} /\ conn' \in {conn, "closed"}
    BY <1>7 DEF ResetReads, Observe
  <2>3. QED
    BY <1>7, <2>1, <2>2 DEF ResetReads, switchVars
<1>8. CASE ResetNoData
  BY <1>8 DEF ResetNoData, stateVars, switchVars
<1>9. CASE ResetFails
  BY <1>9 DEF ResetFails, Observe, stateVars, switchVars
<1>10. CASE ResetAgain
  BY <1>10 DEF ResetAgain, stateVars, switchVars
<1>11. ASSUME NEW action \in Actions, AddAction(curDst, action)
       PROVE  actionHistory' \in [Addresses \cup {NoAddress} -> Seq(Actions)]
  <2>1. Append(actionHistory[curDst], action) \in Seq(Actions)
    OBVIOUS
  <2>2. AhLength \in Nat
    BY NetEnvAssumption DEF NetEnvAssumption
  <2>3. Newest(Append(actionHistory[curDst], action), AhLength) \in Seq(Actions)
    BY <2>1, <2>2, NewestFacts
  <2>4. QED
    BY <1>11, <2>3 DEF AddAction
<1>12. ASSUME NEW action \in Actions, StepSends(action)
       PROVE  NetEnvTypeOK'
  <2>1. actionHistory' \in [Addresses \cup {NoAddress} -> Seq(Actions)]
    BY <1>11, <1>12 DEF StepSends
  <2>2. judged'.for \in 0 .. NumRequests
    <3>1. Judged(curDst, action).for = Len(asked)
      BY DEF Judged, Judgement
    <3>2. Len(asked) \in 0 .. NumRequests
      BY NetEnvAssumption DEF NetEnvAssumption
    <3>3. QED
      BY <1>12, <3>1, <3>2 DEF StepSends
  <2>3. /\ agent' \in {"stepping", "raising"}
        /\ conn' \in {conn, "poked"}
        /\ outbox' \in Actions \cup {0}
    BY <1>12 DEF StepSends
  <2>4. QED
    BY <1>12, <2>1, <2>2, <2>3 DEF StepSends, stateVars, switchVars
<1>13. ASSUME NEW action \in Actions, SendRaises(action)
       PROVE  NetEnvTypeOK'
  <2>1. actionHistory' \in [Addresses \cup {NoAddress} -> Seq(Actions)]
    BY <1>11, <1>13 DEF SendRaises
  <2>2. QED
    BY <1>13, <2>1 DEF SendRaises, stateVars, switchVars
<1>14. CASE StepRaises
  BY <1>14 DEF StepRaises, stateVars, switchVars
<1>15. CASE StepReads
  <2>1. /\ curDst' \in Addresses /\ dsts' \in Seq(Addresses) /\ inbox' = 0
        /\ asked[inbox] \in Requests
    BY <1>15, SetDstsTypes DEF StepReads
  <2>2. agent' \in {"deciding", "dead"} /\ conn' \in {conn, "closed"}
    BY <1>15 DEF StepReads, Observe
  <2>3. lastReward' \in QTimes
    BY <1>15, <2>1, RequestFacts DEF StepReads
  <2>4. QED
    BY <1>15, <2>1, <2>2, <2>3 DEF StepReads, switchVars
<1>16. CASE StepNoData
  BY <1>16 DEF StepNoData, Observe, stateVars, switchVars
<1>17. CASE StepFails
  BY <1>17 DEF StepFails, Observe, stateVars, switchVars
<1>18. CASE UNCHANGED vars
  BY <1>18 DEF vars, stateVars, switchVars
<1>19. QED
  BY <1>1, <1>2, <1>3, <1>4, <1>5, <1>6, <1>7, <1>8, <1>9, <1>10, <1>12, <1>13, <1>14,
     <1>15, <1>16, <1>17, <1>18 DEF Next, EnvReads, StepCalled, Rest

(* No action breaks the turns of the socket.                                *)
LEMMA TurnKept ==
  ASSUME NetEnvTypeOK, Turn, Broken, [Next]_vars
  PROVE  Turn' /\ Broken'
<1> USE DEF Turn, Broken
<1>1. CASE SwitchConnects
  BY <1>1 DEF SwitchConnects, stateVars, switchVars
<1>2. CASE SwitchAsks
  <2>1. PICK request \in Requests : asked' = Append(asked, request)
    BY <1>2 DEF SwitchAsks
  <2>2. asked' \in Seq(Requests) /\ Len(asked') = Len(asked) + 1
    BY <2>1 DEF NetEnvTypeOK
  <2>3. asked' # <<>> /\ (asked = <<>> => Len(asked') = 1)
    BY <2>2
  <2>4. QED
    BY <1>2, <2>2, <2>3 DEF SwitchAsks, stateVars, NetEnvTypeOK
<1>3. CASE SwitchTakes
  BY <1>3 DEF SwitchTakes, stateVars, switchVars
<1>4. CASE SwitchGoes
  BY <1>4 DEF SwitchGoes, stateVars, switchVars
<1>5. CASE ResetArrives
  BY <1>5 DEF ResetArrives, stateVars, switchVars
<1>6. CASE Accept
  BY <1>6 DEF Accept, stateVars, switchVars
<1>7. CASE ResetReads
  <2>1. curDst' = asked[inbox].addr /\ inbox' = 0 /\ inbox \in 1 .. Len(asked)
    BY <1>7, SetDstsTypes DEF ResetReads, NetEnvTypeOK
  <2>2. QED
    BY <1>7, <2>1 DEF ResetReads, Observe, switchVars, NetEnvTypeOK
<1>8. CASE ResetNoData
  BY <1>8 DEF ResetNoData, NoData, stateVars, switchVars
<1>9. CASE ResetFails
  BY <1>9 DEF ResetFails, Observe, RecvRaises, stateVars, switchVars
<1>10. CASE ResetAgain
  BY <1>10 DEF ResetAgain, stateVars, switchVars
<1>11. ASSUME NEW action \in Actions, StepSends(action)
       PROVE  Turn' /\ Broken'
  BY <1>11, NetEnvAssumption DEF NetEnvAssumption, StepSends, stateVars, switchVars, Actions
<1>12. ASSUME NEW action \in Actions, SendRaises(action)
       PROVE  Turn' /\ Broken'
  BY <1>12 DEF SendRaises, stateVars, switchVars
<1>13. CASE StepRaises
  BY <1>13 DEF StepRaises, stateVars, switchVars
<1>14. CASE StepReads
  <2>1. curDst' = asked[inbox].addr /\ inbox' = 0 /\ inbox \in 1 .. Len(asked)
    BY <1>14, SetDstsTypes DEF StepReads, NetEnvTypeOK
  <2>2. QED
    BY <1>14, <2>1 DEF StepReads, Observe, switchVars, NetEnvTypeOK
<1>15. CASE StepNoData
  BY <1>15 DEF StepNoData, Observe, NoData, stateVars, switchVars
<1>16. CASE StepFails
  BY <1>16 DEF StepFails, Observe, RecvRaises, stateVars, switchVars
<1>17. CASE UNCHANGED vars
  BY <1>17 DEF vars, stateVars, switchVars
<1>18. QED
  BY <1>1, <1>2, <1>3, <1>4, <1>5, <1>6, <1>7, <1>8, <1>9,
     <1>10, <1>11, <1>12, <1>13, <1>14, <1>15, <1>16, <1>17
     DEF Next, EnvReads, StepCalled, Rest

(* A request once asked remains: so does what an unhandled one explains.   *)
LEMMA UnhandledKept ==
  ASSUME NetEnvTypeOK, Unhandled, [Next]_vars
  PROVE  Unhandled'
<1>1. CASE UNCHANGED asked
  BY <1>1 DEF Unhandled, OfHosts
<1>2. CASE SwitchAsks
  <2>1. PICK request \in Requests : asked' = Append(asked, request)
    BY <1>2 DEF SwitchAsks
  <2>2. \A i \in DOMAIN asked : i \in DOMAIN asked' /\ asked'[i] = asked[i]
    BY <2>1 DEF NetEnvTypeOK
  <2>3. QED
    BY <2>2 DEF Unhandled, OfHosts
<1>3. QED
  BY <1>1, <1>2 DEF Next, EnvReads, StepCalled, Rest, vars, switchVars, SwitchConnects,
     SwitchTakes, SwitchGoes, ResetArrives, Accept, ResetReads, ResetNoData, ResetFails,
     ResetAgain, StepSends, SendRaises, StepRaises, StepReads, StepNoData, StepFails

(* No action ends the environment without a reason.                        *)
LEMMA DeathsKept ==
  ASSUME NetEnvTypeOK, Turn, Broken, Deaths, [Next]_vars
  PROVE  Deaths'
<1>1. CASE agent \in {"raising", "dead"} /\ Unhandled
  BY <1>1, UnhandledKept DEF Deaths
<1>2. CASE switch = "gone"
  <2>1. switch' = "gone"
    BY <1>2 DEF Broken, Next, EnvReads, StepCalled, Rest, vars, switchVars, SwitchConnects,
       SwitchAsks, SwitchTakes, SwitchGoes, ResetArrives, Accept, ResetReads, ResetNoData,
       ResetFails, ResetAgain, StepSends, SendRaises, StepRaises, StepReads, StepNoData,
       StepFails
  <2>2. QED
    BY <2>1 DEF Deaths
<1>3. CASE agent \notin {"raising", "dead"} /\ switch # "gone"
  <2>1. CASE ResetReads \/ StepReads
    <3>1. SUFFICES ASSUME agent' = "dead"
                   PROVE  Unhandled'
      BY <2>1 DEF Deaths, ResetReads, StepReads, Observe
    <3>2. /\ inbox \in DOMAIN asked
          /\ ~ Encodable(curDst', dsts') => ~ OfHosts(asked[inbox])
      BY <2>1, SetDstsTypes DEF ResetReads, StepReads
    <3>3. ~ Encodable(curDst', dsts')
      BY <2>1, <3>1 DEF ResetReads, StepReads, Observe
    <3>4. QED
      BY <3>2, <3>3, UnhandledKept DEF Unhandled
  <2>2. ASSUME NEW action \in Actions, StepSends(action)
        PROVE  Deaths'
    <3>1. SUFFICES ASSUME ~ Judgeable(curDst, action)
                   PROVE  Unhandled
      BY <2>2, UnhandledKept DEF StepSends, Deaths
    <3>2. conn = "open" /\ curDst = asked[Len(asked)].addr /\ Len(asked) \in DOMAIN asked
      BY <1>3, <2>2 DEF StepSends, Turn, Broken, NetEnvTypeOK
    <3>3. GetNodeByIp(curDst) \notin HostNames
      BY <3>1, NetEnvAssumption DEF NetEnvAssumption, Judgeable
    <3>4. ~ OfHosts(asked[Len(asked)])
      BY <3>2, <3>3 DEF OfHosts
    <3>5. QED
      BY <3>2, <3>4 DEF Unhandled
  <2>3. ASSUME NEW action \in Actions, SendRaises(action)
        PROVE  Deaths'
    BY <1>3, <2>3 DEF SendRaises, Broken
  <2>4. CASE ResetNoData \/ ResetFails \/ StepNoData \/ StepFails
    BY <1>3, <2>4 DEF ResetNoData, ResetFails, StepNoData, StepFails, NoData, RecvRaises,
       Broken
  <2>5. CASE UNCHANGED agent
    BY <1>3, <2>5 DEF Deaths
  <2>6. CASE Accept \/ ResetAgain \/ StepRaises
    BY <1>3, <2>6 DEF Accept, ResetAgain, StepRaises, Deaths
  <2>7. QED
    BY <2>1, <2>2, <2>3, <2>4, <2>5, <2>6 DEF Next, EnvReads, StepCalled, Rest, vars,
       SwitchConnects, SwitchAsks, SwitchTakes, SwitchGoes, ResetArrives
<1>4. QED
  BY <1>1, <1>2, <1>3 DEF Deaths

(* No action credits a reward to another action or destination.            *)
LEMMA EarningsKept ==
  ASSUME NetEnvTypeOK, Turn, Broken, Earnings, [Next]_vars
  PROVE  Earnings'
<1>1. CASE SwitchAsks
  <2>1. PICK request \in Requests : asked' = Append(asked, request)
    BY <1>1 DEF SwitchAsks
  <2>2. /\ Len(asked') = Len(asked) + 1
        /\ \A i \in DOMAIN asked : i \in DOMAIN asked' /\ asked'[i] = asked[i]
        /\ DOMAIN asked' = DOMAIN asked \cup {Len(asked) + 1}
        /\ asked'[Len(asked) + 1] = request
    BY <2>1 DEF NetEnvTypeOK
  <2>4. switch = "idle" /\ switch' = "waiting" /\ Len(answered) = Len(asked)
        /\ UNCHANGED <<agent, conn, outbox, judged, answered, reward>>
    BY <1>1 DEF SwitchAsks, Earnings
  <2>5. ASSUME agent = "stepping"
        PROVE  /\ judged.for = Len(asked) /\ judged.for \in DOMAIN asked
               /\ inbox' = Len(asked) + 1 /\ outbox = 0
    BY <2>4, <2>5, <1>1 DEF SwitchAsks, Turn, Broken, Earnings, NetEnvTypeOK
  <2>6. agent' = "stepping" =>
          /\ judged'.for = Len(asked') - 1 /\ inbox' # 0 /\ outbox' = 0
          /\ judged'.dst = asked'[judged'.for].addr
          /\ judged'.action = answered'[judged'.for]
    BY <2>2, <2>4, <2>5 DEF Earnings, NetEnvTypeOK
  <2>7. reward'.for # 0 =>
          /\ reward'.for \in DOMAIN answered'
          /\ reward'.for < Len(asked')
          /\ reward'.qtime = asked'[reward'.for + 1].reward
          /\ reward'.action = answered'[reward'.for]
          /\ reward'.dst = asked'[reward'.for].addr
    BY <2>2, <2>4 DEF Earnings, NetEnvTypeOK
  <2>8. QED
    BY <2>2, <2>4, <2>6, <2>7 DEF Earnings, NetEnvTypeOK
<1>2. CASE SwitchTakes
  <2>1. /\ switch = "waiting" /\ Len(answered) = Len(asked) - 1
        /\ switch' = "idle" /\ outbox' = 0 /\ answered' = Append(answered, outbox)
        /\ UNCHANGED <<agent, conn, inbox, judged, asked, reward>>
    BY <1>2 DEF SwitchTakes, Broken, Earnings
  <2>2. /\ Len(answered') = Len(asked)
        /\ \A i \in DOMAIN answered : i \in DOMAIN answered' /\ answered'[i] = answered[i]
        /\ answered'[Len(asked)] = outbox
    BY <2>1, <1>2 DEF NetEnvTypeOK, SwitchTakes
  <2>3. ASSUME agent = "stepping"
        PROVE  inbox = 0 /\ judged.for = Len(asked) /\ judged.action = outbox
    BY <2>1, <2>3, <1>2 DEF SwitchTakes, Turn, Broken, Earnings, NetEnvTypeOK
  <2>4. QED
    BY <2>1, <2>2, <2>3 DEF Earnings, NetEnvTypeOK
<1>3. CASE SwitchGoes
  BY <1>3 DEF SwitchGoes, Earnings, stateVars
<1>4. CASE ResetReads \/ Accept \/ ResetNoData \/ ResetFails \/ ResetAgain \/ StepRaises
  BY <1>4 DEF ResetReads, Accept, ResetNoData, ResetFails, ResetAgain, StepRaises, Observe,
     Earnings, switchVars
<1>5. ASSUME NEW action \in Actions, StepSends(action)
      PROVE  Earnings'
  <2>1. CASE switch = "gone"
    BY <1>5, <2>1 DEF StepSends, Earnings, switchVars
  <2>2. CASE switch # "gone"
    <3>1. conn = "open" /\ inbox = 0 /\ curDst = asked[Len(asked)].addr
      BY <1>5, <2>2 DEF StepSends, Turn, Broken, NetEnvTypeOK
    <3>2. /\ Judged(curDst, action).for = Len(asked)
          /\ Judged(curDst, action).dst = curDst
          /\ Judged(curDst, action).action = action
      BY DEF Judged, Judgement
    <3>3. outbox' = action /\ action # 0
      BY <1>5, <3>1, NetEnvAssumption DEF StepSends, Actions, NetEnvAssumption
    <3>4. QED
      BY <1>5, <3>1, <3>2, <3>3 DEF StepSends, Earnings, switchVars
  <2>3. QED
    BY <2>1, <2>2
<1>6. ASSUME NEW action \in Actions, SendRaises(action)
      PROVE  Earnings'
  BY <1>6 DEF SendRaises, Earnings, switchVars
<1>7. CASE StepReads
  <2>1. CASE switch = "gone"
    BY <1>7, <2>1 DEF StepReads, SetDsts, Observe, Earnings, switchVars
  <2>2. CASE switch # "gone"
    <3>1. /\ inbox = Len(asked) /\ inbox > 1 /\ outbox = 0 /\ switch = "waiting"
      BY <1>7, <2>2 DEF StepReads, Turn, Broken, NetEnvTypeOK
    <3>2. /\ judged.for = Len(asked) - 1 /\ judged.for \in DOMAIN answered
          /\ judged.dst = asked[judged.for].addr
          /\ judged.action = answered[judged.for]
          /\ inbox = judged.for + 1 /\ judged.for < Len(asked)
      BY <1>7, <2>2, <3>1 DEF StepReads, Earnings, NetEnvTypeOK
    <3>3. /\ reward'.for = judged.for /\ reward'.dst = judged.dst
          /\ reward'.action = judged.action /\ reward'.qtime = asked[inbox].reward
      BY <1>7 DEF StepReads, Earned
    <3>4. agent' # "stepping"
      BY <1>7 DEF StepReads, Observe
    <3>5. QED
      BY <1>7, <3>2, <3>3, <3>4 DEF StepReads, Earnings, switchVars
  <2>3. QED
    BY <2>1, <2>2
<1>8. CASE StepNoData \/ StepFails
  <2>1. switch = "gone"
    BY <1>8 DEF StepNoData, StepFails, NoData, RecvRaises, Broken
  <2>2. QED
    BY <1>8, <2>1 DEF StepNoData, StepFails, Earnings, switchVars
<1>9. CASE SwitchConnects \/ ResetArrives \/ UNCHANGED vars
  BY <1>9 DEF SwitchConnects, ResetArrives, vars, Earnings, switchVars
<1>10. QED
  BY <1>1, <1>2, <1>3, <1>4, <1>5, <1>6, <1>7, <1>8, <1>9
     DEF Next, EnvReads, StepCalled, Rest

(* Judged only credits a packet to a host behind the port, and only takes  *)
(* distances from the table.                                               *)
LEMMA JudgedFacts ==
  ASSUME NEW dst, NEW action \in Actions, Judgeable(dst, action)
  PROVE  LET j == Judged(dst, action) IN
         /\ j.delivered \in {0, 1} /\ j.dropped \in {0, 1}
         /\ j.delivered = 0 \/ j.dropped = 0
         /\ IsBackbone => /\ j.delivered = 0 /\ j.dropped = 0
                          /\ j.distance \in MinDistance .. MaxDistance
<1> DEFINE this == [Judgement EXCEPT !.for = Len(asked), !.dst = dst, !.action = action]
<1>1. this.delivered = 0 /\ this.dropped = 0
  BY DEF Judgement
<1>2. \A v : /\ [this EXCEPT !.distance = v].distance = v
             /\ [this EXCEPT !.distance = v].delivered = 0
             /\ [this EXCEPT !.distance = v].dropped = 0
  BY DEF Judgement
<1>3. /\ [this EXCEPT !.delivered = 1].delivered = 1 /\ [this EXCEPT !.delivered = 1].dropped = 0
      /\ [this EXCEPT !.dropped = 1].delivered = 0 /\ [this EXCEPT !.dropped = 1].dropped = 1
  BY DEF Judgement
<1>4. CASE Neighbor[action] \in HostNames
  <2>1. ~ IsBackbone
    BY <1>4, TopologyAssumption DEF TopologyAssumption
  <2>2. Judged(dst, action) \in {[this EXCEPT !.delivered = 1], [this EXCEPT !.dropped = 1]}
    BY <1>4 DEF Judged
  <2> HIDE DEF this
  <2>3. QED
    BY <1>3, <2>1, <2>2
<1>5. CASE Neighbor[action] \notin HostNames
  <2> DEFINE hops == Distances[Neighbor[action]][GetNodeByIp(dst)]
  <2>1. Judged(dst, action) = [this EXCEPT !.distance = hops]
    BY <1>5 DEF Judged
  <2>2. Neighbor[action] \in DOMAIN Distances
    BY <1>5, NetEnvAssumption DEF NetEnvAssumption
  <2>3. hops \in MinDistance .. MaxDistance
    BY <1>5, <2>2, TopologyAssumption DEF TopologyAssumption, Judgeable
  <2> HIDE DEF this, hops
  <2>4. QED
    BY <1>2, <2>1, <2>3
<1>6. QED
  BY <1>4, <1>5

(* makeRw2 stays within minRw and maxRw for any queueing time.             *)
LEMMA RwFacts ==
  ASSUME NEW j, NEW qtime \in Nat,
         j.delivered \in {0, 1}, j.dropped \in {0, 1}, j.delivered = 0 \/ j.dropped = 0,
         IsBackbone => /\ j.delivered = 0 /\ j.dropped = 0
                       /\ j.distance \in MinDistance .. MaxDistance
  PROVE  MinRw <= MakeRw2(j, qtime) /\ MakeRw2(j, qtime) <= MaxRw
<1> DEFINE capped == IF qtime > MaxQTime THEN MaxQTime ELSE qtime
<1>1. capped \in 0 .. MaxQTime
  BY DEF MaxQTime
<1>2. MakeRw2(j, qtime) = Lambda1 * (j.delivered - j.dropped) - capped
                            - (IF IsBackbone THEN Lambda4 * j.distance ELSE 0)
  BY DEF MakeRw2
<1> HIDE DEF capped
<1>3. CASE IsBackbone
  <2> DEFINE hops == j.distance
  <2>1. hops \in 1 .. 4 /\ j.delivered - j.dropped = 0
    BY <1>3 DEF MinDistance, MaxDistance
  <2>2. MakeRw2(j, qtime) = 200000 * 0 - capped - 1000 * hops
    BY <1>2, <1>3, <2>1 DEF Lambda1, Lambda4
  <2>3. MinRw = -14000 /\ MaxRw = -1000
    BY <1>3 DEF MinRw, MaxRw, Lambda4, MaxQTime, MinDistance, MaxDistance
  <2> HIDE DEF hops
  <2>4. QED
    BY <1>1, <2>1, <2>2, <2>3 DEF MaxQTime
<1>4. CASE ~ IsBackbone
  <2> DEFINE d == j.delivered - j.dropped
  <2>1. d \in {-1, 0, 1}
    OBVIOUS
  <2>2. MakeRw2(j, qtime) = 200000 * d - capped - 0
    BY <1>2, <1>4 DEF Lambda1
  <2>3. MinRw = -10000 - 200000 /\ MaxRw = 200000
    BY <1>4 DEF MinRw, MaxRw, Lambda1, MaxQTime
  <2> HIDE DEF d
  <2>4. -200000 <= 200000 * d /\ 200000 * d <= 200000 /\ 200000 * d \in Int
    BY <2>1
  <2> DEFINE e == 200000 * d
  <2>5. /\ -200000 <= e /\ e <= 200000 /\ e \in Int /\ MakeRw2(j, qtime) = e - capped - 0
        /\ 0 <= capped /\ capped <= 10000 /\ capped \in Int
    BY <1>1, <2>2, <2>4 DEF MaxQTime
  <2> HIDE DEF e
  <2>6. QED
    BY <2>3, <2>5
<1>5. QED
  BY <1>3, <1>4

(* No action earns a reward out of range.                                  *)
LEMMA RangeKept ==
  ASSUME NetEnvTypeOK, JudgedInRange, RewardInRange, [Next]_vars
  PROVE  JudgedInRange' /\ RewardInRange'
<1>1. ASSUME NEW action \in Actions, StepSends(action)
      PROVE  JudgedInRange' /\ RewardInRange'
  <2>1. RewardInRange'
    BY <1>1 DEF StepSends, RewardInRange
  <2>2. CASE ~ Judgeable(curDst, action)
    BY <1>1, <2>1, <2>2 DEF StepSends, JudgedInRange
  <2>3. CASE Judgeable(curDst, action)
    <3>1. judged' = Judged(curDst, action)
      BY <1>1, <2>3 DEF StepSends
    <3>2. QED
      BY <2>1, <2>3, <3>1, JudgedFacts DEF JudgedInRange
  <2>4. QED
    BY <2>2, <2>3
<1>2. ASSUME agent = "stepping", NEW qtime \in QTimes
      PROVE  MinRw <= Earned(qtime).rw /\ Earned(qtime).rw <= MaxRw
  <2>1. qtime \in Nat
    BY NetEnvAssumption DEF NetEnvAssumption
  <2>2. Earned(qtime).rw = MakeRw2(judged, qtime)
    BY DEF Earned
  <2>3. QED
    BY <1>2, <2>1, <2>2, RwFacts DEF JudgedInRange
<1>3. CASE StepReads
  <2>1. inbox \in DOMAIN asked /\ asked[inbox] \in Requests
    BY <1>3 DEF StepReads, NetEnvTypeOK
  <2>2. lastReward' \in QTimes
    BY <1>3, <2>1, RequestFacts DEF StepReads
  <2>3. reward' = Earned(lastReward') /\ agent' # "stepping"
    BY <1>3 DEF StepReads, Observe
  <2>4. QED
    BY <1>2, <1>3, <2>2, <2>3 DEF StepReads, JudgedInRange, RewardInRange
<1>4. CASE StepFails
  <2>1. reward' = Earned(lastReward) /\ agent' # "stepping" /\ agent = "stepping"
    BY <1>4 DEF StepFails, Observe
  <2>2. MinRw <= Earned(lastReward).rw /\ Earned(lastReward).rw <= MaxRw
    BY <1>2, <2>1 DEF NetEnvTypeOK
  <2>3. QED
    BY <2>1, <2>2 DEF JudgedInRange, RewardInRange
<1>5. CASE StepNoData
  <2>1. reward'.done = TRUE /\ agent' # "stepping"
    BY <1>5 DEF StepNoData, Observe, Earned
  <2>2. QED
    BY <2>1 DEF JudgedInRange, RewardInRange
<1>6. CASE ResetReads \/ ResetFails \/ Accept \/ ResetNoData \/ ResetAgain \/ StepRaises
  BY <1>6 DEF ResetReads, ResetFails, Accept, ResetNoData, ResetAgain, StepRaises, Observe,
     JudgedInRange, RewardInRange
<1>7. ASSUME NEW action \in Actions, SendRaises(action)
      PROVE  JudgedInRange' /\ RewardInRange'
  BY <1>7 DEF SendRaises, JudgedInRange, RewardInRange
<1>8. CASE SwitchConnects \/ SwitchAsks \/ SwitchTakes \/ SwitchGoes \/ ResetArrives
           \/ UNCHANGED vars
  BY <1>8 DEF SwitchConnects, SwitchAsks, SwitchTakes, SwitchGoes, ResetArrives, vars,
     JudgedInRange, RewardInRange
<1>9. QED
  BY <1>1, <1>3, <1>4, <1>5, <1>6, <1>7, <1>8 DEF Next, EnvReads, StepCalled, Rest

(* Factors keep the order.                                                *)
LEMMA Product ==
  ASSUME NEW a \in Nat, NEW b \in Nat, NEW c \in Nat, a <= b
  PROVE  a * c \in Nat /\ b * c \in Nat /\ a * c <= b * c
<1> DEFINE d == b - a
<1>1. d \in Nat /\ b = a + d
  OBVIOUS
<1> HIDE DEF d
<1>2. b * c = a * c + d * c /\ d * c >= 0 /\ a * c \in Nat /\ d * c \in Nat
  BY <1>1
<1>3. QED
  BY <1>2

(* Digits of different blocks do not meet.                                 *)
LEMMA OneBlock ==
  ASSUME NEW n \in Nat, NEW j \in Nat, NEW k \in Nat, NEW d \in 1 .. n
  PROVE  k * n <= j * n + d - 1 /\ j * n + d - 1 < (k + 1) * n <=> j = k
<1>1. (j + 1) * n = j * n + n /\ (k + 1) * n = k * n + n
  OBVIOUS
<1>2. j * n \in Nat /\ k * n \in Nat
  BY Product
<1>3. CASE j < k
  <2>1. (j + 1) * n <= k * n
    BY <1>3, Product
  <2> DEFINE x == j * n  y == k * n
  <2>2. x + n <= y /\ x \in Nat /\ y \in Nat
    BY <1>1, <1>2, <2>1
  <2> HIDE DEF x, y
  <2>3. ~ y <= x + d - 1
    BY <2>2
  <2>4. QED
    BY <1>3, <2>3 DEF x, y
<1>4. CASE j > k
  <2>1. (k + 1) * n <= j * n
    BY <1>4, Product
  <2> DEFINE x == j * n  z == (k + 1) * n
  <2>2. z <= x /\ x \in Nat /\ z \in Nat
    BY <1>1, <1>2, <2>1
  <2> HIDE DEF x, z
  <2>3. ~ x + d - 1 < z
    BY <2>2
  <2>4. QED
    BY <1>4, <2>3 DEF x, z
<1>5. CASE j = k
  <2> DEFINE x == j * n
  <2>1. x \in Nat
    BY <1>2
  <2> HIDE DEF x
  <2>2. x <= x + d - 1 /\ x + d - 1 < x + n
    BY <2>1
  <2>3. QED
    BY <1>1, <1>5, <2>2 DEF x
<1>6. QED
  BY <1>3, <1>4, <1>5

(* The features of a destination lie in its block.                         *)
LEMMA DestinationFeatures ==
  ASSUME NEW j \in 0 .. FdLength, NEW address \in DOMAIN NodeOf
  PROVE  /\ DestinationFeature(j, address) \in 0 .. NFeatures - 1
         /\ DestinationFeature(j, address) < HistoryStart(1)
         /\ \A k \in 0 .. FdLength :
              k * NHosts <= DestinationFeature(j, address)
              /\ DestinationFeature(j, address) < (k + 1) * NHosts <=> j = k
<1> DEFINE d == Digit[GetNodeByIp(address)]
<1>1. /\ d \in 1 .. NHosts /\ NHosts \in Nat /\ FdLength \in Nat /\ AhLength \in Nat
      /\ MaxPorts \in Nat
  BY NetEnvAssumption DEF NetEnvAssumption, GetNodeByIp
<1>2. DestinationFeature(j, address) = j * NHosts + d - 1
  BY DEF DestinationFeature
<1> HIDE DEF d
<1>3. (j + 1) * NHosts <= (FdLength + 1) * NHosts /\ (j + 1) * NHosts = j * NHosts + NHosts
      /\ j * NHosts \in Nat /\ FdLength * NHosts \in Nat
      /\ (FdLength + 1) * NHosts = FdLength * NHosts + NHosts
  BY <1>1, Product
<1>4. HistoryStart(1) = FdLength * NHosts + NHosts
  <2>1. MaxPorts * AhLength \in Nat
    BY <1>1, Product
  <2>2. (1 - 1) * MaxPorts * AhLength = 0
    BY <1>1
  <2>3. QED
    BY <1>1, <1>3, <2>2 DEF HistoryStart
<1>5. NFeatures >= HistoryStart(1) /\ NFeatures \in Nat
  <2>1. AhLength * MaxPorts * NHosts \in Nat
    <3>1. AhLength * MaxPorts \in Nat
      BY <1>1, Product
    <3>2. QED
      BY <1>1, <3>1, Product
  <2>2. QED
    BY <1>1, <1>3, <1>4, <2>1 DEF NFeatures
<1>6. \A k \in 0 .. FdLength :
        k * NHosts <= j * NHosts + d - 1 /\ j * NHosts + d - 1 < (k + 1) * NHosts <=> j = k
  BY <1>1, OneBlock
<1> DEFINE x == j * NHosts  y == FdLength * NHosts
<1>7. x + NHosts <= y + NHosts /\ x \in Nat /\ y \in Nat /\ HistoryStart(1) = y + NHosts
  BY <1>3, <1>4
<1> HIDE DEF x, y
<1>8. 0 <= x + d - 1 /\ x + d - 1 < HistoryStart(1) /\ x + d - 1 \in Int
  BY <1>1, <1>7
<1>9. x + d - 1 \in 0 .. NFeatures - 1
  BY <1>5, <1>7, <1>8, <1>1
<1>10. QED
  BY <1>2, <1>6, <1>8, <1>9 DEF x

(* So do those of the actions, after the blocks of the destinations.       *)
LEMMA HistoryFeatures ==
  ASSUME NEW h \in 1 .. NHosts, NEW i \in 1 .. AhLength, NEW a \in Actions
  PROVE  LET f == HistoryStart(h) + (i - 1) * NPorts + a - 1 IN
         /\ f \in HistoryStart(1) .. NFeatures - 1
         /\ \A k \in 0 .. FdLength : ~ f < (k + 1) * NHosts
<1> DEFINE W == MaxPorts * AhLength
           B == FdLength * NHosts + NHosts
           p == (h - 1) * W
           r == (i - 1) * NPorts
<1>1. /\ NHosts \in Nat /\ FdLength \in Nat /\ AhLength \in Nat /\ MaxPorts \in Nat
      /\ NPorts \in Nat /\ NPorts <= MaxPorts /\ a \in 1 .. NPorts
  BY NetEnvAssumption DEF NetEnvAssumption, Actions
<1>2. W \in Nat /\ FdLength * NHosts \in Nat /\ B \in Nat
  BY <1>1, Product
<1>3. HistoryStart(h) = B + p /\ HistoryStart(1) = B
  <2>1. (h - 1) * MaxPorts * AhLength = (h - 1) * (MaxPorts * AhLength)
    BY <1>1
  <2>2. (1 - 1) * MaxPorts * AhLength = 0
    BY <1>1
  <2>3. QED
    BY <1>1, <1>2, <2>1, <2>2 DEF HistoryStart
<1>4. p \in Nat /\ p + W <= NHosts * W
  <2>1. h - 1 \in Nat /\ h \in Nat /\ h <= NHosts /\ h - 1 <= h
    BY <1>1
  <2>2. p \in Nat /\ h * W <= NHosts * W
    BY <1>1, <1>2, <2>1, Product
  <2>3. h * W = p + W
    BY <1>2, <2>1
  <2>4. QED
    BY <2>2, <2>3
<1>5. r \in Nat /\ r + NPorts <= W
  <2>1. i - 1 \in Nat /\ i \in Nat /\ i <= AhLength /\ i - 1 <= i
    BY <1>1
  <2>2. r \in Nat /\ i * NPorts <= AhLength * NPorts
    BY <1>1, <2>1, Product
  <2>3. i * NPorts = r + NPorts
    BY <1>1, <2>1
  <2>4. NPorts * AhLength <= MaxPorts * AhLength
    BY <1>1, Product
  <2>5. AhLength * NPorts = NPorts * AhLength
    BY <1>1
  <2> DEFINE u == i * NPorts  v == AhLength * NPorts
  <2>6. u <= v /\ v <= W /\ u = r + NPorts /\ r \in Nat /\ v \in Nat
    BY <1>1, <2>2, <2>3, <2>4, <2>5, Product
  <2> HIDE DEF u, v, r, W
  <2>7. QED
    BY <1>1, <1>2, <2>6
<1>6. NFeatures = NHosts * W + B
  <2>1. AhLength * MaxPorts * NHosts = NHosts * (MaxPorts * AhLength)
    BY <1>1
  <2>2. NHosts * W \in Nat
    BY <1>1, <1>2, Product
  <2>3. QED
    BY <1>1, <1>2, <2>1, <2>2 DEF NFeatures
<1>7. \A k \in 0 .. FdLength : (k + 1) * NHosts <= B /\ (k + 1) * NHosts \in Nat
  <2> SUFFICES ASSUME NEW k \in 0 .. FdLength
               PROVE  (k + 1) * NHosts <= B /\ (k + 1) * NHosts \in Nat
    OBVIOUS
  <2>1. (k + 1) * NHosts <= (FdLength + 1) * NHosts /\ (k + 1) * NHosts \in Nat
    BY <1>1, Product
  <2>2. (FdLength + 1) * NHosts = B
    BY <1>1
  <2>3. QED
    BY <2>1, <2>2
<1> DEFINE T == NHosts * W
<1>8. T \in Int /\ p + W <= T /\ NFeatures = T + B
  BY <1>1, <1>2, <1>4, <1>6, Product
<1> HIDE DEF W, B, p, r, T
<1>9. HistoryStart(h) + (i - 1) * NPorts + a - 1 = B + p + r + a - 1
  BY <1>3 DEF r
<1>10. B + p + r + a - 1 \in B .. T + B - 1
  BY <1>1, <1>2, <1>4, <1>5, <1>8
<1>11. \A k \in 0 .. FdLength : ~ B + p + r + a - 1 < (k + 1) * NHosts
  BY <1>7, <1>10, <1>2, <1>8
<1> DEFINE f == HistoryStart(h) + (i - 1) * NPorts + a - 1
<1>12. f \in HistoryStart(1) .. NFeatures - 1
  <2>1. f = B + p + r + a - 1 /\ HistoryStart(1) = B /\ NFeatures - 1 = T + B - 1
    BY <1>1, <1>2, <1>3, <1>8, <1>9
  <2> HIDE DEF f
  <2>2. QED
    BY <1>10, <2>1, Zenon
<1>13. \A k \in 0 .. FdLength : ~ f < (k + 1) * NHosts
  BY <1>9, <1>11
<1>14. QED
  BY <1>12, <1>13

(* What a deque keeps are the last elements of the sequence, in place.     *)
LEMMA NewestInPlace ==
  ASSUME NEW S, NEW q \in Seq(S), NEW n \in Nat
  PROVE  LET older == IF Len(q) > n THEN Len(q) - n ELSE 0 IN
         /\ Newest(q, n) \in Seq(S) /\ Len(Newest(q, n)) <= n
         /\ Len(Newest(q, n)) = Len(q) - older /\ older \in Nat
         /\ \A i \in DOMAIN Newest(q, n) : Newest(q, n)[i] = q[older + i]
<1>1. CASE Len(q) <= n
  BY <1>1 DEF Newest
<1>2. CASE Len(q) > n
  <2>1. /\ Len(q) - n + 1 \in 1 .. Len(q) + 1
        /\ Newest(q, n) = SubSeq(q, Len(q) - n + 1, Len(q))
    BY <1>2 DEF Newest
  <2>2. /\ Newest(q, n) \in Seq(S) /\ Len(Newest(q, n)) = n
        /\ \A i \in 1 .. n : Newest(q, n)[i] = q[Len(q) - n + i]
    BY <1>2, <2>1
  <2>3. QED
    BY <1>2, <2>2
<1>3. QED
  BY <1>1, <1>2

(* A decision is only made on the request just read.                       *)
LEMMA HeldKept ==
  ASSUME NetEnvTypeOK, Turn, Broken, Held, [Next]_vars
  PROVE  Held'
<1>1. CASE ResetReads \/ StepReads
  <2>1. SUFFICES ASSUME agent' = "deciding", conn' = "open"
                 PROVE  /\ dsts' = Newest(asked'[Len(asked')].dests, FdLength)
                        /\ Encodable(curDst', dsts')
    BY DEF Held
  <2>2. /\ Encodable(curDst', dsts') /\ conn = "open" /\ asked' = asked
        /\ dsts' = Newest(asked[inbox].dests, FdLength) /\ inbox # 0
        /\ agent \in {"resetting", "stepping"}
    BY <1>1, <2>1 DEF ResetReads, StepReads, Observe, SetDsts, switchVars
  <2>3. inbox = Len(asked)
    BY <2>2 DEF Turn
  <2>4. QED
    BY <2>2, <2>3
<1>2. CASE SwitchAsks
  BY <1>2 DEF SwitchAsks, Turn, Held, Broken, stateVars
<1>3. CASE Accept \/ ResetNoData \/ ResetAgain \/ StepRaises
  BY <1>3 DEF Accept, ResetNoData, ResetAgain, StepRaises, NoData, Held, switchVars, stateVars
<1>4. CASE ResetFails \/ StepFails \/ StepNoData
  BY <1>4 DEF ResetFails, StepFails, StepNoData, RecvRaises, NoData, Observe, Held
<1>5. ASSUME NEW action \in Actions, StepSends(action) \/ SendRaises(action)
      PROVE  Held'
  BY <1>5 DEF StepSends, SendRaises, Held
<1>6. CASE SwitchConnects
  BY <1>6 DEF SwitchConnects, Broken, Held
<1>7. CASE SwitchTakes \/ SwitchGoes \/ ResetArrives \/ UNCHANGED vars
  BY <1>7 DEF SwitchTakes, SwitchGoes, ResetArrives, vars, stateVars, switchVars, Held
<1>8. QED
  BY <1>1, <1>2, <1>3, <1>4, <1>5, <1>6, <1>7 DEF Next, EnvReads, StepCalled, Rest

(* addAction keeps the bound of the history.                               *)
LEMMA RememberedKept ==
  ASSUME NetEnvTypeOK, Remembered, [Next]_vars
  PROVE  Remembered'
<1>1. ASSUME NEW action \in Actions, AddAction(curDst, action)
      PROVE  Remembered'
  <2> DEFINE new == Newest(Append(actionHistory[curDst], action), AhLength)
  <2>1. /\ actionHistory \in [Addresses \cup {NoAddress} -> Seq(Actions)]
        /\ curDst \in Addresses \cup {NoAddress}
    BY DEF NetEnvTypeOK
  <2>2. Append(actionHistory[curDst], action) \in Seq(Actions) /\ AhLength \in Nat
    BY <2>1, NetEnvAssumption DEF NetEnvAssumption
  <2>3. Len(new) <= AhLength
    BY <2>2, NewestInPlace
  <2> HIDE DEF new
  <2>4. actionHistory' = [actionHistory EXCEPT ![curDst] = new]
    BY <1>1 DEF AddAction, new
  <2>5. QED
    BY <2>1, <2>3, <2>4 DEF Remembered
<1>2. CASE UNCHANGED actionHistory
  BY <1>2 DEF Remembered
<1>3. ASSUME NEW action \in Actions, StepSends(action) \/ SendRaises(action)
      PROVE  Remembered'
  BY <1>1, <1>3 DEF StepSends, SendRaises
<1>4. QED
  BY <1>2, <1>3 DEF Next, EnvReads, StepCalled, Rest, vars, SwitchConnects, SwitchAsks,
     SwitchTakes, SwitchGoes, ResetArrives, Accept, ResetReads, ResetNoData, ResetFails,
     ResetAgain, StepRaises, StepReads, StepNoData, StepFails

(* What the agent sees then.                                               *)
LEMMA Observed ==
  ASSUME NetEnvTypeOK, Turn, Held, Remembered
  PROVE  DecidesOnWaitingPacket
<1> SUFFICES ASSUME agent = "deciding", conn = "open"
             PROVE  /\ MakeNPArray \subseteq 0 .. NFeatures - 1
                    /\ \A k \in 0 .. FdLength : Block(k) = Expected(asked[Len(asked)], k)
  BY DEF DecidesOnWaitingPacket
<1> DEFINE request == asked[Len(asked)]
           older   == IF Len(request.dests) > FdLength THEN Len(request.dests) - FdLength ELSE 0
           past    == UNION {{HistoryStart(h) + (i - 1) * NPorts + ActionsOf(Hosts[h])[i] - 1 :
                                i \in DOMAIN ActionsOf(Hosts[h])} : h \in DOMAIN Hosts}
<1>1. /\ FdLength \in Nat /\ AhLength \in Nat /\ NHosts \in Nat
      /\ Hosts \in Seq(HostNames) /\ Len(Hosts) <= NHosts
  BY NetEnvAssumption, TopologyAssumption DEF NetEnvAssumption, TopologyAssumption
<1>2. asked # <<>> /\ asked \in Seq(Requests) /\ curDst = request.addr
  BY DEF Turn, NetEnvTypeOK
<1>3. request \in Requests
  BY <1>2
<1>4. /\ request.addr \in Addresses /\ request.dests \in Seq(Addresses)
  BY <1>3, RequestFacts
<1>5. /\ dsts = Newest(request.dests, FdLength)
      /\ \A address \in {curDst} \cup {dsts[i] : i \in DOMAIN dsts} : address \in DOMAIN NodeOf
  BY DEF Held, Encodable
<1>6. /\ dsts \in Seq(Addresses) /\ Len(dsts) <= FdLength
      /\ Len(dsts) = Len(request.dests) - older /\ older \in Nat
      /\ \A i \in DOMAIN dsts : dsts[i] = request.dests[older + i]
  <2> DEFINE q == request.dests
  <2>1. q \in Seq(Addresses)
    BY <1>4
  <2> HIDE DEF q
  <2>2. /\ Newest(q, FdLength) \in Seq(Addresses) /\ Len(Newest(q, FdLength)) <= FdLength
        /\ LET o == IF Len(q) > FdLength THEN Len(q) - FdLength ELSE 0 IN
           /\ Len(Newest(q, FdLength)) = Len(q) - o /\ o \in Nat
           /\ \A i \in DOMAIN Newest(q, FdLength) : Newest(q, FdLength)[i] = q[o + i]
    BY <2>1, <1>1, NewestInPlace
  <2>3. QED
    BY <2>2, <1>5 DEF q
<1>7. ASSUME NEW f \in past
      PROVE  f \in 0 .. NFeatures - 1 /\ \A k \in 0 .. FdLength : ~ f < (k + 1) * NHosts
  <2>1. PICK h \in DOMAIN Hosts : \E i \in DOMAIN ActionsOf(Hosts[h]) :
          f = HistoryStart(h) + (i - 1) * NPorts + ActionsOf(Hosts[h])[i] - 1
    BY <1>7
  <2>2. PICK i \in DOMAIN ActionsOf(Hosts[h]) :
          f = HistoryStart(h) + (i - 1) * NPorts + ActionsOf(Hosts[h])[i] - 1
    BY <2>1
  <2>3. h \in 1 .. NHosts
    BY <1>1
  <2>4. ActionsOf(Hosts[h]) \in Seq(Actions) /\ Len(ActionsOf(Hosts[h])) <= AhLength
    <3>1. <<>> \in Seq(Actions) /\ Len(<<>>) <= AhLength
      BY <1>1
    <3>2. \A name \in DOMAIN actionHistory :
            actionHistory[name] \in Seq(Actions) /\ Len(actionHistory[name]) <= AhLength
      BY DEF NetEnvTypeOK, Remembered
    <3>3. QED
      BY <3>1, <3>2 DEF ActionsOf
  <2>5. i \in 1 .. AhLength /\ ActionsOf(Hosts[h])[i] \in Actions
    BY <1>1, <2>4
  <2>6. f \in HistoryStart(1) .. NFeatures - 1 /\ \A k \in 0 .. FdLength : ~ f < (k + 1) * NHosts
    BY <2>2, <2>3, <2>5, HistoryFeatures
  <2>7. HistoryStart(1) \in Nat
    <3>1. FdLength * NHosts \in Nat
      BY <1>1, Product
    <3>2. (1 - 1) * MaxPorts * AhLength = 0
      BY NetEnvAssumption DEF NetEnvAssumption
    <3>3. QED
      BY <1>1, <3>1, <3>2 DEF HistoryStart
  <2>8. QED
    BY <2>6, <2>7
<1> HIDE DEF past
<1>8. MakeNPArray =
        {DestinationFeature(0, curDst)} \cup {DestinationFeature(i, dsts[i]) : i \in DOMAIN dsts}
          \cup past
  BY DEF MakeNPArray, past
<1>9. /\ 0 \in 0 .. FdLength /\ DOMAIN dsts = 1 .. Len(dsts)
      /\ \A i \in DOMAIN dsts : i \in 0 .. FdLength /\ i # 0 /\ dsts[i] \in DOMAIN NodeOf
      /\ curDst \in DOMAIN NodeOf
  BY <1>1, <1>5, <1>6
<1>10. MakeNPArray \subseteq 0 .. NFeatures - 1
  <2>1. DestinationFeature(0, curDst) \in 0 .. NFeatures - 1
    BY <1>9, DestinationFeatures
  <2>2. \A i \in DOMAIN dsts : DestinationFeature(i, dsts[i]) \in 0 .. NFeatures - 1
    BY <1>9, DestinationFeatures
  <2>3. QED
    BY <1>7, <1>8, <2>1, <2>2
<1>11. ASSUME NEW k \in 0 .. FdLength
       PROVE  Block(k) = Expected(request, k)
  <2> DEFINE In(f) == k * NHosts <= f /\ f < (k + 1) * NHosts
  <2>1. In(DestinationFeature(0, curDst)) <=> k = 0
    BY <1>9, DestinationFeatures
  <2>2. \A i \in DOMAIN dsts : In(DestinationFeature(i, dsts[i])) <=> k = i
    BY <1>9, DestinationFeatures
  <2>3. \A f \in past : ~ In(f)
    BY <1>7
  <2>4. Block(k) = {f \in MakeNPArray : In(f)}
    BY DEF Block
  <2> HIDE DEF In
  <2>5. CASE k = 0
    <3>1. Block(k) = {DestinationFeature(0, curDst)}
      BY <1>8, <1>9, <2>1, <2>2, <2>3, <2>4, <2>5
    <3>2. older + 0 <= Len(request.dests)
      BY <1>6
    <3>3. Expected(request, 0) = {0 * NHosts + Digit[GetNodeByIp(request.addr)] - 1}
      BY <3>2 DEF Expected
    <3>4. QED
      BY <1>2, <2>5, <3>1, <3>3 DEF DestinationFeature
  <2>6. CASE k \in DOMAIN dsts
    <3>1. Block(k) = {DestinationFeature(k, dsts[k])}
      BY <1>8, <1>9, <2>1, <2>2, <2>3, <2>4, <2>6
    <3>2. older + k <= Len(request.dests) /\ k # 0 /\ dsts[k] = request.dests[older + k]
      BY <1>6, <1>9, <2>6
    <3>3. Expected(request, k) = {k * NHosts + Digit[GetNodeByIp(request.dests[older + k])] - 1}
      BY <3>2 DEF Expected
    <3>4. QED
      BY <3>1, <3>2, <3>3 DEF DestinationFeature
  <2>7. CASE k # 0 /\ k \notin DOMAIN dsts
    <3>1. Block(k) = {}
      BY <1>8, <1>9, <2>1, <2>2, <2>3, <2>4, <2>7
    <3>2. ~ older + k <= Len(request.dests)
      <4> DEFINE n == Len(dsts)  m == Len(request.dests)
      <4>1. n \in Nat
        BY <1>6
      <4>2. m \in Nat
        BY <1>4
      <4>3. k \in Nat /\ k > n
        <5>1. k \in Nat /\ k # 0 /\ k \notin 1 .. n
          BY <1>1, <1>9, <2>7
        <5> HIDE DEF n
        <5>2. QED
          BY <4>1, <5>1
      <4>4. n = m - older /\ older \in Nat
        BY <1>6
      <4> HIDE DEF n, m, older
      <4>5. ~ older + k <= m
        BY <4>1, <4>2, <4>3, <4>4
      <4>6. QED
        BY <4>5 DEF m
    <3>3. QED
      BY <3>1, <3>2 DEF Expected
  <2>8. QED
    BY <2>5, <2>6, <2>7
<1>12. QED
  BY <1>10, <1>11

-----------------------------------------------------------------------------

(* The invariant holds at the start. *)
LEMMA InitInv == Init => EnvInv
<1> SUFFICES ASSUME Init PROVE EnvInv
  OBVIOUS
<1>1. NumRequests \in Nat /\ 0 \in QTimes
  BY NetEnvAssumption DEF NetEnvAssumption
<1>2. NetEnvTypeOK
  <2>1. /\ actionHistory \in [Addresses \cup {NoAddress} -> Seq(Actions)]
        /\ dsts \in Seq(Addresses) /\ answered \in Seq(Actions)
    BY DEF Init
  <2>2. asked \in Seq(Requests) /\ Len(asked) = 0
    BY DEF Init
  <2>3. judged.for = 0
    BY DEF Init, Judgement
  <2>4. /\ inbox \in 0 .. Len(asked) /\ Len(asked) <= NumRequests
        /\ lastReward \in QTimes /\ judged.for \in 0 .. NumRequests
    BY <1>1, <2>2, <2>3 DEF Init
  <2>5. /\ agent = "starting" /\ conn = "listening" /\ switch = "idle"
        /\ outbox = 0 /\ curDst = NoAddress /\ resetvar = FALSE
    BY DEF Init
  <2>6. QED
    BY <2>1, <2>2, <2>4, <2>5, Zenon DEF NetEnvTypeOK
<1>3. Turn /\ Broken /\ Deaths
  BY DEF Init, Turn, Broken, Deaths
<1>4. Earnings
  BY DEF Init, Earnings, NoRw
<1>5. JudgedInRange /\ RewardInRange /\ Held
  BY DEF Init, JudgedInRange, RewardInRange, Held, NoRw
<1>6. Remembered
  BY NetEnvAssumption DEF Init, Remembered, NetEnvAssumption
<1>7. QED
  BY <1>2, <1>3, <1>4, <1>5, <1>6 DEF EnvInv

(* The environment and its switch stay within EnvInv: the types, the turns *)
(* of the socket, the reasons to end and the owners of the rewards.        *)
THEOREM EnvInvariant == Spec => []EnvInv
<1>1. EnvInv /\ [Next]_vars => EnvInv'
  BY NextTypes, TurnKept, DeathsKept, EarningsKept, RangeKept, HeldKept, RememberedKept
     DEF EnvInv
<1>2. QED
  BY <1>1, InitInv, PTL DEF Spec

(* The variables of the environment and the socket keep their types.       *)
THEOREM EnvTypeCorrect == Spec => []NetEnvTypeOK
<1>1. EnvInv => NetEnvTypeOK
  BY DEF EnvInv
<1>2. QED
  BY <1>1, EnvInvariant, PTL

(* However often the agent resets, switch and environment never wait for   *)
(* one another: only the first reset reads a message.                      *)
THEOREM NoMutualWait == Spec => []NeverBothWait
<1>1. EnvInv => NeverBothWait
  BY DEF EnvInv, NetEnvTypeOK, Turn, NeverBothWait
<1>2. QED
  BY <1>1, EnvInvariant, PTL

(* While the switch runs, an action and its destination are credited with  *)
(* the time that came with the next request, whatever times the switch     *)
(* sends and however often the agent resets.                               *)
THEOREM RewardsEarned == Spec => []RewardOfItsAction
<1>1. EnvInv => RewardOfItsAction
  BY DEF EnvInv, Earnings, RewardOfItsAction
<1>2. QED
  BY <1>1, EnvInvariant, PTL

(* Whatever the queueing times, what makeRw2 computes lies between minRw   *)
(* and maxRw (net_env.py, lines 32-93).                                    *)
THEOREM RewardsInRange == Spec => []RewardInRange
<1>1. EnvInv => RewardInRange
  BY DEF EnvInv
<1>2. QED
  BY <1>1, EnvInvariant, PTL

(* The agent never decides on a stale observation: while the switch waits, *)
(* what makeNPArray encodes is the request that waits, one feature for the *)
(* destination of its packet and one for each of the newest FD_LENGTH      *)
(* destinations listed, none of them in another's block or outside of the  *)
(* observation space.                                                      *)
THEOREM ObservesWaitingPacket == Spec => []DecidesOnWaitingPacket
<1>1. EnvInv => DecidesOnWaitingPacket
  BY Observed DEF EnvInv
<1>2. QED
  BY <1>1, EnvInvariant, PTL

(* The environment's process only ends because the switch is gone or a     *)
(* request was for, or listed, an address of no host.                      *)
THEOREM DeathsExplained == Spec => []DeathExplained
<1>1. EnvInv => DeathExplained
  BY DEF EnvInv, Deaths, Unhandled, DeathExplained
<1>2. QED
  BY <1>1, EnvInvariant, PTL

-----------------------------------------------------------------------------

(* What the environment and its switch do is what LearnerSocket allows.    *)
LEMMA StepKeepsProtocol ==
  ASSUME EnvInv, EnvInv', [Next]_vars
  PROVE  [Socket!LSNext]_(Socket!lsVars)
<1> USE DEF Socket!LSNext, Socket!lsVars, SwitchState, PeerState, Question
<1>1. NetEnvTypeOK /\ Turn /\ Broken /\ NetEnvTypeOK' /\ Turn' /\ Broken'
  BY DEF EnvInv
<1>2. \A request \in Requests : request # NoQuestion
  <2>1. ASSUME NEW request \in Requests PROVE request.addr # NoAddress
    BY <2>1, RequestFacts, NetEnvAssumption DEF NetEnvAssumption
  <2>2. QED
    BY <2>1 DEF NoQuestion
<1>3. switch = "waiting" => asked[Len(asked)] # NoQuestion
  BY <1>1, <1>2 DEF Broken, NetEnvTypeOK
<1>4. CASE SwitchConnects
  BY <1>4 DEF SwitchConnects, Socket!Connect, stateVars, switchVars
<1>5. CASE SwitchAsks
  <2>1. asked'[Len(asked')] # NoQuestion /\ switch' = "waiting"
    BY <1>1, <1>2, <1>5 DEF SwitchAsks, NetEnvTypeOK, Broken
  <2>2. QED
    BY <1>1, <1>5, <2>1 DEF SwitchAsks, Socket!Ask, Broken, NetEnvTypeOK
<1>6. CASE SwitchTakes
  BY <1>1, <1>6 DEF SwitchTakes, Socket!Take, Broken
<1>7. CASE SwitchGoes
  BY <1>7 DEF SwitchGoes, Socket!SwitchGoes, stateVars
<1>8. CASE ResetArrives
  BY <1>8 DEF ResetArrives, switchVars
<1>9. CASE Accept \/ ResetNoData \/ ResetAgain
  BY <1>9 DEF Accept, ResetNoData, ResetAgain, switchVars
<1>10. ASSUME UNCHANGED <<switchVars, outbox>>, conn \in {"listening", "closed"} => conn' = conn,
              conn' \in {conn, "closed"}
       PROVE  Socket!LearnerGoes \/ UNCHANGED Socket!lsVars
  BY <1>1, <1>10 DEF Socket!LearnerGoes, switchVars, NetEnvTypeOK
<1>11. CASE ResetReads \/ ResetFails \/ StepReads \/ StepNoData \/ StepFails
  BY <1>1, <1>10, <1>11 DEF ResetReads, ResetFails, StepReads, StepNoData, StepFails,
     RecvRaises, NoData, Observe, switchVars, Broken
<1>12. CASE StepRaises
  BY <1>1, <1>10, <1>12 DEF StepRaises, switchVars, Broken
<1>13. ASSUME NEW action \in Actions, StepSends(action)
       PROVE  Socket!Answer \/ UNCHANGED Socket!lsVars
  <2>1. CASE conn = "open"
    BY <1>1, <1>3, <1>13, <2>1, NetEnvAssumption
       DEF StepSends, Socket!Answer, Turn, Actions, NetEnvAssumption, switchVars
  <2>2. CASE conn # "open"
    BY <1>13, <2>2 DEF StepSends, switchVars
  <2>3. QED
    BY <2>1, <2>2
<1>14. ASSUME NEW action \in Actions, SendRaises(action)
       PROVE  Socket!LearnerGoes \/ UNCHANGED Socket!lsVars
  BY <1>10, <1>14 DEF SendRaises, switchVars
<1>15. CASE UNCHANGED vars
  BY <1>15 DEF vars, switchVars
<1>16. QED
  BY <1>4, <1>5, <1>6, <1>7, <1>8, <1>9, <1>11, <1>12, <1>13, <1>14, <1>15
     DEF Next, EnvReads, StepCalled, Rest

(* The environment refines the protocol of the socket: it answers each     *)
(* question once, while the switch waits, over one connection.             *)
THEOREM KeepsProtocol == Spec => ImplementsSocket
<1>1. Init => Socket!LSInit
  BY DEF Init, Socket!LSInit, SwitchState, PeerState, Question
<1>2. QED
  BY <1>1, StepKeepsProtocol, EnvInvariant, PTL DEF Spec, ImplementsSocket, Socket!LSSpec

=============================================================================
