---------------------------- MODULE MLController ----------------------------
(***************************************************************************)
(* The P4 extern MLController (bmv2/targets/simple_switch/MLController.cpp)*)
(* with the PyModule it owns (pymodule.h).  One instance serves both the   *)
(* ingress and the egress control, which name it alike, and bmv2 runs      *)
(* every method under the instance's mutex (bm_sim/extern.h): a method is  *)
(* one step, except getOutputPort, which keeps the mutex while it waits    *)
(* for the learner and is the two steps GetOutputPort and PortReceived.    *)
(*                                                                         *)
(* MAC addresses are abstracted to the node that owns them, the queueing   *)
(* time of a packet to the packet it was measured on.  IPv4 addresses are  *)
(* unsigned numbers, of 32 bits in the code.                               *)
(***************************************************************************)
EXTENDS CBuffer, Integers

CONSTANTS
  Nodes,             (* the switches named in topology.db                  *)
  NullHost,          (* "nullhost", the name before checkHost succeeds     *)
  Unknown,           (* the owner of a MAC that is no switch interface     *)
  Ports,             (* the ports of a switch that have a neighbour        *)
  UpdateFrequency,   (* UPDATE_FREQUENCY (500)                             *)
  RwsSize,           (* RWS_SIZE (100000)                                  *)
  AddressSpace,      (* the number of addresses (2^32)                     *)
  NumPackets,        (* bound: packets of the behaviour, numbered from 1   *)
  NoRequest          (* no GETP message on the socket                      *)

ASSUME MLControllerAssumption ==
  /\ NullHost \notin Nodes /\ Unknown \notin Nodes
  /\ Ports \subseteq Nat \ {0}
  /\ UpdateFrequency \in Nat \ {0}
  /\ RwsSize \in Nat \ {0}
  /\ AddressSpace \in Nat /\ Addresses \cup {NoAddress} \subseteq 0 .. AddressSpace - 1
  /\ NumPackets \in Nat

VARIABLES
  hostsLoaded,   (* the map `hosts` has been read by parseMac              *)
  host,          (* the node this switch takes itself for                  *)
  counters,      (* destination -> packets since its last route update     *)
  nextId,        (* index of rws for the next routed packet                *)
  nextRw,        (* index of rws for the next reward to send               *)
  rws,           (* the rewards: queueing times by index, 0 if never set   *)
  py,            (* PyModule: "null", "created" or "connected"             *)
  peer,          (* the learner: absent, listening, serving or closed      *)
  request,       (* the GETP message sent and not answered                 *)
  response       (* the port sent back and not received, 0 if none         *)

idVars      == <<nextId, nextRw, rws>>
socketVars  == <<py, peer, request, response>>
ctrlVars    == <<hostsLoaded, host, counters, idVars, socketVars>>

NoReward == 0
NoPort   == -1            \* what getPort returns when nobody listens
Unseen   == UpdateFrequency   \* no entry of `counters`: never a stored value
Rewards  == 0 .. NumPackets

CtrlInit ==
  /\ CBInit
  /\ hostsLoaded = FALSE
  /\ host = NullHost
  /\ counters = [address \in Addresses |-> Unseen]
  /\ nextId = 0 /\ nextRw = 0
  /\ rws = [id \in 0 .. RwsSize - 1 |-> NoReward]
  /\ py = "null"
  /\ request = NoRequest
  /\ response = 0

-----------------------------------------------------------------------------

(* checkHost: an unbound switch takes the name of the node owning mac, if  *)
(* the map (already loaded or not) has it.                                 *)
CheckHost(mac, loaded) ==
  host' = IF host = NullHost /\ loaded /\ mac \in Nodes THEN mac ELSE host

(* The counter of pushAddr after this packet, and whether the packet's     *)
(* destination is due for a new route.                                     *)
Bumped(address) == (IF counters[address] = Unseen THEN 0 ELSE counters[address]) + 1

UpdateEntry(address) ==
  counters[address] = Unseen \/ Bumped(address) = UpdateFrequency

(* Slips of the extern: popAddr that leaves the address in the ring; a     *)
(* reward index that stays where it is; ids that never wrap; a lookup of   *)
(* the neighbour that counts ports from 0.                                 *)
PopAddrKeeps(mac, pos, valid) ==
  /\ CheckHost(mac, hostsLoaded)
  /\ UNCHANGED <<cbVars, hostsLoaded, counters, idVars, socketVars>>

TakeRewardKeeps == UNCHANGED nextRw

NextIdUnbounded == nextId' = nextId + 1

NeighborFromZero(port) == port + 1 \notin Ports

(* pushAddr for an IPv4 packet; it returns PushPos and UpdateEntry.  For   *)
(* any other packet it returns at once and changes nothing.                *)
PushAddr(mac, address) ==
  /\ hostsLoaded' = TRUE
  /\ CheckHost(mac, TRUE)
  /\ counters' = [counters EXCEPT ![address] =
                    IF Bumped(address) = UpdateFrequency THEN 0 ELSE Bumped(address)]
  /\ Push(address)
  /\ UNCHANGED <<idVars, socketVars>>

(* popAddr: the name is checked for every packet, the pop is for IPv4.     *)
PopAddr(mac, pos, valid) ==
  /\ CheckHost(mac, hostsLoaded)
  /\ IF valid THEN Pop(pos) ELSE UNCHANGED cbVars
  /\ UNCHANGED <<hostsLoaded, counters, idVars, socketVars>>

(* sendReward: the queueing time of packet p is stored at its id.          *)
SendReward(p, id) ==
  /\ rws' = [rws EXCEPT ![id] = p]
  /\ UNCHANGED <<cbVars, hostsLoaded, host, counters, nextId, nextRw, socketVars>>

(* getOutputPort up to the socket.  LastRw is the reward it sends along.   *)
LastRw == IF nextId # 0 THEN rws[nextRw] ELSE NoReward

TakeReward ==
  nextRw' = IF nextId # 0 THEN (nextRw + 1) % RwsSize ELSE nextRw

NextIdUp == nextId' = (nextId + 1) % RwsSize

(* createConnection succeeds if the learner listens; a connection once     *)
(* made is never given up.                                                 *)
Connects == py = "connected" \/ peer = "listening"

(* checkPy leaves the pointer null while the switch has no name: the call  *)
(* through it takes the process down (the step is then Segfault).          *)
PyIsNull(mac) == host = NullHost /\ mac \notin Nodes /\ py = "null"

(* What "%d" makes of an unsigned number of the width of an int.           *)
Signed(address) == IF 2 * address < AddressSpace THEN address ELSE address - AddressSpace

(* getPort sends the size, the packet's destination, the reward and the    *)
(* future destinations, then waits with every lock held.  The packet's     *)
(* destination is printed with "%d", the listed ones with "%lu" ...        *)
GetOutputPort(mac, pos) ==
  /\ ~ PyIsNull(mac)
  /\ CheckHost(mac, TRUE)
  /\ Connects
  /\ py' = "connected"
  /\ peer' = IF peer = "listening" THEN "serving" ELSE peer
  /\ request' = [ size   |-> validElements,
                  addr   |-> Signed(futureDestinations[pos].addr),
                  reward |-> LastRw,
                  dests  |-> FutureList ]
  /\ TakeReward
  /\ hostsLoaded' = TRUE
  /\ UNCHANGED <<cbVars, counters, nextId, rws, response>>

(* A slip: a recv that gives up waiting.                                   *)
PortReceivedLate ==
  /\ response' = 0
  /\ NextIdUp
  /\ UNCHANGED <<cbVars, hostsLoaded, host, counters, nextRw, rws, py, peer, request>>

(* ... until recv returns the port.                                        *)
PortReceived ==
  /\ response # 0
  /\ response' = 0
  /\ NextIdUp
  /\ UNCHANGED <<cbVars, hostsLoaded, host, counters, nextRw, rws, py, peer, request>>

(* getOutputPort with nobody listening: getPort returns -1 at once.        *)
NobodyListens(mac) ==
  /\ ~ PyIsNull(mac)
  /\ CheckHost(mac, TRUE)
  /\ ~ Connects
  /\ py' = "created"
  /\ TakeReward
  /\ NextIdUp
  /\ hostsLoaded' = TRUE
  /\ UNCHANGED <<cbVars, counters, rws, peer, request, response>>

(* The value getOutputPort leaves in doForward: the 0 stored for a port of *)
(* -1 is overwritten by the assignment that follows it.                    *)
DoForward(port) == TRUE

(* getNeighborMac: whether the packet may be forwarded, and whether the    *)
(* lookup of the neighbour throws because the port has none.               *)
KnownDestination(mac) == hostsLoaded /\ mac \in Nodes

NeighborThrows(port) == port \notin Ports

-----------------------------------------------------------------------------

(* The learner (external): it starts to listen, accepts the one connection *)
(* of the switch, answers each request with a port, and may go away.       *)
PeerListens ==
  /\ peer = "absent"
  /\ peer' = "listening"
  /\ UNCHANGED <<cbVars, hostsLoaded, host, counters, idVars, py, request, response>>

PeerAnswers ==
  /\ peer = "serving"
  /\ request # NoRequest
  /\ request' = NoRequest
  /\ response' \in Ports
  /\ UNCHANGED <<cbVars, hostsLoaded, host, counters, idVars, py, peer>>

PeerCloses ==
  /\ peer \in {"listening", "serving"}
  /\ peer' = "closed"
  /\ UNCHANGED <<cbVars, hostsLoaded, host, counters, idVars, py, request, response>>

-----------------------------------------------------------------------------

Requests ==
  [ size   : 0 .. CBufferSize,
    addr   : {Signed(address) : address \in Addresses \cup {NoAddress}},
    reward : Rewards,
    dests  : UNION {[1 .. n -> Addresses] : n \in 0 .. CBufferSize} ]

CtrlTypeOK ==
  /\ CBTypeOK
  /\ hostsLoaded \in BOOLEAN
  /\ host \in Nodes \cup {NullHost}
  /\ counters \in [Addresses -> 0 .. UpdateFrequency]
  /\ nextId \in 0 .. RwsSize - 1
  /\ nextRw \in 0 .. RwsSize - 1
  /\ rws \in [0 .. RwsSize - 1 -> Rewards]
  /\ py \in {"null", "created", "connected"}
  /\ peer \in {"absent", "listening", "serving", "closed"}
  /\ request \in Requests \cup {NoRequest}
  /\ response \in Ports \cup {0}

=============================================================================
