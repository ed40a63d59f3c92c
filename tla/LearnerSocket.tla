--------------------------- MODULE LearnerSocket ---------------------------
(***************************************************************************)
(* What the switch and the learner promise each other over their socket:   *)
(* one connection; one question at a time, answered at most once, and only *)
(* while it waits.  Either side may go away.  SimpleSwitch (through        *)
(* PyModule::getPort) and NetEnv (through reset and step) are both shown   *)
(* to keep to it, so each is checked with the other reduced to this.       *)
(***************************************************************************)
CONSTANTS
  Ports,         (* the answers                                            *)
  NoAnswer,      (* no answer on the socket                                *)
  NoRequest      (* no question outstanding                                *)

VARIABLES
  switch,        (* the switch: up or gone                                 *)
  peer,          (* the learner: absent, listening, serving or closed      *)
  request,       (* the question asked and not answered                    *)
  response       (* the answer sent and not received                       *)

lsVars == <<switch, peer, request, response>>

LSInit ==
  /\ switch = "up"
  /\ peer \in {"absent", "listening", "serving", "closed"}
  /\ request = NoRequest
  /\ response = NoAnswer

Listen ==
  /\ peer = "absent"
  /\ peer' = "listening"
  /\ UNCHANGED <<switch, request, response>>

Connect ==
  /\ switch = "up"
  /\ peer = "listening"
  /\ peer' = "serving"
  /\ UNCHANGED <<switch, request, response>>

(* The first question may connect as well.  A question to a learner that   *)
(* has gone is never answered.                                             *)
Ask ==
  /\ switch = "up"
  /\ peer # "absent"
  /\ request = NoRequest /\ response = NoAnswer
  /\ request' # NoRequest
  /\ peer' = IF peer = "listening" THEN "serving" ELSE peer
  /\ UNCHANGED <<switch, response>>

Answer ==
  /\ peer = "serving"
  /\ request # NoRequest
  /\ request' = NoRequest
  /\ response' \in Ports
  /\ UNCHANGED <<switch, peer>>

Take ==
  /\ response # NoAnswer
  /\ response' = NoAnswer
  /\ UNCHANGED <<switch, peer, request>>

LearnerGoes ==
  /\ peer \in {"listening", "serving"}
  /\ peer' = "closed"
  /\ UNCHANGED <<switch, request, response>>

SwitchGoes ==
  /\ switch = "up"
  /\ switch' = "gone"
  /\ request' = NoRequest
  /\ response' = NoAnswer
  /\ UNCHANGED peer

LSNext == Listen \/ Connect \/ Ask \/ Answer \/ Take \/ LearnerGoes \/ SwitchGoes

LSSpec == LSInit /\ [][LSNext]_lsVars

=============================================================================
