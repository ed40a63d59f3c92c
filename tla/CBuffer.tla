------------------------------ MODULE CBuffer ------------------------------
(***************************************************************************)
(* ConcurrentCBuffer (bmv2/targets/simple_switch/ccbuffer.h): the ring in  *)
(* which a switch keeps the destination addresses of the packets that are  *)
(* inside it.  A push overwrites the slot at nextPos and returns its       *)
(* index; a pop invalidates the slot whose index the packet carries.       *)
(* Slots are never moved, so valid slots may be scattered between head     *)
(* and nextPos.  push and pop run under futureDestinations_mutex, hence    *)
(* each is one step.                                                       *)
(***************************************************************************)
EXTENDS Naturals, FiniteSets, Sequences

CONSTANTS
  CBufferSize,   (* number of slots (30 in ccbuffer.h)                     *)
  Addresses,     (* the IPv4 destinations packets may carry                *)
  NoAddress      (* the address 0 of a slot never written                  *)

ASSUME CBufferAssumption ==
  /\ CBufferSize \in Nat \ {0}
  /\ NoAddress \notin Addresses

VARIABLES
  futureDestinations,   (* slot -> [addr, valid]                           *)
  head,                 (* slot of the oldest valid element                *)
  validElements,        (* the counter the code keeps of valid slots       *)
  nextPos               (* slot the next push writes                       *)

cbVars == <<futureDestinations, head, validElements, nextPos>>

Slots == 0 .. CBufferSize - 1

Address == [addr : Addresses \cup {NoAddress}, valid : BOOLEAN]

IsValid(pos) == futureDestinations[pos].valid

ValidSlots == {pos \in Slots : IsValid(pos)}

(* The slot i places after pos, around the ring. *)
After(pos, i) == (pos + i) % CBufferSize

(* The while loop of push and pop: the first valid slot met when walking   *)
(* from the one after pos all the way round to pos itself.  The loop only  *)
(* ends if there is a valid slot: see SearchEnds.                          *)
NextValid(pos) ==
  LET d == CHOOSE i \in 1 .. CBufferSize :
             /\ IsValid(After(pos, i))
             /\ \A j \in 1 .. (i - 1) : ~ IsValid(After(pos, j))
  IN  After(pos, d)

(* The valid slots in the order PyModule::getPort lists them: from head,   *)
(* once around the ring; Walk[i] are those met in the first i slots.       *)
Walk[i \in 0 .. CBufferSize] ==
  IF i = 0 THEN <<>>
  ELSE IF IsValid(After(head, i - 1)) THEN Append(Walk[i - 1], After(head, i - 1))
  ELSE Walk[i - 1]

Listed == Walk[CBufferSize]

(* The destinations of a request, oldest first. *)
FutureList ==
  [i \in 1 .. Len(Listed) |-> futureDestinations[Listed[i]].addr]

-----------------------------------------------------------------------------

CBInit ==
  /\ futureDestinations = [pos \in Slots |-> [addr |-> NoAddress, valid |-> FALSE]]
  /\ head = 0
  /\ validElements = 0
  /\ nextPos = 0

(* Slips a change of push or pop could make, each caught by a property:    *)
(* push without the decrement, or without the new head, of the branch that *)
(* drops the oldest element.                                               *)
PushNoDecrement(address) ==
  /\ head' = IF nextPos = head /\ validElements # 0 THEN NextValid(head) ELSE head
  /\ validElements' = validElements + 1
  /\ futureDestinations' = [futureDestinations EXCEPT ![nextPos] = [addr |-> address, valid |-> TRUE]]
  /\ nextPos' = (nextPos + 1) % CBufferSize

PushKeepsHead(address) ==
  /\ validElements' = IF IsValid(nextPos) THEN validElements ELSE validElements + 1
  /\ futureDestinations' = [futureDestinations EXCEPT ![nextPos] = [addr |-> address, valid |-> TRUE]]
  /\ nextPos' = (nextPos + 1) % CBufferSize
  /\ UNCHANGED head

(* pop leaving head where it was when the ring becomes empty; taking the   *)
(* oldest element instead of the one at pos.                               *)
PopKeepsHead(pos) ==
  /\ IsValid(pos)
  /\ head' = IF pos = head THEN NextValid(head) ELSE head
  /\ futureDestinations' = [futureDestinations EXCEPT ![pos].valid = FALSE]
  /\ validElements' = validElements - 1
  /\ UNCHANGED nextPos

PopOldest(pos) ==
  /\ IsValid(head)
  /\ head' = IF NextValid(head) # head THEN NextValid(head) ELSE nextPos
  /\ futureDestinations' = [futureDestinations EXCEPT ![head].valid = FALSE]
  /\ validElements' = validElements - 1
  /\ UNCHANGED nextPos

(* push: the slot it returns, and whether it first drops the oldest        *)
(* element, whose slot it is about to reuse.                               *)
PushPos == nextPos % CBufferSize

Evicts == PushPos = head /\ validElements # 0

Push(address) ==
  /\ head' = IF Evicts THEN NextValid(head) ELSE head
  /\ validElements' = (IF Evicts THEN validElements - 1 ELSE validElements) + 1
  /\ futureDestinations' =
       [futureDestinations EXCEPT ![PushPos] = [addr |-> address, valid |-> TRUE]]
  /\ nextPos' = (PushPos + 1) % CBufferSize

(* pop, past its early return: removing the head moves it to the next      *)
(* valid slot, or to nextPos when it was the only one.                     *)
PopValid(pos) ==
  /\ IsValid(pos)
  /\ head' = IF pos # head           THEN head
             ELSE IF NextValid(head) # head THEN NextValid(head)
                                            ELSE nextPos
  /\ futureDestinations' = [futureDestinations EXCEPT ![pos].valid = FALSE]
  /\ validElements' = validElements - 1
  /\ UNCHANGED nextPos

Pop(pos) ==
  \/ PopValid(pos)
  \/ ~ IsValid(pos) /\ UNCHANGED cbVars

CBNext ==
  \/ \E address \in Addresses : Push(address)
  \/ \E pos \in Slots : Pop(pos)

CBSpec == CBInit /\ [][CBNext]_cbVars

-----------------------------------------------------------------------------

(* The fields of the class stay in their ranges (ccbuffer.h:24-30).        *)
CBTypeOK ==
  /\ futureDestinations \in [Slots -> Address]
  /\ head \in Slots
  /\ validElements \in 0 .. CBufferSize
  /\ nextPos \in Slots

(* The counter sent to the learner as the number of future destinations    *)
(* (currElems) is the number of slots the request walks over and finds     *)
(* valid, although push and pop keep the two separately.                   *)
CountMatches == validElements = Cardinality(ValidSlots)

(* pos lies between head (included) and nextPos (excluded) round the ring. *)
InWindow(pos) ==
  IF head < nextPos THEN head <= pos /\ pos < nextPos
                    ELSE head <= pos \/ pos < nextPos

(* head is the oldest valid element and nothing older survives: an empty   *)
(* ring has head at nextPos, otherwise head is valid and every valid slot  *)
(* was written in the last turn, between head and nextPos.                 *)
HeadIsOldest ==
  /\ ValidSlots = {} => head = nextPos
  /\ ValidSlots # {} => IsValid(head) /\ (\A pos \in ValidSlots : InWindow(pos))

(* Whenever push enters its search loop there is a valid slot to find, so  *)
(* the loop ends and the mutex is released (ccbuffer.h:57-60).             *)
SearchEnds == Evicts => ValidSlots # {}

(* A step only ever makes the oldest element disappear, or the one whose   *)
(* position was popped: a push never drops an element out of order.        *)
OnlyOldestEvicted ==
  [][nextPos' # nextPos =>
       \A pos \in ValidSlots \ {head} : futureDestinations'[pos] = futureDestinations[pos]]_cbVars

(* The insertions a request lists, oldest first.                           *)
Entries ==
  [i \in 1 .. Len(Listed) |->
     [pos |-> Listed[i], addr |-> futureDestinations[Listed[i]].addr]]

Abstract == INSTANCE FutureDestinations WITH queue <- Entries, next <- nextPos

(* The ring of ccbuffer.h implements the oldest-first list: reading it     *)
(* from head gives the insertions still present in the order of their      *)
(* pushes, and a position names one insertion.                             *)
ImplementsFutureDestinations == Abstract!Spec

=============================================================================
