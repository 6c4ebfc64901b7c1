--------------------------- MODULE HandController ---------------------------
(***************************************************************************)
(* HandController of src/src/rh56/hand_controller.hpp and the hand behind  *)
(* its serial line.  A call runs under mutex_ from its first exchange to   *)
(* its reply, so there is one call at a time; the hand does not wait for   *)
(* it: between two exchanges joints move, break down and recover.          *)
(*                                                                         *)
(* A step is one exchange, or a decision taken on what was read.  What     *)
(* GetState shows and no decision reads is left out: target_q, the limits, *)
(* force, counters and times; contact detection is in HandService.         *)
(* Requests with fields out of range are refused before the first step.    *)
(***************************************************************************)
EXTENDS Integers

CONSTANTS
  Joints,  \* the joints of the hand
  MaxQ,    \* q is 0..MaxQ
  Limits,  \* force and current limits a grip may ask for
  Calls,   \* what this instance's callers call, out of CallKinds
  Losses   \* how a write may fail: "rejected", "lostAck"

CallKinds == {"SetTargets", "HoldCurrent", "ApplyGrip", "RefreshPosition",
              "RefreshState", "RefreshForce", "ClearFault"}
ASSUME MaxQAssumption == MaxQ \in Nat
ASSUME CallKindsAssumption == Calls \subseteq CallKinds
ASSUME LossesAssumption == Losses \subseteq {"rejected", "lostAck"}

VARIABLES
  \* The hand: where its joints are, the target and limit registers, and
  \* the state of its joints: "fine", "error" (error bits), "hot" (error bits
  \* and 60 C or more), "stopped" (status 7).  A joint moves while it is fine.
  position, goal, limits, condition,
  \* The controller: state_.error # 0 and state_.status = 7 as sets of joints,
  \* empty when they will be read anew before they are used, and
  \* health_valid_.
  error, status, healthValid,
  \* The call: its request, the point it has reached, the position and the
  \* temperature (the joints with 60 C or more) it read, and whether ClearFault
  \* is reading the health for the second time.
  request, pc, current, temperature, again,
  answer,  \* of the last call: "none" before it returns
  \* History: whether the health has not been read since the start or since a
  \* read failed, now and when the call began; and the joints that were
  \* faulted when the call began and have not recovered on their own.
  unsure, doubt, stuck

registers == <<goal, limits>>
health == <<error, status, healthValid>>
locals == <<current, temperature, again>>
call == <<request, answer, doubt, stuck>>
vars == <<position, registers, condition, health, pc, locals, call, unsure>>

Positions == 0 .. MaxQ
Masks == SUBSET Joints \ {{}}
NoRequest == [name |-> "none"]
Requests ==
  [name : Calls \cap {"SetTargets"}, mask : Masks, q : Positions] \cup
  [name : Calls \cap {"ApplyGrip"}, mask : {Joints}, q : Positions,
   limit : Limits] \cup
  [name : Calls \cap {"ClearFault"}, mask : Masks] \cup
  [name : Calls \cap {"HoldCurrent", "RefreshPosition", "RefreshState",
                      "RefreshForce"}]

Conditions == {"fine", "error", "hot", "stopped"}
Points == {"idle", "position", "words", "force", "current", "error", "status",
           "temperature", "gate", "currentLimit", "forceLimit", "write",
           "select", "hold", "clear", "restore", "verify"}

\* Every variable keeps its type.
TypeOK ==
  /\ position \in [Joints -> Positions] /\ goal \in [Joints -> Positions]
  /\ limits \in [{"current", "force"} -> Limits]
  /\ condition \in [Joints -> Conditions]
  /\ error \subseteq Joints /\ status \subseteq Joints
  /\ healthValid \in BOOLEAN
  /\ request \in Requests \cup {NoRequest} /\ pc \in Points
  /\ current \in [Joints -> Positions] /\ temperature \subseteq Joints
  /\ again \in BOOLEAN
  /\ answer \in {"none", "ok", "failed"}
  /\ unsure \in BOOLEAN /\ doubt \in BOOLEAN /\ stuck \subseteq Joints

Nowhere == [j \in Joints |-> 0]
Faulted == {j \in Joints : condition[j] # "fine"}

Init ==
  /\ position \in [Joints -> Positions] /\ goal = position
  /\ limits \in [{"current", "force"} -> Limits]
  /\ condition \in [Joints -> Conditions]
  /\ error = {} /\ status = {} /\ healthValid = FALSE
  /\ request = NoRequest /\ pc = "idle"
  /\ current = Nowhere /\ temperature = {} /\ again = FALSE
  /\ answer = "none" /\ unsure = TRUE /\ doubt = FALSE /\ stuck = {}

-----------------------------------------------------------------------------
(***************************************************************************)
(* The hand, as the code expects it to behave.                             *)
(***************************************************************************)

Move(j) ==
  /\ condition[j] = "fine" /\ position[j] # goal[j]
  /\ position' = [position EXCEPT
                    ![j] = IF goal[j] > @ THEN @ + 1 ELSE @ - 1]
  /\ UNCHANGED <<registers, condition, health, pc, locals, call, unsure>>

Break(j) ==
  /\ condition[j] = "fine"
  /\ \E c \in Conditions \ {"fine"} : condition' = [condition EXCEPT ![j] = c]
  /\ UNCHANGED <<position, registers, health, pc, locals, call, unsure>>

\* An overheated joint comes back when it has cooled, a stopped one when it
\* is told to stay where it is.
Recover(j) ==
  /\ \/ condition[j] = "hot"
     \/ condition[j] = "stopped" /\ goal[j] = position[j]
  /\ condition' = [condition EXCEPT ![j] = "fine"]
  /\ stuck' = stuck \ {j}
  /\ UNCHANGED <<position, registers, health, pc, locals, request, answer,
                 doubt, unsure>>

Hand == \E j \in Joints : Move(j) \/ Break(j) \/ Recover(j)

-----------------------------------------------------------------------------
(***************************************************************************)
(* How a call begins, goes on and ends.                                    *)
(***************************************************************************)

FirstPoint(name) ==
  CASE name = "SetTargets" -> IF healthValid THEN "gate" ELSE "error"
    [] name = "ApplyGrip" -> "current"
    [] name = "RefreshForce" -> "force"
    [] OTHER -> "position"

Begin(r) ==
  /\ pc = "idle"
  /\ request' = r /\ pc' = FirstPoint(r.name) /\ answer' = "none"
  /\ doubt' = unsure /\ stuck' = Faulted
  /\ UNCHANGED <<position, registers, condition, health, locals, unsure>>

Goto(point) == pc' = point /\ UNCHANGED call

Return(a) ==
  /\ pc' = "idle" /\ request' = NoRequest /\ answer' = a
  /\ current' = Nowhere /\ temperature' = {} /\ again' = FALSE
  /\ doubt' = FALSE /\ stuck' = {}

\* A bug to try: CommunicationFailure leaves health_valid_ alone.
LostTrusting ==
  /\ Return("failed")
  /\ unsure' = TRUE
  /\ UNCHANGED health

\* CommunicationFailure: a read fails, and the health is not trusted any more.
Lost ==
  /\ Return("failed")
  /\ error' = {} /\ status' = {} /\ healthValid' = FALSE /\ unsure' = TRUE

\* A write fails: it did not reach the hand, or its acknowledgement is lost.
Unwritten(kept, done) ==
  /\ \/ "rejected" \in Losses /\ kept
     \/ "lostAck" \in Losses /\ done
  /\ Return("failed")

-----------------------------------------------------------------------------
(***************************************************************************)
(* Reads.  Each may fail.                                                  *)
(***************************************************************************)

ReadPosition ==
  /\ pc = "position"
  /\ \/ Lost
     \/ /\ request.name = "RefreshPosition"
        /\ Return("ok") /\ UNCHANGED <<health, unsure>>
     \/ /\ request.name = "RefreshState"
        /\ Goto("words") /\ UNCHANGED <<locals, health, unsure>>
     \/ /\ request.name \in {"HoldCurrent", "ClearFault"}
        /\ current' = position
        /\ Goto(IF request.name = "HoldCurrent" THEN "write" ELSE "error")
        /\ UNCHANGED <<temperature, again, health, unsure>>
  /\ UNCHANGED <<position, registers, condition>>

\* RefreshState's force, current and limits; RefreshForce's force; the
\* current a grip tests at the gate.
ReadWords ==
  /\ pc \in {"words", "force", "current"}
  /\ \/ Lost
     \/ /\ pc = "force"
        /\ Return("ok") /\ UNCHANGED <<health, unsure>>
     \/ /\ pc # "force"
        /\ Goto("error") /\ UNCHANGED <<locals, health, unsure>>
  /\ UNCHANGED <<position, registers, condition>>

\* RefreshHealthLocked, one register block after the other.
ReadError ==
  /\ pc = "error"
  /\ \/ Lost
     \/ /\ error' = {j \in Joints : condition[j] \in {"error", "hot"}}
        /\ Goto("status")
        /\ UNCHANGED <<status, healthValid, locals, unsure>>
  /\ UNCHANGED <<position, registers, condition>>

ReadStatus ==
  /\ pc = "status"
  /\ \/ Lost
     \/ /\ status' = Faulted
        /\ Goto("temperature")
        /\ UNCHANGED <<error, healthValid, locals, unsure>>
  /\ UNCHANGED <<position, registers, condition>>

ReadTemperature ==
  /\ pc = "temperature"
  /\ \/ Lost
     \/ /\ healthValid' = TRUE /\ unsure' = FALSE
        /\ UNCHANGED <<error, status>>
        /\ \/ request.name = "RefreshState" /\ Return("ok")
           \/ /\ request.name \in {"SetTargets", "ApplyGrip"}
              /\ Goto("gate") /\ UNCHANGED locals
           \/ /\ request.name = "ClearFault"
              /\ temperature' = {j \in Joints : condition[j] = "hot"}
              /\ Goto(IF again THEN "verify" ELSE "select")
              /\ UNCHANGED <<current, again>>
  /\ UNCHANGED <<position, registers, condition>>

-----------------------------------------------------------------------------
(***************************************************************************)
(* Commands that move the hand.                                            *)
(***************************************************************************)

FaultsRead == error \cup status

\* The fault test of SetTargets and ApplyGrip.  A grip is also refused when
\* a joint that is not faulted is warm or its current is at the limit.
Gate ==
  /\ pc = "gate"
  /\ \/ /\ \/ request.mask \cap FaultsRead # {}
           \/ request.name = "ApplyGrip"
        /\ Return("failed")
     \/ /\ request.mask \cap FaultsRead = {}
        /\ Goto(IF request.name = "ApplyGrip" THEN "currentLimit" ELSE "write")
        /\ UNCHANGED locals
  /\ UNCHANGED <<position, registers, condition, health, unsure>>

WriteLimit(limit, point) ==
  LET done == limits' = [limits EXCEPT ![limit] = request.limit]
  IN /\ \/ done /\ Goto(point) /\ UNCHANGED locals
        \/ Unwritten(UNCHANGED limits, done)
     /\ UNCHANGED <<position, goal, condition, health, unsure>>

\* A bug to try: the acknowledgements of the limits are ignored.
GripLimitsUnchecked ==
  /\ pc \in {"currentLimit", "forceLimit"}
  /\ \E kept \in BOOLEAN :
       limits' = IF kept /\ "rejected" \in Losses THEN limits
                 ELSE [limits EXCEPT ![IF pc = "forceLimit" THEN "force"
                                       ELSE "current"] = request.limit]
  /\ Goto(IF pc = "forceLimit" THEN "write" ELSE "forceLimit")
  /\ UNCHANGED <<position, goal, condition, health, locals, unsure>>

GripLimits ==
  \/ pc = "currentLimit" /\ WriteLimit("current", "forceLimit")
  \/ pc = "forceLimit" /\ WriteLimit("force", "write")

\* A bug to try: the frame's mark for "leave this joint alone" is a target.
NewGoalRaw(targets, mask) ==
  goal' = [j \in Joints |-> IF j \in mask THEN targets[j] ELSE -1]

\* WritePosition with the selected joints.
NewGoal(targets, mask) ==
  goal' = [j \in Joints |-> IF j \in mask THEN targets[j] ELSE goal[j]]

\* A bug to try: the result of WritePosition is ignored.
WriteTargetsUnchecked ==
  LET done == IF request.name = "HoldCurrent" THEN NewGoal(current, Joints)
              ELSE NewGoal([j \in Joints |-> request.q], request.mask)
  IN /\ pc = "write" /\ Return("ok")
     /\ \/ done
        \/ "rejected" \in Losses /\ UNCHANGED goal
     /\ UNCHANGED <<position, limits, condition, health, unsure>>

WriteTargets ==
  LET done == IF request.name = "HoldCurrent" THEN NewGoal(current, Joints)
              ELSE NewGoal([j \in Joints |-> request.q], request.mask)
  IN /\ pc = "write"
     /\ \/ done /\ Return("ok")
        \/ Unwritten(UNCHANGED goal, done)
     /\ UNCHANGED <<position, limits, condition, health, unsure>>

-----------------------------------------------------------------------------
(***************************************************************************)
(* ClearFault, once position and health are read.                          *)
(***************************************************************************)

\* A bug to try: the errors are cleared before the joints are held.
SelectUnheld ==
  /\ pc = "select"
  /\ \/ /\ error \cap temperature # {}
        /\ Return("failed")
     \/ /\ error \cap temperature = {} /\ request.mask \cap FaultsRead = {}
        /\ Return("ok")
     \/ /\ error \cap temperature = {} /\ request.mask \cap FaultsRead # {}
        /\ Goto("clear") /\ UNCHANGED locals
  /\ UNCHANGED <<position, registers, condition, health, unsure>>

\* An overheated joint, requested or not, ends it; so does it if no requested
\* joint is faulted.
Select ==
  /\ pc = "select"
  /\ \/ /\ error \cap temperature # {}
        /\ Return("failed")
     \/ /\ error \cap temperature = {} /\ request.mask \cap FaultsRead = {}
        /\ Return("ok")
     \/ /\ error \cap temperature = {} /\ request.mask \cap FaultsRead # {}
        /\ Goto("hold") /\ UNCHANGED locals
  /\ UNCHANGED <<position, registers, condition, health, unsure>>

HoldFaulted(next, readsAgain) ==
  LET done == NewGoal(current, FaultsRead)
  IN /\ \/ done /\ Goto(next) /\ again' = readsAgain
           /\ UNCHANGED <<current, temperature>>
        \/ Unwritten(UNCHANGED goal, done)
     /\ UNCHANGED <<position, limits, condition, health, unsure>>

Hold == pc = "hold" /\ HoldFaulted("clear", FALSE)
Restore == pc = "restore" /\ HoldFaulted("error", TRUE)

\* CLEAR_ERROR reaches all joints.  Error bits may come back at once.
ClearErrors ==
  LET done == \E cleared \in SUBSET {j \in Joints : condition[j] = "error"} :
                condition' = [j \in Joints |->
                                IF j \in cleared THEN "fine" ELSE condition[j]]
  IN /\ pc = "clear"
     /\ \/ /\ request.mask \cap error = {}
           /\ Goto("restore") /\ UNCHANGED <<condition, locals>>
        \/ /\ request.mask \cap error # {}
           /\ \/ done /\ Goto("restore") /\ UNCHANGED locals
              \/ Unwritten(UNCHANGED condition, done)
     /\ UNCHANGED <<position, registers, health, unsure>>

\* Faults that remain are reported.
Verify ==
  /\ pc = "verify"
  /\ Return(IF request.mask \cap FaultsRead = {} THEN "ok" ELSE "failed")
  /\ UNCHANGED <<position, registers, condition, health, unsure>>

Exchange ==
  \/ ReadPosition \/ ReadWords \/ ReadError \/ ReadStatus \/ ReadTemperature
  \/ Gate \/ GripLimits \/ WriteTargets
  \/ Select \/ Hold \/ ClearErrors \/ Restore \/ Verify

Next == Hand \/ (\E r \in Requests : Begin(r)) \/ Exchange

Spec == Init /\ [][Next]_vars

-----------------------------------------------------------------------------
(***************************************************************************)
(* Properties.                                                             *)
(***************************************************************************)

\* "no travel commanded" (hand_controller.hpp:217): a joint that was faulted
\* when ClearFault began, and comes back because of it, has nowhere to go,
\* however the call fails and whatever else breaks down meanwhile.
NoTravel ==
  request.name = "ClearFault" =>
    \A j \in stuck : condition[j] = "fine" => goal[j] = position[j]

\* A joint that is faulted when the call begins gets no new target from a
\* grip, nor from SetTargets if a read has failed since the health was last
\* read: neither takes an old health for the present one.
FaultedNotCommanded ==
  [][/\ goal' # goal
     /\ \/ request.name = "ApplyGrip"
        \/ request.name = "SetTargets" /\ doubt
     => stuck \cap request.mask = {}]_vars

\* A grip's target is not written before both of its limits are in force.
GripLimited ==
  [][goal' # goal /\ request.name = "ApplyGrip" =>
       \A l \in {"current", "force"} : limits[l] = request.limit]_vars

\* A call is what the arbitration takes it for.
Port == INSTANCE HandPort
PortSpec == Port!Spec
=============================================================================
