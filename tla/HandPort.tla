------------------------------ MODULE HandPort ------------------------------
(***************************************************************************)
(* What the arbitration relies on when it calls a HandController (Write in *)
(* HandService): a call that moves the hand gives all selected joints      *)
(* their targets at once or none, and "ok" is only answered if it did.  A  *)
(* failure says nothing: the acknowledgement may have been lost.           *)
(***************************************************************************)
CONSTANTS Joints, Positions, Requests, NoRequest

VARIABLES
  goal,     \* the target each joint of the hand follows
  request,  \* the call in progress
  answer    \* of the last call: "none" before it returns, "ok", "failed"

vars == <<goal, request, answer>>

Init ==
  /\ goal \in [Joints -> Positions]
  /\ request = NoRequest
  /\ answer = "none"

Ask(r) ==
  /\ request = NoRequest
  /\ request' = r /\ answer' = "none"
  /\ UNCHANGED goal

Answer(a) ==
  /\ request # NoRequest
  /\ request' = NoRequest /\ answer' = a

\* The selected joints get the target of the request.
Told ==
  /\ request.name \in {"SetTargets", "ApplyGrip"}
  /\ goal' = [j \in Joints |->
                IF j \in request.mask THEN request.q ELSE goal[j]]

\* All joints get the target that was read from the hand.
Held == request.name = "HoldCurrent" /\ goal' \in [Joints -> Positions]

Succeed ==
  /\ Answer("ok")
  /\ \/ Told \/ Held
     \/ /\ request.name \notin {"SetTargets", "ApplyGrip", "HoldCurrent"}
        /\ UNCHANGED goal

Fail == Answer("failed") /\ (Told \/ Held \/ UNCHANGED goal)

\* On the way to its answer, ClearFault gives faulted joints a target.
Rest ==
  /\ request.name = "ClearFault"
  /\ goal' \in [Joints -> Positions]
  /\ UNCHANGED <<request, answer>>

\* ... also in the step in which it fails.
FailToRest ==
  /\ request.name = "ClearFault" /\ Answer("failed")
  /\ goal' \in [Joints -> Positions]

Next ==
  \/ \E r \in Requests : Ask(r)
  \/ Succeed \/ Fail \/ Rest \/ FailToRest

Spec == Init /\ [][Next]_vars
=============================================================================
