---------------------------- MODULE RegisterLine ----------------------------
(***************************************************************************)
(* What a HandController relies on when it calls its Transport: a read     *)
(* that succeeds returns what the register held at one moment of the call, *)
(* a write that succeeds has taken place, and one that fails may have, or  *)
(* may yet take place before the next call.                                *)
(*                                                                         *)
(* Only while an answer to an earlier call may still be on its way         *)
(* (behind) is a success no promise: it may repeat that call's answer.     *)
(***************************************************************************)
CONSTANTS
  Registers,
  Feedback,   \* the registers that change on their own
  Values,
  Calls, NoCall, Unseen, Failed

VARIABLES
  register,  \* what each register of the hand holds
  call,      \* the last call
  open,      \* it has not returned
  seen,      \* what it found in the register or wrote there, if it got there
  behind,    \* earlier calls may still be answered
  answer     \* what it returned

vars == <<register, call, open, seen, behind, answer>>

Init ==
  /\ register \in [Registers -> Values]
  /\ call = NoCall /\ open = FALSE /\ seen = Unseen /\ behind = FALSE
  /\ answer = Unseen

Ask(c) ==
  /\ ~open /\ open' = TRUE
  /\ call' = c /\ seen' = Unseen /\ answer' = Unseen
  /\ behind' \in BOOLEAN
  /\ UNCHANGED register

\* The call reaches the hand, at the latest before the next call.
Reach ==
  /\ call # NoCall /\ seen = Unseen
  /\ \/ /\ call.op = "read" /\ seen' = register[call.register]
        /\ UNCHANGED register
     \/ /\ call.op = "write" /\ seen' = call.value
        /\ register' = [register EXCEPT ![call.register] = call.value]
  /\ UNCHANGED <<call, open, behind, answer>>

\* An earlier call does.
ReachLate ==
  /\ behind
  /\ \E r \in Registers, v \in Values : register' = [register EXCEPT ![r] = v]
  /\ UNCHANGED <<call, open, seen, behind, answer>>

Return(a) ==
  /\ open /\ open' = FALSE
  /\ answer' = a
  /\ UNCHANGED <<register, call, seen, behind>>

Succeed ==
  \/ seen # Unseen /\ Return(seen)
  \/ behind /\ \E v \in Values : Return(v)

Fail == Return(Failed)

\* A call with a value out of range is not begun.
Refuse ==
  /\ ~open /\ answer' = Failed
  /\ UNCHANGED <<register, call, open, seen, behind>>

\* The hand moves, and what it measures changes.
Move ==
  /\ \E r \in Feedback, v \in Values : register' = [register EXCEPT ![r] = v]
  /\ UNCHANGED <<call, open, seen, behind, answer>>

Next ==
  \/ \E c \in Calls : Ask(c)
  \/ Reach \/ ReachLate \/ Succeed \/ Fail \/ Refuse \/ Move

Spec == Init /\ [][Next]_vars
=============================================================================
