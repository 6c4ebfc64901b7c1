------------------------ MODULE HandControllerProofs ------------------------
(***************************************************************************)
(* Theorems about HandController, for any joints, positions, limits, calls *)
(* and losses.                                                             *)
(***************************************************************************)
EXTENDS HandController, TLAPS

\* What a request carries.
LEMMA RequestFields ==
  ASSUME NEW r \in Requests
  PROVE  /\ r.name \in CallKinds /\ r # NoRequest
         /\ r.name \in {"SetTargets", "ApplyGrip", "ClearFault"} =>
              r.mask \subseteq Joints
         /\ r.name \in {"SetTargets", "ApplyGrip"} => r.q \in Positions
         /\ r.name = "ApplyGrip" => r.limit \in Limits
  BY DEF Requests, NoRequest, CallKinds, Masks

\* The point a call has reached fits its request.
Control ==
  /\ request = NoRequest <=> pc = "idle"
  /\ pc \in {"select", "hold", "clear", "restore", "verify"} =>
       request.name = "ClearFault"
  /\ pc = "gate" => request.name \in {"SetTargets", "ApplyGrip"}
  /\ pc \in {"currentLimit", "forceLimit"} => request.name = "ApplyGrip"
  /\ pc = "write" => request.name \in {"SetTargets", "ApplyGrip", "HoldCurrent"}
  /\ pc = "words" => request.name = "RefreshState"
  /\ pc = "force" => request.name = "RefreshForce"
  /\ pc = "current" => request.name = "ApplyGrip"
  /\ pc = "position" => request.name \in {"HoldCurrent", "RefreshPosition",
                                         "RefreshState", "ClearFault"}
  /\ pc \in {"error", "status", "temperature"} =>
       request.name \in {"SetTargets", "ApplyGrip", "RefreshState", "ClearFault"}

Typed == TypeOK /\ Control

LEMMA HandKeepsType == Typed /\ Hand => Typed'
<1> SUFFICES ASSUME Typed, Hand PROVE Typed'
  OBVIOUS
<1> USE DEF Typed, TypeOK, Control, health, locals, call, registers
<1>1. PICK j \in Joints : Move(j) \/ Break(j) \/ Recover(j)
  BY DEF Hand
<1>2. CASE Move(j)
  <2>1. (IF goal[j] > position[j] THEN position[j] + 1 ELSE position[j] - 1)
          \in Positions
    BY <1>2, MaxQAssumption DEF Move, Positions
  <2> QED
    BY <1>2, <2>1 DEF Move
<1>3. CASE Break(j)
  BY <1>3 DEF Break
<1>4. CASE Recover(j)
  BY <1>4 DEF Recover, Conditions
<1> QED
  BY <1>1, <1>2, <1>3, <1>4

LEMMA BeginKeepsType ==
  ASSUME Typed, NEW r \in Requests, Begin(r) PROVE Typed'
<1> USE DEF Typed, TypeOK, Control, Begin, health, locals, registers
<1>1. r.name \in CallKinds /\ r # NoRequest
  BY RequestFields
<1>2. pc' = FirstPoint(r.name) /\ pc' \in Points
  BY <1>1 DEF FirstPoint, CallKinds, Points
<1>3. TypeOK'
  BY <1>2 DEF Faulted
<1>4. Control'
  BY <1>1, <1>2 DEF FirstPoint, CallKinds
<1> QED
  BY <1>3, <1>4

LEMMA ReturnKeepsType ==
  ASSUME Typed, NEW a \in {"ok", "failed"}, Return(a),
         position' \in [Joints -> Positions], goal' \in [Joints -> Positions],
         limits' \in [{"current", "force"} -> Limits],
         condition' \in [Joints -> Conditions],
         error' \subseteq Joints, status' \subseteq Joints,
         healthValid' \in BOOLEAN, unsure' \in BOOLEAN
  PROVE  Typed'
<1>1. Nowhere \in [Joints -> Positions]
  BY MaxQAssumption DEF Nowhere, Positions
<1>2. TypeOK'
  BY <1>1 DEF Typed, TypeOK, Return, Points
<1>3. Control'
  BY DEF Control, Return
<1> QED
  BY <1>2, <1>3 DEF Typed

LEMMA ReadKeepsType ==
  ASSUME Typed,
         ReadPosition \/ ReadWords \/ ReadError \/ ReadStatus \/ ReadTemperature
  PROVE  Typed'
<1> USE DEF health, locals, call, registers
<1>1. request # NoRequest
  BY DEF Typed, Control, ReadPosition, ReadWords, ReadError, ReadStatus,
         ReadTemperature
<1>2. CASE \E a \in {"ok", "failed"} : Return(a)
  <2>1. /\ UNCHANGED <<position, goal, limits, condition>>
        /\ error' \subseteq Joints /\ status' \subseteq Joints
        /\ healthValid' \in BOOLEAN /\ unsure' \in BOOLEAN
    <3> USE DEF Typed, TypeOK, Lost
    <3>1. CASE ReadPosition
      BY <3>1 DEF ReadPosition
    <3>2. CASE ReadWords
      BY <3>2 DEF ReadWords
    <3>3. CASE ReadError
      BY <3>3 DEF ReadError
    <3>4. CASE ReadStatus
      BY <3>4 DEF ReadStatus, Faulted
    <3>5. CASE ReadTemperature
      BY <3>5 DEF ReadTemperature
    <3> QED
      BY <3>1, <3>2, <3>3, <3>4, <3>5
  <2> QED
    BY <1>2, <2>1, ReturnKeepsType DEF Typed, TypeOK
<1>3. CASE \A a \in {"ok", "failed"} : ~ Return(a)
  <2> USE <1>3
  <2>1. CASE ReadPosition
    BY <2>1, <1>1 DEF Typed, TypeOK, Control, ReadPosition, Lost, Goto, Points
  <2>2. CASE ReadWords
    BY <2>2, <1>1 DEF Typed, TypeOK, Control, ReadWords, Lost, Goto, Points
  <2>3. CASE ReadError
    BY <2>3, <1>1 DEF Typed, TypeOK, Control, ReadError, Lost, Goto, Points
  <2>4. CASE ReadStatus
    BY <2>4, <1>1
    DEF Typed, TypeOK, Control, ReadStatus, Lost, Goto, Points, Faulted
  <2>5. CASE ReadTemperature
    BY <2>5, <1>1 DEF Typed, TypeOK, Control, ReadTemperature, Lost, Goto, Points
  <2> QED
    BY <2>1, <2>2, <2>3, <2>4, <2>5
<1> QED
  BY <1>2, <1>3

LEMMA NewGoalType ==
  ASSUME TypeOK, NEW targets \in [Joints -> Positions], NEW mask,
         NewGoal(targets, mask)
  PROVE  goal' \in [Joints -> Positions]
  BY DEF TypeOK, NewGoal

LEMMA CommandKeepsType ==
  ASSUME Typed, Gate \/ GripLimits \/ WriteTargets PROVE Typed'
<1> USE DEF health, locals, call, registers
<1>1. CASE Gate
  <2>1. CASE \E a \in {"ok", "failed"} : Return(a)
    BY <1>1, <2>1, ReturnKeepsType DEF Typed, TypeOK, Gate
  <2>2. CASE \A a \in {"ok", "failed"} : ~ Return(a)
    BY <1>1, <2>2 DEF Typed, TypeOK, Control, Gate, Goto, Points
  <2> QED
    BY <2>1, <2>2
<1>2. CASE GripLimits
  <2>1. request.limit \in Limits
    BY <1>2, RequestFields DEF Typed, TypeOK, Control, GripLimits
  <2>2. limits' \in [{"current", "force"} -> Limits]
    BY <1>2, <2>1 DEF Typed, TypeOK, GripLimits, WriteLimit, Unwritten
  <2>3. CASE Return("failed")
    BY <1>2, <2>2, <2>3, ReturnKeepsType
    DEF Typed, TypeOK, GripLimits, WriteLimit
  <2>4. CASE ~ Return("failed")
    BY <1>2, <2>2, <2>4
    DEF Typed, TypeOK, Control, GripLimits, WriteLimit, Unwritten, Goto, Points
  <2> QED
    BY <2>3, <2>4
<1>3. CASE WriteTargets
  <2>1. request.name # "HoldCurrent" =>
          [j \in Joints |-> request.q] \in [Joints -> Positions]
    BY <1>3, RequestFields DEF Typed, TypeOK, Control, WriteTargets
  <2>2. goal' \in [Joints -> Positions]
    BY <1>3, <2>1, NewGoalType DEF Typed, TypeOK, WriteTargets, Unwritten
  <2>3. \E a \in {"ok", "failed"} : Return(a)
    BY <1>3 DEF WriteTargets, Unwritten
  <2> QED
    BY <1>3, <2>2, <2>3, ReturnKeepsType DEF Typed, TypeOK, WriteTargets
<1> QED
  BY <1>1, <1>2, <1>3

LEMMA ClearFaultKeepsType ==
  ASSUME Typed, Select \/ Hold \/ ClearErrors \/ Restore \/ Verify
  PROVE  Typed'
<1> USE DEF health, locals, call, registers
<1>1. CASE Select
  <2>1. CASE \E a \in {"ok", "failed"} : Return(a)
    BY <1>1, <2>1, ReturnKeepsType DEF Typed, TypeOK, Select
  <2>2. CASE \A a \in {"ok", "failed"} : ~ Return(a)
    BY <1>1, <2>2 DEF Typed, TypeOK, Control, Select, Goto, Points
  <2> QED
    BY <2>1, <2>2
<1>2. CASE Hold \/ Restore
  <2>1. goal' \in [Joints -> Positions]
    BY <1>2, NewGoalType
    DEF Typed, TypeOK, Hold, Restore, HoldFaulted, Unwritten
  <2>2. CASE Return("failed")
    BY <1>2, <2>1, <2>2, ReturnKeepsType
    DEF Typed, TypeOK, Hold, Restore, HoldFaulted
  <2>3. CASE ~ Return("failed")
    BY <1>2, <2>1, <2>3
    DEF Typed, TypeOK, Control, Hold, Restore, HoldFaulted, Unwritten, Goto,
        Points
  <2> QED
    BY <2>2, <2>3
<1>3. CASE ClearErrors
  <2>1. condition' \in [Joints -> Conditions]
    BY <1>3 DEF Typed, TypeOK, ClearErrors, Unwritten, Conditions
  <2>2. CASE Return("failed")
    BY <1>3, <2>1, <2>2, ReturnKeepsType DEF Typed, TypeOK, ClearErrors
  <2>3. CASE ~ Return("failed")
    BY <1>3, <2>1, <2>3
    DEF Typed, TypeOK, Control, ClearErrors, Unwritten, Goto, Points
  <2> QED
    BY <2>2, <2>3
<1>4. CASE Verify
  <2>1. \E a \in {"ok", "failed"} : Return(a)
    BY <1>4 DEF Verify
  <2> QED
    BY <1>4, <2>1, ReturnKeepsType DEF Typed, TypeOK, Verify
<1> QED
  BY <1>1, <1>2, <1>3, <1>4

LEMMA StepKeepsType == Typed /\ [Next]_vars => Typed'
<1> SUFFICES ASSUME Typed, [Next]_vars PROVE Typed'
  OBVIOUS
<1>1. CASE Hand
  BY <1>1, HandKeepsType
<1>2. CASE \E r \in Requests : Begin(r)
  BY <1>2, BeginKeepsType
<1>3. CASE Exchange
  BY <1>3, ReadKeepsType, CommandKeepsType, ClearFaultKeepsType DEF Exchange
<1>4. CASE UNCHANGED vars
  BY <1>4
  DEF Typed, TypeOK, Control, vars, health, locals, call, registers
<1> QED
  BY <1>1, <1>2, <1>3, <1>4 DEF Next

LEMMA InitTyped == Init => Typed
<1> SUFFICES ASSUME Init PROVE Typed
  OBVIOUS
<1>1. Nowhere \in [Joints -> Positions]
  BY MaxQAssumption DEF Nowhere, Positions
<1>2. TypeOK
  BY <1>1 DEF Init, TypeOK, Points
<1>3. Control
  BY DEF Init, Control
<1> QED
  BY <1>2, <1>3 DEF Typed

\* Every variable keeps its type, and a call is where its request may be.
THEOREM TypeCorrect == Spec => []TypeOK
<1>1. Spec => []Typed
  BY InitTyped, StepKeepsType, PTL DEF Spec
<1> QED
  BY <1>1, PTL DEF Typed

-----------------------------------------------------------------------------
(***************************************************************************)
(* ClearFault commands no travel.  Until the faulted joints are held they  *)
(* stand still because they are faulted; from then on because they are     *)
(* told to be where they are.  What carries this over the call is that the *)
(* position was read while they stood, and that all of them were seen.     *)
(***************************************************************************)

BeforeHold ==
  \/ pc \in {"position", "select", "hold"}
  \/ pc \in {"error", "status", "temperature"} /\ ~ again

AtRest(j) ==
  /\ BeforeHold => condition[j] # "fine"
  /\ ~ BeforeHold => goal[j] = position[j]
  /\ pc # "position" => current[j] = position[j]
  /\ \/ pc \in {"select", "hold", "clear", "restore"}
     \/ pc = "temperature" /\ ~ again
     => j \in status

RestInv ==
  /\ pc \in {"idle", "position"} => ~ again
  /\ request.name = "ClearFault" => \A j \in stuck : AtRest(j)

LEMMA ReturnEndsRest == ASSUME NEW a, Return(a) PROVE RestInv'
  BY DEF Return, RestInv, NoRequest

LEMMA HandKeepsRest == Typed /\ RestInv /\ Hand => RestInv'
<1> SUFFICES ASSUME Typed, RestInv, Hand PROVE RestInv'
  OBVIOUS
<1> USE DEF Typed, TypeOK, RestInv, AtRest, BeforeHold,
            health, locals, call, registers
<1>1. PICK j \in Joints : Move(j) \/ Break(j) \/ Recover(j)
  BY DEF Hand
<1>2. CASE Move(j)
  BY <1>2 DEF Move
<1>3. CASE Break(j)
  BY <1>3 DEF Break
<1>4. CASE Recover(j)
  BY <1>4 DEF Recover
<1> QED
  BY <1>1, <1>2, <1>3, <1>4

LEMMA BeginKeepsRest ==
  ASSUME Typed, RestInv, NEW r \in Requests, Begin(r) PROVE RestInv'
<1>1. r.name \in CallKinds
  BY RequestFields
<1>2. r.name = "ClearFault" => pc' = "position"
  BY DEF Begin, FirstPoint
<1>3. \A j \in stuck' : condition'[j] # "fine"
  BY DEF Begin, Faulted
<1> QED
  BY <1>1, <1>2, <1>3 DEF Begin, RestInv, AtRest, BeforeHold, locals

LEMMA ExchangeKeepsRest == Typed /\ RestInv /\ Exchange => RestInv'
<1> SUFFICES ASSUME Typed, RestInv, Exchange PROVE RestInv'
  OBVIOUS
<1>1. CASE \E a \in {"ok", "failed"} : Return(a)
  BY <1>1, ReturnEndsRest
<1>2. CASE \A a \in {"ok", "failed"} : ~ Return(a)
  <2> USE <1>2 DEF Typed, TypeOK, Control, RestInv, AtRest, BeforeHold,
                   health, locals, call, registers, Goto, Lost, Unwritten
  <2>1. CASE ReadPosition
    BY <2>1 DEF ReadPosition
  <2>2. CASE ReadWords
    BY <2>2 DEF ReadWords
  <2>3. CASE ReadError
    BY <2>3 DEF ReadError
  <2>4. CASE ReadStatus
    BY <2>4 DEF ReadStatus, Faulted
  <2>5. CASE ReadTemperature
    BY <2>5 DEF ReadTemperature
  <2>6. CASE Gate
    BY <2>6 DEF Gate
  <2>7. CASE GripLimits
    BY <2>7 DEF GripLimits, WriteLimit
  <2>8. CASE WriteTargets
    BY <2>8 DEF WriteTargets
  <2>9. CASE Select
    BY <2>9 DEF Select
  <2>10. CASE Hold
    BY <2>10 DEF Hold, HoldFaulted, NewGoal, FaultsRead
  <2>11. CASE ClearErrors
    BY <2>11 DEF ClearErrors
  <2>12. CASE Restore
    BY <2>12 DEF Restore, HoldFaulted, NewGoal, FaultsRead
  <2>13. CASE Verify
    BY <2>13 DEF Verify
  <2> QED
    BY <2>1, <2>2, <2>3, <2>4, <2>5, <2>6, <2>7, <2>8, <2>9, <2>10, <2>11,
       <2>12, <2>13 DEF Exchange
<1> QED
  BY <1>1, <1>2

\* A joint that was faulted when ClearFault began does not travel because of it.
THEOREM ClearFaultHolds == Spec => []NoTravel
<1>1. Init => Typed /\ RestInv
  BY InitTyped DEF Init, RestInv, NoRequest
<1>2. (Typed /\ RestInv) /\ [Next]_vars => (Typed /\ RestInv)'
  <2> SUFFICES ASSUME Typed, RestInv, [Next]_vars PROVE RestInv'
    BY StepKeepsType
  <2>1. CASE Hand
    BY <2>1, HandKeepsRest
  <2>2. CASE \E r \in Requests : Begin(r)
    BY <2>2, BeginKeepsRest
  <2>3. CASE Exchange
    BY <2>3, ExchangeKeepsRest
  <2>4. CASE UNCHANGED vars
    BY <2>4 DEF vars, RestInv, AtRest, BeforeHold, health, locals, call, registers
  <2> QED
    BY <2>1, <2>2, <2>3, <2>4 DEF Next
<1>3. Typed /\ RestInv => NoTravel
  BY DEF RestInv, AtRest, NoTravel
<1> QED
  BY <1>1, <1>2, <1>3, PTL DEF Spec

-----------------------------------------------------------------------------
(***************************************************************************)
(* Faulted joints are not commanded: a call that reads the health for      *)
(* itself has seen every joint that was faulted when it began, and ends at *)
(* the gate if it selects one of them.  SetTargets reads it for itself     *)
(* whenever it is in doubt, since a failed read leaves health_valid_ false.*)
(***************************************************************************)

ReadsHealth ==
  request.name = "ApplyGrip" \/ (request.name = "SetTargets" /\ doubt)

SeenInv ==
  /\ unsure => ~ healthValid
  /\ ReadsHealth =>
       /\ \A j \in stuck : condition[j] # "fine"
       /\ pc \in {"temperature", "gate"} => stuck \subseteq status
       /\ pc \in {"currentLimit", "forceLimit", "write"} =>
            stuck \cap request.mask = {}

LEMMA HandKeepsSeen == Typed /\ SeenInv /\ Hand => SeenInv'
<1> SUFFICES ASSUME Typed, SeenInv, Hand PROVE SeenInv'
  OBVIOUS
<1> USE DEF Typed, TypeOK, SeenInv, ReadsHealth, health, locals, call, registers
<1>1. PICK j \in Joints : Move(j) \/ Break(j) \/ Recover(j)
  BY DEF Hand
<1>2. CASE Move(j)
  BY <1>2 DEF Move
<1>3. CASE Break(j)
  BY <1>3 DEF Break
<1>4. CASE Recover(j)
  BY <1>4 DEF Recover
<1> QED
  BY <1>1, <1>2, <1>3, <1>4

LEMMA BeginKeepsSeen ==
  ASSUME Typed, SeenInv, NEW r \in Requests, Begin(r) PROVE SeenInv'
<1>1. r.name = "ApplyGrip" => pc' = "current"
  BY DEF Begin, FirstPoint
<1>2. r.name = "SetTargets" /\ doubt' => pc' = "error"
  BY DEF Begin, FirstPoint, SeenInv
<1>3. \A j \in stuck' : condition'[j] # "fine"
  BY DEF Begin, Faulted
<1> QED
  BY <1>1, <1>2, <1>3 DEF Begin, SeenInv, ReadsHealth, health

LEMMA ExchangeKeepsSeen == Typed /\ SeenInv /\ Exchange => SeenInv'
<1> SUFFICES ASSUME Typed, SeenInv, Exchange PROVE SeenInv'
  OBVIOUS
<1> USE DEF Typed, TypeOK, Control, SeenInv, ReadsHealth, health, locals, call,
            registers, Goto, Lost, Unwritten, Return, NoRequest
<1>1. CASE ReadPosition
  BY <1>1 DEF ReadPosition
<1>2. CASE ReadWords
  BY <1>2 DEF ReadWords
<1>3. CASE ReadError
  BY <1>3 DEF ReadError
<1>4. CASE ReadStatus
  BY <1>4 DEF ReadStatus, Faulted
<1>5. CASE ReadTemperature
  BY <1>5 DEF ReadTemperature
<1>6. CASE Gate
  BY <1>6 DEF Gate, FaultsRead
<1>7. CASE GripLimits
  BY <1>7 DEF GripLimits, WriteLimit
<1>8. CASE WriteTargets
  BY <1>8 DEF WriteTargets
<1>9. CASE Select
  BY <1>9 DEF Select
<1>10. CASE Hold \/ Restore
  BY <1>10 DEF Hold, Restore, HoldFaulted
<1>11. CASE ClearErrors
  BY <1>11 DEF ClearErrors
<1>12. CASE Verify
  BY <1>12 DEF Verify
<1> QED
  BY <1>1, <1>2, <1>3, <1>4, <1>5, <1>6, <1>7, <1>8, <1>9, <1>10, <1>11, <1>12
  DEF Exchange

\* Who gives joints a new target, and when.
LEMMA GoalWriters ==
  ASSUME Typed, [Next]_vars, goal' # goal
  PROVE  WriteTargets \/ Hold \/ Restore
  BY DEF Next, vars, registers, Hand, Move, Break, Recover, Begin, Exchange,
         ReadPosition, ReadWords, ReadError, ReadStatus, ReadTemperature, Gate,
         GripLimits, WriteLimit, Select, ClearErrors, Verify

\* A call that reads the health for itself commands no joint that was faulted
\* when it began.
THEOREM FaultedLeftAlone == Spec => FaultedNotCommanded
<1>1. Init => Typed /\ SeenInv
  BY InitTyped DEF Init, SeenInv, ReadsHealth, NoRequest
<1>2. (Typed /\ SeenInv) /\ [Next]_vars => (Typed /\ SeenInv)'
  <2> SUFFICES ASSUME Typed, SeenInv, [Next]_vars PROVE SeenInv'
    BY StepKeepsType
  <2>1. CASE Hand
    BY <2>1, HandKeepsSeen
  <2>2. CASE \E r \in Requests : Begin(r)
    BY <2>2, BeginKeepsSeen
  <2>3. CASE Exchange
    BY <2>3, ExchangeKeepsSeen
  <2>4. CASE UNCHANGED vars
    BY <2>4 DEF vars, SeenInv, ReadsHealth, health, locals, call, registers
  <2> QED
    BY <2>1, <2>2, <2>3, <2>4 DEF Next
<1>3. ASSUME Typed, SeenInv, [Next]_vars, goal' # goal, ReadsHealth
      PROVE  stuck \cap request.mask = {}
  BY <1>3, GoalWriters
  DEF Typed, Control, SeenInv, ReadsHealth, WriteTargets, Hold, Restore
<1> QED
  BY <1>1, <1>2, <1>3, PTL DEF Spec, FaultedNotCommanded, ReadsHealth

-----------------------------------------------------------------------------
\* A grip that has got past a limit has written it.
LimitInv ==
  request.name = "ApplyGrip" =>
    /\ pc \in {"forceLimit", "write"} => limits["current"] = request.limit
    /\ pc = "write" => limits["force"] = request.limit

LEMMA StepKeepsLimits == Typed /\ LimitInv /\ [Next]_vars => LimitInv'
<1> SUFFICES ASSUME Typed, LimitInv, [Next]_vars PROVE LimitInv'
  OBVIOUS
<1> USE DEF Typed, TypeOK, Control, LimitInv, health, locals, call, registers
<1>1. CASE Hand
  BY <1>1 DEF Hand, Move, Break, Recover
<1>2. CASE \E r \in Requests : Begin(r)
  BY <1>2 DEF Begin, FirstPoint
<1>3. CASE \E a \in {"ok", "failed"} : Return(a)
  BY <1>3 DEF Return, NoRequest
<1>4. CASE Exchange /\ \A a \in {"ok", "failed"} : ~ Return(a)
  <2> USE <1>4 DEF Goto, Lost, Unwritten
  <2>1. CASE GripLimits
    BY <2>1 DEF GripLimits, WriteLimit
  <2>2. CASE Gate
    BY <2>2 DEF Gate
  <2>3. CASE ~ GripLimits /\ ~ Gate
    BY <2>3
    DEF Exchange, ReadPosition, ReadWords, ReadError, ReadStatus,
        ReadTemperature, WriteTargets, Select, Hold, Restore, HoldFaulted,
        ClearErrors, Verify
  <2> QED
    BY <2>1, <2>2, <2>3
<1>5. CASE UNCHANGED vars
  BY <1>5 DEF vars
<1> QED
  BY <1>1, <1>2, <1>3, <1>4, <1>5 DEF Next

\* A grip's target comes after both of its limits.
THEOREM GripIsLimited == Spec => GripLimited
<1>1. Init => Typed /\ LimitInv
  BY InitTyped DEF Init, LimitInv, NoRequest
<1>2. (Typed /\ LimitInv) /\ [Next]_vars => (Typed /\ LimitInv)'
  BY StepKeepsType, StepKeepsLimits
<1>3. ASSUME Typed, LimitInv, [Next]_vars, goal' # goal, request.name = "ApplyGrip"
      PROVE  \A l \in {"current", "force"} : limits[l] = request.limit
  BY <1>3, GoalWriters
  DEF Typed, Control, LimitInv, WriteTargets, Hold, Restore
<1> QED
  BY <1>1, <1>2, <1>3, PTL DEF Spec, GripLimited

-----------------------------------------------------------------------------
(***************************************************************************)
(* A call is what the arbitration takes it for.                            *)
(***************************************************************************)

LEMMA ReturnIsAnswer ==
  ASSUME Typed, pc # "idle", NEW a, Return(a) PROVE Port!Answer(a)
  BY DEF Typed, Control, Return, Port!Answer

LEMMA StepIsPortStep ==
  ASSUME Typed, [Next]_vars PROVE [Port!Next]_(Port!vars)
<1> USE DEF Port!vars, health, locals, call, registers
<1>1. CASE \E r \in Requests : Begin(r)
  BY <1>1 DEF Typed, Control, Begin, Port!Next, Port!Ask
<1>2. CASE WriteTargets
  <2>1. goal' \in [Joints -> Positions]
    <3>1. Typed'
      BY StepKeepsType
    <3> QED
      BY <3>1 DEF Typed, TypeOK
  <2>2. UNCHANGED goal \/ Port!Told \/ Port!Held
    BY <1>2, <2>1
    DEF Typed, TypeOK, Control, WriteTargets, Unwritten, NewGoal, Port!Told,
        Port!Held
  <2>3. CASE Return("failed")
    BY <1>2, <2>2, <2>3, ReturnIsAnswer DEF WriteTargets, Port!Next, Port!Fail
  <2>4. CASE ~ Return("failed")
    <3>1. Port!Told \/ Port!Held
      BY <1>2, <2>1, <2>4
      DEF Typed, TypeOK, Control, WriteTargets, Unwritten, NewGoal, Port!Told,
          Port!Held
    <3> QED
      BY <1>2, <2>4, <3>1, ReturnIsAnswer
      DEF WriteTargets, Unwritten, Port!Next, Port!Succeed
  <2> QED
    BY <2>3, <2>4
<1>3. CASE Hold \/ Restore
  <2>1. goal' \in [Joints -> Positions] /\ request.name = "ClearFault"
    <3>1. Typed'
      BY StepKeepsType
    <3> QED
      BY <1>3, <3>1 DEF Typed, TypeOK, Control, Hold, Restore
  <2>2. CASE Return("failed")
    BY <1>3, <2>1, <2>2, ReturnIsAnswer
    DEF Hold, Restore, Port!Next, Port!FailToRest
  <2>3. CASE ~ Return("failed")
    BY <1>3, <2>1, <2>3
    DEF Hold, Restore, HoldFaulted, Unwritten, Goto, Port!Next, Port!Rest
  <2> QED
    BY <2>2, <2>3
<1>4. CASE Exchange /\ ~ WriteTargets /\ ~ (Hold \/ Restore)
  <2>1. UNCHANGED goal /\ pc # "idle"
    BY <1>4
    DEF Exchange, ReadPosition, ReadWords, ReadError, ReadStatus,
        ReadTemperature, Gate, GripLimits, WriteLimit, Select, ClearErrors,
        Verify
  <2>2. CASE Return("failed")
    BY <2>1, <2>2, ReturnIsAnswer DEF Port!Next, Port!Fail
  <2>3. CASE Return("ok")
    <3>1. request.name \notin {"SetTargets", "ApplyGrip", "HoldCurrent"}
      BY <1>4, <2>3
      DEF Typed, Control, Return, Exchange, ReadPosition, ReadWords, ReadError,
          ReadStatus, ReadTemperature, Gate, GripLimits, WriteLimit, Select,
          ClearErrors, Verify, Unwritten, Lost, Goto, NoRequest
    <3> QED
      BY <2>1, <2>3, <3>1, ReturnIsAnswer DEF Port!Next, Port!Succeed
  <2>4. CASE \A a \in {"ok", "failed"} : ~ Return(a)
    BY <1>4, <2>1, <2>4
    DEF Exchange, ReadPosition, ReadWords, ReadError, ReadStatus,
        ReadTemperature, Gate, GripLimits, WriteLimit, Select, ClearErrors,
        Verify, Unwritten, Lost, Goto
  <2> QED
    BY <2>2, <2>3, <2>4
<1>5. CASE Hand \/ UNCHANGED vars
  BY <1>5 DEF Hand, Move, Break, Recover, vars
<1> QED
  BY <1>1, <1>2, <1>3, <1>4, <1>5 DEF Next

\* The controller implements the port HandService writes through.
THEOREM ImplementsPort == Spec => PortSpec
<1>1. Init => Port!Init
  BY DEF Init, Port!Init
<1>2. Typed /\ [Next]_vars => [Port!Next]_(Port!vars)
  BY StepIsPortStep
<1> QED
  BY <1>1, <1>2, InitTyped, StepKeepsType, PTL DEF Spec, PortSpec, Port!Spec
=============================================================================
