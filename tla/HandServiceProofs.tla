------------------------- MODULE HandServiceProofs -------------------------
(***************************************************************************)
(* What HandService promises for any hands, any number of RPC threads and  *)
(* any timing constants.                                                   *)
(***************************************************************************)
EXTENDS HandService, TLAPS

-----------------------------------------------------------------------------
(***************************************************************************)
(* Types.  One lemma per shared effect, then one step per action.          *)
(***************************************************************************)

\* What an action leaves alone keeps its type.
LEMMA FrameType ==
  ASSUME TypeOK
  PROVE  /\ UNCHANGED ddsVars => DdsTypeOK'
         /\ UNCHANGED watchdogVars => WatchdogTypeOK'
         /\ UNCHANGED loopVars => LoopTypeOK'
         /\ UNCHANGED rpcVars => RpcTypeOK'
         /\ UNCHANGED poseVars => PoseTypeOK'
         /\ UNCHANGED handVars => HandTypeOK'
<1>1. UNCHANGED ddsVars => DdsTypeOK'
  BY DEF TypeOK, DdsTypeOK, ddsVars
<1>2. UNCHANGED watchdogVars => WatchdogTypeOK'
  BY DEF TypeOK, WatchdogTypeOK, watchdogVars
<1>3. UNCHANGED loopVars => LoopTypeOK'
  BY DEF TypeOK, LoopTypeOK, loopVars
<1>4. UNCHANGED rpcVars => RpcTypeOK'
  BY DEF TypeOK, RpcTypeOK, rpcVars
<1>5. UNCHANGED poseVars => PoseTypeOK'
  BY DEF TypeOK, PoseTypeOK, poseVars
<1>6. UNCHANGED handVars => HandTypeOK'
  BY DEF TypeOK, HandTypeOK, handVars
<1>7. QED
  BY <1>1, <1>2, <1>3, <1>4, <1>5, <1>6

\* Of the hands that are given up, those on a stale command are abandoned.
LEMMA AbandonHands ==
  ASSUME TypeOK, NEW H, Abandon(H)
  PROVE  /\ motion' \in [Hands -> Motions]
         /\ \A g \in Hands :
              \/ motion'[g] = motion[g] /\ (g \in H => motion[g] # "stale")
              \/ g \in H /\ motion[g] = "stale" /\ motion'[g] = "abandoned"
BY DEF Abandon, TypeOK, HandTypeOK, Motions

\* A DDS command is the stream's, or not, but nobody else's.
LEMMA DdsMotions ==
  ASSUME NEW h
  PROVE  DdsMotion(h) \in {"dds", "stale", "abandoned"}
BY DEF DdsMotion

\* A controller call leaves the hands well typed, whatever its outcome.
LEMMA WriteType ==
  ASSUME TypeOK, NEW h, NEW source \in Motions, NEW outcome,
         Write(h, source, outcome)
  PROVE  HandTypeOK'
<1>1. motion' \in [Hands -> Motions]
  <2>1. CASE outcome = "rejected"
    BY <2>1 DEF TypeOK, HandTypeOK, Write
  <2>2. CASE outcome # "rejected"
    <3>1. motion' = [motion EXCEPT ![h] = source]
      BY <2>2 DEF Write
    <3>2. QED
      BY <3>1 DEF TypeOK, HandTypeOK
  <2>3. QED
    BY <2>1, <2>2
<1>2. samples' \in [Hands -> 0 .. 3]
  <2>1. CASE outcome = "ok"
    <3>1. samples' = [samples EXCEPT ![h] = 0]
      BY <2>1 DEF Write
    <3>2. samples \in [Hands -> 0 .. 3] /\ 0 \in 0 .. 3
      BY DEF TypeOK, HandTypeOK
    <3>3. QED
      BY <3>1, <3>2, Zenon
  <2>2. CASE outcome # "ok"
    BY <2>2 DEF TypeOK, HandTypeOK, Write
  <2>3. QED
    BY <2>1, <2>2
<1>3. QED
  BY <1>1, <1>2 DEF HandTypeOK

\* So do arming and disarming the watchdogs.
LEMMA ArmType ==
  ASSUME TypeOK, NEW H, NEW t \in Nat, Arm(H, t)
  PROVE  WatchdogTypeOK'
BY DEF TypeOK, WatchdogTypeOK, Arm

LEMMA DisarmType ==
  ASSUME TypeOK, NEW H, Disarm(H)
  PROVE  WatchdogTypeOK'
BY DEF TypeOK, WatchdogTypeOK, Disarm

\* BeginMaintenance changes the DDS record and one watchdog.
LEMMA MaintenanceType ==
  ASSUME TypeOK, NEW h, BeginMaintenance(h)
  PROVE  DdsTypeOK' /\ WatchdogTypeOK'
<1>1. Maintenance \in Nat
  BY TimingAssumption
<1>2. WatchdogTypeOK'
  BY <1>1, ArmType DEF BeginMaintenance
<1>3. DdsTypeOK'
  BY DEF TypeOK, DdsTypeOK, BeginMaintenance
<1>4. QED
  BY <1>2, <1>3

\* The main loop moves to a point it knows.
LEMMA AdvanceType ==
  ASSUME TypeOK, NEW phase \in LoopPoints, NEW next \in LoopPoints,
         Advance(phase, next)
  PROVE  at' \in LoopPoints /\ todo' \in SUBSET Hands
BY DEF TypeOK, LoopTypeOK, Advance

\* An RPC thread moves to a point it knows.
LEMMA GotoType ==
  ASSUME TypeOK, NEW w \in Workers, NEW point \in RpcPoints, Goto(w, point),
         NEW r \in Requests, req' = req \/ req' = [req EXCEPT ![w] = r]
  PROVE  RpcTypeOK'
BY DEF TypeOK, RpcTypeOK, Goto

LEMMA ReplyType ==
  ASSUME TypeOK, NEW w \in Workers, Reply(w)
  PROVE  RpcTypeOK' /\ control' \in Workers \cup {NoWorker}
BY DEF TypeOK, RpcTypeOK, Reply, Goto, RpcPoints, Requests

\* A pose leaves no trace of itself.
LEMMA ReplyPoseType ==
  ASSUME TypeOK, NEW w \in Workers, ReplyPose(w)
  PROVE  RpcTypeOK' /\ control' \in Workers \cup {NoWorker} /\ PoseTypeOK'
<1>1. RpcTypeOK' /\ control' \in Workers \cup {NoWorker}
  BY ReplyType DEF ReplyPose
<1>2. PoseTypeOK'
  BY TimingAssumption DEF ReplyPose, PoseTypeOK
<1>3. QED
  BY <1>1, <1>2

\* The main loop keeps the types.
LEMMA MainLoopType ==
  ASSUME TypeOK, MainLoop
  PROVE  TypeOK'
<1> USE FrameType DEF TypeOK
<1>1. CASE ApplyDdsCommands
  BY <1>1 DEF ApplyDdsCommands, DdsTypeOK, LoopTypeOK, LoopPoints, FlagTypeOK,
              watchdogVars, rpcVars, poseVars, handVars
<1>2. CASE DdsCheck
  <2>1. LoopTypeOK'
    <3>1. CASE RpcActive(First(todo))
      BY <1>2, <3>1, AdvanceType DEF DdsCheck, LoopTypeOK, LoopPoints
    <3>2. CASE ~RpcActive(First(todo))
      BY <1>2, <3>2 DEF DdsCheck, LoopTypeOK, LoopPoints
    <3>3. QED
      BY <3>1, <3>2
  <2>2. QED
    BY <1>2, <2>1 DEF DdsCheck, FlagTypeOK
<1>3. CASE DdsWrite
  <2> DEFINE h == First(todo)
  <2>1. PICK o \in Outcomes :
          /\ Write(h, DdsMotion(h), o)
          /\ late' = IF RpcActive(h) /\ o # "rejected" /\ late[h] < 2
                     THEN [late EXCEPT ![h] = @ + 1] ELSE late
    BY <1>3 DEF DdsWrite
  <2>2. HandTypeOK'
    BY <2>1, WriteType, DdsMotions DEF Motions
  <2>3. WatchdogTypeOK'
    <3>1. late' \in [Hands -> 0 .. 2]
      <4>1. CASE late' = late
        BY <4>1 DEF WatchdogTypeOK
      <4>2. CASE late[h] < 2 /\ late' = [late EXCEPT ![h] = late[h] + 1]
        <5>1. late \in [Hands -> 0 .. 2]
          BY DEF WatchdogTypeOK
        <5>2. late' = [x \in Hands |-> IF x = h THEN late[h] + 1 ELSE late[x]]
          BY <4>2, <5>1, Zenon
        <5>3. \A x \in Hands : late[x] \in 0 .. 2
          BY <5>1
        <5>4. h \in Hands => late[h] + 1 \in 0 .. 2
          BY <4>2, <5>3
        <5>5. QED
          BY <5>2, <5>3, <5>4
      <4>3. QED
        BY <2>1, <4>1, <4>2
    <3>2. QED
      BY <1>3, <3>1 DEF DdsWrite, WatchdogTypeOK
  <2>4. LoopTypeOK'
    BY <1>3, AdvanceType DEF DdsWrite, LoopTypeOK, LoopPoints
  <2>5. QED
    BY <1>3, <2>2, <2>3, <2>4 DEF DdsWrite, FlagTypeOK
<1>4. CASE ApplyWatchdogs
  <2>1. WatchdogTypeOK'
    BY <1>4, DisarmType DEF ApplyWatchdogs
  <2>2. DdsTypeOK'
    BY <1>4 DEF ApplyWatchdogs, DdsTypeOK, Lost
  <2>3. LoopTypeOK'
    BY <1>4 DEF ApplyWatchdogs, LoopTypeOK, LoopPoints, HandsToHold
  <2>4. QED
    BY <1>4, <2>1, <2>2, <2>3 DEF ApplyWatchdogs, FlagTypeOK
<1>5. CASE WatchdogHold
  <2>1. HandTypeOK'
    BY <1>5, WriteType DEF WatchdogHold, Motions
  <2>2. LoopTypeOK'
    BY <1>5, AdvanceType DEF WatchdogHold, LoopTypeOK, LoopPoints
  <2>3. QED
    BY <1>5, <2>1, <2>2 DEF WatchdogHold, FlagTypeOK
<1>6. CASE Refresh
  <2>1. LoopTypeOK'
    <3>1. CASE at' = "force" /\ idle' = HandIdle(First(todo)) /\ UNCHANGED todo
      BY <3>1 DEF LoopTypeOK, LoopPoints, HandIdle
    <3>2. CASE Advance("refresh", "apply") /\ UNCHANGED idle
      BY <3>2, AdvanceType DEF LoopTypeOK, LoopPoints
    <3>3. QED
      BY <1>6, <3>1, <3>2 DEF Refresh
  <2>2. QED
    BY <1>6, <2>1 DEF Refresh, FlagTypeOK
<1>7. CASE RefreshForce
  <2>1. LoopTypeOK'
    BY <1>7, AdvanceType DEF RefreshForce, LoopTypeOK, LoopPoints
  <2>2. HandTypeOK'
    <3>1. samples \in [Hands -> 0 .. 3]
      BY DEF HandTypeOK
    <3>2. PICK n : /\ samples' = [samples EXCEPT ![First(todo)] = n]
                   /\ n = 0 \/ n = NextSample(samples[First(todo)])
      BY <1>7 DEF RefreshForce
    <3>3. First(todo) \in Hands => n \in 0 .. 3
      BY <3>1, <3>2 DEF NextSample
    <3>4. samples' = [x \in Hands |-> IF x = First(todo) THEN n ELSE samples[x]]
      BY <3>1, <3>2, Zenon
    <3>5. samples' \in [Hands -> 0 .. 3]
      BY <3>1, <3>3, <3>4
    <3>6. QED
      BY <1>7, <3>5 DEF RefreshForce, HandTypeOK
  <2>3. QED
    BY <1>7, <2>1, <2>2 DEF RefreshForce, FlagTypeOK
<1>8. CASE BeginShutdown
  BY <1>8 DEF BeginShutdown, LoopTypeOK, LoopPoints, FlagTypeOK
<1>9. CASE ShutdownHold
  <2>1. HandTypeOK'
    BY <1>9, WriteType DEF ShutdownHold, Motions
  <2>2. LoopTypeOK'
    BY <1>9, AdvanceType DEF ShutdownHold, LoopTypeOK, LoopPoints
  <2>3. QED
    BY <1>9, <2>1, <2>2 DEF ShutdownHold, FlagTypeOK
<1>10. CASE Leave
  BY <1>10 DEF Leave, LoopTypeOK, LoopPoints, FlagTypeOK
<1>11. QED
  BY <1>1, <1>2, <1>3, <1>4, <1>5, <1>6, <1>7, <1>8, <1>9, <1>10 DEF MainLoop

\* So do the requests that arrive ...
LEMMA ArriveType ==
  ASSUME TypeOK, NEW w \in Workers, Arrive(w)
  PROVE  TypeOK'
<1> USE FrameType DEF TypeOK
<1>1. ASSUME NEW h \in Hands, NEW t \in RpcTimeouts, TakeHand(w, h, t)
      PROVE  TypeOK'
  <2>1. WatchdogTypeOK'
    BY <1>1, ArmType, TimingAssumption DEF TakeHand
  <2>2. RpcTypeOK'
    <3>1. [hand |-> h, timeout |-> t] \in Requests
      BY DEF Requests
    <3>2. QED
      BY <1>1, <3>1, GotoType DEF TakeHand, RpcPoints
  <2>3. QED
    BY <1>1, <2>1, <2>2 DEF TakeHand, FlagTypeOK
<1>2. ASSUME NEW h \in Hands, ClearFault(w, h) \/ HoldRequest(w, h)
      PROVE  TypeOK'
  <2>1. DdsTypeOK' /\ WatchdogTypeOK'
    BY <1>2, MaintenanceType DEF ClearFault, HoldRequest
  <2>2. RpcTypeOK'
    <3>1. [hand |-> h, timeout |-> 0] \in Requests
      BY DEF Requests
    <3>2. QED
      BY <1>2, <3>1, GotoType DEF ClearFault, HoldRequest, RpcPoints
  <2>3. QED
    BY <1>2, <2>1, <2>2 DEF ClearFault, HoldRequest, FlagTypeOK
<1>3. ASSUME NEW H \in PoseTargets, NEW D \in PoseDelays, NEW t \in RpcTimeouts,
             ExecutePose(w, H, D, t)
      PROVE  TypeOK'
  <2>1. CASE \E h \in H : DdsOwns(h)
    BY <1>3, <2>1 DEF ExecutePose, FlagTypeOK, WatchdogTypeOK, RpcTypeOK,
                      watchdogVars, rpcVars
  <2>2. CASE ~ \E h \in H : DdsOwns(h)
    <3>1. WatchdogTypeOK'
      <4>1. PICK last \in D : Arm(H, PoseWatchdog(last, t))
        BY <1>3, <2>2 DEF ExecutePose
      <4>2. PoseWatchdog(last, t) \in Nat
        BY TimingAssumption DEF PoseWatchdog, PoseDelays
      <4>3. QED
        BY <4>1, <4>2, ArmType
    <3>2. RpcTypeOK'
      <4>1. [hand |-> "none", timeout |-> t] \in Requests
        BY DEF Requests
      <4>2. QED
        BY <1>3, <2>2, <4>1, GotoType DEF ExecutePose, RpcPoints
    <3>3. PoseTypeOK'
      <4>1. H \in SUBSET Hands /\ H \in SUBSET {"right", "left"}
        BY HandsAssumption DEF PoseTargets
      <4>2. D \in SUBSET (0 .. MaxDelay) /\ 0 \in 0 .. MaxDelay
        BY TimingAssumption DEF PoseDelays
      <4>3. QED
        BY <1>3, <2>2, <4>1, <4>2 DEF ExecutePose, PoseTypeOK
    <3>4. QED
      BY <1>3, <2>2, <3>1, <3>2, <3>3 DEF ExecutePose, FlagTypeOK
  <2>3. QED
    BY <2>1, <2>2
<1>4. QED
  BY <1>1, <1>2, <1>3 DEF Arrive, SetTargets, ApplyGrip

\* ... and the requests in progress.
LEMMA ServeType ==
  ASSUME TypeOK, NEW w \in Workers, Serve(w)
  PROVE  TypeOK'
<1> USE FrameType DEF TypeOK
<1>0. NoRequest \in Requests
  BY DEF NoRequest, Requests
<1>1. CASE WriteTargets(w)
  <2>1. HandTypeOK'
    BY <1>1, WriteType DEF WriteTargets, Motions
  <2>2. RpcTypeOK' /\ control' \in Workers \cup {NoWorker}
    <3>1. CASE Reply(w)
      BY <3>1, ReplyType
    <3>2. CASE Goto(w, "cancel") /\ UNCHANGED <<req, control>>
      BY <3>2, <1>0, GotoType DEF RpcPoints, FlagTypeOK
    <3>3. QED
      BY <1>1, <3>1, <3>2 DEF WriteTargets
  <2>3. QED
    BY <1>1, <2>1, <2>2 DEF WriteTargets, FlagTypeOK
<1>2. CASE CancelRpcWatchdog(w)
  <2>1. HandTypeOK'
    BY <1>2, AbandonHands DEF CancelRpcWatchdog, HandTypeOK
  <2>2. QED
    BY <1>2, <2>1, DisarmType, ReplyType DEF CancelRpcWatchdog, FlagTypeOK
<1>3. CASE FinishClear(w)
  BY <1>3, ReplyType DEF FinishClear, FlagTypeOK
<1>4. CASE HoldLock(w)
  <2>1. RpcTypeOK'
    BY <1>4, <1>0, GotoType DEF HoldLock, RpcPoints
  <2>2. DdsTypeOK' /\ WatchdogTypeOK'
    BY <1>4, MaintenanceType DEF HoldLock
  <2>3. QED
    BY <1>4, <2>1, <2>2 DEF HoldLock, FlagTypeOK
<1>5. CASE HoldCurrent(w)
  <2>1. HandTypeOK'
    BY <1>5, WriteType DEF HoldCurrent, Motions
  <2>2. QED
    BY <1>5, <2>1, ReplyType DEF HoldCurrent, FlagTypeOK
<1>6. ASSUME BeginStop(w)
      PROVE  poseTodo' \in SUBSET {"right", "left"}
             /\ (req' = req => RpcTypeOK')
  BY <1>6, <1>0, GotoType DEF BeginStop, HandsToStop, PoseTypeOK, RpcPoints
<1>7. CASE PreparePose(w)
  <2>1. HandTypeOK'
    BY <1>7, WriteType DEF PreparePose, Motions
  <2>2. poseTodo' \in SUBSET {"right", "left"} /\ RpcTypeOK'
    <3>1. CASE BeginStop(w)
      BY <1>6, <1>7, <3>1 DEF PreparePose
    <3>2. CASE ~BeginStop(w)
      BY <1>0, <1>7, <3>2, GotoType DEF PreparePose, RpcPoints, PoseTypeOK
    <3>3. QED
      BY <3>1, <3>2
  <2>3. controlled' \in SUBSET {"right", "left"}
    BY <1>7 DEF PreparePose, PoseTypeOK, First
  <2>4. elapsed' \in 0 .. MaxDelay
    BY <1>7, TimingAssumption DEF PreparePose, PoseTypeOK
  <2>5. QED
    BY <1>7, <2>1, <2>2, <2>3, <2>4 DEF PreparePose, FlagTypeOK, PoseTypeOK
<1>8. CASE WaitForPoseDelay(w)
  <2>1. poseTodo' \in SUBSET {"right", "left"} /\ RpcTypeOK'
    <3>1. CASE BeginStop(w)
      BY <1>6, <1>8, <3>1 DEF WaitForPoseDelay
    <3>2. CASE ~BeginStop(w)
      BY <1>0, <1>8, <3>2, GotoType, HandsAssumption
      DEF WaitForPoseDelay, RpcPoints, PoseTypeOK
    <3>3. QED
      BY <3>1, <3>2
  <2>2. QED
    BY <1>8, <2>1 DEF WaitForPoseDelay, FlagTypeOK, PoseTypeOK
<1>9. CASE WriteGroup(w)
  <2>1. HandTypeOK'
    BY <1>9, WriteType DEF WriteGroup, Motions
  <2>2. poseTodo' \in SUBSET {"right", "left"} /\ RpcTypeOK'
    <3>1. CASE BeginStop(w)
      BY <1>6, <1>9, <3>1 DEF WriteGroup
    <3>2. CASE UNCHANGED pc
      BY <1>9, <3>2 DEF WriteGroup, BeginStop, HandsToStop, PoseTypeOK,
                        RpcTypeOK
    <3>3. CASE ~BeginStop(w) /\ ~UNCHANGED pc
      BY <1>0, <1>9, <3>3, GotoType, HandsAssumption
      DEF WriteGroup, RpcPoints, PoseTypeOK
    <3>4. QED
      BY <3>1, <3>2, <3>3
  <2>3. delays' \in SUBSET (0 .. MaxDelay)
    BY <1>9 DEF WriteGroup, PoseTypeOK
  <2>4. QED
    BY <1>9, <2>1, <2>2, <2>3 DEF WriteGroup, FlagTypeOK, PoseTypeOK
<1>10. CASE RearmPose(w)
  <2>1. req[w].timeout \in Nat
    <3>1. req[w] \in Requests
      BY DEF RpcTypeOK
    <3>2. CASE req[w] = NoRequest
      BY <3>2 DEF NoRequest
    <3>3. CASE req[w] # NoRequest
      <4>1. req[w] \in [hand : Hands \cup {"none"}, timeout : RpcTimeouts \cup {0}]
        BY <3>1, <3>3 DEF Requests
      <4>2. req[w].timeout \in RpcTimeouts \cup {0}
        BY <4>1
      <4>3. RpcTimeouts \cup {0} \subseteq Nat
        BY TimingAssumption
      <4>4. QED
        BY <4>2, <4>3
    <3>4. QED
      BY <3>2, <3>3
  <2>2. WatchdogTypeOK'
    BY <1>10, <2>1, ArmType DEF RearmPose
  <2>3. QED
    BY <1>10, <2>2, ReplyPoseType DEF RearmPose, FlagTypeOK
<1>11. CASE StopPose(w)
  <2>1. HandTypeOK'
    BY <1>11, WriteType DEF StopPose, Motions
  <2>2. RpcTypeOK'
    BY <1>0, <1>11, GotoType DEF StopPose, RpcPoints
  <2>3. QED
    BY <1>11, <2>1, <2>2 DEF StopPose, FlagTypeOK, PoseTypeOK
<1>12. CASE ReleasePose(w)
  <2>1. HandTypeOK'
    BY <1>12, AbandonHands DEF ReleasePose, HandTypeOK
  <2>2. QED
    BY <1>12, <2>1, DisarmType, ReplyPoseType DEF ReleasePose, FlagTypeOK
<1>13. QED
  BY <1>1, <1>2, <1>3, <1>4, <1>5, <1>7, <1>8, <1>9, <1>10, <1>11, <1>12
  DEF Serve

\* Every variable keeps its type in every reachable state.
THEOREM TypeCorrect == Spec => []TypeOK
<1>1. Init => TypeOK
  <2> SUFFICES ASSUME Init PROVE TypeOK
    OBVIOUS
  <2>1. WatchdogTypeOK /\ FlagTypeOK /\ LoopTypeOK
    <3>1. WatchdogTypeOK
      BY 0 \in 0 .. 2 DEF Init, WatchdogTypeOK
    <3>2. FlagTypeOK
      BY DEF Init, FlagTypeOK
    <3>3. LoopTypeOK
      BY DEF Init, LoopTypeOK, LoopPoints
    <3>4. QED
      BY <3>1, <3>2, <3>3
  <2>2. DdsTypeOK /\ PoseTypeOK
    <3>1. 0 \in 0 .. DdsTimeout + 1 /\ 0 \in 0 .. MaxDelay
      BY TimingAssumption
    <3>2. QED
      BY <3>1 DEF Init, DdsTypeOK, PoseTypeOK
  <2>3. RpcTypeOK
    BY DEF Init, RpcTypeOK, RpcPoints, Requests
  <2>4. HandTypeOK
    BY DEF Init, HandTypeOK, Motions
  <2>5. QED
    BY <2>1, <2>2, <2>3, <2>4 DEF TypeOK
<1>2. TypeOK /\ [Next]_vars => TypeOK'
  <2> SUFFICES ASSUME TypeOK, [Next]_vars PROVE TypeOK'
    OBVIOUS
  <2>1. CASE OnDdsCommand
    BY <2>1, FrameType, TimingAssumption
    DEF OnDdsCommand, TypeOK, DdsTypeOK, FlagTypeOK
  <2>2. CASE HandleSignal
    BY <2>2, FrameType DEF HandleSignal, TypeOK, FlagTypeOK
  <2>3. CASE Tick
    <3>1. DdsTypeOK'
      BY <2>3, TimingAssumption DEF Tick, TypeOK, DdsTypeOK
    <3>2. WatchdogTypeOK'
      BY <2>3 DEF Tick, TypeOK, WatchdogTypeOK
    <3>3. PoseTypeOK'
      BY <2>3, TimingAssumption DEF Tick, TypeOK, PoseTypeOK
    <3>4. QED
      BY <2>3, <3>1, <3>2, <3>3, FrameType DEF Tick, TypeOK, FlagTypeOK
  <2>4. CASE UNCHANGED vars
    BY <2>4, FrameType DEF vars, TypeOK, FlagTypeOK
  <2>5. CASE Exited
    BY <2>4, <2>5 DEF Exited
  <2>6. QED
    BY <2>1, <2>2, <2>3, <2>4, <2>5, MainLoopType, ArriveType, ServeType
    DEF Next
<1>3. QED
  BY <1>1, <1>2, PTL DEF Spec

-----------------------------------------------------------------------------
(***************************************************************************)
(* At most one stale DDS command.  AtMostOneStaleDds is not inductive: it  *)
(* must be known that no write is under way once one has been counted.     *)
(***************************************************************************)

\* A DDS command about to be written to a hand that RPC owns is the first.
LateInv ==
  \A h \in Hands : RpcActive(h) =>
    /\ late[h] <= 1
    /\ at = "ddsWrite" /\ First(todo) = h => late[h] = 0

\* Arming and disarming preserve LateInv as long as no write starts.
LEMMA LateStep ==
  ASSUME TypeOK, LateInv,
         UNCHANGED <<at, todo>> \/ at' # "ddsWrite",
         \/ UNCHANGED watchdogVars
         \/ \E H, t : Arm(H, t)
         \/ \E H : Disarm(H)
  PROVE  LateInv'
<1> SUFFICES ASSUME NEW h \in Hands, RpcActive(h)'
             PROVE  /\ late'[h] <= 1
                    /\ at' = "ddsWrite" /\ First(todo') = h => late'[h] = 0
  BY DEF LateInv
<1>1. late'[h] = 0 \/ (RpcActive(h) /\ late'[h] = late[h])
  <2>1. CASE UNCHANGED watchdogVars
    BY <2>1 DEF watchdogVars, RpcActive
  <2>2. CASE \E H, t : Arm(H, t)
    <3>1. PICK H, t : Arm(H, t)
      BY <2>2
    <3>2. late'[h] = IF h \in H /\ ~RpcActive(h) THEN 0 ELSE late[h]
      BY <3>1 DEF Arm
    <3>3. h \notin H => active'[h] = active[h] /\ left'[h] = left[h]
      BY <3>1 DEF Arm, TypeOK, WatchdogTypeOK
    <3>4. QED
      BY <3>2, <3>3 DEF RpcActive
  <2>3. CASE \E H : Disarm(H)
    <3>1. PICK H : Disarm(H)
      BY <2>3
    <3>2. late'[h] = IF h \in H THEN 0 ELSE late[h]
      BY <3>1 DEF Disarm
    <3>3. h \notin H => active'[h] = active[h] /\ left'[h] = left[h]
      BY <3>1 DEF Disarm, TypeOK, WatchdogTypeOK
    <3>4. QED
      BY <3>2, <3>3 DEF RpcActive
  <2>4. QED
    BY <2>1, <2>2, <2>3
<1>2. CASE late'[h] = 0
  BY <1>2
<1>3. CASE RpcActive(h) /\ late'[h] = late[h]
  BY <1>3 DEF LateInv
<1>4. QED
  BY <1>1, <1>2, <1>3

\* The steps of the RPC threads leave the main loop where it is.
LEMMA RpcLate ==
  ASSUME TypeOK, LateInv, NEW w \in Workers, Arrive(w) \/ Serve(w)
  PROVE  LateInv'
<1>1. UNCHANGED <<at, todo>>
  BY DEF Arrive, SetTargets, ApplyGrip, TakeHand, ClearFault, HoldRequest,
         ExecutePose, Serve, WriteTargets, CancelRpcWatchdog, FinishClear,
         HoldLock, HoldCurrent, PreparePose, WaitForPoseDelay, WriteGroup,
         RearmPose, StopPose, ReleasePose, loopVars
<1>2. \/ UNCHANGED watchdogVars
      \/ \E H, t : Arm(H, t)
      \/ \E H : Disarm(H)
  <2>1. CASE Arrive(w)
    BY <2>1 DEF Arrive, SetTargets, ApplyGrip, TakeHand, ClearFault,
                HoldRequest, ExecutePose, BeginMaintenance
  <2>2. CASE Serve(w)
    BY <2>2 DEF Serve, WriteTargets, CancelRpcWatchdog, FinishClear,
         HoldLock, HoldCurrent, PreparePose, WaitForPoseDelay, WriteGroup,
         RearmPose, StopPose, ReleasePose, BeginMaintenance
  <2>3. QED
    BY <2>1, <2>2
<1>3. QED
  BY <1>1, <1>2, LateStep

\* AtMostOneStaleDds holds for any timing, any failures and any requests.
THEOREM StaleDdsBounded == Spec => []AtMostOneStaleDds
<1>1. Init => LateInv
  BY DEF Init, LateInv, RpcActive
<1>2. TypeOK /\ LateInv /\ [Next]_vars => LateInv'
  <2> SUFFICES ASSUME TypeOK, LateInv, [Next]_vars PROVE LateInv'
    OBVIOUS
  <2>1. CASE OnDdsCommand \/ HandleSignal \/ Exited \/ UNCHANGED vars
    <3>1. UNCHANGED <<at, todo>> /\ UNCHANGED watchdogVars
      BY <2>1 DEF OnDdsCommand, HandleSignal, Exited, vars, loopVars
    <3>2. QED
      BY <3>1, LateStep
  <2>2. CASE Tick
    <3>1. \A h \in Hands : left[h] \in Nat
      BY DEF TypeOK, WatchdogTypeOK
    <3>2. \A h \in Hands : RpcActive(h)' => RpcActive(h)
      BY <2>2, <3>1 DEF Tick, RpcActive
    <3>3. UNCHANGED <<at, todo, late>>
      BY <2>2 DEF Tick, loopVars
    <3>4. QED
      BY <3>2, <3>3 DEF LateInv
  <2>3. CASE MainLoop
    <3>1. CASE DdsCheck
      <4>1. CASE RpcActive(First(todo))
        BY <3>1, <4>1, LateStep DEF DdsCheck, Advance
      <4>2. CASE ~RpcActive(First(todo))
        BY <3>1, <4>2 DEF DdsCheck, LateInv, RpcActive, watchdogVars
      <4>3. QED
        BY <4>1, <4>2
    <3>2. CASE DdsWrite
      <4>1. \A h \in Hands : late[h] \in 0 .. 2
        BY DEF TypeOK, WatchdogTypeOK
      <4>2. at' # "ddsWrite" /\ UNCHANGED <<active, left>>
        BY <3>2 DEF DdsWrite, Advance
      <4>3. \A h \in Hands : RpcActive(h) => late'[h] <= 1
        <5> SUFFICES ASSUME NEW h \in Hands, RpcActive(h) PROVE late'[h] <= 1
          OBVIOUS
        <5>1. CASE h = First(todo)
          <6>1. late[h] = 0
            BY <3>2, <5>1 DEF LateInv, DdsWrite
          <6>2. late' = late \/ late' = [late EXCEPT ![h] = late[h] + 1]
            BY <3>2, <5>1 DEF DdsWrite
          <6>3. late'[h] = 0 \/ late'[h] = 0 + 1
            BY <6>1, <6>2 DEF TypeOK, WatchdogTypeOK
          <6>4. QED
            BY <6>3
        <5>2. CASE h # First(todo)
          <6>1. late'[h] = late[h]
            BY <3>2, <5>2 DEF DdsWrite, TypeOK, WatchdogTypeOK
          <6>2. QED
            BY <6>1 DEF LateInv
        <5>3. QED
          BY <5>1, <5>2
      <4>4. QED
        BY <4>2, <4>3 DEF LateInv, RpcActive
    <3>3. CASE ~DdsCheck /\ ~DdsWrite
      <4>1. at' # "ddsWrite"
        BY <2>3, <3>3 DEF MainLoop, ApplyDdsCommands, ApplyWatchdogs,
          WatchdogHold, Refresh, RefreshForce, BeginShutdown, ShutdownHold,
          Leave, Advance
      <4>2. UNCHANGED watchdogVars \/ \E H : Disarm(H)
        BY <2>3, <3>3 DEF MainLoop, ApplyDdsCommands, ApplyWatchdogs,
          WatchdogHold, Refresh, RefreshForce, BeginShutdown, ShutdownHold,
          Leave
      <4>3. QED
        BY <4>1, <4>2, LateStep
    <3>4. QED
      BY <3>1, <3>2, <3>3
  <2>4. QED
    BY <2>1, <2>2, <2>3, RpcLate DEF Next
<1>3. LateInv => AtMostOneStaleDds
  BY DEF LateInv, AtMostOneStaleDds
<1>4. QED
  BY <1>1, <1>2, <1>3, TypeCorrect, PTL DEF Spec

-----------------------------------------------------------------------------
(***************************************************************************)
(* Mutual exclusion of the RPC threads.                                    *)
(***************************************************************************)

Free == {"idle", "waiting"}

\* All that a step may do to control_mutex_ and to the thread that takes it.
LockStep(w) ==
  \/ UNCHANGED <<pc, control>>
  \/ \E p \in RpcPoints \ Free :
       control = NoWorker /\ control' = w /\ Goto(w, p)
  \/ pc[w] \notin Free /\ control' = NoWorker /\ Goto(w, "idle")
  \/ \E p \in RpcPoints :
       (pc[w] \in Free <=> p \in Free) /\ control' = control /\ Goto(w, p)

LEMMA ArriveLocks ==
  ASSUME TypeOK, NEW w \in Workers, Arrive(w)
  PROVE  LockStep(w)
<1>1. CASE \E h \in Hands, t \in RpcTimeouts :
             SetTargets(w, h, t) \/ ApplyGrip(w, h, t)
  BY <1>1 DEF SetTargets, ApplyGrip, TakeHand, LockStep, RpcPoints, Free
<1>2. CASE \E h \in Hands : ClearFault(w, h)
  BY <1>2 DEF ClearFault, LockStep, RpcPoints, Free
<1>3. CASE \E h \in Hands : HoldRequest(w, h)
  BY <1>3 DEF HoldRequest, LockStep, RpcPoints, Free
<1>4. CASE \E H \in PoseTargets, D \in PoseDelays, t \in RpcTimeouts :
             ExecutePose(w, H, D, t)
  BY <1>4 DEF ExecutePose, rpcVars, LockStep, RpcPoints, Free
<1>5. QED
  BY <1>1, <1>2, <1>3, <1>4 DEF Arrive

LEMMA ServeLocks ==
  ASSUME TypeOK, NEW w \in Workers, Serve(w)
  PROVE  LockStep(w)
<1>1. CASE WriteTargets(w)
  BY <1>1 DEF WriteTargets, Reply, LockStep, RpcPoints, Free
<1>2. CASE CancelRpcWatchdog(w) \/ FinishClear(w) \/ HoldCurrent(w)
  BY <1>2 DEF CancelRpcWatchdog, FinishClear, HoldCurrent, Reply, LockStep,
              Free
<1>3. CASE HoldLock(w)
  BY <1>3 DEF HoldLock, LockStep, RpcPoints, Free
<1>4. CASE PreparePose(w)
  BY <1>4 DEF PreparePose, BeginStop, Goto, LockStep, RpcPoints, Free
<1>5. CASE WaitForPoseDelay(w)
  BY <1>5 DEF WaitForPoseDelay, BeginStop, Goto, LockStep, RpcPoints, Free
<1>6. CASE WriteGroup(w)
  BY <1>6 DEF WriteGroup, BeginStop, Goto, LockStep, RpcPoints, Free
<1>7. CASE StopPose(w)
  BY <1>7 DEF StopPose, Goto, LockStep, RpcPoints, Free
<1>8. CASE RearmPose(w) \/ ReleasePose(w)
  BY <1>8 DEF RearmPose, ReleasePose, ReplyPose, Reply, LockStep, Free
<1>9. QED
  BY <1>1, <1>2, <1>3, <1>4, <1>5, <1>6, <1>7, <1>8 DEF Serve

LEMMA ExclusionStep ==
  ASSUME TypeOK, ControlExclusion, NEW w \in Workers, LockStep(w)
  PROVE  ControlExclusion'
<1> USE WorkersAssumption DEF ControlExclusion, Free
<1>1. pc \in [Workers -> RpcPoints]
  BY DEF TypeOK, RpcTypeOK
<1>2. CASE UNCHANGED <<pc, control>>
  BY <1>2
<1>3. CASE \E p \in RpcPoints \ Free :
             control = NoWorker /\ control' = w /\ Goto(w, p)
  BY <1>1, <1>3 DEF Goto
<1>4. CASE pc[w] \notin Free /\ control' = NoWorker /\ Goto(w, "idle")
  BY <1>1, <1>4 DEF Goto
<1>5. CASE \E p \in RpcPoints :
        (pc[w] \in Free <=> p \in Free) /\ control' = control /\ Goto(w, p)
  BY <1>1, <1>5 DEF Goto
<1>6. QED
  BY <1>2, <1>3, <1>4, <1>5 DEF LockStep

\* No step but an RPC thread's touches control_mutex_ or a thread's place.
LEMMA OthersLock ==
  ASSUME OnDdsCommand \/ HandleSignal \/ Tick \/ MainLoop \/ Exited
           \/ UNCHANGED vars
  PROVE  UNCHANGED <<pc, control>>
<1>1. CASE OnDdsCommand \/ HandleSignal \/ Tick \/ Exited \/ UNCHANGED vars
  BY <1>1 DEF OnDdsCommand, HandleSignal, Tick, Exited, vars, rpcVars
<1>2. CASE MainLoop
  BY <1>2 DEF MainLoop, ApplyDdsCommands, DdsCheck, DdsWrite, ApplyWatchdogs,
       WatchdogHold, Refresh, RefreshForce, BeginShutdown, ShutdownHold,
       Leave, rpcVars
<1>3. QED
  BY <1>1, <1>2

\* ControlExclusion holds for any number of RPC threads.
THEOREM ControlExclusive == Spec => []ControlExclusion
<1>1. Init => ControlExclusion
  BY WorkersAssumption DEF Init, ControlExclusion
<1>2. TypeOK /\ ControlExclusion /\ [Next]_vars => ControlExclusion'
  <2> SUFFICES ASSUME TypeOK, ControlExclusion, [Next]_vars
               PROVE  ControlExclusion'
    OBVIOUS
  <2>1. CASE OnDdsCommand \/ HandleSignal \/ Tick \/ MainLoop \/ Exited
               \/ UNCHANGED vars
    BY <2>1, OthersLock DEF ControlExclusion
  <2>2. CASE \E w \in Workers : Arrive(w) \/ Serve(w)
    BY <2>2, ArriveLocks, ServeLocks, ExclusionStep
  <2>3. QED
    BY <2>1, <2>2 DEF Next
<1>3. QED
  BY <1>1, <1>2, TypeCorrect, PTL DEF Spec

-----------------------------------------------------------------------------
(***************************************************************************)
(* A pose that gives up leaves no controlled hand on its way.              *)
(***************************************************************************)

\* While ExecutePose prepares, it has a hand left to prepare; while it stops,
\* the hands it has been through are off the pose's targets.
StopInv ==
  /\ controlled \subseteq Hands
  /\ \A w \in Workers :
       /\ pc[w] = "prepare" => poseTodo # {} /\ poseTodo \subseteq Hands
       /\ pc[w] \in {"stop", "release"} =>
            \A h \in controlled :
              (pc[w] = "stop" /\ h \in poseTodo) \/ motion[h] # "pose"

\* A write that is not a pose's puts no hand on a pose's target.
LEMMA WriteNotPose ==
  ASSUME TypeOK, NEW h, NEW source, source # "pose", NEW o,
         Write(h, source, o), NEW g \in Hands, motion[g] # "pose"
  PROVE  motion'[g] # "pose"
<1>1. motion' = motion \/ motion' = [motion EXCEPT ![h] = source]
  BY DEF Write
<1>2. QED
  BY <1>1 DEF TypeOK, HandTypeOK

\* Steps outside the pose that keep the pose's locals.
LEMMA StopFrame ==
  ASSUME TypeOK, StopInv, UNCHANGED <<controlled, poseTodo>>,
         \A w \in Workers : pc'[w] = pc[w]
                            \/ pc'[w] \notin {"prepare", "stop", "release"},
         \/ UNCHANGED motion
         \/ \E H : Abandon(H)
         \/ \E h, source, o : source # "pose" /\ Write(h, source, o)
  PROVE  StopInv'
<1>1. \A g \in Hands : motion[g] # "pose" => motion'[g] # "pose"
  <2>1. CASE \E H : Abandon(H)
    BY <2>1, AbandonHands
  <2>2. QED
    BY <2>1, WriteNotPose
<1>2. QED
  BY <1>1 DEF StopInv

LEMMA OthersStop ==
  ASSUME TypeOK, StopInv,
         OnDdsCommand \/ HandleSignal \/ Tick \/ MainLoop \/ Exited
           \/ UNCHANGED vars
  PROVE  StopInv'
<1>1. UNCHANGED pc
  BY OthersLock
<1>2. UNCHANGED <<controlled, poseTodo>>
  BY DEF OnDdsCommand, HandleSignal, Tick, Exited, vars, MainLoop,
       ApplyDdsCommands, DdsCheck, DdsWrite, ApplyWatchdogs, WatchdogHold,
       Refresh, RefreshForce, BeginShutdown, ShutdownHold, Leave, poseVars
<1>3. \/ UNCHANGED motion
      \/ \E h, source, o : source # "pose" /\ Write(h, source, o)
  <2>1. CASE DdsWrite
    <3>1. DdsMotion(First(todo)) # "pose"
      BY DdsMotions
    <3>2. QED
      BY <2>1, <3>1 DEF DdsWrite
  <2>2. CASE WatchdogHold \/ ShutdownHold
    BY <2>2 DEF WatchdogHold, ShutdownHold
  <2>3. CASE ~DdsWrite /\ ~WatchdogHold /\ ~ShutdownHold
    BY <2>3 DEF OnDdsCommand, HandleSignal, Tick, Exited, vars, MainLoop,
       ApplyDdsCommands, DdsCheck, ApplyWatchdogs, Refresh, RefreshForce,
       BeginShutdown, Leave, handVars
  <2>4. QED
    BY <2>1, <2>2, <2>3
<1>4. QED
  BY <1>1, <1>2, <1>3, StopFrame

LEMMA ArriveStop ==
  ASSUME TypeOK, ControlExclusion, StopInv, NEW v \in Workers, Arrive(v)
  PROVE  StopInv'
<1>1. pc \in [Workers -> RpcPoints]
  BY DEF TypeOK, RpcTypeOK
<1>2. CASE \E h \in Hands :
             \/ \E t \in RpcTimeouts : SetTargets(v, h, t) \/ ApplyGrip(v, h, t)
             \/ ClearFault(v, h)
             \/ HoldRequest(v, h)
  <2>1. UNCHANGED <<controlled, poseTodo, motion>>
    BY <1>2 DEF SetTargets, ApplyGrip, TakeHand, ClearFault, HoldRequest,
         poseVars, handVars
  <2>2. \E p \in {"write", "clear", "waiting"} : Goto(v, p)
    BY <1>2 DEF SetTargets, ApplyGrip, TakeHand, ClearFault, HoldRequest
  <2>3. QED
    BY <1>1, <2>1, <2>2, StopFrame DEF Goto
<1>3. CASE \E H \in PoseTargets, D \in PoseDelays, t \in RpcTimeouts :
             ExecutePose(v, H, D, t)
  <2>1. PICK H \in PoseTargets, D \in PoseDelays, t \in RpcTimeouts :
          ExecutePose(v, H, D, t)
    BY <1>3
  <2>2. CASE \E h \in H : DdsOwns(h)
    BY <2>1, <2>2 DEF ExecutePose, rpcVars, poseVars, handVars, StopInv
  <2>3. CASE ~ \E h \in H : DdsOwns(h)
    <3>1. /\ Goto(v, "prepare")
          /\ poseTodo' = H /\ controlled' = {}
      BY <2>1, <2>3 DEF ExecutePose
    <3>2. H # {} /\ H \subseteq Hands
      BY HandsAssumption DEF PoseTargets
    <3>3. \A w \in Workers : pc'[w] # "stop" /\ pc'[w] # "release"
      BY <1>1, <2>1, <3>1, WorkersAssumption
         DEF ExecutePose, Goto, ControlExclusion
    <3>4. QED
      BY <3>1, <3>2, <3>3 DEF StopInv
  <2>4. QED
    BY <2>2, <2>3
<1>4. QED
  BY <1>2, <1>3 DEF Arrive

\* The steps of the pose itself.
LEMMA PoseStop ==
  ASSUME "rejected" \notin HoldFaults,
         TypeOK, ControlExclusion, StopInv, NEW v \in Workers,
         \/ PreparePose(v) \/ WaitForPoseDelay(v) \/ WriteGroup(v)
         \/ RearmPose(v) \/ StopPose(v) \/ ReleasePose(v)
  PROVE  StopInv'
<1>1. pc \in [Workers -> RpcPoints] /\ poseTodo \subseteq {"right", "left"}
  BY DEF TypeOK, RpcTypeOK, PoseTypeOK
<1>2. \A w \in Workers : w # v => pc[w] \in {"idle", "waiting"}
  BY DEF ControlExclusion, PreparePose, WaitForPoseDelay, WriteGroup,
       RearmPose, StopPose, ReleasePose
<1>3. ASSUME NEW p \in RpcPoints, Goto(v, p)
      PROVE  /\ pc'[v] = p
             /\ \A w \in Workers : w # v => pc'[w] \in {"idle", "waiting"}
  BY <1>1, <1>2, <1>3 DEF Goto
<1>4. ASSUME BeginStop(v), UNCHANGED controlled
      PROVE  StopInv'
  <2>1. /\ poseTodo' = controlled
        /\ Goto(v, IF controlled = {} THEN "release" ELSE "stop")
    BY <1>4 DEF BeginStop, HandsToStop
  <2>2. CASE controlled = {}
    <3>1. pc'[v] = "release"
      BY <1>3, <2>1, <2>2 DEF RpcPoints
    <3>2. QED
      BY <1>3, <1>4, <2>1, <2>2, <3>1 DEF StopInv, RpcPoints
  <2>3. CASE controlled # {}
    <3>1. pc'[v] = "stop"
      BY <1>3, <2>1, <2>3 DEF RpcPoints
    <3>2. QED
      BY <1>3, <1>4, <2>1, <2>3, <3>1 DEF StopInv, RpcPoints
  <2>4. QED
    BY <2>2, <2>3
<1>5. CASE PreparePose(v)
  <2>1. First(poseTodo) \in poseTodo /\ poseTodo \subseteq Hands
    BY <1>1, <1>5 DEF PreparePose, StopInv, First
  <2>2. CASE BeginStop(v) /\ UNCHANGED controlled
    BY <1>4, <2>2
  <2>3. CASE /\ poseTodo' = poseTodo \ {First(poseTodo)}
             /\ controlled' = controlled \cup {First(poseTodo)}
             /\ Goto(v, IF poseTodo = {First(poseTodo)} THEN "wait"
                        ELSE "prepare")
    <3>1. controlled' \subseteq Hands
      BY <2>1, <2>3 DEF StopInv
    <3>2. CASE poseTodo = {First(poseTodo)}
      <4>1. Goto(v, "wait")
        BY <2>3, <3>2
      <4>2. QED
        BY <1>3, <3>1, <4>1 DEF StopInv, RpcPoints
    <3>3. CASE poseTodo # {First(poseTodo)}
      <4>1. Goto(v, "prepare")
        BY <2>3, <3>3
      <4>2. poseTodo' # {} /\ poseTodo' \subseteq Hands
        BY <2>1, <2>3, <3>3
      <4>3. QED
        BY <1>3, <3>1, <4>1, <4>2 DEF StopInv, RpcPoints
    <3>4. QED
      BY <3>2, <3>3
  <2>4. QED
    BY <1>5, <2>2, <2>3 DEF PreparePose
<1>6. CASE WaitForPoseDelay(v)
  <2>1. UNCHANGED controlled
    BY <1>6 DEF WaitForPoseDelay
  <2>2. CASE BeginStop(v)
    BY <1>4, <2>1, <2>2
  <2>3. CASE Goto(v, "group")
    BY <1>3, <2>1, <2>3 DEF StopInv, RpcPoints
  <2>4. QED
    BY <1>6, <2>2, <2>3 DEF WaitForPoseDelay
<1>7. CASE WriteGroup(v)
  <2>1. UNCHANGED controlled
    BY <1>7 DEF WriteGroup
  <2>2. CASE BeginStop(v)
    BY <1>4, <2>1, <2>2
  <2>3. CASE UNCHANGED pc
    BY <1>2, <1>7, <2>1, <2>3 DEF WriteGroup, StopInv
  <2>4. CASE \E p \in {"rearm", "wait"} : Goto(v, p)
    BY <1>3, <2>1, <2>4 DEF StopInv, RpcPoints
  <2>5. QED
    BY <1>7, <2>2, <2>3, <2>4 DEF WriteGroup
<1>8. CASE RearmPose(v) \/ ReleasePose(v)
  <2>1. controlled' = {} /\ Goto(v, "idle")
    BY <1>8 DEF RearmPose, ReleasePose, ReplyPose, Reply
  <2>2. QED
    BY <1>3, <2>1 DEF StopInv, RpcPoints
<1>9. CASE StopPose(v)
  <2> DEFINE h == First(poseTodo)
  <2>1. /\ pc[v] = "stop" /\ UNCHANGED controlled
        /\ poseTodo' = poseTodo \ {h}
        /\ Goto(v, IF poseTodo = {h} THEN "release" ELSE "stop")
    BY <1>9 DEF StopPose
  <2>2. motion' = [motion EXCEPT ![h] = "held"]
    BY <1>9 DEF StopPose, Write, HoldOutcomes
  <2>3. \A g \in controlled : g \in poseTodo' \/ motion'[g] # "pose"
    BY <2>1, <2>2 DEF StopInv, TypeOK, HandTypeOK
  <2>4. CASE poseTodo = {h}
    <3>1. Goto(v, "release") /\ poseTodo' = {}
      BY <2>1, <2>4
    <3>2. QED
      BY <1>3, <2>1, <2>3, <3>1 DEF StopInv, RpcPoints
  <2>5. CASE poseTodo # {h}
    <3>1. Goto(v, "stop")
      BY <2>1, <2>5
    <3>2. QED
      BY <1>3, <2>1, <2>3, <3>1 DEF StopInv, RpcPoints
  <2>6. QED
    BY <2>4, <2>5
<1>10. QED
  BY <1>5, <1>6, <1>7, <1>8, <1>9

\* The steps of the other requests.
LEMMA ServeStop ==
  ASSUME TypeOK, StopInv, NEW v \in Workers,
         \/ WriteTargets(v) \/ CancelRpcWatchdog(v) \/ FinishClear(v)
         \/ HoldLock(v) \/ HoldCurrent(v)
  PROVE  StopInv'
<1>1. pc \in [Workers -> RpcPoints]
  BY DEF TypeOK, RpcTypeOK
<1>2. UNCHANGED <<controlled, poseTodo>>
  BY DEF WriteTargets, CancelRpcWatchdog, FinishClear, HoldLock, HoldCurrent,
       poseVars
<1>3. \E p \in {"idle", "cancel", "hold"} : Goto(v, p)
  BY DEF WriteTargets, CancelRpcWatchdog, FinishClear, HoldLock, HoldCurrent,
       Reply
<1>4. \/ UNCHANGED motion
      \/ \E H : Abandon(H)
      \/ \E h, source, o : source # "pose" /\ Write(h, source, o)
  <2>1. CASE WriteTargets(v)
    BY <2>1 DEF WriteTargets
  <2>2. CASE HoldCurrent(v)
    BY <2>2 DEF HoldCurrent
  <2>3. CASE CancelRpcWatchdog(v) \/ FinishClear(v) \/ HoldLock(v)
    BY <2>3 DEF CancelRpcWatchdog, FinishClear, HoldLock, handVars
  <2>4. QED
    BY <2>1, <2>2, <2>3
<1>5. QED
  BY <1>1, <1>2, <1>3, <1>4, StopFrame DEF Goto

\* FailedPoseStops holds whenever the holds themselves get through.
THEOREM FailedPoseStopsHands ==
  ASSUME "rejected" \notin HoldFaults
  PROVE  Spec => []FailedPoseStops
<1>1. Init => StopInv
  BY DEF Init, StopInv
<1>2. TypeOK /\ ControlExclusion /\ StopInv /\ [Next]_vars => StopInv'
  <2> SUFFICES ASSUME TypeOK, ControlExclusion, StopInv, [Next]_vars
               PROVE  StopInv'
    OBVIOUS
  <2>1. CASE OnDdsCommand \/ HandleSignal \/ Tick \/ MainLoop \/ Exited
               \/ UNCHANGED vars
    BY <2>1, OthersStop
  <2>2. CASE \E w \in Workers : Arrive(w)
    BY <2>2, ArriveStop
  <2>3. CASE \E w \in Workers : Serve(w)
    BY <2>3, PoseStop, ServeStop DEF Serve
  <2>4. QED
    BY <2>1, <2>2, <2>3 DEF Next
<1>3. StopInv => FailedPoseStops
  BY DEF StopInv, FailedPoseStops
<1>4. QED
  BY <1>1, <1>2, <1>3, TypeCorrect, ControlExclusive, PTL DEF Spec

-----------------------------------------------------------------------------
(***************************************************************************)
(* The service never exits with a hand on the DDS stream.                  *)
(***************************************************************************)

OnDds(h) == motion[h] \in {"dds", "stale", "abandoned"}

\* HoldEnabled has taken the hands it has been through off the DDS stream, and
\* nothing puts one back.
ExitInv ==
  /\ at = "shutdown" => \A h \in Hands : OnDds(h) => h \in todo
  /\ at \in {"leaving", "exited"} => \A h \in Hands : ~OnDds(h)

\* Every other write than DdsWrite's leaves the hands off the stream that are.
LEMMA WriteNotDds ==
  ASSUME TypeOK, NEW h, NEW source \in {"held", "rpc", "pose"}, NEW o,
         Write(h, source, o), NEW g \in Hands, OnDds(g)'
  PROVE  OnDds(g)
<1>1. motion' = motion \/ motion' = [motion EXCEPT ![h] = source]
  BY DEF Write
<1>2. QED
  BY <1>1 DEF OnDds, TypeOK, HandTypeOK

\* Steps outside the main loop's last phase.
LEMMA ExitFrame ==
  ASSUME TypeOK, ExitInv,
         UNCHANGED <<at, todo>>,
         \/ UNCHANGED motion
         \/ \E H : Abandon(H)
         \/ \E h, o : \E source \in {"held", "rpc", "pose"} : Write(h, source, o)
  PROVE  ExitInv'
<1>1. \A g \in Hands : OnDds(g)' => OnDds(g)
  <2>1. CASE \E H : Abandon(H)
    BY <2>1, AbandonHands DEF OnDds
  <2>2. QED
    BY <2>1, WriteNotDds DEF OnDds
<1>2. QED
  BY <1>1 DEF ExitInv

LEMMA RpcExit ==
  ASSUME TypeOK, ExitInv, NEW w \in Workers, Arrive(w) \/ Serve(w)
  PROVE  ExitInv'
<1>1. UNCHANGED <<at, todo>>
  BY DEF Arrive, SetTargets, ApplyGrip, TakeHand, ClearFault, HoldRequest,
         ExecutePose, Serve, WriteTargets, CancelRpcWatchdog, FinishClear,
         HoldLock, HoldCurrent, PreparePose, WaitForPoseDelay, WriteGroup,
         RearmPose, StopPose, ReleasePose, loopVars
<1>2. \/ UNCHANGED motion
      \/ \E H : Abandon(H)
      \/ \E h, o : \E source \in {"held", "rpc", "pose"} : Write(h, source, o)
  <2>1. CASE Arrive(w)
    BY <2>1 DEF Arrive, SetTargets, ApplyGrip, TakeHand, ClearFault,
                HoldRequest, ExecutePose, handVars
  <2>2. CASE WriteTargets(w)
    BY <2>2 DEF WriteTargets
  <2>3. CASE HoldCurrent(w) \/ PreparePose(w) \/ StopPose(w)
    BY <2>3 DEF HoldCurrent, PreparePose, StopPose
  <2>4. CASE WriteGroup(w)
    BY <2>4 DEF WriteGroup
  <2>5. CASE \/ CancelRpcWatchdog(w) \/ FinishClear(w) \/ HoldLock(w)
             \/ WaitForPoseDelay(w) \/ RearmPose(w) \/ ReleasePose(w)
    BY <2>5 DEF CancelRpcWatchdog, FinishClear, HoldLock, WaitForPoseDelay,
                RearmPose, ReleasePose, handVars
  <2>6. QED
    BY <2>1, <2>2, <2>3, <2>4, <2>5 DEF Serve
<1>3. QED
  BY <1>1, <1>2, ExitFrame

LEMMA MainLoopExit ==
  ASSUME "rejected" \notin HoldFaults, TypeOK, ExitInv, MainLoop
  PROVE  ExitInv'
<1>1. CASE \/ ApplyDdsCommands \/ DdsCheck \/ DdsWrite \/ ApplyWatchdogs
           \/ WatchdogHold \/ Refresh \/ RefreshForce
  <2>1. at' \notin {"shutdown", "leaving", "exited"}
    BY <1>1 DEF ApplyDdsCommands, DdsCheck, DdsWrite, ApplyWatchdogs,
                WatchdogHold, Refresh, RefreshForce, Advance
  <2>2. QED
    BY <2>1 DEF ExitInv
<1>2. CASE BeginShutdown
  BY <1>2 DEF BeginShutdown, ExitInv
<1>3. CASE ShutdownHold
  <2> DEFINE h == First(todo)
  <2>1. motion' = [motion EXCEPT ![h] = "held"]
    BY <1>3 DEF ShutdownHold, Write, HoldOutcomes
  <2>2. \A g \in Hands : OnDds(g)' => OnDds(g) /\ g # h
    BY <2>1 DEF OnDds, TypeOK, HandTypeOK
  <2>3. /\ at = "shutdown" /\ todo' = todo \ {h}
        /\ at' = IF todo \ {h} = {} THEN "leaving" ELSE "shutdown"
    BY <1>3 DEF ShutdownHold, Advance
  <2>4. \A g \in Hands : OnDds(g)' => g \in todo'
    BY <2>2, <2>3 DEF ExitInv
  <2>5. QED
    BY <2>3, <2>4 DEF ExitInv
<1>4. CASE Leave
  BY <1>4 DEF Leave, ExitInv, OnDds, handVars
<1>5. QED
  BY <1>1, <1>2, <1>3, <1>4 DEF MainLoop

\* ExitStopsDds holds for any timing and any failed target writes, as long as
\* the holds themselves get through.
THEOREM ExitLeavesDds ==
  ASSUME "rejected" \notin HoldFaults
  PROVE  Spec => []ExitStopsDds
<1>1. Init => ExitInv
  BY DEF Init, ExitInv
<1>2. TypeOK /\ ExitInv /\ [Next]_vars => ExitInv'
  <2> SUFFICES ASSUME TypeOK, ExitInv, [Next]_vars
               PROVE  ExitInv'
    OBVIOUS
  <2>1. CASE OnDdsCommand \/ HandleSignal \/ Tick \/ Exited \/ UNCHANGED vars
    <3>1. UNCHANGED <<at, todo, motion>>
      BY <2>1 DEF OnDdsCommand, HandleSignal, Tick, Exited, vars, loopVars,
                  handVars
    <3>2. QED
      BY <3>1, ExitFrame
  <2>2. CASE MainLoop
    BY <2>2, MainLoopExit
  <2>3. CASE \E w \in Workers : Arrive(w) \/ Serve(w)
    BY <2>3, RpcExit
  <2>4. QED
    BY <2>1, <2>2, <2>3 DEF Next
<1>3. ExitInv => ExitStopsDds
  BY DEF ExitInv, ExitStopsDds, OnDds
<1>4. QED
  BY <1>1, <1>2, <1>3, TypeCorrect, PTL DEF Spec

=============================================================================
