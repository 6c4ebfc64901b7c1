---------------------- MODULE HandServiceMotionProofs ----------------------
(***************************************************************************)
(* Watchdogs, motion and contact in HandService, for any hands, any number *)
(* of RPC threads and any timing constants.  What is proved here needs     *)
(* Prompt: a write delayed beyond its watchdog is not stopped by it.       *)
(***************************************************************************)
EXTENDS HandServiceProofs

-----------------------------------------------------------------------------
(***************************************************************************)
(* No pose is cut short by its own watchdog.  PoseNotCutShort is not       *)
(* inductive: a clock unit passes while the pose waits, so what is left of *)
(* the watchdog must be compared with the delays still to come.            *)
(***************************************************************************)

PosePoints == {"prepare", "wait", "group", "rearm", "stop", "release"}

\* From its first step to its last a pose's hands are under its watchdogs,
\* which run out after the last of its groups; a request about to write a
\* target has armed the watchdog of its hand.
Owned(w) ==
  /\ pc[w] \in PosePoints => \A h \in poseHands : RpcActive(h)
  /\ pc[w] \in {"prepare", "wait", "group"} =>
       /\ delays # {}
       /\ \A h \in poseHands, d \in delays : left[h] + elapsed > d
  /\ pc[w] = "prepare" => elapsed = 0
  /\ pc[w] = "write" => req[w].hand \in Hands /\ RpcActive(req[w].hand)

OwnedInv == \A w \in Workers : Owned(w)

\* While a thread holds control_mutex_, all that another can do is to queue up
\* with a Hold.
LEMMA OthersWait ==
  ASSUME ControlExclusion, NEW w \in Workers, pc[w] \notin Free,
         NEW v \in Workers \ {w}, Arrive(v) \/ Serve(v)
  PROVE  \E h \in Hands : HoldRequest(v, h)
<1>1. control = w /\ w # NoWorker /\ pc[v] \in {"idle", "waiting"}
  BY WorkersAssumption DEF ControlExclusion, Free
<1>2. CASE Arrive(v)
  BY <1>1, <1>2 DEF Arrive, SetTargets, ApplyGrip, TakeHand, ClearFault,
                    ExecutePose
<1>3. CASE Serve(v)
  BY <1>1, <1>3 DEF Serve, WriteTargets, CancelRpcWatchdog, FinishClear,
       HoldLock, HoldCurrent, PreparePose, WaitForPoseDelay, WriteGroup,
       RearmPose, StopPose, ReleasePose
<1>4. QED
  BY <1>2, <1>3

\* What a thread that holds control_mutex_ can count on while it does not
\* itself take a step, and no time passes.
LEMMA OthersKeep ==
  ASSUME TypeOK, ControlExclusion, NEW w \in Workers, pc[w] \notin Free,
         \/ OnDdsCommand \/ HandleSignal \/ MainLoop \/ Exited
         \/ UNCHANGED vars
         \/ \E v \in Workers \ {w} : Arrive(v) \/ Serve(v)
  PROVE  /\ pc'[w] = pc[w] /\ req'[w] = req[w] /\ UNCHANGED poseVars
         /\ \A h \in Hands : RpcActive(h) => active'[h] /\ left'[h] = left[h]
<1>1. CASE OnDdsCommand \/ HandleSignal \/ Exited \/ UNCHANGED vars
  BY <1>1 DEF OnDdsCommand, HandleSignal, Exited, vars, rpcVars, poseVars,
              watchdogVars, RpcActive
<1>2. CASE MainLoop
  <2>1. CASE ApplyWatchdogs
    <3>1. Disarm({h \in Hands : Due(h)})
      BY <2>1 DEF ApplyWatchdogs
    <3>2. \A h \in Hands : RpcActive(h) => active'[h] /\ left'[h] = left[h]
      <4> SUFFICES ASSUME NEW h \in Hands, RpcActive(h)
                   PROVE  active'[h] /\ left'[h] = left[h]
        OBVIOUS
      <4>1. ~Due(h)
        BY DEF Due, RpcActive
      <4>2. QED
        BY <3>1, <4>1 DEF Disarm, RpcActive
    <3>3. QED
      BY <2>1, <3>2 DEF ApplyWatchdogs, rpcVars
  <2>2. CASE ~ApplyWatchdogs
    BY <1>2, <2>2 DEF MainLoop, ApplyDdsCommands, DdsCheck, DdsWrite,
         WatchdogHold, Refresh, RefreshForce, BeginShutdown, ShutdownHold,
         Leave, rpcVars, watchdogVars, RpcActive
  <2>3. QED
    BY <2>1, <2>2
<1>3. ASSUME NEW v \in Workers \ {w}, NEW h, HoldRequest(v, h)
      PROVE  /\ pc'[w] = pc[w] /\ req'[w] = req[w]
             /\ UNCHANGED <<poseVars, watchdogVars>>
  BY <1>3 DEF HoldRequest, Goto, TypeOK, RpcTypeOK
<1>4. QED
  BY <1>1, <1>2, <1>3, OthersWait DEF watchdogVars, RpcActive

\* Such a thread keeps what it owns.
LEMMA OthersOwned ==
  ASSUME TypeOK, ControlExclusion, NEW w \in Workers, Owned(w),
         pc[w] \notin Free,
         \/ OnDdsCommand \/ HandleSignal \/ MainLoop \/ Exited
         \/ UNCHANGED vars
         \/ \E v \in Workers \ {w} : Arrive(v) \/ Serve(v)
  PROVE  Owned(w)'
<1>1. /\ pc'[w] = pc[w] /\ req'[w] = req[w] /\ UNCHANGED poseVars
      /\ \A h \in Hands : RpcActive(h) => active'[h] /\ left'[h] = left[h]
  BY OthersKeep
<1>2. poseHands \subseteq Hands
  BY DEF TypeOK, PoseTypeOK
<1>3. \A h \in Hands : RpcActive(h) => RpcActive(h)' /\ left'[h] = left[h]
  BY <1>1 DEF RpcActive
<1>4. pc[w] \in {"prepare", "wait", "group"} => pc[w] \in PosePoints
  BY DEF PosePoints
<1>5. QED
  BY <1>1, <1>2, <1>3, <1>4 DEF Owned, poseVars

\* A clock unit passes only while no write is due, and while a pose waits for
\* a delay: then what is left of the watchdog and of the delay shrink together.
LEMMA TickOwned ==
  ASSUME Prompt, TypeOK, NEW w \in Workers, Owned(w), Tick
  PROVE  Owned(w)'
<1>1. UNCHANGED <<pc, req, poseHands, delays, active>>
  BY DEF Tick, rpcVars
<1>2. Parked(w)
  BY DEF Tick
<1>3. CASE pc[w] # "wait"
  <2>1. pc[w] \notin PosePoints /\ pc[w] \notin {"write", "prepare", "group"}
    BY <1>2, <1>3 DEF Parked, PosePoints
  <2>2. QED
    BY <1>1, <1>3, <2>1 DEF Owned
<1>4. CASE pc[w] = "wait"
  <2>1. /\ delays # {} /\ \A d \in delays : elapsed < d
        /\ \A h \in poseHands : active[h] /\ left[h] > 0
        /\ \A h \in poseHands, d \in delays : left[h] + elapsed > d
    BY <1>2, <1>4 DEF Parked, Owned, PosePoints, RpcActive
  <2>2. /\ delays \subseteq 0 .. MaxDelay /\ elapsed \in 0 .. MaxDelay
        /\ poseHands \subseteq Hands /\ MaxDelay \in Nat
        /\ \A h \in Hands : left[h] \in Nat
    BY TimingAssumption DEF TypeOK, PoseTypeOK, WatchdogTypeOK
  <2>3. PICK e \in delays : e \in 0 .. MaxDelay /\ elapsed < e
    BY <2>1, <2>2
  <2>4. \A h \in poseHands : left'[h] = left[h] - 1 /\ elapsed' = elapsed + 1
    <3>1. elapsed < MaxDelay
      BY <2>2, <2>3
    <3>2. QED
      BY <2>1, <2>2, <3>1 DEF Tick
  <2>5. ASSUME NEW h \in poseHands
        PROVE  left'[h] > 0 /\ \A d \in delays : left'[h] + elapsed' > d
    <3>1. left[h] \in Nat /\ elapsed \in Nat /\ e \in Nat
      BY <2>2, <2>3
    <3>2. left[h] + elapsed > e /\ elapsed < e
      BY <2>1, <2>3
    <3>3. left'[h] + elapsed' = left[h] + elapsed
      BY <2>4, <3>1
    <3>4. left'[h] > 0
      BY <2>4, <3>1, <3>2
    <3>5. QED
      BY <2>1, <3>3, <3>4
  <2>6. QED
    BY <1>1, <1>4, <2>1, <2>5 DEF Owned, RpcActive
<1>5. QED
  BY <1>3, <1>4

\* The first step of a request ...
LEMMA ArriveOwned ==
  ASSUME TypeOK, ControlExclusion, NEW w \in Workers, Owned(w), Arrive(w)
  PROVE  Owned(w)'
<1>1. pc \in [Workers -> RpcPoints] /\ req \in [Workers -> Requests]
  BY DEF TypeOK, RpcTypeOK
<1>2. ASSUME NEW h \in Hands, NEW t \in RpcTimeouts, TakeHand(w, h, t)
      PROVE  Owned(w)'
  <2>1. pc'[w] = "write" /\ req'[w].hand = h
    BY <1>1, <1>2 DEF TakeHand, Goto
  <2>2. active'[h] /\ left'[h] = t
    BY <1>2 DEF TakeHand, Arm
  <2>3. t > 0
    BY TimingAssumption
  <2>4. QED
    BY <2>1, <2>2, <2>3 DEF Owned, RpcActive, PosePoints
<1>3. ASSUME NEW h \in Hands, ClearFault(w, h) \/ HoldRequest(w, h)
      PROVE  Owned(w)'
  <2>1. pc'[w] \in {"clear", "waiting"}
    BY <1>1, <1>3 DEF ClearFault, HoldRequest, Goto
  <2>2. QED
    BY <2>1 DEF Owned, PosePoints
<1>4. ASSUME NEW H \in PoseTargets, NEW D \in PoseDelays, NEW t \in RpcTimeouts,
             ExecutePose(w, H, D, t)
      PROVE  Owned(w)'
  <2>1. CASE \E h \in H : DdsOwns(h)
    BY <1>4, <2>1 DEF ExecutePose, rpcVars, poseVars, watchdogVars, Owned,
                      RpcActive
  <2>2. CASE ~ \E h \in H : DdsOwns(h)
    <3>1. PICK last \in D : /\ \A d \in D : d <= last
                            /\ Arm(H, PoseWatchdog(last, t))
      BY <1>4, <2>2 DEF ExecutePose
    <3>2. /\ pc'[w] = "prepare"
          /\ poseHands' = H /\ delays' = D /\ elapsed' = 0
      BY <1>1, <1>4, <2>2 DEF ExecutePose, Goto
    <3>3. H \subseteq Hands /\ D # {} /\ D \subseteq 0 .. MaxDelay
      BY DEF PoseTargets, PoseDelays
    <3>4. /\ MaxDelay \in Nat /\ t \in Nat \ {0} /\ PoseMargin \in Nat \ {0}
      BY TimingAssumption
    <3>5. \A h \in H : active'[h] /\ left'[h] = last + t + PoseMargin
      BY <3>1, <3>3 DEF Arm, PoseWatchdog
    <3>6. \A h \in H : left'[h] > 0 /\ \A d \in D : left'[h] + elapsed' > d
      <4>1. last \in Nat /\ \A d \in D : d \in Nat /\ d <= last
        BY <3>1, <3>3, <3>4
      <4>2. QED
        BY <3>2, <3>4, <3>5, <4>1
    <3>7. QED
      BY <3>2, <3>3, <3>5, <3>6 DEF Owned, RpcActive
  <2>3. QED
    BY <2>1, <2>2
<1>5. QED
  BY <1>2, <1>3, <1>4 DEF Arrive, SetTargets, ApplyGrip

\* ... and the others.
LEMMA ServeOwned ==
  ASSUME TypeOK, NEW w \in Workers, Owned(w), Serve(w)
  PROVE  Owned(w)'
<1>1. pc \in [Workers -> RpcPoints]
  BY DEF TypeOK, RpcTypeOK
<1>2. ASSUME pc'[w] \notin PosePoints, pc'[w] # "write"
      PROVE  Owned(w)'
  BY <1>2 DEF Owned, PosePoints
<1>3. CASE \/ WriteTargets(w) \/ CancelRpcWatchdog(w) \/ FinishClear(w)
           \/ HoldLock(w) \/ HoldCurrent(w) \/ RearmPose(w) \/ ReleasePose(w)
  <2>1. \E p \in {"idle", "cancel", "hold"} : Goto(w, p)
    BY <1>3 DEF WriteTargets, CancelRpcWatchdog, FinishClear, HoldLock,
         HoldCurrent, RearmPose, ReleasePose, ReplyPose, Reply
  <2>2. QED
    BY <1>1, <1>2, <2>1 DEF Goto, PosePoints
<1>4. ASSUME pc[w] \in PosePoints,
             UNCHANGED <<watchdogVars, poseHands>>,
             pc'[w] \in {"rearm", "stop", "release"}
      PROVE  Owned(w)'
  BY <1>4 DEF Owned, watchdogVars, RpcActive
<1>5. CASE BeginStop(w) /\ (PreparePose(w) \/ WaitForPoseDelay(w) \/ WriteGroup(w))
  <2>1. pc'[w] \in {"stop", "release"}
    BY <1>1, <1>5 DEF BeginStop, Goto
  <2>2. QED
    BY <1>4, <1>5, <2>1 DEF PreparePose, WaitForPoseDelay, WriteGroup,
                            PosePoints
<1>6. CASE StopPose(w)
  <2>1. pc'[w] \in {"stop", "release"}
    BY <1>1, <1>6 DEF StopPose, Goto
  <2>2. QED
    BY <1>4, <1>6, <2>1 DEF StopPose, PosePoints
<1>7. CASE PreparePose(w) /\ ~BeginStop(w)
  <2>1. /\ pc[w] = "prepare" /\ pc'[w] \in {"prepare", "wait"}
        /\ elapsed' = 0 /\ UNCHANGED <<watchdogVars, poseHands, delays>>
    BY <1>1, <1>7 DEF PreparePose, Goto
  <2>2. elapsed = 0
    BY <2>1 DEF Owned
  <2>3. QED
    BY <2>1, <2>2 DEF Owned, watchdogVars, RpcActive, PosePoints
<1>8. CASE WaitForPoseDelay(w) /\ ~BeginStop(w)
  <2>1. /\ pc[w] = "wait" /\ pc'[w] = "group"
        /\ UNCHANGED <<watchdogVars, poseHands, delays, elapsed>>
    BY <1>1, <1>8 DEF WaitForPoseDelay, Goto
  <2>2. QED
    BY <2>1 DEF Owned, watchdogVars, RpcActive, PosePoints
<1>9. CASE WriteGroup(w) /\ ~BeginStop(w)
  <2>1. /\ pc[w] = "group"
        /\ UNCHANGED <<watchdogVars, poseHands, elapsed>>
        /\ delays' \subseteq delays
        /\ \/ pc'[w] = "group" /\ UNCHANGED delays
           \/ pc'[w] = "rearm"
           \/ pc'[w] = "wait" /\ delays' # {}
    BY <1>1, <1>9 DEF WriteGroup, Goto
  <2>2. QED
    BY <2>1 DEF Owned, watchdogVars, RpcActive, PosePoints
<1>10. QED
  BY <1>3, <1>5, <1>6, <1>7, <1>8, <1>9 DEF Serve

\* OwnedInv holds as long as no clock unit passes between a decision and its
\* write.
THEOREM OwnedInvariant ==
  ASSUME Prompt PROVE Spec => []OwnedInv
<1>1. Init => OwnedInv
  BY DEF Init, OwnedInv, Owned, PosePoints
<1>2. TypeOK /\ ControlExclusion /\ OwnedInv /\ [Next]_vars => OwnedInv'
  <2> SUFFICES ASSUME TypeOK, ControlExclusion, OwnedInv, [Next]_vars,
                      NEW w \in Workers
               PROVE  Owned(w)'
    BY DEF OwnedInv
  <2>1. Owned(w)
    BY DEF OwnedInv
  <2>2. CASE Tick
    BY <2>1, <2>2, TickOwned
  <2>3. CASE Arrive(w) \/ Serve(w)
    BY <2>1, <2>3, ArriveOwned, ServeOwned
  <2>4. CASE \/ OnDdsCommand \/ HandleSignal \/ MainLoop \/ Exited
             \/ UNCHANGED vars
             \/ \E v \in Workers \ {w} : Arrive(v) \/ Serve(v)
    <3>1. CASE pc[w] \notin Free
      BY <2>1, <2>4, <3>1, OthersOwned
    <3>2. CASE pc[w] \in Free
      <4>1. pc'[w] = pc[w]
        <5>1. CASE \E v \in Workers \ {w} : Arrive(v) \/ Serve(v)
          BY <5>1, ArriveLocks, ServeLocks
             DEF LockStep, Goto, TypeOK, RpcTypeOK
        <5>2. QED
          BY <2>4, <5>1, OthersLock
      <4>2. QED
        BY <3>2, <4>1 DEF Owned, Free, PosePoints
    <3>3. QED
      BY <3>1, <3>2
  <2>5. QED
    BY <2>2, <2>3, <2>4 DEF Next
<1>3. QED
  BY <1>1, <1>2, TypeCorrect, ControlExclusive, PTL DEF Spec

\* PoseNotCutShort holds for any delays, timeouts and failed writes.
THEOREM PosesNotCutShort ==
  ASSUME Prompt PROVE Spec => []PoseNotCutShort
<1>1. OwnedInv => PoseNotCutShort
  BY DEF OwnedInv, Owned, PoseNotCutShort, PosePoints
<1>2. QED
  BY <1>1, OwnedInvariant, PTL

-----------------------------------------------------------------------------
(***************************************************************************)
(* Someone is bound to stop every hand that moves.  MotionCovered is not   *)
(* inductive: a pose that is cancelled disarms the watchdogs of its hands, *)
(* so it must have brought them to rest by then; a DDS command must not    *)
(* reach them in between; and a hold must reach the hand it was meant for. *)
(***************************************************************************)

\* No hold, watchdog or DDS stream has to stop the hand, or none will.
HeldOrAbandoned(h) == motion[h] \in {"held", "abandoned"}

\* Nobody but a DDS command that came too late drives it.
Undriven(h) == motion[h] \in {"held", "stale", "abandoned"}

\* Without refused writes a pose controls all its hands when it has prepared
\* them, and drives none of them any more when it releases them.
Placed(w) ==
  /\ pc[w] # "cancel"
  /\ pc[w] \in PosePoints => poseHands # {}
  /\ pc[w] = "prepare" => poseHands \subseteq controlled \cup poseTodo
  /\ pc[w] \in {"wait", "group", "rearm"} => poseHands \subseteq controlled
  /\ pc[w] = "group" => poseTodo # {} /\ poseTodo \subseteq poseHands
  /\ pc[w] = "stop" => \A h \in poseHands \ poseTodo : Undriven(h)
  /\ pc[w] = "release" => \A h \in poseHands : Undriven(h)

PlacedInv == \A w \in Workers : Placed(w)

\* A command on its way to the hands was received; a hold has a hand to reach.
LoopInv ==
  /\ fresh \/ at \in {"ddsCheck", "ddsWrite"} => received
  /\ at \in {"hold", "shutdown"} => todo # {}

MotionInv == PlacedInv /\ LoopInv /\ MotionCovered

\* Contact needs three samples in a row: a hand read as idle is at rest, or
\* has been written to since and starts its samples again.
QuietInv ==
  /\ ContactQuiet
  /\ at = "force" /\ idle => \A h \in Hands :
       h = First(todo) => HeldOrAbandoned(h) \/ samples[h] = 0

LEMMA FirstIn ==
  ASSUME NEW S \in SUBSET Hands, S # {}
  PROVE  First(S) \in S
BY HandsAssumption DEF First

\* The steps of the main loop keep LoopInv, and so does every other step: it
\* leaves the main loop where it is and takes no command back.
LEMMA LoopStep ==
  ASSUME TypeOK, LoopInv, MainLoop
  PROVE  LoopInv'
<1> USE HandsAssumption DEF LoopInv
<1>1. UNCHANGED received /\ (fresh' => fresh)
  BY DEF MainLoop, ApplyDdsCommands, DdsCheck, DdsWrite, ApplyWatchdogs,
       WatchdogHold, Refresh, RefreshForce, BeginShutdown, ShutdownHold,
       Leave, ddsVars
<1>2. CASE ApplyDdsCommands
  BY <1>2 DEF ApplyDdsCommands
<1>3. CASE DdsCheck
  BY <1>1, <1>3 DEF DdsCheck, Advance
<1>4. CASE DdsWrite
  BY <1>1, <1>4 DEF DdsWrite, Advance
<1>5. CASE ApplyWatchdogs
  BY <1>1, <1>5 DEF ApplyWatchdogs
<1>6. CASE WatchdogHold
  BY <1>1, <1>6 DEF WatchdogHold, Advance
<1>7. CASE Refresh \/ RefreshForce
  BY <1>1, <1>7 DEF Refresh, RefreshForce, Advance
<1>8. CASE BeginShutdown \/ Leave
  BY <1>1, <1>8 DEF BeginShutdown, Leave
<1>9. CASE ShutdownHold
  BY <1>1, <1>9 DEF ShutdownHold, Advance
<1>10. QED
  BY <1>2, <1>3, <1>4, <1>5, <1>6, <1>7, <1>8, <1>9 DEF MainLoop

LEMMA RpcLeavesLoop ==
  ASSUME NEW w \in Workers, Arrive(w) \/ Serve(w)
  PROVE  UNCHANGED <<at, todo, idle, received, fresh>>
<1>1. CASE Arrive(w)
  BY <1>1 DEF Arrive, SetTargets, ApplyGrip, TakeHand, ClearFault,
       HoldRequest, ExecutePose, BeginMaintenance, loopVars, ddsVars
<1>2. CASE Serve(w)
  BY <1>2 DEF Serve, WriteTargets, CancelRpcWatchdog, FinishClear, HoldLock,
       HoldCurrent, PreparePose, WaitForPoseDelay, WriteGroup, RearmPose,
       StopPose, ReleasePose, BeginMaintenance, loopVars, ddsVars
<1>3. QED
  BY <1>1, <1>2

LEMMA LoopInvStep ==
  ASSUME TypeOK, LoopInv, [Next]_vars
  PROVE  LoopInv'
<1>1. CASE OnDdsCommand \/ HandleSignal \/ Tick \/ Exited \/ UNCHANGED vars
  BY <1>1 DEF LoopInv, OnDdsCommand, HandleSignal, Tick, Exited, vars,
              loopVars, ddsVars
<1>2. CASE MainLoop
  BY <1>2, LoopStep
<1>3. CASE \E w \in Workers : Arrive(w) \/ Serve(w)
  BY <1>3, RpcLeavesLoop DEF LoopInv
<1>4. QED
  BY <1>1, <1>2, <1>3 DEF Next

\* A hand that RPC owns and does not drive stays so while the main loop runs: a
\* DDS command that reaches it comes too late.
LEMMA RestKept ==
  ASSUME TypeOK, NEW g \in Hands, RpcActive(g), Undriven(g),
         OnDdsCommand \/ HandleSignal \/ Tick \/ MainLoop \/ Exited
           \/ UNCHANGED vars
  PROVE  Undriven(g)'
<1>1. ASSUME NEW h, NEW o, NEW source, Write(h, source, o),
             h = g => source \in {"held", "stale", "abandoned"}
      PROVE  Undriven(g)'
  <2>1. motion' = motion \/ motion' = [motion EXCEPT ![h] = source]
    BY <1>1 DEF Write
  <2>2. QED
    BY <1>1, <2>1 DEF Undriven, TypeOK, HandTypeOK
<1>2. CASE DdsWrite
  BY <1>1, <1>2 DEF DdsWrite, DdsMotion, TakenFromDds
<1>3. CASE WatchdogHold \/ ShutdownHold
  BY <1>1, <1>3 DEF WatchdogHold, ShutdownHold
<1>4. CASE ~DdsWrite /\ ~WatchdogHold /\ ~ShutdownHold
  BY <1>4 DEF OnDdsCommand, HandleSignal, Tick, Exited, vars, MainLoop,
       ApplyDdsCommands, DdsCheck, ApplyWatchdogs, Refresh, RefreshForce,
       BeginShutdown, Leave, handVars, Undriven
<1>5. QED
  BY <1>2, <1>3, <1>4

\* What others do leaves a pose in its place ...
LEMMA OthersPlaced ==
  ASSUME TypeOK, ControlExclusion, NEW w \in Workers, Owned(w), Placed(w),
         \/ OnDdsCommand \/ HandleSignal \/ Tick \/ MainLoop \/ Exited
         \/ UNCHANGED vars
         \/ \E v \in Workers \ {w} : Arrive(v) \/ Serve(v)
  PROVE  Placed(w)'
<1>1. CASE pc[w] \in Free
  <2>1. pc'[w] = pc[w]
    <3>1. CASE \E v \in Workers \ {w} : Arrive(v) \/ Serve(v)
      BY <3>1, ArriveLocks, ServeLocks DEF LockStep, Goto, TypeOK, RpcTypeOK
    <3>2. QED
      BY <3>1, OthersLock
  <2>2. QED
    BY <1>1, <2>1 DEF Placed, Free, PosePoints
<1>2. CASE pc[w] \notin Free
  <2>1. pc'[w] = pc[w] /\ UNCHANGED <<poseHands, poseTodo, controlled>>
    <3>1. CASE Tick
      BY <3>1 DEF Tick, rpcVars
    <3>2. CASE ~Tick
      BY <1>2, <3>2, OthersKeep DEF poseVars
    <3>3. QED
      BY <3>1, <3>2
  <2>2. ASSUME NEW h \in poseHands, pc[w] \in {"stop", "release"}, Undriven(h)
        PROVE  Undriven(h)'
    <3>1. h \in Hands /\ RpcActive(h)
      BY <2>2 DEF Owned, PosePoints, TypeOK, PoseTypeOK
    <3>2. CASE \E v \in Workers \ {w} : Arrive(v) \/ Serve(v)
      BY <1>2, <2>2, <3>2, OthersWait DEF HoldRequest, handVars, Undriven
    <3>3. QED
      BY <2>2, <3>1, <3>2, RestKept
  <2>3. QED
    BY <2>1, <2>2 DEF Placed
<1>3. QED
  BY <1>1, <1>2

\* ... and so do its own steps.
LEMMA ArrivePlaced ==
  ASSUME TypeOK, NEW w \in Workers, Placed(w), Arrive(w)
  PROVE  Placed(w)'
<1>1. pc \in [Workers -> RpcPoints]
  BY DEF TypeOK, RpcTypeOK
<1>2. CASE \E h \in Hands :
             \/ \E t \in RpcTimeouts : SetTargets(w, h, t) \/ ApplyGrip(w, h, t)
             \/ ClearFault(w, h)
             \/ HoldRequest(w, h)
  <2>1. pc'[w] \in {"write", "clear", "waiting"}
    BY <1>1, <1>2 DEF SetTargets, ApplyGrip, TakeHand, ClearFault,
                      HoldRequest, Goto
  <2>2. QED
    BY <2>1 DEF Placed, PosePoints
<1>3. ASSUME NEW H \in PoseTargets, NEW D \in PoseDelays, NEW t \in RpcTimeouts,
             ExecutePose(w, H, D, t)
      PROVE  Placed(w)'
  <2>1. CASE \E h \in H : DdsOwns(h)
    BY <1>3, <2>1 DEF ExecutePose, rpcVars, poseVars, handVars, Placed, Undriven
  <2>2. CASE ~ \E h \in H : DdsOwns(h)
    <3>1. pc'[w] = "prepare" /\ poseHands' = H /\ poseTodo' = H
      BY <1>1, <1>3, <2>2 DEF ExecutePose, Goto
    <3>2. H # {}
      BY HandsAssumption DEF PoseTargets
    <3>3. QED
      BY <3>1, <3>2 DEF Placed
  <2>3. QED
    BY <2>1, <2>2
<1>4. QED
  BY <1>2, <1>3 DEF Arrive

LEMMA ServePlaced ==
  ASSUME Faults = {}, "rejected" \notin HoldFaults,
         TypeOK, NEW w \in Workers, Placed(w), Serve(w)
  PROVE  Placed(w)'
<1>1. /\ pc \in [Workers -> RpcPoints] /\ poseHands \subseteq Hands
      /\ \A o \in Outcomes : o = "ok"
      /\ \A o \in HoldOutcomes : o # "rejected"
  BY DEF TypeOK, RpcTypeOK, PoseTypeOK, Outcomes, HoldOutcomes
<1>2. CASE \/ WriteTargets(w) \/ CancelRpcWatchdog(w) \/ FinishClear(w)
           \/ HoldLock(w) \/ HoldCurrent(w) \/ RearmPose(w) \/ ReleasePose(w)
  <2>1. \E p \in {"idle", "hold"} : Goto(w, p)
    BY <1>1, <1>2 DEF WriteTargets, CancelRpcWatchdog, FinishClear, HoldLock,
         HoldCurrent, RearmPose, ReleasePose, ReplyPose, Reply, Placed
  <2>2. QED
    BY <1>1, <2>1 DEF Goto, Placed, PosePoints
<1>3. CASE PreparePose(w)
  <2>1. /\ pc[w] = "prepare" /\ UNCHANGED poseHands
        /\ poseTodo' = poseTodo \ {First(poseTodo)}
        /\ controlled' = controlled \cup {First(poseTodo)}
        /\ Goto(w, IF poseTodo = {First(poseTodo)} THEN "wait" ELSE "prepare")
    BY <1>1, <1>3 DEF PreparePose
  <2>2. /\ pc'[w] = IF poseTodo = {First(poseTodo)} THEN "wait" ELSE "prepare"
    BY <1>1, <2>1 DEF Goto
  <2>3. poseHands # {} /\ poseHands \subseteq controlled \cup poseTodo
    BY <2>1 DEF Placed, PosePoints
  <2>4. CASE poseTodo = {First(poseTodo)}
    BY <2>1, <2>2, <2>3, <2>4 DEF Placed
  <2>5. CASE poseTodo # {First(poseTodo)}
    BY <2>1, <2>2, <2>3, <2>5 DEF Placed
  <2>6. QED
    BY <2>4, <2>5
<1>4. CASE WaitForPoseDelay(w)
  <2>1. /\ pc[w] = "wait" /\ UNCHANGED <<poseHands, controlled>>
        /\ \/ pc'[w] = "group" /\ poseTodo' = poseHands
           \/ /\ pc'[w] = IF controlled = {} THEN "release" ELSE "stop"
              /\ poseTodo' = controlled
    BY <1>1, <1>4 DEF WaitForPoseDelay, BeginStop, HandsToStop, Goto
  <2>2. poseHands # {} /\ poseHands \subseteq controlled
    BY <2>1 DEF Placed, PosePoints
  <2>3. QED
    BY <2>1, <2>2 DEF Placed
<1>5. CASE WriteGroup(w)
  <2>1. /\ pc[w] = "group" /\ UNCHANGED <<poseHands, controlled>>
        /\ \/ /\ pc'[w] = "group" /\ poseTodo' = poseTodo \ {First(poseTodo)}
              /\ poseTodo # {First(poseTodo)}
           \/ pc'[w] \in {"rearm", "wait"}
    BY <1>1, <1>5 DEF WriteGroup, Goto
  <2>2. /\ poseHands # {} /\ poseHands \subseteq controlled
        /\ poseTodo # {} /\ poseTodo \subseteq poseHands
    BY <2>1 DEF Placed, PosePoints
  <2>3. QED
    BY <2>1, <2>2 DEF Placed
<1>6. CASE StopPose(w)
  <2> DEFINE h == First(poseTodo)
  <2>1. /\ pc[w] = "stop" /\ UNCHANGED poseHands
        /\ poseTodo' = poseTodo \ {h}
        /\ pc'[w] = IF poseTodo = {h} THEN "release" ELSE "stop"
    BY <1>1, <1>6 DEF StopPose, Goto
  <2>2. motion' = [motion EXCEPT ![h] = "held"]
    BY <1>1, <1>6 DEF StopPose, Write
  <2>3. \A g \in poseHands : g = h \/ Undriven(g) => Undriven(g)'
    BY <1>1, <2>2 DEF Undriven, TypeOK, HandTypeOK
  <2>4. poseHands # {} /\ \A g \in poseHands \ poseTodo : Undriven(g)
    BY <2>1 DEF Placed, PosePoints
  <2>5. \A g \in poseHands \ poseTodo' : Undriven(g)'
    BY <2>1, <2>3, <2>4
  <2> HIDE DEF h
  <2>6. CASE poseTodo = {h}
    BY <2>1, <2>4, <2>5, <2>6 DEF Placed
  <2>7. CASE poseTodo # {h}
    BY <2>1, <2>4, <2>5, <2>7 DEF Placed
  <2>8. QED
    BY <2>6, <2>7
<1>7. QED
  BY <1>2, <1>3, <1>4, <1>5, <1>6 DEF Serve

\* A hand that a step neither sets in motion nor gives up stays covered.
LEMMA StaysCovered ==
  ASSUME MotionCovered, NEW g \in Hands,
         HeldOrAbandoned(g) => HeldOrAbandoned(g)',
         Covered(g) => Covered(g)' \/ HeldOrAbandoned(g)'
  PROVE  ~HeldOrAbandoned(g)' => Covered(g)'
BY DEF MotionCovered, HeldOrAbandoned

LEMMA MainLoopCovered ==
  ASSUME "rejected" \notin HoldFaults,
         TypeOK, LoopInv, MotionCovered, MainLoop
  PROVE  MotionCovered'
<1> SUFFICES ASSUME NEW g \in Hands PROVE ~HeldOrAbandoned(g)' => Covered(g)'
  BY DEF MotionCovered, HeldOrAbandoned
<1> DEFINE h == First(todo)
<1>1. /\ motion \in [Hands -> Motions] /\ todo \in SUBSET Hands
      /\ \A o \in HoldOutcomes : o # "rejected"
  BY DEF TypeOK, HandTypeOK, LoopTypeOK, HoldOutcomes
<1>2. CASE ApplyDdsCommands \/ DdsCheck \/ Refresh \/ RefreshForce \/ Leave
  <2>1. UNCHANGED <<active, received, timedOut, motion>>
    BY <1>2 DEF ApplyDdsCommands, DdsCheck, Refresh, RefreshForce, Leave,
                watchdogVars, ddsVars, handVars
  <2>2. at \notin {"hold", "shutdown"}
    BY <1>2 DEF ApplyDdsCommands, DdsCheck, Refresh, RefreshForce, Leave
  <2>3. QED
    BY <2>1, <2>2, StaysCovered DEF Covered, HeldOrAbandoned
<1>3. CASE DdsWrite
  <2>1. /\ at = "ddsWrite" /\ received
        /\ UNCHANGED <<active, received, timedOut>>
    BY <1>3 DEF DdsWrite, LoopInv, ddsVars
  <2>2. Covered(g) => Covered(g)'
    BY <2>1 DEF Covered
  <2>3. PICK o : Write(h, DdsMotion(h), o)
    BY <1>3 DEF DdsWrite
  <2>4. motion' = motion \/ motion' = [motion EXCEPT ![h] = DdsMotion(h)]
    BY <2>3 DEF Write
  <2>5. CASE g = h /\ (~timedOut[h] \/ active[h])
    BY <2>1, <2>5 DEF Covered
  <2>6. CASE g # h \/ (timedOut[h] /\ ~active[h])
    <3>1. HeldOrAbandoned(g) => HeldOrAbandoned(g)'
      BY <1>1, <2>4, <2>6 DEF HeldOrAbandoned, DdsMotion, TakenFromDds
    <3>2. QED
      BY <2>2, <3>1, StaysCovered
  <2>7. QED
    BY <2>5, <2>6
<1>4. CASE ApplyWatchdogs
  <2>1. /\ at = "watchdog" /\ UNCHANGED <<received, motion>>
        /\ timedOut'[g] = (timedOut[g] \/ Lost(g))
        /\ active'[g] = (active[g] /\ ~Due(g))
    BY <1>4 DEF ApplyWatchdogs, Disarm, handVars
  <2>2. Lost(g) \/ Due(g) => at' = "hold" /\ g \in todo'
    BY <1>4 DEF ApplyWatchdogs, HandsToHold
  <2>3. Covered(g) => Covered(g)'
    BY <2>1, <2>2 DEF Covered
  <2>4. QED
    BY <2>1, <2>3, StaysCovered DEF HeldOrAbandoned
<1>5. CASE WatchdogHold \/ ShutdownHold
  <2>1. /\ at \in {"hold", "shutdown"} /\ UNCHANGED <<active, received, timedOut>>
        /\ motion' = [motion EXCEPT ![h] = "held"]
    BY <1>1, <1>5 DEF WatchdogHold, ShutdownHold, Write, watchdogVars, ddsVars
  <2>2. h \in todo
    BY <1>1, <2>1, FirstIn DEF LoopInv
  <2>3. g \in todo => g = h \/ (at' = at /\ g \in todo')
    BY <1>5, <2>2 DEF WatchdogHold, ShutdownHold, Advance
  <2>4. g # h => motion'[g] = motion[g]
    BY <1>1, <2>1
  <2>5. g = h => HeldOrAbandoned(g)'
    BY <1>1, <2>1 DEF HeldOrAbandoned
  <2>6. Covered(g) => Covered(g)' \/ HeldOrAbandoned(g)'
    BY <2>1, <2>3, <2>5 DEF Covered
  <2>7. QED
    BY <2>4, <2>5, <2>6, StaysCovered DEF HeldOrAbandoned
<1>6. CASE BeginShutdown
  BY <1>6 DEF BeginShutdown, Covered
<1>7. QED
  BY <1>2, <1>3, <1>4, <1>5, <1>6 DEF MainLoop

LEMMA RpcCovered ==
  ASSUME Faults = {}, TypeOK, NEW w \in Workers, Owned(w), Placed(w),
         MotionCovered, Arrive(w) \/ Serve(w)
  PROVE  MotionCovered'
<1> SUFFICES ASSUME NEW g \in Hands PROVE ~HeldOrAbandoned(g)' => Covered(g)'
  BY DEF MotionCovered, HeldOrAbandoned
<1>1. UNCHANGED <<at, todo, received>>
  BY RpcLeavesLoop
<1>2. /\ motion \in [Hands -> Motions] /\ timedOut \in [Hands -> BOOLEAN]
      /\ active \in [Hands -> BOOLEAN] /\ poseHands \in SUBSET Hands
  BY DEF TypeOK, HandTypeOK, DdsTypeOK, WatchdogTypeOK, PoseTypeOK
<1>3. ASSUME NEW H, NEW t, Arm(H, t), UNCHANGED <<timedOut, motion>>
      PROVE  ~HeldOrAbandoned(g)' => Covered(g)'
  BY <1>1, <1>3, StaysCovered DEF Arm, Covered, HeldOrAbandoned
<1>4. ASSUME NEW h, BeginMaintenance(h), UNCHANGED motion
      PROVE  ~HeldOrAbandoned(g)' => Covered(g)'
  <2>1. active'[g] = (g = h \/ active[g])
    BY <1>4 DEF BeginMaintenance, Arm
  <2>2. g # h => timedOut'[g] = timedOut[g]
    BY <1>2, <1>4 DEF BeginMaintenance
  <2>3. Covered(g) => Covered(g)'
    BY <1>1, <2>1, <2>2 DEF Covered
  <2>4. QED
    BY <1>4, <2>3, StaysCovered DEF HeldOrAbandoned
<1>5. ASSUME UNCHANGED <<timedOut, active>>, NEW h, NEW source, NEW o,
             Write(h, source, o), h = g => active[g] \/ source = "held"
      PROVE  ~HeldOrAbandoned(g)' => Covered(g)'
  <2>1. Covered(g) => Covered(g)'
    BY <1>1, <1>5 DEF Covered
  <2>2. CASE active[g]
    BY <1>5, <2>2 DEF Covered
  <2>3. CASE ~active[g]
    <3>1. motion' = motion \/ motion' = [motion EXCEPT ![h] = source]
      BY <1>5 DEF Write
    <3>2. HeldOrAbandoned(g) => HeldOrAbandoned(g)'
      BY <1>2, <1>5, <2>3, <3>1 DEF HeldOrAbandoned
    <3>3. QED
      BY <2>1, <3>2, StaysCovered
  <2>4. QED
    BY <2>2, <2>3
<1>6. ASSUME UNCHANGED <<timedOut, active, motion>>
      PROVE  ~HeldOrAbandoned(g)' => Covered(g)'
  BY <1>1, <1>6, StaysCovered DEF Covered, HeldOrAbandoned
<1>7. CASE Arrive(w)
  <2>1. CASE \E h \in Hands, t \in RpcTimeouts :
               SetTargets(w, h, t) \/ ApplyGrip(w, h, t)
    BY <1>3, <2>1 DEF SetTargets, ApplyGrip, TakeHand, ddsVars, handVars
  <2>2. CASE \E h \in Hands : ClearFault(w, h)
    BY <1>4, <2>2 DEF ClearFault, handVars
  <2>3. CASE \E h \in Hands : HoldRequest(w, h)
    BY <1>6, <2>3 DEF HoldRequest, ddsVars, watchdogVars, handVars
  <2>4. CASE \E H \in PoseTargets, D \in PoseDelays, t \in RpcTimeouts :
               ExecutePose(w, H, D, t)
    <3>1. PICK H \in PoseTargets, D \in PoseDelays, t \in RpcTimeouts :
            ExecutePose(w, H, D, t)
      BY <2>4
    <3>2. UNCHANGED <<timedOut, motion>>
      BY <3>1 DEF ExecutePose, ddsVars, handVars
    <3>3. UNCHANGED active \/ \E last : Arm(H, PoseWatchdog(last, t))
      BY <3>1 DEF ExecutePose, watchdogVars
    <3>4. QED
      BY <1>3, <1>6, <3>2, <3>3
  <2>5. QED
    BY <1>7, <2>1, <2>2, <2>3, <2>4 DEF Arrive
<1>8. CASE WriteTargets(w)
  <2>1. /\ pc[w] = "write" /\ UNCHANGED <<timedOut, active>>
        /\ \E o : Write(req[w].hand, "rpc", o)
    BY <1>8 DEF WriteTargets, ddsVars, watchdogVars
  <2>2. active[req[w].hand]
    BY <2>1 DEF Owned, RpcActive
  <2>3. QED
    BY <1>5, <2>1, <2>2
<1>9. CASE WriteGroup(w)
  <2>1. /\ pc[w] = "group" /\ UNCHANGED <<timedOut, active>>
        /\ \E o : Write(First(poseTodo), "pose", o)
    BY <1>9 DEF WriteGroup, ddsVars, watchdogVars
  <2>2. First(poseTodo) \in poseHands
    <3>1. poseTodo # {} /\ poseTodo \subseteq poseHands
      BY <2>1 DEF Placed
    <3>2. QED
      BY <1>2, <3>1, FirstIn
  <2>3. active[First(poseTodo)]
    BY <2>1, <2>2 DEF Owned, RpcActive, PosePoints
  <2>4. QED
    BY <1>5, <2>1, <2>3
<1>10. CASE HoldCurrent(w) \/ PreparePose(w) \/ StopPose(w)
  <2>1. /\ UNCHANGED <<timedOut, active>> /\ \E h, o : Write(h, "held", o)
    BY <1>10 DEF HoldCurrent, PreparePose, StopPose, ddsVars, watchdogVars
  <2>2. QED
    BY <1>5, <2>1
<1>11. CASE HoldLock(w)
  BY <1>4, <1>11 DEF HoldLock, handVars
<1>12. CASE RearmPose(w)
  BY <1>3, <1>12 DEF RearmPose, ddsVars, handVars
<1>13. CASE ReleasePose(w)
  <2>1. /\ pc[w] = "release" /\ UNCHANGED timedOut
        /\ Disarm(poseHands) /\ Abandon(poseHands)
    BY <1>13 DEF ReleasePose, ddsVars
  <2>2. CASE g \in poseHands
    BY <2>1, <2>2, AbandonHands DEF Placed, Undriven, HeldOrAbandoned
  <2>3. CASE g \notin poseHands
    <3>1. active'[g] = active[g] /\ motion'[g] = motion[g]
      BY <1>2, <2>1, <2>3, AbandonHands DEF Disarm
    <3>2. QED
      BY <1>1, <2>1, <3>1, StaysCovered DEF Covered, HeldOrAbandoned
  <2>4. QED
    BY <2>2, <2>3
<1>14. CASE FinishClear(w) \/ WaitForPoseDelay(w)
  BY <1>6, <1>14 DEF FinishClear, WaitForPoseDelay, ddsVars, watchdogVars,
                     handVars
<1>15. CASE CancelRpcWatchdog(w)
  BY <1>15 DEF CancelRpcWatchdog, Placed
<1>16. QED
  BY <1>7, <1>8, <1>9, <1>10, <1>11, <1>12, <1>13, <1>14, <1>15 DEF Serve

\* MotionInv holds when no target write is refused, no hold fails before the
\* hand has seen it, and writes follow their decisions at once.
THEOREM MotionInvariant ==
  ASSUME Prompt, Faults = {}, "rejected" \notin HoldFaults
  PROVE  Spec => []MotionInv
<1>1. Init => MotionInv
  BY DEF Init, MotionInv, PlacedInv, Placed, LoopInv, MotionCovered, HeldOrAbandoned,
         PosePoints
<1>2. TypeOK /\ ControlExclusion /\ OwnedInv /\ MotionInv /\ [Next]_vars
        => MotionInv'
  <2> SUFFICES ASSUME TypeOK, ControlExclusion, OwnedInv, MotionInv,
                      [Next]_vars
               PROVE  MotionInv'
    OBVIOUS
  <2>1. /\ PlacedInv /\ LoopInv /\ MotionCovered
        /\ \A w \in Workers : Owned(w) /\ Placed(w)
    BY DEF MotionInv, PlacedInv, OwnedInv
  <2>2. LoopInv'
    BY <2>1, LoopInvStep
  <2>3. PlacedInv'
    <3> SUFFICES ASSUME NEW w \in Workers PROVE Placed(w)'
      BY DEF PlacedInv
    <3>1. CASE Arrive(w) \/ Serve(w)
      BY <2>1, <3>1, ArrivePlaced, ServePlaced
    <3>2. CASE ~Arrive(w) /\ ~Serve(w)
      BY <2>1, <3>2, OthersPlaced DEF Next
    <3>3. QED
      BY <3>1, <3>2
  <2>4. MotionCovered'
    <3>1. CASE OnDdsCommand
      BY <3>1 DEF OnDdsCommand, MotionCovered, Covered
    <3>2. CASE HandleSignal \/ Tick \/ Exited \/ UNCHANGED vars
      <4>1. UNCHANGED <<motion, active, received, timedOut, at, todo>>
        BY <3>2 DEF HandleSignal, Tick, Exited, vars, ddsVars, watchdogVars,
                    loopVars, handVars
      <4>2. QED
        BY <2>1, <4>1 DEF MotionCovered, Covered
    <3>3. CASE MainLoop
      BY <2>1, <3>3, MainLoopCovered
    <3>4. CASE \E w \in Workers : Arrive(w) \/ Serve(w)
      BY <2>1, <3>4, RpcCovered
    <3>5. QED
      BY <3>1, <3>2, <3>3, <3>4 DEF Next
  <2>5. QED
    BY <2>2, <2>3, <2>4 DEF MotionInv
<1>3. QED
  BY <1>1, <1>2, TypeCorrect, ControlExclusive, OwnedInvariant, PTL DEF Spec

\* MotionCovered: under the same conditions someone is bound to stop every
\* hand that moves and is not abandoned, those on a stale command included.
THEOREM MotionAlwaysCovered ==
  ASSUME Prompt, Faults = {}, "rejected" \notin HoldFaults
  PROVE  Spec => []MotionCovered
<1>1. MotionInv => MotionCovered
  BY DEF MotionInv
<1>2. QED
  BY <1>1, MotionInvariant, PTL

-----------------------------------------------------------------------------
(***************************************************************************)
(* Contact is not monitored on a driven hand.                              *)
(***************************************************************************)

\* A step that writes a target starts the samples again.
LEMMA QuietStep ==
  ASSUME TypeOK, TypeOK', QuietInv,
         UNCHANGED <<at, todo, idle>> \/ at' # "force",
         \/ UNCHANGED <<motion, samples>>
         \/ UNCHANGED samples /\ \E H : Abandon(H)
         \/ \E h, source, o : (o = "ok" \/ source = "held") /\ Write(h, source, o)
  PROVE  QuietInv'
<1>1. motion \in [Hands -> Motions] /\ samples \in [Hands -> 0 .. 3]
  BY DEF TypeOK, HandTypeOK
<1>2. ASSUME NEW g \in Hands
      PROVE  /\ samples'[g] = 0 \/ samples'[g] = samples[g]
             /\ HeldOrAbandoned(g) => HeldOrAbandoned(g)' \/ samples'[g] = 0
  <2>1. CASE UNCHANGED <<motion, samples>>
    BY <2>1 DEF HeldOrAbandoned
  <2>2. ASSUME NEW h, NEW source, NEW o, o = "ok" \/ source = "held",
               Write(h, source, o)
        PROVE  /\ samples'[g] = 0 \/ samples'[g] = samples[g]
               /\ HeldOrAbandoned(g) => HeldOrAbandoned(g)' \/ samples'[g] = 0
    <3>1. samples' = samples \/ samples' = [samples EXCEPT ![h] = 0]
      BY <2>2 DEF Write
    <3>2. motion' = motion \/ motion' = [motion EXCEPT ![h] = source]
      BY <2>2 DEF Write
    <3>3. o = "ok" => samples' = [samples EXCEPT ![h] = 0]
      BY <2>2 DEF Write
    <3>4. samples'[g] = 0 \/ samples'[g] = samples[g]
      BY <1>1, <3>1
    <3>5. CASE g = h /\ o = "ok"
      BY <1>1, <3>3, <3>5
    <3>6. CASE g # h \/ source = "held"
      <4>1. HeldOrAbandoned(g) => HeldOrAbandoned(g)'
        BY <1>1, <3>2, <3>6 DEF HeldOrAbandoned
      <4>2. QED
        BY <3>4, <4>1
    <3>7. QED
      BY <2>2, <3>5, <3>6
  <2>3. CASE UNCHANGED samples /\ \E H : Abandon(H)
    BY <2>3, AbandonHands DEF HeldOrAbandoned
  <2>4. QED
    BY <2>1, <2>2, <2>3
<1>3. \A g \in Hands : samples[g] = 3 => HeldOrAbandoned(g)
  BY <1>1 DEF QuietInv, ContactQuiet, HeldOrAbandoned, Motions
<1>4. \A g \in Hands : samples'[g] = 3 => HeldOrAbandoned(g)'
  BY <1>2, <1>3
<1>5. ContactQuiet'
  BY <1>4 DEF ContactQuiet, HeldOrAbandoned, TypeOK, HandTypeOK, Motions
<1>6. CASE at' # "force"
  BY <1>5, <1>6 DEF QuietInv
<1>7. CASE UNCHANGED <<at, todo, idle>>
  BY <1>2, <1>5, <1>7 DEF QuietInv
<1>8. QED
  BY <1>6, <1>7

\* A hand is read as idle only when nobody drives it: MotionCovered says so.
LEMMA RefreshQuiet ==
  ASSUME TypeOK, TypeOK', QuietInv, MotionCovered, Refresh
  PROVE  QuietInv'
<1>1. UNCHANGED <<motion, samples>> /\ at = "refresh"
  BY DEF Refresh, handVars
<1>2. CASE at' = "force" /\ idle' = HandIdle(First(todo)) /\ UNCHANGED todo
  <2>1. ASSUME idle', NEW h \in Hands, h = First(todo)
        PROVE  HeldOrAbandoned(h)
    <3>1. ~Covered(h)
      BY <1>1, <1>2, <2>1 DEF HandIdle, Covered
    <3>2. QED
      BY <3>1 DEF MotionCovered, HeldOrAbandoned
  <2>2. QED
    BY <1>1, <1>2, <2>1 DEF QuietInv, ContactQuiet, HeldOrAbandoned
<1>3. CASE Advance("refresh", "apply")
  BY <1>1, <1>3, QuietStep DEF Advance
<1>4. QED
  BY <1>2, <1>3 DEF Refresh

LEMMA ForceQuiet ==
  ASSUME TypeOK, TypeOK', QuietInv, RefreshForce
  PROVE  QuietInv'
<1> DEFINE h == First(todo)
<1>1. /\ at = "force" /\ at' # "force" /\ UNCHANGED motion
      /\ \E o : samples' = [samples EXCEPT ![h] =
                              IF o = "ok" /\ idle THEN NextSample(samples[h])
                              ELSE 0]
  BY DEF RefreshForce, Advance
<1>2. \A g \in Hands : g # h => samples'[g] = samples[g]
  BY <1>1 DEF TypeOK, HandTypeOK
<1>3. samples'[h] = 3 /\ h \in Hands => idle /\ samples[h] \in {2, 3}
  BY <1>1 DEF NextSample, TypeOK, HandTypeOK
<1>4. ASSUME NEW g \in Hands, samples'[g] = 3
      PROVE  motion'[g] \in {"held", "abandoned"}
  <2>1. CASE g # h
    BY <1>1, <1>2, <1>4, <2>1 DEF QuietInv, ContactQuiet
  <2>2. CASE g = h
    <3>1. HeldOrAbandoned(g)
      BY <1>1, <1>3, <1>4, <2>2 DEF QuietInv
    <3>2. QED
      BY <1>1, <3>1 DEF HeldOrAbandoned, TypeOK, HandTypeOK, Motions
  <2>3. QED
    BY <2>1, <2>2
<1>5. QED
  BY <1>1, <1>4 DEF QuietInv, ContactQuiet

\* ContactQuiet: under the same conditions contact is reported only for a hand
\* at rest or abandoned.  Nothing is claimed of an abandoned hand: it follows a
\* DDS command that came too late, and the service takes it for idle.
THEOREM ContactStaysQuiet ==
  ASSUME Prompt, Faults = {}, "rejected" \notin HoldFaults
  PROVE  Spec => []ContactQuiet
<1>1. Init => QuietInv
  BY DEF Init, QuietInv, ContactQuiet
<1>2. TypeOK /\ TypeOK' /\ MotionCovered /\ QuietInv /\ [Next]_vars
        => QuietInv'
  <2> SUFFICES ASSUME TypeOK, TypeOK', MotionCovered, QuietInv, [Next]_vars
               PROVE  QuietInv'
    OBVIOUS
  <2>1. \A o \in Outcomes : o = "ok"
    BY DEF Outcomes
  <2>2. CASE OnDdsCommand \/ HandleSignal \/ Tick \/ Exited \/ UNCHANGED vars
    <3>1. UNCHANGED <<at, todo, idle, motion, samples>>
      BY <2>2 DEF OnDdsCommand, HandleSignal, Tick, Exited, vars, loopVars,
                  handVars
    <3>2. QED
      BY <3>1, QuietStep
  <2>3. CASE MainLoop
    <3>1. CASE Refresh
      BY <3>1, RefreshQuiet
    <3>2. CASE RefreshForce
      BY <3>2, ForceQuiet
    <3>3. CASE ~Refresh /\ ~RefreshForce
      <4>1. at' # "force"
        BY <2>3, <3>3 DEF MainLoop, ApplyDdsCommands, DdsCheck, DdsWrite,
             ApplyWatchdogs, WatchdogHold, BeginShutdown, ShutdownHold,
             Leave, Advance
      <4>2. \/ UNCHANGED <<motion, samples>>
            \/ \E h, source, o : (o = "ok" \/ source = "held")
                                 /\ Write(h, source, o)
        <5>1. CASE DdsWrite
          BY <2>1, <5>1 DEF DdsWrite
        <5>2. CASE WatchdogHold \/ ShutdownHold
          BY <5>2 DEF WatchdogHold, ShutdownHold
        <5>3. CASE ~DdsWrite /\ ~WatchdogHold /\ ~ShutdownHold
          BY <2>3, <3>3, <5>3 DEF MainLoop, ApplyDdsCommands, DdsCheck,
               ApplyWatchdogs, BeginShutdown, Leave, handVars
        <5>4. QED
          BY <5>1, <5>2, <5>3
      <4>3. QED
        BY <4>1, <4>2, QuietStep
    <3>4. QED
      BY <3>1, <3>2, <3>3
  <2>4. ASSUME NEW w \in Workers, Arrive(w) \/ Serve(w)
        PROVE  QuietInv'
    <3>1. UNCHANGED <<at, todo, idle>>
      BY <2>4, RpcLeavesLoop
    <3>2. \/ UNCHANGED <<motion, samples>>
          \/ UNCHANGED samples /\ \E H : Abandon(H)
          \/ \E h, source, o : (o = "ok" \/ source = "held")
                               /\ Write(h, source, o)
      <4>1. CASE Arrive(w)
        BY <4>1 DEF Arrive, SetTargets, ApplyGrip, TakeHand, ClearFault,
                    HoldRequest, ExecutePose, handVars
      <4>2. CASE WriteTargets(w)
        BY <2>1, <4>2 DEF WriteTargets
      <4>3. CASE WriteGroup(w)
        BY <2>1, <4>3 DEF WriteGroup
      <4>4. CASE HoldCurrent(w) \/ PreparePose(w) \/ StopPose(w)
        BY <4>4 DEF HoldCurrent, PreparePose, StopPose
      <4>5. CASE \/ CancelRpcWatchdog(w) \/ FinishClear(w) \/ HoldLock(w)
                 \/ WaitForPoseDelay(w) \/ RearmPose(w) \/ ReleasePose(w)
        BY <4>5 DEF CancelRpcWatchdog, FinishClear, HoldLock,
                    WaitForPoseDelay, RearmPose, ReleasePose, handVars
      <4>6. QED
        BY <2>4, <4>1, <4>2, <4>3, <4>4, <4>5 DEF Serve
    <3>3. QED
      BY <3>1, <3>2, QuietStep
  <2>5. QED
    BY <2>2, <2>3, <2>4 DEF Next
<1>3. QuietInv => ContactQuiet
  BY DEF QuietInv
<1>4. QED
  BY <1>1, <1>2, <1>3, TypeCorrect, MotionAlwaysCovered, PTL DEF Spec

=============================================================================
