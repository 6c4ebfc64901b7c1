---------------------------- MODULE HandService ----------------------------
(***************************************************************************)
(* Who drives a hand, and who stops it: the arbitration in HandRuntime     *)
(* (src/src/hand_service.cpp).  Three kinds of thread share the hands.     *)
(*                                                                         *)
(*   - the DDS subscriber thread stores the latest command (OnDdsCommand); *)
(*   - the main loop writes that command to the hands, expires the         *)
(*     watchdogs, and refreshes telemetry (Step);                          *)
(*   - the RPC threads run SetTargets, ApplyGrip, ClearFault, Hold and     *)
(*     ExecutePose, one at a time under control_mutex_.                    *)
(*                                                                         *)
(* A step is one critical section of command_mutex_, or one controller     *)
(* call (each runs under the controller's own mutex).  Taking              *)
(* control_mutex_ is part of the first such step after it and releasing it *)
(* part of the last one before it: a refused try_lock changes nothing, so  *)
(* no thread can tell the difference.  A request refused before it reaches *)
(* shared state (unknown hand, argument check, BUSY) is a stutter.         *)
(***************************************************************************)
EXTENDS Integers, FiniteSets

CONSTANTS
  Hands,        \* the enabled hands (--hand): a subset of {"right", "left"}
  Workers,      \* RPC threads
  NoWorker,     \* "control_mutex_ is free"
  DdsTimeout,   \* kDefaultCommandTimeoutMs, in clock units
  Maintenance,  \* the 500 ms window of BeginMaintenance
  PoseMargin,   \* the 500 ms that ExecutePose adds to its watchdog
  RpcTimeouts,  \* values a client may pass as timeout_ms
  MaxDelay,     \* largest start delay of a pose
  Calls,        \* what this instance's clients do, out of CallKinds
  Faults,       \* how a target write may fail: "rejected", "lostAck"
  HoldFaults,   \* how HoldCurrent and telemetry may fail, of the same two
  Prompt        \* TRUE: no clock unit passes between a decision and its write

ASSUME HandsAssumption == Hands # {} /\ Hands \subseteq {"right", "left"}
ASSUME WorkersAssumption == NoWorker \notin Workers
CallKinds == {"SetTargets", "ApplyGrip", "ClearFault", "Hold", "ExecutePose",
              "dds", "signal"}
ASSUME CallsAssumption == Calls \subseteq CallKinds
ASSUME TimingAssumption ==
  /\ DdsTimeout \in Nat \ {0}
  /\ Maintenance \in Nat /\ Maintenance > DdsTimeout
  /\ PoseMargin \in Nat \ {0}
  /\ RpcTimeouts \subseteq Nat \ {0}
  /\ MaxDelay \in Nat
ASSUME FaultsAssumption ==
  Faults \cup HoldFaults \subseteq {"rejected", "lostAck"}
ASSUME PromptAssumption == Prompt \in BOOLEAN

VARIABLES
  received,  \* dds_.received
  age,       \* now - dds_.received_at, up to DdsTimeout + 1
  fresh,     \* dds_.sequence # dds_.applied_sequence
  timedOut,  \* dds_.timed_out
  active,    \* rpc_watchdogs_[h].active
  left,      \* clock units until rpc_watchdogs_[h].deadline; 0 when inactive
  control,   \* the RPC thread that holds control_mutex_
  cancel,    \* pose_cancel_requested_
  running,   \* cleared by SIGINT and SIGTERM
  at,        \* where the main loop is
  todo,      \* the hands this phase of the main loop has yet to handle
  idle,      \* the HandIdle result RefreshForce is about to be called with
  pc,        \* where each RPC thread is
  req,       \* its request
  poseHands,    \* the locals of ExecutePose: hands,
  poseTodo,     \* the hands its present loop has yet to handle,
  controlled,   \* controlled,
  delays,       \* the start delays in groups not written yet,
  elapsed,      \* and now - started, up to MaxDelay
  motion,    \* who wrote the target the hand is following; "held" at rest,
             \* "stale" for a DDS command written after an RPC took the hand,
             \* "abandoned" for one whose RPC has given the hand up
  samples,   \* contact_samples_; 3 means contact_monitoring
  late       \* history: DDS writes while RPC owns the hand, since it took it

ddsVars == <<received, age, fresh, timedOut>>
watchdogVars == <<active, left, late>>
loopVars == <<at, todo, idle>>
rpcVars == <<pc, req>>
poseVars == <<poseHands, poseTodo, controlled, delays, elapsed>>
handVars == <<motion, samples>>
vars == <<ddsVars, watchdogVars, control, cancel, running, loopVars, rpcVars,
          poseVars, handVars>>

Outcomes == {"ok"} \cup Faults
HoldOutcomes == {"ok"} \cup HoldFaults

NoRequest == [hand |-> "none", timeout |-> 0]
Requests == {NoRequest} \cup
            [hand : Hands \cup {"none"}, timeout : RpcTimeouts \cup {0}]

LoopPoints == {"apply", "ddsCheck", "ddsWrite", "watchdog", "hold", "refresh",
               "force", "shutdown", "leaving", "exited"}
RpcPoints == {"idle", "write", "cancel", "clear", "waiting", "hold",
              "prepare", "wait", "group", "rearm", "stop", "release"}

Motions == {"held", "dds", "stale", "abandoned", "rpc", "pose"}

DdsTypeOK ==
  /\ received \in BOOLEAN
  /\ age \in 0 .. DdsTimeout + 1
  /\ fresh \in BOOLEAN
  /\ timedOut \in [Hands -> BOOLEAN]
WatchdogTypeOK ==
  /\ active \in [Hands -> BOOLEAN]
  /\ left \in [Hands -> Nat]
  /\ late \in [Hands -> 0 .. 2]
FlagTypeOK ==
  /\ control \in Workers \cup {NoWorker}
  /\ cancel \in BOOLEAN
  /\ running \in BOOLEAN
LoopTypeOK ==
  /\ at \in LoopPoints
  /\ todo \in SUBSET Hands
  /\ idle \in BOOLEAN
RpcTypeOK ==
  /\ pc \in [Workers -> RpcPoints]
  /\ req \in [Workers -> Requests]
PoseTypeOK ==
  /\ poseHands \in SUBSET Hands
  /\ poseTodo \in SUBSET {"right", "left"}
  /\ controlled \in SUBSET {"right", "left"}
  /\ delays \in SUBSET (0 .. MaxDelay)
  /\ elapsed \in 0 .. MaxDelay
HandTypeOK ==
  /\ motion \in [Hands -> Motions]
  /\ samples \in [Hands -> 0 .. 3]

\* Every variable keeps its type.
TypeOK ==
  /\ DdsTypeOK /\ WatchdogTypeOK /\ FlagTypeOK /\ LoopTypeOK
  /\ RpcTypeOK /\ PoseTypeOK /\ HandTypeOK

Init ==
  /\ received = FALSE /\ age = 0 /\ fresh = FALSE
  /\ timedOut = [h \in Hands |-> FALSE]
  /\ active = [h \in Hands |-> FALSE]
  /\ left = [h \in Hands |-> 0]
  /\ late = [h \in Hands |-> 0]
  /\ control = NoWorker /\ cancel = FALSE /\ running = TRUE
  /\ at = "apply" /\ todo = {} /\ idle = FALSE
  /\ pc = [w \in Workers |-> "idle"]
  /\ req = [w \in Workers |-> NoRequest]
  /\ poseHands = {} /\ poseTodo = {} /\ controlled = {}
  /\ delays = {} /\ elapsed = 0
  /\ motion = [h \in Hands |-> "held"]
  /\ samples = [h \in Hands |-> 0]

-----------------------------------------------------------------------------
(***************************************************************************)
(* Shared predicates and effects.                                          *)
(***************************************************************************)

\* Every loop over the hands takes right before left.
First(S) == IF "right" \in S THEN "right" ELSE "left"

RpcActive(h) == active[h] /\ left[h] > 0

\* A DDS stream younger than the timeout refuses RPC control of the hand.
DdsOwns(h) == received /\ age <= DdsTimeout /\ ~timedOut[h]

HandIdleDdsOnly(h) == ~received \/ timedOut[h]
HandIdle(h) == (~received \/ timedOut[h]) /\ ~active[h]

\* Watchdogs of the hands H armed for t units.  The late count starts again
\* for a hand that RPC did not own until now.
Arm(H, t) ==
  /\ active' = [h \in Hands |-> h \in H \/ active[h]]
  /\ left' = [h \in Hands |-> IF h \in H THEN t ELSE left[h]]
  /\ late' = [h \in Hands |->
                IF h \in H /\ ~RpcActive(h) THEN 0 ELSE late[h]]

\* An inactive watchdog's deadline is never read.
Disarm(H) ==
  /\ active' = [h \in Hands |-> active[h] /\ h \notin H]
  /\ left' = [h \in Hands |-> IF h \in H THEN 0 ELSE left[h]]
  /\ late' = [h \in Hands |-> IF h \in H THEN 0 ELSE late[h]]

\* The DDS stream loses the hand until its next command, and RPC owns it for
\* the maintenance window.
BeginMaintenance(h) ==
  /\ timedOut' = [timedOut EXCEPT ![h] = TRUE]
  /\ Arm({h}, Maintenance)
  /\ UNCHANGED <<received, age, fresh>>

\* A controller call that writes a target.  "rejected": it failed before the
\* hand saw it (range, fault, telemetry or serial error).  "lostAck": the hand
\* took it and the acknowledgement was lost.  Only success resets contact.
Write(h, source, outcome) ==
  /\ motion' = IF outcome = "rejected" THEN motion
               ELSE [motion EXCEPT ![h] = source]
  /\ samples' = IF outcome = "ok" THEN [samples EXCEPT ![h] = 0] ELSE samples

\* A request gives up the hands H: one that follows a stale DDS command is left
\* to it.
Abandon(H) ==
  motion' = [h \in Hands |-> IF h \in H /\ motion[h] = "stale"
                             THEN "abandoned" ELSE motion[h]]

Alive == at # "exited"

-----------------------------------------------------------------------------
(***************************************************************************)
(* The DDS subscriber thread, the clock and the signal handler.            *)
(***************************************************************************)

OnDdsCommand ==
  /\ Alive
  /\ received' = TRUE /\ age' = 0 /\ fresh' = TRUE
  /\ timedOut' = [h \in Hands |-> FALSE]
  /\ UNCHANGED <<watchdogVars, control, cancel, running, loopVars, rpcVars,
                 poseVars, handVars>>

\* Every RPC thread is parked: idle, blocked on control_mutex_, in the 150 ms
\* sleep of ClearFault, or waiting for a pose delay that has not come.
Parked(w) ==
  \/ pc[w] \in {"idle", "clear", "waiting"}
  \/ /\ pc[w] = "wait" /\ ~cancel /\ running
     /\ \A d \in delays : elapsed < d

Tick ==
  /\ Alive
  /\ Prompt => at = "apply" /\ \A w \in Workers : Parked(w)
  /\ age' = IF received /\ age <= DdsTimeout THEN age + 1 ELSE age
  /\ left' = [h \in Hands |-> IF left[h] > 0 THEN left[h] - 1 ELSE 0]
  /\ elapsed' = IF poseHands # {} /\ elapsed < MaxDelay
                THEN elapsed + 1 ELSE elapsed
  /\ UNCHANGED <<received, fresh, timedOut, active, late, control, cancel,
                 running, loopVars, rpcVars, poseHands, poseTodo, controlled,
                 delays, handVars>>

HandleSignal ==
  /\ Alive /\ running
  /\ running' = FALSE
  /\ UNCHANGED <<ddsVars, watchdogVars, control, cancel, loopVars, rpcVars,
                 poseVars, handVars>>

-----------------------------------------------------------------------------
(***************************************************************************)
(* The main loop.  The test of running and ApplyDdsCommands' section are   *)
(* one step.                                                               *)
(***************************************************************************)

\* On to the next hand of this phase, or to the next phase.
Advance(phase, next) ==
  LET rest == todo \ {First(todo)} IN
  /\ todo' = IF rest = {} /\ next \in {"refresh"} THEN Hands ELSE rest
  /\ at' = IF rest = {} THEN next ELSE phase

ApplyDdsCommands ==
  /\ at = "apply" /\ running
  /\ fresh' = FALSE
  /\ IF fresh /\ age <= DdsTimeout
       THEN at' = "ddsCheck" /\ todo' = Hands
       ELSE at' = "watchdog" /\ todo' = {}
  /\ UNCHANGED <<received, age, timedOut, watchdogVars, control, cancel,
                 running, idle, rpcVars, poseVars, handVars>>

DdsCheckSkipped ==
  /\ at = "ddsCheck"
  /\ at' = "ddsWrite"
  /\ UNCHANGED <<ddsVars, watchdogVars, control, cancel, running, todo, idle,
                 rpcVars, poseVars, handVars>>

\* The ownership test, in its own critical section: the lock is free again
\* when the write starts.
DdsCheck ==
  /\ at = "ddsCheck"
  /\ IF RpcActive(First(todo))
       THEN Advance("ddsCheck", "watchdog")
       ELSE at' = "ddsWrite" /\ UNCHANGED todo
  /\ UNCHANGED <<ddsVars, watchdogVars, control, cancel, running, idle,
                 rpcVars, poseVars, handVars>>

\* Between the test and the write an RPC may take the hand, or take it and
\* give it up, which leaves no watchdog armed.
TakenFromDds(h) == RpcActive(h) \/ timedOut[h]
DdsMotion(h) ==
  CASE ~TakenFromDds(h) -> "dds"
    [] TakenFromDds(h) /\ active[h] -> "stale"
    [] OTHER -> "abandoned"

DdsWrite ==
  LET h == First(todo) IN
  /\ at = "ddsWrite"
  /\ \E o \in Outcomes :
       /\ Write(h, DdsMotion(h), o)
       /\ late' = IF RpcActive(h) /\ o # "rejected" /\ late[h] < 2
                  THEN [late EXCEPT ![h] = @ + 1] ELSE late
  /\ Advance("ddsCheck", "watchdog")
  /\ UNCHANGED <<ddsVars, active, left, control, cancel, running, idle,
                 rpcVars, poseVars>>

Lost(h) == received /\ age > DdsTimeout /\ ~timedOut[h]
Due(h) == active[h] /\ left[h] = 0
HandsToHoldDdsOnly == {h \in Hands : Lost(h)}
HandsToHoldRpcOnly == {h \in Hands : Due(h)}
HandsToHold == {h \in Hands : Lost(h) \/ Due(h)}

\* Which hands to stop is decided, and forgotten by the watchdogs, in one
\* critical section; the holds follow outside it and are not retried.
ApplyWatchdogs ==
  /\ at = "watchdog"
  /\ timedOut' = [h \in Hands |-> timedOut[h] \/ Lost(h)]
  /\ Disarm({h \in Hands : Due(h)})
  /\ at' = IF HandsToHold = {} THEN "refresh" ELSE "hold"
  /\ todo' = IF HandsToHold = {} THEN Hands ELSE HandsToHold
  /\ UNCHANGED <<received, age, fresh, control, cancel, running, idle,
                 rpcVars, poseVars, handVars>>

WatchdogHold ==
  /\ at = "hold"
  /\ \E o \in HoldOutcomes : Write(First(todo), "held", o)
  /\ Advance("hold", "refresh")
  /\ UNCHANGED <<ddsVars, watchdogVars, control, cancel, running, idle,
                 rpcVars, poseVars>>

\* RefreshState or RefreshPosition; on every fifth iteration also HandIdle,
\* whose answer RefreshForce gets.  PublishState and the sleep follow the
\* last hand.
Refresh ==
  /\ at = "refresh"
  /\ \/ at' = "force" /\ idle' = HandIdle(First(todo)) /\ UNCHANGED todo
     \/ Advance("refresh", "apply") /\ UNCHANGED idle
  /\ UNCHANGED <<ddsVars, watchdogVars, control, cancel, running, rpcVars,
                 poseVars, handVars>>

NextSampleUnbounded(n) == n + 1
NextSample(n) == IF n < 3 THEN n + 1 ELSE n

\* Contact is monitored from the third sample taken while the hand is idle.
\* The threshold is at least 1 (ValidSettings).
RefreshForce ==
  LET h == First(todo) IN
  /\ at = "force"
  /\ \E o \in HoldOutcomes \ {"lostAck"} :
       samples' = [samples EXCEPT ![h] =
                     IF o = "ok" /\ idle THEN NextSample(@) ELSE 0]
  /\ idle' = FALSE
  /\ Advance("refresh", "apply")
  /\ UNCHANGED <<ddsVars, watchdogVars, control, cancel, running, rpcVars,
                 poseVars, motion>>

BeginShutdownWhenFree ==
  /\ at = "apply" /\ ~running /\ control = NoWorker
  /\ at' = "shutdown" /\ todo' = Hands
  /\ UNCHANGED <<ddsVars, watchdogVars, control, cancel, running, idle,
                 rpcVars, poseVars, handVars>>

BeginShutdown ==
  /\ at = "apply" /\ ~running
  /\ at' = "shutdown" /\ todo' = Hands
  /\ UNCHANGED <<ddsVars, watchdogVars, control, cancel, running, idle,
                 rpcVars, poseVars, handVars>>

ShutdownHoldSkipped ==
  /\ at = "shutdown"
  /\ Advance("shutdown", "leaving")
  /\ UNCHANGED <<ddsVars, watchdogVars, control, cancel, running, idle,
                 rpcVars, poseVars, handVars>>

\* HoldEnabled.  The RPC threads are still serving requests.
ShutdownHold ==
  /\ at = "shutdown"
  /\ \E o \in HoldOutcomes : Write(First(todo), "held", o)
  /\ Advance("shutdown", "leaving")
  /\ UNCHANGED <<ddsVars, watchdogVars, control, cancel, running, idle,
                 rpcVars, poseVars>>

\* main returns and the RPC server is destroyed.
Leave ==
  /\ at = "leaving"
  /\ at' = "exited"
  /\ UNCHANGED <<ddsVars, watchdogVars, control, cancel, running, todo, idle,
                 rpcVars, poseVars, handVars>>

\* Nothing runs any more.
Exited == at = "exited" /\ UNCHANGED vars

MainLoop ==
  \/ ApplyDdsCommands \/ DdsCheck \/ DdsWrite
  \/ ApplyWatchdogs \/ WatchdogHold
  \/ Refresh \/ RefreshForce
  \/ BeginShutdown \/ ShutdownHold \/ Leave

-----------------------------------------------------------------------------
(***************************************************************************)
(* The RPC threads: SetTargets, ApplyGrip, ClearFault and Hold.            *)
(***************************************************************************)

Goto(w, point) == pc' = [pc EXCEPT ![w] = point]

\* The handler returns and, where it holds it, releases control_mutex_.
Reply(w) ==
  /\ Goto(w, "idle")
  /\ req' = [req EXCEPT ![w] = NoRequest]
  /\ control' = NoWorker

\* try_lock succeeds and the DDS stream does not own the hand.
TakeHand(w, h, t) ==
  /\ Alive /\ pc[w] = "idle" /\ control = NoWorker
  /\ ~DdsOwns(h)
  /\ Arm({h}, t)
  /\ control' = w
  /\ Goto(w, "write")
  /\ req' = [req EXCEPT ![w] = [hand |-> h, timeout |-> t]]
  /\ UNCHANGED <<ddsVars, cancel, running, loopVars, poseVars, handVars>>

SetTargets(w, h, t) == TakeHand(w, h, t)

ApplyGrip(w, h, t) == TakeHand(w, h, t)

\* The controller call.  A failure is followed by CancelRpcWatchdog.
WriteTargets(w) ==
  /\ Alive /\ pc[w] = "write"
  /\ \E o \in Outcomes :
       /\ Write(req[w].hand, "rpc", o)
       /\ IF o = "ok" THEN Reply(w)
                      ELSE Goto(w, "cancel") /\ UNCHANGED <<req, control>>
  /\ UNCHANGED <<ddsVars, watchdogVars, cancel, running, loopVars, poseVars>>

CancelRpcWatchdog(w) ==
  /\ Alive /\ pc[w] = "cancel"
  /\ Disarm({req[w].hand}) /\ Abandon({req[w].hand})
  /\ Reply(w)
  /\ UNCHANGED <<ddsVars, cancel, running, loopVars, poseVars, samples>>

ClearFault(w, h) ==
  /\ Alive /\ pc[w] = "idle" /\ control = NoWorker
  /\ BeginMaintenance(h)
  /\ control' = w
  /\ Goto(w, "clear")
  /\ req' = [req EXCEPT ![w] = [hand |-> h, timeout |-> 0]]
  /\ UNCHANGED <<cancel, running, loopVars, poseVars, handVars>>

\* HandController::ClearFault stops the faulted joints only; the others go on
\* following the target they have.
FinishClear(w) ==
  /\ Alive /\ pc[w] = "clear"
  /\ Reply(w)
  /\ UNCHANGED <<ddsVars, watchdogVars, cancel, running, loopVars, poseVars,
                 handVars>>

\* Hold raises the flag before it queues for control_mutex_.
HoldRequest(w, h) ==
  /\ Alive /\ pc[w] = "idle"
  /\ cancel' = TRUE
  /\ Goto(w, "waiting")
  /\ req' = [req EXCEPT ![w] = [hand |-> h, timeout |-> 0]]
  /\ UNCHANGED <<ddsVars, watchdogVars, control, running, loopVars, poseVars,
                 handVars>>

HoldLockUnguarded(w) ==
  /\ Alive /\ pc[w] = "waiting"
  /\ BeginMaintenance(req[w].hand)
  /\ control' = w
  /\ Goto(w, "hold")
  /\ UNCHANGED <<cancel, running, loopVars, req, poseVars, handVars>>

HoldLock(w) ==
  /\ Alive /\ pc[w] = "waiting" /\ control = NoWorker
  /\ BeginMaintenance(req[w].hand)
  /\ control' = w
  /\ Goto(w, "hold")
  /\ UNCHANGED <<cancel, running, loopVars, req, poseVars, handVars>>

HoldCurrent(w) ==
  /\ Alive /\ pc[w] = "hold"
  /\ \E o \in HoldOutcomes : Write(req[w].hand, "held", o)
  /\ Reply(w)
  /\ UNCHANGED <<ddsVars, watchdogVars, cancel, running, loopVars, poseVars>>

-----------------------------------------------------------------------------
(***************************************************************************)
(* ExecutePose, which keeps control_mutex_ from its first step to its      *)
(* reply.                                                                  *)
(***************************************************************************)

PoseWatchdogTimeoutOnly(last, t) == t
PoseWatchdog(last, t) == last + t + PoseMargin

\* pose_cancel_requested_ is cleared even when the DDS stream then refuses.
ExecutePose(w, H, D, t) ==
  /\ Alive /\ pc[w] = "idle" /\ control = NoWorker
  /\ cancel' = FALSE
  /\ IF \E h \in H : DdsOwns(h)
       THEN UNCHANGED <<watchdogVars, control, rpcVars, poseVars>>
       ELSE /\ \E last \in D :
                 /\ \A d \in D : d <= last
                 /\ Arm(H, PoseWatchdog(last, t))
            /\ control' = w
            /\ Goto(w, "prepare")
            /\ req' = [req EXCEPT ![w] = [hand |-> "none", timeout |-> t]]
            /\ poseHands' = H /\ poseTodo' = H /\ controlled' = {}
            /\ delays' = D /\ elapsed' = 0
  /\ UNCHANGED <<ddsVars, running, loopVars, handVars>>

\* stop() begins with the hands under control.
HandsToStopOthers == controlled \ {First(poseTodo)}
HandsToStop == controlled
BeginStop(w) ==
  /\ poseTodo' = HandsToStop
  /\ Goto(w, IF HandsToStop = {} THEN "release" ELSE "stop")

\* RefreshPosition and SetTargets(current): the hand is stopped where it is.
\* The clock of the delays starts when the last hand is prepared.
PreparePose(w) ==
  LET h == First(poseTodo) IN
  /\ Alive /\ pc[w] = "prepare"
  /\ \E o \in Outcomes :
       /\ Write(h, "held", o)
       /\ \/ /\ o = "ok"
             /\ poseTodo' = poseTodo \ {h}
             /\ controlled' = controlled \cup {h}
             /\ elapsed' = 0
             /\ Goto(w, IF poseTodo = {h} THEN "wait" ELSE "prepare")
          \/ o # "ok" /\ BeginStop(w) /\ UNCHANGED <<controlled, elapsed>>
  /\ UNCHANGED <<ddsVars, watchdogVars, control, cancel, running, loopVars,
                 req, poseHands, delays>>

\* WaitForPoseDelay for the next group of joints.
WaitForPoseDelay(w) ==
  /\ Alive /\ pc[w] = "wait"
  /\ \/ /\ running /\ ~cancel
        /\ \E d \in delays : d <= elapsed
        /\ Goto(w, "group")
        /\ poseTodo' = poseHands
     \/ /\ ~running \/ cancel
        /\ BeginStop(w)
  /\ UNCHANGED <<ddsVars, watchdogVars, control, cancel, running, loopVars,
                 req, poseHands, controlled, delays, elapsed, handVars>>

\* One hand of the group with the smallest delay left; after the last hand,
\* the next group.
WriteGroup(w) ==
  LET h == First(poseTodo)
      later == {d \in delays : \E e \in delays : e < d}
  IN
  /\ Alive /\ pc[w] = "group"
  /\ \E o \in Outcomes :
       /\ Write(h, "pose", o)
       /\ \/ /\ o = "ok" /\ poseTodo # {h}
             /\ poseTodo' = poseTodo \ {h}
             /\ UNCHANGED <<pc, delays>>
          \/ /\ o = "ok" /\ poseTodo = {h}
             /\ poseTodo' = {}
             /\ delays' = later
             /\ Goto(w, IF later = {} THEN "rearm" ELSE "wait")
          \/ o # "ok" /\ BeginStop(w) /\ UNCHANGED delays
  /\ UNCHANGED <<ddsVars, watchdogVars, control, cancel, running, loopVars,
                 req, poseHands, controlled, elapsed>>

\* ExecutePose returns.
ReplyPose(w) ==
  /\ Reply(w)
  /\ poseHands' = {} /\ poseTodo' = {} /\ controlled' = {}
  /\ delays' = {} /\ elapsed' = 0

\* ArmRpcWatchdogs: the client's timeout runs from the last group.
RearmPose(w) ==
  /\ Alive /\ pc[w] = "rearm"
  /\ Arm(poseHands, req[w].timeout)
  /\ ReplyPose(w)
  /\ UNCHANGED <<ddsVars, cancel, running, loopVars, handVars>>

\* stop() holds the hands under control, whatever each hold returns ...
StopPose(w) ==
  LET h == First(poseTodo) IN
  /\ Alive /\ pc[w] = "stop"
  /\ \E o \in HoldOutcomes : Write(h, "held", o)
  /\ poseTodo' = poseTodo \ {h}
  /\ Goto(w, IF poseTodo = {h} THEN "release" ELSE "stop")
  /\ UNCHANGED <<ddsVars, watchdogVars, control, cancel, running, loopVars,
                 req, poseHands, controlled, delays, elapsed>>

ReleasePoseLocked(w) ==
  /\ Alive /\ pc[w] = "release"
  /\ Disarm(poseHands) /\ Abandon(poseHands)
  /\ Goto(w, "idle")
  /\ UNCHANGED <<ddsVars, control, cancel, running, loopVars, req, poseVars,
                 samples>>

\* ... and cancels the watchdogs of all the hands the pose asked for.
ReleasePose(w) ==
  /\ Alive /\ pc[w] = "release"
  /\ Disarm(poseHands) /\ Abandon(poseHands)
  /\ ReplyPose(w)
  /\ UNCHANGED <<ddsVars, cancel, running, loopVars, samples>>

-----------------------------------------------------------------------------

PoseTargets == {{h} : h \in Hands} \cup {Hands}
PoseDelays == SUBSET (0 .. MaxDelay) \ {{}}

\* A client's request reaches an RPC thread.
Arrive(w) ==
  \/ /\ "SetTargets" \in Calls
     /\ \E h \in Hands, t \in RpcTimeouts : SetTargets(w, h, t)
  \/ /\ "ApplyGrip" \in Calls
     /\ \E h \in Hands, t \in RpcTimeouts : ApplyGrip(w, h, t)
  \/ "ClearFault" \in Calls /\ \E h \in Hands : ClearFault(w, h)
  \/ "Hold" \in Calls /\ \E h \in Hands : HoldRequest(w, h)
  \/ /\ "ExecutePose" \in Calls
     /\ \E H \in PoseTargets, D \in PoseDelays, t \in RpcTimeouts :
          ExecutePose(w, H, D, t)

\* An RPC thread goes on with the request it has.
Serve(w) ==
  \/ WriteTargets(w) \/ CancelRpcWatchdog(w)
  \/ FinishClear(w)
  \/ HoldLock(w) \/ HoldCurrent(w)
  \/ PreparePose(w) \/ WaitForPoseDelay(w) \/ WriteGroup(w) \/ RearmPose(w)
  \/ StopPose(w) \/ ReleasePose(w)

Next ==
  \/ "dds" \in Calls /\ OnDdsCommand
  \/ "signal" \in Calls /\ HandleSignal
  \/ Tick
  \/ MainLoop \/ Exited
  \/ \E w \in Workers : Arrive(w) \/ Serve(w)

Spec == Init /\ [][Next]_vars

\* The threads run and time passes.  Which of the threads blocked on
\* control_mutex_ gets it, and whether a try_lock comes first, is left open.
Fairness ==
  /\ WF_vars(MainLoop)
  /\ SF_vars(Tick)
  /\ \A w \in Workers : WF_vars(Serve(w))

FairSpec == Spec /\ Fairness

-----------------------------------------------------------------------------
(***************************************************************************)
(* Properties.                                                             *)
(***************************************************************************)

\* Only the RPC thread that holds control_mutex_ is between taking a hand and
\* replying, so the writes of two requests are never interleaved, a pose's
\* least of all (hand_service.cpp:152, 185, 207, 278, 372).
ControlExclusion ==
  \A w \in Workers : control = w <=> pc[w] \notin {"idle", "waiting"}

\* From the moment an RPC takes a hand, at most one DDS command still reaches
\* it while RPC owns it: the one whose ownership test (616) was already over.
\* True for any timing and any failure.
AtMostOneStaleDds ==
  \A h \in Hands : RpcActive(h) => late[h] <= 1

\* Someone is bound to stop a hand that moves: an armed watchdog, a DDS
\* stream the watchdog has not given up yet, or a hold already decided.  The
\* exception is a hand abandoned to a DDS command that was written after an RPC
\* had taken the hand, when that RPC has given it up.
Covered(h) ==
  \/ active[h]
  \/ received /\ ~timedOut[h]
  \/ at \in {"hold", "shutdown"} /\ h \in todo
MotionCovered ==
  \A h \in Hands : motion[h] \notin {"held", "abandoned"} => Covered(h)

\* The watchdog armed before the preparation outlasts the pose, so ApplyWatchdogs
\* never stops a hand in the middle of one (380, 406).
PoseNotCutShort ==
  \A w \in Workers : pc[w] \in {"prepare", "wait", "group", "rearm"} =>
    \A h \in poseHands : RpcActive(h)

\* When a pose gives up, no hand it controls is still on its way to a group's
\* target (385-390).
FailedPoseStops ==
  \A w \in Workers : pc[w] = "release" =>
    \A h \in controlled : motion[h] # "pose"

\* Contact is reported only for a hand at rest or abandoned (see MotionCovered),
\* although HandIdle is read before RefreshForce takes the controller's lock
\* (678-680).  An abandoned hand moves, and to the service it is idle.
ContactQuiet ==
  \A h \in Hands : samples[h] = 3 => motion[h] \in {"held", "abandoned"}

\* The service never exits with a hand following the DDS stream.
ExitStopsDds ==
  at = "exited" =>
    \A h \in Hands : motion[h] \notin {"dds", "stale", "abandoned"}

\* When no command and no request comes any more, every hand comes to rest,
\* but for those abandoned (see MotionCovered), which nobody stops.
Settles ==
  <>[][~(OnDdsCommand \/ \E w \in Workers : Arrive(w))]_vars
    => <>[](~Alive \/ \A h \in Hands : motion[h] \in {"held", "abandoned"})

\* When no request comes any more, each one there is gets its answer, a pose
\* with its delays and every Hold queued behind it (278).  As long as others
\* keep coming, their try_lock may overtake a Hold.
RequestsEnd ==
  <>[][~\E w \in Workers : Arrive(w)]_vars
    => <>[](~Alive \/ \A w \in Workers : pc[w] = "idle")

\* SIGINT or SIGTERM ends the service, whatever the RPC threads are doing.
SignalExits == ~running ~> ~Alive

\* hand_service_api.md:245 and 364: Hold cancels the commands not carried out
\* yet, and ClearFault keeps DDS commands from overriding the recovery.
NoStaleDds == \A h \in Hands : motion[h] \notin {"stale", "abandoned"}

\* hand_service_api.md:439: Hold interrupts a pose that waits for a start delay.
\* A pose that waits, while a Hold waits for it, has been told to stop.
HoldInterruptsPose ==
  \A w, v \in Workers : pc[w] = "wait" /\ pc[v] = "waiting" => cancel

\* README.md:196, hand_service_api.md:49: on exit the enabled hands are held.
ExitHoldsHands ==
  at = "exited" => \A h \in Hands : motion[h] = "held"
=============================================================================
