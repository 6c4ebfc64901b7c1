# A verification project for g1-rh56dfx-control

The repository drives two Inspire RH56DFX hands of a Unitree G1 robot. One
process, `hand_service`, owns both serial ports; DDS publishers and RPC clients
(a web server, a compliant-teaching program, command-line tools) ask it to move
the hands. What can go wrong is what goes wrong between them: two sources that
drive one hand, a hand that keeps moving when its source has gone away, a hold
that does not hold, a change of the pose library that is answered with "ok" and
lost. This directory models that in TLA+, checks it with TLC and proves its
safety with TLAPS.

Paths are relative to the repository (`src/src/hand_service.cpp` in
`PROJECT.json` is `src/hand_service.cpp` here); numbers in brackets are lines.

## 1. Inventory

| Component | State | Operations | Where |
|---|---|---|---|
| Arbitration (`HandRuntime`) | the latest DDS command and its age, per hand `timed_out` and an RPC watchdog (both under `command_mutex_`), `control_mutex_`, `pose_cancel_requested_`, `running` | `OnDdsCommand`, `Step`, `SetTargets`, `ApplyGrip`, `ClearFault`, `Hold`, `ExecutePose`, `HoldEnabled` | `src/hand_service.cpp` [129-750] |
| RPC server | none | decodes a request, calls the runtime, encodes one reply | `src/hand_service.cpp` [752-849] |
| Start-up | the pid file, a lock on each serial device | `PidFile`, the constructors, `main` | `src/hand_service.cpp` [57-85, 853-882], `src/rh56/transport.hpp` [38-68] |
| `PoseStore` | `poses_`, `id_counter_`, the file; one mutex | `List`, `Find`, `Save`, `Rename`, `SetDelays`, `Delete` | `src/rh56/persistent_store.hpp` [59-221] |
| `SettingsStore` | `settings_`, the file; one mutex | `Get`, `Set` | [223-250] |
| JSON files | a file and its temporary | `LoadJson`, `StoreJson` | [25-57] |
| `HandController` | the last known state of one hand, `health_valid_`, `target_initialized_`, contact baseline and sample count; one mutex | `SetTargets`, `HoldCurrent`, `ApplyGrip`, `RefreshPosition`, `RefreshState`, `RefreshForce`, `ClearFault`, `GetState` | `src/rh56/hand_controller.hpp` |
| `SerialTransport` | the serial line | one request, one response, with a timeout | `src/rh56/transport.hpp` |
| Register protocol | none | frames, checksums, conversion of positions | `src/rh56/protocol.hpp` |
| `CompliantTeach` | baseline, target, phase, force window, counters of one joint | `ObserveForce`, `MarkMotionSettled`, `ActivationScore` | `src/compliant_teach.hpp` |
| `hand_compliant_teach` | per hand: pending joints, blanking deadline, thumb owner and candidate | `InitializeHand`, `ProcessHand`, `ResumeAfterBlank` | `src/hand_compliant_teach.cpp` |
| `hand_web_control` | a session token, nothing else between requests | HTTP request to RPC, one at a time | `src/hand_web_control.cpp` |
| `HandClient` | none | one call per RPC, given up after a timeout | `src/rh56/hand_client.hpp` |
| Web page | settings inputs, lock, token, poses, timers | forms and buttons | `web/hand_control/app.js` |
| `hand_clear_fault`, `hand_hold_position` | none | one RPC per hand | `src/hand_clear_fault.cpp`, `src/hand_hold_position.cpp` |
| Camera tools | none that concerns the hands | image capture | `src/head_camera_capture.cpp`, `scripts/` |

How they interact. The DDS subscriber's thread calls `OnDdsCommand`, which only
stores the command. The main loop calls `Step` every 20 ms: write a stored
command that is fresh to the hands that RPC does not own, stop the hands whose
source went quiet, read telemetry, publish it. RPC threads call the handlers; all
that move a hand run under `control_mutex_`, which `SetTargets`, `ApplyGrip`,
`ClearFault` and `ExecutePose` try to take (and answer BUSY) and `Hold` waits
for. Each controller call runs under that controller's mutex. `HandController`
turns a call into several serial exchanges. `PoseStore` and `SettingsStore` are
called from RPC threads (and `SettingsStore` from the main loop) and write
their file with their mutex held. The clients only use RPC.

What is hard here, component by component, and what makes each correct:

- **Arbitration.** Three kinds of thread, two mutexes, and decisions that are
  taken under a lock and carried out after it: the DDS ownership test [616], the
  watchdog's list of hands to hold [655], the idle test of contact detection [678].
  Timeouts race with late writes. Requests fail half-way (a pose over two
  hands). Correct means: requests do not interleave; a hand an RPC has taken
  is left alone by DDS; a hand that moves is stopped when its source goes
  quiet; a failed pose stops its hands; Hold and shutdown are always served.
- **Pose library.** Crashes between the steps of a file replacement, errors of
  each step, ids made of a clock that can be set back and a counter that
  restarts, clients that repeat a save. Correct means: memory and disk agree,
  ids are unique, each request takes effect once or fails without effect.
- **Controller.** Failures between the serial exchanges of one call; cached
  health; state that says what was asked and not what happened. Correct means:
  a joint seen faulted is not commanded, `ClearFault` commands no travel, a grip has
  its limits before its target.
- **Transport.** Lost, late and partial answers with no sequence number.
  Correct means: an answer is taken for the request that asked for it, as far as that can be
  told, and a disturbance does not put the line out of step for good.
- **Teaching.** A force sample taken while the finger moves must not move it
  further; the two thumb joints share one lock that must be given back.
- **Settings and the web.** The page, the server and the service each may die with
  requests on their way, answers overtake the user and one another, and one blocked request blocks
  the others. Correct means: what the page calls saved is what a restarted service
  finds, every save ends in a success or a failure, and a hand is only moved for a page that was
  unlocked and knows this server's token.
- **Start-up.** Two services started at once; the lock on the serial device decides.

`PROJECT.json` lists each hazard at its line with the properties that cover it.

## 2. Modules

| Module | What it is |
|---|---|
| `HandService` | the arbitration: one action per critical section of `command_mutex_` or controller call |
| `MCHandService` | model values and symmetry for TLC |
| `HandServiceProofs` | theorems about `HandService`: types, exclusion, stale commands, failed poses, the exit |
| `HandServiceMotionProofs` | theorems about `HandService`: watchdogs, motion and contact |
| `HandController` | the calls to one hand, one action per serial exchange, with the hand behind them |
| `HandPort` | what a call promises to `HandService`: all selected joints get their target at once or none does |
| `MCHandController` | model values and symmetry for TLC |
| `HandControllerProofs` | theorems about `HandController` |
| `JsonFile` | a file replaced by way of a temporary file: variables and steps that a store uses |
| `PoseStore` | the pose library over `JsonFile`; a crash and a restart at any point |
| `PoseLibrary` | what the pose RPC promises: a set of poses, one step per request |
| `MCPoseStore` | model values and symmetry for TLC |
| `PoseStoreProofs` | theorems about `PoseStore`, that it implements `PoseLibrary` among them |
| `CompliantTeach` | the controller of one joint, as operators on its state |
| `TeachHand` | one hand taught by bending it: blank, thumb lock, the joints' controllers |
| `MCTeachHand` | a configuration, forces and symmetry for TLC |
| `CompliantTeachProofs` | what the median is, for windows of any length |
| `TeachHandProofs` | theorems about `TeachHand` |
| `SerialTransport` | one request and its answer over a serial line that loses and delays |
| `RegisterLine` | what `HandController` relies on when it calls its `Transport` |
| `MCSerialTransport` | lengths of answers for TLC |
| `SerialTransportProofs` | theorems about `SerialTransport` |
| `SettingsStore` | the settings over `JsonFile`, with one RPC that reads or writes them |
| `WebControl` | `hand_web_control` between a page and the service; extends `SettingsStore` |
| `MCWebControl` | settings for TLC |
| `WebControlProofs` | theorems about `WebControl` and `SettingsStore` |

Next to some operators stands a variant of the same name with a bug in it
(`NextSampleUnbounded` before `NextSample`). No specification uses the variants;
`PROJECT.json` ("mutants") names for each property the one that must break it.

### HandService

Threads. The DDS thread is the action `OnDdsCommand`. The main loop is a
program counter `at` with a set `todo` of hands the present phase has not
handled (right is always before left): `ApplyDdsCommands`, then `DdsCheck` and
`DdsWrite` per hand, `ApplyWatchdogs`, `WatchdogHold` per hand, `Refresh` and
`RefreshForce` per hand, and on the way out `ShutdownHold`, `Leave`. An RPC
thread is a program counter `pc[w]` and a request `req[w]`; the locals of the one
pose that can be in progress are `poseHands`, `poseTodo`, `controlled`, `delays`,
`elapsed`.

Granularity. A step is one critical section of `command_mutex_` or one
controller call. `control_mutex_` is taken with the first such step and released
with the last: a try_lock that fails changes nothing, and `Hold`, which waits, has a
step of its own between raising the cancel flag and getting the mutex
(`HoldRequest`, `HoldLock`).

Time. `Tick` advances one clock unit: the age of the DDS command grows (up to one
beyond the limit, where it no longer matters), the watchdogs' remaining times
shrink, a pose's elapsed time grows. The constants keep the order of the
code's times (300 ms DDS limit below the 500 ms maintenance window; margin of
the pose watchdog positive). With `Prompt` a clock unit passes only between a
decision and the next one and not between a decision and its write; without it
any step may take arbitrarily long.

Hands. `motion[h]` says who wrote the target the hand is following: `"held"` for
its own feedback position, `"dds"`, `"rpc"`, `"pose"`, or `"stale"` for a DDS
command whose ownership test was over when an RPC took the hand. The RPC's watchdog, or the maintenance window of
`Hold` and `ClearFault`, is still armed over a stale hand and stops it. It is `"abandoned"` when the RPC gives it up: a target that failed
or a pose that ended early cancels the watchdog ([176, 232, 388]), before or after the late write. The hand then follows a DDS target with
nothing armed and the stream given up (`timed_out`), and nobody stops it before the next command or Hold; to the service it is idle. This
is the worst outcome of the window at [616], and three properties except it by name (section 3). A write can succeed, be
`"rejected"` (range, fault, telemetry, or the frame never reached the hand) or be
a `"lostAck"` (the hand obeys and the code is told that it failed). `Faults` and
`HoldFaults` say which of these an instance has. `samples[h]` is the controller's
contact sample count. `late[h]` is a history variable: DDS writes onto a hand that RPC
owns, counted from when RPC took it.

Requests refused before they reach shared state (unknown hand, argument checks,
BUSY) are stuttering steps and have no action. `GetState` changes nothing that is
modelled. That RPC handlers run in several threads is a property of the
Unitree SDK, which is not in the repository; the code expects it (the try_lock,
the BUSY answer "another RPC control operation is active", the cancel flag that
another request raises while a pose runs). With one thread `Hold` cannot interrupt a
pose at all; of the findings only `hold_erased` needs two threads.

A `Hold` that waits for `control_mutex_` may have its cancel request erased by a pose that takes
the mutex ahead of it and clears the flag ([277-278], [372-376]): it then waits for all of the pose, where
`docs/hand_service_api.md:439` says that it interrupts one. `hold_erased` shows it.

### HandController, HandPort

A call holds the controller's mutex from its first exchange to its reply, so
there is one at a time: `request`, the point `pc` it has reached and its locals.
A step is one exchange with the hand (a block of registers read or written) or one
decision on what was read. The hand does not wait: between any two steps joints
`Move` towards `goal` (the target register), `Break` and `Recover`. A joint is
fine, has error bits (`"error"`), has error bits and 60 C or more (`"hot"`), or has
stopped with status 7. It moves only while it is fine. A hot joint comes back by itself,
a stopped one when its target is where it is, one with error bits when
`CLEAR_ERROR` reaches it, and then it follows its target register again. These
rules are what the code's own tests and its comments on the result codes assume of
the hand, and are marked external in `PROJECT.json`.

Any read may fail. A write may be carried out or not, and acknowledged or not
(`Losses`). `error`, `status` and `healthValid` are `state_.error`, `state_.status` and
`health_valid_`; the first two are emptied when a failed read leaves them to be
read anew. `limits` are the hand's two limit registers. `unsure`, `doubt` and `stuck` are
history variables: whether the health has been read since the last failed read,
the same when the call began, and the joints that were faulted when it began and have
not recovered by themselves.

`HandPort` is the controller as `HandService` sees it: a call that answers
"ok" has given every selected joint its target in one step; one that fails may or may
not have; only `ClearFault` gives targets before it answers. `HandController` implements it,
which is what lets `HandService` treat a call as a single write that succeeds, is rejected or
loses its acknowledgement.

### JsonFile, PoseStore, PoseLibrary

`JsonFile` holds `file` and `temporary` and the steps of `StoreJson`: the
temporary file is written (or this fails), then renamed over the file (or this
fails and it is removed). An error that the stream meets only when its destructor
flushes it goes unseen, because the code tests the stream before; the file is then
`Torn`. What `LoadJson` makes of a torn file depends on where it was cut: it throws
(the service does not start, so `Start` has no step for it that matters) or, if
it is empty, it reads as the empty library; the model takes the latter. The name
of the temporary file carries the process id and nobody reads what is left of
it.

`PoseStore` adds `poses`, `counter`, the mutex and the RPC threads. A request that
changes the library goes through `write`, `replace` and `publish` with the mutex
held; `Crash` may come between any two and clears the memory, `Start` loads the
file and resets the counter. A generated id is a pair of a time and a counter value,
clients may pass ids of the same form, and the clock may show anything in `Times`,
so it may be set back. `ExecutePose`'s look-up of a pose reads as `List` does.
The positions of a pose are handled like its name and are left out.

`PoseLibrary` is the abstract specification: the callers see a set of poses; a
request takes effect in one step or fails without effect; "done" is only
answered if it took effect; a crash forgets requests and never an effect.
`PoseStore` implements it with the file's content as the library, so each
change takes effect at the rename.

### CompliantTeach, TeachHand

`CompliantTeach` has no variables: the state of a controller is a record `t`, and
`ObserveForce` and `MarkMotionSettled` map it to the next one, the former with what it tells the
caller (`"command"`, `"released"`, `"limit"` or `"none"`). `React` is the code after the median: `Reverse`,
`Neutral`, and `Push`, which may end in a `Step`. q, its steps and forces are integers, the
slope an integer per unit of q. `ActivationScore` is kept as a fraction and compared by
cross-multiplication.

`TeachHand` is the loop of `main` for one hand. `ProcessHand` is one whole cycle after the blank: resume the
pending joints, arbitrate, observe the permitted ones, give the lock back, record the commands. It is
one step because nothing of it is visible to another thread; the state it reads is read
afresh (`GetState` with refresh), so `force` is what the sensors show now. All the ways in which a cycle
ends the program are `Stop`; what a cycle has half done then is of no use to anybody. `InitializeHand`
takes its baseline from readings at rest, and its median of equal readings is the reading. Two hands
share nothing but the loop, so one is enough.

The hand and the person are external: `Press` sets the force of a joint at any time, `Rest` ends the motion
that a command began. `BlankOver` waits for `Rest`, that is, a step is assumed to be over within
`motion_blank_ms + extra_settle_ms`. `dirty` and `calm` are history variables: which joints use a force
read in motion, and for how many cycles the owner's force has been between its thresholds.

### SerialTransport, RegisterLine

`Exchange` is split where the line can interfere: `Flush` (the call begins and throws away what has
arrived), `Send`, and `Receive` or `Timeout`. Between them the hand serves requests (`Serve`) and answers
move, piece by piece, from the `line` to the `input` buffer; both may get lost. A frame is what the code can tell apart: its operation, its
register, its length in pieces; one value stands for its six. A buffer is accepted if it is one whole frame of
the right kind (`IsResponse`), which takes the checksum to betray every mixture of two frames.
`Faults` says what the line may do: lose things, answer after the call has given up (`"late"`), even
when the next call has begun (`"overdue"`), and refuse to send. History variables: `own` marks the frames of the last call,
`behind` says that answers to earlier ones were still on their way when it flushed, `served` is what the hand found or
wrote for it, `accepted` is the frame that was taken for its answer.

`RegisterLine` is the abstract line: a call takes effect at one moment, at the latest before the next call
begins, and one that succeeds returns what it found or wrote then. It promises nothing for the answer of a call that is
`behind`: an old answer from the same register cannot be told from a new one. `HandController` assumes the
promise without that exception. It therefore holds of the real line as long as the hand answers, if
at all, before the next call flushes, that is, within the 50 or 100 ms of the call's timeout plus the time to the next.

### SettingsStore, WebControl

`SettingsStore` follows one RPC through `Settings`: `asked`, in `Set` the steps of `StoreJson` and the assignment, then `Get`.
Another client's write is seen as a whole, because `Set` keeps its mutex throughout, and so can
only come when that RPC is not in `Set`. `CrashService` may come anywhere and `StartService` reads the file.

`WebControl` puts the page and the server in front of it. `backlog` holds the page's requests in the order of their connections; the server
handles the first (`serving`), one RPC at a time, and answers it. Each handler has an action. Of the requests that move a hand or
change a pose only the way to the service is followed (`Relay`): the token test, the RPC, and that it may take as long as a
pose takes. What the service makes of them is in `HandService` and `PoseStore`. The three handlers that change
a stored pose do the same up to the RPC and are one action.

An answer is sent by the server's step and handled by the page in a later one (`Receive`). Each fetch has its own connection and is awaited by a
call of its own (`app.js` [378-383]), so `answers` has no order: the page may handle any of them next. Answers that change nothing
of what the model keeps of the page are not kept. A page that is loaded again forgets the answers on their way and leaves its requests behind
as orphans, which are served and answered to nobody.
`StopServer` is a crash or a signal: connections are reset, which the page notices at once, what was answered still arrives, the token becomes worthless, and an RPC under way goes on in
the service (`Forsaken`); a new server is assumed to start only when that RPC is over (a settings RPC takes milliseconds, a start opens sockets and asks both hands for their state). The service answers a settings RPC within the client's 8 s unless it has died (`RpcTimeout`).
`told` and `shown` are history variables: no other client has written since the RPC in progress was read; and the same of
the settings in the inputs, and that no save was answered after the answer they are from.

Three things the model shows and no property forbids. Two saves answered shortly after one another may be handled in the other order: the inputs
then show the older settings, the page says "saved", and the file has the newer ones until the page is loaded again
or a setting is changed, which saves all the inputs. The answer to a save goes into every input, and so
undoes an edit made while the save was on its way; the timer then saves the old value again (`app.js` [354-360, 381-382]). And a request that was sent
before the page was locked moves the hand when its turn comes.

## 3. Runs

| Run | Expect | Checks | Instance |
|---|---|---|---|
| `nominal` | pass | `TypeOK`, `MotionCovered`, `ContactQuiet`, `AtMostOneStaleDds`, `ExitStopsDds`, `Settles`, `RequestsEnd`, `SignalExits` | one hand, two RPC threads, all calls, no failure, prompt; fair; 156 thousand states |
| `poses` | pass | `ControlExclusion`, `PoseNotCutShort`, `FailedPoseStops` | two hands; poses, targets, Hold; refused and unacknowledged writes; 1.3 million states |
| `lost_watchdog` | violation | `MotionCovered` | one hand, two RPC threads, all calls, refused writes; longer timeouts |
| `stale_dds` | violation | `NoStaleDds` | the same without failures |
| `hold_erased` | violation | `HoldInterruptsPose` | as `stale_dds` |
| `exit` | violation | `ExitHoldsHands` | as `stale_dds` |
| `store` | pass | `TypeOK`, `Persisted`, `UniqueIds`, `LibrarySpec` | two threads, crashes, write and rename errors; 460 thousand states |
| `calls` | pass | `TypeOK`, `NoTravel`, `FaultedNotCommanded`, `GripLimited`, `PortSpec` | two joints, two positions, two grip limits, all calls, all losses; 2 million states |
| `thumb` | pass | `TypeOK`, `QuietForces`, `PendingWaits`, `LockGivenBack`, `OnlyOwnerSteps`, `NoImmediateReversal` | two thumb joints, a window of 3, two samples to win the lock and to release; 2 million states |
| `line` | pass | `TypeOK`, `AnswerIsOwn`, `Resynchronises`, `LineSpec` | a register that is read, two that are written, two values, every fault of the line; fair; 250 thousand states |
| `web` | pass | `TypeOK`, `SavedIsStored`, `SavingEnds`, `MovesAuthorised` | one setting of two values, all kinds of request, crashes of page, server and service, write and rename errors; fair; 770 thousand states |
| `flush` | violation | `Persisted` | as `store`, with errors of the flush |

What the properties say:

- `MotionCovered`: a hand that follows a command is under an armed watchdog, a DDS
  stream not yet given up, or a hold already decided, unless it is abandoned. A hand with a stale DDS command is no exception as long
  as the RPC that took it has not given it up. It needs writes that do not fail
  and promptness; `lost_watchdog` shows that failure breaks it.
- `ContactQuiet`: contact is reported only for a hand at rest or abandoned,
  although the idle test and the sample are taken under different locks: never while the hand follows an RPC target, a pose, the DDS stream, or a stale
  DDS command that a watchdog is still to stop. Of an abandoned hand it *is* reported while it moves, against
  `docs/hand_service_api.md:217-219` and what `rh56_controller_test` expects ("active commands disable contact monitoring"): the ownership test of a DDS
  command is over, a pose takes the hand, a Hold cancels it, the pose releases the hand, and the command is written then; the hand is idle to
  [678] and three samples follow. `stale_dds` is about the cause.
- `ControlExclusion`: the thread that is between taking a hand and replying is the one
  that holds `control_mutex_`.
- `AtMostOneStaleDds`: from when an RPC takes a hand, at most one DDS command reaches
  it while RPC owns it. `NoStaleDds`, what the interface document promises, fails.
- `ExitStopsDds`: the shutdown hold is after the last DDS write. `ExitHoldsHands`
  fails, because RPC threads serve on.
- `PoseNotCutShort`: the watchdog armed before a pose outlasts its delays, so it never
  stops a hand between two groups.
- `FailedPoseStops`: a pose that gives up holds each hand it controls.
- `Settles`: once no command and no request arrives, every hand comes to rest or is abandoned, and stays so.
- `RequestsEnd`: once no further request arrives, each one there is gets its answer: a pose with its delays, and every Hold behind it.
  That other requests cannot keep a Hold waiting for ever is not claimed; a `std::mutex` does not promise it.
- `HoldInterruptsPose`: a pose that waits out a delay while a Hold waits for it has been told to stop, as the
  interface document says. It fails (`hold_erased`): a pose that gets the mutex ahead of the Hold clears the flag.
- `SignalExits`: a signal ends the service, whatever the RPC threads do.
- `NoTravel`: a joint that was faulted when `ClearFault` began and comes back because of it is told to be
  where it is, whatever exchange fails. A joint that breaks down during the call is outside it:
  `CLEAR_ERROR` reaches all joints, and one that was not held yet finishes its travel.
- `FaultedNotCommanded`: a grip, and a `SetTargets` after a failed read, give no target to a joint that
  was faulted when they began. Without a failed read `SetTargets` goes by the health of the last
  `RefreshState`, up to half a second old, and may command a joint that has broken down since.
- `GripLimited`: the target of a grip is not written before both of its limits.
- `PortSpec`: the controller implements `HandPort`.
- `QuietForces`: no controller keeps or acts on a force read while any joint of the hand moved.
- `PendingWaits`: the `pending` mask and the controllers' phases agree, so each joint told to step is
  resumed and no other.
- `OnlyOwnerSteps`: a thumb joint steps only as the owner of the lock. It is not obvious, because the lock
  goes by this cycle's force and the step by the median of a window that may be older.
- `NoImmediateReversal`: a joint with `opposite_force_releases` does not turn round before it is released.
- `LockGivenBack`: an owner that has acted gives the lock back within a bounded number of calm cycles:
  old forces may be the median for half a window and be worth one more step, after which the window is
  filled anew, then the release is counted. An owner whose force ends *before* its controller has
  acted has nothing to release and keeps the lock until it is pushed again; the property leaves this case out,
  and nothing in the repository says what should happen then.
- `Persisted`: outside a change in progress memory and disk agree. `flush` shows what the
  unseen error does.
- `UniqueIds`: also after restarts, with clocks set back and ids that clients choose.
- `LibrarySpec`: the store implements `PoseLibrary`.

`AtMostOneStaleDds` and `ExitStopsDds` are checked without failures here; their theorems cover every failure and every
timing, `ExitStopsDds` as long as holds reach the hand.

- `AnswerIsOwn`: an answer that is accepted comes from the register asked, and is the answer to this call unless earlier
  ones were still on their way when it flushed.
- `Resynchronises`: when nothing is lost any more and the caller waits for the answers, soon every call succeeds:
  torn and late answers do not leave the buffer out of step.
- `LineSpec`: the transport implements `RegisterLine`.
- `SavedIsStored`: when the page says "saved" and nothing is on its way, its inputs show what a restarted service would
  find, whoever died in between, and although the handler writes and reads back in two
  critical sections and inputs may be edited, answered late or filled by an older request. Two exceptions, both reached in the run:
  another client has written since the settings shown were read, or the answer to a save (or its reset) overtook an older answer.
- `SavingEnds`: the page does not say "saving" for ever, whatever stands in front of its request and whoever dies.
- `MovesAuthorised`: the service is asked to move a hand only for a request that an unlocked page sent with this server's token.

Findings. Five places where the code does not do what the interface document or its
own check says are recorded under "findings" in `PROJECT.json`, each with the run that
shows it: `lost_watchdog` [hand_service.cpp 176, 232], `stale_dds` [616], `hold_erased` [376],
`exit` [876], `flush` [persistent_store.hpp 47].

Bounds and why they are enough:

- *Hands.* The watchdogs, the DDS flags and the motion of the two hands only meet in the
  loops over both hands and in poses; `poses` has two hands, the others one. What one hand leaves out of
  `nominal` is a pose over both that a Hold of the other one cancels: both hands are then given up, and with one hand the Hold that follows stops the
  hand that was abandoned. `MotionAlwaysCovered` and `ContactStaysQuiet` prove the safety properties for any hands; the three
  liveness properties are checked for one (with two hands TLC needs two million states and five minutes).
- *RPC threads.* `control_mutex_` admits one; the second is the one that waits, is refused,
  or comes next. The proofs cover any number.
- *Clock.* The units are chosen so that every order of two deadlines occurs: a DDS limit of
  1 or 2, a maintenance window one longer, RPC timeouts below and at the limit, start delays
  0 and 1 so that a pose has one or two groups.
- *Joints.* Two: one that is requested or faulted next to one that is not. Two positions: at the
  target and away from it. Two limits: the grip's and another.
- *Teaching.* q has the two values 0 and 1 and a travel of 1, so every joint reaches both limits and turns
  round. Thresholds one above and below the baseline, with forces below, between and above them. A window of 3 is the
  smallest in which the median is not the newest or oldest sample. Two samples to win the lock and to release are
  the smallest counters that can be reset half-way. The two joints are configured alike, so
  exchanging them changes nothing (a ratio above 1 keeps both from dominating); the symmetry is sound.
- *Pose library.* Two poses, two generated ids per start, one id that clients name
  and that the service may also generate: what is needed for a second pose in front of the
  first, for an id met again after a restart, and for one thread to delete what another saves.
  One value of the clock makes ids collide most often. `Names` and `Delays` have two values each,
  so that a rename is seen. `MaxPoses` and `MaxCounter` bound the library and the ids.

- *Serial line.* Answers of one and two pieces, so that one can be torn and a torn one can be followed by a short one, with one register that is
  read and two that are written (`CLEAR_ERROR`, `FORCE_SET`, `POS_SET` differ for the code only in where they are). `MaxBehind = 2`: up to two
  requests or pieces of earlier answers are on their way when a call begins, enough for a whole old answer to come first.
- *Web.* One setting of two values: each setting is handled alike, and all are sent and stored together. `MaxRequests = 2` counts the requests whose answer the page has not handled: one that
  is served and one behind it, or two answers on their way; enough for a second save, or a load of a new page, to follow one that is under way, and for
  two answers to overtake one another. `MaxOthers = 1` of them
  need not be about settings; several pages, or more requests, only lengthen the queue. One request for the status at a time: more of them repeat it.

Fairness (`nominal`). `WF(MainLoop)`: the loop is never blocked (it sleeps and takes
mutexes that are held for bounded times). `SF(Tick)`: the clock goes on; strong, because
under `Prompt` it is disabled while a write is in progress, again and again. `WF(Serve(w))`: a
handler that runs goes on, and a thread blocked on `control_mutex_` gets it if it stays free. No thread is promised the mutex when it is
free again and again: a `std::mutex` gives no such guarantee, so `RequestsEnd` speaks of the runs in which no further request comes.
No fairness is assumed of clients, DDS or signals.

Fairness (`line`, `web`). In `line` the steps of a call and of an answer on its way go on; nothing makes the caller call, and losses need not stop:
`Resynchronises` speaks of the runs in which they do. In `web` the server's loop (`WF(Server)`: each of its waits has a timeout, 500 ms, 2 s and 8 s) and a handler
of the service go on (`WF(Server \/ Rpc)`), and what was answered arrives and the page handles it (`WF(answers # <<>> /\ Receive(1))`). Nobody has to start the service or the server, and nothing is assumed of the user.

## 4. Proofs

All in the eight modules whose names end in `Proofs`, for any values of the constants that satisfy the
modules' assumptions: any number of RPC threads, any timeouts, delays and calls, and all faults
unless stated. Every safety property and every refinement that a passing run checks is a theorem. The assumptions a
theorem adds (`Prompt`, faults excluded) are needed: without any one of them TLC finds the property violated on
the run's instance.

`HandService`.

- `TypeCorrect`: `Spec => []TypeOK`. `TypeOK` is inductive; the steps of the main loop, of an arriving
  request and of a request in progress are one lemma each.
- `StaleDdsBounded`: `Spec => []AtMostOneStaleDds`. The invariant `LateInv` adds what the main loop's
  program counter knows: while it is about to write to a hand RPC owns (at `ddsWrite`, with that hand
  next), no late write has been counted yet. Once RPC owns the hand the test refuses it, so the one
  write in flight is the last.
- `ControlExclusive`: `Spec => []ControlExclusion`, inductive together with `TypeOK`.
- `FailedPoseStopsHands`: `[]FailedPoseStops` if holds reach the hand (`"rejected" \notin HoldFaults`).
  `StopInv` says that during `stop()` a controlled hand that still follows a group's target is among
  those still to hold, and that only enabled hands are prepared; `ControlExclusion` keeps a second pose
  out meanwhile.
- `ExitLeavesDds`: `[]ExitStopsDds` if holds reach the hand. `ExitInv` says which hands may still follow the DDS stream once the main loop is on
  its way out: those it has not held yet. Its premise is that an RPC thread never makes a hand follow the stream, so that what
  the service does meanwhile cannot undo a hold in this respect.
- `PosesNotCutShort`: `[]PoseNotCutShort` if writes follow their decisions at once (`Prompt`), whatever fails.
  `OwnedInv` compares what is left of a watchdog with the delays still to come: `left[h] + elapsed` exceeds every
  remaining delay while the pose waits, which a clock unit keeps because both sides shrink together. It rests on
  `ControlExclusion`: while a pose is in progress no other thread gets further than waiting with a `Hold`.
- `MotionAlwaysCovered`: `[]MotionCovered`, with its exception of abandoned hands, if writes are prompt, no target write fails (`Faults = {}`) and holds reach
  the hand. `MotionInv` adds to `OwnedInv` why a request may disarm a watchdog: a pose that gives up, or is cancelled,
  has its hands held by then, or stale, and then they are abandoned from there on (`PlacedInv`); and what the main loop's counter knows (`LoopInv`): a DDS
  command on its way to a hand has been received, and a hold that is decided has its hand still to reach.
- `ContactStaysQuiet`: `[]ContactQuiet` under the same assumptions. Between the idle test and the sample the hand
  may start to move; `QuietInv` says that it is then not counted, because what moved it restarted the samples. Of a stale hand this needs
  that its watchdog is armed and the hand therefore not idle.

`HandController`.

- `TypeCorrect` of `HandController`: `TypeOK` with `Control`, which ties the point a call has reached to
  its request; without it a record's missing field could be written to the hand.
- `ClearFaultHolds`: `Spec => []NoTravel`. `RestInv` says why a joint in `stuck` stands still: before the hold
  because it is faulted, after it because it is told to be where it is; and that the position read is the
  joint's and the joint is among those read as faulted, from the read to the last use.
- `FaultedLeftAlone`: `Spec => FaultedNotCommanded`. `SeenInv` says that the call, once it has read the
  status, has seen every joint in `stuck`, that none it selected is left once it is past the gate, and that the health
  is not trusted after a failed read.
- `GripIsLimited`: `LimitInv`, the limits that are written at each point of a grip.
- `ImplementsPort`: `Spec => PortSpec`, step by step under `TypeOK` and `Control`; a reply is the port's answer, and only
  the last write of `SetTargets`, `ApplyGrip` and `HoldCurrent` and the holds of `ClearFault` change `goal`.

`PoseStore`.

- `StoreInvariant`, `StoreTypeCorrect`, `IdsUnique`: `StoreInv` is `TypeOK` and distinct ids in
  memory, in the pending change, in the file and in the temporary file. `UniqueIds` alone is not
  inductive: the temporary file becomes the file at the rename, and the file becomes the memory at a
  restart. Lemmas on sequences say
  that inserting a pose with a new id, changing a pose at its place and removing one keep ids distinct.
- `PersistedAtOnce`: `[]Persisted` if flush errors are excluded (`"flush" \notin StoreFaults`). `PersistInv`
  adds that the file is never torn, that a change in progress holds the mutex, that the temporary file
  is the pending change at the rename and the file is it from then to the assignment, and that memory
  is what the file loads as at any other time.
- `ImplementsLibrary`: `Spec => LibrarySpec` without flush errors. `PendingInv` says that what waits to be written
  is the stored set changed as the request asks, one pose for one, so that the rename is the library's step
  (`SeenCommit`); the assignment that follows, and every failure before the rename, is a stutter or an answer. It is about sets of
  poses, which needs the ids to be distinct: a change at a place of the sequence changes one pose.

`TeachHand`.

- `TeachInvariant`, and from it `ForcesQuiet`, `PendingAgrees` and `ReversalReleases`: `TeachInv` says that each
  controller is a record with its target within the travel, that `pending` and the phases agree, and that while a joint
  moves the blank is on. One lemma per branch of `ObserveForce` says what may follow a controller
  (`Follows`); none depends on what the median is, so the theorems hold whatever the filter does. That a
  clamped step never goes backwards needs the target to be within the travel.
- `MedianIs`: a window that is not empty has a median. Among the samples that more than half do not exceed, the one that fewest
  samples do not exceed has at most half below it. `MedianOfLatest` and `MedianSlides` say how it moves: it
  lies where more than half of the latest samples lie, and it does not leave a range when a sample in that range replaces the oldest.
- `TypeCorrect` of `TeachHand`: `[]TypeOK` from `TypeInv`, which adds that the thumb lock is only given out by arbitration. That the baseline is a
  number needs `MedianIs`.
- `OwnerSteps`: `Spec => OnlyOwnerSteps`. `ThumbInv` says that a thumb joint without the lock is `Quiet`: its window is full and the median
  within the thresholds, or it is still filling with samples that are. Such a joint is observed only while its
  present force is within its thresholds too, and stays quiet because its baseline only ever moves towards the median (`AdaptedBand`).
  A release leaves the joint quiet: one that gives the lock back has nothing left to act on.
- `LockReturns`: `[]LockGivenBack`. Of the owner `ThumbInv` says (`Calming`) that `calm` is bounded by half a window
  and the samples taken since, as long as the median may be beyond the thresholds, and by that and the release counter
  from when it is within them. `LockGivenBack` alone is not inductive: it says nothing of what is in the window.

`SerialTransport`.

- `TypeCorrect` of `SerialTransport`: `TypeInv` is `TypeOK` and that a call that is begun is one of `Calls`.
- `AnswersAreOwn`: `LineInv` says that a request on its way is either of the last call, alone and not yet served, or of an earlier one, and
  then `behind`; and that a piece of an answer, on the line or in the buffer, either carries what the hand found or wrote for the last call or
  is of an earlier one, and then `behind`. `AnswerIsOwn` alone is not inductive: it says nothing of what `ReadExact` will find.
- `ImplementsLine`: `Spec => LineSpec` from the same invariant. The hand's answer to the last call is `Reach`, to an earlier one `ReachLate` or a
  stutter; a success returns what was seen, or was `behind`.

`WebControl`, `SettingsStore`.

- `TypeCorrect` of `WebControl` and `MovesAreAuthorised`: `WebInv` is the type, that an RPC in progress carries settings where it writes them
  (`StoreInv`), and of the requests that wait (`BacklogInv`) that a move was sent by an unlocked page. That the token is tested is the handler's step.
- `SavedIsStoredAlways`: `[]SavedIsStored` if flush errors are excluded. `FileInv` says that memory and file agree but for the moment between rename
  and assignment. `SavedInv` says three things, each as long as no other client has written: an RPC that is done brings what is stored; with no save in the
  backlog or in progress, so does each answer on its way that no answer to a save came after; and so do the inputs that were set from
  such an answer. Since an answer carries its own `fresh`, the order in which the page handles them does not matter.

Liveness under fairness is out of the prover's reach and stays with TLC: `RequestsEnd`, `Settles`, `SignalExits`,
`Resynchronises`, `SavingEnds`.

The library's induction theorems take an operator as a parameter, which the provers cannot instantiate. Where an
argument needs a least or a greatest element, `Least` and `Greatest` in `CompliantTeachProofs` take a set of numbers instead, from
`WFMin` and the well-foundedness of `<`.

## 5. Not modelled

- The layout and encoding of frames, messages, HTTP and forms, `EncodePosition` and `DecodePosition`, logging, the published DDS
  state, the parsing of arguments and of the YAML file. They have no state, and tests reach them.
- Start-up. `flock` on the serial device keeps a second service out whatever the pid file says; a model would restate `flock`.
- `hand_clear_fault` and `hand_hold_position`: one RPC per hand, which `HandService` has among its clients' calls.
- The camera tools, which have nothing to do with the hands.
- What the controller keeps only to show it (`target_q`, force, limits, times, `online`) and the contact levels.
- The page's sliders, drawing, list of poses and register panels. The Unitree SDK is represented by what the code uses it for: DDS callbacks, RPC threads,
  one reply per request. Power loss. What the hand does with a teaching step after the service has accepted it.

## 6. Plan

The components whose behaviour is worth a model have one, and every safety property that a run checks is proved. What could follow:

| Module | Theorem | How |
|---|---|---|
| `HandServiceMotionProofs` | how long after its last command a hand may still move when writes fail | the watchdogs' deadlines as a bound that a failed write extends |
| `TeachHandProofs` | that a joint which has stepped `k` times is `k` steps from where it began, or at a limit | a history variable for the steps |
| `WebControlProofs` | what of `SavedIsStored` remains when the flush fails | the page's inputs against memory, not the file |
