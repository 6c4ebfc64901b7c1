----------------------------- MODULE WebControl -----------------------------
(***************************************************************************)
(* hand_web_control (src/src/hand_web_control.cpp) between one page        *)
(* (src/web/hand_control/app.js) and the service.  The server takes one    *)
(* HTTP request at a time off its backlog and makes one RPC of it; the     *)
(* page sends requests without waiting for the answers of earlier ones.    *)
(* Each has a connection of its own, so the page handles the answers in    *)
(* any order.  The service and the server may die and come back, and the   *)
(* page may be loaded again.                                               *)
(*                                                                         *)
(* Settings are followed to the file (SettingsStore).  Of a request that   *)
(* moves a hand or changes a pose, only its way to the service is modelled *)
(* here: HandService and PoseStore say what becomes of it.                 *)
(***************************************************************************)
EXTENDS SettingsStore, FiniteSets

CONSTANTS
  Fields, Values,  \* a setting is a value for each field
  Others,          \* the kinds of request, beyond status and settings
  OtherSettings,   \* bound: what the other clients write
  NetFaults,       \* "slow": the bytes of a request come too late
  MaxRequests,     \* bound: requests whose answer the page has not handled
  MaxOthers        \* bound: those of them that are not about settings

MoveKinds == {"command", "grip", "clearFault", "executePose"}
ReadKinds == {"listPoses", "registers"}
PoseKinds == {"savePose", "changePose"}

ASSUME WebAssumption ==
  /\ Settings = [Fields -> Values]
  /\ Others \subseteq MoveKinds \cup ReadKinds \cup PoseKinds
  /\ OtherSettings \subseteq Settings
  /\ NetFaults \subseteq {"slow"}
  /\ MaxRequests \in Nat /\ MaxOthers \in Nat

VARIABLES
  serving,  \* the server: "down", "accept", "settings" or "relay": in an RPC
  backlog,  \* requests sent and not answered, the first being served
  answers,  \* what they were answered, where the page has not handled it yet
  input,    \* the page: its [data-setting] inputs
  timer,    \* a save of the settings is scheduled
  note,     \* what it says of the settings
  opening,  \* initialize waits for its first status
  token,    \* the token it has: "none", "old" (of a server that died), "valid"
  lock,     \* the lock button: "disabled", "locked" or "armed"
  told,     \* history: no other client has written since the RPC was read
  shown     \* history: the inputs are those of an answer about settings since
            \* which no save was answered and no other client has written

webVars == <<serving, backlog, answers>>
settingVars == <<input, timer, note, opening>>
pageVars == <<settingVars, token, lock>>
history == <<told, shown>>
vars == <<storeVars, webVars, pageVars, history>>

SettingKinds == {"loadSettings", "saveSettings"}
Kinds == {"status"} \cup SettingKinds \cup Others

HttpRequests ==
  [kind : Kinds, settings : Settings, known : BOOLEAN, armed : BOOLEAN,
   orphan : BOOLEAN]

\* Answers that change what this model's page has.  "offline": a status without
\* one of the hands; "none": the connection is lost.  An answer is fresh as long
\* as a status has the token of the running server, and settings as shown says.
HttpAnswers ==
  [kind : {"status"} \cup SettingKinds,
   outcome : {"ok", "offline", "error", "none"},
   settings : Settings, fresh : BOOLEAN]

Notes == {"loading", "unread", "saving", "saved", "failed"}
Tokens == {"none", "old", "valid"}

\* Every variable keeps its type.
TypeOK ==
  /\ StoreTypeOK
  /\ serving \in {"down", "accept", "settings", "relay"}
  /\ backlog \in Seq(HttpRequests)
  /\ answers \in Seq(HttpAnswers)
  /\ input \in Settings /\ timer \in BOOLEAN
  /\ note \in Notes /\ opening \in BOOLEAN
  /\ token \in Tokens /\ lock \in {"disabled", "locked", "armed"}
  /\ told \in BOOLEAN /\ shown \in BOOLEAN

Init ==
  /\ StoreInit
  /\ serving = "down" /\ backlog = <<>> /\ answers = <<>>
  /\ input = Defaults /\ timer = FALSE /\ note = "loading" /\ opening = FALSE
  /\ token = "none" /\ lock = "disabled"
  /\ told = FALSE /\ shown = FALSE

-----------------------------------------------------------------------------
(***************************************************************************)
(* Answers.  An orphan is a request of a page that is no longer open.      *)
(***************************************************************************)

\* The answers on their way, those of the given kinds no longer fresh.
Outdated(kinds) ==
  [i \in DOMAIN answers |->
     [answers[i] EXCEPT !.fresh = @ /\ answers[i].kind \notin kinds]]

\* The answers on their way and one to r, unless nobody waits for that.
Answering(r, outcome, s, fresh) ==
  LET known == Outdated(IF r.kind = "saveSettings" THEN SettingKinds ELSE {}) IN
  IF r.orphan \/ r.kind \in Others THEN known
  ELSE Append(known, [kind |-> r.kind, outcome |-> outcome, settings |-> s,
                      fresh |-> fresh])

-----------------------------------------------------------------------------
(***************************************************************************)
(* The page sends.                                                         *)
(***************************************************************************)

Sent(kind) == \E i \in DOMAIN backlog : backlog[i].kind = kind /\ ~backlog[i].orphan

Waiting(kind) == Sent(kind) \/ \E i \in DOMAIN answers : answers[i].kind = kind

Guarded(kind) == kind \in {"saveSettings"} \cup MoveKinds \cup PoseKinds

\* What a request of this kind carries, where that matters.
Request(kind) ==
  [kind |-> kind, orphan |-> FALSE,
   settings |-> IF kind = "saveSettings" THEN input ELSE Defaults,
   known |-> Guarded(kind) /\ token = "valid",
   armed |-> kind \in MoveKinds /\ lock = "armed"]

InFlight == Len(backlog) + Len(answers)
OthersInFlight ==
  Cardinality({i \in DOMAIN backlog : backlog[i].kind \notin SettingKinds})
    + Cardinality({i \in DOMAIN answers : answers[i].kind \notin SettingKinds})

\* fetch: a server that is down refuses the connection at once.
Fetch(kind) ==
  /\ serving # "down" /\ InFlight < MaxRequests
  /\ kind \in SettingKinds \/ OthersInFlight < MaxOthers
  /\ backlog' = Append(backlog, Request(kind))
  /\ UNCHANGED <<serving, answers>>

\* The page is loaded, and asks for the status first.
LoadPage ==
  /\ serving # "down" /\ Len(backlog) < MaxRequests
  /\ backlog' = Append([i \in DOMAIN backlog |-> [backlog[i] EXCEPT !.orphan = TRUE]],
                       Request("status"))
  /\ answers' = <<>>
  /\ input' = Defaults /\ timer' = FALSE /\ note' = "loading" /\ opening' = TRUE
  /\ token' = "none" /\ lock' = "disabled"
  /\ shown' = FALSE
  /\ UNCHANGED <<serving, storeVars, told>>

\* Every 1.8 s; while the page opens, only the first one is followed.
RefreshStatus ==
  /\ ~opening
  /\ \/ Fetch("status") /\ UNCHANGED lock
     \/ serving = "down" /\ lock' = "disabled" /\ UNCHANGED webVars
  /\ UNCHANGED <<storeVars, settingVars, token, history>>

\* The rest of initialize, whatever came of the status.
LoadSettings ==
  /\ opening /\ opening' = FALSE
  /\ ~Waiting("status")
  /\ \/ Fetch("loadSettings")
     \/ serving = "down" /\ UNCHANGED webVars
  /\ UNCHANGED <<storeVars, input, timer, note, token, lock, history>>

\* The user changes a setting: scheduleSettingsSave.
Choose(f, v) ==
  /\ input[f] # v
  /\ input' = [input EXCEPT ![f] = v]
  /\ timer' = TRUE
  /\ UNCHANGED <<storeVars, webVars, note, opening, token, lock, history>>

\* 250 ms after the last change; all inputs are sent.
SaveSettings ==
  /\ timer /\ timer' = FALSE
  /\ \/ Fetch("saveSettings") /\ note' = "saving"
     \/ serving = "down" /\ note' = "failed" /\ UNCHANGED webVars
  /\ UNCHANGED <<storeVars, input, opening, token, lock, history>>

ToggleLock ==
  /\ lock # "disabled"
  /\ lock' = IF lock = "armed" THEN "locked" ELSE "armed"
  /\ UNCHANGED <<storeVars, webVars, settingVars, token, history>>

\* sendJoint, applyHand, applyGrip, clearJointFault and replayPose test armed
\* when they send, the first of them 110 ms after the slider moved.
MayMove == lock = "armed"

Send(kind) ==
  /\ kind \in MoveKinds => MayMove
  /\ kind = "savePose" => token # "none"
  /\ Fetch(kind)
  /\ UNCHANGED <<storeVars, pageVars, history>>

-----------------------------------------------------------------------------
(***************************************************************************)
(* The page goes on after its await, for whichever answer is there.        *)
(***************************************************************************)

\* The page locks itself when it gets no status or one without a hand.
ReceiveStatus(a) ==
  /\ token' = CASE a.outcome \in {"error", "none"} -> token
                [] OTHER -> IF a.fresh THEN "valid" ELSE "old"
  /\ lock' = CASE a.outcome # "ok" -> "disabled"
               [] OTHER -> IF lock = "disabled" THEN "locked" ELSE lock
  /\ UNCHANGED <<settingVars, shown>>

\* saveSettings without its catch.
FailedNoteOfLoads(a) ==
  IF a.kind = "loadSettings" /\ a.outcome = "error" THEN "unread" ELSE note

\* What the page says of the settings after a failure.  loadSettings has no
\* catch for a connection that is lost.
FailedNote(a) ==
  CASE a.kind = "saveSettings" -> "failed"
    [] a.outcome = "error" -> "unread"
    [] OTHER -> note

\* applySettings: the answer goes into every input.
ReceiveSettings(a) ==
  /\ IF a.outcome = "ok"
       THEN input' = a.settings /\ note' = "saved" /\ shown' = a.fresh
       ELSE note' = FailedNote(a) /\ UNCHANGED <<input, shown>>
  /\ UNCHANGED <<timer, opening, token, lock>>

Receive(i) ==
  LET a == answers[i] IN
  /\ answers' = SubSeq(answers, 1, i - 1) \o SubSeq(answers, i + 1, Len(answers))
  /\ IF a.kind = "status" THEN ReceiveStatus(a) ELSE ReceiveSettings(a)
  /\ UNCHANGED <<serving, backlog, storeVars, told>>

-----------------------------------------------------------------------------
(***************************************************************************)
(* The server.                                                             *)
(***************************************************************************)

\* main asks for the state of the hands first, and makes a new token.
StartServer ==
  /\ serving = "down" /\ serving' = "accept"
  /\ up /\ step = "none"
  /\ UNCHANGED <<storeVars, backlog, answers, pageVars, history>>

\* The connections are reset; what has been answered still arrives.  The service
\* carries on with an RPC it has begun.
StopServer ==
  LET saves == \E i \in DOMAIN backlog : backlog[i].kind = "saveSettings" IN
  /\ serving # "down" /\ serving' = "down"
  /\ backlog' = <<>>
  /\ answers' = Outdated({"status"} \cup IF saves THEN SettingKinds ELSE {})
  /\ shown' = (shown /\ ~saves)
  /\ token' = IF token = "none" THEN "none" ELSE "old"
  /\ note' = IF Sent("saveSettings") THEN "failed" ELSE note
  /\ lock' = IF Sent("status") THEN "disabled" ELSE lock
  /\ UNCHANGED <<storeVars, input, timer, opening, told>>

Now == Head(backlog)

\* The connection is closed, with an answer or without.
Answer(outcome, s, fresh) ==
  /\ backlog' = Tail(backlog) /\ serving' = "accept"
  /\ answers' = Answering(Now, outcome, s, fresh)
  /\ shown' = (shown /\ Now.kind # "saveSettings")
  /\ UNCHANGED <<pageVars, told>>

Fail == Answer("error", Defaults, FALSE)

AuthorisedAny(r) == TRUE

\* Every handler that changes something compares the token it is sent.
Authorised(r) == Guarded(r.kind) => r.known

\* The poll of 500 ms gives up and the connection is closed, or the recv of 2 s
\* does and the answer is an error.
Drop ==
  /\ serving = "accept" /\ backlog # <<>>
  /\ "slow" \in NetFaults
  /\ Answer("none", Defaults, FALSE) \/ Fail
  /\ UNCHANGED storeVars

\* HandleClient: the handler for this kind refuses the request, or goes on.
Handles(kind) ==
  /\ serving = "accept" /\ backlog # <<>>
  /\ Now.kind = kind

\* GetState for each hand.
ServeStatus ==
  /\ Handles("status")
  /\ \/ Answer("offline", Defaults, TRUE)
     \/ up /\ Answer("ok", Defaults, TRUE)
  /\ UNCHANGED storeVars

ServeSettings ==
  /\ Handles("loadSettings") \/ Handles("saveSettings")
  /\ \/ /\ Authorised(Now)
        /\ serving' = "settings"
        /\ Ask(IF Now.kind = "saveSettings" THEN Now.settings ELSE Read)
        /\ UNCHANGED <<backlog, answers, pageVars, history>>
     \/ ~Authorised(Now) /\ Fail /\ UNCHANGED storeVars

\* The RPC of ServeSettings is answered.
SettingsAnswered ==
  /\ serving = "settings" /\ Answered
  /\ \/ step = "ok" /\ Answer("ok", reply, told)
     \/ step = "failed" /\ Fail

\* The client's 8 s pass: the service did not get the RPC or died over it.
RpcTimeout ==
  /\ serving = "settings" /\ step = "none"
  /\ Fail
  /\ UNCHANGED storeVars

\* The handler makes one RPC of a request that it accepts.
Relay(kind) ==
  /\ Handles(kind)
  /\ \/ /\ Authorised(Now) /\ serving' = "relay"
        /\ UNCHANGED <<backlog, answers, pageVars, history>>
     \/ ~Authorised(Now) /\ Fail
  /\ UNCHANGED storeVars

ServeRegisters == Relay("registers")
ServePoseList == Relay("listPoses")
ServePoseSave == Relay("savePose")
\* ServePoseDelete, ServePoseRename and ServePoseDelays.
ServePoseChange == Relay("changePose")
ServePoseExecute == Relay("executePose")
ServeCommand == Relay("command")
ServeGrip == Relay("grip")
ServeClearFault == Relay("clearFault")

\* The service answers when it is done, with a pose after all its delays; or
\* 8 s have passed.
Relayed ==
  /\ serving = "relay"
  /\ Answer("ok", Defaults, FALSE) \/ Fail
  /\ UNCHANGED storeVars

Server ==
  \/ Drop \/ ServeStatus \/ ServeSettings \/ SettingsAnswered \/ RpcTimeout
  \/ ServeRegisters \/ ServePoseList \/ ServePoseSave \/ ServePoseChange
  \/ ServePoseExecute \/ ServeCommand \/ ServeGrip \/ ServeClearFault
  \/ Relayed

-----------------------------------------------------------------------------

\* The RPC goes on.
Rpc ==
  /\ ServeSettingsRpc
  /\ told' = (told \/ step = "get")
  /\ UNCHANGED <<webVars, pageVars, shown>>

OtherClient ==
  /\ \E s \in OtherSettings : SetByOther(s)
  /\ told' = FALSE /\ shown' = FALSE
  /\ answers' = Outdated(SettingKinds)
  /\ UNCHANGED <<serving, backlog, pageVars>>

\* What is left of an RPC whose server died.
Forsaken ==
  /\ serving # "settings" /\ Answered
  /\ UNCHANGED <<webVars, pageVars, history>>

Service ==
  /\ StartService \/ CrashService
  /\ UNCHANGED <<webVars, pageVars, history>>

Page ==
  \/ LoadPage \/ RefreshStatus \/ LoadSettings \/ SaveSettings \/ ToggleLock
  \/ \E f \in Fields, v \in Values : Choose(f, v)
  \/ \E k \in Others : Send(k)
  \/ \E i \in DOMAIN answers : Receive(i)

Next ==
  \/ Service \/ Rpc \/ OtherClient
  \/ Page
  \/ StartServer \/ StopServer \/ Server \/ Forsaken

Spec == Init /\ [][Next]_vars

\* The server runs, and the service's thread for its RPC; what was answered
\* arrives.  Nobody has to start either program.
Fairness ==
  /\ WF_vars(Server \/ Rpc)
  /\ WF_vars(answers # <<>> /\ Receive(1))

FairSpec == Spec /\ Fairness

-----------------------------------------------------------------------------
(***************************************************************************)
(* Properties.                                                             *)
(***************************************************************************)

\* Nothing of the page's settings is on its way, not even for a page that was
\* loaded before.
Quiet ==
  /\ ~timer /\ step = "none"
  /\ \A i \in DOMAIN backlog : backlog[i].kind \notin SettingKinds
  /\ \A i \in DOMAIN answers : answers[i].kind \notin SettingKinds

\* When the page says "saved" and nothing is on its way, its inputs show what
\* the service has in its file, whoever died in between.  Two exceptions:
\* another client has written settings since the ones shown were read, or the
\* answer to a save, or its reset, overtook one sent before it (378-383).
SavedIsStored == note = "saved" /\ Quiet /\ shown => input = StoredSettings

\* The page does not say "saving" for ever, whatever stands in the backlog
\* before its request, a pose with its delays included (1100).
SavingEnds == note = "saving" ~> note # "saving"

\* The service is asked to move a hand only for a page that was unlocked when
\* it sent the request and has its token from this server.
MovesAuthorised ==
  [][serving = "accept" /\ serving' = "relay" /\ Now.kind \in MoveKinds
       => Now.armed /\ Now.known]_vars
=============================================================================
