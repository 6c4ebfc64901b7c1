-------------------------- MODULE WebControlProofs --------------------------
(***************************************************************************)
(* What the web server and the settings promise for any fields, any other  *)
(* clients, and a page, a server and a service that die at any moment.     *)
(***************************************************************************)
EXTENDS WebControl, SequenceTheorems, TLAPS

-----------------------------------------------------------------------------
(***************************************************************************)
(* The store.                                                              *)
(***************************************************************************)

\* An RPC is in progress only while the service runs, and in Set only if it
\* carries settings.
StoreInv ==
  /\ StoreTypeOK
  /\ step # "none" => up
  /\ step \in {"write", "replace", "publish"} => request \in Settings

\* Without errors of the flush, memory and file agree but for the moment
\* between the rename and the assignment.
FileInv ==
  /\ file \in Settings \cup {Absent}
  /\ step = "replace" => temporary = request
  /\ step = "publish" => file = request
  /\ up /\ step # "publish" => settings = StoredSettings

\* What happens to the store, whoever does it.
StoreStep ==
  \/ StartService \/ CrashService \/ ServeSettingsRpc \/ Answered
  \/ \E r \in Settings \cup {Read} : Ask(r)
  \/ \E s \in Settings : SetByOther(s)
  \/ UNCHANGED storeVars

LEMMA StoreInvInit == Init => StoreInv /\ FileInv
BY SettingsAssumption
   DEF Init, StoreInit, FileInit, StoreInv, FileInv, StoreTypeOK, Steps,
       StoredSettings

LEMMA StoreInvStep ==
  ASSUME StoreInv, StoreStep
  PROVE  StoreInv'
<1> USE SettingsAssumption DEF StoreInv, StoreTypeOK, Steps, rpcVars, fileVars
<1>1. CASE StartService
  BY <1>1 DEF StartService, Loaded
<1>2. CASE CrashService
  BY <1>2 DEF CrashService
<1>3. CASE BeginSettings
  BY <1>3 DEF BeginSettings
<1>4. CASE StoreSettings
  BY <1>4 DEF StoreSettings, WriteTemporary, WriteFails
<1>5. CASE ReplaceSettings
  BY <1>5 DEF ReplaceSettings, Replace, ReplaceFails
<1>6. CASE PublishSettings
  BY <1>6 DEF PublishSettings
<1>7. CASE GetSettings
  BY <1>7 DEF GetSettings
<1>8. CASE Answered
  BY <1>8 DEF Answered
<1>9. CASE \E r \in Settings \cup {Read} : Ask(r)
  BY <1>9 DEF Ask
<1>10. CASE \E s \in Settings : SetByOther(s)
  BY <1>10 DEF SetByOther
<1>11. CASE UNCHANGED storeVars
  BY <1>11 DEF storeVars
<1>12. QED
  BY <1>1, <1>2, <1>3, <1>4, <1>5, <1>6, <1>7, <1>8, <1>9, <1>10, <1>11
     DEF StoreStep, ServeSettingsRpc

LEMMA FileInvStep ==
  ASSUME "flush" \notin StoreFaults, StoreInv, FileInv, StoreStep
  PROVE  FileInv'
<1> USE SettingsAssumption
    DEF StoreInv, FileInv, StoreTypeOK, Steps, rpcVars, fileVars, StoredSettings
<1>1. CASE StartService
  BY <1>1 DEF StartService, Loaded
<1>2. CASE CrashService
  BY <1>2 DEF CrashService
<1>3. CASE BeginSettings
  BY <1>3 DEF BeginSettings
<1>4. CASE StoreSettings
  BY <1>4 DEF StoreSettings, WriteTemporary, WriteFails
<1>5. CASE ReplaceSettings
  BY <1>5 DEF ReplaceSettings, Replace, ReplaceFails
<1>6. CASE PublishSettings
  BY <1>6 DEF PublishSettings
<1>7. CASE GetSettings
  BY <1>7 DEF GetSettings
<1>8. CASE Answered
  BY <1>8 DEF Answered
<1>9. CASE \E r \in Settings \cup {Read} : Ask(r)
  BY <1>9 DEF Ask
<1>10. CASE \E s \in Settings : SetByOther(s)
  BY <1>10 DEF SetByOther, MutexFree
<1>11. CASE UNCHANGED storeVars
  BY <1>11 DEF storeVars
<1>12. QED
  BY <1>1, <1>2, <1>3, <1>4, <1>5, <1>6, <1>7, <1>8, <1>9, <1>10, <1>11
     DEF StoreStep, ServeSettingsRpc
-----------------------------------------------------------------------------
(***************************************************************************)
(* The page's requests, and the answers to them.                           *)
(***************************************************************************)

PageTypeOK ==
  /\ serving \in {"down", "accept", "settings", "relay"}
  /\ backlog \in Seq(HttpRequests)
  /\ answers \in Seq(HttpAnswers)
  /\ input \in Settings /\ timer \in BOOLEAN
  /\ note \in Notes /\ opening \in BOOLEAN
  /\ token \in Tokens /\ lock \in {"disabled", "locked", "armed"}
  /\ told \in BOOLEAN /\ shown \in BOOLEAN

\* The server works for a request it has, and one for a move was sent by an
\* unlocked page.
BacklogInv ==
  /\ serving \in {"settings", "relay"} => backlog # <<>>
  /\ \A i \in DOMAIN backlog : backlog[i].kind \in MoveKinds => backlog[i].armed

\* The backlog with one more request, with the first one served, and with those
\* of a page that is loaded again.
LEMMA SendBacklog ==
  ASSUME PageTypeOK, BacklogInv, NEW k \in Kinds,
         k \in MoveKinds => lock = "armed", Fetch(k)
  PROVE  backlog' \in Seq(HttpRequests) /\ BacklogInv'
<1>1. /\ Request(k) \in HttpRequests /\ Request(k).kind = k
      /\ k \in MoveKinds => Request(k).armed
  BY SettingsAssumption DEF Request, HttpRequests, PageTypeOK, Guarded
<1>2. /\ backlog' = Append(backlog, Request(k)) /\ serving' = serving
      /\ backlog \in Seq(HttpRequests)
  BY DEF Fetch, PageTypeOK
<1>3. /\ backlog' \in Seq(HttpRequests)
      /\ DOMAIN backlog' = 1 .. Len(backlog) + 1 /\ DOMAIN backlog = 1 .. Len(backlog)
      /\ Len(backlog) \in Nat
      /\ backlog'[Len(backlog) + 1] = Request(k)
      /\ \A i \in DOMAIN backlog : backlog'[i] = backlog[i]
  BY <1>1, <1>2
<1>4. \A i \in DOMAIN backlog' : i \notin DOMAIN backlog => backlog'[i] = Request(k)
  BY <1>3
<1>5. \A i \in DOMAIN backlog' : backlog'[i].kind \in MoveKinds => backlog'[i].armed
  BY <1>1, <1>3, <1>4 DEF BacklogInv
<1>6. backlog' # <<>>
  BY <1>3
<1>7. QED
  BY <1>3, <1>5, <1>6 DEF BacklogInv

LEMMA ServedBacklog ==
  ASSUME PageTypeOK, BacklogInv, backlog # <<>>,
         backlog' = Tail(backlog), serving' = "accept"
  PROVE  backlog' \in Seq(HttpRequests) /\ BacklogInv'
<1>1. backlog \in Seq(HttpRequests) /\ Len(backlog) \in Nat \ {0}
  BY DEF PageTypeOK
<1>2. /\ backlog' \in Seq(HttpRequests)
      /\ DOMAIN backlog = 1 .. Len(backlog)
      /\ DOMAIN backlog' = 1 .. Len(backlog) - 1
      /\ \A i \in DOMAIN backlog' : backlog'[i] = backlog[i + 1]
  BY <1>1
<1>3. \A i \in DOMAIN backlog' : i \in Int /\ i + 1 \in DOMAIN backlog
  BY <1>1, <1>2
<1>4. \A i \in DOMAIN backlog' : backlog'[i].kind \in MoveKinds => backlog'[i].armed
  BY <1>2, <1>3 DEF BacklogInv
<1>5. QED
  BY <1>2, <1>4 DEF BacklogInv

LEMMA LoadBacklog ==
  ASSUME PageTypeOK, BacklogInv, LoadPage
  PROVE  /\ backlog' \in Seq(HttpRequests) /\ BacklogInv'
         /\ backlog # <<>> => Now'.kind = Now.kind
<1> DEFINE old == [i \in DOMAIN backlog |-> [backlog[i] EXCEPT !.orphan = TRUE]]
           n == Len(backlog)
<1>1. /\ Request("status") \in HttpRequests
      /\ Request("status").kind = "status"
  BY SettingsAssumption DEF Request, HttpRequests, Kinds, PageTypeOK, Guarded
<1>2. /\ backlog \in Seq(HttpRequests) /\ n \in Nat /\ DOMAIN backlog = 1 .. n
      /\ backlog' = Append(old, Request("status"))
  BY DEF LoadPage, PageTypeOK
<1>3. \A i \in DOMAIN backlog :
        /\ old[i] \in HttpRequests
        /\ old[i].kind = backlog[i].kind /\ old[i].armed = backlog[i].armed
  <2>1. TAKE i \in DOMAIN backlog
  <2>2. backlog[i] \in HttpRequests /\ old[i] = [backlog[i] EXCEPT !.orphan = TRUE]
    BY <1>2
  <2> HIDE DEF old
  <2>3. QED
    BY <2>2 DEF HttpRequests
<1>4. old \in Seq(HttpRequests) /\ Len(old) = n
  BY <1>2, <1>3
<1> HIDE DEF old
<1>5. /\ backlog' \in Seq(HttpRequests) /\ DOMAIN backlog' = 1 .. n + 1
      /\ backlog'[n + 1] = Request("status") /\ backlog' # <<>>
      /\ \A i \in 1 .. n : backlog'[i] = old[i]
  BY <1>1, <1>2, <1>4
<1>6. \A i \in DOMAIN backlog' : i \notin 1 .. n => i = n + 1
  BY <1>2, <1>5
<1>7. \A i \in DOMAIN backlog' : backlog'[i].kind \in MoveKinds => backlog'[i].armed
  BY <1>1, <1>2, <1>3, <1>5, <1>6 DEF BacklogInv, MoveKinds
<1>8. ASSUME backlog # <<>> PROVE Now'.kind = Now.kind
  <2>1. 1 \in 1 .. n /\ Now = backlog[1] /\ Now' = backlog'[1]
    BY <1>2, <1>5, <1>8 DEF Now
  <2>2. QED
    BY <1>2, <1>3, <1>5, <2>1
<1>9. QED
  BY <1>5, <1>7, <1>8 DEF BacklogInv

LEMMA SameBacklog ==
  ASSUME PageTypeOK, BacklogInv, UNCHANGED backlog,
         serving' \in {"settings", "relay"} => backlog # <<>>
  PROVE  backlog' \in Seq(HttpRequests) /\ BacklogInv'
BY DEF PageTypeOK, BacklogInv

\* Outdated changes nothing but freshness.
LEMMA OutdatedAnswers ==
  ASSUME PageTypeOK, NEW K
  PROVE  /\ Outdated(K) \in Seq(HttpAnswers)
         /\ Len(Outdated(K)) = Len(answers)
         /\ DOMAIN Outdated(K) = DOMAIN answers
         /\ \A i \in DOMAIN answers :
              /\ answers[i] \in HttpAnswers
              /\ Outdated(K)[i].kind = answers[i].kind
              /\ Outdated(K)[i].outcome = answers[i].outcome
              /\ Outdated(K)[i].settings = answers[i].settings
              /\ Outdated(K)[i].fresh =>
                   answers[i].fresh /\ answers[i].kind \notin K
<1> DEFINE new == Outdated(K)
<1>1. /\ answers \in Seq(HttpAnswers) /\ Len(answers) \in Nat
      /\ DOMAIN answers = 1 .. Len(answers)
  BY DEF PageTypeOK
<1>2. DOMAIN new = DOMAIN answers
  BY DEF Outdated
<1>3. \A i \in DOMAIN answers :
        /\ answers[i] \in HttpAnswers /\ new[i] \in HttpAnswers
        /\ new[i].kind = answers[i].kind /\ new[i].outcome = answers[i].outcome
        /\ new[i].settings = answers[i].settings
        /\ new[i].fresh => answers[i].fresh /\ answers[i].kind \notin K
  <2>1. TAKE i \in DOMAIN answers
  <2>2. /\ answers[i] \in HttpAnswers
        /\ new[i] = [answers[i] EXCEPT !.fresh = answers[i].fresh /\ answers[i].kind \notin K]
    BY <1>1 DEF Outdated
  <2> HIDE DEF new
  <2>3. QED
    BY <2>2 DEF HttpAnswers
<1> HIDE DEF new
<1>4. new \in Seq(HttpAnswers) /\ Len(new) = Len(answers)
  <2>1. new = [i \in 1 .. Len(answers) |-> new[i]]
    BY <1>1, <1>2 DEF new, Outdated
  <2>2. QED
    BY <1>1, <1>2, <1>3, <2>1
<1>5. QED
  BY <1>2, <1>3, <1>4 DEF new

\* An answer that would set the page's inputs, if nothing was written since.
Current(a) == a.kind \in SettingKinds /\ a.outcome = "ok" /\ a.fresh

\* After a request was answered, a current answer is the one to that request,
\* or one from before if the request was not a save.
LEMMA AnsweringAnswers ==
  ASSUME PageTypeOK, NEW r \in HttpRequests,
         NEW o \in {"ok", "offline", "error", "none"}, NEW s \in Settings,
         NEW f \in BOOLEAN, answers' = Answering(r, o, s, f)
  PROVE  /\ answers' \in Seq(HttpAnswers)
         /\ \A i \in DOMAIN answers' : Current(answers'[i]) =>
              \/ /\ i \in DOMAIN answers /\ Current(answers[i])
                 /\ answers'[i].settings = answers[i].settings
                 /\ r.kind # "saveSettings"
              \/ /\ r.kind \in SettingKinds
                 /\ answers'[i].settings = s /\ o = "ok" /\ f
<1> DEFINE K == IF r.kind = "saveSettings" THEN SettingKinds ELSE {}
           known == Outdated(K)
           one == [kind |-> r.kind, outcome |-> o, settings |-> s, fresh |-> f]
<1>1. /\ known \in Seq(HttpAnswers) /\ DOMAIN known = DOMAIN answers
      /\ \A i \in DOMAIN answers : Current(known[i]) =>
           /\ Current(answers[i]) /\ known[i].settings = answers[i].settings
           /\ r.kind # "saveSettings"
  BY OutdatedAnswers DEF Current
<1> HIDE DEF known
<1>2. CASE r.orphan \/ r.kind \in Others
  BY <1>1, <1>2 DEF Answering, known
<1>3. CASE ~(r.orphan \/ r.kind \in Others)
  <2>1. one \in HttpAnswers
    BY <1>3 DEF HttpAnswers, HttpRequests, Kinds
  <2>2. answers' = Append(known, one)
    BY <1>3 DEF Answering, known
  <2>3. Current(one) => r.kind \in SettingKinds /\ one.settings = s /\ o = "ok" /\ f
    BY DEF Current
  <2> HIDE DEF one
  <2>4. /\ answers' \in Seq(HttpAnswers)
        /\ \A i \in DOMAIN answers' :
             (i \in DOMAIN known /\ answers'[i] = known[i]) \/ answers'[i] = one
    BY <1>1, <2>1, <2>2
  <2>5. QED
    BY <1>1, <2>3, <2>4
<1>4. QED
  BY <1>2, <1>3

\* What is left when one is taken out was there before.
LEMMA ReceivingAnswers ==
  ASSUME PageTypeOK, NEW i \in DOMAIN answers, Receive(i)
  PROVE  /\ answers' \in Seq(HttpAnswers) /\ answers[i] \in HttpAnswers
         /\ \A j \in DOMAIN answers' : \E k \in DOMAIN answers : answers'[j] = answers[k]
<1> DEFINE n == Len(answers)
           a == SubSeq(answers, 1, i - 1)
           b == SubSeq(answers, i + 1, n)
<1>1. /\ answers \in Seq(HttpAnswers) /\ n \in Nat /\ DOMAIN answers = 1 .. n
      /\ i \in 1 .. n /\ answers' = a \o b
  BY DEF PageTypeOK, Receive
<1>2. /\ a \in Seq(HttpAnswers) /\ Len(a) = i - 1
      /\ \A j \in 1 .. i - 1 : a[j] = answers[j]
  BY <1>1
<1>3. /\ b \in Seq(HttpAnswers) /\ Len(b) = n - i
      /\ \A j \in 1 .. n - i : b[j] = answers[i + j]
  BY <1>1
<1> HIDE DEF a, b
<1>4. /\ answers' \in Seq(HttpAnswers) /\ Len(answers') = n - 1
      /\ \A j \in 1 .. (i - 1) + (n - i) : answers'[j] =
           IF j <= i - 1 THEN a[j] ELSE b[j - (i - 1)]
  <2>1. /\ a \o b \in Seq(HttpAnswers)
        /\ Len(a \o b) = Len(a) + Len(b)
        /\ \A j \in 1 .. Len(a) + Len(b) :
             (a \o b)[j] = IF j <= Len(a) THEN a[j] ELSE b[j - Len(a)]
    BY <1>2, <1>3, ConcatProperties
  <2>2. QED
    BY <1>1, <1>2, <1>3, <2>1
<1>5. ASSUME NEW j \in DOMAIN answers'
      PROVE  \E k \in DOMAIN answers : answers'[j] = answers[k]
  <2>1. j \in 1 .. n - 1 /\ j \in 1 .. (i - 1) + (n - i)
    BY <1>1, <1>4, <1>5
  <2>2. CASE j <= i - 1
    <3>1. j \in 1 .. i - 1 /\ j \in 1 .. n
      BY <1>1, <2>1, <2>2
    <3>2. answers'[j] = answers[j]
      BY <1>2, <1>4, <2>1, <2>2, <3>1
    <3>3. QED
      BY <1>1, <3>1, <3>2
  <2>3. CASE ~(j <= i - 1)
    <3>1. /\ j - (i - 1) \in 1 .. n - i /\ i + (j - (i - 1)) = j + 1
          /\ j + 1 \in 1 .. n
      BY <1>1, <2>1, <2>3
    <3>2. answers'[j] = answers[j + 1]
      BY <1>3, <1>4, <2>1, <2>3, <3>1
    <3>3. QED
      BY <1>1, <3>1, <3>2
  <2>4. QED
    BY <2>2, <2>3
<1>6. answers[i] \in HttpAnswers
  BY <1>1
<1>7. QED
  BY <1>4, <1>5, <1>6
-----------------------------------------------------------------------------
(***************************************************************************)
(* Types, and requests that move a hand.                                   *)
(***************************************************************************)

WebInv == StoreInv /\ PageTypeOK /\ BacklogInv

LEMMA WebInit == Init => WebInv
<1> SUFFICES ASSUME Init PROVE WebInv
  OBVIOUS
<1>1. backlog = <<>> /\ answers = <<>> /\ serving = "down" /\ input = Defaults
  BY DEF Init
<1>2. PageTypeOK
  <2>1. /\ backlog \in Seq(HttpRequests) /\ answers \in Seq(HttpAnswers)
        /\ input \in Settings
    BY <1>1, SettingsAssumption
  <2>2. QED
    BY <2>1 DEF Init, PageTypeOK, Notes, Tokens
<1>3. BacklogInv
  BY <1>1 DEF BacklogInv
<1>4. QED
  BY <1>2, <1>3, StoreInvInit DEF WebInv

\* Whoever takes a step, the store takes one of its own or none.
LEMMA NextIsStoreStep ==
  ASSUME WebInv, Next \/ UNCHANGED vars
  PROVE  StoreStep
<1>1. CASE Page
  BY <1>1 DEF Page, LoadPage, RefreshStatus, LoadSettings, SaveSettings,
     ToggleLock, Choose, Send, Receive, StoreStep
<1>2. CASE Server
  <2>1. CASE ServeSettings
    <3>1. Now \in HttpRequests
      BY <2>1 DEF ServeSettings, Handles, Now, WebInv, PageTypeOK
    <3>2. QED
      BY <2>1, <3>1 DEF ServeSettings, HttpRequests, StoreStep
  <2>2. CASE SettingsAnswered
    BY <2>2 DEF SettingsAnswered, StoreStep
  <2>3. CASE ~ServeSettings /\ ~SettingsAnswered
    BY <1>2, <2>3
       DEF Server, Drop, ServeStatus, RpcTimeout, ServeRegisters, ServePoseList,
           ServePoseSave, ServePoseChange, ServePoseExecute, ServeCommand,
           ServeGrip, ServeClearFault, Relay, Relayed, StoreStep
  <2>4. QED
    BY <2>1, <2>2, <2>3
<1>3. CASE Service \/ Rpc \/ Forsaken \/ StartServer \/ StopServer
  BY <1>3 DEF Service, Rpc, Forsaken, StartServer, StopServer, StoreStep
<1>4. CASE OtherClient
  BY <1>4, WebAssumption DEF OtherClient, StoreStep
<1>5. CASE UNCHANGED vars
  BY <1>5 DEF vars, StoreStep
<1>6. QED
  BY <1>1, <1>2, <1>3, <1>4, <1>5 DEF Next

LEMMA ReceiveStep ==
  ASSUME WebInv, NEW i \in DOMAIN answers, Receive(i)
  PROVE  PageTypeOK' /\ BacklogInv'
<1> DEFINE a == answers[i]
<1>1. /\ answers' \in Seq(HttpAnswers) /\ a \in HttpAnswers
      /\ UNCHANGED <<serving, backlog, told>>
      /\ ReceiveStatus(a) \/ ReceiveSettings(a)
  BY ReceivingAnswers DEF WebInv, Receive
<1> HIDE DEF a
<1>2. CASE ReceiveStatus(a)
  BY <1>1, <1>2, SameBacklog
     DEF ReceiveStatus, settingVars, WebInv, PageTypeOK, BacklogInv, Tokens
<1>3. CASE ReceiveSettings(a)
  <2>1. input' \in Settings /\ note' \in Notes /\ shown' \in BOOLEAN
    BY <1>1, <1>3
       DEF ReceiveSettings, FailedNote, HttpAnswers, WebInv, PageTypeOK, Notes
  <2>2. QED
    BY <1>1, <1>3, <2>1, SameBacklog
       DEF ReceiveSettings, WebInv, PageTypeOK, BacklogInv
<1>4. QED
  BY <1>1, <1>2, <1>3

LEMMA PageStep ==
  ASSUME WebInv, Page
  PROVE  PageTypeOK' /\ BacklogInv'
<1> USE DEF WebInv
<1>1. CASE LoadPage
  <2>1. answers' \in Seq(HttpAnswers)
    BY <1>1 DEF LoadPage
  <2>2. QED
    BY <1>1, <2>1, LoadBacklog, SettingsAssumption
       DEF LoadPage, PageTypeOK, Notes, Tokens
<1>2. CASE RefreshStatus
  <2>1. CASE Fetch("status")
    BY <1>2, <2>1, SendBacklog
       DEF RefreshStatus, Fetch, PageTypeOK, Kinds, MoveKinds, settingVars, history
  <2>2. CASE ~Fetch("status")
    BY <1>2, <2>2, SameBacklog
       DEF RefreshStatus, PageTypeOK, BacklogInv, webVars, settingVars, history
  <2>3. QED
    BY <2>1, <2>2
<1>3. CASE LoadSettings
  <2>1. CASE Fetch("loadSettings")
    BY <1>3, <2>1, SendBacklog
       DEF LoadSettings, Fetch, PageTypeOK, Kinds, SettingKinds, MoveKinds, history
  <2>2. CASE ~Fetch("loadSettings")
    BY <1>3, <2>2, SameBacklog
       DEF LoadSettings, PageTypeOK, BacklogInv, webVars, history
  <2>3. QED
    BY <2>1, <2>2
<1>4. CASE SaveSettings
  <2>1. CASE Fetch("saveSettings") /\ note' = "saving"
    BY <1>4, <2>1, SendBacklog
       DEF SaveSettings, Fetch, PageTypeOK, Kinds, SettingKinds, MoveKinds, Notes,
           history
  <2>2. CASE note' = "failed" /\ UNCHANGED webVars
    BY <1>4, <2>2, SameBacklog
       DEF SaveSettings, PageTypeOK, BacklogInv, webVars, Notes, history
  <2>3. QED
    BY <1>4, <2>1, <2>2 DEF SaveSettings
<1>5. CASE ToggleLock
  BY <1>5, SameBacklog
     DEF ToggleLock, PageTypeOK, BacklogInv, webVars, settingVars, history
<1>6. ASSUME NEW f \in Fields, NEW v \in Values, Choose(f, v)
      PROVE  PageTypeOK' /\ BacklogInv'
  <2>1. input' \in Settings
    BY <1>6, WebAssumption DEF Choose, PageTypeOK
  <2>2. QED
    BY <1>6, <2>1, SameBacklog DEF Choose, PageTypeOK, BacklogInv, webVars, history
<1>7. ASSUME NEW k \in Others, Send(k)
      PROVE  PageTypeOK' /\ BacklogInv'
  BY <1>7, SendBacklog
     DEF Send, MayMove, Fetch, PageTypeOK, Kinds, pageVars, settingVars, history
<1>8. QED
  BY <1>1, <1>2, <1>3, <1>4, <1>5, <1>6, <1>7, ReceiveStep DEF Page

LEMMA AnswerStep ==
  ASSUME WebInv, backlog # <<>>, NEW o \in {"ok", "offline", "error", "none"},
         NEW s \in Settings, NEW f \in BOOLEAN, Answer(o, s, f)
  PROVE  PageTypeOK' /\ BacklogInv'
<1>1. Now \in HttpRequests
  BY DEF Now, WebInv, PageTypeOK
<1>2. answers' \in Seq(HttpAnswers)
  BY <1>1, AnsweringAnswers DEF Answer, WebInv
<1>3. QED
  BY <1>2, ServedBacklog DEF Answer, WebInv, PageTypeOK, pageVars, settingVars

LEMMA FailStep ==
  ASSUME WebInv, backlog # <<>>, Fail
  PROVE  PageTypeOK' /\ BacklogInv'
BY AnswerStep, SettingsAssumption DEF Fail

LEMMA RelayStep ==
  ASSUME WebInv, NEW k, Relay(k)
  PROVE  PageTypeOK' /\ BacklogInv'
<1>1. backlog # <<>>
  BY DEF Relay, Handles
<1>2. CASE Fail
  BY <1>1, <1>2, FailStep
<1>3. CASE ~Fail
  BY <1>1, <1>3, SameBacklog
     DEF Relay, WebInv, PageTypeOK, BacklogInv, pageVars, settingVars, history
<1>4. QED
  BY <1>2, <1>3

LEMMA ServerStep ==
  ASSUME WebInv, Server
  PROVE  PageTypeOK' /\ BacklogInv'
<1>1. CASE Drop
  BY <1>1, FailStep, AnswerStep, SettingsAssumption DEF Drop
<1>2. CASE ServeStatus
  BY <1>2, AnswerStep, SettingsAssumption DEF ServeStatus, Handles
<1>3. CASE ServeSettings
  <2>1. backlog # <<>>
    BY <1>3 DEF ServeSettings, Handles
  <2>2. CASE Fail
    BY <2>1, <2>2, FailStep
  <2>3. CASE ~Fail
    BY <1>3, <2>1, <2>3, SameBacklog
       DEF ServeSettings, WebInv, PageTypeOK, BacklogInv, pageVars, settingVars, history
  <2>4. QED
    BY <2>2, <2>3
<1>4. CASE SettingsAnswered
  <2>1. backlog # <<>> /\ reply \in Settings /\ told \in BOOLEAN
    BY <1>4 DEF SettingsAnswered, WebInv, BacklogInv, StoreInv, StoreTypeOK, PageTypeOK
  <2>2. QED
    BY <1>4, <2>1, FailStep, AnswerStep DEF SettingsAnswered
<1>5. CASE RpcTimeout
  <2>1. backlog # <<>>
    BY <1>5 DEF RpcTimeout, WebInv, BacklogInv
  <2>2. QED
    BY <1>5, <2>1, FailStep DEF RpcTimeout
<1>6. CASE Relayed
  <2>1. backlog # <<>>
    BY <1>6 DEF Relayed, WebInv, BacklogInv
  <2>2. QED
    BY <1>6, <2>1, FailStep, AnswerStep, SettingsAssumption DEF Relayed
<1>7. CASE \/ ServeRegisters \/ ServePoseList \/ ServePoseSave
           \/ ServePoseChange \/ ServePoseExecute \/ ServeCommand
           \/ ServeGrip \/ ServeClearFault
  BY <1>7, RelayStep
     DEF ServeRegisters, ServePoseList, ServePoseSave, ServePoseChange,
         ServePoseExecute, ServeCommand, ServeGrip, ServeClearFault
<1>8. QED
  BY <1>1, <1>2, <1>3, <1>4, <1>5, <1>6, <1>7 DEF Server

LEMMA WebStep ==
  ASSUME WebInv, Next \/ UNCHANGED vars
  PROVE  WebInv'
<1>1. StoreInv'
  BY NextIsStoreStep, StoreInvStep DEF WebInv
<1>2. CASE Service \/ Rpc \/ Forsaken \/ UNCHANGED vars
  <2>1. told' \in BOOLEAN /\ shown' \in BOOLEAN
    BY <1>2 DEF Service, Rpc, Forsaken, vars, history, WebInv, PageTypeOK
  <2>2. UNCHANGED <<webVars, pageVars>>
    BY <1>2 DEF Service, Rpc, Forsaken, vars
  <2>3. QED
    BY <1>1, <2>1, <2>2
       DEF WebInv, PageTypeOK, BacklogInv, webVars, pageVars, settingVars
<1>3. CASE StartServer
  BY <1>1, <1>3
     DEF StartServer, WebInv, PageTypeOK, BacklogInv, pageVars, settingVars, history
<1>4. CASE StopServer
  <2>1. backlog' = <<>> /\ serving' = "down" /\ backlog' \in Seq(HttpRequests)
    BY <1>4 DEF StopServer
  <2>2. answers' \in Seq(HttpAnswers)
    BY <1>4, OutdatedAnswers DEF StopServer, WebInv
  <2>3. /\ note' \in Notes /\ token' \in Tokens /\ lock' \in {"disabled", "locked", "armed"}
        /\ shown' \in BOOLEAN /\ UNCHANGED <<input, timer, opening, told>>
    BY <1>4 DEF StopServer, WebInv, PageTypeOK, Tokens, Notes
  <2>4. BacklogInv'
    BY <2>1 DEF BacklogInv
  <2>5. QED
    BY <1>1, <2>1, <2>2, <2>3, <2>4 DEF WebInv, PageTypeOK
<1>5. CASE OtherClient
  <2>1. answers' \in Seq(HttpAnswers)
    BY <1>5, OutdatedAnswers DEF OtherClient, WebInv
  <2>2. QED
    BY <1>1, <1>5, <2>1
       DEF OtherClient, WebInv, PageTypeOK, BacklogInv, pageVars, settingVars
<1>6. QED
  BY <1>1, <1>2, <1>3, <1>4, <1>5, PageStep, ServerStep DEF Next, WebInv

\* Every variable keeps its type (TypeOK), whatever fails and for any settings.
THEOREM TypeCorrect == Spec => []TypeOK
<1>1. WebInv => TypeOK
  BY DEF WebInv, StoreInv, PageTypeOK, TypeOK
<1>2. WebInv /\ [Next]_vars => WebInv'
  BY WebStep
<1>3. QED
  BY <1>1, <1>2, WebInit, PTL DEF Spec

\* A hand is moved only for a page that was unlocked when it sent the request
\* and that had this server's token (405-411, 853-866 and the other handlers).
THEOREM MovesAreAuthorised == Spec => MovesAuthorised
<1> DEFINE Move == serving = "accept" /\ serving' = "relay" /\ Now.kind \in MoveKinds
                     => Now.armed /\ Now.known
<1>1. WebInv /\ [Next]_vars => WebInv'
  BY WebStep
<1>2. WebInv /\ [Next]_vars => [Move]_vars
  <2> SUFFICES ASSUME WebInv, Next, serving = "accept", serving' = "relay",
                      Now.kind \in MoveKinds
               PROVE  Now.armed /\ Now.known
    OBVIOUS
  <2>1. PICK k : Relay(k) /\ ~Fail
    <3>1. ~(Page \/ Service \/ Rpc \/ OtherClient \/ StartServer \/ StopServer \/ Forsaken)
      BY DEF Page, LoadPage, RefreshStatus, LoadSettings, SaveSettings, ToggleLock,
         Choose, Send, Receive, Fetch, Service, Rpc, OtherClient, StartServer,
         StopServer, Forsaken, webVars
    <3>2. ~(Drop \/ ServeStatus \/ ServeSettings \/ SettingsAnswered
             \/ RpcTimeout \/ Relayed)
      BY DEF Drop, ServeStatus, ServeSettings, SettingsAnswered, RpcTimeout,
         Relayed, Fail, Answer
    <3>3. QED
      BY <3>1, <3>2
         DEF Next, Server, ServeRegisters, ServePoseList, ServePoseSave,
             ServePoseChange, ServePoseExecute, ServeCommand, ServeGrip,
             ServeClearFault, Fail, Answer
  <2>2. Authorised(Now) /\ backlog # <<>>
    BY <2>1 DEF Relay, Handles
  <2>3. 1 \in DOMAIN backlog /\ Now = backlog[1]
    BY <2>2 DEF WebInv, PageTypeOK, Now
  <2>4. QED
    BY <2>2, <2>3 DEF Authorised, Guarded, WebInv, BacklogInv
<1>3. QED
  BY <1>1, <1>2, WebInit, PTL DEF Spec, MovesAuthorised
-----------------------------------------------------------------------------
(***************************************************************************)
(* What the page calls saved.                                              *)
(***************************************************************************)

NoSaves == \A i \in DOMAIN backlog : backlog[i].kind # "saveSettings"

\* Settings that are stored, and that no RPC is about to change.
Agrees(s) == s = StoredSettings /\ (step # "none" => request = Read)

\* An RPC that is done brings what is stored; so do the answers it became, as
\* long as no save comes after them, and the inputs that were set from one.
SavedInv ==
  /\ step = "ok" /\ told => reply = StoredSettings
  /\ NoSaves => \A i \in DOMAIN answers :
                  Current(answers[i]) => Agrees(answers[i].settings)
  /\ note = "saved" /\ shown /\ ~timer /\ NoSaves => Agrees(input)
  /\ serving = "relay" => Now.kind \notin SettingKinds

LEMMA SavedInvInit == Init => SavedInv
BY DEF Init, StoreInit, SavedInv

\* One more request leaves the first one and the saves where they are.
LEMMA FetchKeeps ==
  ASSUME WebInv, NEW k, Fetch(k)
  PROVE  /\ NoSaves' => NoSaves
         /\ backlog # <<>> => Now' = Now
<1>1. /\ backlog' = Append(backlog, Request(k)) /\ backlog \in Seq(HttpRequests)
      /\ DOMAIN backlog = 1 .. Len(backlog) /\ Len(backlog) \in Nat
  BY DEF Fetch, WebInv, PageTypeOK
<1>2. /\ \A i \in DOMAIN backlog : i \in DOMAIN backlog' /\ backlog'[i] = backlog[i]
      /\ backlog' # <<>>
  BY <1>1
<1>3. backlog # <<>> => 1 \in DOMAIN backlog
  BY <1>1
<1>4. backlog # <<>> => Head(backlog') = Head(backlog)
  BY <1>1, <1>2, <1>3
<1>5. QED
  BY <1>2, <1>4 DEF NoSaves, Now

\* Only the first request goes.
LEMMA ServedKeeps ==
  ASSUME WebInv, backlog # <<>>, backlog' = Tail(backlog),
         Now.kind # "saveSettings", NoSaves'
  PROVE  NoSaves
<1>1. /\ backlog \in Seq(HttpRequests)
      /\ DOMAIN backlog = 1 .. Len(backlog) /\ Len(backlog) \in Nat \ {0}
      /\ Now = backlog[1]
  BY DEF WebInv, PageTypeOK, Now
<1>2. \A i \in DOMAIN backlog :
        i # 1 => i - 1 \in DOMAIN backlog' /\ backlog'[i - 1] = backlog[i]
  BY <1>1
<1>3. QED
  BY <1>1, <1>2 DEF NoSaves

\* What is stored and the RPC stay as they are.
Still ==
  /\ StoredSettings' = StoredSettings /\ reply' = reply
  /\ step' = step /\ request' = request

\* A step that leaves the store and the answers alone, and "saved" to what it
\* was said of.
LEMMA SavedFrame ==
  ASSUME SavedInv, Still, UNCHANGED <<told, answers>>,
         NoSaves' => NoSaves,
         note' = "saved" /\ shown' /\ ~timer'
           => note = "saved" /\ shown /\ ~timer /\ input' = input,
         serving' = "relay" => Now'.kind \notin SettingKinds
  PROVE  SavedInv'
BY DEF SavedInv, Still, Agrees

LEMMA SavedPageStep ==
  ASSUME WebInv, SavedInv, Page
  PROVE  SavedInv'
<1>1. Still /\ UNCHANGED told
  BY DEF Still, Page, LoadPage, RefreshStatus, LoadSettings, SaveSettings, ToggleLock,
     Choose, Send, Receive, storeVars, rpcVars, fileVars, StoredSettings, history
<1>2. CASE LoadPage
  <2>1. answers' = <<>> /\ ~shown'
    BY <1>2 DEF LoadPage
  <2>2. serving' = "relay" => Now'.kind \notin SettingKinds
    BY <1>2, LoadBacklog DEF LoadPage, WebInv, BacklogInv, SavedInv
  <2>3. QED
    BY <1>1, <2>1, <2>2 DEF SavedInv, Still
<1>3. ASSUME NEW k, Fetch(k), shown' = shown,
             note' = "saved" => UNCHANGED <<note, input, timer>>
      PROVE  SavedInv'
  <2>1. /\ NoSaves' => NoSaves
        /\ serving' = "relay" => Now'.kind \notin SettingKinds
    BY <1>3, FetchKeeps DEF Fetch, WebInv, BacklogInv, SavedInv
  <2>2. UNCHANGED answers
    BY <1>3 DEF Fetch
  <2>3. QED
    BY <1>1, <1>3, <2>1, <2>2, SavedFrame
<1>4. ASSUME UNCHANGED webVars, shown' = shown,
             note' = "saved" /\ ~timer' => UNCHANGED <<note, input, timer>>
      PROVE  SavedInv'
  <2>1. /\ NoSaves' = NoSaves /\ Now' = Now
        /\ UNCHANGED <<serving, answers>>
    BY <1>4 DEF webVars, NoSaves, Now
  <2>2. QED
    BY <1>1, <1>4, <2>1, SavedFrame DEF SavedInv
<1>5. CASE RefreshStatus
  BY <1>3, <1>4, <1>5 DEF RefreshStatus, settingVars, history
<1>6. CASE LoadSettings
  BY <1>3, <1>4, <1>6 DEF LoadSettings, history
<1>7. CASE SaveSettings
  BY <1>3, <1>4, <1>7 DEF SaveSettings, history
<1>8. CASE ToggleLock
  BY <1>4, <1>8 DEF ToggleLock, settingVars, history
<1>9. ASSUME NEW f \in Fields, NEW v \in Values, Choose(f, v)
      PROVE  SavedInv'
  BY <1>4, <1>9 DEF Choose, history
<1>10. ASSUME NEW k \in Others, Send(k)
       PROVE  SavedInv'
  BY <1>3, <1>10 DEF Send, pageVars, settingVars, history
<1>11. ASSUME NEW i \in DOMAIN answers, Receive(i)
       PROVE  SavedInv'
  <2> DEFINE a == answers[i]
  <2>1. /\ a \in HttpAnswers
        /\ \A j \in DOMAIN answers' : \E k \in DOMAIN answers : answers'[j] = answers[k]
    BY <1>11, ReceivingAnswers DEF WebInv
  <2>2. UNCHANGED <<serving, backlog>> /\ NoSaves' = NoSaves /\ Now' = Now
    BY <1>11 DEF Receive, NoSaves, Now
  <2>3. \A s : Agrees(s)' <=> Agrees(s)
    BY <1>1 DEF Agrees, Still
  <2>4. NoSaves' => \A j \in DOMAIN answers' :
                      Current(answers'[j]) =>
                        \A x : x = answers'[j].settings => Agrees(x)'
    BY <2>1, <2>2, <2>3 DEF SavedInv
  <2>5. IF a.kind = "status" THEN ReceiveStatus(a) ELSE ReceiveSettings(a)
    BY <1>11 DEF Receive
  <2>6. a.kind # "status" => a.kind \in SettingKinds
    BY <2>1 DEF HttpAnswers
  <2>7. Current(a) /\ NoSaves => Agrees(a.settings)
    BY <1>11 DEF SavedInv
  <2> HIDE DEF a
  <2>8. note' = "saved" /\ shown' /\ ~timer' /\ NoSaves' => Agrees(input)'
    <3>1. CASE a.kind = "status"
      <4>1. UNCHANGED <<note, shown, timer, input>>
        BY <2>5, <3>1 DEF ReceiveStatus, settingVars
      <4>2. QED
        BY <1>1, <2>2, <4>1 DEF SavedInv, Agrees, Still
    <3>2. CASE a.kind # "status" /\ a.outcome = "ok"
      <4>1. input' = a.settings /\ shown' = a.fresh
        BY <2>5, <3>2 DEF ReceiveSettings
      <4>2. shown' => Current(a)
        BY <2>6, <3>2, <4>1 DEF Current
      <4>3. QED
        BY <1>1, <2>2, <2>7, <4>1, <4>2 DEF Agrees, Still
    <3>3. CASE a.kind # "status" /\ a.outcome # "ok"
      <4>1. UNCHANGED <<shown, timer, input>> /\ (note' = "saved" => note = "saved")
        BY <2>5, <3>3 DEF ReceiveSettings, FailedNote
      <4>2. QED
        BY <1>1, <2>2, <4>1 DEF SavedInv, Agrees, Still
    <3>4. QED
      BY <3>1, <3>2, <3>3
  <2>9. QED
    BY <1>1, <2>2, <2>4, <2>8 DEF SavedInv, Still
<1>12. QED
  BY <1>2, <1>5, <1>6, <1>7, <1>8, <1>9, <1>10, <1>11 DEF Page

\* The first request is answered, with current settings only if they are stored,
\* and the RPC has ended or was never made.
LEMMA SavedAnswerStep ==
  ASSUME WebInv, SavedInv, backlog # <<>>,
         NEW o \in {"ok", "offline", "error", "none"}, NEW s \in Settings,
         NEW f \in BOOLEAN, Answer(o, s, f),
         Now.kind \in SettingKinds /\ o = "ok" /\ f
           => s = StoredSettings /\ step' = "none",
         StoredSettings' = StoredSettings,
         (step' = step /\ reply' = reply /\ request' = request) \/ step' = "none"
  PROVE  SavedInv'
<1>1. /\ backlog' = Tail(backlog) /\ serving' = "accept"
      /\ answers' = Answering(Now, o, s, f)
      /\ shown' = (shown /\ Now.kind # "saveSettings")
      /\ UNCHANGED <<note, input, timer, told>>
  BY DEF Answer, pageVars, settingVars
<1>2. Now \in HttpRequests
  BY DEF Now, WebInv, PageTypeOK
<1>3. \A i \in DOMAIN answers' : Current(answers'[i]) =>
        \/ /\ i \in DOMAIN answers /\ Current(answers[i])
           /\ answers'[i].settings = answers[i].settings
           /\ Now.kind # "saveSettings"
        \/ /\ Now.kind \in SettingKinds
           /\ answers'[i].settings = s /\ o = "ok" /\ f
  BY <1>1, <1>2, AnsweringAnswers DEF WebInv
<1>4. NoSaves' /\ Now.kind # "saveSettings" => NoSaves
  BY <1>1, ServedKeeps
<1>5. \A x : Agrees(x) => Agrees(x)'
  BY DEF Agrees
<1>6. ASSUME NoSaves', NEW i \in DOMAIN answers', Current(answers'[i])
      PROVE  \A x : x = answers'[i].settings => Agrees(x)'
  <2>1. CASE /\ i \in DOMAIN answers /\ Current(answers[i])
             /\ answers'[i].settings = answers[i].settings
             /\ Now.kind # "saveSettings"
    BY <1>4, <1>5, <1>6, <2>1 DEF SavedInv
  <2>2. CASE /\ Now.kind \in SettingKinds
             /\ answers'[i].settings = s /\ o = "ok" /\ f
    BY <2>2 DEF Agrees
  <2>3. QED
    BY <1>3, <1>6, <2>1, <2>2
<1>7. note' = "saved" /\ shown' /\ ~timer' /\ NoSaves' => Agrees(input)'
  BY <1>1, <1>4, <1>5 DEF SavedInv
<1>8. step' = "ok" /\ told' => reply' = StoredSettings'
  BY <1>1 DEF SavedInv
<1>9. QED
  BY <1>1, <1>6, <1>7, <1>8 DEF SavedInv

LEMMA SavedFailStep ==
  ASSUME WebInv, SavedInv, backlog # <<>>, Fail \/ Answer("none", Defaults, FALSE),
         UNCHANGED storeVars \/ Answered
  PROVE  SavedInv'
<1>1. /\ StoredSettings' = StoredSettings
      /\ (step' = step /\ reply' = reply /\ request' = request) \/ step' = "none"
  BY DEF storeVars, rpcVars, fileVars, Answered, StoredSettings
<1>2. QED
  BY <1>1, SavedAnswerStep, SettingsAssumption DEF Fail

LEMMA SavedRelayStep ==
  ASSUME WebInv, SavedInv, NEW k, k \notin SettingKinds, Relay(k)
  PROVE  SavedInv'
<1>1. backlog # <<>> /\ UNCHANGED storeVars /\ Now.kind = k
  BY DEF Relay, Handles
<1>2. CASE Fail
  BY <1>1, <1>2, SavedFailStep
<1>3. CASE ~Fail
  <2>1. UNCHANGED <<backlog, answers, pageVars, history>>
    BY <1>3 DEF Relay
  <2>2. Still /\ Now' = Now /\ NoSaves' = NoSaves
    BY <1>1, <2>1 DEF Still, storeVars, rpcVars, fileVars, StoredSettings, Now, NoSaves
  <2>3. QED
    BY <1>1, <2>1, <2>2, SavedFrame DEF pageVars, settingVars, history
<1>4. QED
  BY <1>2, <1>3

LEMMA SavedServerStep ==
  ASSUME WebInv, SavedInv, Server
  PROVE  SavedInv'
<1>1. CASE Drop
  BY <1>1, SavedFailStep DEF Drop
<1>2. CASE ServeStatus
  <2>1. backlog # <<>> /\ Now.kind = "status" /\ UNCHANGED storeVars
    BY <1>2 DEF ServeStatus, Handles
  <2>2. PICK o \in {"ok", "offline"} : Answer(o, Defaults, TRUE)
    BY <1>2 DEF ServeStatus
  <2>3. Still
    BY <2>1 DEF Still, storeVars, rpcVars, fileVars, StoredSettings
  <2>4. QED
    BY <2>1, <2>2, <2>3, SavedAnswerStep, SettingsAssumption DEF Still, SettingKinds
<1>3. CASE ServeSettings
  <2>1. backlog # <<>>
    BY <1>3 DEF ServeSettings, Handles
  <2>2. CASE Fail
    <3>1. UNCHANGED storeVars
      BY <1>3, <2>2 DEF ServeSettings, Fail, Answer
    <3>2. QED
      BY <2>1, <2>2, <3>1, SavedFailStep
  <2>3. CASE ~Fail
    <3>1. /\ serving' = "settings" /\ UNCHANGED <<backlog, answers, pageVars, history>>
          /\ Ask(IF Now.kind = "saveSettings" THEN Now.settings ELSE Read)
      BY <1>3, <2>3 DEF ServeSettings
    <3>2. NoSaves => Now.kind # "saveSettings"
      BY <2>1 DEF NoSaves, Now, WebInv, PageTypeOK
    <3>3. StoredSettings' = StoredSettings /\ (step' = "ok" => FALSE) /\ NoSaves' = NoSaves
      BY <3>1 DEF Ask, fileVars, StoredSettings, NoSaves, SavedInv
    <3>4. ASSUME NoSaves, NEW x, Agrees(x) PROVE Agrees(x)'
      BY <3>1, <3>2, <3>3, <3>4 DEF Ask, Agrees
    <3>5. UNCHANGED <<answers, note, shown, timer, input>>
      BY <3>1 DEF pageVars, settingVars, history
    <3>6. QED
      BY <3>1, <3>3, <3>4, <3>5 DEF SavedInv
  <2>4. QED
    BY <2>2, <2>3
<1>4. CASE SettingsAnswered
  <2>1. backlog # <<>> /\ reply \in Settings /\ told \in BOOLEAN
    BY <1>4 DEF SettingsAnswered, WebInv, BacklogInv, StoreInv, StoreTypeOK, PageTypeOK
  <2>2. Answered /\ step' = "none" /\ StoredSettings' = StoredSettings
    BY <1>4 DEF SettingsAnswered, Answered, fileVars, StoredSettings
  <2>3. CASE Fail
    BY <2>1, <2>2, <2>3, SavedFailStep
  <2>4. CASE step = "ok" /\ Answer("ok", reply, told)
    <3>1. told => reply = StoredSettings
      BY <2>4 DEF SavedInv
    <3>2. QED
      BY <2>1, <2>2, <2>4, <3>1, SavedAnswerStep
  <2>5. QED
    BY <1>4, <2>3, <2>4 DEF SettingsAnswered
<1>5. CASE RpcTimeout
  <2>1. backlog # <<>>
    BY <1>5 DEF RpcTimeout, WebInv, BacklogInv
  <2>2. QED
    BY <1>5, <2>1, SavedFailStep DEF RpcTimeout
<1>6. CASE Relayed
  <2>1. backlog # <<>> /\ UNCHANGED storeVars
    BY <1>6 DEF Relayed, WebInv, BacklogInv
  <2>2. CASE Fail
    BY <2>1, <2>2, SavedFailStep
  <2>3. CASE Answer("ok", Defaults, FALSE)
    <3>1. Still
      BY <2>1 DEF Still, storeVars, rpcVars, fileVars, StoredSettings
    <3>2. QED
      BY <2>1, <2>3, <3>1, SavedAnswerStep, SettingsAssumption DEF Still
  <2>4. QED
    BY <1>6, <2>2, <2>3 DEF Relayed
<1>7. CASE \/ ServeRegisters \/ ServePoseList \/ ServePoseSave
           \/ ServePoseChange \/ ServePoseExecute \/ ServeCommand
           \/ ServeGrip \/ ServeClearFault
  BY <1>7, SavedRelayStep
     DEF ServeRegisters, ServePoseList, ServePoseSave, ServePoseChange,
         ServePoseExecute, ServeCommand, ServeGrip, ServeClearFault, SettingKinds
<1>8. QED
  BY <1>1, <1>2, <1>3, <1>4, <1>5, <1>6, <1>7 DEF Server

LEMMA SavedStep ==
  ASSUME "flush" \notin StoreFaults, WebInv, FileInv, SavedInv,
         Next \/ UNCHANGED vars
  PROVE  SavedInv'
<1>1. CASE Page
  BY <1>1, SavedPageStep
<1>2. CASE Server
  BY <1>2, SavedServerStep
<1>3. CASE Service \/ Forsaken
  <2>1. UNCHANGED <<webVars, pageVars, history>>
    BY <1>3 DEF Service, Forsaken
  <2>2. /\ StoredSettings' = StoredSettings
        /\ (step' = step /\ reply' = reply /\ request' = request) \/ step' = "none"
    BY <1>3
       DEF Service, Forsaken, StartService, CrashService, Answered, rpcVars,
           fileVars, StoredSettings
  <2>3. \A x : Agrees(x) => Agrees(x)'
    BY <2>2 DEF Agrees
  <2>4. /\ UNCHANGED <<serving, answers, note, shown, told, timer, input>>
        /\ NoSaves' = NoSaves /\ Now' = Now
    BY <2>1 DEF webVars, pageVars, settingVars, history, NoSaves, Now
  <2>5. QED
    BY <2>2, <2>3, <2>4 DEF SavedInv
<1>4. CASE Rpc
  <2>1. step \in {"write", "replace", "publish"} => request # Read
    BY SettingsAssumption DEF WebInv, StoreInv
  <2>2. UNCHANGED <<webVars, pageVars, shown>> /\ request' = request
    BY <1>4 DEF Rpc, ServeSettingsRpc, BeginSettings, StoreSettings,
       ReplaceSettings, PublishSettings, GetSettings
  <2>3. step' = "ok" => step = "get" /\ reply' = settings /\ UNCHANGED file
    BY <1>4 DEF Rpc, ServeSettingsRpc, BeginSettings, StoreSettings,
       ReplaceSettings, PublishSettings, GetSettings, fileVars
  <2>4. step' = "ok" => reply' = StoredSettings'
    BY <2>3 DEF FileInv, WebInv, StoreInv, StoredSettings
  <2>5. request = Read => UNCHANGED file
    BY <1>4, <2>1 DEF Rpc, ServeSettingsRpc, BeginSettings, StoreSettings,
       ReplaceSettings, PublishSettings, GetSettings, fileVars
  <2>6. step # "none"
    BY <1>4 DEF Rpc, ServeSettingsRpc, BeginSettings, StoreSettings,
       ReplaceSettings, PublishSettings, GetSettings
  <2>7. \A x : Agrees(x) => Agrees(x)'
    BY <2>2, <2>5, <2>6 DEF Agrees, StoredSettings
  <2>8. /\ UNCHANGED <<serving, answers, note, shown, timer, input>>
        /\ NoSaves' = NoSaves /\ Now' = Now
    BY <2>2 DEF webVars, pageVars, settingVars, NoSaves, Now
  <2>9. QED
    BY <2>4, <2>7, <2>8 DEF SavedInv
<1>5. CASE OtherClient
  <2>1. ~told' /\ ~shown' /\ answers' = Outdated(SettingKinds)
    BY <1>5 DEF OtherClient
  <2>2. \A i \in DOMAIN answers' : ~Current(answers'[i])
    BY <2>1, OutdatedAnswers DEF Current, WebInv
  <2>3. UNCHANGED serving /\ Now' = Now
    BY <1>5 DEF OtherClient, Now
  <2>4. QED
    BY <2>1, <2>2, <2>3 DEF SavedInv
<1>6. CASE StartServer
  <2>1. /\ Still /\ UNCHANGED <<told, answers, note, shown, timer, input>>
        /\ NoSaves' = NoSaves /\ serving' = "accept"
    BY <1>6 DEF StartServer, Still, storeVars, rpcVars, fileVars, StoredSettings,
       pageVars, settingVars, history, NoSaves
  <2>2. QED
    BY <2>1, SavedFrame
<1>7. CASE StopServer
  <2> DEFINE saves == \E i \in DOMAIN backlog : backlog[i].kind = "saveSettings"
             K == {"status"} \cup IF saves THEN SettingKinds ELSE {}
  <2>1. /\ Still /\ UNCHANGED <<told, timer, input>> /\ serving' = "down"
        /\ answers' = Outdated(K) /\ shown' = (shown /\ ~saves)
        /\ note' = "saved" => note = "saved"
    BY <1>7 DEF StopServer, Still, storeVars, rpcVars, fileVars, StoredSettings
  <2>2. ~saves => NoSaves
    BY DEF NoSaves
  <2>3. /\ DOMAIN Outdated(K) = DOMAIN answers
        /\ \A i \in DOMAIN answers : Current(Outdated(K)[i]) =>
             /\ Current(answers[i]) /\ ~saves
             /\ Outdated(K)[i].settings = answers[i].settings
    BY OutdatedAnswers DEF Current, WebInv
  <2>4. \A x : Agrees(x)' <=> Agrees(x)
    BY <2>1 DEF Agrees, Still
  <2> HIDE DEF saves, K
  <2>5. ASSUME NEW i \in DOMAIN answers', Current(answers'[i])
        PROVE  \A x : x = answers'[i].settings => Agrees(x)'
    BY <2>1, <2>2, <2>3, <2>4, <2>5 DEF SavedInv
  <2>6. QED
    BY <2>1, <2>2, <2>4, <2>5 DEF SavedInv, Still
<1>8. CASE UNCHANGED vars
  <2>1. /\ Still /\ UNCHANGED <<told, answers, note, shown, timer, input, serving>>
        /\ NoSaves' = NoSaves /\ Now' = Now
    BY <1>8
       DEF vars, Still, storeVars, rpcVars, fileVars, webVars, pageVars,
           settingVars, history, NoSaves, Now, StoredSettings
  <2>2. QED
    BY <2>1, SavedFrame DEF SavedInv
<1>9. QED
  BY <1>1, <1>2, <1>3, <1>4, <1>5, <1>6, <1>7, <1>8 DEF Next

\* If errors of the flush are excluded, what the page calls saved is what a
\* restart of the service would find, whatever else fails and whoever dies.
\* Exceptions, as in the property: another client wrote since, or the answer
\* to a save, or its reset, overtook one sent before it.
THEOREM SavedIsStoredAlways ==
  ASSUME "flush" \notin StoreFaults
  PROVE  Spec => []SavedIsStored
<1> DEFINE Inv == WebInv /\ FileInv /\ SavedInv
<1>1. Init => Inv
  BY WebInit, StoreInvInit, SavedInvInit
<1>2. Inv /\ [Next]_vars => Inv'
  BY WebStep, SavedStep, NextIsStoreStep, FileInvStep DEF WebInv
<1>3. Inv => SavedIsStored
  BY DEF SavedInv, SavedIsStored, Quiet, NoSaves, SettingKinds, Agrees
<1>4. QED
  BY <1>1, <1>2, <1>3, PTL DEF Spec
=============================================================================
