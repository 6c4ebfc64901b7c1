---------------------------- MODULE SettingsStore ----------------------------
(***************************************************************************)
(* SettingsStore of src/src/rh56/persistent_store.hpp behind HandRuntime's *)
(* Settings: the settings in memory, the file that outlives the service,   *)
(* and one RPC in progress that reads or writes them.  A write is answered *)
(* with what a second critical section reads back.  Of another client's    *)
(* write only the whole is seen, since Set keeps the mutex throughout; and *)
(* one with values out of range is refused before it touches anything.     *)
(***************************************************************************)
EXTENDS Integers, Sequences, JsonFile

CONSTANTS
  Settings,  \* settings that ValidSettings accepts
  Defaults,  \* those of a service that has no file
  Read       \* the request of an RPC that only reads

ASSUME SettingsAssumption ==
  /\ Defaults \in Settings
  /\ {Read, Absent, Torn} \cap Settings = {}

VARIABLES
  up,        \* the service runs
  settings,  \* settings_
  step,      \* where the RPC is: "none", "asked", then in Set "write",
             \* "replace" and "publish", then "get", "ok" or "failed"
  request,   \* what it asked to write, or Read
  reply      \* the settings that it is answered with

rpcVars == <<step, request, reply>>
storeVars == <<fileVars, up, settings, rpcVars>>

Steps == {"none", "asked", "write", "replace", "publish", "get", "ok", "failed"}

StoreTypeOK ==
  /\ file \in Settings \cup {Absent, Torn}
  /\ temporary \in Settings \cup {Absent, Torn}
  /\ up \in BOOLEAN
  /\ settings \in Settings
  /\ step \in Steps
  /\ request \in Settings \cup {Read}
  /\ reply \in Settings

StoreInit ==
  /\ FileInit
  /\ up = FALSE /\ settings = Defaults
  /\ step = "none" /\ request = Read /\ reply = Defaults

\* The constructor.
StartService ==
  /\ ~up /\ up' = TRUE
  /\ settings' = Loaded(Defaults)
  /\ UNCHANGED <<fileVars, rpcVars>>

\* The process ends, wherever its threads are.  What it leaves of a temporary
\* file has its process id in the name and is never read.
CrashService ==
  /\ up /\ up' = FALSE
  /\ settings' = Defaults
  /\ step' = "none" /\ request' = Read /\ reply' = Defaults
  /\ temporary' = Absent /\ UNCHANGED file

\* An RPC reaches the service; one that finds none stays unanswered.
Ask(r) ==
  /\ step = "none"
  /\ IF up THEN step' = "asked" /\ request' = r ELSE UNCHANGED <<step, request>>
  /\ UNCHANGED <<fileVars, up, settings, reply>>

MutexFree == step \notin {"write", "replace", "publish"}

\* Settings tests request.write; Set takes the mutex and calls StoreJson.
BeginSettings ==
  /\ step = "asked"
  /\ step' = IF request = Read THEN "get" ELSE "write"
  /\ UNCHANGED <<fileVars, up, settings, request, reply>>

StoreSettings ==
  /\ step = "write"
  /\ \/ WriteTemporary(request) /\ step' = "replace"
     \/ WriteFails /\ step' = "failed"
  /\ UNCHANGED <<up, settings, request, reply>>

\* StoreJson that does not look at what the rename returns.
ReplaceSettingsUnchecked ==
  /\ step = "replace" /\ step' = "publish"
  /\ Replace \/ ReplaceFails
  /\ UNCHANGED <<up, settings, request, reply>>

ReplaceSettings ==
  /\ step = "replace"
  /\ \/ Replace /\ step' = "publish"
     \/ ReplaceFails /\ step' = "failed"
  /\ UNCHANGED <<up, settings, request, reply>>

\* settings_ = settings, and the mutex is released.
PublishSettings ==
  /\ step = "publish" /\ step' = "get"
  /\ settings' = request
  /\ UNCHANGED <<fileVars, up, request, reply>>

GetSettings ==
  /\ step = "get" /\ step' = "ok"
  /\ reply' = settings
  /\ UNCHANGED <<fileVars, up, settings, request>>

\* The reply has reached the client.
Answered ==
  /\ step \in {"ok", "failed"} /\ step' = "none"
  /\ request' = Read /\ reply' = Defaults
  /\ UNCHANGED <<fileVars, up, settings>>

ServeSettingsRpc ==
  \/ BeginSettings \/ StoreSettings \/ ReplaceSettings \/ PublishSettings
  \/ GetSettings

\* Set of another client, when it succeeds.
SetByOther(s) ==
  /\ up /\ MutexFree
  /\ file' = s /\ settings' = s
  /\ UNCHANGED <<temporary, up, rpcVars>>

\* What a restart would find.
StoredSettings == IF file \in {Absent, Torn} THEN Defaults ELSE file
=============================================================================
