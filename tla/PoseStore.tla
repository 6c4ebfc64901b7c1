----------------------------- MODULE PoseStore -----------------------------
(***************************************************************************)
(* PoseStore of src/src/rh56/persistent_store.hpp, behind HandRuntime's    *)
(* Poses: the registered poses in memory, the file that outlives the       *)
(* service, and the RPC threads that change both under one mutex.  The     *)
(* service may die at any point and be started again.                      *)
(*                                                                         *)
(* A pose is told apart by its id, name and delays; its positions are      *)
(* handled as its name is.  An id is what the service makes of a time and  *)
(* a counter, and a client may pass an id of the same form.  Requests with *)
(* fields out of range are refused before they touch anything.             *)
(***************************************************************************)
EXTENDS Integers, SequencesExt, JsonFile

CONSTANTS
  Workers,     \* RPC threads
  NoWorker,    \* "mutex_ is free"
  Times,       \* what system_clock may show, which can be set back
  ClientIds,   \* ids that clients pass
  Names, Delays,
  MaxPoses,    \* bound: poses kept at once
  MaxCounter   \* bound: ids generated per start of the service

ASSUME StoreWorkersAssumption == NoWorker \notin Workers
ASSUME StoreBoundsAssumption ==
  MaxPoses \in Nat /\ MaxCounter \in Nat
ASSUME TimesAssumption == Times # {} /\ Times \subseteq Nat
\* The time of a thread that has read none.
Epoch == CHOOSE t \in Times : TRUE

Ids == Times \X (1 .. MaxCounter)
NoId == <<>>
ASSUME ClientIdsAssumption == ClientIds \subseteq Ids

Pose == [id : Ids, name : Names, delays : Delays]
ASSUME ContentsAssumption ==
  Absent \notin Seq(Pose) /\ Torn \notin Seq(Pose) /\ Absent # Torn

VARIABLES
  up,       \* the service runs
  poses,    \* poses_
  counter,  \* id_counter_
  lock,     \* who holds mutex_
  pc,       \* where each RPC thread is
  request,  \* its request
  created,  \* the time it read before taking the mutex
  updated,  \* the new poses of the thread that holds the mutex
  result    \* the poses its reply will show

memoryVars == <<up, poses, counter>>
callVars == <<pc, request, created>>
vars == <<fileVars, memoryVars, lock, callVars, updated, result>>

Points == {"idle", "waiting", "write", "replace", "publish", "done",
           "notFound", "failed"}

ListRequest == [action |-> "list"]
Requests ==
  {ListRequest} \cup
  [action : {"save"}, id : ClientIds \cup {NoId}, name : Names,
   delays : Delays] \cup
  [action : {"rename"}, id : ClientIds, name : Names] \cup
  [action : {"set_delays"}, id : ClientIds, delays : Delays] \cup
  [action : {"delete"}, id : ClientIds]

\* Every variable keeps its type.
TypeOK ==
  /\ file \in Seq(Pose) \cup {Absent, Torn}
  /\ temporary \in Seq(Pose) \cup {Absent, Torn}
  /\ up \in BOOLEAN
  /\ poses \in Seq(Pose)
  /\ counter \in 0 .. MaxCounter
  /\ lock \in Workers \cup {NoWorker}
  /\ pc \in [Workers -> Points]
  /\ request \in [Workers -> Requests]
  /\ created \in [Workers -> Times]
  /\ updated \in Seq(Pose)
  /\ result \in [Workers -> Seq(Pose)]

Init ==
  /\ FileInit
  /\ up = FALSE /\ poses = <<>> /\ counter = 0
  /\ lock = NoWorker
  /\ pc = [w \in Workers |-> "idle"]
  /\ request = [w \in Workers |-> ListRequest]
  /\ created = [w \in Workers |-> Epoch]
  /\ updated = <<>>
  /\ result = [w \in Workers |-> <<>>]

-----------------------------------------------------------------------------

\* The constructor.  The counter starts again with the service.
Start ==
  /\ ~up
  /\ up' = TRUE
  /\ poses' = Loaded(<<>>)
  /\ counter' = 0
  /\ UNCHANGED <<fileVars, lock, callVars, updated, result>>

\* The process ends, for whatever reason and wherever its threads are.  Nobody
\* reads what it leaves in a temporary file: the next process writes one of
\* another name, or truncates this one.
Crash ==
  /\ up
  /\ up' = FALSE
  /\ poses' = <<>> /\ counter' = 0
  /\ lock' = NoWorker
  /\ pc' = [w \in Workers |-> "idle"]
  /\ request' = [w \in Workers |-> ListRequest]
  /\ created' = [w \in Workers |-> Epoch]
  /\ updated' = <<>>
  /\ result' = [w \in Workers |-> <<>>]
  /\ temporary' = Absent /\ UNCHANGED file

Goto(w, point) == pc' = [pc EXCEPT ![w] = point]
Show(w, ps) == result' = [result EXCEPT ![w] = ps]

\* A request arrives.  Save reads the clock before it takes the mutex.
Call(w, r, t) ==
  /\ up /\ pc[w] = "idle"
  /\ Goto(w, "waiting")
  /\ request' = [request EXCEPT ![w] = r]
  /\ created' = [created EXCEPT ![w] = t]
  /\ UNCHANGED <<fileVars, memoryVars, lock, updated, result>>

Registered(i) == {k \in DOMAIN poses : poses[k].id = i}
\* The place of the first pose with the id; empty when there is none.
Find(i) == {k \in Registered(i) : \A j \in Registered(i) : k <= j}

\* Every function of the store begins by taking the mutex.
Lock(w, action) ==
  /\ up /\ lock = NoWorker
  /\ pc[w] = "waiting" /\ request[w].action = action
  /\ UNCHANGED <<fileVars, up, poses, request, created>>

\* The critical section ends without a change.
Unchanged(w, point, shown) ==
  /\ Goto(w, point) /\ Show(w, shown)
  /\ UNCHANGED <<lock, counter, updated>>

\* Commit begins: StoreJson runs with the mutex held.
Commit(w, ps, shown) ==
  /\ Len(ps) <= MaxPoses
  /\ lock' = w
  /\ updated' = ps
  /\ Goto(w, "write") /\ Show(w, shown)

List(w) == Lock(w, "list") /\ Unchanged(w, "done", poses)

\* n is the counter of the next generated id: the first that makes an id
\* nobody has.
NextIdUnchecked(t, n) == n = counter + 1
NextId(t, n) ==
  /\ Registered(<<t, n>>) = {}
  /\ \A m \in counter + 1 .. n - 1 : Registered(<<t, m>>) # {}

Insert(w, i) ==
  LET pose == [id |-> i, name |-> request[w].name,
               delays |-> request[w].delays]
  IN Commit(w, <<pose>> \o poses, <<pose>>)

Save(w) ==
  LET i == request[w].id IN
  /\ Lock(w, "save")
  /\ \/ /\ i # NoId
        /\ \E k \in Find(i) : Unchanged(w, "done", <<poses[k]>>)
     \/ /\ i # NoId /\ Registered(i) = {}
        /\ Insert(w, i)
        /\ UNCHANGED counter
     \/ /\ i = NoId
        /\ \E n \in counter + 1 .. MaxCounter :
             /\ NextId(created[w], n)
             /\ counter' = n
             /\ Insert(w, <<created[w], n>>)

NotFound(w) ==
  Registered(request[w].id) = {} /\ Unchanged(w, "notFound", <<>>)

\* Update: one pose changed in a copy of poses_.
Update(w, k, pose) ==
  Commit(w, [poses EXCEPT ![k] = pose], <<pose>>) /\ UNCHANGED counter

Rename(w) ==
  /\ Lock(w, "rename")
  /\ \/ NotFound(w)
     \/ \E k \in Find(request[w].id) :
          Update(w, k, [poses[k] EXCEPT !.name = request[w].name])

SetDelays(w) ==
  /\ Lock(w, "set_delays")
  /\ \/ NotFound(w)
     \/ \E k \in Find(request[w].id) :
          Update(w, k, [poses[k] EXCEPT !.delays = request[w].delays])

Delete(w) ==
  /\ Lock(w, "delete")
  /\ \/ NotFound(w)
     \/ \E k \in Find(request[w].id) :
          Commit(w, RemoveAt(poses, k), <<>>) /\ UNCHANGED counter

\* An exception leaves StoreJson; the mutex is released on the way.
Throw(w) ==
  /\ Goto(w, "failed") /\ Show(w, <<>>)
  /\ lock' = NoWorker /\ updated' = <<>>

StoreInPlace(w) ==
  /\ up /\ pc[w] = "write"
  /\ file' = Torn /\ temporary' = updated
  /\ Goto(w, "replace")
  /\ UNCHANGED <<memoryVars, lock, request, created, updated, result>>

StoreTemporary(w) ==
  /\ up /\ pc[w] = "write"
  /\ \/ /\ WriteTemporary(updated)
        /\ Goto(w, "replace")
        /\ UNCHANGED <<lock, updated, result>>
     \/ WriteFails /\ Throw(w)
  /\ UNCHANGED <<memoryVars, request, created>>

ReplaceFileIgnoringErrors(w) ==
  /\ up /\ pc[w] = "replace"
  /\ Replace \/ ReplaceFails
  /\ Goto(w, "publish")
  /\ UNCHANGED <<memoryVars, request, created, lock, updated, result>>

ReplaceFile(w) ==
  /\ up /\ pc[w] = "replace"
  /\ \/ /\ Replace
        /\ Goto(w, "publish")
        /\ UNCHANGED <<lock, updated, result>>
     \/ ReplaceFails /\ Throw(w)
  /\ UNCHANGED <<memoryVars, request, created>>

\* poses_ = std::move(updated), and the mutex is released.
Publish(w) ==
  /\ up /\ pc[w] = "publish"
  /\ poses' = updated
  /\ updated' = <<>> /\ lock' = NoWorker
  /\ Goto(w, "done")
  /\ UNCHANGED <<fileVars, up, counter, request, created, result>>

\* The reply is sent.
Return(w) ==
  /\ up /\ pc[w] \in {"done", "notFound", "failed"}
  /\ Goto(w, "idle") /\ Show(w, <<>>)
  /\ request' = [request EXCEPT ![w] = ListRequest]
  /\ created' = [created EXCEPT ![w] = Epoch]
  /\ UNCHANGED <<fileVars, memoryVars, lock, updated>>

Next ==
  \/ Start \/ Crash
  \/ \E w \in Workers :
       \/ \E r \in Requests, t \in Times : Call(w, r, t)
       \/ List(w) \/ Save(w) \/ Rename(w) \/ SetDelays(w) \/ Delete(w)
       \/ StoreTemporary(w) \/ ReplaceFile(w) \/ Publish(w)
       \/ Return(w)

Spec == Init /\ [][Next]_vars

-----------------------------------------------------------------------------
(***************************************************************************)
(* Properties.                                                             *)
(***************************************************************************)

Stored == IF file \in {Absent, Torn} THEN {} ELSE Range(file)

\* What the service answers from is what a restart would find, except between
\* the rename and the assignment of one change, when the mutex is held
\* (hand_service_api.md:418: a change is persisted at once).
Persisted == up /\ lock = NoWorker => Range(poses) = Stored

\* No two poses share an id, in memory or on disk: not after a restart that
\* sets the counter back, nor with a clock that was set back (104-107).
UniqueIds ==
  \A ps \in {poses, updated} \cup ({file} \ {Absent, Torn}) :
    \A j, k \in DOMAIN ps : ps[j].id = ps[k].id => j = k

\* The callers see a PoseLibrary: the change happens when the file is replaced.
Phase(w) ==
  CASE pc[w] \in {"waiting", "write", "replace"} -> "asked"
    [] pc[w] \in {"publish", "done"} -> "done"
    [] OTHER -> pc[w]

Library == INSTANCE PoseLibrary WITH
  Callers <- Workers,
  library <- Stored,
  phase <- [w \in Workers |-> Phase(w)],
  answer <- [w \in Workers |->
               IF Phase(w) = "done" THEN Range(result[w]) ELSE {}]

LibrarySpec == Library!Spec
=============================================================================
