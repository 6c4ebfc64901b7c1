---------------------------- MODULE PoseLibrary ----------------------------
(***************************************************************************)
(* What the pose RPC promises its callers (src/docs/hand_service_api.md,   *)
(* section 9): a set of poses that changes in one step per request, never  *)
(* to be undone by a crash.  A caller is told that a request succeeded     *)
(* only when it took effect, and that it failed only when it did not.      *)
(***************************************************************************)
CONSTANTS Callers, Ids, NoId, Names, Delays

Requests ==
  [action : {"list"}] \cup
  [action : {"save"}, id : Ids \cup {NoId}, name : Names, delays : Delays] \cup
  [action : {"rename"}, id : Ids, name : Names] \cup
  [action : {"set_delays"}, id : Ids, delays : Delays] \cup
  [action : {"delete"}, id : Ids]

VARIABLES
  library,  \* the registered poses
  phase,    \* per caller: "idle", "asked", "done", "notFound", "failed"
  request,  \* what it asked for
  answer    \* the poses in the reply, once "done"

vars == <<library, phase, request, answer>>

Init ==
  /\ library = {}
  /\ phase = [c \in Callers |-> "idle"]
  /\ request = [c \in Callers |-> [action |-> "list"]]
  /\ answer = [c \in Callers |-> {}]

Ask(c, r) ==
  /\ phase[c] = "idle"
  /\ phase' = [phase EXCEPT ![c] = "asked"]
  /\ request' = [request EXCEPT ![c] = r]
  /\ UNCHANGED <<library, answer>>

\* The request takes effect: the poses without those in old and with those in
\* new, of which the reply shows shown.
Commit(c, old, new, shown) ==
  /\ phase[c] = "asked"
  /\ phase' = [phase EXCEPT ![c] = "done"]
  /\ library' = (library \ old) \cup new
  /\ answer' = [answer EXCEPT ![c] = shown]
  /\ UNCHANGED request

WithId(i) == {p \in library : p.id = i}

List(c) ==
  request[c].action = "list" /\ Commit(c, {}, {}, library)

\* A save with the id of a registered pose returns that pose.
SaveAgain(c) ==
  /\ request[c].action = "save" /\ WithId(request[c].id) # {}
  /\ Commit(c, {}, {}, WithId(request[c].id))

Save(c, i) ==
  LET r == request[c]
      p == [id |-> i, name |-> r.name, delays |-> r.delays]
  IN
  /\ r.action = "save" /\ WithId(i) = {}
  /\ i = r.id \/ r.id = NoId
  /\ Commit(c, {}, {p}, {p})

Rename(c) ==
  /\ request[c].action = "rename"
  /\ \E p \in WithId(request[c].id) :
       LET q == [p EXCEPT !.name = request[c].name]
       IN Commit(c, {p}, {q}, {q})

SetDelays(c) ==
  /\ request[c].action = "set_delays"
  /\ \E p \in WithId(request[c].id) :
       LET q == [p EXCEPT !.delays = request[c].delays]
       IN Commit(c, {p}, {q}, {q})

Delete(c) ==
  /\ request[c].action = "delete"
  /\ \E p \in WithId(request[c].id) : Commit(c, {p}, {}, {})

NotFound(c) ==
  /\ phase[c] = "asked"
  /\ request[c].action \in {"rename", "set_delays", "delete"}
  /\ WithId(request[c].id) = {}
  /\ phase' = [phase EXCEPT ![c] = "notFound"]
  /\ UNCHANGED <<library, request, answer>>

\* A change may fail to be stored.
Fail(c) ==
  /\ phase[c] = "asked" /\ request[c].action # "list"
  /\ phase' = [phase EXCEPT ![c] = "failed"]
  /\ UNCHANGED <<library, request, answer>>

Return(c) ==
  /\ phase[c] \in {"done", "notFound", "failed"}
  /\ phase' = [phase EXCEPT ![c] = "idle"]
  /\ request' = [request EXCEPT ![c] = [action |-> "list"]]
  /\ answer' = [answer EXCEPT ![c] = {}]
  /\ UNCHANGED library

\* A crash forgets the requests.  Those that took effect stay in effect.
Crash ==
  /\ phase' = [c \in Callers |-> "idle"]
  /\ request' = [c \in Callers |-> [action |-> "list"]]
  /\ answer' = [c \in Callers |-> {}]
  /\ UNCHANGED library

Next ==
  \/ \E c \in Callers :
       \/ \E r \in Requests : Ask(c, r)
       \/ List(c) \/ SaveAgain(c)
       \/ \E i \in Ids : Save(c, i)
       \/ Rename(c) \/ SetDelays(c) \/ Delete(c)
       \/ NotFound(c) \/ Fail(c) \/ Return(c)
  \/ Crash

Spec == Init /\ [][Next]_vars
=============================================================================
