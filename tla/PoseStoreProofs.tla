-------------------------- MODULE PoseStoreProofs --------------------------
(***************************************************************************)
(* What PoseStore promises for any number of threads, any ids and any      *)
(* crashes.                                                                *)
(***************************************************************************)
EXTENDS PoseStore, SequenceTheorems, TLAPS

-----------------------------------------------------------------------------
(***************************************************************************)
(* Sequences of poses.                                                     *)
(***************************************************************************)

\* No two poses of the sequence share an id.
Distinct(ps) == \A j, k \in DOMAIN ps : ps[j].id = ps[k].id => j = k

\* A pose with a new id, put first.
LEMMA InsertDistinct ==
  ASSUME NEW ps \in Seq(Pose), NEW p \in Pose, Distinct(ps),
         \A k \in DOMAIN ps : ps[k].id # p.id
  PROVE  <<p>> \o ps \in Seq(Pose) /\ Distinct(<<p>> \o ps)
<1> DEFINE qs == <<p>> \o ps
<1>1. /\ qs \in Seq(Pose) /\ Len(qs) = Len(ps) + 1
      /\ qs[1] = p
      /\ \A k \in 2 .. Len(qs) : qs[k] = ps[k - 1]
  OBVIOUS
<1>2. ASSUME NEW j \in DOMAIN qs, NEW k \in DOMAIN qs, qs[j].id = qs[k].id
      PROVE  j = k
  <2>1. CASE j = 1 \/ k = 1
    BY <1>1, <1>2, <2>1
  <2>2. CASE j # 1 /\ k # 1
    <3>1. /\ j - 1 \in DOMAIN ps /\ k - 1 \in DOMAIN ps
          /\ qs[j] = ps[j - 1] /\ qs[k] = ps[k - 1]
      BY <1>1, <2>2
    <3>2. j - 1 = k - 1
      BY <1>2, <3>1 DEF Distinct
    <3>3. QED
      BY <3>2, <1>1
  <2>3. QED
    BY <2>1, <2>2
<1>3. QED
  BY <1>1, <1>2 DEF Distinct

\* A pose replaced by one with the same id.
LEMMA UpdateDistinct ==
  ASSUME NEW ps \in Seq(Pose), NEW k \in DOMAIN ps, NEW p \in Pose,
         Distinct(ps), p.id = ps[k].id
  PROVE  /\ [ps EXCEPT ![k] = p] \in Seq(Pose)
         /\ Distinct([ps EXCEPT ![k] = p])
<1> DEFINE qs == [ps EXCEPT ![k] = p]
<1>1. qs \in Seq(Pose) /\ DOMAIN qs = DOMAIN ps
  OBVIOUS
<1>2. \A j \in DOMAIN ps : qs[j].id = ps[j].id
  OBVIOUS
<1>3. QED
  BY <1>1, <1>2 DEF Distinct

\* The elements of a sequence with one left out.
LEMMA RemoveElements ==
  ASSUME NEW ps \in Seq(Pose), NEW k \in DOMAIN ps
  PROVE  /\ RemoveAt(ps, k) \in Seq(Pose)
         /\ Len(RemoveAt(ps, k)) = Len(ps) - 1
         /\ \A j \in 1 .. Len(ps) - 1 :
              RemoveAt(ps, k)[j] = ps[IF j < k THEN j ELSE j + 1]
<1> DEFINE qs == RemoveAt(ps, k)
           a == SubSeq(ps, 1, k - 1)
           b == SubSeq(ps, k + 1, Len(ps))
<1>1. k \in 1 .. Len(ps) /\ Len(ps) \in Nat
  OBVIOUS
<1>2. a \in Seq(Pose) /\ Len(a) = k - 1 /\ \A j \in 1 .. k - 1 : a[j] = ps[j]
  BY <1>1, SubSeqProperties
<1>3. /\ b \in Seq(Pose) /\ Len(b) = Len(ps) - k
      /\ \A j \in 1 .. Len(ps) - k : b[j] = ps[k + j]
  BY <1>1, SubSeqProperties
<1>4. qs = a \o b
  BY DEF RemoveAt
<1> HIDE DEF a, b, qs
<1>5. qs \in Seq(Pose) /\ Len(qs) = Len(ps) - 1
  BY <1>1, <1>2, <1>3, <1>4
<1>6. ASSUME NEW j \in 1 .. Len(ps) - 1
      PROVE  qs[j] = ps[IF j < k THEN j ELSE j + 1]
  <2>1. CASE j < k
    <3>1. qs[j] = a[j] /\ j \in 1 .. k - 1
      BY <1>1, <1>2, <1>3, <1>4, <2>1
    <3>2. QED
      BY <1>2, <2>1, <3>1
  <2>2. CASE ~(j < k)
    <3>1. /\ j - (k - 1) \in 1 .. Len(ps) - k /\ k + (j - (k - 1)) = j + 1
          /\ qs[j] = b[j - (k - 1)]
      BY <1>1, <1>2, <1>3, <1>4, <2>2
    <3>2. b[j - (k - 1)] = ps[k + (j - (k - 1))]
      BY <1>3, <3>1
    <3>3. QED
      BY <2>2, <3>1, <3>2
  <2>3. QED
    BY <2>1, <2>2
<1>7. QED
  BY <1>5, <1>6 DEF qs

\* A pose left out.
LEMMA RemoveDistinct ==
  ASSUME NEW ps \in Seq(Pose), NEW k \in DOMAIN ps, Distinct(ps)
  PROVE  RemoveAt(ps, k) \in Seq(Pose) /\ Distinct(RemoveAt(ps, k))
<1> DEFINE qs == RemoveAt(ps, k)
           old(j) == IF j < k THEN j ELSE j + 1
<1>1. /\ qs \in Seq(Pose) /\ Len(qs) = Len(ps) - 1
      /\ \A j \in 1 .. Len(qs) : qs[j] = ps[old(j)]
  BY RemoveElements
<1>2. ASSUME NEW i \in DOMAIN qs, NEW j \in DOMAIN qs, qs[i].id = qs[j].id
      PROVE  i = j
  <2>1. old(i) \in DOMAIN ps /\ old(j) \in DOMAIN ps
    BY <1>1
  <2>2. qs[i] = ps[old(i)] /\ qs[j] = ps[old(j)]
    BY <1>1
  <2>3. old(i) = old(j)
    BY <1>2, <2>1, <2>2 DEF Distinct
  <2>4. QED
    BY <2>3, <1>1
<1>3. QED
  BY <1>1, <1>2 DEF Distinct

-----------------------------------------------------------------------------
(***************************************************************************)
(* Types.                                                                  *)
(***************************************************************************)

LEMMA RequestFields ==
  ASSUME NEW r \in Requests
  PROVE  /\ r.action = "save" =>
              r.id \in ClientIds \cup {NoId} /\ r.name \in Names
              /\ r.delays \in Delays
         /\ r.action = "rename" => r.id \in ClientIds /\ r.name \in Names
         /\ r.action = "set_delays" =>
              r.id \in ClientIds /\ r.delays \in Delays
         /\ r.action = "delete" => r.id \in ClientIds
  BY DEF Requests, ListRequest

\* The thread of a step that keeps the file and the memory.
LEMMA GotoType ==
  ASSUME TypeOK, NEW w \in Workers, NEW p \in Points, Goto(w, p)
  PROVE  pc' \in [Workers -> Points]
  BY DEF TypeOK, Goto

LEMMA ShowType ==
  ASSUME TypeOK, NEW w \in Workers, NEW ps \in Seq(Pose), Show(w, ps)
  PROVE  result' \in [Workers -> Seq(Pose)]
  BY DEF TypeOK, Show

LEMMA UnchangedType ==
  ASSUME TypeOK, NEW w \in Workers, NEW action, Lock(w, action),
         NEW p \in Points, NEW shown \in Seq(Pose), Unchanged(w, p, shown)
  PROVE  TypeOK'
<1>1. pc' \in [Workers -> Points] /\ result' \in [Workers -> Seq(Pose)]
  BY GotoType, ShowType DEF Unchanged
<1>2. QED
  BY <1>1 DEF TypeOK, Lock, Unchanged, fileVars

LEMMA CommitType ==
  ASSUME TypeOK, NEW w \in Workers, NEW action, Lock(w, action),
         NEW ps \in Seq(Pose), NEW shown \in Seq(Pose), Commit(w, ps, shown),
         counter' \in 0 .. MaxCounter
  PROVE  TypeOK'
<1>1. pc' \in [Workers -> Points] /\ result' \in [Workers -> Seq(Pose)]
  BY GotoType, ShowType DEF Commit, Points
<1>2. QED
  BY <1>1 DEF TypeOK, Lock, Commit, fileVars

LEMMA FindType ==
  ASSUME TypeOK, NEW i, NEW k \in Find(i)
  PROVE  /\ k \in DOMAIN poses /\ poses[k] \in Pose /\ poses[k].id = i
         /\ i \in Ids
         /\ <<poses[k]>> \in Seq(Pose)
<1>1. k \in DOMAIN poses /\ poses[k].id = i
  BY DEF Find, Registered
<1>2. poses[k] \in Pose
  BY <1>1 DEF TypeOK
<1>3. QED
  BY <1>1, <1>2 DEF Pose

\* What a commit starts from: the poses with one more, one changed or one
\* less, and no id twice.
Committing(w, ps) ==
  \E action : \E shown \in Seq(Pose) :
    Lock(w, action) /\ Commit(w, ps, shown) /\ counter' \in 0 .. MaxCounter

LEMMA SaveStep ==
  ASSUME TypeOK, Distinct(poses), NEW w \in Workers, Save(w)
  PROVE  \/ \E shown \in Seq(Pose) :
              Lock(w, "save") /\ Unchanged(w, "done", shown)
         \/ \E ps \in Seq(Pose) : Distinct(ps) /\ Committing(w, ps)
<1> DEFINE r == request[w]
<1>1. /\ r \in Requests /\ r.action = "save"
      /\ Lock(w, "save")
  BY DEF TypeOK, Save, Lock
<1>2. r.id \in ClientIds \cup {NoId} /\ r.name \in Names /\ r.delays \in Delays
  BY <1>1, RequestFields
<1>3. ASSUME NEW i \in Ids, Registered(i) = {}, Insert(w, i),
             counter' \in 0 .. MaxCounter
      PROVE  \E ps \in Seq(Pose) : Distinct(ps) /\ Committing(w, ps)
  <2> DEFINE pose == [id |-> i, name |-> r.name, delays |-> r.delays]
  <2>1. pose \in Pose /\ pose.id = i
    BY <1>2, <1>3 DEF Pose
  <2>2. \A k \in DOMAIN poses : poses[k].id # pose.id
    BY <1>3, <2>1 DEF Registered
  <2>3. poses \in Seq(Pose)
    BY DEF TypeOK
  <2>4. <<pose>> \o poses \in Seq(Pose) /\ Distinct(<<pose>> \o poses)
    BY <2>1, <2>2, <2>3, InsertDistinct
  <2>5. Commit(w, <<pose>> \o poses, <<pose>>)
    BY <1>3 DEF Insert
  <2>6. <<pose>> \in Seq(Pose)
    BY <2>1
  <2>7. QED
    BY <1>1, <1>3, <2>4, <2>5, <2>6 DEF Committing
<1>4. CASE \E k \in Find(r.id) : Unchanged(w, "done", <<poses[k]>>)
  BY <1>1, <1>4, FindType
<1>5. CASE r.id # NoId /\ Registered(r.id) = {} /\ Insert(w, r.id)
           /\ UNCHANGED counter
  <2>1. r.id \in Ids /\ counter' \in 0 .. MaxCounter
    BY <1>2, <1>5, ClientIdsAssumption DEF TypeOK
  <2>2. QED
    BY <1>3, <1>5, <2>1
<1>6. CASE \E n \in counter + 1 .. MaxCounter :
             /\ NextId(created[w], n)
             /\ counter' = n
             /\ Insert(w, <<created[w], n>>)
  <2>1. PICK n \in counter + 1 .. MaxCounter :
             /\ NextId(created[w], n)
             /\ counter' = n
             /\ Insert(w, <<created[w], n>>)
    BY <1>6
  <2>2. created[w] \in Times
    BY <1>1 DEF TypeOK, Lock
  <2>3. <<created[w], n>> \in Ids /\ n \in 0 .. MaxCounter
    BY <2>1, <2>2, StoreBoundsAssumption DEF TypeOK, Ids
  <2>4. QED
    BY <1>3, <2>1, <2>3 DEF NextId
<1>7. QED
  BY <1>4, <1>5, <1>6 DEF Save

LEMMA ChangeStep ==
  ASSUME TypeOK, Distinct(poses), NEW w \in Workers,
         Rename(w) \/ SetDelays(w) \/ Delete(w)
  PROVE  \/ \E action : Lock(w, action) /\ Unchanged(w, "notFound", <<>>)
         \/ \E ps \in Seq(Pose) : Distinct(ps) /\ Committing(w, ps)
<1> DEFINE r == request[w]
<1>1. r \in Requests /\ poses \in Seq(Pose) /\ counter \in 0 .. MaxCounter
  BY DEF TypeOK
<1>2. CASE NotFound(w)
  BY <1>2 DEF Rename, SetDelays, Delete, NotFound
<1>3. ASSUME NEW action, Lock(w, action), NEW k \in Find(r.id),
             NEW p \in Pose, p.id = r.id, Update(w, k, p)
      PROVE  \E ps \in Seq(Pose) : Distinct(ps) /\ Committing(w, ps)
  <2> DEFINE ps == [poses EXCEPT ![k] = p]
  <2>1. k \in DOMAIN poses /\ poses[k].id = r.id
    BY <1>3, FindType
  <2>2. ps \in Seq(Pose) /\ Distinct(ps)
    BY <1>1, <1>3, <2>1, UpdateDistinct
  <2>3. Commit(w, ps, <<p>>) /\ counter' \in 0 .. MaxCounter
    BY <1>1, <1>3 DEF Update
  <2>4. <<p>> \in Seq(Pose)
    BY <1>3
  <2>5. QED
    BY <1>3, <2>2, <2>3, <2>4 DEF Committing
<1>4. CASE Rename(w) /\ ~NotFound(w)
  <2>1. PICK k \in Find(r.id) : Update(w, k, [poses[k] EXCEPT !.name = r.name])
    BY <1>4 DEF Rename
  <2>2. Lock(w, "rename") /\ r.name \in Names
    BY <1>1, <1>4, RequestFields DEF Rename, Lock
  <2>3. /\ [poses[k] EXCEPT !.name = r.name] \in Pose
        /\ [poses[k] EXCEPT !.name = r.name].id = r.id
    BY <2>2, FindType DEF Pose
  <2>4. QED
    BY <1>3, <2>1, <2>2, <2>3
<1>5. CASE SetDelays(w) /\ ~NotFound(w)
  <2>1. PICK k \in Find(r.id) :
          Update(w, k, [poses[k] EXCEPT !.delays = r.delays])
    BY <1>5 DEF SetDelays
  <2>2. Lock(w, "set_delays") /\ r.delays \in Delays
    BY <1>1, <1>5, RequestFields DEF SetDelays, Lock
  <2>3. /\ [poses[k] EXCEPT !.delays = r.delays] \in Pose
        /\ [poses[k] EXCEPT !.delays = r.delays].id = r.id
    BY <2>2, FindType DEF Pose
  <2>4. QED
    BY <1>3, <2>1, <2>2, <2>3
<1>6. CASE Delete(w) /\ ~NotFound(w)
  <2>1. PICK k \in Find(r.id) :
          Commit(w, RemoveAt(poses, k), <<>>) /\ UNCHANGED counter
    BY <1>6 DEF Delete
  <2>2. RemoveAt(poses, k) \in Seq(Pose) /\ Distinct(RemoveAt(poses, k))
    BY <1>1, FindType, RemoveDistinct
  <2>3. Lock(w, "delete") /\ <<>> \in Seq(Pose) /\ counter' \in 0 .. MaxCounter
    BY <1>1, <1>6, <2>1 DEF Delete
  <2>4. QED
    BY <2>1, <2>2, <2>3 DEF Committing
<1>7. QED
  BY <1>2, <1>4, <1>5, <1>6

-----------------------------------------------------------------------------
(***************************************************************************)
(* Ids.                                                                    *)
(***************************************************************************)

\* No id twice, wherever poses are kept.
StoreInv ==
  /\ TypeOK
  /\ Distinct(poses) /\ Distinct(updated)
  /\ file \in Seq(Pose) => Distinct(file)
  /\ temporary \in Seq(Pose) => Distinct(temporary)

\* A thread starts to work on a request, in the critical section.
LEMMA LockStep ==
  ASSUME StoreInv, NEW w \in Workers,
         List(w) \/ Save(w) \/ Rename(w) \/ SetDelays(w) \/ Delete(w)
  PROVE  StoreInv'
<1>1. \/ \E action, p : \E shown \in Seq(Pose) :
           /\ p \in {"done", "notFound"}
           /\ Lock(w, action) /\ Unchanged(w, p, shown)
      \/ \E ps \in Seq(Pose) : Distinct(ps) /\ Committing(w, ps)
  <2>1. TypeOK /\ Distinct(poses) /\ poses \in Seq(Pose) /\ <<>> \in Seq(Pose)
    BY DEF StoreInv, TypeOK
  <2>2. CASE List(w)
    BY <2>1, <2>2 DEF List
  <2>3. CASE Save(w)
    BY <2>1, <2>3, SaveStep
  <2>4. CASE Rename(w) \/ SetDelays(w) \/ Delete(w)
    BY <2>1, <2>4, ChangeStep
  <2>5. QED
    BY <2>2, <2>3, <2>4
<1>2. CASE \E action, p : \E shown \in Seq(Pose) :
             /\ p \in {"done", "notFound"}
             /\ Lock(w, action) /\ Unchanged(w, p, shown)
  <2>1. TypeOK'
    BY <1>2, UnchangedType DEF StoreInv, Points
  <2>2. UNCHANGED <<poses, updated, file, temporary>>
    BY <1>2 DEF Lock, Unchanged, fileVars
  <2>3. QED
    BY <2>1, <2>2 DEF StoreInv, Distinct
<1>3. CASE \E ps \in Seq(Pose) : Distinct(ps) /\ Committing(w, ps)
  <2>1. PICK ps \in Seq(Pose) : Distinct(ps) /\ Committing(w, ps)
    BY <1>3
  <2>2. PICK action : \E shown \in Seq(Pose) :
          Lock(w, action) /\ Commit(w, ps, shown)
          /\ counter' \in 0 .. MaxCounter
    BY <2>1 DEF Committing
  <2>3. TypeOK'
    BY <2>2, CommitType DEF StoreInv
  <2>4. UNCHANGED <<poses, file, temporary>> /\ updated' = ps
    BY <2>2 DEF Lock, Commit, fileVars
  <2>5. QED
    BY <2>1, <2>3, <2>4 DEF StoreInv, Distinct
<1>4. QED
  BY <1>1, <1>2, <1>3

LEMMA StoreStep ==
  ASSUME StoreInv, NEW w \in Workers,
         StoreTemporary(w) \/ ReplaceFile(w) \/ Publish(w) \/ Return(w)
  PROVE  StoreInv'
<1> <<>> \in Seq(Pose) /\ Distinct(<<>>)
  BY DEF Distinct
<1>1. TypeOK
  BY DEF StoreInv
<1>2. ListRequest \in Requests /\ Epoch \in Times
  BY TimesAssumption DEF Requests, Epoch
<1>3. CASE StoreTemporary(w)
  <2>1. pc' \in [Workers -> Points] /\ result' \in [Workers -> Seq(Pose)]
    BY <1>1, <1>3, GotoType, ShowType DEF StoreTemporary, Throw, Points, TypeOK
  <2>2. /\ temporary' = updated \/ temporary' = Torn
        /\ updated' = updated \/ updated' = <<>>
        /\ lock' = lock \/ lock' = NoWorker
        /\ UNCHANGED <<file, up, poses, counter, request, created>>
    BY <1>3 DEF StoreTemporary, WriteTemporary, WriteFails, Throw, memoryVars
  <2>3. TypeOK'
    BY <1>1, <2>1, <2>2 DEF TypeOK
  <2>4. QED
    BY <2>2, <2>3, ContentsAssumption DEF StoreInv, Distinct
<1>4. CASE ReplaceFile(w)
  <2>1. pc' \in [Workers -> Points] /\ result' \in [Workers -> Seq(Pose)]
    BY <1>1, <1>4, GotoType, ShowType DEF ReplaceFile, Throw, Points, TypeOK
  <2>2. /\ temporary' = Absent /\ file' \in {file, temporary}
        /\ updated' = updated \/ updated' = <<>>
        /\ lock' = lock \/ lock' = NoWorker
        /\ UNCHANGED <<up, poses, counter, request, created>>
    BY <1>4 DEF ReplaceFile, Replace, ReplaceFails, Throw, memoryVars
  <2>3. TypeOK'
    BY <1>1, <2>1, <2>2 DEF TypeOK
  <2>4. QED
    BY <2>2, <2>3, ContentsAssumption DEF StoreInv, Distinct
<1>5. CASE Publish(w)
  <2>1. pc' \in [Workers -> Points]
    BY <1>1, <1>5, GotoType DEF Publish, Points
  <2>2. /\ poses' = updated /\ updated' = <<>> /\ lock' = NoWorker
        /\ UNCHANGED <<file, temporary, up, counter, request, created, result>>
    BY <1>5 DEF Publish, fileVars
  <2>3. TypeOK'
    BY <1>1, <2>1, <2>2 DEF TypeOK
  <2>4. QED
    BY <2>2, <2>3 DEF StoreInv, Distinct
<1>6. CASE Return(w)
  <2>1. pc' \in [Workers -> Points] /\ result' \in [Workers -> Seq(Pose)]
    BY <1>1, <1>6, GotoType, ShowType DEF Return, Points
  <2>2. /\ UNCHANGED <<file, temporary, up, poses, counter, lock, updated>>
        /\ request' = [request EXCEPT ![w] = ListRequest]
        /\ created' = [created EXCEPT ![w] = Epoch]
    BY <1>6 DEF Return, fileVars, memoryVars
  <2>3. /\ request' \in [Workers -> Requests]
        /\ created' \in [Workers -> Times]
    BY <1>1, <1>2, <2>2 DEF TypeOK
  <2>4. TypeOK'
    BY <1>1, <2>1, <2>2, <2>3 DEF TypeOK
  <2>5. QED
    BY <2>2, <2>4 DEF StoreInv, Distinct
<1>7. QED
  BY <1>3, <1>4, <1>5, <1>6

LEMMA ServiceStep ==
  ASSUME StoreInv, Start \/ Crash \/ UNCHANGED vars
  PROVE  StoreInv'
<1> <<>> \in Seq(Pose) /\ Distinct(<<>>)
  BY DEF Distinct
<1>1. ListRequest \in Requests /\ Epoch \in Times /\ 0 \in 0 .. MaxCounter
  BY TimesAssumption, StoreBoundsAssumption DEF Requests, Epoch
<1>2. CASE Start
  <2>1. poses' \in Seq(Pose) /\ Distinct(poses')
    BY <1>2 DEF Start, Loaded, StoreInv, TypeOK
  <2>2. UNCHANGED <<file, temporary, updated, lock, pc, request, created, result>>
        /\ up' = TRUE /\ counter' = 0
    BY <1>2 DEF Start, fileVars, callVars
  <2>3. QED
    BY <1>1, <2>1, <2>2 DEF StoreInv, TypeOK, Distinct
<1>3. CASE Crash
  <2>1. TypeOK'
    BY <1>1, <1>3 DEF Crash, StoreInv, TypeOK, Points
  <2>2. poses' = <<>> /\ updated' = <<>> /\ temporary' = Absent
        /\ UNCHANGED file
    BY <1>3 DEF Crash
  <2>3. QED
    BY <2>1, <2>2, ContentsAssumption DEF StoreInv, Distinct
<1>4. CASE UNCHANGED vars
  BY <1>4 DEF vars, fileVars, memoryVars, callVars, StoreInv, TypeOK, Distinct
<1>5. QED
  BY <1>2, <1>3, <1>4

LEMMA CallStep ==
  ASSUME StoreInv, NEW w \in Workers, NEW r \in Requests, NEW t \in Times,
         Call(w, r, t)
  PROVE  StoreInv'
<1>1. TypeOK
  BY DEF StoreInv
<1>2. pc' \in [Workers -> Points]
  BY <1>1, GotoType DEF Call, Points
<1>3. /\ request' = [request EXCEPT ![w] = r]
      /\ created' = [created EXCEPT ![w] = t]
      /\ UNCHANGED <<file, temporary, up, poses, counter, lock, updated, result>>
  BY DEF Call, fileVars, memoryVars
<1>4. TypeOK'
  BY <1>1, <1>2, <1>3 DEF TypeOK
<1>5. QED
  BY <1>3, <1>4 DEF StoreInv, Distinct

\* No step puts a pose with a taken id anywhere.
THEOREM StoreInvariant == Spec => []StoreInv
<1>1. Init => StoreInv
  <2> SUFFICES ASSUME Init PROVE StoreInv
    OBVIOUS
  <2>1. <<>> \in Seq(Pose) /\ Distinct(<<>>)
    BY DEF Distinct
  <2>2. ListRequest \in Requests /\ Epoch \in Times
    BY TimesAssumption DEF Requests, Epoch
  <2>3. /\ pc \in [Workers -> Points] /\ request \in [Workers -> Requests]
        /\ created \in [Workers -> Times] /\ result \in [Workers -> Seq(Pose)]
    BY <2>1, <2>2 DEF Init, Points
  <2>4. /\ file = Absent /\ temporary = Absent /\ up = FALSE /\ poses = <<>>
        /\ counter \in 0 .. MaxCounter /\ lock = NoWorker /\ updated = <<>>
    BY StoreBoundsAssumption DEF Init, FileInit
  <2>5. TypeOK
    BY <2>1, <2>3, <2>4 DEF TypeOK
  <2>6. QED
    BY <2>1, <2>4, <2>5, ContentsAssumption DEF StoreInv
<1>2. StoreInv /\ [Next]_vars => StoreInv'
  BY ServiceStep, CallStep, LockStep, StoreStep DEF Next
<1>3. QED
  BY <1>1, <1>2, PTL DEF Spec

\* TypeOK holds for any threads, times, ids and bounds.
THEOREM StoreTypeCorrect == Spec => []TypeOK
BY StoreInvariant, PTL DEF StoreInv

\* UniqueIds holds whatever the clock shows, however often the service dies.
THEOREM IdsUnique == Spec => []UniqueIds
<1>1. StoreInv => UniqueIds
  BY DEF StoreInv, TypeOK, UniqueIds, Distinct
<1>2. QED
  BY <1>1, StoreInvariant, PTL

-----------------------------------------------------------------------------
(***************************************************************************)
(* Persistence.                                                            *)
(***************************************************************************)

\* Memory and file agree but for the change that is being committed, and each
\* stage of that commit has what the stage before it left.
PersistInv ==
  /\ file # Torn
  /\ \A w \in Workers : pc[w] \in {"write", "replace", "publish"} => lock = w
  /\ \A w \in Workers : pc[w] = "replace" => temporary = updated
  /\ \A w \in Workers : pc[w] = "publish" => file = updated
  /\ \/ ~up
     \/ poses = Loaded(<<>>)
     \/ \E w \in Workers : lock = w /\ pc[w] = "publish"

\* Steps that keep the file, the memory and the mutex, and start no commit.
LEMMA PersistFrame ==
  ASSUME PersistInv, UNCHANGED <<file, temporary, up, poses, lock, updated>>,
         \A w \in Workers : pc'[w] = pc[w]
            \/ {pc[w], pc'[w]} \cap {"write", "replace", "publish"} = {}
  PROVE  PersistInv'
<1>1. \A w \in Workers :
        pc'[w] \in {"write", "replace", "publish"} => pc'[w] = pc[w]
  OBVIOUS
<1>2. \A w \in Workers : pc[w] = "publish" => pc'[w] = "publish"
  OBVIOUS
<1>3. QED
  BY <1>1, <1>2 DEF PersistInv, Loaded

LEMMA PersistServe ==
  ASSUME "flush" \notin StoreFaults, StoreInv, PersistInv, NEW w \in Workers,
         StoreTemporary(w) \/ ReplaceFile(w) \/ Publish(w)
  PROVE  PersistInv'
<1>1. /\ pc \in [Workers -> Points] /\ lock = w /\ w # NoWorker
      /\ updated \in Seq(Pose)
  BY StoreWorkersAssumption
     DEF StoreInv, TypeOK, PersistInv, StoreTemporary, ReplaceFile, Publish
<1>2. \A v \in Workers : v # w =>
        pc[v] \notin {"write", "replace", "publish"}
  BY <1>1 DEF PersistInv
<1>3. \A p : Goto(w, p) => /\ pc'[w] = p
                           /\ \A v \in Workers : v # w => pc'[v] = pc[v]
  BY <1>1 DEF Goto
<1>4. CASE StoreTemporary(w)
  <2>1. UNCHANGED <<file, poses, up>> /\ (poses = Loaded(<<>>) \/ ~up)
    BY <1>1, <1>4 DEF StoreTemporary, WriteTemporary, WriteFails, memoryVars,
         PersistInv
  <2>2. CASE WriteFails /\ Throw(w)
    BY <1>2, <1>3, <1>4, <2>1, <2>2
       DEF Throw, WriteFails, StoreTemporary, memoryVars, PersistInv, Loaded
  <2>3. CASE WriteTemporary(updated) /\ Goto(w, "replace")
             /\ UNCHANGED <<lock, updated>>
    BY <1>1, <1>2, <1>3, <1>4, <2>1, <2>3
       DEF WriteTemporary, StoreTemporary, memoryVars, PersistInv, Loaded
  <2>4. QED
    BY <1>4, <2>2, <2>3 DEF StoreTemporary
<1>5. CASE ReplaceFile(w)
  <2>1. temporary = updated
    BY <1>5 DEF ReplaceFile, PersistInv
  <2>2. CASE ReplaceFails /\ Throw(w)
    BY <1>1, <1>2, <1>3, <1>5, <2>2
       DEF Throw, ReplaceFails, ReplaceFile, memoryVars, PersistInv, Loaded
  <2>3. CASE Replace /\ Goto(w, "publish") /\ UNCHANGED <<lock, updated>>
    BY <1>1, <1>2, <1>3, <2>1, <2>3, ContentsAssumption
       DEF Replace, PersistInv
  <2>4. QED
    BY <1>5, <2>2, <2>3 DEF ReplaceFile
<1>6. CASE Publish(w)
  <2>1. file = updated /\ file \in Seq(Pose)
    BY <1>1, <1>6 DEF Publish, PersistInv
  <2>2. UNCHANGED file /\ poses' = updated /\ Goto(w, "done")
    BY <1>6 DEF Publish, fileVars
  <2>3. poses' = Loaded(<<>>)'
    BY <2>1, <2>2, ContentsAssumption DEF Loaded
  <2>4. QED
    BY <1>2, <1>3, <2>2, <2>3 DEF PersistInv
<1>7. QED
  BY <1>4, <1>5, <1>6

LEMMA PersistLock ==
  ASSUME StoreInv, PersistInv, NEW w \in Workers,
         List(w) \/ Save(w) \/ Rename(w) \/ SetDelays(w) \/ Delete(w)
  PROVE  PersistInv'
<1>1. /\ pc \in [Workers -> Points] /\ up /\ lock = NoWorker
      /\ pc[w] = "waiting"
      /\ UNCHANGED <<file, temporary, up, poses>>
  BY DEF StoreInv, TypeOK, List, Save, Rename, SetDelays, Delete, Lock,
         fileVars
<1>2. \/ \E p \in {"done", "notFound"} :
           Goto(w, p) /\ UNCHANGED <<lock, updated>>
      \/ Goto(w, "write") /\ lock' = w
  BY DEF List, Save, Rename, SetDelays, Delete, NotFound, Unchanged, Update,
         Insert, Commit
<1>3. \A v \in Workers : pc[v] \notin {"write", "replace", "publish"}
  BY <1>1, StoreWorkersAssumption DEF PersistInv
<1>4. poses = Loaded(<<>>) /\ Loaded(<<>>)' = Loaded(<<>>)
  BY <1>1, StoreWorkersAssumption DEF PersistInv, Loaded
<1>5. QED
  BY <1>1, <1>2, <1>3, <1>4 DEF PersistInv, Goto

\* As long as no error hides in the flush of the temporary file, memory and
\* file agree whatever else fails and whenever the service dies.
THEOREM PersistInvariant ==
  ASSUME "flush" \notin StoreFaults
  PROVE  Spec => []PersistInv
<1>1. Init => PersistInv
  BY ContentsAssumption DEF Init, FileInit, PersistInv
<1>2. StoreInv /\ PersistInv /\ [Next]_vars => PersistInv'
  <2> SUFFICES ASSUME StoreInv, PersistInv, [Next]_vars
               PROVE  PersistInv'
    OBVIOUS
  <2> pc \in [Workers -> Points]
    BY DEF StoreInv, TypeOK
  <2>1. CASE Start
    BY <2>1 DEF Start, fileVars, callVars, PersistInv, Loaded
  <2>2. CASE Crash
    BY <2>2 DEF Crash, PersistInv
  <2>3. ASSUME NEW w \in Workers, NEW r \in Requests, NEW t \in Times,
               Call(w, r, t)
        PROVE  PersistInv'
    BY <2>3, PersistFrame DEF Call, Goto, fileVars, memoryVars
  <2>4. ASSUME NEW w \in Workers, Return(w)
        PROVE  PersistInv'
    BY <2>4, PersistFrame DEF Return, Goto, fileVars, memoryVars
  <2>5. CASE UNCHANGED vars
    BY <2>5, PersistFrame DEF vars, fileVars, memoryVars, callVars
  <2>6. QED
    BY <2>1, <2>2, <2>3, <2>4, <2>5, PersistLock, PersistServe DEF Next
<1>3. QED
  BY <1>1, <1>2, StoreInvariant, PTL DEF Spec

LEMMA PersistInvPersisted ==
  PersistInv => Persisted
BY StoreWorkersAssumption DEF PersistInv, Persisted, Loaded, Stored, Range

\* So Persisted holds under the same condition.
THEOREM PersistedAtOnce ==
  ASSUME "flush" \notin StoreFaults
  PROVE  Spec => []Persisted
BY PersistInvariant, PersistInvPersisted, PTL

-----------------------------------------------------------------------------
(***************************************************************************)
(* The refinement: PoseStore implements PoseLibrary.  A change happens for *)
(* its caller when the file is replaced, so the request that is being      *)
(* stored must still mean then what it meant when the mutex was taken.     *)
(***************************************************************************)

\* The change being stored removes old from the poses on disk and adds new,
\* and the reply will show what was added.
Changing(w, old, new) ==
  Range(updated) = (Stored \ old) \cup new /\ Range(result[w]) = new

\* What is being stored is what the request asks for.
Pending(w) ==
  LET r == request[w] IN
  \/ /\ r.action = "save"
     /\ \E i \in Ids :
          /\ i = r.id \/ r.id = NoId
          /\ \A p \in Stored : p.id # i
          /\ Changing(w, {}, {[id |-> i, name |-> r.name, delays |-> r.delays]})
  \/ /\ r.action = "rename"
     /\ \E p \in Stored :
          p.id = r.id /\ Changing(w, {p}, {[p EXCEPT !.name = r.name]})
  \/ /\ r.action = "set_delays"
     /\ \E p \in Stored :
          p.id = r.id /\ Changing(w, {p}, {[p EXCEPT !.delays = r.delays]})
  \/ /\ r.action = "delete"
     /\ \E p \in Stored : p.id = r.id /\ Changing(w, {p}, {})

PendingInv ==
  \A w \in Workers : pc[w] \in {"write", "replace"} => Pending(w)

\* The poses of a sequence, when one is put first ...
LEMMA InsertRange ==
  ASSUME NEW ps \in Seq(Pose), NEW p \in Pose
  PROVE  Range(<<p>> \o ps) = {p} \cup Range(ps)
<1> DEFINE qs == <<p>> \o ps
<1>1. /\ qs \in Seq(Pose) /\ Len(qs) = Len(ps) + 1 /\ Len(ps) \in Nat
      /\ qs[1] = p
      /\ \A k \in 2 .. Len(qs) : qs[k] = ps[k - 1]
      /\ DOMAIN qs = 1 .. Len(qs) /\ DOMAIN ps = 1 .. Len(ps)
  OBVIOUS
<1> HIDE DEF qs
<1>2. \A x \in Range(qs) : x = p \/ x \in Range(ps)
  <2> SUFFICES ASSUME NEW k \in DOMAIN qs PROVE qs[k] = p \/ qs[k] \in Range(ps)
    BY DEF Range
  <2>1. CASE k = 1
    BY <1>1, <2>1
  <2>2. CASE k # 1
    <3>1. k - 1 \in DOMAIN ps /\ qs[k] = ps[k - 1]
      BY <1>1, <2>2
    <3>2. QED
      BY <3>1 DEF Range
  <2>3. QED
    BY <2>1, <2>2
<1>3. p \in Range(qs)
  <2>1. 1 \in DOMAIN qs
    BY <1>1
  <2>2. QED
    BY <1>1, <2>1 DEF Range
<1>4. \A x \in Range(ps) : x \in Range(qs)
  <2> SUFFICES ASSUME NEW k \in DOMAIN ps PROVE ps[k] \in Range(qs)
    BY DEF Range
  <2>1. k + 1 \in DOMAIN qs /\ qs[k + 1] = ps[k]
    BY <1>1
  <2>2. QED
    BY <2>1 DEF Range
<1>5. QED
  BY <1>2, <1>3, <1>4 DEF qs

\* ... when one is replaced ...
LEMMA UpdateRange ==
  ASSUME NEW ps \in Seq(Pose), NEW k \in DOMAIN ps, NEW p \in Pose,
         Distinct(ps)
  PROVE  Range([ps EXCEPT ![k] = p]) = (Range(ps) \ {ps[k]}) \cup {p}
<1> DEFINE qs == [ps EXCEPT ![k] = p]
<1>1. DOMAIN qs = DOMAIN ps /\ qs[k] = p
      /\ \A j \in DOMAIN ps : j # k => qs[j] = ps[j]
  OBVIOUS
<1>2. \A j \in DOMAIN ps : ps[j] = ps[k] => j = k
  BY DEF Distinct
<1> HIDE DEF qs
<1>3. \A x \in Range(qs) : x \in (Range(ps) \ {ps[k]}) \cup {p}
  BY <1>1, <1>2 DEF Range
<1>4. \A x \in Range(ps) : x # ps[k] => x \in Range(qs)
  BY <1>1 DEF Range
<1>5. p \in Range(qs)
  BY <1>1 DEF Range
<1>6. QED
  BY <1>3, <1>4, <1>5 DEF qs

\* ... and when one is left out.
LEMMA RemoveRange ==
  ASSUME NEW ps \in Seq(Pose), NEW k \in DOMAIN ps, Distinct(ps)
  PROVE  Range(RemoveAt(ps, k)) = Range(ps) \ {ps[k]}
<1> DEFINE qs == RemoveAt(ps, k)
           old(j) == IF j < k THEN j ELSE j + 1
<1>1. /\ qs \in Seq(Pose) /\ Len(qs) = Len(ps) - 1
      /\ \A j \in 1 .. Len(ps) - 1 : qs[j] = ps[old(j)]
  BY RemoveElements
<1>2. /\ DOMAIN qs = 1 .. Len(ps) - 1 /\ DOMAIN ps = 1 .. Len(ps)
      /\ Len(ps) \in Nat /\ k \in 1 .. Len(ps)
  BY <1>1
<1> HIDE DEF qs
<1>3. \A j \in DOMAIN ps : ps[j] = ps[k] => j = k
  BY DEF Distinct
<1>4. ASSUME NEW j \in DOMAIN qs
      PROVE  qs[j] \in Range(ps) \ {ps[k]}
  <2>1. old(j) \in DOMAIN ps /\ old(j) # k
    BY <1>2
  <2>2. qs[j] = ps[old(j)]
    BY <1>1, <1>2
  <2>3. QED
    BY <1>3, <2>1, <2>2 DEF Range
<1>5. ASSUME NEW i \in DOMAIN ps, ps[i] # ps[k]
      PROVE  ps[i] \in Range(qs)
  <2> DEFINE j == IF i < k THEN i ELSE i - 1
  <2>1. i # k
    BY <1>5
  <2>2. j \in DOMAIN qs /\ old(j) = i
    BY <1>2, <2>1
  <2>3. qs[j] = ps[i]
    BY <1>1, <1>2, <2>2
  <2>4. QED
    BY <2>2, <2>3 DEF Range
<1>6. QED
  BY <1>4, <1>5 DEF Range, qs

LEMMA SmallRanges ==
  ASSUME NEW p
  PROVE  Range(<<p>>) = {p} /\ Range(<<>>) = {}
BY DEF Range

\* A thread that begins to store a change has worked it out from the poses on
\* disk: while the mutex was free, memory agreed with them.
LEMMA CommitPending ==
  ASSUME StoreInv, NEW w \in Workers, NEW action, Lock(w, action),
         NEW ps \in Seq(Pose), NEW shown \in Seq(Pose), Commit(w, ps, shown)
  PROVE  /\ Range(updated') = Range(ps) /\ Range(result'[w]) = Range(shown)
         /\ Stored' = Stored /\ request' = request
         /\ request[w] \in Requests /\ request[w].action = action
  BY DEF StoreInv, TypeOK, Lock, Commit, Show, Stored, fileVars

\* What Find finds in memory is in the file, and nothing else has that id.
LEMMA FoundStored ==
  ASSUME StoreInv, Persisted, up, lock = NoWorker, NEW i, NEW k \in Find(i)
  PROVE  /\ poses \in Seq(Pose) /\ k \in DOMAIN poses /\ Distinct(poses)
         /\ poses[k] \in Stored /\ poses[k] \in Pose /\ poses[k].id = i
         /\ Range(poses) = Stored
         /\ \A p \in Stored : p.id = i => p = poses[k]
<1>1. TypeOK /\ Distinct(poses) /\ poses \in Seq(Pose) /\ Range(poses) = Stored
  BY DEF StoreInv, TypeOK, Persisted
<1>2. k \in DOMAIN poses /\ poses[k] \in Pose /\ poses[k].id = i
  BY <1>1, FindType
<1>3. \A p \in Stored : p.id = i => p = poses[k]
  <2> SUFFICES ASSUME NEW j \in DOMAIN poses, poses[j].id = i
               PROVE  poses[j] = poses[k]
    BY <1>1 DEF Range
  <2>1. QED
    BY <1>1, <1>2 DEF Distinct
<1>4. QED
  BY <1>1, <1>2, <1>3 DEF Range

LEMMA NothingFound ==
  ASSUME StoreInv, Persisted, up, lock = NoWorker, NEW i, Registered(i) = {}
  PROVE  \A p \in Stored : p.id # i
BY DEF Registered, Persisted, Range

LEMMA SavePending ==
  ASSUME StoreInv, Persisted, NEW w \in Workers, Save(w), pc'[w] = "write"
  PROVE  Pending(w)'
<1> DEFINE r == request[w]
<1>1. /\ up /\ lock = NoWorker /\ Lock(w, "save")
      /\ r \in Requests /\ r.action = "save" /\ poses \in Seq(Pose)
      /\ pc \in [Workers -> Points] /\ Range(poses) = Stored
  BY DEF Save, Lock, StoreInv, TypeOK, Persisted
<1>2. r.id \in ClientIds \cup {NoId} /\ r.name \in Names /\ r.delays \in Delays
  BY <1>1, RequestFields
<1>3. ASSUME NEW i \in Ids, i = r.id \/ r.id = NoId, Registered(i) = {},
             Insert(w, i)
      PROVE  Pending(w)'
  <2> DEFINE pose == [id |-> i, name |-> r.name, delays |-> r.delays]
  <2>1. pose \in Pose /\ <<pose>> \in Seq(Pose)
    BY <1>2, <1>3 DEF Pose
  <2>2. <<pose>> \o poses \in Seq(Pose)
    BY <1>1, <2>1
  <2>3. Commit(w, <<pose>> \o poses, <<pose>>)
    BY <1>3 DEF Insert
  <2>4. /\ Range(updated') = Range(<<pose>> \o poses)
        /\ Range(result'[w]) = Range(<<pose>>)
        /\ Stored' = Stored /\ request' = request
    BY <1>1, <2>1, <2>2, <2>3, CommitPending
  <2>5. /\ Range(updated') = {pose} \cup Stored
        /\ Range(result'[w]) = {pose}
    BY <1>1, <2>1, <2>4, InsertRange, SmallRanges
  <2>6. \A p \in Stored : p.id # i
    BY <1>1, <1>3, NothingFound
  <2>7. Changing(w, {}, {pose})'
    BY <2>4, <2>5 DEF Changing
  <2>8. QED
    BY <1>1, <1>3, <2>4, <2>6, <2>7 DEF Pending
<1>4. CASE \E k \in Find(r.id) : Unchanged(w, "done", <<poses[k]>>)
  BY <1>1, <1>4 DEF Unchanged, Goto
<1>5. CASE r.id # NoId /\ Registered(r.id) = {} /\ Insert(w, r.id)
  BY <1>2, <1>3, <1>5, ClientIdsAssumption
<1>6. CASE /\ r.id = NoId
           /\ \E n \in counter + 1 .. MaxCounter :
                NextId(created[w], n) /\ Insert(w, <<created[w], n>>)
  <2>1. PICK n \in counter + 1 .. MaxCounter :
             NextId(created[w], n) /\ Insert(w, <<created[w], n>>)
    BY <1>6
  <2>3. <<created[w], n>> \in Ids
    BY <2>1, StoreBoundsAssumption DEF StoreInv, TypeOK, Ids
  <2>4. QED
    BY <1>3, <1>6, <2>1, <2>3 DEF NextId
<1>7. QED
  BY <1>4, <1>5, <1>6 DEF Save

LEMMA ChangePending ==
  ASSUME StoreInv, Persisted, NEW w \in Workers,
         Rename(w) \/ SetDelays(w) \/ Delete(w), pc'[w] = "write"
  PROVE  Pending(w)'
<1> DEFINE r == request[w]
<1>1. /\ up /\ lock = NoWorker /\ r \in Requests /\ poses \in Seq(Pose)
      /\ pc \in [Workers -> Points] /\ ~NotFound(w)
      /\ r.action \in {"rename", "set_delays", "delete"} /\ Lock(w, r.action)
  BY DEF Rename, SetDelays, Delete, Lock, StoreInv, TypeOK, NotFound,
         Unchanged, Goto
<1>2. ASSUME NEW k \in Find(r.id), NEW p, p = poses[k],
             NEW q \in Pose, Update(w, k, q)
      PROVE  /\ p \in Stored /\ p.id = r.id
             /\ Changing(w, {p}, {q})'
             /\ Stored' = Stored /\ request' = request
  <2>1. /\ k \in DOMAIN poses /\ Distinct(poses) /\ Range(poses) = Stored
        /\ poses[k] \in Stored /\ poses[k].id = r.id
    BY <1>1, <1>2, FoundStored
  <2>2. [poses EXCEPT ![k] = q] \in Seq(Pose) /\ <<q>> \in Seq(Pose)
    BY <1>1, <1>2, <2>1
  <2>3. /\ Range(updated') = Range([poses EXCEPT ![k] = q])
        /\ Range(result'[w]) = Range(<<q>>)
        /\ Stored' = Stored /\ request' = request
    BY <1>1, <1>2, <2>2, CommitPending DEF Update
  <2>4. /\ Range(updated') = (Stored \ {poses[k]}) \cup {q}
        /\ Range(result'[w]) = {q}
    BY <1>1, <1>2, <2>1, <2>3, UpdateRange, SmallRanges
  <2>5. QED
    BY <1>2, <2>1, <2>3, <2>4 DEF Changing
<1>3. CASE Rename(w)
  <2>1. PICK k \in Find(r.id) :
          Update(w, k, [poses[k] EXCEPT !.name = r.name])
    BY <1>1, <1>3 DEF Rename
  <2>2. PICK p : p = poses[k]
    OBVIOUS
  <2>3. PICK q : q = [p EXCEPT !.name = r.name]
    OBVIOUS
  <2>4. r.action = "rename" /\ r.name \in Names /\ p \in Pose
    BY <1>1, <1>3, <2>2, FoundStored, RequestFields DEF Rename, Lock
  <2>5. q \in Pose
    BY <2>3, <2>4 DEF Pose
  <2>6. /\ p \in Stored /\ p.id = r.id /\ Changing(w, {p}, {q})'
        /\ Stored' = Stored /\ request' = request
    BY <1>2, <2>1, <2>2, <2>3, <2>5
  <2>7. Changing(w, {p}, {[p EXCEPT !.name = request[w].name]})'
    BY <2>3, <2>6 DEF Changing
  <2>8. QED
    BY <2>4, <2>6, <2>7 DEF Pending
<1>4. CASE SetDelays(w)
  <2>1. PICK k \in Find(r.id) :
          Update(w, k, [poses[k] EXCEPT !.delays = r.delays])
    BY <1>1, <1>4 DEF SetDelays
  <2>2. PICK p : p = poses[k]
    OBVIOUS
  <2>3. PICK q : q = [p EXCEPT !.delays = r.delays]
    OBVIOUS
  <2>4. r.action = "set_delays" /\ r.delays \in Delays /\ p \in Pose
    BY <1>1, <1>4, <2>2, FoundStored, RequestFields DEF SetDelays, Lock
  <2>5. q \in Pose
    BY <2>3, <2>4 DEF Pose
  <2>6. /\ p \in Stored /\ p.id = r.id /\ Changing(w, {p}, {q})'
        /\ Stored' = Stored /\ request' = request
    BY <1>2, <2>1, <2>2, <2>3, <2>5
  <2>7. Changing(w, {p}, {[p EXCEPT !.delays = request[w].delays]})'
    BY <2>3, <2>6 DEF Changing
  <2>8. QED
    BY <2>4, <2>6, <2>7 DEF Pending
<1>5. CASE Delete(w)
  <2>1. PICK k \in Find(r.id) : Commit(w, RemoveAt(poses, k), <<>>)
    BY <1>1, <1>5 DEF Delete
  <2>2. r.action = "delete" /\ Lock(w, "delete")
    BY <1>5 DEF Delete, Lock
  <2>3. PICK p : p = poses[k]
    OBVIOUS
  <2>4. /\ k \in DOMAIN poses /\ Distinct(poses) /\ Range(poses) = Stored
        /\ p \in Stored /\ p.id = r.id
    BY <1>1, <2>3, FoundStored
  <2>5. RemoveAt(poses, k) \in Seq(Pose) /\ <<>> \in Seq(Pose)
    BY <1>1, <2>4, RemoveElements
  <2>6. /\ Range(updated') = Range(RemoveAt(poses, k))
        /\ Range(result'[w]) = Range(<<>>)
        /\ Stored' = Stored /\ request' = request
    BY <2>1, <2>2, <2>5, CommitPending
  <2>7. Range(updated') = Stored \ {p} /\ Range(result'[w]) = {}
    BY <1>1, <2>3, <2>4, <2>6, RemoveRange, SmallRanges
  <2>8. Changing(w, {p}, {})'
    BY <2>6, <2>7 DEF Changing
  <2>9. QED
    BY <2>2, <2>4, <2>6, <2>8 DEF Pending
<1>6. QED
  BY <1>3, <1>4, <1>5

\* Nobody but the thread that stores the change can change what it means.
LEMMA PendingFrame ==
  ASSUME PendingInv, UNCHANGED <<file, updated>>,
         \A w \in Workers : pc'[w] \in {"write", "replace"} =>
           /\ pc[w] \in {"write", "replace"}
           /\ request'[w] = request[w] /\ result'[w] = result[w]
  PROVE  PendingInv'
<1> SUFFICES ASSUME NEW w \in Workers, pc'[w] \in {"write", "replace"}
             PROVE  Pending(w)'
  BY DEF PendingInv
<1>1. /\ Pending(w) /\ request'[w] = request[w] /\ result'[w] = result[w]
      /\ Stored' = Stored /\ updated' = updated
  BY DEF PendingInv, Stored
<1>2. \A old, new : Changing(w, old, new) => Changing(w, old, new)'
  BY <1>1 DEF Changing
<1>3. QED
  BY <1>1, <1>2 DEF Pending

LEMMA PendingStep ==
  ASSUME StoreInv, PersistInv, Persisted, PendingInv, [Next]_vars
  PROVE  PendingInv'
<1>1. /\ pc \in [Workers -> Points] /\ request \in [Workers -> Requests]
      /\ result \in [Workers -> Seq(Pose)]
  BY DEF StoreInv, TypeOK
<1>2. CASE Start \/ UNCHANGED vars
  BY <1>2, PendingFrame DEF Start, vars, fileVars, callVars
<1>3. CASE Crash
  BY <1>3 DEF Crash, PendingInv
<1>4. ASSUME NEW w \in Workers, NEW r \in Requests, NEW t \in Times,
             Call(w, r, t)
      PROVE  PendingInv'
  BY <1>1, <1>4, PendingFrame DEF Call, Goto, fileVars
<1>5. ASSUME NEW w \in Workers, Return(w)
      PROVE  PendingInv'
  BY <1>1, <1>5, PendingFrame DEF Return, Goto, Show, fileVars
<1>6. ASSUME NEW w \in Workers,
             List(w) \/ Save(w) \/ Rename(w) \/ SetDelays(w) \/ Delete(w)
      PROVE  PendingInv'
  <2>1. \A v \in Workers : pc[v] \notin {"write", "replace"}
    BY <1>6, StoreWorkersAssumption
       DEF PersistInv, List, Save, Rename, SetDelays, Delete, Lock
  <2>2. \E p \in {"done", "notFound", "write"} : Goto(w, p)
    BY <1>6 DEF List, Save, Rename, SetDelays, Delete, NotFound, Unchanged,
                Update, Insert, Commit
  <2>3. pc'[w] = "write" => Pending(w)'
    <3>1. List(w) => pc'[w] = "done"
      BY <1>1 DEF List, Unchanged, Goto
    <3>2. QED
      BY <1>6, <3>1, SavePending, ChangePending
  <2>4. QED
    BY <1>1, <2>1, <2>2, <2>3 DEF PendingInv, Goto
<1>7. ASSUME NEW w \in Workers,
             StoreTemporary(w) \/ ReplaceFile(w) \/ Publish(w)
      PROVE  PendingInv'
  <2>1. /\ lock = w
        /\ \A v \in Workers : v # w => pc[v] \notin {"write", "replace"}
    BY <1>7 DEF PersistInv, StoreTemporary, ReplaceFile, Publish
  <2>2. \/ \E p \in {"failed", "publish", "done"} : Goto(w, p)
        \/ /\ Goto(w, "replace") /\ pc[w] = "write"
           /\ UNCHANGED <<file, updated, result, request>>
    BY <1>7 DEF StoreTemporary, ReplaceFile, Publish, Throw, WriteTemporary
  <2>3. CASE \E p \in {"failed", "publish", "done"} : Goto(w, p)
    BY <1>1, <2>1, <2>3 DEF Goto, PendingInv
  <2>4. CASE /\ Goto(w, "replace") /\ pc[w] = "write"
             /\ UNCHANGED <<file, updated, result, request>>
    BY <1>1, <2>1, <2>4, PendingFrame DEF Goto
  <2>5. QED
    BY <2>2, <2>3, <2>4
<1>8. QED
  BY <1>2, <1>3, <1>4, <1>5, <1>6, <1>7 DEF Next

\* What the library's callers see, as functions of the threads.
Answer(w) == IF Phase(w) = "done" THEN Range(result[w]) ELSE {}
Phases == [w \in Workers |-> Phase(w)]
Answers == [w \in Workers |-> Answer(w)]

LEMMA PhaseIs ==
  ASSUME NEW w
  PROVE  /\ pc[w] \in {"waiting", "write", "replace"} => Phase(w) = "asked"
         /\ pc[w] \in {"publish", "done"} => Phase(w) = "done"
         /\ pc[w] \in {"idle", "notFound", "failed"} => Phase(w) = pc[w]
BY DEF Phase

\* A thread that moves takes nobody else along.
LEMMA Moves ==
  ASSUME TypeOK, NEW w \in Workers, NEW p, Goto(w, p),
         UNCHANGED result \/ \E ps : Show(w, ps)
  PROVE  /\ pc'[w] = p
         /\ Phases' = [Phases EXCEPT ![w] = Phase(w)']
         /\ Answers' = [Answers EXCEPT ![w] = Answer(w)']
<1>1. pc'[w] = p /\ \A v \in Workers : v # w => pc'[v] = pc[v]
  BY DEF Goto, TypeOK
<1>2. \A v \in Workers : v # w => result'[v] = result[v]
  BY DEF Show, TypeOK
<1>3. \A v \in Workers : v # w => Phase(v)' = Phase(v) /\ Answer(v)' = Answer(v)
  BY <1>1, <1>2 DEF Phase, Answer
<1>4. QED
  BY <1>1, <1>3 DEF Phases, Answers

\* A step the callers do not see.
LEMMA Unseen ==
  ASSUME Stored' = Stored, UNCHANGED request,
         \A w \in Workers : Phase(w)' = Phase(w) /\ Answer(w)' = Answer(w)
  PROVE  UNCHANGED Library!vars
BY DEF Library!vars, Answer

\* A thread that moves unseen.
LEMMA UnseenMove ==
  ASSUME TypeOK, NEW w \in Workers, NEW p, Goto(w, p),
         UNCHANGED result \/ \E ps : Show(w, ps),
         Stored' = Stored, UNCHANGED request,
         Phase(w)' = Phase(w) /\ Answer(w)' = Answer(w)
  PROVE  UNCHANGED Library!vars
<1>1. \A v \in Workers : Phase(v)' = Phase(v) /\ Answer(v)' = Answer(v)
  <2> SUFFICES ASSUME NEW v \in Workers, v # w
               PROVE  Phase(v)' = Phase(v) /\ Answer(v)' = Answer(v)
    OBVIOUS
  <2>1. pc'[v] = pc[v] /\ result'[v] = result[v]
    BY DEF Goto, Show, TypeOK
  <2>2. QED
    BY <2>1 DEF Phase, Answer
<1>2. QED
  BY <1>1, Unseen

\* A request takes effect.
LEMMA SeenCommit ==
  ASSUME TypeOK, NEW w \in Workers, Phase(w) = "asked",
         NEW p \in {"publish", "done"}, Goto(w, p),
         UNCHANGED result \/ \E ps : Show(w, ps),
         NEW old, NEW new, Stored' = (Stored \ old) \cup new,
         NEW shown, Range(result'[w]) = shown, UNCHANGED request
  PROVE  Library!Commit(w, old, new, shown)
<1>1. /\ pc'[w] = p
      /\ Phases' = [Phases EXCEPT ![w] = Phase(w)']
      /\ Answers' = [Answers EXCEPT ![w] = Answer(w)']
  BY Moves
<1>2. Phase(w)' = "done"
  BY <1>1 DEF Phase
<1>3. Answer(w)' = shown
  BY <1>2 DEF Answer
<1>4. /\ Phases' = [Phases EXCEPT ![w] = "done"]
      /\ Answers' = [Answers EXCEPT ![w] = shown]
      /\ Phases[w] = "asked"
  BY <1>1, <1>2, <1>3 DEF Phases
<1>5. QED
  BY <1>4 DEF Library!Commit, Phases, Answers, Answer

\* A request the critical section answers without a change takes effect there.
LEMMA UnchangedRefines ==
  ASSUME StoreInv, Persisted, NEW w \in Workers,
         List(w) \/ Save(w) \/ Rename(w) \/ SetDelays(w) \/ Delete(w),
         pc'[w] # "write"
  PROVE  Library!Next
<1> DEFINE r == request[w]
<1>1. /\ up /\ lock = NoWorker /\ pc[w] = "waiting" /\ TypeOK
      /\ r \in Requests /\ poses \in Seq(Pose) /\ Range(poses) = Stored
      /\ Stored' = Stored /\ UNCHANGED request /\ Phase(w) = "asked"
  BY PhaseIs DEF List, Save, Rename, SetDelays, Delete, Lock, StoreInv,
       TypeOK, Persisted, Stored, fileVars
<1>2. ASSUME NEW ps, Commit(w, ps, <<>>) \/ \E q : Commit(w, ps, <<q>>)
      PROVE  FALSE
  BY <1>1, <1>2 DEF Commit, Goto, TypeOK
<1>3. CASE List(w)
  <2>1. /\ Goto(w, "done") /\ Show(w, poses) /\ r.action = "list"
        /\ Range(result'[w]) = Stored
    BY <1>1, <1>3 DEF List, Lock, Unchanged, Show, TypeOK
  <2>2. Stored' = (Stored \ {}) \cup {}
    BY <1>1
  <2>3. Library!Commit(w, {}, {}, Stored)
    BY <1>1, <2>1, <2>2, SeenCommit
  <2>4. QED
    BY <2>1, <2>3 DEF Library!Next, Library!List
<1>4. CASE Save(w)
  <2>1. PICK k \in Find(r.id) : Unchanged(w, "done", <<poses[k]>>)
    BY <1>2, <1>4 DEF Save, Insert
  <2>2. /\ poses[k] \in Stored /\ poses[k].id = r.id
        /\ \A p \in Stored : p.id = r.id => p = poses[k]
    BY <1>1, FoundStored
  <2>3. /\ Goto(w, "done") /\ Show(w, <<poses[k]>>) /\ r.action = "save"
        /\ result'[w] = <<poses[k]>>
    BY <1>1, <1>4, <2>1 DEF Save, Lock, Unchanged, Show, TypeOK
  <2>4. Range(result'[w]) = Library!WithId(r.id)
    BY <2>2, <2>3, SmallRanges DEF Library!WithId
  <2>5. Stored' = (Stored \ {}) \cup {} /\ Library!WithId(r.id) # {}
    BY <1>1, <2>2 DEF Library!WithId
  <2>6. Library!Commit(w, {}, {}, Library!WithId(r.id))
    BY <1>1, <2>3, <2>4, <2>5, SeenCommit
  <2>7. QED
    BY <2>3, <2>5, <2>6 DEF Library!Next, Library!SaveAgain
<1>5. CASE Rename(w) \/ SetDelays(w) \/ Delete(w)
  <2>1. NotFound(w) /\ r.action \in {"rename", "set_delays", "delete"}
    BY <1>2, <1>5 DEF Rename, SetDelays, Delete, Update, Lock
  <2>2. Goto(w, "notFound") /\ Show(w, <<>>) /\ Registered(r.id) = {}
    BY <2>1 DEF NotFound, Unchanged
  <2>3. Library!WithId(r.id) = {}
    BY <1>1, <2>2, NothingFound DEF Library!WithId
  <2>4. /\ pc'[w] = "notFound"
        /\ Phases' = [Phases EXCEPT ![w] = Phase(w)']
        /\ Answers' = [Answers EXCEPT ![w] = Answer(w)']
    BY <1>1, <2>2, Moves
  <2>5. Phase(w)' = "notFound" /\ Answer(w)' = {} /\ Answer(w) = {}
    BY <1>1, <2>4 DEF Phase, Answer
  <2>6. /\ Phases' = [Phases EXCEPT ![w] = "notFound"] /\ Answers' = Answers
        /\ Phases[w] = "asked"
    BY <1>1, <2>4, <2>5 DEF Phases, Answers
  <2>7. Library!NotFound(w)
    BY <1>1, <2>1, <2>3, <2>6
       DEF Library!NotFound, Phases, Answers, Answer
  <2>8. QED
    BY <2>7 DEF Library!Next
<1>6. QED
  BY <1>3, <1>4, <1>5

\* A change that is begun is not seen ...
LEMMA BeginRefines ==
  ASSUME StoreInv, NEW w \in Workers,
         List(w) \/ Save(w) \/ Rename(w) \/ SetDelays(w) \/ Delete(w),
         pc'[w] = "write"
  PROVE  UNCHANGED Library!vars
<1>1. /\ TypeOK /\ pc[w] = "waiting" /\ Stored' = Stored /\ UNCHANGED request
      /\ pc \in [Workers -> Points]
  BY DEF List, Save, Rename, SetDelays, Delete, Lock, StoreInv, TypeOK,
         Stored, fileVars
<1>2. \E p, ps : Goto(w, p) /\ Show(w, ps)
  BY DEF List, Save, Rename, SetDelays, Delete, NotFound, Unchanged, Update,
         Insert, Commit
<1>3. Phase(w)' = Phase(w) /\ Answer(w)' = Answer(w)
  BY <1>1 DEF Phase, Answer
<1>4. QED
  BY <1>1, <1>2, <1>3, UnseenMove

\* ... one that fails leaves everything as it was ...
LEMMA ThrowRefines ==
  ASSUME StoreInv, PendingInv, NEW w \in Workers,
         pc[w] \in {"write", "replace"}, Throw(w), Stored' = Stored,
         UNCHANGED request
  PROVE  Library!Next
<1>1. TypeOK /\ Goto(w, "failed") /\ Show(w, <<>>) /\ Phase(w) = "asked"
  BY PhaseIs DEF StoreInv, Throw
<1>2. request[w].action # "list"
  BY DEF PendingInv, Pending
<1>3. /\ pc'[w] = "failed"
      /\ Phases' = [Phases EXCEPT ![w] = Phase(w)']
      /\ Answers' = [Answers EXCEPT ![w] = Answer(w)']
  BY <1>1, Moves
<1>4. Phase(w)' = "failed" /\ Answer(w)' = {} /\ Answer(w) = {}
  BY <1>1, <1>3 DEF Phase, Answer
<1>5. /\ Phases' = [Phases EXCEPT ![w] = "failed"] /\ Answers' = Answers
      /\ Phases[w] = "asked"
  BY <1>1, <1>3, <1>4 DEF Phases, Answers
<1>6. Library!Fail(w)
  BY <1>2, <1>5 DEF Library!Fail, Phases, Answers, Answer
<1>7. QED
  BY <1>6 DEF Library!Next

\* ... and one takes effect when the file is replaced.
LEMMA ReplaceRefines ==
  ASSUME StoreInv, PersistInv, PendingInv, NEW w \in Workers,
         pc[w] = "replace", Replace, Goto(w, "publish"), UNCHANGED result,
         UNCHANGED request
  PROVE  Library!Next
<1> DEFINE r == request[w]
<1>1. /\ TypeOK /\ Phase(w) = "asked" /\ Pending(w)
      /\ updated \in Seq(Pose) /\ file' = updated /\ result'[w] = result[w]
  BY PhaseIs DEF StoreInv, TypeOK, PersistInv, PendingInv, Replace
<1>2. Stored' = Range(updated)
  BY <1>1, ContentsAssumption DEF Stored
<1>3. ASSUME NEW old, NEW new, Changing(w, old, new)
      PROVE  Library!Commit(w, old, new, new)
  <2>1. Stored' = (Stored \ old) \cup new /\ Range(result'[w]) = new
    BY <1>1, <1>2, <1>3 DEF Changing
  <2>2. QED
    BY <1>1, <2>1, SeenCommit
<1>4. CASE r.action = "save"
  <2>1. PICK i \in Ids :
          /\ i = r.id \/ r.id = NoId
          /\ \A p \in Stored : p.id # i
          /\ Changing(w, {}, {[id |-> i, name |-> r.name, delays |-> r.delays]})
    BY <1>1, <1>4 DEF Pending
  <2>2. Library!WithId(i) = {}
    BY <2>1 DEF Library!WithId
  <2>3. Library!Save(w, i)
    BY <1>3, <1>4, <2>1, <2>2 DEF Library!Save
  <2>4. QED
    BY <2>3 DEF Library!Next
<1>5. CASE r.action = "rename"
  <2>1. PICK p \in Stored :
          p.id = r.id /\ Changing(w, {p}, {[p EXCEPT !.name = r.name]})
    BY <1>1, <1>5 DEF Pending
  <2>2. p \in Library!WithId(r.id)
    BY <2>1 DEF Library!WithId
  <2>3. Library!Rename(w)
    BY <1>3, <1>5, <2>1, <2>2 DEF Library!Rename
  <2>4. QED
    BY <2>3 DEF Library!Next
<1>6. CASE r.action = "set_delays"
  <2>1. PICK p \in Stored :
          p.id = r.id /\ Changing(w, {p}, {[p EXCEPT !.delays = r.delays]})
    BY <1>1, <1>6 DEF Pending
  <2>2. p \in Library!WithId(r.id)
    BY <2>1 DEF Library!WithId
  <2>3. Library!SetDelays(w)
    BY <1>3, <1>6, <2>1, <2>2 DEF Library!SetDelays
  <2>4. QED
    BY <2>3 DEF Library!Next
<1>7. CASE r.action = "delete"
  <2>1. PICK p \in Stored : p.id = r.id /\ Changing(w, {p}, {})
    BY <1>1, <1>7 DEF Pending
  <2>2. p \in Library!WithId(r.id)
    BY <2>1 DEF Library!WithId
  <2>3. Library!Delete(w)
    BY <1>3, <1>7, <2>1, <2>2 DEF Library!Delete
  <2>4. QED
    BY <2>3 DEF Library!Next
<1>8. QED
  BY <1>1, <1>4, <1>5, <1>6, <1>7 DEF Pending

\* Asking, returning and dying are seen as what they are.
LEMMA CallRefines ==
  ASSUME StoreInv, NEW w \in Workers, NEW r \in Requests, NEW t \in Times,
         Call(w, r, t)
  PROVE  Library!Next
<1>1. /\ TypeOK /\ Goto(w, "waiting") /\ UNCHANGED result /\ pc[w] = "idle"
      /\ Stored' = Stored /\ request' = [request EXCEPT ![w] = r]
  BY DEF StoreInv, Call, Stored, fileVars
<1>2. /\ pc'[w] = "waiting"
      /\ Phases' = [Phases EXCEPT ![w] = Phase(w)']
      /\ Answers' = [Answers EXCEPT ![w] = Answer(w)']
  BY <1>1, Moves
<1>3. /\ Phase(w) = "idle" /\ Phase(w)' = "asked"
      /\ Answer(w)' = {} /\ Answer(w) = {}
  BY <1>1, <1>2 DEF Phase, Answer
<1>4. /\ Phases' = [Phases EXCEPT ![w] = "asked"] /\ Answers' = Answers
      /\ Phases[w] = "idle"
  BY <1>2, <1>3 DEF Phases, Answers
<1>5. r \in Library!Requests
  BY ClientIdsAssumption DEF Requests, ListRequest, Library!Requests
<1>6. Library!Ask(w, r)
  BY <1>1, <1>4 DEF Library!Ask, Phases, Answers, Answer
<1>7. QED
  BY <1>5, <1>6 DEF Library!Next

LEMMA ReturnRefines ==
  ASSUME StoreInv, NEW w \in Workers, Return(w)
  PROVE  Library!Next
<1>1. /\ TypeOK /\ Goto(w, "idle") /\ Show(w, <<>>)
      /\ pc[w] \in {"done", "notFound", "failed"}
      /\ Stored' = Stored /\ request' = [request EXCEPT ![w] = ListRequest]
  BY DEF StoreInv, Return, Stored, fileVars
<1>2. /\ pc'[w] = "idle"
      /\ Phases' = [Phases EXCEPT ![w] = Phase(w)']
      /\ Answers' = [Answers EXCEPT ![w] = Answer(w)']
  BY <1>1, Moves
<1>3. /\ Phase(w) \in {"done", "notFound", "failed"} /\ Phase(w)' = "idle"
      /\ Answer(w)' = {}
  BY <1>1, <1>2 DEF Phase, Answer
<1>4. /\ Phases' = [Phases EXCEPT ![w] = "idle"]
      /\ Answers' = [Answers EXCEPT ![w] = {}]
      /\ Phases[w] \in {"done", "notFound", "failed"}
  BY <1>2, <1>3 DEF Phases
<1>5. Library!Return(w)
  BY <1>1, <1>4 DEF Library!Return, Phases, Answers, Answer, ListRequest
<1>6. QED
  BY <1>5 DEF Library!Next

LEMMA CrashRefines ==
  ASSUME Crash PROVE Library!Next
<1>1. /\ \A w \in Workers : pc'[w] = "idle"
      /\ Stored' = Stored /\ request' = [w \in Workers |-> ListRequest]
  BY DEF Crash, Stored
<1>2. \A w \in Workers : Phase(w)' = "idle" /\ Answer(w)' = {}
  BY <1>1 DEF Phase, Answer
<1>3. Library!Crash
  BY <1>1, <1>2 DEF Library!Crash, Answer, ListRequest
<1>4. QED
  BY <1>3 DEF Library!Next

\* LibrarySpec: what callers see is a set of poses that changes in one step
\* per request and never loses a change it reported, whatever fails and
\* whenever the service dies, as long as no error hides in a flush.
THEOREM ImplementsLibrary ==
  ASSUME "flush" \notin StoreFaults
  PROVE  Spec => LibrarySpec
<1>1. Init => PendingInv
  BY DEF Init, PendingInv
<1>2. StoreInv /\ PersistInv /\ PendingInv /\ [Next]_vars => PendingInv'
  BY PendingStep, PersistInvPersisted
<1>3. Init => Library!Init
  <2> SUFFICES ASSUME Init PROVE Library!Init
    OBVIOUS
  <2>1. Stored = {}
    BY DEF Init, FileInit, Stored
  <2>2. \A w \in Workers : Phase(w) = "idle" /\ Answer(w) = {}
    BY DEF Init, Phase, Answer
  <2>3. QED
    BY <2>1, <2>2 DEF Init, Library!Init, ListRequest, Answer
<1>4. StoreInv /\ PersistInv /\ PendingInv /\ [Next]_vars
        => [Library!Next]_(Library!vars)
  <2> SUFFICES ASSUME StoreInv, PersistInv, PendingInv, [Next]_vars
               PROVE  Library!Next \/ UNCHANGED Library!vars
    OBVIOUS
  <2>1. Persisted /\ TypeOK
    BY PersistInvPersisted DEF StoreInv
  <2>2. CASE Start \/ UNCHANGED vars
    <3>1. Stored' = Stored /\ UNCHANGED <<request, pc, result>>
      BY <2>2 DEF Start, vars, fileVars, callVars, Stored
    <3>2. QED
      BY <3>1, Unseen DEF Phase, Answer
  <2>3. CASE Crash
    BY <2>3, CrashRefines
  <2>4. ASSUME NEW w \in Workers,
               List(w) \/ Save(w) \/ Rename(w) \/ SetDelays(w) \/ Delete(w)
        PROVE  Library!Next \/ UNCHANGED Library!vars
    BY <2>1, <2>4, UnchangedRefines, BeginRefines
  <2>5. ASSUME NEW w \in Workers, StoreTemporary(w)
        PROVE  Library!Next \/ UNCHANGED Library!vars
    <3>1. pc[w] = "write" /\ Stored' = Stored /\ UNCHANGED request
      BY <2>5 DEF StoreTemporary, WriteTemporary, WriteFails, Stored
    <3>2. CASE Throw(w)
      BY <3>1, <3>2, ThrowRefines
    <3>3. CASE Goto(w, "replace") /\ UNCHANGED result
      <4>1. pc'[w] = "replace"
        BY <2>1, <3>3 DEF Goto, TypeOK
      <4>2. Phase(w)' = Phase(w) /\ Answer(w)' = Answer(w)
        BY <3>1, <4>1 DEF Phase, Answer
      <4>3. QED
        BY <2>1, <3>1, <3>3, <4>2, UnseenMove
    <3>4. QED
      BY <2>5, <3>2, <3>3 DEF StoreTemporary
  <2>6. ASSUME NEW w \in Workers, ReplaceFile(w)
        PROVE  Library!Next
    <3>1. pc[w] = "replace" /\ UNCHANGED request
      BY <2>6 DEF ReplaceFile
    <3>2. CASE ReplaceFails /\ Throw(w)
      <4>1. Stored' = Stored
        BY <3>2 DEF ReplaceFails, Stored
      <4>2. QED
        BY <3>1, <3>2, <4>1, ThrowRefines
    <3>3. CASE Replace /\ Goto(w, "publish") /\ UNCHANGED result
      BY <3>1, <3>3, ReplaceRefines
    <3>4. QED
      BY <2>6, <3>2, <3>3 DEF ReplaceFile
  <2>7. ASSUME NEW w \in Workers, Publish(w)
        PROVE  UNCHANGED Library!vars
    <3>1. /\ pc[w] = "publish" /\ Goto(w, "done") /\ UNCHANGED result
          /\ Stored' = Stored /\ UNCHANGED request
      BY <2>7 DEF Publish, Stored, fileVars
    <3>2. pc'[w] = "done"
      BY <2>1, <3>1 DEF Goto, TypeOK
    <3>3. Phase(w)' = Phase(w) /\ Answer(w)' = Answer(w)
      BY <3>1, <3>2 DEF Phase, Answer
    <3>4. QED
      BY <2>1, <3>1, <3>3, UnseenMove
  <2>8. QED
    BY <2>2, <2>3, <2>4, <2>5, <2>6, <2>7, CallRefines, ReturnRefines
    DEF Next
<1>5. QED
  BY <1>1, <1>2, <1>3, <1>4, StoreInvariant, PersistInvariant, PTL
  DEF Spec, LibrarySpec, Library!Spec

=============================================================================
