-------------------------- MODULE TeachHandProofs ---------------------------
(***************************************************************************)
(* Theorems about TeachHand, for any selection of joints, configuration    *)
(* and forces.  What the forces decide is in the last sections; the travel *)
(* and the quiet of the forces do not depend on what the median is.        *)
(***************************************************************************)
EXTENDS TeachHand, CompliantTeachProofs

Names == {"baseline", "initial", "target", "phase", "window", "candidate",
          "last", "engage", "release", "opposite"}
Fields(t) == DOMAIN t = Names /\ t = [x \in Names |-> t[x]]

InTravel(c, t) ==
  /\ t.initial \in 0 .. MaxQ /\ t.target \in Int
  /\ Lowest(c, t) <= t.target /\ t.target <= Highest(c, t)

\* What an invariant needs to know of a controller.
Sound(c, t) ==
  Fields(t) /\ InTravel(c, t) /\ t.phase \in Phases /\ t.last \in Directions

\* s may follow t: it is a step under way exactly if the caller is told so, and
\* no step goes back the way the joint came.
Follows(c, t, outcome) ==
  LET s == outcome.teach
  IN /\ Sound(c, s)
     /\ outcome.event = "command" => s.phase = "settle"
     /\ outcome.event # "command" => s.phase = t.phase /\ s.target = t.target
     /\ c.oppositeReleases => (s.target - t.target) * t.last >= 0

-----------------------------------------------------------------------------
\* A controller that only counts is followed by one that has not moved.
LEMMA Still ==
  ASSUME NEW c \in Configs, NEW t, Sound(c, t),
         NEW s, Fields(s), s.initial = t.initial, s.target = t.target,
         s.phase = t.phase, s.last \in Directions,
         NEW e, e # "command"
  PROVE  Follows(c, t, Outcome(s, e))
<1>1. (s.target - t.target) * t.last = 0
  BY DEF Sound, InTravel, Directions
<1>2. Sound(c, s)
  BY DEF Sound, InTravel, Lowest, Highest
<1> QED
  BY <1>1, <1>2 DEF Follows, Outcome

LEMMA SampledStill ==
  ASSUME NEW c \in Configs, NEW t, Sound(c, t), NEW f
  PROVE  LET s == Sampled(c, t, f)
         IN /\ Fields(s) /\ s.initial = t.initial /\ s.target = t.target
            /\ s.phase = t.phase /\ s.last = t.last
  BY DEF Sampled, Sound, Fields, Names

\* The force has turned: the joint stays.
LEMMA ReverseFollows ==
  ASSUME NEW c \in Configs, NEW t, Sound(c, t), NEW f
  PROVE  Follows(c, t, Reverse(c, t, f))
<1> DEFINE s == [t EXCEPT !.engage = 0, !.candidate = 0, !.opposite = @ + 1]
           r == [s EXCEPT !.baseline = f, !.last = 0, !.opposite = 0,
                          !.release = 0]
<1>1. /\ Fields(s) /\ s.initial = t.initial /\ s.target = t.target
      /\ s.phase = t.phase /\ s.last = t.last
  BY DEF Sound, Fields, Names
<1>2. /\ Fields(r) /\ r.initial = t.initial /\ r.target = t.target
      /\ r.phase = t.phase /\ r.last = 0
  BY <1>1 DEF Fields, Names
<1>3. Follows(c, t, Outcome(s, "none"))
  BY <1>1, Still DEF Sound
<1>4. Follows(c, t, Outcome(r, "released"))
  BY <1>2, Still DEF Directions
<1> QED
  BY <1>3, <1>4 DEF Reverse

\* No force: the joint stays.
LEMMA NeutralFollows ==
  ASSUME NEW c \in Configs, NEW t, Sound(c, t), NEW f
  PROVE  Follows(c, t, Neutral(c, t, f))
<1> DEFINE s == [t EXCEPT !.opposite = 0, !.candidate = 0, !.engage = 0,
                   !.baseline = @ + Clamp(f - @, - c.baselineAdaptStep,
                                          c.baselineAdaptStep),
                   !.release = IF t.last = 0 THEN @ ELSE @ + 1]
           r == [s EXCEPT !.last = 0, !.release = 0]
<1>1. /\ Fields(s) /\ s.initial = t.initial /\ s.target = t.target
      /\ s.phase = t.phase /\ s.last = t.last
  BY DEF Sound, Fields, Names
<1>2. /\ Fields(r) /\ r.initial = t.initial /\ r.target = t.target
      /\ r.phase = t.phase /\ r.last = 0
  BY <1>1 DEF Fields, Names
<1>3. Follows(c, t, Outcome(s, "none"))
  BY <1>1, Still DEF Sound
<1>4. Follows(c, t, Outcome(r, "released"))
  BY <1>2, Still DEF Directions
<1> QED
  BY <1>3, <1>4 DEF Neutral

\* A clamped step in a direction goes that way or nowhere, and stays within
\* the travel.
LEMMA ClampedStep ==
  ASSUME NEW c \in Configs, NEW t, InTravel(c, t), NEW d \in {-1, 1}
  PROVE  LET next == Clamp(t.target + d * c.step, Lowest(c, t), Highest(c, t))
         IN /\ next \in Int /\ (next - t.target) * d >= 0
            /\ Lowest(c, t) <= next /\ next <= Highest(c, t)
  BY MaxQAssumption
  DEF InTravel, Clamp, Larger, Smaller, Lowest, Highest, Configs

\* A step goes on in the direction of the last one, unless the joint has been
\* released or may turn at once.
LEMMA StepFollows ==
  ASSUME NEW c \in Configs, NEW t, Sound(c, t), t.phase = "sense",
         NEW d \in {-1, 1}, c.oppositeReleases => t.last \in {0, d}
  PROVE  Follows(c, t, Step(c, t, d))
<1> DEFINE next == Clamp(t.target + d * c.step, Lowest(c, t), Highest(c, t))
           s == [t EXCEPT !.engage = 0, !.candidate = 0, !.last = d]
           r == [s EXCEPT !.baseline = @ + c.baselineSlope * (next - t.target),
                          !.target = next, !.phase = "settle"]
<1>1. /\ Fields(s) /\ s.initial = t.initial /\ s.target = t.target
      /\ s.phase = t.phase /\ s.last = d
  BY DEF Sound, Fields, Names
<1>2. /\ next \in Int /\ (next - t.target) * d >= 0
      /\ Lowest(c, t) <= next /\ next <= Highest(c, t)
  BY ClampedStep DEF Sound
<1> HIDE DEF next
<1>3. /\ Fields(r) /\ r.initial = t.initial /\ r.target = next
      /\ r.phase = "settle" /\ r.last = d
  BY <1>1 DEF Fields, Names
<1>4. Follows(c, t, Outcome(s, "limit"))
  BY <1>1, Still DEF Directions
<1>5. Follows(c, t, Outcome(r, "command"))
  <2>1. Sound(c, r)
    BY <1>2, <1>3 DEF Sound, InTravel, Lowest, Highest, Phases, Directions
  <2>2. c.oppositeReleases => (next - t.target) * t.last >= 0
    BY <1>2 DEF Sound, InTravel
  <2> HIDE DEF r
  <2> QED
    BY <1>3, <2>1, <2>2 DEF Follows, Outcome
<1> QED
  BY <1>4, <1>5 DEF Step, next
LEMMA PushFollows ==
  ASSUME NEW c \in Configs, NEW t, Sound(c, t), t.phase = "sense",
         NEW d \in {-1, 1}, c.oppositeReleases => t.last \in {0, d}
  PROVE  Follows(c, t, Push(c, t, d))
<1> DEFINE s == [t EXCEPT !.opposite = 0, !.release = 0, !.candidate = d,
                   !.engage = IF t.candidate = d THEN @ + 1 ELSE 1]
<1>1. /\ Fields(s) /\ s.initial = t.initial /\ s.target = t.target
      /\ s.phase = t.phase /\ s.last = t.last
  BY DEF Sound, Fields, Names
<1>2. Sound(c, s)
  BY <1>1 DEF Sound, InTravel, Lowest, Highest
<1>3. Follows(c, t, Outcome(s, "none"))
  BY <1>1, Still DEF Sound
<1>4. Follows(c, s, Step(c, s, d))
  BY <1>1, <1>2, StepFollows
<1>5. Follows(c, t, Step(c, s, d))
  BY <1>1, <1>4 DEF Follows
<1> QED
  BY <1>3, <1>5 DEF Push

\* Whatever the median is.
LEMMA ObserveFollows ==
  ASSUME NEW c \in Configs, NEW t, Sound(c, t), NEW reading
  PROVE  Follows(c, t, ObserveForce(c, t, reading))
<1> DEFINE s == Sampled(c, t, reading)
           f == Median(s.window)
           d == Direction(c, s, f)
<1>1. /\ Fields(s) /\ s.initial = t.initial /\ s.target = t.target
      /\ s.phase = t.phase /\ s.last = t.last
  BY SampledStill
<1>2. Sound(c, s)
  BY <1>1 DEF Sound, InTravel, Lowest, Highest
<1>3. d \in {-1, 0, 1}
  BY DEF Direction
<1>4. ASSUME NEW o, Follows(c, s, o) PROVE Follows(c, t, o)
  BY <1>1, <1>4 DEF Follows
<1>5. CASE t.phase = "settle"
  <2>1. Follows(c, t, Outcome(t, "none"))
    BY Still DEF Sound
  <2> QED
    BY <1>5, <2>1 DEF ObserveForce
<1>6. Follows(c, t, Outcome(s, "none"))
  BY <1>1, Still DEF Sound
<1> HIDE DEF s, f, d
<1>7. CASE t.phase = "sense"
  <2>1. Follows(c, s, React(c, s, f, d))
    <3>1. CASE c.oppositeReleases /\ s.last # 0 /\ d = - s.last
      BY <1>2, <3>1, ReverseFollows DEF React
    <3>2. CASE ~ (c.oppositeReleases /\ s.last # 0 /\ d = - s.last) /\ d = 0
      BY <1>2, <3>2, NeutralFollows DEF React
    <3>3. CASE ~ (c.oppositeReleases /\ s.last # 0 /\ d = - s.last) /\ d # 0
      <4>1. Follows(c, s, Push(c, s, d))
        BY <1>1, <1>2, <1>3, <1>7, <3>3, PushFollows DEF Sound, Directions
      <4> QED
        BY <3>3, <4>1 DEF React
    <3> QED
      BY <3>1, <3>2, <3>3
  <2>2. Follows(c, t, React(c, s, f, d))
    BY <1>4, <2>1
  <2>3. t.phase # "settle"
    BY <1>7
  <2>4. \/ ObserveForce(c, t, reading) = Outcome(s, "none")
        \/ ObserveForce(c, t, reading) = React(c, s, f, d)
    BY <2>3 DEF ObserveForce, s, f, d
  <2> QED
    BY <1>6, <2>2, <2>4
<1> QED
  BY <1>5, <1>7 DEF Sound, Phases

LEMMA SettledSound ==
  ASSUME NEW c \in Configs, NEW t, Sound(c, t)
  PROVE  LET s == MarkMotionSettled(t)
         IN Sound(c, s) /\ s.phase = "sense" /\ s.target = t.target
            /\ s.last = t.last
<1> DEFINE s == MarkMotionSettled(t)
<1>1. /\ Fields(s) /\ s.initial = t.initial /\ s.target = t.target
      /\ s.phase = "sense" /\ s.last = t.last
  BY DEF MarkMotionSettled, Sound, Fields, Names
<1> QED
  BY <1>1 DEF Sound, InTravel, Lowest, Highest, Phases
-----------------------------------------------------------------------------
\* The quiet of the forces rests on the blank: while a joint moves one is
\* pending and the blank lasts.
TeachInv ==
  /\ \A j \in Joints : Sound(Config[j], teach[j])
  /\ pending \subseteq Joints
  /\ PendingWaits
  /\ moving # {} => InDynamicBlank
  /\ QuietForces

\* What one cycle does to a joint, in the order of the code: it is resumed,
\* then perhaps observed.
LEMMA ProcessJoint ==
  ASSUME TeachInv, ProcessHand, NEW j \in Joints
  PROVE  /\ Sound(Config[j], teach'[j])
         /\ j \in pending' <=> teach'[j].phase = "settle"
         /\ Config[j].oppositeReleases =>
              (teach'[j].target - teach[j].target) * teach[j].last >= 0
<1> DEFINE t == Resumed
<1>1. PICK lock \in {Arbitrate(t)} :
        \E sensed \in {Permitted(t, lock)} :
          \E outcome \in {Observed(t, sensed)} :
            /\ teach' = [i \in Joints |-> outcome[i].teach]
            /\ pending' = Commanded(outcome)
  BY DEF ProcessHand
<1>2. PICK sensed \in {Permitted(t, lock)} :
        \E outcome \in {Observed(t, sensed)} :
          /\ teach' = [i \in Joints |-> outcome[i].teach]
          /\ pending' = Commanded(outcome)
  BY <1>1
<1>3. PICK outcome \in {Observed(t, sensed)} :
        /\ teach' = [i \in Joints |-> outcome[i].teach]
        /\ pending' = Commanded(outcome)
  BY <1>2
<1>4. Config[j] \in Configs
  BY ConfigAssumption
<1>5. /\ Sound(Config[j], t[j]) /\ t[j].phase = "sense"
      /\ t[j].target = teach[j].target /\ t[j].last = teach[j].last
  <2>1. t[j] = IF j \in pending THEN MarkMotionSettled(teach[j]) ELSE teach[j]
    BY DEF Resumed
  <2>2. CASE j \in pending
    BY <1>4, <2>1, <2>2, SettledSound DEF TeachInv
  <2>3. CASE j \notin pending
    <3>1. teach[j].phase # "settle"
      BY <2>3 DEF TeachInv, PendingWaits
    <3> QED
      BY <2>1, <2>3, <3>1 DEF TeachInv, Sound, Phases
  <2> QED
    BY <2>2, <2>3
<1>6. Follows(Config[j], t[j], outcome[j])
  <2>1. outcome[j] = IF j \in sensed
                     THEN ObserveForce(Config[j], t[j], force[j])
                     ELSE Outcome(t[j], "none")
    BY <1>3 DEF Observed
  <2>2. Follows(Config[j], t[j], ObserveForce(Config[j], t[j], force[j]))
    BY <1>4, <1>5, ObserveFollows
  <2>3. Follows(Config[j], t[j], Outcome(t[j], "none"))
    BY <1>4, <1>5, Still DEF Sound
  <2> QED
    BY <2>1, <2>2, <2>3
<1>7. teach'[j] = outcome[j].teach
  BY <1>3
<1>8. j \in pending' <=> outcome[j].event = "command"
  BY <1>3 DEF Commanded
<1>9. Config[j].oppositeReleases =>
        (teach'[j].target - teach[j].target) * teach[j].last >= 0
  BY <1>5, <1>6, <1>7 DEF Follows
<1>10. j \in pending' <=> teach'[j].phase = "settle"
  BY <1>5, <1>6, <1>7, <1>8 DEF Follows
<1> QED
  BY <1>6, <1>7, <1>9, <1>10 DEF Follows

LEMMA InitTeachInv == Init => TeachInv
<1> SUFFICES ASSUME Init PROVE TeachInv
  OBVIOUS
<1>1. PICK baseline \in [Joints -> Forces], q \in [Joints -> 0 .. MaxQ] :
        teach = [j \in Joints |-> NewTeach(baseline[j], q[j])]
  BY DEF Init
<1>2. ASSUME NEW j \in Joints
      PROVE  Sound(Config[j], teach[j]) /\ teach[j].phase = "sense"
  <2>1. teach[j] = NewTeach(baseline[j], q[j])
    BY <1>1
  <2>2. Fields(teach[j]) /\ teach[j].last = 0 /\ teach[j].phase = "sense"
        /\ teach[j].initial = q[j] /\ teach[j].target = q[j]
    BY <2>1 DEF NewTeach, Fields, Names
  <2>3. q[j] \in 0 .. MaxQ /\ Config[j].maximumTravel \in Nat
    BY ConfigAssumption DEF Configs
  <2>4. InTravel(Config[j], teach[j])
    BY <2>2, <2>3, MaxQAssumption
    DEF InTravel, Lowest, Highest, Larger, Smaller
  <2> QED
    BY <2>2, <2>4 DEF Sound, Phases, Directions
<1> QED
  BY <1>2 DEF Init, TeachInv, PendingWaits, QuietForces

LEMMA NextTeachInv == TeachInv /\ [Next]_vars => TeachInv'
<1> SUFFICES ASSUME TeachInv, [Next]_vars PROVE TeachInv'
  OBVIOUS
<1>1. CASE ProcessHand
  <2>1. /\ \A j \in Joints : Sound(Config[j], teach'[j])
        /\ \A j \in Joints : j \in pending' <=> teach'[j].phase = "settle"
    BY <1>1, ProcessJoint
  <2>2. moving = {}
    BY <1>1 DEF TeachInv, ProcessHand
  <2>3. \E outcome :
          /\ pending' = Commanded(outcome)
          /\ blank' = (blank \/ Commanded(outcome) # {})
          /\ moving' = moving \cup Commanded(outcome)
    BY <1>1 DEF ProcessHand
  <2>4. moving' = pending' /\ pending' \subseteq Joints
        /\ (pending' # {} => blank')
    BY <2>2, <2>3 DEF Commanded
  <2>5. \E sensed : dirty' = (dirty \ pending) \cup {j \in sensed : moving # {}}
    BY <1>1 DEF ProcessHand
  <2>6. dirty' = {}
    BY <2>2, <2>5 DEF TeachInv, QuietForces
  <2> QED
    BY <2>1, <2>4, <2>6 DEF TeachInv, PendingWaits, QuietForces, InDynamicBlank
<1> USE DEF TeachInv, PendingWaits, QuietForces, InDynamicBlank
<1>2. CASE Stop
  BY <1>2 DEF Stop, hand, history
<1>3. CASE Rest
  BY <1>3 DEF Rest, hand, history
<1>4. CASE BlankOver
  BY <1>4 DEF BlankOver, hand, history
<1>5. CASE \E j \in Joints, f \in Forces : Press(j, f)
  BY <1>5 DEF Press, hand, history
<1>6. CASE UNCHANGED vars
  BY <1>6 DEF vars, hand, history
<1> QED
  BY <1>1, <1>2, <1>3, <1>4, <1>5, <1>6 DEF Next

THEOREM TeachInvariant == Spec => []TeachInv
BY InitTeachInv, NextTeachInv, PTL DEF Spec

\* No decision uses a force read while a joint of the hand moved: ProcessHand
\* reads none before resume_at.
THEOREM ForcesQuiet == Spec => []QuietForces
<1>1. TeachInv => QuietForces
  BY DEF TeachInv
<1> QED
  BY <1>1, TeachInvariant, PTL

\* The pending mask of the hand and the phases of its controllers agree.
THEOREM PendingAgrees == Spec => []PendingWaits
<1>1. TeachInv => PendingWaits
  BY DEF TeachInv
<1> QED
  BY <1>1, TeachInvariant, PTL

\* A joint configured so does not step back the way it came before ObserveForce
\* has released it.
THEOREM ReversalReleases == Spec => NoImmediateReversal
<1> DEFINE Kept == \A j \in Joints :
             Config[j].oppositeReleases =>
               (teach'[j].target - teach[j].target) * teach[j].last >= 0
<1>1. TeachInv /\ [Next]_vars => [Kept]_vars
  <2> SUFFICES ASSUME TeachInv, Next PROVE Kept
    OBVIOUS
  <2>1. CASE ProcessHand
    BY <2>1, ProcessJoint
  <2>2. CASE ~ ProcessHand
    <3>1. teach' = teach
      BY <2>2 DEF Next, Stop, Rest, BlankOver, Press, hand
    <3> QED
      BY <3>1 DEF TeachInv, Sound, InTravel, Directions
  <2> QED
    BY <2>1, <2>2
<1> QED
  BY <1>1, TeachInvariant, PTL DEF Spec, NoImmediateReversal

-----------------------------------------------------------------------------
(***************************************************************************)
(* Types.                                                                  *)
(***************************************************************************)

\* What a controller counts and remembers.
Counting(c, t) ==
  /\ t.baseline \in Int
  /\ t.window \in Seq(Forces) /\ Len(t.window) <= c.filterSamples
  /\ t.candidate \in Directions
  /\ t.engage \in 0 .. c.engageSamples - 1
  /\ t.release \in 0 .. c.releaseSamples - 1
  /\ t.opposite \in 0 .. c.releaseSamples - 1

\* Sampled changes the window only, and makes its last sample the reading.
LEMMA SampledWindow ==
  ASSUME NEW c \in Configs, NEW t, Fields(t), Counting(c, t), NEW f \in Forces
  PROVE  LET s == Sampled(c, t, f)
         IN /\ s = [t EXCEPT !.window = s.window] /\ Fields(s)
            /\ s.window \in Seq(Forces)
            /\ IF Len(t.window) < c.filterSamples
               THEN s.window = Append(t.window, f)
               ELSE /\ Len(t.window) = c.filterSamples
                    /\ s.window = Append(Tail(t.window), f)
            /\ 0 < Len(s.window) /\ Len(s.window) <= c.filterSamples
<1> DEFINE w == t.window
           n == c.filterSamples
           v == Append(IF Len(w) < n THEN w ELSE Tail(w), f)
           s == Sampled(c, t, f)
<1>1. w \in Seq(Forces) /\ n \in Nat \ {0} /\ Len(w) <= n
  BY DEF Counting, Configs
<1>2. s = [t EXCEPT !.window = v] /\ s.window = v /\ Fields(s)
  BY DEF Sampled, Fields, Names
<1> HIDE DEF w, n, s
<1>3. /\ v \in Seq(Forces) /\ 0 < Len(v) /\ Len(v) <= n
      /\ IF Len(w) < n THEN v = Append(w, f)
         ELSE Len(w) = n /\ v = Append(Tail(w), f)
  <2>1. CASE Len(w) < n
    BY <1>1, <2>1
  <2>2. CASE ~ (Len(w) < n)
    BY <1>1, <2>2
  <2> QED
    BY <2>1, <2>2
<1> HIDE DEF v
<1> QED
  BY <1>2, <1>3 DEF w, n, s

\* Samples are numbers, and so is their median.
LEMMA MedianNumber ==
  ASSUME NEW w \in Seq(Forces), Len(w) > 0
  PROVE  w \in Seq(Int) /\ Median(w) \in Int
<1>1. w \in Seq(Int)
  BY ForcesAssumption, SeqMonotonic
<1> QED
  BY <1>1, MedianIs

LEMMA ReverseCounts ==
  ASSUME NEW c \in Configs, NEW t, Fields(t), Counting(c, t), NEW f \in Int
  PROVE  Counting(c, Reverse(c, t, f).teach)
<1> DEFINE s == [t EXCEPT !.engage = 0, !.candidate = 0, !.opposite = @ + 1]
           r == [s EXCEPT !.baseline = f, !.last = 0, !.opposite = 0,
                          !.release = 0]
<1>1. /\ Fields(s) /\ s.baseline = t.baseline /\ s.window = t.window
      /\ s.candidate = 0 /\ s.engage = 0 /\ s.release = t.release
      /\ s.opposite = t.opposite + 1
  BY DEF Fields, Names
<1>2. /\ r.baseline = f /\ r.window = t.window
      /\ r.candidate = 0 /\ r.engage = 0 /\ r.release = 0 /\ r.opposite = 0
  BY <1>1 DEF Fields, Names
<1> HIDE DEF r, s
<1>3. /\ c.engageSamples \in Nat \ {0} /\ c.releaseSamples \in Nat \ {0}
      /\ 0 \in Directions
  BY DEF Configs, Directions
<1>4. Counting(c, r)
  BY <1>2, <1>3 DEF Counting
<1>5. s.opposite < c.releaseSamples => Counting(c, s)
  BY <1>1, <1>3 DEF Counting
<1> QED
  BY <1>4, <1>5 DEF Reverse, Outcome, s, r

LEMMA NeutralCounts ==
  ASSUME NEW c \in Configs, NEW t, Fields(t), Counting(c, t), NEW f \in Int
  PROVE  Counting(c, Neutral(c, t, f).teach)
<1> DEFINE b == t.baseline + Clamp(f - t.baseline, - c.baselineAdaptStep,
                                   c.baselineAdaptStep)
           s == [t EXCEPT !.opposite = 0, !.candidate = 0, !.engage = 0,
                   !.baseline = @ + Clamp(f - @, - c.baselineAdaptStep,
                                          c.baselineAdaptStep),
                   !.release = IF t.last = 0 THEN @ ELSE @ + 1]
           r == [s EXCEPT !.last = 0, !.release = 0]
<1>1. /\ Fields(s) /\ s.baseline = b /\ s.window = t.window
      /\ s.candidate = 0 /\ s.engage = 0 /\ s.opposite = 0
      /\ s.last = t.last
      /\ s.release = IF t.last = 0 THEN t.release ELSE t.release + 1
  BY DEF Fields, Names
<1>2. /\ r.baseline = b /\ r.window = t.window
      /\ r.candidate = 0 /\ r.engage = 0 /\ r.release = 0 /\ r.opposite = 0
  BY <1>1 DEF Fields, Names
<1> HIDE DEF r, s
<1>3. /\ c.engageSamples \in Nat \ {0} /\ c.releaseSamples \in Nat \ {0}
      /\ 0 \in Directions
  BY DEF Configs, Directions
<1>4. b \in Int
  <2>1. t.baseline \in Int /\ c.baselineAdaptStep \in Nat
    BY DEF Configs, Counting
  <2> QED
    BY <2>1 DEF Clamp, Larger, Smaller
<1> HIDE DEF b
<1>5. Counting(c, r)
  BY <1>2, <1>3, <1>4 DEF Counting
<1>6. ~ (s.last # 0 /\ s.release >= c.releaseSamples) => Counting(c, s)
  BY <1>1, <1>3, <1>4 DEF Counting
<1> QED
  BY <1>5, <1>6 DEF Neutral, Outcome, s, r

LEMMA StepCounts ==
  ASSUME NEW c \in Configs, NEW t, Fields(t), InTravel(c, t),
         t.baseline \in Int,
         t.window \in Seq(Forces), Len(t.window) <= c.filterSamples,
         t.release \in 0 .. c.releaseSamples - 1,
         t.opposite \in 0 .. c.releaseSamples - 1,
         NEW d \in {-1, 1}
  PROVE  Counting(c, Step(c, t, d).teach)
<1> DEFINE next == Clamp(t.target + d * c.step, Lowest(c, t), Highest(c, t))
           b == t.baseline + c.baselineSlope * (next - t.target)
           s == [t EXCEPT !.engage = 0, !.candidate = 0, !.last = d]
           r == [s EXCEPT !.baseline = @ + c.baselineSlope * (next - t.target),
                          !.target = next, !.phase = "settle"]
<1>1. next \in Int
  BY ClampedStep
<1> HIDE DEF next
<1>2. b \in Int
  <2>1. c.baselineSlope \in Int /\ next - t.target \in Int
    BY <1>1 DEF Configs, InTravel
  <2>2. c.baselineSlope * (next - t.target) \in Int
    BY <2>1
  <2> QED
    BY <2>2
<1>3. /\ Fields(s) /\ s.baseline = t.baseline /\ s.window = t.window
      /\ s.candidate = 0 /\ s.engage = 0
      /\ s.release = t.release /\ s.opposite = t.opposite
  BY DEF Fields, Names
<1>4. /\ r.baseline = b /\ r.window = t.window /\ r.candidate = 0
      /\ r.engage = 0 /\ r.release = t.release /\ r.opposite = t.opposite
  BY <1>3 DEF Fields, Names
<1> HIDE DEF b, r, s
<1>5. c.engageSamples \in Nat \ {0} /\ 0 \in Directions
  BY DEF Configs, Directions
<1>6. Counting(c, s) /\ Counting(c, r)
  BY <1>2, <1>3, <1>4, <1>5 DEF Counting
<1> QED
  BY <1>6 DEF Step, Outcome, s, r, next

LEMMA PushCounts ==
  ASSUME NEW c \in Configs, NEW t, Sound(c, t), Counting(c, t),
         NEW d \in {-1, 1}
  PROVE  Counting(c, Push(c, t, d).teach)
<1> DEFINE s == [t EXCEPT !.opposite = 0, !.release = 0, !.candidate = d,
                   !.engage = IF t.candidate = d THEN @ + 1 ELSE 1]
<1>1. /\ Fields(s) /\ s.initial = t.initial /\ s.target = t.target
      /\ s.baseline = t.baseline /\ s.window = t.window
      /\ s.candidate = d /\ s.release = 0 /\ s.opposite = 0
      /\ s.engage = IF t.candidate = d THEN t.engage + 1 ELSE 1
  BY DEF Sound, Fields, Names
<1> HIDE DEF s
<1>2. /\ c.releaseSamples \in Nat \ {0} /\ c.engageSamples \in Nat \ {0}
      /\ d \in Directions
  BY DEF Configs, Directions
<1>3. InTravel(c, s)
  BY <1>1 DEF Sound, InTravel, Lowest, Highest
<1>4. Counting(c, Step(c, s, d).teach)
  <2>1. /\ s.baseline \in Int
        /\ s.window \in Seq(Forces) /\ Len(s.window) <= c.filterSamples
        /\ s.release \in 0 .. c.releaseSamples - 1
        /\ s.opposite \in 0 .. c.releaseSamples - 1
    BY <1>1, <1>2 DEF Counting
  <2> QED
    BY <1>1, <1>3, <2>1, StepCounts
<1>5. ~ (s.engage >= c.engageSamples) => Counting(c, s)
  BY <1>1, <1>2 DEF Counting
<1> QED
  BY <1>4, <1>5 DEF Push, Outcome, s

LEMMA ReactCounts ==
  ASSUME NEW c \in Configs, NEW t, Sound(c, t), Counting(c, t),
         NEW f \in Int, NEW d \in Directions
  PROVE  Counting(c, React(c, t, f, d).teach)
<1>1. Counting(c, Reverse(c, t, f).teach) /\ Counting(c, Neutral(c, t, f).teach)
  BY ReverseCounts, NeutralCounts DEF Sound
<1>2. d # 0 => Counting(c, Push(c, t, d).teach)
  BY PushCounts DEF Directions
<1> QED
  BY <1>1, <1>2 DEF React

LEMMA ObserveCounts ==
  ASSUME NEW c \in Configs, NEW t, Sound(c, t), Counting(c, t),
         NEW reading \in Forces
  PROVE  Counting(c, ObserveForce(c, t, reading).teach)
<1> DEFINE s == Sampled(c, t, reading)
           f == Median(s.window)
           d == Direction(c, s, f)
<1>1. /\ s = [t EXCEPT !.window = s.window] /\ Fields(s)
      /\ s.window \in Seq(Forces)
      /\ 0 < Len(s.window) /\ Len(s.window) <= c.filterSamples
  BY SampledWindow DEF Sound
<1>2. Counting(c, s) /\ Sound(c, s)
  <2> DEFINE w == s.window
  <2>1. s = [t EXCEPT !.window = w] /\ w = s.window
    BY <1>1
  <2> HIDE DEF s, w
  <2>2. /\ s.baseline = t.baseline /\ s.candidate = t.candidate
        /\ s.engage = t.engage /\ s.release = t.release
        /\ s.opposite = t.opposite /\ s.initial = t.initial
        /\ s.target = t.target /\ s.phase = t.phase /\ s.last = t.last
    BY <2>1 DEF Sound, Fields, Names
  <2> QED
    BY <1>1, <2>2 DEF Counting, Sound, InTravel, Lowest, Highest
<1>3. f \in Int
  BY <1>1, MedianNumber
<1>4. d \in Directions
  BY DEF Direction, Directions
<1> HIDE DEF s, f, d
<1>5. Counting(c, React(c, s, f, d).teach)
  BY <1>2, <1>3, <1>4, ReactCounts
<1> QED
  BY <1>2, <1>5 DEF ObserveForce, Outcome, s, f, d

LEMMA SettledCounts ==
  ASSUME NEW c \in Configs, NEW t, Fields(t), Counting(c, t)
  PROVE  Counting(c, MarkMotionSettled(t))
<1> DEFINE s == MarkMotionSettled(t)
<1>1. /\ s.baseline = t.baseline /\ s.window = << >> /\ s.candidate = 0
      /\ s.engage = 0 /\ s.release = t.release /\ s.opposite = 0
  BY DEF MarkMotionSettled, Fields, Names
<1> HIDE DEF s
<1> QED
  BY <1>1 DEF Counting, Configs, Directions, s

\* The thumb lock: only arbitration hands it out.
LockOK ==
  /\ thumb.owner \in Thumb \cup {Nobody}
  /\ thumb.candidate \in Thumb \cup {Nobody}
  /\ thumb.count \in 0 .. ThumbEngageSamples - 1
  /\ thumb.owner # Nobody => Arbitrated

TypeInv ==
  /\ DOMAIN teach = Joints
  /\ \A j \in Joints : Counting(Config[j], teach[j])
  /\ LockOK
  /\ blank \in BOOLEAN /\ running \in BOOLEAN
  /\ force \in [Joints -> Forces] /\ moving \subseteq Joints
  /\ calm \in Nat

LEMMA TypesOfInv == TeachInv /\ TypeInv => TypeOK
<1> SUFFICES ASSUME TeachInv, TypeInv PROVE TypeOK
  OBVIOUS
<1>1. ASSUME NEW j \in Joints PROVE TeachOK(Config[j], teach[j])
  <2>1. Sound(Config[j], teach[j]) /\ Counting(Config[j], teach[j])
    BY DEF TeachInv, TypeInv
  <2>2. Config[j] \in Configs
    BY ConfigAssumption
  <2>3. Lowest(Config[j], teach[j]) \in Int /\ Highest(Config[j], teach[j]) \in Int
    BY <2>1, <2>2, MaxQAssumption
    DEF Sound, InTravel, Lowest, Highest, Larger, Smaller, Configs
  <2>4. teach[j].target \in
          Lowest(Config[j], teach[j]) .. Highest(Config[j], teach[j])
    BY <2>1, <2>3 DEF Sound, InTravel
  <2> QED
    BY <2>1, <2>4 DEF Sound, InTravel, Counting, TeachOK
<1> QED
  BY <1>1 DEF TypeOK, TypeInv, TeachInv, LockOK, QuietForces

\* What Contend leaves is a lock, and one with an owner only if the two
\* compete.
LEMMA ArbitrateOK ==
  ASSUME LockOK, NEW t
  PROVE  LET lock == Arbitrate(t)
         IN /\ lock.owner \in Thumb \cup {Nobody}
            /\ lock.candidate \in Thumb \cup {Nobody}
            /\ lock.count \in 0 .. ThumbEngageSamples - 1
            /\ lock.owner # Nobody => Arbitrated
            /\ thumb.owner # Nobody => lock = thumb
<1> DEFINE d == Dominant(t)
           n == IF d = thumb.candidate THEN thumb.count + 1 ELSE 1
           won == [Unlocked EXCEPT !.owner = d]
           ahead == [Unlocked EXCEPT !.candidate = d, !.count = n]
<1>1. d \in Thumb \cup {Nobody}
  BY DEF Dominant, Thumb
<1> HIDE DEF d
<1>2. n \in Nat /\ ThumbEngageSamples \in Nat \ {0}
  BY RatioAssumption DEF LockOK
<1> HIDE DEF n
<1>3. /\ Unlocked.owner = Nobody /\ Unlocked.candidate = Nobody
      /\ Unlocked.count = 0
      /\ won.owner = d /\ won.candidate = Nobody /\ won.count = 0
      /\ ahead.owner = Nobody /\ ahead.candidate = d /\ ahead.count = n
  BY DEF Unlocked
<1> HIDE DEF won, ahead
<1>4. \/ Contend(t) = Unlocked
      \/ Contend(t) = won
      \/ Contend(t) = ahead /\ ~ (n >= ThumbEngageSamples)
  BY DEF Contend, d, n, won, ahead
<1> QED
  BY <1>1, <1>2, <1>3, <1>4 DEF Arbitrate, LockOK

\* One cycle, joint by joint, with the lock it decides on.
LEMMA ProcessFacts ==
  ASSUME ProcessHand
  PROVE  LET t == Resumed
             lock == Arbitrate(t)
             sensed == Permitted(t, lock)
             outcome == Observed(t, sensed)
         IN /\ teach' = [j \in Joints |-> outcome[j].teach]
            /\ thumb' = IF \E j \in Joints \cap {lock.owner} :
                              outcome[j].event = "released"
                        THEN Unlocked ELSE lock
            /\ pending' = Commanded(outcome)
            /\ calm' = IF thumb'.owner # Nobody /\ Score(t, lock.owner).over = 0
                       THEN Smaller(calm + 1, CalmLimit(lock.owner)) ELSE 0
            /\ \A j \in Joints :
                 outcome[j] = IF j \in sensed
                              THEN ObserveForce(Config[j], t[j], force[j])
                              ELSE Outcome(t[j], "none")
            /\ blank' = (blank \/ Commanded(outcome) # {})
            /\ moving' = moving \cup Commanded(outcome)
            /\ running' = running /\ force' = force
<1> DEFINE t == Resumed
           lock == Arbitrate(t)
           sensed == Permitted(t, lock)
           outcome == Observed(t, sensed)
<1>1. \A j \in Joints :
        outcome[j] = IF j \in sensed
                     THEN ObserveForce(Config[j], t[j], force[j])
                     ELSE Outcome(t[j], "none")
  BY DEF Observed
<1> QED
  BY <1>1 DEF ProcessHand

LEMMA CalmLimitType ==
  ASSUME NEW j \in Joints
  PROVE  /\ CalmLimit(j) \in Nat
         /\ Config[j].filterSamples \in Nat \ {0}
         /\ Config[j].releaseSamples \in Nat \ {0}
<1>1. /\ Config[j].filterSamples \in Nat \ {0}
      /\ Config[j].releaseSamples \in Nat \ {0}
  BY ConfigAssumption DEF Configs
<1> QED
  BY <1>1 DEF CalmLimit

LEMMA ProcessTypes ==
  ASSUME TeachInv, TypeInv, ProcessHand
  PROVE  TypeInv'
<1> DEFINE t == Resumed
           lock == Arbitrate(t)
           sensed == Permitted(t, lock)
           outcome == Observed(t, sensed)
<1>1. /\ teach' = [j \in Joints |-> outcome[j].teach]
      /\ thumb' = IF \E j \in Joints \cap {lock.owner} :
                        outcome[j].event = "released"
                  THEN Unlocked ELSE lock
      /\ pending' = Commanded(outcome)
      /\ calm' = IF thumb'.owner # Nobody /\ Score(t, lock.owner).over = 0
                 THEN Smaller(calm + 1, CalmLimit(lock.owner)) ELSE 0
      /\ \A j \in Joints :
           outcome[j] = IF j \in sensed
                        THEN ObserveForce(Config[j], t[j], force[j])
                        ELSE Outcome(t[j], "none")
      /\ blank' = (blank \/ Commanded(outcome) # {})
      /\ moving' = moving \cup Commanded(outcome)
      /\ running' = running /\ force' = force
  BY ProcessFacts
<1>2. ASSUME NEW j \in Joints
      PROVE  Sound(Config[j], t[j]) /\ Counting(Config[j], t[j])
  <2>1. t[j] = IF j \in pending THEN MarkMotionSettled(teach[j]) ELSE teach[j]
    BY DEF Resumed
  <2>2. Sound(Config[j], teach[j]) /\ Counting(Config[j], teach[j])
    BY DEF TeachInv, TypeInv
  <2>3. Config[j] \in Configs
    BY ConfigAssumption
  <2> QED
    BY <2>1, <2>2, <2>3, SettledSound, SettledCounts DEF Sound
<1>3. /\ lock.owner \in Thumb \cup {Nobody}
      /\ lock.candidate \in Thumb \cup {Nobody}
      /\ lock.count \in 0 .. ThumbEngageSamples - 1
      /\ lock.owner # Nobody => Arbitrated
  BY ArbitrateOK DEF TypeInv
<1> HIDE DEF t, lock, sensed, outcome
<1>4. ASSUME NEW j \in Joints PROVE Counting(Config[j], teach'[j])
  <2>1. Config[j] \in Configs /\ force[j] \in Forces
    BY ConfigAssumption DEF TypeInv
  <2>2. Counting(Config[j], ObserveForce(Config[j], t[j], force[j]).teach)
    BY <1>2, <2>1, ObserveCounts
  <2>3. Counting(Config[j], Outcome(t[j], "none").teach)
    BY <1>2 DEF Outcome
  <2>4. teach'[j] = outcome[j].teach
    BY <1>1
  <2>5. \/ outcome[j] = ObserveForce(Config[j], t[j], force[j])
        \/ outcome[j] = Outcome(t[j], "none")
    BY <1>1
  <2> QED
    BY <2>2, <2>3, <2>4, <2>5
<1>5. LockOK'
  <2>1. thumb' = Unlocked \/ thumb' = lock
    BY <1>1
  <2>2. /\ Unlocked.owner = Nobody /\ Unlocked.candidate = Nobody
        /\ Unlocked.count = 0 /\ 0 \in 0 .. ThumbEngageSamples - 1
    BY RatioAssumption DEF Unlocked
  <2> QED
    BY <1>3, <2>1, <2>2 DEF LockOK, Arbitrated
<1>6. calm' \in Nat
  <2>1. CASE thumb'.owner # Nobody
    <3>1. lock.owner # Nobody
      BY <1>1, <2>1 DEF Unlocked
    <3>2. lock.owner \in Joints
      BY <1>3, <3>1 DEF Arbitrated
    <3>3. CalmLimit(lock.owner) \in Nat /\ calm + 1 \in Nat
      BY <3>2, CalmLimitType DEF TypeInv
    <3> QED
      BY <1>1, <3>3 DEF Smaller
  <2>2. CASE ~ (thumb'.owner # Nobody)
    BY <1>1, <2>2
  <2> QED
    BY <2>1, <2>2
<1>7. /\ DOMAIN teach' = Joints /\ blank' \in BOOLEAN /\ running' \in BOOLEAN
      /\ force' \in [Joints -> Forces] /\ moving' \subseteq Joints
  BY <1>1 DEF TypeInv, Commanded
<1> QED
  BY <1>4, <1>5, <1>6, <1>7 DEF TypeInv

LEMMA InitTypeInv == Init => TypeInv
<1> SUFFICES ASSUME Init PROVE TypeInv
  OBVIOUS
<1>1. PICK baseline \in [Joints -> Forces], q \in [Joints -> 0 .. MaxQ] :
        /\ teach = [j \in Joints |-> NewTeach(baseline[j], q[j])]
        /\ force = baseline
  BY DEF Init
<1>2. ASSUME NEW j \in Joints PROVE Counting(Config[j], teach[j])
  <2>1. teach[j] = NewTeach(baseline[j], q[j])
    BY <1>1
  <2>2. /\ teach[j].baseline = baseline[j] /\ teach[j].window = << >>
        /\ teach[j].candidate = 0 /\ teach[j].engage = 0
        /\ teach[j].release = 0 /\ teach[j].opposite = 0
    BY <2>1 DEF NewTeach
  <2>3. Config[j] \in Configs /\ baseline[j] \in Int
    BY ConfigAssumption, ForcesAssumption
  <2> QED
    BY <2>2, <2>3 DEF Counting, Configs, Directions
<1>3. LockOK
  BY RatioAssumption DEF Init, LockOK, Unlocked
<1> QED
  BY <1>1, <1>2, <1>3 DEF Init, TypeInv

LEMMA NextTypeInv == TeachInv /\ TypeInv /\ [Next]_vars => TypeInv'
<1> SUFFICES ASSUME TeachInv, TypeInv, [Next]_vars PROVE TypeInv'
  OBVIOUS
<1>1. CASE ProcessHand
  BY <1>1, ProcessTypes
<1> USE DEF TypeInv, LockOK, Arbitrated
<1>2. CASE Stop
  BY <1>2 DEF Stop, hand, history
<1>3. CASE Rest
  BY <1>3 DEF Rest, hand, history
<1>4. CASE BlankOver
  BY <1>4 DEF BlankOver, hand, history
<1>5. CASE \E j \in Joints, f \in Forces : Press(j, f)
  BY <1>5 DEF Press, hand, history
<1>6. CASE UNCHANGED vars
  BY <1>6 DEF vars, hand, history
<1> QED
  BY <1>1, <1>2, <1>3, <1>4, <1>5, <1>6 DEF Next

THEOREM TypeInvariant == Spec => []TypeInv
BY InitTypeInv, NextTypeInv, TeachInvariant, PTL DEF Spec

\* Every variable keeps its type: targets stay within the travel around where
\* InitializeHand found the joint, counters below their limits, and a baseline
\* is a number because a window has a median.
THEOREM TypeCorrect == Spec => []TypeOK
BY TeachInvariant, TypeInvariant, TypesOfInv, PTL

-----------------------------------------------------------------------------
(***************************************************************************)
(* Who may act.  A thumb joint that does not own the lock is observed only *)
(* while its force is within its thresholds, so that nothing it remembers  *)
(* makes it step.  The owner may still step once on what it remembers;     *)
(* after that the samples are calm, and count towards its release.         *)
(***************************************************************************)

InBand(c, t, x) == Direction(c, t, x) = 0

\* The window is full and its median is within the thresholds.
Steady(c, t) ==
  Len(t.window) = c.filterSamples /\ InBand(c, t, Median(t.window))

\* The latest k samples are within the thresholds.
Recent(c, t, k) ==
  \A i \in DOMAIN t.window :
    i > Len(t.window) - k => InBand(c, t, t.window[i])

\* A joint that will not step while its force stays within the thresholds.
Quiet(c, t) ==
  \/ Steady(c, t)
  \/ Len(t.window) < c.filterSamples /\ Recent(c, t, Len(t.window))

\* What the owner is, k calm cycles after it was pushed.
Half(c) == c.filterSamples \div 2
Calming(c, t, k) ==
  \/ /\ Steady(c, t)
     /\ t.last # 0 => k <= Half(c) + c.filterSamples - 1 + t.release
  \/ /\ Recent(c, t, k)
     /\ k <= Half(c) + (IF Len(t.window) < c.filterSamples
                        THEN Len(t.window) ELSE 0)

\* Of a joint told to step the window counts as the empty one it will be.
ThumbInv ==
  /\ Arbitrated =>
       \A j \in Thumb :
         IF thumb.owner = j THEN Calming(Config[j], Resumed[j], calm)
         ELSE Quiet(Config[j], Resumed[j])
  /\ thumb.owner = Nobody => calm = 0

\* The thresholds enclose a band.
LEMMA Band ==
  ASSUME NEW c \in Configs, NEW t, t.baseline \in Int, NEW x \in Int
  PROVE  /\ CloseThreshold(c, t) \in Int /\ OpenThreshold(c, t) \in Int
         /\ InBand(c, t, x) <=>
              CloseThreshold(c, t) <= x /\ x <= OpenThreshold(c, t)
         /\ InBand(c, t, x) \/ ActivationScore(c, t, x).over > 0
<1>1. /\ c.closeDelta \in Nat /\ c.openDelta \in Nat /\ c.openFloor \in Int
  BY DEF Configs
<1>2. CloseThreshold(c, t) \in Int /\ OpenThreshold(c, t) \in Int
  BY <1>1 DEF CloseThreshold, OpenThreshold, Larger
<1>3. InBand(c, t, x) <=>
        CloseThreshold(c, t) <= x /\ x <= OpenThreshold(c, t)
  BY <1>2 DEF InBand, Direction
<1>4. CASE Direction(c, t, x) = -1
  <2>1. x < CloseThreshold(c, t)
    BY <1>4 DEF Direction
  <2>2. ActivationScore(c, t, x).over = CloseThreshold(c, t) - x
    BY <1>4 DEF ActivationScore
  <2> QED
    BY <1>2, <1>3, <2>1, <2>2
<1>5. CASE Direction(c, t, x) = 1
  <2>1. x > OpenThreshold(c, t)
    BY <1>5 DEF Direction
  <2>2. ActivationScore(c, t, x).over = x - OpenThreshold(c, t)
    BY <1>5 DEF ActivationScore
  <2> QED
    BY <1>2, <1>3, <2>1, <2>2
<1>6. Direction(c, t, x) \in {-1, 0, 1}
  BY DEF Direction
<1> QED
  BY <1>2, <1>3, <1>4, <1>5, <1>6 DEF InBand

\* The band depends on the baseline only.
LEMMA SameBand ==
  ASSUME NEW c, NEW t, NEW s, s.baseline = t.baseline, NEW x
  PROVE  InBand(c, s, x) <=> InBand(c, t, x)
BY DEF InBand, Direction, CloseThreshold, OpenThreshold

LEMMA SameView ==
  ASSUME NEW c, NEW t, NEW s, s.baseline = t.baseline, s.window = t.window,
         NEW k
  PROVE  /\ Steady(c, s) <=> Steady(c, t)
         /\ Recent(c, s, k) <=> Recent(c, t, k)
<1>1. \A x : InBand(c, s, x) <=> InBand(c, t, x)
  BY SameBand
<1> QED
  BY <1>1 DEF Steady, Recent

\* A baseline that follows the median keeps it within the thresholds.
LEMMA AdaptedBand ==
  ASSUME NEW c \in Configs, NEW t, t.baseline \in Int, NEW m \in Int,
         InBand(c, t, m), NEW s,
         s.baseline = t.baseline + Clamp(m - t.baseline, - c.baselineAdaptStep,
                                         c.baselineAdaptStep)
  PROVE  InBand(c, s, m)
<1>1. /\ c.closeDelta \in Nat /\ c.openDelta \in Nat /\ c.openFloor \in Int
      /\ c.baselineAdaptStep \in Nat
  BY DEF Configs
<1>2. /\ s.baseline \in Int
      /\ \/ t.baseline <= s.baseline /\ s.baseline <= m
         \/ m <= s.baseline /\ s.baseline <= t.baseline
  BY <1>1 DEF Clamp, Larger, Smaller
<1>3. CloseThreshold(c, t) <= m /\ m <= OpenThreshold(c, t)
  BY Band
<1>4. CloseThreshold(c, s) <= m /\ m <= OpenThreshold(c, s)
  BY <1>1, <1>2, <1>3 DEF CloseThreshold, OpenThreshold, Larger
<1> QED
  BY <1>2, <1>4, Band

LEMMA NeutralSteady ==
  ASSUME NEW c \in Configs, NEW t, Fields(t), Counting(c, t),
         Len(t.window) = c.filterSamples, Median(t.window) \in Int,
         InBand(c, t, Median(t.window))
  PROVE  LET o == Neutral(c, t, Median(t.window))
         IN /\ Steady(c, o.teach) /\ o.event \in {"none", "released"}
            /\ o.event = "none" =>
                 o.teach.last = t.last
                 /\ (t.last # 0 => o.teach.release = t.release + 1)
<1> DEFINE f == Median(t.window)
           b == t.baseline + Clamp(f - t.baseline, - c.baselineAdaptStep,
                                   c.baselineAdaptStep)
           s == [t EXCEPT !.opposite = 0, !.candidate = 0, !.engage = 0,
                   !.baseline = @ + Clamp(f - @, - c.baselineAdaptStep,
                                          c.baselineAdaptStep),
                   !.release = IF t.last = 0 THEN @ ELSE @ + 1]
           r == [s EXCEPT !.last = 0, !.release = 0]
<1>1. /\ Fields(s) /\ s.baseline = b /\ s.window = t.window
      /\ s.last = t.last
      /\ s.release = IF t.last = 0 THEN t.release ELSE t.release + 1
  BY DEF Fields, Names
<1>2. r.baseline = b /\ r.window = t.window
  BY <1>1 DEF Fields, Names
<1> HIDE DEF f, r, s
<1>3. InBand(c, s, f) /\ InBand(c, r, f)
  BY <1>1, <1>2, AdaptedBand DEF Counting, f
<1>4. Steady(c, s) /\ Steady(c, r)
  BY <1>1, <1>2, <1>3 DEF Steady, f
<1>5. \/ Neutral(c, t, f) = Outcome(s, "none")
      \/ Neutral(c, t, f) = Outcome(r, "released")
  BY DEF Neutral, s, r
<1> QED
  BY <1>1, <1>4, <1>5 DEF Outcome, f

LEMMA ReverseKeeps ==
  ASSUME NEW c \in Configs, NEW t, Fields(t), Counting(c, t),
         Len(t.window) = c.filterSamples, Median(t.window) \in Int
  PROVE  LET o == Reverse(c, t, Median(t.window))
         IN /\ o.event \in {"none", "released"}
            /\ o.event = "released" => Steady(c, o.teach)
            /\ o.event = "none" =>
                 o.teach.baseline = t.baseline /\ o.teach.window = t.window
<1> DEFINE f == Median(t.window)
           s == [t EXCEPT !.engage = 0, !.candidate = 0, !.opposite = @ + 1]
           r == [s EXCEPT !.baseline = f, !.last = 0, !.opposite = 0,
                          !.release = 0]
<1>1. Fields(s) /\ s.baseline = t.baseline /\ s.window = t.window
  BY DEF Fields, Names
<1>2. r.baseline = f /\ r.window = t.window
  BY <1>1 DEF Fields, Names
<1> HIDE DEF f, r, s
<1>3. InBand(c, r, f)
  <2>1. c.closeDelta \in Nat /\ c.openDelta \in Nat /\ c.openFloor \in Int
        /\ f \in Int
    BY DEF Configs, f
  <2>2. CloseThreshold(c, r) <= f /\ f <= OpenThreshold(c, r)
    BY <1>2, <2>1 DEF CloseThreshold, OpenThreshold, Larger
  <2> QED
    BY <1>2, <2>1, <2>2, Band
<1>4. Steady(c, r)
  BY <1>2, <1>3 DEF Steady, f
<1>5. \/ Reverse(c, t, f) = Outcome(s, "none")
      \/ Reverse(c, t, f) = Outcome(r, "released")
  BY DEF Reverse, s, r
<1> QED
  BY <1>1, <1>4, <1>5 DEF Outcome, f

LEMMA PushKeeps ==
  ASSUME NEW c \in Configs, NEW t, Fields(t), NEW d
  PROVE  LET o == Push(c, t, d)
         IN /\ o.event \in {"none", "limit", "command"}
            /\ o.event # "command" =>
                 o.teach.baseline = t.baseline /\ o.teach.window = t.window
<1> DEFINE s == [t EXCEPT !.opposite = 0, !.release = 0, !.candidate = d,
                   !.engage = IF t.candidate = d THEN @ + 1 ELSE 1]
           r == [s EXCEPT !.engage = 0, !.candidate = 0, !.last = d]
<1>1. Fields(s) /\ s.baseline = t.baseline /\ s.window = t.window
  BY DEF Fields, Names
<1>2. r.baseline = t.baseline /\ r.window = t.window
  BY <1>1 DEF Fields, Names
<1> HIDE DEF r, s
<1>3. \/ Push(c, t, d) = Outcome(s, "none")
      \/ Push(c, t, d) = Outcome(r, "limit")
      \/ Push(c, t, d).event = "command"
  BY DEF Push, Step, Outcome, r, s
<1> QED
  BY <1>1, <1>2, <1>3 DEF Outcome

\* What one reading leads to, by the median of the window it joins.
LEMMA Observation ==
  ASSUME NEW c \in Configs, NEW t, Sound(c, t), Counting(c, t),
         t.phase = "sense", NEW reading \in Forces
  PROVE  LET s == Sampled(c, t, reading)
             m == Median(s.window)
             o == ObserveForce(c, t, reading)
         IN /\ Sound(c, s) /\ Counting(c, s) /\ m \in Int
            /\ s.baseline = t.baseline
            /\ s.last = t.last /\ s.release = t.release
            /\ \/ Len(s.window) < c.filterSamples /\ o = Outcome(s, "none")
               \/ /\ Len(s.window) = c.filterSamples /\ InBand(c, s, m)
                  /\ o = Neutral(c, s, m)
               \/ /\ Len(s.window) = c.filterSamples /\ ~ InBand(c, s, m)
                  /\ \/ o = Reverse(c, s, m)
                     \/ o = Push(c, s, Direction(c, s, m))
<1> DEFINE s == Sampled(c, t, reading)
           m == Median(s.window)
           w == s.window
<1>1. /\ s = [t EXCEPT !.window = w] /\ Fields(s) /\ w \in Seq(Forces)
      /\ 0 < Len(w) /\ Len(w) <= c.filterSamples
  BY SampledWindow DEF Sound
<1>2. w = s.window
  OBVIOUS
<1> HIDE DEF s, m, w
<1>3. /\ s.baseline = t.baseline /\ s.candidate = t.candidate
      /\ s.engage = t.engage /\ s.release = t.release
      /\ s.opposite = t.opposite /\ s.initial = t.initial
      /\ s.target = t.target /\ s.phase = t.phase /\ s.last = t.last
  BY <1>1 DEF Sound, Fields, Names
<1>4. Sound(c, s) /\ Counting(c, s)
  BY <1>1, <1>2, <1>3 DEF Counting, Sound, InTravel, Lowest, Highest
<1>5. m \in Int
  BY <1>1, <1>2, MedianNumber DEF m
<1>6. /\ c.filterSamples \in Nat /\ Len(s.window) \in Nat
  BY <1>1, <1>2 DEF Configs
<1>7. CASE Len(s.window) < c.filterSamples
  BY <1>3, <1>4, <1>5, <1>7 DEF ObserveForce, s, m
<1>8. CASE Len(s.window) = c.filterSamples
  <2>1. ~ (Len(s.window) < c.filterSamples)
    BY <1>6, <1>8
  <2>2. ObserveForce(c, t, reading) = React(c, s, m, Direction(c, s, m))
    BY <2>1 DEF ObserveForce, s, m
  <2>3. InBand(c, s, m) => React(c, s, m, Direction(c, s, m)) = Neutral(c, s, m)
    <3>1. s.last \in Directions
      BY <1>4 DEF Sound
    <3> QED
      BY <3>1 DEF InBand, React, Directions
  <2>4. ~ InBand(c, s, m) =>
          \/ React(c, s, m, Direction(c, s, m)) = Reverse(c, s, m)
          \/ React(c, s, m, Direction(c, s, m)) = Push(c, s, Direction(c, s, m))
    BY DEF InBand, React
  <2> QED
    BY <1>3, <1>4, <1>5, <1>8, <2>2, <2>3, <2>4 DEF s, m
<1> QED
  BY <1>1, <1>2, <1>6, <1>7, <1>8

\* Once released, a joint is quiet.
LEMMA ReleasedSteady ==
  ASSUME NEW c \in Configs, NEW t, Sound(c, t), Counting(c, t),
         t.phase = "sense", NEW reading \in Forces,
         ObserveForce(c, t, reading).event = "released"
  PROVE  Steady(c, ObserveForce(c, t, reading).teach)
<1> DEFINE s == Sampled(c, t, reading)
           m == Median(s.window)
           o == ObserveForce(c, t, reading)
<1>1. /\ Sound(c, s) /\ Counting(c, s) /\ m \in Int
      /\ \/ Len(s.window) < c.filterSamples /\ o = Outcome(s, "none")
         \/ /\ Len(s.window) = c.filterSamples /\ InBand(c, s, m)
            /\ o = Neutral(c, s, m)
         \/ /\ Len(s.window) = c.filterSamples /\ ~ InBand(c, s, m)
            /\ \/ o = Reverse(c, s, m)
               \/ o = Push(c, s, Direction(c, s, m))
  BY Observation
<1>2. o.event = "released"
  OBVIOUS
<1> SUFFICES Steady(c, o.teach)
  OBVIOUS
<1> HIDE DEF s, o
<1>3. Fields(s) /\ Counting(c, s) /\ Median(s.window) \in Int
  BY <1>1 DEF Sound
<1> HIDE DEF m
<1>4. CASE Len(s.window) < c.filterSamples /\ o = Outcome(s, "none")
  BY <1>2, <1>4 DEF Outcome
<1>5. CASE Len(s.window) = c.filterSamples /\ InBand(c, s, m)
           /\ o = Neutral(c, s, m)
  BY <1>3, <1>5, NeutralSteady DEF m
<1>6. CASE Len(s.window) = c.filterSamples /\ o = Reverse(c, s, m)
  BY <1>2, <1>3, <1>6, ReverseKeeps DEF m
<1>7. CASE o = Push(c, s, Direction(c, s, m))
  BY <1>2, <1>3, <1>7, PushKeeps
<1> QED
  BY <1>1, <1>4, <1>5, <1>6, <1>7

\* What half of a window is, in numbers.
LEMMA HalfType ==
  ASSUME NEW c \in Configs
  PROVE  /\ c.filterSamples \in Nat \ {0} /\ Half(c) \in Nat
         /\ c.filterSamples <= 2 * Half(c) + 1
BY DEF Configs, Half

\* A reading within the thresholds joins the window: the calm samples are one
\* more, and a median within them stays there.
LEMMA CalmSample ==
  ASSUME NEW c \in Configs, NEW t, Sound(c, t), Counting(c, t),
         NEW reading \in Forces, InBand(c, t, reading)
  PROVE  LET s == Sampled(c, t, reading)
         IN /\ Steady(c, t) => Steady(c, s)
            /\ \A k \in Nat : Recent(c, t, k) => Recent(c, s, k + 1)
            /\ Len(t.window) < c.filterSamples =>
                 Len(s.window) = Len(t.window) + 1
<1> DEFINE w == t.window
           s == Sampled(c, t, reading)
           v == s.window
           lo == CloseThreshold(c, t)
           hi == OpenThreshold(c, t)
<1>1. /\ s = [t EXCEPT !.window = v] /\ Fields(s) /\ v \in Seq(Forces)
      /\ IF Len(w) < c.filterSamples THEN v = Append(w, reading)
         ELSE Len(w) = c.filterSamples /\ v = Append(Tail(w), reading)
  BY SampledWindow DEF Sound
<1>2. v = s.window
  OBVIOUS
<1> HIDE DEF s, v, w
<1>3. s.baseline = t.baseline
  BY <1>1 DEF Sound, Fields, Names
<1>4. /\ c.filterSamples \in Nat \ {0} /\ t.baseline \in Int /\ reading \in Int
      /\ w \in Seq(Forces) /\ Len(w) \in Nat /\ Len(w) <= c.filterSamples
  BY ForcesAssumption DEF Counting, Configs, w
<1>5. lo \in Int /\ hi \in Int /\ lo <= reading /\ reading <= hi
  BY <1>4, Band
<1>6. \A x \in Int : InBand(c, s, x) <=> lo <= x /\ x <= hi
  BY <1>3, <1>4, Band, SameBand
<1>7. \A x : InBand(c, s, x) <=> InBand(c, t, x)
  BY <1>3, SameBand
<1>8. ASSUME Steady(c, t) PROVE Steady(c, s)
  <2>1. Len(w) = c.filterSamples /\ Len(w) > 0
    BY <1>4, <1>8 DEF Steady, w
  <2>2. v = Append(Tail(w), reading)
    BY <1>1, <1>4, <2>1
  <2>3. w \in Seq(Int) /\ Median(w) \in Int
    BY <1>4, <2>1, MedianNumber
  <2>4. lo <= Median(w) /\ Median(w) <= hi
    BY <1>4, <1>8, <2>3, Band DEF Steady, w
  <2>5. Median(v) \in Int /\ lo <= Median(v) /\ Median(v) <= hi
    <3> HIDE DEF lo, hi
    <3> QED
      BY <1>4, <1>5, <2>1, <2>2, <2>3, <2>4, MedianSlides
  <2>6. Len(v) = Len(w)
    BY <1>4, <2>1, <2>2
  <2>7. InBand(c, s, Median(v))
    BY <1>6, <2>5
  <2> QED
    BY <1>2, <2>1, <2>6, <2>7 DEF Steady
<1>9. ASSUME NEW k \in Nat, Recent(c, t, k) PROVE Recent(c, s, k + 1)
  <2> SUFFICES ASSUME NEW i \in DOMAIN v, i > Len(v) - (k + 1)
               PROVE  InBand(c, s, v[i])
    BY <1>2 DEF Recent
  <2>1. \A x \in DOMAIN w : x > Len(w) - k => InBand(c, s, w[x])
    BY <1>7, <1>9 DEF Recent, w
  <2>2. InBand(c, s, reading)
    BY <1>7
  <2>3. CASE Len(w) < c.filterSamples
    <3>1. v = Append(w, reading)
      BY <1>1, <2>3
    <3>2. /\ Len(v) = Len(w) + 1 /\ i \in 1 .. Len(w) + 1
          /\ v[i] = IF i = Len(w) + 1 THEN reading ELSE w[i]
      BY <1>4, <3>1
    <3>3. CASE i = Len(w) + 1
      BY <2>2, <3>2, <3>3
    <3>4. CASE i # Len(w) + 1
      <4>1. i \in DOMAIN w /\ i > Len(w) - k
        BY <1>4, <3>2, <3>4
      <4> QED
        BY <2>1, <3>2, <3>4, <4>1
    <3> QED
      BY <3>3, <3>4
  <2>4. CASE ~ (Len(w) < c.filterSamples)
    <3>1. v = Append(Tail(w), reading) /\ Len(w) > 0
      BY <1>1, <1>4, <2>4
    <3>2. /\ Len(v) = Len(w) /\ i \in 1 .. Len(w)
          /\ v[i] = IF i = Len(w) THEN reading ELSE w[i + 1]
      BY <1>4, <3>1
    <3>3. CASE i = Len(w)
      BY <2>2, <3>2, <3>3
    <3>4. CASE i # Len(w)
      <4>1. i + 1 \in DOMAIN w /\ i + 1 > Len(w) - k
        BY <1>4, <3>2, <3>4
      <4> QED
        BY <2>1, <3>2, <3>4, <4>1
    <3> QED
      BY <3>3, <3>4
  <2> QED
    BY <2>3, <2>4
<1>10. Len(w) < c.filterSamples => Len(v) = Len(w) + 1
  BY <1>1, <1>4
<1> QED
  BY <1>8, <1>9, <1>10 DEF s, v, w

\* A full window of which more than half is calm is steady.
LEMMA MostlyCalm ==
  ASSUME NEW c \in Configs, NEW t, Counting(c, t), NEW k \in Nat,
         Recent(c, t, k), Len(t.window) = c.filterSamples, k > Half(c)
  PROVE  Steady(c, t)
<1> DEFINE w == t.window
           l == Smaller(k, Len(w))
           lo == CloseThreshold(c, t)
           hi == OpenThreshold(c, t)
<1>1. /\ w \in Seq(Forces) /\ Len(w) \in Nat /\ Len(w) > 0
      /\ t.baseline \in Int
  BY DEF Counting, Configs
<1>2. w \in Seq(Int)
  BY <1>1, MedianNumber
<1>3. lo \in Int /\ hi \in Int
  BY <1>1, Band
<1>4. l \in 0 .. Len(w) /\ l > Len(w) \div 2 /\ l <= k
  BY <1>1 DEF Smaller, Half
<1>5. \A i \in DOMAIN w : i > Len(w) - l => InBand(c, t, w[i])
  <2> SUFFICES ASSUME NEW i \in DOMAIN w, i > Len(w) - l
               PROVE  InBand(c, t, w[i])
    OBVIOUS
  <2>1. i \in 1 .. Len(w)
    BY <1>1
  <2>2. i > Len(w) - k
    BY <1>1, <2>1 DEF Smaller
  <2> QED
    BY <2>2 DEF Recent
<1>6. \A i \in DOMAIN w : i > Len(w) - l => lo <= w[i] /\ w[i] <= hi
  BY <1>1, <1>2, <1>5, Band
<1>7. Median(w) \in Int /\ lo <= Median(w) /\ Median(w) <= hi
  <2> HIDE DEF w, l, lo, hi
  <2> QED
    BY <1>2, <1>3, <1>4, <1>6, MedianOfLatest
<1> QED
  BY <1>1, <1>7, Band DEF Steady

\* A quiet joint stays quiet on a reading within its thresholds: it counts, at
\* most, and does not step.
LEMMA QuietStays ==
  ASSUME NEW c \in Configs, NEW t, Sound(c, t), Counting(c, t),
         t.phase = "sense", NEW reading \in Forces, InBand(c, t, reading),
         Quiet(c, t)
  PROVE  LET o == ObserveForce(c, t, reading)
         IN Quiet(c, o.teach) /\ o.event # "command"
<1> DEFINE s == Sampled(c, t, reading)
           m == Median(s.window)
           o == ObserveForce(c, t, reading)
<1>1. /\ Sound(c, s) /\ Counting(c, s) /\ m \in Int
      /\ \/ Len(s.window) < c.filterSamples /\ o = Outcome(s, "none")
         \/ /\ Len(s.window) = c.filterSamples /\ InBand(c, s, m)
            /\ o = Neutral(c, s, m)
         \/ /\ Len(s.window) = c.filterSamples /\ ~ InBand(c, s, m)
            /\ \/ o = Reverse(c, s, m)
               \/ o = Push(c, s, Direction(c, s, m))
  BY Observation
<1>2. /\ \A k \in Nat : Recent(c, t, k) => Recent(c, s, k + 1)
      /\ Len(t.window) < c.filterSamples =>
           Len(s.window) = Len(t.window) + 1
  BY CalmSample
<1>3. Steady(c, t) => Steady(c, s)
  BY CalmSample
<1> SUFFICES Quiet(c, o.teach) /\ o.event # "command"
  OBVIOUS
<1> HIDE DEF s, o
<1>4. /\ Len(t.window) \in Nat /\ Fields(s) /\ Median(s.window) \in Int
      /\ Counting(c, s)
  BY <1>1 DEF Counting, Sound
<1>5. \/ Steady(c, s)
      \/ Len(s.window) < c.filterSamples /\ Quiet(c, s)
  <2>1. CASE Steady(c, t)
    BY <1>3, <2>1
  <2>2. CASE Len(t.window) < c.filterSamples /\ Recent(c, t, Len(t.window))
    <3>1. Len(s.window) = Len(t.window) + 1
      BY <1>2, <2>2
    <3>2. Recent(c, s, Len(s.window))
      BY <1>2, <1>4, <2>2, <3>1
    <3>3. CASE Len(s.window) < c.filterSamples
      BY <3>2, <3>3 DEF Quiet
    <3>4. CASE Len(s.window) = c.filterSamples
      <4>1. c.filterSamples \in Nat /\ c.filterSamples > Half(c)
        BY DEF Half, Configs
      <4>2. Recent(c, s, c.filterSamples)
        BY <3>2, <3>4
      <4>3. Steady(c, s)
        BY <1>4, <3>4, <4>1, <4>2, MostlyCalm
      <4> QED
        BY <4>3
    <3> QED
      BY <1>1, <3>3, <3>4
  <2> QED
    BY <2>1, <2>2 DEF Quiet
<1>6. CASE Len(s.window) < c.filterSamples /\ o = Outcome(s, "none")
  BY <1>5, <1>6 DEF Outcome, Quiet
<1>7. CASE Len(s.window) = c.filterSamples
  <2>1. InBand(c, s, m)
    <3>1. ~ (Len(s.window) < c.filterSamples)
      BY <1>7 DEF Configs
    <3> QED
      BY <1>5, <3>1 DEF Steady
  <2>2. o = Neutral(c, s, Median(s.window))
    <3>1. ~ (Len(s.window) < c.filterSamples)
      BY <1>7 DEF Configs
    <3> QED
      BY <1>1, <2>1, <3>1
  <2>3. Steady(c, o.teach) /\ o.event \in {"none", "released"}
    BY <1>4, <1>7, <2>1, <2>2, NeutralSteady
  <2> QED
    BY <2>3 DEF Quiet
<1> QED
  BY <1>1, <1>6, <1>7

\* Fewer calm cycles ask for less.
LEMMA CalmingLess ==
  ASSUME NEW c \in Configs, NEW t, Sound(c, t), Counting(c, t),
         NEW k \in Nat, NEW l \in Nat, l <= k, Calming(c, t, k)
  PROVE  Calming(c, t, l)
<1>1. /\ c.filterSamples \in Nat /\ Half(c) \in Nat /\ t.release \in Nat
      /\ t.window \in Seq(Forces) /\ Len(t.window) \in Nat
      /\ DOMAIN t.window = 1 .. Len(t.window)
  <2>1. t.window \in Seq(Forces) /\ t.release \in Nat
    BY DEF Counting, Configs
  <2> QED
    BY <2>1, HalfType
<1>2. Recent(c, t, k) => Recent(c, t, l)
  <2>1. \A i \in DOMAIN t.window :
          i > Len(t.window) - l => i > Len(t.window) - k
    BY <1>1
  <2> QED
    BY <2>1 DEF Recent
<1> QED
  BY <1>1, <1>2 DEF Calming

\* No calm cycle asks for nothing.
LEMMA CalmingNone ==
  ASSUME NEW c \in Configs, NEW t, Counting(c, t)
  PROVE  Calming(c, t, 0)
<1>1. /\ c.filterSamples \in Nat /\ Half(c) \in Nat
      /\ t.window \in Seq(Forces) /\ Len(t.window) \in Nat
      /\ DOMAIN t.window = 1 .. Len(t.window)
  BY HalfType DEF Counting
<1>2. Recent(c, t, 0)
  BY <1>1 DEF Recent
<1> QED
  BY <1>1, <1>2 DEF Calming

\* One more calm cycle of the owner brings it nearer to its release, by a
\* sample or by the count.  If it steps on what it remembers, this is early.
LEMMA OwnerCalms ==
  ASSUME NEW c \in Configs, NEW t, Sound(c, t), Counting(c, t),
         t.phase = "sense", NEW reading \in Forces, InBand(c, t, reading),
         NEW k \in Nat, Calming(c, t, k)
  PROVE  LET o == ObserveForce(c, t, reading)
         IN \/ o.event = "released"
            \/ o.event = "command" /\ k + 1 <= Half(c)
            \/ o.event # "command" /\ Calming(c, o.teach, k + 1)
<1> DEFINE s == Sampled(c, t, reading)
           m == Median(s.window)
           o == ObserveForce(c, t, reading)
           n == c.filterSamples
<1>1. /\ Sound(c, s) /\ Counting(c, s) /\ m \in Int
      /\ s.last = t.last /\ s.release = t.release
      /\ \/ Len(s.window) < n /\ o = Outcome(s, "none")
         \/ /\ Len(s.window) = n /\ InBand(c, s, m)
            /\ o = Neutral(c, s, m)
         \/ /\ Len(s.window) = n /\ ~ InBand(c, s, m)
            /\ \/ o = Reverse(c, s, m)
               \/ o = Push(c, s, Direction(c, s, m))
  BY Observation
<1>2. /\ Steady(c, t) => Steady(c, s)
      /\ \A l \in Nat : Recent(c, t, l) => Recent(c, s, l + 1)
      /\ Len(t.window) < n => Len(s.window) = Len(t.window) + 1
  BY CalmSample
<1>3. /\ Len(t.window) \in Nat /\ Fields(s) /\ Median(s.window) \in Int
      /\ Len(s.window) \in Nat /\ Counting(c, s)
      /\ t.release \in Nat /\ Len(t.window) <= n
      /\ n \in Nat \ {0} /\ Half(c) \in Nat
      /\ s.last = t.last /\ s.release = t.release
  BY <1>1, HalfType DEF Counting, Sound
<1> SUFFICES \/ o.event = "released"
             \/ o.event = "command" /\ k + 1 <= Half(c)
             \/ o.event # "command" /\ Calming(c, o.teach, k + 1)
  OBVIOUS
<1> HIDE DEF s, o
\* What is known of the window with the sample.
<1>4. \/ Steady(c, s) /\ (t.last # 0 => k <= Half(c) + n - 1 + t.release)
      \/ /\ Recent(c, s, k + 1)
         /\ Len(s.window) < n => k + 1 <= Half(c) + Len(s.window)
         /\ k + 1 <= Half(c) + n
  <2>1. CASE Steady(c, t) /\ (t.last # 0 => k <= Half(c) + n - 1 + t.release)
    BY <1>2, <2>1
  <2>2. CASE /\ Recent(c, t, k)
             /\ k <= Half(c) + (IF Len(t.window) < n THEN Len(t.window) ELSE 0)
    <3>1. Recent(c, s, k + 1)
      BY <1>2, <2>2
    <3>2. CASE Len(t.window) < n
      <4>1. Len(s.window) = Len(t.window) + 1 /\ k <= Half(c) + Len(t.window)
        BY <1>2, <2>2, <3>2
      <4>2. k + 1 <= Half(c) + Len(s.window) /\ k + 1 <= Half(c) + n
        BY <1>3, <3>2, <4>1
      <4> QED
        BY <3>1, <4>2
    <3>3. CASE ~ (Len(t.window) < n)
      <4>1. k <= Half(c)
        BY <1>3, <2>2, <3>3
      <4>2. k + 1 <= Half(c) + n
        BY <1>3, <4>1
      <4>3. Len(s.window) < n => k + 1 <= Half(c) + Len(s.window)
        <5>1. Len(s.window) > 0
          BY SampledWindow DEF s, Sound
        <5> QED
          BY <1>3, <4>1, <5>1
      <4> QED
        BY <3>1, <4>2, <4>3
    <3> QED
      BY <3>2, <3>3
  <2> QED
    BY <2>1, <2>2 DEF Calming
<1>5. CASE Len(s.window) < n /\ o = Outcome(s, "none")
  <2>1. ~ Steady(c, s)
    BY <1>3, <1>5 DEF Steady
  <2>2. Calming(c, s, k + 1)
    BY <1>4, <1>5, <2>1 DEF Calming
  <2> QED
    BY <1>5, <2>2 DEF Outcome
<1>6. CASE Len(s.window) = n /\ InBand(c, s, m) /\ o = Neutral(c, s, m)
  <2>1. InBand(c, s, Median(s.window)) /\ o = Neutral(c, s, Median(s.window))
    BY <1>6
  <2>2. Steady(c, o.teach) /\ o.event \in {"none", "released"}
    BY <1>3, <1>6, <2>1, NeutralSteady
  <2>3. o.event = "none" =>
          o.teach.last = s.last /\ (s.last # 0 => o.teach.release = s.release + 1)
    BY <1>3, <1>6, <2>1, NeutralSteady
  <2>4. t.last # 0 => k + 1 <= Half(c) + n - 1 + (t.release + 1)
    <3>1. k <= Half(c) + n - 1 + t.release \/ k + 1 <= Half(c) + n \/ t.last = 0
      BY <1>4
    <3> QED
      BY <1>3, <3>1
  <2>5. o.event = "none" /\ o.teach.last # 0 =>
          k + 1 <= Half(c) + n - 1 + o.teach.release
    BY <1>3, <2>3, <2>4
  <2> QED
    BY <2>2, <2>5 DEF Calming
<1>7. CASE /\ Len(s.window) = n /\ ~ InBand(c, s, m)
           /\ \/ o = Reverse(c, s, m)
              \/ o = Push(c, s, Direction(c, s, m))
  <2>1. ~ Steady(c, s)
    BY <1>7 DEF Steady
  <2>2. Recent(c, s, k + 1)
    BY <1>4, <2>1
  <2>3. k + 1 <= Half(c)
    <3>1. ~ (k + 1 > Half(c))
      BY <1>3, <1>7, <2>1, <2>2, MostlyCalm
    <3> QED
      BY <1>3, <3>1
  <2>4. /\ o.event \in {"none", "released", "limit", "command"}
        /\ o.event \in {"none", "limit"} =>
             o.teach.baseline = s.baseline /\ o.teach.window = s.window
    <3>1. CASE o = Reverse(c, s, m)
      BY <1>3, <1>7, <3>1, ReverseKeeps
    <3>2. CASE o = Push(c, s, Direction(c, s, m))
      <4>1. LET p == Push(c, s, Direction(c, s, m))
            IN /\ p.event \in {"none", "limit", "command"}
               /\ p.event # "command" =>
                    p.teach.baseline = s.baseline /\ p.teach.window = s.window
        BY <1>3, PushKeeps
      <4> QED
        BY <3>2, <4>1
    <3> QED
      BY <1>7, <3>1, <3>2
  <2>5. CASE o.event \in {"none", "limit"}
    <3>1. Recent(c, o.teach, k + 1) /\ o.teach.window = s.window
      BY <2>2, <2>4, <2>5, SameView
    <3>2. ~ (Len(o.teach.window) < n)
      BY <1>3, <1>7, <3>1
    <3>3. Calming(c, o.teach, k + 1)
      BY <1>3, <2>3, <3>1, <3>2 DEF Calming
    <3> QED
      BY <2>5, <3>3
  <2> QED
    BY <2>3, <2>4, <2>5
<1> QED
  BY <1>1, <1>5, <1>6, <1>7

\* A joint as ProcessHand finds it after resuming the ones that waited.
LEMMA ResumedFacts ==
  ASSUME TeachInv, TypeInv, NEW j \in Joints
  PROVE  LET t == Resumed[j]
         IN /\ Sound(Config[j], t) /\ Counting(Config[j], t)
            /\ t.phase = "sense" /\ t.target = teach[j].target
            /\ t.last = teach[j].last /\ t.release = teach[j].release
<1> DEFINE t == teach[j]
<1>1. Config[j] \in Configs
  BY ConfigAssumption
<1>2. Sound(Config[j], t) /\ Counting(Config[j], t)
  BY DEF TeachInv, TypeInv
<1>3. Resumed[j] = IF j \in pending THEN MarkMotionSettled(t) ELSE t
  BY DEF Resumed
<1>4. j \notin pending => t.phase = "sense"
  BY <1>2 DEF TeachInv, PendingWaits, Sound, Phases
<1> HIDE DEF t
<1>5. MarkMotionSettled(t).release = t.release
  BY <1>2 DEF MarkMotionSettled, Sound, Fields, Names
<1>6. CASE j \in pending
  BY <1>1, <1>2, <1>3, <1>5, <1>6, SettledSound, SettledCounts DEF t, Sound
<1>7. CASE j \notin pending
  BY <1>2, <1>3, <1>4, <1>7 DEF t
<1> QED
  BY <1>6, <1>7

\* One that has been told to step starts with an empty window.
LEMMA CalmingSettled ==
  ASSUME NEW c \in Configs, NEW t, Fields(t), NEW k \in Nat, k <= Half(c)
  PROVE  Calming(c, MarkMotionSettled(t), k)
<1> DEFINE s == MarkMotionSettled(t)
<1>1. s.window = << >>
  BY DEF MarkMotionSettled, Fields, Names
<1> HIDE DEF s
<1>2. Recent(c, s, k)
  BY <1>1 DEF Recent
<1>3. k <= Half(c) + (IF Len(s.window) < c.filterSamples
                     THEN Len(s.window) ELSE 0)
  BY <1>1, HalfType
<1> QED
  BY <1>2, <1>3 DEF Calming, s

\* A cycle and one thumb joint: the owner, or the one that has just become it,
\* goes on; the other stays where it is.
LEMMA ProcessThumb ==
  ASSUME TeachInv, TypeInv, ThumbInv, ProcessHand, TeachInv', TypeInv',
         Arbitrated, NEW j \in Thumb
  PROVE  /\ IF thumb'.owner = j THEN Calming(Config[j], Resumed'[j], calm')
            ELSE Quiet(Config[j], Resumed'[j])
         /\ thumb'.owner # j => teach'[j].target = teach[j].target
<1> DEFINE t == Resumed
           lock == Arbitrate(t)
           sensed == Permitted(t, lock)
           outcome == Observed(t, sensed)
           c == Config[j]
           u == t[j]
           o == outcome[j]
<1>1. j \in Joints /\ j # Nobody /\ c \in Configs /\ force[j] \in Forces
  BY ConfigAssumption, ThumbAssumption DEF Arbitrated, Thumb, TypeInv
<1>2. /\ teach'[j] = o.teach
      /\ thumb' = IF \E i \in Joints \cap {lock.owner} :
                        outcome[i].event = "released"
                  THEN Unlocked ELSE lock
      /\ j \in pending' <=> o.event = "command"
      /\ calm' = IF thumb'.owner # Nobody /\ Score(t, lock.owner).over = 0
                 THEN Smaller(calm + 1, CalmLimit(lock.owner)) ELSE 0
      /\ o = IF j \in sensed THEN ObserveForce(c, u, force[j])
             ELSE Outcome(u, "none")
  BY <1>1, ProcessFacts DEF Commanded
<1>3. /\ Sound(c, u) /\ Counting(c, u)
      /\ u.phase = "sense" /\ u.target = teach[j].target
  BY <1>1, ResumedFacts
<1>4. Resumed'[j] = IF o.event = "command" THEN MarkMotionSettled(o.teach)
                    ELSE o.teach
  BY <1>1, <1>2 DEF Resumed
<1>5. Sound(c, Resumed'[j]) /\ Counting(c, Resumed'[j])
  <2>1. CASE o.event = "command"
    <3>1. Sound(c, o.teach) /\ Counting(c, o.teach)
      BY <1>1, <1>2 DEF TeachInv, TypeInv
    <3> QED
      BY <1>1, <1>4, <2>1, <3>1, SettledSound, SettledCounts DEF Sound
  <2>2. CASE o.event # "command"
    BY <1>1, <1>2, <1>4, <2>2 DEF TeachInv, TypeInv
  <2> QED
    BY <2>1, <2>2
<1>6. /\ lock.owner \in Thumb \cup {Nobody}
      /\ thumb.owner # Nobody => lock = thumb
  BY ArbitrateOK DEF TypeInv
<1>7. Score(t, j) = ActivationScore(c, u, force[j])
  BY DEF Score
<1>8. InBand(c, u, force[j]) \/ Score(t, j).over > 0
  <2>1. u.baseline \in Int /\ force[j] \in Int
    BY <1>1, <1>3, ForcesAssumption DEF Counting
  <2> QED
    BY <1>1, <1>7, <2>1, Band
<1>9. calm \in Nat /\ CalmLimit(j) \in Nat
  BY <1>1, CalmLimitType DEF TypeInv
<1>10. thumb.owner = Nobody /\ lock.owner = j => Score(t, j).over > 0
  <2> SUFFICES ASSUME thumb.owner = Nobody, lock.owner = j
               PROVE  Score(t, j).over > 0
    OBVIOUS
  <2>1. lock = Contend(t)
    BY DEF Arbitrate
  <2>2. Dominant(t) = j
    BY <1>1, <2>1 DEF Contend, Unlocked
  <2> QED
    BY <1>1, <2>2, ThumbAssumption DEF Dominant, Dominates, Thumb
<1>11. IF thumb.owner = j THEN Calming(c, u, calm) ELSE Quiet(c, u)
  BY DEF ThumbInv
<1>12. lock.owner # Nobody =>
         (j \in sensed <=> lock.owner = j)
  BY <1>1 DEF Permitted
<1>13. lock.owner = Nobody /\ j \in sensed => ~ (Score(t, j).over > 0)
  BY <1>1 DEF Permitted
<1>14. o.event # "command" => o.teach.target = teach[j].target
  <2>1. Follows(c, u, ObserveForce(c, u, force[j]))
    BY <1>1, <1>3, ObserveFollows
  <2> QED
    BY <1>2, <1>3, <2>1 DEF Follows, Outcome
<1>15. Unlocked.owner = Nobody
  BY DEF Unlocked
<1> HIDE DEF t, lock, sensed, outcome, c, u, o
<1>16. CASE lock.owner = j
  <2>1. o = ObserveForce(c, u, force[j])
    BY <1>1, <1>2, <1>12, <1>16
  <2>2. CASE o.event = "released"
    <3>1. thumb'.owner # j
      BY <1>1, <1>2, <1>15, <1>16, <2>2 DEF o
    <3>2. Steady(c, o.teach)
      BY <1>1, <1>3, <2>1, <2>2, ReleasedSteady
    <3>3. Quiet(c, Resumed'[j])
      BY <1>4, <2>2, <3>2 DEF Quiet
    <3> QED
      BY <1>2, <1>14, <2>2, <3>1, <3>3 DEF c
  <2>3. CASE o.event # "released"
    <3>1. thumb' = lock
      BY <1>2, <1>16, <2>3 DEF o
    <3>2. CASE Score(t, j).over = 0
      <4>1. InBand(c, u, force[j]) /\ thumb.owner = j
        BY <1>6, <1>8, <1>10, <1>16, <3>2
      <4>2. calm' \in Nat /\ calm' <= calm + 1
        BY <1>1, <1>2, <1>9, <1>16, <3>1, <3>2 DEF Smaller
      <4>3. \/ o.event = "command" /\ calm + 1 <= Half(c)
            \/ o.event # "command" /\ Calming(c, o.teach, calm + 1)
        BY <1>1, <1>3, <1>9, <1>11, <2>1, <2>3, <4>1, OwnerCalms
      <4>4. Calming(c, Resumed'[j], calm + 1)
        <5>1. CASE o.event = "command" /\ calm + 1 <= Half(c)
          <6>1. Fields(o.teach)
            BY <1>1, <1>3, <2>1, ObserveFollows DEF Follows, Sound
          <6> QED
            BY <1>1, <1>4, <1>9, <5>1, <6>1, CalmingSettled
        <5>2. CASE o.event # "command" /\ Calming(c, o.teach, calm + 1)
          BY <1>4, <5>2
        <5> QED
          BY <4>3, <5>1, <5>2
      <4>5. calm + 1 \in Nat
        BY <1>9
      <4>6. Calming(c, Resumed'[j], calm')
        BY <1>1, <1>5, <4>2, <4>4, <4>5, CalmingLess
      <4> QED
        BY <1>16, <3>1, <4>6 DEF c
    <3>3. CASE Score(t, j).over # 0
      <4>1. calm' = 0
        BY <1>2, <1>16, <3>3
      <4>2. Calming(c, Resumed'[j], calm')
        BY <1>1, <1>5, <4>1, CalmingNone
      <4> QED
        BY <1>16, <3>1, <4>2 DEF c
    <3> QED
      BY <3>2, <3>3
  <2> QED
    BY <2>2, <2>3
<1>17. CASE lock.owner # j
  <2>1. thumb'.owner # j
    BY <1>1, <1>2, <1>15, <1>17
  <2>2. Quiet(c, u)
    BY <1>1, <1>6, <1>11, <1>17
  <2>3. Quiet(c, o.teach) /\ o.event # "command"
    <3>1. CASE j \notin sensed
      BY <1>2, <2>2, <3>1 DEF Outcome
    <3>2. CASE j \in sensed
      <4>1. lock.owner = Nobody
        BY <1>12, <1>17, <3>2
      <4>2. InBand(c, u, force[j])
        BY <1>8, <1>13, <3>2, <4>1
      <4> QED
        BY <1>1, <1>2, <1>3, <2>2, <3>2, <4>2, QuietStays
    <3> QED
      BY <3>1, <3>2
  <2> QED
    BY <1>2, <1>4, <1>14, <2>1, <2>3 DEF c
<1> QED
  BY <1>16, <1>17

LEMMA InitThumbInv == Init => ThumbInv
<1> SUFFICES ASSUME Init PROVE ThumbInv
  OBVIOUS
<1>1. PICK baseline \in [Joints -> Forces], q \in [Joints -> 0 .. MaxQ] :
        teach = [j \in Joints |-> NewTeach(baseline[j], q[j])]
  BY DEF Init
<1>2. ASSUME Arbitrated, NEW j \in Thumb
      PROVE  thumb.owner # j /\ Quiet(Config[j], Resumed[j])
  <2>1. j \in Joints /\ j # Nobody
    BY <1>2, ThumbAssumption DEF Arbitrated, Thumb
  <2>2. Resumed[j] = teach[j] /\ teach[j] = NewTeach(baseline[j], q[j])
    BY <1>1, <2>1 DEF Init, Resumed
  <2>3. Resumed[j].window = << >>
    BY <2>2 DEF NewTeach
  <2>4. Config[j].filterSamples \in Nat \ {0}
    BY <2>1, CalmLimitType
  <2> QED
    BY <2>1, <2>3, <2>4 DEF Init, Unlocked, Quiet, Recent
<1> QED
  BY <1>2 DEF ThumbInv, Init

LEMMA NextThumbInv ==
  /\ TeachInv /\ TypeInv /\ ThumbInv /\ [Next]_vars /\ TeachInv' /\ TypeInv'
  => ThumbInv'
<1> SUFFICES ASSUME TeachInv, TypeInv, ThumbInv, [Next]_vars, TeachInv', TypeInv'
             PROVE  ThumbInv'
  OBVIOUS
<1>1. CASE ProcessHand
  <2>1. ASSUME Arbitrated, NEW j \in Thumb
        PROVE  IF thumb'.owner = j THEN Calming(Config[j], Resumed'[j], calm')
               ELSE Quiet(Config[j], Resumed'[j])
    BY <1>1, <2>1, ProcessThumb
  <2>2. thumb'.owner = Nobody => calm' = 0
    BY <1>1, ProcessFacts
  <2> QED
    BY <2>1, <2>2 DEF ThumbInv, Arbitrated
<1>2. CASE ~ ProcessHand
  <2>1. teach' = teach /\ pending' = pending /\ thumb' = thumb /\ calm' = calm
    BY <1>2 DEF Next, Stop, Rest, BlankOver, Press, vars, hand, history
  <2>2. Resumed' = Resumed
    BY <2>1 DEF Resumed
  <2> QED
    BY <2>1, <2>2 DEF ThumbInv, Arbitrated
<1> QED
  BY <1>1, <1>2

THEOREM ThumbInvariant == Spec => []ThumbInv
<1>1. TeachInv /\ TypeInv /\ ThumbInv /\ [Next]_vars /\ TeachInv' /\ TypeInv'
      => ThumbInv'
  BY NextThumbInv
<1> QED
  BY <1>1, InitThumbInv, TeachInvariant, TypeInvariant, PTL DEF Spec

\* A thumb joint steps only as the owner of the lock: what its filter remembers
\* from before is not enough, because the joint is not observed while a thumb
\* joint is pushed and nobody owns the lock.
THEOREM OwnerSteps == Spec => OnlyOwnerSteps
<1> DEFINE Owned == \A j \in Joints \cap Thumb :
             Arbitrated /\ teach'[j].target # teach[j].target => thumb'.owner = j
<1>1. TeachInv /\ TypeInv /\ ThumbInv /\ [Next]_vars /\ TeachInv' /\ TypeInv'
      => [Owned]_vars
  <2> SUFFICES ASSUME TeachInv, TypeInv, ThumbInv, Next, TeachInv', TypeInv'
               PROVE  Owned
    OBVIOUS
  <2>1. CASE ProcessHand
    BY <2>1, ProcessThumb
  <2>2. CASE ~ ProcessHand
    BY <2>2 DEF Next, Stop, Rest, BlankOver, Press, hand
  <2> QED
    BY <2>1, <2>2
<1> QED
  BY <1>1, TeachInvariant, TypeInvariant, ThumbInvariant, PTL
  DEF Spec, OnlyOwnerSteps

\* The owner of the thumb lock that has acted gives it back within CalmLimit
\* calm cycles: what it remembers fades, its window fills anew after at most
\* one more step, and ObserveForce counts the calm medians.
THEOREM LockReturns == Spec => []LockGivenBack
<1>1. TeachInv /\ TypeInv /\ ThumbInv => LockGivenBack
  <2> SUFFICES ASSUME TeachInv, TypeInv, ThumbInv,
                      NEW j \in Joints, thumb.owner = j, teach[j].last # 0
               PROVE  calm < CalmLimit(j)
    BY DEF LockGivenBack
  <2> DEFINE c == Config[j]
             u == Resumed[j]
  <2>1. /\ c \in Configs /\ c.filterSamples \in Nat \ {0}
        /\ c.releaseSamples \in Nat \ {0} /\ Half(c) \in Nat
    BY ConfigAssumption, CalmLimitType, HalfType
  <2>2. CalmLimit(j) = Half(c) + c.filterSamples - 1 + c.releaseSamples
    BY DEF CalmLimit, Half
  <2>3. calm \in Nat
    BY DEF TypeInv
  <2>4. CASE j = Nobody
    <3>1. calm = 0
      BY <2>4 DEF ThumbInv
    <3> DEFINE h == Half(c)
               n == c.filterSamples
               r == c.releaseSamples
    <3>2. 0 < h + n - 1 + r
      <4>1. h \in Nat /\ n \in Nat \ {0} /\ r \in Nat \ {0}
        BY <2>1
      <4> HIDE DEF h, n, r
      <4> QED
        BY <4>1
    <3> QED
      BY <2>2, <3>1, <3>2
  <2>5. CASE j # Nobody
    <3>1. Arbitrated /\ j \in Thumb
      BY <2>5 DEF TypeInv, LockOK
    <3>2. Calming(c, u, calm)
      BY <3>1 DEF ThumbInv
    <3>3. /\ Counting(c, u) /\ u.last # 0
      BY ResumedFacts
    <3>4. /\ Len(u.window) \in Nat
          /\ u.release \in Nat /\ u.release < c.releaseSamples
      BY <2>1, <3>3 DEF Counting
    <3> DEFINE h == Half(c)
               n == c.filterSamples
               r == c.releaseSamples
    <3>5. \/ calm <= h + n - 1 + u.release
          \/ calm <= h + (IF Len(u.window) < n THEN Len(u.window) ELSE 0)
      BY <3>2, <3>3 DEF Calming
    <3>6. calm < h + n - 1 + r
      <4>1. /\ h \in Nat /\ n \in Nat \ {0} /\ r \in Nat \ {0}
            /\ Len(u.window) \in Nat /\ u.release \in Nat /\ u.release < r
        BY <2>1, <3>4
      <4> HIDE DEF c, u, h, n, r
      <4> QED
        BY <2>3, <3>5, <4>1
    <3> QED
      BY <2>2, <3>6
  <2> QED
    BY <2>4, <2>5
<1> QED
  BY <1>1, TeachInvariant, TypeInvariant, ThumbInvariant, PTL

=============================================================================
