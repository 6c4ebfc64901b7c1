------------------------------ MODULE TeachHand ------------------------------
(***************************************************************************)
(* One hand of hand_compliant_teach (src/src/hand_compliant_teach.cpp):    *)
(* the controllers of its selected joints, the lock the two thumb joints   *)
(* share, and the time after a step in which forces are not looked at.     *)
(* Two hands share nothing but the loop that calls ProcessHand for each.   *)
(***************************************************************************)
EXTENDS CompliantTeach

CONSTANTS
  Joints,         \* the selected joints
  Bend, Rotation, \* kThumbBend, kThumbRotation
  Nobody,
  Config,         \* each joint's configuration
  DominanceRatio, ThumbEngageSamples,
  Arbitration,    \* thumb_arbitration_enabled
  Forces          \* readings of a force sensor

ASSUME ConfigAssumption == Config \in [Joints -> Configs]
ASSUME ThumbAssumption == Bend # Rotation /\ Nobody \notin {Bend, Rotation}
ASSUME RatioAssumption ==
  DominanceRatio \in Nat \ {0} /\ ThumbEngageSamples \in Nat \ {0}
ASSUME ForcesAssumption == Forces \subseteq Int
ASSUME ArbitrationAssumption == Arbitration \in BOOLEAN

VARIABLES
  teach,    \* the controllers
  pending,  \* joints that have been told to step and not been resumed
  blank,    \* the present is before resume_at
  thumb,    \* thumb_owner, thumb_candidate, thumb_candidate_count
  running,  \* the program has not returned
  force,    \* external: what each joint's sensor would show
  moving,   \* external: joints in motion
  dirty,    \* history: joints that use a force read while the hand moved
  calm      \* history: for how many cycles on end the owner's force has been
            \* between its thresholds, up to CalmLimit

hand == <<teach, pending, thumb>>
history == <<dirty, calm>>
vars == <<hand, blank, running, force, moving, history>>

Thumb == {Bend, Rotation}
Unlocked == [owner |-> Nobody, candidate |-> Nobody, count |-> 0]

\* InitializeHand: the baseline is the median of readings at rest.
Init ==
  /\ \E baseline \in [Joints -> Forces], q \in [Joints -> 0 .. MaxQ] :
       /\ teach = [j \in Joints |-> NewTeach(baseline[j], q[j])]
       /\ force = baseline
  /\ pending = {} /\ blank = FALSE /\ thumb = Unlocked /\ running = TRUE
  /\ moving = {} /\ dirty = {} /\ calm = 0

-----------------------------------------------------------------------------
(***************************************************************************)
(* The thumb lock.                                                         *)
(***************************************************************************)

Score(t, j) == ActivationScore(Config[j], t[j], force[j])

\* Fractions are compared without dividing.
Dominates(a, b) ==
  a.over > 0 /\ a.over * b.delta >= DominanceRatio * b.over * a.delta

Dominant(t) ==
  IF Dominates(Score(t, Bend), Score(t, Rotation)) THEN Bend
  ELSE IF Dominates(Score(t, Rotation), Score(t, Bend)) THEN Rotation
  ELSE Nobody

Contend(t) ==
  LET d == Dominant(t)
      n == IF d = thumb.candidate THEN thumb.count + 1 ELSE 1
  IN IF d = Nobody THEN Unlocked
     ELSE IF n >= ThumbEngageSamples THEN [Unlocked EXCEPT !.owner = d]
     ELSE [Unlocked EXCEPT !.candidate = d, !.count = n]

Arbitrated == Arbitration /\ Thumb \subseteq Joints

Arbitrate(t) ==
  IF Arbitrated /\ thumb.owner = Nobody THEN Contend(t) ELSE thumb

\* A bug to try: while nobody has won, both may act.
PermittedUndecided(t, lock) ==
  IF Arbitrated /\ lock.owner # Nobody THEN Joints \ (Thumb \ {lock.owner})
  ELSE Joints

Permitted(t, lock) ==
  IF ~ Arbitrated THEN Joints
  ELSE IF lock.owner # Nobody THEN Joints \ (Thumb \ {lock.owner})
  ELSE IF \E j \in Thumb : Score(t, j).over > 0 THEN Joints \ Thumb
  ELSE Joints

-----------------------------------------------------------------------------
\* A bug to try: the blank needs all joints to be moving.
InDynamicBlankAll == pending = Joints /\ blank

InDynamicBlank == pending # {} /\ blank

Resumed ==
  [j \in Joints |->
     IF j \in pending THEN MarkMotionSettled(teach[j]) ELSE teach[j]]

Observed(t, sensed) ==
  [j \in Joints |-> IF j \in sensed THEN ObserveForce(Config[j], t[j], force[j])
                    ELSE Outcome(t[j], "none")]

\* Old forces are the median of at most half a window, which may be enough for
\* one more step; after it the window is filled anew; then the joint is
\* released.
CalmLimit(j) ==
  LET n == Config[j].filterSamples
  IN n \div 2 + n - 1 + Config[j].releaseSamples

\* A bug to try: a joint at its limit is taken to be moving.
CommandedOrLimit(outcome) ==
  {j \in Joints : outcome[j].event \in {"command", "limit"}}

Commanded(outcome) == {j \in Joints : outcome[j].event = "command"}

\* ProcessHand after the blank, if nothing fails.
ProcessHand ==
  /\ running /\ ~ InDynamicBlank
  /\ \E t \in {Resumed} : \E lock \in {Arbitrate(t)} :
     \E sensed \in {Permitted(t, lock)} : \E outcome \in {Observed(t, sensed)} :
       /\ teach' = [j \in Joints |-> outcome[j].teach]
       /\ thumb' = IF \E j \in Joints \cap {lock.owner} :
                         outcome[j].event = "released"
                   THEN Unlocked ELSE lock
       /\ pending' = Commanded(outcome)
       /\ blank' = (blank \/ Commanded(outcome) # {})
       /\ moving' = moving \cup Commanded(outcome)
       /\ dirty' = (dirty \ pending) \cup {j \in sensed : moving # {}}
       /\ calm' = IF thumb'.owner # Nobody /\ Score(t, lock.owner).over = 0
                  THEN Smaller(calm + 1, CalmLimit(lock.owner)) ELSE 0
  /\ UNCHANGED <<running, force>>

\* A read or a write fails, a joint has an error, the safety check stops it,
\* the time is up or a signal comes.
Stop ==
  /\ running /\ running' = FALSE
  /\ UNCHANGED <<hand, blank, force, moving, history>>

-----------------------------------------------------------------------------
(***************************************************************************)
(* The hand and the person who bends it.  A step of a finger takes less    *)
(* than motion_blank_ms + extra_settle_ms.                                 *)
(***************************************************************************)

Press(j, f) ==
  /\ running /\ force[j] # f
  /\ force' = [force EXCEPT ![j] = f]
  /\ UNCHANGED <<hand, blank, running, moving, history>>

Rest ==
  /\ moving # {} /\ moving' = {}
  /\ UNCHANGED <<hand, blank, running, force, history>>

BlankOver ==
  /\ blank /\ moving = {} /\ blank' = FALSE
  /\ UNCHANGED <<hand, running, force, moving, history>>

Next ==
  \/ ProcessHand \/ Stop \/ Rest \/ BlankOver
  \/ \E j \in Joints, f \in Forces : Press(j, f)

Spec == Init /\ [][Next]_vars

-----------------------------------------------------------------------------
Phases == {"sense", "settle"}
Directions == {-1, 0, 1}

TeachOK(c, t) ==
  /\ t.baseline \in Int /\ t.initial \in 0 .. MaxQ
  /\ t.target \in Lowest(c, t) .. Highest(c, t)
  /\ t.phase \in Phases
  /\ t.window \in Seq(Forces) /\ Len(t.window) <= c.filterSamples
  /\ t.candidate \in Directions /\ t.last \in Directions
  /\ t.engage \in 0 .. c.engageSamples - 1
  /\ t.release \in 0 .. c.releaseSamples - 1
  /\ t.opposite \in 0 .. c.releaseSamples - 1

\* Every variable keeps its type: in particular targets stay within the travel
\* around where the joint began, and counters below their limits.
TypeOK ==
  /\ DOMAIN teach = Joints /\ \A j \in Joints : TeachOK(Config[j], teach[j])
  /\ pending \subseteq Joints /\ blank \in BOOLEAN
  /\ thumb.owner \in Thumb \cup {Nobody}
  /\ thumb.candidate \in Thumb \cup {Nobody}
  /\ thumb.count \in 0 .. ThumbEngageSamples - 1
  /\ running \in BOOLEAN
  /\ force \in [Joints -> Forces] /\ moving \subseteq Joints
  /\ dirty \subseteq Joints /\ calm \in Nat

\* "FORCE_ACT is evaluated only while the actuator is stationary"
\* (compliant_teach.hpp:11): no decision uses a force read while a joint of the
\* hand moved.
QuietForces == dirty = {}

\* A joint that waits for its step to settle is one ProcessHand will resume:
\* the two records of a step under way agree.
PendingWaits == \A j \in Joints : j \in pending <=> teach[j].phase = "settle"

\* "Do not let either independent controller act until one axis has won"
\* (hand_compliant_teach.cpp:304): a thumb joint steps only as the owner of the
\* lock, whatever forces its filter remembers from before.
OnlyOwnerSteps ==
  [][\A j \in Joints \cap Thumb :
       Arbitrated /\ teach'[j].target # teach[j].target => thumb'.owner = j]_vars

\* "Treat the first reversal as a release/re-zero event, never as an immediate
\* reverse command" (compliant_teach.hpp:90-92): a joint that is configured so
\* does not step back the way it came before it has been released.
NoImmediateReversal ==
  [][\A j \in Joints :
       Config[j].oppositeReleases =>
         (teach'[j].target - teach[j].target) * teach[j].last >= 0]_vars

\* A thumb joint that has acted gives the lock back soon after its force is
\* gone, so that the other one gets its turn.
LockGivenBack ==
  \A j \in Joints :
    thumb.owner = j /\ teach[j].last # 0 => calm < CalmLimit(j)
=============================================================================
