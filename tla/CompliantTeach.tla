--------------------------- MODULE CompliantTeach ---------------------------
(***************************************************************************)
(* CompliantTeach of src/src/compliant_teach.hpp: the controller of one    *)
(* joint as operators on its state t and its configuration c.  q and its   *)
(* steps are integers.                                                     *)
(***************************************************************************)
EXTENDS Integers, Sequences, FiniteSets

CONSTANT MaxQ  \* 1.0
ASSUME MaxQAssumption == MaxQ \in Nat \ {0}

Configs ==
  [closeDelta : Nat, openDelta : Nat, openFloor : Int,
   filterSamples : Nat \ {0}, engageSamples : Nat \ {0},
   releaseSamples : Nat \ {0}, step : Nat \ {0}, maximumTravel : Nat,
   baselineAdaptStep : Nat, baselineSlope : Int, oppositeReleases : BOOLEAN]

Larger(a, b) == IF a > b THEN a ELSE b
Smaller(a, b) == IF a < b THEN a ELSE b
Clamp(x, low, high) == Larger(low, Smaller(x, high))

\* The constructor.
NewTeach(baseline, q) ==
  [baseline |-> baseline, initial |-> q, target |-> q, phase |-> "sense",
   window |-> << >>, candidate |-> 0, last |-> 0,
   engage |-> 0, release |-> 0, opposite |-> 0]

Lowest(c, t) == Larger(0, t.initial - c.maximumTravel)
Highest(c, t) == Smaller(MaxQ, t.initial + c.maximumTravel)

CloseThreshold(c, t) == t.baseline - c.closeDelta
OpenThreshold(c, t) == Larger(t.baseline + c.openDelta, c.openFloor)

\* -1 closes, 1 opens.
Direction(c, t, force) ==
  IF force < CloseThreshold(c, t) THEN -1
  ELSE IF force > OpenThreshold(c, t) THEN 1 ELSE 0

\* ActivationScore as a fraction.
ActivationScore(c, t, force) ==
  IF Direction(c, t, force) = -1
  THEN [over |-> CloseThreshold(c, t) - force, delta |-> c.closeDelta]
  ELSE IF Direction(c, t, force) = 1
  THEN [over |-> force - OpenThreshold(c, t), delta |-> c.openDelta]
  ELSE [over |-> 0, delta |-> 1]

\* The value with half of the samples, rounded down, below or beside it.
Median(samples) ==
  LET half == Len(samples) \div 2
  IN CHOOSE m \in {samples[i] : i \in DOMAIN samples} :
       /\ Cardinality({i \in DOMAIN samples : samples[i] < m}) <= half
       /\ Cardinality({i \in DOMAIN samples : samples[i] <= m}) > half

Sampled(c, t, force) ==
  LET n == Len(t.window)
  IN [t EXCEPT !.window =
        Append(IF n < c.filterSamples THEN @ ELSE Tail(@), force)]

-----------------------------------------------------------------------------
(***************************************************************************)
(* What ObserveForce makes of the median.  An outcome is the new state and *)
(* what the caller is told: "command", "released", "limit" or "none".      *)
(***************************************************************************)

Outcome(t, event) == [teach |-> t, event |-> event]

\* The force has turned: after a while that releases the joint.
Reverse(c, t, force) ==
  LET s == [t EXCEPT !.engage = 0, !.candidate = 0, !.opposite = @ + 1]
  IN IF s.opposite < c.releaseSamples THEN Outcome(s, "none")
     ELSE Outcome([s EXCEPT !.baseline = force, !.last = 0, !.opposite = 0,
                            !.release = 0], "released")

\* A bug to try: the release counter is reset with the others.
NeutralResetting(c, t, force) ==
  LET s == [t EXCEPT !.opposite = 0, !.candidate = 0, !.engage = 0,
              !.release = 0,
              !.baseline = @ + Clamp(force - @, - c.baselineAdaptStep,
                                     c.baselineAdaptStep)]
  IN IF s.last # 0 /\ s.release + 1 >= c.releaseSamples
     THEN Outcome([s EXCEPT !.last = 0], "released")
     ELSE Outcome(s, "none")

Neutral(c, t, force) ==
  LET s == [t EXCEPT !.opposite = 0, !.candidate = 0, !.engage = 0,
              !.baseline = @ + Clamp(force - @, - c.baselineAdaptStep,
                                     c.baselineAdaptStep),
              !.release = IF t.last = 0 THEN @ ELSE @ + 1]
  IN IF s.last # 0 /\ s.release >= c.releaseSamples
     THEN Outcome([s EXCEPT !.last = 0, !.release = 0], "released")
     ELSE Outcome(s, "none")

\* A bug to try: the step is not clamped.
StepUnclamped(c, t, direction) ==
  LET next == t.target + direction * c.step
  IN Outcome([t EXCEPT !.engage = 0, !.candidate = 0, !.last = direction,
                       !.target = next, !.phase = "settle"], "command")

Step(c, t, direction) ==
  LET next == Clamp(t.target + direction * c.step, Lowest(c, t), Highest(c, t))
      s == [t EXCEPT !.engage = 0, !.candidate = 0, !.last = direction]
  IN IF next = t.target THEN Outcome(s, "limit")
     ELSE Outcome(
            [s EXCEPT !.baseline = @ + c.baselineSlope * (next - t.target),
                      !.target = next, !.phase = "settle"], "command")

Push(c, t, direction) ==
  LET s == [t EXCEPT !.opposite = 0, !.release = 0, !.candidate = direction,
              !.engage = IF t.candidate = direction THEN @ + 1 ELSE 1]
  IN IF s.engage >= c.engageSamples THEN Step(c, s, direction)
     ELSE Outcome(s, "none")

\* A bug to try: the force may turn the joint round at once.
ReactTurning(c, t, force, direction) ==
  IF direction = 0 THEN Neutral(c, t, force) ELSE Push(c, t, direction)

React(c, t, force, direction) ==
  IF c.oppositeReleases /\ t.last # 0 /\ direction = - t.last
  THEN Reverse(c, t, force)
  ELSE IF direction = 0 THEN Neutral(c, t, force) ELSE Push(c, t, direction)

ObserveForce(c, t, force) ==
  LET s == Sampled(c, t, force)
      median == Median(s.window)
  IN IF t.phase = "settle" THEN Outcome(t, "none")
     ELSE IF Len(s.window) < c.filterSamples THEN Outcome(s, "none")
     ELSE React(c, s, median, Direction(c, s, median))

MarkMotionSettled(t) ==
  [t EXCEPT !.phase = "sense", !.window = << >>, !.candidate = 0, !.engage = 0,
            !.opposite = 0]
=============================================================================
