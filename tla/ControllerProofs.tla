-------------------------- MODULE ControllerProofs --------------------------
(***************************************************************************)
(* Proofs about Controller for any int range, targets, rates, velocity and *)
(* error limit.                                                            *)
(***************************************************************************)
EXTENDS Controller, TLAPS

\* The largest step: the rate is clamped to 2.0.
MaxStep == Higher(1, 2 * Velocity)

LEMMA ConstantFacts ==
    /\ IntMax \in Nat /\ IntMax >= 1 /\ Velocity \in Nat /\ ErrorLimit \in Nat
    /\ Beats \in Nat /\ Beats > 0
    /\ MaxStep \in Nat /\ 1 <= MaxStep /\ MaxStep <= IntMax
    /\ Targets \subseteq Ints /\ 0 \in Targets /\ 0 \in Ints
BY IntMaxAssumption, VelocityAssumption, ErrorLimitAssumption, BeatsAssumption, TargetsAssumption
   DEF MaxStep, Higher, Ints

\* However the feed-rate pin is set, a step is at least 1 and at most MaxStep.
LEMMA StepRange ==
    ASSUME NEW rate \in Rates
    PROVE  Step(rate) \in 1 .. MaxStep
<1> DEFINE r == Lower(Higher(rate, 0), 2)
<1>1. rate \in Int /\ Velocity \in Nat BY RatesAssumption, VelocityAssumption
<1>2. r \in {0, 1, 2} BY <1>1 DEF Lower, Higher
<1>3. Velocity * r \in Nat /\ Velocity * r <= 2 * Velocity BY <1>1, <1>2
<1>4. QED BY <1>1, <1>3 DEF Step, MaxStep, Higher

\* An addition that overflows and wraps is still an int.
LEMMA ReachableInInts ==
    ASSUME NEW pos \in Ints, NEW target \in Ints, NEW step \in 1 .. MaxStep,
           NEW p \in Reachable(pos, target, step)
    PROVE  p \in Ints
BY ConstantFacts DEF Reachable, Ints, Lower, Higher

\* Without an overflow a step goes towards the target and not past it.
LEMMA ReachableIsBetween ==
    ASSUME NEW pos \in Ints, NEW target \in Ints, NEW step \in 1 .. MaxStep,
           pos < target => pos + step <= IntMax,
           pos > target => pos - step >= -IntMax - 1,
           NEW p \in Reachable(pos, target, step)
    PROVE  Between(pos, p, target)
BY ConstantFacts DEF Reachable, Ints, Lower, Higher, Between

-----------------------------------------------------------------------------
LEMMA InitTypeOK == Init => TypeOK
<1>1. 0 \in 0 .. ErrorLimit + 1 /\ 0 \in 0 .. Beats - 1 BY ConstantFacts
<1>2. QED BY <1>1, ConstantFacts DEF Init, TypeOK

LEMMA HeartbeatType ==
    ASSUME TypeOK, taskController
    PROVE  heartbeat' \in 0 .. Beats - 1 /\ heartbeat_out' \in 0 .. Beats - 1
<1>1. heartbeat \in Nat /\ Beats \in Nat \ {0} BY BeatsAssumption DEF TypeOK
<1>2. (heartbeat + 1) % Beats \in 0 .. Beats - 1 BY <1>1
<1>3. QED BY <1>2 DEF taskController

LEMMA NextTypeOK == TypeOK /\ [Next]_vars => TypeOK'
<1> SUFFICES ASSUME TypeOK, [Next]_vars PROVE TypeOK'
    OBVIOUS
<1>1. ASSUME NEW v \in Targets, set_target(v) PROVE TypeOK'
  BY <1>1 DEF set_target, TypeOK
<1>2. CASE set_enable
  <2>1. enable_in' \in BOOLEAN BY <1>2 DEF set_enable
  <2>2. QED BY <1>2, <2>1 DEF set_enable, TypeOK
<1>3. CASE taskController
  <2>1. PICK rate \in Rates : enabled(rate) \/ disabled BY <1>3 DEF taskController
  <2>2. CASE enabled(rate)
    <3>1. current_pos' \in Ints
      BY <2>2, StepRange, ReachableInInts, ConstantFacts DEF enabled, TypeOK
    <3>2. error_count' \in 0 .. ErrorLimit + 1 BY <2>2, ConstantFacts DEF enabled
    <3>3. QED BY <1>3, <2>2, <3>1, <3>2, HeartbeatType DEF enabled, taskController, inputs, TypeOK
  <2>3. CASE disabled
    <3>1. error_count' \in 0 .. ErrorLimit + 1
      BY <2>3, ConstantFacts DEF disabled, TypeOK, Lower
    <3>2. running' \in BOOLEAN /\ error' \in BOOLEAN BY <2>3 DEF disabled, TypeOK
    <3>3. QED BY <1>3, <2>3, <3>1, <3>2, HeartbeatType DEF disabled, taskController, inputs, TypeOK
  <2>4. QED BY <2>1, <2>2, <2>3
<1>4. CASE UNCHANGED vars BY <1>4 DEF vars, inputs, TypeOK
<1>5. QED BY <1>1, <1>2, <1>3, <1>4 DEF Next

\* No position ever leaves the int range and no pin its values, also when an
\* addition of taskController overflows and wraps.
THEOREM TypeCorrect == Spec => []TypeOK
BY InitTypeOK, NextTypeOK, PTL DEF Spec

-----------------------------------------------------------------------------
LEMMA NextErrorMeansStopped == TypeOK /\ ErrorMeansStopped /\ [Next]_vars => ErrorMeansStopped'
<1> SUFFICES ASSUME TypeOK, ErrorMeansStopped, [Next]_vars PROVE ErrorMeansStopped'
    OBVIOUS
<1> USE DEF ErrorMeansStopped
<1>1. ASSUME NEW v \in Targets, set_target(v) PROVE ErrorMeansStopped'
  BY <1>1 DEF set_target
<1>2. CASE set_enable BY <1>2 DEF set_enable
<1>3. CASE taskController
  <2>1. PICK rate \in Rates : enabled(rate) \/ disabled BY <1>3 DEF taskController
  <2>2. CASE enabled(rate) BY <2>2 DEF enabled
  <2>3. CASE disabled
    <3> SUFFICES ASSUME error' PROVE ~running' /\ error_count' > ErrorLimit
        OBVIOUS
    <3> DEFINE count == IF target_pos # last_target THEN error_count + 1 ELSE error_count
    <3>1. ErrorLimit \in Nat /\ error_count \in Nat BY ConstantFacts DEF TypeOK
    <3>2. error \/ count > ErrorLimit BY <2>3 DEF disabled
    <3>3. error => error_count > ErrorLimit OBVIOUS
    <3>4. count \in Nat /\ count > ErrorLimit BY <3>1, <3>2, <3>3
    <3>5. error_count' = Lower(count, ErrorLimit + 1) BY <2>3 DEF disabled
    <3>6. error_count' > ErrorLimit BY <3>1, <3>4, <3>5 DEF Lower
    <3>7. QED BY <2>3, <3>6 DEF disabled
  <2>4. QED BY <2>1, <2>2, <2>3
<1>4. CASE UNCHANGED vars BY <1>4 DEF vars
<1>5. QED BY <1>1, <1>2, <1>3, <1>4 DEF Next

\* The error pin of taskController is never set while it moves, and only after
\* more mismatching cycles than it tolerates.
THEOREM ErrorStops == Spec => []ErrorMeansStopped
<1>1. Init => ErrorMeansStopped BY DEF Init, ErrorMeansStopped
<1>2. QED BY <1>1, NextErrorMeansStopped, TypeCorrect, PTL DEF Spec

-----------------------------------------------------------------------------
(* Motion. *)

\* Every target is at least the largest step away from the ends of int.  Near
\* the ends pos + step overflows and the position may jump to the other end.
TargetsInside ==
    \A v \in Targets : -IntMax - 1 <= v - MaxStep /\ v + MaxStep <= IntMax

\* The position lies between two targets (0 is one): no cycle leaves the range
\* that was ever commanded.
PositionCommanded ==
    \E a, b \in Targets : a <= current_pos /\ current_pos <= b

LEMMA CycleIsBetween ==
    ASSUME TargetsInside, TypeOK, PositionCommanded, NEW rate \in Rates, enabled(rate)
    PROVE  Between(current_pos, current_pos', target_pos) /\ current_pos' \in Int
<1>1. PICK a, b \in Targets : a <= current_pos /\ current_pos <= b
  BY DEF PositionCommanded
<1>2. PICK step \in 1 .. MaxStep : current_pos' \in Reachable(current_pos, target_pos, step)
  BY StepRange DEF enabled
<1>3. /\ current_pos \in Ints /\ target_pos \in Ints /\ a \in Ints /\ b \in Ints
      /\ step \in Int /\ step <= MaxStep /\ MaxStep \in Int /\ IntMax \in Int
      /\ current_pos \in Int /\ a \in Int /\ b \in Int
  BY <1>2, ConstantFacts DEF TypeOK, Ints
<1>4. current_pos + step <= IntMax /\ current_pos - step >= -IntMax - 1
  BY <1>1, <1>3 DEF TargetsInside
<1>5. Between(current_pos, current_pos', target_pos)
  BY <1>2, <1>3, <1>4, ReachableIsBetween
<1>6. current_pos' \in Int
  BY <1>2, <1>3, ReachableInInts DEF Ints
<1>7. QED BY <1>5, <1>6

LEMMA NextPosition ==
    ASSUME TargetsInside, TypeOK, PositionCommanded, [Next]_vars
    PROVE  PositionCommanded' /\ (UNCHANGED vars \/ Between(current_pos, current_pos', target_pos))
<1>0. current_pos \in Int /\ target_pos \in Targets /\ Targets \subseteq Int
  BY ConstantFacts DEF TypeOK, Ints
<1>1. CASE UNCHANGED current_pos
  BY <1>0, <1>1 DEF PositionCommanded, Between
<1>2. ASSUME NEW rate \in Rates, enabled(rate)
      PROVE  PositionCommanded' /\ Between(current_pos, current_pos', target_pos)
  <2>1. Between(current_pos, current_pos', target_pos) /\ current_pos' \in Int
    BY <1>2, CycleIsBetween
  <2>2. PICK a, b \in Targets : a <= current_pos /\ current_pos <= b
    BY DEF PositionCommanded
  <2>3. \/ a <= current_pos' /\ current_pos' <= target_pos
        \/ target_pos <= current_pos' /\ current_pos' <= b
    BY <1>0, <2>1, <2>2 DEF Between
  <2>4. QED BY <1>0, <2>1, <2>2, <2>3 DEF PositionCommanded
<1>3. UNCHANGED current_pos \/ \E rate \in Rates : enabled(rate)
  BY DEF Next, set_target, set_enable, taskController, disabled, vars
<1>4. QED BY <1>1, <1>2, <1>3

\* "move toward the target": while every commanded target is at least the
\* largest step inside the int range, no cycle of taskController moves the
\* position away from the target or past it, whatever targets and rates do.
\* The hypothesis is the one that excludes overflow; it cannot be dropped.
THEOREM MotionIsTowardTarget ==
    ASSUME TargetsInside
    PROVE  Spec => MovesTowardTarget
<1> DEFINE Moves == Between(current_pos, current_pos', target_pos)
<1>1. Init => PositionCommanded
  BY ConstantFacts DEF Init, PositionCommanded
<1>2. TypeOK /\ PositionCommanded /\ [Next]_vars => PositionCommanded'
  BY NextPosition
<1>3. TypeOK /\ PositionCommanded /\ [Next]_vars => [Moves]_vars
  BY NextPosition
<1>4. QED BY <1>1, <1>2, <1>3, TypeCorrect, PTL DEF Spec, MovesTowardTarget

=============================================================================
