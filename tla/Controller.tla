----------------------------- MODULE Controller -----------------------------
(***************************************************************************)
(* taskController of ExampleTask/funct_control.c, run once per cycle after *)
(* the command handler: it moves the position towards the target while     *)
(* enabled, and latches an error when the target differs for too long      *)
(* while disabled.                                                         *)
(*                                                                         *)
(* The float product max_velocity * rate * 0.001 is taken for rates that   *)
(* are multiples of 1.0 and velocities that are multiples of 1000, where   *)
(* it is exact.                                                            *)
(***************************************************************************)
EXTENDS Integers

CONSTANTS
    IntMax,      \* INT_MAX
    Targets,     \* targets that are commanded
    Rates,       \* values of the feed-rate pin
    Velocity,    \* max_velocity / 1000
    ErrorLimit,  \* 10: mismatching cycles tolerated while disabled
    Beats        \* values of the heartbeat counter before it wraps

ASSUME IntMaxAssumption == IntMax \in Nat \ {0}
ASSUME TargetsAssumption == Targets \subseteq -IntMax - 1 .. IntMax /\ 0 \in Targets
ASSUME RatesAssumption == Rates \subseteq Int
\* max_velocity is an int, so twice a thousandth of it is one.
ASSUME VelocityAssumption == Velocity \in Nat /\ 2 * Velocity <= IntMax
ASSUME ErrorLimitAssumption == ErrorLimit \in Nat
ASSUME BeatsAssumption == Beats \in Nat \ {0}

VARIABLES
    enable_in, target_pos,       \* input pins
    current_pos, running, error, \* output pins
    last_target, error_count,    \* static state of the controller
    heartbeat, heartbeat_out

inputs == <<enable_in, target_pos>>
vars == <<inputs, current_pos, running, error, last_target, error_count, heartbeat, heartbeat_out>>

Ints == -IntMax - 1 .. IntMax

Lower(a, b) == IF a < b THEN a ELSE b

Higher(a, b) == IF a < b THEN b ELSE a

\* init_hal_param writes the pins, the static variables start at 0.
Init ==
    /\ enable_in = FALSE /\ target_pos = 0
    /\ current_pos = 0 /\ running = FALSE /\ error = FALSE
    /\ last_target = 0 /\ error_count = 0
    /\ heartbeat = 0 /\ heartbeat_out = 0

\* The command handler, or another component, writes the input pins.
set_target(v) ==
    /\ target_pos' = v
    /\ UNCHANGED <<enable_in, current_pos, running, error, last_target, error_count,
                   heartbeat, heartbeat_out>>

set_enable ==
    /\ enable_in' = ~enable_in
    /\ UNCHANGED <<target_pos, current_pos, running, error, last_target, error_count,
                   heartbeat, heartbeat_out>>

\* Variant: a feed rate of zero gives a step of zero.
StepUnraised(rate) == Velocity * Lower(Higher(rate, 0), 2)

\* The rate is clamped to 0.0 .. 2.0 and a step is at least 1.
Step(rate) == Higher(1, Velocity * Lower(Higher(rate, 0), 2))

\* Variant: the position is not held at the target.
ReachableUnclamped(pos, target, step) ==
    IF pos < target THEN {pos + step}
    ELSE IF pos > target THEN {pos - step}
    ELSE {pos}

\* Where one step can take the position: no farther than the target, unless
\* the int addition overflows.  Then the build either wraps, and the test
\* against the target does not see it, or compares the exact values.
Reachable(pos, target, step) ==
    IF pos < target THEN
        IF pos + step <= IntMax THEN {Lower(pos + step, target)}
        ELSE {target, pos + step - 2 * (IntMax + 1)}
    ELSE IF pos > target THEN
        IF pos - step >= -IntMax - 1 THEN {Higher(pos - step, target)}
        ELSE {target, pos - step + 2 * (IntMax + 1)}
    ELSE {pos}

\* Variant: the error flag is left alone.
enabled_keeps_error(rate) ==
    /\ enable_in
    /\ current_pos' \in Reachable(current_pos, target_pos, Step(rate))
    /\ last_target' = target_pos
    /\ running' = TRUE
    /\ error_count' = 0
    /\ UNCHANGED error

\* A cycle with enable_in set: one step, and the error is forgotten.
enabled(rate) ==
    /\ enable_in
    /\ current_pos' \in Reachable(current_pos, target_pos, Step(rate))
    /\ last_target' = target_pos
    /\ running' = TRUE
    /\ error' = FALSE
    /\ error_count' = 0

\* error_count is not reset by a matching cycle; it stops counting here where
\* only its being over the limit matters.
disabled ==
    /\ ~enable_in
    /\ running' = FALSE
    /\ LET mismatch == target_pos # last_target
           count == IF mismatch THEN error_count + 1 ELSE error_count
       IN  /\ error_count' = Lower(count, ErrorLimit + 1)
           /\ error' = (error \/ (mismatch /\ count > ErrorLimit))
    /\ UNCHANGED <<current_pos, last_target>>

taskController ==
    /\ \E rate \in Rates : enabled(rate) \/ disabled
    /\ heartbeat' = (heartbeat + 1) % Beats
    /\ heartbeat_out' = heartbeat'
    /\ UNCHANGED inputs

Next == \/ \E v \in Targets : set_target(v)
        \/ set_enable
        \/ taskController

\* The thread that runs the controller gets its period.
Spec == Init /\ [][Next]_vars /\ WF_vars(taskController)

-----------------------------------------------------------------------------
\* Pins and counters stay in their types: no position leaves the int range,
\* however targets and rates change.
TypeOK ==
    /\ enable_in \in BOOLEAN /\ running \in BOOLEAN /\ error \in BOOLEAN
    /\ target_pos \in Targets /\ last_target \in Targets
    /\ current_pos \in Ints
    /\ error_count \in 0 .. ErrorLimit + 1
    /\ heartbeat \in 0 .. Beats - 1 /\ heartbeat_out \in 0 .. Beats - 1

\* A controller that reports an error is stopped, and has had its target
\* changed under it for more cycles than tolerated.
ErrorMeansStopped == error => ~running /\ error_count > ErrorLimit

Between(a, x, b) == (a <= x /\ x <= b) \/ (b <= x /\ x <= a)

\* "move toward the target": the position never moves away from the target
\* and never past it.
MovesTowardTarget ==
    [][Between(current_pos, current_pos', target_pos)]_vars

\* A controller that stays enabled with one target arrives there, whatever the
\* feed rate does, a feed hold included.
Arrives ==
    \A v \in Targets :
        <>[](enable_in /\ target_pos = v) => <>[](current_pos = v)

=============================================================================
