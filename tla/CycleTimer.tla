----------------------------- MODULE CycleTimer -----------------------------
(***************************************************************************)
(* The timer of main's loop, RCS_TIMER of time/timer.cpp without a timing  *)
(* function, and esleep of time/_timer.cpp, beside the real-time thread.   *)
(* It reads the wall clock (gettimeofday), which somebody may set, and     *)
(* sleeps with one select for the rest of the interval.                    *)
(*                                                                         *)
(* The code calculates with doubles; here a tick of the clock is the unit. *)
(* The conversion of the number of cycles to an int keeps the width of the *)
(* int: the wall clock may be set by more than it can count.               *)
(***************************************************************************)
EXTENDS ThreadClock

CONSTANTS
    Timeout,        \* timeout of the timer
    IntMax,         \* INT_MAX
    Offsets         \* wall clock minus monotonic clock: what it may be set to

ASSUME TimerAssumption ==
    /\ Timeout \in Nat \ {0} /\ IntMax \in Nat
    /\ Offsets \subseteq Nat /\ 0 \in Offsets

VARIABLES
    offset,         \* wall clock minus monotonic clock
    last_time,      \* last wakeup
    timer,          \* "loop": main's cycle runs; "sleep": in select
    select_end,     \* when select has slept long enough
    remaining,      \* history: what wait computed
    exact,          \* history: the cycles of the interval fitted into an int
    set             \* history: the wall clock was set since the last wakeup

timerVars == <<offset, last_time, timer, select_end, remaining, exact, set>>
vars == <<now, threadVars, timerVars>>

etime == now + offset

TimerInit ==
    /\ offset \in Offsets /\ last_time = etime
    /\ timer = "loop" /\ select_end = 0 /\ remaining = 0
    /\ exact = TRUE /\ set = FALSE

\* whole timeouts of an interval, toward zero for a clock that was set back too
Cycles(interval) == IF interval >= 0 THEN interval \div Timeout ELSE -((-interval) \div Timeout)

\* (int) of a double: undefined beyond the range of an int, where the processors
\* the code builds for give the smallest int or the nearest one
IntOf(cycles) ==
    IF cycles \in -IntMax - 1 .. IntMax THEN {cycles}
    ELSE {-IntMax - 1} \cup (IF cycles > 0 THEN {IntMax} ELSE {})

\* Variant: whole cycles are not taken off.
RemainingOfAll(interval, numcycles) == Timeout - interval

\* what is left of the cycle; the missed ones are only counted
Remaining(interval, numcycles) == Timeout - (interval - numcycles * Timeout)

\* RCS_TIMER::wait, up to the select of esleep, which is not called for a
\* remaining time that is not positive
timer_wait ==
    /\ timer = "loop"
    /\ \E numcycles \in IntOf(Cycles(etime - last_time)) :
         /\ remaining' = Remaining(etime - last_time, numcycles)
         /\ exact' = (numcycles = Cycles(etime - last_time))
    /\ select_end' = IF remaining' > 0 THEN now + remaining' ELSE now
    /\ timer' = "sleep"
    /\ UNCHANGED <<now, offset, last_time, set>>

\* select returns, late, or early because of a signal; the next interval
\* counts from here
select_returns ==
    /\ timer = "sleep"
    /\ timer' = "loop" /\ last_time' = etime /\ set' = FALSE
    /\ select_end' = 0 /\ remaining' = 0 /\ exact' = TRUE
    /\ UNCHANGED <<now, offset>>

settimeofday ==
    /\ offset' \in Offsets \ {offset} /\ set' = TRUE
    /\ UNCHANGED <<now, last_time, timer, select_end, remaining, exact>>

TimerNext == timer_wait \/ select_returns \/ settimeofday

Init == ThreadInit /\ TimerInit

Next ==
    \/ ThreadNext /\ UNCHANGED timerVars
    \/ TimerNext /\ UNCHANGED threadVars
    \/ Tick /\ UNCHANGED <<threadVars, timerVars>>

Spec == Init /\ [][Next]_vars

-----------------------------------------------------------------------------
\* main's loop keeps its beat: a cycle that took longer than the timeout sleeps
\* to the end of an interval that began at the last wakeup, never past the next
\* one; and when the wall clock is set back, as long as an int counts the
\* timeouts, main sleeps less than two and looks at done again.  Beyond that
\* many (2^31 of a tenth of a second) it sleeps what the clock was set back
\* further, and after a step forward it does not sleep at all.
TimerOnBeat ==
    timer = "sleep" =>
        /\ ~set => remaining <= Timeout
        /\ exact => remaining \in 1 .. 2 * Timeout - 1
        /\ exact /\ ~set => (select_end + offset - last_time) % Timeout = 0

=============================================================================
