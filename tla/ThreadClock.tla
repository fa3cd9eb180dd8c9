----------------------------- MODULE ThreadClock ----------------------------
(***************************************************************************)
(* When a real-time thread runs: the schedule Posix::wrapper and           *)
(* Posix::wait of uspace_rtapi_app.cpp keep in timespecs, the PLL          *)
(* correction that shifts it, and the sleep until the next start.  The     *)
(* build does not define HAVE_CLOCK_NANOSLEEP, so rtapi_clock_nanosleep    *)
(* turns the absolute time into a relative one and calls nanosleep, which  *)
(* may return late, or early when a signal comes.                          *)
(*                                                                         *)
(* now is the monotonic clock in ns; a second has OneSec of them.  Time    *)
(* passes between any two steps.  (Pauses, cancellation and the thread     *)
(* lock are in RtTask.)                                                    *)
(***************************************************************************)
EXTENDS Integers

CONSTANTS
    OneSec,         \* ONE_SEC_IN_NS
    Period,         \* task->period
    LimitDiv,       \* 100: pll_correction_limit is period / 100
    Requests,       \* corrections a command asks for
    MaxNow,         \* bound: the clock
    MaxWaits        \* bound: calls of wait

ASSUME ClockAssumption ==
    /\ {OneSec, Period, LimitDiv, MaxNow, MaxWaits} \subseteq Nat \ {0}
    /\ Requests \subseteq Int

VARIABLES
    now,            \* CLOCK_MONOTONIC
    nextstart,      \* task->nextstart
    pll_correction, \* task->pll_correction
    thread,         \* "code": in task code; "sleep": in nanosleep
    wake,           \* when nanosleep has slept long enough
    start,          \* history: the time in wrapper
    waits,          \* history: calls of wait
    interrupted     \* history: the last sleep was cut short by a signal

threadVars == <<nextstart, pll_correction, thread, wake, start, waits, interrupted>>

Timespec(ns) == [tv_sec |-> ns \div OneSec, tv_nsec |-> ns % OneSec]

Ns(t) == t.tv_sec * OneSec + t.tv_nsec

\* Variant: the nanoseconds are added and not carried.
rtapi_timespec_advance_uncarried(src, nsec) ==
    [tv_sec |-> src.tv_sec + (nsec \div OneSec), tv_nsec |-> (nsec % OneSec) + src.tv_nsec]

rtapi_timespec_advance(src, nsec) ==
    LET sum == (nsec % OneSec) + src.tv_nsec
        carry == IF sum >= OneSec THEN 1 ELSE 0
    IN  [tv_sec |-> src.tv_sec + (nsec \div OneSec) + carry, tv_nsec |-> sum - carry * OneSec]

rtapi_timespec_less(ta, tb) ==
    \/ ta.tv_sec < tb.tv_sec
    \/ ta.tv_sec = tb.tv_sec /\ ta.tv_nsec < tb.tv_nsec

\* Variant: the second is borrowed and not added to the nanoseconds.
timespecsub_unadjusted(t, u) ==
    LET diff == t.tv_nsec - u.tv_nsec
        borrow == IF diff < 0 THEN 1 ELSE 0
    IN  [tv_sec |-> t.tv_sec - u.tv_sec - borrow, tv_nsec |-> diff]

\* timespecsub of rtapi_clock_nanosleep
timespecsub(t, u) ==
    LET diff == t.tv_nsec - u.tv_nsec
        borrow == IF diff < 0 THEN 1 ELSE 0
    IN  [tv_sec |-> t.tv_sec - u.tv_sec - borrow, tv_nsec |-> diff + borrow * OneSec]

pll_correction_limit == Period \div LimitDiv

\* wrapper starts the schedule one period ahead, at any phase of the second
ThreadInit ==
    /\ now \in 0 .. OneSec - 1 /\ start = now
    /\ nextstart = rtapi_timespec_advance(Timespec(now), Period)
    /\ pll_correction = 0 /\ thread = "code" /\ wake = 0
    /\ waits = 0 /\ interrupted = FALSE

\* by the SET_PLL command, in the thread
task_pll_set_correction(value) ==
    /\ thread = "code"
    /\ pll_correction' = IF value > pll_correction_limit THEN pll_correction_limit
                         ELSE IF value < -pll_correction_limit THEN -pll_correction_limit
                         ELSE value
    /\ UNCHANGED <<now, nextstart, thread, wake, start, waits, interrupted>>

\* The next start is the last one and a period, never the present and a
\* period; a thread that is late does not sleep.
wait ==
    LET next == rtapi_timespec_advance(nextstart, Period + pll_correction)
        request == timespecsub(next, Timespec(now))
    IN /\ thread = "code" /\ waits < MaxWaits
       /\ nextstart' = next
       /\ IF rtapi_timespec_less(next, Timespec(now))
          THEN UNCHANGED <<thread, wake>>
          ELSE thread' = "sleep" /\ wake' = now + Ns(request)
       /\ waits' = waits + 1 /\ interrupted' = FALSE
       /\ UNCHANGED <<now, pll_correction, start>>

\* nanosleep returns, at the end or early
nanosleep_returns ==
    /\ thread = "sleep" /\ now >= wake
    /\ thread' = "code" /\ wake' = 0
    /\ UNCHANGED <<now, nextstart, pll_correction, start, waits, interrupted>>

nanosleep_interrupted ==
    /\ thread = "sleep" /\ now < wake
    /\ thread' = "code" /\ wake' = 0 /\ interrupted' = TRUE
    /\ UNCHANGED <<now, nextstart, pll_correction, start, waits>>

ThreadNext ==
    \/ \E value \in Requests : task_pll_set_correction(value)
    \/ wait \/ nanosleep_returns \/ nanosleep_interrupted

\* Time passes.
Tick == now < MaxNow /\ now' = now + 1

-----------------------------------------------------------------------------
\* A cycle never begins before its time, whatever the phase of the second, the
\* corrections and the delays before it, unless a signal cut the sleep short:
\* turning the absolute time into a relative one loses nothing.
NeverEarly ==
    (thread = "code" /\ waits > 0 /\ ~interrupted) => now >= Ns(nextstart)

\* The schedule does not drift: late cycles, long pauses and interrupted sleeps
\* leave it alone, and each cycle moves it by a period and at most the limit of
\* the correction.  It is one period ahead of the calls of wait, and always a
\* proper timespec.
ScheduleHeld ==
    LET drift == Ns(nextstart) - (start + (waits + 1) * Period)
    IN /\ drift \in -(waits * pll_correction_limit) .. waits * pll_correction_limit
       /\ nextstart.tv_nsec \in 0 .. OneSec - 1

=============================================================================
