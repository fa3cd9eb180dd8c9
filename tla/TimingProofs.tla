---------------------------- MODULE TimingProofs ----------------------------
(***************************************************************************)
(* Proofs about ThreadClock and CycleTimer for a second, a period and a    *)
(* timeout of any length, any corrections and any delays: the timespec     *)
(* arithmetic is exact, no cycle begins early, the schedule does not       *)
(* drift, and the timer of the main loop keeps its beat.                   *)
(***************************************************************************)
EXTENDS CycleTimer, TLAPS

-----------------------------------------------------------------------------
(* Products and quotients. *)

LEMMA Distribute ==
    ASSUME NEW a \in Int, NEW b \in Int, NEW c \in Int
    PROVE  (a + b) * c = a * c + b * c /\ (a - b) * c = a * c - b * c /\ a * c \in Int
OBVIOUS

LEMMA ProductMonotone ==
    ASSUME NEW a \in Int, NEW b \in Int, NEW c \in Nat, a <= b
    PROVE  a * c <= b * c
OBVIOUS

LEMMA DivMod ==
    ASSUME NEW n \in Int, NEW d \in Nat \ {0}
    PROVE  /\ n \div d \in Int /\ n % d \in 0 .. d - 1
           /\ n = (n \div d) * d + (n % d)
OBVIOUS

LEMMA MultipleMod ==
    ASSUME NEW q \in Int, NEW d \in Nat \ {0}
    PROVE  (q * d) % d = 0
<1> DEFINE n == q * d
<1>1. n \in Int OBVIOUS
<1>2. /\ n \div d \in Int /\ n % d \in 0 .. d - 1 /\ n = (n \div d) * d + (n % d)
  BY <1>1, DivMod
<1>3. (q - (n \div d)) * d = n % d
  BY <1>2, Distribute
<1>4. CASE q - (n \div d) >= 1
  <2>1. 1 * d <= (q - (n \div d)) * d BY <1>2, <1>4, ProductMonotone
  <2>2. QED BY <1>2, <1>3, <2>1
<1>5. CASE q - (n \div d) <= -1
  <2>1. (q - (n \div d)) * d <= (-1) * d BY <1>2, <1>5, ProductMonotone
  <2>2. QED BY <1>2, <1>3, <2>1
<1>6. CASE q - (n \div d) = 0
  BY <1>2, <1>3, <1>6
<1>7. QED BY <1>2, <1>4, <1>5, <1>6

-----------------------------------------------------------------------------
(* Timespecs. *)

Proper == [tv_sec : Int, tv_nsec : 0 .. OneSec - 1]

LEMMA ConstantFacts ==
    /\ OneSec \in Nat \ {0} /\ Period \in Nat \ {0} /\ LimitDiv \in Nat \ {0}
    /\ Timeout \in Nat \ {0} /\ Requests \subseteq Int /\ Offsets \subseteq Nat
BY ClockAssumption, TimerAssumption

LEMMA NsType ==
    ASSUME NEW t \in Proper
    PROVE  /\ t.tv_sec \in Int /\ t.tv_nsec \in Int /\ 0 <= t.tv_nsec /\ t.tv_nsec < OneSec
           /\ Ns(t) \in Int
BY ConstantFacts, Distribute DEF Proper, Ns

LEMMA TimespecExact ==
    ASSUME NEW n \in Int
    PROVE  Timespec(n) \in Proper /\ Ns(Timespec(n)) = n
BY ConstantFacts, DivMod DEF Timespec, Proper, Ns

\* The carry of rtapi_timespec_advance is right at every phase of the second.
LEMMA AdvanceExact ==
    ASSUME NEW t \in Proper, NEW n \in Nat
    PROVE  /\ rtapi_timespec_advance(t, n) \in Proper
           /\ Ns(rtapi_timespec_advance(t, n)) = Ns(t) + n
<1> DEFINE q == n \div OneSec
           r == n % OneSec
           sum == r + t.tv_nsec
           carry == IF sum >= OneSec THEN 1 ELSE 0
<1>0. OneSec \in Nat \ {0} BY ConstantFacts
<1>1. q \in Int /\ r \in 0 .. OneSec - 1 /\ n = q * OneSec + r BY <1>0, DivMod
<1>2. t.tv_sec \in Int /\ t.tv_nsec \in Int /\ 0 <= t.tv_nsec /\ t.tv_nsec < OneSec BY NsType
<1>3. carry \in {0, 1} /\ sum - carry * OneSec \in 0 .. OneSec - 1 BY <1>0, <1>1, <1>2
<1>4. rtapi_timespec_advance(t, n)
        = [tv_sec |-> t.tv_sec + q + carry, tv_nsec |-> sum - carry * OneSec]
  BY DEF rtapi_timespec_advance
<1>5. (t.tv_sec + q + carry) * OneSec = t.tv_sec * OneSec + q * OneSec + carry * OneSec
  BY <1>0, <1>1, <1>2, <1>3
<1>6. rtapi_timespec_advance(t, n) \in Proper
  BY <1>1, <1>2, <1>3, <1>4 DEF Proper
<1>7. Ns(rtapi_timespec_advance(t, n))
        = (t.tv_sec * OneSec + q * OneSec + carry * OneSec) + (sum - carry * OneSec)
  BY <1>4, <1>5 DEF Ns
<1>8. /\ t.tv_sec * OneSec \in Int /\ q * OneSec \in Int /\ carry * OneSec \in Int
      /\ sum \in Int
  BY <1>0, <1>1, <1>2, <1>3
<1>9. Ns(rtapi_timespec_advance(t, n)) = t.tv_sec * OneSec + q * OneSec + sum
  BY <1>7, <1>8
<1>10. QED BY <1>1, <1>2, <1>6, <1>8, <1>9 DEF Ns

\* The borrow of timespecsub likewise.
LEMMA SubtractExact ==
    ASSUME NEW t \in Proper, NEW u \in Proper
    PROVE  Ns(timespecsub(t, u)) = Ns(t) - Ns(u)
<1> DEFINE diff == t.tv_nsec - u.tv_nsec
           borrow == IF diff < 0 THEN 1 ELSE 0
<1>0. OneSec \in Nat \ {0} BY ConstantFacts
<1>1. /\ t.tv_sec \in Int /\ t.tv_nsec \in Int /\ u.tv_sec \in Int /\ u.tv_nsec \in Int
      /\ borrow \in {0, 1}
  BY NsType
<1>2. timespecsub(t, u)
        = [tv_sec |-> t.tv_sec - u.tv_sec - borrow, tv_nsec |-> diff + borrow * OneSec]
  BY DEF timespecsub
<1>3. (t.tv_sec - u.tv_sec - borrow) * OneSec
        = t.tv_sec * OneSec - u.tv_sec * OneSec - borrow * OneSec
  BY <1>0, <1>1
<1>4. QED BY <1>0, <1>1, <1>2, <1>3 DEF Ns

\* rtapi_timespec_less compares times, not only fields.
LEMMA LessExact ==
    ASSUME NEW t \in Proper, NEW u \in Proper
    PROVE  rtapi_timespec_less(t, u) <=> Ns(t) < Ns(u)
<1>0. OneSec \in Nat \ {0} BY ConstantFacts
<1>1. /\ t.tv_sec \in Int /\ t.tv_nsec \in Int /\ 0 <= t.tv_nsec /\ t.tv_nsec < OneSec
      /\ u.tv_sec \in Int /\ u.tv_nsec \in Int /\ 0 <= u.tv_nsec /\ u.tv_nsec < OneSec
  BY NsType
<1>2. CASE t.tv_sec < u.tv_sec
  <2>1. (t.tv_sec + 1) * OneSec <= u.tv_sec * OneSec BY <1>0, <1>1, <1>2, ProductMonotone
  <2>2. (t.tv_sec + 1) * OneSec = t.tv_sec * OneSec + OneSec BY <1>0, <1>1
  <2>3. QED BY <1>0, <1>1, <1>2, <2>1, <2>2 DEF rtapi_timespec_less, Ns
<1>3. CASE u.tv_sec < t.tv_sec
  <2>1. (u.tv_sec + 1) * OneSec <= t.tv_sec * OneSec BY <1>0, <1>1, <1>3, ProductMonotone
  <2>2. (u.tv_sec + 1) * OneSec = u.tv_sec * OneSec + OneSec BY <1>0, <1>1
  <2>3. QED BY <1>0, <1>1, <1>3, <2>1, <2>2 DEF rtapi_timespec_less, Ns
<1>4. CASE t.tv_sec = u.tv_sec
  BY <1>0, <1>1, <1>4 DEF rtapi_timespec_less, Ns
<1>5. QED BY <1>1, <1>2, <1>3, <1>4

LEMMA LimitFacts ==
    /\ pll_correction_limit \in Nat
    /\ pll_correction_limit <= Period
<1> DEFINE q == Period \div LimitDiv
<1>1. /\ q \in Int /\ Period % LimitDiv \in 0 .. LimitDiv - 1
      /\ Period = q * LimitDiv + (Period % LimitDiv)
  BY ConstantFacts, DivMod
<1>2. LimitDiv \in Nat /\ LimitDiv >= 1 /\ Period \in Nat BY ConstantFacts
<1>3. q >= 0
  <2>1. SUFFICES ASSUME q <= -1 PROVE FALSE BY <1>1
  <2>2. q * LimitDiv <= (-1) * LimitDiv BY <1>1, <1>2, <2>1, ProductMonotone
  <2>3. QED BY <1>1, <1>2, <2>2
<1>4. q <= q * LimitDiv
  <2>1. 1 * q <= LimitDiv * q BY <1>1, <1>2, <1>3, ProductMonotone
  <2>2. QED BY <1>1, <1>2, <2>1
<1>5. QED BY <1>1, <1>2, <1>3, <1>4 DEF pll_correction_limit
-----------------------------------------------------------------------------
(* The schedule of a real-time thread. *)

ThreadTypeOK ==
    /\ now \in Int /\ nextstart \in Proper /\ start \in Int
    /\ pll_correction \in -pll_correction_limit .. pll_correction_limit
    /\ thread \in {"code", "sleep"} /\ wake \in Int /\ waits \in Nat

\* A thread that sleeps was sent to sleep until its next start: the relative
\* time leads to where the absolute one did.
SleepsUntilStart == thread = "sleep" => wake = Ns(nextstart)

ThreadInv == ThreadTypeOK /\ SleepsUntilStart /\ NeverEarly /\ ScheduleHeld

Drift == Ns(nextstart) - (start + (waits + 1) * Period)

LEMMA DriftType ==
    ASSUME ThreadTypeOK
    PROVE  /\ Drift \in Int /\ waits * pll_correction_limit \in Int
           /\ pll_correction_limit \in Int /\ Period \in Int
<1>1. (waits + 1) * Period \in Int /\ waits * pll_correction_limit \in Int
  BY ConstantFacts, LimitFacts, Distribute DEF ThreadTypeOK
<1>2. QED BY <1>1, ConstantFacts, LimitFacts, NsType DEF ThreadTypeOK, Drift

LEMMA ScheduleHeldIff ==
    ASSUME ThreadTypeOK
    PROVE  ScheduleHeld <=> /\ -(waits * pll_correction_limit) <= Drift
                            /\ Drift <= waits * pll_correction_limit
<1>1. nextstart.tv_nsec \in 0 .. OneSec - 1 BY DEF ThreadTypeOK, Proper
<1>2. ScheduleHeld <=> Drift \in -(waits * pll_correction_limit) .. waits * pll_correction_limit
  BY <1>1 DEF ScheduleHeld, Drift
<1>3. QED BY <1>2, DriftType

LEMMA InitThreadInv == ThreadInit => ThreadInv
<1> SUFFICES ASSUME ThreadInit PROVE ThreadInv
    OBVIOUS
<1>0. now \in Int /\ Period \in Nat BY ConstantFacts DEF ThreadInit
<1>1. nextstart \in Proper /\ Ns(nextstart) = now + Period
  BY <1>0, TimespecExact, AdvanceExact DEF ThreadInit
<1>2. ThreadTypeOK
  <2>1. 0 \in -pll_correction_limit .. pll_correction_limit BY LimitFacts
  <2>2. QED BY <1>0, <1>1, <2>1 DEF ThreadInit, ThreadTypeOK
<1>3. Drift = 0 /\ waits * pll_correction_limit = 0
  BY <1>0, <1>1, LimitFacts DEF ThreadInit, Drift
<1>4. ScheduleHeld BY <1>2, <1>3, ScheduleHeldIff
<1>5. SleepsUntilStart /\ NeverEarly BY DEF ThreadInit, SleepsUntilStart, NeverEarly
<1>6. QED BY <1>2, <1>4, <1>5 DEF ThreadInv

\* What wait does to the times, whether or not it has to sleep.
LEMMA WaitTimes ==
    ASSUME ThreadInv, wait
    PROVE  /\ nextstart' \in Proper
           /\ Ns(nextstart') = Ns(nextstart) + Period + pll_correction
           /\ \/ thread' = "code" /\ wake' = wake /\ Ns(nextstart') < now
              \/ thread' = "sleep" /\ wake' = Ns(nextstart')
<1> DEFINE next == rtapi_timespec_advance(nextstart, Period + pll_correction)
           request == timespecsub(next, Timespec(now))
<1>1. /\ nextstart \in Proper /\ now \in Int /\ Period \in Int /\ pll_correction \in Int
      /\ -Period <= pll_correction /\ wake \in Int
  BY ConstantFacts, LimitFacts DEF ThreadInv, ThreadTypeOK
<1>2. Period + pll_correction \in Nat BY <1>1
<1>3. next \in Proper /\ Ns(next) = Ns(nextstart) + (Period + pll_correction)
  BY <1>1, <1>2, AdvanceExact
<1>4. Ns(nextstart) \in Int /\ Ns(next) \in Int BY <1>1, <1>3, NsType
<1>5. Timespec(now) \in Proper /\ Ns(Timespec(now)) = now BY <1>1, TimespecExact
<1>6. Ns(request) = Ns(next) - now BY <1>3, <1>5, SubtractExact
<1>7. nextstart' = next BY DEF wait
<1>8. CASE rtapi_timespec_less(next, Timespec(now))
  <2>1. thread' = thread /\ wake' = wake /\ thread = "code" BY <1>8 DEF wait
  <2>2. Ns(next) < now BY <1>3, <1>5, <1>8, LessExact
  <2>3. QED BY <1>1, <1>3, <1>4, <1>7, <2>1, <2>2
<1>9. CASE ~rtapi_timespec_less(next, Timespec(now))
  <2>1. thread' = "sleep" /\ wake' = now + Ns(request) BY <1>9 DEF wait
  <2>2. wake' = Ns(next) BY <1>1, <1>4, <1>6, <2>1
  <2>3. QED BY <1>1, <1>3, <1>4, <1>7, <2>1, <2>2
<1>10. QED BY <1>8, <1>9

LEMMA WaitThreadInv ==
    ASSUME ThreadInv, wait
    PROVE  ThreadInv'
<1> USE WaitTimes
<1>1. /\ ThreadTypeOK /\ waits \in Nat /\ waits' = waits + 1 /\ start' = start
      /\ pll_correction' = pll_correction /\ now' = now /\ now \in Int
      /\ Ns(nextstart') \in Int
  BY NsType DEF ThreadInv, ThreadTypeOK, wait
<1>2. ThreadTypeOK' BY <1>1 DEF ThreadTypeOK
<1>3. SleepsUntilStart' BY DEF SleepsUntilStart
<1>4. NeverEarly' BY <1>1 DEF NeverEarly
<1>5. ScheduleHeld'
  <2> DEFINE limit == pll_correction_limit
  <2>1. /\ limit \in Nat /\ Period \in Nat /\ start \in Int
        /\ pll_correction \in Int /\ -limit <= pll_correction /\ pll_correction <= limit
        /\ Ns(nextstart) \in Int
    BY ConstantFacts, LimitFacts, NsType, <1>1 DEF ThreadTypeOK
  <2>2. /\ (waits + 1) * limit = waits * limit + limit /\ waits * limit \in Int
        /\ (waits + 1 + 1) * Period = (waits + 1) * Period + Period /\ (waits + 1) * Period \in Int
    BY <1>1, <2>1
  <2>3. Drift' = Ns(nextstart') - (start + (waits + 1 + 1) * Period) BY <1>1 DEF Drift
  <2>4. Drift' = Drift + pll_correction
    BY <2>1, <2>2, <2>3 DEF Drift
  <2>5. -(waits * limit) <= Drift /\ Drift <= waits * limit /\ Drift \in Int
    BY <1>1, ScheduleHeldIff, DriftType DEF ThreadInv
  <2>6. -((waits + 1) * limit) <= Drift' /\ Drift' <= (waits + 1) * limit
    BY <2>1, <2>2, <2>4, <2>5
  <2>7. nextstart'.tv_nsec \in 0 .. OneSec - 1 BY DEF Proper
  <2>8. Drift' \in -((waits + 1) * limit) .. (waits + 1) * limit
    BY <2>1, <2>2, <2>4, <2>5, <2>6
  <2>9. QED BY <1>1, <2>7, <2>8 DEF ScheduleHeld, Drift
<1>6. QED BY <1>2, <1>3, <1>4, <1>5 DEF ThreadInv

LEMMA NextThreadInv == ThreadInv /\ [Next]_vars => ThreadInv'
<1> SUFFICES ASSUME ThreadInv, [Next]_vars PROVE ThreadInv'
    OBVIOUS
<1>0. now \in Int /\ Ns(nextstart) \in Int BY NsType DEF ThreadInv, ThreadTypeOK
<1> USE DEF ThreadInv, ThreadTypeOK, SleepsUntilStart, NeverEarly, ScheduleHeld
<1>1. ASSUME NEW value \in Requests, task_pll_set_correction(value) PROVE ThreadInv'
  <2>1. pll_correction' \in -pll_correction_limit .. pll_correction_limit
    BY <1>1, ConstantFacts, LimitFacts DEF task_pll_set_correction
  <2>2. UNCHANGED <<now, nextstart, thread, wake, start, waits, interrupted>>
    BY <1>1 DEF task_pll_set_correction
  <2>3. QED BY <2>1, <2>2
<1>2. CASE wait BY <1>2, WaitThreadInv
<1>3. CASE nanosleep_returns
  BY <1>0, <1>3 DEF nanosleep_returns
<1>4. CASE nanosleep_interrupted
  BY <1>4 DEF nanosleep_interrupted
<1>5. CASE TimerNext /\ UNCHANGED threadVars
  <2>1. UNCHANGED now BY <1>5 DEF TimerNext, timer_wait, select_returns, settimeofday
  <2>2. QED BY <1>5, <2>1 DEF threadVars
<1>6. CASE Tick /\ UNCHANGED <<threadVars, timerVars>>
  BY <1>0, <1>6 DEF Tick, threadVars
<1>7. CASE UNCHANGED vars
  BY <1>7 DEF vars, threadVars
<1>8. QED BY <1>1, <1>2, <1>3, <1>4, <1>5, <1>6, <1>7 DEF Next, ThreadNext

LEMMA ThreadInvariant == Spec => []ThreadInv
<1>1. Init => ThreadInv BY InitThreadInv DEF Init
<1>2. QED BY <1>1, NextThreadInv, PTL DEF Spec

\* Posix::wait never lets a cycle begin before its time, although it turns the
\* absolute time into a relative one in timespec arithmetic.
THEOREM CyclesNeverEarly == Spec => []NeverEarly
<1>1. ThreadInv => NeverEarly BY DEF ThreadInv
<1>2. QED BY <1>1, ThreadInvariant, PTL

\* The schedule of Posix::wait stays within the PLL's limit per cycle of an
\* exact one, however late cycles are.
THEOREM ScheduleNeverDrifts == Spec => []ScheduleHeld
<1>1. ThreadInv => ScheduleHeld BY DEF ThreadInv
<1>2. QED BY <1>1, ThreadInvariant, PTL

-----------------------------------------------------------------------------
(* The timer of the main loop. *)

TimerTypeOK ==
    /\ now \in Int /\ offset \in Int /\ last_time \in Int
    /\ timer \in {"loop", "sleep"} /\ select_end \in Int /\ remaining \in Int

\* Only somebody who sets the wall clock can make it earlier than the last
\* wakeup.
ClockForward == ~set => last_time <= etime

TimerInv == TimerTypeOK /\ ClockForward /\ TimerOnBeat

\* What is left of an interval whose cycles are counted exactly: up to a
\* timeout, to a whole number of timeouts; up to two when the clock was set back.
LEMMA RemainingFacts ==
    ASSUME NEW i \in Int
    PROVE  /\ Cycles(i) \in Int
           /\ Remaining(i, Cycles(i)) \in 1 .. 2 * Timeout - 1
           /\ i >= 0 => /\ Cycles(i) >= 0
                        /\ Remaining(i, Cycles(i)) <= Timeout
                        /\ (i + Remaining(i, Cycles(i))) % Timeout = 0
<1>0. Timeout \in Nat \ {0} BY ConstantFacts
<1>1. CASE i >= 0
  <2> DEFINE q == i \div Timeout
             r == Timeout - (i - q * Timeout)
  <2>1. q \in Int /\ i % Timeout \in 0 .. Timeout - 1 /\ i = q * Timeout + (i % Timeout)
    BY <1>0, DivMod
  <2>2. q * Timeout \in Int /\ (q + 1) * Timeout = q * Timeout + Timeout
    BY <1>0, <2>1
  <2>3. Cycles(i) = q /\ Remaining(i, Cycles(i)) = r BY <1>1 DEF Remaining, Cycles
  <2>4. r = Timeout - (i % Timeout) BY <1>0, <2>1, <2>2
  <2>5. r \in 1 .. Timeout BY <1>0, <2>1, <2>4
  <2>6. i + r = (q + 1) * Timeout BY <1>0, <2>1, <2>2, <2>4
  <2>7. (i + r) % Timeout = 0
    <3>1. q + 1 \in Int BY <2>1
    <3>2. ((q + 1) * Timeout) % Timeout = 0 BY <1>0, <3>1, MultipleMod
    <3>3. QED BY <2>6, <3>2
  <2>8. q >= 0
    <3>1. CASE q <= -1
      <4>1. q * Timeout <= (-1) * Timeout BY <1>0, <2>1, <3>1, ProductMonotone
      <4>2. QED BY <1>0, <1>1, <2>1, <2>2, <4>1
    <3>2. QED BY <2>1, <3>1
  <2>9. 1 .. Timeout \subseteq 1 .. 2 * Timeout - 1 BY <1>0
  <2> HIDE DEF q, r
  <2>10. QED BY <2>1, <2>3, <2>5, <2>7, <2>8, <2>9
<1>2. CASE i < 0
  <2>0. PICK j \in Int : j = -i OBVIOUS
  <2> DEFINE q == j \div Timeout
  <2>1. q \in Int /\ j % Timeout \in 0 .. Timeout - 1 /\ j = q * Timeout + (j % Timeout)
    BY <1>0, <2>0, DivMod
  <2>2. q * Timeout \in Int /\ (-q) * Timeout = -(q * Timeout) BY <1>0, <2>1
  <2>3. /\ Cycles(i) = -q
        /\ Remaining(i, Cycles(i)) = Timeout - (i - (-q) * Timeout)
    BY <1>2, <2>0 DEF Remaining, Cycles
  <2>4. Remaining(i, Cycles(i)) = Timeout + (j % Timeout) BY <1>0, <2>0, <2>1, <2>2, <2>3
  <2>5. QED BY <1>0, <1>2, <2>1, <2>3, <2>4
<1>3. QED BY <1>1, <1>2

\* A clock that was not set back leaves at most a timeout, whatever the
\* conversion to int makes of a number of cycles that does not fit.
LEMMA RemainingBound ==
    ASSUME NEW i \in Int, NEW n \in IntOf(Cycles(i))
    PROVE  n \in Int /\ Remaining(i, n) \in Int /\ (i >= 0 => Remaining(i, n) <= Timeout)
<1>0. Timeout \in Nat \ {0} /\ IntMax \in Nat BY ConstantFacts, TimerAssumption
<1>1. Cycles(i) \in Int /\ (i >= 0 => Cycles(i) >= 0) BY RemainingFacts
<1>2. n \in Int /\ (i >= 0 => n <= Cycles(i)) BY <1>0, <1>1 DEF IntOf
<1>3. n * Timeout \in Int /\ Cycles(i) * Timeout \in Int BY <1>0, <1>1, <1>2
<1>4. Remaining(i, n) = Timeout - (i - n * Timeout) BY DEF Remaining
<1>5. ASSUME i >= 0 PROVE Remaining(i, n) <= Timeout
  <2>1. n * Timeout <= Cycles(i) * Timeout BY <1>0, <1>1, <1>2, <1>5, ProductMonotone
  <2>2. Remaining(i, Cycles(i)) = Timeout - (i - Cycles(i) * Timeout) BY DEF Remaining
  <2>3. Remaining(i, Cycles(i)) <= Timeout BY <1>5, RemainingFacts
  <2>4. QED BY <1>0, <1>3, <1>4, <2>1, <2>2, <2>3
<1>6. QED BY <1>0, <1>2, <1>3, <1>4, <1>5

LEMMA NextTimerInv == TimerInv /\ [Next]_vars => TimerInv'
<1> SUFFICES ASSUME TimerInv, [Next]_vars PROVE TimerInv'
    OBVIOUS
<1> USE DEF TimerInv, TimerTypeOK, ClockForward, TimerOnBeat, etime
<1>1. CASE timer_wait
  <2> DEFINE i == etime - last_time
  <2>1. i \in Int /\ Timeout \in Nat \ {0} BY ConstantFacts
  <2>2. PICK n \in IntOf(Cycles(i)) :
            remaining' = Remaining(i, n) /\ exact' = (n = Cycles(i))
    BY <1>1 DEF timer_wait
  <2>3. /\ select_end' = IF remaining' > 0 THEN now + remaining' ELSE now
        /\ timer' = "sleep" /\ UNCHANGED <<now, offset, last_time, set>>
    BY <1>1 DEF timer_wait
  <2>4. remaining' \in Int /\ (i >= 0 => remaining' <= Timeout)
    BY <2>1, <2>2, RemainingBound
  <2>5. ~set => i >= 0 OBVIOUS
  <2>6. ASSUME exact'
        PROVE  /\ remaining' \in 1 .. 2 * Timeout - 1
               /\ ~set => (select_end' + offset' - last_time') % Timeout = 0
    <3>1. remaining' = Remaining(i, Cycles(i)) BY <2>2, <2>6
    <3>2. /\ remaining' \in 1 .. 2 * Timeout - 1
          /\ i >= 0 => (i + remaining') % Timeout = 0
      BY <2>1, <3>1, RemainingFacts
    <3>3. select_end' + offset' - last_time' = i + remaining' BY <2>1, <2>3, <3>2
    <3>4. QED BY <2>5, <3>2, <3>3
  <2>7. TimerOnBeat' BY <2>3, <2>4, <2>5, <2>6
  <2>8. TimerTypeOK' /\ ClockForward' BY <2>3, <2>4
  <2>9. QED BY <2>7, <2>8
<1>2. CASE select_returns
  <2>1. last_time' \in Int /\ last_time' = etime'
    BY <1>2 DEF select_returns
  <2>2. QED BY <1>2, <2>1 DEF select_returns
<1>3. CASE settimeofday
  <2>1. offset' \in Int BY <1>3, ConstantFacts DEF settimeofday
  <2>2. QED BY <1>3, <2>1 DEF settimeofday
<1>4. CASE Tick /\ UNCHANGED <<threadVars, timerVars>> BY <1>4 DEF Tick, timerVars
<1>5. CASE ThreadNext /\ UNCHANGED timerVars
  <2>1. UNCHANGED now
    BY <1>5 DEF ThreadNext, task_pll_set_correction, wait, nanosleep_returns, nanosleep_interrupted
  <2>2. QED BY <1>5, <2>1 DEF timerVars
<1>6. CASE UNCHANGED vars BY <1>6 DEF vars, timerVars
<1>7. QED BY <1>1, <1>2, <1>3, <1>4, <1>5, <1>6 DEF Next, TimerNext

\* RCS_TIMER::wait sleeps to the end of an interval of the beat and never past
\* the next, and less than two intervals even when the clock was set back, as
\* long as an int counts the intervals; beyond, a clock that was not set still
\* makes it sleep an interval at most.
THEOREM TimerKeepsBeat == Spec => []TimerOnBeat
<1>1. Init => TimerInv
  <2> SUFFICES ASSUME Init PROVE TimerInv
      OBVIOUS
  <2>1. now \in Int /\ offset \in Int /\ etime \in Int
    BY ConstantFacts DEF Init, ThreadInit, TimerInit, etime
  <2>2. TimerTypeOK BY <2>1 DEF Init, TimerInit, TimerTypeOK
  <2>3. ClockForward /\ TimerOnBeat BY <2>1 DEF Init, TimerInit, ClockForward, TimerOnBeat
  <2>4. QED BY <2>2, <2>3 DEF TimerInv
<1>2. TimerInv => TimerOnBeat BY DEF TimerInv
<1>3. QED BY <1>1, <1>2, NextTimerInv, PTL DEF Spec

=============================================================================
