--------------------------- MODULE CommandChannel ---------------------------
(***************************************************************************)
(* The command channel of ExampleTask: send_command of                     *)
(* ExampleTask/operate.cpp on the user side, taskCommandHandler of         *)
(* ExampleTask/funct_command.c once per cycle of the real-time thread, the *)
(* mutex of rtapi/rtapi_mutex.h between them, and the pause that a command *)
(* may ask of the very thread that executes commands.                      *)
(*                                                                         *)
(* The n-th command sent is the one that moves head to n; sent and         *)
(* executed are histories.                                                 *)
(***************************************************************************)
EXTENDS Integers, Sequences

CONSTANTS
    SentIds,    \* the commands the user side sends
    Data,       \* values of a command's parameter
    PllLimit,   \* pll_correction_limit: period / 100
    MaxSends,   \* bound: commands sent
    MaxTokens   \* bound: resume tokens posted and not taken

CommandIds == {"NONE", "SET_TARGET", "ENABLE", "DISABLE", "PAUSE", "RESUME", "SET_PLL", "SHUTDOWN"}

ASSUME SentIdsAssumption == SentIds \subseteq CommandIds
ASSUME DataAssumption == Data \subseteq Int /\ 0 \in Data
ASSUME PllLimitAssumption == PllLimit \in Nat
ASSUME MaxSendsAssumption == MaxSends \in Nat
ASSUME MaxTokensAssumption == MaxTokens \in Nat \ {0}

VARIABLES
    command_mutex,              \* bit 0: TRUE when taken
    head, tail,                 \* head # tail: a command is pending
    command_id, command_data,
    user,                       \* the user side: its step and the command it sends
    rt,                         \* the step of the real-time thread
    threads_running,
    enable_in, target_pos,      \* pins written by commands
    pll_correction,
    task_state, pause_sem, resume_sem,  \* of the thread's rtapi task
    sent,                       \* history: commands whose send_command returned or will return 0
    executed                    \* history: commands executed, each with its number

channel == <<command_mutex, head, tail, command_id, command_data>>
pins == <<enable_in, target_pos, pll_correction>>
task == <<task_state, pause_sem, resume_sem>>
vars == <<channel, user, rt, threads_running, pins, task, sent, executed>>

Command == [id : CommandIds, data : Data]

NoCommand == [id |-> "NONE", data |-> 0]

UserSteps == {"idle", "get", "id", "data", "head", "give"}

RtSteps == {"cycle", "locked", "consume", "give", "wait", "blocked"}

\* init_task_comm_buffers on a new segment, whose fields are zero: it sets only
\* command_id and command_data, so a segment that a killed process left behind
\* keeps its command_mutex, head and tail, which is not modelled.
\* hal_create_thread has started the thread, which idles until
\* hal_start_threads.
Init ==
    /\ command_mutex = FALSE
    /\ head = 0 /\ tail = 0
    /\ command_id = "NONE" /\ command_data = 0
    /\ user = [at |-> "idle", cmd |-> NoCommand]
    /\ rt = "wait"
    /\ threads_running = FALSE
    /\ enable_in = FALSE /\ target_pos = 0 /\ pll_correction = 0
    /\ task_state = "RUNNING" /\ pause_sem = 0 /\ resume_sem = 0
    /\ sent = <<>> /\ executed = <<>>

-----------------------------------------------------------------------------
(* The user side. *)

UserGoto(from, to) ==
    /\ user.at = from
    /\ user' = [user EXCEPT !.at = to]

start ==
    /\ user.at = "idle"
    /\ ~threads_running
    /\ threads_running' = TRUE
    /\ UNCHANGED <<channel, user, rt, pins, task, sent, executed>>

stop ==
    /\ user.at = "idle"
    /\ threads_running
    /\ threads_running' = FALSE
    /\ UNCHANGED <<channel, user, rt, pins, task, sent, executed>>

send_command(cmd) ==
    /\ user.at = "idle"
    /\ Len(sent) < MaxSends
    /\ user' = [at |-> "get", cmd |-> cmd]
    /\ UNCHANGED <<channel, rt, threads_running, pins, task, sent, executed>>

\* Variant: the mutex is not waited for.
send_command_unlocked ==
    /\ UserGoto("get", "id")
    /\ command_mutex' = TRUE
    /\ UNCHANGED <<head, tail, command_id, command_data, rt, threads_running, pins, task, sent, executed>>

\* rtapi_mutex_get spins until it is the one to set the bit.
send_command_get ==
    /\ UserGoto("get", "id")
    /\ ~command_mutex
    /\ command_mutex' = TRUE
    /\ UNCHANGED <<head, tail, command_id, command_data, rt, threads_running, pins, task, sent, executed>>

send_command_id ==
    /\ UserGoto("id", "data")
    /\ command_id' = user.cmd.id
    /\ UNCHANGED <<command_mutex, head, tail, command_data, rt, threads_running, pins, task, sent, executed>>

send_command_data ==
    /\ UserGoto("data", "head")
    /\ command_data' = user.cmd.data
    /\ UNCHANGED <<command_mutex, head, tail, command_id, rt, threads_running, pins, task, sent, executed>>

send_command_head ==
    /\ UserGoto("head", "give")
    /\ head' = head + 1
    /\ sent' = Append(sent, user.cmd)
    /\ UNCHANGED <<command_mutex, tail, command_id, command_data, rt, threads_running, pins, task, executed>>

\* Variant: the mutex is kept.
send_command_keeps_mutex ==
    /\ user.at = "give"
    /\ user' = [at |-> "idle", cmd |-> NoCommand]
    /\ UNCHANGED <<channel, rt, threads_running, pins, task, sent, executed>>

send_command_give ==
    /\ user.at = "give"
    /\ user' = [at |-> "idle", cmd |-> NoCommand]
    /\ command_mutex' = FALSE
    /\ UNCHANGED <<head, tail, command_id, command_data, rt, threads_running, pins, task, sent, executed>>

\* rtapi_task_resume called by another thread of the process; the program has
\* no such call, a user of the interface may.
control_resume ==
    /\ task_state = "PAUSED"
    /\ resume_sem < MaxTokens
    /\ resume_sem' = resume_sem + 1
    /\ UNCHANGED <<channel, user, rt, threads_running, pins, task_state, pause_sem, sent, executed>>

-----------------------------------------------------------------------------
(* The real-time thread. *)

RtGoto(from, to) == rt = from /\ rt' = to

\* Variant: the handler waits for the mutex as the user side does.
handler_get ==
    /\ RtGoto("cycle", "locked")
    /\ ~command_mutex
    /\ command_mutex' = TRUE
    /\ UNCHANGED <<head, tail, command_id, command_data, user, threads_running, pins, task, sent, executed>>

\* rtapi_mutex_try: a taken mutex ends the handler for this cycle.
handler_try ==
    /\ rt = "cycle"
    /\ rt' = IF command_mutex THEN "wait" ELSE "locked"
    /\ command_mutex' = TRUE
    /\ UNCHANGED <<head, tail, command_id, command_data, user, threads_running, pins, task, sent, executed>>

handler_none_pending ==
    /\ RtGoto("locked", "give")
    /\ head = tail
    /\ UNCHANGED <<channel, user, threads_running, pins, task, sent, executed>>

\* task_pll_set_correction limits the correction.
Limited(value) ==
    IF value > PllLimit THEN PllLimit ELSE IF value < -PllLimit THEN -PllLimit ELSE value

\* What a command does: SHUTDOWN and NONE only report.
Effect(id, data) ==
    /\ target_pos' = IF id = "SET_TARGET" THEN data ELSE target_pos
    /\ enable_in' = IF id = "ENABLE" THEN TRUE ELSE IF id = "DISABLE" THEN FALSE ELSE enable_in
    /\ pll_correction' = IF id = "SET_PLL" THEN Limited(data) ELSE pll_correction
    \* rtapi_task_pause and rtapi_task_resume on the thread's own task
    /\ LET pause == id = "PAUSE" /\ task_state = "RUNNING"
           resume == id = "RESUME" /\ task_state = "PAUSED"
       IN  /\ task_state' = IF pause THEN "PAUSED" ELSE task_state
           /\ pause_sem' = IF pause THEN pause_sem + 1 ELSE pause_sem
           /\ resume_sem' = IF resume THEN resume_sem + 1 ELSE resume_sem

handler_execute ==
    /\ RtGoto("locked", "consume")
    /\ head # tail
    /\ Effect(command_id, command_data)
    /\ executed' = Append(executed, [n |-> head, cmd |-> [id |-> command_id, data |-> command_data]])
    /\ UNCHANGED <<channel, user, threads_running, sent>>

\* Variant: the command is left pending.
handler_consume_nothing ==
    /\ RtGoto("consume", "give")
    /\ UNCHANGED <<channel, user, threads_running, pins, task, sent, executed>>

handler_consume ==
    /\ RtGoto("consume", "give")
    /\ tail' = head
    /\ UNCHANGED <<command_mutex, head, command_id, command_data, user, threads_running, pins, task, sent, executed>>

handler_give ==
    /\ RtGoto("give", "wait")
    /\ command_mutex' = FALSE
    /\ UNCHANGED <<head, tail, command_id, command_data, user, threads_running, pins, task, sent, executed>>

\* Posix::wait: a pause request is taken here, otherwise the period passes;
\* thread_task runs its functions only while threads_running is set.
wait_period ==
    /\ RtGoto("wait", IF threads_running THEN "cycle" ELSE "wait")
    /\ pause_sem = 0
    /\ UNCHANGED <<channel, user, threads_running, pins, task, sent, executed>>

wait_pause ==
    /\ RtGoto("wait", "blocked")
    /\ pause_sem > 0
    /\ pause_sem' = pause_sem - 1
    /\ UNCHANGED <<channel, user, threads_running, pins, task_state, resume_sem, sent, executed>>

wait_resume ==
    /\ RtGoto("blocked", "wait")
    /\ resume_sem > 0
    /\ resume_sem' = resume_sem - 1
    /\ task_state' = "RUNNING"
    /\ UNCHANGED <<channel, user, threads_running, pins, pause_sem, sent, executed>>

-----------------------------------------------------------------------------
Send == \E cmd \in [id : SentIds, data : Data] : send_command(cmd)

Sending == \/ send_command_get
           \/ send_command_id
           \/ send_command_data
           \/ send_command_head
           \/ send_command_give

RealTime == \/ handler_try
            \/ handler_none_pending
            \/ handler_execute
            \/ handler_consume
            \/ handler_give
            \/ wait_period
            \/ wait_pause
            \/ wait_resume

Next == start \/ stop \/ Send \/ Sending \/ control_resume \/ RealTime

(***************************************************************************)
(* Fairness: the thread runs once a period as long as it is not blocked.   *)
(* Nothing is assumed of the user side, which may be preempted for ever    *)
(* with the mutex in its hands.                                            *)
(***************************************************************************)
Spec == Init /\ [][Next]_vars /\ WF_vars(RealTime)

-----------------------------------------------------------------------------
\* The channel, the pins and the task stay in their types, whatever command is
\* sent: the PLL correction in particular within its limit.
TypeOK ==
    /\ command_mutex \in BOOLEAN
    /\ head \in Nat /\ tail \in Nat
    /\ command_id \in CommandIds /\ command_data \in Data
    /\ user \in [at : UserSteps, cmd : Command]
    /\ rt \in RtSteps
    /\ threads_running \in BOOLEAN
    /\ enable_in \in BOOLEAN /\ target_pos \in Data
    /\ pll_correction \in -PllLimit .. PllLimit
    /\ task_state \in {"RUNNING", "PAUSED"} /\ pause_sem \in Nat /\ resume_sem \in Nat
    /\ sent \in Seq(Command)
    /\ executed \in Seq([n : Nat, cmd : Command])

UserHolds == user.at \in {"id", "data", "head", "give"}

RtHolds == rt \in {"locked", "consume", "give"}

\* One side at a time is inside, and the bit says whether one is.
ChannelExclusive ==
    /\ ~(UserHolds /\ RtHolds)
    /\ command_mutex <=> (UserHolds \/ RtHolds)

\* What is executed is a command as it was sent, never the name of one with
\* the parameter of another, in the order sent and at most once.
ExecutedAsSent ==
    \A i \in 1 .. Len(executed) :
        /\ executed[i].n \in 1 .. Len(sent)
        /\ executed[i].cmd = sent[executed[i].n]
        /\ \A j \in 1 .. i - 1 : executed[j].n < executed[i].n

\* The newest command is never lost: when nothing is pending it was executed.
NewestIsExecuted ==
    (head = tail /\ head > 0) =>
        executed # <<>> /\ executed[Len(executed)].n = head

\* "the thread never blocks waiting for the user-space writer": each cycle
\* ends, even when the user side never gives the mutex back.
CycleCompletes == (rt = "cycle") ~> (rt = "wait")

\* Once the user side stays out of the mutex, a pending command is executed as
\* long as the threads run.  The condition is needed: rtapi_mutex_try may find
\* the mutex taken in every cycle of a sender that never stops, and what is
\* pending then waits with it.  A thread blocked by PAUSE executes nothing, a
\* pending RESUME included.
PendingIsExecuted ==
    <>[]~UserHolds =>
        ((head # tail) ~> (head = tail \/ rt = "blocked" \/ ~threads_running))

Nothing == [id |-> "nothing", data |-> 0]

box == IF head = tail \/ rt = "consume" THEN Nothing ELSE sent[head]

Box == INSTANCE Mailbox
         WITH Cmd <- Command,
              Nothing <- Nothing,
              put <- head,
              executed <- [i \in 1 .. Len(executed) |-> executed[i].cmd]

\* The channel is a mailbox for one command: the mutex and the two indices
\* make the four writes of send_command one and the handler's reads one, and
\* no command comes back into the box once it was taken.
IsMailbox == Box!Spec

=============================================================================
