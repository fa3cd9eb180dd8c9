------------------------------- MODULE RtTask -------------------------------
(***************************************************************************)
(* The real-time tasks of rtapi/uspace_rtapi_app.cpp: the task table       *)
(* (allocate_task_id, task_new), the operations of the control thread      *)
(* (task_start, task_pause, task_resume, task_delete) and the loop of      *)
(* every task thread (wrapper, the task code, wait), interleaved at the    *)
(* accesses to the fields and semaphores they share.                       *)
(*                                                                         *)
(* state[t] is task->state; EMPTY stands for task_array[t] = 0 and INIT    *)
(* for TASK_MAGIC_INIT.                                                    *)
(***************************************************************************)
EXTENDS Integers

CONSTANTS
    MaxTasks,      \* MAX_TASKS
    SemMax,        \* SEM_VALUE_MAX: sem_post beyond it fails, and its result is ignored
    SelfTasks      \* tasks whose code executes CMD_PAUSE and CMD_RESUME, on themselves

ASSUME MaxTasksAssumption == MaxTasks \in Nat \ {0}
ASSUME SemMaxAssumption == SemMax \in Nat \ {0}
ASSUME SelfTasksAssumption == SelfTasks \subseteq 0 .. MaxTasks - 1

Tasks == 0 .. MaxTasks - 1

NoTask == MaxTasks

VARIABLES
    state,       \* [Tasks -> state of the slot and task object]
    pause_sem,   \* [Tasks -> value of the pause semaphore]
    resume_sem,  \* [Tasks -> value of the resume semaphore]
    cancel,      \* [Tasks -> pthread_cancel was called on the thread]
    thr,         \* [Tasks -> where the task's thread is]
    do_thread_lock,  \* fixed by the scheduling policy: TRUE for any other than SCHED_FIFO,
                     \* which makeApp never asks for
    lock,        \* owner of Posix::thread_lock, or NoTask
    ctl          \* control thread: the call it is in, its task and its next step

vars == <<state, pause_sem, resume_sem, cancel, thr, do_thread_lock, lock, ctl>>

TaskStates == {"EMPTY", "INIT", "ALLOCATED", "RUNNING", "PAUSED", "DELETED"}

ThreadSteps == {"none",       \* no pthread was created
                "wrapper",    \* created, before the task code
                "cycle",      \* running the task code
                "self_set", "self_post", "self_resume",  \* inside a call on its own task
                "cycle_end",  \* the one command of this cycle is done
                "testcancel", "trywait", "semwait", "woken", "sleep", "relock",
                "ended"}      \* cancelled, not yet joined

CtlSteps == {"idle", "publish", "create", "pause_set", "pause_post", "resume_post",
             "delete_post", "delete_cancel", "delete_join", "delete_free", "crashed"}

Idle == [at |-> "idle", id |-> NoTask]

At(step, t) == [at |-> step, id |-> t]

Init ==
    /\ state = [t \in Tasks |-> "EMPTY"]
    /\ pause_sem = [t \in Tasks |-> 0]
    /\ resume_sem = [t \in Tasks |-> 0]
    /\ cancel = [t \in Tasks |-> FALSE]
    /\ thr = [t \in Tasks |-> "none"]
    /\ do_thread_lock \in BOOLEAN
    /\ lock = NoTask
    /\ ctl = Idle

\* sem_post: the token is dropped when the semaphore is at its limit.
Posted(sem, t) == [sem EXCEPT ![t] = IF @ < SemMax THEN @ + 1 ELSE @]

-----------------------------------------------------------------------------
(* The control thread. *)

\* task_new: the first free slot is claimed by compare-and-swap ...
allocate_task_id ==
    /\ ctl = Idle
    /\ \E t \in Tasks :
         /\ state[t] = "EMPTY"
         /\ \A u \in 0 .. t - 1 : state[u] # "EMPTY"
         /\ state' = [state EXCEPT ![t] = "INIT"]
         /\ ctl' = At("publish", t)
    /\ UNCHANGED <<pause_sem, resume_sem, cancel, thr, do_thread_lock, lock>>

\* ... and then holds a new object with both semaphores at 0.
task_new(t) ==
    /\ ctl = At("publish", t)
    /\ state' = [state EXCEPT ![t] = "ALLOCATED"]
    /\ pause_sem' = [pause_sem EXCEPT ![t] = 0]
    /\ resume_sem' = [resume_sem EXCEPT ![t] = 0]
    /\ cancel' = [cancel EXCEPT ![t] = FALSE]
    /\ ctl' = Idle
    /\ UNCHANGED <<thr, do_thread_lock, lock>>

\* task_start: the state is RUNNING before the thread exists.  The failures of
\* pthread_attr_* before this point leave everything as it was.
task_start(t) ==
    /\ ctl = Idle
    /\ state[t] = "ALLOCATED"
    /\ state' = [state EXCEPT ![t] = "RUNNING"]
    /\ ctl' = At("create", t)
    /\ UNCHANGED <<pause_sem, resume_sem, cancel, thr, do_thread_lock, lock>>

task_start_created(t) ==
    /\ ctl = At("create", t)
    /\ thr' = [thr EXCEPT ![t] = "wrapper"]
    /\ ctl' = Idle
    /\ UNCHANGED <<state, pause_sem, resume_sem, cancel, do_thread_lock, lock>>

\* Variant: the state is not taken back.
task_start_failed_kept(t) ==
    /\ ctl = At("create", t)
    /\ ctl' = Idle
    /\ UNCHANGED <<state, pause_sem, resume_sem, cancel, thr, do_thread_lock, lock>>

\* pthread_create fails and the state is taken back.
task_start_failed(t) ==
    /\ ctl = At("create", t)
    /\ state' = [state EXCEPT ![t] = "ALLOCATED"]
    /\ ctl' = Idle
    /\ UNCHANGED <<pause_sem, resume_sem, cancel, thr, do_thread_lock, lock>>

\* Variant: the state gate is missing.
task_pause_ungated(t) ==
    /\ ctl = Idle
    /\ state[t] \in {"RUNNING", "PAUSED"}
    /\ ctl' = At("pause_set", t)
    /\ UNCHANGED <<state, pause_sem, resume_sem, cancel, thr, do_thread_lock, lock>>

\* task_pause: test, assignment and post are three accesses.
task_pause(t) ==
    /\ ctl = Idle
    /\ state[t] = "RUNNING"
    /\ ctl' = At("pause_set", t)
    /\ UNCHANGED <<state, pause_sem, resume_sem, cancel, thr, do_thread_lock, lock>>

task_pause_set(t) ==
    /\ ctl = At("pause_set", t)
    /\ state' = [state EXCEPT ![t] = "PAUSED"]
    /\ ctl' = At("pause_post", t)
    /\ UNCHANGED <<pause_sem, resume_sem, cancel, thr, do_thread_lock, lock>>

\* Variant: the wrong semaphore is posted.
task_pause_post_swapped(t) ==
    /\ ctl = At("pause_post", t)
    /\ resume_sem' = Posted(resume_sem, t)
    /\ ctl' = Idle
    /\ UNCHANGED <<state, pause_sem, cancel, thr, do_thread_lock, lock>>

task_pause_post(t) ==
    /\ ctl = At("pause_post", t)
    /\ pause_sem' = Posted(pause_sem, t)
    /\ ctl' = Idle
    /\ UNCHANGED <<state, resume_sem, cancel, thr, do_thread_lock, lock>>

\* task_resume: the state is left to the task thread.
task_resume(t) ==
    /\ ctl = Idle
    /\ state[t] = "PAUSED"
    /\ ctl' = At("resume_post", t)
    /\ UNCHANGED <<state, pause_sem, resume_sem, cancel, thr, do_thread_lock, lock>>

\* Variant: task_resume sets the state itself.
task_resume_post_sets_state(t) ==
    /\ ctl = At("resume_post", t)
    /\ state' = [state EXCEPT ![t] = "RUNNING"]
    /\ resume_sem' = Posted(resume_sem, t)
    /\ ctl' = Idle
    /\ UNCHANGED <<pause_sem, cancel, thr, do_thread_lock, lock>>

task_resume_post(t) ==
    /\ ctl = At("resume_post", t)
    /\ resume_sem' = Posted(resume_sem, t)
    /\ ctl' = Idle
    /\ UNCHANGED <<state, pause_sem, cancel, thr, do_thread_lock, lock>>

\* task_delete: a paused task is first woken.
task_delete(t) ==
    /\ ctl = Idle
    /\ state[t] \in {"ALLOCATED", "RUNNING", "PAUSED"}
    /\ ctl' = At(IF state[t] = "PAUSED" THEN "delete_post" ELSE "delete_cancel", t)
    /\ UNCHANGED <<state, pause_sem, resume_sem, cancel, thr, do_thread_lock, lock>>

task_delete_post(t) ==
    /\ ctl = At("delete_post", t)
    /\ resume_sem' = Posted(resume_sem, t)
    /\ ctl' = At("delete_cancel", t)
    /\ UNCHANGED <<state, pause_sem, cancel, thr, do_thread_lock, lock>>

task_delete_cancel(t) ==
    /\ ctl = At("delete_cancel", t)
    /\ thr[t] # "none"
    /\ cancel' = [cancel EXCEPT ![t] = TRUE]
    /\ ctl' = At("delete_join", t)
    /\ UNCHANGED <<state, pause_sem, resume_sem, thr, do_thread_lock, lock>>

\* pthread_cancel and pthread_join of a thread that was never created are
\* undefined: the libraries the code builds with either report ESRCH, and the
\* results are ignored ...
task_delete_no_thread(t) ==
    /\ ctl = At("delete_cancel", t)
    /\ thr[t] = "none"
    /\ state' = [state EXCEPT ![t] = "DELETED"]
    /\ ctl' = At("delete_free", t)
    /\ UNCHANGED <<pause_sem, resume_sem, cancel, thr, do_thread_lock, lock>>

\* ... or read through the null handle and end the process.
task_delete_crash(t) ==
    /\ ctl = At("delete_cancel", t)
    /\ thr[t] = "none"
    /\ ctl' = At("crashed", NoTask)
    /\ UNCHANGED <<state, pause_sem, resume_sem, cancel, thr, do_thread_lock, lock>>

\* Variant: the task is deleted without joining the thread.
task_delete_unjoined(t) ==
    /\ ctl = At("delete_join", t)
    /\ state' = [state EXCEPT ![t] = "DELETED"]
    /\ ctl' = At("delete_free", t)
    /\ UNCHANGED <<pause_sem, resume_sem, cancel, thr, do_thread_lock, lock>>

\* pthread_join returns, and the state says so.
task_delete_join(t) ==
    /\ ctl = At("delete_join", t)
    /\ thr[t] = "ended"
    /\ thr' = [thr EXCEPT ![t] = "none"]
    /\ state' = [state EXCEPT ![t] = "DELETED"]
    /\ ctl' = At("delete_free", t)
    /\ UNCHANGED <<pause_sem, resume_sem, cancel, do_thread_lock, lock>>

\* The slot is released and the object freed with its semaphores.
task_delete_free(t) ==
    /\ ctl = At("delete_free", t)
    /\ state' = [state EXCEPT ![t] = "EMPTY"]
    /\ pause_sem' = [pause_sem EXCEPT ![t] = 0]
    /\ resume_sem' = [resume_sem EXCEPT ![t] = 0]
    /\ cancel' = [cancel EXCEPT ![t] = FALSE]
    /\ ctl' = Idle
    /\ UNCHANGED <<thr, do_thread_lock, lock>>

CtlCall(t) == \/ task_start(t)
              \/ task_pause(t)
              \/ task_resume(t)
              \/ task_delete(t)

\* The steps that complete a call already begun.
CtlContinue(t) == \/ task_new(t)
                  \/ task_start_created(t)
                  \/ task_start_failed(t)
                  \/ task_pause_set(t)
                  \/ task_pause_post(t)
                  \/ task_resume_post(t)
                  \/ task_delete_post(t)
                  \/ task_delete_cancel(t)
                  \/ task_delete_no_thread(t)
                  \/ task_delete_crash(t)
                  \/ task_delete_join(t)
                  \/ task_delete_free(t)

-----------------------------------------------------------------------------
(* The task threads. *)

Alive == ctl.at # "crashed"

Goto(t, from, to) ==
    /\ Alive
    /\ thr[t] = from
    /\ thr' = [thr EXCEPT ![t] = to]

\* The thread lock is taken before the first cycle and after every sleep.
Acquire(t) ==
    IF do_thread_lock THEN lock = NoTask /\ lock' = t ELSE UNCHANGED lock

wrapper(t) ==
    /\ Goto(t, "wrapper", "cycle")
    /\ Acquire(t)
    /\ UNCHANGED <<state, pause_sem, resume_sem, cancel, do_thread_lock, ctl>>

\* A function of the task calls rtapi_task_pause on its own task; the command
\* handler executes at most one command per cycle.
self_pause(t) ==
    /\ t \in SelfTasks
    /\ Goto(t, "cycle", "self_set")
    /\ state[t] = "RUNNING"
    /\ UNCHANGED <<state, pause_sem, resume_sem, cancel, do_thread_lock, lock, ctl>>

self_pause_set(t) ==
    /\ Goto(t, "self_set", "self_post")
    /\ state' = [state EXCEPT ![t] = "PAUSED"]
    /\ UNCHANGED <<pause_sem, resume_sem, cancel, do_thread_lock, lock, ctl>>

self_pause_post(t) ==
    /\ Goto(t, "self_post", "cycle_end")
    /\ pause_sem' = Posted(pause_sem, t)
    /\ UNCHANGED <<state, resume_sem, cancel, do_thread_lock, lock, ctl>>

\* A function of the task calls rtapi_task_resume on its own task.
self_resume(t) ==
    /\ t \in SelfTasks
    /\ Goto(t, "cycle", "self_resume")
    /\ state[t] = "PAUSED"
    /\ UNCHANGED <<state, pause_sem, resume_sem, cancel, do_thread_lock, lock, ctl>>

self_resume_post(t) ==
    /\ Goto(t, "self_resume", "cycle_end")
    /\ resume_sem' = Posted(resume_sem, t)
    /\ UNCHANGED <<state, pause_sem, cancel, do_thread_lock, lock, ctl>>

\* Variant: wait keeps the thread lock over its cancellation points.
wait_keeping_lock(t) ==
    /\ thr[t] \in {"cycle", "cycle_end"}
    /\ Goto(t, thr[t], "testcancel")
    /\ UNCHANGED <<state, pause_sem, resume_sem, cancel, do_thread_lock, lock, ctl>>

\* The task code calls wait(), which first gives the thread lock back.
wait(t) ==
    /\ thr[t] \in {"cycle", "cycle_end"}
    /\ Goto(t, thr[t], "testcancel")
    /\ lock' = IF do_thread_lock THEN NoTask ELSE lock
    /\ UNCHANGED <<state, pause_sem, resume_sem, cancel, do_thread_lock, ctl>>

\* pthread_testcancel, sem_wait and clock_nanosleep are cancellation points.
CancellationPoints == {"testcancel", "semwait", "sleep"}

wait_cancelled(t) ==
    /\ cancel[t]
    /\ thr[t] \in CancellationPoints
    /\ Goto(t, thr[t], "ended")
    /\ UNCHANGED <<state, pause_sem, resume_sem, cancel, do_thread_lock, lock, ctl>>

wait_testcancel(t) ==
    /\ ~cancel[t]
    /\ Goto(t, "testcancel", "trywait")
    /\ UNCHANGED <<state, pause_sem, resume_sem, cancel, do_thread_lock, lock, ctl>>

\* Variant: the result of sem_trywait is not tested.
wait_trywait_untested(t) ==
    /\ Goto(t, "trywait", "semwait")
    /\ pause_sem' = [pause_sem EXCEPT ![t] = @ - 1]
    /\ UNCHANGED <<state, resume_sem, cancel, do_thread_lock, lock, ctl>>

wait_trywait(t) ==
    /\ \/ /\ pause_sem[t] > 0
          /\ Goto(t, "trywait", "semwait")
          /\ pause_sem' = [pause_sem EXCEPT ![t] = @ - 1]
       \/ /\ pause_sem[t] = 0
          /\ Goto(t, "trywait", "sleep")
          /\ UNCHANGED pause_sem
    /\ UNCHANGED <<state, resume_sem, cancel, do_thread_lock, lock, ctl>>

wait_semwait(t) ==
    /\ resume_sem[t] > 0
    /\ Goto(t, "semwait", "woken")
    /\ resume_sem' = [resume_sem EXCEPT ![t] = @ - 1]
    /\ UNCHANGED <<state, pause_sem, cancel, do_thread_lock, lock, ctl>>

wait_woken(t) ==
    /\ Goto(t, "woken", "sleep")
    /\ state' = [state EXCEPT ![t] = "RUNNING"]
    /\ UNCHANGED <<pause_sem, resume_sem, cancel, do_thread_lock, lock, ctl>>

\* The sleep ends, or is skipped because nextstart has already passed.
wait_sleep(t) ==
    /\ Goto(t, "sleep", "relock")
    /\ UNCHANGED <<state, pause_sem, resume_sem, cancel, do_thread_lock, lock, ctl>>

wait_relock(t) ==
    /\ Goto(t, "relock", "cycle")
    /\ Acquire(t)
    /\ UNCHANGED <<state, pause_sem, resume_sem, cancel, do_thread_lock, ctl>>

Locking(t) == wrapper(t) \/ wait_relock(t)

SelfCall(t) == \/ self_pause(t)
               \/ self_resume(t)

Running(t) == \/ self_pause_set(t)
              \/ self_pause_post(t)
              \/ self_resume_post(t)
              \/ wait(t)
              \/ wait_cancelled(t)
              \/ wait_testcancel(t)
              \/ wait_trywait(t)
              \/ wait_semwait(t)
              \/ wait_woken(t)
              \/ wait_sleep(t)

Thread(t) == Locking(t) \/ SelfCall(t) \/ Running(t)

\* After the process has died nothing moves.
Crashed == ~Alive /\ UNCHANGED vars

Next == \/ allocate_task_id
        \/ \E t \in Tasks : CtlCall(t) \/ CtlContinue(t) \/ Thread(t)
        \/ Crashed

(***************************************************************************)
(* Fairness: a thread the kernel may run does run, the control thread      *)
(* finishes a call it has begun (it need not begin one), and a thread that *)
(* waits for the thread lock gets it some time, since every owner gives it *)
(* back for a whole sleep in each period.  Nobody is obliged to send a     *)
(* command or to call the interface.                                       *)
(***************************************************************************)
Fairness == \A t \in Tasks : /\ WF_vars(CtlContinue(t))
                             /\ WF_vars(Running(t))
                             /\ SF_vars(Locking(t))

Spec == Init /\ [][Next]_vars /\ Fairness

-----------------------------------------------------------------------------
\* States, semaphores and threads stay in their types; the semaphores of
\* task_pause and task_resume never go below zero.
TypeOK ==
    /\ state \in [Tasks -> TaskStates]
    /\ pause_sem \in [Tasks -> 0 .. SemMax]
    /\ resume_sem \in [Tasks -> 0 .. SemMax]
    /\ cancel \in [Tasks -> BOOLEAN]
    /\ thr \in [Tasks -> ThreadSteps]
    /\ do_thread_lock \in BOOLEAN
    /\ lock \in Tasks \cup {NoTask}
    /\ ctl \in [at : CtlSteps, id : Tasks \cup {NoTask}]

HasThread == [t \in Tasks |-> thr[t] # "none"]

Lifecycle == INSTANCE TaskLifecycle WITH Task <- Tasks, thread <- HasThread

\* Whatever the interleaving, the stored state of every task follows the diagram
\* of rtapi_uspace.h with the rollback of task_start added: none skips a stage,
\* only a task that has its thread is paused, resumed or, once started,
\* deleted, RUNNING is taken back only before the thread exists, and DELETED
\* means joined.
FollowsLifecycle == Lifecycle!Spec

InTaskCode(t) == thr[t] \in {"cycle", "self_set", "self_post", "self_resume", "cycle_end"}

\* A slot is reused and its object freed only when its thread is gone: no
\* thread of a task in EMPTY, INIT, ALLOCATED or DELETED exists (task_delete
\* joins before it says so).
NoThreadWithoutTask ==
    \A t \in Tasks : state[t] \in {"EMPTY", "INIT", "ALLOCATED", "DELETED"} => thr[t] = "none"

\* With the thread lock, task codes never overlap, and a cancelled thread
\* never takes the lock with it (wait gives it back before it first may be
\* cancelled).
TaskCodeExclusive ==
    do_thread_lock => \A t \in Tasks : InTaskCode(t) <=> lock = t

\* A thread that sits in sem_wait(resume_sem) has a task that task_resume
\* accepts, unless its task pauses itself too; otherwise nothing but deletion
\* could ever wake it.
BlockedTaskIsPaused ==
    \A t \in Tasks \ SelfTasks : thr[t] = "semwait" => state[t] = "PAUSED"

\* Tokens of task_pause: to be posted, in pause_sem, or with the thread.
PauseTokens(t) ==
    pause_sem[t]
      + (IF thr[t] \in {"semwait", "woken"} THEN 1 ELSE 0)
      + (IF ctl = At("pause_post", t) THEN 1 ELSE 0)

\* The pause protocol keeps exactly one token per accepted pause and none
\* otherwise, although state and semaphore are written in separate steps; of
\* tasks that do not pause themselves.  A cancelled thread may leave a token,
\* which goes with the object.
PauseTokenBalance ==
    \A t \in Tasks \ SelfTasks :
        thr[t] # "ended" /\ state[t] # "DELETED"
            => PauseTokens(t) = (IF state[t] = "PAUSED" THEN 1 ELSE 0)

\* Where calls and threads can be together: what makes the two invariants
\* above inductive.
CallInv ==
    /\ \A t \in Tasks : ctl = At("create", t) => state[t] = "RUNNING" /\ thr[t] = "none"
    /\ \A t \in Tasks : ctl = At("publish", t) => state[t] = "INIT"
    /\ \A t \in Tasks :
         ctl.at \in {"pause_set", "pause_post", "resume_post", "delete_post", "delete_join"}
           /\ ctl.id = t => thr[t] # "none"
    /\ \A t \in Tasks :
         ctl = At("delete_cancel", t) /\ thr[t] = "none" => state[t] = "ALLOCATED"
    /\ \A t \in Tasks :
         thr[t] = "none" =>
             \/ state[t] \in {"EMPTY", "INIT", "ALLOCATED"}
             \/ state[t] = "RUNNING" /\ ctl = At("create", t)
             \/ state[t] = "DELETED" /\ ctl = At("delete_free", t)
    /\ \A t \in Tasks : thr[t] = "ended" => ctl = At("delete_join", t)
    /\ \A t \in Tasks : cancel[t] => ctl \in {At("delete_join", t), At("delete_free", t)}
    /\ \A t \in Tasks : ctl = At("delete_free", t) => state[t] = "DELETED"

\* Of a task without self commands the control thread alone sets PAUSED.
SinglePauserInv ==
    /\ \A t \in Tasks \ SelfTasks : thr[t] \notin {"self_set", "self_post", "self_resume"}
    /\ \A t \in Tasks \ SelfTasks : ctl = At("pause_set", t) => state[t] = "RUNNING"

\* task_delete returns, or its undefined behaviour ended the process: the
\* thread reaches a cancellation point from wherever it is, paused or not.
DeleteReturns ==
    \A t \in Tasks :
        ctl = At("delete_cancel", t) ~> (ctl = Idle \/ ~Alive)

\* Somebody is about to wake the task: task_resume or task_delete, or its own
\* code.
Waking(t) ==
    \/ ctl.id = t /\ ctl.at \in {"resume_post", "delete_post", "delete_cancel", "delete_join"}
    \/ thr[t] = "self_resume"

\* A pause takes effect: a task that is PAUSED, with no token of an earlier
\* task_resume left over, blocks in sem_wait, and a token to wake it can come
\* only from task_resume or task_delete.  (With a token left over, by two
\* resumes for one pause, the thread passes the sem_wait and goes on.)
PauseTakesEffect ==
    \A t \in Tasks :
        (state[t] = "PAUSED" /\ resume_sem[t] = 0 /\ thr[t] # "woken")
            ~> (\/ thr[t] = "semwait" /\ resume_sem[t] = 0
                \/ Waking(t)
                \/ ~Alive)

=============================================================================
