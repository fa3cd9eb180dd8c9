---------------------------- MODULE TaskLifecycle ----------------------------
(***************************************************************************)
(* What rtapi/rtapi_uspace.h promises of every task: the lifecycle diagram *)
(* of its header comment, of the state the task layer stores, beside       *)
(* whether the task has a thread.                                          *)
(*                                                                         *)
(*   EMPTY -> INIT -> ALLOCATED -> RUNNING <-> PAUSED                      *)
(*     ^                  |           |          |                         *)
(*     |                  v           v          v                         *)
(*     +-------------- DELETED     DELETED    DELETED                      *)
(*                                                                         *)
(* The diagram says of RUNNING that the pthread was created.  The code     *)
(* stores RUNNING first and takes it back when pthread_create fails: the   *)
(* edge RUNNING -> ALLOCATED, which the diagram lacks, is allowed as long  *)
(* as there is no thread, and nothing else may happen to such a task.      *)
(***************************************************************************)
CONSTANT Task

VARIABLES
    state,      \* [Task -> the stored state]
    thread      \* [Task -> the task has a thread that was not yet joined]

vars == <<state, thread>>

Init == /\ state = [t \in Task |-> "EMPTY"]
        /\ thread = [t \in Task |-> FALSE]

Move(t, from, to) == /\ state[t] \in from
                     /\ state' = [state EXCEPT ![t] = to]

Claim(t) == Move(t, {"EMPTY"}, "INIT") /\ UNCHANGED thread

Construct(t) == Move(t, {"INIT"}, "ALLOCATED") /\ UNCHANGED thread

Start(t) == Move(t, {"ALLOCATED"}, "RUNNING") /\ UNCHANGED thread

\* A started task gets its thread, once, or goes back.
Created(t) == /\ state[t] = "RUNNING" /\ ~thread[t]
              /\ thread' = [thread EXCEPT ![t] = TRUE]
              /\ UNCHANGED state

Rollback(t) == ~thread[t] /\ Move(t, {"RUNNING"}, "ALLOCATED") /\ UNCHANGED thread

Pause(t) == thread[t] /\ Move(t, {"RUNNING"}, "PAUSED") /\ UNCHANGED thread

Resume(t) == thread[t] /\ Move(t, {"PAUSED"}, "RUNNING") /\ UNCHANGED thread

\* "Thread cancelled and joined": a task that was started has a thread to join.
Delete(t) == /\ thread[t] <=> state[t] # "ALLOCATED"
             /\ Move(t, {"ALLOCATED", "RUNNING", "PAUSED"}, "DELETED")
             /\ thread' = [thread EXCEPT ![t] = FALSE]

Release(t) == Move(t, {"DELETED"}, "EMPTY") /\ UNCHANGED thread

Next == \E t \in Task :
            \/ Claim(t) \/ Construct(t) \/ Start(t) \/ Created(t) \/ Rollback(t)
            \/ Pause(t) \/ Resume(t) \/ Delete(t) \/ Release(t)

Spec == Init /\ [][Next]_vars

=============================================================================
