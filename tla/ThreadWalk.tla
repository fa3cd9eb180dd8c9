----------------------------- MODULE ThreadWalk -----------------------------
(***************************************************************************)
(* thread_task of hal_lib.c, the loop every real-time thread runs: while   *)
(* threads_running is set it walks the function list of its thread,        *)
(* without the HAL mutex, and calls what it finds.  Here the list is the   *)
(* one of the example thread, with the two functions task.c mounts; both   *)
(* use the application's segment through the pointer taskShared.           *)
(*                                                                         *)
(* An entry that hal_exit has freed has no function, no function pointer,  *)
(* and its links lead into the free list: calling it, or following it, is  *)
(* a fault.  So is the use of a segment that has been detached.            *)
(***************************************************************************)
EXTENDS MsgQueue

VARIABLES
    threads_running,    \* hal_data->threads_running
    funct_list,         \* the thread's list of functions
    app,                \* taskShared: "null", "mapped" or, stale, "released"
    rt,                 \* where thread_task is, and its funct_entry
    ended               \* how the process ended

walkVars == <<threads_running, funct_list, app, rt, ended>>

Functs == {"example_cmd_handler", "example_controller"}

\* what init_task_threads can mount: the second position needs the first
MountedLists ==
    {<<>>, <<"example_cmd_handler">>, <<"example_cmd_handler", "example_controller">>}

RtPlaces == {"none", "loop", "call", "body", "called", "next", "runtime"}

Ends == {"no", "exit0", "exit1", "killed", "crashed"}

WalkInit ==
    /\ threads_running = FALSE /\ funct_list = <<>> /\ app = "null"
    /\ rt = [at |-> "none", entry |-> "none"] /\ ended = "no"

RtAt(place) == rt.at = place /\ ended = "no"

RtGoto(place) == rt' = [rt EXCEPT !.at = place]

\* the entry the thread points to has not been freed
Linked == \E i \in DOMAIN funct_list : funct_list[i] = rt.entry

EntriesBehind ==
    {i \in DOMAIN funct_list : i > 1 /\ funct_list[i - 1] = rt.entry}

Crash == ended' = "crashed" /\ UNCHANGED <<threads_running, funct_list, app, rt>>

\* a period begins: the first entry; an empty list is reported
walk_begin ==
    /\ RtAt("loop") /\ threads_running
    /\ IF funct_list = <<>>
       THEN push("rt") /\ UNCHANGED rt
       ELSE rt' = [at |-> "call", entry |-> Head(funct_list)] /\ UNCHANGED queueVars
    /\ UNCHANGED <<threads_running, funct_list, app, ended>>

\* funct_entry->funct(...)
walk_call ==
    /\ RtAt("call")
    /\ IF Linked THEN RtGoto("body") /\ UNCHANGED <<threads_running, funct_list, app, ended>>
                 ELSE Crash
    /\ UNCHANGED queueVars

\* taskCommandHandler or taskController, which use the segment unless
\* taskShared is 0; both may report something
walk_body ==
    /\ RtAt("body")
    /\ IF app = "released"
       THEN Crash /\ UNCHANGED queueVars
       ELSE /\ RtGoto("called")
            /\ push("rt") \/ UNCHANGED queueVars
            /\ UNCHANGED <<threads_running, funct_list, app, ended>>

\* funct_entry->funct_ptr: without one the walk is abandoned
walk_funct_ptr ==
    /\ RtAt("called")
    /\ IF Linked THEN RtGoto("next") /\ UNCHANGED queueVars
                 ELSE RtGoto("runtime") /\ push("rt")
    /\ UNCHANGED <<threads_running, funct_list, app, ended>>

\* funct->runtime and the maximum, then links.next.  A function freed before
\* the test of runtime has none: that is reported and the walk goes on, along
\* the links of the freed entry, to an entry with nothing to call.  One freed
\* between the test and the use is dereferenced.
walk_next ==
    /\ RtAt("next")
    /\ \/ /\ Linked
          /\ IF EntriesBehind = {}
             THEN RtGoto("runtime")
             ELSE \E i \in EntriesBehind : rt' = [at |-> "call", entry |-> funct_list[i]]
          /\ UNCHANGED <<threads_running, funct_list, app, ended>> /\ UNCHANGED queueVars
       \/ /\ ~Linked
          /\ RtGoto("call") /\ push("rt")
          /\ UNCHANGED <<threads_running, funct_list, app, ended>>
       \/ /\ ~Linked
          /\ Crash /\ UNCHANGED queueVars

\* *(thread->runtime), then rtapi_wait
walk_end ==
    /\ RtAt("runtime")
    /\ rt' = [at |-> "loop", entry |-> "none"]
    /\ UNCHANGED <<threads_running, funct_list, app, ended>> /\ UNCHANGED queueVars

thread_task ==
    walk_begin \/ walk_call \/ walk_body \/ walk_funct_ptr \/ walk_next \/ walk_end

WalkTypeOK ==
    /\ threads_running \in BOOLEAN
    /\ funct_list \in MountedLists
    /\ app \in {"null", "mapped", "released"}
    /\ rt \in [at : RtPlaces, entry : Functs \cup {"none"}]
    /\ ended \in Ends

=============================================================================
