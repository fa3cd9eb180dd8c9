------------------------------ MODULE TaskMain ------------------------------
(***************************************************************************)
(* The program as a whole: main of taskmain.cpp, or a client of            *)
(* ExampleTaskGuard (operate.cpp), on top of task_thread_main and          *)
(* task_thread_exit (task.c), with the real-time thread, the message queue *)
(* and the signal handler running beside it.                               *)
(*                                                                         *)
(* What a process leaves in the kernel outlives it: the HAL segment, which *)
(* no program ever removes, still holds the list of pins, and the          *)
(* application segment stays when nobody has deleted it.  Another process  *)
(* starts after the first.                                                 *)
(***************************************************************************)
EXTENDS ThreadWalk

CONSTANTS
    Programs,       \* programs that may be started: "main", "guard"
    OsFails,        \* whether system calls and allocations may fail
    MaxRuns         \* bound: processes started one after the other

ASSUME ProgramsAssumption == Programs \subseteq {"main", "guard"}
ASSUME OsFailsAssumption == OsFails \in BOOLEAN
ASSUME MaxRunsAssumption == MaxRuns \in Nat \ {0}

VARIABLES
    program,            \* the program that runs
    pc,                 \* where its main thread is
    status,             \* the argument exit will be called with
    done,               \* taskmain.cpp: the loop is to end
    threads_started,    \* taskmain.cpp; started_ of the guard
    task_initialised,   \* taskmain.cpp; owns_ of the guard
    handler,            \* the signal emctask_quit is handling
    lib,                \* lib_mem_id: "none", "attached" or, negative, "failed"
    state,              \* hal_data->state
    comp,               \* task1 is registered
    failed,             \* history: task_thread_main failed in this process
    pins,               \* outlives the process: pins are in the HAL segment
    segment,            \* outlives the process: the application segment exists
    mutex,              \* outlives the process: it died holding hal_data->mutex
    runs                \* processes started

staticVars == <<done, threads_started, task_initialised>>
halVars == <<lib, state, comp>>
keptVars == <<pins, segment, mutex>>
fixedVars == <<program, runs>>
vars == <<queueVars, walkVars, staticVars, halVars, keptVars, fixedVars, pc, status, handler, failed>>

Signals == {"SIGINT", "SIGTERM"}

Places ==
    {"printfMaster", "hal_app_main", "hal_init", "init_hal_param", "init_task_comm_buffers",
     "init_task_threads", "hal_ready", "startup_failed", "main_failed", "initialised", "start",
     "mark", "loop", "stop", "stopped", "stopprintf", "join", "drain", "shutdown", "exit_stop",
     "exit_release", "exit_hal", "final", "client", "guard_stop"}

First(p) == IF p = "main" THEN "printfMaster" ELSE "client"

Init ==
    /\ program \in Programs /\ pc = First(program)
    /\ status = 0 /\ done = FALSE /\ threads_started = FALSE /\ task_initialised = FALSE
    /\ handler = "none" /\ failed = FALSE
    /\ lib = "none" /\ state = "UNINIT" /\ comp = FALSE
    /\ QueueInit /\ WalkInit
    /\ pins = FALSE /\ segment = FALSE /\ mutex = FALSE /\ runs = 1

At(place) == pc = place /\ ended = "no"

Goto(place) == pc' = place

\* what a step of the main thread leaves alone when it only moves on
Quiet ==
    UNCHANGED <<queueVars, walkVars, staticVars, halVars, keptVars, fixedVars, status, handler, failed>>

-----------------------------------------------------------------------------
(* emctask_startup. *)

startup_printfMaster ==
    /\ At("printfMaster")
    /\ \/ printfMaster /\ Goto("hal_app_main")
       \/ OsFails /\ Goto("main_failed") /\ UNCHANGED queueVars
    /\ UNCHANGED <<walkVars, staticVars, halVars, keptVars, fixedVars, status, handler, failed>>

\* init_hal_data, under the mutex: everything but the list of pins
HalAttached == ~mutex /\ lib' = "attached" /\ state' = "ACTIVE" /\ comp' = FALSE

startup_hal_app_main ==
    /\ At("hal_app_main")
    /\ \/ HalAttached /\ Goto("hal_init")
       \/ OsFails /\ lib' = "failed" /\ Goto("main_failed") /\ UNCHANGED <<state, comp>>
    /\ UNCHANGED <<queueVars, walkVars, staticVars, keptVars, fixedVars, status, handler, failed>>

\* task_thread_main returns -1 to emctask_startup or to the guard
TaskFails ==
    /\ failed' = TRUE
    /\ Goto(IF program = "main" THEN "startup_failed" ELSE "client")

-----------------------------------------------------------------------------
(* task_thread_main. *)

\* The first hal_init of a process attaches the HAL segment when nobody has.
\* A segment that could not be had leaves lib_mem_id negative, which the next
\* call takes for attached.
task_hal_init ==
    /\ At("hal_init") /\ lib # "failed"
    /\ \/ /\ IF lib = "none" THEN HalAttached ELSE UNCHANGED <<lib, state, comp>>
          /\ OsFails /\ TaskFails
       \/ /\ lib = "none" /\ OsFails
          /\ lib' \in {"none", "failed"} /\ UNCHANGED <<state, comp>>
          /\ TaskFails
       \/ /\ lib = "none" => ~mutex
          /\ lib' = "attached" /\ state' = (IF lib = "none" THEN "ACTIVE" ELSE state) /\ comp' = TRUE
          /\ Goto("init_hal_param") /\ UNCHANGED failed
    /\ UNCHANGED <<queueVars, walkVars, staticVars, keptVars, fixedVars, status, handler>>

task_hal_init_unattached ==
    /\ At("hal_init") /\ lib = "failed"
    /\ Crash
    /\ UNCHANGED <<queueVars, staticVars, halVars, keptVars, fixedVars, pc, status, handler, failed>>

\* A name that is there already is refused; a failure part way leaves the pins
\* made before it.  Either way hal_exit, which frees no pin.
init_hal_param ==
    /\ At("init_hal_param")
    /\ \/ /\ ~pins /\ pins' = TRUE
          /\ Goto("init_task_comm_buffers") /\ UNCHANGED <<comp, failed>>
       \/ /\ pins \/ OsFails
          /\ pins' = TRUE \/ UNCHANGED pins
          /\ comp' = FALSE
          /\ TaskFails
    /\ UNCHANGED <<queueVars, walkVars, staticVars, lib, state, segment, mutex, fixedVars, status, handler>>

\* rtapi_shmem_new of the application segment, taskShared set
init_task_comm_buffers ==
    /\ At("init_task_comm_buffers")
    /\ \/ /\ segment' = TRUE /\ app' = "mapped"
          /\ Goto("init_task_threads") /\ UNCHANGED <<comp, failed>>
       \/ /\ OsFails
          /\ comp' = FALSE /\ TaskFails /\ UNCHANGED <<segment, app>>
    /\ UNCHANGED <<queueVars, threads_running, funct_list, rt, ended>>
    /\ UNCHANGED <<staticVars, lib, state, pins, mutex, fixedVars, status, handler>>

\* hal_create_thread, two exports, two mounts whose results are not looked at.
\* A failure calls hal_exit: the thread, once created, and the application
\* segment stay.
init_task_threads ==
    /\ At("init_task_threads")
    /\ \/ /\ rt' = [at |-> "loop", entry |-> "none"]
          /\ funct_list' \in IF OsFails THEN MountedLists
                             ELSE {<<"example_cmd_handler", "example_controller">>}
          /\ Goto("hal_ready") /\ UNCHANGED <<comp, failed>>
       \/ /\ OsFails
          /\ rt' \in {rt, [at |-> "loop", entry |-> "none"]}
          /\ comp' = FALSE /\ TaskFails /\ UNCHANGED funct_list
    /\ UNCHANGED <<queueVars, threads_running, app, ended>>
    /\ UNCHANGED <<staticVars, lib, state, keptVars, fixedVars, status, handler>>

\* hal_ready, and the return to the caller, which notes that it owns the task
task_hal_ready ==
    /\ At("hal_ready")
    /\ task_initialised' = TRUE
    /\ Goto(IF program = "main" THEN "initialised" ELSE "client")
    /\ UNCHANGED <<queueVars, walkVars, done, threads_started, halVars, keptVars, fixedVars>>
    /\ UNCHANGED <<status, handler, failed>>

task_thread_main ==
    \/ task_hal_init \/ task_hal_init_unattached \/ init_hal_param
    \/ init_task_comm_buffers \/ init_task_threads \/ task_hal_ready

-----------------------------------------------------------------------------
(* main: messages, start, loop. *)

\* A message of the main thread.
Says(place, next) ==
    /\ At(place) /\ push("main") /\ Goto(next)
    /\ UNCHANGED <<walkVars, staticVars, halVars, keptVars, fixedVars, handler, failed>>

\* "task_thread_main() failed", and the final state of emctask_shutdown
startup_failed == Says("startup_failed", "main_failed") /\ UNCHANGED status

\* emctask_shutdown by main: nothing is initialised or started
main_failed == Says("main_failed", "stopprintf") /\ status' = 1

startup_complete == Says("initialised", "start") /\ UNCHANGED status

HalStart == IF state = "ACTIVE" THEN threads_running' = TRUE /\ state' = "RUNNING"
                                ELSE UNCHANGED <<threads_running, state>>

HalStop == IF state = "RUNNING" THEN threads_running' = FALSE /\ state' = "ACTIVE"
                                ELSE UNCHANGED <<threads_running, state>>

main_start ==
    /\ At("start") /\ HalStart /\ Goto("mark")
    /\ UNCHANGED <<queueVars, funct_list, app, rt, ended>>
    /\ UNCHANGED <<staticVars, lib, comp, keptVars, fixedVars, status, handler, failed>>

\* threads_started is set once the threads run already.  hal_start_threads
\* refuses a run lock, which this program never sets, and a state that is not
\* ACTIVE, in which emctask_startup never returns: the branch that reports a
\* refusal and leaves threads_started 0 is not taken from "start".
main_mark ==
    /\ At("mark") /\ threads_started' = TRUE /\ push("main") /\ Goto("loop")
    /\ UNCHANGED <<walkVars, done, task_initialised, halVars, keptVars, fixedVars>>
    /\ UNCHANGED <<status, handler, failed>>

\* a cycle that has something to report: latency, or the heartbeat
main_cycle == ~done /\ Says("loop", "loop") /\ UNCHANGED status

\* "shutting down"
main_leave == done /\ Says("loop", "stop") /\ UNCHANGED status

main_stop ==
    /\ At("stop")
    /\ IF threads_started THEN HalStop ELSE UNCHANGED <<threads_running, state>>
    /\ Goto("stopped")
    /\ UNCHANGED <<queueVars, funct_list, app, rt, ended>>
    /\ UNCHANGED <<staticVars, lib, comp, keptVars, fixedVars, status, handler, failed>>

main_stopped ==
    /\ At("stopped") /\ threads_started' = FALSE /\ Goto("stopprintf")
    /\ UNCHANGED <<queueVars, walkVars, done, task_initialised, halVars, keptVars, fixedVars>>
    /\ UNCHANGED <<status, handler, failed>>

-----------------------------------------------------------------------------
(* stopprintf and exit. *)

\* Variant: the drainer is joined without having been cancelled.
main_stopprintf_uncancelled ==
    /\ At("stopprintf") /\ Goto("join") /\ Quiet

main_stopprintf ==
    /\ At("stopprintf") /\ stop_cancel /\ Goto("join")
    /\ UNCHANGED <<walkVars, staticVars, halVars, keptVars, fixedVars, status, handler, failed>>

main_join == At("join") /\ Joined /\ Goto("drain") /\ Quiet

main_drain ==
    /\ At("drain") /\ ~Drained /\ stop_consume
    /\ UNCHANGED <<walkVars, staticVars, halVars, keptVars, fixedVars, pc, status, handler, failed>>

\* exit(1) after a failed startup, emctask_shutdown otherwise
main_drained ==
    /\ At("drain") /\ Drained
    /\ IF status = 1 THEN ended' = "exit1" /\ UNCHANGED pc
                     ELSE Goto("exit_stop") /\ UNCHANGED ended
    /\ UNCHANGED <<queueVars, threads_running, funct_list, app, rt>>
    /\ UNCHANGED <<staticVars, halVars, keptVars, fixedVars, status, handler, failed>>

\* the final HAL state, when nobody prints any more
main_final ==
    /\ At("final") /\ program = "main"
    /\ task_initialised' = FALSE /\ push("late") /\ ended' = "exit0"
    /\ UNCHANGED <<threads_running, funct_list, app, rt, done, threads_started, halVars, keptVars>>
    /\ UNCHANGED <<fixedVars, pc, status, handler, failed>>

-----------------------------------------------------------------------------
(* task_thread_exit, of main and of the guard. *)

exit_stop ==
    /\ At("exit_stop") /\ HalStop /\ Goto("exit_release")
    /\ UNCHANGED <<queueVars, funct_list, app, rt, ended>>
    /\ UNCHANGED <<staticVars, lib, comp, keptVars, fixedVars, status, handler, failed>>

\* Variant: the segment is only detached.
exit_release_detached ==
    /\ At("exit_release") /\ app' = "released" /\ Goto("exit_hal")
    /\ UNCHANGED <<queueVars, threads_running, funct_list, rt, ended>>
    /\ UNCHANGED <<staticVars, halVars, keptVars, fixedVars, status, handler, failed>>

\* Variant: the functions go first, the segment stays mapped.
exit_release_swapped ==
    /\ At("exit_release") /\ comp' = FALSE /\ funct_list' = <<>> /\ Goto("exit_hal")
    /\ UNCHANGED <<queueVars, threads_running, app, rt, ended>>
    /\ UNCHANGED <<staticVars, lib, state, keptVars, fixedVars, status, handler, failed>>

\* rtapi_shmem_delete detaches and, as nobody else is attached, removes the
\* segment; taskShared keeps its value
exit_release ==
    /\ At("exit_release") /\ app' = "released" /\ segment' = FALSE /\ Goto("exit_hal")
    /\ UNCHANGED <<queueVars, threads_running, funct_list, rt, ended>>
    /\ UNCHANGED <<staticVars, halVars, pins, mutex, fixedVars, status, handler, failed>>

\* hal_exit frees the functions and their entries; the thread stays
exit_hal ==
    /\ At("exit_hal") /\ comp' = FALSE /\ funct_list' = <<>> /\ Goto("final")
    /\ UNCHANGED <<queueVars, threads_running, app, rt, ended>>
    /\ UNCHANGED <<staticVars, lib, state, keptVars, fixedVars, status, handler, failed>>

task_thread_exit == exit_stop \/ exit_release \/ exit_hal

-----------------------------------------------------------------------------
(* A client of ExampleTaskGuard: its calls in any order. *)

guard_init == At("client") /\ ~task_initialised /\ Goto("hal_init") /\ Quiet

guard_start ==
    /\ At("client") /\ task_initialised /\ ~threads_started
    /\ HalStart /\ threads_started' = (state = "ACTIVE")
    /\ UNCHANGED <<queueVars, funct_list, app, rt, ended, done, task_initialised, lib, comp, keptVars>>
    /\ UNCHANGED <<fixedVars, pc, status, handler, failed>>

\* stop by itself, or first thing in shutdown
guard_stop ==
    /\ At("client") \/ At("guard_stop")
    /\ threads_started \/ pc = "guard_stop"
    /\ HalStop /\ threads_started' = FALSE
    /\ Goto(IF pc = "guard_stop" THEN "exit_stop" ELSE pc)
    /\ UNCHANGED <<queueVars, funct_list, app, rt, ended, done, task_initialised, lib, comp, keptVars>>
    /\ UNCHANGED <<fixedVars, status, handler, failed>>

\* send_command looks at the pointer, not at the mapping; what it does to the
\* channel is modelled in CommandChannel
guard_send_released ==
    /\ At("client") /\ app = "released"
    /\ Crash
    /\ UNCHANGED <<queueVars, staticVars, halVars, keptVars, fixedVars, pc, status, handler, failed>>

guard_shutdown == At("client") /\ task_initialised /\ Goto("guard_stop") /\ Quiet

guard_final ==
    /\ At("final") /\ program = "guard"
    /\ task_initialised' = FALSE /\ Goto("client")
    /\ UNCHANGED <<queueVars, walkVars, done, threads_started, halVars, keptVars, fixedVars>>
    /\ UNCHANGED <<status, handler, failed>>

\* the destructor has nothing left to do, the program returns 0
guard_return ==
    /\ At("client") /\ ~task_initialised /\ ended' = "exit0"
    /\ UNCHANGED <<queueVars, threads_running, funct_list, app, rt, staticVars, halVars, keptVars>>
    /\ UNCHANGED <<fixedVars, pc, status, handler, failed>>

guard ==
    \/ guard_init \/ guard_start \/ guard_stop \/ guard_send_released
    \/ guard_shutdown \/ guard_final \/ guard_return

-----------------------------------------------------------------------------
(* emctask_quit, beside the main thread, and the end of a process. *)

emctask_quit(sig) ==
    /\ program = "main" /\ ended = "no" /\ handler = "none"
    /\ handler' = sig /\ done' = TRUE
    /\ UNCHANGED <<queueVars, walkVars, threads_started, task_initialised, halVars, keptVars, fixedVars>>
    /\ UNCHANGED <<pc, status, failed>>

\* SIGTERM stops the threads if they are known to run
quit_return ==
    /\ ended = "no" /\ handler # "none"
    /\ IF handler = "SIGTERM" /\ threads_started
       THEN HalStop /\ threads_started' = FALSE
       ELSE UNCHANGED <<threads_running, state, threads_started>>
    /\ handler' = "none"
    /\ UNCHANGED <<queueVars, funct_list, app, rt, ended, done, task_initialised, lib, comp, keptVars>>
    /\ UNCHANGED <<fixedVars, pc, status, failed>>

\* a second signal while the first is handled: _exit(1)
quit_again ==
    /\ ended = "no" /\ handler # "none" /\ ended' = "killed"
    /\ UNCHANGED <<queueVars, threads_running, funct_list, app, rt, staticVars, halVars, keptVars>>
    /\ UNCHANGED <<fixedVars, pc, status, handler, failed>>

\* where the main thread may hold the mutex of the HAL
InHal == pc \in {"hal_app_main", "hal_init", "init_hal_param", "init_task_threads", "hal_ready", "exit_hal"}

\* The next process; the kernel has detached the old one from its segments.
\* The mutex is a word in the segment: what a dead process held stays taken.
restart ==
    /\ ended # "no" /\ runs < MaxRuns
    /\ program' \in Programs /\ pc' = First(program')
    /\ status' = 0 /\ done' = FALSE /\ threads_started' = FALSE /\ task_initialised' = FALSE
    /\ handler' = "none" /\ failed' = FALSE
    /\ lib' = "none" /\ state' = "UNINIT" /\ comp' = FALSE
    /\ queue' = <<>> /\ drainer' = "none" /\ cancelled' = FALSE /\ waiting' = 0
    /\ threads_running' = FALSE /\ funct_list' = <<>> /\ app' = "null"
    /\ rt' = [at |-> "none", entry |-> "none"] /\ ended' = "no"
    /\ mutex' \in IF ended \in {"killed", "crashed"} /\ InHal THEN {mutex, TRUE} ELSE {mutex}
    /\ runs' = runs + 1
    /\ UNCHANGED <<pins, segment>>

-----------------------------------------------------------------------------
main ==
    \/ startup_printfMaster \/ startup_hal_app_main \/ startup_failed \/ main_failed
    \/ startup_complete \/ main_start \/ main_mark \/ main_leave \/ main_stop \/ main_stopped
    \/ main_stopprintf \/ main_join \/ main_drain \/ main_drained \/ main_final

\* the threads of the process that are not the main thread
RealTime == thread_task /\ UNCHANGED <<staticVars, halVars, keptVars, fixedVars, pc, status, handler, failed>>

Printing ==
    /\ ended = "no" /\ queue_function
    /\ UNCHANGED <<walkVars, staticVars, halVars, keptVars, fixedVars, pc, status, handler, failed>>

Next ==
    \/ main \/ main_cycle \/ task_thread_main \/ task_thread_exit \/ guard
    \/ RealTime \/ Printing
    \/ (\E sig \in Signals : emctask_quit(sig)) \/ quit_return \/ quit_again
    \/ restart

\* The kernel schedules the main thread and the printing thread, and a handler
\* returns.  Nobody has to call the guard, send a signal or start a process.
Spec ==
    /\ Init /\ [][Next]_vars
    /\ WF_vars(main) /\ WF_vars(task_thread_main) /\ WF_vars(task_thread_exit)
    /\ WF_vars(Printing) /\ WF_vars(quit_return)

-----------------------------------------------------------------------------
\* All variables stay in their types, the queue within its capacity.
TypeOK ==
    /\ QueueTypeOK /\ WalkTypeOK
    /\ program \in Programs /\ pc \in Places /\ status \in 0 .. 1
    /\ {done, threads_started, task_initialised, comp, failed, pins, segment, mutex} \subseteq BOOLEAN
    /\ handler \in Signals \cup {"none"}
    /\ lib \in {"none", "attached", "failed"}
    /\ state \in {"UNINIT", "ACTIVE", "RUNNING"}
    /\ runs \in 1 .. MaxRuns

\* "Graceful shutdown": a program whose task was initialised and that ends by
\* itself has stopped the threads, removed the application segment and
\* deregistered its component, whenever the signal came: before the threads
\* were started, before threads_started said so, or in the middle of main's
\* own stop.
CleanExit ==
    (ended = "exit0" /\ (program = "main" \/ app = "released")) =>
        ~threads_running /\ ~segment /\ ~comp /\ app = "released"

\* A signal ends the program: main leaves its loop, the thread that prints can
\* always be joined, and exit is reached, although real-time threads may keep
\* the queue busy.  One thing only can prevent it, a process that died holding
\* the HAL mutex.
MainExits == (program = "main" /\ done) ~> (ended # "no" \/ mutex)

\* A message the main program printed before stopprintf, and that the queue
\* took, is on the terminal when the program exits, although the printing
\* thread is cancelled at any moment.
MessagesPrinted ==
    (program = "main" /\ ended \in {"exit0", "exit1"} /\ drainer # "none") => waiting = 0

\* A fault is always the use of something that was released: the application
\* segment by task_thread_exit, or a HAL segment that was never attached.  In
\* all other states, signals, failures and restarts included, the real-time
\* thread walks a list whose entries and segment exist.
FaultsOnlyAfterRelease == ended = "crashed" => app = "released" \/ lib = "failed"

\* "Stops running threads, releases the application shared memory segment, and
\* deregisters from the HAL": nothing uses what was released.
NoUseAfterRelease == ended # "crashed"

\* "initialize everything": the task can be started whatever an earlier process
\* has left in the HAL segment.
StartSucceeds == ~failed

=============================================================================
