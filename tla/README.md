# A verification project for RealTimeSystem

RealTimeSystem is a user-space real-time runtime in C and C++: an RTAPI layer
that runs POSIX threads as periodic tasks, a HAL in shared memory on which
components register functions, pins, params and threads, and an example task
with a command channel and a controller. This directory holds TLA+ modules for
its core, TLC configurations, and TLAPS proofs.

## 1. Inventory

| component | source | state | operations | hard part | correct when |
|---|---|---|---|---|---|
| RTAPI tasks | `rtapi/uspace_rtapi_app.cpp`, `rtapi_uspace.h` | task table, state, two semaphores and a pthread per task, global thread lock | task_new, start, pause, resume, delete, wait | control thread and task threads interleave between every load and store; cancellation; a failed pthread_create | tokens match states, a pause takes effect, delete returns, no thread outlives its task |
| HAL allocator | `hal/hal_lib.c` | shmem_bot, shmem_top, shmem_avail | shmalloc_up, shmalloc_dn, init_hal_data | alignment at both ends, exhaustion | blocks are disjoint, aligned, outside the free region |
| HAL registry | `hal/hal_lib.c`, `hal_priv.h` | lists and free lists of components, functions, pins, params, threads; entries; lock bits | hal_init, hal_exit, hal_ready, export, create/delete thread, add/del function | calls that take the mutex several times; gates read outside it; rollback paths | users counts entries, no entry of a freed function, sorted lists, ready components frozen |
| HAL lifecycle | `hal/hal_lib.c` | state, threads_running | hal_app_main, start, stop, hal_app_exit | stores outside the mutex, order of teardown | state and flag agree, shutdown completes |
| HAL dispatcher | `hal/hal_lib.c` thread_task | the walk over a thread's functions | one cycle | no mutex against registry changes | calls only listed functions |
| command channel | `ExampleTask/operate.cpp`, `funct_command.c`, `task.h` | mutex bit, head, tail, one command | send_command, taskCommandHandler | the real-time side may not wait; one slot | no torn command, newest wins, cycle ends |
| controller | `ExampleTask/funct_control.c` | pins, last_target, error_count | one cycle | int overflow, latch | moves to the target and arrives |
| task module | `ExampleTask/task.c` | shared segment, HAL component | task_thread_main, task_thread_exit | partial failure, order of teardown | everything acquired is released once |
| main program | `main/taskmain.cpp` | done, threads_started, task_initialised | startup, loop, signals, shutdown | signal handler, exit paths | threads stopped before memory goes |
| RTAPI shared memory | `rtapi/uspace_common.c` | handle table, counts, uuid segment | new, getptr, delete, rtapi_init, rtapi_exit | segments that outlive a process | a segment lives while it is used |
| message queue | `rtapi/uspace_rtapi_app.cpp` | bounded queue, thread | push, drain, stop | full queue, stop order | real-time side never waits |
| clock, PLL, timer | `uspace_rtapi_app.cpp`, `time/` | period, nextstart, correction | advance, set correction, wait | wrap of nanoseconds, late wakeups | next start in range, monotone |

How they interact: the main program calls the HAL and the task module; the HAL
creates one RTAPI task per HAL thread; the thread's task walks the functions
added to it, which here are the command handler and the controller; the
handler reads the command channel that the control side writes, and calls back
into the RTAPI task layer to pause its own task.

## 2. Plan

Done:

1. `RtTask` with its abstract `TaskLifecycle`: everything else runs on it.
2. `HalAlloc`: everything in the HAL is allocated by it.
3. `CommandChannel` with its abstract `Mailbox`, composed with the pause and
   resume of the task that runs the handler.
4. `Controller`.
5. `HalRegistry`: the registry and the lifecycle.
6. `RtapiShmem`: handles, reference counts, the uuid segment, processes that die.
7. `MsgQueue`, `ThreadWalk` and `TaskMain`, composed by EXTENDS: the message
   queue, the dispatcher, and on top of them the program with its startup,
   signals, shutdown and restart.
8. `ThreadClock` and `CycleTimer`: timespec arithmetic, the schedule, the PLL, the
   timer of the main loop.
9. Proofs: `RtTaskProofs`, `HalAllocProofs`, `CommandChannelProofs` with the
   refinement of `Mailbox`, `ControllerProofs`, `TimingProofs`, `TaskMainProofs`,
   `RtapiShmemProofs`, `HalRegistryProofs`.

Left: a walk of thread_task during `hal_add_funct_to_thread`, should a caller ever
mount functions while threads run.

## 3. Modules

**RtTask** has one control thread (`ctl`, the call it is executing) and one
thread per slot of the table (`thr`, the step of `wait` it is at). Every load
of a shared variable, store or semaphore operation is a step of its own. A
thread is cancelled only at the cancellation points of `wait`. The tasks of
`SelfTasks` may pause and resume themselves from their own code, as the PAUSE and
RESUME commands make them do. `do_thread_lock`, fixed in the initial state, is the
mode of a scheduling policy other than SCHED_FIFO. This program never enters it:
`makeApp` (`uspace_rtapi_app.cpp:187`) constructs `Posix(SCHED_FIFO)` and nothing
else does. The code of the mode is modelled because it is there, and
`TaskCodeExclusive` is about that code only; all other properties are checked
with the lock and without it. A `pthread_cancel` or `pthread_join` of a pthread that was
never created is undefined and leads to `crashed`, or to a normal end.
`TaskLifecycle` is the diagram of `rtapi_uspace.h`: its `state` is the state the code
stores in the task (EMPTY is a null entry of the table, INIT the placeholder), its
`thread` whether the task has a pthread that was not yet joined. It has one edge
more than the diagram, the rollback of a failed start (section "Disagreements").

**HalAlloc** keeps the blocks handed out as a set and the two ends as integers.
`init_hal_data` may run again on the segment an earlier process left.

**CommandChannel** has the writes of `send_command` and the steps of the handler
as single actions, the task's wait, and the control side's own `task_resume`.
`Mailbox` is the abstract specification: a place for one command, where a new
one replaces an unread one.

**Controller** is one control cycle. Overflow of `pos + step` is undefined in
the code, and a choice here between wrapping and the exact comparison that an
optimiser may use. The float product is taken where it is exact. A commanded
pin may change between any two cycles.

**HalRegistry** treats a mutex section as one action, and each part of a call
outside the mutex as its own. Structures are numbered and their free lists are
kept in order, so that reuse of a freed structure is visible. Names are numbers
ordered as strcmp orders the strings; the derived names (".time", ".tmax",
".tmax-increased") are arithmetic on them. `mutex` is only ever seen taken when a
caller keeps it for good (`delete_exit`). After its first section
`hal_create_thread` reads comp_id and name of the thread structure again before
each nested call; another caller may have freed or reused the structure, and
`create_gate` is that read. An entry for which no memory is left goes to
`list_init_entry` as a null pointer (`crashed`). A list is a sequence: `Without` unlinks,
`InsertAt` links, and `EntriesOf` and `CallsOf` are the entries of a set of threads.

**RtapiShmem** has the kernel's segments (key, attached processes, whether the key
still leads to it) beside each process's `shmem_array`; every system call is a
step and may fail. `refs` and `ids` are history: what the callers hold. The page
touch and the fields of a handle are part of `new_shmat`. `uuid_data`, a static
pointer that is set once, is "stale" when the segment was mapped again elsewhere.
A process may be killed anywhere; the kernel detaches it, its successor has an
empty table, and a mutex it held stays taken.

**MsgQueue** is `rtapi_msg_queue`, a sequence of at most `QueueCap` senders (the
lock-free queue is boost's and external), `queue_function` with the window in
which it can be cancelled, and `stopprintf`.

**ThreadWalk** is `thread_task`: `threads_running` is tested once a period, then one
step per call, function pointer and link followed, without the mutex. Use of a
freed entry or of a detached segment is `Crash`; a function found without its
runtime pointer is reported, and the walk goes on along the freed entry.

**TaskMain** has the main thread's place in `main`, `emctask_startup`,
`task_thread_main`, `task_thread_exit` or in a client of `ExampleTaskGuard`; the
signal handler as two steps, entry and return, beside the main thread, since a
signal may be delivered to any thread of the process; the real-time and the
printing thread. The calls into `hal_lib.c` are single
steps here, their insides are `HalRegistry`'s. `pins`, `segment` and `mutex` outlive
the process, and `restart` begins another one. That attaching the HAL segment
keeps the old pins is what `init_hal_data` does: it sets every list but
`pin_list_ptr`.

**ThreadClock** keeps timespecs as records in a second of `OneSec` ns and
calculates with them as the code does; `now` moves between any two steps, so every
delay occurs. **CycleTimer** adds `RCS_TIMER` on a wall clock that may be set; the
doubles are integers in units of a tick. `IntOf` is the conversion of the number of
timeouts to an int: exact in its range, and beyond it, where C leaves it undefined,
INT_MIN or the nearest int, which is what the processors give.

The MC modules give sets and functions to the constants. Definitions marked
"Variant" are faulty forms of a definition of the code; no specification uses
them, they show for every property that a fault in the code would break it.

## 4. Runs

| run | expects | what it shows |
|---|---|---|
| task | pass | tokens and states agree, a pause with no left-over token blocks the task, the stored states follow the lifecycle, mutual exclusion under the thread lock, no thread without a task, delete returns |
| alloc | pass | disjoint, aligned blocks; refusals only when the room is short |
| channel | pass | exclusion, no torn or repeated command, newest wins, mailbox refinement, the cycle ends without any fairness of the user side, a pending command is executed once the sender stays out of the mutex |
| controller | pass | approach without overshoot, arrival, error implies stopped |
| registry_comps | pass | two callers exporting, exiting, readying, locking, starting and stopping: sorted lists, params show live functions, a ready component is frozen |
| registry_threads | pass | two callers around threads that are created, refused, rolled back, used, deleted: use counts, owners, entries |
| registry_delete | violation | hal_thread_delete deadlocks on its own mutex |
| shmem | pass | a reference keeps its mapping, the last user removes the segment, module numbers are distinct, with failures and a death |
| main | pass | a signal ends the program, a clean exit leaves nothing, messages are printed, faults are only uses of what was released |
| main_shutdown | violation | the segment and the functions are released under a real-time cycle that has begun |
| main_restart | violation | the second start of the program finds the pins of the first and fails |
| timing | pass | no cycle begins early, the schedule does not drift, the main loop keeps its beat while an int counts the timeouts |

### Bounds

Two tasks are enough for lock contention and slot search, one of them with self
commands and one without; two tokens show a duplicate; both values of
do_thread_lock are initial states. Two commands let one be overwritten while
the other is written, and two parameter values tell a torn command from a whole
one. The 71-byte segment with an odd header makes both ends misaligned for most
requests and is exhausted within five blocks of six sizes. The controller runs
with a small INT_MAX; no target is within a step of it (section "Disagreements"). The registry runs use two callers (one in
`registry_delete`), one or two names, tables of one to three structures, so that
exhaustion and reuse happen, and `MaxIds` bounds component numbers: further
`hal_init` calls are then not made. `hal_start_threads` and `hal_stop_threads` are called in
`registry_comps` only: the properties of `registry_threads` do not depend on them, and the proofs cover
every combination of calls.

In `shmem` two processes share two keys: enough for one to attach between the
other's IPC_STAT and IPC_RMID, for both to leave together, and for a second
reference in one process. Two segments can be created, so a removed one is
replaced once; one EPERM is retried before the call gives up; one process dies. In
`main` a queue of two messages is full with one message of each thread; two
processes show everything the first leaves to the second. A failure is possible at
every call, so the second process meets every half-finished startup. In `timing` a
second of 3 ns and a period of 4 carry and borrow at every phase, the correction
limit is 1 and requests of 2 are limited, three calls of `wait` and 17 ns allow a
thread that is more than a period late; the wall clock moves by 7 in both
directions, and INT_MAX is 1, so that the number of timeouts is in the range of the
int and beyond both its ends.

Symmetry is used in `registry_threads` (callers) and `shmem` (processes), which
check invariants only.

The deadlock check is off in `registry_threads` and `registry_delete`, where the
deadlock of hal_thread_delete is real and the subject of the latter; in `shmem`,
`main` and `timing` (and the violation runs of `main`), where programs end, wait for
a mutex a dead process holds, or reach a bound.

### Disagreements between code and comments

Three have a run of their own (`registry_delete`, `main_shutdown`, `main_restart`).
These are visible in the models and have none:

* `uspace_rtapi_app.cpp:592`: task_pause tests and sets the state in two steps.
  A task that pauses itself in between gets two tokens for one resume, and is then
  blocked in state RUNNING, where task_resume does nothing; the comment at :644
  says "State is already TASK_S_PAUSED". `BlockedTaskIsPaused` and `PauseTokenBalance`
  exempt the tasks of `SelfTasks` for this reason.
* `uspace_rtapi_app.cpp:612`: task_resume posts whenever the state is PAUSED; a
  second call before the task wakes leaves a token, and the next pause does not
  "block on resume_sem until task_resume() is called" (:582). `PauseTakesEffect`
  is therefore about a pause that finds no token.
* `uspace_rtapi_app.cpp:496`: RUNNING is stored before the thread exists and taken
  back when pthread_create fails. `rtapi_uspace.h:47` says of RUNNING "pthread
  created", and its diagram has no edge from RUNNING to ALLOCATED.
* `uspace_rtapi_app.cpp:349`: a task left ALLOCATED by a failed start is cancelled
  and joined without having a thread, though :417 says it is torn down cleanly.
* `uspace_rtapi_app.cpp:907`: stopprintf is declared to return an int and has no
  return statement.
* `uspace_common.c:302`: a delete of a handle that is not in use is -EINVAL, though
  :275 calls the function idempotent.
* `uspace_common.c:213`: after a failed shmat the handle is in state ERROR, though
  :63 says "handle state is restored to UNBORN".
* `uspace_common.c:425`: the pointer into the uuid segment is static and set once.
  When the last module has exited and another begins, it may lead nowhere
  (`uuid_get_unmapped`).
* `uspace_common.c:339`: a process that attaches between IPC_STAT and IPC_RMID keeps
  a segment the key no longer leads to; the next process gets a new one whose
  numbers begin again, so numbers are unique only within a segment.
* `hal_lib.c:1386`: init_hal_data does not set shmem_avail ("amount of shmem left
  free", `hal_priv.h:129`) before the first allocation.
* `hal_lib.c:109`: names are compared with comp->name, which is never written, so
  component names are not "unique in the system" (:108).
* `hal_lib.c:660`: the rollback of a refused thread deletes the task its structure
  names, which is the initial 0: the task of another thread.
* `hal_lib.c:1536`: when no memory is left for a function entry, `list_init_entry` is
  called on the null pointer that line 1540 tests for, and
  hal_add_funct_to_thread never reaches its own refusal.
* `hal_lib.c:1579`: free_comp_struct leaves pins listed, though `task.c:156` says
  they are freed (`main_restart` shows a consequence).
* `hal_lib.c:1736`: the rollback of a refused thread clears threads_running in state
  RUNNING, which `hal_priv.h:112` defines by threads_running == 1.
* `hal_lib.c:1181`: DESTROYED is stored after line 1177 unmapped the segment.
* `funct_command.c:98`: RESUME is executed by the thread that is paused, so it never
  takes effect, though `task.h:32` lists it as the command that resumes.
* `funct_command.c:129`: `tail = head` drops all but the newest command; `task.h:48`
  speaks of a ring buffer.
* `funct_control.c:59`: `pos + step` overflows within a step of INT_MAX, where the
  controller does not "move toward the target" (:57): the clamp acts on a wrapped
  value or not at all.
  The targets of the `controller` run are further inside.
* `funct_control.c:90`: the "consecutive error counter" (:20) is not reset by a
  cycle whose target matches.
* `task.c:58`: "cleans up previously acquired resources": a failed startup only
  calls hal_exit. The application segment and a thread already created stay.
* `task.c:204`: the comment says that command_mutex, head and tail are zero. That is
  so of a new segment. One that a killed process left behind keeps them: a mutex
  that is taken, so that send_command waits for ever and the handler never
  looks, or a pending command whose id is reset to NONE. `CommandChannel` begins
  with the new segment.
* `timer.cpp:125`: the timeouts of the interval are converted to an int. When the
  wall clock is set back by more than 2^31 of them (0.1 s each in `taskmain.cpp:110`,
  some 6.8 years) the loop sleeps what is beyond that; when it is set forward
  by as much, it does not sleep.
* `taskmain.cpp:234`: stopprintf comes before emctask_shutdown, whose report of the
  final HAL state is put into a queue nobody prints.
* `operate.cpp:154`: send_command after shutdown finds taskShared set, writes to
  the released segment, and does not return the "-1 if the shared memory is not
  mapped" of :63.

### Fairness

`RtTask`: weak fairness for each thread's runnable steps and for a call the
control thread has begun, strong fairness for taking the thread lock, since its
owner releases it for a sleep in every period. `CommandChannel`: weak fairness of
the real-time thread, which runs each period, and nothing else.
The handler only tries the mutex: a sender that happens to be inside it in every
period keeps a command pending for ever, and nothing in the code prevents that.
`PendingIsExecuted` therefore has as its premise that the sender is outside the
mutex from some time on, and does not depend on the number of sends. `Controller`: the controller runs each
period; nothing obliges anyone to set pins. `HalRegistry`: a caller inside the
library continues; nobody must make a call. `TaskMain`: weak fairness of the main
thread inside a program or a call, of the printing thread and of the return of a
signal handler, as the kernel schedules them; none for the clients of the guard,
for signals, for a restart, and none for the real-time thread, which may be
starved or keep the queue busy for ever without harm to `MainExits`. `RtapiShmem`
and `CycleTimer` state safety only.

## 5. Proofs

`RtTaskProofs` (all constants; `MaxTasks` and `SemMax` positive):

* `TypeCorrect`.
* `ThreadNeverOutlivesTask`, from `TaskThreadInv`: the type invariant,
  `NoThreadWithoutTask` and `CallInv`, which says where calls and threads can be
  together. It is needed because the property depends on task_delete having
  joined, which is only known from where the control thread is.
* `PauseTokensBalance` and `BlockedTaskCanBeResumed`, from `TokenInv`, which adds
  `SinglePauserInv`: of a task outside `SelfTasks` the control thread alone sets
  PAUSED. The restriction is necessary: see the first disagreement in section 4.
* `TaskCodesExclude`: mutual exclusion of task code under the thread lock.
* `ImplementsLifecycle`: every step maps to a step or a stutter of
  `TaskLifecycle`, with the stored state itself as its `state` and `HasThread` as its
  `thread`. It rests on `TaskThreadInv`: that a paused or resumed task has its
  thread, and that the rollback comes before there is one, is known from where the
  control thread is.

`HalAllocProofs` (every segment size, header and set of sizes):
`FreeMemoryIsFree`, `BlocksNeverOverlap`, `BlocksAreAligned`, from an inductive
invariant that joins the three with the types, on lemmas about the alignment
operators. A new block is disjoint from old ones because old blocks are outside
the free region and the new one comes from inside it.

`CommandChannelProofs` (any commands and any number of them):

* `ChannelExcludes`, `CommandsExecutedAsSent` and `NewestNotLost`, from
  `ChannelInv`: exclusion, that head counts the commands sent (`CountsInv`), what
  the slot holds while the user side writes it (`SlotInv`), and the number of the
  command executed last (`LastInv`). No torn command follows from exclusion only
  together with what has been written so far, hence `SlotInv`; that none is
  repeated needs tail and the history of executions tied by `LastInv`.
* `ChannelIsMailbox`: under `ChannelInv` the store of head is the Put of `Mailbox`,
  the execution the Take, and every other step a stutter. The fairness of the
  specification plays no part in it.

`ControllerProofs` (any width of int, targets, rates and error limit):

* `TypeCorrect`: wrapped or not, positions are ints and the counters in their
  ranges. The assumption `VelocityAssumption`, that twice the velocity is an
  int, holds of the code's constants.
* `ErrorStops`, from the types.
* `MotionIsTowardTarget`, an action property, under the hypothesis `TargetsInside`:
  every target is at least the largest step inside the int range. The hypothesis is stated
  because the property is false without it (section "Disagreements"). It
  needs `PositionCommanded`: the position lies between commanded targets, so the
  sum cannot overflow on the way either.

`TimingProofs` (any second, period, timeout, corrections and delays), on lemmas
about quotients and about the timespec operators: `timespecsub` and
`rtapi_timespec_advance` are exact and give proper timespecs.

* `CyclesNeverEarly` and `ScheduleNeverDrifts`, from `ThreadInv`, which adds that a
  sleeping thread wakes at its next start (`SleepsUntilStart`): the sleep is
  relative to a time read before it.
* `TimerKeepsBeat`, from `TimerInv`: without a set clock the last wakeup is in
  the past (`ClockForward`). What it says of whole timeouts and of a clock that was
  set is under `exact`, that the number of timeouts fitted into the int; for any
  value of INT_MAX.

`TaskMainProofs` (any capacity of the queue and number of processes):
`ProgramTypes`, `ExitIsClean`, `MessagesArePrinted` and `FaultsFollowRelease`, from
`ProgramInv`. Its parts: the number of waiting messages is that of main's entries
in the queue and the one in the printer's hands (`QueueInv`, on lemmas about the
count in an appended or shortened queue); where main can be while a printing
thread exists (`PrintInv`); threads_running, the HAL state and the places where
they may not run (`HalInv`); when the component is registered (`CompInv`), the
application segment mapped (`AppInv`), the task owned (`OwnInv`); and that the
entry thread_task stands on was freed only behind the release (`WalkInv`). The
signal handler may stop the threads between any two steps of main, which is why
`HalInv` is stated for every place of main and not only for the exits.

`RtapiShmemProofs` (any processes, keys, slots, segments, references, numbers and
retries): `ShmemTypes`, `MappingIsKept`, `NobodyLeavesSegments` and
`NumbersAreUnique`, from `ShmemInv`:

* for each process, `HandleInv` (a valid handle is the only one of its key, leads to
  a segment of that key, and until it is left counts the references of an attached
  process), `RefInv` (a reference has a handle), `CallInv` (what a call
  between two system calls relies on) and `NumberInv` (a reference for each number, and
  for one being taken);
* `SharedInv`: one process at a time counts in a segment, with its mutex taken; a
  number was counted in its segment, and the one about to be taken is above all
  that were;
* `RemoverInv`: unless a process died, a segment without users has somebody between
  two system calls who will attach to it or remove it.

A step is shown to keep what belongs to its own process (`Good`), to leave the
others alone (`OthersAlone`, `Spared`), and, unless it takes a number, to leave the
counters alone (`Quiet`). The Booleans in records are under the name `Flag`: the
provers use a field either as a formula or as a member of BOOLEAN.

`HalRegistryProofs` (any callers, calls, names, positions, lock types and table
sizes): `RegistryTypes`, `OwnersAreListed`, `ParamsShowLive`, `UsersCount`,
`EntriesAreListed`, `ListsAreSorted` and the action property `ReadyFreezes`. Assumed:
there are finitely many callers, names are positive, positions are integers, the
bounds naturals. All follow from `RegistryInv`, which TLC also checked on the
instances of `registry_comps` and `registry_threads`:

* `CompsInv`, `FunctsInv`, `PinsInv`, `ThreadsInv`: a structure is on the list of its
  kind or on the free list, once (`ListOK`); the names are sorted; and the listed
  components have different ids, all handed out already. The ids are needed because
  a call holds the id of its component across sections, and only a fresh uuid in
  `hal_init` makes sure that it does not lead to a later component in the same
  structure.
* `ParamsInv` and `RestInv`: params, task table, lifecycle fields.
* `CallsInv`: what each caller knows between two sections of its call, and that a
  uuid is left for everyone who is going to take one. Of the name and id that
  `hal_create_thread` reads again it knows only that they are a thread's or those of
  a freed structure: no more is true, and the properties hold all the same.
* `OwnersInv`: `OwnersListed`, `ParamsShowLiveFuncts` and `SlotOwned`: while the
  component of a `hal_export_funct` in progress is there, so is the function it has
  linked, and it belongs to that component. This is why a param created in a later
  section shows a live function: had the component left, `hal_param_new` would have
  refused.
* `EntriesInv`: `users` is the number of entries of every structure, the free ones
  too, and an entry's function is listed. `free_funct_struct` looks for entries only
  when `users` > 0, so neither half holds without the other.

The proof goes by part: a lemma says which steps change the variables of the part
(`CompsSteps`, `PinsSteps`, `ParamsStays`, ...), others what a section does when it
links, unlinks or sweeps (`CompLinked`, `FunctLinked`, `FunctsFreed`, `EntryAdded`,
...), and `CompsStep` to `EntriesStep` that the part is kept. Below them are lemmas on
lists (`WithoutFacts`, `Take`, `Give`), on counting (`EntInserted`, `EntSwept`,
`EntLeft`) and on sorted insertion (`StopFacts`, `SortedInsert`).

Only model-checked: all liveness (`PauseTakesEffect`, `DeleteReturns`,
`PendingIsExecuted`, `CycleCompletes`, `Arrives`, `MainExits`), which needs
fairness; and `NoEarlyExhaustion`, which uses ENABLED.

## 6. Not modelled

The text of messages and formatting; priorities, affinity, CPU selection, stack
sizes and other pthread attributes, and the scheduler they would matter to;
statistics and getters, latency included; `hal_set_constructor`, a store nothing
reads; `hal_export_functf`, which reads an uninitialised length and name and has no
caller; the cycle-time setters of `task.c`, whose values nothing reads once the
thread exists; IPC_SET of the owner of a segment, and failures of shmdt and
shmctl. `init_rtapi_data` has no caller. `list_init_entry` is declared and not
defined in the repository; a list it initialised is taken to be empty. The prev
links of `hal_list_t` are not kept, a list is a sequence.
A call that a gate refuses changes nothing and is not an action. A relink of a
function list during a walk does not occur in this program, which mounts its
functions before it starts the threads, and is left out of `ThreadWalk`. The failure
branch of `hal_start_threads` in main (`taskmain.cpp:157`) is not taken in any state
of the model: the program sets no run lock, and the HAL is ACTIVE when startup has
succeeded. The application segment a killed process left behind (`task.c:204`) is
kept by `TaskMain` as existing, and its contents are not modelled in
`CommandChannel`.
