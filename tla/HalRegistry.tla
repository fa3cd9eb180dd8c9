----------------------------- MODULE HalRegistry -----------------------------
(* The HAL registry of hal/hal_lib.c: components, functions, pins, params and  *)
(* threads kept in linked lists in shared memory behind one mutex, the RTAPI   *)
(* task of each thread, and the HAL lifecycle state.                           *)
(*                                                                             *)
(* Every call runs on behalf of a caller.  What a call does between            *)
(* rtapi_mutex_get and rtapi_mutex_give is one action, enabled while the       *)
(* mutex is free; what it reads or writes outside the mutex (the lock and      *)
(* state gates, threads_running, the cell behind a runtime pointer) is an      *)
(* action of its own.  A call that a gate refuses changes nothing and is not   *)
(* an action.                                                                  *)
(*                                                                             *)
(* Structures are numbered.  A free list starts with every structure of its    *)
(* kind: shmalloc_dn hands out a new zeroed structure only when the list of    *)
(* freed ones is empty, so new ones are the bottom of the same stack, and an   *)
(* empty list is exhausted HAL memory.  Names are numbers, ordered as strcmp   *)
(* orders the strings.                                                         *)
EXTENDS Integers, SequencesExt

CONSTANTS
    Callers,      \* threads of control that call the library
    Ops,          \* the calls they make
    CompNames,    \* names of components
    Names,        \* names of functions
    ThreadNames,  \* names of threads
    Reentrant,    \* names of functions exported with reentrant = 1
    FpFuncts,     \* names of functions exported with uses_fp = 1
    FpThreads,    \* names of threads created with uses_fp = 1
    Period,       \* period_nsec of each thread name
    BadPriority,  \* names of threads created with a priority out of range
    Positions,    \* values of the position argument
    LockTypes,    \* values of the lock_type argument
    MaxComps, MaxFuncts, MaxPins, MaxParams, MaxThreads, MaxEntries,
    MaxTasks,     \* size of the RTAPI task table
    MaxIds        \* bound on the uuids handed out

ASSUME NamesArePositive == CompNames \cup Names \cup ThreadNames \subseteq Nat \ {0}
ASSUME CallersAreFinite == IsFiniteSet(Callers)
ASSUME PeriodIsFunction == Period \in [ThreadNames -> Nat]
ASSUME PositionsAreInts == Positions \subseteq Int
ASSUME BoundsAreNat ==
    {MaxComps, MaxFuncts, MaxPins, MaxParams, MaxThreads, MaxEntries, MaxTasks, MaxIds} \subseteq Nat

VARIABLES
    comp, compList, compFree,         \* hal_comp_t structures and their lists
    funct, functList, functFree,      \* hal_funct_t
    pin, pinList, pinFree,            \* hal_pin_t
    paramList,                        \* hal_param_t (no pointer to one is kept)
    thread, threadList, threadFree,   \* hal_thread_t
    task,                             \* RTAPI task table: the thread a task runs, 0 if none
    base,                             \* RtapiApp::period, 0 until set
    uuid,                             \* last id rtapi_init returned
    state, threads_running, lock,     \* hal_data_t fields
    mutex,                            \* the caller stuck inside the mutex, or NONE
    call,                             \* what each caller is executing
    crashed                           \* a store through an invalid pointer ended the process

comps == <<comp, compList, compFree>>
functs == <<funct, functList, functFree>>
pins == <<pin, pinList, pinFree>>
threads == <<thread, threadList, threadFree>>
tasks == <<task, base>>
life == <<state, threads_running>>
vars == <<comps, functs, pins, paramList, threads, tasks, uuid, life, lock, mutex, call, crashed>>

NONE == 0
NoName == 0
Idle == [pc |-> "idle", id |-> 0, name |-> 0, thr |-> 0, pos |-> 0, slot |-> 0]

FreeComp == [id |-> 0, name |-> NoName, ready |-> FALSE]
FreeFunct == [name |-> NoName, owner |-> 0, users |-> 0, runtime |-> 0]
FreePin == [name |-> NoName, owner |-> 0]
FreeThread == [name |-> NoName, comp_id |-> 0, task_id |-> 0, runtime |-> 0, functs |-> <<>>]

Upto(n) == [i \in 1..n |-> i]

\* init_hal_data: every list empty, nothing locked, state ACTIVE.  The segment
\* is new, so the structures the free lists stand for are zero.
Init ==
    /\ comp = [c \in 1..MaxComps |-> FreeComp] /\ compList = <<>> /\ compFree = Upto(MaxComps)
    /\ funct = [f \in 1..MaxFuncts |-> FreeFunct] /\ functList = <<>> /\ functFree = Upto(MaxFuncts)
    /\ pin = [p \in 1..MaxPins |-> FreePin] /\ pinList = <<>> /\ pinFree = Upto(MaxPins)
    /\ paramList = <<>>
    /\ thread = [t \in 1..MaxThreads |-> FreeThread] /\ threadList = <<>>
    /\ threadFree = Upto(MaxThreads)
    /\ task = [i \in 0..MaxTasks - 1 |-> 0] /\ base = 0
    /\ uuid = 0
    /\ state = "ACTIVE" /\ threads_running = 0
    /\ lock = {} /\ mutex = NONE
    /\ call = [k \in Callers |-> Idle]
    /\ crashed = FALSE

------------------------------------------------------------------------------
(* Lists and searches.                                                         *)

Listed(list) == {list[i] : i \in DOMAIN list}

\* Where the n-th element of the list that is not in gone is
Nth(list, gone, n) ==
    LET kept == {i \in DOMAIN list : list[i] \notin gone}
    IN CHOOSE i \in kept : Cardinality({h \in kept : h <= i}) = n

\* The list after every element in gone has been unlinked
Without(list, gone) ==
    [n \in 1..Cardinality({i \in DOMAIN list : list[i] \notin gone}) |-> list[Nth(list, gone, n)]]

\* halpr_find_comp_by_id and the open-coded searches; 0 when not found
FindComp(id) ==
    LET found == {c \in Listed(compList) : comp[c].id = id}
    IN IF found = {} THEN 0 ELSE CHOOSE c \in found : TRUE

\* halpr_find_comp_by_name # 0
CompNamed(name) == \E d \in Listed(compList) : comp[d].name = name

\* halpr_find_funct_by_name
FindFunct(name) ==
    LET found == {f \in Listed(functList) : funct[f].name = name}
    IN IF found = {} THEN 0 ELSE CHOOSE f \in found : TRUE

\* halpr_find_thread_by_name
FindThread(name) ==
    LET found == {t \in Listed(threadList) : thread[t].name = name}
    IN IF found = {} THEN 0 ELSE CHOOSE t \in found : TRUE

\* What the allocators return while their free list is not empty; each leaves
\* the free list without it.
halpr_alloc_comp_struct == Head(compFree)
alloc_funct_struct == Head(functFree)
alloc_pin_struct == Head(pinFree)
alloc_thread_struct == Head(threadFree)

FunctNames == [i \in DOMAIN functList |-> funct[functList[i]].name]
PinNames == [i \in DOMAIN pinList |-> pin[pinList[i]].name]
ParamNames == [i \in DOMAIN paramList |-> paramList[i].name]

\* Variant: the insertion loop steps over a name equal to the new one.
StopPastEqual(names, name) ==
    CHOOSE i \in 1..Len(names) + 1 :
        /\ \A j \in 1..i - 1 : names[j] <= name
        /\ i \in DOMAIN names => names[i] > name

\* Where the insertion loops stop: the first element not smaller than name.
Stop(names, name) ==
    CHOOSE i \in 1..Len(names) + 1 :
        /\ \A j \in 1..i - 1 : names[j] < name
        /\ i \in DOMAIN names => names[i] >= name

\* cmp == 0: the loop met the name itself
Duplicate(names, name) ==
    /\ Stop(names, name) \in DOMAIN names
    /\ names[Stop(names, name)] = name

\* "<name>.time", "<name>.tmax" and "<name>.tmax-increased"
TimeName(name) == name
TmaxName(name) == 2 * name
IncreasedName(name) == 2 * name + 1

------------------------------------------------------------------------------
(* Calls.                                                                      *)

\* A caller that is in no call enters one, past the gates it reads without
\* the mutex.
Enter(k, op) == ~crashed /\ op \in Ops /\ call[k] = Idle

\* A caller at pc runs a section under the mutex: it gets it and gives it back.
Locked(k, pc) == ~crashed /\ call[k].pc = pc /\ mutex = NONE

At(k, pc) == ~crashed /\ call[k].pc = pc

\* where a call goes when the lock gate of the next call it makes lets it pass
PastGate ==
    [export_pin |-> "export_pin_locked", export_tmax |-> "export_tmax_locked",
     export_inc |-> "export_inc_locked", create_tmax |-> "create_tmax_locked",
     create_pin |-> "create_pin_locked", create_ready |-> "create_ready_locked"]

Goto(k, pc) == call' = [call EXCEPT ![k].pc = pc]

Return(k) == call' = [call EXCEPT ![k] = Idle]

------------------------------------------------------------------------------
(* Components.                                                                 *)

\* The bound on uuids counts the calls that are going to take one.
IdsLeft == uuid + Cardinality({k \in Callers : call[k].pc \in {"create_insert", "create_comp"}}) < MaxIds

\* The mutex section of hal_init: rtapi_init has returned uuid + 1.  The name
\* test compares with comp->name, which alloc_comp_struct clears and nothing
\* ever writes, so two components may take one name.
CompNew(name) ==
    LET c == halpr_alloc_comp_struct
    IN /\ uuid' = uuid + 1
       /\ IF compFree = <<>> \/ CompNamed(name)
          THEN UNCHANGED comps
          ELSE /\ comp' = [comp EXCEPT ![c] = [id |-> uuid + 1, name |-> NoName, ready |-> FALSE]]
               /\ compList' = <<c>> \o compList
               /\ compFree' = Tail(compFree)

\* hal_init
hal_init(k, name) ==
    /\ Enter(k, "hal_init") /\ mutex = NONE /\ IdsLeft
    /\ CompNew(name)
    /\ UNCHANGED <<functs, pins, paramList, threads, tasks, life, lock, mutex, call, crashed>>

\* Variant: the entries of the freed functions stay in the threads.
FreeFunctsUnswept(gone) ==
    LET mine == Without(functList, Listed(functList) \ gone)
    IN /\ thread' = thread
       /\ funct' = [f \in DOMAIN funct |-> IF f \in gone THEN FreeFunct ELSE funct[f]]
       /\ functList' = Without(functList, gone)
       /\ functFree' = Reverse(mine) \o functFree

\* free_funct_struct for every function in gone, unlinked in list order: when
\* users > 0 its entries leave the listed threads, then the structure is
\* cleared and pushed on the free list.
FreeFuncts(gone) ==
    LET used == {f \in gone : funct[f].users > 0}
        mine == Without(functList, Listed(functList) \ gone)
    IN /\ thread' = [t \in DOMAIN thread |->
                        IF t \in Listed(threadList)
                        THEN [thread[t] EXCEPT !.functs = Without(@, used)]
                        ELSE thread[t]]
       /\ funct' = [f \in DOMAIN funct |-> IF f \in gone THEN FreeFunct ELSE funct[f]]
       /\ functList' = Without(functList, gone)
       /\ functFree' = Reverse(mine) \o functFree

\* Variant: the component's params stay in the list.
free_comp_struct_keeps_params(c) ==
    /\ FreeFuncts({f \in Listed(functList) : funct[f].owner = c})
    /\ comp' = [comp EXCEPT ![c] = FreeComp]
    /\ compFree' = <<c>> \o compFree
    /\ UNCHANGED paramList

\* Variant: the component's structure never reaches the free list.
free_comp_struct_leaks(c) ==
    /\ FreeFuncts({f \in Listed(functList) : funct[f].owner = c})
    /\ paramList' = Without(paramList, {q \in Listed(paramList) : q.owner = c})
    /\ comp' = [comp EXCEPT ![c] = FreeComp]
    /\ UNCHANGED compFree

\* The component's functions and params go with it, its pins stay; ready keeps
\* its value until hal_init hands the structure out again.
free_comp_struct(c) ==
    /\ FreeFuncts({f \in Listed(functList) : funct[f].owner = c})
    /\ paramList' = Without(paramList, {q \in Listed(paramList) : q.owner = c})
    /\ comp' = [comp EXCEPT ![c] = [FreeComp EXCEPT !.ready = comp[c].ready]]
    /\ compFree' = <<c>> \o compFree

\* hal_exit: the component is unlinked and freed
hal_exit(k, id) ==
    LET c == FindComp(id)
    IN /\ Enter(k, "hal_exit") /\ mutex = NONE /\ state # "DESTROYED"
       /\ c # 0
       /\ compList' = Without(compList, {c})
       /\ free_comp_struct(c)
       /\ UNCHANGED <<pins, threadList, threadFree, tasks, uuid, life, lock, mutex, call, crashed>>

SetReady(id, ready) ==
    /\ comp' = [comp EXCEPT ![FindComp(id)].ready = ready]
    /\ UNCHANGED <<compList, compFree>>

\* hal_ready refuses a component that is ready already
hal_ready(k, id) ==
    /\ Enter(k, "hal_ready") /\ mutex = NONE
    /\ FindComp(id) # 0 /\ ~comp[FindComp(id)].ready
    /\ SetReady(id, TRUE)
    /\ UNCHANGED <<functs, pins, paramList, threads, tasks, uuid, life, lock, mutex, call, crashed>>

\* hal_unready refuses a component that is not ready; hal_set_unready clears
\* the flag of any component, which differs from it only in the answer
hal_unready(k, id) ==
    /\ Enter(k, "hal_unready") /\ mutex = NONE
    /\ FindComp(id) # 0 /\ comp[FindComp(id)].ready
    /\ SetReady(id, FALSE)
    /\ UNCHANGED <<functs, pins, paramList, threads, tasks, uuid, life, lock, mutex, call, crashed>>

\* hal_set_lock: a plain store, outside the mutex
hal_set_lock(k, bits) ==
    /\ Enter(k, "hal_set_lock")
    /\ lock' = bits
    /\ UNCHANGED <<comps, functs, pins, paramList, threads, tasks, uuid, life, mutex, call, crashed>>

------------------------------------------------------------------------------
(* Pins, params and functions.                                                 *)

\* Variant: the ready test is missing.
AcceptsReady(id) == FindComp(id) # 0

\* A component that hal_pin_new, hal_param_new and hal_export_funct accept
Accepts(id) == FindComp(id) # 0 /\ ~comp[FindComp(id)].ready

\* hal_pin_new gets as far as storing the address of the new pin's dummysig in
\* *data_ptr_addr; a duplicate name is found only after that.
PinStored(id) == Accepts(id) /\ pinFree # <<>>
PinAdded(id, name) == PinStored(id) /\ ~Duplicate(PinNames, name)

\* The value *data_ptr_addr has afterwards
PinAddress(id, old) == IF PinStored(id) THEN alloc_pin_struct ELSE old

\* hal_pin_new (hal_pin_newf, hal_pin_newfv); the structure of a duplicate goes
\* back to the head of the free list, where it came from
PinNew(id, name) ==
    IF PinAdded(id, name)
    THEN /\ pin' = [pin EXCEPT ![alloc_pin_struct] = [name |-> name, owner |-> FindComp(id)]]
         /\ pinList' = InsertAt(pinList, Stop(PinNames, name), alloc_pin_struct)
         /\ pinFree' = Tail(pinFree)
    ELSE UNCHANGED pins

ParamAdded(id, name) ==
    /\ Accepts(id) /\ Len(paramList) < MaxParams
    /\ ~Duplicate(ParamNames, name)

\* hal_param_new (hal_param_s32_new, hal_param_bit_new); data is the function
\* whose field the param shows, 0 for any other address
ParamNew(id, name, data) ==
    IF ParamAdded(id, name)
    THEN paramList' = InsertAt(paramList, Stop(ParamNames, name),
                               [name |-> name, owner |-> FindComp(id), data |-> data])
    ELSE UNCHANGED paramList

\* hal_export_funct, up to the mutex
hal_export_funct(k, id, name) ==
    /\ Enter(k, "hal_export_funct") /\ "LOAD" \notin lock
    /\ call' = [call EXCEPT ![k] = [Idle EXCEPT !.pc = "export_insert", !.id = id, !.name = name]]
    /\ UNCHANGED <<comps, functs, pins, paramList, threads, tasks, uuid, life, lock, mutex, crashed>>

\* its mutex section: a new structure is linked in name order, or nothing
export_insert(k) ==
    LET id == call[k].id
        name == call[k].name
        f == alloc_funct_struct
        added == Accepts(id) /\ functFree # <<>> /\ ~Duplicate(FunctNames, name)
    IN /\ Locked(k, "export_insert")
       /\ IF added
          THEN /\ funct' = [funct EXCEPT ![f] = [FreeFunct EXCEPT !.name = name, !.owner = FindComp(id),
                                                                 !.runtime = funct[f].runtime]]
               /\ functList' = InsertAt(functList, Stop(FunctNames, name), f)
               /\ functFree' = Tail(functFree)
               /\ call' = [call EXCEPT ![k].pc = "export_pin", ![k].slot = f]
          ELSE Return(k) /\ UNCHANGED functs
       /\ UNCHANGED <<comps, pins, paramList, threads, tasks, uuid, life, lock, mutex, crashed>>

\* The lock gates of hal_pin_new and of the two hal_param_new calls: -EPERM for
\* the pin fails the export, for a param it is ignored.
export_gate(k) ==
    LET pc == call[k].pc
    IN /\ ~crashed /\ pc \in {"export_pin", "export_tmax", "export_inc"}
       /\ CASE "LOAD" \notin lock -> Goto(k, PastGate[pc])
            [] "LOAD" \in lock /\ pc = "export_tmax" -> Goto(k, "export_inc")
            [] "LOAD" \in lock /\ pc # "export_tmax" -> Return(k)
       /\ UNCHANGED <<comps, functs, pins, paramList, threads, tasks, uuid, life, lock, mutex, crashed>>

\* the "<name>.time" pin
export_pin(k) ==
    LET id == call[k].id
        f == call[k].slot
    IN /\ Locked(k, "export_pin_locked")
       /\ PinNew(id, TimeName(call[k].name))
       /\ funct' = [funct EXCEPT ![f].runtime = PinAddress(id, @)]
       /\ IF PinAdded(id, TimeName(call[k].name)) THEN Goto(k, "export_zero") ELSE Return(k)
       /\ UNCHANGED <<comps, functList, functFree, paramList, threads, tasks, uuid, life, lock, mutex, crashed>>

\* *(new_hal_funct_t->runtime) = 0, outside the mutex
export_zero(k) ==
    /\ At(k, "export_zero")
    /\ crashed' = (funct[call[k].slot].runtime = 0)
    /\ Goto(k, "export_tmax")
    /\ UNCHANGED <<comps, functs, pins, paramList, threads, tasks, uuid, life, lock, mutex>>

\* "<name>.tmax", then "<name>.tmax-increased"; their results are ignored
export_tmax(k) ==
    /\ Locked(k, "export_tmax_locked")
    /\ ParamNew(call[k].id, TmaxName(call[k].name), call[k].slot)
    /\ Goto(k, "export_inc")
    /\ UNCHANGED <<comps, functs, pins, threads, tasks, uuid, life, lock, mutex, crashed>>

export_inc(k) ==
    /\ Locked(k, "export_inc_locked")
    /\ ParamNew(call[k].id, IncreasedName(call[k].name), call[k].slot)
    /\ Return(k)
    /\ UNCHANGED <<comps, functs, pins, threads, tasks, uuid, life, lock, mutex, crashed>>

------------------------------------------------------------------------------
(* Threads.                                                                    *)

\* The entries in the function lists of the threads in T, by thread and place,
\* and those of them that call f
EntriesOf(T) == UNION {{t} \X DOMAIN thread[t].functs : t \in T}
CallsOf(f, T) == {e \in EntriesOf(T) : thread[e[1]].functs[e[2]] = f}

\* free_thread_struct: all threads stop, the RTAPI task whose number the
\* structure holds is paused and deleted, the entries are freed.  comp_id and
\* runtime keep their values.
FreedThread(t) == [thread[t] EXCEPT !.name = NoName, !.task_id = 0, !.functs = <<>>]

\* rtapi_task_delete of a number that is out of range or not in use fails
TaskDeleted(id) == [i \in DOMAIN task |-> IF i = id THEN 0 ELSE task[i]]

\* Variant: free_funct_entry_struct leaves users alone.
FunctsUnreleased(T) == funct

\* free_funct_entry_struct of every entry of the threads in T: each takes one
\* from users
FunctsReleased(T) ==
    [f \in DOMAIN funct |-> [funct[f] EXCEPT !.users = @ - Cardinality(CallsOf(f, T))]]

\* hal_create_thread, up to the mutex
hal_create_thread(k, name) ==
    /\ Enter(k, "hal_create_thread") /\ "CONFIG" \notin lock /\ Period[name] # 0 /\ IdsLeft
    /\ call' = [call EXCEPT ![k] = [Idle EXCEPT !.pc = "create_insert", !.name = name]]
    /\ UNCHANGED <<comps, functs, pins, paramList, threads, tasks, uuid, life, lock, mutex, crashed>>

\* RtapiApp::allocate_task_id: the first unused slot of the task table
TaskSlots == {i \in DOMAIN task : task[i] = 0}
NewTask == CHOOSE i \in TaskSlots : \A j \in TaskSlots : i <= j

\* rtapi_clock_set_period as the first thread uses it; the periods are far
\* enough apart for the 1% tolerance not to matter
ClockSet(name) ==
    base' = IF threadList = <<>> /\ base = 0 THEN Period[name] ELSE base
ClockTooSlow(name) == threadList = <<>> /\ base > Period[name]

\* rtapi_task_new fails
NoTaskFor(name) == name \in BadPriority \/ TaskSlots = {}

\* The mutex section, when the thread is refused before its structure exists
create_refused(k) ==
    /\ Locked(k, "create_insert")
    /\ FindThread(call[k].name) # 0 \/ threadFree = <<>>
    /\ Return(k)
    /\ UNCHANGED <<comps, functs, pins, paramList, threads, tasks, uuid, life, lock, mutex, crashed>>

\* when the structure is rolled back: its task_id is still 0, so that
\* free_thread_struct deletes task 0
create_rollback(k) ==
    LET name == call[k].name
    IN /\ Locked(k, "create_insert")
       /\ FindThread(name) = 0 /\ threadFree # <<>>
       /\ ClockTooSlow(name) \/ NoTaskFor(name)
       /\ ClockSet(name)
       /\ task' = TaskDeleted(0)
       /\ threads_running' = 0
       /\ thread' = [thread EXCEPT ![alloc_thread_struct] = FreedThread(alloc_thread_struct)]
       /\ Return(k)
       /\ UNCHANGED <<comps, functs, pins, paramList, threadList, threadFree, uuid, state, lock, mutex, crashed>>

\* when rtapi_task_start fails: the new task is deleted, twice
create_start_failed(k) ==
    LET name == call[k].name
    IN /\ Locked(k, "create_insert")
       /\ FindThread(name) = 0 /\ threadFree # <<>>
       /\ ~ClockTooSlow(name) /\ ~NoTaskFor(name)
       /\ ClockSet(name)
       /\ threads_running' = 0
       /\ thread' = [thread EXCEPT ![alloc_thread_struct] = FreedThread(alloc_thread_struct)]
       /\ Return(k)
       /\ UNCHANGED <<comps, functs, pins, paramList, threadList, threadFree, task, uuid, state, lock, mutex, crashed>>

\* and when it succeeds: the task runs, the thread is the head of the list
create_insert(k) ==
    LET name == call[k].name
        t == alloc_thread_struct
    IN /\ Locked(k, "create_insert")
       /\ FindThread(name) = 0 /\ threadFree # <<>>
       /\ ~ClockTooSlow(name) /\ ~NoTaskFor(name)
       /\ ClockSet(name)
       /\ thread' = [thread EXCEPT ![t].name = name, ![t].task_id = NewTask, ![t].functs = <<>>]
       /\ task' = [task EXCEPT ![NewTask] = t]
       /\ threadList' = <<t>> \o threadList
       /\ threadFree' = Tail(threadFree)
       /\ call' = [call EXCEPT ![k].pc = "create_comp", ![k].slot = t]
       /\ UNCHANGED <<comps, functs, pins, paramList, uuid, life, lock, mutex, crashed>>

\* hal_init of the thread's pseudo component; -ENOMEM is kept as its comp_id
create_comp(k) ==
    LET t == call[k].slot
    IN /\ Locked(k, "create_comp")
       /\ CompNew(call[k].name)
       /\ IF compFree # <<>>
          THEN /\ thread' = [thread EXCEPT ![t].comp_id = uuid + 1]
               /\ Goto(k, "create_tmax")
          ELSE /\ thread' = [thread EXCEPT ![t].comp_id = -1]
               /\ Return(k)
       /\ UNCHANGED <<functs, pins, paramList, threadList, threadFree, tasks, life, lock, mutex, crashed>>

\* Outside the mutex comp_id and name are read from the thread's structure, once
\* for each of the calls that follow, and so are the lock gates of
\* hal_param_new and hal_pin_new.  By then hal_app_exit may have freed the
\* structure, or hal_thread_delete before it had a comp_id, and another caller
\* may have made it another thread's.
create_gate(k) ==
    LET pc == call[k].pc
        t == call[k].slot
    IN /\ ~crashed /\ pc \in {"create_tmax", "create_pin", "create_ready"}
       /\ IF "LOAD" \in lock /\ pc # "create_ready"
          THEN Return(k)
          ELSE call' = [call EXCEPT ![k].pc = PastGate[pc], ![k].id = thread[t].comp_id,
                                    ![k].name = thread[t].name]
       /\ UNCHANGED <<comps, functs, pins, paramList, threads, tasks, uuid, life, lock, mutex, crashed>>

\* "<name>.tmax"
create_tmax(k) ==
    LET id == call[k].id
        name == TmaxName(call[k].name)
    IN /\ Locked(k, "create_tmax_locked")
       /\ ParamNew(id, name, 0)
       /\ IF ParamAdded(id, name) THEN Goto(k, "create_pin") ELSE Return(k)
       /\ UNCHANGED <<comps, functs, pins, threads, tasks, uuid, life, lock, mutex, crashed>>

\* "<name>.time"
create_pin(k) ==
    LET id == call[k].id
        name == TimeName(call[k].name)
    IN /\ Locked(k, "create_pin_locked")
       /\ PinNew(id, name)
       /\ thread' = [thread EXCEPT ![call[k].slot].runtime = PinAddress(id, @)]
       /\ IF PinAdded(id, name) THEN Goto(k, "create_ready") ELSE Return(k)
       /\ UNCHANGED <<comps, functs, paramList, threadList, threadFree, tasks, uuid, life, lock, mutex, crashed>>

\* hal_ready of the pseudo component; *(runtime) = 0 before it finds a pin,
\* because nothing clears a thread's runtime
create_ready(k) ==
    LET id == call[k].id
    IN /\ Locked(k, "create_ready_locked")
       /\ IF FindComp(id) # 0 THEN SetReady(id, TRUE) ELSE UNCHANGED comps
       /\ Return(k)
       /\ UNCHANGED <<functs, pins, paramList, threads, tasks, uuid, life, lock, mutex, crashed>>

\* hal_thread_delete, up to the mutex
hal_thread_delete(k, name) ==
    /\ Enter(k, "hal_thread_delete") /\ "CONFIG" \notin lock /\ state \in {"ACTIVE", "RUNNING"}
    /\ call' = [call EXCEPT ![k] = [Idle EXCEPT !.pc = "delete", !.thr = name]]
    /\ UNCHANGED <<comps, functs, pins, paramList, threads, tasks, uuid, life, lock, mutex, crashed>>

\* no such thread
delete_missing(k) ==
    /\ Locked(k, "delete")
    /\ FindThread(call[k].thr) = 0
    /\ Return(k)
    /\ UNCHANGED <<comps, functs, pins, paramList, threads, tasks, uuid, life, lock, mutex, crashed>>

\* a thread with a pseudo component: hal_exit waits for the mutex this caller
\* holds, for ever
delete_exit(k) ==
    LET t == FindThread(call[k].thr)
    IN /\ Locked(k, "delete")
       /\ t # 0 /\ thread[t].comp_id # 0
       /\ mutex' = k
       /\ Goto(k, "delete_exit")
       /\ UNCHANGED <<comps, functs, pins, paramList, threads, tasks, uuid, life, lock, crashed>>

\* a thread without one
delete_thread(k) ==
    LET t == FindThread(call[k].thr)
    IN /\ Locked(k, "delete")
       /\ t # 0 /\ thread[t].comp_id = 0
       /\ threadList' = Without(threadList, {t})
       /\ threadFree' = <<t>> \o threadFree
       /\ thread' = [thread EXCEPT ![t] = FreedThread(t)]
       /\ funct' = FunctsReleased({t})
       /\ task' = TaskDeleted(thread[t].task_id)
       /\ threads_running' = 0
       /\ Return(k)
       /\ UNCHANGED <<comps, functList, functFree, pins, paramList, base, uuid, state, lock, mutex, crashed>>

\* The index the walk from the list root leads to, 0 when it meets the root
\* again: position n > 0 is after the first n - 1 entries, -n before the last
\* n - 1.
InsertIndex(len, position) ==
    LET n == IF position > 0 THEN position ELSE -position
    IN IF n - 1 > len THEN 0
       ELSE IF position > 0 THEN n ELSE len + 2 - n

\* hal_add_funct_to_thread, up to the mutex; position 0 is refused
hal_add_funct_to_thread(k, name, thr, pos) ==
    /\ Enter(k, "hal_add_funct_to_thread") /\ "CONFIG" \notin lock /\ pos # 0
    /\ call' = [call EXCEPT ![k] = [Idle EXCEPT !.pc = "add", !.name = name, !.thr = thr, !.pos = pos]]
    /\ UNCHANGED <<comps, functs, pins, paramList, threads, tasks, uuid, life, lock, mutex, crashed>>

\* A function that may be added: free or re-entrant
Available(f) == funct[f].users = 0 \/ funct[f].name \in Reentrant

\* its mutex section.  When the memory is used up, alloc_funct_entry_struct
\* initialises the list entry through the null pointer before it tests it.
add_entry(k) ==
    LET f == FindFunct(call[k].name)
        t == FindThread(call[k].thr)
        i == InsertIndex(Len(thread[t].functs), call[k].pos)
        accepted == /\ f # 0 /\ t # 0
                    /\ Available(f)
                    /\ call[k].name \in FpFuncts => call[k].thr \in FpThreads
                    /\ i # 0
        left == Cardinality(EntriesOf(Listed(threadList))) < MaxEntries
    IN /\ Locked(k, "add")
       /\ crashed' = (accepted /\ ~left)
       /\ IF accepted /\ left
          THEN /\ thread' = [thread EXCEPT ![t].functs = InsertAt(@, i, f)]
               /\ funct' = [funct EXCEPT ![f].users = @ + 1]
          ELSE UNCHANGED <<thread, funct>>
       /\ Return(k)
       /\ UNCHANGED <<comps, functList, functFree, pins, paramList, threadList, threadFree,
                      tasks, uuid, life, lock, mutex>>

\* hal_del_funct_from_thread, up to the mutex
hal_del_funct_from_thread(k, name, thr) ==
    /\ Enter(k, "hal_del_funct_from_thread") /\ "CONFIG" \notin lock
    /\ call' = [call EXCEPT ![k] = [Idle EXCEPT !.pc = "del", !.name = name, !.thr = thr]]
    /\ UNCHANGED <<comps, functs, pins, paramList, threads, tasks, uuid, life, lock, mutex, crashed>>

\* its mutex section: the first entry of the function leaves the thread
del_entry(k) ==
    LET f == FindFunct(call[k].name)
        t == FindThread(call[k].thr)
        removed == /\ f # 0 /\ t # 0
                   /\ funct[f].users # 0
                   /\ f \in Listed(thread[t].functs)
    IN /\ Locked(k, "del")
       /\ IF removed
          THEN /\ thread' = [thread EXCEPT ![t].functs = RemoveFirst(@, f)]
               /\ funct' = [funct EXCEPT ![f].users = @ - 1]
          ELSE UNCHANGED <<thread, funct>>
       /\ Return(k)
       /\ UNCHANGED <<comps, functList, functFree, pins, paramList, threadList, threadFree,
                      tasks, uuid, life, lock, mutex, crashed>>

------------------------------------------------------------------------------
(* Lifecycle.                                                                  *)

\* hal_start_threads past its gates; the two stores are outside the mutex
hal_start_threads(k) ==
    /\ Enter(k, "hal_start_threads") /\ "RUN" \notin lock /\ state = "ACTIVE"
    /\ threads_running' = 1
    /\ Goto(k, "start_state")
    /\ UNCHANGED <<comps, functs, pins, paramList, threads, tasks, uuid, state, lock, mutex, crashed>>

start_state(k) ==
    /\ At(k, "start_state")
    /\ state' = "RUNNING"
    /\ Return(k)
    /\ UNCHANGED <<comps, functs, pins, paramList, threads, tasks, uuid, threads_running, lock, mutex, crashed>>

\* hal_stop_threads
hal_stop_threads(k) ==
    /\ Enter(k, "hal_stop_threads") /\ "RUN" \notin lock /\ state = "RUNNING"
    /\ threads_running' = 0
    /\ Goto(k, "stop_state")
    /\ UNCHANGED <<comps, functs, pins, paramList, threads, tasks, uuid, state, lock, mutex, crashed>>

stop_state(k) ==
    /\ At(k, "stop_state")
    /\ state' = "ACTIVE"
    /\ Return(k)
    /\ UNCHANGED <<comps, functs, pins, paramList, threads, tasks, uuid, threads_running, lock, mutex, crashed>>

\* hal_app_exit
hal_app_exit(k) ==
    /\ Enter(k, "hal_app_exit") /\ state # "DESTROYED"
    /\ state' = "SHUTTING_DOWN"
    /\ Goto(k, "app_exit")
    /\ UNCHANGED <<comps, functs, pins, paramList, threads, tasks, uuid, threads_running, lock, mutex, crashed>>

\* its mutex section: free_thread_struct for every listed thread
app_exit(k) ==
    LET gone == Listed(threadList)
        ids == {thread[t].task_id : t \in gone}
    IN /\ Locked(k, "app_exit")
       /\ thread' = [t \in DOMAIN thread |-> IF t \in gone THEN FreedThread(t) ELSE thread[t]]
       /\ threadList' = <<>>
       /\ threadFree' = Reverse(threadList) \o threadFree
       /\ funct' = FunctsReleased(gone)
       /\ task' = [i \in DOMAIN task |-> IF i \in ids THEN 0 ELSE task[i]]
       /\ threads_running' = IF gone = {} THEN threads_running ELSE 0
       /\ Goto(k, "app_exit_unmap")
       /\ UNCHANGED <<comps, functList, functFree, pins, paramList, base, uuid, state, lock, mutex, crashed>>

\* rtapi_shmem_delete unmaps the segment (hal_app_main or the first hal_init
\* took the only reference), then state = HAL_S_DESTROYED is stored into it
app_exit_unmap(k) ==
    /\ At(k, "app_exit_unmap")
    /\ crashed' = TRUE
    /\ UNCHANGED <<comps, functs, pins, paramList, threads, tasks, uuid, life, lock, mutex, call>>

------------------------------------------------------------------------------
\* A caller makes a call
Call(k) ==
    \/ \E name \in CompNames : hal_init(k, name)
    \/ \E thr \in ThreadNames :
          \/ hal_create_thread(k, thr)
          \/ hal_thread_delete(k, thr)
          \/ \E name \in Names :
                \/ \E pos \in Positions : hal_add_funct_to_thread(k, name, thr, pos)
                \/ hal_del_funct_from_thread(k, name, thr)
    \/ \E id \in 1..uuid :
          \/ hal_exit(k, id)
          \/ hal_ready(k, id)
          \/ hal_unready(k, id)
          \/ \E name \in Names : hal_export_funct(k, id, name)
    \/ \E bits \in LockTypes : hal_set_lock(k, bits)
    \/ hal_start_threads(k) \/ hal_stop_threads(k) \/ hal_app_exit(k)

\* A caller goes on with the call it is in
Continue(k) ==
    \/ export_insert(k) \/ export_gate(k) \/ export_pin(k) \/ export_zero(k)
    \/ export_tmax(k) \/ export_inc(k)
    \/ create_refused(k) \/ create_rollback(k) \/ create_start_failed(k) \/ create_insert(k)
    \/ create_comp(k) \/ create_gate(k) \/ create_tmax(k) \/ create_pin(k) \/ create_ready(k)
    \/ delete_missing(k) \/ delete_exit(k) \/ delete_thread(k)
    \/ add_entry(k) \/ del_entry(k)
    \/ start_state(k) \/ stop_state(k) \/ app_exit(k) \/ app_exit_unmap(k)

\* After the process has died nothing moves.
Crashed == crashed /\ UNCHANGED vars

Next == (\E k \in Callers : Call(k) \/ Continue(k)) \/ Crashed

\* A caller inside the library keeps running: it is an ordinary thread, and
\* the mutex is busy only while another one is.
Fairness == \A k \in Callers : WF_vars(Continue(k))

Spec == Init /\ [][Next]_vars /\ Fairness

------------------------------------------------------------------------------
(* Properties.                                                                 *)

\* Where a caller can be: in no call, or before the section its pc names
Places == {"idle", "export_insert", "export_pin", "export_pin_locked", "export_zero", "export_tmax",
           "export_tmax_locked", "export_inc", "export_inc_locked", "create_insert", "create_comp",
           "create_tmax", "create_tmax_locked", "create_pin", "create_pin_locked", "create_ready",
           "create_ready_locked", "delete", "delete_exit", "add", "del", "start_state", "stop_state", "app_exit",
           "app_exit_unmap"}

CallType == [pc : Places, id : -1..MaxIds, name : Names \cup ThreadNames \cup {0},
             thr : ThreadNames \cup {0},
             pos : Positions \cup {0}, slot : Nat]

\* The structures 1..n are linked or free, each in one place
Shared(list, free, n) ==
    /\ IsInjective(list) /\ IsInjective(free)
    /\ Listed(list) \cap Listed(free) = {}
    /\ Listed(list) \cup Listed(free) = 1..n

\* Every structure of hal_data holds what its C type and the bounds allow and is
\* either linked or free: none is lost, freed twice or handed out while it is in
\* use.  users is never negative.
TypeOK ==
    /\ \A c \in 1..MaxComps : comp[c].id \in 0..MaxIds /\ comp[c].ready \in BOOLEAN
    /\ \A f \in 1..MaxFuncts : /\ funct[f].name \in Names \cup {NoName}
                               /\ funct[f].owner \in 0..MaxComps
                               /\ funct[f].users \in 0..MaxEntries
                               /\ funct[f].runtime \in 0..MaxPins
    /\ Shared(compList, compFree, MaxComps)
    /\ Shared(functList, functFree, MaxFuncts)
    /\ Shared(pinList, pinFree, MaxPins)
    /\ Shared(threadList, threadFree, MaxThreads)
    /\ \A i \in DOMAIN task : task[i] \in 0..MaxThreads
    /\ Len(paramList) <= MaxParams
    /\ state \in {"ACTIVE", "RUNNING", "SHUTTING_DOWN"} /\ threads_running \in {0, 1}
    /\ call \in [Callers -> CallType]

\* The functions and params in the lists belong to components in the list:
\* free_comp_struct takes a component's own with it, so that an owner_ptr never
\* reaches a structure that a later hal_init gives to somebody else.
OwnersListed ==
    /\ \A f \in Listed(functList) : funct[f].owner \in Listed(compList)
    /\ \A q \in Listed(paramList) : q.owner \in Listed(compList)

\* users of a listed function counts the entries that call it, over all listed
\* threads: free_funct_struct looks for entries only when users > 0, and
\* hal_add_funct_to_thread trusts it to keep a function on one thread.
UsersCountEntries ==
    \A f \in Listed(functList) :
        funct[f].users = Cardinality(CallsOf(f, Listed(threadList)))

\* No listed thread holds an entry of a function that has been freed: a
\* real-time thread would call through it.
EntriesListed ==
    \A t \in Listed(threadList) : Listed(thread[t].functs) \subseteq Listed(functList)

\* The function, pin and param lists are strictly ordered by name, on which the
\* duplicate test of the insertion loops depends.
ListsSorted ==
    \A names \in {FunctNames, PinNames, ParamNames} :
        \A i, j \in DOMAIN names : i < j => names[i] < names[j]

\* While a component is and stays ready, no function, param or pin is added to
\* it, whatever calls were under way when hal_ready was called.
ReadyIsFrozen ==
    [][\A c \in Listed(compList) \cap Listed(compList') :
          comp[c].ready /\ comp'[c].ready /\ comp'[c].id = comp[c].id =>
             /\ \A f \in Listed(functList') :
                   funct'[f].owner = c => f \in Listed(functList) /\ funct[f].owner = c
             /\ \A q \in Listed(paramList') : q.owner = c => q \in Listed(paramList)
             /\ \A p \in Listed(pinList') :
                   pin'[p].owner = c => p \in Listed(pinList) /\ pin[p].owner = c]_vars

\* A param that shows a field of a function shows one that is still listed and
\* belongs to the param's own component, although hal_export_funct gives the
\* mutex back between linking the function and creating the param.
ParamsShowLiveFuncts ==
    \A q \in Listed(paramList) :
        q.data # 0 => q.data \in Listed(functList) /\ funct[q.data].owner = q.owner

\* hal_priv.h: in ACTIVE "threads may be created/deleted".
ThreadDeleteReturns ==
    \A k \in Callers : call[k].pc = "delete" ~> call[k] = Idle

==============================================================================
