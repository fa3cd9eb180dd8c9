----------------------------- MODULE RtapiShmem -----------------------------
(***************************************************************************)
(* System V shared memory as rtapi/uspace_common.c uses it: the table of   *)
(* handles each process keeps, the segments the kernel keeps for all of    *)
(* them, and rtapi_init, which takes module numbers from one such segment. *)
(*                                                                         *)
(* Every system call is a step, because another process can act between    *)
(* any two.  A process runs one call at a time.  A process that dies loses *)
(* its table and its mappings, never a segment: the kernel keeps it, with  *)
(* what is in it.                                                          *)
(***************************************************************************)
EXTENDS Integers, FiniteSets

CONSTANTS
    Procs,          \* processes that use the library
    Keys,           \* keys of segments
    UuidKey,        \* UUID_KEY
    MaxShm,         \* MAX_SHM: size of the table of handles
    ShmgetRetries,  \* 5: repetitions of shmget after EPERM
    MaxSegs,        \* bound: segments ever created, then shmget says ENOSPC
    MaxRefs,        \* bound: references to one key in one process
    MaxIds          \* bound: module numbers taken from one segment

ASSUME KeysAssumption == UuidKey \in Keys
ASSUME BoundsAssumption ==
    /\ {MaxShm, MaxSegs, MaxRefs, MaxIds} \subseteq Nat \ {0}
    /\ ShmgetRetries \in Nat

VARIABLES
    segs,           \* the kernel's segments
    made,           \* how many of them were created
    shmem_array,    \* each process's handles
    uuid_data,      \* each process's static pointer into the uuid segment
    call,           \* what each process is executing
    refs,           \* history: references taken and not given back
    ids,            \* history: module numbers taken and not given back
    died            \* history: a process died

vars == <<segs, made, shmem_array, uuid_data, call, refs, ids, died>>

Segments == 1 .. MaxSegs
Slots == 0 .. MaxShm - 1

States == {"UNBORN", "CREATED", "ACTIVE", "DETACHED", "DESTROYED", "ERROR"}

\* bound: the key still leads to the segment; gone once removed and detached.
NoSegment == [key |-> UuidKey, exists |-> FALSE, bound |-> FALSE, attached |-> {},
              mutex |-> FALSE, uuid |-> 0]

Unborn == [magic |-> FALSE, key |-> UuidKey, id |-> 0, count |-> 0, state |-> "UNBORN"]

Idle == [pc |-> "idle", key |-> UuidKey, slot |-> 0, retries |-> 0, init |-> FALSE]

Init ==
    /\ segs = [s \in Segments |-> NoSegment] /\ made = 0
    /\ shmem_array = [p \in Procs |-> [h \in Slots |-> Unborn]]
    /\ uuid_data = [p \in Procs |-> "null"]
    /\ call = [p \in Procs |-> Idle]
    /\ refs = [p \in Procs |-> [k \in Keys |-> 0]]
    /\ ids = [p \in Procs |-> {}]
    /\ died = FALSE

-----------------------------------------------------------------------------
(* The kernel. *)

Found(key) == {s \in Segments : segs[s].bound /\ segs[s].key = key}

\* shmget with IPC_CREAT: the segment of the key, or a new zeroed one
Shmget(key, s) ==
    IF Found(key) # {}
    THEN s \in Found(key) /\ UNCHANGED <<segs, made>>
    ELSE /\ s = made + 1 /\ s \in Segments
         /\ segs' = [segs EXCEPT ![s] = [NoSegment EXCEPT !.key = key, !.exists = TRUE, !.bound = TRUE]]
         /\ made' = s

Detached(seg, p) ==
    LET left == seg.attached \ {p}
    IN  [seg EXCEPT !.attached = left, !.exists = @ /\ (seg.bound \/ left # {})]

\* shmctl IPC_RMID: the key is free again, the segment goes with its last user
Removed(seg) == [seg EXCEPT !.bound = FALSE, !.exists = @ /\ seg.attached # {}]

-----------------------------------------------------------------------------
(* rtapi_shmem_new, by itself or in rtapi_init. *)

Valid(p, key) == {h \in Slots : shmem_array[p][h].magic /\ shmem_array[p][h].key = key}

FreeSlots(p) == {h \in Slots : ~shmem_array[p][h].magic}

Lowest(S) == CHOOSE h \in S : \A i \in S : h <= i

At(p, pc) == call[p].pc = pc

Goto(p, pc) == call' = [call EXCEPT ![p].pc = pc]

Return(p) == call' = [call EXCEPT ![p] = Idle]

\* rtapi_shmem_new returns a handle: to its caller or into rtapi_init
Returns(p, key, init) ==
    /\ refs' = [refs EXCEPT ![p][key] = @ + 1]
    /\ IF init THEN call' = [call EXCEPT ![p] = [Idle EXCEPT !.pc = "uuid_get", !.init = TRUE]]
               ELSE Return(p)

\* Variant: a mapped segment is handed out without counting the reference.
new_mapped_uncounted(p, key, init) ==
    /\ At(p, "idle") /\ refs[p][key] < MaxRefs
    /\ Valid(p, key) # {}
    /\ Returns(p, key, init)
    /\ UNCHANGED <<shmem_array, segs, made, uuid_data, ids, died>>

\* the key is mapped in this process: the reference is counted
new_mapped(p, key, init) ==
    /\ At(p, "idle") /\ refs[p][key] < MaxRefs
    /\ Valid(p, key) # {}
    /\ shmem_array' = [shmem_array EXCEPT ![p][Lowest(Valid(p, key))].count = @ + 1]
    /\ Returns(p, key, init)
    /\ UNCHANGED <<segs, made, uuid_data, ids, died>>

\* it is not, and there is a slot
new_unmapped(p, key, init) ==
    /\ At(p, "idle") /\ refs[p][key] < MaxRefs
    /\ Valid(p, key) = {} /\ FreeSlots(p) # {}
    /\ call' = [call EXCEPT ![p] = [pc |-> "shmget", key |-> key, slot |-> Lowest(FreeSlots(p)),
                                    retries |-> ShmgetRetries, init |-> init]]
    /\ UNCHANGED <<segs, made, shmem_array, uuid_data, refs, ids, died>>

new_shmget(p) ==
    /\ At(p, "shmget")
    /\ \E s \in Segments :
          /\ Shmget(call[p].key, s)
          /\ shmem_array' = [shmem_array EXCEPT ![p][call[p].slot].id = s,
                                                ![p][call[p].slot].state = "CREATED"]
    /\ Goto(p, "shmat")
    /\ UNCHANGED <<uuid_data, refs, ids, died>>

\* Variant: the repetitions are counted and never run out.
new_shmget_fails_forever(p) ==
    /\ At(p, "shmget")
    /\ call' = [call EXCEPT ![p].retries = @ - 1]
    /\ UNCHANGED <<segs, made, shmem_array, uuid_data, refs, ids, died>>

\* EPERM is tried again, any other error is returned
new_shmget_fails(p) ==
    /\ At(p, "shmget")
    /\ \/ Return(p)
       \/ call[p].retries > 0 /\ call' = [call EXCEPT ![p].retries = @ - 1]
    /\ shmem_array' = [shmem_array EXCEPT ![p][call[p].slot].id = 0]
    /\ UNCHANGED <<segs, made, uuid_data, refs, ids, died>>

\* shmat, the page touch and the handle's fields.  A new mapping of the uuid
\* segment may come where the static pointer still points, or elsewhere.
new_shmat(p) ==
    LET h == call[p].slot
        s == shmem_array[p][h].id
        key == call[p].key
    IN /\ At(p, "shmat")
       /\ segs[s].exists
       /\ segs' = [segs EXCEPT ![s].attached = @ \cup {p}]
       /\ shmem_array' = [shmem_array EXCEPT ![p][h] = [magic |-> TRUE, key |-> key, id |-> s,
                                                        count |-> 1, state |-> "ACTIVE"]]
       /\ \E v \in IF key # UuidKey \/ uuid_data[p] = "null" THEN {uuid_data[p]} ELSE {"good", "stale"} :
             uuid_data' = [uuid_data EXCEPT ![p] = v]
       /\ Returns(p, key, call[p].init)
       /\ UNCHANGED <<made, ids, died>>

\* shmat fails, for want of memory or because the segment has gone: the
\* segment is removed, whoever else may use it
new_shmat_fails(p) ==
    /\ At(p, "shmat")
    /\ Goto(p, "rollback")
    /\ UNCHANGED <<segs, made, shmem_array, uuid_data, refs, ids, died>>

new_rollback(p) ==
    LET h == call[p].slot
        s == shmem_array[p][h].id
    IN /\ At(p, "rollback")
       /\ segs' = [segs EXCEPT ![s] = Removed(@)]
       /\ shmem_array' = [shmem_array EXCEPT ![p][h].state = "ERROR", ![p][h].id = 0]
       /\ Return(p)
       /\ UNCHANGED <<made, uuid_data, refs, ids, died>>

-----------------------------------------------------------------------------
(* rtapi_shmem_delete, by itself or in rtapi_exit. *)

\* The count goes down; at zero the mapping goes.
delete(p, key) ==
    LET h == Lowest(Valid(p, key))
        s == shmem_array[p][h].id
    IN IF shmem_array[p][h].count > 1
       THEN /\ shmem_array' = [shmem_array EXCEPT ![p][h].count = @ - 1]
            /\ UNCHANGED <<segs, call>>
       ELSE /\ shmem_array' = [shmem_array EXCEPT ![p][h].count = 0, ![p][h].state = "DETACHED"]
            /\ segs' = [segs EXCEPT ![s] = Detached(@, p)]
            /\ call' = [call EXCEPT ![p] = [Idle EXCEPT !.pc = "stat", !.key = key, !.slot = h]]

rtapi_shmem_delete(p, key) ==
    /\ At(p, "idle") /\ key # UuidKey /\ refs[p][key] > 0
    /\ refs' = [refs EXCEPT ![p][key] = @ - 1]
    /\ delete(p, key)
    /\ UNCHANGED <<made, uuid_data, ids, died>>

\* rtapi_exit of the module that has the number
rtapi_exit(p, id) ==
    /\ At(p, "idle") /\ id \in ids[p]
    /\ ids' = [ids EXCEPT ![p] = @ \ {id}]
    /\ refs' = [refs EXCEPT ![p][UuidKey] = @ - 1]
    /\ delete(p, UuidKey)
    /\ UNCHANGED <<made, uuid_data, died>>

\* Variant: the segment is never asked to go.
delete_stat_only(p) ==
    /\ At(p, "stat")
    /\ shmem_array' = [shmem_array EXCEPT ![p][call[p].slot].magic = FALSE]
    /\ Return(p)
    /\ UNCHANGED <<segs, made, uuid_data, refs, ids, died>>

\* shmctl IPC_STAT: with nobody attached the segment is to be removed,
\* otherwise (or when it has gone already) only the slot is released
delete_stat(p) ==
    LET h == call[p].slot
        seg == segs[shmem_array[p][h].id]
    IN /\ At(p, "stat")
       /\ IF seg.exists /\ seg.attached = {}
          THEN Goto(p, "rmid") /\ UNCHANGED shmem_array
          ELSE /\ shmem_array' = [shmem_array EXCEPT ![p][h].magic = FALSE]
               /\ Return(p)
       /\ UNCHANGED <<segs, made, uuid_data, refs, ids, died>>

\* shmctl IPC_RMID; a process that attached since then keeps the segment, but
\* the key no longer leads to it
delete_rmid(p) ==
    LET h == call[p].slot
        s == shmem_array[p][h].id
    IN /\ At(p, "rmid")
       /\ segs' = [segs EXCEPT ![s] = Removed(@)]
       /\ shmem_array' = [shmem_array EXCEPT ![p][h].state = "DESTROYED", ![p][h].magic = FALSE]
       /\ Return(p)
       /\ UNCHANGED <<made, uuid_data, refs, ids, died>>

-----------------------------------------------------------------------------
(* The rest of rtapi_init: a number from the segment, under its mutex. *)

UuidSegment(p) == shmem_array[p][Lowest(Valid(p, UuidKey))].id

Dies(p) ==
    /\ segs' = [s \in Segments |-> Detached(segs[s], p)]
    /\ shmem_array' = [shmem_array EXCEPT ![p] = [h \in Slots |-> Unborn]]
    /\ uuid_data' = [uuid_data EXCEPT ![p] = "null"]
    /\ Return(p)
    /\ refs' = [refs EXCEPT ![p] = [k \in Keys |-> 0]]
    /\ ids' = [ids EXCEPT ![p] = {}]
    /\ died' = TRUE
    /\ UNCHANGED made

\* Variant: the mutex is not waited for.
uuid_get_unlocked(p) ==
    LET s == UuidSegment(p)
    IN /\ At(p, "uuid_get") /\ uuid_data[p] # "stale"
       /\ segs[s].uuid < MaxIds
       /\ segs' = [segs EXCEPT ![s].mutex = TRUE]
       /\ uuid_data' = [uuid_data EXCEPT ![p] = "good"]
       /\ Goto(p, "uuid_inc")
       /\ UNCHANGED <<made, shmem_array, refs, ids, died>>

\* the static pointer is set the first time only
uuid_get(p) ==
    LET s == UuidSegment(p)
    IN /\ At(p, "uuid_get") /\ uuid_data[p] # "stale"
       /\ ~segs[s].mutex /\ segs[s].uuid < MaxIds
       /\ segs' = [segs EXCEPT ![s].mutex = TRUE]
       /\ uuid_data' = [uuid_data EXCEPT ![p] = "good"]
       /\ Goto(p, "uuid_inc")
       /\ UNCHANGED <<made, shmem_array, refs, ids, died>>

\* the mutex is looked for where the segment was mapped before
uuid_get_unmapped(p) ==
    /\ At(p, "uuid_get") /\ uuid_data[p] = "stale"
    /\ Dies(p)

uuid_inc(p) ==
    /\ At(p, "uuid_inc")
    /\ segs' = [segs EXCEPT ![UuidSegment(p)].uuid = @ + 1]
    /\ Goto(p, "uuid_give")
    /\ UNCHANGED <<made, shmem_array, uuid_data, refs, ids, died>>

\* the number is read, then the mutex given back
uuid_give(p) ==
    LET s == UuidSegment(p)
    IN /\ At(p, "uuid_give")
       /\ ids' = [ids EXCEPT ![p] = @ \cup {[seg |-> s, uuid |-> segs[s].uuid]}]
       /\ segs' = [segs EXCEPT ![s].mutex = FALSE]
       /\ Return(p)
       /\ UNCHANGED <<made, shmem_array, uuid_data, refs, died>>

\* A process is killed, anywhere; its successor starts with an empty table.
crash(p) ==
    /\ ~died
    /\ Dies(p)

-----------------------------------------------------------------------------
\* A call on a key; with init it is rtapi_init, on the uuid segment.
Open(p) ==
    \E key \in Keys :
        LET init == key = UuidKey
        IN new_mapped(p, key, init) \/ new_unmapped(p, key, init)

Close(p) ==
    \/ \E key \in Keys : rtapi_shmem_delete(p, key)
    \/ \E id \in ids[p] : rtapi_exit(p, id)

Continue(p) ==
    \/ new_shmget(p) \/ new_shmget_fails(p) \/ new_shmat(p) \/ new_shmat_fails(p) \/ new_rollback(p)
    \/ delete_stat(p) \/ delete_rmid(p)
    \/ uuid_get(p) \/ uuid_get_unmapped(p) \/ uuid_inc(p) \/ uuid_give(p)

Next == \E p \in Procs : Open(p) \/ Close(p) \/ Continue(p) \/ crash(p)

Spec == Init /\ [][Next]_vars

-----------------------------------------------------------------------------
\* Segments, handles and calls stay in their types: a count is never negative
\* and no more than the references that were asked for.
TypeOK ==
    /\ segs \in [Segments -> [key : Keys, exists : BOOLEAN, bound : BOOLEAN, attached : SUBSET Procs,
                              mutex : BOOLEAN, uuid : 0 .. MaxIds]]
    /\ made \in 0 .. MaxSegs
    /\ shmem_array \in [Procs -> [Slots -> [magic : BOOLEAN, key : Keys, id : 0 .. MaxSegs,
                                            count : 0 .. MaxRefs, state : States]]]
    /\ uuid_data \in [Procs -> {"null", "good", "stale"}]
    /\ call \in [Procs -> [pc : {"idle", "shmget", "shmat", "rollback", "stat", "rmid",
                                 "uuid_get", "uuid_inc", "uuid_give"},
                           key : Keys, slot : Slots, retries : 0 .. ShmgetRetries, init : BOOLEAN]]
    /\ refs \in [Procs -> [Keys -> 0 .. MaxRefs]]
    /\ ids \in [Procs -> SUBSET [seg : Segments, uuid : 1 .. MaxIds]]
    /\ died \in BOOLEAN

\* As long as somebody in a process holds a reference to a key, the process
\* has exactly one handle for it, which counts the references, and is attached
\* to a segment of that key that exists, whatever other processes delete.
RefsKeepMapping ==
    \A p \in Procs, key \in Keys :
        refs[p][key] > 0 =>
            \E h \in Slots :
                LET handle == shmem_array[p][h]
                IN /\ Valid(p, key) = {h}
                   /\ handle.count = refs[p][key] /\ handle.state = "ACTIVE"
                   /\ segs[handle.id].exists /\ segs[handle.id].key = key
                   /\ p \in segs[handle.id].attached

\* Whoever leaves last removes the segment: unless a process died, none is left
\* behind when nobody is attached and no call is under way, although several
\* processes detach and ask for the number of users at the same time.
LastOneRemoves ==
    (~died /\ \A p \in Procs : At(p, "idle")) =>
        \A s \in Segments : segs[s].exists => segs[s].attached # {}

\* "Returns a unique ID value": two modules never have the same number from the
\* same segment, in one process or in two, although uuid++ and the read of the
\* result are separate steps and processes come, go and die in between.
IdsDistinct ==
    /\ \A p, q \in Procs : p # q => ids[p] \cap ids[q] = {}
    /\ \A p \in Procs : At(p, "idle") => Cardinality(ids[p]) = refs[p][UuidKey]

=============================================================================
