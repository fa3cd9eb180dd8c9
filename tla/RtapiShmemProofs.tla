-------------------------- MODULE RtapiShmemProofs --------------------------
(***************************************************************************)
(* Proofs about RtapiShmem for any set of processes and keys, any size of  *)
(* the table of handles and any number of segments, references, module     *)
(* numbers and retries.                                                    *)
(***************************************************************************)
EXTENDS RtapiShmem, FiniteSetTheorems, TLAPS

Numbering == {"uuid_get", "uuid_inc", "uuid_give"}

\* The types, with the Booleans by a name of their own: the provers reason
\* either with a field that is a formula or with its membership in BOOLEAN.
Flag == BOOLEAN

Segment == [key : Keys, exists : Flag, bound : Flag, attached : SUBSET Procs, mutex : Flag,
            uuid : 0 .. MaxIds]

Handle == [magic : Flag, key : Keys, id : 0 .. MaxSegs, count : 0 .. MaxRefs, state : States]

Places == {"idle", "shmget", "shmat", "rollback", "stat", "rmid", "uuid_get", "uuid_inc", "uuid_give"}

Call == [pc : Places, key : Keys, slot : Slots, retries : 0 .. ShmgetRetries, init : Flag]

Types ==
    /\ segs \in [Segments -> Segment] /\ made \in 0 .. MaxSegs
    /\ shmem_array \in [Procs -> [Slots -> Handle]]
    /\ uuid_data \in [Procs -> {"null", "good", "stale"}]
    /\ call \in [Procs -> Call]
    /\ refs \in [Procs -> [Keys -> 0 .. MaxRefs]]
    /\ ids \in [Procs -> SUBSET [seg : Segments, uuid : 1 .. MaxIds]]
    /\ died \in Flag

\* A valid handle whose segment rtapi_shmem_delete has detached already.
Leaving(p, h) == call[p].pc \in {"stat", "rmid"} /\ call[p].slot = h

\* A valid handle is the only one of its process for its key, and leads to a
\* segment of that key; until it is left it counts the references, and the
\* process is attached to the segment.
HandleInv(p) ==
    \A h \in Slots : shmem_array[p][h].magic =>
        LET k == shmem_array[p][h].key
            s == shmem_array[p][h].id
        IN /\ s \in 1 .. made /\ segs[s].key = k
           /\ \A i \in Slots : (shmem_array[p][i].magic /\ shmem_array[p][i].key = k) => i = h
           /\ IF Leaving(p, h)
              THEN refs[p][k] = 0
              ELSE /\ shmem_array[p][h].count = refs[p][k] /\ refs[p][k] > 0
                   /\ shmem_array[p][h].state = "ACTIVE"
                   /\ segs[s].exists /\ p \in segs[s].attached

\* A reference is a reference to a valid handle.
RefInv(p) ==
    \A k \in Keys : refs[p][k] > 0 => \E h \in Slots : shmem_array[p][h].magic /\ shmem_array[p][h].key = k

\* What a call under way relies on.
CallInv(p) ==
    LET h == call[p].slot
    IN /\ call[p].pc \in {"shmget", "shmat", "rollback"} =>
             /\ ~shmem_array[p][h].magic
             /\ \A i \in Slots : shmem_array[p][i].magic => shmem_array[p][i].key # call[p].key
             /\ call[p].init <=> call[p].key = UuidKey
       /\ call[p].pc \in {"shmat", "rollback"} =>
             shmem_array[p][h].id \in 1 .. made /\ segs[shmem_array[p][h].id].key = call[p].key
       /\ call[p].pc \in {"stat", "rmid"} => shmem_array[p][h].magic

\* A key leads only to segments that were created.
SegInv == \A s \in Segments : segs[s].bound => s <= made

ProcInv(p) == HandleInv(p) /\ RefInv(p) /\ CallInv(p)

\* What a step of one process may do to the segments of another.
Spared(q) ==
    /\ made <= made'
    /\ \A s \in 1 .. made :
          /\ segs'[s].key = segs[s].key
          /\ segs[s].exists /\ q \in segs[s].attached => segs'[s].exists /\ q \in segs'[s].attached

Alone(q) ==
    /\ call'[q] = call[q] /\ shmem_array'[q] = shmem_array[q]
    /\ refs'[q] = refs[q] /\ ids'[q] = ids[q] /\ uuid_data'[q] = uuid_data[q]

\* A segment nobody is attached to, and a process that is about to attach to
\* it or to remove it.
Orphan(s) == segs[s].exists /\ segs[s].attached = {}

Cleans(p, s) ==
    /\ call[p].pc \in {"shmat", "rollback", "stat", "rmid"}
    /\ shmem_array[p][call[p].slot].id = s

\* A step of p leaves no segment behind without somebody who cleans up.
CleansStep(p) ==
    \A s \in Segments : Orphan(s)' => Cleans(p, s)' \/ (Orphan(s) /\ ~Cleans(p, s))

\* A step that takes no number and no mutex.
SegsQuiet ==
    \A s \in 1 .. made : segs'[s].mutex = segs[s].mutex /\ segs'[s].uuid = segs[s].uuid

-----------------------------------------------------------------------------
(* Operators. *)

LEMMA LowestIn ==
    ASSUME NEW S \in SUBSET Slots, S # {}
    PROVE  Lowest(S) \in S
<1>1. S \subseteq Nat
  BY BoundsAssumption DEF Slots
<1> DEFINE R == OpToRel(<, Nat)
<1>2. IsWellFoundedOn(R, Nat)
  BY NatLessThanWellFounded, Zenon
<1>3. \A x, y \in Nat : y < x => <<y, x>> \in R
  BY DEF OpToRel
<1> HIDE DEF R
<1>4. PICK x \in S : \A y \in S : ~(<<y, x>> \in R)
  BY <1>1, <1>2, WFMin
<1>5. \A y \in S : x <= y
  <2> TAKE y \in S
  <2>1. x \in Nat /\ y \in Nat
    BY <1>1
  <2>2. ~(y < x)
    BY <1>3, <1>4, <2>1, Zenon
  <2> QED
    BY <2>1, <2>2
<1> QED
  BY <1>5 DEF Lowest

LEMMA LowestOnly ==
    ASSUME NEW h \in Slots
    PROVE  Lowest({h}) = h
BY BoundsAssumption DEF Lowest, Slots

LEMMA ProcFrame ==
    ASSUME NEW q \in Procs, ProcInv(q), Alone(q), Spared(q), made \in Nat, made' \in Nat
    PROVE  ProcInv(q)'
<1>1. HandleInv(q)'
  BY DEF ProcInv, HandleInv, Alone, Spared, Leaving
<1>2. RefInv(q)'
  BY DEF ProcInv, RefInv, Alone
<1>3. CallInv(q)'
  BY DEF ProcInv, CallInv, Alone, Spared
<1> QED
  BY <1>1, <1>2, <1>3 DEF ProcInv

LEMMA TypesAreTypeOK == Types <=> TypeOK
BY Zenon DEF Types, TypeOK, Segment, Handle, Call, Places, Flag

Step(p) == Open(p) \/ Close(p) \/ Continue(p) \/ crash(p)

\* A step of one process changes nothing that belongs to another.
LEMMA OthersAlone ==
    ASSUME Types, NEW p \in Procs, NEW q \in Procs, q # p, Step(p)
    PROVE  Alone(q)
<1> USE DEF Types, Alone, At, Goto, Return, Returns
<1>1. CASE Open(p)
  BY <1>1 DEF Open, new_mapped, new_unmapped
<1>2. CASE Close(p)
  BY <1>2 DEF Close, rtapi_shmem_delete, rtapi_exit, delete
<1>3. CASE new_shmget(p) \/ new_shmget_fails(p)
  BY <1>3 DEF new_shmget, new_shmget_fails
<1>4. CASE new_shmat(p) \/ new_shmat_fails(p) \/ new_rollback(p)
  BY <1>4 DEF new_shmat, new_shmat_fails, new_rollback
<1>5. CASE delete_stat(p) \/ delete_rmid(p)
  BY <1>5 DEF delete_stat, delete_rmid
<1>6. CASE uuid_get(p) \/ uuid_inc(p) \/ uuid_give(p)
  BY <1>6 DEF uuid_get, uuid_inc, uuid_give
<1>7. CASE uuid_get_unmapped(p) \/ crash(p)
  BY <1>7 DEF uuid_get_unmapped, crash, Dies
<1> QED
  BY <1>1, <1>2, <1>3, <1>4, <1>5, <1>6, <1>7 DEF Step, Continue

-----------------------------------------------------------------------------
(* What a step does to the segments. *)

LEMMA Flags == TRUE \in Flag /\ FALSE \in Flag
BY Zenon DEF Flag

LEMMA ConjunctionFlag ==
    ASSUME NEW a, NEW b
    PROVE  (a /\ b) \in Flag
BY Zenon DEF Flag

LEMMA RemovedFacts ==
    ASSUME NEW seg \in Segment
    PROVE  /\ Removed(seg) \in Segment
           /\ Removed(seg).key = seg.key /\ Removed(seg).attached = seg.attached
           /\ Removed(seg).uuid = seg.uuid /\ Removed(seg).mutex = seg.mutex
           /\ Removed(seg).exists <=> (seg.exists /\ seg.attached # {})
           /\ ~Removed(seg).bound
<1> DEFINE e == (seg.exists /\ seg.attached # {})
<1>1. e \in Flag
  BY ConjunctionFlag, Zenon
<1>2. Removed(seg) = [seg EXCEPT !.bound = FALSE, !.exists = e]
  BY DEF Removed
<1> HIDE DEF e
<1>3. Removed(seg) \in Segment
  BY <1>1, <1>2, Flags DEF Segment
<1>4. /\ Removed(seg).key = seg.key /\ Removed(seg).attached = seg.attached
      /\ Removed(seg).uuid = seg.uuid /\ Removed(seg).mutex = seg.mutex
  BY <1>1, <1>2 DEF Segment
<1>5. Removed(seg).exists = e /\ Removed(seg).bound = FALSE
  BY <1>1, <1>2 DEF Segment
<1> QED
  BY <1>3, <1>4, <1>5 DEF e

LEMMA DetachedFacts ==
    ASSUME NEW seg \in Segment, NEW p \in Procs
    PROVE  /\ Detached(seg, p) \in Segment
           /\ Detached(seg, p).key = seg.key /\ Detached(seg, p).attached = seg.attached \ {p}
           /\ Detached(seg, p).uuid = seg.uuid /\ Detached(seg, p).mutex = seg.mutex
           /\ Detached(seg, p).exists <=> (seg.exists /\ (seg.bound \/ seg.attached \ {p} # {}))
           /\ Detached(seg, p).bound <=> seg.bound
<1> DEFINE e == (seg.exists /\ (seg.bound \/ seg.attached \ {p} # {}))
           left == seg.attached \ {p}
<1>1. e \in Flag
  BY ConjunctionFlag, Zenon
<1>2. Detached(seg, p) = [seg EXCEPT !.attached = left, !.exists = e]
  BY DEF Detached
<1>3. left \in SUBSET Procs
  BY DEF Segment
<1> HIDE DEF e, left
<1>4. Detached(seg, p) \in Segment
  BY <1>1, <1>2, <1>3 DEF Segment
<1>5. /\ Detached(seg, p).key = seg.key /\ Detached(seg, p).attached = left
      /\ Detached(seg, p).uuid = seg.uuid /\ Detached(seg, p).mutex = seg.mutex
      /\ Detached(seg, p).exists = e /\ Detached(seg, p).bound = seg.bound
  BY <1>1, <1>2, <1>3 DEF Segment
<1> QED
  BY <1>4, <1>5 DEF e, left

LEMMA Bounds == MaxShm \in Nat \ {0} /\ MaxSegs \in Nat \ {0} /\ MaxRefs \in Nat \ {0} /\ MaxIds \in Nat \ {0}
BY BoundsAssumption

LEMMA MadeFacts ==
    ASSUME Types
    PROVE  /\ made \in Nat /\ 1 .. made \subseteq Segments
           /\ \A s \in Segments : segs[s] \in Segment /\ segs[s].uuid \in Nat
BY Bounds DEF Types, Segments, Segment

LEMMA NewSegment ==
    ASSUME NEW key \in Keys
    PROVE  LET x == [NoSegment EXCEPT !.key = key, !.exists = TRUE, !.bound = TRUE]
           IN  /\ x \in Segment
               /\ x.key = key /\ x.attached = {} /\ x.uuid = 0
<1>1. PICK f \in Flag : f = FALSE
  BY Flags, Zenon
<1>2. PICK t \in Flag : t = TRUE
  BY Flags, Zenon
<1>3. NoSegment = [key |-> UuidKey, exists |-> f, bound |-> f, attached |-> {}, mutex |-> f, uuid |-> 0]
  BY <1>1, Zenon DEF NoSegment
<1>4. NoSegment \in Segment /\ NoSegment.attached = {} /\ NoSegment.uuid = 0
  BY <1>3, Bounds, KeysAssumption DEF Segment
<1> DEFINE x == [NoSegment EXCEPT !.key = key, !.exists = TRUE, !.bound = TRUE]
<1>5. x = [NoSegment EXCEPT !.key = key, !.exists = t, !.bound = t]
  BY <1>2, Zenon
<1> HIDE DEF x
<1>6. x \in Segment /\ x.key = key /\ x.attached = {} /\ x.uuid = 0
  BY <1>4, <1>5 DEF Segment
<1> QED
  BY <1>6, Zenon DEF x

\* No segment gets a key by a step that creates none, and no number is lost.
SegsKept ==
    /\ segs' \in [Segments -> Segment] /\ made' \in 0 .. MaxSegs /\ made <= made'
    /\ SegInv'
    /\ \A s \in 1 .. made : segs'[s].key = segs[s].key /\ segs[s].uuid <= segs'[s].uuid

LEMMA NextMade == SegsKept => made' \in Nat
BY Bounds DEF SegsKept

\* One segment changes.
LEMMA OneChanges ==
    ASSUME Types, SegInv, NEW s \in Segments, NEW x \in Segment,
           segs' = [segs EXCEPT ![s] = x], made' = made,
           x.key = segs[s].key, x.bound => segs[s].bound, segs[s].uuid <= x.uuid
    PROVE  /\ SegsKept
           /\ segs'[s] = x /\ \A r \in Segments : r # s => segs'[r] = segs[r]
           /\ \A q : (segs[s].exists /\ q \in segs[s].attached => x.exists /\ q \in x.attached) => Spared(q)
           /\ x.mutex = segs[s].mutex /\ x.uuid = segs[s].uuid => SegsQuiet
<1>1. /\ segs' \in [Segments -> Segment] /\ made' \in 0 .. MaxSegs /\ made \in Nat
      /\ segs'[s] = x /\ \A r \in Segments : r # s => segs'[r] = segs[r]
  BY DEF Types
<1>2. \A r \in Segments : segs[r].uuid \in Nat
  BY MadeFacts
<1>3. 1 .. made \subseteq Segments
  BY MadeFacts
<1>4. SegInv'
  BY <1>1 DEF SegInv
<1>5. SegsKept
  BY <1>1, <1>2, <1>3, <1>4 DEF SegsKept
<1>6. ASSUME NEW q, segs[s].exists /\ q \in segs[s].attached => x.exists /\ q \in x.attached
      PROVE  Spared(q)
  BY <1>1, <1>3, <1>6 DEF Spared
<1>7. ASSUME x.mutex = segs[s].mutex, x.uuid = segs[s].uuid
      PROVE  SegsQuiet
  BY <1>1, <1>3, <1>7 DEF SegsQuiet
<1> QED
  BY <1>1, <1>5, <1>6, <1>7

LEMMA NothingChanges ==
    ASSUME Types, SegInv, UNCHANGED <<segs, made>>
    PROVE  /\ SegsKept /\ SegsQuiet /\ \A q : Spared(q)
           /\ \A s : Orphan(s)' <=> Orphan(s)
<1>1. made \in Nat /\ 1 .. made \subseteq Segments /\ \A r \in Segments : segs[r].uuid \in Nat
  BY MadeFacts
<1>2. SegsKept
  BY <1>1 DEF Types, SegInv, SegsKept
<1> QED
  BY <1>1, <1>2 DEF Spared, SegsQuiet, Orphan

LEMMA ShmgetFacts ==
    ASSUME Types, SegInv, NEW key \in Keys, NEW s \in Segments, Shmget(key, s)
    PROVE  /\ SegsKept /\ SegsQuiet /\ \A q : Spared(q)
           /\ s \in 1 .. made' /\ segs'[s].key = key
           /\ \A r \in Segments : segs'[r] # segs[r] => r = s /\ r = made + 1
<1>1. CASE Found(key) # {}
  <2>1. UNCHANGED <<segs, made>> /\ segs[s].bound /\ segs[s].key = key
    BY <1>1 DEF Shmget, Found
  <2>2. s \in 1 .. made
    BY <2>1 DEF SegInv, Types, Segments
  <2> QED
    BY <2>1, <2>2, NothingChanges
<1>2. CASE Found(key) = {}
  <2> DEFINE x == [NoSegment EXCEPT !.key = key, !.exists = TRUE, !.bound = TRUE]
  <2>1. x \in Segment /\ x.key = key
    BY NewSegment, Zenon
  <2>2. s = made + 1 /\ made' = s /\ segs' = [segs EXCEPT ![s] = x]
    BY <1>2 DEF Shmget
  <2> HIDE DEF x
  <2>3. /\ segs' \in [Segments -> Segment] /\ made \in Nat /\ made' \in 0 .. MaxSegs
        /\ segs'[s] = x /\ \A r \in Segments : r # s => segs'[r] = segs[r]
    BY <2>1, <2>2 DEF Types, Segments
  <2>4. 1 .. made \subseteq Segments /\ s \notin 1 .. made /\ \A r \in Segments : segs[r].uuid \in Nat
    BY <2>2, <2>3, MadeFacts
  <2>5. SegInv'
    BY <2>2, <2>3 DEF SegInv, Segments
  <2>6. SegsKept
    BY <2>2, <2>3, <2>4, <2>5 DEF SegsKept
  <2>7. SegsQuiet /\ \A q : Spared(q)
    BY <2>2, <2>3, <2>4 DEF Spared, SegsQuiet
  <2> QED
    BY <2>1, <2>2, <2>3, <2>6, <2>7
<1> QED
  BY <1>1, <1>2

\* A process has one valid handle for a key it refers to.
LEMMA OneHandle ==
    ASSUME Types, NEW p \in Procs, ProcInv(p), NEW key \in Keys,
           refs[p][key] > 0 \/ Valid(p, key) # {}
    PROVE  \E h \in Slots :
              /\ Valid(p, key) = {h} /\ Lowest(Valid(p, key)) = h
              /\ shmem_array[p][h].magic /\ shmem_array[p][h].key = key
              /\ shmem_array[p][h].id \in 1 .. made /\ shmem_array[p][h].id \in Segments
<1>1. PICK h \in Slots : shmem_array[p][h].magic /\ shmem_array[p][h].key = key
  BY DEF ProcInv, RefInv, Valid
<1>2. \A i \in Slots : (shmem_array[p][i].magic /\ shmem_array[p][i].key = key) => i = h
  BY <1>1 DEF ProcInv, HandleInv
<1>3. Valid(p, key) = {h}
  BY <1>1, <1>2 DEF Valid
<1>4. shmem_array[p][h].id \in 1 .. made
  BY <1>1 DEF ProcInv, HandleInv
<1>5. shmem_array[p][h].id \in Segments
  BY <1>4, BoundsAssumption DEF Types, Segments
<1> QED
  BY <1>1, <1>3, <1>4, <1>5, LowestOnly

-----------------------------------------------------------------------------
(* The handles of the process that makes the step. *)

LEMMA ReturnFacts ==
    ASSUME Types, NEW p \in Procs, Return(p)
    PROVE  call'[p].pc = "idle"
BY DEF Types, Return, Idle

LEMMA ReturnsFacts ==
    ASSUME Types, NEW p \in Procs, NEW key \in Keys, NEW init, Returns(p, key, init)
    PROVE  /\ refs' = [refs EXCEPT ![p][key] = @ + 1]
           /\ call'[p].pc \in {"idle", "uuid_get"}
           /\ call'[p].pc = "uuid_get" <=> init
<1>1. refs' = [refs EXCEPT ![p][key] = @ + 1]
  BY DEF Returns
<1>2. CASE init
  <2> DEFINE c == [Idle EXCEPT !.pc = "uuid_get", !.init = TRUE]
  <2>1. c.pc = "uuid_get"
    BY DEF Idle
  <2>2. call' = [call EXCEPT ![p] = c]
    BY <1>2 DEF Returns
  <2> HIDE DEF c
  <2>3. call'[p] = c
    BY <2>2 DEF Types
  <2> QED
    BY <1>1, <1>2, <2>1, <2>3
<1>3. CASE ~init
  BY <1>1, <1>3, ReturnFacts DEF Returns
<1> QED
  BY <1>2, <1>3

LEMMA NewMappedProc ==
    ASSUME Types, NEW p \in Procs, ProcInv(p), NEW key \in Keys, NEW init, new_mapped(p, key, init)
    PROVE  ProcInv(p)'
<1>1. PICK h \in Slots :
          /\ Lowest(Valid(p, key)) = h
          /\ shmem_array[p][h].magic /\ shmem_array[p][h].key = key
  BY OneHandle DEF new_mapped
<1>2. /\ shmem_array' = [shmem_array EXCEPT ![p][h].count = @ + 1]
      /\ refs' = [refs EXCEPT ![p][key] = @ + 1]
      /\ call[p].pc = "idle" /\ UNCHANGED <<segs, made>>
      /\ call'[p].pc \in {"idle", "uuid_get"}
  BY <1>1, ReturnsFacts DEF new_mapped, At
<1>3. HandleInv(p)'
  <2>1. \A i \in Slots :
            /\ shmem_array'[p][i].magic = shmem_array[p][i].magic
            /\ shmem_array'[p][i].key = shmem_array[p][i].key
            /\ shmem_array'[p][i].id = shmem_array[p][i].id
            /\ shmem_array'[p][i].state = shmem_array[p][i].state
            /\ shmem_array'[p][i].count = shmem_array[p][i].count + (IF i = h THEN 1 ELSE 0)
    BY <1>1, <1>2 DEF Types, Handle
  <2>2. \A k \in Keys : refs'[p][k] = refs[p][k] + (IF k = key THEN 1 ELSE 0) /\ refs[p][k] \in Nat
    BY <1>2 DEF Types
  <2>3. \A i \in Slots : shmem_array[p][i].key \in Keys
    BY DEF Types, Handle
  <2> QED
    BY <1>1, <1>2, <2>1, <2>2, <2>3 DEF ProcInv, HandleInv, Leaving
<1>4. RefInv(p)'
  BY <1>1, <1>2 DEF ProcInv, RefInv, Types, Handle
<1>5. CallInv(p)'
  BY <1>2 DEF CallInv
<1> QED
  BY <1>3, <1>4, <1>5 DEF ProcInv

\* The first of two steps: the call is noted.
LEMMA NewUnmappedProc ==
    ASSUME Types, NEW p \in Procs, ProcInv(p), NEW key \in Keys, NEW init,
           init <=> key = UuidKey, new_unmapped(p, key, init)
    PROVE  ProcInv(p)'
<1> DEFINE h == Lowest(FreeSlots(p))
<1>1. h \in Slots /\ ~shmem_array[p][h].magic
  BY LowestIn DEF new_unmapped, FreeSlots
<1>2. \A i \in Slots : shmem_array[p][i].magic => shmem_array[p][i].key # key
  BY DEF new_unmapped, Valid
<1> HIDE DEF h
<1>3. /\ call[p].pc = "idle" /\ UNCHANGED <<segs, made, shmem_array, refs>>
      /\ call'[p] = [pc |-> "shmget", key |-> key, slot |-> h, retries |-> ShmgetRetries,
                     init |-> init]
  BY DEF new_unmapped, At, Types, h
<1>4. call'[p].pc = "shmget" /\ call'[p].key = key /\ call'[p].slot = h
  BY <1>3
<1>5. call'[p].init <=> key = UuidKey
  <2>1. call'[p].init = init
    BY <1>3
  <2> QED
    BY <2>1
<1>6. HandleInv(p)'
  BY <1>3, <1>4 DEF ProcInv, HandleInv, Leaving
<1>7. RefInv(p)'
  BY <1>3 DEF ProcInv, RefInv
<1>8. CallInv(p)'
  BY <1>1, <1>2, <1>3, <1>4, <1>5 DEF CallInv
<1> QED
  BY <1>6, <1>7, <1>8 DEF ProcInv

\* A step that moves the call and changes at most a slot that is not valid.
LEMMA SlotProc ==
    ASSUME Types, made' \in Nat, NEW p \in Procs, ProcInv(p), Spared(p),
           NEW h \in Slots, ~shmem_array[p][h].magic, ~shmem_array'[p][h].magic,
           \A i \in Slots : i # h => shmem_array'[p][i] = shmem_array[p][i],
           refs'[p] = refs[p],
           call[p].pc \notin {"stat", "rmid"}, call'[p].pc \notin {"stat", "rmid"}
    PROVE  HandleInv(p)' /\ RefInv(p)'
<1>1. \A i \in Slots : shmem_array'[p][i].magic =>
          shmem_array[p][i].magic /\ shmem_array'[p][i] = shmem_array[p][i]
  OBVIOUS
<1>2. \A i \in Slots : shmem_array[p][i].magic => shmem_array'[p][i] = shmem_array[p][i]
  OBVIOUS
<1>3. made \in Nat /\ made' \in Nat
  BY DEF Types
<1>4. HandleInv(p)'
  BY <1>1, <1>2, <1>3 DEF ProcInv, HandleInv, Leaving, Spared
<1>5. RefInv(p)'
  BY <1>2 DEF ProcInv, RefInv
<1> QED
  BY <1>4, <1>5

LEMMA GotoFacts ==
    ASSUME Types, NEW p \in Procs, NEW place, Goto(p, place)
    PROVE  /\ call'[p].pc = place /\ call'[p].key = call[p].key
           /\ call'[p].slot = call[p].slot /\ call'[p].init = call[p].init
BY DEF Types, Call, Goto

LEMMA ShmgetProc ==
    ASSUME Types, SegInv, NEW p \in Procs, ProcInv(p), new_shmget(p)
    PROVE  /\ ProcInv(p)' /\ CleansStep(p)
           /\ SegsKept /\ SegsQuiet /\ \A q : Spared(q)
<1> DEFINE h == call[p].slot
           key == call[p].key
<1>1. call[p].pc = "shmget" /\ Goto(p, "shmat") /\ refs' = refs
  BY DEF new_shmget, At
<1>2. PICK s \in Segments :
          /\ Shmget(key, s)
          /\ shmem_array' = [shmem_array EXCEPT ![p][h].id = s, ![p][h].state = "CREATED"]
  BY DEF new_shmget
<1>3. h \in Slots /\ key \in Keys
  BY DEF Types, Call
<1>4. /\ ~shmem_array[p][h].magic
      /\ \A i \in Slots : shmem_array[p][i].magic => shmem_array[p][i].key # key
      /\ call[p].init <=> key = UuidKey
  BY <1>1 DEF ProcInv, CallInv
<1> HIDE DEF h, key
<1>5. /\ SegsKept /\ SegsQuiet /\ \A q : Spared(q)
      /\ s \in 1 .. made' /\ segs'[s].key = key
      /\ \A r \in Segments : r # s => segs'[r] = segs[r]
  BY <1>2, <1>3, ShmgetFacts
<1>6. /\ shmem_array'[p][h].magic = shmem_array[p][h].magic /\ shmem_array'[p][h].id = s
      /\ \A i \in Slots : i # h => shmem_array'[p][i] = shmem_array[p][i]
  BY <1>2, <1>3 DEF Types, Handle
<1>7. call'[p].pc = "shmat" /\ call'[p].key = key /\ call'[p].slot = h /\ call'[p].init = call[p].init
  BY <1>1, GotoFacts DEF h, key
<1>8. HandleInv(p)' /\ RefInv(p)'
  BY <1>1, <1>3, <1>4, <1>5, <1>6, <1>7, SlotProc, NextMade
<1>9. CallInv(p)'
  BY <1>3, <1>4, <1>5, <1>6, <1>7 DEF CallInv
<1>10. CleansStep(p)
  BY <1>1, <1>5, <1>6, <1>7 DEF CleansStep, Orphan, Cleans
<1> QED
  BY <1>5, <1>8, <1>9, <1>10 DEF ProcInv

LEMMA ShmgetFailsProc ==
    ASSUME Types, SegInv, NEW p \in Procs, ProcInv(p), new_shmget_fails(p)
    PROVE  ProcInv(p)'
<1> DEFINE h == call[p].slot
<1>1. call[p].pc = "shmget" /\ refs' = refs /\ UNCHANGED <<segs, made>>
  BY DEF new_shmget_fails, At
<1>2. shmem_array' = [shmem_array EXCEPT ![p][h].id = 0]
  BY DEF new_shmget_fails
<1>3. h \in Slots
  BY DEF Types, Call
<1>4. /\ ~shmem_array[p][h].magic
      /\ \A i \in Slots : shmem_array[p][i].magic => shmem_array[p][i].key # call[p].key
      /\ call[p].init <=> call[p].key = UuidKey
  BY <1>1 DEF ProcInv, CallInv
<1> HIDE DEF h
<1>5. /\ shmem_array'[p][h].magic = shmem_array[p][h].magic
      /\ \A i \in Slots : i # h => shmem_array'[p][i] = shmem_array[p][i]
  BY <1>2, <1>3 DEF Types, Handle
<1>6. \/ call'[p].pc = "idle"
      \/ /\ call'[p].pc = "shmget" /\ call'[p].key = call[p].key /\ call'[p].slot = h
         /\ call'[p].init = call[p].init
  BY <1>1, ReturnFacts DEF new_shmget_fails, Types, Call, h
<1>7. HandleInv(p)' /\ RefInv(p)'
  BY <1>1, <1>3, <1>4, <1>5, <1>6, NothingChanges, SlotProc, NextMade
<1>8. CallInv(p)'
  BY <1>3, <1>4, <1>5, <1>6 DEF CallInv
<1> QED
  BY <1>7, <1>8 DEF ProcInv

LEMMA ShmatFailsProc ==
    ASSUME Types, NEW p \in Procs, ProcInv(p), new_shmat_fails(p)
    PROVE  ProcInv(p)' /\ CleansStep(p)
<1>1. call[p].pc = "shmat" /\ UNCHANGED <<segs, made, shmem_array, refs>> /\ Goto(p, "rollback")
  BY DEF new_shmat_fails, At
<1>2. /\ call'[p].pc = "rollback" /\ call'[p].key = call[p].key
      /\ call'[p].slot = call[p].slot /\ call'[p].init = call[p].init
  BY <1>1, GotoFacts
<1>3. HandleInv(p)'
  BY <1>1, <1>2 DEF ProcInv, HandleInv, Leaving
<1>4. RefInv(p)' /\ CallInv(p)'
  BY <1>1, <1>2 DEF ProcInv, RefInv, CallInv
<1>5. CleansStep(p)
  BY <1>1, <1>2 DEF CleansStep, Orphan, Cleans
<1> QED
  BY <1>3, <1>4, <1>5 DEF ProcInv

LEMMA RollbackProc ==
    ASSUME Types, SegInv, NEW p \in Procs, ProcInv(p), new_rollback(p)
    PROVE  /\ ProcInv(p)' /\ CleansStep(p)
           /\ SegsKept /\ SegsQuiet /\ \A q : Spared(q)
<1> DEFINE h == call[p].slot
           s == shmem_array[p][h].id
<1>1. call[p].pc = "rollback" /\ refs' = refs /\ made' = made /\ Return(p)
  BY DEF new_rollback, At
<1>2. /\ shmem_array' = [shmem_array EXCEPT ![p][h].state = "ERROR", ![p][h].id = 0]
      /\ segs' = [segs EXCEPT ![s] = Removed(segs[s])]
  BY DEF new_rollback
<1>3. h \in Slots
  BY DEF Types, Call
<1>4. ~shmem_array[p][h].magic /\ s \in 1 .. made
  BY <1>1 DEF ProcInv, CallInv
<1> HIDE DEF h, s
<1>5. s \in Segments /\ segs[s] \in Segment
  BY <1>4, MadeFacts
<1>6. /\ Removed(segs[s]) \in Segment /\ Removed(segs[s]).key = segs[s].key
      /\ Removed(segs[s]).attached = segs[s].attached /\ Removed(segs[s]).uuid = segs[s].uuid
      /\ Removed(segs[s]).mutex = segs[s].mutex
      /\ Removed(segs[s]).exists <=> (segs[s].exists /\ segs[s].attached # {})
      /\ ~Removed(segs[s]).bound
  BY <1>5, RemovedFacts
<1>7. segs[s].uuid <= Removed(segs[s]).uuid
  BY <1>5, <1>6, MadeFacts
<1>8. /\ SegsKept /\ SegsQuiet /\ \A q : Spared(q)
      /\ segs'[s] = Removed(segs[s]) /\ \A r \in Segments : r # s => segs'[r] = segs[r]
  BY <1>1, <1>2, <1>5, <1>6, <1>7, OneChanges
<1>9. /\ shmem_array'[p][h].magic = shmem_array[p][h].magic
      /\ \A i \in Slots : i # h => shmem_array'[p][i] = shmem_array[p][i]
  BY <1>2, <1>3 DEF Types, Handle
<1>10. call'[p].pc = "idle"
  BY <1>1, ReturnFacts
<1>11. HandleInv(p)' /\ RefInv(p)'
  BY <1>1, <1>3, <1>4, <1>8, <1>9, <1>10, SlotProc, NextMade
<1>12. CallInv(p)'
  BY <1>10 DEF CallInv
<1>13. CleansStep(p)
  BY <1>6, <1>8 DEF CleansStep, Orphan, Cleans, s, h
<1> QED
  BY <1>8, <1>11, <1>12, <1>13 DEF ProcInv

\* A slot that becomes valid, by a step that spares the process's segments.
LEMMA ShmatProc ==
    ASSUME Types, SegInv, NEW p \in Procs, ProcInv(p), new_shmat(p)
    PROVE  /\ ProcInv(p)' /\ CleansStep(p)
           /\ SegsKept /\ SegsQuiet /\ \A q : Spared(q)
<1> DEFINE h == call[p].slot
           s == shmem_array[p][h].id
           key == call[p].key
           x == [segs[s] EXCEPT !.attached = @ \cup {p}]
<1>1. /\ call[p].pc = "shmat" /\ made' = made /\ segs[s].exists
      /\ Returns(p, key, call[p].init)
  BY DEF new_shmat, At
<1>2. /\ shmem_array' = [shmem_array EXCEPT ![p][h] = [magic |-> TRUE, key |-> key, id |-> s,
                                                       count |-> 1, state |-> "ACTIVE"]]
      /\ segs' = [segs EXCEPT ![s].attached = @ \cup {p}]
  BY DEF new_shmat
<1>3. h \in Slots /\ key \in Keys
  BY DEF Types, Call
<1>4. /\ ~shmem_array[p][h].magic /\ s \in 1 .. made /\ segs[s].key = key
      /\ \A i \in Slots : shmem_array[p][i].magic => shmem_array[p][i].key # key
  BY <1>1 DEF ProcInv, CallInv
<1> HIDE DEF h, s, key
<1>5. s \in Segments /\ segs[s] \in Segment /\ segs[s].uuid \in Nat
  BY <1>4, MadeFacts
<1>6. /\ x \in Segment /\ x.key = segs[s].key /\ x.uuid = segs[s].uuid /\ x.bound = segs[s].bound
      /\ x.exists = segs[s].exists /\ x.attached = segs[s].attached \cup {p}
      /\ x.mutex = segs[s].mutex
  BY <1>5 DEF Segment
<1>7. segs' = [segs EXCEPT ![s] = x]
  BY <1>2
<1> HIDE DEF x
<1>8. /\ SegsKept /\ SegsQuiet /\ \A q : Spared(q)
      /\ segs'[s] = x /\ \A r \in Segments : r # s => segs'[r] = segs[r]
  <2>1. /\ x.bound => segs[s].bound
        /\ segs[s].uuid <= x.uuid
        /\ \A q : segs[s].exists /\ q \in segs[s].attached => x.exists /\ q \in x.attached
    BY <1>5, <1>6
  <2> QED
    BY <1>1, <1>5, <1>6, <1>7, <2>1, OneChanges
<1>9. \A i \in Slots : i # h => shmem_array'[p][i] = shmem_array[p][i]
  BY <1>2, <1>3 DEF Types
<1>10. /\ shmem_array'[p][h].key = key /\ shmem_array'[p][h].id = s
       /\ shmem_array'[p][h].count = 1 /\ shmem_array'[p][h].state = "ACTIVE"
  BY <1>2, <1>3 DEF Types
<1>11. shmem_array'[p][h].magic
  BY <1>2, <1>3 DEF Types
<1>12. refs[p][key] = 0 /\ \A k \in Keys : refs[p][k] \in Nat
  <2>1. \A k \in Keys : refs[p][k] \in Nat
    BY <1>3, Bounds DEF Types
  <2> QED
    BY <1>3, <1>4, <2>1 DEF ProcInv, RefInv
<1>13. refs'[p][key] = 1 /\ \A k \in Keys : k # key => refs'[p][k] = refs[p][k]
  BY <1>1, <1>3, <1>12, ReturnsFacts DEF Types
<1>14. call'[p].pc \in {"idle", "uuid_get"}
  BY <1>1, <1>3, ReturnsFacts
<1>15. \A i \in Slots : shmem_array[p][i].key \in Keys
  BY DEF Types, Handle
<1>16. HandleInv(p)'
  <2> SUFFICES ASSUME NEW i \in Slots, shmem_array'[p][i].magic
               PROVE  (LET k == shmem_array[p][i].key
                           r == shmem_array[p][i].id
                       IN /\ r \in 1 .. made /\ segs[r].key = k
                          /\ \A j \in Slots : (shmem_array[p][j].magic /\ shmem_array[p][j].key = k) => j = i
                          /\ ~Leaving(p, i)
                          /\ shmem_array[p][i].count = refs[p][k] /\ refs[p][k] > 0
                          /\ shmem_array[p][i].state = "ACTIVE"
                          /\ segs[r].exists /\ p \in segs[r].attached)'
    BY DEF HandleInv
  <2>1. CASE i = h
    <3>1. segs'[s].key = key /\ p \in segs'[s].attached /\ s \in 1 .. made'
      BY <1>1, <1>4, <1>6, <1>8
    <3>2. segs'[s].exists
      BY <1>1, <1>6, <1>8
    <3>3. \A j \in Slots : (shmem_array'[p][j].magic /\ shmem_array'[p][j].key = key) => j = h
      BY <1>4, <1>9
    <3>4. ~Leaving(p, i)'
      BY <1>14 DEF Leaving
    <3> QED
      BY <1>10, <1>13, <2>1, <3>1, <3>2, <3>3, <3>4
  <2>2. CASE i # h
    <3>1. shmem_array'[p][i] = shmem_array[p][i] /\ shmem_array[p][i].magic /\ shmem_array[p][i].key # key
      BY <1>4, <1>9, <2>2
    <3> QED
      BY <1>1, <1>8, <1>9, <1>10, <1>13, <1>14, <1>15, <2>2, <3>1
      DEF ProcInv, HandleInv, Leaving, Spared
  <2> QED
    BY <2>1, <2>2
<1>17. RefInv(p)'
  BY <1>3, <1>4, <1>9, <1>10, <1>11, <1>13 DEF ProcInv, RefInv
<1>18. CallInv(p)'
  BY <1>14 DEF CallInv
<1>19. CleansStep(p)
  BY <1>6, <1>8 DEF CleansStep, Orphan, Cleans, s, h
<1> QED
  BY <1>8, <1>16, <1>17, <1>18, <1>19 DEF ProcInv

\* What rtapi_shmem_delete does: one reference less, or the process is detached
\* from the segment, which is the segment of no other handle of the process.
LEMMA DeleteProc ==
    ASSUME Types, SegInv, NEW p \in Procs, ProcInv(p), NEW key \in Keys,
           call[p].pc = "idle", refs[p][key] > 0,
           refs' = [refs EXCEPT ![p][key] = @ - 1], made' = made, delete(p, key)
    PROVE  /\ ProcInv(p)' /\ CleansStep(p) /\ SegsKept /\ SegsQuiet
           /\ \A q \in Procs : q # p => Spared(q)
           /\ call'[p].pc \in {"idle", "stat"}
<1>1. PICK h \in Slots :
          /\ Lowest(Valid(p, key)) = h
          /\ shmem_array[p][h].magic /\ shmem_array[p][h].key = key
          /\ shmem_array[p][h].id \in 1 .. made /\ shmem_array[p][h].id \in Segments
  BY OneHandle
<1> DEFINE s == shmem_array[p][h].id
<1>2. /\ shmem_array[p][h].count = refs[p][key] /\ segs[s].key = key
      /\ \A i \in Slots : (shmem_array[p][i].magic /\ shmem_array[p][i].key = key) => i = h
  BY <1>1 DEF ProcInv, HandleInv, Leaving
<1>3. /\ \A k \in Keys : refs[p][k] \in Nat
      /\ refs'[p][key] = refs[p][key] - 1
      /\ \A k \in Keys : k # key => refs'[p][k] = refs[p][k]
  BY Bounds DEF Types
<1>4. \A i \in Slots : shmem_array[p][i].key \in Keys
  BY DEF Types, Handle
<1>5. CASE shmem_array[p][h].count > 1
  <2>1. /\ shmem_array' = [shmem_array EXCEPT ![p][h].count = @ - 1]
        /\ UNCHANGED <<segs, made, call>>
    BY <1>1, <1>5 DEF delete
  <2>2. /\ shmem_array'[p][h].count = shmem_array[p][h].count - 1
        /\ shmem_array'[p][h].magic = shmem_array[p][h].magic
        /\ shmem_array'[p][h].key = shmem_array[p][h].key
        /\ shmem_array'[p][h].id = shmem_array[p][h].id
        /\ shmem_array'[p][h].state = shmem_array[p][h].state
        /\ \A i \in Slots : i # h => shmem_array'[p][i] = shmem_array[p][i]
    BY <2>1 DEF Types, Handle
  <2>3. HandleInv(p)'
    BY <1>1, <1>2, <1>3, <1>4, <1>5, <2>1, <2>2 DEF ProcInv, HandleInv, Leaving
  <2>4. RefInv(p)' /\ CallInv(p)'
    BY <1>1, <1>3, <2>1, <2>2 DEF ProcInv, RefInv, CallInv
  <2>5. CleansStep(p)
    BY <2>1, NothingChanges DEF CleansStep, Cleans
  <2> QED
    BY <2>1, <2>3, <2>4, <2>5, NothingChanges DEF ProcInv
<1>6. CASE ~(shmem_array[p][h].count > 1)
  <2> DEFINE x == Detached(segs[s], p)
  <2>1. /\ shmem_array' = [shmem_array EXCEPT ![p][h].count = 0, ![p][h].state = "DETACHED"]
        /\ segs' = [segs EXCEPT ![s] = x]
        /\ call' = [call EXCEPT ![p] = [Idle EXCEPT !.pc = "stat", !.key = key, !.slot = h]]
    BY <1>1, <1>6 DEF delete
  <2>2. s \in Segments /\ segs[s] \in Segment /\ segs[s].uuid \in Nat
    BY <1>1, MadeFacts
  <2>3. /\ x \in Segment /\ x.key = segs[s].key /\ x.attached = segs[s].attached \ {p}
        /\ x.uuid = segs[s].uuid /\ x.mutex = segs[s].mutex
        /\ x.exists <=> (segs[s].exists /\ (segs[s].bound \/ segs[s].attached \ {p} # {}))
        /\ x.bound <=> segs[s].bound
    BY <2>2, DetachedFacts
  <2> HIDE DEF x, s
  <2>4. /\ SegsKept /\ SegsQuiet /\ segs'[s] = x
        /\ \A r \in Segments : r # s => segs'[r] = segs[r]
        /\ \A q : (segs[s].exists /\ q \in segs[s].attached => x.exists /\ q \in x.attached) => Spared(q)
    <3>1. (x.bound => segs[s].bound) /\ segs[s].uuid <= x.uuid
      BY <2>2, <2>3
    <3> QED
      BY <2>1, <2>2, <2>3, <3>1, OneChanges
  <2>5. \A q \in Procs : q # p => Spared(q)
    BY <2>3, <2>4
  <2>6. /\ shmem_array'[p][h].magic = shmem_array[p][h].magic
        /\ shmem_array'[p][h].key = shmem_array[p][h].key
        /\ shmem_array'[p][h].id = shmem_array[p][h].id
        /\ \A i \in Slots : i # h => shmem_array'[p][i] = shmem_array[p][i]
    BY <2>1 DEF Types, Handle
  <2>7. call'[p].pc = "stat" /\ call'[p].slot = h
    <3> DEFINE c == [Idle EXCEPT !.pc = "stat", !.key = key, !.slot = h]
    <3>1. c.pc = "stat" /\ c.slot = h
      BY DEF Idle
    <3> HIDE DEF c
    <3>2. call'[p] = c
      BY <2>1 DEF Types, c
    <3> QED
      BY <3>1, <3>2
  <2>8. refs'[p][key] = 0
    BY <1>2, <1>3, <1>6
  <2>9. HandleInv(p)'
    <3>1. \A i \in Slots : shmem_array[p][i].magic /\ i # h =>
              shmem_array[p][i].key # key /\ shmem_array[p][i].id # s /\ shmem_array[p][i].id \in 1 .. made
      BY <1>1, <1>2 DEF ProcInv, HandleInv
    <3>2. 1 .. made \subseteq Segments
      BY MadeFacts
    <3>3. \A i \in Slots : i # h /\ shmem_array[p][i].magic =>
              segs'[shmem_array[p][i].id] = segs[shmem_array[p][i].id]
      BY <2>4, <3>1, <3>2
    <3>4. segs'[s].key = key
      BY <1>2, <2>3, <2>4
    <3> QED
      BY <1>1, <1>2, <1>3, <1>4, <2>6, <2>7, <2>8, <3>1, <3>3, <3>4
      DEF ProcInv, HandleInv, Leaving, s
  <2>10. RefInv(p)'
    BY <1>1, <1>3, <2>6, <2>8 DEF ProcInv, RefInv
  <2>11. CallInv(p)'
    BY <1>1, <2>6, <2>7 DEF CallInv
  <2>12. CleansStep(p)
    BY <2>4, <2>6, <2>7 DEF CleansStep, Orphan, Cleans, s
  <2> QED
    BY <2>4, <2>5, <2>7, <2>9, <2>10, <2>11, <2>12 DEF ProcInv
<1> QED
  BY <1>5, <1>6

\* The slot of a handle that was left is released: nobody refers to its key.
LEMMA ReleasedProc ==
    ASSUME Types, made' \in Nat, NEW p \in Procs, ProcInv(p), Spared(p),
           call[p].pc \in {"stat", "rmid"}, call'[p].pc = "idle",
           ~shmem_array'[p][call[p].slot].magic,
           \A i \in Slots : i # call[p].slot => shmem_array'[p][i] = shmem_array[p][i],
           refs'[p] = refs[p]
    PROVE  ProcInv(p)'
<1> DEFINE h == call[p].slot
<1>1. h \in Slots /\ made \in Nat /\ made' \in Nat /\ \A k \in Keys : refs[p][k] \in Nat
  BY Bounds DEF Types, Call
<1>2. shmem_array[p][h].magic
  BY DEF ProcInv, CallInv
<1>3. refs[p][shmem_array[p][h].key] = 0
  BY <1>1, <1>2 DEF ProcInv, HandleInv, Leaving
<1>4. \A i \in Slots : shmem_array'[p][i].magic => i # h /\ shmem_array'[p][i] = shmem_array[p][i]
  OBVIOUS
<1>5. HandleInv(p)'
  BY <1>1, <1>4 DEF ProcInv, HandleInv, Leaving, Spared
<1>6. RefInv(p)'
  BY <1>1, <1>3, <1>4 DEF ProcInv, RefInv
<1>7. CallInv(p)'
  BY DEF CallInv
<1> QED
  BY <1>5, <1>6, <1>7 DEF ProcInv

LEMMA StatProc ==
    ASSUME Types, SegInv, NEW p \in Procs, ProcInv(p), delete_stat(p)
    PROVE  /\ ProcInv(p)' /\ CleansStep(p)
           /\ SegsKept /\ SegsQuiet /\ \A q : Spared(q)
           /\ call'[p].pc \in {"idle", "rmid"}
<1> DEFINE h == call[p].slot
<1>1. call[p].pc = "stat" /\ UNCHANGED <<segs, made, refs>>
  BY DEF delete_stat, At
<1>2. SegsKept /\ SegsQuiet /\ \A q : Spared(q)
  BY <1>1, NothingChanges
<1>3. h \in Slots
  BY DEF Types, Call
<1>4. CASE Goto(p, "rmid") /\ UNCHANGED shmem_array
  <2>1. /\ call'[p].pc = "rmid" /\ call'[p].slot = call[p].slot
    BY <1>4, GotoFacts
  <2>2. HandleInv(p)'
    BY <1>1, <1>4, <2>1 DEF ProcInv, HandleInv, Leaving
  <2>3. RefInv(p)' /\ CallInv(p)'
    BY <1>1, <1>4, <2>1 DEF ProcInv, RefInv, CallInv
  <2>4. CleansStep(p)
    BY <1>1, <1>4, <2>1 DEF CleansStep, Orphan, Cleans
  <2> QED
    BY <1>2, <2>1, <2>2, <2>3, <2>4 DEF ProcInv
<1>5. CASE /\ ~(segs[shmem_array[p][h].id].exists /\ segs[shmem_array[p][h].id].attached = {})
           /\ shmem_array' = [shmem_array EXCEPT ![p][h].magic = FALSE] /\ Return(p)
  <2>0. shmem_array' = [shmem_array EXCEPT ![p][h].magic = FALSE]
    BY <1>5
  <2>1. ~shmem_array'[p][h].magic /\ \A i \in Slots : i # h => shmem_array'[p][i] = shmem_array[p][i]
    BY <1>3, <2>0 DEF Types, Handle
  <2>2. call'[p].pc = "idle"
    BY <1>5, ReturnFacts
  <2>3. CleansStep(p)
    BY <1>1, <1>5 DEF CleansStep, Orphan, Cleans
  <2> QED
    BY <1>1, <1>2, <2>1, <2>2, <2>3, ReleasedProc, NextMade
<1> QED
  BY <1>4, <1>5 DEF delete_stat

LEMMA RmidProc ==
    ASSUME Types, SegInv, NEW p \in Procs, ProcInv(p), delete_rmid(p)
    PROVE  /\ ProcInv(p)' /\ CleansStep(p)
           /\ SegsKept /\ SegsQuiet /\ \A q : Spared(q)
<1> DEFINE h == call[p].slot
           s == shmem_array[p][h].id
<1>1. call[p].pc = "rmid" /\ refs' = refs /\ made' = made /\ Return(p)
  BY DEF delete_rmid, At
<1>2. /\ shmem_array' = [shmem_array EXCEPT ![p][h].state = "DESTROYED", ![p][h].magic = FALSE]
      /\ segs' = [segs EXCEPT ![s] = Removed(segs[s])]
  BY DEF delete_rmid
<1>3. h \in Slots
  BY DEF Types, Call
<1>4. s \in 1 .. made
  BY <1>1, <1>3 DEF ProcInv, CallInv, HandleInv
<1>5. ~shmem_array'[p][h].magic /\ \A i \in Slots : i # h => shmem_array'[p][i] = shmem_array[p][i]
  BY <1>2, <1>3 DEF Types, Handle
<1> HIDE DEF s
<1>6. s \in Segments /\ segs[s] \in Segment
  BY <1>4, MadeFacts
<1>7. /\ Removed(segs[s]) \in Segment /\ Removed(segs[s]).key = segs[s].key
      /\ Removed(segs[s]).attached = segs[s].attached /\ Removed(segs[s]).uuid = segs[s].uuid
      /\ Removed(segs[s]).mutex = segs[s].mutex
      /\ Removed(segs[s]).exists <=> (segs[s].exists /\ segs[s].attached # {})
      /\ ~Removed(segs[s]).bound
  BY <1>6, RemovedFacts
<1>8. segs[s].uuid <= Removed(segs[s]).uuid
  BY <1>6, <1>7, MadeFacts
<1>9. /\ SegsKept /\ SegsQuiet /\ \A q : Spared(q)
      /\ segs'[s] = Removed(segs[s]) /\ \A r \in Segments : r # s => segs'[r] = segs[r]
  BY <1>1, <1>2, <1>6, <1>7, <1>8, OneChanges
<1>10. call'[p].pc = "idle"
  BY <1>1, ReturnFacts
<1>11. CleansStep(p)
  BY <1>7, <1>9 DEF CleansStep, Orphan, Cleans, s
<1> QED
  BY <1>1, <1>5, <1>9, <1>10, <1>11, ReleasedProc, NextMade

\* The segment a process takes its number from.
LEMMA UuidSegmentFacts ==
    ASSUME Types, NEW p \in Procs, ProcInv(p), refs[p][UuidKey] > 0
    PROVE  /\ UuidSegment(p) \in Segments /\ UuidSegment(p) \in 1 .. made
           /\ \A h \in Slots : (shmem_array[p][h].magic /\ shmem_array[p][h].key = UuidKey) =>
                 shmem_array[p][h].id = UuidSegment(p)
           /\ \E h \in Slots : /\ shmem_array[p][h].magic /\ shmem_array[p][h].key = UuidKey
                               /\ shmem_array[p][h].id = UuidSegment(p)
<1>1. PICK h \in Slots :
          /\ Valid(p, UuidKey) = {h} /\ Lowest(Valid(p, UuidKey)) = h
          /\ shmem_array[p][h].magic /\ shmem_array[p][h].key = UuidKey
          /\ shmem_array[p][h].id \in 1 .. made /\ shmem_array[p][h].id \in Segments
  BY OneHandle, KeysAssumption
<1>2. UuidSegment(p) = shmem_array[p][h].id
  BY <1>1 DEF UuidSegment
<1>3. \A i \in Slots : (shmem_array[p][i].magic /\ shmem_array[p][i].key = UuidKey) => i = h
  BY <1>1 DEF Valid
<1> QED
  BY <1>1, <1>2, <1>3

\* What the steps of rtapi_init behind rtapi_shmem_new do to a segment.
LEMMA UuidChange ==
    ASSUME Types, SegInv, NEW s \in Segments, NEW x \in Segment, made' = made,
           segs' = [segs EXCEPT ![s] = x],
           x.key = segs[s].key, x.bound = segs[s].bound, x.exists = segs[s].exists,
           x.attached = segs[s].attached, segs[s].uuid <= x.uuid
    PROVE  /\ SegsKept /\ \A q : Spared(q)
           /\ \A r \in Segments : Orphan(r)' <=> Orphan(r)
           /\ segs'[s] = x /\ \A r \in Segments : r # s => segs'[r] = segs[r]
<1>1. /\ x.bound => segs[s].bound
      /\ \A q : segs[s].exists /\ q \in segs[s].attached => x.exists /\ q \in x.attached
  OBVIOUS
<1>2. /\ SegsKept /\ \A q : Spared(q)
      /\ segs'[s] = x /\ \A r \in Segments : r # s => segs'[r] = segs[r]
  BY <1>1, OneChanges
<1> QED
  BY <1>2 DEF Orphan

\* Such a step leaves the handles of the process alone.
LEMMA NumberingProc ==
    ASSUME Types, made' \in Nat, NEW p \in Procs, ProcInv(p), Spared(p),
           call[p].pc \in Numbering, call'[p].pc \in Numbering \cup {"idle"},
           UNCHANGED <<shmem_array, refs>>
    PROVE  ProcInv(p)'
<1>1. made \in Nat /\ made' \in Nat
  BY DEF Types
<1>2. HandleInv(p)'
  BY <1>1 DEF ProcInv, HandleInv, Leaving, Spared, Numbering
<1>3. RefInv(p)' /\ CallInv(p)'
  BY DEF ProcInv, RefInv, CallInv, Numbering
<1> QED
  BY <1>2, <1>3 DEF ProcInv

\* A process that dies is detached from all its segments.
LEMMA DiesProc ==
    ASSUME Types, SegInv, NEW p \in Procs, Dies(p)
    PROVE  /\ ProcInv(p)' /\ SegsKept /\ SegsQuiet
           /\ \A q \in Procs : q # p => Spared(q)
           /\ call'[p].pc = "idle"
<1>1. /\ segs' = [s \in Segments |-> Detached(segs[s], p)] /\ made' = made
      /\ \A h \in Slots : shmem_array'[p][h] = Unborn
      /\ \A k \in Keys : refs'[p][k] = 0
      /\ Return(p)
  BY DEF Dies, Types
<1>2. call'[p].pc = "idle"
  BY <1>1, ReturnFacts
<1>3. \A h \in Slots : ~shmem_array'[p][h].magic
  BY <1>1 DEF Unborn
<1>4. ProcInv(p)'
  BY <1>1, <1>2, <1>3 DEF ProcInv, HandleInv, RefInv, CallInv
<1>5. made \in Nat /\ 1 .. made \subseteq Segments /\ made \in 0 .. MaxSegs
  BY MadeFacts DEF Types
<1>6. \A s \in Segments :
          /\ segs'[s] \in Segment /\ segs'[s].key = segs[s].key
          /\ segs'[s].attached = segs[s].attached \ {p} /\ segs'[s].uuid = segs[s].uuid
          /\ segs'[s].mutex = segs[s].mutex
          /\ segs'[s].exists <=> (segs[s].exists /\ (segs[s].bound \/ segs[s].attached \ {p} # {}))
          /\ segs'[s].bound <=> segs[s].bound
          /\ segs[s].uuid \in Nat
  BY <1>1, MadeFacts, DetachedFacts
<1>7. segs' \in [Segments -> Segment]
  BY <1>1, <1>6
<1>8. SegInv'
  BY <1>1, <1>6 DEF SegInv
<1>9. SegsKept
  BY <1>1, <1>5, <1>6, <1>7, <1>8 DEF SegsKept
<1>10. \A q \in Procs : q # p => Spared(q)
  BY <1>1, <1>5, <1>6 DEF Spared
<1>11. SegsQuiet
  BY <1>5, <1>6 DEF SegsQuiet
<1> QED
  BY <1>2, <1>4, <1>9, <1>10, <1>11

-----------------------------------------------------------------------------
(* The types of what belongs to the process that makes the step. *)

PrivateTypes ==
    /\ shmem_array \in [Procs -> [Slots -> Handle]]
    /\ uuid_data \in [Procs -> {"null", "good", "stale"}]
    /\ call \in [Procs -> Call]
    /\ refs \in [Procs -> [Keys -> 0 .. MaxRefs]]
    /\ ids \in [Procs -> SUBSET [seg : Segments, uuid : 1 .. MaxIds]]
    /\ died \in Flag

LEMMA NextTypes == SegsKept /\ PrivateTypes' => Types'
BY DEF SegsKept, PrivateTypes, Types

LEMMA IdleCall == Idle \in Call /\ UuidKey \in Keys /\ 0 \in Slots
<1>1. PICK f \in Flag : f = FALSE
  BY Flags, Zenon
<1>2. Idle = [pc |-> "idle", key |-> UuidKey, slot |-> 0, retries |-> 0, init |-> f]
  BY <1>1, Zenon DEF Idle
<1>3. 0 \in Slots /\ 0 \in 0 .. ShmgetRetries
  BY BoundsAssumption DEF Slots
<1> QED
  BY <1>2, <1>3, KeysAssumption DEF Call, Places

LEMMA ReturnTypes ==
    ASSUME Types, NEW p \in Procs, Return(p)
    PROVE  call' \in [Procs -> Call]
BY IdleCall DEF Types, Return

LEMMA GotoTypes ==
    ASSUME Types, NEW p \in Procs, NEW place \in Places, Goto(p, place)
    PROVE  call' \in [Procs -> Call]
BY DEF Types, Call, Goto

LEMMA ReturnsTypes ==
    ASSUME Types, NEW p \in Procs, NEW key \in Keys, NEW init, Returns(p, key, init),
           refs[p][key] < MaxRefs
    PROVE  call' \in [Procs -> Call] /\ refs' \in [Procs -> [Keys -> 0 .. MaxRefs]]
<1>1. refs' \in [Procs -> [Keys -> 0 .. MaxRefs]]
  <2>1. refs[p][key] + 1 \in 0 .. MaxRefs
    BY Bounds DEF Types
  <2> QED
    BY <2>1 DEF Types, Returns
<1>2. CASE init
  <2>1. PICK t \in Flag : t = TRUE
    BY Flags, Zenon
  <2> DEFINE c == [Idle EXCEPT !.pc = "uuid_get", !.init = TRUE]
  <2>2. c = [Idle EXCEPT !.pc = "uuid_get", !.init = t]
    BY <2>1, Zenon
  <2>3. call' = [call EXCEPT ![p] = c]
    BY <1>2 DEF Returns
  <2> HIDE DEF c
  <2>4. c \in Call
    BY <2>2, IdleCall DEF Call, Places
  <2> QED
    BY <1>1, <2>3, <2>4 DEF Types
<1>3. CASE ~init
  BY <1>1, <1>3, ReturnTypes DEF Returns
<1> QED
  BY <1>2, <1>3

\* One handle changes.
LEMMA HandleTypes ==
    ASSUME Types, NEW p \in Procs, NEW h \in Slots, NEW x \in Handle,
           shmem_array' = [shmem_array EXCEPT ![p][h] = x]
    PROVE  shmem_array' \in [Procs -> [Slots -> Handle]]
BY DEF Types

LEMMA SomeField ==
    /\ FALSE \in Flag /\ 0 \in 0 .. MaxSegs /\ 0 \in 0 .. MaxRefs
    /\ \A t \in {"CREATED", "ACTIVE", "DETACHED", "DESTROYED", "ERROR"} : t \in States
<1>1. 0 \in 0 .. MaxSegs /\ 0 \in 0 .. MaxRefs
  BY Bounds
<1>2. \A t \in {"CREATED", "ACTIVE", "DETACHED", "DESTROYED", "ERROR"} : t \in States
  BY DEF States
<1> QED
  BY <1>1, <1>2, Flags, Zenon

LEMMA RecordTypes ==
    ASSUME NEW x \in Handle,
           NEW m \in Flag, NEW i \in 0 .. MaxSegs, NEW n \in 0 .. MaxRefs, NEW t \in States
    PROVE  /\ [x EXCEPT !.id = i, !.state = t] \in Handle
           /\ [x EXCEPT !.state = t, !.id = i] \in Handle
           /\ [x EXCEPT !.count = n, !.state = t] \in Handle
           /\ [x EXCEPT !.state = t, !.magic = m] \in Handle
BY DEF Handle

\* Fields of one handle change.
LEMMA FieldTypes ==
    ASSUME Types, NEW p \in Procs, NEW h \in Slots,
           NEW m \in Flag, NEW i \in 0 .. MaxSegs, NEW n \in 0 .. MaxRefs, NEW t \in States
    PROVE  LET T == [Procs -> [Slots -> Handle]]
           IN /\ [shmem_array EXCEPT ![p][h].count = n] \in T
              /\ [shmem_array EXCEPT ![p][h].id = i] \in T
              /\ [shmem_array EXCEPT ![p][h].magic = m] \in T
              /\ [shmem_array EXCEPT ![p][h].id = i, ![p][h].state = t] \in T
              /\ [shmem_array EXCEPT ![p][h].state = t, ![p][h].id = i] \in T
              /\ [shmem_array EXCEPT ![p][h].count = n, ![p][h].state = t] \in T
              /\ [shmem_array EXCEPT ![p][h].state = t, ![p][h].magic = m] \in T
<1>1. shmem_array \in [Procs -> [Slots -> Handle]]
  BY DEF Types
<1>2. [shmem_array EXCEPT ![p][h].count = n] \in [Procs -> [Slots -> Handle]]
  BY <1>1 DEF Handle
<1>3. [shmem_array EXCEPT ![p][h].id = i] \in [Procs -> [Slots -> Handle]]
  BY <1>1 DEF Handle
<1>4. [shmem_array EXCEPT ![p][h].magic = m] \in [Procs -> [Slots -> Handle]]
  BY <1>1 DEF Handle
<1>5. PICK x \in Handle : x = shmem_array[p][h]
  BY <1>1
<1>6. [shmem_array EXCEPT ![p][h].id = i, ![p][h].state = t] \in [Procs -> [Slots -> Handle]]
  <2>1. [x EXCEPT !.id = i, !.state = t] \in Handle
    BY RecordTypes, Zenon
  <2>2. [shmem_array[p][h] EXCEPT !.id = i, !.state = t] \in Handle
    BY <1>5, <2>1, Zenon
  <2> QED
    BY <1>1, <2>2
<1>7. [shmem_array EXCEPT ![p][h].state = t, ![p][h].id = i] \in [Procs -> [Slots -> Handle]]
  <2>1. [x EXCEPT !.state = t, !.id = i] \in Handle
    BY RecordTypes, Zenon
  <2>2. [shmem_array[p][h] EXCEPT !.state = t, !.id = i] \in Handle
    BY <1>5, <2>1, Zenon
  <2> QED
    BY <1>1, <2>2
<1>8. [shmem_array EXCEPT ![p][h].count = n, ![p][h].state = t] \in [Procs -> [Slots -> Handle]]
  <2>1. [x EXCEPT !.count = n, !.state = t] \in Handle
    BY RecordTypes, Zenon
  <2>2. [shmem_array[p][h] EXCEPT !.count = n, !.state = t] \in Handle
    BY <1>5, <2>1, Zenon
  <2> QED
    BY <1>1, <2>2
<1>9. [shmem_array EXCEPT ![p][h].state = t, ![p][h].magic = m] \in [Procs -> [Slots -> Handle]]
  <2>1. [x EXCEPT !.state = t, !.magic = m] \in Handle
    BY RecordTypes, Zenon
  <2>2. [shmem_array[p][h] EXCEPT !.state = t, !.magic = m] \in Handle
    BY <1>5, <2>1, Zenon
  <2> QED
    BY <1>1, <2>2
<1> QED
  BY <1>2, <1>3, <1>4, <1>6, <1>7, <1>8, <1>9, Zenon

-----------------------------------------------------------------------------
(* The numbers of a process. *)

Asking(p) == IF call[p].pc \in Numbering THEN 1 ELSE 0

\* A process has a reference to the uuid segment for each of its numbers, and
\* for the one it is about to take.
NumberInv(p) ==
    IsFiniteSet(ids[p]) /\ Cardinality(ids[p]) + Asking(p) = refs[p][UuidKey]

LEMMA NumberKept ==
    ASSUME NEW p \in Procs, NumberInv(p), ids'[p] = ids[p],
           refs'[p][UuidKey] = refs[p][UuidKey],
           call'[p].pc \in Numbering <=> call[p].pc \in Numbering
    PROVE  NumberInv(p)'
<1>1. Asking(p)' = Asking(p)
  BY DEF Asking
<1> QED
  BY <1>1 DEF NumberInv

LEMMA NumberReturns ==
    ASSUME Types, NEW p \in Procs, NumberInv(p), ids'[p] = ids[p], call[p].pc \notin Numbering,
           NEW key \in Keys, NEW init, init <=> key = UuidKey, Returns(p, key, init)
    PROVE  NumberInv(p)'
<1>1. /\ refs' = [refs EXCEPT ![p][key] = @ + 1]
      /\ call'[p].pc \in {"idle", "uuid_get"}
      /\ call'[p].pc = "uuid_get" <=> key = UuidKey
  BY ReturnsFacts
<1>2. refs[p][UuidKey] \in Nat
  BY Bounds, IdleCall DEF Types
<1>3. refs'[p][UuidKey] = refs[p][UuidKey] + (IF key = UuidKey THEN 1 ELSE 0)
  BY <1>1, <1>2, IdleCall DEF Types
<1>4. Asking(p) = 0 /\ Asking(p)' = (IF key = UuidKey THEN 1 ELSE 0)
  BY <1>1 DEF Asking, Numbering
<1>5. Cardinality(ids[p]) \in Nat
  BY FS_CardinalityType DEF NumberInv
<1> QED
  BY <1>2, <1>3, <1>4, <1>5 DEF NumberInv

\* A module that has a number has a reference.
LEMMA NumberReferred ==
    ASSUME Types, NEW p \in Procs, NumberInv(p), NEW id \in ids[p]
    PROVE  /\ refs[p][UuidKey] > 0
           /\ IsFiniteSet(ids[p] \ {id}) /\ Cardinality(ids[p] \ {id}) = Cardinality(ids[p]) - 1
<1>1. IsFiniteSet(ids[p]) /\ Cardinality(ids[p]) \in Nat
  BY FS_CardinalityType DEF NumberInv
<1>2. IsFiniteSet(ids[p] \ {id}) /\ Cardinality(ids[p] \ {id}) = Cardinality(ids[p]) - 1
  BY <1>1, FS_RemoveElement
<1>3. Cardinality(ids[p] \ {id}) \in Nat
  BY <1>2, FS_CardinalityType
<1> QED
  BY <1>1, <1>2, <1>3 DEF NumberInv, Asking

-----------------------------------------------------------------------------
(* Each step of a process, for itself. *)

\* What a step of p keeps, beside the mutex and the numbers in the segments.
Good(p) ==
    /\ Types' /\ SegsKept /\ ProcInv(p)' /\ NumberInv(p)'
    /\ \A q \in Procs : q # p => Spared(q)
    /\ ~died' => CleansStep(p) /\ ~died

\* A step that neither takes the mutex of a segment nor a number.
Quiet(p) ==
    /\ SegsQuiet /\ ids'[p] \subseteq ids[p]
    /\ call'[p].pc \notin {"uuid_inc", "uuid_give"}

\* What a process relies on for itself.
OwnInv(p) == Types /\ SegInv /\ ProcInv(p) /\ NumberInv(p)

LEMMA NewMappedStep ==
    ASSUME NEW p \in Procs, OwnInv(p), NEW key \in Keys, NEW init, init <=> key = UuidKey,
           new_mapped(p, key, init)
    PROVE  Good(p) /\ Quiet(p)
<1> USE DEF OwnInv
<1>1. PICK h \in Slots :
          /\ Lowest(Valid(p, key)) = h
          /\ shmem_array[p][h].magic /\ shmem_array[p][h].key = key
  BY OneHandle DEF new_mapped
<1>2. /\ shmem_array' = [shmem_array EXCEPT ![p][h].count = @ + 1]
      /\ Returns(p, key, init) /\ refs[p][key] < MaxRefs
      /\ call[p].pc = "idle" /\ UNCHANGED <<segs, made, uuid_data, ids, died>>
  BY <1>1 DEF new_mapped, At
<1>3. shmem_array[p][h].count = refs[p][key]
  BY <1>1, <1>2 DEF ProcInv, HandleInv, Leaving
<1>4. shmem_array' \in [Procs -> [Slots -> Handle]]
  <2>1. shmem_array[p][h].count + 1 \in 0 .. MaxRefs
    BY <1>2, <1>3, Bounds DEF Types
  <2>2. [shmem_array EXCEPT ![p][h].count = shmem_array[p][h].count + 1] \in [Procs -> [Slots -> Handle]]
    BY <2>1, SomeField, FieldTypes
  <2> QED
    BY <1>2, <2>2
<1>5. PrivateTypes'
  BY <1>2, <1>4, ReturnsTypes DEF Types, PrivateTypes
<1>6. ProcInv(p)'
  BY NewMappedProc
<1>7. NumberInv(p)'
  BY <1>2, NumberReturns DEF Numbering
<1>8. call'[p].pc \in {"idle", "uuid_get"}
  BY <1>2, ReturnsFacts
<1>9. SegsKept /\ SegsQuiet /\ (\A q : Spared(q)) /\ \A s : Orphan(s)' <=> Orphan(s)
  BY <1>2, NothingChanges
<1>10. CleansStep(p)
  BY <1>2, <1>9 DEF CleansStep, Cleans
<1> QED
  BY <1>2, <1>5, <1>6, <1>7, <1>8, <1>9, <1>10, NextTypes DEF Good, Quiet

LEMMA NewUnmappedStep ==
    ASSUME NEW p \in Procs, OwnInv(p), NEW key \in Keys, NEW init \in Flag, init <=> key = UuidKey,
           new_unmapped(p, key, init)
    PROVE  Good(p) /\ Quiet(p)
<1> USE DEF OwnInv
<1> DEFINE h == Lowest(FreeSlots(p))
           c == [pc |-> "shmget", key |-> key, slot |-> h, retries |-> ShmgetRetries, init |-> init]
<1>1. h \in Slots
  BY LowestIn DEF new_unmapped, FreeSlots
<1>2. /\ call' = [call EXCEPT ![p] = c] /\ call[p].pc = "idle"
      /\ UNCHANGED <<segs, made, shmem_array, uuid_data, refs, ids, died>>
  BY DEF new_unmapped, At
<1> HIDE DEF h
<1>3. c \in Call /\ c.pc = "shmget"
  BY <1>1, BoundsAssumption DEF Call, Places
<1> HIDE DEF c
<1>4. call' \in [Procs -> Call] /\ call'[p].pc = "shmget"
  BY <1>2, <1>3 DEF Types
<1>5. PrivateTypes'
  BY <1>2, <1>4 DEF Types, PrivateTypes
<1>6. ProcInv(p)'
  BY NewUnmappedProc
<1>7. NumberInv(p)'
  BY <1>2, <1>4, NumberKept DEF Numbering
<1>8. SegsKept /\ SegsQuiet /\ (\A q : Spared(q)) /\ \A s : Orphan(s)' <=> Orphan(s)
  BY <1>2, NothingChanges
<1>9. CleansStep(p)
  BY <1>2, <1>8 DEF CleansStep, Cleans
<1> QED
  BY <1>2, <1>4, <1>5, <1>6, <1>7, <1>8, <1>9, NextTypes DEF Good, Quiet

LEMMA ShmgetStep ==
    ASSUME NEW p \in Procs, OwnInv(p), new_shmget(p)
    PROVE  Good(p) /\ Quiet(p)
<1> USE DEF OwnInv
<1> DEFINE h == call[p].slot
<1>1. /\ call[p].pc = "shmget" /\ Goto(p, "shmat") /\ UNCHANGED <<uuid_data, refs, ids, died>>
  BY DEF new_shmget, At
<1>2. PICK s \in Segments :
          shmem_array' = [shmem_array EXCEPT ![p][h].id = s, ![p][h].state = "CREATED"]
  BY DEF new_shmget
<1>3. h \in Slots /\ s \in 0 .. MaxSegs
  BY Bounds DEF Types, Call, Segments
<1> HIDE DEF h
<1>4. shmem_array' \in [Procs -> [Slots -> Handle]]
  <2>1. "CREATED" \in States /\ FALSE \in Flag /\ 0 \in 0 .. MaxRefs
    BY SomeField, Zenon
  <2>2. [shmem_array EXCEPT ![p][h].id = s, ![p][h].state = "CREATED"] \in [Procs -> [Slots -> Handle]]
    BY <1>3, <2>1, FieldTypes, Zenon
  <2> QED
    BY <1>2, <2>2, Zenon
<1>5. call' \in [Procs -> Call] /\ call'[p].pc = "shmat"
  BY <1>1, GotoTypes, GotoFacts DEF Places
<1>6. PrivateTypes'
  BY <1>1, <1>4, <1>5 DEF Types, PrivateTypes
<1>7. NumberInv(p)'
  BY <1>1, <1>5, NumberKept DEF Numbering
<1> QED
  BY <1>1, <1>5, <1>6, <1>7, ShmgetProc, NextTypes DEF Good, Quiet

LEMMA ShmgetFailsStep ==
    ASSUME NEW p \in Procs, OwnInv(p), new_shmget_fails(p)
    PROVE  Good(p) /\ Quiet(p)
<1> USE DEF OwnInv
<1> DEFINE h == call[p].slot
<1>1. /\ call[p].pc = "shmget" /\ UNCHANGED <<segs, made, uuid_data, refs, ids, died>>
      /\ shmem_array' = [shmem_array EXCEPT ![p][h].id = 0]
  BY DEF new_shmget_fails, At
<1>2. h \in Slots /\ 0 \in 0 .. MaxSegs
  BY Bounds DEF Types, Call
<1> HIDE DEF h
<1>3. shmem_array' \in [Procs -> [Slots -> Handle]]
  <2>1. "ERROR" \in States /\ FALSE \in Flag /\ 0 \in 0 .. MaxRefs
    BY SomeField, Zenon
  <2>2. [shmem_array EXCEPT ![p][h].id = 0] \in [Procs -> [Slots -> Handle]]
    BY <1>2, <2>1, FieldTypes, Zenon
  <2> QED
    BY <1>1, <2>2, Zenon
<1>4. call' \in [Procs -> Call] /\ call'[p].pc \in {"idle", "shmget"}
  <2>1. CASE Return(p)
    BY <2>1, ReturnTypes, ReturnFacts
  <2>2. CASE call[p].retries > 0 /\ call' = [call EXCEPT ![p].retries = @ - 1]
    <3>1. call[p].retries - 1 \in 0 .. ShmgetRetries
      BY <2>2, BoundsAssumption DEF Types, Call
    <3> QED
      BY <1>1, <2>2, <3>1 DEF Types, Call
  <2> QED
    BY <2>1, <2>2 DEF new_shmget_fails
<1>5. PrivateTypes'
  BY <1>1, <1>3, <1>4 DEF Types, PrivateTypes
<1>6. NumberInv(p)'
  BY <1>1, <1>4, NumberKept DEF Numbering
<1>7. SegsKept /\ SegsQuiet /\ (\A q : Spared(q)) /\ \A s : Orphan(s)' <=> Orphan(s)
  BY <1>1, NothingChanges
<1>8. CleansStep(p)
  BY <1>1, <1>7 DEF CleansStep, Cleans
<1> QED
  BY <1>1, <1>4, <1>5, <1>6, <1>7, <1>8, ShmgetFailsProc, NextTypes DEF Good, Quiet

LEMMA ShmatStep ==
    ASSUME NEW p \in Procs, OwnInv(p), new_shmat(p)
    PROVE  Good(p) /\ Quiet(p)
<1> USE DEF OwnInv
<1> DEFINE h == call[p].slot
           s == shmem_array[p][h].id
           key == call[p].key
           x == [magic |-> TRUE, key |-> key, id |-> s, count |-> 1, state |-> "ACTIVE"]
<1>1. /\ call[p].pc = "shmat" /\ Returns(p, key, call[p].init) /\ UNCHANGED <<ids, died>>
      /\ shmem_array' = [shmem_array EXCEPT ![p][h] = x]
  BY DEF new_shmat, At
<1>2. h \in Slots /\ key \in Keys
  BY DEF Types, Call
<1>3. /\ \A i \in Slots : shmem_array[p][i].magic => shmem_array[p][i].key # key
      /\ call[p].init <=> key = UuidKey
      /\ s \in 0 .. MaxSegs
  <2>1. s \in 0 .. MaxSegs
    BY <1>2 DEF Types, Handle
  <2> QED
    BY <1>1, <2>1 DEF ProcInv, CallInv
<1> HIDE DEF h, s, key
<1>4. PICK t \in Flag : t = TRUE
  BY Flags, Zenon
<1>5. x = [magic |-> t, key |-> key, id |-> s, count |-> 1, state |-> "ACTIVE"]
  BY <1>4, Zenon
<1> HIDE DEF x
<1>6. x \in Handle
  BY <1>2, <1>3, <1>5, Bounds DEF Handle, States
<1>7. shmem_array' \in [Procs -> [Slots -> Handle]]
  BY <1>1, <1>2, <1>6, HandleTypes
<1>8. uuid_data' \in [Procs -> {"null", "good", "stale"}]
  <2>1. PICK v \in IF key # UuidKey \/ uuid_data[p] = "null" THEN {uuid_data[p]} ELSE {"good", "stale"} :
            uuid_data' = [uuid_data EXCEPT ![p] = v]
    BY DEF new_shmat, key
  <2> QED
    BY <2>1 DEF Types
<1>9. refs[p][key] < MaxRefs
  <2>1. refs[p][key] \in Nat
    BY <1>2, Bounds DEF Types
  <2>2. ~(refs[p][key] > 0)
    BY <1>2, <1>3 DEF ProcInv, RefInv
  <2> QED
    BY <2>1, <2>2, Bounds
<1>10. PrivateTypes'
  <2>1. call' \in [Procs -> Call] /\ refs' \in [Procs -> [Keys -> 0 .. MaxRefs]]
    BY <1>1, <1>2, <1>9, ReturnsTypes
  <2> QED
    BY <1>1, <1>7, <1>8, <2>1 DEF Types, PrivateTypes
<1>11. NumberInv(p)'
  BY <1>1, <1>2, <1>3, NumberReturns DEF Numbering
<1>12. call'[p].pc \in {"idle", "uuid_get"}
  BY <1>1, <1>2, ReturnsFacts
<1> QED
  BY <1>1, <1>10, <1>11, <1>12, ShmatProc, NextTypes DEF Good, Quiet

LEMMA ShmatFailsStep ==
    ASSUME NEW p \in Procs, OwnInv(p), new_shmat_fails(p)
    PROVE  Good(p) /\ Quiet(p)
<1> USE DEF OwnInv
<1>1. /\ call[p].pc = "shmat" /\ Goto(p, "rollback")
      /\ UNCHANGED <<segs, made, shmem_array, uuid_data, refs, ids, died>>
  BY DEF new_shmat_fails, At
<1>2. call' \in [Procs -> Call] /\ call'[p].pc = "rollback"
  BY <1>1, GotoTypes, GotoFacts DEF Places
<1>3. PrivateTypes'
  BY <1>1, <1>2 DEF Types, PrivateTypes
<1>4. NumberInv(p)'
  BY <1>1, <1>2, NumberKept DEF Numbering
<1>5. SegsKept /\ SegsQuiet /\ (\A q : Spared(q))
  BY <1>1, NothingChanges
<1> QED
  BY <1>1, <1>2, <1>3, <1>4, <1>5, ShmatFailsProc, NextTypes DEF Good, Quiet

LEMMA RollbackStep ==
    ASSUME NEW p \in Procs, OwnInv(p), new_rollback(p)
    PROVE  Good(p) /\ Quiet(p)
<1> USE DEF OwnInv
<1> DEFINE h == call[p].slot
<1>1. /\ call[p].pc = "rollback" /\ Return(p) /\ UNCHANGED <<uuid_data, refs, ids, died>>
      /\ shmem_array' = [shmem_array EXCEPT ![p][h].state = "ERROR", ![p][h].id = 0]
  BY DEF new_rollback, At
<1>2. h \in Slots /\ 0 \in 0 .. MaxSegs
  BY Bounds DEF Types, Call
<1> HIDE DEF h
<1>3. shmem_array' \in [Procs -> [Slots -> Handle]]
  <2>1. "ERROR" \in States /\ FALSE \in Flag /\ 0 \in 0 .. MaxRefs
    BY SomeField, Zenon
  <2>2. [shmem_array EXCEPT ![p][h].state = "ERROR", ![p][h].id = 0] \in [Procs -> [Slots -> Handle]]
    BY <1>2, <2>1, FieldTypes, Zenon
  <2> QED
    BY <1>1, <2>2, Zenon
<1>4. call' \in [Procs -> Call] /\ call'[p].pc = "idle"
  BY <1>1, ReturnTypes, ReturnFacts
<1>5. PrivateTypes'
  BY <1>1, <1>3, <1>4 DEF Types, PrivateTypes
<1>6. NumberInv(p)'
  BY <1>1, <1>4, NumberKept DEF Numbering
<1> QED
  BY <1>1, <1>4, <1>5, <1>6, RollbackProc, NextTypes DEF Good, Quiet

LEMMA DeleteTypes ==
    ASSUME Types, NEW p \in Procs, ProcInv(p), NEW key \in Keys,
           refs[p][key] > 0, refs' = [refs EXCEPT ![p][key] = @ - 1], delete(p, key)
    PROVE  /\ shmem_array' \in [Procs -> [Slots -> Handle]]
           /\ call' \in [Procs -> Call]
           /\ refs' \in [Procs -> [Keys -> 0 .. MaxRefs]]
<1>1. PICK h \in Slots : Lowest(Valid(p, key)) = h
  BY OneHandle
<1>2. refs' \in [Procs -> [Keys -> 0 .. MaxRefs]]
  <2>1. refs[p][key] - 1 \in 0 .. MaxRefs
    BY Bounds DEF Types
  <2> QED
    BY <2>1 DEF Types
<1>3. CASE shmem_array[p][h].count > 1
  <2>1. /\ shmem_array' = [shmem_array EXCEPT ![p][h].count = shmem_array[p][h].count - 1]
        /\ call' = call
    BY <1>1, <1>3 DEF delete
  <2>2. shmem_array[p][h].count - 1 \in 0 .. MaxRefs
    BY <1>3, Bounds DEF Types, Handle
  <2>3. [shmem_array EXCEPT ![p][h].count = shmem_array[p][h].count - 1] \in [Procs -> [Slots -> Handle]]
    BY <2>2, SomeField, FieldTypes
  <2>4. call' \in [Procs -> Call]
    BY <2>1 DEF Types
  <2> QED
    BY <1>2, <2>1, <2>3, <2>4
<1>4. CASE ~(shmem_array[p][h].count > 1)
  <2> DEFINE c == [Idle EXCEPT !.pc = "stat", !.key = key, !.slot = h]
  <2>1. /\ shmem_array' = [shmem_array EXCEPT ![p][h].count = 0, ![p][h].state = "DETACHED"]
        /\ call' = [call EXCEPT ![p] = c]
    BY <1>1, <1>4 DEF delete
  <2>2. "DETACHED" \in States /\ FALSE \in Flag /\ 0 \in 0 .. MaxRefs /\ 0 \in 0 .. MaxSegs
    BY SomeField, Zenon
  <2>3. [shmem_array EXCEPT ![p][h].count = 0, ![p][h].state = "DETACHED"] \in [Procs -> [Slots -> Handle]]
    BY <2>2, FieldTypes, Zenon
  <2>4. c \in Call
    BY IdleCall DEF Call, Places
  <2> HIDE DEF c
  <2>5. call' \in [Procs -> Call]
    BY <2>1, <2>4 DEF Types
  <2>6. shmem_array' \in [Procs -> [Slots -> Handle]]
    BY <2>1, <2>3, Zenon
  <2> QED
    BY <1>2, <2>5, <2>6
<1> QED
  BY <1>3, <1>4

LEMMA DeleteStep ==
    ASSUME NEW p \in Procs, OwnInv(p), NEW key \in Keys, rtapi_shmem_delete(p, key)
    PROVE  Good(p) /\ Quiet(p)
<1> USE DEF OwnInv
<1>1. /\ call[p].pc = "idle" /\ key # UuidKey /\ refs[p][key] > 0
      /\ refs' = [refs EXCEPT ![p][key] = @ - 1] /\ delete(p, key)
      /\ UNCHANGED <<made, uuid_data, ids, died>>
  BY DEF rtapi_shmem_delete, At
<1>2. PrivateTypes'
  <2>1. /\ shmem_array' \in [Procs -> [Slots -> Handle]]
        /\ call' \in [Procs -> Call]
        /\ refs' \in [Procs -> [Keys -> 0 .. MaxRefs]]
    BY <1>1, DeleteTypes
  <2> QED
    BY <1>1, <2>1 DEF Types, PrivateTypes
<1>3. /\ ProcInv(p)' /\ CleansStep(p) /\ SegsKept /\ SegsQuiet
      /\ \A q \in Procs : q # p => Spared(q)
      /\ call'[p].pc \in {"idle", "stat"}
  BY <1>1, DeleteProc
<1>4. refs'[p][UuidKey] = refs[p][UuidKey]
  BY <1>1, IdleCall DEF Types
<1>5. NumberInv(p)'
  BY <1>1, <1>3, <1>4, NumberKept DEF Numbering
<1> QED
  BY <1>1, <1>2, <1>3, <1>5, NextTypes DEF Good, Quiet

LEMMA ExitStep ==
    ASSUME NEW p \in Procs, OwnInv(p), NEW id \in ids[p], rtapi_exit(p, id)
    PROVE  Good(p) /\ Quiet(p)
<1> USE DEF OwnInv
<1>1. /\ call[p].pc = "idle" /\ ids' = [ids EXCEPT ![p] = @ \ {id}]
      /\ refs' = [refs EXCEPT ![p][UuidKey] = @ - 1] /\ delete(p, UuidKey)
      /\ UNCHANGED <<made, uuid_data, died>>
  BY DEF rtapi_exit, At
<1>2. UuidKey \in Keys
  BY IdleCall
<1>3. /\ refs[p][UuidKey] > 0 /\ refs[p][UuidKey] \in Nat
      /\ IsFiniteSet(ids[p] \ {id}) /\ Cardinality(ids[p] \ {id}) = Cardinality(ids[p]) - 1
  <2>1. refs[p][UuidKey] \in Nat
    BY <1>2, Bounds DEF Types
  <2> QED
    BY <2>1, NumberReferred
<1>4. ids'[p] = ids[p] \ {id}
  BY <1>1 DEF Types
<1>5. PrivateTypes'
  <2>1. /\ shmem_array' \in [Procs -> [Slots -> Handle]]
        /\ call' \in [Procs -> Call]
        /\ refs' \in [Procs -> [Keys -> 0 .. MaxRefs]]
    BY <1>1, <1>2, <1>3, DeleteTypes
  <2>2. ids' \in [Procs -> SUBSET [seg : Segments, uuid : 1 .. MaxIds]]
    <3> DEFINE T == [seg : Segments, uuid : 1 .. MaxIds]
    <3>1. ids \in [Procs -> SUBSET T]
      BY DEF Types
    <3> HIDE DEF T
    <3>2. ids' \in [Procs -> SUBSET T]
      BY <1>1, <3>1
    <3> QED
      BY <3>2 DEF T
  <2> QED
    BY <1>1, <2>1, <2>2 DEF Types, PrivateTypes
<1>6. /\ ProcInv(p)' /\ CleansStep(p) /\ SegsKept /\ SegsQuiet
      /\ \A q \in Procs : q # p => Spared(q)
      /\ call'[p].pc \in {"idle", "stat"}
  BY <1>1, <1>2, <1>3, DeleteProc
<1>7. NumberInv(p)'
  <2>1. refs'[p][UuidKey] = refs[p][UuidKey] - 1
    BY <1>1, <1>2 DEF Types
  <2>2. Asking(p) = 0 /\ Asking(p)' = 0
    BY <1>1, <1>6 DEF Asking, Numbering
  <2>3. Cardinality(ids[p]) \in Nat
    BY FS_CardinalityType DEF NumberInv
  <2> QED
    BY <1>3, <1>4, <2>1, <2>2, <2>3 DEF NumberInv
<1> QED
  BY <1>1, <1>4, <1>5, <1>6, <1>7, NextTypes DEF Good, Quiet

LEMMA StatStep ==
    ASSUME NEW p \in Procs, OwnInv(p), delete_stat(p)
    PROVE  Good(p) /\ Quiet(p)
<1> USE DEF OwnInv
<1> DEFINE h == call[p].slot
<1>1. call[p].pc = "stat" /\ UNCHANGED <<segs, made, uuid_data, refs, ids, died>>
  BY DEF delete_stat, At
<1>2. h \in Slots
  BY DEF Types, Call
<1>3. shmem_array' \in [Procs -> [Slots -> Handle]]
  <2>1. CASE UNCHANGED shmem_array
    BY <2>1 DEF Types
  <2>2. CASE shmem_array' = [shmem_array EXCEPT ![p][h].magic = FALSE]
    <3> HIDE DEF h
    <3>1. "ERROR" \in States /\ FALSE \in Flag /\ 0 \in 0 .. MaxRefs /\ 0 \in 0 .. MaxSegs
      BY SomeField, Zenon
    <3>2. [shmem_array EXCEPT ![p][h].magic = FALSE] \in [Procs -> [Slots -> Handle]]
      BY <1>2, <3>1, FieldTypes, Zenon
    <3> QED
      BY <2>2, <3>2, Zenon
  <2> QED
    BY <2>1, <2>2 DEF delete_stat
<1>4. call' \in [Procs -> Call]
  <2>1. CASE Goto(p, "rmid")
    BY <2>1, GotoTypes DEF Places
  <2>2. CASE Return(p)
    BY <2>2, ReturnTypes
  <2> QED
    BY <2>1, <2>2 DEF delete_stat
<1>5. PrivateTypes'
  BY <1>1, <1>3, <1>4 DEF Types, PrivateTypes
<1>6. /\ ProcInv(p)' /\ CleansStep(p)
      /\ SegsKept /\ SegsQuiet /\ \A q : Spared(q)
      /\ call'[p].pc \in {"idle", "rmid"}
  BY StatProc
<1>7. NumberInv(p)'
  BY <1>1, <1>6, NumberKept DEF Numbering
<1> QED
  BY <1>1, <1>5, <1>6, <1>7, NextTypes DEF Good, Quiet

LEMMA RmidStep ==
    ASSUME NEW p \in Procs, OwnInv(p), delete_rmid(p)
    PROVE  Good(p) /\ Quiet(p)
<1> USE DEF OwnInv
<1> DEFINE h == call[p].slot
<1>1. /\ call[p].pc = "rmid" /\ Return(p) /\ UNCHANGED <<uuid_data, refs, ids, died>>
      /\ shmem_array' = [shmem_array EXCEPT ![p][h].state = "DESTROYED", ![p][h].magic = FALSE]
  BY DEF delete_rmid, At
<1>2. h \in Slots
  BY DEF Types, Call
<1> HIDE DEF h
<1>3. shmem_array' \in [Procs -> [Slots -> Handle]]
  <2>1. "DESTROYED" \in States /\ FALSE \in Flag /\ 0 \in 0 .. MaxRefs /\ 0 \in 0 .. MaxSegs
    BY SomeField, Zenon
  <2>2. [shmem_array EXCEPT ![p][h].state = "DESTROYED", ![p][h].magic = FALSE]
            \in [Procs -> [Slots -> Handle]]
    BY <1>2, <2>1, FieldTypes, Zenon
  <2> QED
    BY <1>1, <2>2, Zenon
<1>4. call' \in [Procs -> Call] /\ call'[p].pc = "idle"
  BY <1>1, ReturnTypes, ReturnFacts
<1>5. PrivateTypes'
  BY <1>1, <1>3, <1>4 DEF Types, PrivateTypes
<1>6. NumberInv(p)'
  BY <1>1, <1>4, NumberKept DEF Numbering
<1> QED
  BY <1>1, <1>4, <1>5, <1>6, RmidProc, NextTypes DEF Good, Quiet

LEMMA DiesStep ==
    ASSUME NEW p \in Procs, OwnInv(p), Dies(p)
    PROVE  Good(p) /\ Quiet(p)
<1> USE DEF OwnInv
<1>1. /\ shmem_array' = [shmem_array EXCEPT ![p] = [h \in Slots |-> Unborn]]
      /\ uuid_data' = [uuid_data EXCEPT ![p] = "null"]
      /\ refs' = [refs EXCEPT ![p] = [k \in Keys |-> 0]]
      /\ ids' = [ids EXCEPT ![p] = {}] /\ Return(p)
  BY DEF Dies
<1>2. died'
  BY DEF Dies
<1>3. Unborn \in Handle
  <2>1. PICK f \in Flag : f = FALSE
    BY Flags, Zenon
  <2>2. Unborn = [magic |-> f, key |-> UuidKey, id |-> 0, count |-> 0, state |-> "UNBORN"]
    BY <2>1, Zenon DEF Unborn
  <2> QED
    BY <2>2, IdleCall, SomeField DEF Handle, States
<1>4. PrivateTypes'
  <2>1. shmem_array' \in [Procs -> [Slots -> Handle]]
    BY <1>1, <1>3 DEF Types
  <2>2. uuid_data' \in [Procs -> {"null", "good", "stale"}]
    BY <1>1 DEF Types
  <2>3. refs' \in [Procs -> [Keys -> 0 .. MaxRefs]]
    BY <1>1, SomeField DEF Types
  <2>4. ids' \in [Procs -> SUBSET [seg : Segments, uuid : 1 .. MaxIds]]
    BY <1>1 DEF Types
  <2>5. died' \in Flag
    BY Flags, Zenon DEF Dies
  <2>6. call' \in [Procs -> Call]
    BY <1>1, ReturnTypes
  <2> QED
    BY <2>1, <2>2, <2>3, <2>4, <2>5, <2>6 DEF PrivateTypes
<1>5. /\ ProcInv(p)' /\ SegsKept /\ SegsQuiet
      /\ \A q \in Procs : q # p => Spared(q)
      /\ call'[p].pc = "idle"
  BY DiesProc
<1>6. ids'[p] = {} /\ refs'[p][UuidKey] = 0
  BY <1>1, IdleCall DEF Types
<1>7. NumberInv(p)'
  BY <1>5, <1>6, FS_EmptySet DEF NumberInv, Asking, Numbering
<1> QED
  BY <1>2, <1>4, <1>5, <1>6, <1>7, NextTypes DEF Good, Quiet

-----------------------------------------------------------------------------
(* The mutex and the numbers in the uuid segments. *)

Holding(p) == call[p].pc \in {"uuid_inc", "uuid_give"}

\* One process at a time counts in a segment, and its mutex is taken.
MutexInv ==
    /\ \A p \in Procs : Holding(p) => segs[UuidSegment(p)].mutex
    /\ \A p, q \in Procs : Holding(p) /\ Holding(q) /\ UuidSegment(p) = UuidSegment(q) => p = q

\* A number was counted in its segment.
IdInv ==
    \A p \in Procs : \A id \in ids[p] :
        id.seg \in 1 .. made /\ id.uuid \in 1 .. segs[id.seg].uuid

\* The number a process is about to take is above all that were taken.
GiveInv ==
    \A q \in Procs :
        LET s == UuidSegment(q)
        IN /\ call[q].pc = "uuid_inc" => segs[s].uuid < MaxIds
           /\ call[q].pc = "uuid_give" =>
                 /\ segs[s].uuid > 0
                 /\ \A p \in Procs : \A id \in ids[p] : id.seg = s => id.uuid < segs[s].uuid

ApartInv == \A p, q \in Procs : p # q => ids[p] \cap ids[q] = {}

SharedInv == MutexInv /\ IdInv /\ GiveInv /\ ApartInv

\* What a process that takes a number relies on.
LEMMA HoldingFacts ==
    ASSUME Types, NEW p \in Procs, ProcInv(p), NumberInv(p), call[p].pc \in Numbering
    PROVE  UuidSegment(p) \in Segments /\ UuidSegment(p) \in 1 .. made
<1>1. Cardinality(ids[p]) \in Nat
  BY FS_CardinalityType DEF NumberInv
<1>2. refs[p][UuidKey] > 0
  BY <1>1 DEF NumberInv, Asking
<1> QED
  BY <1>2, UuidSegmentFacts

LEMMA SameSegment ==
    ASSUME NEW q \in Procs, shmem_array'[q] = shmem_array[q]
    PROVE  UuidSegment(q)' = UuidSegment(q)
<1>1. Valid(q, UuidKey)' = Valid(q, UuidKey)
  BY DEF Valid
<1> QED
  BY <1>1 DEF UuidSegment

LEMMA QuietShared ==
    ASSUME Types, \A q \in Procs : ProcInv(q) /\ NumberInv(q), SharedInv,
           NEW p \in Procs, \A q \in Procs : q # p => Alone(q), SegsKept, Quiet(p)
    PROVE  SharedInv'
<1>1. /\ made \in Nat /\ 1 .. made \subseteq Segments /\ made' \in Nat /\ made <= made'
      /\ \A s \in Segments : segs[s].uuid \in Nat
      /\ \A s \in 1 .. made : segs'[s].mutex = segs[s].mutex /\ segs'[s].uuid = segs[s].uuid
  BY MadeFacts, NextMade DEF SegsKept, Quiet, SegsQuiet
<1>2. \A q \in Procs : ids'[q] \subseteq ids[q]
  BY DEF Alone, Quiet
<1>3. ASSUME NEW q \in Procs, Holding(q)'
      PROVE  /\ q # p /\ call'[q] = call[q] /\ Holding(q)
             /\ UuidSegment(q)' = UuidSegment(q) /\ UuidSegment(q) \in 1 .. made
  <2>1. q # p
    BY <1>3 DEF Quiet, Holding
  <2>2. call'[q] = call[q] /\ shmem_array'[q] = shmem_array[q]
    BY <2>1 DEF Alone
  <2>3. UuidSegment(q)' = UuidSegment(q)
    BY <2>2, SameSegment
  <2>4. UuidSegment(q) \in 1 .. made
    BY <1>3, <2>2, HoldingFacts DEF Holding, Numbering
  <2> QED
    BY <1>3, <2>1, <2>2, <2>3, <2>4 DEF Holding
<1>4. MutexInv'
  BY <1>1, <1>3 DEF SharedInv, MutexInv
<1>5. IdInv'
  BY <1>1, <1>2 DEF SharedInv, IdInv
<1>6. GiveInv'
  BY <1>1, <1>2, <1>3 DEF SharedInv, GiveInv, Holding
<1>7. ApartInv'
  BY <1>2 DEF SharedInv, ApartInv
<1> QED
  BY <1>4, <1>5, <1>6, <1>7 DEF SharedInv

\* A field of a uuid segment changes.
LEMMA UuidRecord ==
    ASSUME NEW x \in Segment, NEW m \in Flag, NEW n \in 0 .. MaxIds
    PROVE  LET y == [x EXCEPT !.mutex = m]
               z == [x EXCEPT !.uuid = n]
           IN /\ y \in Segment /\ y.key = x.key /\ y.bound = x.bound /\ y.exists = x.exists
              /\ y.attached = x.attached /\ y.uuid = x.uuid /\ y.mutex = m
              /\ z \in Segment /\ z.key = x.key /\ z.bound = x.bound /\ z.exists = x.exists
              /\ z.attached = x.attached /\ z.uuid = n /\ z.mutex = x.mutex
<1>1. [x EXCEPT !.mutex = m] \in Segment /\ [x EXCEPT !.uuid = n] \in Segment
  BY DEF Segment
<1> QED
  BY <1>1 DEF Segment

AllInv == Types /\ SegInv /\ (\A q \in Procs : ProcInv(q) /\ NumberInv(q)) /\ SharedInv

\* A process changes its uuid segment alone: the others that hold a mutex hold
\* the one of another segment.
LEMMA UuidFrame ==
    ASSUME AllInv, NEW p \in Procs, \A q \in Procs : q # p => Alone(q),
           call[p].pc \in Numbering,
           Holding(p) \/ ~segs[UuidSegment(p)].mutex,
           NEW x \in Segment, segs' = [segs EXCEPT ![UuidSegment(p)] = x],
           UNCHANGED <<made, shmem_array>>
    PROVE  \A q \in Procs :
              /\ UuidSegment(q)' = UuidSegment(q)
              /\ q # p /\ Holding(q)' =>
                    /\ Holding(q) /\ call'[q] = call[q] /\ UuidSegment(q) \in Segments
                    /\ UuidSegment(q) # UuidSegment(p)
                    /\ segs'[UuidSegment(q)] = segs[UuidSegment(q)]
<1>1. ASSUME NEW q \in Procs
      PROVE  UuidSegment(q)' = UuidSegment(q)
  BY SameSegment
<1>2. ASSUME NEW q \in Procs, q # p, Holding(q)'
      PROVE  /\ Holding(q) /\ call'[q] = call[q] /\ UuidSegment(q) \in Segments
             /\ UuidSegment(q) # UuidSegment(p)
             /\ segs'[UuidSegment(q)] = segs[UuidSegment(q)]
  <2>1. call'[q] = call[q] /\ Holding(q)
    BY <1>2 DEF Alone, Holding
  <2>2. UuidSegment(q) \in Segments
    BY <2>1, HoldingFacts DEF AllInv, Holding, Numbering
  <2>3. UuidSegment(q) # UuidSegment(p)
    BY <1>2, <2>1 DEF AllInv, SharedInv, MutexInv
  <2>4. segs'[UuidSegment(q)] = segs[UuidSegment(q)]
    BY <2>2, <2>3 DEF AllInv, Types
  <2> QED
    BY <2>1, <2>2, <2>3, <2>4
<1> QED
  BY <1>1, <1>2

LEMMA UuidGetStep ==
    ASSUME AllInv, NEW p \in Procs, \A q \in Procs : q # p => Alone(q), uuid_get(p)
    PROVE  Good(p) /\ SharedInv'
<1> DEFINE s == UuidSegment(p)
<1>1. /\ call[p].pc = "uuid_get" /\ Goto(p, "uuid_inc")
      /\ segs[s].uuid < MaxIds
      /\ uuid_data' = [uuid_data EXCEPT ![p] = "good"]
      /\ UNCHANGED <<made, shmem_array, refs, ids, died>>
  BY DEF uuid_get, At
<1>2. ~segs[s].mutex
  BY DEF uuid_get
<1>3. Types /\ SegInv /\ ProcInv(p) /\ NumberInv(p) /\ MutexInv /\ IdInv /\ GiveInv /\ ApartInv
  BY DEF AllInv, SharedInv
<1>4. s \in Segments /\ s \in 1 .. made
  BY <1>1, <1>3, HoldingFacts DEF Numbering
<1>5. segs[s] \in Segment /\ segs[s].uuid \in Nat
  BY <1>3, <1>4, MadeFacts
<1>6. PICK t \in Flag : t = TRUE
  BY Flags, Zenon
<1> DEFINE x == [segs[s] EXCEPT !.mutex = t]
<1>7. segs' = [segs EXCEPT ![s] = x]
  <2>1. segs' = [segs EXCEPT ![s].mutex = TRUE]
    BY DEF uuid_get
  <2>2. segs' = [segs EXCEPT ![s].mutex = t]
    BY <1>6, <2>1, Zenon
  <2> QED
    BY <2>2
<1>8. /\ x \in Segment /\ x.key = segs[s].key /\ x.bound = segs[s].bound /\ x.exists = segs[s].exists
      /\ x.attached = segs[s].attached /\ x.uuid = segs[s].uuid /\ x.mutex = t
  <2>1. PICK n \in 0 .. MaxIds : TRUE
    BY Bounds
  <2> QED
    BY <1>5, <2>1, UuidRecord
<1> HIDE DEF x, s
<1>9. /\ SegsKept /\ (\A q : Spared(q)) /\ (\A r \in Segments : Orphan(r)' <=> Orphan(r))
      /\ segs'[s] = x /\ \A r \in Segments : r # s => segs'[r] = segs[r]
  <2>1. segs[s].uuid <= x.uuid
    BY <1>5, <1>8
  <2> QED
    BY <1>1, <1>3, <1>4, <1>7, <1>8, <2>1, UuidChange
<1>10. call' \in [Procs -> Call] /\ call'[p].pc = "uuid_inc"
  BY <1>1, <1>3, GotoTypes, GotoFacts DEF Places
<1>11. PrivateTypes'
  <2>1. uuid_data' \in [Procs -> {"null", "good", "stale"}]
    BY <1>1, <1>3 DEF Types
  <2> QED
    BY <1>1, <1>3, <1>10, <2>1 DEF Types, PrivateTypes
<1>12. ProcInv(p)'
  <2>1. made' \in Nat
    BY <1>9, NextMade
  <2> QED
    BY <1>1, <1>3, <1>9, <1>10, <2>1, NumberingProc DEF Numbering
<1>13. NumberInv(p)'
  BY <1>1, <1>3, <1>10, NumberKept DEF Numbering
<1>14. CleansStep(p)
  BY <1>1, <1>9 DEF CleansStep, Cleans
<1>15. Good(p)
  BY <1>1, <1>9, <1>11, <1>12, <1>13, <1>14, NextTypes DEF Good
<1>16. \A q \in Procs :
          /\ UuidSegment(q)' = UuidSegment(q)
          /\ q # p /\ Holding(q)' =>
                /\ Holding(q) /\ call'[q] = call[q] /\ UuidSegment(q) \in Segments
                /\ UuidSegment(q) # UuidSegment(p)
                /\ segs'[UuidSegment(q)] = segs[UuidSegment(q)]
  BY <1>1, <1>2, <1>7, <1>8, UuidFrame DEF Numbering, s
<1>17. segs'[s].mutex
  BY <1>6, <1>8, <1>9
<1>18. MutexInv'
  BY <1>3, <1>16, <1>17 DEF MutexInv, s
<1>19. \A r \in Segments : segs'[r].uuid = segs[r].uuid
  BY <1>8, <1>9
<1>20. IdInv'
  <2>1. 1 .. made \subseteq Segments
    BY <1>3, MadeFacts
  <2> QED
    BY <1>1, <1>3, <1>19, <2>1 DEF IdInv
<1>21. GiveInv'
  BY <1>1, <1>3, <1>4, <1>10, <1>16, <1>19 DEF GiveInv, Holding, s
<1>22. ApartInv'
  BY <1>1, <1>3 DEF ApartInv
<1> QED
  BY <1>15, <1>18, <1>20, <1>21, <1>22 DEF SharedInv

LEMMA UuidIncStep ==
    ASSUME AllInv, NEW p \in Procs, \A q \in Procs : q # p => Alone(q), uuid_inc(p)
    PROVE  Good(p) /\ SharedInv'
<1> DEFINE s == UuidSegment(p)
           n == segs[s].uuid + 1
           x == [segs[s] EXCEPT !.uuid = n]
<1>1. /\ call[p].pc = "uuid_inc" /\ Goto(p, "uuid_give")
      /\ UNCHANGED <<made, shmem_array, uuid_data, refs, ids, died>>
  BY DEF uuid_inc, At
<1>2. segs' = [segs EXCEPT ![s] = x]
  BY DEF uuid_inc
<1>3. Types /\ SegInv /\ ProcInv(p) /\ NumberInv(p) /\ MutexInv /\ IdInv /\ GiveInv /\ ApartInv
  BY DEF AllInv, SharedInv
<1>4. s \in Segments /\ s \in 1 .. made
  BY <1>1, <1>3, HoldingFacts DEF Numbering
<1>5. segs[s] \in Segment /\ segs[s].uuid \in Nat
  BY <1>3, <1>4, MadeFacts
<1>6. n \in 0 .. MaxIds /\ n \in Nat /\ n > segs[s].uuid
  BY <1>1, <1>3, <1>5, Bounds DEF GiveInv
<1> HIDE DEF n
<1>7. /\ x \in Segment /\ x.key = segs[s].key /\ x.bound = segs[s].bound /\ x.exists = segs[s].exists
      /\ x.attached = segs[s].attached /\ x.uuid = n /\ x.mutex = segs[s].mutex
  BY <1>5, <1>6, Flags, UuidRecord
<1> HIDE DEF x, s
<1>8. /\ SegsKept /\ (\A q : Spared(q)) /\ (\A r \in Segments : Orphan(r)' <=> Orphan(r))
      /\ segs'[s] = x /\ \A r \in Segments : r # s => segs'[r] = segs[r]
  <2>1. segs[s].uuid <= x.uuid
    BY <1>5, <1>6, <1>7
  <2> QED
    BY <1>1, <1>2, <1>3, <1>4, <1>7, <2>1, UuidChange
<1>9. call' \in [Procs -> Call] /\ call'[p].pc = "uuid_give"
  BY <1>1, <1>3, GotoTypes, GotoFacts DEF Places
<1>10. PrivateTypes'
  BY <1>1, <1>3, <1>9 DEF Types, PrivateTypes
<1>11. ProcInv(p)'
  <2>1. made' \in Nat
    BY <1>8, NextMade
  <2> QED
    BY <1>1, <1>3, <1>8, <1>9, <2>1, NumberingProc DEF Numbering
<1>12. NumberInv(p)'
  BY <1>1, <1>3, <1>9, NumberKept DEF Numbering
<1>13. CleansStep(p)
  BY <1>1, <1>8 DEF CleansStep, Cleans
<1>14. Good(p)
  BY <1>1, <1>8, <1>10, <1>11, <1>12, <1>13, NextTypes DEF Good
<1>15. \A q \in Procs :
          /\ UuidSegment(q)' = UuidSegment(q)
          /\ q # p /\ Holding(q)' =>
                /\ Holding(q) /\ call'[q] = call[q] /\ UuidSegment(q) \in Segments
                /\ UuidSegment(q) # UuidSegment(p)
                /\ segs'[UuidSegment(q)] = segs[UuidSegment(q)]
  BY <1>1, <1>2, <1>7, UuidFrame DEF Numbering, Holding, s
<1>16. Holding(p)
  BY <1>1 DEF Holding
<1>17. MutexInv'
  <2>1. segs'[s].mutex
    BY <1>3, <1>7, <1>8, <1>16 DEF MutexInv, s
  <2> QED
    BY <1>3, <1>15, <1>16, <2>1 DEF MutexInv, s
<1>18. 1 .. made \subseteq Segments /\ \A r \in Segments : segs[r].uuid \in Nat
  BY <1>3, MadeFacts
<1>19. \A r \in Segments : segs'[r].uuid \in Nat /\ segs[r].uuid <= segs'[r].uuid
  BY <1>5, <1>6, <1>7, <1>8, <1>18
<1>20. IdInv'
  BY <1>1, <1>3, <1>18, <1>19 DEF IdInv
<1>21. GiveInv'
  <2>1. \A q \in Procs : q # p =>
            (LET r == UuidSegment(q)
             IN /\ call[q].pc = "uuid_inc" => segs[r].uuid < MaxIds
                /\ call[q].pc = "uuid_give" =>
                      /\ segs[r].uuid > 0
                      /\ \A o \in Procs : \A id \in ids[o] : id.seg = r => id.uuid < segs[r].uuid)'
    BY <1>1, <1>3, <1>15 DEF GiveInv, Holding
  <2>2. segs'[s].uuid > 0
    BY <1>5, <1>6, <1>7, <1>8
  <2>3. \A o \in Procs : \A id \in ids'[o] : id.seg = s => id.uuid < segs'[s].uuid
    BY <1>1, <1>3, <1>5, <1>6, <1>7, <1>8 DEF IdInv
  <2> QED
    BY <1>9, <1>15, <2>1, <2>2, <2>3 DEF GiveInv, s
<1>22. ApartInv'
  BY <1>1, <1>3 DEF ApartInv
<1> QED
  BY <1>14, <1>17, <1>20, <1>21, <1>22 DEF SharedInv

LEMMA UuidGiveStep ==
    ASSUME AllInv, NEW p \in Procs, \A q \in Procs : q # p => Alone(q), uuid_give(p)
    PROVE  Good(p) /\ SharedInv'
<1> DEFINE s == UuidSegment(p)
           new == [seg |-> s, uuid |-> segs[s].uuid]
<1>1. /\ call[p].pc = "uuid_give" /\ Return(p)
      /\ ids' = [ids EXCEPT ![p] = @ \cup {new}]
      /\ UNCHANGED <<made, shmem_array, uuid_data, refs, died>>
  BY DEF uuid_give, At
<1>2. Types /\ SegInv /\ ProcInv(p) /\ NumberInv(p) /\ MutexInv /\ IdInv /\ GiveInv /\ ApartInv
  BY DEF AllInv, SharedInv
<1>3. s \in Segments /\ s \in 1 .. made
  BY <1>1, <1>2, HoldingFacts DEF Numbering
<1>4. segs[s] \in Segment /\ segs[s].uuid \in Nat /\ segs[s].uuid \in 0 .. MaxIds
  <2>1. segs[s] \in Segment /\ segs[s].uuid \in Nat
    BY <1>2, <1>3, MadeFacts
  <2> QED
    BY <2>1 DEF Segment
<1>5. PICK f \in Flag : f = FALSE
  BY Flags, Zenon
<1> DEFINE x == [segs[s] EXCEPT !.mutex = f]
<1>6. segs' = [segs EXCEPT ![s] = x]
  <2>1. segs' = [segs EXCEPT ![s].mutex = FALSE]
    BY DEF uuid_give
  <2>2. segs' = [segs EXCEPT ![s].mutex = f]
    BY <1>5, <2>1, Zenon
  <2> QED
    BY <2>2
<1>7. /\ x \in Segment /\ x.key = segs[s].key /\ x.bound = segs[s].bound /\ x.exists = segs[s].exists
      /\ x.attached = segs[s].attached /\ x.uuid = segs[s].uuid
  BY <1>4, UuidRecord
<1>8. new.seg = s /\ new.uuid = segs[s].uuid
  OBVIOUS
<1>9. /\ segs[s].uuid > 0
      /\ \A q \in Procs : \A id \in ids[q] : id.seg = s => id.uuid < segs[s].uuid
  BY <1>1, <1>2 DEF GiveInv
<1>10. new \in [seg : Segments, uuid : 1 .. MaxIds]
  BY <1>3, <1>4, <1>9, Bounds
<1> HIDE DEF x, s, new
<1>11. \A q \in Procs : new \notin ids[q]
  BY <1>4, <1>8, <1>9
<1>12. /\ SegsKept /\ (\A q : Spared(q)) /\ (\A r \in Segments : Orphan(r)' <=> Orphan(r))
       /\ segs'[s] = x /\ \A r \in Segments : r # s => segs'[r] = segs[r]
  <2>1. segs[s].uuid <= x.uuid
    BY <1>4, <1>7
  <2> QED
    BY <1>1, <1>2, <1>3, <1>6, <1>7, <2>1, UuidChange
<1>13. call' \in [Procs -> Call] /\ call'[p].pc = "idle"
  BY <1>1, <1>2, ReturnTypes, ReturnFacts
<1>14. /\ ids'[p] = ids[p] \cup {new}
       /\ \A q \in Procs : q # p => ids'[q] = ids[q]
  BY <1>1, <1>2 DEF Types
<1>15. PrivateTypes'
  <2>1. ids' \in [Procs -> SUBSET [seg : Segments, uuid : 1 .. MaxIds]]
    <3> DEFINE T == [seg : Segments, uuid : 1 .. MaxIds]
    <3>1. ids \in [Procs -> SUBSET T] /\ new \in T
      BY <1>2, <1>10 DEF Types
    <3> HIDE DEF T
    <3>2. ids' \in [Procs -> SUBSET T]
      BY <1>1, <3>1
    <3> QED
      BY <3>2 DEF T
  <2> QED
    BY <1>1, <1>2, <1>13, <2>1 DEF Types, PrivateTypes
<1>16. ProcInv(p)'
  <2>1. made' \in Nat
    BY <1>12, NextMade
  <2> QED
    BY <1>1, <1>2, <1>12, <1>13, <2>1, NumberingProc DEF Numbering
<1>17. NumberInv(p)'
  <2>1. IsFiniteSet(ids[p]) /\ Cardinality(ids[p]) \in Nat
    BY <1>2, FS_CardinalityType DEF NumberInv
  <2>2. IsFiniteSet(ids'[p]) /\ Cardinality(ids'[p]) = Cardinality(ids[p]) + 1
    <3>1. new \notin ids[p]
      BY <1>11
    <3>2. /\ IsFiniteSet(ids[p] \cup {new})
          /\ Cardinality(ids[p] \cup {new}) = Cardinality(ids[p]) + 1
      BY <2>1, <3>1, FS_AddElement
    <3> QED
      BY <1>14, <3>2
  <2>3. Asking(p) = 1 /\ Asking(p)' = 0
    BY <1>1, <1>13 DEF Asking, Numbering
  <2> QED
    BY <1>1, <1>2, <2>1, <2>2, <2>3 DEF NumberInv
<1>18. CleansStep(p)
  BY <1>1, <1>12 DEF CleansStep, Cleans
<1>19. Good(p)
  BY <1>1, <1>12, <1>15, <1>16, <1>17, <1>18, NextTypes DEF Good
<1>20. \A q \in Procs :
          /\ UuidSegment(q)' = UuidSegment(q)
          /\ q # p /\ Holding(q)' =>
                /\ Holding(q) /\ call'[q] = call[q] /\ UuidSegment(q) \in Segments
                /\ UuidSegment(q) # UuidSegment(p)
                /\ segs'[UuidSegment(q)] = segs[UuidSegment(q)]
  BY <1>1, <1>6, <1>7, UuidFrame DEF Numbering, Holding, s
<1>21. ~Holding(p)'
  BY <1>13 DEF Holding
<1>22. MutexInv'
  BY <1>2, <1>20, <1>21 DEF MutexInv
<1>23. \A r \in Segments : segs'[r].uuid = segs[r].uuid
  BY <1>7, <1>12
<1>24. 1 .. made \subseteq Segments /\ \A r \in Segments : segs[r].uuid \in Nat
  BY <1>2, MadeFacts
<1>25. IdInv'
  BY <1>1, <1>2, <1>3, <1>4, <1>8, <1>9, <1>14, <1>23, <1>24 DEF IdInv
<1>26. GiveInv'
  BY <1>2, <1>8, <1>14, <1>20, <1>21, <1>23 DEF GiveInv, Holding, s
<1>27. ApartInv'
  BY <1>2, <1>11, <1>14 DEF ApartInv
<1> QED
  BY <1>19, <1>22, <1>25, <1>26, <1>27 DEF SharedInv

-----------------------------------------------------------------------------
(* All steps, and the theorems. *)

\* Unless a process died, a segment nobody is attached to has somebody who is
\* about to attach to it or to remove it.
RemoverInv == ~died => \A s \in Segments : Orphan(s) => \E p \in Procs : Cleans(p, s)

ShmemInv == AllInv /\ RemoverInv

LEMMA InitInv == Init => ShmemInv
<1> SUFFICES ASSUME Init
             PROVE  ShmemInv
  OBVIOUS
<1>1. TypeOK
  <2>1. segs \in [Segments -> [key : Keys, exists : BOOLEAN, bound : BOOLEAN, attached : SUBSET Procs,
                               mutex : BOOLEAN, uuid : 0 .. MaxIds]]
    BY Bounds, KeysAssumption DEF Init, NoSegment
  <2>2. shmem_array \in [Procs -> [Slots -> [magic : BOOLEAN, key : Keys, id : 0 .. MaxSegs,
                                             count : 0 .. MaxRefs, state : States]]]
    BY Bounds, KeysAssumption DEF Init, Unborn, States
  <2>3. 0 \in Slots /\ 0 \in 0 .. ShmgetRetries
    BY BoundsAssumption DEF Slots
  <2>4. call \in [Procs -> [pc : {"idle", "shmget", "shmat", "rollback", "stat", "rmid",
                                  "uuid_get", "uuid_inc", "uuid_give"},
                            key : Keys, slot : Slots, retries : 0 .. ShmgetRetries, init : BOOLEAN]]
    BY <2>3, KeysAssumption DEF Init, Idle
  <2>5. refs \in [Procs -> [Keys -> 0 .. MaxRefs]] /\ made \in 0 .. MaxSegs
    BY Bounds DEF Init
  <2>6. uuid_data \in [Procs -> {"null", "good", "stale"}]
    BY DEF Init
  <2>7. ids \in [Procs -> SUBSET [seg : Segments, uuid : 1 .. MaxIds]]
    BY DEF Init
  <2>8. died \in BOOLEAN
    BY DEF Init
  <2> QED
    BY <2>1, <2>2, <2>4, <2>5, <2>6, <2>7, <2>8 DEF TypeOK
<1>2. Types
  BY <1>1, TypesAreTypeOK
<1>3. \A s \in Segments : ~segs[s].exists /\ ~segs[s].bound
  BY DEF Init, NoSegment
<1>4. \A p \in Procs : \A h \in Slots : ~shmem_array[p][h].magic
  BY DEF Init, Unborn
<1>5. \A p \in Procs : call[p].pc = "idle" /\ ids[p] = {} /\ \A k \in Keys : refs[p][k] = 0
  BY DEF Init, Idle
<1>6. \A p \in Procs : ProcInv(p)
  BY <1>4, <1>5 DEF ProcInv, HandleInv, RefInv, CallInv
<1>7. \A p \in Procs : NumberInv(p)
  BY <1>5, KeysAssumption, FS_EmptySet DEF NumberInv, Asking, Numbering
<1>8. SharedInv
  BY <1>5 DEF SharedInv, MutexInv, IdInv, GiveInv, ApartInv, Holding
<1>9. SegInv /\ RemoverInv
  BY <1>3 DEF SegInv, RemoverInv, Orphan
<1> QED
  BY <1>2, <1>6, <1>7, <1>8, <1>9 DEF ShmemInv, AllInv

\* A step that keeps what is its process's keeps what is the others'.
LEMMA StepKeeps ==
    ASSUME ShmemInv, NEW p \in Procs, \A q \in Procs : q # p => Alone(q), Good(p), SharedInv'
    PROVE  ShmemInv'
<1>1. \A q \in Procs : ProcInv(q)'
  <2>1. made \in Nat /\ made' \in Nat
    BY MadeFacts, NextMade DEF ShmemInv, AllInv, Good
  <2> QED
    BY <2>1, ProcFrame DEF ShmemInv, AllInv, Good
<1>2. \A q \in Procs : NumberInv(q)'
  BY DEF ShmemInv, AllInv, Good, NumberInv, Asking, Alone
<1>3. RemoverInv'
  <2> SUFFICES ASSUME ~died', NEW s \in Segments, Orphan(s)'
               PROVE  \E q \in Procs : Cleans(q, s)'
    BY DEF RemoverInv
  <2>1. CleansStep(p) /\ ~died
    BY DEF Good
  <2>2. CASE Cleans(p, s)'
    BY <2>2
  <2>3. CASE Orphan(s) /\ ~Cleans(p, s)
    <3>1. PICK q \in Procs : Cleans(q, s)
      BY <2>1, <2>3 DEF ShmemInv, RemoverInv
    <3>2. Cleans(q, s)'
      BY <2>3, <3>1 DEF Cleans, Alone
    <3> QED
      BY <3>2
  <2> QED
    BY <2>1, <2>2, <2>3 DEF CleansStep
<1> QED
  BY <1>1, <1>2, <1>3 DEF ShmemInv, AllInv, Good, SegsKept

LEMMA EveryStep ==
    ASSUME ShmemInv, NEW p \in Procs, Step(p)
    PROVE  ShmemInv'
<1>1. Types /\ OwnInv(p) /\ SharedInv /\ AllInv /\ \A q \in Procs : ProcInv(q) /\ NumberInv(q)
  BY DEF ShmemInv, AllInv, OwnInv
<1>2. \A q \in Procs : q # p => Alone(q)
  BY <1>1, OthersAlone
<1>3. ASSUME Good(p), Quiet(p)
      PROVE  ShmemInv'
  <2>1. SharedInv'
    BY <1>1, <1>2, <1>3, QuietShared DEF Good
  <2> QED
    BY <1>2, <1>3, <2>1, StepKeeps
<1>4. CASE Open(p)
  <2>1. PICK key \in Keys :
            \/ new_mapped(p, key, key = UuidKey)
            \/ new_unmapped(p, key, key = UuidKey)
    BY <1>4 DEF Open
  <2>2. PICK init \in Flag : init = (key = UuidKey)
    BY Zenon DEF Flag
  <2>3. init <=> key = UuidKey
    BY <2>2
  <2>4. new_mapped(p, key, init) \/ new_unmapped(p, key, init)
    BY <2>1, <2>2, Zenon
  <2> QED
    BY <1>1, <1>3, <2>3, <2>4, NewMappedStep, NewUnmappedStep
<1>5. CASE Close(p)
  BY <1>1, <1>3, <1>5, DeleteStep, ExitStep DEF Close
<1>6. CASE new_shmget(p) \/ new_shmget_fails(p)
  BY <1>1, <1>3, <1>6, ShmgetStep, ShmgetFailsStep
<1>7. CASE new_shmat(p) \/ new_shmat_fails(p) \/ new_rollback(p)
  BY <1>1, <1>3, <1>7, ShmatStep, ShmatFailsStep, RollbackStep
<1>8. CASE delete_stat(p) \/ delete_rmid(p)
  BY <1>1, <1>3, <1>8, StatStep, RmidStep
<1>9. CASE uuid_get(p) \/ uuid_inc(p) \/ uuid_give(p)
  <2>1. Good(p) /\ SharedInv'
    BY <1>1, <1>2, <1>9, UuidGetStep, UuidIncStep, UuidGiveStep
  <2> QED
    BY <1>2, <2>1, StepKeeps
<1>10. CASE uuid_get_unmapped(p) \/ crash(p)
  BY <1>1, <1>3, <1>10, DiesStep DEF uuid_get_unmapped, crash
<1> QED
  BY <1>4, <1>5, <1>6, <1>7, <1>8, <1>9, <1>10 DEF Step, Continue

LEMMA StutterKeeps ==
    ASSUME ShmemInv, UNCHANGED vars
    PROVE  ShmemInv'
<1>1. UNCHANGED segs /\ UNCHANGED made /\ UNCHANGED shmem_array /\ UNCHANGED uuid_data
      /\ UNCHANGED call /\ UNCHANGED refs /\ UNCHANGED ids /\ UNCHANGED died
  BY DEF vars
<1>2. Types'
  BY <1>1 DEF ShmemInv, AllInv, Types
<1>3. SegInv' /\ RemoverInv'
  BY <1>1 DEF ShmemInv, AllInv, SegInv, RemoverInv, Orphan, Cleans
<1>4. ASSUME NEW q \in Procs
      PROVE  ProcInv(q)' /\ NumberInv(q)'
  <2>1. ProcInv(q) /\ NumberInv(q) /\ Types /\ SegInv
    BY DEF ShmemInv, AllInv
  <2>2. Alone(q) /\ Spared(q)
    BY <1>1, <2>1, NothingChanges DEF Alone
  <2>3. made \in Nat /\ made' \in Nat
    BY <1>1, <2>1, MadeFacts
  <2>4. ProcInv(q)'
    BY <2>1, <2>2, <2>3, ProcFrame
  <2> QED
    BY <1>1, <2>1, <2>4, NumberKept
<1>5. \A q \in Procs : UuidSegment(q)' = UuidSegment(q)
  BY <1>1, SameSegment
<1>6. SharedInv'
  BY <1>1, <1>5 DEF ShmemInv, AllInv, SharedInv, MutexInv, IdInv, GiveInv, ApartInv, Holding
<1> QED
  BY <1>2, <1>3, <1>4, <1>6 DEF ShmemInv, AllInv

\* The inductive invariant holds of every behaviour of uspace_common.c's
\* shared memory calls.
LEMMA ShmemInvariant == Spec => []ShmemInv
<1>1. ShmemInv /\ [Next]_vars => ShmemInv'
  BY EveryStep, StutterKeeps DEF Next, Step
<1> QED
  BY <1>1, InitInv, PTL DEF Spec

\* Segments, handles, calls and counts stay in their types, whatever the
\* processes call and wherever they die: no count goes below zero.
THEOREM ShmemTypes == Spec => []TypeOK
<1>1. ShmemInv => TypeOK
  BY TypesAreTypeOK DEF ShmemInv, AllInv
<1> QED
  BY <1>1, ShmemInvariant, PTL

\* rtapi_shmem_new and rtapi_shmem_delete: a process that holds a reference has
\* one handle, which counts its references, and is attached to a segment that
\* exists, whatever other processes delete, roll back or leave behind.
THEOREM MappingIsKept == Spec => []RefsKeepMapping
<1>1. ShmemInv => RefsKeepMapping
  <2> SUFFICES ASSUME ShmemInv, NEW p \in Procs, NEW key \in Keys, refs[p][key] > 0
               PROVE  \E h \in Slots :
                         LET handle == shmem_array[p][h]
                         IN /\ Valid(p, key) = {h}
                            /\ handle.count = refs[p][key] /\ handle.state = "ACTIVE"
                            /\ segs[handle.id].exists /\ segs[handle.id].key = key
                            /\ p \in segs[handle.id].attached
    BY DEF RefsKeepMapping
  <2>1. Types /\ ProcInv(p)
    BY DEF ShmemInv, AllInv
  <2>2. refs[p][key] \in Nat
    BY <2>1, Bounds DEF Types
  <2>3. PICK h \in Slots :
            Valid(p, key) = {h} /\ shmem_array[p][h].magic /\ shmem_array[p][h].key = key
    BY <2>1, OneHandle
  <2>4. /\ shmem_array[p][h].count = refs[p][key] /\ shmem_array[p][h].state = "ACTIVE"
        /\ segs[shmem_array[p][h].id].exists /\ segs[shmem_array[p][h].id].key = key
        /\ p \in segs[shmem_array[p][h].id].attached
    BY <2>1, <2>2, <2>3 DEF ProcInv, HandleInv
  <2> QED
    BY <2>3, <2>4
<1> QED
  BY <1>1, ShmemInvariant, PTL

\* rtapi_shmem_delete: unless a process died, a segment does not stay behind
\* when the calls are over and nobody is attached, although asking for the
\* number of users and removing the segment are two system calls.
THEOREM NobodyLeavesSegments == Spec => []LastOneRemoves
<1>1. ShmemInv => LastOneRemoves
  BY DEF ShmemInv, RemoverInv, LastOneRemoves, Orphan, Cleans, At
<1> QED
  BY <1>1, ShmemInvariant, PTL

\* rtapi_init: no two modules have the same number from the same segment, and a
\* process has one number for each reference its modules hold.
THEOREM NumbersAreUnique == Spec => []IdsDistinct
<1>1. ShmemInv => IdsDistinct
  <2> SUFFICES ASSUME ShmemInv
               PROVE  IdsDistinct
    OBVIOUS
  <2>1. ASSUME NEW p \in Procs, At(p, "idle")
        PROVE  Cardinality(ids[p]) = refs[p][UuidKey]
    <3>1. NumberInv(p) /\ Cardinality(ids[p]) \in Nat
      BY FS_CardinalityType DEF ShmemInv, AllInv, NumberInv
    <3>2. Asking(p) = 0
      BY <2>1 DEF At, Asking, Numbering
    <3> QED
      BY <3>1, <3>2 DEF NumberInv
  <2> QED
    BY <2>1 DEF ShmemInv, AllInv, SharedInv, ApartInv, IdsDistinct
<1> QED
  BY <1>1, ShmemInvariant, PTL

=============================================================================
