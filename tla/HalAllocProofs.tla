--------------------------- MODULE HalAllocProofs ---------------------------
(***************************************************************************)
(* Proofs about HalAlloc for a segment of any size, any header and any set *)
(* of request sizes.                                                       *)
(***************************************************************************)
EXTENDS HalAlloc, TLAPS

LEMMA AlignOfValues ==
    ASSUME NEW size \in Nat
    PROVE  AlignOf(size) \in {1, 2, 4, 8, 16}
BY DEF AlignOf

\* Rounding down by one of the boundaries: the result is a multiple, not above
\* the argument and less than the boundary below it.
LEMMA AlignDownFacts ==
    ASSUME NEW x \in Int, NEW a \in {1, 2, 4, 8, 16}
    PROVE  /\ AlignDown(x, a) \in Int
           /\ AlignDown(x, a) <= x
           /\ x < AlignDown(x, a) + a
           /\ AlignDown(x, a) % a = 0
<1>1. CASE a = 1 BY <1>1 DEF AlignDown
<1>2. CASE a = 2 BY <1>2 DEF AlignDown
<1>3. CASE a = 4 BY <1>3 DEF AlignDown
<1>4. CASE a = 8 BY <1>4 DEF AlignDown
<1>5. CASE a = 16 BY <1>5 DEF AlignDown
<1>6. QED BY <1>1, <1>2, <1>3, <1>4, <1>5

LEMMA AlignUpFacts ==
    ASSUME NEW x \in Int, NEW a \in {1, 2, 4, 8, 16}
    PROVE  /\ AlignUp(x, a) \in Int
           /\ x <= AlignUp(x, a)
           /\ AlignUp(x, a) < x + a
           /\ AlignUp(x, a) % a = 0
<1>1. PICK y \in Int : y = x + (a - 1) /\ a \in Int OBVIOUS
<1>2. /\ AlignDown(y, a) \in Int /\ AlignDown(y, a) <= y
      /\ y < AlignDown(y, a) + a /\ AlignDown(y, a) % a = 0
  BY AlignDownFacts
<1>3. AlignUp(x, a) = AlignDown(y, a) BY <1>1 DEF AlignUp
<1>4. QED BY <1>1, <1>2, <1>3

\* The identifiers are those of the allocations so far.
IdsBelowCount == \A b \in blocks : b.id < allocs

AllocInv == TypeOK /\ IdsBelowCount /\ BlocksOutsideFree /\ BlocksDisjoint /\ BlocksAligned

LEMMA InitAllocInv == Init => AllocInv
BY HeaderAssumption
   DEF Init, AllocInv, TypeOK, IdsBelowCount, BlocksOutsideFree, BlocksDisjoint, BlocksAligned

\* A block at lo, aligned and wholly inside the free memory, that becomes the
\* new edge of one of the ends, keeps the invariant.
LEMMA HandOutAllocInv ==
    ASSUME AllocInv, NEW size \in Sizes, NEW lo \in Int, HandOut(lo, size),
           lo % AlignOf(size) = 0, shmem_bot <= lo, lo + size <= shmem_top,
           \/ shmem_bot' = lo + size /\ shmem_top' = shmem_top
           \/ shmem_top' = lo /\ shmem_bot' = shmem_bot
    PROVE  AllocInv'
<1> DEFINE new == [id |-> allocs, lo |-> lo, size |-> size]
<1>1. /\ size \in Nat /\ size > 0 /\ lo \in Nat /\ lo >= Header
      /\ shmem_bot \in Nat /\ shmem_top \in Nat /\ allocs \in Nat
      /\ Header \in Nat /\ HalSize \in Nat
  BY SizesAssumption, HeaderAssumption DEF AllocInv, TypeOK, BlocksOutsideFree
<1>2. blocks' = blocks \cup {new} /\ allocs' = allocs + 1
      /\ shmem_avail' = shmem_top' - shmem_bot'
  BY DEF HandOut
<1>3. new \in Block /\ blocks \subseteq Block
  BY <1>1 DEF Block, AllocInv, TypeOK
<1>4. \A b \in blocks : b.id \in Nat /\ b.lo \in Nat /\ b.size \in Nat
  BY <1>3, SizesAssumption DEF Block
<1>5. /\ shmem_bot <= shmem_bot' /\ shmem_bot' <= shmem_top' /\ shmem_top' <= shmem_top
      /\ shmem_bot' \in Nat /\ shmem_top' \in Nat
  BY <1>1
<1>6. TypeOK'
  <2>1. blocks' \subseteq Block BY <1>2, <1>3
  <2>2. shmem_avail' \in Nat
    <3>1. shmem_avail' = shmem_top' - shmem_bot' BY DEF HandOut
    <3>2. \A m, n \in Nat : n <= m => m - n \in Nat OBVIOUS
    <3>3. QED BY <1>5, <3>1, <3>2
  <2>3. allocs' \in Nat BY <1>1, <1>2
  <2>4. QED BY <1>5, <2>1, <2>2, <2>3 DEF TypeOK
<1>7. IdsBelowCount'
  BY <1>1, <1>2, <1>4 DEF IdsBelowCount, AllocInv
<1>8. BlocksOutsideFree'
  BY <1>1, <1>2, <1>4, <1>5 DEF BlocksOutsideFree, AllocInv, End
<1>9. BlocksDisjoint'
  <2>1. \A b \in blocks : End(b) <= new.lo \/ End(new) <= b.lo
    BY <1>1, <1>4 DEF AllocInv, BlocksOutsideFree, End
  <2>2. QED BY <1>2, <2>1 DEF BlocksDisjoint, AllocInv
<1>10. BlocksAligned'
  BY <1>2 DEF BlocksAligned, AllocInv
<1>11. QED BY <1>6, <1>7, <1>8, <1>9, <1>10 DEF AllocInv

LEMMA NextAllocInv == AllocInv /\ [Next]_vars => AllocInv'
<1> SUFFICES ASSUME AllocInv, [Next]_vars PROVE AllocInv'
    OBVIOUS
<1>0. shmem_bot \in Int /\ shmem_top \in Int /\ \A size \in Sizes : size \in Nat
  BY SizesAssumption DEF AllocInv, TypeOK
<1>1. ASSUME NEW size \in Sizes, shmalloc_up(size) PROVE AllocInv'
  <2> DEFINE lo == AlignUp(shmem_bot, AlignOf(size))
  <2>1. lo \in Int /\ shmem_bot <= lo /\ lo % AlignOf(size) = 0
    BY <1>0, AlignUpFacts, AlignOfValues
  <2>2. /\ lo + size <= shmem_top
        /\ HandOut(lo, size)
        /\ shmem_bot' = lo + size /\ shmem_top' = shmem_top
    BY <1>0, <1>1, <2>1 DEF shmalloc_up
  <2>3. QED BY <2>1, <2>2, HandOutAllocInv
<1>2. ASSUME NEW size \in Sizes, shmalloc_dn(size) PROVE AllocInv'
  <2> DEFINE lo == AlignDown(shmem_top - size, AlignOf(size))
  <2>1. lo \in Int /\ lo <= shmem_top - size /\ lo % AlignOf(size) = 0
    <3>1. PICK y \in Int : y = shmem_top - size BY <1>0
    <3>2. AlignOf(size) \in {1, 2, 4, 8, 16} BY <1>0, AlignOfValues
    <3>3. QED BY <3>1, <3>2, AlignDownFacts
  <2>2. /\ shmem_bot <= lo
        /\ HandOut(lo, size)
        /\ shmem_top' = lo /\ shmem_bot' = shmem_bot
    BY <1>0, <1>2, <2>1 DEF shmalloc_dn
  <2>3. lo + size <= shmem_top BY <1>0, <2>1
  <2>4. QED BY <2>1, <2>2, <2>3, HandOutAllocInv
<1>3. CASE init_hal_data
  BY <1>3, HeaderAssumption
     DEF init_hal_data, AllocInv, TypeOK, IdsBelowCount, BlocksOutsideFree, BlocksDisjoint, BlocksAligned
<1>4. CASE UNCHANGED vars
  BY <1>4
     DEF vars, AllocInv, TypeOK, IdsBelowCount, BlocksOutsideFree, BlocksDisjoint, BlocksAligned
<1>5. QED BY <1>1, <1>2, <1>3, <1>4 DEF Next, hal_malloc

LEMMA AllocInvariant == Spec => []AllocInv
BY InitAllocInv, NextAllocInv, PTL DEF Spec

\* shmalloc_up and shmalloc_dn never let the two ends cross, whatever their
\* alignment does, and never hand out a byte of the header or beyond the end.
THEOREM FreeMemoryIsFree == Spec => []BlocksOutsideFree
<1>1. AllocInv => BlocksOutsideFree BY DEF AllocInv
<1>2. QED BY <1>1, AllocInvariant, PTL

\* No byte of the segment is handed out twice between two initialisations.
THEOREM BlocksNeverOverlap == Spec => []BlocksDisjoint
<1>1. AllocInv => BlocksDisjoint BY DEF AllocInv
<1>2. QED BY <1>1, AllocInvariant, PTL

\* Every block that is handed out is aligned for its size.
THEOREM BlocksAreAligned == Spec => []BlocksAligned
<1>1. AllocInv => BlocksAligned BY DEF AllocInv
<1>2. QED BY <1>1, AllocInvariant, PTL

=============================================================================
