------------------------------ MODULE HalAlloc ------------------------------
(***************************************************************************)
(* The allocator of the HAL shared-memory segment (hal/hal_lib.c): pin     *)
(* data grows up from the header (shmalloc_up, called by hal_malloc under  *)
(* hal_data->mutex) and the HAL's own structures grow down from the end    *)
(* (shmalloc_dn, called under the same mutex).  Nothing is ever given      *)
(* back, except all of it by init_hal_data.                                *)
(***************************************************************************)
EXTENDS Integers

CONSTANTS
    HalSize,    \* HAL_SIZE
    Header,     \* sizeof(hal_data_t)
    Sizes,      \* the sizes that are asked for
    MaxBlocks   \* bound: allocations between two initialisations

ASSUME SizesAssumption == Sizes \subseteq Nat \ {0}
ASSUME HeaderAssumption == Header \in Nat /\ HalSize \in Nat /\ Header <= HalSize
ASSUME MaxBlocksAssumption == MaxBlocks \in Nat

VARIABLES
    shmem_bot,    \* first free byte
    shmem_top,    \* one past the last free byte
    shmem_avail,  \* what hal_get_stats reports as free
    blocks,       \* the blocks handed out: [id, lo, size]
    allocs        \* how many were handed out

vars == <<shmem_bot, shmem_top, shmem_avail, blocks, allocs>>

Block == [id : Nat, lo : Nat, size : Sizes]

\* The boundary a block of this size is aligned to; 3 bytes need none.
AlignOf(size) ==
    IF size >= 16 THEN 16
    ELSE IF size >= 8 THEN 8
    ELSE IF size >= 4 THEN 4
    ELSE IF size = 2 THEN 2
    ELSE 1

\* x & ~(a - 1), on two's complement also for a negative x.
AlignDown(x, a) == x - (x % a)

\* (x + (a - 1)) & ~(a - 1)
AlignUp(x, a) == AlignDown(x + (a - 1), a)

\* init_hal_data after hal_app_main has mapped a new segment, full of zeros.
Init ==
    /\ shmem_bot = Header
    /\ shmem_top = HalSize
    /\ shmem_avail = 0
    /\ blocks = {}
    /\ allocs = 0

HandOut(lo, size) ==
    /\ allocs < MaxBlocks
    /\ blocks' = blocks \cup {[id |-> allocs, lo |-> lo, size |-> size]}
    /\ allocs' = allocs + 1
    /\ shmem_avail' = shmem_top' - shmem_bot'

\* Variant: the room is measured before the block is aligned.
shmalloc_up_early_test(size) ==
    /\ shmem_top - shmem_bot >= size
    /\ shmem_bot' = AlignUp(shmem_bot, AlignOf(size)) + size
    /\ UNCHANGED shmem_top
    /\ HandOut(AlignUp(shmem_bot, AlignOf(size)), size)

\* Variant: the end of the free memory is taken as it is.
shmalloc_up_unaligned(size) ==
    /\ shmem_top - shmem_bot >= size
    /\ shmem_bot' = shmem_bot + size
    /\ UNCHANGED shmem_top
    /\ HandOut(shmem_bot, size)

\* A request that does not fit returns 0 and changes nothing.
shmalloc_up(size) ==
    LET tmp_bot == AlignUp(shmem_bot, AlignOf(size)) IN
        /\ shmem_top - tmp_bot >= size
        /\ shmem_bot' = tmp_bot + size
        /\ UNCHANGED shmem_top
        /\ HandOut(tmp_bot, size)

\* shmalloc_up under the mutex of the HAL, for the data of components
hal_malloc(size) == shmalloc_up(size)

\* Variant: the room is tested without the size, as shmalloc_up would need it.
shmalloc_dn_tight_test(size) ==
    LET tmp_top == AlignDown(shmem_top - size, AlignOf(size)) IN
        /\ tmp_top - size >= shmem_bot
        /\ shmem_top' = tmp_top
        /\ UNCHANGED shmem_bot
        /\ HandOut(tmp_top, size)

\* The same from the top, for the structures of the HAL itself.
shmalloc_dn(size) ==
    LET tmp_top == AlignDown(shmem_top - size, AlignOf(size)) IN
        /\ tmp_top >= shmem_bot
        /\ shmem_top' = tmp_top
        /\ UNCHANGED shmem_bot
        /\ HandOut(tmp_top, size)

\* A later process maps the segment that the last one left and initialises it
\* again; shmem_avail is not among the fields it resets.
init_hal_data ==
    /\ shmem_bot' = Header
    /\ shmem_top' = HalSize
    /\ blocks' = {}
    /\ allocs' = 0
    /\ UNCHANGED shmem_avail

Next == \/ \E size \in Sizes : hal_malloc(size) \/ shmalloc_dn(size)
        \/ init_hal_data

Spec == Init /\ [][Next]_vars

-----------------------------------------------------------------------------
\* The ends, the statistic and the blocks are byte counts: no request, however
\* large for what is left, drives one of them below zero.
TypeOK ==
    /\ shmem_bot \in Nat
    /\ shmem_top \in Nat
    /\ shmem_avail \in Nat
    /\ blocks \subseteq Block
    /\ allocs \in Nat

End(b) == b.lo + b.size

\* The free memory lies between the ends, and every block handed out lies
\* wholly on one side of it, after the header and inside the segment.
BlocksOutsideFree ==
    /\ Header <= shmem_bot /\ shmem_bot <= shmem_top /\ shmem_top <= HalSize
    /\ \A b \in blocks : \/ Header <= b.lo /\ End(b) <= shmem_bot
                         \/ shmem_top <= b.lo /\ End(b) <= HalSize

\* No two blocks share a byte, however requests of both kinds alternate.
BlocksDisjoint ==
    \A b, c \in blocks : b.id # c.id => End(b) <= c.lo \/ End(c) <= b.lo

\* Every block is aligned for its size: the HAL stores doubles, pointers and
\* 64-bit pins in them.
BlocksAligned ==
    \A b \in blocks : b.lo % AlignOf(b.size) = 0

\* Alignment never costs more than 15 bytes: a request with that much room to
\* spare is served from either end.
NoEarlyExhaustion ==
    \A size \in Sizes :
        shmem_top - shmem_bot >= size + 15 /\ allocs < MaxBlocks =>
            ENABLED shmalloc_up(size) /\ ENABLED shmalloc_dn(size)

=============================================================================
