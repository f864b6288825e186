------------------------------ MODULE MMCheck ------------------------------
(***************************************************************************)
(* mm_check, the heap checker of malloclab/mm.c, which mm_exit runs first  *)
(* when MMCHECK is defined.  It changes nothing; each of its five parts    *)
(* reads the heap and says whether it found it in order.  What they read   *)
(* is less than their messages say: of a list only the first block, and    *)
(* of that block the low bit of a link where its header is meant.          *)
(***************************************************************************)
EXTENDS MM

\* One step of a walk over the blocks, up to mem_heap_hi.
NextOnWalk(h) == [p \in Nat |-> IF p > h.brk - 1 THEN p ELSE NEXT_BLKP(h, p)]

\* The blocks a walk visits.
Walk(h) ==
  LET at[k \in Nat] == IF k = 0 THEN FirstBlock ELSE NextOnWalk(h)[at[k - 1]]
  IN {at[k] : k \in 0 .. MaxLen} \cap (0 .. h.brk - 1)

IsFree(h, p) == GET_ALLOC(h, HDRP(p)) = 0

\* The first blocks of the lists that are not empty.
Heads(h) == {GET(h, RootOf(i)) : i \in Roots} \ {0}

\* GET_ALLOC(GET(root)) reads the block's back link, not its header.
CheckedFreeMarkedInFreeList(h) == \A p \in Heads(h) : GET_ALLOC(h, p) = 0

\* Mutant of checkEscapedCoalesce: any two free blocks are reported.
EscapedAnywhere(h) == \A p, q \in Walk(h) : IsFree(h, p) /\ IsFree(h, q) => p = q

\* A free block on the walk, which goes upwards, and the last one before it.
checkEscapedCoalesce(h) ==
  LET free == {p \in Walk(h) : IsFree(h, p)}
  IN \A p, q \in free :
       p < q /\ (\A r \in free : r <= p \/ q <= r) => NEXT_BLKP(h, p) # q

\* It compares the block's own address with itself: it always agrees.
isEveryFreeBlockInFreeList(h) ==
  \A p \in Walk(h) : IsFree(h, p) => \E i \in Roots : p + i * WSIZE = p

checkPointerInFreeListValid(h) == \A p \in Heads(h) : SIZE(h, p) > 0

checkPointerInHeapBlockValid(h) ==
  \A p \in Heads(h) : Start < p /\ p < h.brk - 1

mm_check(h) == /\ CheckedFreeMarkedInFreeList(h)
               /\ checkEscapedCoalesce(h)
               /\ isEveryFreeBlockInFreeList(h)
               /\ checkPointerInFreeListValid(h)
               /\ checkPointerInHeapBlockValid(h)
=============================================================================
