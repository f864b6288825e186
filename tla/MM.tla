-------------------------------- MODULE MM --------------------------------
(***************************************************************************)
(* The allocator of malloclab/mm.c on the simulated heap of memlib.c, as   *)
(* operators on the memory it works on: boundary tags, ten segregated      *)
(* lists of free blocks linked through the blocks themselves and sorted by *)
(* size, best fit, splitting and coalescing.                               *)
(*                                                                         *)
(* A heap h has h.mem, the words of the simulated memory by byte address,  *)
(* and h.brk.  Addresses and sizes are the byte counts of the code, and    *)
(* the macros keep their names: a tag is size + allocated bit, 0 is NULL.  *)
(***************************************************************************)
EXTENDS Ranges

CONSTANTS
  Start,     \* mem_start_brk
  MAX_HEAP,  \* 64 MB in the code
  CHUNKSIZE  \* 4096 in the code

ASSUME MemoryAssumption ==
  /\ Start \in Nat \ {0} /\ Start % 8 = 0
  /\ CHUNKSIZE \in Nat \ {0} /\ CHUNKSIZE % 16 = 0
  /\ MAX_HEAP \in Nat /\ MAX_HEAP >= 56 + CHUNKSIZE

WSIZE == 4
DSIZE == 8
MINFB_SIZE == 2

Words == {a \in Start .. Start + MAX_HEAP - 1 : a % WSIZE = 0}

-----------------------------------------------------------------------------
(* The macros.                                                             *)

GET(h, a)    == h.mem[a]
PUT(h, a, v) == [h EXCEPT !.mem[a] = v]

GET_SIZE(h, a)  == GET(h, a) - (GET(h, a) % 8)
GET_ALLOC(h, a) == GET(h, a) % 2

HDRP(bp)          == bp - WSIZE
SIZE(h, bp)       == GET_SIZE(h, HDRP(bp))
FTRP(h, bp)       == bp + SIZE(h, bp) - DSIZE
PREV_LINK(bp)     == bp
NEXT_LINK(bp)     == bp + WSIZE
NEXT_BLKP(h, bp)  == bp + SIZE(h, bp)
PREV_BLKP(h, bp)  == bp - GET_SIZE(h, bp - DSIZE)

\* Mutant of Tag: the footer is not written.
TagHeaderOnly(h, bp, n, alloc) == PUT(h, HDRP(bp), n + alloc)

\* Header and footer of bp for a block of n bytes.
Tag(h, bp, n, alloc) == PUT(PUT(h, HDRP(bp), n + alloc), bp + n - DSIZE, n + alloc)

NoLinks(h, bp) == PUT(PUT(h, NEXT_LINK(bp), 0), PREV_LINK(bp), 0)

-----------------------------------------------------------------------------
(* The segregated lists: the first ten words of the heap.                  *)

Roots == 0 .. 9
Bound == <<32, 64, 128, 256, 512, 2048, 4096, 8192, 16384>>

Category(n) == CHOOSE i \in Roots : /\ i = 9 \/ n <= Bound[i + 1]
                                    /\ \A j \in 0 .. i - 1 : n > Bound[j + 1]

RootOf(i) == Start + i * WSIZE

\* One step along a list; there is 0 behind the last block.
Follow(h) == [p \in Nat |-> IF p = 0 THEN 0 ELSE GET(h, NEXT_LINK(p))]

\* The blocks of the list of root, counted from 0.
Node(h, root) ==
  LET node[k \in Nat] == IF k = 0 THEN GET(h, root) ELSE Follow(h)[node[k - 1]]
  IN node

\* A list is shorter than memory.
MaxLen == MAX_HEAP \div (MINFB_SIZE * DSIZE)

\* Where a walk for n bytes stops: at the first block that has them, or at
\* the end of the list.
Stop(h, node, n) ==
  LET Stops(k) == node[k] = 0 \/ SIZE(h, node[k]) >= n
  IN CHOOSE k \in 0 .. MaxLen : Stops(k) /\ \A j \in 0 .. k - 1 : ~Stops(j)

Around(node, root, k) == <<IF k = 0 THEN root ELSE node[k - 1], node[k]>>

\* The walk along the list of root to the first block of at least n bytes:
\* <<its predecessor, it>>.
Seek(h, root, n) ==
  LET node == Node(h, root) IN Around(node, root, Stop(h, node, n))

\* Mutant of Linked: the successor's back link is forgotten.
LinkedOneWay(h, root, p, prevp, nextp) ==
  LET h1 == PUT(h, IF prevp = root THEN root ELSE NEXT_LINK(prevp), p)
  IN PUT(PUT(h1, NEXT_LINK(p), nextp), PREV_LINK(p), IF prevp = root THEN 0 ELSE prevp)

\* p put between prevp, which is root at the front of the list, and nextp.
Linked(h, root, p, prevp, nextp) ==
  LET h1 == PUT(h, IF prevp = root THEN root ELSE NEXT_LINK(prevp), p)
      h2 == PUT(PUT(h1, NEXT_LINK(p), nextp),
                PREV_LINK(p), IF prevp = root THEN 0 ELSE prevp)
  IN IF nextp = 0 THEN h2 ELSE PUT(h2, PREV_LINK(nextp), p)

insert_free_block(h, p) ==
  LET root == RootOf(Category(SIZE(h, p)))
      s == Seek(h, root, SIZE(h, p))
  IN Linked(h, root, p, s[1], s[2])

remove_free_block(h, p) ==
  LET root == RootOf(Category(SIZE(h, p)))
      prevp == GET(h, PREV_LINK(p))
      nextp == GET(h, NEXT_LINK(p))
      h1 == IF nextp = 0 THEN h ELSE PUT(h, PREV_LINK(nextp), prevp)
      h2 == PUT(h1, IF prevp = 0 THEN root ELSE NEXT_LINK(prevp), nextp)
  IN NoLinks(h2, p)

\* Mutant of find_fit: only the list of n's own category is searched.
find_fit_own_list(h, n) ==
  LET root == RootOf(Category(n)) IN Seek(h, root, n)[2]

\* The first block of at least n bytes in the first list that has one.
find_fit(h, n) ==
  LET Found(i) == Seek(h, RootOf(i), n)[2]
      C == {i \in Category(n) .. 9 : Found(i) # 0}
  IN IF C = {} THEN 0 ELSE Found(CHOOSE i \in C : \A j \in C : i <= j)

-----------------------------------------------------------------------------
(* Blocks.  coalesce, extend_heap and mm_malloc return the heap `h' and a  *)
(* block pointer `p'.                                                      *)

\* Mutant of coalesce: the next block stays in its list.
coalesce_keeping_next(h, bp) ==
  LET prev == PREV_BLKP(h, bp)
      next == NEXT_BLKP(h, bp)
      prevFree == GET_ALLOC(h, FTRP(h, prev)) = 0
      nextFree == GET_ALLOC(h, HDRP(next)) = 0
      first == IF prevFree THEN prev ELSE bp
      size == SIZE(h, bp) + (IF prevFree THEN SIZE(h, prev) ELSE 0)
                          + (IF nextFree THEN SIZE(h, next) ELSE 0)
      h1 == IF prevFree THEN remove_free_block(h, prev) ELSE h
      h3 == IF prevFree \/ nextFree THEN Tag(h1, first, size, 0) ELSE h1
  IN [h |-> insert_free_block(h3, first), p |-> first]

coalesce(h, bp) ==
  LET prev == PREV_BLKP(h, bp)
      next == NEXT_BLKP(h, bp)
      prevFree == GET_ALLOC(h, FTRP(h, prev)) = 0
      nextFree == GET_ALLOC(h, HDRP(next)) = 0
      first == IF prevFree THEN prev ELSE bp
      size == SIZE(h, bp) + (IF prevFree THEN SIZE(h, prev) ELSE 0)
                          + (IF nextFree THEN SIZE(h, next) ELSE 0)
      h1 == IF prevFree THEN remove_free_block(h, prev) ELSE h
      h2 == IF nextFree THEN remove_free_block(h1, next) ELSE h1
      h3 == IF prevFree \/ nextFree THEN Tag(h2, first, size, 0) ELSE h2
  IN [h |-> insert_free_block(h3, first), p |-> first]

\* Mutant of place: a remainder of exactly the minimum size is not split.
place_keeping_minimum(h, bp, asize) ==
  LET csize == SIZE(h, bp)
      h1 == remove_free_block(h, bp)
      rest == bp + asize
  IN IF csize - asize > MINFB_SIZE * DSIZE
       THEN coalesce(NoLinks(Tag(Tag(h1, bp, asize, 1), rest, csize - asize, 0), rest),
                     rest).h
       ELSE Tag(h1, bp, csize, 1)

place(h, bp, asize) ==
  LET csize == SIZE(h, bp)
      h1 == remove_free_block(h, bp)
      rest == bp + asize
  IN IF csize - asize >= MINFB_SIZE * DSIZE
       THEN coalesce(NoLinks(Tag(Tag(h1, bp, asize, 1), rest, csize - asize, 0), rest),
                     rest).h
       ELSE Tag(h1, bp, csize, 1)

mem_sbrk(h, incr) ==
  IF h.brk + incr > Start + MAX_HEAP THEN [h |-> h, p |-> -1]
  ELSE [h |-> [h EXCEPT !.brk = @ + incr], p |-> h.brk]

extend_heap(h, dwords) ==
  LET size == (dwords + (dwords % 2)) * DSIZE
      s == mem_sbrk(h, size)
      bp == s.p
  IN IF bp = -1 THEN [h |-> h, p |-> 0]
     ELSE coalesce(PUT(NoLinks(Tag(s.h, bp, size, 0), bp), HDRP(bp + size), 1), bp)

-----------------------------------------------------------------------------
(* The interface.                                                          *)

FirstBlock == Start + 14 * WSIZE

\* What mm_init writes before the first chunk: no lists, the prologue and the
\* epilogue.
Cleared(h, cleared) ==
  LET h0 == [h EXCEPT !.mem = [a \in Words |-> IF a \in cleared THEN 0 ELSE @[a]]]
      h1 == PUT(PUT(h0, RootOf(11), DSIZE + 1), RootOf(12), DSIZE + 1)
  IN PUT(h1, RootOf(13), 1)

\* Mutant of mm_init: the first list of the previous trace is kept.
mm_init_keeping_first(mem) ==
  LET h == [mem |-> mem, brk |-> Start + 14 * WSIZE]
  IN extend_heap(Cleared(h, {RootOf(i) : i \in 1 .. 10}), CHUNKSIZE \div DSIZE).h

\* mem_reset_brk and mm_init.  (What was in memory stays there.)
mm_init(mem) ==
  LET h == [mem |-> mem, brk |-> Start + 14 * WSIZE]
  IN extend_heap(Cleared(h, {RootOf(i) : i \in 0 .. 10}), CHUNKSIZE \div DSIZE).h

\* The block size for a request of n bytes.
AdjustedSize(n) == IF n <= DSIZE THEN 2 * DSIZE
                   ELSE DSIZE * ((n + DSIZE + (DSIZE - 1)) \div DSIZE)

mm_malloc(h, n) ==
  LET asize == AdjustedSize(n)
      fit == find_fit(h, asize)
      e == extend_heap(h, (IF asize > CHUNKSIZE THEN asize ELSE CHUNKSIZE)
                            \div DSIZE)
  IN IF n = 0 THEN [h |-> h, p |-> 0]
     ELSE IF fit # 0 THEN [h |-> place(h, fit, asize), p |-> fit]
     ELSE IF e.p = 0 THEN [h |-> h, p |-> 0]
     ELSE [h |-> place(e.h, e.p, asize), p |-> e.p]

mm_free(h, bp) ==
  coalesce(NoLinks(Tag(h, bp, SIZE(h, bp), 0), bp), bp).h

mm_realloc(h, bp, n) == [h |-> h, p |-> 0]

\* mm_exit walks over the blocks by their headers and frees the allocated
\* ones, and with them their ranges.  After a merge it may read headers inside
\* a free block, which are left from before.
Walking == [h : [mem : [Words -> Nat], brk : Nat], p : Nat,
            ranges : Seq([lo : Nat, hi : Nat])]

ExitStep ==
  [s \in Walking |->
     LET allocated == GET_ALLOC(s.h, HDRP(s.p)) = 1
         g == IF allocated THEN mm_free(s.h, s.p) ELSE s.h
     IN IF s.p > s.h.brk - 1 THEN s
        ELSE [h |-> g, p |-> NEXT_BLKP(g, s.p),
              ranges |-> IF allocated THEN Removed(s.ranges, s.p) ELSE s.ranges]]

\* The walk from p on, as many steps as there may be blocks.
ExitFrom(h, p, ranges) ==
  LET at[k \in Nat] == IF k = 0 THEN [h |-> h, p |-> p, ranges |-> ranges]
                       ELSE ExitStep[at[k - 1]]
  IN at[MaxLen]

\* Mutant of mm_exit: the walk starts behind the first block.
mm_exit_after_first(h, ranges) == ExitFrom(h, NEXT_BLKP(h, FirstBlock), ranges)

mm_exit(h, ranges) == ExitFrom(h, FirstBlock, ranges)
=============================================================================
