------------------------------ MODULE MDriver ------------------------------
(***************************************************************************)
(* eval_mm_valid of malloclab/mdriver.c: it runs the requests of a trace   *)
(* against the allocator of module MM, checks every payload against the    *)
(* range list and fills it with the low byte of its index.                 *)
(*                                                                         *)
(* A trace is any sequence of requests that a .rep file may hold: an index *)
(* is allocated while it is not in use (the lowest one, as the names do    *)
(* not matter), and freed while it is.                                     *)
(***************************************************************************)
EXTENDS MMCheck

CONSTANTS
  Ids,         \* the indices of a trace's blocks
  Requests,    \* the payload sizes it asks for
  Reallocs,    \* may a trace ask for mm_realloc?
  Garbage,     \* words that the memory may hold before mm_init
  MaxOps,      \* the longest trace (bound)
  Traces       \* how many traces the driver runs (bound)

ASSUME DriverAssumption ==
  /\ Ids \subseteq 0 .. 127 /\ Requests \subseteq Nat
  /\ Reallocs \in BOOLEAN
  /\ Garbage \subseteq Nat /\ MaxOps \in Nat /\ Traces \in Nat \ {0}

VARIABLES
  heap,        \* memlib.c's memory and mem_brk
  ranges,      \* the range list
  block,       \* trace->blocks and block_sizes: [p, n], p = 0 when not set
  inUse,       \* the indices that are allocated
  error,       \* the malloc_error that ended the trace, or "none"
  evaluating,  \* is eval_mm_valid running?
  opnum,       \* the requests done, eval_mm_valid's i
  tracenum

dvars == <<heap, ranges, block, inUse, error, evaluating, opnum, tracenum>>

Unset == [p |-> 0, n |-> 0]

\* memset(p, i, n), word by word; of the last word it may write a part.
Low(w, k)         == IF k = WSIZE THEN w ELSE w % <<256, 65536, 16777216>>[k]
Bytes(i, k)       == i * Low(16843009, k)
Covered(a, p, n)  == IF a + WSIZE <= p + n THEN WSIZE ELSE p + n - a
InPayload(a, p, n) == p <= a /\ a < p + n

memset(h, p, i, n) ==
  [h EXCEPT !.mem = [a \in Words |->
     LET k == Covered(a, p, n)
     IN IF InPayload(a, p, n) THEN @[a] - Low(@[a], k) + Bytes(i, k) ELSE @[a]]]

Fail(what) == /\ error' = what
              /\ evaluating' = FALSE

Init == \E g \in Garbage :
          /\ heap = mm_init([a \in Words |-> g])
          /\ ranges = <<>>
          /\ block = [i \in Ids |-> Unset]
          /\ inUse = {}
          /\ error = "none"
          /\ evaluating = TRUE
          /\ opnum = 0
          /\ tracenum = 1

-----------------------------------------------------------------------------
Request == /\ evaluating /\ opnum < MaxOps
           /\ opnum' = opnum + 1
           /\ UNCHANGED tracenum

Alloc(i, n) ==
  LET r == mm_malloc(heap, n)
      accepted == r.p # 0 /\ Accepts(ranges, r.p, n, Start, r.h.brk - 1)
  IN /\ Request
     /\ i \notin inUse /\ \A j \in Ids \ inUse : i <= j
     /\ IF accepted
          THEN /\ heap' = memset(r.h, r.p, i, n)
               /\ ranges' = Added(ranges, r.p, n)
               /\ block' = [block EXCEPT ![i] = [p |-> r.p, n |-> n]]
               /\ inUse' = inUse \cup {i}
               /\ UNCHANGED <<error, evaluating>>
          ELSE /\ heap' = r.h
               /\ Fail(IF r.p = 0 THEN "malloc" ELSE "range")
               /\ UNCHANGED <<ranges, block, inUse>>

\* mm_free also removes the range, through gl_ranges.
Free(i) ==
  /\ Request
  /\ i \in inUse
  /\ heap' = mm_free(heap, block[i].p)
  /\ ranges' = Removed(ranges, block[i].p)
  /\ inUse' = inUse \ {i}
  /\ UNCHANGED <<block, error, evaluating>>

\* mm_realloc is not implemented; what follows a result other than NULL is
\* never reached.
Realloc(i, n) ==
  /\ Request
  /\ Reallocs /\ i \in inUse
  /\ mm_realloc(heap, block[i].p, n).p = 0
  /\ Fail("realloc")
  /\ UNCHANGED <<heap, ranges, block, inUse>>

\* The trace ends: mm_exit frees what is left, and the list must be empty.
Exit ==
  LET e == mm_exit(heap, ranges)
  IN /\ evaluating
     /\ heap' = e.h
     /\ ranges' = e.ranges
     /\ inUse' = {}
     /\ IF e.ranges = <<>> THEN evaluating' = FALSE /\ UNCHANGED error
                           ELSE Fail("leak")
     /\ UNCHANGED <<block, opnum, tracenum>>

\* read_trace, mem_reset_brk, clear_ranges and mm_init for the next trace.
NextTrace ==
  /\ ~evaluating /\ tracenum < Traces
  /\ heap' = mm_init(heap.mem)
  /\ ranges' = <<>>
  /\ block' = [i \in Ids |-> Unset]
  /\ inUse' = {}
  /\ error' = "none"
  /\ evaluating' = TRUE
  /\ opnum' = 0
  /\ tracenum' = tracenum + 1

Next == \/ \E i \in Ids : \/ \E n \in Requests : Alloc(i, n) \/ Realloc(i, n)
                          \/ Free(i)
        \/ Exit
        \/ NextTrace

Spec == Init /\ [][Next]_dvars

-----------------------------------------------------------------------------
(* What the properties see of the heap.                                    *)

BlockPtrs == Walk(heap)
FreePtrs  == {p \in BlockPtrs : IsFree(heap, p)}

\* The list of root i.
List(i) ==
  LET node == Node(heap, RootOf(i))
      len == CHOOSE k \in 0 .. MaxLen : node[k] = 0 /\ \A j \in 0 .. k - 1 : node[j] # 0
  IN [k \in 1 .. len |-> node[k - 1]]

\* "No free block escaped coalesce", "every pointer in free list is valid"
\* (mm_check, mm.c:570-582): however a trace and its predecessors went, the
\* checker finds nothing to report before mm_exit, although it takes the low
\* bit of a back link for the mark of a block.
CheckerSilent == evaluating => mm_check(heap)

\* Every block's footer repeats its header, and the walk over the headers
\* ends at the epilogue: PREV_BLKP and NEXT_BLKP agree.
TagsMatch ==
  /\ \A p \in BlockPtrs : GET(heap, FTRP(heap, p)) = GET(heap, HDRP(p))
  /\ \E p \in BlockPtrs : p + SIZE(heap, p) = heap.brk
  /\ GET(heap, HDRP(heap.brk)) = 1

\* "Every block in the free list", "all free blocks in the free list are
\* marked free" (mm_check, mm.c:570-575), and more: every free block is in
\* the list of its category, once, smaller ones first, with the back link
\* that remove_free_block will follow.
ListsExact ==
  /\ \A i \in Roots :
       LET list == List(i)
       IN \A k \in DOMAIN list :
            /\ list[k] \in FreePtrs
            /\ Category(SIZE(heap, list[k])) = i
            /\ GET(heap, PREV_LINK(list[k])) = IF k = 1 THEN 0 ELSE list[k - 1]
            /\ k > 1 => SIZE(heap, list[k - 1]) <= SIZE(heap, list[k])
  /\ \A p \in FreePtrs : \E i \in Roots : p \in ToSet(List(i))

\* What the program stored in a block is there until it frees the block: no
\* tag, link or list operation of the allocator writes into a payload, and no
\* other payload shares a byte with it.
PayloadIntact ==
  evaluating =>
    \A i \in inUse :
      LET p == block[i].p
          n == block[i].n
      IN \A a \in Words : InPayload(a, p, n) =>
           LET k == Covered(a, p, n) IN Low(GET(heap, a), k) = Bytes(i, k)

\* The range list follows the allocator: it holds the payloads in use, each
\* once, no two of them overlapping, although mdriver.c adds and mm.c removes.
RangesAreLive ==
  evaluating =>
    /\ ToSet(ranges) = {[lo |-> block[i].p, hi |-> block[i].p + block[i].n - 1]
                          : i \in inUse}
    /\ \A k, l \in DOMAIN ranges : k # l => ~Overlap(ranges[k], ranges[l])

\* The driver never has a reason to reject what mm_malloc returns, nor to
\* report a leak after mm_exit.
DriverAccepts == error \notin {"range", "leak"}

\* mm_malloc fails only when no free block is large enough and memory does
\* not allow the heap to grow by what is missing or a chunk.
FailsOnlyWhenFull ==
  [][\A i \in Ids, n \in Requests :
       Alloc(i, n) /\ error' = "malloc" =>
         \/ n = 0
         \/ LET asize == AdjustedSize(n)
                grow == IF asize > CHUNKSIZE THEN asize ELSE CHUNKSIZE
            IN /\ \A p \in FreePtrs : SIZE(heap, p) < asize
               /\ heap.brk + grow + (grow % 16) > Start + MAX_HEAP]_dvars

\* The view of the heap that module Heap has.
Size(n) == AdjustedSize(n) \div DSIZE

Blocks == {[lo |-> p \div DSIZE, len |-> SIZE(heap, p) \div DSIZE,
            used |-> p \notin FreePtrs] : p \in BlockPtrs}

H == INSTANCE Heap WITH
  Base  <- FirstBlock \div DSIZE,
  Chunk <- CHUNKSIZE \div DSIZE,
  Limit <- (Start + MAX_HEAP) \div DSIZE,
  Sizes <- {Size(n) : n \in Requests},
  blocks <- Blocks,
  top   <- heap.brk \div DSIZE

\* Each call of mm.c does to the blocks what Heap says of that very call: best
\* fit, split, grow and merge, or nothing when it fails.
CallsOfHeap ==
  /\ \A i \in Ids :
       /\ \A n \in Requests :
            Alloc(i, n) => \/ H!Reuse(Size(n)) \/ H!Extend(Size(n))
                           \/ error' = "malloc" /\ UNCHANGED H!hvars
       /\ Free(i) => \E b \in Blocks : /\ b.lo = block[i].p \div DSIZE
                                       /\ H!Free(b)
  /\ Exit => H!FreeAll
  /\ NextTrace => H!Restart

\* mm.c is an implementation of Heap, call by call, so that what is proved of
\* Heap's blocks holds for those in memory.
ImplementsHeap == H!HSpec /\ [][CallsOfHeap]_dvars
=============================================================================
