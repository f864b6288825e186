------------------------------- MODULE Heap -------------------------------
(***************************************************************************)
(* The heap of malloclab/mm.c seen as a set of blocks: what mm_malloc,     *)
(* mm_free and mm_exit do to the blocks, without tags, links and lists.    *)
(* Module MM has those; the runs of MDriver check that it implements this  *)
(* one.                                                                    *)
(*                                                                         *)
(* Sizes and addresses count double words, DSIZE = 8 bytes.  The address   *)
(* of a block is the code's bp.                                            *)
(***************************************************************************)
EXTENDS Integers

CONSTANTS
  Base,    \* the first block, after lists and prologue
  Chunk,   \* CHUNKSIZE/DSIZE, 512 in the code
  Limit,   \* the largest legal break (mem_max_addr)
  Sizes    \* the block sizes that requests are rounded to

ASSUME HeapAssumption ==
  /\ Base \in Nat /\ Limit \in Nat /\ Chunk \in Nat \ {0}
  /\ Sizes \subseteq {n \in Nat : n >= 2}

VARIABLES
  blocks,  \* the blocks between Base and top
  top      \* the break

hvars == <<blocks, top>>

Block == [lo : Nat, len : Nat \ {0}, used : BOOLEAN]

MINFB_SIZE == 2

End(b) == b.lo + b.len

Adjacent(b, c) == End(b) = c.lo

FreeBefore(B, x) == {c \in B : ~c.used /\ Adjacent(c, x)}
FreeAfter(B, x)  == {c \in B : ~c.used /\ Adjacent(x, c)}

Span(lo, hi) == [lo |-> lo, len |-> hi - lo, used |-> FALSE]

\* Mutant of Coalesce: the case of two free neighbours is forgotten.
CoalesceOneSide(B, x) ==
  LET P == FreeBefore(B, x)
      N == IF P = {} THEN FreeAfter(B, x) ELSE {}
      lo == IF P = {} THEN x.lo ELSE (CHOOSE c \in P : TRUE).lo
      hi == IF N = {} THEN End(x) ELSE End(CHOOSE c \in N : TRUE)
  IN (B \ ({x} \cup P \cup N)) \cup {Span(lo, hi)}

\* Mutant of Coalesce: an allocated block before x is swallowed.
CoalesceAnyBefore(B, x) ==
  LET P == {c \in B : Adjacent(c, x)}
      N == FreeAfter(B, x)
      lo == IF P = {} THEN x.lo ELSE (CHOOSE c \in P : TRUE).lo
      hi == IF N = {} THEN End(x) ELSE End(CHOOSE c \in N : TRUE)
  IN (B \ ({x} \cup P \cup N)) \cup {Span(lo, hi)}

\* x, a free block of B, becomes one with its free neighbours.
Coalesce(B, x) ==
  LET P == FreeBefore(B, x)
      N == FreeAfter(B, x)
      lo == IF P = {} THEN x.lo ELSE (CHOOSE c \in P : TRUE).lo
      hi == IF N = {} THEN End(x) ELSE End(CHOOSE c \in N : TRUE)
  IN (B \ ({x} \cup P \cup N)) \cup {Span(lo, hi)}

Taken(b, n) == [lo |-> b.lo, len |-> n, used |-> TRUE]
Rest(b, n)  == Span(b.lo + n, End(b))

\* Mutant of Place: the remainder starts one double word too early.
PlaceOverlapping(B, b, n) ==
  IF b.len - n >= MINFB_SIZE
    THEN LET r == Span(b.lo + n - 1, End(b))
         IN Coalesce((B \ {b}) \cup {Taken(b, n), r}, r)
    ELSE (B \ {b}) \cup {Taken(b, b.len)}

\* The free block b of B is allocated, and split if what remains is a block.
Place(B, b, n) ==
  IF b.len - n >= MINFB_SIZE
    THEN Coalesce((B \ {b}) \cup {Taken(b, n), Rest(b, n)}, Rest(b, n))
    ELSE (B \ {b}) \cup {Taken(b, b.len)}

\* The heap grows by at least a chunk, in steps of two double words.
Growth(n) == LET m == IF n > Chunk THEN n ELSE Chunk IN m + (m % 2)

New(n) == Span(top, top + Growth(n))

Fits(n) == {b \in blocks : ~b.used /\ b.len >= n}

HInit == /\ top = Base + Growth(1)
         /\ blocks = {Span(Base, top)}

\* The best fit is taken ...
Reuse(n) ==
  /\ \E b \in Fits(n) : /\ \A c \in Fits(n) : b.len <= c.len
                        /\ blocks' = Place(blocks, b, n)
  /\ UNCHANGED top

\* ... and if there is none, the heap grows and its last block is taken.
Extend(n) ==
  /\ Fits(n) = {}
  /\ top + Growth(n) <= Limit
  /\ top' = top + Growth(n)
  /\ LET B == Coalesce(blocks \cup {New(n)}, New(n))
     IN \E b \in B : /\ ~b.used /\ End(b) = top'
                     /\ blocks' = Place(B, b, n)

Released(b) == [b EXCEPT !.used = FALSE]

Free(b) ==
  /\ b.used
  /\ blocks' = Coalesce((blocks \ {b}) \cup {Released(b)}, Released(b))
  /\ UNCHANGED top

\* mm_exit frees every block.
FreeAll == /\ blocks' = {Span(Base, top)}
           /\ UNCHANGED top

\* The driver starts the next trace on an empty heap.
Restart == /\ top' = Base + Growth(1)
           /\ blocks' = {Span(Base, top')}

HNext == \/ \E n \in Sizes : Reuse(n) \/ Extend(n)
         \/ \E b \in blocks : Free(b)
         \/ FreeAll
         \/ Restart

HSpec == HInit /\ [][HNext]_hvars

-----------------------------------------------------------------------------
DisjointIn(B) == \A b, c \in B : b = c \/ End(b) <= c.lo \/ End(c) <= b.lo

HTypeOK == blocks \subseteq Block /\ top \in Nat

\* No two blocks overlap, through every sequence of splits and merges
\* (place, coalesce and extend_heap).
Disjoint == DisjointIn(blocks)

TilesIn(B, t) ==
  /\ \A b \in B : Base <= b.lo /\ End(b) <= t
  /\ \E b \in B : b.lo = Base
  /\ \A b \in B : End(b) = t \/ \E c \in B : Adjacent(b, c)

\* The blocks tile the heap: from the first one, the next block always
\* starts where one ends, up to the break.  mm_exit's walk relies on it.
Tiles == TilesIn(blocks, top)

\* "No free block escaped coalesce" (mm_check, mm.c:573): two neighbours are
\* never both free.
Coalesced == \A b, c \in blocks : ~b.used /\ ~c.used => ~Adjacent(b, c)

\* A block in use stays as it is until it is freed itself: neither a split
\* nor a merge nor growth touches it.
LiveBlocksStay ==
  [][\A b \in blocks :
       b.used => b \in blocks' \/ Free(b) \/ FreeAll \/ Restart]_hvars
=============================================================================
