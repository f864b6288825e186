----------------------------- MODULE RangeList -----------------------------
(***************************************************************************)
(* The range list of malloclab/mdriver.c under an allocator that may       *)
(* return any address at all: mdriver.c is there to judge allocators, so   *)
(* what add_range lets through must not depend on the allocator being      *)
(* right.  An accepted payload is recorded, a freed one is dropped, and    *)
(* the next trace starts with none.                                        *)
(***************************************************************************)
EXTENDS Ranges

CONSTANTS
  HeapLo, HeapHi,  \* mem_heap_lo() and the largest mem_heap_hi()
  Lengths          \* the payload sizes (more than 0: add_range asserts it)

ASSUME RangeListAssumption ==
  /\ HeapLo \in Nat /\ HeapHi \in Nat
  /\ Lengths \subseteq Nat \ {0}

VARIABLE ranges

\* mm_malloc returned lo for n bytes.
Add(lo, n) == /\ Accepts(ranges, lo, n, HeapLo, HeapHi)
              /\ ranges' = Added(ranges, lo, n)

\* The program frees what it got at lo.
Drop(lo) == /\ \E i \in DOMAIN ranges : ranges[i].lo = lo
            /\ ranges' = Removed(ranges, lo)

\* mm_realloc moved the payload at old to lo.
Move(old, lo, n) == LET rs == Removed(ranges, old)
                    IN /\ Accepts(rs, lo, n, HeapLo, HeapHi)
                       /\ ranges' = Added(rs, lo, n)

\* clear_ranges.
Clear == ranges' = <<>>

\* Addresses around the heap are tried as well.
Init == ranges = <<>>
Addresses == HeapLo - 8 .. HeapHi + 8
Next == \/ \E lo \in Addresses : \/ Drop(lo)
                               \/ \E n \in Lengths : \/ Add(lo, n)
                                                     \/ \E old \in Addresses : Move(old, lo, n)
        \/ Clear
Spec == Init /\ [][Next]_ranges

Encloses(r, s) == r.lo < s.lo /\ s.hi < r.hi

\* Whatever the allocator does, two recorded payloads overlap only when the
\* newer one holds the older one strictly inside; each lies in the heap.
\* ("The payload must not overlap any other payloads", mdriver.c:408: the end
\* points are compared, and the enclosing payload is the case they miss.)
OnlyEnclosedMissed ==
  \A i, j \in DOMAIN ranges :
    /\ HeapLo <= ranges[i].lo /\ ranges[i].hi <= HeapHi
    /\ i < j /\ Overlap(ranges[i], ranges[j]) => Encloses(ranges[i], ranges[j])
=============================================================================
