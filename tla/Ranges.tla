------------------------------ MODULE Ranges ------------------------------
(***************************************************************************)
(* The list of payload ranges by which malloclab/mdriver.c judges an       *)
(* allocator.  The newest range comes first.                               *)
(***************************************************************************)
EXTENDS Integers, Sequences, SequencesExt

Within(a, r) == r.lo <= a /\ a <= r.hi

\* Mutant of Accepts: only the start of the payload is compared.
AcceptsByStart(ranges, lo, n, heapLo, heapHi) ==
  LET hi == lo + n - 1
      heap == [lo |-> heapLo, hi |-> heapHi]
  IN /\ lo % 8 = 0
     /\ Within(lo, heap) /\ Within(hi, heap)
     /\ \A i \in DOMAIN ranges : ~Within(lo, ranges[i])

\* add_range accepts a payload of n bytes at lo in the heap heapLo .. heapHi.
Accepts(ranges, lo, n, heapLo, heapHi) ==
  LET hi == lo + n - 1
      heap == [lo |-> heapLo, hi |-> heapHi]
  IN /\ lo % 8 = 0
     /\ Within(lo, heap) /\ Within(hi, heap)
     /\ \A i \in DOMAIN ranges : ~Within(lo, ranges[i]) /\ ~Within(hi, ranges[i])

Added(ranges, lo, n) == <<[lo |-> lo, hi |-> lo + n - 1]>> \o ranges

\* Mutant of Removed: the newest range is dropped, whatever it is.
RemovedNewest(ranges, lo) == IF ranges = <<>> THEN ranges ELSE Tail(ranges)

\* remove_range drops the first range that starts at lo.
Removed(ranges, lo) ==
  LET i == SelectInSeq(ranges, LAMBDA r : r.lo = lo)
  IN IF i = 0 THEN ranges ELSE RemoveAt(ranges, i)

Overlap(r, s) == r.lo <= s.hi /\ s.lo <= r.hi
=============================================================================
