---------------------------- MODULE JudgeProofs ----------------------------
(***************************************************************************)
(* malloclab's driver as a judge, for every heap, every set of payload     *)
(* sizes, trace files, options and costs.  The range list of module        *)
(* RangeList is Good: payloads overlap only when the newer one encloses    *)
(* the older one.  In the whole driver, JudgeInv says more: while a trace  *)
(* is run the list holds exactly the payloads that the program has (Held), *)
(* so that add_range accepts a payload exactly when nothing is wrong with  *)
(* it, and the verdict on the trace and the count of errors follow.        *)
(* Utilized does the same for the replay of eval_mm_util: its total_size   *)
(* is the sum of the sizes in use, and payloads in the heap that do not    *)
(* overlap have no more than it holds.                                     *)
(* TimingInv, which does not depend on it, says that the samples of fcyc.c *)
(* are sorted and values is their beginning; TickInv bounds what a tick is *)
(* taken to cost.                                                          *)
(***************************************************************************)
EXTENDS Judge, NatLemmas, SequenceTheorems, FiniteSetTheorems, TLAPS

Extent == {r \in [lo : Int, hi : Int] : r.lo <= r.hi}

InHeap(r) == HeapLo <= r.lo /\ r.hi <= HeapHi

Compatible(new, old) == Overlap(new, old) => Encloses(new, old)

Good(rs) ==
  /\ rs \in Seq(Extent)
  /\ \A i \in 1 .. Len(rs) : InHeap(rs[i])
  /\ \A i, j \in 1 .. Len(rs) : i < j => Compatible(rs[i], rs[j])

-----------------------------------------------------------------------------
(* Sequences.                                                              *)

LEMMA RemoveAtFacts ==
  ASSUME NEW S, NEW s \in Seq(S), NEW i \in 1 .. Len(s)
  PROVE  /\ RemoveAt(s, i) \in Seq(S)
         /\ Len(RemoveAt(s, i)) = Len(s) - 1
         /\ \A k \in 1 .. Len(s) - 1 :
              RemoveAt(s, i)[k] = s[IF k < i THEN k ELSE k + 1]
<1> DEFINE a == SubSeq(s, 1, i - 1)
           b == SubSeq(s, i + 1, Len(s))
<1>0. Len(s) \in Nat /\ \A k \in 1 .. Len(s) : s[k] \in S
  BY LenProperties
<1>1. /\ a \in Seq(S) /\ Len(a) = i - 1
      /\ \A k \in 1 .. i - 1 : a[k] = s[k]
  BY <1>0, SubSeqProperties
<1>2. /\ b \in Seq(S) /\ Len(b) = Len(s) - i
      /\ \A k \in 1 .. Len(s) - i : b[k] = s[k + i]
  <2>1. \A k \in i + 1 .. Len(s) : s[k] \in S
    BY <1>0
  <2>2. /\ b \in Seq(S)
        /\ Len(b) = IF i + 1 <= Len(s) THEN Len(s) - (i + 1) + 1 ELSE 0
        /\ \A k \in 1 .. Len(s) - (i + 1) + 1 : b[k] = s[(i + 1) + k - 1]
    BY <1>0, <2>1, SubSeqProperties
  <2> QED
    BY <1>0, <2>2
<1> HIDE DEF a, b
<1>3. /\ a \o b \in Seq(S)
      /\ Len(a \o b) = Len(a) + Len(b)
      /\ \A k \in 1 .. Len(a) + Len(b) :
           (a \o b)[k] = IF k <= Len(a) THEN a[k] ELSE b[k - Len(a)]
  BY <1>1, <1>2, ConcatProperties
<1>4. RemoveAt(s, i) = a \o b
  BY DEF RemoveAt, a, b
<1>5. ASSUME NEW k \in 1 .. Len(s) - 1
      PROVE  (a \o b)[k] = s[IF k < i THEN k ELSE k + 1]
  <2>1. CASE k < i
    BY <2>1, <1>0, <1>1, <1>2, <1>3
  <2>2. CASE ~(k < i)
    <3>1. (a \o b)[k] = b[k - (i - 1)] /\ k - (i - 1) \in 1 .. Len(s) - i
      BY <2>2, <1>0, <1>1, <1>2, <1>3
    <3> QED
      BY <3>1, <2>2, <1>0, <1>2
  <2> QED
    BY <2>1, <2>2
<1>6. Len(a) + Len(b) = Len(s) - 1
  BY <1>0, <1>1, <1>2
<1> QED
  BY <1>3, <1>4, <1>5, <1>6

LEMMA InFrontFacts ==
  ASSUME NEW S, NEW e \in S, NEW s \in Seq(S)
  PROVE  /\ <<e>> \o s \in Seq(S)
         /\ Len(<<e>> \o s) = Len(s) + 1
         /\ (<<e>> \o s)[1] = e
         /\ \A k \in 2 .. Len(s) + 1 : (<<e>> \o s)[k] = s[k - 1]
<1>1. <<e>> \in Seq(S) /\ Len(<<e>>) = 1 /\ <<e>>[1] = e /\ Len(s) \in Nat
  BY LenProperties
<1>2. /\ <<e>> \o s \in Seq(S)
      /\ Len(<<e>> \o s) = Len(<<e>>) + Len(s)
      /\ \A k \in 1 .. Len(<<e>>) + Len(s) :
           (<<e>> \o s)[k] = IF k <= Len(<<e>>) THEN <<e>>[k] ELSE s[k - Len(<<e>>)]
  BY <1>1, ConcatProperties
<1> QED
  BY <1>1, <1>2

-----------------------------------------------------------------------------
(* The range list.                                                         *)

\* remove_range takes out a range that starts at lo, if there is one.
LEMMA RemovedParts ==
  ASSUME NEW rs \in Seq(Extent), NEW lo
  PROVE  \/ Removed(rs, lo) = rs /\ \A i \in 1 .. Len(rs) : rs[i].lo # lo
         \/ \E i \in 1 .. Len(rs) : Removed(rs, lo) = RemoveAt(rs, i) /\ rs[i].lo = lo
<1> DEFINE I == {i \in 1 .. Len(rs) : rs[i].lo = lo}
           m == Min(I)
<1>1. Removed(rs, lo) = IF (IF I # {} THEN m ELSE 0) = 0 THEN rs
                        ELSE RemoveAt(rs, IF I # {} THEN m ELSE 0)
  BY DEF Removed, SelectInSeq
<1>2. CASE I = {}
  BY <1>1, <1>2
<1>3. CASE I # {}
  <2>1. Len(rs) \in Nat /\ I \in SUBSET Nat
    BY LenProperties
  <2>2. PICK i \in I : \A j \in I : i <= j
    BY <2>1, <1>3, LeastNatural
  <2>3. m \in I
    BY <2>2 DEF Min
  <2>4. m \in 1 .. Len(rs) /\ rs[m].lo = lo
    BY <2>3
  <2>5. Removed(rs, lo) = RemoveAt(rs, m)
    BY <1>1, <1>3, <2>1, <2>4
  <2> QED
    BY <2>4, <2>5
<1> QED
  BY <1>2, <1>3

\* What remains is as good as it was.
LEMMA RemovedGood ==
  ASSUME NEW rs, NEW lo, Good(rs)
  PROVE  Good(Removed(rs, lo))
<1>1. rs \in Seq(Extent) /\ Len(rs) \in Nat
  BY LenProperties DEF Good
<1>2. CASE Removed(rs, lo) = rs
  BY <1>2
<1>3. ASSUME NEW i \in 1 .. Len(rs), Removed(rs, lo) = RemoveAt(rs, i)
      PROVE  Good(Removed(rs, lo))
  <2> DEFINE t == RemoveAt(rs, i)
             Old(k) == IF k < i THEN k ELSE k + 1
  <2>1. /\ t \in Seq(Extent) /\ Len(t) = Len(rs) - 1
        /\ \A k \in 1 .. Len(t) : t[k] = rs[Old(k)]
    BY <1>1, RemoveAtFacts
  <2>2. /\ \A k \in 1 .. Len(t) : Old(k) \in 1 .. Len(rs)
        /\ \A k, l \in 1 .. Len(t) : k < l => Old(k) < Old(l)
    BY <1>1, <2>1
  <2> HIDE DEF t, Old
  <2>3. \A k \in 1 .. Len(t) : InHeap(t[k])
    BY <2>1, <2>2 DEF Good
  <2>4. \A k, l \in 1 .. Len(t) : k < l => Compatible(t[k], t[l])
    BY <2>1, <2>2 DEF Good
  <2> QED
    BY <1>3, <2>1, <2>3, <2>4 DEF Good, t
<1> QED
  BY <1>1, <1>2, <1>3, RemovedParts

\* The end points decide, but for the payload that encloses another one.
LEMMA AcceptedCompatible ==
  ASSUME NEW lo \in Int, NEW n \in Nat \ {0}, NEW r \in Extent,
         ~Within(lo, r), ~Within(lo + n - 1, r)
  PROVE  Compatible([lo |-> lo, hi |-> lo + n - 1], r)
BY DEF Within, Extent, Compatible, Overlap, Encloses

LEMMA AddedGood ==
  ASSUME NEW rs, NEW lo \in Int, NEW n \in Lengths, Good(rs),
         Accepts(rs, lo, n, HeapLo, HeapHi)
  PROVE  Good(Added(rs, lo, n))
<1> DEFINE r == [lo |-> lo, hi |-> lo + n - 1]
           t == <<r>> \o rs
<1>1. rs \in Seq(Extent) /\ Len(rs) \in Nat /\ DOMAIN rs = 1 .. Len(rs)
  BY LenProperties DEF Good
<1>2. n \in Nat \ {0} /\ HeapLo \in Nat /\ HeapHi \in Nat
  BY RangeListAssumption
<1>3. r \in Extent /\ InHeap(r)
  BY <1>2 DEF Accepts, Within, InHeap, Extent
<1>4. \A i \in 1 .. Len(rs) : Compatible(r, rs[i])
  <2> TAKE i \in 1 .. Len(rs)
  <2>1. rs[i] \in Extent /\ ~Within(lo, rs[i]) /\ ~Within(lo + n - 1, rs[i])
    BY <1>1, LenProperties DEF Accepts
  <2> QED
    BY <2>1, <1>2, AcceptedCompatible
<1> HIDE DEF r
<1>5. /\ t \in Seq(Extent) /\ Len(t) = Len(rs) + 1 /\ t[1] = r
      /\ \A k \in 2 .. Len(t) : t[k] = rs[k - 1]
  BY <1>1, <1>3, InFrontFacts
<1> HIDE DEF t
<1>6. \A k \in 1 .. Len(t) : k = 1 \/ (k \in 2 .. Len(t) /\ k - 1 \in 1 .. Len(rs))
  BY <1>1, <1>5
<1>7. \A k \in 1 .. Len(t) : InHeap(t[k])
  BY <1>3, <1>5, <1>6 DEF Good
<1>8. ASSUME NEW k \in 1 .. Len(t), NEW l \in 1 .. Len(t), k < l
      PROVE  Compatible(t[k], t[l])
  <2>1. l \in 2 .. Len(t) /\ l - 1 \in 1 .. Len(rs)
    BY <1>8, <1>1, <1>5
  <2>2. CASE k = 1
    BY <2>1, <2>2, <1>4, <1>5
  <2>3. CASE k # 1
    <3>1. k \in 2 .. Len(t) /\ k - 1 \in 1 .. Len(rs) /\ k - 1 < l - 1
      BY <2>3, <1>8, <1>1, <1>5
    <3> QED
      BY <3>1, <2>1, <1>5 DEF Good
  <2> QED
    BY <2>2, <2>3
<1> QED
  BY <1>5, <1>7, <1>8 DEF Good, Added, t, r

-----------------------------------------------------------------------------
LEMMA InitGood == Init => Good(ranges)
<1>1. <<>> \in Seq(Extent) /\ Len(<<>>) = 0
  OBVIOUS
<1> QED
  BY <1>1 DEF Init, Good

LEMMA NextGood == Good(ranges) /\ [Next]_ranges => Good(ranges')
<1> SUFFICES ASSUME Good(ranges), [Next]_ranges
             PROVE  Good(ranges')
  OBVIOUS
<1>0. Addresses \subseteq Int
  BY RangeListAssumption DEF Addresses
<1>1. CASE Next
  <2>1. ASSUME NEW lo \in Addresses, NEW n \in Lengths, Add(lo, n)
        PROVE  Good(ranges')
    BY <2>1, <1>0, AddedGood DEF Add
  <2>2. ASSUME NEW lo \in Addresses, Drop(lo) PROVE Good(ranges')
    BY <2>2, RemovedGood DEF Drop
  <2>3. ASSUME NEW old \in Addresses, NEW lo \in Addresses, NEW n \in Lengths,
               Move(old, lo, n)
        PROVE  Good(ranges')
    <3>1. Good(Removed(ranges, old))
      BY RemovedGood
    <3> QED
      BY <3>1, <2>3, <1>0, AddedGood DEF Move
  <2>4. CASE Clear
    <3>1. ranges' = <<>> /\ <<>> \in Seq(Extent) /\ Len(<<>>) = 0
      BY <2>4 DEF Clear
    <3> QED
      BY <3>1 DEF Good
  <2> QED
    BY <1>1, <2>1, <2>2, <2>3, <2>4 DEF Next
<1>2. CASE UNCHANGED ranges
  BY <1>2
<1> QED
  BY <1>1, <1>2

LEMMA GoodMissesEnclosing == Good(ranges) => OnlyEnclosedMissed
<1> SUFFICES ASSUME Good(ranges) PROVE OnlyEnclosedMissed
  OBVIOUS
<1>1. DOMAIN ranges = 1 .. Len(ranges)
  BY LenProperties DEF Good
<1> QED
  BY <1>1 DEF Good, OnlyEnclosedMissed, InHeap, Compatible

\* The range list under any allocator: recorded payloads lie in the heap and
\* overlap only where the newer one encloses the older one (add_range and
\* remove_range of mdriver.c).
THEOREM OverlapsOnlyEnclosing == Spec => []OnlyEnclosedMissed
<1> DEFINE IInv == Good(ranges)
<1>1. Init => IInv
  BY InitGood
<1>2. IInv /\ [Next]_ranges => IInv'
  BY NextGood
<1>3. IInv => OnlyEnclosedMissed
  BY GoodMissesEnclosing
<1> HIDE DEF IInv
<1> QED
  BY <1>1, <1>2, <1>3, PTL DEF Spec

-----------------------------------------------------------------------------
(* What is true of the driver in every state.                              *)

Entries(rs) == {rs[k] : k \in 1 .. Len(rs)}

StartsDiffer(rs) == \A k, l \in 1 .. Len(rs) : rs[k].lo = rs[l].lo => k = l

\* The trace, and the blocks the program has of it.
TraceInv ==
  /\ trace \in Seq(Op) /\ WellFormed(trace) /\ opnum \in 0 .. Len(trace)
  /\ block \in [Ids -> [p : Nat, n : Nat]] /\ inUse \subseteq Ids
  /\ brk \in Nat /\ verdict \in BOOLEAN
  /\ pc \in {"options", "read", "evaluate"} => Blank

\* The range list holds the payloads in use and nothing else, and no two of
\* them start at the same address.
Held ==
  /\ Entries(ranges) = {Payload(block[j].p, block[j].n) : j \in inUse}
  /\ StartsDiffer(ranges)
  /\ \A j \in inUse : block[j].n \in Lengths
  /\ \A j, k \in inUse : block[j].p = block[k].p => j = k

Tracked == Held /\ (opnum < Len(trace) => inUse = InUseAfter(trace, opnum))

\* The blocks reallocated by the first m requests read back.
ReadBack(m) == \A k \in 1 .. m : trace[k].type = "r" => Readable(trace[k].i)

\* Nothing is wrong as long as the trace runs; when it is judged, the verdict
\* is what the history and the trace say.
Judging ==
  /\ pc = "valid" => fault = "none" /\ verdict = TRUE /\ ReadBack(opnum) /\ Tracked
  /\ pc = "judged" => (verdict <=> fault = "none" /\ ReadBack(Len(trace)))

Failed(vs) == {i \in DOMAIN vs : ~vs[i]}

\* Only mm's traces are counted, each once.
Tally ==
  /\ valid \in Seq(BOOLEAN) /\ errors \in Nat /\ package \in {"libc", "mm"}
  /\ pc = "options" => package = "libc" /\ tracenum = 0
  /\ package = "libc" => /\ valid = <<>> /\ pc \notin {"valid", "judged", "end"}
                         /\ pc # "exit" => errors = 0
  /\ package = "mm" /\ pc # "exit" =>
       /\ errors = Cardinality(Failed(valid))
                     + (IF pc = "judged" /\ ~verdict THEN 1 ELSE 0)
       /\ IF pc = "end" THEN Len(valid) = NumFiles
          ELSE Len(valid) = tracenum /\ tracenum < NumFiles

JudgeInv == TraceInv /\ Good(ranges) /\ Judging /\ Tally

-----------------------------------------------------------------------------
(* What is true of fsecs.                                                  *)

Sorted(s) == \A i, j \in 1 .. Len(s) : i <= j => s[i] <= s[j]

Smallest(s) == SubSeq(s, 1, IF Len(s) < K THEN Len(s) ELSE K)

\* A tick is known to cost what it costs and at most THRESHOLD more.
TickInv ==
  /\ cal.since \in 0 .. THRESHOLD - 1 \/ (cal.since = TickCost /\ cal.ticks = 0)
  /\ cal.ticks \in 0 .. 1
  /\ cyc_per_tick = 0 \/ cyc_per_tick \in TickCost + 1 .. TickCost + THRESHOLD

TimingInv ==
  /\ samples \in Seq(Int) /\ Sorted(samples) /\ values = Smallest(samples)
  /\ {start, runs, spent} \subseteq Nat
  /\ timing \in {"start", "callibrate", "measure"} =>
       method = "FCYC" /\ Len(samples) < MAXSAMPLES
  /\ timing = "runs" => method # "FCYC"
  /\ timing = "done" =>
       IF method = "FCYC"
         THEN /\ secs = samples[1] /\ Len(samples) <= MAXSAMPLES
              /\ Len(samples) < MAXSAMPLES =>
                   100 * (samples[K] - samples[1]) <= EPSILON * samples[1]
         ELSE secs = spent /\ runs = Runs

-----------------------------------------------------------------------------
(* The range list while a trace is run.                                    *)

\* What is left in the list when one range is taken out ...
LEMMA RemovedEntries ==
  ASSUME NEW rs \in Seq(Extent), NEW lo, StartsDiffer(rs)
  PROVE  /\ Entries(Removed(rs, lo)) = {r \in Entries(rs) : r.lo # lo}
         /\ StartsDiffer(Removed(rs, lo))
<1>1. Len(rs) \in Nat
  BY LenProperties
<1>2. CASE Removed(rs, lo) = rs /\ \A i \in 1 .. Len(rs) : rs[i].lo # lo
  BY <1>2 DEF Entries
<1>3. ASSUME NEW i \in 1 .. Len(rs), Removed(rs, lo) = RemoveAt(rs, i), rs[i].lo = lo
      PROVE  /\ Entries(Removed(rs, lo)) = {r \in Entries(rs) : r.lo # lo}
             /\ StartsDiffer(Removed(rs, lo))
  <2> DEFINE t == RemoveAt(rs, i)
             Old(k) == IF k < i THEN k ELSE k + 1
  <2>1. /\ Len(t) = Len(rs) - 1
        /\ \A k \in 1 .. Len(t) : t[k] = rs[Old(k)]
    BY <1>1, RemoveAtFacts
  <2>2. /\ \A k \in 1 .. Len(t) : Old(k) \in 1 .. Len(rs) /\ Old(k) # i
        /\ \A k, l \in 1 .. Len(t) : Old(k) = Old(l) => k = l
        /\ \A k \in 1 .. Len(rs) : k # i => \E l \in 1 .. Len(t) : Old(l) = k
    <3>1. ASSUME NEW k \in 1 .. Len(rs), k # i
          PROVE  \E l \in 1 .. Len(t) : Old(l) = k
      <4> DEFINE l == IF k < i THEN k ELSE k - 1
      <4>1. l \in 1 .. Len(t) /\ Old(l) = k
        BY <3>1, <2>1, <1>1
      <4> QED
        BY <4>1
    <3> QED
      BY <3>1, <2>1, <1>1
  <2> HIDE DEF t, Old
  <2>3. StartsDiffer(t)
    BY <2>1, <2>2 DEF StartsDiffer
  <2>4. ASSUME NEW k \in 1 .. Len(t)
        PROVE  t[k] \in Entries(rs) /\ t[k].lo # lo
    <3>1. Old(k) \in 1 .. Len(rs) /\ Old(k) # i /\ t[k] = rs[Old(k)]
      BY <2>1, <2>2
    <3>2. rs[Old(k)].lo # rs[i].lo
      BY <3>1 DEF StartsDiffer
    <3> QED
      BY <3>1, <3>2, <1>3 DEF Entries
  <2>5. ASSUME NEW k \in 1 .. Len(rs), rs[k].lo # lo
        PROVE  rs[k] \in Entries(t)
    <3>1. PICK l \in 1 .. Len(t) : Old(l) = k
      BY <2>2, <2>5, <1>3
    <3> QED
      BY <3>1, <2>1 DEF Entries
  <2>6. Entries(t) = {r \in Entries(rs) : r.lo # lo}
    BY <2>4, <2>5 DEF Entries
  <2> QED
    BY <2>3, <2>6, <1>3 DEF t
<1> QED
  BY <1>2, <1>3, RemovedParts

\* ... and when an accepted payload is put in front.
LEMMA AddedEntries ==
  ASSUME NEW rs \in Seq(Extent), NEW lo \in Int, NEW n \in Lengths, NEW a, NEW b,
         Accepts(rs, lo, n, a, b), StartsDiffer(rs)
  PROVE  /\ Entries(Added(rs, lo, n)) = Entries(rs) \cup {Payload(lo, n)}
         /\ StartsDiffer(Added(rs, lo, n))
         /\ \A r \in Entries(rs) : r.lo # lo
<1> DEFINE p == Payload(lo, n)
           t == <<p>> \o rs
<1>1. /\ Len(rs) \in Nat /\ DOMAIN rs = 1 .. Len(rs)
      /\ \A k \in 1 .. Len(rs) : rs[k] \in Extent
  BY LenProperties
<1>2. p \in Extent /\ p.lo = lo
  BY RangeListAssumption DEF Payload, Extent
<1>3. ASSUME NEW k \in 1 .. Len(rs) PROVE rs[k].lo # lo
  <2>1. ~Within(lo, rs[k]) /\ rs[k] \in Extent
    BY <1>1 DEF Accepts
  <2> QED
    BY <2>1 DEF Within, Extent
<1> HIDE DEF p
<1>4. /\ Len(t) = Len(rs) + 1 /\ t[1] = p
      /\ \A k \in 2 .. Len(rs) + 1 : t[k] = rs[k - 1]
  BY <1>1, <1>2, InFrontFacts
<1> HIDE DEF t
<1>5. /\ \A k \in 1 .. Len(t) : k = 1 \/ (k \in 2 .. Len(t) /\ k - 1 \in 1 .. Len(rs))
      /\ \A k \in 1 .. Len(rs) : k + 1 \in 2 .. Len(t) /\ t[k + 1] = rs[k]
      /\ 1 \in 1 .. Len(t)
  BY <1>1, <1>4
<1>6. StartsDiffer(t)
  <2> SUFFICES ASSUME NEW k \in 1 .. Len(t), NEW l \in 1 .. Len(t), t[k].lo = t[l].lo
               PROVE  k = l
    BY DEF StartsDiffer
  <2>1. CASE k = 1 \/ l = 1
    BY <2>1, <1>2, <1>3, <1>4, <1>5
  <2>2. CASE k # 1 /\ l # 1
    <3>1. k - 1 \in 1 .. Len(rs) /\ l - 1 \in 1 .. Len(rs)
          /\ rs[k - 1].lo = rs[l - 1].lo
      BY <2>2, <1>4, <1>5
    <3> QED
      BY <3>1 DEF StartsDiffer
  <2> QED
    BY <2>1, <2>2
<1>7. Entries(t) = Entries(rs) \cup {p}
  <2>1. \A k \in 1 .. Len(t) : t[k] \in Entries(rs) \cup {p}
    BY <1>4, <1>5 DEF Entries
  <2>2. \A k \in 1 .. Len(rs) : rs[k] \in Entries(t)
    <3> TAKE k \in 1 .. Len(rs)
    <3>1. k + 1 \in 1 .. Len(t) /\ t[k + 1] = rs[k]
      BY <1>5, <1>1, <1>4
    <3> QED
      BY <3>1 DEF Entries
  <2>3. p \in Entries(t)
    BY <1>4, <1>5 DEF Entries
  <2> QED
    BY <2>1, <2>2, <2>3 DEF Entries
<1>8. Added(rs, lo, n) = t
  BY DEF Added, Payload, p, t
<1> QED
  BY <1>3, <1>6, <1>7, <1>8 DEF Entries, p

LEMMA EmptyEntries ==
  ASSUME NEW rs \in Seq(Extent)
  PROVE  Entries(rs) = {} <=> rs = <<>>
<1>1. Len(rs) \in Nat /\ (rs # <<>> => Len(rs) \in Nat \ {0})
  BY EmptySeq
<1>2. CASE rs = <<>>
  BY <1>2 DEF Entries
<1>3. CASE rs # <<>>
  <2>1. 1 \in 1 .. Len(rs)
    BY <1>1, <1>3
  <2> QED
    BY <2>1, <1>3 DEF Entries
<1> QED
  BY <1>2, <1>3

\* The indices in use change with a request by its own index.
LEMMA InUseStep ==
  ASSUME NEW ops \in Seq(Op), NEW m \in 0 .. Len(ops) - 1
  PROVE  LET op == ops[m + 1]
         IN InUseAfter(ops, m + 1) =
              IF op.type = "f" THEN InUseAfter(ops, m) \ {op.i}
              ELSE InUseAfter(ops, m) \cup {op.i}
<1> DEFINE op == ops[m + 1]
<1>1. Len(ops) \in Nat /\ m \in Nat
  BY LenProperties
<1>2. \A k \in 1 .. m + 1 : k \in 1 .. m \/ k = m + 1
  BY <1>1
<1>3. /\ 1 .. m \subseteq 1 .. m + 1 /\ m + 1 \in 1 .. m + 1
      /\ \A k \in 1 .. m : m + 1 \in k + 1 .. m + 1 /\ k + 1 .. m \subseteq k + 1 .. m + 1
      /\ \A k \in 1 .. m : \A l \in k + 1 .. m + 1 : l \in k + 1 .. m \/ l = m + 1
      /\ (m + 1) + 1 .. m + 1 = {}
  BY <1>1
<1>4. op.i \in Ids
  <2>1. op \in Op
    BY <1>1, ElementOfSeq
  <2> QED
    BY <2>1 DEF Op
<1> DEFINE Final(i, k, n) == /\ ops[k].i = i /\ ops[k].type # "f"
                             /\ \A l \in k + 1 .. n : ~(ops[l].i = i /\ ops[l].type = "f")
<1>5. \A i, n : i \in InUseAfter(ops, n) <=> i \in Ids /\ \E k \in 1 .. n : Final(i, k, n)
  BY DEF InUseAfter
<1>6. \A i : \A k \in 1 .. m : Final(i, k, m + 1) <=> Final(i, k, m) /\ ~(op.i = i /\ op.type = "f")
  BY <1>3
<1>7. \A i : Final(i, m + 1, m + 1) <=> op.i = i /\ op.type # "f"
  BY <1>3
<1> HIDE DEF op, Final
<1>8. ASSUME NEW i
      PROVE  i \in InUseAfter(ops, m + 1) <=>
               \/ i \in InUseAfter(ops, m) /\ ~(op.i = i /\ op.type = "f")
               \/ op.i = i /\ op.type # "f"
  BY <1>2, <1>3, <1>4, <1>5, <1>6, <1>7
<1>9. InUseAfter(ops, m + 1) = IF op.type = "f" THEN InUseAfter(ops, m) \ {op.i}
                               ELSE InUseAfter(ops, m) \cup {op.i}
  <2>1. CASE op.type = "f"
    BY <2>1, <1>8
  <2>2. CASE op.type # "f"
    BY <2>2, <1>8
  <2> QED
    BY <2>1, <2>2
<1> QED
  BY <1>9 DEF op

\* The heap never ends behind mem_heap_hi().
LEMMA WiderHeap ==
  ASSUME NEW rs, NEW p \in Nat, NEW n \in Lengths, NEW b \in Breaks,
         Accepts(rs, p, n, HeapLo, b - 1)
  PROVE  Accepts(rs, p, n, HeapLo, HeapHi)
<1>1. /\ HeapLo \in Nat /\ HeapHi \in Nat /\ n \in Nat \ {0}
      /\ b \in Int /\ b - 1 <= HeapHi
  BY RangeListAssumption, JudgeAssumption
<1> QED
  BY <1>1 DEF Accepts, Within

\* The list without the ranges that start where block i does.
LEMMA EntriesWithout ==
  ASSUME Held, NEW i \in inUse, ranges \in Seq(Extent)
  PROVE  /\ Entries(Removed(ranges, block[i].p)) = Live(i)
         /\ StartsDiffer(Removed(ranges, block[i].p))
<1>1. /\ Entries(Removed(ranges, block[i].p)) = {r \in Entries(ranges) : r.lo # block[i].p}
      /\ StartsDiffer(Removed(ranges, block[i].p))
  BY RemovedEntries DEF Held
<1>2. \A j \in inUse : Payload(block[j].p, block[j].n).lo = block[j].p
  BY DEF Payload
<1>3. \A j \in inUse : block[j].p # block[i].p <=> j # i
  BY DEF Held
<1>4. {r \in Entries(ranges) : r.lo # block[i].p} = Live(i)
  <2>1. ASSUME NEW r \in Entries(ranges), r.lo # block[i].p PROVE r \in Live(i)
    <3>1. PICK j \in inUse : r = Payload(block[j].p, block[j].n)
      BY DEF Held
    <3>2. j # i
      BY <3>1, <2>1, <1>2
    <3> QED
      BY <3>1, <3>2 DEF Live
  <2>2. ASSUME NEW r \in Live(i) PROVE r \in Entries(ranges) /\ r.lo # block[i].p
    <3>1. PICK j \in inUse \ {i} : r = Payload(block[j].p, block[j].n)
      BY DEF Live
    <3> QED
      BY <3>1, <1>2, <1>3 DEF Held
  <2> QED
    BY <2>1, <2>2
<1> QED
  BY <1>1, <1>4

LEMMA UnclaimedLive ==
  ASSUME Held, Good(ranges), NEW i \in Ids
  PROVE  /\ Good(Unclaimed(i))
         /\ Entries(Unclaimed(i)) = Live(i)
         /\ StartsDiffer(Unclaimed(i))
<1>1. CASE i \in inUse
  BY <1>1, EntriesWithout, RemovedGood DEF Unclaimed, Good
<1>2. CASE i \notin inUse
  <2>1. inUse \ {i} = inUse
    BY <1>2
  <2> QED
    BY <1>2, <2>1 DEF Unclaimed, Live, Held
<1> QED
  BY <1>1, <1>2

\* add_range accepts a payload exactly if nothing is wrong with it.
LEMMA AcceptsTheRight ==
  ASSUME NEW i, NEW rs \in Seq(Extent), Entries(rs) = Live(i),
         NEW p \in Nat, NEW n \in Lengths, NEW b \in Breaks
  PROVE  Wrong(i, p, n, b) = "none" <=> p # 0 /\ Accepts(rs, p, n, HeapLo, b - 1)
<1> DEFINE r == Payload(p, n)
           Bad(l) == Overlap(r, l) /\ ~Encloses(r, l)
           Hit(l) == Within(p, l) \/ Within(p + n - 1, l)
<1>1. HeapLo \in Nat /\ n \in Nat \ {0} /\ b \in Int
  BY RangeListAssumption, JudgeAssumption
<1>2. \A l \in Extent : Bad(l) <=> Hit(l)
  <2> TAKE l \in Extent
  <2>1. /\ r.lo = p /\ r.hi = p + n - 1
        /\ l.lo \in Int /\ l.hi \in Int /\ l.lo <= l.hi
    BY DEF Payload, Extent
  <2> QED
    BY <2>1, <1>1 DEF Overlap, Encloses, Within
<1>3. DOMAIN rs = 1 .. Len(rs) /\ \A k \in 1 .. Len(rs) : rs[k] \in Extent
  BY LenProperties
<1>4. (\E l \in Live(i) : Bad(l)) <=> \E k \in 1 .. Len(rs) : Hit(rs[k])
  <2>1. (\E l \in Live(i) : Bad(l)) <=> \E k \in 1 .. Len(rs) : Bad(rs[k])
    BY DEF Entries
  <2> QED
    BY <2>1, <1>2, <1>3
<1>5. Accepts(rs, p, n, HeapLo, b - 1) <=>
        p % 8 = 0 /\ HeapLo <= p /\ p + n - 1 < b /\ ~\E k \in 1 .. Len(rs) : Hit(rs[k])
  <2>1. HeapLo <= p /\ p <= b - 1 /\ HeapLo <= p + n - 1 /\ p + n - 1 <= b - 1
          <=> HeapLo <= p /\ p + n - 1 < b
    BY <1>1
  <2> HIDE DEF r
  <2> QED
    BY <2>1, <1>3 DEF Accepts, Within
<1> HIDE DEF Hit
<1>6. Wrong(i, p, n, b) = "none" <=>
        p # 0 /\ p % 8 = 0 /\ HeapLo <= p /\ r.hi < b /\ ~\E l \in Live(i) : Bad(l)
  BY DEF Wrong
<1>7. r.hi = p + n - 1
  BY DEF Payload
<1> QED
  BY <1>4, <1>5, <1>6, <1>7

-----------------------------------------------------------------------------
(* The requests of a trace.                                                *)

LEMMA OpTypes ==
  ASSUME NEW op \in Op
  PROVE  /\ op.i \in Ids /\ op.n \in Nat /\ op.type \in {"a", "r", "f"}
         /\ op.type = "f" => op.n = 0
<1>1. CASE op \in [type : {"a", "r"}, i : Ids, n : Payloads]
  <2>1. \A x \in Payloads : x = 0 \/ x \in Lengths
    BY JudgeAssumption
  <2>2. \A x \in Lengths : x \in Nat
    BY RangeListAssumption
  <2>3. Payloads \subseteq Nat
    BY <2>1, <2>2
  <2> QED
    BY <1>1, <2>3
<1>2. CASE op \in [type : {"f"}, i : Ids, n : {0}]
  BY <1>2
<1> QED
  BY <1>1, <1>2 DEF Op

\* What a request for i with p as its answer leads to.
LEMMA RequestFacts ==
  ASSUME TraceInv, opnum < Len(trace)
  PROVE  LET op == trace[opnum + 1]
         IN /\ opnum \in 0 .. Len(trace) - 1 /\ opnum + 1 \in 1 .. Len(trace)
            /\ op.i \in Ids
            /\ op.n # 0 => op.n \in Lengths
            /\ op.type = "a" <=> op.i \notin InUseAfter(trace, opnum)
<1> DEFINE op == trace[opnum + 1]
<1>1. /\ opnum \in 0 .. Len(trace) - 1 /\ opnum + 1 \in 1 .. Len(trace)
      /\ DOMAIN trace = 1 .. Len(trace) /\ (opnum + 1) - 1 = opnum
  BY LenProperties DEF TraceInv
<1>2. op \in Op
  BY <1>1, ElementOfSeq DEF TraceInv
<1>3. op.type = "a" <=> op.i \notin InUseAfter(trace, opnum)
  BY <1>1 DEF TraceInv, WellFormed
<1>4. op.i \in Ids /\ (op.n \in Payloads \/ op.n = 0)
  <2>1. CASE op \in [type : {"a", "r"}, i : Ids, n : Payloads]
    BY <2>1
  <2>2. CASE op \in [type : {"f"}, i : Ids, n : {0}]
    BY <2>2
  <2> QED
    BY <1>2, <2>1, <2>2 DEF Op
<1>5. op.n # 0 => op.n \in Lengths
  BY <1>4, JudgeAssumption
<1> HIDE DEF op
<1> QED
  BY <1>1, <1>3, <1>4, <1>5 DEF op

\* An accepted payload is held from then on.
LEMMA AcceptedHeld ==
  ASSUME TraceInv, Good(ranges), Held, NEW i \in Ids, NEW p \in Nat, NEW n \in Lengths,
         NEW b, Accepts(Unclaimed(i), p, n, HeapLo, b),
         ranges' = Added(Unclaimed(i), p, n), inUse' = inUse \cup {i},
         block' = [block EXCEPT ![i] = [p |-> p, n |-> n]]
  PROVE  Held'
<1> DEFINE rs == Unclaimed(i)
           At(j) == Payload(block[j].p, block[j].n)
<1>1. rs \in Seq(Extent) /\ Entries(rs) = Live(i) /\ StartsDiffer(rs)
  BY UnclaimedLive DEF Good
<1>2. /\ Entries(Added(rs, p, n)) = Entries(rs) \cup {Payload(p, n)}
      /\ StartsDiffer(Added(rs, p, n))
      /\ \A r \in Entries(rs) : r.lo # p
  BY <1>1, AddedEntries
<1>3. /\ block'[i].p = p /\ block'[i].n = n
      /\ \A j \in inUse \ {i} : block'[j] = block[j]
  BY DEF TraceInv
<1>4. \A j \in inUse \ {i} : block[j].p # p
  <2> TAKE j \in inUse \ {i}
  <2>1. At(j) \in Entries(rs) /\ At(j).lo = block[j].p
    BY <1>1 DEF Live, Payload
  <2> QED
    BY <2>1, <1>2
<1>5. Entries(ranges') = {Payload(block'[j].p, block'[j].n) : j \in inUse'}
  <2>1. Live(i) = {Payload(block'[j].p, block'[j].n) : j \in inUse \ {i}}
    BY <1>3 DEF Live
  <2>2. inUse' = (inUse \ {i}) \cup {i}
    OBVIOUS
  <2>3. {Payload(block'[j].p, block'[j].n) : j \in inUse'} = Live(i) \cup {Payload(p, n)}
    BY <2>1, <2>2, <1>3
  <2> QED
    BY <2>3, <1>1, <1>2
<1>6. \A j \in inUse' : block'[j].n \in Lengths
  BY <1>3 DEF Held
<1>7. \A j, k \in inUse' : block'[j].p = block'[k].p => j = k
  BY <1>3, <1>4 DEF Held
<1> QED
  BY <1>2, <1>5, <1>6, <1>7 DEF Held

\* So are the others when one is freed.
LEMMA FreedHeld ==
  ASSUME Good(ranges), Held, NEW i \in inUse, Freed(i), UNCHANGED block
  PROVE  Held' /\ Good(ranges')
<1>1. /\ Entries(ranges') = Live(i) /\ StartsDiffer(ranges')
  BY EntriesWithout DEF Freed, Good
<1>2. inUse' = inUse \ {i}
  BY DEF Freed
<1>3. Live(i) = {Payload(block'[j].p, block'[j].n) : j \in inUse'}
  BY <1>2 DEF Live
<1>4. Good(ranges')
  BY RemovedGood DEF Freed
<1>5. /\ \A j \in inUse' : block'[j].n \in Lengths
      /\ \A j, k \in inUse' : block'[j].p = block'[k].p => j = k
  BY <1>2 DEF Held
<1> QED
  BY <1>1, <1>3, <1>4, <1>5 DEF Held

LEMMA PlaceStep ==
  ASSUME JudgeInv, NEW p \in Results, NEW b \in Breaks, NEW kept \in BOOLEAN,
         Place(p, b, kept)
  PROVE  Good(ranges') /\ Judging'
<1> DEFINE op == trace[opnum + 1]
           rs == Unclaimed(op.i)
           wrong == Wrong(op.i, p, op.n, b)
<1>1. pc = "valid" /\ opnum < Len(trace) /\ op.type # "f" /\ (op.i \in inUse \/ kept)
  BY DEF Place
<1>2. /\ opnum \in 0 .. Len(trace) - 1
      /\ op.i \in Ids /\ (op.n # 0 => op.n \in Lengths)
  BY <1>1, RequestFacts DEF JudgeInv
<1>3. p \in Nat /\ trace' = trace
  BY JudgeAssumption DEF Place
<1>4. /\ TraceInv /\ Good(ranges) /\ Held /\ inUse = InUseAfter(trace, opnum)
      /\ fault = "none" /\ verdict = TRUE
  BY <1>1 DEF JudgeInv, Judging, Tracked
<1>5. Good(rs) /\ rs \in Seq(Extent) /\ Entries(rs) = Live(op.i)
  BY <1>2, <1>4, UnclaimedLive DEF Good
<1>6. op.n # 0 => (wrong = "none" <=> p # 0 /\ Accepts(rs, p, op.n, HeapLo, b - 1))
  BY <1>2, <1>3, <1>5, AcceptsTheRight
<1>7. fault' = IF wrong = "none" /\ ~kept THEN "data" ELSE wrong
  BY <1>4 DEF Place, Blame
<1>8. /\ rs = Unclaimed(op.i)
      /\ Outcome(op, rs, p, b, kept) =
           IF p = 0 THEN "null"
           ELSE IF op.n = 0 THEN "assert"
           ELSE IF ~Accepts(rs, p, op.n, HeapLo, b - 1) THEN "range"
           ELSE IF op.type = "r" /\ ~(kept /\ Readable(op.i)) THEN "data"
           ELSE "accepted"
  BY DEF Outcome
<1>12. /\ ReadBack(opnum) /\ (op.type # "r" => kept)
       /\ opnum + 1 \in 1 .. Len(trace) /\ \A k \in 1 .. opnum + 1 : k \in 1 .. opnum \/ k = opnum + 1
  <2>1. op.type = "r" \/ op.type = "a"
    <3>1. op \in Op
      BY <1>1, <1>4, RequestFacts, ElementOfSeq DEF TraceInv
    <3> QED
      BY <1>1, <3>1, OpTypes
  <2>2. op.type = "a" <=> op.i \notin inUse
    BY <1>1, <1>4, RequestFacts
  <2>3. ReadBack(opnum) /\ opnum + 1 \in 1 .. Len(trace) /\ opnum \in Nat
    BY <1>1, <1>2, <1>4, RequestFacts, LenProperties DEF JudgeInv, Judging, TraceInv
  <2> QED
    BY <1>1, <2>1, <2>2, <2>3
<1>9. CASE /\ Outcome(op, rs, p, b, kept) = "accepted"
           /\ ranges' = Added(rs, p, op.n)
           /\ opnum' = opnum + 1
           /\ block' = [block EXCEPT ![op.i] = [p |-> p, n |-> op.n]]
           /\ inUse' = inUse \cup {op.i}
           /\ UNCHANGED <<pc, errors, verdict>>
  <2>1. p # 0 /\ op.n \in Lengths /\ Accepts(rs, p, op.n, HeapLo, b - 1) /\ kept
    BY <1>8, <1>9, <1>12, <1>2
  <2>2. Held'
    BY <2>1, <1>9, <1>2, <1>3, <1>4, AcceptedHeld
  <2>3. Good(ranges')
    BY <2>1, <1>9, <1>3, <1>5, WiderHeap, AddedGood
  <2>4. inUse' = InUseAfter(trace', opnum')
    BY <1>1, <1>2, <1>3, <1>4, <1>9, InUseStep DEF TraceInv
  <2>5. fault' = "none"
    <3>1. op.n # 0
      BY <2>1, RangeListAssumption
    <3>2. wrong = "none"
      BY <2>1, <3>1, <1>6
    <3> HIDE DEF wrong
    <3> QED
      BY <2>1, <3>2, <1>7
  <2>6. verdict' = TRUE /\ pc' = "valid"
    BY <1>1, <1>4, <1>9
  <2>7. ReadBack(opnum)'
    <3>1. op.type = "r" => Readable(op.i)
      BY <1>8, <1>9
    <3>2. \A k \in 1 .. opnum + 1 : trace[k].type = "r" => Readable(trace[k].i)
      BY <3>1, <1>12 DEF ReadBack
    <3> QED
      BY <3>2, <1>3, <1>9 DEF ReadBack
  <2> QED
    BY <2>2, <2>3, <2>4, <2>5, <2>6, <2>7 DEF Judging, Tracked
<1>10. CASE /\ Outcome(op, rs, p, b, kept) \in {"null", "range", "data"}
            /\ ranges' = CASE Outcome(op, rs, p, b, kept) = "null"  -> ranges
                           [] Outcome(op, rs, p, b, kept) = "range" -> rs
                           [] Outcome(op, rs, p, b, kept) = "data"  -> Added(rs, p, op.n)
            /\ Reject
            /\ UNCHANGED <<opnum, block, inUse>>
  <2>1. CASE Outcome(op, rs, p, b, kept) = "null"
    <3>1. ranges' = ranges
      BY <2>1, <1>10
    <3>2. fault' # "none"
      BY <2>1, <1>7, <1>8 DEF Wrong
    <3> QED
      BY <3>1, <3>2, <1>4, <1>10 DEF Judging, Reject
  <2>2. CASE Outcome(op, rs, p, b, kept) = "range"
    <3>1. ranges' = rs
      BY <2>2, <1>10
    <3>2. op.n # 0 /\ ~Accepts(rs, p, op.n, HeapLo, b - 1)
      BY <2>2, <1>8
    <3>3. fault' # "none"
      BY <3>2, <1>6, <1>7
    <3> QED
      BY <3>1, <3>3, <1>5, <1>10 DEF Judging, Reject
  <2>3. CASE Outcome(op, rs, p, b, kept) = "data"
    <3>1. ranges' = Added(rs, p, op.n)
      BY <2>3, <1>10
    <3>2. /\ p # 0 /\ op.n \in Lengths /\ Accepts(rs, p, op.n, HeapLo, b - 1)
          /\ ~kept \/ (op.type = "r" /\ ~Readable(op.i))
      BY <2>3, <1>2, <1>8
    <3>3. fault' # "none" \/ ~ReadBack(Len(trace))'
      <4>1. CASE ~kept
        BY <4>1, <1>7
      <4>2. CASE op.type = "r" /\ ~Readable(op.i)
        BY <4>2, <1>3, <1>12 DEF ReadBack
      <4> QED
        BY <3>2, <4>1, <4>2
    <3>4. Good(ranges')
      BY <3>1, <3>2, <1>3, <1>5, WiderHeap, AddedGood
    <3> QED
      BY <3>3, <3>4, <1>10 DEF Judging, Reject
  <2> QED
    BY <2>1, <2>2, <2>3, <1>10
<1>11. CASE /\ Outcome(op, rs, p, b, kept) = "assert"
            /\ pc' = "exit"
            /\ UNCHANGED <<opnum, block, inUse, ranges, errors, verdict>>
  BY <1>11, <1>4 DEF Judging
<1> QED
  BY <1>9, <1>10, <1>11 DEF Place

LEMMA ReleaseStep ==
  ASSUME JudgeInv, NEW b \in Breaks, Release(b)
  PROVE  Good(ranges') /\ Judging'
<1> DEFINE i == trace[opnum + 1].i
<1>1. /\ pc = "valid" /\ opnum < Len(trace) /\ trace[opnum + 1].type = "f"
      /\ Freed(i) /\ opnum' = opnum + 1
      /\ UNCHANGED <<pc, trace, block, verdict, fault>>
  BY DEF Release, judgment
<1>2. /\ TraceInv /\ Good(ranges) /\ Held /\ inUse = InUseAfter(trace, opnum)
      /\ fault = "none" /\ verdict = TRUE
  BY <1>1 DEF JudgeInv, Judging, Tracked
<1>3. opnum \in 0 .. Len(trace) - 1 /\ i \in inUse
  BY <1>1, <1>2, RequestFacts
<1>4. inUse' = InUseAfter(trace, opnum + 1)
  BY <1>1, <1>2, <1>3, InUseStep DEF TraceInv, Freed
<1> HIDE DEF i
<1>5. Held' /\ Good(ranges')
  BY <1>1, <1>2, <1>3, FreedHeld
<1>6. ReadBack(opnum)'
  <2>1. ReadBack(opnum) /\ opnum \in Nat
    BY <1>1, <1>3, LenProperties DEF JudgeInv, Judging, TraceInv
  <2>2. \A k \in 1 .. opnum + 1 : k \in 1 .. opnum \/ k = opnum + 1
    BY <2>1
  <2> QED
    BY <1>1, <2>1, <2>2 DEF ReadBack
<1> QED
  BY <1>1, <1>2, <1>4, <1>5, <1>6 DEF Judging, Tracked

LEMMA ExitFreeStep ==
  ASSUME JudgeInv, NEW i \in Ids, ExitFree(i)
  PROVE  Good(ranges') /\ Judging'
<1>1. /\ pc = "valid" /\ opnum = Len(trace) /\ i \in inUse /\ Freed(i)
      /\ UNCHANGED <<pc, trace, opnum, block, verdict, fault>>
  BY DEF ExitFree, judgment
<1>2. Good(ranges) /\ Held /\ fault = "none" /\ verdict = TRUE /\ Len(trace) \in Nat
  BY <1>1, LenProperties DEF JudgeInv, Judging, Tracked, TraceInv
<1>3. Held' /\ Good(ranges')
  BY <1>1, <1>2, FreedHeld
<1>4. ReadBack(opnum)'
  BY <1>1 DEF JudgeInv, Judging, ReadBack
<1> QED
  BY <1>1, <1>2, <1>3, <1>4 DEF Judging, Tracked

\* The list is empty when nothing is left, and only then.
LEMMA ExitValidStep ==
  ASSUME JudgeInv, ExitValid
  PROVE  Good(ranges') /\ Judging'
<1>1. /\ pc = "valid" /\ ranges' = ranges /\ trace' = trace /\ opnum = Len(trace)
      /\ fault' = (IF fault = "none" THEN IF inUse = {} THEN "none" ELSE "leak" ELSE fault)
  BY DEF ExitValid, Blame, run
<1>2. Good(ranges) /\ Held /\ fault = "none" /\ verdict = TRUE
  BY <1>1 DEF JudgeInv, Judging, Tracked
<1>6. ReadBack(Len(trace))'
  BY <1>1 DEF JudgeInv, Judging, ReadBack
<1>3. ranges = <<>> <=> inUse = {}
  <2>1. ranges = <<>> <=> Entries(ranges) = {}
    BY <1>2, EmptyEntries DEF Good
  <2> QED
    BY <2>1, <1>2 DEF Held
<1>4. CASE ranges = <<>> /\ pc' = "judged" /\ UNCHANGED <<verdict, errors>>
  BY <1>1, <1>2, <1>3, <1>4, <1>6 DEF Judging
<1>5. CASE ranges # <<>> /\ Reject
  BY <1>1, <1>2, <1>3, <1>5 DEF Judging, Reject
<1> QED
  BY <1>4, <1>5 DEF ExitValid

LEMMA EmptyGood == Good(<<>>)
<1>1. <<>> \in Seq(Extent) /\ Len(<<>>) = 0
  OBVIOUS
<1> QED
  BY <1>1 DEF Good

LEMMA StartValidStep ==
  ASSUME JudgeInv, StartValid
  PROVE  Good(ranges') /\ Judging'
<1>1. /\ pc = "evaluate" /\ ranges' = <<>>
      /\ UNCHANGED <<trace, opnum, block, inUse>>
  BY DEF StartValid, ClearRanges, Clear
<1>2. Good(ranges')
  BY <1>1, EmptyGood
<1>3. opnum = 0 /\ inUse = {} /\ fault = "none" /\ verdict = TRUE
  BY <1>1 DEF JudgeInv, TraceInv, Blank
<1>4. Tracked'
  <2>1. Entries(ranges') = {} /\ StartsDiffer(ranges')
    BY <1>1 DEF Entries, StartsDiffer
  <2>2. Held'
    BY <2>1, <1>1, <1>3 DEF Held
  <2>3. InUseAfter(trace', opnum') = {}
    BY <1>1, <1>3 DEF InUseAfter
  <2> QED
    BY <2>2, <2>3, <1>1, <1>3 DEF Tracked
<1>7. ReadBack(opnum)'
  BY <1>1, <1>3 DEF ReadBack
<1>5. CASE pc' = "valid" /\ UNCHANGED <<verdict, fault>>
  BY <1>2, <1>3, <1>4, <1>5, <1>7 DEF Judging
<1>6. CASE fault' = "init" /\ Reject
  BY <1>2, <1>6 DEF Judging, Reject
<1> QED
  BY <1>5, <1>6 DEF StartValid

-----------------------------------------------------------------------------
(* The steps of main.                                                      *)

LEMMA WipeTrace ==
  ASSUME Wipe
  PROVE  TraceInv'
<1>1. <<>> \in Seq(Op) /\ Len(<<>>) = 0 /\ DOMAIN <<>> = {}
  OBVIOUS
<1>2. trace' = <<>> /\ WellFormed(trace')
  BY <1>1 DEF Wipe, WellFormed
<1>3. block' \in [Ids -> [p : Nat, n : Nat]]
  BY DEF Wipe, Rewind, Unset
<1>4. Blank' /\ HeapLo \in Nat
  BY RangeListAssumption DEF Wipe, Rewind, Blank
<1> QED
  BY <1>1, <1>2, <1>3, <1>4, RangeListAssumption DEF TraceInv, Wipe, Rewind

\* What the steps of eval_mm_util have in common.
LEMMA UtilFacts ==
  ASSUME Util
  PROVE  /\ pc' \in {"util", "speed", "exit"}
         /\ (pc = "judged" /\ verdict) \/ pc = "util"
         /\ UNCHANGED <<args, opt, trace, verdict, fault, tally, errors, ranges, timingvars>>
<1> USE DEF judgment, run, sums
<1>1. CASE StartUtil
  BY <1>1 DEF StartUtil
<1>2. ASSUME NEW p \in Results, NEW b \in Breaks, UtilPlace(p, b)
      PROVE  /\ pc = "util" /\ pc' = pc
             /\ UNCHANGED <<args, opt, trace, verdict, fault, tally, errors, ranges, timingvars>>
  BY <1>2 DEF UtilPlace, Count
<1>3. ASSUME NEW b \in Breaks, UtilFree(b)
      PROVE  /\ pc = "util" /\ pc' = pc
             /\ UNCHANGED <<args, opt, trace, verdict, fault, tally, errors, ranges, timingvars>>
  BY <1>3 DEF UtilFree, Count
<1>4. CASE UtilExit
  BY <1>4 DEF UtilExit
<1>5. CASE UtilEnd
  BY <1>5 DEF UtilEnd
<1> QED
  BY <1>1, <1>2, <1>3, <1>4, <1>5 DEF Util

LEMMA UtilTrace ==
  ASSUME TraceInv, Util
  PROVE  TraceInv'
<1>0. \A b \in Breaks : b \in Nat
  BY JudgeAssumption, RangeListAssumption
<1>1. /\ pc' \in {"util", "speed", "exit"} /\ trace' = trace /\ verdict' = verdict
      /\ trace \in Seq(Op) /\ Len(trace) \in Nat
  BY UtilFacts, LenProperties DEF TraceInv
<1> DEFINE Typed == /\ opnum \in 0 .. Len(trace) /\ block \in [Ids -> [p : Nat, n : Nat]]
                    /\ inUse \subseteq Ids /\ brk \in Nat
<1>2. ASSUME StartUtil PROVE Typed'
  BY <1>0, <1>1, <1>2, RangeListAssumption DEF StartUtil, Rewind, Unset
<1>3. ASSUME NEW p \in Results, NEW b \in Breaks, UtilPlace(p, b) PROVE Typed'
  <2>1. opnum < Len(trace) /\ opnum' = opnum + 1 /\ brk' = b
    BY <1>3 DEF UtilPlace, Count
  <2>2. trace[opnum + 1] \in Op
    BY <2>1, <1>1, RequestFacts, ElementOfSeq DEF TraceInv
  <2>3. trace[opnum + 1].i \in Ids /\ trace[opnum + 1].n \in Nat /\ p \in Nat
    BY <2>2, OpTypes, JudgeAssumption
  <2>4. block' \in [Ids -> [p : Nat, n : Nat]] /\ inUse' \subseteq Ids
    BY <1>3, <2>3 DEF UtilPlace, TraceInv
  <2>5. opnum' \in 0 .. Len(trace')
    BY <1>1, <2>1 DEF TraceInv
  <2> QED
    BY <1>0, <2>1, <2>4, <2>5
<1>4. ASSUME NEW b \in Breaks, UtilFree(b) PROVE Typed'
  <2>1. opnum < Len(trace) /\ opnum' = opnum + 1 /\ brk' = b
    BY <1>4 DEF UtilFree, Count
  <2>2. opnum' \in 0 .. Len(trace')
    BY <1>1, <2>1 DEF TraceInv
  <2> QED
    BY <1>0, <1>4, <2>1, <2>2 DEF UtilFree, TraceInv
<1>5. ASSUME UtilExit PROVE Typed'
  BY <1>5 DEF UtilExit, run, TraceInv
<1>6. ASSUME UtilEnd PROVE Typed'
  BY <1>6 DEF UtilEnd, run, TraceInv
<1> HIDE DEF Typed
<1>7. Typed'
  BY <1>2, <1>3, <1>4, <1>5, <1>6 DEF Util
<1> QED
  BY <1>1, <1>7 DEF TraceInv, Typed

\* All that is kept of a trace is as it should be.
LEMMA TraceStep ==
  ASSUME JudgeInv, [JNext]_jvars
  PROVE  TraceInv'
<1> USE DEF JudgeInv
<1>0. \A b \in Breaks : b \in Nat
  BY JudgeAssumption, RangeListAssumption
<1>1. CASE UNCHANGED jvars
  BY <1>1 DEF TraceInv, jvars, run, judgment, sums, Blank
<1>2. CASE Start
  BY <1>2 DEF Start, TraceInv, run, judgment, sums, Blank
<1>3. CASE ReadTrace
  <2>1. ASSUME NEW ops \in Requests PROVE ops \in Seq(Op) /\ WellFormed(ops)
    <3>1. PICK m \in 0 .. MaxOps : ops \in [1 .. m -> Op]
      BY DEF Requests, BoundedSeq, SeqOf
    <3> QED
      BY <3>1 DEF Requests
  <2>2. trace' \in Seq(Op) /\ WellFormed(trace')
    BY <1>3, <2>1 DEF ReadTrace, TraceInv
  <2>3. pc = "read" /\ Blank /\ UNCHANGED <<opnum, block, inUse, brk, judgment, sums>>
    BY <1>3 DEF ReadTrace, TraceInv
  <2>4. Blank'
    BY <2>3 DEF Blank, judgment, sums
  <2>5. opnum' \in 0 .. Len(trace')
    BY <2>2, <2>3, LenProperties DEF Blank
  <2> QED
    BY <2>2, <2>3, <2>4, <2>5 DEF TraceInv, judgment
<1>4. CASE StartValid
  BY <1>4, <1>0, RangeListAssumption DEF StartValid, Reject, TraceInv
<1>5. ASSUME NEW p \in Results, NEW b \in Breaks, NEW kept \in BOOLEAN, Place(p, b, kept)
      PROVE  TraceInv'
  <2> DEFINE op == trace[opnum + 1]
  <2>1. /\ pc = "valid" /\ opnum < Len(trace) /\ brk' = b /\ trace' = trace
        /\ \/ /\ Accepts(Unclaimed(op.i), p, op.n, HeapLo, b - 1) /\ op.n # 0
              /\ opnum' = opnum + 1
              /\ block' = [block EXCEPT ![op.i] = [p |-> p, n |-> op.n]]
              /\ inUse' = inUse \cup {op.i}
              /\ UNCHANGED <<pc, verdict>>
           \/ UNCHANGED <<opnum, block, inUse>> /\ verdict' = FALSE /\ pc' = "judged"
           \/ UNCHANGED <<opnum, block, inUse, verdict>> /\ pc' = "exit"
    BY <1>5 DEF Place, Outcome, Reject
  <2>2. /\ opnum + 1 \in 0 .. Len(trace) /\ op.i \in Ids
        /\ op.n # 0 => op.n \in Nat
    <3>1. opnum + 1 \in 1 .. Len(trace) /\ op.i \in Ids /\ (op.n # 0 => op.n \in Lengths)
      BY <2>1, RequestFacts
    <3>2. Len(trace) \in Nat /\ opnum \in Nat
      BY LenProperties DEF TraceInv
    <3> HIDE DEF op
    <3>3. opnum + 1 \in 0 .. Len(trace)
      BY <3>1, <3>2
    <3>4. \A n \in Lengths : n \in Nat
      BY RangeListAssumption
    <3> QED
      BY <3>1, <3>3, <3>4
  <2>3. p \in Nat /\ b \in Nat
    BY <1>0, JudgeAssumption
  <2> HIDE DEF op
  <2>4. block' \in [Ids -> [p : Nat, n : Nat]]
    BY <2>1, <2>2, <2>3 DEF TraceInv
  <2>5. inUse' \subseteq Ids /\ opnum' \in 0 .. Len(trace')
    BY <2>1, <2>2 DEF TraceInv
  <2>6. pc' \in {"valid", "judged", "exit"} /\ verdict' \in BOOLEAN
    BY <2>1 DEF TraceInv
  <2> QED
    BY <2>1, <2>3, <2>4, <2>5, <2>6 DEF TraceInv
<1>6. ASSUME NEW b \in Breaks, Release(b) PROVE TraceInv'
  <2>1. opnum' \in 0 .. Len(trace')
    BY <1>6, RequestFacts, LenProperties DEF Release, TraceInv
  <2> QED
    BY <2>1, <1>0, <1>6 DEF Release, Freed, TraceInv, judgment
<1>7. ASSUME NEW i \in Ids, ExitFree(i) PROVE TraceInv'
  BY <1>7 DEF ExitFree, Freed, TraceInv, judgment
<1>8. CASE ExitValid
  BY <1>8 DEF ExitValid, Reject, TraceInv, run
<1>9. CASE Invalid
  BY <1>9, WipeTrace DEF Invalid, Advance
<1>10. CASE Util
  BY <1>10, UtilTrace
<1>11. CASE LibcValid
  BY <1>11 DEF LibcValid, TraceInv, run, judgment
<1>12. CASE StartSpeed
  BY <1>12, WipeTrace DEF StartSpeed
<1>13. CASE Speed
  BY <1>13 DEF Speed, TraceInv, run, judgment
<1>14. CASE Timed
  BY <1>14, WipeTrace DEF Timed, Advance
<1> QED
  BY <1>1, <1>2, <1>3, <1>4, <1>5, <1>6, <1>7, <1>8, <1>9, <1>10, <1>11, <1>12, <1>13,
     <1>14 DEF JNext

LEMMA JudgingStep ==
  ASSUME JudgeInv, [JNext]_jvars
  PROVE  Good(ranges') /\ Judging'
<1>0. Good(ranges)
  BY DEF JudgeInv
<1>1. CASE UNCHANGED jvars
  BY <1>1 DEF JudgeInv, Judging, ReadBack, Tracked, Held, jvars, run, judgment
<1>2. ASSUME UNCHANGED ranges, pc' \notin {"valid", "judged"}
      PROVE  Good(ranges') /\ Judging'
  BY <1>0, <1>2 DEF Judging
<1>3. CASE Start
  BY <1>2, <1>3 DEF Start
<1>4. CASE ReadTrace
  BY <1>2, <1>4 DEF ReadTrace
<1>5. ASSUME NEW p \in Results, NEW b \in Breaks, NEW kept \in BOOLEAN, Place(p, b, kept)
      PROVE  Good(ranges') /\ Judging'
  BY <1>5, PlaceStep
<1>6. ASSUME NEW i \in Ids, ExitFree(i) PROVE Good(ranges') /\ Judging'
  BY <1>6, ExitFreeStep
<1>7. CASE Invalid
  BY <1>2, <1>7 DEF Invalid, Advance
<1>8. CASE Util
  BY <1>2, <1>8, UtilFacts
<1>9. CASE LibcValid
  BY <1>2, <1>9 DEF LibcValid
<1>10. CASE StartSpeed
  BY <1>2, <1>10 DEF StartSpeed
<1>11. CASE Speed
  BY <1>2, <1>11 DEF Speed
<1>12. CASE Timed
  BY <1>2, <1>12 DEF Timed, Advance
<1> QED
  BY <1>1, <1>3, <1>4, <1>5, <1>6, <1>7, <1>8, <1>9, <1>10, <1>11, <1>12,
     StartValidStep, ReleaseStep, ExitValidStep DEF JNext

-----------------------------------------------------------------------------
(* The count of errors.                                                    *)

LEMMA FailedFacts ==
  ASSUME NEW vs \in Seq(BOOLEAN)
  PROVE  /\ IsFiniteSet(Failed(vs)) /\ Cardinality(Failed(vs)) \in Nat
         /\ Cardinality(Failed(Append(vs, TRUE))) = Cardinality(Failed(vs))
         /\ Cardinality(Failed(Append(vs, FALSE))) = Cardinality(Failed(vs)) + 1
         /\ \A v \in BOOLEAN : Append(vs, v) \in Seq(BOOLEAN)
                               /\ Len(Append(vs, v)) = Len(vs) + 1
<1>1. Len(vs) \in Nat /\ DOMAIN vs = 1 .. Len(vs)
  BY LenProperties
<1>2. IsFiniteSet(Failed(vs))
  <2>1. IsFiniteSet(1 .. Len(vs))
    BY <1>1, FS_Interval
  <2> QED
    BY <2>1, <1>1, FS_Subset DEF Failed
<1>3. ASSUME NEW v \in BOOLEAN
      PROVE  /\ Append(vs, v) \in Seq(BOOLEAN) /\ Len(Append(vs, v)) = Len(vs) + 1
             /\ DOMAIN Append(vs, v) = 1 .. Len(vs) + 1
             /\ Append(vs, v)[Len(vs) + 1] = v
             /\ \A i \in 1 .. Len(vs) : Append(vs, v)[i] = vs[i]
  BY <1>1, LenProperties
<1>4. Failed(Append(vs, TRUE)) = Failed(vs)
  BY <1>1, <1>3 DEF Failed
<1>5. Failed(Append(vs, FALSE)) = Failed(vs) \cup {Len(vs) + 1} /\ Len(vs) + 1 \notin Failed(vs)
  BY <1>1, <1>3 DEF Failed
<1> QED
  BY <1>2, <1>3, <1>4, <1>5, FS_AddElement, FS_CardinalityType

LEMMA NoneFailed == <<>> \in Seq(BOOLEAN) /\ Len(<<>>) = 0 /\ Cardinality(Failed(<<>>)) = 0
<1>1. <<>> \in Seq(BOOLEAN) /\ Len(<<>>) = 0 /\ DOMAIN <<>> = {}
  OBVIOUS
<1>2. Failed(<<>>) = {}
  BY <1>1 DEF Failed
<1> QED
  BY <1>1, <1>2, FS_EmptySet

LEMMA SomeFile == NumFiles \in Nat \ {0}
BY JudgeAssumption DEF NumFiles

\* A trace of mm is done and its verdict is noted.
LEMMA AdvanceCounted ==
  ASSUME Tally, package = "mm", pc \in {"judged", "timing"}, NEW v \in BOOLEAN,
         pc = "judged" => v = verdict, pc = "timing" => v,
         Advance(Append(valid, v))
  PROVE  Tally'
<1>1. /\ valid \in Seq(BOOLEAN) /\ Len(valid) \in Nat
      /\ errors = Cardinality(Failed(Append(valid, v)))
      /\ Append(valid, v) \in Seq(BOOLEAN) /\ Len(Append(valid, v)) = Len(valid) + 1
  <2>1. /\ valid \in Seq(BOOLEAN) /\ Len(valid) \in Nat
        /\ errors = Cardinality(Failed(valid)) + (IF pc = "judged" /\ ~verdict THEN 1 ELSE 0)
        /\ Cardinality(Failed(valid)) \in Nat
        /\ Append(valid, v) \in Seq(BOOLEAN) /\ Len(Append(valid, v)) = Len(valid) + 1
    BY FailedFacts, LenProperties DEF Tally
  <2>2. CASE v = TRUE
    <3>0. ~(pc = "judged" /\ ~verdict)
      BY <2>2, Zenon
    <3>1. errors = Cardinality(Failed(valid))
      BY <2>1, <3>0
    <3> QED
      BY <2>1, <2>2, <3>1, FailedFacts
  <2>3. CASE v = FALSE
    <3>1. errors = Cardinality(Failed(valid)) + 1
      BY <2>1, <2>3
    <3> QED
      BY <2>1, <2>3, <3>1, FailedFacts
  <2> QED
    BY <2>2, <2>3
<1>2. Len(valid) = tracenum /\ tracenum < NumFiles
  BY DEF Tally
<1>3. /\ valid' = Append(valid, v) /\ errors' = errors /\ NumFiles' = NumFiles
      /\ package' = "mm" /\ verdict' = TRUE
  BY DEF Advance, NumFiles, Wipe
<1>4. \/ pc' = "read" /\ tracenum' = tracenum + 1 /\ tracenum + 1 < NumFiles
      \/ pc' = "end" /\ ~(tracenum + 1 < NumFiles)
  BY DEF Advance
<1>5. errors' \in Nat
  BY <1>3 DEF Tally
<1>6. IF pc' = "end" THEN Len(valid') = NumFiles'
      ELSE Len(valid') = tracenum' /\ tracenum' < NumFiles'
  BY <1>1, <1>2, <1>3, <1>4, SomeFile
<1> QED
  BY <1>1, <1>3, <1>4, <1>5, <1>6 DEF Tally

\* libc's traces are not counted.
LEMMA AdvanceUncounted ==
  ASSUME Tally, package = "libc", pc = "timing", Advance(valid)
  PROVE  Tally'
<1>1. valid = <<>> /\ errors = 0
  BY DEF Tally
<1>2. /\ valid' = <<>> /\ errors' = 0 /\ verdict' = TRUE /\ pc' = "read"
      /\ \/ package' = "libc"
         \/ package' = "mm" /\ tracenum' = 0
  BY <1>1 DEF Advance, Wipe
<1>3. NumFiles' \in Nat \ {0}
  BY SomeFile DEF Advance, NumFiles
<1> QED
  BY <1>2, <1>3, NoneFailed DEF Tally

\* An error is counted where a trace is judged.
LEMMA RejectCounted ==
  ASSUME Tally, pc \in {"evaluate", "valid"}, package = "mm", Reject,
         UNCHANGED <<opt, tally>>
  PROVE  Tally'
<1>1. /\ errors = Cardinality(Failed(valid)) /\ errors \in Nat
      /\ Len(valid) = tracenum /\ tracenum < NumFiles /\ valid \in Seq(BOOLEAN)
  <2>1. Cardinality(Failed(valid)) \in Nat
    BY FailedFacts DEF Tally
  <2> QED
    BY <2>1 DEF Tally
<1>2. /\ errors' = errors + 1 /\ ~verdict' /\ pc' = "judged"
      /\ valid' = valid /\ tracenum' = tracenum /\ package' = package
      /\ NumFiles' = NumFiles
  BY DEF Reject, tally, NumFiles
<1> QED
  BY <1>1, <1>2 DEF Tally

\* Elsewhere neither the count nor what it is compared with changes.
LEMMA Uncounted ==
  ASSUME Tally, UNCHANGED <<opt, tally, errors>>,
         pc' \notin {"options", "judged", "end"} \/ (pc' = pc /\ verdict' = verdict),
         pc' = "valid" => package = "mm",
         pc = "judged" => pc' = "judged" \/ verdict,
         pc \notin {"end", "exit"} \/ pc' = pc
  PROVE  Tally'
<1>1. /\ valid' = valid /\ tracenum' = tracenum /\ package' = package
      /\ errors' = errors /\ NumFiles' = NumFiles
  BY DEF tally, NumFiles
<1> QED
  BY <1>1 DEF Tally

LEMMA TallyStep ==
  ASSUME JudgeInv, [JNext]_jvars
  PROVE  Tally'
<1>0. Tally
  BY DEF JudgeInv
<1>1. CASE UNCHANGED jvars
  <2>1. /\ UNCHANGED <<opt, tally, errors>> /\ pc' = pc /\ verdict' = verdict
        /\ pc = "valid" => package = "mm"
    BY <1>0, <1>1 DEF jvars, judgment, Tally
  <2> QED
    BY <1>0, <2>1, Uncounted
<1>2. CASE Start
  <2>1. /\ package = "libc" /\ tracenum = 0 /\ valid = <<>> /\ errors = 0
    BY <1>0, <1>2 DEF Start, Tally
  <2>2. /\ tracenum' = 0 /\ valid' = <<>> /\ errors' = 0 /\ package' \in {"libc", "mm"}
        /\ pc' \in {"read", "exit"}
    BY <2>1, <1>2 DEF Start
  <2>3. NumFiles' \in Nat \ {0}
    BY JudgeAssumption DEF NumFiles
  <2> QED
    BY <2>2, <2>3, NoneFailed DEF Tally
<1>3. CASE ReadTrace
  BY <1>0, <1>3, Uncounted DEF ReadTrace, tally
<1>4. CASE StartValid
  <2>1. CASE pc' = "valid" /\ UNCHANGED <<verdict, fault, errors>>
    BY <1>0, <1>4, <2>1, Uncounted DEF StartValid, tally
  <2>2. CASE Reject
    BY <1>0, <1>4, <2>2, RejectCounted DEF StartValid
  <2> QED
    BY <1>4, <2>1, <2>2 DEF StartValid
<1>5. ASSUME NEW p \in Results, NEW b \in Breaks, NEW kept \in BOOLEAN, Place(p, b, kept)
      PROVE  Tally'
  <2>1. /\ pc = "valid" /\ UNCHANGED <<opt, tally>>
        /\ \/ UNCHANGED <<pc, errors, verdict>>
           \/ Reject
           \/ pc' = "exit" /\ UNCHANGED <<errors, verdict>>
    BY <1>5 DEF Place
  <2>2. package = "mm"
    BY <1>0, <2>1 DEF Tally
  <2>3. CASE Reject
    BY <1>0, <2>1, <2>2, <2>3, RejectCounted
  <2>4. CASE UNCHANGED errors /\ pc' \in {"valid", "exit"} /\ UNCHANGED verdict
    BY <1>0, <2>1, <2>2, <2>4, Uncounted
  <2> QED
    BY <2>1, <2>3, <2>4
<1>6. ASSUME NEW b \in Breaks, Release(b) PROVE Tally'
  BY <1>0, <1>6, Uncounted DEF Release, tally, judgment, Tally
<1>7. ASSUME NEW i \in Ids, ExitFree(i) PROVE Tally'
  BY <1>0, <1>7, Uncounted DEF ExitFree, tally, judgment, Tally
<1>8. CASE ExitValid
  <2>1. pc = "valid" /\ package = "mm" /\ UNCHANGED <<opt, tally>>
    BY <1>0, <1>8 DEF ExitValid, Tally
  <2>2. CASE pc' = "judged" /\ UNCHANGED <<verdict, errors>>
    <3>1. verdict = TRUE
      BY <2>1 DEF JudgeInv, Judging
    <3> QED
      BY <1>0, <2>1, <2>2, <3>1 DEF Tally, tally, NumFiles
  <2>3. CASE Reject
    BY <1>0, <2>1, <2>3, RejectCounted
  <2> QED
    BY <1>8, <2>2, <2>3 DEF ExitValid
<1>9. CASE Invalid
  <2>1. pc = "judged" /\ package = "mm" /\ verdict = FALSE
    BY <1>0, <1>9 DEF Invalid, Tally, JudgeInv, TraceInv
  <2> QED
    BY <1>0, <1>9, <2>1, AdvanceCounted DEF Invalid
<1>10. CASE Util
  BY <1>0, <1>10, UtilFacts, Uncounted
<1>11. CASE LibcValid
  <2>1. CASE pc' = "speed" /\ UNCHANGED errors
    BY <1>0, <1>11, <2>1, Uncounted DEF LibcValid, tally, judgment
  <2>2. CASE pc' = "exit" /\ errors' = errors + 1
    BY <1>0, <1>11, <2>2 DEF LibcValid, tally, Tally
  <2> QED
    BY <1>11, <2>1, <2>2 DEF LibcValid
<1>12. CASE StartSpeed
  BY <1>0, <1>12, Uncounted DEF StartSpeed
<1>13. CASE Speed
  BY <1>0, <1>13, Uncounted DEF Speed, judgment
<1>14. CASE Timed
  <2>1. CASE package = "mm"
    BY <1>0, <1>14, <2>1, AdvanceCounted DEF Timed
  <2>2. CASE package = "libc"
    BY <1>0, <1>14, <2>2, AdvanceUncounted DEF Timed
  <2> QED
    BY <1>0, <2>1, <2>2 DEF Tally
<1> QED
  BY <1>1, <1>2, <1>3, <1>4, <1>5, <1>6, <1>7, <1>8, <1>9, <1>10, <1>11, <1>12, <1>13,
     <1>14 DEF JNext

LEMMA JudgeInit == JInit => JudgeInv
<1> SUFFICES ASSUME JInit PROVE JudgeInv
  OBVIOUS
<1>1. <<>> \in Seq(Op) /\ Len(<<>>) = 0 /\ DOMAIN <<>> = {}
  OBVIOUS
<1>2. TraceInv
  BY <1>1, RangeListAssumption DEF JInit, TraceInv, Blank, WellFormed, Unset
<1>3. Good(ranges) /\ Judging
  BY EmptyGood DEF JInit, Init, Judging
<1>4. Tally
  BY NoneFailed DEF JInit, Tally
<1> QED
  BY <1>2, <1>3, <1>4 DEF JudgeInv

LEMMA JudgeInvariant == JSpec => []JudgeInv
<1>1. JudgeInv /\ [JNext]_jvars => JudgeInv'
  BY TraceStep, JudgingStep, TallyStep DEF JudgeInv
<1> QED
  BY <1>1, JudgeInit, PTL DEF JSpec

\* The driver fails a trace exactly if the allocator did something wrong in it
\* but putting a payload around another, or the trace reallocates an index that
\* a signed char does not read back, and counts each trace it failed once
\* (eval_mm_valid and main of mdriver.c).
THEOREM JudgesJustly == JSpec => []VerdictIsJust
<1>1. JudgeInv => VerdictIsJust
  <2> SUFFICES ASSUME JudgeInv PROVE VerdictIsJust
    OBVIOUS
  <2>1. pc = "judged" => (verdict <=> fault = "none" /\ ReadBack(Len(trace)))
    BY DEF JudgeInv, Judging
  <2>3. ReadBack(Len(trace)) <=>
          \A k \in DOMAIN trace : trace[k].type = "r" => Readable(trace[k].i)
    BY LenProperties DEF JudgeInv, TraceInv, ReadBack
  <2>2. ASSUME pc = "end"
        PROVE  Len(valid) = NumFiles /\ errors = Cardinality(Failed(valid))
    <3>1. package = "mm" /\ Cardinality(Failed(valid)) \in Nat
      BY <2>2, FailedFacts DEF JudgeInv, Tally
    <3> QED
      BY <2>2, <3>1 DEF JudgeInv, Tally
  <2> QED
    BY <2>1, <2>2, <2>3 DEF VerdictIsJust, Failed
<1> QED
  BY <1>1, JudgeInvariant, PTL

\* The same of the range list in the whole driver.
THEOREM OverlapsMissedByDriver == JSpec => []OnlyEnclosedMissed
<1>1. JudgeInv => OnlyEnclosedMissed
  BY GoodMissesEnclosing DEF JudgeInv
<1> QED
  BY <1>1, JudgeInvariant, PTL

-----------------------------------------------------------------------------
(* Utilization.                                                            *)

LEMMA LargerOf ==
  ASSUME NEW a \in Int, NEW b \in Int
  PROVE  Max({a, b}) = IF a >= b THEN a ELSE b
<1>1. CASE a >= b
  <2>1. /\ a \in {a, b} /\ \A y \in {a, b} : a >= y
        /\ \A x \in {a, b} : (\A y \in {a, b} : x >= y) => x = a
    BY <1>1
  <2> QED
    BY <1>1, <2>1 DEF Max
<1>2. CASE ~(a >= b)
  <2>1. /\ b \in {a, b} /\ \A y \in {a, b} : b >= y
        /\ \A x \in {a, b} : (\A y \in {a, b} : x >= y) => x = b
    BY <1>2
  <2> QED
    BY <1>2, <2>1 DEF Max
<1> QED
  BY <1>1, <1>2

LEMMA InUseFinite ==
  ASSUME NEW ops, NEW m \in Nat
  PROVE  IsFiniteSet(InUseAfter(ops, m))
<1> DEFINE I == 1 .. m
           R == {ops[k].i : k \in I}
           b == [k \in I |-> ops[k].i]
<1>1. IsFiniteSet(I)
  BY FS_Interval
<1>2. b \in Surjection(I, R)
  BY DEF Surjection
<1>3. InUseAfter(ops, m) \in SUBSET R
  BY DEF InUseAfter
<1> HIDE DEF I, R, b
<1>4. IsFiniteSet(R)
  BY <1>1, <1>2, FS_Surjection
<1> QED
  BY <1>3, <1>4, FS_Subset

\* The payloads in use do not overlap, and end where the heap ends at the latest.
Separate ==
  \A j, k \in inUse :
    j # k => ~Overlap(Payload(block[j].p, block[j].n), Payload(block[k].p, block[k].n))
Inside == \A j \in inUse : HeapLo <= block[j].p /\ block[j].p + block[j].n <= brk

Sizes == [j \in Ids |-> block[j].n]

\* The replay counts what is in use, and has had no more than fits into the heap
\* as long as that was apart.
Utilized ==
  /\ pc = "util" =>
       /\ inUse = InUseAfter(trace, opnum)
       /\ total_size = Total(Sizes, inUse)
       /\ total_size \in Int /\ max_total_size \in Int /\ HeapLo <= brk
       /\ apart => Inside /\ Separate /\ max_total_size <= brk - HeapLo
  /\ UtilizationInRange

LEMMA SeparateFit ==
  ASSUME NEW L, IsFiniteSet(L), NEW bs, NEW e \in Int, HeapLo <= e,
         \A j \in L : /\ bs[j].p \in Nat /\ bs[j].n \in Nat
                      /\ HeapLo <= bs[j].p /\ bs[j].p + bs[j].n <= e,
         \A j, k \in L : j # k => ~Overlap(Payload(bs[j].p, bs[j].n), Payload(bs[k].p, bs[k].n)),
         NEW size, \A j \in L : size[j] = bs[j].n
  PROVE  Total(size, L) <= e - HeapLo
<1> DEFINE lo == [j \in L |-> bs[j].p]
<1>1. HeapLo \in Int
  BY RangeListAssumption
<1>2. \A j \in L : /\ lo[j] \in Int /\ size[j] \in Nat
                   /\ HeapLo <= lo[j] /\ lo[j] + size[j] <= e
  OBVIOUS
<1>3. ASSUME NEW j \in L, NEW k \in L, j # k
      PROVE  lo[j] + size[j] <= lo[k] \/ lo[k] + size[k] <= lo[j]
  <2>1. ~Overlap(Payload(bs[j].p, bs[j].n), Payload(bs[k].p, bs[k].n))
    BY <1>3
  <2>2. ~(bs[j].p <= bs[k].p + bs[k].n - 1 /\ bs[k].p <= bs[j].p + bs[j].n - 1)
    BY <2>1 DEF Overlap, Payload
  <2>3. bs[j].p \in Nat /\ bs[j].n \in Nat /\ bs[k].p \in Nat /\ bs[k].n \in Nat
    OBVIOUS
  <2> QED
    BY <2>2, <2>3
<1> HIDE DEF lo
<1> QED
  BY <1>1, <1>2, <1>3, DisjointFit

\* total_size follows what is in use.
LEMMA Recounted ==
  ASSUME NEW L \in SUBSET Ids, IsFiniteSet(L), NEW f \in [Ids -> Nat], NEW i \in Ids
  PROVE  /\ Total(f, L) \in Int
         /\ i \in L => Total(f, L \ {i}) = Total(f, L) - f[i]
         /\ \A h \in [Ids -> Nat] :
              (\A j \in Ids \ {i} : h[j] = f[j]) =>
                Total(h, L \cup {i}) = Total(f, L \ {i}) + h[i]
<1>1. /\ IsFiniteSet(L \ {i}) /\ IsFiniteSet(L \cup {i})
      /\ (L \cup {i}) \ {i} = L \ {i} /\ i \in L \cup {i} /\ L \cup {i} \in SUBSET Ids
  BY FS_Subset, FS_AddElement
<1>2. \A x \in Ids : f[x] \in Int
  OBVIOUS
<1>3. Total(f, L) \in Int /\ Total(f, L \ {i}) \in Int
  BY <1>1, <1>2, TotalIs
<1>4. ASSUME i \in L PROVE Total(f, L \ {i}) = Total(f, L) - f[i]
  <2>1. Total(f, L) = f[i] + Total(f, L \ {i})
    BY <1>2, <1>4, TotalWithout
  <2> QED
    BY <1>2, <1>3, <2>1
<1>5. ASSUME NEW h \in [Ids -> Nat], \A j \in Ids \ {i} : h[j] = f[j]
      PROVE  Total(h, L \cup {i}) = Total(f, L \ {i}) + h[i]
  <2>1. \A x \in Ids : h[x] \in Int
    OBVIOUS
  <2>2. Total(h, L \cup {i}) = h[i] + Total(h, L \ {i})
    BY <1>1, <2>1, TotalWithout
  <2>3. Total(f, L \ {i}) = Total(h, L \ {i})
    <3>1. \A x \in L \ {i} : f[x] \in Int /\ f[x] = h[x]
      BY <1>2, <1>5
    <3> QED
      BY <1>1, <3>1, TotalSame
  <2> QED
    BY <1>3, <2>1, <2>2, <2>3
<1> QED
  BY <1>3, <1>4, <1>5

\* Payloads that are apart have no more than the heap holds.
LEMMA CountFits ==
  ASSUME TraceInv', Inside', Separate', IsFiniteSet(inUse'),
         total_size' = Total(Sizes', inUse'), HeapLo <= brk'
  PROVE  total_size' <= brk' - HeapLo
<1>1. /\ block' \in [Ids -> [p : Nat, n : Nat]] /\ inUse' \subseteq Ids /\ brk' \in Int
  BY DEF TraceInv
<1>2. \A j \in inUse' : /\ block'[j].p \in Nat /\ block'[j].n \in Nat
                        /\ HeapLo <= block'[j].p /\ block'[j].p + block'[j].n <= brk'
  BY <1>1 DEF Inside
<1>3. \A j, k \in inUse' :
        j # k => ~Overlap(Payload(block'[j].p, block'[j].n), Payload(block'[k].p, block'[k].n))
  BY DEF Separate
<1>4. \A j \in inUse' : Sizes'[j] = block'[j].n
  BY <1>1 DEF Sizes
<1>5. Total(Sizes', inUse') <= brk' - HeapLo
  <2> HIDE DEF Sizes
  <2> QED
    BY <1>1, <1>2, <1>3, <1>4, SeparateFit
<1> QED
  BY <1>5

\* The next request of a replay.
LEMMA ReplayFacts ==
  ASSUME TraceInv, Utilized, pc = "util", opnum < Len(trace), NEW op, op = trace[opnum + 1]
  PROVE  /\ op \in Op /\ op.i \in Ids /\ op.n \in Nat
         /\ op.type = "a" <=> op.i \notin inUse
         /\ InUseAfter(trace, opnum + 1) =
              IF op.type = "f" THEN inUse \ {op.i} ELSE inUse \cup {op.i}
         /\ IsFiniteSet(inUse) /\ inUse \subseteq Ids
         /\ Sizes \in [Ids -> Nat] /\ \A j \in Ids : Sizes[j] = block[j].n
         /\ HeapLo \in Int /\ brk \in Nat
<1>1. /\ opnum \in 0 .. Len(trace) - 1 /\ opnum + 1 \in 1 .. Len(trace) /\ opnum \in Nat
      /\ trace \in Seq(Op) /\ inUse = InUseAfter(trace, opnum)
  BY RequestFacts, LenProperties DEF TraceInv, Utilized
<1>2. op \in Op /\ op.i \in Ids /\ op.n \in Nat
  BY <1>1, ElementOfSeq, OpTypes
<1>3. op.type = "a" <=> op.i \notin inUse
  BY <1>1, RequestFacts
<1>4. IsFiniteSet(inUse)
  BY <1>1, InUseFinite
<1>5. Sizes \in [Ids -> Nat] /\ \A j \in Ids : Sizes[j] = block[j].n
  BY DEF Sizes, TraceInv
<1>6. InUseAfter(trace, opnum + 1) = IF op.type = "f" THEN inUse \ {op.i}
                                     ELSE inUse \cup {op.i}
  BY <1>1, InUseStep
<1> QED
  BY <1>1, <1>2, <1>3, <1>4, <1>5, <1>6, RangeListAssumption DEF TraceInv

\* A count that is right again keeps the largest one right.
LEMMA CountedAgain ==
  ASSUME TraceInv', Utilized, pc = "util", HeapLo \in Int, brk \in Nat,
         NEW op, NEW b, Count(op, b), pc' = "util",
         inUse' = InUseAfter(trace', opnum'), IsFiniteSet(inUse'),
         total_size' = Total(Sizes', inUse'), total_size' \in Int,
         apart' => apart /\ Inside' /\ Separate'
  PROVE  Utilized'
<1>1. /\ max_total_size' = Max({max_total_size, total_size'}) /\ brk' >= brk /\ brk' \in Nat
      /\ max_total_size \in Int /\ HeapLo <= brk
  BY DEF Count, Utilized, TraceInv
<1>2. max_total_size' = IF max_total_size >= total_size' THEN max_total_size ELSE total_size'
  BY <1>1, LargerOf
<1>3. max_total_size' \in Int
  BY <1>1, <1>2
<1>4. HeapLo <= brk'
  BY <1>1
<1>5. ASSUME apart' PROVE max_total_size' <= brk' - HeapLo
  <2>1. max_total_size <= brk - HeapLo
    BY <1>5 DEF Utilized
  <2>2. total_size' <= brk' - HeapLo
    BY <1>4, <1>5, CountFits
  <2> QED
    BY <1>1, <1>2, <2>1, <2>2
<1> QED
  BY <1>3, <1>4, <1>5 DEF Utilized, UtilizationInRange

LEMMA UtilPlaceFits ==
  ASSUME TraceInv, TraceInv', Utilized, NEW p \in Results, NEW b \in Breaks, UtilPlace(p, b)
  PROVE  Utilized'
<1> DEFINE op == trace[opnum + 1]
           i  == op.i
<1>1. /\ pc = "util" /\ pc' = "util" /\ opnum < Len(trace) /\ op.type # "f"
      /\ UNCHANGED trace /\ opnum' = opnum + 1 /\ Count(op, b) /\ brk' = b /\ b >= brk
      /\ block' = [block EXCEPT ![i] = [p |-> p, n |-> op.n]]
      /\ inUse' = inUse \cup {i}
      /\ apart' = (apart /\ InHeapApart(i, p, op.n, b))
      /\ total_size' = total_size + op.n - Oldsize(op)
  BY DEF UtilPlace, Count
<1>2. /\ op \in Op /\ i \in Ids /\ op.n \in Nat /\ (op.type = "a" <=> i \notin inUse)
      /\ IsFiniteSet(inUse) /\ inUse \subseteq Ids
      /\ inUse' = InUseAfter(trace', opnum')
      /\ Sizes \in [Ids -> Nat] /\ \A j \in Ids : Sizes[j] = block[j].n
      /\ HeapLo \in Int /\ brk \in Nat /\ p \in Nat /\ b \in Nat
  <2>1. p \in Nat /\ b \in Nat
    BY JudgeAssumption, RangeListAssumption
  <2> HIDE DEF op
  <2> QED
    BY <1>1, <2>1, ReplayFacts DEF op
<1>3. Oldsize(op) = IF i \in inUse THEN Sizes[i] ELSE 0
  BY <1>2 DEF Oldsize
<1> HIDE DEF op
<1>4. /\ block \in [Ids -> [p : Nat, n : Nat]] /\ block' \in [Ids -> [p : Nat, n : Nat]]
      /\ block'[i].p = p /\ block'[i].n = op.n
      /\ \A j \in Ids \ {i} : block'[j] = block[j]
  BY <1>1, <1>2 DEF TraceInv
<1>5. /\ Sizes' \in [Ids -> Nat] /\ Sizes'[i] = op.n
      /\ \A j \in Ids \ {i} : Sizes'[j] = Sizes[j]
  BY <1>2, <1>4 DEF Sizes
<1>6. total_size' = Total(Sizes', inUse') /\ total_size' \in Int /\ IsFiniteSet(inUse')
  <2>1. /\ total_size = Total(Sizes, inUse) /\ total_size \in Int
    BY <1>1 DEF Utilized
  <2>2. /\ i \in inUse => Total(Sizes, inUse \ {i}) = Total(Sizes, inUse) - Sizes[i]
        /\ Total(Sizes', inUse \cup {i}) = Total(Sizes, inUse \ {i}) + Sizes'[i]
    <3> HIDE DEF Sizes, i
    <3> QED
      BY <1>2, <1>5, Recounted
  <2>3. i \notin inUse => inUse \ {i} = inUse
    BY Zenon
  <2>4. Sizes[i] \in Int
    BY <1>2
  <2>5. IsFiniteSet(inUse')
    BY <1>1, <1>2, FS_AddElement
  <2>6. total_size' = Total(Sizes', inUse')
    <3>1. CASE i \in inUse
      BY <1>1, <1>2, <1>3, <1>5, <2>1, <2>2, <2>4, <3>1
    <3>2. CASE i \notin inUse
      <4>1. Total(Sizes, inUse \ {i}) = total_size
        BY <2>1, <2>3, <3>2
      <4>2. total_size' = total_size + op.n
        BY <1>1, <1>2, <1>3, <2>1, <3>2
      <4> QED
        BY <1>1, <1>5, <2>2, <4>1, <4>2
    <3> QED
      BY <3>1, <3>2
  <2>7. total_size' \in Int
    BY <1>1, <1>2, <1>3, <2>1, <2>4
  <2> QED
    BY <2>5, <2>6, <2>7
<1> HIDE DEF i
<1>7. ASSUME apart' PROVE apart /\ Inside' /\ Separate'
  <2> DEFINE At(j) == Payload(block[j].p, block[j].n)
             New == Payload(p, op.n)
  <2>1. /\ apart /\ Inside /\ Separate
        /\ HeapLo <= p /\ p + op.n <= b /\ \A l \in Live(i) : ~Overlap(New, l)
    BY <1>1, <1>7 DEF InHeapApart, Utilized, i
  <2>2. ASSUME NEW j \in inUse'
        PROVE  HeapLo <= block'[j].p /\ block'[j].p + block'[j].n <= brk'
    <3>1. CASE j = i
      BY <1>1, <1>4, <2>1, <3>1
    <3>2. CASE j # i
      <4>1. j \in inUse /\ block'[j] = block[j] /\ block[j].p \in Nat /\ block[j].n \in Nat
        BY <1>1, <1>2, <1>4, <3>2 DEF i
      <4>2. HeapLo <= block[j].p /\ block[j].p + block[j].n <= brk
        BY <2>1, <4>1 DEF Inside
      <4> QED
        BY <1>1, <1>2, <4>1, <4>2
    <3> QED
      BY <3>1, <3>2
  <2>3. \A j \in inUse \ {i} : ~Overlap(New, At(j))
    BY <2>1 DEF Live
  <2>4. \A j, k \in inUse : j # k => ~Overlap(At(j), At(k))
    BY <2>1 DEF Separate
  <2>5. /\ Payload(block'[i].p, block'[i].n) = New
        /\ \A j \in inUse \ {i} : Payload(block'[j].p, block'[j].n) = At(j)
    BY <1>2, <1>4
  <2>6. \A r, s : Overlap(r, s) <=> Overlap(s, r)
    BY DEF Overlap
  <2> HIDE DEF At, New
  <2>7. ASSUME NEW j \in inUse', NEW k \in inUse', j # k
        PROVE  ~Overlap(Payload(block'[j].p, block'[j].n), Payload(block'[k].p, block'[k].n))
    <3>0. inUse' = inUse \cup {i}
      BY <1>1 DEF i
    <3>1. CASE j = i
      <4>1. k \in inUse \ {i}
        BY <2>7, <3>0, <3>1
      <4> QED
        BY <2>3, <2>5, <3>1, <4>1
    <3>2. CASE k = i
      <4>1. j \in inUse \ {i}
        BY <2>7, <3>0, <3>2
      <4> QED
        BY <2>3, <2>5, <2>6, <3>2, <4>1
    <3>3. CASE j # i /\ k # i
      <4>1. j \in inUse \ {i} /\ k \in inUse \ {i}
        BY <3>0, <3>3
      <4> QED
        BY <2>4, <2>5, <2>7, <4>1
    <3> QED
      BY <3>1, <3>2, <3>3
  <2> QED
    BY <2>1, <2>2, <2>7 DEF Inside, Separate
<1> QED
  BY <1>1, <1>2, <1>6, <1>7, CountedAgain

\* Freeing keeps payloads apart.
LEMMA UtilFreeFits ==
  ASSUME TraceInv, TraceInv', Utilized, NEW b \in Breaks, UtilFree(b)
  PROVE  Utilized'
<1> DEFINE op == trace[opnum + 1]
           i  == op.i
<1>1. /\ pc = "util" /\ pc' = "util" /\ opnum < Len(trace) /\ op.type = "f"
      /\ UNCHANGED <<trace, block, apart>> /\ opnum' = opnum + 1 /\ Count(op, b)
      /\ brk' = b /\ b >= brk /\ inUse' = inUse \ {i}
      /\ total_size' = total_size + op.n - Oldsize(op)
  BY DEF UtilFree, Count
<1>2. /\ op \in Op /\ i \in Ids /\ op.n = 0 /\ i \in inUse
      /\ IsFiniteSet(inUse) /\ inUse \subseteq Ids
      /\ inUse' = InUseAfter(trace', opnum')
      /\ Sizes \in [Ids -> Nat] /\ \A j \in Ids : Sizes[j] = block[j].n
      /\ HeapLo \in Int /\ brk \in Nat /\ b \in Nat
  <2>1. b \in Nat
    BY JudgeAssumption, RangeListAssumption
  <2>2. /\ op \in Op /\ i \in Ids /\ (op.type = "a" <=> i \notin inUse)
        /\ IsFiniteSet(inUse) /\ inUse \subseteq Ids
        /\ inUse' = InUseAfter(trace', opnum')
        /\ Sizes \in [Ids -> Nat] /\ \A j \in Ids : Sizes[j] = block[j].n
        /\ HeapLo \in Int /\ brk \in Nat
    <3> HIDE DEF op
    <3> QED
      BY <1>1, ReplayFacts DEF op
  <2> HIDE DEF op
  <2>3. op.n = 0
    BY <1>1, <2>2, OpTypes
  <2> QED
    BY <1>1, <2>1, <2>2, <2>3
<1>3. Oldsize(op) = Sizes[i] /\ Sizes[i] \in Nat
  BY <1>1, <1>2 DEF Oldsize
<1> HIDE DEF op
<1>4. Sizes' = Sizes
  BY <1>1 DEF Sizes
<1>5. total_size' = Total(Sizes', inUse') /\ total_size' \in Int /\ IsFiniteSet(inUse')
  <2>1. /\ total_size = Total(Sizes, inUse) /\ total_size \in Int
    BY <1>1 DEF Utilized
  <2>2. Total(Sizes, inUse \ {i}) = Total(Sizes, inUse) - Sizes[i]
    <3> HIDE DEF Sizes, i
    <3> QED
      BY <1>2, Recounted
  <2>3. total_size' = total_size - Sizes[i] /\ total_size' \in Int
    BY <1>1, <1>2, <1>3, <2>1
  <2>4. IsFiniteSet(inUse')
    BY <1>1, <1>2, FS_Subset
  <2> QED
    BY <1>1, <1>4, <2>1, <2>2, <2>3, <2>4
<1>6. ASSUME apart' PROVE apart /\ Inside' /\ Separate'
  <2>1. apart /\ Inside /\ Separate
    BY <1>1, <1>6 DEF Utilized
  <2>2. ASSUME NEW j \in inUse'
        PROVE  HeapLo <= block'[j].p /\ block'[j].p + block'[j].n <= brk'
    <3>1. j \in inUse /\ block[j].p \in Nat /\ block[j].n \in Nat
      BY <1>1, <1>2 DEF TraceInv
    <3> QED
      BY <1>1, <1>2, <2>1, <3>1 DEF Inside
  <2>3. Separate'
    BY <1>1, <2>1 DEF Separate
  <2> QED
    BY <2>1, <2>2, <2>3 DEF Inside
<1> QED
  BY <1>1, <1>2, <1>5, <1>6, CountedAgain

LEMMA BreakInHeap ==
  ASSUME NEW e \in Breaks
  PROVE  0 <= e - HeapLo /\ HeapLo <= e
<1>1. HeapLo \in Nat /\ HeapHi \in Nat /\ e \in HeapLo + 1 .. HeapHi + 1
  BY RangeListAssumption, JudgeAssumption
<1> QED
  BY <1>1

\* Nothing is in use when the replay begins.
LEMMA StartUtilFits ==
  ASSUME StartUtil
  PROVE  Utilized'
<1>1. CASE brk' \in Breaks /\ pc' = "util"
  <2>1. opnum' = 0 /\ inUse' = {} /\ total_size' = 0 /\ max_total_size' = 0
    BY DEF StartUtil, Rewind
  <2>2. Total(Sizes', inUse') = 0
    BY <2>1, TotalEmpty
  <2>3. InUseAfter(trace', opnum') = {}
    BY <2>1 DEF InUseAfter
  <2>4. 0 <= brk' - HeapLo /\ HeapLo <= brk'
    BY <1>1, BreakInHeap
  <2>5. Inside' /\ Separate'
    BY <2>1 DEF Inside, Separate
  <2> QED
    BY <1>1, <2>1, <2>2, <2>3, <2>4, <2>5 DEF Utilized, UtilizationInRange
<1>2. CASE pc' = "exit"
  BY <1>2 DEF Utilized, UtilizationInRange
<1> QED
  BY <1>1, <1>2 DEF StartUtil

LEMMA UtilizedStep ==
  ASSUME TraceInv, TraceInv', Utilized, [JNext]_jvars
  PROVE  Utilized'
<1>0. ASSUME pc' \notin {"util", "speed"} PROVE Utilized'
  BY <1>0 DEF Utilized, UtilizationInRange
<1>1. CASE UNCHANGED jvars
  <2>1. UNCHANGED <<pc, trace, opnum, block, inUse, brk, sums>>
    BY <1>1 DEF jvars, run
  <2>2. /\ (Inside => Inside') /\ (Separate => Separate') /\ Sizes' = Sizes
        /\ InUseAfter(trace', opnum') = InUseAfter(trace, opnum)
    BY <2>1 DEF Inside, Separate, Sizes
  <2> QED
    BY <2>1, <2>2 DEF Utilized, UtilizationInRange, sums
<1>2. CASE Util
  <2>1. ASSUME NEW p \in Results, NEW b \in Breaks, UtilPlace(p, b) PROVE Utilized'
    BY <2>1, UtilPlaceFits
  <2>2. ASSUME NEW b \in Breaks, UtilFree(b) PROVE Utilized'
    BY <2>2, UtilFreeFits
  <2>3. CASE UtilExit
    BY <1>0, <2>3 DEF UtilExit
  <2>4. CASE UtilEnd
    <3>1. /\ pc = "util" /\ pc' = "speed" /\ apart' = apart
          /\ util' = <<max_total_size, brk - HeapLo>>
      BY <2>4 DEF UtilEnd
    <3>2. util'[1] = max_total_size /\ util'[2] = brk - HeapLo
      BY <3>1
    <3> QED
      BY <3>1, <3>2 DEF Utilized, UtilizationInRange
  <2> QED
    BY <1>2, <2>1, <2>2, <2>3, <2>4, StartUtilFits DEF Util
<1>3. CASE LibcValid
  <2>1. CASE pc' = "exit"
    BY <1>0, <2>1
  <2>2. CASE pc' = "speed"
    <3>1. pc = "evaluate" /\ UNCHANGED util
      BY <1>3 DEF LibcValid, sums
    <3>2. util' = <<0, 0>>
      BY <3>1 DEF TraceInv, Blank
    <3> QED
      BY <2>2, <3>2 DEF Utilized, UtilizationInRange
  <2> QED
    BY <1>3, <2>1, <2>2 DEF LibcValid
<1>4. CASE Start
  BY <1>0, <1>4 DEF Start
<1>5. CASE ReadTrace
  BY <1>0, <1>5 DEF ReadTrace
<1>6. CASE StartValid
  BY <1>0, <1>6 DEF StartValid, Reject
<1>7. ASSUME NEW p \in Results, NEW b \in Breaks, NEW kept \in BOOLEAN, Place(p, b, kept)
      PROVE  Utilized'
  <2>1. pc' \in {"valid", "exit", "judged"}
    BY <1>7 DEF Place, Reject
  <2> QED
    BY <1>0, <2>1
<1>8. ASSUME NEW b \in Breaks, Release(b) PROVE Utilized'
  BY <1>0, <1>8 DEF Release
<1>9. ASSUME NEW i \in Ids, ExitFree(i) PROVE Utilized'
  BY <1>0, <1>9 DEF ExitFree
<1>10. CASE ExitValid
  BY <1>0, <1>10 DEF ExitValid, Reject
<1>11. CASE Invalid
  BY <1>0, <1>11 DEF Invalid, Advance
<1>12. CASE StartSpeed
  BY <1>0, <1>12 DEF StartSpeed
<1>13. CASE Speed
  BY <1>0, <1>13 DEF Speed
<1>14. CASE Timed
  BY <1>0, <1>14 DEF Timed, Advance
<1> QED
  BY <1>1, <1>2, <1>3, <1>4, <1>5, <1>6, <1>7, <1>8, <1>9, <1>10, <1>11, <1>12, <1>13,
     <1>14 DEF JNext

\* The replay that measures the utilization of a trace has it at 1 at most,
\* unless the allocator put payloads over each other or out of the heap in that
\* very replay (eval_mm_util of mdriver.c).
THEOREM UtilizationIsInRange == JSpec => []UtilizationInRange
<1>1. JInit => Utilized
  BY DEF JInit, Utilized, UtilizationInRange
<1>2. JudgeInv => TraceInv
  BY DEF JudgeInv
<1>3. TraceInv /\ TraceInv' /\ Utilized /\ [JNext]_jvars => Utilized'
  BY UtilizedStep
<1>4. Utilized => UtilizationInRange
  BY DEF Utilized
<1> QED
  BY <1>1, <1>2, <1>3, <1>4, JudgeInvariant, PTL DEF JSpec

-----------------------------------------------------------------------------
(* fcyc.c's table of samples.                                              *)

LEMMA InsertAtFacts ==
  ASSUME NEW S, NEW s \in Seq(S), NEW p \in 0 .. Len(s), NEW e \in S
  PROVE  /\ InsertAt(s, p + 1, e) \in Seq(S)
         /\ Len(InsertAt(s, p + 1, e)) = Len(s) + 1
         /\ \A k \in 1 .. Len(s) + 1 :
              InsertAt(s, p + 1, e)[k] =
                IF k <= p THEN s[k] ELSE IF k = p + 1 THEN e ELSE s[k - 1]
<1> DEFINE a == SubSeq(s, 1, p)
           b == SubSeq(s, p + 1, Len(s))
           c == a \o <<e>>
<1>0. Len(s) \in Nat /\ p \in Nat /\ p <= Len(s) /\ \A k \in 1 .. Len(s) : s[k] \in S
  BY LenProperties
<1>1. /\ a \in Seq(S) /\ Len(a) = p
      /\ \A k \in 1 .. p : a[k] = s[k]
  BY <1>0, SubSeqProperties
<1>2. /\ b \in Seq(S) /\ Len(b) = Len(s) - p
      /\ \A k \in 1 .. Len(s) - p : b[k] = s[k + p]
  <2>1. /\ b \in Seq(S)
        /\ Len(b) = IF p + 1 <= Len(s) THEN Len(s) - (p + 1) + 1 ELSE 0
        /\ \A k \in 1 .. Len(s) - (p + 1) + 1 : b[k] = s[(p + 1) + k - 1]
    BY <1>0, SubSeqProperties
  <2> QED
    BY <1>0, <2>1
<1> HIDE DEF a, b
<1>3. /\ c \in Seq(S) /\ Len(c) = p + 1
      /\ \A k \in 1 .. p + 1 : c[k] = IF k <= p THEN s[k] ELSE e
  <2>1. <<e>> \in Seq(S) /\ Len(<<e>>) = 1 /\ <<e>>[1] = e
    OBVIOUS
  <2>2. /\ c \in Seq(S) /\ Len(c) = p + 1
        /\ \A k \in 1 .. p + 1 : c[k] = IF k <= p THEN a[k] ELSE <<e>>[k - p]
    BY <1>1, <2>1, ConcatProperties
  <2>3. ASSUME NEW k \in 1 .. p + 1 PROVE c[k] = IF k <= p THEN s[k] ELSE e
    <3>1. CASE k <= p
      BY <3>1, <2>2, <1>1
    <3>2. CASE k = p + 1
      BY <3>2, <2>1, <2>2
    <3>3. k <= p \/ k = p + 1
      BY <1>0
    <3> HIDE DEF c
    <3> QED
      BY <3>1, <3>2, <3>3
  <2> QED
    BY <2>2, <2>3
<1> HIDE DEF c
<1> DEFINE t == c \o b
<1>4. /\ t \in Seq(S) /\ Len(t) = Len(s) + 1
      /\ \A k \in 1 .. Len(s) + 1 :
           t[k] = IF k <= p + 1 THEN c[k] ELSE b[k - (p + 1)]
  <2>1. /\ t \in Seq(S) /\ Len(t) = Len(c) + Len(b)
        /\ \A k \in 1 .. Len(c) + Len(b) : t[k] = IF k <= Len(c) THEN c[k] ELSE b[k - Len(c)]
    BY <1>2, <1>3, ConcatProperties
  <2> HIDE DEF t
  <2>2. Len(c) + Len(b) = Len(s) + 1 /\ Len(c) = p + 1
    BY <1>0, <1>2, <1>3
  <2> QED
    BY <2>1, <2>2
<1>5. InsertAt(s, p + 1, e) = t
  <2>1. (p + 1) - 1 = p
    BY <1>0
  <2> QED
    BY <2>1 DEF InsertAt, a, b, c
<1> HIDE DEF t
<1>6. ASSUME NEW k \in 1 .. Len(s) + 1
      PROVE  t[k] = IF k <= p THEN s[k] ELSE IF k = p + 1 THEN e ELSE s[k - 1]
  <2>1. CASE k <= p + 1
    BY <2>1, <1>3, <1>4
  <2>2. CASE k > p + 1
    <3>1. k - (p + 1) \in 1 .. Len(s) - p /\ (k - (p + 1)) + p = k - 1
      BY <2>2, <1>0
    <3> QED
      BY <3>1, <2>2, <1>2, <1>4
  <2> QED
    BY <2>1, <2>2, <1>0
<1> QED
  BY <1>4, <1>5, <1>6

\* Where v belongs in s.
IsPos(s, v, p) == /\ \A i \in 1 .. p : s[i] <= v
                  /\ \A i \in p + 1 .. Len(s) : s[i] > v

LEMMA OnePos ==
  ASSUME NEW s \in Seq(Int), NEW v \in Int, NEW p \in 0 .. Len(s), NEW q \in 0 .. Len(s),
         IsPos(s, v, p), IsPos(s, v, q)
  PROVE  p = q
<1>1. Len(s) \in Nat /\ \A i \in 1 .. Len(s) : s[i] \in Int
  BY LenProperties
<1>2. ASSUME NEW a \in 0 .. Len(s), NEW b \in 0 .. Len(s), IsPos(s, v, a), IsPos(s, v, b), a < b
      PROVE  FALSE
  <2>1. b \in 1 .. b /\ b \in a + 1 .. Len(s) /\ s[b] \in Int
    BY <1>1, <1>2
  <2> QED
    BY <2>1, <1>2 DEF IsPos
<1> QED
  BY <1>1, <1>2

LEMMA InsertedFacts ==
  ASSUME NEW s \in Seq(Int), Sorted(s), NEW v \in Int
  PROVE  \E p \in 0 .. Len(s) :
           /\ IsPos(s, v, p)
           /\ Inserted(s, v) \in Seq(Int) /\ Len(Inserted(s, v)) = Len(s) + 1
           /\ \A k \in 1 .. Len(s) + 1 :
                Inserted(s, v)[k] = IF k <= p THEN s[k] ELSE IF k = p + 1 THEN v ELSE s[k - 1]
<1> DEFINE Above(i) == \A j \in i + 1 .. Len(s) : s[j] > v
           Here(i) == (i = 0 \/ s[i] <= v) /\ Above(i)
           Fit == {i \in 0 .. Len(s) : Above(i)}
<1>1. Len(s) \in Nat /\ \A i \in 1 .. Len(s) : s[i] \in Int
  BY LenProperties
<1>2. \E i \in 0 .. Len(s) : Here(i)
  <2>1. Fit \in SUBSET Nat /\ Len(s) \in Fit
    BY <1>1
  <2>2. PICK i \in Fit : \A j \in Fit : i <= j
    BY <2>1, LeastNatural
  <2>3. ASSUME i # 0, s[i] > v PROVE FALSE
    <3>1. i - 1 \in 0 .. Len(s) /\ ~(i <= i - 1)
      BY <2>3, <1>1
    <3>2. Above(i - 1)
      <4>1. \A j \in (i - 1) + 1 .. Len(s) : j = i \/ j \in i + 1 .. Len(s)
        BY <1>1
      <4> QED
        BY <4>1, <2>3
    <3> QED
      BY <3>1, <3>2, <2>2
  <2>4. i = 0 \/ s[i] <= v
    BY <2>3, <1>1
  <2> QED
    BY <2>4
<1> DEFINE p == CHOOSE i \in 0 .. Len(s) : Here(i)
<1>3. p \in 0 .. Len(s) /\ Here(p)
  BY <1>2
<1>4. Inserted(s, v) = InsertAt(s, p + 1, v)
  BY DEF Inserted
<1> HIDE DEF p
<1>5. IsPos(s, v, p)
  <2>1. ASSUME NEW i \in 1 .. p PROVE s[i] <= v
    <3>1. p # 0 /\ i <= p /\ i \in 1 .. Len(s) /\ p \in 1 .. Len(s)
      BY <1>1, <1>3
    <3>2. s[i] <= s[p] /\ s[p] <= v /\ s[i] \in Int /\ s[p] \in Int
      BY <3>1, <1>1, <1>3 DEF Sorted
    <3> QED
      BY <3>2
  <2> QED
    BY <2>1, <1>3 DEF IsPos
<1> DEFINE t == Inserted(s, v)
<1>6. /\ t \in Seq(Int) /\ Len(t) = Len(s) + 1
      /\ \A k \in 1 .. Len(s) + 1 :
           t[k] = IF k <= p THEN s[k] ELSE IF k = p + 1 THEN v ELSE s[k - 1]
  <2> DEFINE u == InsertAt(s, p + 1, v)
  <2> HIDE DEF Here
  <2>1. /\ u \in Seq(Int) /\ Len(u) = Len(s) + 1
        /\ \A k \in 1 .. Len(s) + 1 :
             u[k] = IF k <= p THEN s[k] ELSE IF k = p + 1 THEN v ELSE s[k - 1]
    <3> DEFINE T == Int
    <3>1. s \in Seq(T) /\ v \in T
      OBVIOUS
    <3> HIDE DEF T, u
    <3>2. /\ u \in Seq(T) /\ Len(u) = Len(s) + 1
          /\ \A k \in 1 .. Len(s) + 1 :
               u[k] = IF k <= p THEN s[k] ELSE IF k = p + 1 THEN v ELSE s[k - 1]
      BY <1>3, <3>1, InsertAtFacts DEF u
    <3> QED
      BY <3>2 DEF T
  <2>2. t = u
    BY <1>4
  <2> HIDE DEF t, u
  <2> QED
    BY <2>1, <2>2
<1> HIDE DEF Here, t
<1>7. /\ IsPos(s, v, p) /\ t \in Seq(Int) /\ Len(t) = Len(s) + 1
      /\ \A k \in 1 .. Len(s) + 1 :
           t[k] = IF k <= p THEN s[k] ELSE IF k = p + 1 THEN v ELSE s[k - 1]
  BY <1>5, <1>6
<1> QED
  BY <1>3, <1>7 DEF t

LEMMA InsertedSorted ==
  ASSUME NEW s \in Seq(Int), Sorted(s), NEW v \in Int
  PROVE  Sorted(Inserted(s, v))
<1> DEFINE t == Inserted(s, v)
<1>1. PICK p \in 0 .. Len(s) :
        /\ IsPos(s, v, p) /\ t \in Seq(Int) /\ Len(t) = Len(s) + 1
        /\ \A k \in 1 .. Len(s) + 1 :
             t[k] = IF k <= p THEN s[k] ELSE IF k = p + 1 THEN v ELSE s[k - 1]
  BY InsertedFacts
<1>2. Len(s) \in Nat /\ \A i \in 1 .. Len(s) : s[i] \in Int
  BY LenProperties
<1> HIDE DEF t
<1>3. ASSUME NEW i \in 1 .. Len(s) + 1, NEW j \in 1 .. Len(s) + 1, i <= j
      PROVE  t[i] <= t[j]
  <2>1. CASE j <= p
    <3>1. i \in 1 .. Len(s) /\ j \in 1 .. Len(s) /\ i <= p
      BY <2>1, <1>2, <1>3
    <3> QED
      BY <3>1, <2>1, <1>1, <1>2, <1>3 DEF Sorted
  <2>2. CASE j = p + 1
    <3>1. i <= p \/ i = p + 1
      BY <2>2, <1>3
    <3>2. i <= p => i \in 1 .. p
      BY <1>2
    <3>3. t[j] = v
      BY <2>2, <1>1
    <3>4. CASE i <= p
      <4>1. t[i] = s[i] /\ s[i] <= v
        BY <3>2, <3>4, <1>1 DEF IsPos
      <4> QED
        BY <4>1, <3>3
    <3>5. CASE i = p + 1
      BY <3>3, <3>5, <2>2
    <3> QED
      BY <3>1, <3>4, <3>5
  <2>3. CASE j > p + 1 /\ i <= p
    <3>1. i \in 1 .. Len(s) /\ j - 1 \in 1 .. Len(s) /\ i <= j - 1
      BY <2>3, <1>2
    <3>2. t[i] = s[i] /\ t[j] = s[j - 1]
      BY <2>3, <1>1
    <3> QED
      BY <3>1, <3>2 DEF Sorted
  <2>4. CASE j > p + 1 /\ i = p + 1
    <3>1. j - 1 \in p + 1 .. Len(s) /\ s[j - 1] \in Int
      BY <2>4, <1>2
    <3>2. t[i] = v /\ t[j] = s[j - 1]
      BY <2>4, <1>1
    <3>3. s[j - 1] > v
      BY <3>1, <1>1 DEF IsPos
    <3> QED
      BY <3>1, <3>2, <3>3
  <2>5. CASE i > p + 1
    <3>1. i - 1 \in 1 .. Len(s) /\ j - 1 \in 1 .. Len(s) /\ i - 1 <= j - 1 /\ j > p + 1
      BY <2>5, <1>2, <1>3
    <3>2. t[i] = s[i - 1] /\ t[j] = s[j - 1]
      BY <2>5, <3>1, <1>1
    <3> QED
      BY <3>1, <3>2 DEF Sorted
  <2> QED
    BY <2>1, <2>2, <2>3, <2>4, <2>5, <1>2
<1> QED
  BY <1>1, <1>3 DEF Sorted, t

\* The first n of s.
LEMMA PrefixFacts ==
  ASSUME NEW s \in Seq(Int), NEW n \in 0 .. Len(s)
  PROVE  /\ SubSeq(s, 1, n) \in Seq(Int) /\ Len(SubSeq(s, 1, n)) = n
         /\ \A k \in 1 .. n : SubSeq(s, 1, n)[k] = s[k]
         /\ Sorted(s) => Sorted(SubSeq(s, 1, n))
<1>1. Len(s) \in Nat /\ \A i \in 1 .. Len(s) : s[i] \in Int
  BY LenProperties
<1>2. /\ SubSeq(s, 1, n) \in Seq(Int) /\ Len(SubSeq(s, 1, n)) = n
      /\ \A k \in 1 .. n : SubSeq(s, 1, n)[k] = s[k]
  BY <1>1, SubSeqProperties
<1>3. 1 .. n \subseteq 1 .. Len(s)
  BY <1>1
<1> QED
  BY <1>2, <1>3 DEF Sorted

LEMMA SmallestFacts ==
  ASSUME NEW s \in Seq(Int)
  PROVE  /\ Smallest(s) \in Seq(Int) /\ Len(s) \in Nat
         /\ Len(Smallest(s)) = IF Len(s) < K THEN Len(s) ELSE K
         /\ \A k \in 1 .. Len(Smallest(s)) : Smallest(s)[k] = s[k]
         /\ Sorted(s) => Sorted(Smallest(s))
<1>1. Len(s) \in Nat /\ K \in Nat
  BY LenProperties, TimingAssumption
<1>2. (IF Len(s) < K THEN Len(s) ELSE K) \in 0 .. Len(s)
  BY <1>1
<1> QED
  BY <1>1, <1>2, PrefixFacts DEF Smallest

\* Adding to the K smallest of s gives the K smallest of s with the new one.
LEMMA SampleKept ==
  ASSUME NEW s \in Seq(Int), Sorted(s), NEW v \in Int
  PROVE  add_sample(Smallest(s), v) = Smallest(Inserted(s, v))
<1> DEFINE t == Inserted(s, v)
           m == Smallest(s)
<1>0. K \in Nat /\ K >= 1 /\ Len(s) \in Nat /\ \A i \in 1 .. Len(s) : s[i] \in Int
  BY LenProperties, TimingAssumption
<1>1. PICK p \in 0 .. Len(s) :
        /\ IsPos(s, v, p) /\ t \in Seq(Int) /\ Len(t) = Len(s) + 1
        /\ \A k \in 1 .. Len(s) + 1 :
             t[k] = IF k <= p THEN s[k] ELSE IF k = p + 1 THEN v ELSE s[k - 1]
  BY InsertedFacts
<1>2. /\ m \in Seq(Int) /\ Len(m) = IF Len(s) < K THEN Len(s) ELSE K
      /\ \A k \in 1 .. Len(m) : m[k] = s[k]
      /\ Sorted(m)
  BY SmallestFacts
<1>3. /\ Smallest(t) \in Seq(Int) /\ Len(Smallest(t)) = IF Len(t) < K THEN Len(t) ELSE K
      /\ \A k \in 1 .. Len(Smallest(t)) : Smallest(t)[k] = t[k]
  BY <1>1, SmallestFacts
<1> HIDE DEF t
<1>4. CASE Len(s) < K
  <2>1. m = s
    BY <1>4, <1>0, SubSeqFull DEF Smallest
  <2>2. Smallest(t) = t
    BY <1>4, <1>0, <1>1, <1>3, SeqEqual
  <2> QED
    BY <2>1, <2>2, <1>0, <1>4 DEF add_sample, t
<1>5. CASE Len(s) >= K /\ v < s[K]
  <2> DEFINE h == SubSeq(m, 1, K - 1)
             u == Inserted(h, v)
  <2> HIDE DEF m
  <2>1. Len(m) = K /\ m[K] = s[K] /\ K - 1 \in 0 .. Len(m)
    BY <1>5, <1>0, <1>2
  <2>2. /\ h \in Seq(Int) /\ Len(h) = K - 1 /\ Sorted(h)
        /\ \A k \in 1 .. K - 1 : h[k] = s[k]
    BY <2>1, <1>0, <1>2, PrefixFacts
  <2> HIDE DEF h
  <2>3. PICK q \in 0 .. K - 1 :
          /\ IsPos(h, v, q) /\ u \in Seq(Int) /\ Len(u) = K
          /\ \A k \in 1 .. K :
               u[k] = IF k <= q THEN h[k] ELSE IF k = q + 1 THEN v ELSE h[k - 1]
    <3>1. \E q \in 0 .. Len(h) :
            /\ IsPos(h, v, q) /\ u \in Seq(Int) /\ Len(u) = Len(h) + 1
            /\ \A k \in 1 .. Len(h) + 1 :
                 u[k] = IF k <= q THEN h[k] ELSE IF k = q + 1 THEN v ELSE h[k - 1]
      BY <2>2, InsertedFacts
    <3>2. Len(h) = K - 1 /\ Len(h) + 1 = K
      BY <2>2, <1>0
    <3> HIDE DEF u
    <3> QED
      BY <3>1, <3>2
  <2> HIDE DEF u
  <2>4. q = p
    <3>1. IsPos(s, v, q)
      <4>1. \A i \in 1 .. q : s[i] <= v
        <5> TAKE i \in 1 .. q
        <5>1. i \in 1 .. K - 1
          BY <1>0
        <5>2. h[i] <= v
          BY <2>3 DEF IsPos
        <5> QED
          BY <5>1, <5>2, <2>2
      <4>2. ASSUME NEW i \in q + 1 .. Len(s) PROVE s[i] > v
        <5>1. CASE i <= K - 1
          <6>1. i \in q + 1 .. Len(h) /\ i \in 1 .. K - 1
            BY <5>1, <2>2, <1>0
          <6> QED
            BY <6>1, <2>2, <2>3 DEF IsPos
        <5>2. CASE i >= K
          <6>1. K \in 1 .. Len(s) /\ i \in 1 .. Len(s) /\ K <= i
            BY <5>2, <1>0, <1>5
          <6>2. s[K] <= s[i] /\ s[K] \in Int /\ s[i] \in Int
            BY <6>1, <1>0 DEF Sorted
          <6> QED
            BY <6>2, <1>5
        <5> QED
          BY <5>1, <5>2, <1>0
      <4> QED
        BY <4>1, <4>2 DEF IsPos
    <3> QED
      BY <3>1, <2>3, <1>0, <1>1, <1>5, OnePos
  <2>5. ASSUME NEW k \in 1 .. K PROVE u[k] = t[k]
    <3>1. k \in 1 .. Len(s) + 1
      BY <1>0, <1>5
    <3>2. CASE k <= q
      <4>1. k \in 1 .. K - 1
        BY <3>2, <1>0
      <4> QED
        BY <4>1, <3>1, <3>2, <2>2, <2>3, <2>4, <1>1
    <3>3. CASE k = q + 1
      BY <3>1, <3>3, <2>3, <2>4, <1>1
    <3>4. CASE k > q + 1
      <4>1. k - 1 \in 1 .. K - 1
        BY <3>4, <1>0
      <4>2. u[k] = h[k - 1] /\ t[k] = s[k - 1]
        BY <3>1, <3>4, <2>3, <2>4, <1>1
      <4> QED
        BY <4>1, <4>2, <2>2
    <3> QED
      BY <3>2, <3>3, <3>4
  <2>6. Len(Smallest(t)) = K
    BY <1>0, <1>1, <1>3, <1>5
  <2>7. u = Smallest(t)
    BY <2>3, <2>5, <2>6, <1>3, SeqEqual
  <2>8. add_sample(m, v) = u
    BY <2>1, <1>5, <1>0 DEF add_sample, u, h
  <2> QED
    BY <2>7, <2>8 DEF m, t
<1>6. CASE Len(s) >= K /\ v >= s[K]
  <2> HIDE DEF m
  <2>1. Len(m) = K /\ m[K] = s[K] /\ K \in 1 .. Len(s)
    BY <1>6, <1>0, <1>2
  <2>2. K <= p
    <3>1. ASSUME ~(K <= p) PROVE FALSE
      <4>1. K \in p + 1 .. Len(s) /\ s[K] \in Int
        BY <3>1, <2>1, <1>0
      <4> QED
        BY <4>1, <1>1, <1>6 DEF IsPos
    <3> QED
      BY <3>1
  <2>3. Len(Smallest(t)) = K
    BY <1>0, <1>1, <1>3, <1>6
  <2>4. \A k \in 1 .. K : m[k] = Smallest(t)[k]
    <3> TAKE k \in 1 .. K
    <3>1. k <= p /\ k \in 1 .. Len(s) + 1
      BY <2>1, <2>2, <1>0
    <3> QED
      BY <3>1, <2>1, <2>3, <1>1, <1>2, <1>3
  <2>5. m = Smallest(t)
    BY <2>1, <2>3, <2>4, <1>2, <1>3, SeqEqual
  <2>6. add_sample(m, v) = m
    BY <2>1, <1>0, <1>6 DEF add_sample
  <2> QED
    BY <2>5, <2>6 DEF m, t
<1>7. s[K] \in Int \/ Len(s) < K
  BY <1>0
<1> QED
  BY <1>0, <1>4, <1>5, <1>6, <1>7

-----------------------------------------------------------------------------
(* Clocks.                                                                 *)

LEMMA DivMod ==
  ASSUME NEW a \in Int, NEW h \in Nat \ {0}
  PROVE  a \div h \in Int /\ a % h \in 0 .. h - 1 /\ a = (a \div h) * h + (a % h)
<1>1. h \in Int /\ h > 0
  OBVIOUS
<1>2. a = (a \div h) * h + (a % h)
  BY <1>1, Z3
<1> QED
  BY <1>1, <1>2

\* A counter with n values that is read x later has turned at most once.
LEMMA OneTurn ==
  ASSUME NEW n \in Nat \ {0}, NEW c \in 0 .. n - 1, NEW x \in 0 .. n - 1
  PROVE  (c + x) % n \in 0 .. n - 1 /\ (c + x) % n \in {c + x, c + x - n}
<1>1. CASE c + x < n
  <2>1. c + x \in 0 .. n - 1
    BY <1>1
  <2> QED
    BY <2>1
<1>2. CASE c + x >= n
  <2>1. c + x \in n .. 2 * n - 1
    BY <1>2
  <2>2. (c + x) % n = c + x - n
    BY <2>1
  <2> QED
    BY <2>1, <2>2
<1> QED
  BY <1>1, <1>2

\* The difference of two halves in the width of a half.
LEMMA HalfDifference ==
  ASSUME NEW h \in Nat \ {0}, NEW d \in 0 - h .. h - 1
  PROVE  d % h = IF d < 0 THEN d + h ELSE d
OBVIOUS

LEMMA HighHalf ==
  ASSUME NEW h \in Nat \ {0}, NEW q \in Int, NEW r \in 0 .. h - 1, NEW a \in 0 .. h * h - 1,
         a = q * h + r
  PROVE  q \in 0 .. h - 1
<1>1. ASSUME q <= -1 PROVE FALSE
  <2>1. q * h <= 0 - h
    BY <1>1
  <2> QED
    BY <2>1
<1>2. ASSUME q >= h PROVE FALSE
  <2>1. q * h >= h * h
    BY <1>2
  <2> QED
    BY <2>1
<1> QED
  BY <1>1, <1>2

\* Subtraction of q0 * h + r0 from q1 * h + r1, half by half.
LEMMA HalvesSubtracted ==
  ASSUME NEW h \in Nat \ {0},
         NEW q0 \in 0 .. h - 1, NEW r0 \in 0 .. h - 1,
         NEW q1 \in 0 .. h - 1, NEW r1 \in 0 .. h - 1,
         NEW x \in 0 .. h * h - 1,
         (q1 * h + r1) - (q0 * h + r0) \in {x, x - h * h}
  PROVE  LET lo == (r1 - r0) % h
             borrow == IF lo > r1 THEN 1 ELSE 0
         IN ((q1 - q0 - borrow) % h) * h + lo = x
<1> DEFINE lo == (r1 - r0) % h
           borrow == IF lo > r1 THEN 1 ELSE 0
           d == q1 - q0 - borrow
<1>1. lo = IF r1 - r0 < 0 THEN r1 - r0 + h ELSE r1 - r0
  <2>1. r1 - r0 \in 0 - h .. h - 1
    OBVIOUS
  <2> QED
    BY <2>1, HalfDifference
<1> HIDE DEF lo
<1>2. lo \in 0 .. h - 1 /\ borrow \in {0, 1} /\ lo = r1 - r0 + borrow * h
  <2>1. CASE r1 - r0 < 0
    BY <2>1, <1>1
  <2>2. CASE r1 - r0 >= 0
    BY <2>2, <1>1
  <2> QED
    BY <2>1, <2>2
<1> HIDE DEF borrow
<1>3. d \in 0 - h .. h - 1
  BY <1>2
<1>4. d * h = q1 * h - q0 * h - borrow * h
  BY <1>2
<1> HIDE DEF d
<1>5. d * h + lo \in {x, x - h * h}
  BY <1>2, <1>3, <1>4
<1>6. d % h = IF d < 0 THEN d + h ELSE d
  BY <1>3, HalfDifference
<1>7. CASE d < 0
  <2>1. d * h <= 0 - h
    BY <1>3, <1>7
  <2>2. d * h + lo = x - h * h
    BY <2>1, <1>2, <1>3, <1>5
  <2>3. (d % h) * h = d * h + h * h
    BY <1>3, <1>6, <1>7
  <2> QED
    BY <2>2, <2>3, <1>2, <1>3 DEF lo, d, borrow
<1>8. CASE d >= 0
  <2>1. d * h >= 0
    BY <1>3, <1>8
  <2>2. d * h + lo = x
    BY <2>1, <1>2, <1>3, <1>5
  <2> QED
    BY <2>2, <1>3, <1>6, <1>8 DEF lo, d, borrow
<1> QED
  BY <1>3, <1>7, <1>8

\* get_counter gives the time between its two readings, if it is less than a
\* turn of the counter.
LEMMA CounterMeasures ==
  ASSUME platform = "i386", NEW c \in Counter, NEW x \in Counter
  PROVE  get_counter(c, (c + x) % (Half * Half)) = x
<1> DEFINE b == (c + x) % (Half * Half)
<1>0. Half \in Nat \ {0} /\ Half * Half \in Nat \ {0}
  BY TimingAssumption
<1>1. /\ c \in 0 .. Half * Half - 1 /\ x \in 0 .. Half * Half - 1
      /\ b \in 0 .. Half * Half - 1 /\ b \in {c + x, c + x - Half * Half}
  BY <1>0, OneTurn DEF Counter
<1> HIDE DEF b
<1> DEFINE q0 == c \div Half
           r0 == c % Half
           q1 == b \div Half
           r1 == b % Half
<1>2. /\ q0 \in Int /\ r0 \in 0 .. Half - 1 /\ c = q0 * Half + r0
      /\ q1 \in Int /\ r1 \in 0 .. Half - 1 /\ b = q1 * Half + r1
  BY <1>0, <1>1, DivMod
<1>3. get_counter(c, b) =
        LET lo == (r1 - r0) % Half
            borrow == IF lo > r1 THEN 1 ELSE 0
        IN ((q1 - q0 - borrow) % Half) * Half + lo
  BY DEF get_counter, access_counter
<1> HIDE DEF q0, r0, q1, r1
<1>4. q0 \in 0 .. Half - 1 /\ q1 \in 0 .. Half - 1
  BY <1>0, <1>1, <1>2, HighHalf
<1>5. (q1 * Half + r1) - (q0 * Half + r0) \in {x, x - Half * Half}
  BY <1>0, <1>1, <1>2
<1>6. LET lo == (r1 - r0) % Half
          borrow == IF lo > r1 THEN 1 ELSE 0
      IN ((q1 - q0 - borrow) % Half) * Half + lo = x
  BY <1>0, <1>1, <1>2, <1>4, <1>5, HalvesSubtracted
<1> QED
  BY <1>3, <1>6 DEF b

LEMMA CounterInt ==
  ASSUME NEW c \in Int, NEW b \in Int
  PROVE  get_counter(c, b) \in Int
<1>0. Half \in Nat \ {0}
  BY TimingAssumption
<1>1. \A a \in Int : access_counter(a).hi \in Int /\ access_counter(a).lo \in Int
  BY <1>0, DivMod DEF access_counter
<1> DEFINE old == access_counter(c)
           new == access_counter(b)
           lo == (new.lo - old.lo) % Half
           borrow == IF lo > new.lo THEN 1 ELSE 0
<1>2. old.hi \in Int /\ old.lo \in Int /\ new.hi \in Int /\ new.lo \in Int
  BY <1>1
<1>3. get_counter(c, b) = ((new.hi - old.hi - borrow) % Half) * Half + lo
  BY DEF get_counter
<1> HIDE DEF old, new
<1>4. lo \in Int /\ borrow \in Int
  BY <1>0, <1>2, DivMod
<1> HIDE DEF lo, borrow
<1>5. (new.hi - old.hi - borrow) % Half \in Int
  <2>1. new.hi - old.hi - borrow \in Int
    BY <1>2, <1>4
  <2> HIDE DEF old, new
  <2> QED
    BY <2>1, <1>0, DivMod
<1> QED
  BY <1>0, <1>3, <1>4, <1>5

-----------------------------------------------------------------------------
(* The steps of fsecs.                                                     *)

LEMMA TimingNumbers ==
  /\ Half \in Nat \ {0} /\ K \in Nat \ {0} /\ MAXSAMPLES \in Nat \ {0}
  /\ THRESHOLD \in Nat \ {0} /\ Second \in Nat \ {0}
  /\ EPSILON \in Nat /\ MaxTicks \in Nat /\ TickCost \in Nat /\ MAX_ETIME \in Nat
  /\ RECORDTHRESH \in Nat /\ TickCost >= THRESHOLD /\ RECORDTHRESH >= THRESHOLD
  /\ \A d \in Costs : d \in Nat
BY TimingAssumption

\* What a run of f and its ticks take fits into the counter.
LEMMA RunFits ==
  ASSUME NEW d \in Costs, NEW n \in 0 .. MaxTicks
  PROVE  n * TickCost \in Nat /\ d + n * TickCost \in Counter
<1>1. d \in Nat /\ n \in Nat /\ MaxTicks \in Nat /\ TickCost \in Nat /\ n <= MaxTicks
      /\ Half * Half \in Nat
  BY TimingNumbers
<1>2. n * TickCost \in Nat /\ n * TickCost <= MaxTicks * TickCost /\ MaxTicks * TickCost \in Nat
  BY <1>1
<1>3. d + MaxTicks * TickCost < Half * Half
  BY RunAssumption
<1> QED
  BY <1>1, <1>2, <1>3 DEF Counter

LEMMA TickStep ==
  ASSUME TickInv, TimingStep \/ Fsecs \/ FsecsReturns \/ UNCHANGED timingvars
  PROVE  TickInv'
<1>1. CASE UNCHANGED <<cal, cyc_per_tick>>
  BY <1>1 DEF TickInv
<1>2. ASSUME NEW tick \in Ticks, CallibrateTurn(tick) PROVE TickInv'
  <2> DEFINE gap == cal.since + 1 + (IF tick \in {"user", "kernel"} THEN TickCost ELSE 0)
             ticks == cal.ticks + (IF tick \in {"user", "late"} THEN 1 ELSE 0)
  <2>1. /\ tick # "none" => cal.ticks = 0 /\ cal.since \in 0 .. THRESHOLD - 1
        /\ cal.since \in 0 .. THRESHOLD - 1 \/ (cal.since = TickCost /\ cal.ticks = 0)
        /\ cal.ticks \in 0 .. 1 /\ tick \in {"none", "user", "kernel", "late"}
    BY <1>2, TimingNumbers DEF CallibrateTurn, TickInv, Ticks
  <2>2. /\ gap \in Nat /\ ticks \in 0 .. 1
        /\ ticks > 0 /\ gap > RECORDTHRESH => gap \in TickCost + 1 .. TickCost + THRESHOLD
    <3>1. CASE tick = "none"
      BY <2>1, <3>1, TimingNumbers
    <3>2. CASE tick # "none"
      BY <2>1, <3>2, TimingNumbers
    <3> QED
      BY <3>1, <3>2
  <2>3. /\ cal' = IF gap < THRESHOLD THEN [cal EXCEPT !.since = gap]
                  ELSE [since |-> IF tick = "late" THEN TickCost ELSE 0,
                        ticks |-> 0, e |-> cal.e + ticks]
        /\ \/ cyc_per_tick' = gap /\ ticks > 0 /\ gap > RECORDTHRESH
           \/ cyc_per_tick' = cyc_per_tick
    BY <1>2 DEF CallibrateTurn
  <2> HIDE DEF gap, ticks
  <2>4. /\ cal'.since \in 0 .. THRESHOLD - 1 \/ (cal'.since = TickCost /\ cal'.ticks = 0)
        /\ cal'.ticks \in 0 .. 1
    <3>1. CASE gap < THRESHOLD
      <4>1. cal' = [cal EXCEPT !.since = gap]
        BY <2>3, <3>1
      <4>2. (cal'.since = gap \/ cal'.since = cal.since) /\ cal'.ticks = cal.ticks
        BY <4>1
      <4> QED
        BY <2>1, <2>2, <3>1, <4>2, TimingNumbers
    <3>2. CASE ~(gap < THRESHOLD)
      BY <2>3, <3>2, TimingNumbers
    <3> QED
      BY <3>1, <3>2
  <2>5. cyc_per_tick' = 0 \/ cyc_per_tick' \in TickCost + 1 .. TickCost + THRESHOLD
    BY <2>2, <2>3 DEF TickInv
  <2> QED
    BY <2>4, <2>5 DEF TickInv
<1>3. CASE CallibrateEnd
  BY <1>3, TimingNumbers DEF CallibrateEnd, NoGap, TickInv
<1>4. CASE StartSample
  <2>1. CASE UNCHANGED cal
    BY <1>1, <1>4, <2>1 DEF StartSample
  <2>2. ASSUME NEW tick \in 0 .. 1, cal' = [NoGap EXCEPT !.ticks = tick] PROVE TickInv'
    <3>1. cal'.since = 0 /\ cal'.ticks = tick
      BY <2>2 DEF NoGap
    <3> QED
      BY <1>4, <3>1, TimingNumbers DEF StartSample, TickInv
  <2> QED
    BY <1>4, <2>1, <2>2 DEF StartSample, start_comp_counter
<1>5. ASSUME NEW d \in Costs, RunF(d) PROVE TickInv'
  BY <1>1, <1>5 DEF RunF
<1>6. ASSUME NEW d \in Costs, NEW n \in 0 .. MaxTicks, NEW between \in 0 .. 2,
             NEW kernel \in 0 .. n, Measure(d, n, kernel, between)
      PROVE  TickInv'
  BY <1>1, <1>6 DEF Measure
<1>7. CASE RunsEnd
  BY <1>1, <1>7 DEF RunsEnd
<1>8. CASE FExits
  BY <1>1, <1>8 DEF FExits
<1>9. CASE Fsecs
  BY <1>1, <1>9 DEF Fsecs
<1>10. CASE FsecsReturns
  BY <1>1, <1>10 DEF FsecsReturns
<1>11. CASE UNCHANGED timingvars
  BY <1>1, <1>11 DEF timingvars
<1> QED
  BY <1>2, <1>3, <1>4, <1>5, <1>6, <1>7, <1>8, <1>9, <1>10, <1>11 DEF TimingStep

\* K samples agree within EPSILON percent.
LEMMA Agree ==
  ASSUME NEW x \in Int, NEW y \in Int, (100 + EPSILON) * x >= 100 * y
  PROVE  100 * (y - x) <= EPSILON * x
<1>1. EPSILON \in Int
  BY TimingNumbers
<1>2. (100 + EPSILON) * x = 100 * x + EPSILON * x
  BY <1>1
<1> QED
  BY <1>1, <1>2

LEMMA MeasureStep ==
  ASSUME TickInv, TimingInv, NEW d \in Costs, NEW n \in 0 .. MaxTicks,
         NEW between \in 0 .. 2, NEW kernel \in 0 .. n, Measure(d, n, kernel, between)
  PROVE  TimingInv'
<1>1. /\ timing = "measure" /\ method = "FCYC" /\ Len(samples) < MAXSAMPLES
      /\ samples \in Seq(Int) /\ Sorted(samples) /\ values = Smallest(samples)
      /\ Len(samples) \in Nat
  BY LenProperties DEF Measure, TimingInv
<1>2. PICK c \in Counter :
        LET cyc == Sample(c, d, n, kernel, between)
        IN values' = add_sample(values, cyc) /\ samples' = Inserted(samples, cyc)
  BY DEF Measure
<1> DEFINE cyc == Sample(c, d, n, kernel, between)
<1>3. cyc \in Int
  <2>0. cyc_per_tick \in Int /\ c \in Int /\ n \in Int
    BY TimingNumbers DEF Counter, TickInv
  <2>1. Counted(n, kernel, between) \in Int /\ Counted(n, kernel, between) * cyc_per_tick \in Int
    BY <2>0 DEF Counted
  <2>2. c + d + n * TickCost \in Int /\ Half * Half \in Nat \ {0}
    BY <2>0, RunFits, TimingNumbers
  <2>3. (c + d + n * TickCost) % (Half * Half) \in Int
    BY <2>2, DivMod
  <2>4. get_counter(c, (c + d + n * TickCost) % (Half * Half)) \in Int
    BY <2>0, <2>3, CounterInt
  <2> QED
    BY <2>1, <2>4 DEF Sample, get_comp_counter
<1>4. values' = add_sample(values, cyc) /\ samples' = Inserted(samples, cyc)
  BY <1>2
<1> HIDE DEF cyc
<1>5. samples' \in Seq(Int) /\ Len(samples') = Len(samples) + 1 /\ Sorted(samples')
  BY <1>1, <1>3, <1>4, InsertedFacts, InsertedSorted
<1>6. values' = Smallest(samples')
  BY <1>1, <1>3, <1>4, SampleKept
<1>7. UNCHANGED <<method, start, runs, spent>>
  BY DEF Measure, ftimer
<1>8. CASE timing' = "start" /\ Len(samples') < MAXSAMPLES
  BY <1>1, <1>5, <1>6, <1>7, <1>8 DEF TimingInv
<1>9. CASE /\ timing' = "done" /\ secs' = values'[1]
           /\ has_converged(values', Len(samples')) \/ ~(Len(samples') < MAXSAMPLES)
  <2>1. /\ Len(values') = IF Len(samples') < K THEN Len(samples') ELSE K
        /\ \A k \in 1 .. Len(values') : values'[k] = samples'[k]
    BY <1>5, <1>6, SmallestFacts
  <2>2. 1 \in 1 .. Len(values')
    BY <2>1, <1>1, <1>5, TimingNumbers
  <2>3. secs' = samples'[1]
    BY <2>1, <2>2, <1>9
  <2>4. Len(samples') <= MAXSAMPLES
    BY <1>1, <1>5, TimingNumbers
  <2>5. ASSUME Len(samples') < MAXSAMPLES
        PROVE  100 * (samples'[K] - samples'[1]) <= EPSILON * samples'[1]
    <3>1. Len(samples') >= K /\ (100 + EPSILON) * values'[1] >= 100 * values'[K]
      BY <2>5, <1>9 DEF has_converged
    <3>2. /\ K \in 1 .. Len(values') /\ K \in 1 .. Len(samples')
          /\ 1 \in 1 .. Len(samples')
      BY <3>1, <2>1, <1>1, <1>5, TimingNumbers
    <3>3. /\ values'[1] = samples'[1] /\ values'[K] = samples'[K]
          /\ samples'[1] \in Int /\ samples'[K] \in Int
      BY <3>2, <2>1, <2>2, <1>5, ElementOfSeq
    <3> QED
      BY <3>1, <3>3, Agree
  <2> QED
    BY <2>3, <2>4, <2>5, <1>1, <1>5, <1>6, <1>7, <1>9 DEF TimingInv
<1> QED
  BY <1>8, <1>9 DEF Measure

\* Differences of times given in seconds and what remains of one.
LEMMA Elapsed ==
  ASSUME NEW a \in Int, NEW b \in Int
  PROVE  gettod(a, b) = b - a /\ get_etime(a) = Second * MAX_ETIME - a
<1>0. Second \in Nat \ {0} /\ MAX_ETIME \in Nat
  BY TimingNumbers
<1> DEFINE qa == a \div Second
           ra == a % Second
           qb == b \div Second
           rb == b % Second
<1>1. /\ qa \in Int /\ ra \in Int /\ a = qa * Second + ra
      /\ qb \in Int /\ rb \in Int /\ b = qb * Second + rb
  BY <1>0, DivMod
<1>2. /\ gettod(a, b) = Second * (qb - qa) + (rb - ra)
      /\ get_etime(a) = Second * (MAX_ETIME - qa) + (0 - ra)
  BY DEF gettod, get_etime, Sec, Usec
<1> HIDE DEF qa, ra, qb, rb
<1>3. /\ Second * (qb - qa) = qb * Second - qa * Second
      /\ Second * (MAX_ETIME - qa) = Second * MAX_ETIME - qa * Second
  BY <1>0, <1>1
<1>4. Second * MAX_ETIME \in Int /\ qa * Second \in Int /\ qb * Second \in Int
  BY <1>0, <1>1
<1> QED
  BY <1>1, <1>2, <1>3, <1>4

LEMMA NoSamples == <<>> \in Seq(Int) /\ Len(<<>>) = 0 /\ Sorted(<<>>) /\ <<>> = Smallest(<<>>)
<1>1. <<>> \in Seq(Int) /\ Len(<<>>) = 0
  OBVIOUS
<1>2. Smallest(<<>>) = <<>>
  <2>1. Smallest(<<>>) = SubSeq(<<>>, 1, 0)
    BY <1>1, TimingNumbers DEF Smallest
  <2> QED
    BY <2>1, SubSeqEmpty
<1> QED
  BY <1>1, <1>2 DEF Sorted

LEMMA SamplesStep ==
  ASSUME TickInv, TimingInv, TimingStep \/ Fsecs \/ FsecsReturns \/ UNCHANGED timingvars
  PROVE  TimingInv'
<1>1. ASSUME NEW tick \in Ticks, CallibrateTurn(tick) PROVE TimingInv'
  BY <1>1 DEF CallibrateTurn, TimingInv, fcyc, ftimer
<1>2. CASE CallibrateEnd
  BY <1>2 DEF CallibrateEnd, TimingInv, fcyc, ftimer
<1>3. CASE StartSample
  BY <1>3 DEF StartSample, start_comp_counter, TimingInv, fcyc, ftimer
<1>4. ASSUME NEW d \in Costs, RunF(d) PROVE TimingInv'
  <2>1. d \in Nat
    BY TimingNumbers
  <2> QED
    BY <1>4, <2>1 DEF RunF, TimingInv, fcyc
<1>5. ASSUME NEW d \in Costs, NEW n \in 0 .. MaxTicks, NEW between \in 0 .. 2,
             NEW kernel \in 0 .. n, Measure(d, n, kernel, between)
      PROVE  TimingInv'
  BY <1>5, MeasureStep
<1>6. CASE RunsEnd
  <2>1. /\ start \in Nat /\ spent \in Nat /\ start + spent \in Int /\ runs = Runs
        /\ Second * MAX_ETIME \in Int /\ Remaining \in Int
        /\ Remaining = Second * MAX_ETIME - spent /\ method # "FCYC"
    BY <1>6, TimingNumbers DEF TimingInv, Remaining, RunsEnd
  <2>2. gettod(start, start + spent) = spent
    BY <2>1, Elapsed
  <2>3. get_etime(Remaining) = Second * MAX_ETIME - Remaining
    BY <2>1, Elapsed
  <2>4. get_etime(Second * MAX_ETIME) = Second * MAX_ETIME - Second * MAX_ETIME
    BY <2>1, Elapsed
  <2>5. get_etime(Remaining) - get_etime(Second * MAX_ETIME) = spent
    BY <2>1, <2>3, <2>4
  <2>6. secs' = spent /\ timing' = "done"
    BY <1>6, <2>2, <2>5 DEF RunsEnd
  <2>7. UNCHANGED <<method, values, samples, start, runs, spent>>
    BY <1>6 DEF RunsEnd, fcyc, ftimer
  <2> QED
    BY <2>1, <2>6, <2>7 DEF TimingInv
<1>7. CASE FExits
  BY <1>7 DEF FExits, TimingInv, fcyc, ftimer
<1>8. CASE Fsecs
  <2>1. /\ values' = <<>> /\ samples' = <<>> /\ runs' = 0 /\ spent' = 0
        /\ start' \in Nat /\ method' = method
        /\ timing' = IF method = "FCYC" THEN "start" ELSE "runs"
    BY <1>8, TimingNumbers DEF Fsecs
  <2> QED
    BY <2>1, NoSamples, TimingNumbers DEF TimingInv
<1>9. CASE FsecsReturns
  <2>1. /\ values' = <<>> /\ samples' = <<>> /\ runs' = 0 /\ spent' = 0
        /\ start' = 0 /\ timing' = "off"
    BY <1>9 DEF FsecsReturns
  <2> QED
    BY <2>1, NoSamples DEF TimingInv
<1>10. CASE UNCHANGED timingvars
  BY <1>10 DEF timingvars, TimingInv
<1> QED
  BY <1>1, <1>2, <1>3, <1>4, <1>5, <1>6, <1>7, <1>8, <1>9, <1>10 DEF TimingStep

LEMMA TimingInitial == TimingInit => TickInv /\ TimingInv
<1> SUFFICES ASSUME TimingInit PROVE TickInv /\ TimingInv
  OBVIOUS
<1>1. TickInv
  BY TimingNumbers DEF TimingInit, NoGap, TickInv
<1>2. TimingInv
  BY NoSamples DEF TimingInit, TimingInv
<1> QED
  BY <1>1, <1>2

\* The driver measures in StartSpeed, Speed and Timed, and nowhere else.
LEMMA DriverTimes ==
  ASSUME [JNext]_jvars
  PROVE  TimingStep \/ Fsecs \/ FsecsReturns \/ UNCHANGED timingvars
<1>1. CASE UNCHANGED jvars
  BY <1>1 DEF jvars
<1>2. CASE Start
  BY <1>2 DEF Start
<1>3. CASE ReadTrace
  BY <1>3 DEF ReadTrace
<1>4. CASE StartValid
  BY <1>4 DEF StartValid
<1>5. ASSUME NEW p \in Results, NEW b \in Breaks, NEW kept \in BOOLEAN, Place(p, b, kept)
      PROVE  UNCHANGED timingvars
  BY <1>5 DEF Place
<1>6. ASSUME NEW b \in Breaks, Release(b) PROVE UNCHANGED timingvars
  BY <1>6 DEF Release
<1>7. ASSUME NEW i \in Ids, ExitFree(i) PROVE UNCHANGED timingvars
  BY <1>7 DEF ExitFree
<1>8. CASE ExitValid
  BY <1>8 DEF ExitValid
<1>9. CASE Invalid
  BY <1>9 DEF Invalid
<1>10. CASE Util
  BY <1>10, UtilFacts
<1>11. CASE LibcValid
  BY <1>11 DEF LibcValid
<1>12. CASE StartSpeed
  BY <1>12 DEF StartSpeed
<1>13. CASE Speed
  BY <1>13 DEF Speed
<1>14. CASE Timed
  BY <1>14 DEF Timed
<1> QED
  BY <1>1, <1>2, <1>3, <1>4, <1>5, <1>6, <1>7, <1>8, <1>9, <1>10, <1>11, <1>12, <1>13,
     <1>14 DEF JNext

LEMMA TimingInvariant == JSpec => [](TickInv /\ TimingInv)
<1>1. JInit => TickInv /\ TimingInv
  BY TimingInitial DEF JInit
<1>2. TickInv /\ TimingInv /\ [JNext]_jvars => (TickInv /\ TimingInv)'
  BY DriverTimes, TickStep, SamplesStep
<1> QED
  BY <1>1, <1>2, PTL DEF JSpec

LEMMA Kept == TimingInv => TimesAreMeasured
<1> SUFFICES ASSUME TimingInv PROVE TimesAreMeasured
  OBVIOUS
<1>1. Len(samples) \in Nat
  BY LenProperties DEF TimingInv
<1>2. ASSUME NEW i \in 1 .. Len(samples) - 1 PROVE samples[i] <= samples[i + 1]
  <2>1. i \in 1 .. Len(samples) /\ i + 1 \in 1 .. Len(samples) /\ i <= i + 1
    BY <1>1
  <2> QED
    BY <2>1 DEF TimingInv, Sorted
<1> QED
  BY <1>2 DEF TimingInv, TimesAreMeasured, Smallest

\* A counted tick takes away what it is known to cost, and what is measured of
\* a tick is what it does cost.
LEMMA Compensated == TickInv => CompensationBound
<1> SUFFICES ASSUME TickInv, cyc_per_tick # 0, platform = "i386",
                    NEW c \in Counter, NEW d \in Costs, NEW n \in 0 .. MaxTicks,
                    NEW between \in 0 .. 2, NEW kernel \in 0 .. n
             PROVE  LET time == d + (kernel - between) * TickCost
                        user == n - kernel + between
                    IN Sample(c, d, n, kernel, between) \in time - user * THRESHOLD .. time
  BY DEF CompensationBound
<1> DEFINE time == d + (kernel - between) * TickCost
           user == n - kernel + between
           x == d + n * TickCost
<1>1. /\ d \in Nat /\ n \in Nat /\ kernel \in Nat /\ between \in Nat /\ user \in Nat
      /\ TickCost \in Nat /\ THRESHOLD \in Nat
      /\ n * TickCost \in Nat /\ x \in Counter /\ c \in Int
      /\ cyc_per_tick \in TickCost + 1 .. TickCost + THRESHOLD
  BY TimingNumbers, RunFits DEF TickInv, Counter
<1>2. c + d + n * TickCost = c + x
  BY <1>1
<1>3. Sample(c, d, n, kernel, between) = x - user * cyc_per_tick
  <2>1. get_counter(c, (c + d + n * TickCost) % (Half * Half)) = x
    BY <1>1, <1>2, CounterMeasures
  <2> QED
    BY <2>1 DEF Sample, get_comp_counter, Counted
<1>4. /\ n * TickCost = (kernel - between) * TickCost + user * TickCost
      /\ user * TickCost - user * cyc_per_tick <= 0
      /\ 0 - user * THRESHOLD <= user * TickCost - user * cyc_per_tick
      /\ user * cyc_per_tick \in Int /\ user * THRESHOLD \in Int /\ user * TickCost \in Int
      /\ (kernel - between) * TickCost \in Int
  <2>1. n = (kernel - between) + user /\ kernel - between \in Int
    BY <1>1
  <2> HIDE DEF user
  <2>2. n * TickCost = (kernel - between) * TickCost + user * TickCost
    BY <1>1, <2>1
  <2> QED
    BY <1>1, <2>1, <2>2
<1> HIDE DEF user
<1>5. Sample(c, d, n, kernel, between) \in time - user * THRESHOLD .. time
  BY <1>1, <1>3, <1>4
<1> QED
  BY <1>5 DEF user

\* fcyc keeps the K smallest samples and returns the smallest of all, when K
\* of them agree or MAXSAMPLES are taken; the ftimer functions return the time
\* of all their runs (fcyc.c, ftimer.c).
THEOREM SamplesAreKept == JSpec => []TimesAreMeasured
BY Kept, TimingInvariant, PTL

\* Once callibrate has seen a tick, a sample is what f took, short of at most
\* THRESHOLD for each tick that times() counted: those of kernel mode are not
\* taken off, and those between two readings are taken off although they were
\* not measured (start_comp_counter, get_comp_counter and callibrate of clock.c).
THEOREM CompensationIsBounded == JSpec => []CompensationBound
BY Compensated, TimingInvariant, PTL

\* The same of fsecs alone, whoever calls it.
THEOREM FsecsMeasures == TimingSpec => [](TimesAreMeasured /\ CompensationBound)
<1>1. TickInv /\ TimingInv /\ [TimingStep \/ Fsecs \/ FsecsReturns]_timingvars
        => (TickInv /\ TimingInv)'
  BY TickStep, SamplesStep
<1> QED
  BY <1>1, TimingInitial, Kept, Compensated, PTL DEF TimingSpec
=============================================================================
