--------------------------- MODULE MDriverProofs ---------------------------
(***************************************************************************)
(* The allocator mm.c under its driver: for every size of memory and chunk,*)
(* every trace and whatever memory held before, mm.c implements module     *)
(* Heap call by call, its checker finds nothing, its tags and lists are    *)
(* exact, payloads are never touched, and a trace that passed once passes, *)
(* at the same addresses, again.                                           *)
(*                                                                         *)
(* The invariant is Whole(h, s): the memory h holds s, a record of the     *)
(* blocks s.B, the contents s.L of the ten lists and the end s.t, all in   *)
(* double words and without an address in memory.  It says that            *)
(*   - the blocks tile the heap, and no two free ones are neighbours (what *)
(*     HeapProofs proves of module Heap's sets of blocks is used for that);*)
(*   - header and footer of each block are its size and whether it is used;*)
(*   - each list has the free blocks of its category, smallest first, with *)
(*     links to the next and the previous one;                             *)
(*   - prologue, epilogue and mem_brk are in place.                        *)
(*                                                                         *)
(* For each function of mm.c there is an operator on such records (Unlisted*)
(* for remove_free_block, With for insert_free_block, Longer for           *)
(* extend_heap, Placed for place, After for mm_malloc, Freed for mm_free,  *)
(* Fresh for mm_init) and a lemma that says that the function, run on a    *)
(* memory which holds s, leaves one which holds what the operator makes of *)
(* s, and spares the payload of every other block in use (Spares).  The    *)
(* loops of find_fit, insert_free_block, mm_check and mm_exit are walks    *)
(* along functions of the number of steps, by induction on that number.    *)
(*                                                                         *)
(* The driver's state adds Owns: the indices in use own the blocks in use, *)
(* one each, the range list has their payloads, and each payload is filled *)
(* with its index (DriverInv).  For the replays the whole history of the   *)
(* trace is kept: what the heap held after each request (PassInv).  As the *)
(* operators on s are functions of the requests alone, a replay goes       *)
(* through the same history, whatever memory holds outside of s.           *)
(***************************************************************************)
EXTENDS Passes, NatLemmas, SequenceTheorems

\* The lemmas about module Heap, for the heap of mm.c.
HP == INSTANCE HeapProofs WITH
  Base  <- FirstBlock \div DSIZE,
  Chunk <- CHUNKSIZE \div DSIZE,
  Limit <- (Start + MAX_HEAP) \div DSIZE,
  Sizes <- {Size(n) : n \in Requests},
  blocks <- Blocks,
  top   <- heap.brk \div DSIZE

-----------------------------------------------------------------------------
(* Memory.                                                                 *)

Heaps == [mem : [Words -> Nat], brk : Nat]

LEMMA PutFacts ==
  ASSUME NEW h \in Heaps, NEW a \in Words, NEW v \in Nat
  PROVE  /\ PUT(h, a, v) \in Heaps /\ PUT(h, a, v).brk = h.brk
         /\ \A c \in Words : PUT(h, a, v).mem[c] = IF c = a THEN v ELSE h.mem[c]
BY DEF PUT, Heaps

\* The first block, in double words.
First == FirstBlock \div DSIZE

LEMMA WordFacts ==
  /\ Start \in Nat \ {0} /\ Start % 8 = 0 /\ MAX_HEAP \in Nat
  /\ \A a \in Int : a \in Words <=> Start <= a /\ a < Start + MAX_HEAP /\ a % 4 = 0
BY MemoryAssumption DEF Words, WSIZE

LEMMA FirstFacts ==
  /\ First \in Nat /\ 8 * First = FirstBlock /\ FirstBlock = Start + 56
  /\ First = FirstBlock \div DSIZE /\ First > 7
  /\ 56 + CHUNKSIZE <= MAX_HEAP /\ CHUNKSIZE \in Nat \ {0} /\ CHUNKSIZE % 16 = 0
BY MemoryAssumption DEF First, FirstBlock, DSIZE, WSIZE

LEMMA RootFacts ==
  ASSUME NEW i \in 0 .. 13
  PROVE  /\ RootOf(i) \in Words /\ RootOf(i) = Start + 4 * i /\ RootOf(i) \in Nat
         /\ RootOf(i) # 0
BY WordFacts, MemoryAssumption DEF RootOf, WSIZE

\* What GET_SIZE and GET_ALLOC make of a tag.
LEMMA TagFacts ==
  ASSUME NEW n \in Nat, NEW v, v = 8 * n \/ v = 8 * n + 1
  PROVE  v \in Nat /\ v - (v % 8) = 8 * n /\ (v % 2 = 0 <=> v = 8 * n)
OBVIOUS

-----------------------------------------------------------------------------
(* Blocks in memory.                                                       *)

Bit(b) == IF b.used THEN 1 ELSE 0

\* Blocks that tile the heap from First to t.
Laid(B, t) ==
  /\ t \in Nat /\ 8 * t <= Start + MAX_HEAP
  /\ HP!Good(B, t)
  /\ \A b \in B : b.len >= 2

Tagged(h, B, t) ==
  /\ h.brk = 8 * t
  /\ \A b \in B : /\ h.mem[8 * b.lo - 4] = 8 * b.len + Bit(b)
                  /\ h.mem[8 * (b.lo + b.len) - 8] = 8 * b.len + Bit(b)
  /\ h.mem[8 * t - 4] = 1
  /\ h.mem[Start + 44] = 9 /\ h.mem[Start + 48] = 9

Apart(b, c) == b = c \/ b.lo + b.len <= c.lo \/ c.lo + c.len <= b.lo

LEMMA LaidFacts ==
  ASSUME NEW B, NEW t, Laid(B, t)
  PROVE  /\ t \in Nat /\ First < t /\ 8 * t <= Start + MAX_HEAP
         /\ \A b \in B : /\ b.lo \in Nat /\ b.len \in Nat /\ b.len >= 2
                         /\ b.used \in BOOLEAN /\ b \in HP!Block
                         /\ First <= b.lo /\ b.lo + b.len <= t
         /\ \A b, c \in B : Apart(b, c)
<1>1. t \in Nat /\ HP!Good(B, t) /\ \A b \in B : b.len >= 2
  BY DEF Laid
<1>2. \A b \in B : /\ b.lo \in Nat /\ b.len \in Nat /\ b.used \in BOOLEAN /\ b \in HP!Block
  BY <1>1 DEF HP!Good, HP!Block
<1>3. \A b \in B : First <= b.lo /\ b.lo + b.len <= t
  BY <1>1 DEF HP!Good, HP!TilesIn, HP!End, First
<1>4. \A b, c \in B : Apart(b, c)
  BY <1>1 DEF HP!Good, HP!DisjointIn, HP!End, Apart
<1>5. First < t
  <2>1. \E b \in B : TRUE
    BY <1>1 DEF HP!Good, HP!TilesIn
  <2> QED
    BY <2>1, <1>1, <1>2, <1>3, FirstFacts
<1> QED
  BY <1>1, <1>2, <1>3, <1>4, <1>5 DEF Laid

\* The addresses of a block, and those at the end of the heap.
LEMMA BlockWords ==
  ASSUME NEW lo \in Nat, NEW len \in Nat, NEW t \in Nat, 8 * t <= Start + MAX_HEAP,
         len >= 2, First <= lo, lo + len <= t
  PROVE  /\ 8 * lo - 4 \in Words /\ 8 * lo \in Words /\ 8 * lo + 4 \in Words
         /\ 8 * (lo + len) - 8 \in Words
         /\ 8 * lo # 0 /\ 8 * lo \in Nat
BY WordFacts, FirstFacts

LEMMA EndWords ==
  ASSUME NEW t \in Nat, 8 * t <= Start + MAX_HEAP, First <= t
  PROVE  8 * t - 4 \in Words /\ Start + 44 \in Words /\ Start + 48 \in Words
BY WordFacts, FirstFacts

\* The size the code reads in a block's header.
LEMMA SizeIs ==
  ASSUME NEW h, NEW B, NEW t, Laid(B, t), Tagged(h, B, t), NEW b \in B
  PROVE  /\ SIZE(h, 8 * b.lo) = 8 * b.len
         /\ GET_ALLOC(h, HDRP(8 * b.lo)) = Bit(b)
         /\ GET_SIZE(h, 8 * (b.lo + b.len) - 8) = 8 * b.len
         /\ GET_ALLOC(h, 8 * (b.lo + b.len) - 8) = Bit(b)
<1>1. b.len \in Nat /\ b.lo \in Nat
  BY LaidFacts
<1>2. /\ h.mem[8 * b.lo - 4] = 8 * b.len + Bit(b)
      /\ h.mem[8 * (b.lo + b.len) - 8] = 8 * b.len + Bit(b)
  BY DEF Tagged
<1>3. Bit(b) = 0 \/ Bit(b) = 1
  BY DEF Bit
<1> HIDE DEF Bit
<1>4. /\ (8 * b.len + Bit(b)) - ((8 * b.len + Bit(b)) % 8) = 8 * b.len
      /\ (8 * b.len + Bit(b)) % 2 = Bit(b)
  BY <1>1, <1>3
<1> QED
  BY <1>1, <1>2, <1>4 DEF SIZE, GET_SIZE, GET_ALLOC, GET, HDRP, WSIZE

-----------------------------------------------------------------------------
(* Categories.                                                             *)

LEMMA BoundFacts == \A i \in 1 .. 9 : Bound[i] \in Nat
BY DEF Bound

LEMMA CategoryFacts ==
  ASSUME NEW n \in Nat
  PROVE  /\ Category(n) \in Roots
         /\ Category(n) = 9 \/ n <= Bound[Category(n) + 1]
         /\ \A j \in 0 .. Category(n) - 1 : n > Bound[j + 1]
<1> DEFINE Fine(i) == /\ i = 9 \/ n <= Bound[i + 1]
                      /\ \A j \in 0 .. i - 1 : n > Bound[j + 1]
<1>1. \E i \in Roots : Fine(i)
  <2> DEFINE T == {i \in Nat : i = 9 \/ (i < 9 /\ n <= Bound[i + 1])}
  <2>1. T \in SUBSET Nat /\ 9 \in T
    OBVIOUS
  <2>2. PICK i \in T : \A j \in T : i <= j
    BY <2>1, LeastNatural
  <2>3. i \in Roots /\ i <= 9
    BY <2>1, <2>2 DEF Roots
  <2>4. ASSUME NEW j \in 0 .. i - 1 PROVE n > Bound[j + 1]
    <3>1. j \in Nat /\ j < 9 /\ j \notin T /\ j + 1 \in 1 .. 9
      BY <2>2, <2>3 DEF Roots
    <3> QED
      BY <3>1, BoundFacts
  <2> QED
    BY <2>2, <2>3, <2>4
<1>2. Fine(Category(n)) /\ Category(n) \in Roots
  BY <1>1 DEF Category
<1> QED
  BY <1>2

\* Larger blocks are in later lists.
LEMMA CategoryGrows ==
  ASSUME NEW m \in Nat, NEW n \in Nat, m <= n
  PROVE  Category(m) <= Category(n)
<1>1. /\ Category(m) \in Roots /\ Category(n) \in Roots
      /\ Category(n) = 9 \/ n <= Bound[Category(n) + 1]
      /\ \A j \in 0 .. Category(m) - 1 : m > Bound[j + 1]
  BY CategoryFacts
<1> SUFFICES ASSUME Category(n) < Category(m) PROVE FALSE
  BY <1>1 DEF Roots
<1>2. /\ Category(n) \in 0 .. Category(m) - 1 /\ Category(n) # 9
      /\ Category(n) + 1 \in 1 .. 9
  BY <1>1 DEF Roots
<1> QED
  BY <1>1, <1>2, BoundFacts

-----------------------------------------------------------------------------
(* A list: its length s.n and its blocks s.at[1] .. s.at[s.n].             *)

Cat(b) == Category(8 * b.len)

Addr(s, k) == IF k \in 1 .. s.n THEN 8 * s.at[k].lo ELSE 0

\* The links of memory are those of the list s of root i.
Chain(h, i, s) ==
  /\ s.n \in Nat
  /\ h.mem[RootOf(i)] = Addr(s, 1)
  /\ \A k \in 1 .. s.n : /\ h.mem[8 * s.at[k].lo + 4] = Addr(s, k + 1)
                         /\ h.mem[8 * s.at[k].lo] = Addr(s, k - 1)

\* s lists the blocks of F that belong to root i, smaller ones first.
Order(i, s, F) ==
  /\ s.n \in Nat
  /\ \A k \in 1 .. s.n : s.at[k] \in F /\ Cat(s.at[k]) = i
  /\ \A j, k \in 1 .. s.n : j < k => s.at[j].len <= s.at[k].len /\ s.at[j] # s.at[k]
  /\ \A b \in F : Cat(b) = i => \E k \in 1 .. s.n : s.at[k] = b

Lists(h, F, L) ==
  /\ L = [i \in Roots |-> L[i]]
  /\ \A i \in Roots : Chain(h, i, L[i]) /\ Order(i, L[i], F)

FreeOf(B) == {b \in B : ~b.used}

\* The place of x, and the list without it.
PlaceOf(s, x) == CHOOSE m \in 1 .. s.n : s.at[m] = x

Without(s, x) ==
  LET m == PlaceOf(s, x)
  IN [n  |-> s.n - 1,
      at |-> [j \in 1 .. s.n - 1 |-> IF j < m THEN s.at[j] ELSE s.at[j + 1]]]

\* The first place at which a block is at least n bytes.
FirstFit(s, n) == CHOOSE m \in 1 .. s.n + 1 :
                    /\ m = s.n + 1 \/ 8 * s.at[m].len >= n
                    /\ \A j \in 1 .. m - 1 : 8 * s.at[j].len < n

With(s, x) ==
  LET m == FirstFit(s, 8 * x.len)
  IN [n  |-> s.n + 1,
      at |-> [j \in 1 .. s.n + 1 |->
                IF j < m THEN s.at[j] ELSE IF j = m THEN x ELSE s.at[j - 1]]]

Unlisted(L, x) == [L EXCEPT ![Cat(x)] = Without(@, x)]
Listed(L, x)   == [L EXCEPT ![Cat(x)] = With(@, x)]

LEMMA CatFacts ==
  ASSUME NEW b, b.len \in Nat
  PROVE  Cat(b) \in Roots
BY CategoryFacts DEF Cat

LEMMA PlaceFacts ==
  ASSUME NEW i, NEW s, NEW F, Order(i, s, F), NEW x \in F, Cat(x) = i
  PROVE  PlaceOf(s, x) \in 1 .. s.n /\ s.at[PlaceOf(s, x)] = x
BY DEF Order, PlaceOf

LEMMA FirstFitFacts ==
  ASSUME NEW s, s.n \in Nat, \A k \in 1 .. s.n : s.at[k].len \in Nat, NEW n \in Nat
  PROVE  /\ FirstFit(s, n) \in 1 .. s.n + 1
         /\ FirstFit(s, n) = s.n + 1 \/ 8 * s.at[FirstFit(s, n)].len >= n
         /\ \A j \in 1 .. FirstFit(s, n) - 1 : 8 * s.at[j].len < n
<1> DEFINE Fine(m) == /\ m = s.n + 1 \/ 8 * s.at[m].len >= n
                      /\ \A j \in 1 .. m - 1 : 8 * s.at[j].len < n
           T == {m \in Nat : m = s.n + 1 \/ (m \in 1 .. s.n /\ 8 * s.at[m].len >= n)}
<1>1. T \in SUBSET Nat /\ s.n + 1 \in T
  OBVIOUS
<1>2. PICK m \in T : \A j \in T : m <= j
  BY <1>1, LeastNatural
<1>3. m \in 1 .. s.n + 1 /\ (m = s.n + 1 \/ 8 * s.at[m].len >= n)
  BY <1>1, <1>2
<1>4. ASSUME NEW j \in 1 .. m - 1 PROVE 8 * s.at[j].len < n
  <2>1. j \in Nat /\ j \in 1 .. s.n /\ j \notin T
    BY <1>2, <1>3
  <2>2. s.at[j].len \in Nat /\ ~(8 * s.at[j].len >= n)
    BY <2>1
  <2> QED
    BY <2>2
<1>5. \E l \in 1 .. s.n + 1 : Fine(l)
  BY <1>3, <1>4
<1> QED
  BY <1>5 DEF FirstFit

LEMMA WithoutOrder ==
  ASSUME NEW i, NEW s, NEW F, Order(i, s, F), \A b \in F : b.len \in Nat,
         NEW x \in F, Cat(x) = i
  PROVE  Order(i, Without(s, x), F \ {x})
<1> DEFINE m == PlaceOf(s, x)
           r == Without(s, x)
<1>0. s.n \in Nat
  BY DEF Order
<1>1. m \in 1 .. s.n /\ s.at[m] = x /\ s.n \in Nat
  BY <1>0, PlaceFacts
<1>2. /\ r.n = s.n - 1 /\ r.n \in Nat
      /\ \A j \in 1 .. r.n : r.at[j] = IF j < m THEN s.at[j] ELSE s.at[j + 1]
  BY <1>1 DEF Without
<1> HIDE DEF r, m
<1>3. /\ \A k \in 1 .. s.n : s.at[k] \in F /\ Cat(s.at[k]) = i
      /\ \A j, k \in 1 .. s.n : j < k => s.at[j].len <= s.at[k].len /\ s.at[j] # s.at[k]
      /\ \A b \in F : Cat(b) = i => \E k \in 1 .. s.n : s.at[k] = b
  BY DEF Order
<1>4. \A k \in 1 .. r.n : r.at[k] \in F \ {x} /\ Cat(r.at[k]) = i
  <2> TAKE k \in 1 .. r.n
  <2>1. CASE k < m
    BY <2>1, <1>1, <1>2, <1>3
  <2>2. CASE ~(k < m)
    BY <2>2, <1>1, <1>2, <1>3
  <2> QED
    BY <2>1, <2>2
<1>5. \A j, k \in 1 .. r.n : j < k => r.at[j].len <= r.at[k].len /\ r.at[j] # r.at[k]
  <2> SUFFICES ASSUME NEW j \in 1 .. r.n, NEW k \in 1 .. r.n, j < k
               PROVE  r.at[j].len <= r.at[k].len /\ r.at[j] # r.at[k]
    OBVIOUS
  <2>1. PICK p \in 1 .. s.n : r.at[j] = s.at[p] /\ p = IF j < m THEN j ELSE j + 1
    BY <1>1, <1>2
  <2>2. PICK q \in 1 .. s.n : r.at[k] = s.at[q] /\ q = IF k < m THEN k ELSE k + 1
    BY <1>1, <1>2
  <2>3. p < q
    BY <2>1, <2>2, <1>1, <1>2
  <2> QED
    BY <2>1, <2>2, <2>3, <1>3
<1>6. \A b \in F \ {x} : Cat(b) = i => \E k \in 1 .. r.n : r.at[k] = b
  <2> SUFFICES ASSUME NEW b \in F \ {x}, Cat(b) = i PROVE \E k \in 1 .. r.n : r.at[k] = b
    OBVIOUS
  <2>1. PICK k \in 1 .. s.n : s.at[k] = b
    BY <1>3
  <2>2. k # m
    BY <2>1, <1>1
  <2>3. CASE k < m
    <3>1. k \in 1 .. r.n /\ r.at[k] = b
      BY <2>1, <2>3, <1>1, <1>2
    <3> QED
      BY <3>1
  <2>4. CASE k > m
    <3>1. k - 1 \in 1 .. r.n /\ ~(k - 1 < m) /\ (k - 1) + 1 = k
      BY <2>1, <2>4, <1>1, <1>2
    <3>2. r.at[k - 1] = b
      BY <3>1, <2>1, <1>2
    <3> QED
      BY <3>1, <3>2
  <2> QED
    BY <2>2, <2>3, <2>4, <1>1
<1> QED
  BY <1>2, <1>4, <1>5, <1>6 DEF Order, r

LEMMA WithOrder ==
  ASSUME NEW i, NEW s, NEW F, Order(i, s, F), \A b \in F : b.len \in Nat,
         NEW x, x.len \in Nat, x \notin F, Cat(x) = i
  PROVE  Order(i, With(s, x), F \cup {x})
<1> DEFINE m == FirstFit(s, 8 * x.len)
           r == With(s, x)
<1>1. /\ \A k \in 1 .. s.n : s.at[k] \in F /\ Cat(s.at[k]) = i /\ s.at[k].len \in Nat
      /\ \A j, k \in 1 .. s.n : j < k => s.at[j].len <= s.at[k].len /\ s.at[j] # s.at[k]
      /\ \A b \in F : Cat(b) = i => \E k \in 1 .. s.n : s.at[k] = b
      /\ s.n \in Nat
  BY DEF Order
<1>2. /\ m \in 1 .. s.n + 1
      /\ m = s.n + 1 \/ s.at[m].len >= x.len
      /\ \A j \in 1 .. m - 1 : s.at[j].len < x.len
  <2>1. 8 * x.len \in Nat /\ s.n \in Nat /\ \A k \in 1 .. s.n : s.at[k].len \in Nat
    BY <1>1
  <2>2. /\ m \in 1 .. s.n + 1
        /\ m = s.n + 1 \/ 8 * s.at[m].len >= 8 * x.len
        /\ \A j \in 1 .. m - 1 : 8 * s.at[j].len < 8 * x.len
    BY <2>1, FirstFitFacts
  <2> HIDE DEF m
  <2>3. m = s.n + 1 \/ m \in 1 .. s.n
    BY <2>1, <2>2
  <2>4. \A j \in 1 .. m - 1 : j \in 1 .. s.n
    BY <2>1, <2>2
  <2> QED
    BY <2>1, <2>2, <2>3, <2>4
<1>3. /\ r.n = s.n + 1 /\ r.n \in Nat
      /\ \A j \in 1 .. r.n : r.at[j] = IF j < m THEN s.at[j] ELSE IF j = m THEN x ELSE s.at[j - 1]
  BY <1>1, <1>2 DEF With
<1> HIDE DEF r, m
<1>4. \A k \in 1 .. r.n : r.at[k] \in F \cup {x} /\ Cat(r.at[k]) = i
  <2> TAKE k \in 1 .. r.n
  <2>1. CASE k < m
    BY <2>1, <1>1, <1>2, <1>3
  <2>2. CASE k > m
    BY <2>2, <1>1, <1>2, <1>3
  <2>3. CASE k = m
    BY <2>3, <1>1, <1>2, <1>3
  <2> QED
    BY <2>1, <2>2, <2>3, <1>2
<1>5. \A j, k \in 1 .. r.n : j < k => r.at[j].len <= r.at[k].len /\ r.at[j] # r.at[k]
  <2> SUFFICES ASSUME NEW j \in 1 .. r.n, NEW k \in 1 .. r.n, j < k
               PROVE  r.at[j].len <= r.at[k].len /\ r.at[j] # r.at[k]
    OBVIOUS
  <2>1. CASE j = m
    <3>1. k - 1 \in 1 .. s.n /\ r.at[k] = s.at[k - 1] /\ r.at[j] = x /\ m \in 1 .. s.n
          /\ m <= k - 1
      BY <2>1, <1>1, <1>2, <1>3
    <3>2. s.at[m].len <= s.at[k - 1].len /\ s.at[m].len >= x.len /\ s.at[m].len \in Nat
          /\ s.at[k - 1].len \in Nat
      BY <3>1, <1>1, <1>2
    <3> QED
      BY <3>1, <3>2, <1>1
  <2>2. CASE k = m
    <3>1. j \in 1 .. m - 1 /\ j \in 1 .. s.n /\ r.at[j] = s.at[j] /\ r.at[k] = x
      BY <2>2, <1>1, <1>2, <1>3
    <3> QED
      BY <3>1, <1>1, <1>2
  <2>3. CASE j # m /\ k # m
    <3>1. PICK p \in 1 .. s.n : r.at[j] = s.at[p] /\ p = IF j < m THEN j ELSE j - 1
      BY <2>3, <1>1, <1>2, <1>3
    <3>2. PICK q \in 1 .. s.n : r.at[k] = s.at[q] /\ q = IF k < m THEN k ELSE k - 1
      BY <2>3, <1>1, <1>2, <1>3
    <3>3. p < q
      BY <3>1, <3>2, <2>3, <1>2
    <3> QED
      BY <3>1, <3>2, <3>3, <1>1
  <2> QED
    BY <2>1, <2>2, <2>3
<1>6. \A b \in F \cup {x} : Cat(b) = i => \E k \in 1 .. r.n : r.at[k] = b
  <2> SUFFICES ASSUME NEW b \in F \cup {x}, Cat(b) = i PROVE \E k \in 1 .. r.n : r.at[k] = b
    OBVIOUS
  <2>1. CASE b = x
    BY <2>1, <1>1, <1>2, <1>3
  <2>2. CASE b \in F
    <3>1. PICK k \in 1 .. s.n : s.at[k] = b
      BY <2>2, <1>1
    <3>2. CASE k < m
      <4>1. k \in 1 .. r.n /\ r.at[k] = b
        BY <3>1, <3>2, <1>1, <1>2, <1>3
      <4> QED
        BY <4>1
    <3>3. CASE ~(k < m)
      <4>1. k + 1 \in 1 .. r.n /\ ~(k + 1 < m) /\ k + 1 # m /\ (k + 1) - 1 = k
        BY <3>1, <3>3, <1>1, <1>2, <1>3
      <4>2. r.at[k + 1] = b
        BY <4>1, <3>1, <1>3
      <4> QED
        BY <4>1, <4>2
    <3> QED
      BY <3>2, <3>3
  <2> QED
    BY <2>1, <2>2
<1> QED
  BY <1>3, <1>4, <1>5, <1>6 DEF Order, r

-----------------------------------------------------------------------------
(* Lists in memory.                                                        *)

\* The heap h of the blocks B up to t, of which the lists L hold F.
Sound(h, B, F, L, t) ==
  /\ h \in Heaps
  /\ Laid(B, t) /\ Tagged(h, B, t)
  /\ F \subseteq FreeOf(B) /\ Lists(h, F, L)

RootWord(a)    == \E i \in Roots : a = RootOf(i)
LinkWord(a, F) == \E b \in F : a = 8 * b.lo \/ a = 8 * b.lo + 4

\* Only roots and the links of F differ.
OnlyLinks(h, g, F) ==
  /\ g \in Heaps /\ g.brk = h.brk
  /\ \A a \in Words : g.mem[a] = h.mem[a] \/ RootWord(a) \/ LinkWord(a, F)

LEMMA Parity ==
  ASSUME NEW x \in Int, NEW y \in Int, NEW z \in Int
  PROVE  /\ 8 * x # 8 * y + 4 /\ 8 * x - 4 # 8 * y /\ 8 * (x + z) - 8 # 8 * y + 4
         /\ 8 * x - 4 # 8 * y + 4 <=> x # y + 1
<1>1. 8 * x # 8 * y + 4
  OBVIOUS
<1>2. 8 * x - 4 # 8 * y
  OBVIOUS
<1>3. 8 * (x + z) - 8 # 8 * y + 4
  OBVIOUS
<1> QED
  BY <1>1, <1>2, <1>3

LEMMA LinksApart ==
  ASSUME NEW B, NEW t, Laid(B, t), NEW b \in B, NEW c \in B
  PROVE  /\ b.lo \in Nat /\ c.lo \in Nat
         /\ b.lo = c.lo <=> b = c
         /\ 8 * b.lo # 8 * c.lo + 4 /\ 8 * b.lo - 4 # 8 * c.lo /\ 8 * b.lo - 4 # 8 * c.lo + 4
         /\ 8 * (b.lo + b.len) - 8 # 8 * c.lo + 4
         /\ 8 * (b.lo + b.len) - 8 # 8 * c.lo
<1>1. /\ b.lo \in Nat /\ b.len \in Nat /\ b.len >= 2 /\ c.lo \in Nat /\ c.len \in Nat
      /\ c.len >= 2 /\ Apart(b, c)
  BY LaidFacts
<1>2. b.lo = c.lo => b = c
  BY <1>1 DEF Apart
<1>3. b = c => 8 * (b.lo + b.len) - 8 # 8 * c.lo
  BY <1>1
<1>4. b # c => 8 * (b.lo + b.len) - 8 # 8 * c.lo
  <2> SUFFICES ASSUME b # c, 8 * (b.lo + b.len) - 8 = 8 * c.lo PROVE FALSE
    OBVIOUS
  <2>1. b.lo + b.len - 1 = c.lo
    BY <1>1
  <2> QED
    BY <2>1, <1>1 DEF Apart
<1>5. b.lo = c.lo <=> b = c
  BY <1>2
<1>7. b.lo # c.lo + 1
  BY <1>1 DEF Apart
<1>6. /\ 8 * b.lo # 8 * c.lo + 4 /\ 8 * b.lo - 4 # 8 * c.lo /\ 8 * b.lo - 4 # 8 * c.lo + 4
      /\ 8 * (b.lo + b.len) - 8 # 8 * c.lo + 4
  BY <1>1, <1>7, Parity
<1> QED
  BY <1>1, <1>3, <1>4, <1>5, <1>6

\* Roots lie below all blocks.
LEMMA RootsApart ==
  ASSUME NEW B, NEW t, Laid(B, t), NEW i \in Roots, NEW b \in B
  PROVE  /\ RootOf(i) < 8 * b.lo - 4 /\ RootOf(i) \in Words /\ RootOf(i) \in Nat
         /\ \A j \in Roots : RootOf(i) = RootOf(j) => i = j
         /\ RootOf(i) < Start + 44
<1>1. /\ b.lo \in Nat /\ First <= b.lo /\ 8 * First = Start + 56 /\ Start \in Nat
      /\ First \in Nat /\ i \in 0 .. 13 /\ i <= 9
  BY LaidFacts, FirstFacts, WordFacts DEF Roots
<1>2. RootOf(i) = Start + 4 * i /\ RootOf(i) \in Words /\ RootOf(i) \in Nat
  BY <1>1, RootFacts
<1>3. \A j \in Roots : RootOf(j) = Start + 4 * j /\ j \in Nat
  BY RootFacts DEF Roots
<1> QED
  BY <1>1, <1>2, <1>3

LEMMA AddrFacts ==
  ASSUME NEW B, NEW t, Laid(B, t), NEW F \in SUBSET B, NEW i, NEW s, Order(i, s, F), NEW k \in Int
  PROVE  /\ Addr(s, k) \in Nat
         /\ Addr(s, k) = 0 <=> k \notin 1 .. s.n
         /\ Addr(s, k) # 0 => /\ Addr(s, k) \in Words /\ Addr(s, k) + 4 \in Words
                              /\ s.at[k] \in F /\ Cat(s.at[k]) = i
                              /\ Addr(s, k) = 8 * s.at[k].lo
<1>1. CASE k \notin 1 .. s.n
  BY <1>1 DEF Addr
<1>2. CASE k \in 1 .. s.n
  <2>1. s.at[k] \in F /\ Cat(s.at[k]) = i /\ s.at[k] \in B
    BY <1>2 DEF Order
  <2>2. 8 * s.at[k].lo \in Words /\ 8 * s.at[k].lo + 4 \in Words /\ 8 * s.at[k].lo # 0
        /\ 8 * s.at[k].lo \in Nat
    <3>1. /\ s.at[k].lo \in Nat /\ s.at[k].len \in Nat /\ s.at[k].len >= 2 /\ t \in Nat
          /\ 8 * t <= Start + MAX_HEAP /\ First <= s.at[k].lo /\ s.at[k].lo + s.at[k].len <= t
      BY <2>1, LaidFacts
    <3> QED
      BY <3>1, BlockWords
  <2> QED
    BY <1>2, <2>1, <2>2 DEF Addr
<1> QED
  BY <1>1, <1>2

LEMMA NoLinksFacts ==
  ASSUME NEW h \in Heaps, NEW p \in Words, p + 4 \in Words, NEW g, g = NoLinks(h, p)
  PROVE  /\ g \in Heaps /\ g.brk = h.brk
         /\ \A d \in Words : g.mem[d] = IF d = p \/ d = p + 4 THEN 0 ELSE h.mem[d]
BY DEF NoLinks, PREV_LINK, NEXT_LINK, WSIZE, PUT, Heaps

LEMMA TagIs ==
  ASSUME NEW h \in Heaps, NEW p, NEW n, NEW alloc, n + alloc \in Nat,
         p - 4 \in Words, p + n - 8 \in Words, NEW g, g = Tag(h, p, n, alloc)
  PROVE  /\ g \in Heaps /\ g.brk = h.brk
         /\ \A d \in Words : g.mem[d] = IF d = p - 4 \/ d = p + n - 8 THEN n + alloc
                                        ELSE h.mem[d]
BY DEF Tag, HDRP, WSIZE, DSIZE, PUT, Heaps

\* What the writes of remove_free_block leave in memory.
LEMMA RemoveWrites ==
  ASSUME NEW h \in Heaps, NEW p \in Words, p + 4 \in Words,
         NEW prevp \in Nat, NEW nextp \in Nat, NEW to \in Words,
         NEW h1, h1 = IF nextp = 0 THEN h ELSE PUT(h, nextp, prevp),
         nextp # 0 => nextp \in Words,
         NEW g, g = NoLinks(PUT(h1, to, nextp), p)
  PROVE  /\ g \in Heaps /\ g.brk = h.brk
         /\ \A a \in Words :
              g.mem[a] = IF a = p \/ a = p + 4 THEN 0
                         ELSE IF a = to THEN nextp
                         ELSE IF nextp # 0 /\ a = nextp THEN prevp ELSE h.mem[a]
<1>1. CASE nextp = 0
  BY <1>1 DEF NoLinks, PREV_LINK, NEXT_LINK, WSIZE, PUT, Heaps
<1>2. CASE nextp # 0
  BY <1>2 DEF NoLinks, PREV_LINK, NEXT_LINK, WSIZE, PUT, Heaps
<1> QED
  BY <1>1, <1>2
LEMMA RemoveMemory ==
  ASSUME NEW h \in Heaps, NEW p \in Words, p + 4 \in Words, NEW i \in Roots,
         Category(SIZE(h, p)) = i, NEW nextp \in Nat, NEW prevp \in Nat,
         h.mem[p] = prevp, h.mem[p + 4] = nextp,
         nextp # 0 => nextp \in Words,
         NEW to \in Words, (IF prevp = 0 THEN RootOf(i) ELSE prevp + 4) = to,
         NEW g, g = remove_free_block(h, p)
  PROVE  /\ g \in Heaps /\ g.brk = h.brk
         /\ \A a \in Words :
              g.mem[a] = IF a = p \/ a = p + 4 THEN 0
                         ELSE IF a = to THEN nextp
                         ELSE IF nextp # 0 /\ a = nextp THEN prevp ELSE h.mem[a]
<1> DEFINE h1 == IF nextp = 0 THEN h ELSE PUT(h, nextp, prevp)
<1>1. g = NoLinks(PUT(h1, to, nextp), p)
  BY DEF remove_free_block, GET, PREV_LINK, NEXT_LINK, WSIZE
<1>2. h1 = IF nextp = 0 THEN h ELSE PUT(h, nextp, prevp)
  OBVIOUS
<1> HIDE DEF h1
<1> QED
  BY ONLY h \in Heaps, p \in Words, p + 4 \in Words, nextp \in Nat, prevp \in Nat,
          nextp # 0 => nextp \in Words,
    to \in Words, <1>1, <1>2, RemoveWrites

LEMMA ListOf ==
  ASSUME NEW h, NEW F, NEW L, Lists(h, F, L), NEW i \in Roots
  PROVE  Chain(h, i, L[i]) /\ Order(i, L[i], F)
BY DEF Lists

\* A list in memory depends on its root and the links of its blocks.
LEMMA ChainKept ==
  ASSUME NEW h, NEW g, NEW i, NEW s, NEW F, Chain(h, i, s), Order(i, s, F),
         g.mem[RootOf(i)] = h.mem[RootOf(i)],
         \A b \in F : Cat(b) = i => /\ g.mem[8 * b.lo] = h.mem[8 * b.lo]
                                    /\ g.mem[8 * b.lo + 4] = h.mem[8 * b.lo + 4]
  PROVE  Chain(g, i, s)
BY DEF Chain, Order

LEMMA ListsKept ==
  ASSUME NEW h, NEW g, NEW F, NEW L, Lists(h, F, L),
         \A i \in Roots : g.mem[RootOf(i)] = h.mem[RootOf(i)],
         \A b \in F : /\ g.mem[8 * b.lo] = h.mem[8 * b.lo]
                      /\ g.mem[8 * b.lo + 4] = h.mem[8 * b.lo + 4]
  PROVE  Lists(g, F, L)
<1>1. ASSUME NEW i \in Roots PROVE Chain(g, i, L[i]) /\ Order(i, L[i], F)
  <2>1. Chain(h, i, L[i]) /\ Order(i, L[i], F)
    BY ListOf
  <2> QED
    BY <2>1, ChainKept
<1> QED
  BY <1>1 DEF Lists

\* Blocks of other roots do not matter to the order of a list.
LEMMA OrderOthers ==
  ASSUME NEW i, NEW s, NEW F, Order(i, s, F), NEW x, Cat(x) # i
  PROVE  Order(i, s, F \ {x}) /\ Order(i, s, F \cup {x})
<1>1. /\ s.n \in Nat
      /\ \A k \in 1 .. s.n : s.at[k] \in F /\ Cat(s.at[k]) = i
      /\ \A j, k \in 1 .. s.n : j < k => s.at[j].len <= s.at[k].len /\ s.at[j] # s.at[k]
      /\ \A b \in F : Cat(b) = i => \E k \in 1 .. s.n : s.at[k] = b
  BY DEF Order
<1>2. \A k \in 1 .. s.n : s.at[k] # x
  BY <1>1
<1> QED
  BY <1>1, <1>2 DEF Order

-----------------------------------------------------------------------------
(* remove_free_block.                                                      *)

LEMMA AddrWithout ==
  ASSUME NEW i, NEW s, NEW F, Order(i, s, F), NEW x \in F, Cat(x) = i, NEW k \in Int
  PROVE  Addr(Without(s, x), k) = IF k < PlaceOf(s, x) THEN Addr(s, k) ELSE Addr(s, k + 1)
<1> DEFINE m == PlaceOf(s, x)
           r == Without(s, x)
<1>1. s.n \in Nat /\ m \in 1 .. s.n
  BY PlaceFacts DEF Order
<1>2. /\ r.n = s.n - 1
      /\ \A j \in 1 .. r.n : r.at[j] = IF j < m THEN s.at[j] ELSE s.at[j + 1]
  BY <1>1 DEF Without
<1> HIDE DEF m, r
<1>3. CASE k < m
  <2>1. k \in 1 .. r.n <=> k \in 1 .. s.n
    BY <1>1, <1>2, <1>3
  <2> QED
    BY <2>1, <1>2, <1>3 DEF Addr, m, r
<1>4. CASE ~(k < m)
  <2>1. k \in 1 .. r.n <=> k + 1 \in 1 .. s.n
    BY <1>1, <1>2, <1>4
  <2> QED
    BY <2>1, <1>2, <1>4 DEF Addr, m, r
<1> QED
  BY <1>3, <1>4

LEMMA Eightfold ==
  ASSUME NEW x \in Nat, NEW y \in Nat
  PROVE  (8 * x = 8 * y <=> x = y) /\ (8 * x + 4 = 8 * y + 4 <=> x = y)
OBVIOUS

\* Two places of a list are two blocks.
Scattered(s) ==
  \A j, k \in 1 .. s.n : /\ 8 * s.at[j].lo = 8 * s.at[k].lo <=> j = k
                         /\ 8 * s.at[j].lo + 4 = 8 * s.at[k].lo + 4 <=> j = k
                         /\ 8 * s.at[j].lo + 4 # 8 * s.at[k].lo

LEMMA PlacesDiffer ==
  ASSUME NEW B, NEW t, Laid(B, t), NEW F \in SUBSET B, NEW i, NEW s, Order(i, s, F)
  PROVE  Scattered(s)
<1> SUFFICES ASSUME NEW j \in 1 .. s.n, NEW k \in 1 .. s.n
             PROVE  /\ 8 * s.at[j].lo = 8 * s.at[k].lo <=> j = k
                    /\ 8 * s.at[j].lo + 4 = 8 * s.at[k].lo + 4 <=> j = k
                    /\ 8 * s.at[j].lo + 4 # 8 * s.at[k].lo
  BY DEF Scattered
<1>1. s.n \in Nat /\ s.at[j] \in B /\ s.at[k] \in B
      /\ \A p, q \in 1 .. s.n : p < q => s.at[p] # s.at[q]
  BY DEF Order
<1>2. s.at[j] = s.at[k] <=> j = k
  BY <1>1
<1>3. /\ s.at[j].lo \in Nat /\ s.at[k].lo \in Nat
      /\ s.at[j].lo = s.at[k].lo <=> s.at[j] = s.at[k]
      /\ 8 * s.at[k].lo # 8 * s.at[j].lo + 4
  BY <1>1, LinksApart
<1> QED
  BY <1>2, <1>3, Eightfold

\* The words that the operations on lists may write: roots and links.
LEMMA ListWords ==
  ASSUME NEW B, NEW t, Laid(B, t), NEW F \in SUBSET B, NEW x \in F, NEW i \in Roots
  PROVE  /\ 8 * x.lo \in Words /\ 8 * x.lo + 4 \in Words /\ 8 * x.lo \in Nat /\ 8 * x.lo # 0
         /\ x.lo \in Nat /\ x.len \in Nat /\ x.len >= 2
         /\ RootOf(i) \in Words /\ RootOf(i) \in Nat
         /\ RootOf(i) # 8 * x.lo /\ RootOf(i) # 8 * x.lo + 4
         /\ \A j \in Roots : RootOf(i) = RootOf(j) => i = j
<1>1. /\ x.lo \in Nat /\ x.len \in Nat /\ x.len >= 2 /\ t \in Nat
      /\ 8 * t <= Start + MAX_HEAP /\ First <= x.lo /\ x.lo + x.len <= t
  BY LaidFacts
<1>2. /\ 8 * x.lo \in Words /\ 8 * x.lo + 4 \in Words /\ 8 * x.lo \in Nat /\ 8 * x.lo # 0
  BY <1>1, BlockWords
<1>3. /\ RootOf(i) < 8 * x.lo - 4 /\ RootOf(i) \in Words /\ RootOf(i) \in Nat
      /\ \A j \in Roots : RootOf(i) = RootOf(j) => i = j
  BY RootsApart
<1> QED
  BY <1>1, <1>2, <1>3

LEMMA SizeCategory ==
  ASSUME NEW h, NEW B, NEW t, Laid(B, t), Tagged(h, B, t), NEW b \in B
  PROVE  /\ SIZE(h, 8 * b.lo) = 8 * b.len /\ Category(SIZE(h, 8 * b.lo)) = Cat(b)
         /\ Cat(b) \in Roots
<1>1. b.len \in Nat
  BY LaidFacts
<1> QED
  BY <1>1, SizeIs, CatFacts DEF Cat

\* What remove_free_block writes, in terms of the list s of the block x, where
\* it has place m.
Removal(h, g, i, s, m, x) ==
  /\ g \in Heaps /\ g.brk = h.brk /\ m \in 1 .. s.n /\ s.at[m] = x
  /\ \A a \in Words :
       g.mem[a] = IF a = 8 * x.lo \/ a = 8 * x.lo + 4 THEN 0
                  ELSE IF a = (IF m = 1 THEN RootOf(i) ELSE 8 * s.at[m - 1].lo + 4)
                    THEN Addr(s, m + 1)
                  ELSE IF m + 1 \in 1 .. s.n /\ a = 8 * s.at[m + 1].lo
                    THEN Addr(s, m - 1)
                  ELSE h.mem[a]

LEMMA RemoveSteps ==
  ASSUME NEW h \in Heaps, NEW B, NEW t, Laid(B, t), Tagged(h, B, t), NEW F \in SUBSET B,
         NEW L, Lists(h, F, L), NEW x \in F, NEW i \in Roots, Cat(x) = i,
         NEW s, L[i] = s, NEW m, PlaceOf(s, x) = m,
         NEW g, g = remove_free_block(h, 8 * x.lo)
  PROVE  Removal(h, g, i, s, m, x) /\ Order(i, s, F) /\ Chain(h, i, s)
<1>1. Order(i, s, F) /\ Chain(h, i, s)
  BY ListOf
<1>2. m \in 1 .. s.n /\ s.at[m] = x /\ s.n \in Nat
  <2>1. s.n \in Nat
    BY <1>1 DEF Order
  <2>2. PlaceOf(s, x) \in 1 .. s.n /\ s.at[PlaceOf(s, x)] = x
    BY ONLY <1>1, x \in F, Cat(x) = i, PlaceFacts
  <2> QED
    BY <2>1, <2>2
<1> DEFINE p == 8 * x.lo
           to == IF m = 1 THEN RootOf(i) ELSE 8 * s.at[m - 1].lo + 4
<1>3. p \in Words /\ p + 4 \in Words
  BY ListWords
<1>4. PICK prevp \in Nat : h.mem[p] = prevp
  BY <1>3 DEF Heaps
<1>5. PICK nextp \in Nat : h.mem[p + 4] = nextp
  BY <1>3 DEF Heaps
<1>6. prevp = Addr(s, m - 1) /\ nextp = Addr(s, m + 1)
  BY <1>1, <1>2, <1>4, <1>5 DEF Chain
<1>7. /\ nextp # 0 => nextp \in Words
      /\ nextp = 0 <=> m + 1 \notin 1 .. s.n
      /\ m + 1 \in 1 .. s.n => nextp = 8 * s.at[m + 1].lo
  <2>1. m + 1 \in Int
    BY <1>2
  <2> QED
    BY <2>1, <1>1, <1>6, AddrFacts DEF Addr
<1>8. /\ prevp = 0 <=> m = 1
      /\ m # 1 => prevp = 8 * s.at[m - 1].lo
  <2>1. m - 1 \in Int /\ (m - 1 \notin 1 .. s.n <=> m = 1)
    BY <1>2
  <2> QED
    BY <2>1, <1>1, <1>6, AddrFacts DEF Addr
<1>9. to \in Words /\ (IF prevp = 0 THEN RootOf(i) ELSE prevp + 4) = to
  <2>1. CASE m = 1
    BY <2>1, <1>8, ListWords
  <2>2. CASE m # 1
    <3>1. m - 1 \in 1 .. s.n
      BY <2>2, <1>2
    <3>2. s.at[m - 1] \in F
      BY <3>1, <1>1 DEF Order
    <3> QED
      BY <2>2, <3>2, <1>8, ListWords
  <2> QED
    BY <2>1, <2>2
<1>10. Category(SIZE(h, p)) = i
  BY SizeCategory
<1>11. g = remove_free_block(h, p)
  OBVIOUS
<1>12. \A a \in Words : (m + 1 \in 1 .. s.n /\ a = 8 * s.at[m + 1].lo) <=> (nextp # 0 /\ a = nextp)
  BY <1>7
<1> HIDE DEF p, to
<1>13. /\ g \in Heaps /\ g.brk = h.brk
       /\ \A a \in Words :
            g.mem[a] = IF a = p \/ a = p + 4 THEN 0
                       ELSE IF a = to THEN nextp
                       ELSE IF nextp # 0 /\ a = nextp THEN prevp ELSE h.mem[a]
  BY ONLY h \in Heaps, <1>3, i \in Roots, <1>10, nextp \in Nat, prevp \in Nat, <1>4, <1>5,
          <1>7, <1>9, <1>11, RemoveMemory
<1> QED
  BY <1>1, <1>2, <1>6, <1>12, <1>13 DEF p, to, Removal

\* The list of the removed block ...
LEMMA RemoveOwn ==
  ASSUME NEW h \in Heaps, NEW B, NEW t, Laid(B, t), Tagged(h, B, t), NEW F \in SUBSET B,
         NEW L, Lists(h, F, L), NEW x \in F, NEW i \in Roots, Cat(x) = i,
         NEW s, L[i] = s, NEW g, g = remove_free_block(h, 8 * x.lo)
  PROVE  Chain(g, i, Without(s, x))
<1> DEFINE r == Without(s, x)
<1>0. PICK m : PlaceOf(s, x) = m
  OBVIOUS
<1>r. Removal(h, g, i, s, m, x) /\ Order(i, s, F) /\ Chain(h, i, s)
  BY <1>0, RemoveSteps
<1>1. /\ g \in Heaps /\ g.brk = h.brk /\ m \in 1 .. s.n /\ s.at[m] = x
      /\ Order(i, s, F) /\ Chain(h, i, s)
      /\ \A a \in Words :
           g.mem[a] = IF a = 8 * x.lo \/ a = 8 * x.lo + 4 THEN 0
                      ELSE IF a = (IF m = 1 THEN RootOf(i) ELSE 8 * s.at[m - 1].lo + 4)
                        THEN Addr(s, m + 1)
                      ELSE IF m + 1 \in 1 .. s.n /\ a = 8 * s.at[m + 1].lo
                        THEN Addr(s, m - 1)
                      ELSE h.mem[a]
  BY <1>r DEF Removal
<1>2. s.n \in Nat /\ \A k \in 1 .. s.n : s.at[k] \in F
  BY <1>1 DEF Order
<1>3. /\ r.n = s.n - 1 /\ r.n \in Nat
      /\ \A k \in 1 .. r.n : r.at[k] = IF k < m THEN s.at[k] ELSE s.at[k + 1]
  BY <1>0, <1>1, <1>2 DEF Without
<1>4. ASSUME NEW k \in Int PROVE Addr(r, k) = IF k < m THEN Addr(s, k) ELSE Addr(s, k + 1)
  BY <1>0, <1>1, AddrWithout
<1> HIDE DEF r
<1>5. /\ h.mem[RootOf(i)] = Addr(s, 1)
      /\ \A k \in 1 .. s.n : /\ h.mem[8 * s.at[k].lo + 4] = Addr(s, k + 1)
                             /\ h.mem[8 * s.at[k].lo] = Addr(s, k - 1)
  BY <1>1 DEF Chain
<1>6. /\ RootOf(i) \in Words
      /\ \A k \in 1 .. s.n : /\ 8 * s.at[k].lo \in Words /\ 8 * s.at[k].lo + 4 \in Words
                             /\ RootOf(i) # 8 * s.at[k].lo /\ RootOf(i) # 8 * s.at[k].lo + 4
  BY <1>2, ListWords
<1>7. \A j, k \in 1 .. s.n : /\ 8 * s.at[j].lo = 8 * s.at[k].lo <=> j = k
                             /\ 8 * s.at[j].lo + 4 = 8 * s.at[k].lo + 4 <=> j = k
                             /\ 8 * s.at[j].lo + 4 # 8 * s.at[k].lo
  <2>1. Order(i, s, F)
    BY <1>1
  <2>2. Scattered(s)
    BY <2>1, PlacesDiffer
  <2> QED
    BY <2>2 DEF Scattered
<1>8. g.mem[RootOf(i)] = Addr(r, 1)
  <2>1. RootOf(i) # 8 * x.lo /\ RootOf(i) # 8 * x.lo + 4
    BY <1>1, <1>6
  <2>2. CASE m = 1
    <3>1. g.mem[RootOf(i)] = Addr(s, m + 1)
      BY <2>1, <2>2, <1>1, <1>6
    <3>2. Addr(r, 1) = Addr(s, 1 + 1)
      BY <1>4, <2>2
    <3> QED
      BY <3>1, <3>2, <2>2
  <2>3. CASE m # 1
    <3>1. m - 1 \in 1 .. s.n /\ 1 < m
      BY <2>3, <1>1, <1>2
    <3>2. g.mem[RootOf(i)] = h.mem[RootOf(i)]
      BY <2>1, <2>3, <3>1, <1>1, <1>6
    <3>3. Addr(r, 1) = Addr(s, 1)
      BY <1>4, <3>1
    <3> QED
      BY <3>2, <3>3, <1>5
  <2> QED
    BY <2>2, <2>3
<1>9. ASSUME NEW k \in 1 .. r.n
      PROVE  /\ g.mem[8 * r.at[k].lo + 4] = Addr(r, k + 1)
             /\ g.mem[8 * r.at[k].lo] = Addr(r, k - 1)
  <2>1. PICK q \in 1 .. s.n : q = IF k < m THEN k ELSE k + 1
    BY <1>1, <1>2, <1>3
  <2>2. r.at[k] = s.at[q] /\ q # m
    BY <2>1, <1>1, <1>3
  <2>3. /\ 8 * s.at[q].lo \in Words /\ 8 * s.at[q].lo + 4 \in Words
        /\ RootOf(i) # 8 * s.at[q].lo /\ RootOf(i) # 8 * s.at[q].lo + 4
        /\ 8 * s.at[q].lo # 8 * x.lo /\ 8 * s.at[q].lo # 8 * x.lo + 4
        /\ 8 * s.at[q].lo + 4 # 8 * x.lo /\ 8 * s.at[q].lo + 4 # 8 * x.lo + 4
    BY <2>2, <1>1, <1>6, <1>7
  <2>4. /\ h.mem[8 * s.at[q].lo + 4] = Addr(s, q + 1)
        /\ h.mem[8 * s.at[q].lo] = Addr(s, q - 1)
    BY <1>5
  <2>5. g.mem[8 * s.at[q].lo + 4] = IF q = m - 1 THEN Addr(s, m + 1) ELSE Addr(s, q + 1)
    <3>1. m + 1 \in 1 .. s.n => 8 * s.at[q].lo + 4 # 8 * s.at[m + 1].lo
      BY <1>7
    <3>2. CASE m = 1
      <4>1. q # m - 1
        BY <3>2, <1>1
      <4> QED
        BY <4>1, <3>1, <3>2, <2>3, <2>4, <1>1
    <3>3. CASE m # 1
      <4>1. m - 1 \in 1 .. s.n
        BY <3>3, <1>1, <1>2
      <4>2. 8 * s.at[q].lo + 4 = 8 * s.at[m - 1].lo + 4 <=> q = m - 1
        BY <4>1, <1>7
      <4> QED
        BY <4>2, <3>1, <3>3, <2>3, <2>4, <1>1
    <3> QED
      BY <3>2, <3>3
  <2>6. g.mem[8 * s.at[q].lo] = IF q = m + 1 THEN Addr(s, m - 1) ELSE Addr(s, q - 1)
    <3>1. 8 * s.at[q].lo # (IF m = 1 THEN RootOf(i) ELSE 8 * s.at[m - 1].lo + 4)
      <4>1. CASE m = 1
        BY <4>1, <2>3
      <4>2. CASE m # 1
        <5>1. m - 1 \in 1 .. s.n
          BY <4>2, <1>1, <1>2
        <5> QED
          BY <5>1, <4>2, <1>7
      <4> QED
        BY <4>1, <4>2
    <3>2. (m + 1 \in 1 .. s.n /\ 8 * s.at[q].lo = 8 * s.at[m + 1].lo) <=> q = m + 1
      BY <1>7
    <3> QED
      BY <3>1, <3>2, <2>3, <2>4, <1>1
  <2>7. Addr(r, k + 1) = IF q = m - 1 THEN Addr(s, m + 1) ELSE Addr(s, q + 1)
    <3>1. /\ k + 1 \in Int /\ k \in Int /\ m \in Int
          /\ Addr(r, k + 1) = IF k + 1 < m THEN Addr(s, k + 1) ELSE Addr(s, (k + 1) + 1)
      BY <1>1, <1>2, <1>3, <1>4
    <3>2. CASE k + 1 < m
      <4>1. q = k /\ q # m - 1
        BY <3>1, <3>2, <2>1
      <4> QED
        BY <4>1, <3>1, <3>2
    <3>3. CASE k + 1 = m
      <4>1. q = k /\ q = m - 1 /\ (k + 1) + 1 = m + 1
        BY <3>1, <3>3, <2>1
      <4> QED
        BY <4>1, <3>1, <3>3
    <3>4. CASE k + 1 > m
      <4>1. q = k + 1 /\ q # m - 1 /\ ~(k + 1 < m)
        BY <3>1, <3>4, <2>1
      <4> QED
        BY <4>1, <3>1, <3>4
    <3> QED
      BY <3>1, <3>2, <3>3, <3>4
  <2>8. Addr(r, k - 1) = IF q = m + 1 THEN Addr(s, m - 1) ELSE Addr(s, q - 1)
    <3>1. /\ k - 1 \in Int /\ k \in Int /\ m \in Int
          /\ Addr(r, k - 1) = IF k - 1 < m THEN Addr(s, k - 1) ELSE Addr(s, (k - 1) + 1)
      BY <1>1, <1>2, <1>3, <1>4
    <3>2. CASE k < m
      <4>1. q = k /\ q # m + 1 /\ k - 1 < m
        BY <3>1, <3>2, <2>1
      <4> QED
        BY <4>1, <3>1, <3>2
    <3>3. CASE k = m
      <4>1. q = m + 1 /\ k - 1 < m
        BY <3>1, <3>3, <2>1
      <4> QED
        BY <4>1, <3>1, <3>3
    <3>4. CASE k > m
      <4>1. q = k + 1 /\ q # m + 1 /\ ~(k - 1 < m) /\ q - 1 = (k - 1) + 1
        BY <3>1, <3>4, <2>1
      <4> QED
        BY <4>1, <3>1, <3>4
    <3> QED
      BY <3>1, <3>2, <3>3, <3>4
  <2> QED
    BY <2>2, <2>5, <2>6, <2>7, <2>8
<1> QED
  BY <1>3, <1>8, <1>9 DEF Chain, r

\* ... and the other lists.
LEMMA RemoveOthers ==
  ASSUME NEW h \in Heaps, NEW B, NEW t, Laid(B, t), Tagged(h, B, t), NEW F \in SUBSET B,
         NEW L, Lists(h, F, L), NEW x \in F, NEW i \in Roots, Cat(x) = i,
         NEW g, g = remove_free_block(h, 8 * x.lo), NEW j \in Roots, j # i
  PROVE  Chain(g, j, L[j]) /\ Order(j, L[j], F)
<1>a. PICK s : L[i] = s
  OBVIOUS
<1>b. PICK m : PlaceOf(s, x) = m
  OBVIOUS
<1>r. Removal(h, g, i, s, m, x) /\ Order(i, s, F) /\ Chain(h, i, s)
  BY <1>a, <1>b, RemoveSteps
<1>1. /\ g \in Heaps /\ g.brk = h.brk /\ m \in 1 .. s.n /\ s.at[m] = x
      /\ Order(i, s, F) /\ Chain(h, i, s)
      /\ \A a \in Words :
           g.mem[a] = IF a = 8 * x.lo \/ a = 8 * x.lo + 4 THEN 0
                      ELSE IF a = (IF m = 1 THEN RootOf(i) ELSE 8 * s.at[m - 1].lo + 4)
                        THEN Addr(s, m + 1)
                      ELSE IF m + 1 \in 1 .. s.n /\ a = 8 * s.at[m + 1].lo
                        THEN Addr(s, m - 1)
                      ELSE h.mem[a]
  BY <1>r DEF Removal
<1>2. Chain(h, j, L[j]) /\ Order(j, L[j], F)
  BY ListOf
<1>3. /\ s.n \in Nat /\ \A k \in 1 .. s.n : s.at[k] \in F /\ Cat(s.at[k]) = i
      /\ m # 1 => m - 1 \in 1 .. s.n
  <2>1. Order(i, s, F)
    BY <1>1
  <2>2. /\ s.n \in Nat /\ \A k \in 1 .. s.n : s.at[k] \in F /\ Cat(s.at[k]) = i
    BY ONLY <2>1 DEF Order
  <2> QED
    BY <2>2, <1>1
<1>4. g.mem[RootOf(j)] = h.mem[RootOf(j)]
  <2>1. /\ RootOf(j) \in Words /\ RootOf(j) # RootOf(i)
        /\ \A y \in F : RootOf(j) # 8 * y.lo /\ RootOf(j) # 8 * y.lo + 4
    BY ListWords
  <2> QED
    BY <2>1, <1>1, <1>3
<1>5. ASSUME NEW b \in F, Cat(b) = j
      PROVE  g.mem[8 * b.lo] = h.mem[8 * b.lo] /\ g.mem[8 * b.lo + 4] = h.mem[8 * b.lo + 4]
  <2>1. /\ 8 * b.lo \in Words /\ 8 * b.lo + 4 \in Words
        /\ RootOf(i) # 8 * b.lo /\ RootOf(i) # 8 * b.lo + 4
    BY ListWords
  <2>2. ASSUME NEW c \in F, Cat(c) = i
        PROVE  /\ 8 * b.lo # 8 * c.lo /\ 8 * b.lo + 4 # 8 * c.lo + 4
               /\ 8 * b.lo # 8 * c.lo + 4 /\ 8 * b.lo + 4 # 8 * c.lo
    <3>1. b # c /\ b \in B /\ c \in B
      BY <1>5, <2>2
    <3>2. /\ b.lo \in Nat /\ c.lo \in Nat /\ b.lo # c.lo
          /\ 8 * b.lo # 8 * c.lo + 4 /\ 8 * c.lo # 8 * b.lo + 4
      BY <3>1, LinksApart
    <3> QED
      BY <3>2, Eightfold
  <2> QED
    BY <2>1, <2>2, <1>1, <1>3
<1> QED
  BY <1>2, <1>4, <1>5, ChainKept

LEMMA RemoveChain ==
  ASSUME NEW h \in Heaps, NEW B, NEW t, Laid(B, t), Tagged(h, B, t), NEW F \in SUBSET B,
         NEW L, Lists(h, F, L), NEW x \in F, NEW g, g = remove_free_block(h, 8 * x.lo)
  PROVE  /\ OnlyLinks(h, g, F)
         /\ Lists(g, F \ {x}, Unlisted(L, x))
<1>0. PICK i \in Roots : Cat(x) = i
  BY SizeCategory
<1>1. PICK s : L[i] = s
  OBVIOUS
<1>2. PICK m : PlaceOf(s, x) = m
  OBVIOUS
<1>r. Removal(h, g, i, s, m, x) /\ Order(i, s, F) /\ Chain(h, i, s)
  BY <1>0, <1>1, <1>2, RemoveSteps
<1>3. /\ g \in Heaps /\ g.brk = h.brk /\ m \in 1 .. s.n /\ s.at[m] = x
      /\ Order(i, s, F) /\ Chain(h, i, s)
      /\ \A a \in Words :
           g.mem[a] = IF a = 8 * x.lo \/ a = 8 * x.lo + 4 THEN 0
                      ELSE IF a = (IF m = 1 THEN RootOf(i) ELSE 8 * s.at[m - 1].lo + 4)
                        THEN Addr(s, m + 1)
                      ELSE IF m + 1 \in 1 .. s.n /\ a = 8 * s.at[m + 1].lo
                        THEN Addr(s, m - 1)
                      ELSE h.mem[a]
  BY <1>r DEF Removal
<1>4. OnlyLinks(h, g, F)
  <2>1. Order(i, s, F)
    BY <1>3
  <2>2. s.n \in Nat /\ \A k \in 1 .. s.n : s.at[k] \in F
    BY ONLY <2>1 DEF Order
  <2>3. m # 1 => m - 1 \in 1 .. s.n
    BY <2>2, <1>3
  <2> QED
    BY <2>2, <2>3, <1>3 DEF OnlyLinks, RootWord, LinkWord
<1>5. \A b \in F : b.len \in Nat
  BY LaidFacts
<1>6. /\ Unlisted(L, x) = [j \in Roots |-> Unlisted(L, x)[j]]
      /\ \A j \in Roots : Unlisted(L, x)[j] = IF j = i THEN Without(s, x) ELSE L[j]
  BY <1>0, <1>1 DEF Unlisted, Lists
<1>7. Chain(g, i, Without(s, x)) /\ Order(i, Without(s, x), F \ {x})
  <2>1. Chain(g, i, Without(s, x))
    BY <1>0, <1>1, RemoveOwn
  <2>2. Order(i, s, F)
    BY <1>3
  <2>3. Order(i, Without(s, x), F \ {x})
    BY ONLY <2>2, <1>5, x \in F, <1>0, WithoutOrder
  <2> QED
    BY <2>1, <2>3
<1>8. ASSUME NEW j \in Roots, j # i PROVE Chain(g, j, L[j]) /\ Order(j, L[j], F \ {x})
  <2>1. Chain(g, j, L[j]) /\ Order(j, L[j], F)
    BY <1>0, <1>8, RemoveOthers
  <2> QED
    BY <2>1, <1>0, <1>8, OrderOthers
<1> QED
  BY <1>4, <1>6, <1>7, <1>8 DEF Lists

-----------------------------------------------------------------------------
(* The walk along a list.                                                  *)

LEMMA MaxLenFacts == MaxLen \in Nat /\ MaxLen = MAX_HEAP \div 16
BY WordFacts DEF MaxLen, MINFB_SIZE, DSIZE

AddrFine(s) ==
  \A k \in Int : /\ Addr(s, k) \in Nat
                 /\ Addr(s, k) = 0 <=> k \notin 1 .. s.n
                 /\ Addr(s, k) # 0 => Addr(s, k) \in Words /\ Addr(s, k) = 8 * s.at[k].lo

LEMMA AddrsFine ==
  ASSUME NEW B, NEW t, Laid(B, t), NEW F \in SUBSET B, NEW i, NEW s, Order(i, s, F)
  PROVE  AddrFine(s)
BY AddrFacts DEF AddrFine

\* A list has no more than MaxLen blocks.
LEMMA ListFits ==
  ASSUME NEW B, NEW t, Laid(B, t), NEW F \in SUBSET B, NEW i, NEW s, Order(i, s, F)
  PROVE  s.n \in 0 .. MaxLen
<1> DEFINE K == (t - First) \div 2
           f == [j \in 1 .. s.n |-> (s.at[j].lo - First) \div 2]
<1>1. /\ s.n \in Nat
      /\ \A k \in 1 .. s.n : s.at[k] \in B
      /\ \A j, k \in 1 .. s.n : j < k => s.at[j] # s.at[k]
  BY DEF Order
<1>2. /\ t \in Nat /\ First < t /\ 8 * t <= Start + MAX_HEAP /\ First \in Nat
      /\ 8 * First = Start + 56 /\ Start \in Nat /\ MAX_HEAP \in Nat
  BY LaidFacts, FirstFacts, WordFacts
<1>3. K \in Nat /\ K <= MaxLen
  BY <1>2, MaxLenFacts
<1>4. \A k \in 1 .. s.n : /\ s.at[k].lo \in Nat /\ First <= s.at[k].lo
                          /\ s.at[k].lo + 2 <= t
  BY <1>1, LaidFacts
<1>5. \A j, k \in 1 .. s.n :
         j # k => s.at[j].lo + 2 <= s.at[k].lo \/ s.at[k].lo + 2 <= s.at[j].lo
  <2> SUFFICES ASSUME NEW j \in 1 .. s.n, NEW k \in 1 .. s.n, j # k
               PROVE  s.at[j].lo + 2 <= s.at[k].lo \/ s.at[k].lo + 2 <= s.at[j].lo
    OBVIOUS
  <2>1. s.at[j] # s.at[k] /\ s.at[j] \in B /\ s.at[k] \in B
    BY <1>1
  <2>2. /\ Apart(s.at[j], s.at[k])
        /\ s.at[j].len \in Nat /\ s.at[j].len >= 2 /\ s.at[k].len \in Nat /\ s.at[k].len >= 2
    BY <2>1, LaidFacts
  <2> QED
    BY <2>1, <2>2, <1>4 DEF Apart
<1>6. f \in [1 .. s.n -> 0 .. K - 1]
  <2> SUFFICES ASSUME NEW j \in 1 .. s.n PROVE (s.at[j].lo - First) \div 2 \in 0 .. K - 1
    OBVIOUS
  <2>1. PICK u \in Nat : u = s.at[j].lo - First
    BY <1>2, <1>4
  <2>2. u + 2 <= t - First
    BY <2>1, <1>2, <1>4
  <2>3. u \div 2 \in 0 .. K - 1
    BY <2>2, <1>2
  <2> QED
    BY <2>1, <2>3
<1>7. \A j, k \in 1 .. s.n : f[j] = f[k] => j = k
  <2> SUFFICES ASSUME NEW j \in 1 .. s.n, NEW k \in 1 .. s.n, f[j] = f[k], j # k PROVE FALSE
    OBVIOUS
  <2>1. PICK u \in Nat : s.at[j].lo = u + First /\ s.at[j].lo - First = u
    BY <1>2, <1>4
  <2>2. PICK v \in Nat : s.at[k].lo = v + First /\ s.at[k].lo - First = v
    BY <1>2, <1>4
  <2>3. u \div 2 = v \div 2
    BY <2>1, <2>2
  <2>4. u + 2 <= v \/ v + 2 <= u
    <3>2. s.at[j].lo + 2 <= s.at[k].lo \/ s.at[k].lo + 2 <= s.at[j].lo
      BY <1>5
    <3> QED
      BY <2>1, <2>2, <3>2, <1>2
  <2> QED
    BY <2>3, <2>4
<1> HIDE DEF f, K
<1>8. IsFiniteSet(1 .. s.n) /\ Cardinality(1 .. s.n) = s.n
  BY <1>1, FS_Interval
<1>9. IsFiniteSet(0 .. K - 1) /\ Cardinality(0 .. K - 1) = K
  BY <1>3, FS_Interval
<1>10. f \in Injection(1 .. s.n, 0 .. K - 1)
  BY <1>6, <1>7 DEF Injection, IsInjective
<1>11. s.n <= K
  BY <1>8, <1>9, <1>10, FS_Injection
<1> QED
  BY <1>1, <1>3, <1>11, MaxLenFacts

\* Node follows the links.
LEMMA NodeIs ==
  ASSUME NEW h \in Heaps, NEW B, NEW t, Laid(B, t), NEW F \in SUBSET B, NEW i \in Roots,
         NEW s, Chain(h, i, s), Order(i, s, F)
  PROVE  \A k \in Nat : Node(h, RootOf(i))[k] = Addr(s, k + 1)
<1> DEFINE n == Node(h, RootOf(i))
           w == [k \in Nat |-> Addr(s, k + 1)]
           Eq(g) == g = [k \in Nat |-> IF k = 0 THEN GET(h, RootOf(i)) ELSE Follow(h)[g[k - 1]]]
<1>1. Eq(w)
  <2>1. w[0] = GET(h, RootOf(i))
    BY DEF Chain, GET
  <2>2. ASSUME NEW k \in Nat, k # 0 PROVE w[k] = Follow(h)[w[k - 1]]
    <3>1. k \in Int /\ k - 1 \in Nat /\ w[k] = Addr(s, k + 1) /\ w[k - 1] = Addr(s, k)
      BY <2>2
    <3>2. /\ Addr(s, k) \in Nat /\ (Addr(s, k) = 0 <=> k \notin 1 .. s.n)
          /\ Addr(s, k) # 0 => Addr(s, k) = 8 * s.at[k].lo
      <4>1. AddrFine(s)
        BY AddrsFine
      <4> QED
        BY <3>1, <4>1 DEF AddrFine
    <3>3. CASE k \in 1 .. s.n
      <4>1. h.mem[8 * s.at[k].lo + 4] = Addr(s, k + 1)
        BY <3>3 DEF Chain
      <4> QED
        BY <4>1, <3>1, <3>2, <3>3 DEF Follow, GET, NEXT_LINK, WSIZE
    <3>4. CASE k \notin 1 .. s.n
      <4>1. s.n \in Nat
        BY DEF Order
      <4>2. k + 1 \notin 1 .. s.n
        BY <4>1, <3>4, <2>2
      <4> QED
        BY <4>2, <3>1, <3>2, <3>4 DEF Follow, Addr
    <3> QED
      BY <3>3, <3>4
  <2> QED
    BY <2>1, <2>2
<1>2. Eq(n)
  <2>1. n = CHOOSE g : Eq(g)
    BY DEF Node
  <2> QED
    BY <2>1, <1>1
<1> HIDE DEF n, w
<1>3. {k \in Nat : n[k] = w[k]} = Nat
  <2> DEFINE T == {k \in Nat : n[k] = w[k]}
  <2>1. 0 \in T
    BY <1>1, <1>2
  <2>2. ASSUME NEW k \in T PROVE k + 1 \in T
    <3>1. k \in Nat /\ k + 1 \in Nat /\ k + 1 # 0 /\ (k + 1) - 1 = k /\ n[k] = w[k]
      OBVIOUS
    <3>2. n[k + 1] = Follow(h)[n[(k + 1) - 1]]
      BY <1>2, <3>1
    <3>3. w[k + 1] = Follow(h)[w[(k + 1) - 1]]
      BY <1>1, <3>1
    <3> QED
      BY <3>1, <3>2, <3>3
  <2> QED
    BY <2>1, <2>2, InductionOnNat
<1> QED
  BY <1>3 DEF n, w

\* Seek finds the first block that is large enough, and its predecessor.
LEMMA SeekIs ==
  ASSUME NEW h \in Heaps, NEW B, NEW t, Laid(B, t), Tagged(h, B, t), NEW F \in SUBSET B,
         NEW i \in Roots, NEW s, Chain(h, i, s), Order(i, s, F), NEW n \in Nat,
         NEW m, FirstFit(s, n) = m, NEW r, r = Seek(h, RootOf(i), n)
  PROVE  /\ m \in 1 .. s.n + 1
         /\ r[1] = IF m = 1 THEN RootOf(i) ELSE Addr(s, m - 1)
         /\ r[2] = Addr(s, m)
<1>1. s.n \in 0 .. MaxLen /\ MaxLen \in Nat /\ s.n \in Nat
  BY ListFits, MaxLenFacts
<1>2. /\ \A k \in 1 .. s.n : s.at[k] \in B
  BY DEF Order
<1>3. \A k \in 1 .. s.n : s.at[k].len \in Nat /\ SIZE(h, 8 * s.at[k].lo) = 8 * s.at[k].len
  BY <1>2, LaidFacts, SizeIs
<1>4. /\ m \in 1 .. s.n + 1
      /\ m = s.n + 1 \/ 8 * s.at[m].len >= n
      /\ \A j \in 1 .. m - 1 : 8 * s.at[j].len < n
  <2>1. \A k \in 1 .. s.n : s.at[k].len \in Nat
    BY <1>3
  <2>2. /\ FirstFit(s, n) \in 1 .. s.n + 1
        /\ FirstFit(s, n) = s.n + 1 \/ 8 * s.at[FirstFit(s, n)].len >= n
        /\ \A j \in 1 .. FirstFit(s, n) - 1 : 8 * s.at[j].len < n
    BY ONLY <1>1, <2>1, n \in Nat, FirstFitFacts
  <2> QED
    BY <2>2
<1> DEFINE node == Node(h, RootOf(i))
           Stops(k) == node[k] = 0 \/ SIZE(h, node[k]) >= n
           Here(k) == Stops(k) /\ \A j \in 0 .. k - 1 : ~Stops(j)
<1>5. \A k \in Nat : node[k] = Addr(s, k + 1)
  BY NodeIs
<1>6. PICK q : /\ (CHOOSE k \in 0 .. MaxLen : Here(k)) = q
               /\ r[1] = IF q = 0 THEN RootOf(i) ELSE node[q - 1]
               /\ r[2] = node[q]
  <2> DEFINE c == CHOOSE k \in 0 .. MaxLen : Here(k)
  <2>1. r = <<IF c = 0 THEN RootOf(i) ELSE node[c - 1], node[c]>>
    BY DEF Seek, Around, Stop
  <2> HIDE DEF node, Here
  <2>2. r[1] = (IF c = 0 THEN RootOf(i) ELSE node[c - 1]) /\ r[2] = node[c]
    BY <2>1
  <2> QED
    BY <2>2
<1> HIDE DEF node
<1>7. ASSUME NEW k \in Nat
      PROVE  Stops(k) <=> k + 1 \notin 1 .. s.n \/ 8 * s.at[k + 1].len >= n
  <2>1. node[k] = Addr(s, k + 1) /\ k + 1 \in Int
    BY <1>5
  <2>2. AddrFine(s)
    BY AddrsFine
  <2>3. /\ Addr(s, k + 1) = 0 <=> k + 1 \notin 1 .. s.n
        /\ Addr(s, k + 1) # 0 => Addr(s, k + 1) = 8 * s.at[k + 1].lo
    BY <2>1, <2>2 DEF AddrFine
  <2> QED
    BY <2>1, <2>3, <1>3
<1>8. \A k \in 0 .. MaxLen : Here(k) <=> k = m - 1
  <2>1. Stops(m - 1)
    <3>1. m - 1 \in Nat /\ (m - 1) + 1 = m
      BY <1>1, <1>4
    <3>2. m \notin 1 .. s.n \/ 8 * s.at[m].len >= n
      BY <1>1, <1>4
    <3> QED
      BY <3>1, <3>2, <1>7
  <2>2. \A j \in 0 .. (m - 1) - 1 : ~Stops(j)
    <3> SUFFICES ASSUME NEW j \in 0 .. (m - 1) - 1 PROVE ~Stops(j)
      OBVIOUS
    <3>1. j \in Nat /\ j + 1 \in 1 .. m - 1 /\ j + 1 \in 1 .. s.n
      BY <1>1, <1>4
    <3>2. s.at[j + 1].len \in Nat /\ ~(8 * s.at[j + 1].len >= n)
      BY <3>1, <1>3, <1>4
    <3> QED
      BY <3>1, <3>2, <1>7
  <2> HIDE DEF Stops
  <2>3. m - 1 \in Nat
    BY <1>1, <1>4
  <2>4. ASSUME NEW k \in 0 .. MaxLen, Here(k) PROVE k = m - 1
    <3>1. ~(k < m - 1)
      BY <2>2, <2>3, <2>4
    <3>2. ~(m - 1 < k)
      BY <2>1, <2>3, <2>4
    <3> QED
      BY <3>1, <3>2, <2>3
  <2> QED
    BY <2>1, <2>2, <2>4
<1>9. m - 1 \in 0 .. MaxLen
  BY <1>1, <1>4
<1> HIDE DEF Here
<1>10. (CHOOSE k \in 0 .. MaxLen : Here(k)) = m - 1
  BY <1>8, <1>9
<1>11. r[1] = (IF m - 1 = 0 THEN RootOf(i) ELSE node[(m - 1) - 1]) /\ r[2] = node[m - 1]
  BY <1>6, <1>10
<1>12. /\ m - 1 = 0 <=> m = 1
       /\ m - 1 \in Nat /\ (m - 1) + 1 = m
       /\ m # 1 => (m - 1) - 1 \in Nat /\ ((m - 1) - 1) + 1 = m - 1
  BY <1>1, <1>4
<1>13. node[m - 1] = Addr(s, m)
  BY <1>5, <1>12
<1>14. m # 1 => node[(m - 1) - 1] = Addr(s, m - 1)
  BY <1>5, <1>12
<1> QED
  BY <1>4, <1>11, <1>12, <1>13, <1>14

-----------------------------------------------------------------------------
(* insert_free_block.                                                      *)

\* The writes of insert_free_block.
Inserted(h, g, p, to, back, nextp) ==
  /\ g \in Heaps /\ g.brk = h.brk
  /\ \A a \in Words : g.mem[a] = IF nextp # 0 /\ a = nextp THEN p
                                ELSE IF a = p THEN back
                                ELSE IF a = p + 4 THEN nextp
                                ELSE IF a = to THEN p ELSE h.mem[a]

LEMMA InsertWrites ==
  ASSUME NEW h \in Heaps, NEW p \in Words, p \in Nat, p + 4 \in Words,
         NEW to \in Words, NEW back \in Nat, NEW nextp \in Nat, nextp # 0 => nextp \in Words,
         NEW h2, h2 = PUT(PUT(PUT(h, to, p), p + 4, nextp), p, back),
         NEW g, g = IF nextp = 0 THEN h2 ELSE PUT(h2, nextp, p)
  PROVE  Inserted(h, g, p, to, back, nextp)
<1>1. CASE nextp = 0
  BY <1>1 DEF PUT, Heaps, Inserted
<1>2. CASE nextp # 0
  BY <1>2 DEF PUT, Heaps, Inserted
<1> QED
  BY <1>1, <1>2

LEMMA InsertMemory ==
  ASSUME NEW h \in Heaps, NEW p \in Words, p \in Nat, p + 4 \in Words, NEW i \in Roots,
         Category(SIZE(h, p)) = i, NEW r, r = Seek(h, RootOf(i), SIZE(h, p)),
         NEW prevp, r[1] = prevp, NEW nextp \in Nat, r[2] = nextp,
         nextp # 0 => nextp \in Words,
         NEW to \in Words, (IF prevp = RootOf(i) THEN RootOf(i) ELSE prevp + 4) = to,
         NEW back \in Nat, (IF prevp = RootOf(i) THEN 0 ELSE prevp) = back,
         NEW g, g = insert_free_block(h, p)
  PROVE  Inserted(h, g, p, to, back, nextp)
<1> DEFINE h2 == PUT(PUT(PUT(h, to, p), p + 4, nextp), p, back)
<1>1. g = IF nextp = 0 THEN h2 ELSE PUT(h2, nextp, p)
  <2>1. g = LET root == RootOf(i)
                h1 == PUT(h, IF prevp = root THEN root ELSE NEXT_LINK(prevp), p)
                h3 == PUT(PUT(h1, NEXT_LINK(p), nextp),
                          PREV_LINK(p), IF prevp = root THEN 0 ELSE prevp)
            IN IF nextp = 0 THEN h3 ELSE PUT(h3, PREV_LINK(nextp), p)
    BY DEF insert_free_block, Linked
  <2> QED
    BY <2>1 DEF PREV_LINK, NEXT_LINK, WSIZE
<1>2. h2 = PUT(PUT(PUT(h, to, p), p + 4, nextp), p, back)
  OBVIOUS
<1> HIDE DEF h2
<1> QED
  BY ONLY h \in Heaps, p \in Words, p \in Nat, p + 4 \in Words, nextp \in Nat, back \in Nat,
          nextp # 0 => nextp \in Words, to \in Words, <1>1, <1>2, InsertWrites

\* What insert_free_block writes when x gets the place m of the list s.
Insertion(h, g, i, s, m, x) ==
  /\ g \in Heaps /\ g.brk = h.brk /\ m \in 1 .. s.n + 1
  /\ \A a \in Words :
       g.mem[a] = IF m \in 1 .. s.n /\ a = 8 * s.at[m].lo THEN 8 * x.lo
                  ELSE IF a = 8 * x.lo THEN Addr(s, m - 1)
                  ELSE IF a = 8 * x.lo + 4 THEN Addr(s, m)
                  ELSE IF a = (IF m = 1 THEN RootOf(i) ELSE 8 * s.at[m - 1].lo + 4)
                    THEN 8 * x.lo
                  ELSE h.mem[a]

LEMMA InsertSteps ==
  ASSUME NEW h \in Heaps, NEW B, NEW t, Laid(B, t), Tagged(h, B, t), NEW F \in SUBSET B,
         NEW L, Lists(h, F, L), NEW x \in B, NEW i \in Roots, Cat(x) = i,
         NEW s, L[i] = s, NEW m, FirstFit(s, 8 * x.len) = m,
         NEW g, g = insert_free_block(h, 8 * x.lo)
  PROVE  Insertion(h, g, i, s, m, x) /\ Order(i, s, F) /\ Chain(h, i, s)
<1>1. Order(i, s, F) /\ Chain(h, i, s)
  BY ListOf
<1>2. s.n \in Nat /\ \A k \in 1 .. s.n : s.at[k] \in F
  <2>1. Order(i, s, F)
    BY <1>1
  <2> QED
    BY ONLY <2>1 DEF Order
<1> DEFINE p == 8 * x.lo
           to == IF m = 1 THEN RootOf(i) ELSE 8 * s.at[m - 1].lo + 4
<1>3. p \in Words /\ p + 4 \in Words /\ p \in Nat /\ x.len \in Nat /\ RootOf(i) \in Words
      /\ RootOf(i) \in Nat
  BY ListWords
<1>4. SIZE(h, p) = 8 * x.len /\ Category(SIZE(h, p)) = i /\ 8 * x.len \in Nat
  BY <1>3, SizeCategory
<1>5. PICK r : r = Seek(h, RootOf(i), SIZE(h, p))
  OBVIOUS
<1>6. /\ m \in 1 .. s.n + 1
      /\ r[1] = IF m = 1 THEN RootOf(i) ELSE Addr(s, m - 1)
      /\ r[2] = Addr(s, m)
  <2>1. r = Seek(h, RootOf(i), 8 * x.len)
    BY <1>4, <1>5
  <2> QED
    BY <2>1, <1>1, <1>4, SeekIs
<1>7. AddrFine(s)
  BY <1>1, AddrsFine
<1>8. PICK nextp \in Nat : r[2] = nextp
  BY <1>6, <1>7 DEF AddrFine
<1>9. PICK prevp : r[1] = prevp
  OBVIOUS
<1>10. /\ nextp # 0 => nextp \in Words
       /\ nextp = 0 <=> m \notin 1 .. s.n
       /\ m \in 1 .. s.n => nextp = 8 * s.at[m].lo
       /\ nextp = Addr(s, m)
  <2>1. m \in Int
    BY <1>2, <1>6
  <2> QED
    BY <2>1, <1>6, <1>7, <1>8 DEF AddrFine
<1>11. m # 1 => /\ m - 1 \in 1 .. s.n /\ Addr(s, m - 1) = 8 * s.at[m - 1].lo
                /\ 8 * s.at[m - 1].lo + 4 \in Words /\ RootOf(i) # 8 * s.at[m - 1].lo
  <2> SUFFICES ASSUME m # 1
               PROVE  /\ m - 1 \in 1 .. s.n /\ Addr(s, m - 1) = 8 * s.at[m - 1].lo
                      /\ 8 * s.at[m - 1].lo + 4 \in Words /\ RootOf(i) # 8 * s.at[m - 1].lo
    OBVIOUS
  <2>1. m - 1 \in 1 .. s.n
    BY <1>2, <1>6
  <2>2. s.at[m - 1] \in F
    BY <2>1, <1>2
  <2> QED
    BY <2>1, <2>2, ListWords DEF Addr
<1>12. /\ prevp = RootOf(i) <=> m = 1
       /\ m # 1 => prevp = 8 * s.at[m - 1].lo
  BY <1>6, <1>9, <1>11
<1>13. to \in Words /\ (IF prevp = RootOf(i) THEN RootOf(i) ELSE prevp + 4) = to
  BY <1>3, <1>11, <1>12
<1>14. PICK back \in Nat : Addr(s, m - 1) = back
  <2>1. m - 1 \in Int
    BY <1>2, <1>6
  <2> QED
    BY <2>1, <1>7 DEF AddrFine
<1>15. (IF prevp = RootOf(i) THEN 0 ELSE prevp) = back
  <2>1. m = 1 => Addr(s, m - 1) = 0
    BY DEF Addr
  <2> QED
    BY <2>1, <1>11, <1>12, <1>14
<1>16. g = insert_free_block(h, p)
  OBVIOUS
<1>17. \A a \in Words : (m \in 1 .. s.n /\ a = 8 * s.at[m].lo) <=> (nextp # 0 /\ a = nextp)
  BY <1>10
<1> HIDE DEF p, to
<1>18. Inserted(h, g, p, to, back, nextp)
  BY ONLY h \in Heaps, <1>3, i \in Roots, <1>4, <1>5, <1>8, <1>9, <1>10, <1>13, <1>14, <1>15,
          <1>16, InsertMemory
<1> QED
  BY <1>1, <1>6, <1>10, <1>14, <1>17, <1>18 DEF p, to, Insertion, Inserted

LEMMA AddrWith ==
  ASSUME NEW s, s.n \in Nat, NEW x, NEW m, FirstFit(s, 8 * x.len) = m, m \in 1 .. s.n + 1,
         NEW k \in Int
  PROVE  Addr(With(s, x), k) = IF k < m THEN Addr(s, k) ELSE IF k = m THEN 8 * x.lo
                               ELSE Addr(s, k - 1)
<1> DEFINE r == With(s, x)
<1>2. /\ r.n = s.n + 1
      /\ \A j \in 1 .. r.n : r.at[j] = IF j < m THEN s.at[j] ELSE IF j = m THEN x ELSE s.at[j - 1]
  BY DEF With
<1> HIDE DEF r
<1>3. CASE k < m
  <2>1. k \in 1 .. r.n <=> k \in 1 .. s.n
    BY <1>2, <1>3
  <2> QED
    BY <2>1, <1>2, <1>3 DEF Addr, r
<1>4. CASE k = m
  <2>1. k \in 1 .. r.n
    BY <1>2, <1>4
  <2> QED
    BY <2>1, <1>2, <1>4 DEF Addr, r
<1>5. CASE k > m
  <2>1. k \in 1 .. r.n <=> k - 1 \in 1 .. s.n
    BY <1>2, <1>5
  <2> QED
    BY <2>1, <1>2, <1>5 DEF Addr, r
<1> QED
  BY <1>3, <1>4, <1>5

\* A block that is not listed has other links than those that are.
Elsewhere(s, x) ==
  \A k \in 1 .. s.n : /\ 8 * s.at[k].lo # 8 * x.lo /\ 8 * s.at[k].lo # 8 * x.lo + 4
                      /\ 8 * s.at[k].lo + 4 # 8 * x.lo /\ 8 * s.at[k].lo + 4 # 8 * x.lo + 4

LEMMA IsElsewhere ==
  ASSUME NEW B, NEW t, Laid(B, t), NEW F \in SUBSET B, NEW i, NEW s, Order(i, s, F),
         NEW x \in B, x \notin F
  PROVE  Elsewhere(s, x)
<1> SUFFICES ASSUME NEW k \in 1 .. s.n
             PROVE  /\ 8 * s.at[k].lo # 8 * x.lo /\ 8 * s.at[k].lo # 8 * x.lo + 4
                    /\ 8 * s.at[k].lo + 4 # 8 * x.lo /\ 8 * s.at[k].lo + 4 # 8 * x.lo + 4
  BY DEF Elsewhere
<1>1. s.at[k] \in B /\ s.at[k] # x
  BY DEF Order
<1>2. /\ s.at[k].lo \in Nat /\ x.lo \in Nat
      /\ s.at[k].lo = x.lo <=> s.at[k] = x
      /\ 8 * s.at[k].lo # 8 * x.lo + 4 /\ 8 * x.lo # 8 * s.at[k].lo + 4
  BY <1>1, LinksApart
<1> QED
  BY <1>1, <1>2, Eightfold

LEMMA InsertOwn ==
  ASSUME NEW h \in Heaps, NEW B, NEW t, Laid(B, t), Tagged(h, B, t), NEW F \in SUBSET B,
         NEW L, Lists(h, F, L), NEW x \in B, x \notin F, NEW i \in Roots, Cat(x) = i,
         NEW s, L[i] = s, NEW g, g = insert_free_block(h, 8 * x.lo)
  PROVE  Chain(g, i, With(s, x))
<1> DEFINE r == With(s, x)
<1>0. PICK m : FirstFit(s, 8 * x.len) = m
  OBVIOUS
<1>r. Insertion(h, g, i, s, m, x) /\ Order(i, s, F) /\ Chain(h, i, s)
  BY <1>0, InsertSteps
<1>1. /\ g \in Heaps /\ g.brk = h.brk /\ m \in 1 .. s.n + 1
      /\ \A a \in Words :
           g.mem[a] = IF m \in 1 .. s.n /\ a = 8 * s.at[m].lo THEN 8 * x.lo
                      ELSE IF a = 8 * x.lo THEN Addr(s, m - 1)
                      ELSE IF a = 8 * x.lo + 4 THEN Addr(s, m)
                      ELSE IF a = (IF m = 1 THEN RootOf(i) ELSE 8 * s.at[m - 1].lo + 4)
                        THEN 8 * x.lo
                      ELSE h.mem[a]
  BY <1>r DEF Insertion
<1>2. s.n \in Nat /\ \A k \in 1 .. s.n : s.at[k] \in F
  BY <1>r DEF Order
<1>3. /\ r.n = s.n + 1 /\ r.n \in Nat
      /\ \A k \in 1 .. r.n : r.at[k] = IF k < m THEN s.at[k] ELSE IF k = m THEN x ELSE s.at[k - 1]
  BY <1>0, <1>1, <1>2 DEF With
<1>4. ASSUME NEW k \in Int
      PROVE  Addr(r, k) = IF k < m THEN Addr(s, k) ELSE IF k = m THEN 8 * x.lo
                          ELSE Addr(s, k - 1)
  <2>1. s.n \in Nat /\ m \in 1 .. s.n + 1
    BY <1>1, <1>2
  <2> QED
    BY ONLY <2>1, <1>0, k \in Int, AddrWith
<1> HIDE DEF r
<1>5. /\ h.mem[RootOf(i)] = Addr(s, 1)
      /\ \A k \in 1 .. s.n : /\ h.mem[8 * s.at[k].lo + 4] = Addr(s, k + 1)
                             /\ h.mem[8 * s.at[k].lo] = Addr(s, k - 1)
  BY <1>r DEF Chain
<1>6. /\ RootOf(i) \in Words
      /\ 8 * x.lo \in Words /\ 8 * x.lo + 4 \in Words /\ 8 * x.lo # 8 * x.lo + 4
      /\ RootOf(i) # 8 * x.lo /\ RootOf(i) # 8 * x.lo + 4
      /\ \A k \in 1 .. s.n : /\ 8 * s.at[k].lo \in Words /\ 8 * s.at[k].lo + 4 \in Words
                             /\ RootOf(i) # 8 * s.at[k].lo /\ RootOf(i) # 8 * s.at[k].lo + 4
  <2>1. /\ RootOf(i) \in Words
        /\ 8 * x.lo \in Words /\ 8 * x.lo + 4 \in Words /\ x.lo \in Nat
        /\ RootOf(i) # 8 * x.lo /\ RootOf(i) # 8 * x.lo + 4
    <3>1. B \in SUBSET B
      OBVIOUS
    <3> QED
      BY <3>1, ListWords
  <2>2. 8 * x.lo # 8 * x.lo + 4
    BY <2>1
  <2>3. \A k \in 1 .. s.n : /\ 8 * s.at[k].lo \in Words /\ 8 * s.at[k].lo + 4 \in Words
                            /\ RootOf(i) # 8 * s.at[k].lo /\ RootOf(i) # 8 * s.at[k].lo + 4
    BY <1>2, ListWords
  <2> QED
    BY <2>1, <2>2, <2>3
<1>7. \A j, k \in 1 .. s.n : /\ 8 * s.at[j].lo = 8 * s.at[k].lo <=> j = k
                             /\ 8 * s.at[j].lo + 4 = 8 * s.at[k].lo + 4 <=> j = k
                             /\ 8 * s.at[j].lo + 4 # 8 * s.at[k].lo
  <2>1. Scattered(s)
    BY <1>r, PlacesDiffer
  <2> QED
    BY <2>1 DEF Scattered
<1>8. \A k \in 1 .. s.n :
        /\ 8 * s.at[k].lo # 8 * x.lo /\ 8 * s.at[k].lo # 8 * x.lo + 4
        /\ 8 * s.at[k].lo + 4 # 8 * x.lo /\ 8 * s.at[k].lo + 4 # 8 * x.lo + 4
  <2>1. Elsewhere(s, x)
    BY <1>r, IsElsewhere
  <2> QED
    BY <2>1 DEF Elsewhere
<1>9. m # 1 => m - 1 \in 1 .. s.n
  BY <1>1, <1>2
<1>10. g.mem[RootOf(i)] = Addr(r, 1)
  <2>1. CASE m = 1
    <3>1. g.mem[RootOf(i)] = 8 * x.lo
      BY <2>1, <1>1, <1>6
    <3> QED
      BY <3>1, <2>1, <1>4
  <2>2. CASE m # 1
    <3>1. g.mem[RootOf(i)] = h.mem[RootOf(i)]
      BY <2>2, <1>1, <1>6, <1>9
    <3>2. 1 < m
      BY <2>2, <1>1, <1>2
    <3>3. Addr(r, 1) = Addr(s, 1)
      BY <3>2, <1>4
    <3> QED
      BY <3>1, <3>3, <1>5
  <2> QED
    BY <2>1, <2>2
\* The links of x ...
<1>11. /\ g.mem[8 * x.lo + 4] = Addr(r, m + 1)
       /\ g.mem[8 * x.lo] = Addr(r, m - 1)
  <2>1. m + 1 \in Int /\ m - 1 \in Int /\ m - 1 < m /\ ~(m + 1 < m) /\ m + 1 # m
        /\ (m + 1) - 1 = m
    BY <1>1, <1>2
  <2>2. Addr(r, m + 1) = Addr(s, m)
    BY <2>1, <1>4
  <2>3. Addr(r, m - 1) = Addr(s, m - 1)
    BY <2>1, <1>4
  <2>4. g.mem[8 * x.lo + 4] = Addr(s, m)
    BY <1>1, <1>6, <1>8, <1>9
  <2>5. g.mem[8 * x.lo] = Addr(s, m - 1)
    BY <1>1, <1>6, <1>8, <1>9
  <2> QED
    BY <2>2, <2>3, <2>4, <2>5
\* ... and those of the others.
<1>12. ASSUME NEW q \in 1 .. s.n
       PROVE  /\ g.mem[8 * s.at[q].lo + 4] = IF q = m - 1 THEN 8 * x.lo ELSE Addr(s, q + 1)
              /\ g.mem[8 * s.at[q].lo] = IF q = m THEN 8 * x.lo ELSE Addr(s, q - 1)
  <2>1. g.mem[8 * s.at[q].lo + 4] = IF q = m - 1 THEN 8 * x.lo ELSE Addr(s, q + 1)
    <3>1. m \in 1 .. s.n => 8 * s.at[q].lo + 4 # 8 * s.at[m].lo
      BY <1>7
    <3>2. CASE m = 1
      <4>1. q # m - 1
        BY <3>2
      <4> QED
        BY <4>1, <3>1, <3>2, <1>1, <1>5, <1>6, <1>8
    <3>3. CASE m # 1
      <4>1. 8 * s.at[q].lo + 4 = 8 * s.at[m - 1].lo + 4 <=> q = m - 1
        BY <3>3, <1>7, <1>9
      <4> QED
        BY <4>1, <3>1, <3>3, <1>1, <1>5, <1>6, <1>8
    <3> QED
      BY <3>2, <3>3
  <2>2. g.mem[8 * s.at[q].lo] = IF q = m THEN 8 * x.lo ELSE Addr(s, q - 1)
    <3>1. (m \in 1 .. s.n /\ 8 * s.at[q].lo = 8 * s.at[m].lo) <=> q = m
      BY <1>7
    <3>2. 8 * s.at[q].lo # (IF m = 1 THEN RootOf(i) ELSE 8 * s.at[m - 1].lo + 4)
      BY <1>6, <1>7, <1>9
    <3> QED
      BY <3>1, <3>2, <1>1, <1>5, <1>6, <1>8
  <2> QED
    BY <2>1, <2>2
<1>13. ASSUME NEW k \in 1 .. r.n
       PROVE  /\ g.mem[8 * r.at[k].lo + 4] = Addr(r, k + 1)
              /\ g.mem[8 * r.at[k].lo] = Addr(r, k - 1)
  <2>0. k \in Nat /\ m \in Nat /\ k + 1 \in Int /\ k - 1 \in Int
    BY <1>1, <1>2, <1>3
  <2>1. CASE k = m
    BY <2>1, <1>3, <1>11
  <2>2. CASE k < m
    <3>1. k \in 1 .. s.n /\ r.at[k] = s.at[k] /\ k # m
      BY <2>2, <2>0, <1>1, <1>2, <1>3
    <3>2. Addr(r, k - 1) = Addr(s, k - 1)
      BY <2>0, <2>2, <1>4
    <3>3. Addr(r, k + 1) = IF k = m - 1 THEN 8 * x.lo ELSE Addr(s, k + 1)
      BY <2>0, <2>2, <1>4
    <3> QED
      BY <3>1, <3>2, <3>3, <1>12
  <2>3. CASE k > m
    <3>1. k - 1 \in 1 .. s.n /\ r.at[k] = s.at[k - 1] /\ k - 1 # m - 1
      BY <2>3, <2>0, <1>1, <1>2, <1>3
    <3>2. Addr(r, k - 1) = IF k - 1 = m THEN 8 * x.lo ELSE Addr(s, (k - 1) - 1)
      BY <2>0, <2>3, <1>4
    <3>3. Addr(r, k + 1) = Addr(s, (k - 1) + 1)
      <4>1. (k + 1) - 1 = (k - 1) + 1 /\ ~(k + 1 < m) /\ k + 1 # m
        BY <2>0, <2>3
      <4> QED
        BY <4>1, <2>0, <1>4
    <3> QED
      BY <3>1, <3>2, <3>3, <1>12
  <2> QED
    BY <2>0, <2>1, <2>2, <2>3
<1> QED
  BY <1>3, <1>10, <1>13 DEF Chain, r

ListAt(g, L, j, F) == Chain(g, j, L[j]) /\ Order(j, L[j], F)

LEMMA InsertOthers ==
  ASSUME NEW h \in Heaps, NEW B, NEW t, Laid(B, t), Tagged(h, B, t), NEW F \in SUBSET B,
         NEW L, Lists(h, F, L), NEW x \in B, x \notin F, NEW i \in Roots, Cat(x) = i,
         NEW g, g = insert_free_block(h, 8 * x.lo), NEW j \in Roots, j # i
  PROVE  ListAt(g, L, j, F)
<1>a. PICK s : L[i] = s
  OBVIOUS
<1>b. PICK m : FirstFit(s, 8 * x.len) = m
  OBVIOUS
<1>r. Insertion(h, g, i, s, m, x) /\ Order(i, s, F) /\ Chain(h, i, s)
  BY <1>a, <1>b, InsertSteps
<1>1. /\ g \in Heaps /\ g.brk = h.brk /\ m \in 1 .. s.n + 1
      /\ \A a \in Words :
           g.mem[a] = IF m \in 1 .. s.n /\ a = 8 * s.at[m].lo THEN 8 * x.lo
                      ELSE IF a = 8 * x.lo THEN Addr(s, m - 1)
                      ELSE IF a = 8 * x.lo + 4 THEN Addr(s, m)
                      ELSE IF a = (IF m = 1 THEN RootOf(i) ELSE 8 * s.at[m - 1].lo + 4)
                        THEN 8 * x.lo
                      ELSE h.mem[a]
  BY <1>r DEF Insertion
<1>2. Chain(h, j, L[j]) /\ Order(j, L[j], F)
  BY ListOf
<1>3. /\ s.n \in Nat /\ \A k \in 1 .. s.n : s.at[k] \in F /\ Cat(s.at[k]) = i
      /\ m # 1 => m - 1 \in 1 .. s.n
  <2>1. Order(i, s, F)
    BY <1>r
  <2>2. /\ s.n \in Nat /\ \A k \in 1 .. s.n : s.at[k] \in F /\ Cat(s.at[k]) = i
    BY ONLY <2>1 DEF Order
  <2> QED
    BY <2>2, <1>1
<1>4. g.mem[RootOf(j)] = h.mem[RootOf(j)]
  <2>1. /\ RootOf(j) \in Words /\ RootOf(j) # RootOf(i)
        /\ \A y \in B : RootOf(j) # 8 * y.lo /\ RootOf(j) # 8 * y.lo + 4
    <3>1. B \in SUBSET B
      OBVIOUS
    <3> QED
      BY <3>1, ListWords
  <2> QED
    BY <2>1, <1>1, <1>3
<1>5. ASSUME NEW b \in F, Cat(b) = j
      PROVE  g.mem[8 * b.lo] = h.mem[8 * b.lo] /\ g.mem[8 * b.lo + 4] = h.mem[8 * b.lo + 4]
  <2>1. /\ 8 * b.lo \in Words /\ 8 * b.lo + 4 \in Words
        /\ RootOf(i) # 8 * b.lo /\ RootOf(i) # 8 * b.lo + 4
    BY ListWords
  <2>2. ASSUME NEW c \in B, Cat(c) = i
        PROVE  /\ 8 * b.lo # 8 * c.lo /\ 8 * b.lo + 4 # 8 * c.lo + 4
               /\ 8 * b.lo # 8 * c.lo + 4 /\ 8 * b.lo + 4 # 8 * c.lo
    <3>1. b # c /\ b \in B /\ c \in B
      BY <1>5, <2>2
    <3>2. /\ b.lo \in Nat /\ c.lo \in Nat /\ b.lo # c.lo
          /\ 8 * b.lo # 8 * c.lo + 4 /\ 8 * c.lo # 8 * b.lo + 4
      BY <3>1, LinksApart
    <3> QED
      BY <3>2, Eightfold
  <2> QED
    BY <2>1, <2>2, <1>1, <1>3
<1> QED
  BY <1>2, <1>4, <1>5, ChainKept DEF ListAt

LEMMA InsertChain ==
  ASSUME NEW h \in Heaps, NEW B, NEW t, Laid(B, t), Tagged(h, B, t), NEW F \in SUBSET B,
         NEW L, Lists(h, F, L), NEW x \in B, x \notin F,
         NEW g, g = insert_free_block(h, 8 * x.lo)
  PROVE  /\ OnlyLinks(h, g, F \cup {x})
         /\ Lists(g, F \cup {x}, Listed(L, x))
<1>0. PICK i \in Roots : Cat(x) = i
  BY SizeCategory
<1>1. PICK s : L[i] = s
  OBVIOUS
<1>2. PICK m : FirstFit(s, 8 * x.len) = m
  OBVIOUS
<1>r. Insertion(h, g, i, s, m, x) /\ Order(i, s, F) /\ Chain(h, i, s)
  BY <1>0, <1>1, <1>2, InsertSteps
<1>3. /\ g \in Heaps /\ g.brk = h.brk /\ m \in 1 .. s.n + 1
      /\ \A a \in Words :
           g.mem[a] = IF m \in 1 .. s.n /\ a = 8 * s.at[m].lo THEN 8 * x.lo
                      ELSE IF a = 8 * x.lo THEN Addr(s, m - 1)
                      ELSE IF a = 8 * x.lo + 4 THEN Addr(s, m)
                      ELSE IF a = (IF m = 1 THEN RootOf(i) ELSE 8 * s.at[m - 1].lo + 4)
                        THEN 8 * x.lo
                      ELSE h.mem[a]
  BY <1>r DEF Insertion
<1>4. OnlyLinks(h, g, F \cup {x})
  <2>1. Order(i, s, F)
    BY <1>r
  <2>2. s.n \in Nat /\ \A k \in 1 .. s.n : s.at[k] \in F
    BY ONLY <2>1 DEF Order
  <2>3. m # 1 => m - 1 \in 1 .. s.n
    BY <2>2, <1>3
  <2> QED
    BY <2>2, <2>3, <1>3 DEF OnlyLinks, RootWord, LinkWord
<1>5. (\A b \in F : b.len \in Nat) /\ x.len \in Nat
  BY LaidFacts
<1>6. /\ Listed(L, x) = [j \in Roots |-> Listed(L, x)[j]]
      /\ \A j \in Roots : Listed(L, x)[j] = IF j = i THEN With(s, x) ELSE L[j]
  BY <1>0, <1>1 DEF Listed, Lists
<1>7. Chain(g, i, With(s, x)) /\ Order(i, With(s, x), F \cup {x})
  <2>1. Chain(g, i, With(s, x))
    BY <1>0, <1>1, InsertOwn
  <2>2. Order(i, s, F)
    BY <1>r
  <2>3. Order(i, With(s, x), F \cup {x})
    BY ONLY <2>2, <1>5, x \notin F, <1>0, WithOrder
  <2> QED
    BY <2>1, <2>3
<1>8. ASSUME NEW j \in Roots, j # i PROVE Chain(g, j, L[j]) /\ Order(j, L[j], F \cup {x})
  <2>1. ListAt(g, L, j, F)
    BY <1>0, <1>8, InsertOthers
  <2> QED
    BY <2>1, <1>0, <1>8, OrderOthers DEF ListAt
<1> QED
  BY <1>4, <1>6, <1>7, <1>8 DEF Lists

-----------------------------------------------------------------------------
(* Neighbours.                                                             *)

LEMMA HeapHolds == HP!HeapAssumption
BY MemoryAssumption, DriverAssumption
   DEF HP!HeapAssumption, FirstBlock, Size, AdjustedSize, DSIZE, WSIZE

LEMMA GoodFacts ==
  ASSUME NEW B, NEW t, Laid(B, t)
  PROVE  /\ \E b \in B : b.lo = First
         /\ \A b \in B : b.lo + b.len = t \/ \E c \in B : b.lo + b.len = c.lo
         /\ B \in SUBSET HP!Block /\ HP!DisjointIn(B) /\ t \in Nat /\ HP!Good(B, t)
BY DEF Laid, HP!Good, HP!TilesIn, HP!End, HP!Adjacent, First

\* But for the first block, another one ends where a block starts.
LEMMA BlockBefore ==
  ASSUME NEW B, NEW t, Laid(B, t), NEW x \in B, x.lo # First
  PROVE  \E c \in B : c.lo + c.len = x.lo
<1>0. First \in Nat
  BY FirstFacts
<1>1. /\ t \in Nat
      /\ \A b \in B : /\ b.lo \in Nat /\ b.len \in Nat /\ b.len >= 2
                      /\ First <= b.lo /\ b.lo + b.len <= t
      /\ \A b, c \in B : Apart(b, c)
  BY LaidFacts
<1>2. /\ \E b \in B : b.lo = First
      /\ \A b \in B : b.lo + b.len = t \/ \E c \in B : b.lo + b.len = c.lo
  BY GoodFacts
<1> DEFINE S == {b.lo + b.len : b \in {c \in B : c.lo + c.len <= x.lo}}
<1>3. S \in SUBSET (1 .. x.lo) /\ x.lo \in Nat
  BY <1>1
<1>4. S # {}
  <2>1. PICK b \in B : b.lo = First
    BY <1>2
  <2>2. b.lo + b.len <= x.lo
    BY <2>1, <1>0, <1>1 DEF Apart
  <2> QED
    BY <2>2
<1>5. PICK e \in S : \A d \in S : e >= d
  <2> HIDE DEF S
  <2> QED
    BY <1>3, <1>4, GreatestNatural
<1>6. PICK b \in B : b.lo + b.len = e /\ e <= x.lo
  BY <1>5
<1>7. b.lo + b.len # t
  BY <1>1, <1>6
<1>8. PICK c \in B : b.lo + b.len = c.lo
  BY <1>2, <1>7
<1>9. ~(c.lo + c.len <= x.lo)
  <2> SUFFICES ASSUME c.lo + c.len <= x.lo PROVE FALSE
    OBVIOUS
  <2>1. c.lo + c.len \in S
    OBVIOUS
  <2>2. e >= c.lo + c.len
    BY <2>1, <1>5
  <2> QED
    BY <2>2, <1>1, <1>6, <1>8
<1>10. c = x
  BY <1>1, <1>6, <1>8, <1>9 DEF Apart
<1> QED
  BY <1>8, <1>10

\* The free neighbours that coalesce sees are those of the set of blocks.
LooksBack(h, x, p) ==
  LET prev == PREV_BLKP(h, 8 * x.lo)
  IN /\ GET_ALLOC(h, FTRP(h, prev)) = 0 <=> p # x
     /\ p # x => prev = 8 * p.lo /\ p.lo + p.len = x.lo

LooksAhead(h, x, n) ==
  LET next == NEXT_BLKP(h, 8 * x.lo)
  IN /\ GET_ALLOC(h, HDRP(next)) = 0 <=> n # x
     /\ n # x => next = 8 * n.lo /\ x.lo + x.len = n.lo

LEMMA SeesBefore ==
  ASSUME NEW h, NEW B, NEW t, Laid(B, t), Tagged(h, B, t), NEW x \in B,
         NEW p, NEW n, HP!Outer(B, x, p, n)
  PROVE  LooksBack(h, x, p)
<1>1. /\ t \in Nat
      /\ \A b \in B : /\ b.lo \in Nat /\ b.len \in Nat /\ b.len >= 2
                      /\ First <= b.lo /\ b.lo + b.len <= t /\ b.used \in BOOLEAN
      /\ \A b, c \in B : Apart(b, c)
  BY LaidFacts
<1>2. /\ p \in B
      /\ \/ p = x /\ HP!FreeBefore(B, x) = {}
         \/ HP!FreeBefore(B, x) = {p}
      /\ HP!FreeBefore(B, x) = {c \in B : ~c.used /\ c.lo + c.len = x.lo}
  BY DEF HP!Outer, HP!FreeBefore, HP!Adjacent, HP!End
<1>3. CASE x.lo = First
  <2>1. 8 * x.lo - 8 = Start + 48 /\ Start + 48 \in Nat /\ First \in Nat
    BY <1>3, FirstFacts, WordFacts
  <2>2. h.mem[Start + 44] = 9 /\ h.mem[Start + 48] = 9
    BY DEF Tagged
  <2>3. PREV_BLKP(h, 8 * x.lo) = Start + 48
    <3>1. GET_SIZE(h, 8 * x.lo - 8) = 8
      BY <2>1, <2>2 DEF GET_SIZE, GET
    <3> QED
      BY <3>1, <2>1, <1>1 DEF PREV_BLKP, DSIZE
  <2>4. FTRP(h, Start + 48) = Start + 48
    <3>1. GET_SIZE(h, Start + 44) = 8
      BY <2>2 DEF GET_SIZE, GET
    <3>2. (Start + 48) - 4 = Start + 44
      BY WordFacts
    <3>3. SIZE(h, Start + 48) = 8
      BY <3>1, <3>2 DEF SIZE, HDRP, WSIZE
    <3> QED
      BY <3>3, WordFacts DEF FTRP, DSIZE
  <2>5. GET_ALLOC(h, Start + 48) = 1
    BY <2>2 DEF GET_ALLOC, GET
  <2>6. p = x
    <3>1. HP!FreeBefore(B, x) = {}
      BY <1>1, <1>2, <1>3, <2>1
    <3> QED
      BY <3>1, <1>2
  <2> QED
    BY <2>3, <2>4, <2>5, <2>6 DEF LooksBack
<1>4. CASE x.lo # First
  <2>1. PICK c \in B : c.lo + c.len = x.lo
    BY <1>4, BlockBefore
  <2>2. /\ SIZE(h, 8 * c.lo) = 8 * c.len
        /\ GET_SIZE(h, 8 * (c.lo + c.len) - 8) = 8 * c.len
        /\ GET_ALLOC(h, 8 * (c.lo + c.len) - 8) = Bit(c)
    BY SizeIs
  <2>3. PREV_BLKP(h, 8 * x.lo) = 8 * c.lo
    BY <2>1, <2>2, <1>1 DEF PREV_BLKP, DSIZE
  <2>4. FTRP(h, 8 * c.lo) = 8 * (c.lo + c.len) - 8
    BY <2>2, <1>1 DEF FTRP, DSIZE
  <2>5. \A d \in B : d.lo + d.len = x.lo => d = c
    BY <2>1, <1>1 DEF Apart
  <2>6. c # x
    BY <2>1, <1>1
  <2>7. CASE c.used
    <3>1. HP!FreeBefore(B, x) = {}
      BY <2>5, <2>7, <1>2
    <3> QED
      BY <3>1, <2>2, <2>3, <2>4, <2>7, <1>2 DEF LooksBack, Bit
  <2>8. CASE ~c.used
    <3>1. HP!FreeBefore(B, x) = {c}
      BY <2>1, <2>5, <2>8, <1>2
    <3>2. p = c
      BY <3>1, <1>2
    <3> QED
      BY <3>2, <2>1, <2>2, <2>3, <2>4, <2>6, <2>8 DEF LooksBack, Bit
  <2> QED
    BY <2>7, <2>8
<1> QED
  BY <1>3, <1>4

LEMMA SeesAfter ==
  ASSUME NEW h, NEW B, NEW t, Laid(B, t), Tagged(h, B, t), NEW x \in B,
         NEW p, NEW n, HP!Outer(B, x, p, n)
  PROVE  LooksAhead(h, x, n)
<1>1. /\ t \in Nat
      /\ \A b \in B : /\ b.lo \in Nat /\ b.len \in Nat /\ b.len >= 2
                      /\ First <= b.lo /\ b.lo + b.len <= t /\ b.used \in BOOLEAN
      /\ \A b, c \in B : Apart(b, c)
  BY LaidFacts
<1>2. /\ n \in B
      /\ \/ n = x /\ HP!FreeAfter(B, x) = {}
         \/ HP!FreeAfter(B, x) = {n}
      /\ HP!FreeAfter(B, x) = {c \in B : ~c.used /\ x.lo + x.len = c.lo}
  BY DEF HP!Outer, HP!FreeAfter, HP!Adjacent, HP!End
<1>3. SIZE(h, 8 * x.lo) = 8 * x.len
  BY SizeIs
<1>4. NEXT_BLKP(h, 8 * x.lo) = 8 * (x.lo + x.len)
  BY <1>1, <1>3 DEF NEXT_BLKP
<1>5. CASE x.lo + x.len = t
  <2>1. GET_ALLOC(h, 8 * (x.lo + x.len) - 4) = 1
    BY <1>5 DEF Tagged, GET_ALLOC, GET
  <2>2. HP!FreeAfter(B, x) = {}
    BY <1>1, <1>2, <1>5
  <2> QED
    BY <2>1, <2>2, <1>2, <1>4 DEF LooksAhead, HDRP, WSIZE
<1>6. CASE x.lo + x.len # t
  <2>1. PICK c \in B : x.lo + x.len = c.lo
    BY <1>6, GoodFacts
  <2>2. GET_ALLOC(h, HDRP(8 * c.lo)) = Bit(c)
    BY SizeIs
  <2>3. \A d \in B : x.lo + x.len = d.lo => d = c
    BY <2>1, <1>1 DEF Apart
  <2>4. c # x
    BY <2>1, <1>1
  <2>5. NEXT_BLKP(h, 8 * x.lo) = 8 * c.lo
    BY <2>1, <1>4
  <2>7. CASE c.used
    <3>1. HP!FreeAfter(B, x) = {}
      BY <2>3, <2>7, <1>2
    <3> QED
      BY <3>1, <2>2, <2>5, <2>7, <1>2 DEF LooksAhead, Bit
  <2>8. CASE ~c.used
    <3>1. HP!FreeAfter(B, x) = {c}
      BY <2>1, <2>3, <2>8, <1>2
    <3>2. n = c
      BY <3>1, <1>2
    <3> QED
      BY <3>2, <2>1, <2>2, <2>4, <2>5, <2>8 DEF LooksAhead, Bit
  <2> QED
    BY <2>7, <2>8
<1> QED
  BY <1>5, <1>6

-----------------------------------------------------------------------------
(* What list operations and new tags leave as it is.                       *)

\* The words of the block c, header and footer included.
InBlock(a, c) == 8 * c.lo - 4 <= a /\ a < 8 * (c.lo + c.len) - 4

\* The blocks of U are as before.
Spares(h, g, U) == \A c \in U : \A a \in Words : InBlock(a, c) => g.mem[a] = h.mem[a]

Used(B) == {b \in B : b.used}

LEMMA SparesTwice ==
  ASSUME NEW h, NEW g, NEW k, NEW U, Spares(h, g, U), Spares(g, k, U)
  PROVE  Spares(h, k, U)
BY DEF Spares

LEMMA SparesFewer ==
  ASSUME NEW h, NEW g, NEW U, NEW V, Spares(h, g, U), V \subseteq U
  PROVE  Spares(h, g, V)
BY DEF Spares

\* Roots and the words of other blocks are not in a block.
LEMMA OutOfBlock ==
  ASSUME NEW B, NEW t, Laid(B, t), NEW c \in B
  PROVE  /\ \A i \in Roots : ~InBlock(RootOf(i), c)
         /\ \A b \in B : \A a \in Int : b # c /\ InBlock(a, b) => ~InBlock(a, c)
<1>1. /\ c.lo \in Nat /\ c.len \in Nat
      /\ \A b \in B : b.lo \in Nat /\ b.len \in Nat /\ b.len >= 2 /\ Apart(b, c)
  BY LaidFacts
<1>2. \A i \in Roots : RootOf(i) < 8 * c.lo - 4 /\ RootOf(i) \in Nat
  BY RootsApart
<1>3. \A i \in Roots : ~InBlock(RootOf(i), c)
  BY <1>1, <1>2 DEF InBlock
<1>4. ASSUME NEW b \in B, NEW a \in Int, b # c, InBlock(a, b) PROVE ~InBlock(a, c)
  BY <1>1, <1>4 DEF InBlock, Apart
<1> QED
  BY <1>3, <1>4

\* The words of a block in the heap.
LEMMA BlockParts ==
  ASSUME NEW B, NEW t, Laid(B, t), NEW b \in B
  PROVE  /\ InBlock(8 * b.lo, b) /\ InBlock(8 * b.lo + 4, b) /\ InBlock(8 * b.lo - 4, b)
         /\ InBlock(8 * (b.lo + b.len) - 8, b)
         /\ 8 * b.lo \in Words /\ 8 * b.lo + 4 \in Words /\ 8 * b.lo - 4 \in Words
         /\ 8 * (b.lo + b.len) - 8 \in Words
<1>1. /\ b.lo \in Nat /\ b.len \in Nat /\ b.len >= 2 /\ t \in Nat
      /\ 8 * t <= Start + MAX_HEAP /\ First <= b.lo /\ b.lo + b.len <= t
  BY LaidFacts
<1>2. /\ 8 * b.lo \in Words /\ 8 * b.lo + 4 \in Words /\ 8 * b.lo - 4 \in Words
      /\ 8 * (b.lo + b.len) - 8 \in Words
  BY <1>1, BlockWords
<1>3. /\ InBlock(8 * b.lo, b) /\ InBlock(8 * b.lo + 4, b) /\ InBlock(8 * b.lo - 4, b)
      /\ InBlock(8 * (b.lo + b.len) - 8, b)
  BY <1>1 DEF InBlock
<1> QED
  BY <1>2, <1>3

LEMMA LinksSpare ==
  ASSUME NEW B, NEW t, Laid(B, t), NEW F \in SUBSET B, NEW U \in SUBSET B, F \cap U = {},
         NEW h, NEW g, OnlyLinks(h, g, F)
  PROVE  Spares(h, g, U)
<1> SUFFICES ASSUME NEW c \in U, NEW a \in Words, InBlock(a, c) PROVE g.mem[a] = h.mem[a]
  BY DEF Spares
<1>1. g.mem[a] = h.mem[a] \/ RootWord(a) \/ LinkWord(a, F)
  BY DEF OnlyLinks
<1>2. ~RootWord(a)
  BY OutOfBlock DEF RootWord
<1>3. ~LinkWord(a, F)
  <2> SUFFICES ASSUME NEW b \in F, a = 8 * b.lo \/ a = 8 * b.lo + 4 PROVE FALSE
    BY DEF LinkWord
  <2>1. InBlock(a, b)
    BY BlockParts
  <2>2. b # c /\ a \in Int
    BY WordFacts DEF Words
  <2> QED
    BY <2>1, <2>2, OutOfBlock
<1> QED
  BY <1>1, <1>2, <1>3

\* Tags are no links.
LEMMA LinksNoTags ==
  ASSUME NEW B, NEW t, Laid(B, t), NEW F \in SUBSET B,
         NEW h, NEW g, OnlyLinks(h, g, F), NEW b \in B
  PROVE  /\ g.mem[8 * b.lo - 4] = h.mem[8 * b.lo - 4]
         /\ g.mem[8 * (b.lo + b.len) - 8] = h.mem[8 * (b.lo + b.len) - 8]
<1>1. 8 * b.lo - 4 \in Words /\ 8 * (b.lo + b.len) - 8 \in Words
  BY BlockParts
<1>2. ASSUME NEW c \in F
      PROVE  /\ 8 * b.lo - 4 # 8 * c.lo /\ 8 * b.lo - 4 # 8 * c.lo + 4
             /\ 8 * (b.lo + b.len) - 8 # 8 * c.lo + 4
             /\ 8 * (b.lo + b.len) - 8 # 8 * c.lo
  BY LinksApart
<1>3. \A i \in Roots : RootOf(i) # 8 * b.lo - 4 /\ RootOf(i) # 8 * (b.lo + b.len) - 8
  <2>1. InBlock(8 * b.lo - 4, b) /\ InBlock(8 * (b.lo + b.len) - 8, b)
    BY BlockParts
  <2> QED
    BY <2>1, OutOfBlock
<1> QED
  BY <1>1, <1>2, <1>3 DEF OnlyLinks, RootWord, LinkWord

LEMMA LinksKeepTags ==
  ASSUME NEW B, NEW t, Laid(B, t), NEW F \in SUBSET B,
         NEW h, NEW g, OnlyLinks(h, g, F), Tagged(h, B, t)
  PROVE  Tagged(g, B, t)
<1>1. \A b \in B : /\ g.mem[8 * b.lo - 4] = h.mem[8 * b.lo - 4]
                   /\ g.mem[8 * (b.lo + b.len) - 8] = h.mem[8 * (b.lo + b.len) - 8]
  BY LinksNoTags
<1>2. /\ t \in Nat /\ 8 * t <= Start + MAX_HEAP /\ First < t /\ First \in Nat
      /\ 8 * First = Start + 56 /\ Start \in Nat
  BY LaidFacts, FirstFacts, WordFacts
<1>3. 8 * t - 4 \in Words /\ Start + 44 \in Words /\ Start + 48 \in Words
  BY <1>2, EndWords
<1>4. \A i \in Roots : RootOf(i) = Start + 4 * i /\ i \in Nat /\ i <= 9
  BY RootFacts DEF Roots
<1>5. \A b \in F : /\ b.lo \in Nat /\ b.len \in Nat /\ First <= b.lo /\ b.lo + b.len <= t
                   /\ b.len >= 2
  BY LaidFacts
<1>6. ASSUME NEW a \in {8 * t - 4, Start + 44, Start + 48} PROVE g.mem[a] = h.mem[a]
  <2>1. ~RootWord(a)
    BY <1>2, <1>4 DEF RootWord
  <2>2. ~LinkWord(a, F)
    BY <1>2, <1>5 DEF LinkWord
  <2> QED
    BY <2>1, <2>2, <1>3 DEF OnlyLinks
<1>7. g.brk = h.brk
  BY DEF OnlyLinks
<1> QED
  BY <1>1, <1>6, <1>7 DEF Tagged

-----------------------------------------------------------------------------
(* coalesce.                                                               *)

LEMMA LinksTwice ==
  ASSUME NEW h, NEW g, NEW k, NEW F, NEW G, OnlyLinks(h, g, F), OnlyLinks(g, k, G)
  PROVE  OnlyLinks(h, k, F \cup G)
BY DEF OnlyLinks, LinkWord

LEMMA LinksMore ==
  ASSUME NEW h, NEW g, NEW F, NEW G, OnlyLinks(h, g, F), F \subseteq G
  PROVE  OnlyLinks(h, g, G)
BY DEF OnlyLinks, LinkWord

LEMMA LinksNone ==
  ASSUME NEW h \in Heaps, NEW F
  PROVE  OnlyLinks(h, h, F)
BY DEF OnlyLinks

\* Without the free neighbours p and n of x.
NoNeighbours(L, x, p, n) ==
  LET K == IF p = x THEN L ELSE Unlisted(L, p)
  IN IF n = x THEN K ELSE Unlisted(K, n)

LEMMA OuterIn ==
  ASSUME NEW B, NEW t, Laid(B, t), NEW x \in B, ~x.used, NEW p, NEW n, HP!Outer(B, x, p, n)
  PROVE  /\ p \in B /\ n \in B /\ ~p.used /\ ~n.used
         /\ p = x \/ p.lo + p.len = x.lo
         /\ n = x \/ x.lo + x.len = n.lo
         /\ p = n => p = x
         /\ p.lo \in Nat /\ p.len \in Nat /\ p.len >= 2 /\ x.lo \in Nat /\ x.len \in Nat
         /\ x.len >= 2 /\ n.lo \in Nat /\ n.len \in Nat /\ n.len >= 2
         /\ First <= p.lo /\ n.lo + n.len <= t /\ t \in Nat
<1>1. /\ p \in B /\ n \in B /\ ~p.used /\ ~n.used
      /\ p = x \/ HP!Adjacent(p, x)
      /\ n = x \/ HP!Adjacent(x, n)
  <2>1. B \in SUBSET HP!Block
    BY GoodFacts
  <2> QED
    BY <2>1, HeapHolds, HP!OuterFacts
<1>2. /\ t \in Nat
      /\ \A b \in B : /\ b.lo \in Nat /\ b.len \in Nat /\ b.len >= 2
                      /\ First <= b.lo /\ b.lo + b.len <= t /\ b.used \in BOOLEAN
  BY LaidFacts
<1>3. /\ p = x \/ p.lo + p.len = x.lo
      /\ n = x \/ x.lo + x.len = n.lo
  BY <1>1 DEF HP!Adjacent, HP!End
<1>4. p = n => p = x
  BY <1>1, <1>2, <1>3
<1> QED
  BY <1>1, <1>2, <1>3, <1>4

\* h and h2 differ in links, and the lists of h2 are those of h without p, n.
Detached(h, h2, B, L, t, x, p, n) ==
  /\ OnlyLinks(h, h2, FreeOf(B) \ {x})
  /\ Tagged(h2, B, t)
  /\ Lists(h2, FreeOf(B) \ {x, p, n}, NoNeighbours(L, x, p, n))

LEMMA NeighboursRemoved ==
  ASSUME NEW h \in Heaps, NEW B, NEW t, Laid(B, t), Tagged(h, B, t), NEW x \in B, ~x.used,
         NEW p, NEW n, HP!Outer(B, x, p, n), NEW L, Lists(h, FreeOf(B) \ {x}, L),
         NEW h1, h1 = IF p = x THEN h ELSE remove_free_block(h, 8 * p.lo),
         NEW h2, h2 = IF n = x THEN h1 ELSE remove_free_block(h1, 8 * n.lo)
  PROVE  Detached(h, h2, B, L, t, x, p, n)
<1> DEFINE F == FreeOf(B) \ {x}
           K == IF p = x THEN L ELSE Unlisted(L, p)
<1>1. /\ p \in B /\ n \in B /\ ~p.used /\ ~n.used /\ (p = n => p = x)
  BY OuterIn
<1>2. F \in SUBSET B /\ F \ {p} \in SUBSET B /\ F \ {p, n} \in SUBSET B /\ x \notin F
  BY DEF FreeOf
<1>3. (p # x => p \in F) /\ (n # x => n \in F \ {p})
  BY <1>1 DEF FreeOf
<1>4. FreeOf(B) \ {x, p, n} = F \ {p, n}
  OBVIOUS
<1> HIDE DEF F, K
<1>5. OnlyLinks(h, h1, F) /\ Lists(h1, F \ {p}, K) /\ Tagged(h1, B, t)
  <2>1. CASE p = x
    <3>1. h1 = h /\ F \ {p} = F /\ K = L
      BY <2>1, <1>2 DEF K
    <3> QED
      BY <3>1, LinksNone DEF F
  <2>2. CASE p # x
    <3>1. h1 = remove_free_block(h, 8 * p.lo) /\ K = Unlisted(L, p) /\ p \in F
      BY <2>2, <1>3 DEF K
    <3>2. Lists(h, F, L)
      BY DEF F
    <3>3. OnlyLinks(h, h1, F) /\ Lists(h1, F \ {p}, Unlisted(L, p))
      BY <3>1, <3>2, <1>2, RemoveChain
    <3>4. Tagged(h1, B, t)
      BY <3>3, <1>2, LinksKeepTags
    <3> QED
      BY <3>1, <3>3, <3>4
  <2> QED
    BY <2>1, <2>2
<1>6. h1 \in Heaps
  BY <1>5 DEF OnlyLinks
<1>7. CASE n = x
  <2>1. h2 = h1 /\ F \ {p, n} = F \ {p} /\ NoNeighbours(L, x, p, n) = K
    BY <1>2, <1>7 DEF NoNeighbours, K
  <2> QED
    BY <2>1, <1>4, <1>5 DEF Detached, F
<1>8. CASE n # x
  <2>1. /\ h2 = remove_free_block(h1, 8 * n.lo) /\ (F \ {p}) \ {n} = F \ {p, n}
        /\ NoNeighbours(L, x, p, n) = Unlisted(K, n)
    BY <1>8 DEF NoNeighbours, K
  <2>2. OnlyLinks(h1, h2, F \ {p}) /\ Lists(h2, (F \ {p}) \ {n}, Unlisted(K, n))
    BY <2>1, <1>2, <1>3, <1>5, <1>6, <1>8, RemoveChain
  <2>3. Tagged(h2, B, t)
    BY <2>2, <1>2, <1>5, LinksKeepTags
  <2>4. F \cup (F \ {p}) = F
    OBVIOUS
  <2>5. OnlyLinks(h, h2, F \cup (F \ {p}))
    BY <2>2, <1>5, LinksTwice
  <2> QED
    BY <2>1, <2>2, <2>3, <2>4, <2>5, <1>4 DEF Detached, F
<1> QED
  BY <1>7, <1>8

\* What x becomes with its free neighbours p and n.
Joined(p, n) == HP!Span(p.lo, HP!End(n))

\* C is B with x, p and n joined to m.
JoinedIn(B, C, t, x, p, n, m) ==
  /\ Laid(C, t) /\ m \in C /\ ~m.used /\ C = (B \ {x, p, n}) \cup {m}
  /\ m.lo = p.lo /\ m.len = n.lo + n.len - p.lo /\ m.len \in Nat
  /\ FreeOf(C) = (FreeOf(B) \ {x, p, n}) \cup {m}
  /\ Used(C) = Used(B)
  /\ m \notin FreeOf(B) \ {x, p, n}
  /\ p = x /\ n = x => m = x

LEMMA JoinFacts ==
  ASSUME NEW B, NEW t, Laid(B, t), NEW x \in B, ~x.used, NEW p, NEW n,
         HP!Outer(B, x, p, n), NEW C, C = HP!Coalesce(B, x)
  PROVE  JoinedIn(B, C, t, x, p, n, Joined(p, n))
<1> DEFINE m == Joined(p, n)
<1>1. /\ p \in B /\ n \in B /\ ~p.used /\ ~n.used
      /\ p = x \/ p.lo + p.len = x.lo
      /\ n = x \/ x.lo + x.len = n.lo
      /\ p.lo \in Nat /\ p.len \in Nat /\ p.len >= 2 /\ x.lo \in Nat /\ x.len \in Nat
      /\ x.len >= 2 /\ n.lo \in Nat /\ n.len \in Nat /\ n.len >= 2
  BY OuterIn
<1>2. m = HP!Span(p.lo, HP!End(n))
  BY DEF Joined
<1>3. m.lo = p.lo /\ m.len = n.lo + n.len - p.lo /\ ~m.used
  <2>1. m.lo = p.lo /\ m.len = HP!End(n) - p.lo /\ ~m.used
    BY DEF Joined, HP!Span
  <2>2. HP!End(n) = n.lo + n.len
    BY DEF HP!End
  <2> QED
    BY <2>1, <2>2, <1>1
<1>4. p.lo <= x.lo /\ x.lo + x.len <= n.lo + n.len
  BY <1>1
<1>5. m.len \in Nat /\ m.len >= 2
  BY <1>1, <1>3, <1>4
<1>6. B \in SUBSET HP!Block /\ HP!DisjointIn(B) /\ t \in Nat /\ HP!Good(B, t)
  BY GoodFacts
<1>7. C = (B \ {x, p, n}) \cup {m}
  <2>1. PICK p1 \in B, n1 \in B :
          /\ HP!Outer(B, x, p1, n1)
          /\ HP!Coalesce(B, x) = (B \ {x, p1, n1}) \cup {HP!Span(p1.lo, HP!End(n1))}
    BY <1>6, HeapHolds, HP!CoalesceParts
  <2>2. p1 = p
    BY <2>1 DEF HP!Outer
  <2>3. n1 = n
    BY <2>1 DEF HP!Outer
  <2> QED
    BY <2>1, <2>2, <2>3, <1>2
<1>8. Laid(C, t)
  <2>1. HP!Good(C, t)
    BY <1>6, HeapHolds, HP!CoalesceGood
  <2>2. /\ 8 * t <= Start + MAX_HEAP
        /\ \A b \in B : b.len >= 2
    BY DEF Laid
  <2> QED
    BY <2>1, <2>2, <1>5, <1>6, <1>7 DEF Laid
<1>9. \A c \in B \ {x, p, n} : c # m
  <2> SUFFICES ASSUME NEW c \in B \ {x, p, n}, c = m PROVE FALSE
    OBVIOUS
  <2>1. Apart(c, p) /\ c.lo \in Nat /\ c.len \in Nat /\ c.len >= 2
    BY <1>1, LaidFacts
  <2>2. c.lo = p.lo
    BY <2>1, <1>3
  <2> QED
    BY <2>1, <2>2, <1>1 DEF Apart
<1>10. p = x /\ n = x => m = x
  <2> SUFFICES ASSUME p = x, n = x PROVE m = x
    OBVIOUS
  <2>1. x \in HP!Block
    BY <1>6
  <2>2. x = [lo |-> x.lo, len |-> x.len, used |-> x.used]
    BY <2>1 DEF HP!Block
  <2>3. m.len = x.len
    BY <1>1, <1>3
  <2>4. m = [lo |-> m.lo, len |-> m.len, used |-> m.used] /\ m.used = FALSE
    BY DEF Joined, HP!Span
  <2>5. x.used = FALSE
    <3>1. x.used \in BOOLEAN
      BY <2>1 DEF HP!Block
    <3> QED
      BY <3>1
  <2> QED
    BY <2>2, <2>3, <2>4, <2>5, <1>3
<1> HIDE DEF m
<1>11. FreeOf(C) = (FreeOf(B) \ {x, p, n}) \cup {m}
  BY <1>3, <1>7 DEF FreeOf
<1>12. Used(C) = Used(B)
  BY <1>1, <1>3, <1>7 DEF Used
<1>13. m \notin FreeOf(B) \ {x, p, n} /\ m \in C
  BY <1>7, <1>9 DEF FreeOf
<1> QED
  BY <1>3, <1>5, <1>7, <1>8, <1>10, <1>11, <1>12, <1>13 DEF JoinedIn, m

\* h3 has the tags of m; only those differ.
Retagged(h2, h3, C, t, m) ==
  /\ h3 \in Heaps /\ Tagged(h3, C, t)
  /\ \A a \in Words : a # 8 * m.lo - 4 /\ a # 8 * (m.lo + m.len) - 8 => h3.mem[a] = h2.mem[a]

LEMMA TagsJoined ==
  ASSUME NEW h2 \in Heaps, NEW B, NEW t, Laid(B, t), Tagged(h2, B, t), NEW x \in B, ~x.used,
         NEW p, NEW n, HP!Outer(B, x, p, n),
         NEW C, NEW m, JoinedIn(B, C, t, x, p, n, m),
         NEW h3, h3 = IF p = x /\ n = x THEN h2 ELSE Tag(h2, 8 * p.lo, 8 * m.len, 0)
  PROVE  Retagged(h2, h3, C, t, m)
<1>1. /\ Laid(C, t) /\ m \in C /\ ~m.used /\ C = (B \ {x, p, n}) \cup {m}
      /\ m.lo = p.lo /\ m.len \in Nat
      /\ p = x /\ n = x => m = x
  BY DEF JoinedIn
<1>2. CASE p = x /\ n = x
  <2>1. C = B /\ h3 = h2
    BY <1>1, <1>2
  <2> QED
    BY <2>1 DEF Retagged
<1>3. CASE ~(p = x /\ n = x)
  <2>1. /\ 8 * m.lo - 4 \in Words /\ 8 * (m.lo + m.len) - 8 \in Words
        /\ InBlock(8 * m.lo - 4, m) /\ InBlock(8 * (m.lo + m.len) - 8, m)
    BY <1>1, BlockParts
  <2>2. /\ m.lo \in Nat /\ m.len \in Nat /\ m.len >= 2 /\ First <= m.lo /\ m.lo + m.len <= t
        /\ t \in Nat /\ 8 * t <= Start + MAX_HEAP
    BY <1>1, LaidFacts
  <2>3. h3 = Tag(h2, 8 * m.lo, 8 * m.len, 0)
    BY <1>1, <1>3
  <2> DEFINE q == 8 * m.lo
             z == 8 * m.len
  <2>4. q + z - 8 = 8 * (m.lo + m.len) - 8 /\ q - 4 = 8 * m.lo - 4 /\ z + 0 \in Nat /\ z + 0 = z
    BY <2>2
  <2>5. q - 4 \in Words /\ q + z - 8 \in Words /\ h3 = Tag(h2, q, z, 0)
    BY <2>1, <2>3, <2>4
  <2> HIDE DEF q, z
  <2>6. /\ h3 \in Heaps /\ h3.brk = h2.brk
        /\ \A d \in Words : h3.mem[d] = IF d = q - 4 \/ d = q + z - 8 THEN z + 0
                                        ELSE h2.mem[d]
    BY ONLY h2 \in Heaps, <2>4, <2>5, TagIs
  <2>7. \A d \in Words : h3.mem[d] = IF d = 8 * m.lo - 4 \/ d = 8 * (m.lo + m.len) - 8
                                     THEN 8 * m.len ELSE h2.mem[d]
    BY <2>4, <2>6 DEF z
  <2>8. ASSUME NEW b \in C
        PROVE  /\ h3.mem[8 * b.lo - 4] = 8 * b.len + Bit(b)
               /\ h3.mem[8 * (b.lo + b.len) - 8] = 8 * b.len + Bit(b)
    <3>1. CASE b = m
      <4>1. Bit(b) = 0 /\ 8 * b.len + 0 = 8 * m.len
        BY <3>1, <1>1, <2>2 DEF Bit
      <4> QED
        BY <4>1, <3>1, <2>1, <2>7
    <3>2. CASE b # m
      <4>1. b \in B
        BY <3>2, <1>1
      <4>2. /\ h2.mem[8 * b.lo - 4] = 8 * b.len + Bit(b)
            /\ h2.mem[8 * (b.lo + b.len) - 8] = 8 * b.len + Bit(b)
        BY <4>1 DEF Tagged
      <4>3. /\ InBlock(8 * b.lo - 4, b) /\ InBlock(8 * (b.lo + b.len) - 8, b)
            /\ 8 * b.lo - 4 \in Words /\ 8 * (b.lo + b.len) - 8 \in Words
        BY <1>1, BlockParts
      <4>4. \A a \in Words : InBlock(a, b) => a # 8 * m.lo - 4 /\ a # 8 * (m.lo + m.len) - 8
        <5>1. \A a \in Words : a \in Int
          BY WordFacts DEF Words
        <5> QED
          BY <5>1, <1>1, <2>1, <3>2, OutOfBlock
      <4> QED
        BY <4>2, <4>3, <4>4, <2>7
    <3> QED
      BY <3>1, <3>2
  <2>9. ASSUME NEW a \in {8 * t - 4, Start + 44, Start + 48} PROVE h3.mem[a] = h2.mem[a]
    <3>1. First \in Nat /\ 8 * First = Start + 56 /\ Start \in Nat
      BY FirstFacts, WordFacts
    <3>2. First <= t
      BY <3>1, <2>2
    <3>3. a \in Words
      BY <3>2, <2>2, EndWords
    <3>4. a # 8 * m.lo - 4 /\ a # 8 * (m.lo + m.len) - 8
      BY <3>1, <2>2
    <3> QED
      BY <3>3, <3>4, <2>7
  <2>10. Tagged(h3, C, t)
    BY <2>6, <2>8, <2>9 DEF Tagged
  <2> QED
    BY <2>6, <2>7, <2>10 DEF Retagged
<1> QED
  BY <1>2, <1>3

\* The lists after coalesce of x.
MergedLists(L, B, x) ==
  LET p == IF HP!FreeBefore(B, x) = {} THEN x ELSE CHOOSE c \in HP!FreeBefore(B, x) : TRUE
      n == IF HP!FreeAfter(B, x) = {} THEN x ELSE CHOOSE c \in HP!FreeAfter(B, x) : TRUE
  IN Listed(NoNeighbours(L, x, p, n), Joined(p, n))

LEMMA OuterChosen ==
  ASSUME NEW B, NEW x, NEW L
  PROVE  \A p, n : HP!Outer(B, x, p, n) =>
                     MergedLists(L, B, x) = Listed(NoNeighbours(L, x, p, n), Joined(p, n))
<1> SUFFICES ASSUME NEW p, NEW n, HP!Outer(B, x, p, n)
             PROVE  MergedLists(L, B, x) = Listed(NoNeighbours(L, x, p, n), Joined(p, n))
  OBVIOUS
<1>1. p = IF HP!FreeBefore(B, x) = {} THEN x ELSE CHOOSE c \in HP!FreeBefore(B, x) : TRUE
  BY DEF HP!Outer
<1>2. n = IF HP!FreeAfter(B, x) = {} THEN x ELSE CHOOSE c \in HP!FreeAfter(B, x) : TRUE
  BY DEF HP!Outer
<1> QED
  BY <1>1, <1>2 DEF MergedLists

\* coalesce in terms of the neighbours p and n.
LEMMA CoalesceSteps ==
  ASSUME NEW h, NEW B, NEW t, Laid(B, t), Tagged(h, B, t), NEW x \in B, ~x.used,
         NEW p, NEW n, HP!Outer(B, x, p, n),
         NEW m, m.lo = p.lo, m.len = n.lo + n.len - p.lo,
         NEW r, r = coalesce(h, 8 * x.lo)
  PROVE  \E h1, h2, h3 :
           /\ h1 = IF p = x THEN h ELSE remove_free_block(h, 8 * p.lo)
           /\ h2 = IF n = x THEN h1 ELSE remove_free_block(h1, 8 * n.lo)
           /\ h3 = IF p = x /\ n = x THEN h2 ELSE Tag(h2, 8 * p.lo, 8 * m.len, 0)
           /\ r.h = insert_free_block(h3, 8 * m.lo)
           /\ r.p = 8 * m.lo
<1> DEFINE bp == 8 * x.lo
           prev == PREV_BLKP(h, bp)
           next == NEXT_BLKP(h, bp)
           prevFree == GET_ALLOC(h, FTRP(h, prev)) = 0
           nextFree == GET_ALLOC(h, HDRP(next)) = 0
           first == IF prevFree THEN prev ELSE bp
           size == SIZE(h, bp) + (IF prevFree THEN SIZE(h, prev) ELSE 0)
                               + (IF nextFree THEN SIZE(h, next) ELSE 0)
           h1 == IF prevFree THEN remove_free_block(h, prev) ELSE h
           h2 == IF nextFree THEN remove_free_block(h1, next) ELSE h1
           h3 == IF prevFree \/ nextFree THEN Tag(h2, first, size, 0) ELSE h2
<1>1. r = [h |-> insert_free_block(h3, first), p |-> first]
  BY DEF coalesce
<1>2. LooksBack(h, x, p)
  BY SeesBefore
<1>3. LooksAhead(h, x, n)
  BY SeesAfter
<1>4. (prevFree <=> p # x) /\ (p # x => prev = 8 * p.lo /\ p.lo + p.len = x.lo)
  BY <1>2 DEF LooksBack
<1>5. (nextFree <=> n # x) /\ (n # x => next = 8 * n.lo /\ x.lo + x.len = n.lo)
  BY <1>3 DEF LooksAhead
<1>6. SIZE(h, bp) = 8 * x.len /\ SIZE(h, 8 * p.lo) = 8 * p.len /\ SIZE(h, 8 * n.lo) = 8 * n.len
  BY OuterIn, SizeIs
<1>7. p.lo \in Nat /\ p.len \in Nat /\ x.lo \in Nat /\ x.len \in Nat /\ n.lo \in Nat
      /\ n.len \in Nat
  BY OuterIn
<1> HIDE DEF prev, next, prevFree, nextFree
<1>8. first = 8 * p.lo /\ first = 8 * m.lo
  BY <1>4
<1>9. size = 8 * m.len
  <2>1. m.len = x.len + (IF p # x THEN p.len ELSE 0) + (IF n # x THEN n.len ELSE 0)
    BY <1>4, <1>5, <1>7
  <2>2. size = 8 * x.len + (IF p # x THEN 8 * p.len ELSE 0) + (IF n # x THEN 8 * n.len ELSE 0)
    BY <1>4, <1>5, <1>6
  <2> QED
    BY <2>1, <2>2, <1>7
<1>10. h1 = IF p = x THEN h ELSE remove_free_block(h, 8 * p.lo)
  BY <1>4
<1>11. h2 = IF n = x THEN h1 ELSE remove_free_block(h1, 8 * n.lo)
  BY <1>5
<1> HIDE DEF h1, h2, size
<1>12. h3 = IF p = x /\ n = x THEN h2 ELSE Tag(h2, 8 * p.lo, 8 * m.len, 0)
  <2>1. h3 = IF prevFree \/ nextFree THEN Tag(h2, 8 * p.lo, 8 * m.len, 0) ELSE h2
    BY <1>8, <1>9
  <2> QED
    BY <2>1, <1>4, <1>5
<1> HIDE DEF h3, first
<1>13. r.h = insert_free_block(h3, 8 * m.lo) /\ r.p = 8 * m.lo
  BY <1>1, <1>8
<1> QED
  BY <1>10, <1>11, <1>12, <1>13

\* What coalesce does with the block x of B, which is in no list: r is its
\* result, C are the blocks and K the lists then, and m is the block with x.
Merges(h, r, B, C, K, t, x, m) ==
  /\ Sound(r.h, C, FreeOf(C), K, t)
  /\ m \in C /\ ~m.used /\ r.p = 8 * m.lo
  /\ m.lo <= x.lo /\ x.lo + x.len <= m.lo + m.len
  /\ \E n \in B : /\ ~n.used /\ (n = x \/ n.lo = x.lo + x.len)
                  /\ m.lo + m.len = n.lo + n.len
  /\ Used(C) = Used(B)
  /\ Spares(h, r.h, Used(B))
  /\ \A c \in B : c.lo # m.lo => r.h.mem[8 * c.lo - 4] = h.mem[8 * c.lo - 4]

\* The new tags of m are no roots or links.
LEMMA RetagKeepsLists ==
  ASSUME NEW h2, NEW h3, NEW C, NEW t, Laid(C, t), NEW m \in C, Retagged(h2, h3, C, t, m),
         NEW F \in SUBSET C, NEW K, Lists(h2, F, K)
  PROVE  Lists(h3, F, K)
<1>1. \A a \in Words : a # 8 * m.lo - 4 /\ a # 8 * (m.lo + m.len) - 8 => h3.mem[a] = h2.mem[a]
  BY DEF Retagged
<1>2. ASSUME NEW i \in Roots PROVE h3.mem[RootOf(i)] = h2.mem[RootOf(i)]
  <2>1. InBlock(8 * m.lo - 4, m) /\ InBlock(8 * (m.lo + m.len) - 8, m)
    BY BlockParts
  <2>2. ~InBlock(RootOf(i), m)
    BY OutOfBlock
  <2>3. RootOf(i) \in Words
    BY RootFacts DEF Roots
  <2> QED
    BY <2>1, <2>2, <2>3, <1>1
<1>3. ASSUME NEW b \in F
      PROVE  h3.mem[8 * b.lo] = h2.mem[8 * b.lo] /\ h3.mem[8 * b.lo + 4] = h2.mem[8 * b.lo + 4]
  <2>1. /\ 8 * m.lo - 4 # 8 * b.lo /\ 8 * m.lo - 4 # 8 * b.lo + 4
        /\ 8 * (m.lo + m.len) - 8 # 8 * b.lo + 4
        /\ 8 * (m.lo + m.len) - 8 # 8 * b.lo
    BY LinksApart
  <2>2. 8 * b.lo \in Words /\ 8 * b.lo + 4 \in Words
    BY BlockParts
  <2> QED
    BY <2>1, <2>2, <1>1
<1> QED
  BY <1>2, <1>3, ListsKept

LEMMA CoalesceIs ==
  ASSUME NEW h \in Heaps, NEW B, NEW t, Laid(B, t), Tagged(h, B, t), NEW x \in B, ~x.used,
         NEW L, Lists(h, FreeOf(B) \ {x}, L), NEW r, r = coalesce(h, 8 * x.lo),
         NEW C, C = HP!Coalesce(B, x), NEW K, K = MergedLists(L, B, x)
  PROVE  \E m : Merges(h, r, B, C, K, t, x, m)
<1>1. PICK p \in B, n \in B : HP!Outer(B, x, p, n)
  BY GoodFacts, HeapHolds, HP!CoalesceParts
<1> DEFINE m == Joined(p, n)
           F == FreeOf(B) \ {x, p, n}
           N == NoNeighbours(L, x, p, n)
<1>2. JoinedIn(B, C, t, x, p, n, m)
  BY <1>1, JoinFacts
<1>3. K = Listed(N, m)
  BY <1>1, OuterChosen
<1>4. /\ p \in B /\ n \in B /\ ~p.used /\ ~n.used
      /\ p = x \/ p.lo + p.len = x.lo
      /\ n = x \/ x.lo + x.len = n.lo
      /\ p.lo \in Nat /\ p.len \in Nat /\ p.len >= 2 /\ x.lo \in Nat /\ x.len \in Nat
      /\ x.len >= 2 /\ n.lo \in Nat /\ n.len \in Nat /\ n.len >= 2
  BY <1>1, OuterIn
<1> HIDE DEF m
<1>5. /\ Laid(C, t) /\ m \in C /\ ~m.used /\ C = (B \ {x, p, n}) \cup {m}
      /\ m.lo = p.lo /\ m.len = n.lo + n.len - p.lo /\ m.len \in Nat
      /\ FreeOf(C) = (FreeOf(B) \ {x, p, n}) \cup {m}
      /\ Used(C) = Used(B)
      /\ m \notin FreeOf(B) \ {x, p, n}
  BY <1>2 DEF JoinedIn
<1>6. PICK h1, h2, h3 :
           /\ h1 = IF p = x THEN h ELSE remove_free_block(h, 8 * p.lo)
           /\ h2 = IF n = x THEN h1 ELSE remove_free_block(h1, 8 * n.lo)
           /\ h3 = IF p = x /\ n = x THEN h2 ELSE Tag(h2, 8 * p.lo, 8 * m.len, 0)
           /\ r.h = insert_free_block(h3, 8 * m.lo)
           /\ r.p = 8 * m.lo
  BY <1>1, <1>5, CoalesceSteps
<1>7. Detached(h, h2, B, L, t, x, p, n)
  BY <1>1, <1>6, NeighboursRemoved
<1>8. /\ OnlyLinks(h, h2, FreeOf(B) \ {x}) /\ Tagged(h2, B, t) /\ Lists(h2, F, N)
      /\ h2 \in Heaps
  BY <1>7 DEF Detached, OnlyLinks
<1>9. Retagged(h2, h3, C, t, m)
  BY <1>1, <1>2, <1>6, <1>8, TagsJoined
<1>10. h3 \in Heaps /\ Tagged(h3, C, t)
  BY <1>9 DEF Retagged
<1>11. F \in SUBSET C /\ m \notin F /\ F \cup {m} = FreeOf(C) /\ F \in SUBSET B
  BY <1>5 DEF FreeOf
<1> HIDE DEF F, N
<1>12. Lists(h3, F, N)
  BY <1>5, <1>8, <1>9, <1>11, RetagKeepsLists
<1>13. PICK g : g = insert_free_block(h3, 8 * m.lo) /\ r.h = g
  BY <1>6
<1>14. OnlyLinks(h3, g, FreeOf(C)) /\ Lists(g, FreeOf(C), K)
  <2>1. OnlyLinks(h3, g, F \cup {m}) /\ Lists(g, F \cup {m}, Listed(N, m))
    BY <1>5, <1>10, <1>11, <1>12, <1>13, InsertChain
  <2> QED
    BY <2>1, <1>3, <1>11
<1>15. FreeOf(C) \in SUBSET C
  BY DEF FreeOf
<1>16. Sound(g, C, FreeOf(C), K, t)
  <2>1. Tagged(g, C, t)
    BY <1>5, <1>10, <1>14, <1>15, LinksKeepTags
  <2>2. g \in Heaps
    BY <1>14 DEF OnlyLinks
  <2> QED
    BY <2>1, <2>2, <1>5, <1>14 DEF Sound
<1>17. Spares(h, g, Used(B))
  <2>1. Spares(h, h2, Used(B))
    <3>1. FreeOf(B) \ {x} \in SUBSET B /\ Used(B) \in SUBSET B
          /\ (FreeOf(B) \ {x}) \cap Used(B) = {}
      BY DEF FreeOf, Used
    <3> QED
      BY <3>1, <1>8, LinksSpare
  <2>2. Spares(h2, h3, Used(B))
    <3> SUFFICES ASSUME NEW c \in Used(B), NEW a \in Words, InBlock(a, c)
                 PROVE  h3.mem[a] = h2.mem[a]
      BY DEF Spares
    <3>1. c \in C /\ c # m
      BY <1>5 DEF Used
    <3>2. InBlock(8 * m.lo - 4, m) /\ InBlock(8 * (m.lo + m.len) - 8, m)
      BY <1>5, BlockParts
    <3>3. ~InBlock(a, m)
      <4>1. a \in Int
        BY WordFacts DEF Words
      <4> QED
        BY <4>1, <3>1, <1>5, OutOfBlock
    <3> QED
      BY <3>2, <3>3, <1>9 DEF Retagged
  <2>3. Spares(h3, g, Used(B))
    <3>1. Used(B) \in SUBSET C /\ FreeOf(C) \cap Used(B) = {}
      BY <1>5 DEF FreeOf, Used
    <3> QED
      BY <3>1, <1>5, <1>14, <1>15, LinksSpare
  <2> QED
    BY <2>1, <2>2, <2>3, SparesTwice
<1>18. ASSUME NEW c \in B, c.lo # m.lo PROVE g.mem[8 * c.lo - 4] = h.mem[8 * c.lo - 4]
  <2>1. h2.mem[8 * c.lo - 4] = h.mem[8 * c.lo - 4]
    <3>1. FreeOf(B) \ {x} \in SUBSET B
      BY DEF FreeOf
    <3> QED
      BY <3>1, <1>8, LinksNoTags
  <2>2. 8 * c.lo - 4 \in Words /\ c.lo \in Nat
    BY BlockParts, LaidFacts
  <2>3. h3.mem[8 * c.lo - 4] = h2.mem[8 * c.lo - 4]
    <3>1. 8 * c.lo - 4 # 8 * m.lo - 4 /\ 8 * c.lo - 4 # 8 * (m.lo + m.len) - 8
      <4>1. m.lo \in Nat /\ m.len \in Nat
        BY <1>4, <1>5
      <4> QED
        BY <4>1, <2>2, <1>18
    <3> QED
      BY <3>1, <2>2, <1>9 DEF Retagged
  <2>4. g.mem[8 * c.lo - 4] = h3.mem[8 * c.lo - 4]
    <3>1. ~RootWord(8 * c.lo - 4)
      <4>1. InBlock(8 * c.lo - 4, c)
        BY BlockParts
      <4> QED
        BY <4>1, OutOfBlock DEF RootWord
    <3>2. ~LinkWord(8 * c.lo - 4, FreeOf(C))
      <4> SUFFICES ASSUME NEW b \in FreeOf(C) PROVE 8 * c.lo - 4 # 8 * b.lo /\ 8 * c.lo - 4 # 8 * b.lo + 4
        BY DEF LinkWord
      <4>1. CASE b \in B
        BY <4>1, LinksApart
      <4>2. CASE b = m
        <5>1. b.lo = p.lo
          BY <4>2, <1>5
        <5>2. 8 * c.lo - 4 # 8 * p.lo /\ 8 * c.lo - 4 # 8 * p.lo + 4
          BY LinksApart
        <5> QED
          BY <5>1, <5>2
      <4> QED
        BY <4>1, <4>2, <1>5, <1>15
    <3> QED
      BY <3>1, <3>2, <2>2, <1>14 DEF OnlyLinks
  <2> QED
    BY <2>1, <2>3, <2>4
<1>19. m.lo <= x.lo /\ x.lo + x.len <= m.lo + m.len
  BY <1>4, <1>5
<1>20. \E c \in B : /\ ~c.used /\ (c = x \/ c.lo = x.lo + x.len)
                    /\ m.lo + m.len = c.lo + c.len
  <2>1. m.lo + m.len = n.lo + n.len
    BY <1>4, <1>5
  <2> QED
    BY <2>1, <1>4
<1> QED
  BY <1>5, <1>6, <1>13, <1>16, <1>17, <1>18, <1>19, <1>20 DEF Merges

-----------------------------------------------------------------------------
(* New tags and links in the blocks S, and perhaps a new end of the heap.  *)

Rewritten(h, g, t, S) ==
  /\ g \in Heaps
  /\ \A a \in Words : g.mem[a] = h.mem[a] \/ a = 8 * t - 4 \/ \E x \in S : InBlock(a, x)

LEMMA RewrittenSpares ==
  ASSUME NEW C, NEW t, Laid(C, t), NEW S \in SUBSET C, NEW h, NEW g, Rewritten(h, g, t, S),
         NEW U \in SUBSET C, U \cap S = {}
  PROVE  Spares(h, g, U)
<1> SUFFICES ASSUME NEW c \in U, NEW a \in Words, InBlock(a, c) PROVE g.mem[a] = h.mem[a]
  BY DEF Spares
<1>1. a \in Int
  BY WordFacts DEF Words
<1>2. \A x \in S : ~InBlock(a, x)
  BY <1>1, OutOfBlock
<1>3. a # 8 * t - 4
  <2>1. c.lo \in Nat /\ c.len \in Nat /\ c.lo + c.len <= t /\ t \in Nat
    BY LaidFacts
  <2> QED
    BY <2>1, <1>1 DEF InBlock
<1> QED
  BY <1>2, <1>3 DEF Rewritten

LEMMA RewrittenRoots ==
  ASSUME NEW C, NEW t, Laid(C, t), NEW S \in SUBSET C, NEW h, NEW g, Rewritten(h, g, t, S)
  PROVE  /\ \A i \in Roots : g.mem[RootOf(i)] = h.mem[RootOf(i)]
         /\ g.mem[Start + 44] = h.mem[Start + 44] /\ g.mem[Start + 48] = h.mem[Start + 48]
<1>1. /\ t \in Nat /\ First < t /\ 8 * t <= Start + MAX_HEAP /\ First \in Nat
      /\ 8 * First = Start + 56 /\ Start \in Nat
      /\ \A b \in C : b.lo \in Nat /\ b.len \in Nat /\ First <= b.lo
  BY LaidFacts, FirstFacts, WordFacts
<1>2. ASSUME NEW a \in Words, a <= Start + 48 PROVE g.mem[a] = h.mem[a]
  <2>1. a \in Int
    BY WordFacts DEF Words
  <2>2. a # 8 * t - 4
    BY <2>1, <1>1, <1>2
  <2>3. \A x \in S : ~InBlock(a, x)
    <3> SUFFICES ASSUME NEW x \in S PROVE ~InBlock(a, x)
      OBVIOUS
    <3>1. x.lo \in Nat /\ First <= x.lo
      BY <1>1
    <3>2. 8 * x.lo - 4 > Start + 48
      BY <3>1, <1>1
    <3> QED
      BY <3>1, <3>2, <2>1, <1>1, <1>2 DEF InBlock
  <2> QED
    BY <2>2, <2>3 DEF Rewritten
<1>3. Start + 44 \in Words /\ Start + 48 \in Words
  BY <1>1, EndWords
<1>4. \A i \in Roots : RootOf(i) \in Words /\ RootOf(i) <= Start + 48
  <2>1. \A i \in Roots : i \in 0 .. 13 /\ i <= 9
    BY DEF Roots
  <2>2. \A i \in Roots : RootOf(i) = Start + 4 * i /\ RootOf(i) \in Words
    BY <2>1, RootFacts
  <2> QED
    BY <2>1, <2>2, <1>1
<1> QED
  BY <1>1, <1>2, <1>3, <1>4

LEMMA RewrittenLists ==
  ASSUME NEW C, NEW t, Laid(C, t), NEW S \in SUBSET C, NEW h, NEW g, Rewritten(h, g, t, S),
         NEW F \in SUBSET C, F \cap S = {}, NEW L, Lists(h, F, L)
  PROVE  Lists(g, F, L)
<1>1. Spares(h, g, F)
  BY RewrittenSpares
<1>2. \A b \in F : /\ InBlock(8 * b.lo, b) /\ InBlock(8 * b.lo + 4, b)
                   /\ 8 * b.lo \in Words /\ 8 * b.lo + 4 \in Words
  BY BlockParts
<1>3. \A b \in F : g.mem[8 * b.lo] = h.mem[8 * b.lo] /\ g.mem[8 * b.lo + 4] = h.mem[8 * b.lo + 4]
  BY <1>1, <1>2 DEF Spares
<1>4. \A i \in Roots : g.mem[RootOf(i)] = h.mem[RootOf(i)]
  BY RewrittenRoots
<1> QED
  BY <1>3, <1>4, ListsKept

\* The block b has its tags.
HasTags(h, b) ==
  /\ h.mem[8 * b.lo - 4] = 8 * b.len + Bit(b)
  /\ h.mem[8 * (b.lo + b.len) - 8] = 8 * b.len + Bit(b)

Prologue(h) == h.mem[Start + 44] = 9 /\ h.mem[Start + 48] = 9

LEMMA TaggedParts ==
  ASSUME NEW h, NEW B, NEW t
  PROVE  Tagged(h, B, t) <=> /\ h.brk = 8 * t /\ h.mem[8 * t - 4] = 1
                             /\ Prologue(h) /\ \A b \in B : HasTags(h, b)
BY DEF Tagged, Prologue, HasTags

LEMMA RewrittenTags ==
  ASSUME NEW C, NEW t, Laid(C, t), NEW S \in SUBSET C, NEW h, NEW g, Rewritten(h, g, t, S),
         Prologue(h), \A b \in C \ S : HasTags(h, b), \A b \in S : HasTags(g, b),
         g.brk = 8 * t, g.mem[8 * t - 4] = 1
  PROVE  Tagged(g, C, t)
<1>1. ASSUME NEW b \in C \ S PROVE HasTags(g, b)
  <2>1. Spares(h, g, C \ S)
    <3>1. (C \ S) \in SUBSET C /\ (C \ S) \cap S = {}
      OBVIOUS
    <3> QED
      BY <3>1, RewrittenSpares
  <2>2. /\ InBlock(8 * b.lo - 4, b) /\ InBlock(8 * (b.lo + b.len) - 8, b)
        /\ 8 * b.lo - 4 \in Words /\ 8 * (b.lo + b.len) - 8 \in Words
    BY BlockParts
  <2> QED
    BY <2>1, <2>2 DEF HasTags, Spares
<1>2. Prologue(g)
  BY RewrittenRoots DEF Prologue
<1> QED
  BY <1>1, <1>2, TaggedParts

\* g is h with the tags of b.
TagWritten(h, g, t, b) ==
  /\ Rewritten(h, g, t, {b}) /\ HasTags(g, b) /\ g.brk = h.brk
  /\ g.mem[8 * t - 4] = h.mem[8 * t - 4]

\* g is h with the links of b cleared.
LinksCleared(h, g, C, t, b) ==
  /\ Rewritten(h, g, t, {b}) /\ g.brk = h.brk
  /\ \A c \in C : HasTags(h, c) => HasTags(g, c)
  /\ g.mem[8 * t - 4] = h.mem[8 * t - 4]

\* Tag and NoLinks write into their block.
LEMMA TagWrites ==
  ASSUME NEW C, NEW t, Laid(C, t), NEW b \in C, NEW h \in Heaps, 
         NEW g, g = Tag(h, 8 * b.lo, 8 * b.len, Bit(b))
  PROVE  TagWritten(h, g, t, b)
<1>1. /\ b.lo \in Nat /\ b.len \in Nat /\ b.len >= 2 /\ b.lo + b.len <= t /\ t \in Nat
      /\ 8 * t <= Start + MAX_HEAP /\ First < t /\ First \in Nat
  BY LaidFacts, FirstFacts
<1>2. /\ 8 * b.lo - 4 \in Words /\ 8 * (b.lo + b.len) - 8 \in Words
      /\ InBlock(8 * b.lo - 4, b) /\ InBlock(8 * (b.lo + b.len) - 8, b)
  BY BlockParts
<1> DEFINE q == 8 * b.lo
           z == 8 * b.len
           v == Bit(b)
<1>3. v \in Nat
  BY DEF Bit
<1>4. q + z - 8 = 8 * (b.lo + b.len) - 8 /\ q - 4 = 8 * b.lo - 4 /\ z + v \in Nat
  <2> HIDE DEF v
  <2> QED
    BY <1>1, <1>3
<1>5. q - 4 \in Words /\ q + z - 8 \in Words /\ g = Tag(h, q, z, v)
  BY <1>2, <1>4
<1> HIDE DEF q, z, v
<1>6. /\ g \in Heaps /\ g.brk = h.brk
      /\ \A d \in Words : g.mem[d] = IF d = q - 4 \/ d = q + z - 8 THEN z + v ELSE h.mem[d]
  BY ONLY h \in Heaps, <1>4, <1>5, TagIs
<1>7. \A d \in Words : g.mem[d] = IF d = 8 * b.lo - 4 \/ d = 8 * (b.lo + b.len) - 8
                                  THEN 8 * b.len + Bit(b) ELSE h.mem[d]
  BY <1>4, <1>6 DEF z, v
<1>8. HasTags(g, b)
  BY <1>2, <1>7 DEF HasTags
<1>9. Rewritten(h, g, t, {b})
  BY <1>2, <1>6, <1>7 DEF Rewritten
<1>10. 8 * t - 4 \in Words /\ 8 * t - 4 # 8 * b.lo - 4 /\ 8 * t - 4 # 8 * (b.lo + b.len) - 8
  BY <1>1, EndWords
<1> QED
  BY <1>6, <1>7, <1>8, <1>9, <1>10 DEF TagWritten

LEMMA NoLinksWrites ==
  ASSUME NEW C, NEW t, Laid(C, t), NEW b \in C, NEW h \in Heaps, 
         NEW g, g = NoLinks(h, 8 * b.lo)
  PROVE  LinksCleared(h, g, C, t, b)
<1>1. /\ b.lo \in Nat /\ b.len \in Nat /\ b.len >= 2 /\ b.lo + b.len <= t /\ t \in Nat
      /\ 8 * t <= Start + MAX_HEAP /\ First < t /\ First \in Nat
  BY LaidFacts, FirstFacts
<1>2. /\ 8 * b.lo \in Words /\ 8 * b.lo + 4 \in Words
      /\ InBlock(8 * b.lo, b) /\ InBlock(8 * b.lo + 4, b)
  BY BlockParts
<1>3. /\ g \in Heaps /\ g.brk = h.brk
      /\ \A d \in Words : g.mem[d] = IF d = 8 * b.lo \/ d = 8 * b.lo + 4 THEN 0 ELSE h.mem[d]
  BY <1>2, NoLinksFacts
<1>4. ASSUME NEW c \in C, HasTags(h, c) PROVE HasTags(g, c)
  <2>1. /\ 8 * c.lo - 4 # 8 * b.lo /\ 8 * c.lo - 4 # 8 * b.lo + 4
        /\ 8 * (c.lo + c.len) - 8 # 8 * b.lo + 4
        /\ 8 * (c.lo + c.len) - 8 # 8 * b.lo
    BY LinksApart
  <2>2. 8 * c.lo - 4 \in Words /\ 8 * (c.lo + c.len) - 8 \in Words
    BY BlockParts
  <2> QED
    BY <2>1, <2>2, <1>3, <1>4 DEF HasTags
<1>5. Rewritten(h, g, t, {b})
  BY <1>2, <1>3 DEF Rewritten
<1>6. 8 * t - 4 \in Words /\ 8 * t - 4 # 8 * b.lo /\ 8 * t - 4 # 8 * b.lo + 4
  BY <1>1, EndWords
<1> QED
  BY <1>3, <1>4, <1>5, <1>6 DEF LinksCleared

LEMMA RewrittenTwice ==
  ASSUME NEW h, NEW g, NEW k, NEW t, NEW S, NEW T, Rewritten(h, g, t, S), Rewritten(g, k, t, T)
  PROVE  Rewritten(h, k, t, S \cup T)
BY DEF Rewritten

-----------------------------------------------------------------------------
(* place.                                                                  *)

\* The block that place takes out of the free block b for n double words.
Got(b, n) == HP!Taken(b, IF b.len - n >= 2 THEN n ELSE b.len)

Splits(B, b, n) == (B \ {b}) \cup {HP!Taken(b, n), HP!Rest(b, n)}

PlacedLists(L, B, b, n) ==
  IF b.len - n >= 2 THEN MergedLists(Unlisted(L, b), Splits(B, b, n), HP!Rest(b, n))
  ELSE Unlisted(L, b)

Placing(h, g, B, C, K, t, b, n) ==
  /\ Sound(g, C, FreeOf(C), K, t) /\ HP!CoalescedIn(C)
  /\ Spares(h, g, Used(B))
  /\ Used(C) = Used(B) \cup {Got(b, n)}

LEMMA SparesTags ==
  ASSUME NEW C, NEW t, Laid(C, t), NEW c \in C, NEW h, NEW g, NEW U, c \in U,
         Spares(h, g, U), HasTags(h, c)
  PROVE  HasTags(g, c)
<1>1. /\ InBlock(8 * c.lo - 4, c) /\ InBlock(8 * (c.lo + c.len) - 8, c)
      /\ 8 * c.lo - 4 \in Words /\ 8 * (c.lo + c.len) - 8 \in Words
  BY BlockParts
<1> QED
  BY <1>1 DEF HasTags, Spares

\* The first step of place: b is no longer in a list.
Taking(h, h1, B, t, L, b) ==
  /\ h1 \in Heaps /\ Tagged(h1, B, t)
  /\ Lists(h1, FreeOf(B) \ {b}, Unlisted(L, b))
  /\ Spares(h, h1, Used(B))

LEMMA TakingIs ==
  ASSUME NEW h, NEW B, NEW t, NEW L, Sound(h, B, FreeOf(B), L, t),
         NEW b \in B, ~b.used, NEW h1, h1 = remove_free_block(h, 8 * b.lo)
  PROVE  Taking(h, h1, B, t, L, b)
<1>1. h \in Heaps /\ Laid(B, t) /\ Tagged(h, B, t) /\ Lists(h, FreeOf(B), L)
  BY DEF Sound
<1>2. FreeOf(B) \in SUBSET B /\ Used(B) \in SUBSET B /\ FreeOf(B) \cap Used(B) = {}
      /\ b \in FreeOf(B)
  BY DEF FreeOf, Used
<1>3. OnlyLinks(h, h1, FreeOf(B)) /\ Lists(h1, FreeOf(B) \ {b}, Unlisted(L, b))
  BY <1>1, <1>2, RemoveChain
<1>4. Tagged(h1, B, t)
  BY <1>1, <1>2, <1>3, LinksKeepTags
<1>5. Spares(h, h1, Used(B))
  BY <1>1, <1>2, <1>3, LinksSpare
<1> QED
  BY <1>3, <1>4, <1>5 DEF Taking, OnlyLinks

\* The parts of a split block.
SplitParts(B, t, b, n, D, a, r) ==
  /\ Laid(D, t) /\ HP!CoalescedBut(D, r)
  /\ D = (B \ {b}) \cup {a, r} /\ a.used /\ ~r.used /\ a \in D /\ r \in D /\ a # r
  /\ a.lo = b.lo /\ a.len = n /\ r.lo = b.lo + n /\ r.len = b.len - n /\ r.len \in Nat
  /\ FreeOf(D) \ {r} = FreeOf(B) \ {b} /\ r \notin B
  /\ Used(D) = Used(B) \cup {a} /\ a \notin B

LEMMA SplitPartsAre ==
  ASSUME NEW B, NEW t, Laid(B, t), HP!CoalescedIn(B), NEW b \in B, ~b.used,
         NEW n \in Nat, n >= 2, b.len - n >= 2
  PROVE  SplitParts(B, t, b, n, Splits(B, b, n), HP!Taken(b, n), HP!Rest(b, n))
<1> DEFINE a == HP!Taken(b, n)
           r == HP!Rest(b, n)
           D == Splits(B, b, n)
<1>1. /\ b.lo \in Nat /\ b.len \in Nat /\ t \in Nat /\ HP!Good(B, t)
      /\ \A c \in B : c.lo \in Nat /\ c.len \in Nat /\ c.len >= 2 /\ Apart(b, c)
  BY LaidFacts, GoodFacts
<1>2. D = (B \ {b}) \cup {a, r}
  BY DEF Splits
<1>3. a.lo = b.lo /\ a.len = n /\ a.used
  BY DEF HP!Taken
<1>4. r.lo = b.lo + n /\ r.len = b.len - n /\ ~r.used
  <2>1. r.lo = b.lo + n /\ r.len = (b.lo + b.len) - (b.lo + n) /\ ~r.used
    BY DEF HP!Rest, HP!Span, HP!End
  <2> QED
    BY <2>1, <1>1
<1>5. n < b.len /\ n \in Nat \ {0} /\ r.len \in Nat /\ r.len >= 2
  BY <1>1, <1>4
<1>6. HP!Good(D, t) /\ HP!CoalescedBut(D, r)
  BY <1>1, <1>2, <1>5, HeapHolds, HP!SplitGood
<1> HIDE DEF a, r, D
<1>7. \A c \in D : c.len >= 2
  BY <1>1, <1>2, <1>3, <1>5
<1>8. Laid(D, t)
  BY <1>6, <1>7 DEF Laid
<1>9. r \notin B
  <2> SUFFICES ASSUME r \in B PROVE FALSE
    OBVIOUS
  <2>1. Apart(b, r)
    BY <1>1
  <2>2. r # b
    BY <1>4, <1>1
  <2> QED
    BY <2>1, <2>2, <1>1, <1>4, <1>5 DEF Apart
<1>10. a \notin B
  <2> SUFFICES ASSUME a \in B PROVE FALSE
    OBVIOUS
  <2>1. Apart(b, a)
    BY <1>1
  <2>2. a # b
    BY <1>3
  <2> QED
    BY <2>1, <2>2, <1>1, <1>3, <1>5 DEF Apart
<1>11. FreeOf(D) \ {r} = FreeOf(B) \ {b}
  BY <1>2, <1>3, <1>9 DEF FreeOf
<1>12. Used(D) = Used(B) \cup {a}
  BY <1>2, <1>3, <1>4 DEF Used
<1> QED
  BY <1>2, <1>3, <1>4, <1>5, <1>6, <1>8, <1>9, <1>10, <1>11, <1>12 DEF SplitParts, a, r, D

\* b split in memory, before the rest is coalesced.
SplitDone(h1, h4, D, t, L, a, r) ==
  /\ h4 \in Heaps /\ Tagged(h4, D, t) /\ Lists(h4, FreeOf(D) \ {r}, L)
  /\ Spares(h1, h4, Used(D) \ {a})

LEMMA SplitDoneIs ==
  ASSUME NEW h1 \in Heaps, NEW B, NEW t, Tagged(h1, B, t), NEW b \in B,
         NEW n \in Nat, NEW D, NEW a, NEW r, SplitParts(B, t, b, n, D, a, r),
         NEW L, Lists(h1, FreeOf(B) \ {b}, L),
         NEW h2, h2 = Tag(h1, 8 * a.lo, 8 * a.len, Bit(a)),
         NEW h3, h3 = Tag(h2, 8 * r.lo, 8 * r.len, Bit(r)),
         NEW h4, h4 = NoLinks(h3, 8 * r.lo)
  PROVE  SplitDone(h1, h4, D, t, L, a, r)
<1>0. Laid(D, t) /\ a \in D /\ r \in D
  BY DEF SplitParts
<1>1. /\ Laid(D, t) /\ D = (B \ {b}) \cup {a, r} /\ a.used /\ ~r.used /\ a \in D /\ r \in D
      /\ a # r /\ FreeOf(D) \ {r} = FreeOf(B) \ {b} /\ r \notin B
      /\ Used(D) = Used(B) \cup {a} /\ a \notin B
  BY DEF SplitParts
<1>2. TagWritten(h1, h2, t, a)
  BY <1>0, TagWrites
<1>3. h2 \in Heaps
  BY <1>2 DEF Rewritten, TagWritten
<1>4. TagWritten(h2, h3, t, r)
  BY <1>0, <1>3, TagWrites
<1>5. h3 \in Heaps
  BY <1>4 DEF Rewritten, TagWritten
<1>6. LinksCleared(h3, h4, D, t, r)
  BY <1>0, <1>5, NoLinksWrites
<1>7. HasTags(h3, a)
  <2>1. Spares(h2, h3, {a})
    <3>1. {a} \in SUBSET D /\ {r} \in SUBSET D /\ {a} \cap {r} = {}
      BY <1>1
    <3> QED
      BY <3>1, <1>1, <1>4, RewrittenSpares DEF TagWritten
  <2> QED
    BY <2>1, <1>1, <1>2, SparesTags DEF TagWritten
<1>8. HasTags(h4, a) /\ HasTags(h4, r)
  BY <1>1, <1>4, <1>6, <1>7 DEF TagWritten, LinksCleared
<1>9. Rewritten(h1, h4, t, {a, r})
  <2>1. Rewritten(h1, h3, t, {a} \cup {r})
    BY <1>2, <1>4, RewrittenTwice DEF TagWritten
  <2>2. Rewritten(h1, h4, t, ({a} \cup {r}) \cup {r})
    BY <2>1, <1>6, RewrittenTwice DEF LinksCleared
  <2>3. ({a} \cup {r}) \cup {r} = {a, r}
    OBVIOUS
  <2> QED
    BY <2>2, <2>3
<1>10. /\ h1.brk = 8 * t /\ h1.mem[8 * t - 4] = 1 /\ Prologue(h1)
       /\ \A c \in B : HasTags(h1, c)
  BY TaggedParts
<1>11. {a, r} \in SUBSET D
  BY <1>1
<1>12. Tagged(h4, D, t)
  <2>1. \A c \in D \ {a, r} : HasTags(h1, c)
    BY <1>1, <1>10
  <2>2. \A c \in {a, r} : HasTags(h4, c)
    BY <1>8
  <2>3. h4.brk = 8 * t /\ h4.mem[8 * t - 4] = 1
    BY <1>2, <1>4, <1>6, <1>10 DEF TagWritten, LinksCleared
  <2> QED
    BY <2>1, <2>2, <2>3, <1>1, <1>9, <1>10, <1>11, RewrittenTags
<1>13. Lists(h4, FreeOf(D) \ {r}, L)
  <2>1. FreeOf(D) \ {r} \in SUBSET D /\ (FreeOf(D) \ {r}) \cap {a, r} = {}
    BY <1>1 DEF FreeOf
  <2>2. Lists(h1, FreeOf(D) \ {r}, L)
    BY <1>1
  <2> QED
    BY <2>1, <2>2, <1>1, <1>9, <1>11, RewrittenLists
<1>14. Spares(h1, h4, Used(D) \ {a})
  <2>1. Used(D) \ {a} \in SUBSET D /\ (Used(D) \ {a}) \cap {a, r} = {}
    BY <1>1 DEF Used
  <2> QED
    BY <2>1, <1>1, <1>9, <1>11, RewrittenSpares
<1> QED
  BY <1>6, <1>12, <1>13, <1>14 DEF SplitDone, Rewritten, LinksCleared

LEMMA PlaceSplits ==
  ASSUME NEW h, NEW B, NEW t, NEW L, Sound(h, B, FreeOf(B), L, t), HP!CoalescedIn(B),
         NEW b \in B, ~b.used, NEW n \in Nat, n >= 2, b.len - n >= 2,
         NEW g, g = place(h, 8 * b.lo, 8 * n),
         NEW C, C = HP!Place(B, b, n), NEW K, K = PlacedLists(L, B, b, n)
  PROVE  Placing(h, g, B, C, K, t, b, n)
<1> DEFINE a == HP!Taken(b, n)
           r == HP!Rest(b, n)
           D == Splits(B, b, n)
<1>1. Laid(B, t) /\ Tagged(h, B, t) /\ h \in Heaps
  BY DEF Sound
<1>2. SplitParts(B, t, b, n, D, a, r)
  BY <1>1, SplitPartsAre
<1>3. C = HP!Coalesce(D, r) /\ K = MergedLists(Unlisted(L, b), D, r) /\ Got(b, n) = a
  <2>1. b.len - n >= HP!MINFB_SIZE
    BY DEF HP!MINFB_SIZE
  <2> QED
    BY <2>1 DEF HP!Place, PlacedLists, Got, Splits
<1>4. b.lo \in Nat /\ b.len \in Nat /\ SIZE(h, 8 * b.lo) = 8 * b.len
  BY <1>1, LaidFacts, SizeIs
<1> HIDE DEF a, r, D
<1>5. /\ Laid(D, t) /\ HP!CoalescedBut(D, r) /\ D = (B \ {b}) \cup {a, r}
      /\ a.used /\ ~r.used /\ a \in D /\ r \in D
      /\ a.lo = b.lo /\ a.len = n /\ r.lo = b.lo + n /\ r.len = b.len - n /\ r.len \in Nat
      /\ Used(D) = Used(B) \cup {a} /\ a \notin B
  BY <1>2 DEF SplitParts
<1>6. PICK h1 : h1 = remove_free_block(h, 8 * b.lo)
  OBVIOUS
<1>7. Taking(h, h1, B, t, L, b)
  BY <1>6, TakingIs
<1>8. PICK h2 : h2 = Tag(h1, 8 * a.lo, 8 * a.len, Bit(a))
  OBVIOUS
<1>9. PICK h3 : h3 = Tag(h2, 8 * r.lo, 8 * r.len, Bit(r))
  OBVIOUS
<1>10. PICK h4 : h4 = NoLinks(h3, 8 * r.lo)
  OBVIOUS
<1>11. SplitDone(h1, h4, D, t, Unlisted(L, b), a, r)
  BY <1>2, <1>7, <1>8, <1>9, <1>10, SplitDoneIs DEF Taking
<1>12. PICK q : q = coalesce(h4, 8 * r.lo)
  OBVIOUS
<1>13. g = q.h
  <2>1. 8 * b.len - 8 * n >= MINFB_SIZE * DSIZE
    BY <1>4 DEF MINFB_SIZE, DSIZE
  <2>2. g = coalesce(NoLinks(Tag(Tag(h1, 8 * b.lo, 8 * n, 1),
                                 8 * b.lo + 8 * n, 8 * b.len - 8 * n, 0),
                             8 * b.lo + 8 * n),
                     8 * b.lo + 8 * n).h
    BY <2>1, <1>4, <1>6 DEF place
  <2>3. 8 * b.lo + 8 * n = 8 * r.lo /\ 8 * b.len - 8 * n = 8 * r.len /\ 8 * b.lo = 8 * a.lo
        /\ 8 * n = 8 * a.len /\ Bit(a) = 1 /\ Bit(r) = 0
    BY <1>4, <1>5 DEF Bit
  <2> QED
    BY <2>2, <2>3, <1>8, <1>9, <1>10, <1>12
<1>14. PICK m : Merges(h4, q, D, C, K, t, r, m)
  BY <1>3, <1>5, <1>11, <1>12, CoalesceIs DEF SplitDone
<1>15. Sound(g, C, FreeOf(C), K, t) /\ Used(C) = Used(D) /\ Spares(h4, g, Used(D))
  BY <1>13, <1>14 DEF Merges
<1>16. HP!CoalescedIn(C)
  <2>1. D \in SUBSET HP!Block /\ HP!DisjointIn(D)
    BY <1>5, GoodFacts
  <2> QED
    BY <2>1, <1>3, <1>5, HeapHolds, HP!CoalesceCoalesces
<1>17. Spares(h, g, Used(B))
  <2>1. Used(D) \ {a} = Used(B)
    BY <1>5 DEF Used
  <2>2. Spares(h, h1, Used(B)) /\ Spares(h1, h4, Used(B))
    BY <2>1, <1>7, <1>11 DEF Taking, SplitDone
  <2>3. Spares(h4, g, Used(B))
    BY <1>5, <1>15, SparesFewer
  <2> QED
    BY <2>2, <2>3, SparesTwice
<1> QED
  BY <1>3, <1>5, <1>15, <1>16, <1>17 DEF Placing

LEMMA PlaceWhole ==
  ASSUME NEW h, NEW B, NEW t, NEW L, Sound(h, B, FreeOf(B), L, t), HP!CoalescedIn(B),
         NEW b \in B, ~b.used, NEW n \in Nat, n >= 2, n <= b.len, ~(b.len - n >= 2),
         NEW g, g = place(h, 8 * b.lo, 8 * n),
         NEW C, C = HP!Place(B, b, n), NEW K, K = PlacedLists(L, B, b, n)
  PROVE  Placing(h, g, B, C, K, t, b, n)
<1> DEFINE a == HP!Taken(b, b.len)
<1>1. Laid(B, t) /\ Tagged(h, B, t) /\ h \in Heaps
  BY DEF Sound
<1>2. C = (B \ {b}) \cup {a} /\ K = Unlisted(L, b) /\ Got(b, n) = a
  <2>1. ~(b.len - n >= HP!MINFB_SIZE)
    BY DEF HP!MINFB_SIZE
  <2> QED
    BY <2>1 DEF HP!Place, PlacedLists, Got
<1>3. /\ b.lo \in Nat /\ b.len \in Nat /\ b.len >= 2 /\ SIZE(h, 8 * b.lo) = 8 * b.len /\ t \in Nat
      /\ HP!Good(B, t)
  BY <1>1, LaidFacts, SizeIs, GoodFacts
<1>4. a.lo = b.lo /\ a.len = b.len /\ a.used
  BY DEF HP!Taken
<1>5. HP!Good(C, t) /\ HP!CoalescedIn(C)
  BY <1>3, HeapHolds, HP!PlaceGood
<1> HIDE DEF a
<1>6. Laid(C, t)
  BY <1>1, <1>2, <1>3, <1>4, <1>5 DEF Laid
<1>7. a \notin B
  <2> SUFFICES ASSUME a \in B PROVE FALSE
    OBVIOUS
  <2>1. Apart(b, a)
    BY <1>1, LaidFacts
  <2> QED
    BY <2>1, <1>3, <1>4 DEF Apart
<1>8. PICK h1 : h1 = remove_free_block(h, 8 * b.lo)
  OBVIOUS
<1>9. Taking(h, h1, B, t, L, b)
  BY <1>8, TakingIs
<1>10. g = Tag(h1, 8 * a.lo, 8 * a.len, Bit(a))
  <2>1. ~(8 * b.len - 8 * n >= MINFB_SIZE * DSIZE)
    BY <1>3 DEF MINFB_SIZE, DSIZE
  <2> QED
    BY <2>1, <1>3, <1>4, <1>8 DEF place, Bit
<1>11. /\ h1 \in Heaps /\ Tagged(h1, B, t) /\ Lists(h1, FreeOf(B) \ {b}, Unlisted(L, b))
       /\ Spares(h, h1, Used(B))
  BY <1>9 DEF Taking
<1>12. a \in C
  BY <1>2
<1>13. TagWritten(h1, g, t, a)
  BY <1>6, <1>10, <1>11, <1>12, TagWrites
<1>20. /\ Rewritten(h1, g, t, {a}) /\ HasTags(g, a) /\ g.brk = h1.brk
       /\ g.mem[8 * t - 4] = h1.mem[8 * t - 4]
  BY <1>13 DEF TagWritten
<1>14. {a} \in SUBSET C
  BY <1>12
<1>15. Tagged(g, C, t)
  <2>1. /\ h1.brk = 8 * t /\ h1.mem[8 * t - 4] = 1 /\ Prologue(h1)
        /\ \A c \in B : HasTags(h1, c)
    BY <1>11, TaggedParts
  <2>2. \A c \in C \ {a} : HasTags(h1, c)
    BY <2>1, <1>2
  <2>3. \A c \in {a} : HasTags(g, c)
    BY <1>20
  <2> QED
    BY <2>1, <2>2, <2>3, <1>6, <1>20, <1>14, RewrittenTags
<1>16. FreeOf(C) = FreeOf(B) \ {b} /\ Used(C) = Used(B) \cup {a}
  BY <1>2, <1>4 DEF FreeOf, Used
<1>17. Lists(g, FreeOf(C), K)
  <2>1. FreeOf(C) \in SUBSET C /\ FreeOf(C) \cap {a} = {}
    BY <1>4 DEF FreeOf
  <2>2. Lists(h1, FreeOf(C), K)
    BY <1>2, <1>11, <1>16
  <2> QED
    BY <2>1, <2>2, <1>6, <1>20, <1>14, RewrittenLists
<1>18. Spares(h, g, Used(B))
  <2>1. Used(B) \in SUBSET C /\ Used(B) \cap {a} = {}
    BY <1>2, <1>7 DEF Used
  <2>2. Spares(h1, g, Used(B))
    BY <2>1, <1>6, <1>20, <1>14, RewrittenSpares
  <2> QED
    BY <2>2, <1>11, SparesTwice
<1>19. Sound(g, C, FreeOf(C), K, t)
  <2>1. g \in Heaps /\ FreeOf(C) \subseteq FreeOf(C)
    BY <1>20 DEF Rewritten
  <2> QED
    BY <2>1, <1>6, <1>15, <1>17 DEF Sound
<1> QED
  BY <1>2, <1>5, <1>16, <1>18, <1>19 DEF Placing

LEMMA PlaceIs ==
  ASSUME NEW h, NEW B, NEW t, NEW L, Sound(h, B, FreeOf(B), L, t), HP!CoalescedIn(B),
         NEW b \in B, ~b.used, NEW n \in Nat, n >= 2, n <= b.len,
         NEW g, g = place(h, 8 * b.lo, 8 * n),
         NEW C, C = HP!Place(B, b, n), NEW K, K = PlacedLists(L, B, b, n)
  PROVE  Placing(h, g, B, C, K, t, b, n)
<1>1. CASE b.len - n >= 2
  BY <1>1, PlaceSplits
<1>2. CASE ~(b.len - n >= 2)
  BY <1>2, PlaceWhole
<1> QED
  BY <1>1, <1>2

-----------------------------------------------------------------------------
(* extend_heap.                                                            *)

LEMMA PutWrites ==
  ASSUME NEW h \in Heaps, NEW a \in Words, NEW v \in Nat, NEW g, g = PUT(h, a, v)
  PROVE  /\ g \in Heaps /\ g.brk = h.brk
         /\ \A c \in Words : g.mem[c] = IF c = a THEN v ELSE h.mem[c]
BY DEF PUT, Heaps

LEMMA BreakMoved ==
  ASSUME NEW h \in Heaps, NEW k \in Nat, NEW g, g = [h EXCEPT !.brk = @ + k]
  PROVE  g \in Heaps /\ g.mem = h.mem /\ g.brk = h.brk + k
BY DEF Heaps

\* The heap has the new block x at its end, which is in no list.
Grown(h, g, D, u, x, L) ==
  /\ g \in Heaps /\ Tagged(g, D, u) /\ Lists(g, FreeOf(D) \ {x}, L)
  /\ Spares(h, g, Used(D))

LEMMA GrownIs ==
  ASSUME NEW h \in Heaps, NEW D, NEW u, Laid(D, u), NEW x \in D, ~x.used,
         x.lo + x.len = u, h.brk = 8 * x.lo, Prologue(h), \A b \in D \ {x} : HasTags(h, b),
         NEW L, Lists(h, FreeOf(D) \ {x}, L),
         NEW h1, h1 = [h EXCEPT !.brk = @ + 8 * x.len],
         NEW h2, h2 = Tag(h1, 8 * x.lo, 8 * x.len, Bit(x)),
         NEW h3, h3 = NoLinks(h2, 8 * x.lo),
         NEW g, g = PUT(h3, 8 * u - 4, 1)
  PROVE  Grown(h, g, D, u, x, L)
<1>1. /\ x.lo \in Nat /\ x.len \in Nat /\ x.len >= 2 /\ u \in Nat /\ First < u
      /\ 8 * u <= Start + MAX_HEAP /\ First \in Nat
  BY LaidFacts, FirstFacts
<1>2. h1 \in Heaps /\ h1.mem = h.mem /\ h1.brk = 8 * u
  <2>1. 8 * x.len \in Nat /\ 8 * x.lo + 8 * x.len = 8 * u
    BY <1>1
  <2>2. h1 \in Heaps /\ h1.mem = h.mem /\ h1.brk = h.brk + 8 * x.len
    BY <2>1, BreakMoved
  <2> QED
    BY <2>1, <2>2
<1>3. TagWritten(h1, h2, u, x)
  BY <1>2, TagWrites
<1>4. h2 \in Heaps
  BY <1>3 DEF TagWritten, Rewritten
<1>5. LinksCleared(h2, h3, D, u, x)
  BY <1>4, NoLinksWrites
<1>6. h3 \in Heaps
  BY <1>5 DEF LinksCleared, Rewritten
<1>7. 8 * u - 4 \in Words
  BY <1>1, EndWords
<1>8. /\ g \in Heaps /\ g.brk = h3.brk
      /\ \A c \in Words : g.mem[c] = IF c = 8 * u - 4 THEN 1 ELSE h3.mem[c]
  <2>1. 1 \in Nat
    OBVIOUS
  <2> QED
    BY <1>6, <1>7, <2>1, PutWrites
<1>9. Rewritten(h, g, u, {x})
  <2>1. Rewritten(h1, h2, u, {x}) /\ Rewritten(h2, h3, u, {x})
    BY <1>3, <1>5 DEF TagWritten, LinksCleared
  <2>2. \A a \in Words : h3.mem[a] = h1.mem[a] \/ a = 8 * u - 4 \/ \E y \in {x} : InBlock(a, y)
    BY <2>1 DEF Rewritten
  <2> QED
    BY <1>2, <1>8, <2>2 DEF Rewritten
<1>10. HasTags(g, x)
  <2>1. HasTags(h3, x)
    BY <1>3, <1>5 DEF TagWritten, LinksCleared
  <2>2. /\ 8 * x.lo - 4 \in Words /\ 8 * (x.lo + x.len) - 8 \in Words
    BY BlockParts
  <2>3. 8 * x.lo - 4 # 8 * u - 4 /\ 8 * (x.lo + x.len) - 8 # 8 * u - 4
    BY <1>1
  <2> QED
    BY <1>8, <2>1, <2>2, <2>3 DEF HasTags
<1>11. g.brk = 8 * u /\ g.mem[8 * u - 4] = 1
  BY <1>2, <1>3, <1>5, <1>7, <1>8 DEF TagWritten, LinksCleared
<1>12. {x} \in SUBSET D
  OBVIOUS
<1>13. Tagged(g, D, u)
  <2>1. \A b \in {x} : HasTags(g, b)
    BY <1>10
  <2> QED
    BY <1>9, <1>11, <1>12, <2>1, RewrittenTags
<1>14. Lists(g, FreeOf(D) \ {x}, L)
  <2>1. FreeOf(D) \ {x} \in SUBSET D /\ (FreeOf(D) \ {x}) \cap {x} = {}
    BY DEF FreeOf
  <2> QED
    BY <1>9, <1>12, <2>1, RewrittenLists
<1>15. Spares(h, g, Used(D))
  <2>1. Used(D) \in SUBSET D /\ Used(D) \cap {x} = {}
    BY DEF Used
  <2> QED
    BY <1>9, <1>12, <2>1, RewrittenSpares
<1> QED
  BY <1>8, <1>13, <1>14, <1>15 DEF Grown

\* What extend_heap does: D are the blocks with the new block x, C what they
\* are when it has been coalesced to m.
Extends(h, r, D, C, K, u, x, m) ==
  /\ Sound(r.h, C, FreeOf(C), K, u)
  /\ m \in C /\ ~m.used /\ r.p = 8 * m.lo
  /\ m.lo <= x.lo /\ x.lo + x.len <= m.lo + m.len
  /\ Used(C) = Used(D)
  /\ Spares(h, r.h, Used(D))

LEMMA ExtendIs ==
  ASSUME NEW h \in Heaps, NEW D, NEW u, Laid(D, u), NEW x \in D, ~x.used,
         x.lo + x.len = u, h.brk = 8 * x.lo, Prologue(h), \A b \in D \ {x} : HasTags(h, b),
         NEW L, Lists(h, FreeOf(D) \ {x}, L),
         NEW k \in Nat, x.len = k + (k % 2), NEW r, r = extend_heap(h, k),
         NEW C, C = HP!Coalesce(D, x), NEW K, K = MergedLists(L, D, x)
  PROVE  \E m : Extends(h, r, D, C, K, u, x, m)
<1>1. /\ x.lo \in Nat /\ x.len \in Nat /\ x.len >= 2 /\ u \in Nat /\ First < u
      /\ 8 * u <= Start + MAX_HEAP /\ First \in Nat /\ Start \in Nat /\ MAX_HEAP \in Nat
  BY LaidFacts, FirstFacts, WordFacts
<1>2. PICK h1 : h1 = [h EXCEPT !.brk = @ + 8 * x.len]
  OBVIOUS
<1>3. PICK h2 : h2 = Tag(h1, 8 * x.lo, 8 * x.len, Bit(x))
  OBVIOUS
<1>4. PICK h3 : h3 = NoLinks(h2, 8 * x.lo)
  OBVIOUS
<1>5. PICK g : g = PUT(h3, 8 * u - 4, 1)
  OBVIOUS
<1>6. Grown(h, g, D, u, x, L)
  BY <1>2, <1>3, <1>4, <1>5, GrownIs
<1>7. r = coalesce(g, 8 * x.lo)
  <2>1. (k + (k % 2)) * DSIZE = 8 * x.len
    BY <1>1 DEF DSIZE
  <2>2. mem_sbrk(h, 8 * x.len) = [h |-> h1, p |-> 8 * x.lo]
    <3>1. ~(8 * x.lo + 8 * x.len > Start + MAX_HEAP)
      BY <1>1
    <3> QED
      BY <1>2, <3>1 DEF mem_sbrk
  <2>3. 8 * x.lo # -1
    BY <1>1
  <2>4. HDRP(8 * x.lo + 8 * x.len) = 8 * u - 4 /\ Bit(x) = 0
    BY <1>1 DEF HDRP, WSIZE, Bit
  <2>5. r = coalesce(PUT(NoLinks(Tag(h1, 8 * x.lo, 8 * x.len, 0), 8 * x.lo),
                        HDRP(8 * x.lo + 8 * x.len), 1), 8 * x.lo)
    BY <2>1, <2>2, <2>3 DEF extend_heap
  <2> QED
    BY <2>4, <2>5, <1>3, <1>4, <1>5
<1>8. PICK m : Merges(g, r, D, C, K, u, x, m)
  BY <1>6, <1>7, CoalesceIs DEF Grown
<1>9. Extends(h, r, D, C, K, u, x, m)
  BY <1>6, <1>8, SparesTwice DEF Merges, Grown, Extends
<1> QED
  BY <1>9

LEMMA ExtendFails ==
  ASSUME NEW h, NEW k, h.brk + (k + (k % 2)) * 8 > Start + MAX_HEAP
  PROVE  extend_heap(h, k) = [h |-> h, p |-> 0]
BY DEF extend_heap, mem_sbrk, DSIZE

-----------------------------------------------------------------------------
(* find_fit.                                                               *)

\* The lists in which find_fit finds a block of n double words, and the block
\* that it takes.
FitLists(L, n) == {i \in Category(8 * n) .. 9 : FirstFit(L[i], 8 * n) <= L[i].n}

BestOf(L, n) ==
  LET i == CHOOSE i \in FitLists(L, n) : \A j \in FitLists(L, n) : i <= j
  IN L[i].at[FirstFit(L[i], 8 * n)]

\* p is the address of the smallest free block of at least n double words.
BestFit(B, L, n, p) ==
  LET b == BestOf(L, n)
  IN IF FitLists(L, n) = {} THEN p = 0 /\ \A c \in FreeOf(B) : c.len < n
     ELSE /\ b \in FreeOf(B) /\ b.len >= n /\ p = 8 * b.lo
          /\ \A c \in FreeOf(B) : c.len >= n => b.len <= c.len

\* The first block that is large enough in the list of root i.
FirstOf(h, B, L, n, i) ==
  LET m == FirstFit(L[i], 8 * n)
  IN /\ L[i].n \in Nat /\ m \in 1 .. L[i].n + 1
     /\ Seek(h, RootOf(i), 8 * n)[2] = Addr(L[i], m)
     /\ m > L[i].n <=> Addr(L[i], m) = 0
     /\ m > L[i].n => \A c \in FreeOf(B) : Cat(c) = i => c.len < n
     /\ m <= L[i].n => /\ L[i].at[m] \in FreeOf(B) /\ Cat(L[i].at[m]) = i
                       /\ Addr(L[i], m) = 8 * L[i].at[m].lo /\ L[i].at[m].len >= n
                       /\ \A c \in FreeOf(B) :
                            Cat(c) = i /\ c.len >= n => L[i].at[m].len <= c.len

LEMMA FirstOfIs ==
  ASSUME NEW h, NEW B, NEW t, NEW L, Sound(h, B, FreeOf(B), L, t), NEW n \in Nat,
         NEW i \in Roots
  PROVE  FirstOf(h, B, L, n, i)
<1>1. h \in Heaps /\ Laid(B, t) /\ Tagged(h, B, t) /\ FreeOf(B) \in SUBSET B
      /\ Chain(h, i, L[i]) /\ Order(i, L[i], FreeOf(B)) /\ 8 * n \in Nat
  BY ListOf DEF Sound, FreeOf
<1> DEFINE s == L[i]
           m == FirstFit(s, 8 * n)
<1>2. /\ s.n \in Nat
      /\ \A k \in 1 .. s.n : s.at[k] \in FreeOf(B) /\ Cat(s.at[k]) = i
      /\ \A j, k \in 1 .. s.n : j < k => s.at[j].len <= s.at[k].len /\ s.at[j] # s.at[k]
      /\ \A b \in FreeOf(B) : Cat(b) = i => \E k \in 1 .. s.n : s.at[k] = b
  BY <1>1 DEF Order
<1>3. \A b \in FreeOf(B) : b.len \in Nat /\ b.lo \in Nat
  BY <1>1, LaidFacts
<1>4. PICK r : r = Seek(h, RootOf(i), 8 * n)
  OBVIOUS
<1>5. PICK q : FirstFit(s, 8 * n) = q
  OBVIOUS
<1> HIDE DEF s
<1>6. Chain(h, i, s) /\ Order(i, s, FreeOf(B))
  BY <1>1 DEF s
<1>7. q \in 1 .. s.n + 1 /\ r[2] = Addr(s, q)
  BY <1>1, <1>4, <1>5, <1>6, SeekIs
<1>8. /\ m = s.n + 1 \/ 8 * s.at[m].len >= 8 * n
      /\ \A j \in 1 .. m - 1 : 8 * s.at[j].len < 8 * n
  <2>1. \A k \in 1 .. s.n : s.at[k].len \in Nat
    BY <1>2, <1>3 DEF s
  <2>2. s.n \in Nat
    BY <1>2 DEF s
  <2> QED
    BY <1>1, <2>1, <2>2, FirstFitFacts
<1>9. m = q
  BY <1>5
<1> HIDE DEF m
<1>10. /\ s.n \in Nat
       /\ \A k \in 1 .. s.n : /\ s.at[k] \in FreeOf(B) /\ Cat(s.at[k]) = i
                              /\ s.at[k].len \in Nat /\ s.at[k].lo \in Nat
       /\ \A j, k \in 1 .. s.n : j < k => s.at[j].len <= s.at[k].len /\ s.at[j] # s.at[k]
       /\ \A b \in FreeOf(B) : Cat(b) = i => \E k \in 1 .. s.n : s.at[k] = b
  BY <1>2, <1>3 DEF s
<1>11. m \in 1 .. s.n + 1
  BY <1>7, <1>9
<1>12. m > s.n <=> Addr(s, m) = 0
  <2>1. m \in Int /\ AddrFine(s)
    BY <1>1, <1>6, <1>11, AddrsFine
  <2>2. Addr(s, m) = 0 <=> m \notin 1 .. s.n
    BY <2>1 DEF AddrFine
  <2> QED
    BY <2>2, <1>10, <1>11
<1>13. ASSUME m > s.n, NEW c \in FreeOf(B), Cat(c) = i PROVE c.len < n
  <2>1. PICK k \in 1 .. s.n : s.at[k] = c
    BY <1>10, <1>13
  <2>2. k \in 1 .. m - 1
    BY <1>10, <1>11, <1>13
  <2>3. 8 * c.len < 8 * n
    BY <2>1, <2>2, <1>8
  <2> QED
    BY <2>3, <1>3
<1>14. ASSUME m <= s.n
       PROVE  /\ s.at[m] \in FreeOf(B) /\ Cat(s.at[m]) = i
              /\ Addr(s, m) = 8 * s.at[m].lo /\ s.at[m].len >= n
              /\ \A c \in FreeOf(B) : Cat(c) = i /\ c.len >= n => s.at[m].len <= c.len
  <2>1. m \in 1 .. s.n /\ m # s.n + 1
    BY <1>10, <1>11, <1>14
  <2>2. s.at[m] \in FreeOf(B) /\ Cat(s.at[m]) = i /\ s.at[m].len \in Nat
    BY <2>1, <1>10
  <2>3. s.at[m].len >= n
    BY <2>1, <2>2, <1>8
  <2>4. ASSUME NEW c \in FreeOf(B), Cat(c) = i, c.len >= n PROVE s.at[m].len <= c.len
    <3>1. PICK k \in 1 .. s.n : s.at[k] = c
      BY <1>10, <2>4
    <3>2. ~(k < m)
      <4> SUFFICES ASSUME k < m PROVE FALSE
        OBVIOUS
      <4>1. k \in 1 .. m - 1
        BY <2>1
      <4>2. 8 * c.len < 8 * n
        BY <4>1, <3>1, <1>8
      <4> QED
        BY <4>2, <2>4, <1>3
    <3>3. k = m \/ m < k
      BY <3>2, <2>1
    <3>4. s.at[k].len \in Nat
      BY <1>10
    <3> QED
      BY <3>1, <3>3, <3>4, <2>1, <2>2, <1>10
  <2>5. Addr(s, m) = 8 * s.at[m].lo
    BY <2>1 DEF Addr
  <2> QED
    BY <2>2, <2>3, <2>4, <2>5
<1>15. Seek(h, RootOf(i), 8 * n)[2] = Addr(s, m)
  BY <1>4, <1>7, <1>9
<1> QED
  BY <1>10, <1>11, <1>12, <1>13, <1>14, <1>15 DEF FirstOf, s, m

LEMMA FitIs ==
  ASSUME NEW h, NEW B, NEW t, NEW L, Sound(h, B, FreeOf(B), L, t), NEW n \in Nat,
         NEW p, p = find_fit(h, 8 * n)
  PROVE  BestFit(B, L, n, p)
<1> DEFINE Found(i) == Seek(h, RootOf(i), 8 * n)[2]
           K == {i \in Category(8 * n) .. 9 : Found(i) # 0}
           J == FitLists(L, n)
           M(i) == FirstFit(L[i], 8 * n)
<1>1. p = IF K = {} THEN 0 ELSE Found(CHOOSE i \in K : \A j \in K : i <= j)
  BY DEF find_fit
<1>2. 8 * n \in Nat /\ Category(8 * n) \in 0 .. 9
  BY CategoryFacts DEF Roots
<1>3. \A i \in Category(8 * n) .. 9 : i \in Roots /\ i \in Nat
  BY <1>2 DEF Roots
<1>4. \A i \in Category(8 * n) .. 9 : FirstOf(h, B, L, n, i)
  BY <1>3, FirstOfIs
<1>5. ASSUME NEW i \in Category(8 * n) .. 9 PROVE i \in K <=> i \in J
  <2>1. FirstOf(h, B, L, n, i)
    BY <1>4
  <2>2. /\ L[i].n \in Nat /\ M(i) \in 1 .. L[i].n + 1
        /\ Found(i) = Addr(L[i], M(i))
        /\ M(i) > L[i].n <=> Addr(L[i], M(i)) = 0
    BY <2>1 DEF FirstOf
  <2>3. i \in J <=> M(i) <= L[i].n
    BY DEF FitLists
  <2> HIDE DEF J, M, Found
  <2>4. i \in K <=> Found(i) # 0
    OBVIOUS
  <2> QED
    BY <2>2, <2>3, <2>4
<1>6. K = J
  BY <1>5 DEF FitLists
<1>7. Laid(B, t)
  BY DEF Sound
<1>8. \A c \in FreeOf(B) : c.len \in Nat /\ 8 * c.len \in Nat /\ Cat(c) \in Roots
  BY <1>7, LaidFacts, CatFacts DEF FreeOf
<1>9. \A c \in FreeOf(B) : c.len >= n => Cat(c) \in Category(8 * n) .. 9
  <2> SUFFICES ASSUME NEW c \in FreeOf(B), c.len >= n PROVE Cat(c) \in Category(8 * n) .. 9
    OBVIOUS
  <2>1. 8 * n <= 8 * c.len
    BY <1>8
  <2>2. Category(8 * n) <= Cat(c)
    BY <1>2, <1>8, <2>1, CategoryGrows DEF Cat
  <2> QED
    BY <1>2, <1>8, <2>2 DEF Roots
<1> HIDE DEF K, J, Found, M
<1>10. CASE J = {}
  <2>1. p = 0
    BY <1>1, <1>6, <1>10
  <2>2. ASSUME NEW c \in FreeOf(B), ~(c.len < n) PROVE FALSE
    <3>1. Cat(c) \in Category(8 * n) .. 9
      BY <2>2, <1>8, <1>9
    <3>2. FirstOf(h, B, L, n, Cat(c)) /\ Cat(c) \notin J
      BY <3>1, <1>4, <1>10
    <3>3. ~(M(Cat(c)) <= L[Cat(c)].n)
      BY <3>1, <3>2 DEF J, FitLists, M
    <3>4. M(Cat(c)) > L[Cat(c)].n
      BY <3>2, <3>3 DEF FirstOf, M
    <3>5. c.len < n
      BY <3>2, <3>4 DEF FirstOf, M
    <3> QED
      BY <3>5, <2>2
  <2> QED
    BY <2>1, <2>2, <1>10 DEF BestFit, J
<1>11. CASE J # {}
  <2>1. J \in SUBSET Nat
    BY <1>3 DEF J, FitLists
  <2>2. \E i \in J : \A j \in J : i <= j
    BY <2>1, <1>11, LeastNatural
  <2>3. PICK i : i = CHOOSE k \in J : \A j \in J : k <= j
    OBVIOUS
  <2>4. i \in J /\ \A j \in J : i <= j
    BY <2>2, <2>3
  <2>5. p = Found(i)
    BY <1>1, <1>6, <1>11, <2>3
  <2>6. BestOf(L, n) = L[i].at[M(i)]
    BY <2>3 DEF BestOf, J, M
  <2>7. i \in Category(8 * n) .. 9 /\ M(i) <= L[i].n
    BY <2>4 DEF J, FitLists, M
  <2>8. FirstOf(h, B, L, n, i)
    BY <2>7, <1>4
  <2>9. PICK b : b = L[i].at[M(i)]
    OBVIOUS
  <2>10. /\ b \in FreeOf(B) /\ Cat(b) = i /\ Found(i) = 8 * b.lo /\ b.len >= n
         /\ \A c \in FreeOf(B) : Cat(c) = i /\ c.len >= n => b.len <= c.len
    BY <2>7, <2>8, <2>9 DEF FirstOf, M, Found
  <2>11. ASSUME NEW c \in FreeOf(B), c.len >= n PROVE b.len <= c.len
    <3>1. Cat(c) \in Category(8 * n) .. 9
      BY <2>11, <1>9
    <3>2. Cat(c) \in J
      <4> SUFFICES ASSUME Cat(c) \notin J PROVE FALSE
        OBVIOUS
      <4>1. FirstOf(h, B, L, n, Cat(c))
        BY <3>1, <1>4
      <4>2. ~(M(Cat(c)) <= L[Cat(c)].n)
        BY <3>1 DEF J, FitLists, M
      <4>3. M(Cat(c)) > L[Cat(c)].n
        BY <4>1, <4>2 DEF FirstOf, M
      <4>4. c.len < n
        BY <4>1, <4>3 DEF FirstOf, M
      <4> QED
        BY <4>4, <2>11, <1>8
    <3>3. CASE Cat(c) = i
      BY <3>3, <2>10, <2>11
    <3>4. CASE Cat(c) # i
      <4>1. i <= Cat(c) /\ i \in Roots /\ Cat(c) \in Roots
        BY <3>2, <2>4, <2>10, <1>8
      <4>2. ~(c.len <= b.len)
        <5> SUFFICES ASSUME c.len <= b.len PROVE FALSE
          OBVIOUS
        <5>1. 8 * c.len <= 8 * b.len
          BY <1>8, <2>10
        <5>2. Cat(c) <= Cat(b)
          BY <5>1, <1>8, <2>10, CategoryGrows DEF Cat
        <5> QED
          BY <5>2, <4>1, <3>4, <2>10 DEF Roots
      <4> QED
        BY <4>2, <1>8, <2>10
    <3> QED
      BY <3>3, <3>4
  <2> QED
    BY <2>5, <2>6, <2>9, <2>10, <2>11, <1>11 DEF BestFit, J
<1> QED
  BY <1>10, <1>11

-----------------------------------------------------------------------------
(* What is known of a heap: its blocks s.B, lists s.L and end s.t.         *)

Whole(h, s) == Sound(h, s.B, FreeOf(s.B), s.L, s.t) /\ HP!CoalescedIn(s.B)

Placed(s, b, z) == [B |-> HP!Place(s.B, b, z), L |-> PlacedLists(s.L, s.B, b, z), t |-> s.t]

\* The heap after extend_heap for z double words, and its last block.
Longer(s, z) ==
  LET u == s.t + HP!Growth(z)
      x == HP!Span(s.t, u)
  IN [B |-> HP!Coalesce(s.B \cup {x}, x), L |-> MergedLists(s.L, s.B \cup {x}, x), t |-> u]

LastOf(s) == CHOOSE b \in s.B : ~b.used /\ b.lo + b.len = s.t

HasFit(s, n) == FitLists(s.L, Size(n)) # {}
CanGrow(s, n) == 8 * (s.t + HP!Growth(Size(n))) <= Start + MAX_HEAP

\* mm_malloc for n bytes: does it succeed, on which heap does it place the
\* block, in which free block, and what it leaves.
Serves(s, n) == n # 0 /\ (HasFit(s, n) \/ CanGrow(s, n))
Room(s, n)   == IF HasFit(s, n) THEN s ELSE Longer(s, Size(n))
Choice(s, n) == IF HasFit(s, n) THEN BestOf(s.L, Size(n)) ELSE LastOf(Longer(s, Size(n)))
After(s, n)  == Placed(Room(s, n), Choice(s, n), Size(n))
Gotten(s, n) == Got(Choice(s, n), Size(n))

LEMMA SizeFacts ==
  ASSUME NEW n \in Nat
  PROVE  /\ Size(n) \in Nat /\ Size(n) >= 2 /\ AdjustedSize(n) = 8 * Size(n)
         /\ 8 * Size(n) >= n + 8
<1>1. CASE n <= 8
  BY <1>1 DEF Size, AdjustedSize, DSIZE
<1>2. CASE ~(n <= 8)
  <2>1. AdjustedSize(n) = 8 * ((n + 15) \div 8)
    BY <1>2 DEF AdjustedSize, DSIZE
  <2>2. (n + 15) \div 8 \in Nat /\ 8 * ((n + 15) \div 8) >= n + 8 /\ (n + 15) \div 8 >= 2
    BY <1>2
  <2>3. PICK k \in Nat : k = (n + 15) \div 8
    BY <2>2
  <2>4. (8 * k) \div 8 = k
    OBVIOUS
  <2> QED
    BY <2>1, <2>2, <2>3, <2>4 DEF Size, DSIZE
<1> QED
  BY <1>1, <1>2

\* extend_heap is called with the larger of the block size and a chunk.
LEMMA GrowthIs ==
  ASSUME NEW z \in Nat, z >= 2
  PROVE  LET k == (IF 8 * z > CHUNKSIZE THEN 8 * z ELSE CHUNKSIZE) \div DSIZE
         IN /\ k \in Nat /\ HP!Growth(z) = k + (k % 2)
            /\ HP!Growth(z) \in Nat /\ HP!Growth(z) >= z
<1> DEFINE ch == CHUNKSIZE \div DSIZE
           k == (IF 8 * z > CHUNKSIZE THEN 8 * z ELSE CHUNKSIZE) \div DSIZE
<1>1. CHUNKSIZE \in Nat /\ CHUNKSIZE % 16 = 0
  BY FirstFacts
<1>2. ch \in Nat /\ 8 * ch = CHUNKSIZE
  BY <1>1 DEF DSIZE
<1>3. k = IF z > ch THEN z ELSE ch
  <2>1. (8 * z) \div 8 = z
    OBVIOUS
  <2> HIDE DEF ch
  <2>2. CHUNKSIZE \div DSIZE = ch
    BY DEF ch
  <2>3. 8 * z > CHUNKSIZE <=> z > ch
    BY <1>2
  <2> QED
    BY <2>1, <2>2, <2>3 DEF DSIZE
<1>4. HP!Growth(z) = k + (k % 2)
  BY <1>3 DEF HP!Growth
<1> HIDE DEF ch, k
<1>5. k \in Nat /\ k >= z
  BY <1>2, <1>3
<1>6. k + (k % 2) \in Nat /\ k + (k % 2) >= z
  BY <1>5
<1> QED
  BY <1>4, <1>5, <1>6 DEF k

\* The last block is known by its end.
LEMMA LastIs ==
  ASSUME NEW s, Laid(s.B, s.t), NEW m \in s.B, ~m.used, m.lo + m.len = s.t
  PROVE  LastOf(s) = m
<1>1. \A b \in s.B : /\ b.lo \in Nat /\ b.len \in Nat /\ b.len >= 2 /\ Apart(b, m)
  BY LaidFacts
<1>2. \A b \in s.B : b.lo + b.len = s.t => b = m
  BY <1>1 DEF Apart
<1> QED
  BY <1>2 DEF LastOf

\* r is what extend_heap makes of h.
Lengthens(h, r, s, z) ==
  LET e == Longer(s, z)
      m == LastOf(e)
  IN /\ Whole(r.h, e) /\ Spares(h, r.h, Used(s.B)) /\ Used(e.B) = Used(s.B)
     /\ m \in e.B /\ ~m.used /\ m.lo + m.len = e.t /\ r.p = 8 * m.lo /\ m.len \in Nat /\ m.len >= z
     /\ m.lo \in Nat /\ m.lo # 0

LEMMA LongerIs ==
  ASSUME NEW h, NEW s, Whole(h, s), NEW z \in Nat, z >= 2,
         8 * (s.t + HP!Growth(z)) <= Start + MAX_HEAP,
         NEW k, k = (IF 8 * z > CHUNKSIZE THEN 8 * z ELSE CHUNKSIZE) \div DSIZE,
         NEW r, r = extend_heap(h, k)
  PROVE  Lengthens(h, r, s, z)
<1> DEFINE B == s.B
           t == s.t
           u == t + HP!Growth(z)
           x == HP!Span(t, u)
           D == B \cup {x}
           C == HP!Coalesce(D, x)
           K == MergedLists(s.L, D, x)
           e == Longer(s, z)
<1>1. /\ h \in Heaps /\ Laid(B, t) /\ Tagged(h, B, t) /\ Lists(h, FreeOf(B), s.L)
      /\ HP!CoalescedIn(B)
  BY DEF Whole, Sound
<1>2. /\ k \in Nat /\ HP!Growth(z) = k + (k % 2)
      /\ HP!Growth(z) \in Nat /\ HP!Growth(z) >= z
  BY GrowthIs
<1>3. e.B = C /\ e.L = K /\ e.t = u
  BY DEF Longer
<1>4. t \in Nat /\ u \in Nat /\ t < u /\ First < t /\ First \in Nat
  BY <1>1, <1>2, LaidFacts, FirstFacts
<1>5. x.lo = t /\ x.len = HP!Growth(z) /\ ~x.used /\ x \in D
  <2>1. x.lo = t /\ x.len = u - t /\ ~x.used
    BY DEF HP!Span
  <2> QED
    BY <2>1, <1>2, <1>4
<1>6. HP!Good(D, u) /\ HP!CoalescedBut(D, x)
  BY <1>1, <1>4, GoodFacts, HeapHolds, HP!NewGood
<1> HIDE DEF x, D, C, K, e
<1>7. D = B \cup {x}
  BY DEF D
<1>8. \A b \in B : b.lo + b.len <= t /\ b.lo \in Nat /\ b.len \in Nat /\ b.len >= 2
  BY <1>1, LaidFacts
<1>9. x \notin B
  BY <1>4, <1>5, <1>8
<1>10. Laid(D, u)
  BY <1>1, <1>2, <1>4, <1>5, <1>6, <1>7 DEF Laid
<1>11. FreeOf(D) \ {x} = FreeOf(B) /\ Used(D) = Used(B)
  BY <1>5, <1>7, <1>9 DEF FreeOf, Used
<1>12. h.brk = 8 * x.lo /\ Prologue(h) /\ \A b \in D \ {x} : HasTags(h, b)
  BY <1>1, <1>5, <1>7, TaggedParts
<1>13. x.lo + x.len = u
  BY <1>2, <1>4, <1>5
<1>14. Lists(h, FreeOf(D) \ {x}, s.L)
  BY <1>1, <1>11
<1>15. x.len = k + (k % 2)
  BY <1>2, <1>5
<1>16. C = HP!Coalesce(D, x) /\ K = MergedLists(s.L, D, x)
  BY DEF C, K
<1> HIDE DEF u
<1>17. PICK m : Extends(h, r, D, C, K, u, x, m)
  BY <1>1, <1>2, <1>5, <1>10, <1>12, <1>13, <1>14, <1>15, <1>16, ExtendIs
<1>18. /\ Sound(r.h, C, FreeOf(C), K, u)
       /\ m \in C /\ ~m.used /\ r.p = 8 * m.lo
       /\ m.lo <= x.lo /\ x.lo + x.len <= m.lo + m.len
       /\ Used(C) = Used(D)
       /\ Spares(h, r.h, Used(D))
  BY <1>17 DEF Extends
<1>19. Laid(C, u)
  BY <1>18 DEF Sound
<1>20. /\ m.lo \in Nat /\ m.len \in Nat /\ m.lo + m.len <= u /\ First <= m.lo /\ First > 7
  BY <1>18, <1>19, LaidFacts, FirstFacts
<1>21. m.lo + m.len = u
  BY <1>13, <1>18, <1>20, <1>4
<1>22. LastOf(e) = m
  BY <1>3, <1>18, <1>19, <1>21, LastIs
<1>23. HP!CoalescedIn(C)
  <2>1. D \in SUBSET HP!Block /\ HP!DisjointIn(D)
    BY <1>10, GoodFacts
  <2> QED
    BY <2>1, <1>5, <1>6, <1>16, HeapHolds, HP!CoalesceCoalesces
<1>24. Whole(r.h, e)
  BY <1>3, <1>18, <1>23 DEF Whole
<1>25. m.len >= z /\ m.lo # 0
  BY <1>2, <1>4, <1>5, <1>13, <1>18, <1>20, <1>21
<1> QED
  BY <1>3, <1>11, <1>18, <1>20, <1>21, <1>22, <1>24, <1>25 DEF Lengthens, e

-----------------------------------------------------------------------------
(* mm_malloc.                                                              *)

\* What mm_malloc for n bytes makes of h if it succeeds.
Allocates(h, r, s, n) ==
  LET b == Gotten(s, n)
      a == After(s, n)
  IN /\ Whole(r.h, a) /\ Spares(h, r.h, Used(s.B))
     /\ r.p = 8 * b.lo /\ b.used /\ b \notin Used(s.B) /\ Used(a.B) = Used(s.B) \cup {b}
     /\ b.len \in Nat /\ b.len >= Size(n)

\* What it does to the blocks.
Reuses(B, t, C, u, z) ==
  /\ \E b \in B : /\ ~b.used /\ b.len >= z
                  /\ \A c \in B : ~c.used /\ c.len >= z => b.len <= c.len
                  /\ C = HP!Place(B, b, z)
  /\ u = t

Grows(B, t, C, u, z) ==
  LET x == HP!Span(t, t + HP!Growth(z))
      D == HP!Coalesce(B \cup {x}, x)
  IN /\ \A c \in B : c.used \/ c.len < z
     /\ u = t + HP!Growth(z) /\ 8 * u <= Start + MAX_HEAP
     /\ \E b \in D : ~b.used /\ b.lo + b.len = u /\ C = HP!Place(D, b, z)

\* The free block that mm_malloc takes, in the heap k.
Chosen(h, r, s, n, k) ==
  LET m == Room(s, n)
      c == Choice(s, n)
  IN /\ Whole(k, m) /\ Spares(h, k, Used(s.B)) /\ Used(m.B) = Used(s.B)
     /\ c \in m.B /\ ~c.used /\ c.len >= Size(n) /\ c.len \in Nat
     /\ r = [h |-> place(k, 8 * c.lo, 8 * Size(n)), p |-> 8 * c.lo]

LEMMA ChosenIs ==
  ASSUME NEW h, NEW s, Whole(h, s), NEW n \in Nat, Serves(s, n), NEW r, r = mm_malloc(h, n)
  PROVE  /\ \E k : Chosen(h, r, s, n, k)
         /\ \/ Reuses(s.B, s.t, After(s, n).B, After(s, n).t, Size(n))
            \/ Grows(s.B, s.t, After(s, n).B, After(s, n).t, Size(n))
<1> DEFINE z == Size(n)
           fit == find_fit(h, 8 * z)
           k == (IF 8 * z > CHUNKSIZE THEN 8 * z ELSE CHUNKSIZE) \div DSIZE
           e == extend_heap(h, k)
<1>1. z \in Nat /\ z >= 2 /\ AdjustedSize(n) = 8 * z /\ n # 0
  BY SizeFacts DEF Serves
<1>2. r = IF fit # 0 THEN [h |-> place(h, fit, 8 * z), p |-> fit]
          ELSE IF e.p = 0 THEN [h |-> h, p |-> 0]
          ELSE [h |-> place(e.h, e.p, 8 * z), p |-> e.p]
  BY <1>1 DEF mm_malloc
<1>3. /\ h \in Heaps /\ Laid(s.B, s.t) /\ Sound(h, s.B, FreeOf(s.B), s.L, s.t)
  BY DEF Whole, Sound
<1> HIDE DEF z, e
<1>4. BestFit(s.B, s.L, z, fit)
  BY <1>1, <1>3, FitIs
<1>5. After(s, n).B = HP!Place(Room(s, n).B, Choice(s, n), z) /\ After(s, n).t = Room(s, n).t
  BY DEF After, Placed, z
<1> HIDE DEF fit
<1>6. CASE HasFit(s, n)
  <2>1. Room(s, n) = s /\ Choice(s, n) = BestOf(s.L, z) /\ FitLists(s.L, z) # {}
    BY <1>6 DEF Room, Choice, HasFit, z
  <2> DEFINE c == BestOf(s.L, z)
  <2>2. /\ c \in FreeOf(s.B) /\ c.len >= z /\ fit = 8 * c.lo
        /\ \A d \in FreeOf(s.B) : d.len >= z => c.len <= d.len
    BY <2>1, <1>4 DEF BestFit
  <2> HIDE DEF c
  <2>3. c \in s.B /\ ~c.used /\ c.len \in Nat /\ c.lo \in Nat /\ First <= c.lo
    BY <1>3, <2>2, LaidFacts DEF FreeOf
  <2>4. fit # 0
    BY <2>2, <2>3, FirstFacts
  <2>5. Spares(h, h, Used(s.B))
    BY DEF Spares
  <2>6. Chosen(h, r, s, n, h)
    BY <1>2, <2>1, <2>2, <2>3, <2>4, <2>5 DEF Chosen, c, z
  <2>7. Reuses(s.B, s.t, After(s, n).B, After(s, n).t, z)
    BY <1>5, <2>1, <2>2, <2>3 DEF Reuses, FreeOf, c
  <2> QED
    BY <2>6, <2>7 DEF z
<1>7. CASE ~HasFit(s, n)
  <2>1. FitLists(s.L, z) = {} /\ 8 * (s.t + HP!Growth(z)) <= Start + MAX_HEAP
    BY <1>7 DEF Serves, HasFit, CanGrow, z
  <2>2. fit = 0 /\ \A c \in FreeOf(s.B) : c.len < z
    BY <2>1, <1>4 DEF BestFit
  <2>3. e = extend_heap(h, k)
    BY DEF e
  <2> HIDE DEF k
  <2>4. Lengthens(h, e, s, z)
    BY <1>1, <2>1, <2>3, LongerIs DEF k
  <2>5. Room(s, n) = Longer(s, z) /\ Choice(s, n) = LastOf(Longer(s, z))
    BY <1>7 DEF Room, Choice, z
  <2> DEFINE m == LastOf(Longer(s, z))
             l == Longer(s, z)
  <2>6. /\ Whole(e.h, l) /\ Spares(h, e.h, Used(s.B)) /\ Used(l.B) = Used(s.B)
        /\ m \in l.B /\ ~m.used /\ m.lo + m.len = l.t /\ e.p = 8 * m.lo /\ m.len \in Nat
        /\ m.len >= z /\ m.lo \in Nat /\ m.lo # 0
    BY <2>4 DEF Lengthens
  <2> HIDE DEF m, l
  <2>7. e.p # 0
    BY <2>6
  <2>8. r = [h |-> place(e.h, e.p, 8 * z), p |-> e.p]
    BY <1>2, <2>2, <2>7
  <2>9. Room(s, n) = l /\ Choice(s, n) = m
    BY <2>5 DEF m, l
  <2>10. Chosen(h, r, s, n, e.h)
    BY <2>6, <2>8, <2>9 DEF Chosen, z
  <2> DEFINE x == HP!Span(s.t, s.t + HP!Growth(z))
  <2>11. l.B = HP!Coalesce(s.B \cup {x}, x) /\ l.t = s.t + HP!Growth(z)
    BY DEF l, Longer
  <2>12. \A c \in s.B : c.used \/ c.len < z
    BY <2>2 DEF FreeOf
  <2>13. Grows(s.B, s.t, After(s, n).B, After(s, n).t, z)
    <3> HIDE DEF x
    <3>1. \E b \in l.B : /\ ~b.used /\ b.lo + b.len = l.t
                         /\ After(s, n).B = HP!Place(l.B, b, z)
      BY <1>5, <2>6, <2>9
    <3>2. After(s, n).t = s.t + HP!Growth(z)
      BY <1>5, <2>9, <2>11
    <3> QED
      BY <2>1, <2>11, <2>12, <3>1, <3>2 DEF Grows, x
  <2> QED
    BY <2>10, <2>13 DEF z
<1> QED
  BY <1>6, <1>7

LEMMA MallocIs ==
  ASSUME NEW h, NEW s, Whole(h, s), NEW n \in Nat, Serves(s, n), NEW r, r = mm_malloc(h, n)
  PROVE  Allocates(h, r, s, n)
<1>1. PICK k : Chosen(h, r, s, n, k)
  BY ChosenIs
<1> DEFINE m == Room(s, n)
           c == Choice(s, n)
           z == Size(n)
           b == Gotten(s, n)
           a == After(s, n)
<1>2. z \in Nat /\ z >= 2
  BY SizeFacts
<1>3. /\ Whole(k, m) /\ Spares(h, k, Used(s.B)) /\ Used(m.B) = Used(s.B)
      /\ c \in m.B /\ ~c.used /\ c.len >= z /\ c.len \in Nat
      /\ r.h = place(k, 8 * c.lo, 8 * z) /\ r.p = 8 * c.lo
  BY <1>1 DEF Chosen
<1>4. /\ a.B = HP!Place(m.B, c, z) /\ a.L = PlacedLists(m.L, m.B, c, z) /\ a.t = m.t
      /\ b = Got(c, z)
  BY DEF After, Placed, Gotten
<1> HIDE DEF m, c, z, b, a
<1>5. Sound(k, m.B, FreeOf(m.B), m.L, m.t) /\ HP!CoalescedIn(m.B) /\ Laid(m.B, m.t)
  BY <1>3 DEF Whole, Sound
<1>6. Placing(k, r.h, m.B, a.B, a.L, m.t, c, z)
  <2>1. PICK g, C, K : g = r.h /\ C = a.B /\ K = a.L
    OBVIOUS
  <2>2. g = place(k, 8 * c.lo, 8 * z) /\ C = HP!Place(m.B, c, z)
        /\ K = PlacedLists(m.L, m.B, c, z)
    BY <2>1, <1>3, <1>4
  <2>3. Placing(k, g, m.B, C, K, m.t, c, z)
    BY <2>2, <1>2, <1>3, <1>5, PlaceIs
  <2> QED
    BY <2>1, <2>3
<1>7. /\ Sound(r.h, a.B, FreeOf(a.B), a.L, a.t) /\ HP!CoalescedIn(a.B)
      /\ Spares(k, r.h, Used(s.B)) /\ Used(a.B) = Used(s.B) \cup {b}
  BY <1>3, <1>4, <1>6 DEF Placing
<1>8. b.lo = c.lo /\ b.used /\ b.len = IF c.len - z >= 2 THEN z ELSE c.len
  BY <1>4 DEF Got, HP!Taken
<1>9. b \notin Used(s.B)
  <2> SUFFICES ASSUME b \in Used(s.B) PROVE FALSE
    OBVIOUS
  <2>1. b \in m.B
    BY <1>3 DEF Used
  <2>2. Apart(b, c) /\ b.len \in Nat /\ b.len >= 2 /\ c.len >= 2 /\ c.lo \in Nat
    BY <2>1, <1>3, <1>5, LaidFacts
  <2> QED
    BY <2>2, <1>3, <1>8 DEF Apart
<1>10. Spares(h, r.h, Used(s.B))
  BY <1>3, <1>7, SparesTwice
<1>11. b.len \in Nat /\ b.len >= z
  BY <1>2, <1>3, <1>8
<1> QED
  BY <1>3, <1>7, <1>8, <1>9, <1>10, <1>11 DEF Allocates, Whole, a, b, z

\* mm_malloc fails only when nothing fits and the heap cannot grow.
LEMMA MallocFails ==
  ASSUME NEW h, NEW s, Whole(h, s), NEW n \in Nat, ~Serves(s, n)
  PROVE  /\ mm_malloc(h, n) = [h |-> h, p |-> 0]
         /\ n # 0 => /\ \A c \in s.B : c.used \/ c.len < Size(n)
                     /\ 8 * (s.t + HP!Growth(Size(n))) > Start + MAX_HEAP
<1> DEFINE z == Size(n)
           fit == find_fit(h, 8 * z)
           k == (IF 8 * z > CHUNKSIZE THEN 8 * z ELSE CHUNKSIZE) \div DSIZE
           e == extend_heap(h, k)
<1>1. CASE n = 0
  BY <1>1 DEF mm_malloc
<1>2. CASE n # 0
  <2>1. z \in Nat /\ z >= 2 /\ AdjustedSize(n) = 8 * z
    BY SizeFacts
  <2>2. mm_malloc(h, n) = IF fit # 0 THEN [h |-> place(h, fit, 8 * z), p |-> fit]
          ELSE IF e.p = 0 THEN [h |-> h, p |-> 0]
          ELSE [h |-> place(e.h, e.p, 8 * z), p |-> e.p]
    BY <1>2, <2>1 DEF mm_malloc
  <2>3. FitLists(s.L, z) = {} /\ ~(8 * (s.t + HP!Growth(z)) <= Start + MAX_HEAP)
    BY <1>2 DEF Serves, HasFit, CanGrow
  <2>4. Laid(s.B, s.t) /\ Sound(h, s.B, FreeOf(s.B), s.L, s.t) /\ h.brk = 8 * s.t
    BY DEF Whole, Sound, Tagged
  <2>5. s.t \in Nat /\ Start \in Nat /\ MAX_HEAP \in Nat
    BY <2>4, LaidFacts, WordFacts
  <2> HIDE DEF z, e
  <2>6. BestFit(s.B, s.L, z, fit)
    BY <2>1, <2>4, FitIs
  <2>7. fit = 0 /\ \A c \in FreeOf(s.B) : c.len < z
    BY <2>6, <2>3 DEF BestFit
  <2>8. k \in Nat /\ HP!Growth(z) = k + (k % 2)
    BY <2>1, GrowthIs
  <2> HIDE DEF k
  <2>9. h.brk + (k + (k % 2)) * 8 > Start + MAX_HEAP
    BY <2>3, <2>4, <2>5, <2>8
  <2>10. e = [h |-> h, p |-> 0]
    BY <2>9, ExtendFails DEF e
  <2>11. mm_malloc(h, n) = [h |-> h, p |-> 0]
    BY <2>2, <2>7, <2>10
  <2>12. 8 * (s.t + HP!Growth(z)) > Start + MAX_HEAP
    BY <2>3, <2>5, <2>8
  <2> QED
    BY <2>7, <2>11, <2>12 DEF FreeOf, z
<1> QED
  BY <1>1, <1>2

-----------------------------------------------------------------------------
(* mm_free.                                                                *)

WithFree(B, b) == (B \ {b}) \cup {HP!Released(b)}

Freed(s, b) ==
  LET D == WithFree(s.B, b)
  IN [B |-> HP!Coalesce(D, HP!Released(b)), L |-> MergedLists(s.L, D, HP!Released(b)), t |-> s.t]

\* What mm_free of the block b makes of h: m is the free block with b, and the
\* headers inside m are as before, but that of b is marked free.
Frees(h, g, s, b, m) ==
  LET f == Freed(s, b)
  IN /\ Whole(g, f) /\ Spares(h, g, Used(s.B) \ {b}) /\ Used(f.B) = Used(s.B) \ {b}
     /\ m \in f.B /\ ~m.used /\ m.lo <= b.lo /\ b.lo + b.len <= m.lo + m.len
     /\ \/ m.lo + m.len = b.lo + b.len
        \/ \E n \in s.B : /\ ~n.used /\ n.lo = b.lo + b.len /\ m.lo + m.len = n.lo + n.len
                          /\ g.mem[8 * n.lo - 4] = 8 * n.len
     /\ m.lo # b.lo => g.mem[8 * b.lo - 4] = 8 * b.len

\* b marked free, before it is coalesced.
Unused(h, h2, B, D, t, L, b, r) ==
  /\ Laid(D, t) /\ HP!CoalescedBut(D, r) /\ r \in D /\ ~r.used
  /\ r.lo = b.lo /\ r.len = b.len
  /\ D = (B \ {b}) \cup {r} /\ FreeOf(D) \ {r} = FreeOf(B) /\ Used(D) = Used(B) \ {b}
  /\ h2 \in Heaps /\ Tagged(h2, D, t) /\ Lists(h2, FreeOf(D) \ {r}, L)
  /\ Spares(h, h2, Used(D))

LEMMA UnusedIs ==
  ASSUME NEW h, NEW B, NEW t, NEW L, Sound(h, B, FreeOf(B), L, t), HP!CoalescedIn(B),
         NEW b \in B, b.used,
         NEW h1, h1 = Tag(h, 8 * b.lo, 8 * b.len, 0), NEW h2, h2 = NoLinks(h1, 8 * b.lo)
  PROVE  Unused(h, h2, B, WithFree(B, b), t, L, b, HP!Released(b))
<1> DEFINE r == HP!Released(b)
           D == WithFree(B, b)
<1>1. h \in Heaps /\ Laid(B, t) /\ Tagged(h, B, t) /\ Lists(h, FreeOf(B), L)
  BY DEF Sound
<1>2. D = (B \ {b}) \cup {r}
  BY DEF WithFree
<1>3. HP!Good(D, t) /\ HP!CoalescedBut(D, r) /\ ~r.used
  BY <1>1, <1>2, GoodFacts, HeapHolds, HP!ReleaseGood
<1>4. b \in HP!Block
  BY <1>1, LaidFacts
<1>5. r.lo = b.lo /\ r.len = b.len
  BY <1>4 DEF HP!Released, HP!Block
<1> HIDE DEF r, D
<1>6. Laid(D, t)
  BY <1>1, <1>2, <1>3, <1>5 DEF Laid
<1>7. r \notin B
  <2> SUFFICES ASSUME r \in B PROVE FALSE
    OBVIOUS
  <2>1. Apart(b, r) /\ b.lo \in Nat /\ b.len \in Nat /\ b.len >= 2
    BY <1>1, LaidFacts
  <2> QED
    BY <2>1, <1>3, <1>5 DEF Apart
<1>8. r \in D /\ FreeOf(D) \ {r} = FreeOf(B) /\ Used(D) = Used(B) \ {b}
  BY <1>2, <1>3, <1>7 DEF FreeOf, Used
<1>9. h1 = Tag(h, 8 * r.lo, 8 * r.len, Bit(r)) /\ h2 = NoLinks(h1, 8 * r.lo)
  BY <1>3, <1>5 DEF Bit
<1>10. r \in D
  BY <1>8
<1>11. TagWritten(h, h1, t, r)
  BY <1>1, <1>6, <1>9, <1>10, TagWrites
<1>12. h1 \in Heaps
  BY <1>11 DEF TagWritten, Rewritten
<1>13. LinksCleared(h1, h2, D, t, r)
  BY <1>6, <1>9, <1>10, <1>12, NoLinksWrites
<1>14. Rewritten(h, h2, t, {r})
  <2>1. Rewritten(h, h2, t, {r} \cup {r})
    BY <1>11, <1>13, RewrittenTwice DEF TagWritten, LinksCleared
  <2> QED
    BY <2>1
<1>15. {r} \in SUBSET D
  BY <1>10
<1>16. Tagged(h2, D, t)
  <2>1. /\ h.brk = 8 * t /\ h.mem[8 * t - 4] = 1 /\ Prologue(h)
        /\ \A c \in B : HasTags(h, c)
    BY <1>1, TaggedParts
  <2>2. \A c \in D \ {r} : HasTags(h, c)
    BY <2>1, <1>2
  <2>3. \A c \in {r} : HasTags(h2, c)
    BY <1>10, <1>11, <1>13 DEF TagWritten, LinksCleared
  <2>4. h2.brk = 8 * t /\ h2.mem[8 * t - 4] = 1
    BY <2>1, <1>11, <1>13 DEF TagWritten, LinksCleared
  <2> QED
    BY <2>1, <2>2, <2>3, <2>4, <1>6, <1>14, <1>15, RewrittenTags
<1>17. Lists(h2, FreeOf(D) \ {r}, L)
  <2>1. FreeOf(D) \ {r} \in SUBSET D /\ (FreeOf(D) \ {r}) \cap {r} = {}
    BY DEF FreeOf
  <2>2. Lists(h, FreeOf(D) \ {r}, L)
    BY <1>1, <1>8
  <2> QED
    BY <2>1, <2>2, <1>6, <1>14, <1>15, RewrittenLists
<1>18. Spares(h, h2, Used(D))
  <2>1. Used(D) \in SUBSET D /\ Used(D) \cap {r} = {}
    BY <1>3 DEF Used
  <2> QED
    BY <2>1, <1>6, <1>14, <1>15, RewrittenSpares
<1> QED
  BY <1>2, <1>3, <1>5, <1>6, <1>8, <1>14, <1>16, <1>17, <1>18 DEF Unused, Rewritten, r, D

LEMMA FreeIs ==
  ASSUME NEW h, NEW s, Whole(h, s), NEW b \in s.B, b.used, NEW g, g = mm_free(h, 8 * b.lo)
  PROVE  \E m : Frees(h, g, s, b, m)
<1> DEFINE B == s.B
           D == WithFree(B, b)
           r == HP!Released(b)
           f == Freed(s, b)
<1>1. /\ Sound(h, B, FreeOf(B), s.L, s.t) /\ HP!CoalescedIn(B)
      /\ Laid(B, s.t) /\ Tagged(h, B, s.t)
  BY DEF Whole, Sound
<1>2. PICK h1 : h1 = Tag(h, 8 * b.lo, 8 * b.len, 0)
  OBVIOUS
<1>3. PICK h2 : h2 = NoLinks(h1, 8 * b.lo)
  OBVIOUS
<1>4. Unused(h, h2, B, D, s.t, s.L, b, r)
  BY <1>1, <1>2, <1>3, UnusedIs
<1>5. f.B = HP!Coalesce(D, r) /\ f.L = MergedLists(s.L, D, r) /\ f.t = s.t
  BY DEF Freed
<1> HIDE DEF D, r, f
<1>6. /\ Laid(D, s.t) /\ HP!CoalescedBut(D, r) /\ r \in D /\ ~r.used
      /\ r.lo = b.lo /\ r.len = b.len
      /\ D = (B \ {b}) \cup {r} /\ FreeOf(D) \ {r} = FreeOf(B) /\ Used(D) = Used(B) \ {b}
      /\ h2 \in Heaps /\ Tagged(h2, D, s.t) /\ Lists(h2, FreeOf(D) \ {r}, s.L)
      /\ Spares(h, h2, Used(D))
  BY <1>4 DEF Unused
<1>7. PICK q : q = coalesce(h2, 8 * r.lo)
  OBVIOUS
<1>8. g = q.h
  <2>1. SIZE(h, 8 * b.lo) = 8 * b.len
    BY <1>1, SizeIs
  <2> QED
    BY <2>1, <1>2, <1>3, <1>6, <1>7 DEF mm_free
<1>9. PICK C, K : C = f.B /\ K = f.L
  OBVIOUS
<1>10. PICK m : Merges(h2, q, D, C, K, s.t, r, m)
  <2>1. C = HP!Coalesce(D, r) /\ K = MergedLists(s.L, D, r)
    BY <1>5, <1>9
  <2>2. /\ Laid(D, s.t) /\ r \in D /\ ~r.used
        /\ h2 \in Heaps /\ Tagged(h2, D, s.t) /\ Lists(h2, FreeOf(D) \ {r}, s.L)
    BY <1>6
  <2> QED
    BY <2>1, <2>2, <1>7, CoalesceIs
<1>11. /\ Sound(g, C, FreeOf(C), K, s.t)
       /\ m \in C /\ ~m.used
       /\ m.lo <= r.lo /\ r.lo + r.len <= m.lo + m.len
       /\ Used(C) = Used(D)
       /\ Spares(h2, g, Used(D))
       /\ \A c \in D : c.lo # m.lo => g.mem[8 * c.lo - 4] = h2.mem[8 * c.lo - 4]
  BY <1>8, <1>10 DEF Merges
<1>12. PICK n \in D : ~n.used /\ (n = r \/ n.lo = r.lo + r.len) /\ m.lo + m.len = n.lo + n.len
  BY <1>10 DEF Merges
<1>13. HP!CoalescedIn(C)
  <2>1. D \in SUBSET HP!Block /\ HP!DisjointIn(D)
    BY <1>6, GoodFacts
  <2> QED
    BY <2>1, <1>5, <1>6, <1>9, HeapHolds, HP!CoalesceCoalesces
<1>14. Whole(g, f)
  BY <1>5, <1>9, <1>11, <1>13 DEF Whole
<1>15. Spares(h, g, Used(B) \ {b})
  <2>1. Spares(h, h2, Used(D)) /\ Spares(h2, g, Used(D)) /\ Used(D) = Used(B) \ {b}
    BY <1>6, <1>11
  <2>2. Spares(h, g, Used(D))
    BY <2>1, SparesTwice
  <2> QED
    BY <2>1, <2>2
<1>16. m.lo # b.lo => g.mem[8 * b.lo - 4] = 8 * b.len
  <2>1. h2.mem[8 * r.lo - 4] = 8 * r.len + Bit(r)
    BY <1>6 DEF Tagged
  <2>2. Bit(r) = 0 /\ r.len \in Nat
    BY <1>6, LaidFacts DEF Bit
  <2> QED
    BY <2>1, <2>2, <1>6, <1>11
<1>17. \/ m.lo + m.len = b.lo + b.len
       \/ \E c \in B : /\ ~c.used /\ c.lo = b.lo + b.len /\ m.lo + m.len = c.lo + c.len
                       /\ g.mem[8 * c.lo - 4] = 8 * c.len
  <2>1. CASE n = r
    BY <2>1, <1>6, <1>12
  <2>2. CASE n # r
    <3>1. n \in B /\ n.lo = b.lo + b.len
      BY <2>2, <1>6, <1>12
    <3>2. h2.mem[8 * n.lo - 4] = 8 * n.len + Bit(n) /\ Bit(n) = 0
      BY <1>6, <1>12 DEF Tagged, Bit
    <3>3. /\ n.lo \in Nat /\ n.len \in Nat /\ n.len >= 2 /\ b.lo \in Nat /\ b.len \in Nat
          /\ b.len >= 2
      BY <1>1, <3>1, LaidFacts
    <3>4. n.lo # m.lo
      BY <1>6, <1>11, <3>1, <3>3
    <3>5. g.mem[8 * n.lo - 4] = 8 * n.len
      BY <1>11, <1>12, <3>2, <3>3, <3>4
    <3> QED
      BY <3>1, <3>5, <1>12
  <2> QED
    BY <2>1, <2>2
<1>18. Used(C) = Used(B) \ {b} /\ m.lo <= b.lo /\ b.lo + b.len <= m.lo + m.len
  BY <1>6, <1>11
<1>19. Frees(h, g, s, b, m)
  BY <1>9, <1>11, <1>14, <1>15, <1>16, <1>17, <1>18 DEF Frees, f
<1> QED
  BY <1>19

-----------------------------------------------------------------------------
(* mm_init.                                                                *)

Chunk == CHUNKSIZE \div DSIZE

Fresh ==
  LET x == HP!Span(First, First + Chunk)
  IN [B |-> HP!Coalesce({x}, x),
      L |-> MergedLists([i \in Roots |-> [n |-> 0, at |-> <<>>]], {x}, x),
      t |-> First + Chunk]

LEMMA ChunkFacts ==
  /\ Chunk \in Nat /\ Chunk >= 2 /\ 8 * Chunk = CHUNKSIZE /\ Chunk % 2 = 0
  /\ 8 * (First + Chunk) <= Start + MAX_HEAP /\ HP!Growth(1) = Chunk
<1>1. CHUNKSIZE \in Nat \ {0} /\ CHUNKSIZE % 16 = 0
  BY FirstFacts
<1>2. Chunk \in Nat /\ 8 * Chunk = CHUNKSIZE
  BY <1>1 DEF Chunk, DSIZE
<1>3. Chunk % 2 = 0 /\ Chunk >= 2
  BY <1>1, <1>2
<1>4. 8 * (First + Chunk) <= Start + MAX_HEAP
  BY <1>2, FirstFacts, WordFacts
<1>5. HP!Growth(1) = IF 1 > Chunk THEN 1 + (1 % 2) ELSE Chunk + (Chunk % 2)
  BY DEF HP!Growth, Chunk
<1> QED
  BY <1>2, <1>3, <1>4, <1>5

LEMMA ClearedFacts ==
  ASSUME NEW h \in Heaps, NEW z, z = {RootOf(i) : i \in 0 .. 10}, NEW g, g = Cleared(h, z)
  PROVE  /\ g \in Heaps /\ g.brk = h.brk /\ Prologue(g)
         /\ \A i \in Roots : g.mem[RootOf(i)] = 0
<1> DEFINE h0 == [h EXCEPT !.mem = [a \in Words |-> IF a \in z THEN 0 ELSE @[a]]]
<1>1. \A i \in 0 .. 13 : RootOf(i) \in Words /\ RootOf(i) = Start + 4 * i
  BY RootFacts
<1>2. h0 \in Heaps /\ h0.brk = h.brk /\ \A a \in z : a \in Words => h0.mem[a] = 0
  BY DEF Heaps
<1> HIDE DEF h0
<1>3. RootOf(11) \in Words /\ RootOf(12) \in Words /\ RootOf(13) \in Words
      /\ RootOf(11) = Start + 44 /\ RootOf(12) = Start + 48 /\ RootOf(13) = Start + 52
      /\ Start \in Nat /\ 9 \in Nat /\ 1 \in Nat
  BY <1>1, WordFacts
<1>4. PICK h1 : h1 = PUT(h0, RootOf(11), 9)
  OBVIOUS
<1>5. PICK h2 : h2 = PUT(h1, RootOf(12), 9)
  OBVIOUS
<1>6. PICK h3 : h3 = PUT(h2, RootOf(13), 1) /\ g = h3
  BY <1>4, <1>5 DEF Cleared, h0, DSIZE
<1>7. /\ h1 \in Heaps /\ h1.brk = h0.brk
      /\ \A c \in Words : h1.mem[c] = IF c = RootOf(11) THEN 9 ELSE h0.mem[c]
  <2>1. h0 \in Heaps /\ RootOf(11) \in Words /\ 9 \in Nat
    BY <1>2, <1>3
  <2> QED
    BY <2>1, <1>4, PutWrites
<1>8. /\ h2 \in Heaps /\ h2.brk = h1.brk
      /\ \A c \in Words : h2.mem[c] = IF c = RootOf(12) THEN 9 ELSE h1.mem[c]
  <2>1. h1 \in Heaps /\ RootOf(12) \in Words /\ 9 \in Nat
    BY <1>3, <1>7
  <2> QED
    BY <2>1, <1>5, PutWrites
<1>9. /\ g \in Heaps /\ g.brk = h2.brk
      /\ \A c \in Words : g.mem[c] = IF c = RootOf(13) THEN 1 ELSE h2.mem[c]
  <2>1. h2 \in Heaps /\ RootOf(13) \in Words /\ 1 \in Nat
    BY <1>3, <1>8
  <2>2. /\ h3 \in Heaps /\ h3.brk = h2.brk
        /\ \A c \in Words : h3.mem[c] = IF c = RootOf(13) THEN 1 ELSE h2.mem[c]
    BY <2>1, <1>6, PutWrites
  <2> QED
    BY <2>2, <1>6
<1>10. Prologue(g)
  BY <1>3, <1>7, <1>8, <1>9 DEF Prologue
<1>11. ASSUME NEW i \in Roots PROVE g.mem[RootOf(i)] = 0
  <2>1. i \in 0 .. 13 /\ i \in 0 .. 10 /\ i <= 9
    BY DEF Roots
  <2>2. RootOf(i) \in Words /\ RootOf(i) \in z /\ RootOf(i) = Start + 4 * i
    BY <2>1, <1>1
  <2>3. RootOf(i) # RootOf(11) /\ RootOf(i) # RootOf(12) /\ RootOf(i) # RootOf(13)
    BY <2>1, <2>2, <1>3
  <2>4. h0.mem[RootOf(i)] = 0
    BY <2>2, <1>2
  <2> QED
    BY <2>2, <2>3, <2>4, <1>7, <1>8, <1>9
<1> QED
  BY <1>2, <1>7, <1>8, <1>9, <1>10, <1>11

LEMMA InitIs ==
  ASSUME NEW mem \in [Words -> Nat], NEW g, g = mm_init(mem)
  PROVE  /\ Whole(g, Fresh) /\ Used(Fresh.B) = {}
         /\ Fresh.B = {HP!Span(First, First + Chunk)} /\ Fresh.t = First + Chunk
<1> DEFINE h == [mem |-> mem, brk |-> Start + 14 * WSIZE]
           z == {RootOf(i) : i \in 0 .. 10}
           u == First + Chunk
           x == HP!Span(First, u)
           D == {x}
           L == [i \in Roots |-> [n |-> 0, at |-> <<>>]]
<1>1. h \in Heaps /\ h.brk = 8 * First
  BY FirstFacts, WordFacts DEF Heaps, WSIZE
<1>2. PICK h1 : h1 = Cleared(h, z)
  OBVIOUS
<1>3. /\ h1 \in Heaps /\ h1.brk = 8 * First /\ Prologue(h1)
      /\ \A i \in Roots : h1.mem[RootOf(i)] = 0
  <2>1. PICK y : y = h
    OBVIOUS
  <2>2. y \in Heaps /\ y.brk = 8 * First /\ h1 = Cleared(y, z)
    BY <2>1, <1>1, <1>2
  <2> HIDE DEF h
  <2> QED
    BY <2>2, ClearedFacts
<1>4. PICK r : r = extend_heap(h1, Chunk)
  OBVIOUS
<1>5. g = r.h
  BY <1>2, <1>4 DEF mm_init, Chunk
<1>6. /\ First \in Nat /\ Chunk \in Nat /\ Chunk >= 2 /\ Chunk % 2 = 0 /\ First > 7
      /\ 8 * u <= Start + MAX_HEAP
  BY ChunkFacts, FirstFacts
<1>7. x.lo = First /\ x.len = Chunk /\ ~x.used
  <2>1. x.lo = First /\ x.len = u - First /\ ~x.used
    BY DEF HP!Span
  <2> QED
    BY <2>1, <1>6
<1>8. HP!Good(D, u) /\ HP!CoalescedIn(D)
  <2>1. u \in Nat /\ First < u
    BY <1>6
  <2> HIDE DEF u
  <2>2. HP!Good({HP!Span(FirstBlock \div DSIZE, u)}, u)
        /\ HP!CoalescedIn({HP!Span(FirstBlock \div DSIZE, u)})
    BY <2>1, HeapHolds, HP!OneBlockGood DEF First
  <2> QED
    BY <2>2 DEF First
<1> HIDE DEF x, h
<1>9. u \in Nat /\ x.lo + x.len = u /\ h1.brk = 8 * x.lo /\ x.len = Chunk + (Chunk % 2)
  BY <1>3, <1>6, <1>7
<1> HIDE DEF u
<1>10. Laid(D, u)
  BY <1>6, <1>7, <1>8, <1>9 DEF Laid
<1>11. FreeOf(D) \ {x} = {} /\ \A b \in D \ {x} : HasTags(h1, b)
  BY DEF FreeOf
<1>12. Lists(h1, {}, L)
  <2>1. \A i \in Roots : Chain(h1, i, L[i])
    BY <1>3 DEF Chain, Addr
  <2>2. \A i \in Roots : Order(i, L[i], {})
    BY DEF Order
  <2> QED
    BY <2>1, <2>2 DEF Lists
<1>13. PICK C, K : C = HP!Coalesce(D, x) /\ K = MergedLists(L, D, x)
  OBVIOUS
<1>14. x \in D
  OBVIOUS
<1>15. Fresh.B = C /\ Fresh.L = K /\ Fresh.t = u
  BY <1>13 DEF Fresh, x, u
<1> HIDE DEF L
<1>16. Lists(h1, FreeOf(D) \ {x}, L)
  BY <1>11, <1>12
<1>17. PICK m : Extends(h1, r, D, C, K, u, x, m)
  <2> HIDE DEF D
  <2> QED
    BY <1>3, <1>4, <1>6, <1>7, <1>9, <1>10, <1>11, <1>13, <1>14, <1>16, ExtendIs
<1>18. /\ Sound(g, C, FreeOf(C), K, u) /\ Used(C) = Used(D)
  BY <1>5, <1>17 DEF Extends
<1>19. Used(D) = {}
  BY <1>7 DEF Used
<1>20. C = D
  <2>1. HP!FreeBefore(D, x) = {} /\ HP!FreeAfter(D, x) = {}
    <3>1. ~HP!Adjacent(x, x)
      BY <1>6, <1>7, <1>9 DEF HP!Adjacent, HP!End
    <3> QED
      BY <3>1 DEF HP!FreeBefore, HP!FreeAfter
  <2>2. HP!End(x) = u
    BY <1>9 DEF HP!End
  <2>3. HP!Coalesce(D, x) = (D \ ({x} \cup {} \cup {})) \cup {HP!Span(x.lo, u)}
    BY <2>1, <2>2 DEF HP!Coalesce
  <2>4. HP!Span(x.lo, u) = x
    BY <1>7 DEF x
  <2> QED
    BY <2>3, <2>4, <1>13
<1>21. HP!CoalescedIn(C)
  BY <1>8, <1>20
<1>22. C = {HP!Span(First, First + Chunk)}
  BY <1>20 DEF x, u
<1> QED
  BY <1>15, <1>18, <1>19, <1>21, <1>22 DEF Whole, u

-----------------------------------------------------------------------------
(* Walks.                                                                  *)

\* A function that is defined by what comes next.
Iteration(f, x) == CHOOSE g : g = [k \in Nat |-> IF k = 0 THEN x ELSE f[g[k - 1]]]

LEMMA Iterates ==
  ASSUME NEW f, NEW x, NEW n, n = Iteration(f, x)
  PROVE  n[0] = x /\ \A k \in Nat : n[k + 1] = f[n[k]]
<1> DEFINE Upto(g, m) == g = [k \in 0 .. m |-> IF k = 0 THEN x ELSE f[g[k - 1]]]
           All(g) == g = [k \in Nat |-> IF k = 0 THEN x ELSE f[g[k - 1]]]
           T == {m \in Nat : \E g : Upto(g, m)}
           Same(m) == \A g, d : Upto(g, m) /\ Upto(d, m + 1) => g[m] = d[m]
<1>1. T = Nat
  <2>1. 0 \in T
    <3> DEFINE g == [k \in 0 .. 0 |-> x]
    <3>1. Upto(g, 0)
      OBVIOUS
    <3> QED
      BY <3>1
  <2>2. ASSUME NEW m \in T PROVE m + 1 \in T
    <3>1. PICK g : Upto(g, m)
      OBVIOUS
    <3> DEFINE d == [k \in 0 .. m + 1 |-> IF k <= m THEN g[k] ELSE f[g[m]]]
    <3>2. m \in Nat
      OBVIOUS
    <3>3. \A k \in 0 .. m : g[k] = IF k = 0 THEN x ELSE f[g[k - 1]]
      BY <3>1
    <3>4. \A k \in 0 .. m + 1 : d[k] = IF k = 0 THEN x ELSE f[d[k - 1]]
      <4> TAKE k \in 0 .. m + 1
      <4>1. CASE k <= m
        <5>1. k \in 0 .. m /\ (k # 0 => k - 1 \in 0 .. m + 1 /\ k - 1 <= m)
          BY <3>2, <4>1
        <5> QED
          BY <5>1, <3>3, <4>1
      <4>2. CASE ~(k <= m)
        <5>1. k = m + 1 /\ k # 0 /\ k - 1 = m /\ m \in 0 .. m + 1
          BY <3>2, <4>2
        <5> QED
          BY <5>1, <3>2
      <4> QED
        BY <4>1, <4>2
    <3>5. Upto(d, m + 1)
      BY <3>4
    <3> HIDE DEF d
    <3>6. \E e : Upto(e, m + 1)
      BY <3>5
    <3> QED
      BY <3>2, <3>6
  <2> HIDE DEF T
  <2>3. T \in SUBSET Nat
    BY DEF T
  <2> QED
    BY <2>1, <2>2, <2>3, InductionOnNat
<1>2. ASSUME NEW m \in Nat, NEW g, NEW d, Upto(g, m), Upto(d, m + 1) PROVE g[m] = d[m]
  <2> DEFINE E == {k \in Nat : k <= m => g[k] = d[k]}
  <2>1. \A k \in 0 .. m : g[k] = IF k = 0 THEN x ELSE f[g[k - 1]]
    BY <1>2
  <2>2. \A k \in 0 .. m + 1 : d[k] = IF k = 0 THEN x ELSE f[d[k - 1]]
    BY <1>2
  <2>3. 0 \in E
    BY <2>1, <2>2
  <2>4. ASSUME NEW k \in E PROVE k + 1 \in E
    <3>1. k \in Nat /\ (k + 1) - 1 = k /\ k + 1 # 0 /\ k + 1 \in Nat
      OBVIOUS
    <3>2. CASE k + 1 <= m
      <4>1. k + 1 \in 0 .. m /\ k + 1 \in 0 .. m + 1 /\ k <= m
        BY <3>1, <3>2
      <4>2. g[k] = d[k] /\ g[k + 1] = f[g[k]] /\ d[k + 1] = f[d[k]]
        BY <4>1, <3>1, <2>1, <2>2
      <4> QED
        BY <4>2, <3>1
    <3>3. CASE ~(k + 1 <= m)
      BY <3>1, <3>3
    <3> QED
      BY <3>2, <3>3
  <2> HIDE DEF E
  <2>5. E = Nat
    <3>1. E \in SUBSET Nat
      BY DEF E
    <3> QED
      BY <3>1, <2>3, <2>4, InductionOnNat
  <2> QED
    BY <2>5 DEF E
<1> DEFINE G(m) == CHOOSE g : Upto(g, m)
           w == [k \in Nat |-> G(k)[k]]
<1>3. \A m \in Nat : Upto(G(m), m)
  BY <1>1
<1>4. w[0] = x
  <2>1. Upto(G(0), 0) /\ 0 \in 0 .. 0
    BY <1>3
  <2> HIDE DEF G
  <2>2. G(0)[0] = x
    BY <2>1
  <2> QED
    BY <2>2
<1>5. ASSUME NEW k \in Nat PROVE w[k + 1] = f[w[k]]
  <2>0. k + 1 \in Nat
    OBVIOUS
  <2> HIDE DEF G, Upto
  <2>1. Upto(G(k), k) /\ Upto(G(k + 1), k + 1) /\ k + 1 \in Nat
    BY <1>3, <2>0
  <2> USE DEF Upto
  <2>2. G(k)[k] = G(k + 1)[k]
    BY <1>2, <2>1
  <2>3. k + 1 \in 0 .. k + 1 /\ k + 1 # 0 /\ (k + 1) - 1 = k
    OBVIOUS
  <2>4. G(k + 1)[k + 1] = f[G(k + 1)[k]]
    BY <2>1, <2>3
  <2> QED
    BY <2>1, <2>2, <2>4
<1> HIDE DEF G
<1>6. All(w)
  <2>1. ASSUME NEW k \in Nat, k # 0 PROVE w[k] = f[w[k - 1]]
    <3>1. k - 1 \in Nat /\ (k - 1) + 1 = k
      BY <2>1
    <3> HIDE DEF w
    <3> QED
      BY <3>1, <1>5
  <2> DEFINE v == [k \in Nat |-> IF k = 0 THEN x ELSE f[w[k - 1]]]
  <2>2. \A k \in Nat : w[k] = v[k]
    BY <2>1, <1>4
  <2>3. w = [k \in Nat |-> w[k]]
    OBVIOUS
  <2> QED
    BY <2>2, <2>3
<1> HIDE DEF w
<1>7. All(n)
  <2>1. n = CHOOSE g : All(g)
    BY DEF Iteration
  <2> HIDE DEF All
  <2> QED
    BY <1>6, <2>1
<1>8. n[0] = x
  BY <1>7
<1>9. ASSUME NEW k \in Nat PROVE n[k + 1] = f[n[k]]
  <2>1. k + 1 \in Nat /\ k + 1 # 0 /\ (k + 1) - 1 = k
    OBVIOUS
  <2>2. n[k + 1] = [j \in Nat |-> IF j = 0 THEN x ELSE f[n[j - 1]]][k + 1]
    BY <1>7
  <2> QED
    BY <2>1, <2>2
<1> QED
  BY <1>8, <1>9

\* A walk of MaxLen steps passes the whole heap.
LEMMA WalkLength ==
  ASSUME NEW t \in Nat, 8 * t <= Start + MAX_HEAP, NEW q \in Nat, q = t \/ q >= First + 2 * MaxLen,
         q <= t
  PROVE  q = t
<1>1. /\ MaxLen \in Nat /\ MaxLen = MAX_HEAP \div 16 /\ MAX_HEAP \in Nat /\ Start \in Nat
      /\ First \in Nat /\ 8 * First = Start + 56
  BY MaxLenFacts, WordFacts, FirstFacts
<1>2. 16 * MaxLen + 16 > MAX_HEAP
  BY <1>1
<1> QED
  BY <1>1, <1>2

\* From a block the walk goes to the next one, or to the end of the heap.
LEMMA NextIs ==
  ASSUME NEW h, NEW B, NEW t, Laid(B, t), Tagged(h, B, t), NEW b \in B
  PROVE  /\ NEXT_BLKP(h, 8 * b.lo) = 8 * (b.lo + b.len)
         /\ b.lo + b.len = t \/ \E c \in B : c.lo = b.lo + b.len
         /\ b.lo + b.len <= t /\ ~(8 * b.lo > h.brk - 1)
<1>1. /\ b.lo \in Nat /\ b.len \in Nat /\ b.len >= 2 /\ b.lo + b.len <= t /\ t \in Nat
      /\ SIZE(h, 8 * b.lo) = 8 * b.len /\ h.brk = 8 * t
  BY LaidFacts, SizeIs DEF Tagged
<1>2. b.lo + b.len = t \/ \E c \in B : c.lo = b.lo + b.len
  BY GoodFacts
<1> QED
  BY <1>1, <1>2 DEF NEXT_BLKP

LEMMA WalkIs ==
  ASSUME NEW h, NEW B, NEW t, Laid(B, t), Tagged(h, B, t)
  PROVE  Walk(h) = {8 * b.lo : b \in B}
<1> DEFINE f == NextOnWalk(h)
           n == CHOOSE g : g = [k \in Nat |-> IF k = 0 THEN FirstBlock ELSE f[g[k - 1]]]
<1>1. Walk(h) = {n[k] : k \in 0 .. MaxLen} \cap (0 .. h.brk - 1)
  BY DEF Walk
<1>2. PICK w : w = n
  OBVIOUS
<1> HIDE DEF f
<1>3. w[0] = FirstBlock /\ \A k \in Nat : w[k + 1] = f[w[k]]
  <2>1. PICK F, x : F = f /\ x = FirstBlock
    OBVIOUS
  <2>2. w = Iteration(F, x)
    BY <1>2, <2>1 DEF Iteration
  <2> HIDE DEF n
  <2>3. w[0] = x /\ \A k \in Nat : w[k + 1] = F[w[k]]
    BY ONLY <2>2, Iterates
  <2> QED
    BY <2>1, <2>3
<1> HIDE DEF n
<1>4. /\ t \in Nat /\ First < t /\ First \in Nat /\ 8 * First = FirstBlock /\ h.brk = 8 * t
      /\ 8 * t <= Start + MAX_HEAP /\ MaxLen \in Nat
      /\ \A b \in B : /\ b.lo \in Nat /\ b.len \in Nat /\ b.len >= 2
                      /\ First <= b.lo /\ b.lo + b.len <= t
      /\ \A b, c \in B : Apart(b, c)
  BY LaidFacts, FirstFacts, MaxLenFacts DEF Tagged
<1> DEFINE At(k, q) == /\ w[k] = 8 * q /\ q <= t
                       /\ q = t \/ \E b \in B : b.lo = q
                       /\ q = t \/ q >= First + 2 * k
                       /\ \A b \in B : b.lo < q => \E j \in 0 .. k : w[j] = 8 * b.lo
           T == {k \in Nat : \E q \in Nat : At(k, q)}
<1>5. 0 \in T
  <2>1. \E b \in B : b.lo = First
    BY GoodFacts
  <2>2. \A b \in B : ~(b.lo < First)
    BY <1>4
  <2>3. At(0, First)
    BY <1>3, <1>4, <2>1, <2>2
  <2> QED
    BY <2>3, <1>4
<1>6. ASSUME NEW k \in T PROVE k + 1 \in T
  <2>1. k \in Nat /\ k + 1 \in Nat
    OBVIOUS
  <2>2. PICK q \in Nat : At(k, q)
    OBVIOUS
  <2>3. w[k + 1] = f[w[k]] /\ w[k] \in Nat
    BY <2>1, <2>2, <1>3
  <2>4. f[w[k]] = IF w[k] > h.brk - 1 THEN w[k] ELSE NEXT_BLKP(h, w[k])
    BY <2>3 DEF f, NextOnWalk
  <2>5. CASE q = t
    <3>1. w[k + 1] = 8 * t
      BY <2>2, <2>3, <2>4, <2>5, <1>4
    <3>2. \A b \in B : b.lo < t => \E j \in 0 .. k + 1 : w[j] = 8 * b.lo
      <4>1. \A j \in 0 .. k : j \in 0 .. k + 1
        BY <2>1
      <4> QED
        BY <4>1, <2>2, <2>5
    <3>3. At(k + 1, t)
      BY <3>1, <3>2, <1>4
    <3> QED
      BY <3>3, <2>1, <1>4
  <2>6. CASE q # t
    <3>1. PICK b \in B : b.lo = q
      BY <2>2, <2>6
    <3>2. /\ NEXT_BLKP(h, 8 * b.lo) = 8 * (b.lo + b.len)
          /\ b.lo + b.len = t \/ \E c \in B : c.lo = b.lo + b.len
          /\ b.lo + b.len <= t /\ ~(8 * b.lo > h.brk - 1)
      BY NextIs
    <3> DEFINE e == b.lo + b.len
    <3>3. w[k + 1] = 8 * e
      BY <2>2, <2>3, <2>4, <3>1, <3>2
    <3>4. e \in Nat /\ (e = t \/ e >= First + 2 * (k + 1))
      BY <2>1, <2>2, <2>6, <3>1, <1>4
    <3>5. \A c \in B : c.lo < e => \E j \in 0 .. k + 1 : w[j] = 8 * c.lo
      <4> SUFFICES ASSUME NEW c \in B, c.lo < e PROVE \E j \in 0 .. k + 1 : w[j] = 8 * c.lo
        OBVIOUS
      <4>1. CASE c.lo < q
        <5>1. PICK j \in 0 .. k : w[j] = 8 * c.lo
          BY <4>1, <2>2
        <5>2. j \in 0 .. k + 1
          BY <2>1
        <5> QED
          BY <5>1, <5>2
      <4>2. CASE ~(c.lo < q)
        <5>1. c = b
          BY <4>2, <3>1, <1>4 DEF Apart
        <5>2. w[k] = 8 * c.lo /\ k \in 0 .. k + 1
          BY <5>1, <3>1, <2>1, <2>2
        <5> QED
          BY <5>2
      <4> QED
        BY <4>1, <4>2
    <3>6. At(k + 1, e)
      BY <3>2, <3>3, <3>4, <3>5
    <3> HIDE DEF At
    <3> QED
      BY <3>4, <3>6, <2>1
  <2> QED
    BY <2>5, <2>6
<1>7. T = Nat
  <2> HIDE DEF T
  <2>1. T \in SUBSET Nat
    BY DEF T
  <2> QED
    BY <2>1, <1>5, <1>6, InductionOnNat
<1>8. \A k \in Nat : \E q \in Nat : At(k, q)
  BY <1>7
<1>9. ASSUME NEW b \in B PROVE 8 * b.lo \in Walk(h)
  <2>1. PICK q \in Nat : At(MaxLen, q)
    BY <1>4, <1>8
  <2>2. q = t
    BY <2>1, <1>4, WalkLength
  <2>3. b.lo < t /\ 8 * b.lo \in 0 .. h.brk - 1
    BY <1>4
  <2>4. PICK j \in 0 .. MaxLen : w[j] = 8 * b.lo
    BY <2>1, <2>2, <2>3
  <2> QED
    BY <2>3, <2>4, <1>1, <1>2
<1>10. ASSUME NEW p \in Walk(h) PROVE \E b \in B : p = 8 * b.lo
  <2>1. PICK k \in 0 .. MaxLen : p = w[k] /\ p \in 0 .. h.brk - 1
    BY <1>1, <1>2
  <2>4. k \in Nat
    BY <1>4
  <2>2. PICK q \in Nat : At(k, q)
    BY <1>8, <2>4
  <2>3. q # t
    BY <2>1, <2>2, <1>4
  <2> QED
    BY <2>1, <2>2, <2>3
<1> QED
  BY <1>9, <1>10

-----------------------------------------------------------------------------
(* The range list.                                                         *)

Interval == [lo : Nat, hi : Nat]

Entries(rs) == {rs[k] : k \in 1 .. Len(rs)}

StartsDiffer(rs) == \A k, l \in 1 .. Len(rs) : rs[k].lo = rs[l].lo => k = l

LEMMA RemoveAtFacts ==
  ASSUME NEW S, NEW s \in Seq(S), NEW i \in 1 .. Len(s)
  PROVE  /\ RemoveAt(s, i) \in Seq(S)
         /\ Len(RemoveAt(s, i)) = Len(s) - 1
         /\ \A k \in 1 .. Len(s) - 1 :
              RemoveAt(s, i)[k] = s[IF k < i THEN k ELSE k + 1]
<1> DEFINE a == SubSeq(s, 1, i - 1)
           b == SubSeq(s, i + 1, Len(s))
<1>0. Len(s) \in Nat /\ \A k \in 1 .. Len(s) : s[k] \in S
  BY LenProperties
<1>1. /\ a \in Seq(S) /\ Len(a) = i - 1
      /\ \A k \in 1 .. i - 1 : a[k] = s[k]
  BY <1>0, SubSeqProperties
<1>2. /\ b \in Seq(S) /\ Len(b) = Len(s) - i
      /\ \A k \in 1 .. Len(s) - i : b[k] = s[k + i]
  <2>1. \A k \in i + 1 .. Len(s) : s[k] \in S
    BY <1>0
  <2>2. /\ b \in Seq(S)
        /\ Len(b) = IF i + 1 <= Len(s) THEN Len(s) - (i + 1) + 1 ELSE 0
        /\ \A k \in 1 .. Len(s) - (i + 1) + 1 : b[k] = s[(i + 1) + k - 1]
    BY <1>0, <2>1, SubSeqProperties
  <2> QED
    BY <1>0, <2>2
<1> HIDE DEF a, b
<1>3. /\ a \o b \in Seq(S)
      /\ Len(a \o b) = Len(a) + Len(b)
      /\ \A k \in 1 .. Len(a) + Len(b) :
           (a \o b)[k] = IF k <= Len(a) THEN a[k] ELSE b[k - Len(a)]
  BY <1>1, <1>2, ConcatProperties
<1>4. RemoveAt(s, i) = a \o b
  BY DEF RemoveAt, a, b
<1>5. ASSUME NEW k \in 1 .. Len(s) - 1
      PROVE  (a \o b)[k] = s[IF k < i THEN k ELSE k + 1]
  <2>1. CASE k < i
    BY <2>1, <1>0, <1>1, <1>2, <1>3
  <2>2. CASE ~(k < i)
    <3>1. (a \o b)[k] = b[k - (i - 1)] /\ k - (i - 1) \in 1 .. Len(s) - i
      BY <2>2, <1>0, <1>1, <1>2, <1>3
    <3> QED
      BY <3>1, <2>2, <1>0, <1>2
  <2> QED
    BY <2>1, <2>2
<1>6. Len(a) + Len(b) = Len(s) - 1
  BY <1>0, <1>1, <1>2
<1> QED
  BY <1>3, <1>4, <1>5, <1>6

LEMMA InFrontFacts ==
  ASSUME NEW S, NEW e \in S, NEW s \in Seq(S)
  PROVE  /\ <<e>> \o s \in Seq(S)
         /\ Len(<<e>> \o s) = Len(s) + 1
         /\ (<<e>> \o s)[1] = e
         /\ \A k \in 2 .. Len(s) + 1 : (<<e>> \o s)[k] = s[k - 1]
<1>1. <<e>> \in Seq(S) /\ Len(<<e>>) = 1 /\ <<e>>[1] = e /\ Len(s) \in Nat
  BY LenProperties
<1>2. /\ <<e>> \o s \in Seq(S)
      /\ Len(<<e>> \o s) = Len(<<e>>) + Len(s)
      /\ \A k \in 1 .. Len(<<e>>) + Len(s) :
           (<<e>> \o s)[k] = IF k <= Len(<<e>>) THEN <<e>>[k] ELSE s[k - Len(<<e>>)]
  BY <1>1, ConcatProperties
<1> QED
  BY <1>1, <1>2

\* remove_range takes out a range that starts at lo, if there is one.
LEMMA RemovedParts ==
  ASSUME NEW rs \in Seq(Interval), NEW lo
  PROVE  \/ Removed(rs, lo) = rs /\ \A i \in 1 .. Len(rs) : rs[i].lo # lo
         \/ \E i \in 1 .. Len(rs) : Removed(rs, lo) = RemoveAt(rs, i) /\ rs[i].lo = lo
<1> DEFINE I == {i \in 1 .. Len(rs) : rs[i].lo = lo}
           m == Min(I)
<1>1. Removed(rs, lo) = IF (IF I # {} THEN m ELSE 0) = 0 THEN rs
                        ELSE RemoveAt(rs, IF I # {} THEN m ELSE 0)
  BY DEF Removed, SelectInSeq
<1>2. CASE I = {}
  BY <1>1, <1>2
<1>3. CASE I # {}
  <2>1. Len(rs) \in Nat /\ I \in SUBSET Nat
    BY LenProperties
  <2>2. PICK i \in I : \A j \in I : i <= j
    BY <2>1, <1>3, LeastNatural
  <2>3. m \in I
    BY <2>2 DEF Min
  <2>4. m \in 1 .. Len(rs) /\ rs[m].lo = lo
    BY <2>3
  <2>5. Removed(rs, lo) = RemoveAt(rs, m)
    BY <1>1, <1>3, <2>1, <2>4
  <2> QED
    BY <2>4, <2>5
<1> QED
  BY <1>2, <1>3

\* What is left in the list when one range is taken out ...
LEMMA RemovedEntries ==
  ASSUME NEW rs \in Seq(Interval), NEW lo, StartsDiffer(rs)
  PROVE  /\ Entries(Removed(rs, lo)) = {r \in Entries(rs) : r.lo # lo}
         /\ StartsDiffer(Removed(rs, lo))
<1>1. Len(rs) \in Nat
  BY LenProperties
<1>2. CASE Removed(rs, lo) = rs /\ \A i \in 1 .. Len(rs) : rs[i].lo # lo
  BY <1>2 DEF Entries
<1>3. ASSUME NEW i \in 1 .. Len(rs), Removed(rs, lo) = RemoveAt(rs, i), rs[i].lo = lo
      PROVE  /\ Entries(Removed(rs, lo)) = {r \in Entries(rs) : r.lo # lo}
             /\ StartsDiffer(Removed(rs, lo))
  <2> DEFINE t == RemoveAt(rs, i)
             Old(k) == IF k < i THEN k ELSE k + 1
  <2>1. /\ Len(t) = Len(rs) - 1
        /\ \A k \in 1 .. Len(t) : t[k] = rs[Old(k)]
    BY <1>1, RemoveAtFacts
  <2>2. /\ \A k \in 1 .. Len(t) : Old(k) \in 1 .. Len(rs) /\ Old(k) # i
        /\ \A k, l \in 1 .. Len(t) : Old(k) = Old(l) => k = l
        /\ \A k \in 1 .. Len(rs) : k # i => \E l \in 1 .. Len(t) : Old(l) = k
    <3>1. ASSUME NEW k \in 1 .. Len(rs), k # i
          PROVE  \E l \in 1 .. Len(t) : Old(l) = k
      <4> DEFINE l == IF k < i THEN k ELSE k - 1
      <4>1. l \in 1 .. Len(t) /\ Old(l) = k
        BY <3>1, <2>1, <1>1
      <4> QED
        BY <4>1
    <3> QED
      BY <3>1, <2>1, <1>1
  <2> HIDE DEF t, Old
  <2>3. StartsDiffer(t)
    BY <2>1, <2>2 DEF StartsDiffer
  <2>4. ASSUME NEW k \in 1 .. Len(t)
        PROVE  t[k] \in Entries(rs) /\ t[k].lo # lo
    <3>1. Old(k) \in 1 .. Len(rs) /\ Old(k) # i /\ t[k] = rs[Old(k)]
      BY <2>1, <2>2
    <3>2. rs[Old(k)].lo # rs[i].lo
      BY <3>1 DEF StartsDiffer
    <3> QED
      BY <3>1, <3>2, <1>3 DEF Entries
  <2>5. ASSUME NEW k \in 1 .. Len(rs), rs[k].lo # lo
        PROVE  rs[k] \in Entries(t)
    <3>1. PICK l \in 1 .. Len(t) : Old(l) = k
      BY <2>2, <2>5, <1>3
    <3> QED
      BY <3>1, <2>1 DEF Entries
  <2>6. Entries(t) = {r \in Entries(rs) : r.lo # lo}
    BY <2>4, <2>5 DEF Entries
  <2> QED
    BY <2>3, <2>6, <1>3 DEF t
<1> QED
  BY <1>2, <1>3, RemovedParts

LEMMA EmptyEntries ==
  ASSUME NEW rs \in Seq(Interval)
  PROVE  Entries(rs) = {} <=> rs = <<>>
<1>1. Len(rs) \in Nat /\ (rs # <<>> => Len(rs) \in Nat \ {0})
  BY EmptySeq
<1>2. CASE rs = <<>>
  BY <1>2 DEF Entries
<1>3. CASE rs # <<>>
  <2>1. 1 \in 1 .. Len(rs)
    BY <1>1, <1>3
  <2> QED
    BY <2>1, <1>3 DEF Entries
<1> QED
  BY <1>2, <1>3

\* Every range starts at a block of U, and no two at the same one.
Ranged(rs, U) ==
  /\ rs \in Seq(Interval) /\ StartsDiffer(rs)
  /\ \A r \in Entries(rs) : \E b \in U : r.lo = 8 * b.lo

LEMMA RangedWithout ==
  ASSUME NEW rs, NEW U, Ranged(rs, U), NEW b, NEW z, z = Removed(rs, 8 * b.lo)
  PROVE  Ranged(z, U \ {b})
<1>1. rs \in Seq(Interval) /\ StartsDiffer(rs)
  BY DEF Ranged
<1>2. /\ Entries(z) = {r \in Entries(rs) : r.lo # 8 * b.lo}
      /\ StartsDiffer(z)
  BY <1>1, RemovedEntries
<1>3. z \in Seq(Interval)
  <2>1. CASE z = rs
    BY <2>1, <1>1
  <2>2. ASSUME NEW i \in 1 .. Len(rs), z = RemoveAt(rs, i) PROVE z \in Seq(Interval)
    BY <2>2, <1>1, RemoveAtFacts
  <2> QED
    BY <2>1, <2>2, <1>1, RemovedParts
<1>4. ASSUME NEW r \in Entries(z) PROVE \E c \in U \ {b} : r.lo = 8 * c.lo
  <2>1. r \in Entries(rs) /\ r.lo # 8 * b.lo
    BY <1>2
  <2>2. PICK c \in U : r.lo = 8 * c.lo
    BY <2>1 DEF Ranged
  <2> QED
    BY <2>1, <2>2
<1> QED
  BY <1>2, <1>3, <1>4 DEF Ranged

LEMMA RangedNone ==
  ASSUME NEW rs, Ranged(rs, {})
  PROVE  rs = <<>>
<1>1. Entries(rs) = {}
  BY DEF Ranged
<1> QED
  BY <1>1, EmptyEntries DEF Ranged

-----------------------------------------------------------------------------
(* mm_exit.                                                                *)

\* The walk stands inside a free block, on a header that is left from before
\* and that leads to its end.
Stale(h, B, q) ==
  \E m \in B : /\ ~m.used /\ m.lo < q /\ q + 2 <= m.lo + m.len
               /\ h.mem[8 * q - 4] = 8 * (m.lo + m.len - q)

On(h, s, q) == q = s.t \/ (\E b \in s.B : b.lo = q) \/ Stale(h, s.B, q)

\* The walk has come to q: every block in use is still ahead, and the ranges
\* are theirs.
Exiting(x, s, q) ==
  /\ Whole(x.h, s) /\ q \in Nat /\ q <= s.t /\ x.p = 8 * q
  /\ On(x.h, s, q)
  /\ \A b \in Used(s.B) : q <= b.lo
  /\ Ranged(x.ranges, Used(s.B))

LEMMA WholeFacts ==
  ASSUME NEW h, NEW s, Whole(h, s)
  PROVE  /\ h \in Heaps /\ Laid(s.B, s.t) /\ Tagged(h, s.B, s.t) /\ h.brk = 8 * s.t
         /\ s.t \in Nat
         /\ \A b \in s.B : /\ b.lo \in Nat /\ b.len \in Nat /\ b.len >= 2
                           /\ b.used \in BOOLEAN
                           /\ First <= b.lo /\ b.lo + b.len <= s.t
         /\ \A b, c \in s.B : Apart(b, c)
         /\ \A b \in s.B : b.lo + b.len = s.t \/ \E c \in s.B : c.lo = b.lo + b.len
<1>1. h \in Heaps /\ Laid(s.B, s.t) /\ Tagged(h, s.B, s.t)
  BY DEF Whole, Sound
<1>2. \A b \in s.B : b.lo + b.len = s.t \/ \E c \in s.B : c.lo = b.lo + b.len
  BY <1>1, GoodFacts
<1> QED
  BY <1>1, <1>2, LaidFacts DEF Tagged

\* What the walk makes of x, and where it goes on.
Moves(x, y, s, q, z, e) ==
  Exiting(y, z, e) /\ z.t = s.t /\ e >= q + 2

\* On a block in use.
LEMMA ExitFrees ==
  ASSUME NEW x, NEW s, NEW q, Exiting(x, s, q), NEW b \in s.B, b.used, b.lo = q,
         NEW g, g = mm_free(x.h, x.p),
         NEW y, y = [h |-> g, p |-> NEXT_BLKP(g, x.p), ranges |-> Removed(x.ranges, x.p)]
  PROVE  \E z, e : Moves(x, y, s, q, z, e)
<1>1. /\ Whole(x.h, s) /\ x.p = 8 * b.lo /\ q \in Nat
      /\ \A c \in Used(s.B) : q <= c.lo
      /\ Ranged(x.ranges, Used(s.B))
  BY DEF Exiting
<1>2. PICK h : h = x.h
  OBVIOUS
<1>3. Whole(h, s) /\ g = mm_free(h, 8 * b.lo)
  BY <1>1, <1>2
<1>4. PICK m : Frees(h, g, s, b, m)
  BY <1>3, FreeIs
<1>5. PICK z : z = Freed(s, b)
  OBVIOUS
<1>6. /\ Whole(g, z) /\ Used(z.B) = Used(s.B) \ {b}
      /\ m \in z.B /\ ~m.used /\ m.lo <= b.lo /\ b.lo + b.len <= m.lo + m.len
      /\ \/ m.lo + m.len = b.lo + b.len
         \/ \E n \in s.B : /\ ~n.used /\ n.lo = b.lo + b.len /\ m.lo + m.len = n.lo + n.len
                           /\ g.mem[8 * n.lo - 4] = 8 * n.len
      /\ m.lo # b.lo => g.mem[8 * b.lo - 4] = 8 * b.len
  BY <1>4, <1>5 DEF Frees
<1>7. z.t = s.t
  BY <1>5 DEF Freed
<1>8. /\ \A c \in s.B : c.lo \in Nat /\ c.len \in Nat /\ c.len >= 2
      /\ \A c, d \in s.B : Apart(c, d)
  BY <1>3, WholeFacts
<1>9. /\ \A c \in z.B : /\ c.lo \in Nat /\ c.len \in Nat /\ c.len >= 2
                        /\ c.lo + c.len <= s.t
      /\ \A c, d \in z.B : Apart(c, d)
      /\ \A c \in z.B : c.lo + c.len = s.t \/ \E d \in z.B : d.lo = c.lo + c.len
      /\ s.t \in Nat
  BY <1>6, <1>7, WholeFacts
<1>10. Ranged(y.ranges, Used(z.B))
  <2>1. PICK rs : rs = x.ranges
    OBVIOUS
  <2>2. PICK U : U = Used(s.B)
    OBVIOUS
  <2>3. PICK v : v = Removed(rs, 8 * b.lo)
    OBVIOUS
  <2>4. Ranged(rs, U)
    BY <2>1, <2>2, <1>1
  <2>5. Ranged(v, U \ {b})
    BY <2>3, <2>4, RangedWithout
  <2> QED
    BY <2>1, <2>2, <2>3, <2>5, <1>1, <1>6
<1>11. \A c \in Used(z.B) : m.lo + m.len <= c.lo
  <2> SUFFICES ASSUME NEW c \in Used(z.B) PROVE m.lo + m.len <= c.lo
    OBVIOUS
  <2>1. c \in z.B /\ c.used /\ c \in Used(s.B) /\ c \in s.B /\ c # b
    BY <1>6 DEF Used
  <2>2. Apart(b, c) /\ Apart(m, c) /\ m # c /\ q <= c.lo
    BY <2>1, <1>1, <1>6, <1>8, <1>9
  <2>3. b.lo + b.len <= c.lo
    BY <2>1, <2>2, <1>8 DEF Apart
  <2> QED
    BY <2>1, <2>2, <2>3, <1>6, <1>8, <1>9 DEF Apart
<1>12. On(g, z, m.lo + m.len)
  BY <1>6, <1>7, <1>9 DEF On
<1>13. y.h = g /\ y.p = 8 * b.lo + SIZE(g, 8 * b.lo)
  BY <1>1 DEF NEXT_BLKP
<1>14. CASE m.lo = b.lo
  <2>1. Laid(z.B, z.t) /\ Tagged(g, z.B, z.t)
    BY <1>6, WholeFacts
  <2>2. SIZE(g, 8 * m.lo) = 8 * m.len
    BY <2>1, <1>6, SizeIs
  <2>3. y.p = 8 * (m.lo + m.len)
    BY <2>2, <1>13, <1>14, <1>9, <1>6
  <2>4. Exiting(y, z, m.lo + m.len)
    BY <2>3, <1>6, <1>7, <1>9, <1>10, <1>11, <1>12, <1>13 DEF Exiting
  <2>5. Moves(x, y, s, q, z, m.lo + m.len)
    BY <2>4, <1>14, <1>6, <1>7, <1>9, <1>1 DEF Moves
  <2> QED
    BY <2>5
<1>15. CASE m.lo # b.lo
  <2>1. g.mem[8 * b.lo - 4] = 8 * b.len /\ b.len \in Nat /\ b.lo \in Nat /\ b.len >= 2
    BY <1>6, <1>8, <1>15
  <2>2. SIZE(g, 8 * b.lo) = 8 * b.len
    BY <2>1, TagFacts DEF SIZE, GET_SIZE, GET, HDRP, WSIZE
  <2>3. y.p = 8 * (b.lo + b.len)
    BY <2>1, <2>2, <1>13
  <2> DEFINE e == b.lo + b.len
  <2>4. On(g, z, e)
    <3>1. CASE m.lo + m.len = e
      BY <3>1, <1>12
    <3>2. ASSUME NEW n \in s.B, n.lo = e, m.lo + m.len = n.lo + n.len,
                 g.mem[8 * n.lo - 4] = 8 * n.len
          PROVE  On(g, z, e)
      <4>1. /\ m.lo < e /\ e + 2 <= m.lo + m.len
            /\ m.lo + m.len - e = n.len
        BY <3>2, <2>1, <1>6, <1>8, <1>9
      <4>2. Stale(g, z.B, e)
        BY <4>1, <3>2, <1>6 DEF Stale
      <4> QED
        BY <4>2 DEF On
    <3> QED
      BY <3>1, <3>2, <1>6
  <2>5. \A c \in Used(z.B) : e <= c.lo
    <3>1. \A c \in Used(z.B) : c \in z.B
      BY DEF Used
    <3> QED
      BY <3>1, <1>6, <1>8, <1>9, <1>11
  <2>6. e \in Nat /\ e <= s.t /\ e >= q + 2
    BY <2>1, <1>6, <1>9, <1>1
  <2> HIDE DEF e
  <2>7. y.p = 8 * e
    BY <2>3 DEF e
  <2>8. Exiting(y, z, e)
    BY <2>4, <2>5, <2>6, <2>7, <1>6, <1>7, <1>10, <1>13 DEF Exiting
  <2>9. Moves(x, y, s, q, z, e)
    BY <2>6, <2>8, <1>7 DEF Moves
  <2> QED
    BY <2>9
<1> QED
  BY <1>14, <1>15

\* On a free block, or inside one.
LEMMA ExitSkips ==
  ASSUME NEW x, NEW s, NEW q, Exiting(x, s, q), NEW m \in s.B, ~m.used,
         m.lo <= q, q + 2 <= m.lo + m.len,
         SIZE(x.h, x.p) = 8 * (m.lo + m.len - q),
         NEW y, y = [h |-> x.h, p |-> NEXT_BLKP(x.h, x.p), ranges |-> x.ranges]
  PROVE  \E z, e : Moves(x, y, s, q, z, e)
<1>1. /\ Whole(x.h, s) /\ x.p = 8 * q /\ q \in Nat
      /\ \A c \in Used(s.B) : q <= c.lo
      /\ Ranged(x.ranges, Used(s.B))
  BY DEF Exiting
<1>2. /\ \A c \in s.B : c.lo \in Nat /\ c.len \in Nat /\ c.len >= 2 /\ c.lo + c.len <= s.t
      /\ \A c, d \in s.B : Apart(c, d)
      /\ \A c \in s.B : c.lo + c.len = s.t \/ \E d \in s.B : d.lo = c.lo + c.len
      /\ s.t \in Nat
  BY <1>1, WholeFacts
<1> DEFINE e == m.lo + m.len
<1>3. y.h = x.h /\ y.ranges = x.ranges /\ y.p = 8 * e
  BY <1>1, <1>2 DEF NEXT_BLKP
<1>4. e \in Nat /\ e <= s.t /\ e >= q + 2 /\ On(x.h, s, e)
  BY <1>1, <1>2 DEF On
<1>5. \A c \in Used(s.B) : e <= c.lo
  <2> SUFFICES ASSUME NEW c \in Used(s.B) PROVE e <= c.lo
    OBVIOUS
  <2>1. c \in s.B /\ c.used /\ Apart(c, m) /\ q <= c.lo
    BY <1>1, <1>2 DEF Used
  <2> QED
    BY <2>1, <1>1, <1>2 DEF Apart
<1> HIDE DEF e
<1>6. Exiting(y, s, e)
  BY <1>1, <1>3, <1>4, <1>5 DEF Exiting
<1>7. Moves(x, y, s, q, s, e)
  BY <1>4, <1>6 DEF Moves
<1> QED
  BY <1>7

\* One step of the walk before the end of the heap.
LEMMA ExitSteps ==
  ASSUME NEW x \in Walking, NEW s, NEW q, Exiting(x, s, q), q # s.t
  PROVE  \E z, e : Moves(x, ExitStep[x], s, q, z, e)
<1>1. /\ Whole(x.h, s) /\ x.p = 8 * q /\ q \in Nat /\ q <= s.t /\ On(x.h, s, q)
  BY DEF Exiting
<1>2. /\ Laid(s.B, s.t) /\ Tagged(x.h, s.B, s.t) /\ x.h.brk = 8 * s.t /\ s.t \in Nat
      /\ \A c \in s.B : c.lo \in Nat /\ c.len \in Nat /\ c.len >= 2 /\ c.used \in BOOLEAN
  BY <1>1, WholeFacts
<1>3. ~(x.p > x.h.brk - 1)
  BY <1>1, <1>2
<1> DEFINE allocated == GET_ALLOC(x.h, HDRP(x.p)) = 1
           g == IF allocated THEN mm_free(x.h, x.p) ELSE x.h
<1>4. ExitStep[x] = [h |-> g, p |-> NEXT_BLKP(g, x.p),
                     ranges |-> IF allocated THEN Removed(x.ranges, x.p) ELSE x.ranges]
  BY <1>3 DEF ExitStep
<1>5. CASE \E b \in s.B : b.lo = q
  <2>1. PICK b \in s.B : b.lo = q
    BY <1>5
  <2>2. SIZE(x.h, 8 * b.lo) = 8 * b.len /\ GET_ALLOC(x.h, HDRP(8 * b.lo)) = Bit(b)
    BY <1>2, SizeIs
  <2>3. CASE b.used
    <3>1. allocated
      BY <2>1, <2>2, <2>3, <1>1 DEF Bit
    <3>2. PICK f : f = mm_free(x.h, x.p)
      OBVIOUS
    <3>3. PICK y : y = [h |-> f, p |-> NEXT_BLKP(f, x.p), ranges |-> Removed(x.ranges, x.p)]
      OBVIOUS
    <3>4. \E z, e : Moves(x, y, s, q, z, e)
      BY <2>1, <2>3, <3>2, <3>3, ExitFrees
    <3>5. ExitStep[x] = y
      BY <1>4, <3>1, <3>2, <3>3
    <3> QED
      BY <3>4, <3>5
  <2>4. CASE ~b.used
    <3>1. ~allocated
      BY <2>1, <2>2, <2>4, <1>1 DEF Bit
    <3>2. PICK y : y = [h |-> x.h, p |-> NEXT_BLKP(x.h, x.p), ranges |-> x.ranges]
      OBVIOUS
    <3>3. /\ SIZE(x.h, x.p) = 8 * (b.lo + b.len - q)
          /\ b.lo <= q /\ q + 2 <= b.lo + b.len
      BY <2>1, <2>2, <1>1, <1>2
    <3>4. \E z, e : Moves(x, y, s, q, z, e)
      BY <2>1, <2>4, <3>2, <3>3, ExitSkips
    <3>5. ExitStep[x] = y
      BY <1>4, <3>1, <3>2
    <3> QED
      BY <3>4, <3>5
  <2> QED
    BY <2>3, <2>4
<1>6. CASE Stale(x.h, s.B, q)
  <2>1. PICK m \in s.B : /\ ~m.used /\ m.lo < q /\ q + 2 <= m.lo + m.len
                         /\ x.h.mem[8 * q - 4] = 8 * (m.lo + m.len - q)
    BY <1>6 DEF Stale
  <2>2. PICK n \in Nat : n = m.lo + m.len - q
    BY <2>1, <1>1, <1>2
  <2>3. x.h.mem[x.p - 4] = 8 * n
    BY <1>1, <2>1, <2>2
  <2>4. SIZE(x.h, x.p) = 8 * n /\ ~allocated
    BY <2>3, TagFacts DEF SIZE, GET_SIZE, GET_ALLOC, GET, HDRP, WSIZE
  <2>5. PICK y : y = [h |-> x.h, p |-> NEXT_BLKP(x.h, x.p), ranges |-> x.ranges]
    OBVIOUS
  <2>6. SIZE(x.h, x.p) = 8 * (m.lo + m.len - q) /\ m.lo <= q
    BY <2>1, <2>2, <2>4, <1>1, <1>2
  <2>7. \E z, e : Moves(x, y, s, q, z, e)
    BY <2>1, <2>5, <2>6, ExitSkips
  <2>8. ExitStep[x] = y
    BY <1>4, <2>4, <2>5
  <2> QED
    BY <2>7, <2>8
<1> QED
  BY <1>1, <1>5, <1>6 DEF On

-----------------------------------------------------------------------------

LEMMA InWalking ==
  ASSUME NEW x, x = [h |-> x.h, p |-> x.p, ranges |-> x.ranges], NEW s, NEW q, Exiting(x, s, q)
  PROVE  x \in Walking
<1>1. x.h \in Heaps /\ x.p \in Nat /\ x.ranges \in Seq(Interval)
  BY WholeFacts DEF Exiting, Ranged
<1> QED
  BY <1>1 DEF Walking, Heaps, Interval

\* k steps of the walk.
Walked(x, s, q, k) ==
  /\ x = [h |-> x.h, p |-> x.p, ranges |-> x.ranges]
  /\ Exiting(x, s, q) /\ (q = s.t \/ q >= First + 2 * k)

LEMMA WalksOn ==
  ASSUME NEW x, NEW s, NEW q, NEW k \in Nat, Walked(x, s, q, k)
  PROVE  \E z, e : Walked(ExitStep[x], z, e, k + 1) /\ z.t = s.t
<1>1. /\ x = [h |-> x.h, p |-> x.p, ranges |-> x.ranges]
      /\ Exiting(x, s, q) /\ (q = s.t \/ q >= First + 2 * k)
  BY DEF Walked
<1>2. x \in Walking
  BY <1>1, InWalking
<1>3. CASE q = s.t
  <2>1. x.p > x.h.brk - 1
    <3>1. x.p = 8 * q /\ Whole(x.h, s)
      BY <1>1 DEF Exiting
    <3>2. x.h.brk = 8 * s.t /\ s.t \in Nat
      BY <3>1, WholeFacts
    <3> QED
      BY <3>1, <3>2, <1>3
  <2>2. ExitStep[x] = x
    BY <2>1, <1>2 DEF ExitStep
  <2>3. Walked(ExitStep[x], s, q, k + 1)
    BY <2>2, <1>1, <1>3 DEF Walked
  <2> QED
    BY <2>3
<1>4. CASE q # s.t
  <2>1. PICK z, e : Moves(x, ExitStep[x], s, q, z, e)
    BY <1>1, <1>2, <1>4, ExitSteps
  <2>2. Exiting(ExitStep[x], z, e) /\ z.t = s.t /\ e >= q + 2
    BY <2>1 DEF Moves
  <2>3. PICK y : y = ExitStep[x]
    OBVIOUS
  <2>4. y = [h |-> y.h, p |-> y.p, ranges |-> y.ranges]
    <3>1. \/ y = x
          \/ \E a, b, c : y = [h |-> a, p |-> b, ranges |-> c]
      BY <2>3, <1>2 DEF ExitStep
    <3>2. CASE y = x
      BY <3>2, <1>1
    <3>3. ASSUME NEW a, NEW b, NEW c, y = [h |-> a, p |-> b, ranges |-> c]
          PROVE  y = [h |-> y.h, p |-> y.p, ranges |-> y.ranges]
      BY <3>3
    <3> QED
      BY <3>1, <3>2, <3>3
  <2>5. e >= First + 2 * (k + 1)
    <3>1. q \in Nat /\ e \in Nat /\ First \in Nat
      BY <1>1, <2>2, FirstFacts DEF Exiting
    <3> QED
      BY <3>1, <1>1, <1>4, <2>2
  <2>6. Walked(y, z, e, k + 1)
    BY <2>2, <2>3, <2>4, <2>5 DEF Walked
  <2> QED
    BY <2>2, <2>3, <2>6
<1> QED
  BY <1>3, <1>4

\* One free block is left.
Emptied(g, t) ==
  \E s : /\ Whole(g, s) /\ s.t = t /\ Used(s.B) = {} /\ s.B = {HP!Span(First, t)}

\* Without blocks in use the heap is one free block.
LEMMA NoneUsed ==
  ASSUME NEW h, NEW s, Whole(h, s), Used(s.B) = {}
  PROVE  s.B = {HP!Span(First, s.t)}
<1>1. /\ \A b \in s.B : /\ b.lo \in Nat /\ b.len \in Nat /\ b.len >= 2
                        /\ b.used \in BOOLEAN /\ First <= b.lo /\ b.lo + b.len <= s.t
      /\ \A b, c \in s.B : Apart(b, c)
      /\ \A b \in s.B : b.lo + b.len = s.t \/ \E c \in s.B : c.lo = b.lo + b.len
      /\ Laid(s.B, s.t) /\ s.t \in Nat
  BY WholeFacts
<1>2. \A b \in s.B : b.used = FALSE
  BY <1>1 DEF Used
<1>3. PICK b \in s.B : b.lo = First
  BY <1>1, GoodFacts
<1>4. b.lo + b.len = s.t
  <2> SUFFICES ASSUME b.lo + b.len # s.t PROVE FALSE
    OBVIOUS
  <2>1. PICK c \in s.B : c.lo = b.lo + b.len
    BY <1>1
  <2>2. HP!CoalescedIn(s.B)
    BY DEF Whole
  <2>3. ~HP!Adjacent(b, c)
    BY <2>2, <1>2 DEF HP!CoalescedIn, HP!Free2
  <2> QED
    BY <2>1, <2>3 DEF HP!Adjacent, HP!End
<1>5. \A c \in s.B : c = b
  BY <1>1, <1>3, <1>4, FirstFacts DEF Apart
<1>6. b = HP!Span(First, s.t)
  <2>1. b \in HP!Block
    BY <1>1, LaidFacts
  <2>2. b.len = s.t - First /\ b.used = FALSE
    BY <1>1, <1>2, <1>3, <1>4, FirstFacts
  <2>3. b = [lo |-> b.lo, len |-> b.len, used |-> b.used]
    BY <2>1 DEF HP!Block
  <2> QED
    BY <2>2, <2>3, <1>3 DEF HP!Span
<1> QED
  BY <1>5, <1>6

\* mm_exit frees every block, and with each its range.
LEMMA ExitIs ==
  ASSUME NEW h, NEW s, Whole(h, s), NEW rs, Ranged(rs, Used(s.B)),
         NEW r, r = mm_exit(h, rs)
  PROVE  Emptied(r.h, s.t) /\ r.ranges = <<>>
<1> DEFINE x == [h |-> h, p |-> FirstBlock, ranges |-> rs]
           n == CHOOSE g : g = [k \in Nat |-> IF k = 0 THEN x ELSE ExitStep[g[k - 1]]]
<1>1. PICK w : w = n
  OBVIOUS
<1>2. r = w[MaxLen]
  BY <1>1 DEF mm_exit, ExitFrom
<1>3. w[0] = x /\ \A k \in Nat : w[k + 1] = ExitStep[w[k]]
  <2>1. PICK F, y : F = ExitStep /\ y = x
    OBVIOUS
  <2>2. w = Iteration(F, y)
    BY <1>1, <2>1 DEF Iteration
  <2> HIDE DEF n
  <2>3. w[0] = y /\ \A k \in Nat : w[k + 1] = F[w[k]]
    BY ONLY <2>2, Iterates
  <2> QED
    BY <2>1, <2>3
<1> HIDE DEF n
<1>4. Walked(x, s, First, 0)
  <2>1. /\ First \in Nat /\ 8 * First = FirstBlock /\ First <= s.t
        /\ Laid(s.B, s.t) /\ \A b \in s.B : First <= b.lo
    BY WholeFacts, LaidFacts, FirstFacts
  <2>2. \E b \in s.B : b.lo = First
    BY <2>1, GoodFacts
  <2>3. \A b \in Used(s.B) : First <= b.lo
    BY <2>1 DEF Used
  <2>4. On(x.h, s, First)
    BY <2>2 DEF On
  <2>5. x.h = h /\ x.p = 8 * First /\ x.ranges = rs
    BY <2>1
  <2>6. Exiting(x, s, First)
    BY <2>1, <2>3, <2>4, <2>5 DEF Exiting
  <2> QED
    BY <2>1, <2>6 DEF Walked
<1> HIDE DEF x
<1> DEFINE T == {k \in Nat : \E z, e : Walked(w[k], z, e, k) /\ z.t = s.t}
<1>5. 0 \in T
  BY <1>3, <1>4
<1>6. ASSUME NEW k \in T PROVE k + 1 \in T
  <2>1. k \in Nat /\ k + 1 \in Nat /\ w[k + 1] = ExitStep[w[k]]
    BY <1>3
  <2>2. PICK z, e : Walked(w[k], z, e, k) /\ z.t = s.t
    OBVIOUS
  <2>3. PICK z2, e2 : Walked(ExitStep[w[k]], z2, e2, k + 1) /\ z2.t = z.t
    BY <2>1, <2>2, WalksOn
  <2> QED
    BY <2>1, <2>2, <2>3
<1>7. T = Nat
  <2> HIDE DEF T
  <2>1. T \in SUBSET Nat
    BY DEF T
  <2> QED
    BY <2>1, <1>5, <1>6, InductionOnNat
<1>8. MaxLen \in T
  BY <1>7, MaxLenFacts
<1>9. PICK z, e : Walked(r, z, e, MaxLen) /\ z.t = s.t
  BY <1>2, <1>8
<1>10. /\ Whole(r.h, z) /\ e \in Nat /\ e <= z.t /\ (e = z.t \/ e >= First + 2 * MaxLen)
       /\ \A b \in Used(z.B) : e <= b.lo
       /\ Ranged(r.ranges, Used(z.B))
  BY <1>9 DEF Walked, Exiting
<1>11. e = z.t
  <2>1. z.t \in Nat /\ 8 * z.t <= Start + MAX_HEAP
    BY <1>10, WholeFacts, LaidFacts
  <2> QED
    BY <2>1, <1>10, WalkLength
<1>12. Used(z.B) = {}
  <2>1. \A b \in z.B : b.lo \in Nat /\ b.len \in Nat /\ b.len >= 2 /\ b.lo + b.len <= z.t
    BY <1>10, WholeFacts
  <2>3. ASSUME NEW b \in Used(z.B) PROVE FALSE
    <3>1. b \in z.B
      BY DEF Used
    <3>2. b.lo \in Nat /\ b.len \in Nat /\ b.len >= 2 /\ b.lo + b.len <= z.t /\ z.t <= b.lo
      BY <3>1, <2>1, <1>10, <1>11
    <3>3. PICK u \in Nat, v \in Nat, l \in Nat : u = z.t /\ v = b.lo /\ l = b.len
      BY <3>2, <1>10, WholeFacts
    <3> QED
      BY <3>2, <3>3
  <2> QED
    BY <2>3
<1>13. z.B = {HP!Span(First, z.t)}
  BY <1>10, <1>12, NoneUsed
<1>14. Emptied(r.h, s.t)
  BY <1>9, <1>10, <1>12, <1>13 DEF Emptied
<1>15. r.ranges = <<>>
  BY <1>10, <1>12, RangedNone
<1> QED
  BY <1>14, <1>15

-----------------------------------------------------------------------------
(* Payloads.                                                               *)

\* The low bytes of a word are replaced.
LEMMA LowByte ==
  ASSUME NEW w \in Nat, NEW c \in Nat, c < 256
  PROVE  w - (w % 256) + c \in Nat /\ (w - (w % 256) + c) % 256 = c
BY SMT

LEMMA LowTwo ==
  ASSUME NEW w \in Nat, NEW c \in Nat, c < 65536
  PROVE  w - (w % 65536) + c \in Nat /\ (w - (w % 65536) + c) % 65536 = c
BY SMT

LEMMA LowThree ==
  ASSUME NEW w \in Nat, NEW c \in Nat, c < 16777216
  PROVE  w - (w % 16777216) + c \in Nat /\ (w - (w % 16777216) + c) % 16777216 = c
BY SMT

\* What memset leaves of a word, and what it puts there.
LEMMA LowFacts ==
  ASSUME NEW w \in Nat, NEW i \in 0 .. 127, NEW k \in 1 .. 4,
         NEW v, v = w - Low(w, k) + Bytes(i, k)
  PROVE  v \in Nat /\ Low(v, k) = Bytes(i, k)
<1>1. CASE k = 4
  <2>1. Low(w, k) = w /\ Low(v, k) = v
    BY <1>1, SMT DEF Low, WSIZE
  <2>2. Bytes(i, k) \in Nat
    BY <1>1, SMT DEF Low, Bytes, WSIZE
  <2> QED
    BY <2>1, <2>2, SMT
<1>2. CASE k = 1
  <2>1. <<256, 65536, 16777216>>[k] = 256 /\ k # WSIZE
    BY <1>2, SMT DEF WSIZE
  <2>2. Low(w, k) = w % 256 /\ Low(v, k) = v % 256
    BY <2>1, SMT DEF Low
  <2>3. PICK c : c = Bytes(i, k)
    OBVIOUS
  <2>4. c \in Nat /\ c < 256
    BY <2>1, <2>3, SMT DEF Bytes, Low
  <2>5. w - (w % 256) + c \in Nat /\ (w - (w % 256) + c) % 256 = c
    BY <2>4, LowByte, SMT
  <2> QED
    BY <2>2, <2>3, <2>5, SMT
<1>3. CASE k = 2
  <2>1. <<256, 65536, 16777216>>[k] = 65536 /\ k # WSIZE
    BY <1>3, SMT DEF WSIZE
  <2>2. Low(w, k) = w % 65536 /\ Low(v, k) = v % 65536
    BY <2>1, SMT DEF Low
  <2>3. PICK c : c = Bytes(i, k)
    OBVIOUS
  <2>4. c \in Nat /\ c < 65536
    BY <2>1, <2>3, SMT DEF Bytes, Low
  <2>5. w - (w % 65536) + c \in Nat /\ (w - (w % 65536) + c) % 65536 = c
    BY <2>4, LowTwo, SMT
  <2> QED
    BY <2>2, <2>3, <2>5, SMT
<1>4. CASE k = 3
  <2>1. <<256, 65536, 16777216>>[k] = 16777216 /\ k # WSIZE
    BY <1>4, SMT DEF WSIZE
  <2>2. Low(w, k) = w % 16777216 /\ Low(v, k) = v % 16777216
    BY <2>1, SMT DEF Low
  <2>3. PICK c : c = Bytes(i, k)
    OBVIOUS
  <2>4. c \in Nat /\ c < 16777216
    BY <2>1, <2>3, SMT DEF Bytes, Low
  <2>5. w - (w % 16777216) + c \in Nat /\ (w - (w % 16777216) + c) % 16777216 = c
    BY <2>4, LowThree, SMT
  <2> QED
    BY <2>2, <2>3, <2>5, SMT
<1> QED
  BY <1>1, <1>2, <1>3, <1>4

\* The payload of n bytes at p holds the byte i.
Filled(h, p, n, i) ==
  \A a \in Words : InPayload(a, p, n) =>
    LET k == Covered(a, p, n) IN Low(GET(h, a), k) = Bytes(i, k)

LEMMA CoveredFacts ==
  ASSUME NEW a \in Words, NEW p \in Nat, p % 8 = 0, NEW n \in Nat, InPayload(a, p, n)
  PROVE  Covered(a, p, n) \in 1 .. 4
<1>1. a \in Int
  BY WordFacts DEF Words
<1> QED
  BY <1>1 DEF Covered, InPayload, WSIZE

\* g is h with the byte i in the n bytes at p.
Set(h, g, p, n, i) ==
  /\ g \in Heaps /\ g.brk = h.brk /\ Filled(g, p, n, i)
  /\ \A a \in Words : ~InPayload(a, p, n) => g.mem[a] = h.mem[a]

LEMMA MemsetFacts ==
  ASSUME NEW h \in Heaps, NEW p \in Nat, p % 8 = 0, NEW i \in 0 .. 127, NEW n \in Nat,
         NEW g, g = memset(h, p, i, n)
  PROVE  Set(h, g, p, n, i)
<1>1. /\ h.mem \in [Words -> Nat] /\ h.brk \in Nat
  BY DEF Heaps
<1> DEFINE M == [a \in Words |->
                  LET k == Covered(a, p, n)
                  IN IF InPayload(a, p, n) THEN h.mem[a] - Low(h.mem[a], k) + Bytes(i, k)
                     ELSE h.mem[a]]
<1>2. g = [mem |-> M, brk |-> h.brk]
  BY DEF memset, Heaps
<1>3. ASSUME NEW a \in Words, InPayload(a, p, n)
      PROVE  M[a] \in Nat /\ Low(M[a], Covered(a, p, n)) = Bytes(i, Covered(a, p, n))
  <2>1. Covered(a, p, n) \in 1 .. 4 /\ h.mem[a] \in Nat
    BY <1>1, <1>3, CoveredFacts
  <2> DEFINE v == M[a]
  <2>2. PICK k \in 1 .. 4, w \in Nat : k = Covered(a, p, n) /\ w = h.mem[a]
    BY <2>1
  <2>3. v = w - Low(w, k) + Bytes(i, k)
    BY <2>2, <1>3
  <2> HIDE DEF v
  <2>4. v \in Nat /\ Low(v, k) = Bytes(i, k)
    BY <2>3, LowFacts
  <2> QED
    BY <2>2, <2>4 DEF v
<1>4. \A a \in Words : ~InPayload(a, p, n) => M[a] = h.mem[a]
  OBVIOUS
<1>5. M = [a \in Words |-> M[a]]
  OBVIOUS
<1> HIDE DEF M
<1>6. \A a \in Words : M[a] \in Nat
  BY <1>1, <1>3, <1>4
<1>7. M \in [Words -> Nat]
  BY <1>5, <1>6
<1> QED
  BY <1>1, <1>2, <1>3, <1>4, <1>7 DEF Heaps, Filled, GET, Set

\* The payload of n bytes fits into the block b at its address.
Roomy(b, n) == n + 8 <= 8 * b.len

LEMMA PayloadInBlock ==
  ASSUME NEW b, b.lo \in Nat, b.len \in Nat, NEW n \in Nat, Roomy(b, n),
         NEW a \in Words, InPayload(a, 8 * b.lo, n)
  PROVE  InBlock(a, b) /\ a # 8 * b.lo - 4 /\ a # 8 * (b.lo + b.len) - 8
<1>1. a \in Int
  BY WordFacts DEF Words
<1>2. PICK l \in Nat, m \in Nat : l = b.lo /\ m = b.len
  OBVIOUS
<1> QED
  BY <1>1, <1>2 DEF InPayload, InBlock, Roomy

\* A heap is as sound after memset as before.
LEMMA MemsetKeeps ==
  ASSUME NEW h, NEW s, Whole(h, s), NEW b \in s.B, b.used, NEW n \in Nat, Roomy(b, n),
         NEW i \in 0 .. 127, NEW g, g = memset(h, 8 * b.lo, i, n)
  PROVE  /\ Whole(g, s) /\ Spares(h, g, Used(s.B) \ {b})
         /\ Filled(g, 8 * b.lo, n, i)
<1>1. /\ Sound(h, s.B, FreeOf(s.B), s.L, s.t) /\ HP!CoalescedIn(s.B)
      /\ h \in Heaps /\ Laid(s.B, s.t) /\ Tagged(h, s.B, s.t) /\ Lists(h, FreeOf(s.B), s.L)
  BY DEF Whole, Sound
<1>2. /\ s.t \in Nat /\ b.lo \in Nat /\ b.len \in Nat /\ b.len >= 2 /\ b.lo + b.len <= s.t
  BY <1>1, LaidFacts
<1>3. PICK p \in Nat : p = 8 * b.lo /\ p % 8 = 0
  BY <1>2
<1>4. /\ g \in Heaps /\ g.brk = h.brk /\ Filled(g, p, n, i)
      /\ \A a \in Words : ~InPayload(a, p, n) => g.mem[a] = h.mem[a]
  <2>1. g = memset(h, p, i, n) /\ h \in Heaps /\ p % 8 = 0
    BY <1>1, <1>3
  <2>2. PICK f : f = memset(h, p, i, n)
    OBVIOUS
  <2>3. Set(h, f, p, n, i)
    BY <2>1, <2>2, MemsetFacts
  <2> QED
    BY <2>1, <2>2, <2>3 DEF Set
<1>5. \A a \in Words : /\ ~InBlock(a, b) => g.mem[a] = h.mem[a]
                       /\ a = 8 * b.lo - 4 \/ a = 8 * (b.lo + b.len) - 8
                            => g.mem[a] = h.mem[a]
  BY <1>2, <1>3, <1>4, PayloadInBlock
<1>6. Rewritten(h, g, s.t, {b})
  BY <1>4, <1>5 DEF Rewritten
<1>7. {b} \in SUBSET s.B /\ b \in s.B
  OBVIOUS
<1>8. /\ h.brk = 8 * s.t /\ h.mem[8 * s.t - 4] = 1 /\ Prologue(h)
      /\ \A c \in s.B : HasTags(h, c)
  BY <1>1, TaggedParts
<1>9. HasTags(g, b)
  <2>1. 8 * b.lo - 4 \in Words /\ 8 * (b.lo + b.len) - 8 \in Words
    BY <1>1, BlockParts
  <2>2. HasTags(h, b)
    BY <1>8
  <2> QED
    BY <2>1, <2>2, <1>5 DEF HasTags
<1>10. g.brk = 8 * s.t /\ g.mem[8 * s.t - 4] = 1
  <2>1. 8 * s.t - 4 \in Words /\ 8 * s.t - 4 \in Int
    <3>1. First <= s.t /\ 8 * s.t <= Start + MAX_HEAP
      BY <1>1, LaidFacts, FirstFacts
    <3> QED
      BY <3>1, <1>2, EndWords
  <2>2. ~InBlock(8 * s.t - 4, b)
    BY <1>2 DEF InBlock
  <2> QED
    BY <2>1, <2>2, <1>4, <1>5, <1>8
<1>11. Tagged(g, s.B, s.t)
  <2>1. \A c \in s.B \ {b} : HasTags(h, c)
    BY <1>8
  <2>2. \A c \in {b} : HasTags(g, c)
    BY <1>9
  <2> QED
    BY <2>1, <2>2, <1>1, <1>6, <1>7, <1>8, <1>10, RewrittenTags
<1>12. Lists(g, FreeOf(s.B), s.L)
  <2>1. FreeOf(s.B) \in SUBSET s.B /\ FreeOf(s.B) \cap {b} = {}
    BY DEF FreeOf
  <2> QED
    BY <2>1, <1>1, <1>6, <1>7, RewrittenLists
<1>13. Spares(h, g, Used(s.B) \ {b})
  <2>1. Used(s.B) \ {b} \in SUBSET s.B /\ (Used(s.B) \ {b}) \cap {b} = {}
    BY DEF Used
  <2> QED
    BY <2>1, <1>1, <1>6, <1>7, RewrittenSpares
<1> QED
  BY <1>1, <1>3, <1>4, <1>11, <1>12, <1>13 DEF Whole, Sound

-----------------------------------------------------------------------------
(* What the program has in the heap: U are the indices in use, bl their    *)
(* blocks and rs the range list.                                           *)

\* Each index has a block in use of its own, and each such block an index.
Tenants(bl, U, s) ==
  /\ U \subseteq Ids /\ bl \in [Ids -> [p : Nat, n : Nat]]
  /\ \A i \in U : /\ bl[i].n # 0
                  /\ \E b \in Used(s.B) : bl[i].p = 8 * b.lo /\ Roomy(b, bl[i].n)
  /\ \A b \in Used(s.B) : \E i \in U : bl[i].p = 8 * b.lo
  /\ \A i, j \in U : bl[i].p = bl[j].p => i = j

Entry(b) == [lo |-> b.p, hi |-> b.p + b.n - 1]

Listing(rs, bl, U) ==
  /\ rs \in Seq(Interval) /\ StartsDiffer(rs)
  /\ Entries(rs) = {Entry(bl[i]) : i \in U}

Contents(h, bl, U) == \A i \in U : Filled(h, bl[i].p, bl[i].n, i)

Owns(h, rs, bl, U, s) == Tenants(bl, U, s) /\ Listing(rs, bl, U) /\ Contents(h, bl, U)

\* A payload stays while its block is left alone.
LEMMA FilledKept ==
  ASSUME NEW h, NEW g, NEW V, Spares(h, g, V), NEW b \in V, b.lo \in Nat, b.len \in Nat,
         NEW n \in Nat, Roomy(b, n), NEW i, Filled(h, 8 * b.lo, n, i)
  PROVE  Filled(g, 8 * b.lo, n, i)
<1> SUFFICES ASSUME NEW a \in Words, InPayload(a, 8 * b.lo, n)
             PROVE  Low(GET(g, a), Covered(a, 8 * b.lo, n)) = Bytes(i, Covered(a, 8 * b.lo, n))
  BY DEF Filled
<1>1. InBlock(a, b)
  BY PayloadInBlock
<1>2. GET(g, a) = GET(h, a)
  BY <1>1 DEF Spares, GET
<1> QED
  BY <1>2 DEF Filled

\* Blocks in use are known by their addresses.
LEMMA UsedFacts ==
  ASSUME NEW h, NEW s, Whole(h, s)
  PROVE  /\ \A b \in Used(s.B) : /\ b \in s.B /\ b.used /\ b.lo \in Nat /\ b.len \in Nat
                                 /\ b.len >= 2 /\ First <= b.lo /\ b.lo + b.len <= s.t
                                 /\ 8 * b.lo \in Nat /\ 8 * b.lo # 0
         /\ \A b, c \in Used(s.B) : Apart(b, c)
         /\ \A b, c \in Used(s.B) : 8 * b.lo = 8 * c.lo => b = c
<1>1. /\ \A b \in s.B : /\ b.lo \in Nat /\ b.len \in Nat /\ b.len >= 2
                        /\ First <= b.lo /\ b.lo + b.len <= s.t
      /\ \A b, c \in s.B : Apart(b, c)
  BY WholeFacts
<1>2. \A b \in Used(s.B) : b \in s.B /\ b.used
  BY DEF Used
<1>3. ASSUME NEW b \in Used(s.B), NEW c \in Used(s.B), 8 * b.lo = 8 * c.lo PROVE b = c
  <2>1. /\ b.lo \in Nat /\ b.len \in Nat /\ b.len >= 2 /\ c.lo \in Nat /\ c.len \in Nat
        /\ c.len >= 2 /\ Apart(b, c)
    BY <1>1, <1>2
  <2> QED
    BY <2>1, <1>3 DEF Apart
<1>4. First \in Nat /\ First > 7
  BY FirstFacts
<1>5. \A b \in Used(s.B) : 8 * b.lo \in Nat /\ 8 * b.lo # 0
  <2> SUFFICES ASSUME NEW b \in Used(s.B) PROVE 8 * b.lo \in Nat /\ 8 * b.lo # 0
    OBVIOUS
  <2>1. b.lo \in Nat /\ First <= b.lo
    BY <1>1, <1>2
  <2> QED
    BY <2>1, <1>4
<1> QED
  BY <1>1, <1>2, <1>3, <1>5

\* The range of each payload lies in its block.
LEMMA EntryFacts ==
  ASSUME NEW h, NEW s, Whole(h, s), NEW bl, NEW U, Tenants(bl, U, s), NEW i \in U
  PROVE  \E b \in Used(s.B) :
           /\ bl[i].p = 8 * b.lo /\ Roomy(b, bl[i].n) /\ bl[i].n \in Nat /\ bl[i].n # 0
           /\ Entry(bl[i]) \in Interval /\ Entry(bl[i]).lo = 8 * b.lo
           /\ Entry(bl[i]).hi < 8 * (b.lo + b.len) - 8
           /\ 8 * b.lo <= Entry(bl[i]).hi
<1>1. PICK b \in Used(s.B) : bl[i].p = 8 * b.lo /\ Roomy(b, bl[i].n) /\ bl[i].n # 0
  BY DEF Tenants
<1>2. bl[i].n \in Nat /\ bl[i].p \in Nat
  BY DEF Tenants
<1>3. b.lo \in Nat /\ b.len \in Nat
  BY UsedFacts
<1>4. PICK n \in Nat, l \in Nat, m \in Nat : n = bl[i].n /\ l = b.lo /\ m = b.len
  BY <1>2, <1>3
<1>5. Entry(bl[i]) = [lo |-> 8 * l, hi |-> 8 * l + n - 1]
  BY <1>1, <1>4 DEF Entry
<1>6. n # 0 /\ n + 8 <= 8 * m
  BY <1>1, <1>4 DEF Roomy
<1>7. 8 * l \in Nat /\ 8 * l + n - 1 \in Nat /\ 8 * l <= 8 * l + n - 1
      /\ 8 * l + n - 1 < 8 * (l + m) - 8
  BY <1>6
<1> QED
  BY <1>1, <1>2, <1>4, <1>5, <1>7 DEF Interval

LEMMA OwnsRanged ==
  ASSUME NEW h, NEW s, NEW rs, NEW bl, NEW U, Owns(h, rs, bl, U, s)
  PROVE  Ranged(rs, Used(s.B))
<1>1. Tenants(bl, U, s) /\ Listing(rs, bl, U)
  BY DEF Owns
<1>2. ASSUME NEW r \in Entries(rs) PROVE \E b \in Used(s.B) : r.lo = 8 * b.lo
  <2>1. PICK i \in U : r = Entry(bl[i])
    BY <1>1 DEF Listing
  <2>2. r.lo = bl[i].p
    BY <2>1 DEF Entry
  <2> QED
    BY <2>2, <1>1 DEF Tenants
<1> QED
  BY <1>1, <1>2 DEF Ranged, Listing

\* No two ranges overlap.
LEMMA OwnsDisjoint ==
  ASSUME NEW h, NEW s, Whole(h, s), NEW rs, NEW bl, NEW U, Owns(h, rs, bl, U, s)
  PROVE  \A k, l \in 1 .. Len(rs) : k # l => ~Overlap(rs[k], rs[l])
<1> SUFFICES ASSUME NEW k \in 1 .. Len(rs), NEW l \in 1 .. Len(rs), k # l
             PROVE  ~Overlap(rs[k], rs[l])
  OBVIOUS
<1>1. Tenants(bl, U, s) /\ Listing(rs, bl, U)
  BY DEF Owns
<1>2. rs[k] \in Entries(rs) /\ rs[l] \in Entries(rs) /\ rs[k].lo # rs[l].lo
  BY <1>1 DEF Listing, Entries, StartsDiffer
<1>3. PICK i \in U, j \in U : rs[k] = Entry(bl[i]) /\ rs[l] = Entry(bl[j])
  BY <1>1, <1>2 DEF Listing
<1>4. PICK b \in Used(s.B) :
           /\ rs[k] \in Interval /\ rs[k].lo = 8 * b.lo
           /\ rs[k].hi < 8 * (b.lo + b.len) - 8
  BY <1>1, <1>3, EntryFacts
<1>5. PICK c \in Used(s.B) :
           /\ rs[l] \in Interval /\ rs[l].lo = 8 * c.lo
           /\ rs[l].hi < 8 * (c.lo + c.len) - 8
  BY <1>1, <1>3, EntryFacts
<1>6. /\ b.lo \in Nat /\ b.len \in Nat /\ c.lo \in Nat /\ c.len \in Nat
      /\ Apart(b, c)
  BY UsedFacts
<1>7. b.lo # c.lo
  BY <1>2, <1>4, <1>5
<1>8. b.lo + b.len <= c.lo \/ c.lo + c.len <= b.lo
  BY <1>6, <1>7 DEF Apart
<1>9. PICK x \in Nat, y \in Nat, u \in Nat, v \in Nat :
        x = b.lo /\ y = b.len /\ u = c.lo /\ v = c.len
  BY <1>6
<1>10. PICK d \in Nat, e \in Nat : d = rs[k].hi /\ e = rs[l].hi
  BY <1>4, <1>5 DEF Interval
<1>11. /\ rs[k].lo = 8 * x /\ rs[l].lo = 8 * u /\ d < 8 * (x + y) - 8 /\ e < 8 * (u + v) - 8
       /\ x + y <= u \/ u + v <= x
  BY <1>4, <1>5, <1>8, <1>9, <1>10
<1> QED
  BY <1>10, <1>11 DEF Overlap

-----------------------------------------------------------------------------
(* The steps of eval_mm_valid.                                             *)

LEMMA AddedEntries ==
  ASSUME NEW rs \in Seq(Interval), NEW lo, NEW n, NEW p, p = [lo |-> lo, hi |-> lo + n - 1],
         p \in Interval, StartsDiffer(rs), \A r \in Entries(rs) : r.lo # lo
  PROVE  /\ Entries(Added(rs, lo, n)) = Entries(rs) \cup {p}
         /\ StartsDiffer(Added(rs, lo, n)) /\ Added(rs, lo, n) \in Seq(Interval)
<1> DEFINE t == <<p>> \o rs
<1>1. /\ Len(rs) \in Nat /\ \A k \in 1 .. Len(rs) : rs[k] \in Interval
  BY LenProperties
<1>2. p.lo = lo
  OBVIOUS
<1>3. ASSUME NEW k \in 1 .. Len(rs) PROVE rs[k].lo # lo
  BY DEF Entries
<1>4. /\ Len(t) = Len(rs) + 1 /\ t[1] = p /\ t \in Seq(Interval)
      /\ \A k \in 2 .. Len(rs) + 1 : t[k] = rs[k - 1]
  BY <1>1, InFrontFacts
<1>8. Added(rs, lo, n) = t
  BY DEF Added
<1> HIDE DEF t
<1>5. /\ \A k \in 1 .. Len(t) : k = 1 \/ (k \in 2 .. Len(t) /\ k - 1 \in 1 .. Len(rs))
      /\ \A k \in 1 .. Len(rs) : k + 1 \in 2 .. Len(t) /\ t[k + 1] = rs[k]
      /\ 1 \in 1 .. Len(t)
  BY <1>1, <1>4
<1>6. StartsDiffer(t)
  <2> SUFFICES ASSUME NEW k \in 1 .. Len(t), NEW l \in 1 .. Len(t), t[k].lo = t[l].lo
               PROVE  k = l
    BY DEF StartsDiffer
  <2>1. CASE k = 1 \/ l = 1
    BY <2>1, <1>2, <1>3, <1>4, <1>5
  <2>2. CASE k # 1 /\ l # 1
    <3>1. k - 1 \in 1 .. Len(rs) /\ l - 1 \in 1 .. Len(rs)
          /\ rs[k - 1].lo = rs[l - 1].lo
      BY <2>2, <1>4, <1>5
    <3> QED
      BY <3>1 DEF StartsDiffer
  <2> QED
    BY <2>1, <2>2
<1>7. Entries(t) = Entries(rs) \cup {p}
  <2>1. \A k \in 1 .. Len(t) : t[k] \in Entries(rs) \cup {p}
    BY <1>4, <1>5 DEF Entries
  <2>2. \A k \in 1 .. Len(rs) : rs[k] \in Entries(t)
    <3> TAKE k \in 1 .. Len(rs)
    <3>1. k + 1 \in 1 .. Len(t) /\ t[k + 1] = rs[k]
      BY <1>5, <1>1, <1>4
    <3> QED
      BY <3>1 DEF Entries
  <2>3. p \in Entries(t)
    BY <1>4, <1>5 DEF Entries
  <2> QED
    BY <2>1, <2>2, <2>3 DEF Entries
<1> QED
  BY <1>4, <1>6, <1>7, <1>8

\* What mm_malloc gave: its block is in use in the heap after it, has room
\* for n bytes and is apart from all that were in use.
LEMMA AllocatesFacts ==
  ASSUME NEW h, NEW s, NEW r, NEW n \in Nat, Allocates(h, r, s, n),
         NEW a, a = After(s, n), NEW b, b = Gotten(s, n)
  PROVE  /\ Whole(r.h, a) /\ Spares(h, r.h, Used(s.B)) /\ Used(a.B) = Used(s.B) \cup {b}
         /\ r.p = 8 * b.lo /\ b \in a.B /\ b.used /\ b \notin Used(s.B) /\ b \in Used(a.B)
         /\ b.lo \in Nat /\ b.len \in Nat /\ Roomy(b, n) /\ 8 * b.lo \in Nat /\ 8 * b.lo # 0
         /\ \A c \in Used(s.B) : 8 * c.lo # 8 * b.lo
<1>1. /\ Whole(r.h, a) /\ Spares(h, r.h, Used(s.B)) /\ Used(a.B) = Used(s.B) \cup {b}
      /\ r.p = 8 * b.lo /\ b.used /\ b \notin Used(s.B) /\ b.len \in Nat /\ b.len >= Size(n)
  BY DEF Allocates
<1>2. b \in Used(a.B) /\ b \in a.B
  BY <1>1 DEF Used
<1>3. b.lo \in Nat /\ b.len \in Nat /\ 8 * b.lo \in Nat /\ 8 * b.lo # 0
  BY <1>1, <1>2, UsedFacts
<1>4. Roomy(b, n)
  <2>1. Size(n) \in Nat /\ 8 * Size(n) >= n + 8
    BY SizeFacts
  <2> QED
    BY <2>1, <1>1 DEF Roomy
<1>5. ASSUME NEW c \in Used(s.B) PROVE 8 * c.lo # 8 * b.lo
  <2>1. c \in Used(a.B) /\ c # b
    BY <1>1
  <2> QED
    BY <2>1, <1>1, <1>2, UsedFacts
<1> QED
  BY <1>1, <1>2, <1>3, <1>4, <1>5

\* add_range accepts it.
LEMMA OwnsAccepts ==
  ASSUME NEW h, NEW s, Whole(h, s), NEW rs, NEW bl, NEW U, Owns(h, rs, bl, U, s),
         NEW n \in Nat, n # 0, NEW r, Allocates(h, r, s, n)
  PROVE  Accepts(rs, r.p, n, Start, r.h.brk - 1)
<1>1. PICK a, b : a = After(s, n) /\ b = Gotten(s, n)
  OBVIOUS
<1>2. /\ Whole(r.h, a) /\ Used(a.B) = Used(s.B) \cup {b}
      /\ r.p = 8 * b.lo /\ b \in Used(a.B) /\ b \notin Used(s.B)
      /\ b.lo \in Nat /\ b.len \in Nat /\ Roomy(b, n)
  BY <1>1, AllocatesFacts
<1>3. /\ First <= b.lo /\ b.lo + b.len <= a.t /\ a.t \in Nat /\ r.h.brk = 8 * a.t
      /\ 8 * First = Start + 56 /\ First \in Nat /\ Start \in Nat
  <2>1. First <= b.lo /\ b.lo + b.len <= a.t
    BY <1>2, UsedFacts
  <2>2. a.t \in Nat /\ r.h.brk = 8 * a.t
    BY <1>2, WholeFacts
  <2> QED
    BY <2>1, <2>2, FirstFacts, WordFacts
<1>4. PICK l \in Nat, m \in Nat, t \in Nat : l = b.lo /\ m = b.len /\ t = a.t
  BY <1>2, <1>3
<1>5. /\ r.p = 8 * l /\ n + 8 <= 8 * m /\ First <= l /\ l + m <= t /\ r.h.brk = 8 * t
  BY <1>2, <1>3, <1>4 DEF Roomy
<1>6. /\ r.p % 8 = 0 /\ Start <= r.p /\ r.p <= r.h.brk - 1
      /\ Start <= r.p + n - 1 /\ r.p + n - 1 <= r.h.brk - 1
  BY <1>3, <1>5
<1>7. ASSUME NEW k \in DOMAIN rs PROVE ~Within(r.p, rs[k]) /\ ~Within(r.p + n - 1, rs[k])
  <2>1. Tenants(bl, U, s) /\ Listing(rs, bl, U)
    BY DEF Owns
  <2>2. k \in 1 .. Len(rs)
    BY <2>1, LenProperties DEF Listing
  <2>3. rs[k] \in Entries(rs)
    BY <2>2 DEF Entries
  <2>4. PICK i \in U : rs[k] = Entry(bl[i])
    BY <2>1, <2>3 DEF Listing
  <2>5. PICK c \in Used(s.B) :
           /\ rs[k] \in Interval /\ rs[k].lo = 8 * c.lo
           /\ rs[k].hi < 8 * (c.lo + c.len) - 8
    BY <2>1, <2>4, EntryFacts
  <2>6. c \in Used(a.B) /\ c # b
    BY <1>2
  <2>7. Apart(c, b) /\ c.lo \in Nat /\ c.len \in Nat
    BY <2>6, <1>2, UsedFacts
  <2>8. c.lo + c.len <= b.lo \/ b.lo + b.len <= c.lo
    BY <2>6, <2>7 DEF Apart
  <2>9. PICK x \in Nat, y \in Nat, e \in Nat : x = c.lo /\ y = c.len /\ e = rs[k].hi
    BY <2>5, <2>7 DEF Interval
  <2>10. /\ rs[k].lo = 8 * x /\ e < 8 * (x + y) - 8
         /\ x + y <= l \/ l + m <= x
    BY <2>5, <2>8, <2>9, <1>4
  <2> QED
    BY <2>9, <2>10, <1>5 DEF Within
<1> QED
  BY <1>6, <1>7 DEF Accepts, Within

-----------------------------------------------------------------------------

\* What the driver does with a payload that it accepts.
Enters(r, n, i, rs, bl, U, g, v, c, W) ==
  /\ g = memset(r.h, r.p, i, n) /\ v = Added(rs, r.p, n)
  /\ c = [bl EXCEPT ![i] = [p |-> r.p, n |-> n]] /\ W = U \cup {i}

\* An accepted block belongs to its index.
LEMMA OwnsAlloc ==
  ASSUME NEW h, NEW s, Whole(h, s), NEW rs, NEW bl, NEW U, Owns(h, rs, bl, U, s),
         NEW n \in Nat, n # 0, NEW r, Allocates(h, r, s, n),
         NEW i \in Ids, i \notin U, NEW g, NEW v, NEW c, NEW W,
         Enters(r, n, i, rs, bl, U, g, v, c, W), NEW a, a = After(s, n)
  PROVE  Whole(g, a) /\ Owns(g, v, c, W, a)
<1>0. /\ g = memset(r.h, r.p, i, n) /\ v = Added(rs, r.p, n)
      /\ c = [bl EXCEPT ![i] = [p |-> r.p, n |-> n]] /\ W = U \cup {i}
  BY DEF Enters
<1> USE <1>0
<1>1. PICK b : b = Gotten(s, n)
  OBVIOUS
<1>2. /\ Whole(r.h, a) /\ Spares(h, r.h, Used(s.B)) /\ Used(a.B) = Used(s.B) \cup {b}
      /\ r.p = 8 * b.lo /\ b \in a.B /\ b.used /\ b \notin Used(s.B) /\ b \in Used(a.B)
      /\ b.lo \in Nat /\ b.len \in Nat /\ Roomy(b, n) /\ 8 * b.lo \in Nat
      /\ \A d \in Used(s.B) : 8 * d.lo # 8 * b.lo
  BY <1>1, AllocatesFacts
<1>3. i \in 0 .. 127 /\ Ids \subseteq 0 .. 127
  BY DriverAssumption
<1>4. PICK k : k = r.h
  OBVIOUS
<1>5. Whole(k, a) /\ g = memset(k, 8 * b.lo, i, n)
  BY <1>2, <1>4
<1>6. Whole(g, a) /\ Spares(k, g, Used(a.B) \ {b}) /\ Filled(g, 8 * b.lo, n, i)
  BY <1>2, <1>3, <1>5, MemsetKeeps
<1>7. Tenants(bl, U, s) /\ Listing(rs, bl, U) /\ Contents(h, bl, U)
  BY DEF Owns
<1>8. /\ U \subseteq Ids /\ bl \in [Ids -> [p : Nat, n : Nat]]
      /\ c \in [Ids -> [p : Nat, n : Nat]] /\ c[i] = [p |-> r.p, n |-> n]
      /\ \A j \in U : c[j] = bl[j] /\ j # i
  BY <1>2, <1>7 DEF Tenants
<1>9. c[i].p = 8 * b.lo /\ c[i].n = n
  BY <1>2, <1>8
<1>10. Tenants(c, W, a)
  <2>1. W \subseteq Ids
    BY <1>8
  <2>2. ASSUME NEW j \in W
        PROVE  c[j].n # 0 /\ \E d \in Used(a.B) : c[j].p = 8 * d.lo /\ Roomy(d, c[j].n)
    <3>1. CASE j = i
      BY <3>1, <1>2, <1>9
    <3>2. CASE j # i
      <4>1. j \in U /\ c[j] = bl[j]
        BY <3>2, <1>8
      <4>2. bl[j].n # 0 /\ \E d \in Used(s.B) : bl[j].p = 8 * d.lo /\ Roomy(d, bl[j].n)
        BY <4>1, <1>7 DEF Tenants
      <4> QED
        BY <4>1, <4>2, <1>2
    <3> QED
      BY <3>1, <3>2
  <2>3. ASSUME NEW d \in Used(a.B) PROVE \E j \in W : c[j].p = 8 * d.lo
    <3>1. CASE d = b
      BY <3>1, <1>9
    <3>2. CASE d # b
      <4>1. d \in Used(s.B)
        BY <3>2, <1>2
      <4>2. PICK j \in U : bl[j].p = 8 * d.lo
        BY <4>1, <1>7 DEF Tenants
      <4> QED
        BY <4>2, <1>8
    <3> QED
      BY <3>1, <3>2
  <2>4. ASSUME NEW j \in W, NEW l \in W, c[j].p = c[l].p PROVE j = l
    <3>1. \A e \in U : c[e].p # 8 * b.lo
      <4> TAKE e \in U
      <4>1. c[e] = bl[e] /\ \E d \in Used(s.B) : bl[e].p = 8 * d.lo
        BY <1>7, <1>8 DEF Tenants
      <4> QED
        BY <4>1, <1>2
    <3>2. CASE j = i \/ l = i
      BY <3>1, <3>2, <2>4, <1>9
    <3>3. CASE j # i /\ l # i
      <4>1. j \in U /\ l \in U /\ bl[j].p = bl[l].p
        BY <3>3, <2>4, <1>8
      <4> QED
        BY <4>1, <1>7 DEF Tenants
    <3> QED
      BY <3>2, <3>3
  <2> QED
    BY <2>1, <2>2, <2>3, <2>4, <1>8 DEF Tenants
<1>11. Listing(v, c, W)
  <2>1. PICK p : p = [lo |-> 8 * b.lo, hi |-> 8 * b.lo + n - 1]
    OBVIOUS
  <2>2. p \in Interval /\ p = Entry(c[i])
    <3>1. 8 * b.lo + n - 1 \in Nat
      BY <1>2
    <3> QED
      BY <3>1, <2>1, <1>2, <1>9 DEF Interval, Entry
  <2>3. \A e \in Entries(rs) : e.lo # 8 * b.lo
    <3> SUFFICES ASSUME NEW e \in Entries(rs) PROVE e.lo # 8 * b.lo
      OBVIOUS
    <3>1. \E d \in Used(s.B) : e.lo = 8 * d.lo
      BY OwnsRanged DEF Ranged
    <3> QED
      BY <3>1, <1>2
  <2>4. v = Added(rs, 8 * b.lo, n)
    BY <1>2
  <2>5. rs \in Seq(Interval) /\ StartsDiffer(rs)
    BY <1>7 DEF Listing
  <2>6. PICK u : u = Added(rs, 8 * b.lo, n)
    OBVIOUS
  <2>7. /\ Entries(u) = Entries(rs) \cup {p}
        /\ StartsDiffer(u) /\ u \in Seq(Interval)
    BY <2>1, <2>2, <2>3, <2>5, <2>6, AddedEntries
  <2>8. Entries(rs) \cup {p} = {Entry(c[j]) : j \in W}
    <3>1. Entries(rs) = {Entry(bl[j]) : j \in U}
      BY <1>7 DEF Listing
    <3>2. \A j \in U : Entry(c[j]) = Entry(bl[j])
      BY <1>8
    <3> QED
      BY <3>1, <3>2, <2>2
  <2> QED
    BY <2>4, <2>6, <2>7, <2>8 DEF Listing
<1>12. Contents(g, c, W)
  <2> SUFFICES ASSUME NEW j \in W PROVE Filled(g, c[j].p, c[j].n, j)
    BY DEF Contents
  <2>1. CASE j = i
    BY <2>1, <1>6, <1>9
  <2>2. CASE j # i
    <3>1. j \in U /\ c[j] = bl[j]
      BY <2>2, <1>8
    <3>2. PICK d \in Used(s.B) : bl[j].p = 8 * d.lo /\ Roomy(d, bl[j].n) /\ bl[j].n \in Nat
      BY <3>1, <1>7, EntryFacts
    <3>3. Filled(h, 8 * d.lo, bl[j].n, j)
      BY <3>1, <3>2, <1>7 DEF Contents
    <3>4. d.lo \in Nat /\ d.len \in Nat /\ d \in Used(a.B) \ {b}
      BY <1>2, UsedFacts
    <3>5. Spares(h, g, Used(s.B))
      <4>1. Used(s.B) \subseteq Used(a.B) \ {b}
        BY <1>2
      <4>2. Spares(k, g, Used(s.B))
        BY <4>1, <1>6, SparesFewer
      <4>3. Spares(h, k, Used(s.B))
        BY <1>2, <1>4
      <4> QED
        BY <4>2, <4>3, SparesTwice
    <3>6. Filled(g, 8 * d.lo, bl[j].n, j)
      BY <3>2, <3>3, <3>4, <3>5, FilledKept
    <3> QED
      BY <3>1, <3>2, <3>6
  <2> QED
    BY <2>1, <2>2
<1> QED
  BY <1>6, <1>10, <1>11, <1>12 DEF Owns

\* The block of an index.
LEMMA OwnsBlock ==
  ASSUME NEW h, NEW s, Whole(h, s), NEW rs, NEW bl, NEW U, Owns(h, rs, bl, U, s), NEW i \in U
  PROVE  \E b \in s.B : b.used /\ b \in Used(s.B) /\ bl[i].p = 8 * b.lo /\ b.lo \in Nat
<1>1. PICK b \in Used(s.B) : bl[i].p = 8 * b.lo
  BY DEF Owns, Tenants
<1> QED
  BY <1>1, UsedFacts

\* A freed block belongs to no index.
LEMMA OwnsFree ==
  ASSUME NEW h, NEW s, Whole(h, s), NEW rs, NEW bl, NEW U, Owns(h, rs, bl, U, s),
         NEW i \in U, NEW b \in s.B, b.used, bl[i].p = 8 * b.lo,
         NEW g, g = mm_free(h, 8 * b.lo), NEW v, v = Removed(rs, 8 * b.lo),
         NEW W, W = U \ {i}, NEW f, f = Freed(s, b)
  PROVE  Whole(g, f) /\ Owns(g, v, bl, W, f)
<1>1. PICK m : Frees(h, g, s, b, m)
  BY FreeIs
<1>2. Whole(g, f) /\ Spares(h, g, Used(s.B) \ {b}) /\ Used(f.B) = Used(s.B) \ {b}
  BY <1>1 DEF Frees
<1>3. Tenants(bl, U, s) /\ Listing(rs, bl, U) /\ Contents(h, bl, U)
  BY DEF Owns
<1>4. b \in Used(s.B)
  BY DEF Used
<1>5. \A d \in Used(s.B) : 8 * d.lo = 8 * b.lo => d = b
  BY <1>4, UsedFacts
<1>6. \A j \in U : bl[j].p = 8 * b.lo => j = i
  BY <1>3 DEF Tenants
<1>7. Tenants(bl, W, f)
  <2>1. ASSUME NEW j \in W
        PROVE  bl[j].n # 0 /\ \E d \in Used(f.B) : bl[j].p = 8 * d.lo /\ Roomy(d, bl[j].n)
    <3>1. j \in U /\ bl[j].p # 8 * b.lo
      BY <1>6
    <3>2. bl[j].n # 0 /\ \E d \in Used(s.B) : bl[j].p = 8 * d.lo /\ Roomy(d, bl[j].n)
      BY <3>1, <1>3 DEF Tenants
    <3> QED
      BY <3>1, <3>2, <1>2
  <2>2. ASSUME NEW d \in Used(f.B) PROVE \E j \in W : bl[j].p = 8 * d.lo
    <3>1. d \in Used(s.B) /\ d # b
      BY <1>2
    <3>2. PICK j \in U : bl[j].p = 8 * d.lo
      BY <3>1, <1>3 DEF Tenants
    <3>3. j # i
      BY <3>1, <3>2, <1>5
    <3> QED
      BY <3>2, <3>3
  <2> QED
    BY <2>1, <2>2, <1>3 DEF Tenants
<1>8. Listing(v, bl, W)
  <2>1. rs \in Seq(Interval) /\ StartsDiffer(rs) /\ Entries(rs) = {Entry(bl[j]) : j \in U}
    BY <1>3 DEF Listing
  <2>2. PICK u : u = Removed(rs, 8 * b.lo)
    OBVIOUS
  <2>3. /\ Entries(Removed(rs, 8 * b.lo)) = {r \in Entries(rs) : r.lo # 8 * b.lo}
        /\ StartsDiffer(Removed(rs, 8 * b.lo))
    BY <2>1, RemovedEntries
  <2>4. Entries(u) = {r \in Entries(rs) : r.lo # 8 * b.lo} /\ StartsDiffer(u)
    BY <2>2, <2>3
  <2>5. \A j \in U : Entry(bl[j]).lo = bl[j].p
    BY DEF Entry
  <2>6. {r \in Entries(rs) : r.lo # 8 * b.lo} = {Entry(bl[j]) : j \in W}
    BY <2>1, <2>5, <1>6
  <2>7. u \in Seq(Interval)
    <3>1. Ranged(rs, Used(s.B))
      BY OwnsRanged
    <3>2. Ranged(u, Used(s.B) \ {b})
      BY <3>1, <2>2, RangedWithout
    <3> QED
      BY <3>2 DEF Ranged
  <2> QED
    BY <2>2, <2>4, <2>6, <2>7 DEF Listing
<1>9. Contents(g, bl, W)
  <2> SUFFICES ASSUME NEW j \in W PROVE Filled(g, bl[j].p, bl[j].n, j)
    BY DEF Contents
  <2>1. j \in U /\ bl[j].p # 8 * b.lo
    BY <1>6
  <2>2. PICK d \in Used(s.B) : bl[j].p = 8 * d.lo /\ Roomy(d, bl[j].n) /\ bl[j].n \in Nat
    BY <2>1, <1>3, EntryFacts
  <2>3. Filled(h, 8 * d.lo, bl[j].n, j)
    BY <2>1, <2>2, <1>3 DEF Contents
  <2>4. d.lo \in Nat /\ d.len \in Nat /\ d \in Used(s.B) \ {b}
    BY <2>1, <2>2, UsedFacts
  <2>5. Filled(g, 8 * d.lo, bl[j].n, j)
    BY <2>2, <2>3, <2>4, <1>2, FilledKept
  <2> QED
    BY <2>2, <2>5
<1> QED
  BY <1>2, <1>7, <1>8, <1>9 DEF Owns

\* At first there is nothing.
LEMMA OwnsNothing ==
  ASSUME NEW mem \in [Words -> Nat], NEW h, h = mm_init(mem), NEW bl,
         bl \in [Ids -> [p : Nat, n : Nat]]
  PROVE  Whole(h, Fresh) /\ Owns(h, <<>>, bl, {}, Fresh)
<1>1. Whole(h, Fresh) /\ Used(Fresh.B) = {}
  BY InitIs
<1>2. Tenants(bl, {}, Fresh)
  BY <1>1 DEF Tenants
<1>3. Listing(<<>>, bl, {})
  <2>1. <<>> \in Seq(Interval) /\ Len(<<>>) = 0
    BY EmptySeq
  <2>2. Entries(<<>>) = {} /\ StartsDiffer(<<>>)
    BY <2>1 DEF Entries, StartsDiffer
  <2> QED
    BY <2>1, <2>2 DEF Listing
<1>4. Contents(h, bl, {})
  BY DEF Contents
<1> QED
  BY <1>1, <1>2, <1>3, <1>4 DEF Owns

-----------------------------------------------------------------------------
(* The states of the driver.  s is what the heap holds.                    *)

State(h, rs, bl, U, ev, er, s) ==
  /\ Whole(h, s)
  /\ bl \in [Ids -> [p : Nat, n : Nat]]
  /\ ev \in BOOLEAN
  /\ ev => Owns(h, rs, bl, U, s) /\ er = "none"
  /\ er \notin {"range", "leak"}

DriverInv == \E s : State(heap, ranges, block, inUse, evaluating, error, s)

Now(s)   == State(heap, ranges, block, inUse, evaluating, error, s)
Then(s) == State(heap', ranges', block', inUse', evaluating', error', s)

\* A request to allocate: z is what the heap holds then.
Served(s, i, n, z) ==
  /\ Serves(s, n) /\ z = After(s, n) /\ Then(z)
  /\ evaluating' = TRUE /\ error' = "none" /\ inUse' = inUse \cup {i}
  /\ block' = [block EXCEPT ![i] = [p |-> 8 * Gotten(s, n).lo, n |-> n]]

Refused(s, n) ==
  /\ ~Serves(s, n) /\ Then(s)
  /\ evaluating' = FALSE /\ error' = "malloc" /\ heap' = heap /\ block' = block

LEMMA InitState ==
  ASSUME Init
  PROVE  Now(Fresh) /\ inUse = {} /\ evaluating = TRUE /\ error = "none"
<1>1. PICK g \in Garbage : /\ heap = mm_init([a \in Words |-> g])
                           /\ ranges = <<>>
                           /\ block = [i \in Ids |-> Unset]
                           /\ inUse = {} /\ error = "none" /\ evaluating = TRUE
  BY DEF Init
<1>2. g \in Nat
  BY DriverAssumption
<1>3. PICK mem \in [Words -> Nat] : mem = [a \in Words |-> g]
  BY <1>2
<1>4. PICK h, bl : h = mm_init(mem) /\ bl = [i \in Ids |-> Unset]
  OBVIOUS
<1>5. bl \in [Ids -> [p : Nat, n : Nat]]
  BY <1>4 DEF Unset
<1>6. Whole(h, Fresh) /\ Owns(h, <<>>, bl, {}, Fresh)
  BY <1>4, <1>5, OwnsNothing
<1> QED
  BY <1>1, <1>3, <1>4, <1>5, <1>6 DEF Now, State

LEMMA AllocState ==
  ASSUME NEW s, Now(s), NEW i \in Ids, NEW n \in Requests, Alloc(i, n)
  PROVE  Served(s, i, n, After(s, n)) \/ Refused(s, n)
<1>1. n \in Nat
  BY DriverAssumption
<1>2. PICK r : r = mm_malloc(heap, n)
  OBVIOUS
<1> DEFINE accepted == r.p # 0 /\ Accepts(ranges, r.p, n, Start, r.h.brk - 1)
<1>3. /\ evaluating /\ i \notin inUse
      /\ IF accepted
          THEN /\ heap' = memset(r.h, r.p, i, n)
               /\ ranges' = Added(ranges, r.p, n)
               /\ block' = [block EXCEPT ![i] = [p |-> r.p, n |-> n]]
               /\ inUse' = inUse \cup {i}
               /\ UNCHANGED <<error, evaluating>>
          ELSE /\ heap' = r.h
               /\ error' = IF r.p = 0 THEN "malloc" ELSE "range"
               /\ evaluating' = FALSE
               /\ UNCHANGED <<ranges, block, inUse>>
  BY <1>2 DEF Alloc, Request, Fail
<1>4. /\ Whole(heap, s) /\ Owns(heap, ranges, block, inUse, s) /\ error = "none"
      /\ block \in [Ids -> [p : Nat, n : Nat]] /\ evaluating = TRUE
  BY <1>3 DEF Now, State
<1>5. CASE Serves(s, n)
  <2>1. Allocates(heap, r, s, n) /\ n # 0
    BY <1>1, <1>2, <1>4, <1>5, MallocIs DEF Serves
  <2>2. Accepts(ranges, r.p, n, Start, r.h.brk - 1)
    BY <1>1, <1>4, <2>1, OwnsAccepts
  <2>3. PICK a, b : a = After(s, n) /\ b = Gotten(s, n)
    OBVIOUS
  <2>4. r.p = 8 * b.lo /\ 8 * b.lo # 0 /\ 8 * b.lo \in Nat
    BY <1>1, <2>1, <2>3, AllocatesFacts
  <2>5. accepted
    BY <2>2, <2>4
  <2> HIDE DEF accepted
  <2>6. /\ heap' = memset(r.h, r.p, i, n)
        /\ ranges' = Added(ranges, r.p, n)
        /\ block' = [block EXCEPT ![i] = [p |-> r.p, n |-> n]]
        /\ inUse' = inUse \cup {i}
        /\ error' = "none" /\ evaluating' = TRUE
    BY <2>5, <1>3, <1>4
  <2>7. PICK g, v, c, W : g = heap' /\ v = ranges' /\ c = block' /\ W = inUse'
    OBVIOUS
  <2>8. Whole(g, a) /\ Owns(g, v, c, W, a)
    <3>1. /\ g = memset(r.h, r.p, i, n) /\ v = Added(ranges, r.p, n)
          /\ c = [block EXCEPT ![i] = [p |-> r.p, n |-> n]] /\ W = inUse \cup {i}
      BY <2>6, <2>7
    <3>2. PICK h, rs, bl, U : h = heap /\ rs = ranges /\ bl = block /\ U = inUse
      OBVIOUS
    <3>3. Whole(h, s) /\ Owns(h, rs, bl, U, s) /\ Allocates(h, r, s, n) /\ i \notin U
      BY <3>2, <1>3, <1>4, <2>1
    <3>4. Enters(r, n, i, rs, bl, U, g, v, c, W)
      BY <3>1, <3>2 DEF Enters
    <3>5. n \in Nat /\ n # 0 /\ a = After(s, n)
      BY <1>1, <2>1, <2>3
    <3> QED
      BY <3>3, <3>4, <3>5, OwnsAlloc
  <2>9. Then(a)
    <3>1. c \in [Ids -> [p : Nat, n : Nat]]
      BY <2>8 DEF Owns, Tenants
    <3> QED
      BY <3>1, <2>6, <2>7, <2>8 DEF Then, State
  <2> QED
    BY <1>5, <2>3, <2>4, <2>6, <2>9 DEF Served
<1>6. CASE ~Serves(s, n)
  <2>1. r = [h |-> heap, p |-> 0]
    BY <1>1, <1>2, <1>4, <1>6, MallocFails
  <2>2. ~accepted /\ r.h = heap /\ r.p = 0
    BY <2>1
  <2> HIDE DEF accepted
  <2>3. /\ heap' = heap /\ error' = "malloc" /\ evaluating' = FALSE
        /\ block' = block
    BY <2>2, <1>3
  <2>4. Then(s)
    BY <2>3, <1>4 DEF Then, State
  <2> QED
    BY <1>6, <2>3, <2>4 DEF Refused
<1> QED
  BY <1>5, <1>6

\* A request to free: z is what the heap holds then.
GivenBack(s, i, b, z) ==
  /\ b \in s.B /\ b.used /\ block[i].p = 8 * b.lo /\ b.lo \in Nat
  /\ z = Freed(s, b) /\ Then(z)
  /\ evaluating' = TRUE /\ error' = "none" /\ inUse' = inUse \ {i} /\ block' = block
  /\ i \in inUse /\ heap' = mm_free(heap, 8 * b.lo)

LEMMA FreeState ==
  ASSUME NEW s, Now(s), NEW i \in Ids, Free(i)
  PROVE  \E b : GivenBack(s, i, b, Freed(s, b))
<1>1. /\ evaluating /\ i \in inUse /\ heap' = mm_free(heap, block[i].p)
      /\ ranges' = Removed(ranges, block[i].p) /\ inUse' = inUse \ {i}
      /\ UNCHANGED <<block, error, evaluating>>
  BY DEF Free, Request
<1>2. /\ Whole(heap, s) /\ Owns(heap, ranges, block, inUse, s) /\ error = "none"
      /\ block \in [Ids -> [p : Nat, n : Nat]] /\ evaluating = TRUE
  BY <1>1 DEF Now, State
<1>3. PICK b \in s.B : b.used /\ block[i].p = 8 * b.lo /\ b.lo \in Nat
  BY <1>1, <1>2, OwnsBlock
<1>4. PICK g, v, W, f : g = heap' /\ v = ranges' /\ W = inUse' /\ f = Freed(s, b)
  OBVIOUS
<1>5. Whole(g, f) /\ Owns(g, v, block, W, f)
  <2>1. PICK h, rs, bl, U : h = heap /\ rs = ranges /\ bl = block /\ U = inUse
    OBVIOUS
  <2>2. /\ Whole(h, s) /\ Owns(h, rs, bl, U, s) /\ i \in U /\ bl[i].p = 8 * b.lo
        /\ g = mm_free(h, 8 * b.lo) /\ v = Removed(rs, 8 * b.lo) /\ W = U \ {i}
    BY <2>1, <1>1, <1>2, <1>3, <1>4
  <2>3. Whole(g, f) /\ Owns(g, v, bl, W, f)
    BY <2>2, <1>3, <1>4, OwnsFree
  <2> QED
    BY <2>1, <2>3
<1>6. Then(f)
  BY <1>1, <1>2, <1>4, <1>5 DEF Then, State
<1>7. GivenBack(s, i, b, f)
  BY <1>1, <1>2, <1>3, <1>4, <1>6 DEF GivenBack
<1> QED
  BY <1>4, <1>7

\* At the end of a trace.
Ended(s) ==
  /\ \E z : /\ Then(z) /\ z.t = s.t /\ z.B = {HP!Span(First, s.t)}
  /\ error' = error /\ evaluating' = FALSE /\ block' = block

LEMMA ExitState ==
  ASSUME NEW s, Now(s), Exit
  PROVE  Ended(s)
<1>1. PICK e : e = mm_exit(heap, ranges)
  OBVIOUS
<1>2. /\ evaluating /\ heap' = e.h /\ block' = block
      /\ IF e.ranges = <<>> THEN evaluating' = FALSE /\ error' = error
         ELSE error' = "leak" /\ evaluating' = FALSE
  BY <1>1 DEF Exit, Fail
<1>3. /\ Whole(heap, s) /\ Owns(heap, ranges, block, inUse, s)
      /\ block \in [Ids -> [p : Nat, n : Nat]] /\ error = "none"
  BY <1>2 DEF Now, State
<1>4. Ranged(ranges, Used(s.B))
  BY <1>3, OwnsRanged
<1>5. Emptied(e.h, s.t) /\ e.ranges = <<>>
  BY <1>1, <1>3, <1>4, ExitIs
<1>6. PICK z : Whole(e.h, z) /\ z.t = s.t /\ z.B = {HP!Span(First, s.t)}
  BY <1>5 DEF Emptied
<1>7. error' = "none" /\ evaluating' = FALSE
  BY <1>2, <1>3, <1>5
<1>8. Then(z)
  BY <1>2, <1>3, <1>6, <1>7 DEF Then, State
<1> QED
  BY <1>2, <1>3, <1>6, <1>7, <1>8 DEF Ended

LEMMA ReallocState ==
  ASSUME NEW s, Now(s), NEW i \in Ids, NEW n \in Requests, Realloc(i, n)
  PROVE  Then(s) /\ heap' = heap
<1>1. /\ heap' = heap /\ block' = block /\ evaluating' = FALSE /\ error' = "realloc"
  BY DEF Realloc, Fail
<1> QED
  BY <1>1 DEF Now, Then, State

LEMMA NextState ==
  ASSUME NEW s, Now(s), NextTrace
  PROVE  Then(Fresh)
<1>1. /\ heap' = mm_init(heap.mem) /\ ranges' = <<>> /\ block' = [i \in Ids |-> Unset]
      /\ inUse' = {} /\ error' = "none" /\ evaluating' = TRUE
  BY DEF NextTrace
<1>2. heap.mem \in [Words -> Nat]
  BY WholeFacts DEF Now, State, Heaps
<1>3. PICK mem \in [Words -> Nat] : mem = heap.mem
  BY <1>2
<1>4. PICK h, bl : h = mm_init(mem) /\ bl = [i \in Ids |-> Unset]
  OBVIOUS
<1>5. bl \in [Ids -> [p : Nat, n : Nat]]
  BY <1>4 DEF Unset
<1>6. Whole(h, Fresh) /\ Owns(h, <<>>, bl, {}, Fresh)
  BY <1>4, <1>5, OwnsNothing
<1> QED
  BY <1>1, <1>3, <1>4, <1>5, <1>6 DEF Then, State

THEOREM DriverInvariant == Spec => []DriverInv
<1>1. Init => DriverInv
  BY InitState DEF DriverInv, Now
<1>2. DriverInv /\ [Next]_dvars => DriverInv'
  <2> SUFFICES ASSUME DriverInv, [Next]_dvars PROVE DriverInv'
    OBVIOUS
  <2>1. PICK s : Now(s)
    BY DEF DriverInv, Now
  <2> SUFFICES \E z : Then(z)
    BY DEF DriverInv, Then
  <2>2. ASSUME NEW i \in Ids, NEW n \in Requests, Alloc(i, n) PROVE \E z : Then(z)
    BY <2>1, <2>2, AllocState DEF Served, Refused
  <2>3. ASSUME NEW i \in Ids, NEW n \in Requests, Realloc(i, n) PROVE \E z : Then(z)
    BY <2>1, <2>3, ReallocState
  <2>4. ASSUME NEW i \in Ids, Free(i) PROVE \E z : Then(z)
    <3>1. PICK b : GivenBack(s, i, b, Freed(s, b))
      BY <2>1, <2>4, FreeState
    <3>2. Then(Freed(s, b))
      BY <3>1 DEF GivenBack
    <3> QED
      BY <3>2
  <2>5. ASSUME Exit PROVE \E z : Then(z)
    BY <2>1, <2>5, ExitState DEF Ended
  <2>6. ASSUME NextTrace PROVE \E z : Then(z)
    BY <2>1, <2>6, NextState
  <2>7. CASE UNCHANGED dvars
    <3>1. Then(s)
      BY <2>1, <2>7 DEF Now, Then, dvars
    <3> QED
      BY <3>1
  <2> QED
    BY <2>2, <2>3, <2>4, <2>5, <2>6, <2>7 DEF Next
<1> QED
  BY <1>1, <1>2, PTL DEF Spec

-----------------------------------------------------------------------------
(* What the states of the driver have.                                     *)

\* A block ends where the heap ends.
LEMMA LastBlock ==
  ASSUME NEW B, NEW t, Laid(B, t)
  PROVE  \E b \in B : b.lo + b.len = t
<1>1. /\ t \in Nat
      /\ \A b \in B : b.lo \in Nat /\ b.len \in Nat /\ b.len >= 2 /\ b.lo + b.len <= t
      /\ \E b \in B : b.lo = First
      /\ \A b \in B : b.lo + b.len = t \/ \E c \in B : b.lo + b.len = c.lo
  BY LaidFacts, GoodFacts
<1> DEFINE T == {x \in Nat : \E b \in B : t - b.lo = x}
<1>2. T \in SUBSET Nat /\ T # {}
  <2>1. PICK b \in B : b.lo = First
    BY <1>1
  <2>2. t - b.lo \in Nat
    BY <1>1
  <2> QED
    BY <2>2
<1>3. PICK x \in T : \A y \in T : x <= y
  <2>1. PICK z : z \in T
    BY <1>2
  <2> HIDE DEF T
  <2> QED
    BY <1>2, <2>1, LeastNatural
<1>4. PICK b \in B : t - b.lo = x
  BY <1>3
<1>5. ASSUME NEW c \in B, b.lo + b.len = c.lo PROVE FALSE
  <2>1. /\ b.lo \in Nat /\ b.len \in Nat /\ b.len >= 2 /\ c.lo \in Nat /\ c.len \in Nat
        /\ c.lo + c.len <= t
    BY <1>1
  <2>2. t - c.lo \in Nat /\ t - c.lo < t - b.lo
    BY <2>1, <1>1, <1>5
  <2>3. t - c.lo \in T
    BY <2>2
  <2>4. x <= t - c.lo
    BY <2>3, <1>3
  <2> QED
    BY <2>2, <2>4, <1>4
<1> QED
  BY <1>1, <1>5

LEMMA BlockPtrsAre ==
  ASSUME NEW s, Now(s)
  PROVE  /\ Whole(heap, s) /\ heap \in Heaps /\ Laid(s.B, s.t) /\ Tagged(heap, s.B, s.t)
         /\ Lists(heap, FreeOf(s.B), s.L) /\ heap.brk = 8 * s.t
         /\ BlockPtrs = {8 * b.lo : b \in s.B}
         /\ FreePtrs = {8 * b.lo : b \in FreeOf(s.B)}
         /\ \A b \in s.B : IsFree(heap, 8 * b.lo) <=> ~b.used
         /\ \A b \in s.B : SIZE(heap, 8 * b.lo) = 8 * b.len
<1>1. /\ Whole(heap, s) /\ heap \in Heaps /\ Laid(s.B, s.t) /\ Tagged(heap, s.B, s.t)
      /\ Lists(heap, FreeOf(s.B), s.L) /\ heap.brk = 8 * s.t
  BY WholeFacts DEF Now, State, Whole, Sound
<1>2. BlockPtrs = {8 * b.lo : b \in s.B}
  BY <1>1, WalkIs DEF BlockPtrs
<1>3. \A b \in s.B : IsFree(heap, 8 * b.lo) <=> ~b.used
  <2> TAKE b \in s.B
  <2>1. GET_ALLOC(heap, HDRP(8 * b.lo)) = Bit(b)
    BY <1>1, SizeIs
  <2> QED
    BY <2>1 DEF IsFree, Bit
<1>4. \A b \in s.B : SIZE(heap, 8 * b.lo) = 8 * b.len
  BY <1>1, SizeIs
<1>5. FreePtrs = {8 * b.lo : b \in FreeOf(s.B)}
  BY <1>2, <1>3 DEF FreePtrs, FreeOf
<1> QED
  BY <1>1, <1>2, <1>3, <1>4, <1>5

LEMMA TagsHold ==
  ASSUME NEW s, Now(s)
  PROVE  TagsMatch
<1>1. /\ Laid(s.B, s.t) /\ Tagged(heap, s.B, s.t) /\ heap.brk = 8 * s.t
      /\ BlockPtrs = {8 * b.lo : b \in s.B}
      /\ \A b \in s.B : SIZE(heap, 8 * b.lo) = 8 * b.len
  BY BlockPtrsAre
<1>2. \A b \in s.B : b.lo \in Nat /\ b.len \in Nat
  BY <1>1, LaidFacts
<1>3. ASSUME NEW p \in BlockPtrs PROVE GET(heap, FTRP(heap, p)) = GET(heap, HDRP(p))
  <2>1. PICK b \in s.B : p = 8 * b.lo
    BY <1>1
  <2>2. /\ heap.mem[8 * b.lo - 4] = 8 * b.len + Bit(b)
        /\ heap.mem[8 * (b.lo + b.len) - 8] = 8 * b.len + Bit(b)
    BY <1>1 DEF Tagged
  <2>3. FTRP(heap, p) = 8 * (b.lo + b.len) - 8 /\ HDRP(p) = 8 * b.lo - 4
    BY <1>1, <1>2, <2>1 DEF FTRP, HDRP, DSIZE, WSIZE
  <2> QED
    BY <2>2, <2>3 DEF GET
<1>4. \E p \in BlockPtrs : p + SIZE(heap, p) = heap.brk
  <2>1. PICK b \in s.B : b.lo + b.len = s.t
    BY <1>1, LastBlock
  <2>2. 8 * b.lo + SIZE(heap, 8 * b.lo) = heap.brk
    BY <1>1, <1>2, <2>1
  <2> QED
    BY <1>1, <2>2
<1>5. GET(heap, HDRP(heap.brk)) = 1
  BY <1>1 DEF Tagged, GET, HDRP, WSIZE
<1> QED
  BY <1>3, <1>4, <1>5 DEF TagsMatch

\* The list of root i in memory.
LEMMA ListIs ==
  ASSUME NEW s, Now(s), NEW i \in Roots
  PROVE  /\ s.L[i].n \in Nat
         /\ List(i) = [k \in 1 .. s.L[i].n |-> 8 * s.L[i].at[k].lo]
<1> DEFINE z == s.L[i]
           node == Node(heap, RootOf(i))
           Ends(k) == node[k] = 0 /\ \A j \in 0 .. k - 1 : node[j] # 0
           len == CHOOSE k \in 0 .. MaxLen : Ends(k)
<1>1. /\ heap \in Heaps /\ Laid(s.B, s.t) /\ Lists(heap, FreeOf(s.B), s.L)
  BY BlockPtrsAre
<1>2. Chain(heap, i, z) /\ Order(i, z, FreeOf(s.B)) /\ FreeOf(s.B) \in SUBSET s.B
  BY <1>1 DEF Lists, FreeOf
<1>3. List(i) = [k \in 1 .. len |-> node[k - 1]]
  BY DEF List
<1>4. PICK w : w = node
  OBVIOUS
<1>5. \A k \in Nat : w[k] = Addr(z, k + 1)
  <2>1. \A k \in Nat : node[k] = Addr(z, k + 1)
    <3> HIDE DEF z, node
    <3>1. PICK y : y = z
      OBVIOUS
    <3>2. Chain(heap, i, y) /\ Order(i, y, FreeOf(s.B))
      BY <3>1, <1>2
    <3>3. \A k \in Nat : Node(heap, RootOf(i))[k] = Addr(y, k + 1)
      BY <3>2, <1>1, <1>2, NodeIs
    <3> QED
      BY <3>1, <3>3 DEF node
  <2> QED
    BY <2>1, <1>4
<1>6. z.n \in 0 .. MaxLen /\ MaxLen \in Nat
  BY <1>1, <1>2, ListFits, MaxLenFacts
<1>7. AddrFine(z)
  BY <1>1, <1>2, AddrsFine
<1> DEFINE D(k) == w[k] = 0 /\ \A j \in 0 .. k - 1 : w[j] # 0
<1>8. len = CHOOSE k \in 0 .. MaxLen : D(k)
  BY <1>4
<1> HIDE DEF z, node, len
<1>9. D(z.n)
  <2>1. w[z.n] = 0
    BY <1>5, <1>6, <1>7 DEF AddrFine
  <2>2. \A j \in 0 .. z.n - 1 : w[j] # 0
    <3> TAKE j \in 0 .. z.n - 1
    <3>1. j \in Nat /\ j + 1 \in 1 .. z.n /\ j + 1 \in Int
      BY <1>6
    <3> QED
      BY <3>1, <1>5, <1>7 DEF AddrFine
  <2> QED
    BY <2>1, <2>2
<1>10. \A k \in 0 .. MaxLen : D(k) => k = z.n
  <2> SUFFICES ASSUME NEW k \in 0 .. MaxLen, D(k) PROVE k = z.n
    OBVIOUS
  <2>1. k \in Nat /\ z.n \in Nat
    BY <1>6
  <2>2. ~(k < z.n)
    <3> SUFFICES ASSUME k < z.n PROVE FALSE
      OBVIOUS
    <3>1. k \in 0 .. z.n - 1
      BY <2>1
    <3> QED
      BY <3>1, <1>9
  <2>3. ~(z.n < k)
    <3> SUFFICES ASSUME z.n < k PROVE FALSE
      OBVIOUS
    <3>1. z.n \in 0 .. k - 1
      BY <2>1
    <3> QED
      BY <3>1, <1>9
  <2> QED
    BY <2>1, <2>2, <2>3
<1>11. len = z.n
  <2> HIDE DEF D
  <2> QED
    BY <1>6, <1>8, <1>9, <1>10
<1>12. \A k \in 1 .. z.n : w[k - 1] = 8 * z.at[k].lo
  <2> TAKE k \in 1 .. z.n
  <2>1. k - 1 \in Nat /\ (k - 1) + 1 = k
    BY <1>6
  <2>2. w[k - 1] = Addr(z, k)
    BY <2>1, <1>5
  <2> QED
    BY <2>2 DEF Addr
<1> QED
  BY <1>3, <1>4, <1>6, <1>11, <1>12 DEF z

LEMMA ListsHold ==
  ASSUME NEW s, Now(s)
  PROVE  ListsExact
<1>1. /\ Laid(s.B, s.t) /\ Lists(heap, FreeOf(s.B), s.L)
      /\ FreePtrs = {8 * b.lo : b \in FreeOf(s.B)}
      /\ \A b \in s.B : SIZE(heap, 8 * b.lo) = 8 * b.len
  BY BlockPtrsAre
<1>2. \A b \in FreeOf(s.B) : b \in s.B /\ b.lo \in Nat /\ b.len \in Nat
  BY <1>1, LaidFacts DEF FreeOf
<1>3. ASSUME NEW i \in Roots, NEW k \in DOMAIN List(i)
      PROVE  /\ List(i)[k] \in FreePtrs
             /\ Category(SIZE(heap, List(i)[k])) = i
             /\ GET(heap, PREV_LINK(List(i)[k])) = IF k = 1 THEN 0 ELSE List(i)[k - 1]
             /\ k > 1 => SIZE(heap, List(i)[k - 1]) <= SIZE(heap, List(i)[k])
  <2>1. PICK z : z = s.L[i]
    OBVIOUS
  <2>2. Chain(heap, i, z) /\ Order(i, z, FreeOf(s.B))
    BY <1>1, <2>1 DEF Lists
  <2>3. z.n \in Nat /\ List(i) = [j \in 1 .. z.n |-> 8 * z.at[j].lo]
    BY <2>1, ListIs
  <2>4. k \in 1 .. z.n
    BY <2>3
  <2>5. z.at[k] \in FreeOf(s.B) /\ Cat(z.at[k]) = i /\ List(i)[k] = 8 * z.at[k].lo
    BY <2>2, <2>3, <2>4 DEF Order
  <2>6. List(i)[k] \in FreePtrs
    BY <2>5, <1>1
  <2>7. SIZE(heap, List(i)[k]) = 8 * z.at[k].len
    BY <2>5, <1>1, <1>2
  <2>8. Category(SIZE(heap, List(i)[k])) = i
    BY <2>5, <2>7 DEF Cat
  <2>9. GET(heap, PREV_LINK(List(i)[k])) = Addr(z, k - 1)
    BY <2>2, <2>4, <2>5 DEF Chain, GET, PREV_LINK
  <2>10. CASE k = 1
    <3>1. Addr(z, k - 1) = 0
      BY <2>10 DEF Addr
    <3> QED
      BY <3>1, <2>6, <2>8, <2>9, <2>10
  <2>11. CASE k # 1
    <3>1. k - 1 \in 1 .. z.n /\ k - 1 < k
      BY <2>3, <2>4, <2>11
    <3>2. Addr(z, k - 1) = List(i)[k - 1] /\ List(i)[k - 1] = 8 * z.at[k - 1].lo
      BY <3>1, <2>3 DEF Addr
    <3>3. z.at[k - 1] \in FreeOf(s.B) /\ z.at[k - 1].len <= z.at[k].len
      BY <2>2, <2>4, <3>1 DEF Order
    <3>4. SIZE(heap, List(i)[k - 1]) = 8 * z.at[k - 1].len
      BY <3>2, <3>3, <1>1, <1>2
    <3>5. SIZE(heap, List(i)[k - 1]) <= SIZE(heap, List(i)[k])
      BY <2>5, <2>7, <3>3, <3>4, <1>2
    <3> QED
      BY <3>2, <3>5, <2>6, <2>8, <2>9, <2>11
  <2> QED
    BY <2>10, <2>11
<1>4. ASSUME NEW p \in FreePtrs PROVE \E i \in Roots : p \in ToSet(List(i))
  <2>1. PICK b \in FreeOf(s.B) : p = 8 * b.lo
    BY <1>1
  <2>2. Cat(b) \in Roots
    BY <2>1, <1>2, CatFacts
  <2>3. PICK i \in Roots : i = Cat(b)
    BY <2>2
  <2>4. PICK z : z = s.L[i]
    OBVIOUS
  <2>5. Order(i, z, FreeOf(s.B))
    BY <1>1, <2>4 DEF Lists
  <2>6. PICK k \in 1 .. z.n : z.at[k] = b
    BY <2>3, <2>5 DEF Order
  <2>7. List(i) = [j \in 1 .. z.n |-> 8 * z.at[j].lo]
    BY <2>4, ListIs
  <2>8. k \in DOMAIN List(i) /\ List(i)[k] = p
    BY <2>1, <2>6, <2>7
  <2> QED
    BY <2>8 DEF ToSet
<1> QED
  BY <1>3, <1>4 DEF ListsExact

-----------------------------------------------------------------------------

\* The first block of each list that is not empty.
LEMMA HeadsAre ==
  ASSUME NEW s, Now(s), NEW p \in Heads(heap)
  PROVE  \E b \in FreeOf(s.B) : p = 8 * b.lo /\ heap.mem[8 * b.lo] = 0
<1>1. PICK i \in Roots : p = heap.mem[RootOf(i)] /\ p # 0
  BY DEF Heads, GET
<1>2. PICK z : z = s.L[i]
  OBVIOUS
<1>3. Chain(heap, i, z) /\ Order(i, z, FreeOf(s.B))
  BY <1>2, BlockPtrsAre DEF Lists
<1>4. heap.mem[RootOf(i)] = Addr(z, 1) /\ z.n \in Nat
  BY <1>3 DEF Chain
<1>5. 1 \in 1 .. z.n /\ Addr(z, 1) = 8 * z.at[1].lo
  BY <1>1, <1>4 DEF Addr
<1>6. heap.mem[8 * z.at[1].lo] = Addr(z, 0)
  <2>1. heap.mem[8 * z.at[1].lo] = Addr(z, 1 - 1)
    BY <1>3, <1>5 DEF Chain
  <2> QED
    BY <2>1
<1>7. Addr(z, 0) = 0
  BY DEF Addr
<1>8. z.at[1] \in FreeOf(s.B)
  BY <1>3, <1>5 DEF Order
<1> QED
  BY <1>1, <1>4, <1>5, <1>6, <1>7, <1>8

LEMMA CheckHolds ==
  ASSUME NEW s, Now(s)
  PROVE  mm_check(heap)
<1>1. /\ Whole(heap, s) /\ Laid(s.B, s.t) /\ heap.brk = 8 * s.t
      /\ BlockPtrs = {8 * b.lo : b \in s.B}
      /\ FreePtrs = {8 * b.lo : b \in FreeOf(s.B)}
      /\ \A b \in s.B : IsFree(heap, 8 * b.lo) <=> ~b.used
      /\ \A b \in s.B : SIZE(heap, 8 * b.lo) = 8 * b.len
  BY BlockPtrsAre
<1>2. /\ \A b \in s.B : /\ b.lo \in Nat /\ b.len \in Nat /\ b.len >= 2
                        /\ First <= b.lo /\ b.lo + b.len <= s.t
      /\ s.t \in Nat /\ First \in Nat /\ 8 * First = Start + 56 /\ Start \in Nat
  BY <1>1, LaidFacts, FirstFacts, WordFacts
<1>3. CheckedFreeMarkedInFreeList(heap)
  <2> SUFFICES ASSUME NEW p \in Heads(heap) PROVE GET_ALLOC(heap, p) = 0
    BY DEF CheckedFreeMarkedInFreeList
  <2>1. heap.mem[p] = 0
    BY HeadsAre
  <2> QED
    BY <2>1 DEF GET_ALLOC, GET
<1>4. checkEscapedCoalesce(heap)
  <2>1. FreePtrs = {p \in Walk(heap) : IsFree(heap, p)}
    BY DEF FreePtrs, BlockPtrs
  <2>2. ASSUME NEW p \in FreePtrs, NEW q \in FreePtrs PROVE NEXT_BLKP(heap, p) # q
    <3>1. PICK b \in s.B, c \in s.B : /\ p = 8 * b.lo /\ q = 8 * c.lo
                                      /\ ~b.used /\ ~c.used
      BY <1>1 DEF FreeOf
    <3>2. ~HP!Adjacent(b, c)
      BY <3>1, <1>1 DEF Whole, HP!CoalescedIn, HP!Free2
    <3>3. b.lo + b.len # c.lo
      BY <3>2 DEF HP!Adjacent, HP!End
    <3>4. NEXT_BLKP(heap, p) = 8 * (b.lo + b.len)
      BY <3>1, <1>1, <1>2 DEF NEXT_BLKP
    <3> QED
      BY <3>1, <3>3, <3>4, <1>2
  <2> QED
    BY <2>1, <2>2 DEF checkEscapedCoalesce
<1>5. isEveryFreeBlockInFreeList(heap)
  <2> SUFFICES ASSUME NEW p \in BlockPtrs PROVE \E i \in Roots : p + i * WSIZE = p
    BY DEF isEveryFreeBlockInFreeList, BlockPtrs
  <2>1. PICK b \in s.B : p = 8 * b.lo
    BY <1>1
  <2>2. p \in Nat /\ 0 \in Roots
    BY <2>1, <1>2 DEF Roots
  <2>3. p + 0 * WSIZE = p
    BY <2>2 DEF WSIZE
  <2> QED
    BY <2>2, <2>3
<1>6. ASSUME NEW p \in Heads(heap)
      PROVE  SIZE(heap, p) > 0 /\ Start < p /\ p < heap.brk - 1
  <2>1. PICK b \in s.B : p = 8 * b.lo
    BY HeadsAre DEF FreeOf
  <2>2. /\ b.lo \in Nat /\ b.len \in Nat /\ b.len >= 2 /\ First <= b.lo /\ b.lo + b.len <= s.t
        /\ SIZE(heap, p) = 8 * b.len
    BY <2>1, <1>1, <1>2
  <2> QED
    BY <2>1, <2>2, <1>1, <1>2
<1> QED
  BY <1>3, <1>4, <1>5, <1>6
     DEF mm_check, checkPointerInFreeListValid, checkPointerInHeapBlockValid

LEMMA RangesHold ==
  ASSUME NEW s, Now(s)
  PROVE  RangesAreLive
<1> SUFFICES ASSUME evaluating
             PROVE  /\ ToSet(ranges) = {[lo |-> block[i].p, hi |-> block[i].p + block[i].n - 1]
                                          : i \in inUse}
                    /\ \A k, l \in DOMAIN ranges : k # l => ~Overlap(ranges[k], ranges[l])
  BY DEF RangesAreLive
<1>1. Whole(heap, s) /\ Owns(heap, ranges, block, inUse, s)
  BY DEF Now, State
<1>2. Listing(ranges, block, inUse)
  BY <1>1 DEF Owns
<1>3. DOMAIN ranges = 1 .. Len(ranges) /\ Entries(ranges) = {Entry(block[i]) : i \in inUse}
  BY <1>2, LenProperties DEF Listing
<1>4. ToSet(ranges) = Entries(ranges)
  BY <1>3 DEF ToSet, Entries
<1>5. \A k, l \in 1 .. Len(ranges) : k # l => ~Overlap(ranges[k], ranges[l])
  BY <1>1, OwnsDisjoint
<1> QED
  BY <1>3, <1>4, <1>5 DEF Entry

LEMMA PayloadsHold ==
  ASSUME NEW s, Now(s)
  PROVE  PayloadIntact
BY DEF Now, State, Owns, Contents, Filled, PayloadIntact

THEOREM HeapCheckerSilent == Spec => []CheckerSilent
<1>1. DriverInv => CheckerSilent
  BY CheckHolds DEF DriverInv, Now, CheckerSilent
<1> QED
  BY <1>1, DriverInvariant, PTL

THEOREM TagsAgree == Spec => []TagsMatch
<1>1. DriverInv => TagsMatch
  BY TagsHold DEF DriverInv, Now
<1> QED
  BY <1>1, DriverInvariant, PTL

THEOREM FreeListsExact == Spec => []ListsExact
<1>1. DriverInv => ListsExact
  BY ListsHold DEF DriverInv, Now
<1> QED
  BY <1>1, DriverInvariant, PTL

THEOREM PayloadsIntact == Spec => []PayloadIntact
<1>1. DriverInv => PayloadIntact
  BY PayloadsHold DEF DriverInv, Now
<1> QED
  BY <1>1, DriverInvariant, PTL

THEOREM RangesFollow == Spec => []RangesAreLive
<1>1. DriverInv => RangesAreLive
  BY RangesHold DEF DriverInv, Now
<1> QED
  BY <1>1, DriverInvariant, PTL

THEOREM NothingToReject == Spec => []DriverAccepts
<1>1. DriverInv => DriverAccepts
  BY DEF DriverInv, State, DriverAccepts
<1> QED
  BY <1>1, DriverInvariant, PTL

-----------------------------------------------------------------------------
(* mm_malloc fails only when there is no room.                             *)

LEMMA FullStep ==
  ASSUME NEW s, Now(s), NEW i \in Ids, NEW n \in Requests, Alloc(i, n), error' = "malloc"
  PROVE  \/ n = 0
         \/ LET asize == AdjustedSize(n)
                grow == IF asize > CHUNKSIZE THEN asize ELSE CHUNKSIZE
            IN /\ \A p \in FreePtrs : SIZE(heap, p) < asize
               /\ heap.brk + grow + (grow % 16) > Start + MAX_HEAP
<1> SUFFICES ASSUME n # 0
             PROVE  LET asize == AdjustedSize(n)
                        grow == IF asize > CHUNKSIZE THEN asize ELSE CHUNKSIZE
                    IN /\ \A p \in FreePtrs : SIZE(heap, p) < asize
                       /\ heap.brk + grow + (grow % 16) > Start + MAX_HEAP
  OBVIOUS
<1>1. n \in Nat
  BY DriverAssumption
<1>2. ~Serves(s, n)
  BY AllocState DEF Served, Refused
<1>3. /\ Whole(heap, s) /\ Laid(s.B, s.t) /\ heap.brk = 8 * s.t
      /\ FreePtrs = {8 * b.lo : b \in FreeOf(s.B)}
      /\ \A b \in s.B : SIZE(heap, 8 * b.lo) = 8 * b.len
  BY BlockPtrsAre
<1>4. PICK z : z = Size(n)
  OBVIOUS
<1>5. /\ \A c \in s.B : c.used \/ c.len < z
      /\ 8 * (s.t + HP!Growth(z)) > Start + MAX_HEAP
  BY <1>1, <1>2, <1>3, <1>4, MallocFails
<1>6. z \in Nat /\ z >= 2 /\ AdjustedSize(n) = 8 * z
  BY <1>1, <1>4, SizeFacts
<1>7. \A p \in FreePtrs : SIZE(heap, p) < 8 * z
  <2> SUFFICES ASSUME NEW p \in FreePtrs PROVE SIZE(heap, p) < 8 * z
    OBVIOUS
  <2>1. PICK b \in s.B : p = 8 * b.lo /\ ~b.used
    BY <1>3 DEF FreeOf
  <2>2. SIZE(heap, p) = 8 * b.len /\ b.len < z /\ b.len \in Nat
    BY <2>1, <1>3, <1>5, LaidFacts
  <2> QED
    BY <2>2, <1>6
<1> DEFINE grow == IF 8 * z > CHUNKSIZE THEN 8 * z ELSE CHUNKSIZE
<1>8. grow + (grow % 16) = 8 * HP!Growth(z)
  <2>1. CHUNKSIZE \in Nat /\ CHUNKSIZE % 16 = 0
    BY FirstFacts
  <2>2. PICK k \in Nat : grow = 8 * k
    <3>1. Chunk \in Nat /\ 8 * Chunk = CHUNKSIZE
      BY ChunkFacts
    <3> QED
      BY <3>1, <1>6
  <2>3. k = grow \div DSIZE
    <3>1. (8 * k) \div 8 = k
      OBVIOUS
    <3> QED
      BY <3>1, <2>2 DEF DSIZE
  <2> HIDE DEF grow
  <2>4. HP!Growth(z) = k + (k % 2)
    BY <2>3, <1>6, GrowthIs DEF grow
  <2>5. (8 * k) % 16 = 8 * (k % 2)
    OBVIOUS
  <2> QED
    BY <2>2, <2>4, <2>5
<1>9. HP!Growth(z) \in Nat /\ s.t \in Nat /\ grow \in Nat /\ grow % 16 \in Nat
  <2>1. HP!Growth(z) \in Nat
    BY <1>6, GrowthIs
  <2>2. CHUNKSIZE \in Nat
    BY FirstFacts
  <2> QED
    BY <2>1, <2>2, <1>3, <1>6, LaidFacts
<1> HIDE DEF grow
<1>10. heap.brk + grow + (grow % 16) > Start + MAX_HEAP
  <2>1. PICK g \in Nat, m \in Nat, v \in Nat, t \in Nat :
          g = grow /\ m = grow % 16 /\ v = HP!Growth(z) /\ t = s.t
    BY <1>9
  <2>2. g + m = 8 * v /\ 8 * (t + v) > Start + MAX_HEAP /\ heap.brk = 8 * t
    BY <2>1, <1>3, <1>5, <1>8
  <2>3. 8 * t + g + m = 8 * (t + v)
    BY <2>2
  <2>4. 8 * t + g + m > Start + MAX_HEAP
    BY <2>2, <2>3
  <2> QED
    BY <2>1, <2>2, <2>4
<1> QED
  BY <1>6, <1>7, <1>10 DEF grow

THEOREM FailsWhenFull == Spec => FailsOnlyWhenFull
<1> DEFINE A == \A i \in Ids, n \in Requests :
                  Alloc(i, n) /\ error' = "malloc" =>
                    \/ n = 0
                    \/ LET asize == AdjustedSize(n)
                           grow == IF asize > CHUNKSIZE THEN asize ELSE CHUNKSIZE
                       IN /\ \A p \in FreePtrs : SIZE(heap, p) < asize
                          /\ heap.brk + grow + (grow % 16) > Start + MAX_HEAP
<1>1. DriverInv => A
  <2> SUFFICES ASSUME DriverInv PROVE A
    OBVIOUS
  <2>1. PICK s : Now(s)
    BY DEF DriverInv, Now
  <2> QED
    BY <2>1, FullStep
<1>2. DriverInv /\ [Next]_dvars => [A]_dvars
  BY <1>1
<1>3. FailsOnlyWhenFull <=> [][A]_dvars
  BY DEF FailsOnlyWhenFull
<1> HIDE DEF A
<1> QED
  BY <1>2, <1>3, DriverInvariant, PTL DEF Spec

-----------------------------------------------------------------------------
(* The blocks that module Heap sees.                                       *)

BlocksOf(h) ==
  {[lo |-> p \div DSIZE, len |-> SIZE(h, p) \div DSIZE,
    used |-> p \notin {q \in Walk(h) : IsFree(h, q)}] : p \in Walk(h)}

LEMMA BlocksOfIs ==
  ASSUME NEW h, NEW s, Whole(h, s)
  PROVE  BlocksOf(h) = s.B /\ h.brk \div DSIZE = s.t
<1>1. /\ Laid(s.B, s.t) /\ Tagged(h, s.B, s.t) /\ h.brk = 8 * s.t /\ s.t \in Nat
  BY WholeFacts
<1>2. Walk(h) = {8 * b.lo : b \in s.B}
  BY <1>1, WalkIs
<1>3. \A b \in s.B : /\ b.lo \in Nat /\ b.len \in Nat /\ b.used \in BOOLEAN
                     /\ b \in HP!Block
  BY <1>1, LaidFacts
<1>4. \A n \in Nat : (8 * n) \div DSIZE = n
  BY DEF DSIZE
<1>5. \A b \in s.B : SIZE(h, 8 * b.lo) = 8 * b.len /\ (IsFree(h, 8 * b.lo) <=> ~b.used)
  <2> TAKE b \in s.B
  <2>1. SIZE(h, 8 * b.lo) = 8 * b.len /\ GET_ALLOC(h, HDRP(8 * b.lo)) = Bit(b)
    BY <1>1, SizeIs
  <2> QED
    BY <2>1 DEF IsFree, Bit
<1> DEFINE FreeOnes == {q \in Walk(h) : IsFree(h, q)}
           View(p) == [lo |-> p \div DSIZE, len |-> SIZE(h, p) \div DSIZE,
                       used |-> p \notin FreeOnes]
<1>6. ASSUME NEW b \in s.B PROVE View(8 * b.lo) = b
  <2>1. (8 * b.lo) \div DSIZE = b.lo /\ SIZE(h, 8 * b.lo) \div DSIZE = b.len
    BY <1>3, <1>4, <1>5
  <2>2. 8 * b.lo \in FreeOnes <=> ~b.used
    BY <1>2, <1>5
  <2>3. b = [lo |-> b.lo, len |-> b.len, used |-> b.used]
    BY <1>3 DEF HP!Block
  <2>4. (8 * b.lo \notin FreeOnes) = b.used
    BY <2>2, <1>3
  <2> HIDE DEF FreeOnes
  <2> QED
    BY <2>1, <2>3, <2>4
<1>7. BlocksOf(h) = {View(p) : p \in Walk(h)}
  BY DEF BlocksOf
<1> HIDE DEF View
<1>8. {View(p) : p \in Walk(h)} = s.B
  BY <1>2, <1>6
<1> QED
  BY <1>1, <1>4, <1>7, <1>8

LEMMA BlocksAre ==
  /\ \A s : Now(s) => Blocks = s.B /\ heap.brk \div DSIZE = s.t
  /\ \A s : Then(s) => Blocks' = s.B /\ heap'.brk \div DSIZE = s.t
<1>1. Blocks = BlocksOf(heap) /\ Blocks' = BlocksOf(heap')
  BY DEF Blocks, BlocksOf, FreePtrs, BlockPtrs
<1>2. \A s : Now(s) => Whole(heap, s)
  BY DEF Now, State
<1>3. \A s : Then(s) => Whole(heap', s)
  BY DEF Then, State
<1> QED
  BY <1>1, <1>2, <1>3, BlocksOfIs

\* The two instances of module Heap mean the same.
LEMMA SameCoalesce ==
  ASSUME NEW B, NEW x
  PROVE  HP!Coalesce(B, x) = H!Coalesce(B, x)
BY DEF HP!Coalesce, H!Coalesce, HP!FreeBefore, H!FreeBefore, HP!FreeAfter, H!FreeAfter,
       HP!Span, H!Span, HP!Adjacent, H!Adjacent, HP!End, H!End

LEMMA SameParts ==
  /\ \A n : HP!Growth(n) = H!Growth(n)
  /\ \A b, c : HP!Span(b, c) = H!Span(b, c)
  /\ \A b : HP!End(b) = H!End(b) /\ HP!Released(b) = H!Released(b)
BY DEF HP!Growth, H!Growth, HP!Span, H!Span, HP!End, H!End, HP!Released, H!Released

LEMMA SamePlace ==
  ASSUME NEW B, NEW b, NEW n
  PROVE  HP!Place(B, b, n) = H!Place(B, b, n)
<1>1. HP!Rest(b, n) = H!Rest(b, n) /\ HP!Taken(b, n) = H!Taken(b, n)
      /\ HP!Taken(b, b.len) = H!Taken(b, b.len) /\ HP!MINFB_SIZE = H!MINFB_SIZE
  BY SameParts DEF HP!Rest, H!Rest, HP!Taken, H!Taken, HP!MINFB_SIZE, H!MINFB_SIZE
<1> QED
  BY <1>1, SameCoalesce DEF HP!Place, H!Place

-----------------------------------------------------------------------------
(* The refinement of module Heap.                                          *)

LEMMA FreshIs ==
  Fresh.B = {HP!Span(First, First + HP!Growth(1))} /\ Fresh.t = First + HP!Growth(1)
<1>1. PICK mem \in [Words -> Nat] : TRUE
  <2>1. [a \in Words |-> 0] \in [Words -> Nat]
    OBVIOUS
  <2> QED
    BY <2>1
<1> QED
  BY <1>1, InitIs, ChunkFacts

LEMMA ReuseIs ==
  ASSUME NEW B, NEW t, NEW C, NEW u, NEW z, Reuses(B, t, C, u, z),
         B = Blocks, t = heap.brk \div DSIZE, C = Blocks', u = heap'.brk \div DSIZE
  PROVE  H!Reuse(z)
<1>1. PICK b \in B : /\ ~b.used /\ b.len >= z
                     /\ \A c \in B : ~c.used /\ c.len >= z => b.len <= c.len
                     /\ C = H!Place(B, b, z)
  BY SamePlace DEF Reuses
<1>2. u = t
  BY DEF Reuses
<1>3. H!Fits(z) = {c \in B : ~c.used /\ c.len >= z}
  BY DEF H!Fits
<1>4. b \in H!Fits(z) /\ \A c \in H!Fits(z) : b.len <= c.len
  BY <1>1, <1>3
<1>5. Blocks' = H!Place(Blocks, b, z)
  BY <1>1
<1>6. UNCHANGED (heap.brk \div DSIZE)
  BY <1>2
<1> QED
  BY <1>4, <1>5, <1>6 DEF H!Reuse

\* What Extend asks for.
Extending(B, t, C, u, z) ==
  LET x == H!Span(t, t + H!Growth(z))
      D == H!Coalesce(B \cup {x}, x)
  IN /\ {c \in B : ~c.used /\ c.len >= z} = {}
     /\ t + H!Growth(z) <= (Start + MAX_HEAP) \div DSIZE
     /\ u = t + H!Growth(z)
     /\ \E b \in D : ~b.used /\ H!End(b) = u /\ C = H!Place(D, b, z)

LEMMA ExtendingIs ==
  ASSUME NEW z, Extending(Blocks, heap.brk \div DSIZE, Blocks', heap'.brk \div DSIZE, z)
  PROVE  H!Extend(z)
BY DEF Extending, H!Extend, H!Fits, H!New

LEMMA GrowsIs ==
  ASSUME NEW B, NEW t, NEW C, NEW u \in Nat, NEW z \in Nat, Grows(B, t, C, u, z),
         \A c \in B : c.len \in Nat
  PROVE  Extending(B, t, C, u, z)
<1> DEFINE x == HP!Span(t, t + HP!Growth(z))
           D == HP!Coalesce(B \cup {x}, x)
<1>1. /\ \A c \in B : c.used \/ c.len < z
      /\ u = t + HP!Growth(z) /\ 8 * u <= Start + MAX_HEAP
      /\ \E b \in D : ~b.used /\ b.lo + b.len = u /\ C = HP!Place(D, b, z)
  BY DEF Grows
<1>2. x = H!Span(t, t + H!Growth(z))
  BY SameParts
<1>3. D = H!Coalesce(B \cup {x}, x)
  BY SameCoalesce
<1> HIDE DEF D, x
<1>4. {c \in B : ~c.used /\ c.len >= z} = {}
  BY <1>1
<1>5. u = t + H!Growth(z)
  BY <1>1, SameParts
<1>6. u <= (Start + MAX_HEAP) \div DSIZE
  BY <1>1, WordFacts DEF DSIZE
<1>7. \E b \in D : ~b.used /\ H!End(b) = u /\ C = H!Place(D, b, z)
  BY <1>1, SamePlace DEF H!End
<1> QED
  BY <1>2, <1>3, <1>4, <1>5, <1>6, <1>7 DEF Extending

\* The views of the heap before and after a step.
LEMMA Views ==
  ASSUME NEW s, Now(s), NEW z, Then(z)
  PROVE  /\ Blocks = s.B /\ heap.brk \div DSIZE = s.t
         /\ Blocks' = z.B /\ heap'.brk \div DSIZE = z.t
BY BlocksAre

LEMMA LaidNow ==
  ASSUME NEW h, NEW s, Whole(h, s)
  PROVE  s.t \in Nat /\ \A c \in s.B : c.len \in Nat /\ c.lo \in Nat
BY WholeFacts, LaidFacts

LEMMA AllocCall ==
  ASSUME NEW s, Now(s), NEW i \in Ids, NEW n \in Requests, Alloc(i, n)
  PROVE  \/ H!Reuse(Size(n)) \/ H!Extend(Size(n))
         \/ error' = "malloc" /\ UNCHANGED H!hvars
<1>1. n \in Nat
  BY DriverAssumption
<1>2. CASE Served(s, i, n, After(s, n))
  <2>1. PICK z : z = After(s, n)
    OBVIOUS
  <2>2. Serves(s, n) /\ Then(z)
    BY <1>2, <2>1 DEF Served
  <2>3. /\ Blocks = s.B /\ heap.brk \div DSIZE = s.t
        /\ Blocks' = z.B /\ heap'.brk \div DSIZE = z.t
    BY <2>2, Views
  <2>4. Whole(heap, s) /\ Whole(heap', z)
    BY <2>2 DEF Now, Then, State
  <2>5. z.t \in Nat /\ \A c \in s.B : c.len \in Nat
    BY <2>4, LaidNow
  <2>6. Size(n) \in Nat
    BY <1>1, SizeFacts
  <2>7. Reuses(s.B, s.t, z.B, z.t, Size(n)) \/ Grows(s.B, s.t, z.B, z.t, Size(n))
    <3>1. PICK h, r : h = heap /\ r = mm_malloc(h, n)
      OBVIOUS
    <3>2. Whole(h, s)
      BY <2>4, <3>1
    <3> QED
      BY <1>1, <2>1, <2>2, <3>1, <3>2, ChosenIs
  <2>8. CASE Reuses(s.B, s.t, z.B, z.t, Size(n))
    BY <2>3, <2>8, ReuseIs
  <2>9. CASE Grows(s.B, s.t, z.B, z.t, Size(n))
    <3>1. Extending(s.B, s.t, z.B, z.t, Size(n))
      BY <2>5, <2>6, <2>9, GrowsIs
    <3>2. Extending(Blocks, heap.brk \div DSIZE, Blocks', heap'.brk \div DSIZE, Size(n))
      BY <2>3, <3>1
    <3> QED
      BY <3>2, ExtendingIs
  <2> QED
    BY <2>7, <2>8, <2>9
<1>3. CASE Refused(s, n)
  <2>1. Then(s) /\ error' = "malloc"
    BY <1>3 DEF Refused
  <2>2. Blocks' = Blocks /\ heap'.brk \div DSIZE = heap.brk \div DSIZE
    BY <2>1, Views
  <2> QED
    BY <2>1, <2>2 DEF H!hvars
<1> QED
  BY <1>2, <1>3, AllocState

LEMMA FreedCall ==
  ASSUME NEW s, Now(s), NEW i, NEW b, GivenBack(s, i, b, Freed(s, b))
  PROVE  b \in Blocks /\ b.lo = block[i].p \div DSIZE /\ H!Free(b)
<1>1. PICK z : z = Freed(s, b)
  OBVIOUS
<1>2. /\ b \in s.B /\ b.used /\ block[i].p = 8 * b.lo /\ b.lo \in Nat /\ Then(z)
  BY <1>1 DEF GivenBack
<1>3. /\ Blocks = s.B /\ heap.brk \div DSIZE = s.t
      /\ Blocks' = z.B /\ heap'.brk \div DSIZE = z.t
  BY <1>2, Views
<1>4. b.lo = block[i].p \div DSIZE
  BY <1>2 DEF DSIZE
<1>5. z.t = s.t
  BY <1>1 DEF Freed
<1>6. z.B = H!Coalesce((s.B \ {b}) \cup {H!Released(b)}, H!Released(b))
  BY <1>1, SameCoalesce, SameParts DEF Freed, WithFree
<1>7. H!Free(b)
  BY <1>2, <1>3, <1>5, <1>6 DEF H!Free
<1> QED
  BY <1>2, <1>3, <1>4, <1>7

LEMMA FreeCall ==
  ASSUME NEW s, Now(s), NEW i \in Ids, Free(i)
  PROVE  \E b \in Blocks : b.lo = block[i].p \div DSIZE /\ H!Free(b)
BY FreeState, FreedCall

LEMMA ExitCall ==
  ASSUME NEW s, Now(s), Exit
  PROVE  H!FreeAll
<1>1. PICK z : Then(z) /\ z.t = s.t /\ z.B = {HP!Span(First, s.t)}
  BY ExitState DEF Ended
<1>2. /\ Blocks = s.B /\ heap.brk \div DSIZE = s.t
      /\ Blocks' = z.B /\ heap'.brk \div DSIZE = z.t
  BY <1>1, Views
<1>3. Blocks' = {H!Span(FirstBlock \div DSIZE, heap.brk \div DSIZE)}
  BY <1>1, <1>2, SameParts DEF First
<1>4. UNCHANGED (heap.brk \div DSIZE)
  BY <1>1, <1>2
<1> QED
  BY <1>3, <1>4 DEF H!FreeAll

LEMMA RestartCall ==
  ASSUME NEW s, Now(s), NextTrace
  PROVE  H!Restart
<1>1. Then(Fresh)
  BY NextState
<1>2. Blocks' = Fresh.B /\ heap'.brk \div DSIZE = Fresh.t
  BY <1>1, BlocksAre
<1>3. heap'.brk \div DSIZE = FirstBlock \div DSIZE + H!Growth(1)
  BY <1>2, FreshIs, SameParts DEF First
<1>4. Blocks' = {H!Span(FirstBlock \div DSIZE, heap'.brk \div DSIZE)}
  BY <1>2, FreshIs, SameParts DEF First
<1> QED
  BY <1>3, <1>4 DEF H!Restart

LEMMA InitCall == Init => H!HInit
<1> SUFFICES ASSUME Init PROVE H!HInit
  OBVIOUS
<1>1. Now(Fresh)
  BY InitState
<1>2. Blocks = Fresh.B /\ heap.brk \div DSIZE = Fresh.t
  BY <1>1, BlocksAre
<1>3. heap.brk \div DSIZE = FirstBlock \div DSIZE + H!Growth(1)
  BY <1>2, FreshIs, SameParts DEF First
<1>4. Blocks = {H!Span(FirstBlock \div DSIZE, heap.brk \div DSIZE)}
  BY <1>2, FreshIs, SameParts DEF First
<1> QED
  BY <1>3, <1>4 DEF H!HInit

\* Every step of the driver is the step of Heap that CallsOfHeap names, or
\* leaves the blocks alone.
LEMMA Calls ==
  ASSUME NEW s, Now(s), [Next]_dvars
  PROVE  [H!HNext]_(H!hvars) /\ [CallsOfHeap]_dvars
<1>1. CallsOfHeap
  BY AllocCall, FreeCall, ExitCall, RestartCall DEF CallsOfHeap
<1>2. ASSUME NEW i \in Ids, NEW n \in Requests, Alloc(i, n)
      PROVE  [H!HNext]_(H!hvars)
  <2>1. Size(n) \in {Size(m) : m \in Requests}
    OBVIOUS
  <2>2. H!Reuse(Size(n)) \/ H!Extend(Size(n)) \/ UNCHANGED H!hvars
    BY <1>2, AllocCall
  <2> QED
    BY <2>1, <2>2 DEF H!HNext
<1>3. ASSUME NEW i \in Ids, NEW n \in Requests, Realloc(i, n)
      PROVE  [H!HNext]_(H!hvars)
  <2>1. Then(s)
    BY <1>3, ReallocState
  <2> QED
    BY <2>1, Views DEF H!hvars
<1>4. ASSUME NEW i \in Ids, Free(i) PROVE [H!HNext]_(H!hvars)
  BY <1>4, FreeCall DEF H!HNext
<1>5. ASSUME Exit PROVE [H!HNext]_(H!hvars)
  BY <1>5, ExitCall DEF H!HNext
<1>6. ASSUME NextTrace PROVE [H!HNext]_(H!hvars)
  BY <1>6, RestartCall DEF H!HNext
<1>7. ASSUME UNCHANGED dvars PROVE [H!HNext]_(H!hvars)
  <2>1. Then(s)
    BY <1>7 DEF Now, Then, dvars
  <2> QED
    BY <2>1, Views DEF H!hvars
<1>8. Next \/ UNCHANGED dvars
  OBVIOUS
<1>9. [H!HNext]_(H!hvars)
  BY <1>2, <1>3, <1>4, <1>5, <1>6, <1>7, <1>8 DEF Next
<1> QED
  BY <1>1, <1>9

\* mm.c implements module Heap, call by call: mm_malloc is the best fit and
\* place, or extend_heap and place, of Heap, mm_free its Free, mm_exit its
\* FreeAll and mm_init its Restart, with every split and every merge.
THEOREM AllocatorImplementsHeap == Spec => ImplementsHeap
<1>1. Init => H!HInit
  BY InitCall
<1>2. DriverInv /\ [Next]_dvars => [H!HNext]_(H!hvars) /\ [CallsOfHeap]_dvars
  <2> SUFFICES ASSUME DriverInv, [Next]_dvars
               PROVE  [H!HNext]_(H!hvars) /\ [CallsOfHeap]_dvars
    OBVIOUS
  <2>1. PICK s : Now(s)
    BY DEF DriverInv, Now
  <2> QED
    BY <2>1, Calls
<1> QED
  BY <1>1, <1>2, DriverInvariant, PTL DEF Spec, ImplementsHeap, H!HSpec

\* So what is proved of Heap's blocks holds of those that the tags in memory
\* describe: place, coalesce and extend_heap leave no gap, no overlap and no
\* two neighbouring free blocks.
THEOREM BlocksInMemory == Spec => [](H!Disjoint /\ H!Tiles /\ H!Coalesced)
<1>1. DriverInv => H!Disjoint /\ H!Tiles /\ H!Coalesced
  <2> SUFFICES ASSUME DriverInv PROVE H!Disjoint /\ H!Tiles /\ H!Coalesced
    OBVIOUS
  <2>1. PICK s : Now(s)
    BY DEF DriverInv, Now
  <2>2. Blocks = s.B /\ heap.brk \div DSIZE = s.t
    BY <2>1, BlocksAre
  <2>3. HP!Good(s.B, s.t) /\ HP!CoalescedIn(s.B)
    BY <2>1 DEF Now, State, Whole, Sound, Laid
  <2>4. HP!DisjointIn(Blocks) /\ HP!TilesIn(Blocks, heap.brk \div DSIZE)
    BY <2>2, <2>3 DEF HP!Good
  <2>5. HP!CoalescedIn(Blocks)
    BY <2>2, <2>3
  <2>6. H!Disjoint
    BY <2>4 DEF H!Disjoint, H!DisjointIn, HP!DisjointIn, H!End, HP!End
  <2>7. H!Tiles
    BY <2>4 DEF H!Tiles, H!TilesIn, HP!TilesIn, H!End, HP!End, H!Adjacent, HP!Adjacent
  <2>8. H!Coalesced
    BY <2>5 DEF H!Coalesced, HP!CoalescedIn, HP!Free2, H!End, HP!End, H!Adjacent, HP!Adjacent
  <2> QED
    BY <2>6, <2>7, <2>8
<1> QED
  BY <1>1, DriverInvariant, PTL

\* What a call leaves in use.
LEMMA AllocLeaves ==
  ASSUME NEW s, Now(s), NEW i \in Ids, NEW n \in Requests, Alloc(i, n)
  PROVE  \A b \in Blocks : b.used => b \in Blocks'
<1>1. n \in Nat
  BY DriverAssumption
<1>2. CASE Served(s, i, n, After(s, n))
  <2>1. PICK z : z = After(s, n)
    OBVIOUS
  <2>2. Serves(s, n) /\ Then(z)
    BY <1>2, <2>1 DEF Served
  <2>3. Blocks = s.B /\ Blocks' = z.B
    BY <2>2, Views
  <2>4. Used(s.B) \subseteq Used(z.B)
    <3>1. PICK h, r : h = heap /\ r = mm_malloc(h, n)
      OBVIOUS
    <3>2. Whole(h, s)
      BY <3>1 DEF Now, State
    <3>3. Allocates(h, r, s, n)
      BY <1>1, <2>2, <3>1, <3>2, MallocIs
    <3> QED
      BY <2>1, <3>3 DEF Allocates
  <2> QED
    BY <2>3, <2>4 DEF Used
<1>3. CASE Refused(s, n)
  BY <1>3, Views DEF Refused
<1> QED
  BY <1>2, <1>3, AllocState

LEMMA FreeLeaves ==
  ASSUME NEW s, Now(s), NEW i \in Ids, Free(i)
  PROVE  \A b \in Blocks : b.used => b \in Blocks' \/ H!Free(b)
<1>1. PICK x : GivenBack(s, i, x, Freed(s, x))
  BY FreeState
<1>2. H!Free(x)
  BY <1>1, FreedCall
<1>3. PICK z : z = Freed(s, x)
  OBVIOUS
<1>4. x \in s.B /\ x.used /\ Then(z)
  BY <1>1, <1>3 DEF GivenBack
<1>5. Blocks = s.B /\ Blocks' = z.B
  BY <1>4, Views
<1>6. Used(z.B) = Used(s.B) \ {x}
  <2>1. PICK h, g : h = heap /\ g = mm_free(h, 8 * x.lo)
    OBVIOUS
  <2>2. Whole(h, s)
    BY <2>1 DEF Now, State
  <2>3. PICK m : Frees(h, g, s, x, m)
    BY <1>4, <2>1, <2>2, FreeIs
  <2> QED
    BY <1>3, <2>3 DEF Frees
<1> QED
  BY <1>2, <1>5, <1>6 DEF Used

\* Between two calls a block in use stays where it is, and as long as it is: a
\* split, a merge or growth never touches it, and only its own mm_free, mm_exit
\* or mm_init end it.
THEOREM LiveBlocksInMemory == Spec => H!LiveBlocksStay
<1> DEFINE Stay == \A b \in Blocks :
                     b.used => b \in Blocks' \/ H!Free(b) \/ H!FreeAll \/ H!Restart
<1>1. DriverInv /\ [Next]_dvars => [Stay]_(H!hvars)
  <2> SUFFICES ASSUME DriverInv, [Next]_dvars PROVE Stay \/ UNCHANGED H!hvars
    OBVIOUS
  <2>1. PICK s : Now(s)
    BY DEF DriverInv, Now
  <2>2. ASSUME NEW i \in Ids, NEW n \in Requests, Alloc(i, n) PROVE Stay
    BY <2>1, <2>2, AllocLeaves
  <2>3. ASSUME NEW i \in Ids, NEW n \in Requests, Realloc(i, n) PROVE UNCHANGED H!hvars
    <3>1. Then(s)
      BY <2>1, <2>3, ReallocState
    <3> QED
      BY <2>1, <3>1, Views DEF H!hvars
  <2>4. ASSUME NEW i \in Ids, Free(i) PROVE Stay
    BY <2>1, <2>4, FreeLeaves
  <2>5. ASSUME Exit PROVE Stay
    BY <2>1, <2>5, ExitCall
  <2>6. ASSUME NextTrace PROVE Stay
    BY <2>1, <2>6, RestartCall
  <2>7. ASSUME UNCHANGED dvars PROVE UNCHANGED H!hvars
    <3>1. Then(s)
      BY <2>1, <2>7 DEF Now, Then, dvars
    <3> QED
      BY <2>1, <3>1, Views DEF H!hvars
  <2> HIDE DEF Stay
  <2> QED
    BY <2>2, <2>3, <2>4, <2>5, <2>6, <2>7 DEF Next
<1> QED
  BY <1>1, DriverInvariant, PTL DEF Spec, H!LiveBlocksStay

-----------------------------------------------------------------------------
(* The passes of the driver.  The history of a trace has, for every number *)
(* of requests done, what the heap holds, the indices in use and where     *)
(* their blocks are.                                                       *)

Begin == [s |-> Fresh, use |-> {}, at |-> [i \in Ids |-> 0]]

Ops == [type : {"a", "f"}, i : Ids, n : Nat]

\* One request op, about the pointer p, leads from a to b.
Follows(a, op, p, b) ==
  \/ /\ op.type = "a"
     /\ Serves(a.s, op.n) /\ p = 8 * Gotten(a.s, op.n).lo
     /\ b.s = After(a.s, op.n) /\ b.use = a.use \cup {op.i}
     /\ b.at = [a.at EXCEPT ![op.i] = p]
  \/ /\ op.type = "f" /\ op.i \in a.use /\ p = a.at[op.i]
     /\ \E x \in a.s.B : x.used /\ p = 8 * x.lo /\ b.s = Freed(a.s, x)
     /\ b.use = a.use \ {op.i} /\ b.at = a.at

History(R, tr, pl) ==
  /\ tr \in Seq(Ops) /\ pl \in Seq(Nat) /\ Len(pl) = Len(tr)
  /\ R[0] = Begin
  /\ \A k \in 0 .. Len(tr) : R[k].at \in [Ids -> Nat] /\ R[k].use \subseteq Ids
  /\ \A k \in 1 .. Len(tr) : Follows(R[k - 1], tr[k], pl[k], R[k])

\* The pointers that the driver keeps are where the history has the blocks.
Agree(a, bl) == /\ bl \in [Ids -> [p : Nat, n : Nat]]
                /\ \A i \in a.use : bl[i].p = a.at[i]

LEMMA AppendFacts ==
  ASSUME NEW S, NEW q \in Seq(S), NEW e \in S
  PROVE  /\ Append(q, e) \in Seq(S) /\ Len(Append(q, e)) = Len(q) + 1 /\ Len(q) \in Nat
         /\ Append(q, e)[Len(q) + 1] = e
         /\ \A k \in 1 .. Len(q) : Append(q, e)[k] = q[k]
OBVIOUS

\* There is a history that ends with b.
LeadsTo(tr, pl, b) == \E G : History(G, tr, pl) /\ G[Len(tr)] = b

\* The history goes on.
LEMMA HistoryGrows ==
  ASSUME NEW R, NEW tr, NEW pl, History(R, tr, pl), NEW op \in Ops, NEW p \in Nat,
         NEW b, Follows(R[Len(tr)], op, p, b)
  PROVE  LeadsTo(Append(tr, op), Append(pl, p), b)
<1> DEFINE m == Len(tr)
           G == [k \in 0 .. m + 1 |-> IF k = m + 1 THEN b ELSE R[k]]
           tr2 == Append(tr, op)
           pl2 == Append(pl, p)
<1>1. tr \in Seq(Ops) /\ pl \in Seq(Nat) /\ Len(pl) = m
  BY DEF History
<1>2. /\ tr2 \in Seq(Ops) /\ Len(tr2) = m + 1 /\ m \in Nat /\ tr2[m + 1] = op
      /\ \A k \in 1 .. m : tr2[k] = tr[k]
  BY <1>1, AppendFacts
<1>3. /\ pl2 \in Seq(Nat) /\ Len(pl2) = m + 1 /\ pl2[m + 1] = p
      /\ \A k \in 1 .. m : pl2[k] = pl[k]
  BY <1>1, AppendFacts
<1>4. R[0] = Begin
  BY DEF History
<1>5. \A k \in 0 .. m : R[k].at \in [Ids -> Nat] /\ R[k].use \subseteq Ids
  BY DEF History
<1>6. \A k \in 1 .. m : Follows(R[k - 1], tr[k], pl[k], R[k])
  BY DEF History
<1>7. Follows(R[m], op, p, b)
  OBVIOUS
<1>8. op.i \in Ids
  BY DEF Ops
<1> HIDE DEF m, tr2, pl2
<1>9. b.at \in [Ids -> Nat] /\ b.use \subseteq Ids
  <2>1. R[m].at \in [Ids -> Nat] /\ R[m].use \subseteq Ids
    BY <1>2, <1>5
  <2>2. PICK a : a = R[m]
    OBVIOUS
  <2>3. Follows(a, op, p, b) /\ a.at \in [Ids -> Nat] /\ a.use \subseteq Ids
    BY <2>1, <2>2, <1>7
  <2>4. \/ b.at = [a.at EXCEPT ![op.i] = p] /\ b.use = a.use \cup {op.i}
        \/ b.at = a.at /\ b.use = a.use \ {op.i}
    BY <2>3 DEF Follows
  <2> QED
    BY <2>3, <2>4, <1>8
<1>10. G[m + 1] = b /\ \A k \in 0 .. m : G[k] = R[k]
  BY <1>2
<1> HIDE DEF G
<1>11. G[0] = Begin
  BY <1>2, <1>4, <1>10
<1>12. ASSUME NEW k \in 0 .. m + 1 PROVE G[k].at \in [Ids -> Nat] /\ G[k].use \subseteq Ids
  <2>1. CASE k = m + 1
    BY <2>1, <1>9, <1>10
  <2>2. CASE k # m + 1
    <3>1. k \in 0 .. m
      BY <2>2, <1>2
    <3>2. G[k] = R[k]
      BY <3>1, <1>10
    <3> QED
      BY <3>1, <3>2, <1>5
  <2> QED
    BY <2>1, <2>2
<1>13. ASSUME NEW k \in 1 .. m + 1 PROVE Follows(G[k - 1], tr2[k], pl2[k], G[k])
  <2>1. CASE k = m + 1
    <3>1. G[k - 1] = R[m] /\ G[k] = b /\ tr2[k] = op /\ pl2[k] = p
      BY <2>1, <1>2, <1>3, <1>10
    <3> QED
      BY <3>1, <1>7
  <2>2. CASE k # m + 1
    <3>1. k \in 1 .. m /\ k - 1 \in 0 .. m /\ k \in 0 .. m
      BY <2>2, <1>2
    <3>2. G[k - 1] = R[k - 1] /\ G[k] = R[k] /\ tr2[k] = tr[k] /\ pl2[k] = pl[k]
      BY <3>1, <1>2, <1>3, <1>10
    <3> QED
      BY <3>1, <3>2, <1>6
  <2> QED
    BY <2>1, <2>2
<1>14. History(G, tr2, pl2)
  BY <1>2, <1>3, <1>11, <1>12, <1>13 DEF History
<1>15. G[Len(tr2)] = b
  BY <1>2, <1>10
<1>16. LeadsTo(tr2, pl2, b)
  BY <1>14, <1>15 DEF LeadsTo
<1> QED
  BY <1>16 DEF tr2, pl2

\* A pass replays a request as the history has it.
Replayed(a, op, p, b, h, bl, g, bl2, r) ==
  IF op.type = "f" THEN g = mm_free(h, bl[op.i].p) /\ bl2 = bl
  ELSE /\ r = mm_malloc(h, op.n) /\ g = r.h
       /\ bl2 = [bl EXCEPT ![op.i] = [p |-> r.p, n |-> op.n]]

LEMMA ReplayKeeps ==
  ASSUME NEW a, NEW op \in Ops, NEW p \in Nat, NEW b, Follows(a, op, p, b),
         a.use \subseteq Ids, a.at \in [Ids -> Nat],
         NEW h, Whole(h, a.s), NEW bl, Agree(a, bl),
         NEW g, NEW bl2, NEW r, Replayed(a, op, p, b, h, bl, g, bl2, r)
  PROVE  Whole(g, b.s) /\ Agree(b, bl2) /\ bl2[op.i].p = p
<1>1. /\ bl \in [Ids -> [p : Nat, n : Nat]] /\ \A i \in a.use : bl[i].p = a.at[i]
  BY DEF Agree
<1>2. op.i \in Ids /\ op.n \in Nat /\ op.type \in {"a", "f"}
  BY DEF Ops
<1>3. CASE op.type = "a"
  <2>1. /\ Serves(a.s, op.n) /\ p = 8 * Gotten(a.s, op.n).lo
        /\ b.s = After(a.s, op.n) /\ b.use = a.use \cup {op.i}
        /\ b.at = [a.at EXCEPT ![op.i] = p]
    BY <1>3 DEF Follows
  <2>2. r = mm_malloc(h, op.n) /\ g = r.h /\ bl2 = [bl EXCEPT ![op.i] = [p |-> r.p, n |-> op.n]]
    BY <1>3 DEF Replayed
  <2>3. Allocates(h, r, a.s, op.n)
    BY <1>2, <2>1, <2>2, MallocIs
  <2>4. Whole(r.h, After(a.s, op.n)) /\ r.p = 8 * Gotten(a.s, op.n).lo
    BY <2>3 DEF Allocates
  <2>5. Whole(g, b.s) /\ r.p = p
    BY <2>1, <2>2, <2>4
  <2>6. bl2 \in [Ids -> [p : Nat, n : Nat]] /\ bl2[op.i].p = p
    BY <1>1, <1>2, <2>2, <2>5
  <2>7. \A i \in b.use : bl2[i].p = b.at[i]
    BY <1>1, <1>2, <2>1, <2>2, <2>5
  <2> QED
    BY <2>5, <2>6, <2>7 DEF Agree
<1>4. CASE op.type = "f"
  <2>1. /\ op.i \in a.use /\ p = a.at[op.i]
        /\ b.use = a.use \ {op.i} /\ b.at = a.at
    BY <1>4 DEF Follows
  <2>2. PICK x \in a.s.B : x.used /\ p = 8 * x.lo /\ b.s = Freed(a.s, x)
    BY <1>4 DEF Follows
  <2>3. bl[op.i].p = p
    BY <1>1, <2>1
  <2>4. g = mm_free(h, 8 * x.lo) /\ bl2 = bl
    BY <1>4, <2>2, <2>3 DEF Replayed
  <2>5. PICK m : Frees(h, g, a.s, x, m)
    BY <2>2, <2>4, FreeIs
  <2>6. Whole(g, Freed(a.s, x))
    BY <2>5 DEF Frees
  <2>7. Agree(b, bl2)
    BY <1>1, <2>1, <2>4 DEF Agree
  <2> QED
    BY <2>2, <2>3, <2>4, <2>6, <2>7
<1> QED
  BY <1>2, <1>3, <1>4

\* mm_malloc does not fail in a replay.
LEMMA ReplayServed ==
  ASSUME NEW a, NEW op \in Ops, NEW p, NEW b, Follows(a, op, p, b), op.type # "f",
         NEW h, Whole(h, a.s), NEW r, r = mm_malloc(h, op.n)
  PROVE  r.p # 0
<1>1. op.n \in Nat /\ Serves(a.s, op.n)
  BY DEF Follows, Ops
<1>2. Allocates(h, r, a.s, op.n)
  BY <1>1, MallocIs
<1>3. PICK x, y : x = After(a.s, op.n) /\ y = Gotten(a.s, op.n)
  OBVIOUS
<1> QED
  BY <1>1, <1>2, <1>3, AllocatesFacts

-----------------------------------------------------------------------------
(* The inductive invariant of the passes.                                  *)

\* eval_mm_valid runs: the heap is where the history has led.
Evaluated(R) ==
  /\ pass = "valid" /\ evaluating = TRUE /\ opnum = Len(trace)
  /\ Now(R[Len(trace)].s) /\ R[Len(trace)].use = inUse
  /\ Agree(R[Len(trace)], block)

\* It has returned 1.
Passed == /\ pass = "valid" /\ evaluating = FALSE
          /\ block \in [Ids -> [p : Nat, n : Nat]] /\ heap.mem \in [Words -> Nat]

\* A later pass has come as far as opnum.
Replaying(R) ==
  /\ pass # "valid" /\ opnum \in 0 .. Len(trace) /\ evaluating = FALSE
  /\ Whole(heap, R[opnum].s) /\ Agree(R[opnum], block)

\* It has returned 0.
Failed == pass = "valid" /\ evaluating = FALSE /\ error # "none"

Recorded(R) ==
  /\ History(R, trace, placed) /\ error = "none"
  /\ Evaluated(R) \/ Passed \/ Replaying(R)

PassInv == ~exited /\ (Failed \/ \E R : Recorded(R))

LEMMA HistoryFacts ==
  ASSUME NEW R, NEW tr, NEW pl, History(R, tr, pl)
  PROVE  /\ Len(tr) \in Nat /\ R[0] = Begin
         /\ \A k \in 0 .. Len(tr) : R[k].at \in [Ids -> Nat] /\ R[k].use \subseteq Ids
         /\ \A k \in 1 .. Len(tr) : /\ tr[k] \in Ops /\ pl[k] \in Nat
                                    /\ Follows(R[k - 1], tr[k], pl[k], R[k])
BY DEF History

\* The empty history.
LEMMA PassInit == PInit => PassInv
<1> SUFFICES ASSUME PInit PROVE PassInv
  OBVIOUS
<1>1. /\ Init /\ pass = "valid" /\ trace = <<>> /\ placed = <<>> /\ exited = FALSE
  BY DEF PInit
<1>2. Now(Fresh) /\ inUse = {} /\ evaluating = TRUE /\ error = "none"
  BY <1>1, InitState
<1>3. opnum = 0
  BY <1>1 DEF Init
<1>4. block \in [Ids -> [p : Nat, n : Nat]]
  BY <1>2 DEF Now, State
<1> DEFINE G == [k \in {0} |-> Begin]
<1>5. G[0] = Begin
  OBVIOUS
<1>6. Begin.s = Fresh /\ Begin.use = {} /\ Begin.at \in [Ids -> Nat]
  BY DEF Begin
<1> HIDE DEF G
<1>7. Len(trace) = 0 /\ Len(placed) = 0 /\ trace \in Seq(Ops) /\ placed \in Seq(Nat)
  BY <1>1
<1>8. \A k \in 0 .. 0 : k = 0
  OBVIOUS
<1>9. \A k \in 1 .. 0 : FALSE
  OBVIOUS
<1>10. History(G, trace, placed)
  BY <1>5, <1>6, <1>7, <1>8, <1>9 DEF History
<1>11. Agree(Begin, block)
  BY <1>4, <1>6 DEF Agree
<1>12. Evaluated(G)
  BY <1>1, <1>2, <1>3, <1>5, <1>6, <1>7, <1>11 DEF Evaluated
<1> QED
  BY <1>1, <1>2, <1>10, <1>12 DEF PassInv, Recorded

\* A request of eval_mm_valid goes into the history.
Requested(op, p) ==
  /\ trace' = Append(trace, op) /\ placed' = Append(placed, p)
  /\ pass' = pass /\ opnum' = opnum + 1

LEMMA RequestRecorded ==
  ASSUME NEW R, Recorded(R), Evaluated(R), NEW op \in Ops, NEW p \in Nat, Requested(op, p),
         NEW b, Follows(R[Len(trace)], op, p, b),
         Then(b.s), evaluating' = TRUE, error' = "none", b.use = inUse', Agree(b, block')
  PROVE  \E G : Recorded(G)'
<1>1. History(R, trace, placed)
  BY DEF Recorded
<1>2. PICK tr, pl : tr = trace' /\ pl = placed'
  OBVIOUS
<1>3. tr = Append(trace, op) /\ pl = Append(placed, p)
  BY <1>2 DEF Requested
<1>4. PICK G : History(G, tr, pl) /\ G[Len(tr)] = b
  <2>1. LeadsTo(Append(trace, op), Append(placed, p), b)
    BY <1>1, HistoryGrows
  <2>2. LeadsTo(tr, pl, b)
    BY <1>3, <2>1
  <2> QED
    BY <2>2 DEF LeadsTo
<1>5. Len(tr) = Len(trace) + 1
  <2>1. trace \in Seq(Ops)
    BY <1>1 DEF History
  <2> QED
    BY <2>1, <1>3, AppendFacts
<1>6. pass' = "valid" /\ opnum' = Len(tr)
  BY <1>5 DEF Requested, Evaluated
<1>7. History(G, trace', placed')
  BY <1>2, <1>4
<1>8. G[Len(trace')] = b /\ opnum' = Len(trace')
  BY <1>2, <1>4, <1>6
<1>9. Evaluated(G)'
  BY <1>6, <1>8 DEF Evaluated, Now, Then
<1> QED
  BY <1>7, <1>9 DEF Recorded

LEMMA Evaluating ==
  ASSUME PassInv, pass = "valid", evaluating
  PROVE  \E R : Recorded(R) /\ Evaluated(R)
BY DEF PassInv, Failed, Recorded, Passed, Replaying

\* The pointer that eval_mm_valid notes down.
LEMMA NotedDown ==
  ASSUME NEW op \in Ops, trace \in Seq(Ops), trace' = Append(trace, op), pass' = pass,
         opnum = Len(trace), opnum' = opnum + 1,
         placed' = Append(placed, block'[trace'[opnum'].i].p)
  PROVE  Requested(op, block'[op.i].p)
<1>1. PICK tr, q : tr = trace /\ q = trace'
  OBVIOUS
<1>2. tr \in Seq(Ops) /\ q = Append(tr, op) /\ opnum' = Len(tr) + 1
  BY <1>1
<1>3. q[Len(tr) + 1] = op
  BY <1>2, AppendFacts
<1>4. trace'[opnum'] = op
  BY <1>1, <1>2, <1>3
<1> QED
  BY <1>4 DEF Requested

LEMMA AllocRecorded ==
  ASSUME PassInv, pass = "valid", NEW i \in Ids, NEW n \in Requests, Alloc(i, n),
         trace' = Append(trace, Op("a", i, n)), pass' = pass, exited' = exited,
         placed' = Append(placed, block'[trace'[opnum'].i].p)
  PROVE  PassInv'
<1>1. evaluating /\ opnum' = opnum + 1 /\ n \in Nat
  BY DriverAssumption DEF Alloc, Request
<1>2. PICK R : Recorded(R) /\ Evaluated(R)
  BY <1>1, Evaluating
<1>3. PICK a : a = R[Len(trace)]
  OBVIOUS
<1>4. Now(a.s) /\ a.use = inUse /\ Agree(a, block) /\ opnum = Len(trace)
  BY <1>2, <1>3 DEF Evaluated
<1>5. History(R, trace, placed)
  BY <1>2 DEF Recorded
<1>6. a.at \in [Ids -> Nat] /\ a.use \subseteq Ids
  BY <1>3, <1>5, HistoryFacts
<1>7. ~exited'
  BY DEF PassInv
<1>8. CASE Refused(a.s, n)
  <2>1. evaluating' = FALSE /\ error' = "malloc"
    BY <1>8 DEF Refused
  <2> QED
    BY <1>7, <2>1 DEF PassInv, Failed
<1>9. CASE Served(a.s, i, n, After(a.s, n))
  <2>1. PICK op, p : op = Op("a", i, n) /\ p = 8 * Gotten(a.s, n).lo
    OBVIOUS
  <2> DEFINE b == [s |-> After(a.s, n), use |-> a.use \cup {i}, at |-> [a.at EXCEPT ![i] = p]]
  <2>2. op \in Ops /\ op.type = "a" /\ op.i = i /\ op.n = n
    BY <1>1, <2>1 DEF Op, Ops
  <2>3. /\ Serves(a.s, n) /\ Then(After(a.s, n)) /\ evaluating' = TRUE /\ error' = "none"
        /\ inUse' = inUse \cup {i} /\ block' = [block EXCEPT ![i] = [p |-> p, n |-> n]]
    BY <1>9, <2>1 DEF Served
  <2>4. block' \in [Ids -> [p : Nat, n : Nat]] /\ block \in [Ids -> [p : Nat, n : Nat]]
    BY <1>4, <2>3 DEF Then, State, Agree
  <2>5. block'[i].p = p /\ p \in Nat
    <3>1. block'[i] = [p |-> p, n |-> n] /\ block'[i].p \in Nat
      BY <2>3, <2>4
    <3> QED
      BY <3>1
  <2>6. trace \in Seq(Ops)
    BY <1>5 DEF History
  <2>7. Requested(op, p)
    <3>1. trace' = Append(trace, op)
      BY <2>1
    <3>2. Requested(op, block'[op.i].p)
      BY <1>1, <1>4, <2>2, <2>6, <3>1, NotedDown
    <3> QED
      BY <2>2, <2>5, <3>2
  <2>8. b.s = After(a.s, n) /\ b.use = a.use \cup {i} /\ b.at = [a.at EXCEPT ![i] = p]
    OBVIOUS
  <2>9. Follows(a, op, p, b)
    BY <2>1, <2>2, <2>3, <2>8 DEF Follows
  <2>10. Agree(b, block')
    <3>1. \A j \in a.use : block[j].p = a.at[j]
      BY <1>4 DEF Agree
    <3>2. \A j \in b.use : block'[j].p = b.at[j]
      BY <1>6, <2>3, <2>4, <2>5, <2>8, <3>1
    <3> QED
      BY <2>4, <3>2 DEF Agree
  <2> HIDE DEF b
  <2>11. Then(b.s) /\ b.use = inUse'
    BY <1>4, <2>3, <2>8
  <2>12. Follows(R[Len(trace)], op, p, b)
    BY <1>3, <2>9
  <2>13. \E G : Recorded(G)'
    BY <1>2, <2>2, <2>3, <2>5, <2>7, <2>10, <2>11, <2>12, RequestRecorded
  <2> QED
    BY <1>7, <2>13 DEF PassInv
<1> QED
  BY <1>4, <1>8, <1>9, AllocState

LEMMA FreeRecorded ==
  ASSUME PassInv, pass = "valid", NEW i \in Ids, Free(i),
         trace' = Append(trace, Op("f", i, 0)), pass' = pass, exited' = exited,
         placed' = Append(placed, block'[trace'[opnum'].i].p)
  PROVE  PassInv'
<1>1. evaluating /\ opnum' = opnum + 1
  BY DEF Free, Request
<1>2. PICK R : Recorded(R) /\ Evaluated(R)
  BY <1>1, Evaluating
<1>3. PICK a : a = R[Len(trace)]
  OBVIOUS
<1>4. Now(a.s) /\ a.use = inUse /\ Agree(a, block) /\ opnum = Len(trace)
  BY <1>2, <1>3 DEF Evaluated
<1>5. History(R, trace, placed)
  BY <1>2 DEF Recorded
<1>6. a.at \in [Ids -> Nat] /\ a.use \subseteq Ids
  BY <1>3, <1>5, HistoryFacts
<1>7. ~exited'
  BY DEF PassInv
<1>8. PICK x : GivenBack(a.s, i, x, Freed(a.s, x))
  BY <1>4, FreeState
<1>9. PICK op, p : op = Op("f", i, 0) /\ p = 8 * x.lo
  OBVIOUS
<1>10. op \in Ops /\ op.type = "f" /\ op.i = i
  BY <1>9 DEF Op, Ops
<1>11. /\ x \in a.s.B /\ x.used /\ block[i].p = p /\ p \in Nat /\ Then(Freed(a.s, x))
       /\ evaluating' = TRUE /\ error' = "none" /\ inUse' = inUse \ {i} /\ block' = block
       /\ i \in inUse
  BY <1>8, <1>9 DEF GivenBack
<1> DEFINE b == [s |-> Freed(a.s, x), use |-> a.use \ {i}, at |-> a.at]
<1>12. b.s = Freed(a.s, x) /\ b.use = a.use \ {i} /\ b.at = a.at
  OBVIOUS
<1> HIDE DEF b
<1>13. trace \in Seq(Ops)
  BY <1>5 DEF History
<1>14. Requested(op, p)
  <2>1. trace' = Append(trace, op)
    BY <1>9
  <2>2. Requested(op, block'[op.i].p)
    BY <1>1, <1>4, <1>10, <1>13, <2>1, NotedDown
  <2> QED
    BY <1>10, <1>11, <2>2
<1>15. p = a.at[i] /\ i \in a.use
  BY <1>4, <1>11 DEF Agree
<1>16. Follows(a, op, p, b)
  <2>1. \E y \in a.s.B : y.used /\ p = 8 * y.lo /\ b.s = Freed(a.s, y)
    BY <1>9, <1>11, <1>12
  <2> QED
    BY <1>10, <1>12, <1>15, <2>1 DEF Follows
<1>17. Agree(b, block')
  BY <1>4, <1>11, <1>12 DEF Agree
<1>18. Then(b.s) /\ b.use = inUse'
  BY <1>4, <1>11, <1>12
<1>19. Follows(R[Len(trace)], op, p, b)
  BY <1>3, <1>16
<1>20. \E G : Recorded(G)'
  BY <1>2, <1>10, <1>11, <1>14, <1>17, <1>18, <1>19, RequestRecorded
<1> QED
  BY <1>7, <1>20 DEF PassInv

LEMMA ExitRecorded ==
  ASSUME PassInv, ValidEnd
  PROVE  PassInv'
<1>1. /\ pass = "valid" /\ Exit /\ evaluating
      /\ pass' = pass /\ trace' = trace /\ placed' = placed /\ exited' = exited
  BY DEF ValidEnd, Exit
<1>2. PICK R : Recorded(R) /\ Evaluated(R)
  BY <1>1, Evaluating
<1>3. PICK s : Now(s)
  BY <1>2 DEF Evaluated
<1>4. error' = error /\ evaluating' = FALSE /\ \E z : Then(z)
  BY <1>1, <1>3, ExitState DEF Ended
<1>5. PICK z : Then(z)
  BY <1>4
<1>6. block' \in [Ids -> [p : Nat, n : Nat]] /\ Whole(heap', z)
  BY <1>5 DEF Then, State
<1>7. heap'.mem \in [Words -> Nat]
  BY <1>6, WholeFacts DEF Heaps
<1>8. Passed'
  BY <1>1, <1>4, <1>6, <1>7 DEF Passed
<1>9. Recorded(R)'
  BY <1>1, <1>2, <1>4, <1>8 DEF Recorded
<1> QED
  BY <1>1, <1>9 DEF PassInv

\* mm_init starts a pass on an empty heap, as the history does.
LEMMA Restarted ==
  ASSUME NEW R, Recorded(R), heap.mem \in [Words -> Nat],
         block \in [Ids -> [p : Nat, n : Nat]],
         NEW next, next # "valid", Restart(next), evaluating = FALSE
  PROVE  Recorded(R)'
<1>1. /\ pass' = next /\ heap' = mm_init(heap.mem) /\ opnum' = 0 /\ block' = block
      /\ error' = error /\ evaluating' = evaluating /\ trace' = trace /\ placed' = placed
  BY DEF Restart
<1>2. Whole(heap', Fresh)
  <2>1. PICK mem \in [Words -> Nat] : mem = heap.mem
    OBVIOUS
  <2>2. PICK g : g = mm_init(mem)
    OBVIOUS
  <2>3. Whole(g, Fresh)
    BY <2>2, InitIs
  <2> QED
    BY <1>1, <2>1, <2>2, <2>3
<1>3. History(R, trace, placed) /\ error = "none"
  BY DEF Recorded
<1>4. R[0] = Begin /\ Len(trace) \in Nat
  BY <1>3, HistoryFacts
<1>5. Agree(Begin, block') /\ Begin.s = Fresh
  BY <1>1 DEF Agree, Begin
<1>6. Replaying(R)'
  BY <1>1, <1>2, <1>4, <1>5 DEF Replaying
<1> QED
  BY <1>1, <1>3, <1>6 DEF Recorded

LEMMA StartRecorded ==
  ASSUME PassInv, StartUtil \/ StartSpeed
  PROVE  PassInv'
<1>1. exited' = exited /\ ~exited
  BY DEF StartUtil, StartSpeed, PassInv
<1>2. PICK next : next # "valid" /\ Restart(next)
  BY DEF StartUtil, StartSpeed
<1>3. PICK R : Recorded(R) /\ (Passed \/ Replaying(R))
  BY DEF PassInv, Failed, Recorded, Evaluated, StartUtil, StartSpeed
<1>4. evaluating = FALSE
  BY <1>3 DEF Passed, Replaying
<1>5. heap.mem \in [Words -> Nat] /\ block \in [Ids -> [p : Nat, n : Nat]]
  <2>1. CASE Passed
    BY <2>1 DEF Passed
  <2>2. CASE Replaying(R)
    <3>1. PICK s : Whole(heap, s)
      BY <2>2 DEF Replaying
    <3>2. heap.mem \in [Words -> Nat]
      BY <3>1, WholeFacts DEF Heaps
    <3> QED
      BY <2>2, <3>2 DEF Replaying, Agree
  <2> QED
    BY <1>3, <2>1, <2>2
<1>6. Recorded(R)'
  BY <1>2, <1>3, <1>4, <1>5, Restarted
<1> QED
  BY <1>1, <1>6 DEF PassInv

\* What a step of a replay does: k is the request it repeats.
Repeats(R, k) ==
  /\ k = opnum' /\ k \in 1 .. Len(trace) /\ exited' = exited
  /\ Whole(heap', R[k].s) /\ Agree(R[k], block')
  /\ block'[trace[k].i].p = placed[k]

LEMMA ReplayStep ==
  ASSUME PassInv, Replay
  PROVE  \E R : Recorded(R) /\ Replaying(R) /\ Repeats(R, opnum + 1)
<1> DEFINE k == opnum + 1
           op == trace[k]
<1>1. PICK r : r = mm_malloc(heap, op.n)
  OBVIOUS
<1>2. /\ pass # "valid" /\ opnum < Len(trace) /\ opnum' = k
      /\ IF op.type = "f"
           THEN /\ heap' = mm_free(heap, block[op.i].p)
                /\ block' = block /\ exited' = exited
           ELSE /\ heap' = r.h
                /\ IF r.p = 0
                     THEN exited' = TRUE /\ block' = block
                     ELSE /\ block' = [block EXCEPT ![op.i] = [p |-> r.p, n |-> op.n]]
                          /\ exited' = exited
  BY <1>1 DEF Replay
<1>3. PICK R : Recorded(R) /\ Replaying(R)
  BY <1>2 DEF PassInv, Failed, Recorded, Evaluated, Passed
<1>4. /\ History(R, trace, placed) /\ opnum \in 0 .. Len(trace)
      /\ Whole(heap, R[opnum].s) /\ Agree(R[opnum], block)
  BY <1>3 DEF Recorded, Replaying
<1>5. Len(trace) \in Nat
  BY <1>4, HistoryFacts
<1>6. k \in 1 .. Len(trace) /\ k - 1 = opnum
  BY <1>2, <1>4, <1>5
<1> HIDE DEF k
<1>7. /\ op \in Ops /\ placed[k] \in Nat /\ Follows(R[opnum], op, placed[k], R[k])
      /\ R[opnum].at \in [Ids -> Nat] /\ R[opnum].use \subseteq Ids
  BY <1>4, <1>6, HistoryFacts
<1> HIDE DEF op
<1>8. PICK h, bl, a, b, p : h = heap /\ bl = block /\ a = R[opnum] /\ b = R[k] /\ p = placed[k]
  OBVIOUS
<1>9. /\ op \in Ops /\ p \in Nat /\ Follows(a, op, p, b) /\ a.use \subseteq Ids
      /\ a.at \in [Ids -> Nat] /\ Whole(h, a.s) /\ Agree(a, bl)
  BY <1>4, <1>7, <1>8
<1>10. op.type # "f" => r.p # 0
  <2> SUFFICES ASSUME op.type # "f" PROVE r.p # 0
    OBVIOUS
  <2>1. r = mm_malloc(h, op.n)
    BY <1>1, <1>8
  <2> QED
    BY <1>9, <2>1, ReplayServed
<1>11. exited' = exited
  BY <1>2, <1>10
<1>12. PICK g, bl2 : g = heap' /\ bl2 = block'
  OBVIOUS
<1>13. Replayed(a, op, p, b, h, bl, g, bl2, r)
  BY <1>1, <1>2, <1>8, <1>10, <1>12 DEF Replayed
<1>14. Whole(g, b.s) /\ Agree(b, bl2) /\ bl2[op.i].p = p
  BY <1>9, <1>13, ReplayKeeps
<1>15. Whole(heap', R[k].s) /\ Agree(R[k], block') /\ block'[op.i].p = placed[k]
  BY <1>8, <1>12, <1>14
<1>16. Repeats(R, k)
  BY <1>2, <1>6, <1>11, <1>15 DEF Repeats, op
<1> QED
  BY <1>3, <1>16 DEF k

LEMMA ReplayRecorded ==
  ASSUME PassInv, Replay
  PROVE  PassInv'
<1>1. PICK R : Recorded(R) /\ Replaying(R) /\ Repeats(R, opnum + 1)
  BY ReplayStep
<1>2. /\ evaluating' = evaluating /\ error' = error /\ pass' = pass /\ pass # "valid"
      /\ trace' = trace /\ placed' = placed
  BY DEF Replay
<1>3. /\ opnum' \in 1 .. Len(trace) /\ exited' = exited
      /\ Whole(heap', R[opnum'].s) /\ Agree(R[opnum'], block')
  BY <1>1 DEF Repeats
<1>4. opnum' \in 0 .. Len(trace)
  BY <1>3
<1>5. evaluating = FALSE
  BY <1>1 DEF Replaying
<1>6. Replaying(R)'
  BY <1>2, <1>3, <1>4, <1>5 DEF Replaying
<1>7. Recorded(R)'
  BY <1>1, <1>2, <1>6 DEF Recorded
<1> QED
  BY <1>3, <1>7 DEF PassInv

THEOREM PassesInvariant == PSpec => []PassInv
<1>1. PInit => PassInv
  BY PassInit
<1>2. PassInv /\ [PNext]_pvars => PassInv'
  <2> SUFFICES ASSUME PassInv, [PNext]_pvars PROVE PassInv'
    OBVIOUS
  <2>1. CASE ValidRequest
    <3>1. /\ pass = "valid" /\ pass' = pass /\ exited' = exited
          /\ placed' = Append(placed, block'[trace'[opnum'].i].p)
      BY <2>1 DEF ValidRequest
    <3>2. PICK i \in Ids :
            \/ \E n \in Requests : Alloc(i, n) /\ trace' = Append(trace, Op("a", i, n))
            \/ Free(i) /\ trace' = Append(trace, Op("f", i, 0))
      BY <2>1 DEF ValidRequest
    <3>3. CASE \E n \in Requests : Alloc(i, n) /\ trace' = Append(trace, Op("a", i, n))
      BY <3>1, <3>3, AllocRecorded
    <3>4. CASE Free(i) /\ trace' = Append(trace, Op("f", i, 0))
      BY <3>1, <3>4, FreeRecorded
    <3> QED
      BY <3>2, <3>3, <3>4
  <2>2. CASE ValidEnd
    BY <2>2, ExitRecorded
  <2>3. CASE StartUtil \/ StartSpeed
    BY <2>3, StartRecorded
  <2>4. CASE Replay
    BY <2>4, ReplayRecorded
  <2>5. CASE UNCHANGED pvars
    <3>1. \A s : Now(s) = Now(s)'
      BY <2>5 DEF pvars, dvars, Now
    <3>2. \A R : Recorded(R) => Recorded(R)'
      BY <2>5, <3>1 DEF pvars, dvars, Recorded, Evaluated, Passed, Replaying
    <3> QED
      BY <2>5, <3>2 DEF pvars, dvars, PassInv, Failed
  <2> QED
    BY <2>1, <2>2, <2>3, <2>4, <2>5 DEF PNext
<1> QED
  BY <1>1, <1>2, PTL DEF PSpec

\* A trace that eval_mm_valid passed never makes eval_mm_util or eval_mm_speed
\* end the driver: mm_malloc refuses nothing when the trace is replayed.
THEOREM ReplaysNeverFail == PSpec => []NeverExits
<1>1. PassInv => NeverExits
  BY DEF PassInv, NeverExits
<1> QED
  BY <1>1, PassesInvariant, PTL

\* Each replay puts every block where eval_mm_valid saw it, whatever is left in
\* memory: mm_init, and the order that the lists are searched in, forget it.
THEOREM ReplaysAgree == PSpec => SamePlaces
<1>1. PassInv /\ [PNext]_pvars =>
        [\A k \in DOMAIN trace : Replay /\ k = opnum' => block'[trace[k].i].p = placed[k]]_pvars
  <2> SUFFICES ASSUME PassInv, Replay, NEW k, k = opnum'
               PROVE  block'[trace[k].i].p = placed[k]
    OBVIOUS
  <2>1. PICK R : Repeats(R, opnum + 1)
    BY ReplayStep
  <2> QED
    BY <2>1 DEF Repeats
<1> QED
  BY <1>1, PassesInvariant, PTL DEF PSpec, SamePlaces
=============================================================================
