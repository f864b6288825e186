--------------------------- MODULE MemTraceProofs ---------------------------
(***************************************************************************)
(* The interposers for every set of addresses and every program: what the  *)
(* list of items says about libc's blocks.                                 *)
(*                                                                         *)
(* The first part states what memlist.c does to the set of items, which    *)
(* relies on the list being sorted: find and alloc stop at the first       *)
(* address that is not below theirs.  The second part shows that the       *)
(* counts follow libc's blocks (Ledger), the third that the statistics are *)
(* the sum of the sizes of the blocks in use (Balance).                    *)
(***************************************************************************)
EXTENDS MemTrace, NatLemmas, SequenceTheorems, TLAPS

Items == [ptr : Ptrs, size : Sizes, cnt : Int]

Sorted(l) == /\ l \in Seq(Items)
             /\ \A i, j \in 1 .. Len(l) : i < j => l[i].ptr < l[j].ptr

\* How often p is in use when the blocks of L are.
InUse(L, p) == IF p \in L THEN 1 ELSE 0

\* No item counts more than there is; each block has an item; and the counts
\* are exact as long as no NULL is recorded.
LedgerOf(l, L) ==
  /\ \A x \in ToSet(l) : x.ptr # NULL => x.cnt <= InUse(L, x.ptr)
  /\ \A p \in L : \E x \in ToSet(l) : x.ptr = p
  /\ (\A x \in ToSet(l) : x.ptr # NULL) => \A x \in ToSet(l) : x.cnt = InUse(L, x.ptr)

Ledger == LedgerOf(list, live)

MInv == Sorted(list) /\ live \subseteq Addrs /\ (state = "running" => Ledger)

-----------------------------------------------------------------------------
(* memlist.c.                                                              *)

LEMMA PtrsNat == Ptrs \subseteq Nat /\ NULL \in Ptrs /\ NULL \notin Addrs
BY MemTraceAssumption DEF Ptrs, NULL

LEMMA Listed ==
  ASSUME NEW l \in Seq(Items)
  PROVE  /\ Len(l) \in Nat /\ DOMAIN l = 1 .. Len(l)
         /\ \A i \in 1 .. Len(l) : l[i] \in Items /\ l[i].ptr \in Nat /\ l[i] \in ToSet(l)
         /\ \A x \in ToSet(l) : x \in Items /\ \E i \in 1 .. Len(l) : l[i] = x
<1>1. Len(l) \in Nat /\ DOMAIN l = 1 .. Len(l) /\ \A i \in 1 .. Len(l) : l[i] \in Items
  BY LenProperties
<1> QED
  BY <1>1, PtrsNat DEF ToSet, Items

\* An address is in one item at most.
LEMMA OneItem ==
  ASSUME NEW l, Sorted(l), NEW x \in ToSet(l), NEW y \in ToSet(l), x.ptr = y.ptr
  PROVE  x = y
<1>1. PICK i \in 1 .. Len(l) : l[i] = x
  BY Listed DEF Sorted
<1>2. PICK j \in 1 .. Len(l) : l[j] = y
  BY Listed DEF Sorted
<1>3. l[i].ptr \in Nat /\ l[j].ptr \in Nat /\ Len(l) \in Nat
  BY Listed DEF Sorted
<1>4. ~(i < j) /\ ~(j < i)
  BY <1>1, <1>2, <1>3 DEF Sorted
<1> QED
  BY <1>1, <1>2, <1>3, <1>4

LEMMA LeastIndex ==
  ASSUME NEW I \in SUBSET Nat, I # {}
  PROVE  Min(I) \in I /\ \A j \in I : Min(I) <= j
<1>1. \E i \in I : \A j \in I : i <= j
  BY LeastNatural
<1> QED
  BY <1>1 DEF Min

\* Where the searches of memlist.c stop.
LEMMA Stops ==
  ASSUME NEW l \in Seq(Items), Sorted(l), NEW p \in Ptrs,
         NEW i, i = SelectInSeq(l, LAMBDA x : x.ptr >= p)
  PROVE  \/ i = 0 /\ \A j \in 1 .. Len(l) : l[j].ptr < p
         \/ /\ i \in 1 .. Len(l) /\ l[i].ptr >= p
            /\ \A j \in 1 .. Len(l) : j < i => l[j].ptr < p
            /\ \A j \in 1 .. Len(l) : j > i => l[j].ptr > p
<1> DEFINE I == {j \in 1 .. Len(l) : l[j].ptr >= p}
<1>1. p \in Nat /\ Len(l) \in Nat /\ \A j \in 1 .. Len(l) : l[j].ptr \in Nat
  BY PtrsNat, Listed DEF Sorted
<1>2. i = IF I # {} THEN Min(I) ELSE 0
  BY DEF SelectInSeq
<1>3. CASE I = {}
  <2>1. ASSUME NEW j \in 1 .. Len(l) PROVE l[j].ptr < p
    <3>1. ~(l[j].ptr >= p)
      BY <1>3
    <3> QED
      BY <1>1, <3>1
  <2> QED
    BY <1>2, <1>3, <2>1
<1>4. CASE I # {}
  <2>1. I \in SUBSET Nat
    BY <1>1
  <2>2. i \in I /\ \A j \in I : i <= j
    BY <1>2, <1>4, <2>1, LeastIndex
  <2>3. i \in 1 .. Len(l) /\ l[i].ptr >= p
    BY <2>2
  <2>4. ASSUME NEW j \in 1 .. Len(l), j < i PROVE l[j].ptr < p
    <3>1. j \notin I
      <4>1. i \in Nat /\ j \in Nat
        BY <1>1, <2>3
      <4>2. ~(i <= j)
        BY <2>4, <4>1
      <4> QED
        BY <2>2, <4>2
    <3>2. ~(l[j].ptr >= p)
      BY <3>1
    <3> QED
      BY <1>1, <3>2
  <2>5. ASSUME NEW j \in 1 .. Len(l), j > i PROVE l[j].ptr > p
    <3>1. l[i].ptr < l[j].ptr
      BY <2>3, <2>5 DEF Sorted
    <3> QED
      BY <1>1, <2>3, <3>1
  <2> QED
    BY <2>3, <2>4, <2>5
<1> QED
  BY <1>3, <1>4

\* A position is filled with an item of the same address.
LEMMA Replaced ==
  ASSUME NEW l \in Seq(Items), Sorted(l), NEW i \in 1 .. Len(l), NEW x \in Items, x.ptr = l[i].ptr
  PROVE  /\ Sorted([l EXCEPT ![i] = x])
         /\ \A y : y \in ToSet([l EXCEPT ![i] = x]) <=>
                     y = x \/ (y \in ToSet(l) /\ y.ptr # x.ptr)
<1> DEFINE m == [l EXCEPT ![i] = x]
<1>1. /\ l \in Seq(Items) /\ Len(l) \in Nat /\ DOMAIN l = 1 .. Len(l)
      /\ \A j \in 1 .. Len(l) : l[j] \in Items
  BY Listed DEF Sorted
<1>2. m \in Seq(Items) /\ Len(m) = Len(l) /\ DOMAIN m = 1 .. Len(l)
  BY <1>1, ExceptSeq
<1>3. m[i] = x /\ \A j \in 1 .. Len(l) : j # i => m[j] = l[j]
  BY <1>1
<1> HIDE DEF m
<1>4. Sorted(m)
  <2>1. \A j \in 1 .. Len(l) : m[j].ptr = l[j].ptr
    BY <1>3
  <2> QED
    BY <1>2, <2>1 DEF Sorted
<1>5. ASSUME NEW y
      PROVE  y \in ToSet(m) <=> y = x \/ (y \in ToSet(l) /\ y.ptr # x.ptr)
  <2>1. ASSUME y \in ToSet(m) PROVE y = x \/ (y \in ToSet(l) /\ y.ptr # x.ptr)
    <3>1. PICK j \in 1 .. Len(l) : y = m[j]
      BY <1>2, <2>1 DEF ToSet
    <3>2. CASE j # i
      <4>1. y = l[j] /\ l[j] \in ToSet(l) /\ l[i] \in ToSet(l)
        BY <1>1, <1>3, <3>1, <3>2 DEF ToSet
      <4>2. l[j].ptr # l[i].ptr
        <5>1. l[j].ptr \in Nat /\ l[i].ptr \in Nat /\ (i < j \/ j < i)
          BY <1>1, <3>2, Listed
        <5> QED
          BY <5>1 DEF Sorted
      <4> QED
        BY <4>1, <4>2
    <3> QED
      BY <1>3, <3>1, <3>2
  <2>2. x \in ToSet(m)
    BY <1>2, <1>3 DEF ToSet
  <2>3. ASSUME y \in ToSet(l), y.ptr # x.ptr PROVE y \in ToSet(m)
    <3>1. PICK j \in 1 .. Len(l) : y = l[j]
      BY <1>1, <2>3 DEF ToSet
    <3>2. y = m[j]
      BY <1>3, <2>3, <3>1
    <3> QED
      BY <1>2, <3>2 DEF ToSet
  <2> QED
    BY <2>1, <2>2, <2>3
<1> QED
  BY <1>4, <1>5 DEF m

\* A sequence with one more element behind its first k.
Splice(l, k, x) == SubSeq(l, 1, k) \o <<x>> \o SubSeq(l, k + 1, Len(l))

LEMMA Spliced ==
  ASSUME NEW S, NEW l \in Seq(S), NEW x \in S, NEW k \in Nat, k <= Len(l)
  PROVE  /\ Splice(l, k, x) \in Seq(S) /\ Len(Splice(l, k, x)) = Len(l) + 1
         /\ \A j \in 1 .. Len(l) + 1 :
              Splice(l, k, x)[j] = IF j <= k THEN l[j] ELSE IF j = k + 1 THEN x ELSE l[j - 1]
<1> DEFINE a == SubSeq(l, 1, k)
           b == SubSeq(l, k + 1, Len(l))
           c == a \o <<x>>
           m == c \o b
           n == Len(l)
<1>1. n \in Nat /\ \A j \in 1 .. n : l[j] \in S
  BY LenProperties
<1> HIDE DEF n
<1>2. a \in Seq(S) /\ Len(a) = k /\ \A j \in 1 .. k : a[j] = l[j]
  <2>1. \A i \in 1 .. k : l[i] \in S
    BY <1>1 DEF n
  <2>2. Len(a) = IF 1 <= k THEN k ELSE 0
    BY <2>1, SubSeqProperties
  <2>3. \A j \in 1 .. k - 1 + 1 : a[j] = l[1 + j - 1]
    BY <2>1, SubSeqProperties
  <2>4. \A j \in 1 .. k : j \in 1 .. k - 1 + 1 /\ 1 + j - 1 = j
    OBVIOUS
  <2>5. a \in Seq(S)
    BY <2>1, SubSeqProperties
  <2> QED
    BY <2>2, <2>3, <2>4, <2>5
<1>3. b \in Seq(S) /\ Len(b) = n - k /\ \A j \in 1 .. n - k : b[j] = l[k + j]
  <2>1. \A i \in k + 1 .. n : l[i] \in S
    BY <1>1
  <2>2. Len(b) = IF k + 1 <= n THEN n - (k + 1) + 1 ELSE 0
    BY <1>1, <2>1, SubSeqProperties DEF n
  <2>3. \A j \in 1 .. n - (k + 1) + 1 : b[j] = l[(k + 1) + j - 1]
    BY <1>1, <2>1, SubSeqProperties DEF n
  <2>4. \A j \in 1 .. n - k : j \in 1 .. n - (k + 1) + 1 /\ (k + 1) + j - 1 = k + j
    BY <1>1
  <2>5. b \in Seq(S)
    BY <1>1, <2>1, SubSeqProperties DEF n
  <2>6. k <= n
    BY DEF n
  <2> QED
    BY <1>1, <2>2, <2>3, <2>4, <2>5, <2>6
<1> HIDE DEF a, b
<1>4. c \in Seq(S) /\ Len(c) = k + 1 /\ c[k + 1] = x /\ \A j \in 1 .. k : c[j] = l[j]
  <2>1. <<x>> \in Seq(S) /\ Len(<<x>>) = 1 /\ <<x>>[1] = x
    OBVIOUS
  <2>2. /\ c \in Seq(S) /\ Len(c) = k + 1
        /\ \A j \in 1 .. k + 1 : c[j] = IF j <= k THEN a[j] ELSE <<x>>[j - k]
    BY <1>2, <2>1, ConcatProperties
  <2>3. k + 1 \in 1 .. k + 1 /\ (k + 1) - k = 1 /\ ~(k + 1 <= k)
    OBVIOUS
  <2>4. c[k + 1] = x
    BY <2>1, <2>2, <2>3
  <2> QED
    BY <1>2, <2>2, <2>4
<1> HIDE DEF c
<1>5. /\ m \in Seq(S) /\ Len(m) = (k + 1) + (n - k)
      /\ \A j \in 1 .. (k + 1) + (n - k) : m[j] = IF j <= k + 1 THEN c[j] ELSE b[j - (k + 1)]
  <2>1. /\ m \in Seq(S) /\ Len(m) = Len(c) + Len(b)
        /\ \A j \in 1 .. Len(c) + Len(b) : m[j] = IF j <= Len(c) THEN c[j] ELSE b[j - Len(c)]
    BY <1>3, <1>4, ConcatProperties
  <2> QED
    BY <2>1, <1>3, <1>4
<1> HIDE DEF m
<1>6. (k + 1) + (n - k) = n + 1
  BY <1>1
<1>7. ASSUME NEW j \in 1 .. n + 1
      PROVE  m[j] = IF j <= k THEN l[j] ELSE IF j = k + 1 THEN x ELSE l[j - 1]
  <2>1. CASE j <= k + 1
    <3>1. m[j] = c[j]
      BY <1>5, <1>6, <2>1
    <3> QED
      BY <1>1, <1>4, <2>1, <3>1
  <2>2. CASE ~(j <= k + 1)
    <3>1. m[j] = b[j - (k + 1)]
      BY <1>5, <1>6, <2>2
    <3>2. j - (k + 1) \in 1 .. n - k /\ k + (j - (k + 1)) = j - 1 /\ ~(j <= k) /\ j # k + 1
      BY <1>1, <2>2
    <3>3. b[j - (k + 1)] = l[k + (j - (k + 1))]
      BY <1>3, <3>2
    <3> QED
      BY <3>1, <3>2, <3>3
  <2> QED
    BY <2>1, <2>2
<1>8. m \in Seq(S) /\ Len(m) = n + 1
  BY <1>5, <1>6
<1> QED
  BY <1>7, <1>8 DEF m, c, a, b, n, Splice

\* An item is put between those below its address and those above.
LEMMA Inserted ==
  ASSUME NEW l \in Seq(Items), Sorted(l), NEW k \in Nat, k <= Len(l), NEW x \in Items,
         \A j \in 1 .. k : l[j].ptr < x.ptr,
         \A j \in k + 1 .. Len(l) : l[j].ptr > x.ptr
  PROVE  /\ Sorted(Splice(l, k, x))
         /\ \A y : y \in ToSet(Splice(l, k, x)) <=> y = x \/ y \in ToSet(l)
<1> DEFINE n == Len(l)
           m == Splice(l, k, x)
<1> n \in Nat
  BY LenProperties
<1> /\ m \in Seq(Items) /\ Len(m) = n + 1
    /\ \A j \in 1 .. n + 1 : m[j] = IF j <= k THEN l[j] ELSE IF j = k + 1 THEN x ELSE l[j - 1]
  <2>1. m \in Seq(Items)
    BY Spliced
  <2>2. Len(m) = Len(l) + 1
    BY Spliced
  <2>3. \A j \in 1 .. Len(l) + 1 :
          m[j] = IF j <= k THEN l[j] ELSE IF j = k + 1 THEN x ELSE l[j - 1]
    BY Spliced
  <2> QED
    BY <2>1, <2>2, <2>3
<1> Len(l) = n /\ k <= n /\ \A j \in k + 1 .. n : l[j].ptr > x.ptr
  OBVIOUS
<1> HIDE DEF n, m
<1>1. DOMAIN l = 1 .. n /\ DOMAIN m = 1 .. n + 1
  BY LenProperties
<1>2. Sorted(m)
  <2>1. ASSUME NEW i \in 1 .. n + 1, NEW j \in 1 .. n + 1, i < j
        PROVE  m[i].ptr < m[j].ptr
    <3>1. CASE j <= k
      <4>1. i \in 1 .. n /\ j \in 1 .. n /\ m[i] = l[i] /\ m[j] = l[j]
        BY <2>1, <3>1
      <4> QED
        BY <2>1, <4>1 DEF Sorted
    <3>2. CASE j = k + 1
      <4>1. m[j] = x /\ m[i] = l[i] /\ i \in 1 .. k
        BY <2>1, <3>2
      <4> QED
        BY <4>1
    <3>3. CASE j > k + 1 /\ i <= k
      <4>1. m[j] = l[j - 1] /\ m[i] = l[i] /\ i < j - 1 /\ i \in 1 .. n /\ j - 1 \in 1 .. n
        BY <2>1, <3>3
      <4> QED
        BY <4>1 DEF Sorted
    <3>4. CASE j > k + 1 /\ i = k + 1
      <4>1. m[j] = l[j - 1] /\ m[i] = x /\ j - 1 \in k + 1 .. n /\ j - 1 \in 1 .. n
        BY <2>1, <3>4
      <4>2. l[j - 1].ptr > x.ptr /\ l[j - 1].ptr \in Nat /\ x.ptr \in Nat
        BY <4>1, Listed, PtrsNat DEF Items
      <4> QED
        BY <4>1, <4>2
    <3>5. CASE j > k + 1 /\ i > k + 1
      <4>1. /\ m[j] = l[j - 1] /\ m[i] = l[i - 1] /\ i - 1 < j - 1
            /\ i - 1 \in 1 .. n /\ j - 1 \in 1 .. n
        BY <2>1, <3>5
      <4> QED
        BY <4>1 DEF Sorted
    <3> QED
      BY <2>1, <3>1, <3>2, <3>3, <3>4, <3>5
  <2> QED
    BY <2>1 DEF Sorted
<1>3. ASSUME NEW y
      PROVE  y \in ToSet(m) <=> y = x \/ y \in ToSet(l)
  <2>1. ASSUME y \in ToSet(m) PROVE y = x \/ y \in ToSet(l)
    <3>1. PICK j \in 1 .. n + 1 : y = m[j]
      BY <1>1, <2>1 DEF ToSet
    <3>2. CASE j <= k
      <4>1. j \in 1 .. n /\ y = l[j]
        BY <3>1, <3>2
      <4> QED
        BY <1>1, <4>1 DEF ToSet
    <3>3. CASE j > k + 1
      <4>1. j - 1 \in 1 .. n /\ y = l[j - 1]
        BY <3>1, <3>3
      <4> QED
        BY <1>1, <4>1 DEF ToSet
    <3>4. CASE j = k + 1
      BY <3>1, <3>4
    <3> QED
      BY <3>2, <3>3, <3>4
  <2>2. x \in ToSet(m)
    <3>1. k + 1 \in 1 .. n + 1 /\ ~(k + 1 <= k)
      OBVIOUS
    <3>2. m[k + 1] = x
      BY <3>1
    <3> QED
      BY <1>1, <3>1, <3>2 DEF ToSet
  <2>3. ASSUME y \in ToSet(l) PROVE y \in ToSet(m)
    <3>1. PICK j \in 1 .. n : y = l[j]
      BY <1>1, <2>3 DEF ToSet
    <3>2. CASE j <= k
      <4>1. j \in 1 .. n + 1 /\ y = m[j]
        BY <3>1, <3>2
      <4> QED
        BY <1>1, <4>1 DEF ToSet
    <3>3. CASE j > k
      <4>1. j + 1 \in 1 .. n + 1 /\ (j + 1) - 1 = j /\ ~(j + 1 <= k) /\ j + 1 # k + 1
        BY <3>3
      <4>2. y = m[j + 1]
        BY <3>1, <4>1
      <4> QED
        BY <1>1, <4>1, <4>2 DEF ToSet
    <3> QED
      BY <3>2, <3>3
  <2> QED
    BY <2>1, <2>2, <2>3
<1> QED
  BY <1>2, <1>3 DEF m

\* alloc counts the item of the address up, or adds one.
LEMMA AllocItems ==
  ASSUME NEW l \in Seq(Items), Sorted(l), NEW p \in Ptrs, NEW n \in Sizes
  PROVE  /\ Sorted(alloc(l, p, n))
         /\ \A y \in ToSet(alloc(l, p, n)) :
              \/ y \in ToSet(l) /\ y.ptr # p
              \/ \E x \in ToSet(l) : x.ptr = p /\ y = Item(p, n, x.cnt + 1)
              \/ (\A x \in ToSet(l) : x.ptr # p) /\ y = Item(p, n, 1)
         /\ \A x \in ToSet(l) : x.ptr # p => x \in ToSet(alloc(l, p, n))
         /\ \E y \in ToSet(alloc(l, p, n)) : y.ptr = p
<1> DEFINE i == SelectInSeq(l, LAMBDA x : x.ptr >= p)
           new == Item(p, n, 1)
<1>1. \/ i = 0 /\ \A j \in 1 .. Len(l) : l[j].ptr < p
      \/ /\ i \in 1 .. Len(l) /\ l[i].ptr >= p
         /\ \A j \in 1 .. Len(l) : j < i => l[j].ptr < p
         /\ \A j \in 1 .. Len(l) : j > i => l[j].ptr > p
  BY Stops
<1>2. /\ l \in Seq(Items) /\ Len(l) \in Nat /\ p \in Nat
      /\ \A j \in 1 .. Len(l) : l[j] \in Items /\ l[j].ptr \in Nat /\ l[j] \in ToSet(l)
      /\ \A x \in ToSet(l) : x \in Items /\ \E j \in 1 .. Len(l) : l[j] = x
  BY Listed, PtrsNat DEF Sorted
<1>3. new \in Items /\ new.ptr = p
  BY DEF Item, Items
<1>4. alloc(l, p, n) = IF i = 0 THEN Append(l, new)
                       ELSE IF l[i].ptr = p THEN [l EXCEPT ![i] = Item(p, n, l[i].cnt + 1)]
                       ELSE InsertAt(l, i, new)
  BY DEF alloc
<1> HIDE DEF i, new
<1>5. ASSUME NEW k \in Nat, k <= Len(l), \A j \in 1 .. k : l[j].ptr < p,
             \A j \in k + 1 .. Len(l) : l[j].ptr > p
      PROVE  /\ Sorted(Splice(l, k, new))
             /\ \A y : y \in ToSet(Splice(l, k, new)) <=> y = new \/ y \in ToSet(l)
             /\ \A x \in ToSet(l) : x.ptr # p
  <2>2. /\ Sorted(Splice(l, k, new))
        /\ \A y : y \in ToSet(Splice(l, k, new)) <=> y = new \/ y \in ToSet(l)
    BY <1>3, <1>5, Inserted
  <2>3. ASSUME NEW j \in 1 .. Len(l) PROVE l[j].ptr # p
    <3>1. j \in 1 .. k \/ j \in k + 1 .. Len(l)
      BY <1>2
    <3> QED
      BY <1>2, <1>5, <3>1
  <2> QED
    BY <1>2, <2>2, <2>3
<1>6. CASE i = 0
  <2>1. SubSeq(l, 1, Len(l)) = l /\ SubSeq(l, Len(l) + 1, Len(l)) = <<>>
    <3>1. SubSeq(l, 1, Len(l)) = l
      BY <1>2, SubSeqFull
    <3>2. SubSeq(l, Len(l) + 1, Len(l)) = <<>>
      BY <1>2, SubSeqEmpty
    <3> QED
      BY <3>1, <3>2
  <2>2. Append(l, new) = Splice(l, Len(l), new)
    <3>1. Append(l, new) = l \o <<new>>
      BY <1>2, <1>3, AppendIsConcat
    <3>2. l \o <<new>> \in Seq(Items)
      <4>1. <<new>> \in Seq(Items)
        BY <1>3
      <4> QED
        BY <1>2, <4>1, ConcatProperties
    <3>3. (l \o <<new>>) \o <<>> = l \o <<new>>
      BY <3>2, ConcatEmptySeq
    <3> QED
      BY <2>1, <3>1, <3>3 DEF Splice
  <2>3. \A j \in 1 .. Len(l) : l[j].ptr < p
    BY <1>1, <1>6
  <2>4. Len(l) + 1 .. Len(l) = {}
    BY <1>2
  <2>5. /\ Sorted(alloc(l, p, n)) /\ \A x \in ToSet(l) : x.ptr # p
        /\ \A y : y \in ToSet(alloc(l, p, n)) <=> y = new \/ y \in ToSet(l)
    <3>1. \A j \in Len(l) + 1 .. Len(l) : l[j].ptr > p
      BY <2>4
    <3>2. Len(l) \in Nat /\ Len(l) <= Len(l)
      BY <1>2
    <3>3. alloc(l, p, n) = Splice(l, Len(l), new)
      BY <1>4, <1>6, <2>2
    <3> QED
      BY <1>5, <2>3, <3>1, <3>2, <3>3
  <2> QED
    BY <1>3, <2>5 DEF new
<1>7. CASE i # 0 /\ l[i].ptr = p
  <2> DEFINE up == Item(p, n, l[i].cnt + 1)
  <2>1. i \in 1 .. Len(l) /\ l[i] \in ToSet(l)
    BY <1>1, <1>2, <1>7
  <2>2. up \in Items /\ up.ptr = p
    BY <1>2, <2>1 DEF Item, Items
  <2>3. alloc(l, p, n) = [l EXCEPT ![i] = up]
    BY <1>4, <1>7
  <2>4. \E x \in ToSet(l) : x.ptr = p /\ up = Item(p, n, x.cnt + 1)
    BY <1>7, <2>1
  <2> HIDE DEF up
  <2>5. /\ Sorted(alloc(l, p, n))
        /\ \A y : y \in ToSet(alloc(l, p, n)) <=> y = up \/ (y \in ToSet(l) /\ y.ptr # up.ptr)
    <3>1. up.ptr = l[i].ptr
      BY <1>7, <2>2
    <3>2. /\ Sorted([l EXCEPT ![i] = up])
          /\ \A y : y \in ToSet([l EXCEPT ![i] = up]) <=>
                      y = up \/ (y \in ToSet(l) /\ y.ptr # up.ptr)
      BY <2>1, <2>2, <3>1, Replaced
    <3> QED
      BY <2>3, <3>2
  <2> QED
    BY <2>2, <2>4, <2>5
<1>8. CASE i # 0 /\ l[i].ptr # p
  <2>1. i \in 1 .. Len(l) /\ l[i].ptr > p
    BY <1>1, <1>2, <1>8
  <2>2. i - 1 \in Nat /\ i - 1 <= Len(l) /\ (i - 1) + 1 = i
    BY <1>2, <2>1
  <2>3. alloc(l, p, n) = Splice(l, i - 1, new)
    BY <1>4, <1>8, <2>2 DEF InsertAt, Splice
  <2>4. \A j \in 1 .. i - 1 : l[j].ptr < p
    BY <1>1, <1>2, <2>1
  <2>5. \A j \in (i - 1) + 1 .. Len(l) : l[j].ptr > p
    BY <1>1, <1>2, <2>1
  <2>6. /\ Sorted(alloc(l, p, n)) /\ \A x \in ToSet(l) : x.ptr # p
        /\ \A y : y \in ToSet(alloc(l, p, n)) <=> y = new \/ y \in ToSet(l)
    BY <1>5, <2>2, <2>3, <2>4, <2>5
  <2> QED
    BY <1>3, <2>6 DEF new
<1> QED
  BY <1>6, <1>7, <1>8

\* dealloc counts the item of the address down, if there is one.
LEMMA DeallocItems ==
  ASSUME NEW l \in Seq(Items), Sorted(l), NEW p \in Ptrs
  PROVE  /\ Sorted(dealloc(l, p))
         /\ \A y \in ToSet(dealloc(l, p)) :
              \/ y \in ToSet(l) /\ y.ptr # p
              \/ \E x \in ToSet(l) : x.ptr = p /\ y = [x EXCEPT !.cnt = x.cnt - 1]
         /\ \A x \in ToSet(l) : x.ptr # p => x \in ToSet(dealloc(l, p))
         /\ \A x \in ToSet(l) : \E y \in ToSet(dealloc(l, p)) : y.ptr = x.ptr
<1> DEFINE I == {j \in 1 .. Len(l) : l[j].ptr = p}
           i == SelectInSeq(l, LAMBDA x : x.ptr = p)
<1>1. /\ l \in Seq(Items) /\ Len(l) \in Nat
      /\ \A j \in 1 .. Len(l) : l[j] \in Items /\ l[j] \in ToSet(l)
      /\ \A x \in ToSet(l) : x \in Items /\ \E j \in 1 .. Len(l) : l[j] = x
  BY Listed DEF Sorted
<1>2. i = IF I # {} THEN Min(I) ELSE 0
  BY DEF SelectInSeq
<1>3. dealloc(l, p) = IF i = 0 THEN l ELSE [l EXCEPT ![i].cnt = l[i].cnt - 1]
  BY DEF dealloc
<1>4. CASE I = {}
  <2>1. dealloc(l, p) = l /\ \A x \in ToSet(l) : x.ptr # p
    BY <1>1, <1>2, <1>3, <1>4
  <2> QED
    BY <2>1
<1>5. CASE I # {}
  <2>1. I \in SUBSET Nat
    BY <1>1
  <2>2. i \in I
    BY <1>2, <1>5, <2>1, LeastIndex
  <2>3. i \in 1 .. Len(l) /\ l[i].ptr = p /\ i # 0
    BY <1>1, <2>2
  <2> HIDE DEF i
  <2> DEFINE down == [l[i] EXCEPT !.cnt = l[i].cnt - 1]
  <2>4. down \in Items /\ down.ptr = p
    BY <1>1, <2>3 DEF Items
  <2>5. dealloc(l, p) = [l EXCEPT ![i] = down]
    BY <1>3, <2>3
  <2>6. \E x \in ToSet(l) : x.ptr = p /\ down = [x EXCEPT !.cnt = x.cnt - 1]
    BY <1>1, <2>3
  <2> HIDE DEF down
  <2>7. /\ Sorted(dealloc(l, p))
        /\ \A y : y \in ToSet(dealloc(l, p)) <=> y = down \/ (y \in ToSet(l) /\ y.ptr # down.ptr)
    <3>1. down.ptr = l[i].ptr
      BY <2>3, <2>4
    <3>2. /\ Sorted([l EXCEPT ![i] = down])
          /\ \A y : y \in ToSet([l EXCEPT ![i] = down]) <=>
                      y = down \/ (y \in ToSet(l) /\ y.ptr # down.ptr)
      BY <2>3, <2>4, <3>1, Replaced
    <3> QED
      BY <2>5, <3>2
  <2> QED
    BY <2>4, <2>6, <2>7
<1> QED
  BY <1>4, <1>5

\* find comes upon the item of the address, if there is one.
LEMMA FindItem ==
  ASSUME NEW l \in Seq(Items), Sorted(l), NEW p \in Ptrs
  PROVE  /\ find(l, p) # <<>> => find(l, p)[1] \in ToSet(l) /\ find(l, p)[1].ptr = p
         /\ \A x \in ToSet(l) : x.ptr = p => find(l, p) # <<>>
<1> DEFINE i == SelectInSeq(l, LAMBDA x : x.ptr >= p)
<1>1. \/ i = 0 /\ \A j \in 1 .. Len(l) : l[j].ptr < p
      \/ /\ i \in 1 .. Len(l) /\ l[i].ptr >= p
         /\ \A j \in 1 .. Len(l) : j < i => l[j].ptr < p
         /\ \A j \in 1 .. Len(l) : j > i => l[j].ptr > p
  BY Stops
<1>2. /\ Len(l) \in Nat /\ p \in Nat
      /\ \A j \in 1 .. Len(l) : l[j].ptr \in Nat /\ l[j] \in ToSet(l)
      /\ \A x \in ToSet(l) : \E j \in 1 .. Len(l) : l[j] = x
  BY Listed, PtrsNat DEF Sorted
<1>3. find(l, p) = IF i # 0 /\ l[i].ptr = p THEN <<l[i]>> ELSE <<>>
  BY DEF find
<1> HIDE DEF i
<1>4. ASSUME find(l, p) # <<>>
      PROVE  find(l, p)[1] \in ToSet(l) /\ find(l, p)[1].ptr = p
  <2>1. i # 0 /\ l[i].ptr = p /\ find(l, p) = <<l[i]>>
    BY <1>3, <1>4
  <2> QED
    BY <1>1, <1>2, <2>1
<1>5. ASSUME NEW x \in ToSet(l), x.ptr = p
      PROVE  find(l, p) # <<>>
  <2>1. PICK j \in 1 .. Len(l) : l[j] = x
    BY <1>2
  <2>2. l[j].ptr = p /\ ~(p < p) /\ ~(p > p)
    BY <1>2, <1>5, <2>1
  <2>3. i \in 1 .. Len(l) /\ ~(j < i) /\ ~(j > i)
    BY <1>1, <2>2
  <2>4. i = j /\ i # 0
    BY <1>2, <2>3
  <2> QED
    BY <1>3, <2>2, <2>4
<1> QED
  BY <1>4, <1>5

-----------------------------------------------------------------------------
(* The list and libc's blocks.                                             *)

LEMMA InitMInv == Init => MInv
<1> SUFFICES ASSUME Init PROVE MInv
  OBVIOUS
<1>1. list = <<>> /\ live = {}
  BY DEF Init, new_list
<1>2. ToSet(list) = {} /\ Sorted(list)
  BY <1>1 DEF ToSet, Sorted
<1> QED
  BY <1>1, <1>2 DEF MInv, Ledger, LedgerOf

\* libc returns q, a block that was not in use, or NULL.
LEMMA AllocLedger ==
  ASSUME NEW l \in Seq(Items), Sorted(l), NEW L \in SUBSET Addrs, LedgerOf(l, L),
         NEW n \in Sizes, NEW q \in (Addrs \ L) \cup {NULL}
  PROVE  LedgerOf(alloc(l, q, n), L \cup ({q} \ {NULL}))
<1> DEFINE m == alloc(l, q, n)
           M == L \cup ({q} \ {NULL})
<1>1. q \in Ptrs
  BY DEF Ptrs
<1>2. /\ \A y \in ToSet(m) :
           \/ y \in ToSet(l) /\ y.ptr # q
           \/ \E x \in ToSet(l) : x.ptr = q /\ y = Item(q, n, x.cnt + 1)
           \/ (\A x \in ToSet(l) : x.ptr # q) /\ y = Item(q, n, 1)
      /\ \A x \in ToSet(l) : x.ptr # q => x \in ToSet(m)
      /\ \E y \in ToSet(m) : y.ptr = q
  BY <1>1, AllocItems
<1> HIDE DEF m
<1>3. \A x \in ToSet(l) : x \in Items /\ x.cnt \in Int
  BY Listed DEF Items
<1>4. (\A x \in ToSet(m) : x.ptr # NULL) => \A x \in ToSet(l) : x.ptr # NULL
  BY <1>2
<1>5. ASSUME NEW y \in ToSet(m)
      PROVE  /\ y.ptr # NULL => y.cnt <= InUse(M, y.ptr)
             /\ (\A x \in ToSet(m) : x.ptr # NULL) => y.cnt = InUse(M, y.ptr)
  <2>1. CASE y \in ToSet(l) /\ y.ptr # q
    <3>1. InUse(M, y.ptr) = InUse(L, y.ptr)
      BY <2>1 DEF InUse
    <3> HIDE DEF M
    <3> QED
      BY <1>4, <2>1, <3>1 DEF LedgerOf
  <2>2. ASSUME NEW x \in ToSet(l), x.ptr = q, y = Item(q, n, x.cnt + 1)
        PROVE  /\ y.ptr # NULL => y.cnt <= InUse(M, y.ptr)
               /\ (\A z \in ToSet(m) : z.ptr # NULL) => y.cnt = InUse(M, y.ptr)
    <3>1. y.ptr = q /\ y.cnt = x.cnt + 1
      BY <2>2 DEF Item
    <3>2. CASE q = NULL
      BY <3>1, <3>2
    <3>3. CASE q # NULL
      <4>1. InUse(M, q) = 1 /\ InUse(L, q) = 0
        BY <3>3 DEF InUse
      <4> HIDE DEF M
      <4>2. x.cnt <= 0 /\ x.cnt \in Int
        BY <1>3, <2>2, <3>3, <4>1 DEF LedgerOf
      <4>3. (\A z \in ToSet(m) : z.ptr # NULL) => x.cnt = 0
        BY <1>4, <2>2, <4>1 DEF LedgerOf
      <4> QED
        BY <3>1, <4>1, <4>2, <4>3
    <3> QED
      BY <3>2, <3>3
  <2>3. CASE y = Item(q, n, 1)
    <3>1. y.ptr = q /\ y.cnt = 1
      BY <2>3 DEF Item
    <3>2. q # NULL => InUse(M, q) = 1
      BY DEF InUse
    <3> HIDE DEF M
    <3> QED
      BY <3>1, <3>2
  <2> HIDE DEF M
  <2> QED
    BY <1>2, <2>1, <2>2, <2>3
<1>6. ASSUME NEW p \in M
      PROVE  \E y \in ToSet(m) : y.ptr = p
  <2>1. CASE p = q
    BY <1>2, <2>1
  <2>2. CASE p # q
    <3>1. PICK x \in ToSet(l) : x.ptr = p
      BY <2>2 DEF LedgerOf
    <3> QED
      BY <1>2, <2>2, <3>1
  <2> QED
    BY <2>1, <2>2
<1> HIDE DEF M
<1>7. LedgerOf(m, M)
  BY <1>5, <1>6 DEF LedgerOf
<1> QED
  BY <1>7 DEF m, M

\* A block in use, or NULL, is given back: the count of its item goes down.
LEMMA DeallocLedger ==
  ASSUME NEW l \in Seq(Items), Sorted(l), NEW L \in SUBSET Addrs, LedgerOf(l, L),
         NEW p \in L \cup {NULL}
  PROVE  LedgerOf(dealloc(l, p), L \ {p})
<1> DEFINE m == dealloc(l, p)
           M == L \ {p}
<1>1. p \in Ptrs
  BY DEF Ptrs
<1>2. /\ \A y \in ToSet(m) :
           \/ y \in ToSet(l) /\ y.ptr # p
           \/ \E x \in ToSet(l) : x.ptr = p /\ y = [x EXCEPT !.cnt = x.cnt - 1]
      /\ \A x \in ToSet(l) : \E y \in ToSet(m) : y.ptr = x.ptr
  BY <1>1, DeallocItems
<1> HIDE DEF m
<1>3. \A x \in ToSet(l) : x \in Items
  BY Listed
<1>4. (\A y \in ToSet(m) : y.ptr # NULL) => \A x \in ToSet(l) : x.ptr # NULL
  BY <1>2
<1>5. ASSUME NEW y \in ToSet(m)
      PROVE  /\ y.ptr # NULL => y.cnt <= InUse(M, y.ptr)
             /\ (\A x \in ToSet(m) : x.ptr # NULL) => y.cnt = InUse(M, y.ptr)
  <2>1. CASE y \in ToSet(l) /\ y.ptr # p
    <3>1. InUse(M, y.ptr) = InUse(L, y.ptr)
      BY <2>1 DEF InUse
    <3> HIDE DEF M
    <3> QED
      BY <1>4, <2>1, <3>1 DEF LedgerOf
  <2>2. ASSUME NEW x \in ToSet(l), x.ptr = p, y = [x EXCEPT !.cnt = x.cnt - 1]
        PROVE  /\ y.ptr # NULL => y.cnt <= InUse(M, y.ptr)
               /\ (\A z \in ToSet(m) : z.ptr # NULL) => y.cnt = InUse(M, y.ptr)
    <3>1. y.ptr = p /\ y.cnt = x.cnt - 1 /\ x.cnt \in Int
      BY <1>3, <2>2 DEF Items
    <3>2. CASE p = NULL
      BY <3>1, <3>2
    <3>3. CASE p # NULL
      <4>1. InUse(M, p) = 0 /\ InUse(L, p) = 1
        BY <3>3 DEF InUse
      <4> HIDE DEF M
      <4> QED
        BY <1>4, <2>2, <3>1, <3>3, <4>1 DEF LedgerOf
    <3> QED
      BY <3>2, <3>3
  <2> HIDE DEF M
  <2> QED
    BY <1>2, <2>1, <2>2
<1>6. ASSUME NEW a \in M
      PROVE  \E y \in ToSet(m) : y.ptr = a
  BY <1>2 DEF LedgerOf
<1> HIDE DEF M
<1>7. LedgerOf(m, M)
  BY <1>5, <1>6 DEF LedgerOf
<1> QED
  BY <1>7 DEF m, M

\* A realloc of p that fails is recorded as a move to NULL; p stays in use.
LEMMA FailedLedger ==
  ASSUME NEW l \in Seq(Items), Sorted(l), NEW L \in SUBSET Addrs, LedgerOf(l, L),
         NEW n \in Sizes, NEW p \in L
  PROVE  LedgerOf(alloc(dealloc(l, p), NULL, n), L)
<1> DEFINE d == dealloc(l, p)
           m == alloc(d, NULL, n)
<1>1. p \in Ptrs /\ p # NULL /\ NULL \in Ptrs
  BY PtrsNat DEF Ptrs
<1>2. Sorted(d) /\ d \in Seq(Items) /\ \A x \in ToSet(l) : \E y \in ToSet(d) : y.ptr = x.ptr
  <2>1. Sorted(d) /\ \A x \in ToSet(l) : \E y \in ToSet(d) : y.ptr = x.ptr
    BY <1>1, DeallocItems
  <2> QED
    BY <2>1 DEF Sorted
<1>3. LedgerOf(d, L \ {p})
  BY DeallocLedger
<1> HIDE DEF d
<1>4. /\ \A x \in ToSet(d) : x.ptr # NULL => x \in ToSet(m)
      /\ \E y \in ToSet(m) : y.ptr = NULL
  BY <1>1, <1>2, AllocItems
<1>5. Sorted(m)
  BY <1>1, <1>2, AllocItems
<1>6. LedgerOf(m, (L \ {p}) \cup ({NULL} \ {NULL}))
  BY <1>2, <1>3, AllocLedger
<1> HIDE DEF m
<1>7. LedgerOf(m, L \ {p})
  <2>1. (L \ {p}) \cup ({NULL} \ {NULL}) = L \ {p}
    OBVIOUS
  <2> QED
    BY <1>6, <2>1
<1>8. ASSUME NEW y \in ToSet(m), y.ptr # NULL
      PROVE  y.cnt <= InUse(L, y.ptr)
  <2>1. y.cnt <= InUse(L \ {p}, y.ptr) /\ y.cnt \in Int
    <3>1. m \in Seq(Items)
      BY <1>5 DEF Sorted
    <3>2. y \in Items
      BY <3>1, Listed
    <3> QED
      BY <1>7, <1>8, <3>2 DEF LedgerOf, Items
  <2> QED
    BY <2>1 DEF InUse
<1>9. ASSUME NEW a \in L
      PROVE  \E y \in ToSet(m) : y.ptr = a
  <2>1. PICK x \in ToSet(l) : x.ptr = a
    BY DEF LedgerOf
  <2>2. PICK y \in ToSet(d) : y.ptr = a
    BY <1>2, <2>1
  <2>3. a # NULL
    BY PtrsNat
  <2> QED
    BY <1>4, <2>2, <2>3
<1>10. LedgerOf(m, L)
  BY <1>4, <1>8, <1>9 DEF LedgerOf
<1> QED
  BY <1>10 DEF m, d

-----------------------------------------------------------------------------
(* Steps of the program.                                                   *)

LEMMA LedgerTypes ==
  ASSUME MInv
  PROVE  list \in Seq(Items) /\ Sorted(list) /\ live \in SUBSET Addrs
BY DEF MInv, Sorted

LEMMA CrashKept ==
  ASSUME MInv, state' = "crashed", Sorted(list'), live' \subseteq Addrs
  PROVE  MInv'
BY DEF MInv

LEMMA ListSorted ==
  ASSUME MInv, NEW p \in Ptrs
  PROVE  /\ Sorted(dealloc(list, p)) /\ dealloc(list, p) \in Seq(Items)
         /\ \A q \in Ptrs, n \in Sizes : /\ Sorted(alloc(list, q, n))
                                         /\ Sorted(alloc(dealloc(list, p), q, n))
<1>1. Sorted(dealloc(list, p)) /\ dealloc(list, p) \in Seq(Items)
  <2>1. Sorted(dealloc(list, p))
    BY LedgerTypes, DeallocItems
  <2> QED
    BY <2>1 DEF Sorted
<1>2. ASSUME NEW q \in Ptrs, NEW n \in Sizes
      PROVE  Sorted(alloc(list, q, n)) /\ Sorted(alloc(dealloc(list, p), q, n))
  BY <1>1, LedgerTypes, AllocItems
<1> QED
  BY <1>1, <1>2

LEMMA MallocKept ==
  ASSUME MInv, state = "running", NEW n \in Sizes, Malloc(n)
  PROVE  MInv'
<1>1. PICK q \in Ptrs : LibcAlloc(q) /\ list' = alloc(list, q, n)
  BY DEF Malloc
<1>2. q \in (Addrs \ live) \cup {NULL} /\ live' = live \cup ({q} \ {NULL})
  BY <1>1 DEF LibcAlloc
<1>3. LedgerOf(list, live)
  BY DEF MInv, Ledger
<1>4. LedgerOf(list', live')
  BY <1>1, <1>2, <1>3, LedgerTypes, AllocLedger
<1>5. Sorted(list')
  BY <1>1, ListSorted
<1>6. live' \subseteq Addrs
  BY <1>2, LedgerTypes
<1> QED
  BY <1>4, <1>5, <1>6 DEF MInv, Ledger

\* The list after a realloc that libc has accepted.
LEMMA Moved ==
  ASSUME MInv, state = "running", NEW p \in Ptrs, NEW n \in Sizes, NEW q \in Ptrs,
         ~Aborts(p), LibcRealloc(p, n, q),
         list' = alloc(dealloc(list, p), q, n)
  PROVE  MInv'
<1> DEFINE d == dealloc(list, p)
<1>1. p \in live \cup {NULL} /\ NULL \notin live /\ NULL \in Ptrs
  BY LedgerTypes, PtrsNat DEF Aborts
<1>2. LedgerOf(list, live)
  BY DEF MInv, Ledger
<1>3. d \in Seq(Items) /\ Sorted(d) /\ Sorted(list')
  BY ListSorted
<1>4. LedgerOf(d, live \ {p})
  BY <1>1, <1>2, LedgerTypes, DeallocLedger
<1>5. live \ {p} \in SUBSET Addrs
  BY LedgerTypes
<1> HIDE DEF d
<1>6. ASSUME q \in (Addrs \ (live \ {p})) \cup {NULL}
      PROVE  LedgerOf(list', (live \ {p}) \cup ({q} \ {NULL}))
  <2>1. LedgerOf(alloc(d, q, n), (live \ {p}) \cup ({q} \ {NULL}))
    BY <1>3, <1>4, <1>5, <1>6, AllocLedger
  <2> QED
    BY <2>1 DEF d
<1>7. CASE p = NULL /\ LibcAlloc(q)
  <2>1. live \ {p} = live /\ q \in (Addrs \ live) \cup {NULL} /\ live' = live \cup ({q} \ {NULL})
    BY <1>1, <1>7 DEF LibcAlloc
  <2>2. LedgerOf(list', live')
    BY <1>6, <2>1
  <2>3. live' \subseteq Addrs
    BY <2>1, LedgerTypes
  <2> QED
    BY <1>3, <2>2, <2>3 DEF MInv, Ledger
<1>8. CASE p # NULL /\ n = 0 /\ q = NULL /\ live' = live \ {p}
  <2>1. live' = (live \ {p}) \cup ({q} \ {NULL})
    BY <1>8
  <2>2. LedgerOf(list', live')
    BY <1>6, <1>8, <2>1
  <2> QED
    BY <1>3, <1>5, <1>8, <2>2 DEF MInv, Ledger
<1>9. CASE p # NULL /\ n # 0 /\ q = NULL /\ UNCHANGED live
  <2>1. p \in live
    BY <1>1, <1>9
  <2>2. LedgerOf(alloc(dealloc(list, p), NULL, n), live)
    BY <1>2, <2>1, LedgerTypes, FailedLedger
  <2> QED
    BY <1>3, <1>9, <2>2, LedgerTypes DEF MInv, Ledger
<1>10. CASE /\ p # NULL /\ n # 0 /\ q \in {p} \cup (Addrs \ live)
            /\ live' = (live \ {p}) \cup {q}
  <2>1. q \in Addrs /\ q # NULL
    BY <1>1, <1>10, LedgerTypes, PtrsNat
  <2>2. live' = (live \ {p}) \cup ({q} \ {NULL}) /\ q \in (Addrs \ (live \ {p})) \cup {NULL}
    BY <1>10, <2>1
  <2>3. LedgerOf(list', live')
    BY <1>6, <2>2
  <2>4. live' \subseteq Addrs
    BY <1>5, <1>10, <2>1
  <2> QED
    BY <1>3, <2>3, <2>4 DEF MInv, Ledger
<1> QED
  BY <1>7, <1>8, <1>9, <1>10 DEF LibcRealloc

LEMMA MovedLive ==
  ASSUME MInv, NEW p \in Ptrs, NEW n \in Sizes, NEW q \in Ptrs, LibcRealloc(p, n, q)
  PROVE  live' \subseteq Addrs
<1>1. live \subseteq Addrs /\ (p # NULL => p \in Addrs)
  BY LedgerTypes DEF Ptrs
<1> QED
  BY <1>1 DEF LibcRealloc, LibcAlloc

LEMMA ReallocKept ==
  ASSUME MInv, state = "running", NEW p \in Ptrs, NEW n \in Sizes,
         Realloc(p, n) \/ ReallocUntold(p, n)
  PROVE  MInv'
<1>1. CASE Aborts(p)
  <2>1. state' = "crashed" /\ UNCHANGED <<list, live>>
    BY <1>1 DEF Realloc, ReallocUntold, Crash
  <2> QED
    BY <2>1, CrashKept, LedgerTypes
<1>2. CASE ~Aborts(p)
  <2>1. PICK q \in Ptrs : /\ LibcRealloc(p, n, q)
                          /\ \/ Crash
                             \/ list' = alloc(dealloc(list, p), q, n)
    BY <1>2 DEF Realloc, ReallocUntold
  <2>2. CASE Crash
    <3>1. state' = "crashed" /\ UNCHANGED list
      BY <2>2 DEF Crash
    <3>2. live' \subseteq Addrs
      BY <2>1, MovedLive
    <3> QED
      BY <3>1, <3>2, CrashKept, LedgerTypes
  <2>3. CASE list' = alloc(dealloc(list, p), q, n)
    BY <1>2, <2>1, <2>3, Moved
  <2> QED
    BY <2>1, <2>2, <2>3
<1> QED
  BY <1>1, <1>2

\* dealloc in the list, and free in libc.
LEMMA ReleasedKept ==
  ASSUME MInv, state = "running", NEW p \in Ptrs, Released(p), list' = dealloc(list, p)
  PROVE  MInv'
<1>1. Sorted(list') /\ live' \subseteq Addrs /\ live' = live \ {p}
  BY ListSorted, LedgerTypes DEF Released
<1>2. CASE Aborts(p)
  BY <1>1, <1>2, CrashKept DEF Released
<1>3. CASE ~Aborts(p)
  <2>1. p \in live \cup {NULL} /\ LedgerOf(list, live)
    BY <1>3 DEF Aborts, MInv, Ledger
  <2>2. LedgerOf(list', live')
    BY <1>1, <2>1, LedgerTypes, DeallocLedger
  <2> QED
    BY <1>1, <2>2 DEF MInv, Ledger
<1> QED
  BY <1>2, <1>3

LEMMA FreeKept ==
  ASSUME MInv, state = "running", NEW p \in Ptrs, FreeUntold(p) \/ FreeFound(p) \/ FreeInUse(p)
  PROVE  MInv'
<1>1. \/ Released(p) /\ list' = dealloc(list, p)
      \/ Crash /\ UNCHANGED live
      \/ UNCHANGED <<state, list, live>>
  BY DEF FreeUntold, FreeFound, FreeInUse
<1>2. CASE Crash /\ UNCHANGED live
  BY <1>2, CrashKept, LedgerTypes DEF Crash
<1>3. CASE UNCHANGED <<state, list, live>>
  BY <1>3 DEF MInv, Ledger
<1> QED
  BY <1>1, <1>2, <1>3, ReleasedKept

LEMMA FiniKept ==
  ASSUME MInv, Fini
  PROVE  MInv'
<1>1. UNCHANGED live /\ state' # "running" /\ (list' = list \/ list' = <<>>)
  BY DEF Fini, Crash, free_list
<1>2. Sorted(<<>>)
  BY DEF Sorted
<1> QED
  BY <1>1, <1>2 DEF MInv

LEMMA NextMInv == MInv /\ [Next]_mvars => MInv'
<1> SUFFICES ASSUME MInv, [Next]_mvars PROVE MInv'
  OBVIOUS
<1>1. CASE UNCHANGED mvars
  BY <1>1 DEF mvars, MInv, Ledger
<1>2. CASE Next
  <2>1. \/ \E n \in Sizes : Malloc(n)
        \/ \E p \in Ptrs, n \in Sizes : Realloc(p, n) \/ ReallocUntold(p, n)
        \/ \E p \in Ptrs : FreeUntold(p) \/ FreeFound(p) \/ FreeInUse(p)
        \/ Fini
    BY <1>2 DEF Next, Part1, Part2, Part3, Bonus, Allocates, Calloc
  <2>2. state = "running"
    BY <2>1 DEF Malloc, Realloc, ReallocUntold, FreeUntold, FreeFound, FreeInUse, Fini,
                MayAlloc, MayFree, Running
  <2> QED
    BY <2>1, <2>2, MallocKept, ReallocKept, FreeKept, FiniKept
<1> QED
  BY <1>1, <1>2

-----------------------------------------------------------------------------
\* A block in use has an item, and find comes upon it.
LEMMA LiveFound ==
  ASSUME MInv, state = "running", NEW p \in live
  PROVE  find(list, p) # <<>> /\ p \in Ptrs /\ ~Aborts(p)
<1>1. p \in Ptrs
  BY LedgerTypes DEF Ptrs
<1>2. \E x \in ToSet(list) : x.ptr = p
  BY DEF MInv, Ledger, LedgerOf
<1> QED
  BY <1>1, <1>2, LedgerTypes, FindItem DEF Aborts

\* An item with a positive count is that of a block in use, or of NULL.
LEMMA FoundLive ==
  ASSUME MInv, state = "running", NEW p \in Ptrs, find(list, p) # <<>>, find(list, p)[1].cnt > 0
  PROVE  ~Aborts(p)
<1> DEFINE x == find(list, p)[1]
<1>1. x \in ToSet(list) /\ x.ptr = p
  BY LedgerTypes, FindItem
<1>2. x.cnt \in Int
  <2>1. x \in Items
    BY <1>1, LedgerTypes, Listed
  <2> QED
    BY <2>1 DEF Items
<1>3. x.ptr # NULL => x.cnt <= InUse(live, x.ptr)
  BY <1>1 DEF MInv, Ledger, LedgerOf
<1> QED
  BY <1>1, <1>2, <1>3 DEF Aborts, InUse

\* What is listed is what is in use, as long as no NULL is recorded.
LEMMA ListedInUse ==
  ASSUME MInv, state = "running"
  PROVE  /\ {list[i].ptr : i \in show_bloks} \subseteq live \cup {NULL}
         /\ ~NullRecorded => /\ {list[i].ptr : i \in show_bloks} = live
                             /\ \A p \in live : find(list, p) # <<>>
                             /\ \A i \in show_bloks : list[i].cnt = 1
<1>1. /\ list \in Seq(Items) /\ DOMAIN list = 1 .. Len(list)
      /\ \A i \in DOMAIN list : list[i] \in ToSet(list) /\ list[i].cnt \in Int
      /\ \A x \in ToSet(list) : \E i \in DOMAIN list : list[i] = x
  BY LedgerTypes, Listed DEF Items
<1>2. LedgerOf(list, live)
  BY DEF MInv, Ledger
<1>3. ASSUME NEW i \in show_bloks
      PROVE  list[i].ptr \in live \cup {NULL}
  <2>1. list[i] \in ToSet(list) /\ list[i].cnt > 0 /\ list[i].cnt \in Int
    BY <1>1 DEF show_bloks
  <2>2. list[i].ptr # NULL => list[i].cnt <= InUse(live, list[i].ptr)
    BY <1>2, <2>1 DEF LedgerOf
  <2> QED
    BY <2>1, <2>2 DEF InUse
<1>4. ASSUME ~NullRecorded
      PROVE  /\ {list[i].ptr : i \in show_bloks} = live
             /\ \A i \in show_bloks : list[i].cnt = 1
  <2>1. \A x \in ToSet(list) : x.ptr # NULL
    BY <1>1, <1>4 DEF NullRecorded
  <2>2. \A x \in ToSet(list) : x.cnt = InUse(live, x.ptr)
    BY <1>2, <2>1 DEF LedgerOf
  <2>3. ASSUME NEW i \in show_bloks
        PROVE  list[i].ptr \in live /\ list[i].cnt = 1
    <3>1. list[i] \in ToSet(list) /\ list[i].cnt > 0
      BY <1>1 DEF show_bloks
    <3>2. list[i].cnt = InUse(live, list[i].ptr)
      BY <2>2, <3>1
    <3> QED
      BY <3>1, <3>2 DEF InUse
  <2>4. ASSUME NEW p \in live
        PROVE  \E i \in show_bloks : list[i].ptr = p
    <3>1. PICK x \in ToSet(list) : x.ptr = p
      BY <1>2 DEF LedgerOf
    <3>2. x.cnt = 1
      BY <2>2, <3>1 DEF InUse
    <3>3. PICK i \in DOMAIN list : list[i] = x
      BY <1>1, <3>1
    <3>4. i \in show_bloks
      BY <3>2, <3>3 DEF show_bloks
    <3> QED
      BY <3>1, <3>3, <3>4
  <2> QED
    BY <2>3, <2>4
<1> QED
  BY <1>3, <1>4, LiveFound

\* The list of what was not deallocated (show_bloks of memlist.c) names only
\* blocks in use, and all of them as long as no NULL is recorded, for every
\* program and however libc uses addresses again.
THEOREM LeakReportExact == Spec => []LeaksExact
<1>1. MInv => LeaksExact
  BY ListedInUse DEF LeaksExact
<1> QED
  BY <1>1, InitMInv, NextMInv, PTL DEF Spec

\* A program that frees and reallocates only blocks in use is never ended by
\* the interposers, whichever library it is and whichever calls have failed
\* (free and realloc of memtrace.c).
THEOREM CorrectProgramsRun == Spec => CorrectProgramsSurvive
<1> DEFINE A == \A p \in live :
                  (\/ FreeUntold(p) \/ FreeFound(p)
                   \/ \E n \in Sizes : ReallocUntold(p, n) \/ Realloc(p, n))
                  => state' # "crashed"
<1>1. ASSUME MInv, NEW p \in live,
             \/ FreeUntold(p) \/ FreeFound(p)
             \/ \E n \in Sizes : ReallocUntold(p, n) \/ Realloc(p, n)
      PROVE  state' # "crashed"
  <2>1. state = "running"
    BY <1>1 DEF FreeUntold, FreeFound, ReallocUntold, Realloc, MayAlloc, MayFree, Running
  <2>2. find(list, p) # <<>> /\ ~Aborts(p)
    BY <1>1, <2>1, LiveFound
  <2>3. CASE FreeUntold(p) \/ FreeFound(p)
    BY <2>2, <2>3 DEF FreeUntold, FreeFound, Released
  <2>4. ASSUME NEW n \in Sizes, ReallocUntold(p, n) \/ Realloc(p, n)
        PROVE  state' # "crashed"
    <3>1. UNCHANGED state
      BY <2>2, <2>4 DEF ReallocUntold, Realloc, Counted
    <3> QED
      BY <2>1, <3>1
  <2> QED
    BY <1>1, <2>3, <2>4
<1>2. MInv /\ [Next]_mvars => [A]_mvars
  BY <1>1
<1> HIDE DEF A
<1>3. Spec => [][A]_mvars
  BY <1>2, InitMInv, NextMInv, PTL DEF Spec
<1> QED
  BY <1>3 DEF CorrectProgramsSurvive, A

\* With the bonus library no free, of whatever pointer, makes libc abort, and
\* a wrong one changes nothing (free of bonus/memtrace.c).
THEOREM WrongFreesAreIgnored == Spec => WrongFreesIgnored
<1> DEFINE A == \A p \in Ptrs :
                  library = "bonus" /\ FreeInUse(p) =>
                    /\ state' = "running"
                    /\ Aborts(p) => UNCHANGED mvars
<1>1. ASSUME MInv, NEW p \in Ptrs, FreeInUse(p)
      PROVE  state' = "running" /\ (Aborts(p) => UNCHANGED mvars)
  <2>1. state = "running" /\ UNCHANGED library
    BY <1>1 DEF FreeInUse, MayFree, Running
  <2>2. CASE find(list, p) # <<>> /\ find(list, p)[1].cnt > 0
    <3>1. ~Aborts(p)
      BY <1>1, <2>1, <2>2, FoundLive
    <3> QED
      BY <1>1, <2>2, <3>1 DEF FreeInUse, Released
  <2>3. CASE ~(find(list, p) # <<>> /\ find(list, p)[1].cnt > 0)
    BY <1>1, <2>1, <2>3 DEF FreeInUse, mvars
  <2> QED
    BY <2>2, <2>3
<1>2. MInv /\ [Next]_mvars => [A]_mvars
  BY <1>1
<1> HIDE DEF A
<1>3. Spec => [][A]_mvars
  BY <1>2, InitMInv, NextMInv, PTL DEF Spec
<1> QED
  BY <1>3 DEF WrongFreesIgnored, A

-----------------------------------------------------------------------------
(* The statistics and the list.                                            *)

\* The size that the list has for each address.
SizeAt(l) ==
  [p \in Addrs |-> IF \E x \in ToSet(l) : x.ptr = p
                     THEN (CHOOSE x \in ToSet(l) : x.ptr = p).size ELSE 0]

\* The statistics differ by the sizes of the blocks in use.
Balance == /\ n_malloc \in Int /\ free_size \in Int
           /\ state = "running" /\ library # "part1" /\ ~NullRecorded =>
                n_malloc - free_size = Total(SizeAt(list), live)

LEMMA ItemSize == ASSUME NEW x \in Items PROVE x.size \in Int
<1>1. x.size \in Sizes
  BY DEF Items
<1>2. Sizes \subseteq Int
  BY MemTraceAssumption
<1> QED
  BY <1>1, <1>2

LEMMA SizeIs ==
  ASSUME NEW l, Sorted(l)
  PROVE  /\ \A x \in ToSet(l) : x.ptr \in Addrs => SizeAt(l)[x.ptr] = x.size
         /\ \A p \in Addrs : /\ SizeAt(l)[p] \in Int
                             /\ (\A x \in ToSet(l) : x.ptr # p) => SizeAt(l)[p] = 0
<1>1. \A x \in ToSet(l) : x.size \in Int
  BY Listed, ItemSize DEF Sorted
<1>2. ASSUME NEW x \in ToSet(l), x.ptr \in Addrs
      PROVE  SizeAt(l)[x.ptr] = x.size
  <2> DEFINE y == CHOOSE z \in ToSet(l) : z.ptr = x.ptr
  <2>1. y \in ToSet(l) /\ y.ptr = x.ptr
    OBVIOUS
  <2>2. SizeAt(l)[x.ptr] = y.size
    BY <1>2 DEF SizeAt
  <2> HIDE DEF y
  <2> QED
    BY <2>1, <2>2, OneItem
<1>3. ASSUME NEW p \in Addrs, \A x \in ToSet(l) : x.ptr # p
      PROVE  SizeAt(l)[p] = 0
  BY <1>3 DEF SizeAt
<1>4. ASSUME NEW p \in Addrs
      PROVE  SizeAt(l)[p] \in Int
  <2>1. CASE \E x \in ToSet(l) : x.ptr = p
    BY <1>1, <1>2, <2>1
  <2>2. CASE \A x \in ToSet(l) : x.ptr # p
    BY <1>3, <2>2
  <2> QED
    BY <2>1, <2>2
<1> QED
  BY <1>2, <1>3, <1>4

\* alloc changes the size at its own address only, dealloc none.
LEMMA AllocSizes ==
  ASSUME NEW l, Sorted(l), NEW p \in Addrs, NEW n \in Sizes, NEW a \in Addrs
  PROVE  SizeAt(alloc(l, p, n))[a] = IF a = p THEN n ELSE SizeAt(l)[a]
<1> DEFINE m == alloc(l, p, n)
<1>1. /\ Sorted(m)
      /\ \A y \in ToSet(m) :
              \/ y \in ToSet(l) /\ y.ptr # p
              \/ \E x \in ToSet(l) : x.ptr = p /\ y = Item(p, n, x.cnt + 1)
              \/ (\A x \in ToSet(l) : x.ptr # p) /\ y = Item(p, n, 1)
      /\ \A x \in ToSet(l) : x.ptr # p => x \in ToSet(m)
      /\ \E y \in ToSet(m) : y.ptr = p
  <2>1. l \in Seq(Items) /\ p \in Ptrs
    BY DEF Sorted, Ptrs
  <2> QED
    BY <2>1, AllocItems
<1> HIDE DEF m
<1>2. CASE a = p
  <2>1. PICK y \in ToSet(m) : y.ptr = p
    BY <1>1
  <2>2. y.size = n
    BY <1>1, <2>1 DEF Item
  <2> QED
    BY <1>1, <1>2, <2>1, <2>2, SizeIs DEF m
<1>3. CASE a # p
  <2>1. CASE \E x \in ToSet(l) : x.ptr = a
    <3>1. PICK x \in ToSet(l) : x.ptr = a
      BY <2>1
    <3>2. x \in ToSet(m)
      BY <1>1, <1>3, <3>1
    <3>3. SizeAt(l)[a] = x.size
      BY <3>1, SizeIs
    <3>4. SizeAt(m)[a] = x.size
      BY <1>1, <3>1, <3>2, SizeIs
    <3> QED
      BY <1>3, <3>3, <3>4 DEF m
  <2>2. CASE \A x \in ToSet(l) : x.ptr # a
    <3>1. \A y \in ToSet(m) : y.ptr # a
      BY <1>1, <1>3, <2>2 DEF Item
    <3>2. SizeAt(m)[a] = 0 /\ SizeAt(l)[a] = 0
      BY <1>1, <2>2, <3>1, SizeIs
    <3> QED
      BY <1>3, <3>2 DEF m
  <2> QED
    BY <2>1, <2>2
<1> QED
  BY <1>2, <1>3

LEMMA DeallocSizes ==
  ASSUME NEW l, Sorted(l), NEW p \in Ptrs, NEW a \in Addrs
  PROVE  SizeAt(dealloc(l, p))[a] = SizeAt(l)[a]
<1> DEFINE m == dealloc(l, p)
<1>1. /\ Sorted(m)
      /\ \A y \in ToSet(m) :
           \/ y \in ToSet(l) /\ y.ptr # p
           \/ \E x \in ToSet(l) : x.ptr = p /\ y = [x EXCEPT !.cnt = x.cnt - 1]
      /\ \A x \in ToSet(l) : \E y \in ToSet(m) : y.ptr = x.ptr
  <2>1. l \in Seq(Items)
    BY DEF Sorted
  <2> QED
    BY <2>1, DeallocItems
<1> HIDE DEF m
<1>2. \A y \in ToSet(m) : \E x \in ToSet(l) : x.ptr = y.ptr /\ x.size = y.size
  <2>1. \A x \in ToSet(l) : x \in Items
    BY Listed DEF Sorted
  <2> QED
    BY <1>1, <2>1 DEF Items
<1>3. CASE \E x \in ToSet(m) : x.ptr = a
  <2>1. PICK y \in ToSet(m) : y.ptr = a
    BY <1>3
  <2>2. PICK x \in ToSet(l) : x.ptr = a /\ x.size = y.size
    BY <1>2, <2>1
  <2>3. SizeAt(m)[a] = y.size
    BY <1>1, <2>1, SizeIs
  <2>4. SizeAt(l)[a] = x.size
    BY <2>2, SizeIs
  <2> QED
    BY <2>2, <2>3, <2>4 DEF m
<1>4. CASE \A x \in ToSet(m) : x.ptr # a
  <2>1. \A x \in ToSet(l) : x.ptr # a
    BY <1>1, <1>4
  <2>2. SizeAt(m)[a] = 0 /\ SizeAt(l)[a] = 0
    BY <1>1, <1>4, <2>1, SizeIs
  <2> QED
    BY <2>2 DEF m
<1> QED
  BY <1>3, <1>4

\* What is in use adds up to n more once libc has returned q.
LEMMA AllocTotal ==
  ASSUME NEW l, Sorted(l), NEW L \in SUBSET Addrs, IsFiniteSet(L),
         NEW n \in Sizes, NEW q \in Addrs \ L
  PROVE  Total(SizeAt(alloc(l, q, n)), L \cup {q}) = n + Total(SizeAt(l), L)
<1> DEFINE f == SizeAt(l)
           h == SizeAt(alloc(l, q, n))
           M == L \cup {q}
<1>1. \A a \in Addrs : f[a] \in Int /\ h[a] = IF a = q THEN n ELSE f[a]
  BY SizeIs, AllocSizes
<1>2. n \in Int
  BY MemTraceAssumption
<1>3. IsFiniteSet(M) /\ M \ {q} = L /\ q \in M /\ q \notin L /\ M \subseteq Addrs
  BY FS_AddElement
<1> HIDE DEF f, h, M
<1>4. Total(h, M) = h[q] + Total(h, M \ {q})
  <2>1. \A a \in M : h[a] \in Int
    BY <1>1, <1>2, <1>3
  <2> QED
    BY <1>3, <2>1, TotalWithout
<1>5. Total(f, L) = Total(h, L)
  <2>1. \A a \in L : f[a] \in Int /\ f[a] = h[a]
    BY <1>1, <1>3
  <2> QED
    BY <2>1, TotalSame
<1>6. h[q] = n
  BY <1>1
<1>7. Total(h, M) = n + Total(f, L)
  BY <1>3, <1>4, <1>5, <1>6
<1> QED
  BY <1>7 DEF f, h, M

\* What is in use adds up to less by the size of the block p that is freed.
LEMMA DeallocTotal ==
  ASSUME NEW l, Sorted(l), NEW L \in SUBSET Addrs, IsFiniteSet(L), NEW p \in L
  PROVE  /\ Total(SizeAt(l), L) \in Int
         /\ Total(SizeAt(dealloc(l, p)), L \ {p}) = Total(SizeAt(l), L) - SizeAt(l)[p]
<1> DEFINE f == SizeAt(l)
           h == SizeAt(dealloc(l, p))
           M == L \ {p}
<1>1. \A a \in Addrs : f[a] \in Int /\ h[a] = f[a]
  <2>1. p \in Ptrs
    BY DEF Ptrs
  <2> QED
    BY <2>1, SizeIs, DeallocSizes
<1>2. IsFiniteSet(M) /\ M \subseteq Addrs /\ p \in Addrs
  BY FS_Subset
<1> HIDE DEF f, h
<1>3. \A a \in L : f[a] \in Int
  BY <1>1
<1>4. Total(f, L) = f[p] + Total(f, M)
  BY <1>3, TotalWithout
<1> HIDE DEF M
<1>5. Total(f, M) = Total(h, M)
  BY <1>1, <1>2, TotalSame
<1>6. Total(f, M) \in Int
  BY <1>1, <1>2, TotalIs
<1>7. f[p] \in Int
  BY <1>1, <1>2
<1>8. Total(f, L) \in Int /\ Total(h, M) = Total(f, L) - f[p]
  BY <1>4, <1>5, <1>6, <1>7
<1> QED
  BY <1>8 DEF f, h, M

LEMMA NullListed == MInv => (NullRecorded <=> \E x \in ToSet(list) : x.ptr = NULL)
<1> SUFFICES ASSUME MInv PROVE NullRecorded <=> \E x \in ToSet(list) : x.ptr = NULL
  OBVIOUS
<1>1. /\ DOMAIN list = 1 .. Len(list)
      /\ \A i \in 1 .. Len(list) : list[i] \in ToSet(list)
      /\ \A x \in ToSet(list) : \E i \in 1 .. Len(list) : list[i] = x
  BY LedgerTypes, Listed
<1> QED
  BY <1>1 DEF NullRecorded

LEMMA NullListedNext == (MInv => (NullRecorded <=> \E x \in ToSet(list) : x.ptr = NULL))'
BY NullListed, PTL

\* There are as many blocks in use as items, at most.
LEMMA LiveFinite ==
  ASSUME MInv, state = "running"
  PROVE  IsFiniteSet(live)
<1> DEFINE I == 1 .. Len(list)
           R == {list[i].ptr : i \in I}
           b == [i \in I |-> list[i].ptr]
<1>1. /\ Len(list) \in Nat
      /\ \A x \in ToSet(list) : \E i \in I : list[i] = x
  BY LedgerTypes, Listed
<1>2. IsFiniteSet(I)
  BY <1>1, FS_Interval
<1>3. b \in Surjection(I, R)
  BY DEF Surjection
<1>4. IsFiniteSet(R)
  <2> HIDE DEF I, R, b
  <2> QED
    BY <1>2, <1>3, FS_Surjection
<1>5. live \in SUBSET R
  <2>1. ASSUME NEW p \in live PROVE p \in R
    <3>1. PICK x \in ToSet(list) : x.ptr = p
      BY DEF MInv, Ledger, LedgerOf
    <3> QED
      BY <1>1, <3>1
  <2> QED
    BY <2>1
<1> HIDE DEF R
<1> QED
  BY <1>4, <1>5, FS_Subset

\* Items stay: once there is one for NULL, there is one after alloc and dealloc.
LEMMA NullStays ==
  ASSUME NEW l, Sorted(l), NEW x \in ToSet(l), x.ptr = NULL,
         NEW p \in Ptrs, NEW n \in Sizes
  PROVE  /\ \E y \in ToSet(alloc(l, p, n)) : y.ptr = NULL
         /\ \E y \in ToSet(dealloc(l, p)) : y.ptr = NULL
<1>1. l \in Seq(Items)
  BY DEF Sorted
<1>2. \E y \in ToSet(alloc(l, p, n)) : y.ptr = NULL
  BY <1>1, AllocItems
<1>3. \E y \in ToSet(dealloc(l, p)) : y.ptr = NULL
  BY <1>1, DeallocItems
<1> QED
  BY <1>2, <1>3

LEMMA MallocBalance ==
  ASSUME MInv, Balance, state = "running", library # "part1",
         NEW n \in Sizes, Malloc(n)
  PROVE  Balance'
<1>1. PICK q \in Ptrs : LibcAlloc(q) /\ list' = alloc(list, q, n)
  BY DEF Malloc
<1>2. n \in Int /\ n_malloc \in Int /\ free_size \in Int
  BY MemTraceAssumption DEF Balance
<1>3. n_malloc' = n_malloc + n /\ UNCHANGED <<free_size, library, state>>
  BY DEF Malloc, Counted, MayAlloc, Running
<1>4. MInv'
  BY MallocKept
<1>5. ASSUME ~NullRecorded'
      PROVE  ~NullRecorded /\ q # NULL
  <2>1. \A y \in ToSet(list') : y.ptr # NULL
    BY <1>4, <1>5, NullListedNext
  <2>2. list \in Seq(Items) /\ Sorted(list)
    BY LedgerTypes
  <2>3. q # NULL
    <3>1. \E y \in ToSet(list') : y.ptr = q
      BY <1>1, <2>2, AllocItems
    <3> QED
      BY <2>1, <3>1
  <2>4. \A x \in ToSet(list) : x.ptr # NULL
    BY <1>1, <2>1, <2>2, NullStays
  <2> QED
    BY <2>3, <2>4, NullListed
<1>6. ASSUME ~NullRecorded'
      PROVE  (n_malloc - free_size = Total(SizeAt(list), live))'
  <2>1. ~NullRecorded /\ q # NULL
    BY <1>5, <1>6
  <2>2. q \in Addrs \ live /\ live' = live \cup {q}
    BY <1>1, <2>1 DEF LibcAlloc
  <2>3. Sorted(list) /\ live \in SUBSET Addrs /\ IsFiniteSet(live)
    BY LedgerTypes, LiveFinite
  <2>4. Total(SizeAt(list'), live') = n + Total(SizeAt(list), live)
    BY <1>1, <2>2, <2>3, AllocTotal
  <2>5. n_malloc - free_size = Total(SizeAt(list), live)
    BY <2>1 DEF Balance
  <2>6. n_malloc' - free_size' = n + Total(SizeAt(list), live)
    BY <1>2, <1>3, <2>5
  <2> QED
    BY <2>4, <2>6
<1> QED
  BY <1>2, <1>3, <1>6 DEF Balance

\* The size that is read from the item of p.
LEMMA FoundSize ==
  ASSUME MInv, state = "running", NEW p \in live \cup {NULL}, find(list, p) # <<>>
  PROVE  /\ find(list, p)[1].size \in Int
         /\ p = NULL => NullRecorded
         /\ p # NULL => p \in live /\ find(list, p)[1].size = SizeAt(list)[p]
<1> DEFINE x == find(list, p)[1]
<1>1. list \in Seq(Items) /\ Sorted(list) /\ live \in SUBSET Addrs /\ p \in Ptrs
  BY LedgerTypes DEF Ptrs
<1>2. x \in ToSet(list) /\ x.ptr = p
  BY <1>1, FindItem
<1> HIDE DEF x
<1>3. x.size \in Int
  BY <1>1, <1>2, Listed, ItemSize
<1>4. p = NULL => NullRecorded
  BY <1>2, NullListed
<1>5. p # NULL => p \in live /\ x.size = SizeAt(list)[p]
  BY <1>1, <1>2, SizeIs
<1> QED
  BY <1>3, <1>4, <1>5 DEF x

\* The block p, of the size that its item says, is released.
LEMMA ReleasedBalance ==
  ASSUME MInv, Balance, state = "running", library # "part1",
         NEW p \in Ptrs, find(list, p) # <<>>, Released(p), list' = dealloc(list, p),
         free_size' = free_size + find(list, p)[1].size, UNCHANGED library
  PROVE  Balance'
<1>1. n_malloc \in Int /\ free_size \in Int /\ UNCHANGED n_malloc
  BY DEF Balance, Released
<1>2. list \in Seq(Items) /\ Sorted(list) /\ live \in SUBSET Addrs
  BY LedgerTypes
<1>3. find(list, p)[1].size \in Int
  BY <1>2, FindItem, Listed, ItemSize
<1>4. ASSUME state' = "running", ~NullRecorded'
      PROVE  (n_malloc - free_size = Total(SizeAt(list), live))'
  <2>1. p \in live \cup {NULL} /\ live' = live \ {p}
    BY <1>4 DEF Released, Aborts
  <2>2. MInv'
    BY ReleasedKept
  <2>3. ~NullRecorded
    <3>1. \A y \in ToSet(list') : y.ptr # NULL
      BY <1>4, <2>2, NullListedNext
    <3>2. \A x \in ToSet(list) : \E y \in ToSet(list') : y.ptr = x.ptr
      BY <1>2, DeallocItems
    <3>3. \A x \in ToSet(list) : x.ptr # NULL
      BY <3>1, <3>2
    <3> QED
      BY <3>3, NullListed
  <2>4. p \in live /\ find(list, p)[1].size = SizeAt(list)[p]
    BY <2>1, <2>3, FoundSize
  <2>5. /\ Total(SizeAt(list), live) \in Int
        /\ Total(SizeAt(list'), live') = Total(SizeAt(list), live) - SizeAt(list)[p]
    BY <1>2, <2>1, <2>4, LiveFinite, DeallocTotal
  <2>6. n_malloc - free_size = Total(SizeAt(list), live)
    BY <2>3 DEF Balance
  <2>7. n_malloc' - free_size' = Total(SizeAt(list), live) - SizeAt(list)[p]
    BY <1>1, <1>3, <2>4, <2>5, <2>6
  <2> QED
    BY <2>5, <2>7
<1>5. n_malloc' \in Int /\ free_size' \in Int
  BY <1>1, <1>3
<1> QED
  BY <1>4, <1>5 DEF Balance

\* The block p, of the size that its item says, is moved to q.
LEMMA MovedBalance ==
  ASSUME MInv, Balance, state = "running", library # "part1",
         NEW p \in Ptrs, NEW n \in Sizes, NEW q \in Ptrs,
         ~Aborts(p), LibcRealloc(p, n, q), find(list, p) # <<>>,
         free_size' = free_size + find(list, p)[1].size,
         list' = alloc(dealloc(list, p), q, n),
         Counted(n), UNCHANGED library
  PROVE  Balance'
<1> DEFINE d == dealloc(list, p)
           z == find(list, p)[1].size
<1>1. n \in Int /\ n_malloc \in Int /\ free_size \in Int /\ n_malloc' = n_malloc + n
  BY MemTraceAssumption DEF Balance, Counted
<1>2. /\ list \in Seq(Items) /\ Sorted(list) /\ live \in SUBSET Addrs
      /\ d \in Seq(Items) /\ Sorted(d) /\ p \in live \cup {NULL}
  BY LedgerTypes, ListSorted DEF Aborts
<1>3. z \in Int
  BY <1>2, FoundSize
<1>4. MInv'
  BY Moved
<1>5. ASSUME ~NullRecorded'
      PROVE  ~NullRecorded /\ q # NULL
  <2>1. \A y \in ToSet(list') : y.ptr # NULL
    BY <1>4, <1>5, NullListedNext
  <2> HIDE DEF d
  <2>2. list' = alloc(d, q, n)
    BY DEF d
  <2>3. q # NULL
    <3>1. \E y \in ToSet(list') : y.ptr = q
      BY <1>2, <2>2, AllocItems
    <3> QED
      BY <2>1, <3>1
  <2>4. \A x \in ToSet(d) : x.ptr # NULL
    BY <1>2, <2>1, <2>2, NullStays
  <2>5. \A x \in ToSet(list) : x.ptr # NULL
    BY <1>2, <2>4, NullStays DEF d
  <2> QED
    BY <2>3, <2>5, NullListed
<1>6. ASSUME ~NullRecorded'
      PROVE  (n_malloc - free_size = Total(SizeAt(list), live))'
  <2> DEFINE M == live \ {p}
  <2>1. ~NullRecorded /\ q # NULL
    BY <1>5, <1>6
  <2>2. p \in live /\ z = SizeAt(list)[p]
    BY <1>2, <2>1, FoundSize
  <2>3. p # NULL
    BY <1>2, <2>2, PtrsNat
  <2>4. q \in Addrs \ M /\ live' = M \cup {q}
    BY <1>2, <2>1, <2>2, <2>3 DEF LibcRealloc
  <2>5. IsFiniteSet(live)
    BY LiveFinite
  <2>6. M \in SUBSET Addrs /\ IsFiniteSet(M)
    BY <1>2, <2>5, FS_Subset
  <2>7. /\ Total(SizeAt(list), live) \in Int
        /\ Total(SizeAt(d), M) = Total(SizeAt(list), live) - SizeAt(list)[p]
    BY <1>2, <2>2, <2>5, DeallocTotal
  <2> HIDE DEF d, M
  <2>8. Total(SizeAt(list'), live') = n + Total(SizeAt(d), M)
    BY <1>2, <2>4, <2>6, AllocTotal DEF d
  <2>9. n_malloc - free_size = Total(SizeAt(list), live)
    BY <2>1 DEF Balance
  <2> HIDE DEF z
  <2>10. n_malloc' - free_size' = n + (Total(SizeAt(list), live) - z)
    <3>1. free_size' = free_size + z
      BY DEF z
    <3> QED
      BY <1>1, <1>3, <2>7, <2>9, <3>1
  <2> QED
    BY <2>2, <2>7, <2>8, <2>10
<1>7. n_malloc' \in Int /\ free_size' \in Int
  BY <1>1, <1>3
<1> QED
  BY <1>6, <1>7 DEF Balance

\* Steps that end the program, or are part 1's.
LEMMA OtherBalance ==
  ASSUME Balance, n_malloc' \in Int, free_size' \in Int,
         state' # "running" \/ library' = "part1"
  PROVE  Balance'
BY DEF Balance

LEMMA InitBalance == Init => Balance
<1> SUFFICES ASSUME Init PROVE Balance
  OBVIOUS
<1>1. Total(SizeAt(list), {}) = 0
  BY TotalEmpty
<1> QED
  BY <1>1 DEF Init, Balance

LEMMA NextBalance == MInv /\ Balance /\ [Next]_mvars => Balance'
<1> SUFFICES ASSUME MInv, Balance, [Next]_mvars PROVE Balance'
  OBVIOUS
<1>1. CASE UNCHANGED mvars
  BY <1>1 DEF mvars, Balance, NullRecorded
<1>2. n_malloc \in Int /\ free_size \in Int
  BY DEF Balance
<1>3. CASE library = "part1" /\ Next
  <2>1. UNCHANGED library
    BY <1>3 DEF Next, Part1, Part2, Part3, Bonus, Allocates, Calloc, Malloc, ReallocUntold,
                FreeUntold, Fini, MayAlloc, MayFree, Running
  <2>2. n_malloc' \in Int /\ free_size' \in Int
    <3>1. \A n \in Sizes : n \in Int
      BY MemTraceAssumption
    <3>2. UNCHANGED free_size /\ (UNCHANGED n_malloc \/ \E n \in Sizes : n_malloc' = n_malloc + n)
      BY <1>3 DEF Next, Part1, Part2, Part3, Bonus, Allocates, Calloc, Malloc, ReallocUntold,
                  FreeUntold, Fini, Crash, Counted, Released
    <3> QED
      BY <1>2, <3>1, <3>2
  <2> QED
    BY <1>3, <2>1, <2>2, OtherBalance
<1>4. CASE library # "part1" /\ Next
  <2>1. \/ \E n \in Sizes : Malloc(n)
        \/ \E p \in Ptrs, n \in Sizes : Realloc(p, n)
        \/ \E p \in Ptrs : FreeFound(p) \/ FreeInUse(p)
        \/ Fini
    BY <1>4 DEF Next, Part1, Part2, Part3, Bonus, Allocates, Calloc
  <2>2. state = "running" /\ UNCHANGED library
    BY <2>1 DEF Malloc, Realloc, FreeFound, FreeInUse, Fini, MayAlloc, MayFree, Running
  <2>3. ASSUME Crash
        PROVE  Balance'
    <3>1. state' # "running" /\ UNCHANGED <<n_malloc, free_size>>
      BY <2>3 DEF Crash
    <3> QED
      BY <1>2, <3>1, OtherBalance
  <2>4. ASSUME NEW n \in Sizes, Malloc(n)
        PROVE  Balance'
    BY <1>4, <2>2, <2>4, MallocBalance
  <2>5. ASSUME NEW p \in Ptrs, NEW n \in Sizes, Realloc(p, n)
        PROVE  Balance'
    <3>1. CASE ~Crash
      <4>1. PICK q \in Ptrs :
              /\ LibcRealloc(p, n, q) /\ ~Aborts(p) /\ find(list, p) # <<>>
              /\ free_size' = free_size + find(list, p)[1].size
              /\ list' = alloc(dealloc(list, p), q, n)
              /\ Counted(n)
        BY <2>5, <3>1 DEF Realloc
      <4> QED
        BY <1>4, <2>2, <4>1, MovedBalance
    <3> QED
      BY <2>3, <3>1
  <2>6. ASSUME NEW p \in Ptrs, FreeFound(p) \/ FreeInUse(p)
        PROVE  Balance'
    <3>1. \/ Crash
          \/ /\ find(list, p) # <<>> /\ list' = dealloc(list, p) /\ Released(p)
             /\ free_size' = free_size + find(list, p)[1].size
          \/ UNCHANGED <<state, list, n_malloc, alloc_times, free_size, live>>
      BY <2>6 DEF FreeFound, FreeInUse
    <3>2. CASE UNCHANGED <<state, list, n_malloc, alloc_times, free_size, live>>
      BY <2>2, <3>2 DEF Balance, NullRecorded
    <3> QED
      BY <1>4, <2>2, <2>3, <3>1, <3>2, ReleasedBalance
  <2>7. CASE Fini
    <3>1. state' # "running" /\ UNCHANGED <<n_malloc, free_size>>
      BY <2>7 DEF Fini, Crash
    <3> QED
      BY <1>2, <3>1, OtherBalance
  <2> QED
    BY <2>1, <2>4, <2>5, <2>6, <2>7
<1> QED
  BY <1>1, <1>3, <1>4

\* In parts 2 and 3 and in the bonus library the statistics, what was allocated
\* less what was freed, are what the listed blocks add up to, as long as no NULL
\* is recorded, for every program (fini of memtrace.c, show_bloks of memlist.c).
THEOREM StatisticsBalance == Spec => []BalanceExact
<1>1. ASSUME MInv, Balance, state = "running", library # "part1", ~NullRecorded
      PROVE  n_malloc - free_size = MapThenSumSet(LAMBDA i : list[i].size, show_bloks)
  <2> DEFINE S == show_bloks
             f == [i \in S |-> list[i].size]
             b == [i \in S |-> list[i].ptr]
             h == SizeAt(list)
             Step(g, s) == IF s = {} THEN 0 ELSE list[AnyOf(s)].size + g[s \ {AnyOf(s)}]
             k == CHOOSE g : g = [s \in SUBSET S |-> Step(g, s)]
  <2>1. /\ list \in Seq(Items) /\ Sorted(list) /\ live \in SUBSET Addrs
        /\ Len(list) \in Nat /\ S \in SUBSET (1 .. Len(list))
        /\ \A i \in S : list[i] \in ToSet(list) /\ list[i].size \in Int
    BY <1>1, LedgerTypes, Listed, ItemSize DEF show_bloks
  <2>2. {list[i].ptr : i \in S} = live
    BY <1>1, ListedInUse
  <2>3. IsFiniteSet(S)
    <3>1. IsFiniteSet(1 .. Len(list))
      BY <2>1, FS_Interval
    <3> QED
      BY <2>1, <3>1, FS_Subset
  <2> HIDE DEF S
  <2>4. Total(f, S) = Total(h, live)
    <3>1. \A i \in S : f[i] \in Int
      BY <2>1
    <3>2. \A p \in live : h[p] \in Int
      BY <2>1, SizeIs
    <3>3. b \in [S -> live] /\ live = {b[i] : i \in S}
      BY <2>2
    <3>4. \A i, j \in S : b[i] = b[j] => i = j
      <4>1. \A i \in S : list[i].ptr \in Nat
        BY <2>1, Listed
      <4>2. \A i, j \in S : i < j => list[i].ptr < list[j].ptr
        BY <2>1 DEF Sorted
      <4>3. \A i \in S : i \in Nat
        BY <2>1
      <4> QED
        BY <4>1, <4>2, <4>3
    <3>5. \A i \in S : f[i] = h[b[i]]
      BY <2>1, <2>2, SizeIs
    <3> HIDE DEF f, h, b
    <3> QED
      BY <2>3, <3>1, <3>2, <3>3, <3>4, <3>5, TotalsMatch
  <2>5. Adds(k, f, S)
    <3>1. PICK g : Adds(g, f, S)
      <4>1. \A i \in S : f[i] \in Int
        BY <2>1
      <4> HIDE DEF f
      <4> QED
        BY <2>3, <4>1, SumExists
    <3>2. ASSUME NEW s \in SUBSET S, NEW e
          PROVE  Step(e, s) = OneStep(f, e, s)
      BY AnyIn DEF OneStep
    <3>3. \A e : [s \in SUBSET S |-> Step(e, s)] = [s \in SUBSET S |-> OneStep(f, e, s)]
      <4> HIDE DEF Step, f
      <4> QED
        BY <3>2
    <3>4. k = [s \in SUBSET S |-> Step(k, s)]
      <4>1. g = [s \in SUBSET S |-> Step(g, s)]
        <5> HIDE DEF Step, f
        <5> QED
          BY <3>1, <3>3 DEF Adds
      <4> HIDE DEF Step, f
      <4> QED
        BY <4>1
    <3> HIDE DEF k, Step, f
    <3> QED
      BY <3>3, <3>4 DEF Adds
  <2>6. MapThenSumSet(LAMBDA i : list[i].size, S) = k[S]
    BY DEF MapThenSumSet, MapThenFoldSet, AnyOf
  <2>7. k[S] = Total(f, S)
    <3>1. \A i \in S : f[i] \in Int
      BY <2>1
    <3> HIDE DEF k, f
    <3> QED
      BY <2>3, <2>5, <3>1, TotalUnique
  <2>8. n_malloc - free_size = Total(h, live)
    BY <1>1 DEF Balance
  <2> HIDE DEF k, h, f
  <2>9. n_malloc - free_size = MapThenSumSet(LAMBDA i : list[i].size, S)
    BY <2>4, <2>6, <2>7, <2>8, Zenon
  <2> QED
    BY <2>9 DEF S
<1>2. MInv /\ Balance => BalanceExact
  BY <1>1 DEF BalanceExact
<1> QED
  BY <1>2, InitMInv, NextMInv, InitBalance, NextBalance, PTL DEF Spec
=============================================================================
