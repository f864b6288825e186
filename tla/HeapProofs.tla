---------------------------- MODULE HeapProofs ----------------------------
(***************************************************************************)
(* The blocks of the heap tile it, do not overlap and are coalesced, for   *)
(* every chunk size, limit and set of request sizes.  The work is in two   *)
(* lemmas: what Coalesce does to a set of blocks with one free block that  *)
(* may have free neighbours, and what Place does to a coalesced set.       *)
(***************************************************************************)
EXTENDS Heap, TLAPS

Free2(b, c) == ~b.used /\ ~c.used /\ Adjacent(b, c)

CoalescedIn(B) == \A b, c \in B : ~Free2(b, c)

\* Only x may have free neighbours.
CoalescedBut(B, x) == \A b, c \in B : Free2(b, c) => b = x \/ c = x

Good(B, t) == B \subseteq Block /\ DisjointIn(B) /\ TilesIn(B, t)

LEMMA SpanFacts ==
  ASSUME NEW lo \in Nat, NEW hi \in Nat, lo < hi
  PROVE  /\ Span(lo, hi) \in Block
         /\ Span(lo, hi).lo = lo /\ End(Span(lo, hi)) = hi
         /\ ~Span(lo, hi).used
BY DEF Span, Block, End

LEMMA EndFacts ==
  ASSUME NEW b \in Block
  PROVE  b.lo \in Nat /\ End(b) \in Nat /\ b.lo < End(b)
BY DEF Block, End

\* A neighbour is unique.
LEMMA OneNeighbour ==
  ASSUME NEW B \in SUBSET Block, DisjointIn(B), NEW x \in B
  PROVE  /\ \A c, d \in FreeBefore(B, x) : c = d
         /\ \A c, d \in FreeAfter(B, x) : c = d
BY EndFacts DEF DisjointIn, FreeBefore, FreeAfter, Adjacent

\* p is the free neighbour before x, or x itself if there is none; n is the
\* one after x.
Outer(B, x, p, n) ==
  /\ p \in B /\ n \in B
  /\ \/ p = x /\ FreeBefore(B, x) = {}
     \/ FreeBefore(B, x) = {p}
  /\ \/ n = x /\ FreeAfter(B, x) = {}
     \/ FreeAfter(B, x) = {n}

LEMMA CoalesceParts ==
  ASSUME NEW B \in SUBSET Block, DisjointIn(B), NEW x \in B
  PROVE  \E p, n \in B :
           /\ Outer(B, x, p, n)
           /\ Coalesce(B, x) = (B \ {x, p, n}) \cup {Span(p.lo, End(n))}
<1> DEFINE P == FreeBefore(B, x)
           N == FreeAfter(B, x)
           p == IF P = {} THEN x ELSE CHOOSE c \in P : TRUE
           n == IF N = {} THEN x ELSE CHOOSE c \in N : TRUE
<1>1. P \subseteq B /\ N \subseteq B
  BY DEF FreeBefore, FreeAfter
<1>2. p \in B /\ n \in B
  BY <1>1
<1>3. P # {} => P = {p}
  BY OneNeighbour
<1>4. N # {} => N = {n}
  BY OneNeighbour
<1>5. Outer(B, x, p, n)
  BY <1>2, <1>3, <1>4 DEF Outer
<1>6. {x} \cup P \cup N = {x, p, n}
  BY <1>3, <1>4
<1>7. Coalesce(B, x) = (B \ ({x} \cup P \cup N)) \cup {Span(p.lo, End(n))}
  BY DEF Coalesce
<1> QED
  BY <1>2, <1>5, <1>6, <1>7

LEMMA OuterFacts ==
  ASSUME NEW B \in SUBSET Block, NEW x \in B, ~x.used,
         NEW p, NEW n, Outer(B, x, p, n)
  PROVE  /\ p \in B /\ n \in B /\ ~p.used /\ ~n.used
         /\ p = x \/ Adjacent(p, x)
         /\ n = x \/ Adjacent(x, n)
         /\ p.lo \in Nat /\ End(n) \in Nat /\ p.lo < End(n)
         /\ p.lo <= x.lo /\ End(x) <= End(n)
<1>1. p \in B /\ n \in B
  BY DEF Outer
<1>2. p = x \/ p \in FreeBefore(B, x)
  BY DEF Outer
<1>3. n = x \/ n \in FreeAfter(B, x)
  BY DEF Outer
<1>4. ~p.used /\ (p = x \/ Adjacent(p, x))
  BY <1>2 DEF FreeBefore
<1>5. ~n.used /\ (n = x \/ Adjacent(x, n))
  BY <1>3 DEF FreeAfter
<1> QED
  BY <1>1, <1>4, <1>5, EndFacts DEF Adjacent

\* Whoever is left is clear of the merged block.
LEMMA OthersClear ==
  ASSUME NEW B \in SUBSET Block, DisjointIn(B), NEW x \in B, ~x.used,
         NEW p, NEW n, Outer(B, x, p, n),
         NEW c \in B \ {x, p, n}
  PROVE  End(c) <= p.lo \/ End(n) <= c.lo
<1>1. /\ End(c) <= x.lo \/ End(x) <= c.lo
      /\ End(c) <= p.lo \/ End(p) <= c.lo
      /\ End(c) <= n.lo \/ End(n) <= c.lo
  BY OuterFacts DEF DisjointIn
<1>2. c.lo < End(c) /\ c.lo \in Nat /\ End(c) \in Nat
  BY EndFacts
<1>3. /\ x.lo \in Nat /\ End(x) \in Nat /\ x.lo < End(x)
      /\ p.lo \in Nat /\ End(p) \in Nat
      /\ n.lo \in Nat /\ End(n) \in Nat
  BY EndFacts, OuterFacts
<1> QED
  BY <1>1, <1>2, <1>3, OuterFacts DEF Adjacent

LEMMA CoalesceGood ==
  ASSUME NEW t \in Nat, NEW B, Good(B, t), NEW x \in B, ~x.used
  PROVE  Good(Coalesce(B, x), t)
<1>1. PICK p \in B, n \in B :
        /\ Outer(B, x, p, n)
        /\ Coalesce(B, x) = (B \ {x, p, n}) \cup {Span(p.lo, End(n))}
  BY CoalesceParts DEF Good
<1> DEFINE m == Span(p.lo, End(n))
           C == (B \ {x, p, n}) \cup {m}
<1>2. B \in SUBSET Block /\ DisjointIn(B)
  BY DEF Good
<1>3. m \in Block /\ m.lo = p.lo /\ End(m) = End(n)
  BY <1>1, <1>2, OuterFacts, SpanFacts
<1>4. \A c \in B \ {x, p, n} : End(c) <= p.lo \/ End(n) <= c.lo
  BY <1>1, <1>2, OthersClear
<1> HIDE DEF m
<1>5. C \subseteq Block /\ DisjointIn(C)
  BY <1>2, <1>3, <1>4 DEF DisjointIn
<1>6. \A b \in C : Base <= b.lo /\ End(b) <= t
  BY <1>1, <1>3 DEF Good, TilesIn
<1>7. \E b \in C : b.lo = Base
  <2>1. PICK b \in B : b.lo = Base
    BY DEF Good, TilesIn
  <2>2. CASE b \in C
    BY <2>1, <2>2
  <2>3. CASE b \notin C
    <3>1. b \in {x, p, n}
      BY <2>3
    <3>2. Base <= p.lo /\ Base <= x.lo /\ Base <= n.lo
      BY <1>1 DEF Good, TilesIn
    <3>3. p.lo <= b.lo
      BY <1>1, <1>2, <3>1, OuterFacts, EndFacts DEF Adjacent
    <3>4. m.lo = Base
      BY <1>1, <1>2, <1>3, <2>1, <3>2, <3>3, EndFacts, HeapAssumption
    <3> QED
      BY <3>4
  <2> QED
    BY <2>2, <2>3
<1>8. \A b \in C : End(b) = t \/ \E c \in C : Adjacent(b, c)
  <2> TAKE b \in C
  <2>1. PICK e \in B : /\ End(b) = End(e)
                       /\ \/ e = b /\ b \notin {x, p, n}
                          \/ e = n /\ b = m
    <3>1. CASE b = m
      BY <1>1, <1>3, <3>1
    <3>2. CASE b \in B \ {x, p, n}
      BY <3>2
    <3> QED
      BY <3>1, <3>2
  <2>2. CASE End(e) = t
    BY <2>1, <2>2
  <2>3. CASE \E c \in B : Adjacent(e, c)
    <3>1. PICK c \in B : Adjacent(e, c)
      BY <2>3
    <3>2. CASE c \in C
      BY <2>1, <3>1, <3>2 DEF Adjacent
    <3>3. CASE c = p
      BY <1>3, <2>1, <3>1, <3>3 DEF Adjacent
    <3>4. CASE c = x /\ p # x
      <4>1. End(e) = End(p)
        BY <1>1, <1>2, <3>1, <3>4, OuterFacts DEF Adjacent
      <4>2. e = p
        BY <1>1, <1>2, <4>1, EndFacts DEF DisjointIn
      <4>3. b = m /\ n = p
        BY <2>1, <4>2
      <4> QED
        BY <1>1, <1>2, <3>4, <4>3, OuterFacts, EndFacts DEF Adjacent
    <3>5. CASE c = n /\ n # x
      <4>1. End(e) = End(x)
        BY <1>1, <1>2, <3>1, <3>5, OuterFacts DEF Adjacent
      <4>2. e = x
        BY <1>1, <1>2, <4>1, EndFacts DEF DisjointIn
      <4>3. b = m /\ n = x
        BY <2>1, <4>2
      <4> QED
        BY <3>5, <4>3
    <3> QED
      BY <3>1, <3>2, <3>3, <3>4, <3>5
  <2> QED
    BY <2>1, <2>2, <2>3 DEF Good, TilesIn
<1> QED
  BY <1>1, <1>5, <1>6, <1>7, <1>8 DEF Good, TilesIn, m

LEMMA CoalesceCoalesces ==
  ASSUME NEW B \in SUBSET Block, DisjointIn(B), NEW x \in B, ~x.used,
         CoalescedBut(B, x)
  PROVE  CoalescedIn(Coalesce(B, x))
<1>1. PICK p \in B, n \in B :
        /\ Outer(B, x, p, n)
        /\ Coalesce(B, x) = (B \ {x, p, n}) \cup {Span(p.lo, End(n))}
  BY CoalesceParts
<1> DEFINE m == Span(p.lo, End(n))
<1>2. m \in Block /\ m.lo = p.lo /\ End(m) = End(n)
  BY <1>1, OuterFacts, SpanFacts
<1> HIDE DEF m
<1>3. \A c \in B \ {x, p, n} : ~c.used => ~Adjacent(c, m)
  <2> SUFFICES ASSUME NEW c \in B \ {x, p, n}, ~c.used, Adjacent(c, m)
               PROVE  FALSE
    OBVIOUS
  <2>1. Adjacent(c, p)
    BY <1>2 DEF Adjacent
  <2>2. p = x
    BY <1>1, <2>1, OuterFacts DEF CoalescedBut, Free2
  <2>3. FreeBefore(B, x) = {} \/ FreeBefore(B, x) = {x}
    BY <1>1, <2>2 DEF Outer
  <2> QED
    BY <2>1, <2>2, <2>3 DEF FreeBefore
<1>4. \A c \in B \ {x, p, n} : ~c.used => ~Adjacent(m, c)
  <2> SUFFICES ASSUME NEW c \in B \ {x, p, n}, ~c.used, Adjacent(m, c)
               PROVE  FALSE
    OBVIOUS
  <2>1. Adjacent(n, c)
    BY <1>2 DEF Adjacent
  <2>2. n = x
    BY <1>1, <2>1, OuterFacts DEF CoalescedBut, Free2
  <2>3. FreeAfter(B, x) = {} \/ FreeAfter(B, x) = {x}
    BY <1>1, <2>2 DEF Outer
  <2> QED
    BY <2>1, <2>2, <2>3 DEF FreeAfter
<1>5. ~Adjacent(m, m)
  BY <1>2, EndFacts DEF Adjacent
<1>6. \A b, c \in B \ {x, p, n} : ~Free2(b, c)
  BY DEF CoalescedBut
<1> QED
  BY <1>1, <1>3, <1>4, <1>5, <1>6 DEF CoalescedIn, Free2, m

\* The merged block covers x.
LEMMA CoalesceCovers ==
  ASSUME NEW B \in SUBSET Block, DisjointIn(B), NEW x \in B, ~x.used
  PROVE  \E m \in Coalesce(B, x) : m.lo <= x.lo /\ End(x) <= End(m)
<1>1. PICK p \in B, n \in B :
        /\ Outer(B, x, p, n)
        /\ Coalesce(B, x) = (B \ {x, p, n}) \cup {Span(p.lo, End(n))}
  BY CoalesceParts
<1>2. Span(p.lo, End(n)) \in Coalesce(B, x)
  BY <1>1
<1>3. /\ Span(p.lo, End(n)).lo = p.lo /\ End(Span(p.lo, End(n))) = End(n)
      /\ p.lo <= x.lo /\ End(x) <= End(n)
  BY <1>1, OuterFacts, SpanFacts
<1> QED
  BY <1>2, <1>3

\* Coalesce leaves every block in use alone.
LEMMA CoalesceKeeps ==
  ASSUME NEW B, NEW x \in B, ~x.used, NEW b \in B, b.used
  PROVE  b \in Coalesce(B, x)
<1> DEFINE P == FreeBefore(B, x)
           N == FreeAfter(B, x)
<1>1. b \notin {x} \cup P \cup N
  BY DEF FreeBefore, FreeAfter
<1> QED
  BY <1>1 DEF Coalesce

-----------------------------------------------------------------------------
(* One block of the heap is split, freed or added.                         *)

LEMMA SplitGood ==
  ASSUME NEW t \in Nat, NEW B, Good(B, t), CoalescedIn(B),
         NEW b \in B, ~b.used, NEW n \in Nat \ {0}, n < b.len,
         NEW C, C = (B \ {b}) \cup {Taken(b, n), Rest(b, n)}
  PROVE  /\ Good(C, t) /\ CoalescedBut(C, Rest(b, n))
         /\ ~Rest(b, n).used
<1> DEFINE a == Taken(b, n)
           r == Rest(b, n)
<1>1. /\ b.lo \in Nat /\ b.len \in Nat /\ End(b) = b.lo + b.len
      /\ B \subseteq Block /\ DisjointIn(B)
  BY DEF Good, Block, End
<1>2. a \in Block /\ a.lo = b.lo /\ End(a) = b.lo + n /\ a.used
  BY <1>1 DEF Taken, Block, End
<1>3. r \in Block /\ r.lo = b.lo + n /\ End(r) = End(b) /\ ~r.used
  BY <1>1, SpanFacts DEF Rest
<1> HIDE DEF a, r
<1>4. C \subseteq Block
  BY <1>1, <1>2, <1>3 DEF a, r
<1>5. DisjointIn(C)
  <2>1. \A c \in B \ {b} : End(c) <= b.lo \/ End(b) <= c.lo
    BY <1>1 DEF DisjointIn
  <2>2. \A c \in B \ {b} : c.lo \in Nat /\ End(c) \in Nat
    BY <1>1, EndFacts
  <2>3. b.lo < End(a) /\ End(a) = r.lo /\ r.lo < End(b)
    BY <1>1, <1>2, <1>3
  <2>4. \A c \in B \ {b} : /\ End(c) <= a.lo \/ End(a) <= c.lo
                           /\ End(c) <= r.lo \/ End(r) <= c.lo
    BY <1>1, <1>2, <1>3, <2>1, <2>2, <2>3
  <2>5. \A c, d \in B \ {b} : c = d \/ End(c) <= d.lo \/ End(d) <= c.lo
    BY <1>1 DEF DisjointIn
  <2>6. End(a) <= r.lo
    BY <1>1, <1>2, <1>3
  <2> QED
    BY <2>4, <2>5, <2>6 DEF DisjointIn, a, r
<1>6. TilesIn(C, t)
  <2>1. \A c \in C : Base <= c.lo /\ End(c) <= t
    <3>1. Base <= b.lo /\ End(b) <= t
      BY DEF Good, TilesIn
    <3>2. \A c \in B : Base <= c.lo /\ End(c) <= t
      BY DEF Good, TilesIn
    <3>3. Base <= a.lo /\ End(a) <= t /\ Base <= r.lo /\ End(r) <= t
      BY <1>1, <1>2, <1>3, <3>1, HeapAssumption
    <3> QED
      BY <3>2, <3>3 DEF a, r
  <2>2. \E c \in C : c.lo = Base
    <3>1. PICK c \in B : c.lo = Base
      BY DEF Good, TilesIn
    <3>2. CASE c = b
      BY <1>2, <3>1, <3>2 DEF a
    <3>3. CASE c # b
      BY <3>1, <3>3
    <3> QED
      BY <3>2, <3>3
  <2>3. \A c \in C : End(c) = t \/ \E d \in C : Adjacent(c, d)
    <3> TAKE c \in C
    <3>1. CASE c = a
      BY <1>2, <1>3, <3>1 DEF Adjacent, a, r
    <3>2. CASE c \in B \/ c = r
      <4>1. PICK e \in B : End(e) = End(c)
        BY <1>3, <3>2
      <4>2. CASE End(e) = t
        BY <4>1, <4>2
      <4>3. CASE \E d \in B : Adjacent(e, d)
        <5>1. PICK d \in B : Adjacent(e, d)
          BY <4>3
        <5>2. CASE d = b
          BY <1>2, <4>1, <5>1, <5>2 DEF Adjacent, a
        <5>3. CASE d # b
          BY <4>1, <5>1, <5>3 DEF Adjacent
        <5> QED
          BY <5>2, <5>3
      <4> QED
        BY <4>2, <4>3 DEF Good, TilesIn
    <3> QED
      BY <3>1, <3>2 DEF a, r
  <2> QED
    BY <2>1, <2>2, <2>3 DEF TilesIn
<1>7. CoalescedBut(C, r)
  <2>1. \A c, d \in B : ~Free2(c, d)
    BY DEF CoalescedIn
  <2> QED
    BY <1>2, <2>1 DEF CoalescedBut, Free2, a, r
<1> QED
  BY <1>3, <1>4, <1>5, <1>6, <1>7 DEF Good, r

LEMMA PlaceGood ==
  ASSUME NEW t \in Nat, NEW B, Good(B, t), CoalescedIn(B),
         NEW b \in B, ~b.used, NEW n \in Nat \ {0}, n <= b.len
  PROVE  Good(Place(B, b, n), t) /\ CoalescedIn(Place(B, b, n))
<1>1. CASE b.len - n >= MINFB_SIZE
  <2> DEFINE C == (B \ {b}) \cup {Taken(b, n), Rest(b, n)}
  <2>1. n < b.len
    BY <1>1 DEF MINFB_SIZE, Good, Block
  <2>2. Good(C, t) /\ CoalescedBut(C, Rest(b, n)) /\ ~Rest(b, n).used
    BY <2>1, SplitGood
  <2>3. Rest(b, n) \in C
    OBVIOUS
  <2>4. Place(B, b, n) = Coalesce(C, Rest(b, n))
    BY <1>1 DEF Place
  <2> HIDE DEF C
  <2>5. Good(Coalesce(C, Rest(b, n)), t)
    BY <2>2, <2>3, CoalesceGood
  <2>6. CoalescedIn(Coalesce(C, Rest(b, n)))
    BY <2>2, <2>3, CoalesceCoalesces DEF Good
  <2> QED
    BY <2>4, <2>5, <2>6
<1>2. CASE ~(b.len - n >= MINFB_SIZE)
  <2> DEFINE a == Taken(b, b.len)
             C == (B \ {b}) \cup {a}
  <2>1. /\ a \in Block /\ a.lo = b.lo /\ End(a) = End(b) /\ a.used
        /\ B \subseteq Block
    BY DEF Good, Taken, Block, End
  <2>2. Place(B, b, n) = C
    BY <1>2 DEF Place
  <2> HIDE DEF a
  <2>3. C \subseteq Block /\ DisjointIn(C)
    BY <2>1 DEF Good, DisjointIn
  <2>4. TilesIn(C, t)
    BY <2>1 DEF Good, TilesIn, Adjacent
  <2>5. CoalescedIn(C)
    BY <2>1 DEF CoalescedIn, Free2
  <2> QED
    BY <2>2, <2>3, <2>4, <2>5 DEF Good
<1> QED
  BY <1>1, <1>2

LEMMA PlaceKeeps ==
  ASSUME NEW B \in SUBSET Block, NEW b \in B, ~b.used, NEW n \in Nat,
         NEW c \in B, c.used
  PROVE  c \in Place(B, b, n)
<1>1. c # b
  OBVIOUS
<1> DEFINE C == (B \ {b}) \cup {Taken(b, n), Rest(b, n)}
<1>2. c \in C /\ Rest(b, n) \in C /\ ~Rest(b, n).used
  BY <1>1 DEF Rest, Span
<1>3. c \in Coalesce(C, Rest(b, n))
  BY <1>2, CoalesceKeeps
<1> QED
  BY <1>1, <1>3 DEF Place

LEMMA ReleaseGood ==
  ASSUME NEW t \in Nat, NEW B, Good(B, t), CoalescedIn(B),
         NEW b \in B, b.used,
         NEW C, C = (B \ {b}) \cup {Released(b)}
  PROVE  /\ Good(C, t) /\ CoalescedBut(C, Released(b)) /\ ~Released(b).used
<1> DEFINE r == Released(b)
<1>1. /\ r \in Block /\ r.lo = b.lo /\ End(r) = End(b) /\ ~r.used
      /\ B \subseteq Block
  BY DEF Good, Released, Block, End
<1> HIDE DEF r
<1>2. C \subseteq Block /\ DisjointIn(C)
  BY <1>1 DEF Good, DisjointIn, r
<1>3. TilesIn(C, t)
  BY <1>1 DEF Good, TilesIn, Adjacent, r
<1>4. CoalescedBut(C, r)
  BY <1>1 DEF CoalescedIn, CoalescedBut, r
<1> QED
  BY <1>1, <1>2, <1>3, <1>4 DEF Good, r

LEMMA GrowthFacts ==
  ASSUME NEW n \in Nat
  PROVE  Growth(n) \in Nat \ {0} /\ Growth(n) >= n
BY HeapAssumption DEF Growth

LEMMA NewGood ==
  ASSUME NEW t \in Nat, NEW u \in Nat, t < u,
         NEW B, Good(B, t), CoalescedIn(B),
         NEW C, C = B \cup {Span(t, u)}
  PROVE  Good(C, u) /\ CoalescedBut(C, Span(t, u))
<1> DEFINE x == Span(t, u)
<1>1. x \in Block /\ x.lo = t /\ End(x) = u
  BY SpanFacts
<1> HIDE DEF x
<1>2. /\ B \subseteq Block /\ DisjointIn(B)
      /\ \A b \in B : Base <= b.lo /\ End(b) <= t
      /\ \A b \in B : b.lo \in Nat /\ End(b) \in Nat /\ b.lo < End(b)
  BY EndFacts DEF Good, TilesIn
<1>3. C \subseteq Block /\ DisjointIn(C)
  BY <1>1, <1>2 DEF DisjointIn, x
<1>4. \A b \in C : Base <= b.lo /\ End(b) <= u
  <2>1. Base <= t
    BY <1>2, HeapAssumption DEF Good, TilesIn
  <2>2. \A b \in B : Base <= b.lo /\ End(b) <= u
    BY <1>2
  <2> QED
    BY <1>1, <2>1, <2>2 DEF x
<1>5. \E b \in C : b.lo = Base
  BY DEF Good, TilesIn
<1>6. \A b \in C : End(b) = u \/ \E c \in C : Adjacent(b, c)
  BY <1>1 DEF Good, TilesIn, Adjacent, x
<1>7. CoalescedBut(C, x)
  BY DEF CoalescedIn, CoalescedBut, x
<1> QED
  BY <1>3, <1>4, <1>5, <1>6, <1>7 DEF Good, TilesIn, x

LEMMA OneBlockGood ==
  ASSUME NEW t \in Nat, Base < t
  PROVE  Good({Span(Base, t)}, t) /\ CoalescedIn({Span(Base, t)})
<1> DEFINE x == Span(Base, t)
<1>1. x \in Block /\ x.lo = Base /\ End(x) = t
  BY SpanFacts, HeapAssumption
<1> HIDE DEF x
<1>2. Good({x}, t)
  BY <1>1, HeapAssumption DEF Good, DisjointIn, TilesIn
<1>3. CoalescedIn({x})
  BY <1>1, HeapAssumption DEF CoalescedIn, Free2, Adjacent
<1> QED
  BY <1>2, <1>3 DEF x

-----------------------------------------------------------------------------
(* The invariant.                                                          *)

HInv == Good(blocks, top) /\ CoalescedIn(blocks) /\ top \in Nat

LEMMA HInitInv == HInit => HInv
<1> SUFFICES ASSUME HInit PROVE HInv
  OBVIOUS
<1>1. top \in Nat /\ Base < top
  BY GrowthFacts, HeapAssumption DEF HInit
<1> QED
  BY <1>1, OneBlockGood DEF HInit, HInv

LEMMA TopAboveBase == HInv => Base < top
BY EndFacts, HeapAssumption DEF HInv, Good, TilesIn

\* The block that Extend takes is the merged one, and large enough.
LEMMA ExtendBlock ==
  ASSUME HInv, NEW n \in Nat \ {0},
         NEW u, u = top + Growth(n),
         NEW B, B = Coalesce(blocks \cup {New(n)}, New(n)),
         NEW b \in B, End(b) = u
  PROVE  /\ u \in Nat /\ Good(B, u) /\ CoalescedIn(B)
         /\ n <= b.len
<1> DEFINE C == blocks \cup {New(n)}
<1>1. /\ u \in Nat /\ top \in Nat /\ top < u
      /\ New(n) = Span(top, u) /\ New(n) \in C
  BY GrowthFacts DEF HInv, New
<1>2. /\ ~New(n).used /\ New(n).lo = top /\ End(New(n)) = u
  BY <1>1, SpanFacts
<1>3. Good(C, u) /\ CoalescedBut(C, New(n))
  BY <1>1, NewGood DEF HInv
<1> HIDE DEF C
<1>4. Good(B, u) /\ CoalescedIn(B)
  BY <1>1, <1>2, <1>3, CoalesceGood, CoalesceCoalesces DEF Good, C
<1>5. PICK m \in B : m.lo <= top /\ u <= End(m)
  BY <1>1, <1>2, <1>3, CoalesceCovers DEF Good, C
<1>6. /\ m \in Block /\ b \in Block /\ End(m) <= u
      /\ m = b \/ End(m) <= b.lo \/ End(b) <= m.lo
  BY <1>4 DEF Good, DisjointIn, TilesIn
<1>7. m = b
  BY <1>1, <1>5, <1>6, EndFacts
<1>8. u - top >= n
  BY <1>1, GrowthFacts
<1>9. b.len = End(b) - b.lo /\ b.lo \in Nat
  BY <1>6 DEF Block, End
<1> QED
  BY <1>1, <1>4, <1>5, <1>7, <1>8, <1>9

LEMMA HStep == HInv /\ [HNext]_hvars => HInv'
<1> SUFFICES ASSUME HInv, [HNext]_hvars PROVE HInv'
  OBVIOUS
<1>1. ASSUME NEW n \in Sizes, Reuse(n) PROVE HInv'
  <2>1. PICK b \in Fits(n) : blocks' = Place(blocks, b, n)
    BY <1>1 DEF Reuse
  <2>2. b \in blocks /\ ~b.used /\ n <= b.len /\ n \in Nat \ {0}
    BY HeapAssumption DEF Fits, HInv, Good, Block
  <2> QED
    BY <1>1, <2>1, <2>2, PlaceGood DEF HInv, Reuse
<1>2. ASSUME NEW n \in Sizes, Extend(n) PROVE HInv'
  <2> DEFINE B == Coalesce(blocks \cup {New(n)}, New(n))
  <2>1. PICK b \in B : ~b.used /\ End(b) = top' /\ blocks' = Place(B, b, n)
    BY <1>2 DEF Extend
  <2>2. top' = top + Growth(n) /\ n \in Nat \ {0}
    BY <1>2, HeapAssumption DEF Extend
  <2> HIDE DEF B
  <2>3. top' \in Nat /\ Good(B, top') /\ CoalescedIn(B) /\ n <= b.len
    BY <2>1, <2>2, ExtendBlock DEF B
  <2> QED
    BY <2>1, <2>2, <2>3, PlaceGood DEF HInv
<1>3. ASSUME NEW b \in blocks, Free(b) PROVE HInv'
  <2> DEFINE C == (blocks \ {b}) \cup {Released(b)}
  <2>1. Good(C, top) /\ CoalescedBut(C, Released(b)) /\ ~Released(b).used
    BY <1>3, ReleaseGood DEF HInv, Free
  <2>2. Released(b) \in C
    OBVIOUS
  <2>3. blocks' = Coalesce(C, Released(b)) /\ top' = top
    BY <1>3 DEF Free
  <2> HIDE DEF C
  <2>4. Good(blocks', top')
    BY <2>1, <2>2, <2>3, CoalesceGood DEF HInv
  <2>5. CoalescedIn(blocks')
    BY <2>1, <2>2, <2>3, CoalesceCoalesces DEF Good
  <2> QED
    BY <2>3, <2>4, <2>5 DEF HInv
<1>4. CASE FreeAll
  BY <1>4, OneBlockGood, TopAboveBase DEF FreeAll, HInv
<1>5. CASE Restart
  <2>1. top' \in Nat /\ Base < top'
    BY <1>5, GrowthFacts, HeapAssumption DEF Restart
  <2> QED
    BY <1>5, <2>1, OneBlockGood DEF Restart, HInv
<1>6. CASE UNCHANGED hvars
  BY <1>6 DEF HInv, hvars
<1> QED
  BY <1>1, <1>2, <1>3, <1>4, <1>5, <1>6 DEF HNext

\* The heap stays tiled by disjoint, coalesced blocks.
THEOREM HeapInvariant == HSpec => []HInv
BY HInitInv, HStep, PTL DEF HSpec

\* No sequence of mm_malloc, mm_free and mm_exit makes blocks overlap.
THEOREM BlocksDisjoint == HSpec => []Disjoint
<1>1. HInv => Disjoint
  BY DEF HInv, Good, Disjoint
<1> QED
  BY <1>1, HeapInvariant, PTL

\* The walk from block to block always reaches the break.
THEOREM BlocksTile == HSpec => []Tiles
<1>1. HInv => Tiles
  BY DEF HInv, Good, Tiles
<1> QED
  BY <1>1, HeapInvariant, PTL

\* Free neighbours are always merged.
THEOREM FreeNeighboursMerged == HSpec => []Coalesced
<1>1. HInv => Coalesced
  BY DEF HInv, CoalescedIn, Free2, Coalesced
<1> QED
  BY <1>1, HeapInvariant, PTL

\* Blocks have types.
THEOREM HeapTypeCorrect == HSpec => []HTypeOK
<1>1. HInv => HTypeOK
  BY DEF HInv, Good, HTypeOK
<1> QED
  BY <1>1, HeapInvariant, PTL

LEMMA StayStep ==
  HInv /\ [HNext]_hvars =>
    [\A b \in blocks :
       b.used => b \in blocks' \/ Free(b) \/ FreeAll \/ Restart]_hvars
<1> SUFFICES ASSUME HInv, HNext, NEW b \in blocks, b.used,
                    ~Free(b), ~FreeAll, ~Restart
             PROVE  b \in blocks'
  BY DEF hvars
<1>0. blocks \in SUBSET Block
  BY DEF HInv, Good
<1>1. ASSUME NEW n \in Sizes, Reuse(n) PROVE b \in blocks'
  <2>1. PICK f \in Fits(n) : blocks' = Place(blocks, f, n)
    BY <1>1 DEF Reuse
  <2>2. f \in blocks /\ ~f.used /\ n \in Nat
    BY HeapAssumption DEF Fits
  <2> QED
    BY <1>0, <2>1, <2>2, PlaceKeeps
<1>2. ASSUME NEW n \in Sizes, Extend(n) PROVE b \in blocks'
  <2> DEFINE B == Coalesce(blocks \cup {New(n)}, New(n))
  <2>1. PICK f \in B : ~f.used /\ End(f) = top' /\ blocks' = Place(B, f, n)
    BY <1>2 DEF Extend
  <2>2. top' = top + Growth(n) /\ n \in Nat \ {0}
    BY <1>2, HeapAssumption DEF Extend
  <2>3. ~New(n).used
    BY DEF New, Span
  <2>4. b \in B
    BY <2>3, CoalesceKeeps
  <2> HIDE DEF B
  <2>5. B \in SUBSET Block
    BY <2>1, <2>2, ExtendBlock DEF B, Good
  <2> QED
    BY <2>1, <2>2, <2>4, <2>5, PlaceKeeps
<1>3. ASSUME NEW c \in blocks, Free(c) PROVE b \in blocks'
  <2>1. b # c
    BY <1>3
  <2>2. ~Released(c).used
    BY <1>0 DEF Released, Block
  <2> DEFINE C == (blocks \ {c}) \cup {Released(c)}
  <2>3. b \in C /\ Released(c) \in C
    BY <2>1
  <2>4. b \in Coalesce(C, Released(c))
    BY <2>2, <2>3, CoalesceKeeps
  <2> QED
    BY <1>3, <2>4 DEF Free
<1> QED
  BY <1>1, <1>2, <1>3 DEF HNext

\* A block in use is touched by nobody else's request.
THEOREM LiveBlocksUntouched == HSpec => LiveBlocksStay
BY StayStep, HeapInvariant, PTL DEF HSpec, LiveBlocksStay
=============================================================================
