----------------------------- MODULE EchoProofs -----------------------------
(***************************************************************************)
(* The buffered reads of the Rio package lose, repeat and reorder nothing, *)
(* for every buffer size and every set of descriptors, whatever read(2)    *)
(* returns (first part).  The invariant RioInv adds to StreamInOrder that  *)
(* the bytes counted by rio_cnt lie in rio_buf; each action then moves     *)
(* bytes from the front of one sequence to the end of the one before it.   *)
(*                                                                         *)
(* The echo server and its clients keep what module Rio keeps on its own:  *)
(* whoever is killed, fails or closes, on each connection the bytes that   *)
(* have been sent are taken in order, each of them once (EInv). A step of  *)
(* Echo is one of Rio's, or leaves what is kept alone; what is to be shown *)
(* beyond that is that a call never returns more than its buffer and the   *)
(* NUL hold, so that all that is sent back is text.                        *)
(*                                                                         *)
(* Beyond the bytes, the echo is the client's stream in upper case         *)
(* (EchoesInOrder), and a client prints the echo of its own line           *)
(* (EchoIsOwnLine). Both follow from ConnInv, which says of a connection   *)
(* what each side has sent and got: with NULs left out, what has come back *)
(* and what the thread holds are together the upper case of what it has    *)
(* taken; and as long as no NUL has come back, what the client has got is  *)
(* the upper case of the lines it has sent before and a part of that of    *)
(* the last one. The lines, which neither side counts, stay aligned        *)
(* because a line ends with its only newline, or fills the buffer on both  *)
(* sides, or is cut off by the end of the stream, after which nothing more *)
(* comes.                                                                  *)
(***************************************************************************)
EXTENDS Echo, NatLemmas, SequenceTheorems


Text == Seq(Bytes)

Calls == [pc : {"idle", "read", "returned", "write"}, kind : {"line", "block"}, n : Nat, usrbuf : Text,
          ret : Int, out : Text]

Streams == /\ file \in [Ends -> Text] /\ stream \in [Ends -> Text]
           /\ taken \in [Ends -> Text]
           /\ rio \in [Ends -> [buf : Text, ptr : Nat \ {0}, cnt : Int]]

\* What is counted lies in the buffer.
Buffered == \A e \in Ends : rio[e].cnt > 0 => rio[e].ptr + rio[e].cnt - 1 <= Len(rio[e].buf)

Kept == Streams /\ Buffered /\ StreamInOrder

RioInv == call \in [Ends -> Calls] /\ Kept

-----------------------------------------------------------------------------
(* Sequences.                                                              *)

LEMMA PartOfText ==
  ASSUME NEW s \in Text, NEW m \in Nat \ {0}, NEW n \in Int, n <= Len(s)
  PROVE  SubSeq(s, m, n) \in Text
<1>1. Len(s) \in Nat /\ \A i \in 1 .. Len(s) : s[i] \in Bytes
  BY LenProperties DEF Text
<1>2. \A i \in m .. n : s[i] \in Bytes
  BY <1>1
<1> QED
  BY <1>2, SubSeqProperties DEF Text

LEMMA CutInTwo ==
  ASSUME NEW s \in Text, NEW k \in 0 .. Len(s)
  PROVE  SubSeq(s, 1, k) \o SubSeq(s, k + 1, Len(s)) = s
<1>1. Len(s) \in Nat
  BY LenProperties DEF Text
<1>2. 1 \in 1 .. Len(s) + 1 /\ k \in 1 - 1 .. Len(s) /\ Len(s) \in k .. Len(s)
  BY <1>1
<1>3. SubSeq(s, 1, k) \o SubSeq(s, k + 1, Len(s)) = SubSeq(s, 1, Len(s))
  BY <1>2, ConcatAdjacentSubSeq DEF Text
<1> QED
  BY <1>3, SubSeqFull DEF Text

LEMMA Joined ==
  ASSUME NEW s \in Text, NEW t \in Text
  PROVE  s \o t \in Text
BY ConcatProperties DEF Text

LEMMA Regrouped ==
  ASSUME NEW s \in Text, NEW t \in Text, NEW u \in Text
  PROVE  (s \o t) \o u = s \o (t \o u)
BY ConcatAssociative DEF Text

LEMMA Nothing ==
  /\ <<>> \in Text
  /\ \A s \in Text : s \o <<>> = s /\ <<>> \o s = s
BY ConcatEmptySeq DEF Text

LEMMA UnreadText ==
  ASSUME Streams, Buffered, NEW e \in Ends
  PROVE  Unread(e) \in Text
<1>1. rio[e].buf \in Text /\ rio[e].ptr \in Nat \ {0} /\ rio[e].cnt \in Int
  BY DEF Streams
<1>2. CASE rio[e].cnt > 0
  <2>1. rio[e].ptr + rio[e].cnt - 1 <= Len(rio[e].buf)
    BY <1>2 DEF Buffered
  <2> QED
    BY <1>1, <1>2, <2>1, PartOfText DEF Unread
<1>3. CASE ~(rio[e].cnt > 0)
  BY <1>3, Nothing DEF Unread
<1> QED
  BY <1>2, <1>3

LEMMA Sums == \A p, k, c \in Int : /\ (p + k) + (c - k) - 1 = p + c - 1
                                    /\ (p + k - 1) + 1 = p + k
  OBVIOUS

-----------------------------------------------------------------------------
(* One lemma per action.                                                   *)

LEMMA InitKept == RioInit => RioInv
<1> SUFFICES ASSUME RioInit PROVE RioInv
  OBVIOUS
<1>1. rio_readinitb \in [buf : Text, ptr : Nat \ {0}, cnt : Int]
  BY Nothing DEF rio_readinitb
<1>2. NoCall \in Calls
  BY Nothing DEF NoCall, Calls
<1>3. Streams /\ call \in [Ends -> Calls]
  BY <1>1, <1>2, Nothing DEF RioInit, Streams
<1>4. \A e \in Ends : ~(rio[e].cnt > 0)
  BY DEF RioInit, rio_readinitb
<1>5. StreamInOrder
  BY <1>4, Nothing DEF StreamInOrder, Unread, RioInit
<1> QED
  BY <1>3, <1>4, <1>5 DEF RioInv, Kept, Buffered

LEMMA SameKept ==
  ASSUME Kept, UNCHANGED <<file, rio, stream, taken>>
  PROVE  Kept'
BY DEF Kept, Streams, Buffered, StreamInOrder, Unread

\* read(2) fails or ends: only the count changes, and nothing was counted.
LEMMA EmptyKept ==
  ASSUME Kept, NEW e \in Ends, NEW c \in {-1, 0}, rio[e].cnt <= 0,
         rio' = [rio EXCEPT ![e].cnt = c], UNCHANGED <<file, stream, taken>>
  PROVE  Kept'
<1>1. \A d \in Ends : /\ rio'[d].buf = rio[d].buf /\ rio'[d].ptr = rio[d].ptr
                      /\ d # e => rio'[d] = rio[d]
                      /\ d = e => rio'[d].cnt = c
  BY DEF Kept, Streams
<1>2. Streams'
  BY DEF Kept, Streams
<1>3. Buffered'
  BY <1>1 DEF Kept, Buffered
<1>4. \A d \in Ends : Unread(d)' = Unread(d)
  BY <1>1 DEF Unread, Kept, Streams
<1> QED
  BY <1>2, <1>3, <1>4 DEF Kept, StreamInOrder

LEMMA FillKept ==
  ASSUME Kept, NEW e \in Ends, Fill(e)
  PROVE  Kept'
<1>1. PICK k \in 1 .. BufSize :
        /\ k <= Len(file[e])
        /\ rio' = [rio EXCEPT ![e] = [buf |-> SubSeq(file[e], 1, k), ptr |-> 1, cnt |-> k]]
        /\ file' = [file EXCEPT ![e] = SubSeq(file[e], k + 1, Len(file[e]))]
  BY DEF Fill, FillAnyTime
<1>2. rio[e].cnt <= 0 /\ UNCHANGED <<stream, taken>>
  BY DEF Fill, FillAnyTime
<1> DEFINE a == SubSeq(file[e], 1, k)
           b == SubSeq(file[e], k + 1, Len(file[e]))
<1>3. /\ file[e] \in Text /\ Len(file[e]) \in Nat /\ k \in Nat \ {0}
      /\ k \in 1 .. Len(file[e]) /\ k \in 0 .. Len(file[e])
  BY <1>1, LenProperties, RioAssumption DEF Kept, Streams, Text
<1>4. a \in Text /\ b \in Text /\ a \o b = file[e] /\ Len(a) = k
  <2>1. a \in Text /\ b \in Text
    <3>1. /\ 1 \in Nat \ {0} /\ k + 1 \in Nat \ {0} /\ k \in Int /\ k <= Len(file[e])
          /\ Len(file[e]) \in Int /\ Len(file[e]) <= Len(file[e])
      BY <1>1, <1>3
    <3>2. SubSeq(file[e], 1, k) \in Text
      BY <3>1, <1>3, PartOfText
    <3>3. SubSeq(file[e], k + 1, Len(file[e])) \in Text
      BY <3>1, <1>3, PartOfText
    <3> QED
      BY <3>2, <3>3
  <2>2. a \o b = file[e]
    BY <1>3, CutInTwo
  <2>3. Len(a) = k
    <3>1. \A i \in 1 .. k : file[e][i] \in Bytes
      BY <1>3, LenProperties DEF Text
    <3> QED
      BY <3>1, <1>3, SubSeqProperties
  <2> QED
    BY <2>1, <2>2, <2>3
<1>5. SubSeq(a, 1, k) = a
  BY <1>4, SubSeqFull DEF Text
<1> HIDE DEF a, b
<1>6. /\ rio'[e] = [buf |-> a, ptr |-> 1, cnt |-> k] /\ file'[e] = b
      /\ \A d \in Ends : d # e => rio'[d] = rio[d] /\ file'[d] = file[d]
  BY <1>1 DEF a, b, Kept, Streams
<1>7. Streams'
  <2>1. [buf |-> a, ptr |-> 1, cnt |-> k] \in [buf : Text, ptr : Nat \ {0}, cnt : Int]
    BY <1>3, <1>4
  <2>2. rio' = [rio EXCEPT ![e] = [buf |-> a, ptr |-> 1, cnt |-> k]]
        /\ file' = [file EXCEPT ![e] = b]
    BY <1>1 DEF a, b
  <2> QED
    BY <2>1, <2>2, <1>2, <1>4 DEF Kept, Streams
<1>8. Buffered'
  BY <1>3, <1>4, <1>6 DEF Kept, Buffered
<1>9. ASSUME NEW d \in Ends
      PROVE  taken'[d] \o Unread(d)' \o file'[d] = stream'[d]
  <2>1. taken[d] \o Unread(d) \o file[d] = stream[d]
    BY DEF Kept, StreamInOrder
  <2>2. CASE d # e
    BY <2>1, <2>2, <1>2, <1>6 DEF Unread
  <2>3. CASE d = e
    <3>1. Unread(e) = <<>> /\ Unread(e)' = a
      <4>1. Unread(e) = <<>>
        BY <1>2 DEF Unread, Kept, Streams
      <4>2. Unread(e)' = SubSeq(a, 1, 1 + k - 1) /\ 1 + k - 1 = k
        BY <1>3, <1>6 DEF Unread
      <4> QED
        BY <4>1, <4>2, <1>5
    <3>2. taken[e] \in Text
      BY DEF Kept, Streams
    <3>3. (taken[e] \o a) \o b = taken[e] \o (a \o b)
      BY <3>2, <1>4, Regrouped
    <3>4. taken[e] \o <<>> = taken[e]
      BY <3>2, Nothing
    <3> QED
      BY <2>1, <2>3, <3>1, <3>3, <3>4, <1>2, <1>4, <1>6
  <2> QED
    BY <2>2, <2>3
<1> QED
  BY <1>7, <1>8, <1>9 DEF Kept, StreamInOrder

\* What rio_read is asked for is at least one byte.
LEMMA WantedSomething ==
  ASSUME RioInv, NEW e \in Ends, Reading(e)
  PROVE  Wanted(e) \in Nat \ {0}
<1>1. call[e].n \in Nat /\ call[e].kind \in {"line", "block"} /\ call[e].usrbuf \in Text
  BY DEF RioInv, Calls
<1>2. Stored(e) \in Nat
  BY <1>1, LenProperties DEF Stored, Text
<1> QED
  BY <1>1, <1>2 DEF Reading, Satisfied, Wanted

LEMMA CopyKept ==
  ASSUME RioInv, NEW e \in Ends, Copy(e)
  PROVE  Kept' /\ call' \in [Ends -> Calls]
<1> DEFINE r == rio[e]
           k == IF r.cnt < Wanted(e) THEN r.cnt ELSE Wanted(e)
           last == r.ptr + r.cnt - 1
           a == SubSeq(r.buf, r.ptr, r.ptr + k - 1)
           b == IF r.cnt - k > 0 THEN SubSeq(r.buf, r.ptr + k, (r.ptr + k) + (r.cnt - k) - 1)
                ELSE <<>>
<1>1. /\ call' = [call EXCEPT ![e].usrbuf = call[e].usrbuf \o a]
      /\ taken' = [taken EXCEPT ![e] = taken[e] \o a]
      /\ rio' = [rio EXCEPT ![e].ptr = rio[e].ptr + k, ![e].cnt = rio[e].cnt - k]
      /\ UNCHANGED <<file, stream>>
  BY DEF Copy
<1>2. /\ r.buf \in Text /\ r.ptr \in Nat \ {0} /\ r.cnt \in Nat \ {0}
      /\ Len(r.buf) \in Nat /\ last \in Nat /\ last <= Len(r.buf)
  BY LenProperties DEF Copy, RioInv, Kept, Streams, Buffered, Text
<1>3. k \in Nat \ {0} /\ k <= r.cnt
  <2>1. Wanted(e) \in Nat \ {0}
    BY WantedSomething DEF Copy
  <2> QED
    BY <2>1, <1>2
<1> HIDE DEF k
<1>4. Unread(e) = SubSeq(r.buf, r.ptr, last)
  <2>1. rio[e].cnt > 0
    BY <1>2
  <2> QED
    BY <2>1 DEF Unread
<1>5. a \in Text /\ b \in Text
  <2>1. a \in Text
    <3>1. r.ptr + k - 1 \in Int /\ r.ptr + k - 1 <= Len(r.buf)
      BY <1>2, <1>3
    <3> QED
      BY <3>1, <1>2, PartOfText
  <2>2. CASE r.cnt - k > 0
    <3>1. /\ r.ptr + k \in Nat \ {0} /\ (r.ptr + k) + (r.cnt - k) - 1 \in Int
          /\ (r.ptr + k) + (r.cnt - k) - 1 <= Len(r.buf)
      <4>1. r.ptr \in Int /\ r.ptr > 0 /\ k \in Int /\ k > 0 /\ r.cnt \in Int
        BY <1>2, <1>3
      <4>2. (r.ptr + k) + (r.cnt - k) - 1 = last
        BY <4>1, Sums
      <4>3. r.ptr + k \in Nat \ {0}
        BY <4>1
      <4> QED
        BY <4>2, <4>3, <1>2
    <3> DEFINE m == r.ptr + k
               n == (r.ptr + k) + (r.cnt - k) - 1
    <3>2. m \in Nat \ {0} /\ n \in Int /\ n <= Len(r.buf)
      BY <3>1
    <3> HIDE DEF m, n
    <3>3. SubSeq(r.buf, m, n) \in Text
      BY <3>2, <1>2, PartOfText
    <3> QED
      BY <3>3, <2>1, <2>2 DEF m, n
  <2>3. CASE ~(r.cnt - k > 0)
    BY <2>1, <2>3, Nothing
  <2> QED
    BY <2>1, <2>2, <2>3
<1>6. a \o b = Unread(e)
  <2>1. CASE r.cnt - k > 0
    <3>1. /\ r.ptr \in 1 .. Len(r.buf) + 1
          /\ last \in r.ptr + k - 1 .. Len(r.buf)
          /\ (r.ptr + k) + (r.cnt - k) - 1 = last
          /\ (r.ptr + k - 1) + 1 = r.ptr + k
      <4>1. r.ptr \in 1 .. Len(r.buf) + 1
        BY <1>2
      <4>2. last \in r.ptr + k - 1 .. Len(r.buf)
        BY <1>2, <1>3
      <4>3. (r.ptr + k) + (r.cnt - k) - 1 = last
        <5> r.ptr \in Int /\ k \in Int /\ r.cnt \in Int
          BY <1>2, <1>3
        <5> QED
          BY Sums
      <4>4. (r.ptr + k - 1) + 1 = r.ptr + k
        BY <1>2, <1>3, Sums
      <4> QED
        BY <4>1, <4>2, <4>3, <4>4
    <3>3. r.ptr + k - 1 \in r.ptr - 1 .. Len(r.buf)
      BY <1>2, <1>3
    <3>2. SubSeq(r.buf, r.ptr, r.ptr + k - 1) \o SubSeq(r.buf, (r.ptr + k - 1) + 1, last)
            = SubSeq(r.buf, r.ptr, last)
      BY <3>1, <3>3, <1>2, ConcatAdjacentSubSeq DEF Text
    <3> QED
      BY <3>1, <3>2, <2>1, <1>4
  <2>2. CASE ~(r.cnt - k > 0)
    <3>1. r.ptr + k - 1 = last
      BY <2>2, <1>2, <1>3
    <3> QED
      BY <3>1, <2>2, <1>4, <1>5, Nothing
  <2> QED
    BY <2>1, <2>2
<1>7. /\ rio'[e].buf = r.buf /\ rio'[e].ptr = r.ptr + k /\ rio'[e].cnt = r.cnt - k
      /\ taken'[e] = taken[e] \o a
      /\ \A d \in Ends : d # e => rio'[d] = rio[d] /\ taken'[d] = taken[d]
  BY <1>1 DEF RioInv, Kept, Streams
<1>8. Unread(e)' = b
  BY <1>7 DEF Unread
<1> HIDE DEF a, b
<1>9. Streams'
  <2>1. taken[e] \o a \in Text
    BY <1>5, Joined DEF RioInv, Kept, Streams
  <2>2. taken' \in [Ends -> Text]
    BY <2>1, <1>1 DEF RioInv, Kept, Streams
  <2>3. rio' \in [Ends -> [buf : Text, ptr : Nat \ {0}, cnt : Int]]
    <3>1. r.ptr + k \in Nat \ {0} /\ r.cnt - k \in Int
      BY <1>2, <1>3
    <3>2. rio' = [rio EXCEPT ![e].ptr = r.ptr + k, ![e].cnt = r.cnt - k]
      BY <1>1
    <3> QED
      BY <3>1, <3>2 DEF RioInv, Kept, Streams
  <2> QED
    BY <2>2, <2>3, <1>1 DEF RioInv, Kept, Streams
<1>10. Buffered'
  <2>1. (r.ptr + k) + (r.cnt - k) - 1 <= Len(r.buf)
    BY <1>2, <1>3
  <2> QED
    BY <2>1, <1>7 DEF RioInv, Kept, Buffered
<1>11. ASSUME NEW d \in Ends
       PROVE  taken'[d] \o Unread(d)' \o file'[d] = stream'[d]
  <2>1. taken[d] \o Unread(d) \o file[d] = stream[d]
    BY DEF RioInv, Kept, StreamInOrder
  <2>2. CASE d # e
    BY <2>1, <2>2, <1>1, <1>7 DEF Unread
  <2>3. CASE d = e
    <3>1. taken[e] \in Text
      BY DEF RioInv, Kept, Streams
    <3>2. (taken[e] \o a) \o b = taken[e] \o (a \o b)
      BY <3>1, <1>5, Regrouped
    <3> QED
      BY <2>1, <2>3, <3>2, <1>1, <1>6, <1>7, <1>8
  <2> QED
    BY <2>2, <2>3
<1>12. call' \in [Ends -> Calls]
  <2>1. call[e].usrbuf \o a \in Text
    BY <1>5, Joined DEF RioInv, Calls
  <2> QED
    BY <2>1, <1>1 DEF RioInv, Calls
<1> QED
  BY <1>9, <1>10, <1>11, <1>12 DEF Kept, StreamInOrder

\* Bytes arrive at the end f.
LEMMA ArrivedKept ==
  ASSUME Kept, NEW f \in Ends, NEW t \in Text,
         file' = [file EXCEPT ![f] = file[f] \o t],
         stream' = [stream EXCEPT ![f] = stream[f] \o t],
         UNCHANGED <<rio, taken>>
  PROVE  Kept'
<1>1. file[f] \o t \in Text /\ stream[f] \o t \in Text
  BY Joined DEF Kept, Streams
<1>2. Streams' /\ Buffered'
  BY <1>1 DEF Kept, Streams, Buffered
<1>3. /\ file'[f] = file[f] \o t /\ stream'[f] = stream[f] \o t
      /\ \A d \in Ends : d # f => file'[d] = file[d] /\ stream'[d] = stream[d]
  BY DEF Kept, Streams
<1>4. ASSUME NEW d \in Ends
      PROVE  taken'[d] \o Unread(d)' \o file'[d] = stream'[d]
  <2>1. taken[d] \o Unread(d) \o file[d] = stream[d] /\ Unread(d)' = Unread(d)
    BY DEF Kept, StreamInOrder, Unread
  <2>2. CASE d # f
    BY <2>1, <2>2, <1>3
  <2>3. CASE d = f
    <3>1. taken[f] \o Unread(f) \in Text /\ file[f] \in Text
      BY UnreadText, Joined DEF Kept, Streams
    <3>2. ((taken[f] \o Unread(f)) \o file[f]) \o t = (taken[f] \o Unread(f)) \o (file[f] \o t)
      BY <3>1, Regrouped
    <3> QED
      BY <2>1, <2>3, <3>2, <1>3
  <2> QED
    BY <2>2, <2>3
<1> QED
  BY <1>2, <1>4 DEF Kept, StreamInOrder

-----------------------------------------------------------------------------
\* A call begins, returns or is over: what is kept does not change.
LEMMA ReturnTyped ==
  ASSUME call \in [Ends -> Calls], NEW e \in Ends, NEW r \in Int, Return(e, r)
  PROVE  call' \in [Ends -> Calls]
BY DEF Return, Calls

LEMMA ReadTyped ==
  ASSUME call \in [Ends -> Calls], NEW e \in Ends, NEW k \in {"line", "block"},
         NEW m \in Nat, Read(e, k, m)
  PROVE  call' \in [Ends -> Calls]
<1>1. NoCall \in Calls
  BY Nothing DEF NoCall, Calls
<1>2. [NoCall EXCEPT !.pc = "read", !.kind = k, !.n = m] \in Calls
  BY <1>1 DEF Calls
<1> QED
  BY <1>2 DEF Read

\* Everything rio_read, rio_readnb and rio_readlineb do.
LEMMA ReadStepKept ==
  ASSUME RioInv, NEW e \in Ends, ReadStep(e) \/ ReadFails(e)
  PROVE  RioInv'
<1>1. Stored(e) \in Nat /\ call[e].n \in Nat
  BY LenProperties DEF Stored, RioInv, Calls, Text
<1>2. CASE Fill(e)
  <2>1. UNCHANGED call
    BY <1>2 DEF Fill, FillAnyTime
  <2> QED
    BY <2>1, <1>2, FillKept DEF RioInv
<1>3. CASE Interrupted(e)
  BY <1>3, EmptyKept DEF RioInv, Interrupted
<1>4. CASE EndOfFile(e)
  <2>1. Kept'
    BY <1>4, EmptyKept DEF RioInv, EndOfFile
  <2>2. PICK r \in Int : Return(e, r)
    BY <1>1, <1>4 DEF EndOfFile
  <2> QED
    BY <2>1, <2>2, ReturnTyped DEF RioInv
<1>5. CASE Copy(e)
  BY <1>5, CopyKept DEF RioInv
<1>6. CASE Done(e)
  <2>1. Kept'
    BY <1>6, SameKept DEF RioInv, Done
  <2>2. PICK r \in Int : Return(e, r)
    BY <1>1, <1>6 DEF Done, LineCount
  <2> QED
    BY <2>1, <2>2, ReturnTyped DEF RioInv
<1>7. CASE ReadFails(e)
  <2>1. /\ Return(e, -1) /\ rio[e].cnt <= 0 /\ rio' = [rio EXCEPT ![e].cnt = -1]
        /\ UNCHANGED <<file, stream, taken>>
    BY <1>7 DEF ReadFails
  <2>2. call' \in [Ends -> Calls]
    BY <2>1, ReturnTyped DEF RioInv
  <2>3. Kept'
    BY <2>1, EmptyKept DEF RioInv
  <2> QED
    BY <2>2, <2>3 DEF RioInv
<1> QED
  BY <1>2, <1>3, <1>4, <1>5, <1>6, <1>7 DEF ReadStep

\* One write(2) of rio_writen, from e to f.
LEMMA WriteKept ==
  ASSUME RioInv, NEW e \in Ends, NEW f \in Ends, Write(e, f)
  PROVE  RioInv'
<1>1. PICK k \in 1 .. Len(call[e].out) :
        /\ file' = [file EXCEPT ![f] = file[f] \o SubSeq(call[e].out, 1, k)]
        /\ stream' = [stream EXCEPT ![f] = stream[f] \o SubSeq(call[e].out, 1, k)]
        /\ call' = [call EXCEPT ![e].out = SubSeq(call[e].out, k + 1, Len(call[e].out))]
  BY DEF Write
<1>2. call[e].out \in Text /\ Len(call[e].out) \in Nat
  BY LenProperties DEF RioInv, Calls, Text
<1>3. /\ SubSeq(call[e].out, 1, k) \in Text
      /\ SubSeq(call[e].out, k + 1, Len(call[e].out)) \in Text
  <2>1. /\ 1 \in Nat \ {0} /\ k + 1 \in Nat \ {0} /\ k \in Int /\ k <= Len(call[e].out)
        /\ Len(call[e].out) \in Int /\ Len(call[e].out) <= Len(call[e].out)
    BY <1>2
  <2>2. SubSeq(call[e].out, 1, k) \in Text
    BY <2>1, <1>2, PartOfText
  <2>3. SubSeq(call[e].out, k + 1, Len(call[e].out)) \in Text
    BY <2>1, <1>2, PartOfText
  <2> QED
    BY <2>2, <2>3
<1>4. Kept'
  BY <1>1, <1>3, ArrivedKept DEF RioInv, Write
<1>5. call' \in [Ends -> Calls]
  BY <1>1, <1>3 DEF RioInv, Calls
<1> QED
  BY <1>4, <1>5 DEF RioInv

-----------------------------------------------------------------------------
LEMMA RioNextKept == RioInv /\ [RioNext]_riovars => RioInv'
<1> SUFFICES ASSUME RioInv, [RioNext]_riovars PROVE RioInv'
  OBVIOUS
<1>1. CASE RioNext
  <2>1. PICK e \in Ends : AnyStep(e)
    BY <1>1 DEF RioNext
  <2>2. ASSUME NEW k \in {"line", "block"}, NEW m \in Nat \ {0}, Read(e, k, m)
        PROVE  RioInv'
    BY <2>2, ReadTyped, SameKept DEF RioInv, Read
  <2>3. CASE ReadStep(e) \/ ReadFails(e)
    BY <2>3, ReadStepKept
  <2>4. CASE TakeResult(e)
    <3>1. NoCall \in Calls
      BY Nothing DEF NoCall, Calls
    <3> QED
      BY <3>1, <2>4, SameKept DEF RioInv, TakeResult
  <2>5. ASSUME NEW b \in Bytes, Arrive(e, b)
        PROVE  RioInv'
    <3>1. <<b>> \in Text
      BY DEF Text
    <3>2. \A s \in Text : Append(s, b) = s \o <<b>>
      BY AppendIsConcat DEF Text
    <3>3. /\ file' = [file EXCEPT ![e] = file[e] \o <<b>>]
          /\ stream' = [stream EXCEPT ![e] = stream[e] \o <<b>>]
      BY <2>5, <3>2 DEF Arrive, RioInv, Kept, Streams
    <3>4. UNCHANGED <<rio, taken, call>>
      BY <2>5 DEF Arrive
    <3> QED
      BY <3>1, <3>3, <3>4, ArrivedKept DEF RioInv
  <2>6. CASE CloseOther(e)
    BY <2>6, SameKept DEF RioInv, CloseOther
  <2> QED
    BY <2>1, <2>2, <2>3, <2>4, <2>5, <2>6 DEF AnyStep
<1>2. CASE UNCHANGED riovars
  BY <1>2, SameKept DEF RioInv, riovars
<1> QED
  BY <1>1, <1>2

\* Any callers that read lines and blocks of any size in turn, from a stream
\* that arrives in any pieces, take its bytes in order, each of them once
\* (rio_read, rio_readnb and rio_readlineb of csapp.c).
THEOREM BytesInOrder == RioSpec => []StreamInOrder
<1>1. RioInit => RioInv
  BY InitKept
<1>2. RioInv /\ [RioNext]_riovars => RioInv'
  BY RioNextKept
<1>3. RioInv => StreamInOrder
  BY DEF RioInv, Kept
<1> QED
  BY <1>1, <1>2, <1>3, PTL DEF RioSpec

-----------------------------------------------------------------------------
(* The echo server and its clients.                                        *)

\* A result counts at most the NUL behind what has been stored.
ReturnsFit == \A e \in Ends : call[e].pc = "returned" => call[e].ret <= Stored(e) + 1

InputTyped == stdin \in [Conns -> Text]

EInv == RioInv /\ ReturnsFit /\ InputTyped

-----------------------------------------------------------------------------
(* Parts of buffers.                                                       *)

LEMMA LeastPosition ==
  ASSUME NEW I \in SUBSET Nat, I # {}
  PROVE  Min(I) \in I /\ \A i \in I : Min(I) <= i
<1>1. \E i \in I : \A j \in I : i <= j
  BY LeastNatural
<1> QED
  BY <1>1 DEF Min

LEMMA CStringText ==
  ASSUME NEW s \in Text
  PROVE  /\ CString(s) \in Text /\ Len(CString(s)) <= Len(s) /\ Len(CString(s)) \in Nat
         /\ \A i \in 1 .. Len(CString(s)) : CString(s)[i] = s[i] /\ s[i] # "NUL"
<1> DEFINE I == {i \in 1 .. Len(s) : s[i] = "NUL"}
<1>1. Len(s) \in Nat
  BY LenProperties DEF Text
<1>2. SelectInSeq(s, LAMBDA b : b = "NUL") = IF I # {} THEN Min(I) ELSE 0
  BY DEF SelectInSeq
<1>3. CASE I = {}
  BY <1>1, <1>2, <1>3 DEF CString
<1>4. CASE I # {}
  <2> DEFINE n == Min(I)
  <2>1. n \in 1 .. Len(s) /\ \A i \in 1 .. n - 1 : s[i] # "NUL"
    <3>1. I \in SUBSET Nat
      BY <1>1
    <3>2. Min(I) \in I /\ \A i \in I : Min(I) <= i
      BY <1>4, <3>1, LeastPosition
    <3>3. n \in I /\ \A i \in I : n <= i
      BY <3>2
    <3> HIDE DEF n
    <3>4. ASSUME NEW i \in 1 .. n - 1 PROVE s[i] # "NUL"
      <4>1. i \in 1 .. Len(s) /\ ~(n <= i)
        BY <1>1, <3>3
      <4> QED
        BY <3>3, <4>1
    <3> QED
      BY <3>3, <3>4
  <2>7. SelectInSeq(s, LAMBDA b : b = "NUL") = n /\ n # 0
    BY <1>2, <1>4, <2>1
  <2> HIDE DEF n
  <2>2. CString(s) = SubSeq(s, 1, n - 1)
    BY <2>7 DEF CString
  <2>3. n - 1 \in 0 .. Len(s) /\ n - 1 \in Nat /\ n - 1 <= Len(s)
    BY <1>1, <2>1
  <2>4. \A i \in 1 .. n - 1 : s[i] \in Bytes
    BY <1>1, <2>1, LenProperties DEF Text
  <2>5. CString(s) \in Text
    BY <2>2, <2>3, PartOfText
  <2>6. Len(CString(s)) = n - 1 /\ \A i \in 1 .. n - 1 : CString(s)[i] = s[i]
    <3>1. Len(SubSeq(s, 1, n - 1)) = IF 1 <= n - 1 THEN n - 1 ELSE 0
      BY <2>3, <2>4, SubSeqProperties
    <3>2. \A i \in 1 .. n - 1 : SubSeq(s, 1, n - 1)[i] = s[i]
      <4>1. n - 1 - 1 + 1 = n - 1 /\ \A i \in 1 .. n - 1 : 1 + i - 1 = i
        BY <2>3
      <4>2. \A i \in 1 .. n - 1 - 1 + 1 : SubSeq(s, 1, n - 1)[i] = s[1 + i - 1]
        BY <2>3, <2>4, SubSeqProperties
      <4> QED
        BY <4>1, <4>2
    <3> QED
      BY <2>2, <2>3, <3>1, <3>2
  <2> QED
    BY <2>1, <2>3, <2>5, <2>6
<1> QED
  BY <1>3, <1>4

LEMMA UpperFacts ==
  /\ DOMAIN Upper = Letters \cup {"\n"} /\ Upper["\n"] = "\n" /\ "\n" \notin Letters
  /\ \A b \in Letters : Upper[b] \in Bytes \ {"\n", "NUL"}
  /\ \A b \in DOMAIN Upper : b \in Bytes \ {"NUL"} /\ Upper[b] \in Bytes
<1>1. DOMAIN Upper = Letters \cup {"\n"} /\ Upper["\n"] = "\n"
  BY DEF Upper
<1>2. "\n" \in Bytes \ {"NUL"}
  BY RioAssumption
<1> QED
  BY <1>1, <1>2, EchoAssumption

LEMMA UpperCaseText ==
  ASSUME NEW s \in Text
  PROVE  UpperCase(s) \in Text /\ Len(UpperCase(s)) = Len(s)
<1>1. s \in [1 .. Len(s) -> Bytes] /\ Len(s) \in Nat /\ DOMAIN s = 1 .. Len(s)
  BY LenProperties DEF Text
<1>2. UpperCase(s) \in [1 .. Len(s) -> Bytes]
  BY <1>1, UpperFacts DEF UpperCase
<1> QED
  BY <1>1, <1>2 DEF Text

LEMMA UpperText ==
  ASSUME NEW s \in Text
  PROVE  upper_case(s) \in Text /\ Len(upper_case(s)) = Len(s)
<1> DEFINE a == UpperCase(CString(s))
           k == Len(CString(s))
           b == SubSeq(s, k + 1, Len(s))
<1>1. Len(s) \in Nat /\ k \in Nat /\ k <= Len(s)
  BY CStringText, LenProperties DEF Text
<1>2. a \in Text /\ Len(a) = k
  BY CStringText, UpperCaseText
<1> HIDE DEF a, k
<1>3. b \in Text
  <2>1. k + 1 \in Nat \ {0} /\ Len(s) \in Int /\ Len(s) <= Len(s)
    BY <1>1
  <2> QED
    BY <2>1, PartOfText
<1>4. Len(b) = Len(s) - k
  <2>1. \A i \in k + 1 .. Len(s) : s[i] \in Bytes
    BY <1>1, LenProperties DEF Text
  <2>2. Len(b) = IF k + 1 <= Len(s) THEN Len(s) - (k + 1) + 1 ELSE 0
    BY <1>1, <2>1, SubSeqProperties
  <2> QED
    BY <1>1, <2>2
<1> HIDE DEF b
<1>5. a \o b \in Text /\ Len(a \o b) = Len(a) + Len(b)
  BY <1>2, <1>3, ConcatProperties DEF Text
<1>6. upper_case(s) = a \o b
  BY DEF upper_case, a, k, b
<1>7. Len(a) + Len(b) = Len(s)
  BY <1>1, <1>2, <1>4
<1> QED
  BY <1>5, <1>6, <1>7

LEMMA NextLineText ==
  ASSUME NEW s \in Text
  PROVE  NextLine(s) \in Text /\ Len(NextLine(s)) \in Nat
<1> DEFINE I == {i \in 1 .. Len(s) : s[i] = "\n"}
           nl == SelectInSeq(s, LAMBDA b : b = "\n")
           whole == IF nl = 0 THEN Len(s) ELSE nl
           n == IF whole < MAXLINE THEN whole ELSE MAXLINE - 1
<1>1. Len(s) \in Nat
  BY LenProperties DEF Text
<1>2. nl = IF I # {} THEN Min(I) ELSE 0
  BY DEF SelectInSeq
<1>3. whole \in 0 .. Len(s)
  <2>1. CASE I = {}
    BY <1>1, <1>2, <2>1
  <2>2. CASE I # {}
    <3>1. I \in SUBSET Nat
      BY <1>1
    <3>2. Min(I) \in I
      BY <2>2, <3>1, LeastPosition
    <3> QED
      BY <1>1, <1>2, <2>2, <3>2
  <2> QED
    BY <2>1, <2>2
<1>4. NextLine(s) = SubSeq(s, 1, n)
  BY DEF NextLine
<1> HIDE DEF whole
<1>5. n \in Int /\ n <= Len(s)
  BY <1>1, <1>3, EchoAssumption
<1> HIDE DEF n
<1>6. SubSeq(s, 1, n) \in Text
  BY <1>5, PartOfText
<1> QED
  BY <1>4, <1>6, LenProperties DEF Text

-----------------------------------------------------------------------------
(* The calls of an end.                                                    *)

LEMMA StoredNat ==
  ASSUME RioInv, NEW e \in Ends
  PROVE  Stored(e) \in Nat
BY LenProperties DEF RioInv, Calls, Stored, Text

\* The reads of Rio return no more than the loop index.
LEMMA ReadStepFits ==
  ASSUME RioInv, ReturnsFit, NEW e \in Ends, ReadStep(e) \/ ReadFails(e)
  PROVE  ReturnsFit'
<1>1. call \in [Ends -> Calls] /\ Stored(e) \in Nat /\ call[e].n \in Nat
  BY StoredNat DEF RioInv, Calls
<1>2. ASSUME NEW r \in Int, r <= Stored(e) + 1, Return(e, r)
      PROVE  ReturnsFit'
  <2>1. ASSUME NEW d \in Ends, call'[d].pc = "returned"
        PROVE  call'[d].ret <= Len(call'[d].usrbuf) + 1
    <3>1. CASE d = e
      BY <1>1, <1>2, <3>1 DEF Return, Calls, Stored
    <3>2. CASE d # e
      BY <1>1, <1>2, <2>1, <3>2 DEF Return, ReturnsFit, Stored
    <3> QED
      BY <3>1, <3>2
  <2> QED
    BY <2>1 DEF ReturnsFit, Stored
<1>3. CASE Fill(e) \/ Interrupted(e)
  BY <1>3 DEF Fill, FillAnyTime, Interrupted, ReturnsFit, Stored
<1>4. CASE EndOfFile(e)
  BY <1>1, <1>2, <1>4 DEF EndOfFile
<1>5. CASE Copy(e)
  <2>1. call[e].pc = "read"
    BY <1>5 DEF Copy, Reading
  <2>2. /\ call'[e].pc = "read" /\ \A d \in Ends : d # e => call'[d] = call[d]
    BY <1>1, <1>5, <2>1 DEF Copy, Calls
  <2> QED
    BY <2>2 DEF ReturnsFit, Stored
<1>6. CASE Done(e)
  <2>1. (IF call[e].kind = "line" THEN LineCount(e) ELSE Stored(e)) \in Int
    BY <1>1 DEF LineCount
  <2>2. (IF call[e].kind = "line" THEN LineCount(e) ELSE Stored(e)) <= Stored(e) + 1
    BY <1>1, <1>6 DEF Done, LineCount, Satisfied
  <2> QED
    BY <1>2, <1>6, <2>1, <2>2 DEF Done
<1>7. CASE ReadFails(e)
  BY <1>1, <1>2, <1>7 DEF ReadFails
<1> QED
  BY <1>3, <1>4, <1>5, <1>6, <1>7 DEF ReadStep

\* A call is taken back, begun, or given something to write.
LEMMA NewCallKept ==
  ASSUME RioInv, ReturnsFit, NEW e \in Ends, NEW r \in Calls,
         r.pc = "returned" => r.ret <= Len(r.usrbuf) + 1,
         call' = [call EXCEPT ![e] = r], UNCHANGED <<file, rio, stream, taken>>
  PROVE  RioInv' /\ ReturnsFit'
<1>1. call'[e] = r /\ \A d \in Ends : d # e => call'[d] = call[d]
  BY DEF RioInv
<1>2. RioInv'
  BY SameKept DEF RioInv
<1>3. ReturnsFit'
  BY <1>1 DEF ReturnsFit, Stored
<1> QED
  BY <1>2, <1>3

LEMMA WriteFits ==
  ASSUME RioInv, ReturnsFit, NEW e \in Ends, NEW f \in Ends, Write(e, f)
  PROVE  ReturnsFit'
<1>1. call[e].pc = "write" /\ call \in [Ends -> Calls]
  BY DEF Write, RioInv
<1>2. call'[e].pc = "write" /\ \A d \in Ends : d # e => call'[d] = call[d]
  BY <1>1 DEF Write, Calls
<1> QED
  BY <1>2 DEF ReturnsFit, Stored

\* Begun calls, and calls that write.
LEMMA FreshCalls ==
  /\ NoCall \in Calls /\ NoCall.pc = "idle"
  /\ \A k \in {"line", "block"}, m \in Nat :
       [NoCall EXCEPT !.pc = "read", !.kind = k, !.n = m] \in Calls
  /\ \A t \in Text : [NoCall EXCEPT !.pc = "write", !.out = t] \in Calls
<1>1. NoCall \in Calls
  BY Nothing DEF NoCall, Calls
<1> QED
  BY <1>1 DEF Calls, NoCall

-----------------------------------------------------------------------------
(* Steps of the server and of the clients.                                 *)

LEMMA EchoInit == Init => EInv
<1> SUFFICES ASSUME Init PROVE EInv
  OBVIOUS
<1>1. RioInv
  BY InitKept DEF Init
<1>2. ReturnsFit
  BY DEF Init, RioInit, ReturnsFit, NoCall
<1>3. BoundedSeq(Letters \cup {"\n", "NUL"}, MaxInput) \subseteq Text
  <2>1. Letters \cup {"\n", "NUL"} \subseteq Bytes
    BY RioAssumption, UpperFacts
  <2>2. \A n \in 0 .. MaxInput : [1 .. n -> Letters \cup {"\n", "NUL"}] \subseteq Text
    BY <2>1, EchoAssumption DEF Text
  <2> QED
    BY <2>2 DEF BoundedSeq, SeqOf
<1>4. InputTyped
  BY <1>3 DEF Init, InputTyped
<1> QED
  BY <1>1, <1>2, <1>4 DEF EInv

\* The end of a process, and what touches neither calls nor input.
LEMMA OtherKept ==
  ASSUME EInv, UNCHANGED <<file, rio, call, stream, taken, stdin>>
  PROVE  EInv'
<1>1. RioInv'
  BY SameKept DEF EInv, RioInv
<1> QED
  BY <1>1 DEF EInv, ReturnsFit, InputTyped, Stored

LEMMA ServerStepKept ==
  ASSUME EInv, NEW c \in Conns,
         Connect(c) \/ Accept(c) \/ EchoRead(c) \/ EchoLine(c) \/ EchoEnds(c) \/ EchoFails(c)
  PROVE  EInv'
<1> USE DEF EInv
<1>1. Far(c) \in Ends
  BY EchoAssumption DEF Far
<1>2. CASE Connect(c) \/ Accept(c) \/ EchoEnds(c) \/ EchoFails(c)
  BY <1>2, OtherKept DEF Connect, Accept, EchoEnds, EchoFails, ServerEnds, riovars
<1>3. CASE EchoRead(c)
  <2>1. /\ call' = [call EXCEPT ![Far(c)] = [NoCall EXCEPT !.pc = "read", !.kind = "line",
                                                          !.n = MAXLINE]]
        /\ UNCHANGED <<file, rio, stream, taken, stdin>>
    BY <1>3 DEF EchoRead, Read
  <2>2. /\ [NoCall EXCEPT !.pc = "read", !.kind = "line", !.n = MAXLINE] \in Calls
        /\ [NoCall EXCEPT !.pc = "read", !.kind = "line", !.n = MAXLINE].pc = "read"
    BY FreshCalls, EchoAssumption DEF NoCall
  <2>3. RioInv' /\ ReturnsFit'
    BY <1>1, <2>1, <2>2, NewCallKept
  <2> QED
    BY <2>1, <2>3 DEF InputTyped
<1>4. CASE EchoLine(c)
  <2> DEFINE r == call[Far(c)]
             t == SubSeq(upper_case(Buffer(Far(c))), 1, r.ret)
             w == [NoCall EXCEPT !.pc = "write", !.out = t]
  <2>1. call' = [call EXCEPT ![Far(c)] = w] /\ UNCHANGED <<file, rio, stream, taken, stdin>>
    BY <1>4 DEF EchoLine, ends
  <2>2. r.pc = "returned" /\ r.ret \in Int /\ r.usrbuf \in Text /\ r.ret <= Len(r.usrbuf) + 1
    BY <1>1, <1>4 DEF EchoLine, ReturnsFit, Stored, RioInv, Calls
  <2>3. Buffer(Far(c)) \in Text /\ Len(Buffer(Far(c))) = Len(r.usrbuf) + 1
    BY <2>2, RioAssumption DEF Buffer, Text
  <2>4. t \in Text
    <3>1. /\ upper_case(Buffer(Far(c))) \in Text
          /\ Len(upper_case(Buffer(Far(c)))) = Len(r.usrbuf) + 1
      BY <2>3, UpperText
    <3>2. r.ret <= Len(upper_case(Buffer(Far(c))))
      BY <2>2, <3>1
    <3> QED
      BY <2>2, <3>1, <3>2, PartOfText
  <2> HIDE DEF t
  <2>5. w \in Calls /\ w.pc = "write"
    BY <2>4, FreshCalls DEF NoCall
  <2>6. RioInv' /\ ReturnsFit'
    <3> HIDE DEF w
    <3> QED
      BY <1>1, <2>1, <2>5, NewCallKept
  <2> QED
    BY <2>1, <2>6 DEF InputTyped
<1> QED
  BY <1>2, <1>3, <1>4

LEMMA ClientStepKept ==
  ASSUME EInv, NEW c \in Conns,
         \/ Refused(c) \/ Prompt(c) \/ ClientCloses(c) \/ Sent(c) \/ Show(c)
         \/ ClientFails(c) \/ Kill(c)
  PROVE  EInv'
<1> USE DEF EInv
<1>1. Near(c) \in Ends
  BY EchoAssumption DEF Near
<1>2. CASE Refused(c) \/ ClientCloses(c) \/ ClientFails(c) \/ Kill(c)
  BY <1>2, OtherKept DEF Refused, ClientCloses, ClientFails, Kill, ClientEnds
<1>3. CASE Prompt(c)
  <2> DEFINE l == NextLine(stdin[c])
             w == [NoCall EXCEPT !.pc = "write", !.out = CString(l)]
  <2>1. /\ call' = [call EXCEPT ![Near(c)] = w]
        /\ stdin' = [stdin EXCEPT ![c] = SubSeq(stdin[c], Len(l) + 1, Len(stdin[c]))]
        /\ UNCHANGED <<file, rio, stream, taken>>
    BY <1>3 DEF Prompt, ends
  <2>2. stdin[c] \in Text /\ l \in Text /\ Len(l) \in Nat
    BY NextLineText DEF InputTyped
  <2> HIDE DEF l
  <2>3. SubSeq(stdin[c], Len(l) + 1, Len(stdin[c])) \in Text
    <3>1. Len(stdin[c]) \in Nat
      BY <2>2, LenProperties DEF Text
    <3>2. /\ Len(l) + 1 \in Nat \ {0} /\ Len(stdin[c]) \in Int
          /\ Len(stdin[c]) <= Len(stdin[c])
      BY <2>2, <3>1
    <3> QED
      BY <2>2, <3>2, PartOfText
  <2>4. w \in Calls /\ w.pc = "write"
    BY <2>2, CStringText, FreshCalls DEF NoCall
  <2>5. RioInv' /\ ReturnsFit'
    <3> HIDE DEF w
    <3> QED
      BY <1>1, <2>1, <2>4, NewCallKept
  <2> QED
    BY <2>1, <2>3, <2>5 DEF InputTyped
<1>4. CASE Sent(c)
  <2>1. /\ call' = [call EXCEPT ![Near(c)] = [NoCall EXCEPT !.pc = "read", !.kind = "line",
                                                           !.n = MAXLINE]]
        /\ UNCHANGED <<file, rio, stream, taken, stdin>>
    BY <1>4 DEF Sent, Read
  <2>2. /\ [NoCall EXCEPT !.pc = "read", !.kind = "line", !.n = MAXLINE] \in Calls
        /\ [NoCall EXCEPT !.pc = "read", !.kind = "line", !.n = MAXLINE].pc = "read"
    BY FreshCalls, EchoAssumption DEF NoCall
  <2>3. RioInv' /\ ReturnsFit'
    BY <1>1, <2>1, <2>2, NewCallKept
  <2> QED
    BY <2>1, <2>3 DEF InputTyped
<1>5. CASE Show(c)
  <2>1. call' = [call EXCEPT ![Near(c)] = NoCall] /\ UNCHANGED <<file, rio, stream, taken, stdin>>
    BY <1>5 DEF Show, ends
  <2>2. RioInv' /\ ReturnsFit'
    BY <1>1, <2>1, FreshCalls, NewCallKept
  <2> QED
    BY <2>1, <2>2 DEF InputTyped
<1> QED
  BY <1>2, <1>3, <1>4, <1>5

LEMMA EndStepKept ==
  ASSUME EInv, NEW e \in Ends,
         Transfer(e) \/ ReadError(e) \/ WriteEnds(e) \/ WriteLost(e) \/ WriteKills(e)
  PROVE  EInv'
<1> USE DEF EInv
<1>1. Peer(e) \in Ends
  BY EchoAssumption DEF Peer
<1>2. CASE Transfer(e) \/ ReadError(e)
  <2>1. UNCHANGED stdin
    BY <1>2 DEF Transfer, ReadError
  <2>2. CASE ReadStep(e) \/ ReadFails(e)
    BY <2>1, <2>2, ReadStepKept, ReadStepFits DEF InputTyped
  <2>3. CASE Write(e, Peer(e))
    BY <1>1, <2>1, <2>3, WriteKept, WriteFits DEF InputTyped
  <2> QED
    BY <1>2, <2>2, <2>3 DEF Transfer, ReadError
<1>3. CASE WriteEnds(e)
  <2>1. call' = [call EXCEPT ![e] = NoCall] /\ UNCHANGED <<file, rio, stream, taken, stdin>>
    BY <1>3 DEF WriteEnds, ends
  <2>2. RioInv' /\ ReturnsFit'
    BY <2>1, FreshCalls, NewCallKept
  <2> QED
    BY <2>1, <2>2 DEF InputTyped
<1>4. CASE WriteLost(e)
  <2> DEFINE w == [call[e] EXCEPT !.out = <<>>]
  <2>1. call' = [call EXCEPT ![e] = w] /\ UNCHANGED <<file, rio, stream, taken, stdin>>
    BY <1>4 DEF WriteLost, ends
  <2>2. w \in Calls /\ w.pc = "write"
    BY <1>4, Nothing DEF WriteLost, RioInv, Calls
  <2>3. RioInv' /\ ReturnsFit'
    <3> HIDE DEF w
    <3> QED
      BY <2>1, <2>2, NewCallKept
  <2> QED
    BY <2>1, <2>3 DEF InputTyped
<1>5. CASE WriteKills(e)
  BY <1>5, OtherKept DEF WriteKills, ServerEnds, ClientEnds
<1> QED
  BY <1>2, <1>3, <1>4, <1>5

LEMMA EchoNext == EInv /\ [Next]_echovars => EInv'
<1> SUFFICES ASSUME EInv, [Next]_echovars PROVE EInv'
  OBVIOUS
<1>1. CASE UNCHANGED echovars
  BY <1>1, OtherKept DEF echovars, riovars
<1>2. CASE MainFails
  BY <1>2, OtherKept DEF MainFails, ServerEnds
<1> QED
  BY <1>1, <1>2, ServerStepKept, ClientStepKept, EndStepKept DEF Next

\* On every connection of the echo server the bytes that have been sent are
\* taken in order, each of them once, whichever reads fail and whoever is
\* killed (rio_readlineb and rio_writen, as echo.c and echoclient.c call them).
THEOREM EchoBytesInOrder == Spec => []StreamInOrder
<1>1. EInv => StreamInOrder
  BY DEF EInv, RioInv, Kept
<1> QED
  BY <1>1, EchoInit, EchoNext, PTL DEF Spec

-----------------------------------------------------------------------------
(* What is left without NULs.                                              *)

\* The fold of WithoutNuls, given those inside t.
Sifted(s, h, t) ==
  IF t = {} THEN <<>>
  ELSE LET rest == h[t \ {Max(t)}]
       IN IF s[Max(t)] = "NUL" THEN rest ELSE Append(rest, s[Max(t)])

Sieve(s) == CHOOSE h : h = [t \in SUBSET DOMAIN s |-> Sifted(s, h, t)]

\* Of the first m bytes.
Upto(s, m) == Sieve(s)[1 .. m]

LEMMA WithoutNulsIs == ASSUME NEW s PROVE WithoutNuls(s) = Sieve(s)[DOMAIN s]
BY DEF WithoutNuls, FoldLeft, MapThenFoldSet, Sieve, Sifted

LEMMA GreatestOf ==
  ASSUME NEW n \in Nat, NEW s \in SUBSET (1 .. n), s # {}
  PROVE  Max(s) \in s /\ \A x \in s : Max(s) >= x
BY GreatestNatural DEF Max

LEMMA AppendText ==
  ASSUME NEW s \in Text, NEW b \in Bytes
  PROVE  /\ Append(s, b) \in Text /\ Append(s, b) = s \o <<b>>
         /\ Len(Append(s, b)) = Len(s) + 1 /\ Append(s, b)[Len(s) + 1] = b
         /\ \A i \in 1 .. Len(s) : Append(s, b)[i] = s[i]
<1>1. <<b>> \in Text /\ Len(<<b>>) = 1 /\ <<b>>[1] = b
  BY DEF Text
<1>2. Len(s) \in Nat
  BY LenProperties DEF Text
<1> QED
  BY <1>1, <1>2 DEF Text

LEMMA SieveExists ==
  ASSUME NEW s \in Text
  PROVE  Sieve(s) = [t \in SUBSET DOMAIN s |-> Sifted(s, Sieve(s), t)]
<1> DEFINE S == DOMAIN s
           V == Text
           F == [SUBSET S -> V]
           G == [g \in F |-> [t \in SUBSET S |-> Sifted(s, g, t)]]
<1>1. Len(s) \in Nat /\ S = 1 .. Len(s) /\ \A k \in S : s[k] \in Bytes
  BY LenProperties DEF Text
<1>2. IsFiniteSet(S)
  BY <1>1, FS_Interval
<1>3. ASSUME NEW t \in SUBSET S, t # {}
      PROVE  /\ Max(t) \in S /\ t \ {Max(t)} \in SUBSET t /\ t \ {Max(t)} \in SUBSET S
             /\ t \ {Max(t)} # t
  BY <1>1, <1>3, GreatestOf
<1> HIDE DEF S
<1>4. ASSUME NEW g \in F, NEW t \in SUBSET S
      PROVE  Sifted(s, g, t) \in V
  <2>1. CASE t = {}
    BY <2>1, Nothing DEF Sifted
  <2>2. CASE t # {}
    <3>1. g[t \ {Max(t)}] \in Text /\ s[Max(t)] \in Bytes
      BY <1>1, <1>3, <2>2
    <3>2. Append(g[t \ {Max(t)}], s[Max(t)]) \in Text
      BY <3>1, AppendText
    <3> QED
      BY <2>2, <3>1, <3>2 DEF Sifted
  <2> QED
    BY <2>1, <2>2
<1>5. G \in [F -> F]
  BY <1>4
<1>6. ASSUME NEW g \in F, NEW h \in F, NEW t \in SUBSET S,
             \A r \in SUBSET t : r # t => g[r] = h[r]
      PROVE  G[g][t] = G[h][t]
  <2>1. Sifted(s, g, t) = Sifted(s, h, t)
    BY <1>3, <1>6 DEF Sifted
  <2> QED
    BY <2>1
<1>7. \E g \in F : g = G[g]
  <2>1. LooksInside(G, S, F)
    <3> HIDE DEF G, F
    <3> QED
      BY <1>5, <1>6 DEF LooksInside
  <2>2. V # {}
    BY Nothing
  <2>3. F = [SUBSET S -> V]
    OBVIOUS
  <2> HIDE DEF G, F, V
  <2> QED
    BY <1>2, <2>1, <2>2, <2>3, FiniteRecursion
<1>8. PICK g \in F : g = G[g]
  BY <1>7
<1>9. g = [t \in SUBSET S |-> Sifted(s, g, t)]
  BY <1>8
<1> QED
  BY <1>9 DEF Sieve, S

\* The fold proceeds byte by byte.
LEMMA SieveSteps ==
  ASSUME NEW s \in Text
  PROVE  /\ WithoutNuls(s) = Upto(s, Len(s))
         /\ Upto(s, 0) = <<>>
         /\ \A m \in 0 .. Len(s) - 1 :
              Upto(s, m + 1) = IF s[m + 1] = "NUL" THEN Upto(s, m)
                               ELSE Append(Upto(s, m), s[m + 1])
         /\ \A m \in 0 .. Len(s) : Upto(s, m) \in Text
<1> DEFINE R == Sieve(s)
           n == Len(s)
<1>1. n \in Nat /\ DOMAIN s = 1 .. n /\ \A k \in 1 .. n : s[k] \in Bytes
  BY LenProperties DEF Text
<1>2. \A t \in SUBSET (1 .. n) : R[t] = Sifted(s, R, t)
  <2>1. R = [t \in SUBSET (1 .. n) |-> Sifted(s, R, t)]
    BY <1>1, SieveExists
  <2> HIDE DEF R
  <2> QED
    BY <2>1
<1> HIDE DEF R, n
<1>3. R[1 .. 0] = <<>>
  <2>1. 1 .. 0 = {} /\ 1 .. 0 \in SUBSET (1 .. n)
    OBVIOUS
  <2> QED
    BY <1>2, <2>1 DEF Sifted
<1>4. ASSUME NEW m \in 0 .. n - 1
      PROVE  R[1 .. m + 1] = IF s[m + 1] = "NUL" THEN R[1 .. m] ELSE Append(R[1 .. m], s[m + 1])
  <2> DEFINE t == 1 .. m + 1
  <2>1. t \in SUBSET (1 .. n) /\ t # {} /\ m + 1 \in t /\ t \ {m + 1} = 1 .. m /\ m \in Nat
    <3>1. m \in Nat /\ m + 1 <= n /\ m + 1 \in t
      BY <1>1
    <3>2. t \in SUBSET (1 .. n)
      BY <1>1, <3>1
    <3>3. t \ {m + 1} = 1 .. m
      BY <3>1
    <3> QED
      BY <3>1, <3>2, <3>3
  <2>2. Max(t) = m + 1
    <3>1. Max(t) \in t /\ \A x \in t : Max(t) >= x
      BY <1>1, <2>1, GreatestOf
    <3> HIDE DEF t
    <3>2. Max(t) \in 1 .. m + 1 /\ Max(t) >= m + 1
      BY <2>1, <3>1 DEF t
    <3> QED
      BY <2>1, <3>2
  <2>3. R[t] = IF s[Max(t)] = "NUL" THEN R[t \ {Max(t)}] ELSE Append(R[t \ {Max(t)}], s[Max(t)])
    BY <1>2, <2>1 DEF Sifted
  <2> HIDE DEF t
  <2> QED
    BY <2>1, <2>2, <2>3 DEF t
<1> DEFINE T == {m \in Nat : m <= n => R[1 .. m] \in Text}
<1>5. 0 \in T
  BY <1>3, Nothing
<1>6. ASSUME NEW m \in T PROVE m + 1 \in T
  <2>1. ASSUME m + 1 <= n PROVE R[1 .. m + 1] \in Text
    <3>1. m \in 0 .. n - 1 /\ m + 1 \in 1 .. n /\ R[1 .. m] \in Text
      BY <1>1, <2>1
    <3>2. Append(R[1 .. m], s[m + 1]) \in Text
      BY <1>1, <3>1, AppendText
    <3> QED
      BY <1>4, <3>1, <3>2
  <2> QED
    BY <2>1
<1>7. T = Nat
  <2> HIDE DEF T
  <2>1. T \in SUBSET Nat
    BY DEF T
  <2> QED
    BY <1>5, <1>6, <2>1, InductionOnNat
<1>8. \A m \in 0 .. n : R[1 .. m] \in Text
  BY <1>1, <1>7
<1> QED
  BY <1>1, <1>3, <1>4, <1>8, WithoutNulsIs DEF Upto, R, n

LEMMA Joining ==
  ASSUME NEW s \in Text, NEW t \in Text
  PROVE  /\ s \o t \in Text /\ Len(s) \in Nat /\ Len(t) \in Nat
         /\ Len(s \o t) = Len(s) + Len(t)
         /\ \A i \in 1 .. Len(s) : (s \o t)[i] = s[i]
         /\ \A i \in 1 .. Len(t) : (s \o t)[Len(s) + i] = t[i]
<1>1. Len(s) \in Nat /\ Len(t) \in Nat
  BY LenProperties DEF Text
<1>2. /\ s \o t \in Text /\ Len(s \o t) = Len(s) + Len(t)
      /\ \A i \in 1 .. Len(s) + Len(t) :
           (s \o t)[i] = IF i <= Len(s) THEN s[i] ELSE t[i - Len(s)]
  BY ConcatProperties DEF Text
<1>3. ASSUME NEW i \in 1 .. Len(t) PROVE (s \o t)[Len(s) + i] = t[i]
  <2>1. /\ Len(s) + i \in 1 .. Len(s) + Len(t) /\ ~(Len(s) + i <= Len(s))
        /\ Len(s) + i - Len(s) = i
    BY <1>1
  <2> QED
    BY <1>2, <2>1
<1>4. ASSUME NEW i \in 1 .. Len(s) PROVE (s \o t)[i] = s[i]
  <2>1. i \in 1 .. Len(s) + Len(t) /\ i <= Len(s)
    BY <1>1
  <2> QED
    BY <1>2, <2>1
<1> QED
  BY <1>1, <1>2, <1>3, <1>4

\* Joined sequences are sieved one after the other.
LEMMA SieveFront ==
  ASSUME NEW s \in Text, NEW t \in Text
  PROVE  Upto(s \o t, Len(s)) = WithoutNuls(s)
<1> DEFINE T == {m \in Nat : m <= Len(s) => Upto(s \o t, m) = Upto(s, m)}
<1>1. /\ s \o t \in Text /\ Len(s) \in Nat /\ Len(s) <= Len(s \o t) /\ Len(s \o t) \in Nat
      /\ \A i \in 1 .. Len(s) : (s \o t)[i] = s[i]
  BY Joining
<1>2. 0 \in T
  BY <1>1, SieveSteps
<1>3. ASSUME NEW m \in T PROVE m + 1 \in T
  <2>1. ASSUME m + 1 <= Len(s) PROVE Upto(s \o t, m + 1) = Upto(s, m + 1)
    <3>1. /\ m \in 0 .. Len(s) - 1 /\ m \in 0 .. Len(s \o t) - 1
          /\ m + 1 \in 1 .. Len(s) /\ Upto(s \o t, m) = Upto(s, m)
      BY <1>1, <2>1
    <3>2. Upto(s, m + 1) = IF s[m + 1] = "NUL" THEN Upto(s, m)
                           ELSE Append(Upto(s, m), s[m + 1])
      BY <3>1, SieveSteps
    <3>3. Upto(s \o t, m + 1) = IF (s \o t)[m + 1] = "NUL" THEN Upto(s \o t, m)
                                ELSE Append(Upto(s \o t, m), (s \o t)[m + 1])
      BY <1>1, <3>1, SieveSteps
    <3> QED
      BY <1>1, <3>1, <3>2, <3>3
  <2> QED
    BY <2>1
<1>4. T = Nat
  <2> HIDE DEF T
  <2>1. T \in SUBSET Nat
    BY DEF T
  <2> QED
    BY <1>2, <1>3, <2>1, InductionOnNat
<1>5. Upto(s \o t, Len(s)) = Upto(s, Len(s))
  BY <1>1, <1>4
<1> QED
  BY <1>5, SieveSteps

LEMMA SieveBack ==
  ASSUME NEW s \in Text, NEW t \in Text
  PROVE  /\ WithoutNuls(s \o t) = WithoutNuls(s) \o WithoutNuls(t)
         /\ WithoutNuls(s) \in Text
<1> DEFINE w == WithoutNuls(s)
           T == {m \in Nat : m <= Len(t) => Upto(s \o t, Len(s) + m) = w \o Upto(t, m)}
<1>1. /\ s \o t \in Text /\ Len(s) \in Nat /\ Len(t) \in Nat /\ Len(s \o t) = Len(s) + Len(t)
      /\ \A i \in 1 .. Len(t) : (s \o t)[Len(s) + i] = t[i]
  BY Joining
<1>2. w \in Text
  <2>1. Len(s) \in 0 .. Len(s)
    BY <1>1
  <2> QED
    BY <2>1, SieveSteps
<1>3. 0 \in T
  <2>1. Upto(s \o t, Len(s)) = w /\ Upto(t, 0) = <<>>
    BY SieveFront, SieveSteps
  <2>2. w \o <<>> = w
    BY <1>2, Nothing
  <2> HIDE DEF w
  <2>3. Upto(s \o t, Len(s) + 0) = w \o Upto(t, 0)
    <3>1. Len(s) + 0 = Len(s)
      BY <1>1
    <3> QED
      BY <2>1, <2>2, <3>1
  <2> QED
    BY <2>3
<1> HIDE DEF w
<1>4. ASSUME NEW m \in T PROVE m + 1 \in T
  <2>1. ASSUME m + 1 <= Len(t) PROVE Upto(s \o t, Len(s) + (m + 1)) = w \o Upto(t, m + 1)
    <3>1. /\ m \in 0 .. Len(t) - 1 /\ m \in 0 .. Len(t) /\ m + 1 \in 1 .. Len(t)
          /\ Upto(s \o t, Len(s) + m) = w \o Upto(t, m)
      BY <1>1, <2>1
    <3>2. /\ Len(s) + m \in 0 .. Len(s \o t) - 1 /\ Len(s) + (m + 1) = (Len(s) + m) + 1
      BY <1>1, <3>1
    <3>3. Upto(t, m + 1) = IF t[m + 1] = "NUL" THEN Upto(t, m) ELSE Append(Upto(t, m), t[m + 1])
      BY <3>1, SieveSteps
    <3>4. Upto(s \o t, (Len(s) + m) + 1) =
            IF (s \o t)[(Len(s) + m) + 1] = "NUL" THEN Upto(s \o t, Len(s) + m)
            ELSE Append(Upto(s \o t, Len(s) + m), (s \o t)[(Len(s) + m) + 1])
      BY <1>1, <3>2, SieveSteps
    <3>5. (s \o t)[(Len(s) + m) + 1] = t[m + 1]
      BY <1>1, <3>1, <3>2
    <3>6. Upto(t, m) \in Text /\ t[m + 1] \in Bytes
      BY <3>1, SieveSteps, ElementOfSeq DEF Text
    <3>7. Append(w \o Upto(t, m), t[m + 1]) = w \o Append(Upto(t, m), t[m + 1])
      <4>1. w \o Upto(t, m) \in Text /\ <<t[m + 1]>> \in Text
        BY <1>2, <3>6, Joining DEF Text
      <4>2. /\ Append(w \o Upto(t, m), t[m + 1]) = (w \o Upto(t, m)) \o <<t[m + 1]>>
            /\ Append(Upto(t, m), t[m + 1]) = Upto(t, m) \o <<t[m + 1]>>
        BY <3>6, <4>1, AppendText
      <4> DEFINE u == Upto(t, m)
                 b == t[m + 1]
      <4>3. <<b>> \in Text /\ u \in Text
        BY <3>6, <4>1
      <4> HIDE DEF u, b
      <4>4. (w \o u) \o <<b>> = w \o (u \o <<b>>)
        BY <1>2, <4>3, Regrouped
      <4> QED
        BY <4>2, <4>4 DEF u, b
    <3> QED
      BY <3>1, <3>2, <3>3, <3>4, <3>5, <3>7
  <2> QED
    BY <2>1
<1>5. T = Nat
  <2> HIDE DEF T
  <2>1. T \in SUBSET Nat
    BY DEF T
  <2> QED
    BY <1>3, <1>4, <2>1, InductionOnNat
<1>6. Upto(s \o t, Len(s) + Len(t)) = w \o Upto(t, Len(t))
  BY <1>1, <1>5
<1> QED
  BY <1>1, <1>2, <1>6, SieveSteps DEF w

\* Nothing is left out, or the NUL is.
LEMMA WithoutNulsNone ==
  ASSUME NEW s \in Text, \A i \in 1 .. Len(s) : s[i] # "NUL"
  PROVE  WithoutNuls(s) = s
<1> DEFINE T == {m \in Nat : m <= Len(s) =>
                   /\ Upto(s, m) \in Text /\ Len(Upto(s, m)) = m
                   /\ \A i \in 1 .. m : Upto(s, m)[i] = s[i]}
<1>1. Len(s) \in Nat
  BY LenProperties DEF Text
<1>2. 0 \in T
  <2>1. Upto(s, 0) = <<>> /\ Len(<<>>) = 0
    BY SieveSteps
  <2> QED
    BY <2>1, Nothing
<1>3. ASSUME NEW m \in T PROVE m + 1 \in T
  <2>1. ASSUME m + 1 <= Len(s)
        PROVE  /\ Upto(s, m + 1) \in Text /\ Len(Upto(s, m + 1)) = m + 1
               /\ \A i \in 1 .. m + 1 : Upto(s, m + 1)[i] = s[i]
    <3> DEFINE u == Upto(s, m)
    <3>1. /\ m \in 0 .. Len(s) - 1 /\ m + 1 \in 1 .. Len(s)
          /\ u \in Text /\ Len(u) = m /\ \A i \in 1 .. m : u[i] = s[i]
      BY <1>1, <2>1
    <3>2. Upto(s, m + 1) = Append(u, s[m + 1])
      BY <3>1, SieveSteps
    <3>3. s[m + 1] \in Bytes
      BY <3>1, ElementOfSeq DEF Text
    <3> HIDE DEF u
    <3>4. /\ Append(u, s[m + 1]) \in Text /\ Len(Append(u, s[m + 1])) = m + 1
          /\ Append(u, s[m + 1])[m + 1] = s[m + 1]
          /\ \A i \in 1 .. m : Append(u, s[m + 1])[i] = u[i]
      BY <3>1, <3>3, AppendText
    <3>5. \A i \in 1 .. m + 1 : i \in 1 .. m \/ i = m + 1
      BY <3>1
    <3> QED
      BY <3>1, <3>2, <3>4, <3>5
  <2> QED
    BY <2>1
<1>4. T = Nat
  <2> HIDE DEF T
  <2>1. T \in SUBSET Nat
    BY DEF T
  <2> QED
    BY <1>2, <1>3, <2>1, InductionOnNat
<1>5. /\ Upto(s, Len(s)) \in Text /\ Len(Upto(s, Len(s))) = Len(s)
      /\ \A i \in 1 .. Len(s) : Upto(s, Len(s))[i] = s[i]
  BY <1>1, <1>4
<1>6. Upto(s, Len(s)) = s
  BY <1>5, SeqEqual DEF Text
<1> QED
  BY <1>6, SieveSteps

LEMMA WithoutNulsOnly == WithoutNuls(<<"NUL">>) = <<>>
<1> DEFINE s == <<"NUL">>
<1>1. s \in Text /\ Len(s) = 1 /\ s[1] = "NUL"
  BY RioAssumption DEF Text
<1> HIDE DEF s
<1>2. 0 \in 0 .. Len(s) - 1 /\ 0 + 1 = 1
  BY <1>1
<1>3. Upto(s, 0 + 1) = IF s[0 + 1] = "NUL" THEN Upto(s, 0) ELSE Append(Upto(s, 0), s[0 + 1])
  BY <1>1, <1>2, SieveSteps
<1> QED
  BY <1>1, <1>2, <1>3, SieveSteps DEF s

-----------------------------------------------------------------------------
(* Prefixes.                                                               *)

LEMMA PrefixIs ==
  ASSUME NEW s \in Text, NEW t \in Text
  PROVE  IsPrefix(s, t) <=> Len(s) <= Len(t) /\ \A i \in 1 .. Len(s) : s[i] = t[i]
<1>1. Len(s) \in Nat /\ Len(t) \in Nat
  BY LenProperties DEF Text
<1>2. SubSeq(s, 1, Len(s)) = s
  BY SubSeqFull DEF Text
<1>3. ASSUME Len(s) <= Len(t)
      PROVE  /\ SubSeq(t, 1, Len(s)) \in Text /\ Len(SubSeq(t, 1, Len(s))) = Len(s)
             /\ \A i \in 1 .. Len(s) : SubSeq(t, 1, Len(s))[i] = t[i]
  <2> DEFINE n == Len(s)
  <2>1. \A i \in 1 .. n : t[i] \in Bytes
    BY <1>1, <1>3, ElementOfSeq DEF Text
  <2>2. n \in Nat
    BY <1>1
  <2> HIDE DEF n
  <2>3. /\ SubSeq(t, 1, n) \in Seq(Bytes) /\ Len(SubSeq(t, 1, n)) = IF 1 <= n THEN n - 1 + 1 ELSE 0
        /\ \A i \in 1 .. n - 1 + 1 : SubSeq(t, 1, n)[i] = t[1 + i - 1]
    BY <2>1, <2>2, SubSeqProperties
  <2>4. /\ (IF 1 <= n THEN n - 1 + 1 ELSE 0) = n /\ n - 1 + 1 = n
        /\ \A i \in 1 .. n : 1 + i - 1 = i
    BY <2>2
  <2> QED
    BY <2>3, <2>4 DEF Text, n
<1>4. ASSUME Len(s) <= Len(t), \A i \in 1 .. Len(s) : s[i] = t[i]
      PROVE  s = SubSeq(t, 1, Len(s))
  <2> DEFINE u == SubSeq(t, 1, Len(s))
  <2>1. u \in Text /\ Len(u) = Len(s) /\ \A i \in 1 .. Len(s) : s[i] = u[i]
    BY <1>3, <1>4
  <2> HIDE DEF u
  <2>2. s = u
    BY <2>1, SeqEqual DEF Text
  <2> QED
    BY <2>2 DEF u
<1> QED
  BY <1>2, <1>3, <1>4 DEF IsPrefix

LEMMA PrefixJoined ==
  ASSUME NEW s \in Text, NEW t \in Text
  PROVE  IsPrefix(s, s \o t)
<1>1. Len(s) <= Len(s \o t) /\ s \o t \in Text /\ \A i \in 1 .. Len(s) : s[i] = (s \o t)[i]
  BY Joining
<1> QED
  BY <1>1, PrefixIs

LEMMA PrefixTrans ==
  ASSUME NEW s \in Text, NEW t \in Text, NEW u \in Text, IsPrefix(s, t), IsPrefix(t, u)
  PROVE  IsPrefix(s, u)
<1>1. Len(s) \in Nat /\ Len(t) \in Nat /\ Len(u) \in Nat
  BY LenProperties DEF Text
<1>2. /\ Len(s) <= Len(t) /\ \A i \in 1 .. Len(s) : s[i] = t[i]
      /\ Len(t) <= Len(u) /\ \A i \in 1 .. Len(t) : t[i] = u[i]
  BY PrefixIs
<1>3. Len(s) <= Len(u) /\ \A i \in 1 .. Len(s) : s[i] = u[i]
  BY <1>1, <1>2
<1> QED
  BY <1>3, PrefixIs

LEMMA PrefixLonger ==
  ASSUME NEW s \in Text, NEW t \in Text, NEW u \in Text, IsPrefix(s, t)
  PROVE  IsPrefix(s, t \o u)
BY PrefixJoined, PrefixTrans, Joined

LEMMA PrefixCancelled ==
  ASSUME NEW a \in Text, NEW s \in Text, NEW t \in Text, IsPrefix(a \o s, a \o t)
  PROVE  IsPrefix(s, t)
<1>1. /\ a \o s \in Text /\ a \o t \in Text
      /\ Len(a) \in Nat /\ Len(s) \in Nat /\ Len(t) \in Nat
      /\ Len(a \o s) = Len(a) + Len(s) /\ Len(a \o t) = Len(a) + Len(t)
      /\ \A i \in 1 .. Len(s) : (a \o s)[Len(a) + i] = s[i]
      /\ \A i \in 1 .. Len(t) : (a \o t)[Len(a) + i] = t[i]
  BY Joining
<1>2. Len(a \o s) <= Len(a \o t) /\ \A i \in 1 .. Len(a \o s) : (a \o s)[i] = (a \o t)[i]
  BY <1>1, PrefixIs
<1>3. Len(s) <= Len(t)
  BY <1>1, <1>2
<1>4. ASSUME NEW i \in 1 .. Len(s) PROVE s[i] = t[i]
  <2>1. Len(a) + i \in 1 .. Len(a \o s) /\ i \in 1 .. Len(t)
    BY <1>1, <1>3
  <2> QED
    BY <1>1, <1>2, <2>1
<1> QED
  BY <1>3, <1>4, PrefixIs

LEMMA PrefixWhole ==
  ASSUME NEW s \in Text, NEW t \in Text, IsPrefix(s, t), Len(t) <= Len(s)
  PROVE  s = t
<1>1. Len(s) \in Nat /\ Len(t) \in Nat
  BY LenProperties DEF Text
<1>2. Len(s) = Len(t) /\ \A i \in 1 .. Len(s) : s[i] = t[i]
  BY <1>1, PrefixIs
<1> QED
  BY <1>2, SeqEqual DEF Text

LEMMA PrefixCut ==
  ASSUME NEW s \in Text, NEW t \in Text, IsPrefix(s, t)
  PROVE  SubSeq(t, 1, Len(s)) = s
<1>1. SubSeq(s, 1, Len(s)) = s
  BY SubSeqFull DEF Text
<1> QED
  BY <1>1 DEF IsPrefix

LEMMA NoMore ==
  ASSUME NEW s \in Text, NEW t \in Text, IsPrefix(s \o t, s)
  PROVE  t = <<>>
<1>1. /\ Len(s) \in Nat /\ Len(t) \in Nat /\ s \o t \in Text /\ Len(s \o t) = Len(s) + Len(t)
  BY Joining
<1>2. Len(s \o t) <= Len(s)
  BY <1>1, PrefixIs
<1>3. Len(t) = 0
  BY <1>1, <1>2
<1> QED
  BY <1>3, EmptySeq DEF Text

LEMMA PrefixSame == ASSUME NEW s \in Text PROVE IsPrefix(s, s)
BY DEF IsPrefix, Text

-----------------------------------------------------------------------------
(* Upper case.                                                             *)

LEMMA UpperIs ==
  ASSUME NEW s \in Text
  PROVE  /\ UpperCase(s) \in Text /\ Len(UpperCase(s)) = Len(s) /\ Len(s) \in Nat
         /\ \A i \in 1 .. Len(s) :
              UpperCase(s)[i] = IF s[i] \in DOMAIN Upper THEN Upper[s[i]] ELSE s[i]
<1>1. DOMAIN s = 1 .. Len(s) /\ Len(s) \in Nat
  BY LenProperties DEF Text
<1> QED
  BY <1>1, UpperCaseText DEF UpperCase

LEMMA UpperNothing == UpperCase(<<>>) = <<>>
<1>1. <<>> \in Text /\ Len(<<>>) = 0
  BY Nothing
<1>2. UpperCase(<<>>) \in Text /\ Len(UpperCase(<<>>)) = 0
  BY <1>1, UpperIs
<1> QED
  BY <1>2, EmptySeq DEF Text

LEMMA UpperJoined ==
  ASSUME NEW s \in Text, NEW t \in Text
  PROVE  UpperCase(s \o t) = UpperCase(s) \o UpperCase(t)
<1> DEFINE u == s \o t
           a == UpperCase(s)
           b == UpperCase(t)
           c == UpperCase(u)
           raised(x) == IF x \in DOMAIN Upper THEN Upper[x] ELSE x
<1>1. /\ u \in Text /\ Len(s) \in Nat /\ Len(t) \in Nat /\ Len(u) = Len(s) + Len(t)
      /\ \A i \in 1 .. Len(s) : u[i] = s[i]
      /\ \A i \in 1 .. Len(t) : u[Len(s) + i] = t[i]
  BY Joining
<1> HIDE DEF u
<1>2. /\ a \in Text /\ Len(a) = Len(s) /\ \A i \in 1 .. Len(s) : a[i] = raised(s[i])
      /\ b \in Text /\ Len(b) = Len(t) /\ \A i \in 1 .. Len(t) : b[i] = raised(t[i])
      /\ c \in Text /\ Len(c) = Len(u) /\ \A i \in 1 .. Len(u) : c[i] = raised(u[i])
  BY <1>1, UpperIs
<1> HIDE DEF a, b, c, raised
<1>3. /\ a \o b \in Text /\ Len(a \o b) = Len(a) + Len(b)
      /\ \A i \in 1 .. Len(a) : (a \o b)[i] = a[i]
      /\ \A i \in 1 .. Len(b) : (a \o b)[Len(a) + i] = b[i]
  BY <1>2, Joining
<1>4. ASSUME NEW i \in 1 .. Len(c) PROVE c[i] = (a \o b)[i]
  <2>1. CASE i <= Len(s)
    <3>1. i \in 1 .. Len(s) /\ i \in 1 .. Len(u)
      BY <1>1, <1>2, <2>1
    <3> QED
      BY <1>1, <1>2, <1>3, <3>1
  <2>2. CASE ~(i <= Len(s))
    <3> DEFINE j == i - Len(s)
    <3>1. j \in 1 .. Len(t) /\ i = Len(s) + j /\ i \in 1 .. Len(u)
      BY <1>1, <1>2, <2>2
    <3> HIDE DEF j
    <3>2. c[i] = raised(t[j])
      BY <1>1, <1>2, <3>1
    <3>3. (a \o b)[i] = raised(t[j])
      BY <1>2, <1>3, <3>1
    <3> QED
      BY <3>2, <3>3
  <2> QED
    BY <2>1, <2>2
<1>5. Len(c) = Len(a \o b)
  BY <1>1, <1>2, <1>3
<1>6. c = a \o b
  BY <1>2, <1>3, <1>4, <1>5, SeqEqual DEF Text
<1> QED
  BY <1>6 DEF a, b, c, u

LEMMA PrefixUpper ==
  ASSUME NEW s \in Text, NEW t \in Text, IsPrefix(s, t)
  PROVE  IsPrefix(UpperCase(s), UpperCase(t))
<1>1. Len(s) <= Len(t) /\ \A i \in 1 .. Len(s) : s[i] = t[i]
  BY PrefixIs
<1>2. /\ UpperCase(s) \in Text /\ Len(UpperCase(s)) = Len(s) /\ Len(s) \in Nat
      /\ UpperCase(t) \in Text /\ Len(UpperCase(t)) = Len(t) /\ Len(t) \in Nat
  BY UpperIs
<1>3. ASSUME NEW i \in 1 .. Len(s) PROVE UpperCase(s)[i] = UpperCase(t)[i]
  <2>1. i \in 1 .. Len(t) /\ s[i] = t[i]
    BY <1>1, <1>2
  <2> QED
    BY <2>1, UpperIs
<1> QED
  BY <1>1, <1>2, <1>3, PrefixIs

\* What a client sends.
Lines == Seq(Letters \cup {"\n"})

\* What clients are given.
Inputs == Seq(Letters \cup {"\n", "NUL"})

LEMMA LineText ==
  ASSUME NEW s \in Lines
  PROVE  s \in Text /\ \A i \in 1 .. Len(s) : s[i] \in DOMAIN Upper /\ s[i] # "NUL"
<1>1. Letters \cup {"\n"} \subseteq Bytes \ {"NUL"}
  BY UpperFacts
<1>2. s \in Text
  BY <1>1, SeqMonotonic DEF Lines, Text
<1>3. \A i \in 1 .. Len(s) : s[i] \in Letters \cup {"\n"}
  BY ElementOfSeq DEF Lines
<1> QED
  BY <1>1, <1>2, <1>3, UpperFacts

Uppers == {Upper[b] : b \in Letters}

LEMMA UpperLine ==
  ASSUME NEW s \in Lines
  PROVE  /\ UpperCase(s) \in Text /\ Len(UpperCase(s)) = Len(s) /\ Len(s) \in Nat
         /\ \A i \in 1 .. Len(s) : /\ UpperCase(s)[i] # "NUL"
                                   /\ UpperCase(s)[i] = "\n" <=> s[i] = "\n"
                                   /\ s[i] # "\n" => UpperCase(s)[i] \in Uppers
<1>1. s \in Text /\ \A i \in 1 .. Len(s) : s[i] \in DOMAIN Upper /\ s[i] # "NUL"
  BY LineText
<1>2. \A i \in 1 .. Len(s) : UpperCase(s)[i] = Upper[s[i]]
  BY <1>1, UpperIs
<1>3. \A b \in DOMAIN Upper : /\ Upper[b] # "NUL" /\ (Upper[b] = "\n" <=> b = "\n")
                              /\ b # "\n" => Upper[b] \in Uppers
  BY UpperFacts DEF Uppers
<1> QED
  BY <1>1, <1>2, <1>3, UpperIs

\* Parts of lines, and joined ones.
LEMMA LinePrefix ==
  ASSUME NEW s \in Text, NEW t \in Lines, IsPrefix(s, t)
  PROVE  s \in Lines
<1>1. Len(s) <= Len(t) /\ \A i \in 1 .. Len(s) : s[i] = t[i]
  BY PrefixIs, LineText
<1>2. Len(s) \in Nat /\ Len(t) \in Nat /\ \A i \in 1 .. Len(t) : t[i] \in Letters \cup {"\n"}
  BY LenProperties, ElementOfSeq DEF Text, Lines
<1>3. \A i \in 1 .. Len(s) : s[i] \in Letters \cup {"\n"}
  BY <1>1, <1>2
<1>4. SubSeq(s, 1, Len(s)) \in Seq(Letters \cup {"\n"})
  BY <1>2, <1>3, SubSeqProperties
<1> QED
  BY <1>4, SubSeqFull DEF Lines, Text

LEMMA LineSuffix ==
  ASSUME NEW s \in Text, NEW t \in Text, s \o t \in Lines
  PROVE  t \in Lines
<1>1. /\ Len(s) \in Nat /\ Len(t) \in Nat /\ Len(s \o t) = Len(s) + Len(t)
      /\ \A i \in 1 .. Len(t) : (s \o t)[Len(s) + i] = t[i]
  BY Joining
<1>2. \A i \in 1 .. Len(s \o t) : (s \o t)[i] \in Letters \cup {"\n"}
  BY ElementOfSeq DEF Lines
<1>3. \A i \in 1 .. Len(t) : t[i] \in Letters \cup {"\n"}
  BY <1>1, <1>2
<1>4. SubSeq(t, 1, Len(t)) \in Seq(Letters \cup {"\n"})
  BY <1>1, <1>3, SubSeqProperties
<1> QED
  BY <1>4, SubSeqFull DEF Lines, Text

LEMMA LinesJoined == ASSUME NEW s \in Lines, NEW t \in Lines PROVE s \o t \in Lines
BY ConcatProperties DEF Lines

LEMMA NoLine == <<>> \in Lines
BY EmptySeq DEF Lines

-----------------------------------------------------------------------------
(* NULs.                                                                   *)

NulFree(s) == \A i \in 1 .. Len(s) : s[i] # "NUL"

\* NULs come behind letters in upper case.
NulsFine(s) == \A i \in 1 .. Len(s) : s[i] = "NUL" => i > 1 /\ s[i - 1] \in Uppers

LEMMA FreeParts ==
  ASSUME NEW s \in Text, NEW t \in Text
  PROVE  NulFree(s \o t) <=> NulFree(s) /\ NulFree(t)
<1>1. /\ Len(s) \in Nat /\ Len(t) \in Nat /\ Len(s \o t) = Len(s) + Len(t)
      /\ \A i \in 1 .. Len(s) : (s \o t)[i] = s[i]
      /\ \A i \in 1 .. Len(t) : (s \o t)[Len(s) + i] = t[i]
  BY Joining
<1>2. ASSUME NulFree(s \o t) PROVE NulFree(s) /\ NulFree(t)
  <2>1. /\ \A i \in 1 .. Len(s) : i \in 1 .. Len(s \o t)
        /\ \A i \in 1 .. Len(t) : Len(s) + i \in 1 .. Len(s \o t)
    BY <1>1
  <2> QED
    BY <1>1, <1>2, <2>1 DEF NulFree
<1>3. ASSUME NulFree(s), NulFree(t) PROVE NulFree(s \o t)
  <2>1. ASSUME NEW i \in 1 .. Len(s \o t) PROVE (s \o t)[i] # "NUL"
    <3>1. CASE i <= Len(s)
      <4>1. i \in 1 .. Len(s)
        BY <1>1, <3>1
      <4> QED
        BY <1>1, <1>3, <4>1 DEF NulFree
    <3>2. CASE ~(i <= Len(s))
      <4>1. i - Len(s) \in 1 .. Len(t) /\ Len(s) + (i - Len(s)) = i
        BY <1>1, <3>2
      <4> QED
        BY <1>1, <1>3, <4>1 DEF NulFree
    <3> QED
      BY <3>1, <3>2
  <2> QED
    BY <2>1 DEF NulFree
<1> QED
  BY <1>2, <1>3

LEMMA FineFront ==
  ASSUME NEW s \in Text, NEW t \in Text, NulsFine(s \o t)
  PROVE  NulsFine(s)
<1>1. /\ Len(s) \in Nat /\ Len(t) \in Nat /\ Len(s \o t) = Len(s) + Len(t)
      /\ \A i \in 1 .. Len(s) : (s \o t)[i] = s[i]
  BY Joining
<1>2. ASSUME NEW i \in 1 .. Len(s), s[i] = "NUL" PROVE i > 1 /\ s[i - 1] \in Uppers
  <2>1. i \in 1 .. Len(s \o t) /\ (s \o t)[i] = "NUL"
    BY <1>1, <1>2
  <2>2. i > 1 /\ (s \o t)[i - 1] \in Uppers
    BY <2>1 DEF NulsFine
  <2>3. i - 1 \in 1 .. Len(s)
    BY <1>1, <2>2
  <2> QED
    BY <1>1, <2>2, <2>3
<1> QED
  BY <1>2 DEF NulsFine

LEMMA FineMore ==
  ASSUME NEW s \in Text, NEW t \in Text, NulsFine(s), NulFree(t)
  PROVE  NulsFine(s \o t)
<1>1. /\ Len(s) \in Nat /\ Len(t) \in Nat /\ Len(s \o t) = Len(s) + Len(t)
      /\ \A i \in 1 .. Len(s) : (s \o t)[i] = s[i]
      /\ \A i \in 1 .. Len(t) : (s \o t)[Len(s) + i] = t[i]
  BY Joining
<1>2. ASSUME NEW i \in 1 .. Len(s \o t), (s \o t)[i] = "NUL"
      PROVE  i > 1 /\ (s \o t)[i - 1] \in Uppers
  <2>1. CASE i <= Len(s)
    <3>1. i \in 1 .. Len(s) /\ s[i] = "NUL"
      BY <1>1, <1>2, <2>1
    <3>2. i > 1 /\ s[i - 1] \in Uppers
      BY <3>1 DEF NulsFine
    <3>3. i - 1 \in 1 .. Len(s)
      BY <1>1, <3>1, <3>2
    <3> QED
      BY <1>1, <3>2, <3>3
  <2>2. CASE ~(i <= Len(s))
    <3>1. i - Len(s) \in 1 .. Len(t) /\ Len(s) + (i - Len(s)) = i
      BY <1>1, <2>2
    <3>2. t[i - Len(s)] = "NUL"
      BY <1>1, <1>2, <3>1
    <3> QED
      BY <3>1, <3>2 DEF NulFree
  <2> QED
    BY <2>1, <2>2
<1> QED
  BY <1>2 DEF NulsFine

LEMMA FineNul ==
  ASSUME NEW s \in Text, NulsFine(s), Len(s) > 0, s[Len(s)] \in Uppers
  PROVE  NulsFine(s \o <<"NUL">>)
<1> DEFINE t == <<"NUL">>
<1>0. t \in Text /\ Len(t) = 1
  BY RioAssumption DEF Text
<1> HIDE DEF t
<1>1. /\ Len(s) \in Nat /\ Len(s \o t) = Len(s) + 1
      /\ \A i \in 1 .. Len(s) : (s \o t)[i] = s[i]
  <2>1. /\ Len(s) \in Nat /\ Len(s \o t) = Len(s) + Len(t)
        /\ \A i \in 1 .. Len(s) : (s \o t)[i] = s[i]
    BY <1>0, Joining
  <2> QED
    BY <1>0, <2>1
<1>2. ASSUME NEW i \in 1 .. Len(s \o t), (s \o t)[i] = "NUL"
      PROVE  i > 1 /\ (s \o t)[i - 1] \in Uppers
  <2>1. CASE i <= Len(s)
    <3>1. i \in 1 .. Len(s) /\ s[i] = "NUL"
      BY <1>1, <1>2, <2>1
    <3>2. i > 1 /\ s[i - 1] \in Uppers
      BY <3>1 DEF NulsFine
    <3>3. i - 1 \in 1 .. Len(s)
      BY <1>1, <3>1, <3>2
    <3> QED
      BY <1>1, <3>2, <3>3
  <2>2. CASE ~(i <= Len(s))
    <3>1. i - 1 = Len(s) /\ i > 1 /\ Len(s) \in 1 .. Len(s)
      BY <1>1, <2>2
    <3> QED
      BY <1>1, <3>1
  <2> QED
    BY <2>1, <2>2
<1> QED
  BY <1>2 DEF NulsFine, t

-----------------------------------------------------------------------------
(* What is true of a connection.                                           *)

\* Nothing more comes at an end, and all has been taken.
Ended(e) == eof[e] /\ taken[e] = stream[e]

\* Lines are read as wholes, but for those that MAXLINE or the end of the
\* stream cut off; for them the loop index is returned.
Lineful(e) ==
  LET r == call[e]
  IN /\ r.pc \in {"read", "returned"} =>
          r.kind = "line" /\ r.n = MAXLINE /\ Stored(e) <= MAXLINE - 1
     /\ r.pc = "returned" =>
          \/ r.ret = -1
          \/ LineEnds(e) /\ r.ret = Stored(e)
          \/ /\ ~LineEnds(e) /\ Stored(e) > 0 /\ r.ret = Stored(e) + 1
             /\ Ended(e) \/ Stored(e) = MAXLINE - 1
          \/ Stored(e) = 0 /\ r.ret = 0 /\ Ended(e)

\* Who has closed is gone.
Gone(c) == /\ eof[Far(c)] => client[c] = "done"
           /\ eof[Near(c)] => ~up \/ thread[c] = "done"
           /\ client[c] = "start" => thread[c] = "none"

\* Clients send lines.
OneLine(s) == Len(s) <= MAXLINE - 1 /\ \A i \in 1 .. Len(s) - 1 : s[i] # "\n"

FromClient(c) ==
  /\ call[Near(c)].out \in Lines /\ stream[Far(c)] \in Lines /\ call[Far(c)].usrbuf \in Lines
  /\ OneLine(line[c])

\* What the thread has taken and not yet sent back.
Pending(c) == LET r == call[Far(c)]
              IN IF r.pc = "idle" THEN <<>>
                 ELSE IF r.pc = "write" THEN r.out
                 ELSE UpperCase(r.usrbuf)

Echoing(c) ==
  /\ NulsFine(stream[Near(c)])
  /\ IsPrefix(WithoutNuls(stream[Near(c)]), UpperCase(taken[Far(c)]))
  /\ ~eof[Far(c)] =>
       /\ NulsFine(stream[Near(c)] \o Pending(c))
       /\ WithoutNuls(stream[Near(c)] \o Pending(c)) = UpperCase(taken[Far(c)])

Phases(c) == LET pc == call[Near(c)].pc
             IN /\ client[c] \in {"start", "prompt"} => pc = "idle"
                /\ client[c] = "send" => pc \in {"idle", "write"}
                /\ client[c] = "receive" => pc \in {"read", "returned"}
                /\ client[c] = "start" => line[c] = <<>> /\ shown[c] = <<>>

\* The client has sent the lines of s and then line[c], and got the echo of s.
After(c, s) ==
  LET e == Near(c)
  IN /\ client[c] \in {"start", "prompt"} =>
          taken[e] = UpperCase(s) /\ stream[Far(c)] = s
     /\ client[c] = "send" =>
          /\ taken[e] = UpperCase(s) /\ IsPrefix(stream[Far(c)], s \o line[c])
          /\ ~eof[e] => stream[Far(c)] \o call[e].out = s \o line[c]
     /\ client[c] = "receive" =>
          taken[e] = UpperCase(s) \o call[e].usrbuf /\ IsPrefix(stream[Far(c)], s \o line[c])

\* The server is gone, and the client has seen it.
Drained(c) == Ended(Near(c)) /\ (client[c] = "receive" => call[Near(c)].usrbuf = <<>>)

InStep(c) == NulFree(stream[Near(c)]) => Drained(c) \/ \E s \in Lines : After(c, s)

Answered(c) ==
  client[c] = "prompt" /\ NulFree(stream[Near(c)]) =>
    \/ shown[c] = UpperCase(line[c])
    \/ eof[Near(c)] /\ (shown[c] = line[c] \/ IsPrefix(shown[c], UpperCase(line[c])))

ConnInv(c) == /\ Lineful(Near(c)) /\ Lineful(Far(c)) /\ Gone(c) /\ FromClient(c)
              /\ Echoing(c) /\ Phases(c) /\ InStep(c) /\ Answered(c)

Processes ==
  /\ client \in [Conns -> {"start", "prompt", "send", "receive", "done"}]
  /\ thread \in [Conns -> {"none", "backlog", "echo", "done"}]
  /\ eof \in [Ends -> BOOLEAN]
  /\ stdin \in [Conns -> Inputs] /\ line \in [Conns -> Lines] /\ shown \in [Conns -> Text]

LineInv == EInv /\ Processes /\ \A c \in Conns : ConnInv(c)

-----------------------------------------------------------------------------
(* Steps that leave a connection alone.                                    *)

LEMMA Sides ==
  /\ \A c \in Conns : /\ Near(c) \in Ends /\ Far(c) \in Ends /\ Near(c) # Far(c)
                      /\ Peer(Near(c)) = Far(c) /\ Peer(Far(c)) = Near(c)
                      /\ Near(c)[1] = c /\ Far(c)[1] = c
                      /\ Near(c)[2] = "client" /\ Far(c)[2] = "server"
  /\ \A e \in Ends : e[1] \in Conns /\ (e = Near(e[1]) \/ e = Far(e[1]))
  /\ \A c, d \in Conns : c # d => Near(c) # Near(d) /\ Far(c) # Far(d) /\ Near(c) # Far(d)
<1>1. Ends = Conns \X {"client", "server"}
  BY EchoAssumption
<1> QED
  BY <1>1 DEF Near, Far, Peer

Unmoved(e) == call'[e] = call[e] /\ taken'[e] = taken[e] /\ stream'[e] = stream[e]

Still(c) == /\ Unmoved(Near(c)) /\ Unmoved(Far(c))
            /\ client'[c] = client[c] /\ line'[c] = line[c] /\ shown'[c] = shown[c]
            /\ thread'[c] = thread[c] /\ (up' => up)
            /\ eof'[Far(c)] = eof[Far(c)] /\ (eof[Near(c)] => eof'[Near(c)])
            /\ eof'[Near(c)] => eof[Near(c)] \/ ~up'

LEMMA UnmovedLineful ==
  ASSUME NEW e, Lineful(e), Unmoved(e), eof[e] => eof'[e]
  PROVE  Lineful(e)'
BY DEF Lineful, Unmoved, Ended, Stored, LineEnds

LEMMA StillKept ==
  ASSUME NEW c \in Conns, ConnInv(c), Still(c)
  PROVE  ConnInv(c)'
<1>1. Lineful(Near(c))' /\ Lineful(Far(c))'
  BY UnmovedLineful DEF ConnInv, Still
<1>2. Gone(c)'
  BY DEF ConnInv, Still, Gone
<1>3. FromClient(c)'
  BY DEF ConnInv, Still, FromClient, Unmoved
<1>4. Echoing(c)'
  BY DEF ConnInv, Still, Echoing, Pending, Unmoved
<1>5. Phases(c)'
  BY DEF ConnInv, Still, Phases, Unmoved
<1>6. InStep(c)'
  <2>1. \A s : After(c, s) => After(c, s)'
    BY DEF Still, After, Unmoved
  <2>2. Drained(c) => Drained(c)'
    BY DEF Still, Drained, Ended, Unmoved
  <2> QED
    BY <2>1, <2>2 DEF ConnInv, Still, InStep, Unmoved
<1>7. Answered(c)'
  BY DEF ConnInv, Still, Answered, Unmoved
<1> QED
  BY <1>1, <1>2, <1>3, <1>4, <1>5, <1>6, <1>7 DEF ConnInv

-----------------------------------------------------------------------------
(* Reading and writing.                                                    *)

LEMMA EndTypes ==
  ASSUME RioInv, NEW e \in Ends
  PROVE  /\ call[e] \in Calls /\ taken[e] \in Text /\ stream[e] \in Text /\ file[e] \in Text
         /\ call[e].usrbuf \in Text /\ call[e].out \in Text /\ Stored(e) \in Nat
         /\ call[e].n \in Nat /\ call[e].ret \in Int
         /\ IsPrefix(taken[e], stream[e])
<1>1. /\ call[e] \in Calls /\ taken[e] \in Text /\ stream[e] \in Text /\ file[e] \in Text
      /\ Unread(e) \in Text
  BY UnreadText DEF RioInv, Kept, Streams
<1>2. taken[e] \o Unread(e) \o file[e] = stream[e]
  BY DEF RioInv, Kept, StreamInOrder
<1>3. IsPrefix(taken[e], stream[e])
  <2>1. (taken[e] \o Unread(e)) \o file[e] = taken[e] \o (Unread(e) \o file[e])
    BY <1>1, Regrouped
  <2>2. Unread(e) \o file[e] \in Text
    BY <1>1, Joined
  <2> QED
    BY <1>1, <1>2, <2>1, <2>2, PrefixJoined
<1> QED
  BY <1>1, <1>3, StoredNat DEF Calls

\* What has been taken is a part of the stream, also after a step.
TakenParts == \A e \in Ends : taken[e] \in Text /\ IsPrefix(taken[e], stream[e])

LEMMA TakenIsPart == RioInv => TakenParts
BY EndTypes DEF TakenParts

LEMMA TakenNext == RioInv' => TakenParts'
BY TakenIsPart, PTL

\* One call of rio_readlineb's loop, or its return.
Reads(e, b) ==
  /\ call[e].pc = "read" /\ call'[e].pc \in {"read", "returned"} /\ call'[e].out = call[e].out
  /\ taken'[e] = taken[e] \o b /\ call'[e].usrbuf = call[e].usrbuf \o b
  /\ stream' = stream /\ eof' = eof
  /\ \A d \in Ends : d # e => call'[d] = call[d] /\ taken'[d] = taken[d]

LEMMA ReadFacts ==
  ASSUME RioInv, NEW e \in Ends, ReadStep(e) \/ ReadFails(e)
  PROVE  \E b \in Text : Reads(e, b)
<1>1. /\ call \in [Ends -> Calls] /\ taken \in [Ends -> Text] /\ call[e] \in Calls
      /\ taken[e] \in Text /\ call[e].usrbuf \in Text
  BY EndTypes DEF RioInv, Kept, Streams
<1>2. /\ <<>> \in Text /\ taken[e] = taken[e] \o <<>> /\ call[e].usrbuf = call[e].usrbuf \o <<>>
  BY <1>1, Nothing
<1>3. ASSUME call[e].pc = "read", UNCHANGED <<taken, stream, eof>>,
             call' = call \/ \E r \in Int : Return(e, r)
      PROVE  Reads(e, <<>>)
  <2>1. CASE call' = call
    BY <1>2, <1>3, <2>1 DEF Reads
  <2>2. ASSUME NEW r \in Int, Return(e, r) PROVE Reads(e, <<>>)
    <3>1. /\ call'[e].pc = "returned" /\ call'[e].out = call[e].out
          /\ call'[e].usrbuf = call[e].usrbuf
          /\ \A d \in Ends : d # e => call'[d] = call[d]
      BY <1>1, <2>2 DEF Return, Calls
    <3> QED
      BY <1>2, <1>3, <3>1 DEF Reads
  <2> QED
    BY <1>3, <2>1, <2>2
<1>4. CASE Fill(e) \/ Interrupted(e)
  BY <1>2, <1>3, <1>4 DEF Fill, FillAnyTime, Interrupted, Reading
<1>5. CASE EndOfFile(e)
  <2>1. (IF call[e].kind = "line" /\ Stored(e) > 0 THEN Stored(e) + 1 ELSE Stored(e)) \in Int
    BY StoredNat
  <2> QED
    BY <1>2, <1>3, <1>5, <2>1 DEF EndOfFile, Reading
<1>6. CASE Done(e)
  <2>1. (IF call[e].kind = "line" THEN LineCount(e) ELSE Stored(e)) \in Int
    BY EndTypes DEF LineCount
  <2> QED
    BY <1>2, <1>3, <1>6, <2>1 DEF Done
<1>7. CASE ReadFails(e)
  BY <1>2, <1>3, <1>7 DEF ReadFails, Reading
<1>8. CASE Copy(e)
  <2> DEFINE k == IF rio[e].cnt < Wanted(e) THEN rio[e].cnt ELSE Wanted(e)
             b == SubSeq(rio[e].buf, rio[e].ptr, rio[e].ptr + k - 1)
  <2>1. /\ call' = [call EXCEPT ![e].usrbuf = call[e].usrbuf \o b]
        /\ taken' = [taken EXCEPT ![e] = taken[e] \o b]
        /\ UNCHANGED <<eof, stream>> /\ call[e].pc = "read"
    BY <1>8 DEF Copy, Reading
  <2>2. b \in Text
    <3>1. /\ rio[e].buf \in Text /\ rio[e].ptr \in Nat \ {0} /\ rio[e].cnt \in Nat \ {0}
          /\ rio[e].ptr + rio[e].cnt - 1 <= Len(rio[e].buf) /\ Len(rio[e].buf) \in Nat
      BY <1>8, LenProperties DEF Copy, RioInv, Kept, Streams, Buffered, Text
    <3>2. k \in Nat \ {0} /\ k <= rio[e].cnt
      <4>1. Wanted(e) \in Nat \ {0}
        BY <1>8, WantedSomething DEF Copy
      <4> QED
        BY <3>1, <4>1
    <3> HIDE DEF k
    <3>3. rio[e].ptr + k - 1 \in Int /\ rio[e].ptr + k - 1 <= Len(rio[e].buf)
      BY <3>1, <3>2
    <3> QED
      BY <3>1, <3>3, PartOfText
  <2> HIDE DEF b
  <2>3. /\ call'[e].pc = "read" /\ call'[e].out = call[e].out
        /\ call'[e].usrbuf = call[e].usrbuf \o b /\ taken'[e] = taken[e] \o b
        /\ \A d \in Ends : d # e => call'[d] = call[d] /\ taken'[d] = taken[d]
    BY <1>1, <2>1 DEF Calls
  <2> QED
    BY <2>1, <2>2, <2>3 DEF Reads
<1> QED
  BY <1>2, <1>3, <1>4, <1>5, <1>6, <1>7, <1>8 DEF ReadStep

LEMMA LinefulRead ==
  ASSUME RioInv, NEW e \in Ends, Lineful(e), ReadStep(e) \/ ReadFails(e)
  PROVE  Lineful(e)'
<1>1. /\ call \in [Ends -> Calls] /\ call[e] \in Calls /\ call[e].usrbuf \in Text
      /\ Stored(e) \in Nat /\ MAXLINE \in Nat /\ MAXLINE > 1
  BY EndTypes, EchoAssumption DEF RioInv
<1>2. call[e].pc = "read"
  BY DEF ReadStep, Fill, Interrupted, EndOfFile, Copy, Done, ReadFails, Reading
<1>3. call[e].kind = "line" /\ call[e].n = MAXLINE /\ Stored(e) <= MAXLINE - 1
  BY <1>2 DEF Lineful
<1>4. ASSUME call' = call PROVE Lineful(e)'
  BY <1>2, <1>3, <1>4 DEF Lineful, Stored
<1>5. ASSUME NEW r, Return(e, r)
      PROVE  /\ call'[e].pc = "returned" /\ call'[e].ret = r /\ call'[e].kind = "line"
             /\ call'[e].n = MAXLINE /\ call'[e].usrbuf = call[e].usrbuf
             /\ Stored(e)' = Stored(e) /\ (LineEnds(e)' <=> LineEnds(e))
  BY <1>1, <1>3, <1>5 DEF Return, Calls, Stored, LineEnds
<1>6. CASE Fill(e) \/ Interrupted(e)
  BY <1>4, <1>6 DEF Fill, FillAnyTime, Interrupted
<1>7. CASE ReadFails(e)
  <2>1. Return(e, -1)
    BY <1>7 DEF ReadFails
  <2> QED
    BY <1>3, <1>5, <2>1 DEF Lineful
<1>8. CASE EndOfFile(e)
  <2>1. Return(e, IF Stored(e) > 0 THEN Stored(e) + 1 ELSE Stored(e)) /\ ~LineEnds(e)
    BY <1>3, <1>8 DEF EndOfFile, Reading, Satisfied
  <2>2. Ended(e)'
    <3>1. eof'[e] /\ taken' = taken /\ stream' = stream /\ file[e] = <<>> /\ ~(rio[e].cnt > 0)
      BY <1>8 DEF EndOfFile, RioInv, Kept, Streams
    <3>2. taken[e] \o <<>> \o <<>> = stream[e]
      BY <3>1 DEF RioInv, Kept, StreamInOrder, Unread
    <3>3. taken[e] \o <<>> \o <<>> = taken[e]
      BY EndTypes, Nothing
    <3> QED
      BY <3>1, <3>2, <3>3 DEF Ended
  <2>3. CASE Stored(e) > 0
    BY <1>3, <1>5, <2>1, <2>2, <2>3 DEF Lineful
  <2>4. CASE ~(Stored(e) > 0)
    <3>1. Stored(e) = 0 /\ Return(e, 0)
      BY <1>1, <2>1, <2>4
    <3> QED
      BY <1>3, <1>5, <2>2, <3>1 DEF Lineful
  <2> QED
    BY <2>3, <2>4
<1>9. CASE Done(e)
  <2>1. /\ Return(e, IF LineEnds(e) THEN Stored(e) ELSE MAXLINE)
        /\ Stored(e) + 1 >= MAXLINE \/ LineEnds(e)
    BY <1>3, <1>9 DEF Done, Satisfied, LineCount
  <2>2. CASE LineEnds(e)
    BY <1>3, <1>5, <2>1, <2>2 DEF Lineful
  <2>3. CASE ~LineEnds(e)
    <3>1. Stored(e) = MAXLINE - 1 /\ MAXLINE = Stored(e) + 1 /\ Stored(e) > 0 /\ Return(e, MAXLINE)
      BY <1>1, <1>3, <2>1, <2>3
    <3> QED
      BY <1>3, <1>5, <2>3, <3>1 DEF Lineful
  <2> QED
    BY <2>2, <2>3
<1>10. CASE Copy(e)
  <2> DEFINE b == SubSeq(rio[e].buf, rio[e].ptr, rio[e].ptr)
  <2>1. Wanted(e) = 1 /\ rio[e].cnt > 0 /\ Stored(e) + 1 < MAXLINE
    BY <1>1, <1>3, <1>10 DEF Copy, Reading, Satisfied, Wanted
  <2>2. /\ rio[e].buf \in Text /\ rio[e].ptr \in Nat \ {0} /\ rio[e].cnt \in Nat \ {0}
        /\ rio[e].ptr + rio[e].cnt - 1 <= Len(rio[e].buf) /\ Len(rio[e].buf) \in Nat
    BY <1>10, LenProperties DEF Copy, RioInv, Kept, Streams, Buffered, Text
  <2>3. (IF rio[e].cnt < Wanted(e) THEN rio[e].cnt ELSE Wanted(e)) = 1
    BY <2>1, <2>2
  <2>4. rio[e].ptr + 1 - 1 = rio[e].ptr /\ rio[e].ptr \in 1 .. Len(rio[e].buf)
    BY <2>2
  <2>5. call' = [call EXCEPT ![e].usrbuf = call[e].usrbuf \o b]
    BY <1>10, <2>3, <2>4 DEF Copy
  <2>6. b \in Text /\ Len(b) = 1
    <3>1. \A i \in rio[e].ptr .. rio[e].ptr : rio[e].buf[i] \in Bytes
      BY <2>2, <2>4, ElementOfSeq DEF Text
    <3>2. /\ b \in Seq(Bytes)
          /\ Len(b) = IF rio[e].ptr <= rio[e].ptr THEN rio[e].ptr - rio[e].ptr + 1 ELSE 0
      BY <2>2, <3>1, SubSeqProperties
    <3> QED
      BY <2>2, <3>2 DEF Text
  <2> HIDE DEF b
  <2>7. Len(call[e].usrbuf \o b) = Len(call[e].usrbuf) + Len(b)
    BY <1>1, <2>6, Joining
  <2>8. /\ call'[e].pc = "read" /\ call'[e].kind = "line" /\ call'[e].n = MAXLINE
        /\ call'[e].usrbuf = call[e].usrbuf \o b
    BY <1>1, <1>2, <1>3, <2>5 DEF Calls
  <2>9. Stored(e)' <= MAXLINE - 1
    BY <1>1, <2>1, <2>6, <2>7, <2>8 DEF Stored
  <2> QED
    BY <2>8, <2>9 DEF Lineful
<1> QED
  BY <1>6, <1>7, <1>8, <1>9, <1>10 DEF ReadStep

\* One write(2) of the end e.
Writes(e, b, t) ==
  /\ call[e].pc = "write" /\ call[e].out = b \o t
  /\ call'[e].pc = "write" /\ call'[e].out = t /\ call'[e].usrbuf = call[e].usrbuf
  /\ stream'[Peer(e)] = stream[Peer(e)] \o b
  /\ taken' = taken /\ eof' = eof
  /\ \A d \in Ends : d # e => call'[d] = call[d]
  /\ \A d \in Ends : d # Peer(e) => stream'[d] = stream[d]

LEMMA WriteFacts ==
  ASSUME RioInv, NEW e \in Ends, Write(e, Peer(e))
  PROVE  \E b, t \in Text : Writes(e, b, t)
<1>1. /\ call \in [Ends -> Calls] /\ stream \in [Ends -> Text] /\ call[e] \in Calls
      /\ call[e].out \in Text /\ Peer(e) \in Ends
  BY EndTypes, EchoAssumption DEF RioInv, Kept, Streams, Peer
<1>2. PICK k \in 1 .. Len(call[e].out) :
        /\ stream' = [stream EXCEPT ![Peer(e)] = @ \o SubSeq(call[e].out, 1, k)]
        /\ call' = [call EXCEPT ![e].out = SubSeq(@, k + 1, Len(@))]
  BY DEF Write
<1> DEFINE b == SubSeq(call[e].out, 1, k)
           t == SubSeq(call[e].out, k + 1, Len(call[e].out))
<1>3. Len(call[e].out) \in Nat /\ k \in 0 .. Len(call[e].out) /\ k + 1 \in Nat \ {0} /\ k \in Int
      /\ k <= Len(call[e].out)
  BY <1>1, LenProperties DEF Text
<1>4. b \in Text /\ t \in Text /\ b \o t = call[e].out
  <2>1. b \in Text
    BY <1>1, <1>3, PartOfText
  <2>2. t \in Text
    <3>1. Len(call[e].out) \in Int /\ Len(call[e].out) <= Len(call[e].out)
      BY <1>3
    <3> QED
      BY <1>1, <1>3, <3>1, PartOfText
  <2>3. b \o t = call[e].out
    BY <1>1, <1>3, CutInTwo
  <2> QED
    BY <2>1, <2>2, <2>3
<1>5. /\ stream' = [stream EXCEPT ![Peer(e)] = stream[Peer(e)] \o b]
      /\ call' = [call EXCEPT ![e].out = t]
  BY <1>2
<1> HIDE DEF b, t
<1>6. /\ call[e].pc = "write" /\ UNCHANGED <<eof, taken>>
  BY DEF Write
<1>7. /\ call'[e].pc = "write" /\ call'[e].out = t /\ call'[e].usrbuf = call[e].usrbuf
      /\ stream'[Peer(e)] = stream[Peer(e)] \o b
      /\ \A d \in Ends : d # e => call'[d] = call[d]
      /\ \A d \in Ends : d # Peer(e) => stream'[d] = stream[d]
  BY <1>1, <1>5, <1>6 DEF Calls
<1> QED
  BY <1>4, <1>6, <1>7 DEF Writes

-----------------------------------------------------------------------------
(* Ends of processes, and connections.                                     *)

LEMMA ConnTypes ==
  ASSUME LineInv, NEW c \in Conns
  PROVE  /\ Near(c) \in Ends /\ Far(c) \in Ends /\ Near(c) # Far(c)
         /\ Peer(Near(c)) = Far(c) /\ Peer(Far(c)) = Near(c)
         /\ \A e \in {Near(c), Far(c)} :
              /\ call[e] \in Calls /\ taken[e] \in Text /\ stream[e] \in Text
              /\ call[e].usrbuf \in Text /\ call[e].out \in Text /\ Stored(e) \in Nat
              /\ call[e].ret \in Int /\ IsPrefix(taken[e], stream[e])
         /\ stdin[c] \in Inputs /\ line[c] \in Lines /\ shown[c] \in Text
         /\ line[c] \in Text /\ stream[Far(c)] \in Lines
         /\ RioInv /\ ConnInv(c)
<1>1. Near(c) \in Ends /\ Far(c) \in Ends
  BY Sides
<1>2. RioInv /\ ConnInv(c)
  BY DEF LineInv, EInv
<1>3. \A e \in {Near(c), Far(c)} :
        /\ call[e] \in Calls /\ taken[e] \in Text /\ stream[e] \in Text
        /\ call[e].usrbuf \in Text /\ call[e].out \in Text /\ Stored(e) \in Nat
        /\ call[e].ret \in Int /\ IsPrefix(taken[e], stream[e])
  BY <1>1, <1>2, EndTypes
<1>4. stdin[c] \in Inputs /\ line[c] \in Lines /\ shown[c] \in Text /\ line[c] \in Text
  BY LineText DEF LineInv, Processes
<1> QED
  BY <1>1, <1>2, <1>3, <1>4, Sides DEF ConnInv, FromClient

\* A client closes, fails or is killed.
LEMMA ClientEndsKept ==
  ASSUME LineInv, NEW c \in Conns, ClientEnds(c)
  PROVE  ConnInv(c)'
<1>1. /\ client'[c] = "done" /\ eof'[Far(c)] /\ eof'[Near(c)] = eof[Near(c)]
  BY ConnTypes DEF ClientEnds, Closing, LineInv, Processes
<1>2. UNCHANGED <<call, stream, taken, up, thread, line, shown>>
  BY DEF ClientEnds
<1>3. Lineful(Near(c))' /\ Lineful(Far(c))'
  BY <1>1, <1>2, ConnTypes, UnmovedLineful DEF ConnInv, Unmoved
<1>4. Gone(c)' /\ FromClient(c)' /\ Echoing(c)' /\ Phases(c)' /\ Answered(c)'
  BY <1>1, <1>2, ConnTypes DEF ConnInv, Gone, FromClient, Echoing, Phases, Answered
<1>5. After(c, <<>>)'
  BY <1>1 DEF After
<1> QED
  BY <1>3, <1>4, <1>5, NoLine DEF ConnInv, InStep

\* The thread of a connection ends.
LEMMA EchoEndsKept ==
  ASSUME LineInv, NEW c \in Conns, EchoEnds(c)
  PROVE  ConnInv(c)'
<1>1. /\ thread[c] = "echo" /\ thread'[c] = "done"
      /\ eof'[Near(c)] /\ eof'[Far(c)] = eof[Far(c)]
  BY ConnTypes DEF EchoEnds, Serving, Closing, LineInv, Processes
<1>2. UNCHANGED <<call, stream, taken, up, client, line, shown>>
  BY DEF EchoEnds
<1>3. Lineful(Near(c))' /\ Lineful(Far(c))'
  BY <1>1, <1>2, ConnTypes, UnmovedLineful DEF ConnInv, Unmoved
<1>4. Gone(c)' /\ FromClient(c)' /\ Echoing(c)' /\ Phases(c)' /\ Answered(c)'
  BY <1>1, <1>2, ConnTypes DEF ConnInv, Gone, FromClient, Echoing, Pending, Phases, Answered
<1>5. \A s : After(c, s) => After(c, s)'
  BY <1>1, <1>2 DEF After
<1>6. Drained(c) => Drained(c)'
  BY <1>1, <1>2 DEF Drained, Ended
<1>7. InStep(c)'
  BY <1>2, <1>5, <1>6, ConnTypes DEF ConnInv, InStep
<1> QED
  BY <1>3, <1>4, <1>7 DEF ConnInv

LEMMA ConnectKept ==
  ASSUME LineInv, NEW c \in Conns, Connect(c)
  PROVE  ConnInv(c)'
<1>1. /\ client[c] = "start" /\ client'[c] = "prompt" /\ up /\ up' /\ thread'[c] = "backlog"
  BY DEF Connect, LineInv, Processes
<1>2. UNCHANGED <<call, stream, taken, eof, line, shown>>
  BY DEF Connect, riovars
<1>3. /\ ~eof[Near(c)] /\ ~eof[Far(c)] /\ call[Near(c)].pc = "idle"
      /\ line[c] = <<>> /\ shown[c] = <<>>
  BY <1>1, ConnTypes DEF ConnInv, Gone, Phases
<1>4. Lineful(Near(c))' /\ Lineful(Far(c))'
  BY <1>2, ConnTypes, UnmovedLineful DEF ConnInv, Unmoved
<1>5. Gone(c)' /\ FromClient(c)' /\ Echoing(c)' /\ Phases(c)'
  BY <1>1, <1>2, <1>3, ConnTypes DEF ConnInv, Gone, FromClient, Echoing, Pending, Phases
<1>6. Answered(c)'
  BY <1>2, <1>3, UpperNothing DEF Answered
<1>7. \A s : After(c, s) => After(c, s)'
  BY <1>1, <1>2 DEF After
<1>8. Drained(c) => Drained(c)'
  BY <1>1, <1>2 DEF Drained, Ended
<1>9. InStep(c)'
  BY <1>2, <1>7, <1>8, ConnTypes DEF ConnInv, InStep
<1> QED
  BY <1>4, <1>5, <1>6, <1>9 DEF ConnInv

LEMMA AcceptKept ==
  ASSUME LineInv, NEW c \in Conns, Accept(c)
  PROVE  ConnInv(c)'
<1>1. /\ up /\ thread[c] = "backlog" /\ thread'[c] = "echo"
      /\ UNCHANGED <<call, stream, taken, eof, up, client, line, shown>>
  BY DEF Accept, riovars, LineInv, Processes
<1>2. client[c] # "start" /\ ~eof[Near(c)]
  BY <1>1, ConnTypes DEF ConnInv, Gone
<1>3. Lineful(Near(c))' /\ Lineful(Far(c))'
  BY <1>1, ConnTypes, UnmovedLineful DEF ConnInv, Unmoved
<1>4. Gone(c)' /\ FromClient(c)' /\ Echoing(c)' /\ Phases(c)' /\ Answered(c)'
  BY <1>1, <1>2, ConnTypes DEF ConnInv, Gone, FromClient, Echoing, Pending, Phases, Answered
<1>5. \A s : After(c, s) => After(c, s)'
  BY <1>1 DEF After
<1>6. Drained(c) => Drained(c)'
  BY <1>1 DEF Drained, Ended
<1>7. InStep(c)'
  BY <1>1, <1>5, <1>6, ConnTypes DEF ConnInv, InStep
<1> QED
  BY <1>3, <1>4, <1>7 DEF ConnInv

-----------------------------------------------------------------------------
(* Steps of a thread.                                                      *)

\* Only the call of the server's end changes.
FarMoves(c) ==
  /\ Unmoved(Near(c)) /\ stream'[Far(c)] = stream[Far(c)]
  /\ client'[c] = client[c] /\ line'[c] = line[c] /\ shown'[c] = shown[c]
  /\ thread'[c] = thread[c] /\ up' = up /\ eof' = eof

LEMMA FarMovesKept ==
  ASSUME LineInv, NEW c \in Conns, FarMoves(c), Lineful(Far(c))', Echoing(c)',
         call'[Far(c)].usrbuf \in Lines
  PROVE  ConnInv(c)'
<1>1. Lineful(Near(c))'
  BY ConnTypes, UnmovedLineful DEF ConnInv, FarMoves
<1>2. Gone(c)' /\ FromClient(c)' /\ Phases(c)' /\ Answered(c)'
  BY ConnTypes DEF ConnInv, FarMoves, Unmoved, Gone, FromClient, Phases, Answered
<1>3. \A s : After(c, s) => After(c, s)'
  BY DEF FarMoves, Unmoved, After
<1>4. Drained(c) => Drained(c)'
  BY DEF FarMoves, Unmoved, Drained, Ended
<1>5. InStep(c)'
  BY <1>3, <1>4, ConnTypes DEF ConnInv, InStep, FarMoves, Unmoved
<1> QED
  BY <1>1, <1>2, <1>5 DEF ConnInv

\* A call of the thread that leaves it with the same to send back.
LEMMA FarCallKept ==
  ASSUME LineInv, NEW c \in Conns, FarMoves(c), taken'[Far(c)] = taken[Far(c)],
         Lineful(Far(c))', eof[Far(c)] \/ Pending(c)' = Pending(c),
         call'[Far(c)].usrbuf \in Lines
  PROVE  ConnInv(c)'
<1>1. Echoing(c)'
  BY ConnTypes DEF ConnInv, FarMoves, Unmoved, Echoing
<1> QED
  BY <1>1, FarMovesKept

LEMMA EchoReadKept ==
  ASSUME LineInv, NEW c \in Conns, EchoRead(c)
  PROVE  ConnInv(c)'
<1>1. /\ call' = [call EXCEPT ![Far(c)] = [NoCall EXCEPT !.pc = "read", !.kind = "line",
                                                        !.n = MAXLINE]]
      /\ call[Far(c)].pc = "idle"
      /\ UNCHANGED <<eof, stream, taken, up, thread, client, line, shown>>
  BY DEF EchoRead, Read, Idle
<1>2. /\ call'[Far(c)].pc = "read" /\ call'[Far(c)].kind = "line" /\ call'[Far(c)].n = MAXLINE
      /\ call'[Far(c)].usrbuf = <<>> /\ call'[Near(c)] = call[Near(c)]
  BY <1>1, ConnTypes DEF RioInv, NoCall
<1>3. FarMoves(c)
  BY <1>1, <1>2 DEF FarMoves, Unmoved
<1>4. Lineful(Far(c))'
  <2>1. Len(<<>>) <= MAXLINE - 1
    BY EchoAssumption, Nothing
  <2> QED
    BY <1>2, <2>1 DEF Lineful, Stored
<1>5. Pending(c)' = Pending(c)
  BY <1>1, <1>2, UpperNothing DEF Pending
<1> QED
  BY <1>1, <1>2, <1>3, <1>4, <1>5, NoLine, FarCallKept

\* A buffer holds what it has been filled with.
LEMMA CStringFree ==
  ASSUME NEW s \in Text, NulFree(s)
  PROVE  CString(Append(s, "NUL")) = s
<1> DEFINE x == Append(s, "NUL")
           n == Len(s)
           I == {i \in 1 .. Len(x) : x[i] = "NUL"}
<1>1. /\ n \in Nat /\ \A i \in 1 .. n : s[i] # "NUL"
      /\ x \in Text /\ Len(x) = n + 1 /\ x[n + 1] = "NUL"
      /\ \A i \in 1 .. n : x[i] = s[i]
  BY AppendText, RioAssumption, LenProperties DEF NulFree, Text
<1> HIDE DEF x, n
<1>2. I = {n + 1}
  BY <1>1
<1>3. Min(I) = n + 1 /\ I # {}
  <2>1. I \in SUBSET Nat /\ I # {}
    BY <1>1, <1>2
  <2>2. Min(I) \in I
    BY <2>1, LeastPosition
  <2> QED
    BY <1>2, <2>1, <2>2
<1>4. SelectInSeq(x, LAMBDA b : b = "NUL") = n + 1
  BY <1>3 DEF SelectInSeq
<1>5. CString(x) = SubSeq(x, 1, n)
  <2>1. n + 1 # 0 /\ (n + 1) - 1 = n
    BY <1>1
  <2> QED
    BY <1>4, <2>1 DEF CString
<1>6. SubSeq(x, 1, n) = s
  <2>1. IsPrefix(s, x)
    <3>1. Len(s) <= Len(x)
      BY <1>1 DEF n
    <3> QED
      BY <1>1, <3>1, PrefixIs DEF n
  <2> QED
    BY <1>1, <2>1, PrefixCut DEF n
<1> QED
  BY <1>5, <1>6 DEF x

\* What upper_case makes of a line with its NUL.
LEMMA LineInBuffer ==
  ASSUME NEW s \in Lines
  PROVE  upper_case(Append(s, "NUL")) = UpperCase(s) \o <<"NUL">>
<1> DEFINE x == Append(s, "NUL")
           n == Len(s)
<1>1. /\ s \in Text /\ n \in Nat /\ NulFree(s)
      /\ x \in Text /\ Len(x) = n + 1 /\ x[n + 1] = "NUL"
  BY LineText, UpperLine, AppendText, RioAssumption DEF NulFree
<1>2. CString(x) = s
  BY <1>1, CStringFree
<1> HIDE DEF x, n
<1>3. SubSeq(x, n + 1, Len(x)) = <<"NUL">>
  <2> DEFINE r == SubSeq(x, n + 1, n + 1)
  <2>1. \A i \in n + 1 .. n + 1 : x[i] \in Bytes
    BY <1>1, RioAssumption
  <2>2. /\ r \in Seq(Bytes) /\ Len(r) = IF n + 1 <= n + 1 THEN (n + 1) - (n + 1) + 1 ELSE 0
        /\ \A i \in 1 .. (n + 1) - (n + 1) + 1 : r[i] = x[(n + 1) + i - 1]
    BY <1>1, <2>1, SubSeqProperties
  <2>3. (n + 1) - (n + 1) + 1 = 1 /\ (n + 1) + 1 - 1 = n + 1 /\ n + 1 <= n + 1
    BY <1>1
  <2> HIDE DEF r
  <2>4. r \in Text /\ Len(r) = 1 /\ r[1] = "NUL"
    BY <1>1, <2>2, <2>3 DEF Text
  <2>5. <<"NUL">> \in Text /\ Len(<<"NUL">>) = 1 /\ <<"NUL">>[1] = "NUL"
    BY RioAssumption DEF Text
  <2>6. \A i \in 1 .. Len(r) : r[i] = <<"NUL">>[i]
    BY <2>4, <2>5
  <2>7. r = <<"NUL">>
    BY <2>4, <2>5, <2>6, SeqEqual DEF Text
  <2> QED
    BY <1>1, <2>7 DEF r
<1> QED
  BY <1>2, <1>3 DEF upper_case, x, n

\* What a call of rio_readlineb has got is a part of what clients send.
LEMMA TakenLines ==
  ASSUME LineInv, NEW c \in Conns
  PROVE  taken[Far(c)] \in Lines
BY ConnTypes, LinePrefix

\* What rio_readlineb has returned, and what is sent back.
LEMMA EchoLineKept ==
  ASSUME LineInv, NEW c \in Conns, EchoLine(c)
  PROVE  ConnInv(c)'
<1> DEFINE e == Far(c)
           u == call[e].usrbuf
           n == call[e].ret
           t == SubSeq(upper_case(Buffer(e)), 1, n)
           a == stream[Near(c)]
           v == UpperCase(u)
<1>0. e \in Ends /\ call \in [Ends -> Calls]
  BY ConnTypes DEF RioInv
<1>1. /\ call' = [call EXCEPT ![e] = [NoCall EXCEPT !.pc = "write", !.out = t]]
      /\ call[e].pc = "returned" /\ n > 0
      /\ UNCHANGED <<eof, stream, taken, up, thread, client, line, shown>>
  BY DEF EchoLine, ends
<1>2. u \in Lines /\ u \in Text /\ n \in Int /\ Stored(e) = Len(u) /\ Len(u) \in Nat /\ a \in Text
  BY ConnTypes, LenProperties DEF ConnInv, FromClient, Stored, Text
<1>3. v \in Text /\ Len(v) = Len(u) /\ NulFree(v)
  BY <1>2, UpperLine DEF NulFree
<1>4. upper_case(Buffer(e)) = v \o <<"NUL">>
  BY <1>2, LineInBuffer DEF Buffer
<1>5. <<"NUL">> \in Text /\ Len(<<"NUL">>) = 1
  BY RioAssumption DEF Text
<1>6. \/ n = Len(u)
      \/ n = Len(u) + 1 /\ Len(u) > 0 /\ u[Len(u)] # "\n"
  <2>1. \/ LineEnds(e) /\ n = Stored(e)
        \/ ~LineEnds(e) /\ Stored(e) > 0 /\ n = Stored(e) + 1
    <3>1. Lineful(e) /\ n # -1 /\ n # 0
      BY <1>1, <1>2, ConnTypes DEF ConnInv
    <3> QED
      BY <1>1, <3>1 DEF Lineful
  <2>2. Len(u) > 0 /\ ~LineEnds(e) => u[Len(u)] # "\n"
    BY <1>2, EmptySeq DEF LineEnds, Last
  <2> QED
    BY <1>2, <2>1, <2>2
<1> DEFINE w == [NoCall EXCEPT !.pc = "write", !.out = t]
<1>7. w.pc = "write" /\ w.out = t /\ w.usrbuf = <<>>
  BY DEF NoCall
<1>8. /\ call'[e].pc = "write" /\ call'[e].out = t /\ call'[e].usrbuf = <<>>
      /\ call'[Near(c)] = call[Near(c)]
  <2> HIDE DEF w
  <2>1. call'[e] = w /\ \A d \in Ends : d # e => call'[d] = call[d]
    BY <1>0, <1>1 DEF w
  <2> QED
    BY <1>7, <2>1, ConnTypes
<1>9. FarMoves(c) /\ Lineful(e)'
  BY <1>1, <1>8 DEF FarMoves, Unmoved, Lineful
<1>10. Pending(c)' = t /\ Pending(c) = v
  BY <1>1, <1>8 DEF Pending
<1>11. /\ IsPrefix(WithoutNuls(a), UpperCase(taken[e])) /\ NulsFine(a)
       /\ ~eof[e] => NulsFine(a \o v) /\ WithoutNuls(a \o v) = UpperCase(taken[e])
  BY <1>10, ConnTypes DEF ConnInv, Echoing
<1>12. /\ NulsFine(a \o v) => NulsFine(a \o t)
       /\ WithoutNuls(a \o t) = WithoutNuls(a \o v)
  <2> HIDE DEF u, a, e
  <2>1. CASE n = Len(u)
    <3>1. IsPrefix(v, v \o <<"NUL">>)
      BY <1>3, <1>5, PrefixJoined
    <3>2. t = v
      <4>1. v \o <<"NUL">> \in Text
        BY <1>3, <1>5, Joined
      <4>2. SubSeq(v \o <<"NUL">>, 1, Len(v)) = v
        BY <1>3, <3>1, <4>1, PrefixCut
      <4> QED
        BY <1>3, <1>4, <2>1, <4>2
    <3> QED
      BY <3>2
  <2>2. CASE n = Len(u) + 1 /\ Len(u) > 0 /\ u[Len(u)] # "\n"
    <3> DEFINE z == <<"NUL">>
    <3>1. z \in Text /\ Len(z) = 1 /\ v \o z \in Text /\ Len(v \o z) = n
      <4>1. z \in Text /\ Len(z) = 1
        BY <1>5
      <4> HIDE DEF v, z
      <4>2. v \o z \in Text /\ Len(v \o z) = Len(v) + Len(z)
        BY <1>3, <4>1, Joining
      <4> QED
        BY <1>3, <2>2, <4>1, <4>2
    <3>2. t = v \o z
      BY <1>4, <3>1, SubSeqFull DEF Text
    <3>3. WithoutNuls(z) = <<>>
      BY WithoutNulsOnly
    <3>4. Len(u) \in 1 .. Len(u)
      BY <1>2, <2>2
    <3>5. v[Len(v)] \in Uppers /\ Len(v) > 0
      BY <1>2, <1>3, <2>2, <3>4, UpperLine
    <3> HIDE DEF v, z, t
    <3>6. a \o t = (a \o v) \o z /\ a \o v \in Text
      BY <1>2, <1>3, <3>1, <3>2, Regrouped, Joined
    <3>7. WithoutNuls((a \o v) \o z) = WithoutNuls(a \o v)
      <4>1. WithoutNuls((a \o v) \o z) = WithoutNuls(a \o v) \o <<>>
        BY <3>1, <3>3, <3>6, SieveBack
      <4>2. WithoutNuls(a \o v) \in Text
        BY <3>1, <3>6, SieveBack
      <4> QED
        BY <4>1, <4>2, Nothing
    <3>8. Len(a \o v) > 0 /\ (a \o v)[Len(a \o v)] \in Uppers
      <4>1. /\ Len(a) \in Nat /\ Len(v) \in Nat /\ Len(a \o v) = Len(a) + Len(v)
            /\ \A i \in 1 .. Len(v) : (a \o v)[Len(a) + i] = v[i]
        BY <1>2, <1>3, Joining
      <4>2. Len(v) \in 1 .. Len(v)
        BY <3>5, <4>1
      <4> QED
        BY <3>5, <4>1, <4>2
    <3>9. NulsFine(a \o v) => NulsFine((a \o v) \o z)
      BY <3>6, <3>8, FineNul DEF z
    <3> QED
      BY <3>6, <3>7, <3>9
  <2> QED
    BY <1>6, <2>1, <2>2
<1>13. Echoing(c)'
  <2> HIDE DEF t, v
  <2> QED
    BY <1>1, <1>10, <1>11, <1>12 DEF Echoing
<1> QED
  BY <1>8, <1>9, <1>13, NoLine, FarMovesKept

\* The echo has been written, or its rest is lost.
LEMMA FarWriteOver ==
  ASSUME LineInv, NEW c \in Conns, WriteEnds(Far(c)) \/ WriteLost(Far(c))
  PROVE  ConnInv(c)'
<1>0. Far(c) \in Ends /\ call \in [Ends -> Calls] /\ call[Far(c)] \in Calls
  BY ConnTypes DEF RioInv
<1>1. /\ call[Far(c)].pc = "write"
      /\ UNCHANGED <<eof, stream, taken, up, thread, client, line, shown>>
  BY DEF WriteEnds, WriteLost, ends
<1>2. CASE WriteEnds(Far(c))
  <2>1. call' = [call EXCEPT ![Far(c)] = NoCall] /\ call[Far(c)].out = <<>>
    BY <1>2 DEF WriteEnds
  <2>2. /\ call'[Far(c)].pc = "idle" /\ call'[Far(c)].usrbuf = <<>>
        /\ call'[Near(c)] = call[Near(c)]
    BY <1>0, <2>1, ConnTypes DEF NoCall
  <2>3. FarMoves(c) /\ Lineful(Far(c))'
    BY <1>1, <2>2 DEF FarMoves, Unmoved, Lineful
  <2>4. Pending(c)' = Pending(c)
    BY <1>1, <2>1, <2>2 DEF Pending
  <2> QED
    BY <1>1, <2>2, <2>3, <2>4, NoLine, FarCallKept
<1>3. CASE WriteLost(Far(c))
  <2>1. call' = [call EXCEPT ![Far(c)].out = <<>>] /\ eof[Far(c)]
    BY <1>3 DEF WriteLost
  <2>2. /\ call'[Far(c)].pc = "write" /\ call'[Far(c)].usrbuf = call[Far(c)].usrbuf
        /\ call'[Near(c)] = call[Near(c)]
    BY <1>0, <1>1, <2>1, ConnTypes DEF Calls
  <2>3. FarMoves(c) /\ Lineful(Far(c))'
    BY <1>1, <2>2 DEF FarMoves, Unmoved, Lineful
  <2>4. call[Far(c)].usrbuf \in Lines
    BY ConnTypes DEF ConnInv, FromClient
  <2> QED
    BY <1>1, <2>1, <2>2, <2>3, <2>4, FarCallKept
<1> QED
  BY <1>2, <1>3

\* The thread reads on.
LEMMA FarReadKept ==
  ASSUME LineInv, NEW c \in Conns, ReadStep(Far(c)) \/ ReadFails(Far(c)),
         UNCHANGED <<up, thread, client, line, shown>>
  PROVE  ConnInv(c)'
<1> DEFINE e == Far(c)
           a == stream[Near(c)]
           u == call[e].usrbuf
           k == taken[e]
<1>1. PICK b \in Text : Reads(e, b)
  BY ConnTypes, ReadFacts
<1>2. RioInv' /\ e \in Ends
  BY ConnTypes, ReadStepKept
<1>3. /\ a \in Text /\ u \in Lines /\ u \in Text /\ k \in Text
  BY ConnTypes DEF ConnInv, FromClient
<1>4. b \in Lines
  <2>1. k \o b \in Text /\ IsPrefix(k \o b, stream[e])
    <3>1. taken'[e] \in Text /\ IsPrefix(taken'[e], stream'[e])
      BY <1>2, TakenNext DEF TakenParts
    <3> QED
      BY <1>1, <3>1 DEF Reads
  <2>2. k \o b \in Lines
    BY <2>1, ConnTypes, LinePrefix
  <2> QED
    BY <1>3, <2>2, LineSuffix
<1>5. /\ call[e].pc = "read" /\ call'[e].pc \in {"read", "returned"}
      /\ call'[e].usrbuf = u \o b /\ taken'[e] = k \o b /\ eof' = eof /\ stream' = stream
      /\ Unmoved(Near(c))
  BY <1>1, ConnTypes DEF Reads, Unmoved
<1>6. FarMoves(c)
  BY <1>5 DEF FarMoves, Unmoved
<1>7. u \o b \in Lines
  BY <1>3, <1>4, LinesJoined
<1>8. Lineful(e)'
  BY <1>2, ConnTypes, LinefulRead DEF ConnInv
<1> DEFINE v == UpperCase(u)
           w == UpperCase(b)
           m == UpperCase(k)
<1>9. /\ v \in Text /\ w \in Text /\ m \in Text /\ NulFree(w)
      /\ UpperCase(u \o b) = v \o w /\ UpperCase(k \o b) = m \o w
  BY <1>3, <1>4, UpperIs, UpperLine, UpperJoined DEF NulFree
<1>10. Pending(c) = v /\ Pending(c)' = v \o w
  BY <1>5, <1>9 DEF Pending
<1>11. /\ IsPrefix(WithoutNuls(a), m) /\ NulsFine(a)
       /\ ~eof[e] => NulsFine(a \o v) /\ WithoutNuls(a \o v) = m
  BY <1>10, ConnTypes DEF ConnInv, Echoing
<1> HIDE DEF v, w, m, a, u, k
<1>12. a \o (v \o w) = (a \o v) \o w /\ a \o v \in Text /\ WithoutNuls(a) \in Text
  <2>1. a \o v \in Text
    BY <1>3, <1>9, Joined
  <2>2. a \o (v \o w) = (a \o v) \o w
    BY <1>3, <1>9, Regrouped
  <2>3. WithoutNuls(a) \in Text
    BY <1>3, SieveBack
  <2> QED
    BY <2>1, <2>2, <2>3
<1>13. IsPrefix(WithoutNuls(a), m \o w)
  BY <1>9, <1>11, <1>12, PrefixLonger
<1>14. ASSUME ~eof[e]
       PROVE  NulsFine(a \o (v \o w)) /\ WithoutNuls(a \o (v \o w)) = m \o w
  <2>1. NulsFine((a \o v) \o w)
    BY <1>9, <1>11, <1>12, <1>14, FineMore
  <2>2. WithoutNuls((a \o v) \o w) = WithoutNuls(a \o v) \o WithoutNuls(w)
    BY <1>9, <1>12, SieveBack
  <2>3. WithoutNuls(w) = w
    BY <1>9, WithoutNulsNone DEF NulFree
  <2> QED
    BY <1>11, <1>12, <1>14, <2>1, <2>2, <2>3
<1>15. Echoing(c)'
  BY <1>5, <1>9, <1>10, <1>11, <1>13, <1>14 DEF Echoing, a
<1> QED
  BY <1>5, <1>6, <1>7, <1>8, <1>15, FarMovesKept DEF u

-----------------------------------------------------------------------------
(* Bytes on their way.                                                     *)

\* Ends that take nothing meanwhile stay as they are, unless they had seen
\* the end of the stream.
LEMMA ArrivedLineful ==
  ASSUME NEW e, Lineful(e), ~eof[e], call'[e] = call[e]
  PROVE  Lineful(e)'
BY DEF Lineful, Ended, Stored, LineEnds

\* The thread writes.
LEMMA FarWriteKept ==
  ASSUME LineInv, NEW c \in Conns, thread[c] = "echo", up, ~eof[Far(c)],
         Write(Far(c), Near(c)), UNCHANGED <<up, thread, client, line, shown>>
  PROVE  ConnInv(c)'
<1> DEFINE e == Far(c)
           a == stream[Near(c)]
           m == UpperCase(taken[e])
<1>1. PICK b, t \in Text : Writes(e, b, t)
  BY ConnTypes, WriteFacts
<1>2. /\ call[e].pc = "write" /\ call[e].out = b \o t /\ call'[e].pc = "write" /\ call'[e].out = t
      /\ call'[e].usrbuf = call[e].usrbuf /\ stream'[Near(c)] = a \o b
      /\ taken' = taken /\ eof' = eof /\ call'[Near(c)] = call[Near(c)]
      /\ stream'[Far(c)] = stream[Far(c)]
  BY <1>1, ConnTypes DEF Writes
<1>3. ~eof[Near(c)] /\ a \in Text /\ m \in Text
  BY ConnTypes, UpperIs DEF ConnInv, Gone
<1>4. Lineful(Near(c))' /\ Lineful(Far(c))'
  BY <1>2, <1>3, ConnTypes, ArrivedLineful DEF ConnInv, Lineful
<1>5. Gone(c)' /\ FromClient(c)' /\ Phases(c)'
  BY <1>2, ConnTypes DEF ConnInv, Gone, FromClient, Phases
<1>6. Echoing(c)'
  <2>1. Pending(c) = b \o t /\ Pending(c)' = t
    BY <1>2 DEF Pending
  <2>2. NulsFine(a \o (b \o t)) /\ WithoutNuls(a \o (b \o t)) = m
    BY <2>1, ConnTypes DEF ConnInv, Echoing
  <2> HIDE DEF a, m
  <2>3. a \o (b \o t) = (a \o b) \o t
    BY <1>3, Regrouped
  <2>4. a \o b \in Text
    BY <1>3, Joined
  <2>5. NulsFine(a \o b)
    BY <2>2, <2>3, <2>4, FineFront
  <2>6. IsPrefix(WithoutNuls(a \o b), m)
    <3>1. /\ WithoutNuls((a \o b) \o t) = WithoutNuls(a \o b) \o WithoutNuls(t)
          /\ WithoutNuls(a \o b) \in Text
      BY <2>4, SieveBack
    <3>2. WithoutNuls(t) \in Text
      BY SieveBack
    <3> QED
      BY <2>2, <2>3, <3>1, <3>2, PrefixJoined
  <2> QED
    BY <1>2, <2>1, <2>2, <2>3, <2>5, <2>6 DEF Echoing, m, a
<1>7. NulFree(stream'[Near(c)]) => NulFree(stream[Near(c)])
  BY <1>2, <1>3, FreeParts
<1>8. Answered(c)'
  BY <1>2, <1>3, <1>7, ConnTypes DEF ConnInv, Answered
<1>9. InStep(c)'
  <2>1. \A s : After(c, s) => After(c, s)'
    BY <1>2 DEF After
  <2>2. ~Drained(c)
    BY <1>3 DEF Drained, Ended
  <2> QED
    BY <1>7, <2>1, <2>2, ConnTypes DEF ConnInv, InStep
<1> QED
  BY <1>4, <1>5, <1>6, <1>8, <1>9 DEF ConnInv

\* The client writes.
LEMMA NearWriteKept ==
  ASSUME LineInv, NEW c \in Conns, client[c] \notin {"start", "done"}, ~eof[Near(c)],
         Write(Near(c), Far(c)), UNCHANGED <<up, thread, client, line, shown>>
  PROVE  ConnInv(c)'
<1> DEFINE e == Near(c)
           a == stream[Far(c)]
<1>1. PICK b, t \in Text : Writes(e, b, t)
  BY ConnTypes, WriteFacts
<1>2. /\ call[e].pc = "write" /\ call[e].out = b \o t /\ call'[e].pc = "write" /\ call'[e].out = t
      /\ call'[e].usrbuf = call[e].usrbuf /\ stream'[Far(c)] = a \o b
      /\ taken' = taken /\ eof' = eof /\ call'[Far(c)] = call[Far(c)]
      /\ stream'[Near(c)] = stream[Near(c)]
  BY <1>1, ConnTypes DEF Writes
<1>3. client[c] = "send" /\ ~eof[Far(c)]
  BY <1>2, ConnTypes DEF ConnInv, Phases, Gone, LineInv, Processes
<1>4. a \in Lines /\ a \in Text /\ t \in Lines /\ b \in Lines
  <2>1. b \o t \in Lines
    BY <1>2, ConnTypes DEF ConnInv, FromClient
  <2>2. IsPrefix(b, b \o t)
    BY PrefixJoined
  <2> QED
    BY <2>1, <2>2, ConnTypes, LinePrefix, LineSuffix
<1>5. Lineful(Near(c))' /\ Lineful(Far(c))'
  BY <1>2, <1>3, ConnTypes, ArrivedLineful DEF ConnInv, Lineful
<1>6. FromClient(c)'
  <2>1. a \o b \in Lines
    BY <1>4, LinesJoined
  <2> QED
    BY <1>2, <1>4, <2>1, ConnTypes DEF ConnInv, FromClient
<1>7. Gone(c)' /\ Phases(c)' /\ Echoing(c)' /\ Answered(c)'
  BY <1>2, <1>3, ConnTypes DEF ConnInv, Gone, Phases, Echoing, Pending, Answered
<1>8. InStep(c)'
  <2>1. ASSUME NEW s \in Lines, After(c, s)
        PROVE  After(c, s)'
    <3>1. /\ taken[e] = UpperCase(s) /\ a \o (b \o t) = s \o line[c]
      BY <1>2, <1>3, <2>1 DEF After
    <3>2. (a \o b) \o t = s \o line[c] /\ a \o b \in Text
      BY <1>4, <3>1, Regrouped, Joined
    <3>3. IsPrefix(a \o b, s \o line[c])
      BY <3>2, PrefixJoined
    <3> QED
      BY <1>2, <1>3, <3>1, <3>2, <3>3 DEF After
  <2>2. ~Drained(c)
    BY DEF Drained, Ended
  <2> QED
    BY <1>2, <2>1, <2>2, ConnTypes DEF ConnInv, InStep
<1> QED
  BY <1>5, <1>6, <1>7, <1>8 DEF ConnInv

-----------------------------------------------------------------------------
(* Steps of a client.                                                      *)

\* Only the client, its call and what it prints change.
NearMoves(c) ==
  /\ Unmoved(Far(c)) /\ stream'[Near(c)] = stream[Near(c)]
  /\ client[c] \notin {"start", "done"} /\ client'[c] # "start"
  /\ thread'[c] = thread[c] /\ up' = up /\ eof' = eof

LEMMA NearMovesKept ==
  ASSUME LineInv, NEW c \in Conns, NearMoves(c), Lineful(Near(c))',
         call'[Near(c)].out \in Lines, OneLine(line'[c]), Phases(c)', InStep(c)', Answered(c)'
  PROVE  ConnInv(c)'
<1>1. Lineful(Far(c))'
  BY ConnTypes, UnmovedLineful DEF ConnInv, NearMoves
<1>2. Gone(c)'
  BY ConnTypes DEF ConnInv, NearMoves, Gone
<1>3. FromClient(c)'
  BY ConnTypes DEF ConnInv, NearMoves, Unmoved, FromClient
<1>4. Echoing(c)'
  BY ConnTypes DEF ConnInv, NearMoves, Unmoved, Echoing, Pending
<1> QED
  BY <1>1, <1>2, <1>3, <1>4 DEF ConnInv

\* The line has been written, or its rest is lost.
LEMMA NearWriteOver ==
  ASSUME LineInv, NEW c \in Conns, WriteEnds(Near(c)) \/ WriteLost(Near(c))
  PROVE  ConnInv(c)'
<1>0. Near(c) \in Ends /\ call \in [Ends -> Calls] /\ call[Near(c)] \in Calls
  BY ConnTypes DEF RioInv
<1>1. /\ call[Near(c)].pc = "write" /\ client[c] \notin {"start", "done"}
      /\ UNCHANGED <<eof, stream, taken, up, thread, client, line, shown>>
  BY Sides DEF WriteEnds, WriteLost, ends, Open
<1>2. client[c] = "send" /\ OneLine(line[c])
  BY <1>1, ConnTypes DEF ConnInv, Phases, FromClient, LineInv, Processes
<1>3. /\ call'[Near(c)].pc \in {"idle", "write"} /\ call'[Near(c)].out = <<>>
      /\ call'[Far(c)] = call[Far(c)]
      /\ eof[Near(c)] \/ call[Near(c)].out = <<>>
  <2>1. CASE WriteEnds(Near(c))
    BY <1>0, <2>1, ConnTypes DEF WriteEnds, NoCall
  <2>2. CASE WriteLost(Near(c))
    BY <1>0, <1>1, <2>2, ConnTypes DEF WriteLost, Calls
  <2> QED
    BY <2>1, <2>2
<1>4. NearMoves(c) /\ Lineful(Near(c))' /\ Phases(c)' /\ Answered(c)'
  BY <1>1, <1>2, <1>3 DEF NearMoves, Unmoved, Lineful, Phases, Answered
<1>5. InStep(c)'
  <2>1. \A s : After(c, s) => After(c, s)'
    BY <1>1, <1>2, <1>3 DEF After
  <2>2. Drained(c) => Drained(c)'
    BY <1>1, <1>2 DEF Drained, Ended
  <2> QED
    BY <1>1, <2>1, <2>2, ConnTypes DEF ConnInv, InStep
<1> QED
  BY <1>1, <1>2, <1>3, <1>4, <1>5, NoLine, NearMovesKept

LEMMA SentKept ==
  ASSUME LineInv, NEW c \in Conns, Sent(c)
  PROVE  ConnInv(c)'
<1>1. /\ client[c] = "send" /\ client'[c] = "receive"
      /\ call' = [call EXCEPT ![Near(c)] = [NoCall EXCEPT !.pc = "read", !.kind = "line",
                                                         !.n = MAXLINE]]
      /\ UNCHANGED <<eof, stream, taken, up, thread, line, shown>>
  BY DEF Sent, Read, LineInv, Processes
<1>2. /\ call'[Near(c)].pc = "read" /\ call'[Near(c)].kind = "line"
      /\ call'[Near(c)].n = MAXLINE /\ call'[Near(c)].usrbuf = <<>>
      /\ call'[Near(c)].out = <<>> /\ call'[Far(c)] = call[Far(c)]
  BY <1>1, ConnTypes DEF RioInv, NoCall
<1>3. NearMoves(c) /\ Phases(c)' /\ Answered(c)'
  BY <1>1, <1>2 DEF NearMoves, Unmoved, Phases, Answered
<1>4. Lineful(Near(c))'
  <2>1. Len(<<>>) <= MAXLINE - 1
    BY EchoAssumption, Nothing
  <2> QED
    BY <1>2, <2>1 DEF Lineful, Stored
<1>5. InStep(c)'
  <2>1. ASSUME NEW s \in Lines, After(c, s)
        PROVE  After(c, s)'
    <3>1. UpperCase(s) \o <<>> = UpperCase(s)
      BY LineText, UpperIs, Nothing
    <3> QED
      BY <1>1, <1>2, <2>1, <3>1 DEF After
  <2>2. Drained(c) => Drained(c)'
    BY <1>1, <1>2 DEF Drained, Ended
  <2> QED
    BY <1>1, <2>1, <2>2, ConnTypes DEF ConnInv, InStep
<1>6. OneLine(line'[c])
  BY <1>1, ConnTypes DEF ConnInv, FromClient
<1> QED
  BY <1>2, <1>3, <1>4, <1>5, <1>6, NoLine, NearMovesKept

\* The client reads on.
LEMMA NearReadKept ==
  ASSUME LineInv, NEW c \in Conns, client[c] \notin {"start", "done"},
         ReadStep(Near(c)) \/ ReadFails(Near(c)), UNCHANGED <<up, thread, client, line, shown>>
  PROVE  ConnInv(c)'
<1> DEFINE e == Near(c)
           u == call[e].usrbuf
<1>1. PICK b \in Text : Reads(e, b)
  BY ConnTypes, ReadFacts
<1>2. RioInv' /\ e \in Ends
  BY ConnTypes, ReadStepKept
<1>3. /\ call[e].pc = "read" /\ call'[e].pc \in {"read", "returned"}
      /\ call'[e].usrbuf = u \o b /\ taken'[e] = taken[e] \o b /\ eof' = eof /\ stream' = stream
      /\ call'[e].out = call[e].out /\ Unmoved(Far(c))
  BY <1>1, ConnTypes DEF Reads, Unmoved
<1>4. client[c] = "receive"
  BY <1>3, ConnTypes DEF ConnInv, Phases, LineInv, Processes
<1>5. NearMoves(c) /\ Phases(c)' /\ Answered(c)'
  BY <1>3, <1>4 DEF NearMoves, Phases, Answered
<1>6. Lineful(e)'
  BY <1>2, ConnTypes, LinefulRead DEF ConnInv
<1>7. call[e].out \in Lines /\ OneLine(line[c])
  BY ConnTypes DEF ConnInv, FromClient
<1>8. InStep(c)'
  <2>1. ASSUME NEW s \in Lines, After(c, s)
        PROVE  After(c, s)'
    <3>1. taken[e] = UpperCase(s) \o u /\ IsPrefix(stream[Far(c)], s \o line[c])
      BY <1>4, <2>1 DEF After
    <3>2. UpperCase(s) \in Text /\ u \in Text
      BY ConnTypes, UpperLine
    <3>3. (UpperCase(s) \o u) \o b = UpperCase(s) \o (u \o b)
      BY <3>2, Regrouped
    <3> QED
      BY <1>3, <1>4, <3>1, <3>3 DEF After
  <2>2. ASSUME Drained(c) PROVE Drained(c)'
    <3>1. eof[e] /\ taken[e] = stream[e] /\ u = <<>>
      BY <1>4, <2>2 DEF Drained, Ended
    <3>2. IsPrefix(taken[e] \o b, taken[e])
      BY <1>2, <1>3, <3>1, TakenNext DEF TakenParts
    <3>3. b = <<>>
      BY <3>2, ConnTypes, NoMore
    <3>4. taken'[e] = taken[e] /\ call'[e].usrbuf = <<>>
      BY <1>3, <3>1, <3>3, ConnTypes, Nothing
    <3> QED
      BY <1>3, <3>1, <3>4 DEF Drained, Ended
  <2> QED
    BY <1>3, <2>1, <2>2, ConnTypes DEF ConnInv, InStep
<1> QED
  BY <1>3, <1>5, <1>6, <1>7, <1>8, NearMovesKept

-----------------------------------------------------------------------------
(* The next line.                                                          *)

LEMMA NextLineIs ==
  ASSUME NEW s \in Inputs
  PROVE  /\ NextLine(s) \in Inputs /\ OneLine(NextLine(s))
         /\ SubSeq(s, Len(NextLine(s)) + 1, Len(s)) \in Inputs
<1> DEFINE I == {i \in 1 .. Len(s) : s[i] = "\n"}
           nl == SelectInSeq(s, LAMBDA b : b = "\n")
           whole == IF nl = 0 THEN Len(s) ELSE nl
           n == IF whole < MAXLINE THEN whole ELSE MAXLINE - 1
           L == Letters \cup {"\n", "NUL"}
<1>1. Len(s) \in Nat /\ \A i \in 1 .. Len(s) : s[i] \in L
  BY LenProperties, ElementOfSeq DEF Inputs
<1>2. nl = IF I # {} THEN Min(I) ELSE 0
  BY DEF SelectInSeq
<1>3. whole \in 0 .. Len(s) /\ \A i \in 1 .. whole - 1 : s[i] # "\n"
  <2>1. CASE I = {}
    BY <1>1, <1>2, <2>1
  <2>2. CASE I # {}
    <3>1. Min(I) \in I /\ \A j \in I : Min(I) <= j
      <4>1. I \in SUBSET Nat
        BY <1>1
      <4>2. \E i \in I : \A j \in I : i <= j
        BY <2>2, <4>1, LeastNatural
      <4> QED
        BY <4>2 DEF Min
    <3>2. nl = Min(I) /\ nl \in 1 .. Len(s)
      BY <1>2, <2>2, <3>1
    <3>3. whole = nl /\ nl \in Nat \ {0} /\ nl <= Len(s)
      BY <1>1, <3>2
    <3> HIDE DEF whole, nl
    <3>4. ASSUME NEW i \in 1 .. whole - 1, s[i] = "\n" PROVE FALSE
      <4>1. i \in 1 .. Len(s) /\ ~(nl <= i)
        BY <1>1, <3>3
      <4> QED
        BY <3>1, <3>2, <3>4, <4>1
    <3> QED
      BY <1>1, <3>3, <3>4
  <2> QED
    BY <2>1, <2>2
<1>4. NextLine(s) = SubSeq(s, 1, n)
  BY DEF NextLine
<1> HIDE DEF whole
<1>5. n \in Nat /\ n <= Len(s) /\ n <= whole /\ n <= MAXLINE - 1
  BY <1>1, <1>3, EchoAssumption
<1> HIDE DEF n
<1>6. /\ SubSeq(s, 1, n) \in Seq(L) /\ Len(SubSeq(s, 1, n)) = n
      /\ \A i \in 1 .. n : SubSeq(s, 1, n)[i] = s[i]
  <2>1. \A i \in 1 .. n : s[i] \in L
    BY <1>1, <1>5
  <2>2. /\ SubSeq(s, 1, n) \in Seq(L) /\ Len(SubSeq(s, 1, n)) = IF 1 <= n THEN n - 1 + 1 ELSE 0
        /\ \A i \in 1 .. n - 1 + 1 : SubSeq(s, 1, n)[i] = s[1 + i - 1]
    BY <1>5, <2>1, SubSeqProperties
  <2>3. /\ (IF 1 <= n THEN n - 1 + 1 ELSE 0) = n /\ n - 1 + 1 = n
        /\ \A i \in 1 .. n : 1 + i - 1 = i
    BY <1>5
  <2> QED
    BY <2>2, <2>3
<1>7. OneLine(NextLine(s))
  <2>1. ASSUME NEW i \in 1 .. n - 1 PROVE s[i] # "\n" /\ i \in 1 .. n
    <3>1. i \in 1 .. whole - 1 /\ i \in 1 .. n
      BY <1>1, <1>3, <1>5
    <3> QED
      BY <1>3, <3>1
  <2> QED
    BY <1>4, <1>5, <1>6, <2>1 DEF OneLine
<1>8. SubSeq(s, n + 1, Len(s)) \in Seq(L)
  <2>1. \A i \in n + 1 .. Len(s) : s[i] \in L
    BY <1>1, <1>5
  <2>2. n + 1 \in Int /\ Len(s) \in Int
    BY <1>1, <1>5
  <2> QED
    BY <2>1, <2>2, SubSeqProperties
<1> QED
  BY <1>4, <1>6, <1>7, <1>8 DEF Inputs

\* What is sent of it.
LEMMA SentIs ==
  ASSUME NEW s \in Inputs, OneLine(s)
  PROVE  CString(s) \in Lines /\ OneLine(CString(s))
<1> DEFINE t == CString(s)
<1>1. /\ s \in Text /\ Len(s) \in Nat
      /\ \A i \in 1 .. Len(s) : s[i] \in Letters \cup {"\n", "NUL"}
  <2>1. Letters \cup {"\n", "NUL"} \subseteq Bytes
    BY RioAssumption, UpperFacts
  <2> QED
    BY <2>1, SeqMonotonic, LenProperties, ElementOfSeq DEF Inputs, Text
<1>2. /\ t \in Text /\ Len(t) \in Nat /\ Len(t) <= Len(s)
      /\ \A i \in 1 .. Len(t) : t[i] = s[i] /\ s[i] # "NUL"
  BY <1>1, CStringText
<1> HIDE DEF t
<1>3. t \in Lines
  <2>1. \A i \in 1 .. Len(t) : t[i] \in Letters \cup {"\n"}
    BY <1>1, <1>2
  <2>2. SubSeq(t, 1, Len(t)) \in Seq(Letters \cup {"\n"})
    BY <1>2, <2>1, SubSeqProperties
  <2> QED
    BY <1>2, <2>2, SubSeqFull DEF Lines, Text
<1>4. OneLine(t)
  <2>1. Len(t) <= MAXLINE - 1
    BY <1>1, <1>2, EchoAssumption DEF OneLine
  <2>2. ASSUME NEW i \in 1 .. Len(t) - 1 PROVE t[i] # "\n"
    <3>1. i \in 1 .. Len(t) /\ i \in 1 .. Len(s) - 1
      BY <1>1, <1>2
    <3> QED
      BY <1>2, <3>1 DEF OneLine
  <2> QED
    BY <2>1, <2>2 DEF OneLine
<1> QED
  BY <1>3, <1>4 DEF t

LEMMA PromptKept ==
  ASSUME LineInv, NEW c \in Conns, Prompt(c)
  PROVE  ConnInv(c)'
<1> DEFINE l == CString(NextLine(stdin[c]))
<1>1. l \in Lines /\ OneLine(l) /\ l \in Text
  BY ConnTypes, NextLineIs, SentIs, LineText
<1>2. /\ client[c] = "prompt" /\ client'[c] = "send" /\ line'[c] = l
      /\ call' = [call EXCEPT ![Near(c)] = [NoCall EXCEPT !.pc = "write", !.out = l]]
      /\ UNCHANGED <<eof, stream, taken, up, thread, shown>>
  BY DEF Prompt, ends, LineInv, Processes
<1> HIDE DEF l
<1>3. /\ call'[Near(c)].pc = "write" /\ call'[Near(c)].out = l /\ call'[Far(c)] = call[Far(c)]
  BY <1>2, ConnTypes DEF RioInv, NoCall
<1>4. NearMoves(c) /\ Lineful(Near(c))' /\ Phases(c)' /\ Answered(c)'
  BY <1>2, <1>3 DEF NearMoves, Unmoved, Lineful, Phases, Answered
<1>5. InStep(c)'
  <2>1. ASSUME NEW s \in Lines, After(c, s)
        PROVE  After(c, s)'
    <3>1. taken[Near(c)] = UpperCase(s) /\ stream[Far(c)] = s
      BY <1>2, <2>1 DEF After
    <3>2. IsPrefix(s, s \o l)
      BY <1>1, LineText, PrefixJoined
    <3> QED
      BY <1>2, <1>3, <3>1, <3>2 DEF After
  <2>2. Drained(c) => Drained(c)'
    BY <1>2 DEF Drained, Ended
  <2> QED
    BY <1>2, <2>1, <2>2, ConnTypes DEF ConnInv, InStep
<1> QED
  BY <1>1, <1>2, <1>3, <1>4, <1>5, NearMovesKept

-----------------------------------------------------------------------------
(* The answer.                                                             *)

\* Without NULs, what the client has got is a part of what has arrived at the
\* server, in upper case.
LEMMA EchoedSoFar ==
  ASSUME LineInv, NEW c \in Conns, NulFree(stream[Near(c)])
  PROVE  IsPrefix(taken[Near(c)], UpperCase(stream[Far(c)]))
<1> DEFINE a == stream[Near(c)]
<1>1. a \in Text /\ taken[Near(c)] \in Text /\ IsPrefix(taken[Near(c)], a)
  BY ConnTypes
<1>2. WithoutNuls(a) = a
  BY <1>1, WithoutNulsNone DEF NulFree
<1>3. IsPrefix(a, UpperCase(taken[Far(c)]))
  BY <1>2, ConnTypes DEF ConnInv, Echoing
<1>4. /\ IsPrefix(UpperCase(taken[Far(c)]), UpperCase(stream[Far(c)]))
      /\ UpperCase(taken[Far(c)]) \in Text /\ UpperCase(stream[Far(c)]) \in Text
  BY ConnTypes, PrefixUpper, UpperIs
<1> HIDE DEF a
<1>5. IsPrefix(taken[Near(c)], UpperCase(taken[Far(c)]))
  BY <1>1, <1>3, <1>4, PrefixTrans
<1> QED
  BY <1>1, <1>4, <1>5, PrefixTrans

\* So what it has got of a line is a part of its echo, and when it has got as
\* much, all has arrived at the server.
LEMMA EchoOfLine ==
  ASSUME LineInv, NEW c \in Conns, NulFree(stream[Near(c)]), client[c] = "receive",
         NEW s \in Lines, After(c, s)
  PROVE  /\ IsPrefix(call[Near(c)].usrbuf, UpperCase(line[c]))
         /\ NulFree(call[Near(c)].usrbuf)
         /\ call[Near(c)].usrbuf = UpperCase(line[c]) =>
              /\ taken[Near(c)] = UpperCase(s \o line[c]) /\ stream[Far(c)] = s \o line[c]
<1> DEFINE u == call[Near(c)].usrbuf
           l == line[c]
           x == stream[Far(c)]
           v == UpperCase(s)
           w == UpperCase(l)
           y == UpperCase(x)
           z == s \o l
<1>1. taken[Near(c)] = v \o u /\ IsPrefix(x, z)
  BY DEF After
<1>2. /\ s \in Text /\ l \in Text /\ x \in Text /\ u \in Text /\ l \in Lines
      /\ v \in Text /\ w \in Text /\ y \in Text /\ z \in Text /\ NulFree(w)
      /\ Len(y) = Len(x)
  BY ConnTypes, LineText, UpperLine, UpperIs, Joined DEF NulFree
<1>3. UpperCase(z) = v \o w /\ Len(UpperCase(z)) = Len(z) /\ UpperCase(z) \in Text
  BY <1>2, UpperJoined, UpperIs
<1>4. IsPrefix(v \o u, y)
  BY <1>1, EchoedSoFar
<1>5. IsPrefix(y, v \o w)
  BY <1>1, <1>2, <1>3, PrefixUpper
<1> HIDE DEF u, l, x, v, w, y, z
<1>6. v \o u \in Text /\ v \o w \in Text /\ Len(v \o w) = Len(z)
  BY <1>2, <1>3, Joined
<1>7. IsPrefix(v \o u, v \o w)
  BY <1>2, <1>4, <1>5, <1>6, PrefixTrans
<1>8. IsPrefix(u, w)
  BY <1>2, <1>7, PrefixCancelled
<1>9. NulFree(u)
  <2>1. Len(u) <= Len(w) /\ \A i \in 1 .. Len(u) : u[i] = w[i]
    BY <1>2, <1>8, PrefixIs
  <2>2. Len(u) \in Nat /\ Len(w) \in Nat
    BY <1>2, LenProperties DEF Text
  <2>3. \A i \in 1 .. Len(u) : i \in 1 .. Len(w)
    BY <2>1, <2>2
  <2> QED
    BY <1>2, <2>1, <2>3 DEF NulFree
<1>10. ASSUME u = w PROVE v \o u = UpperCase(z) /\ x = z
  <2>1. Len(v \o u) <= Len(y)
    BY <1>2, <1>4, <1>6, PrefixIs
  <2>2. Len(z) <= Len(x)
    BY <1>2, <1>6, <1>10, <2>1
  <2> QED
    BY <1>1, <1>2, <1>3, <1>10, <2>2, PrefixWhole
<1> QED
  BY <1>1, <1>8, <1>9, <1>10 DEF u, w, x, z, v, l

\* A whole line of echo is the echo of the line.
LEMMA EchoWhole ==
  ASSUME NEW u \in Text, NEW l \in Lines, OneLine(l), IsPrefix(u, UpperCase(l)),
         Len(u) > 0, u[Len(u)] = "\n" \/ Len(u) = MAXLINE - 1
  PROVE  u = UpperCase(l)
<1>1. /\ UpperCase(l) \in Text /\ Len(UpperCase(l)) = Len(l) /\ Len(l) \in Nat /\ Len(u) \in Nat
      /\ Len(u) <= Len(l) /\ \A i \in 1 .. Len(u) : u[i] = UpperCase(l)[i]
  BY UpperLine, PrefixIs, LenProperties DEF Text
<1>2. CASE Len(u) = MAXLINE - 1
  BY <1>1, <1>2, PrefixWhole DEF OneLine
<1>3. CASE u[Len(u)] = "\n"
  <2>1. Len(u) \in 1 .. Len(u) /\ Len(u) \in 1 .. Len(l)
    BY <1>1
  <2>2. l[Len(u)] = "\n"
    BY <1>1, <1>3, <2>1, UpperLine
  <2>3. Len(u) \notin 1 .. Len(l) - 1
    BY <2>2 DEF OneLine
  <2>4. Len(l) <= Len(u)
    BY <1>1, <2>1, <2>3
  <2> QED
    BY <1>1, <2>4, PrefixWhole
<1> QED
  BY <1>2, <1>3

LEMMA ShowKept ==
  ASSUME LineInv, NEW c \in Conns, Show(c)
  PROVE  ConnInv(c)'
<1> DEFINE e == Near(c)
           u == call[e].usrbuf
           l == line[c]
           n == call[e].ret
<1>1. /\ client[c] = "receive" /\ client'[c] = "prompt" /\ call[e].pc = "returned" /\ n >= 0
      /\ shown'[c] = IF n = 0 THEN l ELSE CString(Append(u, "NUL"))
      /\ call' = [call EXCEPT ![e] = NoCall]
      /\ UNCHANGED <<eof, stream, taken, up, thread, line>>
  BY DEF Show, ends, Buffer, LineInv, Processes
<1>2. /\ u \in Text /\ l \in Lines /\ OneLine(l) /\ n \in Int
      /\ Stored(e) = Len(u) /\ Len(u) \in Nat
  BY ConnTypes DEF ConnInv, FromClient, Stored
<1>3. call'[e].pc = "idle" /\ call'[e].out = <<>> /\ call'[Far(c)] = call[Far(c)]
  BY <1>1, ConnTypes DEF RioInv, NoCall
<1>4. NearMoves(c) /\ Lineful(e)' /\ Phases(c)'
  BY <1>1, <1>3 DEF NearMoves, Unmoved, Lineful, Phases
<1>5. Drained(c)' <=> Ended(e)
  BY <1>1 DEF Drained, Ended
<1>6. \/ n = Len(u) /\ Len(u) > 0 /\ u[Len(u)] = "\n"
      \/ n = Len(u) + 1 /\ Len(u) > 0 /\ (Ended(e) \/ Len(u) = MAXLINE - 1)
      \/ n = 0 /\ Ended(e)
  <2>1. \/ LineEnds(e) /\ n = Stored(e)
        \/ /\ ~LineEnds(e) /\ Stored(e) > 0 /\ n = Stored(e) + 1
           /\ Ended(e) \/ Stored(e) = MAXLINE - 1
        \/ n = 0 /\ Ended(e)
    <3>1. Lineful(e) /\ n # -1
      BY <1>1, <1>2, ConnTypes DEF ConnInv
    <3> QED
      BY <1>1, <3>1 DEF Lineful
  <2>2. LineEnds(e) => Len(u) > 0 /\ u[Len(u)] = "\n"
    BY <1>2, EmptySeq DEF LineEnds, Last, Text
  <2> QED
    BY <1>2, <2>1, <2>2
<1>7. ASSUME NulFree(stream[e])
      PROVE  /\ Drained(c)' \/ \E s \in Lines : After(c, s)'
             /\ \/ shown'[c] = UpperCase(l)
                \/ eof[e] /\ (shown'[c] = l \/ IsPrefix(shown'[c], UpperCase(l)))
  <2>1. CASE n = 0 /\ Ended(e)
    BY <1>1, <1>5, <2>1 DEF Ended
  <2>2. CASE ~(n = 0 /\ Ended(e))
    <3>1. n # 0 /\ Len(u) > 0 /\ (u[Len(u)] = "\n" \/ Ended(e) \/ Len(u) = MAXLINE - 1)
      BY <1>2, <1>6, <2>2
    <3>2. ~Drained(c)
      <4>1. u # <<>>
        BY <1>2, <3>1, EmptySeq
      <4> QED
        BY <1>1, <4>1 DEF Drained
    <3>3. PICK s \in Lines : After(c, s)
      BY <1>7, <3>2, ConnTypes DEF ConnInv, InStep
    <3>4. /\ IsPrefix(u, UpperCase(l)) /\ NulFree(u)
          /\ u = UpperCase(l) => taken[e] = UpperCase(s \o l) /\ stream[Far(c)] = s \o l
      BY <1>1, <1>7, <3>3, EchoOfLine
    <3>5. shown'[c] = u
      BY <1>1, <1>2, <3>1, <3>4, CStringFree
    <3>6. CASE Ended(e)
      BY <1>5, <3>4, <3>5, <3>6 DEF Ended
    <3>7. CASE u[Len(u)] = "\n" \/ Len(u) = MAXLINE - 1
      <4>1. u = UpperCase(l)
        BY <1>2, <3>1, <3>4, <3>7, EchoWhole
      <4>2. PICK r \in Lines : r = s \o l
        BY <1>2, LinesJoined
      <4>3. After(c, r)'
        BY <1>1, <3>4, <4>1, <4>2 DEF After
      <4> QED
        BY <3>5, <4>1, <4>3
    <3> QED
      BY <3>1, <3>6, <3>7
  <2> QED
    BY <2>1, <2>2
<1>8. InStep(c)' /\ Answered(c)'
  BY <1>1, <1>7 DEF InStep, Answered
<1> QED
  BY <1>1, <1>2, <1>3, <1>4, <1>8, NoLine, NearMovesKept

-----------------------------------------------------------------------------
(* All steps.                                                              *)

LEMMA LineInit == Init => LineInv
<1> SUFFICES ASSUME Init PROVE LineInv
  OBVIOUS
<1>1. EInv
  BY EchoInit
<1>2. BoundedSeq(Letters \cup {"\n", "NUL"}, MaxInput) \subseteq Inputs
  <2>1. \A n \in 0 .. MaxInput : [1 .. n -> Letters \cup {"\n", "NUL"}] \subseteq Inputs
    BY EchoAssumption DEF Inputs
  <2> QED
    BY <2>1 DEF BoundedSeq, SeqOf
<1>3. Processes
  BY <1>2, NoLine, Nothing DEF Init, RioInit, Processes
<1>4. ASSUME NEW c \in Conns PROVE ConnInv(c)
  <2>1. /\ call[Near(c)] = NoCall /\ call[Far(c)] = NoCall
        /\ taken[Near(c)] = <<>> /\ taken[Far(c)] = <<>>
        /\ stream[Near(c)] = <<>> /\ stream[Far(c)] = <<>>
        /\ ~eof[Near(c)] /\ ~eof[Far(c)]
        /\ client[c] = "start" /\ thread[c] = "none" /\ line[c] = <<>> /\ shown[c] = <<>>
    BY Sides DEF Init, RioInit
  <2>2. NoCall.pc = "idle" /\ NoCall.usrbuf = <<>> /\ NoCall.out = <<>>
    BY DEF NoCall
  <2>3. Len(<<>>) = 0 /\ <<>> \in Text /\ <<>> \o <<>> = <<>>
    BY Nothing
  <2>4. WithoutNuls(<<>>) = <<>> /\ IsPrefix(<<>>, <<>>)
    BY <2>3, WithoutNulsNone, PrefixSame
  <2>5. Lineful(Near(c)) /\ Lineful(Far(c)) /\ Gone(c) /\ Phases(c) /\ Answered(c)
    BY <2>1, <2>2 DEF Lineful, Gone, Phases, Answered
  <2>6. FromClient(c)
    <3>1. OneLine(<<>>)
      BY <2>3, EchoAssumption DEF OneLine
    <3> QED
      BY <2>1, <2>2, <3>1, NoLine DEF FromClient
  <2>7. Echoing(c)
    <3>1. NulsFine(<<>>)
      BY <2>3 DEF NulsFine
    <3>2. Pending(c) = <<>>
      BY <2>1, <2>2 DEF Pending
    <3> QED
      BY <2>1, <2>3, <2>4, <3>1, <3>2, UpperNothing DEF Echoing
  <2>8. After(c, <<>>)
    BY <2>1, UpperNothing DEF After
  <2> QED
    BY <2>5, <2>6, <2>7, <2>8, NoLine DEF ConnInv, InStep
<1> QED
  BY <1>1, <1>3, <1>4 DEF LineInv

\* What a step of one connection does to the others.
LEMMA OthersStill ==
  ASSUME LineInv, NEW c \in Conns, NEW d \in Conns, d # c,
         \A e \in Ends : e # Near(c) /\ e # Far(c) => Unmoved(e) /\ eof'[e] = eof[e],
         client'[d] = client[d], line'[d] = line[d], shown'[d] = shown[d],
         thread'[d] = thread[d], up' = up
  PROVE  ConnInv(d)'
<1>1. Near(d) \in Ends /\ Far(d) \in Ends /\ Near(d) # Near(c) /\ Near(d) # Far(c)
      /\ Far(d) # Near(c) /\ Far(d) # Far(c)
  BY Sides
<1>2. Still(d)
  BY <1>1 DEF Still
<1> QED
  BY <1>2, ConnTypes, StillKept

\* The end of the server's process.
LEMMA ServerEndsKept ==
  ASSUME LineInv, ServerEnds, NEW c \in Conns
  PROVE  ConnInv(c)'
<1>1. /\ ~up' /\ UNCHANGED <<call, stream, taken, thread, client, line, shown>>
      /\ eof' = [e \in Ends |-> eof[e] \/ Peer(e) \in {Far(d) : d \in Conns}]
  BY DEF ServerEnds, Closing
<1>2. eof'[Far(c)] = eof[Far(c)]
  <2>1. Peer(Far(c)) = Near(c) /\ \A d \in Conns : Near(c) # Far(d)
    BY Sides
  <2> QED
    BY <1>1, <2>1, ConnTypes DEF LineInv, Processes
<1>3. eof[Near(c)] => eof'[Near(c)]
  BY <1>1, ConnTypes
<1>4. Still(c)
  BY <1>1, <1>2, <1>3 DEF Still, Unmoved
<1> QED
  BY <1>4, ConnTypes, StillKept

LEMMA StutterKept ==
  ASSUME LineInv, UNCHANGED echovars, NEW c \in Conns
  PROVE  ConnInv(c)'
<1>1. Still(c)
  BY DEF echovars, riovars, Still, Unmoved
<1> QED
  BY <1>1, ConnTypes, StillKept

LEMMA ServerStepLines ==
  ASSUME LineInv, NEW d \in Conns, NEW c \in Conns,
         Connect(c) \/ Accept(c) \/ EchoRead(c) \/ EchoLine(c) \/ EchoEnds(c) \/ EchoFails(c)
  PROVE  ConnInv(d)'
<1>1. CASE EchoFails(c)
  BY <1>1, ServerEndsKept DEF EchoFails
<1>2. CASE d = c /\ (Connect(c) \/ Accept(c) \/ EchoRead(c) \/ EchoLine(c) \/ EchoEnds(c))
  BY <1>2, ConnectKept, AcceptKept, EchoReadKept, EchoLineKept, EchoEndsKept
<1>3. ASSUME d # c, Connect(c) \/ Accept(c) \/ EchoRead(c) \/ EchoLine(c) \/ EchoEnds(c)
      PROVE  ConnInv(d)'
  <2>1. \A e \in Ends : e # Near(c) /\ e # Far(c) => Unmoved(e)
    BY <1>3 DEF Connect, Accept, EchoRead, Read, EchoLine, EchoEnds, riovars, ends,
                Unmoved, LineInv, EInv, RioInv
  <2>2. \A e \in Ends : e # Near(c) /\ e # Far(c) => eof'[e] = eof[e]
    <3>1. \A e \in Ends : e # Near(c) => Peer(e) # Far(c)
      BY Sides
    <3> QED
      BY <1>3, <3>1 DEF Connect, Accept, EchoRead, Read, EchoLine, EchoEnds, Closing, riovars,
                  ends, LineInv, Processes
  <2>3. /\ client'[d] = client[d] /\ line'[d] = line[d] /\ shown'[d] = shown[d]
        /\ thread'[d] = thread[d] /\ up' = up
    BY <1>3 DEF Connect, Accept, EchoRead, Read, EchoLine, EchoEnds, riovars, ends, LineInv, Processes
  <2> QED
    BY <1>3, <2>1, <2>2, <2>3, OthersStill
<1> QED
  BY <1>1, <1>2, <1>3

LEMMA ClientStepLines ==
  ASSUME LineInv, NEW d \in Conns, NEW c \in Conns,
         \/ Refused(c) \/ Prompt(c) \/ ClientCloses(c) \/ Sent(c) \/ Show(c)
         \/ ClientFails(c) \/ Kill(c)
  PROVE  ConnInv(d)'
<1>1. Refused(c) \/ ClientCloses(c) \/ ClientFails(c) \/ Kill(c) => ClientEnds(c)
  BY DEF Refused, ClientCloses, ClientFails, Kill
<1>2. CASE d = c
  BY <1>1, <1>2, ClientEndsKept, PromptKept, SentKept, ShowKept
<1>3. CASE d # c
  <2>1. \A e \in Ends : e # Near(c) /\ e # Far(c) => Unmoved(e)
    BY <1>1 DEF ClientEnds, Prompt, Sent, Read, Show, ends, Unmoved, LineInv, EInv, RioInv
  <2>2. \A e \in Ends : e # Near(c) /\ e # Far(c) => eof'[e] = eof[e]
    <3>1. \A e \in Ends : e # Far(c) => Peer(e) # Near(c)
      BY Sides
    <3> QED
      BY <1>1, <3>1 DEF ClientEnds, Prompt, Sent, Read, Show, Closing, ends, LineInv, Processes
  <2>3. /\ client'[d] = client[d] /\ line'[d] = line[d] /\ shown'[d] = shown[d]
        /\ thread'[d] = thread[d] /\ up' = up
    BY <1>1, <1>3 DEF ClientEnds, Prompt, Sent, Read, Show, LineInv, Processes
  <2> QED
    BY <1>3, <2>1, <2>2, <2>3, OthersStill
<1> QED
  BY <1>2, <1>3

LEMMA EndStepLines ==
  ASSUME LineInv, NEW d \in Conns, NEW e \in Ends,
         Transfer(e) \/ ReadError(e) \/ WriteEnds(e) \/ WriteLost(e) \/ WriteKills(e)
  PROVE  ConnInv(d)'
<1> DEFINE c == e[1]
<1>1. c \in Conns /\ (e = Near(c) \/ e = Far(c))
  BY Sides
<1>2. /\ e = Near(c) => e[2] # "server" /\ Peer(e) = Far(c)
      /\ e = Far(c) => e[2] = "server" /\ Peer(e) = Near(c)
      /\ e \in Ends /\ Peer(e) \in Ends
  BY <1>1, Sides
<1>3. Open(e) => /\ e = Near(c) => client[c] \notin {"start", "done"}
                 /\ e = Far(c) => up /\ thread[c] = "echo"
  BY <1>2, Sides DEF Open
<1> HIDE DEF c
<1>4. CASE Transfer(e) \/ ReadError(e)
  <2>1. Open(e) /\ UNCHANGED <<up, thread, client, line, shown>>
    BY <1>4 DEF Transfer, ReadError
  <2>2. CASE ReadStep(e) \/ ReadFails(e)
    <3>1. CASE d = c
      BY <1>1, <1>3, <2>1, <2>2, <3>1, NearReadKept, FarReadKept
    <3>2. CASE d # c
      <4>1. RioInv
        BY DEF LineInv, EInv
      <4>2. PICK b \in Text : Reads(e, b)
        BY <2>2, <4>1, ReadFacts
      <4>3. \A f \in Ends : f # Near(c) /\ f # Far(c) => Unmoved(f) /\ eof'[f] = eof[f]
        BY <1>1, <4>2 DEF Reads, Unmoved
      <4> QED
        BY <1>1, <2>1, <3>2, <4>3, OthersStill
    <3> QED
      BY <3>1, <3>2
  <2>3. CASE Write(e, Peer(e)) /\ ~eof[e]
    <3>1. CASE d = c
      BY <1>1, <1>2, <1>3, <2>1, <2>3, <3>1, NearWriteKept, FarWriteKept
    <3>2. CASE d # c
      <4>1. RioInv
        BY DEF LineInv, EInv
      <4>2. PICK b, t \in Text : Writes(e, b, t)
        BY <2>3, <4>1, WriteFacts
      <4>3. \A f \in Ends : f # Near(c) /\ f # Far(c) => Unmoved(f) /\ eof'[f] = eof[f]
        BY <1>1, <1>2, <4>2 DEF Writes, Unmoved
      <4> QED
        BY <1>1, <2>1, <3>2, <4>3, OthersStill
    <3> QED
      BY <3>1, <3>2
  <2> QED
    BY <1>4, <2>2, <2>3 DEF Transfer, ReadError
<1>5. CASE WriteEnds(e) \/ WriteLost(e)
  <2>1. CASE d = c
    BY <1>1, <1>5, <2>1, NearWriteOver, FarWriteOver
  <2>2. CASE d # c
    <3>1. \A f \in Ends : f # Near(c) /\ f # Far(c) => Unmoved(f) /\ eof'[f] = eof[f]
      BY <1>1, <1>5 DEF WriteEnds, WriteLost, ends, Unmoved, LineInv, EInv, RioInv
    <3>2. UNCHANGED <<up, thread, client, line, shown>>
      BY <1>5 DEF WriteEnds, WriteLost
    <3> QED
      BY <1>1, <2>2, <3>1, <3>2, OthersStill
  <2> QED
    BY <2>1, <2>2
<1>6. CASE WriteKills(e)
  <2>1. CASE e = Far(c)
    <3>1. ServerEnds
      BY <1>2, <1>6, <2>1 DEF WriteKills
    <3> QED
      BY <3>1, ServerEndsKept
  <2>2. CASE e = Near(c)
    <3>1. ClientEnds(c)
      BY <1>2, <1>6, <2>2 DEF WriteKills, c
    <3>2. CASE d = c
      BY <3>1, <3>2, ClientEndsKept
    <3>3. CASE d # c
      <4>1. \A f \in Ends : f # Far(c) => Peer(f) # Near(c)
        BY <1>1, Sides
      <4>2. \A f \in Ends : f # Near(c) /\ f # Far(c) => Unmoved(f) /\ eof'[f] = eof[f]
        BY <3>1, <4>1 DEF ClientEnds, Closing, Unmoved, LineInv, Processes
      <4>3. UNCHANGED <<up, thread, line, shown>> /\ client'[d] = client[d]
        BY <3>1, <3>3 DEF ClientEnds, LineInv, Processes
      <4> QED
        BY <1>1, <3>3, <4>2, <4>3, OthersStill
    <3> QED
      BY <3>2, <3>3
  <2> QED
    BY <1>1, <2>1, <2>2
<1> QED
  BY <1>4, <1>5, <1>6

\* Everyone stays in the states of Processes.
LEMMA ProcessesKept ==
  ASSUME LineInv, [Next]_echovars
  PROVE  Processes'
<1>1. ASSUME NEW E, Closing(E) PROVE eof' \in [Ends -> BOOLEAN]
  BY <1>1 DEF Closing, LineInv, Processes
<1>2. CASE UNCHANGED echovars
  BY <1>2 DEF echovars, riovars, LineInv, Processes
<1>3. ASSUME ServerEnds PROVE Processes'
  BY <1>1, <1>3 DEF ServerEnds, LineInv, Processes
<1>4. ASSUME NEW c \in Conns, ClientEnds(c) PROVE Processes'
  BY <1>1, <1>4 DEF ClientEnds, LineInv, Processes
<1>5. ASSUME NEW c \in Conns, Connect(c) \/ Accept(c) \/ EchoRead(c) \/ EchoLine(c) \/ Sent(c)
      PROVE  Processes'
  BY <1>5 DEF Connect, Accept, EchoRead, Read, EchoLine, Sent, riovars, ends, LineInv, Processes
<1>6. ASSUME NEW c \in Conns, EchoEnds(c) PROVE Processes'
  BY <1>1, <1>6 DEF EchoEnds, LineInv, Processes
<1>7. ASSUME NEW c \in Conns, Prompt(c) PROVE Processes'
  <2> DEFINE l == NextLine(stdin[c])
  <2>1. CString(l) \in Lines /\ SubSeq(stdin[c], Len(l) + 1, Len(stdin[c])) \in Inputs
    BY NextLineIs, SentIs DEF LineInv, Processes
  <2>2. /\ stdin' = [stdin EXCEPT ![c] = SubSeq(stdin[c], Len(l) + 1, Len(stdin[c]))]
        /\ line' = [line EXCEPT ![c] = CString(l)] /\ client' = [client EXCEPT ![c] = "send"]
        /\ UNCHANGED <<eof, thread, shown>>
    BY <1>7 DEF Prompt, ends
  <2> HIDE DEF l
  <2> QED
    BY <2>1, <2>2 DEF LineInv, Processes
<1>8. ASSUME NEW c \in Conns, Show(c) PROVE Processes'
  <2>1. CString(Buffer(Near(c))) \in Text
    BY ConnTypes, AppendText, CStringText, RioAssumption DEF Buffer
  <2>2. line[c] \in Text
    BY ConnTypes
  <2> QED
    BY <1>8, <2>1, <2>2 DEF Show, ends, LineInv, Processes
<1>9. ASSUME NEW e \in Ends, Transfer(e) \/ ReadError(e) \/ WriteEnds(e) \/ WriteLost(e)
      PROVE  Processes'
  <2>1. UNCHANGED <<thread, client, stdin, line, shown>>
    BY <1>9 DEF Transfer, ReadError, WriteEnds, WriteLost
  <2>2. UNCHANGED eof
    BY <1>9 DEF Transfer, ReadError, WriteEnds, WriteLost, ends, ReadStep, ReadFails, Write,
                Fill, FillAnyTime, Interrupted, EndOfFile, Copy, Done
  <2> QED
    BY <2>1, <2>2 DEF LineInv, Processes
<1>10. ASSUME NEW e \in Ends, WriteKills(e) PROVE Processes'
  BY <1>3, <1>4, <1>10, Sides DEF WriteKills
<1> QED
  BY <1>2, <1>3, <1>4, <1>5, <1>6, <1>7, <1>8, <1>9, <1>10
  DEF Next, MainFails, Refused, EchoFails, ClientCloses, ClientFails, Kill

LEMMA LineNext == LineInv /\ [Next]_echovars => LineInv'
<1> SUFFICES ASSUME LineInv, [Next]_echovars PROVE LineInv'
  OBVIOUS
<1>1. EInv'
  BY EchoNext DEF LineInv
<1>2. ASSUME NEW d \in Conns PROVE ConnInv(d)'
  <2>1. CASE UNCHANGED echovars
    BY <2>1, StutterKept
  <2>2. CASE Next
    BY <2>2, ServerStepLines, ClientStepLines, EndStepLines, ServerEndsKept DEF Next, MainFails
  <2> QED
    BY <2>1, <2>2
<1> QED
  BY <1>1, <1>2, ProcessesKept DEF LineInv

-----------------------------------------------------------------------------
(* What the server promises.                                               *)

LEMMA Positions ==
  ASSUME NEW s \in Text
  PROVE  DOMAIN s = 1 .. Len(s) /\ (NulFree(s) <=> "NUL" \notin ToSet(s))
<1>1. DOMAIN s = 1 .. Len(s)
  BY LenProperties DEF Text
<1> QED
  BY <1>1 DEF NulFree, ToSet

\* Whatever sizes the reads and writes have, and whoever fails, closes or is
\* killed, a client gets back its own stream in upper case, in order, with a
\* NUL only behind a line that was cut off, and a thread has echoed all it has
\* taken before it reads on (echo in echo.c with rio_readlineb and
\* rio_writen).
THEOREM EchoIsInOrder == Spec => []EchoesInOrder
<1>1. ASSUME LineInv, NEW c \in Conns
      PROVE  LET echoed == stream[Near(c)]
                 bytes  == WithoutNuls(echoed)
             IN /\ IsPrefix(bytes, UpperCase(taken[Far(c)]))
                /\ Serving(c) /\ Idle(Far(c)) /\ ~eof[Far(c)] => bytes = UpperCase(taken[Far(c)])
                /\ \A i \in DOMAIN echoed :
                     echoed[i] = "NUL" => i > 1 /\ echoed[i - 1] \in {Upper[b] : b \in Letters}
  <2>1. Echoing(c) /\ stream[Near(c)] \in Text
    BY <1>1, ConnTypes DEF ConnInv
  <2>2. Idle(Far(c)) => Pending(c) = <<>>
    BY DEF Idle, Pending
  <2>3. /\ stream[Near(c)] \o <<>> = stream[Near(c)]
        /\ DOMAIN stream[Near(c)] = 1 .. Len(stream[Near(c)])
    BY <2>1, Nothing, Positions
  <2> QED
    BY <2>1, <2>2, <2>3 DEF Echoing, NulsFine, Uppers
<1>2. LineInv => EchoesInOrder
  BY <1>1 DEF EchoesInOrder
<1> QED
  BY <1>2, LineInit, LineNext, PTL DEF Spec

\* As long as no line has filled a buffer, what a client prints is the line it
\* has just sent, in upper case, and never the echo of another; when the
\* server is gone, the line as it was or a part of its echo (main of
\* echoclient.c).
THEOREM EchoIsTheLine == Spec => []EchoIsOwnLine
<1>1. ASSUME LineInv, NEW c \in Conns
      PROVE  Answered(c) /\ (NulFree(stream[Near(c)]) <=> "NUL" \notin ToSet(stream[Near(c)]))
  BY <1>1, ConnTypes, Positions DEF ConnInv
<1>2. LineInv => EchoIsOwnLine
  BY <1>1 DEF EchoIsOwnLine, Answered
<1> QED
  BY <1>2, LineInit, LineNext, PTL DEF Spec
=============================================================================
