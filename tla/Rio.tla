-------------------------------- MODULE Rio --------------------------------
(***************************************************************************)
(* The Rio package of proxylab/csapp.c: buffered reads of lines or blocks, *)
(* and writes of whole buffers, on descriptors whose read(2) and write(2)  *)
(* transfer any number of bytes, are interrupted, block and fail.          *)
(*                                                                         *)
(* An end is a descriptor with its rio_t, used by one thread.  Module Echo *)
(* connects ends with each other; here the bytes come from anywhere.       *)
(***************************************************************************)
EXTENDS Integers, Sequences, SequencesExt

CONSTANTS
  Ends,     \* the descriptors
  Bytes,    \* what is sent, "\n" and "NUL" among it
  BufSize   \* sizeof(rio_buf), 8192 in the code

ASSUME RioAssumption == BufSize \in Nat \ {0} /\ {"\n", "NUL"} \subseteq Bytes

VARIABLES
  file,    \* what has arrived at an end and read(2) has not returned
  eof,     \* has the other side closed?
  rio,     \* rio_buf, rio_bufptr and rio_cnt of an end
  call,    \* the call of the package that is under way at an end: in state
           \* pc, of kind "line" (rio_readlineb) or "block" (rio_readnb), with
           \* n (maxlen or n), usrbuf (what it has stored) and ret, and out,
           \* what rio_writen has still to write
  stream,  \* history: all that has arrived at an end
  taken    \* history: all that calls have stored

riovars == <<file, eof, rio, call, stream, taken>>

\* rio_readinitb.
rio_readinitb == [buf |-> <<>>, ptr |-> 1, cnt |-> 0]

NoCall == [pc |-> "idle", kind |-> "line", n |-> 0, usrbuf |-> <<>>, ret |-> 0, out |-> <<>>]

RioInit == /\ file = [e \in Ends |-> <<>>] /\ eof = [e \in Ends |-> FALSE]
           /\ rio = [e \in Ends |-> rio_readinitb]
           /\ call = [e \in Ends |-> NoCall]
           /\ stream = [e \in Ends |-> <<>>] /\ taken = [e \in Ends |-> <<>>]

-----------------------------------------------------------------------------
(* rio_readlineb and rio_readnb.                                           *)

Idle(e) == call[e].pc = "idle"

Read(e, k, m) ==
  /\ Idle(e)
  /\ call' = [call EXCEPT ![e] = [NoCall EXCEPT !.pc = "read", !.kind = k, !.n = m]]
  /\ UNCHANGED <<file, eof, rio, stream, taken>>

\* Mutant of LineEnds: newlines are not looked for.
LineEndsNever(e) == FALSE

LineEnds(e) == call[e].usrbuf # <<>> /\ Last(call[e].usrbuf) = "\n"

Stored(e) == Len(call[e].usrbuf)

\* Is the loop of rio_readlineb or rio_readnb through?
Satisfied(e) == IF call[e].kind = "line" THEN Stored(e) + 1 >= call[e].n \/ LineEnds(e)
                                         ELSE Stored(e) >= call[e].n

\* What rio_read is asked for.
Wanted(e) == IF call[e].kind = "line" THEN 1 ELSE call[e].n - Stored(e)

Reading(e) == call[e].pc = "read" /\ ~Satisfied(e)

Return(e, r) == call' = [call EXCEPT ![e].pc = "returned", ![e].ret = r]

\* read(2) in rio_read's loop returns bytes ...
FillAnyTime(e) ==
  /\ \E k \in 1 .. BufSize :
       /\ k <= Len(file[e])
       /\ rio' = [rio EXCEPT ![e] = [buf |-> SubSeq(file[e], 1, k), ptr |-> 1, cnt |-> k]]
       /\ file' = [file EXCEPT ![e] = SubSeq(@, k + 1, Len(@))]
  /\ UNCHANGED <<eof, call, stream, taken>>

\* Mutant of Fill: the buffer is filled when it holds less than is wanted.
FillEarly(e) == Reading(e) /\ rio[e].cnt <= Wanted(e) /\ FillAnyTime(e)

Fill(e) == Reading(e) /\ rio[e].cnt <= 0 /\ FillAnyTime(e)

\* ... or an interruption, after which it is called again, or an error.
Interrupted(e) == /\ Reading(e) /\ rio[e].cnt <= 0
                  /\ rio' = [rio EXCEPT ![e].cnt = -1]
                  /\ UNCHANGED <<file, eof, call, stream, taken>>

ReadFails(e) == /\ Reading(e) /\ rio[e].cnt <= 0
                /\ rio' = [rio EXCEPT ![e].cnt = -1]
                /\ Return(e, -1)
                /\ UNCHANGED <<file, eof, stream, taken>>

\* The end of the stream, with nothing in the buffer.  For a line that had
\* begun, rio_readlineb returns its loop index, one more than it has stored.
EndOfFile(e) ==
  /\ Reading(e) /\ rio[e].cnt <= 0 /\ file[e] = <<>> /\ eof[e]
  /\ rio' = [rio EXCEPT ![e].cnt = 0]
  /\ Return(e, IF call[e].kind = "line" /\ Stored(e) > 0 THEN Stored(e) + 1 ELSE Stored(e))
  /\ UNCHANGED <<file, eof, stream, taken>>

\* rio_read copies what it has of what is wanted.
Copy(e) ==
  LET r == rio[e]
      k == IF r.cnt < Wanted(e) THEN r.cnt ELSE Wanted(e)
      bytes == SubSeq(r.buf, r.ptr, r.ptr + k - 1)
  IN /\ Reading(e) /\ r.cnt > 0
     /\ call' = [call EXCEPT ![e].usrbuf = @ \o bytes]
     /\ taken' = [taken EXCEPT ![e] = @ \o bytes]
     /\ rio' = [rio EXCEPT ![e].ptr = @ + k, ![e].cnt = @ - k]
     /\ UNCHANGED <<file, eof, stream>>

\* Mutant of LineCount: the loop index also for a line that is complete.
LineCountIndex(e) == Stored(e) + 1

\* A line that fills the buffer also returns the loop index, maxlen.
LineCount(e) == IF LineEnds(e) THEN Stored(e) ELSE call[e].n

Done(e) == /\ call[e].pc = "read" /\ Satisfied(e)
           /\ Return(e, IF call[e].kind = "line" THEN LineCount(e) ELSE Stored(e))
           /\ UNCHANGED <<file, eof, rio, stream, taken>>

ReadStep(e) == Fill(e) \/ Interrupted(e) \/ EndOfFile(e) \/ Copy(e) \/ Done(e)

-----------------------------------------------------------------------------
(* rio_writen, from end e to the end f.                                    *)

\* Mutant of Write: after a short count it starts over.
WriteRestarting(e, f) ==
  /\ call[e].pc = "write" /\ call[e].out # <<>>
  /\ \E k \in 1 .. Len(call[e].out) :
       LET bytes == SubSeq(call[e].out, 1, k)
       IN /\ file' = [file EXCEPT ![f] = @ \o bytes]
          /\ stream' = [stream EXCEPT ![f] = @ \o bytes]
          /\ call' = [call EXCEPT ![e].out = IF k = 1 /\ Len(@) > 1 THEN @
                                             ELSE SubSeq(@, k + 1, Len(@))]
  /\ UNCHANGED <<eof, rio, taken>>

\* One write(2); an interrupted one changes nothing.
Write(e, f) ==
  /\ call[e].pc = "write" /\ call[e].out # <<>>
  /\ \E k \in 1 .. Len(call[e].out) :
       LET bytes == SubSeq(call[e].out, 1, k)
       IN /\ file' = [file EXCEPT ![f] = @ \o bytes]
          /\ stream' = [stream EXCEPT ![f] = @ \o bytes]
          /\ call' = [call EXCEPT ![e].out = SubSeq(@, k + 1, Len(@))]
  /\ UNCHANGED <<eof, rio, taken>>

-----------------------------------------------------------------------------
(* Ends on their own: any caller, and bytes that come from outside.        *)

Arrive(e, b) == /\ ~eof[e]
                /\ file' = [file EXCEPT ![e] = Append(@, b)]
                /\ stream' = [stream EXCEPT ![e] = Append(@, b)]
                /\ UNCHANGED <<eof, rio, call, taken>>

CloseOther(e) == /\ eof' = [eof EXCEPT ![e] = TRUE]
                 /\ UNCHANGED <<file, rio, call, stream, taken>>

TakeResult(e) == /\ call[e].pc = "returned"
                 /\ call' = [call EXCEPT ![e] = NoCall]
                 /\ UNCHANGED <<file, eof, rio, stream, taken>>

\* What a caller may do with an end, and what may happen to it.
AnyStep(e) == \/ \E k \in {"line", "block"}, m \in Nat \ {0} : Read(e, k, m)
              \/ ReadStep(e) \/ ReadFails(e)
              \/ TakeResult(e)
              \/ \E b \in Bytes : Arrive(e, b)
              \/ CloseOther(e)

RioNext == \E e \in Ends : AnyStep(e)

RioSpec == RioInit /\ [][RioNext]_riovars

-----------------------------------------------------------------------------
Unread(e) == IF rio[e].cnt > 0
               THEN SubSeq(rio[e].buf, rio[e].ptr, rio[e].ptr + rio[e].cnt - 1)
               ELSE <<>>

\* No byte is lost, repeated or reordered between the connection and the
\* callers of rio_readlineb and rio_readnb, however read(2) cuts the stream
\* and is interrupted and fails.  (Echo calls rio_readlineb alone; RioSpec has
\* callers that mix lines and blocks.)
StreamInOrder == \A e \in Ends : taken[e] \o Unread(e) \o file[e] = stream[e]
=============================================================================
