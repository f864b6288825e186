------------------------------- MODULE Judge -------------------------------
(***************************************************************************)
(* malloclab's mdriver.c as a judge: main reads its options and its trace  *)
(* files, runs each trace on an allocator that may do anything, and        *)
(* reports a performance index.  (Modules MDriver and Passes run the       *)
(* traces on the allocator of mm.c.)  fsecs, which times a trace, is       *)
(* module Timing; what its f does to the heap is left out here.            *)
(***************************************************************************)
EXTENDS RangeList, Timing

CONSTANTS
  Options,     \* the options given on the command line, of "f", "a", "l", "h"
  MaxOptions,  \* how many of them (bound)
  TeamNamed,   \* is the team information in mm.c complete?
  Files,       \* how many trace files there are
  Ids,         \* indices of blocks
  Payloads,    \* the sizes in the trace files, 0 among them
  MaxOps,      \* requests in a trace file (bound)
  Results,     \* what the allocator may return, 0 among them
  Breaks       \* where mem_sbrk may leave the end of the heap

ASSUME JudgeAssumption ==
  /\ MaxOptions \in Nat /\ TeamNamed \in BOOLEAN /\ Files \in Nat \ {0}
  /\ Ids \subseteq Nat /\ Payloads \ {0} = Lengths /\ MaxOps \in Nat
  /\ Results \subseteq Nat /\ Breaks \subseteq HeapLo + 1 .. HeapHi + 1

VARIABLES
  pc,        \* where main is
  args,      \* the options
  opt,       \* what they were taken for
  package,   \* the one that is evaluated, "libc" or "mm"
  tracenum,  \* i of main
  trace,     \* the requests of the trace that read_trace has returned
  opnum,     \* how many of them are done
  block,     \* trace->blocks and block_sizes
  inUse,     \* the indices that are allocated
  brk,       \* mem_heap_hi() + 1
  verdict,   \* what eval_mm_valid has returned
  fault,     \* history: what the allocator did wrong in this trace
  total_size, max_total_size,  \* of eval_mm_util
  apart,     \* history: has its replay kept the payloads in the heap and apart?
  util,      \* what it has returned: max_total_size, heap size
  valid,     \* mm_stats[].valid
  errors

run      == <<trace, opnum, block, inUse, brk>>
judgment == <<verdict, fault>>
sums     == <<total_size, max_total_size, apart, util>>
tally    == <<tracenum, package, valid>>
jvars    == <<pc, args, opt, run, judgment, sums, tally, errors, ranges, timingvars>>

Unset   == [p |-> 0, n |-> 0]
Default == [files |-> "default", libc |-> FALSE]

Blank == /\ opnum = 0 /\ block = [i \in Ids |-> Unset] /\ inUse = {}
         /\ total_size = 0 /\ max_total_size = 0 /\ apart = TRUE /\ util = <<0, 0>>
         /\ brk = HeapLo /\ verdict = TRUE /\ fault = "none"

\* No request of the trace is done.
Rewind == /\ opnum' = 0 /\ block' = [i \in Ids |-> Unset] /\ inUse' = {}
          /\ total_size' = 0 /\ max_total_size' = 0 /\ apart' = TRUE /\ util' = <<0, 0>>

\* Nothing of a trace is used after its turn.
Wipe == Rewind /\ trace' = <<>> /\ brk' = HeapLo /\ verdict' = TRUE /\ fault' = "none"

JInit == /\ Init /\ TimingInit /\ Blank
         /\ pc = "options" /\ args \in BoundedSeq(Options, MaxOptions) /\ opt = Default
         /\ package = "libc" /\ tracenum = 0 /\ trace = <<>>
         /\ valid = <<>> /\ errors = 0

-----------------------------------------------------------------------------
(* Options and files.                                                      *)

\* -f names one file.  -t (where the default files are), -g, -v and -V change
\* nothing here.
Taken(o, a) == CASE a = "f" -> [o EXCEPT !.files = "given"]
                 [] a = "l" -> [o EXCEPT !.libc = TRUE]
                 [] OTHER   -> o

\* The options are read (-h ends the driver), the team is checked, and
\* init_fsecs measures the clock rate if it needs it, which start_counter
\* refuses on an unknown platform.
Start ==
  LET o == FoldLeft(Taken, Default, args)
      starts == /\ "h" \notin ToSet(args)
                /\ "a" \in ToSet(args) \/ TeamNamed
                /\ ~(method = "FCYC" /\ platform = "other")
  IN /\ pc = "options"
     /\ opt' = o
     /\ package' = IF o.libc THEN "libc" ELSE "mm"
     /\ pc' = IF starts THEN "read" ELSE "exit"
     /\ args' = <<>>
     /\ UNCHANGED <<tracenum, valid, errors, run, judgment, sums, ranges, timingvars>>

NumFiles == IF opt.files = "given" THEN 1 ELSE Files

Op == [type : {"a", "r"}, i : Ids, n : Payloads] \cup [type : {"f"}, i : Ids, n : {0}]

\* The indices in use after the first m requests: the last one for it that
\* allocates comes after the last that frees.
InUseAfter(ops, m) ==
  {i \in Ids : \E k \in 1 .. m : /\ ops[k].i = i /\ ops[k].type # "f"
                                 /\ \A l \in k + 1 .. m :
                                      ~(ops[l].i = i /\ ops[l].type = "f")}

\* A trace allocates what is not in use, and frees or reallocates what is.
WellFormed(ops) == \A k \in DOMAIN ops :
  ops[k].type = "a" <=> ops[k].i \notin InUseAfter(ops, k - 1)

Requests == {ops \in BoundedSeq(Op, MaxOps) : WellFormed(ops)}

\* max_index of read_trace: frees do not count.
max_index(ops) == Max({0} \cup {ops[k].i : k \in {j \in DOMAIN ops : ops[j].type # "f"}})

\* The assertions at the end of read_trace.
Declared(num_ids, num_ops, ops) == max_index(ops) = num_ids - 1 /\ num_ops = Len(ops)

\* read_trace: a file that cannot be read, or is not what its header says,
\* ends the driver.
ReadTrace ==
  /\ pc = "read"
  /\ \/ \E ops \in Requests, num_ids \in {0, 1} \cup {i + 1 : i \in Ids},
           num_ops \in 0 .. MaxOps + 1 :
          IF Declared(num_ids, num_ops, ops)
            THEN trace' = ops /\ pc' = "evaluate"
            ELSE pc' = "exit" /\ UNCHANGED trace
     \/ pc' = "exit" /\ UNCHANGED trace
  /\ UNCHANGED <<args, opt, opnum, block, inUse, brk, judgment, sums, tally, errors, ranges,
                 timingvars>>

-----------------------------------------------------------------------------
(* eval_mm_valid.                                                          *)

Payload(p, n) == [lo |-> p, hi |-> p + n - 1]

\* The payloads that the program has, but that of index i.
Live(i) == {Payload(block[j].p, block[j].n) : j \in inUse \ {i}}

\* What is wrong with n bytes at p for index i in a heap that ends at b?
Wrong(i, p, n, b) ==
  LET r == Payload(p, n)
  IN IF p = 0 THEN "null"
     ELSE IF p % 8 # 0 THEN "alignment"
     ELSE IF ~(HeapLo <= p /\ r.hi < b) THEN "heap"
     ELSE IF \E l \in Live(i) : Overlap(r, l) /\ ~Encloses(r, l) THEN "overlap"
     ELSE "none"

\* The first thing that is wrong in a trace is kept.
Blame(f) == fault' = IF fault = "none" THEN f ELSE fault

\* malloc_error, and eval_mm_valid returns 0.
Reject == errors' = errors + 1 /\ verdict' = FALSE /\ pc' = "judged"

\* Mutant of ClearRanges: the ranges of the trace before are kept.
KeepRanges == UNCHANGED ranges

ClearRanges == Clear

\* mem_reset_brk, clear_ranges and mm_init.
StartValid ==
  /\ pc = "evaluate" /\ package = "mm"
  /\ ClearRanges
  /\ \/ brk' \in Breaks /\ pc' = "valid" /\ UNCHANGED <<verdict, fault, errors>>
     \/ brk' = HeapLo /\ fault' = "init" /\ Reject
  /\ UNCHANGED <<args, opt, trace, opnum, block, inUse, sums, tally, timingvars>>

\* The range list when the payload of a reallocated block is given up.
Unclaimed(i) == IF i \in inUse THEN Removed(ranges, block[i].p) ELSE ranges

\* memset stores the low byte of the index, and a signed char reads it back:
\* is it the same?
Readable(i) == i % 256 < 128

\* What becomes of request op when p is returned: mm_malloc or mm_realloc
\* failed, add_range's assertion or one of its tests, the comparison of a
\* reallocated block's data, or nothing.
Outcome(op, rs, p, b, kept) ==
  IF p = 0 THEN "null"
  ELSE IF op.n = 0 THEN "assert"
  ELSE IF ~Accepts(rs, p, op.n, HeapLo, b - 1) THEN "range"
  ELSE IF op.type = "r" /\ ~(kept /\ Readable(op.i)) THEN "data"
  ELSE "accepted"

\* mm_malloc, or mm_realloc if i is in use, returns p; the heap may have grown
\* to b.  kept: does a reallocated block hold the old data?
Place(p, b, kept) ==
  LET op == trace[opnum + 1]
      i  == op.i
      rs == Unclaimed(i)
      outcome == Outcome(op, rs, p, b, kept)
  IN /\ pc = "valid" /\ opnum < Len(trace) /\ op.type # "f"
     /\ b >= brk /\ brk' = b
     /\ i \in inUse \/ kept
     /\ Blame(IF Wrong(i, p, op.n, b) = "none" /\ ~kept THEN "data"
              ELSE Wrong(i, p, op.n, b))
     /\ \/ /\ outcome = "accepted"
           /\ ranges' = Added(rs, p, op.n)
           /\ opnum' = opnum + 1
           /\ block' = [block EXCEPT ![i] = [p |-> p, n |-> op.n]]
           /\ inUse' = inUse \cup {i}
           /\ UNCHANGED <<pc, errors, verdict>>
        \/ /\ outcome \in {"null", "range", "data"}
           /\ ranges' = CASE outcome = "null"  -> ranges
                          [] outcome = "range" -> rs
                          [] outcome = "data"  -> Added(rs, p, op.n)
           /\ Reject
           /\ UNCHANGED <<opnum, block, inUse>>
        \/ /\ outcome = "assert"
           /\ pc' = "exit"
           /\ UNCHANGED <<opnum, block, inUse, ranges, errors, verdict>>
     /\ UNCHANGED <<args, opt, trace, sums, tally, timingvars>>

\* The allocator frees the block of index i, and takes its range out of the
\* list itself.
Freed(i) == /\ ranges' = Removed(ranges, block[i].p)
            /\ inUse' = inUse \ {i}

\* mm_free
Release(b) ==
  /\ pc = "valid" /\ opnum < Len(trace) /\ trace[opnum + 1].type = "f"
  /\ Freed(trace[opnum + 1].i)
  /\ b >= brk /\ brk' = b
  /\ opnum' = opnum + 1
  /\ UNCHANGED <<pc, args, opt, trace, block, judgment, sums, tally, errors, timingvars>>

\* mm_exit frees what is left, block by block, ...
ExitFree(i) == /\ pc = "valid" /\ opnum = Len(trace) /\ i \in inUse
               /\ Freed(i)
               /\ UNCHANGED <<pc, args, opt, trace, opnum, block, brk, judgment, sums, tally,
                              errors, timingvars>>

\* ... or part of it, and eval_mm_valid looks at the list.
ExitValid ==
  /\ pc = "valid" /\ opnum = Len(trace)
  /\ Blame(IF inUse = {} THEN "none" ELSE "leak")
  /\ IF ranges = <<>> THEN pc' = "judged" /\ UNCHANGED <<verdict, errors>>
                      ELSE Reject
  /\ UNCHANGED <<args, opt, run, ranges, sums, tally, timingvars>>

-----------------------------------------------------------------------------
(* eval_mm_util runs the trace once more, on the allocator initialized anew, *)
(* which need not do what it did before: nothing is checked but for NULL.    *)

\* mem_reset_brk and mm_init(NULL), which may give up.
StartUtil ==
  /\ pc = "judged" /\ verdict
  /\ Rewind
  /\ \/ brk' \in Breaks /\ pc' = "util"
     \/ brk' = HeapLo /\ pc' = "exit"
  /\ UNCHANGED <<args, opt, trace, judgment, tally, errors, ranges, timingvars>>

\* Mutant of Oldsize: a reallocated block is counted twice.
OldsizeForgotten(op) == IF op.type = "f" THEN block[op.i].n ELSE 0

\* What a request takes off total_size.
Oldsize(op) == IF op.type = "a" THEN 0 ELSE block[op.i].n

\* The counts after a request; the heap may have grown to b.
Count(op, b) ==
  /\ total_size' = total_size + op.n - Oldsize(op)
  /\ max_total_size' = Max({max_total_size, total_size'})
  /\ b >= brk /\ brk' = b
  /\ opnum' = opnum + 1
  /\ UNCHANGED <<pc, args, opt, trace, util, judgment, tally, errors, ranges, timingvars>>

\* Is a payload in a heap that ends at b, and clear of the others?
InHeapApart(i, p, n, b) == /\ HeapLo <= p /\ p + n <= b
                           /\ \A l \in Live(i) : ~Overlap(Payload(p, n), l)

\* mm_malloc or mm_realloc.
UtilPlace(p, b) ==
  LET op == trace[opnum + 1]
  IN /\ pc = "util" /\ opnum < Len(trace) /\ op.type # "f" /\ p # 0
     /\ Count(op, b)
     /\ block' = [block EXCEPT ![op.i] = [p |-> p, n |-> op.n]]
     /\ inUse' = inUse \cup {op.i}
     /\ apart' = (apart /\ InHeapApart(op.i, p, op.n, b))

\* mm_free
UtilFree(b) ==
  LET op == trace[opnum + 1]
  IN /\ pc = "util" /\ opnum < Len(trace) /\ op.type = "f"
     /\ Count(op, b)
     /\ inUse' = inUse \ {op.i}
     /\ UNCHANGED <<block, apart>>

\* A NULL ends the driver.
UtilExit == /\ pc = "util" /\ opnum < Len(trace) /\ trace[opnum + 1].type # "f"
            /\ pc' = "exit"
            /\ UNCHANGED <<args, opt, run, judgment, sums, tally, errors, ranges, timingvars>>

UtilEnd == /\ pc = "util" /\ opnum = Len(trace)
           /\ util' = <<max_total_size, brk - HeapLo>>
           /\ pc' = "speed"
           /\ UNCHANGED <<args, opt, run, judgment, total_size, max_total_size, apart, tally,
                          errors, ranges, timingvars>>

Util == \/ StartUtil
        \/ \E p \in Results, b \in Breaks : UtilPlace(p, b)
        \/ \E b \in Breaks : UtilFree(b)
        \/ UtilExit \/ UtilEnd

-----------------------------------------------------------------------------
(* The rest of main.                                                       *)

\* free_trace, and the next trace, the next package or the report.
Advance(vs) ==
  /\ Wipe
  /\ valid' = vs
  /\ IF tracenum + 1 < NumFiles
       THEN pc' = "read" /\ tracenum' = tracenum + 1 /\ UNCHANGED package
     ELSE IF package = "libc"
       THEN pc' = "read" /\ tracenum' = 0 /\ package' = "mm"
     ELSE pc' = "end" /\ UNCHANGED <<tracenum, package>>
  /\ UNCHANGED <<args, opt, errors, ranges>>

Invalid == /\ pc = "judged" /\ ~verdict
           /\ Advance(Append(valid, FALSE))
           /\ UNCHANGED timingvars

\* eval_libc_valid, which ends the driver when libc gives NULL.
LibcValid == /\ pc = "evaluate" /\ package = "libc"
             /\ \/ pc' = "speed" /\ UNCHANGED errors
                \/ pc' = "exit" /\ errors' = errors + 1
             /\ UNCHANGED <<args, opt, run, judgment, sums, tally, ranges, timingvars>>

\* The call of fsecs on eval_mm_speed or eval_libc_speed.  What the trace and
\* its verdict were is not looked at again.
StartSpeed ==
  /\ pc = "speed"
  /\ Fsecs
  /\ pc' = "timing"
  /\ Wipe
  /\ UNCHANGED <<args, opt, tally, errors, ranges>>

Speed == /\ pc = "timing"
         /\ TimingStep
         /\ pc' = IF timing' = "exit" THEN "exit" ELSE pc
         /\ UNCHANGED <<args, opt, run, judgment, sums, tally, errors, ranges>>

Timed == /\ pc = "timing"
         /\ FsecsReturns
         /\ Advance(IF package = "mm" THEN Append(valid, TRUE) ELSE valid)

JNext == \/ Start \/ ReadTrace
         \/ StartValid
         \/ \E p \in Results, b \in Breaks, kept \in BOOLEAN : Place(p, b, kept)
         \/ (\E b \in Breaks : Release(b)) \/ (\E i \in Ids : ExitFree(i)) \/ ExitValid
         \/ Invalid
         \/ Util \/ LibcValid \/ StartSpeed \/ Speed \/ Timed

JSpec == JInit /\ [][JNext]_jvars

-----------------------------------------------------------------------------
\* The driver passes a trace exactly if the allocator did nothing wrong in that
\* very trace but put payloads around others, and the trace reallocates no
\* index that does not read back.  The errors it counts are the traces it
\* failed, so that an index is printed exactly when all are valid.
VerdictIsJust ==
  /\ pc = "judged" =>
       (verdict <=> /\ fault = "none"
                    /\ \A k \in DOMAIN trace : trace[k].type = "r" => Readable(trace[k].i))
  /\ pc = "end" =>
       /\ Len(valid) = NumFiles
       /\ errors = Cardinality({i \in DOMAIN valid : ~valid[i]})

\* The utilization of a trace is at most 1, unless the allocator put payloads
\* over each other or out of the heap in that very replay, where eval_mm_util
\* looks at nothing.
UtilizationInRange == pc = "speed" /\ apart => util[1] <= util[2]
=============================================================================
