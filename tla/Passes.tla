------------------------------- MODULE Passes -------------------------------
(***************************************************************************)
(* What main of malloclab/mdriver.c does with one trace: eval_mm_valid     *)
(* (module MDriver) and, if the allocator passed, eval_mm_util and then    *)
(* eval_mm_speed, which fsecs times ten times with gettimeofday.  The last *)
(* two replay the trace on the used memory, without ranges, and exit on    *)
(* any failure.  (What eval_mm_util adds up is in module Judge.)           *)
(***************************************************************************)
EXTENDS MDriver

VARIABLES
  pass,     \* the function that runs: "valid", "util" or "speed"
  trace,    \* trace->ops
  placed,   \* history: the pointers that eval_mm_valid's requests were about
  exited    \* app_error has ended the driver

pvars == <<dvars, pass, trace, placed, exited>>

Op(type, i, n) == [type |-> type, i |-> i, n |-> n]

PInit == /\ Init
         /\ pass = "valid" /\ trace = <<>> /\ placed = <<>> /\ exited = FALSE

\* The trace is chosen while eval_mm_valid goes through it.
ValidRequest ==
  /\ pass = "valid"
  /\ \E i \in Ids :
       \/ \E n \in Requests : Alloc(i, n) /\ trace' = Append(trace, Op("a", i, n))
       \/ Free(i) /\ trace' = Append(trace, Op("f", i, 0))
  /\ placed' = Append(placed, block'[trace'[opnum'].i].p)
  /\ UNCHANGED <<pass, exited>>

ValidEnd == /\ pass = "valid"
            /\ Exit
            /\ UNCHANGED <<pass, trace, placed, exited>>

\* Mutant of Restart: the heap of the run before is used on.
RestartKeepingHeap(next) ==
  /\ pass' = next
  /\ opnum' = 0
  /\ UNCHANGED <<heap, ranges, block, inUse, error, evaluating, tracenum, trace, placed>>

\* eval_mm_util after eval_mm_valid has returned 1, eval_mm_speed after
\* eval_mm_util has returned and again and again.
Restart(next) ==
  /\ pass' = next
  /\ heap' = mm_init(heap.mem)
  /\ opnum' = 0
  /\ UNCHANGED <<ranges, block, inUse, error, evaluating, tracenum, trace, placed>>

StartUtil == /\ pass = "valid" /\ ~evaluating /\ error = "none"
             /\ Restart("util")
             /\ UNCHANGED exited

StartSpeed == /\ pass # "valid" /\ opnum = Len(trace) /\ ~exited
              /\ Restart("speed")
              /\ UNCHANGED exited

\* One request of eval_mm_util or eval_mm_speed.
Replay ==
  LET op == trace[opnum + 1]
      r == mm_malloc(heap, op.n)
  IN /\ pass # "valid" /\ opnum < Len(trace) /\ ~exited
     /\ IF op.type = "f"
          THEN /\ heap' = mm_free(heap, block[op.i].p)
               /\ UNCHANGED <<block, exited>>
          ELSE /\ heap' = r.h
               /\ IF r.p = 0
                    THEN exited' = TRUE /\ UNCHANGED block
                    ELSE /\ block' = [block EXCEPT ![op.i] = [p |-> r.p, n |-> op.n]]
                         /\ UNCHANGED exited
     /\ opnum' = opnum + 1
     /\ UNCHANGED <<ranges, inUse, error, evaluating, tracenum, pass, trace, placed>>

PNext == ValidRequest \/ ValidEnd \/ StartUtil \/ StartSpeed \/ Replay
PSpec == PInit /\ [][PNext]_pvars

-----------------------------------------------------------------------------
\* A trace that eval_mm_valid passed does not end the driver later on:
\* eval_mm_util and eval_mm_speed never meet a NULL from mm_malloc.
NeverExits == ~exited

\* Every replay puts each block where eval_mm_valid saw it, whatever the runs
\* before have left in memory: mm_init forgets all of it.
SamePlaces ==
  [][\A k \in DOMAIN trace :
       Replay /\ k = opnum' => block'[trace[k].i].p = placed[k]]_pvars
=============================================================================
