------------------------------- MODULE Timing -------------------------------
(***************************************************************************)
(* How malloclab's driver times a function f: fsecs.c, with the K-best     *)
(* scheme of fcyc.c on the cycle counter of clock.c, or the mean of ten    *)
(* runs by ftimer.c's interval timer or gettimeofday.  Times are numbers   *)
(* of one unit; the scaling to seconds by the clock rate is left out.      *)
(***************************************************************************)
EXTENDS Integers, Sequences, SequencesExt

CONSTANTS
  Methods,     \* which of "FCYC", "ITIMER", "GETTOD" config.h may choose
  Platforms,   \* which of "i386", "alpha", "other" it is compiled for
  Half,        \* the values of half a cycle counter, 2^32 in the code
  K, MAXSAMPLES, EPSILON,  \* 3, 20 and 1 (percent)
  Costs,       \* how long f may take
  TickCost,    \* how long a timer interrupt takes
  MaxTicks,    \* interrupts during one run of f (bound)
  NEVENT, THRESHOLD, RECORDTHRESH,  \* 100, 1000 and 3000
  Runs,        \* 10, the runs that are averaged
  Second,      \* units of gettimeofday and the interval timer in a second
  MAX_ETIME    \* the seconds the interval timer is set to, 86400

ASSUME TimingAssumption ==
  /\ {Half, K, MAXSAMPLES, NEVENT, THRESHOLD, Runs, Second} \subseteq Nat \ {0}
  /\ Costs \subseteq Nat \ {0}
  /\ {EPSILON, MaxTicks, RECORDTHRESH, TickCost, MAX_ETIME} \subseteq Nat
  /\ TickCost >= THRESHOLD /\ RECORDTHRESH >= THRESHOLD

\* A run with its interrupts takes less than a turn of the counter, which at
\* a gigahertz is some hundred years.
ASSUME RunAssumption ==
  \A d \in Costs : d + MaxTicks * TickCost < Half * Half

VARIABLES
  method, platform,
  timing,        \* fsecs is "off", at "start" of a sample, in "callibrate",
                 \* at "measure", in "runs" of ftimer.c, "done" or "exit"
  cyc_per_tick,
  cal,           \* callibrate: newt - oldt, the ticks counted since oldc, and e
  values,        \* fcyc.c's values: the K smallest samples
  samples,       \* history: all samples, sorted
  start,         \* where in a second ftimer.c starts
  runs, spent,   \* the runs of f it has made, and the time they took
  secs           \* what fsecs has returned

timingvars == <<method, platform, timing, cyc_per_tick, cal, values, samples,
                start, runs, spent, secs>>
ftimer == <<start, runs, spent>>
fcyc   == <<values, samples>>

NoGap == [since |-> 0, ticks |-> 0, e |-> 0]

TimingInit == /\ method \in Methods
              /\ platform \in IF method = "FCYC" THEN Platforms ELSE {"i386"}
              /\ timing = "off" /\ cyc_per_tick = 0 /\ cal = NoGap
              /\ values = <<>> /\ samples = <<>>
              /\ start = 0 /\ runs = 0 /\ spent = 0 /\ secs = 0

-----------------------------------------------------------------------------
(* clock.c: the counter in two halves.  The Alpha has only the low one.    *)

Counter == 0 .. Half * Half - 1

access_counter(c) == [hi |-> IF platform = "alpha" THEN 0 ELSE c \div Half,
                      lo |-> c % Half]

\* Mutant of get_counter: no borrow.
get_counter_without_borrow(c0, c1) ==
  LET old == access_counter(c0)
      new == access_counter(c1)
  IN ((new.hi - old.hi) % Half) * Half + ((new.lo - old.lo) % Half)

\* Double precision subtraction, started at c0 and read at c1.
get_counter(c0, c1) ==
  LET old == access_counter(c0)
      new == access_counter(c1)
      lo == (new.lo - old.lo) % Half
      borrow == IF lo > new.lo THEN 1 ELSE 0
  IN ((new.hi - old.hi - borrow) % Half) * Half + lo

\* get_comp_counter, when times() has counted so many ticks.
get_comp_counter(c0, c1, ticks) == get_counter(c0, c1) - ticks * cyc_per_tick

\* A tick in a turn of callibrate's loop comes before the counter is read, in
\* user mode or in kernel mode, which tms_utime does not count, or after it and
\* before times() at the end of a gap: then it is counted in this gap, and the
\* next one takes its time.
Ticks == {"none", "user", "kernel", "late"}

\* One turn of the loop.  Two ticks are many turns apart.  oldt is moved only
\* when THRESHOLD has passed, so the time before a tick is counted in.
CallibrateTurn(tick) ==
  LET gap == cal.since + 1 + (IF tick \in {"user", "kernel"} THEN TickCost ELSE 0)
      ticks == cal.ticks + (IF tick \in {"user", "late"} THEN 1 ELSE 0)
      less == cyc_per_tick = 0 \/ cyc_per_tick > gap
  IN /\ timing = "callibrate" /\ cal.e < NEVENT
     /\ tick # "none" => cal.ticks = 0 /\ cal.since < THRESHOLD
     /\ tick = "late" => gap >= THRESHOLD
     /\ cal' = IF gap < THRESHOLD THEN [cal EXCEPT !.since = gap]
               ELSE [since |-> IF tick = "late" THEN TickCost ELSE 0,
                     ticks |-> 0, e |-> cal.e + ticks]
     /\ cyc_per_tick' = IF ticks > 0 /\ less /\ gap > RECORDTHRESH THEN gap ELSE cyc_per_tick
     /\ UNCHANGED <<method, platform, timing, fcyc, ftimer, secs>>

CallibrateEnd == /\ timing = "callibrate" /\ cal.e = NEVENT
                 /\ timing' = "measure" /\ cal' = NoGap
                 /\ UNCHANGED <<method, platform, cyc_per_tick, fcyc, ftimer, secs>>

-----------------------------------------------------------------------------
(* fcyc.c.                                                                 *)

\* Insertion from the end, behind what is not larger.
Inserted(s, v) ==
  LET pos == CHOOSE i \in 0 .. Len(s) :
               /\ i = 0 \/ s[i] <= v
               /\ \A j \in i + 1 .. Len(s) : s[j] > v
  IN InsertAt(s, pos + 1, v)

\* Mutant of add_sample: a full table takes only a new minimum.
add_minimum(vs, v) ==
  IF Len(vs) < K THEN Inserted(vs, v)
  ELSE IF v < vs[1] THEN Inserted(SubSeq(vs, 1, K - 1), v) ELSE vs

add_sample(vs, v) ==
  IF Len(vs) < K THEN Inserted(vs, v)
  ELSE IF v < vs[K] THEN Inserted(SubSeq(vs, 1, K - 1), v) ELSE vs

has_converged(vs, count) ==
  count >= K /\ (100 + EPSILON) * vs[1] >= 100 * vs[K]

\* It callibrates as long as it does not know what a tick costs.  A tick may
\* come between its times() and its start_counter().
start_comp_counter ==
  IF cyc_per_tick = 0
    THEN timing' = "callibrate" /\ \E tick \in 0 .. 1 : cal' = [NoGap EXCEPT !.ticks = tick]
    ELSE timing' = "measure" /\ UNCHANGED cal

\* clear first reads through a buffer, which malloc may refuse.
StartSample == /\ timing = "start"
               /\ \/ start_comp_counter
                  \/ timing' = "exit" /\ UNCHANGED cal
               /\ UNCHANGED <<method, platform, cyc_per_tick, fcyc, ftimer, secs>>

\* How far tms_utime gets: the user-mode ticks, with those between times() and
\* a reading of the counter.
Counted(n, kernel, between) == n - kernel + between

\* What is measured when the counter starts at c, f takes d, and n ticks come
\* meanwhile, some of them in kernel mode.  One more may come between times()
\* and start_counter(), and one between get_counter() and times().
Sample(c, d, n, kernel, between) ==
  get_comp_counter(c, (c + d + n * TickCost) % (Half * Half), Counted(n, kernel, between))

Measure(d, n, kernel, between) ==
  /\ timing = "measure"
  /\ \E c \in Counter :
       LET cyc == Sample(c, d, n, kernel, between)
       IN values' = add_sample(values, cyc) /\ samples' = Inserted(samples, cyc)
  /\ IF ~has_converged(values', Len(samples')) /\ Len(samples') < MAXSAMPLES
       THEN timing' = "start" /\ UNCHANGED secs
       ELSE timing' = "done" /\ secs' = values'[1]
  /\ UNCHANGED <<method, platform, cyc_per_tick, cal, ftimer>>

-----------------------------------------------------------------------------
(* ftimer.c, and fsecs.                                                    *)

Sec(t)  == t \div Second
Usec(t) == t % Second

gettod(t0, t1) == Second * (Sec(t1) - Sec(t0)) + (Usec(t1) - Usec(t0))

\* The time since init_etime, when the timer has counted down to t.
get_etime(t) == Second * (MAX_ETIME - Sec(t)) + (0 - Usec(t))

Remaining == Second * MAX_ETIME - spent

\* One run of f.  The interval timer ends the driver when it runs out.
RunF(d) == /\ timing = "runs" /\ runs < Runs
           /\ runs' = runs + 1 /\ spent' = spent + d
           /\ timing' = IF method = "ITIMER" /\ d >= Remaining THEN "exit" ELSE "runs"
           /\ UNCHANGED <<method, platform, cyc_per_tick, cal, fcyc, start, secs>>

RunsEnd == /\ timing = "runs" /\ runs = Runs
           /\ secs' = IF method = "GETTOD" THEN gettod(start, start + spent)
                      ELSE get_etime(Remaining) - get_etime(Second * MAX_ETIME)
           /\ timing' = "done"
           /\ UNCHANGED <<method, platform, cyc_per_tick, cal, fcyc, ftimer>>

\* f itself may give up (app_error in eval_mm_speed).
FExits == /\ timing \in {"measure", "runs"}
          /\ timing' = "exit"
          /\ UNCHANGED <<method, platform, cyc_per_tick, cal, fcyc, ftimer, secs>>

\* fsecs is called.
Fsecs == /\ timing = "off"
         /\ timing' = IF method = "FCYC" THEN "start" ELSE "runs"
         /\ values' = <<>> /\ samples' = <<>>
         /\ runs' = 0 /\ spent' = 0
         /\ start' \in IF method = "GETTOD" THEN 0 .. Second - 1 ELSE {0}
         /\ UNCHANGED <<method, platform, cyc_per_tick, cal, secs>>

\* Its caller takes the result.
FsecsReturns == /\ timing = "done"
                /\ timing' = "off"
                /\ values' = <<>> /\ samples' = <<>>
                /\ start' = 0 /\ runs' = 0 /\ spent' = 0 /\ secs' = 0
                /\ UNCHANGED <<method, platform, cyc_per_tick, cal>>

TimingStep == \/ \E tick \in Ticks : CallibrateTurn(tick)
              \/ CallibrateEnd
              \/ StartSample
              \/ \E d \in Costs : RunF(d)
              \/ \E d \in Costs, n \in 0 .. MaxTicks, between \in 0 .. 2 :
                   \E kernel \in 0 .. n : Measure(d, n, kernel, between)
              \/ RunsEnd \/ FExits

TimingSpec == TimingInit /\ [][TimingStep \/ Fsecs \/ FsecsReturns]_timingvars

-----------------------------------------------------------------------------
\* fcyc keeps the K smallest of all samples, in order, gives up after
\* MAXSAMPLES and stops before only when K of them agree within EPSILON; what
\* it returns is the smallest of all.  The ftimer functions return the time of
\* all their runs, wherever in a second they started.
TimesAreMeasured ==
  /\ values = SubSeq(samples, 1, IF Len(samples) < K THEN Len(samples) ELSE K)
  /\ \A i \in 1 .. Len(samples) - 1 : samples[i] <= samples[i + 1]
  /\ timing = "done" =>
       IF method = "FCYC"
         THEN /\ secs = samples[1]
              /\ Len(samples) <= MAXSAMPLES
              /\ Len(samples) < MAXSAMPLES =>
                   100 * (samples[K] - samples[1]) <= EPSILON * samples[1]
         ELSE secs = spent /\ runs = Runs

\* Once a tick's cost is known, although it was taken from gaps that began
\* before the tick, a sample is the time f takes itself, but that a user-mode
\* tick takes away at most THRESHOLD, a kernel-mode tick adds what it costs,
\* and a tick that comes between two readings takes that cost away, and at
\* most THRESHOLD more.  So a sample may be negative.
CompensationBound ==
  timing = "measure" /\ cyc_per_tick # 0 /\ platform = "i386" =>
    \A c \in Counter, d \in Costs, n \in 0 .. MaxTicks, between \in 0 .. 2 :
      \A kernel \in 0 .. n :
        LET time == d + (kernel - between) * TickCost
            user == n - kernel + between
        IN Sample(c, d, n, kernel, between) \in time - user * THRESHOLD .. time
=============================================================================
