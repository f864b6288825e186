# A TLA+ verification project for system-programming-lab

The repository is a set of system-programming exercises in C. Each one is a
small complete program. This directory models the ones with interesting
behaviour, checks them with TLC and proves the central results with TLAPS.

## 1. Inventory

| component | source | state | what interacts | what makes it correct |
|---|---|---|---|---|
| **tsh**, a job-control shell | `shelllab/tsh.c` | `jobs[16]`, `nextjid`, the locals of the routine that runs, the signal mask, pending signals | the main routine, three handlers that interrupt it and each other, the children (which run the shell's own code and handlers until `execve`), the kernel | no child is reaped before it is recorded, no child is lost, the foreground job is the one that is waited for and signalled, waiting ends |
| **mm**, a `malloc` with segregated sorted lists | `malloclab/mm.c`, `memlib.c` | the heap (boundary tags), ten list heads, the break | `mm_malloc`, `mm_free`, `mm_realloc`, `mem_sbrk` | blocks tile the heap, no two adjacent free blocks, the lists hold exactly the free blocks, live blocks do not overlap |
| **mdriver**, the driver that judges mm | `malloclab/mdriver.c` | the list of live ranges, the trace's blocks, the verdicts and `errors` | calls mm, reads options and traces, has them timed | it passes a trace only if the allocator did nothing wrong in it but put payloads around others, and fails it only for such a wrong, or for reallocating an index that it cannot read back |
| **fcyc and timing** | `malloclab/fcyc.c`, `fsecs.c`, `ftimer.c`, `clock.c` | the `k` best samples, what a timer tick costs | calls the timed function, reads counters and timers | the smallest of all samples is returned, on convergence or after `maxsamples`; compensation is off by no more than the ticks that came, and where they came, explain |
| **proxy**, one thread per connection | `proxylab/proxy.c` | descriptors, the log, a mutex and a semaphore | threads, `csapp.c` wrappers that exit the process | a thread serves its own connection and its own host, answers are logged first, no deadlock |
| **Rio**, buffered robust I/O | `proxylab/csapp.c` | the internal buffer and its count | `read`/`write` with short counts | the bytes handed out are the bytes of the stream, in order |
| **echo server and client** | `proxylab/echo*.c` | a connection's two ends, buffers that are used again | Rio on both sides, processes that are killed | what is echoed is what was sent, in order; a client gets the echo of its own line |
| **memtrace**, interposed malloc | `linklab/*/memtrace.c`, `utils/memlist.c`, `memlog.c` | the item list with reference counts, the statistics | `LD_PRELOAD`ed calls, constructor and destructor | statistics equal what was allocated and freed; leaks listed; wrong frees ignored by the bonus library |
| `function.c`, `bufbomb`, reports | | | | not programs with behaviour of their own |

Hard behaviours: in tsh every statement can be interrupted by handlers that
change the table it is working on, signals are lost by coalescing and the
children race with the parent; in mm long sequences of legal calls decide
whether the tags and the lists stay consistent, and the heap may not grow; in
the proxy threads share a log, a semaphore and the process's life; in memtrace
calls come in orders (double free, free of a foreign pointer) that the code
must survive. `PROJECT.json` lists each hazard at its line.

## 2. Plan

In order of importance; all of it is built.

1. `Reaper` (what the shell promises about children), `Tsh` (the shell),
   `TshClaims` (what its comments claim), `MCTsh`; `TshProofs`.
2. `Heap` (what an allocator promises about blocks) and `MM` (tags, lists and
   every function of `mm.c`), with its checker in `MMCheck`, driven by
   `MDriver`, the trace driver, which shows that `MM` implements `Heap`;
   `Passes` composes the driver's three evaluations; `HeapProofs`,
   `MDriverProofs`.
3. `Ranges`, `RangeList` and `Timing`, composed by `Judge`: the driver's main
   routine with any allocator at all; `JudgeProofs`.
4. `MemTrace`: the interposing libraries over the item list; `MemTraceProofs`.
5. `Proxy`: threads, descriptors, semaphores, the log, exits; `ProxyProofs`.
6. `Rio`: buffered reads and writes, which `Echo` composes into the echo
   server and its clients; `EchoProofs`.

## 3. The shell

### Modules

* `Tsh.tla` models `tsh.c`. The shell is one thread on which handler frames
  nest: `cpu` names the frame that runs (`"main"`, a signal, or `"none"` once
  the shell has exited), `hret[s]` the frame that the handler of `s`
  interrupted, `hpc[s]` where that handler is, `mpc` where the main routine is.
  `Signal()` (tsh.c:820) uses an empty `sa_mask`, so that a handler masks only
  its own signal; `Deliver` and `Return` say so. The job table is `jobs` and
  `nextjid`, slot for slot as in the code.
* `Reaper.tla` is the abstract specification: children that are launched, die,
  stop, wake and are attended to, and a bell that must not fall silent while
  somebody is unattended. `Tsh` implements it (`ImplementsReaper`).
* `TshClaims.tla` states what comments of `tsh.c` say and the code does not do.
* `MCTsh.tla` gives TLC its processes and the symmetry of one run.
* `TshProofs.tla` holds the proofs; `NatLemmas.tla` has what several modules'
  proofs need: least and greatest numbers, recursion over the subsets of a
  finite set, and sums over finite sets.

### Correspondence

| code | actions |
|---|---|
| `eval`, launching | `Fork`, `ForkFails`, then `addjob` as `AddPid`, `AddState`, `AddJid`, then `Unblock`, which ends the command or goes on to `waitfg` |
| `waitfg` | `WaitReturns` (the loop does nothing while it is disabled) |
| `do_bgfg` | `LookupJid`, `LoadPid` for `%j`, `LookupPid` for a pid, then `Continue` and `StoreState` |
| `builtin_cmd` "quit", end of file | `Quit` |
| `sigchld_handler` | `ChldStart`, `ChldWait` (one `waitpid`), `ChldStopped`, `ChldTerminated` and `ChldClear` (`deletejob`), `Return("CHLD")` |
| `sigint_handler`, `sigtstp_handler` | `TtyStart`, `TtyKill`, and `TstpJid`, `TstpStore` |
| the child's side of `eval` | `Setpgid`, `Execve`, and `Inherited` for the shell's handlers it still runs, on its `copy` of the table |
| programs (`myspin`, `mystop`, `myint`), kernel | `Exit`, `Killed`, `Stopped`, `Raise`; `Type` is a signal sent to the shell |

Steps are split where another frame or process can see or change what the code
works on. A scan of the table is one step: the handlers that can interrupt it
only change the entry of the job in the foreground, and a scan that saw the
entry before and one that saw it after the change are both modelled.
`clearjob` is two steps (the pid, then the rest), because an entry without a
pid that is still `FG` changes what `fgpid` answers; the fields of `addjob`
are written one by one. `LoadPid`, `Continue` and `StoreState` are separate
because a job can stop, die and be reaped between them.

Indices `jobs[jid-1]` need not be slots (tsh.c:398, 434, 441, 523, 531, 607).
The build in the repository places the array in zeroed memory with zeroed
words before and after it, so that such a store is never seen and such a pid
is 0: `SetState`, `PidAt`.

### Abstractions and bounds

* A job's process group is one process; programs do not fork (`mysplit` runs
  its child in the same group and waits for it).
* A pid is not reused. The system would have to wrap its pid space within one
  session for that.
* `SIGQUIT` ends the shell as `Quit` does, `getIntOrStp` is written and never
  read, `jobs` prints only, command lines and messages carry no state.
* `MaxJobs` is 2 or 3 where the code has 16: with 2 and 3 processes the table
  fills up and job IDs wrap. `Pids` bounds the number of forks, `MaxKeys` the
  signals typed at the shell.

### Runs

| run | what is checked | instance |
|---|---|---|
| `tsh_session` | `NoReapBeforeAdd`, `ReapPromised`, `ImplementsReaper` | every command, 2 processes, one key, programs that stop or interrupt themselves |
| `tsh_launch` | `SlotIsJid`, `ForegroundMeansWaiting`, `NeverWaitsForReaped`, `KeysReachTheWaitedJob` | no fg and bg; 3 processes on 2 slots, one key, programs that stop themselves |
| `tsh_live` | `WaitEnds`, `EveryDeathIsReaped` | no fg, bg or key, 3 processes on 2 slots, programs that stop themselves, under `FairSpec` |

Two processes are enough for `tsh_session`: its properties relate one child to
the frames of the shell, and the second child supplies the other death that
coalesces with the first. `tsh_launch` has one process more than the table has
slots, so that a launch is refused. The deadlock check is off because `quit`
ends the shell.

Fairness (`Fairness`): the shell's code runs (a handler or main always has the
processor), the kernel delivers an unmasked pending signal, a child reaches
`execve`, dies of or stops on a pending signal, and a program that runs
eventually exits, as the programs of the traces do. Nothing is assumed of the
user, and nothing of `Inherited`. The liveness run types no key, because a
key at the prompt hangs the shell (below).

Two runs each refute a statement of a comment:

| run | the code |
|---|---|
| `tsh_two_fg` | `fg` with a pid stores `FG` in `jobs[jid-1]`, another job's slot: two jobs in the foreground (comment at line 60) |
| `tsh_wait_early` | the death of a background job deletes the foreground job's entry, and the shell prompts while that job runs (line 193) |

The model shows more behaviour of this kind, for which no run is kept:

* a background job that ends while nothing is in the foreground is never
  deleted (the handler deletes `foregroundPid`, which is 0);
* `bg` on a job that stops again before the store leaves it listed as running;
* `fg` on a job that is reaped before the store makes `waitfg` spin on nobody;
* with no foreground job ctrl-c makes the handler signal the shell itself, for
  ever;
* ctrl-z stores `ST` in `jobs[jid-1]`, which need not be the stopped job;
* a background child receives ctrl-c until it has called `setpgid`.

They are why `tsh_launch` and `tsh_live` leave out fg and bg: the properties
they check fail with them.

### Proofs

`TshProofs` proves for every set of processes, table size and kind of session:

* `TypeCorrect`: `Spec => []TypeOK`. `TypeOK` is inductive; the lemmas about
  `fgpid`, `pid2jid`, `maxjid` and `SetState` say what a scan can return.
* `InvHolds`: `Spec => []Inv`, with
  `Inv == TypeOK /\ Nested /\ Masked /\ Launched /\ Attended`.
  `NoReapBeforeAdd` is not inductive: the mask that protects the launch is
  lifted by nobody only if no SIGCHLD handler is active when it is set, which
  needs that `cpu = "main"` means that no handler has a frame (`Nested`), and
  that the mask is on exactly during the launch (`Masked`). `ReapPromised`
  needs that the bell is silenced only after `waitpid` found nobody
  (`Attended`).
* `ReapedAfterAdd` and `NoLostChild`: the two safety properties of the
  session run.
* `ShellImplementsReaper`: `Spec => ImplementsReaper`, by mapping each action
  to an action of `Reaper` or to a stutter.

They assume only `PidsAssumption` (0 and -1 are not pids), `SizeAssumption`
and `UserAssumption`.

For sessions without fg and bg (`Builtins = {}`, a hypothesis of the theorems,
as in the run `tsh_launch`; with them the properties fail, see above) it also
proves `JidsIndexSlots` (`SlotIsJid`), `ForegroundIsWaitedFor`
(`ForegroundMeansWaiting`), `WaitIsForTheLiving` (`NeverWaitsForReaped`) and
`KeysReachWaited` (`KeysReachTheWaitedJob`), from

    LaunchInv == Inv /\ Tidy /\ HandlersKnow /\ ForegroundMeansWaiting /\ DeathDeletes

* `Tidy` is about the table: the entries in use come first (`InOrder`), and
  `nextjid` is the job ID of the first free one (`NextFree`). That lasts
  because without fg and bg the only entry that is ever deleted is the
  foreground job's, which was added last (`LastSlot`). `InOrder` also says what
  an entry looks like that main has half written or a handler half cleared.
* `HandlersKnow`: what a handler has read from the table as the foreground
  job is the job that main launched in the foreground, however long ago it was
  read.
* `DeathDeletes`: while the job is in the foreground, a handler that reaps it
  has read its pid before and is about to delete it; so main never waits for a
  job that is gone without somebody who ends the wait.

Liveness (`WaitEnds`, `EveryDeathIsReaped`) is model-checked only.

## 4. The allocator and its driver

### Modules

* `Heap.tla` is the abstract heap: a set of blocks between the first block and
  the break. `Reuse` takes a smallest free block that fits, `Extend` grows the
  heap when none does, `Free` merges with free neighbours, `FreeAll` is
  `mm_exit`, `Restart` is `mem_reset_brk` and `mm_init`.
* `MM.tla` has `mm.c` word by word: `mem` maps the addresses of the simulated
  memory to words, the macros keep their names, and every function is an
  operator from a heap to a heap. Lists are sorted and doubly linked through
  the blocks, with their heads in the first ten words. A loop is a function of
  the number of its rounds (`Node` along a list, `ExitFrom` along the blocks),
  taken at the round where the loop stops; `MaxLen`, memory divided by the
  smallest block, is more rounds than any of them can need.
* `MMCheck.tla` is `mm_check` with its five parts, which `mm_exit` runs first
  when `MMCHECK` is defined; `Walk` is the set of blocks its loops visit.
* `Ranges.tla` has `add_range` and `remove_range` of `mdriver.c`.
* `MDriver.tla` is `eval_mm_valid`: `Alloc`, `Free` and `Realloc` are one
  request each, with the driver's checks and its `memset`; `Exit` is
  `mm_exit` and the leak check, `NextTrace` what `main` does before it reads
  the next trace.
* `Passes.tla` composes `eval_mm_valid` with `eval_mm_util` and
  `eval_mm_speed`, which replay the trace without any check and exit on a
  failure.
* `RangeList.tla` puts the range list under an allocator that returns any
  address.
* `Timing.tla` is `fsecs` with each of its three methods: the K best samples
  of `fcyc.c` on the cycle counter of `clock.c` with the compensation for
  timer ticks, and the interval timer and `gettimeofday` of `ftimer.c`.
* `Judge.tla` is `main` of `mdriver.c` over `RangeList` and `Timing`: options,
  trace files that may be malformed, both packages, and an allocator that may
  return anything, grow the heap, destroy data or leak. Its `eval_mm_util` is a
  run of its own on a heap that starts anew: the allocator need not do there
  what it did in `eval_mm_valid`, and as in the code only a NULL is noticed.
* `HeapProofs.tla` proves about `Heap`, `MDriverProofs.tla` about `MM`,
  `MMCheck`, `MDriver` and `Passes`, `JudgeProofs.tla` about `RangeList`,
  `Timing` and `Judge`.

| code | definitions |
|---|---|
| `mm_init`, `extend_heap`, `mem_sbrk` | `MM!mm_init`, `extend_heap`, `mem_sbrk` |
| `mm_malloc`, `find_fit`, `place` | `mm_malloc`, `AdjustedSize`, `find_fit`, `place` |
| `mm_free`, `coalesce`, `insert_free_block`, `remove_free_block` | the same names, with `Seek` and `Linked` for the two halves of `insert_free_block`; the removal of the range is `Ranges!Removed` in `MDriver!Free` |
| `mm_exit` | `mm_exit`, `ExitFrom`, `ExitStep` (one round of its loop, with the removal of the range) |
| `mm_realloc` | `mm_realloc` (not implemented in the code: it returns NULL) |
| `eval_mm_valid` | `Request`, `Alloc`, `Free`, `Realloc`, `Exit`, `Fail` |
| `eval_mm_util`, `eval_mm_speed` | `Restart`, `Replay`, `StartUtil`, `StartSpeed` |
| `mm_check` | `MMCheck!mm_check` and its parts by name |
| `main` of `mdriver.c` | `Judge!Start` (options, team, `init_fsecs`), `ReadTrace`, `Invalid`, `Advance` |
| `eval_mm_valid`, of any allocator | `Judge!StartValid`, `Place`, `Release`, `ExitFree`, `ExitValid` |
| `eval_mm_util` | `StartUtil`, `UtilPlace`, `UtilFree`, `UtilExit`, `UtilEnd` |
| `eval_libc_valid`, and the timing of `eval_mm_speed` and `eval_libc_speed` | `LibcValid`, `StartSpeed`, `Speed`, `Timed` |
| `fcyc`, `add_sample`, `has_converged` | `Timing!StartSample`, `Measure`, the others by name |
| `start_comp_counter`, `callibrate`, `get_counter` | `start_comp_counter`, `CallibrateTurn`, `CallibrateEnd`, `get_counter` (two halves of `Half` values each, with the borrow) |
| `ftimer_itimer`, `ftimer_gettod` | `RunF`, `RunsEnd`, `get_etime`, `gettod` |

### Runs

| run | what is checked | instance |
|---|---|---|
| `heap_blocks` | `Disjoint`, `Tiles`, `Coalesced`, `LiveBlocksStay` | 20 double words, chunk 6, four block sizes |
| `mm_valid` | `CheckerSilent`, `TagsMatch`, `ListsExact`, `PayloadIntact`, `RangesAreLive`, `DriverAccepts`, `FailsOnlyWhenFull`, `ImplementsHeap` | 152 bytes of memory, chunk 48, two traces of up to 5 requests for 0, 1, 13 or 44 bytes, 4 indices, memory that starts full of a word that looks like a tag |
| `mm_passes` | `NeverExits`, `SamePlaces` | 184 bytes, chunk 64, traces of up to 7 requests for 12 or 50 bytes |
| `judge` | `OnlyEnclosedMissed`, `VerdictIsJust`, `UtilizationInRange`, `TimesAreMeasured`, `CompensationBound` | no option or one, two trace files of up to 3 requests for 0, 8 or 24 bytes, indices 0 and 128, a heap of 24 or 32 bytes, results in and around it; every method and platform, counters of 4 times 4 values, K = 2 of at most 3 samples, up to 2 ticks in one and one more at each end, 2 ticks in `callibrate` |

`add_range` compares the end points of the new payload only, and so accepts one
that encloses a payload in use, against the comment at `mdriver.c:408`:
`OnlyEnclosedMissed` says that this is the only case it misses.

The data of a reallocated block is compared through a `char`, which is signed
where the Makefile compiles (i386), with an int from 0 to 255
(`mdriver.c:666`). An index whose low byte is 128 or more does not read back
what `memset` stored (`Readable`), and a correct reallocation of it fails the
trace, against the comment above the comparison ("make sure that the new block
contains the data from the old block", `mdriver.c:658-662`). This is a defect of
the driver. `VerdictIsJust` names it and says what does hold: a trace fails
exactly for what the allocator did wrong in that trace, not in an earlier one,
other than enclosing a payload, or for reallocating such an index. The run has
an index of each kind.

`eval_mm_util` looks at no payload, so that its result may exceed 1 when the
allocator misbehaves in that replay. `UtilizationInRange` says that it does not
when the payloads of the replay lie in its heap and apart (the history
`apart`): the high water mark, which is kept through frees and reallocations, is
then within the heap that it is divided by.

`clock.c` reads ticks and cycles one after the other. A timer tick may come
anywhere: in user or kernel mode in `f`, between `times` and the counter at
either end of a sample (`between` in `Measure`), before `callibrate`'s own
first reading, and in a turn of its loop before the counter is read or after it
and before `times` (`Ticks`). `CompensationBound` says how far a sample is then
from what `f` took: each tick that `times` counted takes away up to `THRESHOLD`
too much, as `callibrate` takes what a tick costs from gaps that begin before
the tick; one in kernel mode is measured and not taken away; one between two
readings is taken away and was not measured. A sample may be negative, and then
`has_converged` compares with a smaller bound still. The property is about the
i386: the Alpha's counter has only the low half, which wraps within a run of
`f`; there the model shows that samples are kept right, and no more. In
`callibrate` gaps are counted from its last reading, so no counter of the model
wraps in it. Other processes do not run meanwhile.

`mm_check` is weaker than its messages: of each list it reads the first block
only, and there the low bit of a link for the mark in the header, and
`isEveryFreeBlockInFreeList` compares an address with itself. `CheckerSilent`
says that it still reports nothing on any heap that a legal trace leaves;
what its messages promise is in `ListsExact` and `TagsMatch`.

In `judge` the counters are small so that they wrap and borrow within one run
of `f`; K, `MAXSAMPLES` and `Runs` are at least 2, so that samples are
replaced, converge early and run out. Two files suffice for ranges of one trace
to meet the next, and one option to reach both packages, one file instead of
several and the end before a trace is read; `-l` together with `-f` combines
what each does alone. Requests for 8 and 24 bytes in a heap of 24 or 32 are
enough for payloads that overlap, enclose each other and leave the heap.

The sizes are chosen so that five requests suffice for merging with no, one
and both neighbours, for a split and for a remainder too small to split off,
for lists of two categories and with two members, for growth that merges with
the free end, and for memory that is exhausted. In
`mm_valid` the second trace starts on what the first has left in memory.
`ImplementsHeap` says more than that the blocks evolve as `Heap` allows: each
call does what the action of that call does (`CallsOfHeap`).

Requests in traces are far below 2^31, so that sizes do not wrap. Left out of
mdriver: printing, the index that combines the results, and the estimate of
the clock rate that scales times to seconds. A trace that frees a block twice
(`double-free.rep`) makes `coalesce` insert it into its list a second time
behind itself, and `mm_malloc` return it twice; the modelled traces free what
is in use.

### Proofs

`HeapProofs` proves for every base, chunk, limit and set of sizes (under
`HeapAssumption`: the chunk is positive, block sizes are at least two):

* `HeapInvariant`: `HSpec => []HInv`. `Disjoint`, `Tiles` and `Coalesced` are
  not inductive one by one: merging keeps blocks disjoint because a block has
  at most one neighbour on each side (`OneNeighbour`), which is disjointness,
  and there is nothing left to merge beyond the neighbours because the heap
  was coalesced before. `CoalesceGood`, `SplitGood`, `PlaceGood` and `NewGood`
  say what one call does to a good heap.
* `BlocksDisjoint`, `BlocksTile`, `FreeNeighboursMerged`, `HeapTypeCorrect`
  from it, and `LiveBlocksUntouched`: a step changes a block in use only by
  freeing it, at the end of a trace or at a restart.

`JudgeProofs` proves, for every heap, set of sizes, options, trace files and
answers of the allocator:

* `OverlapsOnlyEnclosing` and `OverlapsMissedByDriver`: `OnlyEnclosedMissed`
  for the range list on its own and in the whole driver. The invariant `Good`
  adds that ranges are not empty; the lemmas say which pairs a sequence keeps
  when an element is put in front or taken out.
* `JudgesJustly` (`VerdictIsJust`, with the indices that do not read back), from
  `JudgeInv == TraceInv /\ Good(ranges) /\ Judging /\ Tally`. The verdict
  is right because, while a trace is run, the list holds exactly the payloads
  that the program has (`Held`), of the indices that the requests so far leave
  in use (`Tracked`): so `add_range` accepts a payload exactly when nothing is
  wrong with it, and a range is found for every block that is freed; and no
  request so far has reallocated an index that does not read back (`ReadBack`).
  `Tally`
  counts the failed traces of the package that is judged.
* `UtilizationIsInRange` (`UtilizationInRange`), from `Utilized`, which is about
  the replay of `eval_mm_util` and uses nothing of `eval_mm_valid`:
  `total_size` is the sum of the sizes in use, and while the history `apart`
  holds, the payloads in use lie in the heap (`Inside`), do not overlap
  (`Separate`), and the high water mark is at most the heap, as payloads that
  do not overlap have no more bytes than the heap that holds them
  (`SeparateFit`, by induction over their set).
* `SamplesAreKept` (`TimesAreMeasured`) and `CompensationIsBounded`
  (`CompensationBound`), from `TimingInv` (the samples are sorted, `values` is
  their beginning) and `TickInv`: what a tick is taken to cost is what it costs
  and 1 to `THRESHOLD` more. For that no gap that is recorded may have a tick
  counted in it that it does not contain: such a gap is short, as the next tick
  is many turns away, and `RECORDTHRESH` keeps it out. `FsecsMeasures` states
  the two for `fsecs` alone (`TimingSpec`).

The assumptions are `RangeListAssumption` (sizes are positive, as the assertion
of `add_range` demands), `JudgeAssumption`, `TimingAssumption` and
`RunAssumption`: a run with its ticks takes less than a turn of the counter.

`MDriverProofs` proves every property of `mm_valid` and `mm_passes` for every
size of memory and chunk, any requests and number of traces and any former
contents of memory, from `MemoryAssumption` (the heap begins at a multiple of 8,
the chunk is a multiple of 16 and fits) and `DriverAssumption` (indices are
below 128, as in the model they are also the bytes stored, and the driver's
signed comparison of bytes is exact for these).
Words are naturals in the model, and the proofs rest on that as the runs do.

* `DriverInvariant`: `Spec => []DriverInv`. `DriverInv` says that there is a
  state `s` of what memory stands for, with `s.B` its blocks, `s.L` its ten
  lists and `s.t` its end, so that two things hold:
  * `Whole(heap, s)`: the blocks tile memory (`Laid`), header and footer of each
    are in its first and last word (`Tagged`), each list is linked through
    memory in both directions and has exactly the free blocks of its category,
    smallest first (`Lists`), and no two neighbours are free;
  * `Owns`: the blocks in use belong one to one to the indices in use
    (`Tenants`), the range list has their payloads (`Listing`), and what was
    stored is still there (`Contents`).

  None of the properties is inductive alone. `remove_free_block` writes where
  the two links of a block point, so tags stay right only if the links do
  (`ListsExact`); `coalesce` finds its neighbours through tags, so lists stay
  right only if the tags do; and a payload stays intact only if everything
  else is. The lemmas follow the code: what a function writes, word by word
  (`RemoveMemory`, `InsertMemory`, ...), then what the lists, the tags and the
  words of blocks in use are afterwards. `Spares` is the frame of them all:
  no word of a block in use changes.
* From it: `HeapCheckerSilent` (`CheckerSilent`), `TagsAgree` (`TagsMatch`),
  `FreeListsExact` (`ListsExact`), `PayloadsIntact` (`PayloadIntact`),
  `RangesFollow` (`RangesAreLive`), `NothingToReject` (`DriverAccepts`) and
  `FailsWhenFull` (`FailsOnlyWhenFull`). `NothingToReject` needs most: the
  walk of `mm_exit` frees blocks under its own feet, and after a merge with the
  block before it reads a header that is now inside a free block. That header
  is still as it was when the block was freed (`Stale`), so the walk goes on
  to the next block, and the invariant of the walk (`Exiting`, `Walked`) ends
  with one free block and no range.
* `AllocatorImplementsHeap` (`ImplementsHeap`): `Blocks`, read from the tags,
  is `s.B`, and each call does to it what the action of `Heap` does that
  `CallsOfHeap` names. `Reuse` takes any smallest block that fits and
  `find_fit` the first in its lists; that these agree is that the categories
  are ordered by size (`BestFit`). `BlocksInMemory` and `LiveBlocksInMemory`
  state for memory what `HeapProofs` proves of `Heap`: blocks are disjoint,
  tile memory and are coalesced, and a call changes a block in use only by
  freeing it, at the end of a trace or at a restart.
* `ReplaysNeverFail` (`NeverExits`) and `ReplaysAgree` (`SamePlaces`), from
  `PassesInvariant`. What a replay does depends on what memory stands for and
  not on what else is in it: `After(s, n)` and `Freed(s, b)` give the next
  state from the last and the request alone. So there is a history of the
  trace (`History`: the state, the indices in use and their blocks after each
  number of requests) which `eval_mm_valid` follows from the memory it finds,
  and which each replay repeats from the memory that it finds.

## 5. memtrace

`MemTrace.tla` models the interposed functions of the four libraries
(`Part1`, `Part2`, `Part3`, `Bonus`) over the item list of `utils/memlist.c`:
`list` is the sorted list of items, `n_malloc`, `alloc_times` and `free_size`
are the statistics, `live` the blocks that libc has handed out. `alloc`,
`dealloc`, `find` and `show_bloks` (the positions of what it prints) keep
their names; `Malloc`, `Calloc` and `Fini` are the same in all four,
`ReallocUntold` and `FreeUntold` are part 1's, which looks nothing up;
`Realloc` reads the item of the old block, `FreeFound` (parts 2 and 3) that of
the freed one, and `FreeInUse` (bonus) ignores what is in no item or counts 0.
libc is external: it returns any address not in use, or NULL, and aborts when
it is given what it did not return (glibc may fail to notice; then anything
can happen and nothing is claimed). A crash of the library itself (an item
that was not found, a division by zero in `fini`) leads to the same state.

The run `memtrace` checks `LeaksExact`, `BalanceExact`, `WrongFreesIgnored`
and `CorrectProgramsSurvive`, for 3 addresses, sizes 0 to 2 and 4 allocating
calls with any frees between them: enough for an address to be freed and used
again by malloc and by realloc while two other blocks live. The bound
`MaxDeficit` stops repeated calls of `free(NULL)`. After a NULL has been
recorded (a call failed, or `realloc(p, 0)`), the code loses the old block of
a failed realloc, and sizes of items for NULL overwrite each other, so that
`LeaksExact` and `BalanceExact` claim less from then on.
`CorrectProgramsSurvive` claims the same whether calls have failed or not.
calloc counts the size of one element only, in the statistics and in the item
alike. The program stops in the end, hence no deadlock check.

`MemTraceProofs` proves `LeakReportExact`, `CorrectProgramsRun` and
`WrongFreesAreIgnored` for every set of addresses and any number of calls,
from `MemTraceAssumption` (NULL is no block's address, addresses and sizes are
naturals). The invariant `MInv` is that the list is strictly sorted, which
`find` and `alloc` rely on (`Stops` says where their searches end), and
`Ledger`: no item counts more than there is in use at its address, each block
in use has an item, and the counts are exact as long as no NULL is recorded.
`LeaksExact` alone is not inductive, as it says nothing of items that count 0
and of the order.

`StatisticsBalance` proves `BalanceExact` from `MInv` and `Balance`: what was
allocated less what was freed is the sum, over the addresses in use, of the
sizes in the list. Taken by address, each call changes one term of that sum;
that the sum over the positions which `show_bloks` prints is the same follows
from `Ledger`, as each address in use has one item that is counted once. The
lemmas about sums are in `NatLemmas`.

## 6. The proxy

`Proxy.tla` models `proxy.c` and the parts of `csapp.c` that decide about
descriptors and the process's life. `main` is `Accept` (with `Malloc` of the
argument) and `Create`; a thread is `Start`, `ReadRequest`, `ReadShort`,
`Resolve` and `Connect` (`open_clientfd_ts` and `open_clientfd`, split where
the static result of `gethostbyname` lies between), `Exchange` with the
server, `LogLine` and `Flush` (`print_log`), `Reply`, `Finish`. `file` is the
table of open descriptors, which hands out the lowest free one. An error
wrapper sets `exited`, after which nothing moves.

The run `proxy` (3 connections, 4 descriptors, 2 hosts, 3 lines) checks
`DescriptorsOwned`, `ConnectsToOwnHost`, `LoggedBeforeAnswered` and
`RequestsAnswered`. Four descriptors let two threads connect at once and still
run out. Fairness: threads that can run do, `connect` returns, and a server
answers or closes; nothing is assumed of clients. Weak fairness of the
semaphores is enough because each is taken a bounded number of times. The
process ends and clients go, hence no deadlock check.

`ProxyProofs` proves, for any number of connections, hosts and descriptors
(`ProxyAssumption`):

* `ProxyTypeCorrect`: types, and that both semaphores exclude;
* `OwnDescriptors`, `AnswersLogged`, `OwnHost`: the three safety properties.

`DescriptorsOwned` speaks of threads that serve; to be inductive it needs what
is on its way to them. `Handed` follows a descriptor from the struct that
`Accept` fills through `argsp` to the new thread and says that no two structs
name one descriptor; `Owned` keeps the descriptors of threads apart from each
other and from those structs; `Said` says what `buf` and stdio hold at each
point between a request and its answer, and that `hostent` is the host of the
thread that connects, which rests on the semaphore (`Excluding`).
`RequestsAnswered` is model-checked only.

What the model shows and no property forbids: one server that cannot be
reached ends the proxy for everybody; the semaphore is held while connecting;
a client that never sends a full request leaves its descriptor open; later
requests go to the host of the first one; when the server has closed, the
client gets its own request back.

## 7. Rio and the echo server

`Rio.tla` models the buffered reads and writes of `csapp.c` at a set of
descriptors (`Ends`). `file` is what the kernel still has for an end;
`rio` is its `rio_t`, `call` the call that is under way with what it has
stored. `Read` begins `rio_readlineb` (`kind = "line"`) or `rio_readnb`
(`"block"`); `Fill` is one `read`, `Interrupted` an `EINTR`, `ReadFails` an
error, `EndOfFile` a `read` of 0, `Copy` the end of `rio_read`, `Done` the end
of the call, `Write` one `write` in `rio_writen`. `RioSpec` has any caller at
each end, and bytes that come from anywhere.

`Echo.tla` connects ends with each other: the threads of `echoservert.c`,
which run `echo` (`EchoRead`, `EchoLine`, `EchoEnds`, `EchoFails`), and the
clients of `echoclient.c` (`Prompt`, `Sent`, `Show`, `ClientCloses`,
`ClientFails`). `Connect` is the client's side alone: main takes the
connection in `Accept`, maybe after the client has sent a line, and its calls
may fail (`MainFails`) at any time, which ends the server. `upper_case` stops
at the first NUL, `Fgets` cuts input that is longer than the buffer, `Prompt`
sends what lies before the first NUL (`strlen`), and `Show` prints `buf`
whether or not
`Rio_readlineb` has put anything there. An error wrapper ends the process it
runs in (`ServerEnds`, `ClientEnds`), a write to a connection that is closed
is lost or kills the writer, and clients may be killed. What a socket holds
has no limit.

The run `echo` (`MCEcho`) has one client with every input of up to five
bytes, newlines and NULs among them, buffers of `MAXLINE` = 4 and an internal
buffer of 3: lines shorter and longer than both, an input that ends within a
line, lines cut off by a NUL, and every way in which read and write may cut the
stream. It checks:

| property | what it says |
|---|---|
| `StreamInOrder` | no byte is lost, repeated or reordered between a connection and the callers of `rio_readlineb`, the only ones here (blocks are covered by the theorem `BytesInOrder`) |
| `EchoesInOrder` | the echo is the client's stream in upper case, but for a NUL behind each line that was cut off |
| `EchoIsOwnLine` | what a client prints is the echo of the line it has just sent, or, when the server is gone, that line or a part of its echo |
| `EchoComes` | an echo comes, or the client learns that the server is gone, unless the end of its input or a NUL cut off its line |

`rio_readlineb` returns its loop index, which is one more than the number of
bytes when the line ends without a newline, at `maxlen` or at the end of the
stream; echo then sends the NUL behind the line, and the lines that the client
reads fall behind those it sends. `EchoesInOrder` and `EchoIsOwnLine` say
exactly how far this goes. A line with a NUL in it is sent without its newline,
and then, as at the end of an input without a newline, the server waits for the
rest and the client for the echo (`Unfinished`).

The server is one process, and clients meet in it only when it ends. With one
connection, `MainFails` stands for what other clients do to the process: it
may come in any state, also while the client waits or has a part of its echo.

Fairness: both processes run and the network delivers (`Works`, `Transfer`,
`WriteEnds`). Nothing is assumed of users, and no read has to fail.
Interruptions need no bound: `Transfer` has the same weak fairness whether a
read returns bytes or is interrupted, and a step that repeats an interruption
changes nothing. Both processes may end, hence no deadlock check.

The first part of `EchoProofs` proves `BytesInOrder`
(`RioSpec => []StreamInOrder`) for every buffer size and number of ends and any
sequence of calls; the invariant adds
that the bytes counted by `rio_cnt` lie in `rio_buf`, so that a copy is a
prefix of what is unread.

The rest proves of `Echo`'s specification with all its failures, for any
number of clients and buffers of any size (`EchoAssumption`: letters and their
upper case are bytes, neither newlines nor NULs, and a buffer holds more than a
NUL):

* `EchoBytesInOrder`: `StreamInOrder`. Each step is one of Rio's or leaves
  Rio's variables as they are. It needs `ReturnsFit` besides, that a call
  returns at most one more than it has stored: otherwise echo would send back
  what is in no buffer.
* `EchoIsInOrder` (`EchoesInOrder`) and `EchoIsTheLine` (`EchoIsOwnLine`), from
  `LineInv`, which says of each connection (`ConnInv`):
  * `Lineful`: a call of `rio_readlineb` that has returned has a whole line, or
    a full buffer, or what was left of a stream that has ended; in the latter
    two cases it returns one more than it has stored;
  * `Echoing`: what has come back and what the thread still holds (`Pending`)
    is, without NULs, the upper case of what the thread has taken, and NULs
    come behind letters;
  * `InStep`: as long as no NUL has come back, either the server is gone and
    the client has seen the end of the stream, or what the client has got is
    the upper case of the lines `s` that it sent before and a part of that of
    its last line. `s` is not in the state of either program; nothing counts
    lines. `Show` is the step that needs the rest: what rio_readlineb returned
    is a prefix of the echo of `line`, and the whole of it, as a line has its
    only newline at its end (`EchoWhole`), which is so of what is sent of it
    (`SentIs`).
  * `Gone`, `Phases`, `FromClient`: who has closed is gone, what the client's
    call does in each of its phases, and that only lines reach the server.

  `WithoutNuls` is a fold over a sequence; `SieveBack` says that it takes
  joined sequences one after the other.

`EchoComes` is model-checked only.

## 8. Not modelled

* The time in a log line of the proxy (static buffers of `localtime` and
  `asctime`, which threads overwrite): the code promises nothing of it beyond
  its text.
* What is printed or formatted, and the caller's name that `callinfo.c` looks
  up for the logs of memtrace.
* The clock rate estimated by `clock.c`, by which times are scaled, and the
  setters of `fcyc.c` whose parameters are constants here.
* The wrappers of `csapp.c` that only check a result, but for those that
  decide about the life of a process in `Proxy` and `Echo`.
* `function.c`, an unbuilt copy of parts of `mm.c`; `bufbomb`, solutions for a
  binary without source.

Liveness (`WaitEnds`, `EveryDeathIsReaped`, `RequestsAnswered`, `EchoComes`) is
checked by TLC only, as TLAPS has no rules for fairness and `ENABLED`. Every
other property of a passing run is also a theorem. No module declares a
recursive operator: loops over memory are functions of the number of rounds.
