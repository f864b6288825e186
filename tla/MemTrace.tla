------------------------------ MODULE MemTrace ------------------------------
(***************************************************************************)
(* linklab's libmemtrace.so, preloaded into a program: malloc, calloc,     *)
(* realloc and free are interposed, recorded in the item list of           *)
(* utils/memlist.c, counted and passed on to libc.  The libraries are      *)
(* part1 (statistics), part2 and part3 (also the blocks that were not      *)
(* freed; they differ in the caller they print) and bonus (frees that      *)
(* would be wrong are ignored).                                            *)
(*                                                                         *)
(* The program calls them with any pointer, from main on, when the         *)
(* library's constructor has run.                                          *)
(***************************************************************************)
EXTENDS Integers, Sequences, SequencesExt, FiniteSetsExt

CONSTANTS
  Libraries,  \* which libraries are tried
  Addrs,      \* the addresses of libc's blocks
  Sizes,      \* the sizes that the program asks for
  MaxAllocs,  \* the most calls that allocate (bound)
  MaxDeficit  \* how far below 0 the count of an item goes (bound)

NULL == 0
Ptrs == Addrs \cup {NULL}

ASSUME MemTraceAssumption ==
  /\ Libraries \subseteq {"part1", "part2", "part3", "bonus"}
  /\ Addrs \subseteq Nat \ {NULL} /\ Sizes \subseteq Nat
  /\ MaxAllocs \in Nat /\ MaxDeficit \in Nat \ {0}

VARIABLES
  library,      \* the library that is preloaded
  state,        \* the program is "running", has "stopped" or "crashed"
  list,         \* the items, by address
  n_malloc,     \* the statistics
  alloc_times,
  free_size,
  live          \* libc's blocks in use

mvars == <<library, state, list, n_malloc, alloc_times, free_size, live>>

-----------------------------------------------------------------------------
(* utils/memlist.c.                                                        *)

new_list  == <<>>
free_list == <<>>

Item(p, n, c) == [ptr |-> p, size |-> n, cnt |-> c]

\* Mutant of alloc: a new item goes to the end.
alloc_at_end(l, p, n) ==
  LET i == SelectInSeq(l, LAMBDA x : x.ptr = p)
  IN IF i = 0 THEN Append(l, Item(p, n, 1))
              ELSE [l EXCEPT ![i] = Item(p, n, @.cnt + 1)]

\* Mutant of alloc: an address that is used again keeps its count.
alloc_keeping_count(l, p, n) ==
  LET i == SelectInSeq(l, LAMBDA x : x.ptr >= p)
  IN IF i = 0 THEN Append(l, Item(p, n, 1))
     ELSE IF l[i].ptr = p THEN [l EXCEPT ![i].size = n]
     ELSE InsertAt(l, i, Item(p, n, 1))

\* The list stays sorted; a block that comes back to an address is counted in
\* the item that was there.
alloc(l, p, n) ==
  LET i == SelectInSeq(l, LAMBDA x : x.ptr >= p)
  IN IF i = 0 THEN Append(l, Item(p, n, 1))
     ELSE IF l[i].ptr = p THEN [l EXCEPT ![i] = Item(p, n, @.cnt + 1)]
     ELSE InsertAt(l, i, Item(p, n, 1))

\* Items are never removed.
dealloc(l, p) ==
  LET i == SelectInSeq(l, LAMBDA x : x.ptr = p)
  IN IF i = 0 THEN l ELSE [l EXCEPT ![i].cnt = @ - 1]

\* The item of p, as a sequence of at most one: the search ends where p would be.
find(l, p) ==
  LET i == SelectInSeq(l, LAMBDA x : x.ptr >= p)
  IN IF i # 0 /\ l[i].ptr = p THEN <<l[i]>> ELSE <<>>

-----------------------------------------------------------------------------
(* libc.                                                                   *)

Crash == state' = "crashed" /\ UNCHANGED <<list, n_malloc, alloc_times, free_size>>

\* malloc, calloc and realloc(NULL, n) return a block that is not in use, or fail.
LibcAlloc(q) == /\ q \in (Addrs \ live) \cup {NULL}
                /\ live' = live \cup ({q} \ {NULL})

\* The block moves or stays; it stays when realloc fails; a size of 0 frees it.
LibcRealloc(p, n, q) ==
  \/ p = NULL /\ LibcAlloc(q)
  \/ p # NULL /\ n = 0 /\ q = NULL /\ live' = live \ {p}
  \/ p # NULL /\ n # 0 /\ q = NULL /\ UNCHANGED live
  \/ p # NULL /\ n # 0 /\ q \in {p} \cup (Addrs \ live) /\ live' = (live \ {p}) \cup {q}

\* libc aborts when it is given what it did not return.
Aborts(p) == p \notin live \cup {NULL}

-----------------------------------------------------------------------------
(* memtrace.c.                                                             *)

\* The constructor has run.
Init == /\ library \in Libraries
        /\ state = "running"
        /\ list = new_list
        /\ n_malloc = 0 /\ alloc_times = 0 /\ free_size = 0
        /\ live = {}

Running == state = "running" /\ UNCHANGED library
MayAlloc == Running /\ alloc_times < MaxAllocs

Counted(n) == /\ n_malloc' = n_malloc + n
              /\ alloc_times' = alloc_times + 1
              /\ UNCHANGED state

\* calloc counts and records the size of one element, so that it does here
\* what malloc does, whatever nmemb is.
Malloc(n) == /\ MayAlloc
             /\ \E q \in Ptrs : LibcAlloc(q) /\ list' = alloc(list, q, n)
             /\ Counted(n)
             /\ UNCHANGED free_size

Calloc(n) == Malloc(n)

\* part1 has no statistics of what is freed.
ReallocUntold(p, n) ==
  /\ MayAlloc
  /\ IF Aborts(p) THEN Crash /\ UNCHANGED live
     ELSE /\ \E q \in Ptrs : /\ LibcRealloc(p, n, q)
                            /\ list' = alloc(dealloc(list, p), q, n)
          /\ Counted(n)
          /\ UNCHANGED free_size

\* Mutant of Realloc: the old block is not taken out of the statistics.
ReallocUncounted(p, n) == ReallocUntold(p, n)

\* The size of the old block is read from its item, found or not.
Realloc(p, n) ==
  /\ MayAlloc
  /\ IF Aborts(p) THEN Crash /\ UNCHANGED live
     ELSE \E q \in Ptrs :
            /\ LibcRealloc(p, n, q)
            /\ IF find(list, p) = <<>> THEN Crash
               ELSE /\ free_size' = free_size + find(list, p)[1].size
                    /\ list' = alloc(dealloc(list, p), q, n)
                    /\ Counted(n)

\* free(NULL) may be repeated for ever; an item's count goes down to -MaxDeficit.
MayFree(p) == Running /\ \A i \in DOMAIN list : list[i].ptr = p => list[i].cnt > -MaxDeficit

Released(p) == /\ live' = live \ {p}
               /\ state' = IF Aborts(p) THEN "crashed" ELSE "running"
               /\ UNCHANGED <<n_malloc, alloc_times>>

FreeUntold(p) == /\ MayFree(p)
                 /\ list' = dealloc(list, p)
                 /\ Released(p)
                 /\ UNCHANGED free_size

FreeFound(p) ==
  /\ MayFree(p)
  /\ IF find(list, p) = <<>> THEN Crash /\ UNCHANGED live
     ELSE /\ list' = dealloc(list, p)
          /\ free_size' = free_size + find(list, p)[1].size
          /\ Released(p)

\* Mutant of FreeInUse: a block that was freed is not told from one in use.
FreeTwice(p) ==
  /\ MayFree(p)
  /\ find(list, p) # <<>>
  /\ list' = dealloc(list, p)
  /\ free_size' = free_size + find(list, p)[1].size
  /\ Released(p)

\* What is in no item is an ILLEGAL_FREE, what has been freed a DOUBLE_FREE;
\* neither changes anything.
FreeInUse(p) ==
  /\ MayFree(p)
  /\ IF find(list, p) # <<>> /\ find(list, p)[1].cnt > 0
       THEN /\ list' = dealloc(list, p)
            /\ free_size' = free_size + find(list, p)[1].size
            /\ Released(p)
       ELSE UNCHANGED <<state, list, n_malloc, alloc_times, free_size, live>>

\* The positions of what show_bloks prints as not deallocated.
show_bloks == {i \in DOMAIN list : list[i].cnt > 0}

\* The average divides by the number of allocations.
Fini == /\ Running
        /\ IF alloc_times = 0 THEN Crash
           ELSE /\ state' = "stopped"
                /\ list' = free_list
                /\ UNCHANGED <<n_malloc, alloc_times, free_size>>
        /\ UNCHANGED live

Allocates == \E n \in Sizes : Malloc(n) \/ Calloc(n)

Part1 == /\ library = "part1"
         /\ \/ Allocates
            \/ \E p \in Ptrs : FreeUntold(p) \/ \E n \in Sizes : ReallocUntold(p, n)
            \/ Fini

Part2 == /\ library = "part2"
         /\ \/ Allocates
            \/ \E p \in Ptrs : FreeFound(p) \/ \E n \in Sizes : Realloc(p, n)
            \/ Fini

Part3 == /\ library = "part3"
         /\ \/ Allocates
            \/ \E p \in Ptrs : FreeFound(p) \/ \E n \in Sizes : Realloc(p, n)
            \/ Fini

Bonus == /\ library = "bonus"
         /\ \/ Allocates
            \/ \E p \in Ptrs : FreeInUse(p) \/ \E n \in Sizes : Realloc(p, n)
            \/ Fini

Next == Part1 \/ Part2 \/ Part3 \/ Bonus

Spec == Init /\ [][Next]_mvars

-----------------------------------------------------------------------------
\* Once libc has returned NULL, or realloc has freed a block, the list holds
\* an item for NULL, and goes on holding it.
NullRecorded == \E i \in DOMAIN list : list[i].ptr = NULL

\* free and realloc of what libc gave out and is still in use never end the
\* program, whichever calls have failed and however addresses come back.
CorrectProgramsSurvive ==
  [][\A p \in live :
       \/ FreeUntold(p) \/ FreeFound(p)
       \/ \E n \in Sizes : ReallocUntold(p, n) \/ Realloc(p, n)
       => state' # "crashed"]_mvars

\* "Non-deallocated memory blocks" (memlog.h): nothing is listed that has been
\* freed; and if no NULL was recorded every block in use is listed, once, and
\* found by free, though its address may have been used and freed before.
LeaksExact ==
  state = "running" =>
    LET listed == {list[i].ptr : i \in show_bloks}
    IN /\ listed \subseteq live \cup {NULL}
       /\ ~NullRecorded => /\ listed = live
                           /\ \A p \in live : find(list, p) # <<>>
                           /\ \A i \in show_bloks : list[i].cnt = 1

\* What the statistics say was allocated and not freed is what the listed
\* blocks add up to, each with the size of its latest call.
BalanceExact ==
  state = "running" /\ library # "part1" /\ ~NullRecorded =>
    n_malloc - free_size
      = MapThenSumSet(LAMBDA i : list[i].size, show_bloks)

\* "*** DOUBLE_FREE *** (ignoring)", "*** ILLEGAL_FREE *** (ignoring)"
\* (memlog.h): with the bonus library no free makes libc abort, and a wrong
\* one changes nothing.
WrongFreesIgnored ==
  [][\A p \in Ptrs :
       library = "bonus" /\ FreeInUse(p) =>
         /\ state' = "running"
         /\ Aborts(p) => UNCHANGED mvars]_mvars
=============================================================================
