----------------------------- MODULE TshProofs -----------------------------
(***************************************************************************)
(* Theorems about the shell, for every number of processes, size of the    *)
(* job table and kind of session.                                          *)
(***************************************************************************)
EXTENDS Tsh, NatLemmas

-----------------------------------------------------------------------------
(* What the helper routines on the job list return.                        *)

Table == [Slots -> Job]

\* A table has a first slot, and its slots are natural numbers.
LEMMA SlotsFacts == 0 \in Slots /\ Slots \subseteq Nat
BY SizeAssumption DEF Slots

\* A scan that finds something returns a slot that matches.
LEMMA FirstMatches ==
  ASSUME NEW S \in SUBSET Slots, S # {}
  PROVE  First(S) \in S /\ First(S) \in Slots
<1>1. \E i \in S : \A j \in S : i <= j
  BY LeastNatural, SlotsFacts
<1> QED
  BY <1>1 DEF First

\* clearjob leaves an entry of the table's type.
LEMMA NoJobType == NoJob \in Job
BY DEF NoJob, Job, JobStates

\* fgpid returns the pid in some entry, or 0.
LEMMA FgpidType ==
  ASSUME NEW t \in Table
  PROVE  fgpid(t) \in Pids \cup {0}
<1>1. WithState(t, "FG") \subseteq Slots
  BY DEF WithState
<1>2. \A i \in Slots : t[i].pid \in Pids \cup {0}
  BY DEF Table, Job
<1> QED
  BY <1>1, <1>2, FirstMatches DEF fgpid

\* pid2jid returns the job ID in some entry, or 0.
LEMMA Pid2jidType ==
  ASSUME NEW t \in Table, NEW p
  PROVE  pid2jid(t, p) \in Nat
<1>1. WithPid(t, p) \subseteq Slots
  BY DEF WithPid
<1>2. \A i \in Slots : t[i].jid \in Nat
  BY DEF Table, Job
<1> QED
  BY <1>1, <1>2, FirstMatches DEF pid2jid

\* maxjid returns a natural number: some entry has the greatest job ID.
LEMMA MaxjidType ==
  ASSUME NEW t \in Table
  PROVE  maxjid(t) \in Nat
<1> DEFINE f == [i \in 0 .. MaxJobs - 1 |-> t[i].jid]
<1>1. \A i \in Slots : t[i].jid \in Nat
  BY DEF Table, Job
<1>2. MaxJobs - 1 \in Nat /\ f \in [0 .. MaxJobs - 1 -> Nat]
  BY <1>1, SizeAssumption DEF Slots
<1>3. PICK i \in 0 .. MaxJobs - 1 : \A j \in 0 .. MaxJobs - 1 : f[j] <= f[i]
  BY <1>2, GreatestValue
<1>4. \A j \in Slots : t[j].jid <= t[i].jid
  BY <1>3 DEF Slots
<1>5. i \in Slots
  BY DEF Slots
<1>6. \E m \in {t[j].jid : j \in Slots} : \A j \in Slots : t[j].jid <= m
  BY <1>4, <1>5
<1>7. maxjid(t) \in {t[j].jid : j \in Slots}
  BY <1>6 DEF maxjid
<1> QED
  BY <1>7, <1>1

\* Storing a state, wherever the index points, yields a table.
LEMMA SetStateType ==
  ASSUME NEW t \in Table, NEW i, NEW s \in JobStates
  PROVE  SetState(t, i, s) \in Table
BY DEF SetState, Table, Job

\* So do storing a pid and storing a job ID in a slot.
LEMMA SetFieldType ==
  ASSUME NEW t \in Table, NEW i \in Slots, NEW p \in Pids \cup {0}, NEW j \in Nat
  PROVE  /\ [t EXCEPT ![i].pid = p] \in Table
         /\ [t EXCEPT ![i].jid = j] \in Table
BY DEF Table, Job

\* Reading a pid, wherever the index points, yields a pid or 0.
LEMMA PidAtType ==
  ASSUME NEW t \in Table, NEW i
  PROVE  PidAt(t, i) \in Pids \cup {0}
BY DEF PidAt, Table, Job

\* The table initjobs leaves is one.
LEMMA EmptyTableType == EmptyTable \in Table
BY NoJobType DEF EmptyTable, Table

-----------------------------------------------------------------------------
(* Every variable keeps its type.                                          *)

LEMMA TypeStep == TypeOK /\ [Next]_vars => TypeOK'
<1> SUFFICES ASSUME TypeOK, [Next]_vars PROVE TypeOK'
  OBVIOUS
<1> USE DEF Table
<1>1. CASE \E s \in Signals : Deliver(s)
  BY <1>1 DEF TypeOK, Deliver, Deliverable, vars, table, mainVars, hLocals,
     frames, children, Signals, HandlerPcs
<1>2. CASE ChldStart
  BY <1>2, FgpidType DEF TypeOK, ChldStart, In, Goto, vars, table, mainVars,
     hLocals, frames, children, Signals, HandlerPcs
<1>3. CASE ChldWait
  <2>1. reaped' \in Pids \cup {0}
    BY <1>3 DEF ChldWait
  <2>2. proc' \in [Pids -> ProcStates]
    BY <1>3 DEF TypeOK, ChldWait, ProcStates
  <2>3. hpc' \in [Signals -> HandlerPcs] /\ UNCHANGED <<cpu, hret>>
    BY <1>3 DEF TypeOK, ChldWait, Goto, Signals, HandlerPcs
  <2> QED
    BY <1>3, <2>1, <2>2, <2>3 DEF TypeOK, ChldWait, vars, table, mainVars
<1>4. CASE ChldStopped
  BY <1>4, SetStateType DEF TypeOK, ChldStopped, In, Goto, JobStates, vars,
     table, mainVars, hLocals, frames, children, Signals, HandlerPcs
<1>5. CASE ChldTerminated
  <2> DEFINE S == WithPid(jobs, hfg["CHLD"])
  <2>1. S \subseteq Slots
    BY DEF WithPid
  <2>2. jobs' \in Table /\ hslot' \in Slots
    <3>1. CASE hfg["CHLD"] # 0 /\ S # {}
      <4>1. First(S) \in Slots
        BY <2>1, <3>1, FirstMatches
      <4>2. jobs' = [jobs EXCEPT ![First(S)].pid = 0] /\ hslot' = First(S)
        BY <1>5, <3>1 DEF ChldTerminated
      <4>3. jobs \in Table
        BY DEF TypeOK
      <4> QED
        BY <4>1, <4>2, <4>3, SetFieldType
    <3>2. CASE ~(hfg["CHLD"] # 0 /\ S # {})
      BY <1>5, <3>2 DEF ChldTerminated, TypeOK
    <3> QED
      BY <3>1, <3>2
  <2>3. hpc' \in [Signals -> HandlerPcs] /\ UNCHANGED <<cpu, hret>>
    BY <1>5 DEF TypeOK, ChldTerminated, Goto, Signals, HandlerPcs
  <2> QED
    BY <1>5, <2>2, <2>3 DEF TypeOK, ChldTerminated, mainVars, children
<1>6. CASE ChldClear
  <2>1. jobs' \in Table
    BY <1>6, NoJobType DEF TypeOK, ChldClear
  <2>2. nextjid' \in Nat \ {0}
    <3>1. maxjid(jobs') \in Nat
      BY <2>1, MaxjidType
    <3> QED
      BY <1>6, <3>1 DEF ChldClear
  <2>3. hslot' \in Slots
    BY <1>6, SlotsFacts DEF ChldClear
  <2>4. hpc' \in [Signals -> HandlerPcs] /\ UNCHANGED <<cpu, hret>>
    BY <1>6 DEF TypeOK, ChldClear, Goto, Signals, HandlerPcs
  <2> QED
    BY <1>6, <2>1, <2>2, <2>3, <2>4 DEF TypeOK, ChldClear, mainVars, children
<1>7. CASE \E s \in TtySignals : TtyStart(s)
  BY <1>7, FgpidType DEF TypeOK, TtyStart, In, Goto, TtySignals, vars,
     table, mainVars, hLocals, frames, children, Signals, HandlerPcs
<1>8. CASE \E s \in TtySignals : TtyKill(s)
  <2>1. PICK s \in TtySignals : TtyKill(s)
    BY <1>8
  <2>2. hpc' \in [Signals -> HandlerPcs] /\ UNCHANGED <<cpu, hret>>
    BY <2>1 DEF TypeOK, TtyKill, Goto, Signals, HandlerPcs, TtySignals
  <2>3. pending' \subseteq Signals /\ sig' \in [Pids -> SUBSET TtySignals]
    <3>1. CASE Killable(hfg[s])
      <4>1. SendTty(hfg[s], s)
        BY <2>1, <3>1 DEF TtyKill
      <4>2. pending' \subseteq Signals
        BY <4>1 DEF TypeOK, SendTty, Signals, TtySignals
      <4>3. sig' \in [Pids -> SUBSET TtySignals]
        BY <4>1 DEF TypeOK, SendTty
      <4> QED
        BY <4>2, <4>3
    <3>2. CASE ~Killable(hfg[s])
      BY <2>1, <3>2 DEF TypeOK, TtyKill
    <3> QED
      BY <3>1, <3>2
  <2> QED
    BY <2>1, <2>2, <2>3 DEF TypeOK, TtyKill, table, mainVars, hLocals
<1>9. CASE TstpJid
  BY <1>9, Pid2jidType DEF TypeOK, TstpJid, In, Goto, vars, table, mainVars,
     hLocals, frames, children, Signals, HandlerPcs
<1>10. CASE TstpStore
  BY <1>10, SetStateType DEF TypeOK, TstpStore, In, Goto, JobStates, vars,
     table, mainVars, hLocals, frames, children, Signals, HandlerPcs
<1>11. CASE \E s \in Signals : Return(s)
  <2>1. PICK s \in Signals : Return(s)
    BY <1>11
  <2>2. /\ cpu' \in Signals \cup {"main", "none"}
        /\ hpc' \in [Signals -> HandlerPcs]
        /\ hret' \in [Signals -> Signals \cup {"main", "none"}]
        /\ pending' \subseteq Signals
    <3>1. CASE UNCHANGED pending /\ cpu' = hret[s]
               /\ hpc' = [hpc EXCEPT ![s] = "idle"]
               /\ hret' = [hret EXCEPT ![s] = "none"]
      BY <3>1 DEF TypeOK, HandlerPcs
    <3>2. ASSUME NEW t \in pending,
                 cpu' = t /\ pending' = pending \ {t},
                 hpc' = [hpc EXCEPT ![s] = "idle", ![t] = "start"],
                 hret' = [hret EXCEPT ![s] = "none", ![t] = hret[s]]
          PROVE  /\ cpu' \in Signals \cup {"main", "none"}
                 /\ hpc' \in [Signals -> HandlerPcs]
                 /\ hret' \in [Signals -> Signals \cup {"main", "none"}]
                 /\ pending' \subseteq Signals
      <4>1. t \in Signals
        BY DEF TypeOK
      <4>2. hpc' \in [Signals -> HandlerPcs]
        BY <3>2, <4>1 DEF TypeOK, HandlerPcs
      <4>3. hret' \in [Signals -> Signals \cup {"main", "none"}]
        BY <3>2, <4>1 DEF TypeOK
      <4> QED
        BY <3>2, <4>1, <4>2, <4>3 DEF TypeOK
    <3> QED
      BY <2>1, <3>1, <3>2 DEF Return
  <2> QED
    BY <2>1, <2>2 DEF TypeOK, Return, table, mainVars, children
<1>12. CASE AddPid
  <2> DEFINE free == WithPid(jobs, 0)
  <2>1. free \subseteq Slots
    BY DEF WithPid
  <2>2. jobs' \in Table /\ mslot' \in Slots /\ mpc' \in MainPcs
    <3>1. CASE mpid # -1 /\ free # {}
      <4>1. First(free) \in Slots
        BY <2>1, <3>1, FirstMatches
      <4>2. /\ jobs' = [jobs EXCEPT ![First(free)].pid = mpid]
            /\ mslot' = First(free) /\ mpc' = "addState"
        BY <1>12, <3>1 DEF AddPid
      <4>3. jobs \in Table /\ mpid \in Pids \cup {0}
        BY <3>1 DEF TypeOK
      <4> QED
        BY <4>1, <4>2, <4>3, SetFieldType DEF MainPcs
    <3>2. CASE ~(mpid # -1 /\ free # {})
      BY <1>12, <3>2 DEF AddPid, TypeOK, MainPcs
    <3> QED
      BY <3>1, <3>2
  <2> QED
    BY <1>12, <2>2 DEF TypeOK, AddPid, hLocals, frames, children
<1>13. CASE AddState
  BY <1>13 DEF TypeOK, AddState, InMain, Job, JobStates, vars, table,
     mainVars, hLocals, frames, children, MainPcs
<1>14. CASE AddJid
  <2>1. jobs' \in Table
    BY <1>14 DEF TypeOK, AddJid, Job
  <2>2. nextjid' \in Nat \ {0} /\ mpc' \in MainPcs
    BY <1>14 DEF TypeOK, AddJid, MainPcs
  <2> QED
    BY <1>14, <2>1, <2>2 DEF TypeOK, AddJid, hLocals, frames, children
<1>15. CASE Unblock
  <2>1. /\ mpc' \in MainPcs /\ mode' \in {"FG", "BG"}
        /\ mpid' \in Pids \cup {0, -1} /\ mjid' \in Nat /\ mslot' \in Slots
    BY <1>15, SlotsFacts DEF TypeOK, Unblock, ToPrompt, MainPcs
  <2>2. /\ cpu' \in Signals \cup {"main", "none"}
        /\ hpc' \in [Signals -> HandlerPcs]
        /\ hret' \in [Signals -> Signals \cup {"main", "none"}]
        /\ pending' \subseteq Signals
    <3>1. CASE "CHLD" \in pending
      <4>1. /\ cpu' = "CHLD" /\ pending' = pending \ {"CHLD"}
            /\ hpc' = [hpc EXCEPT !["CHLD"] = "start"]
            /\ hret' = [hret EXCEPT !["CHLD"] = "main"]
        BY <1>15, <3>1 DEF Unblock
      <4>2. "CHLD" \in Signals /\ "start" \in HandlerPcs
        BY DEF Signals, HandlerPcs
      <4>3. hpc' \in [Signals -> HandlerPcs]
        BY <4>1, <4>2 DEF TypeOK
      <4>4. hret' \in [Signals -> Signals \cup {"main", "none"}]
        BY <4>1, <4>2 DEF TypeOK
      <4> QED
        BY <4>1, <4>2, <4>3, <4>4 DEF TypeOK
    <3>2. CASE "CHLD" \notin pending
      BY <1>15, <3>2 DEF TypeOK, Unblock, frames
    <3> QED
      BY <3>1, <3>2
  <2> QED
    BY <1>15, <2>1, <2>2 DEF TypeOK, Unblock, table, hLocals, children
<1>16. CASE WaitReturns
  BY <1>16, SlotsFacts DEF TypeOK, WaitReturns, ToPrompt, InMain, vars,
     table, mainVars, hLocals, frames, children, Signals, HandlerPcs,
     MainPcs
<1>17. CASE LoadPid
  BY <1>17, PidAtType DEF TypeOK, LoadPid, InMain, vars, table, mainVars,
     hLocals, frames, children, MainPcs
<1>18. CASE Continue
  <2>1. /\ mpc' \in MainPcs /\ mode' \in {"FG", "BG"}
        /\ mpid' \in Pids \cup {0, -1} /\ mjid' \in Nat /\ mslot' \in Slots
    BY <1>18, SlotsFacts DEF TypeOK, Continue, ToPrompt, MainPcs
  <2>2. /\ pending' \subseteq Signals /\ proc' \in [Pids -> ProcStates]
        /\ sig' \in [Pids -> SUBSET TtySignals] /\ UNCHANGED copy
    <3>1. CASE Killable(mpid)
      <4>1. SendCont(mpid)
        BY <1>18, <3>1 DEF Continue
      <4>2. pending' \subseteq Signals /\ UNCHANGED copy
        BY <4>1 DEF TypeOK, SendCont, Signals
      <4>3. proc' \in [Pids -> ProcStates]
        BY <4>1 DEF TypeOK, SendCont, ProcStates
      <4>4. sig' \in [Pids -> SUBSET TtySignals]
        BY <4>1 DEF TypeOK, SendCont
      <4> QED
        BY <4>2, <4>3, <4>4
    <3>2. CASE ~Killable(mpid)
      BY <1>18, <3>2 DEF TypeOK, Continue, children
    <3> QED
      BY <3>1, <3>2
  <2> QED
    BY <1>18, <2>1, <2>2 DEF TypeOK, Continue, table, hLocals, frames
<1>19. CASE StoreState
  BY <1>19, SlotsFacts, SetStateType DEF TypeOK, StoreState, ToPrompt,
     InMain, JobStates, vars, table, mainVars, hLocals, frames, children,
     MainPcs
<1>20. CASE \E p \in Pids, m \in Launch : Fork(p, m)
  BY <1>20, UserAssumption DEF TypeOK, Fork, InMain, ProcStates, vars,
     table, mainVars, hLocals, frames, children, MainPcs
<1>21. CASE \E m \in Launch : ForkFails(m)
  BY <1>21, UserAssumption DEF TypeOK, ForkFails, InMain, vars, table,
     mainVars, hLocals, frames, children, MainPcs
<1>22. CASE \E b \in Builtins, i \in Slots : LookupJid(b, jobs[i].jid)
  BY <1>22, UserAssumption DEF TypeOK, LookupJid, InMain, Job, vars, table,
     mainVars, hLocals, frames, children, MainPcs
<1>23. CASE \E b \in Builtins, p \in Pids : LookupPid(b, p)
  BY <1>23, UserAssumption, Pid2jidType DEF TypeOK, LookupPid, InMain, vars,
     table, mainVars, hLocals, frames, children, MainPcs
<1>24. CASE Quit
  BY <1>24 DEF TypeOK, Quit, InMain, vars, table, mainVars, hLocals, frames,
     children, Signals, HandlerPcs, MainPcs
<1>25. CASE \E p \in Pids : Setpgid(p) \/ Execve(p)
  <2>1. PICK p \in Pids : Setpgid(p) \/ Execve(p)
    BY <1>25
  <2>2. proc' \in [Pids -> ProcStates]
    BY <2>1 DEF TypeOK, Setpgid, Execve, Become, ProcStates
  <2>3. copy' \in [Pids -> Table]
    BY <2>1, EmptyTableType DEF TypeOK, Setpgid, Execve
  <2>4. UNCHANGED <<table, mainVars, hLocals, frames, pending, keys, sig>>
    BY <2>1 DEF Setpgid, Execve
  <2> QED
    BY <2>2, <2>3, <2>4 DEF TypeOK, table, mainVars, hLocals, frames
<1>26. CASE \E p \in Pids : Exit(p) \/ Killed(p) \/ Stopped(p)
  <2>1. PICK p \in Pids : Exit(p) \/ Killed(p) \/ Stopped(p)
    BY <1>26
  <2>2. pending' \subseteq Signals
    BY <2>1 DEF TypeOK, Exit, Killed, Stopped, Announce, Signals
  <2>3. proc' \in [Pids -> ProcStates]
    BY <2>1 DEF TypeOK, Exit, Killed, Stopped, Become, ProcStates
  <2>6. sig' \in [Pids -> SUBSET TtySignals]
    BY <2>1 DEF TypeOK, Exit, Killed, Stopped
  <2>4. copy' \in [Pids -> Table]
    BY <2>1, EmptyTableType DEF TypeOK, Exit, Killed, Stopped
  <2>5. UNCHANGED <<table, mainVars, hLocals, frames, keys>>
    BY <2>1 DEF Exit, Killed, Stopped
  <2> QED
    BY <2>2, <2>3, <2>4, <2>5, <2>6
    DEF TypeOK, table, mainVars, hLocals, frames
<1>27. CASE \E p \in Pids, s \in TtySignals : Inherited(p, s)
  <2>1. PICK p \in Pids, s \in TtySignals : Inherited(p, s)
    BY <1>27
  <2> DEFINE g == fgpid(copy[p])
             t == IF g # 0 \/ proc[p] = "young" THEN g ELSE p
  <2>2. pending' \subseteq Signals
    BY <2>1 DEF TypeOK, Inherited, Signals, TtySignals
  <2>3. sig' \in [Pids -> SUBSET TtySignals]
    <3>1. CASE Killable(t)
      <4>1. sig' = [q \in Pids |->
                      IF q \in InGroup(t) /\ Accepts(q, s) THEN sig[q] \cup {s}
                      ELSE IF q = p THEN sig[q] \ {s} ELSE sig[q]]
        BY <2>1, <3>1 DEF Inherited
      <4>2. \A q \in Pids : sig[q] \cup {s} \in SUBSET TtySignals
                            /\ sig[q] \ {s} \in SUBSET TtySignals
                            /\ sig[q] \in SUBSET TtySignals
        BY DEF TypeOK
      <4> QED
        BY <4>1, <4>2
    <3>2. CASE ~Killable(t)
      <4>1. sig' = [sig EXCEPT ![p] = @ \ {s}]
        BY <2>1, <3>2 DEF Inherited
      <4> QED
        BY <4>1 DEF TypeOK
    <3> QED
      BY <3>1, <3>2
  <2>4. copy' \in [Pids -> Table]
    <3>1. \A i : SetState(copy[p], i, "ST") \in Table
      BY SetStateType DEF TypeOK, JobStates
    <3> QED
      BY <2>1, <3>1 DEF TypeOK, Inherited
  <2> QED
    BY <2>1, <2>2, <2>3, <2>4
    DEF TypeOK, Inherited, table, mainVars, hLocals, frames
<1>28. CASE \E p \in Pids, s \in TtySignals : Raise(p, s)
  BY <1>28 DEF TypeOK, Raise, vars, table, mainVars, hLocals, frames,
     children
<1>29. CASE \E s \in TtySignals : Type(s)
  BY <1>29, SizeAssumption DEF TypeOK, Type, TtySignals, vars, table,
     mainVars, hLocals, frames, children, Signals, HandlerPcs
<1>30. CASE UNCHANGED vars
  BY <1>30 DEF TypeOK, vars, table, mainVars, hLocals, frames, children
<1> QED
  BY <1>1, <1>2, <1>3, <1>4, <1>5, <1>6, <1>7, <1>8, <1>9, <1>10, <1>11,
     <1>12, <1>13, <1>14, <1>15, <1>16, <1>17, <1>18, <1>19, <1>20, <1>21,
     <1>22, <1>23, <1>24, <1>25, <1>26, <1>27, <1>28, <1>29, <1>30 DEF Next,
     Handlers, Executing, Command, Process

\* Every variable has its type in every state of every session.
THEOREM TypeCorrect == Spec => []TypeOK
<1>1. ASSUME Init PROVE TypeOK
  <2>1. jobs \in Table /\ copy \in [Pids -> Table]
    BY <1>1, EmptyTableType DEF Init
  <2>2. /\ hpc \in [Signals -> HandlerPcs]
        /\ hret \in [Signals -> Signals \cup {"main", "none"}]
        /\ hfg \in [Signals -> Pids \cup {0}]
        /\ pending \subseteq Signals
    BY <1>1 DEF Init, HandlerPcs
  <2>3. proc \in [Pids -> ProcStates] /\ sig \in [Pids -> SUBSET TtySignals]
    BY <1>1 DEF Init, ProcStates
  <2>4. /\ nextjid \in Nat \ {0} /\ mjid \in Nat /\ hjid \in Nat
        /\ mslot \in Slots /\ hslot \in Slots /\ keys \in 0 .. MaxKeys
    BY <1>1, SlotsFacts, SizeAssumption DEF Init
  <2>5. /\ mpc \in MainPcs /\ mode \in {"FG", "BG"} /\ blocked \in BOOLEAN
        /\ mpid \in Pids \cup {0, -1} /\ reaped \in Pids \cup {0}
        /\ cpu \in Signals \cup {"main", "none"}
    BY <1>1 DEF Init, MainPcs
  <2> QED
    BY <2>1, <2>2, <2>3, <2>4, <2>5 DEF TypeOK, Table
<1> QED
  BY <1>1, TypeStep, PTL DEF Spec

-----------------------------------------------------------------------------
(* How the handlers nest: the frames form a stack with main at the bottom. *)

Active(s) == hpc[s] # "idle"

Nested ==
  /\ \A s \in Signals : Active(s) <=> hret[s] # "none"
  /\ \A s \in Signals : Active(s) => hret[s] # cpu /\ hret[s] # s
  /\ \A s \in Signals : hret[s] \in Signals => Active(hret[s])
  /\ \A s, t \in Signals : Active(s) /\ Active(t) /\ hret[s] = hret[t] => s = t
  /\ \A s, t \in Signals : ~(hret[s] = t /\ hret[t] = s)
  /\ cpu \in Signals => Active(cpu)
  /\ cpu \in {"main", "none"} => \A s \in Signals : ~Active(s)

\* A handler goes on with its own frame.
Proceed == \E s \in Signals, l \in HandlerPcs \ {"idle"} :
             cpu = s /\ Goto(s, l)

\* A step delivers a signal, is one of a handler, returns from one, ends
\* the protected part of eval, ends the shell, or leaves the frames alone.
LEMMA FrameSteps ==
  ASSUME [Next]_vars
  PROVE  \/ \E s \in Signals : Deliver(s) \/ Return(s)
         \/ Proceed \/ Unblock \/ Quit \/ UNCHANGED frames
<1>1. ASSUME ChldStart \/ ChldWait \/ ChldStopped \/ ChldTerminated \/ ChldClear
      PROVE  Proceed
  BY <1>1 DEF ChldStart, ChldWait, ChldStopped, ChldTerminated, ChldClear,
     Proceed, In, Signals, HandlerPcs
<1>2. ASSUME NEW s \in TtySignals, TtyStart(s) \/ TtyKill(s)
      PROVE  Proceed
  BY <1>2 DEF TtyStart, TtyKill, Proceed, In, Signals, TtySignals, HandlerPcs
<1>3. ASSUME TstpJid \/ TstpStore
      PROVE  Proceed
  BY <1>3 DEF TstpJid, TstpStore, Proceed, In, Signals, HandlerPcs
<1>4. ASSUME \/ AddPid \/ AddState \/ AddJid \/ WaitReturns \/ LoadPid
             \/ Continue \/ StoreState
      PROVE  UNCHANGED frames
  BY <1>4 DEF AddPid, AddState, AddJid, WaitReturns, LoadPid, Continue,
     StoreState
<1>5. ASSUME Command PROVE Quit \/ UNCHANGED frames
  BY <1>5 DEF Command, Fork, ForkFails, LookupJid, LookupPid
<1>6. ASSUME NEW p \in Pids, Process(p) PROVE UNCHANGED frames
  BY <1>6 DEF Process, Setpgid, Execve, Exit, Killed, Stopped, Inherited, Raise
<1>7. ASSUME NEW s \in TtySignals, Type(s) PROVE UNCHANGED frames
  BY <1>7 DEF Type
<1>8. ASSUME UNCHANGED vars PROVE UNCHANGED frames
  BY <1>8 DEF vars
<1> QED
  BY <1>1, <1>2, <1>3, <1>4, <1>5, <1>6, <1>7, <1>8
  DEF Next, Handlers, Executing

LEMMA NestedStep ==
  ASSUME TypeOK, Nested, [Next]_vars
  PROVE  Nested'
<1> USE DEF Active
<1>0. /\ cpu \in Signals \cup {"main", "none"}
      /\ hpc \in [Signals -> HandlerPcs]
      /\ hret \in [Signals -> Signals \cup {"main", "none"}]
      /\ pending \subseteq Signals
  BY DEF TypeOK
<1>1. ASSUME NEW s \in Signals, Deliver(s) PROVE Nested'
  <2>1. /\ cpu' = s /\ hpc' = [hpc EXCEPT ![s] = "start"]
        /\ hret' = [hret EXCEPT ![s] = cpu] /\ ~Active(s) /\ cpu # "none"
    BY <1>1 DEF Deliver, Deliverable, Alive
  <2> QED
    BY <1>0, <2>1 DEF Nested, Signals
<1>2. ASSUME NEW s \in Signals, Return(s) PROVE Nested'
  <2>1. cpu = s
    BY <1>2 DEF Return, In
  <2>2. CASE /\ cpu' = hret[s]
             /\ hpc' = [hpc EXCEPT ![s] = "idle"]
             /\ hret' = [hret EXCEPT ![s] = "none"]
    BY <1>0, <2>1, <2>2 DEF Nested, Signals
  <2>3. ASSUME NEW t \in Signals, ~Active(t) \/ t = s, cpu' = t,
               hpc' = [hpc EXCEPT ![s] = "idle", ![t] = "start"],
               hret' = [hret EXCEPT ![s] = "none", ![t] = hret[s]]
        PROVE  Nested'
    BY <1>0, <2>1, <2>3 DEF Nested, Signals
  <2> QED
    BY <1>0, <1>2, <2>2, <2>3 DEF Return
<1>3. ASSUME Proceed PROVE Nested'
  <2>1. PICK s \in Signals, l \in HandlerPcs \ {"idle"} : cpu = s /\ Goto(s, l)
    BY <1>3 DEF Proceed
  <2>2. /\ \A t \in Signals : Active(t) <=> hpc'[t] # "idle"
        /\ UNCHANGED <<cpu, hret>>
    BY <1>0, <2>1 DEF Goto, Nested
  <2> QED
    BY <2>2 DEF Nested
<1>4. ASSUME Unblock PROVE Nested'
  <2>1. cpu = "main"
    BY <1>4 DEF Unblock, InMain
  <2>2. CASE "CHLD" \in pending
    <3>1. /\ cpu' = "CHLD" /\ hpc' = [hpc EXCEPT !["CHLD"] = "start"]
          /\ hret' = [hret EXCEPT !["CHLD"] = "main"]
      BY <1>4, <2>2 DEF Unblock
    <3> QED
      BY <1>0, <2>1, <3>1 DEF Nested, Signals
  <2>3. CASE "CHLD" \notin pending
    BY <1>4, <2>3 DEF Unblock, Nested, frames
  <2> QED
    BY <2>2, <2>3
<1>5. ASSUME Quit PROVE Nested'
  BY <1>5 DEF Quit, InMain, Nested, Signals
<1>6. ASSUME UNCHANGED frames PROVE Nested'
  BY <1>6 DEF frames, Nested
<1> QED
  BY <1>1, <1>2, <1>3, <1>4, <1>5, <1>6, FrameSteps

-----------------------------------------------------------------------------
(* What the protected part of eval and the loop of sigchld_handler are for. *)

\* SIGCHLD is blocked exactly from fork to the end of addjob, and its handler
\* is then not active.
Masked ==
  /\ blocked <=> mpc \in {"addPid", "addState", "addJid", "unblock"}
  /\ blocked => ~Active("CHLD")

\* The child that is being added was forked and not reaped.
Launched == Adding /\ mpid \in Pids => proc[mpid] \notin {"none", "gone"}

\* As ReapPromised, but the handler has not made its last call of waitpid.
Attended == Alive /\ Unattended # {} =>
              "CHLD" \in pending \/ hpc["CHLD"] \notin {"idle", "ret"}

\* The steps that change main's place or its mask.
LEMMA MaskSteps ==
  ASSUME [Next]_vars
  PROVE  \/ \E p \in Pids, m \in Launch : Fork(p, m)
         \/ \E m \in Launch : ForkFails(m)
         \/ AddPid \/ AddState \/ AddJid \/ Unblock
         \/ /\ UNCHANGED blocked
            /\ \/ UNCHANGED <<mpc, mpid>>
               \/ {mpc, mpc'} \subseteq
                    {"prompt", "wait", "load", "cont", "store", "exit"}
<1>1. ASSUME Handlers PROVE UNCHANGED mainVars
  <2>1. ASSUME NEW s \in TtySignals, TtyStart(s) \/ TtyKill(s)
        PROVE  UNCHANGED mainVars
    BY <2>1 DEF TtyStart, TtyKill
  <2>2. ASSUME NEW s \in Signals, Return(s) PROVE UNCHANGED mainVars
    BY <2>2 DEF Return
  <2> QED
    BY <1>1, <2>1, <2>2 DEF Handlers, ChldStart, ChldWait, ChldStopped,
       ChldTerminated, ChldClear, TstpJid, TstpStore
<1>2. ASSUME WaitReturns \/ LoadPid \/ Continue \/ StoreState \/ Quit
      PROVE  /\ UNCHANGED blocked
             /\ {mpc, mpc'} \subseteq
                  {"prompt", "wait", "load", "cont", "store", "exit"}
  BY <1>2 DEF WaitReturns, LoadPid, Continue, StoreState, Quit, InMain, ToPrompt
<1>3. ASSUME NEW b, NEW j, LookupJid(b, j) \/ LookupPid(b, j)
      PROVE  /\ UNCHANGED blocked
             /\ {mpc, mpc'} \subseteq
                  {"prompt", "wait", "load", "cont", "store", "exit"}
  BY <1>3 DEF LookupJid, LookupPid, InMain
<1>4. ASSUME NEW p \in Pids, Process(p) PROVE UNCHANGED mainVars
  BY <1>4 DEF Process, Setpgid, Execve, Exit, Killed, Stopped, Inherited, Raise
<1>5. ASSUME NEW s, Type(s) \/ Deliver(s) PROVE UNCHANGED mainVars
  BY <1>5 DEF Type, Deliver
<1>6. ASSUME UNCHANGED vars PROVE UNCHANGED mainVars
  BY <1>6 DEF vars
<1>7. ASSUME UNCHANGED mainVars PROVE UNCHANGED <<blocked, mpc, mpid>>
  BY <1>7 DEF mainVars
<1> QED
  BY <1>1, <1>2, <1>3, <1>4, <1>5, <1>6, <1>7 DEF Next, Executing, Command

\* The handler of SIGCHLD starts only when SIGCHLD is not blocked.
LEMMA MaskedStep ==
  ASSUME TypeOK, Nested, Masked, [Next]_vars
  PROVE  Masked'
<1>1. blocked' <=> mpc' \in {"addPid", "addState", "addJid", "unblock"}
  <2>1. ASSUME NEW p \in Pids, NEW m \in Launch, Fork(p, m)
        PROVE  blocked' /\ mpc' = "addPid"
    BY <2>1 DEF Fork
  <2>2. ASSUME NEW m \in Launch, ForkFails(m)
        PROVE  blocked' /\ mpc' = "addPid"
    BY <2>2 DEF ForkFails
  <2>3. ASSUME AddPid \/ AddState \/ AddJid
        PROVE  UNCHANGED blocked /\
               {mpc, mpc'} \subseteq {"addPid", "addState", "addJid", "unblock"}
    BY <2>3 DEF AddPid, AddState, AddJid, InMain
  <2>4. ASSUME Unblock PROVE ~blocked' /\ mpc' \in {"wait", "prompt"}
    BY <2>4 DEF Unblock, ToPrompt
  <2> QED
    BY <2>1, <2>2, <2>3, <2>4, MaskSteps DEF Masked
<1>2. ASSUME blocked' PROVE ~Active("CHLD")'
  <2>1. CASE blocked
    <3>1. ~Active("CHLD")
      BY <2>1 DEF Masked
    <3>2. ASSUME NEW s \in Signals, Deliver(s) PROVE ~Active("CHLD")'
      BY <2>1, <3>1, <3>2 DEF Deliver, Deliverable, Active, TypeOK
    <3>3. ASSUME NEW s \in Signals, Return(s) PROVE ~Active("CHLD")'
      <4>1. s # "CHLD"
        BY <3>1, <3>3 DEF Return, In, Active
      <4>2. CASE hpc' = [hpc EXCEPT ![s] = "idle"]
        BY <3>1, <4>1, <4>2 DEF Active, TypeOK
      <4>3. ASSUME NEW t \in pending, t # "CHLD",
                   hpc' = [hpc EXCEPT ![s] = "idle", ![t] = "start"]
            PROVE  ~Active("CHLD")'
        <5>1. hpc'["CHLD"] = hpc["CHLD"]
          BY <4>1, <4>3 DEF TypeOK, Signals
        <5> QED
          BY <3>1, <5>1 DEF Active
      <4> QED
        BY <2>1, <3>3, <4>2, <4>3 DEF Return
    <3>4. ASSUME Proceed PROVE ~Active("CHLD")'
      <4>1. PICK s \in Signals, l \in HandlerPcs \ {"idle"} :
              cpu = s /\ Goto(s, l)
        BY <3>4 DEF Proceed
      <4>2. s # "CHLD"
        BY <3>1, <4>1 DEF Nested
      <4> QED
        BY <3>1, <4>1, <4>2 DEF Goto, Active, TypeOK
    <3>5. ~Unblock
      BY <1>2 DEF Unblock
    <3>6. ASSUME Quit \/ UNCHANGED frames PROVE ~Active("CHLD")'
      BY <3>1, <3>6 DEF Quit, frames, Active
    <3> QED
      BY <3>2, <3>3, <3>4, <3>5, <3>6, FrameSteps
  <2>2. CASE ~blocked
    <3>1. \/ \E p \in Pids, m \in Launch : Fork(p, m)
          \/ \E m \in Launch : ForkFails(m)
      <4>1. ~(AddPid \/ AddState \/ AddJid \/ Unblock)
        BY <1>2, <2>2 DEF AddPid, AddState, AddJid, Unblock
      <4> QED
        BY <1>2, <2>2, <4>1, MaskSteps
    <3>2. cpu = "main" /\ UNCHANGED frames
      BY <3>1 DEF Fork, ForkFails, InMain
    <3> QED
      BY <3>2 DEF Nested, Active, frames, Signals
  <2> QED
    BY <2>1, <2>2
<1> QED
  BY <1>1, <1>2 DEF Masked

\* The steps that change a process.
LEMMA ProcSteps ==
  ASSUME [Next]_vars
  PROVE  \/ UNCHANGED proc
         \/ ChldWait \/ Continue
         \/ \E p \in Pids, m \in Launch : Fork(p, m)
         \/ \E p \in Pids : \/ Setpgid(p) \/ Execve(p)
                            \/ Exit(p) \/ Killed(p) \/ Stopped(p)
<1>1. ASSUME NEW s, Deliver(s) \/ TtyStart(s) \/ TtyKill(s) \/ Return(s) \/ Type(s)
      PROVE  UNCHANGED proc
  BY <1>1 DEF Deliver, TtyStart, TtyKill, Return, Type, children
<1>2. ASSUME \/ ChldStart \/ ChldStopped \/ ChldTerminated \/ ChldClear
             \/ TstpJid \/ TstpStore
      PROVE  UNCHANGED proc
  BY <1>2 DEF ChldStart, ChldStopped, ChldTerminated, ChldClear, TstpJid,
     TstpStore, children
<1>3. ASSUME \/ AddPid \/ AddState \/ AddJid \/ Unblock \/ WaitReturns
             \/ LoadPid \/ StoreState \/ Quit
      PROVE  UNCHANGED proc
  BY <1>3 DEF AddPid, AddState, AddJid, Unblock, WaitReturns, LoadPid,
     StoreState, Quit, children
<1>4. ASSUME NEW b, NEW j, LookupJid(b, j) \/ LookupPid(b, j) \/ ForkFails(b)
      PROVE  UNCHANGED proc
  BY <1>4 DEF LookupJid, LookupPid, ForkFails, children
<1>5. ASSUME NEW p, NEW s, Inherited(p, s) \/ Raise(p, s) PROVE UNCHANGED proc
  BY <1>5 DEF Inherited, Raise
<1>6. ASSUME UNCHANGED vars PROVE UNCHANGED proc
  BY <1>6 DEF vars, children
<1> QED
  BY <1>1, <1>2, <1>3, <1>4, <1>5, <1>6
  DEF Next, Handlers, Executing, Command, Process

LEMMA LaunchedStep ==
  ASSUME TypeOK, Masked, Launched, [Next]_vars
  PROVE  Launched'
<1> SUFFICES ASSUME Adding', mpid' \in Pids
             PROVE  proc'[mpid'] \notin {"none", "gone"}
  BY DEF Launched
<1>1. CASE \E p \in Pids, m \in Launch : Fork(p, m)
  BY <1>1 DEF Fork, TypeOK
<1>2. CASE \E m \in Launch : ForkFails(m)
  BY <1>2, PidsAssumption DEF ForkFails
<1>3. CASE Adding /\ UNCHANGED mpid
  <2>1. proc[mpid] \notin {"none", "gone"}
    BY <1>3 DEF Launched
  <2>2. ~ChldWait
    BY <1>3 DEF Adding, Masked, Active, ChldWait, In
  <2>3. ~Continue
    BY <1>3 DEF Adding, Continue, InMain
  <2>4. ASSUME NEW p \in Pids, \/ Setpgid(p) \/ Execve(p)
                               \/ Exit(p) \/ Killed(p) \/ Stopped(p)
        PROVE  proc'[mpid] \notin {"none", "gone"}
    BY <2>1, <2>4, <1>3 DEF Setpgid, Execve, Exit, Killed, Stopped, Become, TypeOK
  <2>5. ASSUME NEW p \in Pids, NEW m \in Launch, Fork(p, m) PROVE FALSE
    BY <2>5, <1>3 DEF Fork, InMain, Adding
  <2> QED
    BY <1>3, <2>1, <2>2, <2>3, <2>4, <2>5, ProcSteps
<1>4. \/ \E p \in Pids, m \in Launch : Fork(p, m)
      \/ \E m \in Launch : ForkFails(m)
      \/ Adding /\ UNCHANGED mpid
  <2>1. ASSUME AddPid \/ AddState \/ AddJid PROVE Adding /\ UNCHANGED mpid
    BY <2>1 DEF AddPid, AddState, AddJid, InMain, Adding
  <2>2. ~Unblock
    BY DEF Unblock, ToPrompt, Adding
  <2>3. ASSUME UNCHANGED <<mpc, mpid>> PROVE Adding /\ UNCHANGED mpid
    BY <2>3 DEF Adding
  <2> QED
    BY <2>1, <2>2, <2>3, MaskSteps DEF Adding
<1> QED
  BY <1>1, <1>2, <1>3, <1>4

\* What keeps SIGCHLD announced: it stays pending except where it is
\* delivered, and only its handler, Deliver, Return and Unblock move hpc.
LEMMA PendingSteps ==
  ASSUME [Next]_vars, TypeOK, "CHLD" \in pending
  PROVE  \/ "CHLD" \in pending'
         \/ \E s \in Signals : Deliver(s) \/ Return(s)
         \/ Unblock \/ Quit
<1>1. ASSUME \/ ChldStart \/ ChldWait \/ ChldStopped \/ ChldTerminated
             \/ ChldClear \/ TstpJid \/ TstpStore
      PROVE  "CHLD" \in pending'
  BY <1>1 DEF ChldStart, ChldWait, ChldStopped, ChldTerminated, ChldClear,
     TstpJid, TstpStore
<1>2. ASSUME NEW s \in TtySignals, TtyStart(s) \/ TtyKill(s) \/ Type(s)
      PROVE  "CHLD" \in pending'
  BY <1>2 DEF TtyStart, TtyKill, SendTty, Type
<1>3. ASSUME \/ AddPid \/ AddState \/ AddJid \/ WaitReturns \/ LoadPid
             \/ Continue \/ StoreState
      PROVE  "CHLD" \in pending'
  BY <1>3 DEF AddPid, AddState, AddJid, WaitReturns, LoadPid, Continue,
     SendCont, StoreState
<1>4. ASSUME NEW p, NEW m, \/ Fork(p, m) \/ ForkFails(m)
                           \/ LookupJid(m, p) \/ LookupPid(m, p)
      PROVE  "CHLD" \in pending'
  BY <1>4 DEF Fork, ForkFails, LookupJid, LookupPid
<1>5. ASSUME NEW p \in Pids, Process(p) PROVE "CHLD" \in pending'
  BY <1>5 DEF Process, Setpgid, Execve, Exit, Killed, Stopped, Announce,
     Inherited, Raise
<1>6. ASSUME UNCHANGED vars PROVE "CHLD" \in pending'
  BY <1>6 DEF vars
<1> QED
  BY <1>1, <1>2, <1>3, <1>4, <1>5, <1>6 DEF Next, Handlers, Executing, Command

LEMMA ChldFrameSteps ==
  ASSUME [Next]_vars, TypeOK
  PROVE  \/ hpc'["CHLD"] = hpc["CHLD"]
         \/ ChldStart \/ ChldWait \/ ChldStopped \/ ChldTerminated \/ ChldClear
         \/ \E s \in Signals : Deliver(s) \/ Return(s)
         \/ Unblock
<1>1. ASSUME NEW s \in TtySignals, TtyStart(s) \/ TtyKill(s)
      PROVE  hpc'["CHLD"] = hpc["CHLD"]
  BY <1>1 DEF TtyStart, TtyKill, Goto, TypeOK, TtySignals, Signals
<1>2. ASSUME TstpJid \/ TstpStore PROVE hpc'["CHLD"] = hpc["CHLD"]
  BY <1>2 DEF TstpJid, TstpStore, Goto, TypeOK, Signals
<1>3. ASSUME NEW p \in Pids, Process(p) PROVE hpc'["CHLD"] = hpc["CHLD"]
  BY <1>3 DEF Process, Setpgid, Execve, Exit, Killed, Stopped, Inherited,
     Raise, frames
<1>4. ASSUME NEW s, Type(s) PROVE hpc'["CHLD"] = hpc["CHLD"]
  BY <1>4 DEF Type, frames
<1>5. ASSUME Command PROVE hpc'["CHLD"] = hpc["CHLD"]
  BY <1>5 DEF Command, Fork, ForkFails, LookupJid, LookupPid, Quit, frames
<1>6. ASSUME \/ AddPid \/ AddState \/ AddJid \/ WaitReturns \/ LoadPid
             \/ Continue \/ StoreState
      PROVE  hpc'["CHLD"] = hpc["CHLD"]
  BY <1>6 DEF AddPid, AddState, AddJid, WaitReturns, LoadPid, Continue,
     StoreState, frames
<1>7. ASSUME UNCHANGED vars PROVE hpc'["CHLD"] = hpc["CHLD"]
  BY <1>7 DEF vars, frames
<1> QED
  BY <1>1, <1>2, <1>3, <1>4, <1>5, <1>6, <1>7 DEF Next, Handlers, Executing

\* A shell that has exited stays so.
LEMMA DeadSteps ==
  ASSUME [Next]_vars, ~Alive
  PROVE  ~Alive'
<1>1. ASSUME NEW s \in Signals, Deliver(s) \/ Return(s) PROVE FALSE
  BY <1>1 DEF Deliver, Return, In, Alive, Signals
<1>2. ~Proceed /\ ~Unblock /\ ~Quit
  BY DEF Proceed, Unblock, Quit, InMain, Alive, Signals
<1> QED
  BY <1>1, <1>2, FrameSteps DEF Alive, frames

\* The last call of waitpid in the handler finds nobody, and from then on
\* until the handler returns, whoever dies or stops rings again.
LEMMA AttendedStep ==
  ASSUME TypeOK, Masked, Attended, [Next]_vars
  PROVE  Attended'
<1> DEFINE Awake == "CHLD" \in pending \/ hpc["CHLD"] \notin {"idle", "ret"}
<1> SUFFICES ASSUME Alive', Unattended' # {} PROVE Awake'
  BY DEF Attended
<1>0. /\ hpc \in [Signals -> HandlerPcs] /\ pending \subseteq Signals
      /\ "CHLD" \in Signals
  BY DEF TypeOK, Signals
<1>1. Alive
  BY DeadSteps
<1>2. Unattended # {} => Awake
  BY <1>1 DEF Attended
<1>3. ASSUME NEW p \in Pids, Exit(p) \/ Killed(p) \/ Stopped(p) PROVE Awake'
  BY <1>1, <1>3 DEF Exit, Killed, Stopped, Announce
<1>4. CASE ChldStart \/ ChldStopped \/ ChldTerminated \/ ChldClear
  BY <1>0, <1>4 DEF ChldStart, ChldStopped, ChldTerminated, ChldClear, Goto
<1>5. CASE ChldWait
  <2>1. CASE UNCHANGED proc /\ \A p \in Pids : proc[p] \notin {"zombie", "stop"}
    BY <2>1 DEF Unattended
  <2>2. CASE Goto("CHLD", "terminated") \/ Goto("CHLD", "stopped")
    BY <1>0, <2>2 DEF Goto
  <2> QED
    BY <1>5, <2>1, <2>2 DEF ChldWait
<1>6. ASSUME Unattended # {}, NEW s \in Signals, Deliver(s) PROVE Awake'
  BY <1>0, <1>2, <1>6 DEF Deliver
<1>7. ASSUME Unattended # {}, NEW s \in Signals, Return(s) PROVE Awake'
  <2>1. s = "CHLD" => "CHLD" \in pending
    BY <1>2, <1>7 DEF Return, In
  <2>2. CASE /\ UNCHANGED pending /\ hpc' = [hpc EXCEPT ![s] = "idle"]
    <3>1. CASE "CHLD" \in pending
      BY <2>2, <3>1
    <3>2. CASE "CHLD" \notin pending
      <4>1. hpc'["CHLD"] = hpc["CHLD"]
        BY <1>0, <2>1, <2>2, <3>2
      <4> QED
        BY <1>2, <1>7, <3>2, <4>1
    <3> QED
      BY <3>1, <3>2
  <2>3. ASSUME NEW t \in pending, pending' = pending \ {t},
               hpc' = [hpc EXCEPT ![s] = "idle", ![t] = "start"]
        PROVE  Awake'
    <3>1. CASE t = "CHLD"
      BY <1>0, <2>3, <3>1
    <3>2. CASE t # "CHLD" /\ "CHLD" \in pending
      BY <2>3, <3>2
    <3>3. CASE t # "CHLD" /\ s # "CHLD" /\ "CHLD" \notin pending
      <4>1. hpc'["CHLD"] = hpc["CHLD"]
        BY <1>0, <2>3, <3>3
      <4> QED
        BY <1>2, <1>7, <3>3, <4>1
    <3> QED
      BY <2>1, <3>1, <3>2, <3>3
  <2> QED
    BY <1>7, <2>2, <2>3 DEF Return
<1>8. ASSUME Unattended # {}, Unblock PROVE Awake'
  BY <1>0, <1>2, <1>8 DEF Unblock, frames
<1>9. ~Quit
  BY DEF Quit, Alive
<1>10. Unattended' \subseteq Unattended
         \/ ChldWait \/ \E p \in Pids : Exit(p) \/ Killed(p) \/ Stopped(p)
  <2>1. ASSUME NEW p \in Pids, Setpgid(p) \/ Execve(p)
        PROVE  Unattended' \subseteq Unattended
    BY <2>1 DEF Setpgid, Execve, Become, Unattended, TypeOK
  <2>2. ASSUME NEW p \in Pids, NEW m, Fork(p, m)
        PROVE  Unattended' \subseteq Unattended
    BY <2>2 DEF Fork, Unattended, TypeOK
  <2>3. ASSUME Continue PROVE Unattended' \subseteq Unattended
    BY <2>3 DEF Continue, SendCont, children, Unattended, TypeOK
  <2>4. ASSUME UNCHANGED proc PROVE Unattended' \subseteq Unattended
    BY <2>4 DEF Unattended
  <2> QED
    BY <2>1, <2>2, <2>3, <2>4, ProcSteps
<1>11. CASE Unattended' \subseteq Unattended
  <2>1. Unattended # {} /\ Awake
    BY <1>2, <1>11
  <2>2. CASE "CHLD" \in pending
    BY <1>6, <1>7, <1>8, <1>9, <2>1, <2>2, PendingSteps
  <2>3. CASE hpc["CHLD"] \notin {"idle", "ret"}
    BY <1>4, <1>5, <1>6, <1>7, <1>8, <2>1, <2>3, ChldFrameSteps
  <2> QED
    BY <2>1, <2>2, <2>3
<1> QED
  BY <1>3, <1>5, <1>10, <1>11

-----------------------------------------------------------------------------
(* The inductive invariant and its consequences.                           *)

Inv == TypeOK /\ Nested /\ Masked /\ Launched /\ Attended

\* The invariant holds in every state of every session.
THEOREM InvHolds == Spec => []Inv
<1>1. ASSUME Init PROVE Nested /\ Masked /\ Launched /\ Attended
  <2>1. Nested /\ Masked
    BY <1>1 DEF Init, Nested, Masked, Active, Signals
  <2>2. Launched /\ Attended
    BY <1>1 DEF Init, Launched, Adding, Attended, Unattended
  <2> QED
    BY <2>1, <2>2
<1>2. ASSUME TypeOK, Nested, Masked, Launched, Attended, [Next]_vars
      PROVE  Nested' /\ Masked' /\ Launched' /\ Attended'
  BY <1>2, NestedStep, MaskedStep, LaunchedStep, AttendedStep
<1> QED
  BY <1>1, <1>2, TypeCorrect, PTL DEF Spec, Inv

\* No child is reaped before addjob has recorded it.
THEOREM ReapedAfterAdd == Spec => []NoReapBeforeAdd
<1>1. Inv => NoReapBeforeAdd
  BY DEF Inv, Launched, NoReapBeforeAdd
<1> QED
  BY <1>1, InvHolds, PTL

\* No death and no stop of a child escapes a living shell.
THEOREM NoLostChild == Spec => []ReapPromised
<1>1. Inv => ReapPromised
  BY DEF Inv, Attended, ReapPromised
<1> QED
  BY <1>1, InvHolds, PTL

-----------------------------------------------------------------------------
(* The shell implements Reaper.                                            *)

\* The mapping of a process's state forgets what only the kernel sees.
LEMMA PhaseFacts ==
  /\ PhaseOf("none") = "new"
  /\ PhaseOf("young") = "alive" /\ PhaseOf("pre") = "alive"
  /\ PhaseOf("run") = "alive" /\ PhaseOf("stop") = "stopping"
  /\ PhaseOf("stopped") = "stopped" /\ PhaseOf("zombie") = "dead"
  /\ PhaseOf("gone") = "reaped"
BY DEF PhaseOf

\* The abstract and the concrete shell agree on who is unattended.
LEMMA UnattendedBar ==
  ASSUME TypeOK PROVE R!Unattended = Unattended
BY PhaseFacts DEF TypeOK, ProcStates, R!Unattended, phaseBar, Unattended

LEMMA ReaperInit == Init => R!RInit
<1> SUFFICES ASSUME Init PROVE R!RInit
  OBVIOUS
<1>1. phaseBar = [p \in Pids |-> "new"]
  BY PhaseFacts DEF Init, phaseBar
<1>2. launchingBar = 0
  BY DEF Init, launchingBar, Adding
<1>3. bellBar = FALSE /\ Alive = TRUE
  BY DEF Init, bellBar, Alive, Signals
<1> QED
  BY <1>1, <1>2, <1>3 DEF R!RInit

\* A step is invisible to Reaper when it leaves the processes, the child that
\* is being added, the bell and the life of the shell alone.
Invisible == UNCHANGED <<phaseBar, launchingBar, bellBar, Alive>>

LEMMA InvisibleStutters == Invisible => UNCHANGED R!rvars
BY DEF Invisible, R!rvars

\* Only eval changes the child that is being added.
LEMMA LaunchingKept ==
  \/ UNCHANGED <<mpc, mpid>>
  \/ {mpc, mpc'} \cap {"addPid", "addState", "addJid"} = {}
  => UNCHANGED launchingBar
BY DEF launchingBar, Adding

\* fork
LEMMA ForkStarts ==
  ASSUME TypeOK, NEW p \in Pids, NEW m \in Launch, Fork(p, m)
  PROVE  R!Start(p)
<1>1. Alive /\ ~Adding /\ Adding' /\ mpid' = p /\ proc[p] = "none"
  BY DEF Fork, InMain, Alive, Adding
<1>2. phaseBar' = [phaseBar EXCEPT ![p] = "alive"]
  BY PhaseFacts DEF Fork, phaseBar, TypeOK
<1>3. launchingBar = 0 /\ launchingBar' = p
  BY <1>1, PidsAssumption DEF launchingBar
<1>4. phaseBar[p] = "new"
  BY <1>1, PhaseFacts DEF phaseBar
<1>5. UNCHANGED <<bellBar, Alive>>
  BY DEF Fork, bellBar, Alive, frames
<1> QED
  BY <1>1, <1>2, <1>3, <1>4, <1>5 DEF R!Start

\* The rest of eval records the child when addjob ends.
LEMMA EvalRecords ==
  ASSUME \/ AddPid \/ AddState \/ AddJid \/ \E m \in Launch : ForkFails(m)
  PROVE  R!Record \/ Invisible
<1>1. UNCHANGED <<phaseBar, bellBar, Alive>>
  BY DEF AddPid, AddState, AddJid, ForkFails, children, frames, phaseBar,
     bellBar, Alive
<1>2. launchingBar' = launchingBar \/ launchingBar' = 0
  BY DEF AddPid, AddState, AddJid, ForkFails, InMain, launchingBar, Adding
<1> QED
  BY <1>1, <1>2 DEF R!Record, Invisible

LEMMA UnblockInvisible == TypeOK /\ Unblock => Invisible
<1> SUFFICES ASSUME TypeOK, Unblock PROVE Invisible
  OBVIOUS
<1>1. UNCHANGED <<phaseBar, launchingBar>>
  BY LaunchingKept DEF Unblock, InMain, ToPrompt, children, phaseBar
<1>2. UNCHANGED <<bellBar, Alive>>
  <2>1. CASE "CHLD" \in pending
    <3>1. hpc'["CHLD"] = "start" /\ cpu' = "CHLD" /\ cpu = "main"
      BY <2>1 DEF Unblock, InMain, TypeOK, Signals
    <3> QED
      BY <2>1, <3>1 DEF bellBar, Alive
  <2>2. CASE "CHLD" \notin pending
    BY <2>2 DEF Unblock, frames, bellBar, Alive
  <2> QED
    BY <2>1, <2>2
<1> QED
  BY <1>1, <1>2 DEF Invisible

\* The other steps of main that send no signal.
LEMMA MainInvisible ==
  ASSUME \/ WaitReturns \/ LoadPid \/ StoreState
         \/ \E b, j : LookupJid(b, j) \/ LookupPid(b, j)
  PROVE  Invisible
<1>1. UNCHANGED <<children, frames, pending>>
  BY DEF WaitReturns, LoadPid, StoreState, LookupJid, LookupPid
<1>2. {mpc, mpc'} \cap {"addPid", "addState", "addJid"} = {}
  BY DEF WaitReturns, LoadPid, StoreState, LookupJid, LookupPid, InMain, ToPrompt
<1> QED
  BY <1>1, <1>2, LaunchingKept
  DEF children, frames, phaseBar, bellBar, Alive, Invisible

\* kill(-pid, SIGCONT) wakes those that were stopped.
LEMMA ContinueWakes ==
  ASSUME TypeOK, Continue
  PROVE  (\E C \in SUBSET Pids : R!Wake(C)) \/ Invisible
<1>1. UNCHANGED <<launchingBar, Alive>> /\ Alive
  BY LaunchingKept DEF Continue, InMain, ToPrompt, frames, Alive
<1>2. CASE ~Killable(mpid)
  BY <1>1, <1>2
  DEF Continue, children, frames, phaseBar, bellBar, Invisible
<1>3. CASE Killable(mpid)
  <2> DEFINE woken == {p \in InGroup(mpid) : proc[p] \in {"stop", "stopped"}}
  <2>1. SendCont(mpid) /\ UNCHANGED hpc
    BY <1>3 DEF Continue, frames
  <2>2. woken \subseteq Pids
    BY <1>3 DEF Killable, InGroup
  <2>3. phaseBar' = [p \in Pids |-> IF p \in woken THEN "alive" ELSE phaseBar[p]]
    BY <2>1, PhaseFacts DEF SendCont, phaseBar
  <2>4. CASE woken = {}
    <3>1. phaseBar' = phaseBar
      BY <2>3, <2>4 DEF phaseBar
    <3>2. bellBar' = bellBar
      BY <2>1, <2>4 DEF SendCont, bellBar
    <3> QED
      BY <1>1, <3>1, <3>2 DEF Invisible
  <2>5. CASE woken # {}
    <3>1. bellBar' = TRUE
      BY <2>1, <2>5 DEF SendCont, bellBar
    <3>2. woken \subseteq {c \in Pids : phaseBar[c] \in {"stopping", "stopped"}}
      BY <2>2, PhaseFacts DEF phaseBar
    <3> QED
      BY <1>1, <2>2, <2>3, <2>5, <3>1, <3>2 DEF R!Wake
  <2> QED
    BY <2>4, <2>5
<1> QED
  BY <1>2, <1>3

\* exit
LEMMA QuitLeaves ==
  ASSUME Nested, Quit
  PROVE  R!Leave
<1>1. Alive /\ ~Alive' /\ launchingBar = 0 /\ launchingBar' = 0
  BY DEF Quit, InMain, Alive, launchingBar, Adding
<1>2. bellBar' = FALSE /\ UNCHANGED phaseBar
  BY DEF Quit, InMain, Nested, Active, Signals, children, bellBar, phaseBar
<1> QED
  BY <1>1, <1>2 DEF R!Leave

\* A child's death or stop rings the bell of a living shell.
LEMMA ChildChanges ==
  ASSUME TypeOK, Nested, NEW p \in Pids, Exit(p) \/ Killed(p) \/ Stopped(p)
  PROVE  \E f \in {"dead", "stopping"} : R!Change(p, f)
<1>1. PICK s \in {"zombie", "stop"} :
        Become(p, s) /\ proc[p] \in {"pre", "run"}
  BY DEF Exit, Killed, Stopped
<1>2. phaseBar[p] = "alive" /\ phaseBar' = [phaseBar EXCEPT ![p] = PhaseOf(s)]
  BY <1>1, PhaseFacts DEF Become, phaseBar, TypeOK
<1>3. UNCHANGED <<launchingBar, Alive>>
  BY LaunchingKept DEF Exit, Killed, Stopped, mainVars, frames, Alive
<1>4. CASE Alive
  BY <1>4, <1>1, <1>2, <1>3, PhaseFacts
  DEF Exit, Killed, Stopped, Announce, bellBar, R!Change
<1>5. CASE ~Alive
  BY <1>5, <1>1, <1>2, <1>3, PhaseFacts
  DEF Exit, Killed, Stopped, Announce, bellBar, frames, R!Change
<1> QED
  BY <1>4, <1>5

\* The other steps of a child, and a key typed, are invisible.
LEMMA ChildInvisible ==
  ASSUME TypeOK,
         \/ \E p \in Pids : Setpgid(p) \/ Execve(p)
         \/ \E p \in Pids, s \in TtySignals : Inherited(p, s) \/ Raise(p, s)
         \/ \E s \in TtySignals : Type(s)
  PROVE  Invisible
<1>1. UNCHANGED <<mainVars, frames>>
  BY DEF Setpgid, Execve, Inherited, Raise, Type
<1>2. "CHLD" \in pending' <=> "CHLD" \in pending
  BY DEF Setpgid, Execve, Inherited, Raise, Type, TtySignals
<1>3. UNCHANGED phaseBar
  <2>1. ASSUME NEW p \in Pids, Setpgid(p) \/ Execve(p)
        PROVE  UNCHANGED phaseBar
    BY <2>1, PhaseFacts DEF Setpgid, Execve, Become, phaseBar, TypeOK
  <2>2. ASSUME NEW p, NEW s, Inherited(p, s) \/ Raise(p, s) \/ Type(s)
        PROVE  UNCHANGED phaseBar
    BY <2>2 DEF Inherited, Raise, Type, children, phaseBar
  <2> QED
    BY <2>1, <2>2
<1> QED
  BY <1>1, <1>2, <1>3, LaunchingKept
  DEF mainVars, frames, bellBar, Alive, Invisible

\* Delivering a signal.
LEMMA DeliverInvisible ==
  ASSUME TypeOK, NEW s \in Signals, Deliver(s)
  PROVE  Invisible
<1>1. UNCHANGED <<phaseBar, launchingBar>>
  BY LaunchingKept DEF Deliver, mainVars, children, phaseBar
<1>2. UNCHANGED Alive
  BY DEF Deliver, Alive, Signals
<1>3. UNCHANGED bellBar
  <2>1. CASE s = "CHLD"
    <3>1. "CHLD" \in pending /\ hpc'["CHLD"] = "start"
      BY <2>1 DEF Deliver, Deliverable, TypeOK, Signals
    <3> QED
      BY <3>1 DEF bellBar
  <2>2. CASE s # "CHLD"
    BY <2>2 DEF Deliver, TypeOK, Signals, bellBar
  <2> QED
    BY <2>1, <2>2
<1> QED
  BY <1>1, <1>2, <1>3 DEF Invisible

\* The steps of the handlers, except waitpid.
LEMMA HandlerInvisible ==
  ASSUME TypeOK,
         \/ ChldStart \/ ChldStopped \/ ChldTerminated \/ ChldClear
         \/ \E s \in TtySignals : TtyStart(s) \/ TtyKill(s)
         \/ TstpJid \/ TstpStore
  PROVE  Invisible
<1>1. UNCHANGED <<phaseBar, mpc, mpid, cpu>>
  BY DEF ChldStart, ChldStopped, ChldTerminated, ChldClear, TtyStart, TtyKill,
     TstpJid, TstpStore, Goto, mainVars, children, phaseBar
<1>2. "CHLD" \in pending' <=> "CHLD" \in pending
  BY DEF ChldStart, ChldStopped, ChldTerminated, ChldClear, TtyStart, TtyKill,
     SendTty, TstpJid, TstpStore, TtySignals
<1>3. hpc'["CHLD"] # "idle" <=> hpc["CHLD"] # "idle"
  <2>1. ASSUME ChldStart \/ ChldStopped \/ ChldTerminated \/ ChldClear
        PROVE  hpc'["CHLD"] # "idle" /\ hpc["CHLD"] # "idle"
    BY <2>1 DEF ChldStart, ChldStopped, ChldTerminated, ChldClear, In, Goto,
       TypeOK, Signals
  <2>2. ASSUME NEW s \in TtySignals, TtyStart(s) \/ TtyKill(s)
        PROVE  hpc'["CHLD"] = hpc["CHLD"]
    BY <2>2 DEF TtyStart, TtyKill, Goto, TypeOK, TtySignals, Signals
  <2>3. ASSUME TstpJid \/ TstpStore PROVE hpc'["CHLD"] = hpc["CHLD"]
    BY <2>3 DEF TstpJid, TstpStore, Goto, TypeOK, Signals
  <2> QED
    BY <2>1, <2>2, <2>3
<1> QED
  BY <1>1, <1>2, <1>3, LaunchingKept DEF bellBar, Alive, Invisible

\* waitpid attends to a child other than the one being added, if to any.
LEMMA WaitAttends ==
  ASSUME TypeOK, Masked, ChldWait
  PROVE  (\E p \in Pids : R!Attend(p)) \/ Invisible
<1>1. /\ UNCHANGED <<launchingBar, Alive>> /\ Alive
      /\ bellBar = TRUE /\ launchingBar = 0
  BY LaunchingKept DEF ChldWait, In, Goto, mainVars, Alive, bellBar, Masked,
     Active, launchingBar, Adding
<1>2. bellBar' = TRUE
  BY DEF ChldWait, Goto, TypeOK, Signals, bellBar
<1>3. ASSUME NEW p \in Pids, proc[p] = "zombie", proc' = [proc EXCEPT ![p] = "gone"]
      PROVE  R!Attend(p)
  <2>1. phaseBar[p] = "dead"
    BY <1>3, PhaseFacts DEF phaseBar
  <2>2. phaseBar' = [phaseBar EXCEPT ![p] = "reaped"]
    BY <1>3, PhaseFacts DEF phaseBar, TypeOK
  <2> QED
    BY <1>1, <1>2, <2>1, <2>2, PidsAssumption DEF R!Attend, R!Unattended
<1>4. ASSUME NEW p \in Pids, proc[p] = "stop", proc' = [proc EXCEPT ![p] = "stopped"]
      PROVE  R!Attend(p)
  <2>1. phaseBar[p] = "stopping"
    BY <1>4, PhaseFacts DEF phaseBar
  <2>2. phaseBar' = [phaseBar EXCEPT ![p] = "stopped"]
    BY <1>4, PhaseFacts DEF phaseBar, TypeOK
  <2> QED
    BY <1>1, <1>2, <2>1, <2>2, PidsAssumption DEF R!Attend, R!Unattended
<1>5. CASE UNCHANGED proc
  BY <1>1, <1>2, <1>5 DEF phaseBar, Invisible
<1> QED
  BY <1>3, <1>4, <1>5 DEF ChldWait

\* A handler returns: the bell falls silent when nothing is announced.
LEMMA ReturnSilences ==
  ASSUME TypeOK, Nested, Masked, Attended, [Next]_vars,
         NEW s \in Signals, Return(s)
  PROVE  R!Silence \/ Invisible
<1>1. UNCHANGED <<phaseBar, launchingBar>>
  BY LaunchingKept DEF Return, mainVars, children, phaseBar
<1>2. cpu = s /\ Alive /\ Active(s) /\ hret[s] # "none"
  BY DEF Return, In, Alive, Active, Nested, Signals
<1>3. UNCHANGED Alive
  BY <1>2 DEF Return, Alive, TypeOK, Signals
<1>4. bellBar \/ ~bellBar'
  <2> SUFFICES ASSUME ~bellBar PROVE ~bellBar'
    OBVIOUS
  <2>1. s # "CHLD" /\ "CHLD" \notin pending
    BY <1>2 DEF bellBar, Active
  <2>2. "CHLD" \notin pending'
    BY <2>1 DEF Return
  <2>3. hpc'["CHLD"] = hpc["CHLD"]
    <3>1. CASE hpc' = [hpc EXCEPT ![s] = "idle"]
      BY <2>1, <3>1 DEF TypeOK, Signals
    <3>2. ASSUME NEW t \in pending,
                 hpc' = [hpc EXCEPT ![s] = "idle", ![t] = "start"]
          PROVE  hpc'["CHLD"] = hpc["CHLD"]
      BY <2>1, <3>2 DEF TypeOK, Signals
    <3> QED
      BY <3>1, <3>2 DEF Return
  <2> QED
    BY <2>2, <2>3 DEF bellBar
<1>5. bellBar /\ ~bellBar' => Unattended = {}
  <2> SUFFICES ASSUME ~bellBar', Unattended # {} PROVE FALSE
    OBVIOUS
  <2>1. Attended' /\ Alive' /\ Unattended' # {}
    BY <1>2, <1>3, AttendedStep DEF Return, children, Unattended
  <2> QED
    BY <2>1 DEF Attended, bellBar
<1> QED
  BY <1>1, <1>3, <1>4, <1>5, UnattendedBar DEF R!Silence, Invisible, bellBar

\* Every step of the shell is a step of Reaper or a stuttering one.
LEMMA ReaperStep ==
  ASSUME Inv, [Next]_vars
  PROVE  [R!RNext]_(R!rvars)
<1> USE DEF Inv
<1>1. ASSUME NEW s \in Signals, Deliver(s) \/ Return(s)
      PROVE  R!Silence \/ Invisible
  BY <1>1, DeliverInvisible, ReturnSilences
<1>2. ASSUME Handlers PROVE \/ \E p \in Pids : R!Attend(p)
                            \/ R!Silence \/ Invisible
  BY <1>1, <1>2, HandlerInvisible, WaitAttends DEF Handlers
<1>3. ASSUME Executing PROVE \/ \E C \in SUBSET Pids : R!Wake(C)
                             \/ R!Record \/ Invisible
  BY <1>3, EvalRecords, UnblockInvisible, MainInvisible, ContinueWakes
  DEF Executing
<1>4. ASSUME Command PROVE \/ \E p \in Pids : R!Start(p)
                           \/ R!Record \/ R!Leave \/ Invisible
  BY <1>4, ForkStarts, EvalRecords, MainInvisible, QuitLeaves DEF Command
<1>5. ASSUME NEW p \in Pids, Process(p)
      PROVE  \/ \E f \in {"dead", "stopping"} : R!Change(p, f)
             \/ Invisible
  BY <1>5, ChildChanges, ChildInvisible DEF Process
<1>6. ASSUME NEW s \in TtySignals, Type(s) PROVE Invisible
  BY <1>6, ChildInvisible
<1>7. ASSUME UNCHANGED vars PROVE Invisible
  BY <1>7 DEF vars, mainVars, children, frames, phaseBar, launchingBar,
     Adding, bellBar, Alive, Invisible
<1> QED
  BY <1>1, <1>2, <1>3, <1>4, <1>5, <1>6, <1>7, InvisibleStutters
  DEF Next, R!RNext

\* The shell implements Reaper in every session.
THEOREM ShellImplementsReaper == Spec => ImplementsReaper
BY ReaperInit, ReaperStep, InvHolds, PTL DEF Spec, ImplementsReaper, R!RSpec

-----------------------------------------------------------------------------
(* Sessions without fg and bg: the order of the table's entries, and which *)
(* job is in the foreground.                                               *)

\* An entry in use, a free one, and the one addjob or clearjob is at.  What
\* its state is does not matter: sigtstp_handler may store "ST" in a free one.
Full(i)        == jobs[i].pid # 0 /\ jobs[i].jid = i + 1
Empty(i)       == jobs[i].pid = 0 /\ jobs[i].jid = 0
Entering       == mpc \in {"addState", "addJid"}
Clearing       == hpc["CHLD"] = "clear"
HalfAdded(i)   == Entering /\ i = mslot /\ jobs[i].pid = mpid /\ jobs[i].jid = 0
HalfCleared(i) == Clearing /\ i = hslot /\ jobs[i].pid = 0 /\ jobs[i].jid = i + 1

\* main is not in do_bgfg.
NoBuiltin == mpc \notin {"load", "cont", "store"}

\* The entries in use come first, and the last one is the one being changed.
InOrder ==
  /\ \A i \in Slots : Full(i) \/ Empty(i) \/ HalfAdded(i) \/ HalfCleared(i)
  /\ Entering => HalfAdded(mslot)
  /\ Clearing => /\ HalfCleared(hslot) /\ mslot = hslot
                 /\ mode = "FG" /\ mpc = "wait"
  /\ \A i, j \in Slots : i < j /\ ~Empty(j) => Full(i)

\* nextjid is the job ID of the first free entry, if there is one.
NextFree ==
  /\ \A i \in Slots : Empty(i) /\ (\A j \in Slots : j < i => Full(j))
                        => nextjid = i + 1
  /\ Entering => nextjid = mslot + 1

\* No pid is in two entries, and none that was not forked or that is still
\* to be added.
Known ==
  /\ mpc \in {"addPid", "addState", "addJid", "unblock", "wait"} => mpid # 0
  /\ \A i, j \in Slots : jobs[i].pid = jobs[j].pid /\ jobs[i].pid # 0 => i = j
  /\ \A i \in Slots : jobs[i].pid \in Pids => proc[jobs[i].pid] # "none"
  /\ mpc = "addPid" => \A i \in Slots : jobs[i].pid # mpid

\* The job eval has added, or waits for, is in slot mslot, the last in use.
LastSlot ==
  mpc \in {"addState", "addJid", "unblock", "wait"} =>
    \A i \in Slots : jobs[i].pid = mpid =>
      i = mslot /\ \A j \in Slots : i < j => Empty(j)

Tidy == NoBuiltin /\ InOrder /\ NextFree /\ Known /\ LastSlot

\* The steps of a session without built-ins that change the table, the place
\* of main or that of deletejob.
LEMMA TableSteps ==
  ASSUME Builtins = {}, TypeOK, NoBuiltin, [Next]_vars
  PROVE  \/ \E p \in Pids, m \in Launch : Fork(p, m)
         \/ \E m \in Launch : ForkFails(m)
         \/ AddPid \/ AddState \/ AddJid \/ Unblock \/ WaitReturns \/ Quit
         \/ ChldTerminated \/ ChldClear
         \/ /\ UNCHANGED <<nextjid, mainVars, hslot>>
            /\ Clearing' <=> Clearing
            /\ \E i : jobs' \in {jobs, SetState(jobs, i, "ST")}
<1>1. ~LoadPid /\ ~Continue /\ ~StoreState
  BY DEF NoBuiltin, LoadPid, Continue, StoreState, InMain
<1> DEFINE Still == /\ UNCHANGED <<nextjid, mainVars, hslot>>
                    /\ Clearing' <=> Clearing
                    /\ \E i : jobs' \in {jobs, SetState(jobs, i, "ST")}
<1> USE DEF Clearing
<1>2. ASSUME ChldStart \/ ChldWait \/ ChldStopped PROVE Still
  BY <1>2 DEF ChldStart, ChldWait, ChldStopped, In, Goto, TypeOK, Signals, table,
     hLocals
<1>3. ASSUME NEW s \in TtySignals, TtyStart(s) \/ TtyKill(s) PROVE Still
  BY <1>3 DEF TtyStart, TtyKill, In, Goto, TypeOK, Signals, TtySignals, table,
     hLocals
<1>4. ASSUME TstpJid \/ TstpStore PROVE Still
  BY <1>4 DEF TstpJid, TstpStore, In, Goto, TypeOK, Signals, table, hLocals
<1>5. ASSUME NEW s \in Signals, Return(s) PROVE Still
  <2>1. hpc[s] = "ret" /\ UNCHANGED <<table, mainVars, hslot>>
    BY <1>5 DEF Return, In
  <2>2. CASE hpc' = [hpc EXCEPT ![s] = "idle"]
    BY <2>1, <2>2 DEF TypeOK, Signals, table
  <2>3. ASSUME NEW t \in pending, hpc[t] = "idle" \/ t = s,
               hpc' = [hpc EXCEPT ![s] = "idle", ![t] = "start"]
        PROVE  Still
    BY <2>1, <2>3 DEF TypeOK, Signals, table
  <2> QED
    BY <1>5, <2>2, <2>3 DEF Return
<1>6. ASSUME NEW s \in Signals, Deliver(s) PROVE Still
  BY <1>6 DEF Deliver, Deliverable, TypeOK, Signals, table, hLocals
<1>7. ASSUME NEW p \in Pids, Process(p) PROVE Still
  BY <1>7 DEF Process, Setpgid, Execve, Exit, Killed, Stopped, Inherited, Raise,
     table, frames, hLocals
<1>8. ASSUME NEW s, Type(s) PROVE Still
  BY <1>8 DEF Type, table, frames, hLocals
<1>9. ASSUME UNCHANGED vars PROVE Still
  BY <1>9 DEF vars, table, frames, hLocals
<1> QED
  BY <1>1, <1>2, <1>3, <1>4, <1>5, <1>6, <1>7, <1>8, <1>9
  DEF Next, Handlers, Executing, Command

\* A process that was forked stays forked.
LEMMA ForkedStays ==
  ASSUME TypeOK, [Next]_vars
  PROVE  \A p \in Pids : proc[p] # "none" => proc'[p] # "none"
<1>1. ASSUME ChldWait \/ Continue
      PROVE  \A p \in Pids : proc[p] # "none" => proc'[p] # "none"
  BY <1>1 DEF ChldWait, Continue, SendCont, children, TypeOK
<1>2. ASSUME NEW p \in Pids, \/ \E m \in Launch : Fork(p, m)
                             \/ Setpgid(p) \/ Execve(p)
                             \/ Exit(p) \/ Killed(p) \/ Stopped(p)
      PROVE  \A q \in Pids : proc[q] # "none" => proc'[q] # "none"
  BY <1>2 DEF Fork, Setpgid, Execve, Exit, Killed, Stopped, Become, TypeOK
<1> QED
  BY <1>1, <1>2, ProcSteps

\* A step that changes no pid and no job ID, and nothing of main's.
LEMMA TidyStill ==
  ASSUME TypeOK, Tidy, [Next]_vars,
         UNCHANGED <<nextjid, mainVars, hslot>>, Clearing' <=> Clearing,
         \A i \in Slots : jobs'[i].pid = jobs[i].pid /\ jobs'[i].jid = jobs[i].jid
  PROVE  Tidy'
<1> USE DEF Tidy, mainVars
<1>1. UNCHANGED <<mpc, mode, mpid, mslot>> /\ mslot \in Slots /\ hslot \in Slots
  BY DEF TypeOK
<1>2. \A i \in Slots : /\ Full(i)' <=> Full(i)
                       /\ Empty(i)' <=> Empty(i)
                       /\ HalfAdded(i)' <=> HalfAdded(i)
                       /\ HalfCleared(i)' <=> HalfCleared(i)
  BY <1>1 DEF Full, Empty, HalfAdded, HalfCleared, Entering
<1>3. InOrder'
  BY <1>1, <1>2 DEF InOrder, Entering
<1>4. NextFree'
  BY <1>1, <1>2 DEF NextFree, Entering
<1>5. Known'
  BY <1>1, ForkedStays DEF Known
<1>6. LastSlot'
  BY <1>1, <1>2 DEF LastSlot
<1> QED
  BY <1>1, <1>3, <1>4, <1>5, <1>6 DEF NoBuiltin

\* When main runs no handler does, so that deletejob is not under way.
LEMMA MainRuns ==
  ASSUME Nested, cpu = "main"
  PROVE  hpc["CHLD"] = "idle" /\ ~Clearing
BY DEF Nested, Active, Signals, Clearing

\* fork: the child's pid is in no entry.
LEMMA TidyFork ==
  ASSUME TypeOK, Nested, Tidy, [Next]_vars,
         \/ \E p \in Pids, m \in Launch : Fork(p, m)
         \/ \E m \in Launch : ForkFails(m)
  PROVE  Tidy'
<1>1. PICK p \in Pids \cup {-1} :
        /\ mpid' = p /\ (p \in Pids => proc[p] = "none")
        /\ mpc = "prompt" /\ mpc' = "addPid"
        /\ cpu = "main" /\ UNCHANGED <<table, mslot, hslot, frames>>
  <2>1. ASSUME NEW p \in Pids, NEW m \in Launch, Fork(p, m)
        PROVE  /\ mpid' = p /\ proc[p] = "none" /\ mpc = "prompt" /\ mpc' = "addPid"
               /\ cpu = "main" /\ UNCHANGED <<table, mslot, hslot, frames>>
    BY <2>1 DEF Fork, InMain, hLocals
  <2>2. ASSUME NEW m \in Launch, ForkFails(m)
        PROVE  /\ mpid' = -1 /\ mpc = "prompt" /\ mpc' = "addPid"
               /\ cpu = "main" /\ UNCHANGED <<table, mslot, hslot, frames>>
    BY <2>2 DEF ForkFails, InMain, hLocals
  <2> QED
    BY <2>1, <2>2, PidsAssumption
<1>2. UNCHANGED <<jobs, nextjid>> /\ ~Clearing /\ ~Clearing'
  BY <1>1, MainRuns DEF table, frames, Clearing
<1>3. \A i \in Slots : jobs[i].pid # p
  BY <1>1, PidsAssumption DEF Tidy, Known, TypeOK, Job
<1>4. InOrder' /\ NextFree'
  BY <1>1, <1>2 DEF Tidy, InOrder, NextFree, Full, Empty, HalfAdded, HalfCleared,
     Entering
<1>5. Known'
  BY <1>1, <1>2, <1>3, ForkedStays, PidsAssumption DEF Tidy, Known
<1> QED
  BY <1>1, <1>4, <1>5 DEF Tidy, NoBuiltin, LastSlot

\* The first free slot follows the entries in use.
LEMMA FirstFree ==
  ASSUME TypeOK, Tidy, ~Clearing, ~Entering, WithPid(jobs, 0) # {}
  PROVE  LET f == First(WithPid(jobs, 0)) IN
         /\ f \in Slots /\ nextjid = f + 1
         /\ \A i \in Slots : /\ i < f => Full(i)
                             /\ i >= f => Empty(i)
<1> DEFINE f == First(WithPid(jobs, 0))
<1>1. WithPid(jobs, 0) \subseteq Slots
  BY DEF WithPid
<1>2. f \in WithPid(jobs, 0) /\ f \in Slots
  BY <1>1, FirstMatches
<1>3. \A i \in Slots : Full(i) \/ Empty(i)
  BY DEF Tidy, InOrder, HalfAdded, HalfCleared
<1>4. Empty(f)
  BY <1>2, <1>3 DEF WithPid, Full
<1>5. \A i \in Slots : i < f => Full(i)
  <2> SUFFICES ASSUME NEW i \in Slots, i < f, Empty(i) PROVE FALSE
    BY <1>3
  <2>1. \E k \in WithPid(jobs, 0) : \A j \in WithPid(jobs, 0) : k <= j
    BY <1>1, <1>2, LeastNatural, SlotsFacts
  <2>2. \A j \in WithPid(jobs, 0) : f <= j
    BY <2>1 DEF First
  <2>3. f <= i
    BY <2>2 DEF Empty, WithPid
  <2>4. i \in Int /\ f \in Int
    BY <1>2, SizeAssumption DEF Slots
  <2> QED
    BY <2>3, <2>4
<1>6. \A i \in Slots : i >= f => Empty(i)
  <2> SUFFICES ASSUME NEW i \in Slots, i >= f, ~Empty(i) PROVE FALSE
    OBVIOUS
  <2>1. i \in Int /\ f \in Int
    BY <1>2, SizeAssumption DEF Slots
  <2>2. f < i
    BY <1>4, <2>1
  <2>3. Full(f)
    BY <1>2, <2>2 DEF Tidy, InOrder
  <2> QED
    BY <1>4, <2>3 DEF Full, Empty
<1>7. nextjid = f + 1
  BY <1>2, <1>4, <1>5 DEF Tidy, NextFree
<1> QED
  BY <1>2, <1>5, <1>6, <1>7

\* addjob takes the first free slot: the entries in use still come first.
LEMMA TidyAddPid ==
  ASSUME TypeOK, Nested, Tidy, [Next]_vars, AddPid, Launched
  PROVE  Tidy'
<1>0. PICK f : f = First(WithPid(jobs, 0))
  OBVIOUS
<1>1. /\ mpc = "addPid" /\ ~Clearing /\ ~Clearing' /\ ~Entering
      /\ UNCHANGED <<nextjid, mode, mpid, hslot>>
  BY MainRuns DEF AddPid, InMain, hLocals, frames, Clearing, Entering
<1>2. CASE mpid = -1 \/ WithPid(jobs, 0) = {}
  <2>1. mpc' = "unblock" /\ UNCHANGED <<jobs, mslot>>
    BY <1>2 DEF AddPid
  <2>2. \A i \in Slots : jobs[i].pid # mpid
    BY <1>1 DEF Tidy, Known
  <2>3. InOrder' /\ NextFree'
    BY <1>1, <2>1 DEF Tidy, InOrder, NextFree, Full, Empty, HalfAdded,
       HalfCleared, Entering
  <2>4. Known'
    BY <1>1, <2>1, ForkedStays DEF Tidy, Known
  <2> QED
    BY <1>1, <2>1, <2>2, <2>3, <2>4 DEF Tidy, NoBuiltin, LastSlot
<1>3. CASE ~(mpid = -1 \/ WithPid(jobs, 0) = {})
  <2>1. /\ mpc' = "addState" /\ mslot' = f
        /\ jobs' = [jobs EXCEPT ![f].pid = mpid]
    BY <1>0, <1>3 DEF AddPid
  <2>2. /\ f \in Slots /\ nextjid = f + 1
        /\ \A i \in Slots : (i < f => Full(i)) /\ (i >= f => Empty(i))
    BY <1>0, <1>1, <1>3, FirstFree
  <2>3. /\ f \in Nat /\ Slots \subseteq Nat /\ Empty(f)
    BY <2>2 DEF Slots
  <2>4. mpid \in Pids /\ mpid # 0 /\ \A i \in Slots : jobs[i].pid # mpid
    BY <1>1, <1>3 DEF Tidy, Known, TypeOK
  <2>5. /\ jobs'[f].pid = mpid /\ jobs'[f].jid = 0
        /\ \A i \in Slots \ {f} : jobs'[i] = jobs[i]
    BY <2>1, <2>2, <2>3 DEF TypeOK, Job, Empty
  <2>6. /\ \A i \in Slots : i < f => Full(i)'
        /\ \A i \in Slots : i > f => Empty(i)'
        /\ HalfAdded(f)' /\ ~Empty(f)' /\ ~Full(f)'
    BY <1>1, <2>1, <2>2, <2>3, <2>4, <2>5 DEF Full, Empty, HalfAdded, Entering
  <2>7. InOrder'
    <3>1. \A i \in Slots : i < f \/ i > f \/ i = f
      BY <2>3
    <3>2. \A i \in Slots : Full(i)' \/ Empty(i)' \/ HalfAdded(i)'
      BY <2>6, <3>1
    <3>3. ASSUME NEW i \in Slots, NEW j \in Slots, i < j, ~Empty(j)' PROVE Full(i)'
      BY <2>2, <2>3, <2>6, <3>1, <3>3
    <3> QED
      BY <1>1, <2>1, <2>6, <3>2, <3>3 DEF InOrder
  <2>8. NextFree'
    <3>1. ASSUME NEW i \in Slots, Empty(i)', \A j \in Slots : j < i => Full(j)'
          PROVE  FALSE
      BY <2>2, <2>3, <2>4, <2>6, <3>1 DEF Empty, Full
    <3> QED
      BY <1>1, <2>1, <2>2, <3>1 DEF NextFree
  <2>9. Known'
    <3>1. proc'[mpid] # "none"
      BY <1>1, <2>4, ForkedStays DEF Launched, Adding
    <3>2. \A i, j \in Slots :
            jobs'[i].pid = jobs'[j].pid /\ jobs'[i].pid # 0 => i = j
      BY <2>4, <2>5 DEF Tidy, Known
    <3>3. \A i \in Slots : jobs'[i].pid \in Pids => proc'[jobs'[i].pid] # "none"
      BY <2>5, <3>1, ForkedStays DEF Tidy, Known
    <3> QED
      BY <1>1, <2>1, <2>4, <3>2, <3>3 DEF Known
  <2>10. LastSlot'
    BY <1>1, <2>1, <2>4, <2>5, <2>6 DEF LastSlot
  <2> QED
    BY <2>1, <2>7, <2>8, <2>9, <2>10 DEF Tidy, NoBuiltin
<1> QED
  BY <1>2, <1>3

LEMMA TidyAddState ==
  ASSUME TypeOK, Nested, Tidy, [Next]_vars, AddState
  PROVE  Tidy'
<1>1. /\ mpc = "addState" /\ mpc' = "addJid" /\ ~Clearing /\ ~Clearing'
      /\ UNCHANGED <<nextjid, mode, mpid, mslot, hslot>>
      /\ \A i \in Slots : jobs'[i].pid = jobs[i].pid /\ jobs'[i].jid = jobs[i].jid
  BY MainRuns DEF AddState, InMain, hLocals, frames, Clearing, TypeOK, Job
<1>2. \A i \in Slots : /\ Full(i)' <=> Full(i)
                       /\ Empty(i)' <=> Empty(i)
                       /\ HalfAdded(i)' <=> HalfAdded(i)
  BY <1>1 DEF Full, Empty, HalfAdded, Entering
<1>3. InOrder' /\ NextFree'
  BY <1>1, <1>2 DEF TypeOK, Tidy, InOrder, NextFree, HalfCleared, Entering
<1>4. Known'
  BY <1>1, ForkedStays DEF Tidy, Known
<1> QED
  BY <1>1, <1>2, <1>3, <1>4 DEF Tidy, NoBuiltin, LastSlot

\* The job ID of slot i is i + 1, and so is that of the next free slot.
LEMMA TidyAddJid ==
  ASSUME TypeOK, Nested, Tidy, [Next]_vars, AddJid
  PROVE  Tidy'
<1>1. /\ mpc = "addJid" /\ mpc' = "unblock" /\ ~Clearing /\ ~Clearing'
      /\ UNCHANGED <<mode, mpid, mslot, hslot>>
      /\ jobs' = [jobs EXCEPT ![mslot].jid = nextjid]
      /\ nextjid' = IF nextjid + 1 > MaxJobs THEN 1 ELSE nextjid + 1
  BY MainRuns DEF AddJid, InMain, hLocals, frames, Clearing
<1>2. /\ mslot \in Slots /\ nextjid = mslot + 1 /\ HalfAdded(mslot)
      /\ mslot \in Int /\ Slots \subseteq Int
  BY <1>1 DEF Tidy, InOrder, NextFree, Entering, TypeOK, Slots
<1>3. /\ jobs'[mslot].pid = jobs[mslot].pid /\ jobs'[mslot].jid = mslot + 1
      /\ \A i \in Slots \ {mslot} : jobs'[i] = jobs[i]
  BY <1>1, <1>2 DEF TypeOK, Job
<1>4. mpid # 0 /\ jobs[mslot].pid = mpid
  BY <1>1, <1>2 DEF Tidy, Known, HalfAdded
<1>5. /\ \A i \in Slots : i < mslot => Full(i)
      /\ \A i \in Slots : mslot < i => Empty(i)
  BY <1>1, <1>2, <1>4 DEF Tidy, InOrder, LastSlot, Empty
<1>6. /\ \A i \in Slots : i <= mslot => Full(i)'
      /\ \A i \in Slots : mslot < i => Empty(i)'
  BY <1>2, <1>3, <1>4, <1>5 DEF Full, Empty
<1>7. \A i \in Slots : i <= mslot \/ mslot < i
  BY <1>2
<1>8. InOrder'
  <2>1. ASSUME NEW i \in Slots, NEW j \in Slots, i < j, ~Empty(j)' PROVE Full(i)'
    BY <1>2, <1>6, <1>7, <2>1
  <2> QED
    BY <1>1, <1>6, <1>7, <2>1 DEF InOrder, Entering
<1>9. NextFree'
  <2>1. ASSUME NEW i \in Slots, Empty(i)', \A j \in Slots : j < i => Full(j)'
        PROVE  nextjid' = i + 1
    <3>1. mslot < i
      BY <1>6, <1>7, <2>1 DEF Full, Empty
    <3>2. i = mslot + 1
      <4> SUFFICES ASSUME i # mslot + 1 PROVE FALSE
        OBVIOUS
      <4>1. mslot + 1 \in Slots /\ mslot + 1 < i
        BY <1>2, <3>1, SizeAssumption DEF Slots
      <4>2. PICK k \in Slots : k = mslot + 1
        BY <4>1
      <4>3. Full(k)' /\ Empty(k)'
        BY <1>2, <1>6, <2>1, <4>1, <4>2
      <4> QED
        BY <4>3 DEF Full, Empty
    <3>3. mslot + 2 <= MaxJobs
      BY <1>2, <3>2, SizeAssumption DEF Slots
    <3> QED
      BY <1>1, <1>2, <3>2, <3>3, SizeAssumption
  <2> QED
    BY <1>1, <2>1 DEF NextFree, Entering
<1>10. Known'
  BY <1>1, <1>3, ForkedStays DEF Tidy, Known
<1>11. LastSlot'
  BY <1>1, <1>3, <1>6 DEF Tidy, LastSlot
<1> QED
  BY <1>1, <1>8, <1>9, <1>10, <1>11 DEF Tidy, NoBuiltin

\* The end of addjob, of waitfg and of the shell leave the table alone.
LEMMA TidyMain ==
  ASSUME TypeOK, Nested, Tidy, [Next]_vars, Unblock \/ WaitReturns \/ Quit
  PROVE  Tidy'
<1>1. /\ ~Clearing /\ ~Entering /\ ~Entering' /\ UNCHANGED <<jobs, nextjid>>
      /\ \/ mpc = "unblock" /\ mpc' = "wait" /\ UNCHANGED <<mpid, mslot>>
         \/ mpc' \in {"prompt", "exit"}
  BY MainRuns DEF Unblock, WaitReturns, Quit, InMain, ToPrompt, table, Entering
<1>2. ~Clearing'
  BY <1>1 DEF Unblock, WaitReturns, Quit, frames, Clearing, TypeOK, Signals
<1>3. \A i \in Slots : (Full(i)' <=> Full(i)) /\ (Empty(i)' <=> Empty(i))
  BY <1>1 DEF Full, Empty
<1>4. InOrder' /\ NextFree'
  BY <1>1, <1>2, <1>3 DEF Tidy, InOrder, NextFree, HalfAdded, HalfCleared
<1>5. Known' /\ LastSlot'
  BY <1>1, <1>3, ForkedStays DEF Tidy, Known, LastSlot
<1> QED
  BY <1>1, <1>4, <1>5 DEF Tidy, NoBuiltin

\* deletejob begins: it has found the job that main waits for, in the last
\* slot in use, or nothing.
LEMMA TidyTerminated ==
  ASSUME TypeOK, Nested, Tidy, [Next]_vars, ChldTerminated,
         hfg["CHLD"] # 0 => hfg["CHLD"] = mpid /\ mode = "FG" /\ mpc = "wait"
  PROVE  Tidy'
<1>0. PICK S : S = WithPid(jobs, hfg["CHLD"])
  OBVIOUS
<1>1. /\ hpc["CHLD"] = "terminated" /\ ~Clearing
      /\ UNCHANGED <<nextjid, mainVars, mpc, mode, mpid, mslot>>
  BY DEF ChldTerminated, In, Clearing, mainVars
<1>2. CASE hfg["CHLD"] = 0 \/ S = {}
  <2>1. UNCHANGED <<jobs, hslot>> /\ ~Clearing'
    BY <1>0, <1>2 DEF ChldTerminated, Goto, Clearing, TypeOK, Signals
  <2> QED
    BY <1>1, <2>1, TidyStill
<1>3. CASE hfg["CHLD"] # 0 /\ S # {}
  <2>1. /\ mpc = "wait" /\ mode = "FG" /\ hfg["CHLD"] = mpid /\ mpid # 0
    BY <1>3
  <2>2. First(S) \in S /\ S \subseteq Slots
    BY <1>0, <1>3, FirstMatches DEF WithPid
  <2>3. /\ First(S) = mslot /\ jobs[mslot].pid = mpid
        /\ \A j \in Slots : mslot < j => Empty(j)
    BY <1>0, <2>1, <2>2 DEF WithPid, Tidy, LastSlot
  <2>4. /\ mslot \in Nat /\ mslot \in Slots /\ Slots \subseteq Nat
    BY DEF TypeOK, Slots
  <2>5. /\ jobs' = [jobs EXCEPT ![mslot].pid = 0] /\ hslot' = mslot /\ Clearing'
    BY <1>0, <1>3, <2>3 DEF ChldTerminated, Goto, Clearing, TypeOK, Signals
  <2>6. /\ jobs'[mslot].pid = 0 /\ jobs'[mslot].jid = jobs[mslot].jid
        /\ \A i \in Slots \ {mslot} : jobs'[i] = jobs[i]
    BY <2>4, <2>5 DEF TypeOK, Job
  <2>7. /\ ~Entering /\ ~Entering'
    BY <1>1, <2>1 DEF Entering
  <2>8. /\ Full(mslot) /\ \A i \in Slots : i < mslot => Full(i)
    BY <1>1, <2>1, <2>3, <2>4, <2>7 DEF Tidy, InOrder, HalfAdded, HalfCleared, Empty
  <2>9. /\ \A i \in Slots : i < mslot => Full(i)'
        /\ \A i \in Slots : mslot < i => Empty(i)'
        /\ HalfCleared(mslot)' /\ ~Full(mslot)' /\ ~Empty(mslot)'
    BY <1>1, <2>3, <2>4, <2>5, <2>6, <2>8 DEF Full, Empty, HalfCleared
  <2>10. \A i \in Slots : i < mslot \/ mslot < i \/ i = mslot
    BY <2>4
  <2>11. InOrder'
    <3>1. ASSUME NEW i \in Slots, NEW j \in Slots, i < j, ~Empty(j)' PROVE Full(i)'
      BY <1>1, <2>4, <2>9, <2>10, <3>1
    <3>2. \A i \in Slots : Full(i)' \/ Empty(i)' \/ HalfCleared(i)'
      BY <1>1, <2>9, <2>10
    <3> QED
      BY <1>1, <2>1, <2>5, <2>7, <2>9, <3>1, <3>2 DEF InOrder
  <2>12. NextFree'
    <3>1. ASSUME NEW i \in Slots, Empty(i)', \A j \in Slots : j < i => Full(j)'
          PROVE  FALSE
      BY <1>1, <2>4, <2>9, <2>10, <3>1 DEF Empty, Full
    <3> QED
      BY <2>7, <3>1 DEF NextFree
  <2>13. Known'
    BY <1>1, <2>1, <2>6, ForkedStays, PidsAssumption DEF Tidy, Known
  <2>14. LastSlot'
    BY <1>1, <2>1, <2>6, <2>9 DEF Tidy, LastSlot
  <2> QED
    BY <1>1, <2>11, <2>12, <2>13, <2>14 DEF Tidy, NoBuiltin
<1> QED
  BY <1>2, <1>3

\* maxjid returns the greatest job ID.
LEMMA MaxjidIs ==
  ASSUME NEW t \in Table, NEW m \in Nat,
         \E i \in Slots : t[i].jid = m, \A i \in Slots : t[i].jid <= m
  PROVE  maxjid(t) = m
<1> DEFINE P(x) == \A i \in Slots : t[i].jid <= x
           J    == {t[i].jid : i \in Slots}
<1>1. m \in J /\ P(m)
  OBVIOUS
<1>2. maxjid(t) \in J /\ P(maxjid(t))
  BY <1>1 DEF maxjid
<1>3. J \subseteq Nat
  BY DEF Table, Job
<1>4. maxjid(t) <= m /\ m <= maxjid(t) /\ maxjid(t) \in Nat
  BY <1>1, <1>2, <1>3
<1> QED
  BY <1>4

\* The rest of deletejob: the slot that was emptied is the next to be used.
LEMMA TidyClear ==
  ASSUME TypeOK, Nested, Tidy, [Next]_vars, ChldClear
  PROVE  Tidy'
<1>1. /\ Clearing /\ ~Clearing' /\ UNCHANGED <<mpc, mode, mpid, mslot>>
      /\ jobs' = [jobs EXCEPT ![hslot] = NoJob]
      /\ nextjid' = maxjid(jobs') + 1
  BY DEF ChldClear, In, Goto, Clearing, mainVars, TypeOK, Signals
<1>2. /\ HalfCleared(hslot) /\ mpc = "wait" /\ ~Entering /\ ~Entering'
      /\ hslot \in Slots /\ hslot \in Nat /\ Slots \subseteq Nat
  BY <1>1 DEF Tidy, InOrder, TypeOK, Entering, Slots
<1>3. /\ jobs'[hslot].pid = 0 /\ jobs'[hslot].jid = 0
      /\ \A i \in Slots \ {hslot} : jobs'[i] = jobs[i]
  BY <1>1, <1>2 DEF TypeOK, NoJob
<1>4. ~Empty(hslot) /\ ~Full(hslot)
  BY <1>2 DEF HalfCleared, Empty, Full
<1>5. /\ \A i \in Slots : i < hslot => Full(i)
      /\ \A i \in Slots : hslot < i => Empty(i)
  BY <1>2, <1>4 DEF Tidy, InOrder
<1>6. /\ \A i \in Slots : i < hslot => Full(i)'
      /\ \A i \in Slots : hslot <= i => Empty(i)'
  <2>1. ASSUME NEW i \in Slots, i < hslot PROVE Full(i)'
    BY <1>2, <1>3, <1>5, <2>1 DEF Full
  <2>2. ASSUME NEW i \in Slots, hslot < i PROVE Empty(i)'
    BY <1>2, <1>3, <1>5, <2>2 DEF Empty
  <2>3. \A i \in Slots : hslot <= i => hslot < i \/ i = hslot
    BY <1>2
  <2>4. ASSUME NEW i \in Slots, i = hslot PROVE Empty(i)'
    BY <1>3, <2>4 DEF Empty
  <2> QED
    BY <2>1, <2>2, <2>3, <2>4
<1>7. \A i \in Slots : i < hslot \/ hslot <= i
  BY <1>2
<1>8. InOrder'
  <2>1. ASSUME NEW i \in Slots, NEW j \in Slots, i < j, ~Empty(j)' PROVE Full(i)'
    BY <1>2, <1>6, <1>7, <2>1
  <2> QED
    BY <1>1, <1>2, <1>6, <1>7, <2>1 DEF InOrder
<1>9. nextjid' = hslot + 1
  <2>1. jobs' \in Table
    BY <1>1, NoJobType DEF TypeOK, Table
  <2>2. \A i \in Slots : jobs'[i].jid <= hslot
    BY <1>2, <1>6, <1>7 DEF Full, Empty
  <2>3. \E i \in Slots : jobs'[i].jid = hslot
    <3>1. CASE hslot = 0
      BY <1>2, <1>3, <3>1
    <3>2. CASE hslot # 0
      <4>1. hslot - 1 \in Slots /\ hslot - 1 < hslot
        BY <1>2, <3>2, SizeAssumption DEF Slots
      <4>2. PICK k \in Slots : k = hslot - 1
        BY <4>1
      <4>3. Full(k)'
        BY <1>2, <1>6, <4>1, <4>2
      <4> QED
        BY <1>2, <4>2, <4>3 DEF Full
    <3> QED
      BY <3>1, <3>2
  <2> QED
    BY <1>1, <1>2, <2>1, <2>2, <2>3, MaxjidIs
<1>10. NextFree'
  <2>1. ASSUME NEW i \in Slots, Empty(i)', \A j \in Slots : j < i => Full(j)'
        PROVE  i = hslot
    BY <1>2, <1>6, <1>7, <2>1 DEF Full, Empty
  <2> QED
    BY <1>2, <1>9, <2>1 DEF NextFree
<1>11. Known'
  BY <1>1, <1>2, <1>3, ForkedStays, PidsAssumption DEF Tidy, Known
<1>12. LastSlot'
  <2>1. \A i \in Slots : jobs'[i].pid # mpid
    BY <1>1, <1>2, <1>3 DEF Tidy, Known, LastSlot, InOrder
  <2> QED
    BY <1>1, <2>1 DEF LastSlot
<1> QED
  BY <1>1, <1>8, <1>10, <1>11, <1>12 DEF Tidy, NoBuiltin

\* Storing "ST" changes no pid and no job ID and brings no job to the
\* foreground.
LEMMA StopStored ==
  ASSUME TypeOK, NEW k, jobs' \in {jobs, SetState(jobs, k, "ST")}
  PROVE  \A i \in Slots : /\ jobs'[i].pid = jobs[i].pid
                          /\ jobs'[i].jid = jobs[i].jid
                          /\ jobs'[i].state = "FG" => jobs[i].state = "FG"
<1>1. CASE jobs' = [jobs EXCEPT ![k].state = "ST"] /\ k \in Slots
  BY <1>1 DEF TypeOK, Job
<1>2. CASE jobs' = jobs
  BY <1>2
<1> QED
  BY <1>1, <1>2 DEF SetState

\* A handler that found a foreground job found the one main waits for.
HandlersKnow ==
  \A s \in Signals : hfg[s] # 0 =>
    Active(s) /\ hfg[s] = mpid /\ mode = "FG" /\ mpc \in {"addJid", "unblock", "wait"}

\* While the job is in the foreground, its death is not overlooked: the
\* handler of SIGCHLD has read its pid and, once it has reaped the job, is
\* about to delete it.
DeathDeletes ==
  \A i \in Slots : jobs[i].state = "FG" /\ jobs[i].pid = mpid =>
    /\ hpc["CHLD"] \notin {"idle", "start"} => hfg["CHLD"] = mpid
    /\ proc[mpid] = "gone" => hpc["CHLD"] = "terminated"

LEMMA TidyStep ==
  ASSUME Builtins = {}, Inv, Tidy, HandlersKnow, [Next]_vars
  PROVE  Tidy'
<1> USE DEF Inv
<1>1. ChldTerminated => (hfg["CHLD"] # 0 =>
                           hfg["CHLD"] = mpid /\ mode = "FG" /\ mpc = "wait")
  BY DEF HandlersKnow, Masked, Signals
<1>2. ASSUME NEW k, UNCHANGED <<nextjid, mainVars, hslot>>, Clearing' <=> Clearing,
             jobs' \in {jobs, SetState(jobs, k, "ST")}
      PROVE  Tidy'
  BY <1>2, StopStored, TidyStill
<1> QED
  BY <1>1, <1>2, TableSteps, TidyFork, TidyAddPid, TidyAddState, TidyAddJid,
     TidyMain, TidyTerminated, TidyClear DEF Tidy

\* fgpid returns the pid of the job main waits for, if a job is in the
\* foreground and deletejob is not removing it.
LEMMA FgpidWaited ==
  ASSUME TypeOK, Tidy, ForegroundMeansWaiting
  PROVE  /\ fgpid(jobs) # 0 => /\ fgpid(jobs) = mpid /\ mode = "FG"
                               /\ mpc \in {"addJid", "unblock", "wait"}
         /\ \A i \in Slots : jobs[i].state = "FG" /\ jobs[i].pid = mpid
                               => fgpid(jobs) = mpid
<1> DEFINE S == WithState(jobs, "FG")
<1>1. \A i \in S : i \in Slots /\ i = mslot /\ mode = "FG"
                   /\ mpc \in {"addJid", "unblock", "wait"}
                   /\ (jobs[i].pid = mpid \/ jobs[i].pid = 0)
  BY DEF WithState, ForegroundMeansWaiting, Tidy, InOrder, HalfCleared, Clearing
<1>2. S # {} => First(S) \in S
  BY FirstMatches DEF WithState
<1>3. fgpid(jobs) = IF S = {} THEN 0 ELSE jobs[First(S)].pid
  BY DEF fgpid
<1>4. fgpid(jobs) # 0 => /\ fgpid(jobs) = mpid /\ mode = "FG"
                         /\ mpc \in {"addJid", "unblock", "wait"}
  BY <1>1, <1>2, <1>3
<1>5. ASSUME NEW i \in Slots, jobs[i].state = "FG", jobs[i].pid = mpid
      PROVE  fgpid(jobs) = mpid
  <2>1. i \in S /\ First(S) = i
    BY <1>1, <1>2, <1>5 DEF WithState
  <2> QED
    BY <1>3, <1>5, <2>1
<1> QED
  BY <1>4, <1>5

\* A job is in the foreground only while eval adds it or waits for it.
LEMMA ForegroundStep ==
  ASSUME Builtins = {}, Inv, Tidy, HandlersKnow, ForegroundMeansWaiting, [Next]_vars
  PROVE  ForegroundMeansWaiting'
<1> USE DEF Inv
<1>1. ASSUME mpc \notin {"addJid", "unblock", "wait"}, \A i \in Slots :
               jobs'[i].state = "FG" => jobs[i].state = "FG"
      PROVE  ForegroundMeansWaiting'
  BY <1>1 DEF ForegroundMeansWaiting
<1>2. CASE \/ \E p \in Pids, m \in Launch : Fork(p, m)
           \/ \E m \in Launch : ForkFails(m)
           \/ Quit
  BY <1>1, <1>2 DEF Fork, ForkFails, Quit, InMain, table
<1>3. CASE AddPid
  <2>1. WithPid(jobs, 0) \subseteq Slots
    BY DEF WithPid
  <2>2. \A i \in Slots : jobs'[i].state = "FG" => jobs[i].state = "FG"
    <3>1. CASE UNCHANGED jobs
      BY <3>1
    <3>2. CASE /\ jobs' = [jobs EXCEPT ![First(WithPid(jobs, 0))].pid = mpid]
               /\ WithPid(jobs, 0) # {}
      BY <2>1, <3>2, FirstMatches DEF TypeOK, Job
    <3> QED
      BY <1>3, <3>1, <3>2 DEF AddPid
  <2> QED
    BY <1>1, <1>3, <2>2 DEF AddPid, InMain
<1>4. CASE AddState
  <2>1. /\ mpc = "addState" /\ mpc' = "addJid" /\ UNCHANGED <<mode, mpid, mslot>>
        /\ jobs' = [jobs EXCEPT ![mslot].state = mode]
    BY <1>4 DEF AddState, InMain
  <2>2. /\ jobs'[mslot].state = mode /\ jobs'[mslot].pid = mpid
        /\ \A i \in Slots \ {mslot} : jobs'[i].state = jobs[i].state
    BY <2>1 DEF TypeOK, Job, Tidy, InOrder, Entering, HalfAdded
  <2> QED
    BY <2>1, <2>2 DEF ForegroundMeansWaiting
<1>5. CASE AddJid
  <2>1. \A i \in Slots : /\ jobs'[i].state = jobs[i].state
                         /\ jobs'[i].pid = jobs[i].pid
    BY <1>5 DEF AddJid, TypeOK, Job
  <2> QED
    BY <1>5, <2>1 DEF AddJid, frames, ForegroundMeansWaiting
<1>6. CASE Unblock
  <2>1. hpc["CHLD"] = "idle" /\ UNCHANGED jobs
    BY <1>6, MainRuns DEF Unblock, InMain, table
  <2> QED
    BY <1>6, <2>1 DEF Unblock, ForegroundMeansWaiting
<1>7. CASE WaitReturns
  <2>1. hpc["CHLD"] = "idle" /\ UNCHANGED jobs /\ mpid # fgpid(jobs)
    BY <1>7, MainRuns DEF WaitReturns, InMain, table
  <2>2. \A i \in Slots : jobs[i].state # "FG"
    BY <2>1, FgpidWaited DEF ForegroundMeansWaiting
  <2> QED
    BY <2>1, <2>2 DEF ForegroundMeansWaiting
<1>8. CASE ChldTerminated
  <2>1. /\ UNCHANGED <<mode, mpc, mpid, mslot>>
        /\ WithPid(jobs, hfg["CHLD"]) \subseteq Slots
    BY <1>8 DEF ChldTerminated, mainVars, WithPid
  <2>2. ASSUME jobs' = [jobs EXCEPT ![First(WithPid(jobs, hfg["CHLD"]))].pid = 0],
               WithPid(jobs, hfg["CHLD"]) # {}, Goto("CHLD", "clear")
        PROVE  ForegroundMeansWaiting'
    <3>1. \A i \in Slots : jobs'[i].state = jobs[i].state
      BY <2>1, <2>2, FirstMatches DEF TypeOK, Job
    <3>2. hpc'["CHLD"] = "clear"
      BY <2>2 DEF Goto, TypeOK, Signals
    <3> QED
      BY <2>1, <3>1, <3>2 DEF ForegroundMeansWaiting
  <2>3. ASSUME UNCHANGED jobs PROVE ForegroundMeansWaiting'
    <3>1. hpc["CHLD"] # "clear"
      BY <1>8 DEF ChldTerminated, In
    <3> QED
      BY <2>1, <2>3, <3>1 DEF ForegroundMeansWaiting
  <2> QED
    BY <1>8, <2>2, <2>3 DEF ChldTerminated
<1>9. CASE ChldClear
  <2>1. /\ Clearing /\ hslot = mslot /\ jobs' = [jobs EXCEPT ![hslot] = NoJob]
    BY <1>9 DEF ChldClear, In, Clearing, Tidy, InOrder
  <2>2. \A i \in Slots : jobs'[i].state # "FG"
    BY <2>1 DEF TypeOK, NoJob, ForegroundMeansWaiting
  <2> QED
    BY <2>2 DEF ForegroundMeansWaiting
<1>10. ASSUME NEW k, UNCHANGED mainVars, Clearing' <=> Clearing,
              jobs' \in {jobs, SetState(jobs, k, "ST")}
       PROVE  ForegroundMeansWaiting'
  BY <1>10, StopStored DEF ForegroundMeansWaiting, mainVars, Clearing
<1> QED
  BY <1>2, <1>3, <1>4, <1>5, <1>6, <1>7, <1>8, <1>9, <1>10, TableSteps DEF Tidy

\* The steps that change what a handler read, or end a handler.
LEMMA HandlersKnowStep ==
  ASSUME Builtins = {}, Inv, Tidy, HandlersKnow, ForegroundMeansWaiting, [Next]_vars
  PROVE  HandlersKnow'
<1> USE DEF Inv
<1>1. CASE UNCHANGED <<mainVars, hfg>> /\ \A s \in Signals : Active(s) => Active(s)'
  BY <1>1 DEF HandlersKnow, mainVars
<1>2. CASE cpu = "main" /\ UNCHANGED hfg
  <2>1. \A s \in Signals : hfg[s] = 0
    BY <1>2 DEF HandlersKnow, Nested
  <2> QED
    BY <1>2, <2>1 DEF HandlersKnow
<1>3. ASSUME NEW s \in Signals, hfg' = [hfg EXCEPT ![s] = fgpid(jobs)],
             In(s, "start"), \E l \in {"wait", "kill"} : Goto(s, l), UNCHANGED mainVars
      PROVE  HandlersKnow'
  <2>1. /\ Active(s) /\ Active(s)' /\ hfg'[s] = fgpid(jobs)
        /\ \A r \in Signals \ {s} : hfg'[r] = hfg[r] /\ (Active(r) <=> Active(r)')
    BY <1>3 DEF In, Goto, Active, TypeOK
  <2> QED
    BY <1>3, <2>1, FgpidWaited DEF HandlersKnow, mainVars
<1>4. ASSUME NEW s \in Signals, Return(s) PROVE HandlersKnow'
  <2>1. /\ UNCHANGED mainVars /\ hfg' = [hfg EXCEPT ![s] = 0]
        /\ \A r \in Signals \ {s} : Active(r) => Active(r)'
    <3>1. CASE hpc' = [hpc EXCEPT ![s] = "idle"]
      BY <1>4, <3>1 DEF Return, TypeOK, Active
    <3>2. ASSUME NEW t \in pending, hpc' = [hpc EXCEPT ![s] = "idle", ![t] = "start"]
          PROVE  \A r \in Signals \ {s} : Active(r) => Active(r)'
      BY <3>2 DEF TypeOK, Active
    <3> QED
      BY <1>4, <3>1, <3>2 DEF Return
  <2>2. hfg'[s] = 0 /\ \A r \in Signals \ {s} : hfg'[r] = hfg[r]
    BY <2>1 DEF TypeOK
  <2> QED
    BY <2>1, <2>2 DEF HandlersKnow, mainVars
<1>5. ASSUME ChldStart PROVE HandlersKnow'
  BY <1>3, <1>5 DEF ChldStart, Signals
<1>6. ASSUME NEW s \in TtySignals, TtyStart(s) PROVE HandlersKnow'
  BY <1>3, <1>6 DEF TtyStart, Signals, TtySignals
<1>7. ASSUME NEW s \in TtySignals, TtyKill(s) PROVE HandlersKnow'
  BY <1>1, <1>7 DEF TtyKill, hLocals, Goto, Active, In, TypeOK, Signals, TtySignals
<1>8. ASSUME ChldWait \/ ChldStopped \/ ChldTerminated \/ ChldClear \/ TstpJid \/ TstpStore
      PROVE  HandlersKnow'
  BY <1>1, <1>8 DEF ChldWait, ChldStopped, ChldTerminated, ChldClear, TstpJid,
     TstpStore, hLocals, Goto, Active, In, TypeOK, Signals
<1>9. ASSUME NEW s \in Signals, Deliver(s) PROVE HandlersKnow'
  BY <1>1, <1>9 DEF Deliver, hLocals, Active, TypeOK
<1>10. ASSUME Command \/ Executing PROVE cpu = "main" /\ UNCHANGED hfg
  BY <1>10 DEF Command, Executing, Fork, ForkFails, LookupJid, LookupPid, Quit,
     AddPid, AddState, AddJid, Unblock, WaitReturns, LoadPid, Continue,
     StoreState, InMain, hLocals
<1>11. ASSUME NEW p \in Pids, Process(p) PROVE HandlersKnow'
  BY <1>1, <1>11 DEF Process, Setpgid, Execve, Exit, Killed, Stopped, Inherited,
     Raise, hLocals, frames, Active
<1>12. ASSUME NEW s, Type(s) PROVE HandlersKnow'
  BY <1>1, <1>12 DEF Type, hLocals, frames, Active
<1>13. ASSUME UNCHANGED vars PROVE HandlersKnow'
  BY <1>1, <1>13 DEF vars, hLocals, frames, Active
<1> QED
  BY <1>2, <1>4, <1>5, <1>6, <1>7, <1>8, <1>9, <1>10, <1>11, <1>12, <1>13
  DEF Next, Handlers

\* waitpid alone takes a process away.
LEMMA GoneSteps ==
  ASSUME TypeOK, [Next]_vars, NEW p \in Pids, proc'[p] = "gone", proc[p] # "gone"
  PROVE  ChldWait /\ hpc'["CHLD"] = "terminated"
<1>1. ~Continue
  BY DEF Continue, SendCont, children, TypeOK
<1>2. ASSUME NEW q \in Pids, \/ \E m \in Launch : Fork(q, m)
                             \/ Setpgid(q) \/ Execve(q)
                             \/ Exit(q) \/ Killed(q) \/ Stopped(q)
      PROVE  FALSE
  BY <1>2 DEF Fork, Setpgid, Execve, Exit, Killed, Stopped, Become, TypeOK
<1>3. ChldWait
  BY <1>1, <1>2, ProcSteps
<1>4. hpc'["CHLD"] = "terminated"
  BY <1>3 DEF ChldWait, Goto, TypeOK, Signals
<1> QED
  BY <1>3, <1>4

\* The steps that change where the handler of SIGCHLD is, or what it read.
LEMMA ChldReadSteps ==
  ASSUME TypeOK, Nested, [Next]_vars
  PROVE  \/ UNCHANGED <<hpc["CHLD"], hfg["CHLD"]>>
         \/ ChldStart \/ ChldWait \/ ChldStopped \/ ChldTerminated \/ ChldClear
         \/ /\ hpc["CHLD"] \in {"idle", "ret"}
            /\ hpc'["CHLD"] \in {"idle", "start"}
<1> DEFINE Same     == UNCHANGED <<hpc["CHLD"], hfg["CHLD"]>>
           Starting == /\ hpc["CHLD"] \in {"idle", "ret"}
                       /\ hpc'["CHLD"] \in {"idle", "start"}
<1>1. ASSUME NEW s \in Signals, Deliver(s) PROVE Same \/ Starting
  BY <1>1 DEF Deliver, Deliverable, hLocals, TypeOK, Signals
<1>2. ASSUME NEW s \in Signals, Return(s) PROVE Same \/ Starting
  <2>1. hpc[s] = "ret" /\ hfg' = [hfg EXCEPT ![s] = 0]
    BY <1>2 DEF Return, In
  <2>2. CASE hpc' = [hpc EXCEPT ![s] = "idle"]
    BY <2>1, <2>2 DEF TypeOK, Signals
  <2>3. ASSUME NEW t \in pending, hpc[t] = "idle" \/ t = s,
               hpc' = [hpc EXCEPT ![s] = "idle", ![t] = "start"]
        PROVE  Same \/ Starting
    BY <2>1, <2>3 DEF TypeOK, Signals
  <2> QED
    BY <1>2, <2>2, <2>3 DEF Return
<1>3. ASSUME NEW s \in TtySignals, TtyStart(s) \/ TtyKill(s) PROVE Same
  BY <1>3 DEF TtyStart, TtyKill, Goto, hLocals, TypeOK, Signals, TtySignals
<1>4. ASSUME TstpJid \/ TstpStore PROVE Same
  BY <1>4 DEF TstpJid, TstpStore, Goto, hLocals, TypeOK, Signals
<1>5. ASSUME Unblock PROVE Same \/ Starting
  BY <1>5, MainRuns DEF Unblock, InMain, frames, hLocals, TypeOK, Signals
<1>6. ASSUME Command \/ Executing PROVE Unblock \/ Same
  BY <1>6 DEF Command, Executing, Fork, ForkFails, LookupJid, LookupPid, Quit,
     AddPid, AddState, AddJid, WaitReturns, LoadPid, Continue, StoreState,
     frames, hLocals
<1>7. ASSUME NEW p \in Pids, Process(p) PROVE Same
  BY <1>7 DEF Process, Setpgid, Execve, Exit, Killed, Stopped, Inherited, Raise,
     frames, hLocals
<1>8. ASSUME NEW s, Type(s) PROVE Same
  BY <1>8 DEF Type, frames, hLocals
<1>9. ASSUME UNCHANGED vars PROVE Same
  BY <1>9 DEF vars, frames, hLocals
<1> QED
  BY <1>1, <1>2, <1>3, <1>4, <1>5, <1>6, <1>7, <1>8, <1>9 DEF Next, Handlers

LEMMA DeathStep ==
  ASSUME Builtins = {}, Inv, Tidy, HandlersKnow, ForegroundMeansWaiting,
         DeathDeletes, [Next]_vars
  PROVE  DeathDeletes'
<1> USE DEF Inv
<1> SUFFICES ASSUME NEW i \in Slots, jobs'[i].state = "FG", jobs'[i].pid = mpid'
             PROVE  /\ hpc'["CHLD"] \notin {"idle", "start"} => hfg'["CHLD"] = mpid'
                    /\ proc'[mpid'] = "gone" => hpc'["CHLD"] = "terminated"
  BY DEF DeathDeletes
<1>1. /\ mode' = "FG" /\ mslot' = i /\ mpc' \in {"addJid", "unblock", "wait"}
      /\ ForegroundMeansWaiting' /\ Tidy' /\ TypeOK'
  BY ForegroundStep, TidyStep, TypeStep DEF ForegroundMeansWaiting
<1>2. mpid' \in Pids
  BY <1>1, PidsAssumption DEF Tidy, Known, TypeOK, Job
<1>3. CASE AddState
  <2>1. hpc["CHLD"] = "idle" /\ UNCHANGED <<hpc, proc, mpid>> /\ mpc = "addState"
    BY <1>3, MainRuns DEF AddState, InMain, frames, children
  <2> QED
    BY <1>2, <2>1 DEF Launched, Adding
<1>4. CASE AddJid \/ Unblock
  <2>1. hpc["CHLD"] = "idle" /\ hpc'["CHLD"] \in {"idle", "start"}
    BY <1>4, MainRuns DEF AddJid, Unblock, InMain, frames, TypeOK, Signals
  <2>2. jobs[i].state = "FG" /\ jobs[i].pid = mpid /\ UNCHANGED <<mpid, proc>>
    BY <1>1, <1>4 DEF AddJid, Unblock, ToPrompt, TypeOK, Job, table, children
  <2> QED
    BY <2>1, <2>2 DEF DeathDeletes
<1>5. CASE \/ \E p \in Pids, m \in Launch : Fork(p, m)
           \/ \E m \in Launch : ForkFails(m)
           \/ AddPid \/ WaitReturns \/ Quit
  <2>1. ASSUME AddPid PROVE FALSE
    <3>1. WithPid(jobs, 0) \subseteq Slots
      BY DEF WithPid
    <3>2. CASE UNCHANGED jobs
      BY <2>1, <3>2 DEF AddPid, InMain, ForegroundMeansWaiting
    <3>3. CASE mpc' = "addState"
      BY <1>1, <3>3
    <3> QED
      BY <2>1, <3>2, <3>3 DEF AddPid
  <2> QED
    BY <1>1, <1>5, <2>1 DEF Fork, ForkFails, WaitReturns, Quit, ToPrompt
<1>6. CASE ChldTerminated
  <2>1. UNCHANGED mpid /\ hpc["CHLD"] = "terminated"
    BY <1>6 DEF ChldTerminated, In, mainVars
  <2>2. jobs[i].state = "FG" /\ jobs[i].pid = mpid
    <3>1. WithPid(jobs, hfg["CHLD"]) \subseteq Slots
      BY DEF WithPid
    <3>2. ASSUME jobs' = [jobs EXCEPT ![First(WithPid(jobs, hfg["CHLD"]))].pid = 0],
                 WithPid(jobs, hfg["CHLD"]) # {}
          PROVE  jobs[i].state = "FG" /\ jobs[i].pid = mpid
      BY <1>2, <2>1, <3>1, <3>2, FirstMatches, PidsAssumption DEF TypeOK, Job
    <3> QED
      BY <1>6, <2>1, <3>2 DEF ChldTerminated
  <2>3. hfg["CHLD"] = mpid
    BY <2>1, <2>2 DEF DeathDeletes
  <2>4. WithPid(jobs, mpid) = {i}
    BY <1>2, <2>1, <2>2, PidsAssumption DEF WithPid, Tidy, Known
  <2>5. jobs' = [jobs EXCEPT ![i].pid = 0]
    <3>1. First({i}) = i
      BY <2>4, FirstMatches
    <3> QED
      BY <1>2, <1>6, <2>1, <2>3, <2>4, <3>1, PidsAssumption DEF ChldTerminated
  <2> QED
    BY <1>2, <2>1, <2>5, PidsAssumption DEF TypeOK, Job
<1>7. CASE ChldClear
  <2>1. /\ Clearing /\ hslot = mslot /\ jobs' = [jobs EXCEPT ![hslot] = NoJob]
        /\ UNCHANGED mslot
    BY <1>7 DEF ChldClear, In, Clearing, Tidy, InOrder, mainVars
  <2> QED
    BY <1>1, <2>1 DEF TypeOK, NoJob
<1>8. ASSUME NEW k, UNCHANGED mainVars, jobs' \in {jobs, SetState(jobs, k, "ST")}
      PROVE  /\ hpc'["CHLD"] \notin {"idle", "start"} => hfg'["CHLD"] = mpid'
             /\ proc'[mpid'] = "gone" => hpc'["CHLD"] = "terminated"
  <2>1. UNCHANGED mpid /\ jobs[i].state = "FG" /\ jobs[i].pid = mpid
    BY <1>8, StopStored DEF mainVars
  <2>2. /\ hpc["CHLD"] \notin {"idle", "start"} => hfg["CHLD"] = mpid
        /\ proc[mpid] = "gone" => hpc["CHLD"] = "terminated"
    BY <2>1 DEF DeathDeletes
  <2>3. hpc'["CHLD"] \notin {"idle", "start"} => hfg'["CHLD"] = mpid
    <3>1. CASE ChldStart
      BY <2>1, <3>1, FgpidWaited DEF ChldStart, TypeOK, Signals
    <3>2. CASE ChldWait \/ ChldStopped
      BY <2>2, <3>2 DEF ChldWait, ChldStopped, In, hLocals
    <3> QED
      BY <1>6, <1>7, <2>1, <2>2, <3>1, <3>2, ChldReadSteps
  <2>4. proc'[mpid] = "gone" => hpc'["CHLD"] = "terminated"
    <3>1. CASE proc[mpid] # "gone"
      BY <1>2, <2>1, <3>1, GoneSteps
    <3>2. CASE proc[mpid] = "gone"
      <4>1. hpc["CHLD"] = "terminated"
        BY <2>2, <3>2
      <4>2. ~ChldStart /\ ~ChldWait /\ ~ChldStopped
        BY <4>1 DEF ChldStart, ChldWait, ChldStopped, In
      <4> QED
        BY <1>6, <1>7, <2>1, <4>1, <4>2, ChldReadSteps
    <3> QED
      BY <3>1, <3>2
  <2> QED
    BY <2>1, <2>3, <2>4
<1> QED
  BY <1>3, <1>4, <1>5, <1>6, <1>7, <1>8, TableSteps DEF Tidy

\* The invariant of the sessions without fg and bg.
LaunchInv == Inv /\ Tidy /\ HandlersKnow /\ ForegroundMeansWaiting /\ DeathDeletes

LEMMA LaunchInvHolds ==
  ASSUME Builtins = {} PROVE Spec => []LaunchInv
<1>1. ASSUME Init PROVE Tidy /\ HandlersKnow /\ ForegroundMeansWaiting /\ DeathDeletes
  <2>1. \A i \in Slots : jobs[i] = NoJob
    BY <1>1 DEF Init, EmptyTable
  <2>2. \A i \in Slots : /\ jobs[i].pid = 0 /\ jobs[i].jid = 0
                         /\ jobs[i].state = "UNDEF"
    BY <2>1 DEF NoJob
  <2>3. mpc = "prompt" /\ ~Clearing /\ ~Entering /\ nextjid = 1 /\ Slots \subseteq Nat
    BY <1>1, SlotsFacts DEF Init, Clearing, Signals, Entering
  <2>4. InOrder
    BY <2>2, <2>3 DEF InOrder, Empty
  <2>5. NextFree
    <3>1. ASSUME NEW i \in Slots, \A j \in Slots : j < i => Full(j) PROVE i = 0
      BY <2>2, <2>3, <3>1, SlotsFacts DEF Full
    <3> QED
      BY <2>3, <3>1 DEF NextFree
  <2>6. Known /\ LastSlot /\ NoBuiltin
    BY <2>2, <2>3, PidsAssumption DEF Known, LastSlot, NoBuiltin
  <2>7. HandlersKnow
    BY <1>1 DEF Init, HandlersKnow
  <2> QED
    BY <2>2, <2>4, <2>5, <2>6, <2>7 DEF Tidy, ForegroundMeansWaiting, DeathDeletes
<1>2. ASSUME Inv, Tidy, HandlersKnow, ForegroundMeansWaiting, DeathDeletes, [Next]_vars
      PROVE  (Tidy /\ HandlersKnow /\ ForegroundMeansWaiting /\ DeathDeletes)'
  BY <1>2, TidyStep, HandlersKnowStep, ForegroundStep, DeathStep
<1> QED
  BY <1>1, <1>2, InvHolds, PTL DEF Spec, LaunchInv

\* In a session without fg and bg, slot i holds job i + 1: the handlers, which
\* index the table with a job ID less one, always hit the job they mean.
THEOREM JidsIndexSlots ==
  ASSUME Builtins = {} PROVE Spec => []SlotIsJid
<1>1. LaunchInv => SlotIsJid
  BY DEF LaunchInv, Tidy, InOrder, Full, Empty, HalfAdded, HalfCleared, SlotIsJid
<1> QED
  BY <1>1, LaunchInvHolds, PTL

\* There, a job is in the foreground only while eval adds it or waits for it.
THEOREM ForegroundIsWaitedFor ==
  ASSUME Builtins = {} PROVE Spec => []ForegroundMeansWaiting
<1>1. LaunchInv => ForegroundMeansWaiting
  BY DEF LaunchInv
<1> QED
  BY <1>1, LaunchInvHolds, PTL

\* There, main never waits for a process that was reaped and whose entry
\* nobody is about to delete: waitfg always has something to wait for.
THEOREM WaitIsForTheLiving ==
  ASSUME Builtins = {} PROVE Spec => []NeverWaitsForReaped
<1>1. LaunchInv => NeverWaitsForReaped
  <2> SUFFICES ASSUME LaunchInv, InMain("wait"), mpid \in Pids, mpid = fgpid(jobs),
                      proc[mpid] = "gone"
               PROVE  FALSE
    BY DEF NeverWaitsForReaped
  <2> USE DEF LaunchInv
  <2>1. hpc["CHLD"] = "idle"
    BY MainRuns DEF InMain, Inv
  <2>2. PICK i \in Slots : jobs[i].state = "FG" /\ jobs[i].pid = mpid
    <3> DEFINE S == WithState(jobs, "FG")
    <3>1. S # {} /\ mpid = jobs[First(S)].pid
      BY PidsAssumption DEF fgpid
    <3>2. S \subseteq Slots /\ \A i \in S : jobs[i].state = "FG"
      BY DEF WithState
    <3>3. First(S) \in S
      BY <3>1, <3>2, FirstMatches
    <3> QED
      BY <3>1, <3>2, <3>3
  <2> QED
    BY <2>1, <2>2 DEF DeathDeletes
<1> QED
  BY <1>1, LaunchInvHolds, PTL

\* There, ctrl-c and ctrl-z reach the job that eval launches or waits for and
\* no other, however the handlers interrupt each other.
THEOREM KeysReachWaited ==
  ASSUME Builtins = {} PROVE Spec => KeysReachTheWaitedJob
<1>1. LaunchInv =>
        \A s \in TtySignals : TtyKill(s) /\ hfg[s] # 0 => hfg[s] = mpid
  BY DEF LaunchInv, HandlersKnow, Signals, TtySignals
<1> QED
  BY <1>1, LaunchInvHolds, PTL DEF KeysReachTheWaitedJob
====
