-------------------------------- MODULE Tsh --------------------------------
(***************************************************************************)
(* The tiny shell of shelllab/tsh.c: its job table, the main routine       *)
(* (eval, do_bgfg, waitfg), the three signal handlers that interrupt it,   *)
(* and the part of the kernel and of the child processes the code relies   *)
(* on: fork, process groups, kill, waitpid and the delivery of signals.    *)
(*                                                                         *)
(* The shell is one thread of control on which handlers nest.  `cpu' names *)
(* the frame that runs: "main" or a signal whose handler runs; `hret' says *)
(* which frame a handler interrupted.  Signal() installs every handler     *)
(* with an empty sa_mask, so a handler masks its own signal and no other:  *)
(* INT can interrupt CHLD, CHLD can interrupt TSTP, and so on.             *)
(*                                                                         *)
(* The constants say what the user of a session does, so that a run can    *)
(* study, say, sessions without fg and bg.                                 *)
(***************************************************************************)
EXTENDS Integers

CONSTANTS
  Pids,          \* the processes the shell may fork; a pid is not reused
  MaxJobs,       \* slots of the job table (MAXJOBS, 16 in the code)
  Launch,        \* how the user starts programs: a subset of {"FG", "BG"}
  Builtins,      \* the built-ins the user types: a subset of {"FG", "BG"}
  Keyboard,      \* what is sent to the shell: a subset of {"INT", "TSTP"}
  MaxKeys,       \* bound on the number of signals sent to the shell
  ChildSignals   \* signals a program raises in itself (myint, mystop)

ASSUME PidsAssumption == 0 \notin Pids /\ -1 \notin Pids
ASSUME SizeAssumption == MaxJobs \in Nat \ {0} /\ MaxKeys \in Nat
ASSUME UserAssumption ==
  /\ Launch \subseteq {"FG", "BG"}
  /\ Builtins \subseteq {"FG", "BG"}
  /\ Keyboard \subseteq {"INT", "TSTP"}
  /\ ChildSignals \subseteq {"INT", "TSTP"}

VARIABLES
  jobs,      \* the job table
  nextjid,   \* the next job ID to allocate
  mpc,       \* where the main routine is
  mode,      \* FG or BG: the kind of command main executes
  mpid,      \* main's local pid
  mjid,      \* main's local jid
  mslot,     \* addjob's local i
  blocked,   \* main has SIGCHLD blocked
  cpu,       \* the frame that runs
  hpc,       \* where each handler is ("idle": it has no frame)
  hret,      \* the frame each handler returns to
  hfg,       \* the foreground pid each handler read on entry
  reaped,    \* sigchld_handler's local pid: what waitpid returned
  hslot,     \* deletejob's local i, within sigchld_handler
  hjid,      \* sigtstp_handler's local jid
  pending,   \* signals pending for the shell
  keys,      \* signals sent to the shell so far
  proc,      \* the state of each process
  sig,       \* signals pending for each process
  copy       \* the job table a process inherited, until it calls execve

table    == <<jobs, nextjid>>
mainVars == <<mpc, mode, mpid, mjid, mslot, blocked>>
hLocals  == <<hfg, reaped, hslot, hjid>>
frames   == <<cpu, hpc, hret>>
children == <<proc, sig, copy>>
vars     == <<table, mainVars, hLocals, frames, pending, keys, children>>

-----------------------------------------------------------------------------
(* Job states, signals, and where the code can be.                         *)

Signals    == {"CHLD", "INT", "TSTP"}
TtySignals == {"INT", "TSTP"}
JobStates  == {"UNDEF", "FG", "BG", "ST"}
MainPcs    == {"prompt", "addPid", "addState", "addJid", "unblock", "wait",
               "load", "cont", "store", "exit"}
HandlerPcs == {"idle", "start", "wait", "stopped", "terminated", "clear",
               "kill", "jid", "store", "ret"}

\* "young": forked, still in the shell's process group, running the shell's
\* code.  "pre": in its own group, running the shell's code.  "run": execve
\* done.  "stop": stopped and not reported by waitpid yet.  "stopped": the
\* stop was reported.  "zombie": dead.  "gone": reaped.
ProcStates == {"none", "young", "pre", "run", "stop", "stopped", "zombie",
               "gone"}
GroupStates == {"pre", "run", "stop", "stopped", "zombie"}

Slots == 0 .. MaxJobs - 1
NoJob == [pid |-> 0, jid |-> 0, state |-> "UNDEF"]
Job   == [pid : Pids \cup {0}, jid : Nat, state : JobStates]
EmptyTable == [i \in Slots |-> NoJob]

-----------------------------------------------------------------------------
(* The helper routines on the job list.  Their loops scan the slots in     *)
(* order and stop at the first match.                                      *)

First(S) == CHOOSE i \in S : \A j \in S : i <= j

WithPid(t, p)   == {i \in Slots : t[i].pid = p}
WithJid(t, j)   == {i \in Slots : t[i].jid = j}
WithState(t, s) == {i \in Slots : t[i].state = s}

\* Mutant of fgpid: any job that is not stopped counts as the foreground job.
fgpidNotStopped(t) ==
  LET S == WithState(t, "FG") \cup WithState(t, "BG") IN
  IF S = {} THEN 0 ELSE t[First(S)].pid

fgpid(t) == IF WithState(t, "FG") = {} THEN 0
            ELSE t[First(WithState(t, "FG"))].pid

pid2jid(t, p) == IF p \notin Pids \/ WithPid(t, p) = {} THEN 0
                 ELSE t[First(WithPid(t, p))].jid

maxjid(t) == CHOOSE m \in {t[i].jid : i \in Slots} :
               \A i \in Slots : t[i].jid <= m

\* jobs[i].state = s and jobs[i].pid for an index i the code computed.  The
\* handlers and do_bgfg use jid-1, which need not be a slot of the table:
\* the word then lies in zeroed memory next to the array that no loop scans,
\* so that a pid read there is 0 and a state stored there is never seen.
SetState(t, i, s) == IF i \in Slots THEN [t EXCEPT ![i].state = s] ELSE t
PidAt(t, i)       == IF i \in Slots THEN t[i].pid ELSE 0

-----------------------------------------------------------------------------
(* The kernel: sending, delivering and returning from signals.             *)

Alive     == cpu # "none"
InMain(l) == cpu = "main" /\ mpc = l
In(s, l)  == cpu = s /\ hpc[s] = l

\* kill(-p, _) fails with ESRCH unless group p exists; kill(-0, _) is
\* kill(0, _), which signals the caller's own group.
Killable(p) == p = 0 \/ (p \in Pids /\ proc[p] \in GroupStates)

\* Signals s that reach a stopped process stay pending until it continues,
\* and a stop signal is then discarded.  A zombie ignores them.
Accepts(p, s) == \/ proc[p] \in {"young", "pre", "run"}
                 \/ proc[p] \in {"stop", "stopped"} /\ s = "INT"

InGroup(g) == IF g = 0 THEN {p \in Pids : proc[p] = "young"} ELSE {g}

\* kill(-g, s) for s one of SIGINT and SIGTSTP, sent from the shell's group
\* when g = 0.  It changes pending and sig.
SendTty(g, s) ==
  /\ pending' = IF g = 0 /\ Alive THEN pending \cup {s} ELSE pending
  /\ sig' = [p \in Pids |-> IF p \in InGroup(g) /\ Accepts(p, s)
                              THEN sig[p] \cup {s} ELSE sig[p]]

\* kill(-g, SIGCONT): stopped processes run again, which the kernel also
\* announces with SIGCHLD; pending stop signals are discarded.
SendCont(g) ==
  LET woken == {p \in InGroup(g) : proc[p] \in {"stop", "stopped"}} IN
  /\ proc' = [p \in Pids |-> IF p \in woken THEN "run" ELSE proc[p]]
  /\ sig' = [p \in Pids |-> IF p \in InGroup(g) THEN sig[p] \ {"TSTP"}
                            ELSE sig[p]]
  /\ pending' = (IF g = 0 THEN pending \ {"TSTP"} ELSE pending)
                  \cup (IF woken = {} THEN {} ELSE {"CHLD"})
  /\ UNCHANGED copy

Deliverable(s) == /\ s \in pending /\ hpc[s] = "idle"
                  /\ s = "CHLD" => ~blocked

\* The handler of a pending signal starts on top of the running frame.
Deliver(s) ==
  /\ Alive
  /\ Deliverable(s)
  /\ pending' = pending \ {s}
  /\ cpu' = s
  /\ hpc' = [hpc EXCEPT ![s] = "start"]
  /\ hret' = [hret EXCEPT ![s] = cpu]
  /\ UNCHANGED <<table, mainVars, hLocals, keys, children>>

\* A handler returns.  The kernel restores the mask and, before it resumes
\* the interrupted frame, delivers a signal that this unmasked.
Return(s) ==
  LET ready == {t \in pending : (hpc[t] = "idle" \/ t = s)
                                 /\ (t = "CHLD" => ~blocked)}
  IN
  /\ In(s, "ret")
  /\ \/ /\ ready = {}
        /\ cpu' = hret[s]
        /\ hpc' = [hpc EXCEPT ![s] = "idle"]
        /\ hret' = [hret EXCEPT ![s] = "none"]
        /\ UNCHANGED pending
     \/ \E t \in ready :
          /\ cpu' = t
          /\ hpc' = [hpc EXCEPT ![s] = "idle", ![t] = "start"]
          /\ hret' = [hret EXCEPT ![s] = "none", ![t] = hret[s]]
          /\ pending' = pending \ {t}
  /\ hfg' = [hfg EXCEPT ![s] = 0]
  /\ UNCHANGED <<table, mainVars, reaped, hslot, hjid, keys, children>>

Goto(s, l) == hpc' = [hpc EXCEPT ![s] = l] /\ UNCHANGED <<cpu, hret>>

-----------------------------------------------------------------------------
(* sigchld_handler                                                         *)

ChldStart ==
  /\ In("CHLD", "start")
  /\ hfg' = [hfg EXCEPT !["CHLD"] = fgpid(jobs)]
  /\ Goto("CHLD", "wait")
  /\ UNCHANGED <<table, mainVars, reaped, hslot, hjid, pending, keys, children>>

\* waitpid(-1, &status, WNOHANG | WUNTRACED): a dead child is reaped, a stop
\* is reported once, and the loop ends when there is neither.
ChldWait ==
  /\ In("CHLD", "wait")
  /\ \/ \E p \in Pids :
          /\ reaped' = p
          /\ \/ /\ proc[p] = "zombie"
                /\ proc' = [proc EXCEPT ![p] = "gone"]
                /\ Goto("CHLD", "terminated")
             \/ /\ proc[p] = "stop"
                /\ proc' = [proc EXCEPT ![p] = "stopped"]
                /\ Goto("CHLD", "stopped")
     \/ /\ \A p \in Pids : proc[p] \notin {"zombie", "stop"}
        /\ reaped' = 0
        /\ Goto("CHLD", "ret")
        /\ UNCHANGED proc
  /\ UNCHANGED <<table, mainVars, hfg, hslot, hjid, pending, keys, sig, copy>>

ChldStopped ==
  /\ In("CHLD", "stopped")
  /\ jobs' = SetState(jobs, pid2jid(jobs, reaped) - 1, "ST")
  /\ Goto("CHLD", "wait")
  /\ UNCHANGED <<nextjid, mainVars, hLocals, pending, keys, children>>

\* Mutant of ChldTerminated: "if" for "while", one child per signal.
ChldTerminatedOnce ==
  /\ In("CHLD", "terminated")
  /\ Goto("CHLD", "ret")
  /\ UNCHANGED <<table, mainVars, hLocals, pending, keys, children>>

\* deletejob(jobs, foregroundPid), whichever child was reaped, up to the
\* first assignment of clearjob; SIGINT and SIGTSTP may arrive before the
\* others.
ChldTerminated ==
  LET S == WithPid(jobs, hfg["CHLD"]) IN
  /\ In("CHLD", "terminated")
  /\ \/ /\ hfg["CHLD"] # 0 /\ S # {}
        /\ jobs' = [jobs EXCEPT ![First(S)].pid = 0]
        /\ hslot' = First(S)
        /\ Goto("CHLD", "clear")
     \/ /\ hfg["CHLD"] = 0 \/ S = {}
        /\ Goto("CHLD", "wait")
        /\ UNCHANGED <<jobs, hslot>>
  /\ UNCHANGED <<nextjid, mainVars, hfg, reaped, hjid, pending, keys, children>>

\* Mutant of ChldClear: deletejob leaves nextjid as it is.
ChldClearKeepsJid ==
  /\ In("CHLD", "clear")
  /\ jobs' = [jobs EXCEPT ![hslot] = NoJob]
  /\ hslot' = 0
  /\ Goto("CHLD", "wait")
  /\ UNCHANGED <<nextjid, mainVars, hfg, reaped, hjid, pending, keys, children>>

\* The rest of clearjob and of deletejob.
ChldClear ==
  /\ In("CHLD", "clear")
  /\ jobs' = [jobs EXCEPT ![hslot] = NoJob]
  /\ nextjid' = maxjid(jobs') + 1
  /\ hslot' = 0
  /\ Goto("CHLD", "wait")
  /\ UNCHANGED <<mainVars, hfg, reaped, hjid, pending, keys, children>>

-----------------------------------------------------------------------------
(* sigint_handler and sigtstp_handler                                      *)

TtyStart(s) ==
  /\ In(s, "start")
  /\ hfg' = [hfg EXCEPT ![s] = fgpid(jobs)]
  /\ Goto(s, "kill")
  /\ UNCHANGED <<table, mainVars, reaped, hslot, hjid, pending, keys, children>>

\* kill(-pid, s).  If it fails the handler prints an error and returns.
TtyKill(s) ==
  /\ In(s, "kill")
  /\ \/ /\ Killable(hfg[s])
        /\ SendTty(hfg[s], s)
        /\ Goto(s, IF s = "TSTP" THEN "jid" ELSE "ret")
     \/ /\ ~Killable(hfg[s])
        /\ Goto(s, "ret")
        /\ UNCHANGED <<pending, sig>>
  /\ UNCHANGED <<table, mainVars, hLocals, keys, proc, copy>>

\* sigtstp_handler goes on: jid = pid2jid(pid); jobs[jid-1].state = ST.
TstpJid ==
  /\ In("TSTP", "jid")
  /\ hjid' = pid2jid(jobs, hfg["TSTP"])
  /\ Goto("TSTP", "store")
  /\ UNCHANGED <<table, mainVars, hfg, reaped, hslot, pending, keys, children>>

TstpStore ==
  /\ In("TSTP", "store")
  /\ jobs' = SetState(jobs, hjid - 1, "ST")
  /\ hjid' = 0
  /\ Goto("TSTP", "ret")
  /\ UNCHANGED <<nextjid, mainVars, hfg, reaped, hslot, pending, keys, children>>

-----------------------------------------------------------------------------
(* eval: launching a program                                               *)

\* Main is back at the prompt; its locals are dead.
ToPrompt == /\ mpc' = "prompt" /\ mode' = "BG"
            /\ mpid' = 0 /\ mjid' = 0 /\ mslot' = 0

\* Mutant of Fork: SIGCHLD is not blocked across fork and addjob.
ForkUnblocked(p, m) ==
  /\ InMain("prompt")
  /\ m \in Launch
  /\ proc[p] = "none"
  /\ proc' = [proc EXCEPT ![p] = "young"]
  /\ copy' = [copy EXCEPT ![p] = jobs]
  /\ mpc' = "addPid" /\ mode' = m /\ mpid' = p
  /\ UNCHANGED <<table, mjid, mslot, blocked, hLocals, frames, pending, keys,
                 sig>>

\* The command line is a program: SIGCHLD is blocked and the child forked.
Fork(p, m) ==
  /\ InMain("prompt")
  /\ m \in Launch
  /\ proc[p] = "none"
  /\ proc' = [proc EXCEPT ![p] = "young"]
  /\ copy' = [copy EXCEPT ![p] = jobs]
  /\ blocked' = TRUE
  /\ mpc' = "addPid" /\ mode' = m /\ mpid' = p
  /\ UNCHANGED <<table, mjid, mslot, hLocals, frames, pending, keys, sig>>

\* fork fails: eval does not look and goes on with pid -1.
ForkFails(m) ==
  /\ InMain("prompt")
  /\ m \in Launch
  /\ blocked' = TRUE
  /\ mpc' = "addPid" /\ mode' = m /\ mpid' = -1
  /\ UNCHANGED <<table, mjid, mslot, hLocals, frames, pending, keys, children>>

\* addjob takes the first free slot, if the pid is one and there is a slot.
AddPid ==
  LET free == WithPid(jobs, 0) IN
  /\ InMain("addPid")
  /\ \/ /\ mpid # -1 /\ free # {}
        /\ jobs' = [jobs EXCEPT ![First(free)].pid = mpid]
        /\ mslot' = First(free)
        /\ mpc' = "addState"
     \/ /\ mpid = -1 \/ free = {}
        /\ mpc' = "unblock"
        /\ UNCHANGED <<jobs, mslot>>
  /\ UNCHANGED <<nextjid, mode, mpid, mjid, blocked, hLocals, frames, pending,
                 keys, children>>

AddState ==
  /\ InMain("addState")
  /\ jobs' = [jobs EXCEPT ![mslot].state = mode]
  /\ mpc' = "addJid"
  /\ UNCHANGED <<nextjid, mode, mpid, mjid, mslot, blocked, hLocals, frames,
                 pending, keys, children>>

AddJid ==
  /\ InMain("addJid")
  /\ jobs' = [jobs EXCEPT ![mslot].jid = nextjid]
  /\ nextjid' = IF nextjid + 1 > MaxJobs THEN 1 ELSE nextjid + 1
  /\ mpc' = "unblock"
  /\ UNCHANGED <<mode, mpid, mjid, mslot, blocked, hLocals, frames, pending,
                 keys, children>>

\* sigprocmask(SIG_UNBLOCK): a pending SIGCHLD is delivered before the call
\* returns.  A foreground job is then waited for.
Unblock ==
  /\ InMain("unblock")
  /\ blocked' = FALSE
  /\ IF mode = "FG" THEN mpc' = "wait" /\ UNCHANGED <<mode, mpid, mjid, mslot>>
                    ELSE ToPrompt
  /\ IF "CHLD" \in pending
       THEN /\ pending' = pending \ {"CHLD"}
            /\ cpu' = "CHLD"
            /\ hpc' = [hpc EXCEPT !["CHLD"] = "start"]
            /\ hret' = [hret EXCEPT !["CHLD"] = "main"]
       ELSE UNCHANGED <<pending, frames>>
  /\ UNCHANGED <<table, hLocals, keys, children>>

\* Mutant of WaitReturns: waitfg sleeps once, "if" for "while".
WaitReturnsAtOnce ==
  /\ InMain("wait")
  /\ ToPrompt
  /\ UNCHANGED <<table, blocked, hLocals, frames, pending, keys, children>>

\* waitfg leaves its loop.
WaitReturns ==
  /\ InMain("wait")
  /\ mpid # fgpid(jobs)
  /\ ToPrompt
  /\ UNCHANGED <<table, blocked, hLocals, frames, pending, keys, children>>

-----------------------------------------------------------------------------
(* do_bgfg: b is "FG" for the command fg and "BG" for bg                    *)

\* The argument is %j: getjobjid finds some job with that ID.
LookupJid(b, j) ==
  /\ InMain("prompt")
  /\ b \in Builtins
  /\ j >= 1 /\ WithJid(jobs, j) # {}
  /\ mpc' = "load" /\ mode' = b /\ mjid' = j
  /\ UNCHANGED <<table, mpid, mslot, blocked, hLocals, frames, pending, keys,
                 children>>

\* pid = jobs[jid - 1].pid
LoadPid ==
  /\ InMain("load")
  /\ mpid' = PidAt(jobs, mjid - 1)
  /\ mpc' = "cont"
  /\ UNCHANGED <<table, mode, mjid, mslot, blocked, hLocals, frames, pending,
                 keys, children>>

\* The argument is a pid: pid2jid and getjobpid find its slot.
LookupPid(b, p) ==
  /\ InMain("prompt")
  /\ b \in Builtins
  /\ WithPid(jobs, p) # {}
  /\ mpc' = "cont" /\ mode' = b /\ mpid' = p /\ mjid' = pid2jid(jobs, p)
  /\ UNCHANGED <<table, mslot, blocked, hLocals, frames, pending, keys, children>>

\* kill(-pid, SIGCONT); the command ends if that fails.
Continue ==
  /\ InMain("cont")
  /\ \/ /\ Killable(mpid)
        /\ SendCont(mpid)
        /\ mpc' = "store"
        /\ UNCHANGED <<mode, mpid, mjid, mslot>>
     \/ /\ ~Killable(mpid)
        /\ ToPrompt
        /\ UNCHANGED <<pending, children>>
  /\ UNCHANGED <<table, blocked, hLocals, frames, keys>>

\* jobs[jid-1].state = BG, or = FG and waitfg(pid).
StoreState ==
  /\ InMain("store")
  /\ jobs' = SetState(jobs, mjid - 1, mode)
  /\ IF mode = "FG" THEN mpc' = "wait" /\ UNCHANGED <<mode, mpid, mjid, mslot>>
                    ELSE ToPrompt
  /\ UNCHANGED <<nextjid, blocked, hLocals, frames, pending, keys, children>>

\* quit, or end of file: exit(0) whatever the children do.
Quit ==
  /\ InMain("prompt")
  /\ cpu' = "none" /\ mpc' = "exit"
  /\ pending' = {}
  /\ UNCHANGED <<table, mode, mpid, mjid, mslot, blocked, hLocals, hpc, hret,
                 keys, children>>

-----------------------------------------------------------------------------
(* The child processes, and the signals sent to the shell                  *)

\* A change of state of a child is announced to a living shell.
Announce == pending' = IF Alive THEN pending \cup {"CHLD"} ELSE pending

Become(p, s) == proc' = [proc EXCEPT ![p] = s]

\* Child side of eval: setpgid(0, 0), then execve, which gives up the shell's
\* memory and its handlers.  Both wait for the handlers of pending signals.
Setpgid(p) ==
  /\ proc[p] = "young" /\ sig[p] = {}
  /\ Become(p, "pre")
  /\ UNCHANGED <<table, mainVars, hLocals, frames, pending, keys, sig, copy>>

Execve(p) ==
  /\ proc[p] = "pre" /\ sig[p] = {}
  /\ Become(p, "run")
  /\ copy' = [copy EXCEPT ![p] = EmptyTable]
  /\ UNCHANGED <<table, mainVars, hLocals, frames, pending, keys, sig>>

\* Before execve the child handles SIGINT and SIGTSTP as the shell does, on
\* its own copy of the table.  With no foreground job in the copy it signals
\* its own group again: the shell's one before setpgid, else itself.
Inherited(p, s) ==
  LET g == fgpid(copy[p])
      t == IF g # 0 \/ proc[p] = "young" THEN g ELSE p
  IN
  /\ proc[p] \in {"young", "pre"} /\ s \in sig[p]
  /\ \/ /\ Killable(t)
        /\ pending' = IF t = 0 /\ Alive THEN pending \cup {s} ELSE pending
        /\ sig' = [q \in Pids |->
             IF q \in InGroup(t) /\ Accepts(q, s) THEN sig[q] \cup {s}
             ELSE IF q = p THEN sig[q] \ {s} ELSE sig[q]]
        /\ copy' = IF s = "TSTP"
                     THEN [copy EXCEPT ![p] =
                             SetState(@, pid2jid(@, g) - 1, "ST")]
                     ELSE copy
     \/ /\ ~Killable(t)
        /\ sig' = [sig EXCEPT ![p] = @ \ {s}]
        /\ UNCHANGED <<pending, copy>>
  /\ UNCHANGED <<table, mainVars, hLocals, frames, keys, proc>>

\* The program ends, or could not be executed ("Command not found").
Exit(p) ==
  /\ \/ proc[p] = "run"
     \/ proc[p] = "pre" /\ sig[p] = {}
  /\ Become(p, "zombie")
  /\ sig' = [sig EXCEPT ![p] = {}]
  /\ copy' = [copy EXCEPT ![p] = EmptyTable]
  /\ Announce
  /\ UNCHANGED <<table, mainVars, hLocals, frames, keys>>

\* The default actions of SIGINT and SIGTSTP.
Killed(p) ==
  /\ proc[p] = "run" /\ "INT" \in sig[p]
  /\ Become(p, "zombie")
  /\ sig' = [sig EXCEPT ![p] = {}]
  /\ Announce
  /\ UNCHANGED <<table, mainVars, hLocals, frames, keys, copy>>

Stopped(p) ==
  /\ proc[p] = "run" /\ "TSTP" \in sig[p]
  /\ Become(p, "stop")
  /\ sig' = [sig EXCEPT ![p] = @ \ {"TSTP"}]
  /\ Announce
  /\ UNCHANGED <<table, mainVars, hLocals, frames, keys, copy>>

\* A program signals itself (mystop.c, myint.c).
Raise(p, s) ==
  /\ s \in ChildSignals
  /\ proc[p] = "run" /\ s \notin sig[p]
  /\ sig' = [sig EXCEPT ![p] = @ \cup {s}]
  /\ UNCHANGED <<table, mainVars, hLocals, frames, pending, keys, proc, copy>>

\* ctrl-c or ctrl-z: the driver sends the signal to the shell.
Type(s) ==
  /\ Alive /\ s \in Keyboard /\ keys < MaxKeys
  /\ pending' = pending \cup {s}
  /\ keys' = keys + 1
  /\ UNCHANGED <<table, mainVars, hLocals, frames, children>>

-----------------------------------------------------------------------------
Init ==
  /\ jobs = EmptyTable /\ nextjid = 1
  /\ mpc = "prompt" /\ mode = "BG" /\ mpid = 0 /\ mjid = 0 /\ mslot = 0
  /\ blocked = FALSE
  /\ cpu = "main"
  /\ hpc = [s \in Signals |-> "idle"]
  /\ hret = [s \in Signals |-> "none"]
  /\ hfg = [s \in Signals |-> 0]
  /\ reaped = 0 /\ hslot = 0 /\ hjid = 0
  /\ pending = {} /\ keys = 0
  /\ proc = [p \in Pids |-> "none"]
  /\ sig = [p \in Pids |-> {}]
  /\ copy = [p \in Pids |-> EmptyTable]

Handlers == \/ ChldStart \/ ChldWait \/ ChldStopped \/ ChldTerminated
            \/ ChldClear
            \/ \E s \in TtySignals : TtyStart(s) \/ TtyKill(s)
            \/ TstpJid \/ TstpStore
            \/ \E s \in Signals : Return(s)

Executing == \/ AddPid \/ AddState \/ AddJid \/ Unblock \/ WaitReturns
             \/ LoadPid \/ Continue \/ StoreState

Command == \/ \E p \in Pids, m \in Launch : Fork(p, m)
           \/ \E m \in Launch : ForkFails(m)
           \/ \E b \in Builtins : \/ \E i \in Slots : LookupJid(b, jobs[i].jid)
                                  \/ \E p \in Pids : LookupPid(b, p)
           \/ Quit

Process(p) == \/ Setpgid(p) \/ Execve(p) \/ Exit(p) \/ Killed(p) \/ Stopped(p)
              \/ \E s \in TtySignals : Inherited(p, s) \/ Raise(p, s)

Next == \/ \E s \in Signals : Deliver(s)
        \/ Handlers
        \/ Executing
        \/ Command
        \/ \E p \in Pids : Process(p)
        \/ \E s \in TtySignals : Type(s)

Spec == Init /\ [][Next]_vars

\* The shell's code runs and the kernel delivers signals; a child gets to
\* execve, dies of or stops on a signal, and its program ends by itself.
Fairness ==
  /\ WF_vars(Handlers \/ Executing)
  /\ \A s \in Signals : WF_vars(Deliver(s))
  /\ \A p \in Pids : /\ WF_vars(Setpgid(p)) /\ WF_vars(Execve(p))
                     /\ WF_vars(Killed(p)) /\ WF_vars(Stopped(p))
                     /\ WF_vars(Exit(p))

FairSpec == Spec /\ Fairness

-----------------------------------------------------------------------------
(* What holds in every session.                                            *)

TypeOK ==
  /\ jobs \in [Slots -> Job] /\ nextjid \in Nat \ {0}
  /\ mpc \in MainPcs /\ mode \in {"FG", "BG"}
  /\ mpid \in Pids \cup {0, -1} /\ mjid \in Nat /\ mslot \in Slots
  /\ blocked \in BOOLEAN
  /\ cpu \in Signals \cup {"main", "none"}
  /\ hpc \in [Signals -> HandlerPcs]
  /\ hret \in [Signals -> Signals \cup {"main", "none"}]
  /\ hfg \in [Signals -> Pids \cup {0}]
  /\ reaped \in Pids \cup {0} /\ hslot \in Slots /\ hjid \in Nat
  /\ pending \subseteq Signals /\ keys \in 0 .. MaxKeys
  /\ proc \in [Pids -> ProcStates]
  /\ sig \in [Pids -> SUBSET TtySignals]
  /\ copy \in [Pids -> [Slots -> Job]]

Adding == mpc \in {"addPid", "addState", "addJid"}

\* A child is never reaped between fork and the end of addjob: otherwise
\* addjob would record a dead process that nobody deletes again (eval blocks
\* SIGCHLD for that, tsh.c:221-257).
NoReapBeforeAdd == Adding /\ mpid \in Pids => proc[mpid] # "gone"

Unattended == {p \in Pids : proc[p] \in {"zombie", "stop"}}

\* Signals do not queue, so one SIGCHLD may stand for several children.  A
\* living shell with an unreaped zombie or an unreported stop still has
\* SIGCHLD pending or is in its handler (the loop at tsh.c:514).
ReapPromised == Alive /\ Unattended # {} =>
                  "CHLD" \in pending \/ hpc["CHLD"] # "idle"

-----------------------------------------------------------------------------
(* What holds in sessions where the user types neither fg nor bg, even     *)
(* though jobs are stopped and killed: Builtins = {}.                      *)

\* jobs[jid-1] is the slot of job jid, as sigchld_handler and sigtstp_handler
\* assume (tsh.c:523, 531, 607): slots are filled in order and only the last
\* one is emptied again.
SlotIsJid == \A i \in Slots : jobs[i].jid # 0 => jobs[i].jid = i + 1

\* A job is in the foreground only while eval adds it or waits for it (or
\* sigchld_handler is about to clear its entry).
ForegroundMeansWaiting ==
  \A i \in Slots : jobs[i].state = "FG" =>
    /\ mode = "FG" /\ mpc \in {"addJid", "unblock", "wait"} /\ mslot = i
    /\ jobs[i].pid = mpid \/ hpc["CHLD"] = "clear"

\* waitfg never spins on a process that was reaped, which nothing would end.
NeverWaitsForReaped ==
  InMain("wait") /\ mpid \in Pids /\ mpid = fgpid(jobs) => proc[mpid] # "gone"

\* ctrl-c and ctrl-z go to the job that eval is launching or waiting for and
\* to no other job, although the handler may be interrupted between fgpid
\* and kill.  (What happens with no foreground job is another matter.)
KeysReachTheWaitedJob ==
  [][\A s \in TtySignals : TtyKill(s) /\ hfg[s] # 0 => hfg[s] = mpid]_vars

-----------------------------------------------------------------------------
(* What must eventually happen, when nobody types ctrl-c or ctrl-z.        *)

\* Every child that dies is reaped, unless the shell exits first.
EveryDeathIsReaped ==
  \A p \in Pids : proc[p] = "zombie" ~> (proc[p] = "gone" \/ ~Alive)

\* waitfg ends, in sessions without fg: programs end, and their end empties
\* the entry of the job that is waited for.
WaitEnds == mpc = "wait" ~> mpc = "prompt"

-----------------------------------------------------------------------------
(* The shell implements Reaper.                                            *)

PhaseOf(s) == CASE s = "none" -> "new"
                [] s \in {"young", "pre", "run"} -> "alive"
                [] s = "stop" -> "stopping"
                [] s = "stopped" -> "stopped"
                [] s = "zombie" -> "dead"
                [] s = "gone" -> "reaped"

phaseBar     == [p \in Pids |-> PhaseOf(proc[p])]
launchingBar == IF Adding /\ mpid # -1 THEN mpid ELSE 0
bellBar      == "CHLD" \in pending \/ hpc["CHLD"] # "idle"

R == INSTANCE Reaper WITH Child <- Pids, phase <- phaseBar,
       launching <- launchingBar, bell <- bellBar, up <- Alive

\* Every behaviour of the shell is one of Reaper under this mapping.
ImplementsReaper == R!RSpec
=============================================================================
