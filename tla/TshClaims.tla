----------------------------- MODULE TshClaims -----------------------------
(***************************************************************************)
(* Statements that comments of tsh.c make and that the code does not keep  *)
(* in every session.  Each is checked by a run of its own, in the smallest *)
(* session that shows the disagreement.                                    *)
(***************************************************************************)
EXTENDS Tsh

\* tsh.c:60, "At most 1 job can be in the FG state."  With a pid as argument,
\* fg stores FG in jobs[jid-1], which may be another job's slot.
AtMostOneFG ==
  \A i, j \in Slots : /\ jobs[i].state = "FG" /\ jobs[i].pid # 0
                      /\ jobs[j].state = "FG" /\ jobs[j].pid # 0
                      => i = j

\* tsh.c:193, "If the job is running in the foreground, wait for it to
\* terminate and then return."  The death of a background job makes
\* sigchld_handler delete the foreground job's entry.
WaitEndsWithTheJob ==
  [][mpc = "wait" /\ mpc' = "prompt" /\ mpid \in Pids =>
       proc[mpid] \notin {"young", "pre", "run"}]_vars
=============================================================================
