------------------------------ MODULE Reaper ------------------------------
(***************************************************************************)
(* What the shell promises about the children it forks, whatever happens   *)
(* to its job table: a child is announced (`bell') when it dies or stops,  *)
(* it is reaped once, never before the shell has recorded it, and the bell *)
(* is not silenced while somebody who died or stopped is unattended.       *)
(*                                                                         *)
(* In the shell the bell is SIGCHLD, pending or being handled; recording a *)
(* child is addjob.  sigchld_handler attends to any number of children for *)
(* one signal.                                                             *)
(***************************************************************************)
EXTENDS Integers

CONSTANT Child   \* 0 is not one of them

VARIABLES
  phase,      \* each child's life
  launching,  \* the child forked and not yet recorded, or 0
  bell,       \* the shell has been told of a change
  up          \* the shell has not exited

rvars == <<phase, launching, bell, up>>

Unattended == {c \in Child : phase[c] \in {"dead", "stopping"}}

RInit == /\ phase = [c \in Child |-> "new"]
         /\ launching = 0 /\ bell = FALSE /\ up = TRUE

Start(c) == /\ up /\ launching = 0 /\ phase[c] = "new"
            /\ phase' = [phase EXCEPT ![c] = "alive"]
            /\ launching' = c
            /\ UNCHANGED <<bell, up>>

Record == /\ launching # 0
          /\ launching' = 0
          /\ UNCHANGED <<phase, bell, up>>

Change(c, f) == /\ phase[c] = "alive" /\ f \in {"dead", "stopping"}
                /\ phase' = [phase EXCEPT ![c] = f]
                /\ bell' = (up \/ bell)
                /\ UNCHANGED <<launching, up>>

Attend(c) == /\ up /\ bell /\ c # launching /\ c \in Unattended
             /\ phase' = [phase EXCEPT ![c] =
                            IF @ = "dead" THEN "reaped" ELSE "stopped"]
             /\ UNCHANGED <<launching, bell, up>>

Wake(C) == /\ up
           /\ C # {} /\ C \subseteq {c \in Child :
                                       phase[c] \in {"stopping", "stopped"}}
           /\ phase' = [c \in Child |-> IF c \in C THEN "alive" ELSE phase[c]]
           /\ bell' = TRUE
           /\ UNCHANGED <<launching, up>>

Silence == /\ bell /\ Unattended = {}
           /\ bell' = FALSE
           /\ UNCHANGED <<phase, launching, up>>

Leave == /\ up /\ launching = 0
         /\ up' = FALSE /\ bell' = FALSE
         /\ UNCHANGED <<phase, launching>>

RNext == \/ \E c \in Child : Start(c) \/ Attend(c)
         \/ \E c \in Child, f \in {"dead", "stopping"} : Change(c, f)
         \/ \E C \in SUBSET Child : Wake(C)
         \/ Record \/ Silence \/ Leave

RSpec == RInit /\ [][RNext]_rvars
=============================================================================
