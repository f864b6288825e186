------------------------------- MODULE MCTsh -------------------------------
(* Small sessions of the shell for TLC.                                    *)
EXTENDS TshClaims, TLC

CONSTANTS p1, p2, p3, p4

\* Nothing but identity distinguishes the processes.
Interchangeable == Permutations(Pids)
=============================================================================
