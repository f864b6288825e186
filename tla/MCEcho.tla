------------------------------- MODULE MCEcho -------------------------------
(* The echo server with few clients, for TLC.                              *)
EXTENDS Echo

MCEnds  == Conns \X {"client", "server"}
MCBytes == Letters \cup {"upper " \o b : b \in Letters} \cup {"\n", "NUL"}
=============================================================================
