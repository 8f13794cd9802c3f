----------------------------- MODULE MCCommLink -----------------------------
(* CommLink with room for two threads of the data ports and three of the    *)
(* control port, which gets one more whenever only the default port closes. *)
EXTENDS CommLink

Threads == [p \in Port |-> IF p = "control" THEN 3 ELSE 2]
=============================================================================
