---------------------------- MODULE MCOpelClient ----------------------------
(* The first request is a file of two packets, the second one a message.   *)
EXTENDS OpelClient

Sizes   == [i \in 1 .. N |-> IF i = 1 THEN 2 ELSE 1]
Ones    == [i \in 1 .. N |-> 1]
Answers == [i \in 1 .. N |-> IF i = 1 THEN 2 ELSE 1]
=============================================================================
