----------------------------- MODULE MCCommPort -----------------------------
(* Packets of two units; texts and files of less than one packet, of exactly *)
(* one, and of more.                                                         *)
EXTENDS CommPort

CONSTANTS plain, long, big, empty, refused

Texts == [m \in Message |-> CASE m = plain -> 2 [] m = long -> 3 [] OTHER -> 1]
Attachments == [m \in Message |-> CASE m = plain -> "none"
                                     [] m = refused -> "refused"
                                     [] OTHER -> "file"]
Files == [m \in Message |-> CASE m = long -> 2 [] m = big -> 3 [] OTHER -> 0]
=============================================================================
