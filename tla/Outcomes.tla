------------------------------ MODULE Outcomes ------------------------------
(***************************************************************************)
(* What OPEL_Client promises of a request with a handler: the handler is   *)
(* called for the parts of a file in the order the companion sent them,    *)
(* then once more, for the end of the answer, a failed write or a timeout, *)
(* and never after that.                                                   *)
(***************************************************************************)
EXTENDS Naturals, Sequences

CONSTANT N  \* requests are numbered from 1 to N

VARIABLES
  asked,  \* how many requests were made
  calls   \* what the handler of each request was called with

\* A call tells what came, and which of the answers to the request it was.
Call == ({"part", "answer"} \X (Nat \ {0})) \cup ({"failed", "late"} \X {0})

TypeOK == asked \in 0 .. N /\ calls \in [1 .. N -> Seq(Call)]

Closed(i) == \E n \in DOMAIN calls[i] : calls[i][n][1] # "part"

Init == asked = 0 /\ calls = [i \in 1 .. N |-> <<>>]

Ask == asked < N /\ asked' = asked + 1 /\ UNCHANGED calls

Tell(i, what, number) ==
  /\ i <= asked
  /\ ~ Closed(i)
  /\ number = IF what \in {"part", "answer"} THEN Len(calls[i]) + 1 ELSE 0
  /\ calls' = [calls EXCEPT ![i] = Append(@, <<what, number>>)]
  /\ UNCHANGED asked

Next ==
  \/ Ask
  \/ \E i \in 1 .. N, what \in {"part", "answer", "failed", "late"} :
       \E number \in 0 .. Len(calls[i]) + 1 : Tell(i, what, number)

Spec == Init /\ [][Next]_<<asked, calls>>

=============================================================================
