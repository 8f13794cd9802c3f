------------------------------ MODULE Transfer ------------------------------
(***************************************************************************)
(* What CommPort promises of one direction of a connection: the messages   *)
(* arrive whole and in the order they were sent, each at most once, and a  *)
(* connection that ends loses only the last of them.                       *)
(***************************************************************************)
EXTENDS Naturals, Sequences

CONSTANT Message  \* whole messages: the text and the attached file

VARIABLES
  sent,  \* messages whose sending began in this connection
  got    \* messages the listener was given in this connection

TypeOK == sent \in Seq(Message) /\ got \in Seq(Message)

Init == sent = <<>> /\ got = <<>>

Send(m) == sent' = Append(sent, m) /\ UNCHANGED got

Deliver ==
  /\ Len(got) < Len(sent)
  /\ got' = Append(got, sent[Len(got) + 1])
  /\ UNCHANGED sent

\* A new connection.
Reconnect == sent' = <<>> /\ got' = <<>>

Next == (\E m \in Message : Send(m)) \/ Deliver \/ Reconnect

Spec == Init /\ [][Next]_<<sent, got>>

=============================================================================
