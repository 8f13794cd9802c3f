----------------------------- MODULE Mailboxes -----------------------------
(***************************************************************************)
(* What the channels of the message framework promise, without threads,    *)
(* mutexes and condition variables: each channel is a mailbox.  A message  *)
(* that is accepted is taken out in the order of arrival, and the messages *)
(* of one channel are handled one after the other, each of them once.      *)
(***************************************************************************)
EXTENDS Sequences

CONSTANTS Channel, Message, NoMessage

VARIABLES
  pending,  \* channel -> accepted messages, oldest first
  current,  \* channel -> the message that is being handled, or NoMessage
  done      \* channel -> the messages handled so far, oldest first

vars == <<pending, current, done>>

Init ==
  /\ pending = [c \in Channel |-> <<>>]
  /\ current = [c \in Channel |-> NoMessage]
  /\ done = [c \in Channel |-> <<>>]

Accept(c, m) ==
  /\ pending' = [pending EXCEPT ![c] = Append(@, m)]
  /\ UNCHANGED <<current, done>>

Begin(c) ==
  /\ current[c] = NoMessage
  /\ pending[c] # <<>>
  /\ current' = [current EXCEPT ![c] = Head(pending[c])]
  /\ pending' = [pending EXCEPT ![c] = Tail(@)]
  /\ UNCHANGED done

Finish(c) ==
  /\ current[c] # NoMessage
  /\ done' = [done EXCEPT ![c] = Append(@, current[c])]
  /\ current' = [current EXCEPT ![c] = NoMessage]
  /\ UNCHANGED pending

Next ==
  \E c \in Channel :
    \/ \E m \in Message : Accept(c, m)
    \/ Begin(c)
    \/ Finish(c)

Spec == Init /\ [][Next]_vars
=============================================================================
