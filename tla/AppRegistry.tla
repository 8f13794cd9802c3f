---------------------------- MODULE AppRegistry ----------------------------
(***************************************************************************)
(* What AppCore promises its companion device, without its processes,      *)
(* messages and signals: a persistent set of stored applications, of which *)
(* some have a process that the present AppCore has started.  A process is *)
(* started only for a stored application that has none, and a stored       *)
(* application is deleted only while it has no process.                    *)
(***************************************************************************)
CONSTANT AppId

VARIABLES
  stored,   \* the applications with a row in the app list database
  running   \* the applications with a process that AppCore started

vars == <<stored, running>>

TypeOK ==
  /\ stored \in SUBSET AppId
  /\ running \in SUBSET AppId

Init == stored = {} /\ running = {}

Store(a) ==
  /\ a \notin stored
  /\ stored' = stored \cup {a}
  /\ UNCHANGED running

Start(a) ==
  /\ a \in stored \ running
  /\ running' = running \cup {a}
  /\ UNCHANGED stored

Stop(a) ==
  /\ a \in running
  /\ running' = running \ {a}
  /\ UNCHANGED stored

Delete(a) ==
  /\ a \in stored \ running
  /\ stored' = stored \ {a}
  /\ UNCHANGED running

\* AppCore itself goes down: a later AppCore knows nothing of the processes.
GoDown == running' = {} /\ UNCHANGED stored

Next ==
  \/ \E a \in AppId : Store(a) \/ Start(a) \/ Stop(a) \/ Delete(a)
  \/ GoDown

Spec == Init /\ [][Next]_vars
=============================================================================
