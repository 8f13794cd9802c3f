--------------------------- MODULE CommLinkProofs ---------------------------
(***************************************************************************)
(* Proofs about CommLink for any number of listening threads and events:   *)
(* the types; as long as the events do not overlap, that the route of the  *)
(* companion is there whenever it is removed and that CommChannel is up    *)
(* again once everything is handled; and, however they overlap, that a     *)
(* CommChannel that waits is known to AppCore and served by a thread.      *)
(***************************************************************************)
EXTENDS CommLink, FiniteSetTheorems, TLAPS

\* A thread is in a callback or handles a control message.
Busy(t) == pc[t] \notin Blocked \cup {"start"}

\* A thread serves the default port.
Serves(t) ==
  /\ t[1] = "default"
  /\ \/ pc[t] \in {"start", "accept", "listen", "connected", "closed"}
     \/ pc[t] = "notify" /\ then[t] = "listen"

\* A thread is about to start one that serves the default port.
Restarts(t) == pc[t] \in {"open", "runDefault"} \/ (pc[t] = "notify" /\ chan = "IDLE")

\* A thread is about to tell AppCore that CommChannel listens.
Announces(t) ==
  \/ pc[t] \in {"runControl", "setListening"}
  \/ pc[t] = "notify" /\ chan = "LISTENING_DEFAULT"

\* The places of a thread, where it may go on after a callback, and the state that it
\* read before.
PlacesOK(t) ==
  /\ pc[t] # "refused"
  /\ pc[t] = "start" => t[1] \in Port /\ port[t[1]] # "CLOSED"
  /\ pc[t] \in {"enable", "setLarge", "runLarge", "disable", "reopened"} => t[1] = "control"
  /\ then[t] \in {"none", "listen", "runLarge"}
  /\ then[t] = "runLarge" => t[1] = "control"
  /\ t[1] = "control" =>
       /\ pc[t] \notin {"open", "runDefault", "runControl", "setListening"}
       /\ pc[t] = "notify" => then[t] # "none"
  /\ then[t] # "none" => pc[t] = "notify" /\ chan # "IDLE"
  /\ pc[t] \in {"connected", "closed"} => seen[t] = chan

\* The states of the ports that a thread counts on.
PortsOK(t) ==
  /\ Serves(t) => (port["default"] = "CLOSED" <=> pc[t] = "closed")
  /\ pc[t] = "runDefault" => port["default"] # "CLOSED"
  /\ pc[t] \in {"runDefault", "runControl", "reopened"} => port["control"] # "CLOSED"
  /\ Restarts(t) \/ pc[t] \in {"runControl", "setListening"} => port["default"] # "CONNECTED"
  /\ pc[t] \in {"setLarge", "runLarge"} \/ then[t] = "runLarge"
       => port["largedata"] # "CLOSED"

\* CommChannel::start runs while CommChannel is idle, and nobody serves the default port
\* before it starts a thread for it.
StartOK(t) ==
  /\ pc[t] \in {"open", "runDefault", "runControl", "setListening"} => chan = "IDLE"
  /\ Restarts(t) => \A u \in Thread : ~Serves(u)
  /\ pc[t] = "notify" /\ chan = "IDLE" => routed

\* One thread is busy at a time, one serves the default port, and then the route is there
\* or about to be; the callback of a connection is still to come or has been handled.
OneAtATime ==
  /\ \A t, u \in Thread : Busy(t) /\ Busy(u) => t = u
  /\ \A t, u \in Thread : Serves(t) /\ Serves(u) => t = u
  /\ \A t \in Thread : Serves(t) => (routed /\ chan # "IDLE") \/ \E u \in Thread : Announces(u)
  /\ \A t \in Thread : PlacesOK(t) /\ PortsOK(t) /\ StartOK(t)
  /\ port["default"] = "CONNECTED" /\ chan = "LISTENING_DEFAULT" =>
       \E t \in Thread : t[1] = "default" /\ pc[t] = "connected"

\* Unless a socket did not open, both ports are served or about to be.
Served ==
  /\ \E t \in Thread : Serves(t) \/ Restarts(t)
  /\ \E t \in Thread : \/ t[1] = "control" /\ pc[t] # "none"
                      \/ pc[t] \in {"open", "runDefault", "runControl"}
  /\ port["control"] = "CLOSED" =>
       \E t \in Thread : pc[t] = "open" \/ (t[1] = "control" /\ pc[t] = "closed")

LinkOK == OneAtATime /\ (~failed => Served)

IInv == TypeOK /\ (overlaps = 0 => LinkOK)

-----------------------------------------------------------------------------
(* What the steps are made of.                                             *)

LEMMA ThreadsAre ==
  /\ Main \in Thread /\ Main[1] = "main"
  /\ \A p \in Port : \A i \in 1..MaxThreads[p] : <<p, i>> \in Listener /\ <<p, i>>[1] = p
  /\ \A t \in Listener : t \in Thread /\ t[1] \in Port
  /\ \A t \in Thread : t[1] \in Port \cup {"main"}
  BY DEF Thread, Listener, Main

\* Only the place of thread t changes, and where it goes on.
Moves(t) ==
  \A u \in Thread : u # t => pc'[u] = pc[u] /\ then'[u] = then[u]

LEMMA SetGives ==
  ASSUME NEW t \in Thread, NEW state, NEW k, TypeOK, Set(t, state, k)
  PROVE  /\ Moves(t) /\ chan' = state
         /\ chan = state => pc'[t] = k /\ then'[t] = "none"
         /\ chan # state => pc'[t] = "notify" /\ then'[t] = k
  BY DEF TypeOK, Set, Moves

LEMMA ReturnGives ==
  ASSUME NEW t \in Thread, TypeOK, Return(t)
  PROVE  Moves(t) /\ pc'[t] = then[t] /\ then'[t] = "none"
  BY DEF TypeOK, Return, Moves

\* A new thread begins in listeningLoop.
LEMMA RunGives ==
  ASSUME NEW t \in Thread, NEW p \in Port, NEW k, TypeOK, pc[t] # "none", RunListening(t, p, k)
  PROVE  \E n \in Thread :
           /\ n # t /\ n[1] = p /\ pc[n] = "none"
           /\ pc'[t] = k /\ pc'[n] = "start"
           /\ \A u \in Thread : u \notin {t, n} => pc'[u] = pc[u]
<1>1. PICK i \in 1..MaxThreads[p] :
         pc[<<p, i>>] = "none" /\ pc' = [pc EXCEPT ![t] = k, ![<<p, i>>] = "start"]
  BY DEF RunListening
<1>2. <<p, i>> \in Thread /\ <<p, i>>[1] = p
  BY ThreadsAre
<1> DEFINE n == <<p, i>>
<1>3. n # t /\ pc'[t] = k /\ pc'[n] = "start"
  BY <1>1, <1>2 DEF TypeOK
<1>4. \A u \in Thread : u \notin {t, n} => pc'[u] = pc[u]
  BY <1>1, <1>2 DEF TypeOK
<1> QED
  BY <1>1, <1>2, <1>3, <1>4

\* closeConnection by a thread that is not in accept.
LEMMA CloseGives ==
  ASSUME NEW t \in Thread, NEW k, TypeOK, t[1] \in Port, pc[t] # "accept", CloseConnection(t, k)
  PROVE  /\ port'[t[1]] = "CLOSED" /\ \A p \in Port : p # t[1] => port'[p] = port[p]
         /\ \A u \in Thread : u # t =>
              /\ then'[u] = then[u]
              /\ pc'[u] = IF u[1] = t[1] /\ pc[u] = "accept" THEN "none" ELSE pc[u]
         /\ port[t[1]] = "CLOSED" => pc'[t] = k /\ then' = then
         /\ port[t[1]] # "CLOSED" => pc'[t] = "closed" /\ then'[t] = k /\ seen'[t] = chan
<1> DEFINE left == [u \in Thread |-> IF u[1] = t[1] /\ pc[u] = "accept" THEN "none" ELSE pc[u]]
<1>1. /\ port' = [port EXCEPT ![t[1]] = "CLOSED"]
      /\ port[t[1]] = "CLOSED" => pc' = [left EXCEPT ![t] = k] /\ then' = then
      /\ port[t[1]] # "CLOSED" => pc' = [left EXCEPT ![t] = "closed"]
                                  /\ then' = [then EXCEPT ![t] = k]
                                  /\ seen' = [seen EXCEPT ![t] = chan]
  BY DEF CloseConnection
<1>2. /\ port'[t[1]] = "CLOSED" /\ \A p \in Port : p # t[1] => port'[p] = port[p]
  BY <1>1 DEF TypeOK
<1>3. CASE port[t[1]] = "CLOSED"
  BY <1>1, <1>2, <1>3
<1>4. CASE port[t[1]] # "CLOSED"
  BY <1>1, <1>2, <1>4 DEF TypeOK
<1> QED
  BY <1>3, <1>4

LEMMA OpenGives ==
  ASSUME NEW ports \in SUBSET Port, NEW bad, TypeOK, Open(ports, bad)
  PROVE  /\ \A p \in Port : port[p] # "CLOSED" => port'[p] = port[p]
         /\ \A p \in Port : port[p] = "CLOSED" => port'[p] # "CONNECTED"
         /\ \A p \in Port \ ports : port'[p] = port[p]
         /\ bad = {} => \A p \in ports : port'[p] # "CLOSED"
         /\ ~failed' => ~failed /\ bad = {}
  BY DEF Open, TypeOK

-----------------------------------------------------------------------------
(* Types                                                                   *)

LEMMA TypesHold == TypeOK /\ [Next]_vars => TypeOK'
<1> SUFFICES ASSUME TypeOK, [Next]_vars PROVE TypeOK'
  OBVIOUS
<1> USE DEF TypeOK
<1>1. Event => overlaps' \in 0..MaxOverlaps
  BY CommLinkAssumption DEF Event
<1>2. ASSUME NEW t \in Thread, NEW state \in ChannelState, NEW k \in Pc, Set(t, state, k)
      PROVE  chan' \in ChannelState /\ pc' \in [Thread -> Pc] /\ then' \in [Thread -> Pc]
  BY <1>2 DEF Set, Pc, Blocked
<1>3. ASSUME NEW t \in Thread, Return(t)
      PROVE  pc' \in [Thread -> Pc] /\ then' \in [Thread -> Pc]
  BY <1>3 DEF Return, Pc, Blocked
<1>4. ASSUME NEW t \in Thread, NEW p, NEW k \in Pc, RunListening(t, p, k)
      PROVE  pc' \in [Thread -> Pc]
  BY <1>4 DEF RunListening, Pc, Blocked
<1>5. ASSUME NEW t \in Thread, NEW k \in Pc, CloseConnection(t, k)
      PROVE  port' \in [Port -> PortState] /\ pc' \in [Thread -> Pc]
             /\ seen' \in [Thread -> ChannelState] /\ then' \in [Thread -> Pc]
  <2> DEFINE left == [u \in Thread |-> IF u[1] = t[1] /\ pc[u] = "accept" THEN "none" ELSE pc[u]]
  <2>1. "CLOSED" \in PortState /\ {"none", "closed"} \subseteq Pc
    BY DEF PortState, Pc, Blocked
  <2>2. left \in [Thread -> Pc]
    BY <2>1
  <2>3. /\ port' = [port EXCEPT ![t[1]] = "CLOSED"]
        /\ \/ pc' = [left EXCEPT ![t] = k] /\ seen' = seen /\ then' = then
           \/ /\ pc' = [left EXCEPT ![t] = "closed"]
              /\ seen' = [seen EXCEPT ![t] = chan] /\ then' = [then EXCEPT ![t] = k]
    BY <1>5 DEF CloseConnection
  <2> HIDE DEF left
  <2> QED
    BY <2>1, <2>2, <2>3
<1>6. ASSUME NEW ports, NEW bad, Open(ports, bad)
      PROVE  port' \in [Port -> PortState] /\ failed' \in BOOLEAN
  BY <1>6 DEF Open, PortState
<1>7. ASSUME NEW t \in Thread, Forget(t) PROVE seen' \in [Thread -> ChannelState]
  BY <1>7 DEF Forget, ChannelState
<1>8. CASE \E t \in Thread : Step(t)
  <2>1. PICK t \in Thread : Step(t)
    BY <1>8
  <2>2. overlaps' \in 0..MaxOverlaps /\ then[t] \in Pc
    BY <2>1 DEF Step
  <2>3. CASE Start(t)
    BY <2>2, <2>3 DEF Start, Pc, Blocked
  <2>4. CASE Refused(t)
    BY <1>5, <2>2, <2>4 DEF Refused, Pc
  <2>5. CASE Connected(t)
    BY <1>2, <1>7, <2>2, <2>5 DEF Connected, Pc, Blocked, ChannelState
  <2>6. CASE DefaultClosed(t) \/ LargeDataClosed(t)
    BY <1>2, <1>3, <1>7, <2>2, <2>6 DEF DefaultClosed, LargeDataClosed, ChannelState
  <2>7. CASE ControlClosed(t)
    BY <1>3, <1>6, <1>7, <2>2, <2>7 DEF ControlClosed, Pc
  <2>8. CASE ControlReopened(t)
    BY <1>4, <2>2, <2>8 DEF ControlReopened, Pc, Blocked
  <2>9. CASE Notify(t)
    BY <1>3, <2>2, <2>9 DEF Notify, Pc
  <2>10. CASE StartOpen(t)
    BY <1>3, <1>6, <2>2, <2>10 DEF StartOpen, Pc
  <2>11. CASE StartRunDefault(t) \/ StartRunControl(t) \/ EnableRun(t)
    BY <1>4, <2>2, <2>11 DEF StartRunDefault, StartRunControl, EnableRun, Pc, Blocked
  <2>12. CASE StartListening(t) \/ EnableSet(t) \/ Disable(t)
    BY <1>2, <2>2, <2>12 DEF StartListening, EnableSet, Disable, Pc, Blocked, ChannelState
  <2>13. CASE EnableOpen(t)
    BY <1>6, <2>2, <2>13 DEF EnableOpen, Pc, Blocked
  <2> QED
    BY <2>1, <2>3, <2>4, <2>5, <2>6, <2>7, <2>8, <2>9, <2>10, <2>11, <2>12, <2>13 DEF Step
<1>9. CASE \E t \in Listener : Accept(t) \/ Close(t)
  <2>1. PICK t \in Listener : Accept(t) \/ Close(t)
    BY <1>9
  <2>2. t \in Thread
    BY ThreadsAre
  <2>3. CASE Accept(t)
    BY <1>1, <2>2, <2>3 DEF Accept, PortState, Pc, Blocked
  <2>4. CASE Close(t)
    BY <1>1, <1>5, <2>2, <2>4 DEF Close, Pc, Blocked
  <2> QED
    BY <2>1, <2>3, <2>4
<1>10. CASE \E t \in Listener : \E command \in {"enable", "disable"} : Receive(t, command)
  BY <1>1, <1>10, ThreadsAre DEF Receive, Pc
<1>11. CASE UNCHANGED vars
  BY <1>11 DEF vars
<1> QED
  BY <1>8, <1>9, <1>10, <1>11 DEF Next

-----------------------------------------------------------------------------
(* Every step keeps LinkOK.  In each lemma its parts come in their order.  *)

USE DEF Moves, PlacesOK, PortsOK, StartOK, Busy, Serves, Restarts, Announces, Blocked

LEMMA StartKeeps ==
  ASSUME NEW t \in Thread, TypeOK, LinkOK, Start(t)
  PROVE  LinkOK'
<1>1. \A u, v \in Thread : Busy(u)' /\ Busy(v)' => u = v
  BY ThreadsAre DEF LinkOK, OneAtATime, TypeOK, Start
<1>2. \A u, v \in Thread : Serves(u)' /\ Serves(v)' => u = v
  BY ThreadsAre DEF LinkOK, OneAtATime, TypeOK, Start
<1>3. \A u \in Thread :
       Serves(u)' => (routed' /\ chan' # "IDLE") \/ \E v \in Thread : Announces(v)'
  BY ThreadsAre DEF LinkOK, OneAtATime, TypeOK, Start
<1>4. \A u \in Thread : PlacesOK(u)'
  BY ThreadsAre DEF LinkOK, OneAtATime, TypeOK, Start
<1>5. \A u \in Thread : PortsOK(u)'
  BY ThreadsAre DEF LinkOK, OneAtATime, TypeOK, Start
<1>6. \A u \in Thread : StartOK(u)'
  BY ThreadsAre DEF LinkOK, OneAtATime, TypeOK, Start
<1>7. (port["default"] = "CONNECTED" /\ chan = "LISTENING_DEFAULT" =>
        \E u \in Thread : u[1] = "default" /\ pc[u] = "connected")'
  BY ThreadsAre DEF LinkOK, OneAtATime, TypeOK, Start
<1>8. ~failed' => Served'
  BY ThreadsAre DEF LinkOK, OneAtATime, TypeOK, Served, Start
<1> QED
  BY <1>1, <1>2, <1>3, <1>4, <1>5, <1>6, <1>7, <1>8 DEF LinkOK, OneAtATime

LEMMA ConnectedKeeps ==
  ASSUME NEW t \in Thread, TypeOK, LinkOK, Connected(t)
  PROVE  LinkOK'
<1>1. \A u, v \in Thread : Busy(u)' /\ Busy(v)' => u = v
  BY SetGives, ThreadsAre DEF LinkOK, OneAtATime, TypeOK, Connected
<1>2. \A u, v \in Thread : Serves(u)' /\ Serves(v)' => u = v
  BY SetGives, ThreadsAre DEF LinkOK, OneAtATime, TypeOK, Connected
<1>3. \A u \in Thread :
       Serves(u)' => (routed' /\ chan' # "IDLE") \/ \E v \in Thread : Announces(v)'
  BY SetGives, ThreadsAre DEF LinkOK, OneAtATime, TypeOK, Connected
<1>4. \A u \in Thread : PlacesOK(u)'
  BY SetGives, ThreadsAre DEF LinkOK, OneAtATime, TypeOK, Connected
<1>5. \A u \in Thread : PortsOK(u)'
  BY SetGives, ThreadsAre DEF LinkOK, OneAtATime, TypeOK, Connected
<1>6. \A u \in Thread : StartOK(u)'
  BY SetGives, ThreadsAre DEF LinkOK, OneAtATime, TypeOK, Connected
<1>7. (port["default"] = "CONNECTED" /\ chan = "LISTENING_DEFAULT" =>
        \E u \in Thread : u[1] = "default" /\ pc[u] = "connected")'
  BY SetGives, ThreadsAre DEF LinkOK, OneAtATime, TypeOK, Connected
<1>8. ~failed' => Served'
  BY SetGives, ThreadsAre DEF LinkOK, OneAtATime, TypeOK, Served, Connected
<1> QED
  BY <1>1, <1>2, <1>3, <1>4, <1>5, <1>6, <1>7, <1>8 DEF LinkOK, OneAtATime

LEMMA DefaultClosedKeeps ==
  ASSUME NEW t \in Thread, TypeOK, LinkOK, DefaultClosed(t)
  PROVE  LinkOK'
<1>1. \A u, v \in Thread : Busy(u)' /\ Busy(v)' => u = v
  BY SetGives, ReturnGives, ThreadsAre DEF LinkOK, OneAtATime, TypeOK, DefaultClosed
<1>2. \A u, v \in Thread : Serves(u)' /\ Serves(v)' => u = v
  BY SetGives, ReturnGives, ThreadsAre DEF LinkOK, OneAtATime, TypeOK, DefaultClosed
<1>3. \A u \in Thread :
       Serves(u)' => (routed' /\ chan' # "IDLE") \/ \E v \in Thread : Announces(v)'
  BY SetGives, ReturnGives, ThreadsAre DEF LinkOK, OneAtATime, TypeOK, DefaultClosed
<1>4. \A u \in Thread : PlacesOK(u)'
  BY SetGives, ReturnGives, ThreadsAre DEF LinkOK, OneAtATime, TypeOK, DefaultClosed
<1>5. \A u \in Thread : PortsOK(u)'
  BY SetGives, ReturnGives, ThreadsAre DEF LinkOK, OneAtATime, TypeOK, DefaultClosed
<1>6. \A u \in Thread : StartOK(u)'
  BY SetGives, ReturnGives, ThreadsAre DEF LinkOK, OneAtATime, TypeOK, DefaultClosed
<1>7. (port["default"] = "CONNECTED" /\ chan = "LISTENING_DEFAULT" =>
        \E u \in Thread : u[1] = "default" /\ pc[u] = "connected")'
  BY SetGives, ReturnGives, ThreadsAre DEF LinkOK, OneAtATime, TypeOK, DefaultClosed
<1>8. ~failed' => Served'
  BY SetGives, ReturnGives, ThreadsAre DEF LinkOK, OneAtATime, TypeOK, Served, DefaultClosed
<1> QED
  BY <1>1, <1>2, <1>3, <1>4, <1>5, <1>6, <1>7, <1>8 DEF LinkOK, OneAtATime

LEMMA LargeDataClosedKeeps ==
  ASSUME NEW t \in Thread, TypeOK, LinkOK, LargeDataClosed(t)
  PROVE  LinkOK'
<1>1. \A u, v \in Thread : Busy(u)' /\ Busy(v)' => u = v
  BY SetGives, ReturnGives, ThreadsAre DEF LinkOK, OneAtATime, TypeOK, LargeDataClosed
<1>2. \A u, v \in Thread : Serves(u)' /\ Serves(v)' => u = v
  BY SetGives, ReturnGives, ThreadsAre DEF LinkOK, OneAtATime, TypeOK, LargeDataClosed
<1>3. \A u \in Thread :
       Serves(u)' => (routed' /\ chan' # "IDLE") \/ \E v \in Thread : Announces(v)'
  BY SetGives, ReturnGives, ThreadsAre DEF LinkOK, OneAtATime, TypeOK, LargeDataClosed
<1>4. \A u \in Thread : PlacesOK(u)'
  BY SetGives, ReturnGives, ThreadsAre DEF LinkOK, OneAtATime, TypeOK, LargeDataClosed
<1>5. \A u \in Thread : PortsOK(u)'
  BY SetGives, ReturnGives, ThreadsAre DEF LinkOK, OneAtATime, TypeOK, LargeDataClosed
<1>6. \A u \in Thread : StartOK(u)'
  BY SetGives, ReturnGives, ThreadsAre DEF LinkOK, OneAtATime, TypeOK, LargeDataClosed
<1>7. (port["default"] = "CONNECTED" /\ chan = "LISTENING_DEFAULT" =>
        \E u \in Thread : u[1] = "default" /\ pc[u] = "connected")'
  BY SetGives, ReturnGives, ThreadsAre DEF LinkOK, OneAtATime, TypeOK, LargeDataClosed
<1>8. ~failed' => Served'
  BY SetGives, ReturnGives, ThreadsAre DEF LinkOK, OneAtATime, TypeOK, Served, LargeDataClosed
<1> QED
  BY <1>1, <1>2, <1>3, <1>4, <1>5, <1>6, <1>7, <1>8 DEF LinkOK, OneAtATime

LEMMA ControlClosedKeeps ==
  ASSUME NEW t \in Thread, TypeOK, LinkOK, ControlClosed(t)
  PROVE  LinkOK'
<1>1. /\ pc[t] = "closed" /\ t[1] = "control" /\ UNCHANGED <<chan, routed>> /\ Moves(t)
      /\ \A p \in Port : port[p] # "CLOSED" => port'[p] = port[p]
      /\ port'["default"] = port["default"]
      /\ ~failed' => ~failed
      /\ \/ pc'[t] = then[t] /\ then'[t] = "none" /\ (failed' \/ seen[t] = "IDLE")
         \/ pc'[t] = "reopened" /\ then'[t] = then[t] /\ port'["control"] # "CLOSED"
  <2>1. /\ pc[t] = "closed" /\ t[1] = "control" /\ UNCHANGED <<chan, routed>>
    BY DEF ControlClosed
  <2>2. CASE seen[t] = "IDLE" /\ Return(t) /\ UNCHANGED <<port, failed>>
    BY <2>1, <2>2, ReturnGives
  <2>3. CASE Open({"control"}, {}) /\ pc' = [pc EXCEPT ![t] = "reopened"] /\ UNCHANGED then
    <3>1. /\ \A p \in Port : port[p] # "CLOSED" => port'[p] = port[p]
          /\ port'["default"] = port["default"] /\ port'["control"] # "CLOSED"
          /\ ~failed' => ~failed
      BY <2>3, OpenGives DEF Port
    <3> QED
      BY <2>1, <2>3, <3>1 DEF TypeOK
  <2>4. CASE Open({"control"}, {"control"}) /\ Return(t)
    <3>1. /\ \A p \in Port : port[p] # "CLOSED" => port'[p] = port[p]
          /\ port'["default"] = port["default"] /\ failed'
      BY <2>4, OpenGives DEF Port
    <3> QED
      BY <2>1, <2>4, <3>1, ReturnGives
  <2> QED
    BY <2>2, <2>3, <2>4 DEF ControlClosed
<1>2. \A u, v \in Thread : Busy(u)' /\ Busy(v)' => u = v
  BY <1>1, ThreadsAre DEF LinkOK, OneAtATime, TypeOK, Port
<1>3. \A u, v \in Thread : Serves(u)' /\ Serves(v)' => u = v
  BY <1>1, ThreadsAre DEF LinkOK, OneAtATime, TypeOK, Port
<1>4. \A u \in Thread :
       Serves(u)' => (routed' /\ chan' # "IDLE") \/ \E v \in Thread : Announces(v)'
  BY <1>1, ThreadsAre DEF LinkOK, OneAtATime, TypeOK, Port
<1>5. \A u \in Thread : PlacesOK(u)'
  BY <1>1, ThreadsAre DEF LinkOK, OneAtATime, TypeOK, Port
<1>6. \A u \in Thread : PortsOK(u)'
  BY <1>1, ThreadsAre DEF LinkOK, OneAtATime, TypeOK, Port
<1>7. \A u \in Thread : StartOK(u)'
  BY <1>1, ThreadsAre DEF LinkOK, OneAtATime, TypeOK, Port
<1>8. (port["default"] = "CONNECTED" /\ chan = "LISTENING_DEFAULT" =>
        \E u \in Thread : u[1] = "default" /\ pc[u] = "connected")'
  BY <1>1, ThreadsAre DEF LinkOK, OneAtATime, TypeOK, Port
<1>9. ~failed' => Served'
  BY <1>1, ThreadsAre DEF LinkOK, OneAtATime, TypeOK, Served, Port
<1> QED
  BY <1>2, <1>3, <1>4, <1>5, <1>6, <1>7, <1>8, <1>9 DEF LinkOK, OneAtATime

LEMMA ControlReopenedKeeps ==
  ASSUME NEW t \in Thread, TypeOK, LinkOK, ControlReopened(t)
  PROVE  LinkOK'
<1>1. /\ pc[t] = "reopened" /\ \A u \in Thread : u # t => then'[u] = then[u]
      /\ then'[t] = "none" /\ UNCHANGED <<chan, port, seen, routed, failed>>
  BY DEF ControlReopened, TypeOK
<1>2. PICK n \in Thread :
         /\ n # t /\ n[1] = "control" /\ pc[n] = "none"
         /\ pc'[t] = then[t] /\ pc'[n] = "start"
         /\ \A u \in Thread : u \notin {t, n} => pc'[u] = pc[u]
  BY RunGives DEF ControlReopened, Port
<1>3. \A u, v \in Thread : Busy(u)' /\ Busy(v)' => u = v
  BY <1>1, <1>2, ThreadsAre DEF LinkOK, OneAtATime, TypeOK, Port
<1>4. \A u, v \in Thread : Serves(u)' /\ Serves(v)' => u = v
  BY <1>1, <1>2, ThreadsAre DEF LinkOK, OneAtATime, TypeOK, Port
<1>5. \A u \in Thread :
       Serves(u)' => (routed' /\ chan' # "IDLE") \/ \E v \in Thread : Announces(v)'
  BY <1>1, <1>2, ThreadsAre DEF LinkOK, OneAtATime, TypeOK, Port
<1>6. \A u \in Thread : PlacesOK(u)'
  BY <1>1, <1>2, ThreadsAre DEF LinkOK, OneAtATime, TypeOK, Port
<1>7. \A u \in Thread : PortsOK(u)'
  BY <1>1, <1>2, ThreadsAre DEF LinkOK, OneAtATime, TypeOK, Port
<1>8. \A u \in Thread : StartOK(u)'
  BY <1>1, <1>2, ThreadsAre DEF LinkOK, OneAtATime, TypeOK, Port
<1>9. (port["default"] = "CONNECTED" /\ chan = "LISTENING_DEFAULT" =>
        \E u \in Thread : u[1] = "default" /\ pc[u] = "connected")'
  BY <1>1, <1>2, ThreadsAre DEF LinkOK, OneAtATime, TypeOK, Port
<1>10. ~failed' => Served'
  BY <1>1, <1>2, ThreadsAre DEF LinkOK, OneAtATime, TypeOK, Served, Port
<1> QED
  BY <1>3, <1>4, <1>5, <1>6, <1>7, <1>8, <1>9, <1>10 DEF LinkOK, OneAtATime

LEMMA NotifyKeeps ==
  ASSUME NEW t \in Thread, TypeOK, LinkOK, Notify(t)
  PROVE  LinkOK'
<1>1. \A u, v \in Thread : Busy(u)' /\ Busy(v)' => u = v
  BY ReturnGives, ThreadsAre DEF LinkOK, OneAtATime, TypeOK, Notify
<1>2. \A u, v \in Thread : Serves(u)' /\ Serves(v)' => u = v
  BY ReturnGives, ThreadsAre DEF LinkOK, OneAtATime, TypeOK, Notify
<1>3. \A u \in Thread :
       Serves(u)' => (routed' /\ chan' # "IDLE") \/ \E v \in Thread : Announces(v)'
  BY ReturnGives, ThreadsAre DEF LinkOK, OneAtATime, TypeOK, Notify
<1>4. \A u \in Thread : PlacesOK(u)'
  BY ReturnGives, ThreadsAre DEF LinkOK, OneAtATime, TypeOK, Notify
<1>5. \A u \in Thread : PortsOK(u)'
  BY ReturnGives, ThreadsAre DEF LinkOK, OneAtATime, TypeOK, Notify
<1>6. \A u \in Thread : StartOK(u)'
  BY ReturnGives, ThreadsAre DEF LinkOK, OneAtATime, TypeOK, Notify
<1>7. (port["default"] = "CONNECTED" /\ chan = "LISTENING_DEFAULT" =>
        \E u \in Thread : u[1] = "default" /\ pc[u] = "connected")'
  BY ReturnGives, ThreadsAre DEF LinkOK, OneAtATime, TypeOK, Notify
<1>8. ~failed' => Served'
  BY ReturnGives, ThreadsAre DEF LinkOK, OneAtATime, TypeOK, Served, Notify
<1> QED
  BY <1>1, <1>2, <1>3, <1>4, <1>5, <1>6, <1>7, <1>8 DEF LinkOK, OneAtATime

LEMMA StartOpenKeeps ==
  ASSUME NEW t \in Thread, TypeOK, LinkOK, StartOpen(t)
  PROVE  LinkOK'
<1>1. /\ pc[t] = "open" /\ UNCHANGED <<chan, routed>> /\ Moves(t)
      /\ \A p \in Port : port[p] # "CLOSED" => port'[p] = port[p]
      /\ \A p \in Port : port[p] = "CLOSED" => port'[p] # "CONNECTED"
      /\ ~failed' => ~failed
      /\ \/ pc'[t] = then[t] /\ then'[t] = "none" /\ failed'
         \/ /\ pc'[t] = "runDefault" /\ then'[t] = then[t]
            /\ port'["default"] # "CLOSED" /\ port'["control"] # "CLOSED"
  <2>1. PICK bad \in SUBSET {"default", "control"} :
          /\ Open({"default", "control"}, bad)
          /\ IF bad = {} THEN pc' = [pc EXCEPT ![t] = "runDefault"] /\ UNCHANGED then
                        ELSE Return(t)
    BY DEF StartOpen
  <2>2. /\ \A p \in Port : port[p] # "CLOSED" => port'[p] = port[p]
        /\ \A p \in Port : port[p] = "CLOSED" => port'[p] # "CONNECTED"
        /\ bad = {} => port'["default"] # "CLOSED" /\ port'["control"] # "CLOSED"
        /\ ~failed' => ~failed /\ bad = {}
    BY <2>1, OpenGives DEF Port
  <2>3. CASE bad = {}
    BY <2>1, <2>2, <2>3 DEF StartOpen, TypeOK
  <2>4. CASE bad # {}
    BY <2>1, <2>2, <2>4, ReturnGives DEF StartOpen
  <2> QED
    BY <2>3, <2>4
<1>2. \A u, v \in Thread : Busy(u)' /\ Busy(v)' => u = v
  BY <1>1, ThreadsAre DEF LinkOK, OneAtATime, TypeOK, Port
<1>3. \A u, v \in Thread : Serves(u)' /\ Serves(v)' => u = v
  BY <1>1, ThreadsAre DEF LinkOK, OneAtATime, TypeOK, Port
<1>4. \A u \in Thread :
       Serves(u)' => (routed' /\ chan' # "IDLE") \/ \E v \in Thread : Announces(v)'
  BY <1>1, ThreadsAre DEF LinkOK, OneAtATime, TypeOK, Port
<1>5. \A u \in Thread : PlacesOK(u)'
  BY <1>1, ThreadsAre DEF LinkOK, OneAtATime, TypeOK, Port
<1>6. \A u \in Thread : PortsOK(u)'
  BY <1>1, ThreadsAre DEF LinkOK, OneAtATime, TypeOK, Port
<1>7. \A u \in Thread : StartOK(u)'
  BY <1>1, ThreadsAre DEF LinkOK, OneAtATime, TypeOK, Port
<1>8. (port["default"] = "CONNECTED" /\ chan = "LISTENING_DEFAULT" =>
        \E u \in Thread : u[1] = "default" /\ pc[u] = "connected")'
  BY <1>1, ThreadsAre DEF LinkOK, OneAtATime, TypeOK, Port
<1>9. ~failed' => Served'
  BY <1>1, ThreadsAre DEF LinkOK, OneAtATime, TypeOK, Served, Port
<1> QED
  BY <1>2, <1>3, <1>4, <1>5, <1>6, <1>7, <1>8, <1>9 DEF LinkOK, OneAtATime

LEMMA StartRunDefaultKeeps ==
  ASSUME NEW t \in Thread, TypeOK, LinkOK, StartRunDefault(t)
  PROVE  LinkOK'
<1>1. /\ pc[t] = "runDefault" /\ \A u \in Thread : u # t => then'[u] = then[u]
      /\ then'[t] = then[t] /\ UNCHANGED <<chan, port, seen, routed, failed>>
  BY DEF StartRunDefault, TypeOK
<1>2. PICK n \in Thread :
         /\ n # t /\ n[1] = "default" /\ pc[n] = "none"
         /\ pc'[t] = "runControl" /\ pc'[n] = "start"
         /\ \A u \in Thread : u \notin {t, n} => pc'[u] = pc[u]
  BY RunGives DEF StartRunDefault, Port
<1>3. \A u, v \in Thread : Busy(u)' /\ Busy(v)' => u = v
  BY <1>1, <1>2, ThreadsAre DEF LinkOK, OneAtATime, TypeOK, Port
<1>4. \A u, v \in Thread : Serves(u)' /\ Serves(v)' => u = v
  BY <1>1, <1>2, ThreadsAre DEF LinkOK, OneAtATime, TypeOK, Port
<1>5. \A u \in Thread :
       Serves(u)' => (routed' /\ chan' # "IDLE") \/ \E v \in Thread : Announces(v)'
  BY <1>1, <1>2, ThreadsAre DEF LinkOK, OneAtATime, TypeOK, Port
<1>6. \A u \in Thread : PlacesOK(u)'
  BY <1>1, <1>2, ThreadsAre DEF LinkOK, OneAtATime, TypeOK, Port
<1>7. \A u \in Thread : PortsOK(u)'
  BY <1>1, <1>2, ThreadsAre DEF LinkOK, OneAtATime, TypeOK, Port
<1>8. \A u \in Thread : StartOK(u)'
  BY <1>1, <1>2, ThreadsAre DEF LinkOK, OneAtATime, TypeOK, Port
<1>9. (port["default"] = "CONNECTED" /\ chan = "LISTENING_DEFAULT" =>
        \E u \in Thread : u[1] = "default" /\ pc[u] = "connected")'
  BY <1>1, <1>2, ThreadsAre DEF LinkOK, OneAtATime, TypeOK, Port
<1>10. ~failed' => Served'
  BY <1>1, <1>2, ThreadsAre DEF LinkOK, OneAtATime, TypeOK, Served, Port
<1> QED
  BY <1>3, <1>4, <1>5, <1>6, <1>7, <1>8, <1>9, <1>10 DEF LinkOK, OneAtATime

LEMMA StartRunControlKeeps ==
  ASSUME NEW t \in Thread, TypeOK, LinkOK, StartRunControl(t)
  PROVE  LinkOK'
<1>1. /\ pc[t] = "runControl" /\ \A u \in Thread : u # t => then'[u] = then[u]
      /\ then'[t] = then[t] /\ UNCHANGED <<chan, port, seen, routed, failed>>
  BY DEF StartRunControl, TypeOK
<1>2. PICK n \in Thread :
         /\ n # t /\ n[1] = "control" /\ pc[n] = "none"
         /\ pc'[t] = "setListening" /\ pc'[n] = "start"
         /\ \A u \in Thread : u \notin {t, n} => pc'[u] = pc[u]
  BY RunGives DEF StartRunControl, Port
<1>3. \A u, v \in Thread : Busy(u)' /\ Busy(v)' => u = v
  BY <1>1, <1>2, ThreadsAre DEF LinkOK, OneAtATime, TypeOK, Port
<1>4. \A u, v \in Thread : Serves(u)' /\ Serves(v)' => u = v
  BY <1>1, <1>2, ThreadsAre DEF LinkOK, OneAtATime, TypeOK, Port
<1>5. \A u \in Thread :
       Serves(u)' => (routed' /\ chan' # "IDLE") \/ \E v \in Thread : Announces(v)'
  BY <1>1, <1>2, ThreadsAre DEF LinkOK, OneAtATime, TypeOK, Port
<1>6. \A u \in Thread : PlacesOK(u)'
  BY <1>1, <1>2, ThreadsAre DEF LinkOK, OneAtATime, TypeOK, Port
<1>7. \A u \in Thread : PortsOK(u)'
  BY <1>1, <1>2, ThreadsAre DEF LinkOK, OneAtATime, TypeOK, Port
<1>8. \A u \in Thread : StartOK(u)'
  BY <1>1, <1>2, ThreadsAre DEF LinkOK, OneAtATime, TypeOK, Port
<1>9. (port["default"] = "CONNECTED" /\ chan = "LISTENING_DEFAULT" =>
        \E u \in Thread : u[1] = "default" /\ pc[u] = "connected")'
  BY <1>1, <1>2, ThreadsAre DEF LinkOK, OneAtATime, TypeOK, Port
<1>10. ~failed' => Served'
  BY <1>1, <1>2, ThreadsAre DEF LinkOK, OneAtATime, TypeOK, Served, Port
<1> QED
  BY <1>3, <1>4, <1>5, <1>6, <1>7, <1>8, <1>9, <1>10 DEF LinkOK, OneAtATime

LEMMA StartListeningKeeps ==
  ASSUME NEW t \in Thread, TypeOK, LinkOK, StartListening(t)
  PROVE  LinkOK'
<1>1. \A u, v \in Thread : Busy(u)' /\ Busy(v)' => u = v
  BY SetGives, ThreadsAre DEF LinkOK, OneAtATime, TypeOK, StartListening
<1>2. \A u, v \in Thread : Serves(u)' /\ Serves(v)' => u = v
  BY SetGives, ThreadsAre DEF LinkOK, OneAtATime, TypeOK, StartListening
<1>3. \A u \in Thread :
       Serves(u)' => (routed' /\ chan' # "IDLE") \/ \E v \in Thread : Announces(v)'
  BY SetGives, ThreadsAre DEF LinkOK, OneAtATime, TypeOK, StartListening
<1>4. \A u \in Thread : PlacesOK(u)'
  BY SetGives, ThreadsAre DEF LinkOK, OneAtATime, TypeOK, StartListening
<1>5. \A u \in Thread : PortsOK(u)'
  BY SetGives, ThreadsAre DEF LinkOK, OneAtATime, TypeOK, StartListening
<1>6. \A u \in Thread : StartOK(u)'
  BY SetGives, ThreadsAre DEF LinkOK, OneAtATime, TypeOK, StartListening
<1>7. (port["default"] = "CONNECTED" /\ chan = "LISTENING_DEFAULT" =>
        \E u \in Thread : u[1] = "default" /\ pc[u] = "connected")'
  BY SetGives, ThreadsAre DEF LinkOK, OneAtATime, TypeOK, StartListening
<1>8. ~failed' => Served'
  BY SetGives, ThreadsAre DEF LinkOK, OneAtATime, TypeOK, Served, StartListening
<1> QED
  BY <1>1, <1>2, <1>3, <1>4, <1>5, <1>6, <1>7, <1>8 DEF LinkOK, OneAtATime

LEMMA EnableOpenKeeps ==
  ASSUME NEW t \in Thread, TypeOK, LinkOK, EnableOpen(t)
  PROVE  LinkOK'
<1>1. /\ pc[t] = "enable" /\ UNCHANGED <<chan, routed, then>> /\ Moves(t)
      /\ \A p \in Port : port[p] # "CLOSED" => port'[p] = port[p]
      /\ port'["default"] = port["default"] /\ port'["control"] = port["control"]
      /\ ~failed' => ~failed
      /\ pc'[t] = "listen" \/ (pc'[t] = "setLarge" /\ port'["largedata"] # "CLOSED")
  <2>1. PICK bad \in SUBSET {"largedata"} :
          /\ Open({"largedata"}, bad)
          /\ pc' = [pc EXCEPT ![t] = IF bad = {} THEN "setLarge" ELSE "listen"]
    BY DEF EnableOpen
  <2>2. /\ \A p \in Port : port[p] # "CLOSED" => port'[p] = port[p]
        /\ port'["default"] = port["default"] /\ port'["control"] = port["control"]
        /\ bad = {} => port'["largedata"] # "CLOSED"
        /\ ~failed' => ~failed
    <3>1. {"largedata"} \in SUBSET Port /\ "default" \in Port \ {"largedata"}
          /\ "control" \in Port \ {"largedata"}
      BY DEF Port
    <3> QED
      BY <2>1, <3>1, OpenGives
  <2> QED
    BY <2>1, <2>2 DEF EnableOpen, TypeOK
<1>2. \A u, v \in Thread : Busy(u)' /\ Busy(v)' => u = v
  BY <1>1, ThreadsAre DEF LinkOK, OneAtATime, TypeOK, Port
<1>3. \A u, v \in Thread : Serves(u)' /\ Serves(v)' => u = v
  BY <1>1, ThreadsAre DEF LinkOK, OneAtATime, TypeOK, Port
<1>4. \A u \in Thread :
       Serves(u)' => (routed' /\ chan' # "IDLE") \/ \E v \in Thread : Announces(v)'
  BY <1>1, ThreadsAre DEF LinkOK, OneAtATime, TypeOK, Port
<1>5. \A u \in Thread : PlacesOK(u)'
  BY <1>1, ThreadsAre DEF LinkOK, OneAtATime, TypeOK, Port
<1>6. \A u \in Thread : PortsOK(u)'
  BY <1>1, ThreadsAre DEF LinkOK, OneAtATime, TypeOK, Port
<1>7. \A u \in Thread : StartOK(u)'
  BY <1>1, ThreadsAre DEF LinkOK, OneAtATime, TypeOK, Port
<1>8. (port["default"] = "CONNECTED" /\ chan = "LISTENING_DEFAULT" =>
        \E u \in Thread : u[1] = "default" /\ pc[u] = "connected")'
  BY <1>1, ThreadsAre DEF LinkOK, OneAtATime, TypeOK, Port
<1>9. ~failed' => Served'
  BY <1>1, ThreadsAre DEF LinkOK, OneAtATime, TypeOK, Served, Port
<1> QED
  BY <1>2, <1>3, <1>4, <1>5, <1>6, <1>7, <1>8, <1>9 DEF LinkOK, OneAtATime

LEMMA EnableSetKeeps ==
  ASSUME NEW t \in Thread, TypeOK, LinkOK, EnableSet(t)
  PROVE  LinkOK'
<1>1. \A u, v \in Thread : Busy(u)' /\ Busy(v)' => u = v
  BY SetGives, ThreadsAre DEF LinkOK, OneAtATime, TypeOK, EnableSet
<1>2. \A u, v \in Thread : Serves(u)' /\ Serves(v)' => u = v
  BY SetGives, ThreadsAre DEF LinkOK, OneAtATime, TypeOK, EnableSet
<1>3. \A u \in Thread :
       Serves(u)' => (routed' /\ chan' # "IDLE") \/ \E v \in Thread : Announces(v)'
  BY SetGives, ThreadsAre DEF LinkOK, OneAtATime, TypeOK, EnableSet
<1>4. \A u \in Thread : PlacesOK(u)'
  BY SetGives, ThreadsAre DEF LinkOK, OneAtATime, TypeOK, EnableSet
<1>5. \A u \in Thread : PortsOK(u)'
  BY SetGives, ThreadsAre DEF LinkOK, OneAtATime, TypeOK, EnableSet
<1>6. \A u \in Thread : StartOK(u)'
  BY SetGives, ThreadsAre DEF LinkOK, OneAtATime, TypeOK, EnableSet
<1>7. (port["default"] = "CONNECTED" /\ chan = "LISTENING_DEFAULT" =>
        \E u \in Thread : u[1] = "default" /\ pc[u] = "connected")'
  BY SetGives, ThreadsAre DEF LinkOK, OneAtATime, TypeOK, EnableSet
<1>8. ~failed' => Served'
  BY SetGives, ThreadsAre DEF LinkOK, OneAtATime, TypeOK, Served, EnableSet
<1> QED
  BY <1>1, <1>2, <1>3, <1>4, <1>5, <1>6, <1>7, <1>8 DEF LinkOK, OneAtATime

LEMMA EnableRunKeeps ==
  ASSUME NEW t \in Thread, TypeOK, LinkOK, EnableRun(t)
  PROVE  LinkOK'
<1>1. /\ pc[t] = "runLarge" /\ \A u \in Thread : u # t => then'[u] = then[u]
      /\ then'[t] = then[t] /\ UNCHANGED <<chan, port, seen, routed, failed>>
  BY DEF EnableRun, TypeOK
<1>2. PICK n \in Thread :
         /\ n # t /\ n[1] = "largedata" /\ pc[n] = "none"
         /\ pc'[t] = "listen" /\ pc'[n] = "start"
         /\ \A u \in Thread : u \notin {t, n} => pc'[u] = pc[u]
  BY RunGives DEF EnableRun, Port
<1>3. \A u, v \in Thread : Busy(u)' /\ Busy(v)' => u = v
  BY <1>1, <1>2, ThreadsAre DEF LinkOK, OneAtATime, TypeOK, Port
<1>4. \A u, v \in Thread : Serves(u)' /\ Serves(v)' => u = v
  BY <1>1, <1>2, ThreadsAre DEF LinkOK, OneAtATime, TypeOK, Port
<1>5. \A u \in Thread :
       Serves(u)' => (routed' /\ chan' # "IDLE") \/ \E v \in Thread : Announces(v)'
  BY <1>1, <1>2, ThreadsAre DEF LinkOK, OneAtATime, TypeOK, Port
<1>6. \A u \in Thread : PlacesOK(u)'
  BY <1>1, <1>2, ThreadsAre DEF LinkOK, OneAtATime, TypeOK, Port
<1>7. \A u \in Thread : PortsOK(u)'
  BY <1>1, <1>2, ThreadsAre DEF LinkOK, OneAtATime, TypeOK, Port
<1>8. \A u \in Thread : StartOK(u)'
  BY <1>1, <1>2, ThreadsAre DEF LinkOK, OneAtATime, TypeOK, Port
<1>9. (port["default"] = "CONNECTED" /\ chan = "LISTENING_DEFAULT" =>
        \E u \in Thread : u[1] = "default" /\ pc[u] = "connected")'
  BY <1>1, <1>2, ThreadsAre DEF LinkOK, OneAtATime, TypeOK, Port
<1>10. ~failed' => Served'
  BY <1>1, <1>2, ThreadsAre DEF LinkOK, OneAtATime, TypeOK, Served, Port
<1> QED
  BY <1>3, <1>4, <1>5, <1>6, <1>7, <1>8, <1>9, <1>10 DEF LinkOK, OneAtATime

LEMMA DisableKeeps ==
  ASSUME NEW t \in Thread, TypeOK, LinkOK, Disable(t)
  PROVE  LinkOK'
<1>1. \A u, v \in Thread : Busy(u)' /\ Busy(v)' => u = v
  BY SetGives, ThreadsAre DEF LinkOK, OneAtATime, TypeOK, Disable
<1>2. \A u, v \in Thread : Serves(u)' /\ Serves(v)' => u = v
  BY SetGives, ThreadsAre DEF LinkOK, OneAtATime, TypeOK, Disable
<1>3. \A u \in Thread :
       Serves(u)' => (routed' /\ chan' # "IDLE") \/ \E v \in Thread : Announces(v)'
  BY SetGives, ThreadsAre DEF LinkOK, OneAtATime, TypeOK, Disable
<1>4. \A u \in Thread : PlacesOK(u)'
  BY SetGives, ThreadsAre DEF LinkOK, OneAtATime, TypeOK, Disable
<1>5. \A u \in Thread : PortsOK(u)'
  BY SetGives, ThreadsAre DEF LinkOK, OneAtATime, TypeOK, Disable
<1>6. \A u \in Thread : StartOK(u)'
  BY SetGives, ThreadsAre DEF LinkOK, OneAtATime, TypeOK, Disable
<1>7. (port["default"] = "CONNECTED" /\ chan = "LISTENING_DEFAULT" =>
        \E u \in Thread : u[1] = "default" /\ pc[u] = "connected")'
  BY SetGives, ThreadsAre DEF LinkOK, OneAtATime, TypeOK, Disable
<1>8. ~failed' => Served'
  BY SetGives, ThreadsAre DEF LinkOK, OneAtATime, TypeOK, Served, Disable
<1> QED
  BY <1>1, <1>2, <1>3, <1>4, <1>5, <1>6, <1>7, <1>8 DEF LinkOK, OneAtATime

\* Nothing is being handled when an event comes, and no thread is on its way to accept.
LEMMA QuietGives ==
  ASSUME LinkOK, Quiet
  PROVE  \A u \in Thread : ~Busy(u) /\ pc[u] \in Blocked
BY DEF LinkOK, OneAtATime, Quiet

LEMMA AcceptKeeps ==
  ASSUME NEW t \in Listener, TypeOK, LinkOK, Accept(t), Quiet
  PROVE  LinkOK'
<1>1. t \in Thread /\ t[1] \in Port
  BY ThreadsAre
<1>2. /\ \A u \in Thread : ~Busy(u) /\ pc[u] \in Blocked
      /\ pc[t] = "accept" /\ UNCHANGED <<chan, then, routed, failed>>
      /\ port'[t[1]] = "CONNECTED" /\ \A p \in Port : p # t[1] => port'[p] = port[p]
      /\ \A u \in Thread : u # t => pc'[u] = pc[u]
      /\ t \in Thread /\ t[1] \in Port
      /\ \/ port[t[1]] = "CONNECTED" /\ pc'[t] = "listen"
         \/ port[t[1]] # "CONNECTED" /\ pc'[t] = "connected" /\ seen'[t] = chan
  BY <1>1, QuietGives DEF Accept, TypeOK
<1>3. \A u, v \in Thread : Busy(u)' /\ Busy(v)' => u = v
  BY <1>2, ThreadsAre DEF LinkOK, OneAtATime, TypeOK, Port
<1>4. \A u, v \in Thread : Serves(u)' /\ Serves(v)' => u = v
  BY <1>2, ThreadsAre DEF LinkOK, OneAtATime, TypeOK, Port
<1>5. \A u \in Thread :
       Serves(u)' => (routed' /\ chan' # "IDLE") \/ \E v \in Thread : Announces(v)'
  BY <1>2, ThreadsAre DEF LinkOK, OneAtATime, TypeOK, Port
<1>6. \A u \in Thread : PlacesOK(u)'
  BY <1>2, ThreadsAre DEF LinkOK, OneAtATime, TypeOK, Port
<1>7. \A u \in Thread : PortsOK(u)'
  BY <1>2, ThreadsAre DEF LinkOK, OneAtATime, TypeOK, Port
<1>8. \A u \in Thread : StartOK(u)'
  BY <1>2, ThreadsAre DEF LinkOK, OneAtATime, TypeOK, Port
<1>9. (port["default"] = "CONNECTED" /\ chan = "LISTENING_DEFAULT" =>
        \E u \in Thread : u[1] = "default" /\ pc[u] = "connected")'
  BY <1>2, ThreadsAre DEF LinkOK, OneAtATime, TypeOK, Port
<1>10. ~failed' => Served'
  BY <1>2, ThreadsAre DEF LinkOK, OneAtATime, TypeOK, Served, Port
<1> QED
  BY <1>3, <1>4, <1>5, <1>6, <1>7, <1>8, <1>9, <1>10 DEF LinkOK, OneAtATime

LEMMA CloseKeeps ==
  ASSUME NEW t \in Listener, TypeOK, LinkOK, Close(t), Quiet
  PROVE  LinkOK'
<1>1. t \in Thread /\ t[1] \in Port /\ pc[t] = "listen"
  BY ThreadsAre DEF Close
<1>2. /\ \A u \in Thread : ~Busy(u) /\ pc[u] \in Blocked
      /\ pc[t] = "listen" /\ UNCHANGED <<chan, routed, failed>> /\ t \in Thread /\ t[1] \in Port
      /\ port'[t[1]] = "CLOSED" /\ \A p \in Port : p # t[1] => port'[p] = port[p]
      /\ \A u \in Thread : u # t =>
           /\ then'[u] = then[u]
           /\ pc'[u] = IF u[1] = t[1] /\ pc[u] = "accept" THEN "none" ELSE pc[u]
      /\ \/ port[t[1]] = "CLOSED" /\ pc'[t] = "none" /\ then'[t] = then[t]
         \/ port[t[1]] # "CLOSED" /\ pc'[t] = "closed" /\ then'[t] = "none" /\ seen'[t] = chan
  BY <1>1, QuietGives, CloseGives DEF Close
<1>3. \A u, v \in Thread : Busy(u)' /\ Busy(v)' => u = v
  BY <1>2, ThreadsAre DEF LinkOK, OneAtATime, TypeOK, Port
<1>4. \A u, v \in Thread : Serves(u)' /\ Serves(v)' => u = v
  BY <1>2, ThreadsAre DEF LinkOK, OneAtATime, TypeOK, Port
<1>5. \A u \in Thread :
       Serves(u)' => (routed' /\ chan' # "IDLE") \/ \E v \in Thread : Announces(v)'
  BY <1>2, ThreadsAre DEF LinkOK, OneAtATime, TypeOK, Port
<1>6. \A u \in Thread : PlacesOK(u)'
  BY <1>2, ThreadsAre DEF LinkOK, OneAtATime, TypeOK, Port
<1>7. \A u \in Thread : PortsOK(u)'
  BY <1>2, ThreadsAre DEF LinkOK, OneAtATime, TypeOK, Port
<1>8. \A u \in Thread : StartOK(u)'
  BY <1>2, ThreadsAre DEF LinkOK, OneAtATime, TypeOK, Port
<1>9. (port["default"] = "CONNECTED" /\ chan = "LISTENING_DEFAULT" =>
        \E u \in Thread : u[1] = "default" /\ pc[u] = "connected")'
  BY <1>2, ThreadsAre DEF LinkOK, OneAtATime, TypeOK, Port
<1>10. ~failed' => Served'
  BY <1>2, ThreadsAre DEF LinkOK, OneAtATime, TypeOK, Served, Port
<1> QED
  BY <1>3, <1>4, <1>5, <1>6, <1>7, <1>8, <1>9, <1>10 DEF LinkOK, OneAtATime

LEMMA ReceiveKeeps ==
  ASSUME NEW t \in Listener, NEW command \in {"enable", "disable"},
         TypeOK, LinkOK, Quiet, Receive(t, command)
  PROVE  LinkOK'
<1>1. /\ \A u \in Thread : ~Busy(u) /\ pc[u] \in Blocked
      /\ pc[t] = "listen" /\ t[1] = "control" /\ t \in Thread
      /\ UNCHANGED <<chan, port, then, routed, failed>>
      /\ \A u \in Thread : u # t => pc'[u] = pc[u]
      /\ pc'[t] \in {"enable", "disable"}
  BY ThreadsAre, QuietGives DEF Receive, TypeOK
<1>2. \A u, v \in Thread : Busy(u)' /\ Busy(v)' => u = v
  BY <1>1, ThreadsAre DEF LinkOK, OneAtATime, TypeOK, Port
<1>3. \A u, v \in Thread : Serves(u)' /\ Serves(v)' => u = v
  BY <1>1, ThreadsAre DEF LinkOK, OneAtATime, TypeOK, Port
<1>4. \A u \in Thread :
       Serves(u)' => (routed' /\ chan' # "IDLE") \/ \E v \in Thread : Announces(v)'
  BY <1>1, ThreadsAre DEF LinkOK, OneAtATime, TypeOK, Port
<1>5. \A u \in Thread : PlacesOK(u)'
  BY <1>1, ThreadsAre DEF LinkOK, OneAtATime, TypeOK, Port
<1>6. \A u \in Thread : PortsOK(u)'
  BY <1>1, ThreadsAre DEF LinkOK, OneAtATime, TypeOK, Port
<1>7. \A u \in Thread : StartOK(u)'
  BY <1>1, ThreadsAre DEF LinkOK, OneAtATime, TypeOK, Port
<1>8. (port["default"] = "CONNECTED" /\ chan = "LISTENING_DEFAULT" =>
        \E u \in Thread : u[1] = "default" /\ pc[u] = "connected")'
  BY <1>1, ThreadsAre DEF LinkOK, OneAtATime, TypeOK, Port
<1>9. ~failed' => Served'
  BY <1>1, ThreadsAre DEF LinkOK, OneAtATime, TypeOK, Served, Port
<1> QED
  BY <1>2, <1>3, <1>4, <1>5, <1>6, <1>7, <1>8, <1>9 DEF LinkOK, OneAtATime

-----------------------------------------------------------------------------
(* The theorems                                                            *)

HIDE DEF Moves, PlacesOK, PortsOK, StartOK, Busy, Serves, Restarts, Announces, Blocked

LEMMA StepKeeps ==
  ASSUME NEW t \in Thread, TypeOK, LinkOK, Step(t)
  PROVE  LinkOK'
<1>1. ~Refused(t)
  BY DEF Refused, LinkOK, OneAtATime, PlacesOK
<1> QED
  BY <1>1, StartKeeps, ConnectedKeeps, DefaultClosedKeeps, LargeDataClosedKeeps,
     ControlClosedKeeps, ControlReopenedKeeps, NotifyKeeps, StartOpenKeeps,
     StartRunDefaultKeeps, StartRunControlKeeps, StartListeningKeeps, EnableOpenKeeps,
     EnableSetKeeps, EnableRunKeeps, DisableKeeps
  DEF Step

LEMMA InitHolds == Init => IInv
<1> SUFFICES ASSUME Init PROVE IInv
  OBVIOUS
<1> USE DEF Init
<1>1. TypeOK
  <2>1. {"open", "none"} \subseteq Pc /\ "IDLE" \in ChannelState /\ "CLOSED" \in PortState
    BY DEF Pc, Blocked, ChannelState, PortState
  <2>2. 0 \in 0..MaxOverlaps
    BY CommLinkAssumption
  <2> QED
    BY <2>1, <2>2 DEF TypeOK
<1>2. /\ pc[Main] = "open" /\ \A t \in Thread : t # Main => pc[t] = "none"
      /\ port["default"] = "CLOSED" /\ \A t \in Thread : then[t] = "none"
  BY ThreadsAre DEF Port
<1>3. OneAtATime
  BY <1>2, ThreadsAre DEF OneAtATime, PlacesOK, PortsOK, StartOK, Busy, Serves, Restarts,
     Announces, Blocked
<1>4. Served
  BY <1>2, ThreadsAre DEF Served, Restarts
<1> QED
  BY <1>1, <1>3, <1>4 DEF IInv, LinkOK

LEMMA NextKeeps == IInv /\ [Next]_vars => IInv'
<1> SUFFICES ASSUME IInv, [Next]_vars, overlaps' = 0 PROVE LinkOK'
  BY TypesHold DEF IInv
<1>1. CASE \E t \in Thread : Step(t)
  BY <1>1, StepKeeps DEF IInv, Step
<1>2. Event => overlaps = 0 /\ Quiet
  BY DEF Event, IInv, TypeOK
<1>3. CASE \E t \in Listener : Accept(t) \/ Close(t)
  BY <1>2, <1>3, AcceptKeeps, CloseKeeps DEF IInv, Accept, Close
<1>4. CASE \E t \in Listener : \E command \in {"enable", "disable"} : Receive(t, command)
  BY <1>2, <1>4, ReceiveKeeps DEF IInv, Receive
<1>5. CASE UNCHANGED vars
  <2>1. LinkOK /\ UNCHANGED <<chan, port, pc, seen, then, routed, failed>>
    BY <1>5 DEF vars, IInv
  <2> QED
    BY <2>1 DEF LinkOK, OneAtATime, Served, PlacesOK, PortsOK, StartOK, Busy, Serves, Restarts,
       Announces
<1> QED
  BY <1>1, <1>3, <1>4, <1>5 DEF Next

LEMMA Inductive == Spec => []IInv
  BY InitHolds, NextKeeps, PTL DEF Spec

\* The types of CommChannel's state, its ports and its threads (CommChannel.cpp,
\* CommPort.cpp), for any number of threads and however the events overlap.
THEOREM LinkIsTyped == Spec => []TypeOK
<1>1. IInv => TypeOK
  BY DEF IInv
<1> QED
  BY <1>1, Inductive, PTL

\* removeRoutingEntry (AppCore::onCommChannelStateChanged) always finds the entry of the
\* companion, if no event comes while one is being handled: whatever sockets fail to open,
\* whatever the companion sends and in whatever order the threads go on.
THEOREM RouteIsAlwaysThere == Spec => []RouteIsThere
<1>1. IInv => RouteIsThere
  BY DEF IInv, LinkOK, OneAtATime, StartOK, RouteIsThere
<1> QED
  BY <1>1, Inductive, PTL

\* After any number of losses and of connections that were handled one after the other,
\* CommChannel is up once all threads are blocked: one thread serves the open default port,
\* the control port is served, the route is there, and a connection has been noticed.
THEOREM LinkComesUp == Spec => []LinkIsUp
<1>1. ASSUME IInv, Quiet, ~failed, overlaps = 0
      PROVE  /\ routed /\ chan # "IDLE"
             /\ port["default"] # "CLOSED" /\ Cardinality(ThreadsOf("default")) = 1
             /\ port["control"] # "CLOSED" /\ ThreadsOf("control") # {}
             /\ port["default"] = "CONNECTED" => chan # "LISTENING_DEFAULT"
  <2>1. /\ LinkOK /\ OneAtATime /\ Served
        /\ \A t \in Thread : ~Busy(t) /\ pc[t] \in Blocked
    BY <1>1, QuietGives DEF IInv, LinkOK
  <2>2. PICK t \in Thread : Serves(t)
    BY <2>1 DEF Served, Restarts, Blocked
  <2>3. routed /\ chan # "IDLE" /\ port["default"] # "CLOSED"
    BY <2>1, <2>2 DEF OneAtATime, PortsOK, Announces, Blocked
  <2>4. ThreadsOf("default") = {t}
    <3>1. \A u \in Thread : Serves(u) <=> u[1] = "default" /\ pc[u] # "none"
      BY <2>1 DEF Serves, Blocked
    <3>2. \A u \in Listener : u \in Thread
      BY ThreadsAre
    <3>3. t \in Listener
      BY <2>2, ThreadsAre DEF Serves, Thread
    <3> QED
      BY <2>1, <2>2, <3>1, <3>2, <3>3 DEF OneAtATime, ThreadsOf
  <2>5. Cardinality(ThreadsOf("default")) = 1
    BY <2>4, FS_Singleton
  <2>6. port["control"] # "CLOSED"
    BY <2>1 DEF Served, Blocked
  <2>7. ThreadsOf("control") # {}
    <3>1. PICK u \in Thread : u[1] = "control" /\ pc[u] # "none"
      BY <2>1 DEF Served, Blocked
    <3>2. u \in Listener
      BY <3>1, ThreadsAre DEF Thread
    <3> QED
      BY <3>1, <3>2 DEF ThreadsOf
  <2>8. port["default"] = "CONNECTED" => chan # "LISTENING_DEFAULT"
    BY <2>1 DEF OneAtATime, Blocked
  <2> QED
    BY <2>3, <2>5, <2>6, <2>7, <2>8
<1>2. IInv => LinkIsUp
  BY <1>1 DEF LinkIsUp
<1> QED
  BY <1>2, Inductive, PTL
-----------------------------------------------------------------------------
(* What holds however the events overlap.                                  *)

\* The places of CommChannel::start and of the callback that leads to it.
InStart == {"open", "runDefault", "runControl", "setListening", "notify"}

\* Thread t accepts on port p, or it is about to, or about to start a thread that does.
Comes(t, p) ==
  \/ t[1] = p /\ pc[t] \in {"start", "refused", "accept"}
  \/ p = "default" /\ pc[t] = "runDefault"
  \/ p = "control" /\ pc[t] \in {"runDefault", "runControl", "reopened"}
  \/ p = "largedata" /\ pc[t] \in {"setLarge", "runLarge"}
  \/ p = "largedata" /\ pc[t] \in InStart /\ then[t] = "runLarge"

\* Some thread is about to take CommChannel out of IDLE, to tell AppCore that it waits, to
\* serve a port that is open.
WaitsOK ==
  /\ chan = "IDLE" => \E t \in Thread : pc[t] \in InStart
  /\ chan = "LISTENING_DEFAULT" => routed \/ \E t \in Thread : pc[t] = "notify"
  /\ \A p \in Port : port[p] = "OPENED" => \E t \in Thread : Comes(t, p)

WInv == TypeOK /\ (~failed => WaitsOK)

USE DEF InStart, Moves

\* A step of thread t keeps WaitsOK if it keeps what t itself is about to do, or does it,
\* and drops no other thread that accepts on an open port.
LEMMA WaitsGives ==
  ASSUME NEW t \in Thread, WaitsOK,
         chan' = "IDLE" => chan = "IDLE" \/ pc'[t] \in InStart,
         chan' = "IDLE" /\ pc[t] \in InStart => pc'[t] \in InStart,
         chan' = "LISTENING_DEFAULT" =>
           pc'[t] = "notify" \/ routed' \/ (chan = "LISTENING_DEFAULT" /\ routed' = routed /\ pc[t] # "notify"),
         \A p \in Port : port'[p] = "OPENED" =>
           \/ \E u \in Thread : Comes(u, p)'
           \/ port[p] = "OPENED" /\ ~Comes(t, p)
               /\ \A u \in Thread : u # t /\ Comes(u, p) => Comes(u, p)',
         \A u \in Thread : u # t => pc'[u] = pc[u] \/ pc[u] \notin InStart
  PROVE  WaitsOK'
<1>1. ASSUME chan' = "IDLE" PROVE \E u \in Thread : pc'[u] \in InStart
  BY <1>1 DEF WaitsOK
<1>2. ASSUME chan' = "LISTENING_DEFAULT", ~routed' PROVE \E u \in Thread : pc'[u] = "notify"
  BY <1>2 DEF WaitsOK
<1>3. ASSUME NEW p \in Port, port'[p] = "OPENED" PROVE \E u \in Thread : Comes(u, p)'
  BY <1>3 DEF WaitsOK
<1> QED
  BY <1>1, <1>2, <1>3 DEF WaitsOK

\* closeConnection by any thread that is not in accept.
LEMMA DropGives ==
  ASSUME NEW t \in Thread, NEW k, TypeOK, pc[t] # "accept", CloseConnection(t, k)
  PROVE  /\ \A p \in Port : port'[p] = IF p = t[1] THEN "CLOSED" ELSE port[p]
         /\ \A u \in Thread : u # t =>
              /\ then'[u] = then[u]
              /\ pc'[u] = IF u[1] = t[1] /\ pc[u] = "accept" THEN "none" ELSE pc[u]
         /\ pc'[t] \in {k, "closed"}
<1> DEFINE left == [u \in Thread |-> IF u[1] = t[1] /\ pc[u] = "accept" THEN "none" ELSE pc[u]]
<1>1. /\ port' = [port EXCEPT ![t[1]] = "CLOSED"]
      /\ \/ pc' = [left EXCEPT ![t] = k] /\ then' = then
         \/ pc' = [left EXCEPT ![t] = "closed"] /\ then' = [then EXCEPT ![t] = k]
  BY DEF CloseConnection
<1>2. \A p \in Port : port'[p] = IF p = t[1] THEN "CLOSED" ELSE port[p]
  BY <1>1 DEF TypeOK
<1>3. pc'[t] \in {k, "closed"} /\ \A u \in Thread : u # t => pc'[u] = left[u]
  BY <1>1 DEF TypeOK
<1>4. \A u \in Thread : u # t => then'[u] = then[u]
  BY <1>1 DEF TypeOK
<1> QED
  BY <1>2, <1>3, <1>4


LEMMA StartWaits ==
  ASSUME NEW t \in Thread, TypeOK, WaitsOK, ~failed', Start(t)
  PROVE  WaitsOK'
<1>1. /\ pc[t] = "start" /\ UNCHANGED <<chan, port, then, routed>>
      /\ \A u \in Thread : u # t => pc'[u] = pc[u]
      /\ pc'[t] \in {"refused", "accept"}
  BY DEF Start, TypeOK
<1>11. chan' = "IDLE" => chan = "IDLE" \/ pc'[t] \in InStart
  BY <1>1
<1>12. chan' = "IDLE" /\ pc[t] \in InStart => pc'[t] \in InStart
  BY <1>1
<1>13. chan' = "LISTENING_DEFAULT" =>
         \/ pc'[t] = "notify" \/ routed'
         \/ chan = "LISTENING_DEFAULT" /\ routed' = routed /\ pc[t] # "notify"
  BY <1>1
<1>14. ASSUME NEW p \in Port, port'[p] = "OPENED"
       PROVE  \/ \E u \in Thread : Comes(u, p)'
              \/ /\ port[p] = "OPENED" /\ ~Comes(t, p)
                 /\ \A u \in Thread : u # t /\ Comes(u, p) => Comes(u, p)'
  BY <1>1, <1>14 DEF Comes, Port
<1>15. \A u \in Thread : u # t => pc'[u] = pc[u] \/ pc[u] \notin InStart
  BY <1>1
<1> QED
  BY <1>11, <1>12, <1>13, <1>14, <1>15, WaitsGives

LEMMA RefusedWaits ==
  ASSUME NEW t \in Thread, TypeOK, WaitsOK, ~failed', Refused(t)
  PROVE  WaitsOK'
<1>1. /\ pc[t] = "refused" /\ UNCHANGED <<chan, routed>>
      /\ \A p \in Port : port'[p] = IF p = t[1] THEN "CLOSED" ELSE port[p]
      /\ \A u \in Thread : u # t =>
           /\ then'[u] = then[u]
           /\ pc'[u] = IF u[1] = t[1] /\ pc[u] = "accept" THEN "none" ELSE pc[u]
  BY DropGives DEF Refused
<1>11. chan' = "IDLE" => chan = "IDLE" \/ pc'[t] \in InStart
  BY <1>1
<1>12. chan' = "IDLE" /\ pc[t] \in InStart => pc'[t] \in InStart
  BY <1>1
<1>13. chan' = "LISTENING_DEFAULT" =>
         \/ pc'[t] = "notify" \/ routed'
         \/ chan = "LISTENING_DEFAULT" /\ routed' = routed /\ pc[t] # "notify"
  BY <1>1
<1>14. ASSUME NEW p \in Port, port'[p] = "OPENED"
       PROVE  \/ \E u \in Thread : Comes(u, p)'
              \/ /\ port[p] = "OPENED" /\ ~Comes(t, p)
                 /\ \A u \in Thread : u # t /\ Comes(u, p) => Comes(u, p)'
  BY <1>1, <1>14 DEF Comes, Port
<1>15. \A u \in Thread : u # t => pc'[u] = pc[u] \/ pc[u] \notin InStart
  BY <1>1
<1> QED
  BY <1>11, <1>12, <1>13, <1>14, <1>15, WaitsGives

LEMMA ConnectedWaits ==
  ASSUME NEW t \in Thread, TypeOK, WaitsOK, ~failed', Connected(t)
  PROVE  WaitsOK'
<1>1. /\ pc[t] = "connected" /\ Moves(t) /\ UNCHANGED <<port, routed>>
      /\ chan' = chan \/ chan' \in {"CONNECTED_DEFAULT", "CONNECTED_LARGEDATA"}
  BY SetGives DEF Connected, TypeOK
<1>11. chan' = "IDLE" => chan = "IDLE" \/ pc'[t] \in InStart
  BY <1>1
<1>12. chan' = "IDLE" /\ pc[t] \in InStart => pc'[t] \in InStart
  BY <1>1
<1>13. chan' = "LISTENING_DEFAULT" =>
         \/ pc'[t] = "notify" \/ routed'
         \/ chan = "LISTENING_DEFAULT" /\ routed' = routed /\ pc[t] # "notify"
  BY <1>1
<1>14. ASSUME NEW p \in Port, port'[p] = "OPENED"
       PROVE  \/ \E u \in Thread : Comes(u, p)'
              \/ /\ port[p] = "OPENED" /\ ~Comes(t, p)
                 /\ \A u \in Thread : u # t /\ Comes(u, p) => Comes(u, p)'
  BY <1>1, <1>14 DEF Comes, Port
<1>15. \A u \in Thread : u # t => pc'[u] = pc[u] \/ pc[u] \notin InStart
  BY <1>1
<1> QED
  BY <1>11, <1>12, <1>13, <1>14, <1>15, WaitsGives

LEMMA DefaultClosedWaits ==
  ASSUME NEW t \in Thread, TypeOK, WaitsOK, ~failed', DefaultClosed(t)
  PROVE  WaitsOK'
<1>1. /\ pc[t] = "closed" /\ Moves(t) /\ UNCHANGED <<port, routed>>
      /\ chan' = chan \/ (chan' = "IDLE" /\ pc'[t] = "notify")
  BY SetGives, ReturnGives DEF DefaultClosed
<1>11. chan' = "IDLE" => chan = "IDLE" \/ pc'[t] \in InStart
  BY <1>1
<1>12. chan' = "IDLE" /\ pc[t] \in InStart => pc'[t] \in InStart
  BY <1>1
<1>13. chan' = "LISTENING_DEFAULT" =>
         \/ pc'[t] = "notify" \/ routed'
         \/ chan = "LISTENING_DEFAULT" /\ routed' = routed /\ pc[t] # "notify"
  BY <1>1
<1>14. ASSUME NEW p \in Port, port'[p] = "OPENED"
       PROVE  \/ \E u \in Thread : Comes(u, p)'
              \/ /\ port[p] = "OPENED" /\ ~Comes(t, p)
                 /\ \A u \in Thread : u # t /\ Comes(u, p) => Comes(u, p)'
  BY <1>1, <1>14 DEF Comes, Port
<1>15. \A u \in Thread : u # t => pc'[u] = pc[u] \/ pc[u] \notin InStart
  BY <1>1
<1> QED
  BY <1>11, <1>12, <1>13, <1>14, <1>15, WaitsGives

LEMMA LargeDataClosedWaits ==
  ASSUME NEW t \in Thread, TypeOK, WaitsOK, ~failed', LargeDataClosed(t)
  PROVE  WaitsOK'
<1>1. /\ pc[t] = "closed" /\ Moves(t) /\ UNCHANGED <<port, routed>>
      /\ chan' = chan \/ chan' = "CONNECTED_DEFAULT"
  BY SetGives, ReturnGives DEF LargeDataClosed
<1>11. chan' = "IDLE" => chan = "IDLE" \/ pc'[t] \in InStart
  BY <1>1
<1>12. chan' = "IDLE" /\ pc[t] \in InStart => pc'[t] \in InStart
  BY <1>1
<1>13. chan' = "LISTENING_DEFAULT" =>
         \/ pc'[t] = "notify" \/ routed'
         \/ chan = "LISTENING_DEFAULT" /\ routed' = routed /\ pc[t] # "notify"
  BY <1>1
<1>14. ASSUME NEW p \in Port, port'[p] = "OPENED"
       PROVE  \/ \E u \in Thread : Comes(u, p)'
              \/ /\ port[p] = "OPENED" /\ ~Comes(t, p)
                 /\ \A u \in Thread : u # t /\ Comes(u, p) => Comes(u, p)'
  BY <1>1, <1>14 DEF Comes, Port
<1>15. \A u \in Thread : u # t => pc'[u] = pc[u] \/ pc[u] \notin InStart
  BY <1>1
<1> QED
  BY <1>11, <1>12, <1>13, <1>14, <1>15, WaitsGives

LEMMA ControlClosedWaits ==
  ASSUME NEW t \in Thread, TypeOK, WaitsOK, ~failed', ControlClosed(t)
  PROVE  WaitsOK'
<1>1. /\ pc[t] = "closed" /\ UNCHANGED <<chan, routed>> /\ Moves(t)
      /\ \A p \in Port : p # "control" => port'[p] = port[p]
      /\ UNCHANGED port \/ pc'[t] = "reopened"
  <2>1. pc[t] = "closed" /\ UNCHANGED <<chan, routed>>
    BY DEF ControlClosed
  <2>2. CASE Return(t) /\ UNCHANGED <<port, failed>>
    BY <2>1, <2>2, ReturnGives
  <2>3. CASE Open({"control"}, {}) /\ pc' = [pc EXCEPT ![t] = "reopened"] /\ UNCHANGED then
    BY <2>1, <2>3, OpenGives DEF Port, TypeOK
  <2>4. ~Open({"control"}, {"control"})
    BY OpenGives DEF Port
  <2> QED
    BY <2>2, <2>3, <2>4 DEF ControlClosed
<1>11. chan' = "IDLE" => chan = "IDLE" \/ pc'[t] \in InStart
  BY <1>1
<1>12. chan' = "IDLE" /\ pc[t] \in InStart => pc'[t] \in InStart
  BY <1>1
<1>13. chan' = "LISTENING_DEFAULT" =>
         \/ pc'[t] = "notify" \/ routed'
         \/ chan = "LISTENING_DEFAULT" /\ routed' = routed /\ pc[t] # "notify"
  BY <1>1
<1>14. ASSUME NEW p \in Port, port'[p] = "OPENED"
       PROVE  \/ \E u \in Thread : Comes(u, p)'
              \/ /\ port[p] = "OPENED" /\ ~Comes(t, p)
                 /\ \A u \in Thread : u # t /\ Comes(u, p) => Comes(u, p)'
  BY <1>1, <1>14 DEF Comes, Port
<1>15. \A u \in Thread : u # t => pc'[u] = pc[u] \/ pc[u] \notin InStart
  BY <1>1
<1> QED
  BY <1>11, <1>12, <1>13, <1>14, <1>15, WaitsGives

LEMMA ControlReopenedWaits ==
  ASSUME NEW t \in Thread, TypeOK, WaitsOK, ~failed', ControlReopened(t)
  PROVE  WaitsOK'
<1>1. /\ pc[t] = "reopened" /\ \A u \in Thread : u # t => then'[u] = then[u]
      /\ then'[t] = "none" /\ UNCHANGED <<chan, port, routed>>
  BY DEF ControlReopened, TypeOK
<1>2. PICK n \in Thread :
         /\ n # t /\ n[1] = "control" /\ pc[n] = "none"
         /\ pc'[t] = then[t] /\ pc'[n] = "start"
         /\ \A u \in Thread : u \notin {t, n} => pc'[u] = pc[u]
  BY RunGives DEF ControlReopened, Port
<1>11. chan' = "IDLE" => chan = "IDLE" \/ pc'[t] \in InStart
  BY <1>1, <1>2
<1>12. chan' = "IDLE" /\ pc[t] \in InStart => pc'[t] \in InStart
  BY <1>1, <1>2
<1>13. chan' = "LISTENING_DEFAULT" =>
         \/ pc'[t] = "notify" \/ routed'
         \/ chan = "LISTENING_DEFAULT" /\ routed' = routed /\ pc[t] # "notify"
  BY <1>1, <1>2
<1>14. ASSUME NEW p \in Port, port'[p] = "OPENED"
       PROVE  \/ \E u \in Thread : Comes(u, p)'
              \/ /\ port[p] = "OPENED" /\ ~Comes(t, p)
                 /\ \A u \in Thread : u # t /\ Comes(u, p) => Comes(u, p)'
  BY <1>1, <1>2, <1>14 DEF Comes, Port
<1>15. \A u \in Thread : u # t => pc'[u] = pc[u] \/ pc[u] \notin InStart
  BY <1>1, <1>2
<1> QED
  BY <1>11, <1>12, <1>13, <1>14, <1>15, WaitsGives

LEMMA NotifyWaits ==
  ASSUME NEW t \in Thread, TypeOK, WaitsOK, ~failed', Notify(t)
  PROVE  WaitsOK'
<1>1. /\ pc[t] = "notify" /\ Moves(t) /\ UNCHANGED <<chan, port>>
      /\ chan = "IDLE" => pc'[t] = "open" /\ then'[t] = then[t]
      /\ chan # "IDLE" => pc'[t] = then[t] /\ then'[t] = "none"
      /\ chan = "LISTENING_DEFAULT" => routed'
  BY ReturnGives DEF Notify, TypeOK
<1>11. chan' = "IDLE" => chan = "IDLE" \/ pc'[t] \in InStart
  BY <1>1
<1>12. chan' = "IDLE" /\ pc[t] \in InStart => pc'[t] \in InStart
  BY <1>1
<1>13. chan' = "LISTENING_DEFAULT" =>
         \/ pc'[t] = "notify" \/ routed'
         \/ chan = "LISTENING_DEFAULT" /\ routed' = routed /\ pc[t] # "notify"
  BY <1>1
<1>14. ASSUME NEW p \in Port, port'[p] = "OPENED"
       PROVE  \/ \E u \in Thread : Comes(u, p)'
              \/ /\ port[p] = "OPENED" /\ ~Comes(t, p)
                 /\ \A u \in Thread : u # t /\ Comes(u, p) => Comes(u, p)'
  BY <1>1, <1>14 DEF Comes, Port
<1>15. \A u \in Thread : u # t => pc'[u] = pc[u] \/ pc[u] \notin InStart
  BY <1>1
<1> QED
  BY <1>11, <1>12, <1>13, <1>14, <1>15, WaitsGives

LEMMA StartOpenWaits ==
  ASSUME NEW t \in Thread, TypeOK, WaitsOK, ~failed', StartOpen(t)
  PROVE  WaitsOK'
<1>1. /\ pc[t] = "open" /\ UNCHANGED <<chan, routed>> /\ Moves(t)
      /\ port'["largedata"] = port["largedata"]
      /\ pc'[t] = "runDefault" /\ then'[t] = then[t]
  <2>1. PICK bad \in SUBSET {"default", "control"} :
          /\ Open({"default", "control"}, bad)
          /\ IF bad = {} THEN pc' = [pc EXCEPT ![t] = "runDefault"] /\ UNCHANGED then
                        ELSE Return(t)
    BY DEF StartOpen
  <2>2. port'["largedata"] = port["largedata"] /\ bad = {}
    BY <2>1, OpenGives DEF Port
  <2> QED
    BY <2>1, <2>2 DEF StartOpen, TypeOK
<1>11. chan' = "IDLE" => chan = "IDLE" \/ pc'[t] \in InStart
  BY <1>1
<1>12. chan' = "IDLE" /\ pc[t] \in InStart => pc'[t] \in InStart
  BY <1>1
<1>13. chan' = "LISTENING_DEFAULT" =>
         \/ pc'[t] = "notify" \/ routed'
         \/ chan = "LISTENING_DEFAULT" /\ routed' = routed /\ pc[t] # "notify"
  BY <1>1
<1>14. ASSUME NEW p \in Port, port'[p] = "OPENED"
       PROVE  \/ \E u \in Thread : Comes(u, p)'
              \/ /\ port[p] = "OPENED" /\ ~Comes(t, p)
                 /\ \A u \in Thread : u # t /\ Comes(u, p) => Comes(u, p)'
  BY <1>1, <1>14 DEF Comes, Port
<1>15. \A u \in Thread : u # t => pc'[u] = pc[u] \/ pc[u] \notin InStart
  BY <1>1
<1> QED
  BY <1>11, <1>12, <1>13, <1>14, <1>15, WaitsGives

LEMMA StartRunDefaultWaits ==
  ASSUME NEW t \in Thread, TypeOK, WaitsOK, ~failed', StartRunDefault(t)
  PROVE  WaitsOK'
<1>1. /\ pc[t] = "runDefault" /\ \A u \in Thread : u # t => then'[u] = then[u]
      /\ then'[t] = then[t] /\ UNCHANGED <<chan, port, routed>>
  BY DEF StartRunDefault, TypeOK
<1>2. PICK n \in Thread :
         /\ n # t /\ n[1] = "default" /\ pc[n] = "none"
         /\ pc'[t] = "runControl" /\ pc'[n] = "start"
         /\ \A u \in Thread : u \notin {t, n} => pc'[u] = pc[u]
  BY RunGives DEF StartRunDefault, Port
<1>11. chan' = "IDLE" => chan = "IDLE" \/ pc'[t] \in InStart
  BY <1>1, <1>2
<1>12. chan' = "IDLE" /\ pc[t] \in InStart => pc'[t] \in InStart
  BY <1>1, <1>2
<1>13. chan' = "LISTENING_DEFAULT" =>
         \/ pc'[t] = "notify" \/ routed'
         \/ chan = "LISTENING_DEFAULT" /\ routed' = routed /\ pc[t] # "notify"
  BY <1>1, <1>2
<1>14. ASSUME NEW p \in Port, port'[p] = "OPENED"
       PROVE  \/ \E u \in Thread : Comes(u, p)'
              \/ /\ port[p] = "OPENED" /\ ~Comes(t, p)
                 /\ \A u \in Thread : u # t /\ Comes(u, p) => Comes(u, p)'
  BY <1>1, <1>2, <1>14 DEF Comes, Port
<1>15. \A u \in Thread : u # t => pc'[u] = pc[u] \/ pc[u] \notin InStart
  BY <1>1, <1>2
<1> QED
  BY <1>11, <1>12, <1>13, <1>14, <1>15, WaitsGives

LEMMA StartRunControlWaits ==
  ASSUME NEW t \in Thread, TypeOK, WaitsOK, ~failed', StartRunControl(t)
  PROVE  WaitsOK'
<1>1. /\ pc[t] = "runControl" /\ \A u \in Thread : u # t => then'[u] = then[u]
      /\ then'[t] = then[t] /\ UNCHANGED <<chan, port, routed>>
  BY DEF StartRunControl, TypeOK
<1>2. PICK n \in Thread :
         /\ n # t /\ n[1] = "control" /\ pc[n] = "none"
         /\ pc'[t] = "setListening" /\ pc'[n] = "start"
         /\ \A u \in Thread : u \notin {t, n} => pc'[u] = pc[u]
  BY RunGives DEF StartRunControl, Port
<1>11. chan' = "IDLE" => chan = "IDLE" \/ pc'[t] \in InStart
  BY <1>1, <1>2
<1>12. chan' = "IDLE" /\ pc[t] \in InStart => pc'[t] \in InStart
  BY <1>1, <1>2
<1>13. chan' = "LISTENING_DEFAULT" =>
         \/ pc'[t] = "notify" \/ routed'
         \/ chan = "LISTENING_DEFAULT" /\ routed' = routed /\ pc[t] # "notify"
  BY <1>1, <1>2
<1>14. ASSUME NEW p \in Port, port'[p] = "OPENED"
       PROVE  \/ \E u \in Thread : Comes(u, p)'
              \/ /\ port[p] = "OPENED" /\ ~Comes(t, p)
                 /\ \A u \in Thread : u # t /\ Comes(u, p) => Comes(u, p)'
  BY <1>1, <1>2, <1>14 DEF Comes, Port
<1>15. \A u \in Thread : u # t => pc'[u] = pc[u] \/ pc[u] \notin InStart
  BY <1>1, <1>2
<1> QED
  BY <1>11, <1>12, <1>13, <1>14, <1>15, WaitsGives

LEMMA StartListeningWaits ==
  ASSUME NEW t \in Thread, TypeOK, WaitsOK, ~failed', StartListening(t)
  PROVE  WaitsOK'
<1>1. /\ pc[t] = "setListening" /\ Moves(t) /\ UNCHANGED <<port, routed>>
      /\ chan' = "LISTENING_DEFAULT"
      /\ chan = "LISTENING_DEFAULT" => pc'[t] = then[t] /\ then'[t] = "none"
      /\ chan # "LISTENING_DEFAULT" => pc'[t] = "notify" /\ then'[t] = then[t]
  BY SetGives DEF StartListening
<1>11. chan' = "IDLE" => chan = "IDLE" \/ pc'[t] \in InStart
  BY <1>1
<1>12. chan' = "IDLE" /\ pc[t] \in InStart => pc'[t] \in InStart
  BY <1>1
<1>13. chan' = "LISTENING_DEFAULT" =>
         \/ pc'[t] = "notify" \/ routed'
         \/ chan = "LISTENING_DEFAULT" /\ routed' = routed /\ pc[t] # "notify"
  BY <1>1
<1>14. ASSUME NEW p \in Port, port'[p] = "OPENED"
       PROVE  \/ \E u \in Thread : Comes(u, p)'
              \/ /\ port[p] = "OPENED" /\ ~Comes(t, p)
                 /\ \A u \in Thread : u # t /\ Comes(u, p) => Comes(u, p)'
  BY <1>1, <1>14 DEF Comes, Port
<1>15. \A u \in Thread : u # t => pc'[u] = pc[u] \/ pc[u] \notin InStart
  BY <1>1
<1> QED
  BY <1>11, <1>12, <1>13, <1>14, <1>15, WaitsGives

LEMMA EnableOpenWaits ==
  ASSUME NEW t \in Thread, TypeOK, WaitsOK, ~failed', EnableOpen(t)
  PROVE  WaitsOK'
<1>1. /\ pc[t] = "enable" /\ UNCHANGED <<chan, routed, then>> /\ Moves(t)
      /\ \A p \in Port : p # "largedata" => port'[p] = port[p]
      /\ pc'[t] = "setLarge"
  <2>1. PICK bad \in SUBSET {"largedata"} :
          /\ Open({"largedata"}, bad)
          /\ pc' = [pc EXCEPT ![t] = IF bad = {} THEN "setLarge" ELSE "listen"]
    BY DEF EnableOpen
  <2>2. bad = {} /\ \A p \in Port : p # "largedata" => port'[p] = port[p]
    BY <2>1, OpenGives DEF Port
  <2> QED
    BY <2>1, <2>2 DEF EnableOpen, TypeOK
<1>11. chan' = "IDLE" => chan = "IDLE" \/ pc'[t] \in InStart
  BY <1>1
<1>12. chan' = "IDLE" /\ pc[t] \in InStart => pc'[t] \in InStart
  BY <1>1
<1>13. chan' = "LISTENING_DEFAULT" =>
         \/ pc'[t] = "notify" \/ routed'
         \/ chan = "LISTENING_DEFAULT" /\ routed' = routed /\ pc[t] # "notify"
  BY <1>1
<1>14. ASSUME NEW p \in Port, port'[p] = "OPENED"
       PROVE  \/ \E u \in Thread : Comes(u, p)'
              \/ /\ port[p] = "OPENED" /\ ~Comes(t, p)
                 /\ \A u \in Thread : u # t /\ Comes(u, p) => Comes(u, p)'
  BY <1>1, <1>14 DEF Comes, Port
<1>15. \A u \in Thread : u # t => pc'[u] = pc[u] \/ pc[u] \notin InStart
  BY <1>1
<1> QED
  BY <1>11, <1>12, <1>13, <1>14, <1>15, WaitsGives

LEMMA EnableSetWaits ==
  ASSUME NEW t \in Thread, TypeOK, WaitsOK, ~failed', EnableSet(t)
  PROVE  WaitsOK'
<1>1. /\ pc[t] = "setLarge" /\ Moves(t) /\ UNCHANGED <<port, routed>>
      /\ chan' = "LISTENING_LARGEDATA"
      /\ pc'[t] = "runLarge" \/ (pc'[t] = "notify" /\ then'[t] = "runLarge")
  BY SetGives DEF EnableSet
<1>11. chan' = "IDLE" => chan = "IDLE" \/ pc'[t] \in InStart
  BY <1>1
<1>12. chan' = "IDLE" /\ pc[t] \in InStart => pc'[t] \in InStart
  BY <1>1
<1>13. chan' = "LISTENING_DEFAULT" =>
         \/ pc'[t] = "notify" \/ routed'
         \/ chan = "LISTENING_DEFAULT" /\ routed' = routed /\ pc[t] # "notify"
  BY <1>1
<1>14. ASSUME NEW p \in Port, port'[p] = "OPENED"
       PROVE  \/ \E u \in Thread : Comes(u, p)'
              \/ /\ port[p] = "OPENED" /\ ~Comes(t, p)
                 /\ \A u \in Thread : u # t /\ Comes(u, p) => Comes(u, p)'
  BY <1>1, <1>14 DEF Comes, Port
<1>15. \A u \in Thread : u # t => pc'[u] = pc[u] \/ pc[u] \notin InStart
  BY <1>1
<1> QED
  BY <1>11, <1>12, <1>13, <1>14, <1>15, WaitsGives

LEMMA EnableRunWaits ==
  ASSUME NEW t \in Thread, TypeOK, WaitsOK, ~failed', EnableRun(t)
  PROVE  WaitsOK'
<1>1. /\ pc[t] = "runLarge" /\ \A u \in Thread : u # t => then'[u] = then[u]
      /\ then'[t] = then[t] /\ UNCHANGED <<chan, port, routed>>
  BY DEF EnableRun, TypeOK
<1>2. PICK n \in Thread :
         /\ n # t /\ n[1] = "largedata" /\ pc[n] = "none"
         /\ pc'[t] = "listen" /\ pc'[n] = "start"
         /\ \A u \in Thread : u \notin {t, n} => pc'[u] = pc[u]
  BY RunGives DEF EnableRun, Port
<1>11. chan' = "IDLE" => chan = "IDLE" \/ pc'[t] \in InStart
  BY <1>1, <1>2
<1>12. chan' = "IDLE" /\ pc[t] \in InStart => pc'[t] \in InStart
  BY <1>1, <1>2
<1>13. chan' = "LISTENING_DEFAULT" =>
         \/ pc'[t] = "notify" \/ routed'
         \/ chan = "LISTENING_DEFAULT" /\ routed' = routed /\ pc[t] # "notify"
  BY <1>1, <1>2
<1>14. ASSUME NEW p \in Port, port'[p] = "OPENED"
       PROVE  \/ \E u \in Thread : Comes(u, p)'
              \/ /\ port[p] = "OPENED" /\ ~Comes(t, p)
                 /\ \A u \in Thread : u # t /\ Comes(u, p) => Comes(u, p)'
  BY <1>1, <1>2, <1>14 DEF Comes, Port
<1>15. \A u \in Thread : u # t => pc'[u] = pc[u] \/ pc[u] \notin InStart
  BY <1>1, <1>2
<1> QED
  BY <1>11, <1>12, <1>13, <1>14, <1>15, WaitsGives

LEMMA DisableWaits ==
  ASSUME NEW t \in Thread, TypeOK, WaitsOK, ~failed', Disable(t)
  PROVE  WaitsOK'
<1>1. /\ pc[t] = "disable" /\ Moves(t) /\ UNCHANGED <<port, routed>>
      /\ chan' = "CONNECTED_DEFAULT"
  BY SetGives DEF Disable
<1>11. chan' = "IDLE" => chan = "IDLE" \/ pc'[t] \in InStart
  BY <1>1
<1>12. chan' = "IDLE" /\ pc[t] \in InStart => pc'[t] \in InStart
  BY <1>1
<1>13. chan' = "LISTENING_DEFAULT" =>
         \/ pc'[t] = "notify" \/ routed'
         \/ chan = "LISTENING_DEFAULT" /\ routed' = routed /\ pc[t] # "notify"
  BY <1>1
<1>14. ASSUME NEW p \in Port, port'[p] = "OPENED"
       PROVE  \/ \E u \in Thread : Comes(u, p)'
              \/ /\ port[p] = "OPENED" /\ ~Comes(t, p)
                 /\ \A u \in Thread : u # t /\ Comes(u, p) => Comes(u, p)'
  BY <1>1, <1>14 DEF Comes, Port
<1>15. \A u \in Thread : u # t => pc'[u] = pc[u] \/ pc[u] \notin InStart
  BY <1>1
<1> QED
  BY <1>11, <1>12, <1>13, <1>14, <1>15, WaitsGives

LEMMA AcceptWaits ==
  ASSUME NEW t \in Listener, TypeOK, WaitsOK, ~failed', Accept(t)
  PROVE  WaitsOK'
<1>1. /\ pc[t] = "accept" /\ UNCHANGED <<chan, then, routed>>
      /\ \A p \in Port : port'[p] = IF p = t[1] THEN "CONNECTED" ELSE port[p]
      /\ \A u \in Thread : u # t => pc'[u] = pc[u]
      /\ t \in Thread
  BY ThreadsAre DEF Accept, TypeOK
<1>11. chan' = "IDLE" => chan = "IDLE" \/ pc'[t] \in InStart
  BY <1>1
<1>12. chan' = "IDLE" /\ pc[t] \in InStart => pc'[t] \in InStart
  BY <1>1
<1>13. chan' = "LISTENING_DEFAULT" =>
         \/ pc'[t] = "notify" \/ routed'
         \/ chan = "LISTENING_DEFAULT" /\ routed' = routed /\ pc[t] # "notify"
  BY <1>1
<1>14. ASSUME NEW p \in Port, port'[p] = "OPENED"
       PROVE  \/ \E u \in Thread : Comes(u, p)'
              \/ /\ port[p] = "OPENED" /\ ~Comes(t, p)
                 /\ \A u \in Thread : u # t /\ Comes(u, p) => Comes(u, p)'
  BY <1>1, <1>14 DEF Comes, Port
<1>15. \A u \in Thread : u # t => pc'[u] = pc[u] \/ pc[u] \notin InStart
  BY <1>1
<1> QED
  BY <1>1, <1>11, <1>12, <1>13, <1>14, <1>15, WaitsGives

LEMMA CloseWaits ==
  ASSUME NEW t \in Listener, TypeOK, WaitsOK, ~failed', Close(t)
  PROVE  WaitsOK'
<1>1. /\ pc[t] = "listen" /\ UNCHANGED <<chan, routed>>
      /\ \A p \in Port : port'[p] = IF p = t[1] THEN "CLOSED" ELSE port[p]
      /\ \A u \in Thread : u # t =>
           /\ then'[u] = then[u]
           /\ pc'[u] = IF u[1] = t[1] /\ pc[u] = "accept" THEN "none" ELSE pc[u]
      /\ t \in Thread
  BY ThreadsAre, DropGives DEF Close
<1>11. chan' = "IDLE" => chan = "IDLE" \/ pc'[t] \in InStart
  BY <1>1
<1>12. chan' = "IDLE" /\ pc[t] \in InStart => pc'[t] \in InStart
  BY <1>1
<1>13. chan' = "LISTENING_DEFAULT" =>
         \/ pc'[t] = "notify" \/ routed'
         \/ chan = "LISTENING_DEFAULT" /\ routed' = routed /\ pc[t] # "notify"
  BY <1>1
<1>14. ASSUME NEW p \in Port, port'[p] = "OPENED"
       PROVE  \/ \E u \in Thread : Comes(u, p)'
              \/ /\ port[p] = "OPENED" /\ ~Comes(t, p)
                 /\ \A u \in Thread : u # t /\ Comes(u, p) => Comes(u, p)'
  BY <1>1, <1>14 DEF Comes, Port
<1>15. \A u \in Thread : u # t => pc'[u] = pc[u] \/ pc[u] \notin InStart
  BY <1>1
<1> QED
  BY <1>1, <1>11, <1>12, <1>13, <1>14, <1>15, WaitsGives

LEMMA ReceiveWaits ==
  ASSUME NEW t \in Listener, NEW command \in {"enable", "disable"},
         TypeOK, WaitsOK, ~failed', Receive(t, command)
  PROVE  WaitsOK'
<1>1. /\ pc[t] = "listen" /\ UNCHANGED <<chan, port, then, routed>>
      /\ \A u \in Thread : u # t => pc'[u] = pc[u]
      /\ t \in Thread
  BY ThreadsAre DEF Receive, TypeOK
<1>11. chan' = "IDLE" => chan = "IDLE" \/ pc'[t] \in InStart
  BY <1>1
<1>12. chan' = "IDLE" /\ pc[t] \in InStart => pc'[t] \in InStart
  BY <1>1
<1>13. chan' = "LISTENING_DEFAULT" =>
         \/ pc'[t] = "notify" \/ routed'
         \/ chan = "LISTENING_DEFAULT" /\ routed' = routed /\ pc[t] # "notify"
  BY <1>1
<1>14. ASSUME NEW p \in Port, port'[p] = "OPENED"
       PROVE  \/ \E u \in Thread : Comes(u, p)'
              \/ /\ port[p] = "OPENED" /\ ~Comes(t, p)
                 /\ \A u \in Thread : u # t /\ Comes(u, p) => Comes(u, p)'
  BY <1>1, <1>14 DEF Comes, Port
<1>15. \A u \in Thread : u # t => pc'[u] = pc[u] \/ pc[u] \notin InStart
  BY <1>1
<1> QED
  BY <1>1, <1>11, <1>12, <1>13, <1>14, <1>15, WaitsGives

HIDE DEF Moves, InStart

\* failed is never taken back.
LEMMA FailedStays == [Next]_vars => (~failed' => ~failed)
BY DEF Next, vars, Step, Start, Refused, Connected, DefaultClosed, LargeDataClosed, ControlClosed,
   ControlReopened, Notify, StartOpen, StartRunDefault, StartRunControl, StartListening,
   EnableOpen, EnableSet, EnableRun, Disable, Accept, Close, Receive, Open

LEMMA WaitsInductive == Spec => []WInv
<1>1. Init => WInv
  <2> SUFFICES ASSUME Init PROVE WInv
    OBVIOUS
  <2>1. TypeOK
    BY InitHolds DEF IInv
  <2>2. pc[Main] = "open" /\ chan = "IDLE" /\ \A p \in Port : port[p] = "CLOSED"
    BY ThreadsAre DEF Init
  <2> QED
    BY <2>1, <2>2, ThreadsAre DEF WInv, WaitsOK, InStart
<1>2. WInv /\ [Next]_vars => WInv'
  <2> SUFFICES ASSUME WInv, [Next]_vars, ~failed' PROVE WaitsOK'
    BY TypesHold DEF WInv
  <2>1. TypeOK /\ WaitsOK
    BY FailedStays DEF WInv
  <2>2. CASE \E t \in Thread : Step(t)
    BY <2>1, <2>2, StartWaits, RefusedWaits, ConnectedWaits, DefaultClosedWaits,
       LargeDataClosedWaits, ControlClosedWaits, ControlReopenedWaits, NotifyWaits,
       StartOpenWaits, StartRunDefaultWaits, StartRunControlWaits, StartListeningWaits,
       EnableOpenWaits, EnableSetWaits, EnableRunWaits, DisableWaits
    DEF Step
  <2>3. CASE \E t \in Listener : Accept(t) \/ Close(t)
    BY <2>1, <2>3, AcceptWaits, CloseWaits
  <2>4. CASE \E t \in Listener : \E command \in {"enable", "disable"} : Receive(t, command)
    BY <2>1, <2>4, ReceiveWaits
  <2>5. CASE UNCHANGED vars
    BY <2>1, <2>5 DEF WaitsOK, Comes, vars
  <2> QED
    BY <2>2, <2>3, <2>4, <2>5 DEF Next
<1> QED
  BY <1>1, <1>2, PTL DEF Spec

\* However the events overlap, with any number of threads and of events: as long as no socket
\* fails to open, CommChannel leaves IDLE, AppCore learns the route of a CommChannel that waits
\* (CommChannelState::set, AppCore::onCommChannelStateChanged), and an open port has a thread
\* that accepts (CommChannel::start, CommPort::listeningLoop).
THEOREM WaitingIsAlwaysKnown == Spec => []WaitingIsKnown
<1>1. ASSUME WInv, Quiet, ~failed
      PROVE  /\ chan # "IDLE"
             /\ chan = "LISTENING_DEFAULT" => routed
             /\ \A p \in Port : port[p] = "OPENED" => \E t \in ThreadsOf(p) : pc[t] = "accept"
  <2>1. WaitsOK
    BY <1>1 DEF WInv
  <2>2. \A t \in Thread : pc[t] \notin InStart
    BY <1>1 DEF Quiet, Blocked, InStart
  <2>3. chan # "IDLE" /\ (chan = "LISTENING_DEFAULT" => routed)
    BY <2>1, <2>2 DEF WaitsOK, InStart
  <2>4. ASSUME NEW p \in Port, port[p] = "OPENED"
        PROVE  \E t \in ThreadsOf(p) : pc[t] = "accept"
    <3>1. PICK t \in Thread : Comes(t, p)
      BY <2>1, <2>4 DEF WaitsOK
    <3>2. t[1] = p /\ pc[t] = "accept"
      BY <1>1, <2>2, <2>4, <3>1 DEF Comes, Quiet, Blocked
    <3>3. t \in Listener
      BY <3>2, ThreadsAre DEF Thread, Port
    <3> QED
      BY <3>2, <3>3 DEF ThreadsOf
  <2> QED
    BY <2>3, <2>4
<1>2. WInv => WaitingIsKnown
  BY <1>1 DEF WaitingIsKnown
<1> QED
  BY <1>2, WaitsInductive, PTL
=============================================================================
