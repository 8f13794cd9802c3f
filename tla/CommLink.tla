------------------------------ MODULE CommLink ------------------------------
(***************************************************************************)
(* The link to the companion device: CommChannel's state, its three ports, *)
(* the listening threads of the ports, and AppCore, which listens to the   *)
(* state and keeps the route /comp0.                                       *)
(*                                                                         *)
(* CommChannel has no mutex: the state is read and set by every listening  *)
(* thread.  A port reports a change of its state on the thread that made   *)
(* it, CommChannel reports to AppCore on the same thread, and AppCore may  *)
(* start CommChannel anew, again on that thread.                           *)
(***************************************************************************)
EXTENDS Naturals, FiniteSets

CONSTANTS
  MaxThreads,  \* BOUND: listening threads of each port at a time
  MaxOverlaps, \* BOUND: events that come while an earlier one is being handled
  OpenFails,   \* may a socket fail to open?
  LargeData    \* does the companion use the large data mode?

Port == {"default", "control", "largedata"}
ASSUME CommLinkAssumption ==
  /\ MaxThreads \in [Port -> Nat \ {0}]
  /\ MaxOverlaps \in Nat
  /\ OpenFails \in BOOLEAN /\ LargeData \in BOOLEAN

PortState == {"CLOSED", "OPENED", "CONNECTED"}
ChannelState == {"IDLE", "LISTENING_DEFAULT", "CONNECTED_DEFAULT",
                 "LISTENING_LARGEDATA", "CONNECTED_LARGEDATA"}

\* The main thread, which runs CommChannel for the first time, and the listening
\* threads of each port.
Main == <<"main", 0>>
Listener == UNION {{p} \X (1..MaxThreads[p]) : p \in Port}
Thread == {Main} \cup Listener

VARIABLES
  chan,    \* CommChannel::mState
  port,    \* CommPort::mState of each port
  pc,      \* where each thread is
  seen,    \* presentChannelState in the callback that a thread is in
  then,    \* where a thread goes on after the callback
  routed,  \* has the routing table the entry /comp0?
  failed,  \* has a socket failed to open?
  overlaps \* how many events came while an earlier one was being handled

vars == <<chan, port, pc, seen, then, routed, failed, overlaps>>

Blocked == {"none", "accept", "listen"}   \* no thread, accept, read
Pc == Blocked \cup
      {"start", "refused", "connected", "closed",              \* listeningLoop
       "notify",                                               \* CommChannelState::set
       "open", "runDefault", "runControl", "setListening",     \* CommChannel::start
       "reopened",                                             \* control port
       "enable", "setLarge", "runLarge", "disable"}

TypeOK ==
  /\ chan \in ChannelState
  /\ port \in [Port -> PortState]
  /\ pc \in [Thread -> Pc]
  /\ seen \in [Thread -> ChannelState]
  /\ then \in [Thread -> Pc]
  /\ routed \in BOOLEAN /\ failed \in BOOLEAN
  /\ overlaps \in 0..MaxOverlaps

Init ==
  /\ chan = "IDLE"
  /\ port = [p \in Port |-> "CLOSED"]
  /\ pc = [t \in Thread |-> IF t = Main THEN "open" ELSE "none"]
  /\ seen = [t \in Thread |-> "IDLE"]
  /\ then = [t \in Thread |-> "none"]
  /\ routed = FALSE /\ failed = FALSE
  /\ overlaps = 0

-----------------------------------------------------------------------------
\* Nothing is being handled: every thread is blocked, or tries for ever to accept
\* on a port that is closed.
Quiet ==
  \A t \in Thread :
    \/ pc[t] \in Blocked
    \/ pc[t] \in {"start", "refused"} /\ port[t[1]] = "CLOSED"

\* The companion or the radio acts.
Event ==
  \/ Quiet /\ UNCHANGED overlaps
  \/ ~Quiet /\ overlaps < MaxOverlaps /\ overlaps' = overlaps + 1

\* CommChannelState::set: AppCore is told of a change.  Back at k.
Set(t, state, k) ==
  /\ chan' = state
  /\ IF chan = state
     THEN pc' = [pc EXCEPT ![t] = k] /\ then' = [then EXCEPT ![t] = "none"]
     ELSE pc' = [pc EXCEPT ![t] = "notify"] /\ then' = [then EXCEPT ![t] = k]

\* Thread t is through with its callback.
Return(t) ==
  /\ pc' = [pc EXCEPT ![t] = then[t]]
  /\ then' = [then EXCEPT ![t] = "none"]

\* openConnection of each of the ports: an open port stays as it is, the sockets
\* of the ports in bad do not open.
Open(ports, bad) ==
  /\ bad \subseteq {p \in ports : port[p] = "CLOSED"}
  /\ bad # {} => OpenFails
  /\ port' = [p \in Port |-> IF p \in ports \ bad /\ port[p] = "CLOSED"
                              THEN "OPENED" ELSE port[p]]
  /\ failed' = (failed \/ bad # {})

\* CommPort::runListeningThread on thread t, which goes on at k.
RunListening(t, p, k) ==
  \E i \in 1..MaxThreads[p] :
    /\ pc[<<p, i>>] = "none"
    /\ \A j \in 1..(i - 1) : pc[<<p, j>>] # "none"
    /\ pc' = [pc EXCEPT ![t] = k, ![<<p, i>>] = "start"]

\* closeConnection of the port of thread t, which then goes on at k.  A thread
\* that is blocked in accept on the closed socket never comes back.
CloseConnection(t, k) ==
  /\ port' = [port EXCEPT ![t[1]] = "CLOSED"]
  /\ LET left == [u \in Thread |->
                    IF u[1] = t[1] /\ pc[u] = "accept" THEN "none" ELSE pc[u]]
     IN IF port[t[1]] = "CLOSED"
        THEN pc' = [left EXCEPT ![t] = k] /\ UNCHANGED <<seen, then>>
        ELSE /\ pc' = [left EXCEPT ![t] = "closed"]
             /\ seen' = [seen EXCEPT ![t] = chan]
             /\ then' = [then EXCEPT ![t] = k]

\* presentChannelState goes out of scope.
Forget(t) == seen' = [seen EXCEPT ![t] = "IDLE"]

-----------------------------------------------------------------------------
(* CommPort::listeningLoop and CommChannel::onCommPortStateChanged          *)

\* acceptConnection up to accept, which blocks or fails at once.
Start(t) ==
  /\ pc[t] = "start"
  /\ pc' = [pc EXCEPT ![t] = IF port[t[1]] = "CLOSED" THEN "refused" ELSE "accept"]
  /\ UNCHANGED <<chan, port, seen, then, routed, failed>>

\* acceptConnection after accept has failed; listeningLoop tries again.
Refused(t) ==
  /\ pc[t] = "refused"
  /\ CloseConnection(t, "start")
  /\ UNCHANGED <<chan, routed, failed>>

\* Mutant of Accept: the state of the port is taken for that of the channel.
AcceptPortState(t) ==
  /\ Event
  /\ pc[t] = "accept"
  /\ port' = [port EXCEPT ![t[1]] = "CONNECTED"]
  /\ pc' = [pc EXCEPT ![t] = "connected"]
  /\ seen' = [seen EXCEPT ![t] = port[t[1]]]
  /\ UNCHANGED <<chan, then, routed, failed>>

\* The companion connects.
Accept(t) ==
  /\ Event
  /\ pc[t] = "accept"
  /\ port' = [port EXCEPT ![t[1]] = "CONNECTED"]
  /\ IF port[t[1]] = "CONNECTED"
     THEN pc' = [pc EXCEPT ![t] = "listen"] /\ UNCHANGED seen
     ELSE pc' = [pc EXCEPT ![t] = "connected"] /\ seen' = [seen EXCEPT ![t] = chan]
  /\ UNCHANGED <<chan, then, routed, failed>>

\* onCommPortStateChanged(CONNECTED)
Connected(t) ==
  /\ pc[t] = "connected"
  /\ \/ /\ t[1] = "default" /\ seen[t] = "LISTENING_DEFAULT"
        /\ Set(t, "CONNECTED_DEFAULT", "listen")
     \/ /\ t[1] = "largedata" /\ seen[t] = "LISTENING_LARGEDATA"
        /\ Set(t, "CONNECTED_LARGEDATA", "listen")
     \/ /\ <<t[1], seen[t]>> \notin {<<"default", "LISTENING_DEFAULT">>,
                                     <<"largedata", "LISTENING_LARGEDATA">>}
        /\ pc' = [pc EXCEPT ![t] = "listen"]
        /\ UNCHANGED <<chan, then>>
  /\ Forget(t)
  /\ UNCHANGED <<port, routed, failed>>

\* The connection is lost, the peer breaks the protocol, or the loop finds that it
\* was told to stop.  BOUND: there is room for the threads this may start.
Close(t) ==
  /\ Event
  /\ pc[t] = "listen"
  /\ \A p \in {"default", "control"} : pc[<<p, MaxThreads[p]>>] = "none"
  /\ CloseConnection(t, "none")
  /\ UNCHANGED <<chan, routed, failed>>

\* onCommPortStateChanged(CLOSED)
DefaultClosed(t) ==
  /\ pc[t] = "closed" /\ t[1] = "default"
  /\ IF seen[t] # "IDLE"
     THEN Set(t, "IDLE", then[t])
     ELSE Return(t) /\ UNCHANGED chan
  /\ Forget(t)
  /\ UNCHANGED <<port, routed, failed>>

LargeDataClosed(t) ==
  /\ pc[t] = "closed" /\ t[1] = "largedata"
  /\ IF seen[t] \in {"LISTENING_LARGEDATA", "CONNECTED_LARGEDATA"}
     THEN Set(t, "CONNECTED_DEFAULT", then[t])
     ELSE Return(t) /\ UNCHANGED chan
  /\ Forget(t)
  /\ UNCHANGED <<port, routed, failed>>

\* Mutant of ControlClosed: no retry.
ControlClosedOnce(t) ==
  /\ pc[t] = "closed" /\ t[1] = "control"
  /\ Return(t) /\ Forget(t)
  /\ UNCHANGED <<chan, port, routed, failed>>

\* "Retry open", unless CommChannel is idle.
ControlClosed(t) ==
  /\ pc[t] = "closed" /\ t[1] = "control"
  /\ \/ /\ seen[t] = "IDLE"
        /\ Return(t)
        /\ UNCHANGED <<port, failed>>
     \/ /\ seen[t] # "IDLE"
        /\ \/ /\ Open({"control"}, {})
              /\ pc' = [pc EXCEPT ![t] = "reopened"]
              /\ UNCHANGED then
           \/ Open({"control"}, {"control"}) /\ Return(t)
  /\ Forget(t)
  /\ UNCHANGED <<chan, routed>>

ControlReopened(t) ==
  /\ pc[t] = "reopened"
  /\ RunListening(t, "control", then[t])
  /\ then' = [then EXCEPT ![t] = "none"]
  /\ UNCHANGED <<chan, port, seen, routed, failed>>

-----------------------------------------------------------------------------
(* AppCore::onCommChannelStateChanged and CommChannel::start               *)

\* Mutants of Notify: the route is added at CONNECTED_DEFAULT, where the comment in
\* AppCore.cpp:263 has it; CommChannel is not run again.
NotifyConnected(t) ==
  /\ pc[t] = "notify"
  /\ routed' = CASE chan = "IDLE" -> FALSE
                 [] chan = "CONNECTED_DEFAULT" -> TRUE
                 [] OTHER -> routed
  /\ IF chan = "IDLE"
     THEN pc' = [pc EXCEPT ![t] = "open"] /\ UNCHANGED then
     ELSE Return(t)
  /\ UNCHANGED <<chan, port, seen, failed>>

NotifyOnly(t) ==
  /\ pc[t] = "notify"
  /\ routed' = ((routed /\ chan # "IDLE") \/ chan = "LISTENING_DEFAULT")
  /\ Return(t)
  /\ UNCHANGED <<chan, port, seen, failed>>

\* The listener gets the state as it is now.
Notify(t) ==
  /\ pc[t] = "notify"
  /\ routed' = CASE chan = "IDLE" -> FALSE
                 [] chan = "LISTENING_DEFAULT" -> TRUE
                 [] OTHER -> routed
  /\ IF chan = "IDLE"
     THEN pc' = [pc EXCEPT ![t] = "open"] /\ UNCHANGED then
     ELSE Return(t)
  /\ UNCHANGED <<chan, port, seen, failed>>

StartOpen(t) ==
  /\ pc[t] = "open"
  /\ \E bad \in SUBSET {"default", "control"} :
       /\ Open({"default", "control"}, bad)
       /\ IF bad = {}
          THEN pc' = [pc EXCEPT ![t] = "runDefault"] /\ UNCHANGED then
          ELSE Return(t)
  /\ UNCHANGED <<chan, seen, routed>>

StartRunDefault(t) ==
  /\ pc[t] = "runDefault"
  /\ RunListening(t, "default", "runControl")
  /\ UNCHANGED <<chan, port, seen, then, routed, failed>>

\* Mutant of StartRunControl: start ends without a new state.
StartRunControlOnly(t) ==
  /\ pc[t] = "runControl"
  /\ RunListening(t, "control", then[t])
  /\ then' = [then EXCEPT ![t] = "none"]
  /\ UNCHANGED <<chan, port, seen, routed, failed>>

StartRunControl(t) ==
  /\ pc[t] = "runControl"
  /\ RunListening(t, "control", "setListening")
  /\ UNCHANGED <<chan, port, seen, then, routed, failed>>

StartListening(t) ==
  /\ pc[t] = "setListening"
  /\ Set(t, "LISTENING_DEFAULT", then[t])
  /\ UNCHANGED <<port, seen, routed, failed>>

-----------------------------------------------------------------------------
(* CommChannel::onReceivedControlMessage                                   *)

\* "on" or "off" arrives.  BOUND: there is room for the thread that "on" starts.
Receive(t, command) ==
  /\ LargeData
  /\ Event
  /\ pc[t] = "listen" /\ t[1] = "control"
  /\ command = "enable" => pc[<<"largedata", MaxThreads["largedata"]>>] = "none"
  /\ pc' = [pc EXCEPT ![t] = command]
  /\ UNCHANGED <<chan, port, seen, then, routed, failed>>

EnableOpen(t) ==
  /\ pc[t] = "enable"
  /\ \E bad \in SUBSET {"largedata"} :
       /\ Open({"largedata"}, bad)
       /\ pc' = [pc EXCEPT ![t] = IF bad = {} THEN "setLarge" ELSE "listen"]
  /\ UNCHANGED <<chan, seen, then, routed>>

EnableSet(t) ==
  /\ pc[t] = "setLarge"
  /\ Set(t, "LISTENING_LARGEDATA", "runLarge")
  /\ UNCHANGED <<port, seen, routed, failed>>

EnableRun(t) ==
  /\ pc[t] = "runLarge"
  /\ RunListening(t, "largedata", "listen")
  /\ UNCHANGED <<chan, port, seen, then, routed, failed>>

\* The thread of the large data port stops later, at its next message: see Close.
Disable(t) ==
  /\ pc[t] = "disable"
  /\ Set(t, "CONNECTED_DEFAULT", "listen")
  /\ UNCHANGED <<port, seen, routed, failed>>

-----------------------------------------------------------------------------
Step(t) ==
 /\ UNCHANGED overlaps
 /\ \/ Start(t) \/ Refused(t) \/ Connected(t)
    \/ DefaultClosed(t) \/ LargeDataClosed(t) \/ ControlClosed(t) \/ ControlReopened(t)
    \/ Notify(t) \/ StartOpen(t) \/ StartRunDefault(t) \/ StartRunControl(t)
    \/ StartListening(t)
    \/ EnableOpen(t) \/ EnableSet(t) \/ EnableRun(t) \/ Disable(t)

Next ==
  \/ \E t \in Thread : Step(t)
  \/ \E t \in Listener : Accept(t) \/ Close(t)
  \/ \E t \in Listener : \E command \in {"enable", "disable"} : Receive(t, command)

Spec == Init /\ [][Next]_vars

FairSpec == Spec /\ \A t \in Thread : WF_vars(Step(t))

-----------------------------------------------------------------------------
(* Properties                                                              *)

ThreadsOf(p) == {t \in Listener : t[1] = p /\ pc[t] # "none"}

\* As long as the events do not overlap and no socket fails to open, CommChannel is
\* back after every loss once all is handled: the default port is open with just
\* one thread and has its route, the control port is open and served, and a
\* companion that is connected has been noticed, so that onRoutedMessage sends.
LinkIsUp ==
  Quiet /\ ~failed /\ overlaps = 0 =>
    /\ routed /\ chan # "IDLE"
    /\ port["default"] # "CLOSED" /\ Cardinality(ThreadsOf("default")) = 1
    /\ port["control"] # "CLOSED" /\ ThreadsOf("control") # {}
    /\ port["default"] = "CONNECTED" => chan # "LISTENING_DEFAULT"

\* removeRoutingEntry reads through a null pointer if there is no entry: the entry
\* is there whenever AppCore is told IDLE, though "on" and "off" may come at any
\* time and sockets may fail to open, as long as the events do not overlap.
RouteIsThere ==
  overlaps = 0 =>
    \A t \in Thread : pc[t] = "notify" /\ chan = "IDLE" => routed

\* However the events overlap: unless a socket has failed to open, CommChannel has left
\* IDLE once all is handled, AppCore knows the route of a CommChannel that waits for
\* the companion, and a thread accepts on every port that is open.
WaitingIsKnown ==
  Quiet /\ ~failed =>
    /\ chan # "IDLE"
    /\ chan = "LISTENING_DEFAULT" => routed
    /\ \A p \in Port : port[p] = "OPENED" => \E t \in ThreadsOf(p) : pc[t] = "accept"

\* However the events overlap: CommChannel leaves IDLE again, unless a socket fails
\* to open ("Retry to connect CommChannel", AppCore.cpp:254).
LinkRecovers == chan = "IDLE" ~> chan # "IDLE" \/ failed

\* CommChannel.cpp:92: "OPENED -> CONNECTED: Go to CONNECTED_DEFAULT".  Once all is
\* handled, the channel of a connected default port does not wait for a connection:
\* it would drop every message to the companion.
ConnectionIsSeen ==
  Quiet /\ ~failed /\ port["default"] = "CONNECTED" => chan # "LISTENING_DEFAULT"

=============================================================================
