------------------------------ MODULE Channels ------------------------------
(***************************************************************************)
(* The channels of one AppCore process and the threads that use them: every*)
(* channel has a queue, a mutex (mWaitMutex), a condition variable and one *)
(* or more threads in routedLoop; listener threads and the handlers of     *)
(* messages route messages into the queues; SIGCHLD runs AppCore's         *)
(* notification on top of whatever thread it hits.                         *)
(*                                                                         *)
(* routedLoop holds mWaitMutex while onRoutedMessage runs.  The mutex      *)
(* mRoutedMessageQueueMutex is only taken under mWaitMutex and for a few   *)
(* instructions; the two are one mutex here.                               *)
(***************************************************************************)
EXTENDS Naturals, Sequences, SequencesExt, FiniteSets

CONSTANTS
  Loops,          \* threads that run routedLoop
  Serves,         \* the channel of each of them
  Extra,          \* those that only start when CommChannel::run is called again
  Listeners,      \* threads that receive messages from the outside
  Handler,        \* the SIGCHLD handler, which borrows a thread
  Interruptible,  \* threads that SIGCHLD may hit
  Nobody,         \* not a thread
  Incoming,       \* messages that the listeners receive
  Notices,        \* messages of onChangedState when an app has ended
  Replies,        \* the messages that the handling of each message routes
  To,             \* the channel that each message is for
  NoMessage       \* not a message

Channel == {"local", "dbus", "comm"}
Message == DOMAIN To
Threads == Loops \cup Listeners
Actors == Threads \cup {Handler}
Mutexes == Channel \cup {"table"}

ASSUME ChannelsAssumption ==
  /\ Serves \in [Loops -> Channel]
  /\ Extra \subseteq {t \in Loops : Serves[t] = "comm"}
  /\ Loops \cap Listeners = {}
  /\ Handler \notin Threads /\ Nobody \notin Actors
  /\ Interruptible \subseteq Threads
  /\ To \in [Message -> Channel] /\ NoMessage \notin Message
  /\ Incoming \subseteq Message /\ Notices \subseteq Message
  /\ Replies \in [Message -> SUBSET Message]
  \* AppCore's commands answer; the other two channels only transmit
  /\ \A m \in Message : Replies[m] # {} =>
       To[m] = "local" /\ \A r \in Replies[m] : To[r] # "local"

VARIABLES
  queue,     \* channel -> mRoutedMessageQueue: begin() is the youngest
  owner,     \* mutex -> the thread that holds it, or Nobody
  routed,    \* channels with an entry in the routing table
  at,        \* where each thread is
  handling,  \* loop -> the message that it handles
  rest,      \* loop -> what this handling has not sent yet
  routing,   \* thread -> the message of its routeMessage call
  done,      \* channel -> messages whose handling is complete
  posted,    \* messages that were received or noticed already
  host       \* the thread that the SIGCHLD handler runs on, or Nobody

vars == <<queue, owner, routed, at, handling, rest, routing, done, posted, host>>

Place == {"boot", "unborn", "idle",                         \* outside of a call
          "find", "look", "lock", "push",                   \* routeMessage
          "start", "check", "wait", "woken", "handle"}      \* routedLoop

TypeOK ==
  /\ queue \in [Channel -> Seq(Message)]
  /\ owner \in [Mutexes -> Actors \cup {Nobody}]
  /\ routed \subseteq Channel
  /\ at \in [Actors -> Place]
  /\ handling \in [Actors -> Message \cup {NoMessage}]
  /\ rest \in [Actors -> SUBSET Message]
  /\ routing \in [Actors -> Message \cup {NoMessage}]
  /\ done \in [Channel -> Seq(Message)]
  /\ posted \subseteq Message
  /\ host \in Threads \cup {Nobody}

\* AppCore::run up to the first addRoutingEntry of its last three lines: both
\* other channels run, the main thread still has to enter its loop.
Init ==
  /\ queue = [c \in Channel |-> <<>>]
  /\ owner = [x \in Mutexes |-> Nobody]
  /\ routed = {"dbus", "comm"}
  /\ at = [t \in Actors |->
             IF t \in Extra THEN "unborn"
             ELSE IF t \in Loops
                  THEN IF Serves[t] = "local" THEN "boot" ELSE "start"
                  ELSE "idle"]
  /\ handling = [t \in Actors |-> NoMessage]
  /\ rest = [t \in Actors |-> {}]
  /\ routing = [t \in Actors |-> NoMessage]
  /\ done = [c \in Channel |-> <<>>]
  /\ posted = {}
  /\ host = Nobody

\* A thread stands still while the signal handler runs on it.
Running(t) == host # t

Free(x) == owner[x] = Nobody

Waiting(c) == {t \in Loops : Serves[t] = c /\ at[t] = "wait"}

-----------------------------------------------------------------------------
(* Routing a message: MessageRouter::routeMessage, Channel::routeMessage   *)

\* Where a thread goes on when its call of routeMessage returns.
Home(t) == IF t \in Loops THEN "handle" ELSE "idle"

Call(t, m) ==
  /\ at' = [at EXCEPT ![t] = "find"]
  /\ routing' = [routing EXCEPT ![t] = m]

\* The SIGCHLD handler is over when its call returns.
HostAfter(t) == IF t = Handler THEN Nobody ELSE host

\* A message of the companion device or of another process arrives.
Receive(t, m) ==
  /\ t \in Listeners /\ at[t] = "idle" /\ Running(t)
  /\ m \in Incoming \ posted
  /\ Call(t, m)
  /\ posted' = posted \cup {m}
  /\ UNCHANGED <<queue, owner, routed, handling, rest, done, host>>

\* SIGCHLD hits thread t; onChangedState sends an acknowledgement to the
\* companion device that listens to the state of the app.
Interrupt(t, m) ==
  /\ t \in Interruptible /\ host = Nobody
  /\ at[t] \notin {"boot", "unborn"}
  /\ m \in Notices \ posted
  /\ host' = t
  /\ Call(Handler, m)
  /\ posted' = posted \cup {m}
  /\ UNCHANGED <<queue, owner, routed, handling, rest, done>>

FindLock(t) ==
  /\ at[t] = "find" /\ Running(t) /\ Free("table")
  /\ owner' = [owner EXCEPT !["table"] = t]
  /\ at' = [at EXCEPT ![t] = "look"]
  /\ UNCHANGED <<queue, routed, handling, rest, routing, done, posted, host>>

\* A message without a route is dropped.
FindDone(t) ==
  /\ at[t] = "look" /\ Running(t)
  /\ owner' = [owner EXCEPT !["table"] = Nobody]
  /\ \/ /\ To[routing[t]] \in routed
        /\ at' = [at EXCEPT ![t] = "lock"]
        /\ UNCHANGED <<routing, host>>
     \/ /\ To[routing[t]] \notin routed
        /\ at' = [at EXCEPT ![t] = Home(t)]
        /\ routing' = [routing EXCEPT ![t] = NoMessage]
        /\ host' = HostAfter(t)
  /\ UNCHANGED <<queue, routed, handling, rest, done, posted>>

PushLock(t) ==
  /\ at[t] = "lock" /\ Running(t) /\ Free(To[routing[t]])
  /\ owner' = [owner EXCEPT ![To[routing[t]]] = t]
  /\ at' = [at EXCEPT ![t] = "push"]
  /\ UNCHANGED <<queue, routed, handling, rest, routing, done, posted, host>>

\* Mutant: the call forgets its message before it inserts it.
PushCleared(t) ==
  LET c == To[routing[t]] IN
  /\ at[t] = "push" /\ Running(t)
  /\ queue' = [queue EXCEPT ![c] = <<NoMessage>> \o @]
  /\ owner' = [owner EXCEPT ![c] = Nobody]
  /\ at' = [at EXCEPT ![t] = Home(t)]
  /\ routing' = [routing EXCEPT ![t] = NoMessage]
  /\ host' = HostAfter(t)
  /\ UNCHANGED <<routed, handling, rest, done, posted>>

\* Mutant: insert at the end that dequeueRoutedMessageLocked takes from.
PushAtEnd(t) ==
  LET c == To[routing[t]] IN
  /\ at[t] = "push" /\ Running(t)
  /\ queue' = [queue EXCEPT ![c] = Append(@, routing[t])]
  /\ owner' = [owner EXCEPT ![c] = Nobody]
  /\ \/ /\ Waiting(c) = {}
        /\ at' = [at EXCEPT ![t] = Home(t)]
     \/ \E w \in Waiting(c) : at' = [at EXCEPT ![t] = Home(t), ![w] = "woken"]
  /\ routing' = [routing EXCEPT ![t] = NoMessage]
  /\ host' = HostAfter(t)
  /\ UNCHANGED <<routed, handling, rest, done, posted>>

\* Mutant: no pthread_cond_signal.
PushSilent(t) ==
  LET c == To[routing[t]] IN
  /\ at[t] = "push" /\ Running(t)
  /\ queue' = [queue EXCEPT ![c] = <<routing[t]>> \o @]
  /\ owner' = [owner EXCEPT ![c] = Nobody]
  /\ at' = [at EXCEPT ![t] = Home(t)]
  /\ routing' = [routing EXCEPT ![t] = NoMessage]
  /\ host' = HostAfter(t)
  /\ UNCHANGED <<routed, handling, rest, done, posted>>

\* Insert at begin(), wake one waiting loop if there is any, unlock.
Push(t) ==
  LET c == To[routing[t]] IN
  /\ at[t] = "push" /\ Running(t)
  /\ queue' = [queue EXCEPT ![c] = <<routing[t]>> \o @]
  /\ owner' = [owner EXCEPT ![c] = Nobody]
  /\ \/ /\ Waiting(c) = {}
        /\ at' = [at EXCEPT ![t] = Home(t)]
     \/ \E w \in Waiting(c) : at' = [at EXCEPT ![t] = Home(t), ![w] = "woken"]
  /\ routing' = [routing EXCEPT ![t] = NoMessage]
  /\ host' = HostAfter(t)
  /\ UNCHANGED <<routed, handling, rest, done, posted>>

-----------------------------------------------------------------------------
(* Channel::routedLoop                                                     *)

\* pthread_mutex_lock, at the top of the loop or when pthread_cond_wait
\* returns.
LoopLock(t) ==
  /\ t \in Loops /\ at[t] \in {"start", "woken"} /\ Running(t)
  /\ Free(Serves[t])
  /\ owner' = [owner EXCEPT ![Serves[t]] = t]
  /\ at' = [at EXCEPT ![t] = "check"]
  /\ UNCHANGED <<queue, routed, handling, rest, routing, done, posted, host>>

LoopWait(t) ==
  /\ t \in Loops /\ at[t] = "check" /\ Running(t)
  /\ queue[Serves[t]] = <<>>
  /\ owner' = [owner EXCEPT ![Serves[t]] = Nobody]
  /\ at' = [at EXCEPT ![t] = "wait"]
  /\ UNCHANGED <<queue, routed, handling, rest, routing, done, posted, host>>

\* pthread_cond_wait may return without a signal.
LoopWake(t) ==
  /\ t \in Loops /\ at[t] = "wait" /\ Running(t)
  /\ at' = [at EXCEPT ![t] = "woken"]
  /\ UNCHANGED <<queue, owner, routed, handling, rest, routing, done, posted, host>>

\* Mutant: unlock before onRoutedMessage.
LoopTakeUnlocked(t) ==
  LET c == Serves[t] IN
  /\ t \in Loops /\ at[t] = "check" /\ Running(t)
  /\ queue[c] # <<>>
  /\ queue' = [queue EXCEPT ![c] = Front(@)]
  /\ owner' = [owner EXCEPT ![c] = Nobody]
  /\ handling' = [handling EXCEPT ![t] = Last(queue[c])]
  /\ rest' = [rest EXCEPT ![t] = Replies[Last(queue[c])]]
  /\ at' = [at EXCEPT ![t] = "handle"]
  /\ UNCHANGED <<routed, routing, done, posted, host>>

\* pop_back(), and the call of onRoutedMessage with the mutex held.
LoopTake(t) ==
  LET c == Serves[t] IN
  /\ t \in Loops /\ at[t] = "check" /\ Running(t)
  /\ queue[c] # <<>>
  /\ queue' = [queue EXCEPT ![c] = Front(@)]
  /\ handling' = [handling EXCEPT ![t] = Last(queue[c])]
  /\ rest' = [rest EXCEPT ![t] = Replies[Last(queue[c])]]
  /\ at' = [at EXCEPT ![t] = "handle"]
  /\ UNCHANGED <<owner, routed, routing, done, posted, host>>

\* The handler of a message sends an answer.
HandleSend(t) ==
  /\ t \in Loops /\ at[t] = "handle" /\ Running(t)
  /\ \E r \in rest[t] :
       /\ Call(t, r)
       /\ rest' = [rest EXCEPT ![t] = @ \ {r}]
  /\ UNCHANGED <<queue, owner, routed, handling, done, posted, host>>

HandleReturn(t) ==
  /\ t \in Loops /\ at[t] = "handle" /\ Running(t)
  /\ rest[t] = {}
  /\ done' = [done EXCEPT ![Serves[t]] = Append(@, handling[t])]
  /\ handling' = [handling EXCEPT ![t] = NoMessage]
  /\ owner' = [owner EXCEPT ![Serves[t]] = Nobody]
  /\ at' = [at EXCEPT ![t] = "start"]
  /\ UNCHANGED <<queue, routed, rest, routing, posted, host>>

-----------------------------------------------------------------------------
(* The routing table                                                       *)

\* The last line but one of AppCore::run; then the main thread enters its loop.
EnterMainLoop(t) ==
  /\ at[t] = "boot" /\ Free("table")
  /\ routed' = routed \cup {"local"}
  /\ at' = [at EXCEPT ![t] = "start"]
  /\ UNCHANGED <<queue, owner, handling, rest, routing, done, posted, host>>

\* The companion device went away: CommChannel is IDLE.
LinkDown ==
  /\ \E t \in Extra : at[t] = "unborn"
  /\ "comm" \in routed /\ Free("table")
  /\ routed' = routed \ {"comm"}
  /\ UNCHANGED <<queue, owner, at, handling, rest, routing, done, posted, host>>

\* CommChannel::run listens again and starts one more routedLoop thread; the
\* earlier ones are still there.  That ports cannot be opened is the case that
\* this step is never taken.
LinkUp(t) ==
  /\ t \in Extra /\ at[t] = "unborn"
  /\ "comm" \notin routed /\ Free("table")
  /\ routed' = routed \cup {"comm"}
  /\ at' = [at EXCEPT ![t] = "start"]
  /\ UNCHANGED <<queue, owner, handling, rest, routing, done, posted, host>>

-----------------------------------------------------------------------------
\* What a thread does by itself once it is scheduled.
Step(t) ==
  \/ FindLock(t) \/ FindDone(t) \/ PushLock(t) \/ Push(t)
  \/ LoopLock(t) \/ LoopWait(t) \/ LoopTake(t)
  \/ HandleSend(t) \/ HandleReturn(t)
  \/ EnterMainLoop(t)

Next ==
  \/ \E t \in Actors : Step(t)
  \/ \E t \in Loops : LoopWake(t)
  \/ \E t \in Listeners, m \in Incoming : Receive(t, m)
  \/ \E t \in Interruptible, m \in Notices : Interrupt(t, m)
  \/ LinkDown
  \/ \E t \in Extra : LinkUp(t)

Spec == Init /\ [][Next]_vars

\* The scheduler runs every thread that can run, and waits do not return early
\* for ever; nothing makes a message arrive, a link change or a signal come.
FairSpec ==
  /\ Spec
  /\ \A t \in Actors : WF_vars(Step(t))
  /\ <>[][\A t \in Loops : ~LoopWake(t)]_vars

-----------------------------------------------------------------------------
(* Properties *)

\* The messages that t handles or has taken, while it has the mutex for it.
Holds(t, x) ==
  \/ x = "table" /\ at[t] = "look"
  \/ x \in Channel /\ at[t] = "push" /\ x = To[routing[t]]
  \/ /\ t \in Loops /\ x = Serves[t]
     /\ at[t] = "check" \/ handling[t] # NoMessage

\* The owner of a mutex is the one thread that is in a place that needs it: two
\* threads are never in onRoutedMessage of one channel, however many routedLoop
\* threads CommChannel::run has left behind, and a queue is never touched by two.
MutexOK ==
  \A x \in Mutexes : \A t \in Actors : Holds(t, x) <=> owner[x] = t

\* A loop handles a message exactly while it is in onRoutedMessage, calls there
\* included; a call has a message; the signal handler runs iff it has a host.
PlacesOK ==
  /\ \A t \in Actors :
       /\ at[t] \in {"find", "look", "lock", "push"} <=> routing[t] # NoMessage
       /\ t \in Loops =>
            /\ at[t] \in {"handle", "find", "look", "lock", "push"}
                 <=> handling[t] # NoMessage
            /\ handling[t] # NoMessage => To[handling[t]] = Serves[t]
            /\ at[t] = "push" => To[routing[t]] # Serves[t]
            /\ at[t] # "idle"
       /\ t \notin Loops =>
            /\ handling[t] = NoMessage
            /\ at[t] \in {"idle", "find", "look", "lock", "push"}
  /\ \A c \in Channel : \A i \in DOMAIN queue[c] : To[queue[c][i]] = c
  /\ (host = Nobody) <=> (at[Handler] = "idle")

IInv == TypeOK /\ PlacesOK /\ MutexOK

\* The channels implement Mailboxes: first in, first out, one message at a time,
\* nothing lost between the push and the end of the handling, nothing twice.
Current(c) ==
  IF owner[c] \in Loops /\ Serves[owner[c]] = c
    THEN handling[owner[c]] ELSE NoMessage

Boxes == INSTANCE Mailboxes WITH
  pending <- [c \in Channel |-> Reverse(queue[c])],
  current <- [c \in Channel |-> Current(c)]

MailboxSpec == Boxes!Spec

\* The signal handler waits for a mutex that the thread below it holds.
Wedged ==
  /\ host # Nobody
  /\ \/ at[Handler] = "find" /\ owner["table"] = host
     \/ at[Handler] = "lock" /\ owner[To[routing[Handler]]] = host

\* A message that is in a queue gets handled; only a signal handler that hangs
\* can prevent it.  No wakeup is lost and no circular wait arises otherwise,
\* although handlers route messages with their own channel's mutex held.
QueuedIsHandled ==
  \A m \in Message :
    (\E i \in DOMAIN queue[To[m]] : queue[To[m]][i] = m) ~>
      ((\E i \in DOMAIN done[To[m]] : done[To[m]][i] = m) \/ Wedged)

\* Channel.h on routeMessage: "Enqueue a message to the RoutedMessageQueue then
\* make it handled by RoutedLoop."
RouteMessageEnqueues ==
  \A t \in Actors : (at[t] = "lock") ~> (at[t] # "lock")

=============================================================================
