--------------------------- MODULE ChannelsProofs ---------------------------
(***************************************************************************)
(* Proofs about Channels for any number of threads, messages and signals.  *)
(*                                                                         *)
(* IInv is inductive as it stands: MutexOK ties the owner of each mutex to *)
(* the place of the thread that took it, PlacesOK says what a thread       *)
(* carries in each place.  The refinement needs both: only the loop that   *)
(* owns a channel's mutex has that channel's current message.              *)
(***************************************************************************)
EXTENDS Channels, SequenceTheorems, TLAPS

-----------------------------------------------------------------------------
(* Queues: sequences whose first element is the youngest message           *)

\* Inserting at begin() keeps a queue a queue and puts the message in front.
LEMMA InsertFacts ==
  ASSUME NEW S, NEW q \in Seq(S), NEW m \in S
  PROVE  /\ <<m>> \o q \in Seq(S)
         /\ Len(<<m>> \o q) = Len(q) + 1
         /\ \A i \in 1..(Len(q) + 1) :
              (<<m>> \o q)[i] = IF i = 1 THEN m ELSE q[i - 1]
  OBVIOUS

\* pop_back() takes the oldest message and leaves the others as they are.
LEMMA PopFacts ==
  ASSUME NEW S, NEW q \in Seq(S), q # <<>>
  PROVE  /\ Len(q) \in Nat \ {0}
         /\ Last(q) = q[Len(q)] /\ Last(q) \in S
         /\ Front(q) \in Seq(S)
         /\ Len(Front(q)) = Len(q) - 1
         /\ \A i \in 1..(Len(q) - 1) : Front(q)[i] = q[i]
<1>1. Len(q) \in Nat \ {0}
  OBVIOUS
<1>2. Last(q) = q[Len(q)] /\ Last(q) \in S
  BY <1>1 DEF Last
<1>3. /\ Front(q) \in Seq(S) /\ Len(Front(q)) = Len(q) - 1
      /\ \A i \in 1..(Len(q) - 1) : Front(q)[i] = q[i]
  <2> DEFINE n == Len(q) - 1
  <2>1. n \in Nat /\ \A i \in 1..n : q[i] \in S
    BY <1>1
  <2>2. /\ SubSeq(q, 1, n) \in Seq(S) /\ Len(SubSeq(q, 1, n)) = n
        /\ \A i \in 1..n : SubSeq(q, 1, n)[i] = q[i]
    <3> HIDE DEF n
    <3> QED BY <2>1, SubSeqProperties
  <2> QED
    BY <2>2 DEF Front
<1> QED
  BY <1>1, <1>2, <1>3

-----------------------------------------------------------------------------
(* The inductive invariant                                                 *)

LEMMA InitInv == Init => IInv
<1> SUFFICES ASSUME Init PROVE IInv
  OBVIOUS
<1> USE ChannelsAssumption DEF Init, Threads, Actors, Channel, Mutexes, Message
<1>1. TypeOK
  BY DEF TypeOK, Place
<1>2. PlacesOK
  BY DEF PlacesOK
<1>3. MutexOK
  BY DEF MutexOK, Holds
<1> QED
  BY <1>1, <1>2, <1>3 DEF IInv

\* Taking a free mutex, or giving one back, moves no other thread.
LEMMA FindLockInv ==
  ASSUME IInv, NEW t \in Actors, FindLock(t)
  PROVE  IInv'
<1> USE ChannelsAssumption DEF Threads, Actors, Mutexes, FindLock, Running, Free, IInv
<1>1. TypeOK'
  BY DEF TypeOK, Place
<1>2. PlacesOK'
  BY DEF TypeOK, PlacesOK
<1>3. MutexOK'
  BY DEF TypeOK, PlacesOK, MutexOK, Holds, Channel
<1> QED
  BY <1>1, <1>2, <1>3

LEMMA FindDoneInv ==
  ASSUME IInv, NEW t \in Actors, FindDone(t)
  PROVE  IInv'
<1> USE ChannelsAssumption DEF Threads, Actors, Mutexes, FindDone, Running, Free, IInv,
      Home, HostAfter
<1>1. TypeOK'
  <2>1. host' \in Threads \cup {Nobody} /\ routing' \in [Actors -> Message \cup {NoMessage}]
    BY DEF TypeOK
  <2>2. at' \in [Actors -> Place]
    BY DEF TypeOK, Place
  <2>3. owner' \in [Mutexes -> Actors \cup {Nobody}]
    BY DEF TypeOK
  <2> QED
    BY <2>1, <2>2, <2>3 DEF TypeOK
<1>2. PlacesOK'
  BY DEF TypeOK, PlacesOK
<1>3. MutexOK'
  BY DEF TypeOK, PlacesOK, MutexOK, Holds, Channel
<1> QED
  BY <1>1, <1>2, <1>3

LEMMA PushLockInv ==
  ASSUME IInv, NEW t \in Actors, PushLock(t)
  PROVE  IInv'
<1> USE ChannelsAssumption DEF Threads, Actors, Mutexes, PushLock, Running, Free, IInv
<1>1. TypeOK'
  BY DEF TypeOK, Place
<1>2. PlacesOK'
  BY DEF TypeOK, PlacesOK, MutexOK, Holds, Channel
<1>3. MutexOK'
  BY DEF TypeOK, PlacesOK, MutexOK, Holds, Channel
<1> QED
  BY <1>1, <1>2, <1>3

LEMMA PushInv ==
  ASSUME IInv, NEW t \in Actors, Push(t)
  PROVE  IInv'
<1> USE ChannelsAssumption DEF Threads, Actors, Mutexes, Running, IInv
<1> DEFINE c == To[routing[t]]
           q == queue[c]
<1>1. /\ routing[t] \in Message /\ c \in Channel /\ q \in Seq(Message)
      /\ at[t] = "push" /\ c # "table"
  BY DEF Push, TypeOK, PlacesOK, Message, Channel
<1>2. /\ <<routing[t]>> \o q \in Seq(Message)
      /\ Len(<<routing[t]>> \o q) = Len(q) + 1
      /\ \A i \in 1..(Len(q) + 1) :
           (<<routing[t]>> \o q)[i] = IF i = 1 THEN routing[t] ELSE q[i - 1]
  <2> HIDE DEF c, q
  <2> QED BY ONLY <1>1, InsertFacts
<1>3. \A u \in Actors : at'[u] # at[u] =>
        (u = t /\ at'[u] = Home(t))
          \/ (u # t /\ u \in Loops /\ at[u] = "wait" /\ at'[u] = "woken")
  BY <1>1 DEF Push, Waiting, TypeOK
<1>4. at'[t] = Home(t) /\ at' \in [Actors -> Place]
  <2>1. Home(t) \in Place /\ "woken" \in Place /\ at \in [Actors -> Place]
    BY DEF Home, Place, TypeOK
  <2>2. CASE at' = [at EXCEPT ![t] = Home(t)]
    BY <2>1, <2>2
  <2>3. ASSUME NEW w \in Waiting(c), at' = [at EXCEPT ![t] = Home(t), ![w] = "woken"]
        PROVE  at'[t] = Home(t) /\ at' \in [Actors -> Place]
    <3>1. w # t /\ w \in Actors
      BY <1>1 DEF Waiting
    <3> QED
      BY <2>1, <2>3, <3>1
  <2> QED
    BY <2>2, <2>3 DEF Push
<1>5. TypeOK'
  BY <1>1, <1>2, <1>4 DEF Push, TypeOK, HostAfter
<1>6. \A d \in Channel : \A i \in DOMAIN queue'[d] : To[queue'[d][i]] = d
  <2> SUFFICES ASSUME NEW d \in Channel, NEW i \in DOMAIN queue'[d]
               PROVE  To[queue'[d][i]] = d
    OBVIOUS
  <2>1. CASE d # c
    BY <2>1, <1>1 DEF Push, TypeOK, PlacesOK
  <2>2. CASE d = c
    <3>1. queue'[d] = <<routing[t]>> \o q
      BY <2>2, <1>1 DEF Push, TypeOK
    <3>2. i \in 1..(Len(q) + 1) /\ Len(q) \in Nat
      BY <3>1, <1>1, <1>2
    <3>3. CASE i = 1
      BY <3>1, <3>2, <3>3, <1>2, <2>2
    <3>4. CASE i # 1
      <4>1. queue'[d][i] = q[i - 1] /\ i - 1 \in DOMAIN q
        BY <3>1, <3>2, <3>4, <1>1, <1>2
      <4> QED
        BY <4>1, <2>2, <1>1 DEF PlacesOK
    <3> QED
      BY <3>3, <3>4
  <2> QED
    BY <2>1, <2>2
<1>7. PlacesOK'
  <2>1. UNCHANGED handling /\ routing' = [routing EXCEPT ![t] = NoMessage]
        /\ host' = HostAfter(t)
    BY DEF Push
  <2>2. \A u \in Actors :
          /\ at'[u] \in {"find", "look", "lock", "push"} <=> routing'[u] # NoMessage
          /\ u \in Loops =>
               /\ at'[u] \in {"handle", "find", "look", "lock", "push"}
                    <=> handling'[u] # NoMessage
               /\ handling'[u] # NoMessage => To[handling'[u]] = Serves[u]
               /\ at'[u] = "push" => To[routing'[u]] # Serves[u]
               /\ at'[u] # "idle"
          /\ u \notin Loops =>
               /\ handling'[u] = NoMessage
               /\ at'[u] \in {"idle", "find", "look", "lock", "push"}
    BY <2>1, <1>1, <1>3, <1>4 DEF PlacesOK, TypeOK, Home
  <2>3. (host' = Nobody) <=> (at'[Handler] = "idle")
    BY <2>1, <1>1, <1>3, <1>4 DEF PlacesOK, TypeOK, Home, HostAfter
  <2> QED
    BY <2>2, <2>3, <1>6 DEF PlacesOK
<1>8. MutexOK'
  <2>1. /\ UNCHANGED handling /\ routing' = [routing EXCEPT ![t] = NoMessage]
        /\ owner' = [owner EXCEPT ![c] = Nobody]
    BY DEF Push
  <2> SUFFICES ASSUME NEW x \in Mutexes, NEW u \in Actors
               PROVE  Holds(u, x)' <=> owner'[x] = u
    BY DEF MutexOK
  <2>2. owner[c] = t
    BY <1>1 DEF MutexOK, Holds
  <2>3. CASE x = c
    BY <2>1, <2>2, <2>3, <1>1, <1>3, <1>4 DEF MutexOK, PlacesOK, Holds, TypeOK, Home
  <2>4. CASE x # c
    BY <2>1, <2>2, <2>4, <1>1, <1>3, <1>4 DEF MutexOK, PlacesOK, Holds, TypeOK, Home
  <2> QED
    BY <2>3, <2>4
<1> QED
  BY <1>5, <1>7, <1>8

LEMMA ReceiveInv ==
  ASSUME IInv, NEW t, NEW m, Receive(t, m)
  PROVE  IInv'
<1> USE ChannelsAssumption DEF Threads, Actors, Mutexes, Receive, Call, Running, Free, IInv
<1>1. TypeOK'
  BY DEF TypeOK, Place, Message, Channel
<1>2. PlacesOK'
  BY DEF TypeOK, PlacesOK, Message
<1>3. MutexOK'
  BY DEF TypeOK, PlacesOK, MutexOK, Holds, Channel
<1> QED
  BY <1>1, <1>2, <1>3

LEMMA InterruptInv ==
  ASSUME IInv, NEW t, NEW m, Interrupt(t, m)
  PROVE  IInv'
<1> USE ChannelsAssumption DEF Threads, Actors, Mutexes, Interrupt, Call, Running, Free, IInv
<1>1. TypeOK'
  BY DEF TypeOK, Place, Message, Channel
<1>2. PlacesOK'
  BY DEF TypeOK, PlacesOK, Message
<1>3. MutexOK'
  BY DEF TypeOK, PlacesOK, MutexOK, Holds, Channel
<1> QED
  BY <1>1, <1>2, <1>3

LEMMA LoopLockInv ==
  ASSUME IInv, NEW t \in Actors, LoopLock(t)
  PROVE  IInv'
<1> USE ChannelsAssumption DEF Threads, Actors, Mutexes, LoopLock, Running, Free, IInv
<1>1. TypeOK'
  BY DEF TypeOK, Place, Message, Channel
<1>2. PlacesOK'
  BY DEF TypeOK, PlacesOK, Message
<1>3. MutexOK'
  BY DEF TypeOK, PlacesOK, MutexOK, Holds, Channel
<1> QED
  BY <1>1, <1>2, <1>3

LEMMA LoopWaitInv ==
  ASSUME IInv, NEW t \in Actors, LoopWait(t)
  PROVE  IInv'
<1> USE ChannelsAssumption DEF Threads, Actors, Mutexes, LoopWait, Running, Free, IInv
<1>1. TypeOK'
  BY DEF TypeOK, Place, Message, Channel
<1>2. PlacesOK'
  BY DEF TypeOK, PlacesOK, Message
<1>3. MutexOK'
  BY DEF TypeOK, PlacesOK, MutexOK, Holds, Channel
<1> QED
  BY <1>1, <1>2, <1>3

LEMMA LoopWakeInv ==
  ASSUME IInv, NEW t, LoopWake(t)
  PROVE  IInv'
<1> USE ChannelsAssumption DEF Threads, Actors, Mutexes, LoopWake, Running, Free, IInv
<1>1. TypeOK'
  BY DEF TypeOK, Place, Message, Channel
<1>2. PlacesOK'
  BY DEF TypeOK, PlacesOK, Message
<1>3. MutexOK'
  BY DEF TypeOK, PlacesOK, MutexOK, Holds, Channel
<1> QED
  BY <1>1, <1>2, <1>3

LEMMA HandleSendInv ==
  ASSUME IInv, NEW t \in Actors, HandleSend(t)
  PROVE  IInv'
<1> USE ChannelsAssumption DEF Threads, Actors, Mutexes, HandleSend, Call, Running, Free, IInv
<1>1. TypeOK'
  BY DEF TypeOK, Place, Message, Channel
<1>2. PlacesOK'
  BY DEF TypeOK, PlacesOK, Message
<1>3. MutexOK'
  BY DEF TypeOK, PlacesOK, MutexOK, Holds, Channel
<1> QED
  BY <1>1, <1>2, <1>3

LEMMA HandleReturnInv ==
  ASSUME IInv, NEW t \in Actors, HandleReturn(t)
  PROVE  IInv'
<1> USE ChannelsAssumption DEF Threads, Actors, Mutexes, HandleReturn, Running, Free, IInv
<1>1. TypeOK'
  <2>1. handling[t] \in Message /\ Serves[t] \in Channel
    BY DEF TypeOK, PlacesOK
  <2>2. done' \in [Channel -> Seq(Message)]
    <3> DEFINE d == done[Serves[t]]
    <3>1. d \in Seq(Message)
      BY <2>1 DEF TypeOK
    <3>2. Append(d, handling[t]) \in Seq(Message)
      <4> HIDE DEF d
      <4> QED BY <3>1, <2>1
    <3> QED
      BY <3>2, <2>1 DEF TypeOK
  <2> QED
    BY <2>2 DEF TypeOK, Place
<1>2. PlacesOK'
  BY DEF TypeOK, PlacesOK, Message
<1>3. MutexOK'
  BY DEF TypeOK, PlacesOK, MutexOK, Holds, Channel
<1> QED
  BY <1>1, <1>2, <1>3

LEMMA EnterMainLoopInv ==
  ASSUME IInv, NEW t \in Actors, EnterMainLoop(t)
  PROVE  IInv'
<1> USE ChannelsAssumption DEF Threads, Actors, Mutexes, EnterMainLoop, Running, Free, IInv
<1>1. TypeOK'
  BY DEF TypeOK, Place, Message, Channel
<1>2. PlacesOK'
  BY DEF TypeOK, PlacesOK, Message
<1>3. MutexOK'
  BY DEF TypeOK, PlacesOK, MutexOK, Holds, Channel
<1> QED
  BY <1>1, <1>2, <1>3

LEMMA LinkDownInv ==
  ASSUME IInv, LinkDown
  PROVE  IInv'
<1> USE ChannelsAssumption DEF Threads, Actors, Mutexes, LinkDown, Running, Free, IInv
<1>1. TypeOK'
  BY DEF TypeOK, Place, Message, Channel
<1>2. PlacesOK'
  BY DEF TypeOK, PlacesOK, Message
<1>3. MutexOK'
  BY DEF TypeOK, PlacesOK, MutexOK, Holds, Channel
<1> QED
  BY <1>1, <1>2, <1>3

LEMMA LinkUpInv ==
  ASSUME IInv, NEW t, LinkUp(t)
  PROVE  IInv'
<1> USE ChannelsAssumption DEF Threads, Actors, Mutexes, LinkUp, Running, Free, IInv
<1>1. TypeOK'
  BY DEF TypeOK, Place, Message, Channel
<1>2. PlacesOK'
  BY DEF TypeOK, PlacesOK, Message
<1>3. MutexOK'
  BY DEF TypeOK, PlacesOK, MutexOK, Holds, Channel
<1> QED
  BY <1>1, <1>2, <1>3

LEMMA LoopTakeInv ==
  ASSUME IInv, NEW t \in Actors, LoopTake(t)
  PROVE  IInv'
<1> USE ChannelsAssumption DEF Threads, Actors, Mutexes, Running, IInv
<1> DEFINE c == Serves[t]
           q == queue[c]
<1>1. /\ t \in Loops /\ c \in Channel /\ q \in Seq(Message) /\ q # <<>>
      /\ at[t] = "check" /\ handling[t] = NoMessage
  BY DEF LoopTake, TypeOK, PlacesOK
<1>2. /\ Len(q) \in Nat \ {0}
      /\ Last(q) = q[Len(q)] /\ Last(q) \in Message
      /\ Front(q) \in Seq(Message)
      /\ Len(Front(q)) = Len(q) - 1
      /\ \A i \in 1..(Len(q) - 1) : Front(q)[i] = q[i]
  <2> HIDE DEF c, q
  <2> QED BY ONLY <1>1, PopFacts
<1>3. To[Last(q)] = c /\ Replies[Last(q)] \subseteq Message
  BY <1>1, <1>2 DEF PlacesOK
<1>4. /\ queue' = [queue EXCEPT ![c] = Front(q)]
      /\ handling' = [handling EXCEPT ![t] = Last(q)]
      /\ rest' = [rest EXCEPT ![t] = Replies[Last(q)]]
      /\ at' = [at EXCEPT ![t] = "handle"]
      /\ UNCHANGED <<owner, routed, routing, done, posted, host>>
  BY DEF LoopTake
<1>5. TypeOK'
  <2> HIDE DEF q, c
  <2> QED BY <1>1, <1>2, <1>3, <1>4 DEF TypeOK, Place
<1>6. \A d \in Channel : \A i \in DOMAIN queue'[d] : To[queue'[d][i]] = d
  <2> SUFFICES ASSUME NEW d \in Channel, NEW i \in DOMAIN queue'[d]
               PROVE  To[queue'[d][i]] = d
    OBVIOUS
  <2>1. CASE d # c
    BY <2>1, <1>1, <1>4 DEF TypeOK, PlacesOK
  <2>2. CASE d = c
    <3>1. queue'[d] = Front(q)
      BY <2>2, <1>1, <1>4 DEF TypeOK
    <3>2. i \in 1..(Len(q) - 1) /\ i \in DOMAIN q
      <4> HIDE DEF q, c
      <4> QED BY <3>1, <1>1, <1>2
    <3>3. queue'[d][i] = q[i]
      BY <3>1, <3>2, <1>2
    <3> QED
      BY <3>2, <3>3, <2>2, <1>1 DEF PlacesOK
  <2> QED
    BY <2>1, <2>2
<1>7. PlacesOK'
  <2> HIDE DEF q, c
  <2>1. Last(q) # NoMessage /\ To[Last(q)] = Serves[t]
    BY <1>2, <1>3 DEF c
  <2> QED BY <2>1, <1>1, <1>4, <1>6 DEF PlacesOK, TypeOK
<1>8. MutexOK'
  <2> HIDE DEF q
  <2> QED BY <1>1, <1>2, <1>4 DEF MutexOK, Holds, TypeOK, PlacesOK, Channel
<1> QED
  BY <1>5, <1>7, <1>8

LEMMA StepInv == IInv /\ [Next]_vars => IInv'
<1> SUFFICES ASSUME IInv, [Next]_vars PROVE IInv'
  OBVIOUS
<1>1. ASSUME NEW t \in Actors, Step(t) PROVE IInv'
  BY <1>1, FindLockInv, FindDoneInv, PushLockInv, PushInv, LoopLockInv, LoopWaitInv,
     LoopTakeInv, HandleSendInv, HandleReturnInv, EnterMainLoopInv DEF Step
<1>2. CASE UNCHANGED vars
  BY <1>2 DEF IInv, TypeOK, PlacesOK, MutexOK, Holds, vars
<1> QED
  BY <1>1, <1>2, LoopWakeInv, ReceiveInv, InterruptInv, LinkDownInv, LinkUpInv DEF Next

\* In every reachable state the mutexes are where the places of the threads say:
\* at most one thread touches a queue or is in onRoutedMessage of a channel,
\* for any number of loops, listeners, messages and signals.
THEOREM Inductive == Spec => []IInv
  BY InitInv, StepInv, PTL DEF Spec

\* Every variable keeps its type.
THEOREM TypeCorrect == Spec => []TypeOK
<1>1. IInv => TypeOK
  BY DEF IInv
<1> QED
  BY <1>1, Inductive, PTL

-----------------------------------------------------------------------------
(* The channels implement mailboxes                                        *)

\* What Reverse returns, element by element.
LEMMA ReverseFacts ==
  ASSUME NEW S, NEW q \in Seq(S)
  PROVE  /\ Reverse(q) \in Seq(S) /\ Len(Reverse(q)) = Len(q)
         /\ \A i \in 1..Len(q) : Reverse(q)[i] = q[Len(q) - i + 1]
  BY DEF Reverse

\* begin() is the youngest message: the mailbox is the queue reversed.
LEMMA ReverseInsert ==
  ASSUME NEW S, NEW q \in Seq(S), NEW m \in S
  PROVE  Reverse(<<m>> \o q) = Append(Reverse(q), m)
<1> DEFINE n == Len(q)
           r == <<m>> \o q
           a == Append(Reverse(q), m)
<1>1. n \in Nat
  OBVIOUS
<1>2. r \in Seq(S) /\ Len(r) = n + 1
      /\ \A i \in 1..(n + 1) : r[i] = IF i = 1 THEN m ELSE q[i - 1]
  BY InsertFacts
<1>3. Reverse(q) \in Seq(S) /\ Len(Reverse(q)) = n
      /\ \A i \in 1..n : Reverse(q)[i] = q[n - i + 1]
  BY ReverseFacts
<1>4. Reverse(r) \in Seq(S) /\ Len(Reverse(r)) = n + 1
      /\ \A i \in 1..(n + 1) : Reverse(r)[i] = r[n + 1 - i + 1]
  <2>1. /\ Reverse(r) \in Seq(S) /\ Len(Reverse(r)) = Len(r)
        /\ \A i \in 1..Len(r) : Reverse(r)[i] = r[Len(r) - i + 1]
    <3> HIDE DEF r
    <3> QED BY <1>2, ReverseFacts
  <2> HIDE DEF r, n
  <2> QED BY <1>1, <1>2, <2>1
<1>5. a \in Seq(S) /\ Len(a) = n + 1
      /\ \A i \in 1..(n + 1) : a[i] = IF i = n + 1 THEN m ELSE Reverse(q)[i]
  <2> HIDE DEF n
  <2> QED BY <1>3, AppendProperties
<1>6. ASSUME NEW i \in 1..(n + 1) PROVE Reverse(r)[i] = a[i]
  <2> DEFINE j == n + 1 - i + 1
  <2>1. j \in 1..(n + 1) /\ (j = 1 <=> i = n + 1) /\ j - 1 = n - i + 1
    BY <1>1
  <2>2. Reverse(r)[i] = IF j = 1 THEN m ELSE q[j - 1]
    <3> HIDE DEF r
    <3> QED BY <1>2, <1>4, <2>1
  <2>3. i # n + 1 => i \in 1..n
    BY <1>1
  <2> HIDE DEF r, a, n, j
  <2> QED BY <1>3, <1>5, <2>1, <2>2, <2>3
<1> HIDE DEF r, a, n
<1>7. Reverse(r) = a
  BY <1>4, <1>5, <1>6, SeqEqual
<1> QED
  BY <1>7 DEF r, a

LEMMA ReversePop ==
  ASSUME NEW S, NEW q \in Seq(S), q # <<>>
  PROVE  /\ Reverse(q) # <<>>
         /\ Head(Reverse(q)) = Last(q)
         /\ Tail(Reverse(q)) = Reverse(Front(q))
<1> DEFINE n == Len(q)
           v == Reverse(q)
           f == Front(q)
<1>1. /\ n \in Nat \ {0} /\ Last(q) = q[n]
      /\ f \in Seq(S) /\ Len(f) = n - 1
      /\ \A i \in 1..(n - 1) : f[i] = q[i]
  BY PopFacts
<1>2. v \in Seq(S) /\ Len(v) = n /\ \A i \in 1..n : v[i] = q[n - i + 1]
  BY ReverseFacts
<1>3. v # <<>>
  <2> HIDE DEF v
  <2> QED BY <1>1, <1>2
<1>4. Head(v) = v[1]
  <2> HIDE DEF v
  <2> QED BY <1>2, <1>3
<1>5. v[1] = q[n]
  <2> HIDE DEF v, n
  <2> QED BY <1>1, <1>2
<1>6. /\ Tail(v) \in Seq(S) /\ Len(Tail(v)) = n - 1
      /\ \A i \in 1..(n - 1) : Tail(v)[i] = v[i + 1]
  <2> HIDE DEF v
  <2> QED BY <1>2, <1>3, HeadTailProperties
<1>7. /\ Reverse(f) \in Seq(S) /\ Len(Reverse(f)) = n - 1
      /\ \A i \in 1..(n - 1) : Reverse(f)[i] = f[n - 1 - i + 1]
  <2> HIDE DEF f, n
  <2> QED BY <1>1, ReverseFacts
<1>8. ASSUME NEW i \in 1..(n - 1) PROVE Tail(v)[i] = Reverse(f)[i]
  <2>1. i + 1 \in 1..n /\ n - 1 - i + 1 \in 1..(n - 1) /\ n - (i + 1) + 1 = n - 1 - i + 1
    BY <1>1
  <2>2. n - 1 - i + 1 = n - i /\ n - i \in 1..(n - 1) /\ n - (i + 1) + 1 = n - i
    BY <1>1
  <2>3. Tail(v)[i] = v[i + 1]
    BY <1>6
  <2>4. v[i + 1] = q[n - i]
    <3>1. v[i + 1] = q[n - (i + 1) + 1]
      <4> HIDE DEF v, n
      <4> QED BY <1>2, <2>1
    <3> QED
      BY <3>1, <2>2
  <2>5. Reverse(f)[i] = f[n - i]
    <3>1. Reverse(f)[i] = f[n - 1 - i + 1]
      BY <1>7
    <3> QED
      BY <3>1, <2>2
  <2>6. f[n - i] = q[n - i]
    <3> HIDE DEF f, n
    <3> QED BY <1>1, <2>2
  <2> QED
    BY <2>3, <2>4, <2>5, <2>6
<1>9. Tail(v) = Reverse(f)
  <2> HIDE DEF v, f, n
  <2> QED BY <1>6, <1>7, <1>8, SeqEqual
<1> QED
  BY <1>1, <1>3, <1>4, <1>5, <1>9

\* Steps that leave queues, handlings and mutex owners of loops alone.
LEMMA SameBoxes ==
  ASSUME UNCHANGED <<queue, handling, done>>,
         \A c \in Channel : Current(c)' = Current(c)
  PROVE  UNCHANGED Boxes!vars
  BY DEF Boxes!vars

LEMMA RefinesInit == Init => Boxes!Init
<1> SUFFICES ASSUME Init PROVE Boxes!Init
  OBVIOUS
<1>1. Reverse(<<>>) = <<>>
  BY DEF Reverse
<1>2. \A c \in Channel : Reverse(queue[c]) = <<>> /\ Current(c) = NoMessage
  BY <1>1, ChannelsAssumption DEF Init, Current, Mutexes, Actors, Threads
<1> QED
  BY <1>2 DEF Boxes!Init, Init

LEMMA RefinesQuiet ==
  ASSUME IInv, NEW t \in Actors,
         FindLock(t) \/ FindDone(t) \/ PushLock(t) \/ LoopLock(t) \/ LoopWait(t)
           \/ HandleSend(t) \/ EnterMainLoop(t)
  PROVE  UNCHANGED Boxes!vars
<1>1. UNCHANGED <<queue, handling, done>>
  BY DEF FindLock, FindDone, PushLock, LoopLock, LoopWait, HandleSend, EnterMainLoop
<1>2. ASSUME NEW c \in Channel PROVE Current(c)' = Current(c)
  BY <1>1, ChannelsAssumption DEF FindLock, FindDone, PushLock, LoopLock, LoopWait, HandleSend,
    EnterMainLoop, Current, IInv, TypeOK, PlacesOK, MutexOK, Holds, Free, Mutexes, Channel,
    Actors, Threads
<1> QED
  BY <1>1, <1>2, SameBoxes

LEMMA RefinesPush ==
  ASSUME IInv, NEW t \in Actors, Push(t)
  PROVE  \E c \in Channel, m \in Message : Boxes!Accept(c, m)
<1> DEFINE c == To[routing[t]]
           m == routing[t]
<1>1. m \in Message /\ c \in Channel /\ c \in Mutexes /\ queue[c] \in Seq(Message)
  BY ChannelsAssumption DEF Push, IInv, TypeOK, PlacesOK, Mutexes, Message
<1>2. /\ queue' = [queue EXCEPT ![c] = <<m>> \o queue[c]]
      /\ owner' = [owner EXCEPT ![c] = Nobody]
      /\ UNCHANGED <<handling, done>>
  BY DEF Push
<1>3. owner[c] = t /\ (t \in Loops => Serves[t] # c)
  BY <1>1 DEF Push, IInv, MutexOK, PlacesOK, Holds
<1>4. ASSUME NEW d \in Channel PROVE Current(d)' = Current(d)
  BY <1>2, <1>3, <1>1, ChannelsAssumption
     DEF Current, IInv, TypeOK, Mutexes, Actors, Threads
<1>5. [d \in Channel |-> Reverse(queue[d])]'
        = [[d \in Channel |-> Reverse(queue[d])] EXCEPT ![c] = Append(@, m)]
  <2>1. Reverse(queue'[c]) = Append(Reverse(queue[c]), m)
    <3>1. queue'[c] = <<m>> \o queue[c]
      BY <1>1, <1>2 DEF IInv, TypeOK
    <3> HIDE DEF c, m
    <3> QED BY <1>1, <3>1, ReverseInsert
  <2>2. \A d \in Channel : d # c => queue'[d] = queue[d]
    BY <1>1, <1>2 DEF IInv, TypeOK
  <2> HIDE DEF c, m
  <2> QED BY <1>1, <2>1, <2>2
<1>6. Boxes!Accept(c, m)
  BY <1>2, <1>4, <1>5 DEF Boxes!Accept
<1> QED
  BY <1>1, <1>6

LEMMA RefinesTake ==
  ASSUME IInv, NEW t \in Actors, LoopTake(t)
  PROVE  \E c \in Channel : Boxes!Begin(c)
<1> DEFINE c == Serves[t]
           m == Last(queue[c])
<1>1. /\ t \in Loops /\ c \in Channel /\ c \in Mutexes
      /\ queue[c] \in Seq(Message) /\ queue[c] # <<>> /\ handling[t] = NoMessage
  BY ChannelsAssumption DEF LoopTake, IInv, TypeOK, PlacesOK, Mutexes
<1>2. /\ queue' = [queue EXCEPT ![c] = Front(queue[c])]
      /\ handling' = [handling EXCEPT ![t] = m]
      /\ UNCHANGED <<owner, done>>
  BY DEF LoopTake
<1>3. owner[c] = t
  BY <1>1 DEF LoopTake, IInv, MutexOK, Holds
<1>4. Current(c) = NoMessage /\ Current(c)' = m
  BY <1>1, <1>2, <1>3 DEF Current, IInv, TypeOK
<1>5. ASSUME NEW d \in Channel, d # c PROVE Current(d)' = Current(d)
  BY <1>1, <1>2, <1>3, <1>5 DEF Current, IInv, TypeOK
<1>6. /\ Reverse(queue[c]) # <<>> /\ Head(Reverse(queue[c])) = m
      /\ Tail(Reverse(queue[c])) = Reverse(queue'[c])
  <2>1. queue'[c] = Front(queue[c])
    BY <1>1, <1>2 DEF IInv, TypeOK
  <2> HIDE DEF c
  <2> QED BY <1>1, <2>1, ReversePop
<1>7. \A d \in Channel : d # c => queue'[d] = queue[d]
  BY <1>1, <1>2 DEF IInv, TypeOK
<1>8. [d \in Channel |-> Current(d)]'
        = [[d \in Channel |-> Current(d)] EXCEPT ![c] = Head(Reverse(queue[c]))]
  <2> HIDE DEF c, m
  <2> QED BY <1>1, <1>4, <1>5, <1>6
<1>9. [d \in Channel |-> Reverse(queue[d])]'
        = [[d \in Channel |-> Reverse(queue[d])] EXCEPT ![c] = Tail(@)]
  <2> HIDE DEF c, m
  <2> QED BY <1>1, <1>6, <1>7
<1> HIDE DEF m, c
<1>10. Boxes!Begin(c)
  BY <1>1, <1>2, <1>4, <1>6, <1>8, <1>9 DEF Boxes!Begin
<1> QED
  BY <1>1, <1>10

LEMMA RefinesReturn ==
  ASSUME IInv, NEW t \in Actors, HandleReturn(t)
  PROVE  \E c \in Channel : Boxes!Finish(c)
<1> DEFINE c == Serves[t]
<1>1. t \in Loops /\ c \in Channel /\ c \in Mutexes /\ handling[t] \in Message
  BY ChannelsAssumption DEF HandleReturn, IInv, TypeOK, PlacesOK, Mutexes
<1>2. /\ done' = [done EXCEPT ![c] = Append(@, handling[t])]
      /\ handling' = [handling EXCEPT ![t] = NoMessage]
      /\ owner' = [owner EXCEPT ![c] = Nobody]
      /\ UNCHANGED queue
  BY DEF HandleReturn
<1>3. owner[c] = t
  BY <1>1, ChannelsAssumption DEF HandleReturn, IInv, MutexOK, Holds
<1>4. Current(c) = handling[t] /\ Current(c)' = NoMessage /\ handling[t] # NoMessage
  BY <1>1, <1>2, <1>3, ChannelsAssumption
     DEF Current, IInv, TypeOK, Mutexes, Actors, Threads
<1>5. ASSUME NEW d \in Channel, d # c PROVE Current(d)' = Current(d)
  BY <1>1, <1>2, <1>3, <1>5 DEF Current, IInv, TypeOK, Mutexes
<1>6. [d \in Channel |-> Current(d)]'
        = [[d \in Channel |-> Current(d)] EXCEPT ![c] = NoMessage]
  <2> HIDE DEF c
  <2> QED BY <1>1, <1>4, <1>5
<1> HIDE DEF c
<1>7. Boxes!Finish(c)
  BY <1>1, <1>2, <1>4, <1>6 DEF Boxes!Finish
<1> QED
  BY <1>1, <1>7

LEMMA RefinesOther ==
  ASSUME IInv,
         \/ \E t \in Loops : LoopWake(t)
         \/ \E t \in Listeners, m \in Incoming : Receive(t, m)
         \/ \E t \in Interruptible, m \in Notices : Interrupt(t, m)
         \/ LinkDown
         \/ \E t \in Extra : LinkUp(t)
         \/ UNCHANGED vars
  PROVE  UNCHANGED Boxes!vars
<1>1. UNCHANGED <<queue, owner, handling, done>>
  BY DEF LoopWake, Receive, Interrupt, LinkDown, LinkUp, vars
<1>2. ASSUME NEW c \in Channel PROVE Current(c)' = Current(c)
  BY <1>1 DEF Current
<1> QED
  BY <1>1, <1>2, SameBoxes

\* The channels implement Mailboxes: the messages of a channel are handled in the
\* order in which they were pushed, each once, one at a time, although several
\* threads may run the loop of one channel.
THEOREM ChannelsImplementMailboxes == Spec => MailboxSpec
<1>1. Init => Boxes!Init
  BY RefinesInit
<1>2. IInv /\ [Next]_vars => [Boxes!Next]_(Boxes!vars)
  <2> SUFFICES ASSUME IInv, [Next]_vars PROVE [Boxes!Next]_(Boxes!vars)
    OBVIOUS
  <2>1. ASSUME NEW t \in Actors, Step(t) PROVE [Boxes!Next]_(Boxes!vars)
    BY <2>1, RefinesQuiet, RefinesPush, RefinesTake, RefinesReturn DEF Step, Boxes!Next
  <2> QED
    BY <2>1, RefinesOther DEF Next
<1> QED
  BY <1>1, <1>2, Inductive, PTL DEF Spec, MailboxSpec, Boxes!Spec
=============================================================================
