-------------------------- MODULE OpelClientProofs --------------------------
(***************************************************************************)
(* Proofs about OpelClient for any number of requests, messages, places to *)
(* wait in and threads of the pool: no work is queued twice, no packet is  *)
(* left in write_queue, at most one cell waits for a request.              *)
(***************************************************************************)
EXTENDS OpelClient, SequenceTheorems, FiniteSetTheorems, TLAPS

-----------------------------------------------------------------------------
(* Queues                                                                  *)

(* A queue after enqueue, as a sequence, and as a set.                     *)
LEMMA PutIn ==
  ASSUME NEW S, NEW q \in Seq(S), NEW e \in S
  PROVE  /\ Append(q, e) \in Seq(S)
         /\ Append(q, e) # <<>>
         /\ ToSet(Append(q, e)) = ToSet(q) \cup {e}
         /\ IsInjective(q) /\ e \notin ToSet(q) => IsInjective(Append(q, e))
<1>1. /\ Append(q, e) \in Seq(S) /\ Len(Append(q, e)) = Len(q) + 1
      /\ \A i \in 1 .. Len(q) : Append(q, e)[i] = q[i]
      /\ Append(q, e)[Len(q) + 1] = e
  BY AppendProperties
<1>2. DOMAIN q = 1 .. Len(q) /\ DOMAIN Append(q, e) = 1 .. Len(q) + 1 /\ Len(q) \in Nat
  BY <1>1
<1>3. Append(q, e) # <<>>
  <2>1. Len(Append(q, e)) # 0
    BY <1>1, <1>2
  <2>2. Len(<<>>) = 0
    OBVIOUS
  <2> QED
    BY <2>1, <2>2, Zenon
<1>4. ToSet(Append(q, e)) = ToSet(q) \cup {e}
  <2>1. ASSUME NEW i \in 1 .. Len(q) + 1 PROVE Append(q, e)[i] \in ToSet(q) \cup {e}
    <3>1. i \in 1 .. Len(q) \/ i = Len(q) + 1
      BY <1>2
    <3> QED
      BY <3>1, <1>1, <1>2 DEF ToSet
  <2>2. ASSUME NEW i \in 1 .. Len(q)
        PROVE  i \in 1 .. Len(q) + 1 /\ q[i] = Append(q, e)[i]
    BY <1>1, <1>2
  <2>3. Len(q) + 1 \in 1 .. Len(q) + 1
    BY <1>2
  <2> QED
    BY <2>1, <2>2, <2>3, <1>1, <1>2 DEF ToSet
<1>5. ASSUME IsInjective(q), e \notin ToSet(q) PROVE IsInjective(Append(q, e))
  <2>1. \A i \in 1 .. Len(q) : q[i] # e
    BY <1>2, <1>5 DEF ToSet
  <2>2. ASSUME NEW i \in 1 .. Len(q) + 1, NEW j \in 1 .. Len(q) + 1,
               Append(q, e)[i] = Append(q, e)[j]
        PROVE  i = j
    <3>1. i \in 1 .. Len(q) \/ i = Len(q) + 1
      BY <1>2
    <3>2. j \in 1 .. Len(q) \/ j = Len(q) + 1
      BY <1>2
    <3> QED
      BY <3>1, <3>2, <2>1, <2>2, <1>1, <1>2, <1>5 DEF IsInjective
  <2> QED
    BY <2>2, <1>2 DEF IsInjective
<1> QED
  BY <1>1, <1>3, <1>4, <1>5

(* A queue after dequeue.                                                  *)
LEMMA TakeOut ==
  ASSUME NEW S, NEW q \in Seq(S), q # <<>>
  PROVE  /\ Head(q) \in S /\ Tail(q) \in Seq(S)
         /\ ToSet(q) = {Head(q)} \cup ToSet(Tail(q))
         /\ IsInjective(q) => IsInjective(Tail(q)) /\ Head(q) \notin ToSet(Tail(q))
<1>1. /\ Head(q) \in S /\ Tail(q) \in Seq(S) /\ Len(Tail(q)) = Len(q) - 1
      /\ \A i \in 1 .. Len(q) - 1 : Tail(q)[i] = q[i + 1]
      /\ Head(q) = q[1] /\ Len(q) \in Nat \ {0}
  BY HeadTailProperties, EmptySeq
<1>2. DOMAIN q = 1 .. Len(q) /\ DOMAIN Tail(q) = 1 .. Len(q) - 1
  BY <1>1
<1>3. ASSUME NEW i \in 1 .. Len(q)
      PROVE  i = 1 \/ (i - 1 \in 1 .. Len(q) - 1 /\ q[i] = Tail(q)[i - 1])
  <2>1. i # 1 => i - 1 \in 1 .. Len(q) - 1 /\ (i - 1) + 1 = i
    BY <1>1
  <2> QED
    BY <2>1, <1>1
<1>4. ASSUME NEW i \in 1 .. Len(q) - 1
      PROVE  i + 1 \in 1 .. Len(q) /\ i + 1 # 1 /\ Tail(q)[i] = q[i + 1]
  BY <1>1
<1>5. 1 \in 1 .. Len(q)
  BY <1>1
<1>6. ToSet(q) = {Head(q)} \cup ToSet(Tail(q))
  <2>1. ASSUME NEW i \in 1 .. Len(q) PROVE q[i] \in {Head(q)} \cup ToSet(Tail(q))
    BY <1>1, <1>2, <1>3 DEF ToSet
  <2>2. Head(q) \in ToSet(q)
    BY <1>1, <1>2, <1>5 DEF ToSet
  <2>3. ASSUME NEW i \in 1 .. Len(q) - 1 PROVE Tail(q)[i] \in ToSet(q)
    BY <1>2, <1>4 DEF ToSet
  <2>4. ToSet(q) \subseteq {Head(q)} \cup ToSet(Tail(q))
    <3> DEFINE T == {Head(q)} \cup ToSet(Tail(q))
    <3> HIDE DEF T
    <3>1. \A i \in 1 .. Len(q) : q[i] \in T
      BY <2>1 DEF T
    <3>2. ToSet(q) \subseteq T
      BY <3>1, <1>2 DEF ToSet
    <3> QED
      BY <3>2 DEF T
  <2>5. ToSet(Tail(q)) \subseteq ToSet(q)
    <3> DEFINE T == ToSet(q)
    <3> HIDE DEF T
    <3>1. \A i \in 1 .. Len(q) - 1 : Tail(q)[i] \in T
      BY <2>3 DEF T
    <3>2. ToSet(Tail(q)) \subseteq T
      BY <3>1, <1>2 DEF ToSet
    <3> QED
      BY <3>2 DEF T
  <2> QED
    BY <2>2, <2>4, <2>5
<1>7. ASSUME IsInjective(q) PROVE IsInjective(Tail(q)) /\ Head(q) \notin ToSet(Tail(q))
  <2>1. \A i \in 1 .. Len(q) - 1 : Tail(q)[i] # q[1]
    BY <1>2, <1>4, <1>5, <1>7 DEF IsInjective
  <2>2. ASSUME NEW i \in 1 .. Len(q) - 1, NEW j \in 1 .. Len(q) - 1, Tail(q)[i] = Tail(q)[j]
        PROVE  i = j
    <3>1. i + 1 = j + 1
      BY <2>2, <1>2, <1>4, <1>7 DEF IsInjective
    <3> QED
      BY <3>1, <1>1
  <2> QED
    BY <2>1, <2>2, <1>1, <1>2 DEF IsInjective, ToSet
<1> QED
  BY <1>1, <1>6, <1>7

\* What after_connect_handler does: two works, one after the other.
LEMMA PutInTwo ==
  ASSUME NEW S, NEW q \in Seq(S), NEW d \in S, NEW e \in S
  PROVE  q \o <<d, e>> = Append(Append(q, d), e)
  OBVIOUS

-----------------------------------------------------------------------------
(* Cells                                                                   *)

(* What a cell is made of.                                                 *)
LEMMA CellKinds ==
  ASSUME NEW c \in Cells
  PROVE  \/ c[1] = "entry" /\ c[2] \in 1 .. N /\ c[3] = 0
         \/ c[1] = "packet" /\ c[2] \in 1 .. N /\ c[3] \in 1 .. Size[c[2]]
         \/ c[1] = "answer" /\ c[2] \in 1 .. N /\ c[3] \in 1 .. MaxAnswers[c[2]]
         \/ c[1] = "message" /\ c[2] \in 1 .. MaxMessages
         \/ c[1] = "reply" /\ c[2] \in 1 .. MaxMessages
         \/ c[1] = "notice" /\ c[2] \in 1 .. MaxFailures
<1>1. c \in EntryCells => c[1] = "entry" /\ c[2] \in 1 .. N /\ c[3] = 0
  BY DEF EntryCells, Entry
<1>2. c \in PacketCells => c[1] = "packet" /\ c[2] \in 1 .. N /\ c[3] \in 1 .. Size[c[2]]
  <2> SUFFICES ASSUME NEW i \in 1 .. N, c \in {Packet(i, p) : p \in 1 .. Size[i]}
               PROVE  c[1] = "packet" /\ c[2] \in 1 .. N /\ c[3] \in 1 .. Size[c[2]]
    BY DEF PacketCells
  <2>1. PICK p \in 1 .. Size[i] : c = Packet(i, p)
    OBVIOUS
  <2> QED
    BY <2>1 DEF Packet
<1>3. c \in AnswerCells => c[1] = "answer" /\ c[2] \in 1 .. N /\ c[3] \in 1 .. MaxAnswers[c[2]]
  <2> SUFFICES ASSUME NEW i \in 1 .. N, c \in {Answer(i, k) : k \in 1 .. MaxAnswers[i]}
               PROVE  c[1] = "answer" /\ c[2] \in 1 .. N /\ c[3] \in 1 .. MaxAnswers[c[2]]
    BY DEF AnswerCells
  <2>1. PICK k \in 1 .. MaxAnswers[i] : c = Answer(i, k)
    OBVIOUS
  <2> QED
    BY <2>1 DEF Answer
<1>4. c \in MessageCells => c[1] = "message" /\ c[2] \in 1 .. MaxMessages
  BY DEF MessageCells, Message
<1>5. c \in ReplyCells => c[1] = "reply" /\ c[2] \in 1 .. MaxMessages
  BY DEF ReplyCells, Reply
<1>6. c \in NoticeCells => c[1] = "notice" /\ c[2] \in 1 .. MaxFailures
  BY DEF NoticeCells, Notice
<1> QED
  BY <1>1, <1>2, <1>3, <1>4, <1>5, <1>6 DEF Cells

LEMMA CellsMade ==
  /\ \A i \in 1 .. N : Entry(i) \in Cells /\ Packet(i, 1) \in Cells
  /\ \A i \in 1 .. N : \A p \in 1 .. Size[i] : Packet(i, p) \in Cells
  /\ \A i \in 1 .. N : \A k \in 1 .. MaxAnswers[i] : Answer(i, k) \in Cells
  /\ \A j \in 1 .. MaxMessages : Message(j) \in Cells /\ Reply(j) \in Cells
  /\ \A n \in 1 .. MaxFailures : Notice(n) \in Cells
<1>1. \A i \in 1 .. N : 1 \in 1 .. Size[i]
  <2> SUFFICES ASSUME NEW i \in 1 .. N PROVE 1 \in 1 .. Size[i]
    OBVIOUS
  <2>1. Size[i] \in Nat \ {0}
    BY OpelAssumption
  <2> QED
    BY <2>1
<1>2. ASSUME NEW i \in 1 .. N PROVE Entry(i) \in EntryCells
  BY DEF EntryCells
<1>3. ASSUME NEW i \in 1 .. N, NEW p \in 1 .. Size[i] PROVE Packet(i, p) \in PacketCells
  BY DEF PacketCells
<1>4. ASSUME NEW i \in 1 .. N, NEW k \in 1 .. MaxAnswers[i] PROVE Answer(i, k) \in AnswerCells
  BY DEF AnswerCells
<1>5. ASSUME NEW j \in 1 .. MaxMessages PROVE Message(j) \in MessageCells /\ Reply(j) \in ReplyCells
  BY DEF MessageCells, ReplyCells
<1>6. ASSUME NEW n \in 1 .. MaxFailures PROVE Notice(n) \in NoticeCells
  BY DEF NoticeCells
<1> QED
  BY <1>1, <1>2, <1>3, <1>4, <1>5, <1>6 DEF Cells
-----------------------------------------------------------------------------
(* The inductive invariant                                                 *)

(* What the proofs need of the types.                                      *)
Places == {"off", "trying", "done", "select", "insert", "release", "test", "begin", "take",
           "writing", "wait"}
WritePlaces == {"off", "begin", "take", "writing", "done"}
WorksShape ==
  /\ pool \in Seq(Works)
  /\ at \in [Works -> Places] /\ at["write"] \in WritePlaces
  /\ writeAlive \in BOOLEAN
MainShape ==
  /\ main = [at |-> main.at, cell |-> main.cell, new |-> main.new, empty |-> main.empty,
             back |-> main.back]
  /\ main.at \in MainAt /\ main.back \in MainAt
  /\ main.new \in Cells \cup {Free} /\ main.empty \in BOOLEAN
  /\ main.at = "put" => main.new \in Cells
QueueShape ==
  /\ held \in [{"read", "write"} -> Cells \cup {Free}]
  /\ writeQ \in Seq(Cells) /\ readQ \in Seq(Cells)
  /\ at["write"] = "writing" => held["write"] \in Cells
  /\ at["read"] = "insert" => held["read"] \in Cells
SlotShape == slots \in [Slots -> Cells \cup {Free}]
CountShape ==
  /\ asked \in 0 .. N /\ sent \in [1 .. N -> Nat]
  /\ read \in 0 .. MaxMessages /\ failures \in 0 .. MaxFailures
  /\ answers \in [1 .. N -> Seq({"part", "last"})]
Shape == WorksShape /\ MainShape /\ QueueShape /\ SlotShape /\ CountShape

(* The work w is with nobody but the event loop.                           *)
Rest(w) == w \notin ToSet(pool) /\ at[w] = "off"

(* The event loop is in after_read_handler, or in after_ra_handler.        *)
Calls(place) == main.at \in {"put", "check"} /\ main.back = place
Reading == main.at = "reads" \/ Calls("reads")
Acking  == main.at \in {"acks", "take", "drop", "test"} \/ Calls("drop")

(* Who may queue a work: the event loop, and only a work that is at rest.  *)
WorksOK ==
  /\ IsInjective(pool)
  /\ \A w \in ToSet(pool) : at[w] = "off"
  /\ writeAlive <=> at["write"] \in {"take", "writing", "done"}
  /\ "write" \in ToSet(pool) \/ at["write"] \in {"begin", "take"} => writeQ # <<>>
  /\ NothingStranded
  /\ main.at \in {"put", "check"} =>
       /\ main.back \in {"loop", "drop", "reads"}
       /\ main.empty /\ ~ writeAlive => Rest("write")
       /\ main.empty /\ ~ writeAlive /\ main.at = "check" => writeQ # <<>>
       /\ ~ main.empty => ~ Rest("write")
  /\ Reading => Rest("read") /\ conn \in {"up", "lost"}
  /\ Acking => Rest("ra") /\ conn \in {"up", "lost"}
  /\ conn \notin {"up", "lost"} => Rest("read") /\ Rest("ra")
  /\ "connect" \in ToSet(pool) \/ at["connect"] = "trying" => conn = "none"

(* The cells that carry the number of an own request carry one of the      *)
(* first n, those that were given out.                                     *)
Known(c, n) == c[1] \in {"entry", "packet", "answer"} => ReqId(c) <= n
KnownOK ==
  /\ \A c \in ToSet(writeQ) : Known(c, asked)
  /\ main.at = "put" => Known(main.new, asked)
  /\ at["write"] = "writing" => Known(held["write"], asked)
  /\ \A i \in 1 .. N : sent[i] > 0 => i <= asked

(* The req_set f holds one cell at most for each of the first n requests,  *)
(* and the part of a file that the read work is about to insert into it    *)
(* finds none.                                                             *)
Waiting(f, n) ==
  /\ \A s \in Slots : f[s] # Free => f[s][1] \in {"entry", "answer"} /\ ReqId(f[s]) <= n
  /\ \A s, t \in Slots : f[s] # Free /\ f[t] # Free /\ ReqId(f[s]) = ReqId(f[t]) => s = t
Apart(f, c) == \A s \in Slots : f[s] # Free => ReqId(f[s]) # ReqId(c)
WaitingOK ==
  /\ Waiting(slots, asked)
  /\ at["read"] = "insert" =>
       /\ held["read"][1] = "answer" /\ ReqId(held["read"]) <= asked
       /\ Apart(slots, held["read"])

IInv == Shape /\ WorksOK /\ KnownOK /\ WaitingOK

-----------------------------------------------------------------------------
(* The proof that every step keeps it                                      *)

LEMMA InitInv == Init => IInv
<1> SUFFICES ASSUME Init PROVE IInv
  OBVIOUS
<1>1. ToSet(<<"connect">>) = {"connect"} /\ IsInjective(<<"connect">>) /\ ToSet(<<>>) = {}
  BY DEF ToSet, IsInjective
<1>2. Shape
  <2>1. WorksShape
    <3>1. <<"connect">> \in Seq(Works)
      BY DEF Works
    <3> QED
      BY <3>1 DEF Init, WorksShape, Works, Places, WritePlaces
  <2>2. MainShape
    BY DEF Init, MainShape, MainAt
  <2>3. QueueShape /\ SlotShape
    BY DEF Init, QueueShape, SlotShape, Works
  <2>4. /\ 0 \in 0 .. N /\ 0 \in 0 .. MaxMessages /\ 0 \in 0 .. MaxFailures
        /\ <<>> \in Seq({"part", "last"})
    BY OpelAssumption
  <2>5. CountShape
    BY <2>4 DEF Init, CountShape
  <2> QED
    BY <2>1, <2>2, <2>3, <2>5 DEF Shape
<1>3. WorksOK
  BY <1>1 DEF Init, WorksOK, NothingStranded, Rest, Reading, Acking, Calls, Works
<1>4. KnownOK /\ WaitingOK
  <2>1. \A s \in Slots : slots[s] = Free
    BY DEF Init
  <2>2. \A i \in 1 .. N : ~ (sent[i] > 0)
    BY DEF Init
  <2>3. main.at = "loop" /\ at["write"] = "off" /\ at["read"] = "off" /\ writeQ = <<>>
    BY DEF Init, Works
  <2> QED
    BY <1>1, <2>1, <2>2, <2>3 DEF KnownOK, WaitingOK, Waiting
<1> QED
  BY <1>2, <1>3, <1>4 DEF IInv

(* A step of a work from one place to another.                             *)
LEMMA GotoIs ==
  ASSUME WorksShape, NEW w \in Works, NEW place \in Places, w = "write" => place \in WritePlaces,
         Goto(w, place)
  PROVE  /\ at' \in [Works -> Places] /\ at'["write"] \in WritePlaces
         /\ at'[w] = place
         /\ \A v \in Works : v # w => at'[v] = at[v]
<1>1. at' = [at EXCEPT ![w] = place] /\ at \in [Works -> Places] /\ at["write"] \in WritePlaces
  BY DEF Goto, WorksShape
<1>2. at' \in [Works -> Places]
  BY <1>1
<1>3. "write" \in Works
  BY DEF Works
<1>4. CASE w = "write"
  BY <1>1, <1>2, <1>3, <1>4
<1>5. CASE w # "write"
  BY <1>1, <1>2, <1>3, <1>5
<1> QED
  BY <1>1, <1>2, <1>4, <1>5

LEMMA PlaceNames ==
  /\ Places = Places \cup WritePlaces
  /\ {"off", "trying", "done", "select", "insert", "release", "test", "wait"} \subseteq Places
  /\ "connect" \in Works /\ "read" \in Works /\ "write" \in Works /\ "ra" \in Works
BY DEF Places, WritePlaces, Works

LEMMA WorksShapeStep ==
  ASSUME IInv, [Next]_vars
  PROVE  WorksShape'
<1> USE DEF IInv, Shape
<1>1. ASSUME Start PROVE WorksShape'
  <2> DEFINE w == Head(pool)
  <2>1. pool # <<>> /\ pool' = Tail(pool) /\ Goto(w, First[w]) /\ writeAlive' = writeAlive
    BY <1>1 DEF Start, Goto
  <2>2. w \in Works /\ Tail(pool) \in Seq(Works)
    BY <2>1, TakeOut DEF WorksShape
  <2>3. First[w] \in Places /\ (w = "write" => First[w] \in WritePlaces)
    BY <2>2 DEF First, Works, Places, WritePlaces
  <2> HIDE DEF w
  <2>4. at' \in [Works -> Places] /\ at'["write"] \in WritePlaces
    BY <2>1, <2>2, <2>3, GotoIs
  <2> QED
    BY <2>1, <2>2, <2>4 DEF WorksShape
<1>2. ASSUME Connect PROVE WorksShape'
  <2>1. Goto("connect", "done")
    BY <1>2 DEF Connect
  <2>2. at' \in [Works -> Places] /\ at'["write"] \in WritePlaces
    BY <2>1, GotoIs, PlaceNames DEF Places, WritePlaces
  <2>3. pool' \in Seq(Works) /\ writeAlive' \in BOOLEAN
    BY <1>2, PutIn, PlaceNames DEF Connect, WorksShape
  <2> QED
    BY <2>2, <2>3 DEF WorksShape
<1>3. ASSUME Submit PROVE WorksShape'
  BY <1>3, PutIn, PlaceNames DEF Submit, threads, queues, reqset, memory, requests,
     peer, outcome, WorksShape
<1>4. ASSUME Put PROVE WorksShape'
  BY <1>4, PutIn, PlaceNames DEF Put, threads, queues, reqset, memory, requests, peer,
     outcome, WorksShape
<1>5. ASSUME Check PROVE WorksShape'
  BY <1>5, PutIn, PlaceNames DEF Check, threads, queues, reqset, memory, requests,
     peer, outcome, WorksShape
<1>6. ASSUME AfterConnect PROVE WorksShape'
  <2>1. Goto("connect", "off")
    BY <1>6 DEF AfterConnect
  <2>2. at' \in [Works -> Places] /\ at'["write"] \in WritePlaces
    BY <2>1, GotoIs, PlaceNames DEF Places, WritePlaces
  <2>3. pool' = pool \/ pool' = Append(Append(pool, "read"), "ra")
    BY <1>6, PutInTwo, PlaceNames DEF AfterConnect, WorksShape
  <2>4. Append(pool, "read") \in Seq(Works)
    BY PutIn, PlaceNames DEF WorksShape
  <2>5. Append(Append(pool, "read"), "ra") \in Seq(Works)
    BY <2>4, PutIn, PlaceNames
  <2>6. pool' \in Seq(Works) /\ writeAlive' \in BOOLEAN
    BY <1>6, <2>3, <2>5 DEF AfterConnect, WorksShape
  <2> QED
    BY <2>2, <2>6 DEF WorksShape
<1>7. ASSUME AfterWrite PROVE WorksShape'
  <2>1. Goto("write", "off")
    BY <1>7 DEF AfterWrite
  <2>2. at' \in [Works -> Places] /\ at'["write"] \in WritePlaces
    BY <2>1, GotoIs, PlaceNames DEF Places, WritePlaces
  <2>3. pool' \in Seq(Works) /\ writeAlive' \in BOOLEAN
    BY <1>7, PutIn, PlaceNames DEF AfterWrite, WorksShape
  <2> QED
    BY <2>2, <2>3 DEF WorksShape
<1>8. ASSUME AfterRead PROVE WorksShape'
  <2>1. Goto("read", "off")
    BY <1>8 DEF AfterRead, AfterBegins
  <2>2. at' \in [Works -> Places] /\ at'["write"] \in WritePlaces
    BY <2>1, GotoIs, PlaceNames DEF Places, WritePlaces
  <2>3. pool' \in Seq(Works) /\ writeAlive' \in BOOLEAN
    BY <1>8, PutIn, PlaceNames DEF AfterRead, AfterBegins, WorksShape
  <2> QED
    BY <2>2, <2>3 DEF WorksShape
<1>9. ASSUME AfterRa PROVE WorksShape'
  <2>1. Goto("ra", "off")
    BY <1>9 DEF AfterRa, AfterBegins
  <2>2. at' \in [Works -> Places] /\ at'["write"] \in WritePlaces
    BY <2>1, GotoIs, PlaceNames DEF Places, WritePlaces
  <2>3. pool' \in Seq(Works) /\ writeAlive' \in BOOLEAN
    BY <1>9, PutIn, PlaceNames DEF AfterRa, AfterBegins, WorksShape
  <2> QED
    BY <2>2, <2>3 DEF WorksShape
<1>10. ASSUME ReadsEnd PROVE WorksShape'
  BY <1>10, PutIn, PlaceNames DEF ReadsEnd, AfterEnds, threads, queues, reqset,
     memory, requests, peer, outcome, WorksShape
<1>11. ASSUME AcksEnd PROVE WorksShape'
  BY <1>11, PutIn, PlaceNames DEF AcksEnd, AfterEnds, threads, queues, reqset, memory,
     requests, peer, outcome, WorksShape
<1>12. ASSUME NEW replies \in BOOLEAN, HandleMessage(replies) PROVE WorksShape'
  BY <1>12, PutIn, PlaceNames DEF HandleMessage, threads, queues, reqset, memory,
     requests, peer, outcome, WorksShape
<1>13. ASSUME AckDequeue PROVE WorksShape'
  BY <1>13, PutIn, PlaceNames DEF AckDequeue, threads, queues, reqset, memory,
     requests, peer, outcome, WorksShape
<1>14. ASSUME CallHandler PROVE WorksShape'
  BY <1>14, PutIn, PlaceNames DEF CallHandler, threads, queues, reqset, memory,
     requests, peer, outcome, WorksShape
<1>15. ASSUME AckDrop PROVE WorksShape'
  BY <1>15, PutIn, PlaceNames DEF AckDrop, threads, queues, reqset, memory, requests,
     peer, outcome, WorksShape
<1>16. ASSUME AckTest PROVE WorksShape'
  BY <1>16, PutIn, PlaceNames DEF AckTest, threads, queues, reqset, memory, requests,
     peer, outcome, WorksShape
<1>17. ASSUME UsesDeleted PROVE WorksShape'
  BY <1>17, PutIn, PlaceNames DEF UsesDeleted, Undefined, threads, queues, reqset,
     memory, requests, peer, outcome, WorksShape
<1>18. ASSUME ReadMessage PROVE WorksShape'
  <2>1. Goto("read", "done")
    BY <1>18 DEF ReadMessage
  <2>2. at' \in [Works -> Places] /\ at'["write"] \in WritePlaces
    BY <2>1, GotoIs, PlaceNames DEF Places, WritePlaces
  <2>3. pool' \in Seq(Works) /\ writeAlive' \in BOOLEAN
    BY <1>18, PutIn, PlaceNames DEF ReadMessage, WorksShape
  <2> QED
    BY <2>2, <2>3 DEF WorksShape
<1>19. ASSUME ReadFails PROVE WorksShape'
  <2>1. Goto("read", "done")
    BY <1>19 DEF ReadFails
  <2>2. at' \in [Works -> Places] /\ at'["write"] \in WritePlaces
    BY <2>1, GotoIs, PlaceNames DEF Places, WritePlaces
  <2>3. pool' \in Seq(Works) /\ writeAlive' \in BOOLEAN
    BY <1>19, PutIn, PlaceNames DEF ReadFails, WorksShape
  <2> QED
    BY <2>2, <2>3 DEF WorksShape
<1>20. ASSUME NEW i \in 1 .. N, NEW kind \in {"part", "last"}, ReadAnswer(i, kind)
       PROVE  WorksShape'
  <2>1. Goto("read", "insert") \/ Goto("read", "release")
    BY <1>20 DEF ReadAnswer
  <2>2. at' \in [Works -> Places] /\ at'["write"] \in WritePlaces
    BY <2>1, GotoIs, PlaceNames DEF Places, WritePlaces
  <2>3. pool' \in Seq(Works) /\ writeAlive' \in BOOLEAN
    BY <1>20, PutIn, PlaceNames DEF ReadAnswer, WorksShape
  <2> QED
    BY <2>2, <2>3 DEF WorksShape
<1>21. ASSUME ReadInsert PROVE WorksShape'
  <2>1. Goto("read", "release")
    BY <1>21 DEF ReadInsert
  <2>2. at' \in [Works -> Places] /\ at'["write"] \in WritePlaces
    BY <2>1, GotoIs, PlaceNames DEF Places, WritePlaces
  <2>3. pool' \in Seq(Works) /\ writeAlive' \in BOOLEAN
    BY <1>21, PutIn, PlaceNames DEF ReadInsert, WorksShape
  <2> QED
    BY <2>2, <2>3 DEF WorksShape
<1>22. ASSUME ReadRelease PROVE WorksShape'
  <2>1. Goto("read", "test")
    BY <1>22 DEF ReadRelease
  <2>2. at' \in [Works -> Places] /\ at'["write"] \in WritePlaces
    BY <2>1, GotoIs, PlaceNames DEF Places, WritePlaces
  <2>3. pool' \in Seq(Works) /\ writeAlive' \in BOOLEAN
    BY <1>22, PutIn, PlaceNames DEF ReadRelease, WorksShape
  <2> QED
    BY <2>2, <2>3 DEF WorksShape
<1>23. ASSUME CountsRace PROVE WorksShape'
  BY <1>23, PutIn, PlaceNames DEF CountsRace, Undefined, threads, queues, reqset,
     memory, requests, peer, outcome, WorksShape
<1>24. ASSUME ReadTest PROVE WorksShape'
  <2>1. Goto("read", "done")
    BY <1>24 DEF ReadTest
  <2>2. at' \in [Works -> Places] /\ at'["write"] \in WritePlaces
    BY <2>1, GotoIs, PlaceNames DEF Places, WritePlaces
  <2>3. pool' \in Seq(Works) /\ writeAlive' \in BOOLEAN
    BY <1>24, PutIn, PlaceNames DEF ReadTest, WorksShape
  <2> QED
    BY <2>2, <2>3 DEF WorksShape
<1>25. ASSUME WriteBegins PROVE WorksShape'
  <2>1. Goto("write", "take")
    BY <1>25 DEF WriteBegins
  <2>2. at' \in [Works -> Places] /\ at'["write"] \in WritePlaces
    BY <2>1, GotoIs, PlaceNames DEF Places, WritePlaces
  <2>3. pool' \in Seq(Works) /\ writeAlive' \in BOOLEAN
    BY <1>25, PutIn, PlaceNames DEF WriteBegins, WorksShape
  <2> QED
    BY <2>2, <2>3 DEF WorksShape
<1>26. ASSUME WriteTake PROVE WorksShape'
  <2>1. Goto("write", "writing")
    BY <1>26 DEF WriteTake
  <2>2. at' \in [Works -> Places] /\ at'["write"] \in WritePlaces
    BY <2>1, GotoIs, PlaceNames DEF Places, WritePlaces
  <2>3. pool' \in Seq(Works) /\ writeAlive' \in BOOLEAN
    BY <1>26, PutIn, PlaceNames DEF WriteTake, WorksShape
  <2> QED
    BY <2>2, <2>3 DEF WorksShape
<1>27. ASSUME WriteDone PROVE WorksShape'
  <2>1. Goto("write", "done")
    BY <1>27 DEF WriteDone
  <2>2. at' \in [Works -> Places] /\ at'["write"] \in WritePlaces
    BY <2>1, GotoIs, PlaceNames DEF Places, WritePlaces
  <2>3. pool' \in Seq(Works) /\ writeAlive' \in BOOLEAN
    BY <1>27, PutIn, PlaceNames DEF WriteDone, WorksShape
  <2> QED
    BY <2>2, <2>3 DEF WorksShape
<1>28. ASSUME WriteFails PROVE WorksShape'
  <2>1. Goto("write", "done")
    BY <1>28 DEF WriteFails
  <2>2. at' \in [Works -> Places] /\ at'["write"] \in WritePlaces
    BY <2>1, GotoIs, PlaceNames DEF Places, WritePlaces
  <2>3. pool' \in Seq(Works) /\ writeAlive' \in BOOLEAN
    BY <1>28, PutIn, PlaceNames DEF WriteFails, WorksShape
  <2> QED
    BY <2>2, <2>3 DEF WorksShape
<1>29. ASSUME TimedOut PROVE WorksShape'
  <2>1. Goto("ra", "wait") \/ Goto("ra", "done")
    BY <1>29 DEF TimedOut
  <2>2. at' \in [Works -> Places] /\ at'["write"] \in WritePlaces
    BY <2>1, GotoIs, PlaceNames DEF Places, WritePlaces
  <2>3. pool' \in Seq(Works) /\ writeAlive' \in BOOLEAN
    BY <1>29, PutIn, PlaceNames DEF TimedOut, WorksShape
  <2> QED
    BY <2>2, <2>3 DEF WorksShape
<1>30. ASSUME Woken PROVE WorksShape'
  <2>1. Goto("ra", "done")
    BY <1>30 DEF Woken
  <2>2. at' \in [Works -> Places] /\ at'["write"] \in WritePlaces
    BY <2>1, GotoIs, PlaceNames DEF Places, WritePlaces
  <2>3. pool' \in Seq(Works) /\ writeAlive' \in BOOLEAN
    BY <1>30, PutIn, PlaceNames DEF Woken, WorksShape
  <2> QED
    BY <2>2, <2>3 DEF WorksShape
<1>31. CASE UNCHANGED vars
  BY <1>31 DEF vars, threads, WorksShape
<1> QED
  BY <1>1, <1>2, <1>3, <1>4, <1>5, <1>6, <1>7, <1>8, <1>9, <1>10, <1>11, <1>12, <1>13,
     <1>14, <1>15, <1>16, <1>17, <1>18, <1>19, <1>20, <1>21, <1>22, <1>23, <1>24, <1>25,
     <1>26, <1>27, <1>28, <1>29, <1>30, <1>31 DEF Next, Main, Reader, ReaderGoesOn,
     Writer

LEMMA MainShapeStep ==
  ASSUME IInv, [Next]_vars
  PROVE  MainShape'
<1> USE DEF IInv, Shape
<1>1. ASSUME Start PROVE MainShape'
  BY <1>1, CellsMade, CellKinds, TakeOut, OpelAssumption DEF Start, First, MainShape,
     QueueShape, CountShape, MainAt
<1>2. ASSUME Connect PROVE MainShape'
  BY <1>2, CellsMade, CellKinds, TakeOut, OpelAssumption DEF Connect, MainShape,
     QueueShape, CountShape, MainAt
<1>3. ASSUME Submit PROVE MainShape'
  <2> DEFINE b == (writeQ = <<>>)
             i == asked + 1
  <2>1. main' = [main EXCEPT !.at = "put", !.new = Packet(i, 1), !.empty = b, !.back = main.at]
    BY <1>3 DEF Submit
  <2>2. b \in BOOLEAN
    OBVIOUS
  <2>3. i \in 1 .. N
    BY <1>3, OpelAssumption DEF Submit, CountShape
  <2>4. Packet(i, 1) \in Cells
    BY <2>3, CellsMade
  <2> HIDE DEF b, i
  <2>5. main.at \in MainAt /\ "put" \in MainAt
    BY DEF MainShape, MainAt
  <2> QED
    BY <2>1, <2>2, <2>4, <2>5 DEF MainShape
<1>4. ASSUME Put PROVE MainShape'
  BY <1>4, CellsMade, CellKinds, TakeOut, OpelAssumption DEF Put, MainShape, QueueShape,
     CountShape, MainAt
<1>5. ASSUME Check PROVE MainShape'
  <2>1. main' = [main EXCEPT !.at = main.back, !.empty = FALSE, !.back = "loop"]
    BY <1>5 DEF Check
  <2>2. main.back \in {"loop", "drop", "reads"}
    BY <1>5 DEF Check, WorksOK
  <2> QED
    BY <2>1, <2>2 DEF MainAt, MainShape
<1>6. ASSUME AfterConnect PROVE MainShape'
  BY <1>6, CellsMade, CellKinds, TakeOut, OpelAssumption DEF AfterConnect, MainShape,
     QueueShape, CountShape, MainAt
<1>7. ASSUME AfterWrite PROVE MainShape'
  BY <1>7, CellsMade, CellKinds, TakeOut, OpelAssumption DEF AfterWrite, MainShape,
     QueueShape, CountShape, MainAt
<1>8. ASSUME AfterRead PROVE MainShape'
  BY <1>8, CellsMade, CellKinds, TakeOut, OpelAssumption DEF AfterRead, AfterBegins,
     MainShape, QueueShape, CountShape, MainAt
<1>9. ASSUME AfterRa PROVE MainShape'
  BY <1>9, CellsMade, CellKinds, TakeOut, OpelAssumption DEF AfterRa, AfterBegins,
     MainShape, QueueShape, CountShape, MainAt
<1>10. ASSUME ReadsEnd PROVE MainShape'
  BY <1>10, CellsMade, CellKinds, TakeOut, OpelAssumption DEF ReadsEnd, AfterEnds,
     MainShape, QueueShape, CountShape, MainAt
<1>11. ASSUME AcksEnd PROVE MainShape'
  BY <1>11, CellsMade, CellKinds, TakeOut, OpelAssumption DEF AcksEnd, AfterEnds,
     MainShape, QueueShape, CountShape, MainAt
<1>12. ASSUME NEW replies \in BOOLEAN, HandleMessage(replies) PROVE MainShape'
  <2> DEFINE b == (writeQ = <<>>)
             d == Reply(ReqId(Head(readQ)))
  <2>1. \/ main' = main
        \/ /\ replies
           /\ main' = [main EXCEPT !.at = "put", !.new = d, !.empty = b, !.back = "reads"]
    BY <1>12 DEF HandleMessage
  <2>2. b \in BOOLEAN
    OBVIOUS
  <2>3. Head(readQ) \in Cells
    BY <1>12, TakeOut DEF HandleMessage, QueueShape
  <2>4. ASSUME replies PROVE d \in Cells
    <3>1. Head(readQ)[1] = "message"
      BY <1>12, <2>4 DEF HandleMessage
    <3>2. ReqId(Head(readQ)) \in 1 .. MaxMessages
      BY <2>3, <3>1, CellKinds DEF ReqId
    <3> QED
      BY <3>2, CellsMade
  <2> HIDE DEF b, d
  <2> QED
    BY <2>1, <2>2, <2>4 DEF MainShape, MainAt
<1>13. ASSUME AckDequeue PROVE MainShape'
  BY <1>13, CellsMade, CellKinds, TakeOut, OpelAssumption DEF AckDequeue, MainShape,
     QueueShape, CountShape, MainAt
<1>14. ASSUME CallHandler PROVE MainShape'
  BY <1>14, CellsMade, CellKinds, TakeOut, OpelAssumption DEF CallHandler, MainShape,
     QueueShape, CountShape, MainAt
<1>15. ASSUME AckDrop PROVE MainShape'
  BY <1>15, CellsMade, CellKinds, TakeOut, OpelAssumption DEF AckDrop, MainShape,
     QueueShape, CountShape, MainAt
<1>16. ASSUME AckTest PROVE MainShape'
  BY <1>16, CellsMade, CellKinds, TakeOut, OpelAssumption DEF AckTest, MainShape,
     QueueShape, CountShape, MainAt
<1>17. ASSUME UsesDeleted PROVE MainShape'
  BY <1>17, CellsMade, CellKinds, TakeOut, OpelAssumption DEF UsesDeleted, Undefined,
     threads, MainShape, QueueShape, CountShape, MainAt
<1>18. ASSUME ReadMessage PROVE MainShape'
  BY <1>18, CellsMade, CellKinds, TakeOut, OpelAssumption DEF ReadMessage, MainShape,
     QueueShape, CountShape, MainAt
<1>19. ASSUME ReadFails PROVE MainShape'
  BY <1>19, CellsMade, CellKinds, TakeOut, OpelAssumption DEF ReadFails, MainShape,
     QueueShape, CountShape, MainAt
<1>20. ASSUME NEW i \in 1 .. N, NEW kind \in {"part", "last"}, ReadAnswer(i, kind)
       PROVE  MainShape'
  BY <1>20, CellsMade, CellKinds, TakeOut, OpelAssumption DEF ReadAnswer, MainShape,
     QueueShape, CountShape, MainAt
<1>21. ASSUME ReadInsert PROVE MainShape'
  BY <1>21, CellsMade, CellKinds, TakeOut, OpelAssumption DEF ReadInsert, MainShape,
     QueueShape, CountShape, MainAt
<1>22. ASSUME ReadRelease PROVE MainShape'
  BY <1>22, CellsMade, CellKinds, TakeOut, OpelAssumption DEF ReadRelease, MainShape,
     QueueShape, CountShape, MainAt
<1>23. ASSUME CountsRace PROVE MainShape'
  BY <1>23, CellsMade, CellKinds, TakeOut, OpelAssumption DEF CountsRace, Undefined,
     threads, MainShape, QueueShape, CountShape, MainAt
<1>24. ASSUME ReadTest PROVE MainShape'
  BY <1>24, CellsMade, CellKinds, TakeOut, OpelAssumption DEF ReadTest, MainShape,
     QueueShape, CountShape, MainAt
<1>25. ASSUME WriteBegins PROVE MainShape'
  BY <1>25, CellsMade, CellKinds, TakeOut, OpelAssumption DEF WriteBegins, MainShape,
     QueueShape, CountShape, MainAt
<1>26. ASSUME WriteTake PROVE MainShape'
  BY <1>26, CellsMade, CellKinds, TakeOut, OpelAssumption DEF WriteTake, MainShape,
     QueueShape, CountShape, MainAt
<1>27. ASSUME WriteDone PROVE MainShape'
  BY <1>27, CellsMade, CellKinds, TakeOut, OpelAssumption DEF WriteDone, MainShape,
     QueueShape, CountShape, MainAt
<1>28. ASSUME WriteFails PROVE MainShape'
  BY <1>28, CellsMade, CellKinds, TakeOut, OpelAssumption DEF WriteFails, MainShape,
     QueueShape, CountShape, MainAt
<1>29. ASSUME TimedOut PROVE MainShape'
  BY <1>29, CellsMade, CellKinds, TakeOut, OpelAssumption DEF TimedOut, MainShape,
     QueueShape, CountShape, MainAt
<1>30. ASSUME Woken PROVE MainShape'
  BY <1>30, CellsMade, CellKinds, TakeOut, OpelAssumption DEF Woken, MainShape,
     QueueShape, CountShape, MainAt
<1>31. CASE UNCHANGED vars
  BY <1>31 DEF vars, threads, MainShape, QueueShape, CountShape, MainAt
<1> QED
  BY <1>1, <1>2, <1>3, <1>4, <1>5, <1>6, <1>7, <1>8, <1>9, <1>10, <1>11, <1>12, <1>13,
     <1>14, <1>15, <1>16, <1>17, <1>18, <1>19, <1>20, <1>21, <1>22, <1>23, <1>24, <1>25,
     <1>26, <1>27, <1>28, <1>29, <1>30, <1>31 DEF Next, Main, Reader, ReaderGoesOn,
     Writer

LEMMA QueueShapeStep ==
  ASSUME IInv, [Next]_vars
  PROVE  QueueShape'
<1> USE DEF IInv, Shape
<1>1. ASSUME Start PROVE QueueShape'
  BY <1>1, CellsMade, CellKinds, PutIn, TakeOut DEF Start, First, queues, QueueShape,
     MainShape, CountShape, WorksShape, Works
<1>2. ASSUME Connect PROVE QueueShape'
  BY <1>2, CellsMade, CellKinds, PutIn, TakeOut DEF Connect, Goto, queues, QueueShape,
     MainShape, CountShape, WorksShape, Works
<1>3. ASSUME Submit PROVE QueueShape'
  BY <1>3, CellsMade, CellKinds, PutIn, TakeOut DEF Submit, Insert, queues, QueueShape,
     MainShape, CountShape, WorksShape, Works
<1>4. ASSUME Put PROVE QueueShape'
  BY <1>4, CellsMade, CellKinds, PutIn, TakeOut DEF Put, QueueShape, MainShape,
     CountShape, WorksShape, Works
<1>5. ASSUME Check PROVE QueueShape'
  BY <1>5, CellsMade, CellKinds, PutIn, TakeOut DEF Check, queues, QueueShape,
     MainShape, CountShape, WorksShape, Works
<1>6. ASSUME AfterConnect PROVE QueueShape'
  BY <1>6, CellsMade, CellKinds, PutIn, TakeOut DEF AfterConnect, Goto, queues,
     QueueShape, MainShape, CountShape, WorksShape, Works
<1>7. ASSUME AfterWrite PROVE QueueShape'
  BY <1>7, CellsMade, CellKinds, PutIn, TakeOut DEF AfterWrite, Goto, queues,
     QueueShape, MainShape, CountShape, WorksShape, Works
<1>8. ASSUME AfterRead PROVE QueueShape'
  BY <1>8, CellsMade, CellKinds, PutIn, TakeOut DEF AfterRead, AfterBegins, Goto,
     queues, QueueShape, MainShape, CountShape, WorksShape, Works
<1>9. ASSUME AfterRa PROVE QueueShape'
  BY <1>9, CellsMade, CellKinds, PutIn, TakeOut DEF AfterRa, AfterBegins, Goto, queues,
     QueueShape, MainShape, CountShape, WorksShape, Works
<1>10. ASSUME ReadsEnd PROVE QueueShape'
  BY <1>10, CellsMade, CellKinds, PutIn, TakeOut DEF ReadsEnd, AfterEnds, queues,
     QueueShape, MainShape, CountShape, WorksShape, Works
<1>11. ASSUME AcksEnd PROVE QueueShape'
  BY <1>11, CellsMade, CellKinds, PutIn, TakeOut DEF AcksEnd, AfterEnds, queues,
     QueueShape, MainShape, CountShape, WorksShape, Works
<1>12. ASSUME NEW replies \in BOOLEAN, HandleMessage(replies) PROVE QueueShape'
  BY <1>12, CellsMade, CellKinds, PutIn, TakeOut DEF HandleMessage, QueueShape,
     MainShape, CountShape, WorksShape, Works
<1>13. ASSUME AckDequeue PROVE QueueShape'
  BY <1>13, CellsMade, CellKinds, PutIn, TakeOut DEF AckDequeue, QueueShape, MainShape,
     CountShape, WorksShape, Works
<1>14. ASSUME CallHandler PROVE QueueShape'
  BY <1>14, CellsMade, CellKinds, PutIn, TakeOut DEF CallHandler, queues, QueueShape,
     MainShape, CountShape, WorksShape, Works
<1>15. ASSUME AckDrop PROVE QueueShape'
  BY <1>15, CellsMade, CellKinds, PutIn, TakeOut DEF AckDrop, queues, QueueShape,
     MainShape, CountShape, WorksShape, Works
<1>16. ASSUME AckTest PROVE QueueShape'
  BY <1>16, CellsMade, CellKinds, PutIn, TakeOut DEF AckTest, queues, QueueShape,
     MainShape, CountShape, WorksShape, Works
<1>17. ASSUME UsesDeleted PROVE QueueShape'
  BY <1>17, CellsMade, CellKinds, PutIn, TakeOut DEF UsesDeleted, Undefined, threads,
     queues, QueueShape, MainShape, CountShape, WorksShape, Works
<1>18. ASSUME ReadMessage PROVE QueueShape'
  <2> DEFINE c == Message(read + 1)
  <2>1. c \in Cells
    <3>1. read + 1 \in 1 .. MaxMessages
      BY <1>18, OpelAssumption DEF ReadMessage, CountShape
    <3> QED
      BY <3>1, CellsMade
  <2>2. readQ' = Append(readQ, c) /\ Goto("read", "done")
    BY <1>18 DEF ReadMessage
  <2>3. at'["read"] = "done" /\ at'["write"] = at["write"]
    BY <2>2, GotoIs, PlaceNames
  <2> HIDE DEF c
  <2>4. readQ' \in Seq(Cells)
    BY <2>1, <2>2, PutIn DEF QueueShape
  <2> QED
    BY <1>18, <2>3, <2>4 DEF ReadMessage, QueueShape
<1>19. ASSUME ReadFails PROVE QueueShape'
  <2> DEFINE c == Notice(failures + 1)
  <2>1. c \in Cells
    <3>1. failures + 1 \in 1 .. MaxFailures
      BY <1>19, OpelAssumption DEF ReadFails, CountShape
    <3> QED
      BY <3>1, CellsMade
  <2>2. readQ' = Append(readQ, c) /\ Goto("read", "done")
    BY <1>19 DEF ReadFails
  <2>3. at'["read"] = "done" /\ at'["write"] = at["write"]
    BY <2>2, GotoIs, PlaceNames
  <2> HIDE DEF c
  <2>4. readQ' \in Seq(Cells)
    BY <2>1, <2>2, PutIn DEF QueueShape
  <2> QED
    BY <1>19, <2>3, <2>4 DEF ReadFails, QueueShape
<1>20. ASSUME NEW i \in 1 .. N, NEW kind \in {"part", "last"}, ReadAnswer(i, kind)
       PROVE  QueueShape'
  <2> DEFINE c == Answer(i, Len(answers[i]) + 1)
  <2>1. c \in Cells
    <3>1. Len(answers[i]) \in Nat /\ MaxAnswers[i] \in Nat
      BY OpelAssumption DEF CountShape
    <3>2. Len(answers[i]) + 1 \in 1 .. MaxAnswers[i]
      BY <1>20, <3>1 DEF ReadAnswer
    <3> QED
      BY <3>2, CellsMade
  <2>2. held' = [held EXCEPT !["read"] = c] /\ (Goto("read", "insert") \/ Goto("read", "release"))
    BY <1>20 DEF ReadAnswer
  <2>3. at'["write"] = at["write"]
    BY <2>2, GotoIs, PlaceNames
  <2> HIDE DEF c
  <2> QED
    BY <1>20, <2>1, <2>2, <2>3 DEF ReadAnswer, QueueShape
<1>21. ASSUME ReadInsert PROVE QueueShape'
  BY <1>21, CellsMade, CellKinds, PutIn, TakeOut DEF ReadInsert, Insert, Goto, queues,
     QueueShape, MainShape, CountShape, WorksShape, Works
<1>22. ASSUME ReadRelease PROVE QueueShape'
  BY <1>22, CellsMade, CellKinds, PutIn, TakeOut DEF ReadRelease, Goto, queues,
     QueueShape, MainShape, CountShape, WorksShape, Works
<1>23. ASSUME CountsRace PROVE QueueShape'
  BY <1>23, CellsMade, CellKinds, PutIn, TakeOut DEF CountsRace, Undefined, threads,
     queues, QueueShape, MainShape, CountShape, WorksShape, Works
<1>24. ASSUME ReadTest PROVE QueueShape'
  BY <1>24, CellsMade, CellKinds, PutIn, TakeOut DEF ReadTest, Goto, queues, QueueShape,
     MainShape, CountShape, WorksShape, Works
<1>25. ASSUME WriteBegins PROVE QueueShape'
  BY <1>25, CellsMade, CellKinds, PutIn, TakeOut DEF WriteBegins, Goto, queues,
     QueueShape, MainShape, CountShape, WorksShape, Works
<1>26. ASSUME WriteTake PROVE QueueShape'
  BY <1>26, CellsMade, CellKinds, PutIn, TakeOut DEF WriteTake, Goto, QueueShape,
     MainShape, CountShape, WorksShape, Works
<1>27. ASSUME WriteDone PROVE QueueShape'
  <2> DEFINE c == held["write"]
             next == Packet(c[2], c[3] + 1)
  <2>1. c \in Cells
    BY <1>27 DEF WriteDone, QueueShape
  <2>2. HasNext(c) => next \in Cells
    <3>1. ASSUME HasNext(c) PROVE next \in Cells
      <4>1. c[2] \in 1 .. N /\ c[3] \in 1 .. Size[c[2]] /\ c[3] < Size[c[2]]
        BY <2>1, <3>1, CellKinds DEF HasNext
      <4>2. Size[c[2]] \in Nat
        BY <4>1, OpelAssumption
      <4>3. c[3] + 1 \in 1 .. Size[c[2]]
        BY <4>1, <4>2
      <4> QED
        BY <4>1, <4>3, CellsMade
    <3> QED
      BY <3>1
  <2>3. /\ (writeQ' = Append(writeQ, next) /\ HasNext(c)) \/ writeQ' = writeQ
        /\ held' = [held EXCEPT !["write"] = Free] /\ Goto("write", "done") /\ readQ' = readQ
    BY <1>27 DEF WriteDone
  <2>4. at'["write"] = "done" /\ at'["read"] = at["read"]
    BY <2>3, GotoIs, PlaceNames DEF Places, WritePlaces
  <2> HIDE DEF c, next
  <2>5. writeQ' \in Seq(Cells)
    BY <2>2, <2>3, PutIn DEF QueueShape
  <2> QED
    BY <2>3, <2>4, <2>5 DEF QueueShape
<1>28. ASSUME WriteFails PROVE QueueShape'
  BY <1>28, CellsMade, CellKinds, PutIn, TakeOut DEF WriteFails, Goto, QueueShape,
     MainShape, CountShape, WorksShape, Works
<1>29. ASSUME TimedOut PROVE QueueShape'
  BY <1>29, CellsMade, CellKinds, PutIn, TakeOut DEF TimedOut, Goto, QueueShape,
     MainShape, CountShape, WorksShape, Works
<1>30. ASSUME Woken PROVE QueueShape'
  BY <1>30, CellsMade, CellKinds, PutIn, TakeOut DEF Woken, Goto, queues, QueueShape,
     MainShape, CountShape, WorksShape, Works
<1>31. CASE UNCHANGED vars
  BY <1>31 DEF vars, threads, queues, QueueShape, MainShape, CountShape, WorksShape,
     Works
<1> QED
  BY <1>1, <1>2, <1>3, <1>4, <1>5, <1>6, <1>7, <1>8, <1>9, <1>10, <1>11, <1>12, <1>13,
     <1>14, <1>15, <1>16, <1>17, <1>18, <1>19, <1>20, <1>21, <1>22, <1>23, <1>24, <1>25,
     <1>26, <1>27, <1>28, <1>29, <1>30, <1>31 DEF Next, Main, Reader, ReaderGoesOn,
     Writer

LEMMA SlotShapeStep ==
  ASSUME IInv, [Next]_vars
  PROVE  SlotShape'
<1> USE DEF IInv, Shape
<1>1. ASSUME Start PROVE SlotShape'
  BY <1>1, CellsMade DEF Start, First, reqset, SlotShape, QueueShape, CountShape, Slots,
     FreeSlots
<1>2. ASSUME Connect PROVE SlotShape'
  BY <1>2, CellsMade DEF Connect, reqset, SlotShape, QueueShape, CountShape, Slots,
     FreeSlots
<1>3. ASSUME Submit PROVE SlotShape'
  <2>1. asked + 1 \in 1 .. N
    BY <1>3, OpelAssumption DEF Submit, CountShape
  <2>2. Entry(asked + 1) \in Cells
    BY <2>1, CellsMade
  <2>3. slots' = slots \/ slots' = [slots EXCEPT ![Min(FreeSlots)] = Entry(asked + 1)]
    BY <1>3 DEF Submit, Insert, reqset
  <2> QED
    BY <2>2, <2>3 DEF SlotShape
<1>4. ASSUME Put PROVE SlotShape'
  BY <1>4, CellsMade DEF Put, reqset, SlotShape, QueueShape, CountShape, Slots,
     FreeSlots
<1>5. ASSUME Check PROVE SlotShape'
  BY <1>5, CellsMade DEF Check, reqset, SlotShape, QueueShape, CountShape, Slots,
     FreeSlots
<1>6. ASSUME AfterConnect PROVE SlotShape'
  BY <1>6, CellsMade DEF AfterConnect, reqset, SlotShape, QueueShape, CountShape, Slots,
     FreeSlots
<1>7. ASSUME AfterWrite PROVE SlotShape'
  BY <1>7, CellsMade DEF AfterWrite, reqset, SlotShape, QueueShape, CountShape, Slots,
     FreeSlots
<1>8. ASSUME AfterRead PROVE SlotShape'
  BY <1>8, CellsMade DEF AfterRead, AfterBegins, reqset, SlotShape, QueueShape,
     CountShape, Slots, FreeSlots
<1>9. ASSUME AfterRa PROVE SlotShape'
  BY <1>9, CellsMade DEF AfterRa, AfterBegins, reqset, SlotShape, QueueShape,
     CountShape, Slots, FreeSlots
<1>10. ASSUME ReadsEnd PROVE SlotShape'
  BY <1>10, CellsMade DEF ReadsEnd, AfterEnds, reqset, SlotShape, QueueShape,
     CountShape, Slots, FreeSlots
<1>11. ASSUME AcksEnd PROVE SlotShape'
  BY <1>11, CellsMade DEF AcksEnd, AfterEnds, reqset, SlotShape, QueueShape, CountShape,
     Slots, FreeSlots
<1>12. ASSUME NEW replies \in BOOLEAN, HandleMessage(replies) PROVE SlotShape'
  BY <1>12, CellsMade DEF HandleMessage, reqset, SlotShape, QueueShape, CountShape,
     Slots, FreeSlots
<1>13. ASSUME AckDequeue PROVE SlotShape'
  BY <1>13, CellsMade DEF AckDequeue, reqset, SlotShape, QueueShape, CountShape, Slots,
     FreeSlots
<1>14. ASSUME CallHandler PROVE SlotShape'
  BY <1>14, CellsMade DEF CallHandler, reqset, SlotShape, QueueShape, CountShape, Slots,
     FreeSlots
<1>15. ASSUME AckDrop PROVE SlotShape'
  BY <1>15, CellsMade DEF AckDrop, reqset, SlotShape, QueueShape, CountShape, Slots,
     FreeSlots
<1>16. ASSUME AckTest PROVE SlotShape'
  BY <1>16, CellsMade DEF AckTest, reqset, SlotShape, QueueShape, CountShape, Slots,
     FreeSlots
<1>17. ASSUME UsesDeleted PROVE SlotShape'
  BY <1>17, CellsMade DEF UsesDeleted, Undefined, reqset, SlotShape, QueueShape,
     CountShape, Slots, FreeSlots
<1>18. ASSUME ReadMessage PROVE SlotShape'
  BY <1>18, CellsMade DEF ReadMessage, reqset, SlotShape, QueueShape, CountShape, Slots,
     FreeSlots
<1>19. ASSUME ReadFails PROVE SlotShape'
  BY <1>19, CellsMade DEF ReadFails, reqset, SlotShape, QueueShape, CountShape, Slots,
     FreeSlots
<1>20. ASSUME NEW i \in 1 .. N, NEW kind \in {"part", "last"}, ReadAnswer(i, kind)
       PROVE  SlotShape'
  BY <1>20, CellsMade DEF ReadAnswer, Signal, SlotShape, QueueShape, CountShape, Slots,
     FreeSlots
<1>21. ASSUME ReadInsert PROVE SlotShape'
  BY <1>21, CellsMade DEF ReadInsert, Insert, reqset, SlotShape, QueueShape, CountShape,
     Slots, FreeSlots
<1>22. ASSUME ReadRelease PROVE SlotShape'
  BY <1>22, CellsMade DEF ReadRelease, reqset, SlotShape, QueueShape, CountShape, Slots,
     FreeSlots
<1>23. ASSUME CountsRace PROVE SlotShape'
  BY <1>23, CellsMade DEF CountsRace, Undefined, reqset, SlotShape, QueueShape,
     CountShape, Slots, FreeSlots
<1>24. ASSUME ReadTest PROVE SlotShape'
  BY <1>24, CellsMade DEF ReadTest, reqset, SlotShape, QueueShape, CountShape, Slots,
     FreeSlots
<1>25. ASSUME WriteBegins PROVE SlotShape'
  BY <1>25, CellsMade DEF WriteBegins, reqset, SlotShape, QueueShape, CountShape, Slots,
     FreeSlots
<1>26. ASSUME WriteTake PROVE SlotShape'
  BY <1>26, CellsMade DEF WriteTake, reqset, SlotShape, QueueShape, CountShape, Slots,
     FreeSlots
<1>27. ASSUME WriteDone PROVE SlotShape'
  BY <1>27, CellsMade DEF WriteDone, SlotShape, QueueShape, CountShape, Slots, FreeSlots
<1>28. ASSUME WriteFails PROVE SlotShape'
  BY <1>28, CellsMade DEF WriteFails, Signal, SlotShape, QueueShape, CountShape, Slots,
     FreeSlots
<1>29. ASSUME TimedOut PROVE SlotShape'
  BY <1>29, CellsMade DEF TimedOut, Expire, SlotShape, QueueShape, CountShape, Slots,
     FreeSlots
<1>30. ASSUME Woken PROVE SlotShape'
  BY <1>30, CellsMade DEF Woken, reqset, SlotShape, QueueShape, CountShape, Slots,
     FreeSlots
<1>31. CASE UNCHANGED vars
  BY <1>31 DEF vars, reqset, SlotShape, QueueShape, CountShape, Slots, FreeSlots
<1> QED
  BY <1>1, <1>2, <1>3, <1>4, <1>5, <1>6, <1>7, <1>8, <1>9, <1>10, <1>11, <1>12, <1>13,
     <1>14, <1>15, <1>16, <1>17, <1>18, <1>19, <1>20, <1>21, <1>22, <1>23, <1>24, <1>25,
     <1>26, <1>27, <1>28, <1>29, <1>30, <1>31 DEF Next, Main, Reader, ReaderGoesOn,
     Writer

LEMMA CountShapeStep ==
  ASSUME IInv, [Next]_vars
  PROVE  CountShape'
<1> USE DEF IInv, Shape
<1>1. ASSUME Start PROVE CountShape'
  BY <1>1, OpelAssumption DEF Start, First, requests, peer, CountShape
<1>2. ASSUME Connect PROVE CountShape'
  BY <1>2, OpelAssumption DEF Connect, requests, peer, CountShape
<1>3. ASSUME Submit PROVE CountShape'
  BY <1>3, OpelAssumption DEF Submit, peer, CountShape
<1>4. ASSUME Put PROVE CountShape'
  BY <1>4, OpelAssumption DEF Put, requests, peer, CountShape
<1>5. ASSUME Check PROVE CountShape'
  BY <1>5, OpelAssumption DEF Check, requests, peer, CountShape
<1>6. ASSUME AfterConnect PROVE CountShape'
  BY <1>6, OpelAssumption DEF AfterConnect, requests, peer, CountShape
<1>7. ASSUME AfterWrite PROVE CountShape'
  BY <1>7, OpelAssumption DEF AfterWrite, requests, peer, CountShape
<1>8. ASSUME AfterRead PROVE CountShape'
  BY <1>8, OpelAssumption DEF AfterRead, AfterBegins, requests, peer, CountShape
<1>9. ASSUME AfterRa PROVE CountShape'
  BY <1>9, OpelAssumption DEF AfterRa, AfterBegins, requests, peer, CountShape
<1>10. ASSUME ReadsEnd PROVE CountShape'
  BY <1>10, OpelAssumption DEF ReadsEnd, AfterEnds, requests, peer, CountShape
<1>11. ASSUME AcksEnd PROVE CountShape'
  BY <1>11, OpelAssumption DEF AcksEnd, AfterEnds, requests, peer, CountShape
<1>12. ASSUME NEW replies \in BOOLEAN, HandleMessage(replies) PROVE CountShape'
  BY <1>12, OpelAssumption DEF HandleMessage, requests, peer, CountShape
<1>13. ASSUME AckDequeue PROVE CountShape'
  BY <1>13, OpelAssumption DEF AckDequeue, requests, peer, CountShape
<1>14. ASSUME CallHandler PROVE CountShape'
  BY <1>14, OpelAssumption DEF CallHandler, requests, peer, CountShape
<1>15. ASSUME AckDrop PROVE CountShape'
  BY <1>15, OpelAssumption DEF AckDrop, requests, peer, CountShape
<1>16. ASSUME AckTest PROVE CountShape'
  BY <1>16, OpelAssumption DEF AckTest, requests, peer, CountShape
<1>17. ASSUME UsesDeleted PROVE CountShape'
  BY <1>17, OpelAssumption DEF UsesDeleted, Undefined, requests, peer, CountShape
<1>18. ASSUME ReadMessage PROVE CountShape'
  BY <1>18, OpelAssumption DEF ReadMessage, requests, CountShape
<1>19. ASSUME ReadFails PROVE CountShape'
  BY <1>19, OpelAssumption DEF ReadFails, requests, CountShape
<1>20. ASSUME NEW i \in 1 .. N, NEW kind \in {"part", "last"}, ReadAnswer(i, kind)
       PROVE  CountShape'
  <2>1. answers' = [answers EXCEPT ![i] = Append(@, kind)]
    BY <1>20 DEF ReadAnswer
  <2>2. answers[i] \in Seq({"part", "last"})
    BY DEF CountShape
  <2>3. Append(answers[i], kind) \in Seq({"part", "last"})
    BY <2>2
  <2>4. answers' \in [1 .. N -> Seq({"part", "last"})]
    BY <2>1, <2>3 DEF CountShape
  <2> QED
    BY <1>20, <2>4 DEF ReadAnswer, requests, CountShape
<1>21. ASSUME ReadInsert PROVE CountShape'
  BY <1>21, OpelAssumption DEF ReadInsert, requests, peer, CountShape
<1>22. ASSUME ReadRelease PROVE CountShape'
  BY <1>22, OpelAssumption DEF ReadRelease, requests, peer, CountShape
<1>23. ASSUME CountsRace PROVE CountShape'
  BY <1>23, OpelAssumption DEF CountsRace, Undefined, requests, peer, CountShape
<1>24. ASSUME ReadTest PROVE CountShape'
  BY <1>24, OpelAssumption DEF ReadTest, requests, peer, CountShape
<1>25. ASSUME WriteBegins PROVE CountShape'
  BY <1>25, OpelAssumption DEF WriteBegins, requests, peer, CountShape
<1>26. ASSUME WriteTake PROVE CountShape'
  BY <1>26, OpelAssumption DEF WriteTake, requests, peer, CountShape
<1>27. ASSUME WriteDone PROVE CountShape'
  <2>1. held["write"] \in Cells
    BY <1>27 DEF WriteDone, QueueShape
  <2>2. held["write"][1] = "packet" => held["write"][2] \in 1 .. N
    BY <2>1, CellKinds
  <2>3. \/ sent' = sent
        \/ /\ held["write"][2] \in 1 .. N
           /\ sent' = [sent EXCEPT ![held["write"][2]] = @ + 1]
    BY <1>27, <2>2 DEF WriteDone
  <2>4. sent' \in [1 .. N -> Nat]
    BY <2>3 DEF CountShape
  <2> QED
    BY <1>27, <2>4 DEF WriteDone, CountShape, peer
<1>28. ASSUME WriteFails PROVE CountShape'
  BY <1>28, OpelAssumption DEF WriteFails, requests, peer, CountShape
<1>29. ASSUME TimedOut PROVE CountShape'
  BY <1>29, OpelAssumption DEF TimedOut, requests, peer, CountShape
<1>30. ASSUME Woken PROVE CountShape'
  BY <1>30, OpelAssumption DEF Woken, requests, peer, CountShape
<1>31. CASE UNCHANGED vars
  BY <1>31 DEF vars, requests, peer, CountShape
<1> QED
  BY <1>1, <1>2, <1>3, <1>4, <1>5, <1>6, <1>7, <1>8, <1>9, <1>10, <1>11, <1>12, <1>13,
     <1>14, <1>15, <1>16, <1>17, <1>18, <1>19, <1>20, <1>21, <1>22, <1>23, <1>24, <1>25,
     <1>26, <1>27, <1>28, <1>29, <1>30, <1>31 DEF Next, Main, Reader, ReaderGoesOn,
     Writer

LEMMA WorksStep ==
  ASSUME IInv, [Next]_vars
  PROVE  WorksOK'
<1> USE DEF IInv, Shape
<1>1. ASSUME Start PROVE WorksOK'
  BY <1>1, PutIn, TakeOut DEF Start, First, queues, WorksShape, MainShape, QueueShape,
     WorksOK, NothingStranded, Rest, Reading, Acking, Calls, Works, WritePlaces
<1>2. ASSUME Connect PROVE WorksOK'
  BY <1>2, PutIn, TakeOut DEF Connect, Goto, queues, WorksShape, MainShape, QueueShape,
     WorksOK, NothingStranded, Rest, Reading, Acking, Calls, Works, WritePlaces
<1>3. ASSUME Submit PROVE WorksOK'
  BY <1>3, PutIn, TakeOut DEF Submit, queues, WorksShape, MainShape, QueueShape,
     WorksOK, NothingStranded, Rest, Reading, Acking, Calls, Works, WritePlaces
<1>4. ASSUME Put PROVE WorksOK'
  BY <1>4, PutIn, TakeOut DEF Put, WorksShape, MainShape, QueueShape, WorksOK,
     NothingStranded, Rest, Reading, Acking, Calls, Works, WritePlaces
<1>5. ASSUME Check PROVE WorksOK'
  BY <1>5, PutIn, TakeOut DEF Check, queues, WorksShape, MainShape, QueueShape, WorksOK,
     NothingStranded, Rest, Reading, Acking, Calls, Works, WritePlaces
<1>6. ASSUME AfterConnect PROVE WorksOK'
  <2>1. pool' = pool \/ pool' = Append(Append(pool, "read"), "ra")
    BY <1>6, PutInTwo DEF AfterConnect, Works, WorksShape
  <2>2. at' = [at EXCEPT !["connect"] = "off"] /\ at["connect"] = "done"
    BY <1>6 DEF AfterConnect, Goto
  <2>3. /\ at'["connect"] = "off" /\ at'["write"] = at["write"]
        /\ at'["read"] = at["read"] /\ at'["ra"] = at["ra"]
    BY <2>2 DEF WorksShape, Works
  <2>4. \A w \in Works : at[w] = "off" => at'[w] = "off"
    BY <2>2 DEF WorksShape, Works
  <2>5. ToSet(pool) \subseteq Works /\ pool \in Seq(Works)
    BY DEF WorksShape, ToSet
  <2>6. CASE pool' = pool
    <3>1. conn' = conn \/ (conn = "made" /\ conn' = "up" /\ pool' = pool \o <<"read", "ra">>)
      BY <1>6 DEF AfterConnect
    <3>2. Len(pool \o <<"read", "ra">>) = Len(pool) + 2 /\ Len(pool) \in Nat
      BY <2>5
    <3>3. conn' = conn
      BY <3>1, <3>2, <2>6
    <3> QED
      BY <1>6, <2>3, <2>4, <2>5, <2>6, <3>3 DEF AfterConnect, WorksShape, MainShape,
         QueueShape, WorksOK, NothingStranded, Rest, Reading, Acking, Calls, queues,
         Works, WritePlaces
  <2>7. CASE pool' = Append(Append(pool, "read"), "ra")
    <3>1. conn = "made" /\ conn' = "up"
      <4>1. conn = "made" \/ pool' = pool
        BY <1>6 DEF AfterConnect
      <4>2. Len(Append(Append(pool, "read"), "ra")) = Len(pool) + 2 /\ Len(pool) \in Nat
        BY <2>5
      <4> QED
        BY <1>6, <2>7, <4>1, <4>2 DEF AfterConnect
    <3>2. Rest("read") /\ Rest("ra")
      BY <3>1 DEF WorksOK
    <3>3. /\ Append(pool, "read") \in Seq(Works)
          /\ ToSet(Append(pool, "read")) = ToSet(pool) \cup {"read"}
          /\ IsInjective(Append(pool, "read"))
      BY <2>5, <3>2, PutIn, PlaceNames DEF Rest, WorksOK
    <3>4. "ra" \notin ToSet(Append(pool, "read"))
      BY <3>2, <3>3 DEF Rest
    <3>5. /\ ToSet(pool') = ToSet(pool) \cup {"read", "ra"}
          /\ IsInjective(pool')
      <4>1. /\ ToSet(Append(Append(pool, "read"), "ra")) = ToSet(Append(pool, "read")) \cup {"ra"}
            /\ IsInjective(Append(Append(pool, "read"), "ra"))
        <5> DEFINE q == Append(pool, "read")
        <5>1. q \in Seq(Works) /\ "ra" \notin ToSet(q) /\ IsInjective(q) /\ "ra" \in Works
          BY <3>3, <3>4, PlaceNames
        <5> HIDE DEF q
        <5>2. ToSet(Append(q, "ra")) = ToSet(q) \cup {"ra"} /\ IsInjective(Append(q, "ra"))
          BY <5>1, PutIn
        <5> QED
          BY <5>2 DEF q
      <4>2. ToSet(pool') = ToSet(Append(pool, "read")) \cup {"ra"} /\ IsInjective(pool')
        BY <4>1, <2>7, Zenon
      <4> QED
        BY <4>2, <3>3
    <3>6. main' = main /\ writeQ' = writeQ /\ writeAlive' = writeAlive
      BY <1>6 DEF AfterConnect, queues
    <3>7. ~ Reading /\ ~ Acking
      BY <3>1 DEF WorksOK
    <3>8. ~ Reading' /\ ~ Acking'
      BY <3>6, <3>7 DEF Reading, Acking, Calls
    <3>9. Rest("write")' <=> Rest("write")
      BY <2>3, <3>5 DEF Rest
    <3> HIDE DEF Reading, Acking
    <3>10. "write" \in ToSet(pool') <=> "write" \in ToSet(pool)
      BY <3>5
    <3>11. "connect" \in ToSet(pool') => conn' = "none"
      <4>1. ~ ("connect" \in ToSet(pool))
        BY <3>1 DEF WorksOK
      <4> QED
        BY <3>5, <4>1
    <3>12. \A w \in ToSet(pool') : at'[w] = "off"
      BY <2>3, <2>4, <2>5, <3>2, <3>5 DEF Rest, WorksOK
    <3> QED
      BY <2>3, <3>1, <3>5, <3>6, <3>8, <3>9, <3>10, <3>11, <3>12 DEF WorksOK,
         NothingStranded
  <2> QED
    BY <2>1, <2>6, <2>7
<1>7. ASSUME AfterWrite PROVE WorksOK'
  <2>1. /\ at' = [at EXCEPT !["write"] = "off"] /\ at["write"] = "done"
        /\ main.at = "loop" /\ main' = main
        /\ writeAlive' = FALSE /\ writeQ' = writeQ /\ conn' = conn
        /\ pool' = IF writeQ # <<>> THEN Append(pool, "write") ELSE pool
    BY <1>7 DEF AfterWrite, Goto, queues
  <2>2. /\ at'["write"] = "off" /\ at'["connect"] = at["connect"]
        /\ at'["read"] = at["read"] /\ at'["ra"] = at["ra"]
    BY <2>1 DEF WorksShape, Works
  <2>3. \A w \in Works : at[w] = "off" => at'[w] = "off"
    BY <2>1 DEF WorksShape, Works
  <2>4. ToSet(pool) \subseteq Works /\ pool \in Seq(Works) /\ "write" \in Works
    BY DEF WorksShape, ToSet, Works
  <2>5. "write" \notin ToSet(pool)
    BY <2>1 DEF WorksOK
  <2>6. /\ IsInjective(pool')
        /\ ToSet(pool') = IF writeQ # <<>> THEN ToSet(pool) \cup {"write"} ELSE ToSet(pool)
    <3>1. ToSet(Append(pool, "write")) = ToSet(pool) \cup {"write"} /\ IsInjective(Append(pool, "write"))
      BY <2>4, <2>5, PutIn DEF WorksOK
    <3>2. CASE writeQ # <<>>
      <4>1. pool' = Append(pool, "write")
        BY <2>1, <3>2
      <4>2. ToSet(pool') = ToSet(pool) \cup {"write"} /\ IsInjective(pool')
        BY <3>1, <4>1, Zenon
      <4> QED
        BY <3>2, <4>2
    <3>3. CASE writeQ = <<>>
      <4>1. pool' = pool /\ IsInjective(pool)
        BY <2>1, <3>3 DEF WorksOK
      <4> QED
        BY <4>1, <3>3
    <3> QED
      BY <3>2, <3>3
  <2>7. \A w \in ToSet(pool') : at'[w] = "off"
    BY <2>2, <2>3, <2>4, <2>6 DEF WorksOK
  <2>8. \A w \in {"connect", "read", "ra"} : w \in ToSet(pool') <=> w \in ToSet(pool)
    BY <2>6
  <2>9. (Rest("read")' <=> Rest("read")) /\ (Rest("ra")' <=> Rest("ra"))
    BY <2>2, <2>8 DEF Rest
  <2>10. ~ Reading' /\ ~ Acking' /\ main'.at \notin {"put", "check"}
    BY <2>1 DEF Reading, Acking, Calls
  <2>11. "write" \in ToSet(pool') <=> writeQ # <<>>
    BY <2>5, <2>6
  <2> QED
    BY <2>1, <2>2, <2>6, <2>7, <2>8, <2>9, <2>10, <2>11 DEF WorksOK, NothingStranded
<1>8. ASSUME AfterRead PROVE WorksOK'
  BY <1>8, PutIn, TakeOut DEF AfterRead, AfterBegins, Goto, queues, WorksShape,
     MainShape, QueueShape, WorksOK, NothingStranded, Rest, Reading, Acking, Calls,
     Works, WritePlaces
<1>9. ASSUME AfterRa PROVE WorksOK'
  BY <1>9, PutIn, TakeOut DEF AfterRa, AfterBegins, Goto, queues, WorksShape, MainShape,
     QueueShape, WorksOK, NothingStranded, Rest, Reading, Acking, Calls, Works,
     WritePlaces
<1>10. ASSUME ReadsEnd PROVE WorksOK'
  BY <1>10, PutIn, TakeOut DEF ReadsEnd, AfterEnds, queues, WorksShape, MainShape,
     QueueShape, WorksOK, NothingStranded, Rest, Reading, Acking, Calls, Works,
     WritePlaces
<1>11. ASSUME AcksEnd PROVE WorksOK'
  BY <1>11, PutIn, TakeOut DEF AcksEnd, AfterEnds, queues, WorksShape, MainShape,
     QueueShape, WorksOK, NothingStranded, Rest, Reading, Acking, Calls, Works,
     WritePlaces
<1>12. ASSUME NEW replies \in BOOLEAN, HandleMessage(replies) PROVE WorksOK'
  BY <1>12, PutIn, TakeOut DEF HandleMessage, WorksShape, MainShape, QueueShape,
     WorksOK, NothingStranded, Rest, Reading, Acking, Calls, Works, WritePlaces
<1>13. ASSUME AckDequeue PROVE WorksOK'
  BY <1>13, PutIn, TakeOut DEF AckDequeue, WorksShape, MainShape, QueueShape, WorksOK,
     NothingStranded, Rest, Reading, Acking, Calls, Works, WritePlaces
<1>14. ASSUME CallHandler PROVE WorksOK'
  BY <1>14, PutIn, TakeOut DEF CallHandler, queues, WorksShape, MainShape, QueueShape,
     WorksOK, NothingStranded, Rest, Reading, Acking, Calls, Works, WritePlaces
<1>15. ASSUME AckDrop PROVE WorksOK'
  BY <1>15, PutIn, TakeOut DEF AckDrop, queues, WorksShape, MainShape, QueueShape,
     WorksOK, NothingStranded, Rest, Reading, Acking, Calls, Works, WritePlaces
<1>16. ASSUME AckTest PROVE WorksOK'
  BY <1>16, PutIn, TakeOut DEF AckTest, queues, WorksShape, MainShape, QueueShape,
     WorksOK, NothingStranded, Rest, Reading, Acking, Calls, Works, WritePlaces
<1>17. ASSUME UsesDeleted PROVE WorksOK'
  BY <1>17, PutIn, TakeOut DEF UsesDeleted, Undefined, threads, queues, WorksShape,
     MainShape, QueueShape, WorksOK, NothingStranded, Rest, Reading, Acking, Calls,
     Works, WritePlaces
<1>18. ASSUME ReadMessage PROVE WorksOK'
  BY <1>18, PutIn, TakeOut DEF ReadMessage, Goto, WorksShape, MainShape, QueueShape,
     WorksOK, NothingStranded, Rest, Reading, Acking, Calls, Works, WritePlaces
<1>19. ASSUME ReadFails PROVE WorksOK'
  BY <1>19, PutIn, TakeOut DEF ReadFails, Goto, WorksShape, MainShape, QueueShape,
     WorksOK, NothingStranded, Rest, Reading, Acking, Calls, Works, WritePlaces
<1>20. ASSUME NEW i \in 1 .. N, NEW kind \in {"part", "last"}, ReadAnswer(i, kind)
       PROVE  WorksOK'
  BY <1>20, PutIn, TakeOut DEF ReadAnswer, Signal, Goto, WorksShape, MainShape,
     QueueShape, WorksOK, NothingStranded, Rest, Reading, Acking, Calls, Works,
     WritePlaces
<1>21. ASSUME ReadInsert PROVE WorksOK'
  BY <1>21, PutIn, TakeOut DEF ReadInsert, Goto, queues, WorksShape, MainShape,
     QueueShape, WorksOK, NothingStranded, Rest, Reading, Acking, Calls, Works,
     WritePlaces
<1>22. ASSUME ReadRelease PROVE WorksOK'
  BY <1>22, PutIn, TakeOut DEF ReadRelease, Goto, queues, WorksShape, MainShape,
     QueueShape, WorksOK, NothingStranded, Rest, Reading, Acking, Calls, Works,
     WritePlaces
<1>23. ASSUME CountsRace PROVE WorksOK'
  BY <1>23, PutIn, TakeOut DEF CountsRace, Undefined, threads, queues, WorksShape,
     MainShape, QueueShape, WorksOK, NothingStranded, Rest, Reading, Acking, Calls,
     Works, WritePlaces
<1>24. ASSUME ReadTest PROVE WorksOK'
  BY <1>24, PutIn, TakeOut DEF ReadTest, Goto, queues, WorksShape, MainShape,
     QueueShape, WorksOK, NothingStranded, Rest, Reading, Acking, Calls, Works,
     WritePlaces
<1>25. ASSUME WriteBegins PROVE WorksOK'
  BY <1>25, PutIn, TakeOut DEF WriteBegins, Goto, queues, WorksShape, MainShape,
     QueueShape, WorksOK, NothingStranded, Rest, Reading, Acking, Calls, Works,
     WritePlaces
<1>26. ASSUME WriteTake PROVE WorksOK'
  BY <1>26, PutIn, TakeOut DEF WriteTake, Goto, WorksShape, MainShape, QueueShape,
     WorksOK, NothingStranded, Rest, Reading, Acking, Calls, Works, WritePlaces
<1>27. ASSUME WriteDone PROVE WorksOK'
  BY <1>27, PutIn, TakeOut DEF WriteDone, Goto, WorksShape, MainShape, QueueShape,
     WorksOK, NothingStranded, Rest, Reading, Acking, Calls, Works, WritePlaces
<1>28. ASSUME WriteFails PROVE WorksOK'
  BY <1>28, PutIn, TakeOut DEF WriteFails, Signal, Goto, WorksShape, MainShape,
     QueueShape, WorksOK, NothingStranded, Rest, Reading, Acking, Calls, Works,
     WritePlaces
<1>29. ASSUME TimedOut PROVE WorksOK'
  <2>1. UNCHANGED <<conn, pool, writeAlive, main, writeQ>> /\ at["ra"] = "wait"
    BY <1>29 DEF TimedOut
  <2>2. at'["write"] = at["write"] /\ at'["connect"] = at["connect"] /\ at'["read"] = at["read"]
        /\ at'["ra"] \in {"wait", "done"}
    <3>1. Goto("ra", "wait") \/ Goto("ra", "done")
      BY <1>29 DEF TimedOut
    <3> QED
      BY <3>1, GotoIs, PlaceNames
  <2>3. "ra" \notin ToSet(pool) /\ ~ Acking
    BY <2>1 DEF WorksOK, Rest
  <2>4. \A w \in ToSet(pool) : at'[w] = "off"
    BY <2>2, <2>3 DEF WorksOK, WorksShape, ToSet, Works
  <2>5. conn \in {"up", "lost"}
    BY <2>1 DEF WorksOK, Rest
  <2>6. ~ Acking' /\ (Reading' <=> Reading)
    BY <2>1, <2>3 DEF Reading, Acking, Calls
  <2>7. (Rest("read")' <=> Rest("read")) /\ (Rest("write")' <=> Rest("write"))
    BY <2>1, <2>2 DEF Rest
  <2> QED
    BY <2>1, <2>2, <2>4, <2>5, <2>6, <2>7 DEF WorksOK, NothingStranded
<1>30. ASSUME Woken PROVE WorksOK'
  BY <1>30, PutIn, TakeOut DEF Woken, Goto, queues, WorksShape, MainShape, QueueShape,
     WorksOK, NothingStranded, Rest, Reading, Acking, Calls, Works, WritePlaces
<1>31. CASE UNCHANGED vars
  BY <1>31 DEF vars, threads, queues, WorksShape, MainShape, QueueShape, WorksOK,
     NothingStranded, Rest, Reading, Acking, Calls, Works, WritePlaces
<1> QED
  BY <1>1, <1>2, <1>3, <1>4, <1>5, <1>6, <1>7, <1>8, <1>9, <1>10, <1>11, <1>12, <1>13,
     <1>14, <1>15, <1>16, <1>17, <1>18, <1>19, <1>20, <1>21, <1>22, <1>23, <1>24, <1>25,
     <1>26, <1>27, <1>28, <1>29, <1>30, <1>31 DEF Next, Main, Reader, ReaderGoesOn,
     Writer

LEMMA KnownStep ==
  ASSUME IInv, [Next]_vars
  PROVE  KnownOK'
<1> USE DEF IInv, Shape
<1>1. ASSUME Start PROVE KnownOK'
  BY <1>1 DEF Start, First, queues, requests, KnownOK, Known, WorksShape, MainShape,
     Works
<1>2. ASSUME Connect PROVE KnownOK'
  BY <1>2 DEF Connect, Goto, queues, requests, KnownOK, Known, WorksShape, MainShape,
     Works
<1>3. ASSUME Submit PROVE KnownOK'
  <2> DEFINE b == (writeQ = <<>>)
             d == Packet(asked + 1, 1)
  <2>1. /\ main' = [main EXCEPT !.at = "put", !.new = d, !.empty = b, !.back = main.at]
        /\ asked' = asked + 1 /\ UNCHANGED <<at, held, writeQ, sent>>
    BY <1>3 DEF Submit, queues
  <2>2. asked \in Nat
    BY OpelAssumption DEF CountShape
  <2>3. d[1] = "packet" /\ d[2] = asked + 1
    BY DEF Packet
  <2> HIDE DEF b, d
  <2>4. main'.new = d
    BY <2>1 DEF MainShape
  <2>5. ASSUME NEW c \in Cells, Known(c, asked) PROVE Known(c, asked')
    BY <2>1, <2>2, <2>5, CellKinds DEF Known, ReqId
  <2>6. ToSet(writeQ) \subseteq Cells
    BY DEF QueueShape, ToSet
  <2>7. Known(main'.new, asked')
    BY <2>1, <2>2, <2>3, <2>4 DEF Known, ReqId
  <2>8. at'["write"] = "writing" => Known(held'["write"], asked')
    BY <2>1, <2>5 DEF KnownOK, QueueShape
  <2>9. \A c \in ToSet(writeQ') : Known(c, asked')
    BY <2>1, <2>5, <2>6 DEF KnownOK
  <2>10. \A i \in 1 .. N : sent'[i] > 0 => i <= asked'
    BY <2>1, <2>2 DEF KnownOK
  <2> QED
    BY <2>7, <2>8, <2>9, <2>10 DEF KnownOK
<1>4. ASSUME Put PROVE KnownOK'
  <2>1. /\ writeQ' = Append(writeQ, main.new) /\ main.at = "put" /\ main'.at = "check"
        /\ UNCHANGED <<at, held, asked, sent>>
    BY <1>4 DEF Put, requests, MainShape
  <2>2. ToSet(writeQ') = ToSet(writeQ) \cup {main.new}
    BY <2>1, PutIn DEF QueueShape, MainShape
  <2> QED
    BY <2>1, <2>2 DEF KnownOK, Known
<1>5. ASSUME Check PROVE KnownOK'
  <2>1. /\ UNCHANGED <<at, held, writeQ, asked, sent>>
        /\ main' = [main EXCEPT !.at = main.back, !.empty = FALSE, !.back = "loop"]
    BY <1>5 DEF Check, queues, requests
  <2>2. main'.at # "put"
    BY <1>5, <2>1 DEF Check, WorksOK, MainShape
  <2> QED
    BY <2>1, <2>2 DEF KnownOK, Known
<1>6. ASSUME AfterConnect PROVE KnownOK'
  BY <1>6 DEF AfterConnect, Goto, queues, requests, KnownOK, Known, WorksShape,
     MainShape, Works
<1>7. ASSUME AfterWrite PROVE KnownOK'
  BY <1>7 DEF AfterWrite, Goto, queues, requests, KnownOK, Known, WorksShape, MainShape,
     Works
<1>8. ASSUME AfterRead PROVE KnownOK'
  BY <1>8 DEF AfterRead, AfterBegins, Goto, queues, requests, KnownOK, Known,
     WorksShape, MainShape, Works
<1>9. ASSUME AfterRa PROVE KnownOK'
  BY <1>9 DEF AfterRa, AfterBegins, Goto, queues, requests, KnownOK, Known, WorksShape,
     MainShape, Works
<1>10. ASSUME ReadsEnd PROVE KnownOK'
  BY <1>10 DEF ReadsEnd, AfterEnds, queues, requests, KnownOK, Known, WorksShape,
     MainShape, Works
<1>11. ASSUME AcksEnd PROVE KnownOK'
  BY <1>11 DEF AcksEnd, AfterEnds, queues, requests, KnownOK, Known, WorksShape,
     MainShape, Works
<1>12. ASSUME NEW replies \in BOOLEAN, HandleMessage(replies) PROVE KnownOK'
  <2> DEFINE b == (writeQ = <<>>)
             d == Reply(ReqId(Head(readQ)))
  <2>1. \/ main' = main
        \/ main' = [main EXCEPT !.at = "put", !.new = d, !.empty = b, !.back = "reads"]
    BY <1>12 DEF HandleMessage
  <2>2. UNCHANGED <<at, held, writeQ, asked, sent>>
    BY <1>12 DEF HandleMessage, requests
  <2>3. d[1] = "reply"
    BY DEF Reply
  <2> HIDE DEF b, d
  <2>4. Known(d, asked')
    BY <2>3 DEF Known
  <2>5. main'.at = "put" => Known(main'.new, asked')
    BY <2>1, <2>2, <2>4 DEF MainShape, KnownOK, Known
  <2> QED
    BY <2>2, <2>5 DEF KnownOK, Known
<1>13. ASSUME AckDequeue PROVE KnownOK'
  BY <1>13 DEF AckDequeue, requests, KnownOK, Known, WorksShape, MainShape, Works
<1>14. ASSUME CallHandler PROVE KnownOK'
  BY <1>14 DEF CallHandler, queues, requests, KnownOK, Known, WorksShape, MainShape,
     Works
<1>15. ASSUME AckDrop PROVE KnownOK'
  BY <1>15 DEF AckDrop, queues, requests, KnownOK, Known, WorksShape, MainShape, Works
<1>16. ASSUME AckTest PROVE KnownOK'
  BY <1>16 DEF AckTest, queues, requests, KnownOK, Known, WorksShape, MainShape, Works
<1>17. ASSUME UsesDeleted PROVE KnownOK'
  BY <1>17 DEF UsesDeleted, Undefined, threads, queues, requests, KnownOK, Known,
     WorksShape, MainShape, Works
<1>18. ASSUME ReadMessage PROVE KnownOK'
  BY <1>18 DEF ReadMessage, Goto, requests, KnownOK, Known, WorksShape, MainShape, Works
<1>19. ASSUME ReadFails PROVE KnownOK'
  BY <1>19 DEF ReadFails, Goto, requests, KnownOK, Known, WorksShape, MainShape, Works
<1>20. ASSUME NEW i \in 1 .. N, NEW kind \in {"part", "last"}, ReadAnswer(i, kind)
       PROVE  KnownOK'
  BY <1>20 DEF ReadAnswer, Goto, requests, KnownOK, Known, WorksShape, MainShape, Works
<1>21. ASSUME ReadInsert PROVE KnownOK'
  BY <1>21 DEF ReadInsert, Insert, Goto, queues, requests, KnownOK, Known, WorksShape,
     MainShape, Works
<1>22. ASSUME ReadRelease PROVE KnownOK'
  BY <1>22 DEF ReadRelease, Goto, queues, requests, KnownOK, Known, WorksShape,
     MainShape, Works
<1>23. ASSUME CountsRace PROVE KnownOK'
  BY <1>23 DEF CountsRace, Undefined, threads, queues, requests, KnownOK, Known,
     WorksShape, MainShape, Works
<1>24. ASSUME ReadTest PROVE KnownOK'
  BY <1>24 DEF ReadTest, Goto, queues, requests, KnownOK, Known, WorksShape, MainShape,
     Works
<1>25. ASSUME WriteBegins PROVE KnownOK'
  BY <1>25 DEF WriteBegins, Goto, queues, requests, KnownOK, Known, WorksShape,
     MainShape, Works
<1>26. ASSUME WriteTake PROVE KnownOK'
  <2>1. /\ writeQ' = Tail(writeQ) /\ writeQ # <<>> /\ held' = [held EXCEPT !["write"] = Head(writeQ)]
        /\ UNCHANGED <<main, asked, sent>>
    BY <1>26 DEF WriteTake, requests
  <2>2. ToSet(writeQ) = {Head(writeQ)} \cup ToSet(writeQ')
    BY <2>1, TakeOut DEF QueueShape
  <2>3. held'["write"] = Head(writeQ)
    BY <2>1 DEF QueueShape
  <2> QED
    BY <2>1, <2>2, <2>3 DEF KnownOK, Known
<1>27. ASSUME WriteDone PROVE KnownOK'
  <2> DEFINE c == held["write"]
             next == Packet(c[2], c[3] + 1)
  <2>1. /\ (writeQ' = Append(writeQ, next) /\ HasNext(c)) \/ writeQ' = writeQ
        /\ UNCHANGED <<main, asked>> /\ at["write"] = "writing" /\ Goto("write", "done")
        /\ sent' = IF c[1] = "packet" THEN [sent EXCEPT ![c[2]] = @ + 1] ELSE sent
    BY <1>27 DEF WriteDone
  <2>2. c \in Cells /\ Known(c, asked)
    BY <2>1 DEF QueueShape, KnownOK
  <2>3. HasNext(c) => next \in Cells /\ Known(next, asked)
    <3>1. ASSUME HasNext(c) PROVE next \in Cells /\ Known(next, asked)
      <4>1. c[1] = "packet" /\ c[2] \in 1 .. N /\ c[3] \in 1 .. Size[c[2]] /\ c[3] < Size[c[2]]
        BY <2>2, <3>1, CellKinds DEF HasNext
      <4>2. Size[c[2]] \in Nat
        BY <4>1, OpelAssumption
      <4>3. c[3] + 1 \in 1 .. Size[c[2]]
        BY <4>1, <4>2
      <4>4. next[2] = c[2]
        BY DEF Packet
      <4> QED
        BY <2>2, <4>1, <4>3, <4>4, CellsMade DEF Known, ReqId
    <3> QED
      BY <3>1
  <2>4. at'["write"] = "done"
    BY <2>1, GotoIs, PlaceNames DEF Places, WritePlaces
  <2>5. ASSUME NEW i \in 1 .. N, sent'[i] > 0 PROVE i <= asked
    <3>1. sent'[i] = sent[i] \/ (c[1] = "packet" /\ c[2] = i)
      BY <2>1 DEF CountShape
    <3> QED
      BY <2>2, <2>5, <3>1 DEF KnownOK, Known, ReqId
  <2> HIDE DEF c, next
  <2>6. /\ ToSet(writeQ') \subseteq ToSet(writeQ) \cup {next}
        /\ HasNext(c) \/ ToSet(writeQ') = ToSet(writeQ)
    BY <2>1, <2>3, PutIn DEF QueueShape
  <2>7. \A d \in ToSet(writeQ') : Known(d, asked)
    BY <2>3, <2>6 DEF KnownOK
  <2> QED
    BY <2>1, <2>4, <2>5, <2>7 DEF KnownOK, Known
<1>28. ASSUME WriteFails PROVE KnownOK'
  BY <1>28 DEF WriteFails, Goto, requests, KnownOK, Known, WorksShape, MainShape, Works
<1>29. ASSUME TimedOut PROVE KnownOK'
  BY <1>29 DEF TimedOut, Goto, requests, KnownOK, Known, WorksShape, MainShape, Works
<1>30. ASSUME Woken PROVE KnownOK'
  BY <1>30 DEF Woken, Goto, queues, requests, KnownOK, Known, WorksShape, MainShape,
     Works
<1>31. CASE UNCHANGED vars
  BY <1>31 DEF vars, threads, queues, requests, KnownOK, Known, WorksShape, MainShape,
     Works
<1> QED
  BY <1>1, <1>2, <1>3, <1>4, <1>5, <1>6, <1>7, <1>8, <1>9, <1>10, <1>11, <1>12, <1>13,
     <1>14, <1>15, <1>16, <1>17, <1>18, <1>19, <1>20, <1>21, <1>22, <1>23, <1>24, <1>25,
     <1>26, <1>27, <1>28, <1>29, <1>30, <1>31 DEF Next, Main, Reader, ReaderGoesOn,
     Writer

(* The req_set after signal and wait, and after insert.                    *)
LEMMA Fewer ==
  ASSUME NEW f, NEW g, NEW n \in Nat, Waiting(f, n), \A s \in Slots : g[s] = f[s] \/ g[s] = Free
  PROVE  Waiting(g, n) /\ \A c : Apart(f, c) => Apart(g, c)
BY DEF Waiting, Apart

LEMMA OneMore ==
  ASSUME NEW f \in [Slots -> Cells \cup {Free}], NEW n \in Nat, Waiting(f, n),
         NEW c \in Cells, Apart(f, c), c[1] \in {"entry", "answer"}, ReqId(c) <= n, NEW t, NEW g,
         g = [f EXCEPT ![t] = c]
  PROVE  Waiting(g, n)
<1>1. c # Free
  BY FreeAssumption
<1>2. \A s \in Slots : g[s] = f[s] \/ (g[s] = c /\ s = t)
  OBVIOUS
<1> QED
  BY <1>1, <1>2 DEF Waiting, Apart

LEMMA AfterSignal ==
  ASSUME NEW f, NEW g, NEW c, f \in [Slots -> Cells \cup {Free}],
         g = [s \in Slots |-> IF f[s] # Free /\ ReqId(f[s]) = ReqId(c) THEN Free ELSE f[s]]
  PROVE  Apart(g, c) /\ \A s \in Slots : g[s] = f[s] \/ g[s] = Free
BY DEF Apart

LEMMA SignalEmpties ==
  ASSUME SlotShape, NEW c, NEW count, Signal(c, count)
  PROVE  Apart(slots', c) /\ \A s \in Slots : slots'[s] = slots[s] \/ slots'[s] = Free
<1>1. slots' = [s \in Slots |-> IF s \in Matches(ReqId(c)) THEN Free ELSE slots[s]]
  BY DEF Signal
<1> QED
  BY <1>1, FreeAssumption DEF Matches, Apart

LEMMA WaitingStep ==
  ASSUME IInv, [Next]_vars
  PROVE  WaitingOK'
<1> USE DEF IInv, Shape
<1>1. ASSUME Start PROVE WaitingOK'
  BY <1>1 DEF Start, First, reqset, requests, WaitingOK, WorksShape, QueueShape, Works
<1>2. ASSUME Connect PROVE WaitingOK'
  BY <1>2 DEF Connect, Goto, reqset, requests, WaitingOK, WorksShape, QueueShape, Works
<1>3. ASSUME Submit PROVE WaitingOK'
  <2> DEFINE c == Entry(asked + 1)
  <2>1. asked \in Nat /\ asked' = asked + 1 /\ asked + 1 \in 1 .. N /\ UNCHANGED <<at, held>>
    BY <1>3, OpelAssumption DEF Submit, CountShape
  <2>2. c \in Cells /\ c[1] = "entry" /\ ReqId(c) = asked + 1
    BY <2>1, CellsMade DEF Entry, ReqId
  <2>3. slots' = slots \/ slots' = [slots EXCEPT ![Min(FreeSlots)] = c]
    BY <1>3 DEF Submit, Insert, reqset
  <2> HIDE DEF c
  <2>4. ASSUME NEW s \in Slots, slots[s] # Free
        PROVE  ReqId(slots[s]) \in 1 .. N /\ ReqId(slots[s]) <= asked
    <3>1. slots[s] \in Cells /\ slots[s][1] \in {"entry", "answer"} /\ ReqId(slots[s]) <= asked
      BY <2>4 DEF SlotShape, WaitingOK, Waiting
    <3> QED
      BY <3>1, CellKinds DEF ReqId
  <2>5. Waiting(slots, asked + 1)
    <3>1. \A s \in Slots : slots[s] # Free => ReqId(slots[s]) <= asked + 1
      BY <2>1, <2>4
    <3> QED
      BY <3>1 DEF WaitingOK, Waiting
  <2>6. Apart(slots, c)
    BY <2>1, <2>2, <2>4 DEF Apart
  <2>7. Waiting(slots', asked')
    <3>1. asked' \in Nat
      BY <2>1
    <3>2. Waiting(slots, asked')
      BY <2>1, <2>5
    <3>3. ReqId(c) <= asked'
      BY <2>1, <2>2
    <3>4. CASE slots' = slots
      BY <3>2, <3>4
    <3>5. CASE slots' = [slots EXCEPT ![Min(FreeSlots)] = c]
      <4> DEFINE t == Min(FreeSlots)
      <4>1. slots' = [slots EXCEPT ![t] = c]
        BY <3>5
      <4> HIDE DEF t
      <4> QED
        BY <3>1, <3>2, <3>3, <4>1, <2>2, <2>6, OneMore DEF SlotShape
    <3> QED
      BY <2>3, <3>4, <3>5
  <2>8. ASSUME at["read"] = "insert"
        PROVE  ReqId(held["read"]) <= asked' /\ Apart(slots', held["read"])
    <3>1. /\ held["read"] \in Cells /\ held["read"][1] = "answer" /\ ReqId(held["read"]) <= asked
          /\ Apart(slots, held["read"])
      BY <2>8 DEF WaitingOK, QueueShape
    <3>2. ReqId(held["read"]) \in 1 .. N
      BY <3>1, CellKinds DEF ReqId
    <3>3. \A s \in Slots : slots'[s] = slots[s] \/ slots'[s] = c
      BY <2>3 DEF SlotShape
    <3>4. ReqId(held["read"]) # ReqId(c)
      BY <2>1, <2>2, <3>1, <3>2
    <3> QED
      BY <2>1, <3>1, <3>2, <3>3, <3>4 DEF Apart
  <2> QED
    BY <2>1, <2>7, <2>8 DEF WaitingOK
<1>4. ASSUME Put PROVE WaitingOK'
  BY <1>4 DEF Put, reqset, requests, WaitingOK, WorksShape, QueueShape, Works
<1>5. ASSUME Check PROVE WaitingOK'
  BY <1>5 DEF Check, reqset, requests, WaitingOK, WorksShape, QueueShape, Works
<1>6. ASSUME AfterConnect PROVE WaitingOK'
  BY <1>6 DEF AfterConnect, Goto, reqset, requests, WaitingOK, WorksShape, QueueShape,
     Works
<1>7. ASSUME AfterWrite PROVE WaitingOK'
  BY <1>7 DEF AfterWrite, Goto, reqset, requests, WaitingOK, WorksShape, QueueShape,
     Works
<1>8. ASSUME AfterRead PROVE WaitingOK'
  BY <1>8 DEF AfterRead, AfterBegins, Goto, reqset, requests, WaitingOK, WorksShape,
     QueueShape, Works
<1>9. ASSUME AfterRa PROVE WaitingOK'
  BY <1>9 DEF AfterRa, AfterBegins, Goto, reqset, requests, WaitingOK, WorksShape,
     QueueShape, Works
<1>10. ASSUME ReadsEnd PROVE WaitingOK'
  BY <1>10 DEF ReadsEnd, AfterEnds, reqset, requests, WaitingOK, WorksShape, QueueShape,
     Works
<1>11. ASSUME AcksEnd PROVE WaitingOK'
  BY <1>11 DEF AcksEnd, AfterEnds, reqset, requests, WaitingOK, WorksShape, QueueShape,
     Works
<1>12. ASSUME NEW replies \in BOOLEAN, HandleMessage(replies) PROVE WaitingOK'
  BY <1>12 DEF HandleMessage, reqset, requests, WaitingOK, WorksShape, QueueShape, Works
<1>13. ASSUME AckDequeue PROVE WaitingOK'
  BY <1>13 DEF AckDequeue, reqset, requests, WaitingOK, WorksShape, QueueShape, Works
<1>14. ASSUME CallHandler PROVE WaitingOK'
  BY <1>14 DEF CallHandler, reqset, requests, WaitingOK, WorksShape, QueueShape, Works
<1>15. ASSUME AckDrop PROVE WaitingOK'
  BY <1>15 DEF AckDrop, reqset, requests, WaitingOK, WorksShape, QueueShape, Works
<1>16. ASSUME AckTest PROVE WaitingOK'
  BY <1>16 DEF AckTest, reqset, requests, WaitingOK, WorksShape, QueueShape, Works
<1>17. ASSUME UsesDeleted PROVE WaitingOK'
  BY <1>17 DEF UsesDeleted, Undefined, threads, reqset, requests, WaitingOK, WorksShape,
     QueueShape, Works
<1>18. ASSUME ReadMessage PROVE WaitingOK'
  BY <1>18 DEF ReadMessage, Goto, reqset, requests, WaitingOK, WorksShape, QueueShape,
     Works
<1>19. ASSUME ReadFails PROVE WaitingOK'
  BY <1>19 DEF ReadFails, Goto, reqset, requests, WaitingOK, WorksShape, QueueShape,
     Works
<1>20. ASSUME NEW i \in 1 .. N, NEW kind \in {"part", "last"}, ReadAnswer(i, kind)
       PROVE  WaitingOK'
  <2> DEFINE c == Answer(i, Len(answers[i]) + 1)
  <2>1. /\ asked' = asked /\ asked \in Nat /\ sent[i] > 0
        /\ held' = [held EXCEPT !["read"] = c] /\ Signal(c, 1)
    BY <1>20, OpelAssumption DEF ReadAnswer, CountShape, requests
  <2>2. c[1] = "answer" /\ ReqId(c) = i
    BY DEF Answer, ReqId
  <2> HIDE DEF c
  <2>3. i <= asked /\ held'["read"] = c
    BY <2>1 DEF KnownOK, QueueShape
  <2>4. Apart(slots', c) /\ \A s \in Slots : slots'[s] = slots[s] \/ slots'[s] = Free
    BY <2>1, SignalEmpties
  <2>5. Waiting(slots', asked')
    BY <2>1, <2>4, Fewer DEF WaitingOK
  <2> QED
    BY <2>1, <2>2, <2>3, <2>4, <2>5 DEF WaitingOK
<1>21. ASSUME ReadInsert PROVE WaitingOK'
  <2> DEFINE c == held["read"]
             t == Min(FreeSlots)
  <2>1. asked' = asked /\ asked \in Nat /\ Goto("read", "release") /\ at["read"] = "insert"
    BY <1>21, OpelAssumption DEF ReadInsert, CountShape, requests
  <2>2. at'["read"] # "insert"
    BY <2>1, GotoIs, PlaceNames
  <2>3. c \in Cells /\ c[1] = "answer" /\ ReqId(c) <= asked /\ Apart(slots, c)
    BY <2>1 DEF QueueShape, WaitingOK
  <2>4. slots' = slots \/ slots' = [slots EXCEPT ![t] = c]
    BY <1>21 DEF ReadInsert, Insert, reqset
  <2> HIDE DEF c, t
  <2>5. Waiting(slots', asked)
    BY <2>1, <2>3, <2>4, OneMore DEF SlotShape, WaitingOK
  <2> QED
    BY <2>1, <2>2, <2>5 DEF WaitingOK
<1>22. ASSUME ReadRelease PROVE WaitingOK'
  BY <1>22 DEF ReadRelease, Goto, reqset, requests, WaitingOK, WorksShape, QueueShape,
     Works
<1>23. ASSUME CountsRace PROVE WaitingOK'
  BY <1>23 DEF CountsRace, Undefined, threads, reqset, requests, WaitingOK, WorksShape,
     QueueShape, Works
<1>24. ASSUME ReadTest PROVE WaitingOK'
  BY <1>24 DEF ReadTest, Goto, reqset, requests, WaitingOK, WorksShape, QueueShape,
     Works
<1>25. ASSUME WriteBegins PROVE WaitingOK'
  BY <1>25 DEF WriteBegins, Goto, reqset, requests, WaitingOK, WorksShape, QueueShape,
     Works
<1>26. ASSUME WriteTake PROVE WaitingOK'
  <2>1. /\ UNCHANGED <<slots, asked>> /\ Goto("write", "writing")
        /\ held' = [held EXCEPT !["write"] = Head(writeQ)]
    BY <1>26 DEF WriteTake, reqset, requests
  <2>2. at'["read"] = at["read"] /\ held'["read"] = held["read"]
    BY <2>1, GotoIs, PlaceNames DEF Places, WritePlaces, QueueShape
  <2> QED
    BY <2>1, <2>2 DEF WaitingOK
<1>27. ASSUME WriteDone PROVE WaitingOK'
  <2>1. /\ UNCHANGED <<slots, asked>> /\ Goto("write", "done")
        /\ held' = [held EXCEPT !["write"] = Free]
    BY <1>27 DEF WriteDone
  <2>2. at'["read"] = at["read"] /\ held'["read"] = held["read"]
    BY <2>1, GotoIs, PlaceNames DEF Places, WritePlaces, QueueShape
  <2> QED
    BY <2>1, <2>2 DEF WaitingOK
<1>28. ASSUME WriteFails PROVE WaitingOK'
  <2>1. /\ asked' = asked /\ asked \in Nat /\ Goto("write", "done")
        /\ held' = [held EXCEPT !["write"] = Free] /\ Signal(held["write"], 0)
    BY <1>28, OpelAssumption DEF WriteFails, CountShape, requests
  <2>2. at'["read"] = at["read"] /\ held'["read"] = held["read"]
    BY <2>1, GotoIs, PlaceNames DEF Places, WritePlaces, QueueShape
  <2>3. \A s \in Slots : slots'[s] = slots[s] \/ slots'[s] = Free
    BY <2>1, SignalEmpties
  <2>4. Waiting(slots', asked) /\ (Apart(slots, held["read"]) => Apart(slots', held["read"]))
    BY <2>1, <2>3, Fewer DEF WaitingOK
  <2> QED
    BY <2>1, <2>2, <2>4 DEF WaitingOK
<1>29. ASSUME TimedOut PROVE WaitingOK'
  <2>1. /\ asked' = asked /\ asked \in Nat /\ held' = held /\ Expire
        /\ Goto("ra", "wait") \/ Goto("ra", "done")
    BY <1>29, OpelAssumption DEF TimedOut, CountShape, requests
  <2>2. at'["read"] = at["read"]
    BY <2>1, GotoIs, PlaceNames
  <2>3. \A s \in Slots : slots'[s] = slots[s] \/ slots'[s] = Free
    BY <2>1 DEF Expire
  <2>4. Waiting(slots', asked) /\ (Apart(slots, held["read"]) => Apart(slots', held["read"]))
    BY <2>1, <2>3, Fewer DEF WaitingOK
  <2> QED
    BY <2>1, <2>2, <2>4 DEF WaitingOK
<1>30. ASSUME Woken PROVE WaitingOK'
  BY <1>30 DEF Woken, Goto, reqset, requests, WaitingOK, WorksShape, QueueShape, Works
<1>31. CASE UNCHANGED vars
  BY <1>31 DEF vars, threads, reqset, requests, WaitingOK, WorksShape, QueueShape, Works
<1> QED
  BY <1>1, <1>2, <1>3, <1>4, <1>5, <1>6, <1>7, <1>8, <1>9, <1>10, <1>11, <1>12, <1>13,
     <1>14, <1>15, <1>16, <1>17, <1>18, <1>19, <1>20, <1>21, <1>22, <1>23, <1>24, <1>25,
     <1>26, <1>27, <1>28, <1>29, <1>30, <1>31 DEF Next, Main, Reader, ReaderGoesOn,
     Writer

LEMMA KeepsIInv ==
  ASSUME IInv, [Next]_vars
  PROVE  IInv'
BY WorksShapeStep, MainShapeStep, QueueShapeStep, SlotShapeStep, CountShapeStep, WorksStep,
   KnownStep, WaitingStep DEF IInv, Shape

LEMMA AlwaysIInv == Spec => []IInv
<1>1. Init => IInv
  BY InitInv
<1>2. ASSUME IInv, [Next]_vars PROVE IInv'
  BY <1>2, KeepsIInv
<1> QED
  BY <1>1, <1>2, PTL DEF Spec

-----------------------------------------------------------------------------
(* The theorems                                                            *)

(* The thread of the event loop and the works never queue a uv_work_t of   *)
(* the endpoint that libuv still has, and the write work finds a cell.     *)
THEOREM WorksAreQueuedOnce == Spec => []WorkOnce
<1>1. IInv => WorkOnce
  BY DEF IInv, WorksOK, WorkOnce
<1> QED
  BY <1>1, AlwaysIInv, PTL

(* A packet that msg_write, file_write or the write work itself put into   *)
(* write_queue always has a write work that is coming for it.              *)
THEOREM NoPacketIsStranded == Spec => []NothingStranded
<1>1. IInv => NothingStranded
  BY DEF IInv, WorksOK
<1> QED
  BY <1>1, AlwaysIInv, PTL

(* Two cells of the req_set never wait for the same request, so that       *)
(* signal links an answer into ack_queue at most once.                     *)
THEOREM AnswersAreLinkedOnce == Spec => []OneWaits
<1>1. ASSUME IInv, NEW id \in 1 .. N PROVE Cardinality(Matches(id)) <= 1
  <2>1. \A s, t \in Matches(id) : s = t
    BY <1>1 DEF IInv, WaitingOK, Waiting, Matches
  <2>2. CASE Matches(id) = {}
    BY <2>2, FS_EmptySet
  <2>3. CASE Matches(id) # {}
    <3>1. PICK s \in Matches(id) : TRUE
      BY <2>3
    <3>2. Matches(id) = {s}
      BY <2>1, <3>1
    <3> QED
      BY <3>2, FS_Singleton
  <2> QED
    BY <2>2, <2>3
<1>2. IInv => OneWaits
  BY <1>1 DEF OneWaits
<1> QED
  BY <1>2, AlwaysIInv, PTL

=============================================================================
