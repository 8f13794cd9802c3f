------------------------- MODULE OpelOutcomesProofs -------------------------
(***************************************************************************)
(* The proof that OpelClient implements Outcomes: whatever the threads do, *)
(* the handler of a request is told the parts of its answer in the order   *)
(* of the companion, then how it ended, and nothing after that.            *)
(***************************************************************************)
EXTENDS OpelCellsProofs

-----------------------------------------------------------------------------
(* The order of a queue                                                    *)

Ahead(q, c, d) == \E m, n \in DOMAIN q : m < n /\ q[m] = c /\ q[n] = d

LEMMA AheadInBoth ==
  ASSUME NEW S, NEW q \in Seq(S), NEW r \in Seq(S), NEW c, NEW d
  PROVE  Ahead(q \o r, c, d)
           <=> Ahead(q, c, d) \/ Ahead(r, c, d) \/ (c \in ToSet(q) /\ d \in ToSet(r))
<1> DEFINE a == Len(q)
           b == Len(r)
<1>1. /\ a \in Nat /\ b \in Nat /\ DOMAIN q = 1 .. a /\ DOMAIN r = 1 .. b
      /\ DOMAIN (q \o r) = 1 .. a + b
  BY ConcatProperties, LenProperties
<1>2. \A i \in 1 .. a + b : (q \o r)[i] = IF i <= a THEN q[i] ELSE r[i - a]
  BY ConcatProperties
<1>3. \A i \in 1 .. a : i \in 1 .. a + b /\ (q \o r)[i] = q[i]
  BY <1>1, <1>2
<1>4. \A i \in 1 .. b : i + a \in 1 .. a + b /\ (q \o r)[i + a] = r[i]
  <2> SUFFICES ASSUME NEW i \in 1 .. b
               PROVE  i + a \in 1 .. a + b /\ (q \o r)[i + a] = r[i]
    OBVIOUS
  <2>1. i + a \in 1 .. a + b /\ ~ (i + a <= a) /\ (i + a) - a = i
    BY <1>1
  <2> QED
    BY <1>2, <2>1
<1>5. \A i \in 1 .. a + b : i \in 1 .. a \/ \E j \in 1 .. b : i = j + a
  <2> SUFFICES ASSUME NEW i \in 1 .. a + b, i \notin 1 .. a
               PROVE  \E j \in 1 .. b : i = j + a
    OBVIOUS
  <2>1. i - a \in 1 .. b /\ i = (i - a) + a
    BY <1>1
  <2> QED
    BY <2>1
<1> HIDE DEF a, b
<1>6. Ahead(q, c, d) => Ahead(q \o r, c, d)
  BY <1>1, <1>3 DEF Ahead
<1>7. ASSUME Ahead(r, c, d) PROVE Ahead(q \o r, c, d)
  <2>1. PICK m \in 1 .. b, n \in 1 .. b : m < n /\ r[m] = c /\ r[n] = d
    BY <1>1, <1>7 DEF Ahead
  <2>2. m + a < n + a
    BY <1>1, <2>1
  <2> QED
    BY <1>1, <1>4, <2>1, <2>2 DEF Ahead
<1>8. ASSUME c \in ToSet(q), d \in ToSet(r) PROVE Ahead(q \o r, c, d)
  <2>1. PICK m \in 1 .. a : q[m] = c
    BY <1>1, <1>8 DEF ToSet
  <2>2. PICK n \in 1 .. b : r[n] = d
    BY <1>1, <1>8 DEF ToSet
  <2>3. m < n + a
    BY <1>1
  <2> QED
    BY <1>1, <1>3, <1>4, <2>1, <2>2, <2>3 DEF Ahead
<1>9. ASSUME Ahead(q \o r, c, d)
      PROVE  Ahead(q, c, d) \/ Ahead(r, c, d) \/ (c \in ToSet(q) /\ d \in ToSet(r))
  <2>1. PICK m \in 1 .. a + b, n \in 1 .. a + b : m < n /\ (q \o r)[m] = c /\ (q \o r)[n] = d
    BY <1>1, <1>9 DEF Ahead
  <2>2. CASE m \in 1 .. a /\ n \in 1 .. a
    BY <1>1, <1>3, <2>1, <2>2 DEF Ahead
  <2>3. CASE m \in 1 .. a /\ n \notin 1 .. a
    <3>1. PICK k \in 1 .. b : n = k + a
      BY <2>3, <1>5
    <3> QED
      BY <1>1, <1>3, <1>4, <2>1, <2>3, <3>1 DEF ToSet
  <2>4. CASE m \notin 1 .. a
    <3>1. PICK j \in 1 .. b : m = j + a
      BY <2>4, <1>5
    <3>2. n \notin 1 .. a
      BY <1>1, <2>1, <3>1
    <3>3. PICK k \in 1 .. b : n = k + a
      BY <3>2, <1>5
    <3>4. j < k
      BY <1>1, <2>1, <3>1, <3>3
    <3> QED
      BY <1>1, <1>4, <2>1, <3>1, <3>3, <3>4 DEF Ahead
  <2> QED
    BY <2>2, <2>3, <2>4
<1> QED
  BY <1>6, <1>7, <1>8, <1>9

LEMMA OneCell ==
  ASSUME NEW S, NEW e \in S
  PROVE  /\ <<e>> \in Seq(S) /\ ToSet(<<e>>) = {e}
         /\ \A c, d : ~ Ahead(<<e>>, c, d)
         /\ \A q \in Seq(S) : Append(q, e) = q \o <<e>>
<1>1. <<e>> \in Seq(S) /\ DOMAIN <<e>> = {1} /\ <<e>>[1] = e
  OBVIOUS
<1>2. ToSet(<<e>>) = {e}
  BY <1>1 DEF ToSet
<1>3. \A c, d : ~ Ahead(<<e>>, c, d)
  BY <1>1 DEF Ahead
<1>4. \A q \in Seq(S) : Append(q, e) = q \o <<e>>
  OBVIOUS
<1> QED
  BY <1>1, <1>2, <1>3, <1>4

(* A cell that comes last.                                                 *)
LEMMA AheadOfLast ==
  ASSUME NEW S, NEW q \in Seq(S), NEW e \in S, NEW c, NEW d
  PROVE  Ahead(Append(q, e), c, d) <=> Ahead(q, c, d) \/ (c \in ToSet(q) /\ d = e)
<1>1. <<e>> \in Seq(S) /\ Append(q, e) = q \o <<e>> /\ ToSet(<<e>>) = {e} /\ ~ Ahead(<<e>>, c, d)
  BY OneCell
<1>2. Ahead(q \o <<e>>, c, d)
        <=> Ahead(q, c, d) \/ Ahead(<<e>>, c, d) \/ (c \in ToSet(q) /\ d \in ToSet(<<e>>))
  BY <1>1, AheadInBoth
<1> QED
  BY <1>1, <1>2

(* A cell that comes first.                                                *)
LEMMA AheadOfAll ==
  ASSUME NEW S, NEW q \in Seq(S), NEW e \in S
  PROVE  /\ <<e>> \o q \in Seq(S) /\ ToSet(<<e>> \o q) = {e} \cup ToSet(q)
         /\ \A c, d : Ahead(<<e>> \o q, c, d) <=> Ahead(q, c, d) \/ (c = e /\ d \in ToSet(q))
<1>1. <<e>> \o q \in Seq(S) /\ ToSet(<<e>> \o q) = {e} \cup ToSet(q)
  <2> DEFINE p == <<e>>
  <2>1. p \in Seq(S) /\ ToSet(p) = {e}
    BY OneCell
  <2> HIDE DEF p
  <2>2. p \o q \in Seq(S) /\ ToSet(p \o q) = ToSet(p) \cup ToSet(q)
    BY <2>1, PutInAll
  <2>3. p \o q \in Seq(S) /\ ToSet(p \o q) = {e} \cup ToSet(q)
    BY <2>1, <2>2
  <2> QED
    BY <2>3 DEF p
<1>2. ASSUME NEW c, NEW d
      PROVE  Ahead(<<e>> \o q, c, d) <=> Ahead(q, c, d) \/ (c = e /\ d \in ToSet(q))
  BY OneCell, AheadInBoth
<1> QED
  BY <1>1, <1>2

(* A queue is its head and its tail.                                       *)
LEMMA HeadAndTail ==
  ASSUME NEW S, NEW q \in Seq(S), q # <<>>
  PROVE  <<Head(q)>> \o Tail(q) = q
<1>1. Head(q) \in S /\ Tail(q) \in Seq(S) /\ Len(Tail(q)) = Len(q) - 1
      /\ \A i \in 1 .. Len(q) - 1 : Tail(q)[i] = q[i + 1]
      /\ Head(q) = q[1] /\ Len(q) \in Nat \ {0}
  BY HeadTailProperties, EmptySeq
<1> QED
  BY <1>1

(* A cell that is ahead of one in a queue without repetitions is another.  *)
LEMMA AheadInQueue ==
  ASSUME NEW S, NEW q \in Seq(S), IsInjective(q), NEW c, NEW d, Ahead(q, c, d)
  PROVE  c \in ToSet(q) /\ d \in ToSet(q) /\ c # d
<1>1. PICK m \in DOMAIN q, n \in DOMAIN q : m < n /\ q[m] = c /\ q[n] = d
  BY DEF Ahead
<1>2. DOMAIN q = 1 .. Len(q) /\ Len(q) \in Nat
  BY LenProperties
<1>3. m # n
  BY <1>1, <1>2
<1> QED
  BY <1>1, <1>3 DEF ToSet, IsInjective

-----------------------------------------------------------------------------
(* The inductive invariant                                                 *)

(* The cells whose handlers will be called, the first one first.           *)
Line == IF main.at = "take" THEN <<main.cell>> \o ackQ ELSE ackQ

(* A cell tells of an answer, one after which another one comes, or a cell *)
(* waits for the next answer to the request i.                             *)
Tells(c)  == c[1] = "answer" /\ c \notin late
GoesOn(c) == Tells(c) /\ answers[c[2]][c[3]] = "part"
Waits(i)  == \/ \E c \in Cells : InSet(c) /\ handler[c] = i
             \/ at["read"] = "insert" /\ handler[held["read"]] = i

(* The cells of a request are in line in the order of the answers, and all *)
(* but the last one are parts of a file.                                   *)
OrderOK(i) ==
  \A c, d \in Cells :
    Ahead(Line, c, d) /\ handler[c] = i /\ handler[d] = i =>
      GoesOn(c) /\ (Tells(d) => c[3] < d[3])

(* While a cell of the request is in line, the handler was not told an end;*)
(* if another one still waits, the cell is a part; and the handler was not *)
(* told of it.                                                             *)
OpenOK(i) ==
  \A c \in ToSet(Line) :
    handler[c] = i =>
      /\ ~ Promise!Closed(i)
      /\ Waits(i) => GoesOn(c)
      /\ Tells(c) => Len(calls[i]) < c[3]

(* No answer that has the handler is passed over, and the answers that     *)
(* have it are the first ones.                                             *)
PassedOK(i) ==
  \A k \in 1 .. MaxAnswers[i] :
    handler[Answer(i, k)] = i =>
      /\ k <= Len(answers[i])
      /\ \A j \in 1 .. k : handler[Answer(i, j)] = i
      /\ Len(calls[i]) < k => Tells(Answer(i, k)) /\ Answer(i, k) \in ToSet(Line)

(* While a cell waits, the handler was not told an end and every answer    *)
(* that was read has the handler.                                          *)
WaitsOK(i) ==
  Waits(i) => /\ ~ Promise!Closed(i)
              /\ \A k \in 1 .. Len(answers[i]) : handler[Answer(i, k)] = i

(* The handler was not called more often than there are answers, before it *)
(* is told an end; and only requests that were made are answered.          *)
CallsOK(i) ==
  /\ ~ Promise!Closed(i) => Len(calls[i]) <= Len(answers[i])
  /\ Len(answers[i]) <= MaxAnswers[i]
  /\ calls[i] # <<>> \/ answers[i] # <<>> => i <= asked

LineOK(i) == OrderOK(i) /\ OpenOK(i) /\ PassedOK(i) /\ WaitsOK(i) /\ CallsOK(i)
LinesOK   == \A i \in 1 .. N : LineOK(i)

LinesInv == CellsInv /\ (process = "runs" => LinesOK)
-----------------------------------------------------------------------------
(* Steps that leave the line as it is                                      *)

LEMMA StillWaits ==
  ASSUME UNCHANGED <<slots, handler>>,
         at'["read"] = "insert" => at["read"] = "insert" /\ held'["read"] = held["read"],
         NEW i, Waits(i)'
  PROVE  Waits(i)
BY DEF Waits, InSet

Same == /\ Line' = Line
        /\ UNCHANGED <<handler, late, answers, calls, asked>>
        /\ \A i \in 1 .. N : Waits(i)' => Waits(i)

LEMMA SameLines ==
  ASSUME LinesOK, Same
  PROVE  LinesOK'
<1> SUFFICES ASSUME NEW i \in 1 .. N PROVE LineOK(i)'
  BY DEF LinesOK
<1>1. LineOK(i) /\ (Waits(i)' => Waits(i))
  BY DEF LinesOK, Same
<1>2. \A c : (Tells(c) <=> Tells(c)') /\ (GoesOn(c) <=> GoesOn(c)')
  BY DEF Same, Tells, GoesOn
<1>3. Promise!Closed(i) <=> Promise!Closed(i)'
  BY DEF Same, Promise!Closed
<1>4. OrderOK(i)'
  BY <1>1, <1>2 DEF Same, LineOK, OrderOK, Ahead
<1>5. OpenOK(i)'
  BY <1>1, <1>2, <1>3 DEF Same, LineOK, OpenOK
<1>6. PassedOK(i)'
  BY <1>1, <1>2 DEF Same, LineOK, PassedOK
<1>7. WaitsOK(i)' /\ CallsOK(i)'
  BY <1>1, <1>3 DEF Same, LineOK, WaitsOK, CallsOK
<1> QED
  BY <1>4, <1>5, <1>6, <1>7 DEF LineOK

(* What the steps that change nothing for the handlers have in common.     *)
Aside == \/ Alone \/ Put \/ \E replies \in BOOLEAN : HandleMessage(replies)
         \/ AckDrop \/ AckTest \/ UsesDeleted \/ CountsRace
         \/ ReadMessage \/ ReadFails \/ ReadRelease \/ ReadTest \/ WriteTake \/ WriteDone

Beside == /\ main'.at = "take" <=> main.at = "take"
          /\ main'.cell = main.cell \/ main'.at # "take"
          /\ UNCHANGED <<ackQ, slots, handler, late, answers, calls, asked>>
          /\ at'["read"] = "insert" => at["read"] = "insert" /\ held'["read"] = held["read"]

LEMMA AsideIsBeside ==
  ASSUME IInv, Aside
  PROVE  Beside
<1> USE DEF IInv, Shape, WorksShape, MainShape, QueueShape, Works, queues, reqset, memory, requests,
            peer, outcome
<1>1. ASSUME Alone PROVE Beside
  <2>1. Quiet
    BY <1>1, QuietSteps
  <2> QED
    BY <2>1 DEF Quiet, Beside
<1>2. ASSUME Put PROVE Beside
  BY <1>2 DEF Put, Beside
<1>3. ASSUME NEW replies \in BOOLEAN, HandleMessage(replies) PROVE Beside
  <2>1. main' = main \/ (main'.at = "put" /\ main'.cell = main.cell)
    BY <1>3 DEF HandleMessage
  <2> QED
    BY <1>3, <2>1 DEF HandleMessage, Beside
<1>4. ASSUME AckDrop \/ AckTest PROVE Beside
  BY <1>4 DEF AckDrop, AckTest, Beside
<1>5. ASSUME UsesDeleted \/ CountsRace PROVE Beside
  BY <1>5 DEF UsesDeleted, CountsRace, Undefined, threads, Beside
<1>6. ASSUME ReadMessage \/ ReadFails PROVE Beside
  BY <1>6 DEF ReadMessage, ReadFails, Goto, Beside
<1>7. ASSUME ReadRelease \/ ReadTest PROVE Beside
  BY <1>7 DEF ReadRelease, ReadTest, Goto, Beside
<1>8. ASSUME WriteTake PROVE Beside
  BY <1>8 DEF WriteTake, Goto, Beside
<1>9. ASSUME WriteDone PROVE Beside
  <2>1. /\ UNCHANGED <<main, ackQ, slots, handler, late, asked, answers, calls>>
        /\ held' = [held EXCEPT !["write"] = Free] /\ Goto("write", "done")
    BY <1>9 DEF WriteDone
  <2> QED
    BY <2>1 DEF Goto, Beside
<1> QED
  BY <1>1, <1>2, <1>3, <1>4, <1>5, <1>6, <1>7, <1>8, <1>9 DEF Aside

LEMMA AsideLines ==
  ASSUME IInv, LinesOK, Aside
  PROVE  LinesOK'
<1>1. Beside
  BY AsideIsBeside
<1>2. Line' = Line
  BY <1>1 DEF Beside, Line
<1>3. \A i \in 1 .. N : Waits(i)' => Waits(i)
  BY <1>1, StillWaits DEF Beside
<1>4. Same
  BY <1>1, <1>2, <1>3 DEF Beside, Same
<1> QED
  BY <1>4, SameLines

(* dequeue: the first cell of ack_queue is still the first one in line.    *)
LEMMA DequeueLines ==
  ASSUME IInv, MemoryType, LinesOK, AckDequeue
  PROVE  LinesOK'
<1>1. /\ main.at = "acks" /\ ackQ # <<>> /\ ackQ' = Tail(ackQ)
      /\ main'.at = "take" /\ main'.cell = Head(ackQ)
      /\ UNCHANGED <<at, held, slots, handler, late, answers, calls, asked>>
  BY DEF AckDequeue, IInv, Shape, MainShape, reqset, requests, peer, outcome
<1>2. Line' = Line
  <2>1. <<Head(ackQ)>> \o Tail(ackQ) = ackQ
    BY <1>1, HeadAndTail DEF MemoryType
  <2> QED
    BY <1>1, <2>1 DEF Line
<1>3. Same
  BY <1>1, <1>2, StillWaits DEF Same
<1> QED
  BY <1>3, SameLines

(* insert lets the cell wait that the read work holds, or nobody.          *)
LEMMA InsertLines ==
  ASSUME IInv, LinesOK, ReadInsert
  PROVE  LinesOK'
<1>1. PICK c \in Cells : c = held["read"]
  BY DEF ReadInsert, IInv, Shape, QueueShape
<1>2. /\ at["read"] = "insert" /\ at'["read"] = "release" /\ Insert(c)
      /\ UNCHANGED <<main, ackQ, handler, late, answers, calls, asked>>
  BY <1>1 DEF ReadInsert, Goto, queues, requests, peer, IInv, Shape, WorksShape, Works
<1>3. \A e \in Cells : InSet(e)' => InSet(e) \/ e = c
  <2>1. CASE UNCHANGED <<slots, tout, attached>>
    BY <2>1 DEF InSet
  <2>2. CASE \E s \in Slots : Inserted(c, s)
    <3>1. PICK s \in Slots : slots' = [slots EXCEPT ![s] = c] /\ slots[s] = Free
      BY <2>2 DEF Inserted
    <3> QED
      BY <3>1, PlaceIn DEF InSet, IInv, Shape, SlotShape
  <2> QED
    BY <1>2, <2>1, <2>2, InsertCases
<1>4. \A i \in 1 .. N : Waits(i)' => Waits(i)
  BY <1>1, <1>2, <1>3 DEF Waits
<1>5. Same
  BY <1>2, <1>4 DEF Same, Line
<1> QED
  BY <1>5, SameLines
-----------------------------------------------------------------------------
(* A request is made                                                       *)

LEMMA SubmitLines ==
  ASSUME IInv, MemoryType, CellsOK, LinesOK, Submit
  PROVE  LinesOK'
<1>1. asked \in Nat /\ asked + 1 \in 1 .. N
  BY OpelAssumption DEF Submit, IInv, Shape, CountShape
<1>2. PICK new \in 1 .. N : new = asked + 1
  BY <1>1
<1>3. PICK c \in Cells : c = Entry(new)
  BY CellsMade
<1>4. /\ main.at # "take" /\ main'.at # "take" /\ asked' = new
      /\ handler' = [handler EXCEPT ![c] = new] /\ Insert(c)
      /\ UNCHANGED <<at, held, ackQ, late, answers, calls>>
  BY <1>2, <1>3 DEF Submit, queues, peer, IInv, Shape, MainShape
<1>5. Line = ackQ /\ Line' = ackQ
  BY <1>4 DEF Line
<1>6. /\ c[1] = "entry" /\ c \notin ToSet(ackQ) /\ held["read"] # c
  <2>1. c[1] = "entry" /\ c[2] = new
    BY <1>3 DEF Entry
  <2>2. ~ Made(c)
    BY <1>1, <1>2, <2>1 DEF Made
  <2> QED
    BY <2>1, <2>2, Nowhere DEF ToHandle
<1>7. \A e \in Cells : handler[e] # new /\ (e # c => handler'[e] = handler[e])
  <2>1. \A e \in Cells : handler[e] = 0 \/ handler[e] <= asked
    BY DEF CellsOK, HandlerOK
  <2>2. new # 0 /\ ~ (new <= asked)
    BY <1>1, <1>2
  <2> QED
    BY <2>1, <2>2, <1>4 DEF MemoryType
<1>8. handler'[c] = new
  BY <1>4 DEF MemoryType
<1>9. \A e \in Cells : InSet(e)' => InSet(e) \/ e = c
  <2>1. CASE UNCHANGED <<slots, tout, attached>>
    BY <2>1 DEF InSet
  <2>2. CASE \E s \in Slots : Inserted(c, s)
    <3>1. PICK s \in Slots : slots' = [slots EXCEPT ![s] = c] /\ slots[s] = Free
      BY <2>2 DEF Inserted
    <3> QED
      BY <3>1, PlaceIn DEF InSet, IInv, Shape, SlotShape
  <2> QED
    BY <1>4, <2>1, <2>2, InsertCases
<1>10. \A i \in 1 .. N : Waits(i)' => Waits(i) \/ i = new
  <2> SUFFICES ASSUME NEW i \in 1 .. N, Waits(i)', i # new PROVE Waits(i)
    OBVIOUS
  <2>1. CASE \E e \in Cells : InSet(e)' /\ handler'[e] = i
    BY <2>1, <1>7, <1>8, <1>9 DEF Waits
  <2>2. CASE at'["read"] = "insert" /\ handler'[held'["read"]] = i
    <3>1. at["read"] = "insert" /\ held["read"] \in Cells /\ held["read"] # c /\ held' = held
      BY <2>2, <1>4, <1>6 DEF IInv, Shape, QueueShape
    <3> QED
      BY <2>2, <3>1, <1>7 DEF Waits
  <2> QED
    BY <2>1, <2>2 DEF Waits
<1>11. calls[new] = <<>> /\ answers[new] = <<>>
  <2>1. CallsOK(new) /\ ~ (new <= asked)
    BY <1>1, <1>2 DEF LinesOK, LineOK
  <2> QED
    BY <2>1 DEF CallsOK
<1>12. \A e : (Tells(e) <=> Tells(e)') /\ (GoesOn(e) <=> GoesOn(e)')
  BY <1>4 DEF Tells, GoesOn
<1> SUFFICES ASSUME NEW i \in 1 .. N PROVE LineOK(i)'
  BY DEF LinesOK
<1>13. LineOK(i) /\ (Promise!Closed(i) <=> Promise!Closed(i)')
  BY <1>4 DEF LinesOK, Promise!Closed
<1>14. OrderOK(i)'
  <2> SUFFICES ASSUME NEW e \in Cells, NEW f \in Cells, Ahead(ackQ, e, f),
                      handler'[e] = i, handler'[f] = i
               PROVE  GoesOn(e) /\ (Tells(f) => e[3] < f[3])
    BY <1>5, <1>12 DEF OrderOK
  <2>1. e \in ToSet(ackQ) /\ f \in ToSet(ackQ)
    BY AheadInQueue DEF CellsOK, OnceOK, MemoryType
  <2>2. handler[e] = i /\ handler[f] = i
    BY <2>1, <1>6, <1>7
  <2> QED
    BY <2>2, <1>5, <1>13 DEF LineOK, OrderOK
<1>15. OpenOK(i)'
  <2> SUFFICES ASSUME NEW e \in ToSet(ackQ), handler'[e] = i
               PROVE  ~ Promise!Closed(i) /\ (Waits(i)' => GoesOn(e)) /\ (Tells(e) => Len(calls[i]) < e[3])
    BY <1>4, <1>5, <1>12, <1>13 DEF OpenOK
  <2>1. e \in Cells /\ e # c
    BY <1>6, LenProperties DEF ToSet, MemoryType
  <2>2. handler[e] = i /\ i # new
    BY <2>1, <1>7
  <2> QED
    BY <2>2, <1>5, <1>10, <1>13 DEF LineOK, OpenOK
<1>16. PassedOK(i)'
  <2> SUFFICES ASSUME NEW k \in 1 .. MaxAnswers[i], handler'[Answer(i, k)] = i
               PROVE  /\ k <= Len(answers[i])
                      /\ \A j \in 1 .. k : handler'[Answer(i, j)] = i
                      /\ Len(calls[i]) < k => Tells(Answer(i, k)) /\ Answer(i, k) \in ToSet(ackQ)
    BY <1>4, <1>5, <1>12 DEF PassedOK
  <2>1. \A j \in 1 .. k : handler'[Answer(i, j)] = handler[Answer(i, j)]
    <3> SUFFICES ASSUME NEW j \in 1 .. k PROVE handler'[Answer(i, j)] = handler[Answer(i, j)]
      OBVIOUS
    <3>1. j \in 1 .. MaxAnswers[i]
      BY OpelAssumption
    <3>2. Answer(i, j) \in Cells /\ Answer(i, j) # c
      BY <3>1, <1>6, CellsMade DEF Answer
    <3> QED
      BY <3>2, <1>7
  <2>2. k \in 1 .. k
    BY OpelAssumption
  <2> QED
    BY <2>1, <2>2, <1>5, <1>13 DEF LineOK, PassedOK
<1>17. WaitsOK(i)' /\ CallsOK(i)'
  <2>1. CASE i = new
    <3>1. Len(calls[i]) = 0 /\ Len(answers[i]) = 0 /\ ~ Promise!Closed(i)
      BY <2>1, <1>11 DEF Promise!Closed
    <3>2. MaxAnswers[i] \in Nat /\ i <= asked'
      BY <2>1, <1>4, OpelAssumption
    <3> QED
      BY <3>1, <3>2, <1>4, <1>13 DEF WaitsOK, CallsOK
  <2>2. CASE i # new
    <3>1. Waits(i)' => Waits(i)
      BY <2>2, <1>10
    <3>2. CallsOK(i)'
      <4>1. i <= asked => i <= asked'
        BY <1>1, <1>2, <1>4
      <4> QED
        BY <4>1, <1>4, <1>13 DEF LineOK, CallsOK
    <3>3. \A k \in 1 .. Len(answers[i]) : handler'[Answer(i, k)] = handler[Answer(i, k)]
      <4> SUFFICES ASSUME NEW k \in 1 .. Len(answers[i])
                   PROVE  handler'[Answer(i, k)] = handler[Answer(i, k)]
        OBVIOUS
      <4>1. k \in 1 .. MaxAnswers[i]
        <5>1. Len(answers[i]) <= MaxAnswers[i] /\ Len(answers[i]) \in Nat /\ MaxAnswers[i] \in Nat
          BY <1>13, LenProperties, OpelAssumption DEF LineOK, CallsOK, IInv, Shape, CountShape
        <5> QED
          BY <5>1
      <4>2. Answer(i, k) \in Cells /\ Answer(i, k) # c
        BY <4>1, <1>6, CellsMade DEF Answer
      <4> QED
        BY <4>2, <1>7
    <3> QED
      BY <3>1, <3>2, <3>3, <1>4, <1>13 DEF LineOK, WaitsOK
  <2> QED
    BY <2>1, <2>2
<1> QED
  BY <1>14, <1>15, <1>16, <1>17 DEF LineOK
-----------------------------------------------------------------------------
(* A handler is called                                                     *)

(* The first cell in line tells the handler what Outcomes lets it be told. *)
LEMMA FirstInTurn ==
  ASSUME IInv, MemoryType, OutcomeType, CellsOK, LinesOK, main.at = "take",
         NEW c \in Cells, c = main.cell, NEW i \in 1 .. N, handler[c] = i
  PROVE  /\ i <= asked /\ ~ Promise!Closed(i)
         /\ Tells(c) => /\ c = Answer(i, c[3]) /\ c[3] \in 1 .. Len(answers[i])
                        /\ c[3] = Len(calls[i]) + 1
<1>1. LineOK(i) /\ i # 0
  BY DEF LinesOK
<1>2. i = c[2] /\ i <= asked
  BY <1>1 DEF CellsOK, HandlerOK, ReqId
<1>3. /\ Line = <<c>> \o ackQ /\ ToSet(Line) = {c} \cup ToSet(ackQ)
      /\ \A d : Ahead(Line, c, d) <=> Ahead(ackQ, c, d) \/ d \in ToSet(ackQ)
  BY AheadOfAll DEF Line, MemoryType
<1>4. ~ Promise!Closed(i) /\ (Tells(c) => Len(calls[i]) < c[3])
  BY <1>1, <1>3 DEF LineOK, OpenOK
<1>5. ASSUME Tells(c)
      PROVE  c = Answer(i, c[3]) /\ c[3] \in 1 .. Len(answers[i]) /\ c[3] = Len(calls[i]) + 1
  <2> DEFINE k == Len(calls[i]) + 1
  <2>1. c[1] = "answer" /\ c[3] \in 1 .. MaxAnswers[i] /\ c = Answer(i, c[3])
    <3>1. c[1] = "answer" /\ c[3] \in 1 .. MaxAnswers[c[2]]
      BY <1>5, CellKinds DEF Tells
    <3>2. Answer(i, c[3]) \in Cells
      BY <3>1, <1>2, CellsMade
    <3> QED
      BY <3>1, <3>2, <1>2, SameCell DEF Answer
  <2>2. /\ c[3] <= Len(answers[i]) /\ \A j \in 1 .. c[3] : handler[Answer(i, j)] = i
    BY <2>1, <1>1 DEF LineOK, PassedOK
  <2>3. Len(calls[i]) \in Nat /\ Len(answers[i]) \in Nat /\ c[3] \in Nat /\ Len(calls[i]) < c[3]
    <3>1. Len(calls[i]) < c[3] /\ Len(calls[i]) <= Len(answers[i])
      BY <1>1, <1>4, <1>5 DEF LineOK, CallsOK
    <3>2. Len(answers[i]) \in Nat /\ MaxAnswers[i] \in Nat
      BY LenProperties, OpelAssumption DEF IInv, Shape, CountShape
    <3>3. Len(calls[i]) \in Nat
      BY LenProperties DEF OutcomeType
    <3> QED
      BY <2>1, <3>1, <3>2, <3>3
  <2>4. k \in 1 .. c[3] /\ k \in 1 .. MaxAnswers[i] /\ Len(calls[i]) < k
    <3>1. k \in Nat /\ k <= c[3] /\ 1 <= k /\ Len(calls[i]) < k
      BY <2>3
    <3>2. MaxAnswers[i] \in Nat /\ c[3] <= MaxAnswers[i]
      BY <2>1, OpelAssumption
    <3> QED
      BY <3>1, <3>2, <2>3
  <2>5. handler[Answer(i, k)] = i /\ Answer(i, k) \in Cells /\ Answer(i, k)[3] = k
    BY <2>2, <2>4, CellsMade DEF Answer
  <2>6. Tells(Answer(i, k)) /\ Answer(i, k) \in ToSet(Line)
    BY <2>4, <2>5, <1>1 DEF LineOK, PassedOK
  <2>7. Answer(i, k) = c
    <3>1. ASSUME Answer(i, k) # c PROVE FALSE
      <4>1. Ahead(Line, c, Answer(i, k))
        BY <2>6, <3>1, <1>3
      <4>2. c[3] < k
        BY <4>1, <2>5, <2>6, <1>1 DEF LineOK, OrderOK
      <4> QED
        BY <4>2, <2>3
    <3> QED
      BY <3>1
  <2> QED
    BY <2>1, <2>2, <2>3, <2>5, <2>7
<1> QED
  BY <1>2, <1>4, <1>5

(* What the call adds to the calls of the handler.                         *)
LEMMA CallAdds ==
  ASSUME MemoryType, OutcomeType, NEW c \in Cells, NEW i \in 1 .. N,
         calls' = [calls EXCEPT ![i] = Append(@, Told(c))]
  PROVE  /\ Len(calls'[i]) = Len(calls[i]) + 1 /\ Len(calls[i]) \in Nat
         /\ calls'[i] # <<>>
         /\ Promise!Closed(i)' <=> Promise!Closed(i) \/ ~ GoesOn(c)
         /\ \A j \in 1 .. N : j # i => calls'[j] = calls[j] /\ (Promise!Closed(j)' <=> Promise!Closed(j))
<1> DEFINE q == calls[i]
           t == Told(c)
<1>1. q \in Seq(Promise!Call) /\ t \in Promise!Call
  BY ToldIsCall DEF OutcomeType
<1>2. t[1] = "part" <=> GoesOn(c)
  <2>1. CASE c \in late
    BY <2>1 DEF Told, GoesOn, Tells
  <2>2. CASE c \notin late /\ c[1] = "answer"
    BY <2>2 DEF Told, GoesOn, Tells
  <2>3. CASE c \notin late /\ c[1] # "answer"
    BY <2>3 DEF Told, GoesOn, Tells
  <2> QED
    BY <2>1, <2>2, <2>3
<1>3. calls'[i] = Append(q, t) /\ \A j \in 1 .. N : j # i => calls'[j] = calls[j]
  BY DEF OutcomeType
<1> HIDE DEF q, t
<1>4. /\ Len(Append(q, t)) = Len(q) + 1 /\ Len(q) \in Nat /\ DOMAIN q = 1 .. Len(q)
      /\ DOMAIN Append(q, t) = 1 .. Len(q) + 1
      /\ \A n \in 1 .. Len(q) : Append(q, t)[n] = q[n]
      /\ Append(q, t)[Len(q) + 1] = t
      /\ Append(q, t) # <<>>
  <2>1. /\ Len(Append(q, t)) = Len(q) + 1 /\ Append(q, t) \in Seq(Promise!Call)
        /\ \A n \in 1 .. Len(q) : Append(q, t)[n] = q[n]
        /\ Append(q, t)[Len(q) + 1] = t
    BY <1>1, AppendProperties
  <2>2. Len(q) \in Nat /\ DOMAIN q = 1 .. Len(q) /\ DOMAIN Append(q, t) = 1 .. Len(Append(q, t))
    BY <1>1, <2>1, LenProperties
  <2>3. Append(q, t) # <<>>
    BY <1>1, PutIn
  <2> QED
    BY <2>1, <2>2, <2>3
<1>5. (\E n \in DOMAIN Append(q, t) : Append(q, t)[n][1] # "part")
        <=> (\E n \in DOMAIN q : q[n][1] # "part") \/ ~ GoesOn(c)
  <2>1. \A n \in 1 .. Len(q) + 1 : n \in 1 .. Len(q) \/ n = Len(q) + 1
    BY <1>4
  <2>2. \A n \in 1 .. Len(q) : n \in 1 .. Len(q) + 1
    BY <1>4
  <2>3. Len(q) + 1 \in 1 .. Len(q) + 1
    BY <1>4
  <2> QED
    BY <2>1, <2>2, <2>3, <1>2, <1>4
<1>6. Promise!Closed(i)' <=> Promise!Closed(i) \/ ~ GoesOn(c)
  BY <1>3, <1>5 DEF Promise!Closed, q
<1>7. ASSUME NEW j \in 1 .. N, j # i PROVE Promise!Closed(j)' <=> Promise!Closed(j)
  BY <1>3, <1>7 DEF Promise!Closed
<1> QED
  BY <1>3, <1>4, <1>6, <1>7 DEF q

LEMMA CallLines ==
  ASSUME IInv, Types, CellsOK, LinesOK, CallHandler
  PROVE  LinesOK'
<1> USE DEF Types
<1>1. PICK c \in Cells : c = main.cell
  BY DEF CallHandler, MemoryType, CellsOK, HoldOK
<1>2. /\ main.at = "take" /\ main'.at = "drop"
      /\ UNCHANGED <<at, held, ackQ, slots, handler, late, answers, asked>>
      /\ calls' = IF handler[c] = 0 THEN calls
                  ELSE [calls EXCEPT ![handler[c]] = Append(@, Told(c))]
  BY <1>1 DEF CallHandler, queues, reqset, requests, peer, IInv, Shape, MainShape
<1>3. /\ Line = <<c>> \o ackQ /\ Line' = ackQ
      /\ ToSet(Line) = {c} \cup ToSet(ackQ)
      /\ \A d, e : Ahead(Line, d, e) <=> Ahead(ackQ, d, e) \/ (d = c /\ e \in ToSet(ackQ))
  <2>1. Line = <<c>> \o ackQ /\ Line' = ackQ
    BY <1>1, <1>2 DEF Line
  <2> QED
    BY <2>1, AheadOfAll DEF MemoryType
<1>4. handler[c] \in 0 .. N
  BY DEF MemoryType
<1>5. \A e : (Tells(e) <=> Tells(e)') /\ (GoesOn(e) <=> GoesOn(e)')
  BY <1>2 DEF Tells, GoesOn
<1>6. \A i : Waits(i)' <=> Waits(i)
  BY <1>2 DEF Waits, InSet
<1> SUFFICES ASSUME NEW i \in 1 .. N PROVE LineOK(i)'
  BY DEF LinesOK
<1>7. LineOK(i)
  BY DEF LinesOK
<1>8. OrderOK(i)'
  BY <1>2, <1>3, <1>5, <1>7 DEF LineOK, OrderOK
<1>9. CASE handler[c] # i
  <2>1. calls'[i] = calls[i] /\ (Promise!Closed(i)' <=> Promise!Closed(i))
    <3>1. CASE handler[c] = 0
      BY <3>1, <1>2 DEF Promise!Closed
    <3>2. CASE handler[c] # 0
      <4>1. PICK h \in 1 .. N : h = handler[c]
        BY <3>2, <1>4, OpelAssumption
      <4> QED
        BY <4>1, <3>2, <1>2, <1>9, CallAdds
    <3> QED
      BY <3>1, <3>2
  <2>2. OpenOK(i)'
    BY <2>1, <1>2, <1>3, <1>5, <1>6, <1>7 DEF LineOK, OpenOK
  <2>3. PassedOK(i)'
    BY <2>1, <1>2, <1>3, <1>5, <1>7, <1>9 DEF LineOK, PassedOK
  <2>4. WaitsOK(i)' /\ CallsOK(i)'
    BY <2>1, <1>2, <1>6, <1>7 DEF LineOK, WaitsOK, CallsOK
  <2> QED
    BY <2>2, <2>3, <2>4, <1>8 DEF LineOK
<1>10. CASE handler[c] = i
  <2>1. /\ i <= asked /\ ~ Promise!Closed(i)
        /\ Tells(c) => /\ c = Answer(i, c[3]) /\ c[3] \in 1 .. Len(answers[i])
                       /\ c[3] = Len(calls[i]) + 1
    BY <1>1, <1>2, <1>10, FirstInTurn
  <2>2. /\ Len(calls'[i]) = Len(calls[i]) + 1 /\ Len(calls[i]) \in Nat
        /\ Promise!Closed(i)' <=> ~ GoesOn(c)
    <3>1. calls' = [calls EXCEPT ![i] = Append(@, Told(c))]
      BY <1>2, <1>10
    <3> QED
      BY <3>1, <2>1, CallAdds
  <2>3. \A e \in ToSet(ackQ) : handler[e] = i => GoesOn(c) /\ (Tells(e) => c[3] < e[3])
    <3>1. ToSet(ackQ) \subseteq Cells
      BY LenProperties DEF ToSet, MemoryType
    <3> QED
      BY <3>1, <1>3, <1>7, <1>10 DEF LineOK, OrderOK
  <2>4. OpenOK(i)'
    <3> SUFFICES ASSUME NEW e \in ToSet(ackQ), handler[e] = i
                 PROVE  /\ GoesOn(c) /\ (Waits(i) => GoesOn(e))
                        /\ Tells(e) => Len(calls[i]) + 1 < e[3]
      BY <1>2, <1>3, <1>5, <1>6, <2>2 DEF OpenOK
    <3>1. GoesOn(c) /\ (Tells(e) => c[3] < e[3])
      BY <2>3
    <3>2. Tells(c)
      BY <3>1 DEF GoesOn
    <3>3. Waits(i) => GoesOn(e)
      BY <1>3, <1>7 DEF LineOK, OpenOK
    <3> QED
      BY <3>1, <3>2, <3>3, <2>1
  <2>5. PassedOK(i)'
    <3> SUFFICES ASSUME NEW k \in 1 .. MaxAnswers[i], handler[Answer(i, k)] = i
                 PROVE  /\ k <= Len(answers[i])
                        /\ \A j \in 1 .. k : handler[Answer(i, j)] = i
                        /\ Len(calls[i]) + 1 < k => Tells(Answer(i, k)) /\ Answer(i, k) \in ToSet(ackQ)
      BY <1>2, <1>3, <1>5, <2>2 DEF PassedOK
    <3>1. /\ k <= Len(answers[i])
          /\ \A j \in 1 .. k : handler[Answer(i, j)] = i
          /\ Len(calls[i]) < k => Tells(Answer(i, k)) /\ Answer(i, k) \in ToSet(Line)
      BY <1>7 DEF LineOK, PassedOK
    <3>2. ASSUME Len(calls[i]) + 1 < k PROVE Tells(Answer(i, k)) /\ Answer(i, k) \in ToSet(ackQ)
      <4>1. Len(calls[i]) < k /\ k # Len(calls[i]) + 1
        BY <3>2, <2>2, OpelAssumption
      <4>2. Tells(Answer(i, k)) /\ Answer(i, k) \in ToSet(Line) /\ Answer(i, k)[3] = k
        BY <4>1, <3>1 DEF Answer
      <4>3. Answer(i, k) # c
        BY <4>1, <4>2, <2>1
      <4> QED
        BY <4>2, <4>3, <1>3
    <3> QED
      BY <3>1, <3>2
  <2>6. WaitsOK(i)'
    <3>1. Waits(i) => GoesOn(c)
      BY <1>3, <1>7, <1>10 DEF LineOK, OpenOK
    <3> QED
      BY <3>1, <2>2, <1>2, <1>6, <1>7 DEF LineOK, WaitsOK
  <2>7. CallsOK(i)'
    <3>1. GoesOn(c) => Len(calls[i]) + 1 <= Len(answers[i])
      <4> SUFFICES ASSUME GoesOn(c) PROVE Len(calls[i]) + 1 <= Len(answers[i])
        OBVIOUS
      <4>1. c[3] \in 1 .. Len(answers[i]) /\ c[3] = Len(calls[i]) + 1
        BY <2>1 DEF GoesOn
      <4> QED
        BY <4>1
    <3> QED
      BY <3>1, <2>1, <2>2, <1>2, <1>7 DEF LineOK, CallsOK
  <2> QED
    BY <2>4, <2>5, <2>6, <2>7, <1>8 DEF LineOK
<1> QED
  BY <1>9, <1>10
-----------------------------------------------------------------------------
(* signal and wait: more cells in line                                     *)

LEMMA OneInSet ==
  ASSUME WaitingOK, NEW c \in Cells, NEW d \in Cells, InSet(c), InSet(d), ReqId(c) = ReqId(d)
  PROVE  c = d
<1>1. c # Free /\ d # Free
  BY FreeAssumption
<1> QED
  BY <1>1 DEF InSet, WaitingOK, Waiting

(* The cells that wait, or are about to wait, with the handler of i.       *)
LEMMA WaiterIs ==
  ASSUME IInv, CellsOK, NEW i \in 1 .. N, NEW c \in Cells, InSet(c), ReqId(c) = i, Waits(i)
  PROVE  handler[c] = i
<1>1. i # 0
  BY OpelAssumption
<1>2. CASE \E e \in Cells : InSet(e) /\ handler[e] = i
  <2>1. PICK e \in Cells : InSet(e) /\ handler[e] = i
    BY <1>2
  <2>2. ReqId(e) = i
    BY <1>1, <2>1 DEF CellsOK, HandlerOK
  <2> QED
    BY <2>1, <2>2, OneInSet DEF IInv
<1>3. CASE at["read"] = "insert" /\ handler[held["read"]] = i
  <2>1. held["read"] \in Cells
    BY <1>3 DEF IInv, Shape, QueueShape
  <2>2. ReqId(held["read"]) = i
    BY <1>1, <1>3, <2>1 DEF CellsOK, HandlerOK
  <2>3. \A s \in Slots : slots[s] # Free => ReqId(slots[s]) # i
    BY <1>3, <2>2 DEF IInv, WaitingOK, Apart
  <2> QED
    BY <2>3, FreeAssumption DEF InSet
<1> QED
  BY <1>2, <1>3 DEF Waits

LEMMA LineIs ==
  ASSUME MemoryType, CellsOK
  PROVE  /\ Line \in Seq(Cells) /\ ToSet(Line) \subseteq Cells
         /\ \A c \in Cells : c \in ToSet(Line) => ToHandle(c)
         /\ \A q \in Seq(Cells) : main' = main /\ ackQ' = ackQ \o q => Line' = Line \o q
<1>1. CASE main.at = "take"
  <2>1. main.cell \in Cells
    BY <1>1 DEF MemoryType, CellsOK, HoldOK
  <2>2. PICK c \in Cells : c = main.cell
    BY <2>1
  <2>3. Line = <<c>> \o ackQ /\ <<c>> \in Seq(Cells)
    BY <1>1, <2>2 DEF Line
  <2>4. Line \in Seq(Cells) /\ ToSet(Line) = {c} \cup ToSet(ackQ)
    BY <2>3, AheadOfAll DEF MemoryType
  <2>5. ASSUME NEW q \in Seq(Cells), main' = main, ackQ' = ackQ \o q PROVE Line' = Line \o q
    <3>1. Line' = <<c>> \o (ackQ \o q)
      BY <1>1, <2>2, <2>5 DEF Line
    <3>2. <<c>> \o (ackQ \o q) = (<<c>> \o ackQ) \o q
      <4> DEFINE p == <<c>>
      <4>1. p \in Seq(Cells) /\ ackQ \in Seq(Cells)
        BY <2>3 DEF MemoryType
      <4> HIDE DEF p
      <4>2. p \o (ackQ \o q) = (p \o ackQ) \o q
        BY <4>1, ConcatAssociative
      <4> QED
        BY <4>2 DEF p
    <3> QED
      BY <2>3, <3>1, <3>2
  <2>6. ToSet(ackQ) \subseteq Cells
    BY LenProperties DEF ToSet, MemoryType
  <2> QED
    BY <2>2, <2>4, <2>5, <2>6 DEF ToHandle
<1>2. CASE main.at # "take"
  <2>1. Line = ackQ
    BY <1>2 DEF Line
  <2>2. ToSet(ackQ) \subseteq Cells
    BY LenProperties DEF ToSet, MemoryType
  <2>3. \A q : main' = main /\ ackQ' = ackQ \o q => Line' = Line \o q
    BY <1>2, <2>1 DEF Line
  <2> QED
    BY <2>1, <2>2, <2>3 DEF ToHandle, MemoryType
<1> QED
  BY <1>1, <1>2

(* One more cell in line.                                                  *)
LEMMA LineGrows ==
  ASSUME MemoryType, CellsOK, NEW c \in Cells, main' = main, ackQ' = Append(ackQ, c)
  PROVE  /\ ToSet(Line') = ToSet(Line) \cup {c}
         /\ \A d, e : Ahead(Line', d, e) <=> Ahead(Line, d, e) \/ (d \in ToSet(Line) /\ e = c)
<1>1. <<c>> \in Seq(Cells) /\ ackQ' = ackQ \o <<c>>
  BY OneCell DEF MemoryType
<1>2. Line' = Line \o <<c>> /\ Line \in Seq(Cells)
  BY <1>1, LineIs
<1>3. Line' = Append(Line, c)
  BY <1>2, OneCell
<1>4. ToSet(Append(Line, c)) = ToSet(Line) \cup {c}
  BY <1>2, PutIn
<1>5. \A d, e : Ahead(Append(Line, c), d, e) <=> Ahead(Line, d, e) \/ (d \in ToSet(Line) /\ e = c)
  BY <1>2, AheadOfLast
<1>6. ToSet(Line') = ToSet(Line) \cup {c}
  BY <1>3, <1>4
<1>7. ASSUME NEW d, NEW e
      PROVE  Ahead(Line', d, e) <=> Ahead(Line, d, e) \/ (d \in ToSet(Line) /\ e = c)
  BY <1>3, <1>5
<1> QED
  BY <1>6, <1>7

(* A cell ahead of another one is in line with it.                         *)
LEMMA AheadInLine ==
  ASSUME NEW c, NEW d, Ahead(Line, c, d)
  PROVE  c \in ToSet(Line) /\ d \in ToSet(Line)
BY DEF Ahead, ToSet
LEMMA FailLines ==
  ASSUME Before, LinesOK, WriteFails
  PROVE  LinesOK'
<1> USE DEF Before, Types
<1>1. PICK c \in Cells : c = held["write"]
  BY DEF WriteFails, IInv, Shape, QueueShape
<1>2. /\ at["write"] = "writing" /\ at'["read"] = at["read"] /\ held'["read"] = held["read"]
      /\ Signal(c, 0)
      /\ UNCHANGED <<main, late, answers, calls, asked>>
  BY <1>1 DEF WriteFails, Goto, requests, peer, outcome, IInv, Shape, WorksShape, QueueShape, Works
<1>3. /\ c # Free /\ ToWrite(c) /\ c[1] # "answer" /\ ~ ToHandle(c) /\ held["read"] # c /\ ~ InSet(c)
  <2>1. c # Free /\ ToWrite(c)
    BY <1>1, FreeAssumption DEF ToWrite
  <2>2. RoleOK(c)
    BY DEF CellsOK, RolesOK
  <2>3. c[1] \in {"packet", "reply"}
    BY <2>1, <2>2 DEF RoleOK
  <2>4. ~ InSet(c)
    BY <2>3, InSetKind DEF IInv
  <2> QED
    BY <2>1, <2>2, <2>3, <2>4 DEF RoleOK
<1>4. c \notin ToSet(Line) /\ c \notin ToSet(ackQ) /\ ToSet(Line) \subseteq Cells
  BY <1>3, LineIs DEF ToHandle
<1>5. NotPassed(c, 0) \/ \E d \in Cells : Passed(c, 0, d)
  BY <1>2, <1>3, <1>4, SignalMoves, 0 \in Nat DEF IInv, Shape
<1>6. CASE NotPassed(c, 0)
  <2>1. ackQ' = ackQ /\ handler' = handler /\ \A e \in Cells : InSet(e)' <=> InSet(e)
    BY <1>6 DEF NotPassed
  <2>2. Same
    BY <2>1, <1>2 DEF Same, Line, Waits
  <2> QED
    BY <2>2, SameLines
<1>7. CASE \E d \in Cells : Passed(c, 0, d)
  <2>1. PICK d \in Cells : Passed(c, 0, d)
    BY <1>7
  <2>2. /\ InSet(d) /\ d # c /\ handler' = [handler EXCEPT ![c] = handler[d]]
        /\ ackQ' = Append(ackQ, c) /\ \A e \in Cells : InSet(e)' <=> InSet(e) /\ e # d
    BY <2>1 DEF Passed
  <2>3. handler'[c] = handler[d] /\ \A e \in Cells : e # c => handler'[e] = handler[e]
    BY <2>2 DEF MemoryType
  <2>4. /\ ToSet(Line') = ToSet(Line) \cup {c}
        /\ \A e, f : Ahead(Line', e, f) <=> Ahead(Line, e, f) \/ (e \in ToSet(Line) /\ f = c)
    BY <2>2, <1>2, LineGrows
  <2>5. \A e : (Tells(e) <=> Tells(e)') /\ (GoesOn(e) <=> GoesOn(e)')
    BY <1>2 DEF Tells, GoesOn
  <2>6. ~ Tells(c)
    BY <1>3 DEF Tells
  <2> SUFFICES ASSUME NEW i \in 1 .. N PROVE LineOK(i)'
    BY DEF LinesOK
  <2>7. LineOK(i) /\ (Promise!Closed(i)' <=> Promise!Closed(i)) /\ i # 0
    BY <1>2, OpelAssumption DEF LinesOK, Promise!Closed
  <2>8. handler[d] = i => Waits(i)
    BY <2>2 DEF Waits
  <2>9. ASSUME Waits(i)' PROVE Waits(i) /\ handler[d] # i
    <3>1. CASE \E e \in Cells : InSet(e)' /\ handler'[e] = i
      <4>1. PICK e \in Cells : InSet(e)' /\ handler'[e] = i
        BY <3>1
      <4>2. InSet(e) /\ e # d /\ handler[e] = i
        BY <4>1, <2>2, <2>3, <1>3
      <4>3. handler[d] = i => ReqId(e) = ReqId(d)
        BY <4>2, <2>7 DEF CellsOK, HandlerOK
      <4> QED
        BY <2>2, <4>2, <4>3, OneInSet DEF Waits, IInv
    <3>2. CASE at'["read"] = "insert" /\ handler'[held'["read"]] = i
      <4>1. at["read"] = "insert" /\ held["read"] \in Cells /\ handler[held["read"]] = i
        BY <3>2, <1>2, <1>3, <2>3 DEF IInv, Shape, QueueShape
      <4>2. handler[d] = i => ReqId(held["read"]) = ReqId(d)
        BY <4>1, <2>7 DEF CellsOK, HandlerOK
      <4>3. ReqId(held["read"]) # ReqId(d)
        BY <2>2, <4>1, FreeAssumption DEF InSet, IInv, WaitingOK, Apart
      <4> QED
        BY <4>1, <4>2, <4>3 DEF Waits
    <3> QED
      BY <2>9, <3>1, <3>2 DEF Waits
  <2>10. OrderOK(i)'
    <3> SUFFICES ASSUME NEW e \in Cells, NEW f \in Cells, Ahead(Line', e, f),
                        handler'[e] = i, handler'[f] = i
                 PROVE  GoesOn(e) /\ (Tells(f) => e[3] < f[3])
      BY <2>5 DEF OrderOK
    <3>1. CASE Ahead(Line, e, f)
      <4>1. handler[e] = i /\ handler[f] = i
        BY <3>1, <1>4, <2>3, AheadInLine
      <4> QED
        BY <3>1, <4>1, <2>7 DEF LineOK, OrderOK
    <3>2. CASE e \in ToSet(Line) /\ f = c
      <4>1. handler[e] = i /\ handler[d] = i
        BY <3>2, <1>4, <2>3
      <4>2. GoesOn(e)
        BY <3>2, <4>1, <2>7, <2>8 DEF LineOK, OpenOK
      <4> QED
        BY <3>2, <4>2, <2>6
    <3> QED
      BY <3>1, <3>2, <2>4
  <2>11. OpenOK(i)'
    <3> SUFFICES ASSUME NEW e \in ToSet(Line'), handler'[e] = i
                 PROVE  ~ Promise!Closed(i) /\ (Waits(i)' => GoesOn(e)) /\ (Tells(e) => Len(calls[i]) < e[3])
      BY <1>2, <2>5, <2>7 DEF OpenOK
    <3>1. CASE e \in ToSet(Line)
      BY <3>1, <1>4, <2>3, <2>7, <2>9 DEF LineOK, OpenOK
    <3>2. CASE e = c
      <4>1. handler[d] = i
        BY <3>2, <2>3
      <4> QED
        BY <3>2, <4>1, <2>6, <2>7, <2>8, <2>9 DEF LineOK, WaitsOK
    <3> QED
      BY <3>1, <3>2, <2>4
  <2>12. \A k \in 1 .. MaxAnswers[i] : handler'[Answer(i, k)] = handler[Answer(i, k)]
    <3> SUFFICES ASSUME NEW k \in 1 .. MaxAnswers[i]
                 PROVE  handler'[Answer(i, k)] = handler[Answer(i, k)]
      OBVIOUS
    <3>1. Answer(i, k) \in Cells /\ Answer(i, k)[1] = "answer"
      BY CellsMade DEF Answer
    <3> QED
      BY <3>1, <1>3, <2>3
  <2>13. /\ MaxAnswers[i] \in Nat /\ Len(answers[i]) \in Nat /\ Len(answers[i]) <= MaxAnswers[i]
    BY <2>7, LenProperties, OpelAssumption DEF LineOK, CallsOK, IInv, Shape, CountShape
  <2>14. PassedOK(i)'
    <3> SUFFICES ASSUME NEW k \in 1 .. MaxAnswers[i], handler'[Answer(i, k)] = i
                 PROVE  /\ k <= Len(answers[i])
                        /\ \A j \in 1 .. k : handler'[Answer(i, j)] = i
                        /\ Len(calls[i]) < k => Tells(Answer(i, k)) /\ Answer(i, k) \in ToSet(Line')
      BY <1>2, <2>5 DEF PassedOK
    <3>1. \A j \in 1 .. k : j \in 1 .. MaxAnswers[i]
      BY <2>13
    <3> QED
      BY <3>1, <2>4, <2>7, <2>12 DEF LineOK, PassedOK
  <2>15. WaitsOK(i)'
    <3>1. \A k \in 1 .. Len(answers[i]) : k \in 1 .. MaxAnswers[i]
      BY <2>13
    <3> QED
      BY <3>1, <1>2, <2>7, <2>9, <2>12 DEF LineOK, WaitsOK
  <2>16. CallsOK(i)'
    BY <1>2, <2>7 DEF LineOK, CallsOK
  <2> QED
    BY <2>10, <2>11, <2>14, <2>15, <2>16 DEF LineOK
<1> QED
  BY <1>5, <1>6, <1>7

LEMMA ReadLines ==
  ASSUME Before, LinesOK, NEW own \in 1 .. N, NEW kind \in {"part", "last"}, ReadAnswer(own, kind)
  PROVE  LinesOK'
<1> USE DEF Before, Types
<1>1. PICK new \in Nat : new = Len(answers[own]) + 1
  BY LenProperties DEF IInv, Shape, CountShape
<1>2. /\ at["read"] = "select" /\ Len(answers[own]) < MaxAnswers[own] /\ sent[own] > 0
      /\ Len(answers[own]) \in Nat /\ MaxAnswers[own] \in Nat
      /\ new \in 1 .. MaxAnswers[own] /\ ~ (new <= Len(answers[own]))
  <2>1. at["read"] = "select" /\ Len(answers[own]) < MaxAnswers[own] /\ sent[own] > 0
    BY DEF ReadAnswer
  <2>2. Len(answers[own]) \in Nat /\ MaxAnswers[own] \in Nat
    BY LenProperties, OpelAssumption DEF IInv, Shape, CountShape
  <2> QED
    BY <1>1, <2>1, <2>2
<1>3. PICK c \in Cells : c = Answer(own, new)
  BY <1>2, CellsMade
<1>4. c[1] = "answer" /\ c[2] = own /\ c[3] = new /\ ReqId(c) = own
  BY <1>3 DEF Answer, ReqId
<1>5. /\ Signal(c, 1) /\ held'["read"] = c
      /\ at'["read"] = "insert" => kind = "part"
      /\ UNCHANGED <<main, late, calls, asked>>
      /\ answers' = [answers EXCEPT ![own] = Append(@, kind)]
  BY <1>1, <1>3 DEF ReadAnswer, Goto, requests, outcome, IInv, Shape, WorksShape, QueueShape, Works
<1>6. /\ answers'[own] = Append(answers[own], kind) /\ answers'[own][new] = kind
      /\ Len(answers'[own]) = new
      /\ \A k \in 1 .. Len(answers[own]) : answers'[own][k] = answers[own][k]
      /\ \A j \in 1 .. N : j # own => answers'[j] = answers[j]
  <2>1. answers'[own] = Append(answers[own], kind) /\ answers[own] \in Seq({"part", "last"})
        /\ \A j \in 1 .. N : j # own => answers'[j] = answers[j]
    BY <1>5 DEF IInv, Shape, CountShape
  <2> QED
    BY <2>1, <1>1, AppendProperties
<1>7. ~ Made(c)
  BY <1>2, <1>4 DEF Made
<1>8. ~ ToHandle(c) /\ ~ InSet(c) /\ c \notin late
  BY <1>7, Nowhere
<1>9. c \notin ToSet(Line) /\ c \notin ToSet(ackQ) /\ ToSet(Line) \subseteq Cells
  BY <1>8, LineIs DEF ToHandle
<1>10. NotPassed(c, 1) \/ \E d \in Cells : Passed(c, 1, d)
  BY <1>5, <1>8, <1>9, SignalMoves, 1 \in Nat DEF IInv, Shape
<1>11. /\ \A e \in Cells : e # c => handler'[e] = handler[e]
       /\ \A e \in Cells : InSet(e)' => InSet(e) /\ ReqId(e) # own
       /\ handler'[c] \in {0, own}
       /\ handler'[c] = own => Waits(own)
       /\ Waits(own) => handler'[c] = own
       /\ \/ Line' = Line /\ handler'[c] # own
          \/ /\ ToSet(Line') = ToSet(Line) \cup {c}
             /\ \A e, f : Ahead(Line', e, f) <=> Ahead(Line, e, f) \/ (e \in ToSet(Line) /\ f = c)
  <2>1. handler[c] = 0
    <3>1. handler[c] # own
      BY <1>2, <1>3 DEF LinesOK, LineOK, PassedOK
    <3> QED
      BY <3>1, <1>4 DEF CellsOK, HandlerOK
  <2>2. CASE NotPassed(c, 1)
    <3>1. /\ ackQ' = ackQ /\ handler' = handler /\ \A e \in Cells : InSet(e)' <=> InSet(e)
          /\ \A e \in Cells : InSet(e) => ReqId(e) # own
      BY <2>2, <1>4 DEF NotPassed
    <3>2. own # 0
      BY OpelAssumption
    <3>3. ~ Waits(own)
      BY <3>1, <3>2, <1>2 DEF Waits, CellsOK, HandlerOK
    <3>4. Line' = Line
      BY <3>1, <1>5 DEF Line
    <3> QED
      BY <2>1, <3>1, <3>2, <3>3, <3>4
  <2>3. CASE \E d \in Cells : Passed(c, 1, d)
    <3>1. PICK d \in Cells : Passed(c, 1, d)
      BY <2>3
    <3>2. /\ InSet(d) /\ d # c /\ ReqId(d) = own /\ handler' = [handler EXCEPT ![c] = handler[d]]
          /\ ackQ' = Append(ackQ, c) /\ \A e \in Cells : InSet(e)' <=> InSet(e) /\ e # d
      BY <3>1, <1>4 DEF Passed
    <3>3. handler'[c] = handler[d] /\ \A e \in Cells : e # c => handler'[e] = handler[e]
      BY <3>2 DEF MemoryType
    <3>4. handler[d] \in {0, own}
      BY <3>2 DEF CellsOK, HandlerOK
    <3>5. \A e \in Cells : InSet(e)' => InSet(e) /\ ReqId(e) # own
      BY <3>2, OneInSet DEF IInv
    <3>6. handler[d] = own => Waits(own)
      BY <3>2 DEF Waits
    <3>7. Waits(own) => handler[d] = own
      BY <3>2, WaiterIs
    <3>8. /\ ToSet(Line') = ToSet(Line) \cup {c}
          /\ \A e, f : Ahead(Line', e, f) <=> Ahead(Line, e, f) \/ (e \in ToSet(Line) /\ f = c)
      BY <3>2, <1>5, LineGrows
    <3> QED
      BY <3>3, <3>4, <3>5, <3>6, <3>7, <3>8
  <2> QED
    BY <1>10, <2>2, <2>3
<1>12. \A e : Tells(e) <=> Tells(e)'
  BY <1>5 DEF Tells
<1>13. \A e \in ToSet(Line) : GoesOn(e) <=> GoesOn(e)'
  <2> SUFFICES ASSUME NEW e \in ToSet(Line), Tells(e)
               PROVE  answers'[e[2]][e[3]] = answers[e[2]][e[3]]
    BY <1>12 DEF GoesOn
  <2>1. e \in Cells /\ ToHandle(e)
    BY <1>9, LineIs
  <2>2. e[2] \in 1 .. N /\ e[3] \in 1 .. Len(answers[e[2]])
    <3>1. Made(e)
      BY <2>1 DEF CellsOK, RolesOK, RoleOK
    <3>2. e[2] \in 1 .. N /\ e[3] \in Nat /\ 1 <= e[3] /\ e[3] <= Len(answers[e[2]])
      BY <2>1, <3>1, CellKinds, OpelAssumption DEF Tells, Made
    <3>3. Len(answers[e[2]]) \in Nat
      BY <3>2, LenProperties DEF IInv, Shape, CountShape
    <3> QED
      BY <3>2, <3>3
  <2> QED
    BY <2>2, <1>6
<1>14. Tells(c)' /\ (kind = "part" => GoesOn(c)')
  BY <1>4, <1>5, <1>6, <1>8 DEF Tells, GoesOn
<1> SUFFICES ASSUME NEW i \in 1 .. N PROVE LineOK(i)'
  BY DEF LinesOK
<1>15. LineOK(i) /\ (Promise!Closed(i)' <=> Promise!Closed(i)) /\ i # 0
  BY <1>5, OpelAssumption DEF LinesOK, Promise!Closed
<1>16. ASSUME Waits(i)'
       PROVE  Waits(i) /\ (i = own => handler'[c] = own /\ kind = "part")
  <2>1. CASE \E e \in Cells : InSet(e)' /\ handler'[e] = i
    <3>1. PICK e \in Cells : InSet(e)' /\ handler'[e] = i
      BY <2>1
    <3>2. InSet(e) /\ ReqId(e) # own /\ handler[e] = i
      BY <3>1, <1>4, <1>8, <1>11
    <3>3. ReqId(e) = i
      BY <3>2, <1>15 DEF CellsOK, HandlerOK
    <3> QED
      BY <3>2, <3>3 DEF Waits
  <2>2. CASE at'["read"] = "insert" /\ handler'[held'["read"]] = i
    BY <2>2, <1>5, <1>11, <1>15
  <2> QED
    BY <1>16, <2>1, <2>2 DEF Waits
<1>17. OrderOK(i)'
  <2> SUFFICES ASSUME NEW e \in Cells, NEW f \in Cells, Ahead(Line', e, f),
                      handler'[e] = i, handler'[f] = i
               PROVE  GoesOn(e)' /\ (Tells(f) => e[3] < f[3])
    BY <1>12 DEF OrderOK
  <2>1. CASE Ahead(Line, e, f)
    <3>1. e \in ToSet(Line) /\ handler[e] = i /\ handler[f] = i
      BY <2>1, <1>9, <1>11, AheadInLine
    <3> QED
      BY <2>1, <3>1, <1>13, <1>15 DEF LineOK, OrderOK
  <2>2. CASE e \in ToSet(Line) /\ f = c
    <3>1. handler[e] = i /\ i = own /\ Waits(i)
      BY <2>2, <1>9, <1>11, <1>15
    <3>2. GoesOn(e) /\ GoesOn(e)'
      BY <2>2, <3>1, <1>13, <1>15 DEF LineOK, OpenOK
    <3>3. e[1] = "answer" /\ e[2] = own /\ Made(e)
      <4>1. ToHandle(e)
        BY <2>2, LineIs
      <4>2. e[1] = "answer"
        BY <3>2 DEF GoesOn, Tells
      <4>3. e[2] = own
        BY <3>1, <1>15 DEF CellsOK, HandlerOK, ReqId
      <4> QED
        BY <4>1, <4>2, <4>3 DEF CellsOK, RolesOK, RoleOK
    <3>4. e[3] < new
      <4>1. e[3] \in Nat /\ e[3] <= Len(answers[own])
        BY <3>3, <1>2, CellKinds DEF Made
      <4> QED
        BY <4>1, <1>1, <1>2
    <3> QED
      BY <2>2, <3>2, <3>4, <1>4
  <2> QED
    BY <2>1, <2>2, <1>11
<1>18. OpenOK(i)'
  <2> SUFFICES ASSUME NEW e \in ToSet(Line'), handler'[e] = i
               PROVE  ~ Promise!Closed(i) /\ (Waits(i)' => GoesOn(e)') /\ (Tells(e) => Len(calls[i]) < e[3])
    BY <1>5, <1>12, <1>15 DEF OpenOK
  <2>1. CASE e \in ToSet(Line)
    <3>1. handler[e] = i
      BY <2>1, <1>9, <1>11
    <3> QED
      BY <2>1, <3>1, <1>13, <1>15, <1>16 DEF LineOK, OpenOK
  <2>2. CASE e = c
    <3>1. i = own /\ Waits(i)
      BY <2>2, <1>11, <1>15
    <3>2. ~ Promise!Closed(i) /\ Len(calls[i]) <= Len(answers[i])
      BY <3>1, <1>15 DEF LineOK, WaitsOK, CallsOK
    <3>3. Len(calls[i]) < new
      <4>1. Len(calls[i]) \in Nat
        BY LenProperties DEF OutcomeType
      <4> QED
        BY <3>1, <3>2, <4>1, <1>1, <1>2
    <3>4. Waits(i)' => GoesOn(c)'
      BY <3>1, <1>14, <1>16
    <3> QED
      BY <2>2, <3>2, <3>3, <3>4, <1>4
  <2> QED
    BY <2>1, <2>2, <1>11
<1>19. \A k \in 1 .. MaxAnswers[i] :
         (i = own => k # new) => handler'[Answer(i, k)] = handler[Answer(i, k)]
  <2> SUFFICES ASSUME NEW k \in 1 .. MaxAnswers[i], i = own => k # new
               PROVE  handler'[Answer(i, k)] = handler[Answer(i, k)]
    OBVIOUS
  <2>1. Answer(i, k) \in Cells /\ Answer(i, k)[2] = i /\ Answer(i, k)[3] = k
    BY CellsMade DEF Answer
  <2>2. Answer(i, k) # c
    BY <2>1, <1>4
  <2> QED
    BY <2>1, <2>2, <1>11
<1>20. /\ MaxAnswers[i] \in Nat /\ Len(answers[i]) \in Nat /\ Len(answers[i]) <= MaxAnswers[i]
  BY <1>15, LenProperties, OpelAssumption DEF LineOK, CallsOK, IInv, Shape, CountShape
<1>21. ToSet(Line) \subseteq ToSet(Line')
  BY <1>11
<1>22. CASE i # own
  <2>1. answers'[i] = answers[i]
    BY <1>22, <1>6
  <2>2. PassedOK(i)'
    <3> SUFFICES ASSUME NEW k \in 1 .. MaxAnswers[i], handler'[Answer(i, k)] = i
                 PROVE  /\ k <= Len(answers[i])
                        /\ \A j \in 1 .. k : handler'[Answer(i, j)] = i
                        /\ Len(calls[i]) < k => Tells(Answer(i, k)) /\ Answer(i, k) \in ToSet(Line')
      BY <2>1, <1>5, <1>12 DEF PassedOK
    <3>1. \A j \in 1 .. k : j \in 1 .. MaxAnswers[i]
      BY <1>20
    <3> QED
      BY <3>1, <1>15, <1>19, <1>21, <1>22 DEF LineOK, PassedOK
  <2>3. WaitsOK(i)'
    <3>1. \A k \in 1 .. Len(answers[i]) : k \in 1 .. MaxAnswers[i]
      BY <1>20
    <3> QED
      BY <2>1, <3>1, <1>15, <1>16, <1>19, <1>22 DEF LineOK, WaitsOK
  <2>4. CallsOK(i)'
    BY <2>1, <1>5, <1>15 DEF LineOK, CallsOK
  <2> QED
    BY <2>2, <2>3, <2>4, <1>17, <1>18 DEF LineOK
<1>23. CASE i = own
  <2>1. \A j \in 1 .. new - 1 : j \in 1 .. Len(answers[i]) /\ j \in 1 .. MaxAnswers[i] /\ j # new
    BY <1>1, <1>2, <1>23
  <2>2. \A j \in 1 .. new : j \in 1 .. new - 1 \/ j = new
    BY <1>1
  <2>3. handler'[Answer(i, new)] = handler'[c]
    BY <1>3, <1>23
  <2>4. handler'[c] = own => Waits(i) /\ \A j \in 1 .. new : handler'[Answer(i, j)] = i
    <3> SUFFICES ASSUME handler'[c] = own, NEW j \in 1 .. new
                 PROVE  Waits(i) /\ handler'[Answer(i, j)] = i
      BY <1>2, <1>11, <1>23
    <3>1. Waits(i)
      BY <1>11, <1>23
    <3>2. CASE j = new
      BY <3>1, <3>2, <2>3, <1>23
    <3>3. CASE j \in 1 .. new - 1
      BY <3>1, <3>3, <2>1, <1>15, <1>19 DEF LineOK, WaitsOK
    <3> QED
      BY <3>1, <3>2, <3>3, <2>2
  <2>5. PassedOK(i)'
    <3> SUFFICES ASSUME NEW k \in 1 .. MaxAnswers[i], handler'[Answer(i, k)] = i
                 PROVE  /\ k <= new
                        /\ \A j \in 1 .. k : handler'[Answer(i, j)] = i
                        /\ Len(calls[i]) < k => Tells(Answer(i, k)) /\ Answer(i, k) \in ToSet(Line')
      BY <1>5, <1>6, <1>12, <1>23 DEF PassedOK
    <3>1. CASE k = new
      <4>1. handler'[c] = own
        BY <3>1, <2>3, <1>23
      <4>2. c \in ToSet(Line') /\ Tells(c)
        BY <4>1, <1>11, <1>12, <1>14
      <4> QED
        BY <3>1, <4>1, <4>2, <2>4, <1>2, <1>3, <1>23
    <3>2. CASE k # new
      <4>1. /\ k <= Len(answers[i]) /\ \A j \in 1 .. k : handler[Answer(i, j)] = i
            /\ Len(calls[i]) < k => Tells(Answer(i, k)) /\ Answer(i, k) \in ToSet(Line)
        BY <3>2, <1>15, <1>19 DEF LineOK, PassedOK
      <4>2. k <= new /\ \A j \in 1 .. k : j \in 1 .. MaxAnswers[i] /\ j # new
        BY <4>1, <1>1, <1>2, <1>23
      <4> QED
        BY <4>1, <4>2, <1>19, <1>21
    <3> QED
      BY <3>1, <3>2
  <2>6. WaitsOK(i)'
    <3> SUFFICES ASSUME Waits(i)'
                 PROVE  ~ Promise!Closed(i) /\ \A j \in 1 .. new : handler'[Answer(i, j)] = i
      BY <1>6, <1>15, <1>23 DEF WaitsOK
    <3>1. Waits(i) /\ handler'[c] = own
      BY <1>16, <1>23
    <3> QED
      BY <3>1, <2>4, <1>15 DEF LineOK, WaitsOK
  <2>7. CallsOK(i)'
    <3>1. ~ Promise!Closed(i) => Len(calls[i]) <= new
      <4>1. Len(calls[i]) \in Nat
        BY LenProperties DEF OutcomeType
      <4> QED
        BY <4>1, <1>1, <1>2, <1>15, <1>23 DEF LineOK, CallsOK
    <3>2. new <= MaxAnswers[i]
      BY <1>2, <1>23
    <3>3. i <= asked
      BY <1>2, <1>23 DEF IInv, KnownOK
    <3> QED
      BY <3>1, <3>2, <3>3, <1>5, <1>6, <1>15, <1>23 DEF CallsOK
  <2> QED
    BY <2>5, <2>6, <2>7, <1>17, <1>18 DEF LineOK
<1> QED
  BY <1>22, <1>23
LEMMA ExpireLines ==
  ASSUME Before, LinesOK, TimedOut, process' = "runs"
  PROVE  LinesOK'
<1> USE DEF Before, Types
<1>1. /\ at["ra"] = "wait" /\ at'["read"] = at["read"] /\ Expire
      /\ UNCHANGED <<main, held, handler, answers, calls, asked>>
  BY DEF TimedOut, Goto, requests, peer, outcome, IInv, Shape, WorksShape, Works
<1>2. main.at # "take"
  BY <1>1 DEF IInv, WorksOK, Acking, Rest
<1>3. PICK q : Moved(q)
  BY <1>1, ExpireMoves DEF IInv, Shape
<1>4. /\ q \in Seq(Cells) /\ IsInjective(q) /\ ToSet(q) \subseteq Cells
      /\ \A c \in Cells : c \in ToSet(q) <=> \E s \in Expired : slots[s] = c
      /\ ackQ' = ackQ \o q /\ late' = late \cup ToSet(q)
      /\ ToSet(q) \cap ToSet(ackQ) = {}
  <2>1. process' = IF ToSet(q) \cap ToSet(ackQ) # {} THEN "undefined" ELSE process
    BY <1>3 DEF Moved
  <2>2. ToSet(q) \cap ToSet(ackQ) = {}
    BY <2>1
  <2>3. ToSet(q) \subseteq Cells
    BY <1>3, LenProperties DEF Moved, ToSet
  <2> QED
    BY <1>3, <2>2, <2>3 DEF Moved
<1>5. Line = ackQ /\ Line' = ackQ \o q /\ ackQ \in Seq(Cells) /\ ToSet(ackQ) \subseteq Cells
  BY <1>1, <1>2, <1>4, LenProperties DEF Line, MemoryType, ToSet
<1>6. /\ ToSet(Line') = ToSet(ackQ) \cup ToSet(q)
      /\ \A e, f : Ahead(Line', e, f)
                     <=> Ahead(ackQ, e, f) \/ Ahead(q, e, f) \/ (e \in ToSet(ackQ) /\ f \in ToSet(q))
  <2>1. ToSet(ackQ \o q) = ToSet(ackQ) \cup ToSet(q)
    BY <1>4, <1>5, PutInAll
  <2>2. \A e, f : Ahead(ackQ \o q, e, f)
                    <=> Ahead(ackQ, e, f) \/ Ahead(q, e, f) \/ (e \in ToSet(ackQ) /\ f \in ToSet(q))
    BY <1>4, <1>5, AheadInBoth
  <2>3. ToSet(Line') = ToSet(ackQ) \cup ToSet(q)
    BY <1>5, <2>1
  <2>4. ASSUME NEW e, NEW f
        PROVE  Ahead(Line', e, f)
                 <=> Ahead(ackQ, e, f) \/ Ahead(q, e, f) \/ (e \in ToSet(ackQ) /\ f \in ToSet(q))
    BY <1>5, <2>2
  <2> QED
    BY <2>3, <2>4
<1>7. slots' = [s \in Slots |-> IF s \in Expired THEN Free ELSE slots[s]]
  BY <1>1 DEF Expire
<1>8. ASSUME NEW e \in Cells
      PROVE  (e \in ToSet(q) => InSet(e)) /\ (InSet(e)' => InSet(e) /\ e \notin ToSet(q))
  <2>1. e \in ToSet(q) => InSet(e)
    BY <1>4 DEF InSet, Expired
  <2>2. InSet(e)' => InSet(e) /\ e \notin ToSet(q)
    <3>1. e # Free
      BY FreeAssumption
    <3>2. ASSUME NEW s \in Slots, NEW t \in Slots, slots[s] = e, slots[t] = e PROVE s = t
      BY <3>1, <3>2 DEF IInv, WaitingOK, Waiting
    <3> QED
      BY <3>1, <3>2, <1>4, <1>7 DEF InSet, Expired
  <2> QED
    BY <2>1, <2>2
<1>9. /\ \A e : e \notin ToSet(q) => (Tells(e)' <=> Tells(e)) /\ (GoesOn(e)' <=> GoesOn(e))
      /\ \A e \in ToSet(q) : ~ Tells(e)'
  BY <1>1, <1>4 DEF Tells, GoesOn
<1> SUFFICES ASSUME NEW i \in 1 .. N PROVE LineOK(i)'
  BY DEF LinesOK
<1>10. LineOK(i) /\ (Promise!Closed(i)' <=> Promise!Closed(i)) /\ i # 0
  BY <1>1, OpelAssumption DEF LinesOK, Promise!Closed
<1>11. \A e \in ToSet(q) : handler[e] = i => Waits(i) /\ InSet(e) /\ ReqId(e) = i
  BY <1>4, <1>8, <1>10 DEF Waits, CellsOK, HandlerOK
<1>12. ASSUME Waits(i)' PROVE Waits(i) /\ \A e \in ToSet(q) : handler[e] # i
  <2>1. CASE \E e \in Cells : InSet(e)' /\ handler'[e] = i
    <3>1. PICK e \in Cells : InSet(e)' /\ handler[e] = i
      BY <2>1, <1>1
    <3>2. InSet(e) /\ e \notin ToSet(q) /\ ReqId(e) = i
      BY <3>1, <1>8, <1>10 DEF CellsOK, HandlerOK
    <3>3. \A f \in ToSet(q) : handler[f] # i
      BY <3>2, <1>4, <1>11, OneInSet DEF IInv
    <3> QED
      BY <3>1, <3>2, <3>3 DEF Waits
  <2>2. CASE at'["read"] = "insert" /\ handler'[held'["read"]] = i
    <3>1. at["read"] = "insert" /\ held["read"] \in Cells /\ handler[held["read"]] = i
      BY <2>2, <1>1 DEF IInv, Shape, QueueShape
    <3>2. ReqId(held["read"]) = i
      BY <3>1, <1>10 DEF CellsOK, HandlerOK
    <3>3. \A f \in Cells : InSet(f) => ReqId(f) # i
      BY <3>1, <3>2, FreeAssumption DEF InSet, IInv, WaitingOK, Apart
    <3> QED
      BY <3>1, <3>3, <1>4, <1>11 DEF Waits
  <2> QED
    BY <1>12, <2>1, <2>2 DEF Waits
<1>13. OrderOK(i)'
  <2> SUFFICES ASSUME NEW e \in Cells, NEW f \in Cells, Ahead(Line', e, f), handler[e] = i, handler[f] = i
               PROVE  GoesOn(e)' /\ (Tells(f)' => e[3] < f[3])
    BY <1>1 DEF OrderOK
  <2>1. CASE Ahead(ackQ, e, f)
    <3>1. e \notin ToSet(q) /\ f \notin ToSet(q)
      BY <2>1, <1>4, <1>5, AheadInLine
    <3>2. GoesOn(e) /\ (Tells(f) => e[3] < f[3])
      BY <2>1, <1>5, <1>10 DEF LineOK, OrderOK
    <3> QED
      BY <3>1, <3>2, <1>9
  <2>2. CASE Ahead(q, e, f)
    <3>1. e \in ToSet(q) /\ f \in ToSet(q) /\ e # f
      BY <2>2, <1>4, AheadInQueue
    <3> QED
      BY <3>1, <1>11, OneInSet DEF IInv
  <2>3. CASE e \in ToSet(ackQ) /\ f \in ToSet(q)
    <3>1. e \notin ToSet(q) /\ Waits(i)
      BY <2>3, <1>4, <1>11
    <3>2. GoesOn(e)
      BY <2>3, <3>1, <1>5, <1>10 DEF LineOK, OpenOK
    <3> QED
      BY <2>3, <3>1, <3>2, <1>9
  <2> QED
    BY <2>1, <2>2, <2>3, <1>6
<1>14. OpenOK(i)'
  <2> SUFFICES ASSUME NEW e \in ToSet(Line'), handler[e] = i
               PROVE  ~ Promise!Closed(i) /\ (Waits(i)' => GoesOn(e)') /\ (Tells(e)' => Len(calls[i]) < e[3])
    BY <1>1, <1>10 DEF OpenOK
  <2>1. CASE e \in ToSet(ackQ)
    <3>1. e \notin ToSet(q)
      BY <2>1, <1>4
    <3> QED
      BY <2>1, <3>1, <1>5, <1>9, <1>10, <1>12 DEF LineOK, OpenOK
  <2>2. CASE e \in ToSet(q)
    BY <2>2, <1>9, <1>10, <1>11, <1>12 DEF LineOK, WaitsOK
  <2> QED
    BY <2>1, <2>2, <1>6
<1>15. PassedOK(i)'
  <2> SUFFICES ASSUME NEW k \in 1 .. MaxAnswers[i], handler[Answer(i, k)] = i
               PROVE  /\ k <= Len(answers[i])
                      /\ \A j \in 1 .. k : handler[Answer(i, j)] = i
                      /\ Len(calls[i]) < k => Tells(Answer(i, k))' /\ Answer(i, k) \in ToSet(Line')
    BY <1>1 DEF PassedOK
  <2>1. /\ k <= Len(answers[i])
        /\ \A j \in 1 .. k : handler[Answer(i, j)] = i
        /\ Len(calls[i]) < k => Tells(Answer(i, k)) /\ Answer(i, k) \in ToSet(ackQ)
    BY <1>5, <1>10 DEF LineOK, PassedOK
  <2>2. Answer(i, k) \in ToSet(ackQ) => Answer(i, k) \notin ToSet(q)
    BY <1>4
  <2> QED
    BY <2>1, <2>2, <1>6, <1>9
<1>16. WaitsOK(i)' /\ CallsOK(i)'
  BY <1>1, <1>10, <1>12 DEF LineOK, WaitsOK, CallsOK
<1> QED
  BY <1>13, <1>14, <1>15, <1>16 DEF LineOK

-----------------------------------------------------------------------------
(* The proof that every step keeps the invariant                           *)

LEMMA InitLines == Init => LinesInv
<1> SUFFICES ASSUME Init PROVE LinesInv
  OBVIOUS
<1>1. CellsInv
  BY InitCells
<1>2. ASSUME NEW i \in 1 .. N PROVE LineOK(i)
  <2>1. /\ main.at = "loop" /\ ackQ = <<>> /\ late = {} /\ at["read"] = "off"
        /\ calls[i] = <<>> /\ answers[i] = <<>>
        /\ \A c \in Cells : handler[c] = 0
    BY DEF Init, Works
  <2>2. i # 0 /\ MaxAnswers[i] \in Nat
    BY OpelAssumption
  <2>3. Line = <<>> /\ ToSet(Line) = {} /\ \A c, d : ~ Ahead(Line, c, d)
    BY <2>1 DEF Line, ToSet, Ahead
  <2>4. ~ Waits(i) /\ ~ Promise!Closed(i)
    BY <2>1, <2>2 DEF Waits, Promise!Closed
  <2>5. OrderOK(i) /\ OpenOK(i)
    BY <2>3 DEF OrderOK, OpenOK
  <2>6. PassedOK(i)
    BY <2>1, <2>2, CellsMade DEF PassedOK
  <2>7. WaitsOK(i) /\ CallsOK(i)
    BY <2>1, <2>2, <2>4 DEF WaitsOK, CallsOK
  <2> QED
    BY <2>5, <2>6, <2>7 DEF LineOK
<1> QED
  BY <1>1, <1>2 DEF LinesInv, LinesOK

LEMMA LinesStep ==
  ASSUME Before, LinesOK, Next, process' = "runs"
  PROVE  LinesOK'
<1>1. Aside => LinesOK'
  BY AsideLines DEF Before
<1>2. Submit \/ CallHandler => LinesOK'
  BY SubmitLines, CallLines DEF Before, Types
<1>3. AckDequeue \/ ReadInsert => LinesOK'
  BY DequeueLines, InsertLines DEF Before, Types
<1>4. WriteFails \/ TimedOut => LinesOK'
  BY FailLines, ExpireLines
<1>5. (\E i \in 1 .. N, kind \in {"part", "last"} : ReadAnswer(i, kind)) => LinesOK'
  BY ReadLines
<1> QED
  BY <1>1, <1>2, <1>3, <1>4, <1>5
  DEF Next, Main, Reader, ReaderGoesOn, Writer, Aside, Alone

LEMMA AlwaysLines == Spec => []LinesInv
<1>1. Init => LinesInv
  BY InitLines
<1>2. ASSUME LinesInv, [Next]_vars PROVE LinesInv'
  <2>1. CellsInv'
    BY <1>2, KeepsCells DEF LinesInv
  <2>2. ASSUME process' = "runs" PROVE LinesOK'
    <3>1. CASE Next
      <4>1. Before
        BY <1>2, <2>1, <3>1 DEF Next, LinesInv, CellsInv, Before
      <4> QED
        BY <1>2, <2>2, <3>1, <4>1, LinesStep DEF LinesInv, Before
    <3>2. CASE UNCHANGED vars
      <4>1. process = "runs"
        BY <2>2, <3>2 DEF vars
      <4> QED
        BY <1>2, <3>2, <4>1, AsideLines DEF LinesInv, CellsInv, Aside, Alone
    <3> QED
      BY <1>2, <3>1, <3>2
  <2> QED
    BY <2>1, <2>2 DEF LinesInv
<1> QED
  BY <1>1, <1>2, PTL DEF Spec

-----------------------------------------------------------------------------
(* The refinement                                                          *)

(* A step of the threads is a step of Outcomes: the script makes a request,*)
(* a handler is called, or nothing that Outcomes sees happens.             *)
LEMMA StepImplements ==
  ASSUME LinesInv, [Next]_vars
  PROVE  [Promise!Next]_<<asked, calls>>
<1>1. CASE UNCHANGED <<asked, calls>>
  BY <1>1
<1>2. CASE Next /\ Submit
  <2>1. asked < N /\ asked' = asked + 1 /\ calls' = calls
    BY <1>2 DEF Submit
  <2> QED
    BY <2>1 DEF Promise!Next, Promise!Ask
<1>3. CASE Next /\ CallHandler
  <2>1. IInv /\ Types /\ CellsOK /\ LinesOK
    BY <1>3 DEF Next, LinesInv, CellsInv
  <2>2. PICK c \in Cells : c = main.cell
    BY <1>3, <2>1 DEF CallHandler, Types, MemoryType, CellsOK, HoldOK
  <2>3. /\ main.at = "take" /\ asked' = asked
        /\ calls' = IF handler[c] = 0 THEN calls
                    ELSE [calls EXCEPT ![handler[c]] = Append(@, Told(c))]
    BY <1>3, <2>2 DEF CallHandler, requests
  <2>4. CASE handler[c] = 0
    BY <2>3, <2>4
  <2>5. CASE handler[c] # 0
    <3>1. PICK i \in 1 .. N : i = handler[c]
      <4>1. handler[c] \in 0 .. N
        BY <2>1 DEF Types, MemoryType
      <4> QED
        BY <2>5, <4>1, OpelAssumption
    <3>2. /\ i <= asked /\ ~ Promise!Closed(i)
          /\ Tells(c) => c[3] = Len(calls[i]) + 1
      BY <2>1, <2>2, <2>3, <3>1, FirstInTurn DEF Types
    <3>3. Len(calls[i]) \in Nat
      BY <2>1, LenProperties DEF Types, OutcomeType
    <3>4. calls' = [calls EXCEPT ![i] = Append(@, Told(c))]
      BY <2>3, <2>5, <3>1
    <3>5. \E what \in {"part", "answer", "failed", "late"} : \E number \in 0 .. Len(calls[i]) + 1 :
            /\ Told(c) = <<what, number>>
            /\ number = IF what \in {"part", "answer"} THEN Len(calls[i]) + 1 ELSE 0
      <4>1. CASE c \in late
        <5>1. Told(c) = <<"late", 0>> /\ 0 \in 0 .. Len(calls[i]) + 1
          BY <4>1, <3>3 DEF Told
        <5> QED
          BY <5>1
      <4>2. CASE c \notin late /\ c[1] = "answer"
        <5>1. c[3] = Len(calls[i]) + 1 /\ c[3] \in 0 .. Len(calls[i]) + 1
          BY <4>2, <3>2, <3>3 DEF Tells
        <5>2. Told(c) = <<"part", c[3]>> \/ Told(c) = <<"answer", c[3]>>
          BY <4>2 DEF Told
        <5> QED
          BY <5>1, <5>2
      <4>3. CASE c \notin late /\ c[1] # "answer"
        <5>1. Told(c) = <<"failed", 0>> /\ 0 \in 0 .. Len(calls[i]) + 1
          BY <4>3, <3>3 DEF Told
        <5> QED
          BY <5>1
      <4> QED
        BY <4>1, <4>2, <4>3
    <3>6. PICK what \in {"part", "answer", "failed", "late"}, number \in 0 .. Len(calls[i]) + 1 :
            /\ Told(c) = <<what, number>>
            /\ number = IF what \in {"part", "answer"} THEN Len(calls[i]) + 1 ELSE 0
      BY <3>5
    <3>7. Promise!Tell(i, what, number)
      BY <2>3, <3>2, <3>4, <3>6 DEF Promise!Tell
    <3> QED
      BY <3>6, <3>7 DEF Promise!Next
  <2> QED
    BY <2>4, <2>5
<1>4. CASE Next /\ ~ Submit /\ ~ CallHandler
  <2>1. IInv
    BY DEF LinesInv, CellsInv
  <2>2. Aside => UNCHANGED <<asked, calls>>
    BY <2>1, AsideIsBeside DEF Beside
  <2>3. AckDequeue \/ ReadInsert \/ WriteFails \/ TimedOut => UNCHANGED <<asked, calls>>
    BY DEF AckDequeue, ReadInsert, WriteFails, TimedOut, requests, outcome
  <2>4. (\E i \in 1 .. N, kind \in {"part", "last"} : ReadAnswer(i, kind)) => UNCHANGED <<asked, calls>>
    BY DEF ReadAnswer, requests, outcome
  <2>5. UNCHANGED <<asked, calls>>
    BY <1>4, <2>2, <2>3, <2>4 DEF Next, Main, Reader, ReaderGoesOn, Writer, Aside, Alone
  <2> QED
    BY <2>5
<1>5. CASE UNCHANGED vars
  BY <1>5 DEF vars, requests, outcome
<1> QED
  BY <1>2, <1>3, <1>4, <1>5

(* Whatever the order in which answers, failed writes and timeouts meet in *)
(* the req_set and in ack_queue, the handler of a request is called as     *)
(* Outcomes says: the parts in the order of the companion, none left out,  *)
(* then the end, once.                                                     *)
THEOREM ClientKeepsItsPromise == Spec => OutcomesSpec
<1>1. Init => Promise!Init
  BY DEF Init, Promise!Init
<1>2. ASSUME LinesInv, [Next]_vars PROVE [Promise!Next]_<<asked, calls>>
  BY <1>2, StepImplements
<1> QED
  BY <1>1, <1>2, AlwaysLines, PTL DEF Spec, OutcomesSpec, Promise!Spec

=============================================================================
