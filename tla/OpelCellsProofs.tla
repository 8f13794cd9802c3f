-------------------------- MODULE OpelCellsProofs --------------------------
(***************************************************************************)
(* Proofs about the cells of OpelClient, the queue_data_t that the four    *)
(* threads hand to each other: attached is the number of the holders of a  *)
(* cell, and every variable keeps its type, for any number of requests,    *)
(* messages, places to wait in and threads of the pool.                    *)
(***************************************************************************)
EXTENDS OpelClientProofs, WellFoundedInduction

-----------------------------------------------------------------------------
(* Numbers, places and queues                                              *)

LEMMA LeastNumber ==
  ASSUME NEW T, T \subseteq Nat, T # {}
  PROVE  \E m \in T : \A k \in T : m <= k
<1>1. PICK m \in T : \A k \in T : ~ (<<k, m>> \in OpToRel(<, Nat))
  BY NatLessThanWellFounded, WFMin
<1>2. \A k \in T : ~ (k < m)
  BY <1>1 DEF OpToRel
<1> QED
  BY <1>2

(* A set of places has an enumeration in their order: the loop of wait     *)
(* passes every place of the set, and none twice.                          *)
Enumerates(f, places) ==
  /\ f \in [1 .. Cardinality(places) -> places]
  /\ \A m, n \in DOMAIN f : m < n => f[m] < f[n]

LEMMA OneMorePlace ==
  ASSUME NEW n \in Nat, NEW S \in SUBSET (1 .. n + 1), n + 1 \in S,
         NEW f, Enumerates(f, S \ {n + 1})
  PROVE  \E g : Enumerates(g, S)
<1> DEFINE T == S \ {n + 1}
           k == Cardinality(T)
<1>1. IsFiniteSet(T) /\ k \in Nat
  <2>1. IsFiniteSet(1 .. n + 1)
    BY FS_Interval
  <2>2. T \in SUBSET (1 .. n + 1)
    OBVIOUS
  <2> QED
    BY <2>1, <2>2, FS_Subset, FS_CardinalityType
<1>2. Cardinality(S) = k + 1
  <2>1. S = T \cup {n + 1} /\ n + 1 \notin T
    OBVIOUS
  <2> QED
    BY <1>1, <2>1, FS_AddElement
<1>3. \A i \in 1 .. k : f[i] \in T /\ f[i] \in Nat /\ f[i] < n + 1
  <2>1. \A i \in 1 .. k : f[i] \in T
    BY DEF Enumerates
  <2>2. \A t \in T : t \in Nat /\ t < n + 1
    OBVIOUS
  <2> QED
    BY <2>1, <2>2
<1>4. \A i, j \in 1 .. k : i < j => f[i] < f[j]
  BY DEF Enumerates
<1> HIDE DEF T, k
<1> DEFINE g == [i \in 1 .. k + 1 |-> IF i = k + 1 THEN n + 1 ELSE f[i]]
<1>5. \A i \in 1 .. k + 1 : i = k + 1 \/ i \in 1 .. k
  BY <1>1
<1>6. g \in [1 .. k + 1 -> S]
  BY <1>3, <1>5 DEF T
<1>7. ASSUME NEW i \in 1 .. k + 1, NEW j \in 1 .. k + 1, i < j PROVE g[i] < g[j]
  <2>1. i \in 1 .. k /\ i # k + 1
    BY <1>1, <1>7
  <2> QED
    BY <2>1, <1>3, <1>4, <1>5, <1>7
<1>8. Enumerates(g, S)
  BY <1>2, <1>6, <1>7 DEF Enumerates
<1> QED
  BY <1>8

LEMMA SomeOrder ==
  ASSUME NEW n \in Nat, NEW S \in SUBSET (1 .. n)
  PROVE  \E f : Enumerates(f, S)
<1> DEFINE Bad == {k \in Nat : \E R \in SUBSET (1 .. k) : \A f : ~ Enumerates(f, R)}
<1>1. Bad = {}
  <2> SUFFICES ASSUME Bad # {} PROVE FALSE
    OBVIOUS
  <2>1. PICK k \in Bad : \A j \in Bad : k <= j
    BY LeastNumber
  <2>2. PICK R \in SUBSET (1 .. k) : \A f : ~ Enumerates(f, R)
    BY <2>1
  <2>3. CASE k = 0
    <3>1. R = {} /\ Cardinality(R) = 0
      <4>1. R \subseteq 1 .. 0
        BY <2>3
      <4>2. R = {}
        BY <4>1
      <4> QED
        BY <4>2, FS_EmptySet
    <3>2. Enumerates([i \in 1 .. 0 |-> 0], R)
      BY <3>1 DEF Enumerates
    <3> QED
      BY <2>2, <3>2
  <2>4. CASE k # 0
    <3>1. k - 1 \in Nat /\ (k - 1) + 1 = k /\ ~ (k <= k - 1)
      BY <2>1, <2>4
    <3>2. k - 1 \notin Bad
      BY <2>1, <3>1
    <3>3. R \ {k} \in SUBSET (1 .. k - 1)
      BY <2>2, <3>1
    <3>4. PICK f : Enumerates(f, R \ {k})
      BY <3>1, <3>2, <3>3
    <3>5. k \in R
      <4>1. R \ {k} = R => FALSE
        BY <3>4, <2>2
      <4> QED
        BY <4>1
    <3> QED
      BY <2>2, <3>1, <3>4, <3>5, OneMorePlace
  <2> QED
    BY <2>3, <2>4
<1> QED
  BY <1>1

LEMMA OrderPasses ==
  ASSUME NEW S \in SUBSET Slots
  PROVE  /\ Cardinality(S) \in Nat
         /\ InOrder(S) \in [1 .. Cardinality(S) -> S]
         /\ \A m, n \in 1 .. Cardinality(S) : m < n => InOrder(S)[m] < InOrder(S)[n]
         /\ \A s \in S : \E n \in 1 .. Cardinality(S) : InOrder(S)[n] = s
<1> DEFINE f == InOrder(S)
           k == Cardinality(S)
<1>1. IsFiniteSet(S) /\ k \in Nat
  <2>1. MaxReq \in Int /\ 1 \in Int
    BY OpelAssumption
  <2>2. IsFiniteSet(Slots)
    BY <2>1, FS_Interval DEF Slots
  <2> QED
    BY <2>2, FS_Subset, FS_CardinalityType
<1>2. \E g : Enumerates(g, S)
  BY SomeOrder, OpelAssumption DEF Slots
<1>3. f \in [1 .. k -> S] /\ \A m, n \in DOMAIN f : m < n => f[m] < f[n]
  BY <1>2 DEF InOrder, Enumerates
<1>4. f \in Injection(1 .. k, S)
  <2>1. ASSUME NEW m \in 1 .. k, NEW n \in 1 .. k, f[m] = f[n] PROVE m = n
    <3>1. f[m] \in S /\ S \subseteq Nat
      BY <1>3, OpelAssumption DEF Slots
    <3>2. ~ (f[m] < f[n]) /\ ~ (f[n] < f[m])
      <4> HIDE DEF f
      <4>1. f[m] \in Nat /\ f[n] = f[m]
        BY <2>1, <3>1
      <4> QED
        BY <4>1
    <3> QED
      BY <1>1, <1>3, <3>2
  <2> QED
    BY <1>3, <2>1 DEF Injection, IsInjective
<1>5. IsFiniteSet(1 .. k) /\ Cardinality(1 .. k) = k
  BY <1>1, FS_Interval
<1>6. f \in Surjection(1 .. k, S)
  BY <1>1, <1>4, <1>5, FS_Injection
<1> QED
  BY <1>1, <1>3, <1>6 DEF Surjection

(* A queue to which another one is appended.                               *)
LEMMA PutInAll ==
  ASSUME NEW S, NEW q \in Seq(S), NEW r \in Seq(S)
  PROVE  /\ q \o r \in Seq(S)
         /\ ToSet(q \o r) = ToSet(q) \cup ToSet(r)
         /\ IsInjective(q) /\ IsInjective(r) /\ ToSet(q) \cap ToSet(r) = {}
              => IsInjective(q \o r)
<1> DEFINE a == Len(q)
           b == Len(r)
<1>1. /\ a \in Nat /\ b \in Nat /\ DOMAIN q = 1 .. a /\ DOMAIN r = 1 .. b
      /\ q \o r \in Seq(S) /\ DOMAIN (q \o r) = 1 .. a + b
  BY ConcatProperties, LenProperties
<1>2. \A i \in 1 .. a + b : (q \o r)[i] = IF i <= a THEN q[i] ELSE r[i - a]
  BY ConcatProperties
<1>3. \A i \in 1 .. a : i \in 1 .. a + b /\ (q \o r)[i] = q[i]
  BY <1>1, <1>2
<1>4. \A i \in 1 .. b : i + a \in 1 .. a + b /\ (q \o r)[i + a] = r[i]
  <2> SUFFICES ASSUME NEW i \in 1 .. b
               PROVE  i + a \in 1 .. a + b /\ (q \o r)[i + a] = r[i]
    OBVIOUS
  <2>1. i + a \in 1 .. a + b /\ ~ (i + a <= a) /\ (i + a) - a = i
    BY <1>1
  <2> QED
    BY <1>2, <2>1
<1>5. \A i \in 1 .. a + b : i \in 1 .. a \/ \E j \in 1 .. b : i = j + a
  <2> SUFFICES ASSUME NEW i \in 1 .. a + b, i \notin 1 .. a
               PROVE  \E j \in 1 .. b : i = j + a
    OBVIOUS
  <2>1. i - a \in 1 .. b /\ i = (i - a) + a
    BY <1>1
  <2> QED
    BY <2>1
<1> HIDE DEF a, b
<1>6. ToSet(q \o r) = ToSet(q) \cup ToSet(r)
  <2>1. ASSUME NEW e \in ToSet(q \o r) PROVE e \in ToSet(q) \cup ToSet(r)
    BY <1>1, <1>3, <1>4, <1>5 DEF ToSet
  <2>2. ASSUME NEW e \in ToSet(q) PROVE e \in ToSet(q \o r)
    BY <1>1, <1>3 DEF ToSet
  <2>3. ASSUME NEW e \in ToSet(r) PROVE e \in ToSet(q \o r)
    BY <1>1, <1>4 DEF ToSet
  <2> QED
    BY <2>1, <2>2, <2>3
<1>7. ASSUME IsInjective(q), IsInjective(r), ToSet(q) \cap ToSet(r) = {}
      PROVE  IsInjective(q \o r)
  <2>1. \A i \in 1 .. a, j \in 1 .. b : q[i] # r[j]
    BY <1>1, <1>7 DEF ToSet
  <2>2. ASSUME NEW i \in 1 .. a + b, NEW j \in 1 .. a + b, (q \o r)[i] = (q \o r)[j]
        PROVE  i = j
    <3>1. CASE i \in 1 .. a /\ j \in 1 .. a
      BY <3>1, <2>2, <1>1, <1>3, <1>7 DEF IsInjective
    <3>2. CASE i \in 1 .. a /\ j \notin 1 .. a
      <4>1. PICK l \in 1 .. b : j = l + a
        BY <3>2, <1>5
      <4> QED
        BY <3>2, <4>1, <2>1, <2>2, <1>3, <1>4
    <3>3. CASE i \notin 1 .. a /\ j \in 1 .. a
      <4>1. PICK l \in 1 .. b : i = l + a
        BY <3>3, <1>5
      <4> QED
        BY <3>3, <4>1, <2>1, <2>2, <1>3, <1>4
    <3>4. CASE i \notin 1 .. a /\ j \notin 1 .. a
      <4>1. PICK l \in 1 .. b : i = l + a
        BY <3>4, <1>5
      <4>2. PICK m \in 1 .. b : j = m + a
        BY <3>4, <1>5
      <4>3. r[l] = r[m]
        BY <4>1, <4>2, <2>2, <1>4
      <4> QED
        BY <4>1, <4>2, <4>3, <1>1, <1>7 DEF IsInjective
    <3> QED
      BY <3>1, <3>2, <3>3, <3>4
  <2> QED
    BY <2>2, <1>1 DEF IsInjective
<1> QED
  BY <1>1, <1>6, <1>7

(* Cells of the same kind, request and number are the same.                *)
LEMMA SameCell ==
  ASSUME NEW c \in Cells, NEW d \in Cells, c[1] = d[1], c[2] = d[2], c[3] = d[3]
  PROVE  c = d
<1>1. ASSUME NEW e \in Cells PROVE e = <<e[1], e[2], e[3]>>
  <2>1. \/ \E i \in 1 .. N : e = Entry(i)
        \/ \E i \in 1 .. N : \E p \in 1 .. Size[i] : e = Packet(i, p)
        \/ \E i \in 1 .. N : \E k \in 1 .. MaxAnswers[i] : e = Answer(i, k)
        \/ \E j \in 1 .. MaxMessages : e = Message(j) \/ e = Reply(j)
        \/ \E n \in 1 .. MaxFailures : e = Notice(n)
    BY DEF Cells, EntryCells, PacketCells, AnswerCells, MessageCells, ReplyCells, NoticeCells
  <2> QED
    BY <2>1 DEF Entry, Packet, Answer, Message, Reply, Notice
<1> QED
  BY <1>1

-----------------------------------------------------------------------------
(* The inductive invariant                                                 *)

(* Who has a cell: the writer, the event loop for a handler, the req_set.  *)
ToWrite(c)  == c \in ToSet(writeQ) \/ held["write"] = c \/ main.new = c
ToHandle(c) == c \in ToSet(ackQ) \/ main.cell = c
InSet(c)    == \E s \in Slots : slots[s] = c

(* The cell was made: its number was given out.                            *)
Made(c) ==
  /\ c[1] \in {"entry", "packet"} => c[2] <= asked
  /\ c[1] = "packet" => c[3] <= sent[c[2]] + 1
  /\ c[1] = "answer" => c[3] <= Len(answers[c[2]])
  /\ c[1] \in {"message", "reply"} => c[2] <= read
  /\ c[1] = "notice" => c[2] <= failures

(* A thread has a cell exactly in the steps that use it.                   *)
HoldOK ==
  /\ held["write"] # Free <=> at["write"] = "writing"
  /\ held["read"] # Free <=> at["read"] \in {"insert", "release", "test"}
  /\ main.new # Free <=> main.at = "put"
  /\ main.cell # Free <=> main.at \in {"take", "drop", "test"} \/ Calls("drop")

(* What a cell may be where it is.  A packet or a reply that is to be      *)
(* written is nowhere else, a packet is the next one of its request, and   *)
(* a message is answered after it was taken out of read_queue.             *)
RoleOK(c) ==
  /\ ToWrite(c) => /\ c[1] \in {"packet", "reply"} /\ Made(c) /\ ~ ToHandle(c)
                   /\ c[1] = "packet" => c[3] = sent[c[2]] + 1
  /\ ToHandle(c) => c[1] \in {"entry", "packet", "answer", "reply"} /\ Made(c)
  /\ InSet(c) => Made(c)
  /\ held["read"] = c => c[1] = "answer" /\ Made(c)
  /\ c \in ToSet(readQ) => c[1] \in {"message", "notice"} /\ Made(c)
  /\ c[1] = "reply" /\ (ToWrite(c) \/ ToHandle(c)) => Message(c[2]) \notin ToSet(readQ)
RolesOK == \A c \in Cells : RoleOK(c)

(* No queue has a cell twice, and the writer has it in one place.          *)
OnceOK ==
  /\ IsInjective(writeQ) /\ IsInjective(readQ) /\ IsInjective(ackQ)
  /\ \A c \in Cells : /\ c \in ToSet(writeQ) => held["write"] # c /\ main.new # c
                      /\ held["write"] = c => main.new # c

(* attached counts the holders.  A cell that somebody holds, or that       *)
(* msg_write is about to put into write_queue, is allocated.               *)
One(p) == IF p THEN 1 ELSE 0
CountOK(c) ==
  /\ attached[c] = One(c \in ToSet(writeQ)) + One(c \in ToSet(readQ)) + One(c \in ToSet(ackQ))
                     + One(InSet(c)) + One(held["write"] = c)
                     + One(held["read"] = c /\ at["read"] # "test")
                     + One(main.cell = c /\ main.at \notin {"take", "test"})
  /\ attached[c] > 0 \/ main.new = c => c \in live
CountsOK == \A c \in Cells : CountOK(c)

(* What is late has waited in the req_set, and a handler is that of the    *)
(* request whose number the cell has.                                      *)
LateOK == \A c \in late : c[1] \in {"entry", "answer"} /\ Made(c)
HandlerOK == \A c \in Cells : handler[c] # 0 => handler[c] = ReqId(c) /\ handler[c] <= asked

CellsOK == HoldOK /\ RolesOK /\ OnceOK /\ CountsOK /\ LateOK /\ HandlerOK

(* The types that the invariant of OpelClientProofs leaves out.            *)
AtType   == \A w \in Works : at[w] \in At[w]
TimeType == tout \in [Slots -> 0 .. Timeout] /\ \A s \in Slots : slots[s] # Free => tout[s] > 0
MemoryType ==
  /\ main.cell \in Cells \cup {Free} /\ ackQ \in Seq(Cells)
  /\ live \subseteq Cells /\ late \subseteq Cells
  /\ attached \in [Cells -> Nat] /\ handler \in [Cells -> 0 .. N]
OutcomeType ==
  /\ conn \in {"none", "made", "refused", "up", "lost"}
  /\ process \in {"runs", "ended", "undefined"}
  /\ calls \in [1 .. N -> Seq(Promise!Call)] /\ refused \subseteq 1 .. N
Types == AtType /\ TimeType /\ MemoryType /\ OutcomeType

(* Nothing is known of the cells after a step that is undefined.           *)
CellsInv == IInv /\ Types /\ (process = "runs" => CellsOK)

-----------------------------------------------------------------------------
(* Steps that leave the cells where they are                               *)

Quiet ==
  /\ UNCHANGED <<held, queues, reqset, memory, requests, peer, outcome>>
  /\ main'.cell = main.cell /\ main'.new = main.new
  /\ \A p \in {"insert", "release", "test"} : at'["read"] = p <=> at["read"] = p
  /\ at'["write"] = "writing" <=> at["write"] = "writing"
  /\ \A p \in {"put", "take", "test"} : main'.at = p <=> main.at = p
  /\ main'.at = "drop" \/ Calls("drop")' <=> main.at = "drop" \/ Calls("drop")

Alone ==
  \/ Start \/ Connect \/ Check \/ AfterConnect \/ AfterWrite \/ AfterRead \/ AfterRa
  \/ ReadsEnd \/ AcksEnd \/ WriteBegins \/ Woken \/ UNCHANGED vars

LEMMA QuietSteps ==
  ASSUME IInv, Alone
  PROVE  Quiet
<1> USE DEF IInv, Shape, WorksShape, MainShape, Works
<1>1. ASSUME Start PROVE Quiet
  <2>1. /\ pool # <<>> /\ at' = [at EXCEPT ![Head(pool)] = First[Head(pool)]]
        /\ UNCHANGED <<main, held, queues, reqset, memory, requests, peer, outcome>>
    BY <1>1 DEF Start
  <2>2. Head(pool) \in Works /\ Head(pool) \in ToSet(pool)
    BY <2>1, TakeOut
  <2>3. at[Head(pool)] = "off"
    BY <2>2 DEF WorksOK
  <2>4. \A w \in Works : at'[w] = at[w] \/ (at[w] = "off" /\ at'[w] \in {"trying", "select", "begin", "wait"})
    BY <2>1, <2>2, <2>3 DEF First
  <2> QED
    BY <2>1, <2>4 DEF Quiet, Calls
<1>2. ASSUME Connect PROVE Quiet
  BY <1>2 DEF Connect, Goto, Quiet, Calls
<1>3. ASSUME Check PROVE Quiet
  <2>1. /\ main' = [main EXCEPT !.at = main.back, !.empty = FALSE, !.back = "loop"]
        /\ main.at = "check" /\ main.back \in {"loop", "drop", "reads"}
        /\ UNCHANGED <<at, held, queues, reqset, memory, requests, peer, outcome>>
    BY <1>3 DEF Check, WorksOK
  <2>2. main'.at = main.back /\ main'.cell = main.cell /\ main'.new = main.new
    BY <2>1
  <2> QED
    BY <2>1, <2>2 DEF Quiet, Calls
<1>4. ASSUME AfterConnect PROVE Quiet
  BY <1>4 DEF AfterConnect, Goto, Quiet, Calls
<1>5. ASSUME AfterWrite PROVE Quiet
  BY <1>5 DEF AfterWrite, Goto, Quiet, Calls
<1>6. ASSUME AfterRead PROVE Quiet
  BY <1>6 DEF AfterRead, AfterBegins, Goto, Quiet, Calls
<1>7. ASSUME AfterRa PROVE Quiet
  BY <1>7 DEF AfterRa, AfterBegins, Goto, Quiet, Calls
<1>8. ASSUME ReadsEnd PROVE Quiet
  BY <1>8 DEF ReadsEnd, AfterEnds, Quiet, Calls
<1>9. ASSUME AcksEnd PROVE Quiet
  BY <1>9 DEF AcksEnd, AfterEnds, Quiet, Calls
<1>10. ASSUME WriteBegins PROVE Quiet
  BY <1>10 DEF WriteBegins, Goto, Quiet, Calls
<1>11. ASSUME Woken PROVE Quiet
  BY <1>11 DEF Woken, Goto, Quiet, Calls
<1>12. ASSUME UNCHANGED vars PROVE Quiet
  BY <1>12 DEF vars, threads, Quiet, Calls
<1> QED
  BY <1>1, <1>2, <1>3, <1>4, <1>5, <1>6, <1>7, <1>8, <1>9, <1>10, <1>11, <1>12 DEF Alone

(* Nobody sees such a step.                                                *)
LEMMA QuietKeeps ==
  ASSUME TimeType, MemoryType, CellsOK, Quiet
  PROVE  TimeType' /\ MemoryType' /\ CellsOK'
<1> USE DEF Quiet, queues, reqset, memory, requests, peer, outcome
<1>1. TimeType' /\ MemoryType'
  BY DEF TimeType, MemoryType
<1>2. ASSUME NEW c \in Cells
      PROVE  /\ (ToWrite(c) <=> ToWrite(c)') /\ (ToHandle(c) <=> ToHandle(c)')
             /\ (InSet(c) <=> InSet(c)') /\ (Made(c) <=> Made(c)')
  <2>1. (ToWrite(c) <=> ToWrite(c)') /\ (ToHandle(c) <=> ToHandle(c)')
    BY DEF ToWrite, ToHandle
  <2>2. (InSet(c) <=> InSet(c)') /\ (Made(c) <=> Made(c)')
    BY DEF InSet, Made
  <2> QED
    BY <2>1, <2>2
<1>3. HoldOK'
  BY DEF CellsOK, HoldOK
<1>4. RolesOK'
  BY <1>2 DEF CellsOK, RolesOK, RoleOK
<1>5. OnceOK'
  BY DEF CellsOK, OnceOK
<1>6. CountsOK'
  BY <1>2 DEF CellsOK, CountsOK, CountOK, One
<1>7. LateOK' /\ HandlerOK'
  BY <1>2 DEF CellsOK, LateOK, HandlerOK, MemoryType
<1> QED
  BY <1>1, <1>3, <1>4, <1>5, <1>6, <1>7 DEF CellsOK

-----------------------------------------------------------------------------
(* The req_set                                                             *)

LEMMA PlaceIn ==
  ASSUME NEW f \in [Slots -> Cells \cup {Free}], NEW s \in Slots, f[s] = Free,
         NEW c \in Cells, NEW d \in Cells
  PROVE  (\E t \in Slots : [f EXCEPT ![s] = c][t] = d) <=> d = c \/ \E t \in Slots : f[t] = d
<1>1. c # Free /\ d # Free
  BY FreeAssumption
<1>2. \A t \in Slots : [f EXCEPT ![s] = c][t] = IF t = s THEN c ELSE f[t]
  OBVIOUS
<1> QED
  BY <1>1, <1>2

LEMMA PlaceOut ==
  ASSUME NEW f \in [Slots -> Cells \cup {Free}], NEW s \in Slots, NEW n, Waiting(f, n),
         f[s] # Free, NEW d \in Cells
  PROVE  (\E t \in Slots : [f EXCEPT ![s] = Free][t] = d)
           <=> d # f[s] /\ \E t \in Slots : f[t] = d
<1>1. d # Free
  BY FreeAssumption
<1>2. \A t \in Slots : [f EXCEPT ![s] = Free][t] = IF t = s THEN Free ELSE f[t]
  OBVIOUS
<1>3. \A t \in Slots : f[t] = f[s] => t = s
  BY DEF Waiting
<1> QED
  BY <1>1, <1>2, <1>3

(* insert finds no place, or uses one.                                     *)
Inserted(c, s) ==
  /\ slots[s] = Free
  /\ slots' = [slots EXCEPT ![s] = c] /\ tout' = [tout EXCEPT ![s] = Timeout]
  /\ attached' = [attached EXCEPT ![c] = @ + 1]

LEMMA InsertCases ==
  ASSUME NEW c, Insert(c)
  PROVE  UNCHANGED <<slots, tout, attached>> \/ \E s \in Slots : Inserted(c, s)
<1>1. CASE FreeSlots = {}
  BY <1>1 DEF Insert, reqset
<1>2. CASE FreeSlots # {}
  <2> DEFINE F == FreeSlots
             s == Min(F)
  <2>1. F \subseteq Nat
    BY OpelAssumption DEF FreeSlots, Slots
  <2>2. \E m \in F : \A k \in F : m <= k
    BY <1>2, <2>1, LeastNumber
  <2>3. s \in F
    BY <2>2 DEF Min
  <2>4. s \in Slots /\ slots[s] = Free
    BY <2>3 DEF FreeSlots
  <2>5. Inserted(c, s)
    BY <1>2, <2>4 DEF Insert, Inserted
  <2> QED
    BY <2>4, <2>5
<1> QED
  BY <1>1, <1>2

LEMMA InsertMoves ==
  ASSUME SlotShape, TimeType, MemoryType, NEW c \in Cells, Insert(c)
  PROVE  /\ TimeType' /\ attached' \in [Cells -> Nat]
         /\ \A e \in Cells :
              \/ (InSet(e)' <=> InSet(e)) /\ attached'[e] = attached[e]
              \/ e = c /\ ~ InSet(e) /\ InSet(e)' /\ attached'[e] = attached[e] + 1
              \/ e = c /\ InSet(e) /\ InSet(e)'
<1>1. CASE UNCHANGED <<slots, tout, attached>>
  BY <1>1 DEF TimeType, MemoryType, InSet
<1>2. CASE \E s \in Slots : Inserted(c, s)
  <2>1. PICK s \in Slots : Inserted(c, s)
    BY <1>2
  <2>2. \A e \in Cells : InSet(e)' <=> e = c \/ InSet(e)
    BY <2>1, PlaceIn DEF InSet, Inserted, SlotShape
  <2>3. \A e \in Cells : attached'[e] = IF e = c THEN attached[e] + 1 ELSE attached[e]
    BY <2>1 DEF Inserted, MemoryType
  <2>4. attached' \in [Cells -> Nat]
    BY <2>1 DEF Inserted, MemoryType
  <2>5. TimeType'
    <3>1. Timeout \in 0 .. Timeout /\ Timeout > 0
      BY OpelAssumption
    <3> QED
      BY <2>1, <3>1 DEF Inserted, TimeType, SlotShape
  <2> QED
    BY <2>2, <2>3, <2>4, <2>5
<1> QED
  BY <1>1, <1>2, InsertCases

(* signal finds nobody, or the one cell that waits.                        *)
Unanswered(c, count) ==
  /\ UNCHANGED <<slots, tout, ackQ, handler>>
  /\ attached' = [attached EXCEPT ![c] = count] /\ live' = live \cup {c}
Answered(c, count, s) ==
  /\ slots[s] # Free /\ ReqId(slots[s]) = ReqId(c)
  /\ slots' = [slots EXCEPT ![s] = Free] /\ tout' = [tout EXCEPT ![s] = 0]
  /\ ackQ' = Append(ackQ, c)
  /\ attached' = [attached EXCEPT ![c] = count + 1, ![slots[s]] = @ - 1]
  /\ live' = (live \cup {c}) \ (IF attached[slots[s]] = 1 THEN {slots[s]} ELSE {})
  /\ handler' = [handler EXCEPT ![c] = handler[slots[s]]]

LEMMA SignalCases ==
  ASSUME SlotShape, WaitingOK, TimeType, MemoryType, NEW c \in Cells, ~ InSet(c),
         NEW count \in Nat, Signal(c, count)
  PROVE  /\ process' \in {"runs", "undefined"}
         /\ \/ Matches(ReqId(c)) = {} /\ Unanswered(c, count)
            \/ \E s \in Slots : Answered(c, count, s)
<1> DEFINE M == Matches(ReqId(c))
           D == {slots[s] : s \in M}
<1>1. process' \in {"runs", "undefined"}
  BY DEF Signal
<1>2. ASSUME M = {} PROVE Unanswered(c, count)
  <2>1. Cardinality(M) = 0 /\ D = {}
    BY <1>2, FS_EmptySet
  <2>2. slots' = slots /\ tout' = tout
    <3>1. /\ slots' = [s \in Slots |-> IF s \in M THEN Free ELSE slots[s]]
          /\ tout' = [s \in Slots |-> IF s \in M THEN 0 ELSE tout[s]]
      BY DEF Signal
    <3> QED
      BY <1>2, <3>1 DEF SlotShape, TimeType
  <2>3. ackQ' = ackQ
    <3>1. ackQ' = ackQ \o [n \in 1 .. Cardinality(M) |-> c]
      BY DEF Signal
    <3>2. [n \in 1 .. Cardinality(M) |-> c] = <<>>
      BY <2>1
    <3> QED
      BY <3>1, <3>2, ConcatEmptySeq DEF MemoryType
  <2>4. attached' = [attached EXCEPT ![c] = count]
    <3>1. attached' = [d \in Cells |-> IF d = c THEN count + Cardinality(M)
                                       ELSE IF d \in D THEN attached[d] - 1 ELSE attached[d]]
      BY DEF Signal
    <3>2. count + Cardinality(M) = count
      BY <2>1
    <3> QED
      BY <2>1, <3>1, <3>2 DEF MemoryType
  <2>5. live' = live \cup {c} /\ handler' = handler
    BY <1>2, <2>1 DEF Signal
  <2> QED
    BY <2>2, <2>3, <2>4, <2>5 DEF Unanswered
<1>3. ASSUME M # {} PROVE \E s \in Slots : Answered(c, count, s)
  <2>1. PICK s \in M : TRUE
    BY <1>3
  <2>2. s \in Slots /\ slots[s] # Free /\ ReqId(slots[s]) = ReqId(c)
    BY <2>1 DEF Matches
  <2>3. M = {s}
    BY <2>1 DEF WaitingOK, Waiting, Matches
  <2>4. Cardinality(M) = 1 /\ D = {slots[s]} /\ Max(M) = s
    <3>1. s \in Nat
      BY <2>2, OpelAssumption DEF Slots
    <3>2. s >= s
      BY <3>1
    <3>3. Max(M) = s
      BY <2>3, <3>2 DEF Max
    <3>4. Cardinality(M) = 1
      BY <2>3, FS_Singleton
    <3> QED
      BY <2>3, <3>3, <3>4
  <2>5. slots[s] # c /\ slots[s] \in Cells
    BY <2>2 DEF InSet, SlotShape
  <2>6. slots' = [slots EXCEPT ![s] = Free] /\ tout' = [tout EXCEPT ![s] = 0]
    <3>1. /\ slots' = [t \in Slots |-> IF t \in M THEN Free ELSE slots[t]]
          /\ tout' = [t \in Slots |-> IF t \in M THEN 0 ELSE tout[t]]
      BY DEF Signal
    <3> QED
      BY <2>3, <3>1 DEF SlotShape, TimeType
  <2>7. ackQ' = Append(ackQ, c)
    <3>1. ackQ' = ackQ \o [n \in 1 .. Cardinality(M) |-> c]
      BY DEF Signal
    <3>2. [n \in 1 .. Cardinality(M) |-> c] = <<c>>
      BY <2>4
    <3> QED
      BY <3>1, <3>2, AppendIsConcat DEF MemoryType
  <2>8. attached' = [attached EXCEPT ![c] = count + 1, ![slots[s]] = @ - 1]
    <3>1. attached' = [d \in Cells |-> IF d = c THEN count + Cardinality(M)
                                       ELSE IF d \in D THEN attached[d] - 1 ELSE attached[d]]
      BY DEF Signal
    <3> QED
      BY <2>4, <2>5, <3>1 DEF MemoryType
  <2>9. live' = (live \cup {c}) \ (IF attached[slots[s]] = 1 THEN {slots[s]} ELSE {})
    <3>1. live' = (live \cup {c}) \ {d \in D : attached[d] = 1}
      BY DEF Signal
    <3> QED
      BY <2>4, <3>1
  <2>10. handler' = [handler EXCEPT ![c] = handler[slots[s]]]
    <3>1. handler' = IF M = {} THEN handler ELSE [handler EXCEPT ![c] = handler[slots[Max(M)]]]
      BY DEF Signal
    <3> QED
      BY <1>3, <2>4, <3>1
  <2>11. Answered(c, count, s)
    BY <2>2, <2>6, <2>7, <2>8, <2>9, <2>10 DEF Answered
  <2> QED
    BY <2>2, <2>11
<1> QED
  BY <1>1, <1>2, <1>3

(* wait moves the cells whose time is over, each one once.                 *)
Moved(q) ==
  /\ q \in Seq(Cells) /\ IsInjective(q)
  /\ \A c \in Cells : c \in ToSet(q) <=> \E s \in Expired : slots[s] = c
  /\ ackQ' = ackQ \o q /\ late' = late \cup ToSet(q)
  /\ process' = IF ToSet(q) \cap ToSet(ackQ) # {} THEN "undefined" ELSE process

LEMMA ExpireMoves ==
  ASSUME SlotShape, WaitingOK, Expire
  PROVE  \E q : Moved(q)
<1> DEFINE k == Cardinality(Expired)
           f == InOrder(Expired)
           q == [n \in 1 .. k |-> slots[f[n]]]
<1>1. Expired \in SUBSET Slots /\ \A s \in Expired : slots[s] # Free /\ slots[s] \in Cells
  BY DEF Expired, SlotShape
<1>2. /\ k \in Nat /\ f \in [1 .. k -> Expired]
      /\ \A m, n \in 1 .. k : m < n => f[m] < f[n]
      /\ \A s \in Expired : \E n \in 1 .. k : f[n] = s
  BY <1>1, OrderPasses
<1>3. /\ ackQ' = ackQ \o q /\ late' = late \cup ToSet(q)
      /\ process' = IF ToSet(q) \cap ToSet(ackQ) # {} THEN "undefined" ELSE process
  BY DEF Expire
<1> HIDE DEF k, f
<1>4. q \in Seq(Cells)
  <2>1. \A n \in 1 .. k : slots[f[n]] \in Cells
    BY <1>1, <1>2
  <2> QED
    BY <1>2, <2>1
<1>5. IsInjective(q)
  <2>1. ASSUME NEW m \in 1 .. k, NEW n \in 1 .. k, q[m] = q[n] PROVE m = n
    <3>1. f[m] \in Expired /\ f[n] \in Expired /\ slots[f[m]] = slots[f[n]]
      BY <1>2, <2>1
    <3>2. f[m] = f[n]
      BY <1>1, <3>1 DEF WaitingOK, Waiting
    <3>3. f[m] \in Nat
      <4>1. f[m] \in Slots
        BY <1>1, <3>1
      <4>2. Slots \subseteq Nat
        BY OpelAssumption DEF Slots
      <4> QED
        BY <4>1, <4>2
    <3>4. ~ (f[m] < f[n]) /\ ~ (f[n] < f[m])
      BY <3>2, <3>3
    <3> QED
      BY <1>2, <3>4
  <2> QED
    BY <2>1 DEF IsInjective
<1>6. \A c \in Cells : c \in ToSet(q) <=> \E s \in Expired : slots[s] = c
  <2>1. ToSet(q) = {q[n] : n \in 1 .. k}
    BY DEF ToSet
  <2>2. ASSUME NEW c \in Cells, c \in ToSet(q) PROVE \E s \in Expired : slots[s] = c
    BY <1>2, <2>1, <2>2
  <2>3. ASSUME NEW s \in Expired PROVE slots[s] \in ToSet(q)
    BY <1>2, <2>1
  <2> QED
    BY <2>2, <2>3
<1>7. Moved(q)
  BY <1>3, <1>4, <1>5, <1>6 DEF Moved
<1> QED
  BY <1>7

-----------------------------------------------------------------------------
(* Steps that make, move or release cells                                  *)

Before == IInv /\ IInv' /\ Types /\ CellsOK /\ process = "runs"
After  == TimeType' /\ MemoryType' /\ (process' = "runs" => CellsOK')

LEMMA MadeStays ==
  ASSUME CountShape, CountShape', asked <= asked', read <= read', failures <= failures',
         \A i \in 1 .. N : sent[i] <= sent'[i] /\ Len(answers[i]) <= Len(answers'[i]),
         NEW c \in Cells, Made(c)
  PROVE  Made(c)'
<1>1. {asked, asked', read, read', failures, failures'} \subseteq Nat
  BY OpelAssumption DEF CountShape
<1>2. \A i \in 1 .. N : /\ sent[i] \in Nat /\ sent'[i] \in Nat
                        /\ Len(answers[i]) \in Nat /\ Len(answers'[i]) \in Nat
  BY LenProperties DEF CountShape
<1>3. c[1] \in {"entry", "packet"} => c[2] \in Nat /\ c[2] <= asked'
  BY <1>1, CellKinds DEF Made
<1>4. c[1] = "packet" => c[3] <= sent'[c[2]] + 1
  <2> SUFFICES ASSUME c[1] = "packet" PROVE c[3] <= sent'[c[2]] + 1
    OBVIOUS
  <2>1. c[2] \in 1 .. N /\ c[3] \in Nat /\ c[3] <= sent[c[2]] + 1
    BY CellKinds, OpelAssumption DEF Made
  <2> QED
    BY <2>1, <1>2
<1>5. c[1] = "answer" => c[3] <= Len(answers'[c[2]])
  <2> SUFFICES ASSUME c[1] = "answer" PROVE c[3] <= Len(answers'[c[2]])
    OBVIOUS
  <2>1. c[2] \in 1 .. N /\ c[3] \in Nat /\ c[3] <= Len(answers[c[2]])
    BY CellKinds, OpelAssumption DEF Made
  <2> QED
    BY <2>1, <1>2
<1>6. c[1] \in {"message", "reply"} => c[2] <= read'
  <2> SUFFICES ASSUME c[1] \in {"message", "reply"} PROVE c[2] <= read'
    OBVIOUS
  <2>1. c[2] \in Nat /\ c[2] <= read
    BY CellKinds, OpelAssumption DEF Made
  <2> QED
    BY <2>1, <1>1
<1>7. c[1] = "notice" => c[2] <= failures'
  <2> SUFFICES ASSUME c[1] = "notice" PROVE c[2] <= failures'
    OBVIOUS
  <2>1. c[2] \in Nat /\ c[2] <= failures
    BY CellKinds, OpelAssumption DEF Made
  <2> QED
    BY <2>1, <1>1
<1> QED
  BY <1>3, <1>4, <1>5, <1>6, <1>7 DEF Made

LEMMA MadeSame ==
  ASSUME UNCHANGED <<requests, peer>>, NEW c
  PROVE  Made(c) <=> Made(c)'
BY DEF requests, peer, Made

(* A cell that was not made is nowhere.                                    *)
LEMMA Nowhere ==
  ASSUME CellsOK, MemoryType, NEW c \in Cells, ~ Made(c)
  PROVE  /\ ~ ToWrite(c) /\ ~ ToHandle(c) /\ ~ InSet(c)
         /\ held["read"] # c /\ c \notin ToSet(readQ) /\ c \notin late
         /\ attached[c] = 0
<1>1. /\ ~ ToWrite(c) /\ ~ ToHandle(c) /\ ~ InSet(c)
      /\ held["read"] # c /\ c \notin ToSet(readQ)
  BY DEF CellsOK, RolesOK, RoleOK
<1>2. c \notin late
  BY DEF CellsOK, LateOK
<1>3. attached[c] = 0
  BY <1>1 DEF CellsOK, CountsOK, CountOK, One, ToWrite, ToHandle
<1> QED
  BY <1>1, <1>2, <1>3

(* The kinds of cells that wait.                                           *)
LEMMA InSetKind ==
  ASSUME WaitingOK, NEW c \in Cells, InSet(c)
  PROVE  c[1] \in {"entry", "answer"}
<1>1. PICK s \in Slots : slots[s] = c
  BY DEF InSet
<1>2. slots[s] # Free
  BY <1>1, FreeAssumption
<1> QED
  BY <1>1, <1>2 DEF WaitingOK, Waiting

LEMMA SubmitCells ==
  ASSUME Before, Submit
  PROVE  After
<1> USE DEF Before, Types
<1>1. /\ asked < N /\ asked' = asked + 1 /\ asked \in Nat /\ asked + 1 \in 1 .. N
  BY OpelAssumption DEF Submit, IInv, Shape, CountShape
<1>2. PICK i \in 1 .. N : i = asked + 1
  BY <1>1
<1> DEFINE c == Entry(i)
           d == Packet(i, 1)
<1>3. /\ main.at \in {"loop", "drop"}
      /\ main' = [main EXCEPT !.at = "put", !.new = d, !.empty = (writeQ = <<>>), !.back = main.at]
      /\ live' = live \cup {c, d} /\ handler' = [handler EXCEPT ![c] = i]
      /\ Insert(c)
      /\ UNCHANGED <<at, held, writeQ, readQ, ackQ, late, sent, answers, read, failures, process>>
  BY <1>2 DEF Submit, queues, peer
<1>4. /\ c \in Cells /\ d \in Cells /\ c # Free /\ d # Free /\ c # d
      /\ c[1] = "entry" /\ c[2] = i /\ d[1] = "packet" /\ d[2] = i /\ d[3] = 1
      /\ ReqId(c) = i
  BY CellsMade, FreeAssumption DEF Entry, Packet, ReqId
<1>5. /\ main'.at = "put" /\ main'.new = d /\ main'.cell = main.cell /\ main'.back = main.at
  BY <1>3 DEF IInv, Shape, MainShape
<1> HIDE DEF c, d
<1>6. /\ ~ Made(c) /\ ~ Made(d)
  BY <1>1, <1>2, <1>4 DEF Made
<1>7. ASSUME NEW e \in Cells, Made(e) PROVE Made(e)'
  <2>1. asked <= asked' /\ read <= read' /\ failures <= failures'
    <3>1. read' = read /\ failures' = failures
      BY <1>3
    <3>2. asked \in Nat /\ read \in Nat /\ failures \in Nat
      BY OpelAssumption DEF IInv, Shape, CountShape
    <3> QED
      BY <1>1, <3>1, <3>2
  <2>2. \A j \in 1 .. N : sent[j] <= sent'[j] /\ Len(answers[j]) <= Len(answers'[j])
    BY <1>3, LenProperties DEF IInv, Shape, CountShape
  <2> QED
    BY <1>7, <2>1, <2>2, MadeStays DEF IInv, Shape
<1>8. Made(c)' /\ Made(d)'
  <2>1. sent[i] \in Nat /\ ~ (sent[i] > 0)
    BY <1>1, <1>2 DEF IInv, Shape, CountShape, KnownOK
  <2>2. d[3] <= sent'[d[2]] + 1
    BY <2>1, <1>3, <1>4
  <2> QED
    BY <2>2, <1>1, <1>2, <1>4 DEF Made
<1>9. /\ ~ ToWrite(c) /\ ~ ToHandle(c) /\ ~ InSet(c) /\ held["read"] # c /\ c \notin ToSet(readQ)
      /\ ~ ToWrite(d) /\ ~ ToHandle(d) /\ ~ InSet(d) /\ held["read"] # d /\ d \notin ToSet(readQ)
      /\ attached[c] = 0 /\ attached[d] = 0
  BY <1>4, <1>6, Nowhere
<1>10. main.new = Free
  BY <1>3 DEF CellsOK, HoldOK
<1>11. ASSUME NEW e \in Cells
       PROVE  /\ ToWrite(e)' <=> ToWrite(e) \/ e = d
              /\ ToHandle(e)' <=> ToHandle(e)
  BY <1>3, <1>5, <1>10, FreeAssumption DEF ToWrite, ToHandle
<1>12. HoldOK'
  BY <1>3, <1>4, <1>5 DEF CellsOK, HoldOK, Calls
<1>13. TimeType' /\ attached' \in [Cells -> Nat]
  BY <1>3, <1>4, InsertMoves DEF IInv, Shape
<1>14. ASSUME NEW e \in Cells
       PROVE  \/ (InSet(e)' <=> InSet(e)) /\ attached'[e] = attached[e]
              \/ e = c /\ InSet(e)' /\ attached'[e] = attached[e] + 1
  BY <1>3, <1>4, <1>9, InsertMoves DEF IInv, Shape
<1>15. MemoryType'
  <2>1. handler' \in [Cells -> 0 .. N]
    BY <1>3, <1>4 DEF MemoryType
  <2> QED
    BY <2>1, <1>3, <1>4, <1>5, <1>13 DEF MemoryType
<1>16. RolesOK'
  <2> SUFFICES ASSUME NEW e \in Cells PROVE RoleOK(e)'
    BY DEF RolesOK
  <2>1. RoleOK(e)
    BY DEF CellsOK, RolesOK
  <2>2. CASE e = c
    BY <2>1, <2>2, <1>3, <1>4, <1>8, <1>9, <1>11 DEF RoleOK
  <2>3. CASE e = d
    <3>1. InSet(e)' => FALSE
      BY <1>4, <1>9, <1>14, <2>3
    <3>2. sent[i] = 0
      BY <1>1, <1>2 DEF IInv, Shape, CountShape, KnownOK
    <3> QED
      BY <3>1, <3>2, <2>1, <2>3, <1>3, <1>4, <1>8, <1>9, <1>11 DEF RoleOK
  <2>4. CASE e # c /\ e # d
    BY <2>1, <2>4, <1>3, <1>7, <1>11, <1>14 DEF RoleOK
  <2> QED
    BY <2>2, <2>3, <2>4
<1>17. OnceOK'
  BY <1>3, <1>4, <1>5, <1>9, <1>10 DEF CellsOK, OnceOK, ToWrite
<1>18. CountsOK'
  <2> SUFFICES ASSUME NEW e \in Cells PROVE CountOK(e)'
    BY DEF CountsOK
  <2>1. CountOK(e)
    BY DEF CellsOK, CountsOK
  <2> QED
    BY <2>1, <1>3, <1>4, <1>5, <1>9, <1>10, <1>14, FreeAssumption DEF CountOK, One
<1>19. LateOK'
  BY <1>3, <1>7 DEF CellsOK, LateOK, MemoryType
<1>20. HandlerOK'
  BY <1>1, <1>2, <1>3, <1>4 DEF CellsOK, HandlerOK, MemoryType
<1> QED
  BY <1>12, <1>13, <1>15, <1>16, <1>17, <1>18, <1>19, <1>20 DEF After, CellsOK

(* The steps of the event loop.                                            *)
LEMMA PutCells ==
  ASSUME Before, Put
  PROVE  After
<1> USE DEF Before, Types
<1>1. /\ main.at = "put" /\ writeQ' = Append(writeQ, main.new)
      /\ main'.at = "check" /\ main'.new = Free /\ main'.cell = main.cell /\ main'.back = main.back
      /\ attached' = [attached EXCEPT ![main.new] = @ + 1]
      /\ UNCHANGED <<at, held, readQ, ackQ, slots, tout, live, handler, late, process>>
      /\ UNCHANGED <<requests, peer>>
  BY DEF Put, reqset, IInv, Shape, MainShape
<1>2. PICK c \in Cells : c = main.new
  BY <1>1 DEF IInv, Shape, MainShape
<1>3. c # Free
  BY FreeAssumption
<1>4. ToWrite(c) /\ c \notin ToSet(writeQ) /\ held["write"] # c
  BY <1>2 DEF ToWrite, CellsOK, OnceOK
<1>5. ToSet(writeQ') = ToSet(writeQ) \cup {c} /\ IsInjective(writeQ')
  BY <1>1, <1>2, <1>4, PutIn DEF IInv, Shape, QueueShape, CellsOK, OnceOK
<1>6. ASSUME NEW e \in Cells
      PROVE  /\ ToWrite(e)' <=> ToWrite(e)
             /\ ToHandle(e)' <=> ToHandle(e)
             /\ InSet(e)' <=> InSet(e)
             /\ Made(e) <=> Made(e)'
             /\ attached'[e] = IF e = c THEN attached[e] + 1 ELSE attached[e]
  <2>1. ToWrite(e)' <=> ToWrite(e)
    BY <1>1, <1>2, <1>5, FreeAssumption DEF ToWrite
  <2>2. ToHandle(e)' <=> ToHandle(e)
    BY <1>1 DEF ToHandle
  <2>3. InSet(e)' <=> InSet(e)
    BY <1>1 DEF InSet
  <2>4. Made(e) <=> Made(e)'
    BY <1>1, MadeSame
  <2>5. attached'[e] = IF e = c THEN attached[e] + 1 ELSE attached[e]
    BY <1>1, <1>2 DEF MemoryType
  <2> QED
    BY <2>1, <2>2, <2>3, <2>4, <2>5
<1>7. HoldOK'
  BY <1>1 DEF CellsOK, HoldOK, Calls
<1>8. TimeType' /\ MemoryType'
  BY <1>1, <1>2 DEF TimeType, MemoryType
<1>9. RolesOK'
  BY <1>1, <1>6 DEF CellsOK, RolesOK, RoleOK, requests
<1>10. OnceOK'
  BY <1>1, <1>4, <1>5, FreeAssumption DEF CellsOK, OnceOK
<1>11. CountsOK'
  <2> SUFFICES ASSUME NEW e \in Cells PROVE CountOK(e)'
    BY DEF CountsOK
  <2>1. CountOK(e)
    BY DEF CellsOK, CountsOK
  <2>2. e # Free
    BY FreeAssumption
  <2> QED
    BY <2>1, <2>2, <1>1, <1>2, <1>4, <1>5, <1>6 DEF CountOK, One
<1>12. LateOK' /\ HandlerOK'
  BY <1>1, <1>6 DEF CellsOK, LateOK, HandlerOK, MemoryType, requests
<1> QED
  BY <1>7, <1>8, <1>9, <1>10, <1>11, <1>12 DEF After, CellsOK

LEMMA HandleCells ==
  ASSUME Before, NEW replies \in BOOLEAN, HandleMessage(replies)
  PROVE  After
<1> USE DEF Before, Types
<1>1. PICK c \in Cells : c = Head(readQ) /\ readQ # <<>>
  BY TakeOut DEF HandleMessage, IInv, Shape, QueueShape
<1> DEFINE d == Reply(c[2])
<1>2. /\ main.at = "reads" /\ readQ' = Tail(readQ)
      /\ attached' = [attached EXCEPT ![c] = 0]
      /\ replies => c[1] = "message"
      /\ live' = (live \ {c}) \cup IF replies THEN {d} ELSE {}
      /\ main' = IF ~ replies THEN main
                 ELSE [main EXCEPT !.at = "put", !.new = d, !.empty = (writeQ = <<>>), !.back = "reads"]
      /\ UNCHANGED <<at, held, writeQ, ackQ, slots, tout, handler, late, process>>
      /\ UNCHANGED <<requests, peer>>
  BY <1>1 DEF HandleMessage, reqset, ReqId
<1>3. /\ c \in ToSet(readQ) /\ c \notin ToSet(readQ') /\ IsInjective(readQ')
      /\ \A e \in Cells : e \in ToSet(readQ') <=> e \in ToSet(readQ) /\ e # c
  BY <1>1, <1>2, TakeOut DEF IInv, Shape, QueueShape, CellsOK, OnceOK
<1>4. /\ c[1] \in {"message", "notice"} /\ Made(c)
      /\ ~ ToWrite(c) /\ ~ ToHandle(c) /\ ~ InSet(c) /\ held["read"] # c /\ c # Free
  <2>1. c[1] \in {"message", "notice"} /\ Made(c)
    BY <1>3 DEF CellsOK, RolesOK, RoleOK
  <2>2. ~ InSet(c)
    BY <2>1, InSetKind DEF IInv
  <2>3. ~ ToWrite(c) /\ ~ ToHandle(c) /\ held["read"] # c
    BY <2>1 DEF CellsOK, RolesOK, RoleOK
  <2> QED
    BY <2>1, <2>2, <2>3, FreeAssumption
<1>5. replies => /\ d \in Cells /\ d[1] = "reply" /\ d[2] = c[2] /\ Made(d)
                 /\ c = Message(c[2]) /\ ~ ToWrite(d) /\ ~ ToHandle(d)
                 /\ ~ InSet(d) /\ held["read"] # d /\ d \notin ToSet(readQ)
  <2> SUFFICES ASSUME replies PROVE /\ d \in Cells /\ d[1] = "reply" /\ d[2] = c[2] /\ Made(d)
                                    /\ c = Message(c[2]) /\ ~ ToWrite(d) /\ ~ ToHandle(d)
                                    /\ ~ InSet(d) /\ held["read"] # d /\ d \notin ToSet(readQ)
    OBVIOUS
  <2>1. c[1] = "message" /\ c[2] \in 1 .. MaxMessages
    BY <1>2, CellKinds
  <2>2. d \in Cells /\ d[1] = "reply" /\ d[2] = c[2]
    BY <2>1, CellsMade DEF Reply
  <2>3. c = Message(c[2])
    <3>1. c \in MessageCells
      BY <2>1 DEF Cells, EntryCells, PacketCells, AnswerCells, ReplyCells, NoticeCells,
         Entry, Packet, Answer, Reply, Notice
    <3> QED
      BY <3>1 DEF MessageCells, Message
  <2> HIDE DEF d
  <2>4. Made(d)
    BY <2>1, <2>2, <1>4 DEF Made
  <2>5. RoleOK(d)
    BY <2>2 DEF CellsOK, RolesOK
  <2>6. ~ InSet(d)
    BY <2>2, InSetKind DEF IInv
  <2> QED
    BY <2>2, <2>3, <2>4, <2>5, <2>6, <1>3 DEF RoleOK
<1> HIDE DEF d
<1>6. main.new = Free /\ main.cell = Free /\ main'.cell = Free
  <2>1. main.new = Free /\ main.cell = Free
    BY <1>2 DEF CellsOK, HoldOK, Calls
  <2> QED
    BY <2>1, <1>2 DEF IInv, Shape, MainShape
<1>7. \/ replies /\ main'.at = "put" /\ main'.new = d /\ main'.back = "reads"
      \/ ~ replies /\ main' = main
  BY <1>2 DEF IInv, Shape, MainShape
<1>8. ASSUME NEW e \in Cells
      PROVE  /\ ToWrite(e)' <=> ToWrite(e) \/ (replies /\ e = d)
             /\ ToHandle(e)' <=> ToHandle(e)
             /\ InSet(e)' <=> InSet(e)
             /\ Made(e) <=> Made(e)'
             /\ attached'[e] = IF e = c THEN 0 ELSE attached[e]
  <2>1. ToWrite(e)' <=> ToWrite(e) \/ (replies /\ e = d)
    BY <1>2, <1>6, <1>7, FreeAssumption DEF ToWrite
  <2>2. ToHandle(e)' <=> ToHandle(e)
    BY <1>2, <1>6 DEF ToHandle
  <2>3. InSet(e)' <=> InSet(e)
    BY <1>2 DEF InSet
  <2>4. Made(e) <=> Made(e)'
    BY <1>2, MadeSame
  <2>5. attached'[e] = IF e = c THEN 0 ELSE attached[e]
    BY <1>2 DEF MemoryType
  <2> QED
    BY <2>1, <2>2, <2>3, <2>4, <2>5
<1>9. HoldOK'
  BY <1>2, <1>5, <1>6, <1>7, FreeAssumption DEF CellsOK, HoldOK, Calls
<1>10. TimeType' /\ MemoryType'
  BY <1>2, <1>5, <1>6 DEF TimeType, MemoryType
<1>11. RolesOK'
  <2> SUFFICES ASSUME NEW e \in Cells PROVE RoleOK(e)'
    BY DEF RolesOK
  <2>1. RoleOK(e)
    BY DEF CellsOK, RolesOK
  <2>2. ToSet(readQ') \subseteq ToSet(readQ)
    BY <1>1, <1>2, TakeOut DEF IInv, Shape, QueueShape
  <2>3. CASE replies /\ e = d
    BY <2>2, <2>3, <1>2, <1>3, <1>5, <1>8 DEF RoleOK
  <2>4. CASE ~ (replies /\ e = d)
    BY <2>1, <2>2, <2>4, <1>2, <1>8 DEF RoleOK, requests
  <2> QED
    BY <2>3, <2>4
<1>12. OnceOK'
  BY <1>2, <1>3, <1>5, <1>6, <1>7, FreeAssumption DEF CellsOK, OnceOK, ToWrite
<1>13. CountsOK'
  <2> SUFFICES ASSUME NEW e \in Cells PROVE CountOK(e)'
    BY DEF CountsOK
  <2>1. CountOK(e)
    BY DEF CellsOK, CountsOK
  <2>2. e # Free
    BY FreeAssumption
  <2>3. e \in ToSet(readQ') <=> e \in ToSet(readQ) /\ e # c
    BY <1>3
  <2>4. CASE e = c
    BY <2>2, <2>3, <2>4, <1>2, <1>4, <1>5, <1>6, <1>7, <1>8 DEF CountOK, One, ToWrite, ToHandle
  <2>5. CASE e # c
    BY <2>1, <2>2, <2>3, <2>5, <1>2, <1>6, <1>7, <1>8 DEF CountOK, One
  <2> QED
    BY <2>4, <2>5
<1>14. LateOK' /\ HandlerOK'
  BY <1>2, <1>8 DEF CellsOK, LateOK, HandlerOK, MemoryType, requests
<1> QED
  BY <1>9, <1>10, <1>11, <1>12, <1>13, <1>14 DEF After, CellsOK

LEMMA DequeueCells ==
  ASSUME Before, AckDequeue
  PROVE  After
<1> USE DEF Before, Types
<1>1. PICK c \in Cells : c = Head(ackQ) /\ ackQ # <<>>
  BY TakeOut DEF AckDequeue, MemoryType
<1>2. /\ main.at = "acks" /\ ackQ' = Tail(ackQ)
      /\ attached' = [attached EXCEPT ![c] = @ - 1]
      /\ main'.at = "take" /\ main'.cell = c /\ main'.new = main.new /\ main'.back = main.back
      /\ UNCHANGED <<at, held, writeQ, readQ, slots, tout, live, handler, late, process>>
      /\ UNCHANGED <<requests, peer>>
  BY <1>1 DEF AckDequeue, reqset, IInv, Shape, MainShape
<1>3. /\ c \in ToSet(ackQ) /\ c \notin ToSet(ackQ') /\ IsInjective(ackQ') /\ ackQ' \in Seq(Cells)
      /\ \A e \in Cells : e \in ToSet(ackQ') <=> e \in ToSet(ackQ) /\ e # c
  BY <1>1, <1>2, TakeOut DEF MemoryType, CellsOK, OnceOK
<1>4. main.cell = Free /\ c # Free
  BY <1>2, FreeAssumption DEF CellsOK, HoldOK, Calls
<1>5. ASSUME NEW e \in Cells
      PROVE  /\ ToWrite(e)' <=> ToWrite(e)
             /\ ToHandle(e)' <=> ToHandle(e)
             /\ InSet(e)' <=> InSet(e)
             /\ Made(e) <=> Made(e)'
             /\ attached'[e] = IF e = c THEN attached[e] - 1 ELSE attached[e]
  <2>1. ToWrite(e)' <=> ToWrite(e)
    BY <1>2 DEF ToWrite
  <2>2. ToHandle(e)' <=> ToHandle(e)
    BY <1>2, <1>3, <1>4, FreeAssumption DEF ToHandle
  <2>3. InSet(e)' <=> InSet(e)
    BY <1>2 DEF InSet
  <2>4. Made(e) <=> Made(e)'
    BY <1>2, MadeSame
  <2>5. attached'[e] = IF e = c THEN attached[e] - 1 ELSE attached[e]
    BY <1>2 DEF MemoryType
  <2> QED
    BY <2>1, <2>2, <2>3, <2>4, <2>5
<1>6. HoldOK'
  BY <1>2, <1>4 DEF CellsOK, HoldOK, Calls
<1>7. CountsOK'
  <2> SUFFICES ASSUME NEW e \in Cells PROVE CountOK(e)'
    BY DEF CountsOK
  <2>1. CountOK(e) /\ attached[e] \in Nat
    BY DEF CellsOK, CountsOK, MemoryType
  <2>2. e # Free
    BY FreeAssumption
  <2>3. e \in ToSet(ackQ') <=> e \in ToSet(ackQ) /\ e # c
    BY <1>3
  <2> QED
    BY <2>1, <2>2, <2>3, <1>2, <1>3, <1>4, <1>5 DEF CountOK, One
<1>8. TimeType' /\ MemoryType'
  <2>1. attached[c] > 0
    BY <1>3 DEF CellsOK, CountsOK, CountOK, One
  <2>2. attached' \in [Cells -> Nat]
    BY <2>1, <1>2 DEF MemoryType
  <2> QED
    BY <2>2, <1>2, <1>3 DEF TimeType, MemoryType
<1>9. RolesOK'
  BY <1>2, <1>5 DEF CellsOK, RolesOK, RoleOK, requests
<1>10. OnceOK'
  BY <1>2, <1>3 DEF CellsOK, OnceOK
<1>11. LateOK' /\ HandlerOK'
  BY <1>2, <1>5 DEF CellsOK, LateOK, HandlerOK, MemoryType, requests
<1> QED
  BY <1>6, <1>7, <1>8, <1>9, <1>10, <1>11 DEF After, CellsOK

(* call_handler, and the release of the cell after it.                     *)
LEMMA AckCells ==
  ASSUME Before, CallHandler \/ AckDrop \/ AckTest
  PROVE  After
<1> USE DEF Before, Types
<1>1. /\ main.at \in {"take", "drop", "test"}
      /\ main'.new = main.new /\ main'.back = main.back
      /\ UNCHANGED <<at, held, queues, slots, tout, handler, late>>
      /\ UNCHANGED <<requests, peer>>
  BY DEF CallHandler, AckDrop, AckTest, reqset, IInv, Shape, MainShape
<1>2. PICK c \in Cells : c = main.cell
  BY <1>1 DEF CellsOK, HoldOK, MemoryType
<1>3. \/ /\ main.at = "take" /\ main'.at = "drop" /\ main'.cell = c
         /\ c \in live /\ live' = live /\ attached' = [attached EXCEPT ![c] = @ + 1]
      \/ /\ main.at = "drop" /\ main'.at = "test" /\ main'.cell = c
         /\ live' = live /\ attached' = [attached EXCEPT ![c] = @ - 1]
      \/ /\ main.at = "test" /\ main'.at = "acks" /\ main'.cell = Free
         /\ live' = (IF attached[c] = 0 THEN live \ {c} ELSE live) /\ attached' = attached
  BY <1>2 DEF CallHandler, AckDrop, AckTest, IInv, Shape, MainShape
<1>4. c # Free /\ ToHandle(c) /\ main.new = Free
  BY <1>1, <1>2, FreeAssumption DEF ToHandle, CellsOK, HoldOK
<1>5. ASSUME NEW e \in Cells
      PROVE  /\ ToWrite(e)' <=> ToWrite(e)
             /\ ToHandle(e)' => ToHandle(e)
             /\ InSet(e)' <=> InSet(e)
             /\ Made(e) <=> Made(e)'
  <2>1. ToWrite(e)' <=> ToWrite(e)
    BY <1>1 DEF ToWrite, queues
  <2>2. ToHandle(e)' => ToHandle(e)
    BY <1>1, <1>2, <1>3, FreeAssumption DEF ToHandle, queues
  <2>3. InSet(e)' <=> InSet(e)
    BY <1>1 DEF InSet
  <2>4. Made(e) <=> Made(e)'
    BY <1>1, MadeSame
  <2> QED
    BY <2>1, <2>2, <2>3, <2>4
<1>6. HoldOK'
  BY <1>1, <1>2, <1>3, <1>4 DEF CellsOK, HoldOK, Calls
<1>7. CountsOK' /\ attached' \in [Cells -> Nat]
  <2>1. \A e \in Cells : CountOK(e)
    BY DEF CellsOK, CountsOK
  <2>2. CASE main.at = "take"
    <3>1. ASSUME NEW e \in Cells PROVE CountOK(e)'
      <4>1. CountOK(e) /\ e # Free /\ attached[e] \in Nat /\ (InSet(e)' <=> InSet(e))
            /\ attached'[e] = IF e = c THEN attached[e] + 1 ELSE attached[e]
        BY <2>1, <2>2, <1>3, <1>5, FreeAssumption DEF MemoryType
      <4> QED
        BY <4>1, <2>2, <1>1, <1>2, <1>3 DEF CountOK, One, queues
    <3>2. attached' = [attached EXCEPT ![c] = @ + 1]
      BY <2>2, <1>3
    <3>3. attached' \in [Cells -> Nat]
      BY <3>2 DEF MemoryType
    <3> QED
      BY <3>1, <3>3 DEF CountsOK
  <2>3. CASE main.at = "drop"
    <3>1. ASSUME NEW e \in Cells PROVE CountOK(e)'
      <4>1. CountOK(e) /\ e # Free /\ attached[e] \in Nat /\ (InSet(e)' <=> InSet(e))
            /\ attached'[e] = IF e = c THEN attached[e] - 1 ELSE attached[e]
        BY <2>1, <2>3, <1>3, <1>5, FreeAssumption DEF MemoryType
      <4> QED
        BY <4>1, <2>3, <1>1, <1>2, <1>3 DEF CountOK, One, queues
    <3>2. attached[c] > 0
      BY <2>1, <2>3, <1>2 DEF CountOK, One
    <3>3. attached' = [attached EXCEPT ![c] = @ - 1]
      BY <2>3, <1>3
    <3>4. attached' \in [Cells -> Nat]
      BY <3>2, <3>3 DEF MemoryType
    <3> QED
      BY <3>1, <3>4 DEF CountsOK
  <2>4. CASE main.at = "test"
    <3>1. ASSUME NEW e \in Cells PROVE CountOK(e)'
      <4>1. CountOK(e) /\ e # Free /\ attached[e] \in Nat /\ (InSet(e)' <=> InSet(e))
            /\ attached'[e] = attached[e]
        BY <2>1, <2>4, <1>3, <1>5, FreeAssumption DEF MemoryType
      <4> QED
        BY <4>1, <2>4, <1>1, <1>2, <1>3, <1>4 DEF CountOK, One, queues
    <3> QED
      BY <3>1, <2>4, <1>3 DEF CountsOK, MemoryType
  <2> QED
    BY <1>1, <2>2, <2>3, <2>4
<1>8. TimeType' /\ MemoryType'
  BY <1>1, <1>3, <1>7 DEF TimeType, MemoryType, queues
<1>9. RolesOK'
  <2> SUFFICES ASSUME NEW e \in Cells PROVE RoleOK(e)'
    BY DEF RolesOK
  <2>1. RoleOK(e)
    BY DEF CellsOK, RolesOK
  <2> QED
    BY <2>1, <1>1, <1>5 DEF RoleOK, requests, queues
<1>10. OnceOK'
  BY <1>1 DEF CellsOK, OnceOK, queues
<1>11. LateOK' /\ HandlerOK'
  BY <1>1, <1>5 DEF CellsOK, LateOK, HandlerOK, MemoryType, requests
<1> QED
  BY <1>6, <1>7, <1>8, <1>9, <1>10, <1>11 DEF After, CellsOK

(* Two threads that change or use a cell at the same time.                 *)
LEMMA UndefinedCells ==
  ASSUME Before, UsesDeleted \/ CountsRace
  PROVE  After
<1>1. /\ process' = "undefined"
      /\ UNCHANGED <<main, queues, reqset, memory>>
  BY DEF UsesDeleted, CountsRace, Undefined, threads
<1> QED
  BY <1>1 DEF After, Before, Types, TimeType, MemoryType, queues, reqset, memory

(* The steps of the read work.                                             *)
LEMMA MailCells ==
  ASSUME Before, ReadMessage \/ ReadFails
  PROVE  After
<1> USE DEF Before, Types
<1>1. PICK c \in Cells :
        /\ ~ Made(c) /\ Made(c)' /\ c[1] \in {"message", "notice"}
        /\ live' = live \cup {c} /\ readQ' = Append(readQ, c)
        /\ attached' = [attached EXCEPT ![c] = 1]
  <2>1. CASE ReadMessage
    <3>1. read < MaxMessages /\ read \in Nat /\ read + 1 \in 1 .. MaxMessages /\ read' = read + 1
      BY <2>1, OpelAssumption DEF ReadMessage, IInv, Shape, CountShape
    <3> DEFINE c == Message(read + 1)
    <3>2. c \in Cells /\ c[1] = "message" /\ c[2] = read + 1
      BY <3>1, CellsMade DEF Message
    <3>3. /\ live' = live \cup {c} /\ readQ' = Append(readQ, c)
          /\ attached' = [attached EXCEPT ![c] = 1]
      BY <2>1 DEF ReadMessage
    <3> HIDE DEF c
    <3>4. PICK d \in Cells : d = c
      BY <3>2
    <3>5. ~ Made(d) /\ Made(d)'
      BY <3>1, <3>2, <3>4 DEF Made
    <3> QED
      BY <3>2, <3>3, <3>4, <3>5
  <2>2. CASE ReadFails
    <3>1. /\ failures < MaxFailures /\ failures \in Nat /\ failures + 1 \in 1 .. MaxFailures
          /\ failures' = failures + 1
      BY <2>2, OpelAssumption DEF ReadFails, IInv, Shape, CountShape
    <3> DEFINE c == Notice(failures + 1)
    <3>2. c \in Cells /\ c[1] = "notice" /\ c[2] = failures + 1
      BY <3>1, CellsMade DEF Notice
    <3>3. /\ live' = live \cup {c} /\ readQ' = Append(readQ, c)
          /\ attached' = [attached EXCEPT ![c] = 1]
      BY <2>2 DEF ReadFails
    <3> HIDE DEF c
    <3>4. PICK d \in Cells : d = c
      BY <3>2
    <3>5. ~ Made(d) /\ Made(d)'
      BY <3>1, <3>2, <3>4 DEF Made
    <3> QED
      BY <3>2, <3>3, <3>4, <3>5
  <2> QED
    BY <2>1, <2>2
<1>2. /\ at["read"] = "select" /\ at'["read"] = "done" /\ at'["write"] = at["write"]
      /\ UNCHANGED <<main, held, writeQ, ackQ, slots, tout, handler, late, process>>
      /\ UNCHANGED <<requests, answers>>
  BY DEF ReadMessage, ReadFails, Goto, reqset, IInv, Shape, WorksShape, Works
<1>3. ASSUME NEW e \in Cells, Made(e) PROVE Made(e)'
  <2>1. asked <= asked' /\ read <= read' /\ failures <= failures'
    BY <1>2, OpelAssumption DEF ReadMessage, ReadFails, requests, IInv, Shape, CountShape
  <2>2. \A j \in 1 .. N : sent[j] <= sent'[j] /\ Len(answers[j]) <= Len(answers'[j])
    BY <1>2, LenProperties DEF requests, IInv, Shape, CountShape
  <2> QED
    BY <1>3, <2>1, <2>2, MadeStays DEF IInv, Shape
<1>4. /\ ~ ToWrite(c) /\ ~ ToHandle(c) /\ ~ InSet(c) /\ held["read"] # c /\ c \notin ToSet(readQ)
      /\ c # Free
  BY <1>1, Nowhere, FreeAssumption
<1>5. ToSet(readQ') = ToSet(readQ) \cup {c} /\ IsInjective(readQ')
  BY <1>1, <1>4, PutIn DEF IInv, Shape, QueueShape, CellsOK, OnceOK
<1>6. ASSUME NEW e \in Cells
      PROVE  /\ ToWrite(e)' <=> ToWrite(e)
             /\ ToHandle(e)' <=> ToHandle(e)
             /\ InSet(e)' <=> InSet(e)
             /\ attached'[e] = IF e = c THEN 1 ELSE attached[e]
  <2>1. ToWrite(e)' <=> ToWrite(e)
    BY <1>2 DEF ToWrite
  <2>2. ToHandle(e)' <=> ToHandle(e)
    BY <1>2 DEF ToHandle
  <2>3. InSet(e)' <=> InSet(e)
    BY <1>2 DEF InSet
  <2>4. attached'[e] = IF e = c THEN 1 ELSE attached[e]
    BY <1>1 DEF MemoryType
  <2> QED
    BY <2>1, <2>2, <2>3, <2>4
<1>7. HoldOK'
  BY <1>2 DEF CellsOK, HoldOK, Calls
<1>8. TimeType' /\ MemoryType'
  BY <1>1, <1>2 DEF TimeType, MemoryType
<1>9. RolesOK'
  <2> SUFFICES ASSUME NEW e \in Cells PROVE RoleOK(e)'
    BY DEF RolesOK
  <2>1. RoleOK(e)
    BY DEF CellsOK, RolesOK
  <2>2. ASSUME e[1] = "reply", ToWrite(e) \/ ToHandle(e) PROVE c # Message(e[2])
    <3>1. Made(e) /\ Message(e[2])[1] = "message" /\ Message(e[2])[2] = e[2]
      BY <2>1, <2>2 DEF RoleOK, Message
    <3>2. e[2] <= read
      BY <2>2, <3>1 DEF Made
    <3>3. c = Message(e[2]) => c[1] = "message" /\ c[2] <= read
      BY <3>1, <3>2
    <3>4. c[1] = "message" /\ c[2] <= read => Made(c)
      BY DEF Made
    <3> QED
      BY <3>3, <3>4, <1>1
  <2>3. CASE e = c
    BY <2>1, <2>3, <1>1, <1>2, <1>4, <1>5, <1>6 DEF RoleOK
  <2>4. CASE e # c
    BY <2>1, <2>2, <2>4, <1>2, <1>3, <1>5, <1>6 DEF RoleOK, requests
  <2> QED
    BY <2>3, <2>4
<1>10. OnceOK'
  BY <1>2, <1>5 DEF CellsOK, OnceOK
<1>11. CountsOK'
  <2> SUFFICES ASSUME NEW e \in Cells PROVE CountOK(e)'
    BY DEF CountsOK
  <2>1. CountOK(e)
    BY DEF CellsOK, CountsOK
  <2>2. e \in ToSet(readQ') <=> e \in ToSet(readQ) \/ e = c
    BY <1>5
  <2>3. CASE e = c
    BY <2>2, <2>3, <1>1, <1>2, <1>4, <1>6 DEF CountOK, One, ToWrite, ToHandle
  <2>4. CASE e # c
    BY <2>1, <2>2, <2>4, <1>1, <1>2, <1>6 DEF CountOK, One
  <2> QED
    BY <2>3, <2>4
<1>12. LateOK' /\ HandlerOK'
  BY <1>2, <1>3 DEF CellsOK, LateOK, HandlerOK, MemoryType, requests
<1> QED
  BY <1>7, <1>8, <1>9, <1>10, <1>11, <1>12 DEF After, CellsOK

LEMMA InsertCells ==
  ASSUME Before, ReadInsert
  PROVE  After
<1> USE DEF Before, Types
<1>1. PICK c \in Cells : c = held["read"]
  BY DEF ReadInsert, IInv, Shape, QueueShape
<1>2. /\ at["read"] = "insert" /\ at'["read"] = "release" /\ at'["write"] = at["write"]
      /\ Insert(c)
      /\ UNCHANGED <<main, held, writeQ, readQ, ackQ, live, handler, late, process>>
      /\ UNCHANGED <<requests, peer>>
  BY <1>1 DEF ReadInsert, Goto, queues, IInv, Shape, WorksShape, Works
<1>3. ~ InSet(c)
  <2>1. \A s \in Slots : slots[s] # Free => ReqId(slots[s]) # ReqId(c)
    BY <1>1, <1>2 DEF IInv, WaitingOK, Apart
  <2> QED
    BY <2>1, FreeAssumption DEF InSet
<1>4. TimeType' /\ attached' \in [Cells -> Nat]
  BY <1>2, InsertMoves DEF IInv, Shape
<1>5. ASSUME NEW e \in Cells
      PROVE  /\ ToWrite(e)' <=> ToWrite(e)
             /\ ToHandle(e)' <=> ToHandle(e)
             /\ Made(e) <=> Made(e)'
             /\ \/ (InSet(e)' <=> InSet(e)) /\ attached'[e] = attached[e]
                \/ e = c /\ ~ InSet(e) /\ InSet(e)' /\ attached'[e] = attached[e] + 1
  <2>1. ToWrite(e)' <=> ToWrite(e)
    BY <1>2 DEF ToWrite
  <2>2. ToHandle(e)' <=> ToHandle(e)
    BY <1>2 DEF ToHandle
  <2>3. Made(e) <=> Made(e)'
    BY <1>2, MadeSame
  <2>4. \/ (InSet(e)' <=> InSet(e)) /\ attached'[e] = attached[e]
        \/ e = c /\ ~ InSet(e) /\ InSet(e)' /\ attached'[e] = attached[e] + 1
    BY <1>2, <1>3, InsertMoves DEF IInv, Shape
  <2> QED
    BY <2>1, <2>2, <2>3, <2>4
<1>6. HoldOK'
  BY <1>2 DEF CellsOK, HoldOK, Calls
<1>7. MemoryType'
  BY <1>2, <1>4 DEF MemoryType
<1>8. RolesOK'
  <2> SUFFICES ASSUME NEW e \in Cells PROVE RoleOK(e)'
    BY DEF RolesOK
  <2>1. RoleOK(e)
    BY DEF CellsOK, RolesOK
  <2>2. e = c => Made(e)
    BY <2>1, <1>1 DEF RoleOK
  <2> QED
    BY <2>1, <2>2, <1>2, <1>5 DEF RoleOK, requests
<1>9. OnceOK'
  BY <1>2 DEF CellsOK, OnceOK
<1>10. CountsOK'
  <2> SUFFICES ASSUME NEW e \in Cells PROVE CountOK(e)'
    BY DEF CountsOK
  <2>1. CountOK(e) /\ attached[e] \in Nat
    BY DEF CellsOK, CountsOK, MemoryType
  <2>2. e = c => attached[e] > 0
    BY <2>1, <1>1, <1>2 DEF CountOK, One
  <2> QED
    BY <2>1, <2>2, <1>2, <1>5 DEF CountOK, One
<1>11. LateOK' /\ HandlerOK'
  BY <1>2, <1>5 DEF CellsOK, LateOK, HandlerOK, MemoryType, requests
<1> QED
  BY <1>4, <1>6, <1>7, <1>8, <1>9, <1>10, <1>11 DEF After, CellsOK

LEMMA ReleaseCells ==
  ASSUME Before, ReadRelease \/ ReadTest
  PROVE  After
<1> USE DEF Before, Types
<1>1. /\ at["read"] \in {"release", "test"} /\ at'["write"] = at["write"]
      /\ UNCHANGED <<main, queues, slots, tout, handler, late>>
      /\ UNCHANGED <<requests, peer>>
  BY DEF ReadRelease, ReadTest, Goto, reqset, IInv, Shape, WorksShape, Works
<1>2. PICK c \in Cells : c = held["read"]
  BY <1>1 DEF CellsOK, HoldOK, IInv, Shape, QueueShape
<1>3. \/ /\ at["read"] = "release" /\ at'["read"] = "test" /\ held' = held
         /\ live' = live /\ attached' = [attached EXCEPT ![c] = @ - 1]
      \/ /\ at["read"] = "test" /\ at'["read"] = "done"
         /\ held'["write"] = held["write"] /\ held'["read"] = Free
         /\ live' = (IF attached[c] = 0 THEN live \ {c} ELSE live) /\ attached' = attached
  BY <1>2 DEF ReadRelease, ReadTest, Goto, IInv, Shape, WorksShape, QueueShape, Works
<1>4. c # Free /\ c[1] = "answer"
  BY <1>2, FreeAssumption DEF CellsOK, RolesOK, RoleOK
<1>5. ASSUME NEW e \in Cells
      PROVE  /\ ToWrite(e)' <=> ToWrite(e)
             /\ ToHandle(e)' <=> ToHandle(e)
             /\ InSet(e)' <=> InSet(e)
             /\ Made(e) <=> Made(e)'
  <2>1. ToWrite(e)' <=> ToWrite(e)
    BY <1>1, <1>3 DEF ToWrite, queues
  <2>2. ToHandle(e)' <=> ToHandle(e)
    BY <1>1 DEF ToHandle, queues
  <2>3. InSet(e)' <=> InSet(e)
    BY <1>1 DEF InSet
  <2>4. Made(e) <=> Made(e)'
    BY <1>1, MadeSame
  <2> QED
    BY <2>1, <2>2, <2>3, <2>4
<1>6. HoldOK'
  BY <1>1, <1>2, <1>3, <1>4 DEF CellsOK, HoldOK, Calls
<1>7. CountsOK' /\ attached' \in [Cells -> Nat]
  <2>1. \A e \in Cells : CountOK(e)
    BY DEF CellsOK, CountsOK
  <2>2. main.new # c
    BY <1>4 DEF CellsOK, RolesOK, RoleOK, ToWrite
  <2>3. CASE at["read"] = "release"
    <3>1. ASSUME NEW e \in Cells PROVE CountOK(e)'
      <4>1. CountOK(e) /\ e # Free /\ attached[e] \in Nat /\ (InSet(e)' <=> InSet(e))
            /\ attached'[e] = IF e = c THEN attached[e] - 1 ELSE attached[e]
        BY <2>1, <2>3, <1>3, <1>5, FreeAssumption DEF MemoryType
      <4> QED
        BY <4>1, <2>3, <1>1, <1>2, <1>3 DEF CountOK, One, queues
    <3>2. attached[c] > 0
      BY <2>1, <2>3, <1>2 DEF CountOK, One
    <3>3. attached' = [attached EXCEPT ![c] = @ - 1]
      BY <2>3, <1>3
    <3>4. attached' \in [Cells -> Nat]
      BY <3>2, <3>3 DEF MemoryType
    <3> QED
      BY <3>1, <3>4 DEF CountsOK
  <2>4. CASE at["read"] = "test"
    <3>1. ASSUME NEW e \in Cells PROVE CountOK(e)'
      <4>1. CountOK(e) /\ e # Free /\ attached[e] \in Nat /\ (InSet(e)' <=> InSet(e))
            /\ attached'[e] = attached[e]
        BY <2>1, <2>4, <1>3, <1>5, FreeAssumption DEF MemoryType
      <4> QED
        BY <4>1, <2>2, <2>4, <1>1, <1>2, <1>3, <1>4 DEF CountOK, One, queues
    <3>2. attached' = attached
      BY <2>4, <1>3
    <3> QED
      BY <3>1, <3>2 DEF CountsOK, MemoryType
  <2> QED
    BY <1>1, <2>3, <2>4
<1>8. TimeType' /\ MemoryType'
  BY <1>1, <1>3, <1>7 DEF TimeType, MemoryType, queues
<1>9. RolesOK'
  <2> SUFFICES ASSUME NEW e \in Cells PROVE RoleOK(e)'
    BY DEF RolesOK
  <2>1. RoleOK(e)
    BY DEF CellsOK, RolesOK
  <2>2. held'["read"] = e => held["read"] = e
    BY <1>3, FreeAssumption
  <2> QED
    BY <2>1, <2>2, <1>1, <1>5 DEF RoleOK, requests, queues
<1>10. OnceOK'
  BY <1>1, <1>3 DEF CellsOK, OnceOK, queues
<1>11. LateOK' /\ HandlerOK'
  BY <1>1, <1>5 DEF CellsOK, LateOK, HandlerOK, MemoryType, requests
<1> QED
  BY <1>6, <1>7, <1>8, <1>9, <1>10, <1>11 DEF After, CellsOK

(* What signal does to the cells: c is not passed on, or it is passed on   *)
(* in the place of d, which waited.                                        *)
NotPassed(c, count) ==
  /\ UNCHANGED <<ackQ, handler>>
  /\ \A e \in Cells : InSet(e) => ReqId(e) # ReqId(c)
  /\ \A e \in Cells : /\ InSet(e)' <=> InSet(e)
                      /\ attached'[e] = IF e = c THEN count ELSE attached[e]
  /\ live' = live \cup {c}
Passed(c, count, d) ==
  /\ InSet(d) /\ d # c /\ ReqId(d) = ReqId(c)
  /\ \A e \in Cells :
       /\ InSet(e)' <=> InSet(e) /\ e # d
       /\ e \in ToSet(ackQ') <=> e \in ToSet(ackQ) \/ e = c
       /\ attached'[e] = IF e = c THEN count + 1 ELSE IF e = d THEN attached[e] - 1 ELSE attached[e]
  /\ live' = (live \cup {c}) \ (IF attached[d] = 1 THEN {d} ELSE {})
  /\ handler' = [handler EXCEPT ![c] = handler[d]]
  /\ ackQ' = Append(ackQ, c)

LEMMA SignalMoves ==
  ASSUME SlotShape, WaitingOK, TimeType, MemoryType, CellsOK, NEW c \in Cells, ~ InSet(c),
         c \notin ToSet(ackQ), NEW count \in Nat, Signal(c, count)
  PROVE  /\ TimeType' /\ ackQ' \in Seq(Cells) /\ IsInjective(ackQ')
         /\ attached' \in [Cells -> Nat] /\ live' \subseteq Cells /\ handler' \in [Cells -> 0 .. N]
         /\ process' \in {"runs", "undefined"}
         /\ NotPassed(c, count) \/ \E d \in Cells : Passed(c, count, d)
<1>1. process' \in {"runs", "undefined"}
  BY SignalCases
<1>2. CASE Matches(ReqId(c)) = {} /\ Unanswered(c, count)
  <2>1. attached' \in [Cells -> Nat] /\ \A e \in Cells : attached'[e] = IF e = c THEN count ELSE attached[e]
    BY <1>2 DEF Unanswered, MemoryType
  <2>2. \A e \in Cells : InSet(e)' <=> InSet(e)
    BY <1>2 DEF Unanswered, InSet
  <2>3. TimeType' /\ ackQ' \in Seq(Cells) /\ IsInjective(ackQ')
    BY <1>2 DEF Unanswered, TimeType, MemoryType, CellsOK, OnceOK
  <2>4. live' \subseteq Cells /\ handler' \in [Cells -> 0 .. N]
    BY <1>2 DEF Unanswered, MemoryType
  <2>5. \A e \in Cells : InSet(e) => ReqId(e) # ReqId(c)
    BY <1>2, FreeAssumption DEF InSet, Matches
  <2>6. NotPassed(c, count)
    BY <2>1, <2>2, <2>5, <1>2 DEF Unanswered, NotPassed
  <2> QED
    BY <1>1, <2>1, <2>3, <2>4, <2>6
<1>3. CASE \E s \in Slots : Answered(c, count, s)
  <2>1. PICK s \in Slots : Answered(c, count, s)
    BY <1>3
  <2>2. PICK d \in Cells : d = slots[s]
    BY <2>1 DEF Answered, SlotShape
  <2>3. InSet(d) /\ d # c /\ ReqId(d) = ReqId(c) /\ d # Free
    BY <2>1, <2>2, FreeAssumption DEF InSet, Answered
  <2>4. attached[d] > 0
    BY <2>3 DEF CellsOK, CountsOK, CountOK, One
  <2>5. attached' = [attached EXCEPT ![c] = count + 1, ![d] = @ - 1]
    BY <2>1, <2>2 DEF Answered
  <2>6. attached' \in [Cells -> Nat]
    <3>1. attached[d] - 1 \in Nat /\ count + 1 \in Nat
      BY <2>4 DEF MemoryType
    <3>2. [attached EXCEPT ![c] = count + 1] \in [Cells -> Nat]
      BY <3>1 DEF MemoryType
    <3>3. [attached EXCEPT ![c] = count + 1][d] = attached[d]
      BY <2>3 DEF MemoryType
    <3> QED
      BY <2>5, <3>1, <3>2, <3>3
  <2>7. \A e \in Cells : attached'[e] = IF e = c THEN count + 1
                                        ELSE IF e = d THEN attached[e] - 1 ELSE attached[e]
    BY <2>3, <2>5 DEF MemoryType
  <2>8. \A e \in Cells : InSet(e)' <=> InSet(e) /\ e # d
    BY <2>1, <2>2, PlaceOut DEF InSet, Answered, SlotShape, WaitingOK
  <2>9. /\ ackQ' \in Seq(Cells) /\ IsInjective(ackQ')
        /\ \A e \in Cells : e \in ToSet(ackQ') <=> e \in ToSet(ackQ) \/ e = c
    BY <2>1, PutIn DEF Answered, MemoryType, CellsOK, OnceOK
  <2>10. TimeType'
    BY <2>1, OpelAssumption DEF Answered, TimeType, SlotShape
  <2>11. /\ live' = (live \cup {c}) \ (IF attached[d] = 1 THEN {d} ELSE {})
         /\ handler' = [handler EXCEPT ![c] = handler[d]]
    BY <2>1, <2>2 DEF Answered
  <2>12. live' \subseteq Cells /\ handler' \in [Cells -> 0 .. N]
    BY <2>11 DEF MemoryType
  <2>13. Passed(c, count, d)
    BY <2>1, <2>3, <2>7, <2>8, <2>9, <2>11 DEF Passed, Answered
  <2> QED
    BY <1>1, <2>6, <2>9, <2>10, <2>12, <2>13
<1> QED
  BY <1>2, <1>3, SignalCases

LEMMA ReadCells ==
  ASSUME Before, NEW i \in 1 .. N, NEW kind \in {"part", "last"}, ReadAnswer(i, kind)
  PROVE  After
<1> USE DEF Before, Types
<1>1. /\ at["read"] = "select" /\ Len(answers[i]) < MaxAnswers[i] /\ Len(answers[i]) \in Nat
      /\ answers' = [answers EXCEPT ![i] = Append(@, kind)]
      /\ at'["read"] \in {"insert", "release"} /\ at'["write"] = at["write"]
      /\ UNCHANGED <<main, writeQ, readQ, late, asked, sent, read, failures>>
  BY LenProperties DEF ReadAnswer, Goto, requests, IInv, Shape, WorksShape, CountShape, Works
<1>2. PICK k \in 1 .. MaxAnswers[i] : k = Len(answers[i]) + 1
  BY <1>1, OpelAssumption
<1>3. PICK c \in Cells : c = Answer(i, k)
  BY CellsMade
<1>4. c[1] = "answer" /\ c[2] = i /\ c[3] = k /\ c # Free
  BY <1>3, FreeAssumption DEF Answer
<1>5. Signal(c, 1) /\ held' = [held EXCEPT !["read"] = c]
  BY <1>2, <1>3 DEF ReadAnswer
<1>6. held'["read"] = c /\ held'["write"] = held["write"] /\ held["read"] = Free
  BY <1>1, <1>5 DEF IInv, Shape, QueueShape, CellsOK, HoldOK
<1>7. Len(answers'[i]) = k /\ \A j \in 1 .. N : j # i => answers'[j] = answers[j]
  BY <1>1, <1>2 DEF IInv, Shape, CountShape
<1>8. ASSUME NEW e \in Cells, Made(e) PROVE Made(e)'
  <2>1. asked <= asked' /\ read <= read' /\ failures <= failures'
    BY <1>1, OpelAssumption DEF IInv, Shape, CountShape
  <2>2. \A j \in 1 .. N : sent[j] <= sent'[j] /\ Len(answers[j]) <= Len(answers'[j])
    BY <1>1, <1>2, <1>7, LenProperties DEF IInv, Shape, CountShape
  <2> QED
    BY <1>8, <2>1, <2>2, MadeStays DEF IInv, Shape
<1>9. ~ Made(c) /\ Made(c)'
  <2>1. ~ (k <= Len(answers[i])) /\ k <= Len(answers'[i])
    BY <1>1, <1>2, <1>7
  <2> QED
    BY <2>1, <1>4 DEF Made
<1>10. /\ ~ ToWrite(c) /\ ~ ToHandle(c) /\ ~ InSet(c) /\ c \notin ToSet(readQ) /\ c \notin late
       /\ c \notin ToSet(ackQ) /\ held["write"] # c /\ main.cell # c /\ main.new # c
       /\ c \notin ToSet(writeQ)
  BY <1>9, Nowhere DEF ToWrite, ToHandle
<1>11. /\ TimeType' /\ ackQ' \in Seq(Cells) /\ IsInjective(ackQ')
       /\ attached' \in [Cells -> Nat] /\ live' \subseteq Cells /\ handler' \in [Cells -> 0 .. N]
       /\ process' \in {"runs", "undefined"}
       /\ NotPassed(c, 1) \/ \E d \in Cells : Passed(c, 1, d)
  BY <1>5, <1>10, SignalMoves, 1 \in Nat DEF IInv, Shape
<1>12. HoldOK'
  BY <1>1, <1>4, <1>6 DEF CellsOK, HoldOK, Calls
<1>13. MemoryType'
  BY <1>1, <1>11 DEF MemoryType
<1>14. OnceOK'
  BY <1>1, <1>6, <1>11 DEF CellsOK, OnceOK
<1>15. ASSUME NEW e \in Cells
       PROVE  /\ ToWrite(e)' <=> ToWrite(e)
              /\ ToHandle(e)' => ToHandle(e) \/ e = c
              /\ InSet(e)' => InSet(e)
  <2>1. ToWrite(e)' <=> ToWrite(e)
    BY <1>1, <1>6 DEF ToWrite
  <2>2. ToHandle(e)' => ToHandle(e) \/ e = c
    BY <1>1, <1>11 DEF ToHandle, NotPassed, Passed
  <2>3. InSet(e)' => InSet(e)
    BY <1>11 DEF NotPassed, Passed
  <2> QED
    BY <2>1, <2>2, <2>3
<1>16. RolesOK'
  <2> SUFFICES ASSUME NEW e \in Cells PROVE RoleOK(e)'
    BY DEF RolesOK
  <2>1. RoleOK(e)
    BY DEF CellsOK, RolesOK
  <2>2. CASE e = c
    BY <2>2, <1>1, <1>4, <1>9, <1>10, <1>15 DEF RoleOK
  <2>3. CASE e # c
    <3>1. held'["read"] # e
      BY <2>3, <1>6
    <3> QED
      BY <3>1, <2>1, <2>3, <1>1, <1>8, <1>15 DEF RoleOK
  <2> QED
    BY <2>2, <2>3
<1>17. CountsOK'
  <2> SUFFICES ASSUME NEW e \in Cells PROVE CountOK(e)'
    BY DEF CountsOK
  <2>1. CountOK(e) /\ e # Free /\ attached[e] \in Nat
    BY FreeAssumption DEF CellsOK, CountsOK, MemoryType
  <2>2. CASE NotPassed(c, 1)
    <3>1. /\ InSet(e)' <=> InSet(e)
          /\ attached'[e] = IF e = c THEN 1 ELSE attached[e]
          /\ live' = live \cup {c} /\ ackQ' = ackQ
      BY <2>2 DEF NotPassed
    <3>2. CASE e = c
      BY <3>1, <3>2, <1>1, <1>6, <1>10 DEF CountOK, One
    <3>3. CASE e # c
      BY <3>1, <3>3, <2>1, <1>1, <1>6 DEF CountOK, One
    <3> QED
      BY <3>2, <3>3
  <2>3. CASE \E d \in Cells : Passed(c, 1, d)
    <3>1. PICK d \in Cells : Passed(c, 1, d)
      BY <2>3
    <3>2. /\ InSet(e)' <=> InSet(e) /\ e # d
          /\ e \in ToSet(ackQ') <=> e \in ToSet(ackQ) \/ e = c
          /\ attached'[e] = IF e = c THEN 2 ELSE IF e = d THEN attached[e] - 1 ELSE attached[e]
          /\ live' = (live \cup {c}) \ (IF attached[d] = 1 THEN {d} ELSE {})
          /\ InSet(d) /\ d # c
      BY <3>1 DEF Passed
    <3>3. main.new # d
      <4>1. d[1] \in {"entry", "answer"}
        BY <3>2, InSetKind DEF IInv
      <4> QED
        BY <4>1 DEF CellsOK, RolesOK, RoleOK, ToWrite
    <3>4. CASE e = c
      BY <3>2, <3>4, <1>1, <1>6, <1>10 DEF CountOK, One
    <3>5. CASE e = d
      BY <3>2, <3>3, <3>5, <2>1, <1>1, <1>6 DEF CountOK, One
    <3>6. CASE e # c /\ e # d
      BY <3>2, <3>6, <2>1, <1>1, <1>6 DEF CountOK, One
    <3> QED
      BY <3>4, <3>5, <3>6
  <2> QED
    BY <2>2, <2>3, <1>11
<1>18. LateOK'
  BY <1>1, <1>8 DEF CellsOK, LateOK, MemoryType
<1>19. HandlerOK'
  <2>1. CASE NotPassed(c, 1)
    BY <2>1, <1>1 DEF NotPassed, CellsOK, HandlerOK
  <2>2. CASE \E d \in Cells : Passed(c, 1, d)
    <3>1. PICK d \in Cells : Passed(c, 1, d)
      BY <2>2
    <3>2. handler' = [handler EXCEPT ![c] = handler[d]] /\ ReqId(d) = ReqId(c)
      BY <3>1 DEF Passed
    <3> QED
      BY <3>2, <1>1 DEF CellsOK, HandlerOK, MemoryType
  <2> QED
    BY <2>1, <2>2, <1>11
<1> QED
  BY <1>11, <1>12, <1>13, <1>14, <1>16, <1>17, <1>18, <1>19 DEF After, CellsOK

(* The steps of the write work.                                            *)
LEMMA TakeCells ==
  ASSUME Before, WriteTake
  PROVE  After
<1> USE DEF Before, Types
<1>1. PICK c \in Cells : c = Head(writeQ) /\ writeQ # <<>>
  BY TakeOut DEF WriteTake, IInv, Shape, QueueShape
<1>2. /\ at["write"] = "take" /\ at'["write"] = "writing" /\ at'["read"] = at["read"]
      /\ writeQ' = Tail(writeQ) /\ held'["write"] = c /\ held'["read"] = held["read"]
      /\ UNCHANGED <<main, readQ, ackQ, slots, tout, live, attached, handler, late, process>>
      /\ UNCHANGED <<requests, peer>>
  BY <1>1 DEF WriteTake, Goto, reqset, memory, IInv, Shape, WorksShape, QueueShape, Works
<1>3. held["write"] = Free /\ c # Free
  BY <1>2, FreeAssumption DEF CellsOK, HoldOK
<1>4. /\ c \in ToSet(writeQ) /\ c \notin ToSet(writeQ') /\ IsInjective(writeQ')
      /\ \A e \in Cells : e \in ToSet(writeQ') <=> e \in ToSet(writeQ) /\ e # c
  BY <1>1, <1>2, TakeOut DEF IInv, Shape, QueueShape, CellsOK, OnceOK
<1>5. ASSUME NEW e \in Cells
      PROVE  /\ ToWrite(e)' <=> ToWrite(e)
             /\ ToHandle(e)' <=> ToHandle(e)
             /\ InSet(e)' <=> InSet(e)
             /\ Made(e) <=> Made(e)'
  <2>1. ToWrite(e)' <=> ToWrite(e)
    BY <1>2, <1>3, <1>4, FreeAssumption DEF ToWrite
  <2>2. ToHandle(e)' <=> ToHandle(e)
    BY <1>2 DEF ToHandle
  <2>3. InSet(e)' <=> InSet(e)
    BY <1>2 DEF InSet
  <2>4. Made(e) <=> Made(e)'
    BY <1>2, MadeSame
  <2> QED
    BY <2>1, <2>2, <2>3, <2>4
<1>6. HoldOK'
  BY <1>2, <1>3 DEF CellsOK, HoldOK, Calls
<1>7. TimeType' /\ MemoryType'
  BY <1>2 DEF TimeType, MemoryType
<1>8. RolesOK'
  BY <1>2, <1>5 DEF CellsOK, RolesOK, RoleOK, requests
<1>9. OnceOK'
  BY <1>2, <1>4 DEF CellsOK, OnceOK
<1>10. CountsOK'
  <2> SUFFICES ASSUME NEW e \in Cells PROVE CountOK(e)'
    BY DEF CountsOK
  <2>1. CountOK(e) /\ e # Free /\ (e \in ToSet(writeQ') <=> e \in ToSet(writeQ) /\ e # c)
    BY <1>4, FreeAssumption DEF CellsOK, CountsOK
  <2> QED
    BY <2>1, <1>2, <1>3, <1>4, <1>5 DEF CountOK, One
<1>11. LateOK' /\ HandlerOK'
  BY <1>2, <1>5 DEF CellsOK, LateOK, HandlerOK, MemoryType, requests
<1> QED
  BY <1>6, <1>7, <1>8, <1>9, <1>10, <1>11 DEF After, CellsOK

LEMMA DoneCells ==
  ASSUME Before, WriteDone
  PROVE  After
<1> USE DEF Before, Types
<1>1. PICK c \in Cells : c = held["write"]
  BY DEF WriteDone, IInv, Shape, QueueShape
<1> DEFINE d == Packet(c[2], c[3] + 1)
<1>2. /\ at["write"] = "writing" /\ at'["write"] = "done" /\ at'["read"] = at["read"]
      /\ held'["write"] = Free /\ held'["read"] = held["read"]
      /\ UNCHANGED <<main, readQ, ackQ, slots, handler, late, asked, process>>
      /\ UNCHANGED <<answers, read, failures>>
  BY DEF WriteDone, Goto, peer, IInv, Shape, WorksShape, QueueShape, Works
<1>3. /\ c # Free /\ ToWrite(c) /\ c[1] \in {"packet", "reply"} /\ Made(c) /\ ~ ToHandle(c)
      /\ c[1] = "packet" => c[3] = sent[c[2]] + 1
      /\ c \notin ToSet(writeQ) /\ main.new # c
      /\ c \notin ToSet(readQ) /\ c \notin ToSet(ackQ) /\ main.cell # c /\ held["read"] # c
      /\ ~ InSet(c)
  <2>1. c # Free /\ ToWrite(c) /\ c \notin ToSet(writeQ) /\ main.new # c
    BY <1>1, FreeAssumption DEF ToWrite, CellsOK, OnceOK
  <2>2. RoleOK(c)
    BY DEF CellsOK, RolesOK
  <2>3. c[1] \in {"packet", "reply"}
    BY <2>1, <2>2 DEF RoleOK
  <2>4. ~ InSet(c)
    BY <2>3, InSetKind DEF IInv
  <2> QED
    BY <2>1, <2>2, <2>3, <2>4 DEF RoleOK, ToHandle
<1>4. c[1] = "packet" => c[2] \in 1 .. N /\ c[3] \in Nat /\ sent'[c[2]] = sent[c[2]] + 1
  <2>1. c[1] = "packet" => c[2] \in 1 .. N /\ c[3] \in Nat
    BY CellKinds, OpelAssumption
  <2>2. sent' = IF c[1] = "packet" THEN [sent EXCEPT ![c[2]] = @ + 1] ELSE sent
    BY <1>1 DEF WriteDone
  <2> QED
    BY <2>1, <2>2 DEF IInv, Shape, CountShape
<1>5. \A i \in 1 .. N : ~ (c[1] = "packet" /\ c[2] = i) => sent'[i] = sent[i]
  BY <1>1 DEF WriteDone, IInv, Shape, CountShape
<1>6. ASSUME NEW e \in Cells, Made(e) PROVE Made(e)'
  <2>1. asked <= asked' /\ read <= read' /\ failures <= failures'
    BY <1>2, OpelAssumption DEF IInv, Shape, CountShape
  <2>2. \A j \in 1 .. N : sent[j] <= sent'[j] /\ Len(answers[j]) <= Len(answers'[j])
    BY <1>2, <1>4, <1>5, LenProperties DEF IInv, Shape, CountShape
  <2> QED
    BY <1>6, <2>1, <2>2, MadeStays DEF IInv, Shape
<1>7. HasNext(c) =>
        /\ d \in Cells /\ c[1] = "packet" /\ d[1] = "packet" /\ d[2] = c[2] /\ d[3] = c[3] + 1
        /\ ~ Made(d) /\ Made(d)' /\ d[3] = sent'[d[2]] + 1 /\ d # c
  <2> SUFFICES ASSUME HasNext(c)
               PROVE  /\ d \in Cells /\ c[1] = "packet" /\ d[1] = "packet" /\ d[2] = c[2] /\ d[3] = c[3] + 1
                      /\ ~ Made(d) /\ Made(d)' /\ d[3] = sent'[d[2]] + 1 /\ d # c
    OBVIOUS
  <2>1. c[1] = "packet" /\ c[2] \in 1 .. N /\ c[3] \in 1 .. Size[c[2]] /\ c[3] < Size[c[2]]
    BY CellKinds DEF HasNext
  <2>2. Size[c[2]] \in Nat /\ c[3] \in Nat /\ c[3] + 1 \in 1 .. Size[c[2]]
    <3>1. Size[c[2]] \in Nat
      BY <2>1, OpelAssumption
    <3> QED
      BY <2>1, <3>1
  <2>3. d \in Cells /\ d[1] = "packet" /\ d[2] = c[2] /\ d[3] = c[3] + 1
    BY <2>1, <2>2, CellsMade DEF Packet
  <2> HIDE DEF d
  <2>4. d[3] = sent'[d[2]] + 1 /\ ~ (d[3] <= sent[d[2]] + 1) /\ d # c
    <3>1. sent[c[2]] \in Nat
      BY <2>1 DEF IInv, Shape, CountShape
    <3>2. sent'[c[2]] = c[3] /\ ~ (c[3] <= sent[c[2]])
      BY <2>1, <2>2, <1>3, <1>4, <3>1 DEF IInv, Shape, CountShape
    <3> QED
      BY <2>2, <2>3, <3>1, <3>2
  <2>5. ~ Made(d)
    BY <2>3, <2>4 DEF Made
  <2>6. Made(d)'
    <3>1. c[2] <= asked'
      BY <1>2, <1>3, <2>1 DEF Made
    <3>2. d[3] <= sent'[d[2]] + 1
      BY <2>2, <2>3, <2>4
    <3> QED
      BY <3>1, <3>2, <2>3, <1>2 DEF Made
  <2> QED
    BY <2>1, <2>3, <2>4, <2>5, <2>6
<1>8. HasNext(c) =>
        /\ ~ ToWrite(d) /\ ~ ToHandle(d) /\ ~ InSet(d) /\ d \notin ToSet(readQ) /\ held["read"] # d
        /\ d \notin ToSet(writeQ) /\ d \notin ToSet(ackQ) /\ main.cell # d /\ main.new # d /\ d # Free
        /\ attached[d] = 0
  <2>1. ASSUME HasNext(c)
        PROVE  /\ ~ ToWrite(d) /\ ~ ToHandle(d) /\ ~ InSet(d) /\ d \notin ToSet(readQ)
               /\ held["read"] # d /\ d # Free /\ attached[d] = 0
    <3> HIDE DEF d
    <3>1. PICK e \in Cells : e = d
      BY <1>7, <2>1
    <3>2. ~ Made(e)
      BY <3>1, <1>7, <2>1
    <3> QED
      BY <3>1, <3>2, Nowhere, FreeAssumption
  <2> HIDE DEF d
  <2> QED
    BY <2>1 DEF ToWrite, ToHandle
<1>9. \/ /\ HasNext(c) /\ writeQ' = Append(writeQ, d) /\ live' = (live \ {c}) \cup {d}
         /\ attached' = [attached EXCEPT ![c] = 0, ![d] = 1]
      \/ /\ ~ HasNext(c) /\ writeQ' = writeQ /\ live' = live \ {c}
         /\ attached' = [attached EXCEPT ![c] = 0]
  BY <1>1 DEF WriteDone
<1>10. tout' \in [Slots -> 0 .. Timeout] /\ \A s \in Slots : tout'[s] = tout[s] \/ tout'[s] = Timeout
  <2>1. tout' = tout \/ \E s : tout' = [tout EXCEPT ![s] = Timeout]
    BY DEF WriteDone
  <2>2. Timeout \in 0 .. Timeout
    BY OpelAssumption
  <2> QED
    BY <2>1, <2>2 DEF TimeType
<1> HIDE DEF d
<1>11. TimeType'
  BY <1>2, <1>10, OpelAssumption DEF TimeType
<1>12. /\ \A e \in Cells : e \in ToSet(writeQ') <=> e \in ToSet(writeQ) \/ (HasNext(c) /\ e = d)
       /\ IsInjective(writeQ')
  <2>1. CASE HasNext(c)
    <3>1. writeQ \in Seq(Cells) /\ d \in Cells /\ d \notin ToSet(writeQ) /\ IsInjective(writeQ)
      BY <2>1, <1>7, <1>8 DEF IInv, Shape, QueueShape, CellsOK, OnceOK
    <3>2. writeQ' = Append(writeQ, d)
      BY <2>1, <1>9
    <3>3. /\ ToSet(Append(writeQ, d)) = ToSet(writeQ) \cup {d}
          /\ IsInjective(Append(writeQ, d))
      BY <3>1, PutIn
    <3> QED
      BY <2>1, <3>2, <3>3
  <2>2. CASE ~ HasNext(c)
    BY <2>2, <1>9 DEF CellsOK, OnceOK
  <2> QED
    BY <2>1, <2>2
<1>13. ASSUME NEW e \in Cells
       PROVE  /\ ToWrite(e)' <=> (ToWrite(e) /\ e # c) \/ (HasNext(c) /\ e = d)
              /\ ToHandle(e)' <=> ToHandle(e)
              /\ InSet(e)' <=> InSet(e)
              /\ attached'[e] = IF e = c THEN 0 ELSE IF HasNext(c) /\ e = d THEN 1 ELSE attached[e]
  <2>1. ToWrite(e)' <=> (ToWrite(e) /\ e # c) \/ (HasNext(c) /\ e = d)
    BY <1>1, <1>2, <1>3, <1>7, <1>12, FreeAssumption DEF ToWrite
  <2>2. ToHandle(e)' <=> ToHandle(e)
    BY <1>2 DEF ToHandle
  <2>3. InSet(e)' <=> InSet(e)
    BY <1>2 DEF InSet
  <2>4. attached'[e] = IF e = c THEN 0 ELSE IF HasNext(c) /\ e = d THEN 1 ELSE attached[e]
    BY <1>7, <1>9 DEF MemoryType
  <2> QED
    BY <2>1, <2>2, <2>3, <2>4
<1>14. HoldOK'
  BY <1>2 DEF CellsOK, HoldOK, Calls
<1>15. MemoryType'
  <2>1. attached' \in [Cells -> Nat] /\ live' \subseteq Cells
    <3>1. CASE HasNext(c)
      <4>1. d \in Cells /\ attached \in [Cells -> Nat] /\ live \subseteq Cells
        BY <3>1, <1>7 DEF MemoryType
      <4>2. attached' = [attached EXCEPT ![c] = 0, ![d] = 1] /\ live' = (live \ {c}) \cup {d}
        BY <3>1, <1>9
      <4> QED
        BY <4>1, <4>2
    <3>2. CASE ~ HasNext(c)
      BY <3>2, <1>9 DEF MemoryType
    <3> QED
      BY <3>1, <3>2
  <2> QED
    BY <2>1, <1>2 DEF MemoryType
<1>16. RolesOK'
  <2> SUFFICES ASSUME NEW e \in Cells PROVE RoleOK(e)'
    BY DEF RolesOK
  <2>1. RoleOK(e)
    BY DEF CellsOK, RolesOK
  <2>2. CASE HasNext(c) /\ e = d
    BY <2>2, <1>2, <1>7, <1>8, <1>13 DEF RoleOK
  <2>3. CASE ~ (HasNext(c) /\ e = d)
    <3>1. ASSUME ToWrite(e), e # c, e[1] = "packet" PROVE e[3] = sent'[e[2]] + 1
      <4>1. e[3] = sent[e[2]] + 1 /\ e[2] \in 1 .. N
        BY <2>1, <3>1, CellKinds DEF RoleOK
      <4>2. ~ (c[1] = "packet" /\ c[2] = e[2])
        BY <4>1, <3>1, <1>3, SameCell
      <4> QED
        BY <4>1, <4>2, <1>5
    <3> QED
      BY <3>1, <2>1, <2>3, <1>2, <1>6, <1>13 DEF RoleOK
  <2> QED
    BY <2>2, <2>3
<1>17. OnceOK'
  BY <1>2, <1>8, <1>12, FreeAssumption DEF CellsOK, OnceOK
<1>18. CountsOK'
  <2> SUFFICES ASSUME NEW e \in Cells PROVE CountOK(e)'
    BY DEF CountsOK
  <2>1. /\ CountOK(e) /\ e # Free /\ attached[e] \in Nat
        /\ e \in ToSet(writeQ') <=> e \in ToSet(writeQ) \/ (HasNext(c) /\ e = d)
    BY <1>12, FreeAssumption DEF CellsOK, CountsOK, MemoryType
  <2>2. CASE HasNext(c) /\ e = d
    BY <2>1, <2>2, <1>2, <1>7, <1>8, <1>9, <1>13 DEF CountOK, One
  <2>3. CASE e = c
    BY <2>1, <2>3, <1>2, <1>3, <1>7, <1>9, <1>13 DEF CountOK, One
  <2>4. CASE e # c /\ ~ (HasNext(c) /\ e = d)
    BY <2>1, <2>4, <1>1, <1>2, <1>9, <1>13 DEF CountOK, One
  <2> QED
    BY <2>2, <2>3, <2>4
<1>19. LateOK'
  BY <1>2, <1>6 DEF CellsOK, LateOK, MemoryType
<1>20. HandlerOK'
  BY <1>2 DEF CellsOK, HandlerOK
<1> QED
  BY <1>11, <1>14, <1>15, <1>16, <1>17, <1>18, <1>19, <1>20 DEF After, CellsOK

LEMMA FailCells ==
  ASSUME Before, WriteFails
  PROVE  After
<1> USE DEF Before, Types
<1>1. PICK c \in Cells : c = held["write"]
  BY DEF WriteFails, IInv, Shape, QueueShape
<1>2. /\ at["write"] = "writing" /\ at'["write"] = "done" /\ at'["read"] = at["read"]
      /\ held'["write"] = Free /\ held'["read"] = held["read"]
      /\ Signal(c, 0)
      /\ UNCHANGED <<main, writeQ, readQ, late>>
      /\ UNCHANGED <<requests, peer>>
  BY <1>1 DEF WriteFails, Goto, IInv, Shape, WorksShape, QueueShape, Works
<1>3. /\ c # Free /\ ToWrite(c) /\ c[1] \in {"packet", "reply"} /\ Made(c) /\ ~ ToHandle(c)
      /\ c \notin ToSet(writeQ) /\ main.new # c
      /\ c \notin ToSet(readQ) /\ c \notin ToSet(ackQ) /\ main.cell # c /\ held["read"] # c
      /\ c[1] = "reply" => Message(c[2]) \notin ToSet(readQ)
      /\ ~ InSet(c)
  <2>1. c # Free /\ ToWrite(c) /\ c \notin ToSet(writeQ) /\ main.new # c
    BY <1>1, FreeAssumption DEF ToWrite, CellsOK, OnceOK
  <2>2. RoleOK(c)
    BY DEF CellsOK, RolesOK
  <2>3. c[1] \in {"packet", "reply"}
    BY <2>1, <2>2 DEF RoleOK
  <2>4. ~ InSet(c)
    BY <2>3, InSetKind DEF IInv
  <2> QED
    BY <2>1, <2>2, <2>3, <2>4 DEF RoleOK, ToHandle
<1>4. /\ TimeType' /\ ackQ' \in Seq(Cells) /\ IsInjective(ackQ')
      /\ attached' \in [Cells -> Nat] /\ live' \subseteq Cells /\ handler' \in [Cells -> 0 .. N]
      /\ NotPassed(c, 0) \/ \E d \in Cells : Passed(c, 0, d)
  BY <1>2, <1>3, SignalMoves, 0 \in Nat DEF IInv, Shape
<1>5. HoldOK'
  BY <1>2 DEF CellsOK, HoldOK, Calls
<1>6. MemoryType'
  BY <1>2, <1>4 DEF MemoryType
<1>7. OnceOK'
  BY <1>2, <1>4, FreeAssumption DEF CellsOK, OnceOK
<1>8. ASSUME NEW e \in Cells
      PROVE  /\ ToWrite(e)' <=> ToWrite(e) /\ e # c
             /\ ToHandle(e)' => ToHandle(e) \/ e = c
             /\ InSet(e)' => InSet(e)
             /\ Made(e) <=> Made(e)'
  <2>1. ToWrite(e)' <=> ToWrite(e) /\ e # c
    BY <1>1, <1>2, <1>3, FreeAssumption DEF ToWrite
  <2>2. ToHandle(e)' => ToHandle(e) \/ e = c
    BY <1>2, <1>4 DEF ToHandle, NotPassed, Passed
  <2>3. InSet(e)' => InSet(e)
    BY <1>4 DEF NotPassed, Passed
  <2>4. Made(e) <=> Made(e)'
    BY <1>2, MadeSame
  <2> QED
    BY <2>1, <2>2, <2>3, <2>4
<1>9. RolesOK'
  <2> SUFFICES ASSUME NEW e \in Cells PROVE RoleOK(e)'
    BY DEF RolesOK
  <2>1. RoleOK(e)
    BY DEF CellsOK, RolesOK
  <2>2. CASE e = c
    BY <2>2, <1>2, <1>3, <1>8 DEF RoleOK
  <2>3. CASE e # c
    BY <2>1, <2>3, <1>2, <1>8 DEF RoleOK, requests
  <2> QED
    BY <2>2, <2>3
<1>10. CountsOK'
  <2> SUFFICES ASSUME NEW e \in Cells PROVE CountOK(e)'
    BY DEF CountsOK
  <2>1. CountOK(e) /\ e # Free /\ attached[e] \in Nat
    BY FreeAssumption DEF CellsOK, CountsOK, MemoryType
  <2>2. CASE NotPassed(c, 0)
    <3>1. /\ InSet(e)' <=> InSet(e)
          /\ attached'[e] = IF e = c THEN 0 ELSE attached[e]
          /\ live' = live \cup {c} /\ ackQ' = ackQ
      BY <2>2 DEF NotPassed
    <3>2. CASE e = c
      BY <3>1, <3>2, <1>2, <1>3 DEF CountOK, One
    <3>3. CASE e # c
      BY <3>1, <3>3, <2>1, <1>1, <1>2 DEF CountOK, One
    <3> QED
      BY <3>2, <3>3
  <2>3. CASE \E d \in Cells : Passed(c, 0, d)
    <3>1. PICK d \in Cells : Passed(c, 0, d)
      BY <2>3
    <3>2. /\ InSet(e)' <=> InSet(e) /\ e # d
          /\ e \in ToSet(ackQ') <=> e \in ToSet(ackQ) \/ e = c
          /\ attached'[e] = IF e = c THEN 1 ELSE IF e = d THEN attached[e] - 1 ELSE attached[e]
          /\ live' = (live \cup {c}) \ (IF attached[d] = 1 THEN {d} ELSE {})
          /\ InSet(d) /\ d # c
      BY <3>1 DEF Passed
    <3>3. main.new # d
      <4>1. d[1] \in {"entry", "answer"}
        BY <3>2, InSetKind DEF IInv
      <4> QED
        BY <4>1 DEF CellsOK, RolesOK, RoleOK, ToWrite
    <3>4. CASE e = c
      BY <3>2, <3>4, <1>2, <1>3 DEF CountOK, One
    <3>5. CASE e = d
      BY <3>2, <3>3, <3>5, <2>1, <1>1, <1>2 DEF CountOK, One
    <3>6. CASE e # c /\ e # d
      BY <3>2, <3>6, <2>1, <1>1, <1>2 DEF CountOK, One
    <3> QED
      BY <3>4, <3>5, <3>6
  <2> QED
    BY <2>2, <2>3, <1>4
<1>11. LateOK'
  BY <1>2, <1>8 DEF CellsOK, LateOK, MemoryType
<1>12. HandlerOK'
  <2>1. CASE NotPassed(c, 0)
    BY <2>1, <1>2 DEF NotPassed, CellsOK, HandlerOK, requests
  <2>2. CASE \E d \in Cells : Passed(c, 0, d)
    <3>1. PICK d \in Cells : Passed(c, 0, d)
      BY <2>2
    <3>2. handler' = [handler EXCEPT ![c] = handler[d]] /\ ReqId(d) = ReqId(c)
      BY <3>1 DEF Passed
    <3> QED
      BY <3>2, <1>2 DEF CellsOK, HandlerOK, MemoryType, requests
  <2> QED
    BY <2>1, <2>2, <1>4
<1> QED
  BY <1>4, <1>5, <1>6, <1>7, <1>9, <1>10, <1>11, <1>12 DEF After, CellsOK

(* The req_set when the time is over.                                      *)
LEMMA ExpireCells ==
  ASSUME Before, TimedOut
  PROVE  After
<1> USE DEF Before, Types
<1>1. /\ Expire /\ at'["read"] = at["read"] /\ at'["write"] = at["write"]
      /\ UNCHANGED <<main, held, writeQ, readQ, live, attached, handler>>
      /\ UNCHANGED <<requests, peer>>
  BY DEF TimedOut, Goto, IInv, Shape, WorksShape, Works
<1>2. PICK q : Moved(q)
  BY <1>1, ExpireMoves DEF IInv, Shape
<1>3. /\ q \in Seq(Cells) /\ IsInjective(q) /\ ToSet(q) \subseteq Cells
      /\ \A c \in Cells : c \in ToSet(q) <=> \E s \in Expired : slots[s] = c
      /\ ackQ' = ackQ \o q /\ late' = late \cup ToSet(q)
      /\ process' = IF ToSet(q) \cap ToSet(ackQ) # {} THEN "undefined" ELSE process
  BY <1>2, LenProperties DEF Moved, ToSet
<1>4. ackQ' \in Seq(Cells) /\ ToSet(ackQ') = ToSet(ackQ) \cup ToSet(q)
  BY <1>3, PutInAll DEF MemoryType
<1>5. /\ slots' = [s \in Slots |-> IF s \in Expired THEN Free ELSE slots[s]]
      /\ tout' = [s \in Slots |-> IF slots[s] # Free THEN tout[s] - 1 ELSE 0]
  BY <1>1 DEF Expire
<1>6. ASSUME NEW e \in Cells
      PROVE  /\ ToWrite(e)' <=> ToWrite(e)
             /\ ToHandle(e)' <=> ToHandle(e) \/ e \in ToSet(q)
             /\ InSet(e)' <=> InSet(e) /\ e \notin ToSet(q)
             /\ e \in ToSet(q) => InSet(e)
             /\ Made(e) <=> Made(e)'
  <2>1. ToWrite(e)' <=> ToWrite(e)
    BY <1>1 DEF ToWrite
  <2>2. ToHandle(e)' <=> ToHandle(e) \/ e \in ToSet(q)
    BY <1>1, <1>4 DEF ToHandle
  <2>3. e \in ToSet(q) => InSet(e)
    BY <1>3 DEF InSet, Expired
  <2>4. InSet(e)' <=> InSet(e) /\ e \notin ToSet(q)
    <3>1. e # Free
      BY FreeAssumption
    <3>2. ASSUME NEW s \in Slots, NEW t \in Slots, slots[s] = e, slots[t] = e PROVE s = t
      BY <3>1, <3>2 DEF IInv, WaitingOK, Waiting
    <3> QED
      BY <3>1, <3>2, <1>3, <1>5 DEF InSet, Expired
  <2>5. Made(e) <=> Made(e)'
    BY <1>1, MadeSame
  <2> QED
    BY <2>1, <2>2, <2>3, <2>4, <2>5
<1>7. TimeType'
  <2>1. ASSUME NEW s \in Slots
        PROVE  tout'[s] \in 0 .. Timeout /\ (slots'[s] # Free => tout'[s] > 0)
    <3>1. tout[s] \in 0 .. Timeout /\ (slots[s] # Free => tout[s] > 0) /\ Timeout \in Nat
      BY OpelAssumption DEF TimeType
    <3>2. tout'[s] = IF slots[s] # Free THEN tout[s] - 1 ELSE 0
      BY <1>5
    <3>3. slots'[s] # Free => slots[s] # Free /\ tout[s] # 1
      BY <1>5 DEF Expired
    <3> QED
      BY <3>1, <3>2, <3>3
  <2> QED
    BY <2>1, <1>5 DEF TimeType
<1>8. MemoryType'
  BY <1>1, <1>3, <1>4 DEF MemoryType
<1>9. ASSUME process' = "runs" PROVE CellsOK'
  <2>1. ToSet(q) \cap ToSet(ackQ) = {}
    BY <1>3, <1>9
  <2>2. IsInjective(ackQ')
    BY <2>1, <1>3, PutInAll DEF MemoryType, CellsOK, OnceOK
  <2>3. HoldOK'
    BY <1>1 DEF CellsOK, HoldOK, Calls
  <2>4. RolesOK'
    <3> SUFFICES ASSUME NEW e \in Cells PROVE RoleOK(e)'
      BY DEF RolesOK
    <3>1. RoleOK(e)
      BY DEF CellsOK, RolesOK
    <3>2. e \in ToSet(q) => e[1] \in {"entry", "answer"}
      BY <1>6, InSetKind DEF IInv
    <3> QED
      BY <3>1, <3>2, <1>1, <1>6 DEF RoleOK, requests
  <2>5. OnceOK'
    BY <2>2, <1>1 DEF CellsOK, OnceOK
  <2>6. CountsOK'
    <3> SUFFICES ASSUME NEW e \in Cells PROVE CountOK(e)'
      BY DEF CountsOK
    <3>1. CountOK(e)
      BY DEF CellsOK, CountsOK
    <3>2. e \in ToSet(ackQ') <=> e \in ToSet(ackQ) \/ e \in ToSet(q)
      BY <1>4
    <3> QED
      BY <3>1, <3>2, <2>1, <1>1, <1>6 DEF CountOK, One
  <2>7. LateOK'
    <3>1. ASSUME NEW c \in ToSet(q) PROVE c[1] \in {"entry", "answer"} /\ Made(c)
      <4>1. c \in Cells /\ InSet(c)
        BY <1>3, <1>6
      <4> QED
        BY <4>1, InSetKind DEF IInv, CellsOK, RolesOK, RoleOK
    <3> QED
      BY <3>1, <1>3, <1>6 DEF CellsOK, LateOK, MemoryType
  <2>8. HandlerOK'
    BY <1>1 DEF CellsOK, HandlerOK, requests
  <2> QED
    BY <2>3, <2>4, <2>5, <2>6, <2>7, <2>8 DEF CellsOK
<1> QED
  BY <1>7, <1>8, <1>9 DEF After
-----------------------------------------------------------------------------
(* The types                                                               *)

(* Every work keeps to its own places.                                     *)
LEMMA GotoAt ==
  ASSUME WorksShape, AtType, NEW w \in Works, NEW place \in At[w], Goto(w, place)
  PROVE  AtType'
<1>1. at' = [at EXCEPT ![w] = place] /\ at \in [Works -> Places]
  BY DEF Goto, WorksShape
<1> QED
  BY <1>1 DEF AtType

LEMMA AtStep ==
  ASSUME IInv, AtType, Next
  PROVE  AtType'
<1> USE DEF IInv, Shape
<1>1. ASSUME Start PROVE AtType'
  <2>1. pool # <<>> /\ Goto(Head(pool), First[Head(pool)])
    BY <1>1 DEF Start, Goto
  <2>2. Head(pool) \in Works
    BY <2>1, TakeOut DEF WorksShape
  <2>3. First[Head(pool)] \in At[Head(pool)]
    BY <2>2 DEF First, At, Works
  <2> QED
    BY <2>1, <2>2, <2>3, GotoAt
<1>2. ASSUME Connect PROVE AtType'
  BY <1>2, GotoAt DEF Connect, At, Works
<1>3. ASSUME Submit \/ Put \/ Check \/ ReadsEnd \/ AcksEnd PROVE AtType'
  BY <1>3 DEF Submit, Put, Check, ReadsEnd, AcksEnd, AfterEnds, AtType
<1>4. ASSUME NEW replies \in BOOLEAN, HandleMessage(replies) PROVE AtType'
  BY <1>4 DEF HandleMessage, AtType
<1>5. ASSUME AckDequeue \/ CallHandler \/ AckDrop \/ AckTest PROVE AtType'
  BY <1>5 DEF AckDequeue, CallHandler, AckDrop, AckTest, AtType
<1>6. ASSUME UsesDeleted \/ CountsRace PROVE AtType'
  BY <1>6 DEF UsesDeleted, CountsRace, Undefined, threads, AtType
<1>7. ASSUME AfterConnect \/ AfterWrite \/ AfterRead \/ AfterRa PROVE AtType'
  BY <1>7, GotoAt DEF AfterConnect, AfterWrite, AfterRead, AfterRa, AfterBegins, At, Works
<1>8. ASSUME ReadMessage \/ ReadFails \/ ReadInsert \/ ReadRelease \/ ReadTest PROVE AtType'
  <2>1. Goto("read", "done") \/ Goto("read", "release") \/ Goto("read", "test")
    BY <1>8 DEF ReadMessage, ReadFails, ReadInsert, ReadRelease, ReadTest
  <2> QED
    BY <2>1, GotoAt DEF At, Works
<1>9. ASSUME NEW i \in 1 .. N, NEW kind \in {"part", "last"}, ReadAnswer(i, kind) PROVE AtType'
  <2>1. Goto("read", "insert") \/ Goto("read", "release")
    BY <1>9 DEF ReadAnswer
  <2> QED
    BY <2>1, GotoAt DEF At, Works
<1>10. ASSUME Writer PROVE AtType'
  <2>1. Goto("write", "take") \/ Goto("write", "writing") \/ Goto("write", "done")
    BY <1>10 DEF Writer, WriteBegins, WriteTake, WriteDone, WriteFails
  <2> QED
    BY <2>1, GotoAt DEF At, Works
<1>11. ASSUME TimedOut \/ Woken PROVE AtType'
  <2>1. Goto("ra", "wait") \/ Goto("ra", "done")
    BY <1>11 DEF TimedOut, Woken
  <2> QED
    BY <2>1, GotoAt DEF At, Works
<1> QED
  BY <1>1, <1>2, <1>3, <1>4, <1>5, <1>6, <1>7, <1>8, <1>9, <1>10, <1>11
  DEF Next, Main, Reader, ReaderGoesOn

(* What a handler is told is a call of Outcomes.                           *)
LEMMA ToldIsCall ==
  ASSUME NEW c \in Cells
  PROVE  Told(c) \in Promise!Call
<1>1. c[1] = "answer" => c[3] \in Nat \ {0}
  <2> SUFFICES ASSUME c[1] = "answer" PROVE c[3] \in Nat \ {0}
    OBVIOUS
  <2>1. c[2] \in 1 .. N /\ c[3] \in 1 .. MaxAnswers[c[2]]
    BY CellKinds
  <2>2. MaxAnswers[c[2]] \in Nat
    BY <2>1, OpelAssumption
  <2> QED
    BY <2>1, <2>2
<1>2. CASE c \in late
  BY <1>2 DEF Told, Promise!Call
<1>3. CASE c \notin late /\ c[1] = "answer"
  BY <1>1, <1>3 DEF Told, Promise!Call
<1>4. CASE c \notin late /\ c[1] # "answer"
  BY <1>4 DEF Told, Promise!Call
<1> QED
  BY <1>2, <1>3, <1>4

(* The connection, and whether the process runs.                           *)
LEMMA ConnStep ==
  ASSUME OutcomeType, Next
  PROVE  /\ conn' \in {"none", "made", "refused", "up", "lost"}
         /\ process' \in {"runs", "ended", "undefined"}
<1> USE DEF OutcomeType
<1> DEFINE Fine == /\ conn' \in {"none", "made", "refused", "up", "lost"}
                   /\ process' \in {"runs", "ended", "undefined"}
<1>1. ASSUME Start \/ Connect \/ Submit \/ Put \/ Check PROVE Fine
  BY <1>1 DEF Start, Connect, Submit, Put, Check
<1>2. ASSUME AfterConnect \/ AfterWrite \/ AfterRead \/ AfterRa PROVE Fine
  BY <1>2 DEF AfterConnect, AfterWrite, AfterRead, AfterRa, AfterBegins
<1>3. ASSUME ReadsEnd \/ AcksEnd PROVE Fine
  BY <1>3 DEF ReadsEnd, AcksEnd, AfterEnds
<1>4. ASSUME NEW replies \in BOOLEAN, HandleMessage(replies) PROVE Fine
  BY <1>4 DEF HandleMessage
<1>5. ASSUME AckDequeue \/ CallHandler \/ AckDrop \/ AckTest PROVE Fine
  BY <1>5 DEF AckDequeue, CallHandler, AckDrop, AckTest
<1>6. ASSUME UsesDeleted \/ CountsRace PROVE Fine
  BY <1>6 DEF UsesDeleted, CountsRace, Undefined, threads
<1>7. ASSUME ReadMessage \/ ReadFails \/ ReadInsert \/ ReadRelease \/ ReadTest PROVE Fine
  BY <1>7 DEF ReadMessage, ReadFails, ReadInsert, ReadRelease, ReadTest
<1>8. ASSUME NEW i \in 1 .. N, NEW kind \in {"part", "last"}, ReadAnswer(i, kind) PROVE Fine
  <2>1. conn' = conn /\ process' \in {"runs", "undefined"}
    BY <1>8 DEF ReadAnswer, Signal
  <2> QED
    BY <2>1
<1>9. ASSUME WriteBegins \/ WriteTake \/ WriteDone PROVE Fine
  BY <1>9 DEF WriteBegins, WriteTake, WriteDone
<1>10. ASSUME WriteFails PROVE Fine
  <2>1. conn' = conn /\ process' \in {"runs", "undefined"}
    BY <1>10 DEF WriteFails, Signal
  <2> QED
    BY <2>1
<1>11. ASSUME TimedOut \/ Woken PROVE Fine
  BY <1>11 DEF TimedOut, Woken, Expire
<1> QED
  BY <1>1, <1>2, <1>3, <1>4, <1>5, <1>6, <1>7, <1>8, <1>9, <1>10, <1>11
  DEF Next, Main, Reader, ReaderGoesOn, Writer

(* What the handlers were called with, and who was refused a place.        *)
LEMMA OutcomeStep ==
  ASSUME IInv, Types, CellsOK, MemoryType', Next
  PROVE  OutcomeType'
<1> USE DEF Types, outcome
<1> DEFINE Fine == calls' \in [1 .. N -> Seq(Promise!Call)] /\ refused' \subseteq 1 .. N
<1>1. ASSUME UNCHANGED outcome PROVE Fine
  BY <1>1 DEF OutcomeType
<1>2. ASSUME NEW c \in Cells, Insert(c), calls' = calls PROVE Fine
  <2>1. handler'[c] \in 0 .. N
    BY DEF MemoryType
  <2>2. refused' = refused \cup ({handler'[c]} \ {0}) \/ refused' = refused
    BY <1>2 DEF Insert
  <2>3. {handler'[c]} \ {0} \subseteq 1 .. N
    BY <2>1, OpelAssumption
  <2>4. refused' \subseteq 1 .. N
    BY <2>2, <2>3 DEF OutcomeType
  <2> QED
    BY <1>2, <2>4 DEF OutcomeType
<1>3. ASSUME Submit PROVE Fine
  <2>1. Insert(Entry(asked + 1)) /\ calls' = calls /\ asked < N
    BY <1>3 DEF Submit
  <2>2. asked + 1 \in 1 .. N
    BY <2>1, OpelAssumption DEF IInv, Shape, CountShape
  <2> QED
    BY <2>1, <2>2, <1>2, CellsMade
<1>4. ASSUME ReadInsert PROVE Fine
  <2>1. Insert(held["read"]) /\ calls' = calls /\ held["read"] \in Cells
    BY <1>4 DEF ReadInsert, IInv, Shape, QueueShape
  <2> QED
    BY <2>1, <1>2
<1>5. ASSUME CallHandler PROVE Fine
  <2> DEFINE i == handler[main.cell]
  <2>1. main.cell \in Cells
    BY <1>5 DEF CallHandler, MemoryType, CellsOK, HoldOK
  <2>2. i \in 0 .. N /\ refused' = refused
    BY <1>5, <2>1 DEF CallHandler, MemoryType
  <2>3. calls' = IF i = 0 THEN calls ELSE [calls EXCEPT ![i] = Append(@, Told(main.cell))]
    BY <1>5 DEF CallHandler
  <2>4. Told(main.cell) \in Promise!Call
    BY <2>1, ToldIsCall
  <2> HIDE DEF i
  <2>5. CASE i = 0
    BY <2>2, <2>3, <2>5 DEF OutcomeType
  <2>6. CASE i # 0
    <3>1. i \in 1 .. N /\ calls[i] \in Seq(Promise!Call)
      BY <2>2, <2>6, OpelAssumption DEF OutcomeType
    <3>2. Append(calls[i], Told(main.cell)) \in Seq(Promise!Call)
      BY <3>1, <2>4, PutIn
    <3>3. calls' = [calls EXCEPT ![i] = Append(calls[i], Told(main.cell))]
      BY <2>3, <2>6
    <3> QED
      BY <3>1, <3>2, <3>3, <2>2 DEF OutcomeType
  <2> QED
    BY <2>5, <2>6
<1>6. ASSUME Alone PROVE Fine
  BY <1>6, <1>1, QuietSteps DEF Quiet
<1>7. ASSUME NEW replies \in BOOLEAN, HandleMessage(replies) PROVE Fine
  BY <1>7, <1>1 DEF HandleMessage
<1>8. ASSUME Put \/ AckDequeue \/ AckDrop \/ AckTest \/ UsesDeleted \/ CountsRace PROVE Fine
  BY <1>8, <1>1 DEF Put, AckDequeue, AckDrop, AckTest, UsesDeleted, CountsRace, Undefined
<1>9. ASSUME ReadMessage \/ ReadFails \/ ReadRelease \/ ReadTest PROVE Fine
  BY <1>9, <1>1 DEF ReadMessage, ReadFails, ReadRelease, ReadTest
<1>10. ASSUME NEW i \in 1 .. N, NEW kind \in {"part", "last"}, ReadAnswer(i, kind) PROVE Fine
  BY <1>10, <1>1 DEF ReadAnswer
<1>11. ASSUME WriteTake \/ WriteDone \/ WriteFails \/ TimedOut PROVE Fine
  BY <1>11, <1>1 DEF WriteTake, WriteDone, WriteFails, TimedOut
<1>12. Fine
  BY <1>3, <1>4, <1>5, <1>6, <1>7, <1>8, <1>9, <1>10, <1>11
  DEF Next, Main, Reader, ReaderGoesOn, Writer, Alone
<1> QED
  BY <1>12, ConnStep DEF OutcomeType
-----------------------------------------------------------------------------
(* The proof that every step keeps the invariant                           *)

LEMMA InitCells == Init => CellsInv
<1> SUFFICES ASSUME Init PROVE CellsInv
  OBVIOUS
<1>1. IInv
  BY InitInv
<1>2. AtType
  BY DEF Init, AtType, At, Works
<1>3. TimeType
  BY OpelAssumption DEF Init, TimeType
<1>4. MemoryType
  <2>1. 0 \in 0 .. N /\ 0 \in Nat
    BY OpelAssumption
  <2> QED
    BY <2>1 DEF Init, MemoryType
<1>5. OutcomeType
  BY DEF Init, OutcomeType
<1>6. ToSet(<<>>) = {} /\ IsInjective(<<>>)
  BY DEF ToSet, IsInjective
<1>7. /\ main.at = "loop" /\ main.cell = Free /\ main.new = Free
      /\ at["read"] = "off" /\ at["write"] = "off" /\ held["read"] = Free /\ held["write"] = Free
      /\ writeQ = <<>> /\ readQ = <<>> /\ ackQ = <<>> /\ late = {}
  BY DEF Init, Works
<1>8. ASSUME NEW c \in Cells
      PROVE  c # Free /\ ~ ToWrite(c) /\ ~ ToHandle(c) /\ ~ InSet(c) /\ attached[c] = 0 /\ handler[c] = 0
  <2>1. \A s \in Slots : slots[s] = Free
    BY DEF Init
  <2>2. attached[c] = 0 /\ handler[c] = 0
    BY DEF Init
  <2> QED
    BY <2>1, <2>2, <1>6, <1>7, FreeAssumption DEF ToWrite, ToHandle, InSet
<1>9. HoldOK
  BY <1>7 DEF HoldOK, Calls
<1>10. RolesOK /\ OnceOK
  BY <1>6, <1>7, <1>8 DEF RolesOK, RoleOK, OnceOK
<1>11. CountsOK
  BY <1>6, <1>7, <1>8 DEF CountsOK, CountOK, One
<1>12. LateOK /\ HandlerOK
  BY <1>7, <1>8 DEF LateOK, HandlerOK
<1> QED
  BY <1>1, <1>2, <1>3, <1>4, <1>5, <1>9, <1>10, <1>11, <1>12 DEF CellsInv, Types, CellsOK

LEMMA CellsStep ==
  ASSUME Before, Next
  PROVE  After
<1>1. CASE Alone
  BY <1>1, QuietSteps, QuietKeeps DEF Before, After, Types
<1>2. CASE ~ Alone
  <2>1. Submit \/ Put => After
    BY SubmitCells, PutCells
  <2>2. (\E replies \in BOOLEAN : HandleMessage(replies)) => After
    BY HandleCells
  <2>3. AckDequeue \/ CallHandler \/ AckDrop \/ AckTest \/ UsesDeleted \/ CountsRace => After
    BY DequeueCells, AckCells, UndefinedCells
  <2>4. ReadMessage \/ ReadFails \/ ReadInsert \/ ReadRelease \/ ReadTest => After
    BY MailCells, InsertCells, ReleaseCells
  <2>5. (\E i \in 1 .. N, kind \in {"part", "last"} : ReadAnswer(i, kind)) => After
    BY ReadCells
  <2>6. WriteTake \/ WriteDone \/ WriteFails \/ TimedOut => After
    BY TakeCells, DoneCells, FailCells, ExpireCells
  <2> QED
    BY <1>2, <2>1, <2>2, <2>3, <2>4, <2>5, <2>6
    DEF Next, Main, Reader, ReaderGoesOn, Writer, Alone
<1> QED
  BY <1>1, <1>2

LEMMA KeepsCells ==
  ASSUME CellsInv, [Next]_vars
  PROVE  CellsInv'
<1> USE DEF CellsInv
<1>1. IInv'
  BY KeepsIInv
<1>2. CASE Next
  <2>1. Before
    BY <1>1, <1>2 DEF Next, Before
  <2>2. After
    BY <1>2, <2>1, CellsStep
  <2>3. AtType'
    BY <1>2, <2>1, AtStep DEF Before, Types
  <2>4. OutcomeType'
    BY <1>2, <2>1, <2>2, OutcomeStep DEF Before, After
  <2> QED
    BY <1>1, <2>2, <2>3, <2>4 DEF After, Types
<1>3. CASE UNCHANGED vars
  <2>1. Quiet
    BY <1>3, QuietSteps DEF Alone
  <2>2. process' = "runs" => CellsOK'
    BY <1>3, <2>1, QuietKeeps DEF vars, Types
  <2>3. Types'
    BY <1>3 DEF vars, threads, queues, reqset, memory, outcome, Types, AtType, TimeType, MemoryType,
                OutcomeType
  <2> QED
    BY <1>1, <2>2, <2>3
<1> QED
  BY <1>2, <1>3

LEMMA AlwaysCells == Spec => []CellsInv
<1>1. Init => CellsInv
  BY InitCells
<1>2. ASSUME CellsInv, [Next]_vars PROVE CellsInv'
  BY <1>2, KeepsCells
<1> QED
  BY <1>1, <1>2, PTL DEF Spec

-----------------------------------------------------------------------------
(* The theorems                                                            *)

(* Every variable keeps its type: among others the cells that the threads  *)
(* hand to each other are cells that somebody made, and the time of a      *)
(* place of the req_set never falls below 0.                               *)
THEOREM ClientIsTyped == Spec => []TypeOK
<1>1. ASSUME CellsInv PROVE TypeOK
  <2> USE <1>1 DEF CellsInv, IInv, Shape, Types
  <2>1. at \in [Works -> UNION {At[w] : w \in Works}] /\ \A w \in Works : at[w] \in At[w]
    BY DEF AtType, WorksShape
  <2>2. main \in [at : MainAt, cell : Cells \cup {Free}, new : Cells \cup {Free},
                  empty : BOOLEAN, back : MainAt]
    BY DEF MainShape, MemoryType
  <2>3. {writeQ, readQ, ackQ} \subseteq Seq(Cells)
    BY DEF QueueShape, MemoryType
  <2> QED
    BY <2>1, <2>2, <2>3
    DEF TypeOK, WorksShape, QueueShape, SlotShape, CountShape, TimeType, MemoryType, OutcomeType
<1> QED
  BY <1>1, AlwaysCells, PTL

LEMMA CountIsOne ==
  ASSUME NEW q, NEW c, \A m, n \in DOMAIN q : q[m] = c /\ q[n] = c => m = n
  PROVE  Count(q, c) = One(\E n \in DOMAIN q : q[n] = c)
<1> DEFINE P == {n \in DOMAIN q : q[n] = c}
<1>1. CASE P = {}
  BY <1>1, FS_EmptySet DEF Count, One
<1>2. CASE P # {}
  <2>1. PICK n \in P : TRUE
    BY <1>2
  <2>2. P = {n}
    BY <2>1
  <2>3. Cardinality(P) = 1
    BY <2>2, FS_Singleton
  <2> QED
    BY <2>1, <2>3 DEF Count, One
<1> QED
  BY <1>1, <1>2

LEMMA HoldersAre ==
  ASSUME IInv, Types, CellsOK, NEW c \in Cells
  PROVE  Holders(c) = One(c \in ToSet(writeQ)) + One(c \in ToSet(readQ)) + One(c \in ToSet(ackQ))
                        + One(InSet(c)) + One(held["write"] = c) + One(held["read"] = c)
                        + One(main.cell = c /\ main.at \notin {"take", "test"})
<1>1. ASSUME NEW q, IsInjective(q) PROVE Count(q, c) = One(c \in ToSet(q))
  <2>1. (\E n \in DOMAIN q : q[n] = c) <=> c \in ToSet(q)
    BY DEF ToSet
  <2>2. \A m, n \in DOMAIN q : q[m] = c /\ q[n] = c => m = n
    BY <1>1 DEF IsInjective
  <2> QED
    BY <2>1, <2>2, CountIsOne DEF One
<1>2. Count(slots, c) = One(InSet(c))
  <2>1. DOMAIN slots = Slots /\ c # Free
    BY FreeAssumption DEF IInv, Shape, SlotShape
  <2>2. \A m, n \in DOMAIN slots : slots[m] = c /\ slots[n] = c => m = n
    BY <2>1 DEF IInv, WaitingOK, Waiting
  <2> QED
    BY <2>1, <2>2, CountIsOne DEF InSet, One
<1>3. /\ Count(held, c) = One(held["write"] = c) + One(held["read"] = c)
  <2>1. DOMAIN held = {"read", "write"}
    BY DEF IInv, Shape, QueueShape
  <2>2. ~ (held["write"] = c /\ held["read"] = c)
    BY DEF CellsOK, RolesOK, RoleOK, ToWrite
  <2>3. Count(held, c) = One(\E n \in DOMAIN held : held[n] = c)
    BY <2>1, <2>2, CountIsOne
  <2> QED
    BY <2>1, <2>2, <2>3 DEF One
<1>4. /\ Count(writeQ, c) = One(c \in ToSet(writeQ))
      /\ Count(readQ, c) = One(c \in ToSet(readQ)) /\ Count(ackQ, c) = One(c \in ToSet(ackQ))
  BY <1>1 DEF CellsOK, OnceOK
<1> QED
  BY <1>2, <1>3, <1>4 DEF Holders, One

(* Whichever thread gave a cell back last, attached is the number of those *)
(* that still hold it, and none of them holds a cell that was deleted.     *)
THEOREM AttachedIsCounted == Spec => []CellsAreCounted
<1>1. ASSUME CellsInv, process = "runs", NEW c \in Cells
      PROVE  /\ attached[c] = Holders(c) - IF held["read"] = c /\ at["read"] = "test" THEN 1 ELSE 0
             /\ attached[c] > 0 => c \in live
  <2>1. CountOK(c)
    BY <1>1 DEF CellsInv, CellsOK, CountsOK
  <2>2. Holders(c) = One(c \in ToSet(writeQ)) + One(c \in ToSet(readQ)) + One(c \in ToSet(ackQ))
                       + One(InSet(c)) + One(held["write"] = c) + One(held["read"] = c)
                       + One(main.cell = c /\ main.at \notin {"take", "test"})
    BY <1>1, HoldersAre DEF CellsInv
  <2> QED
    BY <2>1, <2>2 DEF CountOK, One
<1>2. CellsInv => CellsAreCounted
  BY <1>1 DEF CellsAreCounted
<1> QED
  BY <1>2, AlwaysCells, PTL

=============================================================================
