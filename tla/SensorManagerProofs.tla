------------------------ MODULE SensorManagerProofs ------------------------
(***************************************************************************)
(* Proofs about SensorManager for any memory, apps and intervals: as long  *)
(* as the two threads do not meet where the list does not bear it, the     *)
(* list of requests stays whole and the pointers good, and as long as no   *)
(* message is handled in the middle of the thread's work, requests are     *)
(* served in the order of their times.                                     *)
(*                                                                         *)
(* The list is described by the sequence of its cells, numbered from the   *)
(* last one on: a request that is added at the front gets a new number and *)
(* the others keep theirs.                                                 *)
(***************************************************************************)
EXTENDS SensorManager, FiniteSetTheorems, WellFoundedInduction, TLAPS

\* q numbers the n cells of the list from s on.
IsChain(s, ce, n, q) ==
  /\ q \in [0 .. n - 1 -> Cells]
  /\ \A i, j \in 0 .. n - 1 : q[i] = q[j] => i = j
  /\ s = IF n = 0 THEN NULL ELSE q[n - 1]
  /\ \A i \in 0 .. n - 1 : ce[q[i]].next = IF i = 0 THEN NULL ELSE q[i - 1]

Members(n, q) == {q[i] : i \in 0 .. n - 1}

\* The set L of n cells is the list from s on.
IsList(s, ce, L, n) ==
  /\ n \in 0 .. Cardinality(Cells)
  /\ \E q \in [0 .. n - 1 -> Cells] : IsChain(s, ce, n, q) /\ L = Members(n, q)

\* The requests in the list: not the new one before it is linked, nor the one on its way.
Unlinked == dbus.at \in {"link", "head"}
Listed ==
  {c \in Live : /\ ~(Unlinked /\ c = dbus.input)
                /\ ~(At("relink") /\ c = thread.first)}

\* The number of requests that num_of_request counts more than the list has.
Ahead == (IF At("relink") THEN 1 ELSE 0) - (IF dbus.at = "count" THEN 1 ELSE 0)

ListShape == IsList(start, cell, Listed, num - Ahead)

\* sensorThread is at work on a list that has a request, and on the way through the list
\* its variables are neighbours.
Searching == thread.at \in {"loop", "first", "move"}
ThreadIn ==
  /\ thread.at \in Iterating => start # NULL
  /\ Searching => cell[start].next # NULL
  /\ Searching \/ At("relink") =>
       thread.prev \in Listed /\ thread.temp = cell[thread.prev].next
  /\ At("move") /\ ~Stays => thread.first = start
  /\ At("relink") => thread.first \in Live /\ (Unlinked => thread.first # dbus.input)

\* The request that is added.
AddIn ==
  /\ dbus.at \notin Adding => dbus.input = NULL
  /\ dbus.at \in {"link", "head", "count"} => dbus.input \in Live
  /\ dbus.at = "head" => cell[dbus.input].next = start

\* What deleteRequestByPid is capable of: few requests, all of them the app's but one, and
\* the first of several is that one when they are more than two or one was passed before.
OneOther == \A c, d \in Live : ~HasPid(c) /\ ~HasPid(d) => c = d
Capable ==
  num > 1 =>
    /\ num <= 4
    /\ OneOther
    /\ dbus.prev # NULL \/ num > 2 => ~HasPid(start)

\* The turns of the loop: at the first request, at the second, behind the first of two
\* that was deleted, behind the second that was deleted, and once more behind it.
Turn ==
  \/ dbus.i = 0 /\ dbus.temp = start /\ num > 1 /\ Capable
  \/ /\ dbus.i = 1 /\ dbus.prev = start /\ num > 1 /\ Capable
     /\ dbus.temp = cell[start].next
  \/ dbus.i = 1 /\ dbus.prev = NULL /\ num = 1
  \/ /\ dbus.i = 2 /\ num \in 1 .. 3 /\ Capable
     /\ dbus.prev = start /\ dbus.temp \in Cells \ Live
  \/ dbus.i = 3 /\ num = 3 /\ Capable /\ dbus.prev # NULL

DeleteIn ==
  /\ dbus.at \in Deleting => dbus.pid \in Pids
  /\ dbus.at = "top" => Capable
  /\ dbus.at = "for" => Turn

\* The order of the times in the list, where a request may be out of order: the first one,
\* after it was served, and the new one, before its time is set.
Ord(c) == cell[c].next # NULL => cell[c].time <= cell[cell[c].next].time
OutOfOrder ==
  {c \in Listed : \/ At("scan") /\ num > 1 /\ c = start
                  \/ Searching /\ c = start
                  \/ dbus.at = "count" /\ c = dbus.input}

SortedIn ==
  /\ \A c \in Listed \ OutOfOrder : Ord(c)
  /\ Searching => thread.prev = start \/ cell[thread.prev].time <= cell[start].time
  /\ At("first") \/ At("move") =>
       thread.temp = NULL \/ cell[start].time <= cell[thread.temp].time
  /\ At("move") => thread.first = start
  /\ dbus.at = "count" => start = dbus.input
  /\ At("relink") =>
       /\ cell[thread.prev].time <= cell[thread.first].time
       /\ thread.temp = NULL \/ cell[thread.first].time <= cell[thread.temp].time

\* What was read from the sorted list still holds.
TimesIn ==
  /\ served # NULL => At("time") /\ served = start
  /\ thread.at \in {"towait", "sleeping"} =>
       \A c \in Live \ {dbus.input} : thread.until <= cell[c].time

Structure == ListShape /\ ThreadIn /\ AddIn /\ DeleteIn /\ ~Meet
Order     == SortedIn /\ TimesIn

\* The inductive invariant.
IInv ==
  /\ TypeOK
  /\ ~torn => Structure
  /\ ~mixed => ~Mix /\ SensorIsOn
  /\ ~torn /\ ~mixed => Order
-----------------------------------------------------------------------------
(***************************************************************************)
(* Lists.                                                                  *)
(***************************************************************************)

\* A nonempty set of numbers has a least one.
LEMMA LeastNumber ==
  ASSUME NEW T, T \subseteq Nat, T # {}
  PROVE  \E m \in T : \A k \in T : m <= k
<1>1. PICK m \in T : \A k \in T : ~(<<k, m>> \in OpToRel(<, Nat))
  BY NatLessThanWellFounded, WFMin
<1>2. \A k \in T : ~(k < m)
  BY <1>1 DEF OpToRel
<1> QED BY <1>2

\* A list is no longer than the memory, and as long as it has members.
LEMMA ChainBound ==
  ASSUME NEW s, NEW ce, NEW n \in Nat, NEW q, IsChain(s, ce, n, q)
  PROVE  /\ n <= Cardinality(Cells)
         /\ IsFiniteSet(Members(n, q)) /\ Cardinality(Members(n, q)) = n
<1> DEFINE D == 0 .. n - 1
<1>1. IsFiniteSet(D) /\ Cardinality(D) = n
  BY FS_Interval
<1>2. q \in Bijection(D, Members(n, q))
  <2>1. q \in [D -> Members(n, q)]
    BY DEF IsChain, Members
  <2>2. \A i, j \in D : q[i] = q[j] => i = j
    BY DEF IsChain
  <2>3. \A c \in Members(n, q) : \E i \in D : q[i] = c
    BY DEF Members
  <2> QED BY <2>1, <2>2, <2>3 DEF Bijection, Injection, Surjection, IsInjective
<1>3. IsFiniteSet(Members(n, q)) /\ Cardinality(Members(n, q)) = n
  BY <1>1, <1>2, FS_Bijection DEF ExistsBijection
<1>4. Members(n, q) \in SUBSET Cells
  BY DEF IsChain, Members
<1> QED BY <1>3, <1>4, FS_Subset, SensorsAssumption

\* What the list says of its cells.
LEMMA ListFacts ==
  ASSUME NEW s, NEW ce, NEW L, NEW n, IsList(s, ce, L, n)
  PROVE  /\ L \subseteq Cells
         /\ s = NULL \/ s \in L
         /\ s = NULL <=> n = 0
         /\ s = NULL <=> L = {}
         /\ \A c \in L : /\ ce[c].next = NULL \/ ce[c].next \in L
                         /\ ce[c].next # c /\ ce[c].next # s
         /\ \A c, d \in L : ce[c].next = ce[d].next /\ ce[c].next # NULL => c = d
         /\ \A c, d \in L : ce[c].next = ce[d].next => c = d
         /\ s # NULL => (ce[s].next # NULL <=> n > 1)
<1>1. PICK q \in [0 .. n - 1 -> Cells] : IsChain(s, ce, n, q) /\ L = Members(n, q)
  BY DEF IsList
<1>2. n \in Nat
  BY DEF IsList
<1>3. NULL \notin Cells
  BY SensorsAssumption
<1>4. \A i \in 0 .. n - 1 : q[i] \in L /\ q[i] # NULL
  BY <1>1, <1>3 DEF Members
<1>5. s = NULL <=> n = 0
  BY <1>1, <1>2, <1>4 DEF IsChain
<1>6. s = NULL \/ s \in L
  BY <1>1, <1>2, <1>4 DEF IsChain
<1>7. s = NULL <=> L = {}
  <2>1. n = 0 <=> 0 .. n - 1 = {}
    BY <1>2
  <2> QED BY <1>1, <1>5, <2>1 DEF Members
<1>8. ASSUME NEW c \in L
      PROVE  /\ ce[c].next = NULL \/ ce[c].next \in L
             /\ ce[c].next # c /\ ce[c].next # s
             /\ \A d \in L : ce[c].next = ce[d].next => c = d
  <2>1. PICK i \in 0 .. n - 1 : c = q[i]
    BY <1>1 DEF Members
  <2>2. ce[c].next = IF i = 0 THEN NULL ELSE q[i - 1]
    BY <1>1, <2>1 DEF IsChain
  <2>3. i # 0 => i - 1 \in 0 .. n - 1 /\ i - 1 # n - 1
    BY <1>2
  <2>4. ce[c].next = NULL \/ ce[c].next \in L
    BY <2>2, <2>3, <1>4
  <2>5. ce[c].next # c
    BY <2>1, <2>2, <2>3, <1>1, <1>2, <1>4 DEF IsChain
  <2>6. n - 1 \in 0 .. n - 1 /\ s = q[n - 1]
    BY <1>1, <1>2, <2>1 DEF IsChain
  <2>7. ce[c].next # s
    BY <2>2, <2>3, <2>6, <1>1, <1>4 DEF IsChain
  <2>8. ASSUME NEW d \in L, ce[c].next = ce[d].next
        PROVE  c = d
    <3>1. PICK j \in 0 .. n - 1 : d = q[j]
      BY <1>1 DEF Members
    <3>2. ce[d].next = IF j = 0 THEN NULL ELSE q[j - 1]
      BY <1>1, <3>1 DEF IsChain
    <3>3. j # 0 => j - 1 \in 0 .. n - 1
      BY <1>2
    <3>4. i = j
      BY <2>2, <2>3, <2>8, <3>2, <3>3, <1>1, <1>4 DEF IsChain
    <3> QED BY <3>4, <2>1, <3>1
  <2> QED BY <2>4, <2>5, <2>7, <2>8
<1>9. ASSUME s # NULL
      PROVE  ce[s].next # NULL <=> n > 1
  <2>1. n - 1 \in 0 .. n - 1 /\ s = q[n - 1]
    BY <1>1, <1>2, <1>5, <1>9 DEF IsChain
  <2>2. ce[s].next = IF n - 1 = 0 THEN NULL ELSE q[n - 1 - 1]
    BY <1>1, <2>1 DEF IsChain
  <2>3. n > 1 => n - 1 - 1 \in 0 .. n - 1
    BY <1>2
  <2> QED BY <2>2, <2>3, <2>1, <1>2, <1>4
<1>10. L \subseteq Cells
  BY <1>1 DEF Members
<1> QED BY <1>5, <1>6, <1>7, <1>8, <1>9, <1>10

\* A change outside of the links of its cells leaves a list as it is.
LEMMA ListSame ==
  ASSUME NEW s, NEW ce, NEW L, NEW n, IsList(s, ce, L, n),
         NEW ce2, \A c \in L : ce2[c].next = ce[c].next
  PROVE  IsList(s, ce2, L, n)
<1>1. PICK q \in [0 .. n - 1 -> Cells] : IsChain(s, ce, n, q) /\ L = Members(n, q)
  BY DEF IsList
<1>2. \A i \in 0 .. n - 1 : q[i] \in L
  BY <1>1 DEF Members
<1>3. IsChain(s, ce2, n, q)
  BY <1>1, <1>2 DEF IsChain
<1> QED BY <1>1, <1>3 DEF IsList
\* The list has as many requests as it is long.
LEMMA ListLength ==
  ASSUME NEW s, NEW ce, NEW L, NEW n, IsList(s, ce, L, n)
  PROVE  IsFiniteSet(L) /\ Cardinality(L) = n
BY ChainBound DEF IsList

\* A cell is added at the front.
LEMMA ListCons ==
  ASSUME NEW s, NEW ce, NEW L, NEW n, IsList(s, ce, L, n),
         NEW x \in Cells \ L, NEW ce2, ce2[x].next = s,
         \A c \in L : ce2[c].next = ce[c].next
  PROVE  IsList(x, ce2, L \cup {x}, n + 1)
<1>1. PICK q \in [0 .. n - 1 -> Cells] : IsChain(s, ce, n, q) /\ L = Members(n, q)
  BY DEF IsList
<1>2. n \in Nat
  BY DEF IsList
<1>3. \A i \in 0 .. n - 1 : q[i] \in L /\ q[i] # x
  BY <1>1 DEF Members
<1> DEFINE p == [i \in 0 .. n |-> IF i = n THEN x ELSE q[i]]
<1>4. p \in [0 .. n -> Cells] /\ p[n] = x /\ \A i \in 0 .. n - 1 : p[i] = q[i]
  BY <1>2
<1>5. n + 1 - 1 = n /\ 0 .. n = (0 .. n - 1) \cup {n} /\ n \notin 0 .. n - 1 /\ n \in 0 .. n
  BY <1>2
<1> HIDE DEF p
<1>6. \A i, j \in 0 .. n : p[i] = p[j] => i = j
  BY <1>1, <1>3, <1>4, <1>5 DEF IsChain
<1>7. ce2[p[n]].next = IF n = 0 THEN NULL ELSE p[n - 1]
  BY <1>1, <1>2, <1>4 DEF IsChain
<1>8. \A i \in 0 .. n - 1 : ce2[p[i]].next = IF i = 0 THEN NULL ELSE p[i - 1]
  <2>1. TAKE i \in 0 .. n - 1
  <2>2. ce2[p[i]].next = IF i = 0 THEN NULL ELSE q[i - 1]
    BY <1>1, <1>3, <1>4 DEF IsChain
  <2>3. i # 0 => i - 1 \in 0 .. n - 1
    BY <1>2
  <2> QED BY <2>2, <2>3, <1>4
<1>9. IsChain(x, ce2, n + 1, p)
  BY <1>2, <1>4, <1>5, <1>6, <1>7, <1>8 DEF IsChain
<1>10. Members(n + 1, p) = L \cup {x}
  BY <1>1, <1>4, <1>5 DEF Members
<1>11. n + 1 \in 0 .. Cardinality(Cells)
  BY <1>2, <1>9, ChainBound DEF IsList
<1> QED BY <1>4, <1>5, <1>9, <1>10, <1>11 DEF IsList

\* The first cell is taken away.
LEMMA ListTail ==
  ASSUME NEW s, NEW ce, NEW L, NEW n, IsList(s, ce, L, n), s # NULL
  PROVE  IsList(ce[s].next, ce, L \ {s}, n - 1)
<1>1. PICK q \in [0 .. n - 1 -> Cells] : IsChain(s, ce, n, q) /\ L = Members(n, q)
  BY DEF IsList
<1>2. n \in Nat \ {0} /\ n - 1 \in 0 .. Cardinality(Cells)
  <2>1. Cardinality(Cells) \in Nat
    BY FS_CardinalityType, SensorsAssumption
  <2>2. n # 0
    BY ListFacts
  <2> QED BY <2>1, <2>2 DEF IsList
<1> DEFINE p == [i \in 0 .. n - 2 |-> q[i]]
<1>3. p \in [0 .. n - 2 -> Cells] /\ \A i \in 0 .. n - 2 : p[i] = q[i]
  BY <1>2
<1>4. n - 1 - 1 = n - 2 /\ 0 .. n - 1 = (0 .. n - 2) \cup {n - 1} /\ n - 1 \notin 0 .. n - 2
  BY <1>2
<1> HIDE DEF p
<1>5. \A i \in 0 .. n - 2 : ce[p[i]].next = IF i = 0 THEN NULL ELSE p[i - 1]
  <2>1. TAKE i \in 0 .. n - 2
  <2>2. ce[p[i]].next = IF i = 0 THEN NULL ELSE q[i - 1]
    BY <1>1, <1>3, <1>4 DEF IsChain
  <2>3. i # 0 => i - 1 \in 0 .. n - 2
    BY <1>2
  <2> QED BY <2>2, <2>3, <1>3
<1>6. s = q[n - 1] /\ n - 1 \in 0 .. n - 1
  BY <1>1, <1>2 DEF IsChain
<1>7. ce[s].next = IF n - 1 = 0 THEN NULL ELSE p[n - 1 - 1]
  <2>1. ce[s].next = IF n - 1 = 0 THEN NULL ELSE q[n - 1 - 1]
    BY <1>1, <1>6 DEF IsChain
  <2>2. n - 1 # 0 => n - 1 - 1 \in 0 .. n - 2
    BY <1>2
  <2> QED BY <2>1, <2>2, <1>3
<1>8. IsChain(ce[s].next, ce, n - 1, p)
  BY <1>1, <1>3, <1>4, <1>5, <1>7 DEF IsChain
<1>9. Members(n - 1, p) = L \ {s}
  BY <1>1, <1>3, <1>4, <1>6 DEF Members, IsChain
<1> QED BY <1>2, <1>3, <1>4, <1>8, <1>9 DEF IsList

\* A cell is put behind one of the list.
LEMMA ListInsert ==
  ASSUME NEW s, NEW ce, NEW L, NEW n, IsList(s, ce, L, n),
         NEW x \in Cells \ L, NEW d \in L, NEW ce2,
         ce2[d].next = x, ce2[x].next = ce[d].next,
         \A c \in L \ {d} : ce2[c].next = ce[c].next
  PROVE  IsList(s, ce2, L \cup {x}, n + 1)
<1>1. PICK q \in [0 .. n - 1 -> Cells] : IsChain(s, ce, n, q) /\ L = Members(n, q)
  BY DEF IsList
<1>2. n \in Nat
  BY DEF IsList
<1>3. \A i \in 0 .. n - 1 : q[i] \in L /\ q[i] # x
  BY <1>1 DEF Members
<1>4. PICK k \in 0 .. n - 1 : d = q[k]
  BY <1>1 DEF Members
<1> DEFINE p == [i \in 0 .. n |-> IF i < k THEN q[i] ELSE IF i = k THEN x ELSE q[i - 1]]
<1>5. /\ p \in [0 .. n -> Cells]
      /\ p[k] = x
      /\ \A i \in 0 .. k - 1 : p[i] = q[i]
      /\ \A i \in k + 1 .. n : p[i] = q[i - 1]
  BY <1>2
<1>6. 0 .. n = (0 .. k - 1) \cup {k} \cup (k + 1 .. n) /\ n + 1 - 1 = n
  BY <1>2
<1> HIDE DEF p
<1>7. \A i, j \in 0 .. n : p[i] = p[j] => i = j
  <2>1. TAKE i, j \in 0 .. n
  <2>2. HAVE p[i] = p[j]
  <2> DEFINE num1(v) == IF v < k THEN v ELSE v - 1
  <2>3. \A v \in 0 .. n : v # k => num1(v) \in 0 .. n - 1 /\ p[v] = q[num1(v)]
    BY <1>2, <1>5
  <2>4. i = k <=> j = k
    BY <2>2, <2>3, <1>3, <1>5
  <2>5. i # k => num1(i) = num1(j)
    BY <2>2, <2>3, <2>4, <1>1 DEF IsChain
  <2> QED BY <2>4, <2>5, <1>2
<1>8. s = p[n]
  <2>1. n \in k + 1 .. n /\ n # 0
    BY <1>2
  <2> QED BY <2>1, <1>1, <1>5 DEF IsChain
<1>9. \A i \in 0 .. n : ce2[p[i]].next = IF i = 0 THEN NULL ELSE p[i - 1]
  <2>1. TAKE i \in 0 .. n
  <2>2. CASE i < k
    <3>1. i \in 0 .. n - 1 /\ i # k /\ i \in 0 .. k - 1 /\ (i # 0 => i - 1 \in 0 .. k - 1)
      BY <2>2, <1>2
    <3>2. ce2[q[i]].next = IF i = 0 THEN NULL ELSE q[i - 1]
      BY <3>1, <1>1, <1>3, <1>4 DEF IsChain
    <3> QED BY <3>1, <3>2, <1>5
  <2>3. CASE i = k
    <3>1. ce2[x].next = IF k = 0 THEN NULL ELSE q[k - 1]
      BY <1>1, <1>4 DEF IsChain
    <3>2. k # 0 => k - 1 \in 0 .. k - 1
      OBVIOUS
    <3> QED BY <3>1, <3>2, <2>3, <1>5
  <2>4. CASE i = k + 1
    <3>1. i \in k + 1 .. n /\ i - 1 = k /\ i # 0
      BY <2>4, <1>2
    <3> QED BY <3>1, <1>4, <1>5
  <2>5. CASE i > k + 1
    <3>1. /\ i \in k + 1 .. n /\ i - 1 \in 0 .. n - 1 /\ i - 1 # k /\ i # 0
          /\ i - 1 # 0 /\ i - 1 \in k + 1 .. n
      BY <2>5, <1>2
    <3>2. ce2[q[i - 1]].next = q[i - 1 - 1]
      BY <3>1, <1>1, <1>3, <1>4 DEF IsChain
    <3> QED BY <3>1, <3>2, <1>5
  <2> QED BY <2>2, <2>3, <2>4, <2>5, <1>2
<1>10. IsChain(s, ce2, n + 1, p)
  BY <1>2, <1>5, <1>6, <1>7, <1>8, <1>9 DEF IsChain
<1>11. Members(n + 1, p) = L \cup {x}
  <2> DEFINE M == {p[i] : i \in 0 .. n}
  <2>0. Members(n + 1, p) = M
    <3>1. 0 .. (n + 1) - 1 = 0 .. n
      BY <1>2
    <3> QED BY <3>1 DEF Members
  <2>1. M \subseteq L \cup {x}
    <3>1. \A i \in k + 1 .. n : i - 1 \in 0 .. n - 1
      BY <1>2
    <3>2. \A i \in 0 .. k - 1 : i \in 0 .. n - 1
      BY <1>2
    <3> QED BY <3>1, <3>2, <1>3, <1>5, <1>6
  <2>2. x \in M
    BY <1>5, <1>6, <1>2
  <2>3. ASSUME NEW i \in 0 .. n - 1 PROVE q[i] \in M
    <3>1. CASE i < k
      <4>1. i \in 0 .. k - 1 /\ i \in 0 .. n
        BY <3>1, <1>2
      <4> QED BY <4>1, <1>5
    <3>2. CASE i >= k
      <4>1. i + 1 \in k + 1 .. n /\ i + 1 \in 0 .. n /\ i + 1 - 1 = i
        BY <3>2, <1>2
      <4> QED BY <4>1, <1>5
    <3> QED BY <3>1, <3>2, <1>2
  <2>4. L \subseteq M
    BY <2>3, <1>1 DEF Members
  <2> QED BY <2>0, <2>1, <2>2, <2>4
<1>12. n + 1 \in 0 .. Cardinality(Cells)
  BY <1>2, <1>10, ChainBound DEF IsList
<1> QED BY <1>5, <1>6, <1>10, <1>11, <1>12 DEF IsList
\* The second cell is taken away.
LEMMA ListDropSecond ==
  ASSUME NEW s, NEW ce, NEW L, NEW n, IsList(s, ce, L, n), s # NULL,
         NEW d \in L, ce[s].next = d, NEW ce2, ce2[s].next = ce[d].next,
         \A c \in L \ {s, d} : ce2[c].next = ce[c].next
  PROVE  IsList(s, ce2, L \ {d}, n - 1)
<1>1. PICK q \in [0 .. n - 1 -> Cells] : IsChain(s, ce, n, q) /\ L = Members(n, q)
  BY DEF IsList
<1>2. n \in Nat /\ n > 1 /\ n - 1 \in 0 .. Cardinality(Cells)
  <2>1. Cardinality(Cells) \in Nat
    BY FS_CardinalityType, SensorsAssumption
  <2>2. n > 1
    BY ListFacts, SensorsAssumption
  <2> QED BY <2>1, <2>2 DEF IsList
<1>3. \A i \in 0 .. n - 1 : q[i] \in L /\ q[i] # NULL
  BY <1>1, SensorsAssumption DEF Members
<1>4. n - 1 \in 0 .. n - 1 /\ n - 2 \in 0 .. n - 1 /\ n - 1 # n - 2 /\ n - 1 # 0
  BY <1>2
<1>5. s = q[n - 1] /\ d = q[n - 2] /\ s # d
  <2>1. s = q[n - 1]
    BY <1>1, <1>2 DEF IsChain
  <2>2. ce[q[n - 1]].next = q[n - 1 - 1]
    BY <1>1, <1>4 DEF IsChain
  <2>3. n - 1 - 1 = n - 2
    BY <1>2
  <2> QED BY <2>1, <2>2, <2>3, <1>1, <1>4 DEF IsChain
<1>6. \A i \in 0 .. n - 3 : i \in 0 .. n - 1 /\ q[i] # s /\ q[i] # d
  <2>1. \A i \in 0 .. n - 3 : i \in 0 .. n - 1 /\ i # n - 1 /\ i # n - 2
    BY <1>2
  <2> QED BY <2>1, <1>1, <1>4, <1>5 DEF IsChain
<1> DEFINE p == [i \in 0 .. n - 2 |-> IF i = n - 2 THEN s ELSE q[i]]
<1>7. /\ p \in [0 .. n - 2 -> Cells]
      /\ p[n - 2] = s
      /\ \A i \in 0 .. n - 3 : p[i] = q[i]
  BY <1>2, <1>4, <1>5
<1>8. /\ 0 .. n - 2 = (0 .. n - 3) \cup {n - 2} /\ n - 2 \notin 0 .. n - 3
      /\ 0 .. n - 1 = (0 .. n - 3) \cup {n - 2, n - 1}
      /\ n - 1 - 1 = n - 2 /\ n - 2 \in 0 .. n - 2
  BY <1>2
<1> HIDE DEF p
<1>9. \A i, j \in 0 .. n - 2 : p[i] = p[j] => i = j
  <2>1. \A i, j \in 0 .. n - 3 : p[i] = p[j] => i = j
    BY <1>1, <1>7, <1>8 DEF IsChain
  <2>2. \A i \in 0 .. n - 3 : p[i] # p[n - 2]
    BY <1>6, <1>7
  <2> QED BY <1>8, <2>1, <2>2
<1>10. ce2[p[n - 2]].next = IF n - 2 = 0 THEN NULL ELSE p[n - 2 - 1]
  <2>1. ce[d].next = IF n - 2 = 0 THEN NULL ELSE q[n - 2 - 1]
    BY <1>1, <1>4, <1>5 DEF IsChain
  <2>2. n - 2 # 0 => n - 2 - 1 \in 0 .. n - 3
    BY <1>2
  <2> QED BY <2>1, <2>2, <1>7
<1>11. \A i \in 0 .. n - 3 : ce2[p[i]].next = IF i = 0 THEN NULL ELSE p[i - 1]
  <2>1. TAKE i \in 0 .. n - 3
  <2>2. ce2[q[i]].next = IF i = 0 THEN NULL ELSE q[i - 1]
    BY <1>1, <1>3, <1>6 DEF IsChain
  <2>3. i # 0 => i - 1 \in 0 .. n - 3
    BY <1>2
  <2> QED BY <2>2, <2>3, <1>7
<1>12. IsChain(s, ce2, n - 1, p)
  <2>1. \A i \in 0 .. n - 2 : ce2[p[i]].next = IF i = 0 THEN NULL ELSE p[i - 1]
    BY <1>8, <1>10, <1>11
  <2> QED BY <2>1, <1>4, <1>7, <1>8, <1>9 DEF IsChain
<1>13. Members(n - 1, p) = L \ {d}
  <2> DEFINE M == {p[i] : i \in 0 .. n - 2}
             R == {q[i] : i \in 0 .. n - 3}
  <2>1. Members(n - 1, p) = M
    BY <1>8 DEF Members
  <2>2. L = R \cup {s, d}
    BY <1>1, <1>5, <1>8 DEF Members
  <2>3. M = R \cup {s}
    BY <1>7, <1>8
  <2>4. d \notin R
    BY <1>6
  <2> HIDE DEF M, R
  <2> QED BY <2>1, <2>2, <2>3, <2>4, <1>5
<1> QED BY <1>2, <1>7, <1>8, <1>12, <1>13 DEF IsList

\* If no cell of the list but the first has a later time than the next one, none has a
\* later time than any that comes after it; so the second has the earliest time of the
\* others, and the first of all of them if it is in order too.
LEMMA ListSorted ==
  ASSUME NEW s, NEW ce, NEW L, NEW n, IsList(s, ce, L, n), s # NULL,
         \A c \in L : ce[c].time \in Int,
         \A c \in L : ce[c].next # NULL => ce[c].time <= ce[ce[c].next].time
  PROVE  \A c \in L : ce[s].time <= ce[c].time
<1>1. PICK q \in [0 .. n - 1 -> Cells] : IsChain(s, ce, n, q) /\ L = Members(n, q)
  BY DEF IsList
<1>2. n \in Nat \ {0}
  <2>1. n # 0
    BY ListFacts
  <2> QED BY <2>1 DEF IsList
<1>3. s = q[n - 1] /\ n - 1 \in 0 .. n - 1
  BY <1>1, <1>2 DEF IsChain
<1>4. \A i \in 0 .. n - 1 : q[i] \in L
  BY <1>1 DEF Members
<1> DEFINE T == {k \in 0 .. n - 1 : ~(ce[s].time <= ce[q[n - 1 - k]].time)}
<1>5. ASSUME T # {}
      PROVE  FALSE
  <2>1. PICK m \in T : \A k \in T : m <= k
    <3>1. T \subseteq Nat
      OBVIOUS
    <3> QED BY <3>1, <1>5, LeastNumber
  <2>2. m # 0
    <3>1. SUFFICES ASSUME m = 0 PROVE FALSE
      OBVIOUS
    <3>2. n - 1 - m = n - 1
      BY <3>1, <1>2
    <3>3. ce[s].time \in Int
      BY <1>3, <1>4
    <3> QED BY <2>1, <3>2, <3>3, <1>3
  <2>3. /\ m - 1 \in 0 .. n - 1 /\ m - 1 \notin T
        /\ n - 1 - (m - 1) \in 0 .. n - 1 /\ n - 1 - (m - 1) # 0
        /\ n - 1 - m \in 0 .. n - 1 /\ n - 1 - (m - 1) - 1 = n - 1 - m
    BY <2>1, <2>2, <1>2
  <2> DEFINE c == q[n - 1 - (m - 1)]
             d == q[n - 1 - m]
  <2>4. ce[c].next = d
    BY <2>3, <1>1 DEF IsChain
  <2>5. c \in L /\ d \in L /\ d # NULL
    BY <2>3, <1>1, <1>4, SensorsAssumption
  <2>6. ce[c].time <= ce[d].time
    BY <2>4, <2>5
  <2>7. ce[s].time <= ce[c].time
    BY <2>3
  <2>8. ce[s].time \in Int /\ ce[c].time \in Int /\ ce[d].time \in Int
    BY <2>5, <1>3, <1>4
  <2>9. ce[s].time <= ce[d].time
    BY <2>6, <2>7, <2>8
  <2> QED BY <2>1, <2>9
<1>6. ASSUME NEW c \in L
      PROVE  ce[s].time <= ce[c].time
  <2>1. PICK i \in 0 .. n - 1 : c = q[i]
    BY <1>1 DEF Members
  <2>2. n - 1 - i \in 0 .. n - 1 /\ n - 1 - (n - 1 - i) = i
    BY <1>2
  <2>3. n - 1 - i \notin T
    BY <1>5
  <2> QED BY <2>1, <2>2, <2>3
<1> QED BY <1>6

\* Walking along the list from its first cell finds its cells, and then the end.
LEMMA WalkAlong ==
  ASSUME NEW n, NEW L, IsList(start, cell, L, n)
  PROVE  L = {Walk[i] : i \in 0 .. n - 1} /\ Walk[n] = NULL
<1>1. PICK q \in [0 .. n - 1 -> Cells] : IsChain(start, cell, n, q) /\ L = Members(n, q)
  BY DEF IsList
<1> DEFINE N == Cardinality(Cells)
           Along(w) == [i \in 0 .. N |->
                          IF i = 0 THEN start
                          ELSE IF w[i - 1] = NULL THEN NULL ELSE cell[w[i - 1]].next]
           f == [i \in 0 .. N |-> IF i < n THEN q[n - 1 - i] ELSE NULL]
<1>2. n \in 0 .. N /\ N \in Nat
  BY FS_CardinalityType, SensorsAssumption DEF IsList
<1>3. \A i \in 0 .. N : f[i] = IF i < n THEN q[n - 1 - i] ELSE NULL
  OBVIOUS
<1>4. \A i \in 0 .. N : f[i] = IF i = 0 THEN start
                              ELSE IF f[i - 1] = NULL THEN NULL ELSE cell[f[i - 1]].next
  <2>1. TAKE i \in 0 .. N
  <2>2. CASE i = 0
    <3>1. f[0] = IF 0 < n THEN q[n - 1] ELSE NULL
      BY <1>2
    <3>2. start = IF n = 0 THEN NULL ELSE q[n - 1]
      BY <1>1 DEF IsChain
    <3> QED BY <2>2, <3>1, <3>2, <1>2
  <2>3. CASE i # 0 /\ i - 1 >= n
    <3>1. i - 1 \in 0 .. N /\ ~(i - 1 < n) /\ ~(i < n)
      BY <2>3, <1>2
    <3> QED BY <2>3, <3>1, <1>3
  <2>4. CASE i # 0 /\ i - 1 < n
    <3>1. /\ i - 1 \in 0 .. N /\ n - 1 - (i - 1) \in 0 .. n - 1
          /\ n - 1 - (i - 1) - 1 = n - 1 - i /\ (n - 1 - (i - 1) = 0 <=> ~(i < n))
      BY <2>4, <1>2
    <3>2. f[i - 1] = q[n - 1 - (i - 1)]
      BY <2>4, <3>1, <1>3
    <3>3. f[i - 1] # NULL
      BY <3>1, <3>2, <1>1, SensorsAssumption
    <3>4. cell[f[i - 1]].next = IF i < n THEN q[n - 1 - i] ELSE NULL
      BY <3>1, <3>2, <1>1 DEF IsChain
    <3> QED BY <2>4, <3>3, <3>4, <1>3
  <2> QED BY <2>2, <2>3, <2>4, <1>2
<1>5. f = Along(f)
  BY <1>4
<1>6. Walk = CHOOSE w : w = Along(w)
  BY DEF Walk
<1>7. Walk = Along(Walk)
  <2> HIDE DEF Along, f
  <2> QED BY <1>5, <1>6
<1>8. \A i \in 0 .. N : Walk[i] = IF i = 0 THEN start
                          ELSE IF Walk[i - 1] = NULL THEN NULL ELSE cell[Walk[i - 1]].next
  <2> DEFINE w == Walk
  <2> HIDE DEF w
  <2>1. w = Along(w)
    BY <1>7 DEF w
  <2>2. \A i \in 0 .. N : w[i] = IF i = 0 THEN start
                          ELSE IF w[i - 1] = NULL THEN NULL ELSE cell[w[i - 1]].next
    BY <2>1
  <2> QED BY <2>2 DEF w
<1> DEFINE T == {k \in 0 .. N : Walk[k] # f[k]}
<1> HIDE DEF f
<1>9. ASSUME T # {}
      PROVE  FALSE
  <2>1. PICK m \in T : \A k \in T : m <= k
    <3>1. T \subseteq Nat
      OBVIOUS
    <3> QED BY <3>1, <1>9, LeastNumber
  <2>2. m # 0
    BY <2>1, <1>2, <1>4, <1>8
  <2>3. m - 1 \in 0 .. N /\ m - 1 \notin T
    BY <2>1, <2>2, <1>2
  <2> QED BY <2>1, <2>2, <2>3, <1>4, <1>8
<1>10. \A i \in 0 .. N : Walk[i] = f[i]
  BY <1>9
<1>11. \A i \in 0 .. n - 1 : i \in 0 .. N /\ i < n /\ n - 1 - i \in 0 .. n - 1
                             /\ n - 1 - (n - 1 - i) = i
  BY <1>2
<1>12. \A i \in 0 .. n - 1 : Walk[i] = q[n - 1 - i]
  BY <1>3, <1>10, <1>11
<1>13. L = {Walk[i] : i \in 0 .. n - 1}
  BY <1>1, <1>11, <1>12 DEF Members
<1>14. Walk[n] = NULL
  BY <1>2, <1>3, <1>10
<1> QED BY <1>13, <1>14
-----------------------------------------------------------------------------
(***************************************************************************)
(* The list of requests.                                                   *)
(***************************************************************************)

\* The list of requests, and how many there may be.
LEMMA RequestFacts ==
  ASSUME TypeOK, ListShape
  PROVE  /\ Listed \subseteq Live /\ Live \subseteq Cells
         /\ start = NULL \/ start \in Listed
         /\ start = NULL <=> num = Ahead
         /\ start = NULL <=> Listed = {}
         /\ num - Ahead \in Nat /\ Ahead \in {-1, 0, 1} /\ num \in Nat
         /\ \A c \in Listed : /\ cell[c].next = NULL \/ cell[c].next \in Listed
                              /\ cell[c].next # c /\ cell[c].next # start
         /\ \A c, d \in Listed : cell[c].next = cell[d].next => c = d
         /\ start # NULL => (cell[start].next # NULL <=> num - Ahead > 1)
         /\ IsFiniteSet(Listed) /\ Cardinality(Listed) = num - Ahead
<1>1. IsList(start, cell, Listed, num - Ahead)
  BY DEF ListShape
<1>2. Listed \subseteq Live /\ Live \subseteq Cells
  BY DEF Listed, Live
<1>3. Ahead \in {-1, 0, 1}
  BY DEF Ahead
<1>4. num \in Int
  BY DEF TypeOK
<1>5. num - Ahead \in Nat
  BY <1>1 DEF IsList
<1>6. start = NULL <=> num = Ahead
  BY <1>1, <1>3, <1>4, ListFacts
<1>7. IsFiniteSet(Listed) /\ Cardinality(Listed) = num - Ahead
  BY <1>1, ListLength
<1>8. num \in Nat
  BY DEF TypeOK
<1> QED BY <1>1, <1>2, <1>3, <1>5, <1>6, <1>7, <1>8, ListFacts

\* The next request fits into the count.
LEMMA RoomToCount ==
  ASSUME TypeOK, ListShape, ThreadIn, dbus.at = "count"
  PROVE  num + 1 \in 0 .. Cardinality(Cells)
<1> DEFINE L == IF At("relink") THEN Listed \cup {thread.first} ELSE Listed
<1>1. L \in SUBSET Cells
  BY RequestFacts DEF ThreadIn
<1>2. IsFiniteSet(Listed) /\ Cardinality(Listed) = num - Ahead
  BY RequestFacts
<1>3. At("relink") => thread.first \notin Listed
  BY DEF Listed
<1>4. Cardinality(L) = num + 1
  <2>1. num \in Int
    BY DEF TypeOK
  <2>2. CASE At("relink")
    <3>1. Ahead = 0
      BY <2>2 DEF Ahead
    <3> QED BY <1>2, <1>3, <2>1, <2>2, <3>1, FS_AddElement
  <2>3. CASE ~At("relink")
    <3>1. Ahead = -1
      BY <2>3 DEF Ahead
    <3> QED BY <1>2, <2>1, <2>3, <3>1
  <2> QED BY <2>2, <2>3
<1>5. Cardinality(L) <= Cardinality(Cells)
  BY <1>1, FS_Subset, SensorsAssumption
<1>6. num \in Nat /\ Cardinality(Cells) \in Nat
  BY FS_CardinalityType, SensorsAssumption DEF TypeOK
<1> QED BY <1>4, <1>5, <1>6

\* What sensorThread and the clock do outside of the links.
LEMMA LinksSame ==
  ASSUME TypeOK, ListShape, AddIn, DeleteIn,
         start' = start, num' = num, dbus' = dbus,
         \A c \in Cells : cell'[c].next = cell[c].next /\ cell'[c].pid = cell[c].pid,
         At("relink")' = At("relink"), At("relink") => thread'.first = thread.first
  PROVE  /\ Live' = Live /\ Listed' = Listed
         /\ ListShape' /\ AddIn' /\ DeleteIn'
<1>0. num > 1 => start \in Cells
  BY RequestFacts
<1>1. Live' = Live
  BY DEF Live
<1>2. Listed' = Listed
  BY <1>1 DEF Listed, Unlinked
<1>3. Ahead' = Ahead
  BY DEF Ahead
<1>4. IsList(start, cell', Listed, num - Ahead)
  <2>1. \A c \in Listed : cell'[c].next = cell[c].next
    BY DEF Listed, Live
  <2> QED BY <2>1, ListSame DEF ListShape
<1>5. ListShape'
  BY <1>2, <1>3, <1>4 DEF ListShape
<1>6. AddIn'
  BY <1>1 DEF AddIn, Live
<1>7. Capable => Capable'
  <2>1. OneOther => OneOther'
    BY <1>1 DEF OneOther, HasPid, Live
  <2> QED BY <1>0, <2>1 DEF Capable, HasPid
<1>8. DeleteIn'
  <2>1. Turn => Turn'
    BY <1>0, <1>1, <1>7 DEF Turn
  <2> QED BY <1>7, <2>1 DEF DeleteIn
<1> QED BY <1>1, <1>2, <1>5, <1>6, <1>8
\* What the D-Bus thread does without touching the list.
LEMMA ListUntouched ==
  ASSUME ListShape, UNCHANGED list,
         dbus.at \notin Adding \/ dbus.at = "signal",
         dbus'.at \notin Adding, dbus'.input = NULL,
         At("relink")' = At("relink"), At("relink") => thread'.first = thread.first
  PROVE  Live' = Live /\ Listed' = Listed /\ ListShape' /\ AddIn'
<1>1. Live' = Live
  BY DEF Live, list
<1>2. Listed' = Listed
  BY <1>1 DEF Listed, Unlinked, Adding
<1>3. Ahead' = Ahead
  BY DEF Ahead, Adding
<1>4. ListShape' /\ AddIn'
  BY <1>2, <1>3 DEF ListShape, AddIn, Adding, list
<1> QED BY <1>1, <1>2, <1>4

-----------------------------------------------------------------------------
(***************************************************************************)
(* The structure of the list through each step.                            *)
(***************************************************************************)
USE DEF At, Goto, Iterating, Searching, Stays

\* Steps of sensorThread that change neither a request nor where the list begins.
LEMMA LookingOn ==
  ASSUME TypeOK, Structure, ~Meet', UNCHANGED <<list, dbus>>,
         Check \/ Stop \/ Start \/ Send \/ Scan \/ Loop \/ First \/ SleepTime \/ Wait
           \/ TimedOut \/ Spurious
  PROVE  Structure'
<1> USE DEF Structure
<1>1. thread \in [at : ThreadAt, temp : Pointer, prev : Pointer, first : Pointer,
                  until : Times]
  BY DEF TypeOK
<1>2. ~At("relink") /\ ~At("relink")'
  BY <1>1 DEF Check, Stop, Start, Send, Scan, Loop, First, SleepTime, Wait, TimedOut, Spurious
<1>3. Live' = Live /\ Listed' = Listed /\ ListShape' /\ AddIn' /\ DeleteIn'
  BY <1>2, LinksSame DEF list
<1>4. ThreadIn'
  <2> USE <1>1, <1>3 DEF ThreadIn, list
  <2>1. CASE Check
    BY <2>1, RequestFacts DEF Check, Ahead
  <2>2. CASE Stop \/ Start \/ Send \/ Wait \/ TimedOut \/ Spurious
    BY <2>2 DEF Stop, Start, Send, Wait, TimedOut, Spurious
  <2>3. CASE Scan
    BY <2>3, RequestFacts DEF Scan, Ahead
  <2>4. CASE Loop
    BY <2>4, RequestFacts DEF Loop
  <2>5. CASE First
    BY <2>5 DEF First
  <2>6. CASE SleepTime
    BY <2>6 DEF SleepTime
  <2> QED BY <2>1, <2>2, <2>3, <2>4, <2>5, <2>6
<1> QED BY <1>3, <1>4

LEMMA SetTimeStructure ==
  ASSUME TypeOK, Structure, ~Meet', SetTime, dbus' = dbus
  PROVE  Structure'
<1> USE DEF Structure
<1>1. thread \in [at : ThreadAt, temp : Pointer, prev : Pointer, first : Pointer,
                  until : Times]
  BY DEF TypeOK
<1>2. ~At("relink") /\ ~At("relink")'
  BY <1>1 DEF SetTime
<1>3. \A c \in Cells : cell'[c].next = cell[c].next /\ cell'[c].pid = cell[c].pid
  BY DEF SetTime, TypeOK
<1>4. Live' = Live /\ Listed' = Listed /\ ListShape' /\ AddIn' /\ DeleteIn'
  BY <1>2, <1>3, LinksSame DEF SetTime
<1>5. ThreadIn'
  BY <1>1, <1>4 DEF ThreadIn, SetTime
<1> QED BY <1>4, <1>5

LEMMA TickStructure ==
  ASSUME TypeOK, Structure, ~Meet', Tick
  PROVE  Structure'
<1> USE DEF Structure
<1>1. /\ thread \in [at : ThreadAt, temp : Pointer, prev : Pointer, first : Pointer,
                     until : Times]
      /\ cell \in [Cells -> [pid : Pids \cup {NULL}, interval : Intervals \cup {0},
                             time : Times, next : Pointer]]
  BY DEF TypeOK
<1>2. thread'.at = thread.at /\ thread'.temp = thread.temp /\ thread'.prev = thread.prev
      /\ thread'.first = thread.first
  BY <1>1 DEF Tick
<1>3. \A c \in Cells : cell'[c].next = cell[c].next /\ cell'[c].pid = cell[c].pid
  BY <1>1 DEF Tick
<1>4. Live' = Live /\ Listed' = Listed /\ ListShape' /\ AddIn' /\ DeleteIn'
  BY <1>2, <1>3, LinksSame DEF Tick
<1>5. ThreadIn'
  <2>1. start # NULL => start \in Cells
    BY RequestFacts
  <2>2. start' = start /\ dbus' = dbus
    BY DEF Tick
  <2>3. \A c \in Listed : c \in Cells
    BY RequestFacts
  <2> QED BY <1>2, <1>3, <1>4, <2>1, <2>2, <2>3 DEF ThreadIn, Unlinked
<1> QED BY <1>4, <1>5

\* The first request is taken out of the list, or stays.
LEMMA MoveStructure ==
  ASSUME TypeOK, Structure, ~Meet', Move, dbus' = dbus
  PROVE  Structure'
<1> USE DEF Structure
<1>1. thread \in [at : ThreadAt, temp : Pointer, prev : Pointer, first : Pointer,
                  until : Times]
  BY DEF TypeOK
<1>2. CASE Stays
  <2>1. UNCHANGED list /\ ~At("relink") /\ ~At("relink")' /\ thread'.at = "sleep"
    BY <1>1, <1>2 DEF Move, list
  <2>2. Live' = Live /\ Listed' = Listed /\ ListShape' /\ AddIn' /\ DeleteIn'
    BY <2>1, LinksSame DEF list
  <2>3. ThreadIn'
    BY <2>1, <2>2 DEF ThreadIn, list, Move
  <2> QED BY <2>2, <2>3
<1>3. CASE ~Stays
  <2>1. /\ start' = cell[start].next /\ UNCHANGED <<num, cell>>
        /\ thread.at = "move" /\ thread'.at = "relink" /\ thread'.first = thread.first
        /\ thread'.temp = thread.temp /\ thread'.prev = thread.prev
    BY <1>1, <1>3 DEF Move
  <2>2. thread.first = start /\ start \in Listed /\ dbus.at # "head"
    BY <1>3, <2>1, RequestFacts DEF ThreadIn, Meet
  <2>3. Live' = Live
    BY <2>1 DEF Live
  <2>4. Listed' = Listed \ {start}
    BY <2>1, <2>2, <2>3 DEF Listed, Unlinked
  <2>5. Ahead' = Ahead + 1
    BY <2>1 DEF Ahead
  <2>6. ListShape'
    <3>1. IsList(cell[start].next, cell, Listed \ {start}, num - Ahead - 1)
      BY <2>1, ListTail DEF ListShape, ThreadIn
    <3>2. num - Ahead - 1 = num - (Ahead + 1)
      BY RequestFacts
    <3> QED BY <2>1, <2>4, <2>5, <3>1, <3>2 DEF ListShape
  <2>7. dbus.at \notin Deleting
    BY <2>1 DEF Meet
  <2>8. AddIn' /\ DeleteIn'
    BY <2>1, <2>2, <2>3, <2>7 DEF AddIn, DeleteIn, Deleting
  <2>9. ThreadIn'
    <3>1. thread.prev \in Listed /\ thread.temp = cell[thread.prev].next
          /\ cell[start].next # NULL
      BY <2>1 DEF ThreadIn
    <3>2. thread.prev # start
      BY <1>3, <2>2, <3>1
    <3>3. start \in Live /\ (Unlinked => start # dbus.input)
      BY <2>2 DEF Listed
    <3> QED BY <2>1, <2>2, <2>3, <2>4, <3>1, <3>2, <3>3 DEF ThreadIn, Unlinked
  <2> QED BY <2>6, <2>8, <2>9
<1> QED BY <1>2, <1>3

\* The request that was taken out is put behind another one.
LEMMA RelinkStructure ==
  ASSUME TypeOK, Structure, ~Meet', Relink, dbus' = dbus
  PROVE  Structure'
<1> USE DEF Structure
<1>1. /\ thread \in [at : ThreadAt, temp : Pointer, prev : Pointer, first : Pointer,
                     until : Times]
      /\ cell \in [Cells -> [pid : Pids \cup {NULL}, interval : Intervals \cup {0},
                             time : Times, next : Pointer]]
  BY DEF TypeOK
<1>2. /\ thread.prev \in Listed /\ thread.temp = cell[thread.prev].next
      /\ thread.first \in Live /\ (Unlinked => thread.first # dbus.input)
      /\ thread.first \notin Listed /\ thread.first # thread.prev
  BY DEF ThreadIn, Relink, Listed
<1>3. Listed \subseteq Live /\ Live \subseteq Cells
  BY RequestFacts
<1>4. /\ cell'[thread.prev].next = thread.first
      /\ cell'[thread.first].next = cell[thread.prev].next
      /\ \A c \in Cells \ {thread.prev, thread.first} : cell'[c] = cell[c]
      /\ \A c \in Cells : cell'[c].pid = cell[c].pid
  BY <1>1, <1>2, <1>3 DEF Relink
<1>5. thread'.at = "sleep" /\ thread.at = "relink" /\ UNCHANGED <<start, num>>
  BY <1>1 DEF Relink
<1>6. Live' = Live
  BY <1>4 DEF Live
<1>7. Listed' = Listed \cup {thread.first}
  BY <1>2, <1>5, <1>6 DEF Listed, Unlinked
<1>8. Ahead' = Ahead - 1
  BY <1>5 DEF Ahead
<1>9. ListShape'
  <2>1. IsList(start, cell, Listed, num - Ahead)
    BY DEF ListShape
  <2>3. \A c \in Listed \ {thread.prev} : cell'[c].next = cell[c].next
    BY <1>2, <1>3, <1>4
  <2>4. thread.prev \in Listed /\ thread.first \in Cells \ Listed
    BY <1>2, <1>3
  <2>5. IsList(start, cell', Listed \cup {thread.first}, num - Ahead + 1)
    BY <1>4, <2>1, <2>3, <2>4, ListInsert
  <2>2. num - Ahead + 1 = num - (Ahead - 1)
    BY RequestFacts
  <2> QED BY <1>5, <1>7, <1>8, <2>2, <2>5 DEF ListShape
<1>10. dbus.at \notin Deleting
  BY <1>5 DEF Meet
<1>11. AddIn'
  <2>1. dbus.at = "head" => dbus.input # thread.prev
    BY <1>2 DEF Listed, Unlinked
  <2> QED BY <1>2, <1>3, <1>4, <1>5, <1>6, <2>1 DEF AddIn, Unlinked
<1>12. DeleteIn' /\ ThreadIn'
  BY <1>5, <1>10 DEF DeleteIn, ThreadIn, Deleting
<1> QED BY <1>9, <1>11, <1>12
\* A new request is not in the list yet.
LEMMA RegisterStructure ==
  ASSUME TypeOK, Structure, ~Meet', Register
  PROVE  Structure'
<1> USE DEF Structure
<1> DEFINE x == CHOOSE c \in Cells \ Live : TRUE
<1>1. Live \subseteq Cells /\ Live # Cells
  BY DEF Register, Live
<1>2. x \in Cells \ Live
  BY <1>1
<1> HIDE DEF x
<1>3. PICK p \in Pids, i \in Intervals, t \in Times :
        /\ cell' = [cell EXCEPT ![x] = [pid |-> p, interval |-> i, time |-> t,
                                        next |-> NULL]]
        /\ dbus' = [dbus EXCEPT !.at = "link", !.input = x]
  BY DEF Register, x
<1>4. /\ cell'[x].pid = p /\ p # NULL
      /\ \A c \in Cells \ {x} : cell'[c] = cell[c]
  BY <1>2, <1>3, SensorsAssumption DEF TypeOK
<1>5. dbus'.at = "link" /\ dbus'.input = x /\ dbus.at = "idle"
      /\ UNCHANGED <<start, num, thread>>
  BY <1>3 DEF Register, Idle, TypeOK
<1>6. Live' = Live \cup {x}
  BY <1>2, <1>4 DEF Live
<1>7. Listed \subseteq Live
  BY RequestFacts
<1>8. Listed' = Listed
  BY <1>2, <1>5, <1>6, <1>7 DEF Listed, Unlinked
<1>9. ListShape'
  <2>1. \A c \in Listed : cell'[c].next = cell[c].next
    BY <1>1, <1>2, <1>4, <1>7
  <2>2. IsList(start, cell', Listed, num - Ahead)
    BY <2>1, ListSame DEF ListShape
  <2>3. Ahead' = Ahead
    BY <1>5 DEF Ahead
  <2> QED BY <1>5, <1>8, <2>2, <2>3 DEF ListShape
<1>10. ThreadIn'
  BY <1>1, <1>2, <1>4, <1>5, <1>6, <1>7, <1>8, RequestFacts DEF ThreadIn
<1>11. AddIn' /\ DeleteIn'
  BY <1>5, <1>6 DEF AddIn, DeleteIn, Deleting, Adding
<1> QED BY <1>9, <1>10, <1>11

LEMMA AddLinkStructure ==
  ASSUME TypeOK, Structure, ~Meet', AddLink
  PROVE  Structure'
<1> USE DEF Structure
<1>1. dbus.at = "link" /\ dbus'.at = "head" /\ dbus'.input = dbus.input
      /\ UNCHANGED <<start, num, thread>>
  BY DEF AddLink, TypeOK
<1>2. dbus.input \in Live \ Listed /\ Live \subseteq Cells
  BY <1>1 DEF AddIn, Listed, Unlinked, Live
<1>3. /\ cell'[dbus.input].next = start
      /\ \A c \in Cells \ {dbus.input} : cell'[c] = cell[c]
      /\ \A c \in Cells : cell'[c].pid = cell[c].pid
  BY <1>2 DEF AddLink, TypeOK
<1>4. Live' = Live
  BY <1>3 DEF Live
<1>5. Listed' = Listed
  BY <1>1, <1>4 DEF Listed, Unlinked
<1>6. ListShape'
  <2>1. \A c \in Listed : cell'[c].next = cell[c].next
    BY <1>2, <1>3, RequestFacts
  <2>2. IsList(start, cell', Listed, num - Ahead)
    BY <2>1, ListSame DEF ListShape
  <2>3. Ahead' = Ahead
    BY <1>1 DEF Ahead
  <2> QED BY <1>1, <1>5, <2>2, <2>3 DEF ListShape
<1>7. ThreadIn'
  BY <1>1, <1>2, <1>3, <1>4, <1>5, RequestFacts DEF ThreadIn, Unlinked
<1>8. AddIn' /\ DeleteIn'
  BY <1>1, <1>2, <1>3, <1>4 DEF AddIn, DeleteIn, Deleting, Adding
<1> QED BY <1>6, <1>7, <1>8

LEMMA AddHeadStructure ==
  ASSUME TypeOK, Structure, ~Meet', AddHead
  PROVE  Structure'
<1> USE DEF Structure
<1>1. dbus.at = "head" /\ dbus'.at = "count" /\ dbus'.input = dbus.input
      /\ start' = dbus.input /\ UNCHANGED <<num, cell, thread>>
  BY DEF AddHead, TypeOK
<1>2. dbus.input \in Live \ Listed /\ Live \subseteq Cells /\ cell[dbus.input].next = start
  BY <1>1 DEF AddIn, Listed, Unlinked, Live
<1>3. Live' = Live
  BY <1>1 DEF Live
<1>4. At("relink") => thread.first # dbus.input
  BY <1>1 DEF ThreadIn, Unlinked
<1>5. Listed' = Listed \cup {dbus.input}
  BY <1>1, <1>2, <1>3, <1>4 DEF Listed, Unlinked
<1>6. Ahead' = Ahead - 1
  BY <1>1 DEF Ahead
<1>7. ListShape'
  <2>1. IsList(dbus.input, cell, Listed \cup {dbus.input}, num - Ahead + 1)
    BY <1>2, ListCons DEF ListShape
  <2>2. num - Ahead + 1 = num - (Ahead - 1)
    BY RequestFacts
  <2> QED BY <1>1, <1>5, <1>6, <2>1, <2>2 DEF ListShape
<1>8. ThreadIn'
  <2>1. ~(At("move") /\ ~Stays)
    BY <1>1 DEF Meet
  <2>2. start' # NULL
    BY <1>1, <1>2, SensorsAssumption
  <2>3. Searching => cell[start'].next # NULL
    BY <1>1, <1>2 DEF ThreadIn
  <2> QED BY <1>1, <1>3, <1>5, <2>1, <2>2, <2>3 DEF ThreadIn, Unlinked
<1>9. AddIn' /\ DeleteIn'
  BY <1>1, <1>2, <1>3 DEF AddIn, DeleteIn, Deleting, Adding
<1> QED BY <1>7, <1>8, <1>9

LEMMA AddCountStructure ==
  ASSUME TypeOK, Structure, ~Meet', AddCount
  PROVE  Structure'
<1> USE DEF Structure
<1>1. dbus.at = "count" /\ dbus'.at = "signal" /\ num' = num + 1
      /\ UNCHANGED <<start, thread>>
  BY DEF AddCount, TypeOK
<1>2. \A c \in Cells : cell'[c].next = cell[c].next /\ cell'[c].pid = cell[c].pid
  BY DEF AddCount, TypeOK
<1>3. Live' = Live
  BY <1>2 DEF Live
<1>4. Listed' = Listed
  BY <1>1, <1>3 DEF Listed, Unlinked
<1>5. Ahead' = Ahead + 1
  BY <1>1 DEF Ahead
<1>6. ListShape'
  <2>1. IsList(start, cell', Listed, num - Ahead)
    BY <1>2, ListSame, RequestFacts DEF ListShape
  <2>2. num - Ahead = num' - Ahead'
    BY <1>1, <1>5, RequestFacts
  <2> QED BY <1>1, <1>4, <1>5, <2>1, <2>2 DEF ListShape
<1>7. ThreadIn'
  BY <1>1, <1>2, <1>3, <1>4, RequestFacts DEF ThreadIn, Unlinked
<1>8. AddIn' /\ DeleteIn'
  BY <1>1 DEF AddIn, DeleteIn, Deleting, Adding
<1> QED BY <1>6, <1>7, <1>8

\* Of the requests of which there is at most one, two are the same.
LEMMA AtMostOne ==
  ASSUME NEW S, IsFiniteSet(S), ~(Cardinality(S) > 1), NEW a \in S, NEW b \in S
  PROVE  a = b
<1>1. SUFFICES ASSUME a # b PROVE FALSE
  OBVIOUS
<1>2. IsFiniteSet({a}) /\ Cardinality({a}) = 1
  BY FS_Singleton
<1>3. Cardinality({a} \cup {b}) = 2
  BY <1>1, <1>2, FS_AddElement
<1>4. {a} \cup {b} \in SUBSET S
  OBVIOUS
<1>5. 2 <= Cardinality(S) /\ Cardinality(S) \in Nat
  BY <1>3, <1>4, FS_Subset, FS_CardinalityType
<1> QED BY <1>5

\* Messages that leave the list alone.
LEMMA MessageStructure ==
  ASSUME TypeOK, Structure, ~Meet',
         Signal \/ UnregisterAll \/ DeleteEnds \/ DeleteBegins \/ GetBegins \/ GetStops
           \/ UpdateOrUnregisterOne
  PROVE  Structure'
<1> USE DEF Structure, Adding, Deleting
<1>1. /\ dbus \in [at : DbusAt, input : Pointer, pid : Pids \cup {NULL}, temp : Pointer,
                   prev : Pointer, i : 0 .. Cardinality(Cells)]
      /\ thread \in [at : ThreadAt, temp : Pointer, prev : Pointer, first : Pointer,
                     until : Times]
  BY DEF TypeOK
<1>2. UNCHANGED list /\ dbus.at \notin {"link", "head", "count"}
      /\ dbus'.at \notin {"link", "head", "count", "signal"}
  <2> USE <1>1
  <2>1. CASE Signal
    BY <2>1 DEF Signal, NoWork, list
  <2>2. CASE UnregisterAll
    BY <2>2 DEF UnregisterAll, Idle, list
  <2>3. CASE DeleteEnds
    BY <2>3 DEF DeleteEnds, NoWork, list
  <2>4. CASE DeleteBegins
    BY <2>4 DEF DeleteBegins, list
  <2>5. CASE GetBegins \/ GetStops \/ UpdateOrUnregisterOne
    BY <2>5 DEF GetBegins, GetStops, UpdateOrUnregisterOne, Idle, NoWork, list
  <2> QED BY <2>1, <2>2, <2>3, <2>4, <2>5
<1>3. \/ thread' = thread
      \/ thread.at \in {"waiting", "sleeping"} /\ thread'.at = "check"
  BY <1>1 DEF Signal, UnregisterAll, DeleteEnds, DeleteBegins, GetBegins, GetStops,
     UpdateOrUnregisterOne
<1>4. Live' = Live /\ Listed' = Listed /\ ListShape' /\ AddIn'
  <2>1. dbus'.input = NULL
    <3>1. dbus.at # "signal" => dbus.input = NULL
      BY <1>2 DEF AddIn
    <3>2. CASE Signal \/ DeleteEnds \/ GetStops
      BY <3>2 DEF Signal, DeleteEnds, GetStops, NoWork
    <3>3. CASE UnregisterAll
      BY <1>1, <3>1, <3>3 DEF UnregisterAll, Idle
    <3>4. CASE GetBegins \/ UpdateOrUnregisterOne
      BY <1>1, <3>1, <3>4 DEF GetBegins, UpdateOrUnregisterOne, Idle
    <3>5. CASE DeleteBegins
      BY <1>1, <3>1, <3>5 DEF DeleteBegins
    <3> QED BY <3>2, <3>3, <3>4, <3>5
  <2> QED BY <1>2, <1>3, <2>1, ListUntouched
<1>5. ThreadIn'
  BY <1>2, <1>3, <1>4 DEF ThreadIn, list, Unlinked
<1>6. DeleteIn'
  <2>1. CASE Signal \/ DeleteEnds \/ GetBegins \/ GetStops \/ UpdateOrUnregisterOne
    <3>1. dbus'.at \notin Deleting
      BY <2>1, <1>1 DEF Signal, DeleteEnds, GetBegins, GetStops, UpdateOrUnregisterOne, NoWork
    <3> QED BY <3>1 DEF DeleteIn
  <2>2. CASE UnregisterAll
    <3>1. dbus'.at = "top" /\ dbus'.pid \in Pids /\ dbus'.prev = NULL
      BY <2>2, <1>1 DEF UnregisterAll
    <3>2. num' > 1 => OneOther'
      <4>1. SUFFICES ASSUME num' > 1, NEW c \in Live', NEW d \in Live',
                            ~HasPid(c)', ~HasPid(d)'
                     PROVE  c = d
        BY DEF OneOther
      <4> DEFINE S == {e \in Live' : ~(cell'[e].pid = dbus'.pid)}
      <4>2. ~(Cardinality(S) > 1)
        BY <3>1, <4>1 DEF Meet, HasPid
      <4>3. IsFiniteSet(S)
        <5>1. S \in SUBSET Cells
          BY DEF Live
        <5> QED BY <5>1, FS_Subset, SensorsAssumption
      <4>4. c \in S /\ d \in S
        BY <4>1 DEF HasPid
      <4> HIDE DEF S
      <4> QED BY <4>2, <4>3, <4>4, AtMostOne
    <3>3. num' > 1 => num' <= 4 /\ (num' > 2 => ~HasPid(start)')
      <4>1. ~(num' > 4) /\ ~(num' > 2 /\ HasPid(start)')
        BY <3>1 DEF Meet, HasPid
      <4>2. num' \in Nat
        BY <1>2 DEF TypeOK, list
      <4> QED BY <4>1, <4>2
    <3>4. Capable'
      BY <3>1, <3>2, <3>3 DEF Capable
    <3> QED BY <3>1, <3>4 DEF DeleteIn
  <2>3. CASE DeleteBegins
    <3>1. /\ dbus.at = "top" /\ dbus'.at = "for" /\ dbus'.temp = start /\ dbus'.i = 0
          /\ dbus'.pid = dbus.pid /\ dbus'.prev = dbus.prev /\ num > 1
          /\ UNCHANGED <<start, num, cell>>
      BY <2>3, <1>1 DEF DeleteBegins, list
    <3>2. Capable'
      BY <3>1, <1>4 DEF DeleteIn, Capable, OneOther, HasPid
    <3> QED BY <3>1, <3>2 DEF DeleteIn, Turn
  <2> QED BY <2>1, <2>2, <2>3
<1> QED BY <1>4, <1>5, <1>6
\* The only request is deleted.
LEMMA DeleteLastStructure ==
  ASSUME TypeOK, Structure, ~Meet', DeleteLast
  PROVE  Structure'
<1> USE DEF Structure
<1>1. /\ dbus.at = "top" /\ num = 1 /\ num' = 0 /\ start' = NULL /\ dbus'.at = "idle"
      /\ cell' = Free(start) /\ thread' = thread /\ dbus'.input = NULL
  BY DEF DeleteLast, NoWork
<1>2. thread.at \notin Iterating
  BY <1>1 DEF Meet, Deleting
<1>3. Ahead = 0 /\ Ahead' = 0
  BY <1>1, <1>2 DEF Ahead
<1>4. Listed = Live /\ Listed' = Live'
  BY <1>1, <1>2 DEF Listed, Unlinked
<1>5. start \in Live /\ start # NULL
  BY <1>1, <1>3, <1>4, RequestFacts, SensorsAssumption
<1>6. IsList(cell[start].next, cell, Listed \ {start}, 0)
  <2>1. num - Ahead - 1 = 0
    BY <1>1, <1>3
  <2> QED BY <1>5, <2>1, ListTail DEF ListShape
<1>7. Listed \ {start} = {} /\ cell[start].next = NULL
  BY <1>6, ListFacts
<1>8. Live' = {}
  <2>1. \A c \in Cells \ {start} : cell'[c] = cell[c]
    BY <1>1 DEF Free, TypeOK
  <2>2. cell'[start].pid = NULL
    BY <1>1, <1>5 DEF Free, TypeOK, Blank, Live
  <2> QED BY <1>4, <1>7, <2>1, <2>2 DEF Live
<1>9. ListShape'
  <2>1. IsList(NULL, cell', {}, 0)
    BY <1>6, <1>7, ListSame
  <2>2. num' - Ahead' = 0
    BY <1>1, <1>3
  <2> QED BY <1>1, <1>4, <1>8, <2>1, <2>2 DEF ListShape
<1>10. ThreadIn' /\ AddIn' /\ DeleteIn'
  BY <1>1, <1>2 DEF ThreadIn, AddIn, DeleteIn, Deleting, Adding
<1> QED BY <1>9, <1>10

\* One turn of the loop that deletes requests.
LEMMA DeleteTurnStructure ==
  ASSUME TypeOK, Structure, ~Meet', DeleteTurn
  PROVE  Structure'
<1> USE DEF Structure
<1>1. /\ dbus \in [at : DbusAt, input : Pointer, pid : Pids \cup {NULL}, temp : Pointer,
                   prev : Pointer, i : 0 .. Cardinality(Cells)]
      /\ cell \in [Cells -> [pid : Pids \cup {NULL}, interval : Intervals \cup {0},
                             time : Times, next : Pointer]]
      /\ num \in Nat
  BY DEF TypeOK
<1>2. /\ dbus.at = "for" /\ dbus'.at \in {"for", "top"} /\ dbus'.pid = dbus.pid
      /\ thread' = thread /\ dbus'.input = NULL
  BY <1>1 DEF DeleteTurn, AddIn, Adding
<1>3. thread.at \notin Iterating /\ dbus.pid \in Pids /\ dbus.pid # NULL /\ Turn
  BY <1>2, SensorsAssumption DEF Meet, Deleting, DeleteIn
<1>4. Ahead = 0 /\ Ahead' = 0
  BY <1>2, <1>3 DEF Ahead
<1>5. Listed = Live /\ Listed' = Live'
  BY <1>2, <1>3 DEF Listed, Unlinked
<1>6. ThreadIn' /\ AddIn'
  BY <1>2, <1>3 DEF ThreadIn, AddIn, Adding
<1>7. /\ num > 0 => start \in Live
      /\ \A c \in Live : cell[c].next = NULL \/ cell[c].next \in Live
      /\ start \in Live => (cell[start].next # NULL <=> num > 1)
      /\ start \in Live => cell[start].next # start
      /\ start \in Live => start # NULL
      /\ Live \subseteq Cells
  BY <1>1, <1>4, <1>5, RequestFacts, SensorsAssumption
<1>8. IsList(start, cell, Live, num)
  BY <1>1, <1>4, <1>5 DEF ListShape
<1>9. CASE dbus.i >= num
  <2>1. UNCHANGED list /\ dbus' = [dbus EXCEPT !.at = "top"]
    BY <1>9 DEF DeleteTurn
  <2>2. Live' = Live /\ ListShape'
    BY <2>1, <1>2, <1>3, ListUntouched DEF Adding
  <2>3. Capable
    BY <1>9, <1>3, <1>1 DEF Turn, Capable
  <2>4. Capable'
    BY <2>1, <2>2, <2>3, <1>1 DEF Capable, OneOther, HasPid, list
  <2>5. DeleteIn'
    BY <2>1, <2>4, <1>1, <1>3 DEF DeleteIn
  <2> QED BY <2>2, <2>5, <1>6
<1>10. CASE ~(dbus.i >= num) /\ ~HasPid(dbus.temp)
  <2>1. UNCHANGED list /\ dbus' = [dbus EXCEPT !.i = @ + 1, !.prev = dbus.temp,
                                               !.temp = cell[dbus.temp].next]
    BY <1>10 DEF DeleteTurn
  <2>2. Live' = Live /\ ListShape'
    BY <2>1, <1>1, <1>2, <1>3, ListUntouched DEF Adding
  <2>3. /\ dbus'.i = dbus.i + 1 /\ dbus'.prev = dbus.temp
        /\ dbus'.temp = cell[dbus.temp].next /\ dbus'.at = "for"
    BY <2>1, <1>1, <1>2
  <2>4. CASE dbus.i = 0 /\ dbus.temp = start /\ num > 1 /\ Capable
    <3>1. Capable'
      BY <2>1, <2>2, <2>3, <2>4, <1>1, <1>2, <1>10 DEF Capable, OneOther, HasPid, list
    <3>2. dbus'.i = 1 /\ dbus'.prev = start' /\ num' > 1 /\ dbus'.temp = cell'[start'].next
      BY <2>1, <2>3, <2>4 DEF list
    <3> QED BY <3>1, <3>2, <2>2, <2>3, <1>3, <1>2, <1>6 DEF DeleteIn, Turn
  <2>5. CASE /\ dbus.i = 1 /\ dbus.prev = start /\ num > 1 /\ Capable
             /\ dbus.temp = cell[start].next
    <3>1. dbus.temp \in Live /\ dbus.temp # start /\ start \in Live /\ start # NULL
      BY <2>5, <1>1, <1>7
    <3>2. ~HasPid(start)
      BY <2>5, <3>1 DEF Capable
    <3> QED BY <3>1, <3>2, <2>5, <1>10 DEF Capable, OneOther
  <2>6. CASE /\ dbus.i = 2 /\ num \in 1 .. 3 /\ Capable
             /\ dbus.prev = start /\ dbus.temp \in Cells \ Live
    <3>1. num = 3 /\ dbus.temp # NULL /\ start # NULL
      BY <2>6, <1>7, <1>10, SensorsAssumption
    <3>2. Capable'
      BY <2>1, <2>2, <2>3, <2>6, <3>1, <1>1, <1>2 DEF Capable, OneOther, HasPid, list
    <3>3. dbus'.i = 3 /\ num' = 3 /\ dbus'.prev # NULL
      BY <2>1, <2>3, <2>6, <3>1 DEF list
    <3> QED BY <3>2, <3>3, <2>2, <2>3, <1>2, <1>3, <1>6 DEF DeleteIn, Turn
  <2> QED BY <2>4, <2>5, <2>6, <1>3, <1>10, <1>1 DEF Turn
<1>11. CASE ~(dbus.i >= num) /\ HasPid(dbus.temp)
  <2>1. num' = num - 1 /\ dbus' = [dbus EXCEPT !.i = @ + 1]
    BY <1>11 DEF DeleteTurn
  <2>2. /\ dbus'.i = dbus.i + 1 /\ dbus'.prev = dbus.prev /\ dbus'.temp = dbus.temp
        /\ dbus'.at = "for"
    BY <2>1, <1>1, <1>2
  <2>3. CASE dbus.i = 0 /\ dbus.temp = start /\ num > 1 /\ Capable
    <3>1. dbus.prev = NULL /\ num = 2
      BY <2>3, <1>1, <1>11 DEF Capable
    <3>2. start' = cell[start].next /\ cell' = Free(start)
      BY <2>3, <3>1, <1>11 DEF DeleteTurn
    <3>3. start \in Live /\ start # NULL
      BY <2>3, <1>1, <1>7
    <3>4. cell'[start].pid = NULL /\ \A c \in Cells \ {start} : cell'[c] = cell[c]
      BY <3>2, <3>3, <1>1, <1>7 DEF Free, Blank
    <3>5. Live' = Live \ {start}
      BY <3>3, <3>4 DEF Live
    <3>6. IsList(start', cell', Live', num')
      <4>1. IsList(cell[start].next, cell, Live \ {start}, num - 1)
        BY <3>3, <1>8, ListTail
      <4>2. \A c \in Live \ {start} : cell'[c].next = cell[c].next
        BY <3>4, <1>7
      <4> QED BY <4>1, <4>2, <3>2, <3>5, <2>1, ListSame
    <3>7. ListShape'
      <4>1. num' - Ahead' = num'
        BY <2>1, <1>1, <1>4
      <4> QED BY <4>1, <3>6, <1>5 DEF ListShape
    <3>8. Turn'
      BY <3>1, <2>1, <2>2, <2>3, <1>1 DEF Turn
    <3> QED BY <3>7, <3>8, <2>2, <1>2, <1>3, <1>6 DEF DeleteIn
  <2>4. CASE /\ dbus.i = 1 /\ dbus.prev = start /\ num > 1 /\ Capable
             /\ dbus.temp = cell[start].next
    <3>1. dbus.temp \in Live /\ dbus.temp # start /\ start \in Live /\ start # NULL
      BY <2>4, <1>1, <1>7
    <3>2. ~HasPid(start) /\ num <= 4
      BY <2>4, <3>1 DEF Capable
    <3>3. start' = start /\ cell' = [Free(dbus.temp) EXCEPT
                                        ![dbus.prev].next = cell[dbus.temp].next]
      BY <2>4, <3>1, <1>11 DEF DeleteTurn
    <3>4. /\ cell'[dbus.temp].pid = NULL
          /\ cell'[start].next = cell[dbus.temp].next
          /\ cell'[start].pid = cell[start].pid
          /\ \A c \in Cells \ {start, dbus.temp} : cell'[c] = cell[c]
      BY <3>1, <3>3, <2>4, <1>1, <1>7 DEF Free, Blank
    <3>5. Live' = Live \ {dbus.temp}
      BY <3>1, <3>4 DEF Live
    <3>6. IsList(start, cell', Live \ {dbus.temp}, num - 1)
      <4>1. \A c \in Live \ {start, dbus.temp} : cell'[c].next = cell[c].next
        BY <3>4, <1>7
      <4> QED BY <4>1, <3>1, <3>4, <2>4, <1>8, ListDropSecond
    <3>7. ListShape'
      <4>1. num' - Ahead' = num - 1
        BY <2>1, <1>1, <1>4
      <4> QED BY <4>1, <3>3, <3>5, <3>6, <1>5 DEF ListShape
    <3>8. Capable'
      <4>1. OneOther'
        BY <3>4, <3>5, <3>1, <2>4, <1>2, <1>7 DEF OneOther, Capable, HasPid
      <4>2. ~HasPid(start)'
        BY <3>2, <3>3, <3>4, <1>2 DEF HasPid
      <4> QED BY <4>1, <4>2, <3>2, <2>1, <1>1 DEF Capable
    <3>9. Turn'
      BY <3>1, <3>2, <3>3, <3>5, <3>8, <2>1, <2>2, <2>4, <1>1, <1>7 DEF Turn
    <3> QED BY <3>7, <3>9, <2>2, <1>2, <1>3, <1>6 DEF DeleteIn
  <2>5. CASE /\ dbus.i = 2 /\ num \in 1 .. 3 /\ Capable
             /\ dbus.prev = start /\ dbus.temp \in Cells \ Live
    BY <2>5, <1>3, <1>11 DEF HasPid, Live
  <2> QED BY <2>3, <2>4, <2>5, <1>3, <1>11, <1>1 DEF Turn
<1> QED BY <1>9, <1>10, <1>11
-----------------------------------------------------------------------------
(***************************************************************************)
(* Types.                                                                  *)
(***************************************************************************)
CellType   == [pid : Pids \cup {NULL}, interval : Intervals \cup {0}, time : Times,
               next : Pointer]
ThreadType == [at : ThreadAt, temp : Pointer, prev : Pointer, first : Pointer,
               until : Times]
DbusType   == [at : DbusAt, input : Pointer, pid : Pids \cup {NULL}, temp : Pointer,
               prev : Pointer, i : 0 .. Cardinality(Cells)]

\* Times go down to 0, and an interval is a time.
LEMMA TimeFacts ==
  /\ Times \subseteq Nat /\ 0 \in Times
  /\ \A t \in Times : Earlier(t) \in Times
  /\ Intervals \subseteq Times
<1>1. Intervals \subseteq Nat \ {0}
  BY SensorsAssumption
<1>2. ASSUME NEW t \in Times
      PROVE  Earlier(t) \in Times /\ t \in Nat
  <2>1. CASE t = 0
    BY <2>1 DEF Earlier, Times
  <2>2. CASE t # 0
    <3>1. PICK i \in Intervals : t \in 1 .. i
      BY <2>2 DEF Times
    <3>2. i \in Nat /\ t \in Nat /\ Earlier(t) = t - 1
      BY <3>1, <1>1, <2>2 DEF Earlier
    <3>3. t - 1 = 0 \/ t - 1 \in 1 .. i
      BY <3>1, <3>2
    <3> QED BY <3>2, <3>3 DEF Times
  <2> QED BY <2>1, <2>2
<1>3. ASSUME NEW i \in Intervals
      PROVE  i \in Times
  <2>1. i \in 1 .. i
    BY <1>1
  <2> QED BY <2>1 DEF Times
<1> QED BY <1>2, <1>3 DEF Times

LEMMA TypeParts ==
  TypeOK <=>
    /\ start \in Pointer /\ num \in 0 .. Cardinality(Cells)
    /\ cell \in [Cells -> CellType] /\ status \in {"STOP", "RUNNING"}
    /\ thread \in ThreadType /\ dbus \in DbusType /\ served \in Pointer
    /\ registers \in 0 .. MaxRegisters
    /\ missed \in BOOLEAN /\ mixed \in BOOLEAN /\ torn \in BOOLEAN
BY DEF TypeOK, CellType, ThreadType, DbusType

\* Places in the program.
LEMMA PlacesFit ==
  /\ {"check", "stop", "wait", "waiting", "towait", "sleeping", "start", "send", "time",
      "scan", "loop", "first", "move", "relink", "sleep"} = ThreadAt
  /\ {"idle", "link", "head", "count", "signal", "top", "for", "getstop", "gone"} = DbusAt
BY DEF ThreadAt, DbusAt, Adding, Deleting

LEMMA ThreadTypes ==
  ASSUME TypeOK, Structure, ThreadStep \/ Spurious
  PROVE  /\ start' \in Pointer /\ num' \in 0 .. Cardinality(Cells)
         /\ cell' \in [Cells -> CellType] /\ status' \in {"STOP", "RUNNING"}
         /\ thread' \in ThreadType /\ served' \in Pointer /\ missed' \in BOOLEAN
<1> USE TypeParts, PlacesFit, TimeFacts
<1>1. start # NULL => start \in Cells
  BY DEF Pointer
<1>2. thread.at \in Iterating => start \in Cells
  BY <1>1 DEF Structure, ThreadIn
<1>3. NULL \in Pointer /\ Cells \subseteq Pointer
  BY DEF Pointer
<1>4. CASE Check \/ Stop \/ Start \/ Send \/ First \/ Wait \/ TimedOut \/ Spurious
  BY <1>4 DEF Check, Stop, Start, Send, First, Wait, TimedOut, Spurious, list, ThreadType
<1>5. CASE SetTime
  <2>1. cell[start].interval \in Times
    BY <1>2, <1>5 DEF SetTime, CellType
  <2>2. /\ cell' = [cell EXCEPT ![start].time = cell[start].interval]
        /\ served' = NULL /\ UNCHANGED <<start, num, status, missed>>
    BY <1>5 DEF SetTime
  <2>3. cell' \in [Cells -> CellType]
    BY <2>1, <2>2 DEF CellType
  <2>4. thread' \in ThreadType
    BY <1>3, <1>5 DEF SetTime, ThreadType
  <2> QED BY <1>3, <2>2, <2>3, <2>4
<1>6. CASE Scan
  BY <1>2, <1>6 DEF Scan, list, ThreadType, CellType
<1>7. CASE Loop
  <2>1. thread.temp # NULL => thread.temp \in Cells
    BY DEF ThreadType, Pointer
  <2> QED BY <1>7, <2>1 DEF Loop, list, ThreadType, CellType
<1>8. CASE Move
  <2>1. start \in Cells
    BY <1>2, <1>8 DEF Move
  <2>2. cell[start].next \in Pointer
    BY <2>1 DEF CellType
  <2> QED BY <1>8, <2>2 DEF Move, ThreadType
<1>9. CASE Relink
  <2>1. thread.first \in Pointer /\ thread.temp \in Pointer
    BY DEF ThreadType
  <2> DEFINE half == [cell EXCEPT ![thread.prev].next = thread.first]
  <2>2. cell' \in [Cells -> CellType]
    <3>1. half \in [Cells -> CellType]
      BY <2>1 DEF CellType
    <3>2. cell' = [half EXCEPT ![thread.first].next = thread.temp]
      BY <1>9 DEF Relink
    <3> HIDE DEF half
    <3> QED BY <2>1, <3>1, <3>2 DEF CellType
  <2> QED BY <1>9, <2>2 DEF Relink, ThreadType
<1>10. CASE SleepTime
  <2>1. cell[start].time \in Times
    BY <1>2, <1>10 DEF SleepTime, CellType
  <2> QED BY <1>3, <1>10, <2>1 DEF SleepTime, list, ThreadType
<1> QED BY <1>4, <1>5, <1>6, <1>7, <1>8, <1>9, <1>10 DEF ThreadStep

LEMMA DbusTypes ==
  ASSUME TypeOK, Structure, Dbus
  PROVE  /\ start' \in Pointer /\ num' \in 0 .. Cardinality(Cells)
         /\ cell' \in [Cells -> CellType] /\ status' \in {"STOP", "RUNNING"}
         /\ thread' \in ThreadType /\ dbus' \in DbusType
         /\ registers' \in 0 .. MaxRegisters /\ missed' \in BOOLEAN
<1> USE TypeParts, PlacesFit, TimeFacts
<1>1. NULL \in Pointer /\ Cells \subseteq Pointer /\ Cardinality(Cells) \in Nat
      /\ MaxRegisters \in Nat
  BY FS_CardinalityType, SensorsAssumption DEF Pointer
<1>2. NoWork \in DbusType
  BY <1>1 DEF NoWork, DbusType
<1>3. CASE Register
  <2> DEFINE x == CHOOSE c \in Cells \ Live : TRUE
  <2>1. x \in Cells
    BY <1>3 DEF Register, Live
  <2> HIDE DEF x
  <2>2. PICK p \in Pids, i \in Intervals, t \in Times :
          /\ cell' = [cell EXCEPT ![x] = [pid |-> p, interval |-> i, time |-> t,
                                          next |-> NULL]]
          /\ dbus' = [dbus EXCEPT !.at = "link", !.input = x]
    BY <1>3 DEF Register, x
  <2>3. [pid |-> p, interval |-> i, time |-> t, next |-> NULL] \in CellType
    BY <1>1 DEF CellType
  <2>4. cell' \in [Cells -> CellType]
    BY <2>2, <2>3
  <2>5. dbus' \in DbusType
    BY <2>1, <2>2, <1>1 DEF DbusType
  <2>6. registers' \in 0 .. MaxRegisters
    BY <1>1, <1>3 DEF Register
  <2> QED BY <1>3, <2>4, <2>5, <2>6 DEF Register
<1>4. CASE AddLink
  <2>1. cell' \in [Cells -> CellType]
    BY <1>4 DEF AddLink, CellType
  <2>2. dbus' \in DbusType
    BY <1>4 DEF AddLink, DbusType
  <2> QED BY <1>4, <2>1, <2>2 DEF AddLink
<1>5. CASE AddHead
  BY <1>5 DEF AddHead, DbusType
<1>6. CASE AddCount
  <2>1. num' \in 0 .. Cardinality(Cells)
    BY <1>6, RoomToCount DEF AddCount, Structure
  <2>2. cell' \in [Cells -> CellType]
    BY <1>6 DEF AddCount, CellType
  <2> QED BY <1>6, <2>1, <2>2 DEF AddCount, DbusType
<1>7. CASE Signal
  BY <1>2, <1>7 DEF Signal, list, ThreadType
<1>8. CASE UnregisterAll
  BY <1>1, <1>8 DEF UnregisterAll, list, DbusType
<1>9. ASSUME NEW c \in Cells
      PROVE  Free(c) \in [Cells -> CellType]
  BY <1>1 DEF Free, Blank, CellType
<1>10. CASE DeleteLast
  <2>1. start # NULL
    BY <1>10, RequestFacts DEF Structure, DeleteLast, Ahead, Meet, Deleting
  <2>2. cell' \in [Cells -> CellType]
    BY <1>9, <1>10, <2>1 DEF DeleteLast, Pointer
  <2> QED BY <1>1, <1>2, <1>10, <2>2 DEF DeleteLast
<1>11. CASE DeleteEnds
  BY <1>2, <1>11 DEF DeleteEnds, list
<1>12. CASE DeleteBegins
  <2>1. dbus' = [dbus EXCEPT !.at = "for", !.temp = start, !.i = 0] /\ "for" \in DbusAt
    BY <1>12 DEF DeleteBegins
  <2>2. dbus' \in DbusType
    <3>1. dbus \in DbusType /\ start \in Pointer /\ 0 \in 0 .. Cardinality(Cells)
      BY <1>1
    <3> QED BY ONLY <2>1, <3>1 DEF DbusType
  <2> QED BY <1>12, <2>2 DEF DeleteBegins, list
<1>13. CASE DeleteTurn
  <2>1. dbus.at = "for" /\ Turn
    BY <1>13 DEF DeleteTurn, Structure, DeleteIn
  <2>2. Ahead = 0
    BY <2>1 DEF Ahead, Structure, Meet, Deleting
  <2>3. num > 0 => start \in Cells
    BY <2>2, RequestFacts DEF Structure
  <2>4. start \in Cells => (cell[start].next \in Cells <=> num > 1)
    BY <2>2, RequestFacts, SensorsAssumption DEF Structure
  <2>5. CASE dbus.i >= num
    BY <1>13, <2>5 DEF DeleteTurn, list, DbusType
  <2>6. CASE ~(dbus.i >= num)
    <3>1. dbus.i + 1 \in 0 .. Cardinality(Cells) /\ num - 1 \in 0 .. Cardinality(Cells)
      BY <1>1, <2>6 DEF DbusType
    <3>2. dbus.temp \in Cells
      BY <2>1, <2>3, <2>4, <2>6 DEF Turn
    <3>3. cell[dbus.temp].next \in Pointer /\ Free(dbus.temp) \in [Cells -> CellType]
      BY <1>9, <3>2 DEF CellType
    <3>4. CASE ~HasPid(dbus.temp)
      <4>1. dbus' \in DbusType
        BY <1>13, <2>6, <3>1, <3>2, <3>3, <3>4 DEF DeleteTurn, DbusType, Pointer
      <4> QED BY <1>13, <2>6, <3>4, <4>1 DEF DeleteTurn, list
    <3>5. CASE HasPid(dbus.temp)
      <4>1. dbus' \in DbusType
        BY <1>13, <2>6, <3>1, <3>5 DEF DeleteTurn, DbusType
      <4>2. start' \in Pointer
        <5>1. start \in Cells
          BY <2>3, <2>6 DEF DbusType
        <5> QED BY <1>13, <2>6, <3>5, <5>1 DEF DeleteTurn, CellType
      <4>3. cell' \in [Cells -> CellType]
        <5>1. [Free(dbus.temp) EXCEPT ![dbus.prev].next = cell[dbus.temp].next]
                \in [Cells -> CellType]
          BY <3>3 DEF CellType
        <5> QED BY <1>13, <2>6, <3>3, <3>5, <5>1 DEF DeleteTurn
      <4> QED BY <1>13, <2>6, <3>1, <3>5, <4>1, <4>2, <4>3 DEF DeleteTurn
    <3> QED BY <3>4, <3>5
  <2> QED BY <2>5, <2>6
<1>14. CASE GetBegins \/ GetStops \/ UpdateOrUnregisterOne
  BY <1>2, <1>14 DEF GetBegins, GetStops, UpdateOrUnregisterOne, list, DbusType
<1> QED BY <1>3, <1>4, <1>5, <1>6, <1>7, <1>8, <1>10, <1>11, <1>12, <1>13, <1>14
        DEF Dbus, DbusGoesOn

LEMMA TickTypes ==
  ASSUME TypeOK, Tick
  PROVE  /\ start' \in Pointer /\ num' \in 0 .. Cardinality(Cells)
         /\ cell' \in [Cells -> CellType] /\ status' \in {"STOP", "RUNNING"}
         /\ thread' \in ThreadType
<1> USE TypeParts, TimeFacts
<1>1. \A c \in Cells : [cell[c] EXCEPT !.time = Earlier(@)] \in CellType
  BY DEF CellType
<1>2. cell' \in [Cells -> CellType]
  BY <1>1 DEF Tick
<1>3. thread' \in ThreadType
  BY DEF Tick, ThreadType
<1> QED BY <1>2, <1>3 DEF Tick

LEMMA TypeStep ==
  ASSUME TypeOK, ~torn => Structure, Next
  PROVE  TypeOK'
<1>1. ~torn /\ Structure /\ (Thread \/ Dbus \/ Tick)
      /\ mixed' = (mixed \/ Mix') /\ torn' = (torn \/ Meet')
  BY DEF Next, Step
<1>2. mixed' \in BOOLEAN /\ torn' \in BOOLEAN
  BY <1>1
<1>3. CASE Thread
  <2>1. dbus' = dbus /\ registers' = registers /\ (ThreadStep \/ Spurious)
    BY <1>3 DEF Thread, ThreadGoesOn
  <2> QED BY <1>1, <1>2, <2>1, ThreadTypes, TypeParts DEF TypeOK, CellType, ThreadType
<1>4. CASE Dbus
  <2>1. served' = served
    BY <1>4 DEF Dbus, DbusGoesOn
  <2> QED BY <1>1, <1>2, <1>4, <2>1, DbusTypes DEF TypeOK, CellType, ThreadType, DbusType
<1>5. CASE Tick
  <2>1. UNCHANGED <<dbus, served, registers, missed>>
    BY <1>5 DEF Tick
  <2> QED BY <1>2, <1>5, <2>1, TickTypes DEF TypeOK, CellType, ThreadType
<1> QED BY <1>1, <1>3, <1>4, <1>5
-----------------------------------------------------------------------------
(***************************************************************************)
(* The order of the requests, while no message is handled in the middle of *)
(* the thread's work.                                                      *)
(***************************************************************************)

\* Times can be compared.
LEMMA TimesAreNumbers ==
  ASSUME TypeOK
  PROVE  \A c \in Cells : cell[c].time \in Times /\ cell[c].time \in Int /\ 0 <= cell[c].time
<1>1. \A c \in Cells : cell[c].time \in Times
  BY TypeParts DEF CellType
<1>2. \A t \in Times : t \in Int /\ 0 <= t
  BY TimeFacts
<1> QED BY <1>1, <1>2

\* In a list that is in order, the first request is the earliest.
LEMMA FirstIsEarliest ==
  ASSUME TypeOK, ListShape, start # NULL, \A c \in Listed : Ord(c)
  PROVE  \A c \in Listed : cell[start].time <= cell[c].time
<1>1. \A c \in Listed : cell[c].time \in Int
  BY RequestFacts, TimesAreNumbers
<1> QED BY <1>1, ListSorted DEF ListShape, Ord

\* sensorThread at work has the list for itself, and the list is all that is live.
LEMMA Alone ==
  ASSUME ~Mix, Structure, thread.at \in Iterating
  PROVE  dbus.at \notin Adding \cup Deleting \cup {"getstop"}
         /\ dbus.at # "count" /\ ~Unlinked /\ (~At("relink") => Listed = Live)
<1>1. dbus.at \notin Adding \cup Deleting \cup {"getstop"}
  BY DEF Mix, Structure, Meet
<1>2. ~Unlinked /\ dbus.at # "count"
  BY <1>1 DEF Unlinked, Adding
<1> QED BY <1>1, <1>2 DEF Listed

\* Steps of sensorThread that change neither a request nor where the list begins.
LEMMA LookingOnOrder ==
  ASSUME TypeOK, Structure, ~Mix, Order, UNCHANGED <<list, dbus>>, TypeOK', Structure', ~Mix',
         Check \/ Stop \/ Start \/ Send \/ Scan \/ Loop \/ First \/ SleepTime \/ Wait
           \/ TimedOut \/ Spurious
  PROVE  Order'
<1> USE DEF Order
<1>1. thread \in ThreadType /\ \A c \in Cells : cell[c].time \in Int
  BY TypeParts, TimesAreNumbers
<1>2. ~At("relink") /\ ~At("relink")'
  BY <1>1 DEF ThreadType, Check, Stop, Start, Send, Scan, Loop, First, SleepTime, Wait,
     TimedOut, Spurious
<1>3. Live' = Live /\ Listed' = Listed
  BY <1>2 DEF list, Live, Listed, Unlinked
<1>4. \A c \in Cells : Ord(c)' <=> Ord(c)
  BY DEF Ord, list
<1>5. Listed \subseteq Cells /\ (start = NULL \/ start \in Listed)
  BY RequestFacts DEF Structure
<1>6. SortedIn'
  <2> USE <1>3, <1>4, <1>5 DEF list
  <2>1. CASE Check \/ Stop \/ Start \/ Send \/ Wait \/ TimedOut \/ Spurious
    <3>1. thread.at \notin {"scan", "loop", "first", "move"}
          /\ thread'.at \notin {"scan", "loop", "first", "move"}
      BY <2>1, <1>1 DEF ThreadType, Check, Stop, Start, Send, Wait, TimedOut, Spurious
    <3>2. OutOfOrder' = OutOfOrder
      BY <3>1 DEF OutOfOrder
    <3> QED BY <3>1, <3>2, <1>2 DEF SortedIn
  <2>2. CASE SleepTime
    <3>1. thread.at = "sleep" /\ thread'.at = "towait"
      BY <2>2, <1>1 DEF ThreadType, SleepTime
    <3>2. OutOfOrder' = OutOfOrder
      BY <3>1 DEF OutOfOrder
    <3> QED BY <3>1, <3>2 DEF SortedIn
  <2>3. CASE Scan
    <3>1. dbus.at # "count" /\ start \in Listed
      BY <2>3, Alone DEF Scan, Structure, ThreadIn
    <3>2. OutOfOrder = {c \in Listed : num > 1 /\ c = start}
      BY <2>3, <3>1 DEF Scan, OutOfOrder
    <3>3. CASE num <= 1
      <4>1. thread'.at = "sleep" /\ OutOfOrder' = {} /\ OutOfOrder = {}
        <5>1. ~(num > 1)
          BY <3>3, RequestFacts DEF Structure
        <5> QED BY <2>3, <3>1, <3>2, <3>3, <5>1, <1>1 DEF Scan, OutOfOrder, ThreadType
      <4> QED BY <4>1, <3>1 DEF SortedIn
    <3>4. CASE ~(num <= 1)
      <4>1. thread'.at = "loop" /\ thread'.prev = start
        BY <2>3, <3>4, <1>1 DEF Scan, ThreadType
      <4>2. OutOfOrder \subseteq {start} /\ OutOfOrder' = {start}
        BY <3>1, <3>2, <4>1 DEF OutOfOrder
      <4> QED BY <4>1, <4>2, <3>1 DEF SortedIn
    <3> QED BY <3>3, <3>4
  <2>4. CASE Loop
    <3>1. /\ dbus.at # "count" /\ start \in Listed /\ thread.prev \in Listed
          /\ thread.temp = cell[thread.prev].next
          /\ thread.temp = NULL \/ thread.temp \in Listed
      BY <2>4, Alone, RequestFacts DEF Loop, Structure, ThreadIn
    <3>2. OutOfOrder = {start} /\ OutOfOrder' = {start}
      BY <2>4, <3>1, <1>1 DEF Loop, OutOfOrder, ThreadType
    <3>3. CASE thread.temp = NULL \/ cell[thread.temp].time >= cell[start].time
      <4>1. thread'.at = "first" /\ thread'.prev = thread.prev /\ thread'.temp = thread.temp
        BY <2>4, <3>3, <1>1 DEF Loop, ThreadType
      <4> QED BY <4>1, <3>1, <3>2, <3>3, <2>4, <1>1 DEF SortedIn, Loop
    <3>4. CASE ~(thread.temp = NULL \/ cell[thread.temp].time >= cell[start].time)
      <4>1. thread'.at = "loop" /\ thread'.prev = thread.temp
        BY <2>4, <3>4, <1>1 DEF Loop, ThreadType
      <4> QED BY <4>1, <3>1, <3>2, <3>4, <1>1 DEF SortedIn
    <3> QED BY <3>3, <3>4
  <2>5. CASE First
    <3>1. thread.at = "first" /\ thread'.at = "move" /\ thread'.first = start
          /\ thread'.prev = thread.prev /\ thread'.temp = thread.temp
      BY <2>5, <1>1 DEF First, ThreadType
    <3>2. OutOfOrder' = OutOfOrder
      BY <3>1 DEF OutOfOrder
    <3> QED BY <3>1, <3>2 DEF SortedIn
  <2> QED BY <2>1, <2>2, <2>3, <2>4, <2>5
<1>7. TimesIn'
  <2>1. CASE Check \/ Stop \/ Scan \/ Loop \/ First
    <3>1. thread.at \in {"check", "stop", "scan", "loop", "first"}
          /\ thread'.at \in {"start", "stop", "wait", "loop", "sleep", "first", "move"}
      BY <2>1, <1>1 DEF Check, Stop, Scan, Loop, First, ThreadType
    <3>2. served' = served
      BY <2>1 DEF Check, Stop, Scan, Loop, First
    <3> QED BY <3>1, <3>2 DEF TimesIn
  <2>2. CASE Start \/ Send
    BY <2>2, <1>1 DEF TimesIn, Start, Send, ThreadType, list
  <2>3. CASE Wait \/ TimedOut \/ Spurious
    <3>1. /\ thread'.at \in {"waiting", "sleeping", "check"}
          /\ thread'.at = "sleeping" => thread.at = "towait" /\ thread'.until = thread.until
          /\ thread.at \in {"wait", "waiting", "towait", "sleeping"}
          /\ served' = served
      BY <2>3, <1>1 DEF Wait, TimedOut, Spurious, ThreadType
    <3> QED BY <3>1, <1>3 DEF TimesIn, list
  <2>4. CASE SleepTime
    <3>1. thread.at = "sleep" /\ thread'.at = "towait" /\ thread'.until = cell[start].time
          /\ served' = served
      BY <2>4, <1>1 DEF SleepTime, ThreadType
    <3>2. Listed = Live /\ start # NULL /\ dbus.at # "count"
      BY <3>1, Alone DEF Structure, ThreadIn
    <3>3. \A c \in Listed : Ord(c)
      BY <3>1, <3>2 DEF SortedIn, OutOfOrder
    <3>4. \A c \in Live : cell[start].time <= cell[c].time
      BY <3>2, <3>3, FirstIsEarliest DEF Structure
    <3> QED BY <3>1, <3>4, <1>3 DEF TimesIn, list
  <2> QED BY <2>1, <2>2, <2>3, <2>4
<1> QED BY <1>6, <1>7
LEMMA SetTimeOrder ==
  ASSUME TypeOK, Structure, ~Mix, Order, dbus' = dbus, TypeOK', Structure', ~Mix', SetTime
  PROVE  Order'
<1> USE DEF Order
<1>1. /\ thread.at = "time" /\ thread'.at = "scan" /\ start' = start /\ num' = num
      /\ served' = NULL
      /\ \A c \in Cells : cell'[c].next = cell[c].next /\ cell'[c].pid = cell[c].pid
      /\ \A c \in Cells \ {start} : cell'[c] = cell[c]
  BY TypeParts DEF SetTime, ThreadType, CellType
<1>2. dbus.at # "count" /\ start \in Listed /\ Listed \subseteq Cells
  BY <1>1, Alone, RequestFacts DEF Structure, ThreadIn
<1>3. Listed' = Listed
  BY <1>1 DEF Live, Listed, Unlinked
<1>4. OutOfOrder = {} /\ OutOfOrder' = {c \in Listed : num > 1 /\ c = start}
  BY <1>1, <1>2, <1>3 DEF OutOfOrder
<1>5. \A c \in Listed \ {start} : Ord(c)'
  <2>1. \A c \in Listed : cell[c].next = NULL \/ cell[c].next \in Listed \ {start}
    BY RequestFacts DEF Structure
  <2> QED BY <1>1, <1>2, <1>4, <2>1 DEF SortedIn, Ord
<1>6. ~(num > 1) => Ord(start)'
  <2>0. thread.at # "relink" /\ dbus.at # "count"
    BY <1>1, <1>2
  <2>1. Ahead = 0
    BY <2>0 DEF Ahead
  <2>2. ~(num > 1) => cell[start].next = NULL
    BY <1>1, <2>1, RequestFacts DEF Structure, ThreadIn
  <2> QED BY <1>1, <1>2, <2>2 DEF Ord
<1>7. SortedIn'
  BY <1>1, <1>2, <1>3, <1>4, <1>5, <1>6 DEF SortedIn
<1>8. TimesIn'
  BY <1>1 DEF TimesIn
<1> QED BY <1>7, <1>8

LEMMA MoveOrder ==
  ASSUME TypeOK, Structure, ~Mix, Order, dbus' = dbus, TypeOK', Structure', ~Mix', Move
  PROVE  Order'
<1> USE DEF Order
<1>1. /\ thread.at = "move" /\ UNCHANGED <<num, cell, served>> /\ thread \in ThreadType
      /\ thread.first = start /\ start # NULL
      /\ thread'.at \in {"sleep", "relink"}
      /\ thread'.first = thread.first /\ thread'.temp = thread.temp
      /\ thread'.prev = thread.prev
  BY TypeParts DEF Move, ThreadType, SortedIn, Structure, ThreadIn
<1>2. /\ dbus.at # "count" /\ ~Unlinked /\ start \in Listed /\ Listed = Live
      /\ Listed \subseteq Cells
  BY <1>1, Alone, RequestFacts DEF Structure
<1>3. OutOfOrder = {start}
  BY <1>1, <1>2 DEF OutOfOrder
<1>4. \A c \in Cells : Ord(c)' <=> Ord(c)
  BY <1>1 DEF Ord
<1>5. TimesIn'
  BY <1>1 DEF TimesIn
<1>6. CASE Stays
  <2>1. start' = start /\ thread'.at = "sleep"
    BY <1>1, <1>6 DEF Move, ThreadType
  <2>2. Listed' = Listed /\ OutOfOrder' = {}
    BY <1>1, <1>2, <2>1 DEF Listed, Live, Unlinked, OutOfOrder
  <2>3. Ord(start)
    BY <1>1, <1>6 DEF SortedIn, Structure, ThreadIn, Ord
  <2> QED BY <1>2, <1>3, <1>4, <1>5, <2>1, <2>2, <2>3 DEF SortedIn
<1>7. CASE ~Stays
  <2>1. thread'.at = "relink"
    BY <1>1, <1>7 DEF Move, ThreadType
  <2>2. Listed' = Listed \ {start} /\ OutOfOrder' = {}
    BY <1>1, <1>2, <2>1 DEF Listed, Live, Unlinked, OutOfOrder
  <2>3. thread.prev # start
    BY <1>1, <1>7 DEF Structure, ThreadIn
  <2> QED BY <1>1, <1>2, <1>3, <1>4, <1>5, <2>1, <2>2, <2>3 DEF SortedIn
<1> QED BY <1>6, <1>7

LEMMA RelinkOrder ==
  ASSUME TypeOK, Structure, ~Mix, Order, dbus' = dbus, TypeOK', Structure', ~Mix', Relink
  PROVE  Order'
<1> USE DEF Order
<1> DEFINE x == thread.first
           p == thread.prev
<1>1. /\ thread.at = "relink" /\ thread'.at = "sleep" /\ UNCHANGED <<start, num, served>>
      /\ thread'.first = x /\ thread'.prev = p
  BY TypeParts DEF Relink, ThreadType
<1>2. /\ p \in Listed /\ thread.temp = cell[p].next
      /\ x \in Live /\ x \notin Listed /\ x # p
  BY <1>1 DEF Structure, ThreadIn, Listed
<1>3. Listed \subseteq Live /\ Live \subseteq Cells /\ x \in Cells /\ p \in Cells
  BY <1>2, RequestFacts DEF Structure
<1>4. /\ cell'[p].next = x /\ cell'[x].next = cell[p].next
      /\ \A c \in Cells \ {p, x} : cell'[c] = cell[c]
      /\ \A c \in Cells : cell'[c].pid = cell[c].pid /\ cell'[c].time = cell[c].time
  BY <1>2, <1>3, TypeParts DEF Relink, CellType
<1>5. Live' = Live /\ ~Unlinked /\ dbus.at # "count"
  BY <1>1, <1>4, Alone DEF Live
<1>6. Listed' = Listed \cup {x}
  BY <1>1, <1>2, <1>5 DEF Listed, Unlinked
<1>7. OutOfOrder = {} /\ OutOfOrder' = {}
  BY <1>1, <1>5 DEF OutOfOrder
<1>8. \A c \in Listed : cell[c].next = NULL \/ cell[c].next \in Listed
  BY RequestFacts DEF Structure
<1>9. Ord(p)' /\ Ord(x)'
  <2>1. /\ cell[p].time <= cell[x].time
        /\ cell[p].next = NULL \/ cell[x].time <= cell[cell[p].next].time
    BY <1>1, <1>2 DEF SortedIn
  <2>2. cell[p].next = NULL \/ cell[p].next \in Cells
    BY <1>2, <1>3, <1>8
  <2>3. Ord(p)'
    BY <1>1, <1>3, <1>4, <2>1 DEF Ord
  <2>4. Ord(x)'
    BY <1>1, <1>3, <1>4, <2>1, <2>2 DEF Ord
  <2> QED BY <2>3, <2>4
<1>10. \A c \in Listed \ {p} : Ord(c)'
  BY <1>2, <1>3, <1>4, <1>7, <1>8 DEF SortedIn, Ord
<1>11. SortedIn'
  <2>1. \A c \in Listed' : Ord(c)'
    BY <1>1, <1>6, <1>9, <1>10
  <2>2. dbus'.at # "count"
    BY <1>5
  <2> QED BY <1>1, <2>1, <2>2 DEF SortedIn
<1>12. TimesIn'
  BY <1>1 DEF TimesIn
<1> QED BY <1>11, <1>12

LEMMA TickOrder ==
  ASSUME TypeOK, Structure, ~Mix, Order, TypeOK', Structure', ~Mix', Tick
  PROVE  Order'
<1> USE DEF Order
<1>1. /\ thread'.at = thread.at /\ thread'.temp = thread.temp /\ thread'.prev = thread.prev
      /\ thread'.first = thread.first /\ thread'.until = Earlier(thread.until)
      /\ UNCHANGED <<start, num, dbus, served, status>>
  BY TypeParts DEF Tick, ThreadType
<1>2. \A c \in Cells : /\ cell'[c].next = cell[c].next /\ cell'[c].pid = cell[c].pid
                       /\ cell'[c].time = Earlier(cell[c].time)
  BY TypeParts DEF Tick, CellType
<1>3. \A t, u \in Int : 0 <= t /\ t <= u => Earlier(t) <= Earlier(u)
  BY DEF Earlier
<1>4. \A c, d \in Cells : cell[c].time <= cell[d].time => cell'[c].time <= cell'[d].time
  BY <1>2, <1>3, TimesAreNumbers
<1>5. Live' = Live /\ Listed' = Listed /\ OutOfOrder' = OutOfOrder
  BY <1>1, <1>2 DEF Live, Listed, Unlinked, OutOfOrder
<1>6. Listed \subseteq Cells /\ Live \subseteq Cells /\ (start # NULL => start \in Cells)
      /\ \A c \in Listed : cell[c].next # NULL => cell[c].next \in Cells
  BY RequestFacts DEF Structure
<1>7. \A c \in Listed : Ord(c) => Ord(c)'
  BY <1>2, <1>4, <1>6 DEF Ord
<1>8. SortedIn'
  <2>1. Searching \/ At("relink") =>
          thread.prev \in Cells /\ (thread.temp = NULL \/ thread.temp \in Cells)
    BY <1>6 DEF Structure, ThreadIn
  <2>2. At("relink") => thread.first \in Cells
    BY <1>6 DEF Structure, ThreadIn
  <2>3. Searching => start \in Cells
    BY <1>6 DEF Structure, ThreadIn
  <2> QED BY <1>1, <1>4, <1>5, <1>7, <2>1, <2>2, <2>3 DEF SortedIn
<1>9. TimesIn'
  <2>1. thread.until \in Int /\ 0 <= thread.until
    <3>1. thread.until \in Times
      BY TypeParts DEF ThreadType
    <3>2. \A t \in Times : t \in Int /\ 0 <= t
      BY TimeFacts
    <3> QED BY <3>1, <3>2
  <2>2. \A c \in Cells : thread.until <= cell[c].time => thread'.until <= cell'[c].time
    BY <1>1, <1>2, <1>3, <2>1, TimesAreNumbers
  <2> QED BY <1>1, <1>5, <1>6, <2>2 DEF TimesIn
<1> QED BY <1>8, <1>9
\* A message that comes while the thread does not work.
LEMMA RegisterOrder ==
  ASSUME TypeOK, Structure, ~Mix, Order, TypeOK', Structure', ~Mix', Register, served' = served
  PROVE  Order'
<1> USE DEF Order
<1> DEFINE x == CHOOSE c \in Cells \ Live : TRUE
<1>1. x \in Cells \ Live
  BY DEF Register, Live
<1> HIDE DEF x
<1>2. PICK p \in Pids, i \in Intervals, t \in Times :
        /\ cell' = [cell EXCEPT ![x] = [pid |-> p, interval |-> i, time |-> t,
                                        next |-> NULL]]
        /\ dbus' = [dbus EXCEPT !.at = "link", !.input = x]
  BY DEF Register, x
<1>3. \A c \in Cells \ {x} : cell'[c] = cell[c]
  BY <1>1, <1>2, TypeParts
<1>4. dbus'.at = "link" /\ dbus'.input = x /\ dbus.input = NULL
      /\ UNCHANGED <<start, num, thread, status>>
  BY <1>2, TypeParts DEF Register, Idle, DbusType, Structure, AddIn, Adding
<1>5. thread.at \notin Iterating /\ thread.at # "towait"
  BY <1>4 DEF Mix, Adding
<1>6. Listed' \subseteq Live /\ Live' \subseteq Live \cup {x}
  BY <1>3, <1>4 DEF Listed, Live, Unlinked
<1>7. Listed = Live /\ OutOfOrder = {}
  BY <1>4, <1>5, <1>2 DEF Listed, Unlinked, OutOfOrder, Register, Idle
<1>8. /\ \A c \in Live : cell[c].next = NULL \/ cell[c].next \in Live
      /\ Live \subseteq Cells
  BY <1>7, RequestFacts DEF Structure
<1>9. \A c \in Live : Ord(c)'
  BY <1>1, <1>3, <1>7, <1>8 DEF Ord, SortedIn
<1>10. SortedIn'
  BY <1>4, <1>5, <1>6, <1>9 DEF SortedIn
<1>11. TimesIn'
  <2>1. NULL \notin Live
    BY <1>8, SensorsAssumption
  <2>2. \A c \in Live' \ {x} : c \in Live \ {dbus.input} /\ cell'[c].time = cell[c].time
    BY <1>1, <1>3, <1>4, <1>6, <1>8, <2>1
  <2> QED BY <1>4, <1>5, <2>2 DEF TimesIn
<1> QED BY <1>10, <1>11

LEMMA AddOrder ==
  ASSUME TypeOK, Structure, ~Mix, Order, TypeOK', Structure', ~Mix', AddLink \/ AddHead \/ AddCount,
         served' = served
  PROVE  Order'
<1> USE DEF Order
<1> DEFINE x == dbus.input
<1>1. /\ dbus.at \in {"link", "head", "count"} /\ dbus'.at \in {"head", "count", "signal"}
      /\ dbus'.input = x /\ UNCHANGED <<thread, status>>
  BY TypeParts DEF AddLink, AddHead, AddCount, DbusType
<1>2. thread.at \notin Iterating /\ thread.at # "towait"
  BY <1>1 DEF Mix, Adding
<1>3. x \in Live /\ Live \subseteq Cells
  BY <1>1 DEF Structure, AddIn, Live
<1>4. \A c \in Cells : cell'[c].pid = cell[c].pid
  BY <1>3, TypeParts DEF AddLink, AddHead, AddCount, CellType
<1>5. \A c \in Cells \ {x} : cell'[c] = cell[c]
  BY <1>3, TypeParts DEF AddLink, AddHead, AddCount
<1>6. Live' = Live
  BY <1>4 DEF Live
<1>7. TimesIn'
  BY <1>1, <1>2, <1>3, <1>5, <1>6 DEF TimesIn
<1>8. /\ \A c \in Listed : cell[c].next = NULL \/ cell[c].next \in Listed
      /\ \A c \in Listed : cell[c].next # start /\ cell[c].next # c
      /\ Listed \subseteq Cells
  BY RequestFacts DEF Structure
<1>9. CASE AddLink
  <2>1. /\ dbus.at = "link" /\ dbus'.at = "head" /\ x \notin Listed
    BY <1>9, TypeParts DEF AddLink, DbusType, Listed, Unlinked
  <2>2. Listed' = Listed /\ OutOfOrder = {}
    BY <1>1, <1>2, <1>6, <2>1 DEF Listed, Unlinked, OutOfOrder
  <2>3. \A c \in Listed : Ord(c)'
    BY <1>5, <1>8, <2>1, <2>2 DEF Ord, SortedIn
  <2> QED BY <1>1, <1>2, <1>7, <2>1, <2>2, <2>3 DEF SortedIn
<1>10. CASE AddHead
  <2>1. /\ dbus.at = "head" /\ dbus'.at = "count" /\ start' = x /\ cell' = cell
    BY <1>10, TypeParts DEF AddHead, DbusType
  <2>2. Listed' = Listed \cup {x} /\ OutOfOrder = {}
    BY <1>1, <1>2, <1>3, <1>6, <2>1 DEF Listed, Unlinked, OutOfOrder
  <2>3. OutOfOrder' = {x}
    BY <1>1, <1>2, <2>1, <2>2 DEF OutOfOrder
  <2>4. \A c \in Listed : Ord(c)'
    BY <2>1, <2>2 DEF Ord, SortedIn
  <2> QED BY <1>1, <1>2, <1>7, <2>1, <2>2, <2>3, <2>4 DEF SortedIn
<1>11. CASE AddCount
  <2>1. /\ dbus.at = "count" /\ dbus'.at = "signal" /\ start = x
        /\ cell'[x].time = 0 /\ cell'[x].next = cell[x].next
        /\ \A c \in Cells : cell'[c].next = cell[c].next
    BY <1>3, <1>11, TypeParts DEF AddCount, DbusType, CellType, SortedIn
  <2>2. Listed' = Listed /\ OutOfOrder \subseteq {x} /\ OutOfOrder' = {}
    BY <1>1, <1>2, <1>6, <2>1 DEF Listed, Unlinked, OutOfOrder
  <2>3. \A c \in Listed \ {x} : Ord(c)'
    BY <1>5, <1>8, <2>1, <2>2 DEF Ord, SortedIn
  <2>4. x \in Listed => Ord(x)'
    <3>1. \A c \in Cells : 0 <= cell[c].time
      BY TimesAreNumbers
    <3> QED BY <1>1, <1>5, <1>8, <2>1, <3>1 DEF Ord
  <2>5. \A c \in Listed' \ OutOfOrder' : Ord(c)'
    BY <1>1, <2>2, <2>3, <2>4
  <2> QED BY <1>1, <1>2, <1>7, <2>1, <2>5 DEF SortedIn
<1> QED BY <1>9, <1>10, <1>11
\* Messages that leave the list alone.
LEMMA MessageOrder ==
  ASSUME TypeOK, Structure, ~Mix, Order, TypeOK', Structure', ~Mix', served' = served,
         Signal \/ UnregisterAll \/ DeleteEnds \/ DeleteBegins \/ GetBegins \/ GetStops
           \/ UpdateOrUnregisterOne
  PROVE  Order'
<1> USE DEF Order
<1>1. dbus \in DbusType /\ thread \in ThreadType
  BY TypeParts
<1>2. /\ UNCHANGED <<start, num, cell>>
      /\ \/ thread' = thread
         \/ thread.at \in {"waiting", "sleeping"} /\ thread'.at = "check"
  BY <1>1 DEF Signal, UnregisterAll, DeleteEnds, DeleteBegins, GetBegins, GetStops,
     UpdateOrUnregisterOne, list, ThreadType
<1>3. dbus.at \notin {"link", "head", "count"} /\ dbus'.at \notin Adding
  <2> USE <1>1 DEF Adding, DbusType
  <2>1. CASE Signal
    BY <2>1 DEF Signal, NoWork
  <2>2. CASE UnregisterAll
    BY <2>2 DEF UnregisterAll, Idle
  <2>3. CASE DeleteEnds
    BY <2>3 DEF DeleteEnds, NoWork
  <2>4. CASE DeleteBegins
    BY <2>4 DEF DeleteBegins
  <2>5. CASE GetBegins \/ GetStops \/ UpdateOrUnregisterOne
    BY <2>5 DEF GetBegins, GetStops, UpdateOrUnregisterOne, Idle, NoWork
  <2> QED BY <2>1, <2>2, <2>3, <2>4, <2>5
<1>4. Live' = Live /\ Listed' = Listed /\ OutOfOrder' = OutOfOrder
  BY <1>2, <1>3 DEF Live, Listed, Unlinked, OutOfOrder, Adding
<1>5. \A c \in Cells : Ord(c)' <=> Ord(c)
  BY <1>2 DEF Ord
<1>6. SortedIn'
  <2>1. Listed \subseteq Cells
    BY RequestFacts DEF Structure
  <2>2. dbus'.at # "count"
    BY <1>3 DEF Adding
  <2> QED BY <1>2, <1>4, <1>5, <2>1, <2>2 DEF SortedIn
<1>7. TimesIn'
  <2>1. CASE Signal
    <3>1. dbus.at = "signal"
      BY <2>1 DEF Signal
    <3>2. thread.at # "towait" /\ thread.at \notin Iterating
      BY <3>1 DEF Mix, Adding
    <3>3. thread'.at \notin {"towait", "sleeping"}
      BY <2>1, <3>2, <1>1 DEF Signal, ThreadType
    <3>4. served = NULL
      BY <3>2 DEF TimesIn
    <3> QED BY <3>3, <3>4 DEF TimesIn
  <2>2. CASE ~Signal
    <3>1. dbus.at # "signal" /\ thread' = thread
      <4> USE <1>1, <2>2 DEF DbusType
      <4>1. CASE UnregisterAll \/ DeleteEnds \/ DeleteBegins
        BY <4>1 DEF UnregisterAll, DeleteEnds, DeleteBegins, Idle
      <4>2. CASE GetBegins \/ GetStops \/ UpdateOrUnregisterOne
        BY <4>2 DEF GetBegins, GetStops, UpdateOrUnregisterOne, Idle
      <4> QED BY <4>1, <4>2
    <3>2. dbus.input = NULL /\ dbus'.input = NULL
      BY <1>3, <3>1 DEF Structure, AddIn, Adding
    <3> QED BY <3>1, <3>2, <1>2, <1>4 DEF TimesIn
  <2> QED BY <2>1, <2>2
<1> QED BY <1>6, <1>7

\* A deletion takes away one request, the only one, the first of two or the second, and
\* changes no time.
Takes(d) ==
  /\ d \in Live /\ Live' = Live \ {d}
  /\ \A c \in Live' : cell'[c].time = cell[c].time
  /\ \/ Live = {d}
     \/ start = d /\ \A c \in Live' : cell'[c] = cell[c]
     \/ /\ start \in Live' /\ cell[start].next = d /\ cell'[start].next = cell[d].next
        /\ \A c \in Live' \ {start} : cell'[c] = cell[c]

LEMMA DeletionTakes ==
  ASSUME TypeOK, Structure, DeleteLast \/ (DeleteTurn /\ ~UNCHANGED list)
  PROVE  \E d \in Cells : Takes(d)
<1>1. cell \in [Cells -> CellType] /\ dbus \in DbusType /\ num \in Nat
  BY TypeParts
<1>2. dbus.at \in Deleting /\ thread.at \notin Iterating
  BY DEF DeleteLast, DeleteTurn, Deleting, Structure, Meet
<1>3. Ahead = 0 /\ Listed = Live
  BY <1>2 DEF Ahead, Listed, Unlinked, Deleting
<1>4. /\ num > 0 => start \in Live
      /\ start \in Live => (cell[start].next # NULL <=> num > 1)
      /\ start \in Live => start # NULL /\ cell[start].next # start
      /\ \A c \in Live : cell[c].next = NULL \/ cell[c].next \in Live
      /\ Live \subseteq Cells
  BY <1>1, <1>3, RequestFacts, SensorsAssumption DEF Structure
<1>5. CASE DeleteLast
  <2>1. num = 1 /\ cell' = Free(start) /\ start \in Live
    BY <1>4, <1>5 DEF DeleteLast
  <2>2. Live = {start}
    <3>1. IsFiniteSet(Live) /\ Cardinality(Live) = 1
      BY <2>1, <1>3, RequestFacts DEF Structure
    <3>2. \A c \in Live : c = start
      BY <2>1, <3>1, AtMostOne
    <3> QED BY <2>1, <3>2
  <2>3. cell'[start].pid = NULL /\ \A c \in Cells \ {start} : cell'[c] = cell[c]
    BY <2>1, <1>1, <1>4 DEF Free, Blank, CellType
  <2>4. Live' = Live \ {start}
    BY <2>1, <2>3 DEF Live
  <2> QED BY <2>1, <2>2, <2>4, <1>4 DEF Takes
<1>6. CASE DeleteTurn /\ ~UNCHANGED list
  <2> DEFINE d == dbus.temp
  <2>1. dbus.at = "for" /\ dbus.i < num /\ HasPid(d) /\ dbus.pid # NULL /\ Turn
    <3>1. dbus.at = "for"
      BY <1>6 DEF DeleteTurn
    <3>2. ~(dbus.i >= num) /\ HasPid(d)
      BY <1>6 DEF DeleteTurn
    <3>3. dbus.pid # NULL /\ Turn
      BY <3>1, SensorsAssumption DEF Structure, DeleteIn, Deleting
    <3> QED BY <3>1, <3>2, <3>3, <1>1 DEF DbusType
  <2>2. CASE dbus.i = 0 /\ d = start /\ num > 1 /\ Capable
    <3>1. dbus.prev = NULL /\ start \in Live
      BY <2>1, <2>2, <1>1, <1>4 DEF Capable
    <3>2. cell' = Free(start)
      BY <3>1, <2>1, <2>2, <1>6 DEF DeleteTurn
    <3>3. cell'[start].pid = NULL /\ \A c \in Cells \ {start} : cell'[c] = cell[c]
      BY <3>1, <3>2, <1>1, <1>4 DEF Free, Blank, CellType
    <3>4. Live' = Live \ {start}
      BY <3>1, <3>3 DEF Live
    <3> QED BY <3>1, <3>3, <3>4, <1>4 DEF Takes
  <2>3. CASE /\ dbus.i = 1 /\ dbus.prev = start /\ num > 1 /\ Capable
             /\ d = cell[start].next
    <3>1. d \in Live /\ d # start /\ start \in Live /\ start # NULL
      BY <2>3, <1>1, <1>4
    <3>2. cell' = [Free(d) EXCEPT ![start].next = cell[d].next]
      BY <2>1, <2>3, <3>1, <1>6 DEF DeleteTurn
    <3>3. /\ cell'[d].pid = NULL
          /\ cell'[start].next = cell[d].next
          /\ cell'[start].pid = cell[start].pid
          /\ cell'[start].time = cell[start].time
          /\ \A c \in Cells \ {start, d} : cell'[c] = cell[c]
      BY <3>1, <3>2, <1>1, <1>4 DEF Free, Blank, CellType
    <3>4. Live' = Live \ {d}
      BY <3>1, <3>3 DEF Live
    <3>5. \A c \in Live' : cell'[c].time = cell[c].time
      BY <3>3, <3>4, <1>4
    <3>6. \A c \in Live' \ {start} : cell'[c] = cell[c]
      BY <3>3, <3>4, <1>4
    <3> QED BY <3>1, <3>3, <3>4, <3>5, <3>6, <2>3, <1>4 DEF Takes
  <2>4. CASE dbus.temp \notin Live
    BY <2>1, <2>4, <1>1, <1>4 DEF Turn, HasPid, Live
  <2> QED BY <2>1, <2>2, <2>3, <2>4, <1>1 DEF Turn
<1> QED BY <1>5, <1>6

LEMMA DeletionOrder ==
  ASSUME TypeOK, Structure, ~Mix, Order, TypeOK', Structure', ~Mix', served' = served,
         DeleteLast \/ DeleteTurn
  PROVE  Order'
<1> USE DEF Order
<1>1. dbus.at \in Deleting /\ thread.at \notin Iterating /\ UNCHANGED <<thread, status>>
      /\ dbus'.at \in {"top", "for", "idle"}
  <2>1. dbus \in DbusType
    BY TypeParts
  <2>2. CASE DeleteLast
    BY <2>2 DEF DeleteLast, Deleting, Structure, Meet, NoWork
  <2>3. CASE DeleteTurn
    BY <2>1, <2>3 DEF DeleteTurn, Deleting, Structure, Meet, DbusType
  <2> QED BY <2>2, <2>3
<1>2. Listed = Live /\ Listed' = Live' /\ OutOfOrder = {} /\ OutOfOrder' = {}
  BY <1>1 DEF Listed, Unlinked, Deleting, OutOfOrder
<1>3. dbus.input = NULL /\ dbus'.input = NULL
  BY <1>1 DEF Structure, AddIn, Deleting, Adding
<1>4. /\ \A c \in Live : cell[c].next = NULL \/ cell[c].next \in Live
      /\ \A c \in Live : cell[c].time \in Int
      /\ Live \subseteq Cells
  BY <1>2, RequestFacts, TimesAreNumbers DEF Structure
<1>5. CASE UNCHANGED list
  BY <1>1, <1>2, <1>3, <1>5 DEF SortedIn, TimesIn, list, Live, Ord
<1>6. CASE ~UNCHANGED list
  <2>1. PICK d \in Cells : Takes(d)
    BY <1>6, DeletionTakes
  <2>2. Live' = Live \ {d} /\ \A c \in Live' : cell'[c].time = cell[c].time
    BY <2>1 DEF Takes
  <2>3. ASSUME NEW c \in Live'
        PROVE  Ord(c)'
    <3>1. \A e \in Live : Ord(e)
      BY <1>2 DEF SortedIn
    <3>2. cell'[c].next = NULL \/ cell'[c].next \in Live'
      BY <1>2, ListFacts DEF Structure, ListShape
    <3>3. CASE cell'[c] = cell[c]
      BY <2>2, <3>1, <3>2, <3>3 DEF Ord
    <3>4. CASE c = start /\ cell[start].next = d /\ cell'[start].next = cell[d].next
      <4>1. d \in Live /\ d # NULL
        BY <2>1, SensorsAssumption DEF Takes
      <4>2. cell[c].time <= cell[d].time
        BY <3>1, <3>4, <4>1, <2>2 DEF Ord
      <4>3. cell[d].next # NULL => cell[d].time <= cell[cell[d].next].time
        BY <3>1, <4>1 DEF Ord
      <4>4. cell'[c].next # NULL => cell'[c].next \in Live /\ cell'[c].next \in Live'
        BY <3>2, <2>2
      <4>5. cell'[c].next # NULL => cell'[c].time <= cell'[cell'[c].next].time
        BY <4>1, <4>2, <4>3, <4>4, <3>4, <2>2, <1>4
      <4> QED BY <4>5 DEF Ord
    <3> QED BY <2>1, <2>2, <3>3, <3>4 DEF Takes
  <2>4. SortedIn'
    BY <1>1, <1>2, <2>3 DEF SortedIn
  <2>5. TimesIn'
    BY <1>1, <1>3, <2>2, <1>4 DEF TimesIn
  <2> QED BY <2>4, <2>5
<1> QED BY <1>5, <1>6
-----------------------------------------------------------------------------
(***************************************************************************)
(* The invariant.                                                          *)
(***************************************************************************)
LEMMA StructureStep ==
  ASSUME TypeOK, Structure, Thread \/ Dbus \/ Tick, ~Meet'
  PROVE  Structure'
<1>1. CASE Thread
  <2>1. (ThreadStep \/ Spurious) /\ dbus' = dbus
    BY <1>1 DEF Thread, ThreadGoesOn
  <2>2. CASE Check \/ Stop \/ Start \/ Send \/ Scan \/ Loop \/ First \/ SleepTime \/ Wait
               \/ TimedOut \/ Spurious
    <3>1. UNCHANGED <<list, dbus>>
      BY <2>1, <2>2 DEF Check, Stop, Start, Send, Scan, Loop, First, SleepTime, Wait,
         TimedOut, Spurious
    <3> QED BY <2>2, <3>1, LookingOn
  <2> QED BY <2>1, <2>2, SetTimeStructure, MoveStructure, RelinkStructure DEF ThreadStep
<1>2. CASE Dbus
  BY <1>2, RegisterStructure, AddLinkStructure, AddHeadStructure, AddCountStructure,
     MessageStructure, DeleteLastStructure, DeleteTurnStructure DEF Dbus, DbusGoesOn
<1>3. CASE Tick
  BY <1>3, TickStructure
<1> QED BY <1>1, <1>2, <1>3

LEMMA OrderStep ==
  ASSUME TypeOK, Structure, ~Mix, Order, Thread \/ Dbus \/ Tick, TypeOK', Structure', ~Mix'
  PROVE  Order'
<1>1. CASE Thread
  <2>1. (ThreadStep \/ Spurious) /\ dbus' = dbus
    BY <1>1 DEF Thread, ThreadGoesOn
  <2>2. CASE Check \/ Stop \/ Start \/ Send \/ Scan \/ Loop \/ First \/ SleepTime \/ Wait
               \/ TimedOut \/ Spurious
    <3>1. UNCHANGED <<list, dbus>>
      BY <2>1, <2>2 DEF Check, Stop, Start, Send, Scan, Loop, First, SleepTime, Wait,
         TimedOut, Spurious
    <3> QED BY <2>2, <3>1, LookingOnOrder
  <2> QED BY <2>1, <2>2, SetTimeOrder, MoveOrder, RelinkOrder DEF ThreadStep
<1>2. CASE Dbus
  <2>1. served' = served
    BY <1>2 DEF Dbus, DbusGoesOn
  <2> QED BY <1>2, <2>1, RegisterOrder, AddOrder, MessageOrder, DeletionOrder
          DEF Dbus, DbusGoesOn
<1>3. CASE Tick
  BY <1>3, TickOrder
<1> QED BY <1>1, <1>2, <1>3

LEMMA SensorStep ==
  ASSUME TypeOK, ~Mix, At("send") => status = "RUNNING", Thread \/ Dbus \/ Tick
  PROVE  At("send")' => status' = "RUNNING"
<1>1. thread \in ThreadType /\ dbus \in DbusType
  BY TypeParts
<1>2. CASE Thread
  <2>1. CASE Check \/ Stop \/ Start \/ Send \/ SetTime \/ Scan \/ Loop
    BY <1>1, <2>1 DEF Check, Stop, Start, Send, SetTime, Scan, Loop, ThreadType
  <2>2. CASE First \/ Move \/ Relink \/ SleepTime \/ Wait \/ TimedOut \/ Spurious
    BY <1>1, <2>2 DEF First, Move, Relink, SleepTime, Wait, TimedOut, Spurious, ThreadType
  <2> QED BY <1>2, <2>1, <2>2 DEF Thread, ThreadGoesOn, ThreadStep
<1>3. CASE Dbus
  <2>1. CASE Register \/ AddLink \/ AddHead \/ AddCount
    BY <2>1 DEF Register, AddLink, AddHead, AddCount
  <2>2. CASE Signal
    BY <1>1, <2>2 DEF Signal, ThreadType
  <2>3. CASE UnregisterAll \/ DeleteLast \/ DeleteEnds \/ DeleteBegins \/ DeleteTurn
    BY <2>3 DEF UnregisterAll, DeleteLast, DeleteEnds, DeleteBegins, DeleteTurn
  <2>4. CASE GetBegins \/ UpdateOrUnregisterOne
    BY <2>4 DEF GetBegins, UpdateOrUnregisterOne
  <2>5. CASE GetStops
    BY <2>5 DEF GetStops, Mix
  <2> QED BY <1>3, <2>1, <2>2, <2>3, <2>4, <2>5 DEF Dbus, DbusGoesOn
<1>4. CASE Tick
  BY <1>1, <1>4 DEF Tick, ThreadType
<1> QED BY <1>2, <1>3, <1>4

LEMMA InitInvariant == Init => IInv
<1> SUFFICES ASSUME Init PROVE IInv
  OBVIOUS
<1>1. Cardinality(Cells) \in Nat /\ MaxRegisters \in Nat /\ NULL \in Pointer /\ 0 \in Times
  BY FS_CardinalityType, SensorsAssumption, TimeFacts DEF Pointer
<1>2. TypeOK
  <2>1. Blank \in CellType
    BY <1>1 DEF Blank, CellType
  <2>2. cell \in [Cells -> CellType]
    BY <2>1 DEF Init
  <2>3. thread \in ThreadType
    BY <1>1, PlacesFit DEF Init, ThreadType
  <2>4. dbus \in DbusType
    BY <1>1, PlacesFit DEF Init, DbusType, NoWork
  <2>5. /\ start \in Pointer /\ num \in 0 .. Cardinality(Cells)
        /\ status \in {"STOP", "RUNNING"} /\ served \in Pointer
        /\ registers \in 0 .. MaxRegisters
    BY <1>1 DEF Init
  <2>6. missed \in BOOLEAN /\ mixed \in BOOLEAN /\ torn \in BOOLEAN
    BY DEF Init
  <2> QED BY <2>2, <2>3, <2>4, <2>5, <2>6, TypeParts
<1>3. Live = {} /\ Listed = {} /\ Ahead = 0
  BY DEF Init, Live, Listed, Blank, Ahead, NoWork
<1>4. ListShape
  <2> DEFINE q == [i \in 0 .. 0 - 1 |-> NULL]
  <2>1. 0 .. 0 - 1 = {}
    OBVIOUS
  <2>2. q \in [0 .. 0 - 1 -> Cells]
    BY <2>1
  <2>3. IsChain(NULL, cell, 0, q) /\ Members(0, q) = {}
    BY <2>1, <2>2 DEF IsChain, Members
  <2> HIDE DEF q
  <2>4. IsList(NULL, cell, {}, 0)
    <3>1. \E p \in [0 .. 0 - 1 -> Cells] : IsChain(NULL, cell, 0, p) /\ {} = Members(0, p)
      BY <2>2, <2>3, Zenon
    <3>2. 0 \in 0 .. Cardinality(Cells)
      BY <1>1
    <3> QED BY <3>1, <3>2, Zenon DEF IsList
  <2>5. start = NULL /\ num - Ahead = 0
    BY <1>3 DEF Init
  <2> QED BY <1>3, <2>4, <2>5 DEF ListShape
<1>5. Structure
  BY <1>3, <1>4 DEF Init, Structure, ThreadIn, AddIn, DeleteIn, Meet, NoWork, Adding, Deleting
<1>6. Order /\ ~Mix /\ SensorIsOn
  BY <1>3 DEF Init, Order, Mix, SortedIn, TimesIn, OutOfOrder, NoWork, Adding, SensorIsOn
<1> QED BY <1>2, <1>5, <1>6 DEF IInv

LEMMA NextInvariant == IInv /\ [Next]_vars => IInv'
<1> SUFFICES ASSUME IInv, [Next]_vars PROVE IInv'
  OBVIOUS
<1>1. CASE Next
  <2>1. /\ ~torn /\ (Thread \/ Dbus \/ Tick)
        /\ mixed' = (mixed \/ Mix') /\ torn' = (torn \/ Meet')
    BY <1>1 DEF Next, Step
  <2>2. TypeOK /\ Structure
    BY <2>1 DEF IInv
  <2>3. TypeOK'
    BY <1>1, <2>2, TypeStep
  <2>4. ~torn' => Structure'
    BY <2>1, <2>2, StructureStep
  <2>5. ~mixed' => ~Mix' /\ SensorIsOn'
    BY <2>1, <2>2, SensorStep DEF IInv, SensorIsOn
  <2>6. ~torn' /\ ~mixed' => Order'
    BY <2>1, <2>2, <2>3, <2>4, <2>5, OrderStep DEF IInv
  <2> QED BY <2>3, <2>4, <2>5, <2>6 DEF IInv
<1>2. CASE UNCHANGED vars
  <2>1. UNCHANGED <<start, num, cell, status, thread, dbus, served, registers, missed, mixed,
                    torn>>
    BY <1>2 DEF vars, list, history
  <2>2. TypeOK' <=> TypeOK
    BY <2>1 DEF TypeOK
  <2>3. Live' = Live /\ Listed' = Listed /\ Ahead' = Ahead /\ OutOfOrder' = OutOfOrder
    BY <2>1 DEF Live, Listed, Unlinked, Ahead, OutOfOrder
  <2>4. Structure' <=> Structure
    BY <2>1, <2>3 DEF Structure, ListShape, ThreadIn, AddIn, DeleteIn, Capable, Turn, OneOther,
       HasPid, Unlinked, Meet
  <2>5. (Order' <=> Order) /\ (Mix' <=> Mix) /\ (SensorIsOn' <=> SensorIsOn)
    BY <2>1, <2>3 DEF Order, Mix, SortedIn, TimesIn, Ord, SensorIsOn
  <2> QED BY <2>1, <2>2, <2>4, <2>5 DEF IInv
<1> QED BY <1>1, <1>2

THEOREM Inductive == Spec => []IInv
BY InitInvariant, NextInvariant, PTL DEF Spec

\* The requests, the places and variables of both threads keep their types: the count is
\* never negative nor more than there is memory (TypeOK).
THEOREM SensorsAreTyped == Spec => []TypeOK
<1>1. IInv => TypeOK
  BY DEF IInv
<1> QED BY <1>1, Inductive, PTL

\* As long as the threads do not meet where the list does not bear it: insertions in the
\* middle of scheduleRequest's work and deletions while the thread sleeps lose no request
\* and keep no freed one, and num_of_request is the length of the list (ListIsWhole).
THEOREM ListStaysWhole == Spec => []ListIsWhole
<1>1. IInv => ListIsWhole
  <2> SUFFICES ASSUME IInv, ~torn, Idle, ~At("relink")
               PROVE  /\ Live = {Walk[i] : i \in 0 .. num - 1}
                      /\ num = Cardinality(Live)
                      /\ Walk[num] = NULL
    BY DEF ListIsWhole
  <2>1. TypeOK /\ Structure
    BY DEF IInv
  <2>2. Listed = Live /\ num - Ahead = num
    BY <2>1, RequestFacts DEF Listed, Unlinked, Ahead, Idle, Structure
  <2>3. IsList(start, cell, Live, num)
    BY <2>1, <2>2 DEF Structure, ListShape
  <2> QED BY <2>3, WalkAlong, ListLength
<1> QED BY <1>1, Inductive, PTL

\* Neither thread follows a null pointer, and sensorThread none to a freed request
\* (PointersAreGood).
THEOREM PointersStayGood == Spec => []PointersAreGood
<1>1. IInv => PointersAreGood
  <2> SUFFICES ASSUME IInv, ~torn
               PROVE  /\ Touched \subseteq Live
                      /\ dbus.at = "top" /\ num = 1 => start \in Live
                      /\ dbus.at = "for" /\ dbus.i < num => dbus.temp # NULL
    BY DEF PointersAreGood
  <2>1. TypeOK /\ Structure
    BY DEF IInv
  <2>2. /\ Listed \subseteq Live /\ (start = NULL \/ start \in Listed)
        /\ \A c \in Listed : cell[c].next = NULL \/ cell[c].next \in Listed
        /\ start = NULL <=> num = Ahead
        /\ start # NULL => (cell[start].next # NULL <=> num - Ahead > 1)
        /\ Live \subseteq Cells /\ num \in Nat
    BY <2>1, RequestFacts DEF Structure
  <2>3. Touched \subseteq Live
    BY <2>1, <2>2 DEF Touched, Structure, ThreadIn
  <2>4. dbus.at \in Deleting => Ahead = 0
    BY <2>1 DEF Structure, Meet, Ahead, Deleting
  <2>5. dbus.at = "top" /\ num = 1 => start \in Live
    BY <2>2, <2>4 DEF Deleting
  <2>6. dbus.at = "for" /\ dbus.i < num => dbus.temp # NULL
    <3>1. dbus.at = "for" => Turn
      BY <2>1 DEF Structure, DeleteIn
    <3> QED BY <2>2, <2>4, <3>1, SensorsAssumption DEF Deleting, Turn
  <2> QED BY <2>3, <2>5, <2>6
<1> QED BY <1>1, Inductive, PTL

\* As long as no message is handled in the middle of the thread's work, the request that
\* is served has the earliest next run time of all, and the thread sleeps no longer than
\* until the earliest one (EarliestFirst).
THEOREM EarliestIsFirst == Spec => []EarliestFirst
<1>1. IInv => EarliestFirst
  <2> SUFFICES ASSUME IInv, ~torn, ~mixed, NEW c \in Live \ {dbus.input}
               PROVE  /\ served # NULL => cell[served].time <= cell[c].time
                      /\ thread.at \in {"towait", "sleeping"} => thread.until <= cell[c].time
    BY DEF EarliestFirst
  <2>1. TypeOK /\ Structure /\ ~Mix /\ Order
    BY DEF IInv
  <2>2. ASSUME served # NULL
        PROVE  cell[served].time <= cell[c].time
    <3>1. At("time") /\ served = start
      BY <2>1, <2>2 DEF Order, TimesIn
    <3>2. dbus.at # "count" /\ Listed = Live
      BY <2>1, <3>1, Alone DEF Order
    <3>3. \A d \in Listed : Ord(d)
      BY <2>1, <3>1, <3>2 DEF Order, SortedIn, OutOfOrder
    <3>4. start # NULL
      BY <2>1, <3>1 DEF Structure, ThreadIn
    <3> QED BY <2>1, <3>1, <3>2, <3>3, <3>4, FirstIsEarliest DEF Structure
  <2> QED BY <2>1, <2>2 DEF Order, TimesIn
<1> QED BY <1>1, Inductive, PTL

\* A value is read from the driver while it runs, also after the driver was stopped for
\* want of requests, unless Get started and stopped it in between (SensorIsOn).
THEOREM SensorStaysOn == Spec => []SensorIsOn
<1>1. IInv => SensorIsOn
  BY DEF IInv, SensorIsOn
<1> QED BY <1>1, Inductive, PTL

\* When the deletion of an app's requests is over, none of them is left (DeletesOwn).
THEOREM OwnAreDeleted == Spec => DeletesOwn
<1>1. ASSUME IInv, [Next]_vars
      PROVE  [dbus.at = "top" /\ dbus'.at = "idle" /\ ~torn' =>
                \A c \in Live' : cell[c].pid # dbus.pid]_vars
  <2> SUFFICES ASSUME Next, dbus.at = "top", dbus'.at = "idle", NEW c \in Live'
               PROVE  cell[c].pid # dbus.pid
    BY <1>1
  <2>1. ~torn /\ (Thread \/ Dbus \/ Tick)
    BY DEF Next, Step
  <2>2. TypeOK /\ Structure /\ dbus \in DbusType
    BY <1>1, <2>1, TypeParts DEF IInv
  <2>3. dbus' # dbus
    OBVIOUS
  <2>4. DeleteLast \/ DeleteEnds
    <3>1. Dbus
      BY <2>1, <2>3 DEF Thread, ThreadGoesOn, Tick
    <3> QED BY <3>1, <2>2 DEF Dbus, DbusGoesOn, Register, AddLink, AddHead, AddCount, Signal,
            DeleteBegins, DeleteTurn, UnregisterAll, GetBegins, GetStops,
            UpdateOrUnregisterOne, Idle, DbusType
  <2>5. Ahead = 0 /\ Listed = Live
    BY <2>2 DEF Structure, Meet, Ahead, Deleting, Listed, Unlinked
  <2>6. IsFiniteSet(Live) /\ Cardinality(Live) = num /\ (start = NULL \/ start \in Live)
        /\ (start = NULL <=> num = 0) /\ (start = NULL <=> Live = {})
    BY <2>2, <2>5, RequestFacts DEF Structure
  <2>7. CASE DeleteLast
    <3>1. PICK d \in Cells : Takes(d)
      BY <2>2, <2>7, DeletionTakes
    <3>2. num = 1
      BY <2>7 DEF DeleteLast
    <3> QED BY <2>6, <3>1, <3>2, AtMostOne DEF Takes
  <2>8. CASE DeleteEnds
    <3>1. Live' = Live
      BY <2>8 DEF DeleteEnds, list, Live
    <3>2. num = 1 /\ ~HasPid(start)
      BY <2>6, <2>8, <3>1 DEF DeleteEnds
    <3>3. c = start
      BY <2>6, <3>1, <3>2, AtMostOne
    <3> QED BY <3>2, <3>3 DEF HasPid
  <2> QED BY <2>4, <2>7, <2>8
<1> QED BY <1>1, Inductive, PTL DEF Spec, DeletesOwn
=============================================================================
