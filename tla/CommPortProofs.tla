--------------------------- MODULE CommPortProofs ---------------------------
(***************************************************************************)
(* Proofs about CommPort.  The packets of a connection are numbered by     *)
(* positions: which message, which part of it, and how many units of the   *)
(* part come before.  What is on its way is what stands between the        *)
(* position that the loop has reached and the one that sendRawMessage has. *)
(***************************************************************************)
EXTENDS CommPort, SequenceTheorems, TLAPS

Position == [n : Nat \ {0}, part : Expected, bytes : Nat]
Within(n, p, b) == [n |-> n, part |-> p, bytes |-> b]
Begin(n) == Within(n, "messageMetadata", 0)

\* The packet at a position, if s are the messages of the connection, and the position
\* after it.
PacketAt(s, pos) ==
  CASE pos.part = "messageMetadata" -> Metadata("message", s[pos.n])
    [] pos.part = "messageData" ->
         Data("data", "message", s[pos.n], Text(s[pos.n]), pos.bytes)
    [] pos.part = "fileMetadata" -> Metadata("file", s[pos.n])
    [] pos.part = "fileData" -> Data("file", "file", s[pos.n], File(s[pos.n]), pos.bytes)

After(s, pos) ==
  LET m == s[pos.n]
      next == pos.bytes + MaxPayload
  IN CASE pos.part = "messageMetadata" -> Within(pos.n, "messageData", 0)
       [] pos.part = "messageData" ->
            IF next < TextSize[m] THEN Within(pos.n, "messageData", next)
            ELSE IF Attachment[m] = "file" THEN Within(pos.n, "fileMetadata", 0)
            ELSE Begin(pos.n + 1)
       [] pos.part = "fileMetadata" ->
            IF FileSize[m] > 0 THEN Within(pos.n, "fileData", 0) ELSE Begin(pos.n + 1)
       [] pos.part = "fileData" ->
            IF next < FileSize[m] THEN Within(pos.n, "fileData", next) ELSE Begin(pos.n + 1)

\* A position that the messages s have; the last one is where the next message begins.
Valid(s, pos) ==
  /\ pos \in Position
  /\ pos.part = "messageMetadata" => pos.bytes = 0 /\ pos.n <= Len(s) + 1
  /\ pos.part = "messageData" => pos.n <= Len(s) /\ pos.bytes < TextSize[s[pos.n]]
  /\ pos.part = "fileMetadata" =>
       pos.n <= Len(s) /\ pos.bytes = 0 /\ Attachment[s[pos.n]] = "file"
  /\ pos.part = "fileData" =>
       pos.n <= Len(s) /\ pos.bytes < FileSize[s[pos.n]] /\ Attachment[s[pos.n]] = "file"

\* Where sendRawMessage is.
SenderAt == IF sending = NoMessage THEN Begin(Len(sent) + 1)
            ELSE Within(Len(sent), part, sentBytes)
SenderOK ==
  /\ sending # NoMessage => Len(sent) > 0 /\ sending = sent[Len(sent)]
  /\ Valid(sent, SenderAt)

\* Without Resends a file is sent once, and begun in an empty place.
FilesOnce ==
  ~Resends => \A i, j \in 1..Len(sent) :
                i # j /\ Attachment[sent[i]] # "none" => sent[i] # sent[j]
Clean(pos) ==
  ~Resends => \A i \in 1..Len(sent) :
                 /\ Attachment[sent[i]] # "none"
                 /\ i > pos.n \/ (i = pos.n /\ pos.part # "fileData")
                 => disk[sent[i]] = <<>>

GotOK ==
  /\ Len(got) <= Len(sent)
  /\ ~Resends => \A i \in 1..Len(got) : got[i] = Whole(sent[i])

\* What listeningLoop has at a position, if all messages before it have an end.
InStep(pos) ==
  LET m == sent[pos.n]
  IN /\ Len(got) = pos.n - 1
     /\ expected = pos.part
     /\ pos.part = "messageMetadata" => metadata = NoMessage /\ loaded = <<>>
     /\ pos.part # "messageMetadata" => metadata = m
     /\ pos.part = "messageData" => loaded = Units(m, pos.bytes)
     /\ pos.part \in {"fileMetadata", "fileData"} => loaded = Text(m)
     /\ pos.part = "fileData" =>
          path = m /\ (~Resends => disk[m] = Units(m, pos.bytes))

\* What it has after a message without an end: it waits for more of it.
Misled(pos) ==
  /\ pos.part = "messageMetadata"
  /\ expected \in {"fileMetadata", "fileData"}
  /\ \E i \in 1..Len(sent) : ~Ends(sent[i])

\* The loop may still take a packet.
Receiving ==
  /\ loop = "read" \/ (loop = "head" /\ on)
  /\ wire # <<>> \/ link = "up"

\* The trail: the positions of the packets on their way, and the one after them.
IsTrail(s, w, trail) ==
  /\ trail \in [1..(Len(w) + 1) -> Position]
  /\ \A i \in 1..(Len(w) + 1) : Valid(s, trail[i])
  /\ \A i \in 1..Len(w) : /\ trail[i].n <= Len(s)
                          /\ w[i] = PacketAt(s, trail[i])
                          /\ trail[i + 1] = After(s, trail[i])
Tracked ==
  Receiving => \E trail \in [1..(Len(wire) + 1) -> Position] :
                 /\ IsTrail(sent, wire, trail)
                 /\ link = "up" => trail[Len(wire) + 1] = SenderAt
                 /\ InStep(trail[1]) \/ Misled(trail[1])
                 /\ Clean(trail[1])

\* Why the loop stops: it was told to, or it was misled, or the connection is lost.
StopsForReason ==
  /\ link = "closed" => loop = "closed"
  /\ loop = "closed" => ~on
  /\ link \in {"up", "closed"} /\ ~on /\ ~stopped => \E i \in 1..Len(sent) : ~Ends(sent[i])

IInv == TypeOK /\ SenderOK /\ FilesOnce /\ GotOK /\ Tracked /\ StopsForReason /\ BufferHolds

-----------------------------------------------------------------------------
(* Units and packets.                                                      *)

LEMMA UnitsAreUnits ==
  ASSUME NEW m \in Message, NEW k \in Nat
  PROVE  /\ Units(m, k) \in Seq(Unit) /\ Len(Units(m, k)) = k
         /\ \A i \in 1..k : Units(m, k)[i] = <<m, i>>
<1>1. \A i \in 1..k : <<m, i>> \in Unit
  BY DEF Unit
<1> QED
  BY <1>1 DEF Units

LEMMA SizesOK ==
  ASSUME NEW m \in Message
  PROVE  /\ TextSize[m] \in Nat \ {0} /\ FileSize[m] \in Nat
         /\ Attachment[m] \in {"none", "file", "refused"}
         /\ Text(m) \in Seq(Unit) /\ File(m) \in Seq(Unit)
         /\ Len(Text(m)) = TextSize[m]
         /\ Attachment[m] # "none" => File(m) = Units(m, FileSize[m]) /\ Len(File(m)) = FileSize[m]
         /\ Attachment[m] = "none" => File(m) = <<>>
<1>1. TextSize[m] \in Nat \ {0} /\ FileSize[m] \in Nat
      /\ Attachment[m] \in {"none", "file", "refused"}
  BY CommPortAssumption
<1> QED
  BY <1>1, UnitsAreUnits DEF Text, File

\* How many of k units are sent once the packet after the first b of them is.
Through(b, k) == IF b + MaxPayload < k THEN b + MaxPayload ELSE k

\* A packet has the units that follow the first b, and says whether it is the last.
LEMMA DataIs ==
  ASSUME NEW m \in Message, NEW k \in Nat, NEW b \in Nat, b < k,
         NEW flag, NEW kind, NEW p, p = Data(flag, kind, m, Units(m, k), b),
         NEW next, next = Through(b, k)
  PROVE  /\ p.flag = flag /\ p.kind = kind /\ p.msg = m
         /\ p.end \in BOOLEAN /\ (p.end <=> b + MaxPayload >= k)
         /\ p.units \in Seq(Unit) /\ Len(p.units) = next - b
         /\ Units(m, b) \o p.units = Units(m, next)
<1>1. MaxPayload \in Nat \ {0}
  BY CommPortAssumption
<1>2. Units(m, k) \in Seq(Unit) /\ Len(Units(m, k)) = k
  BY UnitsAreUnits
<1>3. next \in Nat /\ b < next /\ next <= k
  BY <1>1 DEF Through
<1>4. p.units = SubSeq(Units(m, k), b + 1, next)
  BY <1>1, <1>2 DEF Data, Through
<1>5. p.flag = flag /\ p.kind = kind /\ p.msg = m /\ (p.end <=> b + MaxPayload >= k)
      /\ p.end \in BOOLEAN
  <2>1. p.flag = flag /\ p.kind = kind /\ p.msg = m /\ p.end = (k - b <= MaxPayload)
    BY <1>2 DEF Data
  <2>2. k - b <= MaxPayload <=> b + MaxPayload >= k
    BY <1>1
  <2>3. CASE k - b <= MaxPayload
    BY <2>1, <2>2, <2>3
  <2>4. CASE ~(k - b <= MaxPayload)
    <3>1. (k - b <= MaxPayload) = FALSE
      BY <2>4
    <3>2. p.end = FALSE
      BY <2>1, <3>1
    <3> QED
      BY <2>1, <2>2, <2>4, <3>2
  <2> QED
    BY <2>3, <2>4
<1>6. /\ SubSeq(Units(m, k), b + 1, next) \in Seq(Unit)
      /\ Len(SubSeq(Units(m, k), b + 1, next)) = next - b
      /\ \A i \in 1..(next - b) : SubSeq(Units(m, k), b + 1, next)[i] = <<m, b + i>>
  <2>1. ASSUME NEW i \in (b + 1)..next
        PROVE  Units(m, k)[i] = <<m, i>> /\ <<m, i>> \in Unit
    <3>1. i \in 1..k /\ i \in Nat
      BY <1>3
    <3> QED
      BY <3>1, UnitsAreUnits DEF Unit
  <2>2. b + 1 \in Int /\ next \in Int /\ b + 1 <= next /\ next - (b + 1) + 1 = next - b
    BY <1>3
  <2>3. \A i \in (b + 1)..next : Units(m, k)[i] \in Unit
    BY <2>1
  <2>4. /\ SubSeq(Units(m, k), b + 1, next) \in Seq(Unit)
        /\ Len(SubSeq(Units(m, k), b + 1, next)) = next - b
        /\ \A i \in 1..(next - b) :
              SubSeq(Units(m, k), b + 1, next)[i] = Units(m, k)[b + 1 + i - 1]
    BY <2>2, <2>3, SubSeqProperties
  <2>5. ASSUME NEW i \in 1..(next - b)
        PROVE  SubSeq(Units(m, k), b + 1, next)[i] = <<m, b + i>>
    <3>1. b + 1 + i - 1 = b + i /\ b + i \in (b + 1)..next
      BY <1>3
    <3> QED
      BY <3>1, <2>1, <2>4
  <2> QED
    BY <2>4, <2>5
<1>7. Units(m, b) \o p.units = Units(m, next)
  <2>1. Units(m, b) \in Seq(Unit) /\ Len(Units(m, b)) = b /\ p.units \in Seq(Unit)
        /\ Len(p.units) = next - b
    BY <1>4, <1>6, UnitsAreUnits
  <2>2. /\ Units(m, b) \o p.units \in Seq(Unit) /\ Len(Units(m, b) \o p.units) = next
        /\ \A i \in 1..next : (Units(m, b) \o p.units)[i]
                                = IF i <= b THEN Units(m, b)[i] ELSE p.units[i - b]
    <3> DEFINE t == p.units
               s == Units(m, b)
    <3>1. s \in Seq(Unit) /\ t \in Seq(Unit) /\ Len(s) = b /\ Len(t) = next - b
      BY <2>1
    <3> HIDE DEF s, t
    <3>2. Len(s) + Len(t) = next
      BY <3>1, <1>3
    <3>3. /\ s \o t \in Seq(Unit) /\ Len(s \o t) = Len(s) + Len(t)
          /\ \A i \in 1..(Len(s) + Len(t)) : (s \o t)[i] = IF i <= Len(s) THEN s[i]
                                                              ELSE t[i - Len(s)]
      BY <3>1, ConcatProperties
    <3>4. /\ s \o t \in Seq(Unit) /\ Len(s \o t) = next
          /\ \A i \in 1..next : (s \o t)[i] = IF i <= b THEN s[i] ELSE t[i - b]
      BY <3>1, <3>2, <3>3
    <3> QED
      BY <3>4 DEF s, t
  <2>3. Units(m, next) \in Seq(Unit) /\ Len(Units(m, next)) = next
        /\ \A i \in 1..next : Units(m, next)[i] = <<m, i>>
    BY <1>3, UnitsAreUnits
  <2>4. ASSUME NEW i \in 1..next PROVE (Units(m, b) \o p.units)[i] = <<m, i>>
    <3>1. CASE i <= b
      <4>1. i \in 1..b
        BY <3>1
      <4> QED
        BY <3>1, <4>1, <2>2, UnitsAreUnits
    <3>2. CASE i > b
      <4>1. i - b \in 1..(next - b) /\ b + (i - b) = i
        BY <3>2, <1>3
      <4>2. ~(i <= b)
        BY <3>2, <1>3
      <4>3. (Units(m, b) \o p.units)[i] = p.units[i - b]
        BY <4>2, <2>2
      <4>4. p.units[i - b] = <<m, b + (i - b)>>
        BY <4>1, <1>4, <1>6
      <4> QED
        BY <4>1, <4>3, <4>4
    <3>3. i <= b \/ i > b
      BY <1>3
    <3> QED
      BY <3>1, <3>2, <3>3
  <2> QED
    BY <2>2, <2>3, <2>4, SeqEqual
<1> QED
  BY <1>4, <1>5, <1>6, <1>7

LEMMA DataJoins ==
  ASSUME NEW m \in Message, NEW k \in Nat, NEW b \in Nat, b < k, NEW flag, NEW kind
  PROVE  Units(m, b) \o Data(flag, kind, m, Units(m, k), b).units = Units(m, Through(b, k))
  BY DataIs

-----------------------------------------------------------------------------
(* Positions and trails.                                                   *)

LEMMA PositionsMade ==
  ASSUME NEW n \in Nat \ {0}, NEW p \in Expected, NEW b \in Nat
  PROVE  /\ Within(n, p, b) \in Position /\ Within(n, p, b).n = n
         /\ Within(n, p, b).part = p /\ Within(n, p, b).bytes = b
         /\ Begin(n) \in Position /\ Begin(n).n = n
         /\ Begin(n).part = "messageMetadata" /\ Begin(n).bytes = 0
  BY DEF Within, Begin, Position, Expected

LEMMA PacketIs ==
  ASSUME NEW s \in Seq(Message), NEW pos, Valid(s, pos), pos.n <= Len(s)
  PROVE  /\ s[pos.n] \in Message
         /\ PacketAt(s, pos) \in Packet
         /\ pos.part = "messageMetadata" => PacketAt(s, pos) = Metadata("message", s[pos.n])
         /\ pos.part = "messageData" => PacketAt(s, pos)
              = Data("data", "message", s[pos.n], Units(s[pos.n], TextSize[s[pos.n]]), pos.bytes)
         /\ pos.part = "fileMetadata" => PacketAt(s, pos) = Metadata("file", s[pos.n])
         /\ pos.part = "fileData" => PacketAt(s, pos)
              = Data("file", "file", s[pos.n], Units(s[pos.n], FileSize[s[pos.n]]), pos.bytes)
<1> DEFINE m == s[pos.n]
<1>1. pos \in Position /\ pos.n \in 1..Len(s) /\ pos.part \in Expected /\ pos.bytes \in Nat
  BY DEF Valid, Position
<1>2. m \in Message
  BY <1>1
<1> HIDE DEF m
<1>3. TextSize[m] \in Nat /\ FileSize[m] \in Nat
  BY <1>2, SizesOK
<1>4. <<>> \in Seq(Unit)
  OBVIOUS
<1>5. CASE pos.part = "messageMetadata"
  <2>1. PacketAt(s, pos) = Metadata("message", m)
    BY <1>5 DEF PacketAt, m
  <2>2. Metadata("message", m) \in Packet
    BY <1>2, <1>4 DEF Metadata, Packet
  <2> QED
    BY <1>2, <1>5, <2>1, <2>2 DEF m
<1>6. CASE pos.part = "messageData"
  <2> DEFINE p == Data("data", "message", m, Units(m, TextSize[m]), pos.bytes)
  <2>1. PacketAt(s, pos) = p
    BY <1>6 DEF PacketAt, m, Text
  <2>2. pos.bytes < TextSize[m]
    BY <1>6 DEF Valid, m
  <2>3. p.end \in BOOLEAN /\ p.units \in Seq(Unit)
    BY <1>1, <1>2, <1>3, <2>2, DataIs
  <2>4. p \in Packet
    BY <1>2, <2>3 DEF Data, Packet
  <2> QED
    BY <1>2, <1>6, <2>1, <2>4 DEF m
<1>7. CASE pos.part = "fileMetadata"
  <2>1. PacketAt(s, pos) = Metadata("file", m)
    BY <1>7 DEF PacketAt, m
  <2>2. Metadata("file", m) \in Packet
    BY <1>2, <1>4 DEF Metadata, Packet
  <2> QED
    BY <1>2, <1>7, <2>1, <2>2 DEF m
<1>8. CASE pos.part = "fileData"
  <2> DEFINE p == Data("file", "file", m, Units(m, FileSize[m]), pos.bytes)
  <2>0. pos.bytes < FileSize[m] /\ Attachment[m] = "file"
    BY <1>8 DEF Valid, m
  <2>1. PacketAt(s, pos) = p
    BY <1>8, <2>0 DEF PacketAt, m, File
  <2>3. p.end \in BOOLEAN /\ p.units \in Seq(Unit)
    BY <1>1, <1>2, <1>3, <2>0, DataIs
  <2>4. p \in Packet
    BY <1>2, <2>3 DEF Data, Packet
  <2> QED
    BY <1>2, <1>8, <2>1, <2>4 DEF m
<1> QED
  BY <1>1, <1>5, <1>6, <1>7, <1>8 DEF Expected

LEMMA AfterIsValid ==
  ASSUME NEW s \in Seq(Message), NEW pos, Valid(s, pos), pos.n <= Len(s)
  PROVE  Valid(s, After(s, pos))
<1> DEFINE m == s[pos.n]
           next == pos.bytes + MaxPayload
<1>1. /\ pos.n \in Nat \ {0} /\ pos.n \in 1..Len(s) /\ pos.part \in Expected
      /\ pos.bytes \in Nat /\ pos.n + 1 \in Nat \ {0} /\ Len(s) \in Nat
  BY DEF Valid, Position
<1>2. m \in Message
  BY <1>1
<1>3. TextSize[m] \in Nat \ {0} /\ FileSize[m] \in Nat /\ next \in Nat /\ 0 \in Nat
  <2>1. MaxPayload \in Nat
    BY CommPortAssumption
  <2>2. next \in Nat
    BY <1>1, <2>1
  <2> QED
    BY <1>2, <2>2, SizesOK
<1>4. Valid(s, Begin(pos.n + 1))
  <2> DEFINE q == Begin(pos.n + 1)
  <2>1. q \in Position /\ q.n = pos.n + 1 /\ q.part = "messageMetadata" /\ q.bytes = 0
    BY <1>1, PositionsMade DEF Expected
  <2> HIDE DEF q
  <2>2. Valid(s, q)
    BY <1>1, <2>1 DEF Valid
  <2> QED
    BY <2>2 DEF q
<1>5. ASSUME NEW p \in {"messageData", "fileMetadata", "fileData"}, NEW b \in Nat,
             p = "messageData" => b < TextSize[m],
             p = "fileMetadata" => b = 0 /\ Attachment[m] = "file",
             p = "fileData" => b < FileSize[m] /\ Attachment[m] = "file"
      PROVE  Valid(s, Within(pos.n, p, b))
  <2> DEFINE q == Within(pos.n, p, b)
  <2>1. q \in Position /\ q.n = pos.n /\ q.part = p /\ q.bytes = b
    BY <1>1, PositionsMade DEF Expected
  <2>2. s[q.n] = m
    BY <2>1
  <2> HIDE DEF q, m
  <2>3. Valid(s, q)
    BY <1>1, <1>5, <2>1, <2>2 DEF Valid
  <2> QED
    BY <2>3 DEF q
<1>6. /\ pos.part = "messageMetadata" => After(s, pos) = Within(pos.n, "messageData", 0)
      /\ pos.part = "messageData" => After(s, pos) =
           IF next < TextSize[m] THEN Within(pos.n, "messageData", next)
           ELSE IF Attachment[m] = "file" THEN Within(pos.n, "fileMetadata", 0)
           ELSE Begin(pos.n + 1)
      /\ pos.part = "fileMetadata" => After(s, pos) =
           IF FileSize[m] > 0 THEN Within(pos.n, "fileData", 0) ELSE Begin(pos.n + 1)
      /\ pos.part = "fileData" => After(s, pos) =
           IF next < FileSize[m] THEN Within(pos.n, "fileData", next) ELSE Begin(pos.n + 1)
  BY DEF After
<1>7. pos.part \in {"fileMetadata", "fileData"} => Attachment[m] = "file"
  BY DEF Valid
<1> HIDE DEF m, next
<1>8. CASE pos.part = "messageMetadata"
  BY <1>3, <1>5, <1>6, <1>8
<1>9. CASE pos.part = "messageData"
  BY <1>3, <1>4, <1>5, <1>6, <1>9
<1>10. CASE pos.part = "fileMetadata"
  BY <1>3, <1>4, <1>5, <1>6, <1>7, <1>10
<1>11. CASE pos.part = "fileData"
  BY <1>3, <1>4, <1>5, <1>6, <1>7, <1>11
<1> QED
  BY <1>1, <1>8, <1>9, <1>10, <1>11 DEF Expected

\* The trail of packets: one more at its end, one less at its head, cut short, and while
\* more messages are begun.
LEMMA TrailExtends ==
  ASSUME NEW s \in Seq(Message), NEW w \in Seq(Packet), NEW trail, IsTrail(s, w, trail),
         NEW pos, pos = trail[Len(w) + 1], pos.n <= Len(s)
  PROVE  \E longer \in [1..(Len(Append(w, PacketAt(s, pos))) + 1) -> Position] :
            /\ IsTrail(s, Append(w, PacketAt(s, pos)), longer)
            /\ longer[1] = trail[1]
            /\ longer[Len(Append(w, PacketAt(s, pos))) + 1] = After(s, pos)
<1> DEFINE p == PacketAt(s, pos)
           v == Append(w, p)
           next == After(s, pos)
           longer == [i \in 1..(Len(w) + 2) |-> IF i <= Len(w) + 1 THEN trail[i] ELSE next]
<1>1. Len(w) \in Nat /\ trail \in [1..(Len(w) + 1) -> Position]
      /\ \A i \in 1..(Len(w) + 1) : Valid(s, trail[i])
  BY DEF IsTrail
<1>2. Valid(s, pos) /\ Valid(s, next) /\ next \in Position /\ p \in Packet
  <2>1. Valid(s, pos)
    BY <1>1
  <2>2. Valid(s, next) /\ p \in Packet
    BY <2>1, AfterIsValid, PacketIs
  <2> QED
    BY <2>1, <2>2 DEF Valid
<1>3. /\ \A i \in 1..Len(w) : /\ trail[i].n <= Len(s)
                              /\ w[i] = PacketAt(s, trail[i])
                              /\ trail[i + 1] = After(s, trail[i])
  BY DEF IsTrail
<1> HIDE DEF p, next
<1>4. v \in Seq(Packet) /\ Len(v) = Len(w) + 1 /\ v[Len(w) + 1] = p
      /\ \A i \in 1..Len(w) : v[i] = w[i]
  BY <1>2, AppendProperties
<1> HIDE DEF v
<1>5. longer \in [1..(Len(v) + 1) -> Position]
  <2>1. Len(v) + 1 = Len(w) + 2
    BY <1>1, <1>4
  <2>2. ASSUME NEW i \in 1..(Len(w) + 2)
        PROVE  (IF i <= Len(w) + 1 THEN trail[i] ELSE next) \in Position
    <3>1. i <= Len(w) + 1 => i \in 1..(Len(w) + 1)
      BY <1>1
    <3> QED
      BY <1>1, <1>2, <3>1
  <2> QED
    BY <2>1, <2>2
<1>6. /\ \A i \in 1..(Len(w) + 1) : longer[i] = trail[i]
      /\ longer[Len(w) + 2] = next
  BY <1>1
<1> HIDE DEF longer
<1>7. ASSUME NEW i \in 1..(Len(v) + 1) PROVE Valid(s, longer[i])
  <2>1. i \in 1..(Len(w) + 1) \/ i = Len(w) + 2
    BY <1>1, <1>4
  <2> QED
    BY <2>1, <1>1, <1>2, <1>6
<1>8. ASSUME NEW i \in 1..Len(v)
      PROVE  /\ longer[i].n <= Len(s)
             /\ v[i] = PacketAt(s, longer[i])
             /\ longer[i + 1] = After(s, longer[i])
  <2>1. CASE i \in 1..Len(w)
    <3>1. i \in 1..(Len(w) + 1) /\ i + 1 \in 1..(Len(w) + 1)
      BY <2>1, <1>1
    <3> QED
      BY <2>1, <3>1, <1>3, <1>4, <1>6
  <2>2. CASE i = Len(w) + 1
    <3>1. longer[i] = pos /\ i + 1 = Len(w) + 2
      BY <2>2, <1>1, <1>6
    <3> QED
      BY <2>2, <3>1, <1>4, <1>6 DEF p, next
  <2> QED
    BY <2>1, <2>2, <1>1, <1>4
<1>9. IsTrail(s, v, longer)
  BY <1>5, <1>7, <1>8 DEF IsTrail
<1>10. longer[1] = trail[1] /\ longer[Len(v) + 1] = next
  BY <1>1, <1>4, <1>6
<1> QED
  BY <1>5, <1>9, <1>10 DEF v, p, next

LEMMA TrailShortens ==
  ASSUME NEW s \in Seq(Message), NEW w \in Seq(Packet), NEW trail, IsTrail(s, w, trail),
         w # <<>>
  PROVE  /\ trail[1].n <= Len(s) /\ Valid(s, trail[1])
         /\ Head(w) = PacketAt(s, trail[1])
         /\ \E shorter \in [1..(Len(Tail(w)) + 1) -> Position] :
               /\ IsTrail(s, Tail(w), shorter)
               /\ shorter[1] = After(s, trail[1])
               /\ shorter[Len(Tail(w)) + 1] = trail[Len(w) + 1]
<1> DEFINE v == Tail(w)
           shorter == [i \in 1..Len(w) |-> trail[i + 1]]
<1>1. Len(w) \in Nat /\ Len(w) > 0 /\ Head(w) = w[1]
  OBVIOUS
<1>2. v \in Seq(Packet) /\ Len(v) = Len(w) - 1 /\ \A i \in 1..Len(v) : v[i] = w[i + 1]
  BY HeadTailProperties
<1>3. /\ trail \in [1..(Len(w) + 1) -> Position]
      /\ \A i \in 1..(Len(w) + 1) : Valid(s, trail[i])
      /\ \A i \in 1..Len(w) : /\ trail[i].n <= Len(s)
                              /\ w[i] = PacketAt(s, trail[i])
                              /\ trail[i + 1] = After(s, trail[i])
  BY DEF IsTrail
<1>4. 1 \in 1..Len(w) /\ 1 \in 1..(Len(w) + 1)
  BY <1>1
<1>5. trail[1].n <= Len(s) /\ Valid(s, trail[1]) /\ Head(w) = PacketAt(s, trail[1])
  BY <1>1, <1>3, <1>4
<1> HIDE DEF v
<1>6. Len(v) + 1 = Len(w)
  BY <1>1, <1>2
<1>7. ASSUME NEW i \in 1..Len(w) PROVE i + 1 \in 1..(Len(w) + 1)
  BY <1>1
<1>8. shorter \in [1..(Len(v) + 1) -> Position]
  BY <1>3, <1>6, <1>7
<1>9. \A i \in 1..Len(w) : shorter[i] = trail[i + 1]
  OBVIOUS
<1> HIDE DEF shorter
<1>10. \A i \in 1..(Len(v) + 1) : Valid(s, shorter[i])
  BY <1>3, <1>6, <1>7, <1>9
<1>11. ASSUME NEW i \in 1..Len(v)
       PROVE  /\ shorter[i].n <= Len(s)
              /\ v[i] = PacketAt(s, shorter[i])
              /\ shorter[i + 1] = After(s, shorter[i])
  <2>1. i \in 1..Len(w) /\ i + 1 \in 1..Len(w)
    BY <1>1, <1>2
  <2> QED
    BY <2>1, <1>2, <1>3, <1>9
<1>12. IsTrail(s, v, shorter)
  BY <1>8, <1>10, <1>11 DEF IsTrail
<1>13. shorter[1] = After(s, trail[1]) /\ shorter[Len(v) + 1] = trail[Len(w) + 1]
  <2>1. Len(w) \in 1..Len(w)
    BY <1>1
  <2> QED
    BY <2>1, <1>3, <1>4, <1>6, <1>9
<1> QED
  BY <1>5, <1>8, <1>12, <1>13 DEF v

LEMMA TrailIsCut ==
  ASSUME NEW s \in Seq(Message), NEW w \in Seq(Packet), NEW trail, IsTrail(s, w, trail),
         NEW k \in 0..Len(w)
  PROVE  \E shorter \in [1..(Len(SubSeq(w, 1, k)) + 1) -> Position] :
            IsTrail(s, SubSeq(w, 1, k), shorter) /\ shorter[1] = trail[1]
<1> DEFINE v == SubSeq(w, 1, k)
           shorter == [i \in 1..(k + 1) |-> trail[i]]
<1>1. Len(w) \in Nat /\ k \in Nat /\ k <= Len(w)
  OBVIOUS
<1>2. v \in Seq(Packet) /\ Len(v) = k /\ \A i \in 1..k : v[i] = w[i]
  BY <1>1
<1>3. /\ trail \in [1..(Len(w) + 1) -> Position]
      /\ \A i \in 1..(Len(w) + 1) : Valid(s, trail[i])
      /\ \A i \in 1..Len(w) : /\ trail[i].n <= Len(s)
                              /\ w[i] = PacketAt(s, trail[i])
                              /\ trail[i + 1] = After(s, trail[i])
  BY DEF IsTrail
<1> HIDE DEF v
<1>4. ASSUME NEW i \in 1..(k + 1) PROVE i \in 1..(Len(w) + 1)
  BY <1>1
<1>5. shorter \in [1..(Len(v) + 1) -> Position] /\ \A i \in 1..(k + 1) : shorter[i] = trail[i]
  BY <1>2, <1>3, <1>4
<1> HIDE DEF shorter
<1>6. \A i \in 1..(Len(v) + 1) : Valid(s, shorter[i])
  BY <1>2, <1>3, <1>4, <1>5
<1>7. ASSUME NEW i \in 1..Len(v)
      PROVE  /\ shorter[i].n <= Len(s)
             /\ v[i] = PacketAt(s, shorter[i])
             /\ shorter[i + 1] = After(s, shorter[i])
  <2>1. i \in 1..k /\ i \in 1..Len(w) /\ i \in 1..(k + 1) /\ i + 1 \in 1..(k + 1)
    BY <1>1, <1>2
  <2> QED
    BY <2>1, <1>2, <1>3, <1>5
<1>8. shorter[1] = trail[1]
  BY <1>1, <1>5
<1> QED
  BY <1>5, <1>6, <1>7, <1>8 DEF IsTrail, v

\* What was said of a position stays so when one more message is begun.
LEMMA PositionsStay ==
  ASSUME NEW s \in Seq(Message), NEW m \in Message, NEW pos, Valid(s, pos)
  PROVE  /\ Valid(Append(s, m), pos)
         /\ pos.n <= Len(s) => /\ PacketAt(Append(s, m), pos) = PacketAt(s, pos)
                               /\ After(Append(s, m), pos) = After(s, pos)
<1> DEFINE z == Append(s, m)
<1>1. z \in Seq(Message) /\ Len(z) = Len(s) + 1 /\ \A i \in 1..Len(s) : z[i] = s[i]
  BY AppendProperties
<1>2. pos.n \in Nat \ {0} /\ Len(s) \in Nat
  BY DEF Valid, Position
<1> HIDE DEF z
<1>3. pos.n <= Len(s) => z[pos.n] = s[pos.n]
  BY <1>1, <1>2
<1>4. Valid(z, pos)
  BY <1>1, <1>2, <1>3 DEF Valid
<1>5. pos.n <= Len(s) => PacketAt(z, pos) = PacketAt(s, pos)
  BY <1>3 DEF PacketAt
<1>6. pos.n <= Len(s) => After(z, pos) = After(s, pos)
  BY <1>3 DEF After
<1> QED
  BY <1>4, <1>5, <1>6 DEF z

LEMMA TrailStays ==
  ASSUME NEW s \in Seq(Message), NEW m \in Message, NEW w \in Seq(Packet), NEW trail,
         IsTrail(s, w, trail)
  PROVE  IsTrail(Append(s, m), w, trail)
<1>1. Len(Append(s, m)) = Len(s) + 1 /\ Len(s) \in Nat /\ Len(w) \in Nat
  BY AppendProperties
<1>2. \A i \in 1..(Len(w) + 1) : Valid(Append(s, m), trail[i])
  BY PositionsStay DEF IsTrail
<1>3. ASSUME NEW i \in 1..Len(w)
      PROVE  /\ trail[i].n <= Len(Append(s, m))
             /\ w[i] = PacketAt(Append(s, m), trail[i])
             /\ trail[i + 1] = After(Append(s, m), trail[i])
  <2>1. i \in 1..(Len(w) + 1)
    BY <1>1
  <2>2. Valid(s, trail[i]) /\ trail[i].n <= Len(s) /\ trail[i].n \in Nat
    BY <2>1 DEF IsTrail, Valid, Position
  <2> QED
    BY <1>1, <2>2, PositionsStay DEF IsTrail
<1> QED
  BY <1>2, <1>3 DEF IsTrail

-----------------------------------------------------------------------------
(* sendRawMessage                                                          *)

LEMMA SenderFacts ==
  ASSUME TypeOK, SenderOK, sending # NoMessage
  PROVE  /\ sending \in Message /\ sent \in Seq(Message) /\ Len(sent) \in Nat \ {0}
         /\ part \in Expected /\ sentBytes \in Nat
         /\ SenderAt.n = Len(sent) /\ SenderAt.part = part /\ SenderAt.bytes = sentBytes
         /\ sent[SenderAt.n] = sending
         /\ Valid(sent, SenderAt)
         /\ part = "messageData" => sentBytes < TextSize[sending]
         /\ part = "fileMetadata" => Attachment[sending] = "file"
         /\ part = "fileData" => sentBytes < FileSize[sending] /\ Attachment[sending] = "file"
<1>1. sending \in Message /\ sent \in Seq(Message) /\ Len(sent) \in Nat \ {0}
      /\ part \in Expected /\ sentBytes \in Nat /\ sending = sent[Len(sent)]
  BY DEF TypeOK, SenderOK
<1>2. SenderAt = Within(Len(sent), part, sentBytes)
  BY DEF SenderAt
<1>3. SenderAt.n = Len(sent) /\ SenderAt.part = part /\ SenderAt.bytes = sentBytes
  BY <1>1, <1>2, PositionsMade
<1>4. Valid(sent, SenderAt)
  BY DEF SenderOK
<1> QED
  BY <1>1, <1>3, <1>4 DEF Valid

\* The sender's variables after a step to the position pos.
SenderGoesTo(pos) ==
  \/ /\ sending' = sending /\ part' = pos.part /\ sentBytes' = pos.bytes
     /\ pos = Within(Len(sent), pos.part, pos.bytes)
  \/ /\ sending' = NoMessage /\ part' = "messageMetadata" /\ sentBytes' = 0
     /\ pos = Begin(Len(sent) + 1)

\* Each step of sendRawMessage writes the packet at its position and goes to the next.
LEMMA SenderWrites ==
  ASSUME TypeOK, SenderOK,
         SendMessageMetadata \/ SendMessageData \/ SendFileMetadata \/ SendFileData
  PROVE  /\ sending # NoMessage /\ link = "up"
         /\ wire' = Append(wire, PacketAt(sent, SenderAt))
         /\ SenderGoesTo(After(sent, SenderAt))
         /\ UNCHANGED <<sent, link, receiver, sessions>>
<1>1. sending # NoMessage /\ link = "up" /\ UNCHANGED <<sent, link, receiver, sessions>>
  BY DEF SendMessageMetadata, SendMessageData, SendFileMetadata, SendFileData
<1> DEFINE pos == SenderAt
           next == sentBytes + MaxPayload
<1>2. /\ sending \in Message /\ sent \in Seq(Message) /\ Len(sent) \in Nat \ {0}
      /\ part \in Expected /\ sentBytes \in Nat
      /\ pos.n = Len(sent) /\ pos.part = part /\ pos.bytes = sentBytes /\ sent[pos.n] = sending
      /\ Valid(sent, pos)
      /\ part = "messageData" => sentBytes < TextSize[sending]
      /\ part = "fileMetadata" => Attachment[sending] = "file"
      /\ part = "fileData" => sentBytes < FileSize[sending] /\ Attachment[sending] = "file"
  BY <1>1, SenderFacts
<1> HIDE DEF pos
<1>3. /\ TextSize[sending] \in Nat \ {0} /\ FileSize[sending] \in Nat /\ MaxPayload \in Nat
      /\ Attachment[sending] \in {"none", "file", "refused"}
  <2>1. MaxPayload \in Nat
    BY CommPortAssumption
  <2> QED
    BY <1>2, <2>1, SizesOK
<1>4. CASE SendMessageMetadata
  <2>1. part = "messageMetadata" /\ Write(Metadata("message", sending))
        /\ part' = "messageData" /\ sentBytes' = 0 /\ sending' = sending
    BY <1>4 DEF SendMessageMetadata
  <2>2. PacketAt(sent, pos) = Metadata("message", sending)
        /\ After(sent, pos) = Within(Len(sent), "messageData", 0)
    BY <2>1, <1>2 DEF PacketAt, After
  <2>3. SenderGoesTo(After(sent, pos))
    BY <2>1, <2>2 DEF SenderGoesTo, Within
  <2> QED
    BY <1>1, <2>1, <2>2, <2>3 DEF Write, pos
<1>5. CASE SendMessageData
  <2> DEFINE p == Data("data", "message", sending, Text(sending), sentBytes)
             n == sentBytes + Len(p.units)
  <2>1. /\ part = "messageData" /\ Write(p)
        /\ IF n < TextSize[sending]
           THEN sentBytes' = n /\ UNCHANGED <<sending, part>>
           ELSE GoOn(IF Attachment[sending] = "file" THEN "fileMetadata"
                                                     ELSE "messageMetadata")
    BY <1>5 DEF SendMessageData
  <2>2. PacketAt(sent, pos) = p
    BY <2>1, <1>2 DEF PacketAt
  <2>3. n = IF next < TextSize[sending] THEN next ELSE TextSize[sending]
    <3>1. Len(p.units) = (IF next < TextSize[sending] THEN next ELSE TextSize[sending])
                           - sentBytes
      <4>1. Text(sending) = Units(sending, TextSize[sending])
        BY <2>1, <1>2 DEF Text
      <4>2. TextSize[sending] \in Nat /\ sentBytes < TextSize[sending]
        BY <2>1, <1>2, <1>3
      <4>3. Len(Data("data", "message", sending, Units(sending, TextSize[sending]), sentBytes).units)
              = (IF next < TextSize[sending] THEN next ELSE TextSize[sending]) - sentBytes
        BY <4>2, <1>2, DataIs DEF Through
      <4> QED
        BY <4>1, <4>3
    <3> HIDE DEF p
    <3> QED
      BY <3>1, <1>2, <1>3
  <2>4. After(sent, pos) =
           IF next < TextSize[sending] THEN Within(Len(sent), "messageData", next)
           ELSE IF Attachment[sending] = "file" THEN Within(Len(sent), "fileMetadata", 0)
           ELSE Begin(Len(sent) + 1)
    BY <2>1, <1>2 DEF After
  <2> HIDE DEF p, n, next
  <2>5. CASE n < TextSize[sending]
    <3>1. sentBytes' = next /\ UNCHANGED <<sending, part>>
          /\ After(sent, pos) = Within(Len(sent), "messageData", next)
      BY <2>1, <2>3, <2>4, <2>5, <1>3
    <3> QED
      BY <3>1, <2>1, <2>2, <1>1 DEF SenderGoesTo, Within, Write, pos
  <2>6. CASE ~(n < TextSize[sending])
    <3>1. ~(next < TextSize[sending])
      BY <2>3, <2>6, <1>3 DEF next
    <3>2. CASE Attachment[sending] = "file"
      <4>1. After(sent, pos) = Within(Len(sent), "fileMetadata", 0) /\ GoOn("fileMetadata")
        BY <2>1, <2>4, <2>6, <3>1, <3>2
      <4> QED
        BY <4>1, <2>1, <2>2, <1>1 DEF GoOn, SenderGoesTo, Within, Write, pos
    <3>3. CASE Attachment[sending] # "file"
      <4>1. After(sent, pos) = Begin(Len(sent) + 1) /\ GoOn("messageMetadata")
        BY <2>1, <2>4, <2>6, <3>1, <3>3
      <4> QED
        BY <4>1, <2>1, <2>2, <1>1 DEF GoOn, SenderGoesTo, Write, pos
    <3> QED
      BY <3>2, <3>3
  <2> QED
    BY <2>5, <2>6
<1>6. CASE SendFileMetadata
  <2>1. part = "fileMetadata" /\ Write(Metadata("file", sending))
        /\ GoOn(IF FileSize[sending] > 0 THEN "fileData" ELSE "messageMetadata")
    BY <1>6 DEF SendFileMetadata
  <2>2. PacketAt(sent, pos) = Metadata("file", sending)
        /\ After(sent, pos) = IF FileSize[sending] > 0 THEN Within(Len(sent), "fileData", 0)
                                                      ELSE Begin(Len(sent) + 1)
    BY <2>1, <1>2 DEF PacketAt, After
  <2>3. SenderGoesTo(After(sent, pos))
    <3>1. CASE FileSize[sending] > 0
      BY <3>1, <2>1, <2>2 DEF GoOn, SenderGoesTo, Within
    <3>2. CASE ~(FileSize[sending] > 0)
      BY <3>2, <2>1, <2>2 DEF GoOn, SenderGoesTo
    <3> QED
      BY <3>1, <3>2
  <2> QED
    BY <1>1, <2>1, <2>2, <2>3 DEF Write, pos
<1>7. CASE SendFileData
  <2> DEFINE p == Data("file", "file", sending, File(sending), sentBytes)
             n == sentBytes + Len(p.units)
  <2>1. /\ part = "fileData" /\ Write(p)
        /\ IF n < FileSize[sending]
           THEN sentBytes' = n /\ UNCHANGED <<sending, part>>
           ELSE GoOn("messageMetadata")
    BY <1>7 DEF SendFileData
  <2>2. PacketAt(sent, pos) = p
    BY <2>1, <1>2 DEF PacketAt
  <2>3. n = IF next < FileSize[sending] THEN next ELSE FileSize[sending]
    <3>1. Len(p.units) = (IF next < FileSize[sending] THEN next ELSE FileSize[sending])
                           - sentBytes
      <4>1. File(sending) = Units(sending, FileSize[sending])
        BY <2>1, <1>2 DEF File
      <4>2. FileSize[sending] \in Nat /\ sentBytes < FileSize[sending]
        BY <2>1, <1>2, <1>3
      <4>3. Len(Data("file", "file", sending, Units(sending, FileSize[sending]), sentBytes).units)
              = (IF next < FileSize[sending] THEN next ELSE FileSize[sending]) - sentBytes
        BY <4>2, <1>2, DataIs DEF Through
      <4> QED
        BY <4>1, <4>3
    <3> HIDE DEF p
    <3> QED
      BY <3>1, <1>2, <1>3
  <2>4. After(sent, pos) =
           IF next < FileSize[sending] THEN Within(Len(sent), "fileData", next)
           ELSE Begin(Len(sent) + 1)
    BY <2>1, <1>2 DEF After
  <2> HIDE DEF p, n, next
  <2>5. CASE n < FileSize[sending]
    <3>1. sentBytes' = next /\ UNCHANGED <<sending, part>>
          /\ After(sent, pos) = Within(Len(sent), "fileData", next)
      BY <2>1, <2>3, <2>4, <2>5, <1>3
    <3> QED
      BY <3>1, <2>1, <2>2, <1>1 DEF SenderGoesTo, Within, Write, pos
  <2>6. CASE ~(n < FileSize[sending])
    <3>1. ~(next < FileSize[sending])
      BY <2>3, <2>6, <1>3 DEF next
    <3>2. After(sent, pos) = Begin(Len(sent) + 1) /\ GoOn("messageMetadata")
      BY <2>1, <2>4, <2>6, <3>1
    <3> QED
      BY <3>2, <2>1, <2>2, <1>1 DEF GoOn, SenderGoesTo, Write, pos
  <2> QED
    BY <2>5, <2>6
<1> QED
  BY <1>4, <1>5, <1>6, <1>7

-----------------------------------------------------------------------------
(* listeningLoop takes a packet that is the one it expects.                *)

LEMMA NoUnits ==
  ASSUME NEW m \in Message
  PROVE  Units(m, 0) = <<>>
  BY DEF Units

\* What a step of the loop from the position pos to the position next preserves.
Proceeds(pos, next) ==
  /\ on' = on
  /\ InStep(next)' \/ Misled(next)'
  /\ Clean(next)'
  /\ GotOK'
  /\ BufferHolds'

\* What is known when the packet at pos arrives.
Expects(pos, next) ==
  /\ TypeOK /\ GotOK /\ BufferHolds /\ FilesOnce
  /\ Valid(sent, pos) /\ pos.n <= Len(sent)
  /\ next = After(sent, pos)
  /\ InStep(pos) /\ Clean(pos)
  /\ wire # <<>> /\ Head(wire) = PacketAt(sent, pos)

LEMMA ExpectsFacts ==
  ASSUME NEW pos, NEW next, Expects(pos, next)
  PROVE  /\ sent \in Seq(Message) /\ Len(sent) \in Nat /\ pos.n \in 1..Len(sent)
         /\ pos.n \in Nat \ {0} /\ pos.part \in Expected /\ pos.bytes \in Nat
         /\ sent[pos.n] \in Message
         /\ expected = pos.part
         /\ Valid(sent, next) /\ next \in Position
<1>1. sent \in Seq(Message) /\ Len(sent) \in Nat
  BY DEF Expects, TypeOK
<1>2. pos \in Position /\ pos.n <= Len(sent)
  BY DEF Expects, Valid
<1>3. Valid(sent, next)
  BY <1>1, AfterIsValid DEF Expects
<1> QED
  BY <1>1, <1>2, <1>3 DEF Expects, InStep, Position, Valid

\* The files that a later position wants clean are those that an earlier one wants clean.
LEMMA CleanStays ==
  ASSUME NEW pos, NEW next, pos \in Position, next \in Position,
         Clean(pos), sent \in Seq(Message), UNCHANGED <<sent, disk>>,
         \/ next.n = pos.n /\ (pos.part = "fileData" => next.part = "fileData")
         \/ next.n = pos.n + 1
  PROVE  Clean(next)'
<1>1. pos.n \in Nat /\ next.n \in Nat /\ Len(sent) \in Nat
  BY DEF Position
<1>2. ASSUME NEW i \in 1..Len(sent), i > next.n \/ (i = next.n /\ next.part # "fileData")
      PROVE  i > pos.n \/ (i = pos.n /\ pos.part # "fileData")
  BY <1>1, <1>2
<1> QED
  BY <1>2 DEF Clean

LEMMA TakesMessageMetadata ==
  ASSUME NEW pos, NEW next, Expects(pos, next), ReceiveMessageMetadata
  PROVE  Proceeds(pos, next)
<1> DEFINE m == sent[pos.n]
<1>1. /\ sent \in Seq(Message) /\ Len(sent) \in Nat /\ pos.n \in 1..Len(sent)
      /\ pos.n \in Nat \ {0} /\ m \in Message /\ expected = pos.part
      /\ next \in Position /\ pos \in Position
  BY ExpectsFacts DEF Expects, Valid
<1>2. pos.part = "messageMetadata" /\ expected = "messageMetadata" /\ sent' = sent
  BY <1>1 DEF ReceiveMessageMetadata, Arrives, Taken, sender
<1>3. Packet1 = Metadata("message", m)
  BY <1>2 DEF Expects, PacketAt, Packet1
<1>4. metadata' = m /\ expected' = "messageData" /\ UNCHANGED <<on, loaded, path, disk, got>>
  BY <1>3 DEF ReceiveMessageMetadata, Metadata
<1>5. next = Within(pos.n, "messageData", 0) /\ next.n = pos.n /\ next.part = "messageData"
      /\ next.bytes = 0
  BY <1>2 DEF Expects, After, Within
<1>6. loaded = <<>> /\ Len(got) = pos.n - 1
  BY <1>2 DEF Expects, InStep
<1>7. InStep(next)'
  BY <1>1, <1>2, <1>4, <1>5, <1>6, NoUnits DEF InStep
<1>8. Clean(next)'
  BY <1>1, <1>2, <1>4, <1>5, CleanStays DEF Expects
<1>9. GotOK' /\ BufferHolds'
  BY <1>2, <1>4, <1>6 DEF Expects, GotOK, BufferHolds
<1> QED
  BY <1>4, <1>7, <1>8, <1>9 DEF Proceeds

\* A message is complete and is given to the listener.
LEMMA Delivers ==
  ASSUME NEW pos, NEW next, Expects(pos, next), NEW file,
         Complete(Text(sent[pos.n]), file), sent' = sent,
         ~Resends => file = File(sent[pos.n]),
         next = Begin(pos.n + 1), Clean(next)'
  PROVE  Proceeds(pos, next)
<1> DEFINE m == sent[pos.n]
           r == [text |-> Text(m), file |-> file]
<1>1. /\ sent \in Seq(Message) /\ Len(sent) \in Nat /\ pos.n \in 1..Len(sent)
      /\ pos.n \in Nat \ {0} /\ m \in Message
  BY ExpectsFacts
<1>2. /\ got' = Append(got, r)
      /\ expected' = "messageMetadata"
      /\ metadata' = NoMessage /\ loaded' = <<>> /\ path' = NoMessage /\ on' = on
  BY DEF Complete
<1>3. Len(got) = pos.n - 1 /\ got \in Seq([text : Seq(Unit), file : Seq(Unit)])
  BY DEF Expects, InStep, TypeOK
<1>4. ~Resends => r = Whole(m)
  BY DEF Whole
<1> HIDE DEF r
<1>5. Len(got') = pos.n /\ got'[pos.n] = r /\ \A i \in 1..(pos.n - 1) : got'[i] = got[i]
  BY <1>1, <1>2, <1>3
<1>6. GotOK'
  <2>1. ASSUME ~Resends, NEW i \in 1..Len(got') PROVE got'[i] = Whole(sent[i])
    <3>1. CASE i = pos.n
      BY <2>1, <3>1, <1>4, <1>5
    <3>2. CASE i # pos.n
      <4>1. i \in 1..(pos.n - 1) /\ i \in 1..Len(got)
        BY <3>2, <1>1, <1>3, <1>5
      <4> QED
        BY <2>1, <4>1, <1>5 DEF Expects, GotOK
    <3> QED
      BY <3>1, <3>2
  <2>2. \A i \in 1..Len(got') : Whole(sent'[i]) = Whole(sent[i])
    OBVIOUS
  <2>3. Len(got') <= Len(sent')
    BY <1>1, <1>5
  <2> QED
    BY <2>1, <2>2, <2>3 DEF GotOK, Whole, Text, File, Units
<1>7. next.n = pos.n + 1 /\ next.part = "messageMetadata"
  BY DEF Begin, Within
<1>8. InStep(next)'
  BY <1>1, <1>2, <1>5, <1>7 DEF InStep
<1>9. BufferHolds'
  BY <1>2 DEF BufferHolds
<1> QED
  BY <1>2, <1>6, <1>8, <1>9 DEF Proceeds

LEMMA TakesMessageData ==
  ASSUME NEW pos, NEW next, Expects(pos, next), ReceiveMessageData
  PROVE  Proceeds(pos, next)
<1> DEFINE m == sent[pos.n]
           k == TextSize[m]
           b == pos.bytes
           then == IF b + MaxPayload < k THEN b + MaxPayload ELSE k
           p == Data("data", "message", m, Units(m, k), b)
<1>1. /\ sent \in Seq(Message) /\ Len(sent) \in Nat /\ pos.n \in 1..Len(sent)
      /\ pos.n \in Nat \ {0} /\ m \in Message /\ expected = pos.part /\ b \in Nat
      /\ next \in Position /\ pos \in Position
  BY ExpectsFacts DEF Expects, Valid
<1>2. pos.part = "messageData" /\ sent' = sent
  BY <1>1 DEF ReceiveMessageData, Arrives, Taken, sender
<1>3. k \in Nat /\ b < k /\ MaxPayload \in Nat /\ Text(m) = Units(m, k)
      /\ Attachment[m] \in {"none", "file", "refused"}
  <2>1. MaxPayload \in Nat
    BY CommPortAssumption
  <2> QED
    BY <1>1, <1>2, <2>1, SizesOK DEF Expects, Valid, Text
<1>4. Packet1 = p
  BY <1>2, <1>3 DEF Expects, PacketAt, Packet1
<1>5. /\ p.flag = "data" /\ p.end \in BOOLEAN /\ (p.end <=> b + MaxPayload >= k)
      /\ Units(m, b) \o p.units = Units(m, then)
  <2> HIDE DEF m, k, b, p, then
  <2>1. p = Data("data", "message", m, Units(m, k), b)
    BY DEF p
  <2>2. then = Through(b, k)
    BY DEF then, Through
  <2>3. m \in Message /\ k \in Nat /\ b \in Nat /\ b < k
    BY <1>1, <1>3
  <2>4. p.flag = "data"
    BY <2>1, <2>2, <2>3, DataIs
  <2>5. Units(m, b) \o p.units = Units(m, then)
    BY <2>1, <2>2, <2>3, DataJoins
  <2>6. p.end \in BOOLEAN /\ (p.end <=> b + MaxPayload >= k)
    BY <2>1, <2>2, <2>3, DataIs
  <2> QED
    BY <2>4, <2>5, <2>6
<1>6. metadata = m /\ loaded = Units(m, b) /\ Len(got) = pos.n - 1
  BY <1>2 DEF Expects, InStep
<1>7. next = IF b + MaxPayload < k THEN Within(pos.n, "messageData", b + MaxPayload)
             ELSE IF Attachment[m] = "file" THEN Within(pos.n, "fileMetadata", 0)
             ELSE Begin(pos.n + 1)
  BY <1>2 DEF Expects, After
<1>8. \/ /\ ~(p.end /\ Attachment[m] = "none")
         /\ loaded' = Units(m, then)
         /\ expected' = IF p.end THEN "fileMetadata" ELSE "messageData"
         /\ UNCHANGED <<on, metadata, path, disk, got>>
      \/ /\ p.end /\ Attachment[m] = "none"
         /\ Complete(Units(m, then), <<>>)
         /\ UNCHANGED disk
  BY <1>4, <1>5, <1>6 DEF ReceiveMessageData
<1>9. disk' = disk
  BY <1>8
<1>10. then \in Nat /\ then <= k
  BY <1>1, <1>3
<1>11. Len(Units(m, then)) = then
  BY <1>1, <1>10, UnitsAreUnits
<1> HIDE DEF p, m
<1>12. CASE ~p.end
  <2>1. b + MaxPayload < k /\ then = b + MaxPayload
    BY <1>12, <1>1, <1>3, <1>5
  <2>2. next.n = pos.n /\ next.part = "messageData" /\ next.bytes = then
    BY <1>7, <2>1 DEF Within
  <2> HIDE DEF then
  <2>3. loaded' = Units(m, then) /\ expected' = "messageData"
        /\ UNCHANGED <<on, metadata, path, disk, got>>
    BY <1>8, <1>12
  <2>4. sent'[next.n] = m
    BY <2>2, <1>2 DEF m
  <2>5. InStep(next)'
    BY <2>2, <2>3, <2>4, <1>6 DEF InStep
  <2>6. Clean(next)'
    BY <1>1, <1>2, <1>9, <2>2, CleanStays DEF Expects
  <2>7. GotOK'
    BY <1>2, <2>3 DEF Expects, GotOK
  <2>8. BufferHolds'
    BY <2>3, <1>6, <1>1, <1>10, <1>11, CommPortAssumption DEF BufferHolds
  <2> QED
    BY <2>3, <2>5, <2>6, <2>7, <2>8 DEF Proceeds
<1>13. CASE p.end
  <2>1. ~(b + MaxPayload < k) /\ then = k
    BY <1>13, <1>1, <1>3, <1>5
  <2>2. CASE Attachment[m] = "file"
    <3>1. next.n = pos.n /\ next.part = "fileMetadata"
      BY <1>7, <2>1, <2>2 DEF Within
    <3>2. loaded' = Units(m, k) /\ expected' = "fileMetadata"
          /\ UNCHANGED <<on, metadata, path, disk, got>>
      BY <1>8, <1>13, <2>1, <2>2
    <3>3. sent'[next.n] = m
      BY <3>1, <1>2 DEF m
    <3>4. InStep(next)'
      BY <3>1, <3>2, <3>3, <1>3, <1>6 DEF InStep
    <3>5. Clean(next)'
      BY <1>1, <1>2, <1>9, <3>1, CleanStays DEF Expects
    <3>6. GotOK'
      BY <1>2, <3>2 DEF Expects, GotOK
    <3>7. BufferHolds'
      BY <3>2, <1>6, <1>1, <1>10, <1>11, <2>1, CommPortAssumption DEF BufferHolds
    <3> QED
      BY <3>2, <3>4, <3>5, <3>6, <3>7 DEF Proceeds
  <2>3. CASE Attachment[m] = "refused"
    <3>1. next.n = pos.n + 1 /\ next.part = "messageMetadata"
      BY <1>7, <2>1, <2>3 DEF Begin, Within
    <3>2. loaded' = Units(m, k) /\ expected' = "fileMetadata"
          /\ UNCHANGED <<on, metadata, path, disk, got>>
      BY <1>8, <1>13, <2>1, <2>3
    <3>3. ~Ends(sent'[pos.n])
      BY <2>3, <1>2 DEF Ends, m
    <3>4. Misled(next)'
      BY <3>1, <3>2, <3>3, <1>1, <1>2 DEF Misled, Ends
    <3>5. Clean(next)'
      BY <1>1, <1>2, <1>9, <3>1, CleanStays DEF Expects
    <3>6. GotOK'
      BY <1>2, <3>2 DEF Expects, GotOK
    <3>7. BufferHolds'
      BY <3>2, <1>6, <1>1, <1>10, <1>11, <2>1, CommPortAssumption DEF BufferHolds
    <3> QED
      BY <3>2, <3>4, <3>5, <3>6, <3>7 DEF Proceeds
  <2>4. CASE Attachment[m] = "none"
    <3>1. next = Begin(pos.n + 1) /\ next.n = pos.n + 1
      BY <1>7, <2>1, <2>4 DEF Begin, Within
    <3>2. Complete(Text(m), <<>>)
      BY <1>3, <1>8, <1>13, <2>1, <2>4
    <3>3. File(m) = <<>>
      BY <1>1, <2>4, SizesOK
    <3>4. Clean(next)'
      BY <1>1, <1>2, <1>9, <3>1, CleanStays DEF Expects
    <3> QED
      BY <1>2, <3>1, <3>2, <3>3, <3>4, Delivers DEF m
  <2> QED
    BY <1>3, <2>2, <2>3, <2>4
<1> QED
  BY <1>12, <1>13

LEMMA TakesFileMetadata ==
  ASSUME NEW pos, NEW next, Expects(pos, next), ReceiveFileMetadata
  PROVE  Proceeds(pos, next)
<1> DEFINE m == sent[pos.n]
<1>1. /\ sent \in Seq(Message) /\ Len(sent) \in Nat /\ pos.n \in 1..Len(sent)
      /\ pos.n \in Nat \ {0} /\ m \in Message /\ expected = pos.part
      /\ next \in Position /\ pos \in Position
  BY ExpectsFacts DEF Expects, Valid
<1>2. pos.part = "fileMetadata" /\ sent' = sent
  BY <1>1 DEF ReceiveFileMetadata, Arrives, Taken, sender
<1>3. Attachment[m] = "file" /\ FileSize[m] \in Nat
  BY <1>1, <1>2, SizesOK DEF Expects, Valid
<1>4. Packet1 = Metadata("file", m)
  BY <1>2 DEF Expects, PacketAt, Packet1
<1>5. path' = m /\ expected' = "fileData" /\ UNCHANGED <<on, metadata, loaded, disk, got>>
  BY <1>4 DEF ReceiveFileMetadata, Metadata
<1>6. loaded = Text(m) /\ metadata = m /\ Len(got) = pos.n - 1
  BY <1>2 DEF Expects, InStep
<1>7. next = IF FileSize[m] > 0 THEN Within(pos.n, "fileData", 0) ELSE Begin(pos.n + 1)
  BY <1>2 DEF Expects, After
<1>8. GotOK' /\ BufferHolds'
  BY <1>2, <1>5 DEF Expects, GotOK, BufferHolds
<1> HIDE DEF m
<1>9. CASE FileSize[m] > 0
  <2>1. next.n = pos.n /\ next.part = "fileData" /\ next.bytes = 0
    BY <1>7, <1>9 DEF Within
  <2>2. sent'[next.n] = m
    BY <1>2, <2>1 DEF m
  <2>3. ~Resends => disk[m] = <<>>
    BY <1>1, <1>2, <1>3 DEF Expects, Clean, m
  <2>4. Text(m) = Units(m, TextSize[m]) /\ Units(m, 0) = <<>>
    BY <1>1, NoUnits DEF Text, m
  <2>5. InStep(next)'
    BY <1>5, <1>6, <2>1, <2>2, <2>3, <2>4 DEF InStep
  <2>6. Clean(next)'
    BY <1>1, <1>2, <1>5, <2>1, CleanStays DEF Expects
  <2> QED
    BY <1>5, <1>8, <2>5, <2>6 DEF Proceeds
<1>10. CASE ~(FileSize[m] > 0)
  <2>1. next.n = pos.n + 1 /\ next.part = "messageMetadata"
    BY <1>7, <1>10 DEF Begin, Within
  <2>2. ~Ends(sent'[pos.n])
    BY <1>2, <1>3, <1>10 DEF Ends, m
  <2>3. Misled(next)'
    BY <1>1, <1>2, <1>5, <2>1, <2>2 DEF Misled, Ends
  <2>4. Clean(next)'
    BY <1>1, <1>2, <1>5, <2>1, CleanStays DEF Expects
  <2> QED
    BY <1>5, <1>8, <2>3, <2>4 DEF Proceeds
<1> QED
  BY <1>9, <1>10

LEMMA TakesFileData ==
  ASSUME NEW pos, NEW next, Expects(pos, next), ReceiveFileData
  PROVE  Proceeds(pos, next)
<1> DEFINE m == sent[pos.n]
           k == FileSize[m]
           b == pos.bytes
           then == Through(b, k)
           p == Data("file", "file", m, Units(m, k), b)
<1>1. /\ sent \in Seq(Message) /\ Len(sent) \in Nat /\ pos.n \in 1..Len(sent)
      /\ pos.n \in Nat \ {0} /\ m \in Message /\ expected = pos.part /\ b \in Nat
      /\ next \in Position /\ pos \in Position
  BY ExpectsFacts DEF Expects, Valid
<1>2. pos.part = "fileData" /\ sent' = sent
  BY <1>1 DEF ReceiveFileData, Arrives, Taken, sender
<1>3. k \in Nat /\ b < k /\ MaxPayload \in Nat /\ Attachment[m] = "file"
      /\ File(m) = Units(m, k)
  <2>1. MaxPayload \in Nat
    BY CommPortAssumption
  <2> QED
    BY <1>1, <1>2, <2>1, SizesOK DEF Expects, Valid
<1>4. Packet1 = p
  BY <1>2, <1>3 DEF Expects, PacketAt, Packet1
<1>5. /\ p.flag = "file" /\ p.end \in BOOLEAN /\ (p.end <=> b + MaxPayload >= k)
      /\ Units(m, b) \o p.units = Units(m, then)
  <2> HIDE DEF m, k, b, p, then
  <2>1. p = Data("file", "file", m, Units(m, k), b) /\ then = Through(b, k)
    BY DEF p, then
  <2>2. m \in Message /\ k \in Nat /\ b \in Nat /\ b < k
    BY <1>1, <1>3
  <2>3. p.flag = "file"
    BY <2>1, <2>2, DataIs
  <2>4. Units(m, b) \o p.units = Units(m, then)
    BY <2>1, <2>2, DataJoins
  <2>5. p.end \in BOOLEAN /\ (p.end <=> b + MaxPayload >= k)
    BY <2>1, <2>2, DataIs
  <2> QED
    BY <2>3, <2>4, <2>5
<1>6. /\ metadata = m /\ loaded = Text(m) /\ Len(got) = pos.n - 1 /\ path = m
      /\ ~Resends => disk[m] = Units(m, b)
  BY <1>2 DEF Expects, InStep
<1>7. next = IF b + MaxPayload < k THEN Within(pos.n, "fileData", b + MaxPayload)
             ELSE Begin(pos.n + 1)
  BY <1>2 DEF Expects, After
<1>8. /\ disk' = [disk EXCEPT ![path] = disk[path] \o p.units]
      /\ \/ ~p.end /\ UNCHANGED <<on, expected, metadata, loaded, path, got>>
         \/ p.end /\ Complete(loaded, disk'[path])
  BY <1>4, <1>5 DEF ReceiveFileData
<1>9. /\ disk \in [Message -> Seq(Unit)]
      /\ ~Resends => disk'[m] = Units(m, then)
      /\ \A other \in Message : other # m => disk'[other] = disk[other]
  <2>1. disk \in [Message -> Seq(Unit)]
    BY DEF Expects, TypeOK
  <2> HIDE DEF m, b, then, p
  <2>2. disk'[m] = disk[m] \o p.units
    BY <1>1, <1>6, <1>8, <2>1
  <2>3. ~Resends => disk'[m] = Units(m, b) \o p.units
    BY <1>6, <2>2
  <2> QED
    BY <1>1, <1>5, <1>6, <1>8, <2>1, <2>3
<1>10. ASSUME (next.n = pos.n /\ next.part = "fileData") \/ next.n = pos.n + 1
       PROVE  Clean(next)'
  <2>1. ASSUME ~Resends, NEW i \in 1..Len(sent), Attachment[sent[i]] # "none", i > pos.n
        PROVE  disk'[sent[i]] = <<>>
    <3>1. sent[i] \in Message /\ sent[i] # m
      BY <2>1, <1>1 DEF Expects, FilesOnce
    <3>2. disk[sent[i]] = <<>>
      BY <2>1 DEF Expects, Clean
    <3> QED
      BY <3>1, <3>2, <1>9
  <2>2. \A i \in 1..Len(sent) : i > next.n \/ (i = next.n /\ next.part # "fileData")
                                  => i > pos.n
    BY <1>1, <1>10
  <2> QED
    BY <2>1, <2>2, <1>2 DEF Clean
<1> HIDE DEF p, m
<1>11. CASE ~p.end
  <2>1. b + MaxPayload < k /\ then = b + MaxPayload
    BY <1>11, <1>1, <1>3, <1>5 DEF Through
  <2>2. next.n = pos.n /\ next.part = "fileData" /\ next.bytes = then
    BY <1>7, <2>1 DEF Within
  <2> HIDE DEF then
  <2>3. UNCHANGED <<on, expected, metadata, loaded, path, got>>
    BY <1>8, <1>11
  <2>4. sent'[next.n] = m
    BY <2>2, <1>2 DEF m
  <2>5. InStep(next)'
    BY <2>2, <2>3, <2>4, <1>1, <1>2, <1>6, <1>9 DEF InStep
  <2>6. GotOK' /\ BufferHolds'
    BY <2>3, <1>2 DEF Expects, GotOK, BufferHolds
  <2> QED
    BY <2>2, <2>3, <2>5, <2>6, <1>10 DEF Proceeds
<1>12. CASE p.end
  <2>1. ~(b + MaxPayload < k) /\ then = k
    BY <1>12, <1>1, <1>3, <1>5 DEF Through
  <2>2. next = Begin(pos.n + 1) /\ next.n = pos.n + 1
    BY <1>7, <2>1 DEF Begin, Within
  <2>3. Complete(Text(m), disk'[m])
    BY <1>6, <1>8, <1>12
  <2>4. ~Resends => disk'[m] = File(m)
    BY <1>3, <1>9, <2>1
  <2> QED
    BY <1>2, <1>10, <2>2, <2>3, <2>4, Delivers DEF m
<1> QED
  BY <1>11, <1>12

\* After a message without an end, the packet that comes next stops the loop.
LEMMA MisledRefuses ==
  ASSUME NEW pos, Misled(pos), wire # <<>>, Head(wire) = PacketAt(sent, pos),
         \/ ReceiveMessageMetadata \/ ReceiveMessageData
         \/ ReceiveFileMetadata \/ ReceiveFileData
  PROVE  Refuse
<1>1. Packet1.flag = "metadata" /\ Packet1.kind = "message"
  BY DEF Misled, Packet1, PacketAt, Metadata
<1>2. ReceiveFileMetadata \/ ReceiveFileData
  BY DEF Misled, ReceiveMessageMetadata, ReceiveMessageData, Arrives
<1> QED
  BY <1>1, <1>2 DEF ReceiveFileMetadata, ReceiveFileData

-----------------------------------------------------------------------------
(* The invariant.                                                          *)

LEMMA InitHolds == Init => IInv
<1> SUFFICES ASSUME Init PROVE IInv
  OBVIOUS
<1>1. TypeOK
  <2>1. /\ <<>> \in Seq(Packet) /\ <<>> \in Seq(Unit) /\ <<>> \in Seq(Message)
        /\ <<>> \in Seq([text : Seq(Unit), file : Seq(Unit)])
    OBVIOUS
  <2>2. disk \in [Message -> Seq(Unit)] /\ wire \in Seq(Packet)
    BY <2>1 DEF Init
  <2>3. loaded \in Seq(Unit) /\ sent \in Seq(Message)
        /\ got \in Seq([text : Seq(Unit), file : Seq(Unit)])
    BY <2>1 DEF Init
  <2>4. /\ sending = NoMessage /\ part \in Expected /\ sentBytes \in Nat
        /\ link \in {"up", "broken", "eof", "closed"}
        /\ loop \in {"head", "read", "closed", "spin"}
        /\ on \in BOOLEAN /\ stopped \in BOOLEAN
        /\ expected \in Expected /\ metadata = NoMessage
        /\ path = NoMessage /\ expected # "fileData" /\ strays \in Nat /\ sessions \in Nat
    BY DEF Init, Expected
  <2> QED
    BY <2>2, <2>3, <2>4 DEF TypeOK
<1>2. Len(sent) = 0 /\ Len(got) = 0 /\ Len(wire) = 0 /\ wire = <<>>
  BY DEF Init
<1>3. SenderAt = Begin(1) /\ Begin(1) \in Position /\ Begin(1).n = 1
      /\ Begin(1).part = "messageMetadata" /\ Begin(1).bytes = 0
  BY <1>2, PositionsMade DEF Init, SenderAt, Expected
<1>4. Valid(sent, Begin(1))
  BY <1>2, <1>3 DEF Valid
<1>5. SenderOK /\ FilesOnce /\ GotOK /\ StopsForReason /\ BufferHolds
  BY <1>2, <1>3, <1>4 DEF Init, SenderOK, FilesOnce, GotOK, StopsForReason, BufferHolds
<1>6. Tracked
  <2> DEFINE trail == [i \in 1..1 |-> Begin(1)]
  <2>1. trail \in [1..(Len(wire) + 1) -> Position] /\ trail[1] = Begin(1)
    BY <1>2, <1>3
  <2> HIDE DEF trail
  <2>2. IsTrail(sent, wire, trail)
    BY <1>2, <1>4, <2>1 DEF IsTrail
  <2>3. InStep(trail[1])
    BY <1>2, <1>3, <2>1 DEF InStep, Init
  <2>4. Clean(trail[1])
    BY <1>2 DEF Clean
  <2> QED
    BY <1>2, <1>3, <2>1, <2>2, <2>3, <2>4 DEF Tracked
<1> QED
  BY <1>1, <1>5, <1>6 DEF IInv

\* The trail stays as it is in a step that moves neither the packets nor the loop.
LEMMA TrackedStays ==
  ASSUME Tracked, UNCHANGED <<sent, wire, expected, metadata, loaded, path, disk, got>>,
         Receiving' => Receiving,
         link' = "up" => link = "up" /\ SenderAt' = SenderAt
  PROVE  Tracked'
<1>1. \A pos : /\ (InStep(pos)' <=> InStep(pos)) /\ (Misled(pos)' <=> Misled(pos))
               /\ (Clean(pos)' <=> Clean(pos))
  BY DEF InStep, Misled, Clean
<1>2. \A trail : IsTrail(sent, wire, trail)' <=> IsTrail(sent, wire, trail)
  BY DEF IsTrail, Valid, PacketAt, After
<1> QED
  BY <1>1, <1>2 DEF Tracked

LEMMA SendFailsKeeps ==
  ASSUME IInv, SendFails
  PROVE  IInv'
<1>1. /\ sending' = NoMessage /\ part' = "messageMetadata" /\ sentBytes' = 0 /\ link # "up"
      /\ UNCHANGED <<wire, link, sent, receiver, sessions>>
  BY DEF SendFails
<1>2. TypeOK'
  BY <1>1 DEF IInv, TypeOK, receiver, Expected
<1>3. SenderOK'
  <2>1. Len(sent) \in Nat
    BY DEF IInv, TypeOK
  <2>2. SenderAt' = Begin(Len(sent) + 1)
    BY <1>1 DEF SenderAt
  <2>3. Valid(sent', Begin(Len(sent) + 1))
    <3> DEFINE q == Begin(Len(sent) + 1)
    <3>1. q \in Position /\ q.n = Len(sent) + 1 /\ q.part = "messageMetadata" /\ q.bytes = 0
      BY <2>1, PositionsMade DEF Expected
    <3> HIDE DEF q
    <3>2. Valid(sent', q)
      BY <1>1, <2>1, <3>1 DEF Valid
    <3> QED
      BY <3>2 DEF q
  <2> QED
    BY <1>1, <2>2, <2>3 DEF SenderOK
<1>4. FilesOnce' /\ GotOK' /\ StopsForReason' /\ BufferHolds'
  BY <1>1 DEF IInv, FilesOnce, GotOK, StopsForReason, BufferHolds, receiver
<1>5. Tracked'
  BY <1>1, TrackedStays DEF IInv, Receiving, receiver
<1> QED
  BY <1>2, <1>3, <1>4, <1>5 DEF IInv

LEMMA SenderKeeps ==
  ASSUME IInv, SendMessageMetadata \/ SendMessageData \/ SendFileMetadata \/ SendFileData
  PROVE  IInv'
<1> DEFINE p == PacketAt(sent, SenderAt)
           next == After(sent, SenderAt)
<1>1. /\ sending # NoMessage /\ link = "up"
      /\ wire' = Append(wire, p)
      /\ SenderGoesTo(next)
      /\ UNCHANGED <<sent, link, receiver, sessions>>
  BY SenderWrites DEF IInv
<1>2. /\ sending \in Message /\ sent \in Seq(Message) /\ Len(sent) \in Nat \ {0}
      /\ SenderAt.n = Len(sent) /\ Valid(sent, SenderAt) /\ sent[Len(sent)] = sending
  BY <1>1, SenderFacts DEF IInv
<1>3. p \in Packet /\ Valid(sent, next) /\ next \in Position
  BY <1>2, PacketIs, AfterIsValid DEF Valid
<1> HIDE DEF p, next
<1>4. SenderAt' = next
  BY <1>1, <1>2, CommPortAssumption DEF SenderGoesTo, SenderAt
<1>5. SenderOK'
  <2>1. sending' # NoMessage => sending' = sending
    BY <1>1 DEF SenderGoesTo
  <2>2. Valid(sent, SenderAt)'
    BY <1>1, <1>3, <1>4
  <2> QED
    BY <1>1, <1>2, <2>1, <2>2 DEF SenderOK
<1>6. TypeOK'
  <2>1. wire' \in Seq(Packet)
    BY <1>1, <1>3, AppendProperties DEF IInv, TypeOK
  <2>2. next.part \in Expected /\ next.bytes \in Nat
    BY <1>3 DEF Position
  <2>3. sending' \in Message \cup {NoMessage} /\ part' \in Expected /\ sentBytes' \in Nat
    BY <1>1, <1>2, <2>2 DEF SenderGoesTo, Expected
  <2>4. ASSUME sending' # NoMessage
        PROVE  sentBytes' <= IF part' = "fileData" THEN FileSize[sending']
                                                  ELSE TextSize[sending']
    <3>1. sending' = sending /\ part' = next.part /\ sentBytes' = next.bytes
          /\ next = Within(Len(sent), next.part, next.bytes)
      BY <1>1, <2>4 DEF SenderGoesTo
    <3>2. next.n = Len(sent)
      BY <3>1, <1>2, <2>2, PositionsMade
    <3>3. TextSize[sending] \in Nat /\ FileSize[sending] \in Nat
      BY <1>2, SizesOK
    <3>4. sent[next.n] = sending
      BY <3>2, <1>2
    <3> QED
      BY <3>1, <3>3, <3>4, <2>2, <1>3 DEF Valid, Expected
  <2> QED
    BY <1>1, <2>1, <2>3, <2>4 DEF IInv, TypeOK, receiver
<1>7. FilesOnce' /\ GotOK' /\ StopsForReason' /\ BufferHolds'
  BY <1>1 DEF IInv, FilesOnce, GotOK, StopsForReason, BufferHolds, receiver
<1>8. Tracked'
  <2> SUFFICES ASSUME Receiving' PROVE Tracked'
    BY DEF Tracked
  <2>1. Receiving
    BY <1>1 DEF Receiving, receiver
  <2>2. PICK trail \in [1..(Len(wire) + 1) -> Position] :
                 /\ IsTrail(sent, wire, trail)
                 /\ trail[Len(wire) + 1] = SenderAt
                 /\ InStep(trail[1]) \/ Misled(trail[1])
                 /\ Clean(trail[1])
    BY <1>1, <2>1 DEF IInv, Tracked
  <2>3. wire \in Seq(Packet) /\ SenderAt.n <= Len(sent)
    BY <1>2 DEF IInv, TypeOK
  <2>4. PICK longer \in [1..(Len(wire') + 1) -> Position] :
            /\ IsTrail(sent, wire', longer)
            /\ longer[1] = trail[1]
            /\ longer[Len(wire') + 1] = next
    BY <1>1, <1>2, <2>2, <2>3, TrailExtends DEF p, next
  <2>5. (InStep(longer[1]) \/ Misled(longer[1])) /\ Clean(longer[1])
    BY <2>2, <2>4
  <2>6. (InStep(longer[1])' \/ Misled(longer[1])') /\ Clean(longer[1])'
    BY <1>1, <2>5 DEF InStep, Misled, Clean, receiver
  <2>7. IsTrail(sent, wire, longer)'
    BY <1>1, <2>4
  <2> QED
    BY <1>1, <1>4, <2>4, <2>6, <2>7 DEF Tracked
<1> QED
  BY <1>5, <1>6, <1>7, <1>8 DEF IInv

LEMMA SendMessageKeeps ==
  ASSUME IInv, NEW m \in Message, SendMessage(m)
  PROVE  IInv'
<1>1. /\ sending = NoMessage /\ link = "up" /\ MaySend(m)
      /\ sending' = m /\ part' = "messageMetadata" /\ sentBytes' = 0
      /\ sent' = Append(sent, m)
      /\ UNCHANGED <<wire, link, receiver, sessions>>
  BY DEF SendMessage
<1>2. sent \in Seq(Message) /\ Len(sent) \in Nat /\ m # NoMessage /\ wire \in Seq(Packet)
  BY CommPortAssumption DEF IInv, TypeOK
<1>3. /\ sent' \in Seq(Message) /\ Len(sent') = Len(sent) + 1 /\ sent'[Len(sent) + 1] = m
      /\ \A i \in 1..Len(sent) : sent'[i] = sent[i]
  BY <1>1, <1>2
<1>4. TextSize[m] \in Nat /\ FileSize[m] \in Nat
  BY SizesOK
<1>5. TypeOK'
  <2>1. sending' \in Message /\ part' \in Expected /\ sentBytes' = 0 /\ part' # "fileData"
    BY <1>1 DEF Expected
  <2>2. sentBytes' <= TextSize[sending']
    BY <1>1, <1>4
  <2> QED
    BY <1>1, <1>3, <2>1, <2>2 DEF IInv, TypeOK, receiver
<1>6. SenderAt' = SenderAt /\ SenderAt = Begin(Len(sent) + 1)
  BY <1>1, <1>2, <1>3 DEF SenderAt, Begin
<1>7. SenderOK'
  <2>1. Valid(sent, Begin(Len(sent) + 1))
    BY <1>6 DEF IInv, SenderOK
  <2>2. Valid(sent', Begin(Len(sent) + 1))
    BY <1>1, <1>2, <2>1, PositionsStay
  <2>3. Valid(sent, SenderAt)'
    BY <1>6, <2>2
  <2> QED
    BY <1>1, <1>2, <1>3, <2>3 DEF SenderOK
<1>8. ASSUME ~Resends, Attachment[m] # "none"
      PROVE  disk[m] = <<>> /\ \A i \in 1..Len(sent) : sent[i] # m
  BY <1>1, <1>8 DEF MaySend
<1>9. FilesOnce'
  <2> SUFFICES ASSUME ~Resends, NEW i \in 1..Len(sent'), NEW j \in 1..Len(sent'), i # j,
                      Attachment[sent'[i]] # "none"
               PROVE  sent'[i] # sent'[j]
    BY DEF FilesOnce
  <2>1. CASE i \in 1..Len(sent) /\ j \in 1..Len(sent)
    BY <2>1, <1>3 DEF IInv, FilesOnce
  <2>2. CASE i = Len(sent) + 1 /\ j \in 1..Len(sent)
    BY <2>2, <1>3, <1>8
  <2>3. CASE i \in 1..Len(sent) /\ j = Len(sent) + 1
    <3>1. sent'[i] = sent[i] /\ sent'[j] = m
      BY <2>3, <1>3
    <3> QED
      BY <2>3, <3>1, <1>8
  <2> QED
    BY <2>1, <2>2, <2>3, <1>2, <1>3
<1>10. GotOK'
  <2>1. got' = got /\ Len(got) \in Nat /\ Len(got) <= Len(sent)
    BY <1>1 DEF IInv, GotOK, TypeOK, receiver
  <2>2. ASSUME ~Resends, NEW i \in 1..Len(got) PROVE got[i] = Whole(sent'[i])
    <3>1. i \in 1..Len(sent)
      BY <1>2, <2>1
    <3> QED
      BY <2>2, <3>1, <1>3 DEF IInv, GotOK
  <2>3. Len(got') <= Len(sent')
    BY <1>2, <1>3, <2>1
  <2> QED
    BY <2>1, <2>2, <2>3 DEF GotOK, Whole, Text, File, Units
<1>11. ASSUME \E i \in 1..Len(sent) : ~Ends(sent[i])
       PROVE  \E i \in 1..Len(sent') : ~Ends(sent'[i])
  <2>1. PICK i \in 1..Len(sent) : ~Ends(sent[i])
    BY <1>11
  <2>2. i \in 1..Len(sent') /\ sent'[i] = sent[i]
    BY <1>2, <1>3
  <2> QED
    BY <2>1, <2>2
<1>12. StopsForReason' /\ BufferHolds'
  BY <1>1, <1>11 DEF IInv, StopsForReason, BufferHolds, receiver, Ends
<1>13. Tracked'
  <2> SUFFICES ASSUME Receiving' PROVE Tracked'
    BY DEF Tracked
  <2>1. Receiving
    BY <1>1 DEF Receiving, receiver
  <2>2. PICK trail \in [1..(Len(wire) + 1) -> Position] :
                 /\ IsTrail(sent, wire, trail)
                 /\ trail[Len(wire) + 1] = SenderAt
                 /\ InStep(trail[1]) \/ Misled(trail[1])
                 /\ Clean(trail[1])
    BY <1>1, <2>1 DEF IInv, Tracked
  <2>3. IsTrail(sent, wire, trail)'
    BY <1>1, <1>2, <2>2, TrailStays
  <2> DEFINE pos == trail[1]
  <2>4. Valid(sent, pos)
    <3>1. 1 \in 1..(Len(wire) + 1)
      BY <1>2
    <3> QED
      BY <2>2, <3>1 DEF IsTrail
  <2>5. pos.n \in Nat \ {0} /\ pos.part \in Expected
    BY <2>4 DEF Valid, Position
  <2> HIDE DEF pos
  <2>6. pos.part # "messageMetadata" => sent'[pos.n] = sent[pos.n]
    <3>1. pos.part # "messageMetadata" => pos.n <= Len(sent)
      BY <2>4, <2>5 DEF Valid, Expected
    <3> QED
      BY <3>1, <2>5, <1>2, <1>3
  <2>7. InStep(pos) => InStep(pos)'
    BY <1>1, <2>6 DEF InStep, receiver
  <2>8. Misled(pos) => Misled(pos)'
    BY <1>1, <1>11 DEF Misled, Ends, receiver
  <2>9. Clean(pos) => Clean(pos)'
    <3> SUFFICES ASSUME Clean(pos), ~Resends, NEW i \in 1..Len(sent'),
                        Attachment[sent'[i]] # "none",
                        i > pos.n \/ (i = pos.n /\ pos.part # "fileData")
                 PROVE  disk'[sent'[i]] = <<>>
      BY DEF Clean
    <3>1. CASE i \in 1..Len(sent)
      BY <3>1, <1>1, <1>3 DEF Clean, receiver
    <3>2. CASE i = Len(sent) + 1
      BY <3>2, <1>1, <1>3, <1>8 DEF receiver
    <3> QED
      BY <3>1, <3>2, <1>2, <1>3
  <2>10. wire' = wire /\ link' = link
    BY <1>1
  <2>11. (InStep(trail[1])' \/ Misled(trail[1])') /\ Clean(trail[1])'
    BY <2>2, <2>7, <2>8, <2>9 DEF pos
  <2> QED
    BY <1>6, <2>2, <2>3, <2>10, <2>11 DEF Tracked
<1> QED
  BY <1>5, <1>7, <1>9, <1>10, <1>12, <1>13 DEF IInv

Receives == \/ ReceiveMessageMetadata \/ ReceiveMessageData
            \/ ReceiveFileMetadata \/ ReceiveFileData

LEMMA ReceiveTypes ==
  ASSUME TypeOK, Receives
  PROVE  TypeOK'
<1>1. /\ loop = "read" /\ wire # <<>> /\ wire' = Tail(wire) /\ loop' = "head"
      /\ UNCHANGED <<stopped, strays, sender, link, sessions>>
  BY DEF Receives, ReceiveMessageMetadata, ReceiveMessageData, ReceiveFileMetadata,
         ReceiveFileData, Arrives, Taken
<1>2. /\ Packet1 \in Packet /\ Packet1.msg \in Message /\ Packet1.units \in Seq(Unit)
      /\ wire' \in Seq(Packet)
  <2>1. Head(wire) \in Packet /\ Tail(wire) \in Seq(Packet)
    BY <1>1, HeadTailProperties DEF TypeOK
  <2> QED
    BY <1>1, <2>1 DEF Packet1, Packet
<1>3. UNCHANGED <<sending, part, sentBytes, sent>>
  BY <1>1 DEF sender
<1> DEFINE Loop == /\ on \in BOOLEAN /\ expected \in Expected
                   /\ metadata \in Message \cup {NoMessage}
                   /\ loaded \in Seq(Unit)
                   /\ path \in Message \cup {NoMessage}
                   /\ path # NoMessage <=> expected = "fileData"
                   /\ disk \in [Message -> Seq(Unit)]
                   /\ got \in Seq([text : Seq(Unit), file : Seq(Unit)])
<1>4. Loop
  BY DEF TypeOK
<1>5. ASSUME Refuse PROVE Loop'
  BY <1>4, <1>5 DEF Refuse
<1>6. ASSUME NEW text \in Seq(Unit), NEW file \in Seq(Unit), Complete(text, file),
             disk' \in [Message -> Seq(Unit)]
      PROVE  Loop'
  <2>1. [text |-> text, file |-> file] \in [text : Seq(Unit), file : Seq(Unit)]
    OBVIOUS
  <2>2. got' \in Seq([text : Seq(Unit), file : Seq(Unit)])
    BY <1>4, <1>6, <2>1, AppendProperties DEF Complete
  <2>3. loaded' \in Seq(Unit)
    BY <1>6 DEF Complete
  <2> QED
    BY <1>4, <1>6, <2>2, <2>3, CommPortAssumption DEF Complete, Expected
<1>7. loaded \o Packet1.units \in Seq(Unit)
  BY <1>2, <1>4, ConcatProperties
<1>8. CASE ReceiveMessageMetadata
  <2>1. ASSUME Refuse PROVE Loop'
    BY <1>5, <2>1
  <2>2. ASSUME /\ metadata' = Packet1.msg
               /\ expected' = "messageData"
               /\ UNCHANGED <<on, loaded, path, disk, got>>
        PROVE  Loop'
    <3>1. expected = "messageMetadata"
      BY <1>8 DEF ReceiveMessageMetadata, Arrives
    <3> QED
      BY <1>2, <1>4, <2>2, <3>1 DEF Expected
  <2>3. Loop'
    BY <1>8, <2>1, <2>2 DEF ReceiveMessageMetadata
  <2> QED
    BY <1>1, <1>2, <1>3, <2>3 DEF TypeOK
<1>9. CASE ReceiveMessageData
  <2>1. ASSUME Refuse PROVE Loop'
    BY <1>5, <2>1
  <2>2. ASSUME /\ loaded' = loaded \o Packet1.units
               /\ expected' = IF Packet1.end THEN "fileMetadata" ELSE "messageData"
               /\ UNCHANGED <<on, metadata, path, disk, got>>
        PROVE  Loop'
    <3>1. expected = "messageData"
      BY <1>9 DEF ReceiveMessageData, Arrives
    <3>2. expected' \in {"fileMetadata", "messageData"} /\ loaded' \in Seq(Unit)
      BY <1>7, <2>2
    <3> QED
      BY <1>4, <2>2, <3>1, <3>2 DEF Expected
  <2>3. ASSUME Complete(loaded \o Packet1.units, <<>>), UNCHANGED disk
        PROVE  Loop'
    <3>1. <<>> \in Seq(Unit) /\ disk' \in [Message -> Seq(Unit)]
      BY <1>4, <2>3
    <3> QED
      BY <1>6, <1>7, <2>3, <3>1
  <2>4. Loop'
    BY <1>9, <2>1, <2>2, <2>3 DEF ReceiveMessageData
  <2> QED
    BY <1>1, <1>2, <1>3, <2>4 DEF TypeOK
<1>10. CASE ReceiveFileMetadata
  <2>1. ASSUME Refuse PROVE Loop'
    BY <1>5, <2>1
  <2>2. ASSUME /\ path' = Packet1.msg
               /\ expected' = "fileData"
               /\ UNCHANGED <<on, metadata, loaded, disk, got>>
        PROVE  Loop'
    BY <1>2, <1>4, <2>2, CommPortAssumption DEF Expected
  <2>3. Loop'
    BY <1>10, <2>1, <2>2 DEF ReceiveFileMetadata
  <2> QED
    BY <1>1, <1>2, <1>3, <2>3 DEF TypeOK
<1>11. CASE ReceiveFileData
  <2>1. path \in Message
    BY <1>4, <1>11 DEF ReceiveFileData, Arrives
  <2>2. ASSUME Refuse PROVE Loop'
    BY <1>5, <2>2
  <2>3. ASSUME disk' = [disk EXCEPT ![path] = @ \o Packet1.units],
               \/ UNCHANGED <<on, expected, metadata, loaded, path, got>>
               \/ Complete(loaded, disk'[path])
        PROVE  Loop'
    <3>1. disk[path] \o Packet1.units \in Seq(Unit)
      BY <1>2, <1>4, <2>1, ConcatProperties
    <3>2. disk' \in [Message -> Seq(Unit)]
      BY <1>4, <2>3, <3>1
    <3>3. ASSUME UNCHANGED <<on, expected, metadata, loaded, path, got>> PROVE Loop'
      BY <1>4, <3>2, <3>3
    <3>4. ASSUME Complete(loaded, disk'[path]) PROVE Loop'
      BY <1>4, <1>6, <2>1, <3>2, <3>4
    <3> QED
      BY <2>3, <3>3, <3>4
  <2>4. Loop'
    BY <1>11, <2>2, <2>3 DEF ReceiveFileData
  <2> QED
    BY <1>1, <1>2, <1>3, <2>4 DEF TypeOK
<1> QED
  BY <1>8, <1>9, <1>10, <1>11 DEF Receives

LEMMA ReceiveKeeps ==
  ASSUME IInv, Receives
  PROVE  IInv'
<1>1. /\ loop = "read" /\ wire # <<>> /\ wire' = Tail(wire) /\ loop' = "head"
      /\ UNCHANGED <<stopped, strays, sender, link, sessions>>
  BY DEF Receives, ReceiveMessageMetadata, ReceiveMessageData, ReceiveFileMetadata,
         ReceiveFileData, Arrives, Taken
<1>2. TypeOK'
  BY ReceiveTypes DEF IInv
<1>3. /\ UNCHANGED <<sending, part, sentBytes, sent>>
      /\ sent \in Seq(Message) /\ wire \in Seq(Packet)
      /\ SenderAt' = SenderAt
  BY <1>1 DEF sender, SenderAt, IInv, TypeOK
<1>4. SenderOK' /\ FilesOnce'
  BY <1>3 DEF IInv, SenderOK, FilesOnce, Valid
<1>5. Receiving
  BY <1>1 DEF Receiving
<1>6. PICK trail \in [1..(Len(wire) + 1) -> Position] :
                 /\ IsTrail(sent, wire, trail)
                 /\ link = "up" => trail[Len(wire) + 1] = SenderAt
                 /\ InStep(trail[1]) \/ Misled(trail[1])
                 /\ Clean(trail[1])
  BY <1>5 DEF IInv, Tracked
<1>7. /\ trail[1].n <= Len(sent) /\ Valid(sent, trail[1])
      /\ Head(wire) = PacketAt(sent, trail[1])
  BY <1>1, <1>3, <1>6, TrailShortens
<1>8. PICK shorter \in [1..(Len(wire') + 1) -> Position] :
        /\ IsTrail(sent, wire', shorter)
        /\ shorter[1] = After(sent, trail[1])
        /\ shorter[Len(wire') + 1] = trail[Len(wire) + 1]
  BY <1>1, <1>3, <1>6, TrailShortens
<1>9. link # "closed"
  BY <1>1 DEF IInv, StopsForReason
<1>10. CASE Misled(trail[1])
  <2>1. Refuse
    BY <1>1, <1>7, <1>10, MisledRefuses DEF Receives
  <2>2. \E i \in 1..Len(sent) : ~Ends(sent[i])
    BY <1>10 DEF Misled
  <2>3. Tracked'
    BY <1>1, <2>1 DEF Tracked, Receiving, Refuse
  <2>4. StopsForReason'
    BY <1>1, <1>3, <1>9, <2>2 DEF StopsForReason, Ends
  <2>5. GotOK' /\ BufferHolds'
    BY <1>3, <2>1 DEF Refuse, IInv, GotOK, BufferHolds
  <2> QED
    BY <1>2, <1>4, <2>3, <2>4, <2>5 DEF IInv
<1>11. CASE InStep(trail[1])
  <2>1. Expects(trail[1], shorter[1])
    BY <1>1, <1>6, <1>7, <1>8, <1>11 DEF Expects, IInv
  <2>2. Proceeds(trail[1], shorter[1])
    BY <2>1, TakesMessageMetadata, TakesMessageData, TakesFileMetadata, TakesFileData
       DEF Receives
  <2>3. StopsForReason'
    BY <1>1, <1>3, <1>9, <2>2 DEF Proceeds, IInv, StopsForReason, Ends
  <2>4. IsTrail(sent, wire, shorter)'
    BY <1>3, <1>8
  <2>5. link' = "up" => shorter[Len(wire') + 1] = SenderAt'
    BY <1>1, <1>3, <1>6, <1>8
  <2>6. Tracked'
    BY <1>8, <2>2, <2>4, <2>5 DEF Tracked, Proceeds
  <2> QED
    BY <1>2, <1>4, <2>2, <2>3, <2>6 DEF IInv, Proceeds
<1> QED
  BY <1>6, <1>10, <1>11

\* Steps that neither send nor take a packet, nor begin a connection.
LEMMA QuietKeeps ==
  ASSUME IInv, Round \/ LoopEnds \/ ReadFails \/ EndOfStream \/ Break \/ SenderCloses
                 \/ StopListening \/ UNCHANGED vars
  PROVE  IInv'
<1>1. UNCHANGED <<sending, part, sentBytes, sent, disk, got>>
  BY DEF Round, LoopEnds, ReadFails, EndOfStream, Break, SenderCloses, StopListening, Refuse,
         vars, sender, receiver
<1>2. SenderOK' /\ FilesOnce' /\ GotOK' /\ SenderAt' = SenderAt
  BY <1>1 DEF IInv, SenderOK, FilesOnce, GotOK, SenderAt, Valid
<1>3. CASE Round \/ StopListening \/ SenderCloses \/ UNCHANGED vars
  <2>1. /\ UNCHANGED <<wire, expected, metadata, loaded, path, strays, sessions>>
        /\ loop' \in {"head", "read", "closed", "spin"} /\ on' \in BOOLEAN /\ stopped' \in BOOLEAN
        /\ link' \in {"up", "broken", "eof", "closed"}
        /\ Receiving' => Receiving
        /\ link' = "up" => link = "up"
    <3>1. /\ loop \in {"head", "read", "closed", "spin"} /\ on \in BOOLEAN
          /\ stopped \in BOOLEAN /\ link \in {"up", "broken", "eof", "closed"}
      BY DEF IInv, TypeOK
    <3>2. CASE Round
      BY <3>1, <3>2 DEF Round, Receiving, sender
    <3>3. CASE StopListening
      BY <3>1, <3>3 DEF StopListening, Receiving, sender
    <3>4. CASE SenderCloses
      BY <3>1, <3>4 DEF SenderCloses, Receiving, sender, receiver
    <3>5. CASE UNCHANGED vars
      BY <3>1, <3>5 DEF vars, Receiving, sender, receiver
    <3> QED
      BY <1>3, <3>2, <3>3, <3>4, <3>5
  <2>2. TypeOK' /\ BufferHolds'
    BY <1>1, <2>1 DEF IInv, TypeOK, BufferHolds
  <2>3. Tracked'
    BY <1>1, <1>2, <2>1, TrackedStays DEF IInv
  <2>4. StopsForReason'
    BY <1>1, <1>3 DEF IInv, StopsForReason, Round, StopListening, SenderCloses, vars, sender,
                      receiver, Ends
  <2> QED
    BY <1>2, <2>2, <2>3, <2>4 DEF IInv
<1>4. CASE LoopEnds
  <2>1. /\ loop = "head" /\ ~on /\ loop' = "closed" /\ wire' = <<>>
        /\ link' = IF link = "up" THEN "closed" ELSE link
        /\ UNCHANGED <<on, stopped, expected, metadata, loaded, path, strays, sessions>>
    BY <1>4 DEF LoopEnds
  <2>2. wire' \in Seq(Packet)
    BY <2>1
  <2>3. TypeOK' /\ BufferHolds'
    BY <1>1, <2>1, <2>2 DEF IInv, TypeOK, BufferHolds
  <2>4. Tracked'
    BY <2>1 DEF Tracked, Receiving
  <2>5. StopsForReason'
    BY <1>1, <2>1 DEF IInv, StopsForReason, Ends
  <2> QED
    BY <1>2, <2>3, <2>4, <2>5 DEF IInv
<1>5. CASE ReadFails \/ EndOfStream
  <2>1. /\ loop = "read" /\ wire = <<>> /\ wire' = wire /\ link' = link /\ link # "up"
        /\ link \in {"broken", "eof"} /\ loop' \in {"head", "spin"}
        /\ UNCHANGED <<stopped, sessions>>
    BY <1>5 DEF ReadFails, EndOfStream
  <2>2. /\ on' \in BOOLEAN /\ strays' \in Nat
        /\ \/ UNCHANGED <<expected, metadata, loaded, path>>
           \/ /\ expected' = "messageMetadata" /\ metadata' = NoMessage /\ loaded' = <<>>
              /\ path' = NoMessage
    <3>1. on \in BOOLEAN /\ strays \in Nat
      BY DEF IInv, TypeOK
    <3>2. CASE ReadFails
      BY <3>1, <3>2 DEF ReadFails, Refuse
    <3>3. CASE EndOfStream
      <4>1. CASE Refuse /\ UNCHANGED strays
        BY <3>1, <4>1 DEF Refuse
      <4>2. CASE UNCHANGED <<on, expected, metadata, loaded, path, disk, got, strays>>
        BY <3>1, <4>2
      <4>3. CASE /\ strays' = strays + 1 /\ on' = on
                 /\ expected' = "messageMetadata"
                 /\ metadata' = NoMessage /\ loaded' = <<>> /\ path' = NoMessage
        <5>1. strays' \in Nat
          BY <3>1, <4>3
        <5> QED
          BY <3>1, <4>3, <5>1
      <4> QED
        BY <3>3, <4>1, <4>2, <4>3 DEF EndOfStream
    <3> QED
      BY <1>5, <3>2, <3>3
  <2>3. <<>> \in Seq(Unit)
    OBVIOUS
  <2>4. TypeOK' /\ BufferHolds'
    BY <1>1, <2>1, <2>2, <2>3 DEF IInv, TypeOK, BufferHolds, Expected
  <2>5. Tracked'
    BY <2>1 DEF Tracked, Receiving
  <2>6. StopsForReason'
    BY <1>1, <2>1 DEF IInv, StopsForReason
  <2> QED
    BY <1>2, <2>4, <2>5, <2>6 DEF IInv
<1>6. CASE Break
  <2>1. /\ link = "up" /\ link' = "broken"
        /\ UNCHANGED <<sender, receiver, sessions>>
    BY <1>6 DEF Break
  <2>2. PICK n \in 0..Len(wire) : wire' = SubSeq(wire, 1, n)
    BY <1>6 DEF Break
  <2>3. wire \in Seq(Packet) /\ wire' \in Seq(Packet) /\ sent \in Seq(Message)
    BY <2>2 DEF IInv, TypeOK
  <2>4. TypeOK' /\ BufferHolds'
    BY <2>1, <2>3 DEF IInv, TypeOK, BufferHolds, sender, receiver
  <2>5. StopsForReason'
    BY <2>1 DEF IInv, StopsForReason, receiver
  <2>6. Tracked'
    <3> SUFFICES ASSUME Receiving' PROVE Tracked'
      BY DEF Tracked
    <3>1. Receiving
      BY <2>1 DEF Receiving, receiver
    <3>2. PICK trail \in [1..(Len(wire) + 1) -> Position] :
                 /\ IsTrail(sent, wire, trail)
                 /\ InStep(trail[1]) \/ Misled(trail[1])
                 /\ Clean(trail[1])
      BY <3>1 DEF IInv, Tracked
    <3>3. PICK shorter \in [1..(Len(wire') + 1) -> Position] :
            IsTrail(sent, wire', shorter) /\ shorter[1] = trail[1]
      BY <2>2, <2>3, <3>2, TrailIsCut
    <3>4. IsTrail(sent, wire, shorter)'
      BY <1>1, <3>3
    <3>5. (InStep(shorter[1]) \/ Misled(shorter[1])) /\ Clean(shorter[1])
      BY <3>2, <3>3
    <3>6. (InStep(shorter[1])' \/ Misled(shorter[1])') /\ Clean(shorter[1])'
      BY <1>1, <2>1, <3>5 DEF InStep, Misled, Clean, receiver
    <3> QED
      BY <2>1, <3>3, <3>4, <3>6 DEF Tracked
  <2> QED
    BY <1>2, <2>4, <2>5, <2>6 DEF IInv
<1> QED
  BY <1>3, <1>4, <1>5, <1>6

\* A new connection is like the first one, but for the files that are there.
LEMMA ReconnectKeeps ==
  ASSUME IInv, Reconnect
  PROVE  IInv'
<1>1. /\ sending' = NoMessage /\ part' = "messageMetadata" /\ sentBytes' = 0
      /\ wire' = <<>> /\ link' = "up"
      /\ loop' = "head" /\ on' = TRUE /\ stopped' = FALSE
      /\ expected' = "messageMetadata" /\ metadata' = NoMessage /\ loaded' = <<>>
      /\ path' = NoMessage
      /\ sent' = <<>> /\ got' = <<>> /\ sessions' = sessions + 1
      /\ UNCHANGED <<disk, strays>>
  BY DEF Reconnect
<1>2. Len(sent') = 0 /\ Len(got') = 0 /\ Len(wire') = 0
  BY <1>1
<1>3. TypeOK'
  <2>1. /\ wire' \in Seq(Packet) /\ loaded' \in Seq(Unit) /\ sent' \in Seq(Message)
        /\ got' \in Seq([text : Seq(Unit), file : Seq(Unit)])
    BY <1>1
  <2>2. sessions' \in Nat /\ strays' \in Nat /\ disk' \in [Message -> Seq(Unit)]
    BY <1>1 DEF IInv, TypeOK
  <2>3. /\ sending' = NoMessage /\ part' \in Expected /\ sentBytes' \in Nat
        /\ link' \in {"up", "broken", "eof", "closed"}
        /\ loop' \in {"head", "read", "closed", "spin"}
        /\ on' \in BOOLEAN /\ stopped' \in BOOLEAN
        /\ expected' \in Expected /\ metadata' = NoMessage
        /\ path' = NoMessage /\ expected' # "fileData"
    BY <1>1 DEF Expected
  <2> QED
    BY <2>1, <2>2, <2>3 DEF TypeOK
<1>4. SenderAt' = Begin(1) /\ Begin(1) \in Position /\ Begin(1).n = 1
      /\ Begin(1).part = "messageMetadata" /\ Begin(1).bytes = 0
  BY <1>1, <1>2, PositionsMade DEF SenderAt, Expected
<1>5. Valid(sent', Begin(1))
  BY <1>2, <1>4 DEF Valid
<1>6. SenderOK'
  BY <1>1, <1>4, <1>5 DEF SenderOK
<1>7. FilesOnce' /\ GotOK' /\ StopsForReason' /\ BufferHolds'
  BY <1>1, <1>2 DEF FilesOnce, GotOK, StopsForReason, BufferHolds
<1>8. Tracked'
  <2> DEFINE trail == [i \in 1..1 |-> Begin(1)]
  <2>1. trail \in [1..(Len(wire') + 1) -> Position] /\ trail[1] = Begin(1)
    BY <1>2, <1>4
  <2> HIDE DEF trail
  <2>2. IsTrail(sent', wire', trail)
    BY <1>2, <1>5, <2>1 DEF IsTrail
  <2>3. InStep(Begin(1))'
    BY <1>1, <1>2, <1>4 DEF InStep
  <2>4. Clean(Begin(1))'
    BY <1>2 DEF Clean
  <2>5. trail[Len(wire') + 1] = SenderAt'
    BY <1>2, <1>4, <2>1
  <2> QED
    BY <2>1, <2>2, <2>3, <2>4, <2>5 DEF Tracked
<1> QED
  BY <1>3, <1>6, <1>7, <1>8 DEF IInv

LEMMA NextKeeps == IInv /\ [Next]_vars => IInv'
<1> SUFFICES ASSUME IInv, [Next]_vars PROVE IInv'
  OBVIOUS
<1>1. CASE \E m \in Message : SendMessage(m)
  BY <1>1, SendMessageKeeps
<1>2. CASE Send
  BY <1>2, SenderKeeps, SendFailsKeeps DEF Send
<1>3. CASE Listen
  BY <1>3, QuietKeeps, ReceiveKeeps DEF Listen, Receives
<1>4. CASE Break \/ SenderCloses \/ StopListening \/ UNCHANGED vars
  BY <1>4, QuietKeeps
<1>5. CASE Reconnect
  BY <1>5, ReconnectKeeps
<1> QED
  BY <1>1, <1>2, <1>3, <1>4, <1>5 DEF Next

LEMMA Inductive == Spec => []IInv
  BY InitHolds, NextKeeps, PTL DEF Spec

-----------------------------------------------------------------------------
(* The theorems.                                                           *)

\* The types of the variables (sendRawMessage, listeningLoop): the loop has a file open
\* when and only when it expects the data of one.
THEOREM PortIsTyped == Spec => []TypeOK
<1>1. IInv => TypeOK
  BY DEF IInv
<1> QED
  BY <1>1, Inductive, PTL

\* The memcpy of listeningLoop into totalMessageData stays within the size that the
\* metadata announced, for texts and packets of every size, wherever the connection breaks
\* and whatever is read at its end.
THEOREM BufferIsNeverOverrun == Spec => []BufferHolds
<1>1. IInv => BufferHolds
  BY DEF IInv
<1> QED
  BY <1>1, Inductive, PTL

\* listeningLoop closes a good connection only when it was told to stop, or after a message
\* whose file is empty or was refused: it never mistakes one packet for another.
THEOREM LoopStaysInStep == Spec => []StaysInStep
<1>1. IInv => StaysInStep
  BY DEF IInv, StopsForReason, StaysInStep
<1> QED
  BY <1>1, Inductive, PTL

\* The messages of a connection as Transfer has them.
WholeSent(s) == [i \in 1..Len(s) |-> Whole(s[i])]

LEMMA WholeSentAppend ==
  ASSUME NEW s \in Seq(Message), NEW m \in Message
  PROVE  WholeSent(Append(s, m)) = Append(WholeSent(s), Whole(m))
<1>1. /\ Append(s, m) \in Seq(Message) /\ Len(Append(s, m)) = Len(s) + 1 /\ Len(s) \in Nat
      /\ Append(s, m)[Len(s) + 1] = m /\ \A i \in 1..Len(s) : Append(s, m)[i] = s[i]
  BY AppendProperties
<1> DEFINE Delivered == {Whole(x) : x \in Message}
<1>2. WholeSent(s) \in Seq(Delivered) /\ Len(WholeSent(s)) = Len(s)
      /\ \A i \in 1..Len(s) : WholeSent(s)[i] = Whole(s[i])
  <2>1. \A i \in 1..Len(s) : Whole(s[i]) \in Delivered
    OBVIOUS
  <2> HIDE DEF Delivered
  <2> QED
    BY <1>1, <2>1 DEF WholeSent
<1>3. WholeSent(Append(s, m)) \in Seq(Delivered) /\ Len(WholeSent(Append(s, m))) = Len(s) + 1
      /\ \A i \in 1..(Len(s) + 1) : WholeSent(Append(s, m))[i] = Whole(Append(s, m)[i])
  <2>1. \A i \in 1..(Len(s) + 1) : Whole(Append(s, m)[i]) \in Delivered
    BY <1>1
  <2> HIDE DEF Delivered
  <2> QED
    BY <1>1, <2>1 DEF WholeSent
<1>4. Whole(m) \in Delivered
  OBVIOUS
<1> HIDE DEF Delivered
<1>5. /\ Append(WholeSent(s), Whole(m)) \in Seq(Delivered)
      /\ Len(Append(WholeSent(s), Whole(m))) = Len(s) + 1
      /\ \A i \in 1..Len(s) : Append(WholeSent(s), Whole(m))[i] = WholeSent(s)[i]
      /\ Append(WholeSent(s), Whole(m))[Len(s) + 1] = Whole(m)
  BY <1>2, <1>4, AppendProperties
<1>6. ASSUME NEW i \in 1..(Len(s) + 1)
      PROVE  WholeSent(Append(s, m))[i] = Append(WholeSent(s), Whole(m))[i]
  <2>1. CASE i \in 1..Len(s)
    BY <2>1, <1>1, <1>2, <1>3, <1>5
  <2>2. CASE i = Len(s) + 1
    BY <2>2, <1>1, <1>3, <1>5
  <2>3. Len(s) \in Nat
    BY <1>1
  <2>4. i \in 1..Len(s) \/ i = Len(s) + 1
    BY <2>3
  <2> QED
    BY <2>1, <2>2, <2>4
<1> QED
  BY <1>3, <1>5, <1>6, SeqEqual

\* Only a packet that completes a message makes the listener hear of one.
LEMMA ReceiveDelivers ==
  ASSUME Receives
  PROVE  sent' = sent /\ (got' = got \/ \E r : got' = Append(got, r))
<1>1. sent' = sent
  BY DEF Receives, ReceiveMessageMetadata, ReceiveMessageData, ReceiveFileMetadata,
         ReceiveFileData, Taken, sender
<1>2. ASSUME NEW text, NEW file, Complete(text, file) PROVE \E r : got' = Append(got, r)
  BY <1>2 DEF Complete
<1>3. CASE ReceiveMessageMetadata \/ ReceiveFileMetadata
  BY <1>1, <1>3 DEF ReceiveMessageMetadata, ReceiveFileMetadata, Refuse
<1>4. CASE ReceiveMessageData
  BY <1>1, <1>2, <1>4 DEF ReceiveMessageData, Refuse
<1>5. CASE ReceiveFileData
  BY <1>1, <1>2, <1>5 DEF ReceiveFileData, Refuse
<1> QED
  BY <1>3, <1>4, <1>5 DEF Receives

LEMMA OthersAreQuiet ==
  ASSUME \/ Send \/ Round \/ LoopEnds \/ ReadFails \/ EndOfStream
         \/ Break \/ SenderCloses \/ StopListening \/ UNCHANGED vars
  PROVE  UNCHANGED <<sent, got>>
  BY DEF Send, SendMessageMetadata, SendMessageData, SendFileMetadata, SendFileData, SendFails,
         Round, LoopEnds, ReadFails, EndOfStream, Refuse, Break, SenderCloses, StopListening,
         vars, sender, receiver

\* If no file is sent twice, what the listener is given in a connection are the messages
\* that were sent in it, whole and in their order, each at most once: the two ends of
\* CommPort implement Transfer, for all sizes of texts, files and packets, although the
\* connection may break or be closed between any two packets.
THEOREM PortImplementsTransfer ==
  ASSUME ~Resends
  PROVE  Spec => TransferSpec
<1>1. Init => T!Init
  BY DEF Init, T!Init
<1>2. ASSUME IInv, IInv', [Next]_vars
      PROVE  [T!Next]_<<WholeSent(sent), got>>
  <2>1. sent \in Seq(Message)
    BY <1>2 DEF IInv, TypeOK
  <2>2. CASE \E m \in Message : SendMessage(m)
    <3>1. PICK m \in Message : SendMessage(m)
      BY <2>2
    <3>2. sent' = Append(sent, m) /\ got' = got
      BY <3>1 DEF SendMessage, receiver
    <3>3. WholeSent(sent') = Append(WholeSent(sent), Whole(m))
      BY <2>1, <3>2, WholeSentAppend
    <3>4. T!Send(Whole(m))
      BY <3>2, <3>3 DEF T!Send, WholeSent
    <3> QED
      BY <3>4 DEF T!Next
  <2>3. CASE Receives
    <3>1. sent' = sent /\ (got' = got \/ \E r : got' = Append(got, r))
      BY <2>3, ReceiveDelivers
    <3>2. CASE got' = got
      BY <3>1, <3>2
    <3>3. CASE \E r : got' = Append(got, r)
      <4>1. PICK r : got' = Append(got, r)
        BY <3>3
      <4>2. got \in Seq([text : Seq(Unit), file : Seq(Unit)]) /\ Len(got) \in Nat
        BY <1>2 DEF IInv, TypeOK
      <4>3. Len(got') = Len(got) + 1 /\ got'[Len(got) + 1] = r
        BY <4>1, <4>2
      <4>4. Len(got) + 1 <= Len(sent) /\ r = Whole(sent[Len(got) + 1])
        <5> DEFINE i == Len(got) + 1
        <5>1. GotOK' /\ i \in Nat /\ i >= 1
          BY <1>2, <4>2 DEF IInv
        <5>2. Len(got') <= Len(sent') /\ \A k \in 1..Len(got') : got'[k] = Whole(sent'[k])
          BY <5>1, <1>2 DEF GotOK
        <5>3. i <= Len(sent)
          BY <5>2, <3>1, <4>3
        <5>4. r = Whole(sent'[i])
          BY <5>1, <5>2, <4>3
        <5> QED
          BY <5>3, <5>4, <3>1
      <4>5. Len(WholeSent(sent)) = Len(sent) /\ Len(sent) \in Nat
            /\ WholeSent(sent)[Len(got) + 1] = r
        BY <2>1, <4>2, <4>4 DEF WholeSent
      <4>6. T!Deliver
        BY <3>1, <4>1, <4>2, <4>4, <4>5 DEF T!Deliver, WholeSent
      <4> QED
        BY <4>6 DEF T!Next
    <3> QED
      BY <3>1, <3>2, <3>3
  <2>4. CASE Reconnect
    <3>1. sent' = <<>> /\ got' = <<>>
      BY <2>4 DEF Reconnect
    <3>2. T!Reconnect
      BY <3>1 DEF T!Reconnect
    <3> QED
      BY <3>2 DEF T!Next
  <2>5. CASE UNCHANGED <<sent, got>>
    BY <2>5
  <2>6. \/ \E m \in Message : SendMessage(m)
        \/ Receives \/ Reconnect
        \/ UNCHANGED <<sent, got>>
    BY <1>2, OthersAreQuiet DEF Next, Listen, Receives
  <2> QED
    BY <2>2, <2>3, <2>4, <2>5, <2>6
<1>3. IInv /\ IInv' /\ [Next]_vars => [T!Next]_<<WholeSent(sent), got>>
  BY <1>2
<1> QED
  BY <1>1, <1>3, Inductive, PTL DEF Spec, TransferSpec, T!Spec, WholeSent
=============================================================================
