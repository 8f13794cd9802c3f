------------------------------ MODULE CommPort ------------------------------
(***************************************************************************)
(* The packets of CommPort: sendRawMessage at one end of a connection,     *)
(* listeningLoop at the other, and a stream of bytes between them that may *)
(* break at any time.                                                      *)
(*                                                                         *)
(* A message has a text and perhaps a file.  It is sent as a metadata      *)
(* packet, the packets of its text, and for a file a metadata packet and   *)
(* the packets of the file.  The loop tells the two kinds of metadata apart*)
(* only by what it expects.  A unit is what one byte of the code is; the   *)
(* i-th unit of m's text or file is <<m, i>>.                              *)
(***************************************************************************)
EXTENDS Naturals, Sequences

CONSTANTS
  Message,      \* messages that may be sent
  NoMessage,
  TextSize,     \* length of the text of each message
  Attachment,   \* "none", "file", or "refused": sendRawMessage refuses its name
  FileSize,     \* length of the file of each message
  MaxPayload,   \* CommRawPacketHeader::kMaxPacketPayloadSize
  Resends,      \* may a file of the same name be sent again?
  MaxSends,     \* BOUND: messages sent in one connection
  MaxSessions,  \* BOUND: connections
  MaxStrays     \* BOUND: messages made out of nothing, see EndOfStream

ASSUME CommPortAssumption ==
  /\ NoMessage \notin Message
  /\ TextSize \in [Message -> Nat \ {0}]
  /\ Attachment \in [Message -> {"none", "file", "refused"}]
  /\ FileSize \in [Message -> Nat]
  /\ MaxPayload \in Nat \ {0}
  /\ Resends \in BOOLEAN
  /\ {MaxSends, MaxSessions, MaxStrays} \subseteq Nat

VARIABLES
  sending,    \* the message that sendRawMessage is sending
  part,       \* what it sends next
  sentBytes,  \* units of the present text or file that it has sent
  wire,       \* packets on their way
  link,       \* "up", "broken", or closed by the sender ("eof") or the loop ("closed")
  loop,       \* where listeningLoop is
  on,         \* mIsListeningThreadOn
  stopped,    \* has stopListeningThread been called from outside the loop?
  expected,   \* expectedPayloadType
  metadata,   \* the message of messageMetadata
  loaded,     \* what totalMessageData holds
  path,       \* the file that fdToWrite writes, named by its message
  disk,       \* the files in the download folder
  sent, got,  \* messages begun and messages given to the listener, see Transfer
  strays,     \* messages given to the listener after the end of the stream
  sessions    \* how many connections there have been

sender == <<sending, part, sentBytes, sent>>
receiver == <<loop, on, stopped, expected, metadata, loaded, path, disk, got, strays>>
vars == <<sender, receiver, wire, link, sessions>>

Units(m, n) == [i \in 1..n |-> <<m, i>>]
Text(m) == Units(m, TextSize[m])
File(m) == IF Attachment[m] = "none" THEN <<>> ELSE Units(m, FileSize[m])
Whole(m) == [text |-> Text(m), file |-> File(m)]

-----------------------------------------------------------------------------
(* Packets: what the flag of CommRawPacketHeader says, and the payload.     *)

\* Metadata of a message, or of its file.
Metadata(kind, m) ==
  [flag |-> "metadata", end |-> FALSE, kind |-> kind, msg |-> m, units |-> <<>>]

\* Mutant of Data: a last packet of the full size is not marked as the end.
DataLate(flag, kind, m, content, from) ==
  LET rest == Len(content) - from
      size == IF MaxPayload < rest THEN MaxPayload ELSE rest
  IN [flag |-> flag, end |-> rest < MaxPayload, kind |-> kind, msg |-> m,
      units |-> SubSeq(content, from + 1, from + size)]

\* The packet of the content that comes after the first units.
Data(flag, kind, m, content, from) ==
  LET rest == Len(content) - from
      size == IF MaxPayload < rest THEN MaxPayload ELSE rest
  IN [flag |-> flag, end |-> rest <= MaxPayload, kind |-> kind, msg |-> m,
      units |-> SubSeq(content, from + 1, from + size)]

Unit == Message \X Nat
Packet == [flag : {"metadata", "data", "file"}, end : BOOLEAN,
           kind : {"message", "file"}, msg : Message, units : Seq(Unit)]
Expected == {"messageMetadata", "messageData", "fileMetadata", "fileData"}

TypeOK ==
  /\ sending \in Message \cup {NoMessage}
  /\ part \in Expected
  /\ sentBytes \in Nat
  /\ sending # NoMessage =>
       sentBytes <= IF part = "fileData" THEN FileSize[sending] ELSE TextSize[sending]
  /\ wire \in Seq(Packet)
  /\ link \in {"up", "broken", "eof", "closed"}
  /\ loop \in {"head", "read", "closed", "spin"}
  /\ on \in BOOLEAN /\ stopped \in BOOLEAN
  /\ expected \in Expected
  /\ metadata \in Message \cup {NoMessage}
  /\ loaded \in Seq(Unit)
  /\ path \in Message \cup {NoMessage}
  /\ path # NoMessage <=> expected = "fileData"
  /\ disk \in [Message -> Seq(Unit)]
  /\ sent \in Seq(Message)
  /\ got \in Seq([text : Seq(Unit), file : Seq(Unit)])
  /\ strays \in Nat /\ sessions \in Nat

Init ==
  /\ sending = NoMessage /\ part = "messageMetadata" /\ sentBytes = 0
  /\ wire = <<>> /\ link = "up"
  /\ loop = "head" /\ on = TRUE /\ stopped = FALSE
  /\ expected = "messageMetadata" /\ metadata = NoMessage /\ loaded = <<>>
  /\ path = NoMessage
  /\ sent = <<>> /\ got = <<>>
  /\ disk = [m \in Message |-> <<>>]
  /\ strays = 0 /\ sessions = 1

-----------------------------------------------------------------------------
(* sendRawMessage.  A write of one packet is one step.                      *)

\* Writing fails at some time after the connection is gone, and isConnected is
\* false: the message is dropped, whatever of it has been written.
SendFails ==
  /\ sending # NoMessage
  /\ link # "up"
  /\ sending' = NoMessage /\ part' = "messageMetadata" /\ sentBytes' = 0
  /\ UNCHANGED <<wire, link, sent, receiver, sessions>>

\* A file is sent again only if Resends says so.
MaySend(m) ==
  \/ Resends \/ Attachment[m] = "none"
  \/ disk[m] = <<>> /\ \A i \in 1..Len(sent) : sent[i] # m

SendMessage(m) ==
  /\ sending = NoMessage /\ link = "up"
  /\ Len(sent) < MaxSends /\ MaySend(m)
  /\ sending' = m /\ part' = "messageMetadata" /\ sentBytes' = 0
  /\ sent' = Append(sent, m)
  /\ UNCHANGED <<wire, link, receiver, sessions>>

Write(packet) == wire' = Append(wire, packet)

\* Mutant of GoOn: the file is sent from where the text ended.
GoOnFrom(p) ==
  /\ part' = p
  /\ sentBytes' = IF p = "messageMetadata" THEN 0 ELSE sentBytes
  /\ sending' = IF p = "messageMetadata" THEN NoMessage ELSE sending

\* The message is through, or goes on with the part p.
GoOn(p) ==
  /\ part' = p /\ sentBytes' = 0
  /\ sending' = IF p = "messageMetadata" THEN NoMessage ELSE sending

SendMessageMetadata ==
  /\ sending # NoMessage /\ part = "messageMetadata" /\ link = "up"
  /\ Write(Metadata("message", sending))
  /\ part' = "messageData" /\ sentBytes' = 0
  /\ UNCHANGED <<sending, sent, link, receiver, sessions>>

\* The loop sends while there are units left.
SendMessageData ==
  /\ sending # NoMessage /\ part = "messageData" /\ link = "up"
  /\ LET p == Data("data", "message", sending, Text(sending), sentBytes)
         n == sentBytes + Len(p.units)
     IN /\ Write(p)
        /\ IF n < TextSize[sending]
           THEN sentBytes' = n /\ UNCHANGED <<sending, part>>
           ELSE GoOn(IF Attachment[sending] = "file" THEN "fileMetadata"
                                                     ELSE "messageMetadata")
  /\ UNCHANGED <<sent, link, receiver, sessions>>

\* No packet follows for an empty file.
SendFileMetadata ==
  /\ sending # NoMessage /\ part = "fileMetadata" /\ link = "up"
  /\ Write(Metadata("file", sending))
  /\ GoOn(IF FileSize[sending] > 0 THEN "fileData" ELSE "messageMetadata")
  /\ UNCHANGED <<sent, link, receiver, sessions>>

SendFileData ==
  /\ sending # NoMessage /\ part = "fileData" /\ link = "up"
  /\ LET p == Data("file", "file", sending, File(sending), sentBytes)
         n == sentBytes + Len(p.units)
     IN /\ Write(p)
        /\ IF n < FileSize[sending]
           THEN sentBytes' = n /\ UNCHANGED <<sending, part>>
           ELSE GoOn("messageMetadata")
  /\ UNCHANGED <<sent, link, receiver, sessions>>

-----------------------------------------------------------------------------
(* listeningLoop.  One round of the loop is two steps: the look at          *)
(* mIsListeningThreadOn, and the packet.                                    *)

Round ==
  /\ loop = "head" /\ on
  /\ loop' = "read"
  /\ UNCHANGED <<on, stopped, expected, metadata, loaded, path, disk, got, strays>>
  /\ UNCHANGED <<sender, wire, link, sessions>>

\* closeConnection; what is still on its way is lost.
LoopEnds ==
  /\ loop = "head" /\ ~on
  /\ loop' = "closed"
  /\ link' = IF link = "up" THEN "closed" ELSE link
  /\ wire' = <<>>
  /\ UNCHANGED <<on, stopped, expected, metadata, loaded, path, disk, got, strays>>
  /\ UNCHANGED <<sender, sessions>>

Arrives(e) == loop = "read" /\ wire # <<>> /\ expected = e
Packet1 == Head(wire)

\* The packet is read, and the loop goes on, perhaps with its last look at on.
Taken ==
  /\ wire' = Tail(wire) /\ loop' = "head"
  /\ UNCHANGED <<stopped, strays, sender, link, sessions>>

\* stopListeningThread: not the packet that is expected.
Refuse ==
  /\ on' = FALSE
  /\ UNCHANGED <<expected, metadata, loaded, path, disk, got>>

\* Mutants of Complete: fileMetadata, loadedBytesSize are not initialized.
CompleteKeepsFile(text, file) ==
  /\ got' = Append(got, [text |-> text, file |-> file])
  /\ expected' = "messageMetadata"
  /\ metadata' = NoMessage /\ loaded' = <<>>
  /\ UNCHANGED <<on, path>>

CompleteKeepsText(text, file) ==
  /\ got' = Append(got, [text |-> text, file |-> file])
  /\ expected' = "messageMetadata"
  /\ metadata' = NoMessage /\ path' = NoMessage
  /\ loaded' = text
  /\ UNCHANGED on

\* The listener gets the message; the variables are initialized.
Complete(text, file) ==
  /\ got' = Append(got, [text |-> text, file |-> file])
  /\ expected' = "messageMetadata"
  /\ metadata' = NoMessage /\ loaded' = <<>> /\ path' = NoMessage
  /\ UNCHANGED on

ReceiveMessageMetadata ==
  /\ Arrives("messageMetadata")
  /\ Taken
  /\ IF Packet1.flag = "metadata" /\ Packet1.kind = "message"
     THEN /\ metadata' = Packet1.msg
          /\ expected' = "messageData"
          /\ UNCHANGED <<on, loaded, path, disk, got>>
     ELSE Refuse

ReceiveMessageData ==
  /\ Arrives("messageData")
  /\ Taken
  /\ \/ Packet1.flag # "data" /\ Refuse
     \/ /\ Packet1.flag = "data" /\ ~(Packet1.end /\ Attachment[metadata] = "none")
        /\ loaded' = loaded \o Packet1.units
        /\ expected' = IF Packet1.end THEN "fileMetadata" ELSE "messageData"
        /\ UNCHANGED <<on, metadata, path, disk, got>>
     \/ /\ Packet1.flag = "data" /\ Packet1.end /\ Attachment[metadata] = "none"
        /\ Complete(loaded \o Packet1.units, <<>>)
        /\ UNCHANGED disk

\* The metadata of another message passes for that of the file: what is read as the
\* name of the file does not open, or the next header is read out of step.
ReceiveFileMetadata ==
  /\ Arrives("fileMetadata")
  /\ Taken
  /\ IF Packet1.flag = "metadata" /\ Packet1.kind = "file"
     THEN /\ path' = Packet1.msg
          /\ expected' = "fileData"
          /\ UNCHANGED <<on, metadata, loaded, disk, got>>
     ELSE Refuse

\* The file was opened to append.
ReceiveFileData ==
  /\ Arrives("fileData")
  /\ Taken
  /\ \/ Packet1.flag # "file" /\ Refuse
     \/ /\ Packet1.flag = "file"
        /\ disk' = [disk EXCEPT ![path] = @ \o Packet1.units]
        /\ \/ ~Packet1.end /\ UNCHANGED <<on, expected, metadata, loaded, path, got>>
           \/ Packet1.end /\ Complete(loaded, disk'[path])

\* read returns an error.
ReadFails ==
  /\ loop = "read" /\ wire = <<>> /\ link = "broken"
  /\ loop' = "head"
  /\ Refuse
  /\ UNCHANGED <<stopped, strays, sender, wire, link, sessions>>

\* read returns 0, which the code does not look at: the header is what was on the
\* stack.  Its flag stops the loop; or it says that data follow, and the loop reads
\* them for ever; or that an end without data follows, and the listener gets what
\* was there.  BOUND: the last is tried MaxStrays times.
EndOfStream ==
  /\ loop = "read" /\ wire = <<>> /\ link = "eof"
  /\ \/ loop' = "head" /\ Refuse /\ UNCHANGED strays
     \/ loop' = "spin" /\ UNCHANGED <<on, expected, metadata, loaded, path, disk, got, strays>>
     \/ /\ expected # "fileMetadata" /\ strays < MaxStrays
        /\ loop' = "head" /\ strays' = strays + 1
        /\ expected' = "messageMetadata"
        /\ metadata' = NoMessage /\ loaded' = <<>> /\ path' = NoMessage
        /\ UNCHANGED <<on, disk, got>>
  /\ UNCHANGED <<stopped, sender, wire, link, sessions>>

-----------------------------------------------------------------------------
(* What happens to the connection                                          *)

\* The connection breaks; some of the packets on their way still arrive.
Break ==
  /\ link = "up"
  /\ link' = "broken"
  /\ \E n \in 0..Len(wire) : wire' = SubSeq(wire, 1, n)
  /\ UNCHANGED <<sender, receiver, sessions>>

\* The sender's end closes the connection, perhaps within a message: its own
\* listening thread does so while another thread sends.
SenderCloses ==
  /\ link = "up"
  /\ link' = "eof"
  /\ UNCHANGED <<wire, sender, receiver, sessions>>

\* stopListeningThread, as disableLargeDataMode calls it.
StopListening ==
  /\ loop \in {"head", "read"} /\ on
  /\ on' = FALSE /\ stopped' = TRUE
  /\ UNCHANGED <<loop, expected, metadata, loaded, path, disk, got, strays>>
  /\ UNCHANGED <<sender, wire, link, sessions>>

\* The companion connects again; a new thread runs the loop.
Reconnect ==
  /\ loop = "closed" /\ sending = NoMessage
  /\ sessions < MaxSessions /\ sessions' = sessions + 1
  /\ sending' = NoMessage /\ part' = "messageMetadata" /\ sentBytes' = 0
  /\ wire' = <<>> /\ link' = "up"
  /\ loop' = "head" /\ on' = TRUE /\ stopped' = FALSE
  /\ expected' = "messageMetadata" /\ metadata' = NoMessage /\ loaded' = <<>>
  /\ path' = NoMessage
  /\ sent' = <<>> /\ got' = <<>>
  /\ UNCHANGED <<disk, strays>>

-----------------------------------------------------------------------------
Send == SendMessageMetadata \/ SendMessageData \/ SendFileMetadata \/ SendFileData
        \/ SendFails
Listen == Round \/ LoopEnds \/ ReceiveMessageMetadata \/ ReceiveMessageData
          \/ ReceiveFileMetadata \/ ReceiveFileData \/ ReadFails \/ EndOfStream

Next ==
  \/ \E m \in Message : SendMessage(m)
  \/ Send \/ Listen
  \/ Break \/ SenderCloses \/ StopListening \/ Reconnect

Spec == Init /\ [][Next]_vars

FairSpec == Spec /\ WF_vars(Send) /\ WF_vars(Listen)

-----------------------------------------------------------------------------
(* Properties                                                              *)

\* A message whose last packet says that it is the last.
Ends(m) == Attachment[m] = "none" \/ (Attachment[m] = "file" /\ FileSize[m] > 0)

\* The messages arrive whole, in their order, at most once: a message without an
\* end is not delivered, nor anything after it, and neither is one that was cut off.
\* Messages made up after the end of the stream are counted in strays.
T == INSTANCE Transfer WITH
       Message <- {Whole(m) : m \in Message},
       sent <- [i \in 1..Len(sent) |-> Whole(sent[i])]
TransferSpec == T!Spec

\* memcpy into totalMessageData stays within what the metadata announced.
BufferHolds ==
  loaded # <<>> => metadata # NoMessage /\ Len(loaded) <= TextSize[metadata]

\* The loop never loses its place in the stream: it closes a good connection only
\* when it was told to stop or after a message without an end.
StaysInStep ==
  link = "closed" /\ ~stopped => \E i \in 1..Len(sent) : ~Ends(sent[i])

\* As long as the connection is up every message that has an end is delivered,
\* unless one before it has none.
MessagesArrive ==
  \A n \in 1..MaxSends :
    (Len(sent) >= n /\ \A i \in 1..n : i <= Len(sent) => Ends(sent[i]))
      ~> (Len(got) >= n \/ link # "up")

\* CommPort.cpp:218 "Message with file completed": the file that the listener is
\* told of is the one that was sent, also when a part of it had come before.
FilesAreWhole == \A i \in 1..Len(got) : \E m \in Message : got[i].file = File(m)

=============================================================================
