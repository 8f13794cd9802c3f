----------------------------- MODULE OpelClient -----------------------------
(***************************************************************************)
(* OPEL_Client of the communication API: the requests of a script to the   *)
(* companion device, their answers, and the messages of the companion.     *)
(*                                                                         *)
(* The thread of the event loop ("main") runs the script and the after     *)
(* handlers; four works, each a uv_work_t that must not be queued twice,   *)
(* run on the threads of libuv's pool: "connect", "read", "write" and "ra",*)
(* which waits for answers and timeouts.  A work reads or writes one packet*)
(* and is queued again by its after handler.                               *)
(*                                                                         *)
(* A cell is a queue_data_t.  The two ends number their requests alike, so *)
(* a message of the companion may have the number of an own request.       *)
(***************************************************************************)
EXTENDS Naturals, Sequences, SequencesExt, FiniteSets

CONSTANTS
  Free,         \* an empty place of the req_set, or no cell
  MaxReq,       \* MAX_REQ_LEN
  Timeout,      \* MAX_FILE_TIMEOUT
  PoolSize,     \* threads of the pool that other endpoints leave to this one
  N,            \* BOUND: requests of the script
  Size,         \* how many packets each request is (1: a message)
  MaxMessages,  \* BOUND: messages of the companion
  MaxAnswers,   \* BOUND: answers of the companion to each request
  MaxFailures   \* BOUND: failed reads

ASSUME OpelAssumption ==
  /\ {N, MaxMessages, MaxFailures} \subseteq Nat
  /\ {MaxReq, Timeout, PoolSize} \subseteq Nat \ {0}
  /\ Size \in [1 .. N -> Nat \ {0}] /\ MaxAnswers \in [1 .. N -> Nat]

VARIABLES
  conn,        \* "none", "made" or "refused", then "up", and "lost"
  pool,        \* the works that no thread of the pool has taken yet
  at,          \* where each work is
  writeAlive,  \* write_thread_alive
  main,        \* the thread of the event loop: where it is and its variables
  held,        \* the cell that the read and the write work hold
  writeQ, readQ, ackQ,  \* write_queue, read_queue, ack_queue
  slots, tout, \* req_set: qdts and tout
  live,        \* the cells that are allocated
  attached,    \* queue_data_t::attached
  handler,     \* queue_data_t::handler, named by its request; 0 is NULL
  late,        \* cells whose error is SOCKET_ERR_TOUT
  asked,       \* number of requests so far (last_req_id)
  sent,        \* how many packets of each request were written
  answers,     \* the answers to each request that were read
  read,        \* number of messages that were read
  failures,    \* number of failed reads
  calls,       \* what the handler of each request was called with
  refused,     \* history: requests whose insertion found the req_set full
  process      \* "runs", "ended", or "undefined": nothing is known any more

threads  == <<conn, pool, at, writeAlive, main>>
queues   == <<writeQ, readQ, ackQ>>
reqset   == <<slots, tout>>
memory   == <<live, attached, handler, late>>
requests == <<asked, sent>>
peer     == <<answers, read, failures>>
outcome  == <<calls, refused>>
vars     == <<threads, held, queues, reqset, memory, requests, peer, outcome, process>>

Works == {"connect", "read", "write", "ra"}

(* The cells, by what they are made for; the second field is the req_id.   *)
Entry(i)     == <<"entry", i, 0>>
Packet(i, p) == <<"packet", i, p>>
Answer(i, k) == <<"answer", i, k>>
Message(j)   == <<"message", j, 0>>
Reply(j)     == <<"reply", j, 0>>
Notice(n)    == <<"notice", n, 0>>
EntryCells   == {Entry(i) : i \in 1 .. N}
PacketCells  == UNION {{Packet(i, p) : p \in 1 .. Size[i]} : i \in 1 .. N}
AnswerCells  == UNION {{Answer(i, k) : k \in 1 .. MaxAnswers[i]} : i \in 1 .. N}
MessageCells == {Message(j) : j \in 1 .. MaxMessages}
ReplyCells   == {Reply(j) : j \in 1 .. MaxMessages}
NoticeCells  == {Notice(n) : n \in 1 .. MaxFailures}
Cells == EntryCells \cup PacketCells \cup AnswerCells \cup MessageCells \cup ReplyCells
           \cup NoticeCells
ReqId(c) == c[2]

ASSUME FreeAssumption == Free \notin Cells

Slots == 1 .. MaxReq
FreeSlots == {s \in Slots : slots[s] = Free}

At == [connect |-> {"off", "trying", "done"},
       read    |-> {"off", "select", "insert", "release", "test", "done"},
       write   |-> {"off", "begin", "take", "writing", "done"},
       ra      |-> {"off", "wait", "done"}]
MainAt == {"loop", "put", "check", "acks", "take", "drop", "test", "reads"}

Promise == INSTANCE Outcomes

TypeOK ==
  /\ conn \in {"none", "made", "refused", "up", "lost"}
  /\ pool \in Seq(Works)
  /\ at \in [Works -> UNION {At[w] : w \in Works}] /\ \A w \in Works : at[w] \in At[w]
  /\ writeAlive \in BOOLEAN
  /\ main \in [at : MainAt, cell : Cells \cup {Free}, new : Cells \cup {Free},
               empty : BOOLEAN, back : MainAt]
  /\ held \in [{"read", "write"} -> Cells \cup {Free}]
  /\ {writeQ, readQ, ackQ} \subseteq Seq(Cells)
  /\ slots \in [Slots -> Cells \cup {Free}] /\ tout \in [Slots -> 0 .. Timeout]
  /\ live \subseteq Cells /\ late \subseteq Cells
  /\ attached \in [Cells -> Nat] /\ handler \in [Cells -> 0 .. N]
  /\ asked \in 0 .. N
  /\ sent \in [1 .. N -> Nat]
  /\ answers \in [1 .. N -> Seq({"part", "last"})]
  /\ read \in 0 .. MaxMessages /\ failures \in 0 .. MaxFailures
  /\ calls \in [1 .. N -> Seq(Promise!Call)]
  /\ refused \subseteq 1 .. N
  /\ process \in {"runs", "ended", "undefined"}

Init ==
  /\ conn = "none" /\ pool = <<"connect">>
  /\ at = [w \in Works |-> "off"] /\ writeAlive = FALSE
  /\ main = [at |-> "loop", cell |-> Free, new |-> Free, empty |-> FALSE, back |-> "loop"]
  /\ held = [w \in {"read", "write"} |-> Free]
  /\ writeQ = <<>> /\ readQ = <<>> /\ ackQ = <<>>
  /\ slots = [s \in Slots |-> Free] /\ tout = [s \in Slots |-> 0]
  /\ live = {} /\ late = {}
  /\ attached = [c \in Cells |-> 0] /\ handler = [c \in Cells |-> 0]
  /\ asked = 0 /\ sent = [i \in 1 .. N |-> 0]
  /\ answers = [i \in 1 .. N |-> <<>>] /\ read = 0 /\ failures = 0
  /\ calls = [i \in 1 .. N |-> <<>>] /\ refused = {}
  /\ process = "runs"

-----------------------------------------------------------------------------
(* libuv: the pool takes the works in the order in which they were queued. *)

Idle(w) == at[w] \in {"off", "done"}
Occupied == {w \in Works : ~ Idle(w)}
First == [connect |-> "trying", read |-> "select", write |-> "begin", ra |-> "wait"]

Start ==
  /\ pool # <<>>
  /\ Cardinality(Occupied) < PoolSize
  /\ at' = [at EXCEPT ![Head(pool)] = First[Head(pool)]]
  /\ pool' = Tail(pool)
  /\ UNCHANGED <<conn, writeAlive, main, held, queues, reqset, memory, requests, peer,
                 outcome, process>>

Goto(w, place) == at' = [at EXCEPT ![w] = place]

-----------------------------------------------------------------------------
(* req_set                                                                 *)

Matches(id) == {s \in Slots : slots[s] # Free /\ ReqId(slots[s]) = id}

\* Mutants: insert leaves the old time, or does not count.
InsertOldTime(c) ==
  IF FreeSlots = {}
  THEN refused' = refused \cup ({handler'[c]} \ {0}) /\ UNCHANGED <<reqset, attached>>
  ELSE /\ slots' = [slots EXCEPT ![Min(FreeSlots)] = c]
       /\ attached' = [attached EXCEPT ![c] = @ + 1]
       /\ UNCHANGED <<tout, refused>>
InsertUncounted(c) ==
  IF FreeSlots = {}
  THEN refused' = refused \cup ({handler'[c]} \ {0}) /\ UNCHANGED <<reqset, attached>>
  ELSE /\ slots' = [slots EXCEPT ![Min(FreeSlots)] = c]
       /\ tout' = [tout EXCEPT ![Min(FreeSlots)] = Timeout]
       /\ UNCHANGED <<attached, refused>>

\* insert: the first free place; the callers do not look whether there was one.
Insert(c) ==
  IF FreeSlots = {}
  THEN /\ refused' = refused \cup ({handler'[c]} \ {0})
       /\ UNCHANGED <<reqset, attached>>
  ELSE /\ slots' = [slots EXCEPT ![Min(FreeSlots)] = c]
       /\ tout' = [tout EXCEPT ![Min(FreeSlots)] = Timeout]
       /\ attached' = [attached EXCEPT ![c] = @ + 1]
       /\ UNCHANGED refused

\* Does the next step of the event loop change attached of c?
MainCounts(c) ==
  \/ main.at \in {"take", "drop"} /\ main.cell = c
  \/ main.at = "acks" /\ ackQ # <<>> /\ Head(ackQ) = c

\* Mutant: signal does not empty the place.
SignalKeeps(c, count) ==
  LET matches == Matches(ReqId(c))
  IN /\ UNCHANGED <<slots, tout>>
     /\ ackQ' = ackQ \o [n \in 1 .. Cardinality(matches) |-> c]
     /\ attached' = [attached EXCEPT ![c] = count + Cardinality(matches)]
     /\ live' = live \cup {c}
     /\ handler' = IF matches = {} THEN handler
                   ELSE [handler EXCEPT ![c] = handler[slots[Max(matches)]]]
     /\ process' = IF Cardinality(matches) > 1 THEN "undefined" ELSE process

\* signal: c takes the place of what waits for its req_id, and goes to ackQ.  Here
\* count is attached of c before.  Two matches would link c twice.
Signal(c, count) ==
  LET matches == Matches(ReqId(c))
      dropped == {slots[s] : s \in matches}
  IN /\ slots' = [s \in Slots |-> IF s \in matches THEN Free ELSE slots[s]]
     /\ tout' = [s \in Slots |-> IF s \in matches THEN 0 ELSE tout[s]]
     /\ ackQ' = ackQ \o [n \in 1 .. Cardinality(matches) |-> c]
     /\ attached' = [d \in Cells |-> IF d = c THEN count + Cardinality(matches)
                                     ELSE IF d \in dropped THEN attached[d] - 1
                                     ELSE attached[d]]
     /\ live' = (live \cup {c}) \ {d \in dropped : attached[d] = 1}
     /\ handler' = IF matches = {} THEN handler
                   ELSE [handler EXCEPT ![c] = handler[slots[Max(matches)]]]
     /\ process' \in {"runs"} \cup {"undefined" : d \in {e \in dropped : MainCounts(e)}}
     /\ Cardinality(matches) > 1 => process' = "undefined"

\* wait, when the time is over: the loop passes the places in their order.
Expired == {s \in Slots : slots[s] # Free /\ tout[s] = 1}
InOrder(places) ==
  CHOOSE f \in [1 .. Cardinality(places) -> places] :
    \A m, n \in DOMAIN f : m < n => f[m] < f[n]
Expire ==
  LET cells == [n \in 1 .. Cardinality(Expired) |-> slots[InOrder(Expired)[n]]]
  IN /\ slots' = [s \in Slots |-> IF s \in Expired THEN Free ELSE slots[s]]
     /\ tout' = [s \in Slots |-> IF slots[s] # Free THEN tout[s] - 1 ELSE 0]
     /\ ackQ' = ackQ \o cells
     /\ late' = late \cup ToSet(cells)
     /\ process' = IF ToSet(cells) \cap ToSet(ackQ) # {} THEN "undefined" ELSE process

-----------------------------------------------------------------------------
(* The thread of the event loop.                                           *)

\* msg_write and file_write: a request with a handler.
Submit ==
  LET i == asked + 1
  IN /\ main.at \in {"loop", "drop"}
     /\ asked < N
     /\ asked' = i
     /\ live' = live \cup {Entry(i), Packet(i, 1)}
     /\ handler' = [handler EXCEPT ![Entry(i)] = i]
     /\ Insert(Entry(i))
     /\ main' = [main EXCEPT !.at = "put", !.new = Packet(i, 1),
                             !.empty = writeQ = <<>>, !.back = main.at]
     /\ UNCHANGED <<conn, pool, at, writeAlive, held, queues, late, sent, peer, calls,
                    process>>

Put ==
  /\ main.at = "put"
  /\ writeQ' = Append(writeQ, main.new)
  /\ attached' = [attached EXCEPT ![main.new] = @ + 1]
  /\ main' = [main EXCEPT !.at = "check", !.new = Free]
  /\ UNCHANGED <<conn, pool, at, writeAlive, held, readQ, ackQ, reqset, live, handler,
                 late, requests, peer, outcome, process>>

\* Mutant: msg_write does not look at write_thread_alive.
CheckEmptyOnly ==
  /\ main.at = "check"
  /\ pool' = IF main.empty THEN Append(pool, "write") ELSE pool
  /\ main' = [main EXCEPT !.at = main.back, !.empty = FALSE, !.back = "loop"]
  /\ UNCHANGED <<conn, at, writeAlive, held, queues, reqset, memory, requests, peer,
                 outcome, process>>

Check ==
  /\ main.at = "check"
  /\ pool' = IF main.empty /\ ~ writeAlive THEN Append(pool, "write") ELSE pool
  /\ main' = [main EXCEPT !.at = main.back, !.empty = FALSE, !.back = "loop"]
  /\ UNCHANGED <<conn, at, writeAlive, held, queues, reqset, memory, requests, peer,
                 outcome, process>>

AfterConnect ==
  /\ main.at = "loop" /\ at["connect"] = "done"
  /\ Goto("connect", "off")
  /\ IF conn = "made" THEN conn' = "up" /\ pool' = pool \o <<"read", "ra">>
                      ELSE UNCHANGED <<conn, pool>>
  /\ UNCHANGED <<writeAlive, main, held, queues, reqset, memory, requests, peer, outcome,
                 process>>

\* Mutant: what was put into write_queue while the work was running is forgotten.
AfterWriteNothing ==
  /\ main.at = "loop" /\ at["write"] = "done"
  /\ Goto("write", "off")
  /\ writeAlive' = FALSE
  /\ UNCHANGED <<conn, pool, main, held, queues, reqset, memory, requests, peer, outcome,
                 process>>

AfterWrite ==
  /\ main.at = "loop" /\ at["write"] = "done"
  /\ Goto("write", "off")
  /\ writeAlive' = FALSE
  /\ pool' = IF writeQ # <<>> THEN Append(pool, "write") ELSE pool
  /\ UNCHANGED <<conn, main, held, queues, reqset, memory, requests, peer, outcome, process>>

\* after_read_handler and after_ra_handler, which empty readQ and ackQ
AfterBegins(w, place) ==
  /\ main.at = "loop" /\ at[w] = "done"
  /\ Goto(w, "off")
  /\ main' = [main EXCEPT !.at = place]
  /\ UNCHANGED <<conn, pool, writeAlive, held, queues, reqset, memory, requests, peer,
                 outcome, process>>

AfterRead == AfterBegins("read", "reads")
AfterRa   == AfterBegins("ra", "acks")

AfterEnds(w) ==
  /\ pool' = Append(pool, w)
  /\ main' = [main EXCEPT !.at = "loop"]
  /\ UNCHANGED <<conn, at, writeAlive, held, queues, reqset, memory, requests, peer,
                 outcome, process>>

ReadsEnd == main.at = "reads" /\ readQ = <<>> /\ AfterEnds("read")

\* Mutant: nobody waits for the next answer.
AcksEndForever ==
  /\ main.at = "acks" /\ ackQ = <<>>
  /\ main' = [main EXCEPT !.at = "loop"]
  /\ UNCHANGED <<conn, pool, at, writeAlive, held, queues, reqset, memory, requests, peer,
                 outcome, process>>

AcksEnd  == main.at = "acks" /\ ackQ = <<>> /\ AfterEnds("ra")

\* client_handler is given a message or the notice that the connection is lost, and
\* may answer a message.  Nobody else has the cell any more.
HandleMessage(replies) ==
  LET c == Head(readQ)
  IN /\ main.at = "reads" /\ readQ # <<>>
     /\ readQ' = Tail(readQ)
     /\ attached' = [attached EXCEPT ![c] = 0]
     /\ replies => c[1] = "message"
     /\ live' = (live \ {c}) \cup IF replies THEN {Reply(ReqId(c))} ELSE {}
     /\ main' = IF ~ replies THEN main
                ELSE [main EXCEPT !.at = "put", !.new = Reply(ReqId(c)),
                                  !.empty = writeQ = <<>>, !.back = "reads"]
     /\ UNCHANGED <<conn, pool, at, writeAlive, held, writeQ, ackQ, reqset, handler, late,
                    requests, peer, outcome, process>>

AckDequeue ==
  LET c == Head(ackQ)
  IN /\ main.at = "acks" /\ ackQ # <<>>
     /\ ackQ' = Tail(ackQ)
     /\ attached' = [attached EXCEPT ![c] = @ - 1]
     /\ main' = [main EXCEPT !.at = "take", !.cell = c]
     /\ UNCHANGED <<conn, pool, at, writeAlive, held, writeQ, readQ, reqset, live, handler,
                    late, requests, peer, outcome, process>>

Undefined ==
  /\ process' = "undefined"
  /\ UNCHANGED <<threads, held, queues, reqset, memory, requests, peer, outcome>>

\* What a handler is told: the result, and which answer it is.
Told(c) ==
  IF c \in late THEN <<"late", 0>>
  ELSE IF c[1] = "answer"
       THEN <<IF answers[c[2]][c[3]] = "part" THEN "part" ELSE "answer", c[3]>>
       ELSE <<"failed", 0>>

\* Mutant: the handler is the one of the request, whether it waits or not.
CallHandlerById ==
  LET c == main.cell
  IN /\ main.at = "take"
     /\ c \in live
     /\ attached' = [attached EXCEPT ![c] = @ + 1]
     /\ calls' = [calls EXCEPT ![ReqId(c)] = Append(@, Told(c))]
     /\ main' = [main EXCEPT !.at = "drop"]
     /\ UNCHANGED <<conn, pool, at, writeAlive, held, queues, reqset, live, handler, late,
                    requests, peer, refused, process>>

\* attached++ and the call of the handler, or of client_handler if it is NULL
CallHandler ==
  LET c == main.cell
      i == handler[c]
  IN /\ main.at = "take"
     /\ c \in live
     /\ attached' = [attached EXCEPT ![c] = @ + 1]
     /\ calls' = IF i = 0 THEN calls ELSE [calls EXCEPT ![i] = Append(@, Told(c))]
     /\ main' = [main EXCEPT !.at = "drop"]
     /\ UNCHANGED <<conn, pool, at, writeAlive, held, queues, reqset, live, handler, late,
                    requests, peer, refused, process>>

AckDrop ==
  /\ main.at = "drop"
  /\ attached' = [attached EXCEPT ![main.cell] = @ - 1]
  /\ main' = [main EXCEPT !.at = "test"]
  /\ UNCHANGED <<conn, pool, at, writeAlive, held, queues, reqset, live, handler, late,
                 requests, peer, outcome, process>>

\* The text of a timeout is a constant, which ~OPEL_MSG gives to free.
AckTest ==
  /\ main.at = "test"
  /\ main.cell \in live
  /\ live' = IF attached[main.cell] = 0 THEN live \ {main.cell} ELSE live
  /\ process' = IF attached[main.cell] = 0 /\ main.cell \in late THEN "ended" ELSE process
  /\ main' = [main EXCEPT !.at = "acks", !.cell = Free]
  /\ UNCHANGED <<conn, pool, at, writeAlive, held, queues, reqset, attached, handler, late,
                 requests, peer, outcome>>

UsesDeleted == main.at \in {"take", "test"} /\ main.cell \notin live /\ Undefined

-----------------------------------------------------------------------------
(* The works.                                                              *)

Connect ==
  /\ at["connect"] = "trying"
  /\ conn' \in {"made", "refused"}
  /\ Goto("connect", "done")
  /\ UNCHANGED <<pool, writeAlive, main, held, queues, reqset, memory, requests, peer,
                 outcome, process>>

\* generic_read_handler: a message of the companion, which nobody else sees before the
\* after handler
ReadMessage ==
  LET c == Message(read + 1)
  IN /\ at["read"] = "select" /\ conn = "up"
     /\ read < MaxMessages
     /\ read' = read + 1
     /\ live' = live \cup {c}
     /\ readQ' = Append(readQ, c)
     /\ attached' = [attached EXCEPT ![c] = 1]
     /\ Goto("read", "done")
     /\ UNCHANGED <<conn, pool, writeAlive, main, held, writeQ, ackQ, reqset, handler, late,
                    requests, answers, failures, outcome, process>>

\* generic_read_handler: an answer; a part of a file waits for the next part.
ReadAnswer(i, kind) ==
  LET c == Answer(i, Len(answers[i]) + 1)
  IN /\ at["read"] = "select" /\ conn = "up"
     /\ sent[i] > 0
     /\ Len(answers[i]) < MaxAnswers[i]
     /\ answers' = [answers EXCEPT ![i] = Append(@, kind)]
     /\ Signal(c, 1)
     /\ held' = [held EXCEPT !["read"] = c]
     /\ Goto("read", IF kind = "part" THEN "insert" ELSE "release")
     /\ UNCHANGED <<conn, pool, writeAlive, main, writeQ, readQ, late, requests, read,
                    failures, outcome>>

ReadInsert ==
  /\ at["read"] = "insert"
  /\ UNCHANGED <<live, handler, late>>
  /\ Insert(held["read"])
  /\ Goto("read", "release")
  /\ UNCHANGED <<conn, pool, writeAlive, main, held, queues, requests, peer, calls, process>>

ReadRelease ==
  /\ at["read"] = "release"
  /\ attached' = [attached EXCEPT ![held["read"]] = @ - 1]
  /\ Goto("read", "test")
  /\ UNCHANGED <<conn, pool, writeAlive, main, held, queues, reqset, live, handler, late,
                 requests, peer, outcome, process>>

\* attached is no atomic: one of two changes at the same time may be lost.
CountsRace == at["read"] = "release" /\ MainCounts(held["read"]) /\ Undefined

ReadTest ==
  LET c == held["read"]
  IN /\ at["read"] = "test"
     /\ live' = IF attached[c] = 0 THEN live \ {c} ELSE live
     /\ process' = IF c \in live THEN process ELSE "undefined"
     /\ held' = [held EXCEPT !["read"] = Free]
     /\ Goto("read", "done")
     /\ UNCHANGED <<conn, pool, writeAlive, main, queues, reqset, attached, handler, late,
                    requests, peer, outcome>>

\* The descriptor is taken out of the set of select: nothing is read any more.
ReadFails ==
  LET c == Notice(failures + 1)
  IN /\ at["read"] = "select" /\ conn \in {"up", "lost"}
     /\ failures < MaxFailures
     /\ failures' = failures + 1
     /\ conn' = "lost"
     /\ live' = live \cup {c}
     /\ readQ' = Append(readQ, c)
     /\ attached' = [attached EXCEPT ![c] = 1]
     /\ Goto("read", "done")
     /\ UNCHANGED <<pool, writeAlive, main, held, writeQ, ackQ, reqset, handler, late,
                    requests, answers, read, outcome, process>>

\* generic_write_handler
WriteBegins ==
  /\ at["write"] = "begin"
  /\ writeAlive' = TRUE
  /\ Goto("write", "take")
  /\ UNCHANGED <<conn, pool, main, held, queues, reqset, memory, requests, peer, outcome,
                 process>>

\* There is a cell, see WorkOnce; without one the code would use op_msg without a value.
WriteTake ==
  /\ at["write"] = "take"
  /\ writeQ # <<>>
  /\ writeQ' = Tail(writeQ)
  /\ held' = [held EXCEPT !["write"] = Head(writeQ)]
  /\ Goto("write", "writing")
  /\ UNCHANGED <<conn, pool, writeAlive, main, readQ, ackQ, reqset, memory, requests, peer,
                 outcome, process>>

HasNext(c) == c[1] = "packet" /\ c[3] < Size[c[2]]

WriteDone ==
  LET c == held["write"]
      next == Packet(c[2], c[3] + 1)
      m == Matches(ReqId(c))
  IN /\ at["write"] = "writing"
     /\ conn \in {"made", "up", "lost"}
     /\ sent' = IF c[1] = "packet" THEN [sent EXCEPT ![c[2]] = @ + 1] ELSE sent
     /\ IF HasNext(c)
        THEN /\ tout' = IF m = {} THEN tout ELSE [tout EXCEPT ![Min(m)] = Timeout]
             /\ writeQ' = Append(writeQ, next)
             /\ live' = (live \ {c}) \cup {next}
             /\ attached' = [attached EXCEPT ![c] = 0, ![next] = 1]
        ELSE /\ live' = live \ {c}
             /\ attached' = [attached EXCEPT ![c] = 0]
             /\ UNCHANGED <<tout, writeQ>>
     /\ held' = [held EXCEPT !["write"] = Free]
     /\ Goto("write", "done")
     /\ UNCHANGED <<conn, pool, writeAlive, main, readQ, ackQ, slots, handler, late, asked,
                    peer, outcome, process>>

\* The file or the socket fails.  What nobody waits for is not deleted.
WriteFails ==
  /\ at["write"] = "writing"
  /\ Signal(held["write"], 0)
  /\ held' = [held EXCEPT !["write"] = Free]
  /\ Goto("write", "done")
  /\ UNCHANGED <<conn, pool, writeAlive, main, writeQ, readQ, late, requests, peer, outcome>>

\* generic_ra_handler.  wait has no return statement: what it "returns" may be negative,
\* and the handler waits again, or it is done.
TimedOut ==
  /\ at["ra"] = "wait"
  /\ Expire
  /\ Goto("ra", "wait") \/ Goto("ra", "done")
  /\ UNCHANGED <<conn, pool, writeAlive, main, held, writeQ, readQ, live, attached, handler,
                 requests, peer, outcome>>

\* The wait is over before its time: signal, or for no reason.
Woken ==
  /\ at["ra"] = "wait"
  /\ Goto("ra", "done")
  /\ UNCHANGED <<conn, pool, writeAlive, main, held, queues, reqset, memory, requests, peer,
                 outcome, process>>

-----------------------------------------------------------------------------
Main ==
  \/ Put \/ Check
  \/ AfterConnect \/ AfterWrite \/ AfterRead \/ AfterRa
  \/ ReadsEnd \/ AcksEnd
  \/ \E replies \in BOOLEAN : HandleMessage(replies)
  \/ AckDequeue \/ CallHandler \/ AckDrop \/ AckTest \/ UsesDeleted

Reader ==
  \/ ReadMessage \/ ReadFails
  \/ \E i \in 1 .. N, kind \in {"part", "last"} : ReadAnswer(i, kind)

ReaderGoesOn == ReadInsert \/ ReadRelease \/ CountsRace \/ ReadTest

Writer == WriteBegins \/ WriteTake \/ WriteDone \/ WriteFails

Next ==
  /\ process = "runs"
  /\ \/ Start \/ Connect
     \/ Submit
     \/ Main
     \/ Reader \/ ReaderGoesOn
     \/ Writer
     \/ TimedOut \/ Woken

\* Threads that can run do; an attempt to connect and a write come to an end; wait is not
\* woken before its time for ever, nor does it always leave a negative number.
Fairness ==
  /\ WF_vars(process = "runs" /\ Start)
  /\ WF_vars(process = "runs" /\ Connect)
  /\ WF_vars(process = "runs" /\ Main)
  /\ WF_vars(process = "runs" /\ ReaderGoesOn)
  /\ WF_vars(process = "runs" /\ Writer)
  /\ SF_vars(process = "runs" /\ TimedOut)
  /\ SF_vars(process = "runs" /\ (TimedOut \/ Woken) /\ at'["ra"] = "done")

Spec == Init /\ [][Next]_vars /\ Fairness

-----------------------------------------------------------------------------
(* A work is never queued again before its after handler was called, and   *)
(* so the pool never has one uv_work_t twice; and the write work always    *)
(* finds a cell.                                                           *)
WorkOnce ==
  /\ IsInjective(pool)
  /\ \A w \in ToSet(pool) : at[w] = "off"
  /\ at["write"] = "take" => writeQ # <<>>

(* A packet in write_queue is never forgotten: the write work runs, waits  *)
(* for a thread, or is about to be queued, although msg_write looks at the *)
(* queue, fills it, and looks at write_thread_alive in three steps.        *)
NothingStranded ==
  writeQ # <<>> => \/ "write" \in ToSet(pool)
                   \/ at["write"] # "off"
                   \/ main.at = "check" /\ main.empty

(* At most one cell waits for the answers to a request, although each part *)
(* of a file is waited for by the part before it: signal links the answer  *)
(* once for each cell that it finds.                                       *)
OneWaits == \A id \in 1 .. N : Cardinality(Matches(id)) <= 1

(* attached is the number of the holders of a cell, whichever of the four  *)
(* threads released it last, and a cell that nobody holds any more is      *)
(* deleted, unless its write failed and nobody waited for it, or the       *)
(* req_set was full.                                                       *)
Count(q, c) == Cardinality({n \in DOMAIN q : q[n] = c})
Holders(c) ==
  Count(writeQ, c) + Count(readQ, c) + Count(ackQ, c) + Count(slots, c) + Count(held, c)
    + IF main.cell = c /\ main.at \notin {"take", "test"} THEN 1 ELSE 0
CellsAreCounted ==
  process = "runs" => \A c \in Cells :
    LET releasing == held["read"] = c /\ at["read"] = "test"
    IN /\ attached[c] = Holders(c) - IF releasing THEN 1 ELSE 0
       /\ attached[c] > 0 => c \in live

(* No cell is deleted that the event loop has taken out of ack_queue and   *)
(* not released, as the comment above OPEL_Comm_Queue::enqueue wants it.   *)
(* The code breaks this: between attached-- in dequeue and attached++ of   *)
(* after_ra_handler the read work releases the cell.                       *)
NotDeletedInUse ==
  [][\A c \in live \ live' : main.at \in {"take", "drop"} => main.cell # c]_vars

(* The handler of a request is called as Outcomes says.                    *)
OutcomesSpec == Promise!Spec

(* The handler of every request is called to its end, whatever the         *)
(* companion and the connection do, unless the connection was never made,  *)
(* the req_set was full, or the process came to an end.                    *)
HandlersAreCalled ==
  \A i \in 1 .. N :
    (asked >= i) ~> (Promise!Closed(i) \/ i \in refused \/ conn = "refused" \/ process # "runs")

=============================================================================
