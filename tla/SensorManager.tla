---- MODULE SensorManager ----
(***************************************************************************)
(* One sensor of the sensor manager: the list of requests, the thread that *)
(* serves them (sensorThread), and the thread that takes messages of the   *)
(* apps from D-Bus (register, unregister, update, Get).  The list is a     *)
(* linked one that both threads change, one statement at a time, and that  *)
(* no mutex protects.  Sensors share nothing but the D-Bus thread.         *)
(*                                                                         *)
(* A cell is a requestData from malloc; a freed cell keeps its contents    *)
(* except for its first field, the pid, until malloc returns it again.     *)
(* Times are relative to now and end at 0: intervals are positive, so two  *)
(* times that have passed need not be told apart.                          *)
(***************************************************************************)
EXTENDS Integers, FiniteSets

CONSTANTS Cells,         \* memory for requestData
          NULL,          \* the null pointer
          Pids,          \* the apps
          Intervals,     \* sensing intervals that apps ask for
          MaxRegisters   \* bound: messages "register" in a behaviour

ASSUME SensorsAssumption ==
    /\ NULL \notin Cells \cup Pids
    /\ IsFiniteSet(Cells)
    /\ Intervals \subseteq Nat \ {0}
    /\ MaxRegisters \in Nat

VARIABLES
    start,      \* requestHeader: the first request
    num,        \* requestHeader: num_of_request
    cell,       \* the contents of the cells
    status,     \* sensorList: SENSOR_STOP or SENSOR_RUNNING, as the driver is
    thread,     \* sensorThread: where it is, its variables, when it wakes up
    dbus,       \* the D-Bus thread: where it is, its variables
    served,     \* the request whose data are being sent, or NULL
    registers,  \* number of messages "register" so far
    missed,     \* history: a signal came between the test and the wait
    mixed,      \* history: a message was handled while the thread was at work
    torn        \* history: the threads met where the list does not bear it

list    == <<start, num, cell>>
history == <<registers, missed, mixed, torn>>
vars    == <<list, status, thread, dbus, served, history>>

Pointer == Cells \cup {NULL}
Times   == {0} \cup UNION {1 .. i : i \in Intervals}

(* Where sensorThread is.  "relink" is the only place where the list lacks *)
(* the request that is being moved.                                        *)
Iterating == {"start", "send", "time", "scan", "loop", "first", "move", "relink",
              "sleep"}
ThreadAt  == Iterating \cup {"check", "stop", "wait", "waiting", "towait", "sleeping"}

Adding   == {"link", "head", "count", "signal"}
Deleting == {"top", "for"}
DbusAt   == {"idle"} \cup Adding \cup Deleting \cup {"getstop", "gone"}

TypeOK ==
    /\ start \in Pointer
    /\ num \in 0 .. Cardinality(Cells)
    /\ cell \in [Cells -> [pid : Pids \cup {NULL}, interval : Intervals \cup {0},
                           time : Times, next : Pointer]]
    /\ status \in {"STOP", "RUNNING"}
    /\ thread \in [at : ThreadAt, temp : Pointer, prev : Pointer,
                   first : Pointer, until : Times]
    /\ dbus \in [at : DbusAt, input : Pointer, pid : Pids \cup {NULL}, temp : Pointer,
                 prev : Pointer, i : 0 .. Cardinality(Cells)]
    /\ served \in Pointer
    /\ registers \in 0 .. MaxRegisters
    /\ {missed, mixed, torn} \subseteq BOOLEAN

(* Free memory, and the requests that are not freed.                       *)
Blank == [pid |-> NULL, interval |-> 0, time |-> 0, next |-> NULL]
Live == {c \in Cells : cell[c].pid # NULL}

NoWork == [at |-> "idle", input |-> NULL, pid |-> NULL, temp |-> NULL, prev |-> NULL, i |-> 0]

(* load_sensors, addSensor, sensorThreadInit: no requests, the driver not  *)
(* started, and the thread runs before the first message is taken.         *)
Init ==
    /\ start = NULL
    /\ num = 0
    /\ cell = [c \in Cells |-> Blank]
    /\ status = "STOP"
    /\ thread = [at |-> "check", temp |-> NULL, prev |-> NULL, first |-> NULL,
                 until |-> 0]
    /\ dbus = NoWork
    /\ served = NULL
    /\ registers = 0
    /\ missed = FALSE
    /\ mixed = FALSE
    /\ torn = FALSE

----
(***************************************************************************)
(* sensorThread.                                                           *)
(***************************************************************************)
At(place) == thread.at = place
Idle == dbus.at = "idle"
Gone == dbus.at = "gone"
Goto(place) == thread' = [thread EXCEPT !.at = place]

(* The test of num_of_request.                                             *)
Check ==
    /\ At("check")
    /\ Goto(IF num = 0 THEN "stop" ELSE "start")
    /\ missed' = FALSE
    /\ UNCHANGED <<list, status, served>>

Stop ==
    /\ At("stop")
    /\ status' = "STOP"
    /\ Goto("wait")
    /\ UNCHANGED <<list, served, missed>>

(* Mutant: the driver is not started again after it was stopped.           *)
StartForgets ==
    /\ At("start")
    /\ Goto("send")
    /\ UNCHANGED <<list, status, served, missed>>

Start ==
    /\ At("start")
    /\ status' = "RUNNING"
    /\ Goto("send")
    /\ UNCHANGED <<list, served, missed>>

(* The driver's value is read, and sent with the number of the request     *)
(* that is first by then (sendSensorData, sendSensorNotify).               *)
Send ==
    /\ At("send")
    /\ served' = start
    /\ Goto("time")
    /\ UNCHANGED <<list, status, missed>>

(* calculateNextTime                                                       *)
SetTime ==
    /\ At("time")
    /\ cell' = [cell EXCEPT ![start].time = cell[start].interval]
    /\ served' = NULL
    /\ Goto("scan")
    /\ UNCHANGED <<start, num, status, missed>>

Scan ==
    /\ At("scan")
    /\ thread' = IF num <= 1
                 THEN [thread EXCEPT !.at = "sleep"]
                 ELSE [thread EXCEPT !.at = "loop", !.temp = cell[start].next,
                                     !.prev = start]
    /\ UNCHANGED <<list, status, served, missed>>

(* Mutant: past the requests that run later.                               *)
LoopBackwards ==
    /\ At("loop")
    /\ thread' = IF thread.temp = NULL \/ cell[thread.temp].time < cell[start].time
                 THEN [thread EXCEPT !.at = "first"]
                 ELSE [thread EXCEPT !.prev = thread.temp,
                                     !.temp = cell[thread.temp].next]
    /\ UNCHANGED <<list, status, served, missed>>

(* Past the requests that run earlier than the first.                      *)
Loop ==
    /\ At("loop")
    /\ thread' = IF thread.temp = NULL \/ cell[thread.temp].time >= cell[start].time
                 THEN [thread EXCEPT !.at = "first"]
                 ELSE [thread EXCEPT !.prev = thread.temp,
                                     !.temp = cell[thread.temp].next]
    /\ UNCHANGED <<list, status, served, missed>>

First ==
    /\ At("first")
    /\ thread' = [thread EXCEPT !.at = "move", !.first = start]
    /\ UNCHANGED <<list, status, served, missed>>

(* The first request stays where it is, or is taken out of the list.       *)
Stays == thread.temp # NULL /\ thread.prev = thread.first

Move ==
    /\ At("move")
    /\ IF Stays THEN UNCHANGED start /\ Goto("sleep")
                ELSE start' = cell[start].next /\ Goto("relink")
    /\ UNCHANGED <<num, cell, status, served, missed>>

(* Mutant: what follows the request that was moved is not set.             *)
RelinkHalf ==
    /\ At("relink")
    /\ cell' = [cell EXCEPT ![thread.prev].next = thread.first]
    /\ Goto("sleep")
    /\ UNCHANGED <<start, num, status, served, missed>>

Relink ==
    /\ At("relink")
    /\ cell' = [cell EXCEPT ![thread.prev].next = thread.first,
                            ![thread.first].next = thread.temp]
    /\ Goto("sleep")
    /\ UNCHANGED <<start, num, status, served, missed>>

(* getSleepTime                                                            *)
SleepTime ==
    /\ At("sleep")
    /\ thread' = [thread EXCEPT !.at = "towait", !.until = cell[start].time,
                                !.temp = NULL, !.prev = NULL, !.first = NULL]
    /\ UNCHANGED <<list, status, served, missed>>

(* pthread_cond_wait and pthread_cond_timedwait: the mutex is never held   *)
(* by anybody else.                                                        *)
Wait ==
    /\ \/ At("wait") /\ Goto("waiting")
       \/ At("towait") /\ Goto("sleeping")
    /\ UNCHANGED <<list, status, served, missed>>

TimedOut ==
    /\ At("sleeping")
    /\ thread.until = 0
    /\ Goto("check")
    /\ UNCHANGED <<list, status, served, missed>>

(* A wait may also end for no reason.                                      *)
Spurious ==
    /\ thread.at \in {"waiting", "sleeping"}
    /\ thread' = [thread EXCEPT !.at = "check", !.until = 0]
    /\ UNCHANGED <<list, status, served, missed>>

ThreadStep ==
    \/ Check \/ Stop \/ Start \/ Send \/ SetTime \/ Scan \/ Loop \/ First
    \/ Move \/ Relink \/ SleepTime \/ Wait \/ TimedOut

ThreadGoesOn == ThreadStep /\ UNCHANGED <<dbus, registers>>
Thread == ThreadGoesOn \/ (Spurious /\ UNCHANGED <<dbus, registers>>)

----
(***************************************************************************)
(* The D-Bus thread.                                                       *)
(***************************************************************************)

(* sensorManagerEventRegister: a cell from malloc, whose time may be any.  *)
(* Which of the free cells it is makes no difference.                      *)
Register ==
    /\ Idle
    /\ registers < MaxRegisters
    /\ registers' = registers + 1
    /\ Live # Cells
    /\ \E p \in Pids, i \in Intervals, t \in Times :
          LET c == CHOOSE c \in Cells \ Live : TRUE
          IN  /\ cell' = [cell EXCEPT ![c] = [pid |-> p, interval |-> i, time |-> t,
                                              next |-> NULL]]
              /\ dbus' = [dbus EXCEPT !.at = "link", !.input = c]
    /\ UNCHANGED <<start, num, status, thread, missed>>

(* addRequest                                                              *)
AddLink ==
    /\ dbus.at = "link"
    /\ cell' = [cell EXCEPT ![dbus.input].next = start]
    /\ dbus' = [dbus EXCEPT !.at = "head"]
    /\ UNCHANGED <<start, num, status, thread, registers, missed>>

AddHead ==
    /\ dbus.at = "head"
    /\ start' = dbus.input
    /\ dbus' = [dbus EXCEPT !.at = "count"]
    /\ UNCHANGED <<num, cell, status, thread, registers, missed>>

(* Mutant: counted where it is linked and again here.                      *)
AddCountTwice ==
    /\ dbus.at = "count"
    /\ cell' = [cell EXCEPT ![dbus.input].time = 0]
    /\ num' = num + 2
    /\ dbus' = [dbus EXCEPT !.at = "signal"]
    /\ UNCHANGED <<start, status, thread, registers, missed>>

AddCount ==
    /\ dbus.at = "count"
    /\ cell' = [cell EXCEPT ![dbus.input].time = 0]
    /\ num' = num + 1
    /\ dbus' = [dbus EXCEPT !.at = "signal"]
    /\ UNCHANGED <<start, status, thread, registers, missed>>

(* Mutant: the thread is not woken up.                                     *)
NoSignal ==
    /\ dbus.at = "signal"
    /\ dbus' = NoWork
    /\ UNCHANGED <<list, status, thread, registers, missed>>

(* pthread_cond_signal: nothing happens if the thread does not wait.       *)
Signal ==
    /\ dbus.at = "signal"
    /\ dbus' = NoWork
    /\ thread' = IF thread.at \in {"waiting", "sleeping"}
                 THEN [thread EXCEPT !.at = "check", !.until = 0]
                 ELSE thread
    /\ missed' = (missed \/ thread.at \in {"stop", "wait"})
    /\ UNCHANGED <<list, status, registers>>

(* sensorManagerEventUnregister with rq_num -1: deleteRequestByPid.        *)
UnregisterAll ==
    /\ Idle
    /\ \E p \in Pids :
          dbus' = [dbus EXCEPT !.at = "top", !.pid = p, !.prev = NULL]
    /\ UNCHANGED <<list, status, thread, registers, missed>>

(* A freed cell keeps what points from it; its pid is no app's.            *)
HasPid(c) == cell[c].pid = dbus.pid
Free(c) == [cell EXCEPT ![c] = [Blank EXCEPT !.next = cell[c].next]]

(* Mutant: the count is left at one.                                       *)
DeleteLastUncounted ==
    /\ dbus.at = "top"
    /\ num = 1
    /\ HasPid(start)
    /\ cell' = Free(start)
    /\ start' = NULL
    /\ dbus' = NoWork
    /\ UNCHANGED <<num, status, thread, registers, missed>>

DeleteLast ==
    /\ dbus.at = "top"
    /\ num = 1
    /\ HasPid(start)
    /\ cell' = Free(start)
    /\ start' = NULL
    /\ num' = 0
    /\ dbus' = NoWork
    /\ UNCHANGED <<status, thread, registers, missed>>

(* Mutants: the last request is never looked at; it is looked at for ever. *)
DeleteEndsEarly ==
    /\ dbus.at = "top"
    /\ num <= 1
    /\ dbus' = NoWork
    /\ UNCHANGED <<list, status, thread, registers, missed>>

DeleteEndsEmpty ==
    /\ dbus.at = "top"
    /\ num = 0
    /\ dbus' = NoWork
    /\ UNCHANGED <<list, status, thread, registers, missed>>

DeleteEnds ==
    /\ dbus.at = "top"
    /\ \/ num = 0
       \/ num = 1 /\ ~HasPid(start)
    /\ dbus' = NoWork
    /\ UNCHANGED <<list, status, thread, registers, missed>>

DeleteBegins ==
    /\ dbus.at = "top"
    /\ num > 1
    /\ dbus' = [dbus EXCEPT !.at = "for", !.temp = start, !.i = 0]
    /\ UNCHANGED <<list, status, thread, registers, missed>>

(* One turn of the loop.  A deleted request stays in temp.                 *)
DeleteTurn ==
    /\ dbus.at = "for"
    /\ IF dbus.i >= num
       THEN dbus' = [dbus EXCEPT !.at = "top"] /\ UNCHANGED list
       ELSE /\ IF HasPid(dbus.temp)
               THEN /\ IF dbus.prev = NULL
                       THEN /\ start' = cell[start].next
                            /\ cell' = Free(dbus.temp)
                       ELSE /\ cell' = [Free(dbus.temp) EXCEPT
                                            ![dbus.prev].next = cell[dbus.temp].next]
                            /\ UNCHANGED start
                    /\ num' = num - 1
                    /\ dbus' = [dbus EXCEPT !.i = @ + 1]
               ELSE /\ dbus' = [dbus EXCEPT !.i = @ + 1, !.prev = dbus.temp,
                                            !.temp = cell[dbus.temp].next]
                    /\ UNCHANGED list
    /\ UNCHANGED <<status, thread, registers, missed>>

(* sensorManagerEventGet: one value for the app that asks.                 *)
GetBegins ==
    /\ Idle
    /\ status = "STOP"
    /\ status' = "RUNNING"
    /\ dbus' = [dbus EXCEPT !.at = "getstop"]
    /\ UNCHANGED <<list, thread, registers, missed>>

GetStops ==
    /\ dbus.at = "getstop"
    /\ status' = "STOP"
    /\ dbus' = NoWork
    /\ UNCHANGED <<list, thread, registers, missed>>

(* "update", and "unregister" of one request, look for it in the list head *)
(* as if that were a sensor: its count is taken for a pointer.             *)
UpdateOrUnregisterOne ==
    /\ Idle
    /\ dbus' = [dbus EXCEPT !.at = "gone"]
    /\ UNCHANGED <<list, status, thread, registers, missed>>

DbusGoesOn ==
    /\ \/ AddLink \/ AddHead \/ AddCount \/ Signal
       \/ DeleteLast \/ DeleteEnds \/ DeleteBegins \/ DeleteTurn
       \/ GetStops
    /\ UNCHANGED served

Dbus ==
    \/ DbusGoesOn
    \/ /\ Register \/ UnregisterAll \/ GetBegins \/ UpdateOrUnregisterOne
       /\ UNCHANGED served

----
(* The clock.  scheduleRequest compares times that do not change with it,  *)
(* so it need not move in between, where relative times would.             *)
Earlier(t) == IF t = 0 THEN 0 ELSE t - 1

Tick ==
    /\ thread.at \notin {"scan", "loop"}
    /\ thread.until > 0 \/ \E c \in Cells : cell[c].time > 0
    /\ cell' = [c \in Cells |-> [cell[c] EXCEPT !.time = Earlier(@)]]
    /\ thread' = [thread EXCEPT !.until = Earlier(@)]
    /\ UNCHANGED <<start, num, status, dbus, served, registers, missed>>

(* What the list does not bear: an insertion at the front between the two  *)
(* statements that take the front away; a deletion while the thread serves *)
(* or moves a request; and a deletion of which deleteRequestByPid is not   *)
(* capable, where more than one request of other apps remains, the first   *)
(* of three or more requests goes, or there are more than four.            *)
Meet ==
    \/ dbus.at = "head" /\ At("move") /\ ~Stays
    \/ dbus.at \in Deleting /\ thread.at \in Iterating
    \/ dbus.at = "top" /\ dbus.prev = NULL
       /\ \/ num > 1 /\ Cardinality({c \in Live : ~HasPid(c)}) > 1
          \/ num > 2 /\ HasPid(start)
          \/ num > 4

(* The thread may serve or sleep by an order that a message has changed.   *)
Mix == dbus.at \in Adding \cup {"getstop"} /\ thread.at \in Iterating \cup {"towait"}

Step(A) ==
    /\ ~torn /\ ~Gone
    /\ A
    /\ mixed' = (mixed \/ Mix')
    /\ torn' = (torn \/ Meet')

Next == Step(Thread \/ Dbus \/ Tick)

Fairness ==
    /\ WF_vars(Step(ThreadGoesOn))
    /\ WF_vars(Step(DbusGoesOn))
    /\ SF_vars(Step(Tick))

Spec == Init /\ [][Next]_vars /\ Fairness

----
(***************************************************************************)
(* Properties.                                                             *)
(***************************************************************************)

(* The cells from start on.                                                *)
Walk[i \in 0 .. Cardinality(Cells)] ==
    IF i = 0 THEN start
    ELSE IF Walk[i - 1] = NULL THEN NULL ELSE cell[Walk[i - 1]].next

(* Neither insertions in the middle of the thread's work (addRequest       *)
(* against scheduleRequest) nor deletions while it sleeps lose a request,  *)
(* keep a freed one, or make the count differ from the list.               *)
ListIsWhole ==
    ~torn /\ Idle /\ ~At("relink") =>
        /\ Live = {Walk[i] : i \in 0 .. num - 1}
        /\ num = Cardinality(Live)
        /\ Walk[num] = NULL

(* The requests that the next statement of sensorThread dereferences.      *)
Touched ==
    CASE thread.at \in {"send", "time", "move", "sleep"} -> {start}
      [] thread.at = "scan" /\ num > 1                -> {start}
      [] thread.at = "loop" /\ thread.temp # NULL     -> {thread.temp, start}
      [] thread.at = "relink"                         -> {thread.prev, thread.first}
      [] OTHER                                        -> {}

(* Neither thread follows a null pointer, and sensorThread none to a freed *)
(* request.                                                                *)
PointersAreGood ==
    ~torn =>
        /\ Touched \subseteq Live
        /\ dbus.at = "top" /\ num = 1 => start \in Live
        /\ dbus.at = "for" /\ dbus.i < num => dbus.temp # NULL

(* The request that is served is one whose next run time is the earliest,  *)
(* so that a new one comes first; and sensorThread sleeps no longer than   *)
(* until the earliest next run time (scheduleRequest, getSleepTime).  This *)
(* is while no message was handled in the middle of the thread's work.     *)
EarliestFirst ==
    ~torn /\ ~mixed =>
        \A c \in Live \ {dbus.input} :
            /\ served # NULL => cell[served].time <= cell[c].time
            /\ thread.at \in {"towait", "sleeping"} => thread.until <= cell[c].time

(* A value is read from the driver while it runs, unless Get started and   *)
(* stopped it in between.                                                  *)
SensorIsOn == ~mixed /\ At("send") => status = "RUNNING"

(* Unregistering an app deletes all its requests and no other's.           *)
DeletesOwn ==
    [][dbus.at = "top" /\ dbus'.at = "idle" /\ ~torn' =>
          \A c \in Live' : cell[c].pid # dbus.pid]_vars

(* A registered request is served, and again after each time, as long as   *)
(* it is registered and its signal did not come just before the wait.      *)
ServedAgain ==
    \A c \in Cells :
        c \in Live ~> (served = c \/ c \notin Live \/ missed \/ torn \/ Gone)

(* Every message is handled in the end, and the next one can come.         *)
HandlersEnd == ~Idle ~> (Idle \/ torn \/ Gone)
====
