------------------------------ MODULE AppCore ------------------------------
(***************************************************************************)
(* The application life cycle of OPEL: AppCore's command handlers, App's   *)
(* state machine, AppList with its SQLite table, the app processes forked  *)
(* by launchApp, SIGCHLD, and the restart of AppCore itself.               *)
(*                                                                         *)
(* AppCore handles one message at a time on its main thread.  A handler is *)
(* one action where nothing can happen in between that matters; where a    *)
(* crash or SIGCHLD in the middle matters it is a chain of actions linked  *)
(* by main.pc.  The SIGCHLD handler preempts the main thread anywhere.     *)
(***************************************************************************)
EXTENDS Integers, FiniteSets

CONSTANTS
  Pids,         \* process ids the kernel may give to a forked app
  Packages,     \* names of user app packages (*.opk without the extension)
  NoPkg,        \* the package of a default app or of an app not installed
  Unquotable,   \* packages whose manifest label breaks the INSERT statement
  MaxAppId,     \* BOUND: highest app id that is ever given out
  MaxChildren,  \* BOUND: app processes of AppCore alive or unreaped at once
  PidReuse,     \* may a new process get a pid that AppCore or a message still names?
  Crashes,      \* what may go down at any moment: "process", "power" or both
  Restarts      \* is AppCore started again after it went down?

ASSUME ConstantsAssumption ==
  /\ Pids \subseteq Nat
  /\ NoPkg \notin Packages
  /\ Unquotable \subseteq Packages
  /\ MaxAppId \in Nat
  /\ MaxChildren \in Nat
  /\ PidReuse \in BOOLEAN /\ Restarts \in BOOLEAN
  /\ Crashes \subseteq {"process", "power"}

AppIds == 0..MaxAppId
NoPid == -1
NoId == -1

\* AppState::Value; the value Initializing is only seen inside initializeApp.
AppState == {"Initializing", "Initialized", "Installing", "Ready", "Launching",
             "Running", "Terminating", "Removing", "Removed"}

App == [state : AppState, pid : Pids \cup {NoPid},
        pkg : Packages \cup {NoPkg}]

VARIABLES
  apps,       \* AppList::mApps: app id -> App, in vector order of the ids
  nextAppId,  \* AppList::mNextAppId
  table,      \* does the table APPLIST exist?
  db,         \* rows of APPLIST: app id -> package
  dirs,       \* packages with a directory under ${OPEL_APPS_DIR}/user
  main,       \* where AppCore's main thread is in a handler
  proc,       \* the processes of apps, by pid
  children,   \* pids of the processes whose parent is the present AppCore
  sigchld,    \* is SIGCHLD pending? (signals of one kind do not queue)
  completes,  \* CompleteLaunchingApp messages on their way, by pid
  acks,       \* their acknowledgements on their way: <<pid, app id>>
  terminates  \* Terminate messages on their way, by app id

memory == <<apps, nextAppId>>
disk == <<table, db, dirs>>
wires == <<completes, acks, terminates>>
vars == <<apps, nextAppId, table, db, dirs, main, proc, children, sigchld,
          completes, acks, terminates>>

-----------------------------------------------------------------------------
(* Helpers *)

Put(f, k, v) == [x \in DOMAIN f \cup {k} |-> IF x = k THEN v ELSE f[x]]
Without(f, k) == [x \in DOMAIN f \ {k} |-> f[x]]
Least(S) == CHOOSE i \in S : \A j \in S : i <= j
Greatest(S) == CHOOSE i \in S : \A j \in S : j <= i

Empty == [i \in {} |-> 0]
Idle == [pc |-> "idle", id |-> NoId, pid |-> NoPid, pkg |-> NoPkg]
At(pc, i) == [Idle EXCEPT !.pc = pc, !.id = i]

NoProc == [st |-> "none", app |-> NoId, route |-> NoId]
Proc == [st : {"none", "starting", "waiting", "ready", "zombie"},
         app : AppIds \cup {NoId}, route : AppIds \cup {NoId}]
Alive(p) == proc[p].st \in {"starting", "waiting", "ready"}

BootPc == {"down", "boot1", "boot2"}
MainPc == BootPc \cup {"idle", "unzip", "flush", "removing", "erase",
                       "dbdelete", "forked", "kill"}

TypeOK ==
  /\ DOMAIN apps \subseteq AppIds /\ apps \in [DOMAIN apps -> App]
  /\ nextAppId \in 0..(MaxAppId + 1)
  /\ table \in BOOLEAN
  /\ DOMAIN db \subseteq AppIds /\ db \in [DOMAIN db -> Packages \cup {NoPkg}]
  /\ dirs \in SUBSET Packages
  /\ main \in [pc : MainPc, id : AppIds \cup {NoId},
               pid : Pids \cup {NoPid}, pkg : Packages \cup {NoPkg}]
  /\ proc \in [Pids -> Proc]
  /\ children \in SUBSET Pids
  /\ sigchld \in BOOLEAN
  /\ completes \in SUBSET Pids
  /\ acks \in SUBSET (Pids \X AppIds)
  /\ terminates \in SUBSET AppIds

-----------------------------------------------------------------------------
(* App::changeState: a change that is not approved is ignored, and none of *)
(* its callers looks at the result.                                        *)

Approved ==
  {<<"Initializing", "Initialized">>,
   <<"Initialized", "Installing">>, <<"Initialized", "Removed">>,
   <<"Installing", "Ready">>, <<"Installing", "Removed">>,
   <<"Ready", "Launching">>, <<"Ready", "Removing">>,
   <<"Launching", "Running">>, <<"Launching", "Ready">>,
   <<"Running", "Terminating">>, <<"Running", "Ready">>,
   <<"Terminating", "Ready">>,
   <<"Removing", "Removed">>}

Changed(app, new) ==
  IF <<app.state, new>> \in Approved THEN [app EXCEPT !.state = new] ELSE app

\* The states of an app that has, or that AppCore believes to have, a process.
Active == {"Launching", "Running", "Terminating"}
Installed == {"Ready", "Removing"} \cup Active

\* AppList::getByPid: the first App in the list that holds the pid.
Holders(p) == {i \in DOMAIN apps : apps[i].pid = p}

\* Is the pid still named by an App object or by a message on its way?
Named(p) == Holders(p) # {} \/ p \in completes \/ \E i \in AppIds : <<p, i>> \in acks

-----------------------------------------------------------------------------
(* Processes *)

\* The processes in P exit: a child stays a zombie and raises SIGCHLD, a
\* process whose parent is gone disappears.
Exit(P) ==
  /\ proc' = [p \in Pids |->
                IF p \notin P THEN proc[p]
                ELSE IF p \in children THEN [proc[p] EXCEPT !.st = "zombie"]
                ELSE NoProc]
  /\ sigchld' = (sigchld \/ P \cap children # {})

\* An app ends by itself or crashes, at any moment of its life.
AppExits(p) ==
  /\ Alive(p)
  /\ Exit({p})
  /\ UNCHANGED <<memory, disk, main, children, wires>>

\* AppBase::completeLaunchingApp: the started app tells AppCore its pid.  It
\* is heard only if an AppCore is there.
SendComplete(p) ==
  /\ proc[p].st = "starting"
  /\ proc' = [proc EXCEPT ![p].st = "waiting"]
  /\ completes' = IF main.pc = "down" THEN completes ELSE completes \cup {p}
  /\ UNCHANGED <<memory, disk, main, children, sigchld, acks, terminates>>

\* findBestChannelLocked compares URIs character by character: the route
\* /thing/apps/1 also matches the URI /thing/apps/12, and the route
\* /thing/apps/pid1 the URI /thing/apps/pid12 (BOUND: numbers of 5 digits).
Answers(route, i) ==
  \/ route = i
  \/ route > 0 /\ \E d \in {10, 100, 1000, 10000} : i \div d = route

\* AppBase::onAckCompleteLaunchingApp: from now on the process answers to the
\* app id that the acknowledgement names, and to its pid no more.
DeliverAck(p, i) ==
  /\ <<p, i>> \in acks
  /\ acks' = acks \ {<<p, i>>}
  /\ proc' = [q \in Pids |->
                IF proc[q].st = "waiting" /\ Answers(q, p)
                THEN [proc[q] EXCEPT !.st = "ready", !.route = i] ELSE proc[q]]
  /\ UNCHANGED <<memory, disk, main, children, sigchld, completes, terminates>>

\* A Terminate message is broadcast: the processes that have a route for the
\* app id at that moment terminate, everybody else drops the message.
DeliverTerminate(i) ==
  /\ i \in terminates
  /\ terminates' = terminates \ {i}
  /\ Exit({p \in Pids : proc[p].st = "ready" /\ Answers(proc[p].route, i)})
  /\ UNCHANGED <<memory, disk, main, children, completes, acks>>

-----------------------------------------------------------------------------
(* Commands of the companion device, handled on the main thread *)

\* Mutant of InitializeApp: the new id is the length of the list.
InitializeAppBySize ==
  /\ main = Idle
  /\ nextAppId <= MaxAppId
  /\ apps' = Put(apps, Cardinality(DOMAIN apps),
                 [state |-> "Initialized", pid |-> NoPid, pkg |-> NoPkg])
  /\ nextAppId' = nextAppId + 1
  /\ UNCHANGED <<disk, main, proc, children, sigchld, wires>>

InitializeApp ==
  /\ main = Idle
  /\ nextAppId <= MaxAppId
  /\ apps' = Put(apps, nextAppId,
                 [state |-> "Initialized", pid |-> NoPid, pkg |-> NoPkg])
  /\ nextAppId' = nextAppId + 1
  /\ UNCHANGED <<disk, main, proc, children, sigchld, wires>>

\* Mutant of InstallApp: it does not fail if the directory exists.
InstallAppOver(i, k) ==
  /\ main = Idle
  /\ i \in DOMAIN apps /\ apps[i].state = "Initialized"
  /\ apps' = [apps EXCEPT ![i] = Changed(apps[i], "Installing")]
  /\ dirs' = dirs \cup {k}
  /\ main' = [At("unzip", i) EXCEPT !.pkg = k]
  /\ UNCHANGED <<nextAppId, table, db, proc, children, sigchld, wires>>

\* installApp up to the directory of the package.  If the directory exists
\* the app is marked as Removed, and the installation goes on all the same.
InstallApp(i, k) ==
  /\ main = Idle
  /\ i \in DOMAIN apps /\ apps[i].state = "Initialized"
  /\ LET installing == Changed(apps[i], "Installing")
     IN apps' = [apps EXCEPT ![i] = IF k \in dirs
                                    THEN Changed(installing, "Removed")
                                    ELSE installing]
  /\ dirs' = dirs \cup {k}
  /\ main' = [At("unzip", i) EXCEPT !.pkg = k]
  /\ UNCHANGED <<nextAppId, table, db, proc, children, sigchld, wires>>

\* The package is unpacked and its file removed (which may fail), and the
\* manifest is read (which may fail too).
InstallUnpack(fileRemoved, manifestRead) ==
  /\ main.pc = "unzip"
  /\ LET i == main.id
         unpacked == IF fileRemoved THEN apps[i] ELSE Changed(apps[i], "Removed")
     IN IF manifestRead
        THEN /\ apps' = [apps EXCEPT ![i] =
                           Changed([unpacked EXCEPT !.pkg = main.pkg], "Ready")]
             /\ main' = [main EXCEPT !.pc = "flush"]
        ELSE /\ apps' = [apps EXCEPT ![i] = Changed(unpacked, "Removed")]
             /\ main' = Idle
  /\ UNCHANGED <<nextAppId, disk, proc, children, sigchld, wires>>

\* Mutant of InstallFlush: the app is not stored.
InstallFlushNothing ==
  /\ main.pc = "flush"
  /\ main' = Idle
  /\ UNCHANGED <<memory, disk, proc, children, sigchld, wires>>

\* AppList::flush: INSERT, refused if the statement is malformed or the id is
\* taken.  installApp does not look at the result.
InstallFlush ==
  /\ main.pc = "flush"
  /\ db' = IF main.pkg \in Unquotable \/ main.id \in DOMAIN db
           THEN db
           ELSE Put(db, main.id, main.pkg)
  /\ main' = Idle
  /\ UNCHANGED <<memory, table, dirs, proc, children, sigchld, wires>>

\* Mutant of RemoveApp: the state is not checked.
RemoveAppAnyState(i) ==
  /\ main = Idle
  /\ i \in DOMAIN apps
  /\ apps' = [apps EXCEPT ![i] = Changed(apps[i], "Removing")]
  /\ main' = At("removing", i)
  /\ UNCHANGED <<nextAppId, disk, proc, children, sigchld, wires>>

\* removeApp; the command that would delete the directory is never run.
RemoveApp(i) ==
  /\ main = Idle
  /\ i \in DOMAIN apps /\ apps[i].state = "Ready"
  /\ apps' = [apps EXCEPT ![i] = Changed(apps[i], "Removing")]
  /\ main' = At("removing", i)
  /\ UNCHANGED <<nextAppId, disk, proc, children, sigchld, wires>>

\* AppCore dies.  Its children live on without a parent, or everything is lost
\* with the power of the device.
GoDown(what) ==
  LET powerLost == what = "power" IN
  /\ apps' = Empty /\ nextAppId' = 0
  /\ main' = At("down", NoId)
  /\ proc' = [p \in Pids |-> IF Alive(p) /\ ~powerLost THEN proc[p] ELSE NoProc]
  /\ children' = {} /\ sigchld' = FALSE
  /\ completes' = {} /\ terminates' = {}
  /\ acks' = IF powerLost THEN {} ELSE acks
  /\ UNCHANGED disk

\* AppList::remove erases the App inside the loop over the vector: after the
\* last element is erased the iterator runs past the end of the vector, which
\* is undefined; what it does is crash, before the row is deleted.
RemoveErase ==
  /\ main.pc = "removing"
  /\ \/ /\ apps' = Without(apps, main.id)
        /\ main' = At("dbdelete", main.id)
        /\ UNCHANGED <<nextAppId, disk, proc, children, sigchld, wires>>
     \/ /\ main.id = Greatest(DOMAIN apps)
        /\ GoDown("process")

RemoveDelete ==
  /\ main.pc = "dbdelete"
  /\ db' = Without(db, main.id)
  /\ main' = Idle
  /\ UNCHANGED <<memory, table, dirs, proc, children, sigchld, wires>>

\* The pids that fork may return: those of no process at all.
FreePids == {p \in Pids : proc[p].st = "none" /\ (PidReuse \/ ~Named(p))}

\* Mutant of LaunchFork: an app that is terminating is launched again.
LaunchForkEarly(i, p) ==
  /\ main = Idle
  /\ i \in DOMAIN apps /\ apps[i].state \in {"Ready", "Terminating"}
  /\ Cardinality(children) < MaxChildren
  /\ p \in FreePids
  /\ proc' = [proc EXCEPT ![p] = [st |-> "starting", app |-> i, route |-> NoId]]
  /\ children' = children \cup {p}
  /\ main' = [At("forked", i) EXCEPT !.pid = p]
  /\ UNCHANGED <<memory, disk, sigchld, wires>>

\* launchApp up to the return of fork in the parent.
LaunchFork(i, p) ==
  /\ main = Idle
  /\ i \in DOMAIN apps /\ apps[i].state = "Ready"
  /\ Cardinality(children) < MaxChildren
  /\ p \in FreePids
  /\ proc' = [proc EXCEPT ![p] = [st |-> "starting", app |-> i, route |-> NoId]]
  /\ children' = children \cup {p}
  /\ main' = [At("forked", i) EXCEPT !.pid = p]
  /\ UNCHANGED <<memory, disk, sigchld, wires>>

\* App::startLaunching(pid): only now AppCore knows the pid.
LaunchRecord ==
  /\ main.pc = "forked"
  /\ apps' = [apps EXCEPT ![main.id] =
                Changed([apps[main.id] EXCEPT !.pid = main.pid], "Launching")]
  /\ main' = Idle
  /\ UNCHANGED <<nextAppId, disk, proc, children, sigchld, wires>>

\* Mutants of Acknowledge: the answer names the pid; it is for the first app
\* that is being launched instead of the one that holds the pid.
AcknowledgePid(p) ==
  IF Holders(p) # {} /\ apps[Least(Holders(p))].state = "Launching"
  THEN LET i == Least(Holders(p))
       IN /\ apps' = [apps EXCEPT ![i] = Changed(apps[i], "Running")]
          /\ acks' = acks \cup {<<p, p>>}
  ELSE UNCHANGED <<apps, acks>>

AcknowledgeFirst(p) ==
  LET launching == {i \in DOMAIN apps : apps[i].state = "Launching"}
  IN IF launching # {}
     THEN /\ apps' = [apps EXCEPT ![Least(launching)].state = "Running"]
          /\ acks' = acks \cup {<<p, Least(launching)>>}
     ELSE UNCHANGED <<apps, acks>>

\* The app that holds the pid runs from now on, and its process learns its id.
Acknowledge(p) ==
  IF Holders(p) # {} /\ apps[Least(Holders(p))].state = "Launching"
  THEN LET i == Least(Holders(p))
       IN /\ apps' = [apps EXCEPT ![i] = Changed(apps[i], "Running")]
          /\ acks' = acks \cup {<<p, i>>}
  ELSE UNCHANGED <<apps, acks>>

\* completeLaunchingApp(pid).  Another app process that is connected to D-Bus
\* may send the message once more, for its router knows /thing/appcore too.
CompleteLaunching(p) ==
  /\ main = Idle
  /\ p \in completes
  /\ \/ completes' = completes \ {p}
     \/ /\ \E q \in Pids \ {p} : proc[q].st \in {"waiting", "ready"}
        /\ UNCHANGED completes
  /\ Acknowledge(p)
  /\ UNCHANGED <<nextAppId, disk, main, proc, children, sigchld, terminates>>

\* terminateApp of an app that runs: it is asked to terminate.
TerminateRunning(i) ==
  /\ main = Idle
  /\ i \in DOMAIN apps /\ apps[i].state = "Running"
  /\ apps' = [apps EXCEPT ![i] = Changed(apps[i], "Terminating")]
  /\ terminates' = terminates \cup {i}
  /\ UNCHANGED <<nextAppId, disk, main, proc, children, sigchld, completes, acks>>

\* terminateApp of an app that is being launched: it will be killed by force.
TerminateLaunching(i) ==
  /\ main = Idle
  /\ i \in DOMAIN apps /\ apps[i].state = "Launching"
  /\ apps' = [apps EXCEPT ![i] = Changed(apps[i], "Terminating")]
  /\ main' = At("kill", i)
  /\ UNCHANGED <<nextAppId, disk, proc, children, sigchld, wires>>

\* kill(pid, SIGKILL) reaches whatever process has the pid by now.
TerminateKill ==
  /\ main.pc = "kill"
  /\ Exit({p \in Pids : p = apps[main.id].pid /\ Alive(p)})
  /\ main' = Idle
  /\ UNCHANGED <<memory, disk, children, wires>>

\* Mutant of SignalHandler: nothing is done while a command is handled.
SignalHandlerIdle ==
  /\ sigchld
  /\ sigchld' = FALSE
  /\ \/ /\ main = Idle
        /\ \E p \in children :
             /\ proc[p].st = "zombie"
             /\ proc' = [proc EXCEPT ![p] = NoProc]
             /\ children' = children \ {p}
        /\ UNCHANGED apps
     \/ /\ main # Idle
        /\ UNCHANGED <<apps, proc, children>>
  /\ UNCHANGED <<nextAppId, disk, main, wires>>

\* The SIGCHLD handler: one wait(), and completeTerminatingApp for the pid.
SignalHandler ==
  /\ sigchld
  /\ sigchld' = FALSE
  /\ \E p \in children :
       /\ proc[p].st = "zombie"
       /\ proc' = [proc EXCEPT ![p] = NoProc]
       /\ children' = children \ {p}
       /\ apps' = [i \in DOMAIN apps |->
                     IF /\ i \in Holders(p) /\ i = Least(Holders(p))
                        /\ apps[i].state \in Active \cup {"Ready"}
                     THEN Changed(apps[i], "Ready") ELSE apps[i]]
  /\ UNCHANGED <<nextAppId, disk, main, wires>>

-----------------------------------------------------------------------------
(* Down and up again *)

Crash ==
  /\ main.pc # "down"
  /\ \E what \in Crashes : GoDown(what)

\* AppList::initializeFromDB: every row is loaded as a Ready app, without a
\* pid; an empty list counts as a list that could not be fetched.
Restart ==
  /\ Restarts
  /\ main.pc = "down"
  /\ table' = TRUE
  /\ IF DOMAIN db # {}
     THEN /\ apps' = [i \in DOMAIN db |->
                        [state |-> "Ready", pid |-> NoPid, pkg |-> db[i]]]
          /\ nextAppId' = Greatest(DOMAIN db) + 1
          /\ main' = Idle
     ELSE /\ apps' = Empty
          /\ nextAppId' = IF table THEN 1 ELSE 0
          /\ main' = At("boot1", NoId)
  /\ UNCHANGED <<db, dirs, proc, children, sigchld, wires>>

\* One of the two default apps of initializeDefaultApps, added and flushed.
AddDefaultApp(from, to) ==
  /\ main.pc = from
  /\ nextAppId <= MaxAppId
  /\ apps' = Put(apps, nextAppId,
                 [state |-> "Ready", pid |-> NoPid, pkg |-> NoPkg])
  /\ db' = IF nextAppId \in DOMAIN db THEN db ELSE Put(db, nextAppId, NoPkg)
  /\ nextAppId' = nextAppId + 1
  /\ main' = At(to, NoId)
  /\ UNCHANGED <<table, dirs, proc, children, sigchld, wires>>

AddCameraViewer == AddDefaultApp("boot1", "boot2")
AddSensorViewer == AddDefaultApp("boot2", "idle")

-----------------------------------------------------------------------------

\* AppCore starts for the first time, on a device without a database.
Init ==
  /\ apps = Empty /\ nextAppId = 0
  /\ table = TRUE /\ db = Empty /\ dirs = {}
  /\ main = At("boot1", NoId)
  /\ proc = [p \in Pids |-> NoProc]
  /\ children = {} /\ sigchld = FALSE
  /\ completes = {} /\ acks = {} /\ terminates = {}

Commands ==
  \/ InitializeApp
  \/ \E i \in AppIds : \/ \E k \in Packages : InstallApp(i, k)
                        \/ RemoveApp(i)
                        \/ \E p \in Pids : LaunchFork(i, p)
                        \/ TerminateRunning(i)
                        \/ TerminateLaunching(i)
  \/ \E p \in Pids : CompleteLaunching(p)

\* The rest of a handler that has begun.
Continue ==
  \/ \E fileRemoved, manifestRead \in BOOLEAN :
       InstallUnpack(fileRemoved, manifestRead)
  \/ InstallFlush \/ RemoveErase \/ RemoveDelete \/ LaunchRecord
  \/ TerminateKill \/ AddCameraViewer \/ AddSensorViewer

Messages ==
  \/ \E p \in Pids, i \in AppIds : DeliverAck(p, i)
  \/ \E i \in AppIds : DeliverTerminate(i)

Processes == \E p \in Pids : AppExits(p) \/ SendComplete(p)

Next == Commands \/ Continue \/ Messages \/ Processes \/ SignalHandler
        \/ Crash \/ Restart

Spec == Init /\ [][Next]_vars

\* A pending signal is delivered, a thread that is ready runs on, and a message
\* on its way arrives.  Commands, crashes and the exits of apps are not forced.
Fairness ==
  /\ WF_vars(SignalHandler)
  /\ WF_vars(Continue)
  /\ WF_vars(\E p \in Pids, i \in AppIds : DeliverAck(p, i))
  /\ \A i \in AppIds : WF_vars(DeliverTerminate(i))

FairSpec == Spec /\ Fairness

-----------------------------------------------------------------------------
(* Properties *)

\* A process that AppCore started and has not reaped belongs to an app that is
\* listed and that AppCore takes for launched: launchApp never starts a second
\* process beside it, and removeApp never removes the app under it.  (Between
\* fork and startLaunching the app is still Ready.)
ChildIsActive ==
  \A p \in children :
    \/ main.pc = "forked" /\ main.pid = p /\ main.id = proc[p].app
    \/ proc[p].app \in DOMAIN apps /\ apps[proc[p].app].state \in Active

\* No app has two processes of the same AppCore, dead but unreaped ones
\* included, whatever pids the kernel hands out and however SIGCHLD interrupts.
OneProcessPerApp ==
  \A p, q \in children : proc[p].app = proc[q].app => p = q

\* What the main thread relies on in the middle of a handler, whatever SIGCHLD
\* has done since the handler began; outside a handler it holds nothing.
MainOK ==
  /\ main.pc = "idle" => main = Idle
  /\ main.pc \in BootPc => children = {}
  /\ main.pc \in {"unzip", "flush"} =>
       main.id \in DOMAIN apps /\ main.pkg \in Packages
  /\ main.pc = "unzip" => apps[main.id].state \in {"Installing", "Removed"}
  /\ main.pc = "flush" => apps[main.id].state \in {"Ready", "Removed"}
  /\ main.pc = "removing" => main.id \in DOMAIN apps /\ apps[main.id].state = "Removing"
  /\ main.pc = "dbdelete" => main.id \in AppIds \ DOMAIN apps
  /\ main.pc = "forked" => /\ main.id \in DOMAIN apps /\ main.pid \in Pids
                           /\ apps[main.id].state = "Ready"
  /\ main.pc = "kill" => main.id \in DOMAIN apps

\* Ids are given out in ascending order: the next one is above all in the list.
NextIdFresh == \A i \in DOMAIN apps : i < nextAppId

\* Every child is tracked: by launchApp between fork and startLaunching, and
\* then by the app it was started for, which holds its pid and is active.
ChildIsTracked ==
  \A p \in children :
    /\ proc[p].st # "none"
    /\ \/ main.pc = "forked" /\ main.pid = p /\ main.id = proc[p].app
       \/ /\ proc[p].app \in DOMAIN apps
          /\ apps[proc[p].app].pid = p /\ apps[proc[p].app].state \in Active

\* An installed app has its row, or installApp is about to store it.
RowOrFlush ==
  \A i \in DOMAIN apps : apps[i].state \in Installed =>
    i \in DOMAIN db \/ (main.pc = "flush" /\ main.id = i)

\* The inductive invariant of AppCore.
IInv == TypeOK /\ MainOK /\ NextIdFresh /\ ChildIsTracked

\* "Ready: store to DB" (App.h): outside a handler, every app that can be
\* launched or is running has its row, so a restart brings it back.
InstalledIsPersisted ==
  main.pc = "idle" =>
    \A i \in DOMAIN apps : apps[i].state \in Installed => i \in DOMAIN db

\* While one AppCore runs, an app id that has been given out and is not in the
\* list any more never comes back to it: no handler re-issues or revives an id.
NoResurrection ==
  [][main.pc \notin BootPc =>
       \A i \in DOMAIN apps' \ DOMAIN apps : i >= nextAppId]_vars

\* The app that a process answers for is the app it was started for.  It takes
\* an acknowledgement to the wrong process, or about the wrong app, to break.
RouteIsOwn ==
  \A p \in Pids : proc[p].st = "ready" => proc[p].route = proc[p].app

\* Two installed apps never share a package directory: the second installation
\* of a package of the same name has to fail.
DistinctDirectories ==
  \A i, j \in DOMAIN apps :
    (/\ i # j /\ apps[i].pkg # NoPkg
     /\ apps[i].state \in Installed /\ apps[j].state \in Installed)
      => apps[i].pkg # apps[j].pkg

\* Every dead app process is reaped in the end, so that its app gets Ready.
DeathIsNoticed ==
  \A p \in Pids : (proc[p].st = "zombie") ~> (proc[p].st # "zombie")

\* AppCore keeps the promise of AppRegistry: a row of the database is a stored
\* app, a child process that is not reaped makes its app a running one.
Registry == INSTANCE AppRegistry WITH
  AppId <- AppIds,
  stored <- DOMAIN db,
  running <- {proc[p].app : p \in children}

RegistrySpec == Registry!Spec

(* What the comments of the code say, and the code does not do *)

\* AppCore.cpp: "Terminate app by force": the process that is killed is the
\* app's own.
KillsOwnProcess ==
  [][(main.pc = "kill" /\ main'.pc = "idle") =>
       \A p \in Pids : proc'[p] # proc[p] => proc[p].app = main.id]_vars

\* AppCore.cpp: "Terminate app by force, since the app is not ready to listen
\* terminate message": an app that is killed does not stay in Launching.
ForcedTerminationEnds ==
  \A i \in AppIds :
    (main.pc = "kill" /\ main.id = i) ~>
      (i \notin DOMAIN apps \/ apps[i].state # "Launching")

=============================================================================
