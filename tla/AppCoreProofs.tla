--------------------------- MODULE AppCoreProofs ---------------------------
(***************************************************************************)
(* Theorems about AppCore, for every set of pids and packages, any number  *)
(* of apps and children, with and without pid reuse, crashes and restarts. *)
(***************************************************************************)
EXTENDS AppCore, WellFoundedInduction, TLAPS

-----------------------------------------------------------------------------
(* Lemmas about the helpers *)

\* A non-empty set of numbers has a least one.
LEMMA LeastExists ==
  ASSUME NEW S, S \subseteq Nat, S # {}
  PROVE  \E n \in S : \A m \in S : n <= m
<1>1. PICK R : IsWellFoundedOn(R, Nat) /\ \A x, y \in Nat : <<x, y>> \in R <=> x < y
  <2> DEFINE Less == {ss \in Nat \X Nat : ss[1] < ss[2]}
  <2>1. IsWellFoundedOn(Less, Nat)
    BY NatLessThanWellFounded DEF OpToRel
  <2>2. \A x, y \in Nat : <<x, y>> \in Less <=> x < y
    OBVIOUS
  <2> QED  BY <2>1, <2>2
<1>2. IsWellFoundedOn(R, Nat)
  BY <1>1
<1>3. \E n \in S : \A m \in S : ~ (<<m, n>> \in R)
  BY <1>2, WFMin, Zenon
<1>4. \A m, n \in S : ~ (<<m, n>> \in R) => n <= m
  BY <1>1
<1> QED  BY <1>3, <1>4, Zenon

\* getByPid finds an app of the list if there is one with the pid.
LEMMA LeastInSet ==
  ASSUME NEW S, S \subseteq Nat, S # {}
  PROVE  Least(S) \in S
<1>1. PICK n \in S : \A m \in S : n <= m
  BY LeastExists
<1> QED  BY <1>1 DEF Least

\* A finite list of ids has a greatest one.
LEMMA GreatestInSet ==
  ASSUME NEW S, S \subseteq AppIds, S # {}
  PROVE  Greatest(S) \in S /\ \A i \in S : i <= Greatest(S)
<1> DEFINE T == {n \in Nat : MaxAppId - n \in S}
<1>1. MaxAppId \in Nat /\ AppIds = 0..MaxAppId
  BY ConstantsAssumption DEF AppIds
<1>2. T # {}
  <2>1. PICK i \in S : TRUE
    OBVIOUS
  <2>2. MaxAppId - i \in Nat /\ MaxAppId - (MaxAppId - i) = i
    BY <1>1, <2>1
  <2> QED  BY <2>1, <2>2
<1>3. PICK n \in T : \A m \in T : n <= m
  BY <1>2, LeastExists
<1>4. \A i \in S : i <= MaxAppId - n
  <2> TAKE i \in S
  <2>1. MaxAppId - i \in T
    BY <1>1
  <2>2. n <= MaxAppId - i
    BY <1>3, <2>1
  <2> QED  BY <1>1, <2>2
<1> QED  BY <1>3, <1>4 DEF Greatest

\* changeState changes nothing but the state, and that to the new one or not.
LEMMA ChangedFacts ==
  ASSUME NEW app \in App, NEW new \in AppState
  PROVE  /\ Changed(app, new) \in App
         /\ Changed(app, new).pid = app.pid
         /\ Changed(app, new).pkg = app.pkg
         /\ Changed(app, new).state \in {app.state, new}
         /\ <<app.state, new>> \notin Approved => Changed(app, new) = app
BY DEF Changed, App

\* One App object changes, the list stays.
LEMMA UpdateFacts ==
  ASSUME TypeOK, NEW i \in DOMAIN apps, NEW a \in App, apps' = [apps EXCEPT ![i] = a]
  PROVE  /\ DOMAIN apps' = DOMAIN apps
         /\ DOMAIN apps' \subseteq AppIds /\ apps' \in [DOMAIN apps' -> App]
         /\ apps'[i] = a
         /\ \A j \in DOMAIN apps : j # i => apps'[j] = apps[j]
BY DEF TypeOK

\* A new App object is appended.
LEMMA AppendFacts ==
  ASSUME TypeOK, NEW i \in AppIds \ DOMAIN apps, NEW a \in App, apps' = Put(apps, i, a)
  PROVE  /\ DOMAIN apps' = DOMAIN apps \cup {i}
         /\ DOMAIN apps' \subseteq AppIds /\ apps' \in [DOMAIN apps' -> App]
         /\ apps'[i] = a
         /\ \A j \in DOMAIN apps : apps'[j] = apps[j]
BY DEF TypeOK, Put

\* A row is inserted.
LEMMA InsertFacts ==
  ASSUME TypeOK, NEW i \in AppIds, NEW k \in Packages \cup {NoPkg}, db' = Put(db, i, k)
  PROVE  /\ DOMAIN db' = DOMAIN db \cup {i}
         /\ DOMAIN db' \subseteq AppIds /\ db' \in [DOMAIN db' -> Packages \cup {NoPkg}]
BY DEF TypeOK, Put

\* No apps, no rows.
LEMMA EmptyFacts == DOMAIN Empty = {} /\ \A R : Empty \in [DOMAIN Empty -> R]
BY DEF Empty

-----------------------------------------------------------------------------
(* The inductive invariant *)

LEMMA InitIInv == Init => IInv
<1> SUFFICES ASSUME Init PROVE IInv
  OBVIOUS
<1>1. TypeOK
  <2>1. DOMAIN apps = {} /\ apps \in [DOMAIN apps -> App]
    BY EmptyFacts DEF Init
  <2>2. DOMAIN db = {} /\ db \in [DOMAIN db -> Packages \cup {NoPkg}]
    BY EmptyFacts DEF Init
  <2>3. main \in [pc : MainPc, id : AppIds \cup {NoId},
                 pid : Pids \cup {NoPid}, pkg : Packages \cup {NoPkg}]
    BY DEF Init, At, Idle, MainPc, BootPc
  <2>4. proc \in [Pids -> Proc]
    BY DEF Init, Proc, NoProc
  <2>5. nextAppId \in 0..(MaxAppId + 1)
    BY ConstantsAssumption DEF Init
  <2>6. /\ table \in BOOLEAN /\ dirs \in SUBSET Packages /\ children \in SUBSET Pids
        /\ sigchld \in BOOLEAN /\ completes \in SUBSET Pids
        /\ acks \in SUBSET (Pids \X AppIds) /\ terminates \in SUBSET AppIds
    BY DEF Init
  <2> QED  BY <2>1, <2>2, <2>3, <2>4, <2>5, <2>6 DEF TypeOK
<1>2. MainOK /\ NextIdFresh /\ ChildIsTracked
  BY EmptyFacts DEF Init, MainOK, NextIdFresh, ChildIsTracked, At, Idle, BootPc
<1> QED  BY <1>1, <1>2 DEF IInv

\* An acknowledgement readies processes that wait for one, no matter whether it is
\* theirs, and changes nothing else in them.
LEMMA DeliverAckFacts ==
  ASSUME IInv, NEW p \in Pids, NEW i \in AppIds, DeliverAck(p, i)
  PROVE  /\ proc' \in [Pids -> Proc]
         /\ \A q \in Pids : /\ proc'[q].app = proc[q].app
                            /\ proc'[q].st # "none" <=> proc[q].st # "none"
<1> DEFINE Ready(q) == [proc[q] EXCEPT !.st = "ready", !.route = i]
<1>1. \A q \in Pids : proc[q] \in Proc
  BY DEF IInv, TypeOK
<1>2. ASSUME NEW q \in Pids
      PROVE  Ready(q) \in Proc /\ Ready(q).app = proc[q].app /\ Ready(q).st = "ready"
  BY <1>1 DEF Proc
<1>3. \A q \in Pids : proc'[q] = proc[q] \/ (proc[q].st = "waiting" /\ proc'[q] = Ready(q))
  BY DEF DeliverAck
<1>4. proc' = [q \in Pids |-> proc'[q]]
  BY DEF DeliverAck
<1> HIDE DEF Ready
<1> QED  BY <1>1, <1>2, <1>3, <1>4

LEMMA DeliverAckStep ==
  ASSUME IInv, NEW p \in Pids, NEW i \in AppIds, DeliverAck(p, i)
  PROVE  IInv'
<1> USE DEF DeliverAck, IInv, memory, disk, wires
<1>1. proc' \in [Pids -> Proc] /\ acks' \in SUBSET (Pids \X AppIds)
  BY DeliverAckFacts DEF TypeOK
<1>2. TypeOK'
  BY <1>1 DEF TypeOK
<1>3. MainOK' /\ NextIdFresh'
  BY DEF MainOK, NextIdFresh
<1>4. ChildIsTracked'
  <2>1. apps' = apps /\ main' = main /\ children' = children
    OBVIOUS
  <2>2. \A q \in Pids : proc'[q].app = proc[q].app /\ (proc'[q].st # "none" <=> proc[q].st # "none")
    BY DeliverAckFacts
  <2> HIDE DEF DeliverAck
  <2> QED  BY <2>1, <2>2 DEF ChildIsTracked, TypeOK
<1> QED  BY <1>2, <1>3, <1>4

LEMMA InitializeAppStep ==
  ASSUME IInv, InitializeApp
  PROVE  IInv'
<1> USE DEF InitializeApp, IInv, memory, disk, wires
<1> DEFINE new == [state |-> "Initialized", pid |-> NoPid, pkg |-> NoPkg]
<1>1. nextAppId \in AppIds \ DOMAIN apps /\ nextAppId' = nextAppId + 1 /\ nextAppId' \in 0..(MaxAppId + 1)
  BY ConstantsAssumption DEF TypeOK, NextIdFresh, AppIds
<1>2. new \in App /\ new.state = "Initialized"
  BY DEF App, AppState
<1> HIDE DEF new
<1>3. /\ DOMAIN apps' = DOMAIN apps \cup {nextAppId}
      /\ apps' \in [DOMAIN apps' -> App]
      /\ apps'[nextAppId] = new
      /\ \A j \in DOMAIN apps : apps'[j] = apps[j]
  <2>1. apps' = Put(apps, nextAppId, new)
    BY DEF new
  <2> QED  BY <1>1, <1>2, <2>1, AppendFacts
<1>4. TypeOK'
  BY <1>1, <1>3 DEF TypeOK
<1>5. MainOK'
  BY DEF MainOK, Idle, BootPc
<1>6. NextIdFresh'
  <2>1. \A j \in DOMAIN apps : j \in Int /\ nextAppId \in Int /\ j < nextAppId
    BY ConstantsAssumption DEF TypeOK, NextIdFresh, AppIds
  <2>2. nextAppId \in Int /\ nextAppId < nextAppId'
    BY <1>1 DEF AppIds
  <2>3. \A j \in DOMAIN apps : j < nextAppId'
    BY <1>1, <2>1, <2>2
  <2> QED  BY <1>3, <2>2, <2>3 DEF NextIdFresh
<1>7. ChildIsTracked'
  BY <1>3 DEF ChildIsTracked, TypeOK, Idle
<1> QED  BY <1>4, <1>5, <1>6, <1>7

LEMMA InstallAppStep ==
  ASSUME IInv, NEW i \in AppIds, NEW k \in Packages, InstallApp(i, k)
  PROVE  IInv'
<1> USE DEF InstallApp, IInv, memory, disk, wires
<1> DEFINE installing == Changed(apps[i], "Installing")
           a == IF k \in dirs THEN Changed(installing, "Removed") ELSE installing
<1>1. i \in DOMAIN apps /\ apps[i] \in App /\ apps[i].state = "Initialized"
  BY DEF TypeOK
<1>2. a \in App /\ a.state \in {"Installing", "Removed"}
  <2>1. installing \in App /\ installing.state = "Installing"
    BY <1>1 DEF Changed, Approved, App, AppState
  <2>2. Changed(installing, "Removed") \in App /\ Changed(installing, "Removed").state = "Removed"
    BY <2>1 DEF Changed, Approved, App, AppState
  <2> QED  BY <2>1, <2>2
<1> HIDE DEF a
<1>3. apps' = [apps EXCEPT ![i] = a]
  BY DEF a
<1>4. /\ DOMAIN apps' = DOMAIN apps
      /\ DOMAIN apps' \subseteq AppIds /\ apps' \in [DOMAIN apps' -> App]
      /\ apps'[i] = a
      /\ \A j \in DOMAIN apps : j # i => apps'[j] = apps[j]
  BY <1>1, <1>2, <1>3, UpdateFacts
<1>5. main' = [pc |-> "unzip", id |-> i, pid |-> NoPid, pkg |-> k]
  BY DEF At, Idle
<1>6. TypeOK'
  <2>1. main' \in [pc : MainPc, id : AppIds \cup {NoId},
                  pid : Pids \cup {NoPid}, pkg : Packages \cup {NoPkg}]
    BY <1>5 DEF MainPc
  <2>2. dirs' \in SUBSET Packages
    BY DEF TypeOK
  <2> QED  BY <1>4, <2>1, <2>2 DEF TypeOK
<1>7. MainOK'
  BY <1>1, <1>2, <1>4, <1>5 DEF MainOK, BootPc
<1>8. NextIdFresh'
  BY <1>4 DEF NextIdFresh
<1>9. ChildIsTracked'
  BY <1>1, <1>2, <1>4 DEF ChildIsTracked, Active, Idle
<1> QED  BY <1>6, <1>7, <1>8, <1>9

LEMMA InstallUnpackStep ==
  ASSUME IInv, NEW fileRemoved \in BOOLEAN, NEW manifestRead \in BOOLEAN,
         InstallUnpack(fileRemoved, manifestRead)
  PROVE  IInv'
<1> USE DEF InstallUnpack, IInv, memory, disk, wires
<1> DEFINE i == main.id
           unpacked == IF fileRemoved THEN apps[i] ELSE Changed(apps[i], "Removed")
           a == IF manifestRead
                THEN Changed([unpacked EXCEPT !.pkg = main.pkg], "Ready")
                ELSE Changed(unpacked, "Removed")
<1>1. /\ i \in DOMAIN apps /\ apps[i] \in App /\ apps[i].state \in {"Installing", "Removed"}
      /\ main.pkg \in Packages
  BY DEF TypeOK, MainOK
<1>2. a \in App /\ a.state \in {"Removed"} \cup (IF manifestRead THEN {"Ready"} ELSE {})
  <2>1. unpacked \in App /\ unpacked.state \in {"Installing", "Removed"}
    BY <1>1 DEF Changed, Approved, App, AppState
  <2>2. CASE manifestRead
    <3> DEFINE b == [unpacked EXCEPT !.pkg = main.pkg]
    <3>1. b \in App /\ b.state \in {"Installing", "Removed"}
      BY <1>1, <2>1 DEF App
    <3>2. Changed(b, "Ready") \in App /\ Changed(b, "Ready").state \in {"Ready", "Removed"}
      BY <3>1 DEF Changed, Approved, App, AppState
    <3> QED  BY <2>2, <3>2
  <2>3. CASE ~manifestRead
    <3>1. Changed(unpacked, "Removed") \in App /\ Changed(unpacked, "Removed").state = "Removed"
      BY <2>1 DEF Changed, Approved, App, AppState
    <3> QED  BY <2>3, <3>1
  <2> QED  BY <2>2, <2>3
<1>3. apps' = [apps EXCEPT ![i] = a]
  BY DEF InstallUnpack
<1> HIDE DEF a
<1>4. /\ DOMAIN apps' = DOMAIN apps
      /\ DOMAIN apps' \subseteq AppIds /\ apps' \in [DOMAIN apps' -> App]
      /\ apps'[i] = a
      /\ \A j \in DOMAIN apps : j # i => apps'[j] = apps[j]
  BY <1>1, <1>2, <1>3, UpdateFacts
<1>5. main.pc = "unzip" /\ main' = IF manifestRead THEN [main EXCEPT !.pc = "flush"] ELSE Idle
  BY DEF InstallUnpack
<1>6. UNCHANGED <<nextAppId, disk, proc, children, sigchld, wires>>
  BY DEF InstallUnpack
<1> HIDE DEF InstallUnpack
<1>7. TypeOK'
  <2>1. main' \in [pc : MainPc, id : AppIds \cup {NoId},
                  pid : Pids \cup {NoPid}, pkg : Packages \cup {NoPkg}]
    BY <1>5 DEF MainPc, TypeOK, Idle
  <2> QED  BY <1>4, <1>6, <2>1 DEF TypeOK
<1>8. MainOK'
  BY <1>1, <1>2, <1>4, <1>5, <1>6 DEF MainOK, BootPc, Idle, TypeOK
<1>9. NextIdFresh'
  BY <1>4, <1>6 DEF NextIdFresh
<1>10. ChildIsTracked'
  BY <1>1, <1>2, <1>4, <1>5, <1>6 DEF ChildIsTracked, Active
<1> QED  BY <1>7, <1>8, <1>9, <1>10

LEMMA InstallFlushStep ==
  ASSUME IInv, InstallFlush
  PROVE  IInv'
<1> USE DEF InstallFlush, IInv, memory, disk, wires
<1>1. main.id \in AppIds /\ main.pkg \in Packages \cup {NoPkg}
  BY DEF TypeOK, MainOK
<1>2. DOMAIN db' \subseteq AppIds /\ db' \in [DOMAIN db' -> Packages \cup {NoPkg}]
  <2>1. CASE db' = db
    BY <2>1 DEF TypeOK
  <2>2. CASE db' = Put(db, main.id, main.pkg)
    BY <1>1, <2>2, InsertFacts
  <2> QED  BY <2>1, <2>2
<1>3. TypeOK'
  BY <1>2 DEF TypeOK, Idle, MainPc
<1>4. MainOK' /\ NextIdFresh' /\ ChildIsTracked'
  BY DEF MainOK, NextIdFresh, ChildIsTracked, Idle, BootPc
<1> QED  BY <1>3, <1>4

LEMMA RemoveAppStep ==
  ASSUME IInv, NEW i \in AppIds, RemoveApp(i)
  PROVE  IInv'
<1> USE DEF RemoveApp, IInv, memory, disk, wires
<1> DEFINE a == Changed(apps[i], "Removing")
<1>1. i \in DOMAIN apps /\ apps[i] \in App /\ apps[i].state = "Ready"
  BY DEF TypeOK
<1>2. a \in App /\ a.state = "Removing"
  BY <1>1 DEF Changed, Approved, App, AppState
<1> HIDE DEF a
<1>3. apps' = [apps EXCEPT ![i] = a]
  BY DEF a
<1>4. /\ DOMAIN apps' = DOMAIN apps
      /\ DOMAIN apps' \subseteq AppIds /\ apps' \in [DOMAIN apps' -> App]
      /\ apps'[i] = a
      /\ \A j \in DOMAIN apps : j # i => apps'[j] = apps[j]
  BY <1>1, <1>2, <1>3, UpdateFacts
<1>5. main' = [pc |-> "removing", id |-> i, pid |-> NoPid, pkg |-> NoPkg]
  BY DEF At, Idle
<1>6. TypeOK'
  BY <1>4, <1>5 DEF TypeOK, MainPc
<1>7. MainOK'
  BY <1>1, <1>2, <1>4, <1>5 DEF MainOK, BootPc
<1>8. NextIdFresh'
  BY <1>4 DEF NextIdFresh
<1>9. ChildIsTracked'
  BY <1>1, <1>2, <1>4 DEF ChildIsTracked, Active, Idle
<1> QED  BY <1>6, <1>7, <1>8, <1>9

LEMMA GoDownStep ==
  ASSUME IInv, NEW what \in {"process", "power"}, GoDown(what)
  PROVE  IInv'
<1> USE DEF GoDown, IInv, memory, disk, wires
<1>1. DOMAIN apps' = {} /\ apps' \in [DOMAIN apps' -> App]
  BY EmptyFacts
<1>2. main' = [pc |-> "down", id |-> NoId, pid |-> NoPid, pkg |-> NoPkg]
  BY DEF At, Idle
<1>3. proc' \in [Pids -> Proc]
  BY DEF TypeOK, Proc, NoProc
<1>4. nextAppId' \in 0..(MaxAppId + 1)
  BY ConstantsAssumption
<1>5. TypeOK'
  <2>1. main' \in [pc : MainPc, id : AppIds \cup {NoId},
                  pid : Pids \cup {NoPid}, pkg : Packages \cup {NoPkg}]
    BY <1>2 DEF MainPc, BootPc
  <2>2. acks' \in SUBSET (Pids \X AppIds)
    BY DEF TypeOK
  <2> QED  BY <1>1, <1>3, <1>4, <2>1, <2>2 DEF TypeOK
<1>6. MainOK' /\ NextIdFresh' /\ ChildIsTracked'
  BY <1>1, <1>2 DEF MainOK, NextIdFresh, ChildIsTracked, BootPc
<1> QED  BY <1>5, <1>6

LEMMA RemoveEraseStep ==
  ASSUME IInv, RemoveErase
  PROVE  IInv'
<1>1. CASE GoDown("process")
  BY <1>1, GoDownStep
<1>2. CASE /\ main.pc = "removing"
           /\ apps' = Without(apps, main.id)
           /\ main' = At("dbdelete", main.id)
           /\ UNCHANGED <<nextAppId, disk, proc, children, sigchld, wires>>
  <2> USE <1>2 DEF IInv, memory, disk, wires
  <2>1. main.id \in DOMAIN apps /\ apps[main.id].state = "Removing"
    BY DEF MainOK
  <2>2. /\ DOMAIN apps' = DOMAIN apps \ {main.id}
        /\ DOMAIN apps' \subseteq AppIds /\ apps' \in [DOMAIN apps' -> App]
        /\ \A j \in DOMAIN apps' : apps'[j] = apps[j]
    BY DEF TypeOK, Without
  <2>3. main' = [pc |-> "dbdelete", id |-> main.id, pid |-> NoPid, pkg |-> NoPkg]
    BY DEF At, Idle
  <2>4. TypeOK'
    BY <2>2, <2>3 DEF TypeOK, MainPc
  <2>5. MainOK'
    BY <2>1, <2>2, <2>3 DEF MainOK, BootPc, TypeOK
  <2>6. NextIdFresh'
    BY <2>2 DEF NextIdFresh
  <2>7. ChildIsTracked'
    BY <2>1, <2>2 DEF ChildIsTracked, Active
  <2> QED  BY <2>4, <2>5, <2>6, <2>7
<1> QED  BY <1>1, <1>2 DEF RemoveErase

LEMMA RemoveDeleteStep ==
  ASSUME IInv, RemoveDelete
  PROVE  IInv'
<1> USE DEF RemoveDelete, IInv, memory, disk, wires
<1>1. DOMAIN db' \subseteq AppIds /\ db' \in [DOMAIN db' -> Packages \cup {NoPkg}]
  BY DEF TypeOK, Without
<1>2. TypeOK'
  BY <1>1 DEF TypeOK, Idle, MainPc
<1>3. MainOK' /\ NextIdFresh' /\ ChildIsTracked'
  BY DEF MainOK, NextIdFresh, ChildIsTracked, Idle, BootPc
<1> QED  BY <1>2, <1>3

LEMMA LaunchForkStep ==
  ASSUME IInv, NEW i \in AppIds, NEW p \in Pids, LaunchFork(i, p)
  PROVE  IInv'
<1> USE DEF LaunchFork, IInv, memory, disk, wires
<1>1. main' = [pc |-> "forked", id |-> i, pid |-> p, pkg |-> NoPkg]
  BY DEF At, Idle
<1>2. proc' \in [Pids -> Proc] /\ proc'[p].app = i /\ proc'[p].st = "starting"
  BY DEF TypeOK, Proc
<1>3. \A q \in Pids \ {p} : proc'[q] = proc[q]
  BY DEF TypeOK
<1>4. TypeOK'
  BY <1>1, <1>2 DEF TypeOK, MainPc
<1>5. MainOK'
  BY <1>1 DEF MainOK, BootPc
<1>6. NextIdFresh'
  BY DEF NextIdFresh
<1>7. ChildIsTracked'
  <2> SUFFICES ASSUME NEW q \in children'
               PROVE  /\ proc'[q].st # "none"
                      /\ \/ main'.pc = "forked" /\ main'.pid = q /\ main'.id = proc'[q].app
                         \/ /\ proc'[q].app \in DOMAIN apps'
                            /\ apps'[proc'[q].app].pid = q
                            /\ apps'[proc'[q].app].state \in Active
    BY DEF ChildIsTracked
  <2>1. CASE q = p
    BY <1>1, <1>2, <2>1
  <2>2. CASE q # p
    BY <1>3, <2>2 DEF ChildIsTracked, TypeOK, Idle
  <2> QED  BY <2>1, <2>2
<1> QED  BY <1>4, <1>5, <1>6, <1>7

LEMMA LaunchRecordStep ==
  ASSUME IInv, LaunchRecord
  PROVE  IInv'
<1> USE DEF LaunchRecord, IInv, memory, disk, wires
<1> DEFINE i == main.id
           a == Changed([apps[i] EXCEPT !.pid = main.pid], "Launching")
<1>1. /\ i \in DOMAIN apps /\ apps[i] \in App /\ apps[i].state = "Ready"
      /\ main.pc = "forked" /\ main.pid \in Pids
  BY DEF TypeOK, MainOK
<1>2. a \in App /\ a.state = "Launching" /\ a.pid = main.pid
  BY <1>1 DEF Changed, Approved, App, AppState
<1>3. apps' = [apps EXCEPT ![i] = a]
  OBVIOUS
<1> HIDE DEF a
<1>4. /\ DOMAIN apps' = DOMAIN apps
      /\ DOMAIN apps' \subseteq AppIds /\ apps' \in [DOMAIN apps' -> App]
      /\ apps'[i] = a
      /\ \A j \in DOMAIN apps : j # i => apps'[j] = apps[j]
  BY <1>1, <1>2, <1>3, UpdateFacts
<1>5. TypeOK'
  BY <1>4 DEF TypeOK, Idle, MainPc
<1>6. MainOK'
  BY DEF MainOK, Idle, BootPc
<1>7. NextIdFresh'
  BY <1>4 DEF NextIdFresh
<1>8. ChildIsTracked'
  BY <1>1, <1>2, <1>4 DEF ChildIsTracked, Active, TypeOK
<1> QED  BY <1>5, <1>6, <1>7, <1>8

LEMMA CompleteLaunchingStep ==
  ASSUME IInv, NEW p \in Pids, CompleteLaunching(p)
  PROVE  IInv'
<1> USE DEF CompleteLaunching, Acknowledge, IInv, memory, disk, wires
<1>1. completes' \in SUBSET Pids
  BY DEF TypeOK
<1>2. CASE UNCHANGED <<apps, acks>>
  <2>1. TypeOK'
    BY <1>1, <1>2 DEF TypeOK
  <2>2. MainOK' /\ NextIdFresh' /\ ChildIsTracked'
    BY <1>2 DEF MainOK, NextIdFresh, ChildIsTracked
  <2> QED  BY <2>1, <2>2
<1>3. CASE Holders(p) # {} /\ apps[Least(Holders(p))].state = "Launching"
  <2> DEFINE i == Least(Holders(p))
             a == Changed(apps[i], "Running")
  <2>1. /\ i \in DOMAIN apps /\ apps[i] \in App /\ apps[i].state = "Launching"
        /\ apps[i].pid = p /\ i \in AppIds
    <3>1. Holders(p) \subseteq Nat
      BY ConstantsAssumption DEF Holders, TypeOK, AppIds
    <3>2. i \in Holders(p)
      BY <1>3, <3>1, LeastInSet
    <3> QED  BY <1>3, <3>2 DEF Holders, TypeOK
  <2>2. a \in App /\ a.state = "Running" /\ a.pid = p
    BY <2>1 DEF Changed, Approved, App, AppState
  <2>3. apps' = [apps EXCEPT ![i] = a] /\ acks' = acks \cup {<<p, i>>}
    BY <1>3
  <2> HIDE DEF a, i
  <2>4. /\ DOMAIN apps' = DOMAIN apps
        /\ DOMAIN apps' \subseteq AppIds /\ apps' \in [DOMAIN apps' -> App]
        /\ apps'[i] = a
        /\ \A j \in DOMAIN apps : j # i => apps'[j] = apps[j]
    BY <2>1, <2>2, <2>3, UpdateFacts
  <2>5. TypeOK'
    BY <1>1, <2>1, <2>3, <2>4 DEF TypeOK
  <2>6. MainOK'
    BY DEF MainOK, Idle, BootPc
  <2>7. NextIdFresh'
    BY <2>4 DEF NextIdFresh
  <2>8. ChildIsTracked'
    BY <2>1, <2>2, <2>4 DEF ChildIsTracked, Active
  <2> QED  BY <2>5, <2>6, <2>7, <2>8
<1> QED  BY <1>2, <1>3

LEMMA TerminateRunningStep ==
  ASSUME IInv, NEW i \in AppIds, TerminateRunning(i)
  PROVE  IInv'
<1> USE DEF TerminateRunning, IInv, memory, disk, wires
<1> DEFINE a == Changed(apps[i], "Terminating")
<1>1. i \in DOMAIN apps /\ apps[i] \in App /\ apps[i].state = "Running"
  BY DEF TypeOK
<1>2. a \in App /\ a.state = "Terminating" /\ a.pid = apps[i].pid
  BY <1>1 DEF Changed, Approved, App, AppState
<1>3. apps' = [apps EXCEPT ![i] = a]
  OBVIOUS
<1> HIDE DEF a
<1>4. /\ DOMAIN apps' = DOMAIN apps
      /\ DOMAIN apps' \subseteq AppIds /\ apps' \in [DOMAIN apps' -> App]
      /\ apps'[i] = a
      /\ \A j \in DOMAIN apps : j # i => apps'[j] = apps[j]
  BY <1>1, <1>2, <1>3, UpdateFacts
<1>5. TypeOK'
  BY <1>4 DEF TypeOK
<1>6. MainOK'
  BY DEF MainOK, Idle, BootPc
<1>7. NextIdFresh'
  BY <1>4 DEF NextIdFresh
<1>8. ChildIsTracked'
  BY <1>1, <1>2, <1>4 DEF ChildIsTracked, Active
<1> QED  BY <1>5, <1>6, <1>7, <1>8

LEMMA TerminateLaunchingStep ==
  ASSUME IInv, NEW i \in AppIds, TerminateLaunching(i)
  PROVE  IInv'
<1> USE DEF TerminateLaunching, IInv, memory, disk, wires
<1> DEFINE a == Changed(apps[i], "Terminating")
<1>1. i \in DOMAIN apps /\ apps[i] \in App /\ apps[i].state = "Launching"
  BY DEF TypeOK
<1>2. a \in App /\ a.state \in Active /\ a.pid = apps[i].pid
  BY <1>1 DEF Changed, Approved, App, AppState, Active
<1>3. apps' = [apps EXCEPT ![i] = a]
  OBVIOUS
<1> HIDE DEF a
<1>4. /\ DOMAIN apps' = DOMAIN apps
      /\ DOMAIN apps' \subseteq AppIds /\ apps' \in [DOMAIN apps' -> App]
      /\ apps'[i] = a
      /\ \A j \in DOMAIN apps : j # i => apps'[j] = apps[j]
  BY <1>1, <1>2, <1>3, UpdateFacts
<1>5. main' = [pc |-> "kill", id |-> i, pid |-> NoPid, pkg |-> NoPkg]
  BY DEF At, Idle
<1>6. TypeOK'
  BY <1>4, <1>5 DEF TypeOK, MainPc
<1>7. MainOK'
  BY <1>1, <1>4, <1>5 DEF MainOK, BootPc
<1>8. NextIdFresh'
  BY <1>4 DEF NextIdFresh
<1>9. ChildIsTracked'
  BY <1>1, <1>2, <1>4 DEF ChildIsTracked, Active, Idle
<1> QED  BY <1>6, <1>7, <1>8, <1>9

\* Processes exit: a child is a zombie then, and still a child.
LEMMA ExitFacts ==
  ASSUME IInv, NEW P, Exit(P)
  PROVE  /\ proc' \in [Pids -> Proc] /\ sigchld' \in BOOLEAN
         /\ \A p \in children : /\ proc'[p].app = proc[p].app
                                /\ proc[p].st # "none" => proc'[p].st # "none"
<1> USE DEF Exit, IInv, TypeOK
<1>1. proc' \in [Pids -> Proc]
  BY DEF Proc, NoProc
<1>2. sigchld' \in BOOLEAN
  OBVIOUS
<1>3. \A p \in children : /\ proc'[p].app = proc[p].app
                          /\ proc[p].st # "none" => proc'[p].st # "none"
  BY DEF Proc
<1> QED  BY <1>1, <1>2, <1>3

LEMMA AppExitsStep ==
  ASSUME IInv, NEW p \in Pids, AppExits(p)
  PROVE  IInv'
<1> USE DEF AppExits, IInv, memory, disk, wires
<1>1. TypeOK'
  BY ExitFacts DEF TypeOK
<1>2. MainOK' /\ NextIdFresh'
  BY DEF MainOK, NextIdFresh
<1>3. ChildIsTracked'
  BY ExitFacts DEF ChildIsTracked
<1> QED  BY <1>1, <1>2, <1>3

LEMMA SendCompleteStep ==
  ASSUME IInv, NEW p \in Pids, SendComplete(p)
  PROVE  IInv'
<1> USE DEF SendComplete, IInv, memory, disk, wires
<1>1. TypeOK'
  BY DEF TypeOK, Proc
<1>2. MainOK' /\ NextIdFresh'
  BY DEF MainOK, NextIdFresh
<1>3. ChildIsTracked'
  BY DEF ChildIsTracked, TypeOK
<1> QED  BY <1>1, <1>2, <1>3

LEMMA DeliverTerminateStep ==
  ASSUME IInv, NEW i \in AppIds, DeliverTerminate(i)
  PROVE  IInv'
<1> USE DEF DeliverTerminate, IInv, memory, disk, wires
<1>1. TypeOK'
  BY ExitFacts DEF TypeOK
<1>2. MainOK' /\ NextIdFresh'
  BY DEF MainOK, NextIdFresh
<1>3. ChildIsTracked'
  BY ExitFacts DEF ChildIsTracked
<1> QED  BY <1>1, <1>2, <1>3

LEMMA TerminateKillStep ==
  ASSUME IInv, TerminateKill
  PROVE  IInv'
<1> USE DEF TerminateKill, IInv, memory, disk, wires
<1>1. TypeOK'
  BY ExitFacts DEF TypeOK, Idle, MainPc
<1>2. MainOK' /\ NextIdFresh'
  BY DEF MainOK, NextIdFresh, Idle, BootPc
<1>3. ChildIsTracked'
  BY ExitFacts DEF ChildIsTracked
<1> QED  BY <1>1, <1>2, <1>3

LEMMA SignalHandlerStep ==
  ASSUME IInv, SignalHandler
  PROVE  IInv'
<1> USE DEF SignalHandler, IInv, memory, disk, wires
<1>1. PICK p \in children :
        /\ proc[p].st = "zombie"
        /\ proc' = [proc EXCEPT ![p] = NoProc]
        /\ children' = children \ {p}
        /\ apps' = [i \in DOMAIN apps |->
                      IF /\ i \in Holders(p) /\ i = Least(Holders(p))
                         /\ apps[i].state \in Active \cup {"Ready"}
                      THEN Changed(apps[i], "Ready") ELSE apps[i]]
  OBVIOUS
<1>2. /\ sigchld' = FALSE /\ UNCHANGED <<nextAppId, disk, main, wires>>
      /\ main' = main /\ nextAppId' = nextAppId
  OBVIOUS
<1> HIDE DEF SignalHandler
\* The handler makes an app with this pid Ready, or leaves it as it is.
<1>3. \A i \in DOMAIN apps :
        /\ apps'[i] \in App /\ apps'[i].pid = apps[i].pid
        /\ \/ apps'[i] = apps[i]
           \/ apps[i].pid = p /\ apps[i].state \in Active /\ apps'[i].state = "Ready"
  <2> TAKE i \in DOMAIN apps
  <2>1. apps[i] \in App
    BY DEF TypeOK
  <2>2. CASE i \in Holders(p) /\ apps[i].state \in Active \cup {"Ready"}
    <3>1. Changed(apps[i], "Ready") \in App /\ Changed(apps[i], "Ready").pid = apps[i].pid
      BY <2>1, ChangedFacts DEF AppState
    <3>2. apps[i].state \in Active => Changed(apps[i], "Ready").state = "Ready"
      BY <2>1 DEF Changed, Approved, Active, App
    <3>3. apps[i].state = "Ready" => Changed(apps[i], "Ready") = apps[i]
      BY DEF Changed, Approved
    <3>4. apps'[i] \in {apps[i], Changed(apps[i], "Ready")}
      BY <1>1
    <3> QED  BY <2>1, <2>2, <3>1, <3>2, <3>3, <3>4 DEF Holders
  <2>3. CASE ~(i \in Holders(p) /\ apps[i].state \in Active \cup {"Ready"})
    BY <1>1, <2>1, <2>3
  <2> QED  BY <2>2, <2>3
<1>4. DOMAIN apps' = DOMAIN apps /\ apps' \in [DOMAIN apps' -> App]
  BY <1>1, <1>3
<1>5. TypeOK'
  <2>1. proc' \in [Pids -> Proc]
    BY <1>1 DEF TypeOK, Proc, NoProc
  <2> QED  BY <1>1, <1>2, <1>4, <2>1 DEF TypeOK
<1>6. MainOK'
  BY <1>1, <1>2, <1>3, <1>4 DEF MainOK, Active
<1>7. NextIdFresh'
  BY <1>2, <1>4 DEF NextIdFresh
<1>8. ChildIsTracked'
  <2> SUFFICES ASSUME NEW q \in children \ {p}
               PROVE  /\ proc'[q].st # "none"
                      /\ \/ main'.pc = "forked" /\ main'.pid = q /\ main'.id = proc'[q].app
                         \/ /\ proc'[q].app \in DOMAIN apps'
                            /\ apps'[proc'[q].app].pid = q
                            /\ apps'[proc'[q].app].state \in Active
    BY <1>1 DEF ChildIsTracked
  <2>1. proc'[q] = proc[q]
    BY <1>1 DEF TypeOK
  <2> QED  BY <1>2, <1>3, <1>4, <2>1 DEF ChildIsTracked
<1> QED  BY <1>5, <1>6, <1>7, <1>8

LEMMA RestartStep ==
  ASSUME IInv, Restart
  PROVE  IInv'
<1> USE DEF Restart, IInv, memory, disk, wires
<1>1. CASE DOMAIN db # {}
  <2>1. DOMAIN apps' = DOMAIN db /\ apps' \in [DOMAIN apps' -> App]
    <3>1. \A i \in DOMAIN db :
            [state |-> "Ready", pid |-> NoPid, pkg |-> db[i]] \in App
      BY DEF TypeOK, App, AppState
    <3> QED  BY <1>1, <3>1
  <2>2. /\ Greatest(DOMAIN db) \in AppIds
        /\ \A i \in DOMAIN db : i <= Greatest(DOMAIN db)
    BY <1>1, GreatestInSet DEF TypeOK
  <2>3. nextAppId' = Greatest(DOMAIN db) + 1 /\ main' = Idle
    BY <1>1
  <2>4. nextAppId' \in 0..(MaxAppId + 1) /\ \A i \in DOMAIN db : i < nextAppId'
    BY <2>2, <2>3, ConstantsAssumption DEF AppIds, TypeOK
  <2>5. TypeOK'
    BY <2>1, <2>3, <2>4 DEF TypeOK, Idle, MainPc
  <2>6. MainOK' /\ NextIdFresh' /\ ChildIsTracked'
    BY <2>1, <2>3, <2>4 DEF MainOK, NextIdFresh, ChildIsTracked, Idle, BootPc
  <2> QED  BY <2>5, <2>6
<1>2. CASE DOMAIN db = {}
  <2>1. DOMAIN apps' = {} /\ apps' \in [DOMAIN apps' -> App]
    BY <1>2, EmptyFacts
  <2>2. main' = [pc |-> "boot1", id |-> NoId, pid |-> NoPid, pkg |-> NoPkg]
    BY <1>2 DEF At, Idle
  <2>3. nextAppId' \in 0..(MaxAppId + 1)
    BY <1>2, ConstantsAssumption
  <2>4. TypeOK'
    BY <2>1, <2>2, <2>3 DEF TypeOK, MainPc, BootPc
  <2>5. MainOK' /\ NextIdFresh' /\ ChildIsTracked'
    BY <2>1, <2>2 DEF MainOK, NextIdFresh, ChildIsTracked, BootPc
  <2> QED  BY <2>4, <2>5
<1> QED  BY <1>1, <1>2

LEMMA AddDefaultAppStep ==
  ASSUME IInv, NEW from \in {"boot1", "boot2"}, NEW to \in {"boot2", "idle"},
         AddDefaultApp(from, to)
  PROVE  IInv'
<1> USE DEF AddDefaultApp, IInv, memory, disk, wires
<1> DEFINE new == [state |-> "Ready", pid |-> NoPid, pkg |-> NoPkg]
<1>1. /\ nextAppId \in AppIds \ DOMAIN apps /\ nextAppId' = nextAppId + 1
      /\ nextAppId' \in 0..(MaxAppId + 1)
  BY ConstantsAssumption DEF TypeOK, NextIdFresh, AppIds
<1>2. new \in App
  BY DEF App, AppState
<1> HIDE DEF new
<1>3. /\ DOMAIN apps' = DOMAIN apps \cup {nextAppId}
      /\ apps' \in [DOMAIN apps' -> App]
      /\ \A j \in DOMAIN apps : apps'[j] = apps[j]
  <2>1. apps' = Put(apps, nextAppId, new)
    BY DEF new
  <2> QED  BY <1>1, <1>2, <2>1, AppendFacts
<1>4. DOMAIN db' \subseteq AppIds /\ db' \in [DOMAIN db' -> Packages \cup {NoPkg}]
  <2>1. CASE db' = db
    BY <2>1 DEF TypeOK
  <2>2. CASE db' = Put(db, nextAppId, NoPkg)
    BY <1>1, <2>2, InsertFacts
  <2> QED  BY <2>1, <2>2
<1>5. main' = [pc |-> to, id |-> NoId, pid |-> NoPid, pkg |-> NoPkg]
  BY DEF At, Idle
<1>6. TypeOK'
  BY <1>1, <1>3, <1>4, <1>5 DEF TypeOK, MainPc, BootPc
<1>7. MainOK'
  BY <1>5 DEF MainOK, BootPc, Idle
<1>8. NextIdFresh'
  <2>1. \A j \in DOMAIN apps : j \in Int /\ nextAppId \in Int /\ j < nextAppId
    BY ConstantsAssumption DEF TypeOK, NextIdFresh, AppIds
  <2>2. nextAppId \in Int /\ nextAppId < nextAppId'
    BY <1>1 DEF AppIds
  <2>3. \A j \in DOMAIN apps : j < nextAppId'
    BY <1>1, <2>1, <2>2
  <2> QED  BY <1>3, <2>2, <2>3 DEF NextIdFresh
<1>9. ChildIsTracked'
  BY DEF ChildIsTracked, MainOK, BootPc
<1> QED  BY <1>6, <1>7, <1>8, <1>9

LEMMA NextIInv == IInv /\ [Next]_vars => IInv'
<1> SUFFICES ASSUME IInv, [Next]_vars PROVE IInv'
  OBVIOUS
<1>1. CASE Commands
  BY <1>1, InitializeAppStep, InstallAppStep, RemoveAppStep, LaunchForkStep,
     TerminateRunningStep, TerminateLaunchingStep, CompleteLaunchingStep DEF Commands
<1>2. CASE Continue
  BY <1>2, InstallUnpackStep, InstallFlushStep, RemoveEraseStep, RemoveDeleteStep,
     LaunchRecordStep, TerminateKillStep, AddDefaultAppStep
     DEF Continue, AddCameraViewer, AddSensorViewer
<1>3. CASE Messages
  BY <1>3, DeliverAckStep, DeliverTerminateStep DEF Messages
<1>4. CASE Processes
  BY <1>4, AppExitsStep, SendCompleteStep DEF Processes
<1>5. CASE SignalHandler
  BY <1>5, SignalHandlerStep
<1>6. CASE Crash
  BY <1>6, GoDownStep, ConstantsAssumption DEF Crash
<1>7. CASE Restart
  BY <1>7, RestartStep
<1>8. CASE UNCHANGED vars
  BY <1>8 DEF vars, IInv, TypeOK, MainOK, NextIdFresh, ChildIsTracked
<1> QED  BY <1>1, <1>2, <1>3, <1>4, <1>5, <1>6, <1>7, <1>8 DEF Next

\* IInv is an invariant: the handlers of the main thread survive SIGCHLD at any
\* point, fresh ids are fresh, and every unreaped child is tracked.
THEOREM Inductive == Spec => []IInv
BY InitIInv, NextIInv, PTL DEF Spec

-----------------------------------------------------------------------------
(* Safety *)

\* Every variable of AppCore keeps its type.
THEOREM TypeCorrect == Spec => []TypeOK
<1>1. IInv => TypeOK
  BY DEF IInv
<1> QED  BY <1>1, Inductive, PTL

\* A child of AppCore that is not reaped belongs to an app that is active, so
\* launchApp does not start it again and removeApp does not remove it.
THEOREM ChildrenAreActive == Spec => []ChildIsActive
<1>1. IInv => ChildIsActive
  BY DEF IInv, ChildIsTracked, ChildIsActive
<1> QED  BY <1>1, Inductive, PTL

LEMMA IInvOneProcess == IInv => OneProcessPerApp
<1> SUFFICES ASSUME IInv, NEW p \in children, NEW q \in children, proc[p].app = proc[q].app
             PROVE  p = q
  BY DEF OneProcessPerApp
<1>1. "Ready" \notin Active
  BY DEF Active
<1> QED  BY <1>1 DEF IInv, ChildIsTracked, MainOK

\* No app ever has two unreaped processes of the same AppCore.
THEOREM OneProcess == Spec => []OneProcessPerApp
BY IInvOneProcess, Inductive, PTL

\* An app id that was given out and has left the list never returns to it while
\* the same AppCore runs.
THEOREM IdsStayGone == Spec => NoResurrection
<1>1. IInv /\ [Next]_vars =>
        [main.pc \notin BootPc =>
           \A i \in DOMAIN apps' \ DOMAIN apps : i >= nextAppId]_vars
  <2> SUFFICES ASSUME IInv, Next, main.pc \notin BootPc,
                      NEW i \in DOMAIN apps' \ DOMAIN apps
               PROVE  i >= nextAppId
    OBVIOUS
  <2>1. CASE InitializeApp
    <3>1. i = nextAppId
      BY <2>1 DEF InitializeApp, Put
    <3> QED  BY <3>1, ConstantsAssumption DEF IInv, TypeOK
  <2>2. CASE DOMAIN apps' \subseteq DOMAIN apps
    BY <2>2
  <2>3. CASE Commands
    BY <2>1, <2>2, <2>3 DEF Commands, InstallApp, RemoveApp, LaunchFork, memory,
       TerminateRunning, TerminateLaunching, CompleteLaunching, Acknowledge
  <2>4. CASE Continue
    BY <2>2, <2>4, EmptyFacts DEF Continue, InstallUnpack, InstallFlush, RemoveErase, RemoveDelete,
       LaunchRecord, TerminateKill, AddCameraViewer, AddSensorViewer, AddDefaultApp,
       memory, GoDown, Without, BootPc
  <2>5. CASE Messages \/ Processes \/ SignalHandler \/ Crash \/ Restart
    BY <2>2, <2>5, EmptyFacts DEF Messages, DeliverAck, DeliverTerminate, Processes, AppExits,
       SendComplete, SignalHandler, Crash, GoDown, Restart, memory, BootPc
  <2> QED  BY <2>3, <2>4, <2>5 DEF Next
<1> QED  BY <1>1, Inductive, PTL DEF Spec, NoResurrection

-----------------------------------------------------------------------------
(* What AppCore promises: AppRegistry *)

\* Where the INSERT statement is well-formed for every package.
LEMMA RowOrFlushStep ==
  ASSUME Unquotable = {}, IInv, RowOrFlush, [Next]_vars
  PROVE  RowOrFlush'
<1> SUFFICES ASSUME NEW i \in DOMAIN apps', apps'[i].state \in Installed
             PROVE  i \in DOMAIN db' \/ (main'.pc = "flush" /\ main'.id = i)
  BY DEF RowOrFlush
<1> USE DEF IInv, memory, disk, wires
\* Most steps neither make an app installed nor touch the table.
<1>1. ASSUME i \in DOMAIN apps, apps[i].state \in Installed, DOMAIN db \subseteq DOMAIN db',
             main.pc # "flush"
      PROVE  i \in DOMAIN db'
  BY <1>1 DEF RowOrFlush
<1>2. CASE InitializeApp
  <2>1. nextAppId \notin DOMAIN apps
    BY ConstantsAssumption DEF NextIdFresh, TypeOK, AppIds
  <2>2. i # nextAppId
    BY <1>2 DEF InitializeApp, Put, Installed, Active
  <2> QED  BY <1>1, <1>2, <2>2 DEF InitializeApp, Put, Idle
<1>3. ASSUME NEW j \in AppIds, NEW k \in Packages, InstallApp(j, k)
      PROVE  i \in DOMAIN db'
  <2>1. apps[j] \in App /\ j \in DOMAIN apps /\ apps[j].state = "Initialized"
    BY <1>3 DEF InstallApp, TypeOK
  <2>2. Changed(apps[j], "Installing") \in App /\ Changed(apps[j], "Installing").state = "Installing"
    BY <2>1 DEF Changed, Approved, App, AppState
  <2>3. Changed(Changed(apps[j], "Installing"), "Removed").state = "Removed"
    BY <2>2 DEF Changed, Approved, App, AppState
  <2>4. i # j
    BY <1>3, <2>1, <2>2, <2>3 DEF InstallApp, Installed, Active
  <2> QED  BY <1>1, <1>3, <2>4 DEF InstallApp, Idle
<1>4. ASSUME NEW j \in AppIds, RemoveApp(j)
      PROVE  i \in DOMAIN db'
  BY <1>1, <1>4 DEF RemoveApp, Idle, Installed
<1>5. ASSUME NEW j \in AppIds, NEW p \in Pids, LaunchFork(j, p)
      PROVE  i \in DOMAIN db'
  BY <1>1, <1>5 DEF LaunchFork, Idle
<1>6. ASSUME NEW j \in AppIds, TerminateRunning(j) \/ TerminateLaunching(j)
      PROVE  i \in DOMAIN db'
  BY <1>1, <1>6 DEF TerminateRunning, TerminateLaunching, Idle, Installed, Active
<1>7. ASSUME NEW p \in Pids, CompleteLaunching(p)
      PROVE  i \in DOMAIN db'
  BY <1>1, <1>7 DEF CompleteLaunching, Acknowledge, Idle, Installed, Active
<1>8. ASSUME NEW r \in BOOLEAN, NEW m \in BOOLEAN, InstallUnpack(r, m)
      PROVE  i \in DOMAIN db' \/ (main'.pc = "flush" /\ main'.id = i)
  <2>1. CASE i # main.id
    BY <1>1, <1>8, <2>1 DEF InstallUnpack
  <2>2. CASE i = main.id /\ m
    BY <1>8, <2>2 DEF InstallUnpack, TypeOK
  <2>3. CASE i = main.id /\ ~m
    <3> DEFINE unpacked == IF r THEN apps[i] ELSE Changed(apps[i], "Removed")
    <3>1. apps[i] \in App /\ apps[i].state \in {"Installing", "Removed"} /\ i \in DOMAIN apps
      BY <1>8, <2>3 DEF InstallUnpack, MainOK, TypeOK
    <3>2. unpacked \in App /\ unpacked.state \in {"Installing", "Removed"}
      BY <3>1 DEF Changed, Approved, App, AppState
    <3>3. Changed(unpacked, "Removed").state = "Removed"
      BY <3>2 DEF Changed, Approved, App, AppState
    <3>4. apps'[i] = Changed(unpacked, "Removed")
      BY <1>8, <2>3, <3>1 DEF InstallUnpack
    <3> QED  BY <3>3, <3>4 DEF Installed, Active
  <2> QED  BY <2>1, <2>2, <2>3
<1>9. CASE InstallFlush
  <2>1. i \in DOMAIN apps /\ apps[i].state \in Installed /\ (i \in DOMAIN db \/ i = main.id)
    BY <1>9 DEF InstallFlush, RowOrFlush
  <2> QED  BY <1>9, <2>1 DEF InstallFlush, Put
<1>10. CASE RemoveErase
  BY <1>1, <1>10, EmptyFacts DEF RemoveErase, GoDown, Without
<1>11. CASE RemoveDelete
  BY <1>11 DEF RemoveDelete, Without, RowOrFlush, MainOK
<1>12. CASE LaunchRecord
  <2>1. main.id \in DOMAIN apps /\ apps[main.id].state \in Installed
    BY <1>12 DEF LaunchRecord, MainOK, Installed
  <2> QED  BY <1>1, <1>12, <2>1 DEF LaunchRecord
<1>13. CASE TerminateKill
  BY <1>1, <1>13 DEF TerminateKill
<1>14. CASE AddCameraViewer \/ AddSensorViewer
  BY <1>1, <1>14 DEF AddCameraViewer, AddSensorViewer, AddDefaultApp, Put
<1>15. CASE Messages \/ Processes
  BY <1>15 DEF Messages, DeliverAck, DeliverTerminate, Processes, AppExits, SendComplete, RowOrFlush
<1>16. CASE SignalHandler
  <2>1. i \in DOMAIN apps /\ apps[i].state \in Installed
    BY <1>16 DEF SignalHandler, Installed
  <2> QED  BY <1>16, <2>1 DEF SignalHandler, RowOrFlush
<1>17. CASE Crash
  BY <1>17, EmptyFacts DEF Crash, GoDown
<1>18. CASE Restart
  BY <1>18, EmptyFacts DEF Restart
<1>19. CASE UNCHANGED vars
  BY <1>19 DEF vars, RowOrFlush
<1> QED  BY <1>2, <1>3, <1>4, <1>5, <1>6, <1>7, <1>8, <1>9, <1>10, <1>11, <1>12, <1>13, <1>14,
            <1>15, <1>16, <1>17, <1>18, <1>19 DEF Next, Commands, Continue

LEMMA RowOrFlushInvariant ==
  ASSUME Unquotable = {}
  PROVE  Spec => []RowOrFlush
<1>1. Init => RowOrFlush
  BY EmptyFacts DEF Init, RowOrFlush
<1>2. IInv /\ RowOrFlush /\ [Next]_vars => RowOrFlush'
  BY RowOrFlushStep
<1> QED  BY <1>1, <1>2, Inductive, PTL DEF Spec

\* If no manifest breaks the INSERT, every installed app survives a restart.
THEOREM InstalledAppsPersist ==
  ASSUME Unquotable = {}
  PROVE  Spec => []InstalledIsPersisted
<1>1. RowOrFlush => InstalledIsPersisted
  BY DEF RowOrFlush, InstalledIsPersisted
<1> QED  BY <1>1, RowOrFlushInvariant, PTL

\* A step that keeps the table, the children and their apps stutters.
LEMMA Stutters ==
  ASSUME DOMAIN db' = DOMAIN db, children' = children,
         \A p \in children : proc'[p].app = proc[p].app
  PROVE  UNCHANGED Registry!vars
BY DEF Registry!vars

LEMMA RegistryStep ==
  ASSUME IInv, RowOrFlush, [Next]_vars
  PROVE  [Registry!Next]_(Registry!vars)
<1> DEFINE running == {proc[p].app : p \in children}
<1> USE DEF IInv, memory, disk, wires
<1>1. CASE UNCHANGED <<db, children, proc>>
  BY <1>1, Stutters
<1>2. ASSUME NEW P, Exit(P), UNCHANGED <<db, children>>
      PROVE  UNCHANGED Registry!vars
  BY <1>2, ExitFacts, Stutters
<1>3. ASSUME NEW i \in AppIds, NEW p \in Pids, LaunchFork(i, p)
      PROVE  Registry!Next
  <2>1. i \in DOMAIN db
    BY <1>3 DEF LaunchFork, RowOrFlush, Installed, Idle
  <2>2. i \notin running
    BY <1>3 DEF LaunchFork, ChildIsTracked, Active, Idle
  <2>3. p \notin children /\ children' = children \cup {p}
    BY <1>3 DEF LaunchFork, FreePids, ChildIsTracked
  <2>4. proc'[p].app = i /\ \A q \in children : proc'[q] = proc[q]
    BY <1>3, <2>3 DEF LaunchFork, TypeOK
  <2>5. {proc'[q].app : q \in children'} = running \cup {i}
    BY <2>3, <2>4
  <2>6. Registry!Start(i)
    BY <1>3, <2>1, <2>2, <2>5 DEF Registry!Start, LaunchFork
  <2> QED  BY <2>6 DEF Registry!Next
<1>4. CASE InstallFlush
  <2>1. main.id \in AppIds
    BY <1>4 DEF InstallFlush, MainOK, TypeOK
  <2>2. CASE db' = db
    BY <1>4, <2>2, Stutters DEF InstallFlush
  <2>3. CASE main.id \notin DOMAIN db /\ db' = Put(db, main.id, main.pkg)
    <3>1. DOMAIN db' = DOMAIN db \cup {main.id} /\ UNCHANGED <<proc, children>>
      BY <1>4, <2>3 DEF InstallFlush, Put
    <3>2. Registry!Store(main.id)
      BY <2>3, <3>1 DEF Registry!Store
    <3> QED  BY <2>1, <3>2 DEF Registry!Next
  <2> QED  BY <1>4, <2>2, <2>3 DEF InstallFlush
<1>5. CASE RemoveDelete
  <2>1. main.id \in AppIds \ DOMAIN apps /\ main.pc = "dbdelete"
    BY <1>5 DEF RemoveDelete, MainOK
  <2>2. main.id \notin running
    BY <2>1 DEF ChildIsTracked
  <2>3. DOMAIN db' = DOMAIN db \ {main.id} /\ UNCHANGED <<proc, children>>
    BY <1>5 DEF RemoveDelete, Without
  <2>4. CASE main.id \in DOMAIN db
    <3>1. Registry!Delete(main.id)
      BY <2>2, <2>3, <2>4 DEF Registry!Delete
    <3> QED  BY <2>1, <3>1 DEF Registry!Next
  <2>5. CASE main.id \notin DOMAIN db
    BY <2>3, <2>5, Stutters
  <2> QED  BY <2>4, <2>5
<1>6. ASSUME NEW from \in {"boot1", "boot2"}, NEW to \in {"boot2", "idle"},
             AddDefaultApp(from, to)
      PROVE  Registry!Next \/ UNCHANGED Registry!vars
  <2>1. nextAppId \in AppIds /\ UNCHANGED <<proc, children>>
    BY <1>6, ConstantsAssumption DEF AddDefaultApp, TypeOK, AppIds
  <2>2. CASE db' = db
    BY <2>1, <2>2, Stutters
  <2>3. CASE nextAppId \notin DOMAIN db /\ db' = Put(db, nextAppId, NoPkg)
    <3>1. DOMAIN db' = DOMAIN db \cup {nextAppId}
      BY <2>3 DEF Put
    <3>2. Registry!Store(nextAppId)
      BY <2>1, <2>3, <3>1 DEF Registry!Store
    <3> QED  BY <2>1, <3>2 DEF Registry!Next
  <2> QED  BY <1>6, <2>2, <2>3 DEF AddDefaultApp
<1>7. CASE SignalHandler
  <2>1. PICK p \in children : /\ proc' = [proc EXCEPT ![p] = NoProc]
                             /\ children' = children \ {p}
    BY <1>7 DEF SignalHandler
  <2>2. \A q \in children \ {p} : proc'[q] = proc[q]
    BY <2>1 DEF TypeOK
  <2>3. \A q \in children \ {p} : proc[q].app # proc[p].app
    BY IInvOneProcess DEF OneProcessPerApp
  <2>4. {proc'[q].app : q \in children'} = running \ {proc[p].app}
    BY <2>1, <2>2, <2>3
  <2>5. proc[p].app \in AppIds /\ DOMAIN db' = DOMAIN db
    BY <1>7 DEF SignalHandler, ChildIsTracked, MainOK, TypeOK
  <2>6. PICK a \in AppIds : a = proc[p].app
    BY <2>5
  <2>7. Registry!Stop(a)
    BY <2>4, <2>5, <2>6 DEF Registry!Stop
  <2> QED  BY <2>7 DEF Registry!Next
<1>8. ASSUME NEW what, GoDown(what)
      PROVE  Registry!Next
  <2>1. Registry!GoDown
    BY <1>8 DEF GoDown, Registry!GoDown
  <2> QED  BY <2>1 DEF Registry!Next
<1>9. CASE Commands
  BY <1>1, <1>3, <1>9 DEF Commands, InitializeApp, InstallApp, RemoveApp, TerminateRunning,
     TerminateLaunching, CompleteLaunching, RowOrFlush
<1>10. CASE Continue
  <2>1. CASE \E r, m \in BOOLEAN : InstallUnpack(r, m)
    BY <1>1, <2>1 DEF InstallUnpack
  <2>2. CASE RemoveErase
    BY <1>1, <1>8, <2>2 DEF RemoveErase
  <2>3. CASE LaunchRecord
    BY <1>1, <2>3 DEF LaunchRecord
  <2>4. CASE TerminateKill
    BY <1>2, <2>4 DEF TerminateKill
  <2>5. CASE AddCameraViewer \/ AddSensorViewer
    BY <1>6, <2>5 DEF AddCameraViewer, AddSensorViewer
  <2> QED  BY <1>4, <1>5, <1>10, <2>1, <2>2, <2>3, <2>4, <2>5 DEF Continue
<1>11. CASE Messages
  <2>1. CASE \E p \in Pids, i \in AppIds : DeliverAck(p, i)
    <3>1. PICK p \in Pids, i \in AppIds : DeliverAck(p, i)
      BY <2>1
    <3>2. UNCHANGED <<memory, disk, main, children>>
      BY <3>1 DEF DeliverAck
    <3> QED  BY <3>1, <3>2, DeliverAckFacts, Stutters DEF IInv, TypeOK, disk
  <2>2. CASE \E i \in AppIds : DeliverTerminate(i)
    BY <1>2, <2>2 DEF DeliverTerminate
  <2> QED  BY <1>11, <2>1, <2>2 DEF Messages
<1>12. CASE Processes
  <2>1. CASE \E p \in Pids : AppExits(p)
    BY <1>2, <2>1 DEF AppExits
  <2>2. CASE \E p \in Pids : SendComplete(p)
    BY <2>2, Stutters DEF SendComplete, TypeOK
  <2> QED  BY <1>12, <2>1, <2>2 DEF Processes
<1>13. CASE Crash
  BY <1>8, <1>13 DEF Crash
<1>14. CASE Restart
  BY <1>1, <1>14 DEF Restart
<1>15. CASE UNCHANGED vars
  BY <1>1, <1>15 DEF vars
<1> QED  BY <1>7, <1>9, <1>10, <1>11, <1>12, <1>13, <1>14, <1>15 DEF Next

\* AppCore implements AppRegistry: whatever pids, signals, crashes and restarts
\* do to it, it starts a process only for a stored app without one, and it
\* deletes a row only while the app has none.
THEOREM AppCoreImplementsRegistry ==
  ASSUME Unquotable = {}
  PROVE  Spec => RegistrySpec
<1>1. Init => Registry!Init
  BY EmptyFacts DEF Init, Registry!Init
<1>2. IInv /\ RowOrFlush /\ [Next]_vars => [Registry!Next]_(Registry!vars)
  BY RegistryStep
<1> QED  BY <1>1, <1>2, Inductive, RowOrFlushInvariant, PTL DEF Spec, RegistrySpec, Registry!Spec

-----------------------------------------------------------------------------
(* The directories of the packages, while the first AppCore runs           *)

\* App i is installed from package k.
InstalledAs(i, k) == i \in DOMAIN apps /\ apps[i].state \in Installed /\ apps[i].pkg = k

\* An installed app has its directory for itself, and so has the app that is being
\* installed, unless the directory was there before.
DirsOK ==
  /\ \A i \in AppIds, k \in Packages : InstalledAs(i, k) => k \in dirs
  /\ \A i, j \in AppIds, k \in Packages : InstalledAs(i, k) /\ InstalledAs(j, k) => i = j
  /\ main.pc = "unzip" /\ apps[main.id].state = "Installing" =>
       main.pkg \in dirs /\ \A j \in AppIds : ~InstalledAs(j, main.pkg)

\* A step keeps DirsOK if it installs nothing and begins no installation.
LEMMA DirsKept ==
  ASSUME DirsOK, dirs' = dirs,
         \A i \in AppIds, k \in Packages : InstalledAs(i, k)' => InstalledAs(i, k),
         main'.pc = "unzip" /\ apps'[main'.id].state = "Installing" =>
           main.pc = "unzip" /\ apps[main.id].state = "Installing" /\ main'.pkg = main.pkg
           /\ main.pkg \in Packages
  PROVE  DirsOK'
BY DEF DirsOK

LEMMA DirsStep ==
  ASSUME Restarts = FALSE, IInv, DirsOK, [Next]_vars
  PROVE  DirsOK'
<1> USE DEF IInv, memory, disk, wires
<1>1. ASSUME UNCHANGED <<apps, dirs>>, main' = main \/ main'.pc # "unzip"
      PROVE  DirsOK'
  BY <1>1, DirsKept DEF InstalledAs, MainOK
<1>2. CASE InitializeApp
  <2>1. nextAppId \notin DOMAIN apps
    BY ConstantsAssumption DEF NextIdFresh, TypeOK, AppIds
  <2>2. \A i \in AppIds, k \in Packages : InstalledAs(i, k)' => InstalledAs(i, k)
    BY <1>2, <2>1, ConstantsAssumption DEF InitializeApp, Put, InstalledAs, Installed, Active
  <2> QED  BY <1>2, <2>2, DirsKept DEF InitializeApp, Idle
<1>3. ASSUME NEW j \in AppIds, NEW k \in Packages, InstallApp(j, k)
      PROVE  DirsOK'
  <2> DEFINE installing == Changed(apps[j], "Installing")
             a == IF k \in dirs THEN Changed(installing, "Removed") ELSE installing
  <2>1. apps[j] \in App /\ j \in DOMAIN apps /\ apps[j].state = "Initialized"
    BY <1>3 DEF InstallApp, TypeOK
  <2>2. installing \in App /\ installing.state = "Installing"
    BY <2>1 DEF Changed, Approved, App, AppState
  <2>3. a.state = (IF k \in dirs THEN "Removed" ELSE "Installing")
    BY <2>2 DEF Changed, Approved, App, AppState
  <2>4. apps' = [apps EXCEPT ![j] = a]
    BY <1>3 DEF InstallApp
  <2> HIDE DEF a
  <2>5. \A i \in AppIds, l \in Packages : InstalledAs(i, l)' => InstalledAs(i, l)
    BY <2>1, <2>3, <2>4 DEF InstalledAs, Installed, Active
  <2>6. apps'[j].state = a.state
    BY <2>1, <2>4
  <2>7. main'.pc = "unzip" /\ main'.id = j /\ main'.pkg = k /\ dirs' = dirs \cup {k}
    BY <1>3 DEF InstallApp, At, Idle
  <2>8. apps'[j].state = "Installing" => \A i \in AppIds : ~InstalledAs(i, k)'
    BY <2>3, <2>5, <2>6 DEF DirsOK
  <2> QED  BY <2>5, <2>7, <2>8 DEF DirsOK
<1>4. ASSUME NEW j \in AppIds, RemoveApp(j) \/ TerminateRunning(j) \/ TerminateLaunching(j)
      PROVE  DirsOK'
  <2>1. PICK s \in AppState : j \in DOMAIN apps /\ apps[j].state \in Installed
                             /\ apps' = [apps EXCEPT ![j] = Changed(apps[j], s)]
    BY <1>4 DEF RemoveApp, TerminateRunning, TerminateLaunching, Installed, Active, AppState
  <2>2. apps[j] \in App
    BY <2>1 DEF TypeOK
  <2>3. Changed(apps[j], s).pkg = apps[j].pkg
    BY <2>2, ChangedFacts
  <2>4. \A i \in AppIds, l \in Packages : InstalledAs(i, l)' => InstalledAs(i, l)
    BY <2>1, <2>3 DEF InstalledAs
  <2>5. dirs' = dirs /\ main'.pc # "unzip"
    <3>1. RemoveApp(j) => dirs' = dirs /\ main'.pc # "unzip"
      BY DEF RemoveApp, At, Idle
    <3>2. TerminateRunning(j) => dirs' = dirs /\ main'.pc # "unzip"
      BY DEF TerminateRunning, Idle
    <3>3. TerminateLaunching(j) => dirs' = dirs /\ main'.pc # "unzip"
      BY DEF TerminateLaunching, At, Idle
    <3> QED  BY <1>4, <3>1, <3>2, <3>3
  <2> QED  BY <2>4, <2>5, DirsKept
<1>5. ASSUME NEW j \in AppIds, NEW p \in Pids, LaunchFork(j, p)
      PROVE  DirsOK'
  BY <1>1, <1>5 DEF LaunchFork, At, Idle
<1>6. ASSUME NEW p \in Pids, CompleteLaunching(p)
      PROVE  DirsOK'
  <2>1. dirs' = dirs /\ main' = main /\ main.pc = "idle"
    BY <1>6 DEF CompleteLaunching, Idle
  <2>2. CASE UNCHANGED apps
    BY <1>1, <2>1, <2>2
  <2>3. CASE Holders(p) # {} /\ apps[Least(Holders(p))].state = "Launching"
             /\ apps' = [apps EXCEPT ![Least(Holders(p))] = Changed(apps[Least(Holders(p))], "Running")]
    <3>1. PICK j : j = Least(Holders(p))
      OBVIOUS
    <3>2. j \in DOMAIN apps
      <4>1. Holders(p) \subseteq Nat
        BY ConstantsAssumption DEF Holders, TypeOK, AppIds
      <4> QED  BY <2>3, <3>1, <4>1, LeastInSet DEF Holders
    <3>3. Changed(apps[j], "Running").pkg = apps[j].pkg
      BY <3>2, ChangedFacts DEF TypeOK, AppState
    <3>4. \A i \in AppIds, l \in Packages : InstalledAs(i, l)' => InstalledAs(i, l)
      BY <2>3, <3>1, <3>2, <3>3 DEF InstalledAs, Installed, Active
    <3> QED  BY <2>1, <3>4, DirsKept
  <2> QED  BY <1>6, <2>2, <2>3 DEF CompleteLaunching, Acknowledge
<1>7. ASSUME NEW r \in BOOLEAN, NEW m \in BOOLEAN, InstallUnpack(r, m)
      PROVE  DirsOK'
  <2> DEFINE i == main.id
             unpacked == IF r THEN apps[i] ELSE Changed(apps[i], "Removed")
             a == IF m THEN Changed([unpacked EXCEPT !.pkg = main.pkg], "Ready")
                       ELSE Changed(unpacked, "Removed")
  <2>1. /\ i \in DOMAIN apps /\ apps[i] \in App /\ apps[i].state \in {"Installing", "Removed"}
        /\ main.pkg \in Packages /\ main.pc = "unzip" /\ i \in AppIds
    BY <1>7 DEF InstallUnpack, TypeOK, MainOK
  <2>2. unpacked \in App /\ unpacked.state \in {apps[i].state, "Removed"}
    BY <2>1 DEF Changed, App, AppState
  <2>3. a.state \in Installed => apps[i].state = "Installing" /\ a.pkg = main.pkg
    <3>1. CASE m
      <4> DEFINE b == [unpacked EXCEPT !.pkg = main.pkg]
      <4>1. b \in App /\ b.state = unpacked.state /\ b.pkg = main.pkg
        BY <2>1, <2>2 DEF App
      <4> HIDE DEF b
      <4>2. Changed(b, "Ready").state \in Installed => b.state = "Installing" /\ Changed(b, "Ready").pkg = main.pkg
        BY <2>1, <2>2, <4>1 DEF Changed, Approved, App, Installed, Active
      <4> QED  BY <2>1, <2>2, <3>1, <4>1, <4>2 DEF b
    <3>2. CASE ~m
      <4>1. Changed(unpacked, "Removed").state \notin Installed
        BY <2>1, <2>2 DEF Changed, Approved, App, Installed, Active
      <4> QED  BY <3>2, <4>1
    <3> QED  BY <3>1, <3>2
  <2>4. apps' = [apps EXCEPT ![i] = a] /\ dirs' = dirs /\ main'.pc # "unzip"
    BY <1>7 DEF InstallUnpack, TypeOK, Idle
  <2> HIDE DEF a
  <2>5. \A j \in AppIds, k \in Packages :
          InstalledAs(j, k)' => InstalledAs(j, k) \/ (j = i /\ k = main.pkg /\ apps[i].state = "Installing")
    BY <2>1, <2>3, <2>4 DEF InstalledAs
  <2>6. apps[i].state = "Installing" => main.pkg \in dirs /\ \A j \in AppIds : ~InstalledAs(j, main.pkg)
    BY <2>1 DEF DirsOK
  <2>7. \A j \in AppIds, k \in Packages : InstalledAs(j, k)' => k \in dirs
    BY <2>5, <2>6 DEF DirsOK
  <2>8. \A j, l \in AppIds, k \in Packages : InstalledAs(j, k)' /\ InstalledAs(l, k)' => j = l
    BY <2>5, <2>6 DEF DirsOK
  <2> QED  BY <2>4, <2>7, <2>8 DEF DirsOK
<1>8. CASE InstallFlush
  BY <1>1, <1>8 DEF InstallFlush, Idle
<1>9. ASSUME NEW what, GoDown(what)
      PROVE  DirsOK'
  <2>1. \A i \in AppIds, k \in Packages : ~InstalledAs(i, k)'
    BY <1>9, EmptyFacts DEF GoDown, InstalledAs
  <2> QED  BY <1>9, <2>1, DirsKept DEF GoDown, At, Idle
<1>10. CASE RemoveErase
  <2>1. CASE apps' = Without(apps, main.id) /\ main' = At("dbdelete", main.id) /\ UNCHANGED disk
    <3>1. \A i \in AppIds, k \in Packages : InstalledAs(i, k)' => InstalledAs(i, k)
      BY <2>1 DEF Without, InstalledAs
    <3> QED  BY <2>1, <3>1, DirsKept DEF At, Idle
  <2> QED  BY <1>9, <1>10, <2>1 DEF RemoveErase
<1>11. CASE RemoveDelete
  BY <1>1, <1>11 DEF RemoveDelete, Idle
<1>12. CASE LaunchRecord
  <2> DEFINE i == main.id
             b == [apps[i] EXCEPT !.pid = main.pid]
  <2>1. i \in DOMAIN apps /\ apps[i] \in App /\ apps[i].state = "Ready" /\ main.pid \in Pids
    BY <1>12 DEF LaunchRecord, MainOK, TypeOK
  <2>2. Changed(b, "Launching").pkg = apps[i].pkg
    BY <2>1 DEF Changed, App
  <2>3. apps' = [apps EXCEPT ![i] = Changed(b, "Launching")] /\ dirs' = dirs /\ main'.pc # "unzip"
    BY <1>12 DEF LaunchRecord, Idle
  <2> HIDE DEF b
  <2>4. \A j \in AppIds, k \in Packages : InstalledAs(j, k)' => InstalledAs(j, k)
    BY <2>1, <2>2, <2>3 DEF InstalledAs, Installed
  <2> QED  BY <2>3, <2>4, DirsKept
<1>13. CASE TerminateKill
  BY <1>1, <1>13 DEF TerminateKill, Idle
<1>14. ASSUME NEW from \in {"boot1", "boot2"}, NEW to \in {"boot2", "idle"},
              AddDefaultApp(from, to)
       PROVE  DirsOK'
  <2>1. nextAppId \notin DOMAIN apps
    BY ConstantsAssumption DEF NextIdFresh, TypeOK, AppIds
  <2>2. \A i \in AppIds, k \in Packages : InstalledAs(i, k)' => InstalledAs(i, k)
    BY <1>14, <2>1, ConstantsAssumption DEF AddDefaultApp, Put, InstalledAs
  <2> QED  BY <1>14, <2>2, DirsKept DEF AddDefaultApp, At, Idle
<1>15. CASE Messages \/ Processes
  BY <1>1, <1>15 DEF Messages, DeliverAck, DeliverTerminate, Processes, AppExits, SendComplete
<1>16. CASE SignalHandler
  <2>1. DOMAIN apps' = DOMAIN apps /\ dirs' = dirs /\ main' = main
    BY <1>16 DEF SignalHandler
  <2>2. \A i \in DOMAIN apps :
          \/ apps'[i] = apps[i]
          \/ apps[i].state \in Active \cup {"Ready"} /\ apps'[i] = Changed(apps[i], "Ready")
    BY <1>16 DEF SignalHandler
  <2>3. \A i \in DOMAIN apps : apps[i] \in App
    BY DEF TypeOK
  <2>4. \A i \in DOMAIN apps : Changed(apps[i], "Ready").pkg = apps[i].pkg
    BY <2>3, ChangedFacts DEF AppState
  <2>5. \A i \in AppIds, k \in Packages : InstalledAs(i, k)' => InstalledAs(i, k)
    BY <2>1, <2>2, <2>4 DEF InstalledAs, Installed
  <2>6. main.pc = "unzip" => apps[main.id].state \notin Active \cup {"Ready"}
                             /\ main.id \in DOMAIN apps /\ main.pkg \in Packages
    BY DEF MainOK, Active
  <2>7. main.pc = "unzip" => apps'[main.id] = apps[main.id]
    BY <2>2, <2>6
  <2> QED  BY <2>1, <2>5, <2>6, <2>7, DirsKept
<1>17. CASE Crash
  BY <1>9, <1>17 DEF Crash
<1>18. CASE UNCHANGED vars
  BY <1>1, <1>18 DEF vars
<1> QED  BY <1>2, <1>3, <1>4, <1>5, <1>6, <1>7, <1>8, <1>10, <1>11, <1>12, <1>13, <1>14,
            <1>15, <1>16, <1>17, <1>18
         DEF Next, Commands, Continue, AddCameraViewer, AddSensorViewer, Restart

\* As long as AppCore has not been started again, two installed apps never share the directory
\* of a package (AppCore::installApp, App::changeState): the second installation is marked as
\* Removed before it is unpacked, and none of the states that it still passes makes it Ready,
\* wherever SIGCHLD interrupts it.
THEOREM DirectoriesAreDistinct ==
  ASSUME Restarts = FALSE
  PROVE  Spec => []DistinctDirectories
<1>1. Init => DirsOK
  BY EmptyFacts DEF Init, DirsOK, InstalledAs, At, Idle
<1>2. IInv /\ DirsOK /\ [Next]_vars => DirsOK'
  BY DirsStep
<1>3. IInv /\ DirsOK => DistinctDirectories
  <2> SUFFICES ASSUME IInv, DirsOK, NEW i \in DOMAIN apps, NEW j \in DOMAIN apps,
                      i # j, apps[i].pkg # NoPkg,
                      apps[i].state \in Installed, apps[j].state \in Installed
               PROVE  apps[i].pkg # apps[j].pkg
    BY DEF DistinctDirectories
  <2>1. i \in AppIds /\ j \in AppIds /\ apps[i].pkg \in Packages
    BY DEF IInv, TypeOK, App
  <2> QED  BY <2>1 DEF DirsOK, InstalledAs
<1> QED  BY <1>1, <1>2, <1>3, Inductive, PTL DEF Spec

-----------------------------------------------------------------------------
(* The ids that processes answer for                                       *)

\* No pid is another one with more digits, so that no process takes the acknowledgement of
\* another one (MessageRouter::findBestChannelLocked).
PidsApart == \A p, q \in Pids : Answers(q, p) => q = p

\* Pid p is that of a process started for app i, or of no process any more.
IsOf(p, i) == proc[p].st = "none" \/ proc[p].app = i

\* Whatever names a pid together with an app names the app of that process.
RoutesOK ==
  /\ RouteIsOwn
  /\ \A p \in Pids, i \in AppIds : <<p, i>> \in acks => IsOf(p, i)
  /\ \A i \in DOMAIN apps, p \in Pids : apps[i].pid = p => IsOf(p, i)
  /\ main.pc = "forked" => IsOf(main.pid, main.id)

\* A step keeps RoutesOK if it starts no process, gives no id to one and names none.
LEMMA RoutesKept ==
  ASSUME IInv, RoutesOK,
         \A p \in Pids : \/ proc'[p].st = "none"
                         \/ /\ proc[p].st # "none" /\ proc'[p].app = proc[p].app
                            /\ proc'[p].route = proc[p].route
                            /\ proc'[p].st = "ready" => proc[p].st = "ready",
         \A p \in Pids, i \in AppIds : <<p, i>> \in acks' => <<p, i>> \in acks \/ IsOf(p, i),
         \A i \in DOMAIN apps', p \in Pids : apps'[i].pid = p =>
           (i \in DOMAIN apps /\ apps[i].pid = p) \/ IsOf(p, i),
         main'.pc = "forked" => main' = main
  PROVE  RoutesOK'
<1>1. \A p \in Pids : \A i : IsOf(p, i) => IsOf(p, i)'
  BY DEF IsOf
<1>2. RouteIsOwn'
  BY DEF RoutesOK, RouteIsOwn
<1>3. \A p \in Pids, i \in AppIds : <<p, i>> \in acks' => IsOf(p, i)'
  BY <1>1 DEF RoutesOK
<1>4. \A i \in DOMAIN apps', p \in Pids : apps'[i].pid = p => IsOf(p, i)'
  BY <1>1 DEF RoutesOK
<1>5. main'.pc = "forked" => IsOf(main.pid, main.id)'
  BY <1>1 DEF RoutesOK, IInv, MainOK
<1> QED  BY <1>2, <1>3, <1>4, <1>5 DEF RoutesOK, IsOf

LEMMA RoutesStep ==
  ASSUME PidReuse = FALSE, PidsApart, IInv, RoutesOK, [Next]_vars
  PROVE  RoutesOK'
<1> USE DEF IInv, memory, disk, wires
<1>1. ASSUME UNCHANGED <<apps, proc, acks>>, main' = main \/ main'.pc # "forked"
      PROVE  RoutesOK'
  BY <1>1, RoutesKept
<1>2. ASSUME UNCHANGED <<proc, acks>>, main'.pc # "forked",
             \A j \in DOMAIN apps' : (j \in DOMAIN apps /\ apps'[j].pid = apps[j].pid)
                                     \/ apps'[j].pid = NoPid
      PROVE  RoutesOK'
  <2>1. NoPid \notin Pids
    BY ConstantsAssumption DEF NoPid
  <2> QED  BY <1>2, <2>1, RoutesKept
<1>3. ASSUME NEW P, Exit(P), UNCHANGED <<apps, acks>>, main' = main \/ main'.pc # "forked"
      PROVE  RoutesOK'
  <2>1. \A p \in Pids : proc[p] \in Proc
    BY DEF TypeOK
  <2>2. \A p \in Pids : \/ proc'[p].st = "none"
                        \/ proc'[p] = proc[p]
                        \/ p \in children /\ proc'[p] = [proc[p] EXCEPT !.st = "zombie"]
    BY <1>3 DEF Exit, NoProc
  <2>3. \A p \in children : proc[p].st # "none"
    BY DEF ChildIsTracked
  <2>4. \A p \in Pids : [proc[p] EXCEPT !.st = "zombie"].app = proc[p].app
                        /\ [proc[p] EXCEPT !.st = "zombie"].route = proc[p].route
                        /\ [proc[p] EXCEPT !.st = "zombie"].st = "zombie"
    BY <2>1 DEF Proc
  <2>5. \A p \in Pids : \/ proc'[p].st = "none"
                        \/ /\ proc[p].st # "none" /\ proc'[p].app = proc[p].app
                           /\ proc'[p].route = proc[p].route
                           /\ proc'[p].st = "ready" => proc[p].st = "ready"
    BY <2>2, <2>3, <2>4
  <2> QED  BY <1>3, <2>5, RoutesKept
<1>4. CASE InitializeApp
  BY <1>2, <1>4 DEF InitializeApp, Put, Idle, AppIds
<1>5. ASSUME NEW i \in AppIds, NEW k \in Packages, InstallApp(i, k)
      PROVE  RoutesOK'
  <2>1. i \in DOMAIN apps /\ apps[i] \in App
    BY <1>5 DEF InstallApp, TypeOK
  <2> DEFINE a == Changed(apps[i], "Installing")
  <2>2. a \in App /\ a.pid = apps[i].pid
    BY <2>1, ChangedFacts DEF AppState
  <2> HIDE DEF a
  <2>4. Changed(a, "Removed").pid = apps[i].pid
    BY <2>2, ChangedFacts DEF AppState
  <2>3. \A j \in DOMAIN apps' : j \in DOMAIN apps /\ apps'[j].pid = apps[j].pid
    BY <1>5, <2>1, <2>2, <2>4 DEF InstallApp, a
  <2> QED  BY <1>2, <1>5, <2>3 DEF InstallApp, At, Idle
<1>6. ASSUME NEW i \in AppIds, RemoveApp(i) \/ TerminateRunning(i) \/ TerminateLaunching(i)
      PROVE  RoutesOK'
  <2>1. PICK s \in AppState : i \in DOMAIN apps /\ apps' = [apps EXCEPT ![i] = Changed(apps[i], s)]
    BY <1>6 DEF RemoveApp, TerminateRunning, TerminateLaunching, AppState
  <2>2. Changed(apps[i], s).pid = apps[i].pid
    BY <2>1, ChangedFacts DEF TypeOK
  <2>3. \A j \in DOMAIN apps' : j \in DOMAIN apps /\ apps'[j].pid = apps[j].pid
    BY <2>1, <2>2
  <2>4. RemoveApp(i) => UNCHANGED <<proc, acks>> /\ main'.pc # "forked"
    BY DEF RemoveApp, At, Idle
  <2>5. TerminateRunning(i) => UNCHANGED <<proc, acks>> /\ main'.pc # "forked"
    BY DEF TerminateRunning, Idle
  <2>6. TerminateLaunching(i) => UNCHANGED <<proc, acks>> /\ main'.pc # "forked"
    BY DEF TerminateLaunching, At, Idle
  <2> QED  BY <1>2, <1>6, <2>3, <2>4, <2>5, <2>6
<1>7. ASSUME NEW i \in AppIds, NEW p \in Pids, LaunchFork(i, p)
      PROVE  RoutesOK'
  <2>1. /\ Holders(p) = {} /\ \A j \in AppIds : <<p, j>> \notin acks
        /\ UNCHANGED <<apps, acks>>
    BY <1>7 DEF LaunchFork, FreePids, Named
  <2>2. proc'[p].st = "starting" /\ proc'[p].app = i /\ \A q \in Pids : q # p => proc'[q] = proc[q]
    BY <1>7 DEF LaunchFork, TypeOK
  <2>3. main'.pid = p /\ main'.id = i
    BY <1>7 DEF LaunchFork, At, Idle
  <2>4. \A q \in Pids : \A j : q # p /\ IsOf(q, j) => IsOf(q, j)'
    BY <2>2 DEF IsOf
  <2>5. RouteIsOwn'
    BY <2>2 DEF RoutesOK, RouteIsOwn
  <2>6. \A q \in Pids, j \in AppIds : <<q, j>> \in acks' => IsOf(q, j)'
    BY <2>1, <2>4 DEF RoutesOK
  <2>7. \A j \in DOMAIN apps', q \in Pids : apps'[j].pid = q => IsOf(q, j)'
    BY <2>1, <2>4 DEF RoutesOK, Holders
  <2>8. IsOf(p, i)'
    BY <2>2 DEF IsOf
  <2> QED  BY <2>3, <2>5, <2>6, <2>7, <2>8 DEF RoutesOK, IsOf
<1>8. ASSUME NEW p \in Pids, CompleteLaunching(p)
      PROVE  RoutesOK'
  <2>1. UNCHANGED <<proc, main>> /\ main.pc = "idle"
    BY <1>8 DEF CompleteLaunching, Idle
  <2>2. CASE UNCHANGED <<apps, acks>>
    BY <1>1, <2>1, <2>2
  <2>3. CASE /\ Holders(p) # {}
             /\ apps' = [apps EXCEPT ![Least(Holders(p))] = Changed(apps[Least(Holders(p))], "Running")]
             /\ acks' = acks \cup {<<p, Least(Holders(p))>>}
    <3>1. PICK i : i = Least(Holders(p))
      OBVIOUS
    <3>2. i \in DOMAIN apps /\ apps[i].pid = p
      <4>1. Holders(p) \subseteq Nat
        BY ConstantsAssumption DEF Holders, TypeOK, AppIds
      <4> QED  BY <2>3, <3>1, <4>1, LeastInSet DEF Holders
    <3>3. Changed(apps[i], "Running").pid = apps[i].pid
      BY <3>2, ChangedFacts DEF TypeOK, AppState
    <3>4. \A j \in DOMAIN apps' : j \in DOMAIN apps /\ apps'[j].pid = apps[j].pid
      BY <2>3, <3>1, <3>2, <3>3
    <3>5. IsOf(p, i)
      BY <3>2 DEF RoutesOK
    <3>6. \A q \in Pids, j \in AppIds : <<q, j>> \in acks' => <<q, j>> \in acks \/ IsOf(q, j)
      BY <2>3, <3>1, <3>5
    <3> QED  BY <2>1, <3>4, <3>6, RoutesKept
  <2> QED  BY <1>8, <2>2, <2>3 DEF CompleteLaunching, Acknowledge
<1>9. ASSUME NEW r \in BOOLEAN, NEW m \in BOOLEAN, InstallUnpack(r, m)
      PROVE  RoutesOK'
  <2> DEFINE i == main.id
             unpacked == IF r THEN apps[i] ELSE Changed(apps[i], "Removed")
             a == IF m THEN Changed([unpacked EXCEPT !.pkg = main.pkg], "Ready")
                       ELSE Changed(unpacked, "Removed")
  <2>1. i \in DOMAIN apps /\ apps[i] \in App /\ main.pkg \in Packages
    BY <1>9 DEF InstallUnpack, TypeOK, MainOK
  <2>2. unpacked \in App /\ unpacked.pid = apps[i].pid
    BY <2>1, ChangedFacts DEF AppState
  <2>3. a.pid = apps[i].pid
    <3> DEFINE b == [unpacked EXCEPT !.pkg = main.pkg]
    <3>1. b \in App /\ b.pid = unpacked.pid
      BY <2>1, <2>2 DEF App
    <3> HIDE DEF b, unpacked
    <3>2. Changed(b, "Ready").pid = b.pid
      BY <3>1, ChangedFacts DEF AppState
    <3>3. Changed(unpacked, "Removed").pid = unpacked.pid
      BY <2>2, ChangedFacts DEF AppState
    <3> QED  BY <2>2, <3>1, <3>2, <3>3 DEF b
  <2>4. apps' = [apps EXCEPT ![i] = a] /\ UNCHANGED <<proc, acks>> /\ main'.pc # "forked"
    BY <1>9 DEF InstallUnpack, TypeOK, Idle
  <2> HIDE DEF a
  <2>5. \A j \in DOMAIN apps' : j \in DOMAIN apps /\ apps'[j].pid = apps[j].pid
    BY <2>1, <2>3, <2>4
  <2> QED  BY <1>2, <2>4, <2>5
<1>10. CASE InstallFlush \/ RemoveDelete
  BY <1>1, <1>10 DEF InstallFlush, RemoveDelete, Idle
<1>11. ASSUME NEW what, GoDown(what)
       PROVE  RoutesOK'
  <2>1. \A p \in Pids : proc'[p] = proc[p] \/ proc'[p].st = "none"
    BY <1>11 DEF GoDown, NoProc
  <2>2. DOMAIN apps' = {} /\ acks' \subseteq acks /\ main'.pc # "forked"
    BY <1>11, EmptyFacts DEF GoDown, At, Idle
  <2> QED  BY <2>1, <2>2, RoutesKept
<1>12. CASE RemoveErase
  <2>1. CASE apps' = Without(apps, main.id) /\ main' = At("dbdelete", main.id)
             /\ UNCHANGED <<proc, wires>>
    BY <1>2, <2>1 DEF Without, At, Idle, AppIds
  <2> QED  BY <1>11, <1>12, <2>1 DEF RemoveErase
<1>13. CASE LaunchRecord
  <2> DEFINE i == main.id
             b == [apps[i] EXCEPT !.pid = main.pid]
  <2>1. i \in DOMAIN apps /\ apps[i] \in App /\ main.pid \in Pids /\ main.pc = "forked"
    BY <1>13 DEF LaunchRecord, MainOK, TypeOK
  <2>2. b \in App /\ b.pid = main.pid
    BY <2>1 DEF App
  <2>3. apps' = [apps EXCEPT ![i] = Changed(b, "Launching")] /\ UNCHANGED <<proc, acks>>
        /\ main'.pc # "forked"
    BY <1>13 DEF LaunchRecord, Idle
  <2> HIDE DEF b
  <2>4. Changed(b, "Launching").pid = main.pid
    BY <2>2, ChangedFacts DEF AppState
  <2>5. IsOf(main.pid, i)
    BY <2>1 DEF RoutesOK
  <2>6. \A j \in DOMAIN apps', p \in Pids : apps'[j].pid = p =>
          (j \in DOMAIN apps /\ apps[j].pid = p) \/ IsOf(p, j)
    BY <2>1, <2>3, <2>4, <2>5
  <2> QED  BY <2>3, <2>6, RoutesKept
<1>14. CASE TerminateKill
  BY <1>3, <1>14 DEF TerminateKill, Idle
<1>15. ASSUME NEW from \in {"boot1", "boot2"}, NEW to \in {"boot2", "idle"},
              AddDefaultApp(from, to)
       PROVE  RoutesOK'
  BY <1>2, <1>15 DEF AddDefaultApp, Put, At, Idle
<1>16. ASSUME NEW p \in Pids, NEW i \in AppIds, DeliverAck(p, i)
       PROVE  RoutesOK'
  <2>1. <<p, i>> \in acks /\ acks' \subseteq acks /\ UNCHANGED <<apps, main>>
    BY <1>16 DEF DeliverAck
  <2>2. \A q \in Pids : \/ proc'[q] = proc[q]
                        \/ /\ proc[q].st = "waiting" /\ q = p
                           /\ proc'[q] = [proc[q] EXCEPT !.st = "ready", !.route = i]
    BY <1>16 DEF DeliverAck, PidsApart
  <2>3. proc[p] \in Proc
    BY DEF TypeOK
  <2>4. /\ [proc[p] EXCEPT !.st = "ready", !.route = i].app = proc[p].app
        /\ [proc[p] EXCEPT !.st = "ready", !.route = i].route = i
    BY <2>3 DEF Proc
  <2>5. proc[p].st = "waiting" => proc[p].app = i
    BY <2>1 DEF RoutesOK, IsOf
  <2>6. RouteIsOwn'
    <3> SUFFICES ASSUME NEW q \in Pids, proc'[q].st = "ready"
                 PROVE  proc'[q].route = proc'[q].app
      BY DEF RouteIsOwn
    <3>1. CASE proc'[q] = proc[q]
      BY <3>1 DEF RoutesOK, RouteIsOwn
    <3>2. CASE proc'[q] # proc[q]
      <4>1. proc[p].st = "waiting" /\ q = p
        BY <2>2, <3>2
      <4>2. proc'[p] = [proc[p] EXCEPT !.st = "ready", !.route = i]
        BY <2>2, <3>2, <4>1
      <4> QED  BY <2>4, <2>5, <4>1, <4>2
    <3> QED  BY <3>1, <3>2
  <2>7. \A q \in Pids : \A j : IsOf(q, j) => IsOf(q, j)'
    BY <2>2, <2>4 DEF IsOf
  <2>8. \A q \in Pids, j \in AppIds : <<q, j>> \in acks' => IsOf(q, j)'
    BY <2>1, <2>7 DEF RoutesOK
  <2>9. \A j \in DOMAIN apps', q \in Pids : apps'[j].pid = q => IsOf(q, j)'
    BY <2>1, <2>7 DEF RoutesOK
  <2>10. main'.pc = "forked" => IsOf(main.pid, main.id)'
    BY <2>1, <2>7 DEF RoutesOK, MainOK
  <2> QED  BY <2>1, <2>6, <2>8, <2>9, <2>10 DEF RoutesOK, IsOf
<1>17. ASSUME NEW i \in AppIds, DeliverTerminate(i)
       PROVE  RoutesOK'
  BY <1>3, <1>17 DEF DeliverTerminate
<1>18. ASSUME NEW p \in Pids, AppExits(p)
       PROVE  RoutesOK'
  BY <1>3, <1>18 DEF AppExits
<1>19. ASSUME NEW p \in Pids, SendComplete(p)
       PROVE  RoutesOK'
  <2>1. \A q \in Pids : \/ proc'[q] = proc[q]
                        \/ /\ proc[q].st = "starting" /\ proc'[q].st = "waiting"
                           /\ proc'[q].app = proc[q].app /\ proc'[q].route = proc[q].route
    BY <1>19 DEF SendComplete, TypeOK, Proc
  <2> QED  BY <1>19, <2>1, RoutesKept DEF SendComplete
<1>20. CASE SignalHandler
  <2>1. PICK p \in children : proc' = [proc EXCEPT ![p] = NoProc]
    BY <1>20 DEF SignalHandler
  <2>2. \A q \in Pids : proc'[q] = proc[q] \/ proc'[q].st = "none"
    BY <2>1 DEF TypeOK, NoProc
  <2>3. \A i \in DOMAIN apps : apps[i] \in App
    BY DEF TypeOK
  <2>4. \A i \in DOMAIN apps : Changed(apps[i], "Ready").pid = apps[i].pid
    BY <2>3, ChangedFacts DEF AppState
  <2>5. \A i \in DOMAIN apps' : i \in DOMAIN apps /\ apps'[i].pid = apps[i].pid
    BY <1>20, <2>4 DEF SignalHandler
  <2>6. UNCHANGED <<main, acks>>
    BY <1>20 DEF SignalHandler
  <2> QED  BY <2>2, <2>5, <2>6, RoutesKept
<1>21. CASE Crash
  BY <1>11, <1>21 DEF Crash
<1>22. CASE Restart
  <2>1. UNCHANGED <<proc, acks>> /\ main' \in {Idle, At("boot1", NoId)}
    BY <1>22 DEF Restart
  <2>3. Idle.pc = "idle" /\ At("boot1", NoId).pc = "boot1"
    BY DEF Idle, At
  <2>2. \A j \in DOMAIN apps' : apps'[j].pid = NoPid
    BY <1>22, EmptyFacts DEF Restart
  <2> QED  BY <1>2, <2>1, <2>2, <2>3
<1>23. CASE UNCHANGED vars
  BY <1>1, <1>23 DEF vars
<1>24. CASE Commands
  BY <1>1, <1>4, <1>5, <1>6, <1>7, <1>8, <1>24 DEF Commands
<1>25. CASE Continue
  BY <1>9, <1>10, <1>12, <1>13, <1>14, <1>15, <1>25
     DEF Continue, AddCameraViewer, AddSensorViewer
<1>26. CASE Messages \/ Processes
  BY <1>16, <1>17, <1>18, <1>19, <1>26 DEF Messages, Processes
<1> QED  BY <1>20, <1>21, <1>22, <1>23, <1>24, <1>25, <1>26 DEF Next

\* A process that has its id has that of the app it was started for, whatever completions are
\* lost, repeated or late, and also if AppCore crashes and is started again beside it
\* (AppCore::completeLaunchingApp, AppBase::onAckCompleteLaunchingApp).  The kernel must not
\* give a pid again that is still named, and no pid may be another one with more digits.
THEOREM RoutesAreOwn ==
  ASSUME PidReuse = FALSE, PidsApart
  PROVE  Spec => []RouteIsOwn
<1>1. Init => RoutesOK
  BY EmptyFacts DEF Init, RoutesOK, RouteIsOwn, NoProc, At, Idle
<1>2. IInv /\ RoutesOK /\ [Next]_vars => RoutesOK'
  BY RoutesStep
<1>3. RoutesOK => RouteIsOwn
  BY DEF RoutesOK
<1> QED  BY <1>1, <1>2, <1>3, Inductive, PTL DEF Spec

=============================================================================
