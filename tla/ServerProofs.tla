---------------------------- MODULE ServerProofs ----------------------------
(***************************************************************************)
(* The shutdown of the server process leaves no process of the cell behind *)
(* and cuts no accepted Start off; what is proved of the lifecycle in      *)
(* CellProofs is used here.  Beside the lifecycle, status probes change    *)
(* nothing and call no running cell stopped.                               *)
(***************************************************************************)
EXTENDS Server, CellStatus, CellProofs

\* Every step of the server is a step of Cell or changes nothing there: main
\* adds only its own call of Stop.
LEMMA ServerStep == ServerNext => [Next]_vars
<1>1. SUFFICES ASSUME ServerNext PROVE [Next]_vars
  OBVIOUS
<1>2. CASE Serve \/ BootFails \/ Signal \/ Exit
  BY <1>2 DEF Serve, BootFails, Signal, Exit
<1>3. CASE Drained
  BY <1>3, MainAssumption DEF Drained, Next
<1>4. CASE Request
  BY <1>4 DEF Request, Next
<1>5. CASE Native
  BY <1>5 DEF Native, Next
<1> QED
  BY <1>1, <1>2, <1>3, <1>4, <1>5 DEF ServerNext

\* Server is built from the actions of Cell, so its behaviours are behaviours
\* of Cell, whose theorems may be used below.
LEMMA ServerIsCell == ServerSpec => Spec
<1>1. ServerInit => Init
  BY DEF ServerInit
<1>2. [ServerNext]_serverVars => [Next]_vars
  BY ServerStep DEF serverVars
<1> QED
  BY <1>1, <1>2, PTL DEF ServerSpec, Spec

-----------------------------------------------------------------------------
(* The shutdown.  Requests are cancelled before main waits for the mutex,   *)
(* so the Starts that get it after main are refused, and nothing that the   *)
(* last Stop found or swept away is launched again.                         *)

Leaving == phase \in {"stopping", "exited"}

\* main's Stop has, or has had, the mutex; and it has returned.
Locked == phase = "exited" \/ (phase = "stopping" /\ pc[main] # "lock")
Returned == phase = "exited" \/ (phase = "stopping" /\ pc[main] = "idle")

RequestsCancelled ==
    Leaving => \A c \in Starters : pc[c] = "idle" \/ c \in cancelled
NoStartAdmitted ==
    Locked => \A c \in Starters : pc[c] \in {"idle", "lock", "admit"}
NothingRuns ==
    Returned /\ Stubborn = {} /\ ~PsMayFail => live = {}

Shutdown == RequestsCancelled /\ NoStartAdmitted /\ NothingRuns

\* Steps that move no starter and launch nothing where nothing runs.
LEMMA ShutdownKept ==
  ASSUME Shutdown, cancelled \subseteq cancelled', live = {} => live' = {},
         \A c \in Starters : pc'[c] = pc[c],
         Leaving' => Leaving, Locked' => Locked, Returned' => Returned
  PROVE  Shutdown'
  BY DEF Shutdown, RequestsCancelled, NoStartAdmitted, NothingRuns

\* What a step of Start does to its cancellation: only a return forgets it.
LEMMA StarterCancelled ==
  ASSUME NEW c \in Starters, ControlTypeOK, StartStep(c)
  PROVE  UNCHANGED cancelled \/ (cancelled' = cancelled \ {c} /\ pc'[c] = "idle")
<1> USE DEF requestVars, allButControl
<1>1. ASSUME NEW how, Return(c, how)
      PROVE  cancelled' = cancelled \ {c} /\ pc'[c] = "idle"
  BY <1>1 DEF Return, Unlock, Goto, ControlTypeOK, Clients, Lifecycle
<1>2. CASE StartAdmit(c)
  BY <1>1, <1>2 DEF StartAdmit, Refuse
<1>3. CASE StartCommit(c) \/ StartFailed(c)
  BY <1>1, <1>3 DEF StartCommit, StartFailed
<1>4. CASE ~(StartAdmit(c) \/ StartCommit(c) \/ StartFailed(c))
  BY <1>4 DEF StartStep, StartLock, StartPrepare, StartConfig, StartSession,
              StartService, StartSettle, StartOpenBTS, StartReady, StartTmsis,
              StartSaveFails, StartUndo
<1> QED  BY <1>2, <1>3, <1>4

\* A Start that goes on during the shutdown.
LEMMA ShutdownStarter ==
  ASSUME NEW c \in Starters, CellInvariant, Shutdown, phase = "stopping",
         StartStep(c), UNCHANGED phase
  PROVE  Shutdown'
<1> USE DEF requestVars, allButControl, processVars
<1>1. /\ pc \in [Clients -> StartPoints \cup StopPoints \cup EditPoints
                               \cup ProbePoints]
      /\ c \in Clients /\ main \in Clients /\ c # main /\ ControlTypeOK
  BY ClientsAssumption, MainAssumption
     DEF CellInvariant, Basic, TypeOK, ControlTypeOK, Clients, Lifecycle
<1>2. /\ pc[c] # "idle" /\ c \in cancelled
      /\ \A d \in Starters \ {c} : pc'[d] = pc[d]
  BY <1>1, StarterEffect DEF Shutdown, RequestsCancelled, Leaving
<1>3. RequestsCancelled'
  <2>1. \A d \in Starters : pc[d] = "idle" \/ d \in cancelled
    BY DEF Shutdown, RequestsCancelled, Leaving
  <2> QED  BY <1>1, <1>2, <2>1, StarterCancelled DEF RequestsCancelled
<1>4. pc'[main] = pc[main]
  <2>1. UNCHANGED pc \/ \E pt : Goto(c, pt)
    BY DEF StartStep, StartLock, StartAdmit, Refuse, StartPrepare, StartConfig,
           StartSession, StartService, StartSettle, StartOpenBTS, StartReady,
           StartTmsis, StartSaveFails, StartCommit, StartUndo, StartFailed,
           Return, Unlock, Fail, Check
  <2> QED  BY <1>1, <2>1 DEF Goto
<1>5. CASE pc[main] = "lock"
  BY <1>3, <1>4, <1>5 DEF Shutdown, NoStartAdmitted, NothingRuns, Locked, Returned
<1>6. CASE pc[main] # "lock"
  <2>1. pc[c] \in {"lock", "admit"}
    BY <1>2, <1>6 DEF Shutdown, NoStartAdmitted, Locked
  <2>2. StartLock(c) \/ StartAdmit(c)
    BY <2>1 DEF StartStep, StartPrepare, StartConfig, StartSession, StartService,
                StartSettle, StartOpenBTS, StartReady, StartTmsis, StartSaveFails,
                StartCommit, StartUndo, StartFailed, Services
  <2>3. live' = live /\ (Goto(c, "admit") \/ Goto(c, "idle"))
    BY <1>2, <2>2 DEF StartLock, StartAdmit, Refuse, Return, Unlock
  <2>4. pc'[c] \in {"idle", "lock", "admit"}
    BY <1>1, <2>3 DEF Goto
  <2>5. NoStartAdmitted'
    BY <1>2, <1>6, <2>4 DEF Shutdown, NoStartAdmitted, Locked
  <2>6. NothingRuns'
    BY <1>4, <2>3 DEF Shutdown, NothingRuns, Returned
  <2> QED  BY <1>3, <2>5, <2>6 DEF Shutdown
<1> QED  BY <1>5, <1>6

\* main's own Stop.
LEMMA ShutdownMain ==
  ASSUME CellInvariant, Swept, Shutdown, phase = "stopping", StopStep(main),
         UNCHANGED phase
  PROVE  Shutdown'
<1> USE MainAssumption DEF requestVars, allButControl, processVars
<1>1. /\ pc \in [Clients -> StartPoints \cup StopPoints \cup EditPoints
                               \cup ProbePoints]
      /\ main \in Clients \ Probes /\ ControlTypeOK
      /\ Starters \subseteq Clients \ Probes /\ Nobody \notin Starters
  BY ClientsAssumption
     DEF CellInvariant, Basic, TypeOK, ControlTypeOK, Clients, Lifecycle
<1>2. \A c \in Starters : pc'[c] = pc[c]
  BY <1>1, OtherEffect
<1>3. UNCHANGED cancelled
  BY DEF StopStep, StopLock, StopChildren, StopMain, StopKillAll, StopVerify
<1>4. RequestsCancelled'
  BY <1>2, <1>3 DEF Shutdown, RequestsCancelled, Leaving
<1>5. NoStartAdmitted'
  <2>1. CASE pc[main] = "lock"
    <3>1. StopLock(main)
      BY <2>1 DEF StopStep, StopChildren, StopMain, StopKillAll, StopVerify, Names,
                  Services
    <3>2. \A c \in Starters : ~Inside(c)
      BY <1>1, <3>1 DEF StopLock, CellInvariant, Basic, MutexDiscipline
    <3> QED  BY <1>2, <3>2 DEF Inside, NoStartAdmitted
  <2>2. CASE pc[main] # "lock"
    BY <1>2, <2>2 DEF Shutdown, NoStartAdmitted, Locked
  <2> QED  BY <2>1, <2>2
<1>6. NothingRuns'
  <2>1. ASSUME NEW pt, Goto(main, pt)
        PROVE  pc'[main] = pt
    BY <1>1, <2>1 DEF Goto
  <2>2. CASE StopVerify(main)
    <3>1. mu = main /\ pc[main] = "verify" /\ live' = live
      BY <1>1, <2>2 DEF StopVerify, CellInvariant, Basic, MutexDiscipline, Inside
    <3>2. Stubborn = {} /\ ~PsMayFail => live = {}
      BY <3>1, SweepEndsClean DEF Swept
    <3> QED  BY <3>1, <3>2 DEF NothingRuns
  <2>3. CASE ~StopVerify(main)
    <3>1. \A n \in Names : NextKill[n] # "idle"
      BY DEF NextKill, Names, Services
    <3>2. pc'[main] # "idle"
      BY <2>1, <2>3, <3>1 DEF StopStep, StopLock, StopChildren, StopMain, StopKillAll
    <3> QED  BY <3>2 DEF NothingRuns, Returned
  <2> QED  BY <2>2, <2>3
<1> QED  BY <1>4, <1>5, <1>6 DEF Shutdown

\* Shutdown is inductive relative to the invariant of the cell.
LEMMA ShutdownStep ==
  ASSUME CellInvariant, Swept, Shutdown, [ServerNext]_serverVars
  PROVE  Shutdown'
<1> USE MainAssumption DEF requestVars, allButControl, processVars
<1>1. /\ pc \in [Clients -> StartPoints \cup StopPoints \cup EditPoints
                               \cup ProbePoints]
      /\ main \in Clients /\ ControlTypeOK
      /\ main \notin Starters /\ main \notin Editors
  BY ClientsAssumption
     DEF CellInvariant, Basic, TypeOK, ControlTypeOK, Clients, Lifecycle
<1>2. CASE Serve \/ BootFails \/ Signal
  BY <1>2 DEF Serve, BootFails, Signal, Shutdown, RequestsCancelled, NoStartAdmitted,
              NothingRuns, Leaving, Locked, Returned
<1>3. CASE Drained
  <2>1. phase' = "stopping" /\ pc'[main] = "lock" /\ UNCHANGED cancelled
    BY <1>1, <1>3 DEF Drained, StopCall, Goto
  <2>2. \A c \in Starters : pc'[c] = pc[c] /\ (pc[c] = "idle" \/ c \in cancelled)
    BY <1>1, <1>3 DEF Drained, StopCall, Goto
  <2> QED
    BY <2>1, <2>2 DEF Shutdown, RequestsCancelled, NoStartAdmitted, NothingRuns,
                      Locked, Returned
<1>4. CASE Exit
  BY <1>4, ShutdownKept DEF Exit, vars, Leaving, Locked, Returned
<1>5. CASE Native /\ UNCHANGED phase
  <2>1. /\ UNCHANGED <<pc, phase, cancelled>>
        /\ live = {} => live' = {}
    BY <1>5 DEF Native, Crash, Fork, Named
  <2> QED  BY <2>1, ShutdownKept DEF Leaving, Locked, Returned
<1>6. CASE UNCHANGED serverVars
  BY <1>6, ShutdownKept DEF serverVars, vars, Leaving, Locked, Returned
<1>7. CASE Up /\ Request /\ UNCHANGED phase
  <2>1. CASE phase # "stopping"
    BY <1>7, <2>1 DEF Up, Shutdown, RequestsCancelled, NoStartAdmitted, NothingRuns,
                      Leaving, Locked, Returned
  <2>2. CASE phase = "stopping"
    <3>1. ASSUME NEW c \in Starters, StartStep(c)
          PROVE  Shutdown'
      BY <1>7, <2>2, <3>1, ShutdownStarter
    <3>2. CASE StopStep(main)
      BY <1>7, <2>2, <3>2, ShutdownMain
    <3>3. ASSUME NEW t \in Stoppers \ {main}, StopCall(t) \/ StopStep(t)
          PROVE  Shutdown'
      <4>1. \A c \in Starters : pc'[c] = pc[c]
        BY <1>1, <3>3, OtherEffect
      <4>2. live' \subseteq live /\ UNCHANGED cancelled
        BY <3>3, KillShrinks DEF StopCall, StopStep, StopLock, StopChildren, StopMain,
                                 StopKillAll, StopVerify
      <4>3. UNCHANGED pc \/ \E pt : Goto(t, pt)
        BY <3>3 DEF StopCall, StopStep, StopLock, StopChildren, StopMain,
                    StopKillAll, StopVerify, Unlock
      <4>4. pc'[main] = pc[main]
        BY <1>1, <4>3 DEF Goto
      <4> QED  BY <1>7, <4>1, <4>2, <4>4, ShutdownKept DEF Leaving, Locked, Returned
    <3>4. ASSUME NEW e \in Editors, EditStep(e)
          PROVE  Shutdown'
      <4>1. \A c \in Starters : pc'[c] = pc[c]
        BY <1>1, <3>4, OtherEffect
      <4>2. UNCHANGED <<live, cancelled>>
        BY <3>4 DEF EditStep, EditLock, UpdateConfig, PutNetwork
      <4>3. \E pt : Goto(e, pt)
        BY <3>4 DEF EditStep, EditLock, UpdateConfig, PutNetwork, Unlock
      <4>4. pc'[main] = pc[main]
        BY <1>1, <4>3 DEF Goto
      <4> QED  BY <1>7, <4>1, <4>2, <4>4, ShutdownKept DEF Leaving, Locked, Returned
    <3>5. CASE \/ \E c \in Starters : Cancel(c)
               \/ \E i \in Instances : Reap(i) \/ Announce(i)
               \/ LoseBoundary
      <4>1. UNCHANGED <<pc, live>> /\ cancelled \subseteq cancelled'
        BY <3>5 DEF Cancel, Reap, Announce, LoseBoundary
      <4> QED  BY <1>7, <4>1, ShutdownKept DEF Leaving, Locked, Returned
    <3> QED
      BY <1>7, <2>2, <3>1, <3>2, <3>3, <3>4, <3>5 DEF Request
  <2> QED  BY <2>1, <2>2
<1> QED
  BY <1>2, <1>3, <1>4, <1>5, <1>6, <1>7 DEF ServerNext

\* Shutdown always holds.
LEMMA ShutdownHolds == ServerSpec => []Shutdown
<1>1. ServerInit => Shutdown
  BY DEF ServerInit, Shutdown, RequestsCancelled, NoStartAdmitted, NothingRuns,
         Leaving, Locked, Returned
<1>2. CellInvariant /\ Swept /\ Shutdown /\ [ServerNext]_serverVars => Shutdown'
  BY ShutdownStep
<1>3. ServerSpec => [](CellInvariant /\ Swept)
  BY ServerIsCell, CellInvariantHolds, SweptHolds, PTL
<1> QED  BY <1>1, <1>2, <1>3, PTL DEF ServerSpec

\* The deferred Stop of run: where KILL and `ps' work, no process of the cell
\* runs once the server has gone, whatever Start was doing when the signal
\* came and whether or not Shutdown waited for it.
THEOREM ExitLeavesNoCellHolds == ServerSpec => []ExitLeavesNoCell
<1>1. Shutdown => ExitLeavesNoCell
  BY DEF Shutdown, NothingRuns, Returned, ExitLeavesNoCell
<1> QED  BY <1>1, ShutdownHolds, PTL

\* Manager.mu and the cancelled contexts: the process never ends in the middle
\* of an accepted Start, even if processes cannot be killed or listed.
THEOREM ExitCutsNoStartHolds == ServerSpec => []ExitCutsNoStart
<1>1. Shutdown => ExitCutsNoStart
  BY DEF Shutdown, NoStartAdmitted, Locked, ExitCutsNoStart
<1> QED  BY <1>1, ShutdownHolds, PTL

-----------------------------------------------------------------------------
(* Status probes.  A probe takes Manager.mu as the calls do, so that the    *)
(* invariants of Cell hold beside it, and the handles it reads while it has *)
(* the mutex correct whatever its sample missed.                            *)

\* IsRunning's TryLock and deferred Unlock.
ProbeLocks == \A q \in Probes : pc[q] = "locked" => mu = q

\* Handles are kept of the children that Start executed, never of a
\* transceiver, which OpenBTS forks.
OwnKinds ==
    \A i \in owned \cup ownedChildren : i.call # 0 /\ i.name # "transceiver"

ReportsOk ==
    report \in [Probes -> [state : {"none", "transitioning", "running", "stopped",
                                   "degraded"}, calm : BOOLEAN]]

StatusInv == CellInvariant /\ ProbeLocks /\ OwnKinds /\ ReportsOk

\* Steps that launch nothing hand handles on or forget them.
LEMMA OwnKindsKept ==
  ASSUME OwnKinds, owned' \cup ownedChildren' \subseteq owned \cup ownedChildren
  PROVE  OwnKinds'
  BY DEF OwnKinds

\* A step of the lifecycle gives handles only to what it launches.
LEMMA OwnKindsStep ==
  ASSUME Basic, OwnKinds, [Next]_vars
  PROVE  OwnKinds'
<1> USE DEF requestVars, allButControl, processVars, managerVars
<1>1. ASSUME NEW c \in Starters, StartStep(c)
      PROVE  OwnKinds'
  <2>1. ControlTypeOK  BY DEF Basic, TypeOK
  <2>2. call[c] # 0
    BY <1>1, <2>1, StarterEffect DEF Basic, Requests, PendingCalls
  <2>3. ASSUME NEW n, n # "transceiver", Launch(call[c], n), UNCHANGED ownedChildren
        PROVE  OwnKinds'
    BY <2>2, <2>3 DEF Launch, OwnKinds
  <2>4. CASE StartService(c)
    <3>1. pc[c] # "transceiver" /\ UNCHANGED ownedChildren
      BY <2>4 DEF StartService, Services
    <3>2. Launch(call[c], pc[c]) \/ UNCHANGED owned
      BY <2>4 DEF StartService
    <3> QED  BY <2>3, <3>1, <3>2, OwnKindsKept
  <2>5. CASE StartOpenBTS(c)
    <3>1. UNCHANGED ownedChildren /\ (Launch(call[c], "OpenBTS") \/ UNCHANGED owned)
      BY <2>5 DEF StartOpenBTS
    <3> QED  BY <2>3, <3>1, OwnKindsKept
  <2>6. CASE StartCommit(c)
    BY <2>6, OwnKindsKept DEF StartCommit
  <2>7. CASE StartUndo(c)
    <3>1. owned' \subseteq owned /\ UNCHANGED ownedChildren
      BY <2>7 DEF StartUndo
    <3> QED  BY <3>1, OwnKindsKept
  <2>8. CASE ~(StartService(c) \/ StartOpenBTS(c) \/ StartCommit(c) \/ StartUndo(c))
    <3>1. UNCHANGED <<owned, ownedChildren>>
      BY <1>1, <2>8
         DEF StartStep, StartLock, StartAdmit, StartPrepare, StartConfig,
             StartSession, StartSettle, StartReady, StartTmsis, StartSaveFails,
             StartFailed
    <3> QED  BY <3>1, OwnKindsKept
  <2> QED  BY <2>4, <2>5, <2>6, <2>7, <2>8
<1>2. ASSUME NEW t \in Stoppers, StopCall(t) \/ StopStep(t)
      PROVE  OwnKinds'
  <2>1. UNCHANGED owned /\ ownedChildren' \subseteq ownedChildren
    BY <1>2 DEF StopCall, StopStep, StopLock, StopChildren, StopMain, StopKillAll,
                StopVerify
  <2> QED  BY <2>1, OwnKindsKept
<1>3. CASE \/ \E c \in Starters : (\E p \in Params : StartCall(c, p)) \/ Cancel(c)
           \/ \E e \in Editors : EditStep(e)
           \/ \E i \in Instances : Crash(i) \/ Reap(i) \/ Fork(i) \/ Announce(i)
           \/ LoseBoundary
           \/ UNCHANGED vars
  <2>1. UNCHANGED <<owned, ownedChildren>>
    BY <1>3 DEF StartCall, Cancel, EditStep, EditLock, UpdateConfig, PutNetwork,
                Crash, Reap, Fork, Announce, LoseBoundary, vars
  <2> QED  BY <2>1, OwnKindsKept
<1> QED  BY <1>1, <1>2, <1>3 DEF Next

\* What a step of the lifecycle does to the mutex and to the probes.
LEMMA MutexMoves ==
  ASSUME Basic, [Next]_vars
  PROVE  /\ \A q \in Probes : pc'[q] = pc[q]
         /\ mu' # mu => mu \notin Probes
<1> USE DEF requestVars, allButControl
<1>1. pc \in [Clients -> StartPoints \cup StopPoints \cup EditPoints \cup ProbePoints]
  BY DEF Basic, TypeOK, ControlTypeOK
<1>2. /\ Nobody \notin Probes /\ Starters \cap Probes = {}
      /\ Stoppers \cap Probes = {} /\ Editors \cap Probes = {}
      /\ Starters \cup Stoppers \cup Editors \subseteq Clients \ Probes
  BY ClientsAssumption DEF Clients, Lifecycle
<1>3. ASSUME NEW c \in Clients \ Probes, NEW pt, UNCHANGED pc \/ Goto(c, pt)
      PROVE  \A q \in Probes : pc'[q] = pc[q]
  BY <1>1, <1>3 DEF Goto, Clients
<1>4. ASSUME NEW c \in Clients \ Probes, Unlock(c), Inside(c)
      PROVE  (\A q \in Probes : pc'[q] = pc[q]) /\ mu \notin Probes
  <2>1. mu = c  BY <1>4 DEF Basic, MutexDiscipline
  <2> QED  BY <1>3, <1>4, <2>1 DEF Unlock
<1>5. ASSUME NEW c \in Starters, StartStep(c)
      PROVE  (\A q \in Probes : pc'[q] = pc[q]) /\ (mu' # mu => mu \notin Probes)
  <2> USE DEF Fail
  <2>1. CASE StartLock(c)
    BY <1>2, <1>3, <2>1 DEF StartLock
  <2>2. CASE StartAdmit(c)
    <3>1. Inside(c)  BY <2>2 DEF StartAdmit, Inside
    <3>2. Unlock(c) \/ (Goto(c, "prepare") /\ UNCHANGED mu)
      BY <2>2 DEF StartAdmit, Refuse, Return
    <3> QED  BY <1>2, <1>3, <1>4, <3>1, <3>2
  <2>3. CASE StartCommit(c) \/ StartFailed(c)
    <3>1. Inside(c) /\ Unlock(c)
      BY <2>3 DEF StartCommit, StartFailed, Return, Inside
    <3> QED  BY <1>2, <1>4, <3>1
  <2>4. CASE ~(StartLock(c) \/ StartAdmit(c) \/ StartCommit(c) \/ StartFailed(c))
    <3> USE <1>2, <1>3
    <3>1. CASE StartPrepare(c) \/ StartConfig(c)
      BY <3>1 DEF StartPrepare, StartConfig
    <3>2. CASE StartSession(c) \/ StartService(c)
      BY <3>2 DEF StartSession, StartService
    <3>3. CASE StartSettle(c) \/ StartTmsis(c)
      BY <3>3 DEF StartSettle, StartTmsis, Check
    <3>4. CASE StartOpenBTS(c) \/ StartReady(c)
      BY <3>4 DEF StartOpenBTS, StartReady
    <3>5. CASE StartSaveFails(c) \/ StartUndo(c)
      BY <3>5 DEF StartSaveFails, StartUndo
    <3> QED  BY <1>5, <2>4, <3>1, <3>2, <3>3, <3>4, <3>5 DEF StartStep
  <2> QED  BY <2>1, <2>2, <2>3, <2>4
<1>6. ASSUME NEW t \in Stoppers, StopCall(t) \/ StopStep(t)
      PROVE  (\A q \in Probes : pc'[q] = pc[q]) /\ (mu' # mu => mu \notin Probes)
  <2>1. CASE StopVerify(t)
    <3>1. Inside(t) /\ Unlock(t)  BY <2>1 DEF StopVerify, Inside
    <3> QED  BY <1>2, <1>4, <3>1
  <2>2. CASE StopLock(t)
    BY <1>2, <1>3, <2>2 DEF StopLock
  <2>3. CASE StopCall(t) \/ StopMain(t) \/ StopKillAll(t)
    BY <1>2, <1>3, <2>3 DEF StopCall, StopMain, StopKillAll
  <2>4. CASE StopChildren(t)
    BY <1>2, <1>3, <2>4 DEF StopChildren
  <2> QED  BY <1>6, <2>1, <2>2, <2>3, <2>4 DEF StopStep
<1>7. ASSUME NEW e \in Editors, EditStep(e)
      PROVE  (\A q \in Probes : pc'[q] = pc[q]) /\ (mu' # mu => mu \notin Probes)
  <2>1. CASE EditLock(e)
    BY <1>2, <1>3, <2>1 DEF EditLock
  <2>2. CASE UpdateConfig(e) \/ PutNetwork(e)
    <3>1. Inside(e) /\ Unlock(e)  BY <2>2 DEF UpdateConfig, PutNetwork, Inside
    <3> QED  BY <1>2, <1>4, <3>1
  <2> QED  BY <1>7, <2>1, <2>2 DEF EditStep
<1>8. ASSUME NEW c \in Starters, NEW p \in Params, StartCall(c, p)
      PROVE  (\A q \in Probes : pc'[q] = pc[q]) /\ UNCHANGED mu
  BY <1>2, <1>3, <1>8 DEF StartCall
<1>9. CASE \/ \E c \in Starters : Cancel(c)
           \/ \E i \in Instances : Crash(i) \/ Reap(i) \/ Fork(i) \/ Announce(i)
           \/ LoseBoundary
           \/ UNCHANGED vars
  BY <1>9 DEF Cancel, Crash, Reap, Fork, Announce, LoseBoundary, vars
<1> QED  BY <1>5, <1>6, <1>7, <1>8, <1>9 DEF Next

\* Where a probe goes, and what it does to the mutex.
LEMMA ProbeMoves ==
  ASSUME NEW q \in Probes, Basic, ProbeLocks, ProbeCall(q) \/ ProbeStep(q)
  PROVE  /\ UNCHANGED allButControl
         /\ \E pt \in ProbePoints : Goto(q, pt) /\ (pt = "locked" => mu' = q)
         /\ \/ UNCHANGED mu
            \/ mu = Nobody /\ mu' = q
            \/ mu = q /\ mu' = Nobody
<1>1. CASE ProbeCall(q)
  BY <1>1 DEF ProbeCall, ProbePoints, Names
<1>2. CASE ProbeSample(q)
  <2>1. NextSample[pc[q]] \in ProbePoints /\ NextSample[pc[q]] # "locked"
    BY <1>2 DEF ProbeSample, Names, Services, NextSample, ProbePoints
  <2> QED  BY <1>2, <2>1 DEF ProbeSample
<1>3. CASE ProbeTryLock(q)
  <2>1. CASE mu = Nobody /\ mu' = q /\ Goto(q, "locked")
    BY <1>3, <2>1 DEF ProbeTryLock, ProbePoints
  <2>2. CASE Goto(q, "idle") /\ UNCHANGED mu
    BY <1>3, <2>2 DEF ProbeTryLock, ProbePoints
  <2> QED  BY <1>3, <2>1, <2>2 DEF ProbeTryLock
<1>4. CASE ProbeReport(q)
  BY <1>4 DEF ProbeReport, Unlock, ProbePoints, ProbeLocks
<1> QED  BY <1>1, <1>2, <1>3, <1>4 DEF ProbeStep

\* Only the answers of the probe itself change.
LEMMA ProbeReports ==
  ASSUME NEW q \in Probes, ReportsOk, ProbeCall(q) \/ ProbeStep(q)
  PROVE  ReportsOk'
<1>1. ASSUME NEW up, NEW trans \in BOOLEAN, Report(q, up, trans) PROVE ReportsOk'
  <2>1. Classify(up, trans) \in {"transitioning", "running", "stopped", "degraded"}
    BY DEF Classify
  <2>2. Calm(q) \in BOOLEAN  BY DEF Calm
  <2> QED  BY <1>1, <2>1, <2>2 DEF Report, ReportsOk
<1>2. CASE ProbeCall(q)
  BY <1>2 DEF ProbeCall, ReportsOk, NoReport
<1>3. CASE ProbeSample(q)
  BY <1>3 DEF ProbeSample, ReportsOk
<1>4. CASE ProbeTryLock(q)
  <2>1. UNCHANGED report \/ Report(q, seen[q], TRUE)
    BY <1>4 DEF ProbeTryLock
  <2> QED  BY <1>1, <2>1 DEF ReportsOk
<1>5. CASE ProbeReport(q)
  BY <1>1, <1>5 DEF ProbeReport
<1> QED  BY <1>2, <1>3, <1>4, <1>5 DEF ProbeStep

\* A probe disturbs none of the invariants of Cell.
LEMMA ProbeKeeps ==
  ASSUME NEW q \in Probes, StatusInv, ProbeCall(q) \/ ProbeStep(q)
  PROVE  StatusInv'
<1>1. Basic /\ Handles /\ Facts /\ ProbeLocks /\ OwnKinds /\ ReportsOk
  BY DEF StatusInv, CellInvariant
<1>2. /\ UNCHANGED allButControl
      /\ \E pt \in ProbePoints : Goto(q, pt) /\ (pt = "locked" => mu' = q)
      /\ \/ UNCHANGED mu
         \/ mu = Nobody /\ mu' = q
         \/ mu = q /\ mu' = Nobody
  BY <1>1, ProbeMoves
<1>3. PICK pt \in ProbePoints : Goto(q, pt) /\ (pt = "locked" => mu' = q)
  BY <1>2
<1>4. /\ q \in Clients /\ q \notin Starters /\ q \notin Stoppers /\ q \notin Editors
      /\ Nobody \notin Clients
      /\ Starters \subseteq Clients /\ Stoppers \subseteq Clients
  BY ClientsAssumption DEF Clients, Lifecycle
<1>5. /\ pc \in [Clients -> StartPoints \cup StopPoints \cup EditPoints \cup ProbePoints]
      /\ \A c \in Clients : pc[c] \in Points(c)
      /\ mu \in Clients \cup {Nobody}
  BY <1>1 DEF Basic, TypeOK, ControlTypeOK
<1>6. pc'[q] = pt /\ \A c \in Clients \ {q} : pc'[c] = pc[c]
  BY <1>3, <1>4, <1>5 DEF Goto
<1>7. ControlTypeOK'
  <2>1. pc' \in [Clients -> StartPoints \cup StopPoints \cup EditPoints \cup ProbePoints]
    BY <1>3, <1>5 DEF Goto
  <2>2. \A c \in Clients : pc'[c] \in Points(c)
    BY <1>4, <1>5, <1>6 DEF Points
  <2>3. mu' \in Clients \cup {Nobody}  BY <1>2, <1>4, <1>5
  <2> QED  BY <2>1, <2>2, <2>3 DEF ControlTypeOK, Points
<1>8. MutexDiscipline'
  <2>1. ASSUME NEW c \in Clients \ Probes PROVE mu' = c <=> Inside(c)'
    <3>1. pc'[c] = pc[c] /\ (mu = c <=> Inside(c))
      BY <1>1, <1>6 DEF Basic, MutexDiscipline
    <3>2. mu' = c <=> mu = c  BY <1>2, <1>4
    <3> QED  BY <3>1, <3>2 DEF Inside
  <2> QED  BY <2>1 DEF MutexDiscipline
<1>9. Requests'
  <2>1. \A c \in Starters : pc'[c] = pc[c]  BY <1>4, <1>6
  <2>2. UNCHANGED <<call, arg, calls, outcome>>  BY <1>2 DEF allButControl, requestVars
  <2> QED  BY <1>1, <2>1, <2>2 DEF Basic, Requests, ActiveHasParams, PendingCalls
<1>10. Basic'
  BY <1>1, <1>2, <1>7, <1>8, <1>9, SameTypes DEF Basic, TypeOK, allButControl
<1>11. Handles'
  BY <1>1, <1>2, HandlesKept
     DEF allButControl, processVars, managerVars, requestVars
<1>12. Facts'
  <2>1. UNCHANGED <<live, conf, openbts, lastStart, sms, db, rules, profile, call, arg>>
    BY <1>2 DEF allButControl, processVars, managerVars, worldVars, requestVars
  <2>2. CASE UNCHANGED mu
    <3>1. /\ mu \in Starters => pc'[mu] = pc[mu]
          /\ mu \in Stoppers => pc'[mu] = pc[mu]
      BY <1>4, <1>6
    <3> QED  BY <1>1, <2>1, <2>2, <3>1, FactsSame
  <2>3. CASE mu \in {Nobody, q} /\ mu' \in {Nobody, q}
    <3>1. mu \notin Starters /\ mu' \notin Starters /\ mu' \notin Stoppers
      BY <1>4, <2>3
    <3>2. sms.state # "starting"
      BY <1>1, <3>1 DEF Facts, StartingHeld
    <3> QED  BY <1>1, <2>1, <3>1, <3>2, FactsHandover
  <2> QED  BY <1>2, <2>2, <2>3
<1>13. ProbeLocks'
  <2>1. ASSUME NEW r \in Probes, pc'[r] = "locked" PROVE mu' = r
    <3>1. CASE r = q  BY <1>3, <1>6, <2>1, <3>1
    <3>2. CASE r # q
      <4>1. r \in Clients /\ pc[r] = "locked"
        BY <1>6, <2>1, <3>2 DEF Clients
      <4>2. mu = r  BY <1>1, <4>1 DEF ProbeLocks
      <4> QED  BY <1>2, <1>4, <3>2, <4>1, <4>2
    <3> QED  BY <3>1, <3>2
  <2> QED  BY <2>1 DEF ProbeLocks
<1>14. OwnKinds'
  BY <1>1, <1>2, OwnKindsKept DEF allButControl, managerVars
<1>15. ReportsOk'
  BY <1>1, ProbeReports
<1> QED  BY <1>10, <1>11, <1>12, <1>13, <1>14, <1>15 DEF StatusInv, CellInvariant

\* The invariant of Cell holds beside any number of probes.
LEMMA StatusInvHolds == StatusSpec => []StatusInv
<1>1. StatusInit => StatusInv
  <2>1. Init => ProbeLocks /\ OwnKinds
    BY DEF Init, ProbeLocks, OwnKinds, Clients
  <2>2. StatusInit => ReportsOk
    BY DEF StatusInit, ReportsOk, NoReport
  <2> QED  BY <2>1, <2>2, CellInvariantInit DEF StatusInit, StatusInv
<1>2. ASSUME StatusInv, [StatusNext]_statusVars PROVE StatusInv'
  <2>1. CASE [Next]_vars /\ UNCHANGED probeVars
    <3>1. CellInvariant'  BY <1>2, <2>1, CellInvariantStep DEF StatusInv
    <3>2. ProbeLocks'
      BY <1>2, <2>1, MutexMoves DEF StatusInv, CellInvariant, ProbeLocks
    <3>3. OwnKinds'
      BY <1>2, <2>1, OwnKindsStep DEF StatusInv, CellInvariant
    <3>4. ReportsOk'  BY <1>2, <2>1 DEF StatusInv, ReportsOk, probeVars
    <3> QED  BY <3>1, <3>2, <3>3, <3>4 DEF StatusInv
  <2>2. CASE \E q \in Probes : ProbeCall(q) \/ ProbeStep(q)
    BY <1>2, <2>2, ProbeKeeps
  <2> QED  BY <1>2, <2>1, <2>2 DEF StatusNext, statusVars
<1> QED  BY <1>1, <1>2, PTL DEF StatusSpec

\* IsRunning, for any number of probes, callers and crashes: an answer
\* "stopped" is never given while a committed process runs, although the sample
\* behind it is old and `ps' may have failed.
THEOREM StoppedReportIsCurrentHolds == StatusSpec => StoppedReportIsCurrent
<1>1. ASSUME StatusInv, StatusNext, NEW q \in Probes,
             report'[q] # report[q], report'[q].state = "stopped"
      PROVE  (ownedChildren \cup {openbts}) \cap live = {}
  <2>1. PICK r \in Probes : ProbeCall(r) \/ ProbeStep(r)
    BY <1>1 DEF StatusNext, probeVars
  <2>2. ReportsOk /\ Basic /\ Handles /\ OwnKinds
    BY <1>1 DEF StatusInv, CellInvariant
  <2>3. ASSUME NEW answer, report' = [report EXCEPT ![r] = answer]
        PROVE  answer.state = "stopped"
    BY <1>1, <2>2, <2>3 DEF ReportsOk
  <2>3a. ASSUME NEW up, NEW trans, Report(r, up, trans)
        PROVE  Classify(up, trans) = "stopped"
    <3> DEFINE answer == [state |-> Classify(up, trans), calm |-> Calm(r)]
    <3>1. report' = [report EXCEPT ![r] = answer]  BY <2>3a DEF Report
    <3> HIDE DEF answer
    <3>2. answer.state = "stopped"  BY <2>3, <3>1
    <3> QED  BY <3>2 DEF answer
  <2>4. Report(r, seen[r] \cup Held, FALSE)
    <3>1. ~ProbeCall(r)
      <4>1. ProbeCall(r) => NoReport.state = "stopped"  BY <2>3 DEF ProbeCall
      <4>2. NoReport.state # "stopped"  BY DEF NoReport
      <4> QED  BY <4>1, <4>2
    <3>2. ~ProbeSample(r)
      BY <1>1 DEF ProbeSample
    <3>3. ~ProbeTryLock(r)
      <4>1. ~Report(r, seen[r], TRUE)
        <5>1. Classify(seen[r], TRUE) # "stopped"  BY DEF Classify
        <5> QED  BY <2>3a, <5>1
      <4> QED  BY <1>1, <4>1 DEF ProbeTryLock
    <3> QED  BY <2>1, <3>1, <3>2, <3>3 DEF ProbeStep, ProbeReport
  <2>5. Classify(seen[r] \cup Held, FALSE) = "stopped"
    BY <2>3a, <2>4
  <2>6. Held = {}
    BY <2>5 DEF Classify
  <2>7. \A i \in ownedChildren \cup {openbts} : i \notin open
    BY <2>6 DEF Held, Alive
  <2>8. ASSUME NEW i \in (ownedChildren \cup {openbts}) \cap live PROVE FALSE
    <3>1. i # NoInstance
      BY <2>2, <2>8, AbsentAssumption DEF Basic, TypeOK, ProcessTypeOK
    <3>2. i.call # 0 /\ i.name # "transceiver"
      BY <2>2, <2>8, <3>1 DEF Handles, MainHandle, OwnKinds
    <3>3. i \in open
      BY <2>2, <2>8, <3>2 DEF Handles, HandleIsOpen
    <3> QED  BY <2>7, <2>8, <3>3
  <2> QED  BY <2>8
<1>2. StatusInv /\ [StatusNext]_statusVars =>
        [\A q \in Probes : report'[q] # report[q] /\ report'[q].state = "stopped"
            => (ownedChildren \cup {openbts}) \cap live = {}]_statusVars
  BY <1>1
<1> QED  BY <1>2, StatusInvHolds, PTL DEF StatusSpec, StoppedReportIsCurrent

\* A probe that holds the mutex lets no lifecycle call break what a running
\* cell relies on.
THEOREM ProbesSpareTheCell == StatusSpec => [](RunningCellConfig /\ RunningCellSession)
<1>1. StatusInv => RunningCellConfig /\ RunningCellSession
  BY DEF StatusInv, CellInvariant, Facts
<1> QED  BY <1>1, StatusInvHolds, PTL
=============================================================================
