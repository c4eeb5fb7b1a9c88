-------------------------------- MODULE Cell --------------------------------
(***************************************************************************)
(* The cell lifecycle of gsm.Manager (src/internal/gsm/manager.go): Start, *)
(* Stop, UpdateConfig, GetAllConfig and WithStoppedCell, called by         *)
(* concurrent HTTP handlers and serialised by the mutex Manager.mu, over   *)
(* five native processes that may exit at any moment.                      *)
(*                                                                         *)
(* A process is an instance: the number of the Start call that launched it *)
(* and its name; call 0 stands for processes the manager did not launch.   *)
(* Start parameters are a radio configuration (the eight keys written to   *)
(* OpenBTS.db) and an interface.  Time is abstract: a bounded wait may end *)
(* at any step after its event or with its timeout.  The TMSI table, the   *)
(* pid file and the logs are not state here, and requests that validation  *)
(* rejects before the lock change nothing.                                 *)
(***************************************************************************)
EXTENDS Naturals, FiniteSets

CONSTANTS
    Starters,     \* callers of Manager.Start
    Stoppers,     \* callers of Manager.Stop
    Editors,      \* callers of UpdateConfig, GetAllConfig and WithStoppedCell
    Probes,       \* callers of IsRunning, see CellStatus
    Nobody,       \* the holder of a free mutex
    Radios, Ifaces,                   \* radio configurations, interfaces
    NoRadio, NoInstance, NoProfile,   \* absent values
    Foreign,      \* names of the processes that may run before the manager
    Stubborn,     \* names of the processes that may outlive a bounded KILL
    PsMayFail,    \* whether `ps' may fail or time out
    MaxCalls,     \* bound on the number of Start calls
    MaxCrashes    \* bound on the number of spontaneous process exits

Services == {"sipauthserve", "smqueue", "asterisk"}
Names == Services \cup {"OpenBTS", "transceiver"}
Lifecycle == Starters \cup Stoppers
Clients == Lifecycle \cup Editors \cup Probes
Params == [radio: Radios, iface: Ifaces]
Calls == 0 .. MaxCalls
Instances == [call: Calls, name: Names]

ASSUME ClientsAssumption ==
    /\ Nobody \notin Clients
    /\ Starters \cap (Stoppers \cup Editors \cup Probes) = {}
    /\ Stoppers \cap (Editors \cup Probes) = {}
    /\ Editors \cap Probes = {}

ASSUME BoundsAssumption ==
    /\ MaxCalls \in Nat /\ MaxCrashes \in Nat
    /\ PsMayFail \in BOOLEAN
    /\ Foreign \subseteq Names /\ Stubborn \subseteq Names

ASSUME AbsentAssumption ==
    /\ NoRadio \notin Radios
    /\ NoInstance \notin Instances
    /\ NoProfile \notin Params

VARIABLES
    pc,            \* the control point of each client
    mu,            \* the client that holds Manager.mu
    call, arg,     \* number and parameters of each starter's latest call
    cancelled,     \* starters whose request context is done
    calls,         \* Start calls made so far
    outcome,       \* how each Start call ended
    stopResult,    \* how each stopper's latest call ended
    live,          \* instances the kernel runs
    open,          \* managed instances whose done channel is still open
    ready,         \* calls whose OpenBTS has printed the readiness marker
    conf,          \* the configuration the OpenBTS of a call read at launch
    crashes,       \* spontaneous exits so far
    openbts, ownedChildren, startedAt, lastStart,   \* fields of Manager
    sms,           \* smsSession: its Start call, its state, whether it ended
    owned,         \* children launched by the Start call that holds mu
    db, rules, profile    \* OpenBTS.db, the NAT table, last_start.json

requestVars == <<call, arg, cancelled, calls, outcome, stopResult>>
processVars == <<live, open, ready, conf, crashes>>
managerVars == <<openbts, ownedChildren, startedAt, lastStart>>
worldVars   == <<db, rules, profile>>
allButControl == <<requestVars, processVars, managerVars, sms, owned, worldVars>>
vars == <<pc, mu, allButControl>>

-----------------------------------------------------------------------------
(* Control points.  Where it is a process name, the control point is the    *)
(* service a starter launches next or the name a stopper kills next.        *)

StartPoints == {"idle", "lock", "admit", "prepare", "config", "session",
                "settle", "openbts", "ready", "tmsis", "profile", "rollback"}
                  \cup Services
StopPoints  == {"idle", "lock", "children", "main", "verify"} \cup Names
EditPoints  == {"idle", "edit"}
ProbePoints == {"idle", "trylock", "locked"} \cup Names

NextLaunch ==
    [sipauthserve |-> "smqueue", smqueue |-> "asterisk", asterisk |-> "settle"]
\* Mutant of NextKill: the transceiver is killed before its parent.
KillTransceiverFirst ==
    [smqueue |-> "asterisk", asterisk |-> "sipauthserve",
     sipauthserve |-> "transceiver", transceiver |-> "OpenBTS",
     OpenBTS |-> "verify"]
NextKill ==
    [smqueue |-> "asterisk", asterisk |-> "sipauthserve",
     sipauthserve |-> "OpenBTS", OpenBTS |-> "transceiver",
     transceiver |-> "verify"]

NoSession == [call |-> 0, state |-> "none", ended |-> FALSE]
Sessions ==
    [call: Calls, ended: BOOLEAN,
     state: {"none", "starting", "running", "stopped", "boundary_lost"}]

Goto(c, point) == pc' = [pc EXCEPT ![c] = point]
Unlock(c) == mu' = Nobody /\ Goto(c, "idle")

\* Start returns: its deferred Unlock and the handler's deferred cancel run.
Return(c, how) ==
    /\ Unlock(c)
    /\ outcome' = [outcome EXCEPT ![call[c]] = how]
    /\ arg' = [arg EXCEPT ![c] = NoProfile]
    /\ cancelled' = cancelled \ {c}

-----------------------------------------------------------------------------
(* Processes and handles.                                                   *)

Named(n) == {i \in live : i.name = n}

\* managedProcess.alive: the done channel is open, which lags the exit.
Alive(i) == i \in open

\* What `ps', asked for names one after the other, may show: a failed `ps'
\* reads as "not running".
Listed(names) ==
    {\E i \in live : i.name \in names} \cup (IF PsMayFail THEN {FALSE} ELSE {})

\* What sysop.Running may answer.
Running(n) == Listed({n})

\* Mutant of CellRunning: the transceiver is not looked at.
RunningWithoutTransceiver == {Alive(openbts) \/ up : up \in Running("OpenBTS")}

\* What cellRunningLocked may answer.
CellRunning ==
    {Alive(openbts) \/ up : up \in Listed({"OpenBTS", "transceiver"})}

\* What anyServiceRunningLocked may answer.
AnyServiceRunning ==
    LET held == \E i \in ownedChildren \cup {openbts} : Alive(i)
    IN  {held \/ up : up \in Listed(Names)}

\* Mutant of Group: the process is signalled instead of its group.
OnlyProcess(i) == {j \in live : j = i}

\* The process group of a handle: OpenBTS forks its transceiver into its own.
Group(i) ==
    {j \in live : /\ j.call = i.call
                  /\ j = i \/ (i.name = "OpenBTS" /\ j.name = "transceiver")}

\* What may be left alive when every instance of S got TERM, then KILL.
Kill(S) ==
    {live \ (S \ kept) : kept \in SUBSET {i \in S : i.name \in Stubborn}}

\* Start appends to owned in this order; stopManagedReverse undoes the last.
LaunchRank ==
    [sipauthserve |-> 1, smqueue |-> 2, asterisk |-> 3, OpenBTS |-> 4,
     transceiver |-> 5]
IsLast(i, S) == \A j \in S : LaunchRank[j.name] <= LaunchRank[i.name]

-----------------------------------------------------------------------------
(* The environment: requests, cancellations and the native processes.       *)

\* A handler calls Start with validated parameters.
StartCall(c, p) ==
    /\ pc[c] = "idle"
    /\ calls < MaxCalls
    /\ calls' = calls + 1
    /\ call' = [call EXCEPT ![c] = calls + 1]
    /\ arg' = [arg EXCEPT ![c] = p]
    /\ outcome' = [outcome EXCEPT ![calls + 1] = "pending"]
    /\ Goto(c, "lock")
    /\ UNCHANGED <<mu, cancelled, stopResult, processVars, managerVars, sms,
                   owned, worldVars>>

\* The client disconnects, the 90 second limit passes or the server stops.
Cancel(c) ==
    /\ pc[c] # "idle"
    /\ c \notin cancelled
    /\ cancelled' = cancelled \cup {c}
    /\ UNCHANGED <<pc, mu, call, arg, calls, outcome, stopResult, processVars,
                   managerVars, sms, owned, worldVars>>

StopCall(t) ==
    /\ pc[t] = "idle"
    /\ stopResult' = [stopResult EXCEPT ![t] = "none"]
    /\ Goto(t, "lock")
    /\ UNCHANGED <<mu, call, arg, cancelled, calls, outcome, processVars,
                   managerVars, sms, owned, worldVars>>

\* Any process may exit by itself.
Crash(i) ==
    /\ i \in live
    /\ crashes < MaxCrashes
    /\ crashes' = crashes + 1
    /\ live' = live \ {i}
    /\ UNCHANGED <<pc, mu, requestVars, open, ready, conf, managerVars, sms,
                   owned, worldVars>>

\* watchProcess: Wait has returned, the done channel is closed.
Reap(i) ==
    /\ i \in open \ live
    /\ open' = open \ {i}
    /\ UNCHANGED <<pc, mu, requestVars, live, ready, conf, crashes,
                   managerVars, sms, owned, worldVars>>

\* OpenBTS runs ./transceiver in its own process group.
Fork(i) ==
    LET child == [call |-> i.call, name |-> "transceiver"]
    IN  /\ i \in Named("OpenBTS")
        /\ child \notin live
        /\ live' = live \cup {child}
        /\ UNCHANGED <<pc, mu, requestVars, open, ready, conf, crashes,
                       managerVars, sms, owned, worldVars>>

\* processLog.Write: this child's own output holds the readiness marker; it is
\* copied from the pipe until Wait returns, which may be after the exit.
Announce(i) ==
    /\ i \in open /\ i.name = "OpenBTS"
    /\ i.call \notin ready
    /\ ready' = ready \cup {i.call}
    /\ UNCHANGED <<pc, mu, requestVars, live, open, conf, crashes,
                   managerVars, sms, owned, worldVars>>

\* ReadCurrentSMS finds that the log no longer holds the launch boundary.
LoseBoundary ==
    /\ sms.state \in {"starting", "running", "stopped"}
    /\ sms' = [sms EXCEPT !.state = "boundary_lost"]
    /\ UNCHANGED <<pc, mu, requestVars, processVars, managerVars, owned,
                   worldVars>>

-----------------------------------------------------------------------------
(* Start.                                                                   *)

StartLock(c) ==
    /\ pc[c] = "lock"
    /\ mu = Nobody
    /\ mu' = c
    /\ Goto(c, "admit")
    /\ UNCHANGED allButControl

\* Mutant of Refuse: the early return forgets the mutex.
RefuseLocked(c) ==
    /\ Goto(c, "idle")
    /\ outcome' = [outcome EXCEPT ![call[c]] = "refused"]
    /\ UNCHANGED <<mu, arg, cancelled, sms>>

\* Return before the attempt is accepted: only the lock is undone.
Refuse(c) == Return(c, "refused") /\ UNCHANGED sms

\* Mutant of StartAdmit: the session is cleared before the running check.
ClearThenAdmit(c) ==
    /\ pc[c] = "admit"
    /\ sms' = NoSession
    /\ \/ TRUE \in CellRunning /\ Return(c, "refused")
       \/ /\ FALSE \in CellRunning
          /\ Goto(c, "prepare")
          /\ UNCHANGED <<mu, arg, cancelled, outcome>>
    /\ UNCHANGED <<call, calls, stopResult, processVars, managerVars, owned,
                   worldVars>>

\* The context and the running cell refuse the call; else the previous
\* launch's session is dropped and the attempt accepted.
StartAdmit(c) ==
    /\ pc[c] = "admit"
    /\ \/ c \in cancelled /\ Refuse(c)
       \/ c \notin cancelled /\ TRUE \in CellRunning /\ Refuse(c)
       \/ /\ c \notin cancelled /\ FALSE \in CellRunning
          /\ sms' = NoSession
          /\ Goto(c, "prepare")
          /\ UNCHANGED <<mu, arg, cancelled, outcome>>
    /\ UNCHANGED <<call, calls, stopResult, processVars, managerVars, owned,
                   worldVars>>

\* An error after the attempt was accepted: the deferred functions run.
Fail(c) == Goto(c, "rollback")

\* networkrule.Ensure: Present, then the insertion of a rule that is missing;
\* an error may follow the insertion.
Ensure(f) == rules' = rules \cup {f}
TryEnsure(f) == UNCHANGED rules \/ Ensure(f)

\* checkIface, EnsureDirs, DetectUSRP, then networkrule.Ensure under the
\* request context; each may fail.
StartPrepare(c) ==
    /\ pc[c] = "prepare"
    /\ \/ c \notin cancelled /\ Ensure(arg[c].iface) /\ Goto(c, "config")
       \/ TryEnsure(arg[c].iface) /\ Fail(c)
    /\ UNCHANGED <<mu, requestVars, processVars, managerVars, sms, owned, db,
                   profile>>

\* applyConfigLocked: one transaction, whose commit may outrun a reported
\* timeout; then the context is checked again.
StartConfig(c) ==
    /\ pc[c] = "config"
    /\ \/ c \notin cancelled /\ db' = arg[c].radio /\ Goto(c, "session")
       \/ db' \in {db, arg[c].radio} /\ Fail(c)
    /\ UNCHANGED <<mu, requestVars, processVars, managerVars, sms, owned,
                   rules, profile>>

\* beginSMSSession.
StartSession(c) ==
    /\ pc[c] = "session"
    /\ \/ /\ sms' = [call |-> call[c], state |-> "starting", ended |-> FALSE]
          /\ Goto(c, "sipauthserve")
       \/ Fail(c) /\ UNCHANGED sms
    /\ UNCHANGED <<mu, requestVars, processVars, managerVars, owned, worldVars>>

\* The child n of call k is running and this attempt owns it.
Launch(k, n) ==
    LET child == [call |-> k, name |-> n]
    IN  /\ live' = live \cup {child}
        /\ open' = open \cup {child}
        /\ owned' = owned \cup {child}

\* Mutant of StartService: a service that already runs is adopted.
AdoptService(c) ==
    /\ pc[c] \in Services
    /\ \/ /\ TRUE \in Running(pc[c])
          /\ owned' = owned \cup Named(pc[c])
          /\ UNCHANGED <<live, open>>
       \/ FALSE \in Running(pc[c]) /\ Launch(call[c], pc[c])
    /\ Goto(c, NextLaunch[pc[c]])
    /\ UNCHANGED <<mu, requestVars, ready, conf, crashes, managerVars, sms,
                   worldVars>>

\* One of the three services: launched unless one of that name is running.
StartService(c) ==
    /\ pc[c] \in Services
    /\ \/ /\ TRUE \in Running(pc[c])
          /\ Goto(c, NextLaunch[pc[c]])
          /\ UNCHANGED <<live, open, owned>>
       \/ /\ FALSE \in Running(pc[c])
          /\ Launch(call[c], pc[c])
          /\ Goto(c, NextLaunch[pc[c]])
       \/ /\ FALSE \in Running(pc[c])
          /\ Fail(c)
          /\ UNCHANGED <<live, open, owned>>
    /\ UNCHANGED <<mu, requestVars, ready, conf, crashes, managerVars, sms,
                   worldVars>>

\* The context and every owned child are looked at; the attempt goes on or
\* fails.
Check(c, point) ==
    \/ c \notin cancelled /\ owned \subseteq open /\ Goto(c, point)
    \/ (c \in cancelled \/ ~(owned \subseteq open)) /\ Fail(c)

\* waitContext, then the services must be alive.
StartSettle(c) ==
    /\ pc[c] = "settle"
    /\ Check(c, "openbts")
    /\ UNCHANGED <<mu, allButControl>>

\* The log is opened and OpenBTS executed; it reads the configuration.
StartOpenBTS(c) ==
    /\ pc[c] = "openbts"
    /\ \/ /\ Launch(call[c], "OpenBTS")
          /\ conf' = [conf EXCEPT ![call[c]] = db]
          /\ Goto(c, "ready")
       \/ Fail(c) /\ UNCHANGED <<live, open, owned, conf>>
    /\ UNCHANGED <<mu, requestVars, ready, crashes, managerVars, sms, worldVars>>

Main(c) == [call |-> call[c], name |-> "OpenBTS"]

\* waitForReady: the marker counts only while the context and the process do;
\* the timeout may always come first.
StartReady(c) ==
    /\ pc[c] = "ready"
    /\ \/ /\ call[c] \in ready /\ c \notin cancelled /\ Alive(Main(c))
          /\ Goto(c, "tmsis")
       \/ Fail(c)
    /\ UNCHANGED <<mu, allButControl>>

\* The bounded `tmsis clear', the last look at the context and the children.
StartTmsis(c) ==
    /\ pc[c] = "tmsis"
    /\ Check(c, "profile")
    /\ UNCHANGED <<mu, allButControl>>

\* SaveProfile fails, possibly after the rename.
StartSaveFails(c) ==
    /\ pc[c] = "profile"
    /\ profile' \in {profile, arg[c]}
    /\ Fail(c)
    /\ UNCHANGED <<mu, requestVars, processVars, managerVars, sms, owned, db,
                   rules>>

\* SaveProfile succeeds: the handles and the session are committed.
StartCommit(c) ==
    /\ pc[c] = "profile"
    /\ profile' = arg[c]
    /\ startedAt' = TRUE
    /\ lastStart' = arg[c]
    /\ openbts' = Main(c)
    /\ ownedChildren' = owned \ {Main(c)}
    /\ owned' = {}
    /\ sms' = IF sms.state = "starting" THEN [sms EXCEPT !.state = "running"]
                                        ELSE sms
    /\ Return(c, "committed")
    /\ UNCHANGED <<call, calls, stopResult, processVars, db, rules>>

\* stopManagedReverse(owned), one process group at a time.
StartUndo(c) ==
    /\ pc[c] = "rollback"
    /\ \E i \in owned : /\ IsLast(i, owned)
                        /\ live' \in Kill(Group(i))
                        /\ owned' = owned \ {i}
    /\ UNCHANGED <<pc, mu, requestVars, open, ready, conf, crashes,
                   managerVars, sms, worldVars>>

\* Mutant of StartFailed: the session of the failed attempt stays.
FailedKeepsSession(c) ==
    /\ pc[c] = "rollback"
    /\ owned = {}
    /\ Return(c, "failed")
    /\ UNCHANGED <<call, calls, stopResult, processVars, managerVars, sms,
                   owned, worldVars>>

\* The deferred clearSMSSession and Unlock of a failed attempt.
StartFailed(c) ==
    /\ pc[c] = "rollback"
    /\ owned = {}
    /\ sms' = NoSession
    /\ Return(c, "failed")
    /\ UNCHANGED <<call, calls, stopResult, processVars, managerVars, owned,
                   worldVars>>

StartStep(c) ==
    \/ StartLock(c) \/ StartAdmit(c) \/ StartPrepare(c) \/ StartConfig(c)
    \/ StartSession(c) \/ StartService(c) \/ StartSettle(c) \/ StartOpenBTS(c)
    \/ StartReady(c) \/ StartTmsis(c) \/ StartSaveFails(c) \/ StartCommit(c)
    \/ StartUndo(c) \/ StartFailed(c)

-----------------------------------------------------------------------------
(* Stop.                                                                    *)

\* What endSMSSession may leave.
EndSession ==
    IF sms.state = "none" \/ sms.ended THEN {sms}
    ELSE {[sms EXCEPT !.ended = TRUE, !.state = s] :
             s \in {"boundary_lost"} \cup
                   (IF sms.state = "boundary_lost" THEN {} ELSE {"stopped"})}

\* Mutant of StopLock: the session ends before the processes do.
StopEndsSessionFirst(t) ==
    /\ pc[t] = "lock"
    /\ mu = Nobody
    /\ mu' = t
    /\ sms' \in EndSession
    /\ Goto(t, "children")
    /\ UNCHANGED <<requestVars, processVars, managerVars, owned, worldVars>>

\* What runs before the stop decides only whether the CLI is called and an
\* answer that both callers ignore.
StopLock(t) ==
    /\ pc[t] = "lock"
    /\ mu = Nobody
    /\ mu' = t
    /\ Goto(t, "children")
    /\ UNCHANGED allButControl

\* stopManagedReverse(m.ownedChildren).
StopChildren(t) ==
    /\ pc[t] = "children"
    /\ \/ /\ \E i \in ownedChildren :
                /\ IsLast(i, ownedChildren)
                /\ live' \in Kill(Group(i))
                /\ ownedChildren' = ownedChildren \ {i}
          /\ UNCHANGED pc
       \/ /\ ownedChildren = {}
          /\ Goto(t, "main")
          /\ UNCHANGED <<live, ownedChildren>>
    /\ UNCHANGED <<mu, requestVars, open, ready, conf, crashes, openbts,
                   startedAt, lastStart, sms, owned, worldVars>>

\* stopManaged(m.openbts).
StopMain(t) ==
    /\ pc[t] = "main"
    /\ IF openbts = NoInstance THEN UNCHANGED live
                               ELSE live' \in Kill(Group(openbts))
    /\ openbts' = NoInstance
    /\ Goto(t, "smqueue")
    /\ UNCHANGED <<mu, requestVars, open, ready, conf, crashes, ownedChildren,
                   startedAt, lastStart, sms, owned, worldVars>>

\* sysop.KillAll(name): whatever `ps' lists under the name.
StopKillAll(t) ==
    /\ pc[t] \in Names
    /\ live' \in Kill(Named(pc[t])) \/ (PsMayFail /\ UNCHANGED live)
    /\ Goto(t, NextKill[pc[t]])
    /\ UNCHANGED <<mu, requestVars, open, ready, conf, crashes, managerVars,
                   sms, owned, worldVars>>

StopVerify(t) ==
    /\ pc[t] = "verify"
    /\ \/ /\ FALSE \in AnyServiceRunning
          /\ startedAt' = FALSE
          /\ sms' \in EndSession
          /\ stopResult' = [stopResult EXCEPT ![t] = "stopped"]
       \/ /\ TRUE \in AnyServiceRunning
          /\ stopResult' = [stopResult EXCEPT ![t] = "incomplete"]
          /\ UNCHANGED <<startedAt, sms>>
    /\ Unlock(t)
    /\ UNCHANGED <<call, arg, cancelled, calls, outcome, processVars, openbts,
                   ownedChildren, lastStart, owned, worldVars>>

StopStep(t) ==
    \/ StopLock(t) \/ StopChildren(t) \/ StopMain(t) \/ StopKillAll(t)
    \/ StopVerify(t)

-----------------------------------------------------------------------------
(* Configuration and network requests.                                      *)

\* A caller that still waits for the mutex has done nothing yet.
EditLock(e) ==
    /\ pc[e] = "idle"
    /\ mu = Nobody
    /\ mu' = e
    /\ Goto(e, "edit")
    /\ UNCHANGED allButControl

\* Mutant of UpdateConfig: the cell is not looked at.
UpdateAnytime(e) ==
    /\ pc[e] = "edit"
    /\ db' \in Radios
    /\ Unlock(e)
    /\ UNCHANGED <<requestVars, processVars, managerVars, sms, owned, rules,
                   profile>>

\* UpdateConfig writes a valid merged configuration of a stopped cell, or
\* reports an error, possibly of a transaction that did commit; GetAllConfig
\* only reads.
UpdateConfig(e) ==
    /\ pc[e] = "edit"
    /\ (FALSE \in CellRunning /\ db' \in Radios) \/ UNCHANGED db
    /\ Unlock(e)
    /\ UNCHANGED <<requestVars, processVars, managerVars, sms, owned, rules,
                   profile>>

\* WithStoppedCell(networkrule.Ensure).
PutNetwork(e) ==
    /\ pc[e] = "edit"
    /\ FALSE \in CellRunning
    /\ \E f \in Ifaces : TryEnsure(f)
    /\ Unlock(e)
    /\ UNCHANGED <<requestVars, processVars, managerVars, sms, owned, db,
                   profile>>

EditStep(e) == EditLock(e) \/ UpdateConfig(e) \/ PutNetwork(e)

-----------------------------------------------------------------------------

Init ==
    /\ pc = [c \in Clients |-> "idle"]
    /\ mu = Nobody
    /\ call = [c \in Starters |-> 0]
    /\ arg = [c \in Starters |-> NoProfile]
    /\ cancelled = {}
    /\ calls = 0
    /\ outcome = [k \in Calls |-> "none"]
    /\ stopResult = [t \in Stoppers |-> "none"]
    /\ live \in SUBSET [call: {0}, name: Foreign]
    /\ open = {} /\ ready = {} /\ crashes = 0
    /\ conf = [k \in Calls |-> NoRadio]
    /\ openbts = NoInstance /\ ownedChildren = {}
    /\ startedAt = FALSE /\ lastStart = NoProfile
    /\ sms = NoSession
    /\ owned = {}
    /\ db \in Radios
    /\ rules = {}
    /\ profile = NoProfile

Next ==
    \/ \E c \in Starters :
          \/ \E p \in Params : StartCall(c, p)
          \/ Cancel(c)
          \/ StartStep(c)
    \/ \E t \in Stoppers : StopCall(t) \/ StopStep(t)
    \/ \E e \in Editors : EditStep(e)
    \/ \E i \in Instances : Crash(i) \/ Reap(i) \/ Fork(i) \/ Announce(i)
    \/ LoseBoundary

Spec == Init /\ [][Next]_vars

-----------------------------------------------------------------------------
(* Properties.                                                              *)

\* The control points a caller may be at.
Points(c) ==
    IF c \in Starters THEN StartPoints
    ELSE IF c \in Stoppers THEN StopPoints
    ELSE IF c \in Editors THEN EditPoints
    ELSE ProbePoints

ControlTypeOK ==
    /\ pc \in [Clients -> StartPoints \cup StopPoints \cup EditPoints
                             \cup ProbePoints]
    /\ \A c \in Clients : pc[c] \in Points(c)
    /\ mu \in Clients \cup {Nobody}
RequestTypeOK ==
    /\ call \in [Starters -> Calls]
    /\ arg \in [Starters -> Params \cup {NoProfile}]
    /\ cancelled \subseteq Starters
    /\ calls \in Calls
    /\ outcome \in [Calls -> {"none", "pending", "refused", "failed",
                              "committed"}]
    /\ stopResult \in [Stoppers -> {"none", "stopped", "incomplete"}]
ProcessTypeOK ==
    /\ live \subseteq Instances
    /\ open \subseteq Instances
    /\ ready \subseteq Calls
    /\ conf \in [Calls -> Radios \cup {NoRadio}]
    /\ crashes \in 0 .. MaxCrashes
ManagerTypeOK ==
    /\ openbts \in Instances \cup {NoInstance}
    /\ ownedChildren \subseteq Instances
    /\ startedAt \in BOOLEAN
    /\ lastStart \in Params \cup {NoProfile}
    /\ sms \in Sessions
    /\ owned \subseteq Instances
WorldTypeOK ==
    /\ db \in Radios
    /\ rules \subseteq Ifaces
    /\ profile \in Params \cup {NoProfile}

\* Every variable stays in its type, and every caller at its control points.
TypeOK ==
    /\ ControlTypeOK
    /\ RequestTypeOK
    /\ ProcessTypeOK
    /\ ManagerTypeOK
    /\ WorldTypeOK

\* Inside a call that has taken the mutex.
Inside(c) == pc[c] \notin {"idle", "lock"}

\* mu.Lock and the deferred mu.Unlock of every call: whoever is inside a
\* lifecycle or configuration call holds the mutex, alone, and no return path
\* keeps it.
MutexDiscipline == \A c \in Clients \ Probes : mu = c <=> Inside(c)

\* A process name that may outlive a kill, by itself or through its parent.
MayLinger(n) == n \in Stubborn \/ (n = "transceiver" /\ "OpenBTS" \in Stubborn)

\* Start's deferred stopManagedReverse: once a Start call has failed, none of
\* the processes it launched is running, wherever the attempt failed and
\* whichever of them had exited before; the transceiver that OpenBTS forked
\* and may have left behind is included.
FailedStartLeavesNothing ==
    \A i \in live :
        i.call # 0 /\ ~MayLinger(i.name)
            => outcome[i.call] \in {"pending", "committed"}

\* cellRunningLocked and the per-service checks of Start: as long as `ps'
\* answers, no two processes of one name ever run together, so no two
\* transceivers compete for the radio, whatever crashed, whatever a failed
\* Stop left behind and whatever ran before the manager did.
OneOfEachName ==
    ~PsMayFail => \A i, j \in live : i.name = j.name => i = j

\* While the OpenBTS that Start committed is running, the configuration
\* database, the saved profile and the reported parameters are those it was
\* launched with, and its NAT rule is in place: Start, UpdateConfig and a
\* failing attempt's leftovers never change them under a live cell, even when
\* `ps' fails, because the handle is consulted as well.
RunningCellConfig ==
    openbts \in live =>
        /\ lastStart \in Params
        /\ conf[openbts.call] = lastStart.radio
        /\ db = lastStart.radio
        /\ lastStart.iface \in rules
        /\ profile = lastStart

\* While the committed OpenBTS is running, the SMS session is the one of its
\* launch and has not ended: a refused duplicate start keeps the boundary, and
\* an attempt that clears it only runs when the cell does not.
RunningCellSession ==
    openbts \in live =>
        /\ sms.call = openbts.call
        /\ ~sms.ended
        /\ sms.state \in {"running", "boundary_lost"}

\* stopLocked ends the SMS session only when every process is gone, and the
\* next accepted attempt drops it before anything is launched: as long as `ps'
\* answers, nothing runs while the session is an ended one.
EndedSessionIsSilent == ~PsMayFail /\ sms.ended => live = {}

\* A session is "starting" only while the Start call it belongs to holds the
\* lock: no error path of Start leaves a session half begun.
StartingSessionHasStarter ==
    sms.state = "starting" => mu \in Starters /\ sms.call = call[mu]

\* Stop's sequence of group kills and kills by name leaves nothing behind,
\* also after handles were forgotten by a later Start, for foreign processes,
\* and although OpenBTS may fork a transceiver between two of the kills.
StopCompletes ==
    Stubborn = {} /\ ~PsMayFail =>
        \A t \in Stoppers : stopResult[t] # "incomplete"

\* "Pre-existing system services are deliberately left alone": the only
\* processes a Start call ever kills are those of its own attempt.
RollbackSparesOthers ==
    [][(mu \in Starters /\ crashes' = crashes)
          => \A i \in live \ live' : i.call = call[mu]]_vars

=============================================================================
