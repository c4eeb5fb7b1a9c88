----------------------------- MODULE CellProofs -----------------------------
(***************************************************************************)
(* Proofs about the cell lifecycle of module Cell, for every set of        *)
(* callers, every bound, and whether or not `ps' and KILL are reliable.    *)
(* The argument is layered: control (types, control points, the mutex),    *)
(* then what a Start call owns, then what a committed cell relies on; each *)
(* layer is an inductive invariant relative to the ones before it.         *)
(***************************************************************************)
EXTENDS Cell, TLAPS

Callers == Clients \ Probes
Outside == {"idle", "lock"}

-----------------------------------------------------------------------------
(* How a caller moves.  The four lemmas say what the four kinds of steps of *)
(* a caller do to control points and mutex.                                 *)

Control == ControlTypeOK /\ MutexDiscipline

\* A caller inside a call goes on: it keeps the mutex.
LEMMA StaysInside ==
  ASSUME NEW c \in Callers, NEW pt \in Points(c) \ Outside, Control,
         Inside(c), Goto(c, pt), UNCHANGED mu
  PROVE  Control'
  BY DEF Callers, Outside, Points, Control, ControlTypeOK, MutexDiscipline,
         Inside, Goto, StartPoints, StopPoints, EditPoints, ProbePoints

\* A caller takes the free mutex.
LEMMA Enters ==
  ASSUME NEW c \in Callers, NEW pt \in Points(c) \ Outside, Control,
         mu = Nobody, mu' = c, Goto(c, pt)
  PROVE  Control'
  BY ClientsAssumption
     DEF Callers, Outside, Points, Control, ControlTypeOK, MutexDiscipline,
         Inside, Goto, StartPoints, StopPoints, EditPoints, ProbePoints

\* A caller inside a call returns.
LEMMA Leaves ==
  ASSUME NEW c \in Callers, Control, Inside(c), Unlock(c)
  PROVE  Control'
  BY ClientsAssumption
     DEF Callers, Points, Control, ControlTypeOK, MutexDiscipline, Inside,
         Goto, Unlock, StartPoints, StopPoints, EditPoints, ProbePoints

\* A caller begins to wait for the mutex.
LEMMA Arrives ==
  ASSUME NEW c \in Callers, Control, pc[c] = "idle", "lock" \in Points(c),
         Goto(c, "lock"), UNCHANGED mu
  PROVE  Control'
  BY DEF Callers, Points, Control, ControlTypeOK, MutexDiscipline, Inside,
         Goto, StartPoints, StopPoints, EditPoints, ProbePoints

\* Steps that move nobody.
LEMMA StaysPut ==
  ASSUME Control, UNCHANGED <<pc, mu>>
  PROVE  Control'
  BY DEF Control, ControlTypeOK, MutexDiscipline, Inside, Points

\* Every step of a Start call keeps control points and mutex in order.
LEMMA StarterControl ==
  ASSUME NEW c \in Starters, Control, StartStep(c)
  PROVE  Control'
<1> USE DEF Fail, Refuse, Return
<1>1. c \in Callers /\ Points(c) = StartPoints
  BY ClientsAssumption DEF Callers, Clients, Lifecycle, Points
<1>2. \A pt \in {"admit", "prepare", "config", "session", "settle",
                  "openbts", "ready", "tmsis", "profile", "rollback"}
              \cup Services : pt \in Points(c) \ Outside
  BY <1>1 DEF StartPoints, Outside, Services
<1>3. \A n \in Services : NextLaunch[n] \in Points(c) \ Outside
  BY <1>1 DEF StartPoints, Outside, Services, NextLaunch
<1>4. CASE StartLock(c)
  BY <1>1, <1>2, <1>4, Enters DEF StartLock
<1>5. CASE StartAdmit(c)
  <2>1. Inside(c)  BY <1>5 DEF StartAdmit, Inside
  <2>2. Unlock(c) \/ (Goto(c, "prepare") /\ UNCHANGED mu)
    BY <1>5 DEF StartAdmit
  <2> QED  BY <1>1, <1>2, <2>1, <2>2, StaysInside, Leaves
<1>6. CASE StartPrepare(c)
  <2>1. Inside(c)  BY <1>6 DEF StartPrepare, Inside
  <2>2. (Goto(c, "config") \/ Goto(c, "rollback")) /\ UNCHANGED mu
    BY <1>6 DEF StartPrepare
  <2> QED  BY <1>1, <1>2, <2>1, <2>2, StaysInside
<1>7. CASE StartConfig(c)
  <2>1. Inside(c)  BY <1>7 DEF StartConfig, Inside
  <2>2. (Goto(c, "session") \/ Goto(c, "rollback")) /\ UNCHANGED mu
    BY <1>7 DEF StartConfig
  <2> QED  BY <1>1, <1>2, <2>1, <2>2, StaysInside
<1>8. CASE StartSession(c)
  <2>1. Inside(c)  BY <1>8 DEF StartSession, Inside
  <2>2. (Goto(c, "sipauthserve") \/ Goto(c, "rollback")) /\ UNCHANGED mu
    BY <1>8 DEF StartSession
  <2> QED  BY <1>1, <1>2, <2>1, <2>2, StaysInside DEF Services
<1>9. CASE StartService(c)
  <2>1. Inside(c)  BY <1>9 DEF StartService, Inside, Services
  <2>2. (Goto(c, NextLaunch[pc[c]]) \/ Goto(c, "rollback")) /\ UNCHANGED mu
    BY <1>9 DEF StartService
  <2>3. NextLaunch[pc[c]] \in Points(c) \ Outside
    BY <1>3, <1>9 DEF StartService
  <2> QED  BY <1>1, <1>2, <2>1, <2>2, <2>3, StaysInside
<1>10. CASE StartSettle(c)
  <2>1. Inside(c)  BY <1>10 DEF StartSettle, Inside
  <2>2. (Goto(c, "openbts") \/ Goto(c, "rollback")) /\ UNCHANGED mu
    BY <1>10 DEF StartSettle, Check
  <2> QED  BY <1>1, <1>2, <2>1, <2>2, StaysInside
<1>11. CASE StartOpenBTS(c)
  <2>1. Inside(c)  BY <1>11 DEF StartOpenBTS, Inside
  <2>2. (Goto(c, "ready") \/ Goto(c, "rollback")) /\ UNCHANGED mu
    BY <1>11 DEF StartOpenBTS
  <2> QED  BY <1>1, <1>2, <2>1, <2>2, StaysInside
<1>12. CASE StartReady(c)
  <2>1. Inside(c)  BY <1>12 DEF StartReady, Inside
  <2>2. (Goto(c, "tmsis") \/ Goto(c, "rollback")) /\ UNCHANGED mu
    BY <1>12 DEF StartReady
  <2> QED  BY <1>1, <1>2, <2>1, <2>2, StaysInside
<1>13. CASE StartTmsis(c)
  <2>1. Inside(c)  BY <1>13 DEF StartTmsis, Inside
  <2>2. (Goto(c, "profile") \/ Goto(c, "rollback")) /\ UNCHANGED mu
    BY <1>13 DEF StartTmsis, Check
  <2> QED  BY <1>1, <1>2, <2>1, <2>2, StaysInside
<1>14. CASE StartSaveFails(c)
  <2>1. Inside(c)  BY <1>14 DEF StartSaveFails, Inside
  <2>2. Goto(c, "rollback") /\ UNCHANGED mu
    BY <1>14 DEF StartSaveFails
  <2> QED  BY <1>1, <1>2, <2>1, <2>2, StaysInside
<1>15. CASE StartCommit(c)
  <2>1. Inside(c) /\ Unlock(c)  BY <1>15 DEF StartCommit, Inside
  <2> QED  BY <1>1, <2>1, Leaves
<1>16. CASE StartUndo(c)
  BY <1>16, StaysPut DEF StartUndo
<1>17. CASE StartFailed(c)
  <2>1. Inside(c) /\ Unlock(c)  BY <1>17 DEF StartFailed, Inside
  <2> QED  BY <1>1, <2>1, Leaves
<1> QED
  BY <1>4, <1>5, <1>6, <1>7, <1>8, <1>9, <1>10, <1>11, <1>12, <1>13, <1>14,
     <1>15, <1>16, <1>17 DEF StartStep

\* So does every step of a Stop call,
LEMMA StopperControl ==
  ASSUME NEW t \in Stoppers, Control, StopStep(t)
  PROVE  Control'
<1>1. t \in Callers /\ Points(t) = StopPoints
  BY ClientsAssumption DEF Callers, Clients, Lifecycle, Points
<1>2. \A pt \in {"children", "main", "smqueue"} : pt \in Points(t) \ Outside
  BY <1>1 DEF StopPoints, Outside, Names, Services
<1>3. \A n \in Names : NextKill[n] \in Points(t) \ Outside
  BY <1>1 DEF StopPoints, Outside, Names, Services, NextKill
<1>4. CASE StopLock(t)
  BY <1>1, <1>2, <1>4, Enters DEF StopLock
<1>5. CASE StopChildren(t)
  <2>1. Inside(t) /\ UNCHANGED mu  BY <1>5 DEF StopChildren, Inside
  <2>2. UNCHANGED pc \/ Goto(t, "main")
    BY <1>5 DEF StopChildren
  <2> QED  BY <1>1, <1>2, <2>1, <2>2, StaysInside, StaysPut
<1>6. CASE StopMain(t)
  <2>1. Inside(t) /\ Goto(t, "smqueue") /\ UNCHANGED mu
    BY <1>6 DEF StopMain, Inside
  <2> QED  BY <1>1, <1>2, <2>1, StaysInside
<1>7. CASE StopKillAll(t)
  <2>1. Inside(t) /\ Goto(t, NextKill[pc[t]]) /\ UNCHANGED mu
    BY <1>7 DEF StopKillAll, Inside, Names, Services
  <2>2. NextKill[pc[t]] \in Points(t) \ Outside
    BY <1>3, <1>7 DEF StopKillAll
  <2> QED  BY <1>1, <2>1, <2>2, StaysInside
<1>8. CASE StopVerify(t)
  <2>1. Inside(t) /\ Unlock(t)  BY <1>8 DEF StopVerify, Inside
  <2> QED  BY <1>1, <2>1, Leaves
<1> QED
  BY <1>4, <1>5, <1>6, <1>7, <1>8 DEF StopStep

\* and every step of a configuration request.
LEMMA EditorControl ==
  ASSUME NEW e \in Editors, Control, EditStep(e)
  PROVE  Control'
<1>1. e \in Callers /\ Points(e) = EditPoints
  BY ClientsAssumption DEF Callers, Clients, Lifecycle, Points
<1>2. CASE EditLock(e)
  <2>1. "edit" \in Points(e) \ Outside
    BY <1>1 DEF EditPoints, Outside
  <2> QED  BY <1>1, <1>2, <2>1, Enters DEF EditLock
<1>3. CASE UpdateConfig(e) \/ PutNetwork(e)
  <2>1. Inside(e) /\ Unlock(e)
    BY <1>3 DEF UpdateConfig, PutNetwork, Inside
  <2> QED  BY <1>1, <2>1, Leaves
<1> QED
  BY <1>2, <1>3 DEF EditStep

\* Control is inductive: the mutex discipline needs nothing but types.
LEMMA ControlStep == Control /\ [Next]_vars => Control'
<1> SUFFICES ASSUME Control, [Next]_vars
             PROVE  Control'
  OBVIOUS
<1>1. ASSUME NEW c \in Starters, NEW p \in Params, StartCall(c, p)
      PROVE  Control'
  <2>1. c \in Callers /\ "lock" \in Points(c)
    BY ClientsAssumption DEF Callers, Clients, Lifecycle, Points, StartPoints
  <2> QED  BY <1>1, <2>1, Arrives DEF StartCall
<1>2. ASSUME NEW t \in Stoppers, StopCall(t)
      PROVE  Control'
  <2>1. t \in Callers /\ "lock" \in Points(t)
    BY ClientsAssumption DEF Callers, Clients, Lifecycle, Points, StopPoints
  <2> QED  BY <1>2, <2>1, Arrives DEF StopCall
<1>3. ASSUME NEW c \in Starters, Cancel(c)
      PROVE  Control'
  BY <1>3, StaysPut DEF Cancel
<1>4. ASSUME NEW i \in Instances, Crash(i) \/ Reap(i) \/ Fork(i) \/ Announce(i)
      PROVE  Control'
  BY <1>4, StaysPut DEF Crash, Reap, Fork, Announce
<1>5. CASE LoseBoundary
  BY <1>5, StaysPut DEF LoseBoundary
<1>6. CASE UNCHANGED vars
  BY <1>6, StaysPut DEF vars
<1> QED
  BY <1>1, <1>2, <1>3, <1>4, <1>5, <1>6, StarterControl, StopperControl,
     EditorControl DEF Next

-----------------------------------------------------------------------------
(* Types.                                                                   *)

\* The initial states have the right types and nobody inside a call.
LEMMA InitTypes == Init => TypeOK /\ MutexDiscipline
<1> SUFFICES ASSUME Init PROVE TypeOK /\ MutexDiscipline
  OBVIOUS
<1>1. ControlTypeOK
  BY DEF Init, ControlTypeOK, Points, StartPoints, StopPoints, EditPoints,
         ProbePoints
<1>2. MutexDiscipline
  BY ClientsAssumption DEF Init, MutexDiscipline, Inside
<1>3. 0 \in Calls
  BY BoundsAssumption DEF Calls
<1>4. RequestTypeOK
  BY <1>3 DEF Init, RequestTypeOK
<1>5. ProcessTypeOK
  <2>1. live \subseteq Instances
    BY <1>3, BoundsAssumption DEF Init, Instances
  <2> QED  BY <2>1, BoundsAssumption DEF Init, ProcessTypeOK
<1>6. sms \in Sessions
  BY <1>3 DEF Init, NoSession, Sessions
<1>7. ManagerTypeOK
  BY <1>6 DEF Init, ManagerTypeOK
<1>8. WorldTypeOK
  BY DEF Init, WorldTypeOK
<1> QED  BY <1>1, <1>2, <1>4, <1>5, <1>7, <1>8 DEF TypeOK

\* A group of variables that does not change keeps its type.
LEMMA SameTypes ==
  /\ RequestTypeOK /\ UNCHANGED requestVars => RequestTypeOK'
  /\ ProcessTypeOK /\ UNCHANGED processVars => ProcessTypeOK'
  /\ ManagerTypeOK /\ UNCHANGED <<managerVars, sms, owned>> => ManagerTypeOK'
  /\ WorldTypeOK /\ UNCHANGED worldVars => WorldTypeOK'
  BY DEF RequestTypeOK, ProcessTypeOK, ManagerTypeOK, WorldTypeOK, requestVars,
         processVars, managerVars, worldVars

\* A kill leaves a part of what ran.
LEMMA KillShrinks ==
  ASSUME NEW S, NEW rest \in Kill(S)
  PROVE  rest \subseteq live
  BY DEF Kill

\* Returning from a Start call keeps the types.
LEMMA ReturnTypes ==
  ASSUME NEW c \in Starters, RequestTypeOK,
         NEW how \in {"refused", "failed", "committed"}, Return(c, how),
         UNCHANGED <<call, calls, stopResult>>
  PROVE  RequestTypeOK'
  BY DEF RequestTypeOK, Return

\* So does launching a child.
LEMMA LaunchTypes ==
  ASSUME NEW c \in Starters, NEW n \in Names, TypeOK, Launch(call[c], n)
  PROVE  live' \subseteq Instances /\ open' \subseteq Instances /\ owned' \subseteq Instances
<1>1. [call |-> call[c], name |-> n] \in Instances
  BY DEF TypeOK, RequestTypeOK, Instances
<1> QED
  BY <1>1 DEF Launch, TypeOK, ProcessTypeOK, ManagerTypeOK

Types == RequestTypeOK /\ ProcessTypeOK /\ ManagerTypeOK /\ WorldTypeOK

\* The cleared session is a session.
LEMMA NoSessionType == NoSession \in Sessions
  BY BoundsAssumption DEF NoSession, Sessions, Calls

\* Not part of the type, but what makes it inductive: a starter that is not
\* idle has parameters.
ActiveHasParams == \A c \in Starters : pc[c] # "idle" => arg[c] \in Params

\* Every step of a Start call keeps the types.
LEMMA StarterTypes ==
  ASSUME NEW c \in Starters, TypeOK, ActiveHasParams, StartStep(c)
  PROVE  Types'
<1> USE DEF Types
<1>1. c \in Callers /\ RequestTypeOK /\ ProcessTypeOK /\ ManagerTypeOK /\ WorldTypeOK
  BY ClientsAssumption DEF TypeOK, Callers, Clients, Lifecycle
<1>2. pc[c] # "idle" /\ arg[c] \in Params /\ call[c] \in Calls
  <2>1. pc[c] # "idle"
    BY DEF StartStep, StartLock, StartAdmit, StartPrepare, StartConfig,
           StartSession, StartService, StartSettle, StartOpenBTS, StartReady,
           StartTmsis, StartSaveFails, StartCommit, StartUndo, StartFailed,
           Services
  <2> QED  BY <1>1, <2>1 DEF RequestTypeOK, ActiveHasParams
<1>3. arg[c].radio \in Radios /\ arg[c].iface \in Ifaces
  BY <1>2 DEF Params
<1>4. CASE StartLock(c)
  BY <1>1, <1>4, SameTypes DEF StartLock, allButControl
<1>5. CASE StartAdmit(c)
  <2>1. RequestTypeOK'
    <3>1. CASE Refuse(c)
      BY <1>1, <1>5, <3>1, ReturnTypes DEF Refuse, StartAdmit
    <3>2. CASE UNCHANGED <<arg, cancelled, outcome>>
      BY <1>1, <1>5, <3>2, SameTypes DEF StartAdmit, requestVars
    <3> QED  BY <1>5, <3>1, <3>2 DEF StartAdmit
  <2>2. sms' \in Sessions
    BY <1>1, <1>5, NoSessionType DEF StartAdmit, Refuse, ManagerTypeOK
  <2>3. ManagerTypeOK'
    BY <1>1, <1>5, <2>2 DEF StartAdmit, ManagerTypeOK, managerVars
  <2> QED  BY <1>1, <1>5, <2>1, <2>3, SameTypes DEF StartAdmit
<1>6. CASE StartPrepare(c)
  <2>1. WorldTypeOK'
    BY <1>1, <1>3, <1>6 DEF StartPrepare, Ensure, TryEnsure, WorldTypeOK
  <2> QED  BY <1>1, <1>6, <2>1, SameTypes DEF StartPrepare
<1>7. CASE StartConfig(c)
  <2>1. WorldTypeOK'
    BY <1>1, <1>3, <1>7 DEF StartConfig, WorldTypeOK
  <2> QED  BY <1>1, <1>7, <2>1, SameTypes DEF StartConfig
<1>8. CASE StartSession(c)
  <2>1. [call |-> call[c], state |-> "starting", ended |-> FALSE] \in Sessions
    BY <1>2 DEF Sessions
  <2>2. sms' \in Sessions
    BY <1>1, <1>8, <2>1 DEF StartSession, ManagerTypeOK
  <2>3. ManagerTypeOK'
    BY <1>1, <1>8, <2>2 DEF StartSession, ManagerTypeOK, managerVars
  <2> QED  BY <1>1, <1>8, <2>3, SameTypes DEF StartSession
<1>9. CASE StartService(c)
  <2>1. live' \subseteq Instances /\ open' \subseteq Instances /\ owned' \subseteq Instances
    <3>1. CASE UNCHANGED <<live, open, owned>>
      BY <1>1, <3>1 DEF ProcessTypeOK, ManagerTypeOK
    <3>2. CASE Launch(call[c], pc[c])
      BY <1>9, <3>2, LaunchTypes DEF StartService, Names
    <3> QED  BY <1>9, <3>1, <3>2 DEF StartService
  <2>2. ProcessTypeOK' /\ ManagerTypeOK'
    BY <1>1, <1>9, <2>1 DEF StartService, ProcessTypeOK, ManagerTypeOK, managerVars
  <2> QED  BY <1>1, <1>9, <2>2, SameTypes DEF StartService
<1>10. CASE StartSettle(c)
  BY <1>1, <1>10, SameTypes DEF StartSettle, allButControl
<1>11. CASE StartOpenBTS(c)
  <2>1. live' \subseteq Instances /\ open' \subseteq Instances /\ owned' \subseteq Instances
    <3>1. CASE UNCHANGED <<live, open, owned>>
      BY <1>1, <3>1 DEF ProcessTypeOK, ManagerTypeOK
    <3>2. CASE Launch(call[c], "OpenBTS")
      BY <3>2, LaunchTypes DEF Names
    <3> QED  BY <1>11, <3>1, <3>2 DEF StartOpenBTS
  <2>2. conf' \in [Calls -> Radios \cup {NoRadio}]
    BY <1>1, <1>11 DEF StartOpenBTS, ProcessTypeOK, WorldTypeOK
  <2>3. ProcessTypeOK' /\ ManagerTypeOK'
    BY <1>1, <1>11, <2>1, <2>2
       DEF StartOpenBTS, ProcessTypeOK, ManagerTypeOK, managerVars
  <2> QED  BY <1>1, <1>11, <2>3, SameTypes DEF StartOpenBTS
<1>12. CASE StartReady(c)
  BY <1>1, <1>12, SameTypes DEF StartReady, allButControl
<1>13. CASE StartTmsis(c)
  BY <1>1, <1>13, SameTypes DEF StartTmsis, allButControl
<1>14. CASE StartSaveFails(c)
  <2>1. WorldTypeOK'
    BY <1>1, <1>2, <1>14 DEF StartSaveFails, WorldTypeOK
  <2> QED  BY <1>1, <1>14, <2>1, SameTypes DEF StartSaveFails
<1>15. CASE StartCommit(c)
  <2>1. RequestTypeOK'
    BY <1>1, <1>15, ReturnTypes DEF StartCommit
  <2>2. Main(c) \in Instances
    BY <1>2 DEF Main, Instances, Names
  <2>3. sms' \in Sessions
    BY <1>1, <1>15 DEF StartCommit, ManagerTypeOK, Sessions
  <2>4. ManagerTypeOK'
    BY <1>1, <1>2, <1>15, <2>2, <2>3 DEF StartCommit, ManagerTypeOK
  <2>5. WorldTypeOK'
    BY <1>1, <1>2, <1>15 DEF StartCommit, WorldTypeOK
  <2> QED  BY <1>1, <1>15, <2>1, <2>4, <2>5, SameTypes DEF StartCommit
<1>16. CASE StartUndo(c)
  <2>1. live' \subseteq live /\ owned' \subseteq owned
    BY <1>16, KillShrinks DEF StartUndo
  <2>2. ProcessTypeOK' /\ ManagerTypeOK'
    BY <1>1, <1>16, <2>1 DEF StartUndo, ProcessTypeOK, ManagerTypeOK, managerVars
  <2> QED  BY <1>1, <1>16, <2>2, SameTypes DEF StartUndo
<1>17. CASE StartFailed(c)
  <2>1. RequestTypeOK'
    BY <1>1, <1>17, ReturnTypes DEF StartFailed
  <2>2. ManagerTypeOK'
    BY <1>1, <1>17, NoSessionType DEF StartFailed, ManagerTypeOK, managerVars
  <2> QED  BY <1>1, <1>17, <2>1, <2>2, SameTypes DEF StartFailed
<1> QED
  BY <1>4, <1>5, <1>6, <1>7, <1>8, <1>9, <1>10, <1>11, <1>12, <1>13, <1>14,
     <1>15, <1>16, <1>17 DEF StartStep

\* So does every step of a Stop call,
LEMMA StopperTypes ==
  ASSUME NEW t \in Stoppers, TypeOK, StopStep(t)
  PROVE  Types'
<1> USE DEF Types
<1>1. RequestTypeOK /\ ProcessTypeOK /\ ManagerTypeOK /\ WorldTypeOK
  BY DEF TypeOK
<1>2. CASE StopLock(t)
  BY <1>1, <1>2, SameTypes DEF StopLock, allButControl
<1>3. CASE StopChildren(t)
  <2>1. live' \subseteq live /\ ownedChildren' \subseteq ownedChildren
    BY <1>3, KillShrinks DEF StopChildren
  <2>2. ProcessTypeOK' /\ ManagerTypeOK'
    BY <1>1, <1>3, <2>1 DEF StopChildren, ProcessTypeOK, ManagerTypeOK
  <2> QED  BY <1>1, <1>3, <2>2, SameTypes DEF StopChildren
<1>4. CASE StopMain(t)
  <2>1. live' \subseteq live
    BY <1>4, KillShrinks DEF StopMain
  <2>2. ProcessTypeOK' /\ ManagerTypeOK'
    BY <1>1, <1>4, <2>1 DEF StopMain, ProcessTypeOK, ManagerTypeOK
  <2> QED  BY <1>1, <1>4, <2>2, SameTypes DEF StopMain
<1>5. CASE StopKillAll(t)
  <2>1. live' \subseteq live
    BY <1>5, KillShrinks DEF StopKillAll
  <2>2. ProcessTypeOK'
    BY <1>1, <1>5, <2>1 DEF StopKillAll, ProcessTypeOK
  <2> QED  BY <1>1, <1>5, <2>2, SameTypes DEF StopKillAll
<1>6. CASE StopVerify(t)
  <2>1. EndSession \subseteq Sessions
    <3>1. sms \in Sessions
      BY <1>1 DEF ManagerTypeOK
    <3>2. ASSUME NEW s \in {"stopped", "boundary_lost"}
          PROVE  [sms EXCEPT !.ended = TRUE, !.state = s] \in Sessions
      BY <3>1 DEF Sessions
    <3> QED  BY <3>1, <3>2 DEF EndSession
  <2>2. ManagerTypeOK'
    BY <1>1, <1>6, <2>1 DEF StopVerify, ManagerTypeOK
  <2>3. RequestTypeOK'
    BY <1>1, <1>6 DEF StopVerify, RequestTypeOK
  <2> QED  BY <1>1, <1>6, <2>2, <2>3, SameTypes DEF StopVerify
<1> QED
  BY <1>2, <1>3, <1>4, <1>5, <1>6 DEF StopStep

\* and every other step: requests, edits, exits and forks.
LEMMA OtherTypes ==
  ASSUME TypeOK,
         \/ \E c \in Starters : (\E p \in Params : StartCall(c, p)) \/ Cancel(c)
         \/ \E t \in Stoppers : StopCall(t)
         \/ \E e \in Editors : EditStep(e)
         \/ \E i \in Instances : Crash(i) \/ Reap(i) \/ Fork(i) \/ Announce(i)
         \/ LoseBoundary
         \/ UNCHANGED vars
  PROVE  Types'
<1> USE DEF Types
<1>1. RequestTypeOK /\ ProcessTypeOK /\ ManagerTypeOK /\ WorldTypeOK
  BY DEF TypeOK
<1>2. ASSUME NEW c \in Starters, NEW p \in Params, StartCall(c, p)
      PROVE  Types'
  <2>1. calls + 1 \in Calls
    BY <1>1, <1>2, BoundsAssumption DEF StartCall, RequestTypeOK, Calls
  <2>2. RequestTypeOK'
    BY <1>1, <1>2, <2>1 DEF StartCall, RequestTypeOK
  <2> QED  BY <1>1, <1>2, <2>2, SameTypes DEF StartCall
<1>3. ASSUME NEW c \in Starters, Cancel(c)
      PROVE  Types'
  <2>1. RequestTypeOK'
    BY <1>1, <1>3 DEF Cancel, RequestTypeOK
  <2> QED  BY <1>1, <1>3, <2>1, SameTypes DEF Cancel
<1>4. ASSUME NEW t \in Stoppers, StopCall(t)
      PROVE  Types'
  <2>1. RequestTypeOK'
    BY <1>1, <1>4 DEF StopCall, RequestTypeOK
  <2> QED  BY <1>1, <1>4, <2>1, SameTypes DEF StopCall
<1>5. ASSUME NEW e \in Editors, EditStep(e)
      PROVE  Types'
  <2>1. CASE EditLock(e)
    BY <1>1, <2>1, SameTypes DEF EditLock, allButControl
  <2>2. CASE UpdateConfig(e)
    <3>1. WorldTypeOK'  BY <1>1, <2>2 DEF UpdateConfig, WorldTypeOK
    <3> QED  BY <1>1, <2>2, <3>1, SameTypes DEF UpdateConfig
  <2>3. CASE PutNetwork(e)
    <3>1. WorldTypeOK'  BY <1>1, <2>3 DEF PutNetwork, Ensure, TryEnsure, WorldTypeOK
    <3> QED  BY <1>1, <2>3, <3>1, SameTypes DEF PutNetwork
  <2> QED  BY <1>5, <2>1, <2>2, <2>3 DEF EditStep
<1>6. ASSUME NEW i \in Instances, Crash(i)
      PROVE  Types'
  <2>1. ProcessTypeOK'
    BY <1>1, <1>6, BoundsAssumption DEF Crash, ProcessTypeOK
  <2> QED  BY <1>1, <1>6, <2>1, SameTypes DEF Crash
<1>7. ASSUME NEW i \in Instances, Reap(i)
      PROVE  Types'
  <2>1. ProcessTypeOK'
    BY <1>1, <1>7 DEF Reap, ProcessTypeOK
  <2> QED  BY <1>1, <1>7, <2>1, SameTypes DEF Reap
<1>8. ASSUME NEW i \in Instances, Fork(i)
      PROVE  Types'
  <2>1. [call |-> i.call, name |-> "transceiver"] \in Instances
    BY DEF Instances, Names
  <2>2. ProcessTypeOK'
    BY <1>1, <1>8, <2>1 DEF Fork, ProcessTypeOK
  <2> QED  BY <1>1, <1>8, <2>2, SameTypes DEF Fork
<1>9. ASSUME NEW i \in Instances, Announce(i)
      PROVE  Types'
  <2>1. i.call \in Calls
    BY DEF Instances
  <2>2. ProcessTypeOK'
    BY <1>1, <1>9, <2>1 DEF Announce, ProcessTypeOK
  <2> QED  BY <1>1, <1>9, <2>2, SameTypes DEF Announce
<1>10. CASE LoseBoundary
  <2>1. sms' \in Sessions
    BY <1>1, <1>10 DEF LoseBoundary, ManagerTypeOK, Sessions
  <2>2. ManagerTypeOK'
    BY <1>1, <1>10, <2>1 DEF LoseBoundary, ManagerTypeOK, managerVars
  <2> QED  BY <1>1, <1>10, <2>2, SameTypes DEF LoseBoundary
<1>11. CASE UNCHANGED vars
  BY <1>1, <1>11, SameTypes DEF vars, allButControl
<1> QED
  BY <1>2, <1>3, <1>4, <1>5, <1>6, <1>7, <1>8, <1>9, <1>10, <1>11

-----------------------------------------------------------------------------
(* Requests.                                                                *)

\* A starter that is not idle has parameters and a pending call of its own;
\* the calls not made yet have no outcome.
PendingCalls ==
    /\ \A c \in Starters :
          pc[c] # "idle" => call[c] # 0 /\ outcome[call[c]] = "pending"
    /\ \A c, d \in Starters :
          pc[c] # "idle" /\ pc[d] # "idle" /\ call[c] = call[d] => c = d
    /\ \A c \in Starters : call[c] <= calls
    /\ \A k \in Calls : k > calls => outcome[k] = "none"

Requests == ActiveHasParams /\ PendingCalls

\* What a step of Start does to the requests: nothing, or it returns.
LEMMA StarterEffect ==
  ASSUME NEW c \in Starters, ControlTypeOK, StartStep(c)
  PROVE  /\ pc[c] # "idle"
         /\ \A d \in Starters \ {c} : pc'[d] = pc[d]
         /\ UNCHANGED <<call, calls>>
         /\ UNCHANGED <<arg, outcome>>
            \/ \E how \in {"refused", "failed", "committed"} : Return(c, how)
<1> USE DEF requestVars, allButControl, Fail
<1>0. ASSUME NEW pt, UNCHANGED pc \/ Goto(c, pt)
      PROVE  \A d \in Starters \ {c} : pc'[d] = pc[d]
  BY <1>0 DEF Goto, ControlTypeOK, Clients, Lifecycle
<1>1. CASE StartLock(c)  BY <1>0, <1>1 DEF StartLock
<1>2. CASE StartAdmit(c)  BY <1>0, <1>2 DEF StartAdmit, Refuse, Return, Unlock
<1>3. CASE StartPrepare(c)  BY <1>0, <1>3 DEF StartPrepare
<1>4. CASE StartConfig(c)  BY <1>0, <1>4 DEF StartConfig
<1>5. CASE StartSession(c)  BY <1>0, <1>5 DEF StartSession
<1>6. CASE StartService(c)
  <2>1. pc[c] # "idle"
    BY <1>6 DEF StartService, Services
  <2> QED  BY <1>0, <1>6, <2>1 DEF StartService
<1>7. CASE StartSettle(c)  BY <1>0, <1>7 DEF StartSettle, Check
<1>8. CASE StartOpenBTS(c)  BY <1>0, <1>8 DEF StartOpenBTS
<1>9. CASE StartReady(c)  BY <1>0, <1>9 DEF StartReady
<1>10. CASE StartTmsis(c)  BY <1>0, <1>10 DEF StartTmsis, Check
<1>11. CASE StartSaveFails(c)  BY <1>0, <1>11 DEF StartSaveFails
<1>12. CASE StartCommit(c)  BY <1>0, <1>12 DEF StartCommit, Return, Unlock
<1>13. CASE StartUndo(c)  BY <1>0, <1>13 DEF StartUndo
<1>14. CASE StartFailed(c)  BY <1>0, <1>14 DEF StartFailed, Return, Unlock
<1> QED
  BY <1>1, <1>2, <1>3, <1>4, <1>5, <1>6, <1>7, <1>8, <1>9, <1>10, <1>11,
     <1>12, <1>13, <1>14 DEF StartStep

\* Every other step but a new Start leaves the starters and their calls alone.
LEMMA OtherEffect ==
  ASSUME ControlTypeOK,
         \/ \E c \in Starters : Cancel(c)
         \/ \E t \in Stoppers : StopCall(t) \/ StopStep(t)
         \/ \E e \in Editors : EditStep(e)
         \/ \E i \in Instances : Crash(i) \/ Reap(i) \/ Fork(i) \/ Announce(i)
         \/ LoseBoundary
         \/ UNCHANGED vars
  PROVE  /\ UNCHANGED <<call, arg, calls, outcome>>
         /\ \A c \in Starters : pc'[c] = pc[c]
<1> USE ClientsAssumption DEF requestVars, allButControl, ControlTypeOK, Clients,
                             Lifecycle
<1>1. ASSUME NEW t \in Stoppers, StopCall(t) \/ StopLock(t) \/ StopMain(t)
      PROVE  /\ UNCHANGED <<call, arg, calls, outcome>>
             /\ \A c \in Starters : pc'[c] = pc[c]
  BY <1>1 DEF StopCall, StopLock, StopMain, Goto
<1>2. ASSUME NEW t \in Stoppers, StopChildren(t) \/ StopKillAll(t)
      PROVE  /\ UNCHANGED <<call, arg, calls, outcome>>
             /\ \A c \in Starters : pc'[c] = pc[c]
  BY <1>2 DEF StopChildren, StopKillAll, Goto
<1>3. ASSUME NEW t \in Stoppers, StopVerify(t)
      PROVE  /\ UNCHANGED <<call, arg, calls, outcome>>
             /\ \A c \in Starters : pc'[c] = pc[c]
  BY <1>3 DEF StopVerify, Unlock, Goto
<1>4. ASSUME NEW e \in Editors, EditStep(e)
      PROVE  /\ UNCHANGED <<call, arg, calls, outcome>>
             /\ \A c \in Starters : pc'[c] = pc[c]
  BY <1>4 DEF EditStep, EditLock, UpdateConfig, PutNetwork, Unlock, Goto
<1>5. ASSUME NEW i \in Instances, Crash(i) \/ Reap(i) \/ Fork(i) \/ Announce(i)
      PROVE  UNCHANGED <<pc, call, arg, calls, outcome>>
  BY <1>5 DEF Crash, Reap, Fork, Announce
<1>6. CASE LoseBoundary
  BY <1>6 DEF LoseBoundary
<1>7. CASE UNCHANGED vars
  BY <1>7 DEF vars
<1>8. ASSUME NEW c \in Starters, Cancel(c)
      PROVE  UNCHANGED <<pc, call, arg, calls, outcome>>
  BY <1>8 DEF Cancel
<1> QED
  BY <1>1, <1>2, <1>3, <1>4, <1>5, <1>6, <1>7, <1>8 DEF StopStep

\* No step gives two starters one call number.
LEMMA RequestsStep ==
  ASSUME TypeOK, Requests, [Next]_vars
  PROVE  Requests'
<1>1. /\ pc \in [Clients -> StartPoints \cup StopPoints \cup EditPoints
                               \cup ProbePoints]
      /\ Starters \subseteq Clients
      /\ ControlTypeOK /\ RequestTypeOK
  BY DEF TypeOK, ControlTypeOK, Clients, Lifecycle
<1>2. ASSUME NEW c \in Starters, NEW p \in Params, StartCall(c, p)
      PROVE  Requests'
  <2>1. calls \in Nat /\ calls + 1 \in Calls /\ calls + 1 # 0
    BY <1>1, <1>2, BoundsAssumption DEF StartCall, RequestTypeOK, Calls
  <2>2. \A d \in Starters : call[d] \in Nat /\ call[d] \in Calls
    BY <1>1, BoundsAssumption DEF RequestTypeOK, Calls
  <2>3. /\ arg'[c] = p /\ call'[c] = calls + 1 /\ calls' = calls + 1
        /\ outcome'[calls + 1] = "pending"
        /\ \A d \in Starters \ {c} :
              arg'[d] = arg[d] /\ call'[d] = call[d] /\ pc'[d] = pc[d]
        /\ \A k \in Calls \ {calls + 1} : outcome'[k] = outcome[k]
    BY <1>1, <1>2, <2>1 DEF StartCall, RequestTypeOK, Goto
  <2>4. ActiveHasParams'
    BY <2>3 DEF Requests, ActiveHasParams
  <2>5. \A d \in Starters :
           pc'[d] # "idle" => call'[d] # 0 /\ outcome'[call'[d]] = "pending"
    BY <2>1, <2>2, <2>3 DEF Requests, PendingCalls
  <2>6. \A d \in Starters \ {c} : call'[d] # call'[c]
    BY <2>1, <2>2, <2>3 DEF Requests, PendingCalls
  <2>7. \A d, e \in Starters :
           pc'[d] # "idle" /\ pc'[e] # "idle" /\ call'[d] = call'[e] => d = e
    BY <2>3, <2>6 DEF Requests, PendingCalls
  <2>8. \A d \in Starters : call'[d] <= calls'
    BY <2>1, <2>2, <2>3 DEF Requests, PendingCalls
  <2>9. \A k \in Calls : k > calls' => outcome'[k] = "none"
    BY <2>1, <2>3, BoundsAssumption DEF Requests, PendingCalls, Calls
  <2> QED  BY <2>4, <2>5, <2>7, <2>8, <2>9 DEF Requests, PendingCalls
<1>3. ASSUME NEW c \in Starters, StartStep(c)
      PROVE  Requests'
  <2>1. /\ pc[c] # "idle" /\ UNCHANGED <<call, calls>>
        /\ \A d \in Starters \ {c} : pc'[d] = pc[d]
    BY <1>1, <1>3, StarterEffect
  <2>2. CASE UNCHANGED <<arg, outcome>>
    BY <2>1, <2>2 DEF Requests, ActiveHasParams, PendingCalls
  <2>3. ASSUME NEW how \in {"refused", "failed", "committed"}, Return(c, how)
        PROVE  Requests'
    <3>1. /\ pc'[c] = "idle"
          /\ \A d \in Starters \ {c} : pc'[d] = pc[d] /\ arg'[d] = arg[d]
          /\ \A k \in Calls \ {call[c]} : outcome'[k] = outcome[k]
      BY <1>1, <2>3 DEF Return, Unlock, Goto, RequestTypeOK
    <3>2. \A d \in Starters : call[d] \in Calls /\ call[d] <= calls
      BY <1>1 DEF RequestTypeOK, Requests, PendingCalls
    <3>3. ActiveHasParams'
      BY <3>1 DEF Requests, ActiveHasParams
    <3>4. \A d \in Starters \ {c} : pc[d] # "idle" => call[d] # call[c]
      BY <2>1 DEF Requests, PendingCalls
    <3>5. \A k \in Calls : k > calls => k # call[c]
      BY <1>1, <3>2, BoundsAssumption DEF RequestTypeOK, Calls
    <3> QED  BY <2>1, <3>1, <3>2, <3>3, <3>4, <3>5 DEF Requests, PendingCalls
  <2> QED  BY <1>1, <1>3, <2>2, <2>3, StarterEffect
<1>4. CASE \/ \E c \in Starters : Cancel(c)
           \/ \E t \in Stoppers : StopCall(t) \/ StopStep(t)
           \/ \E e \in Editors : EditStep(e)
           \/ \E i \in Instances : Crash(i) \/ Reap(i) \/ Fork(i) \/ Announce(i)
           \/ LoseBoundary
           \/ UNCHANGED vars
  <2>1. /\ UNCHANGED <<call, arg, calls, outcome>>
        /\ \A c \in Starters : pc'[c] = pc[c]
    BY <1>1, <1>4, OtherEffect
  <2> QED  BY <2>1 DEF Requests, ActiveHasParams, PendingCalls
<1> QED
  BY <1>2, <1>3, <1>4 DEF Next

-----------------------------------------------------------------------------

\* The first layer of the invariant.
Basic == TypeOK /\ MutexDiscipline /\ Requests

\* The first layer holds initially,
LEMMA BasicInit == Init => Basic
<1> SUFFICES ASSUME Init PROVE Basic
  OBVIOUS
<1>1. Requests
  BY BoundsAssumption
     DEF Init, Requests, ActiveHasParams, PendingCalls, Calls, Clients, Lifecycle
<1> QED  BY <1>1, InitTypes DEF Basic

\* is preserved by every step,
LEMMA BasicStep == Basic /\ [Next]_vars => Basic'
<1> SUFFICES ASSUME Basic, [Next]_vars PROVE Basic'
  OBVIOUS
<1>1. TypeOK /\ MutexDiscipline /\ ActiveHasParams /\ Requests /\ Control
  BY DEF Basic, Requests, Control, TypeOK
<1>2. Types'
  BY <1>1, StarterTypes, StopperTypes, OtherTypes DEF Next
<1>3. Control'
  BY <1>1, ControlStep
<1>4. Requests'
  BY <1>1, RequestsStep
<1> QED  BY <1>2, <1>3, <1>4 DEF Basic, Control, Types, TypeOK

\* and so always holds.
LEMMA BasicInvariant == Spec => []Basic
<1>1. Basic /\ UNCHANGED vars => Basic'
  BY BasicStep
<1> QED  BY BasicInit, BasicStep, PTL DEF Spec

\* Every variable stays in its type, for every number of callers, calls and
\* crashes: no action of Start, Stop or the environment leaves it.
THEOREM TypeCorrect == Spec => []TypeOK
<1>1. Basic => TypeOK
  BY DEF Basic
<1> QED  BY <1>1, BasicInvariant, PTL

\* Manager.mu is held by exactly the caller that is inside a lifecycle or
\* configuration call: no return or error path of Start, Stop, UpdateConfig
\* or WithStoppedCell keeps it or runs without it.
THEOREM MutexDisciplineHolds == Spec => []MutexDiscipline
<1>1. Basic => MutexDiscipline
  BY DEF Basic
<1> QED  BY <1>1, BasicInvariant, PTL

-----------------------------------------------------------------------------
(* What a Start call owns: the second layer.  A process launched by a call  *)
(* that is not committed belongs to the call that holds the mutex, which    *)
(* still has a handle on it or on the OpenBTS that forked it.  Hence a      *)
(* rolled back attempt leaves nothing behind and kills nothing else.        *)


\* The control points of Start at which it may own processes.
Launching == Services \cup {"settle", "openbts", "ready", "tmsis", "profile",
                            "rollback"}

OwnedByHolder ==
    owned # {} => /\ mu \in Starters
                  /\ pc[mu] \in Launching
                  /\ \A i \in owned : i.call = call[mu]

\* A live process that a rollback would have to find.
Uncommitted(i) ==
    i \in live /\ i.call # 0 /\ ~MayLinger(i.name) /\ outcome[i.call] # "committed"

LiveIsOwned ==
    \A i \in Instances :
        Uncommitted(i) =>
            /\ mu \in Starters
            /\ i.call = call[mu]
            /\ i \in owned \/ (i.name = "transceiver" /\ Main(mu) \in owned)

Ownership == OwnedByHolder /\ LiveIsOwned

\* The holder of the mutex steps inside its call.
LEMMA HolderSteps ==
  ASSUME NEW c \in Starters, Basic, StartStep(c), ~StartLock(c)
  PROVE  mu = c
<1>1. Inside(c)
  BY DEF StartStep, StartAdmit, StartPrepare, StartConfig, StartSession,
         StartService, StartSettle, StartOpenBTS, StartReady, StartTmsis,
         StartSaveFails, StartCommit, StartUndo, StartFailed, Inside, Services
<1>2. c \in Clients \ Probes
  BY ClientsAssumption DEF Clients, Lifecycle
<1> QED  BY <1>1, <1>2 DEF Basic, MutexDiscipline

\* A record of Instances is determined by its two fields.
LEMMA InstanceEq ==
  ASSUME NEW i \in Instances, NEW k, NEW n, i.call = k, i.name = n
  PROVE  i = [call |-> k, name |-> n]
  BY DEF Instances

\* Steps that launch, own and return nothing.
LEMMA OwnershipShrinks ==
  ASSUME Basic, Ownership, live' \subseteq live,
         UNCHANGED <<mu, call, owned, outcome>>,
         owned # {} => pc'[mu] \in Launching
  PROVE  Ownership'
  BY DEF Ownership, OwnedByHolder, LiveIsOwned, Uncommitted, Main

\* Steps at which nothing is owned: the mutex changes hands or is free.
LEMMA OwnershipIdle ==
  ASSUME Basic, Ownership, owned = {}, owned' = {}, live' = live,
         \A k \in Calls : outcome[k] = "committed" => outcome'[k] = "committed"
  PROVE  Ownership'
<1>1. \A i \in Instances : i.call \in Calls
  BY DEF Instances
<1> QED  BY <1>1 DEF Ownership, OwnedByHolder, LiveIsOwned, Uncommitted

\* A launched child is owned by the call that launched it.
LEMMA OwnershipLaunch ==
  ASSUME NEW c \in Starters, NEW n \in Names, Basic, Ownership, mu = c,
         Launch(call[c], n), pc'[c] \in Launching, UNCHANGED <<mu, call, outcome>>
  PROVE  Ownership'
<1>1. OwnedByHolder'
  BY DEF Ownership, OwnedByHolder, Launch
<1>2. ASSUME NEW i \in Instances, Uncommitted(i)'
      PROVE  i.call = call[c] /\ (i \in owned' \/ (i.name = "transceiver" /\ Main(c) \in owned'))
  <2>1. CASE i \in live
    BY <1>2, <2>1 DEF Ownership, LiveIsOwned, Uncommitted, Launch
  <2>2. CASE i = [call |-> call[c], name |-> n]
    BY <2>2 DEF Launch
  <2> QED  BY <1>2, <2>1, <2>2 DEF Uncommitted, Launch
<1> QED  BY <1>1, <1>2 DEF Ownership, LiveIsOwned, Main

\* Every step of a Start call keeps track of what it owns.
LEMMA OwnershipStarter ==
  ASSUME NEW c \in Starters, Basic, Ownership, StartStep(c)
  PROVE  Ownership'
<1> USE DEF Fail, Goto, requestVars, allButControl, processVars
<1>1. /\ pc \in [Clients -> StartPoints \cup StopPoints \cup EditPoints
                               \cup ProbePoints]
      /\ c \in Clients
      /\ call[c] \in Calls /\ outcome \in [Calls -> {"none", "pending", "refused",
                                                   "failed", "committed"}]
      /\ c # Nobody /\ Nobody \notin Starters
  BY ClientsAssumption
     DEF Basic, TypeOK, ControlTypeOK, RequestTypeOK, Clients, Lifecycle
<1>2. pc[c] # "idle" /\ outcome[call[c]] = "pending"
  BY StarterEffect DEF Basic, Requests, PendingCalls, TypeOK
<1>3. pc[c] \notin Launching /\ (mu = c \/ mu = Nobody) => owned = {}
  BY <1>1 DEF Ownership, OwnedByHolder
<1>4. CASE StartLock(c)
  <2>1. owned = {}
    BY <1>1, <1>4 DEF StartLock, Ownership, OwnedByHolder
  <2> QED  BY <1>4, <2>1, OwnershipIdle DEF StartLock
<1>5. CASE StartAdmit(c)
  <2>1. mu = c  BY <1>5, HolderSteps DEF StartAdmit, StartLock
  <2>2. owned = {} /\ UNCHANGED <<owned, live>>
    BY <1>3, <1>5, <2>1 DEF StartAdmit, Launching, Services
  <2>3. \A k \in Calls : outcome[k] = "committed" => outcome'[k] = "committed"
    BY <1>1, <1>2, <1>5 DEF StartAdmit, Refuse, Return
  <2> QED  BY <2>2, <2>3, OwnershipIdle
<1>6. CASE StartPrepare(c) \/ StartConfig(c) \/ StartSession(c)
  <2>1. mu = c
    BY <1>6, HolderSteps DEF StartPrepare, StartConfig, StartSession, StartLock
  <2>2. owned = {} /\ UNCHANGED <<owned, live, outcome>>
    BY <1>3, <1>6, <2>1
       DEF StartPrepare, StartConfig, StartSession, Launching, Services
  <2> QED  BY <2>2, OwnershipIdle
<1>7. CASE StartService(c)
  <2>1. mu = c  BY <1>7, HolderSteps DEF StartService, StartLock, Services
  <2>0. \A n \in Services : NextLaunch[n] \in Launching
    BY DEF Launching, Services, NextLaunch
  <2>2. pc'[c] \in Launching
    BY <1>1, <1>7, <2>0 DEF StartService, Launching
  <2>3. CASE UNCHANGED <<live, open, owned>>
    BY <1>7, <2>1, <2>2, <2>3, OwnershipShrinks DEF StartService
  <2>4. CASE Launch(call[c], pc[c])
    BY <1>7, <2>1, <2>2, <2>4, OwnershipLaunch DEF StartService, Names
  <2> QED  BY <1>7, <2>3, <2>4 DEF StartService
<1>8. CASE StartSettle(c) \/ StartReady(c) \/ StartTmsis(c) \/ StartSaveFails(c)
  <2>1. mu = c
    BY <1>8, HolderSteps
       DEF StartSettle, StartReady, StartTmsis, StartSaveFails, StartLock
  <2>2. pc'[c] \in Launching /\ UNCHANGED <<live, owned, mu, call, outcome>>
    BY <1>1, <1>8 DEF StartSettle, StartReady, StartTmsis, StartSaveFails, Check,
                      Launching
  <2> QED  BY <2>1, <2>2, OwnershipShrinks
<1>9. CASE StartOpenBTS(c)
  <2>1. mu = c  BY <1>9, HolderSteps DEF StartOpenBTS, StartLock
  <2>2. pc'[c] \in Launching
    BY <1>1, <1>9 DEF StartOpenBTS, Launching
  <2>3. CASE UNCHANGED <<live, open, owned>>
    BY <1>9, <2>1, <2>2, <2>3, OwnershipShrinks DEF StartOpenBTS
  <2>4. CASE Launch(call[c], "OpenBTS")
    BY <1>9, <2>1, <2>2, <2>4, OwnershipLaunch DEF StartOpenBTS, Names
  <2> QED  BY <1>9, <2>3, <2>4 DEF StartOpenBTS
<1>10. CASE StartCommit(c)
  <2>1. mu = c  BY <1>10, HolderSteps DEF StartCommit, StartLock
  <2>2. outcome' = [outcome EXCEPT ![call[c]] = "committed"]
    BY <1>10 DEF StartCommit, Return
  <2>3. live' = live /\ owned' = {}
    BY <1>10 DEF StartCommit
  <2>4. \A i \in Instances : i.call \in Calls
    BY DEF Instances
  <2>5. \A i \in Instances : ~Uncommitted(i)'
    BY <1>1, <2>1, <2>2, <2>3, <2>4 DEF Ownership, LiveIsOwned, Uncommitted
  <2> QED  BY <2>3, <2>5 DEF Ownership, OwnedByHolder, LiveIsOwned
<1>11. CASE StartUndo(c)
  <2>1. mu = c  BY <1>11, HolderSteps DEF StartUndo, StartLock
  <2>2. PICK i \in owned : live' \in Kill(Group(i)) /\ owned' = owned \ {i}
    BY <1>11 DEF StartUndo
  <2>3. UNCHANGED <<pc, mu, call, outcome>>
    BY <1>11 DEF StartUndo
  <2>4. OwnedByHolder'
    BY <2>2, <2>3 DEF Ownership, OwnedByHolder
  <2>5. ASSUME NEW j \in Instances, Uncommitted(j)'
        PROVE  j.call = call[c]
               /\ (j \in owned' \/ (j.name = "transceiver" /\ Main(c) \in owned'))
    <3>1. j \in live /\ Uncommitted(j)
      BY <2>2, <2>3, <2>5, KillShrinks DEF Uncommitted
    <3>2. j.call = call[c]
          /\ (j \in owned \/ (j.name = "transceiver" /\ Main(c) \in owned))
      BY <2>1, <3>1 DEF Ownership, LiveIsOwned
    <3>3. j \notin Group(i)
      <4>1. PICK kept \in SUBSET {k \in Group(i) : k.name \in Stubborn} :
               live' = live \ (Group(i) \ kept)
        BY <2>2 DEF Kill
      <4>2. j.name \notin Stubborn /\ j \in live'
        BY <2>5 DEF Uncommitted, MayLinger
      <4> QED  BY <4>1, <4>2
    <3>4. j # i
      BY <3>1, <3>3 DEF Group
    <3>5. ~(j.name = "transceiver" /\ i = Main(c))
      BY <3>1, <3>2, <3>3 DEF Group, Main
    <3> QED  BY <2>2, <3>2, <3>4, <3>5
  <2> QED  BY <2>1, <2>3, <2>4, <2>5 DEF Ownership, LiveIsOwned, Main
<1>12. CASE StartFailed(c)
  <2>1. owned = {} /\ UNCHANGED <<owned, live>>
    BY <1>12 DEF StartFailed
  <2>2. \A k \in Calls : outcome[k] = "committed" => outcome'[k] = "committed"
    BY <1>1, <1>2, <1>12 DEF StartFailed, Return
  <2> QED  BY <2>1, <2>2, OwnershipIdle
<1> QED
  BY <1>4, <1>5, <1>6, <1>7, <1>8, <1>9, <1>10, <1>11, <1>12 DEF StartStep

\* A Stop call holds the mutex while nothing is owned.
LEMMA OwnershipStopper ==
  ASSUME NEW t \in Stoppers, Basic, Ownership, StopStep(t)
  PROVE  Ownership'
<1> USE DEF requestVars, allButControl, processVars
<1>1. t \in Clients \ Probes /\ t \notin Starters /\ Nobody \notin Starters
  BY ClientsAssumption DEF Clients, Lifecycle
<1>2. mu = t \/ mu = Nobody
  <2>1. StopLock(t) => mu = Nobody
    BY DEF StopLock
  <2>2. ~StopLock(t) => Inside(t)
    BY DEF StopStep, StopChildren, StopMain, StopKillAll, StopVerify, Inside,
           Names, Services
  <2> QED  BY <1>1, <2>1, <2>2 DEF Basic, MutexDiscipline
<1>3. owned = {}
  BY <1>1, <1>2 DEF Ownership, OwnedByHolder
<1>4. CASE StopLock(t)
  BY <1>3, <1>4, OwnershipIdle DEF StopLock
<1>5. CASE StopChildren(t) \/ StopMain(t) \/ StopKillAll(t)
  <2>1. live' \subseteq live /\ UNCHANGED <<mu, call, owned, outcome>>
    BY <1>5, KillShrinks DEF StopChildren, StopMain, StopKillAll
  <2> QED  BY <1>3, <2>1, OwnershipShrinks
<1>6. CASE StopVerify(t)
  BY <1>3, <1>6, OwnershipIdle DEF StopVerify
<1> QED  BY <1>4, <1>5, <1>6 DEF StopStep

\* So does a configuration request.
LEMMA OwnershipEditor ==
  ASSUME NEW e \in Editors, Basic, Ownership, EditStep(e)
  PROVE  Ownership'
<1> USE DEF requestVars, allButControl, processVars
<1>1. e \in Clients \ Probes /\ e \notin Starters /\ Nobody \notin Starters
  BY ClientsAssumption DEF Clients, Lifecycle
<1>2. mu = e \/ mu = Nobody
  <2>1. EditLock(e) => mu = Nobody
    BY DEF EditLock
  <2>2. ~EditLock(e) => Inside(e)
    BY DEF EditStep, UpdateConfig, PutNetwork, Inside
  <2> QED  BY <1>1, <2>1, <2>2 DEF Basic, MutexDiscipline
<1>3. owned = {}
  BY <1>1, <1>2 DEF Ownership, OwnedByHolder
<1>4. UNCHANGED <<live, owned, outcome>>
  BY DEF EditStep, EditLock, UpdateConfig, PutNetwork
<1> QED  BY <1>3, <1>4, OwnershipIdle

\* A new request takes a number that no process has.
LEMMA OwnershipStartCall ==
  ASSUME NEW c \in Starters, NEW p \in Params, Basic, Ownership, StartCall(c, p)
  PROVE  Ownership'
<1>1. c \in Clients \ Probes
  BY ClientsAssumption DEF Clients, Lifecycle
<1>2. mu # c
  BY <1>1 DEF StartCall, Basic, MutexDiscipline, Inside
<1>3. calls + 1 \in Calls /\ outcome[calls + 1] = "none"
  BY BoundsAssumption DEF StartCall, Basic, TypeOK, RequestTypeOK, Requests,
                          PendingCalls, Calls
<1>4. mu \in Starters => call'[mu] = call[mu] /\ pc'[mu] = pc[mu]
  BY <1>2 DEF StartCall, Goto, Basic, TypeOK, RequestTypeOK, ControlTypeOK, Clients,
              Lifecycle
<1>5. UNCHANGED <<mu, live, owned>>
  BY DEF StartCall, processVars
<1>6. \A k \in Calls : outcome'[k] # "committed" => outcome[k] # "committed"
  BY <1>3 DEF StartCall, Basic, TypeOK, RequestTypeOK
<1>7. \A i \in Instances : i.call \in Calls
  BY DEF Instances
<1>8. OwnedByHolder'
  BY <1>4, <1>5 DEF Ownership, OwnedByHolder
<1>9. LiveIsOwned'
  BY <1>4, <1>5, <1>6, <1>7 DEF Ownership, LiveIsOwned, Uncommitted, Main
<1> QED  BY <1>8, <1>9 DEF Ownership

\* OpenBTS forks its transceiver into its own group, and call.
LEMMA OwnershipFork ==
  ASSUME NEW i \in Instances, Basic, Ownership, Fork(i)
  PROVE  Ownership'
<1> DEFINE child == [call |-> i.call, name |-> "transceiver"]
<1>1. /\ i \in live /\ i.name = "OpenBTS" /\ live' = live \cup {child}
      /\ UNCHANGED <<pc, mu, call, owned, outcome>>
  BY DEF Fork, Named, requestVars
<1>2. OwnedByHolder'
  BY <1>1 DEF Ownership, OwnedByHolder
<1>3. ASSUME NEW j \in Instances, Uncommitted(j)'
      PROVE  /\ mu \in Starters /\ j.call = call[mu]
             /\ j \in owned \/ (j.name = "transceiver" /\ Main(mu) \in owned)
  <2>1. CASE j \in live
    BY <1>1, <1>3, <2>1 DEF Ownership, LiveIsOwned, Uncommitted
  <2>2. CASE j = child
    <3>1. Uncommitted(i)
      BY <1>1, <1>3, <2>2 DEF Uncommitted, MayLinger
    <3>2. mu \in Starters /\ i.call = call[mu] /\ i \in owned
      BY <1>1, <3>1 DEF Ownership, LiveIsOwned
    <3>3. i = Main(mu)
      BY <1>1, <3>2, InstanceEq DEF Main
    <3> QED  BY <2>2, <3>2, <3>3
  <2> QED  BY <1>1, <1>3, <2>1, <2>2 DEF Uncommitted
<1> QED  BY <1>1, <1>2, <1>3 DEF Ownership, LiveIsOwned, Main

\* Ownership is inductive relative to the first layer.
LEMMA OwnershipStep ==
  ASSUME Basic, Ownership, [Next]_vars
  PROVE  Ownership'
<1> USE DEF requestVars, allButControl, processVars
<1>1. owned # {} => pc[mu] \in Launching /\ mu \in Starters
  BY DEF Ownership, OwnedByHolder
<1>2. ASSUME NEW c \in Starters, Cancel(c)
      PROVE  Ownership'
  BY <1>1, <1>2, OwnershipShrinks DEF Cancel
<1>3. ASSUME NEW t \in Stoppers, StopCall(t)
      PROVE  Ownership'
  <2>1. mu \in Starters => pc'[mu] = pc[mu]
    BY <1>3, OtherEffect DEF Basic, TypeOK
  <2> QED  BY <1>1, <1>3, <2>1, OwnershipShrinks DEF StopCall
<1>4. ASSUME NEW i \in Instances, Crash(i) \/ Reap(i) \/ Announce(i)
      PROVE  Ownership'
  BY <1>1, <1>4, OwnershipShrinks DEF Crash, Reap, Announce
<1>5. CASE LoseBoundary
  BY <1>1, <1>5, OwnershipShrinks DEF LoseBoundary
<1>6. CASE UNCHANGED vars
  BY <1>1, <1>6, OwnershipShrinks DEF vars
<1> QED
  BY <1>2, <1>3, <1>4, <1>5, <1>6, OwnershipStarter, OwnershipStopper,
     OwnershipEditor, OwnershipStartCall, OwnershipFork DEF Next

\* Initially nothing is owned and only foreign processes run,
LEMMA OwnershipInit == Init => Ownership
  BY DEF Init, Ownership, OwnedByHolder, LiveIsOwned, Uncommitted

\* and so both layers always hold.
LEMMA OwnershipInvariant == Spec => [](Basic /\ Ownership)
<1>1. Init => Basic /\ Ownership
  BY BasicInit, OwnershipInit
<1>2. (Basic /\ Ownership) /\ [Next]_vars => (Basic /\ Ownership)'
  BY BasicStep, OwnershipStep
<1> QED  BY <1>1, <1>2, PTL DEF Spec

-----------------------------------------------------------------------------

\* Start's deferred rollback: once a Start call has failed or was refused, no
\* process it launched is running, but those that may outlive a KILL and the
\* transceiver of an OpenBTS that may.
THEOREM FailedStartLeavesNothingHolds == Spec => []FailedStartLeavesNothing
<1>1. Basic /\ Ownership => FailedStartLeavesNothing
  <2> SUFFICES ASSUME Basic, Ownership, NEW i \in live, i.call # 0,
                      ~MayLinger(i.name), outcome[i.call] # "committed"
               PROVE  outcome[i.call] = "pending"
    BY DEF FailedStartLeavesNothing
  <2>1. i \in Instances
    BY DEF Basic, TypeOK, ProcessTypeOK
  <2>2. mu \in Starters /\ i.call = call[mu] /\ owned # {}
    BY <2>1 DEF Ownership, LiveIsOwned, Uncommitted
  <2>3. pc[mu] # "idle"
    BY <2>2 DEF Ownership, OwnedByHolder, Launching, Services
  <2> QED  BY <2>2, <2>3 DEF Basic, Requests, PendingCalls
<1> QED  BY <1>1, OwnershipInvariant, PTL

\* "Pre-existing system services are deliberately left alone": while a Start
\* call holds the mutex, the only processes its steps kill are its own.
THEOREM RollbackSparesOthersHolds == Spec => RollbackSparesOthers
<1> DEFINE Spares == (mu \in Starters /\ crashes' = crashes)
                        => \A i \in live \ live' : i.call = call[mu]
<1>1. ASSUME Basic, Ownership, [Next]_vars
      PROVE  [Spares]_vars
  <2> SUFFICES ASSUME mu \in Starters, crashes' = crashes, NEW j \in live, j \notin live'
               PROVE  j.call = call[mu]
    OBVIOUS
  <2> USE DEF requestVars, allButControl, processVars
  <2>1. ASSUME NEW c \in Starters, StartUndo(c)
        PROVE  j.call = call[mu]
    <3>1. mu = c
      BY <1>1, <2>1, HolderSteps DEF StartStep, StartUndo, StartLock
    <3>2. PICK i \in owned : live' \in Kill(Group(i))
      BY <2>1 DEF StartUndo
    <3>3. i.call = call[c]
      BY <1>1, <3>1 DEF Ownership, OwnedByHolder
    <3>4. j \in Group(i)
      BY <3>2 DEF Kill
    <3> QED  BY <3>1, <3>3, <3>4 DEF Group
  <2>2. ASSUME NEW c \in Starters, StartStep(c), ~StartUndo(c)
        PROVE  FALSE
    BY <2>2 DEF StartStep, StartLock, StartAdmit, StartPrepare, StartConfig,
                StartSession, StartService, StartSettle, StartOpenBTS, StartReady,
                StartTmsis, StartSaveFails, StartCommit, StartFailed, Launch
  <2>3. ASSUME NEW t \in Stoppers, StopStep(t)
        PROVE  FALSE
    <3>1. t \in Clients \ Probes /\ t \notin Starters
      BY ClientsAssumption DEF Clients, Lifecycle
    <3>2. ~Inside(t)
      BY <1>1, <3>1 DEF Basic, MutexDiscipline
    <3>3. CASE StopLock(t)  BY <3>3 DEF StopLock
    <3>4. CASE ~StopLock(t)
      BY <2>3, <3>2, <3>4 DEF StopStep, StopChildren, StopMain, StopKillAll,
                              StopVerify, Inside, Names, Services
    <3> QED  BY <3>3, <3>4
  <2>4. ASSUME NEW e \in Editors, EditStep(e)
        PROVE  FALSE
    BY <2>4 DEF EditStep, EditLock, UpdateConfig, PutNetwork
  <2>5. ASSUME NEW i \in Instances, Crash(i) \/ Reap(i) \/ Fork(i) \/ Announce(i)
        PROVE  FALSE
    <3>1. ~Crash(i)
      BY <1>1, BoundsAssumption DEF Crash, Basic, TypeOK, ProcessTypeOK
    <3> QED  BY <2>5, <3>1 DEF Reap, Fork, Announce
  <2>6. ASSUME NEW c \in Starters, (\E p \in Params : StartCall(c, p)) \/ Cancel(c)
        PROVE  FALSE
    BY <2>6 DEF StartCall, Cancel
  <2>7. ASSUME NEW t \in Stoppers, StopCall(t)
        PROVE  FALSE
    BY <2>7 DEF StopCall
  <2>8. ~LoseBoundary /\ ~UNCHANGED vars
    BY DEF LoseBoundary, vars
  <2> QED
    BY <1>1, <2>1, <2>2, <2>3, <2>4, <2>5, <2>6, <2>7, <2>8 DEF Next
<1> QED  BY <1>1, OwnershipInvariant, PTL DEF Spec, RollbackSparesOthers

-----------------------------------------------------------------------------
(* One process of each name, as long as `ps' answers.  A transceiver        *)
(* belongs to the OpenBTS that runs, so a fork never makes a second one,    *)
(* and a Start that has not launched its OpenBTS yet has seen that none     *)
(* runs, and no transceiver that could fork behind its back.                *)

\* The control points of an accepted Start before it launches OpenBTS.
BeforeMain == {"prepare", "config", "session", "settle", "openbts"} \cup Services

Alone == \A i, j \in live : i.name = j.name => i = j

ForkedByOwn ==
    \A i, j \in live :
        i.name = "OpenBTS" /\ j.name = "transceiver" => i.call = j.call

RadioIsFree ==
    mu \in Starters /\ pc[mu] \in BeforeMain
        => \A i \in live : i.name \notin {"OpenBTS", "transceiver"}

Unique == ~PsMayFail => Alone /\ ForkedByOwn /\ RadioIsFree

\* Steps that launch and admit nothing.
LEMMA UniqueShrinks ==
  ASSUME Unique, live' \subseteq live,
         mu' \in Starters /\ pc'[mu'] \in BeforeMain
            => mu \in Starters /\ pc[mu] \in BeforeMain
  PROVE  Unique'
<1> SUFFICES ASSUME ~PsMayFail PROVE (Alone /\ ForkedByOwn /\ RadioIsFree)'
  BY DEF Unique
<1>1. Alone /\ ForkedByOwn /\ RadioIsFree
  BY DEF Unique
<1>2. Alone'
  BY <1>1 DEF Alone
<1>3. ForkedByOwn'
  BY <1>1 DEF ForkedByOwn
<1>4. RadioIsFree'
  BY <1>1 DEF RadioIsFree
<1> QED  BY <1>2, <1>3, <1>4

\* As long as `ps' answers, a negative answer is the truth.
LEMMA ListedSound ==
  ASSUME NEW names, ~PsMayFail, FALSE \in Listed(names)
  PROVE  \A i \in live : i.name \notin names
  BY DEF Listed

\* cellRunningLocked, as long as `ps' answers.
LEMMA RadioSeenFree ==
  ASSUME ~PsMayFail, FALSE \in CellRunning
  PROVE  \A i \in live : i.name \notin {"OpenBTS", "transceiver"}
<1>1. PICK up \in Listed({"OpenBTS", "transceiver"}) : FALSE = (Alive(openbts) \/ up)
  BY DEF CellRunning
<1>2. up = (\E i \in live : i.name \in {"OpenBTS", "transceiver"})
  BY DEF Listed
<1> QED  BY <1>1, <1>2

\* A Start call launches nothing that its admission has not ruled out.
LEMMA UniqueStarter ==
  ASSUME NEW c \in Starters, Basic, Unique, StartStep(c)
  PROVE  Unique'
<1> USE DEF Fail, requestVars, allButControl, processVars
<1>1. /\ pc \in [Clients -> StartPoints \cup StopPoints \cup EditPoints
                               \cup ProbePoints]
      /\ c \in Clients /\ Nobody \notin Starters
  BY ClientsAssumption DEF Basic, TypeOK, ControlTypeOK, Clients, Lifecycle
<1>2. ASSUME NEW pt, Goto(c, pt)
      PROVE  pc'[c] = pt
  BY <1>1, <1>2 DEF Goto
<1>3. ~StartLock(c) => mu = c
  BY HolderSteps
<1>4. CASE StartLock(c)
  <2>1. mu' = c /\ pc'[c] = "admit" /\ live' = live
    BY <1>2, <1>4 DEF StartLock
  <2> QED  BY <2>1, UniqueShrinks DEF BeforeMain, Services
<1>5. CASE StartAdmit(c)
  <2>1. mu = c /\ live' = live
    BY <1>3, <1>5 DEF StartAdmit, StartLock
  <2>2. CASE Refuse(c)
    BY <1>1, <2>1, <2>2, UniqueShrinks DEF Refuse, Return, Unlock
  <2>3. CASE FALSE \in CellRunning /\ UNCHANGED mu
    <3> SUFFICES ASSUME ~PsMayFail PROVE (Alone /\ ForkedByOwn /\ RadioIsFree)'
      BY DEF Unique
    <3>1. Alone' /\ ForkedByOwn'
      BY <2>1 DEF Unique, Alone, ForkedByOwn
    <3>2. RadioIsFree'
      BY <2>1, <2>3, RadioSeenFree DEF RadioIsFree
    <3> QED  BY <3>1, <3>2
  <2> QED  BY <1>5, <2>2, <2>3 DEF StartAdmit
<1>6. CASE StartPrepare(c) \/ StartConfig(c) \/ StartSession(c) \/ StartSettle(c)
  <2>1. mu = c /\ mu' = mu /\ live' = live /\ pc[c] \in BeforeMain
    BY <1>3, <1>6 DEF StartPrepare, StartConfig, StartSession, StartSettle, StartLock,
                      BeforeMain
  <2> QED  BY <2>1, UniqueShrinks
<1>7. CASE StartService(c)
  <2>1. mu = c /\ mu' = mu /\ pc[c] \in BeforeMain /\ pc[c] \in Services
    BY <1>3, <1>7 DEF StartService, StartLock, BeforeMain, Services
  <2>2. CASE UNCHANGED live
    BY <2>1, <2>2, UniqueShrinks
  <2>3. CASE FALSE \in Running(pc[c]) /\ Launch(call[c], pc[c])
    <3> SUFFICES ASSUME ~PsMayFail PROVE (Alone /\ ForkedByOwn /\ RadioIsFree)'
      BY DEF Unique
    <3> DEFINE child == [call |-> call[c], name |-> pc[c]]
    <3>1. live' = live \cup {child} /\ child.name = pc[c]
      BY <2>3 DEF Launch
    <3>2. \A i \in live : i.name # pc[c]
      BY <2>3, ListedSound DEF Running
    <3>3. pc[c] \notin {"OpenBTS", "transceiver"}
      BY <2>1 DEF Services
    <3>4. Alone /\ ForkedByOwn /\ RadioIsFree
      BY DEF Unique
    <3> HIDE DEF child
    <3>5. Alone'
      BY <3>1, <3>2, <3>4 DEF Alone
    <3>6. ForkedByOwn'
      BY <3>1, <3>3, <3>4 DEF ForkedByOwn
    <3>7. RadioIsFree'
      BY <2>1, <3>1, <3>3, <3>4 DEF RadioIsFree
    <3> QED  BY <3>5, <3>6, <3>7
  <2> QED  BY <1>7, <2>2, <2>3 DEF StartService
<1>8. CASE StartOpenBTS(c)
  <2>1. mu = c /\ mu' = mu /\ pc[c] \in BeforeMain
    BY <1>3, <1>8 DEF StartOpenBTS, StartLock, BeforeMain
  <2>2. CASE UNCHANGED live
    BY <2>1, <2>2, UniqueShrinks
  <2>3. CASE Launch(call[c], "OpenBTS") /\ Goto(c, "ready")
    <3> SUFFICES ASSUME ~PsMayFail PROVE (Alone /\ ForkedByOwn /\ RadioIsFree)'
      BY DEF Unique
    <3> DEFINE child == [call |-> call[c], name |-> "OpenBTS"]
    <3>1. live' = live \cup {child} /\ child.name = "OpenBTS"
      BY <2>3 DEF Launch
    <3>2. \A i \in live : i.name \notin {"OpenBTS", "transceiver"}
      BY <2>1 DEF Unique, RadioIsFree
    <3>3. Alone
      BY DEF Unique
    <3>4. pc'[c] = "ready"
      BY <1>2, <2>3
    <3> HIDE DEF child
    <3>5. Alone'
      BY <3>1, <3>2, <3>3 DEF Alone
    <3>6. ForkedByOwn'
      BY <3>1, <3>2 DEF ForkedByOwn
    <3>7. RadioIsFree'
      BY <2>1, <3>4 DEF RadioIsFree, BeforeMain, Services
    <3> QED  BY <3>5, <3>6, <3>7
  <2> QED  BY <1>8, <2>2, <2>3 DEF StartOpenBTS
<1>9. CASE StartReady(c) \/ StartTmsis(c) \/ StartSaveFails(c)
  <2>1. mu = c /\ mu' = c /\ live' = live
    BY <1>3, <1>9 DEF StartReady, StartTmsis, StartSaveFails, StartLock
  <2>2. pc'[c] \in {"tmsis", "profile", "rollback"}
    BY <1>2, <1>9 DEF StartReady, StartTmsis, StartSaveFails, Check
  <2> QED  BY <2>1, <2>2, UniqueShrinks DEF BeforeMain, Services
<1>10. CASE StartCommit(c) \/ StartFailed(c)
  <2>1. mu' = Nobody /\ live' = live
    BY <1>10 DEF StartCommit, StartFailed, Return, Unlock
  <2> QED  BY <1>1, <2>1, UniqueShrinks
<1>11. CASE StartUndo(c)
  <2>1. live' \subseteq live /\ UNCHANGED <<pc, mu>>
    BY <1>11, KillShrinks DEF StartUndo
  <2> QED  BY <2>1, UniqueShrinks
<1> QED
  BY <1>4, <1>5, <1>6, <1>7, <1>8, <1>9, <1>10, <1>11 DEF StartStep

\* A fork gives an OpenBTS that has none its only transceiver.
LEMMA UniqueFork ==
  ASSUME NEW i \in Instances, Basic, Unique, Fork(i)
  PROVE  Unique'
<1> SUFFICES ASSUME ~PsMayFail PROVE (Alone /\ ForkedByOwn /\ RadioIsFree)'
  BY DEF Unique
<1> DEFINE child == [call |-> i.call, name |-> "transceiver"]
<1>1. /\ i \in live /\ i.name = "OpenBTS" /\ child \notin live
      /\ live' = live \cup {child} /\ UNCHANGED <<pc, mu>>
  BY DEF Fork, Named
<1>2. Alone /\ ForkedByOwn /\ RadioIsFree
  BY DEF Unique
<1>3. \A j \in live : j.name # "transceiver"
  <2> SUFFICES ASSUME NEW j \in live, j.name = "transceiver" PROVE FALSE
    OBVIOUS
  <2>1. j.call = i.call /\ j \in Instances
    BY <1>1, <1>2 DEF ForkedByOwn, Basic, TypeOK, ProcessTypeOK
  <2>2. j = child
    BY <2>1, InstanceEq
  <2> QED  BY <1>1, <2>2
<1>4. child.name = "transceiver" /\ child.call = i.call
  OBVIOUS
<1> HIDE DEF child
<1>5. Alone'
  BY <1>1, <1>2, <1>3, <1>4 DEF Alone
<1>6. ForkedByOwn'
  BY <1>1, <1>2, <1>3, <1>4 DEF Alone, ForkedByOwn
<1>7. RadioIsFree'
  BY <1>1, <1>2 DEF RadioIsFree
<1> QED  BY <1>5, <1>6, <1>7

\* Unique is inductive relative to the first two layers.
LEMMA UniqueStep ==
  ASSUME Basic, Unique, [Next]_vars
  PROVE  Unique'
<1> USE DEF requestVars, allButControl, processVars
<1>1. ControlTypeOK /\ Nobody \notin Starters /\ Starters \subseteq Clients
  BY ClientsAssumption DEF Basic, TypeOK, Clients, Lifecycle
<1>2. ASSUME NEW c \in Starters, NEW p \in Params, StartCall(c, p)
      PROVE  Unique'
  <2>1. mu' = mu /\ live' = live
    BY <1>2 DEF StartCall
  <2>2. \A d \in Starters : pc'[d] = pc[d] \/ pc'[d] = "lock"
    BY <1>1, <1>2 DEF StartCall, Goto, ControlTypeOK
  <2> QED  BY <2>1, <2>2, UniqueShrinks DEF BeforeMain, Services
<1>3. ASSUME NEW t \in Stoppers, StopCall(t) \/ StopStep(t)
      PROVE  Unique'
  <2>1. live' \subseteq live
    BY <1>3, KillShrinks DEF StopCall, StopStep, StopLock, StopChildren, StopMain,
                             StopKillAll, StopVerify
  <2>2. mu' = mu \/ mu' \notin Starters
    BY <1>1, <1>3, ClientsAssumption
       DEF StopCall, StopStep, StopLock, StopChildren, StopMain, StopKillAll,
           StopVerify, Unlock
  <2>3. \A d \in Starters : pc'[d] = pc[d]
    BY <1>1, <1>3, OtherEffect
  <2> QED  BY <2>1, <2>2, <2>3, UniqueShrinks
<1>4. ASSUME NEW e \in Editors, EditStep(e)
      PROVE  Unique'
  <2>1. live' = live /\ (mu' = mu \/ mu' \notin Starters)
    BY <1>1, <1>4, ClientsAssumption
       DEF EditStep, EditLock, UpdateConfig, PutNetwork, Unlock
  <2>2. \A d \in Starters : pc'[d] = pc[d]
    BY <1>1, <1>4, OtherEffect
  <2> QED  BY <2>1, <2>2, UniqueShrinks
<1>5. ASSUME \/ \E c \in Starters : Cancel(c)
             \/ \E i \in Instances : Crash(i) \/ Reap(i) \/ Announce(i)
             \/ LoseBoundary
             \/ UNCHANGED vars
      PROVE  Unique'
  <2>1. live' \subseteq live /\ UNCHANGED <<pc, mu>>
    BY <1>5 DEF Cancel, Crash, Reap, Announce, LoseBoundary, vars
  <2> QED  BY <2>1, UniqueShrinks
<1> QED
  BY <1>2, <1>3, <1>4, <1>5, UniqueStarter, UniqueFork DEF Next

\* cellRunningLocked, the per-service checks of Start and OpenBTS's one fork:
\* as long as `ps' answers, no two processes of one name run together, for any
\* number of calls and crashes, stubborn processes and foreign ones included.
THEOREM OneOfEachNameHolds == Spec => []OneOfEachName
<1>1. Init => Basic /\ Unique
  <2> SUFFICES ASSUME Init PROVE Unique
    BY BasicInit
  <2>1. live \subseteq Instances /\ \A i \in live : i.call = 0
    BY BasicInit DEF Init, Basic, TypeOK, ProcessTypeOK
  <2>2. Alone /\ ForkedByOwn
    BY <2>1, InstanceEq DEF Alone, ForkedByOwn
  <2>3. RadioIsFree
    BY ClientsAssumption DEF Init, RadioIsFree, Clients, Lifecycle
  <2> QED  BY <2>2, <2>3 DEF Unique
<1>2. (Basic /\ Unique) /\ [Next]_vars => (Basic /\ Unique)'
  BY BasicStep, UniqueStep
<1>3. Basic /\ Unique => OneOfEachName
  BY DEF Unique, Alone, OneOfEachName
<1> QED  BY <1>1, <1>2, <1>3, PTL DEF Spec

-----------------------------------------------------------------------------
(* The third layer: what a committed cell relies on.  The handle of the     *)
(* committed OpenBTS shows a running cell even when `ps' fails, so no Start *)
(* past its admission and no configuration change meets one; and what Start *)
(* prepared before it launched OpenBTS is still in place when it commits.   *)

\* The control points of Start after what each step established.
AfterMain    == {"ready", "tmsis", "profile"}
AfterSession == Services \cup {"settle", "openbts"} \cup AfterMain
AfterConfig  == {"session"} \cup AfterSession
AfterPrepare == {"config"} \cup AfterConfig
Admitted     == {"prepare", "rollback"} \cup AfterPrepare

\* watchProcess closes the done channel of a child only after its exit.
HandleIsOpen ==
    \A i \in live : i.call # 0 /\ i.name # "transceiver" => i \in open

\* m.openbts is the OpenBTS of a committed call.
MainHandle ==
    openbts # NoInstance =>
        /\ openbts \in Instances /\ openbts.name = "OpenBTS"
        /\ openbts.call # 0 /\ outcome[openbts.call] = "committed"

Handles == HandleIsOpen /\ MainHandle

\* Start goes past its admission only when the committed cell is down.
QuietStart ==
    mu \in Starters /\ pc[mu] \in Admitted => openbts \notin live /\ ~sms.ended

\* Stop has dropped m.openbts when it kills by name.
StoppedMain ==
    mu \in Stoppers /\ pc[mu] \in Names \cup {"verify"} => openbts = NoInstance

Progress ==
    mu \in Starters =>
        /\ pc[mu] \in AfterPrepare => arg[mu].iface \in rules
        /\ pc[mu] \in AfterConfig => db = arg[mu].radio
        /\ pc[mu] \in AfterSession => /\ sms.call = call[mu]
                                      /\ sms.state \in {"starting", "boundary_lost"}
        /\ pc[mu] \in AfterMain => conf[call[mu]] = arg[mu].radio

StartingHeld ==
    sms.state = "starting" => /\ mu \in Starters
                              /\ sms.call = call[mu]
                              /\ pc[mu] \in AfterSession \cup {"rollback"}

Facts ==
    /\ QuietStart /\ StoppedMain /\ Progress /\ StartingHeld
    /\ RunningCellConfig /\ RunningCellSession /\ EndedSessionIsSilent

-----------------------------------------------------------------------------
(* Handles.                                                                 *)

\* Steps that open a handle for each child and close none of a live one.
LEMMA HandlesKept ==
  ASSUME Basic, Handles,
         \A i \in live' \ live : i.name = "transceiver" \/ i \in open',
         \A i \in open \ open' : i \notin live',
         UNCHANGED openbts,
         \A k \in Calls : outcome[k] = "committed" => outcome'[k] = "committed"
  PROVE  Handles'
<1>1. HandleIsOpen'
  BY DEF Handles, HandleIsOpen
<1>2. \A i \in Instances : i.call \in Calls
  BY DEF Instances
<1>3. MainHandle'
  BY <1>2 DEF Handles, MainHandle
<1> QED  BY <1>1, <1>3 DEF Handles

\* A committed call remains committed.
LEMMA CommittedStays ==
  ASSUME Basic, [Next]_vars
  PROVE  \A k \in Calls : outcome[k] = "committed" => outcome'[k] = "committed"
<1>1. /\ outcome \in [Calls -> {"none", "pending", "refused", "failed", "committed"}]
      /\ ControlTypeOK /\ call \in [Starters -> Calls]
  BY DEF Basic, TypeOK, RequestTypeOK
<1>2. ASSUME NEW c \in Starters, StartStep(c)
      PROVE  \A k \in Calls : outcome[k] = "committed" => outcome'[k] = "committed"
  <2>1. outcome[call[c]] = "pending" /\ call[c] \in Calls
    BY <1>1, <1>2, StarterEffect DEF Basic, Requests, PendingCalls
  <2>2. \/ UNCHANGED outcome
        \/ \E how \in {"refused", "failed", "committed"} :
              outcome' = [outcome EXCEPT ![call[c]] = how]
    BY <1>1, <1>2, StarterEffect DEF Return
  <2> QED  BY <1>1, <2>1, <2>2
<1>3. ASSUME NEW c \in Starters, NEW p \in Params, StartCall(c, p)
      PROVE  \A k \in Calls : outcome[k] = "committed" => outcome'[k] = "committed"
  <2>1. calls + 1 \in Calls /\ outcome[calls + 1] = "none"
    BY <1>3, BoundsAssumption DEF StartCall, Basic, TypeOK, RequestTypeOK, Requests,
                                  PendingCalls, Calls
  <2> QED  BY <1>1, <1>3, <2>1 DEF StartCall
<1> QED  BY <1>1, <1>2, <1>3, OtherEffect DEF Next

\* What a step of Start does to the processes: it kills, or launches one.
LEMMA StarterProcesses ==
  ASSUME NEW c \in Starters, StartStep(c)
  PROVE  \/ live' \subseteq live /\ UNCHANGED open
         \/ \E n \in Names \ {"transceiver"} : Launch(call[c], n)
<1> USE DEF allButControl, processVars
<1>1. CASE StartService(c)
  BY <1>1 DEF StartService, Names, Services
<1>2. CASE StartOpenBTS(c)
  BY <1>2 DEF StartOpenBTS, Names
<1>3. CASE StartUndo(c)
  BY <1>3, KillShrinks DEF StartUndo
<1>4. CASE ~(StartService(c) \/ StartOpenBTS(c) \/ StartUndo(c))
  BY <1>4 DEF StartStep, StartLock, StartAdmit, StartPrepare, StartConfig,
              StartSession, StartSettle, StartReady, StartTmsis, StartSaveFails,
              StartCommit, StartFailed
<1> QED  BY <1>1, <1>2, <1>3, <1>4

\* What the handles show is preserved by every step.
LEMMA HandlesStep ==
  ASSUME Basic, Handles, [Next]_vars
  PROVE  Handles'
<1> USE DEF requestVars, allButControl, processVars, managerVars
<1>1. \A k \in Calls : outcome[k] = "committed" => outcome'[k] = "committed"
  BY CommittedStays
<1>2. ASSUME NEW c \in Starters, StartStep(c)
      PROVE  Handles'
  <2>1. CASE StartCommit(c)
    <3>1. call[c] # 0 /\ call[c] \in Calls
      BY <1>2, StarterEffect DEF Basic, Requests, PendingCalls, TypeOK, RequestTypeOK
    <3>2. openbts' = Main(c) /\ Main(c) \in Instances /\ UNCHANGED <<live, open>>
      BY <2>1, <3>1 DEF StartCommit, Main, Instances, Names
    <3>3. outcome'[call[c]] = "committed"
      BY <2>1, <3>1 DEF StartCommit, Return, Basic, TypeOK, RequestTypeOK
    <3> QED  BY <3>1, <3>2, <3>3 DEF Handles, HandleIsOpen, MainHandle, Main
  <2>2. CASE ~StartCommit(c)
    <3>1. UNCHANGED openbts
      BY <1>2, <2>2
         DEF StartStep, StartLock, StartAdmit, StartPrepare, StartConfig,
             StartSession, StartService, StartSettle, StartOpenBTS, StartReady,
             StartTmsis, StartSaveFails, StartUndo, StartFailed
    <3>2. /\ \A i \in live' \ live : i \in open'
          /\ open \subseteq open'
      BY <1>2, StarterProcesses DEF Launch
    <3> QED  BY <1>1, <3>1, <3>2, HandlesKept
  <2> QED  BY <2>1, <2>2
<1>3. ASSUME NEW t \in Stoppers, StopStep(t)
      PROVE  Handles'
  <2>1. CASE StopMain(t)
    <3>1. live' \subseteq live /\ UNCHANGED open /\ openbts' = NoInstance
      BY <2>1, KillShrinks DEF StopMain
    <3> QED  BY <3>1 DEF Handles, HandleIsOpen, MainHandle
  <2>2. CASE StopChildren(t) \/ StopKillAll(t)
    <3>1. live' \subseteq live /\ UNCHANGED <<open, openbts>>
      BY <2>2, KillShrinks DEF StopChildren, StopKillAll
    <3> QED  BY <1>1, <3>1, HandlesKept
  <2>3. CASE StopLock(t) \/ StopVerify(t)
    BY <1>1, <2>3, HandlesKept DEF StopLock, StopVerify
  <2> QED  BY <1>3, <2>1, <2>2, <2>3 DEF StopStep
<1>4. ASSUME NEW e \in Editors, EditStep(e)
      PROVE  Handles'
  <2>1. UNCHANGED <<live, open, openbts>>
    BY <1>4 DEF EditStep, EditLock, UpdateConfig, PutNetwork
  <2> QED  BY <1>1, <2>1, HandlesKept
<1>5. ASSUME NEW i \in Instances, Crash(i) \/ Reap(i) \/ Fork(i) \/ Announce(i)
      PROVE  Handles'
  <2>1. /\ \A j \in live' \ live : j.name = "transceiver"
        /\ \A j \in open \ open' : j \notin live'
        /\ UNCHANGED openbts
    BY <1>5 DEF Crash, Reap, Fork, Announce
  <2> QED  BY <1>1, <2>1, HandlesKept
<1>6. CASE \/ \E c \in Starters : (\E p \in Params : StartCall(c, p)) \/ Cancel(c)
           \/ \E t \in Stoppers : StopCall(t)
           \/ LoseBoundary
           \/ UNCHANGED vars
  <2>1. UNCHANGED <<live, open, openbts>>
    BY <1>6 DEF StartCall, Cancel, StopCall, LoseBoundary, vars
  <2> QED  BY <1>1, <2>1, HandlesKept
<1> QED  BY <1>2, <1>3, <1>4, <1>5, <1>6 DEF Next

\* cellRunningLocked never misses a committed OpenBTS that is running, even
\* when `ps' fails.
LEMMA CellRunningSound ==
  ASSUME Basic, Handles, FALSE \in CellRunning
  PROVE  openbts \notin live
<1>1. ~Alive(openbts)
  <2>1. PICK up \in Listed({"OpenBTS", "transceiver"}) :
           FALSE = (Alive(openbts) \/ up)
    BY DEF CellRunning
  <2> QED  BY <2>1
<1> QED
  BY <1>1, AbsentAssumption
     DEF Alive, Handles, HandleIsOpen, MainHandle, Basic, TypeOK, ProcessTypeOK

-----------------------------------------------------------------------------
(* Facts.                                                                   *)

\* Steps that leave the holder of the mutex, and what it relies on, alone.
LEMMA FactsSame ==
  ASSUME Facts,
         openbts \in live' => openbts \in live,
         live = {} => live' = {},
         UNCHANGED <<mu, conf, openbts, lastStart, sms, db, rules, profile>>,
         mu \in Starters =>
            pc'[mu] = pc[mu] /\ call'[mu] = call[mu] /\ arg'[mu] = arg[mu],
         mu \in Stoppers => pc'[mu] = pc[mu]
  PROVE  Facts'
<1>1. (QuietStart /\ StoppedMain)'
  BY DEF Facts, QuietStart, StoppedMain
<1>2. (Progress /\ StartingHeld)'
  BY DEF Facts, Progress, StartingHeld
<1>3. (RunningCellConfig /\ RunningCellSession /\ EndedSessionIsSilent)'
  BY DEF Facts, RunningCellConfig, RunningCellSession, EndedSessionIsSilent
<1> QED  BY <1>1, <1>2, <1>3 DEF Facts

\* The mutex is taken, or given back without an effect on the cell.
LEMMA FactsHandover ==
  ASSUME Facts, sms.state # "starting",
         UNCHANGED <<live, conf, openbts, lastStart, sms, profile>>,
         rules \subseteq rules',
         db' # db => openbts \notin live,
         mu' \in Starters => pc'[mu'] \notin Admitted,
         mu' \in Stoppers => pc'[mu'] \notin Names \cup {"verify"}
  PROVE  Facts'
<1>1. (QuietStart /\ StoppedMain /\ StartingHeld)'
  BY DEF Facts, QuietStart, StoppedMain, StartingHeld
<1>2. Progress'
  BY DEF Progress, Admitted, AfterPrepare, AfterConfig, AfterSession
<1>3. (RunningCellConfig /\ RunningCellSession /\ EndedSessionIsSilent)'
  BY DEF Facts, RunningCellConfig, RunningCellSession, EndedSessionIsSilent
<1> QED  BY <1>1, <1>2, <1>3 DEF Facts

\* An admitted Start goes on.
LEMMA FactsAdvance ==
  ASSUME NEW c \in Starters, mu = c, mu' = c, openbts' \notin live',
         ~sms'.ended, Progress', StartingHeld'
  PROVE  Facts'
<1>1. c \notin Stoppers
  BY ClientsAssumption
<1>2. (QuietStart /\ StoppedMain)'
  BY <1>1 DEF QuietStart, StoppedMain
<1>3. (RunningCellConfig /\ RunningCellSession /\ EndedSessionIsSilent)'
  BY DEF RunningCellConfig, RunningCellSession, EndedSessionIsSilent
<1> QED  BY <1>2, <1>3 DEF Facts

\* Each step of a Start call establishes what the next relies on.
LEMMA FactsStarter ==
  ASSUME NEW c \in Starters, Basic, Handles, Facts, StartStep(c)
  PROVE  Facts'
<1> USE DEF Fail, requestVars, allButControl, processVars, managerVars, worldVars
<1>1. /\ pc \in [Clients -> StartPoints \cup StopPoints \cup EditPoints
                               \cup ProbePoints]
      /\ c \in Clients /\ c \notin Stoppers
      /\ Nobody \notin Starters /\ Nobody \notin Stoppers
      /\ call[c] \in Calls /\ conf \in [Calls -> Radios \cup {NoRadio}]
      /\ sms \in Sessions /\ live \subseteq Instances
  BY ClientsAssumption
     DEF Basic, TypeOK, ControlTypeOK, RequestTypeOK, ProcessTypeOK, ManagerTypeOK,
         Clients, Lifecycle
<1>2. /\ pc[c] # "idle" /\ outcome[call[c]] = "pending" /\ arg[c] \in Params
      /\ UNCHANGED call
  BY StarterEffect DEF Basic, Requests, PendingCalls, ActiveHasParams, TypeOK
<1>3. ASSUME NEW pt, Goto(c, pt)
      PROVE  pc'[c] = pt
  BY <1>1, <1>3 DEF Goto
<1>4. ~StartLock(c) => mu = c
  BY HolderSteps
\* A child of this call is not the committed OpenBTS.
<1>5. openbts \notin live => openbts \notin live'
  <2>1. \A n \in Names : openbts # [call |-> call[c], name |-> n]
    <3>1. \A n \in Names : [call |-> call[c], name |-> n] \in Instances
      BY <1>1 DEF Instances
    <3> QED  BY <1>2, <3>1, AbsentAssumption DEF Handles, MainHandle
  <2> QED  BY <2>1, StarterProcesses DEF Launch
<1>6. pc[c] \in Admitted /\ mu = c => openbts \notin live' /\ ~sms.ended
  BY <1>5 DEF Facts, QuietStart
<1>7. CASE StartLock(c)
  <2>1. sms.state # "starting"
    BY <1>1, <1>7 DEF StartLock, Facts, StartingHeld
  <2>2. mu' = c /\ pc'[c] = "admit"
    BY <1>3, <1>7 DEF StartLock
  <2>3. pc'[mu'] \notin Admitted
    BY <2>2 DEF Admitted, AfterPrepare, AfterConfig, AfterSession, AfterMain, Services
  <2> QED  BY <1>1, <1>7, <2>1, <2>2, <2>3, FactsHandover DEF StartLock
<1>8. CASE StartAdmit(c)
  <2>1. mu = c /\ pc[c] = "admit"
    BY <1>4, <1>8 DEF StartAdmit, StartLock
  <2>2. sms.state # "starting"
    BY <2>1 DEF Facts, StartingHeld, AfterSession, AfterMain, Services
  <2>3. CASE Refuse(c)
    BY <1>1, <1>8, <2>2, <2>3, FactsHandover DEF StartAdmit, Refuse, Return, Unlock
  <2>4. CASE FALSE \in CellRunning /\ sms' = NoSession /\ Goto(c, "prepare") /\ UNCHANGED mu
    <3>1. openbts \notin live /\ UNCHANGED <<openbts, live>>
      BY <1>8, <2>4, CellRunningSound DEF StartAdmit
    <3>2. pc'[c] = "prepare"
      BY <1>3, <2>4
    <3>3. Progress' /\ StartingHeld' /\ ~sms'.ended
      BY <2>1, <2>4, <3>2
         DEF Progress, StartingHeld, NoSession, AfterPrepare, AfterConfig,
             AfterSession, AfterMain, Services
    <3> QED  BY <2>1, <2>4, <3>1, <3>3, FactsAdvance
  <2> QED  BY <1>8, <2>3, <2>4 DEF StartAdmit
<1>9. CASE StartPrepare(c)
  <2>1. mu = c /\ mu' = c /\ pc[c] = "prepare" /\ UNCHANGED <<openbts, sms>>
    BY <1>4, <1>9 DEF StartPrepare, StartLock
  <2>2. openbts \notin live' /\ ~sms.ended
    BY <1>6, <2>1 DEF Admitted
  <2>3. StartingHeld'
    BY <2>1 DEF Facts, StartingHeld, AfterSession, AfterMain, Services
  <2>4. \/ pc'[c] = "config" /\ arg'[c].iface \in rules'
        \/ pc'[c] = "rollback"
    BY <1>3, <1>9 DEF StartPrepare, Ensure
  <2>5. Progress'
    BY <2>1, <2>4 DEF Progress, AfterPrepare, AfterConfig, AfterSession, AfterMain,
                      Services
  <2> QED  BY <2>1, <2>2, <2>3, <2>5, FactsAdvance
<1>10. CASE StartConfig(c)
  <2>1. mu = c /\ mu' = c /\ pc[c] = "config" /\ UNCHANGED <<openbts, sms, rules, arg>>
    BY <1>4, <1>10 DEF StartConfig, StartLock
  <2>2. openbts \notin live' /\ ~sms.ended
    BY <1>6, <2>1 DEF Admitted, AfterPrepare
  <2>3. StartingHeld'
    BY <2>1 DEF Facts, StartingHeld, AfterSession, AfterMain, Services
  <2>4. \/ pc'[c] = "session" /\ db' = arg[c].radio
        \/ pc'[c] = "rollback"
    BY <1>3, <1>10 DEF StartConfig
  <2>5. arg[c].iface \in rules
    BY <2>1 DEF Facts, Progress, AfterPrepare
  <2>6. Progress'
    BY <2>1, <2>4, <2>5 DEF Progress, AfterPrepare, AfterConfig, AfterSession,
                            AfterMain, Services
  <2> QED  BY <2>1, <2>2, <2>3, <2>6, FactsAdvance
<1>11. CASE StartSession(c)
  <2>1. /\ mu = c /\ mu' = c /\ pc[c] = "session"
        /\ UNCHANGED <<openbts, rules, db, arg, call>>
    BY <1>4, <1>11 DEF StartSession, StartLock
  <2>2. openbts \notin live' /\ ~sms.ended
    BY <1>6, <2>1 DEF Admitted, AfterPrepare, AfterConfig
  <2>3. sms.state # "starting"
    BY <2>1 DEF Facts, StartingHeld, AfterSession, AfterMain, Services
  <2>4. \/ /\ pc'[c] = "sipauthserve"
           /\ sms' = [call |-> call[c], state |-> "starting", ended |-> FALSE]
        \/ pc'[c] = "rollback" /\ sms' = sms
    BY <1>3, <1>11 DEF StartSession
  <2>5. arg[c].iface \in rules /\ db = arg[c].radio
    BY <2>1 DEF Facts, Progress, AfterPrepare, AfterConfig
  <2>6. Progress'
    BY <2>1, <2>4, <2>5 DEF Progress, AfterPrepare, AfterConfig, AfterSession,
                            AfterMain, Services
  <2>7. StartingHeld' /\ ~sms'.ended
    BY <2>1, <2>2, <2>3, <2>4 DEF StartingHeld, AfterSession, Services
  <2> QED  BY <2>1, <2>2, <2>6, <2>7, FactsAdvance
<1>12. CASE StartService(c) \/ StartSettle(c)
  <2>1. /\ mu = c /\ mu' = c /\ pc[c] \in Services \cup {"settle"}
        /\ UNCHANGED <<openbts, rules, db, arg, call, sms>>
    BY <1>4, <1>12 DEF StartService, StartSettle, StartLock, Services
  <2>2. openbts \notin live' /\ ~sms.ended
    BY <1>6, <2>1 DEF Admitted, AfterPrepare, AfterConfig, AfterSession
  <2>3. \A n \in Services : NextLaunch[n] \in Services \cup {"settle"}
    BY DEF Services, NextLaunch
  <2>4. pc'[c] \in Services \cup {"settle", "openbts", "rollback"}
    BY <1>3, <1>12, <2>3 DEF StartService, StartSettle, Check
  <2>5. Progress'
    BY <2>1, <2>4 DEF Facts, Progress, AfterPrepare, AfterConfig, AfterSession,
                      AfterMain, Services
  <2>6. StartingHeld'
    BY <2>1, <2>4 DEF Facts, StartingHeld, AfterSession
  <2> QED  BY <2>1, <2>2, <2>5, <2>6, FactsAdvance
<1>13. CASE StartOpenBTS(c)
  <2>1. /\ mu = c /\ mu' = c /\ pc[c] = "openbts"
        /\ UNCHANGED <<openbts, rules, db, arg, call, sms>>
    BY <1>4, <1>13 DEF StartOpenBTS, StartLock
  <2>2. openbts \notin live' /\ ~sms.ended
    BY <1>6, <2>1 DEF Admitted, AfterPrepare, AfterConfig, AfterSession
  <2>3. \/ pc'[c] = "ready" /\ conf'[call[c]] = db
        \/ pc'[c] = "rollback"
    BY <1>1, <1>3, <1>13 DEF StartOpenBTS
  <2>4. Progress'
    BY <2>1, <2>3 DEF Facts, Progress, AfterPrepare, AfterConfig, AfterSession,
                      AfterMain, Services
  <2>5. StartingHeld'
    BY <2>1, <2>3 DEF Facts, StartingHeld, AfterSession, AfterMain
  <2> QED  BY <2>1, <2>2, <2>4, <2>5, FactsAdvance
<1>14. CASE StartReady(c) \/ StartTmsis(c) \/ StartSaveFails(c)
  <2>1. /\ mu = c /\ mu' = c /\ pc[c] \in AfterMain
        /\ UNCHANGED <<openbts, rules, db, arg, call, sms, conf>>
    BY <1>4, <1>14 DEF StartReady, StartTmsis, StartSaveFails, StartLock, AfterMain
  <2>2. openbts \notin live' /\ ~sms.ended
    BY <1>6, <2>1 DEF Admitted, AfterPrepare, AfterConfig, AfterSession
  <2>3. pc'[c] \in {"tmsis", "profile", "rollback"}
    BY <1>3, <1>14 DEF StartReady, StartTmsis, StartSaveFails, Check
  <2>4. Progress'
    BY <2>1, <2>3 DEF Facts, Progress, AfterPrepare, AfterConfig, AfterSession,
                      AfterMain, Services
  <2>5. StartingHeld'
    BY <2>1, <2>3 DEF Facts, StartingHeld, AfterSession, AfterMain
  <2> QED  BY <2>1, <2>2, <2>4, <2>5, FactsAdvance
<1>15. CASE StartCommit(c)
  <2>1. /\ mu = c /\ pc[c] = "profile" /\ mu' = Nobody
        /\ openbts' = Main(c) /\ lastStart' = arg[c] /\ profile' = arg[c]
        /\ UNCHANGED <<live, conf, db, rules>>
    BY <1>4, <1>15 DEF StartCommit, StartLock, Return, Unlock
  <2>2. /\ arg[c].iface \in rules /\ db = arg[c].radio
        /\ conf[call[c]] = arg[c].radio
        /\ sms.call = call[c] /\ sms.state \in {"starting", "boundary_lost"}
        /\ ~sms.ended
    BY <2>1 DEF Facts, Progress, QuietStart, Admitted, AfterPrepare, AfterConfig,
                AfterSession, AfterMain
  <2>3. /\ sms'.call = call[c] /\ sms'.ended = FALSE
        /\ sms'.state \in {"running", "boundary_lost"}
    BY <1>1, <1>15, <2>2 DEF StartCommit, Sessions
  <2>4. (QuietStart /\ StoppedMain /\ Progress /\ StartingHeld)'
    BY <1>1, <2>1, <2>3 DEF QuietStart, StoppedMain, Progress, StartingHeld
  <2>5. RunningCellConfig'
    BY <1>2, <2>1, <2>2 DEF RunningCellConfig, Main
  <2>6. (RunningCellSession /\ EndedSessionIsSilent)'
    BY <2>1, <2>3 DEF RunningCellSession, EndedSessionIsSilent, Main
  <2> QED  BY <2>4, <2>5, <2>6 DEF Facts
<1>16. CASE StartUndo(c)
  <2>1. UNCHANGED <<pc, mu, conf, openbts, lastStart, sms, db, rules, profile, call, arg>>
    BY <1>16 DEF StartUndo
  <2>2. live' \subseteq live
    BY <1>16, KillShrinks DEF StartUndo
  <2> QED  BY <2>1, <2>2, FactsSame
<1>17. CASE StartFailed(c)
  <2>1. /\ mu = c /\ pc[c] = "rollback" /\ mu' = Nobody /\ sms' = NoSession
        /\ UNCHANGED openbts
    BY <1>4, <1>17 DEF StartFailed, StartLock, Return, Unlock
  <2>2. openbts \notin live'
    BY <1>6, <2>1 DEF Admitted
  <2>3. (QuietStart /\ StoppedMain /\ Progress /\ StartingHeld)'
    BY <1>1, <2>1 DEF QuietStart, StoppedMain, Progress, StartingHeld, NoSession
  <2>4. (RunningCellConfig /\ RunningCellSession /\ EndedSessionIsSilent)'
    BY <2>1, <2>2 DEF RunningCellConfig, RunningCellSession, EndedSessionIsSilent,
                      NoSession
  <2> QED  BY <2>3, <2>4 DEF Facts
<1> QED
  BY <1>7, <1>8, <1>9, <1>10, <1>11, <1>12, <1>13, <1>14, <1>15, <1>16, <1>17
     DEF StartStep

\* A Stop goes on.
LEMMA FactsStopping ==
  ASSUME NEW t \in Stoppers, mu = t, mu' = t, Facts, NoInstance \notin live',
         live' \subseteq live, openbts' \in {openbts, NoInstance}, StoppedMain',
         UNCHANGED <<conf, lastStart, sms, db, rules, profile>>
  PROVE  Facts'
<1>1. t \notin Starters
  BY ClientsAssumption
<1>2. (QuietStart /\ Progress /\ StartingHeld)'
  BY <1>1 DEF Facts, QuietStart, Progress, StartingHeld
<1>3. (RunningCellConfig /\ RunningCellSession /\ EndedSessionIsSilent)'
  BY DEF Facts, RunningCellConfig, RunningCellSession, EndedSessionIsSilent
<1> QED  BY <1>2, <1>3 DEF Facts

\* anyServiceRunningLocked, as long as `ps' answers.
LEMMA AnyServiceRunningSound ==
  ASSUME Basic, FALSE \in AnyServiceRunning, ~PsMayFail
  PROVE  live = {}
<1> DEFINE held == \E i \in ownedChildren \cup {openbts} : Alive(i)
<1>1. PICK up \in Listed(Names) : FALSE = (held \/ up)
  BY DEF AnyServiceRunning
<1>2. up = (\E i \in live : i.name \in Names)
  BY DEF Listed
<1>3. \A i \in live : i.name \in Names
  BY DEF Basic, TypeOK, ProcessTypeOK, Instances
<1> QED  BY <1>1, <1>2, <1>3

\* Each step of a Stop call brings down what it names.
LEMMA FactsStopper ==
  ASSUME NEW t \in Stoppers, Basic, Handles, Facts, StopStep(t)
  PROVE  Facts'
<1> USE DEF requestVars, allButControl, processVars, managerVars, worldVars
<1>1. /\ pc \in [Clients -> StartPoints \cup StopPoints \cup EditPoints
                               \cup ProbePoints]
      /\ t \in Clients \ Probes /\ t \notin Starters
      /\ Nobody \notin Starters /\ Nobody \notin Stoppers
      /\ NoInstance \notin live /\ sms \in Sessions
  BY ClientsAssumption, AbsentAssumption
     DEF Basic, TypeOK, ControlTypeOK, ProcessTypeOK, ManagerTypeOK, Clients, Lifecycle
<1>2. ASSUME NEW pt, Goto(t, pt)
      PROVE  pc'[t] = pt
  BY <1>1, <1>2 DEF Goto
<1>3. ~StopLock(t) => mu = t
  <2>1. ~StopLock(t) => Inside(t)
    BY DEF StopStep, StopChildren, StopMain, StopKillAll, StopVerify, Inside,
           Names, Services
  <2> QED  BY <1>1, <2>1 DEF Basic, MutexDiscipline
<1>4. sms.state # "starting"
  BY <1>1, <1>3 DEF StopLock, Facts, StartingHeld
<1>5. CASE StopLock(t)
  <2>1. mu' = t /\ pc'[t] = "children"
    BY <1>2, <1>5 DEF StopLock
  <2> QED  BY <1>1, <1>4, <1>5, <2>1, FactsHandover DEF StopLock, Names, Services
<1>6. CASE StopChildren(t)
  <2>1. mu = t /\ mu' = t /\ live' \subseteq live /\ UNCHANGED openbts
    BY <1>3, <1>6, KillShrinks DEF StopChildren, StopLock
  <2>2. pc'[t] \in {"children", "main"}
    BY <1>2, <1>6 DEF StopChildren
  <2>3. StoppedMain'
    BY <2>1, <2>2 DEF StoppedMain, Names, Services
  <2> QED  BY <1>1, <1>6, <2>1, <2>3, FactsStopping DEF StopChildren
<1>7. CASE StopMain(t)
  <2>1. mu = t /\ mu' = t /\ live' \subseteq live /\ openbts' = NoInstance
    BY <1>3, <1>7, KillShrinks DEF StopMain, StopLock
  <2>2. StoppedMain'
    BY <2>1 DEF StoppedMain
  <2> QED  BY <1>1, <1>7, <2>1, <2>2, FactsStopping DEF StopMain
<1>8. CASE StopKillAll(t)
  <2>1. mu = t /\ mu' = t /\ live' \subseteq live /\ UNCHANGED openbts
    BY <1>3, <1>8, KillShrinks DEF StopKillAll, StopLock, Names, Services
  <2>2. openbts = NoInstance
    BY <1>8, <2>1 DEF StopKillAll, Facts, StoppedMain
  <2>3. StoppedMain'
    BY <2>1, <2>2 DEF StoppedMain
  <2> QED  BY <1>1, <1>8, <2>1, <2>3, FactsStopping DEF StopKillAll
<1>9. CASE StopVerify(t)
  <2>1. mu = t /\ mu' = Nobody /\ UNCHANGED <<live, openbts>>
    BY <1>3, <1>9 DEF StopVerify, StopLock, Unlock
  <2>2. openbts = NoInstance
    BY <1>9, <2>1 DEF StopVerify, Facts, StoppedMain
  <2>3. sms'.state # "starting"
    BY <1>1, <1>4, <1>9 DEF StopVerify, EndSession, Sessions
  <2>4. (QuietStart /\ StoppedMain /\ Progress /\ StartingHeld)'
    BY <1>1, <2>1, <2>3 DEF QuietStart, StoppedMain, Progress, StartingHeld
  <2>5. (RunningCellConfig /\ RunningCellSession)'
    BY <1>1, <2>1, <2>2 DEF RunningCellConfig, RunningCellSession
  <2>6. EndedSessionIsSilent'
    <3>1. CASE FALSE \in AnyServiceRunning
      BY <2>1, <3>1, AnyServiceRunningSound DEF EndedSessionIsSilent
    <3>2. CASE UNCHANGED sms
      BY <2>1, <3>2 DEF Facts, EndedSessionIsSilent
    <3> QED  BY <1>9, <3>1, <3>2 DEF StopVerify
  <2> QED  BY <2>4, <2>5, <2>6 DEF Facts
<1> QED  BY <1>5, <1>6, <1>7, <1>8, <1>9 DEF StopStep

\* A configuration request meets no committed OpenBTS.
LEMMA FactsEditor ==
  ASSUME NEW e \in Editors, Basic, Handles, Facts, EditStep(e)
  PROVE  Facts'
<1> USE DEF requestVars, allButControl, processVars, managerVars, worldVars
<1>1. /\ e \in Clients \ Probes /\ e \notin Starters /\ e \notin Stoppers
      /\ Nobody \notin Starters /\ Nobody \notin Stoppers
  BY ClientsAssumption DEF Clients, Lifecycle
<1>2. mu \in {e, Nobody}
  <2>1. EditLock(e) => mu = Nobody
    BY DEF EditLock
  <2>2. ~EditLock(e) => Inside(e)
    BY DEF EditStep, UpdateConfig, PutNetwork, Inside
  <2> QED  BY <1>1, <2>1, <2>2 DEF Basic, MutexDiscipline
<1>3. sms.state # "starting"
  BY <1>1, <1>2 DEF Facts, StartingHeld
<1>4. mu' \in {e, Nobody}
  BY DEF EditStep, EditLock, UpdateConfig, PutNetwork, Unlock
<1>5. /\ UNCHANGED <<live, conf, openbts, lastStart, sms, profile>>
      /\ rules \subseteq rules'
      /\ db' # db => FALSE \in CellRunning
  BY DEF EditStep, EditLock, UpdateConfig, PutNetwork, Ensure, TryEnsure
<1> QED  BY <1>1, <1>3, <1>4, <1>5, FactsHandover, CellRunningSound

\* Facts is inductive relative to the layers before it.
LEMMA FactsStep ==
  ASSUME Basic, Handles, Facts, [Next]_vars
  PROVE  Facts'
<1> USE DEF requestVars, allButControl, processVars, managerVars, worldVars
<1>1. ControlTypeOK /\ RequestTypeOK /\ Starters \cap Stoppers = {}
  BY ClientsAssumption DEF Basic, TypeOK
<1>2. ASSUME NEW c \in Starters, NEW p \in Params, StartCall(c, p)
      PROVE  Facts'
  <2>1. mu # c
    BY <1>2, ClientsAssumption
       DEF StartCall, Basic, MutexDiscipline, Inside, Clients, Lifecycle
  <2>2. /\ mu \in Starters =>
              pc'[mu] = pc[mu] /\ call'[mu] = call[mu] /\ arg'[mu] = arg[mu]
        /\ mu \in Stoppers => pc'[mu] = pc[mu]
    BY <1>1, <1>2, <2>1
       DEF StartCall, Goto, ControlTypeOK, RequestTypeOK, Clients, Lifecycle
  <2> QED  BY <1>2, <2>2, FactsSame DEF StartCall
<1>3. ASSUME NEW t \in Stoppers, StopCall(t)
      PROVE  Facts'
  <2>1. mu # t
    BY <1>3, ClientsAssumption
       DEF StopCall, Basic, MutexDiscipline, Inside, Clients, Lifecycle
  <2>2. (mu \in Starters \/ mu \in Stoppers) => pc'[mu] = pc[mu]
    BY <1>1, <1>3, <2>1 DEF StopCall, Goto, ControlTypeOK, Clients, Lifecycle
  <2> QED  BY <1>3, <2>2, FactsSame DEF StopCall
<1>4. ASSUME NEW c \in Starters, Cancel(c)
      PROVE  Facts'
  BY <1>4, FactsSame DEF Cancel
<1>5. ASSUME NEW i \in Instances, Crash(i) \/ Reap(i) \/ Announce(i)
      PROVE  Facts'
  BY <1>5, FactsSame DEF Crash, Reap, Announce
<1>6. ASSUME NEW i \in Instances, Fork(i)
      PROVE  Facts'
  <2>1. openbts # [call |-> i.call, name |-> "transceiver"]
    <3>1. [call |-> i.call, name |-> "transceiver"] \in Instances
      BY DEF Instances, Names
    <3> QED  BY <3>1, AbsentAssumption DEF Handles, MainHandle
  <2>2. live # {}
    BY <1>6 DEF Fork, Named
  <2> QED  BY <1>6, <2>1, <2>2, FactsSame DEF Fork
<1>7. CASE LoseBoundary
  <2>1. /\ UNCHANGED <<pc, mu, call, arg, live, conf, openbts, lastStart, db, rules, profile>>
        /\ sms'.state = "boundary_lost" /\ sms'.call = sms.call
        /\ sms'.ended = sms.ended
    BY <1>7 DEF LoseBoundary, Basic, TypeOK, ManagerTypeOK, Sessions
  <2>2. (QuietStart /\ StoppedMain /\ StartingHeld)'
    BY <2>1 DEF Facts, QuietStart, StoppedMain, StartingHeld
  <2>3. Progress'
    BY <2>1 DEF Facts, Progress
  <2>4. (RunningCellConfig /\ RunningCellSession /\ EndedSessionIsSilent)'
    BY <2>1 DEF Facts, RunningCellConfig, RunningCellSession, EndedSessionIsSilent
  <2> QED  BY <2>2, <2>3, <2>4 DEF Facts
<1>8. CASE UNCHANGED vars
  BY <1>8, FactsSame DEF vars
<1> QED
  BY <1>2, <1>3, <1>4, <1>5, <1>6, <1>7, <1>8, FactsStarter, FactsStopper,
     FactsEditor DEF Next

-----------------------------------------------------------------------------

CellInvariant == Basic /\ Handles /\ Facts

\* Before the first call nothing is committed, held or running with a handle.
LEMMA CellInvariantInit == Init => CellInvariant
<1> SUFFICES ASSUME Init PROVE CellInvariant
  OBVIOUS
<1>1. Handles
  BY DEF Init, Handles, HandleIsOpen, MainHandle
<1>2. Nobody \notin Starters /\ Nobody \notin Stoppers
  BY ClientsAssumption DEF Clients, Lifecycle
<1>3. (QuietStart /\ StoppedMain /\ Progress /\ StartingHeld)
  BY <1>2 DEF Init, QuietStart, StoppedMain, Progress, StartingHeld, NoSession
<1>4. Basic
  BY BasicInit
<1>5. openbts \notin live
  BY <1>4, AbsentAssumption DEF Init, Basic, TypeOK, ProcessTypeOK
<1>6. RunningCellConfig /\ RunningCellSession /\ EndedSessionIsSilent
  BY <1>5 DEF Init, RunningCellConfig, RunningCellSession, EndedSessionIsSilent,
              NoSession
<1> QED  BY <1>1, <1>3, <1>4, <1>6 DEF CellInvariant, Facts

\* The three layers, each inductive relative to the ones before it.
LEMMA CellInvariantStep == CellInvariant /\ [Next]_vars => CellInvariant'
  BY BasicStep, HandlesStep, FactsStep DEF CellInvariant

\* The invariant holds throughout.
LEMMA CellInvariantHolds == Spec => []CellInvariant
  BY CellInvariantInit, CellInvariantStep, PTL DEF Spec

\* While the committed OpenBTS runs, the database, the saved profile and the
\* reported parameters are those it was launched with and its NAT rule is in
\* place, whether or not `ps' and KILL work.
THEOREM RunningCellConfigHolds == Spec => []RunningCellConfig
<1>1. CellInvariant => RunningCellConfig
  BY DEF CellInvariant, Facts
<1> QED  BY <1>1, CellInvariantHolds, PTL

\* While the committed OpenBTS runs, the SMS session is that of its launch and
\* has not ended.
THEOREM RunningCellSessionHolds == Spec => []RunningCellSession
<1>1. CellInvariant => RunningCellSession
  BY DEF CellInvariant, Facts
<1> QED  BY <1>1, CellInvariantHolds, PTL

\* As long as `ps' answers, nothing runs while the SMS session is an ended one.
THEOREM EndedSessionIsSilentHolds == Spec => []EndedSessionIsSilent
<1>1. CellInvariant => EndedSessionIsSilent
  BY DEF CellInvariant, Facts
<1> QED  BY <1>1, CellInvariantHolds, PTL

\* A session is "starting" only while its Start call holds the mutex.
THEOREM StartingSessionHasStarterHolds == Spec => []StartingSessionHasStarter
<1>1. CellInvariant => StartingSessionHasStarter
  BY DEF CellInvariant, Facts, StartingHeld, StartingSessionHasStarter
<1> QED  BY <1>1, CellInvariantHolds, PTL

-----------------------------------------------------------------------------
(* Stop leaves nothing behind when KILL and `ps' work.  Its kills by name   *)
(* are a sweep in which no name comes back: only OpenBTS forks, and the     *)
(* transceiver it forks is killed after it.                                 *)

\* The names that are gone at each control point of the sweep.
Gone ==
    [smqueue |-> {}, asterisk |-> {"smqueue"},
     sipauthserve |-> {"smqueue", "asterisk"}, OpenBTS |-> Services,
     transceiver |-> Services \cup {"OpenBTS"}, verify |-> Names]

Sweep == Names \cup {"verify"}

SweepIsClean ==
    mu \in Stoppers =>
        /\ pc[mu] \in {"main"} \cup Sweep => ownedChildren = {}
        /\ pc[mu] \in Sweep => \A i \in live : i.name \notin Gone[pc[mu]]

Swept ==
    Stubborn = {} /\ ~PsMayFail =>
        SweepIsClean /\ \A t \in Stoppers : stopResult[t] # "incomplete"

\* A KILL that works leaves nothing of what it was aimed at.
LEMMA KillIsFinal ==
  ASSUME Stubborn = {}, NEW S, NEW rest \in Kill(S)
  PROVE  rest = live \ S
  BY DEF Kill

\* What is gone after the next kill by name.
LEMMA GoneNext ==
  ASSUME NEW n \in Names
  PROVE  NextKill[n] \in Sweep /\ Gone[NextKill[n]] = Gone[n] \cup {n}
  BY DEF Gone, NextKill, Sweep, Names, Services

\* Steps that leave the sweep alone: nothing new runs while a Stop is on, but a
\* transceiver of an OpenBTS the sweep has still to kill.
LEMMA SweptKept ==
  ASSUME Swept,
         UNCHANGED stopResult,
         mu' \in Stoppers =>
            /\ pc'[mu'] \in {"main"} \cup Sweep =>
                  /\ mu = mu' /\ pc[mu] = pc'[mu] /\ UNCHANGED ownedChildren
                  /\ \A i \in live' \ live : i.name \notin Gone[pc[mu]]
  PROVE  Swept'
  BY DEF Swept, SweepIsClean, Sweep

\* At the end of the sweep nothing runs and no handle is left.
LEMMA SweepEndsClean ==
  ASSUME CellInvariant, SweepIsClean, mu \in Stoppers, pc[mu] = "verify"
  PROVE  ownedChildren = {} /\ openbts = NoInstance /\ live = {}
<1>1. ownedChildren = {} /\ \A i \in live : i.name \notin Names
  BY DEF SweepIsClean, Sweep, Gone
<1>2. openbts = NoInstance
  BY DEF CellInvariant, Facts, StoppedMain
<1>3. \A i \in live : i.name \in Names
  BY DEF CellInvariant, Basic, TypeOK, ProcessTypeOK, Instances
<1> QED  BY <1>1, <1>2, <1>3

\* Each step of a Stop call adds to what has been swept.
LEMMA SweptStopper ==
  ASSUME NEW t \in Stoppers, CellInvariant, Swept, StopStep(t)
  PROVE  Swept'
<1> USE DEF requestVars, allButControl, processVars, managerVars
<1> SUFFICES ASSUME Stubborn = {}, ~PsMayFail
             PROVE  SweepIsClean' /\ \A s \in Stoppers : stopResult'[s] # "incomplete"
  BY DEF Swept
<1>1. /\ pc \in [Clients -> StartPoints \cup StopPoints \cup EditPoints
                               \cup ProbePoints]
      /\ stopResult \in [Stoppers -> {"none", "stopped", "incomplete"}]
      /\ t \in Clients \ Probes /\ Nobody \notin Stoppers
      /\ NoInstance \notin open
  BY ClientsAssumption, AbsentAssumption
     DEF CellInvariant, Basic, TypeOK, ControlTypeOK, RequestTypeOK, ProcessTypeOK,
         Clients, Lifecycle
<1>2. ASSUME NEW pt, Goto(t, pt)
      PROVE  pc'[t] = pt
  BY <1>1, <1>2 DEF Goto
<1>3. ~StopLock(t) => mu = t
  <2>1. ~StopLock(t) => Inside(t)
    BY DEF StopStep, StopChildren, StopMain, StopKillAll, StopVerify, Inside,
           Names, Services
  <2> QED  BY <1>1, <2>1 DEF CellInvariant, Basic, MutexDiscipline
<1>4. SweepIsClean /\ \A s \in Stoppers : stopResult[s] # "incomplete"
  BY DEF Swept
<1>5. CASE StopLock(t)
  <2>1. mu' = t /\ pc'[t] = "children" /\ UNCHANGED stopResult
    BY <1>2, <1>5 DEF StopLock
  <2> QED  BY <1>4, <2>1 DEF SweepIsClean, Sweep, Names, Services
<1>6. CASE StopChildren(t)
  <2>1. mu' = t /\ UNCHANGED stopResult
    BY <1>3, <1>6 DEF StopChildren, StopLock
  <2>2. pc'[t] = "children" \/ (pc'[t] = "main" /\ ownedChildren' = {})
    BY <1>2, <1>6 DEF StopChildren
  <2> QED  BY <1>4, <2>1, <2>2 DEF SweepIsClean, Sweep, Names, Services
<1>7. CASE StopMain(t)
  <2>1. /\ mu = t /\ mu' = t /\ pc[t] = "main"
        /\ UNCHANGED <<stopResult, ownedChildren>>
    BY <1>3, <1>7 DEF StopMain, StopLock
  <2>2. pc'[t] = "smqueue"
    BY <1>2, <1>7 DEF StopMain
  <2> QED  BY <1>4, <2>1, <2>2 DEF SweepIsClean, Gone
<1>8. CASE StopKillAll(t)
  <2>1. /\ mu = t /\ mu' = t /\ pc[t] \in Names
        /\ UNCHANGED <<stopResult, ownedChildren>>
    BY <1>3, <1>8 DEF StopKillAll, StopLock, Names, Services
  <2>2. pc'[t] = NextKill[pc[t]]
    BY <1>2, <1>8 DEF StopKillAll
  <2>3. live' = live \ Named(pc[t])
    BY <1>8, KillIsFinal DEF StopKillAll
  <2>4. pc'[t] \in Sweep /\ Gone[pc'[t]] = Gone[pc[t]] \cup {pc[t]}
    BY <2>1, <2>2, GoneNext
  <2>5. ownedChildren = {} /\ \A i \in live : i.name \notin Gone[pc[t]]
    BY <1>4, <2>1 DEF SweepIsClean, Sweep
  <2>6. \A i \in live' : i.name \notin Gone[pc'[t]]
    BY <2>3, <2>4, <2>5 DEF Named
  <2> QED  BY <1>4, <2>1, <2>5, <2>6 DEF SweepIsClean
<1>9. CASE StopVerify(t)
  <2>1. mu = t /\ mu' = Nobody /\ pc[t] = "verify"
    BY <1>3, <1>9 DEF StopVerify, StopLock, Unlock
  <2>2. ownedChildren = {} /\ openbts = NoInstance /\ live = {}
    BY <1>4, <2>1, SweepEndsClean
  <2>3. TRUE \notin AnyServiceRunning
    BY <1>1, <2>2 DEF AnyServiceRunning, Listed, Alive
  <2>4. stopResult' = [stopResult EXCEPT ![t] = "stopped"]
    BY <1>9, <2>3 DEF StopVerify
  <2>5. SweepIsClean'
    BY <1>1, <2>1 DEF SweepIsClean
  <2> QED  BY <1>1, <1>4, <2>4, <2>5
<1> QED  BY <1>5, <1>6, <1>7, <1>8, <1>9 DEF StopStep

\* Nobody else launches while the stopper holds the mutex.
LEMMA SweptStep ==
  ASSUME CellInvariant, Swept, [Next]_vars
  PROVE  Swept'
<1> USE DEF requestVars, allButControl, processVars, managerVars
<1>1. /\ pc \in [Clients -> StartPoints \cup StopPoints \cup EditPoints
                               \cup ProbePoints]
      /\ stopResult \in [Stoppers -> {"none", "stopped", "incomplete"}]
      /\ Nobody \notin Stoppers /\ Stoppers \subseteq Clients
      /\ Starters \cap Stoppers = {} /\ Editors \cap Stoppers = {}
      /\ Basic
  BY ClientsAssumption
     DEF CellInvariant, Basic, TypeOK, ControlTypeOK, RequestTypeOK, Clients, Lifecycle
<1>2. ASSUME NEW c \in Starters, StartStep(c)
      PROVE  Swept'
  <2>1. mu' \notin Stoppers
    <3>1. CASE StartLock(c)
      BY <1>1, <3>1 DEF StartLock
    <3>2. CASE ~StartLock(c)
      <4>1. mu = c
        BY <1>1, <1>2, <3>2, HolderSteps
      <4>2. mu' = mu \/ mu' = Nobody
        BY <1>2, <3>2
           DEF StartStep, StartAdmit, Refuse, StartPrepare, StartConfig, StartSession,
               StartService, StartSettle, StartOpenBTS, StartReady, StartTmsis,
               StartSaveFails, StartCommit, StartUndo, StartFailed, Return, Unlock
      <4> QED  BY <1>1, <4>1, <4>2
    <3> QED  BY <3>1, <3>2
  <2>2. UNCHANGED stopResult
    BY <1>2 DEF StartStep, StartLock, StartAdmit, Refuse, StartPrepare, StartConfig,
                StartSession, StartService, StartSettle, StartOpenBTS, StartReady,
                StartTmsis, StartSaveFails, StartCommit, StartUndo, StartFailed
  <2> QED  BY <2>1, <2>2, SweptKept
<1>3. ASSUME NEW c \in Starters, (\E p \in Params : StartCall(c, p)) \/ Cancel(c)
      PROVE  Swept'
  <2>1. UNCHANGED <<mu, live, ownedChildren, stopResult>>
    BY <1>3 DEF StartCall, Cancel
  <2>2. \A s \in Stoppers : pc'[s] = pc[s]
    BY <1>1, <1>3 DEF StartCall, Cancel, Goto
  <2> QED  BY <2>1, <2>2, SweptKept
<1>4. ASSUME NEW t \in Stoppers, StopCall(t)
      PROVE  Swept'
  <2> SUFFICES ASSUME Stubborn = {}, ~PsMayFail
               PROVE  SweepIsClean' /\ \A s \in Stoppers : stopResult'[s] # "incomplete"
    BY DEF Swept
  <2>1. SweepIsClean /\ \A s \in Stoppers : stopResult[s] # "incomplete"
    BY DEF Swept
  <2>2. UNCHANGED <<mu, live, ownedChildren>>
    BY <1>4 DEF StopCall
  <2>3. \A s \in Stoppers : pc'[s] = pc[s] \/ pc'[s] = "lock"
    BY <1>1, <1>4 DEF StopCall, Goto
  <2>4. SweepIsClean'
    BY <2>1, <2>2, <2>3 DEF SweepIsClean, Sweep, Names, Services
  <2>5. \A s \in Stoppers : stopResult'[s] # "incomplete"
    BY <1>1, <1>4, <2>1 DEF StopCall
  <2> QED  BY <2>4, <2>5
<1>5. ASSUME NEW e \in Editors, EditStep(e)
      PROVE  Swept'
  <2>1. UNCHANGED stopResult /\ mu' \in {e, Nobody}
    BY <1>5 DEF EditStep, EditLock, UpdateConfig, PutNetwork, Unlock
  <2> QED  BY <1>1, <2>1, SweptKept
<1>6. ASSUME NEW i \in Instances, Fork(i)
      PROVE  Swept'
  <2> SUFFICES ASSUME Stubborn = {}, ~PsMayFail PROVE Swept'
    BY DEF Swept
  <2>1. /\ i \in live /\ i.name = "OpenBTS"
        /\ live' = live \cup {[call |-> i.call, name |-> "transceiver"]}
        /\ UNCHANGED <<pc, mu, ownedChildren, stopResult>>
    BY <1>6 DEF Fork, Named
  <2>2. ASSUME mu \in Stoppers, pc[mu] \in Sweep
        PROVE  "transceiver" \notin Gone[pc[mu]]
    <3>1. "OpenBTS" \notin Gone[pc[mu]]
      BY <2>1, <2>2 DEF Swept, SweepIsClean
    <3> QED  BY <2>2, <3>1 DEF Gone, Sweep, Names, Services
  <2>3. ASSUME mu \in Stoppers, pc[mu] \in Sweep
        PROVE  \A j \in live' \ live : j.name \notin Gone[pc[mu]]
    BY <2>1, <2>2, <2>3
  <2>4. SweepIsClean /\ \A s \in Stoppers : stopResult[s] # "incomplete"
    BY DEF Swept
  <2>5. SweepIsClean'
    BY <2>1, <2>3, <2>4 DEF SweepIsClean
  <2> QED  BY <2>1, <2>4, <2>5 DEF Swept
<1>7. ASSUME \/ \E i \in Instances : Crash(i) \/ Reap(i) \/ Announce(i)
             \/ LoseBoundary
             \/ UNCHANGED vars
      PROVE  Swept'
  <2>1. live' \subseteq live /\ UNCHANGED <<pc, mu, ownedChildren, stopResult>>
    BY <1>7 DEF Crash, Reap, Announce, LoseBoundary, vars
  <2> QED  BY <2>1, SweptKept
<1> QED
  BY <1>2, <1>3, <1>4, <1>5, <1>6, <1>7, SweptStopper DEF Next

\* Swept always holds.
LEMMA SweptHolds == Spec => []Swept
<1>1. Init => Swept
  <2> SUFFICES ASSUME Init PROVE Swept
    OBVIOUS
  <2>1. mu \notin Stoppers
    BY ClientsAssumption DEF Init, Clients, Lifecycle
  <2> QED  BY <2>1 DEF Init, Swept, SweepIsClean
<1>2. CellInvariant /\ Swept /\ [Next]_vars => Swept'
  BY SweptStep
<1> QED  BY <1>1, <1>2, CellInvariantHolds, PTL DEF Spec

\* stopLocked: where KILL and `ps' work, a Stop never reports that something is
\* still running, whatever handles a later Start forgot, whatever ran before
\* the manager and whenever OpenBTS forks its transceiver.
THEOREM StopCompletesHolds == Spec => []StopCompletes
<1>1. Swept => StopCompletes
  BY DEF Swept, StopCompletes
<1> QED  BY <1>1, SweptHolds, PTL

=============================================================================
