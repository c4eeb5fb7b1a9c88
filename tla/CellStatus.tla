----------------------------- MODULE CellStatus -----------------------------
(***************************************************************************)
(* Manager.IsRunning (src/internal/gsm/manager.go) beside the lifecycle    *)
(* calls of Cell.  A status probe asks `ps' for the five names one after   *)
(* the other without a lock, then tries Manager.mu: if somebody holds it   *)
(* the answer is "transitioning", else the probe holds the mutex itself    *)
(* while it corrects its sample with the process handles.                  *)
(***************************************************************************)
EXTENDS Cell

VARIABLES
    seen,      \* names each probe's sample has found running
    report     \* each probe's latest answer

probeVars == <<seen, report>>
statusVars == <<vars, probeVars>>

NextSample ==
    [OpenBTS |-> "transceiver", transceiver |-> "sipauthserve",
     sipauthserve |-> "smqueue", smqueue |-> "asterisk", asterisk |-> "trylock"]

\* Status.classify: SMS and voice need different services, ready needs all.
Classify(up, transitioning) ==
    LET main == {"OpenBTS", "transceiver", "sipauthserve"} \subseteq up
        all_ == main /\ "smqueue" \in up /\ "asterisk" \in up
    IN  IF transitioning THEN "transitioning"
        ELSE IF all_ THEN "running"
        ELSE IF up = {} THEN "stopped"
        ELSE "degraded"

\* A report records whether all was calm when it was made: nothing running or
\* found running, and no start or stop under way.
NoReport == [state |-> "none", calm |-> FALSE]
Calm(q) == live = {} /\ seen[q] = {} /\ \A c \in Lifecycle : pc[c] = "idle"

Report(q, up, transitioning) ==
    report' = [report EXCEPT ![q] = [state |-> Classify(up, transitioning),
                                     calm |-> Calm(q)]]

ProbeCall(q) ==
    /\ pc[q] = "idle"
    /\ seen' = [seen EXCEPT ![q] = {}]
    /\ report' = [report EXCEPT ![q] = NoReport]
    /\ Goto(q, "OpenBTS")
    /\ UNCHANGED <<mu, allButControl>>

\* The five sysop.Running calls.
ProbeSample(q) ==
    /\ pc[q] \in Names
    /\ \E up \in Running(pc[q]) :
          seen' = [seen EXCEPT ![q] = @ \cup (IF up THEN {pc[q]} ELSE {})]
    /\ Goto(q, NextSample[pc[q]])
    /\ UNCHANGED <<mu, allButControl, report>>

ProbeTryLock(q) ==
    /\ pc[q] = "trylock"
    /\ \/ mu = Nobody /\ mu' = q /\ Goto(q, "locked") /\ UNCHANGED report
       \/ /\ mu # Nobody
          /\ Report(q, seen[q], TRUE)
          /\ Goto(q, "idle")
          /\ UNCHANGED mu
    /\ UNCHANGED <<allButControl, seen>>

\* Mutant of Held: the sample is not corrected with the handles.
NoneHeld == {}

\* The names whose handle says the process is alive.
Held == {i.name : i \in {j \in ownedChildren \cup {openbts} : Alive(j)}}

ProbeReport(q) ==
    /\ pc[q] = "locked"
    /\ Report(q, seen[q] \cup Held, FALSE)
    /\ Unlock(q)
    /\ UNCHANGED <<allButControl, seen>>

ProbeStep(q) == ProbeSample(q) \/ ProbeTryLock(q) \/ ProbeReport(q)

StatusInit ==
    /\ Init
    /\ seen = [q \in Probes |-> {}]
    /\ report = [q \in Probes |-> NoReport]

StatusNext ==
    \/ Next /\ UNCHANGED probeVars
    \/ \E q \in Probes : ProbeCall(q) \/ ProbeStep(q)

StatusSpec == StatusInit /\ [][StatusNext]_statusVars

-----------------------------------------------------------------------------
(* Properties.                                                              *)

\* IsRunning samples `ps' before it takes the lock; a whole Start may run in
\* between, or `ps' may fail. It still never answers "stopped" about a cell
\* whose committed OpenBTS or services are running, on which handleCellStop
\* relies when it answers "already stopped" without calling Stop.
StoppedReportIsCurrent ==
    [][\A q \in Probes :
          report'[q] # report[q] /\ report'[q].state = "stopped"
              => (ownedChildren \cup {openbts}) \cap live = {}]_statusVars

\* What docs/API.md says of the health probe: with the cell stopped and no
\* start or stop under way it is told "stopped", never "transitioning".
CalmProbeIsHealthy ==
    \A q \in Probes : report[q].calm => report[q].state = "stopped"

=============================================================================
