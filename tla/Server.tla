------------------------------- MODULE Server -------------------------------
(***************************************************************************)
(* The life of the server process (src/cmd/server/main.go) around the      *)
(* manager of Cell: binding the listeners, serving requests, and the       *)
(* shutdown, in which main cancels every request, waits for the handlers   *)
(* for a bounded time and then calls Manager.Stop itself, whether or not   *)
(* they have returned.                                                     *)
(*                                                                         *)
(* main is one of the stoppers.  A request that reaches its handler after  *)
(* the cancellation has a context that is already done: it behaves as one  *)
(* that came just before and was cancelled, so that no start begins later. *)
(***************************************************************************)
EXTENDS Cell

CONSTANT main     \* the stopper that is the goroutine of main

ASSUME MainAssumption == main \in Stoppers

VARIABLE phase    \* how far run has come

serverVars == <<vars, phase>>

Phases == {"boot", "failed", "serving", "draining", "stopping", "exited"}
Up == phase \in {"serving", "draining", "stopping"}

\* Every listener and the log receiver is ready, and requests are served.
Serve ==
    /\ phase = "boot"
    /\ phase' = "serving"
    /\ UNCHANGED vars

\* A listener or the log receiver fails: run returns before the deferred Stop.
BootFails ==
    /\ phase = "boot"
    /\ phase' = "failed"
    /\ UNCHANGED vars

\* A signal, or a listener that fails while serving.
Signal ==
    /\ phase = "serving"
    /\ phase' = "draining"
    /\ UNCHANGED vars

\* Mutant of Drained: the requests are not cancelled.
DrainedUncancelled ==
    /\ phase = "draining"
    /\ phase' = "stopping"
    /\ StopCall(main)

\* cancelRequests has reached every request (by Cancel), Shutdown has waited
\* until the handlers were done or the time was up, and the deferred Stop runs.
Drained ==
    /\ phase = "draining"
    /\ \A c \in Starters : pc[c] = "idle" \/ c \in cancelled
    /\ phase' = "stopping"
    /\ StopCall(main)

\* Stop has returned, the process is gone and its goroutines with it.
Exit ==
    /\ phase = "stopping"
    /\ pc[main] = "idle"
    /\ phase' = "exited"
    /\ UNCHANGED vars

\* What handlers do while the process is there.
Request ==
    \/ \E c \in Starters :
          \/ phase = "serving" /\ \E p \in Params : StartCall(c, p)
          \/ Cancel(c)
          \/ StartStep(c)
    \/ \E t \in Stoppers : (t # main /\ StopCall(t)) \/ StopStep(t)
    \/ \E e \in Editors : EditStep(e)
    \/ \E i \in Instances : Reap(i) \/ Announce(i)
    \/ LoseBoundary

\* The native processes do not depend on it.
Native == \E i \in Instances : Crash(i) \/ Fork(i)

ServerInit == Init /\ phase = "boot"

ServerNext ==
    \/ Serve \/ BootFails \/ Signal \/ Drained \/ Exit
    \/ Up /\ Request /\ UNCHANGED phase
    \/ Native /\ UNCHANGED phase

ServerSpec == ServerInit /\ [][ServerNext]_serverVars

\* Every wait inside the calls is bounded, and sync.Mutex hands a contended
\* lock to its longest waiter, so no waiter starves; cancelling the requests
\* and leaving take bounded time, too.
ServerFairness ==
    /\ \A c \in Starters : /\ WF_serverVars(Up /\ StartStep(c) /\ UNCHANGED phase)
                           /\ SF_serverVars(Up /\ StartLock(c) /\ UNCHANGED phase)
                           /\ WF_serverVars(phase = "draining" /\ Cancel(c)
                                              /\ UNCHANGED phase)
    /\ \A t \in Stoppers : /\ WF_serverVars(Up /\ StopStep(t) /\ UNCHANGED phase)
                           /\ SF_serverVars(Up /\ StopLock(t) /\ UNCHANGED phase)
    /\ \A e \in Editors : WF_serverVars(Up /\ (UpdateConfig(e) \/ PutNetwork(e))
                                          /\ UNCHANGED phase)
    /\ WF_serverVars(Drained) /\ WF_serverVars(Exit)

FairServerSpec == ServerSpec /\ ServerFairness

-----------------------------------------------------------------------------
(* Properties.                                                              *)

\* The deferred Manager.Stop of run: once the process has gone, nothing it
\* launched and nothing it found is running, although a Start may have been
\* committing, rolling back or queued for the mutex when the signal came and
\* Shutdown does not wait for it beyond its limit.
ExitLeavesNoCell ==
    phase = "exited" /\ Stubborn = {} /\ ~PsMayFail => live = {}

\* The process ends only around its deferred Stop, which holds Manager.mu: it
\* never cuts off a Start that has been admitted, half-way through its changes
\* of the system or its rollback, even when Shutdown gave up waiting for it.
ExitCutsNoStart ==
    phase = "exited" => \A c \in Starters : pc[c] \in {"idle", "lock", "admit"}

\* Every call returns or the process ends: no error path of Start or Stop keeps
\* the mutex, and nobody waits for it forever.
CallsReturn ==
    \A c \in Clients : pc[c] # "idle" ~> (pc[c] = "idle" \/ phase = "exited")

\* After a signal the process ends, whatever its handlers are waiting for.
ShutdownEnds == phase = "draining" ~> phase = "exited"
=============================================================================
