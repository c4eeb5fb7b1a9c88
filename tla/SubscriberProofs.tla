-------------------------- MODULE SubscriberProofs --------------------------
(***************************************************************************)
(* Theorems about the subscriber registry of module Subscriber and about   *)
(* what the API shows of it (module Identity), for any number of callers,  *)
(* subscribers, numbers and native writes.                                 *)
(***************************************************************************)
EXTENDS Identity, SequenceTheorems, TLAPS

-----------------------------------------------------------------------------
(* The invariant.                                                           *)

Points == {"idle", "lock", "check", "transaction", "failed", "lost", "get",
           "count", "project"}

TablesOk ==
    /\ sip \in [Imsis -> Seq(Values)]
    /\ dial \in [Imsis -> Seq(Values)]
    /\ tmsi \in [Imsis -> Values \cup {NoRow}]

CallsOk ==
    /\ pc \in [Callers -> Points]
    /\ job \in [Callers -> Jobs \cup {NoJob}]
    /\ \A c \in Callers : pc[c] # "idle" => job[c] \in Jobs

ObserversOk ==
    /\ acked \in [Imsis -> Values \cup {NoRow}]
    /\ projected \subseteq Imsis

\* mutationMu, and its deferred Unlock.
Inside(c) == pc[c] \notin {"idle", "lock"}
Exclusion == \A c \in Callers : Inside(c) => mutationMu = c

\* A caller that is about to project has seen its own write, which only a
\* native service can have changed since, and nobody projected in between.
Committed == {"get", "count", "project"}
WriteStands ==
    \A c \in Callers :
        /\ pc[c] \in {"count", "project"} /\ job[c].imsi \notin touched
             => Bound(job[c].imsi, job[c].number)
        /\ pc[c] \in Committed => job[c].imsi \notin projected

RegistryInv ==
    /\ TablesOk /\ CallsOk /\ ObserversOk
    /\ Exclusion /\ WriteStands
    /\ AckedBindingStands /\ ProjectionFollows

-----------------------------------------------------------------------------
(* Lemmas about what one query sees.                                        *)

\* No row is a number, and no caller is nobody.
LEMMA ValueFacts ==
  /\ NoNumber \in Values /\ NoRow \notin Values /\ NoNumber \notin Numbers
  /\ Nobody \notin Callers /\ NoRow \notin Imsis
  BY SubscriberAssumption DEF Values

\* What the fields of a request may be.
LEMMA JobFields ==
  ASSUME NEW j \in Jobs
  PROVE  /\ j.imsi \in Imsis /\ j.number \in Values
         /\ j.kind \in {"bind", "unbind"}
         /\ j.kind = "bind" => j.number \in Numbers
         /\ j.kind = "unbind" => j.number = NoNumber
  BY DEF Jobs, Values

\* What a binding is depends on the rows of that IMSI only.
LEMMA BoundLocal ==
  ASSUME NEW i, NEW v, sip'[i] = sip[i], dial'[i] = dial[i]
  PROVE  Bound(i, v)' <=> Bound(i, v)
  BY DEF Bound, GetState

\* What is left of the invariant when a step touches neither the databases
\* nor what the observers say.
LEMMA CallersMove ==
  ASSUME RegistryInv, CallsOk', Exclusion', WriteStands',
         UNCHANGED <<dbVars, observers>>
  PROVE  RegistryInv'
<1>1. \A i \in Imsis : \A v : Bound(i, v)' <=> Bound(i, v)
  BY BoundLocal DEF dbVars
<1> QED
  BY <1>1 DEF RegistryInv, TablesOk, ObserversOk, AckedBindingStands,
              ProjectionFollows, dbVars, observers

-----------------------------------------------------------------------------
(* How a caller moves.                                                      *)

\* A caller goes on inside its call.
LEMMA GoesOn ==
  ASSUME NEW c \in Callers, RegistryInv, Inside(c),
         NEW p \in Points \ {"idle", "lock"}, Goto(c, p), UNCHANGED <<job, mutationMu>>
  PROVE  /\ CallsOk' /\ Exclusion'
         /\ pc'[c] = p
         /\ \A d \in Callers \ {c} : pc'[d] = pc[d] /\ ~Inside(d)
<1>1. /\ pc \in [Callers -> Points] /\ pc' = [pc EXCEPT ![c] = p]
      /\ job' = job /\ mutationMu' = mutationMu
  BY DEF RegistryInv, CallsOk, Goto
<1>2. \A d \in Callers \ {c} : pc'[d] = pc[d]
  BY <1>1
<1>3. mutationMu = c /\ \A d \in Callers \ {c} : ~Inside(d)
  BY DEF RegistryInv, Exclusion
<1>4. CallsOk'
  BY <1>1 DEF RegistryInv, CallsOk, Inside
<1>5. Exclusion'
  BY <1>1, <1>2, <1>3 DEF Exclusion, Inside
<1> QED  BY <1>1, <1>2, <1>3, <1>4, <1>5

\* A caller returns, and gives the mutex up.
LEMMA GoesBack ==
  ASSUME NEW c \in Callers, NEW how, RegistryInv, Inside(c), Return(c, how)
  PROVE  /\ CallsOk' /\ Exclusion'
         /\ \A d \in Callers : ~Inside(d)'
<1>1. /\ pc \in [Callers -> Points] /\ pc' = [pc EXCEPT ![c] = "idle"]
      /\ job \in [Callers -> Jobs \cup {NoJob}]
      /\ job' = [job EXCEPT ![c] = NoJob]
  BY DEF RegistryInv, CallsOk, Return, Goto
<1>2. \A d \in Callers \ {c} : ~Inside(d) /\ pc'[d] = pc[d] /\ job'[d] = job[d]
  BY <1>1 DEF RegistryInv, Exclusion
<1>3. CallsOk'
  BY <1>1, <1>2 DEF RegistryInv, CallsOk, Points
<1>4. \A d \in Callers : ~Inside(d)'
  BY <1>1, <1>2 DEF Inside
<1> QED  BY <1>3, <1>4 DEF Exclusion

\* Nobody inside a call has a write that must stand.
LEMMA NothingWritten ==
  ASSUME \A d \in Callers : ~Inside(d)
  PROVE  WriteStands
  BY DEF WriteStands, Inside, Committed

\* A call that ends without an acknowledgement.
LEMMA ReturnStep ==
  ASSUME NEW c \in Callers, NEW how, RegistryInv, Inside(c), Return(c, how),
         UNCHANGED <<dbVars, observers>>
  PROVE  RegistryInv'
<1>1. CallsOk' /\ Exclusion' /\ \A d \in Callers : ~Inside(d)'
  BY GoesBack
<1>2. WriteStands'
  BY <1>1 DEF WriteStands, Inside, Committed
<1> QED  BY <1>1, <1>2, CallersMove

\* A call that ends with one: the write stands, so the answer is true.
LEMMA AcknowledgeStep ==
  ASSUME NEW c \in Callers, NEW how, RegistryInv, pc[c] \in {"count", "project"},
         Acknowledge(c, how), UNCHANGED <<dbVars, touched, projected>>
  PROVE  RegistryInv'
<1> DEFINE j == job[c]
<1>1. j \in Jobs /\ j.imsi \in Imsis /\ j.number \in Values
  BY JobFields DEF RegistryInv, CallsOk
<1>2. CallsOk' /\ Exclusion' /\ \A d \in Callers : ~Inside(d)'
  BY GoesBack DEF Acknowledge, Inside
<1>3. WriteStands'
  BY <1>2 DEF WriteStands, Inside, Committed
<1>4. /\ acked \in [Imsis -> Values \cup {NoRow}]
      /\ acked' = [acked EXCEPT ![j.imsi] = j.number]
  BY DEF RegistryInv, ObserversOk, Acknowledge
<1>5. \A i \in Imsis : \A v : Bound(i, v)' <=> Bound(i, v)
  BY BoundLocal DEF dbVars
<1>6. j.imsi \notin projected /\ (j.imsi \notin touched => Bound(j.imsi, j.number))
  BY DEF RegistryInv, WriteStands, Committed
<1>7. TablesOk' /\ ObserversOk'
  BY <1>1, <1>4 DEF RegistryInv, TablesOk, ObserversOk, dbVars
<1>8. AckedBindingStands'
  BY <1>1, <1>4, <1>5, <1>6 DEF RegistryInv, AckedBindingStands
<1>9. ProjectionFollows'
  BY <1>1, <1>4, <1>5, <1>6
     DEF RegistryInv, ProjectionFollows, ObserversOk, dbVars
<1> QED  BY <1>2, <1>3, <1>7, <1>8, <1>9 DEF RegistryInv

-----------------------------------------------------------------------------
(* The steps.                                                               *)

\* The initial tables: rows without a number, nothing acknowledged.
LEMMA RegistryInit == Init => RegistryInv
<1> SUFFICES ASSUME Init PROVE RegistryInv
  OBVIOUS
<1>1. <<>> \in Seq(Values) /\ <<NoNumber>> \in Seq(Values)
  BY ValueFacts
<1>2. TablesOk
  BY <1>1, ValueFacts DEF Init, TablesOk
<1>3. CallsOk /\ ObserversOk /\ Exclusion
  BY DEF Init, CallsOk, ObserversOk, Exclusion, Inside, Points
<1>4. WriteStands
  BY DEF Init, WriteStands, Committed
<1>5. AckedBindingStands /\ ProjectionFollows
  BY DEF Init, AckedBindingStands, ProjectionFollows
<1> QED  BY <1>2, <1>3, <1>4, <1>5 DEF RegistryInv

\* A handler calls, or takes the free mutex.
LEMMA EnterStep ==
  ASSUME NEW c \in Callers, RegistryInv, Lock(c) \/ \E j \in Jobs : Call(c, j)
  PROVE  RegistryInv'
<1>1. pc \in [Callers -> Points] /\ job \in [Callers -> Jobs \cup {NoJob}]
  BY DEF RegistryInv, CallsOk
<1>2. UNCHANGED <<dbVars, observers>>
  BY DEF Lock, Call
<1>3. CASE Lock(c)
  <2>1. pc' = [pc EXCEPT ![c] = "check"] /\ job' = job /\ mutationMu' = c
        /\ mutationMu = Nobody /\ pc[c] = "lock"
    BY <1>3 DEF Lock, Goto
  <2>2. \A d \in Callers : ~Inside(d)
    BY <2>1, ValueFacts DEF RegistryInv, Exclusion
  <2>3. CallsOk' /\ Exclusion'
    BY <1>1, <2>1, <2>2 DEF RegistryInv, CallsOk, Exclusion, Inside, Points
  <2>4. WriteStands'
    BY <1>1, <2>1, <2>2 DEF WriteStands, Inside, Committed
  <2> QED  BY <1>2, <2>3, <2>4, CallersMove
<1>4. ASSUME NEW j \in Jobs, Call(c, j)
      PROVE  RegistryInv'
  <2>1. /\ pc' = [pc EXCEPT ![c] = "lock"] /\ job' = [job EXCEPT ![c] = j]
        /\ mutationMu' = mutationMu /\ pc[c] = "idle"
    BY <1>4 DEF Call, Goto
  <2>2. \A d \in Callers \ {c} : pc'[d] = pc[d] /\ job'[d] = job[d]
    BY <1>1, <2>1
  <2>3. CallsOk' /\ Exclusion'
    BY <1>1, <2>1, <2>2 DEF RegistryInv, CallsOk, Exclusion, Inside, Points
  <2>4. \A i \in Imsis : \A v : Bound(i, v)' <=> Bound(i, v)
    BY <1>2, BoundLocal DEF dbVars
  <2>5. \A d \in Callers : pc'[d] \in Committed => d # c /\ job[d].imsi \in Imsis
    BY <1>1, <2>1, <2>2, JobFields DEF RegistryInv, CallsOk, Committed
  <2>6. WriteStands'
    BY <1>2, <2>2, <2>4, <2>5 DEF RegistryInv, WriteStands, Committed, observers
  <2> QED  BY <1>2, <2>3, <2>6, CallersMove
<1> QED  BY <1>3, <1>4

\* A caller inside its call moves between points before its confirmation.
LEMMA MoveStep ==
  ASSUME NEW c \in Callers, RegistryInv, Inside(c),
         NEW p \in {"transaction", "failed"}, Goto(c, p),
         UNCHANGED <<job, mutationMu, dbVars, observers>>
  PROVE  RegistryInv'
<1>1. /\ CallsOk' /\ Exclusion' /\ pc'[c] = p
      /\ \A d \in Callers \ {c} : pc'[d] = pc[d] /\ ~Inside(d)
  BY GoesOn DEF Points
<1>2. WriteStands'
  BY <1>1 DEF WriteStands, Inside, Committed
<1> QED  BY <1>1, <1>2, CallersMove

\* The transaction of Bind or Unbind keeps the invariant.
LEMMA CommitStep ==
  ASSUME NEW c \in Callers, RegistryInv, Commit(c)
  PROVE  RegistryInv'
<1> DEFINE j == job[c]
           i == job[c].imsi
<1>1. /\ Inside(c) /\ j \in Jobs /\ i \in Imsis /\ j.number \in Values
  BY JobFields DEF Commit, Inside, RegistryInv, CallsOk
<1>2. PICK p \in {"get", "lost"} : Goto(c, p)
  BY DEF Commit, Goto
<1>3. /\ CallsOk' /\ Exclusion' /\ pc'[c] = p
      /\ \A d \in Callers \ {c} : pc'[d] = pc[d] /\ ~Inside(d)
  BY <1>1, <1>2, GoesOn DEF Commit, Points
<1>4. /\ sip' = [sip EXCEPT ![i] = <<j.number>>]
      /\ dial' = [dial EXCEPT ![i] =
                     IF j.kind = "unbind" /\ @ = <<>> THEN @ ELSE <<j.number>>]
      /\ acked' = [acked EXCEPT ![i] = NoRow]
      /\ projected' = projected \ {i}
      /\ UNCHANGED <<tmsi, job, touched>>
  BY DEF Commit, Write
<1>5. /\ sip \in [Imsis -> Seq(Values)] /\ dial \in [Imsis -> Seq(Values)]
      /\ acked \in [Imsis -> Values \cup {NoRow}] /\ projected \subseteq Imsis
  BY DEF RegistryInv, TablesOk, ObserversOk
<1>6. <<j.number>> \in Seq(Values)
  BY <1>1
<1>7. TablesOk' /\ ObserversOk'
  BY <1>1, <1>4, <1>5, <1>6 DEF RegistryInv, TablesOk, ObserversOk
<1>8. \A k \in Imsis \ {i} : \A v : Bound(k, v)' <=> Bound(k, v)
  BY <1>4, <1>5, BoundLocal
<1>9. WriteStands'
  BY <1>3, <1>4 DEF WriteStands, Inside, Committed
<1>10. AckedBindingStands'
  BY <1>1, <1>4, <1>5, <1>8 DEF RegistryInv, AckedBindingStands
<1>11. ProjectionFollows'
  BY <1>1, <1>4, <1>5, <1>8 DEF RegistryInv, ProjectionFollows
<1> QED  BY <1>3, <1>7, <1>9, <1>10, <1>11 DEF RegistryInv

\* So does the read after it, which must find the binding,
LEMMA ConfirmStep ==
  ASSUME NEW c \in Callers, RegistryInv, Confirm(c)
  PROVE  RegistryInv'
<1>1. Inside(c) /\ pc[c] = "get" /\ UNCHANGED <<dbVars, observers>>
  BY DEF Confirm, Inside
<1>2. CASE \E how : Return(c, how)
  BY <1>1, <1>2, ReturnStep
<1>3. CASE /\ Bound(job[c].imsi, job[c].number) /\ Goto(c, "count")
           /\ UNCHANGED <<job, mutationMu>>
  <2>1. /\ CallsOk' /\ Exclusion' /\ pc'[c] = "count"
        /\ \A d \in Callers \ {c} : pc'[d] = pc[d] /\ ~Inside(d)
    BY <1>1, <1>3, GoesOn DEF Points
  <2>2. Bound(job[c].imsi, job[c].number)'
    BY <1>1, <1>3, BoundLocal DEF dbVars
  <2>3. job[c].imsi \notin projected
    BY <1>1 DEF RegistryInv, WriteStands, Committed
  <2>4. WriteStands'
    BY <1>1, <1>3, <2>1, <2>2, <2>3 DEF WriteStands, Inside, Committed, observers
  <2> QED  BY <1>1, <2>1, <2>4, CallersMove
<1> QED  BY <1>2, <1>3 DEF Confirm

\* and the count of the rows of the TMSI table.
LEMMA CountStep ==
  ASSUME NEW c \in Callers, RegistryInv, CountRow(c)
  PROVE  RegistryInv'
<1>1. Inside(c) /\ pc[c] = "count" /\ UNCHANGED <<dbVars, touched, projected>>
  BY DEF CountRow, Inside
<1>2. CASE \E how : Acknowledge(c, how)
  BY <1>1, <1>2, AcknowledgeStep
<1>3. CASE Goto(c, "project") /\ UNCHANGED <<job, mutationMu, acked>>
  <2>1. /\ CallsOk' /\ Exclusion' /\ pc'[c] = "project"
        /\ \A d \in Callers \ {c} : pc'[d] = pc[d] /\ ~Inside(d)
    BY <1>1, <1>3, GoesOn DEF Points
  <2>2. Bound(job[c].imsi, job[c].number)' <=> Bound(job[c].imsi, job[c].number)
    BY <1>1, <1>3, BoundLocal DEF dbVars
  <2>3. WriteStands'
    BY <1>1, <1>3, <2>1, <2>2 DEF RegistryInv, WriteStands, Inside, Committed
  <2>4. UNCHANGED <<dbVars, observers>>
    BY <1>1, <1>3 DEF observers
  <2> QED  BY <2>1, <2>3, <2>4, CallersMove
<1> QED  BY <1>2, <1>3 DEF CountRow

\* projectTMSI writes the row of a write that stands, under the mutex.
LEMMA ProjectStep ==
  ASSUME NEW c \in Callers, RegistryInv, Project(c)
  PROVE  RegistryInv'
<1> DEFINE j == job[c]
           i == job[c].imsi
<1>1. /\ pc[c] = "project" /\ Inside(c) /\ UNCHANGED <<sip, dial, touched>>
      /\ j \in Jobs /\ i \in Imsis /\ j.number \in Values
  BY JobFields DEF Project, Inside, RegistryInv, CallsOk
<1>2. CASE Acknowledge(c, "unprojected") /\ UNCHANGED <<tmsi, projected>>
  BY <1>1, <1>2, AcknowledgeStep DEF dbVars
<1>3. CASE /\ tmsi' = [tmsi EXCEPT ![i] = IF @ = NoRow THEN @ ELSE j.number]
           /\ projected' = IF tmsi[i] = NoRow THEN projected
                                              ELSE projected \cup {i}
           /\ Acknowledge(c, "updated")
  <2>1. CallsOk' /\ Exclusion' /\ \A d \in Callers : ~Inside(d)'
    BY <1>1, <1>3, GoesBack DEF Acknowledge
  <2>2. WriteStands'
    BY <2>1 DEF WriteStands, Inside, Committed
  <2>3. /\ acked \in [Imsis -> Values \cup {NoRow}]
        /\ acked' = [acked EXCEPT ![i] = j.number]
        /\ tmsi \in [Imsis -> Values \cup {NoRow}]
    BY <1>3 DEF RegistryInv, ObserversOk, TablesOk, Acknowledge
  <2>4. \A k \in Imsis : \A v : Bound(k, v)' <=> Bound(k, v)
    BY <1>1, BoundLocal
  <2>5. i \notin projected /\ (i \notin touched => Bound(i, j.number))
    BY <1>1 DEF RegistryInv, WriteStands, Committed
  <2>6. TablesOk' /\ ObserversOk'
    BY <1>1, <1>3, <2>3 DEF RegistryInv, TablesOk, ObserversOk
  <2>7. AckedBindingStands'
    BY <1>1, <2>3, <2>4, <2>5 DEF RegistryInv, AckedBindingStands
  <2>8. \A k \in projected' :
          \/ k = i /\ tmsi'[i] = j.number
          \/ k \in projected /\ k # i /\ tmsi'[k] = tmsi[k]
    BY <1>1, <1>3, <2>3, <2>5 DEF RegistryInv, ObserversOk
  <2>9. ProjectionFollows'
    BY <1>1, <2>3, <2>4, <2>5, <2>8
       DEF RegistryInv, ProjectionFollows, ObserversOk
  <2> QED  BY <2>1, <2>2, <2>6, <2>7, <2>9 DEF RegistryInv
<1> QED  BY <1>2, <1>3 DEF Project

\* A native service writes a row of an IMSI: nothing was promised of it.
LEMMA NativeRowStep ==
  ASSUME NEW i \in Imsis, NEW v \in Values, RegistryInv, NativeRow(i, v)
  PROVE  RegistryInv'
<1>1. /\ touched' = touched \cup {i}
      /\ UNCHANGED <<tmsi, acked, projected, pc, job, mutationMu>>
  BY DEF NativeRow, Native, callVars
<1>2. /\ sip \in [Imsis -> Seq(Values)] /\ dial \in [Imsis -> Seq(Values)]
  BY DEF RegistryInv, TablesOk
<1>3. \E s, d \in Seq(Values) : /\ sip' = [sip EXCEPT ![i] = s]
                                /\ dial' = [dial EXCEPT ![i] = d]
  <2>1. sip = [sip EXCEPT ![i] = sip[i]] /\ dial = [dial EXCEPT ![i] = dial[i]]
        /\ sip[i] \in Seq(Values) /\ dial[i] \in Seq(Values)
    BY <1>2
  <2>2. CASE sip' = [sip EXCEPT ![i] = @ \o <<v>>] /\ UNCHANGED dial
    <3>1. sip[i] \o <<v>> \in Seq(Values)  BY <2>1
    <3> QED  BY <2>1, <2>2, <3>1
  <2>3. CASE dial' = [dial EXCEPT ![i] = @ \o <<v>>] /\ UNCHANGED sip
    <3>1. dial[i] \o <<v>> \in Seq(Values)  BY <2>1
    <3> QED  BY <2>1, <2>3, <3>1
  <2>4. CASE sip[i] # <<>> /\ sip' = [sip EXCEPT ![i][1] = v] /\ UNCHANGED dial
    <3>1. [sip[i] EXCEPT ![1] = v] \in Seq(Values)
      BY <2>1, <2>4, ExceptSeq
    <3>2. sip' = [sip EXCEPT ![i] = [sip[i] EXCEPT ![1] = v]]  BY <2>4
    <3> QED  BY <2>1, <2>4, <3>1, <3>2
  <2> QED  BY <2>2, <2>3, <2>4 DEF NativeRow
<1>4. TablesOk' /\ ObserversOk' /\ CallsOk' /\ Exclusion'
  BY <1>1, <1>2, <1>3
     DEF RegistryInv, TablesOk, ObserversOk, CallsOk, Exclusion, Inside
<1>5. \A k \in Imsis \ touched' : \A w : Bound(k, w)' <=> Bound(k, w)
  BY <1>1, <1>2, <1>3, BoundLocal
<1>6. WriteStands'
  <2>1. \A c \in Callers : pc[c] \in Committed => job[c].imsi \in Imsis
    BY JobFields DEF RegistryInv, CallsOk, Committed
  <2> QED  BY <1>1, <1>5, <2>1 DEF RegistryInv, WriteStands, Committed
<1>7. AckedBindingStands' /\ ProjectionFollows'
  BY <1>1, <1>5 DEF RegistryInv, AckedBindingStands, ProjectionFollows, ObserversOk
<1> QED  BY <1>4, <1>6, <1>7 DEF RegistryInv

\* OpenBTS renews or drops a TMSI row.
LEMMA NativeTmsiStep ==
  ASSUME NEW i \in Imsis, NEW v \in Values \cup {NoRow}, RegistryInv, NativeTmsi(i, v)
  PROVE  RegistryInv'
<1>1. /\ tmsi' = [tmsi EXCEPT ![i] = v] /\ projected' = projected \ {i}
      /\ UNCHANGED <<sip, dial, touched, acked, pc, job, mutationMu>>
  BY DEF NativeTmsi, Native, callVars
<1>2. TablesOk' /\ ObserversOk' /\ CallsOk' /\ Exclusion'
  BY <1>1 DEF RegistryInv, TablesOk, ObserversOk, CallsOk, Exclusion, Inside
<1>3. \A k : \A w : Bound(k, w)' <=> Bound(k, w)
  BY <1>1, BoundLocal
<1>4. WriteStands' /\ AckedBindingStands'
  BY <1>1, <1>3 DEF RegistryInv, WriteStands, AckedBindingStands
<1>5. ProjectionFollows'
  BY <1>1, <1>3 DEF RegistryInv, ProjectionFollows, TablesOk, ObserversOk
<1> QED  BY <1>2, <1>4, <1>5 DEF RegistryInv

\* Every step of the registry and of the native services keeps the invariant.
LEMMA RegistryStep ==
  ASSUME RegistryInv, [Next]_vars
  PROVE  RegistryInv'
<1>1. ASSUME NEW c \in Callers, CallStep(c)
      PROVE  RegistryInv'
  <2>1. CASE Lock(c)  BY <2>1, EnterStep
  <2>2. CASE Check(c)
    <3>1. Inside(c) /\ UNCHANGED <<dbVars, observers>>
      BY <2>2 DEF Check, Inside
    <3>2. \/ Goto(c, "transaction") /\ UNCHANGED <<job, mutationMu>>
          \/ \E how : Return(c, how)
      BY <2>2 DEF Check
    <3> QED  BY <3>1, <3>2, MoveStep, ReturnStep
  <2>3. CASE Commit(c)  BY <2>3, CommitStep
  <2>4. CASE Abort(c)
    BY <2>4, MoveStep DEF Abort, Inside
  <2>5. CASE Failed(c)
    <3>1. Inside(c) /\ UNCHANGED <<dbVars, observers>> /\ \E how : Return(c, how)
      BY <2>5 DEF Failed, Inside
    <3> QED  BY <3>1, ReturnStep
  <2>6. CASE Confirm(c)  BY <2>6, ConfirmStep
  <2>7. CASE CountRow(c)  BY <2>7, CountStep
  <2>8. CASE Project(c)  BY <2>8, ProjectStep
  <2> QED
    BY <1>1, <2>1, <2>2, <2>3, <2>4, <2>5, <2>6, <2>7, <2>8 DEF CallStep
<1>2. CASE UNCHANGED vars
  <2>1. UNCHANGED <<dbVars, observers, pc, job, mutationMu>>
    BY <1>2 DEF vars, callVars
  <2>2. \A k : \A w : Bound(k, w)' <=> Bound(k, w)
    BY <2>1, BoundLocal DEF dbVars
  <2>3. CallsOk' /\ Exclusion' /\ WriteStands'
    BY <2>1, <2>2 DEF RegistryInv, CallsOk, Exclusion, Inside, WriteStands, observers
  <2> QED  BY <2>1, <2>3, CallersMove
<1> QED
  BY <1>1, <1>2, EnterStep, NativeRowStep, NativeTmsiStep DEF Next, Request

\* RegistryInv always holds.
LEMMA RegistryInvariant == Spec => []RegistryInv
<1>1. RegistryInv /\ [Next]_vars => RegistryInv'
  BY RegistryStep
<1> QED  BY <1>1, RegistryInit, PTL DEF Spec

-----------------------------------------------------------------------------
(* The registry.                                                            *)

\* What Bind or Unbind answered stays true until the next transaction on that
\* IMSI or a native write: the mutation mutex keeps every other request out
\* between the transaction and the answer.
THEOREM AckedBindingStandsHolds == Spec => []AckedBindingStands
<1>1. RegistryInv => AckedBindingStands
  BY DEF RegistryInv
<1> QED  BY <1>1, RegistryInvariant, PTL

\* The TMSI row that projectTMSI wrote last agrees with the registry, as long
\* as the native services leave the IMSI alone.
THEOREM ProjectionFollowsHolds == Spec => []ProjectionFollows
<1>1. RegistryInv => ProjectionFollows
  BY DEF RegistryInv
<1> QED  BY <1>1, RegistryInvariant, PTL

\* A caller whose transaction has taken effect finds its own write, and nobody
\* else with the number, as long as no native service has written.
Effective(c) ==
    /\ Bound(job[c].imsi, job[c].number)
    /\ job[c].kind = "bind" => BindingState(job[c].imsi, job[c].number) = "ok"
EffectStands ==
    touched = {} => \A c \in Callers : pc[c] \in {"get", "lost"} => Effective(c)

\* The transaction makes it so: its guard left nobody else with the number.
LEMMA CommitEffect ==
  ASSUME NEW c \in Callers, RegistryInv, Commit(c)
  PROVE  Effective(c)'
<1> DEFINE j == job[c]
           i == job[c].imsi
<1>1. /\ j \in Jobs /\ i \in Imsis /\ j.number \in Values /\ j.kind \in {"bind", "unbind"}
      /\ j.kind = "unbind" => j.number = NoNumber
  BY JobFields DEF Commit, RegistryInv, CallsOk
<1>2. /\ sip' = [sip EXCEPT ![i] = <<j.number>>]
      /\ dial' = [dial EXCEPT ![i] =
                     IF j.kind = "unbind" /\ @ = <<>> THEN @ ELSE <<j.number>>]
      /\ job' = job
      /\ j.kind = "bind" => Holders(j.number) \ {i} = {}
  BY DEF Commit, Write, Guard
<1>3. /\ sip \in [Imsis -> Seq(Values)] /\ dial \in [Imsis -> Seq(Values)]
  BY DEF RegistryInv, TablesOk
<1>4. /\ sip'[i] = <<j.number>>
      /\ dial'[i] = <<j.number>> \/ (dial'[i] = <<>> /\ j.number = NoNumber)
  BY <1>1, <1>2, <1>3
<1>5. Len(sip'[i]) = 1 /\ Len(dial'[i]) <= 1 /\ sip'[i] # <<>>
  <2>1. Len(<<j.number>>) = 1 /\ Len(<<>>) = 0 /\ <<j.number>> # <<>>
    OBVIOUS
  <2>2. Len(sip'[i]) = 1 /\ sip'[i] # <<>> /\ (Len(dial'[i]) = 0 \/ Len(dial'[i]) = 1)
    BY <1>4, <2>1, Zenon
  <2>3. Len(dial'[i]) <= 1
    <3> DEFINE length == Len(dial'[i])
    <3>1. length = 0 \/ length = 1  BY <2>2
    <3> HIDE DEF length
    <3>2. length <= 1  BY <3>1
    <3> QED  BY <3>2 DEF length
  <2> QED  BY <2>2, <2>3, Zenon
<1>6. Bound(i, j.number)'
  BY <1>2, <1>4, <1>5 DEF Bound, GetState
<1>7. ASSUME j.kind = "bind"
      PROVE  BindingState(i, j.number)' = "ok"
  <2>1. \A k \in Imsis \ {i} : sip'[k] = sip[k] /\ dial'[k] = dial[k]
    BY <1>2, <1>3
  <2>2. (Holders(j.number) \ {i})' = {}
    BY <1>2, <1>7, <2>1 DEF Holders, RowsOf
  <2> QED  BY <1>2, <1>5, <2>2 DEF BindingState
<1> QED  BY <1>2, <1>6, <1>7 DEF Effective

\* The mutation mutex: nobody else writes before that caller has its answer.
LEMMA EffectStep ==
  ASSUME RegistryInv, EffectStands, [Next]_vars
  PROVE  EffectStands'
<1> SUFFICES ASSUME touched' = {}, NEW c \in Callers, pc'[c] \in {"get", "lost"}
             PROVE  Effective(c)'
  BY DEF EffectStands
<1>1. CASE Commit(c)
  BY <1>1, CommitEffect
<1>2. CASE ~Commit(c)
  <2>1. pc \in [Callers -> Points] /\ job \in [Callers -> Jobs \cup {NoJob}]
    BY DEF RegistryInv, CallsOk
  <2>2. touched = {}
    BY DEF Next, NativeRow, NativeTmsi, Request, CallStep, Call, Lock, Check, Commit,
           Abort, Failed, Confirm, CountRow, Project, observers, vars
  <2>3. pc[c] = pc'[c] /\ job'[c] = job[c]
    <3>1. CASE UNCHANGED <<pc, job>>  BY <3>1
    <3>2. CASE ~UNCHANGED <<pc, job>>
      <4>1. PICK d \in Callers : CallStep(d) \/ \E j \in Jobs : Call(d, j)
        BY <3>2 DEF Next, NativeRow, NativeTmsi, Native, callVars, Request, vars
      <4>2. CASE d # c
        BY <2>1, <4>1, <4>2
           DEF CallStep, Call, Lock, Check, Commit, Abort, Failed, Confirm,
               CountRow, Project, Goto, Return, Acknowledge
      <4>3. CASE d = c
        <5>1. pc'[c] \notin {"get", "lost"}
          BY <1>2, <2>1, <4>1, <4>3
             DEF CallStep, Call, Lock, Check, Abort, Failed, Confirm, CountRow,
                 Project, Goto, Return, Acknowledge
        <5> QED  BY <5>1
      <4> QED  BY <4>2, <4>3
    <3> QED  BY <3>1, <3>2
  <2>4. \A d \in Callers : ~Commit(d)
    <3> SUFFICES ASSUME NEW d \in Callers, Commit(d)  PROVE FALSE
      OBVIOUS
    <3>1. Inside(d) /\ Inside(c)
      BY <2>3 DEF Commit, Inside
    <3> QED  BY <1>2, <3>1 DEF RegistryInv, Exclusion
  <2>5. UNCHANGED <<sip, dial>>
    BY <2>4 DEF Next, NativeRow, NativeTmsi, Request, CallStep, Call, Lock, Check,
                Abort, Failed, Confirm, CountRow, Project, dbVars, vars
  <2>6. Effective(c)
    BY <2>2, <2>3 DEF EffectStands
  <2> QED
    BY <2>3, <2>5, <2>6
       DEF Effective, Bound, GetState, BindingState, Holders, RowsOf
<1> QED  BY <1>1, <1>2

\* Bind and Unbind under the mutation mutex: a call whose transaction has taken
\* effect is told so, or of a failure, but never that it was refused.
THEOREM EffectIsNotRefusedHolds == Spec => EffectIsNotRefused
<1>1. Init => EffectStands
  BY DEF Init, EffectStands
<1>2. RegistryInv /\ EffectStands /\ [Next]_vars => EffectStands'
  BY EffectStep
<1>3. RegistryInv /\ EffectStands /\ [Next]_vars =>
        [\A c \in Callers :
            pc[c] \in {"get", "lost"} /\ pc'[c] = "idle" /\ touched = {}
                => answer' = "failed"]_vars
  <2> SUFFICES ASSUME RegistryInv, EffectStands, Next, NEW c \in Callers,
                      pc[c] \in {"get", "lost"}, pc'[c] = "idle", touched = {}
               PROVE  answer' = "failed"
    OBVIOUS
  <2>1. pc \in [Callers -> Points]
    BY DEF RegistryInv, CallsOk
  <2>2. Failed(c) \/ Confirm(c)
    <3>1. PICK d \in Callers : CallStep(d) \/ \E j \in Jobs : Call(d, j)
      BY DEF Next, NativeRow, NativeTmsi, Native, callVars, Request
    <3>2. c = d
      BY <2>1, <3>1 DEF CallStep, Call, Lock, Check, Commit, Abort, Failed, Confirm,
                        CountRow, Project, Goto, Return, Acknowledge
    <3> QED
      BY <3>1, <3>2 DEF CallStep, Call, Lock, Check, Commit, Abort, CountRow, Project
  <2>3. Effective(c)
    BY DEF EffectStands
  <2>4. CASE Failed(c)
    BY <2>3, <2>4 DEF Failed, Effective, Return
  <2>5. CASE Confirm(c)
    BY <2>1, <2>3, <2>5 DEF Confirm, Effective, Return, Goto
  <2> QED  BY <2>2, <2>4, <2>5
<1> QED
  BY <1>1, <1>2, <1>3, RegistryInvariant, PTL DEF Spec, EffectIsNotRefused

\* The transaction's guard: only the caller's IMSI gets the number, and of
\* other numbers it only loses holders.
LEMMA CommitHolders ==
  ASSUME NEW c \in Callers, RegistryInv, Commit(c), NEW n \in Numbers
  PROVE  \/ \A i, k \in Holders(n)' : i = k
         \/ Holders(n)' \subseteq Holders(n)
<1> DEFINE j == job[c]
           t == job[c].imsi
<1>1. j \in Jobs /\ t \in Imsis /\ (j.kind = "unbind" => j.number = NoNumber)
      /\ j.kind \in {"bind", "unbind"}
  BY JobFields DEF Commit, RegistryInv, CallsOk
<1>2. /\ sip \in [Imsis -> Seq(Values)] /\ dial \in [Imsis -> Seq(Values)]
      /\ sip' = [sip EXCEPT ![t] = <<j.number>>]
      /\ dial' = [dial EXCEPT ![t] =
                     IF j.kind = "unbind" /\ @ = <<>> THEN @ ELSE <<j.number>>]
  BY DEF Commit, Write, RegistryInv, TablesOk
<1>3. \A k \in Imsis \ {t} : k \in Holders(n)' => k \in Holders(n)
  <2> SUFFICES ASSUME NEW k \in Imsis \ {t}, k \in Holders(n)'
               PROVE  k \in Holders(n)
    OBVIOUS
  <2>1. sip'[k] = sip[k] /\ dial'[k] = dial[k]
    BY <1>2
  <2> QED  BY <2>1 DEF Holders, RowsOf
<1>4. CASE n = j.number
  <2>1. j.kind = "bind"
    BY <1>1, <1>4, ValueFacts
  <2>2. Holders(n) \ {t} = {}
    BY <1>4, <2>1 DEF Commit, Guard
  <2>3. \A k \in Holders(n)' : k = t
    BY <1>3, <2>2 DEF Holders
  <2> QED  BY <2>3
<1>5. CASE n # j.number
  <2>1. sip'[t] = <<j.number>> /\ dial'[t] \in {<<>>, <<j.number>>}
    BY <1>1, <1>2
  <2>2. n \notin RowsOf(sip', t) /\ n \notin RowsOf(dial', t)
    BY <1>5, <2>1 DEF RowsOf
  <2>3. t \notin Holders(n)'
    BY <2>2 DEF Holders, RowsOf
  <2> QED  BY <1>3, <2>3 DEF Holders
<1> QED  BY <1>4, <1>5

\* No request gives two IMSIs one number, although a native service may take
\* it between the check and the transaction of Bind.
THEOREM RequestsNeverShareHolds == Spec => RequestsNeverShare
<1>1. ASSUME RegistryInv, [Next]_vars
      PROVE  [Request => \A n \in Numbers :
                 \/ \A i, k \in Holders(n)' : i = k
                 \/ Holders(n)' \subseteq Holders(n)]_vars
  <2> SUFFICES ASSUME Request, NEW n \in Numbers
               PROVE  \/ \A i, k \in Holders(n)' : i = k
                      \/ Holders(n)' \subseteq Holders(n)
    OBVIOUS
  <2>1. PICK c \in Callers : (\E j \in Jobs : Call(c, j)) \/ CallStep(c)
    BY DEF Request
  <2>2. CASE Commit(c)
    BY <1>1, <2>2, CommitHolders
  <2>3. CASE ~Commit(c)
    <3>1. UNCHANGED <<sip, dial>>
      BY <2>1, <2>3 DEF CallStep, Call, Lock, Check, Abort, Failed, Confirm,
                        CountRow, Project, dbVars
    <3> QED  BY <3>1 DEF Holders, RowsOf
  <2> QED  BY <2>2, <2>3
<1> QED  BY <1>1, RegistryInvariant, PTL DEF Spec, RequestsNeverShare

-----------------------------------------------------------------------------
(* What the API shows of the registry.                                      *)

\* A table with one row.
LEMMA OneRow ==
  ASSUME NEW table \in [Imsis -> Seq(Values)], NEW i \in Imsis
  PROVE  /\ Len(table[i]) = 1 => table[i] = <<table[i][1]>>
         /\ table[i] # <<>> /\ Len(table[i]) <= 1 => Len(table[i]) = 1
         /\ \A v : v \in RowsOf(table, i) /\ Len(table[i]) <= 1
                     => table[i] = <<v>>
         /\ \A v : table[i] = <<v>> => table[i][1] = v /\ v \in RowsOf(table, i)
                                       /\ table[i] # <<>>
<1>1. /\ table[i] \in Seq(Values) /\ Len(table[i]) \in Nat
      /\ DOMAIN table[i] = 1 .. Len(table[i])
  OBVIOUS
<1>2. Len(table[i]) = 1 => table[i] = <<table[i][1]>>
  BY <1>1
<1>3. table[i] # <<>> /\ Len(table[i]) <= 1 => Len(table[i]) = 1
  BY <1>1, EmptySeq
<1>4. ASSUME NEW v, v \in RowsOf(table, i), Len(table[i]) <= 1
      PROVE  table[i] = <<v>>
  <2>1. PICK k \in DOMAIN table[i] : v = table[i][k]
    BY <1>4 DEF RowsOf
  <2>2. k = 1 /\ Len(table[i]) = 1
    BY <1>1, <1>4, <2>1
  <2> QED  BY <1>2, <2>1, <2>2
<1>5. ASSUME NEW v, table[i] = <<v>>
      PROVE  table[i][1] = v /\ v \in RowsOf(table, i) /\ table[i] # <<>>
  BY <1>5 DEF RowsOf
<1> QED  BY <1>2, <1>3, <1>4, <1>5

\* A binding is an entry of the list with that number.
LEMMA BoundIsListed ==
  ASSUME TablesOk, NEW i \in Imsis, NEW v, Bound(i, v)
  PROVE  Listed(i) /\ NumberOf(i) = v /\ Consistent(i)
<1>1. sip[i] = <<v>> /\ (dial[i] = <<v>> \/ (dial[i] = <<>> /\ v = NoNumber))
  BY DEF Bound
<1> QED  BY <1>1, OneRow DEF TablesOk, Listed, NumberOf, Consistent

\* A consistent entry with a number is a binding.
LEMMA ListedIsBound ==
  ASSUME TablesOk, ListOk, NEW i \in Imsis, Listed(i), Consistent(i),
         NumberOf(i) # NoNumber
  PROVE  Bound(i, NumberOf(i))
<1>1. GetState(i) = "ok" /\ Len(sip[i]) = 1 /\ Len(dial[i]) <= 1
  BY DEF ListOk, GetState, Listed
<1>2. dial[i] # <<>> /\ NumberOf(i) = dial[i][1]
  BY DEF NumberOf
<1>3. dial[i] = <<NumberOf(i)>>
  BY <1>1, <1>2, OneRow DEF TablesOk
<1>4. sip[i] = <<NumberOf(i)>>
  BY <1>1, OneRow DEF TablesOk, Consistent
<1> QED  BY <1>1, <1>3, <1>4 DEF Bound

\* connectionItems and applySubscriberNumbers: an acknowledged binding is what
\* a handset is shown with, whatever was observed of it before.
THEOREM ShownNumberIsCurrentHolds == Spec => []ShownNumberIsCurrent
<1>1. RegistryInv => ShownNumberIsCurrent
  <2> SUFFICES ASSUME RegistryInv, ListOk, NEW i \in Imsis \ touched,
                      acked[i] # NoRow, NEW observed \in Values
               PROVE  ShownNumber(i, observed) = acked[i]
    BY DEF ShownNumberIsCurrent
  <2>1. Bound(i, acked[i])
    BY DEF RegistryInv, AckedBindingStands
  <2>2. Listed(i) /\ NumberOf(i) = acked[i] /\ Consistent(i)
    BY <2>1, BoundIsListed DEF RegistryInv
  <2> QED  BY <2>2 DEF ShownNumber
<1> QED  BY <1>1, RegistryInvariant, PTL

\* What the index has under a number, and what is resolved from either half.
LEMMA Resolved ==
  ASSUME NEW n \in Numbers, NEW i \in Imsis, NEW codes, NoNumber \notin codes
  PROVE  /\ ResolveParty(n, NoRow, codes).imsi = i
              <=> Indexed(i, codes) /\ NumberOf(i) = n
         /\ ResolveParty(NoNumber, i, codes).number = n
              <=> Indexed(i, codes) /\ NumberOf(i) = n
<1>1. i # NoRow /\ n # NoNumber
  BY ValueFacts
<1>2. ResolveParty(n, NoRow, codes).imsi = i
        <=> Indexed(i, codes) /\ NumberOf(i) = n
  <2> DEFINE same == {k \in Imsis : Indexed(k, codes) /\ NumberOf(k) = n}
             entry == CHOOSE k \in same : TRUE
  <2>1. ResolveParty(n, NoRow, codes) =
           IF same = {} \/ n \in codes THEN [number |-> n, imsi |-> NoRow]
           ELSE [number |-> NumberOf(entry), imsi |-> entry]
    BY <1>1 DEF ResolveParty
  <2>2. ResolveParty(n, NoRow, codes).imsi =
           IF same = {} \/ n \in codes THEN NoRow ELSE entry
    BY <2>1
  <2>3. \A k \in same : n \notin codes /\ \A h \in same : h = k
    BY DEF Indexed
  <2>4. same # {} => entry \in same
    OBVIOUS
  <2> HIDE DEF entry
  <2> QED  BY <1>1, <2>2, <2>3, <2>4
<1>3. ResolveParty(NoNumber, i, codes).number = n
        <=> Indexed(i, codes) /\ NumberOf(i) = n
  <2> DEFINE same == {k \in Imsis : Indexed(k, codes) /\ k = i}
             entry == CHOOSE k \in same : TRUE
  <2>1. ResolveParty(NoNumber, i, codes) =
           IF same = {} THEN [number |-> NoNumber, imsi |-> i]
           ELSE [number |-> NumberOf(entry), imsi |-> entry]
    BY <1>1 DEF ResolveParty
  <2>2. same # {} => entry = i
    OBVIOUS
  <2>3. ResolveParty(NoNumber, i, codes).number =
           IF same = {} THEN NoNumber ELSE NumberOf(entry)
    BY <2>1
  <2>4. same = {} <=> ~Indexed(i, codes)
    OBVIOUS
  <2> HIDE DEF entry, same
  <2> QED  BY <1>1, <2>2, <2>3, <2>4
<1> QED  BY <1>2, <1>3

\* Where the list is well formed, only entries of it have a dial row.
LEMMA UnlistedHasNoRow ==
  ASSUME TablesOk, ListOk, NEW k \in Imsis
  PROVE  /\ Len(dial[k]) <= 1
         /\ ~Listed(k) => dial[k] = <<>>
<1>1. /\ sip[k] \in Seq(Values) /\ dial[k] \in Seq(Values)
      /\ GetState(k) \in {"ok", "not_found"}
  BY DEF TablesOk, ListOk
<1>2. Len(<<>>) = 0
  OBVIOUS
<1> QED  BY <1>1, <1>2 DEF GetState, Listed

\* newSMSBindingIndex and resolveSMSParty: a completed party is a current
\* binding that no other subscriber dials, either half gives the other, and an
\* acknowledged number that is nobody else's is always found.
THEOREM CompletionIsCurrentHolds == Spec => []CompletionIsCurrent
<1>1. RegistryInv => CompletionIsCurrent
  <2> SUFFICES ASSUME RegistryInv, ListOk, NEW n \in Numbers, NEW i \in Imsis,
                      NEW codes \in {{}, {n}}
               PROVE
        /\ ResolveParty(n, NoRow, codes).imsi = i
             <=> ResolveParty(NoNumber, i, codes).number = n
        /\ ResolveParty(n, NoRow, codes).imsi = i =>
             /\ Bound(i, n) /\ n \notin codes
             /\ \A k \in Imsis \ {i} : n \notin RowsOf(dial, k)
        /\ i \notin touched /\ acked[i] = n /\ n \notin codes
             => ResolveParty(n, NoRow, codes).imsi = i \/ Holders(n) # {i}
    BY DEF CompletionIsCurrent
  <2>1. /\ TablesOk /\ n # NoNumber /\ n # NoRow
        /\ NoNumber \notin codes
    BY ValueFacts DEF RegistryInv, Values
  <2>2. /\ ResolveParty(n, NoRow, codes).imsi = i
             <=> Indexed(i, codes) /\ NumberOf(i) = n
        /\ ResolveParty(NoNumber, i, codes).number = n
             <=> Indexed(i, codes) /\ NumberOf(i) = n
    BY <2>1, Resolved, Zenon
  <2>3. ASSUME ResolveParty(n, NoRow, codes).imsi = i
        PROVE  /\ Bound(i, n) /\ n \notin codes
               /\ \A k \in Imsis \ {i} : n \notin RowsOf(dial, k)
    <3>1. Indexed(i, codes) /\ NumberOf(i) = n
      BY <2>2, <2>3
    <3>2. Bound(i, n) /\ n \notin codes
      BY <2>1, <3>1, ListedIsBound DEF Indexed
    <3>3. ASSUME NEW k \in Imsis \ {i}, n \in RowsOf(dial, k)
          PROVE  FALSE
      <4>1. Len(dial[k]) <= 1 /\ (~Listed(k) => dial[k] = <<>>)
        BY <2>1, UnlistedHasNoRow
      <4>2. dial \in [Imsis -> Seq(Values)] /\ dial[k] \in Seq(Values)
        BY <2>1 DEF TablesOk
      <4>3. dial[k] # <<>> /\ dial[k][1] = n
        BY <3>3, <4>1, <4>2 DEF RowsOf
      <4>4. Listed(k) /\ NumberOf(k) = n
        BY <4>1, <4>3 DEF NumberOf
      <4> QED  BY <3>1, <4>4 DEF Indexed
    <3> QED  BY <3>2, <3>3
  <2>4. ASSUME i \notin touched, acked[i] = n, n \notin codes, Holders(n) = {i}
        PROVE  ResolveParty(n, NoRow, codes).imsi = i
    <3>1. Bound(i, n)
      BY <2>1, <2>4 DEF RegistryInv, AckedBindingStands
    <3>2. Listed(i) /\ NumberOf(i) = n /\ Consistent(i)
      BY <2>1, <3>1, BoundIsListed
    <3>3. ASSUME NEW k \in Imsis \ {i}, NumberOf(k) = n
          PROVE  FALSE
      <4>1. dial[k] # <<>> /\ dial[k][1] = n
        BY <2>1, <3>3 DEF NumberOf
      <4>2. dial[k] \in Seq(Values)
        BY <2>1 DEF TablesOk
      <4>3. n \in RowsOf(dial, k)
        BY <4>1, <4>2 DEF RowsOf
      <4> QED  BY <2>4, <4>3 DEF Holders
    <3>4. Indexed(i, codes)
      BY <2>1, <2>4, <3>2, <3>3 DEF Indexed
    <3> QED  BY <2>2, <3>2, <3>4
  <2>5. ResolveParty(n, NoRow, codes).imsi = i
          <=> ResolveParty(NoNumber, i, codes).number = n
    BY <2>2
  <2> QED  BY <2>3, <2>4, <2>5
<1> QED  BY <1>1, RegistryInvariant, PTL
=============================================================================
