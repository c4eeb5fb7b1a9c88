----------------------------- MODULE Subscriber -----------------------------
(***************************************************************************)
(* The subscriber registry (src/internal/subscriber/store.go): Bind and    *)
(* Unbind of an IMSI's number, called by concurrent handlers, beside the   *)
(* native services that write the same databases.                          *)
(*                                                                         *)
(* For an IMSI, sip and dial are the rows that sip_buddies and             *)
(* dialdata_table hold, each row reduced to the number it gives the IMSI   *)
(* (NoNumber is the empty string), and tmsi is the number in OpenBTS' TMSI *)
(* table, if that has a row.  An SQL statement or a transaction is one     *)
(* step; it may fail, and a transaction may be reported as failed although *)
(* it committed, when sqlite3 is killed by its timeout just after.         *)
(***************************************************************************)
EXTENDS Naturals, Sequences

CONSTANTS
    Callers,         \* handlers that call Bind or Unbind
    Nobody,          \* the holder of a free mutex
    Imsis, Numbers,
    NoNumber,        \* no number: the empty string
    NoRow,           \* the TMSI table has no row
    MaxNative        \* bound on the writes of the native services

ASSUME SubscriberAssumption ==
    /\ Nobody \notin Callers
    /\ NoNumber \notin Numbers /\ NoRow \notin Imsis \cup Numbers \cup {NoNumber}
    /\ MaxNative \in Nat

Values == Numbers \cup {NoNumber}

VARIABLES
    sip, dial, tmsi,    \* the databases
    pc, job,            \* each caller's control point and request
    mutationMu,
    answer,             \* what the caller that returned last was told
    natives,            \* writes of the native services so far
    touched,            \* IMSIs whose rows those have written (observer)
    acked,              \* the number last reported for an IMSI (observer)
    projected           \* IMSIs whose TMSI row was written last by this code,
                        \* for the last committed number (observer)

dbVars == <<sip, dial, tmsi>>
callVars == <<pc, job, mutationMu, answer>>
observers == <<touched, acked, projected>>
vars == <<dbVars, callVars, natives, observers>>

-----------------------------------------------------------------------------
(* What one query sees.                                                     *)

RowsOf(table, i) == {table[i][k] : k \in DOMAIN table[i]}
Holders(n) == {i \in Imsis : n \in RowsOf(sip, i) \cup RowsOf(dial, i)}

\* Mutant of BindingState: the IMSI's own rows are not left out of the
\* conflicts.
BindingStateWithOwn(i, n) ==
    IF sip[i] = <<>> THEN "not_found"
    ELSE IF Len(sip[i]) # 1 \/ Len(dial[i]) > 1 THEN "inconsistent"
    ELSE IF Holders(n) # {} THEN "conflict"
    ELSE "ok"

\* bindingState, as Bind judges it: "ok" or the error.
BindingState(i, n) ==
    IF sip[i] = <<>> THEN "not_found"
    ELSE IF Len(sip[i]) # 1 \/ Len(dial[i]) > 1 THEN "inconsistent"
    ELSE IF Holders(n) \ {i} # {} THEN "conflict"
    ELSE "ok"

\* Get: more than one row of a kind, or a dial row alone, is inconsistent.
GetState(i) ==
    IF sip[i] = <<>> /\ dial[i] = <<>> THEN "not_found"
    ELSE IF Len(sip[i]) # 1 \/ Len(dial[i]) > 1 THEN "inconsistent"
    ELSE "ok"

\* subscriberFromParts: the number is in the dial row; without one, or where
\* the SIP row differs, it is not a consistent binding.
Bound(i, v) ==
    /\ GetState(i) = "ok"
    /\ dial[i] = <<v>> \/ (dial[i] = <<>> /\ v = NoNumber)
    /\ sip[i] = <<v>>

-----------------------------------------------------------------------------
(* The calls.                                                               *)

Goto(c, point) == pc' = [pc EXCEPT ![c] = point]

NoJob == [kind |-> "none", imsi |-> NoRow, number |-> NoNumber]
Jobs ==
    [kind: {"bind"}, imsi: Imsis, number: Numbers]
        \cup [kind: {"unbind"}, imsi: Imsis, number: {NoNumber}]

\* The answer, and the deferred Unlock.
Return(c, how) ==
    /\ Goto(c, "idle")
    /\ job' = [job EXCEPT ![c] = NoJob]
    /\ mutationMu' = Nobody
    /\ answer' = how

\* The answer that the number was bound or unbound, whatever became of the
\* projection.
Acknowledge(c, how) ==
    /\ Return(c, how)
    /\ acked' = [acked EXCEPT ![job[c].imsi] = job[c].number]

Call(c, j) ==
    /\ pc[c] = "idle"
    /\ job' = [job EXCEPT ![c] = j]
    /\ Goto(c, "lock")
    /\ UNCHANGED <<dbVars, mutationMu, answer, natives, observers>>

\* Mutant of Lock: the mutation mutex is missing.
LockNothing(c) ==
    /\ pc[c] = "lock"
    /\ mutationMu' = c
    /\ Goto(c, "check")
    /\ UNCHANGED <<dbVars, job, answer, natives, observers>>

Lock(c) ==
    /\ pc[c] = "lock"
    /\ mutationMu = Nobody
    /\ mutationMu' = c
    /\ Goto(c, "check")
    /\ UNCHANGED <<dbVars, job, answer, natives, observers>>

\* Bind looks at bindingState, Unbind at Get; every query may fail.
Check(c) ==
    LET j == job[c]
        state == IF j.kind = "bind" THEN BindingState(j.imsi, j.number)
                                    ELSE GetState(j.imsi)
    IN  /\ pc[c] = "check"
        /\ \/ /\ state = "ok"
              /\ Goto(c, "transaction")
              /\ UNCHANGED <<job, mutationMu, answer>>
           \/ state # "ok" /\ Return(c, state)
           \/ Return(c, "failed")
        /\ UNCHANGED <<dbVars, natives, observers>>

\* Mutant of Guard: the number is not looked for again.
GuardRowsOnly(j) == Len(sip[j.imsi]) = 1 /\ Len(dial[j.imsi]) <= 1

\* The CHECK constraints of the transaction on api_guard.
Guard(j) ==
    /\ Len(sip[j.imsi]) = 1 /\ Len(dial[j.imsi]) <= 1
    /\ j.kind = "bind" => Holders(j.number) \ {j.imsi} = {}

\* The writes of the transaction: a missing dial row is inserted by Bind only.
Write(j) ==
    /\ sip' = [sip EXCEPT ![j.imsi] = <<j.number>>]
    /\ dial' = [dial EXCEPT ![j.imsi] =
                   IF j.kind = "unbind" /\ @ = <<>> THEN @ ELSE <<j.number>>]

\* At "lost" the transaction has taken effect, but exec reports a failure.
Commit(c) ==
    /\ pc[c] = "transaction"
    /\ Guard(job[c])
    /\ Write(job[c])
    /\ acked' = [acked EXCEPT ![job[c].imsi] = NoRow]
    /\ projected' = projected \ {job[c].imsi}
    /\ pc' \in {[pc EXCEPT ![c] = p] : p \in {"get", "lost"}}
    /\ UNCHANGED <<tmsi, job, mutationMu, answer, natives, touched>>

Abort(c) ==
    /\ pc[c] = "transaction"
    /\ Goto(c, "failed")
    /\ UNCHANGED <<dbVars, job, mutationMu, answer, natives, observers>>

\* Bind asks once more why its transaction failed.
Failed(c) ==
    LET j == job[c]
    IN  /\ pc[c] \in {"failed", "lost"}
        /\ \/ Return(c, "failed")
           \/ /\ j.kind = "bind" /\ BindingState(j.imsi, j.number) # "ok"
              /\ Return(c, BindingState(j.imsi, j.number))
        /\ UNCHANGED <<dbVars, natives, observers>>

\* Get must show what was written.
Confirm(c) ==
    LET j == job[c]
    IN  /\ pc[c] = "get"
        /\ \/ /\ Bound(j.imsi, j.number)
              /\ Goto(c, "count")
              /\ UNCHANGED <<job, mutationMu, answer>>
           \/ /\ ~Bound(j.imsi, j.number)
              /\ Return(c, IF GetState(j.imsi) = "ok" THEN "inconsistent"
                                                      ELSE GetState(j.imsi))
           \/ Return(c, "failed")
        /\ UNCHANGED <<dbVars, natives, observers>>

\* Mutant of CountRow: the mutex is given up before the projection.
CountUnlocked(c) ==
    /\ pc[c] = "count"
    /\ mutationMu' = Nobody
    /\ Goto(c, "project")
    /\ UNCHANGED <<dbVars, job, answer, natives, observers>>

\* projectTMSI: the row is counted ...
CountRow(c) ==
    /\ pc[c] = "count"
    /\ \/ /\ tmsi[job[c].imsi] # NoRow
          /\ Goto(c, "project")
          /\ UNCHANGED <<job, mutationMu, answer, acked>>
       \/ tmsi[job[c].imsi] = NoRow /\ Acknowledge(c, "not_present")
       \/ Acknowledge(c, "unprojected")
    /\ UNCHANGED <<dbVars, natives, touched, projected>>

\* ... and updated, if it is still there.
Project(c) ==
    LET j == job[c]
    IN  /\ pc[c] = "project"
        /\ \/ /\ tmsi' = [tmsi EXCEPT ![j.imsi] =
                             IF @ = NoRow THEN @ ELSE j.number]
              /\ projected' = IF tmsi[j.imsi] = NoRow THEN projected
                                                      ELSE projected \cup {j.imsi}
              /\ Acknowledge(c, "updated")
           \/ Acknowledge(c, "unprojected") /\ UNCHANGED <<tmsi, projected>>
        /\ UNCHANGED <<sip, dial, natives, touched>>

CallStep(c) ==
    \/ Lock(c) \/ Check(c) \/ Commit(c) \/ Abort(c) \/ Failed(c) \/ Confirm(c)
    \/ CountRow(c) \/ Project(c)

-----------------------------------------------------------------------------
(* The native services, each write by itself: a handset registers or gets a *)
(* number, and OpenBTS drops or renews its TMSI row.                        *)

Native == natives < MaxNative /\ natives' = natives + 1 /\ UNCHANGED callVars

NativeRow(i, v) ==
    /\ Native
    /\ \/ Len(sip[i]) < 2 /\ sip' = [sip EXCEPT ![i] = @ \o <<v>>] /\ UNCHANGED dial
       \/ Len(dial[i]) < 2 /\ dial' = [dial EXCEPT ![i] = @ \o <<v>>] /\ UNCHANGED sip
       \/ sip[i] # <<>> /\ sip' = [sip EXCEPT ![i][1] = v] /\ UNCHANGED dial
    /\ touched' = touched \cup {i}
    /\ UNCHANGED <<tmsi, acked, projected>>

NativeTmsi(i, v) ==
    /\ Native
    /\ tmsi' = [tmsi EXCEPT ![i] = v]
    /\ projected' = projected \ {i}
    /\ UNCHANGED <<sip, dial, touched, acked>>

-----------------------------------------------------------------------------

\* IMSIs that are registered, without a number, or unknown.
Init ==
    /\ sip \in [Imsis -> {<<>>, <<NoNumber>>}]
    /\ dial = [i \in Imsis |-> <<>>]
    /\ tmsi = [i \in Imsis |-> NoNumber]
    /\ pc = [c \in Callers |-> "idle"] /\ job = [c \in Callers |-> NoJob]
    /\ mutationMu = Nobody
    /\ answer = "none"
    /\ natives = 0
    /\ touched = {} /\ acked = [i \in Imsis |-> NoRow] /\ projected = {}

Request == \E c \in Callers : (\E j \in Jobs : Call(c, j)) \/ CallStep(c)

Next ==
    \/ Request
    \/ \E i \in Imsis : \/ \E v \in Values : NativeRow(i, v)
                        \/ \E v \in Values \cup {NoRow} : NativeTmsi(i, v)

Spec == Init /\ [][Next]_vars

-----------------------------------------------------------------------------
(* Properties.                                                              *)

\* Bind checks the number first and guards it again in the transaction: no
\* request ever gives two IMSIs the same number, although a native service
\* may take it between the check and the transaction.
RequestsNeverShare ==
    [][Request => \A n \in Numbers :
          \/ \A i, k \in Holders(n)' : i = k
          \/ Holders(n)' \subseteq Holders(n)]_vars

\* What Bind or Unbind answers is true when the caller gets the answer and
\* stays true until the next transaction on that IMSI or a native write: no
\* concurrent request, failed ones included, overtakes it between its
\* transaction and its answer.
AckedBindingStands ==
    \A i \in Imsis \ touched : acked[i] # NoRow => Bound(i, acked[i])

\* A call whose transaction has taken effect may be told of a failure, as when
\* sqlite3 is killed after the COMMIT, but never that it was refused: neither
\* the bindingState that Bind asks after an error nor the Get that follows a
\* success finds its own write to be a conflict, or another request's write
\* in its place.  (A native service may have written the tables meanwhile.)
EffectIsNotRefused ==
    [][\A c \in Callers :
          pc[c] \in {"get", "lost"} /\ pc'[c] = "idle" /\ touched = {}
              => answer' = "failed"]_vars

\* projectTMSI runs under the mutation mutex, after the commit: as long as the
\* native services leave the IMSI alone, the TMSI row that this code wrote
\* last agrees with the registry; two requests never project out of order.
ProjectionFollows ==
    \A i \in projected \ touched : acked[i] = tmsi[i] /\ Bound(i, tmsi[i])
=============================================================================
