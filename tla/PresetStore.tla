---------------------------- MODULE PresetStore ----------------------------
(***************************************************************************)
(* gsm.PresetStore (src/internal/gsm/presets.go): load with its defaults   *)
(* and its migration, Create, Update, Delete and the persist they share,   *)
(* across process crashes and power losses.                                *)
(*                                                                         *)
(* A preset is an identifier and a value; validation precedes the lock and *)
(* changes nothing.  The store's mutex is held for a whole operation, so   *)
(* the operation under way is one variable.  persist writes and syncs a    *)
(* temporary file, which nobody reads, before the rename: it shows as two  *)
(* steps, the rename and the directory sync, each of which may fail, and   *)
(* until the sync a power loss may undo the rename.                        *)
(***************************************************************************)
EXTENDS Naturals, FiniteSets

CONSTANTS Ids, Values, DefaultPresets, MaxPresets,
          MaxCrashes    \* bound on crashes and power losses

VARIABLES
    file, disk,    \* presets.json now, and what a power loss may leave of it
    items,         \* s.items
    loadErr,       \* s.loadErr # nil
    op,            \* the operation that holds the mutex
    crashes,
    acked,         \* the map after the last operation that succeeded (observer)
    attempted      \* the maps renamed into place since then (observer)

storeVars == <<file, disk>>
vars == <<storeVars, items, loadErr, op, crashes, acked, attempted>>

Abstract == INSTANCE PresetMap WITH store <- file, durable <- disk

Maps == Abstract!Maps
EmptyMap == Abstract!EmptyMap
Fits(map) == Abstract!Fits(map)

ASSUME StoreAssumption ==
    /\ IsFiniteSet(Ids)
    /\ DefaultPresets \in Maps /\ Fits(DefaultPresets)
    /\ MaxPresets \in Nat
    /\ MaxCrashes \in Nat

-----------------------------------------------------------------------------

Boot == [kind |-> "boot", step |-> "load", next |-> EmptyMap]
NoOp == [kind |-> "none", step |-> "idle", next |-> EmptyMap]

\* persist(next) begins; its temporary file is ready or it has failed.
Persist(kind, next) == op' = [kind |-> kind, step |-> "rename", next |-> next]

Poison == loadErr' = TRUE /\ op' = NoOp

Migrated == Abstract!WithDefaults(file.items)

\* Mutants of Load: a file that cannot be understood is replaced; the built-in
\* presets are added to a store of version 2 as well.
LoadReplacesCorrupt ==
    /\ op = Boot
    /\ Fits(Migrated)
    /\ Persist("load", Migrated)
    /\ UNCHANGED <<storeVars, items, loadErr, crashes, acked, attempted>>
LoadAlwaysMerges ==
    /\ op = Boot
    /\ file.version # "corrupt" /\ Fits(Migrated)
    /\ Persist("load", Migrated)
    /\ UNCHANGED <<storeVars, items, loadErr, crashes, acked, attempted>>

\* load: a missing file is created with the defaults, version 1 is completed
\* with them, version 2 is taken as it is, and anything else, like an error,
\* makes the store unavailable.
Load ==
    /\ op = Boot
    /\ \/ Poison /\ UNCHANGED items
       \/ /\ file.version = "none"
          /\ Persist("load", DefaultPresets)
          /\ UNCHANGED <<items, loadErr>>
       \/ /\ file.version = "v1" /\ Fits(Migrated)
          /\ Persist("load", Migrated)
          /\ UNCHANGED <<items, loadErr>>
       \/ /\ file.version = "v2"
          /\ items' = file.items
          /\ op' = NoOp
          /\ UNCHANGED loadErr
    /\ UNCHANGED <<storeVars, crashes, acked, attempted>>

\* A caller holds the lock of a store that has been loaded.
Ready == op = NoOp /\ ~loadErr

\* Mutant of Create: the limit is not checked.
CreateUnlimited(id, v) ==
    /\ Ready
    /\ id \notin DOMAIN items
    /\ Persist("change", [j \in DOMAIN items \cup {id} |->
                             IF j = id THEN v ELSE items[j]])
    /\ UNCHANGED <<storeVars, items, loadErr, crashes, acked, attempted>>

Create(id, v) ==
    /\ Ready
    /\ id \notin DOMAIN items
    /\ Cardinality(DOMAIN items) < MaxPresets
    /\ Persist("change", [j \in DOMAIN items \cup {id} |->
                             IF j = id THEN v ELSE items[j]])
    /\ UNCHANGED <<storeVars, items, loadErr, crashes, acked, attempted>>

Update(id, v) ==
    /\ Ready
    /\ id \in DOMAIN items
    /\ Persist("change", [items EXCEPT ![id] = v])
    /\ UNCHANGED <<storeVars, items, loadErr, crashes, acked, attempted>>

Delete(id) ==
    /\ Ready
    /\ id \in DOMAIN items
    /\ Persist("change", [j \in DOMAIN items \ {id} |-> items[j]])
    /\ UNCHANGED <<storeVars, items, loadErr, crashes, acked, attempted>>

\* persist fails, at the latest in its last attempt to rename; load reports it
\* as loadErr.
PersistFails ==
    /\ op.step = "rename"
    /\ op' = NoOp
    /\ loadErr' = (op.kind = "load")
    /\ UNCHANGED <<storeVars, items, crashes, acked, attempted>>

Rename ==
    /\ op.step = "rename"
    /\ file' = [version |-> "v2", items |-> op.next]
    /\ op' = [op EXCEPT !.step = "sync"]
    /\ attempted' = attempted \cup {op.next}
    /\ UNCHANGED <<disk, items, loadErr, crashes, acked>>

\* Mutant of SyncDir: success is reported without the sync.
SkipSync ==
    /\ op.step = "sync"
    /\ items' = op.next
    /\ op' = NoOp
    /\ acked' = op.next
    /\ attempted' = {}
    /\ UNCHANGED <<file, disk, loadErr, crashes>>

\* The directory is synced: the operation succeeds.
SyncDir ==
    /\ op.step = "sync"
    /\ disk' = file
    /\ items' = op.next
    /\ op' = NoOp
    /\ acked' = op.next
    /\ attempted' = {}
    /\ UNCHANGED <<file, loadErr, crashes>>

\* Mutant of SyncFails: the store stays available with the old map.
SyncFailsServing ==
    /\ op.step = "sync"
    /\ op' = NoOp
    /\ UNCHANGED <<storeVars, items, loadErr, crashes, acked, attempted>>

SyncFails ==
    /\ op.step = "sync"
    /\ Poison
    /\ UNCHANGED <<storeVars, items, crashes, acked, attempted>>

\* The process is gone; a new one begins with NewPresetStore.
Restart ==
    /\ crashes < MaxCrashes
    /\ crashes' = crashes + 1
    /\ items' = EmptyMap
    /\ loadErr' = FALSE
    /\ op' = Boot
    /\ UNCHANGED <<acked, attempted>>

ProcessCrash == Restart /\ UNCHANGED storeVars

\* A power loss leaves the file or what was last synced.  (Of two renames that
\* were not synced, made by two lives of the process, it could also leave the
\* first.)
PowerLoss == Restart /\ file' \in {file, disk} /\ disk' = file'

-----------------------------------------------------------------------------

Init ==
    /\ file \in Abstract!Files /\ Abstract!WellFormed(file)
    /\ disk = file
    /\ items = EmptyMap /\ loadErr = FALSE /\ op = Boot
    /\ crashes = 0
    /\ acked = file.items /\ attempted = {}

Next ==
    \/ Load
    \/ \E id \in Ids : Delete(id) \/ \E v \in Values : Create(id, v) \/ Update(id, v)
    \/ PersistFails \/ Rename \/ SyncDir \/ SyncFails
    \/ ProcessCrash \/ PowerLoss

Spec == Init /\ [][Next]_vars

-----------------------------------------------------------------------------
(* Properties.                                                              *)

\* The types of the variables.
TypeOK ==
    /\ file \in Abstract!Files /\ disk \in Abstract!Files
    /\ items \in Maps /\ acked \in Maps /\ attempted \subseteq Maps
    /\ loadErr \in BOOLEAN
    /\ op \in [kind: {"none", "boot", "load", "change"},
               step: {"idle", "load", "rename", "sync"}, next: Maps]
    /\ crashes \in 0 .. MaxCrashes

\* A change that was reported to have succeeded survives whatever happens
\* next: what a power loss leaves is the last acknowledged map, or one that
\* was renamed into place after it.
AckedSurvives == disk.items \in {acked} \cup attempted

\* An available store never answers from a state that presets.json does not
\* hold: memory and file agree except between rename and sync, also after
\* failed operations, so the next change cannot bring stale entries back.
ServesWhatIsStored ==
    ~loadErr /\ op # Boot /\ op.kind # "load" /\ op.step # "sync"
        => file = [version |-> "v2", items |-> items]

\* Whatever persist wrote, a migration included, the next load accepts: it has
\* at most maxPresets entries, so a restart never makes the store unavailable
\* by their number.  (The limit of load on the bytes of the file is not
\* modelled.)
StoreReloads == Fits(file.items) /\ Fits(disk.items)

\* "A malformed file poisons the store for its lifetime so a later mutation can
\* never replace data that the process was unable to understand", and neither
\* does one after a failed directory sync.
PoisonedKeepsFile ==
    [][(loadErr \/ file.version = "corrupt") /\ file' # file
          => crashes' # crashes]_vars

\* The store keeps the promise of PresetMap: no operation, failure, restart or
\* migration changes more than one preset at a time or revives a deleted one.
ImplementsPresetMap == Abstract!Spec
=============================================================================
