---------------------------- MODULE PresetProofs ----------------------------
(***************************************************************************)
(* Theorems about PresetStore: its invariants, and that it implements      *)
(* PresetMap, for every set of identifiers, every limit and any number of  *)
(* crashes.                                                                *)
(***************************************************************************)
EXTENDS PresetStore, FiniteSetTheorems, TLAPS

-----------------------------------------------------------------------------
(* Maps and their sizes.                                                    *)

\* A map is a function from some identifiers to values.
LEMMA MapsAreFunctions ==
    ASSUME NEW f
    PROVE  f \in Maps <=> \E S \in SUBSET Ids : f \in [S -> Values]
BY DEF Maps, Abstract!Maps

\* What a map of presets is defined on.
LEMMA MapDomain ==
    ASSUME NEW f \in Maps
    PROVE  /\ f \in [DOMAIN f -> Values]
           /\ DOMAIN f \in SUBSET Ids
           /\ IsFiniteSet(DOMAIN f)
           /\ Cardinality(DOMAIN f) \in Nat
<1>1. PICK S \in SUBSET Ids : f \in [S -> Values]
  BY MapsAreFunctions
<1>2. f \in [DOMAIN f -> Values] /\ DOMAIN f \in SUBSET Ids
  BY <1>1
<1>3. IsFiniteSet(DOMAIN f)
  BY <1>2, FS_Subset, StoreAssumption
<1> QED
  BY <1>2, <1>3, FS_CardinalityType

\* The limit in terms of the library's cardinality.
LEMMA FitsIff ==
    ASSUME NEW f
    PROVE  Fits(f) <=> Cardinality(DOMAIN f) <= MaxPresets
<1>1. Abstract!Cardinality(DOMAIN f) = Cardinality(DOMAIN f)
  BY DEF Cardinality, Abstract!Cardinality
<1> QED
  BY <1>1 DEF Fits, Abstract!Fits

\* The map of a missing file is within the limit.
LEMMA EmptyFits == EmptyMap \in Maps /\ Fits(EmptyMap) /\ DOMAIN EmptyMap = {}
<1>1. EmptyMap \in [{} -> Values]
  BY DEF EmptyMap, Abstract!EmptyMap
<1>2. Cardinality({}) <= MaxPresets
  BY FS_EmptySet, StoreAssumption
<1> QED
  BY <1>1, <1>2, MapsAreFunctions, FitsIff

\* What Create writes is a map within the limit that differs in one preset.
LEMMA CreateFits ==
    ASSUME NEW f \in Maps, NEW id \in Ids \ DOMAIN f, NEW v \in Values,
           Cardinality(DOMAIN f) < MaxPresets
    PROVE  LET new == [j \in DOMAIN f \cup {id} |-> IF j = id THEN v ELSE f[j]]
           IN  new \in Maps /\ Fits(new) /\ Abstract!OneChange(f, new, id)
<1> DEFINE new == [j \in DOMAIN f \cup {id} |-> IF j = id THEN v ELSE f[j]]
<1>1. new \in [DOMAIN f \cup {id} -> Values] /\ DOMAIN f \cup {id} \in SUBSET Ids
  BY MapDomain
<1>2. Cardinality(DOMAIN f \cup {id}) = Cardinality(DOMAIN f) + 1
  BY MapDomain, FS_AddElement
<1>3. Cardinality(DOMAIN f \cup {id}) <= MaxPresets
  BY <1>2, MapDomain, StoreAssumption
<1> QED
  BY <1>1, <1>3, MapsAreFunctions, FitsIff DEF Abstract!OneChange

\* Replacing a preset keeps the map within the limit.
LEMMA UpdateFits ==
    ASSUME NEW f \in Maps, NEW id \in DOMAIN f, NEW v \in Values, Fits(f)
    PROVE  LET new == [f EXCEPT ![id] = v]
           IN  new \in Maps /\ Fits(new) /\ Abstract!OneChange(f, new, id)
<1> DEFINE new == [f EXCEPT ![id] = v]
<1>1. new \in [DOMAIN f -> Values] /\ DOMAIN f \in SUBSET Ids
  BY MapDomain
<1> QED
  BY <1>1, MapsAreFunctions, FitsIff DEF Abstract!OneChange

\* So does deleting one.
LEMMA DeleteFits ==
    ASSUME NEW f \in Maps, NEW id \in DOMAIN f, Fits(f)
    PROVE  LET new == [j \in DOMAIN f \ {id} |-> f[j]]
           IN  new \in Maps /\ Fits(new) /\ Abstract!OneChange(f, new, id)
<1> DEFINE new == [j \in DOMAIN f \ {id} |-> f[j]]
<1>1. new \in [DOMAIN f \ {id} -> Values] /\ DOMAIN f \ {id} \in SUBSET Ids
  BY MapDomain
<1>2. Cardinality(DOMAIN f \ {id}) <= Cardinality(DOMAIN f)
  BY MapDomain, FS_Subset, DOMAIN f \ {id} \in SUBSET DOMAIN f
<1>3. Cardinality(DOMAIN f \ {id}) \in Nat
  BY MapDomain, FS_Subset, FS_CardinalityType, DOMAIN f \ {id} \in SUBSET DOMAIN f
<1>4. Cardinality(DOMAIN f \ {id}) <= MaxPresets
  BY <1>2, <1>3, MapDomain, StoreAssumption, FitsIff
<1> QED
  BY <1>1, <1>4, MapsAreFunctions, FitsIff DEF Abstract!OneChange

\* The built-in presets complete a map and replace nothing; alone they are
\* what a new store begins with.
LEMMA DefaultsComplete ==
    ASSUME NEW f \in Maps
    PROVE  Abstract!WithDefaults(f) \in Maps
<1>1. /\ DefaultPresets \in [DOMAIN DefaultPresets -> Values]
      /\ DOMAIN DefaultPresets \in SUBSET Ids
  BY MapDomain, StoreAssumption
<1>2. f \in [DOMAIN f -> Values] /\ DOMAIN f \in SUBSET Ids
  BY MapDomain
<1>3. Abstract!WithDefaults(f) \in [DOMAIN f \cup DOMAIN DefaultPresets -> Values]
  BY <1>1, <1>2 DEF Abstract!WithDefaults
<1>4. DOMAIN f \cup DOMAIN DefaultPresets \in SUBSET Ids
  BY <1>1, <1>2
<1> QED
  BY <1>3, <1>4, MapsAreFunctions

\* A new file is seeded with exactly the built-in presets.
LEMMA DefaultsAlone == Abstract!WithDefaults(EmptyMap) = DefaultPresets
<1>1. DefaultPresets \in [DOMAIN DefaultPresets -> Values]
  BY MapDomain, StoreAssumption
<1>2. DOMAIN EmptyMap = {}
  BY EmptyFits
<1>3. DOMAIN EmptyMap \cup DOMAIN DefaultPresets = DOMAIN DefaultPresets
  BY <1>2
<1>4. Abstract!WithDefaults(EmptyMap)
        = [id \in DOMAIN DefaultPresets |-> DefaultPresets[id]]
  BY <1>2, <1>3 DEF Abstract!WithDefaults
<1> QED
  BY <1>1, <1>4

-----------------------------------------------------------------------------
(* The inductive invariant.                                                 *)

Stored(map) == [version |-> "v2", items |-> map]

\* The files are ones that load accepts or knows to leave alone.
FilesSound ==
    /\ Abstract!WellFormed(file) /\ Abstract!WellFormed(disk)
    /\ Fits(items)

\* Whatever the file holds was acknowledged last or renamed since.
Traced == file.items \in {acked} \cup attempted /\ AckedSurvives

\* The map that persist is about to rename into place.
Seeding ==
    /\ file.version \in {"none", "v1"}
    /\ op.next = Abstract!WithDefaults(file.items)
Changing ==
    /\ file = Stored(items)
    /\ \E id \in Ids : Abstract!OneChange(items, op.next, id)

\* The operation under way and what it has already done.
Operation ==
    /\ op.step \in {"rename", "sync"} =>
          op.kind \in {"load", "change"} /\ ~loadErr /\ Fits(op.next)
    /\ op.step \notin {"rename", "sync"} => op \in {Boot, NoOp}
    /\ op = Boot => ~loadErr
    /\ op.step = "rename" => \/ op.kind = "load" /\ Seeding
                             \/ op.kind = "change" /\ Changing
    /\ op.step = "sync" => file = Stored(op.next)

StoreInvariant ==
    TypeOK /\ FilesSound /\ Traced /\ Operation /\ ServesWhatIsStored

\* The invariant holds before the first load.
LEMMA StoreInit == Init => StoreInvariant
<1> SUFFICES ASSUME Init PROVE StoreInvariant
  OBVIOUS
<1> USE DEF Init
<1>1. file \in Abstract!Files /\ file.items \in Maps
  BY DEF Abstract!Files, Abstract!WellFormed, Maps
<1>2. TypeOK
  <2>1. 0 \in 0 .. MaxCrashes
    BY StoreAssumption
  <2> QED
    BY <1>1, <2>1, EmptyFits DEF TypeOK, Boot
<1>3. FilesSound
  BY EmptyFits DEF FilesSound
<1>4. Traced
  BY DEF Traced, AckedSurvives
<1>5. Operation
  BY DEF Operation, Boot
<1>6. ServesWhatIsStored
  BY DEF ServesWhatIsStored
<1> QED
  BY <1>2, <1>3, <1>4, <1>5, <1>6 DEF StoreInvariant

\* A file of version 2 is what is stored of its items.
LEMMA RecordOfFile ==
    ASSUME NEW f \in Abstract!Files, f.version = "v2"
    PROVE  f = Stored(f.items)
BY DEF Abstract!Files, Stored

\* What persist writes for a map within the limit is a sound file.
LEMMA StoredSound ==
    ASSUME NEW map \in Maps, Fits(map)
    PROVE  /\ Stored(map) \in Abstract!Files
           /\ Abstract!WellFormed(Stored(map))
           /\ Stored(map).items = map
           /\ Stored(map).version = "v2"
BY DEF Stored, Abstract!Files, Abstract!WellFormed, Maps, Fits

\* An operation begins: only op changes.
LEMMA Begins ==
    ASSUME StoreInvariant, NEW kind \in {"load", "change"}, NEW next \in Maps,
           Persist(kind, next), Fits(next), ~loadErr,
           \/ kind = "load" /\ file.version \in {"none", "v1"}
                /\ next = Abstract!WithDefaults(file.items)
           \/ kind = "change" /\ file = Stored(items)
                /\ \E id \in Ids : Abstract!OneChange(items, next, id),
           UNCHANGED <<storeVars, items, loadErr, crashes, acked, attempted>>
    PROVE  StoreInvariant'
<1> USE DEF StoreInvariant, Persist, storeVars
<1>1. op' = [kind |-> kind, step |-> "rename", next |-> next]
  OBVIOUS
<1>2. TypeOK'
  BY <1>1 DEF TypeOK
<1>3. FilesSound'
  BY DEF FilesSound
<1>4. Traced'
  BY DEF Traced, AckedSurvives
<1>5. Operation'
  BY <1>1 DEF Operation, Seeding, Changing
<1>6. ServesWhatIsStored'
  BY <1>1 DEF ServesWhatIsStored, Stored, Boot
<1> QED
  BY <1>2, <1>3, <1>4, <1>5, <1>6

\* Loading keeps the invariant.
LEMMA LoadStep == StoreInvariant /\ Load => StoreInvariant'
<1> SUFFICES ASSUME StoreInvariant, Load PROVE StoreInvariant'
  OBVIOUS
<1>0. /\ op = Boot /\ op.step = "load" /\ ~loadErr
      /\ file \in Abstract!Files /\ file.items \in Maps
  BY DEF Load, StoreInvariant, TypeOK, Operation, Boot, Abstract!Files, Maps
<1>1. CASE Poison /\ UNCHANGED items
  <2>1. /\ op' = NoOp /\ op'.step = "idle" /\ op' # Boot /\ loadErr' = TRUE
        /\ UNCHANGED <<file, disk, items, crashes, acked, attempted>>
    BY <1>1 DEF Load, Poison, storeVars, NoOp, Boot
  <2>2. TypeOK'
    BY <2>1, EmptyFits DEF StoreInvariant, TypeOK, NoOp
  <2>3. FilesSound' /\ Traced'
    BY <2>1 DEF StoreInvariant, FilesSound, Traced, AckedSurvives
  <2>4. Operation' /\ ServesWhatIsStored'
    BY <2>1 DEF Operation, ServesWhatIsStored
  <2> QED
    BY <2>2, <2>3, <2>4 DEF StoreInvariant
<1>2. CASE /\ file.version = "none"
           /\ Persist("load", DefaultPresets)
           /\ UNCHANGED <<items, loadErr>>
  <2>1. file.items = EmptyMap
    BY <1>2 DEF StoreInvariant, FilesSound, Abstract!WellFormed, EmptyMap
  <2>2. DefaultPresets = Abstract!WithDefaults(file.items)
    BY <2>1, DefaultsAlone
  <2> QED
    BY <1>0, <1>2, <2>2, Begins, StoreAssumption DEF Load
<1>3. CASE /\ file.version = "v1" /\ Fits(Migrated)
           /\ Persist("load", Migrated)
           /\ UNCHANGED <<items, loadErr>>
  <2>1. Migrated \in Maps /\ Migrated = Abstract!WithDefaults(file.items)
    BY <1>0, DefaultsComplete DEF Migrated
  <2> QED
    BY <1>0, <1>3, <2>1, Begins DEF Load
<1>4. CASE /\ file.version = "v2"
           /\ items' = file.items
           /\ op' = NoOp
           /\ UNCHANGED loadErr
  <2>1. op'.step = "idle" /\ op' # Boot
    BY <1>4 DEF NoOp, Boot
  <2>2. file = Stored(items')
    BY <1>0, <1>4, RecordOfFile
  <2>3. Fits(items')
    BY <1>4 DEF StoreInvariant, FilesSound, Abstract!WellFormed, Fits
  <2>4. TypeOK'
    BY <1>0, <1>4, EmptyFits DEF Load, StoreInvariant, TypeOK, storeVars, NoOp
  <2>5. FilesSound'
    BY <2>3 DEF Load, StoreInvariant, FilesSound, storeVars
  <2>6. Traced'
    BY DEF Load, StoreInvariant, Traced, AckedSurvives, storeVars
  <2>7. Operation'
    BY <1>4, <2>1 DEF Operation
  <2>8. ServesWhatIsStored'
    BY <2>2 DEF Load, storeVars, ServesWhatIsStored, Stored
  <2> QED
    BY <2>4, <2>5, <2>6, <2>7, <2>8 DEF StoreInvariant
<1> QED
  BY <1>1, <1>2, <1>3, <1>4 DEF Load

\* A store that is ready serves what is in its file.
LEMMA ReadyStore ==
    ASSUME StoreInvariant, Ready
    PROVE  file = Stored(items) /\ items \in Maps /\ Fits(items) /\ ~loadErr
<1>1. op # Boot /\ op.kind # "load" /\ op.step # "sync" /\ ~loadErr
  BY DEF Ready, NoOp, Boot
<1> QED
  BY <1>1 DEF StoreInvariant, ServesWhatIsStored, Stored, TypeOK, FilesSound

\* So does the beginning of Create,
LEMMA CreateStep ==
    ASSUME StoreInvariant, NEW id \in Ids, NEW v \in Values, Create(id, v)
    PROVE  StoreInvariant'
<1> DEFINE new == [j \in DOMAIN items \cup {id} |->
                      IF j = id THEN v ELSE items[j]]
<1>1. Ready /\ Persist("change", new)
      /\ UNCHANGED <<storeVars, items, loadErr, crashes, acked, attempted>>
  BY DEF Create
<1>2. file = Stored(items) /\ ~loadErr
  BY <1>1, ReadyStore
<1>3. new \in Maps /\ Fits(new) /\ Abstract!OneChange(items, new, id)
  BY <1>1, ReadyStore, CreateFits DEF Create
<1> HIDE DEF new
<1> QED
  BY <1>1, <1>2, <1>3, Begins

\* of Update,
LEMMA UpdateStep ==
    ASSUME StoreInvariant, NEW id \in Ids, NEW v \in Values, Update(id, v)
    PROVE  StoreInvariant'
<1> DEFINE new == [items EXCEPT ![id] = v]
<1>1. Ready /\ Persist("change", new)
      /\ UNCHANGED <<storeVars, items, loadErr, crashes, acked, attempted>>
  BY DEF Update
<1>2. file = Stored(items) /\ ~loadErr
  BY <1>1, ReadyStore
<1>3. new \in Maps /\ Fits(new) /\ Abstract!OneChange(items, new, id)
  BY <1>1, ReadyStore, UpdateFits DEF Update
<1> HIDE DEF new
<1> QED
  BY <1>1, <1>2, <1>3, Begins

\* and of Delete: what they are about to write is one preset away.
LEMMA DeleteStep ==
    ASSUME StoreInvariant, NEW id \in Ids, Delete(id)
    PROVE  StoreInvariant'
<1> DEFINE new == [j \in DOMAIN items \ {id} |-> items[j]]
<1>1. Ready /\ Persist("change", new)
      /\ UNCHANGED <<storeVars, items, loadErr, crashes, acked, attempted>>
  BY DEF Delete
<1>2. file = Stored(items) /\ ~loadErr
  BY <1>1, ReadyStore
<1>3. new \in Maps /\ Fits(new) /\ Abstract!OneChange(items, new, id)
  BY <1>1, ReadyStore, DeleteFits DEF Delete
<1> HIDE DEF new
<1> QED
  BY <1>1, <1>2, <1>3, Begins

\* Nothing of the store changed: a persist that failed.
LEMMA PersistFailsStep == StoreInvariant /\ PersistFails => StoreInvariant'
<1> SUFFICES ASSUME StoreInvariant, PersistFails PROVE StoreInvariant'
  OBVIOUS
<1>1. /\ op' = NoOp /\ op'.step = "idle" /\ op' # Boot
      /\ loadErr' = (op.kind = "load")
      /\ UNCHANGED <<file, disk, items, crashes, acked, attempted>>
  BY DEF PersistFails, storeVars, NoOp, Boot
<1>2. op.kind # "load" => file = Stored(items)
  BY DEF PersistFails, StoreInvariant, Operation, Changing
<1>3. TypeOK'
  BY <1>1, EmptyFits DEF StoreInvariant, TypeOK, NoOp
<1>4. FilesSound' /\ Traced'
  BY <1>1 DEF StoreInvariant, FilesSound, Traced, AckedSurvives
<1>5. Operation'
  BY <1>1 DEF Operation
<1>6. ServesWhatIsStored'
  BY <1>1, <1>2 DEF ServesWhatIsStored, Stored
<1> QED
  BY <1>3, <1>4, <1>5, <1>6 DEF StoreInvariant

\* The rename brings the file to what was about to be written.
LEMMA RenameStep == StoreInvariant /\ Rename => StoreInvariant'
<1> SUFFICES ASSUME StoreInvariant, Rename PROVE StoreInvariant'
  OBVIOUS
<1>1. /\ op.next \in Maps /\ Fits(op.next) /\ ~loadErr
      /\ op.kind \in {"load", "change"}
  BY DEF Rename, StoreInvariant, Operation, TypeOK
<1>2. /\ file' = Stored(op.next)
      /\ op' \in [kind: {"none", "boot", "load", "change"},
                  step: {"idle", "load", "rename", "sync"}, next: Maps]
      /\ op'.step = "sync" /\ op'.kind = op.kind /\ op'.next = op.next
      /\ attempted' = attempted \cup {op.next}
      /\ UNCHANGED <<disk, items, loadErr, crashes, acked>>
  BY DEF Rename, Stored, StoreInvariant, TypeOK
<1>3. TypeOK'
  BY <1>1, <1>2, StoredSound DEF StoreInvariant, TypeOK
<1>4. FilesSound'
  BY <1>1, <1>2, StoredSound DEF StoreInvariant, FilesSound
<1>5. Traced'
  BY <1>1, <1>2, StoredSound DEF StoreInvariant, Traced, AckedSurvives
<1>6. Operation'
  BY <1>1, <1>2 DEF Operation, Boot
<1>7. ServesWhatIsStored'
  BY <1>2 DEF ServesWhatIsStored
<1> QED
  BY <1>3, <1>4, <1>5, <1>6, <1>7 DEF StoreInvariant

\* The directory sync acknowledges what the file holds.
LEMMA SyncDirStep == StoreInvariant /\ SyncDir => StoreInvariant'
<1> SUFFICES ASSUME StoreInvariant, SyncDir PROVE StoreInvariant'
  OBVIOUS
<1>1. op.next \in Maps /\ Fits(op.next) /\ ~loadErr /\ file = Stored(op.next)
  BY DEF SyncDir, StoreInvariant, Operation, TypeOK
<1>2. /\ disk' = file /\ items' = op.next /\ acked' = op.next /\ attempted' = {}
      /\ op' = NoOp /\ op'.step = "idle" /\ op' # Boot
      /\ UNCHANGED <<file, loadErr, crashes>>
  BY DEF SyncDir, NoOp, Boot
<1>3. TypeOK'
  BY <1>1, <1>2, EmptyFits DEF StoreInvariant, TypeOK, NoOp
<1>4. FilesSound'
  BY <1>1, <1>2 DEF StoreInvariant, FilesSound
<1>5. Traced'
  BY <1>1, <1>2, StoredSound DEF Traced, AckedSurvives
<1>6. Operation'
  BY <1>2 DEF Operation
<1>7. ServesWhatIsStored'
  BY <1>1, <1>2 DEF ServesWhatIsStored, Stored
<1> QED
  BY <1>3, <1>4, <1>5, <1>6, <1>7 DEF StoreInvariant

\* A failed sync makes the store unavailable and keeps the file.
LEMMA SyncFailsStep == StoreInvariant /\ SyncFails => StoreInvariant'
<1> SUFFICES ASSUME StoreInvariant, SyncFails PROVE StoreInvariant'
  OBVIOUS
<1>1. /\ op' = NoOp /\ op'.step = "idle" /\ op' # Boot /\ loadErr' = TRUE
      /\ UNCHANGED <<file, disk, items, crashes, acked, attempted>>
  BY DEF SyncFails, Poison, storeVars, NoOp, Boot
<1>2. TypeOK'
  BY <1>1, EmptyFits DEF StoreInvariant, TypeOK, NoOp
<1>3. FilesSound' /\ Traced'
  BY <1>1 DEF StoreInvariant, FilesSound, Traced, AckedSurvives
<1>4. Operation' /\ ServesWhatIsStored'
  BY <1>1 DEF Operation, ServesWhatIsStored
<1> QED
  BY <1>2, <1>3, <1>4 DEF StoreInvariant

\* A restart, whichever of the two files it finds.
LEMMA RestartStep ==
    ASSUME StoreInvariant, Restart,
           \/ UNCHANGED <<file, disk>>
           \/ file' \in {file, disk} /\ disk' = file'
    PROVE  StoreInvariant'
<1>1. /\ op' = Boot /\ op'.step = "load" /\ loadErr' = FALSE
      /\ items' = EmptyMap /\ crashes' = crashes + 1 /\ crashes < MaxCrashes
      /\ UNCHANGED <<acked, attempted>>
  BY DEF Restart, Boot
<1>2. file' \in {file, disk} /\ disk' \in {file, disk}
  OBVIOUS
<1>3. crashes' \in 0 .. MaxCrashes
  BY <1>1, StoreAssumption DEF StoreInvariant, TypeOK
<1>4. TypeOK'
  BY <1>1, <1>2, <1>3, EmptyFits DEF StoreInvariant, TypeOK, Boot
<1>5. FilesSound'
  BY <1>1, <1>2, EmptyFits DEF StoreInvariant, FilesSound
<1>6. Traced'
  BY <1>1, <1>2 DEF StoreInvariant, Traced, AckedSurvives
<1>7. Operation' /\ ServesWhatIsStored'
  BY <1>1 DEF Operation, ServesWhatIsStored
<1> QED
  BY <1>4, <1>5, <1>6, <1>7 DEF StoreInvariant

\* StoreInvariant is inductive.
LEMMA StoreStep == StoreInvariant /\ [Next]_vars => StoreInvariant'
<1> SUFFICES ASSUME StoreInvariant, [Next]_vars PROVE StoreInvariant'
  OBVIOUS
<1>1. CASE Load
  BY <1>1, LoadStep
<1>2. ASSUME NEW id \in Ids, Delete(id)
      PROVE  StoreInvariant'
  BY <1>2, DeleteStep
<1>3. ASSUME NEW id \in Ids, NEW v \in Values, Create(id, v) \/ Update(id, v)
      PROVE  StoreInvariant'
  BY <1>3, CreateStep, UpdateStep
<1>4. CASE PersistFails
  BY <1>4, PersistFailsStep
<1>5. CASE Rename
  BY <1>5, RenameStep
<1>6. CASE SyncDir
  BY <1>6, SyncDirStep
<1>7. CASE SyncFails
  BY <1>7, SyncFailsStep
<1>8. CASE ProcessCrash \/ PowerLoss
  BY <1>8, RestartStep DEF ProcessCrash, PowerLoss, storeVars
<1>9. CASE UNCHANGED vars
  BY <1>9 DEF vars, storeVars, StoreInvariant, TypeOK, FilesSound, Traced,
     AckedSurvives, Operation, Seeding, Changing, ServesWhatIsStored
<1> QED
  BY <1>1, <1>2, <1>3, <1>4, <1>5, <1>6, <1>7, <1>8, <1>9 DEF Next

-----------------------------------------------------------------------------
(* The theorems.                                                            *)

\* The strengthening holds in every reachable state.
LEMMA StoreInvariantHolds == Spec => []StoreInvariant
BY StoreInit, StoreStep, PTL DEF Spec

\* Every variable of the preset store keeps its type: in particular what is in
\* memory, on disk and in persist's hands is always a map of presets.
THEOREM StoreTypeCorrect == Spec => []TypeOK
BY StoreInvariantHolds, PTL DEF StoreInvariant

\* A change that Create, Update, Delete or a migration reported is what a power
\* loss leaves, unless a later rename reached the disk first.
THEOREM AckedSurvivesHolds == Spec => []AckedSurvives
<1>1. StoreInvariant => AckedSurvives
  BY DEF StoreInvariant, Traced
<1> QED
  BY <1>1, StoreInvariantHolds, PTL

\* Between operations, memory and presets.json agree whenever the store answers.
THEOREM ServesWhatIsStoredHolds == Spec => []ServesWhatIsStored
BY StoreInvariantHolds, PTL DEF StoreInvariant

\* No sequence of operations, failures and crashes writes a file that the next
\* load would reject.
THEOREM StoreReloadsHolds == Spec => []StoreReloads
<1>1. StoreInvariant => StoreReloads
  BY DEF StoreInvariant, FilesSound, StoreReloads, Abstract!WellFormed, Fits
<1> QED
  BY <1>1, StoreInvariantHolds, PTL

\* Only a power loss changes the file of a store that is unavailable or whose
\* file it could not read.
THEOREM PoisonedKeepsFileHolds == Spec => PoisonedKeepsFile
<1> DEFINE Kept == (loadErr \/ file.version = "corrupt") /\ file' # file
                      => crashes' # crashes
<1>1. StoreInvariant /\ [Next]_vars => [Kept]_vars
  <2> SUFFICES ASSUME StoreInvariant, Next, loadErr \/ file.version = "corrupt",
                      file' # file
               PROVE  crashes' # crashes
    OBVIOUS
  <2>1. ~Rename
    BY DEF StoreInvariant, Operation, Seeding, Changing, Stored, Rename
  <2>2. Restart
    BY <2>1 DEF Next, Load, Delete, Create, Update, PersistFails, SyncDir,
       SyncFails, ProcessCrash, PowerLoss, storeVars
  <2> QED
    BY <2>2 DEF Restart, StoreInvariant, TypeOK
<1> QED
  BY <1>1, StoreInvariantHolds, PTL DEF Spec, PoisonedKeepsFile

\* PresetStore implements PresetMap: the rename is the abstract change, the
\* directory sync the flush, and every other step leaves both files alone.
THEOREM StoreImplementsPresetMap == Spec => ImplementsPresetMap
<1>1. Init => Abstract!Init
  BY DEF Init, Abstract!Init
<1>2. StoreInvariant /\ [Next]_vars => [Abstract!Next]_<<file, disk>>
  <2> SUFFICES ASSUME StoreInvariant, Next, ~UNCHANGED <<file, disk>>
               PROVE  Abstract!Next
    BY DEF vars, storeVars
  <2>1. CASE Rename /\ op.kind = "load"
    <3>1. /\ file.version \in {"none", "v1"}
          /\ op.next = Abstract!WithDefaults(file.items)
          /\ op.next \in Maps /\ Fits(op.next)
      BY <2>1 DEF Rename, StoreInvariant, Operation, Seeding, Changing, TypeOK
    <3>2. file' = Stored(op.next) /\ disk' = disk
      BY <2>1 DEF Rename, Stored
    <3> QED
      BY <3>1, <3>2, StoredSound DEF Abstract!Next, Abstract!Seed, Stored, Fits
  <2>2. CASE Rename /\ op.kind # "load"
    <3>1. /\ file = Stored(items)
          /\ op.next \in Maps /\ Fits(op.next)
          /\ items \in Maps /\ Fits(items)
      BY <2>2 DEF Rename, StoreInvariant, Operation, Seeding, Changing, TypeOK,
         FilesSound
    <3>2. PICK id \in Ids : Abstract!OneChange(items, op.next, id)
      BY <2>2 DEF Rename, StoreInvariant, Operation, Seeding, Changing
    <3>3. file.items = items /\ file.version = "v2"
      BY <3>1, StoredSound
    <3>4. file' = Stored(op.next) /\ disk' = disk
      BY <2>2 DEF Rename, Stored
    <3> QED
      BY <3>1, <3>2, <3>3, <3>4 DEF Abstract!Next, Abstract!Change, Stored, Fits, Maps
  <2>3. CASE SyncDir
    BY <2>3 DEF SyncDir, Abstract!Next, Abstract!Flush
  <2>4. CASE PowerLoss
    BY <2>4 DEF PowerLoss, Abstract!Next, Abstract!Crash
  <2> QED
    BY <2>1, <2>2, <2>3, <2>4 DEF Next, Load, Delete, Create, Update,
       PersistFails, SyncFails, ProcessCrash, storeVars
<1> QED
  BY <1>1, <1>2, StoreInvariantHolds, PTL DEF Spec, ImplementsPresetMap, Abstract!Spec
=============================================================================
