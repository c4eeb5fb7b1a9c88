----------------------------- MODULE PresetMap -----------------------------
(***************************************************************************)
(* What the preset store promises of presets.json: it changes by one       *)
(* preset at a time, within the limit; the built-in presets are added only *)
(* to a store that is new or of version 1, and never replace an entry; a   *)
(* file that cannot be understood never changes; and a crash undoes at     *)
(* most what was not yet flushed.                                          *)
(***************************************************************************)
EXTENDS Naturals, FiniteSets

CONSTANTS
    Ids, Values,      \* preset identifiers, and the rest of a preset
    DefaultPresets,   \* the built-in presets, a map
    MaxPresets        \* maxPresets

Maps == UNION {[S -> Values] : S \in SUBSET Ids}
Fits(map) == Cardinality(DOMAIN map) <= MaxPresets
EmptyMap == [id \in {} |-> id]

VARIABLES
    store,     \* presets.json as the program sees it
    durable    \* presets.json as a power loss would leave it

\* Absent, of version 1 or 2, or nothing that load accepts.
Files ==
    [version: {"none", "v1", "v2", "corrupt"}, items: Maps]
WellFormed(f) ==
    /\ f \in Files
    /\ f.version \in {"none", "corrupt"} => f.items = EmptyMap
    /\ Fits(f.items)

Init == store \in Files /\ WellFormed(store) /\ durable = store

\* The presets of a map and, where it has none of that name, the built-in ones.
WithDefaults(map) ==
    [id \in DOMAIN map \cup DOMAIN DefaultPresets |->
        IF id \in DOMAIN map THEN map[id] ELSE DefaultPresets[id]]

Seed ==
    /\ store.version \in {"none", "v1"}
    /\ store' = [version |-> "v2", items |-> WithDefaults(store.items)]
    /\ Fits(store'.items)
    /\ UNCHANGED durable

\* A map that differs in the one preset id.
OneChange(map, new, id) ==
    /\ DOMAIN map \ {id} = DOMAIN new \ {id}
    /\ \A j \in DOMAIN map \ {id} : new[j] = map[j]

Change ==
    /\ store.version = "v2"
    /\ \E id \in Ids, new \in Maps :
          /\ OneChange(store.items, new, id)
          /\ Fits(new)
          /\ store' = [version |-> "v2", items |-> new]
    /\ UNCHANGED durable

Flush == durable' = store /\ UNCHANGED store

Crash == store' \in {store, durable} /\ durable' = store'

Next == Seed \/ Change \/ Flush \/ Crash

Spec == Init /\ [][Next]_<<store, durable>>
=============================================================================
