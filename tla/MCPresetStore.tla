--------------------------- MODULE MCPresetStore ---------------------------
(* Presets for checking PresetStore with TLC: two built-in ones of three,   *)
(* so that a version-1 file may or may not have room for them.              *)
EXTENDS PresetStore

CONSTANTS a, b, c, d, x

ThreeIds == {a, b, c}
TwoValues == {d, x}
TwoDefaults == [id \in {a, b} |-> d]
=============================================================================
