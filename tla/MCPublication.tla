---------------------------- MODULE MCPublication ----------------------------
(* Small instances of InputSetPublication for TLC. *)
EXTENDS InputSetPublication

\* Three of the five surfaces: the snapshot, one before it and one after it.
ThreeSurfaces == <<"entity_index", "mission_snapshot", "model_summary">>

\* Just enough for a set to be partially replaced.
TwoSurfaces == <<"entity_index", "mission_snapshot">>

=============================================================================
