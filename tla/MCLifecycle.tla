----------------------------- MODULE MCLifecycle -----------------------------
(* Small instances of AdapterLifecycle for TLC. *)
EXTENDS AdapterLifecycle, TLC

Symmetry == Permutations(Procs) \cup Permutations(Instances)

=============================================================================
