---------------------------- MODULE MCLockInstall ----------------------------
(* A small instance of LockInstall: two copies of one release, an instance of *)
(* another release of the same adapter, and one of another adapter.           *)
EXTENDS LockInstall, TLC

CONSTANTS copy1, copy2, older, foreign

OfInstance ==
  [i \in {copy1, copy2, older, foreign} |->
     [coordinate |-> IF i = foreign THEN "another" ELSE "adapter",
      release |-> IF i = older THEN "old" ELSE "new"]]

Interchangeable == Permutations({copy1, copy2})

=============================================================================
