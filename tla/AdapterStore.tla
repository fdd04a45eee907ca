----------------------------- MODULE AdapterStore -----------------------------
(***************************************************************************)
(* What the Adapter Manager promises to an operator who runs one command   *)
(* at a time, whatever is killed or fails in between: an adapter appears   *)
(* once, listed and complete in the same step; it stays usable until its   *)
(* removal begins, and listed until its removal is complete.               *)
(***************************************************************************)
CONSTANT Instances

VARIABLES
  listed,  \* the instances in the inventory
  usable,  \* those of them whose installation is complete
  past     \* every instance that was ever listed

vars == <<listed, usable, past>>

Install(i) ==
  /\ i \notin past
  /\ listed' = listed \cup {i}
  /\ usable' = usable \cup {i}
  /\ past' = past \cup {i}

BeginRemove(i) ==
  /\ i \in usable
  /\ usable' = usable \ {i}
  /\ UNCHANGED <<listed, past>>

Remove(i) ==
  /\ i \in listed \ usable
  /\ listed' = listed \ {i}
  /\ UNCHANGED <<usable, past>>

Init == listed = {} /\ usable = {} /\ past = {}

Next == \E i \in Instances : Install(i) \/ BeginRemove(i) \/ Remove(i)

Spec == Init /\ [][Next]_vars

=============================================================================
