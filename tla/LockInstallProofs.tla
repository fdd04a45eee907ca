--------------------------- MODULE LockInstallProofs ---------------------------
(***************************************************************************)
(* What holds of install-from-lock for any number of adapters, releases,   *)
(* commands one after the other, edits of the lock and faults.             *)
(***************************************************************************)
EXTENDS LockInstall, TLAPS

USE DEF store, commandVars, Proceed, Goto, Leave, Becomes,
        Store!Install, Store!BeginRemove, Store!Remove, Store!Init

-----------------------------------------------------------------------------
(* Type correctness. *)

\* The steps that neither install nor remove, nor tell anybody of an instance.
LookingStep ==
  \/ Begin \/ ReadEntry \/ ReadInventory \/ CheckBefore
  \/ CannotRead \/ NotInstalled \/ CannotReadAgain

LEMMA TypeOKStep == ASSUME TypeOK, [Next]_vars PROVE TypeOK'
<1> USE LockAssumption DEF TypeOK
<1>1. CASE LookingStep
  BY <1>1, SMTT(30)
     DEF LookingStep, Begin, ReadEntry, ReadInventory, CheckBefore, CannotRead, NotInstalled,
         CannotReadAgain, PCs, Entry
<1>2. CASE InstallRelease
  BY <1>2 DEF InstallRelease, PCs, Roles
<1>3. CASE CheckAfter
  BY <1>3 DEF CheckAfter, PCs, Roles
<1>4. CASE UndoFiles \/ UndoRecord
  BY <1>4 DEF UndoFiles, UndoRecord, PCs, Roles
<1>5. CASE CutShort
  BY <1>5 DEF CutShort, PCs, Roles
<1>6. ASSUME NEW i \in Instances, InstallDirectly(i) \/ RemoveFiles(i) \/ RemoveRecord(i)
      PROVE  TypeOK'
  BY <1>6 DEF InstallDirectly, RemoveFiles, RemoveRecord, Roles
<1>7. CASE EditLock
  BY <1>7 DEF EditLock
<1>8. CASE UNCHANGED vars
  BY <1>8 DEF vars
<1> QED
  BY <1>1, <1>2, <1>3, <1>4, <1>5, <1>6, <1>7, <1>8 DEF Next, Step, LookingStep

LEMMA TypeOKInit == Init => TypeOK
<1> SUFFICES ASSUME Init PROVE TypeOK
  OBVIOUS
<1>1. edited \in BOOLEAN /\ lock \in [Coordinates -> Entry \cup {Absent}]
  BY Zenon DEF Init
<1>2. role \in [Instances -> Roles] /\ faults \in 0 .. MaxFaults
  BY LockAssumption DEF Init, Roles
<1> QED BY <1>1, <1>2 DEF Init, TypeOK, PCs

\* The variables of install-from-lock keep their types, and a command that is
\* over holds nothing.
THEOREM TypeCorrect == Spec => []TypeOK
BY TypeOKInit, TypeOKStep, PTL DEF Spec

-----------------------------------------------------------------------------
(* Whose an instance is.                                                   *)

\* Where the command has an installation that it has not reported yet.
HoldingPcs == {"relist", "recheck", "undo_files", "undo_record"}

\* What has been said of an instance agrees with the store, and the one instance
\* that nobody has been told of is the one that the running command has made.
OwnerInv ==
  /\ \A i \in Instances : (role[i] = "new") <=> (i \notin past)
  /\ ReportedStaysUsable
  /\ (pc \in HoldingPcs) <=> (made # Nothing)
  /\ pc = "undo_record" => role[made] = "undone" /\ made \in listed \ usable
  /\ pc \in HoldingPcs \ {"undo_record"} => role[made] = "pending" /\ made \in usable
  /\ FailureLeavesNothing

LEMMA OwnerStep == ASSUME TypeOK, OwnerInv, [Next]_vars PROVE OwnerInv'
<1> USE LockAssumption
    DEF TypeOK, OwnerInv, HoldingPcs, ReportedStaysUsable, FailureLeavesNothing
<1>1. CASE LookingStep
  BY <1>1, SMTT(30)
     DEF LookingStep, Begin, ReadEntry, ReadInventory, CheckBefore, CannotRead, NotInstalled,
         CannotReadAgain
<1>2. CASE InstallRelease
  BY <1>2 DEF InstallRelease
<1>3. CASE CheckAfter
  BY <1>3 DEF CheckAfter
<1>4. CASE UndoFiles
  BY <1>4 DEF UndoFiles
<1>5. CASE UndoRecord
  BY <1>5 DEF UndoRecord
<1>6. CASE CutShort
  BY <1>6 DEF CutShort
<1>7. ASSUME NEW i \in Instances, InstallDirectly(i) \/ RemoveFiles(i) \/ RemoveRecord(i)
      PROVE  OwnerInv'
  BY <1>7 DEF InstallDirectly, RemoveFiles, RemoveRecord
<1>8. CASE EditLock
  BY <1>8 DEF EditLock
<1>9. CASE UNCHANGED vars
  BY <1>9 DEF vars
<1> QED
  BY <1>1, <1>2, <1>3, <1>4, <1>5, <1>6, <1>7, <1>8, <1>9 DEF Next, Step, LookingStep

LEMMA OwnerInit == Init => OwnerInv
BY LockAssumption DEF Init, OwnerInv, HoldingPcs, ReportedStaysUsable, FailureLeavesNothing

THEOREM OwnerInvariant == Spec => [](TypeOK /\ OwnerInv)
<1>1. Init => TypeOK /\ OwnerInv
  BY TypeOKInit, OwnerInit
<1>2. TypeOK /\ OwnerInv /\ [Next]_vars => TypeOK' /\ OwnerInv'
  BY TypeOKStep, OwnerStep
<1> QED BY <1>1, <1>2, PTL DEF Spec

\* An installation that was reported stays usable until it is removed by name.
THEOREM ReportedIsUsable == Spec => []ReportedStaysUsable
<1>1. OwnerInv => ReportedStaysUsable
  BY DEF OwnerInv
<1> QED BY <1>1, OwnerInvariant, PTL

\* A failed command leaves nothing in the inventory.
THEOREM FailureIsClean == Spec => []FailureLeavesNothing
<1>1. OwnerInv => FailureLeavesNothing
  BY DEF OwnerInv
<1> QED BY <1>1, OwnerInvariant, PTL

-----------------------------------------------------------------------------
(* One copy of a release.                                                  *)

\* While the lock is left alone, what a command has read is what is on disk, and
\* it installs only a release that is not listed.
SteadyInv ==
  /\ pc \in {"list", "check", "install"} => entry = lock[want] /\ lock[want] # Absent
  /\ pc = "check" => seen = listed
  /\ pc = "install" /\ entry.backend = OurBackend =>
       \A i \in listed : Of[i] # [coordinate |-> want, release |-> entry.release]
  /\ NothingTwice

\* A lock that is not matched by a list of records names a release that is not in it.
LEMMA UnmatchedIsNew ==
  ASSUME TypeOK, ~Matches, lock[want] # Absent, lock[want].backend = OurBackend, NEW i \in seen
  PROVE  Of[i] # [coordinate |-> want, release |-> lock[want].release]
<1>1. SUFFICES ASSUME Of[i] = [coordinate |-> want, release |-> lock[want].release]
               PROVE  FALSE
  OBVIOUS
<1>2. i \in Candidates(want, seen) /\ Exact(lock[want], i)
  BY <1>1 DEF Candidates, Exact
<1> QED BY <1>2 DEF Matches, Status

LEMMA SteadyStep ==
  ASSUME TypeOK, OwnerInv, ~edited, SteadyInv, [Next]_vars, ~edited' PROVE SteadyInv'
<1> USE DEF TypeOK, SteadyInv, NothingTwice
<1>1. CASE Begin \/ ReadEntry \/ ReadInventory \/ CannotRead \/ NotInstalled \/ CannotReadAgain
  BY <1>1, SMTT(30) DEF Begin, ReadEntry, ReadInventory, CannotRead, NotInstalled, CannotReadAgain
<1>2. CASE CheckBefore
  <2>1. CASE lock[want] = Absent \/ Matches
    BY <1>2, <2>1 DEF CheckBefore
  <2>2. CASE lock[want] # Absent /\ ~Matches
    <3>1. /\ pc = "check" /\ pc' = "install"
          /\ UNCHANGED <<lock, listed, want, entry, role, edited>>
      BY <1>2, <2>2 DEF CheckBefore
    <3>2. entry.backend = OurBackend =>
            \A i \in listed : Of[i] # [coordinate |-> want, release |-> entry.release]
      BY <2>2, <3>1, UnmatchedIsNew
    <3> QED BY <2>2, <3>1, <3>2
  <2> QED BY <2>1, <2>2
<1>3. CASE InstallRelease
  BY <1>3 DEF InstallRelease
<1>4. CASE CheckAfter
  BY <1>4, LockAssumption DEF CheckAfter, OwnerInv, HoldingPcs
<1>5. CASE UndoFiles \/ UndoRecord
  BY <1>5, LockAssumption DEF UndoFiles, UndoRecord, OwnerInv, HoldingPcs
<1>6. CASE CutShort
  BY <1>6, LockAssumption DEF CutShort, OwnerInv, HoldingPcs
<1>7. ASSUME NEW i \in Instances, InstallDirectly(i) \/ RemoveFiles(i) \/ RemoveRecord(i)
      PROVE  SteadyInv'
  BY <1>7 DEF InstallDirectly, RemoveFiles, RemoveRecord
<1>8. CASE EditLock
  BY <1>8 DEF EditLock
<1>9. CASE UNCHANGED vars
  BY <1>9 DEF vars
<1> QED
  BY <1>1, <1>2, <1>3, <1>4, <1>5, <1>6, <1>7, <1>8, <1>9 DEF Next, Step

\* Run again after whatever cut it short, install-from-lock installs no second
\* copy of a release.
THEOREM InstalledOnce == Spec => []NothingTwice
<1> DEFINE Inv == TypeOK /\ OwnerInv /\ (~edited => SteadyInv)
<1>1. Init => Inv
  BY TypeOKInit, OwnerInit DEF Init, SteadyInv, NothingTwice
<1>2. Inv /\ [Next]_vars => Inv'
  <2>1. ASSUME [Next]_vars, edited PROVE edited'
    BY <2>1 DEF vars, Next, Step, Begin, ReadEntry, ReadInventory, CheckBefore, CannotRead,
         NotInstalled, InstallRelease, CheckAfter, CannotReadAgain, UndoFiles, UndoRecord,
         CutShort, InstallDirectly, RemoveFiles, RemoveRecord, EditLock
  <2> QED BY <2>1, TypeOKStep, OwnerStep, SteadyStep
<1>3. Inv => NothingTwice
  BY DEF SteadyInv, NothingTwice
<1> QED BY <1>1, <1>2, <1>3, PTL DEF Spec

=============================================================================
