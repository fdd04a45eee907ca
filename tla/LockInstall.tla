------------------------------ MODULE LockInstall ------------------------------
(***************************************************************************)
(* `orbitfabric adapter lock install`: one entry of a project's lock is     *)
(* compared with the inventory, and what is missing is installed, compared  *)
(* again, and removed if it does not satisfy the lock after all.            *)
(*                                                                         *)
(* The operator runs one adapter command at a time: nothing locks the       *)
(* inventory, and only then is an install or a removal a step of            *)
(* AdapterStore, as AdapterLifecycle shows.  A command may be killed        *)
(* between any two steps, and the lock file may be edited at any time.      *)
(***************************************************************************)
EXTENDS Naturals

CONSTANTS
  Instances,    \* instance ids
  Coordinates,  \* source coordinates of adapters
  Releases,     \* exact releases: version, descriptor and artifact digests
  Backends,     \* installation backend ids a lock may name
  OurBackend,   \* the id of the backend this program has
  Of,           \* the coordinate and release that instance i is drawn for
  Absent,       \* no entry in the lock
  Nothing,      \* no instance
  MaxFaults     \* bound on kills and failed roll-backs

Entry == [release : Releases, backend : Backends]

ASSUME LockAssumption ==
  /\ Of \in [Instances -> [coordinate : Coordinates, release : Releases]]
  /\ OurBackend \in Backends
  /\ Absent \notin Entry
  /\ Nothing \notin Instances
  /\ MaxFaults \in Nat

VARIABLES
  lock,     \* the lock file: the entry of each coordinate
  listed, usable, past,  \* the store of installed adapters
  pc,       \* where the command is
  want,     \* the coordinate it was asked for
  entry,    \* the entry it has read, while it is needed
  seen,     \* the inventory it has read, while it is needed
  made,     \* the instance it has installed
  role,     \* history: what has been said of an instance
  edited,   \* history: the lock was edited while a command ran
  faults    \* kills and failed roll-backs so far

store == <<listed, usable, past>>
commandVars == <<pc, want, entry, seen, made>>
vars == <<lock, store, commandVars, role, edited, faults>>

Store == INSTANCE AdapterStore

PCs == {"idle", "entry", "list", "check", "install", "relist", "recheck",
        "undo_files", "undo_record"}

Roles == {"new", "direct", "pending", "locked", "undone", "left", "doomed"}

TypeOK ==
  /\ lock \in [Coordinates -> Entry \cup {Absent}]
  /\ usable \subseteq listed
  /\ listed \subseteq past
  /\ past \subseteq Instances
  /\ pc \in PCs
  /\ want \in Coordinates
  /\ entry \in Entry \cup {Absent}
  /\ seen \subseteq Instances
  /\ made \in Instances \cup {Nothing}
  /\ role \in [Instances -> Roles]
  /\ edited \in BOOLEAN
  /\ faults \in 0..MaxFaults
  /\ pc = "idle" => entry = Absent /\ seen = {} /\ made = Nothing

-----------------------------------------------------------------------------
(* The comparison of an entry with a list of records. *)

Candidates(c, records) == {i \in records : Of[i].coordinate = c}

\* A record agrees with the entry in every dimension.
Exact(e, i) == Of[i].release = e.release /\ e.backend = OurBackend

Status(e, c, records) ==
  CASE Candidates(c, records) = {} -> "MISSING"
    [] \E i \in Candidates(c, records) : Exact(e, i) -> "MATCH"
    [] OTHER -> "MISMATCH"

\* The lock that is on disk now has the entry, and the records that were read satisfy it.
Matches == lock[want] # Absent /\ Status(lock[want], want, seen) = "MATCH"

-----------------------------------------------------------------------------
(* install_entry *)

Goto(l) == pc' = l /\ UNCHANGED <<want, entry, seen, made>>

\* A check is over: its list of records is gone.
Proceed(l) == pc' = l /\ seen' = {} /\ UNCHANGED <<want, entry, made>>

\* The command returns or raises.
Leave ==
  /\ pc' = "idle"
  /\ entry' = Absent
  /\ seen' = {}
  /\ made' = Nothing
  /\ UNCHANGED want

Becomes(i, r) == role' = [role EXCEPT ![i] = r]

Begin ==
  /\ pc = "idle"
  /\ want' \in Coordinates
  /\ pc' = "entry"
  /\ UNCHANGED <<lock, store, entry, seen, made, role, edited, faults>>

ReadEntry ==
  /\ pc = "entry"
  /\ IF lock[want] = Absent
       THEN Leave
       ELSE entry' = lock[want] /\ pc' = "list" /\ UNCHANGED <<want, seen, made>>
  /\ UNCHANGED <<lock, store, role, edited, faults>>

ReadInventory ==
  /\ pc \in {"list", "relist"}
  /\ seen' = listed
  /\ pc' = IF pc = "list" THEN "check" ELSE "recheck"
  /\ UNCHANGED <<lock, store, want, entry, made, role, edited, faults>>

\* Deviation: every record of the coordinate has to match.
CheckEveryCandidate ==
  /\ pc = "check"
  /\ IF lock[want] = Absent \/ (\A i \in seen : Exact(lock[want], i))
       THEN Leave
       ELSE Proceed("install")
  /\ UNCHANGED <<lock, store, role, edited, faults>>

\* check loads the lock once more; a MATCH is reported as a NOOP.
CheckBefore ==
  /\ pc = "check"
  /\ IF lock[want] = Absent \/ Matches THEN Leave ELSE Proceed("install")
  /\ UNCHANGED <<lock, store, role, edited, faults>>

\* The lock or the inventory cannot be read.
CannotRead ==
  /\ pc \in {"entry", "list", "check"}
  /\ Leave
  /\ UNCHANGED <<lock, store, role, edited, faults>>

\* The release that was supplied is not the locked one, the backend is not the locked
\* one, or install_resolved fails and has cleaned up.
NotInstalled ==
  /\ pc = "install"
  /\ Leave
  /\ UNCHANGED <<lock, store, role, edited, faults>>

\* The supplied release is exactly the entry that was read first.
InstallRelease ==
  /\ pc = "install"
  /\ entry.backend = OurBackend
  /\ \E i \in Instances :
       /\ Of[i] = [coordinate |-> want, release |-> entry.release]
       /\ Store!Install(i)
       /\ made' = i
       /\ Becomes(i, "pending")
  /\ pc' = "relist"
  /\ entry' = Absent
  /\ UNCHANGED <<lock, want, seen, edited, faults>>

\* Deviation: a release that does not satisfy the lock is reported and stays.
RecheckAndRaise ==
  /\ pc = "recheck"
  /\ Leave
  /\ IF Matches THEN Becomes(made, "locked") ELSE UNCHANGED role
  /\ UNCHANGED <<lock, store, edited, faults>>

CheckAfter ==
  /\ pc = "recheck"
  /\ IF Matches
       THEN Leave /\ Becomes(made, "locked")
       ELSE Proceed("undo_files") /\ UNCHANGED role
  /\ UNCHANGED <<lock, store, edited, faults>>

\* The lock or the inventory cannot be read after the installation.
CannotReadAgain ==
  /\ pc \in {"relist", "recheck"}
  /\ Proceed("undo_files")
  /\ UNCHANGED <<lock, store, role, edited, faults>>

\* Deviation: the roll-back drops the record before the files.
UndoRecordFirst ==
  /\ pc = "undo_files"
  /\ listed' = listed \ {made}
  /\ Goto("undo_record")
  /\ UNCHANGED <<lock, usable, past, role, edited, faults>>

\* Deviation: the roll-back removes every candidate of the coordinate.
UndoCandidates ==
  /\ pc = "undo_files"
  /\ usable' = usable \ Candidates(want, usable)
  /\ Becomes(made, "undone")
  /\ Goto("undo_record")
  /\ UNCHANGED <<lock, listed, past, edited, faults>>

\* The roll-back, manager.remove: the files of the new instance go first.
UndoFiles ==
  /\ pc = "undo_files"
  /\ Store!BeginRemove(made)
  /\ Becomes(made, "undone")
  /\ Goto("undo_record")
  /\ UNCHANGED <<lock, edited, faults>>

UndoRecord ==
  /\ pc = "undo_record"
  /\ Store!Remove(made)
  /\ Leave
  /\ UNCHANGED <<lock, role, edited, faults>>

\* A kill, or an error of the roll-back, which is not reported.
CutShort ==
  /\ pc # "idle"
  /\ faults < MaxFaults
  /\ faults' = faults + 1
  /\ Leave
  /\ IF made # Nothing THEN Becomes(made, "left") ELSE UNCHANGED role
  /\ UNCHANGED <<lock, store, edited>>

Step ==
  \/ Begin
  \/ ReadEntry
  \/ ReadInventory
  \/ CheckBefore
  \/ CannotRead
  \/ NotInstalled
  \/ InstallRelease
  \/ CheckAfter
  \/ CannotReadAgain
  \/ UndoFiles
  \/ UndoRecord
  \/ CutShort

-----------------------------------------------------------------------------
(* What happens between the commands: adapter install, and adapter remove, *)
(* which may be cut short between its two steps.                           *)

InstallDirectly(i) ==
  /\ pc = "idle"
  /\ Store!Install(i)
  /\ Becomes(i, "direct")
  /\ UNCHANGED <<lock, commandVars, edited, faults>>

RemoveFiles(i) ==
  /\ pc = "idle"
  /\ Store!BeginRemove(i)
  /\ Becomes(i, "doomed")
  /\ UNCHANGED <<lock, commandVars, edited, faults>>

RemoveRecord(i) ==
  /\ pc = "idle"
  /\ Store!Remove(i)
  /\ UNCHANGED <<lock, commandVars, role, edited, faults>>

\* And at any time: an edit of the lock.
EditLock ==
  /\ \E c \in Coordinates, e \in Entry \cup {Absent} : lock' = [lock EXCEPT ![c] = e]
  /\ edited' = (edited \/ pc # "idle")
  /\ UNCHANGED <<store, commandVars, role, faults>>

Init ==
  /\ lock \in [Coordinates -> Entry \cup {Absent}]
  /\ Store!Init
  /\ pc = "idle"
  /\ want \in Coordinates
  /\ entry = Absent
  /\ seen = {}
  /\ made = Nothing
  /\ role = [i \in Instances |-> "new"]
  /\ edited = FALSE
  /\ faults = 0

Next ==
  \/ Step
  \/ \E i \in Instances : InstallDirectly(i) \/ RemoveFiles(i) \/ RemoveRecord(i)
  \/ EditLock

Spec == Init /\ [][Next]_vars

-----------------------------------------------------------------------------
(* Properties. *)

\* install-from-lock is side by side: whatever it finds and however it fails, an
\* installation that was reported to somebody stays usable until it is removed
\* by name.
ReportedStaysUsable == \A i \in Instances : role[i] \in {"direct", "locked"} => i \in usable

\* A command that fails leaves none of what it has installed in the inventory, unless it
\* was killed or its roll-back failed; an edit of the lock under it is no excuse.
FailureLeavesNothing ==
  \A i \in listed : role[i] \in {"pending", "undone"} => made = i

\* install-from-lock never installs a second copy of a release, also after kills and
\* failed roll-backs, as long as the lock is not edited while it runs.
NothingTwice ==
  ~edited => \A i, j \in listed :
    (/\ role[i] \in {"pending", "locked", "undone", "left"}
     /\ role[j] \in {"pending", "locked", "undone", "left"}
     /\ Of[i] = Of[j]) => i = j

=============================================================================
