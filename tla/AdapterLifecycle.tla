--------------------------- MODULE AdapterLifecycle ---------------------------
(***************************************************************************)
(* The Adapter Manager: CLI processes that install, remove and execute     *)
(* adapters against two pieces of shared disk state, the Installed Adapter *)
(* Inventory (inventory.json, rewritten through inventory.json.tmp) and    *)
(* one installation root per adapter instance.  Nothing locks either, so a *)
(* step here is one visible effect on the disk; a process may be killed,   *)
(* or a write, rename or delete may fail, between any two of them.         *)
(***************************************************************************)
EXTENDS Naturals, FiniteSets

CONSTANTS
  Procs,       \* slots for concurrently running CLI processes
  Instances,   \* the uuid4 instance ids that can be drawn
  NoInstance,  \* "no instance" in a process that runs nothing
  Serialised,  \* TRUE: the operator runs one command at a time
  MaxFaults    \* bound on kills and I/O errors in a behaviour

ASSUME LifecycleAssumption ==
  /\ NoInstance \notin Instances
  /\ Serialised \in BOOLEAN
  /\ MaxFaults \in Nat

VARIABLES
  pc,     \* where each process is
  op,     \* the command it runs
  inst,   \* the instance it works on
  snap,   \* the records it is about to write to the inventory
  fd,     \* where the file it opened as inventory.json.tmp is linked now,
          \* or "gone" when entries that its rmtree has listed are gone
  json,   \* inventory.json
  tmp,    \* inventory.json.tmp
  root,   \* what each installation root holds
  fate,   \* history: what has become of each instance
  faults  \* history: number of kills and I/O errors so far

procVars == <<pc, op, inst, snap, fd>>
vars == <<pc, op, inst, snap, fd, json, tmp, root, fate, faults>>

---------------------------------------------------------------------------
(* Disk contents. *)

\* The directory itself, and the files of a managed environment that the
\* code looks at by name; "library" is the rest of the installed package,
\* which no verification looks at.
Parts == {"dir", "python", "library", "manifest", "endpoint", "descriptor"}

\* What venv, pip and the manifest lookup have produced when the backend
\* returns its receipt.
Wheel == {"library", "manifest", "endpoint"}

Missing == [st |-> "missing", ids |-> {}]
Empty == [st |-> "empty", ids |-> {}]
Garbled == [st |-> "garbled", ids |-> {}]
Holding(ids) == [st |-> "ok", ids |-> ids]
FileStates == {Missing, Empty, Garbled} \cup {Holding(ids) : ids \in SUBSET Instances}

\* InstalledAdapterInventory.list: an absent file is an empty inventory, an
\* undecodable one (empty, or two texts mixed) raises InventoryError.
Readable(file) == file.st \in {"missing", "ok"}
Records == json.ids

\* AdapterManager._verify_record: descriptor, manifest, endpoint and the
\* managed interpreter are present.
VerifyPasses(i) ==
  {"dir", "descriptor", "manifest", "endpoint", "python"} \subseteq root[i]

---------------------------------------------------------------------------
(* Process bookkeeping. *)

InstallPcs == {"make_root", "venv", "pip", "check_manifest", "backend_clean",
               "copy_descriptor", "verify", "rollback"}
RemovePcs == {"rm_tree", "rm_check"}
InventoryPcs == {"inv_read", "inv_open", "inv_write", "inv_replace", "inv_unlink"}
ExecutePcs == {"ex_verify", "ex_launch"}
PCs == {"idle"} \cup InstallPcs \cup RemovePcs \cup InventoryPcs \cup ExecutePcs

\* A command may start when its slot is free and, if the operator
\* serialises commands, when no other command is running.
MayStart(p) ==
  /\ pc[p] = "idle"
  /\ Serialised => \A q \in Procs : pc[q] = "idle"

Goto(p, where) ==
  /\ pc' = [pc EXCEPT ![p] = where]
  /\ UNCHANGED <<op, inst, snap, fd>>

\* Deviation: a command that ends keeps its instance.
LeaveHoldingInstance(p) ==
  /\ pc' = [pc EXCEPT ![p] = "idle"]
  /\ op' = [op EXCEPT ![p] = "none"]
  /\ snap' = [snap EXCEPT ![p] = {}]
  /\ UNCHANGED inst

Leave(p) ==
  /\ pc' = [pc EXCEPT ![p] = "idle"]
  /\ op' = [op EXCEPT ![p] = "none"]
  /\ inst' = [inst EXCEPT ![p] = NoInstance]
  /\ snap' = [snap EXCEPT ![p] = {}]

\* The process exits: it returned, raised or was killed.
Exit(p) == Leave(p) /\ fd' = [fd EXCEPT ![p] = "none"]

Begin(p, command, i, where) ==
  /\ pc' = [pc EXCEPT ![p] = where]
  /\ op' = [op EXCEPT ![p] = command]
  /\ inst' = [inst EXCEPT ![p] = i]
  /\ UNCHANGED <<snap, fd>>

Fault == faults < MaxFaults /\ faults' = faults + 1

Becomes(p, stage) == fate' = [fate EXCEPT ![inst[p]] = stage]

\* The process ends before its command is done.  What an install leaves
\* behind keeps the stage "verified" if it got that far.
CutShort(p) ==
  /\ Fault
  /\ Exit(p)
  /\ IF fate[inst[p]] = "drawn" THEN Becomes(p, "leaked") ELSE UNCHANGED fate

---------------------------------------------------------------------------
(* install_resolved: the release has been resolved and accepted. *)

StartInstall(p) ==
  /\ MayStart(p)
  /\ \E i \in Instances :
       /\ fate[i] = "fresh"
       /\ Begin(p, "install", i, "make_root")
       /\ fate' = [fate EXCEPT ![i] = "drawn"]
  /\ UNCHANGED <<json, tmp, root, faults>>

BuildStage(p, from, added, to) ==
  /\ pc[p] = from
  /\ root' = [root EXCEPT ![inst[p]] = @ \cup added]
  /\ Goto(p, to)
  /\ UNCHANGED <<json, tmp, fate, faults>>

\* PythonWheelManagedEnvironmentBackend.install, one step per tool it runs.
\* Its check that the root does not exist yet cannot fail: ids are fresh.
MakeRoot(p) == BuildStage(p, "make_root", {"dir"}, "venv")
CreateVenv(p) == BuildStage(p, "venv", {"python"}, "pip")
PipInstall(p) == BuildStage(p, "pip", Wheel, "check_manifest")
\* Deviation: the record is added before the release descriptor is copied.
PublishAtOnce(p) == BuildStage(p, "check_manifest", {}, "inv_read")
AcceptManifest(p) == BuildStage(p, "check_manifest", {}, "copy_descriptor")

\* Deviation: the backend raises without clearing the instance root.
BackendFailsUncleaned(p) ==
  /\ pc[p] \in {"make_root", "venv", "pip", "check_manifest"}
  /\ Exit(p)
  /\ Becomes(p, "abandoned")
  /\ UNCHANGED <<json, tmp, root, faults>>

\* mkdir, venv or pip fails, or the installed manifest is missing, not the one the
\* descriptor names, or not conformant, or its endpoint does not resolve.
BackendFails(p) ==
  /\ pc[p] \in {"make_root", "venv", "pip", "check_manifest"}
  /\ Goto(p, "backend_clean")
  /\ UNCHANGED <<json, tmp, root, fate, faults>>

\* Deviation: the record is added without the post-install verification.
CopyThenPublish(p) == BuildStage(p, "copy_descriptor", {"descriptor"}, "inv_read")
CopyDescriptor(p) == BuildStage(p, "copy_descriptor", {"descriptor"}, "verify")

\* The copy fails, its digest differs from the resolved one, or a verification finds
\* fault with what is there (a digest, a manifest, an endpoint that cannot be executed).
CopyOrVerifyFails(p) ==
  /\ pc[p] \in {"copy_descriptor", "verify"}
  /\ Goto(p, "rollback")
  /\ UNCHANGED <<json, tmp, root, fate, faults>>

VerifyInstalled(p) ==
  /\ pc[p] = "verify"
  /\ IF VerifyPasses(inst[p])
       THEN Goto(p, "inv_read") /\ Becomes(p, "verified")
       ELSE Goto(p, "rollback") /\ UNCHANGED fate
  /\ UNCHANGED <<json, tmp, root, faults>>

---------------------------------------------------------------------------
(* shutil.rmtree of an installation root: by the backend after its own     *)
(* failure, by install_resolved as rollback, and by remove.                *)

RmtreePcs == {"backend_clean", "rollback", "rm_tree"}

\* The backend's own cleaning ignores every error; backend.remove does not.
BackendRemovePcs == {"rollback", "rm_tree"}

\* Whoever is deleting the same tree has listed an entry that is gone now.
RmtreeDelete(p) ==
  /\ pc[p] \in RmtreePcs
  /\ \E x \in root[inst[p]] \ {"dir"} :
       root' = [root EXCEPT ![inst[p]] = @ \ {x}]
  /\ fd' = [q \in Procs |->
              IF q # p /\ pc[q] \in BackendRemovePcs /\ inst[q] = inst[p] THEN "gone" ELSE fd[q]]
  /\ UNCHANGED <<pc, op, inst, snap, json, tmp, fate, faults>>

\* What follows rmtree: remove goes on; a failed install raises.
AfterRmtree(p) ==
  IF pc[p] = "rm_tree"
    THEN /\ pc' = [pc EXCEPT ![p] = "rm_check"]
         /\ fd' = [fd EXCEPT ![p] = "none"]
         /\ UNCHANGED <<op, inst, snap, fate>>
    ELSE /\ Exit(p)
         /\ Becomes(p, IF fate[inst[p]] = "drawn" THEN "abandoned" ELSE "withdrawn")

\* Deviation: a root that is absent already is an error.
RmtreeFinishStrict(p) ==
  /\ pc[p] \in RmtreePcs
  /\ root[inst[p]] \subseteq {"dir"}
  /\ root' = [root EXCEPT ![inst[p]] = {}]
  /\ IF root[inst[p]] = {} THEN Exit(p) /\ UNCHANGED fate ELSE AfterRmtree(p)
  /\ UNCHANGED <<json, tmp, faults>>

\* The directory is empty and goes last, or is absent already
\* (FileNotFoundError counts as removed).
RmtreeFinish(p) ==
  /\ pc[p] \in RmtreePcs
  /\ root[inst[p]] \subseteq {"dir"}
  /\ root' = [root EXCEPT ![inst[p]] = {}]
  /\ AfterRmtree(p)
  /\ UNCHANGED <<json, tmp, faults>>

\* An entry that was listed is gone when it is unlinked: rmtree raises
\* FileNotFoundError and backend.remove returns, although the rest of the tree may
\* still be there.  It may happen to each of two processes that delete one tree.
RmtreeRaces(p) ==
  /\ pc[p] \in BackendRemovePcs
  /\ fd[p] = "gone"
  /\ AfterRmtree(p)
  /\ UNCHANGED <<json, tmp, root, faults>>

\* An entry cannot be deleted.  remove raises and keeps the record; the
\* rollback swallows the error and re-raises the original one.
RmtreeFails(p) ==
  /\ pc[p] \in RmtreePcs
  /\ root[inst[p]] # {}
  /\ CutShort(p)
  /\ UNCHANGED <<json, tmp, root>>

---------------------------------------------------------------------------
(* AdapterManager.remove *)

\* Deviation: the record is dropped first and the files after it.
StartRemoveRecordFirst(p) ==
  /\ MayStart(p)
  /\ \E i \in Records :
       /\ Begin(p, "remove", i, "inv_read")
       /\ fate' = [fate EXCEPT ![i] = "condemned"]
  /\ UNCHANGED <<json, tmp, root, faults>>

StartRemove(p) ==
  /\ MayStart(p)
  /\ \E i \in Records :
       /\ Begin(p, "remove", i, "rm_tree")
       /\ fate' = [fate EXCEPT ![i] = "condemned"]
  /\ UNCHANGED <<json, tmp, root, faults>>

\* Deviation: remove trusts the backend that the files are gone.
TrustBackend(p) ==
  /\ pc[p] = "rm_check"
  /\ Goto(p, "inv_read")
  /\ UNCHANGED <<json, tmp, root, fate, faults>>

CheckRemoved(p) ==
  /\ pc[p] = "rm_check"
  /\ IF root[inst[p]] = {} THEN Goto(p, "inv_read") ELSE Exit(p)
  /\ UNCHANGED <<json, tmp, root, fate, faults>>

---------------------------------------------------------------------------
(* InstalledAdapterInventory.add and .remove: read, then rewrite through   *)
(* the one temporary path every process uses.                              *)

\* Deviation: remove waits for the inventory to become readable.
InventoryErrorRetried(p) ==
  IF op[p] = "install" THEN Goto(p, "rollback") ELSE UNCHANGED procVars

\* What install_resolved and remove do with an InventoryError.
InventoryError(p) == IF op[p] = "install" THEN Goto(p, "rollback") ELSE Exit(p)

\* The records add or remove writes, from the list it has just read.
Rewritten(p) ==
  IF op[p] = "install" THEN Records \cup {inst[p]} ELSE Records \ {inst[p]}

InventoryRead(p) ==
  /\ pc[p] = "inv_read"
  /\ IF Readable(json) /\ Rewritten(p) # Records
       THEN /\ pc' = [pc EXCEPT ![p] = "inv_open"]
            /\ snap' = [snap EXCEPT ![p] = Rewritten(p)]
            /\ UNCHANGED <<op, inst, fd>>
       ELSE InventoryError(p)
  /\ UNCHANGED <<json, tmp, root, fate, faults>>

\* Deviation: the inventory is rewritten in place.
OpenInPlace(p) ==
  /\ pc[p] = "inv_open"
  /\ json' = Empty
  /\ pc' = [pc EXCEPT ![p] = "inv_write"]
  /\ fd' = [fd EXCEPT ![p] = "json"]
  /\ UNCHANGED <<op, inst, snap, tmp, root, fate, faults>>

\* write_text opens the temporary file, creating or truncating it.
OpenTmp(p) ==
  /\ pc[p] = "inv_open"
  /\ tmp' = Empty
  /\ pc' = [pc EXCEPT ![p] = "inv_write"]
  /\ fd' = [fd EXCEPT ![p] = "tmp"]
  /\ UNCHANGED <<op, inst, snap, json, root, fate, faults>>

\* A file after the records `ids` are written over it from its start: a
\* longer text left there by another process keeps its tail.
Overwritten(file, ids) ==
  {Holding(ids)} \cup
    IF file.st = "garbled" \/ ~(file.ids \subseteq ids) THEN {Garbled} ELSE {}

\* The text goes to the file that was opened, whatever name it has by now.
WriteTmp(p) ==
  /\ pc[p] = "inv_write"
  /\ tmp' \in IF fd[p] = "tmp" THEN Overwritten(tmp, snap[p]) ELSE {tmp}
  /\ json' \in IF fd[p] = "json" THEN Overwritten(json, snap[p]) ELSE {json}
  /\ pc' = [pc EXCEPT ![p] = "inv_replace"]
  /\ fd' = [fd EXCEPT ![p] = "none"]
  /\ UNCHANGED <<op, inst, snap, root, fate, faults>>

\* os.replace: whoever has the temporary file open now has inventory.json
\* open, and the old inventory.json loses its name.
Renamed(where) ==
  IF where = "tmp" THEN "json" ELSE IF where = "json" THEN "gone" ELSE where

ReplaceInventory(p) ==
  /\ pc[p] = "inv_replace"
  /\ tmp # Missing
  /\ json' = tmp
  /\ tmp' = Missing
  /\ fd' = [q \in Procs |-> IF q = p THEN "none" ELSE Renamed(fd[q])]
  /\ Leave(p)
  /\ Becomes(p, IF op[p] = "install" THEN "installed" ELSE "removed")
  /\ UNCHANGED <<root, faults>>

\* Another process has renamed the temporary file away.
ReplaceFindsNothing(p) ==
  /\ pc[p] = "inv_replace"
  /\ tmp = Missing
  /\ Goto(p, "inv_unlink")
  /\ UNCHANGED <<json, tmp, root, fate, faults>>

\* The disk is full or the rename is refused.
WriteOrReplaceFails(p) ==
  /\ pc[p] \in {"inv_open", "inv_write", "inv_replace"}
  /\ Fault
  /\ pc' = [pc EXCEPT ![p] = "inv_unlink"]
  /\ fd' = [fd EXCEPT ![p] = "none"]
  /\ UNCHANGED <<op, inst, snap, json, tmp, root, fate>>

\* InventoryError, which rolls an install back.
AfterUnlink(p) ==
  IF op[p] = "install"
    THEN pc' = [pc EXCEPT ![p] = "rollback"] /\ UNCHANGED <<op, inst, snap>>
    ELSE Leave(p)

\* Deviation: a failed rewrite unlinks the inventory itself.
UnlinkInventory(p) ==
  /\ pc[p] = "inv_unlink"
  /\ json' = Missing
  /\ AfterUnlink(p)
  /\ UNCHANGED <<fd, tmp, root, fate, faults>>

\* temporary.unlink(missing_ok=True)
UnlinkTmp(p) ==
  /\ pc[p] = "inv_unlink"
  /\ tmp' = Missing
  /\ fd' = [q \in Procs |-> IF fd[q] = "tmp" THEN "gone" ELSE fd[q]]
  /\ AfterUnlink(p)
  /\ UNCHANGED <<json, root, fate, faults>>

\* The temporary file cannot be deleted either, which is not reported.
UnlinkFails(p) ==
  /\ pc[p] = "inv_unlink"
  /\ Fault
  /\ AfterUnlink(p)
  /\ UNCHANGED <<fd, json, tmp, root, fate>>

---------------------------------------------------------------------------
(* AdapterManager.execute, up to the launch of the adapter's endpoint. *)

StartExecute(p) ==
  /\ MayStart(p)
  /\ \E i \in Records : Begin(p, "execute", i, "ex_verify")
  /\ UNCHANGED <<json, tmp, root, fate, faults>>

\* Deviation: execute trusts the record.
LaunchUnverified(p) ==
  /\ pc[p] = "ex_verify"
  /\ Goto(p, "ex_launch")
  /\ UNCHANGED <<json, tmp, root, fate, faults>>

VerifyForExecution(p) ==
  /\ pc[p] = "ex_verify"
  /\ IF VerifyPasses(inst[p]) THEN Goto(p, "ex_launch") ELSE Exit(p)
  /\ UNCHANGED <<json, tmp, root, fate, faults>>

\* subprocess.run, or an ExecutionError about the operation or its inputs.
Launch(p) ==
  /\ pc[p] = "ex_launch"
  /\ Exit(p)
  /\ UNCHANGED <<json, tmp, root, fate, faults>>

---------------------------------------------------------------------------
\* The process is killed (or interrupted: `except Exception` does not catch
\* KeyboardInterrupt, so nothing is rolled back).
Kill(p) ==
  /\ pc[p] # "idle"
  /\ CutShort(p)
  /\ UNCHANGED <<json, tmp, root>>

InstallStep(p) ==
  \/ MakeRoot(p) \/ CreateVenv(p) \/ PipInstall(p) \/ AcceptManifest(p)
  \/ BackendFails(p) \/ CopyDescriptor(p) \/ CopyOrVerifyFails(p) \/ VerifyInstalled(p)

RmtreeStep(p) == RmtreeDelete(p) \/ RmtreeFinish(p) \/ RmtreeRaces(p)

InventoryStep(p) ==
  \/ InventoryRead(p) \/ OpenTmp(p) \/ WriteTmp(p)
  \/ ReplaceInventory(p) \/ ReplaceFindsNothing(p) \/ UnlinkTmp(p)

\* What a running process does next by itself.
Step(p) ==
  \/ InstallStep(p) \/ RmtreeStep(p) \/ CheckRemoved(p) \/ InventoryStep(p)
  \/ VerifyForExecution(p) \/ Launch(p)

Init ==
  /\ pc = [p \in Procs |-> "idle"]
  /\ op = [p \in Procs |-> "none"]
  /\ inst = [p \in Procs |-> NoInstance]
  /\ snap = [p \in Procs |-> {}]
  /\ fd = [p \in Procs |-> "none"]
  /\ json = Missing
  /\ tmp = Missing
  /\ root = [i \in Instances |-> {}]
  /\ fate = [i \in Instances |-> "fresh"]
  /\ faults = 0

Next ==
  \E p \in Procs :
    \/ StartInstall(p) \/ StartRemove(p) \/ StartExecute(p)
    \/ Step(p)
    \/ RmtreeFails(p) \/ WriteOrReplaceFails(p) \/ UnlinkFails(p) \/ Kill(p)

Spec == Init /\ [][Next]_vars

\* A process that runs keeps running until it returns, raises or is killed.
FairSpec == Spec /\ \A p \in Procs : WF_vars(Step(p))

\* The operator runs remove again on an instance as long as its record is
\* still listed after a first, interrupted removal.
Retry(i) == fate[i] = "condemned" /\ \E p \in Procs : StartRemove(p) /\ inst'[p] = i
RetrySpec == FairSpec /\ \A i \in Instances : SF_vars(Retry(i))

---------------------------------------------------------------------------
(* Properties. *)

Fates == {"fresh", "drawn", "verified", "installed", "condemned", "removed",
          "abandoned", "withdrawn", "leaked"}

\* The type invariant of the processes and of the disk; a process works on an
\* instance exactly while it runs a command.
TypeOK ==
  /\ pc \in [Procs -> PCs]
  /\ op \in [Procs -> {"none", "install", "remove", "execute"}]
  /\ inst \in [Procs -> Instances \cup {NoInstance}]
  /\ snap \in [Procs -> SUBSET Instances]
  /\ fd \in [Procs -> {"none", "tmp", "json", "gone"}]
  /\ json \in FileStates
  /\ tmp \in FileStates
  /\ root \in [Instances -> SUBSET Parts]
  /\ fate \in [Instances -> Fates]
  /\ faults \in 0..MaxFaults
  /\ \A p \in Procs : (pc[p] = "idle") <=> (inst[p] = NoInstance)

\* Commands run one at a time leave an inventory that can be read, wherever
\* one is killed or fails: the rewrite through inventory.json.tmp and
\* os.replace never exposes an unfinished file.
InventoryReadable == Readable(json)

\* A listed instance is complete on disk, unless its removal has begun: the
\* record is published last, and rollback never runs after publication.
RecordsMaterialized ==
  \A i \in Records : root[i] = Parts \/ fate[i] = "condemned"

\* An instance whose install returned stays listed until a remove returns:
\* no failed or killed command loses the record of somebody else's instance,
\* and a removal cut short keeps the record that lets it be run again.
OwnershipKept ==
  \A i \in Instances : fate[i] \in {"installed", "condemned"} => i \in Records

\* A command that reported its instance gone (a remove that returned, an
\* install that rolled back) left neither files nor a record.
GoneIsGone ==
  \A i \in Instances : fate[i] \in {"removed", "abandoned", "withdrawn"}
                          => root[i] = {} /\ i \notin Records

\* execute launches an endpoint only inside a complete installation, or one
\* whose removal was cut short before it reached the parts that are verified.
LaunchesWhole ==
  \A p \in Procs : pc[p] = "ex_launch" =>
    /\ inst[p] \in Records /\ VerifyPasses(inst[p])
    /\ root[inst[p]] # Parts => fate[inst[p]] = "condemned"

\* A record leaves the inventory only after its files have left the disk:
\* remove deletes first and rewrites the inventory last.
RetireOnlyDismantled == [][\A i \in Records \ Records' : root[i] = {}]_vars

\* Whatever commands interleave, and even where an update of the inventory
\* is lost, no record is published that did not pass the post-install
\* verification first.
PublishedWasVerified ==
  \A i \in Records : fate[i] \notin {"fresh", "drawn", "abandoned", "leaked"}

\* Of two processes that delete one tree each may be told that it is gone while
\* part of it is left; a removal that is reported has left no files all the same.
RemovedLeavesNoFiles == \A i \in Instances : fate[i] = "removed" => root[i] = {}

\* Every command comes to an end, whatever other commands do to the files
\* it works on.
CommandsReturn == \A p \in Procs : (pc[p] # "idle") ~> (pc[p] = "idle")

\* A removal that was cut short is completed by running remove again: the
\* half-deleted root, the missing root and the leftover temporary file are
\* all states remove starts from.
RemovalCompletes ==
  \A i \in Instances : (fate[i] = "condemned") ~> (fate[i] = "removed")

\* Commands run one at a time implement an atomic store of adapters: the many
\* effects on the disk, and the kills and errors between them, are seen as an
\* install, the beginning of a removal and its completion, or as nothing.
Store == INSTANCE AdapterStore WITH
  listed <- Records,
  usable <- {i \in Records : root[i] = Parts},
  past <- {i \in Instances : fate[i] \in {"installed", "condemned", "removed"}}
AtomicStore == Store!Spec

\* An install that failed and rolled back has not published its record.
FailedInstallUnlisted == \A i \in Instances : fate[i] = "withdrawn" => i \notin Records

=============================================================================
