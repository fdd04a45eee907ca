------------------------- MODULE AdapterLifecycleProofs -------------------------
(***************************************************************************)
(* What holds of the Adapter Manager for any number of processes,          *)
(* instances, kills and I/O errors.                                        *)
(***************************************************************************)
EXTENDS AdapterLifecycle, TLAPS

USE DEF Records

\* What a file may hold, whichever state it is in.
LEMMA FileShape ==
  ASSUME NEW file \in FileStates
  PROVE  /\ file.ids \subseteq Instances
         /\ file.st \in {"missing", "empty", "garbled", "ok"}
         /\ file.st # "ok" => file.ids = {}
BY DEF FileStates, Missing, Empty, Garbled, Holding

LEMMA FilesExist ==
  /\ Missing \in FileStates /\ Empty \in FileStates /\ Garbled \in FileStates
  /\ \A ids \in SUBSET Instances : Holding(ids) \in FileStates
BY DEF FileStates

LEMMA OverwrittenIsFile ==
  ASSUME NEW file \in FileStates, NEW ids \in SUBSET Instances
  PROVE  Overwritten(file, ids) \subseteq FileStates
BY FilesExist DEF Overwritten

---------------------------------------------------------------------------
(* Type correctness. *)

ProcTypeOK ==
  /\ pc \in [Procs -> PCs]
  /\ op \in [Procs -> {"none", "install", "remove", "execute"}]
  /\ inst \in [Procs -> Instances \cup {NoInstance}]
  /\ snap \in [Procs -> SUBSET Instances]
  /\ fd \in [Procs -> {"none", "tmp", "json", "gone"}]
  /\ \A p \in Procs : (pc[p] = "idle") <=> (inst[p] = NoInstance)

DiskTypeOK ==
  /\ json \in FileStates
  /\ tmp \in FileStates
  /\ root \in [Instances -> SUBSET Parts]
  /\ fate \in [Instances -> Fates]
  /\ faults \in 0 .. MaxFaults

LEMMA TypeOKParts ==
  /\ TypeOK <=> ProcTypeOK /\ DiskTypeOK
  /\ TypeOK' <=> ProcTypeOK' /\ DiskTypeOK'
BY DEF TypeOK, ProcTypeOK, DiskTypeOK

\* A process that is not idle works on an instance.
LEMMA RunningHasInstance ==
  ASSUME TypeOK, NEW p \in Procs, pc[p] # "idle" PROVE inst[p] \in Instances
BY DEF TypeOK

\* The ways in which an action moves its process.
LEMMA GotoTypeOK ==
  ASSUME ProcTypeOK, NEW p \in Procs, NEW where \in PCs \ {"idle"},
         pc[p] # "idle", Goto(p, where)
  PROVE  ProcTypeOK'
BY DEF ProcTypeOK, Goto

LEMMA LeaveTypeOK ==
  ASSUME ProcTypeOK, NEW p \in Procs, Leave(p), fd' \in [Procs -> {"none", "tmp", "json", "gone"}]
  PROVE  ProcTypeOK'
BY DEF ProcTypeOK, Leave, PCs

LEMMA ExitTypeOK ==
  ASSUME ProcTypeOK, NEW p \in Procs, Exit(p) PROVE ProcTypeOK'
<1>1. fd' \in [Procs -> {"none", "tmp", "json", "gone"}]
  BY DEF Exit, ProcTypeOK
<1> QED BY <1>1, LeaveTypeOK DEF Exit

LEMMA BeginTypeOK ==
  ASSUME ProcTypeOK, NEW p \in Procs, NEW i \in Instances, NEW where \in PCs \ {"idle"},
         NEW command \in {"install", "remove", "execute"}, Begin(p, command, i, where)
  PROVE  ProcTypeOK'
BY LifecycleAssumption DEF LifecycleAssumption, ProcTypeOK, Begin

LEMMA BecomesTypeOK ==
  ASSUME fate \in [Instances -> Fates], NEW p \in Procs, NEW stage \in Fates, Becomes(p, stage)
  PROVE  fate' \in [Instances -> Fates]
BY DEF Becomes

LEMMA CutShortTypeOK ==
  ASSUME TypeOK, NEW p \in Procs, CutShort(p)
  PROVE  ProcTypeOK' /\ fate' \in [Instances -> Fates] /\ faults' \in 0 .. MaxFaults
<1>1. ProcTypeOK'
  BY ExitTypeOK, TypeOKParts DEF CutShort
<1>2. fate' \in [Instances -> Fates]
  BY BecomesTypeOK DEF CutShort, TypeOK, Fates
<1>3. faults' \in 0 .. MaxFaults
  BY LifecycleAssumption DEF LifecycleAssumption, CutShort, Fault, TypeOK
<1> QED BY <1>1, <1>2, <1>3

LEMMA InitTypeOK == Init => TypeOK
BY FilesExist, LifecycleAssumption
   DEF LifecycleAssumption, Init, TypeOK, PCs, Fates

LEMMA StartTypeOK ==
  ASSUME TypeOK, NEW p \in Procs, StartInstall(p) \/ StartRemove(p) \/ StartExecute(p)
  PROVE  TypeOK'
<1> USE TypeOKParts, BeginTypeOK, FileShape DEF PCs, InstallPcs, RemovePcs, ExecutePcs
<1>1. CASE StartInstall(p)
  BY <1>1 DEF StartInstall, DiskTypeOK, Fates
<1>2. CASE StartRemove(p)
  BY <1>2 DEF StartRemove, DiskTypeOK, Fates
<1>3. CASE StartExecute(p)
  BY <1>3 DEF StartExecute, DiskTypeOK
<1> QED BY <1>1, <1>2, <1>3

LEMMA InstallStepTypeOK ==
  ASSUME TypeOK, NEW p \in Procs, InstallStep(p) PROVE TypeOK'
<1> USE TypeOKParts, GotoTypeOK DEF PCs, InstallPcs, InventoryPcs
<1>1. ASSUME NEW from \in InstallPcs, NEW added \in SUBSET Parts,
             NEW to \in PCs \ {"idle"}, BuildStage(p, from, added, to)
      PROVE  TypeOK'
  BY <1>1 DEF BuildStage, DiskTypeOK
<1>2. CASE MakeRoot(p)
  BY <1>1, <1>2 DEF MakeRoot, Parts
<1>3. CASE CreateVenv(p)
  BY <1>1, <1>3 DEF CreateVenv, Parts
<1>4. CASE PipInstall(p)
  BY <1>1, <1>4 DEF PipInstall, Parts, Wheel
<1>5. CASE AcceptManifest(p)
  BY <1>1, <1>5 DEF AcceptManifest
<1>6. CASE CopyDescriptor(p)
  BY <1>1, <1>6 DEF CopyDescriptor, Parts
<1>7. CASE BackendFails(p) \/ CopyOrVerifyFails(p)
  BY <1>7 DEF BackendFails, CopyOrVerifyFails, DiskTypeOK
<1>8. CASE VerifyInstalled(p)
  BY <1>8, BecomesTypeOK DEF VerifyInstalled, DiskTypeOK, Fates
<1> QED BY <1>2, <1>3, <1>4, <1>5, <1>6, <1>7, <1>8 DEF InstallStep

LEMMA AfterRmtreeTypeOK ==
  ASSUME TypeOK, NEW p \in Procs, pc[p] \in RmtreePcs, AfterRmtree(p)
  PROVE  ProcTypeOK' /\ fate' \in [Instances -> Fates]
<1> USE TypeOKParts
<1>1. CASE pc[p] = "rm_tree"
  BY <1>1 DEF AfterRmtree, PCs, RemovePcs, ProcTypeOK, DiskTypeOK
<1>2. CASE pc[p] # "rm_tree"
  <2>1. PICK stage \in {"abandoned", "withdrawn"} : Becomes(p, stage)
    BY <1>2 DEF AfterRmtree
  <2>2. fate' \in [Instances -> Fates]
    BY <2>1, BecomesTypeOK DEF DiskTypeOK, Fates
  <2> QED BY <1>2, <2>2, ExitTypeOK DEF AfterRmtree
<1> QED BY <1>1, <1>2

LEMMA RmtreeTypeOK ==
  ASSUME TypeOK, NEW p \in Procs, RmtreeStep(p) \/ RmtreeFails(p) PROVE TypeOK'
<1> USE TypeOKParts
<1>1. CASE RmtreeDelete(p)
  <2>1. ProcTypeOK'
    BY <1>1 DEF RmtreeDelete, ProcTypeOK
  <2>2. root' \in [Instances -> SUBSET Parts]
    BY <1>1 DEF RmtreeDelete, DiskTypeOK
  <2> QED BY <1>1, <2>1, <2>2 DEF RmtreeDelete, DiskTypeOK
<1>2. CASE RmtreeFinish(p)
  BY <1>2, AfterRmtreeTypeOK DEF RmtreeFinish, DiskTypeOK
<1>3. CASE RmtreeRaces(p)
  BY <1>3, AfterRmtreeTypeOK DEF RmtreeRaces, DiskTypeOK, RmtreePcs, BackendRemovePcs
<1>4. CASE RmtreeFails(p)
  BY <1>4, CutShortTypeOK DEF RmtreeFails, DiskTypeOK
<1> QED BY <1>1, <1>2, <1>3, <1>4 DEF RmtreeStep

LEMMA InventoryErrorTypeOK ==
  ASSUME ProcTypeOK, NEW p \in Procs, pc[p] # "idle", InventoryError(p) PROVE ProcTypeOK'
BY GotoTypeOK, ExitTypeOK DEF InventoryError, PCs, InstallPcs

LEMMA AfterUnlinkTypeOK ==
  ASSUME ProcTypeOK, NEW p \in Procs, pc[p] = "inv_unlink", AfterUnlink(p),
         fd' \in [Procs -> {"none", "tmp", "json", "gone"}]
  PROVE  ProcTypeOK'
<1>1. CASE op[p] = "install"
  BY <1>1 DEF AfterUnlink, ProcTypeOK, PCs, InstallPcs
<1>2. CASE op[p] # "install"
  BY <1>2, LeaveTypeOK DEF AfterUnlink
<1> QED BY <1>1, <1>2

LEMMA InventoryTypeOK ==
  ASSUME TypeOK, NEW p \in Procs, InventoryStep(p) \/ WriteOrReplaceFails(p) \/ UnlinkFails(p)
  PROVE  TypeOK'
<1> USE TypeOKParts, FilesExist, FileShape DEF PCs, InventoryPcs
<1>1. CASE InventoryRead(p)
  <2>1. Rewritten(p) \in SUBSET Instances
    BY <1>1, RunningHasInstance DEF InventoryRead, Rewritten, DiskTypeOK
  <2>2. ProcTypeOK'
    BY <1>1, <2>1, InventoryErrorTypeOK DEF InventoryRead, ProcTypeOK
  <2> QED BY <1>1, <2>2 DEF InventoryRead, DiskTypeOK
<1>2. CASE OpenTmp(p)
  BY <1>2 DEF OpenTmp, ProcTypeOK, DiskTypeOK
<1>3. CASE WriteTmp(p)
  <2>1. ProcTypeOK'
    BY <1>3 DEF WriteTmp, ProcTypeOK
  <2>2. snap[p] \in SUBSET Instances
    BY DEF ProcTypeOK
  <2>3. tmp' \in FileStates /\ json' \in FileStates
    BY <1>3, <2>2, OverwrittenIsFile DEF WriteTmp, DiskTypeOK
  <2> QED BY <1>3, <2>1, <2>3 DEF WriteTmp, DiskTypeOK
<1>4. CASE ReplaceInventory(p)
  <2>1. fd' \in [Procs -> {"none", "tmp", "json", "gone"}]
    BY <1>4 DEF ReplaceInventory, Renamed, ProcTypeOK
  <2>2. ProcTypeOK'
    BY <1>4, <2>1, LeaveTypeOK DEF ReplaceInventory
  <2>3. fate' \in [Instances -> Fates]
    BY <1>4, BecomesTypeOK DEF ReplaceInventory, DiskTypeOK, Fates
  <2> QED BY <1>4, <2>2, <2>3 DEF ReplaceInventory, DiskTypeOK
<1>5. CASE ReplaceFindsNothing(p)
  BY <1>5, GotoTypeOK DEF ReplaceFindsNothing, DiskTypeOK
<1>6. CASE UnlinkTmp(p)
  <2>1. fd' \in [Procs -> {"none", "tmp", "json", "gone"}]
    BY <1>6 DEF UnlinkTmp, ProcTypeOK
  <2> QED BY <1>6, <2>1, AfterUnlinkTypeOK DEF UnlinkTmp, DiskTypeOK
<1>7. CASE WriteOrReplaceFails(p)
  <2>1. ProcTypeOK'
    BY <1>7 DEF WriteOrReplaceFails, ProcTypeOK
  <2> QED BY <1>7, <2>1, LifecycleAssumption
             DEF LifecycleAssumption, WriteOrReplaceFails, DiskTypeOK, Fault
<1>8. CASE UnlinkFails(p)
  BY <1>8, AfterUnlinkTypeOK, LifecycleAssumption
     DEF LifecycleAssumption, UnlinkFails, ProcTypeOK, DiskTypeOK, Fault
<1> QED BY <1>1, <1>2, <1>3, <1>4, <1>5, <1>6, <1>7, <1>8 DEF InventoryStep

LEMMA OtherTypeOK ==
  ASSUME TypeOK, NEW p \in Procs,
         CheckRemoved(p) \/ VerifyForExecution(p) \/ Launch(p) \/ Kill(p)
  PROVE  TypeOK'
<1> USE TypeOKParts, GotoTypeOK, ExitTypeOK DEF PCs, InventoryPcs, ExecutePcs
<1>1. CASE CheckRemoved(p)
  BY <1>1 DEF CheckRemoved, DiskTypeOK
<1>2. CASE VerifyForExecution(p) \/ Launch(p)
  BY <1>2 DEF VerifyForExecution, Launch, DiskTypeOK
<1>3. CASE Kill(p)
  BY <1>3, CutShortTypeOK DEF Kill, DiskTypeOK
<1> QED BY <1>1, <1>2, <1>3

LEMMA NextTypeOK == TypeOK /\ [Next]_vars => TypeOK'
<1>1. TypeOK /\ UNCHANGED vars => TypeOK'
  BY DEF vars, TypeOK
<1> QED
  BY <1>1, StartTypeOK, InstallStepTypeOK, RmtreeTypeOK, InventoryTypeOK, OtherTypeOK
     DEF Next, Step

\* The type invariant holds in every state of any number of commands.
THEOREM TypeCorrect == Spec => []TypeOK
BY InitTypeOK, NextTypeOK, PTL DEF Spec

---------------------------------------------------------------------------
(* No record without verification, whatever commands interleave.  The      *)
(* records on their way to inventory.json (in a list that was read, or in  *)
(* the temporary file) are of instances that passed the verification, and  *)
(* an install that has reached the inventory did so.                       *)

Proper == {i \in Instances : fate[i] \notin {"fresh", "drawn", "abandoned", "leaked"}}

PublishFacts ==
  /\ json.ids \subseteq Proper /\ tmp.ids \subseteq Proper
  /\ \A p \in Procs : snap[p] \subseteq Proper
  /\ \A p \in Procs : pc[p] \in InventoryPcs /\ op[p] = "install" => inst[p] \in Proper
  /\ \A p \in Procs : pc[p] \in RemovePcs => op[p] = "remove"

PublishInv == TypeOK /\ PublishFacts

LEMMA InitPublishInv == Init => PublishInv
BY InitTypeOK DEF Init, PublishInv, PublishFacts, Missing, InventoryPcs, RemovePcs

\* A command starts: it is in no part of its program that publishes yet.
LEMMA StartPublishes ==
  ASSUME PublishInv, NEW p \in Procs, StartInstall(p) \/ StartRemove(p) \/ StartExecute(p)
  PROVE  PublishFacts'
<1> USE DEF PublishInv, PublishFacts, Proper, Begin, InventoryPcs, RemovePcs, TypeOK
<1>1. CASE StartInstall(p)
  BY <1>1 DEF StartInstall
<1>2. CASE StartRemove(p)
  BY <1>2 DEF StartRemove
<1>3. CASE StartExecute(p)
  BY <1>3 DEF StartExecute
<1> QED BY <1>1, <1>2, <1>3

LEMMA InstallPublishes ==
  ASSUME PublishInv, NEW p \in Procs, InstallStep(p) PROVE PublishFacts'
<1> USE DEF PublishInv, PublishFacts, Proper, Goto, InventoryPcs, RemovePcs, TypeOK
<1>1. ASSUME NEW from, NEW added, NEW to, to \notin InventoryPcs \cup RemovePcs,
             BuildStage(p, from, added, to)
      PROVE  PublishFacts'
  BY <1>1 DEF BuildStage
<1>2. CASE MakeRoot(p) \/ CreateVenv(p) \/ PipInstall(p) \/ AcceptManifest(p) \/ CopyDescriptor(p)
  BY <1>1, <1>2 DEF MakeRoot, CreateVenv, PipInstall, AcceptManifest, CopyDescriptor
<1>3. CASE BackendFails(p) \/ CopyOrVerifyFails(p)
  BY <1>3 DEF BackendFails, CopyOrVerifyFails
<1>4. CASE VerifyInstalled(p)
  <2>1. inst[p] \in Instances
    BY <1>4, RunningHasInstance DEF VerifyInstalled
  <2>2. CASE VerifyPasses(inst[p])
    BY <1>4, <2>1, <2>2 DEF VerifyInstalled, Becomes
  <2>3. CASE ~VerifyPasses(inst[p])
    BY <1>4, <2>3 DEF VerifyInstalled
  <2> QED BY <2>2, <2>3
<1> QED BY <1>2, <1>3, <1>4 DEF InstallStep

\* A process that exits holds no record, and the fate of its instance, if it
\* changes, was not that of a verified one.
LEMMA ExitPublishes ==
  ASSUME PublishInv, NEW p \in Procs, Exit(p), UNCHANGED <<json, tmp>>,
         \/ UNCHANGED fate
         \/ \E stage \in Fates : Becomes(p, stage)
                                  /\ (inst[p] \in Proper => stage = "withdrawn")
  PROVE  PublishFacts'
<1>1. Proper \subseteq Proper'
  BY DEF Proper, Becomes, PublishInv, PublishFacts, TypeOK
<1> QED
  BY <1>1 DEF PublishInv, PublishFacts, Exit, Leave, InventoryPcs, RemovePcs, TypeOK

LEMMA CutShortPublishes ==
  ASSUME PublishInv, NEW p \in Procs, CutShort(p), UNCHANGED <<json, tmp>> PROVE PublishFacts'
<1>1. fate[inst[p]] = "drawn" => inst[p] \notin Proper
  BY DEF Proper
<1> QED BY <1>1, ExitPublishes DEF CutShort, Fates

LEMMA AfterRmtreePublishes ==
  ASSUME PublishInv, NEW p \in Procs, pc[p] \in RmtreePcs, AfterRmtree(p), UNCHANGED <<json, tmp>>
  PROVE  PublishFacts'
<1>1. CASE pc[p] = "rm_tree"
  BY <1>1 DEF AfterRmtree, PublishInv, PublishFacts, Proper, InventoryPcs, RemovePcs, TypeOK
<1>2. CASE pc[p] # "rm_tree"
  <2>1. PICK stage \in {"abandoned", "withdrawn"} :
          Becomes(p, stage) /\ (fate[inst[p]] # "drawn" => stage = "withdrawn")
    BY <1>2 DEF AfterRmtree
  <2>2. inst[p] \in Proper => stage = "withdrawn"
    BY <2>1 DEF Proper
  <2> QED BY <1>2, <2>1, <2>2, ExitPublishes DEF AfterRmtree, Fates
<1> QED BY <1>1, <1>2

LEMMA RmtreePublishes ==
  ASSUME PublishInv, NEW p \in Procs, RmtreeStep(p) \/ RmtreeFails(p) PROVE PublishFacts'
<1>1. CASE RmtreeDelete(p)
  BY <1>1 DEF RmtreeDelete, PublishInv, PublishFacts, Proper
<1>2. CASE RmtreeFinish(p) \/ RmtreeRaces(p)
  BY <1>2, AfterRmtreePublishes DEF RmtreeFinish, RmtreeRaces, RmtreePcs, BackendRemovePcs
<1>3. CASE RmtreeFails(p)
  BY <1>3, CutShortPublishes DEF RmtreeFails
<1> QED BY <1>1, <1>2, <1>3 DEF RmtreeStep

LEMMA OtherPublishes ==
  ASSUME PublishInv, NEW p \in Procs,
         CheckRemoved(p) \/ VerifyForExecution(p) \/ Launch(p) \/ Kill(p)
  PROVE  PublishFacts'
<1> USE DEF PublishInv, PublishFacts, Proper, Goto, InventoryPcs, RemovePcs, TypeOK
<1>1. CASE CheckRemoved(p)
  <2>1. CASE root[inst[p]] = {}
    BY <1>1, <2>1 DEF CheckRemoved
  <2>2. CASE root[inst[p]] # {}
    BY <1>1, <2>2, ExitPublishes DEF CheckRemoved
  <2> QED BY <2>1, <2>2
<1>2. CASE VerifyForExecution(p)
  <2>1. CASE VerifyPasses(inst[p])
    BY <1>2, <2>1 DEF VerifyForExecution
  <2>2. CASE ~VerifyPasses(inst[p])
    BY <1>2, <2>2, ExitPublishes DEF VerifyForExecution
  <2> QED BY <2>1, <2>2
<1>3. CASE Launch(p)
  BY <1>3, ExitPublishes DEF Launch
<1>4. CASE Kill(p)
  BY <1>4, CutShortPublishes DEF Kill
<1> QED BY <1>1, <1>2, <1>3, <1>4

\* What is written over a file holds the records written, or none.
LEMMA OverwrittenHolds ==
  ASSUME NEW file, NEW ids, NEW after \in Overwritten(file, ids) PROVE after.ids \subseteq ids
BY DEF Overwritten, Holding, Garbled

LEMMA InventoryPublishes ==
  ASSUME PublishInv, NEW p \in Procs, InventoryStep(p) \/ WriteOrReplaceFails(p) \/ UnlinkFails(p)
  PROVE  PublishFacts'
<1> USE DEF PublishInv, PublishFacts, InventoryPcs, RemovePcs, TypeOK
<1>1. CASE InventoryRead(p)
  <2>1. Rewritten(p) \subseteq Proper
    BY <1>1 DEF InventoryRead, Rewritten
  <2>2. CASE Readable(json) /\ Rewritten(p) # Records
    BY <1>1, <2>1, <2>2 DEF InventoryRead, Proper
  <2>3. CASE ~(Readable(json) /\ Rewritten(p) # Records) /\ op[p] = "install"
    BY <1>1, <2>3 DEF InventoryRead, InventoryError, Goto, Proper
  <2>4. CASE ~(Readable(json) /\ Rewritten(p) # Records) /\ op[p] # "install"
    BY <1>1, <2>4, ExitPublishes DEF InventoryRead, InventoryError
  <2> QED BY <2>2, <2>3, <2>4
<1>2. CASE OpenTmp(p)
  BY <1>2 DEF OpenTmp, Proper, Empty
<1>3. CASE WriteTmp(p)
  <2>1. tmp'.ids \subseteq Proper /\ json'.ids \subseteq Proper
    BY <1>3, OverwrittenHolds DEF WriteTmp
  <2> QED BY <1>3, <2>1 DEF WriteTmp, Proper
<1>4. CASE ReplaceInventory(p)
  <2>1. Proper \subseteq Proper'
    BY <1>4 DEF ReplaceInventory, Becomes, Proper
  <2>2. json'.ids \subseteq Proper' /\ tmp'.ids \subseteq Proper'
    BY <1>4, <2>1 DEF ReplaceInventory, Missing
  <2> QED BY <1>4, <2>1, <2>2 DEF ReplaceInventory, Leave
<1>5. CASE ReplaceFindsNothing(p)
  BY <1>5 DEF ReplaceFindsNothing, Goto, Proper
<1>6. CASE UnlinkTmp(p)
  BY <1>6, SMTT(30) DEF UnlinkTmp, AfterUnlink, Leave, Missing, Proper
<1>7. CASE WriteOrReplaceFails(p)
  BY <1>7 DEF WriteOrReplaceFails, Proper
<1>8. CASE UnlinkFails(p)
  BY <1>8, SMTT(30) DEF UnlinkFails, AfterUnlink, Leave, Proper
<1> QED BY <1>1, <1>2, <1>3, <1>4, <1>5, <1>6, <1>7, <1>8 DEF InventoryStep

LEMMA NextPublishInv == PublishInv /\ [Next]_vars => PublishInv'
<1> SUFFICES ASSUME PublishInv, [Next]_vars PROVE PublishFacts'
  BY NextTypeOK DEF PublishInv, PublishFacts
<1>1. CASE UNCHANGED vars
  BY <1>1 DEF vars, PublishInv, PublishFacts, Proper
<1> QED
  BY <1>1, StartPublishes, InstallPublishes, RmtreePublishes, InventoryPublishes, OtherPublishes
     DEF Next, Step

\* Commands that run at once may lose a record or keep one too many, but
\* they publish none that was not verified.
THEOREM PublishedIsVerified == Spec => []PublishedWasVerified
<1>1. PublishInv => PublishedWasVerified
  BY DEF PublishInv, PublishFacts, PublishedWasVerified, Proper
<1> QED BY <1>1, InitPublishInv, NextPublishInv, PTL DEF Spec

---------------------------------------------------------------------------
(* A removal that was reported has left no files, whatever commands         *)
(* interleave.  Files appear only where an install is building, and nobody  *)
(* else works on an instance that is being built; so once a removal has     *)
(* seen that the root is gone, it stays gone.                               *)

\* Which command is in which part of its program, or in none.
AtWork(p) ==
  /\ pc[p] = "idle" => op[p] = "none"
  /\ pc[p] \in InstallPcs => op[p] = "install"
  /\ pc[p] \in RemovePcs => op[p] = "remove"
  /\ pc[p] \in InventoryPcs => op[p] \in {"install", "remove"}
  /\ pc[p] \in ExecutePcs => op[p] = "execute"

\* Where an install adds files.
BuildPcs == {"make_root", "venv", "pip", "check_manifest", "copy_descriptor"}

Working(p) ==
  /\ AtWork(p)
  /\ pc[p] # "idle" => fate[inst[p]] # "fresh"
  /\ pc[p] \in BuildPcs => fate[inst[p]] = "drawn"
  /\ op[p] = "remove" => inst[p] \in Proper
  /\ op[p] = "remove" /\ pc[p] \in InventoryPcs => root[inst[p]] = {}

BuildersApart == \A p, q \in Procs : pc[p] \in BuildPcs /\ inst[q] = inst[p] => q = p

RemovalInv ==
  /\ PublishInv
  /\ \A p \in Procs : Working(p)
  /\ BuildersApart
  /\ RemovedLeavesNoFiles

\* What a step of p does that the other processes could notice.
Frame(p) ==
  /\ \A q \in Procs \ {p} : pc'[q] = pc[q] /\ op'[q] = op[q] /\ inst'[q] = inst[q]
  /\ inst'[p] \in {inst[p], NoInstance} \/ (inst'[p] \in Instances /\ fate[inst'[p]] # "drawn")
  /\ pc'[p] \in BuildPcs =>
       (pc[p] \in BuildPcs /\ inst'[p] = inst[p]) \/ fate[inst'[p]] = "fresh"
  /\ \A i \in Instances :
       /\ fate'[i] = fate[i] \/ i = inst[p] \/ fate[i] # "drawn"
       /\ fate'[i] = "fresh" => fate[i] = "fresh"
       /\ i \in Proper => i \in Proper'
       /\ fate'[i] = "removed" => fate[i] = "removed" \/ root'[i] = {}
       /\ root'[i] \subseteq root[i] \/ (i = inst[p] /\ pc[p] \in BuildPcs)
  /\ Working(p)'

LEMMA FramePreserves ==
  ASSUME RemovalInv, PublishInv', NEW p \in Procs, Frame(p) PROVE RemovalInv'
<1> USE DEF RemovalInv, PublishInv
<1>1. ASSUME NEW q \in Procs \ {p} PROVE Working(q)'
  <2>1. pc'[q] = pc[q] /\ op'[q] = op[q] /\ inst'[q] = inst[q] /\ Working(q)
    BY DEF Frame
  <2>2. AtWork(q)'
    BY <2>1 DEF Working, AtWork
  <2>3. CASE pc[q] = "idle"
    BY <2>1, <2>2, <2>3 DEF Working, AtWork, BuildPcs
  <2>4. CASE pc[q] # "idle"
    <3>1. /\ inst[q] \in Instances
          /\ inst[q] = inst[p] => pc[p] \notin BuildPcs /\ pc[q] \notin BuildPcs
      BY <2>4, RunningHasInstance DEF BuildersApart
    <3>2. pc[q] \in BuildPcs => fate'[inst[q]] = "drawn"
      BY <2>1, <3>1 DEF Frame, Working
    <3>3. root'[inst[q]] \subseteq root[inst[q]]
      BY <3>1 DEF Frame
    <3>4. fate'[inst[q]] # "fresh" /\ (op[q] = "remove" => inst[q] \in Proper')
      BY <2>1, <2>4, <3>1 DEF Frame, Working
    <3> QED BY <2>1, <2>2, <3>2, <3>3, <3>4 DEF Working
  <2> QED BY <2>3, <2>4
<1>2. BuildersApart'
  <2> SUFFICES ASSUME NEW q \in Procs, NEW r \in Procs, pc'[q] \in BuildPcs, inst'[r] = inst'[q]
               PROVE  r = q
    BY DEF BuildersApart
  <2>1. CASE q # p /\ r # p
    BY <2>1 DEF Frame, BuildersApart
  <2>2. CASE q # p /\ r = p
    <3>1. pc[q] \in BuildPcs /\ inst'[p] = inst[q]
      BY <2>2 DEF Frame
    <3>2. inst[q] \in Instances /\ fate[inst[q]] = "drawn"
      BY <3>1, RunningHasInstance DEF BuildPcs, Working
    <3> QED BY <2>2, <3>1, <3>2, LifecycleAssumption DEF LifecycleAssumption, Frame, BuildersApart
  <2>3. CASE q = p /\ r # p
    <3>1. inst[r] = inst'[p]
      BY <2>3 DEF Frame
    <3>2. inst[r] \in Instances
      BY <2>3, <3>1, RunningHasInstance DEF TypeOK, BuildPcs
    <3>3. fate[inst[r]] # "fresh"
      BY <3>2, LifecycleAssumption DEF LifecycleAssumption, TypeOK, Working
    <3> QED BY <2>3, <3>1, <3>3 DEF Frame, BuildersApart
  <2> QED BY <2>1, <2>2, <2>3
<1>3. RemovedLeavesNoFiles'
  <2> SUFFICES ASSUME NEW i \in Instances, fate'[i] = "removed" PROVE root'[i] = {}
    BY DEF RemovedLeavesNoFiles
  <2>1. CASE fate[i] = "removed"
    <3>1. root[i] = {} /\ ~(i = inst[p] /\ pc[p] \in BuildPcs)
      BY <2>1 DEF RemovedLeavesNoFiles, Working
    <3> QED BY <3>1 DEF Frame
  <2>2. CASE fate[i] # "removed"
    BY <2>2 DEF Frame
  <2> QED BY <2>1, <2>2
<1>4. Working(p)'
  BY DEF Frame
<1> QED BY <1>1, <1>2, <1>3, <1>4

LEMMA StartFrames ==
  ASSUME RemovalInv, NEW p \in Procs, StartInstall(p) \/ StartRemove(p) \/ StartExecute(p)
  PROVE  Frame(p)
<1> USE DEF RemovalInv, PublishInv, TypeOK, Begin, Frame, Working, AtWork, BuildPcs, Proper,
            InstallPcs, RemovePcs, InventoryPcs, ExecutePcs
<1>1. CASE StartInstall(p)
  BY <1>1 DEF StartInstall
<1>2. ASSUME NEW i \in Records
      PROVE  i \in Instances /\ fate[i] \notin {"fresh", "drawn", "abandoned", "leaked"}
  BY FileShape DEF PublishFacts
<1>3. CASE StartRemove(p)
  BY <1>2, <1>3 DEF StartRemove
<1>4. CASE StartExecute(p)
  BY <1>2, <1>4 DEF StartExecute
<1> QED BY <1>1, <1>3, <1>4

\* A process that exits, whatever becomes of its instance.
LEMMA ExitFrames ==
  ASSUME RemovalInv, NEW p \in Procs, pc[p] # "idle", Exit(p),
         \A i \in Instances : root'[i] \subseteq root[i],
         \/ UNCHANGED fate
         \/ \E stage \in {"abandoned", "leaked", "withdrawn"} :
              Becomes(p, stage) /\ (inst[p] \in Proper => stage = "withdrawn")
  PROVE  Frame(p)
<1>1. \A i \in Instances : i \in Proper => i \in Proper'
  BY DEF Proper, Becomes, RemovalInv, PublishInv, TypeOK
<1>2. Working(p)'
  BY DEF Exit, Leave, Working, AtWork, BuildPcs, InstallPcs, RemovePcs, InventoryPcs, ExecutePcs,
         RemovalInv, PublishInv, TypeOK
<1>3. /\ \A q \in Procs \ {p} : pc'[q] = pc[q] /\ op'[q] = op[q] /\ inst'[q] = inst[q]
      /\ inst'[p] = NoInstance /\ pc'[p] \notin BuildPcs
  BY DEF Exit, Leave, BuildPcs, RemovalInv, PublishInv, TypeOK
<1>4. \A i \in Instances :
        /\ fate'[i] = fate[i] \/ i = inst[p]
        /\ fate'[i] = "fresh" => fate[i] = "fresh"
        /\ fate'[i] = "removed" => fate[i] = "removed"
  BY DEF Becomes, RemovalInv, PublishInv, TypeOK
<1> QED BY <1>1, <1>2, <1>3, <1>4 DEF Frame

LEMMA CutShortFrames ==
  ASSUME RemovalInv, NEW p \in Procs, pc[p] # "idle", CutShort(p), UNCHANGED root
  PROVE  Frame(p)
<1>1. fate[inst[p]] = "drawn" => inst[p] \notin Proper
  BY DEF Proper
<1> QED BY <1>1, ExitFrames DEF CutShort

\* A step that goes on with the command, and changes no fate.
LEMMA GoesOnFrames ==
  ASSUME RemovalInv, NEW p \in Procs, pc[p] # "idle", UNCHANGED <<op, inst, fate>>,
         \A q \in Procs \ {p} : pc'[q] = pc[q],
         \A i \in Instances : root'[i] \subseteq root[i] \/ (i = inst[p] /\ pc[p] \in BuildPcs),
         pc'[p] \in BuildPcs => pc[p] \in BuildPcs,
         AtWork(p)',
         op[p] = "remove" /\ pc'[p] \in InventoryPcs =>
           pc[p] \in InventoryPcs \/ root'[inst[p]] = {}
  PROVE  Frame(p)
<1>1. inst[p] \in Instances
  BY RunningHasInstance DEF RemovalInv, PublishInv
<1>2. op[p] = "remove" => pc[p] \notin BuildPcs
  BY DEF RemovalInv, Working, AtWork, BuildPcs, InstallPcs
<1>3. Proper' = Proper
  BY DEF Proper
<1>4. Working(p)'
  BY <1>1, <1>2, <1>3 DEF RemovalInv, Working
<1> QED BY <1>3, <1>4 DEF Frame

LEMMA InstallFrames ==
  ASSUME RemovalInv, NEW p \in Procs, InstallStep(p) PROVE Frame(p)
<1> USE DEF RemovalInv, PublishInv, TypeOK, Goto, AtWork, BuildPcs,
            InstallPcs, RemovePcs, InventoryPcs, ExecutePcs
<1>1. op[p] = "install" /\ inst[p] \in Instances /\ pc[p] # "idle"
  BY RunningHasInstance DEF InstallStep, MakeRoot, CreateVenv, PipInstall, AcceptManifest,
     BackendFails, CopyDescriptor, CopyOrVerifyFails, VerifyInstalled, BuildStage, Working
<1>2. ASSUME NEW from \in BuildPcs, NEW added, NEW to \in BuildPcs \cup {"verify"},
             BuildStage(p, from, added, to)
      PROVE  Frame(p)
  BY <1>1, <1>2, GoesOnFrames DEF BuildStage
<1>3. CASE MakeRoot(p) \/ CreateVenv(p) \/ PipInstall(p) \/ AcceptManifest(p) \/ CopyDescriptor(p)
  BY <1>2, <1>3 DEF MakeRoot, CreateVenv, PipInstall, AcceptManifest, CopyDescriptor
<1>4. CASE BackendFails(p) \/ CopyOrVerifyFails(p)
  BY <1>1, <1>4, GoesOnFrames DEF BackendFails, CopyOrVerifyFails
<1>5. CASE VerifyInstalled(p)
  <2>1. CASE VerifyPasses(inst[p])
    BY <1>1, <1>5, <2>1 DEF VerifyInstalled, Becomes, Frame, Working, Proper
  <2>2. CASE ~VerifyPasses(inst[p])
    BY <1>1, <1>5, <2>2, GoesOnFrames DEF VerifyInstalled
  <2> QED BY <2>1, <2>2
<1> QED BY <1>3, <1>4, <1>5 DEF InstallStep

LEMMA AfterRmtreeFrames ==
  ASSUME RemovalInv, NEW p \in Procs, pc[p] \in RmtreePcs, AfterRmtree(p),
         \A i \in Instances : root'[i] \subseteq root[i]
  PROVE  Frame(p)
<1>1. CASE pc[p] = "rm_tree"
  <2>1. op[p] = "remove" /\ pc'[p] = "rm_check" /\ \A q \in Procs \ {p} : pc'[q] = pc[q]
    BY <1>1 DEF AfterRmtree, RemovalInv, PublishInv, TypeOK, Working, AtWork, RemovePcs
  <2> QED BY <1>1, <2>1, GoesOnFrames
         DEF AfterRmtree, AtWork, BuildPcs, InstallPcs, RemovePcs, InventoryPcs, ExecutePcs
<1>2. CASE pc[p] # "rm_tree"
  <2>1. PICK stage \in {"abandoned", "withdrawn"} :
          Becomes(p, stage) /\ (fate[inst[p]] # "drawn" => stage = "withdrawn")
    BY <1>2 DEF AfterRmtree
  <2>2. inst[p] \in Proper => stage = "withdrawn"
    BY <2>1 DEF Proper
  <2> QED BY <1>2, <2>1, <2>2, ExitFrames DEF AfterRmtree, RmtreePcs
<1> QED BY <1>1, <1>2

LEMMA RmtreeFrames ==
  ASSUME RemovalInv, NEW p \in Procs, RmtreeStep(p) \/ RmtreeFails(p) PROVE Frame(p)
<1> USE DEF RmtreePcs
<1>1. CASE RmtreeDelete(p)
  <2>1. \A i \in Instances : root'[i] \subseteq root[i]
    BY <1>1 DEF RmtreeDelete, RemovalInv, PublishInv, TypeOK
  <2>2. AtWork(p)'
    BY <1>1 DEF RmtreeDelete, RemovalInv, Working, AtWork
  <2> QED BY <1>1, <2>1, <2>2, GoesOnFrames DEF RmtreeDelete
<1>2. CASE RmtreeFinish(p)
  <2>1. \A i \in Instances : root'[i] \subseteq root[i]
    BY <1>2 DEF RmtreeFinish, RemovalInv, PublishInv, TypeOK
  <2> QED BY <1>2, <2>1, AfterRmtreeFrames DEF RmtreeFinish
<1>3. CASE RmtreeRaces(p)
  BY <1>3, AfterRmtreeFrames DEF RmtreeRaces, BackendRemovePcs
<1>4. CASE RmtreeFails(p)
  BY <1>4, CutShortFrames DEF RmtreeFails
<1> QED BY <1>1, <1>2, <1>3, <1>4 DEF RmtreeStep

LEMMA InventoryFrames ==
  ASSUME RemovalInv, NEW p \in Procs,
         InventoryStep(p) \/ WriteOrReplaceFails(p) \/ UnlinkFails(p)
  PROVE  Frame(p)
<1> USE DEF AtWork, BuildPcs, InstallPcs, RemovePcs, InventoryPcs, ExecutePcs
<1>1. pc[p] \in InventoryPcs
  BY DEF InventoryStep, InventoryRead, OpenTmp, WriteTmp, ReplaceInventory, ReplaceFindsNothing,
         UnlinkTmp, WriteOrReplaceFails, UnlinkFails
<1>2. op[p] \in {"install", "remove"} /\ inst[p] \in Instances /\ TypeOK
  BY <1>1, RunningHasInstance DEF RemovalInv, PublishInv, Working
<1>3. ASSUME UNCHANGED <<root, fate, op, inst>>, \A q \in Procs \ {p} : pc'[q] = pc[q],
             pc'[p] \in InventoryPcs \/ (op[p] = "install" /\ pc'[p] = "rollback")
      PROVE  Frame(p)
  BY <1>1, <1>2, <1>3, GoesOnFrames
<1>4. CASE InventoryRead(p)
  <2>1. CASE Readable(json) /\ Rewritten(p) # Records
    BY <1>2, <1>3, <1>4, <2>1 DEF InventoryRead, TypeOK
  <2>2. CASE ~(Readable(json) /\ Rewritten(p) # Records) /\ op[p] = "install"
    BY <1>2, <1>3, <1>4, <2>2 DEF InventoryRead, InventoryError, Goto, TypeOK
  <2>3. CASE ~(Readable(json) /\ Rewritten(p) # Records) /\ op[p] # "install"
    BY <1>1, <1>4, <2>3, ExitFrames DEF InventoryRead, InventoryError
  <2> QED BY <2>1, <2>2, <2>3
<1>5. CASE OpenTmp(p) \/ WriteTmp(p) \/ ReplaceFindsNothing(p) \/ WriteOrReplaceFails(p)
  BY <1>2, <1>3, <1>5 DEF OpenTmp, WriteTmp, ReplaceFindsNothing, WriteOrReplaceFails, Goto, TypeOK
<1>6. CASE ReplaceInventory(p)
  <2>1. \A i \in Instances : i \in Proper => i \in Proper'
    BY <1>2, <1>6 DEF ReplaceInventory, Becomes, Proper, TypeOK
  <2>2. op[p] = "remove" => root[inst[p]] = {}
    BY <1>1 DEF RemovalInv, Working
  <2>3. Working(p)'
    BY <1>2, <1>6 DEF ReplaceInventory, Leave, Working, TypeOK
  <2>4. \A i \in Instances :
          /\ fate'[i] = fate[i] \/ i = inst[p]
          /\ fate'[i] = "fresh" => fate[i] = "fresh"
          /\ fate'[i] = "removed" => fate[i] = "removed" \/ root'[i] = {}
    BY <1>2, <1>6, <2>2 DEF ReplaceInventory, Becomes, TypeOK
  <2>5. /\ \A q \in Procs \ {p} : pc'[q] = pc[q] /\ op'[q] = op[q] /\ inst'[q] = inst[q]
        /\ inst'[p] = NoInstance /\ pc'[p] \notin BuildPcs /\ root' = root
    BY <1>2, <1>6 DEF ReplaceInventory, Leave, TypeOK
  <2> QED BY <2>1, <2>3, <2>4, <2>5 DEF Frame
<1>7. CASE UnlinkTmp(p) \/ UnlinkFails(p)
  <2>1. AfterUnlink(p) /\ UNCHANGED <<root, fate>>
    BY <1>7 DEF UnlinkTmp, UnlinkFails
  <2>2. CASE op[p] = "install"
    BY <1>2, <1>3, <2>1, <2>2 DEF AfterUnlink, TypeOK
  <2>3. CASE op[p] = "remove"
    <3>1. Working(p)'
      BY <1>2, <2>1, <2>3 DEF AfterUnlink, Leave, Working, TypeOK
    <3>2. /\ \A q \in Procs \ {p} : pc'[q] = pc[q] /\ op'[q] = op[q] /\ inst'[q] = inst[q]
          /\ inst'[p] = NoInstance /\ pc'[p] \notin BuildPcs
      BY <1>2, <2>1, <2>3 DEF AfterUnlink, Leave, TypeOK
    <3> QED BY <2>1, <3>1, <3>2 DEF Frame, Proper
  <2> QED BY <1>2, <2>2, <2>3
<1> QED BY <1>4, <1>5, <1>6, <1>7 DEF InventoryStep

LEMMA OtherFrames ==
  ASSUME RemovalInv, NEW p \in Procs,
         CheckRemoved(p) \/ VerifyForExecution(p) \/ Launch(p) \/ Kill(p)
  PROVE  Frame(p)
<1> USE DEF AtWork, BuildPcs, InstallPcs, RemovePcs, InventoryPcs, ExecutePcs
<1>1. CASE CheckRemoved(p)
  <2>1. CASE root[inst[p]] = {}
    <3>1. op[p] = "remove" /\ pc'[p] = "inv_read" /\ \A q \in Procs \ {p} : pc'[q] = pc[q]
      BY <1>1, <2>1 DEF CheckRemoved, Goto, RemovalInv, PublishInv, TypeOK, Working
    <3> QED BY <1>1, <2>1, <3>1, GoesOnFrames DEF CheckRemoved, Goto
  <2>2. CASE root[inst[p]] # {}
    BY <1>1, <2>2, ExitFrames DEF CheckRemoved
  <2> QED BY <2>1, <2>2
<1>2. CASE VerifyForExecution(p)
  <2>1. CASE VerifyPasses(inst[p])
    <3>1. op[p] = "execute" /\ pc'[p] = "ex_launch" /\ \A q \in Procs \ {p} : pc'[q] = pc[q]
      BY <1>2, <2>1 DEF VerifyForExecution, Goto, RemovalInv, PublishInv, TypeOK, Working
    <3> QED BY <1>2, <2>1, <3>1, GoesOnFrames DEF VerifyForExecution, Goto
  <2>2. CASE ~VerifyPasses(inst[p])
    BY <1>2, <2>2, ExitFrames DEF VerifyForExecution
  <2> QED BY <2>1, <2>2
<1>3. CASE Launch(p)
  BY <1>3, ExitFrames DEF Launch
<1>4. CASE Kill(p)
  BY <1>4, CutShortFrames DEF Kill
<1> QED BY <1>1, <1>2, <1>3, <1>4

LEMMA InitRemovalInv == Init => RemovalInv
BY InitPublishInv
   DEF Init, RemovalInv, Working, AtWork, BuildersApart, RemovedLeavesNoFiles, BuildPcs,
       InstallPcs, RemovePcs, InventoryPcs, ExecutePcs

LEMMA NextRemovalInv == RemovalInv /\ [Next]_vars => RemovalInv'
<1> SUFFICES ASSUME RemovalInv, [Next]_vars PROVE RemovalInv'
  OBVIOUS
<1>1. PublishInv'
  BY NextPublishInv DEF RemovalInv
<1>2. CASE UNCHANGED vars
  BY <1>1, <1>2 DEF vars, RemovalInv, Working, AtWork, Proper, BuildersApart, RemovedLeavesNoFiles
<1>3. CASE Next
  <2>1. PICK p \in Procs : Frame(p)
    BY <1>3, StartFrames, InstallFrames, RmtreeFrames, InventoryFrames, OtherFrames DEF Next, Step
  <2> QED BY <1>1, <2>1, FramePreserves
<1> QED BY <1>2, <1>3

\* However removals, roll-backs and installs interleave, and whatever is killed
\* or fails, a removal that was reported has left no files.
THEOREM RemovalsLeaveNoFiles == Spec => []RemovedLeavesNoFiles
<1>1. RemovalInv => RemovedLeavesNoFiles
  BY DEF RemovalInv
<1> QED BY <1>1, InitRemovalInv, NextRemovalInv, PTL DEF Spec

---------------------------------------------------------------------------
(* Commands run one at a time.  What has become of an instance decides     *)
(* whether it is listed and what is left of it on disk; the command that   *)
(* runs knows how far it has got.                                          *)

OneAtATime == \A p, q \in Procs : pc[p] # "idle" /\ pc[q] # "idle" => p = q

FatesAreFacts ==
  /\ Readable(json)
  /\ \A i \in Instances :
       /\ i \in Records <=> fate[i] \in {"installed", "condemned"}
       /\ fate[i] = "installed" => root[i] = Parts
       /\ fate[i] \in {"fresh", "removed", "abandoned", "withdrawn"} => root[i] = {}

\* How far an install has brought the installation root, and its instance.
InstallProgress(p) ==
  op[p] = "install" =>
    /\ fate[inst[p]] \in {"drawn", "verified"}
    /\ pc[p] = "make_root" => root[inst[p]] = {}
    /\ pc[p] = "venv" => root[inst[p]] = {"dir"}
    /\ pc[p] = "pip" => root[inst[p]] = {"dir", "python"}
    /\ pc[p] \in {"check_manifest", "copy_descriptor"} => root[inst[p]] = Parts \ {"descriptor"}
    /\ pc[p] = "verify" => root[inst[p]] = Parts
    /\ pc[p] \in InventoryPcs => fate[inst[p]] = "verified" /\ root[inst[p]] = Parts

RemoveProgress(p) ==
  op[p] = "remove" =>
    /\ fate[inst[p]] = "condemned"
    /\ pc[p] \in InventoryPcs => root[inst[p]] = {}

ExecuteProgress(p) ==
  /\ op[p] = "execute" => inst[p] \in Records
  /\ pc[p] = "ex_launch" => VerifyPasses(inst[p])

RewriteProgress(p) ==
  /\ pc[p] \in {"inv_open", "inv_write", "inv_replace"} => snap[p] = Rewritten(p)
  /\ pc[p] = "inv_write" => tmp = Empty
  /\ pc[p] = "inv_replace" => tmp = Holding(snap[p])
  /\ fd[p] = IF pc[p] = "inv_write" THEN "tmp" ELSE "none"

Progress(p) ==
  AtWork(p) /\ InstallProgress(p) /\ RemoveProgress(p) /\ ExecuteProgress(p) /\ RewriteProgress(p)

SerialInv ==
  /\ TypeOK
  /\ OneAtATime
  /\ FatesAreFacts
  /\ \A p \in Procs : Progress(p)

LEMMA InitSerialInv == Init => SerialInv
<1> SUFFICES ASSUME Init PROVE OneAtATime /\ FatesAreFacts /\ \A p \in Procs : Progress(p)
  BY InitTypeOK DEF SerialInv
<1>1. OneAtATime /\ FatesAreFacts
  BY DEF Init, OneAtATime, FatesAreFacts, Readable, Missing
<1>2. \A p \in Procs : Progress(p)
  BY DEF Init, Progress, AtWork, InstallProgress, RemoveProgress, ExecuteProgress, RewriteProgress,
         InstallPcs, RemovePcs, InventoryPcs, ExecutePcs
<1> QED BY <1>1, <1>2

\* Nobody but p is at work.
Alone(p) == \A q \in Procs \ {p} : pc[q] = "idle"

LEMMA RunsAlone == ASSUME SerialInv, NEW p \in Procs, pc[p] # "idle" PROVE Alone(p)
BY DEF SerialInv, OneAtATime, Alone

LEMMA StartsAlone == ASSUME Serialised, NEW p \in Procs, MayStart(p) PROVE Alone(p)
BY DEF MayStart, Alone

\* What is left to show of a step of p.
Solo(p) ==
  /\ \A q \in Procs \ {p} : pc'[q] = pc[q] /\ op'[q] = op[q] /\ fd'[q] = fd[q]
  /\ FatesAreFacts'
  /\ Progress(p)'

LEMMA IdleProgress ==
  ASSUME NEW p \in Procs, pc'[p] = "idle", op'[p] = "none", fd'[p] = "none"
  PROVE  Progress(p)'
BY DEF Progress, AtWork, InstallProgress, RemoveProgress, ExecuteProgress, RewriteProgress,
       InstallPcs, RemovePcs, InventoryPcs, ExecutePcs

LEMMA SoloPreserves ==
  ASSUME SerialInv, TypeOK', NEW p \in Procs, Alone(p), Solo(p) PROVE SerialInv'
<1>1. \A q \in Procs \ {p} : Progress(q)'
  <2> SUFFICES ASSUME NEW q \in Procs \ {p} PROVE Progress(q)'
    OBVIOUS
  <2>1. pc[q] = "idle" /\ op[q] = "none" /\ fd[q] = "none"
    BY DEF Alone, SerialInv, Progress, AtWork, RewriteProgress
  <2> QED BY <2>1, IdleProgress DEF Solo
<1>2. OneAtATime'
  BY DEF OneAtATime, Alone, Solo
<1> QED BY <1>1, <1>2 DEF SerialInv, Solo

\* A process that exits: only the fates are left to look at.
LEMMA ExitSolo ==
  ASSUME SerialInv, NEW p \in Procs, Exit(p), FatesAreFacts' PROVE Solo(p)
<1>1. pc'[p] = "idle" /\ op'[p] = "none" /\ fd'[p] = "none"
  BY DEF Exit, Leave, SerialInv, TypeOK
<1> QED BY <1>1, IdleProgress DEF Solo, Exit, Leave, SerialInv, TypeOK

\* A change of the parts and of the fate of one instance that leaves the
\* inventory as it is.
LEMMA FateStep ==
  ASSUME SerialInv, NEW i \in Instances, UNCHANGED json,
         \A j \in Instances \ {i} : root'[j] = root[j] /\ fate'[j] = fate[j],
         fate'[i] \in {"installed", "condemned"} <=> fate[i] \in {"installed", "condemned"},
         fate'[i] = "installed" => root'[i] = Parts,
         fate'[i] \in {"fresh", "removed", "abandoned", "withdrawn"} => root'[i] = {}
  PROVE  FatesAreFacts'
BY DEF SerialInv, FatesAreFacts, Readable

LEMMA CutShortSolo ==
  ASSUME SerialInv, NEW p \in Procs, pc[p] # "idle", CutShort(p), UNCHANGED <<json, root>>
  PROVE  Solo(p)
<1>1. inst[p] \in Instances
  BY RunningHasInstance DEF SerialInv
<1>2. FatesAreFacts'
  BY <1>1, FateStep DEF CutShort, Becomes, SerialInv, FatesAreFacts, TypeOK
<1> QED BY <1>2, ExitSolo DEF CutShort

LEMMA StartSolo ==
  ASSUME SerialInv, NEW p \in Procs, pc[p] = "idle",
         StartInstall(p) \/ StartRemove(p) \/ StartExecute(p)
  PROVE  Solo(p)
<1> USE DEF SerialInv, TypeOK, Begin
<1>1. fd[p] = "none"
  BY DEF Progress, RewriteProgress
<1>2. ASSUME NEW i \in Instances, fate[i] = "fresh", Begin(p, "install", i, "make_root"),
             fate' = [fate EXCEPT ![i] = "drawn"], UNCHANGED <<json, tmp, root>>
      PROVE  Solo(p)
  <2>1. FatesAreFacts'
    BY <1>2, FateStep DEF FatesAreFacts
  <2>2. Progress(p)'
    BY <1>1, <1>2 DEF FatesAreFacts, Progress, AtWork, InstallProgress, RemoveProgress,
       ExecuteProgress, RewriteProgress, InstallPcs, RemovePcs, InventoryPcs, ExecutePcs
  <2> QED BY <1>2, <2>1, <2>2 DEF Solo
<1>3. ASSUME NEW i \in Records, Begin(p, "remove", i, "rm_tree"),
             fate' = [fate EXCEPT ![i] = "condemned"], UNCHANGED <<json, tmp, root>>
      PROVE  Solo(p)
  <2>1. i \in Instances
    BY FileShape
  <2>2. FatesAreFacts'
    BY <1>3, <2>1, FateStep DEF FatesAreFacts
  <2>3. Progress(p)'
    BY <1>1, <1>3, <2>1 DEF Progress, AtWork, InstallProgress, RemoveProgress,
       ExecuteProgress, RewriteProgress, InstallPcs, RemovePcs, InventoryPcs, ExecutePcs
  <2> QED BY <1>3, <2>2, <2>3 DEF Solo
<1>4. ASSUME NEW i \in Records, Begin(p, "execute", i, "ex_verify"),
             UNCHANGED <<json, tmp, root, fate>>
      PROVE  Solo(p)
  <2>1. FatesAreFacts'
    BY <1>4 DEF FatesAreFacts, Readable
  <2>2. Progress(p)'
    BY <1>1, <1>4 DEF Progress, AtWork, InstallProgress, RemoveProgress,
       ExecuteProgress, RewriteProgress, InstallPcs, RemovePcs, InventoryPcs, ExecutePcs
  <2> QED BY <1>4, <2>1, <2>2 DEF Solo
<1> QED BY <1>2, <1>3, <1>4 DEF StartInstall, StartRemove, StartExecute

LEMMA InstallSolo ==
  ASSUME SerialInv, NEW p \in Procs, InstallStep(p) PROVE Solo(p)
<1>1. pc[p] \in {"make_root", "venv", "pip", "check_manifest", "copy_descriptor", "verify"}
  BY DEF InstallStep, MakeRoot, CreateVenv, PipInstall, AcceptManifest, BackendFails,
         CopyDescriptor, CopyOrVerifyFails, VerifyInstalled, BuildStage
<1> USE DEF SerialInv, TypeOK, Goto
<1>2. inst[p] \in Instances /\ op[p] = "install" /\ fd[p] = "none"
  BY <1>1, RunningHasInstance
     DEF Progress, AtWork, RewriteProgress, InstallPcs, RmtreePcs
<1>3. fate[inst[p]] \in {"drawn", "verified"}
  BY <1>2 DEF Progress, InstallProgress
<1> USE <1>2, <1>3
<1>4. ASSUME NEW from, NEW added, NEW to \in InstallPcs, BuildStage(p, from, added, to)
      PROVE  /\ Solo(p) <=> InstallProgress(p)'
             /\ pc[p] = from /\ pc'[p] = to /\ op'[p] = "install"
             /\ fate'[inst'[p]] \in {"drawn", "verified"}
             /\ root'[inst'[p]] = root[inst[p]] \cup added
  <2>1. op'[p] = "install" /\ pc'[p] = to /\ inst'[p] = inst[p] /\ fd'[p] = "none"
    BY <1>4 DEF BuildStage
  <2>2. \A q \in Procs \ {p} : pc'[q] = pc[q] /\ op'[q] = op[q] /\ fd'[q] = fd[q]
    BY <1>4 DEF BuildStage
  <2>3. FatesAreFacts'
    <3>1. \A j \in Instances \ {inst[p]} : root'[j] = root[j] /\ fate'[j] = fate[j]
      BY <1>4 DEF BuildStage
    <3> QED BY <1>4, <3>1, FateStep DEF BuildStage
  <2>4. AtWork(p)' /\ RemoveProgress(p)' /\ ExecuteProgress(p)' /\ RewriteProgress(p)'
    BY <2>1 DEF AtWork, RemoveProgress, ExecuteProgress, RewriteProgress,
       InstallPcs, RemovePcs, InventoryPcs, ExecutePcs
  <2>5. fate'[inst'[p]] \in {"drawn", "verified"} /\ root'[inst'[p]] = root[inst[p]] \cup added
    BY <1>4, <2>1 DEF BuildStage
  <2> QED BY <1>4, <2>1, <2>2, <2>3, <2>4, <2>5 DEF Solo, Progress, BuildStage
<1>5. InstallProgress(p)
  BY DEF Progress
<1> USE DEF InstallProgress, InstallPcs, InventoryPcs, Parts, Wheel
<1>6. CASE MakeRoot(p)
  BY <1>4, <1>5, <1>6 DEF MakeRoot
<1>7. CASE CreateVenv(p)
  BY <1>4, <1>5, <1>7 DEF CreateVenv
<1>8. CASE PipInstall(p)
  BY <1>4, <1>5, <1>8 DEF PipInstall
<1>9. CASE AcceptManifest(p) \/ CopyDescriptor(p)
  BY <1>4, <1>5, <1>9 DEF AcceptManifest, CopyDescriptor
<1> USE DEF Progress, AtWork, RemoveProgress, ExecuteProgress, RewriteProgress,
            RemovePcs, ExecutePcs, RmtreePcs
<1>10. CASE BackendFails(p) \/ CopyOrVerifyFails(p)
  BY <1>10 DEF BackendFails, CopyOrVerifyFails, Solo, FatesAreFacts, Readable
<1>11. CASE VerifyInstalled(p)
  <2>1. VerifyPasses(inst[p])
    BY <1>11 DEF VerifyInstalled, VerifyPasses
  <2>2. FatesAreFacts'
    BY <1>11, <2>1, FateStep DEF VerifyInstalled, Becomes
  <2> QED BY <1>11, <2>1, <2>2 DEF VerifyInstalled, Becomes, Solo
<1> QED BY <1>6, <1>7, <1>8, <1>9, <1>10, <1>11 DEF InstallStep

LEMMA RmtreeSolo ==
  ASSUME SerialInv, NEW p \in Procs, RmtreeStep(p) \/ RmtreeFails(p) PROVE Solo(p)
<1> USE DEF SerialInv, TypeOK
<1>1. pc[p] \in RmtreePcs
  BY DEF RmtreeStep, RmtreeDelete, RmtreeFinish, RmtreeRaces, RmtreeFails, RmtreePcs,
         BackendRemovePcs
<1>2. inst[p] \in Instances /\ fd[p] = "none"
  BY <1>1, RunningHasInstance DEF Progress, RewriteProgress, RmtreePcs
<1>3. IF pc[p] = "rm_tree" THEN op[p] = "remove" /\ fate[inst[p]] = "condemned"
                           ELSE op[p] = "install" /\ fate[inst[p]] \in {"drawn", "verified"}
  BY <1>1 DEF RmtreePcs, Progress, AtWork, InstallProgress, RemoveProgress, InstallPcs, RemovePcs
<1> USE <1>1, <1>2, <1>3
<1>4. CASE RmtreeDelete(p)
  <2>1. FatesAreFacts'
    BY <1>4, FateStep DEF RmtreeDelete
  <2>3. fd' = fd
    <3>1. \A q \in Procs : q # p => pc[q] \notin BackendRemovePcs
      BY RunsAlone DEF RmtreePcs, BackendRemovePcs, Alone
    <3> QED BY <1>4, <3>1 DEF RmtreeDelete
  <2>2. Progress(p)'
    BY <1>4, <2>3 DEF RmtreeDelete, Progress, AtWork, InstallProgress, RemoveProgress,
       ExecuteProgress, RewriteProgress, InstallPcs, RemovePcs, InventoryPcs, ExecutePcs, RmtreePcs,
       Rewritten
  <2> QED BY <1>4, <2>1, <2>2, <2>3 DEF RmtreeDelete, Solo
<1>5. CASE RmtreeFinish(p)
  <2>1. CASE pc[p] = "rm_tree"
    <3>1. FatesAreFacts'
      BY <1>5, <2>1, FateStep DEF RmtreeFinish, AfterRmtree
    <3> QED BY <1>5, <2>1, <3>1 DEF RmtreeFinish, AfterRmtree, Solo, Progress, AtWork,
               InstallProgress, RemoveProgress, ExecuteProgress, RewriteProgress, InstallPcs,
               RemovePcs, InventoryPcs, ExecutePcs
  <2>2. CASE pc[p] # "rm_tree"
    <3>1. FatesAreFacts'
      BY <1>5, <2>2, FateStep DEF RmtreeFinish, AfterRmtree, Becomes
    <3> QED BY <1>5, <2>2, <3>1, ExitSolo DEF RmtreeFinish, AfterRmtree
  <2> QED BY <2>1, <2>2
<1>6. CASE RmtreeRaces(p)
  BY <1>6 DEF RmtreeRaces
<1>7. CASE RmtreeFails(p)
  BY <1>7, CutShortSolo DEF RmtreeFails, RmtreePcs
<1> QED BY <1>4, <1>5, <1>6, <1>7 DEF RmtreeStep

\* What a process in the middle of an inventory update knows.
LEMMA AtInventory ==
  ASSUME SerialInv, NEW p \in Procs, pc[p] \in InventoryPcs
  PROVE  /\ inst[p] \in Instances
         /\ \/ /\ op[p] = "install" /\ fate[inst[p]] = "verified" /\ root[inst[p]] = Parts
            \/ /\ op[p] = "remove" /\ fate[inst[p]] = "condemned" /\ root[inst[p]] = {}
BY RunningHasInstance
   DEF SerialInv, TypeOK, Progress, AtWork, InstallProgress, RemoveProgress, InventoryPcs

\* The inventory that is published lists what the fates say.
LEMMA PublicationKeepsFates ==
  ASSUME SerialInv, NEW p \in Procs, ReplaceInventory(p) PROVE FatesAreFacts'
<1>1. pc[p] = "inv_replace" /\ pc[p] \in InventoryPcs
  BY DEF ReplaceInventory, InventoryPcs
<1>2. json' = Holding(Rewritten(p))
  BY <1>1 DEF ReplaceInventory, SerialInv, Progress, RewriteProgress
<1>3. json'.ids = Rewritten(p) /\ json'.st = "ok"
  BY <1>2 DEF Holding
<1>4. fate \in [Instances -> Fates] /\ root' = root
  BY DEF ReplaceInventory, SerialInv, TypeOK
<1>5. CASE op[p] = "install"
  <2>1. fate' = [fate EXCEPT ![inst[p]] = "installed"] /\ json'.ids = json.ids \cup {inst[p]}
    BY <1>3, <1>5 DEF ReplaceInventory, Becomes, Rewritten
  <2>2. inst[p] \in Instances /\ root[inst[p]] = Parts
    BY <1>1, <1>5, AtInventory
  <2> QED BY <1>3, <1>4, <2>1, <2>2 DEF SerialInv, FatesAreFacts, Readable
<1>6. CASE op[p] = "remove"
  <2>1. fate' = [fate EXCEPT ![inst[p]] = "removed"] /\ json'.ids = json.ids \ {inst[p]}
    BY <1>3, <1>6 DEF ReplaceInventory, Becomes, Rewritten
  <2>2. inst[p] \in Instances /\ root[inst[p]] = {}
    BY <1>1, <1>6, AtInventory
  <2> QED BY <1>3, <1>4, <2>1, <2>2 DEF SerialInv, FatesAreFacts, Readable
<1> QED BY <1>1, <1>5, <1>6, AtInventory

LEMMA InventorySolo ==
  ASSUME SerialInv, NEW p \in Procs, InventoryStep(p) \/ WriteOrReplaceFails(p) \/ UnlinkFails(p)
  PROVE  Solo(p)
<1>1. pc[p] \in InventoryPcs
  BY DEF InventoryStep, InventoryRead, OpenTmp, WriteTmp, ReplaceInventory, ReplaceFindsNothing,
         UnlinkTmp, WriteOrReplaceFails, UnlinkFails, InventoryPcs
<1>2. \A q \in Procs \ {p} : pc[q] = "idle" /\ fd[q] = "none"
  BY <1>1, RunsAlone DEF Alone, SerialInv, Progress, RewriteProgress, InventoryPcs
<1>3. TypeOK /\ FatesAreFacts /\ Progress(p)
  BY DEF SerialInv
<1>4. UNCHANGED <<json, root, fate>> => FatesAreFacts'
  BY <1>3 DEF FatesAreFacts, Readable
<1>5. inst[p] \in Instances /\ op[p] \in {"install", "remove"}
  BY <1>1, AtInventory
<1> USE <1>1, <1>2, <1>3, <1>4, <1>5
<1> USE DEF InventoryPcs, TypeOK
<1>6. CASE InventoryRead(p)
  <2>1. CASE Readable(json) /\ Rewritten(p) # Records
    BY <1>6, <2>1 DEF InventoryRead, Rewritten, Solo, Progress, AtWork, InstallProgress,
       RemoveProgress, ExecuteProgress, RewriteProgress, InstallPcs, RemovePcs, ExecutePcs
  <2>2. CASE ~(Readable(json) /\ Rewritten(p) # Records) /\ op[p] = "install"
    BY <1>6, <2>2 DEF InventoryRead, InventoryError, Goto, Solo, Progress, AtWork, InstallProgress,
       RemoveProgress, ExecuteProgress, RewriteProgress, InstallPcs, RemovePcs, ExecutePcs
  <2>3. CASE ~(Readable(json) /\ Rewritten(p) # Records) /\ op[p] # "install"
    BY <1>6, <2>3, ExitSolo DEF InventoryRead, InventoryError
  <2> QED BY <2>1, <2>2, <2>3
<1>7. CASE OpenTmp(p)
  BY <1>7 DEF OpenTmp, Rewritten, Solo, Progress, AtWork, InstallProgress,
     RemoveProgress, ExecuteProgress, RewriteProgress, InstallPcs, RemovePcs, ExecutePcs
<1>8. CASE WriteTmp(p)
  <2>1. fd[p] = "tmp" /\ tmp = Empty /\ snap[p] = Rewritten(p)
    BY <1>8 DEF WriteTmp, Progress, RewriteProgress
  <2>2. tmp' = Holding(snap[p]) /\ json' = json
    BY <1>8, <2>1 DEF WriteTmp, Overwritten, Empty
  <2> QED BY <1>8, <2>1, <2>2 DEF WriteTmp, Rewritten, Solo, Progress, AtWork, InstallProgress,
             RemoveProgress, ExecuteProgress, RewriteProgress, InstallPcs, RemovePcs, ExecutePcs
<1>9. CASE ReplaceInventory(p)
  <2>1. pc'[p] = "idle" /\ op'[p] = "none" /\ fd'[p] = "none"
    BY <1>9 DEF ReplaceInventory, Leave
  <2>2. \A q \in Procs \ {p} : pc'[q] = pc[q] /\ op'[q] = op[q] /\ fd'[q] = fd[q]
    BY <1>9 DEF ReplaceInventory, Leave, Renamed
  <2> QED BY <1>9, <2>1, <2>2, IdleProgress, PublicationKeepsFates DEF Solo
<1>10. CASE ReplaceFindsNothing(p)
  BY <1>10 DEF ReplaceFindsNothing, Progress, RewriteProgress, Holding, Missing
<1>11. CASE UnlinkTmp(p)
  <2>1. \A q \in Procs \ {p} : pc'[q] = pc[q] /\ op'[q] = op[q] /\ fd'[q] = fd[q]
    BY <1>11 DEF UnlinkTmp, AfterUnlink, Leave
  <2>2. fd'[p] = "none"
    BY <1>11 DEF UnlinkTmp, Progress, RewriteProgress
  <2>3. CASE op[p] = "install"
    <3>1. Progress(p)'
      BY <1>11, <2>2, <2>3 DEF UnlinkTmp, AfterUnlink, Progress, AtWork, InstallProgress,
         RemoveProgress, ExecuteProgress, RewriteProgress, InstallPcs, RemovePcs, ExecutePcs
    <3> QED BY <1>11, <2>1, <3>1 DEF UnlinkTmp, Solo
  <2>4. CASE op[p] = "remove"
    <3>1. pc'[p] = "idle" /\ op'[p] = "none"
      BY <1>11, <2>4 DEF UnlinkTmp, AfterUnlink, Leave
    <3> QED BY <1>11, <2>1, <2>2, <3>1, IdleProgress DEF UnlinkTmp, Solo
  <2> QED BY <2>3, <2>4
<1>12. CASE WriteOrReplaceFails(p)
  BY <1>12 DEF WriteOrReplaceFails, Solo, Progress, AtWork, InstallProgress,
     RemoveProgress, ExecuteProgress, RewriteProgress, InstallPcs, RemovePcs, ExecutePcs
<1>13. CASE UnlinkFails(p)
  <2>1. fd'[p] = "none" /\ UNCHANGED <<fd, json, tmp, root, fate>>
    BY <1>13 DEF UnlinkFails, Progress, RewriteProgress
  <2>2. CASE op[p] = "install"
    BY <1>13, <2>1, <2>2 DEF UnlinkFails, AfterUnlink, Solo, Progress, AtWork, InstallProgress,
       RemoveProgress, ExecuteProgress, RewriteProgress, InstallPcs, RemovePcs, ExecutePcs
  <2>3. CASE op[p] = "remove"
    BY <1>13, <2>1, <2>3, IdleProgress DEF UnlinkFails, AfterUnlink, Leave, Solo
  <2> QED BY <2>2, <2>3
<1> QED BY <1>6, <1>7, <1>8, <1>9, <1>10, <1>11, <1>12, <1>13 DEF InventoryStep

LEMMA OtherSolo ==
  ASSUME SerialInv, NEW p \in Procs,
         CheckRemoved(p) \/ VerifyForExecution(p) \/ Launch(p) \/ Kill(p)
  PROVE  Solo(p)
<1>1. UNCHANGED <<json, root, fate>> => FatesAreFacts'
  BY DEF SerialInv, FatesAreFacts, Readable
<1>2. Exit(p) /\ UNCHANGED <<json, root, fate>> => Solo(p)
  BY <1>1, ExitSolo
<1>3. CASE CheckRemoved(p)
  <2>1. CASE root[inst[p]] = {}
    BY <1>1, <1>3, <2>1 DEF CheckRemoved, Goto, Solo, SerialInv, TypeOK, Progress, AtWork,
       InstallProgress, RemoveProgress, ExecuteProgress, RewriteProgress, InstallPcs, RemovePcs,
       InventoryPcs, ExecutePcs
  <2> QED BY <1>2, <1>3, <2>1 DEF CheckRemoved
<1>4. CASE VerifyForExecution(p)
  <2>1. CASE VerifyPasses(inst[p])
    BY <1>1, <1>4, <2>1 DEF VerifyForExecution, VerifyPasses, Goto, Solo, SerialInv, TypeOK,
       Progress, AtWork, InstallProgress, RemoveProgress, ExecuteProgress, RewriteProgress,
       InstallPcs, RemovePcs, InventoryPcs, ExecutePcs
  <2> QED BY <1>2, <1>4, <2>1 DEF VerifyForExecution
<1>5. CASE Launch(p)
  BY <1>2, <1>5 DEF Launch
<1>6. CASE Kill(p)
  BY <1>6, CutShortSolo DEF Kill
<1> QED BY <1>3, <1>4, <1>5, <1>6

LEMMA NextSerialInv == ASSUME Serialised, SerialInv, [Next]_vars PROVE SerialInv'
<1>1. TypeOK'
  BY NextTypeOK DEF SerialInv
<1>2. CASE UNCHANGED vars
  BY <1>2 DEF vars, SerialInv, TypeOK, OneAtATime, FatesAreFacts, Readable, VerifyPasses, Rewritten,
     Progress, AtWork, InstallProgress, RemoveProgress, ExecuteProgress, RewriteProgress
<1>3. ASSUME NEW p \in Procs, StartInstall(p) \/ StartRemove(p) \/ StartExecute(p)
      PROVE  SerialInv'
  <2>1. MayStart(p)
    BY <1>3 DEF StartInstall, StartRemove, StartExecute
  <2> QED BY <1>1, <1>3, <2>1, StartsAlone, StartSolo, SoloPreserves DEF MayStart
<1>4. ASSUME NEW p \in Procs,
             Step(p) \/ RmtreeFails(p) \/ WriteOrReplaceFails(p) \/ UnlinkFails(p) \/ Kill(p)
      PROVE  SerialInv'
  <2>1. Solo(p)
    BY <1>4, InstallSolo, RmtreeSolo, InventorySolo, OtherSolo DEF Step
  <2>2. pc[p] # "idle"
    BY <1>4 DEF Step, InstallStep, MakeRoot, CreateVenv, PipInstall, AcceptManifest, BackendFails,
       CopyDescriptor, CopyOrVerifyFails, VerifyInstalled, BuildStage, RmtreeStep, RmtreeDelete,
       RmtreeFinish, RmtreeRaces, RmtreeFails, RmtreePcs, BackendRemovePcs, InventoryStep,
       InventoryRead, OpenTmp, WriteTmp, ReplaceInventory, ReplaceFindsNothing,
       UnlinkTmp, WriteOrReplaceFails, UnlinkFails, CheckRemoved, VerifyForExecution, Launch, Kill
  <2> QED BY <1>1, <2>1, <2>2, RunsAlone, SoloPreserves
<1> QED BY <1>2, <1>3, <1>4 DEF Next

\* The inductive invariant of commands run one at a time.
THEOREM SerialInvariant == ASSUME Serialised PROVE Spec => []SerialInv
<1>1. SerialInv /\ [Next]_vars => SerialInv'
  BY NextSerialInv
<1> QED BY <1>1, InitSerialInv, PTL DEF Spec

\* No killed or failed command leaves an inventory that cannot be read.
THEOREM InventoryIsReadable == ASSUME Serialised PROVE Spec => []InventoryReadable
<1>1. SerialInv => InventoryReadable
  BY DEF SerialInv, FatesAreFacts, InventoryReadable
<1> QED BY <1>1, SerialInvariant, PTL

\* Every record is of a complete installation, or of one being removed.
THEOREM RecordsAreMaterialized == ASSUME Serialised PROVE Spec => []RecordsMaterialized
<1>1. SerialInv => RecordsMaterialized
  BY FileShape DEF SerialInv, TypeOK, FatesAreFacts, RecordsMaterialized
<1> QED BY <1>1, SerialInvariant, PTL

\* No command loses the record of an instance that was installed, its own
\* removal excepted.
THEOREM OwnershipIsKept == ASSUME Serialised PROVE Spec => []OwnershipKept
<1>1. SerialInv => OwnershipKept
  BY DEF SerialInv, FatesAreFacts, OwnershipKept
<1> QED BY <1>1, SerialInvariant, PTL

\* What was reported removed or rolled back has left nothing.
THEOREM GoneStaysGone == ASSUME Serialised PROVE Spec => []GoneIsGone
<1>1. SerialInv => GoneIsGone
  BY DEF SerialInv, FatesAreFacts, GoneIsGone
<1> QED BY <1>1, SerialInvariant, PTL

\* execute launches complete installations, or what an interrupted removal
\* has left of them above the parts it verifies.
THEOREM LaunchesAreWhole == ASSUME Serialised PROVE Spec => []LaunchesWhole
<1>1. SerialInv => LaunchesWhole
  <2> SUFFICES ASSUME SerialInv, NEW p \in Procs, pc[p] = "ex_launch"
               PROVE  /\ inst[p] \in Records /\ VerifyPasses(inst[p])
                      /\ root[inst[p]] # Parts => fate[inst[p]] = "condemned"
    BY DEF LaunchesWhole
  <2>1. inst[p] \in Records /\ VerifyPasses(inst[p])
    BY DEF SerialInv, Progress, AtWork, ExecuteProgress, ExecutePcs
  <2> QED BY <2>1, FileShape DEF SerialInv, TypeOK, FatesAreFacts
<1> QED BY <1>1, SerialInvariant, PTL

\* A record is dropped only after the files of its instance are gone.
THEOREM RetiresDismantled == ASSUME Serialised PROVE Spec => RetireOnlyDismantled
<1>1. SerialInv /\ [Next]_vars => [\A i \in Records \ Records' : root[i] = {}]_vars
  <2> SUFFICES ASSUME SerialInv, Next, NEW i \in json.ids \ json'.ids PROVE root[i] = {}
    OBVIOUS
  <2>1. PICK p \in Procs : WriteTmp(p) \/ ReplaceInventory(p)
    BY DEF Next, Step, StartInstall, StartRemove, StartExecute, InstallStep, MakeRoot, CreateVenv,
       PipInstall, AcceptManifest, BackendFails, CopyDescriptor, CopyOrVerifyFails, VerifyInstalled,
       BuildStage, RmtreeStep, RmtreeDelete, RmtreeFinish, RmtreeRaces, RmtreeFails,
       InventoryStep, InventoryRead, OpenTmp, ReplaceFindsNothing, UnlinkTmp,
       WriteOrReplaceFails, UnlinkFails,
       CheckRemoved, VerifyForExecution, Launch, Kill
  <2>2. pc[p] \in InventoryPcs /\ Progress(p)
    BY <2>1 DEF WriteTmp, ReplaceInventory, InventoryPcs, SerialInv
  <2>3. ReplaceInventory(p)
    BY <2>1, <2>2 DEF WriteTmp, Progress, RewriteProgress
  <2>4. json'.ids = Rewritten(p)
    BY <2>2, <2>3 DEF ReplaceInventory, Progress, RewriteProgress, Holding
  <2>5. op[p] # "install" /\ i = inst[p]
    BY <2>4 DEF Rewritten
  <2> QED BY <2>2, <2>5, AtInventory
<1> QED BY <1>1, SerialInvariant, PTL DEF Spec, RetireOnlyDismantled

---------------------------------------------------------------------------
(* Refinement of AdapterStore.                                             *)

Usable == {i \in Records : root[i] = Parts}
Past == {i \in Instances : fate[i] \in {"installed", "condemned", "removed"}}

\* A step that keeps the inventory, and the roots and fates of what is listed
\* or was, is no step of the store.
LEMMA NoStoreStep ==
  ASSUME UNCHANGED json, \A i \in Records : root'[i] = root[i], Past' = Past
  PROVE  UNCHANGED Store!vars
BY DEF Store!vars, Past

\* The instance of a command is its own business until it is listed.
LEMMA PrivateStep ==
  ASSUME SerialInv, NEW i \in Instances, i \notin Records, UNCHANGED json,
         \A j \in Instances \ {i} : root'[j] = root[j] /\ fate'[j] = fate[j],
         fate'[i] \in {"installed", "condemned", "removed"}
           <=> fate[i] \in {"installed", "condemned", "removed"}
  PROVE  UNCHANGED Store!vars
<1>1. Past' = Past
  BY DEF Past
<1>2. \A j \in Records : root'[j] = root[j]
  BY FileShape DEF SerialInv, TypeOK
<1> QED BY <1>1, <1>2, NoStoreStep

LEMMA SilentStep ==
  ASSUME UNCHANGED <<json, root, fate>> PROVE UNCHANGED Store!vars
BY NoStoreStep DEF Past

\* An instance that is being installed is not listed yet.
LEMMA Unlisted ==
  ASSUME SerialInv, NEW i \in Instances, fate[i] \in {"fresh", "drawn", "verified"}
  PROVE  i \notin Records
BY DEF SerialInv, FatesAreFacts

LEMMA StartIsSilent ==
  ASSUME SerialInv, NEW p \in Procs, StartInstall(p) \/ StartRemove(p) \/ StartExecute(p)
  PROVE  UNCHANGED Store!vars
<1> USE DEF SerialInv, TypeOK
<1>1. CASE StartInstall(p)
  BY <1>1, Unlisted, PrivateStep DEF StartInstall
<1>2. CASE StartRemove(p)
  <2>1. PICK i \in Records : fate' = [fate EXCEPT ![i] = "condemned"]
    BY <1>2 DEF StartRemove
  <2>2. fate[i] \in {"installed", "condemned"} /\ i \in Instances
    BY FileShape DEF FatesAreFacts
  <2>3. Past' = Past
    BY <2>1, <2>2 DEF Past
  <2> QED BY <1>2, <2>3, NoStoreStep DEF StartRemove
<1>3. CASE StartExecute(p)
  BY <1>3, SilentStep DEF StartExecute
<1> QED BY <1>1, <1>2, <1>3

LEMMA InstallIsSilent ==
  ASSUME SerialInv, NEW p \in Procs, InstallStep(p) PROVE UNCHANGED Store!vars
<1>1. pc[p] \in {"make_root", "venv", "pip", "check_manifest", "copy_descriptor", "verify"}
  BY DEF InstallStep, MakeRoot, CreateVenv, PipInstall, AcceptManifest, BackendFails,
         CopyDescriptor, CopyOrVerifyFails, VerifyInstalled, BuildStage
<1> USE DEF SerialInv, TypeOK
<1>2. inst[p] \in Instances /\ fate[inst[p]] \in {"drawn", "verified"}
  BY <1>1, RunningHasInstance DEF Progress, AtWork, InstallProgress, InstallPcs
<1>3. inst[p] \notin Records
  BY <1>2, Unlisted
<1>4. ASSUME NEW from, NEW added, NEW to, BuildStage(p, from, added, to)
      PROVE  UNCHANGED Store!vars
  BY <1>2, <1>3, <1>4, PrivateStep DEF BuildStage
<1>5. CASE VerifyInstalled(p)
  BY <1>2, <1>3, <1>5, PrivateStep DEF VerifyInstalled, Becomes
<1>6. CASE BackendFails(p) \/ CopyOrVerifyFails(p)
  BY <1>6, SilentStep DEF BackendFails, CopyOrVerifyFails
<1> QED
  BY <1>4, <1>5, <1>6
     DEF InstallStep, MakeRoot, CreateVenv, PipInstall, AcceptManifest, CopyDescriptor

LEMMA CutShortIsSilent ==
  ASSUME SerialInv, NEW p \in Procs, pc[p] # "idle", CutShort(p), UNCHANGED <<json, root>>
  PROVE  UNCHANGED Store!vars
<1>1. inst[p] \in Instances
  BY RunningHasInstance DEF SerialInv
<1>2. CASE fate[inst[p]] = "drawn"
  BY <1>1, <1>2, Unlisted, PrivateStep DEF CutShort, Becomes, SerialInv, TypeOK
<1>3. CASE fate[inst[p]] # "drawn"
  BY <1>3, SilentStep DEF CutShort
<1> QED BY <1>2, <1>3

\* The first part that a removal deletes begins it in the store, too.
LEMMA RmtreeInStore ==
  ASSUME SerialInv, NEW p \in Procs, RmtreeStep(p) \/ RmtreeFails(p)
  PROVE  Store!Next \/ UNCHANGED Store!vars
<1> USE DEF SerialInv, TypeOK
<1>1. pc[p] \in RmtreePcs
  BY DEF RmtreeStep, RmtreeDelete, RmtreeFinish, RmtreeRaces, RmtreeFails, RmtreePcs,
         BackendRemovePcs
<1>2. inst[p] \in Instances
  BY <1>1, RunningHasInstance DEF RmtreePcs
<1>3. CASE RmtreeFails(p)
  BY <1>1, <1>3, CutShortIsSilent DEF RmtreeFails, RmtreePcs
<1>4. CASE RmtreeRaces(p)
  BY <1>1, <1>4 DEF RmtreeRaces, RmtreePcs, Progress, RewriteProgress
<1>5. CASE pc[p] # "rm_tree" /\ (RmtreeDelete(p) \/ RmtreeFinish(p))
  <2>1. fate[inst[p]] \in {"drawn", "verified"}
    BY <1>1, <1>5 DEF RmtreePcs, Progress, AtWork, InstallProgress, InstallPcs
  <2> QED BY <1>2, <1>5, <2>1, Unlisted, PrivateStep
             DEF RmtreeDelete, RmtreeFinish, AfterRmtree, Becomes
<1>6. CASE pc[p] = "rm_tree" /\ RmtreeFinish(p)
  <2>1. root' = [root EXCEPT ![inst[p]] = {}] /\ UNCHANGED <<json, fate>>
    BY <1>6 DEF RmtreeFinish, AfterRmtree
  <2>2. root[inst[p]] # Parts /\ {} # Parts
    BY <1>6, SMTT(30) DEF RmtreeFinish, Parts
  <2>3. Usable' = Usable /\ Past' = Past
    BY <1>2, <2>1, <2>2, FileShape DEF Usable, Past
  <2> QED BY <2>1, <2>3 DEF Store!vars, Usable, Past
<1>7. CASE pc[p] = "rm_tree" /\ RmtreeDelete(p)
  <2>1. PICK x \in root[inst[p]] : root' = [root EXCEPT ![inst[p]] = @ \ {x}]
    BY <1>7 DEF RmtreeDelete
  <2>2. UNCHANGED <<json, fate>> /\ Past' = Past
    BY <1>7 DEF RmtreeDelete, Past
  <2>3. inst[p] \in Records
    BY <1>2, <1>7 DEF Progress, AtWork, RemoveProgress, RemovePcs, FatesAreFacts
  <2>4. root'[inst[p]] # Parts
    BY <1>2, <2>1
  <2>5. Usable' = Usable \ {inst[p]}
    BY <1>2, <2>1, <2>2, <2>4, FileShape DEF Usable
  <2>6. CASE root[inst[p]] = Parts
    BY <1>2, <2>2, <2>3, <2>5, <2>6 DEF Store!Next, Store!BeginRemove, Usable, Past
  <2>7. CASE root[inst[p]] # Parts
    BY <2>2, <2>5, <2>7 DEF Store!vars, Usable, Past
  <2> QED BY <2>6, <2>7
<1> QED BY <1>3, <1>4, <1>5, <1>6, <1>7 DEF RmtreeStep

\* The rename is the step in which an install or a removal takes effect.
LEMMA InventoryInStore ==
  ASSUME SerialInv, NEW p \in Procs, InventoryStep(p) \/ WriteOrReplaceFails(p) \/ UnlinkFails(p)
  PROVE  Store!Next \/ UNCHANGED Store!vars
<1>1. pc[p] \in InventoryPcs
  BY DEF InventoryStep, InventoryRead, OpenTmp, WriteTmp, ReplaceInventory, ReplaceFindsNothing,
         UnlinkTmp, WriteOrReplaceFails, UnlinkFails, InventoryPcs
<1>2. CASE ReplaceInventory(p)
  <2>1. json'.ids = Rewritten(p) /\ root' = root
    BY <1>1, <1>2 DEF ReplaceInventory, SerialInv, Progress, RewriteProgress, Holding
  <2>2. inst[p] \in Instances /\ fate \in [Instances -> Fates]
    BY <1>1, AtInventory DEF SerialInv, TypeOK
  <2>3. CASE op[p] = "install"
    <3>1. fate[inst[p]] = "verified" /\ root[inst[p]] = Parts
      BY <1>1, <2>3, AtInventory
    <3>2. Usable' = Usable \cup {inst[p]}
      BY <2>1, <2>3, <3>1 DEF Usable, Rewritten
    <3>3. Past' = Past \cup {inst[p]} /\ inst[p] \notin Past
      BY <1>2, <2>2, <2>3, <3>1 DEF ReplaceInventory, Becomes, Past
    <3>4. json'.ids = json.ids \cup {inst[p]}
      BY <2>1, <2>3 DEF Rewritten
    <3> QED BY <2>2, <3>2, <3>3, <3>4 DEF Store!Next, Store!Install, Usable, Past
  <2>4. CASE op[p] = "remove"
    <3>1. fate[inst[p]] = "condemned" /\ root[inst[p]] = {} /\ {} # Parts
      BY <1>1, <2>4, AtInventory DEF Parts
    <3>2. Usable' = Usable
      BY <2>1, <2>4, <3>1 DEF Usable, Rewritten
    <3>3. Past' = Past
      BY <1>2, <2>2, <2>4, <3>1 DEF ReplaceInventory, Becomes, Past
    <3>4. json'.ids = json.ids \ {inst[p]} /\ inst[p] \in json.ids \ Usable
      BY <2>1, <2>2, <2>4, <3>1 DEF Rewritten, SerialInv, FatesAreFacts, Usable
    <3> QED BY <2>2, <3>2, <3>3, <3>4 DEF Store!Next, Store!Remove, Usable, Past
  <2> QED BY <1>1, <2>3, <2>4, AtInventory
<1>3. CASE WriteTmp(p)
  BY <1>3, SilentStep DEF WriteTmp, SerialInv, Progress, RewriteProgress
<1>4. CASE InventoryRead(p)
  BY <1>4, SilentStep DEF InventoryRead
<1>5. CASE \/ OpenTmp(p) \/ ReplaceFindsNothing(p) \/ UnlinkTmp(p)
           \/ WriteOrReplaceFails(p) \/ UnlinkFails(p)
  BY <1>5, SilentStep DEF OpenTmp, ReplaceFindsNothing, UnlinkTmp, WriteOrReplaceFails, UnlinkFails
<1> QED BY <1>2, <1>3, <1>4, <1>5 DEF InventoryStep

LEMMA OtherIsSilent ==
  ASSUME SerialInv, NEW p \in Procs,
         CheckRemoved(p) \/ VerifyForExecution(p) \/ Launch(p) \/ Kill(p)
  PROVE  UNCHANGED Store!vars
<1>1. CASE Kill(p)
  BY <1>1, CutShortIsSilent DEF Kill
<1> QED BY <1>1, SilentStep DEF CheckRemoved, VerifyForExecution, Launch

\* With commands run one at a time, what the operator sees of the inventory
\* and the installations is the atomic store.
THEOREM StoreIsAtomic == ASSUME Serialised PROVE Spec => AtomicStore
<1>1. Init => Store!Init
  BY DEF Init, Store!Init, Missing
<1>2. SerialInv /\ [Next]_vars => [Store!Next]_(Store!vars)
  <2>1. CASE UNCHANGED vars
    BY <2>1, SilentStep DEF vars
  <2> QED
    BY <2>1, StartIsSilent, InstallIsSilent, RmtreeInStore, InventoryInStore, OtherIsSilent
       DEF Next, Step
<1> QED BY <1>1, <1>2, SerialInvariant, PTL DEF Spec, AtomicStore, Store!Spec

=============================================================================
