------------------------- MODULE InputSetPublication -------------------------
(***************************************************************************)
(* `orbitfabric export integration-input-set`: one process loads a Mission *)
(* Model, stages one file per surface in a private directory, then moves   *)
(* the surfaces and last the manifest into the output directory.  Each     *)
(* step here is one visible effect; the mission workspace may be edited,   *)
(* and the process killed or failed, between any two of them.              *)
(***************************************************************************)
EXTENDS Naturals, Sequences

CONSTANTS
  Writers,     \* slots for concurrently running exports to one directory
  Surfaces,    \* the surface roles in the order they are staged and published
  Snapshot,    \* the role that is produced even when the model does not load
  Versions,    \* the states of the mission workspace
  Unloadable,  \* those whose Mission Model is rejected by the loader
  Absent,      \* no file; as a manifest entry, an unavailable surface
  NoManifest,  \* there is no manifest
  Serialised,  \* TRUE: one export at a time
  MaxFaults    \* bound on kills and errors in a behaviour

Roles == {Surfaces[k] : k \in DOMAIN Surfaces}
Contents == Versions \cup {Absent}

ASSUME PublicationAssumption ==
  /\ Surfaces \in Seq(Roles)
  /\ \A j, k \in DOMAIN Surfaces : Surfaces[j] = Surfaces[k] => j = k
  /\ Unloadable \subseteq Versions
  /\ Absent \notin Versions
  /\ NoManifest \notin [Roles -> Contents]
  /\ Serialised \in BOOLEAN
  /\ MaxFaults \in Nat

VARIABLES
  mission,   \* the mission workspace
  pc,        \* where each export is
  loaded,    \* the version its model was loaded from
  staged,    \* its surface records: what each staged file holds
  next,      \* the surface it stages or publishes next
  files,     \* the surfaces in the output directory
  manifest,  \* the manifest there: the record of each surface
  faults     \* history: number of kills and errors so far

vars == <<mission, pc, loaded, staged, next, files, manifest, faults>>

NothingStaged == [r \in Roles |-> Absent]

MayStart(w) ==
  /\ pc[w] = "idle"
  /\ Serialised => \A v \in Writers : pc[v] = "idle"

Goto(w, where) == pc' = [pc EXCEPT ![w] = where]

---------------------------------------------------------------------------
\* Deviation: the manifest of an earlier export stays until it is replaced.
BeginWithoutInvalidation(w) ==
  /\ MayStart(w)
  /\ Goto(w, "load")
  /\ UNCHANGED <<mission, loaded, staged, next, files, manifest, faults>>

\* The published manifest is unlinked before anything else.
Begin(w) ==
  /\ MayStart(w)
  /\ manifest' = NoManifest
  /\ Goto(w, "load")
  /\ UNCHANGED <<mission, loaded, staged, next, files, faults>>

\* Deviation: the surfaces are counted from 0.
LoadModelFromZero(w) ==
  /\ pc[w] = "load"
  /\ loaded' = [loaded EXCEPT ![w] = mission]
  /\ staged' = [staged EXCEPT ![w] = NothingStaged]
  /\ next' = [next EXCEPT ![w] = 0]
  /\ Goto(w, "stage")
  /\ UNCHANGED <<mission, files, manifest, faults>>

LoadModel(w) ==
  /\ pc[w] = "load"
  /\ loaded' = [loaded EXCEPT ![w] = mission]
  /\ staged' = [staged EXCEPT ![w] = NothingStaged]
  /\ next' = [next EXCEPT ![w] = 1]
  /\ Goto(w, "stage")
  /\ UNCHANGED <<mission, files, manifest, faults>>

\* Deviation: each producer loads the model again.
ProducedFromDisk(w, role) == {mission, Absent}

\* _produce_surface and the failure set: a producer that raises makes its
\* surface unavailable, and after a load failure only the snapshot is tried.
Produced(w, role) ==
  IF loaded[w] \in Unloadable /\ role # Snapshot THEN {Absent} ELSE {loaded[w], Absent}

StageSurface(w) ==
  /\ pc[w] = "stage"
  /\ next[w] \in DOMAIN Surfaces
  /\ \E content \in Produced(w, Surfaces[next[w]]) :
       staged' = [staged EXCEPT ![w][Surfaces[next[w]]] = content]
  /\ next' = [next EXCEPT ![w] = @ + 1]
  /\ UNCHANGED <<mission, pc, loaded, files, manifest, faults>>

\* Deviation: a set with an unavailable surface is not published.
StageManifestIfComplete(w) ==
  /\ pc[w] = "stage"
  /\ next[w] \notin DOMAIN Surfaces
  /\ IF Absent \in {staged[w][r] : r \in Roles}
       THEN Goto(w, "idle") /\ UNCHANGED next
       ELSE Goto(w, "publish") /\ next' = [next EXCEPT ![w] = 1]
  /\ UNCHANGED <<mission, loaded, staged, files, manifest, faults>>

\* The manifest is staged beside the surfaces it describes.
StageManifest(w) ==
  /\ pc[w] = "stage"
  /\ next[w] \notin DOMAIN Surfaces
  /\ next' = [next EXCEPT ![w] = 1]
  /\ Goto(w, "publish")
  /\ UNCHANGED <<mission, loaded, staged, files, manifest, faults>>

\* Deviation: a surface that is unavailable now keeps its earlier file.
PublishAvailable(w) ==
  /\ pc[w] = "publish"
  /\ next[w] \in DOMAIN Surfaces
  /\ LET role == Surfaces[next[w]]
     IN  files' = [files EXCEPT ![role] =
                     IF staged[w][role] = Absent THEN @ ELSE staged[w][role]]
  /\ next' = [next EXCEPT ![w] = @ + 1]
  /\ UNCHANGED <<mission, pc, loaded, staged, manifest, faults>>

\* os.replace of an available surface, unlink of an unavailable one.
PublishSurface(w) ==
  /\ pc[w] = "publish"
  /\ next[w] \in DOMAIN Surfaces
  /\ files' = [files EXCEPT ![Surfaces[next[w]]] = staged[w][Surfaces[next[w]]]]
  /\ next' = [next EXCEPT ![w] = @ + 1]
  /\ UNCHANGED <<mission, pc, loaded, staged, manifest, faults>>

PublishManifest(w) ==
  /\ pc[w] = "publish"
  /\ next[w] \notin DOMAIN Surfaces
  /\ manifest' = staged[w]
  /\ Goto(w, "idle")
  /\ UNCHANGED <<mission, loaded, staged, next, files, faults>>

\* The process is killed, or an exception the export does not handle ends it
\* (lint, staging the manifest, a refused rename).  Its staging directory is
\* private, so nothing of it is seen again.
Interrupted(w) ==
  /\ pc[w] # "idle"
  /\ faults < MaxFaults
  /\ faults' = faults + 1
  /\ Goto(w, "idle")
  /\ UNCHANGED <<mission, loaded, staged, next, files, manifest>>

\* Somebody edits the mission workspace.
EditMission ==
  /\ mission' \in Versions \ {mission}
  /\ UNCHANGED <<pc, loaded, staged, next, files, manifest, faults>>

Step(w) ==
  \/ LoadModel(w) \/ StageSurface(w) \/ StageManifest(w)
  \/ PublishSurface(w) \/ PublishManifest(w)

Init ==
  /\ mission \in Versions
  /\ pc = [w \in Writers |-> "idle"]
  /\ loaded = [w \in Writers |-> mission]
  /\ staged = [w \in Writers |-> NothingStaged]
  /\ next = [w \in Writers |-> 1]
  /\ files = NothingStaged
  /\ manifest = NoManifest
  /\ faults = 0

Next ==
  \/ \E w \in Writers : Begin(w) \/ Step(w) \/ Interrupted(w)
  \/ EditMission

Spec == Init /\ [][Next]_vars

\* An export that runs keeps running; nothing is assumed of the editor or of
\* the operator.
FairSpec == Spec /\ \A w \in Writers : WF_vars(Step(w))

---------------------------------------------------------------------------
(* Properties. *)

\* The type invariant of the export and of its output directory.
TypeOK ==
  /\ mission \in Versions
  /\ pc \in [Writers -> {"idle", "load", "stage", "publish"}]
  /\ loaded \in [Writers -> Versions]
  /\ staged \in [Writers -> [Roles -> Contents]]
  /\ next \in [Writers -> 1 .. Len(Surfaces) + 1]
  /\ files \in [Roles -> Contents]
  /\ manifest \in [Roles -> Contents] \cup {NoManifest}
  /\ faults \in 0 .. MaxFaults

\* The manifest-last rule: while a manifest is there, every surface it lists
\* is the file it was computed from and every surface it calls unavailable is
\* absent, also after a regeneration that was killed half way.
ManifestDescribes == manifest # NoManifest => files = manifest

\* What the manifest describes came out of one load of the Mission Model,
\* however the workspace is edited while the export runs.
OneLoad ==
  manifest # NoManifest =>
    \A r, s \in Roles : manifest[r] # Absent /\ manifest[s] # Absent
                          => manifest[r] = manifest[s]

\* No surface changes under a manifest that is there: the export invalidates
\* the earlier manifest before it touches the first surface, and publishes
\* its own after the last.
ChangesUnannounced ==
  [][files' # files => manifest = NoManifest /\ manifest' = NoManifest]_vars

\* With exports run one at a time, an export that is not interrupted
\* publishes a manifest, even for a model that does not load or a surface
\* that cannot be generated.
ExportPublishes ==
  \A w \in Writers :
    (pc[w] = "load") ~> (pc[w] = "idle" /\ (manifest # NoManifest \/ faults > 0))

\* Once every export has ended, and one of them was interrupted, a manifest
\* that is there does not describe a partially replaced set.
NoFalseManifest ==
  (\A w \in Writers : pc[w] = "idle") /\ faults > 0 => ManifestDescribes

=============================================================================
