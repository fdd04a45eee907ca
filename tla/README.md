# Formal verification of OrbitFabric

TLA+ models of the parts of OrbitFabric that keep state, TLC configurations
that check them on small instances, and theorems checked by TLAPS for every
value of their constants. Source paths below are relative to
`src/orbitfabric/` of the repository.

## 1. Inventory

OrbitFabric is a command-line tool. A *Mission Model* (a directory of YAML
files) is loaded, linted, exported as JSON surfaces, turned into generated code
and documents, and simulated against *scenarios*; an *Adapter Manager* installs
external adapters that consume the exported surfaces. Every command is one
process that ends; what two commands share is the disk.

| Component | State | Operations | Interacts with | What makes it correct |
|---|---|---|---|---|
| Adapter lifecycle (`adapter_manager/manager.py`, `inventory.py`, `backends/python_wheel.py`) | `inventory.json`, its temporary file, one directory per instance | install, remove, execute, list, inspect, verify | other processes of the same user, through the disk; pip, venv and the adapter as subprocesses | the inventory is readable and tells what is installed, also after kills, failed writes and retries; nothing unverified is listed or launched |
| Integration Input Set (`export/integration_input_set.py`) | an output directory: surfaces and a manifest | one export: invalidate, load, stage, publish | the mission workspace, the loader, the lint engine, the export surfaces, other exports | a manifest that is there describes the files beside it, out of one load |
| Scenario simulator (`sim/`) | `SimulationState`: mode, telemetry, payload lifecycle, histories; the fault monitor's counters | dispatch, effects, injection, debounce, recovery, expectations | Mission Model, scenario | histories agree with each other and with the model; debounce; the verdict; the run ends |
| Project lock and install-from-lock (`adapter_manager/project_lock.py`, `lock_install.py`) | none of its own | create, compare (MATCH, MISSING, MISMATCH), install what is missing | inventory, sources, lifecycle | the report agrees with the inventory; what was missing is there afterwards |
| Sources, acceptance, catalog, onboarding (`adapter_manager/sources/`, `acceptance.py`, `catalog.py`, `adapter_onboarding.py`) | none | resolve a release, check digests | lifecycle | exactly the bytes that were named are installed |
| Mission Model types and loader (`model/mission.py`, `loader.py`) | none; the mission directory is its input | read, check keys, check types, check ids, merge; each stage stops the next | everything | duplicates and unknown keys are refused; a stage reports all it finds |
| Scenario types and loader (`model/scenario.py`, `scenario_loader.py`) | none; a scenario file is its input | parse, check references | Mission Model, simulator, scenario declaration | a scenario that passes names only declared objects, except those that nobody looks up |
| Lint (`lint/`) | none | rules over a model | export, generators, CLI | a clean model has the closures the other parts assume |
| Simulation log and report (`sim/log_writer.py`, `json_report.py`) | one JSON file per scenario in `generated/reports` | write | simulator, run index, coverage | a report says what the run did |
| Core export surfaces (`export/`) | JSON files in `generated/reports`; the coverage reads four kinds of them | project a model; index the reports; compute coverage; declare the atoms of a scenario | loader, lint, each other's files | identities agree between surfaces, and what is computed from several files is consistent whatever was edited between the commands that made them |
| Generators (`gen/`) | pages in `generated/docs`, packages in `generated/runtime` and `generated/ground` | write files after lint | loader, lint | nothing is generated of a model with errors; the pages tell what a simulation shows |
| Conformance (`conformance/`) | none | validate contracts, evidence, projection accounting | adapter results, scenario declaration | an accounting that passes accounts for the scenario it names |
| Command line (`cli.py`, `entrypoint.py`, `adapter_commands.py`, `adapter_catalog_commands.py`) | none | parse, call, report | everything | exit codes; early exits leave the files alone |

What is hard here: two processes of one user that share `inventory.json`, one
temporary file name and the instance roots without a lock; a kill or a failed
write between any two effects on the disk; a removal that is run again; an
export that is killed while it replaces files one by one, or whose workspace is
edited meanwhile; files that one command leaves and another reads much later,
of a mission that has been edited in between or from a writer that was killed;
a scenario that is read twice by one export; three parts that interpret the
same scenario, or the same model, each with code of its own, and have to agree
(loader, declaration and runner; lint, entity index and relationship manifest;
documents and simulator); the order of triggers, recoveries and automatic
commands within one simulated step, and properties of a history that only a
long scenario can break. `PROJECT.json` lists each of these hazards at its line.

## 2. Modules

| Module | Models |
|---|---|
| `AdapterLifecycle` | the lifecycle processes and the disk they share |
| `AdapterStore` | what the lifecycle promises: adapters that appear and leave in one step |
| `AdapterLifecycleProofs` | the theorems of the lifecycle, and that it implements the store |
| `AdapterExecution` | `execute` from the launch of the adapter on, and its output directory |
| `LockInstall` | install-from-lock, on top of `AdapterStore` |
| `LockInstallProofs` | its theorems |
| `InputSetPublication` | exports of an Integration Input Set, the workspace and the output directory |
| `InputSetPublicationProofs` | its theorems |
| `ScenarioRun` | one run of the simulator |
| `ScenarioRunProofs` | its theorems, and what it rests on: that a model the lint accepts is one the simulator can look up in |
| `FiniteSums` | facts about `SumFunction` of the community modules, for the proofs about counts |
| `MissionModel` | the types of the Mission Model, and the references between its objects |
| `MissionLoad` | the loader: from a directory to a model or to diagnostics (extends `MissionModel`) |
| `LintRules` | the lint rules and the report (extends `MissionModel`) |
| `LintProofs` | what a model that the lint accepts looks like, and its relationship manifest (extends `ModelSurfaces`) |
| `ModelSurfaces` | the surfaces that are functions of one model (extends the two above) |
| `EvidenceChain` | the commands of `orbitfabric` over one workspace and the files they leave for each other (extends `ModelSurfaces`) |
| `EvidenceChainProofs` | its theorems (extends `LintProofs`) |
| `ScenarioDeclaration` | the scenario loader, the declaration of a scenario, and the check of an adapter's accounting against it |
| `ScenarioDeclarationProofs` | its theorems |
| `MCLifecycle`, `MCLockInstall`, `MCPublication`, `MCScenario`, `MCEvidence`, `MCDeclaration` | symmetry sets and structured constants for TLC |

Operators marked `Deviation` or `Mutant of` beside a definition say what a
plausible mistake in the same code would do. They are used by no specification; replacing the
definition by its deviation makes the property named for it fail.

### AdapterLifecycle

A process `p` is one `orbitfabric adapter ...` command: `pc[p]` says where it
is, `op[p]` which command it runs, `inst[p]` on which instance. `json` and `tmp`
are `inventory.json` and `inventory.json.tmp`, each missing, empty, garbled or
holding a set of records; `root[i]` is the set of parts of an instance's
directory that the code looks at by name. `fd[p]` says where the file that `p`
opened as `inventory.json.tmp` is linked by now: after an `os.replace` by somebody else
it *is* `inventory.json`, which is how unfinished text gets there. Of a process that is
deleting a tree, `fd[p]` says whether somebody else has deleted entries that its
`rmtree` may have listed: then `rmtree` may end early, with the rest of the tree in
place (`RmtreeRaces`), and so may the other's.

| Code | Actions |
|---|---|
| `install_resolved` up to the backend | `StartInstall` |
| `PythonWheelManagedEnvironmentBackend.install` | `MakeRoot`, `CreateVenv`, `PipInstall`, `AcceptManifest`; failure: `BackendFails`, then the `Rmtree...` actions from `backend_clean` |
| copy of the descriptor, post-install verification | `CopyDescriptor`, `VerifyInstalled`; failure of either: `CopyOrVerifyFails` |
| `inventory.add`, `inventory.remove` | `InventoryRead`, `OpenTmp`, `WriteTmp`, `ReplaceInventory`; failures: `ReplaceFindsNothing`, `WriteOrReplaceFails`, then `UnlinkTmp` or `UnlinkFails` |
| rollback, `remove` | `StartRemove`, `RmtreeDelete`, `RmtreeFinish`, `RmtreeRaces`, `RmtreeFails`, `CheckRemoved` |
| `execute` up to `subprocess.run` | `StartExecute`, `VerifyForExecution`, `Launch` |
| a signal, or `KeyboardInterrupt` (not caught by `except Exception`) | `Kill` |

`fate` is a history variable: what an instance's commands have said of it.
`Serialised` is a constant: TRUE restricts the model to commands that
are run one at a time, which is the use the documentation describes; FALSE is
what the code permits. uuid4 ids are taken to be distinct. The list of records
is a set, since ids are unique and `list` sorts it.

### AdapterStore and the refinement

`AdapterStore` has three variables: the listed instances, the usable ones and
all that were ever listed. `Install` lists an instance and makes it usable in one
step, `BeginRemove` takes its usability, `Remove` its listing. `AdapterLifecycle`
implements it (`AtomicStore`) under the mapping of `Store`: listed are the
records of `inventory.json`, usable those whose root is complete, past those whose
`fate` says that they were listed. Every other step of the lifecycle, the kills
and the failures included, leaves the store as it is.

### AdapterExecution

The output directory of `adapter execute` outlives the run. The model
keeps of it the result file: none, unfinished, or a result with its operation
and its outcome. The adapter is external and is taken to keep the execution
contract: it writes results of the operation it was asked for and exits with zero
exactly after a success; it may crash before it writes.

### LockInstall

`pc` follows `install_entry`: `entry` (the lock is loaded and the entry found),
`list` and `check` (the inventory is read, and the lock once more),
`install` (the supplied release is compared and installed), `relist` and `recheck`,
`undo_files` and `undo_record` (the roll-back). A release stands for a version and all
digests; `Of[i]` is what the instance id `i` will be drawn for, since ids are
fresh. The operator runs one adapter command at a time. That is a premise and no
abstraction: an install or a removal of the lifecycle is a step of `AdapterStore` only
then. No lock orders the commands, and beside another command `ReportedStaysUsable` and
`FailureLeavesNothing` are false of the code, as `lifecycle_lost_update` (a reported record is dropped) and
`lifecycle_rollback` (a failed installation stays listed) show. What does interleave
with the steps of a command is an edit of the lock, which is read at the entry and
again by either check, and a kill. `edited` is a history variable: the lock was edited
while a command ran. `role` is another: what has been said of an instance.

### InputSetPublication

The content of a surface is the version of the workspace it was produced from,
a manifest is the function from roles to contents, and the comparison of the
recorded SHA-256 with a file is equality. `Begin` is the unlink of the earlier
manifest, `LoadModel` the one load, `StageSurface` one turn of the producer
loop (or of `_write_load_failure_set`, where only the snapshot is tried),
`StageManifest` the end of staging, `PublishSurface` one `os.replace` or unlink,
`PublishManifest` the last `os.replace`. `Interrupted` is a kill or an exception
the export does not handle, which leaves the output directory as it is.
`EditMission` is anybody's edit of the workspace. A load is one step: an edit
during the load itself is outside the model.

### ScenarioRun

The Mission Model is a constant of the run, reduced to what `sim/` reads of it
(`IsMission`). The scenario is not given in advance: since the runner never
looks ahead, each part of a step is chosen when the runner reaches it, so a run
of TLC covers every scenario of at most `MaxSteps` steps and expectations over
the given values. `pc` follows `_execute_step`: `step` (dispatch and effects),
`status` (`expect.command_status`), `inject` (injection and
`FaultMonitor.evaluate`), `recover` (one action per trigger and per auto
command), `check` (the remaining expectations, which change nothing but the
records, in any order; `scenario_status` last). `pending` holds the faults that
one evaluation has triggered and whose recovery is still to come. `applied` and
`snapshots` are history variables: the faults in the order of their recoveries,
and the telemetry each evaluation saw. A fault's comparison is the set of
values on which it is true and the set on which it raises a `TypeError`; its
debounce is any integer, since nothing in the code rejects one that is not
positive. An exception ends the run, and nothing of its state is reported, so
the partial effects of the step it ends are not kept: the `KeyError`s of undeclared
ids, the `TypeError`s of comparisons, and the `AttributeError` of expected effects
whose telemetry is no mapping. Payload ids in effects
and preconditions are declared ones.

### MissionModel, MissionLoad, LintRules, ModelSurfaces

These four have no variables: they are the functions that the commands of
`EvidenceChain` compute. A domain of the model is a table from ids to what some
rule, export or generator reads of an object; a list of references is a
sequence, since a list may name one object twice and the surfaces tell the
entries apart.

| Code | Definitions |
|---|---|
| `model/mission.py` | the row types, `IsModel`; `Names` and `Lists` are the two kinds of reference |
| `MissionModelLoader.load` and its stages | `LoadDiagnostics`: directory, files and keys, types, ids; each stage runs only when the one before it found nothing. `Loaded` gives an absent optional file its defaults |
| `lint/rules_*.py` | one operator for each group of rules, named for what it looks at; `LintRun` is `LintEngine.run`, the other operators are the report's verdicts |
| `export/entity_index.py` | `EntityIndex` |
| `export/relationship_manifest.py` | one operator for each of the twenty-six families, `relationship_records`, `RelationshipManifest`; `RelateDeclared` is the filter that twenty families have and six lack; `TypeSpec` is what the manifest says of each type, and `Stated` the references in the fields that it names |
| `export/model_summary.py`, `mission_snapshot.py`, `dashboard_summary.py` | `ModelSummary`, `MissionSnapshot`, `DashboardSummary` |

The values a YAML file can hold are abstracted to the states a file can be
found in (`FileState`) and to whether the types of the model accept it.

### EvidenceChain

The state is the mission directory (`revision`, which the author edits) and the
files of the workspace. A file that is a function of the model alone is kept as
the revision it was made from, or `Absent`, or `CutOff` when its writer was
killed. A simulation report, the run index and the coverage hold what later
commands read of them; the expectations of a report are its list of records, and
the tallies of the run index and of the coverage are counted over such lists, each
in its own way.

| Code | Actions |
|---|---|
| `lint`, `inspect mission` | `Lint`, `InspectMission` |
| `export model-summary`, `entity-index`, `relationship-manifest`, `dashboard-summary`, `mission-snapshot` | `ExportModelSummary` and so on; the snapshot is written of a model that does not load, too, but not of a directory that is not there |
| `gen docs`, `gen data-flow`, `gen runtime`, `gen ground` | `GenDocs` (page by page), `GenDataFlow`, `GenRuntime`, `GenGround` (the manifest before the files) |
| `sim` | `Sim`: load, run, report. `Courses` are the ways a scenario can go: which commands are dispatched, which of them are not rejected, what each expectation comes to; `ScenarioRun` says how it comes about |
| `export scenario-run-index` | `ExportScenarioRunIndex`, which any file that is no JSON stops |
| `export coverage-summary` | `ExportCoverageSummary`: the index, the manifest, the run index and each report that it lists, in that order, with the error of the first that is missing or broken; `entity_coverage` and `relationship_coverage` are computed from them |
| nobody's code | `Edit` (the author), `Delete` (of a report) |

Commands run one at a time and no edit falls into a command; edits that do fall
into one are the subject of `InputSetPublication` and `ScenarioDeclaration`. A
scenario is identified with the name of its report.

### ScenarioDeclaration

The contents of a scenario file stand for their digest, and the contents of a
mission directory for the declared ids, whether it loads, and its identity,
which is its id and its version (two contents may share it). `Sorted` stands for
Python's `sorted`: it makes the order of the telemetry atoms a function of the
set, and nothing depends on which function it is. Two exceptions escape the export,
which then writes nothing (`Escapes`): bytes of the scenario or of a mission file that
are no UTF-8, and a value for which JSON has no form.

| Code | Definitions |
|---|---|
| `ScenarioLoader.load` | `ContentFails`, `references`, `ReferenceFindings`, `LoadFails` |
| `scenario_declaration_from_file` | actions `Fingerprint` (the digest), `Load` (the second read, and normalization), `FingerprintAgain` (a third read, when the first found no file) |
| the normalization of a step and its checks | `StepRecords`, `NormalizationFails`, `Atoms` |
| the expectations of `ScenarioRunner` | `RecordedOfStep`: what the runner records of a step, by its own reading of it |
| the adapter (external) | `RunAdapter`: an accounting and a result, right or wrong in one of the ways of `Misdeeds`; a kill may cut the accounting off or come before the result |
| `conformance/scenario_projection_accounting.py` | actions `CheckResult`, `CheckAccounting`, `CheckDeclaration`: three files read one after the other, with `validate_parent` and `validate_scenario` |
| nobody's code | `EditScenario`, `EditMission` |

## 3. Runs

| Run | Bounds | Shows |
|---|---|---|
| `lifecycle_serial` | 2 processes, 2 instances, 3 faults, one command at a time | `InventoryReadable`, `RecordsMaterialized`, `OwnershipKept`, `GoneIsGone`, `LaunchesWhole`, `RetireOnlyDismantled`, `AtomicStore`, `RemovalCompletes` |
| `lifecycle_concurrent` | 2 processes, 2 instances, no fault | `PublishedWasVerified`, `RemovedLeavesNoFiles`, `CommandsReturn`, with every race on the inventory and the trees |
| `lifecycle_rollback`, `lifecycle_lost_update` | 2 processes, 2 instances, no fault | counterexamples, see section 6 |
| `lock_install` | one command at a time, 4 instances (two copies of a release, an older one, another adapter), 2 coordinates, 2 backends, 1 fault | `ReportedStaysUsable`, `FailureLeavesNothing`, `NothingTwice` |
| `execution_stale` | 1 command, 2 operations | counterexample |
| `publication_export` | 1 export at a time, 3 surfaces, 2 loadable versions and a broken one, 1 interruption | `ManifestDescribes`, `OneLoad`, `ChangesUnannounced`, `ExportPublishes` |
| `publication_interrupted` | 2 exports, 2 surfaces | counterexample |
| `scenario_faults` | 3 steps and expectations, 2 commands, 2 faults, 5 injections, 3 missions (linted, un-linted, with debounces of 0 and -1) | `ModeChain`, `TriggersAreDebounced`, `RecoversOnce`, `EventsAccounted`, `AutosAccounted`, `LifecycleRespected`, `LintedNeverKeyError`, `VerdictMatchesRecords`, `RunEnds` |
| `evidence_chain` | 78 mission directories, 2 scenarios, 7 courses of a scenario (no command, one or two, all or some rejected; up to three expectations), 1 edit, deletion or kill; six evidence commands, or two and two others, from the complete mission, one and one from each variant | `ManifestFaithful`, `CoverageConsistent`, `CoverageTalliesAgree`, `DocsAgreeWithEvidence` |
| `scenario_declaration` | 37 scenarios and none, 5 missions, 9 misdeeds; 4 commands and 2 edits or kills from a good scenario or from none, 1 command from each variant | `ReferencesResolve`, `ExpectedIsChecked`, `VerifiedAccounts` |
| `declaration_race` | as `scenario_declaration` | counterexample |

Why the bounds are enough for what they are used for. An update of the
inventory is lost between two processes, and a removal is cut short at most
once per attempt, so two processes and two instances show every pair of
commands, a bystander included; three faults allow a failed write, the kill of
its clean-up and the kill of the retry. The concurrent run has no faults, whose
interleavings do not fit; that faults break neither `PublishedWasVerified` nor
`RemovedLeavesNoFiles` is proved. Two copies of a release and an older one are the exact match, its
duplicate and the mismatch that install-from-lock tells apart, and another
adapter is the bystander. Three surfaces
are one before, one at and one after the one that is produced without a model;
that `OneLoad` holds of concurrent exports too is proved. Three steps are one
more than the longest debounce, and let a command prepare the payload, a fault
take the mode away and an auto command of a second fault meet both. All
invariants and action properties of the passing runs are also proved without
bounds (section 5).
The missions of `MCScenario` are after the repository's demo mission.

The properties of the evidence chain relate functions of one model, so what
counts is the variety of models: one object in every domain, and a variant for
every reference field that points nowhere, for every list that names an object
twice, for every kind of directory that does not load and for the conditions
that rules or generators branch on. Evidence commands are those the coverage
depends on; six of them are the shortest chain in which a second simulation
replaces a report after the run index was made (index, manifest, simulation,
run index, simulation, coverage). The variants need two commands, since a
surface or a page is computed by one. That a coverage stays consistent after
any number of edits is proved. `ButExit`, the VIEW of the run, leaves out how
the last command ended, which no property and no command reads.

The scenarios of `scenario_declaration` are one with every kind of atom, two
steps long, and a variant for every check of the loader and of the
normalization; four commands and two edits let an export, an adapter and a
check be interleaved with a second adapter or export and with an edit or a kill
of each.

The lifecycle runs, `scenario_faults`, `evidence_chain` and the declaration runs
do not check for deadlock: a manager that has drawn all its instance ids has
nothing left to do, a run that is done is done, and a workspace rests when its
budget of commands and edits is spent.

## 4. Fairness

`FairSpec` of `AdapterLifecycle` and `InputSetPublication` has weak fairness of
each process' own steps: a process of the operating system that is not killed
keeps running. Nothing is assumed of kills, errors, edits or of new commands.
`RetrySpec` adds strong fairness of running `remove` again on an instance whose
removal was cut short: an assumption about the operator, not about the code,
and the premise under which the retained record is of any use.
`FairSpec` of `ScenarioRun` is weak fairness of the runner, one sequential loop.
`EvidenceChain` and `ScenarioDeclaration` state no fairness: nothing obliges a
user to run the next command.

## 5. Proofs

Every invariant and every action property of the passing runs is a theorem,
for every value of the constants. Each of the proof modules has an inductive
invariant, the lemmas that Init and every action establish it, and the
properties as its consequences.

`InputSetPublicationProofs` proves, for any surfaces, versions and number of
exports, `TypeOK` and `OneLoad`; and, assuming exports run one at a time,
`ManifestDescribes` and `ChangesUnannounced`. `OneLoad` is not inductive: it
says nothing of what is staged. `LoadInv` adds that whatever an export has
staged is absent or of the version it loaded. `ManifestDescribes` needs
`DescribesInv`: while an export is under way there is no manifest, at most one
export is under way, and the surfaces before `next` hold what it has staged, so
that the manifest it publishes last describes them.

`AdapterLifecycleProofs` proves `TypeOK`, `PublishedWasVerified` and
`RemovedLeavesNoFiles` for any number of unlocked concurrent processes, and,
assuming commands run one at a time, `InventoryReadable`, `RecordsMaterialized`,
`OwnershipKept`, `GoneIsGone`, `LaunchesWhole` and `RetireOnlyDismantled`, and that the lifecycle implements
`AdapterStore` (`StoreIsAtomic`). Three inductive invariants carry them.
`PublishInv`: the records in either file and in any process' snapshot have the
fate of a verified instance, and a process past the verification works on one.
`RemovalInv`: only the process that has drawn an instance builds its tree, and a
removal that is past its check works on an instance whose tree is gone; nobody
builds a tree twice, so it stays gone whoever else is deleting it.
`SerialInv`: for each place a single running command can be in, what the files,
the instance's root and its fate are; for example, that a process about to rename
holds the only temporary file, and that it is the inventory with exactly the one
change; and for an idle manager the four properties themselves. The properties
are not inductive without it: a rename publishes whatever the temporary
file holds. The refinement has one lemma for each way in which a step meets the store: a
private step leaves it alone, the deletion of the first part of a listed tree
is `BeginRemove`, the rename of the inventory is `Install` or `Remove`.

`LockInstallProofs` proves, for any adapters, releases, edits and faults, of commands
that run one at a time, `TypeOK`, `ReportedStaysUsable`, `FailureLeavesNothing`
and `NothingTwice`. `OwnerInv` says of every instance whose it is: an unreported one is
the one that the running command has made, and what is pending or reported is usable.
`SteadyInv` says that, unless the lock is edited under it, a command knows what is on
disk, so that it reaches the installation only when its release is not listed.

`ScenarioRunProofs` proves of a run over any missions, values and number of
steps all nine safety properties. `TypeInv` adds to the types that an evaluation
is made at most once a step and that no counter exceeds the number of
evaluations; `ModeChain` is inductive with it. `LifecycleRespected` speaks of
what happened between two commands, and needs `LifecycleInv`: the lifecycle of a
payload is what the last executed command that changes it has left.
`RecoversOnce` needs `RecoveryInv`, which adds that nothing is pending outside a
recovery. `TriggersAreDebounced` needs `CounterInv`: the counter of a fault that
has not triggered is the length of the unbroken run of true evaluations that ends
with the latest one. `EventsAccounted` and `AutosAccounted` equate a count over
one history with sums over two others; each step adds to both sides what
`SumOfOneMore` says.

Two results of that module are about more than a run:

* `LintPreventsKeyErrors`: `LintedNeverKeyError` speaks of the few facts that the
  simulator depends on (`LintClean` of `ScenarioRun`). The theorem replaces them
  by the whole lint: of a Mission Model `m` with `~has_errors(LintRun(m))`, and
  whatever the simulator reads from it (`ReadFrom`), no run ends with a KeyError.
* `EveryStepAdvances`: the safety half of `RunEnds`. Every step of a run goes
  down in the lexicographic order of the steps and expectations that are left,
  the place within the step, the recoveries that are pending and the auto
  commands that are queued, and that order is well-founded. So a run has no
  infinite behaviour without stuttering, whatever its faults watch; that the run
  is not abandoned before it is done is the fairness of the runner, and TLC's.

`FiniteSums` has the facts about sums. A sum is a recursive function over the
subsets of its domain, and the induction theorems of the library take an operator
as a parameter. The induction here is over a *set* of numbers or subsets
instead (`InductionOnNat`, `InductionOnSubsets`), from the minimal element that
the library's `WFMin` gives; that the recursive function satisfies its equation
is proved by building it up, subset size by subset size. The same principle
unfolds the recursion of `FlattenSeq` in `ScenarioDeclarationProofs`. They are lemmas, and
say nothing of OrbitFabric.

`LintProofs` is about functions of a model, without any behaviour.
`NoDanglingReference`: if the lint has no error, then every one of the references
that one of its rules looks up ends in a declared object (`Closed`): the thirty-nine
fields with one or with several names, the owners of products, the
lifecycle states, the transitions and the one initial mode. `ManifestIsComplete`
uses it: each of the twenty-six families of the relationship manifest filters by
declared ids or does not, and for such a model both come to the same, one record
for each reference that the type's fields state. Neither holds of every model:
`MCEvidence` has a variant that breaks each of the fields.

`EvidenceChainProofs` proves for any mission directories, scenarios, edits,
kills and number of commands `TypeOK`, `DocsAgreeWithEvidence`,
`CoverageConsistent`, `CoverageTalliesAgree` and `ManifestFaithful`. The
invariant `ChainInv` says of every file what it was made from: generated files
from a revision without lint errors, reports from one that loads, and (`Derived`)
that the evidence of every report, also of the reports that a coverage has read,
is what the simulator derives from the report's own model.
`DocsAgreeWithEvidence` is then an equality of two derivations of flows and
windows, `CoverageConsistent` an argument on the relations of the three
supported types, `CoverageTalliesAgree` one on the records of all reports and of the
run index's, and `ManifestFaithful` is `ManifestIsComplete` with the entity index of
the same revision (`CleanManifest`).

`ScenarioDeclarationProofs` proves for any scenarios, missions, misdeeds and
number of commands `TypeOK`, `ReferencesResolve`, `ExpectedIsChecked` and
`VerifiedAccounts`. The first half is about the three readings of a step: what
the records of `StepRecords` are, position by position, that a step whose
normalization does not fail yields exactly the expectations that
`RecordedOfStep` takes from the same fields, and no two alike. `DeclarationInv`
then says that a declaration on disk, and the one that a check has verified, holds
exactly the atoms of the scenario it was loaded from (`EnvelopeOK`), and what a
check has found at each of its three reads, so that a verified accounting is
compared, atom for atom, with the scenario and not only with a file that may
have been replaced since.

Assumptions: the `ASSUME`s of the modules (`NoInstance` is not an instance,
surface roles are distinct, a workspace has the shape of `IsWorkspace`, the ids of
a scenario and the names of the reports are finite sets that the markers for
absent and broken files are not in, and the like) and `Serialised` where it is
named.

Only model-checked, and why:

* liveness (`CommandsReturn`, `RemovalCompletes`, `ExportPublishes`,
  `RunEnds`): TLAPS does not reason about `ENABLED`;
* the claims of section 6, which do not hold.

## 6. Disagreements between the code and its documents

* `lifecycle_lost_update`: `InstalledAdapterInventory.add` and `remove` are
  read-modify-write without a lock. Of two concurrent updates the later one
  drops the other's record.
* `lifecycle_rollback`: all processes share `inventory.json.tmp`. One can rename the
  file the other has just written, and the other's rename fails, so it
  rolls back an instance whose record has just been published.
* `publication_interrupted`: the manifest is invalidated at the start of an
  export only, so the manifest of an export that ran beside it survives an
  interruption and describes a partially replaced set.
* `execution_stale`: `execute` takes any conformant result in the output directory for
  the result of its own run, and compares neither the operation nor the exit status.
* `declaration_race`: `scenario_declaration_from_file` takes the digest in one
  read of the scenario and the contents in another, so an edit in between makes
  a declaration whose atoms are not those of the bytes it names. The loader has
  the digest of the bytes it parsed, and the export does not use it.
  `VerifiedAccounts` is therefore conditional on the digest being right.

Also noticed, and checked by no run:

* rejected and failed commands are in the report's array of executed commands
  and in its count (`sim/json_report.py`);
* the simulator never consults `mode_transitions`, and no lint rule looks up
  `expected_effects.mode_transition.to` of a command
  (docs/reference/mission-model-v0.1.md:1276, 1293);
* a debounced fault counts evaluations, one for each injection of any telemetry,
  not samples of the telemetry it watches (mission-model-v0.1.md:849), and a
  negative debounce triggers at the first evaluation;
* the Relationship Manifest promises that every end of a record resolves in the
  Entity Index (docs/reference/relationship-manifest-surface.md:57, :185), but
  `export relationship-manifest` does not lint and six families do not filter: of
  a model with a dangling reference the manifest has ends that do not resolve.
  `ManifestFaithful` is therefore conditional on a clean model;
* a report that was cut off, of whatever command, stops
  `export scenario-run-index` until it is deleted;
* `gen docs` leaves the page of a domain that has become empty as it was
  (`gen/docs.py:47-66`);
* a package whose generation was killed has the manifest of one revision and
  files of another;
* a scenario that is not UTF-8 ends the declaration with a `UnicodeDecodeError`
  and no envelope (docs/reference/scenario-declaration-surface.md:36 says that
  one is written);
* ids that differ only in their punctuation become one C++ symbol
  (`gen/runtime/naming.py`);
* the command line exits with 1 after `succeeded_with_warnings`, which the
  execution contract counts as a success.

## 7. Not modelled

Listed with the reasons in `PROJECT.json`. In short:

* sources, acceptance, the catalog and onboarding: they resolve a release before
  the lifecycle begins, by digest checks and look-ups over inputs that nothing
  changes, and by network I/O;
* of the conformance contracts, the three that validate a set of documents field
  by field; the projection accounting, whose three reads can be interleaved, is
  modelled;
* `export/core_interface.py`, a constant document;
* the text of generated C++, tables, CSV and pages: the model has which files
  are written, in which order, from which revision, and the data flow that two
  parts derive independently;
* the text log of a simulation, and simulated time, which orders nothing in the
  runner;
* YAML, JSON and pydantic, which appear as the states a file can be found in. A
  mission file that cannot be read or decoded is in `ScenarioDeclaration` only;
  `MissionLoad` has files that are decoded;
* in the reports of `EvidenceChain`, a command that is dispatched twice and the events
  of faults, which nothing that reads a report tells apart; and a workspace without
  `generated/reports`;
* the command line's arguments and presentation, and its catalog commands.

## 8. Plan

What is left, in this order:

1. Proofs: orders in which the steps of the lifecycle, of install-from-lock and
   of an export go down, as `EveryStepAdvances` has one for a run; an abstract
   publication that the export implements when exports run one at a time; the
   composition of `LockInstall` with a serial `AdapterLifecycle`, through the
   refinement of `AdapterStore`.
2. `ReleaseResolution`: the explicit source, the catalog and acceptance, up to
   the release that `install_resolved` is given.
3. The cross-document rules of the evidence set
   (`conformance/evidence_set.py`).
4. The composition of `EvidenceChain` with `ScenarioRun`, so that the executed
   commands of a report are those of a run, and with `InputSetPublication`.
