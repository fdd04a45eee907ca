--------------------------- MODULE EvidenceChain ---------------------------
(***************************************************************************)
(* The commands of `orbitfabric` over one workspace: a mission directory   *)
(* that an author edits, generated/reports with the JSON files that later  *)
(* commands read again, and the generated artifacts.                       *)
(*                                                                         *)
(* Commands run one at a time and no edit falls into one.  A command may be*)
(* killed while it writes its file, which is then cut off.  A file that is *)
(* a function of the model alone is represented by the revision it was     *)
(* made from: EntityIndex, RelationshipManifest and so on say what is in   *)
(* it.  The directory generated/reports is there from the start.           *)
(***************************************************************************)
EXTENDS ModelSurfaces

CONSTANTS
  Revisions,    \* the contents the mission directory can have
  Workspace,    \* Workspace[r]: what the loader finds in revision r
  Revised,      \* the revisions that the author edits towards
  Scenarios,    \* the scenario files, whose reports bear their names
  Absent,       \* no such file
  CutOff,       \* a file whose writer was killed: no JSON
  Budget,       \* Budget[r]: how many commands of each kind run when the author starts with r
  MaxUpsets,    \* how many edits, deletions and kills there are
  Courses       \* the ways a scenario can go: the commands that are dispatched, those that
                \* are not rejected, and what the expectations come to, in their order

\* The commands that coverage is the end of, and the others.
Kinds == {"evidence", "other"}

ASSUME ChainAssumption ==
  /\ \A r \in Revisions : IsWorkspace(Workspace[r])
  /\ Revised \subseteq Revisions /\ IsFiniteSet(Scenarios)
  /\ Absent \notin Revisions /\ CutOff \notin Revisions /\ Absent # CutOff
  /\ Budget \in [Revisions -> SUBSET [Kinds -> Nat]] /\ MaxUpsets \in Nat
  /\ Courses \subseteq [dispatched : SUBSET Ids, executed : SUBSET Ids,
                         expectations : Seq({"passed", "failed"})]
  /\ \A course \in Courses : course.executed \subseteq course.dispatched

Surfaces == {"lint", "model_summary", "mission_snapshot", "entity_index",
             "relationship_manifest", "dashboard_summary"}
PageOrder == <<"telemetry", "commands", "events", "faults", "modes", "packets", "payloads",
               "data_products", "contacts", "commandability", "data_flow">>
Pages == Range(PageOrder)
Packages == {"runtime", "ground"}

VARIABLES
  revision,   \* the mission directory as it is
  surfaces,   \* generated/reports: the revision each surface was made from
  sims,       \* generated/reports: the simulation report of each scenario
  run_index,  \* generated/reports/scenario_run_index.json
  coverage,   \* generated/reports/coverage_summary.json, with what it was computed from
  docs,       \* generated/docs: the revision each page was rendered from
  packages,   \* generated/runtime and generated/ground: the revision that the manifest was
              \* made from, and the revision of the generated files
  exit,       \* how the last command ended
  budget, upsets

files == <<surfaces, sims, run_index, coverage, docs, packages>>
vars == <<revision, files, exit, budget, upsets>>

Readable(file) == file \notin {Absent, CutOff}

NoDirectory == [r \in Revisions |-> ~Workspace[r].is_dir]
LoadsNot == [r \in Revisions |-> LoadFails(Workspace[r])]
ModelOf == [r \in Revisions |-> Loaded(Workspace[r])]
Report == [r \in Revisions |-> LintRun(ModelOf[r])]
LintClean == [r \in Revisions |-> ~LoadsNot[r] /\ ~has_errors(Report[r])]
IndexOf == [r \in Revisions |-> EntityIndex(ModelOf[r], Workspace[r].files)]
ManifestOf == [r \in Revisions |-> RelationshipManifest(ModelOf[r])]
SnapshotOf == [r \in Revisions |-> MissionSnapshot(Workspace[r])]
Model == ModelOf[revision]

---------------------------------------------------------------------------
(* Simulation: what a report holds. *)

eligible_flows(m, d) == {r.owner : r \in {s \in Lists(m.downlink_flows, "eligible_data_products") :
                                            s.id = d}}
contact_windows_for_flows(m, flows) ==
  {w \in Declared(m, "contact_windows") :
     \E f \in flows : /\ m.contact_windows[w].contact_profile = m.downlink_flows[f].contact_profile
                      /\ m.contact_windows[w].link_profile = m.downlink_flows[f].link_profile}
ListedProducts(m, c) ==
  LET list == m.commands[c].data_products
  IN  IF list \in {None, Malformed} THEN {} ELSE {list[k] : k \in DOMAIN list}
data_flow_evidence(m, c) ==
  {[command |-> c, product |-> d, flows |-> eligible_flows(m, d),
    windows |-> contact_windows_for_flows(m, eligible_flows(m, d))] :
     d \in ListedProducts(m, c) \cap Declared(m, "data_products")}

Emitted(m, c) == {m.commands[c].emits[k] : k \in DOMAIN m.commands[c].emits}

\* The expectations of a report that came to the result.
Came(report, result) ==
  {k \in DOMAIN report.expectations : report.expectations[k] = result}

SimulationReport(m, course) ==
  [result |-> IF Came(course, "failed") # {} THEN "failed" ELSE "passed",
   commands |-> course.dispatched, events |-> UNION {Emitted(m, c) : c \in course.executed},
   evidence |-> UNION {data_flow_evidence(m, c) : c \in course.executed},
   expectations |-> course.expectations, of |-> revision]

\* _run_record: the result and the counts of a report.
run_record(report) ==
  [result |-> report.result,
   summary |-> [commands |-> Cardinality(report.commands),
                events |-> Cardinality(report.events),
                data_flow_evidence |-> Cardinality(report.evidence),
                expectations |-> Len(report.expectations),
                passed_expectations |-> Cardinality(Came(report, "passed")),
                failed_expectations |-> Cardinality(Came(report, "failed"))]]

---------------------------------------------------------------------------
(* Documents. *)

\* _data_flow_records: a row for each product that a command lists.
data_flow_records(m) ==
  {[command |-> r.owner, product |-> r.id,
    flows |-> {f \in Declared(m, "downlink_flows") :
                 \E k \in DOMAIN m.downlink_flows[f].eligible_data_products :
                    m.downlink_flows[f].eligible_data_products[k] = r.id}] :
     r \in {s \in [owner : Declared(m, "commands"), id : Declared(m, "data_products")] :
              s.id \in ListedProducts(m, s.owner)}}
\* Mutant of matching_contact_windows: the link profile is not compared.
WindowsOfTheContact(m, record) ==
  {w \in Declared(m, "contact_windows") :
     \E f \in record.flows :
        m.contact_windows[w].contact_profile = m.downlink_flows[f].contact_profile}
matching_contact_windows(m, record) ==
  {w \in Declared(m, "contact_windows") :
     \E f \in record.flows :
        <<m.contact_windows[w].contact_profile, m.contact_windows[w].link_profile>> =
        <<m.downlink_flows[f].contact_profile, m.downlink_flows[f].link_profile>>}

HasPage(m, page) ==
  CASE page = "payloads" -> Declared(m, "payloads") # {}
    [] page = "data_products" -> Declared(m, "data_products") # {}
    [] page = "contacts" -> HasContent(m, TablesOf("contacts.yaml"))
    [] page = "commandability" -> HasContent(m, TablesOf("commandability.yaml"))
    [] OTHER -> TRUE

---------------------------------------------------------------------------
(* Coverage: coverage_summary.json, from the files that were read. *)

observed(read) ==
  LET reports == {read.reports[s] : s \in DOMAIN read.reports}
      evidence == UNION {report.evidence : report \in reports}
  IN  [commands |-> UNION {report.commands : report \in reports},
       events |-> UNION {report.events : report \in reports},
       data_products |-> {e.product : e \in evidence},
       flow_products |-> UNION {{<<f, e.product>> : f \in e.flows} : e \in evidence}]

coverage_record(declared, covered) ==
  [covered |-> declared \cap covered, uncovered |-> declared \ covered]

SupportedDomains == {"commands", "events", "data_products"}
entity_coverage(read) ==
  [d \in SupportedDomains |->
     coverage_record({e.id : e \in {x \in IndexOf[read.index].entities :
                                      x.domain = d}},
                     observed(read)[d])]

ProducedTypes == {"data_product_produced_by_payload", "data_product_produced_by_subsystem"}
SupportedTypes == ProducedTypes \cup {"downlink_flow_includes_data_product"}
\* Mutant of relationship_is_covered: the producer's id is looked up, not the product's.
ProducerIsCovered(record, seen) ==
  \/ record.type \in ProducedTypes /\ record.to.id \in seen.data_products
  \/ /\ record.type = "downlink_flow_includes_data_product"
     /\ <<record.from.id, record.to.id>> \in seen.flow_products
relationship_is_covered(record, seen) ==
  \/ record.type \in ProducedTypes /\ record.from.id \in seen.data_products
  \/ /\ record.type = "downlink_flow_includes_data_product"
     /\ <<record.from.id, record.to.id>> \in seen.flow_products

\* A relationship_id is a record without its place: repeated records count once.
relationship_id(record) == [type |-> record.type, from |-> record.from, to |-> record.to]
relationship_coverage(read) ==
  LET supported == {x \in ManifestOf[read.manifest].relationships :
                      x.type \in SupportedTypes}
      covered == {x \in supported : relationship_is_covered(x, observed(read))}
  IN  coverage_record({relationship_id(x) : x \in supported}, {relationship_id(x) : x \in covered})

\* The expectation records of all the reports that were read, in one list.
expectation_records(read) ==
  UNION {{<<s, k>> : k \in DOMAIN read.reports[s].expectations} : s \in DOMAIN read.reports}
\* Mutant of expectation_coverage: the failed ones are counted by report.
FailedReports(read) ==
  LET records == expectation_records(read)
      of(result) == {x \in records : read.reports[x[1]].expectations[x[2]] = result}
      failed == {s \in DOMAIN read.reports : read.reports[s].result = "failed"}
  IN  [total |-> Cardinality(records), passed |-> Cardinality(of("passed")),
       failed |-> Cardinality(failed)]
expectation_coverage(read) ==
  LET records == expectation_records(read)
      of(result) == {x \in records : read.reports[x[1]].expectations[x[2]] = result}
  IN  [total |-> Cardinality(records), passed |-> Cardinality(of("passed")),
       failed |-> Cardinality(of("failed"))]

\* The summary is copied from the run index, not counted again.
scenario_runs(runs) ==
  LET of(result) == {s \in DOMAIN runs : runs[s].result = result}
  IN  [total |-> Cardinality(DOMAIN runs), passed |-> Cardinality(of("passed")),
       failed |-> Cardinality(of("failed"))]

---------------------------------------------------------------------------

Init ==
  /\ revision \in Revisions
  /\ surfaces = [f \in Surfaces |-> Absent]
  /\ sims = [s \in Scenarios |-> Absent]
  /\ run_index = Absent /\ coverage = Absent
  /\ docs = [p \in Pages |-> Absent]
  /\ packages = [p \in Packages |-> [manifest |-> Absent, files |-> Absent]]
  /\ exit = "none"
  /\ budget \in Budget[revision] /\ upsets = 0

\* Every command: one of the budget, and the author is not editing meanwhile.
Invoked(kind) ==
  /\ budget[kind] > 0 /\ budget' = [budget EXCEPT ![kind] = @ - 1]
  /\ UNCHANGED revision

Exits(how) == exit' = how /\ UNCHANGED upsets
Fails == Exits("failed") /\ UNCHANGED files

\* A file is opened for writing, which empties it, and written.
Upset == upsets < MaxUpsets /\ upsets' = upsets + 1
Killed == Upset /\ exit' = "killed"
WriteSurface(f, how) ==
  /\ \/ Exits(how) /\ surfaces' = [surfaces EXCEPT ![f] = revision]
     \/ Killed /\ surfaces' = [surfaces EXCEPT ![f] = CutOff]
  /\ UNCHANGED <<sims, run_index, coverage, docs, packages>>

---------------------------------------------------------------------------
(* orbitfabric lint, inspect, export *)

Lint ==
  /\ Invoked("other")
  /\ \/ LoadsNot[revision] /\ Fails
     \/ ~LoadsNot[revision] /\ \E warnings_as_errors \in BOOLEAN :
          WriteSurface("lint",
            IF \/ has_errors(Report[revision])
               \/ warnings_as_errors /\ Of(Report[revision], "WARNING") # {}
              THEN "failed" ELSE "passed")

InspectMission ==
  /\ Invoked("other")
  /\ Exits(IF LoadsNot[revision] THEN "failed" ELSE "passed") /\ UNCHANGED files

ExportSurface(f, kind) ==
  /\ Invoked(kind)
  /\ \/ LoadsNot[revision] /\ Fails
     \/ ~LoadsNot[revision] /\ WriteSurface(f, "passed")
ExportModelSummary == ExportSurface("model_summary", "other")
ExportEntityIndex == ExportSurface("entity_index", "evidence")
ExportRelationshipManifest == ExportSurface("relationship_manifest", "evidence")
ExportDashboardSummary == ExportSurface("dashboard_summary", "other")

\* A model that does not load is exported as the diagnostics it failed with; only for a
\* directory that is not there does no command start.
ExportMissionSnapshot ==
  /\ Invoked("other")
  /\ \/ NoDirectory[revision] /\ Fails
     \/ ~NoDirectory[revision] /\
        WriteSurface("mission_snapshot",
          IF SnapshotOf[revision].result = "failed" THEN "failed" ELSE "passed")

---------------------------------------------------------------------------
(* orbitfabric gen: nothing is generated while there are lint errors. *)

\* The pages are written one after the other; data_flow is the last.
Written(pages, n) ==
  [p \in Pages |-> IF \E k \in 1..n : pages[k] = p THEN revision ELSE docs[p]]
GenDocs ==
  /\ Invoked("other")
  /\ LET pages == SelectSeq(PageOrder, LAMBDA p : HasPage(Model, p))
     IN  \/ ~LintClean[revision] /\ Fails
         \/ /\ LintClean[revision]
            /\ \/ Exits("passed") /\ docs' = Written(pages, Len(pages))
               \/ \E n \in DOMAIN pages :
                    Killed /\ docs' = [Written(pages, n - 1) EXCEPT ![pages[n]] = CutOff]
            /\ UNCHANGED <<surfaces, sims, run_index, coverage, packages>>

GenDataFlow ==
  /\ Invoked("other")
  /\ \/ ~LintClean[revision] /\ Fails
     \/ /\ LintClean[revision]
        /\ \/ Exits("passed") /\ docs' = [docs EXCEPT !["data_flow"] = revision]
           \/ Killed /\ docs' = [docs EXCEPT !["data_flow"] = CutOff]
        /\ UNCHANGED <<surfaces, sims, run_index, coverage, packages>>

\* Mutant of GenPackage: the package is written before lint runs.
PackageThenLint(p) ==
  /\ Invoked("other")
  /\ \E supported \in BOOLEAN :
       \/ ~(supported /\ ~LoadsNot[revision]) /\ Fails
       \/ /\ supported /\ ~LoadsNot[revision]
          /\ Exits(IF LintClean[revision] THEN "passed" ELSE "failed")
          /\ packages' = [packages EXCEPT ![p] = [manifest |-> revision, files |-> revision]]
          /\ UNCHANGED <<surfaces, sims, run_index, coverage, docs>>

\* supported: whether the profile that the user names is cpp17, or generic.  The manifest
\* is written before the files that it describes.
GenPackage(p) ==
  /\ Invoked("other")
  /\ \E supported \in BOOLEAN :
       \/ ~(supported /\ LintClean[revision]) /\ Fails
       \/ /\ supported /\ LintClean[revision]
          /\ \/ /\ Exits("passed")
                /\ packages' = [packages EXCEPT ![p] = [manifest |-> revision,
                                                       files |-> revision]]
             \/ Killed /\ packages' = [packages EXCEPT ![p].manifest = CutOff]
             \/ Killed /\ packages' = [packages EXCEPT ![p] = [manifest |-> revision,
                                                              files |-> CutOff]]
          /\ UNCHANGED <<surfaces, sims, run_index, coverage, docs>>
GenRuntime == GenPackage("runtime")
GenGround == GenPackage("ground")

---------------------------------------------------------------------------
(* orbitfabric sim, export scenario-run-index, export coverage-summary *)

\* sim does not lint: an undeclared event ends it with a KeyError, before the report.
Sim(s) ==
  /\ Invoked("evidence")
  /\ UNCHANGED <<surfaces, run_index, coverage, docs, packages>>
  /\ \/ LoadsNot[revision] /\ Exits("failed") /\ UNCHANGED sims
     \/ ~LoadsNot[revision] /\
        \E course \in {c \in Courses : c.dispatched \subseteq Declared(Model, "commands")} :
          LET report == SimulationReport(Model, course)
          IN  \/ /\ ~(report.events \subseteq Declared(Model, "events"))
                 /\ Exits("traceback") /\ UNCHANGED sims
              \/ /\ report.events \subseteq Declared(Model, "events")
                 /\ \/ Exits(report.result) /\ sims' = [sims EXCEPT ![s] = report]
                    \/ Killed /\ sims' = [sims EXCEPT ![s] = CutOff]

\* Every *.json of the reports directory is read: one cut off, even of another command
\* or the index itself, and the export fails.
SomeCutOff ==
  \/ \E f \in Surfaces : surfaces[f] = CutOff
  \/ \E s \in Scenarios : sims[s] = CutOff
  \/ run_index = CutOff \/ coverage = CutOff

ExportScenarioRunIndex ==
  /\ Invoked("evidence")
  /\ UNCHANGED <<surfaces, sims, coverage, docs, packages>>
  /\ \/ SomeCutOff /\ Exits("failed") /\ UNCHANGED run_index
     \/ /\ ~SomeCutOff
        /\ \/ /\ Exits("passed")
              /\ run_index' = [s \in {t \in Scenarios : Readable(sims[t])} |-> run_record(sims[s])]
           \/ Killed /\ run_index' = CutOff

\* What stops the export: no such file is an OSError that nobody catches.
Unreadable(file) == IF file = Absent THEN "traceback" ELSE "failed"
Inputs == <<surfaces["entity_index"], surfaces["relationship_manifest"], run_index>>

ExportCoverageSummary ==
  /\ Invoked("evidence")
  /\ UNCHANGED <<surfaces, sims, run_index, docs, packages>>
  /\ \/ NoDirectory[revision] /\ Exits("failed") /\ UNCHANGED coverage
     \/ \E k \in DOMAIN Inputs :
          /\ ~NoDirectory[revision]
          /\ ~Readable(Inputs[k]) /\ \A j \in 1..(k - 1) : Readable(Inputs[j])
          /\ Exits(Unreadable(Inputs[k])) /\ UNCHANGED coverage
     \/ /\ ~NoDirectory[revision] /\ \A k \in DOMAIN Inputs : Readable(Inputs[k])
        /\ \/ \E s \in DOMAIN run_index :
                /\ ~Readable(sims[s])
                /\ Exits(Unreadable(sims[s])) /\ UNCHANGED coverage
           \/ /\ \A s \in DOMAIN run_index : Readable(sims[s])
              /\ \/ /\ Exits("passed")
                    /\ coverage' = [index |-> surfaces["entity_index"],
                                    manifest |-> surfaces["relationship_manifest"],
                                    runs |-> run_index,
                                    reports |-> [s \in DOMAIN run_index |-> sims[s]]]
                 \/ Killed /\ coverage' = CutOff

---------------------------------------------------------------------------
(* The author edits the mission directory, or deletes a simulation report. *)

Edit ==
  /\ Upset
  /\ \E r \in Revised \ {revision} : revision' = r
  /\ UNCHANGED <<files, exit, budget>>

Delete(s) ==
  /\ Upset
  /\ sims[s] # Absent /\ sims' = [sims EXCEPT ![s] = Absent]
  /\ UNCHANGED <<revision, surfaces, run_index, coverage, docs, packages, exit, budget>>

Next ==
  \/ Lint \/ InspectMission
  \/ ExportModelSummary \/ ExportEntityIndex \/ ExportRelationshipManifest
  \/ ExportDashboardSummary \/ ExportMissionSnapshot
  \/ GenDocs \/ GenDataFlow \/ GenRuntime \/ GenGround
  \/ \E s \in Scenarios : Sim(s)
  \/ ExportScenarioRunIndex \/ ExportCoverageSummary
  \/ Edit \/ \E s \in Scenarios : Delete(s)

Spec == Init /\ [][Next]_vars

---------------------------------------------------------------------------
(* Properties *)

Evidence == [command : Ids, product : Ids, flows : SUBSET Ids, windows : SUBSET Ids]
SimReports == [result : {"passed", "failed"}, commands : SUBSET Ids, events : SUBSET Ids,
               evidence : SUBSET Evidence,
               expectations : Seq({"passed", "failed"}), of : Revisions]
IsRunIndex(runs) ==
  /\ DOMAIN runs \subseteq Scenarios
  /\ \A s \in DOMAIN runs : runs[s].result \in {"passed", "failed"}
IsCoverage(read) ==
  /\ read.index \in Revisions /\ read.manifest \in Revisions
  /\ IsRunIndex(read.runs)
  /\ DOMAIN read.reports = DOMAIN read.runs
  /\ \A s \in DOMAIN read.reports : read.reports[s] \in SimReports

Generated(file) == Readable(file) => file \in Revisions /\ LintClean[file]

\* What the files are made from are revisions that load; what is generated has no lint errors.
TypeOK ==
  /\ revision \in Revisions
  /\ \A f \in Surfaces : Readable(surfaces[f]) =>
       surfaces[f] \in Revisions /\ (f # "mission_snapshot" => ~LoadsNot[surfaces[f]])
  /\ \A s \in Scenarios : Readable(sims[s]) =>
       sims[s] \in SimReports /\ ~LoadsNot[sims[s].of]
  /\ Readable(run_index) => IsRunIndex(run_index)
  /\ Readable(coverage) => IsCoverage(coverage)
  /\ \A p \in Pages : Generated(docs[p])
  /\ \A p \in Packages : Generated(packages[p].manifest) /\ Generated(packages[p].files)
  /\ budget \in [Kinds -> Nat] /\ upsets \in 0..MaxUpsets

\* A Relationship Manifest of a model without lint errors holds one record for each
\* reference in the fields that its type list names, none is dropped, and every end of a
\* record is an entity of the Entity Index of that model (relationship_manifest.py filters
\* twenty of its families by declared ids and not the other six; docs/reference/
\* relationship-manifest-surface.md:185).
ManifestFaithful ==
  LET r == surfaces["relationship_manifest"]
      manifest == ManifestOf[r]
      index == IndexOf[r]
  IN  Readable(r) /\ LintClean[r] =>
        /\ manifest.relationships =
             UNION {Relate(t, TypeSpec[t].from, Stated(ModelOf[r], t), TypeSpec[t].to) :
                      t \in DOMAIN TypeSpec}
        /\ \A x \in manifest.relationships : {x.from, x.to} \subseteq index.entities

\* Coverage that was computed from an index and a manifest of one model is consistent: a
\* product counts as covered if and only if its producer relation does, a flow's relation
\* is covered only with its product, and also with it when the reports are of that model.
CoverageConsistent ==
  LET products == entity_coverage(coverage)["data_products"]
      relations == relationship_coverage(coverage)
      all == relations.covered \cup relations.uncovered
  IN  Readable(coverage) /\ coverage.index = coverage.manifest =>
        /\ \A x \in all : x.type \in ProducedTypes =>
             (x \in relations.covered <=> x.from.id \in products.covered)
        /\ \A x \in relations.covered :
             x.type \notin ProducedTypes => x.to.id \in products.covered
        /\ (\A s \in DOMAIN coverage.reports : coverage.reports[s].of = coverage.index) =>
             \A x \in relations.uncovered :
               x.type \notin ProducedTypes => x.to.id \in products.uncovered

\* The counts of runs, copied from the run index, and the counts of expectations, made
\* from the reports again, do not contradict each other unless a report was replaced after
\* it was indexed: no run failed if and only if no expectation did, and every one of them
\* passed or failed.
CoverageTalliesAgree ==
  LET counted == expectation_coverage(coverage)
      runs == scenario_runs(coverage.runs)
  IN  Readable(coverage) /\
      (\A s \in DOMAIN coverage.runs : coverage.runs[s] = run_record(coverage.reports[s])) =>
        /\ counted.total = counted.passed + counted.failed
        /\ runs.failed = 0 <=> counted.failed = 0
        /\ runs.total = runs.passed + runs.failed

\* The data-flow page and the simulator derive flows and windows of a product on their own;
\* whatever a simulation of the documented model shows, the page says.
DocsAgreeWithEvidence ==
  \A s \in Scenarios :
    Readable(sims[s]) /\ docs["data_flow"] = sims[s].of =>
      LET m == ModelOf[sims[s].of]
      IN  \A e \in sims[s].evidence :
            \E row \in data_flow_records(m) :
               /\ row.command = e.command /\ row.product = e.product /\ row.flows = e.flows
               /\ matching_contact_windows(m, row) = e.windows

=============================================================================
