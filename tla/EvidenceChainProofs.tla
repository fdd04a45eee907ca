------------------------ MODULE EvidenceChainProofs ------------------------
(***************************************************************************)
(* What holds of the evidence chain for any mission directories, any       *)
(* scenarios and any number of commands, edits and kills.                  *)
(***************************************************************************)
EXTENDS EvidenceChain, LintProofs, FiniteSetTheorems

---------------------------------------------------------------------------
(* What the ids of a loaded model are. *)

LEMMA TableNames ==
  Tables = {"contact_profiles", "link_profiles", "contact_windows", "downlink_flows",
            "command_sources", "commandability_rules", "autonomous_actions", "recovery_intents",
            "payloads", "data_products", "subsystems", "modes", "telemetry", "commands",
            "events", "faults", "packets"}
<1>1. /\ TablesOf("contacts.yaml") = {"contact_profiles", "link_profiles", "contact_windows",
                                       "downlink_flows"}
      /\ TablesOf("commandability.yaml") = {"command_sources", "commandability_rules",
                                             "autonomous_actions", "recovery_intents"}
      /\ TablesOf("payloads.yaml") = {"payloads"}
      /\ TablesOf("data_products.yaml") = {"data_products"}
      /\ TablesOf("subsystems.yaml") = {"subsystems"} /\ TablesOf("modes.yaml") = {"modes"}
      /\ TablesOf("telemetry.yaml") = {"telemetry"} /\ TablesOf("commands.yaml") = {"commands"}
      /\ TablesOf("events.yaml") = {"events"} /\ TablesOf("faults.yaml") = {"faults"}
      /\ TablesOf("packets.yaml") = {"packets"}
      /\ TablesOf("spacecraft.yaml") = {} /\ TablesOf("policies.yaml") = {}
  BY DEF TablesOf
<1>2. ModelFiles = {"contacts.yaml", "commandability.yaml", "payloads.yaml", "data_products.yaml",
                    "subsystems.yaml", "modes.yaml", "telemetry.yaml", "commands.yaml",
                    "events.yaml", "faults.yaml", "packets.yaml", "spacecraft.yaml",
                    "policies.yaml"}
  BY DEF ModelFiles, REQUIRED_FILES, OPTIONAL_FILES
<1> QED
  BY <1>1, <1>2 DEF Tables

LEMMA LoadedIds ==
  ASSUME NEW r \in Revisions, NEW d \in Tables
  PROVE  Declared(ModelOf[r], d) \subseteq Ids
<1> DEFINE ws == Workspace[r]
<1>1. IsModel(ws.text) /\ Tables \subseteq DOMAIN ws.text
  BY ChainAssumption DEF IsWorkspace
<1>2. ModelOf[r][d] \in {<<>>, ws.text[d]}
  BY <1>1 DEF ModelOf, Loaded
<1>3. DOMAIN ws.text[d] \subseteq Ids
  BY <1>1, TableNames DEF IsModel, IsTable
<1>4. DOMAIN << >> = {}
  OBVIOUS
<1> QED
  BY <1>2, <1>3, <1>4 DEF Declared

---------------------------------------------------------------------------
(* Type correctness. *)

Files == Revisions \cup {Absent, CutOff}

\* The files are functions of their names.
Shape ==
  /\ surfaces \in [Surfaces -> Files] /\ sims = [s \in Scenarios |-> sims[s]]
  /\ docs \in [Pages -> Files]
  /\ packages \in [Packages -> [manifest : Files, files : Files]]

SurfaceOK(f, file) ==
  Readable(file) => file \in Revisions /\ (f # "mission_snapshot" => ~LoadsNot[file])
ReportOK(report) == report \in SimReports /\ ~LoadsNot[report.of]

\* The evidence of a report is what the simulator derives from the model it was run on,
\* and its result is what its expectations came to.
Derived(report) ==
  /\ \A e \in report.evidence :
       \E c \in Declared(ModelOf[report.of], "commands") : e \in data_flow_evidence(ModelOf[report.of], c)
  /\ report.result = "failed" <=> Came(report, "failed") # {}

SurfacesInv == \A f \in Surfaces : SurfaceOK(f, surfaces[f])
SimsInv == \A s \in Scenarios : Readable(sims[s]) => ReportOK(sims[s]) /\ Derived(sims[s])
RunsInv == Readable(run_index) => IsRunIndex(run_index)
CoverageInv ==
  Readable(coverage) => IsCoverage(coverage) /\ \A s \in DOMAIN coverage.reports : Derived(coverage.reports[s])
GeneratedInv ==
  /\ \A p \in Pages : Generated(docs[p])
  /\ \A p \in Packages : Generated(packages[p].manifest) /\ Generated(packages[p].files)
BudgetInv == revision \in Revisions /\ budget \in [Kinds -> Nat] /\ upsets \in 0..MaxUpsets

FilesInv == Shape /\ SurfacesInv /\ SimsInv /\ RunsInv /\ CoverageInv /\ GeneratedInv
ChainInv == FilesInv /\ BudgetInv

LEMMA ChainInvTypes == ChainInv => TypeOK
BY DEF ChainInv, FilesInv, BudgetInv, SurfacesInv, SurfaceOK, SimsInv, ReportOK, RunsInv,
       CoverageInv, GeneratedInv, TypeOK

LEMMA ChainInvInit == Init => ChainInv
<1> SUFFICES ASSUME Init PROVE ChainInv
  OBVIOUS
<1>1. BudgetInv
  BY ChainAssumption DEF Init, BudgetInv
<1>2. Shape
  BY DEF Init, Shape, Files
<1>3. SurfacesInv /\ SimsInv /\ RunsInv /\ CoverageInv
  BY DEF Init, SurfacesInv, SurfaceOK, SimsInv, RunsInv, CoverageInv, Readable
<1>4. GeneratedInv
  BY DEF Init, GeneratedInv, Generated, Readable
<1> QED
  BY <1>1, <1>2, <1>3, <1>4 DEF ChainInv, FilesInv

\* Every command spends some of its budget, or there is one upset more.
LEMMA BudgetStep == ASSUME BudgetInv, [Next]_vars PROVE BudgetInv'
<1>1. ASSUME NEW kind \in Kinds, Invoked(kind), UNCHANGED upsets \/ Upset PROVE BudgetInv'
  <2>1. budget' = [budget EXCEPT ![kind] = @ - 1] /\ budget[kind] - 1 \in Nat
    BY <1>1 DEF Invoked, BudgetInv
  <2>2. budget' \in [Kinds -> Nat]
    BY <2>1 DEF BudgetInv
  <2>3. upsets' \in 0..MaxUpsets
    BY <1>1, ChainAssumption DEF BudgetInv, Upset
  <2> QED
    BY <1>1, <2>2, <2>3 DEF Invoked, BudgetInv
<1>2. "other" \in Kinds /\ "evidence" \in Kinds
  BY DEF Kinds
<1>3. ASSUME NEW f, NEW how, WriteSurface(f, how) PROVE UNCHANGED upsets \/ Upset
  BY <1>3 DEF WriteSurface, Exits, Killed
<1>4. ASSUME NEW f, NEW kind, ExportSurface(f, kind) PROVE UNCHANGED upsets \/ Upset
  BY <1>3, <1>4 DEF ExportSurface, Fails, Exits
<1>5. CASE Lint \/ InspectMission \/ ExportMissionSnapshot
  <2>1. UNCHANGED upsets \/ Upset
    BY <1>3, <1>5 DEF Lint, InspectMission, ExportMissionSnapshot, Fails, Exits
  <2> QED
    BY <1>1, <1>2, <1>5, <2>1 DEF Lint, InspectMission, ExportMissionSnapshot
<1>6. CASE ExportModelSummary \/ ExportEntityIndex \/ ExportRelationshipManifest
           \/ ExportDashboardSummary
  BY <1>1, <1>2, <1>4, <1>6
  DEF ExportModelSummary, ExportEntityIndex, ExportRelationshipManifest, ExportDashboardSummary,
      ExportSurface
<1>7. CASE GenDocs
  <2>1. UNCHANGED upsets \/ Upset
    BY <1>7 DEF GenDocs, Fails, Exits, Killed
  <2> QED
    BY <1>1, <1>2, <1>7, <2>1 DEF GenDocs
<1>8. CASE GenDataFlow
  BY <1>1, <1>2, <1>8 DEF GenDataFlow, Fails, Exits, Killed
<1>9. CASE GenRuntime \/ GenGround
  <2>1. PICK p \in Packages : GenPackage(p)
    BY <1>9 DEF GenRuntime, GenGround, Packages
  <2> QED
    BY <1>1, <1>2, <2>1 DEF GenPackage, Fails, Exits, Killed
<1>10. ASSUME NEW s \in Scenarios, Sim(s) PROVE BudgetInv'
  <2>1. UNCHANGED upsets \/ Upset
    BY <1>10 DEF Sim, Exits, Killed
  <2> QED
    BY <1>1, <1>2, <1>10, <2>1 DEF Sim
<1>11. CASE ExportScenarioRunIndex \/ ExportCoverageSummary
  BY <1>1, <1>2, <1>11 DEF ExportScenarioRunIndex, ExportCoverageSummary, Exits, Killed
<1>12. CASE Edit
  BY <1>12, ChainAssumption DEF Edit, Upset, BudgetInv
<1>13. ASSUME NEW s \in Scenarios, Delete(s) PROVE BudgetInv'
  BY <1>13, ChainAssumption DEF Delete, Upset, BudgetInv
<1>14. CASE UNCHANGED vars
  BY <1>14 DEF vars, BudgetInv
<1> QED
  BY <1>5, <1>6, <1>7, <1>8, <1>9, <1>10, <1>11, <1>12, <1>13, <1>14 DEF Next

LEMMA SameFiles == ASSUME FilesInv, UNCHANGED files PROVE FilesInv'
<1>1. UNCHANGED <<surfaces, sims, run_index, coverage, docs, packages>>
  BY DEF files
<1>2. Shape' /\ SurfacesInv' /\ SimsInv' /\ RunsInv' /\ CoverageInv' /\ GeneratedInv'
  BY <1>1 DEF FilesInv, Shape, SurfacesInv, SimsInv, RunsInv, CoverageInv, GeneratedInv
<1> QED
  BY <1>2 DEF FilesInv

LEMMA SurfaceWritten ==
  ASSUME FilesInv, revision \in Revisions, NEW f \in Surfaces, NEW how, WriteSurface(f, how),
         f # "mission_snapshot" => ~LoadsNot[revision]
  PROVE  FilesInv'
<1>1. PICK file \in {revision, CutOff} : surfaces' = [surfaces EXCEPT ![f] = file]
  BY DEF WriteSurface
<1>2. UNCHANGED <<sims, run_index, coverage, docs, packages>>
  BY DEF WriteSurface
<1>3. SurfaceOK(f, file) /\ file \in Files
  BY <1>1 DEF SurfaceOK, Readable, Files
<1>4. Shape'
  BY <1>1, <1>2, <1>3 DEF FilesInv, Shape
<1>5. SurfacesInv'
  <2> SUFFICES ASSUME NEW g \in Surfaces PROVE SurfaceOK(g, surfaces'[g])
    BY DEF SurfacesInv
  <2> QED
    BY <1>1, <1>3 DEF FilesInv, Shape, SurfacesInv
<1>6. SimsInv' /\ RunsInv' /\ CoverageInv' /\ GeneratedInv'
  BY <1>2 DEF FilesInv, SimsInv, RunsInv, CoverageInv, GeneratedInv
<1> QED
  BY <1>4, <1>5, <1>6 DEF FilesInv

\* Generated files change: each of them is of the revision, is cut off, or is as it was.
LEMMA FilesGenerated ==
  ASSUME FilesInv, revision \in Revisions, LintClean[revision],
         UNCHANGED <<surfaces, sims, run_index, coverage>>,
         docs' \in [Pages -> Files], packages' \in [Packages -> [manifest : Files, files : Files]],
         \A p \in Pages : docs'[p] \in {docs[p], revision, CutOff},
         \A p \in Packages : /\ packages'[p].manifest \in {packages[p].manifest, revision, CutOff}
                             /\ packages'[p].files \in {packages[p].files, revision, CutOff}
  PROVE  FilesInv'
<1>1. Shape' /\ SurfacesInv' /\ SimsInv' /\ RunsInv' /\ CoverageInv'
  BY DEF FilesInv, Shape, SurfacesInv, SimsInv, RunsInv, CoverageInv
<1>2. Generated(revision) /\ Generated(CutOff)
  BY DEF Generated, Readable
<1>3. GeneratedInv'
  BY <1>2 DEF FilesInv, GeneratedInv
<1> QED
  BY <1>1, <1>3 DEF FilesInv

LEMMA DocsWritten ==
  ASSUME FilesInv, revision \in Revisions, GenDocs \/ GenDataFlow
  PROVE  FilesInv'
<1>1. CASE UNCHANGED files
  BY <1>1, SameFiles
<1>2. CASE LintClean[revision] /\ UNCHANGED <<surfaces, sims, run_index, coverage, packages>>
           /\ docs' \in [Pages -> Files] /\ \A p \in Pages : docs'[p] \in {docs[p], revision, CutOff}
  <2>1. packages' \in [Packages -> [manifest : Files, files : Files]]
    BY <1>2 DEF FilesInv, Shape
  <2> QED
    BY <1>2, <2>1, FilesGenerated
<1>3. docs \in [Pages -> Files] /\ revision \in Files /\ CutOff \in Files
  BY DEF FilesInv, Shape, Files
<1>4. ASSUME NEW pages, NEW n PROVE Written(pages, n) \in [Pages -> Files]
                                    /\ \A p \in Pages : Written(pages, n)[p] \in {docs[p], revision}
  BY <1>3 DEF Written
<1>5. CASE GenDocs
  <2> DEFINE pages == SelectSeq(PageOrder, LAMBDA p : HasPage(Model, p))
  <2> HIDE DEF pages
  <2>1. \/ UNCHANGED files
        \/ /\ LintClean[revision] /\ UNCHANGED <<surfaces, sims, run_index, coverage, packages>>
           /\ \/ docs' = Written(pages, Len(pages))
              \/ \E n \in DOMAIN pages : docs' = [Written(pages, n - 1) EXCEPT ![pages[n]] = CutOff]
    BY <1>5 DEF GenDocs, pages, Fails, Exits
  <2>2. ASSUME NEW n, docs' = [Written(pages, n) EXCEPT ![pages[n + 1]] = CutOff]
        PROVE  docs' \in [Pages -> Files] /\ \A p \in Pages : docs'[p] \in {docs[p], revision, CutOff}
    BY <1>3, <1>4, <2>2
  <2> QED
    BY <1>1, <1>2, <1>3, <1>4, <2>1
<1>6. CASE GenDataFlow
  <2>1. \/ UNCHANGED files
        \/ /\ LintClean[revision] /\ UNCHANGED <<surfaces, sims, run_index, coverage, packages>>
           /\ \/ docs' = [docs EXCEPT !["data_flow"] = revision]
              \/ docs' = [docs EXCEPT !["data_flow"] = CutOff]
    BY <1>6 DEF GenDataFlow, Fails, Exits
  <2> QED
    BY <1>1, <1>2, <1>3, <2>1
<1> QED
  BY <1>5, <1>6

LEMMA PackageWritten ==
  ASSUME FilesInv, revision \in Revisions, NEW p \in Packages, GenPackage(p)
  PROVE  FilesInv'
<1>1. CASE UNCHANGED files
  BY <1>1, SameFiles
<1>2. CASE LintClean[revision] /\ UNCHANGED <<surfaces, sims, run_index, coverage, docs>>
           /\ \/ packages' = [packages EXCEPT ![p] = [manifest |-> revision, files |-> revision]]
              \/ packages' = [packages EXCEPT ![p].manifest = CutOff]
              \/ packages' = [packages EXCEPT ![p] = [manifest |-> revision, files |-> CutOff]]
  <2>1. /\ packages \in [Packages -> [manifest : Files, files : Files]]
        /\ docs' \in [Pages -> Files] /\ \A q \in Pages : docs'[q] = docs[q]
        /\ revision \in Files /\ CutOff \in Files
    BY <1>2 DEF FilesInv, Shape, Files
  <2>2. packages' \in [Packages -> [manifest : Files, files : Files]]
    BY <1>2, <2>1
  <2>3. \A q \in Packages : /\ packages'[q].manifest \in {packages[q].manifest, revision, CutOff}
                            /\ packages'[q].files \in {packages[q].files, revision, CutOff}
    BY <1>2, <2>1
  <2> QED
    BY <1>2, <2>1, <2>2, <2>3, FilesGenerated
<1> QED
  BY <1>1, <1>2 DEF GenPackage, Fails, Exits

\* The report of a simulation, whichever way it goes.
LEMMA ReportTypes ==
  ASSUME revision \in Revisions, ~LoadsNot[revision],
         NEW course \in {c \in Courses : c.dispatched \subseteq Declared(Model, "commands")},
         SimulationReport(Model, course).events \subseteq Declared(Model, "events")
  PROVE  LET report == SimulationReport(Model, course)
         IN  ReportOK(report) /\ Derived(report)
<1> DEFINE report == SimulationReport(Model, course)
<1>1. /\ Declared(Model, "commands") \subseteq Ids /\ Declared(Model, "events") \subseteq Ids
      /\ Declared(Model, "data_products") \subseteq Ids
      /\ Declared(Model, "downlink_flows") \subseteq Ids
      /\ Declared(Model, "contact_windows") \subseteq Ids
  BY LoadedIds, TableNames DEF Model
<1>2. ASSUME NEW c \in course.executed PROVE data_flow_evidence(Model, c) \subseteq Evidence
  <2>0. c \in Declared(Model, "commands")
    BY ChainAssumption
  <2>1. ASSUME NEW d PROVE eligible_flows(Model, d) \subseteq Ids
    BY <1>1 DEF eligible_flows, Lists, Declared
  <2>2. ASSUME NEW flows PROVE contact_windows_for_flows(Model, flows) \subseteq Ids
    BY <1>1 DEF contact_windows_for_flows
  <2> QED
    BY <1>1, <2>0, <2>1, <2>2 DEF data_flow_evidence, Evidence
<1>3. course.expectations \in Seq({"passed", "failed"})
  BY ChainAssumption
<1>4. report.evidence \subseteq Evidence
  BY <1>2 DEF SimulationReport
<1>5. report.events \subseteq Ids /\ report.commands \subseteq Ids
  BY <1>1 DEF SimulationReport
<1>6. report \in SimReports /\ report.of = revision
  BY <1>3, <1>4, <1>5 DEF SimulationReport, SimReports
<1>7. Derived(report)
  <2>1. Came(report, "failed") = Came(course, "failed")
    BY DEF Came, SimulationReport
  <2>2. report.result = "failed" <=> Came(report, "failed") # {}
    BY <2>1 DEF SimulationReport
  <2>3. course.executed \subseteq Declared(Model, "commands")
    BY ChainAssumption
  <2> QED
    BY <2>2, <2>3 DEF Derived, SimulationReport, Model
<1> QED
  BY <1>6, <1>7 DEF ReportOK

LEMMA ReportWritten ==
  ASSUME FilesInv, revision \in Revisions, NEW s \in Scenarios, Sim(s) \/ Delete(s)
  PROVE  FilesInv'
<1>1. UNCHANGED <<surfaces, run_index, coverage, docs, packages>>
  BY DEF Sim, Delete
<1>2. CASE UNCHANGED sims
  BY <1>1, <1>2, SameFiles DEF files
<1>3. ASSUME NEW report, sims' = [sims EXCEPT ![s] = report],
             Readable(report) => ReportOK(report) /\ Derived(report)
      PROVE  FilesInv'
  <2>1. sims = [t \in Scenarios |-> sims[t]]
    BY DEF FilesInv, Shape
  <2>2. sims' = [t \in Scenarios |-> IF t = s THEN report ELSE sims[t]]
    BY <1>3, <2>1
  <2>3. sims' = [t \in Scenarios |-> sims'[t]] /\ \A t \in Scenarios : sims'[t] \in {sims[t], report}
                                              /\ (t # s => sims'[t] = sims[t])
    BY <2>2
  <2>4. Shape'
    BY <1>1, <2>3 DEF FilesInv, Shape
  <2>5. SimsInv'
    <3> SUFFICES ASSUME NEW t \in Scenarios, Readable(sims'[t])
                 PROVE  ReportOK(sims'[t]) /\ Derived(sims'[t])
      BY DEF SimsInv
    <3>1. CASE sims'[t] = report
      BY <1>3, <3>1
    <3>2. CASE sims'[t] = sims[t]
      BY <3>2 DEF FilesInv, SimsInv
    <3> QED
      BY <2>3, <3>1, <3>2
  <2>6. SurfacesInv' /\ RunsInv' /\ CoverageInv' /\ GeneratedInv'
    BY <1>1 DEF FilesInv, SurfacesInv, RunsInv, CoverageInv, GeneratedInv
  <2> QED
    BY <2>4, <2>5, <2>6 DEF FilesInv
<1>4. CASE Delete(s) \/ sims' = [sims EXCEPT ![s] = CutOff]
  BY <1>3, <1>4 DEF Delete, Readable
<1>5. ASSUME ~LoadsNot[revision],
             NEW course \in {c \in Courses : c.dispatched \subseteq Declared(Model, "commands")},
             SimulationReport(Model, course).events \subseteq Declared(Model, "events"),
             sims' = [sims EXCEPT ![s] = SimulationReport(Model, course)]
      PROVE  FilesInv'
  BY <1>3, <1>5, ReportTypes
<1> QED
  BY <1>2, <1>4, <1>5 DEF Sim

LEMMA RunIndexWritten ==
  ASSUME FilesInv, ExportScenarioRunIndex
  PROVE  FilesInv'
<1>1. UNCHANGED <<surfaces, sims, coverage, docs, packages>>
  BY DEF ExportScenarioRunIndex
<1>2. RunsInv'
  <2> DEFINE runs == [s \in {t \in Scenarios : Readable(sims[t])} |-> run_record(sims[s])]
  <2>1. IsRunIndex(runs)
    BY DEF FilesInv, SimsInv, ReportOK, SimReports, IsRunIndex, run_record
  <2>2. run_index' \in {run_index, runs, CutOff}
    BY DEF ExportScenarioRunIndex
  <2> QED
    BY <2>1, <2>2 DEF FilesInv, RunsInv, Readable
<1>3. Shape' /\ SurfacesInv' /\ SimsInv' /\ CoverageInv' /\ GeneratedInv'
  BY <1>1 DEF FilesInv, Shape, SurfacesInv, SimsInv, CoverageInv, GeneratedInv
<1> QED
  BY <1>2, <1>3 DEF FilesInv

LEMMA CoverageWritten ==
  ASSUME FilesInv, ExportCoverageSummary
  PROVE  FilesInv'
<1>1. UNCHANGED <<surfaces, sims, run_index, docs, packages>>
  BY DEF ExportCoverageSummary
<1> DEFINE read == [index |-> surfaces["entity_index"],
                    manifest |-> surfaces["relationship_manifest"],
                    runs |-> run_index,
                    reports |-> [s \in DOMAIN run_index |-> sims[s]]]
<1>2. \/ coverage' \in {coverage, CutOff}
      \/ /\ coverage' = read /\ \A k \in DOMAIN Inputs : Readable(Inputs[k])
         /\ \A s \in DOMAIN run_index : Readable(sims[s])
  BY DEF ExportCoverageSummary
<1>5. CoverageInv'
  <2>1. CASE coverage' \in {coverage, CutOff}
    BY <2>1 DEF FilesInv, CoverageInv, Readable
  <2>2. CASE /\ coverage' = read /\ \A k \in DOMAIN Inputs : Readable(Inputs[k])
             /\ \A s \in DOMAIN run_index : Readable(sims[s])
    <3>1. /\ Readable(surfaces["entity_index"]) /\ Readable(surfaces["relationship_manifest"])
          /\ Readable(run_index)
      BY <2>2 DEF Inputs
    <3>2. surfaces["entity_index"] \in Revisions /\ surfaces["relationship_manifest"] \in Revisions
      BY <3>1 DEF FilesInv, SurfacesInv, SurfaceOK, Surfaces
    <3>3. IsRunIndex(run_index)
      BY <3>1 DEF FilesInv, RunsInv
    <3>4. \A s \in DOMAIN run_index : sims[s] \in SimReports /\ Derived(sims[s])
      BY <2>2, <3>3 DEF IsRunIndex, FilesInv, SimsInv, ReportOK
    <3>5. IsCoverage(read)
      BY <3>2, <3>3, <3>4 DEF IsCoverage
    <3> QED
      BY <2>2, <3>4, <3>5 DEF CoverageInv
  <2> QED
    BY <1>2, <2>1, <2>2
<1>6. Shape' /\ SurfacesInv' /\ SimsInv' /\ RunsInv' /\ GeneratedInv'
  BY <1>1 DEF FilesInv, Shape, SurfacesInv, SimsInv, RunsInv, GeneratedInv
<1> QED
  BY <1>5, <1>6 DEF FilesInv

LEMMA ChainInvStep == ASSUME ChainInv, [Next]_vars PROVE ChainInv'
<1>1. BudgetInv' /\ FilesInv /\ revision \in Revisions
  BY BudgetStep DEF ChainInv, BudgetInv
<1> SUFFICES FilesInv'
  BY <1>1 DEF ChainInv
<1>2. ASSUME NEW f \in Surfaces, f # "mission_snapshot", NEW kind, ExportSurface(f, kind)
      PROVE  FilesInv'
  BY <1>1, <1>2, SameFiles, SurfaceWritten DEF ExportSurface, Fails
<1>3. {"lint", "model_summary", "mission_snapshot", "entity_index", "relationship_manifest",
       "dashboard_summary"} \subseteq Surfaces
  BY DEF Surfaces
<1>4. CASE Lint
  BY <1>1, <1>3, <1>4, SameFiles, SurfaceWritten DEF Lint, Fails
<1>5. CASE InspectMission
  BY <1>1, <1>5, SameFiles DEF InspectMission
<1>6. CASE ExportModelSummary \/ ExportEntityIndex \/ ExportRelationshipManifest
           \/ ExportDashboardSummary
  BY <1>2, <1>3, <1>6 DEF ExportModelSummary, ExportEntityIndex, ExportRelationshipManifest,
                          ExportDashboardSummary
<1>7. CASE ExportMissionSnapshot
  BY <1>1, <1>3, <1>7, SameFiles, SurfaceWritten DEF ExportMissionSnapshot, Fails
<1>8. CASE GenDocs \/ GenDataFlow
  BY <1>1, <1>8, DocsWritten
<1>9. CASE GenRuntime \/ GenGround
  BY <1>1, <1>9, PackageWritten DEF GenRuntime, GenGround, Packages
<1>10. CASE \E s \in Scenarios : Sim(s) \/ Delete(s)
  BY <1>1, <1>10, ReportWritten
<1>11. CASE ExportScenarioRunIndex
  BY <1>1, <1>11, RunIndexWritten
<1>12. CASE ExportCoverageSummary
  BY <1>1, <1>12, CoverageWritten
<1>13. CASE Edit \/ UNCHANGED vars
  BY <1>1, <1>13, SameFiles DEF Edit, vars
<1> QED
  BY <1>1, <1>4, <1>5, <1>6, <1>7, <1>8, <1>9, <1>10, <1>11, <1>12, <1>13 DEF Next

LEMMA ChainInvAlways == Spec => []ChainInv
BY ChainInvInit, ChainInvStep, PTL DEF Spec

\* The files of a workspace are what their readers take them for: made from a model that
\* loads and, when generated, from one without lint errors.
THEOREM WorkspaceTypes == Spec => []TypeOK
BY ChainInvTypes, ChainInvAlways, PTL

---------------------------------------------------------------------------
(* The data-flow page and the evidence of a simulation. *)

LEMMA EvidenceHasItsRow ==
  ASSUME NEW m, NEW c \in Declared(m, "commands"), NEW e \in data_flow_evidence(m, c)
  PROVE  \E row \in data_flow_records(m) :
           /\ row.command = e.command /\ row.product = e.product /\ row.flows = e.flows
           /\ matching_contact_windows(m, row) = e.windows
<1>1. PICK d \in ListedProducts(m, c) \cap Declared(m, "data_products") :
        e = [command |-> c, product |-> d, flows |-> eligible_flows(m, d),
             windows |-> contact_windows_for_flows(m, eligible_flows(m, d))]
  BY DEF data_flow_evidence
<1> DEFINE flows == {f \in Declared(m, "downlink_flows") :
                       \E k \in DOMAIN m.downlink_flows[f].eligible_data_products :
                          m.downlink_flows[f].eligible_data_products[k] = d}
           row == [command |-> c, product |-> d, flows |-> flows]
<1>2. row \in data_flow_records(m)
  <2> DEFINE r == [owner |-> c, id |-> d]
  <2>1. r \in {s \in [owner : Declared(m, "commands"), id : Declared(m, "data_products")] :
                s.id \in ListedProducts(m, s.owner)}
    OBVIOUS
  <2>2. r.owner = c /\ r.id = d
    OBVIOUS
  <2> HIDE DEF r
  <2> QED
    BY <2>1, <2>2 DEF data_flow_records
<1>3. flows = eligible_flows(m, d)
  <2>1. ASSUME NEW f \in flows PROVE f \in eligible_flows(m, d)
    <3>1. PICK k \in DOMAIN m.downlink_flows[f].eligible_data_products :
            m.downlink_flows[f].eligible_data_products[k] = d
      OBVIOUS
    <3> DEFINE r == [owner |-> f, at |-> k, id |-> m.downlink_flows[f].eligible_data_products[k]]
    <3>2. r \in Lists(m.downlink_flows, "eligible_data_products")
      BY <3>1 DEF Lists, Declared
    <3>3. r.owner = f /\ r.id = d
      BY <3>1
    <3> QED
      BY <3>2, <3>3 DEF eligible_flows
  <2>2. ASSUME NEW f \in eligible_flows(m, d) PROVE f \in flows
    <3>1. PICK r \in Lists(m.downlink_flows, "eligible_data_products") : r.owner = f /\ r.id = d
      BY DEF eligible_flows
    <3>2. PICK o \in DOMAIN m.downlink_flows :
            \E k \in DOMAIN m.downlink_flows[o].eligible_data_products :
              r = [owner |-> o, at |-> k, id |-> m.downlink_flows[o].eligible_data_products[k]]
      BY <3>1 DEF Lists
    <3> QED
      BY <3>1, <3>2 DEF Declared
  <2> QED
    BY <2>1, <2>2
<1>4. matching_contact_windows(m, row) = contact_windows_for_flows(m, flows)
  BY DEF matching_contact_windows, contact_windows_for_flows
<1> QED
  BY <1>1, <1>2, <1>3, <1>4

\* What a simulation of the documented model shows of a data flow, the page says.
THEOREM DocsAgree == Spec => []DocsAgreeWithEvidence
<1>1. ChainInv => DocsAgreeWithEvidence
  BY EvidenceHasItsRow DEF ChainInv, FilesInv, SimsInv, Derived, DocsAgreeWithEvidence
<1> QED
  BY <1>1, ChainInvAlways, PTL

---------------------------------------------------------------------------
(* Coverage. *)

LEMMA RelationType ==
  \A type, from, refs, to : \A z \in Relate(type, from, refs, to) : z.type = type
BY DEF Relate

\* The relationships that coverage looks at, and what their ends are.
LEMMA SupportedRecords ==
  ASSUME NEW m, NEW y \in relationship_records(m), y.type \in SupportedTypes
  PROVE  y \in ProducedByPayload(m) \cup ProducedBySubsystem(m) \cup FlowIncludes(m)
<1> DEFINE
      Other == ActionDispatches(m) \cup ActionTriggeredByFault(m) \cup
               ActionUsesSource(m) \cup RuleConstrains(m) \cup CommandEmits(m) \cup
               CommandTargets(m) \cup EventSource(m) \cup FaultEmits(m) \cup
               FaultObserves(m) \cup RecoveryMode(m) \cup RecoveryCommand(m) \cup
               FaultSource(m) \cup PacketIncludes(m) \cup PayloadBelongs(m) \cup
               PayloadProduces(m) \cup PayloadAccepts(m) \cup PayloadGenerates(m) \cup
               PayloadMayRaise(m) \cup IntentReactsToEvent(m) \cup
               IntentReactsToFault(m) \cup IntentTargetsMode(m) \cup IntentIncludes(m) \cup
               TelemetrySource(m)
      Types == DOMAIN TypeSpec \ SupportedTypes
<1>1. \A z \in Other : z.type \in Types
  <2>1. \A m_, type, from, refs, to : \A z \in RelateDeclared(m_, type, from, refs, to) : z.type = type
    BY RelationType DEF RelateDeclared
  <2> QED
    BY <2>1, RelationType, TypeNames
    DEF ActionDispatches, ActionTriggeredByFault, ActionUsesSource, RuleConstrains,
        CommandEmits, CommandTargets, EventSource, FaultEmits, FaultObserves,
        RecoveryMode, RecoveryCommand, FaultSource, PacketIncludes, PayloadBelongs,
        PayloadProduces, PayloadAccepts, PayloadGenerates, PayloadMayRaise,
        IntentReactsToEvent, IntentReactsToFault, IntentTargetsMode, IntentIncludes,
        TelemetrySource, SupportedTypes, ProducedTypes
<1> QED
  BY <1>1 DEF relationship_records

LEMMA ProducedRecords ==
  ASSUME NEW m, NEW y \in ProducedByPayload(m) \cup ProducedBySubsystem(m)
  PROVE  y.type \in ProducedTypes /\ y.from.id \in Declared(m, "data_products")
<1>1. ASSUME NEW kind, NEW r \in ProducedBy(m, kind) PROVE r.owner \in Declared(m, "data_products")
  <2> DEFINE S == {p \in Declared(m, "data_products") : m.data_products[p].producer_type = kind}
             table == [d \in S |-> m.data_products[d]]
  <2>1. r \in Names(table, "producer") /\ DOMAIN table = S /\ S \subseteq Declared(m, "data_products")
    BY DEF ProducedBy
  <2> HIDE DEF table, S
  <2>2. r.owner \in DOMAIN table
    BY <2>1 DEF Names
  <2> QED
    BY <2>1, <2>2
<1> QED
  BY <1>1 DEF ProducedByPayload, ProducedBySubsystem, RelateDeclared, Relate, ProducedTypes

LEMMA FlowRecords ==
  ASSUME NEW m, NEW y \in FlowIncludes(m)
  PROVE  /\ y.type = "downlink_flow_includes_data_product"
         /\ y.to.id \in Declared(m, "data_products")
         /\ y.from.id \in eligible_flows(m, y.to.id)
<1>1. PICK r \in Lists(m.downlink_flows, "eligible_data_products") :
        /\ r.id \in Declared(m, "data_products")
        /\ y.type = "downlink_flow_includes_data_product" /\ y.from.id = r.owner /\ y.to.id = r.id
  BY DEF FlowIncludes, RelateDeclared, Relate
<1> QED
  BY <1>1 DEF eligible_flows

\* The products of the entity index are those of the model.
LEMMA IndexedProducts ==
  ASSUME NEW r \in Revisions
  PROVE  {e.id : e \in {x \in IndexOf[r].entities : x.domain = "data_products"}}
           = Declared(ModelOf[r], "data_products")
<1>1. "data_products" \in Indexed
  <2>1. TablesOf("data_products.yaml") = {"data_products"} /\ "data_products.yaml" \in ModelFiles
    BY DEF TablesOf, ModelFiles, OPTIONAL_FILES
  <2> QED
    BY <2>1 DEF Indexed, Domains, SourceFile, Tables
<1>2. IndexOf[r].entities = {e \in [domain : Indexed, id : Ids] : e.id \in Entities(ModelOf[r], e.domain)}
  BY DEF IndexOf, EntityIndex
<1>3. Entities(ModelOf[r], "data_products") = Declared(ModelOf[r], "data_products")
  BY DEF Entities
<1>4. Declared(ModelOf[r], "data_products") \subseteq Ids
  BY LoadedIds, TableNames
<1>5. ASSUME NEW d \in Declared(ModelOf[r], "data_products")
      PROVE  d \in {e.id : e \in {x \in IndexOf[r].entities : x.domain = "data_products"}}
  <2> DEFINE e == [domain |-> "data_products", id |-> d]
  <2>1. e \in IndexOf[r].entities /\ e.domain = "data_products" /\ e.id = d
    BY <1>1, <1>2, <1>3, <1>4
  <2> QED
    BY <2>1
<1> QED
  BY <1>2, <1>3, <1>5

LEMMA ConsistentCoverage ==
  ASSUME CoverageInv
  PROVE  CoverageConsistent
<1> SUFFICES ASSUME Readable(coverage), coverage.index = coverage.manifest PROVE CoverageConsistent
  BY DEF CoverageConsistent
<1> DEFINE r == coverage.index
           m == ModelOf[r]
           seen == observed(coverage)
           D == Declared(m, "data_products")
           supported == {x \in ManifestOf[coverage.manifest].relationships : x.type \in SupportedTypes}
           covered == {x \in supported : relationship_is_covered(x, seen)}
           A == {relationship_id(x) : x \in supported}
           C == {relationship_id(x) : x \in covered}
           products == entity_coverage(coverage)["data_products"]
           relations == relationship_coverage(coverage)
<1>1. r \in Revisions /\ \A s \in DOMAIN coverage.reports : Derived(coverage.reports[s])
  BY DEF CoverageInv, IsCoverage
<1>2. products.covered = D \cap seen.data_products /\ products.uncovered = D \ seen.data_products
  <2>1. products = coverage_record({e.id : e \in {x \in IndexOf[r].entities : x.domain = "data_products"}},
                                   seen["data_products"])
    BY DEF entity_coverage, SupportedDomains
  <2> QED
    BY <1>1, <2>1, IndexedProducts DEF coverage_record
<1>3. relations.covered = A \cap C /\ relations.uncovered = A \ C
  BY DEF relationship_coverage, coverage_record
<1>4. ManifestOf[coverage.manifest].relationships = relationship_records(m)
  BY <1>1 DEF ManifestOf, RelationshipManifest
<1>5. \A y \in supported : y \in ProducedByPayload(m) \cup ProducedBySubsystem(m) \cup FlowIncludes(m)
  BY <1>4, SupportedRecords
<1>6. \A y : relationship_is_covered(relationship_id(y), seen) <=> relationship_is_covered(y, seen)
  <2> HIDE DEF seen
  <2> QED
    BY DEF relationship_id, relationship_is_covered
<1>7. \A x \in A : relationship_is_covered(x, seen) <=> x \in C
  <2>1. \A y \in supported : relationship_is_covered(y, seen) <=> y \in covered
    OBVIOUS
  <2> HIDE DEF seen, supported
  <2>2. ASSUME NEW x \in C PROVE relationship_is_covered(x, seen)
    BY <1>6
  <2>3. ASSUME NEW x \in A, relationship_is_covered(x, seen) PROVE x \in C
    BY <1>6, <2>3
  <2> QED
    BY <2>2, <2>3
<1>8. \A x \in A : /\ x.type \in ProducedTypes => x.from.id \in D
                   /\ x.type \notin ProducedTypes =>
                        /\ x.type = "downlink_flow_includes_data_product"
                        /\ x.to.id \in D /\ x.from.id \in eligible_flows(m, x.to.id)
  <2> SUFFICES ASSUME NEW y \in supported
               PROVE  /\ y.type \in ProducedTypes => y.from.id \in D
                      /\ y.type \notin ProducedTypes =>
                           /\ y.type = "downlink_flow_includes_data_product"
                           /\ y.to.id \in D /\ y.from.id \in eligible_flows(m, y.to.id)
    BY DEF relationship_id
  <2>1. CASE y \in ProducedByPayload(m) \cup ProducedBySubsystem(m)
    BY <2>1, ProducedRecords
  <2>2. CASE y \in FlowIncludes(m)
    BY <2>2, FlowRecords DEF ProducedTypes
  <2> QED
    BY <1>5, <2>1, <2>2
<1>9. "downlink_flow_includes_data_product" \notin ProducedTypes
  BY DEF ProducedTypes
<1>10. ASSUME NEW x \in A, x.type \in ProducedTypes
       PROVE  x \in relations.covered <=> x.from.id \in products.covered
  <2>1. relationship_is_covered(x, seen) <=> x.from.id \in seen.data_products
    BY <1>9, <1>10 DEF relationship_is_covered
  <2> QED
    BY <1>2, <1>3, <1>6, <1>7, <1>8, <1>10, <2>1
<1> DEFINE evidence == UNION {report.evidence : report \in {coverage.reports[s] : s \in DOMAIN coverage.reports}}
<1>11. /\ seen.data_products = {e.product : e \in evidence}
       /\ \A f, d : <<f, d>> \in seen.flow_products <=> \E e \in evidence : f \in e.flows /\ d = e.product
  <2>1. seen.data_products = {e.product : e \in evidence}
    BY DEF observed
  <2>2. seen.flow_products = UNION {{<<f, e.product>> : f \in e.flows} : e \in evidence}
    BY DEF observed
  <2> HIDE DEF seen, evidence
  <2> QED
    BY <2>1, <2>2
<1>12. ASSUME NEW x \in relations.covered, x.type \notin ProducedTypes
       PROVE  x.to.id \in products.covered
  <2>1. x \in A /\ <<x.from.id, x.to.id>> \in seen.flow_products
    <3> HIDE DEF seen, A, C, relations
    <3> QED
      BY <1>3, <1>7, <1>12 DEF relationship_is_covered
  <2> HIDE DEF seen, evidence, A, C, D, products, relations
  <2> QED
    BY <1>2, <1>8, <1>11, <1>12, <2>1
<1>13. ASSUME \A s \in DOMAIN coverage.reports : coverage.reports[s].of = coverage.index,
              NEW x \in relations.uncovered, x.type \notin ProducedTypes
       PROVE  x.to.id \in products.uncovered
  <2>1. x \in A /\ ~relationship_is_covered(x, seen)
    BY <1>3, <1>7, <1>13
  <2>2. /\ x.to.id \in D /\ x.from.id \in eligible_flows(m, x.to.id)
        /\ <<x.from.id, x.to.id>> \notin seen.flow_products
    BY <1>8, <1>13, <2>1 DEF relationship_is_covered
  <2>3. ASSUME NEW e \in evidence, e.product = x.to.id PROVE FALSE
    <3>1. PICK s \in DOMAIN coverage.reports : e \in coverage.reports[s].evidence
      OBVIOUS
    <3>2. PICK c \in Declared(m, "commands") : e \in data_flow_evidence(m, c)
      BY <1>1, <1>13, <3>1 DEF Derived
    <3>3. e.flows = eligible_flows(m, e.product)
      BY <3>2 DEF data_flow_evidence
    <3> HIDE DEF seen, evidence
    <3> QED
      BY <1>11, <2>2, <2>3, <3>3
  <2>4. x.to.id \notin seen.data_products
    <3> HIDE DEF seen, evidence
    <3> QED
      BY <1>11, <2>3
  <2> QED
    BY <1>2, <2>2, <2>4
<1> HIDE DEF products, relations, A, C
<1>14. relations.covered \cup relations.uncovered = A
  BY <1>3
<1> QED
  BY <1>10, <1>12, <1>13, <1>14 DEF CoverageConsistent, products, relations

\* A product counts as covered exactly if its producer relation does, and a flow's relation
\* with its product.
THEOREM CoverageIsConsistent == Spec => []CoverageConsistent
<1>1. ChainInv => CoverageConsistent
  BY ConsistentCoverage DEF ChainInv, FilesInv
<1> QED
  BY <1>1, ChainInvAlways, PTL

---------------------------------------------------------------------------
(* The two counts of a coverage summary. *)

\* Runs that passed or failed: nothing is left over.
LEMMA RunsAddUp ==
  ASSUME NEW runs, IsFiniteSet(DOMAIN runs),
         \A s \in DOMAIN runs : runs[s].result \in {"passed", "failed"}
  PROVE  LET counted == scenario_runs(runs)
         IN  /\ counted.total = counted.passed + counted.failed
             /\ counted.failed = 0 <=> \A s \in DOMAIN runs : runs[s].result # "failed"
<1> DEFINE S == DOMAIN runs
           P == {s \in S : runs[s].result = "passed"}
           F == {s \in S : runs[s].result = "failed"}
<1>1. IsFiniteSet(P) /\ IsFiniteSet(F)
  BY FS_Subset
<1>2. P \cup F = S /\ P \cap F = {}
  OBVIOUS
<1>3. Cardinality(P) \in Nat /\ Cardinality(F) \in Nat
  BY <1>1, FS_CardinalityType
<1>4. Cardinality(S) = Cardinality(P) + Cardinality(F)
  <2> HIDE DEF P, F, S
  <2>1. Cardinality(P \cup F) = Cardinality(P) + Cardinality(F) - Cardinality(P \cap F)
    BY <1>1, FS_Union
  <2>2. Cardinality(P \cap F) = 0
    BY <1>2, FS_EmptySet
  <2>3. Cardinality(P \cup F) = Cardinality(P) + Cardinality(F)
    BY <1>3, <2>1, <2>2
  <2> QED
    BY <1>2, <2>3
<1>5. Cardinality(F) = 0 <=> F = {}
  BY <1>1, FS_EmptySet
<1> QED
  BY <1>4, <1>5 DEF scenario_runs

LEMMA AgreeingTallies ==
  ASSUME CoverageInv
  PROVE  CoverageTalliesAgree
<1> SUFFICES ASSUME Readable(coverage),
                    \A s \in DOMAIN coverage.runs : coverage.runs[s] = run_record(coverage.reports[s])
             PROVE  LET counted == expectation_coverage(coverage)
                        runs == scenario_runs(coverage.runs)
                    IN  /\ counted.total = counted.passed + counted.failed
                        /\ runs.failed = 0 <=> counted.failed = 0
                        /\ runs.total = runs.passed + runs.failed
  BY DEF CoverageTalliesAgree
<1> DEFINE S == DOMAIN coverage.runs
           reports == coverage.reports
           R == expectation_records(coverage)
           P == {x \in R : reports[x[1]].expectations[x[2]] = "passed"}
           F == {x \in R : reports[x[1]].expectations[x[2]] = "failed"}
           of(s) == {<<s, k>> : k \in DOMAIN reports[s].expectations}
<1>1. /\ IsRunIndex(coverage.runs) /\ DOMAIN reports = S
      /\ \A s \in S : reports[s] \in SimReports /\ Derived(reports[s])
  BY DEF CoverageInv, IsCoverage
<1>2. S \subseteq Scenarios /\ \A s \in S : coverage.runs[s].result \in {"passed", "failed"}
  BY <1>1 DEF IsRunIndex
<1>3. IsFiniteSet(S)
  BY <1>2, ChainAssumption, FS_Subset
<1>4. \A s \in S : reports[s].expectations \in Seq({"passed", "failed"})
  BY <1>1 DEF SimReports
<1>5. IsFiniteSet(R)
  <2>1. ASSUME NEW s \in S PROVE IsFiniteSet(of(s))
    <3>1. IsFiniteSet(DOMAIN reports[s].expectations) /\ IsFiniteSet({s})
      <4> DEFINE e == reports[s].expectations
      <4>1. e \in Seq({"passed", "failed"})
        BY <1>4
      <4>2. Len(e) \in Nat /\ DOMAIN e = 1..Len(e)
        <5> HIDE DEF e
        <5> QED
          BY <4>1
      <4>3. IsFiniteSet(1..Len(e))
        <5> HIDE DEF e
        <5> QED
          BY <4>2, FS_Interval
      <4> QED
        BY <4>2, <4>3, FS_Singleton
    <3>2. IsFiniteSet({s} \X DOMAIN reports[s].expectations)
      BY <3>1, FS_Product
    <3>3. of(s) \subseteq {s} \X DOMAIN reports[s].expectations
      OBVIOUS
    <3> QED
      BY <3>2, <3>3, FS_Subset
  <2>2. IsFiniteSet({of(s) : s \in S})
    <3> DEFINE T == {of(s) : s \in S}
               image == [s \in S |-> of(s)]
    <3>1. image \in Surjection(S, T)
      BY DEF Surjection
    <3> HIDE DEF S, T, image
    <3> QED
      BY <1>3, <3>1, FS_Surjection DEF T
  <2>3. R = UNION {of(s) : s \in S}
    BY <1>1 DEF expectation_records
  <2> HIDE DEF S, R, of
  <2> QED
    BY <2>1, <2>2, <2>3, FS_UNION
<1>6. P \cup F = R /\ P \cap F = {}
  <2>1. ASSUME NEW x \in R PROVE reports[x[1]].expectations[x[2]] \in {"passed", "failed"}
    BY <1>1, <1>4 DEF expectation_records
  <2> QED
    BY <2>1
<1>7. /\ expectation_coverage(coverage).total = Cardinality(R)
      /\ expectation_coverage(coverage).passed = Cardinality(P)
      /\ expectation_coverage(coverage).failed = Cardinality(F)
  BY DEF expectation_coverage
<1>8. /\ Cardinality(R) = Cardinality(P) + Cardinality(F)
      /\ Cardinality(F) = 0 <=> F = {}
  <2> P \subseteq R /\ F \subseteq R
    OBVIOUS
  <2> HIDE DEF P, F, R
  <2>1. IsFiniteSet(P) /\ IsFiniteSet(F)
    BY <1>5, FS_Subset
  <2>2. Cardinality(P) \in Nat /\ Cardinality(F) \in Nat
    BY <2>1, FS_CardinalityType
  <2>3. Cardinality(P \cup F) = Cardinality(P) + Cardinality(F) - Cardinality(P \cap F)
    BY <2>1, FS_Union
  <2>4. Cardinality(P \cap F) = 0
    BY <1>6, FS_EmptySet
  <2>5. Cardinality(P \cup F) = Cardinality(P) + Cardinality(F)
    BY <2>2, <2>3, <2>4
  <2> QED
    BY <1>6, <2>1, <2>5, FS_EmptySet
<1>9. /\ scenario_runs(coverage.runs).failed = 0 <=> \A s \in S : coverage.runs[s].result # "failed"
      /\ scenario_runs(coverage.runs).total =
           scenario_runs(coverage.runs).passed + scenario_runs(coverage.runs).failed
  BY <1>2, <1>3, RunsAddUp
<1>10. ASSUME NEW s \in S
       PROVE  coverage.runs[s].result = "failed" <=> Came(reports[s], "failed") # {}
  <2>1. ASSUME NEW report PROVE run_record(report).result = report.result
    BY DEF run_record
  <2>2. coverage.runs[s] = run_record(reports[s])
    OBVIOUS
  <2>3. coverage.runs[s].result = reports[s].result
    BY <2>1, <2>2
  <2> QED
    BY <1>1, <2>3 DEF Derived
<1>11. F = {} <=> \A s \in S : Came(reports[s], "failed") = {}
  <2>1. ASSUME NEW s \in S, NEW k \in Came(reports[s], "failed") PROVE <<s, k>> \in F
    <3>1. k \in DOMAIN reports[s].expectations /\ reports[s].expectations[k] = "failed"
      BY DEF Came
    <3>2. <<s, k>> \in R
      BY <1>1, <3>1 DEF expectation_records
    <3> QED
      BY <3>1, <3>2
  <2>2. ASSUME NEW x \in F PROVE x[1] \in S /\ x[2] \in Came(reports[x[1]], "failed")
    <3>0. R = UNION {of(s) : s \in S}
      BY <1>1 DEF expectation_records
    <3>1. \E s \in S : \E k \in DOMAIN reports[s].expectations : x = <<s, k>>
      BY <3>0
    <3>2. reports[x[1]].expectations[x[2]] = "failed"
      OBVIOUS
    <3> QED
      BY <3>1, <3>2 DEF Came
  <2> HIDE DEF F, S
  <2> QED
    BY <2>1, <2>2
<1> QED
  BY <1>7, <1>8, <1>9, <1>10, <1>11

\* The counts of runs and of expectations in a coverage summary do not contradict each
\* other: the run index says of each report what its own counts say.
THEOREM TalliesAgree == Spec => []CoverageTalliesAgree
<1>1. ChainInv => CoverageTalliesAgree
  BY AgreeingTallies DEF ChainInv, FilesInv
<1> QED
  BY <1>1, ChainInvAlways, PTL

---------------------------------------------------------------------------
(* The ends of a manifest's records are entities of the index. *)

\* Both ends of every type are tables of ids.
LEMMA TypeEnds == \A t \in DOMAIN TypeSpec : {TypeSpec[t].from, TypeSpec[t].to} \subseteq Tables
  BY TypeRows, TypeNames, TableNames

LEMMA TablesAreIndexed == Tables \subseteq Indexed /\ "spacecraft" \notin Tables
<1>1. Tables \subseteq Domains
  BY DEF Domains, SourceFile
<1>2. {"mode_transitions", "policies", "spacecraft"} \cap Tables = {}
  BY TableNames
<1> QED
  BY <1>1, <1>2 DEF Indexed

\* An object of a table that was loaded has an entry in the index.
LEMMA DeclaredIsEntity ==
  ASSUME NEW r \in Revisions, NEW domain \in Tables, NEW id \in Declared(ModelOf[r], domain)
  PROVE  [domain |-> domain, id |-> id] \in IndexOf[r].entities
<1> DEFINE e == [domain |-> domain, id |-> id]
<1>1. domain \in Indexed /\ domain # "spacecraft" /\ id \in Ids
  BY LoadedIds, TablesAreIndexed
<1>2. e \in [domain : Indexed, id : Ids] /\ e.id \in Entities(ModelOf[r], e.domain)
  BY <1>1 DEF Entities
<1> HIDE DEF e
<1>3. e \in {x \in [domain : Indexed, id : Ids] : x.id \in Entities(ModelOf[r], x.domain)}
  BY <1>2
<1> QED
  BY <1>3 DEF IndexOf, EntityIndex, e

LEMMA EndsAreEntities ==
  ASSUME NEW r \in Revisions, ~has_errors(LintRun(ModelOf[r])),
         NEW t \in DOMAIN TypeSpec, NEW x \in Family(ModelOf[r], t)
  PROVE  {x.from, x.to} \subseteq IndexOf[r].entities
<1> DEFINE m == ModelOf[r]
           from == TypeSpec[t].from
           to == TypeSpec[t].to
<1>1. PICK ref \in Stated(m, t) :
         x = [type |-> t, from |-> [domain |-> from, id |-> ref.owner],
              to |-> [domain |-> to, id |-> ref.id], at |-> ref.at]
  BY DEF Family, Relate
<1>2. ref.owner \in Declared(m, from) /\ ref.id \in Declared(m, to)
  BY OwnersDeclared, StatedDeclared DEF Owned, Found
<1>3. from \in Tables /\ to \in Tables
  BY TypeEnds
<1>4. x.from = [domain |-> from, id |-> ref.owner] /\ x.to = [domain |-> to, id |-> ref.id]
  BY <1>1
<1> HIDE DEF m, from, to
<1>5. x.from \in IndexOf[r].entities /\ x.to \in IndexOf[r].entities
  BY <1>2, <1>3, <1>4, DeclaredIsEntity DEF m
<1> QED
  BY <1>5

---------------------------------------------------------------------------
(* The manifest of a model that lint accepts. *)

\* Of any mission directory whose model loads and has no lint error: its manifest has a
\* record for each reference that the fields state, and its ends are indexed
\* (relationship_manifest.py, entity_index.py, lint/rules_*.py).
THEOREM CleanManifest ==
  ASSUME NEW r \in Revisions, LintClean[r]
  PROVE  /\ ManifestOf[r].relationships = UNION {Family(ModelOf[r], t) : t \in DOMAIN TypeSpec}
         /\ \A x \in ManifestOf[r].relationships : {x.from, x.to} \subseteq IndexOf[r].entities
<1>1. ~has_errors(LintRun(ModelOf[r]))
  BY DEF LintClean, Report
<1>2. ManifestOf[r].relationships = relationship_records(ModelOf[r])
  BY DEF ManifestOf, RelationshipManifest
<1> QED
  BY <1>1, <1>2, ManifestIsComplete, EndsAreEntities

\* Whatever the commands, edits and kills, a Relationship Manifest on disk that was made of
\* a model without lint errors leaves out no reference, and points to entities only
\* (relationship_manifest.py filters its families by declared ids).
THEOREM ManifestIsFaithful == Spec => []ManifestFaithful
<1>1. ChainInv => ManifestFaithful
  <2> SUFFICES ASSUME ChainInv, Readable(surfaces["relationship_manifest"]),
                      LintClean[surfaces["relationship_manifest"]]
               PROVE  ManifestFaithful
    BY DEF ManifestFaithful
  <2> DEFINE r == surfaces["relationship_manifest"]
  <2>1. r \in Revisions
    BY DEF ChainInv, FilesInv, SurfacesInv, SurfaceOK, Surfaces
  <2> HIDE DEF r
  <2>2. /\ ManifestOf[r].relationships = UNION {Family(ModelOf[r], t) : t \in DOMAIN TypeSpec}
        /\ \A x \in ManifestOf[r].relationships : {x.from, x.to} \subseteq IndexOf[r].entities
    BY <2>1, CleanManifest DEF r
  <2> QED
    BY <2>2 DEF ManifestFaithful, Family, r
<1> QED
  BY <1>1, ChainInvAlways, PTL

=============================================================================
