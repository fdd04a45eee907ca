-------------------------- MODULE ScenarioDeclaration --------------------------
(***************************************************************************)
(* `orbitfabric export scenario-declaration`: a scenario file and the      *)
(* Mission Model it names become the list of its atoms; and the conformance*)
(* check of a Scenario Projection Accounting, in which an adapter says of  *)
(* each atom what became of it.                                            *)
(*                                                                         *)
(* The export reads the scenario file once for the digest and again for the*)
(* contents; the check reads the adapter's result, its accounting and the  *)
(* declaration one after the other.  The author edits, the adapter runs and*)
(* the processes are killed in between.                                    *)
(***************************************************************************)
EXTENDS Naturals, Sequences, FiniteSets, SequencesExt

CONSTANTS
  Ids,        \* all ids
  Scenarios,  \* the contents the scenario file can have: a digest stands for its contents
  Content,    \* Content[s]: what is in it
  Missions,   \* the contents the mission directory can have
  Mission,    \* Mission[m]: whether it loads, its id and version, its ids in each domain
  None,       \* Python's None
  Malformed,  \* a value that is not of the type the code looks for
  Absent,     \* no such file
  CutOff,     \* a file whose writer was killed: no JSON
  Misdeeds,   \* what adapters get wrong, see RunAdapter
  Revised,    \* the contents that the author edits towards
  Budget      \* Budget[s]: how many runs (exports, adapters, checks) and upsets (edits, kills)
              \* there are when the author starts with s

Domains == {"modes", "telemetry", "commands", "events", "payloads", "data_products",
            "downlink_flows", "contact_windows"}
ExpectKeys == {"command_status", "payload_lifecycle", "data_flow", "scenario_status"}
FlowFields == [triggered_by_command |-> "commands", eligible_downlink_flow |-> "downlink_flows",
               contact_window |-> "contact_windows"]
Kinds == {"scenario_metadata", "initial_mode", "initial_telemetry", "command",
          "expect_command_status", "telemetry_injection", "expect_event", "expect_mode",
          "expect_command", "expect_telemetry", "expect_payload_lifecycle", "expect_data_flow",
          "expect_scenario_status"}

\* Values of the expect mapping: a status; the payload and whether the state is a text;
\* the fields of a data flow that are there.
IsExpectation(key, value) ==
  CASE key = "payload_lifecycle" ->
         value = Malformed \/ value \in [payload : Ids \cup {Malformed}, state : BOOLEAN]
    [] key = "data_flow" ->
         value = Malformed \/ value \in UNION {[F -> Ids \cup {Malformed}] :
                                F \in SUBSET (DOMAIN FlowFields \cup {"data_product"})}
    [] OTHER -> value \in {None, "status"}
IsStep(step) ==
  /\ step.t \in Nat /\ step.args \in BOOLEAN
  /\ {step.command, step.inject, step.expect_event, step.expect_mode, step.expect_command}
       \subseteq Ids \cup {None}
  /\ step.expect_telemetry \in (SUBSET Ids) \cup {None}
  /\ step.expect # None =>
       \A key \in DOMAIN step.expect : IsExpectation(key, step.expect[key])
\* dumps: whether JSON has a form for every value in it; for a date it has none.
IsContent(c) ==
  /\ c.text \in {"mapping", "not_utf8", "bad_yaml", "empty", "not_mapping"}
  /\ c.keys \in {"exact", "missing", "unexpected"} /\ c.typed \in BOOLEAN /\ c.dumps \in BOOLEAN
  /\ c.mode \in Ids /\ c.telemetry \subseteq Ids
  /\ c.steps \in Seq(Range(c.steps)) /\ \A k \in DOMAIN c.steps : IsStep(c.steps[k])

ASSUME DeclarationAssumption ==
  /\ \A s \in Scenarios : IsContent(Content[s])
  /\ \A m \in Missions : /\ Mission[m].utf8 \in BOOLEAN /\ Mission[m].loads \in BOOLEAN
                         /\ Mission[m].loads => Mission[m].utf8
                         /\ Mission[m].ids \in [Domains -> SUBSET Ids]
  /\ IsFiniteSet(Ids) /\ {None, Malformed} \cap Ids = {} /\ {None, Absent, CutOff} \cap Scenarios = {}
  /\ None \notin Seq([step : Nat, kind : Kinds, refs : SUBSET (Domains \X Ids)])
  /\ Revised \subseteq Scenarios \cup {Absent}
  /\ Budget \in [Scenarios \cup {Absent} -> [runs : Nat, upsets : Nat]]

VARIABLES
  scenario,     \* the scenario file
  mission,      \* the mission directory it names
  declaration,  \* scenario_declaration.json
  result,       \* the adapter's integration_result.json
  accounting,   \* the artifact beside it
  export,       \* the export that is running: what it does next, the digest it has
  check,        \* the check that is running: what it does next and what it has read
  verified,     \* what the last check found, None if it failed
  budget        \* the runs and upsets that are left

vars == <<scenario, mission, declaration, result, accounting, export, check, verified, budget>>

---------------------------------------------------------------------------
(* ScenarioLoader *)

\* ScenarioStep: a step has at least one action or expectation.
HasAction(step) ==
  \/ \E x \in {step.command, step.inject, step.expect_event, step.expect_mode,
               step.expect_command} : x # None
  \/ step.expect_telemetry # None \/ step.expect # None

IsText(value) == value \in Ids
FlowOf(step) ==
  IF step.expect = None \/ "data_flow" \notin DOMAIN step.expect THEN <<>>
  ELSE IF step.expect["data_flow"] = Malformed THEN <<>> ELSE step.expect["data_flow"]

Named(domain, values) == {<<domain, x>> : x \in values \ {None}}

FlowReferences(step) ==
  LET flow == FlowOf(step)
  IN  {<<FlowFields[f], flow[f]>> : f \in {g \in DOMAIN flow \cap DOMAIN FlowFields :
                                             IsText(flow[g])}}
      \cup {<<"data_products", flow[f]>> : f \in {g \in DOMAIN flow \cap {"data_product"} :
                                                    IsText(flow[g])}}

\* The references that are looked up: those of a payload_lifecycle expectation are not.
references(c) ==
  {<<"modes", c.mode>>} \cup Named("telemetry", c.telemetry) \cup
  UNION {LET step == c.steps[k]
             sampled == IF step.expect_telemetry = None THEN {} ELSE step.expect_telemetry
         IN  Named("commands", {step.command, step.expect_command})
             \cup Named("telemetry", {step.inject} \cup sampled)
             \cup Named("events", {step.expect_event}) \cup Named("modes", {step.expect_mode})
             \cup FlowReferences(step) : k \in DOMAIN c.steps}

Declares(m, ref) == ref[2] \in Mission[m].ids[ref[1]]
ReferenceFindings(c, m) ==
  \/ \E ref \in references(c) : ~Declares(m, ref)
  \/ \E k \in 2..Len(c.steps) : c.steps[k].t < c.steps[k - 1].t

ContentFails(c) ==
  \/ c.text # "mapping" \/ c.keys # "exact"
  \/ ~c.typed \/ \E k \in DOMAIN c.steps : ~HasAction(c.steps[k])

\* The loader raises MissionModelError with all the findings it has made.
LoadFails(c, m) == ContentFails(c) \/ ~Mission[m].loads \/ ReferenceFindings(c, m)

\* Bytes that are no UTF-8, of the scenario or of a mission file, are a UnicodeDecodeError.
Undecodable(c, m) == c.text = "not_utf8" \/ (~ContentFails(c) /\ ~Mission[m].utf8)

---------------------------------------------------------------------------
(* Normalization *)

\* sorted() makes the order a function of the set, and nothing depends on which it is.
Sorted(ids) == SetToSeq(ids)
Expects(step, key) == step.expect # None /\ key \in DOMAIN step.expect

\* One record: its kind and the entities it refers to.
Record(kind, refs) == [kind |-> kind, refs |-> refs]
RecordFor(kind, domain, id) == IF id = None THEN <<>> ELSE <<Record(kind, {<<domain, id>>})>>
RecordIf(step, key, kind, refs) ==
  IF Expects(step, key) THEN <<Record(kind, refs)>> ELSE <<>>
TelemetryRecords(kind, ids) ==
  [k \in DOMAIN Sorted(ids) |-> Record(kind, {<<"telemetry", Sorted(ids)[k]>>})]

\* The records of a step that can be normalized, in their order.
StepRecords(step) ==
  LET payloads == IF Expects(step, "payload_lifecycle")
                    THEN {<<"payloads", step.expect["payload_lifecycle"].payload>>} ELSE {}
      sampled == IF step.expect_telemetry = None THEN {} ELSE step.expect_telemetry
  IN  FlattenSeq(<<
        RecordFor("command", "commands", step.command),
        RecordIf(step, "command_status", "expect_command_status", Named("commands", {step.command})),
        RecordFor("telemetry_injection", "telemetry", step.inject),
        RecordFor("expect_event", "events", step.expect_event),
        RecordFor("expect_mode", "modes", step.expect_mode),
        RecordFor("expect_command", "commands", step.expect_command),
        TelemetryRecords("expect_telemetry", sampled),
        RecordIf(step, "payload_lifecycle", "expect_payload_lifecycle", payloads),
        RecordIf(step, "data_flow", "expect_data_flow", FlowReferences(step)),
        RecordIf(step, "scenario_status", "expect_scenario_status", {})>>)

\* A value of expect that cannot become a record.
\* Mutant of StatusUnusable: a status that is expected of no command is let through.
NullStatus(step) == step.expect["command_status"] = None
StatusUnusable(step) == step.command = None \/ step.expect["command_status"] = None
\* Mutant of LifecycleUnusable: the payload is not looked up here either.
LifecycleMalformed(value, m) == value = Malformed \/ ~IsText(value.payload) \/ ~value.state
LifecycleUnusable(value, m) ==
  \/ value = Malformed \/ ~IsText(value.payload) \/ ~value.state
  \/ ~Declares(m, <<"payloads", value.payload>>)
FlowUnusable(value) ==
  \/ value = Malformed \/ "data_product" \notin DOMAIN value
  \/ \E f \in DOMAIN value : ~IsText(value[f])

\* Mutant of Contentless: what the loader has checked is not checked again.
Actionless(step) == ~HasAction(step)
Contentless(step) == StepRecords(step) = <<>>

\* OF-SCN-018 and OF-SCN-020: what the loader lets pass and a declaration does not.
NormalizationFails(step, m) ==
  \/ step.command = None /\ step.args
  \/ step.expect # None /\ ~(DOMAIN step.expect \subseteq ExpectKeys)
  \/ Expects(step, "command_status") /\ StatusUnusable(step)
  \/ Expects(step, "payload_lifecycle") /\ LifecycleUnusable(step.expect["payload_lifecycle"], m)
  \/ Expects(step, "data_flow") /\ FlowUnusable(step.expect["data_flow"])
  \/ Expects(step, "scenario_status") /\ step.expect["scenario_status"] = None
  \/ Contentless(step)

\* The atoms of a scenario.  An atom's id is its place in this list.
Atoms(c) ==
  LET At(k, records) == [n \in DOMAIN records |-> [step |-> k, kind |-> records[n].kind,
                                                   refs |-> records[n].refs]]
      initial == <<Record("scenario_metadata", {}), Record("initial_mode", {<<"modes", c.mode>>})>>
                 \o TelemetryRecords("initial_telemetry", c.telemetry)
  IN  At(0, initial)
      \o FlattenSeq([k \in DOMAIN c.steps |-> At(k, StepRecords(c.steps[k]))])

\* The runner's side: the expectations of step k that it records a result for.
\* _check_command_status_expectation, _check_expectations
RecordedOfStep(step, k) ==
  LET checked(kind, ref) == IF ref[2] = None THEN {} ELSE {<<k, kind, {ref}>>}
      status == /\ Expects(step, "command_status") /\ step.command # None
                /\ step.expect["command_status"] # None
      lifecycle == IF Expects(step, "payload_lifecycle")
                     THEN step.expect["payload_lifecycle"] ELSE Malformed
  IN  (IF status THEN {<<k, "expect_command_status", {<<"commands", step.command>>}>>} ELSE {})
      \cup checked("expect_event", <<"events", step.expect_event>>)
      \cup checked("expect_mode", <<"modes", step.expect_mode>>)
      \cup checked("expect_command", <<"commands", step.expect_command>>)
      \cup (IF step.expect_telemetry = None THEN {}
            ELSE UNION {checked("expect_telemetry", <<"telemetry", x>>) : x \in step.expect_telemetry})
      \cup (IF lifecycle = Malformed THEN {}
            ELSE {<<k, "expect_payload_lifecycle",
                    IF IsText(lifecycle.payload) /\ lifecycle.state
                      THEN {<<"payloads", lifecycle.payload>>} ELSE {}>>})
      \cup (IF ~Expects(step, "data_flow") \/ step.expect["data_flow"] = Malformed THEN {}
            ELSE {<<k, "expect_data_flow", FlowReferences(step)>>})
      \cup (IF Expects(step, "scenario_status") /\ step.expect["scenario_status"] # None
              THEN {<<k, "expect_scenario_status", {}>>} ELSE {})

---------------------------------------------------------------------------
(* orbitfabric export scenario-declaration *)

\* sha: source.scenario_sha256.  of, in: the scenario and the mission that were loaded.
Loaded(sha, s, m) ==
  [result |-> "loaded", sha |-> sha, atoms |-> Atoms(Content[s]), of |-> s, in |-> m]
Failed(sha) == [result |-> "failed", sha |-> sha, atoms |-> None, of |-> None, in |-> None]

Readable(file) == file \notin {Absent, CutOff}
IsLoaded(file) == Readable(file) /\ file.result = "loaded"
Digest(file) == IF file = Absent THEN None ELSE file

ExportIdle == [next |-> "begin", sha |-> None, of |-> None, in |-> None]
CheckIdle == [next |-> "result", result |-> None, accounting |-> None]

Init ==
  /\ scenario \in Scenarios \cup {Absent} /\ mission \in Missions
  /\ declaration = Absent /\ result = Absent /\ accounting = Absent
  /\ export = ExportIdle /\ check = CheckIdle
  /\ verified = None /\ budget = Budget[scenario]

\* What a step takes from the budget.
Takes(r, u) ==
  /\ budget.runs >= r /\ budget.upsets >= u
  /\ budget' = [runs |-> budget.runs - r, upsets |-> budget.upsets - u]

\* The digest of the file as it is now; an OSError leaves it out.
Fingerprint ==
  /\ export.next = "begin" /\ Takes(1, 0)
  /\ export' = [export EXCEPT !.next = "load", !.sha = Digest(scenario)]
  /\ UNCHANGED <<scenario, mission, declaration, result, accounting, check, verified>>

\* The envelope is written in one go, and cut off when the export is killed meanwhile.
Write(envelope) ==
  /\ export' = ExportIdle
  /\ \/ declaration' = envelope /\ Takes(0, 0)
     \/ declaration' = CutOff /\ Takes(0, 1)

Normalize(sha, s, m) ==
  IF \E k \in DOMAIN Content[s].steps : NormalizationFails(Content[s].steps[k], m)
    THEN Failed(sha) ELSE Loaded(sha, s, m)

\* An exception that nobody catches: nothing is written.
Escapes == export' = ExportIdle /\ UNCHANGED <<declaration, budget>>

\* json.dumps raises a TypeError before the file is opened.
Declare(sha, s, m) ==
  LET envelope == Normalize(sha, s, m)
  IN  IF IsLoaded(envelope) /\ ~Content[s].dumps THEN Escapes ELSE Write(envelope)

\* The loader reads the file again; without a digest it is read a third time.
Load ==
  /\ export.next = "load"
  /\ \/ scenario # Absent /\ Undecodable(Content[scenario], mission) /\ Escapes
     \/ /\ scenario # Absent => /\ ~Undecodable(Content[scenario], mission)
                                /\ LoadFails(Content[scenario], mission)
        /\ Write(Failed(export.sha))
     \/ /\ scenario # Absent /\ ~LoadFails(Content[scenario], mission)
        /\ IF export.sha # None
             THEN Declare(export.sha, scenario, mission)
             ELSE /\ export' = [export EXCEPT !.next = "again", !.of = scenario, !.in = mission]
                  /\ UNCHANGED <<declaration, budget>>
  /\ UNCHANGED <<scenario, mission, result, accounting, check, verified>>

FingerprintAgain ==
  /\ export.next = "again"
  /\ IF scenario = Absent THEN Write(Failed(None))
       ELSE Declare(Digest(scenario), export.of, export.in)
  /\ UNCHANGED <<scenario, mission, result, accounting, check, verified>>

---------------------------------------------------------------------------
(* An adapter (external) that was run on the scenario accounts for the atoms of the       *)
(* declaration it finds.  It writes the accounting and then the result that names it.     *)

Records(n, misdeed) ==
  LET full == [k \in 1..n |-> [atom |-> k, mappings |-> IF k = n THEN {"mapping"} ELSE {}]]
      short == SubSeq(full, 2, n)
  IN  CASE misdeed = "omits" -> short
        [] misdeed = "repeats" -> Append(short, full[n])
        [] misdeed = "invents" -> Append(full, [atom |-> n + 1, mappings |-> {}])
        [] OTHER -> full

Accounting(n, misdeed, complete) ==
  [conforms |-> misdeed # "malformed", sha |-> scenario, complete |-> complete,
   records |-> Records(n, misdeed)]
Result(payload, misdeed) ==
  [scenario |-> IF misdeed = "no_scenario" THEN None ELSE scenario,
   mission |-> Mission[mission].identity,
   mappings |-> CASE misdeed = "foreign_mapping" -> <<>>
                  [] misdeed = "ambiguous" -> <<"mapping", "mapping">>
                  [] OTHER -> <<"mapping">>,
   artifact |-> [usable |-> misdeed # "wrong_artifact", content |-> payload,
                 derived |-> IF misdeed = "unlisted_mapping" THEN <<>> ELSE <<"mapping">>]]

RunAdapter ==
  /\ scenario # Absent /\ IsLoaded(declaration)
  /\ \E misdeed \in Misdeeds \cup {"none"}, complete \in BOOLEAN :
       LET payload == Accounting(Len(declaration.atoms), misdeed, complete)
       IN  \/ /\ accounting' = payload /\ result' = Result(payload, misdeed) /\ Takes(1, 0)
           \/ /\ accounting' = payload /\ UNCHANGED result /\ Takes(1, 1)
           \/ accounting' = CutOff /\ UNCHANGED result /\ Takes(1, 1)
  /\ UNCHANGED <<scenario, mission, declaration, export, check, verified>>

---------------------------------------------------------------------------
(* python -m orbitfabric.conformance.scenario_projection_accounting *)

CheckFails == verified' = None /\ check' = CheckIdle
Mapped(payload) == UNION {payload.records[k].mappings : k \in DOMAIN payload.records}
Recorded(payload) == {payload.records[k].atom : k \in DOMAIN payload.records}

validate_accounting(payload) ==
  payload.conforms /\ IsInjective([k \in DOMAIN payload.records |-> payload.records[k].atom])

\* _artifact, validate_parent
validate_parent(payload, parent) ==
  /\ validate_accounting(payload) /\ parent.artifact.usable
  /\ parent.scenario # None /\ parent.scenario = payload.sha
  /\ IsInjective(parent.mappings) /\ Mapped(payload) \subseteq Range(parent.mappings)
  /\ IsInjective(parent.artifact.derived) /\ Range(parent.artifact.derived) = Mapped(payload)

Unaccounted(payload, envelope) == DOMAIN envelope.atoms \ Recorded(payload)
\* Mutant of validate_scenario: the digests are not compared.
AnyScenario(payload, envelope) ==
  /\ IsLoaded(envelope) /\ Recorded(payload) \subseteq DOMAIN envelope.atoms
  /\ payload.complete => Unaccounted(payload, envelope) = {}
validate_scenario(payload, envelope) ==
  /\ IsLoaded(envelope) /\ envelope.sha = payload.sha
  /\ Recorded(payload) \subseteq DOMAIN envelope.atoms
  /\ payload.complete => Unaccounted(payload, envelope) = {}

CheckResult ==
  /\ check.next = "result" /\ Takes(1, 0)
  /\ \/ ~Readable(result) /\ CheckFails
     \/ Readable(result) /\
          IF result.artifact.usable
            THEN /\ check' = [check EXCEPT !.next = "accounting", !.result = result]
                 /\ UNCHANGED verified
            ELSE CheckFails
  /\ UNCHANGED <<scenario, mission, declaration, result, accounting, export>>

CheckAccounting ==
  /\ check.next = "accounting"
  /\ \/ ~Readable(accounting) /\ CheckFails
     \/ Readable(accounting) /\
          IF /\ accounting = check.result.artifact.content
             /\ validate_parent(accounting, check.result)
            THEN /\ check' = [check EXCEPT !.next = "declaration", !.accounting = accounting]
                 /\ UNCHANGED verified
            ELSE CheckFails
  /\ UNCHANGED <<scenario, mission, declaration, result, accounting, export, budget>>

CheckDeclaration ==
  /\ check.next = "declaration"
  /\ IF /\ validate_scenario(check.accounting, declaration)
        /\ Mission[declaration.in].identity = check.result.mission
       THEN /\ verified' = [accounting |-> check.accounting, result |-> check.result,
                            declaration |-> declaration,
                            unaccounted |-> Unaccounted(check.accounting, declaration)]
            /\ check' = CheckIdle
       ELSE CheckFails
  /\ UNCHANGED <<scenario, mission, declaration, result, accounting, export, budget>>

---------------------------------------------------------------------------
(* The author edits or deletes the scenario, or edits the mission. *)

EditScenario ==
  /\ Takes(0, 1)
  /\ scenario' \in Revised \ {scenario}
  /\ UNCHANGED <<mission, declaration, result, accounting, export, check, verified>>
EditMission ==
  /\ Takes(0, 1)
  /\ mission' \in Missions \ {mission}
  /\ UNCHANGED <<scenario, declaration, result, accounting, export, check, verified>>

Next ==
  \/ Fingerprint \/ Load \/ FingerprintAgain
  \/ RunAdapter
  \/ CheckResult \/ CheckAccounting \/ CheckDeclaration
  \/ EditScenario \/ EditMission

Spec == Init /\ [][Next]_vars

---------------------------------------------------------------------------
(* Properties *)

\* An envelope is the complete declaration of the scenario that was loaded or a failure
\* with no atoms, and every step of a scenario declared has an atom (docs/reference/
\* scenario-declaration-surface.md:106-108).
TypeOK ==
  /\ scenario \in Scenarios \cup {Absent} /\ mission \in Missions
  /\ export.next \in {"begin", "load", "again"} /\ check.next \in {"result", "accounting", "declaration"}
  /\ budget \in [runs : Nat, upsets : Nat]
  /\ Readable(declaration) =>
       /\ declaration.sha \in Scenarios \cup {None}
       /\ declaration.result = "failed" <=> declaration.atoms = None
       /\ IsLoaded(declaration) =>
            /\ declaration.sha # None /\ declaration.of \in Scenarios
            /\ {declaration.atoms[n].step : n \in DOMAIN declaration.atoms} =
                 0..Len(Content[declaration.of].steps)

\* A declaration refers only to entities of the mission that it was made with, in every
\* atom of every kind: the references that the loader looks up, the payload that only the
\* export looks up, and the initial state (docs/reference/scenario-declaration-surface.md:261).
ReferencesResolve ==
  IsLoaded(declaration) =>
    \A n \in DOMAIN declaration.atoms : \A ref \in declaration.atoms[n].refs :
      Declares(declaration.in, ref)

\* What a declaration says is expected is what the simulator checks: for a scenario that
\* can be declared, the runner, which interprets the same steps on its own and passes over
\* what it does not understand, records a result for each expectation atom and for nothing
\* else, of the same kind, step and entities.
ExpectedIsChecked ==
  IsLoaded(declaration) =>
    LET steps == Content[declaration.of].steps
        atoms == declaration.atoms
        expectations == {n \in DOMAIN atoms : atoms[n].step > 0 /\ atoms[n].kind \notin
                           {"command", "telemetry_injection"}}
        declared == [n \in expectations |-> <<atoms[n].step, atoms[n].kind, atoms[n].refs>>]
    IN  /\ Range(declared) = UNION {RecordedOfStep(steps[k], k) : k \in DOMAIN steps}
        /\ IsInjective(declared)

\* An accounting that was verified accounts for the scenario whose digest it names, not
\* only for the declaration that it was compared with: each atom of that scenario has one
\* record or is reported as unaccounted, and none is if the accounting is complete; each
\* mapping is one of the adapter's result; provided that the declaration's digest was that
\* of the bytes it was made from (see SourceIsConsumed).
VerifiedAccounts ==
  (verified # None /\ verified.declaration.sha = verified.declaration.of) =>
    LET payload == verified.accounting
        atoms == DOMAIN Atoms(Content[payload.sha])
    IN  /\ Recorded(payload) \cup verified.unaccounted = atoms
        /\ Len(payload.records) + Cardinality(verified.unaccounted) = Cardinality(atoms)
        /\ payload.complete => verified.unaccounted = {}
        /\ Mapped(payload) \subseteq Range(verified.result.mappings)
        /\ payload.sha = verified.result.scenario

\* "`source.scenario_sha256` is SHA-256 over the exact consumed Scenario bytes"
\* (docs/reference/scenario-declaration-surface.md:68): of the bytes whose atoms are declared.
SourceIsConsumed == IsLoaded(declaration) => declaration.sha = declaration.of

=============================================================================
