--------------------------- MODULE ModelSurfaces ---------------------------
(***************************************************************************)
(* The surfaces that Core exports of one loaded model: the Entity Index,   *)
(* the Relationship Manifest, the Model Summary, the Mission Snapshot and  *)
(* the Dashboard Summary.  None of them runs the lint rules.               *)
(***************************************************************************)
EXTENDS MissionLoad, LintRules

---------------------------------------------------------------------------
(* entity_index.py *)

\* _domain_specs: the domains, in which file they are declared, and which are indexed.
SourceFile ==
  [d \in Tables \cup {"spacecraft", "mode_transitions", "policies"} |->
     CASE d = "spacecraft" -> "spacecraft.yaml"
       [] d = "mode_transitions" -> "modes.yaml"
       [] d = "policies" -> "policies.yaml"
       [] OTHER -> CHOOSE file \in ModelFiles : d \in TablesOf(file)]
Domains == DOMAIN SourceFile
Indexed == Domains \ {"mode_transitions", "policies"}

Entities(m, d) == IF d = "spacecraft" THEN {m.spacecraft} ELSE Declared(m, d)
DomainCount(m, d) ==
  CASE d = "policies" -> 1
    [] d = "mode_transitions" -> Len(m.mode_transitions)
    [] OTHER -> Cardinality(Entities(m, d))
Present(files, d) == files[SourceFile[d]] # "absent"

EntityIndex(m, files) ==
  [entities |-> {e \in [domain : Indexed, id : Ids] : e.id \in Entities(m, e.domain)},
   domains |-> [d \in Domains |->
                  [required |-> SourceFile[d] \in REQUIRED_FILES,
                   present |-> Present(files, d), indexed |-> d \in Indexed,
                   model_count |-> DomainCount(m, d),
                   entity_count |-> IF d \in Indexed THEN DomainCount(m, d) ELSE 0]]]

---------------------------------------------------------------------------
(* relationship_manifest.py.  `at` keeps the records of a repeated list    *)
(* entry apart, which share their relationship_id.                         *)

Relate(type, from, refs, to) ==
  {[type |-> type, from |-> [domain |-> from, id |-> r.owner],
    to |-> [domain |-> to, id |-> r.id], at |-> r.at] : r \in refs}

\* The families that leave out a reference whose target is not declared.
RelateDeclared(m, type, from, refs, to) ==
  Relate(type, from, {r \in refs : r.id \in Declared(m, to)}, to)

ActionDispatches(m) ==
  RelateDeclared(m, "autonomous_action_dispatches_command", "autonomous_actions",
                 Names(m.autonomous_actions, "command"), "commands")
ActionTriggeredByFault(m) ==
  RelateDeclared(m, "autonomous_action_triggered_by_fault", "autonomous_actions",
                 Names(m.autonomous_actions, "fault"), "faults")
ActionUsesSource(m) ==
  RelateDeclared(m, "autonomous_action_uses_command_source", "autonomous_actions",
                 Names(m.autonomous_actions, "source"), "command_sources")
RuleConstrains(m) ==
  RelateDeclared(m, "commandability_rule_constrains_command", "commandability_rules",
                 Names(m.commandability_rules, "command"), "commands")
CommandEmits(m) ==
  Relate("command_emits_event", "commands", Lists(m.commands, "emits"), "events")
CommandTargets(m) ==
  RelateDeclared(m, "command_targets_subsystem", "commands",
                 Names(m.commands, "target"), "subsystems")
ProducedByPayload(m) ==
  RelateDeclared(m, "data_product_produced_by_payload", "data_products",
                 ProducedBy(m, "payload"), "payloads")
ProducedBySubsystem(m) ==
  RelateDeclared(m, "data_product_produced_by_subsystem", "data_products",
                 ProducedBy(m, "subsystem"), "subsystems")
FlowIncludes(m) ==
  RelateDeclared(m, "downlink_flow_includes_data_product", "downlink_flows",
                 Lists(m.downlink_flows, "eligible_data_products"), "data_products")
EventSource(m) ==
  RelateDeclared(m, "event_sourced_from_subsystem", "events",
                 Names(m.events, "source"), "subsystems")
FaultEmits(m) ==
  Relate("fault_emits_event", "faults", Lists(m.faults, "emits"), "events")
FaultObserves(m) ==
  RelateDeclared(m, "fault_observes_telemetry", "faults",
                 Names(m.faults, "telemetry"), "telemetry")
RecoveryMode(m) ==
  RelateDeclared(m, "fault_recovery_targets_mode", "faults",
                 Names(m.faults, "mode_transition"), "modes")
RecoveryCommand(m) ==
  RelateDeclared(m, "fault_recovery_dispatches_command", "faults",
                 Lists(m.faults, "auto_commands"), "commands")
FaultSource(m) ==
  RelateDeclared(m, "fault_sourced_from_subsystem", "faults",
                 Names(m.faults, "source"), "subsystems")
PacketIncludes(m) ==
  Relate("packet_includes_telemetry", "packets", Lists(m.packets, "telemetry"), "telemetry")
PayloadBelongs(m) ==
  RelateDeclared(m, "payload_belongs_to_subsystem", "payloads",
                 Names(m.payloads, "subsystem"), "subsystems")
PayloadProduces(m) ==
  Relate("payload_produces_telemetry", "payloads", Lists(m.payloads, "telemetry"), "telemetry")
PayloadAccepts(m) ==
  Relate("payload_accepts_command", "payloads", Lists(m.payloads, "commands"), "commands")
PayloadGenerates(m) ==
  Relate("payload_generates_event", "payloads", Lists(m.payloads, "events"), "events")
PayloadMayRaise(m) ==
  RelateDeclared(m, "payload_may_raise_fault", "payloads",
                 Lists(m.payloads, "faults"), "faults")
IntentReactsToEvent(m) ==
  RelateDeclared(m, "recovery_intent_reacts_to_event", "recovery_intents",
                 Names(m.recovery_intents, "event"), "events")
IntentReactsToFault(m) ==
  RelateDeclared(m, "recovery_intent_reacts_to_fault", "recovery_intents",
                 Names(m.recovery_intents, "fault"), "faults")
IntentTargetsMode(m) ==
  RelateDeclared(m, "recovery_intent_targets_mode", "recovery_intents",
                 Names(m.recovery_intents, "target_mode"), "modes")
IntentIncludes(m) ==
  RelateDeclared(m, "recovery_intent_includes_command", "recovery_intents",
                 Lists(m.recovery_intents, "commands"), "commands")
TelemetrySource(m) ==
  RelateDeclared(m, "telemetry_sourced_from_subsystem", "telemetry",
                 Names(m.telemetry, "source"), "subsystems")

relationship_records(m) ==
  ActionDispatches(m) \cup ActionTriggeredByFault(m) \cup ActionUsesSource(m)
  \cup RuleConstrains(m) \cup CommandEmits(m) \cup CommandTargets(m)
  \cup ProducedByPayload(m) \cup ProducedBySubsystem(m) \cup FlowIncludes(m)
  \cup EventSource(m) \cup FaultEmits(m) \cup FaultObserves(m) \cup RecoveryMode(m)
  \cup RecoveryCommand(m) \cup FaultSource(m) \cup PacketIncludes(m) \cup PayloadBelongs(m)
  \cup PayloadProduces(m) \cup PayloadAccepts(m) \cup PayloadGenerates(m)
  \cup PayloadMayRaise(m) \cup IntentReactsToEvent(m) \cup IntentReactsToFault(m)
  \cup IntentTargetsMode(m) \cup IntentIncludes(m) \cup TelemetrySource(m)

\* _relationship_types: for each type the domains and the model field that the manifest states.
TypeSpec ==
  [autonomous_action_dispatches_command |->
      [from |-> "autonomous_actions", to |-> "commands", field |-> "command"],
   autonomous_action_triggered_by_fault |->
      [from |-> "autonomous_actions", to |-> "faults", field |-> "fault"],
   autonomous_action_uses_command_source |->
      [from |-> "autonomous_actions", to |-> "command_sources", field |-> "source"],
   commandability_rule_constrains_command |->
      [from |-> "commandability_rules", to |-> "commands", field |-> "command"],
   command_emits_event |->
      [from |-> "commands", to |-> "events", field |-> "emits"],
   command_targets_subsystem |->
      [from |-> "commands", to |-> "subsystems", field |-> "target"],
   data_product_produced_by_payload |->
      [from |-> "data_products", to |-> "payloads", field |-> "producer"],
   data_product_produced_by_subsystem |->
      [from |-> "data_products", to |-> "subsystems", field |-> "producer"],
   downlink_flow_includes_data_product |->
      [from |-> "downlink_flows", to |-> "data_products", field |-> "eligible_data_products"],
   event_sourced_from_subsystem |->
      [from |-> "events", to |-> "subsystems", field |-> "source"],
   fault_emits_event |->
      [from |-> "faults", to |-> "events", field |-> "emits"],
   fault_observes_telemetry |->
      [from |-> "faults", to |-> "telemetry", field |-> "telemetry"],
   fault_recovery_targets_mode |->
      [from |-> "faults", to |-> "modes", field |-> "mode_transition"],
   fault_recovery_dispatches_command |->
      [from |-> "faults", to |-> "commands", field |-> "auto_commands"],
   fault_sourced_from_subsystem |->
      [from |-> "faults", to |-> "subsystems", field |-> "source"],
   packet_includes_telemetry |->
      [from |-> "packets", to |-> "telemetry", field |-> "telemetry"],
   payload_belongs_to_subsystem |->
      [from |-> "payloads", to |-> "subsystems", field |-> "subsystem"],
   payload_produces_telemetry |->
      [from |-> "payloads", to |-> "telemetry", field |-> "telemetry"],
   payload_accepts_command |->
      [from |-> "payloads", to |-> "commands", field |-> "commands"],
   payload_generates_event |->
      [from |-> "payloads", to |-> "events", field |-> "events"],
   payload_may_raise_fault |->
      [from |-> "payloads", to |-> "faults", field |-> "faults"],
   recovery_intent_reacts_to_event |->
      [from |-> "recovery_intents", to |-> "events", field |-> "event"],
   recovery_intent_reacts_to_fault |->
      [from |-> "recovery_intents", to |-> "faults", field |-> "fault"],
   recovery_intent_targets_mode |->
      [from |-> "recovery_intents", to |-> "modes", field |-> "target_mode"],
   recovery_intent_includes_command |->
      [from |-> "recovery_intents", to |-> "commands", field |-> "commands"],
   telemetry_sourced_from_subsystem |->
      [from |-> "telemetry", to |-> "subsystems", field |-> "source"]]

\* The references that the model states in the field that the manifest names for a type.
Stated(m, type) ==
  LET table == m[TypeSpec[type].from]
      field == TypeSpec[type].field
  IN  CASE type = "data_product_produced_by_payload" -> ProducedBy(m, "payload")
        [] type = "data_product_produced_by_subsystem" -> ProducedBy(m, "subsystem")
        [] field \in {"emits", "auto_commands", "commands", "events", "faults",
                      "eligible_data_products"}
           \/ (field = "telemetry" /\ TypeSpec[type].from # "faults") -> Lists(table, field)
        [] OTHER -> Names(table, field)

\* _relationship_type_counts over all records, repeated ones included.
type_counts(records) ==
  [t \in {r.type : r \in records} |-> Cardinality({r \in records : r.type = t})]

RelationshipManifest(m) ==
  LET records == relationship_records(m)
  IN  [relationships |-> records, total |-> Cardinality(records),
       types |-> [t \in DOMAIN type_counts(records) |->
                    [spec |-> TypeSpec[t], count |-> type_counts(records)[t]]]]

---------------------------------------------------------------------------
(* model_summary.py, mission_snapshot.py, dashboard_summary.py *)

ModelSummary(m, files) ==
  [d \in Domains |-> [present |-> Present(files, d), count |-> DomainCount(m, d)]]

\* The envelope is written also when the model does not load.
MissionSnapshot(ws) ==
  IF LoadFails(ws)
    THEN [result |-> "failed", diagnostics |-> LoadDiagnostics(ws), model |-> None]
    ELSE [result |-> "loaded", diagnostics |-> {}, model |-> Loaded(ws)]

presence_summary(summary, required) ==
  LET selected == {d \in Domains : (SourceFile[d] \in REQUIRED_FILES) = required}
  IN  [total |-> Cardinality(selected),
       present |-> Cardinality({d \in selected : summary[d].present}),
       missing |-> Cardinality({d \in selected : ~summary[d].present})]

DashboardSummary(m, files, report) ==
  [validation |-> result_label(report),
   required |-> presence_summary(ModelSummary(m, files), TRUE),
   optional |-> presence_summary(ModelSummary(m, files), FALSE),
   entities |-> Cardinality(EntityIndex(m, files).entities),
   relationships |-> RelationshipManifest(m).total,
   relationship_types |-> type_counts(relationship_records(m))]

=============================================================================
