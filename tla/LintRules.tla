----------------------------- MODULE LintRules -----------------------------
(***************************************************************************)
(* LintEngine: the semantic rules that `orbitfabric lint` runs on a loaded *)
(* Mission Model.  A rule is the set of its findings; a report is their    *)
(* union.  An error stops the generators, a warning does not.              *)
(***************************************************************************)
EXTENDS MissionModel, FiniteSetsExt

Findings(severity, code, objects) ==
  {[severity |-> severity, code |-> code, object |-> o, at |-> 0, ref |-> None] : o \in objects}
Errors(code, objects) == Findings("ERROR", code, objects)
Warnings(code, objects) == Findings("WARNING", code, objects)

\* The loops that report each reference whose target is not declared.
Unknown(code, refs, ids) ==
  {[severity |-> "ERROR", code |-> code, object |-> r.owner, at |-> r.at, ref |-> r.id] :
     r \in {s \in refs : s.id \notin ids}}

Ranked(level) == level \in {"high", "critical"}
Risky(level) == level \in {"medium", "high", "critical"}

---------------------------------------------------------------------------
(* References across files (rules_references.py). *)

TelemetryReferences(m) ==
  Unknown("OF-REF-001", Names(m.telemetry, "source"), Declared(m, "subsystems"))

\* Mutant of CommandReferences: the events that a command emits are not looked up.
WithoutEmits(m) ==
  Unknown("OF-REF-002", Names(m.commands, "target"), Declared(m, "subsystems"))
  \cup Unknown("OF-REF-008", Lists(m.commands, "allowed_modes"), Declared(m, "modes"))

CommandReferences(m) ==
  Unknown("OF-REF-002", Names(m.commands, "target"), Declared(m, "subsystems"))
  \cup Unknown("OF-REF-006", Lists(m.commands, "emits"), Declared(m, "events"))
  \cup Unknown("OF-REF-008", Lists(m.commands, "allowed_modes"), Declared(m, "modes"))

EventReferences(m) ==
  Unknown("OF-REF-003", Names(m.events, "source"), Declared(m, "subsystems"))

FaultReferences(m) ==
  Unknown("OF-REF-004", Names(m.faults, "source"), Declared(m, "subsystems"))
  \cup Unknown("OF-REF-005", Names(m.faults, "telemetry"), Declared(m, "telemetry"))
  \cup Unknown("OF-REF-007", Lists(m.faults, "emits"), Declared(m, "events"))
  \cup Unknown("OF-REF-009", Names(m.faults, "mode_transition"), Declared(m, "modes"))
  \cup Unknown("OF-FLT-005", Lists(m.faults, "auto_commands"), Declared(m, "commands"))

PacketReferences(m) ==
  Unknown("OF-REF-010", Lists(m.packets, "telemetry"), Declared(m, "telemetry"))

check_references(m) ==
  TelemetryReferences(m) \cup CommandReferences(m) \cup EventReferences(m)
  \cup FaultReferences(m) \cup PacketReferences(m)

---------------------------------------------------------------------------
(* Modes and payload contracts (rules_modes.py, rules_payloads.py). *)

check_modes(m) ==
  LET initial == {id \in Declared(m, "modes") : m.modes[id].initial}
      ends(end) == {[owner |-> None, at |-> k, id |-> m.mode_transitions[k][end]] :
                      k \in DOMAIN m.mode_transitions}
  IN  Errors("OF-MODE-001", IF \E id \in initial : initial = {id} THEN {} ELSE {None})
      \cup Unknown("OF-MODE-003", ends("from") \cup ends("to"), Declared(m, "modes"))

PayloadSubsystem(m) ==
  Unknown("OF-PAY-001", Names(m.payloads, "subsystem"), Declared(m, "subsystems"))
  \cup Errors("OF-PAY-002",
         {p \in Declared(m, "payloads") :
            /\ m.payloads[p].subsystem \in Declared(m, "subsystems")
            /\ m.subsystems[m.payloads[p].subsystem].type # "payload"})

LifecycleDefinition(m) ==
  Errors("OF-PAY-003", {p \in Declared(m, "payloads") : m.payloads[p].initial_state = None})
  \cup Errors("OF-PAY-004",
         {p \in Declared(m, "payloads") : m.payloads[p].initial_state \notin m.payloads[p].states})

PayloadReferences(m) ==
  Unknown("OF-PAY-005", Lists(m.payloads, "telemetry"), Declared(m, "telemetry"))
  \cup Unknown("OF-PAY-006", Lists(m.payloads, "commands"), Declared(m, "commands"))
  \cup Unknown("OF-PAY-007", Lists(m.payloads, "events"), Declared(m, "events"))
  \cup Unknown("OF-PAY-008", Lists(m.payloads, "faults"), Declared(m, "faults"))

\* One finding at most for a payload_lifecycle entry: no payload, or no such state of it.
LifecycleReferenceGroup(m, code, field) ==
  Errors(code,
    {c \in Declared(m, "commands") :
       LET ref == m.commands[c][field]
       IN  /\ ref # None
           /\ ref.payload \in Declared(m, "payloads") =>
                ref.state \notin m.payloads[ref.payload].states})

check_payloads(m) ==
  PayloadSubsystem(m) \cup LifecycleDefinition(m) \cup PayloadReferences(m)
  \cup LifecycleReferenceGroup(m, "OF-PAY-009", "requires")
  \cup LifecycleReferenceGroup(m, "OF-PAY-010", "leaves")

---------------------------------------------------------------------------
(* Data products and contacts (rules_data_products.py, rules_contacts.py). *)

ProducedBy(m, kind) ==
  Names([d \in {p \in Declared(m, "data_products") : m.data_products[p].producer_type = kind} |->
           m.data_products[d]], "producer")

ProducerReference(m) ==
  Unknown("OF-DP-002", ProducedBy(m, "payload"), Declared(m, "payloads"))
  \cup Unknown("OF-DP-002", ProducedBy(m, "subsystem"), Declared(m, "subsystems"))

PayloadReference(m) ==
  Unknown("OF-DP-003", Names(m.data_products, "payload"), Declared(m, "payloads"))

StorageIntent(m) ==
  LET without(intent) == {d \in Declared(m, "data_products") :
                            /\ m.data_products[d].storage # None
                            /\ intent \notin m.data_products[d].storage}
  IN  Warnings("OF-DP-006", without("retention"))
      \cup Warnings("OF-DP-007", without("overflow_policy"))

DownlinkIntent(m) ==
  Warnings("OF-DP-008", {d \in Declared(m, "data_products") :
                           Ranked(m.data_products[d].priority) /\ ~m.data_products[d].downlink})

check_data_products(m) ==
  ProducerReference(m) \cup PayloadReference(m) \cup StorageIntent(m) \cup DownlinkIntent(m)

WindowReferences(m) ==
  Unknown("OF-CON-001", Names(m.contact_windows, "contact_profile"),
          Declared(m, "contact_profiles"))
  \cup Unknown("OF-CON-002", Names(m.contact_windows, "link_profile"),
               Declared(m, "link_profiles"))

FlowReferences(m) ==
  Unknown("OF-DL-001", Names(m.downlink_flows, "contact_profile"),
          Declared(m, "contact_profiles"))
  \cup Unknown("OF-DL-002", Names(m.downlink_flows, "link_profile"),
               Declared(m, "link_profiles"))
  \cup Unknown("OF-DL-003", Lists(m.downlink_flows, "eligible_data_products"),
               Declared(m, "data_products"))

EligibleProducts(m) == {r.id : r \in Lists(m.downlink_flows, "eligible_data_products")}

HighPriorityProducts(m) ==
  Warnings("OF-DL-004",
    {d \in Declared(m, "data_products") \ EligibleProducts(m) :
       Ranked(m.data_products[d].priority) /\ m.data_products[d].downlink})

\* A product that a flow lists twice counts twice; windows without a capacity do not count.
FlowSize(m, f) ==
  MapThenSumSet(LAMBDA r : m.data_products[r.id].size,
    {r \in Lists([g \in {f} |-> m.downlink_flows[f]], "eligible_data_products") :
       r.id \in Declared(m, "data_products")})
FlowWindows(m, f) ==
  {w \in Declared(m, "contact_windows") :
     /\ m.contact_windows[w].contact_profile = m.downlink_flows[f].contact_profile
     /\ m.contact_windows[w].link_profile = m.downlink_flows[f].link_profile
     /\ m.contact_windows[w].capacity # None}
ContactCapacity(m) ==
  Warnings("OF-DL-005",
    {f \in Declared(m, "downlink_flows") :
       /\ FlowWindows(m, f) # {}
       /\ FlowSize(m, f) > MapThenSumSet(LAMBDA w : m.contact_windows[w].capacity,
                                          FlowWindows(m, f))})

HasContent(m, domains) == \E d \in domains : Declared(m, d) # {}

check_contacts(m) ==
  WindowReferences(m) \cup FlowReferences(m)
  \cup IF HasContent(m, {"contact_profiles", "link_profiles", "contact_windows",
                          "downlink_flows"})
         THEN HighPriorityProducts(m) \cup ContactCapacity(m) ELSE {}

---------------------------------------------------------------------------
(* Commandability and autonomy (rules_commandability.py). *)

CommandSourceRules(m) ==
  Warnings("OF-CAB-004", {s \in Declared(m, "command_sources") :
                            /\ m.command_sources[s].type = "ground"
                            /\ m.command_sources[s].requires_contact
                            /\ m.command_sources[s].contact_profile = None})
  \cup Unknown("OF-CAB-005", Names(m.command_sources, "contact_profile"),
               Declared(m, "contact_profiles"))

CommandabilityRules(m) ==
  Unknown("OF-CAB-001", Names(m.commandability_rules, "command"), Declared(m, "commands"))
  \cup Unknown("OF-CAB-002", Lists(m.commandability_rules, "allowed_modes"),
               Declared(m, "modes"))
  \cup Unknown("OF-CAB-003", Lists(m.commandability_rules, "sources"),
               Declared(m, "command_sources"))
  \cup Unknown("OF-CAB-006", Lists(m.commandability_rules, "expected_events"),
               Declared(m, "events"))

AutonomousTriggers(m) ==
  Unknown("OF-AUT-003", Names(m.autonomous_actions, "event"), Declared(m, "events"))
  \cup Unknown("OF-AUT-003", Names(m.autonomous_actions, "fault"), Declared(m, "faults"))
  \cup Unknown("OF-AUT-003", Names(m.autonomous_actions, "telemetry"), Declared(m, "telemetry"))
  \cup Unknown("OF-AUT-003", Names(m.autonomous_actions, "mode"), Declared(m, "modes"))

AutonomousActions(m) ==
  Unknown("OF-AUT-001", Names(m.autonomous_actions, "command"), Declared(m, "commands"))
  \cup Unknown("OF-AUT-002", Names(m.autonomous_actions, "source"),
               Declared(m, "command_sources"))
  \cup AutonomousTriggers(m)
  \cup Unknown("OF-AUT-004", Lists(m.autonomous_actions, "expected_events"),
               Declared(m, "events"))
  \cup Warnings("OF-AUT-005", {a \in Declared(m, "autonomous_actions") :
                                 /\ m.autonomous_actions[a].expected_events = <<>>
                                 /\ ~m.autonomous_actions[a].expected_effects})

RecoveryIntents(m) ==
  Unknown("OF-REC-001", Lists(m.recovery_intents, "commands"), Declared(m, "commands"))
  \cup Unknown("OF-REC-002", Names(m.recovery_intents, "fault"), Declared(m, "faults"))
  \cup Unknown("OF-REC-002", Names(m.recovery_intents, "event"), Declared(m, "events"))
  \cup Unknown("OF-REC-002", Names(m.recovery_intents, "target_mode"), Declared(m, "modes"))
  \cup Unknown("OF-REC-003", Lists(m.recovery_intents, "expected_events"),
               Declared(m, "events"))

\* The rule for a command is the last one in the file: a dict keeps the last value.
LastRule(m, c, r) ==
  LET table == m.commandability_rules
  IN  /\ table[r].command = c
      /\ \A s \in DOMAIN table : table[s].command = c => table[s].at <= table[r].at

UnconfirmedRisks(m) ==
  Warnings("OF-CAB-007",
    {c \in Declared(m, "commands") :
       /\ Risky(m.commands[c].risk)
       /\ ~\E r \in Declared(m, "commandability_rules") :
             LastRule(m, c, r) /\ m.commandability_rules[r].confirmation = "required"})

check_commandability(m) ==
  CommandSourceRules(m) \cup CommandabilityRules(m) \cup AutonomousActions(m)
  \cup RecoveryIntents(m)
  \cup IF HasContent(m, {"command_sources", "commandability_rules", "autonomous_actions",
                          "recovery_intents"})
         THEN UnconfirmedRisks(m) ELSE {}

---------------------------------------------------------------------------
(* The rules about one object. *)

check_telemetry(m) ==
  LET item == m.telemetry
  IN  Errors("OF-TLM-001", {t \in DOMAIN item : /\ item[t].type \in Numeric
                                                /\ Ranked(item[t].criticality)
                                                /\ ~item[t].limits})
      \cup Errors("OF-TLM-006", {t \in DOMAIN item : item[t].type = "enum" /\ ~item[t].enum})
      \cup Warnings("OF-TLM-007", {t \in DOMAIN item : ~item[t].quality})

ExpectedProducts(m) ==
  LET table == m.commands
      list == {c \in DOMAIN table : table[c].data_products \notin {None, Malformed}}
      refs == Lists([c \in list |-> table[c]], "data_products")
      ill == {r \in refs : r.id = Malformed}
  IN  Errors("OF-CMD-008", {c \in DOMAIN table : table[c].data_products = Malformed})
      \cup Unknown("OF-CMD-008", ill, {})
      \cup Unknown("OF-CMD-009", refs \ ill, Declared(m, "data_products"))

check_commands(m) ==
  LET table == m.commands
  IN  Warnings("OF-CMD-005", {c \in DOMAIN table : ~table[c].timeout_ms})
      \cup Warnings("OF-CMD-006", {c \in DOMAIN table : /\ table[c].leaves = None
                                                        /\ table[c].data_products = None
                                                        /\ ~table[c].other_effects})
      \cup ExpectedProducts(m)
      \cup Errors("OF-CMD-007",
             {r.owner : r \in {s \in Lists(table, "allowed_modes") :
                                 s.id = "SAFE" /\ Risky(table[s.owner].risk)}})

check_events(m) ==
  Warnings("OF-EVT-002", {e \in DOMAIN m.events : ~m.events[e].downlink_priority})
  \cup Warnings("OF-EVT-003", {e \in DOMAIN m.events : ~m.events[e].persistence})

check_faults(m) == Errors("OF-FLT-003", {f \in DOMAIN m.faults : m.faults[f].emits = <<>>})

check_packets(m) ==
  Errors("OF-PKT-002", {p \in DOMAIN m.packets : m.packets[p].telemetry = <<>>})
  \cup Errors("OF-PKT-003", {p \in DOMAIN m.packets : m.packets[p].max_payload_bytes <= 0})

---------------------------------------------------------------------------
(* LintEngine.run and LintReport. *)

LintRun(m) ==
  check_references(m) \cup check_modes(m) \cup check_payloads(m) \cup check_data_products(m)
  \cup check_contacts(m) \cup check_commandability(m) \cup check_telemetry(m)
  \cup check_commands(m) \cup check_events(m) \cup check_faults(m) \cup check_packets(m)

Of(findings, severity) == {f \in findings : f.severity = severity}
has_errors(findings) == Of(findings, "ERROR") # {}
result_label(findings) ==
  IF has_errors(findings) THEN "FAILED"
  ELSE IF Of(findings, "WARNING") # {} THEN "PASSED WITH WARNINGS" ELSE "PASSED"

=============================================================================
