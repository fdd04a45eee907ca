----------------------------- MODULE LintProofs -----------------------------
(***************************************************************************)
(* What a lint run without errors guarantees of any Mission Model, and of  *)
(* the Relationship Manifest that is exported of it: the references that a *)
(* manifest would drop are ones that a rule reports.                       *)
(***************************************************************************)
EXTENDS ModelSurfaces, TLAPS

---------------------------------------------------------------------------
(* The owners of references. *)

LEMMA NamesOwned == ASSUME NEW table, NEW field, NEW r \in Names(table, field)
                    PROVE  r.owner \in DOMAIN table
  BY DEF Names

LEMMA ListsOwned == ASSUME NEW table, NEW field, NEW r \in Lists(table, field)
                    PROVE  r.owner \in DOMAIN table
  BY DEF Lists

LEMMA ProducedByOwned == ASSUME NEW m, NEW kind, NEW r \in ProducedBy(m, kind)
                         PROVE  r.owner \in DOMAIN m.data_products
<1> DEFINE S == {p \in DOMAIN m.data_products : m.data_products[p].producer_type = kind}
           T == [d \in S |-> m.data_products[d]]
<1>1. ProducedBy(m, kind) = Names(T, "producer")
  BY DEF ProducedBy, Declared
<1>2. DOMAIN T = S /\ S \subseteq DOMAIN m.data_products
  OBVIOUS
<1> HIDE DEF T, S
<1> QED
  BY <1>1, <1>2, NamesOwned

---------------------------------------------------------------------------
(* The references that the rules look up. *)

\* A rule of LintRun that looks up references found them all if the run has no error.
LEMMA LookedUp ==
  ASSUME NEW findings, ~has_errors(findings),
         NEW code, NEW refs, NEW ids, Unknown(code, refs, ids) \subseteq findings
  PROVE  \A r \in refs : r.id \in ids
<1> SUFFICES ASSUME NEW r \in refs, r.id \notin ids PROVE FALSE
  OBVIOUS
<1> DEFINE f == [severity |-> "ERROR", code |-> code, object |-> r.owner, at |-> r.at, ref |-> r.id]
<1>1. f \in Unknown(code, refs, ids)
  BY DEF Unknown
<1>2. f.severity = "ERROR"
  OBVIOUS
<1> QED
  BY <1>1, <1>2 DEF has_errors, Of

LEMMA LintLooksUp ==
  ASSUME NEW m
  PROVE
    /\ Unknown("OF-REF-001", Names(m.telemetry, "source"),
               Declared(m, "subsystems")) \subseteq LintRun(m)
    /\ Unknown("OF-REF-002", Names(m.commands, "target"),
               Declared(m, "subsystems")) \subseteq LintRun(m)
    /\ Unknown("OF-REF-006", Lists(m.commands, "emits"),
               Declared(m, "events")) \subseteq LintRun(m)
    /\ Unknown("OF-REF-008", Lists(m.commands, "allowed_modes"),
               Declared(m, "modes")) \subseteq LintRun(m)
    /\ Unknown("OF-REF-003", Names(m.events, "source"),
               Declared(m, "subsystems")) \subseteq LintRun(m)
    /\ Unknown("OF-REF-004", Names(m.faults, "source"),
               Declared(m, "subsystems")) \subseteq LintRun(m)
    /\ Unknown("OF-REF-005", Names(m.faults, "telemetry"),
               Declared(m, "telemetry")) \subseteq LintRun(m)
    /\ Unknown("OF-REF-007", Lists(m.faults, "emits"),
               Declared(m, "events")) \subseteq LintRun(m)
    /\ Unknown("OF-REF-009", Names(m.faults, "mode_transition"),
               Declared(m, "modes")) \subseteq LintRun(m)
    /\ Unknown("OF-FLT-005", Lists(m.faults, "auto_commands"),
               Declared(m, "commands")) \subseteq LintRun(m)
    /\ Unknown("OF-REF-010", Lists(m.packets, "telemetry"),
               Declared(m, "telemetry")) \subseteq LintRun(m)
    /\ Unknown("OF-PAY-001", Names(m.payloads, "subsystem"),
               Declared(m, "subsystems")) \subseteq LintRun(m)
    /\ Unknown("OF-PAY-005", Lists(m.payloads, "telemetry"),
               Declared(m, "telemetry")) \subseteq LintRun(m)
    /\ Unknown("OF-PAY-006", Lists(m.payloads, "commands"),
               Declared(m, "commands")) \subseteq LintRun(m)
    /\ Unknown("OF-PAY-007", Lists(m.payloads, "events"),
               Declared(m, "events")) \subseteq LintRun(m)
    /\ Unknown("OF-PAY-008", Lists(m.payloads, "faults"),
               Declared(m, "faults")) \subseteq LintRun(m)
    /\ Unknown("OF-DP-002", ProducedBy(m, "payload"),
               Declared(m, "payloads")) \subseteq LintRun(m)
    /\ Unknown("OF-DP-002", ProducedBy(m, "subsystem"),
               Declared(m, "subsystems")) \subseteq LintRun(m)
    /\ Unknown("OF-DP-003", Names(m.data_products, "payload"),
               Declared(m, "payloads")) \subseteq LintRun(m)
    /\ Unknown("OF-CON-001", Names(m.contact_windows, "contact_profile"),
               Declared(m, "contact_profiles")) \subseteq LintRun(m)
    /\ Unknown("OF-CON-002", Names(m.contact_windows, "link_profile"),
               Declared(m, "link_profiles")) \subseteq LintRun(m)
    /\ Unknown("OF-DL-001", Names(m.downlink_flows, "contact_profile"),
               Declared(m, "contact_profiles")) \subseteq LintRun(m)
    /\ Unknown("OF-DL-002", Names(m.downlink_flows, "link_profile"),
               Declared(m, "link_profiles")) \subseteq LintRun(m)
    /\ Unknown("OF-DL-003", Lists(m.downlink_flows, "eligible_data_products"),
               Declared(m, "data_products")) \subseteq LintRun(m)
    /\ Unknown("OF-CAB-005", Names(m.command_sources, "contact_profile"),
               Declared(m, "contact_profiles")) \subseteq LintRun(m)
    /\ Unknown("OF-CAB-001", Names(m.commandability_rules, "command"),
               Declared(m, "commands")) \subseteq LintRun(m)
    /\ Unknown("OF-CAB-002", Lists(m.commandability_rules, "allowed_modes"),
               Declared(m, "modes")) \subseteq LintRun(m)
    /\ Unknown("OF-CAB-003", Lists(m.commandability_rules, "sources"),
               Declared(m, "command_sources")) \subseteq LintRun(m)
    /\ Unknown("OF-CAB-006", Lists(m.commandability_rules, "expected_events"),
               Declared(m, "events")) \subseteq LintRun(m)
    /\ Unknown("OF-AUT-003", Names(m.autonomous_actions, "event"),
               Declared(m, "events")) \subseteq LintRun(m)
    /\ Unknown("OF-AUT-003", Names(m.autonomous_actions, "fault"),
               Declared(m, "faults")) \subseteq LintRun(m)
    /\ Unknown("OF-AUT-003", Names(m.autonomous_actions, "telemetry"),
               Declared(m, "telemetry")) \subseteq LintRun(m)
    /\ Unknown("OF-AUT-003", Names(m.autonomous_actions, "mode"),
               Declared(m, "modes")) \subseteq LintRun(m)
    /\ Unknown("OF-AUT-001", Names(m.autonomous_actions, "command"),
               Declared(m, "commands")) \subseteq LintRun(m)
    /\ Unknown("OF-AUT-002", Names(m.autonomous_actions, "source"),
               Declared(m, "command_sources")) \subseteq LintRun(m)
    /\ Unknown("OF-AUT-004", Lists(m.autonomous_actions, "expected_events"),
               Declared(m, "events")) \subseteq LintRun(m)
    /\ Unknown("OF-REC-001", Lists(m.recovery_intents, "commands"),
               Declared(m, "commands")) \subseteq LintRun(m)
    /\ Unknown("OF-REC-002", Names(m.recovery_intents, "fault"),
               Declared(m, "faults")) \subseteq LintRun(m)
    /\ Unknown("OF-REC-002", Names(m.recovery_intents, "event"),
               Declared(m, "events")) \subseteq LintRun(m)
    /\ Unknown("OF-REC-002", Names(m.recovery_intents, "target_mode"),
               Declared(m, "modes")) \subseteq LintRun(m)
    /\ Unknown("OF-REC-003", Lists(m.recovery_intents, "expected_events"),
               Declared(m, "events")) \subseteq LintRun(m)
<1>1. /\ check_references(m) \subseteq LintRun(m) /\ check_payloads(m) \subseteq LintRun(m)
      /\ check_data_products(m) \subseteq LintRun(m) /\ check_contacts(m) \subseteq LintRun(m)
      /\ check_commandability(m) \subseteq LintRun(m)
  BY DEF LintRun
<1>2. /\ TelemetryReferences(m) \subseteq LintRun(m) /\ CommandReferences(m) \subseteq LintRun(m)
      /\ EventReferences(m) \subseteq LintRun(m) /\ FaultReferences(m) \subseteq LintRun(m)
      /\ PacketReferences(m) \subseteq LintRun(m)
  BY <1>1 DEF check_references
<1>3. /\ PayloadSubsystem(m) \subseteq LintRun(m) /\ PayloadReferences(m) \subseteq LintRun(m)
      /\ ProducerReference(m) \subseteq LintRun(m) /\ PayloadReference(m) \subseteq LintRun(m)
      /\ WindowReferences(m) \subseteq LintRun(m) /\ FlowReferences(m) \subseteq LintRun(m)
      /\ CommandSourceRules(m) \subseteq LintRun(m) /\ CommandabilityRules(m) \subseteq LintRun(m)
      /\ AutonomousActions(m) \subseteq LintRun(m) /\ RecoveryIntents(m) \subseteq LintRun(m)
  BY <1>1 DEF check_payloads, check_data_products, check_contacts, check_commandability
<1>4. AutonomousTriggers(m) \subseteq LintRun(m)
  BY <1>3 DEF AutonomousActions
<1> QED
  BY <1>2, <1>3, <1>4 DEF TelemetryReferences, CommandReferences, EventReferences,
     FaultReferences, PacketReferences, PayloadSubsystem, PayloadReferences, ProducerReference,
     PayloadReference, WindowReferences, FlowReferences, CommandSourceRules, CommandabilityRules,
     AutonomousActions, AutonomousTriggers, RecoveryIntents

Found(m, refs, domain) == \A r \in refs : r.id \in Declared(m, domain)

LEMMA LookedUpIsFound ==
  ASSUME NEW m, ~has_errors(LintRun(m)), NEW code, NEW refs, NEW domain,
         Unknown(code, refs, Declared(m, domain)) \subseteq LintRun(m)
  PROVE  Found(m, refs, domain)
  BY LookedUp DEF Found

\* Fields that name an object, fields that list objects: the table, the field and the domain
\* of the objects.
NamingFields ==
  {<<"telemetry", "source", "subsystems">>, <<"commands", "target", "subsystems">>,
   <<"events", "source", "subsystems">>, <<"faults", "source", "subsystems">>,
   <<"faults", "telemetry", "telemetry">>, <<"faults", "mode_transition", "modes">>,
   <<"payloads", "subsystem", "subsystems">>, <<"data_products", "payload", "payloads">>,
   <<"contact_windows", "contact_profile", "contact_profiles">>,
   <<"contact_windows", "link_profile", "link_profiles">>,
   <<"downlink_flows", "contact_profile", "contact_profiles">>,
   <<"downlink_flows", "link_profile", "link_profiles">>,
   <<"command_sources", "contact_profile", "contact_profiles">>,
   <<"commandability_rules", "command", "commands">>,
   <<"autonomous_actions", "event", "events">>, <<"autonomous_actions", "fault", "faults">>,
   <<"autonomous_actions", "telemetry", "telemetry">>,
   <<"autonomous_actions", "mode", "modes">>, <<"autonomous_actions", "command", "commands">>,
   <<"autonomous_actions", "source", "command_sources">>,
   <<"recovery_intents", "fault", "faults">>, <<"recovery_intents", "event", "events">>,
   <<"recovery_intents", "target_mode", "modes">>}

ListingFields ==
  {<<"commands", "emits", "events">>, <<"commands", "allowed_modes", "modes">>,
   <<"faults", "emits", "events">>, <<"faults", "auto_commands", "commands">>,
   <<"packets", "telemetry", "telemetry">>, <<"payloads", "telemetry", "telemetry">>,
   <<"payloads", "commands", "commands">>, <<"payloads", "events", "events">>,
   <<"payloads", "faults", "faults">>,
   <<"downlink_flows", "eligible_data_products", "data_products">>,
   <<"commandability_rules", "allowed_modes", "modes">>,
   <<"commandability_rules", "sources", "command_sources">>,
   <<"commandability_rules", "expected_events", "events">>,
   <<"autonomous_actions", "expected_events", "events">>,
   <<"recovery_intents", "commands", "commands">>,
   <<"recovery_intents", "expected_events", "events">>}

LEMMA FieldsFound ==
  ASSUME NEW m, ~has_errors(LintRun(m))
  PROVE  /\ \A f \in NamingFields : Found(m, Names(m[f[1]], f[2]), f[3])
         /\ \A f \in ListingFields : Found(m, Lists(m[f[1]], f[2]), f[3])
         /\ Found(m, ProducedBy(m, "payload"), "payloads")
         /\ Found(m, ProducedBy(m, "subsystem"), "subsystems")
<1>1. ASSUME NEW f \in NamingFields PROVE Found(m, Names(m[f[1]], f[2]), f[3])
  BY LookedUpIsFound, LintLooksUp DEF NamingFields
<1>2. ASSUME NEW f \in ListingFields PROVE Found(m, Lists(m[f[1]], f[2]), f[3])
  BY LookedUpIsFound, LintLooksUp DEF ListingFields
<1> QED
  BY <1>1, <1>2, LookedUpIsFound, LintLooksUp

LEMMA NoObject ==
  ASSUME NEW findings, ~has_errors(findings),
         NEW code, NEW objects, Errors(code, objects) \subseteq findings
  PROVE  objects = {}
<1> SUFFICES ASSUME NEW o \in objects PROVE FALSE
  OBVIOUS
<1> DEFINE f == [severity |-> "ERROR", code |-> code, object |-> o, at |-> 0, ref |-> None]
<1>1. f \in Errors(code, objects) /\ f.severity = "ERROR"
  BY DEF Errors, Findings
<1> QED
  BY <1>1 DEF has_errors, Of

\* The states of a payload that a field of a command speaks of.
StatesFound(m, field) ==
  \A c \in Declared(m, "commands") : m.commands[c][field] # None =>
    LET ref == m.commands[c][field]
    IN  /\ ref.payload \in Declared(m, "payloads")
        /\ ref.state \in m.payloads[ref.payload].states

LEMMA LifecyclesFound ==
  ASSUME NEW m, ~has_errors(LintRun(m))
  PROVE  /\ StatesFound(m, "requires") /\ StatesFound(m, "leaves")
         /\ \A p \in Declared(m, "payloads") : m.payloads[p].initial_state \in m.payloads[p].states
<1>1. check_payloads(m) \subseteq LintRun(m)
  BY DEF LintRun
<1>2. ASSUME NEW code, NEW field, LifecycleReferenceGroup(m, code, field) \subseteq LintRun(m)
      PROVE  StatesFound(m, field)
  BY <1>2, NoObject DEF LifecycleReferenceGroup, StatesFound
<1>3. LifecycleDefinition(m) \subseteq LintRun(m)
  BY <1>1 DEF check_payloads
<1>4. {p \in Declared(m, "payloads") : m.payloads[p].initial_state \notin m.payloads[p].states} = {}
  BY <1>3, NoObject DEF LifecycleDefinition
<1> QED
  BY <1>1, <1>2, <1>4 DEF check_payloads

LEMMA ModesFound ==
  ASSUME NEW m, ~has_errors(LintRun(m))
  PROVE  /\ \E id : {x \in Declared(m, "modes") : m.modes[x].initial} = {id}
         /\ \A k \in DOMAIN m.mode_transitions :
              {m.mode_transitions[k].from, m.mode_transitions[k].to} \subseteq Declared(m, "modes")
<1> DEFINE initial == {x \in Declared(m, "modes") : m.modes[x].initial}
           ends(end) == {[owner |-> None, at |-> k, id |-> m.mode_transitions[k][end]] :
                           k \in DOMAIN m.mode_transitions}
           missing == IF \E id \in initial : initial = {id} THEN {} ELSE {None}
<1>1. check_modes(m) \subseteq LintRun(m)
  BY DEF LintRun
<1>2. Errors("OF-MODE-001", missing) \subseteq LintRun(m)
  BY <1>1 DEF check_modes
<1>3. Unknown("OF-MODE-003", ends("from") \cup ends("to"), Declared(m, "modes"))
        \subseteq LintRun(m)
  BY <1>1 DEF check_modes
<1>4. missing = {}
  BY <1>2, NoObject
<1>5. Found(m, ends("from") \cup ends("to"), "modes")
  BY <1>3, LookedUpIsFound
<1>6. ASSUME NEW k \in DOMAIN m.mode_transitions, NEW end \in {"from", "to"}
      PROVE  m.mode_transitions[k][end] \in Declared(m, "modes")
  <2> DEFINE r == [owner |-> None, at |-> k, id |-> m.mode_transitions[k][end]]
  <2>1. r \in ends("from") \cup ends("to")
    OBVIOUS
  <2>2. r.id = m.mode_transitions[k][end]
    OBVIOUS
  <2> HIDE DEF ends, r
  <2> QED
    BY <2>1, <2>2, <1>5 DEF Found
<1> QED
  BY <1>4, <1>6

\* The products that a command is expected to make.
LEMMA ProductsFound ==
  ASSUME NEW m, ~has_errors(LintRun(m)), NEW c \in DOMAIN m.commands,
         m.commands[c].data_products # None
  PROVE  /\ m.commands[c].data_products # Malformed
         /\ \A k \in DOMAIN m.commands[c].data_products :
              /\ m.commands[c].data_products[k] \in Declared(m, "data_products")
              /\ m.commands[c].data_products[k] # Malformed
<1> DEFINE list == {x \in DOMAIN m.commands : m.commands[x].data_products \notin {None, Malformed}}
           table == [x \in list |-> m.commands[x]]
           refs == Lists(table, "data_products")
           ill == {r \in refs : r.id = Malformed}
           wrong == {x \in DOMAIN m.commands : m.commands[x].data_products = Malformed}
<1>1. ExpectedProducts(m) \subseteq LintRun(m)
  BY DEF LintRun, check_commands
<1>2. Errors("OF-CMD-008", wrong) \subseteq LintRun(m)
  BY <1>1 DEF ExpectedProducts
<1>3. wrong = {}
  <2> HIDE DEF wrong
  <2> QED
    BY <1>2, NoObject
<1>4. /\ Unknown("OF-CMD-008", ill, {}) \subseteq LintRun(m)
      /\ Unknown("OF-CMD-009", refs \ ill, Declared(m, "data_products")) \subseteq LintRun(m)
  BY <1>1 DEF ExpectedProducts
<1>5. (\A r \in ill : r.id \in {}) /\ Found(m, refs \ ill, "data_products")
  <2> DEFINE well == refs \ ill
             none == {}
  <2>1. /\ Unknown("OF-CMD-008", ill, none) \subseteq LintRun(m)
        /\ Unknown("OF-CMD-009", well, Declared(m, "data_products")) \subseteq LintRun(m)
    BY <1>4
  <2> HIDE DEF ill, well, none
  <2>2. \A r \in ill : r.id \in none
    BY <2>1, LookedUp
  <2>3. Found(m, well, "data_products")
    BY <2>1, LookedUpIsFound
  <2> QED
    BY <2>2, <2>3 DEF well, none
<1>6. c \in list /\ table[c] = m.commands[c] /\ DOMAIN table = list
  BY <1>3
<1>7. ASSUME NEW k \in DOMAIN m.commands[c].data_products
      PROVE  /\ m.commands[c].data_products[k] \in Declared(m, "data_products")
             /\ m.commands[c].data_products[k] # Malformed
  <2> DEFINE r == [owner |-> c, at |-> k, id |-> table[c]["data_products"][k]]
  <2>1. r \in refs
    <3> HIDE DEF list, table
    <3> QED
      BY <1>6 DEF Lists
  <2>2. r.id = m.commands[c].data_products[k]
    BY <1>6
  <2>3. r \notin ill
    BY <1>5
  <2> HIDE DEF r, refs
  <2> QED
    BY <2>1, <2>2, <2>3, <1>5 DEF Found
<1> QED
  BY <1>3, <1>6, <1>7

\* Nothing that a model speaks of is missing: every field that names or lists objects, the
\* mode transitions, the payload states that commands need and leave, and the products that
\* they are expected to make; and there is one mode to start in.
Closed(m) ==
  /\ \A f \in NamingFields : Found(m, Names(m[f[1]], f[2]), f[3])
  /\ \A f \in ListingFields : Found(m, Lists(m[f[1]], f[2]), f[3])
  /\ Found(m, ProducedBy(m, "payload"), "payloads")
  /\ Found(m, ProducedBy(m, "subsystem"), "subsystems")
  /\ \A k \in DOMAIN m.mode_transitions :
       {m.mode_transitions[k].from, m.mode_transitions[k].to} \subseteq Declared(m, "modes")
  /\ \E id : {x \in Declared(m, "modes") : m.modes[x].initial} = {id}
  /\ StatesFound(m, "requires") /\ StatesFound(m, "leaves")
  /\ \A p \in Declared(m, "payloads") : m.payloads[p].initial_state \in m.payloads[p].states
  /\ \A c \in DOMAIN m.commands : m.commands[c].data_products # None =>
       /\ m.commands[c].data_products # Malformed
       /\ \A k \in DOMAIN m.commands[c].data_products :
            m.commands[c].data_products[k] \in Declared(m, "data_products")

\* A Mission Model that lint accepts has no dangling reference, in none of the forty
\* fields that its rules look up nor in what they check besides (lint/rules_*.py).
THEOREM NoDanglingReference ==
  ASSUME NEW m, ~has_errors(LintRun(m)) PROVE Closed(m)
<1>1. /\ \A f \in NamingFields : Found(m, Names(m[f[1]], f[2]), f[3])
      /\ \A f \in ListingFields : Found(m, Lists(m[f[1]], f[2]), f[3])
      /\ Found(m, ProducedBy(m, "payload"), "payloads")
      /\ Found(m, ProducedBy(m, "subsystem"), "subsystems")
  BY FieldsFound
<1>2. /\ \A k \in DOMAIN m.mode_transitions :
           {m.mode_transitions[k].from, m.mode_transitions[k].to} \subseteq Declared(m, "modes")
      /\ \E id : {x \in Declared(m, "modes") : m.modes[x].initial} = {id}
  BY ModesFound
<1>3. /\ StatesFound(m, "requires") /\ StatesFound(m, "leaves")
      /\ \A p \in Declared(m, "payloads") : m.payloads[p].initial_state \in m.payloads[p].states
  BY LifecyclesFound
<1>4. \A c \in DOMAIN m.commands : m.commands[c].data_products # None =>
        /\ m.commands[c].data_products # Malformed
        /\ \A k \in DOMAIN m.commands[c].data_products :
             m.commands[c].data_products[k] \in Declared(m, "data_products")
  BY ProductsFound
<1> QED
  BY <1>1, <1>2, <1>3, <1>4 DEF Closed

---------------------------------------------------------------------------
(* What the manifest's type list states of each type. *)

LEMMA TypeRows ==
  /\ TypeSpec["autonomous_action_dispatches_command"] =
       [from |-> "autonomous_actions", to |-> "commands", field |-> "command"]
  /\ TypeSpec["autonomous_action_triggered_by_fault"] =
       [from |-> "autonomous_actions", to |-> "faults", field |-> "fault"]
  /\ TypeSpec["autonomous_action_uses_command_source"] =
       [from |-> "autonomous_actions", to |-> "command_sources", field |-> "source"]
  /\ TypeSpec["commandability_rule_constrains_command"] =
       [from |-> "commandability_rules", to |-> "commands", field |-> "command"]
  /\ TypeSpec["command_emits_event"] =
       [from |-> "commands", to |-> "events", field |-> "emits"]
  /\ TypeSpec["command_targets_subsystem"] =
       [from |-> "commands", to |-> "subsystems", field |-> "target"]
  /\ TypeSpec["data_product_produced_by_payload"] =
       [from |-> "data_products", to |-> "payloads", field |-> "producer"]
  /\ TypeSpec["data_product_produced_by_subsystem"] =
       [from |-> "data_products", to |-> "subsystems", field |-> "producer"]
  /\ TypeSpec["downlink_flow_includes_data_product"] =
       [from |-> "downlink_flows", to |-> "data_products", field |-> "eligible_data_products"]
  /\ TypeSpec["event_sourced_from_subsystem"] =
       [from |-> "events", to |-> "subsystems", field |-> "source"]
  /\ TypeSpec["fault_emits_event"] =
       [from |-> "faults", to |-> "events", field |-> "emits"]
  /\ TypeSpec["fault_observes_telemetry"] =
       [from |-> "faults", to |-> "telemetry", field |-> "telemetry"]
  /\ TypeSpec["fault_recovery_targets_mode"] =
       [from |-> "faults", to |-> "modes", field |-> "mode_transition"]
  /\ TypeSpec["fault_recovery_dispatches_command"] =
       [from |-> "faults", to |-> "commands", field |-> "auto_commands"]
  /\ TypeSpec["fault_sourced_from_subsystem"] =
       [from |-> "faults", to |-> "subsystems", field |-> "source"]
  /\ TypeSpec["packet_includes_telemetry"] =
       [from |-> "packets", to |-> "telemetry", field |-> "telemetry"]
  /\ TypeSpec["payload_belongs_to_subsystem"] =
       [from |-> "payloads", to |-> "subsystems", field |-> "subsystem"]
  /\ TypeSpec["payload_produces_telemetry"] =
       [from |-> "payloads", to |-> "telemetry", field |-> "telemetry"]
  /\ TypeSpec["payload_accepts_command"] =
       [from |-> "payloads", to |-> "commands", field |-> "commands"]
  /\ TypeSpec["payload_generates_event"] =
       [from |-> "payloads", to |-> "events", field |-> "events"]
  /\ TypeSpec["payload_may_raise_fault"] =
       [from |-> "payloads", to |-> "faults", field |-> "faults"]
  /\ TypeSpec["recovery_intent_reacts_to_event"] =
       [from |-> "recovery_intents", to |-> "events", field |-> "event"]
  /\ TypeSpec["recovery_intent_reacts_to_fault"] =
       [from |-> "recovery_intents", to |-> "faults", field |-> "fault"]
  /\ TypeSpec["recovery_intent_targets_mode"] =
       [from |-> "recovery_intents", to |-> "modes", field |-> "target_mode"]
  /\ TypeSpec["recovery_intent_includes_command"] =
       [from |-> "recovery_intents", to |-> "commands", field |-> "commands"]
  /\ TypeSpec["telemetry_sourced_from_subsystem"] =
       [from |-> "telemetry", to |-> "subsystems", field |-> "source"]
  BY ZenonT(60) DEF TypeSpec

LEMMA TypeNames ==
  DOMAIN TypeSpec =
    {"autonomous_action_dispatches_command", "autonomous_action_triggered_by_fault",
     "autonomous_action_uses_command_source", "commandability_rule_constrains_command",
     "command_emits_event", "command_targets_subsystem", "data_product_produced_by_payload",
     "data_product_produced_by_subsystem", "downlink_flow_includes_data_product",
     "event_sourced_from_subsystem", "fault_emits_event", "fault_observes_telemetry",
     "fault_recovery_targets_mode", "fault_recovery_dispatches_command",
     "fault_sourced_from_subsystem", "packet_includes_telemetry",
     "payload_belongs_to_subsystem", "payload_produces_telemetry", "payload_accepts_command",
     "payload_generates_event", "payload_may_raise_fault", "recovery_intent_reacts_to_event",
     "recovery_intent_reacts_to_fault", "recovery_intent_targets_mode",
     "recovery_intent_includes_command", "telemetry_sourced_from_subsystem"}
  BY DEF TypeSpec

LEMMA StatedRows ==
  ASSUME NEW m
  PROVE
    /\ Stated(m, "autonomous_action_dispatches_command") =
         Names(m.autonomous_actions, "command")
    /\ Stated(m, "autonomous_action_triggered_by_fault") =
         Names(m.autonomous_actions, "fault")
    /\ Stated(m, "autonomous_action_uses_command_source") =
         Names(m.autonomous_actions, "source")
    /\ Stated(m, "commandability_rule_constrains_command") =
         Names(m.commandability_rules, "command")
    /\ Stated(m, "command_emits_event") = Lists(m.commands, "emits")
    /\ Stated(m, "command_targets_subsystem") = Names(m.commands, "target")
    /\ Stated(m, "data_product_produced_by_payload") = ProducedBy(m, "payload")
    /\ Stated(m, "data_product_produced_by_subsystem") = ProducedBy(m, "subsystem")
    /\ Stated(m, "downlink_flow_includes_data_product") =
         Lists(m.downlink_flows, "eligible_data_products")
    /\ Stated(m, "event_sourced_from_subsystem") = Names(m.events, "source")
    /\ Stated(m, "fault_emits_event") = Lists(m.faults, "emits")
    /\ Stated(m, "fault_observes_telemetry") = Names(m.faults, "telemetry")
    /\ Stated(m, "fault_recovery_targets_mode") = Names(m.faults, "mode_transition")
    /\ Stated(m, "fault_recovery_dispatches_command") = Lists(m.faults, "auto_commands")
    /\ Stated(m, "fault_sourced_from_subsystem") = Names(m.faults, "source")
    /\ Stated(m, "packet_includes_telemetry") = Lists(m.packets, "telemetry")
    /\ Stated(m, "payload_belongs_to_subsystem") = Names(m.payloads, "subsystem")
    /\ Stated(m, "payload_produces_telemetry") = Lists(m.payloads, "telemetry")
    /\ Stated(m, "payload_accepts_command") = Lists(m.payloads, "commands")
    /\ Stated(m, "payload_generates_event") = Lists(m.payloads, "events")
    /\ Stated(m, "payload_may_raise_fault") = Lists(m.payloads, "faults")
    /\ Stated(m, "recovery_intent_reacts_to_event") = Names(m.recovery_intents, "event")
    /\ Stated(m, "recovery_intent_reacts_to_fault") = Names(m.recovery_intents, "fault")
    /\ Stated(m, "recovery_intent_targets_mode") = Names(m.recovery_intents, "target_mode")
    /\ Stated(m, "recovery_intent_includes_command") = Lists(m.recovery_intents, "commands")
    /\ Stated(m, "telemetry_sourced_from_subsystem") = Names(m.telemetry, "source")
  BY TypeRows DEF Stated

Owned(m, refs, domain) == \A r \in refs : r.owner \in Declared(m, domain)

LEMMA OwnersDeclared ==
  ASSUME NEW m, NEW t \in DOMAIN TypeSpec PROVE Owned(m, Stated(m, t), TypeSpec[t].from)
<1>1. ASSUME NEW domain, NEW field
      PROVE  Owned(m, Names(m[domain], field), domain) /\ Owned(m, Lists(m[domain], field), domain)
  BY NamesOwned, ListsOwned DEF Owned, Declared
<1>2. ASSUME NEW kind PROVE Owned(m, ProducedBy(m, kind), "data_products")
  BY ProducedByOwned DEF Owned, Declared
<1>3. t \in {"data_product_produced_by_payload", "data_product_produced_by_subsystem"} =>
        TypeSpec[t].from = "data_products"
  BY TypeRows
<1> QED
  BY <1>1, <1>2, <1>3 DEF Stated

LEMMA TargetsFound ==
  ASSUME NEW m, ~has_errors(LintRun(m))
  PROVE
    /\ Found(m, Names(m.autonomous_actions, "command"), "commands")
    /\ Found(m, Names(m.autonomous_actions, "fault"), "faults")
    /\ Found(m, Names(m.autonomous_actions, "source"), "command_sources")
    /\ Found(m, Names(m.commandability_rules, "command"), "commands")
    /\ Found(m, Lists(m.commands, "emits"), "events")
    /\ Found(m, Names(m.commands, "target"), "subsystems")
    /\ Found(m, ProducedBy(m, "payload"), "payloads")
    /\ Found(m, ProducedBy(m, "subsystem"), "subsystems")
    /\ Found(m, Lists(m.downlink_flows, "eligible_data_products"), "data_products")
    /\ Found(m, Names(m.events, "source"), "subsystems")
    /\ Found(m, Lists(m.faults, "emits"), "events")
    /\ Found(m, Names(m.faults, "telemetry"), "telemetry")
    /\ Found(m, Names(m.faults, "mode_transition"), "modes")
    /\ Found(m, Lists(m.faults, "auto_commands"), "commands")
    /\ Found(m, Names(m.faults, "source"), "subsystems")
    /\ Found(m, Lists(m.packets, "telemetry"), "telemetry")
    /\ Found(m, Names(m.payloads, "subsystem"), "subsystems")
    /\ Found(m, Lists(m.payloads, "telemetry"), "telemetry")
    /\ Found(m, Lists(m.payloads, "commands"), "commands")
    /\ Found(m, Lists(m.payloads, "events"), "events")
    /\ Found(m, Lists(m.payloads, "faults"), "faults")
    /\ Found(m, Names(m.recovery_intents, "event"), "events")
    /\ Found(m, Names(m.recovery_intents, "fault"), "faults")
    /\ Found(m, Names(m.recovery_intents, "target_mode"), "modes")
    /\ Found(m, Lists(m.recovery_intents, "commands"), "commands")
    /\ Found(m, Names(m.telemetry, "source"), "subsystems")
  BY LookedUpIsFound, LintLooksUp

LEMMA StatedDeclared ==
  ASSUME NEW m, ~has_errors(LintRun(m)), NEW t \in DOMAIN TypeSpec
  PROVE  Found(m, Stated(m, t), TypeSpec[t].to)
  BY TargetsFound, TypeRows, TypeNames, StatedRows

---------------------------------------------------------------------------
(* The records of a family are those of the references that are stated. *)

Family(m, t) == Relate(t, TypeSpec[t].from, Stated(m, t), TypeSpec[t].to)

LEMMA NoneLeftOut ==
  ASSUME NEW m, NEW type, NEW from, NEW refs, NEW to, Found(m, refs, to)
  PROVE  RelateDeclared(m, type, from, refs, to) = Relate(type, from, refs, to)
<1>1. {r \in refs : r.id \in Declared(m, to)} = refs
  BY DEF Found
<1> QED
  BY <1>1 DEF RelateDeclared

LEMMA Families ==
  ASSUME NEW m, ~has_errors(LintRun(m))
  PROVE
    /\ ActionDispatches(m) = Family(m, "autonomous_action_dispatches_command")
    /\ ActionTriggeredByFault(m) = Family(m, "autonomous_action_triggered_by_fault")
    /\ ActionUsesSource(m) = Family(m, "autonomous_action_uses_command_source")
    /\ RuleConstrains(m) = Family(m, "commandability_rule_constrains_command")
    /\ CommandEmits(m) = Family(m, "command_emits_event")
    /\ CommandTargets(m) = Family(m, "command_targets_subsystem")
    /\ ProducedByPayload(m) = Family(m, "data_product_produced_by_payload")
    /\ ProducedBySubsystem(m) = Family(m, "data_product_produced_by_subsystem")
    /\ FlowIncludes(m) = Family(m, "downlink_flow_includes_data_product")
    /\ EventSource(m) = Family(m, "event_sourced_from_subsystem")
    /\ FaultEmits(m) = Family(m, "fault_emits_event")
    /\ FaultObserves(m) = Family(m, "fault_observes_telemetry")
    /\ RecoveryMode(m) = Family(m, "fault_recovery_targets_mode")
    /\ RecoveryCommand(m) = Family(m, "fault_recovery_dispatches_command")
    /\ FaultSource(m) = Family(m, "fault_sourced_from_subsystem")
    /\ PacketIncludes(m) = Family(m, "packet_includes_telemetry")
    /\ PayloadBelongs(m) = Family(m, "payload_belongs_to_subsystem")
    /\ PayloadProduces(m) = Family(m, "payload_produces_telemetry")
    /\ PayloadAccepts(m) = Family(m, "payload_accepts_command")
    /\ PayloadGenerates(m) = Family(m, "payload_generates_event")
    /\ PayloadMayRaise(m) = Family(m, "payload_may_raise_fault")
    /\ IntentReactsToEvent(m) = Family(m, "recovery_intent_reacts_to_event")
    /\ IntentReactsToFault(m) = Family(m, "recovery_intent_reacts_to_fault")
    /\ IntentTargetsMode(m) = Family(m, "recovery_intent_targets_mode")
    /\ IntentIncludes(m) = Family(m, "recovery_intent_includes_command")
    /\ TelemetrySource(m) = Family(m, "telemetry_sourced_from_subsystem")
<1>1. /\ ActionDispatches(m) =
           Relate("autonomous_action_dispatches_command", "autonomous_actions",
                  Names(m.autonomous_actions, "command"), "commands")
      /\ ActionTriggeredByFault(m) =
           Relate("autonomous_action_triggered_by_fault", "autonomous_actions",
                  Names(m.autonomous_actions, "fault"), "faults")
      /\ ActionUsesSource(m) =
           Relate("autonomous_action_uses_command_source", "autonomous_actions",
                  Names(m.autonomous_actions, "source"), "command_sources")
      /\ RuleConstrains(m) =
           Relate("commandability_rule_constrains_command", "commandability_rules",
                  Names(m.commandability_rules, "command"), "commands")
      /\ CommandTargets(m) =
           Relate("command_targets_subsystem", "commands",
                  Names(m.commands, "target"), "subsystems")
      /\ ProducedByPayload(m) =
           Relate("data_product_produced_by_payload", "data_products",
                  ProducedBy(m, "payload"), "payloads")
      /\ ProducedBySubsystem(m) =
           Relate("data_product_produced_by_subsystem", "data_products",
                  ProducedBy(m, "subsystem"), "subsystems")
      /\ FlowIncludes(m) =
           Relate("downlink_flow_includes_data_product", "downlink_flows",
                  Lists(m.downlink_flows, "eligible_data_products"), "data_products")
      /\ EventSource(m) =
           Relate("event_sourced_from_subsystem", "events",
                  Names(m.events, "source"), "subsystems")
      /\ FaultObserves(m) =
           Relate("fault_observes_telemetry", "faults",
                  Names(m.faults, "telemetry"), "telemetry")
      /\ RecoveryMode(m) =
           Relate("fault_recovery_targets_mode", "faults",
                  Names(m.faults, "mode_transition"), "modes")
      /\ RecoveryCommand(m) =
           Relate("fault_recovery_dispatches_command", "faults",
                  Lists(m.faults, "auto_commands"), "commands")
      /\ FaultSource(m) =
           Relate("fault_sourced_from_subsystem", "faults",
                  Names(m.faults, "source"), "subsystems")
      /\ PayloadBelongs(m) =
           Relate("payload_belongs_to_subsystem", "payloads",
                  Names(m.payloads, "subsystem"), "subsystems")
      /\ PayloadMayRaise(m) =
           Relate("payload_may_raise_fault", "payloads",
                  Lists(m.payloads, "faults"), "faults")
      /\ IntentReactsToEvent(m) =
           Relate("recovery_intent_reacts_to_event", "recovery_intents",
                  Names(m.recovery_intents, "event"), "events")
      /\ IntentReactsToFault(m) =
           Relate("recovery_intent_reacts_to_fault", "recovery_intents",
                  Names(m.recovery_intents, "fault"), "faults")
      /\ IntentTargetsMode(m) =
           Relate("recovery_intent_targets_mode", "recovery_intents",
                  Names(m.recovery_intents, "target_mode"), "modes")
      /\ IntentIncludes(m) =
           Relate("recovery_intent_includes_command", "recovery_intents",
                  Lists(m.recovery_intents, "commands"), "commands")
      /\ TelemetrySource(m) =
           Relate("telemetry_sourced_from_subsystem", "telemetry",
                  Names(m.telemetry, "source"), "subsystems")
  BY TargetsFound, NoneLeftOut DEF ActionDispatches, ActionTriggeredByFault, ActionUsesSource,
     RuleConstrains, CommandTargets, ProducedByPayload, ProducedBySubsystem, FlowIncludes,
     EventSource, FaultObserves, RecoveryMode, RecoveryCommand, FaultSource, PayloadBelongs,
     PayloadMayRaise, IntentReactsToEvent, IntentReactsToFault, IntentTargetsMode,
     IntentIncludes, TelemetrySource
<1>2. /\ CommandEmits(m) =
           Relate("command_emits_event", "commands",
                  Lists(m.commands, "emits"), "events")
      /\ FaultEmits(m) =
           Relate("fault_emits_event", "faults",
                  Lists(m.faults, "emits"), "events")
      /\ PacketIncludes(m) =
           Relate("packet_includes_telemetry", "packets",
                  Lists(m.packets, "telemetry"), "telemetry")
      /\ PayloadProduces(m) =
           Relate("payload_produces_telemetry", "payloads",
                  Lists(m.payloads, "telemetry"), "telemetry")
      /\ PayloadAccepts(m) =
           Relate("payload_accepts_command", "payloads",
                  Lists(m.payloads, "commands"), "commands")
      /\ PayloadGenerates(m) =
           Relate("payload_generates_event", "payloads",
                  Lists(m.payloads, "events"), "events")
  BY DEF CommandEmits, FaultEmits, PacketIncludes, PayloadProduces, PayloadAccepts,
     PayloadGenerates
<1> QED
  BY <1>1, <1>2, TypeRows, StatedRows DEF Family

\* The manifest of a model that lint accepts holds a record of each reference in the fields
\* that its types name, and no other (relationship_manifest.py).
THEOREM ManifestIsComplete ==
  ASSUME NEW m, ~has_errors(LintRun(m))
  PROVE  relationship_records(m) = UNION {Family(m, t) : t \in DOMAIN TypeSpec}
<1>1. ASSUME NEW t \in DOMAIN TypeSpec PROVE Family(m, t) \subseteq relationship_records(m)
  BY <1>1, TypeNames, Families DEF relationship_records
<1>2. ASSUME NEW x \in relationship_records(m)
      PROVE  \E t \in DOMAIN TypeSpec : x \in Family(m, t)
  BY <1>2, TypeNames, Families DEF relationship_records
<1> QED
  BY <1>1, <1>2

=============================================================================
