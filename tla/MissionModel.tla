---------------------------- MODULE MissionModel ----------------------------
(***************************************************************************)
(* The Mission Model as the loader hands it to lint, to the exports and to *)
(* the simulator.  A domain is a table: a function from the ids that are   *)
(* declared in it to what the rules read of each object.  A list of        *)
(* references is a sequence, for a file may name the same object twice.    *)
(***************************************************************************)
EXTENDS Naturals, Integers, Sequences, FiniteSets

CONSTANTS
  Ids,         \* every text used as an id, of whatever domain
  None,        \* Python's None: an optional field that is not given
  Malformed    \* a YAML value of another type than the rules expect

ASSUME ModelAssumption == None \notin Ids /\ Malformed \notin Ids /\ None # Malformed

Maybe(S) == S \cup {None}
Level == {"low", "medium", "high", "critical"}
Numeric == {"uint8", "uint16", "uint32", "int8", "int16", "int32", "float32", "float64"}

Subsystem == [type : {"payload", "platform"}]
Mode == [initial : BOOLEAN]
ModeTransition == [from : Ids, to : Ids]
TelemetryItem == [source : Ids, type : Numeric \cup {"bool", "enum", "string"},
                  criticality : Level, limits : BOOLEAN, enum : BOOLEAN, quality : BOOLEAN]

\* A payload_lifecycle entry of preconditions or of expected_effects.
LifecycleReference == [payload : Ids \cup {Malformed}, state : Ids \cup {Malformed}]

Command == [target : Ids, emits : Seq(Ids), allowed_modes : Seq(Ids), risk : Level,
            timeout_ms : BOOLEAN, requires : Maybe(LifecycleReference),
            leaves : Maybe(LifecycleReference),
            data_products : Seq(Ids \cup {Malformed}) \cup {None, Malformed},
            other_effects : BOOLEAN]
Event == [source : Ids, downlink_priority : BOOLEAN, persistence : BOOLEAN]
Fault == [source : Ids, telemetry : Maybe(Ids), emits : Seq(Ids),
          mode_transition : Maybe(Ids), auto_commands : Seq(Ids)]
Packet == [telemetry : Seq(Ids), max_payload_bytes : Int]
PayloadContract == [subsystem : Ids, initial_state : Maybe(Ids), states : SUBSET Ids,
                    telemetry : Seq(Ids), commands : Seq(Ids), events : Seq(Ids),
                    faults : Seq(Ids)]

\* storage and downlink: which of the intents that lint asks for are given.
DataProductContract == [producer : Ids, producer_type : {"payload", "subsystem"},
                        payload : Maybe(Ids), size : Nat \ {0}, priority : Level,
                        storage : Maybe(SUBSET {"retention", "overflow_policy"}),
                        downlink : BOOLEAN]
ContactProfile == [target : Ids]
LinkProfile == [direction : {"downlink"}]
ContactWindow == [contact_profile : Ids, link_profile : Ids, capacity : Maybe(Nat \ {0})]
DownlinkFlowContract == [contact_profile : Ids, link_profile : Ids,
                         eligible_data_products : Seq(Ids)]
CommandSource == [type : {"ground", "onboard", "autonomous"}, requires_contact : BOOLEAN,
                  contact_profile : Maybe(Ids)]

\* `at` is the place of a rule in the list: a later rule hides an earlier one.
CommandabilityRule == [at : Nat, command : Ids, sources : Seq(Ids),
                       allowed_modes : Seq(Ids), expected_events : Seq(Ids),
                       confirmation : Maybe({"none", "hinted", "required"})]
AutonomousActionContract == [event : Maybe(Ids), fault : Maybe(Ids),
                             telemetry : Maybe(Ids), mode : Maybe(Ids),
                             command : Ids, source : Ids,
                             expected_events : Seq(Ids), expected_effects : BOOLEAN]
RecoveryIntent == [fault : Maybe(Ids), event : Maybe(Ids), target_mode : Maybe(Ids),
                   commands : Seq(Ids), expected_events : Seq(Ids)]

IsTable(table, Row) ==
  DOMAIN table \subseteq Ids /\ \A id \in DOMAIN table : table[id] \in Row

\* The fields are called after the domains of the entity index.
IsModel(m) ==
  /\ m.spacecraft \in Ids
  /\ IsTable(m.subsystems, Subsystem) /\ IsTable(m.modes, Mode)
  /\ m.mode_transitions \in Seq(ModeTransition)
  /\ IsTable(m.telemetry, TelemetryItem) /\ IsTable(m.commands, Command)
  /\ IsTable(m.events, Event) /\ IsTable(m.faults, Fault) /\ IsTable(m.packets, Packet)
  /\ IsTable(m.payloads, PayloadContract) /\ IsTable(m.data_products, DataProductContract)
  /\ IsTable(m.contact_profiles, ContactProfile) /\ IsTable(m.link_profiles, LinkProfile)
  /\ IsTable(m.contact_windows, ContactWindow)
  /\ IsTable(m.downlink_flows, DownlinkFlowContract)
  /\ IsTable(m.command_sources, CommandSource)
  /\ IsTable(m.commandability_rules, CommandabilityRule)
  /\ IsTable(m.autonomous_actions, AutonomousActionContract)
  /\ IsTable(m.recovery_intents, RecoveryIntent)

\* model.subsystem_ids, model.telemetry_ids and so on.
Declared(m, domain) == DOMAIN m[domain]

---------------------------------------------------------------------------
(* The references between objects.  `at` tells the entries of a list apart. *)

\* The objects whose field names one other object, or none.
Names(table, field) ==
  {[owner |-> o, at |-> 0, id |-> table[o][field]] :
     o \in {p \in DOMAIN table : table[p][field] # None}}

\* The objects whose field lists other objects.
Lists(table, field) ==
  UNION {{[owner |-> o, at |-> k, id |-> table[o][field][k]] : k \in DOMAIN table[o][field]} :
           o \in DOMAIN table}

=============================================================================
