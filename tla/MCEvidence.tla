---------------------------- MODULE MCEvidence ----------------------------
(***************************************************************************)
(* EvidenceChain on one mission with an object in every domain, on         *)
(* variants of it that each break one reference, repeat one list entry or  *)
(* leave one domain empty, and on directories that do not load.            *)
(***************************************************************************)
EXTENDS EvidenceChain, TLC

CONSTANTS none, malformed
MCIds == {"sat", "obc", "cam", "SAFE", "NOMINAL", "temp", "take", "clean", "done", "hot",
          "beacon", "payload", "raw", "thumb", "pass", "xband", "window", "flow", "ops",
          "rule", "action", "intent", "IDLE", "BUSY", "sband", "late", "ghost"}

full ==
  [spacecraft |-> "sat",
   subsystems |-> "obc" :> [type |-> "platform"] @@ "cam" :> [type |-> "payload"],
   modes |-> "SAFE" :> [initial |-> TRUE] @@ "NOMINAL" :> [initial |-> FALSE],
   mode_transitions |-> <<[from |-> "SAFE", to |-> "NOMINAL"]>>,
   telemetry |-> "temp" :> [source |-> "obc", type |-> "uint8", criticality |-> "high",
                            limits |-> TRUE, enum |-> FALSE, quality |-> TRUE],
   commands |->
     "take" :> [target |-> "cam", emits |-> <<"done">>, allowed_modes |-> <<"NOMINAL">>,
                risk |-> "medium", timeout_ms |-> TRUE,
                requires |-> [payload |-> "payload", state |-> "IDLE"],
                leaves |-> [payload |-> "payload", state |-> "BUSY"],
                data_products |-> <<"raw">>, other_effects |-> TRUE]
     @@ "clean" :> [target |-> "obc", emits |-> <<>>, allowed_modes |-> <<"SAFE">>,
                    risk |-> "low", timeout_ms |-> TRUE, requires |-> none, leaves |-> none,
                    data_products |-> <<"thumb", "raw">>, other_effects |-> FALSE],
   events |-> "done" :> [source |-> "cam", downlink_priority |-> TRUE, persistence |-> TRUE],
   faults |-> "hot" :> [source |-> "obc", telemetry |-> "temp", emits |-> <<"done">>,
                        mode_transition |-> "SAFE", auto_commands |-> <<"clean">>],
   packets |-> "beacon" :> [telemetry |-> <<"temp">>, max_payload_bytes |-> 8],
   payloads |-> "payload" :> [subsystem |-> "cam", initial_state |-> "IDLE",
                              states |-> {"IDLE", "BUSY"}, telemetry |-> <<"temp">>,
                              commands |-> <<"take">>, events |-> <<"done">>,
                              faults |-> <<"hot">>],
   data_products |->
     "raw" :> [producer |-> "payload", producer_type |-> "payload", payload |-> "payload",
               size |-> 4, priority |-> "high", storage |-> {"retention", "overflow_policy"},
               downlink |-> TRUE]
     @@ "thumb" :> [producer |-> "obc", producer_type |-> "subsystem", payload |-> none,
                    size |-> 1, priority |-> "low", storage |-> none, downlink |-> FALSE],
   contact_profiles |-> "pass" :> [target |-> "sat"],
   link_profiles |-> "xband" :> [direction |-> "downlink"],
   contact_windows |-> "window" :> [contact_profile |-> "pass", link_profile |-> "xband",
                                    capacity |-> 5],
   downlink_flows |-> "flow" :> [contact_profile |-> "pass", link_profile |-> "xband",
                                 eligible_data_products |-> <<"raw">>],
   command_sources |-> "ops" :> [type |-> "ground", requires_contact |-> TRUE,
                                 contact_profile |-> "pass"],
   commandability_rules |-> "rule" :> [at |-> 1, command |-> "take", sources |-> <<"ops">>,
                                       allowed_modes |-> <<"NOMINAL">>,
                                       expected_events |-> <<"done">>,
                                       confirmation |-> "required"],
   autonomous_actions |-> "action" :> [event |-> "done", fault |-> "hot", telemetry |-> "temp",
                                       mode |-> "SAFE", command |-> "clean", source |-> "ops",
                                       expected_events |-> <<"done">>,
                                       expected_effects |-> FALSE],
   recovery_intents |-> "intent" :> [fault |-> "hot", event |-> "done", target_mode |-> "SAFE",
                                     commands |-> <<"clean">>, expected_events |-> <<"done">>]]

\* Each reference, of a table's only or first object, that can point nowhere.
Named == {<<"telemetry", "temp", "source">>, <<"commands", "take", "target">>,
          <<"events", "done", "source">>, <<"faults", "hot", "source">>,
          <<"faults", "hot", "telemetry">>, <<"faults", "hot", "mode_transition">>,
          <<"payloads", "payload", "subsystem">>, <<"data_products", "raw", "producer">>,
          <<"data_products", "thumb", "producer">>, <<"data_products", "raw", "payload">>,
          <<"contact_windows", "window", "contact_profile">>,
          <<"contact_windows", "window", "link_profile">>,
          <<"downlink_flows", "flow", "contact_profile">>,
          <<"command_sources", "ops", "contact_profile">>,
          <<"commandability_rules", "rule", "command">>,
          <<"autonomous_actions", "action", "event">>,
          <<"autonomous_actions", "action", "fault">>,
          <<"autonomous_actions", "action", "telemetry">>,
          <<"autonomous_actions", "action", "mode">>,
          <<"autonomous_actions", "action", "command">>,
          <<"autonomous_actions", "action", "source">>,
          <<"recovery_intents", "intent", "fault">>, <<"recovery_intents", "intent", "event">>,
          <<"recovery_intents", "intent", "target_mode">>}
Listed == {<<"commands", "take", "emits">>, <<"commands", "take", "allowed_modes">>,
           <<"commands", "take", "data_products">>,
           <<"faults", "hot", "emits">>, <<"faults", "hot", "auto_commands">>,
           <<"packets", "beacon", "telemetry">>, <<"payloads", "payload", "telemetry">>,
           <<"payloads", "payload", "commands">>, <<"payloads", "payload", "events">>,
           <<"payloads", "payload", "faults">>,
           <<"downlink_flows", "flow", "eligible_data_products">>,
           <<"commandability_rules", "rule", "sources">>,
           <<"commandability_rules", "rule", "allowed_modes">>,
           <<"commandability_rules", "rule", "expected_events">>,
           <<"autonomous_actions", "action", "expected_events">>,
           <<"recovery_intents", "intent", "commands">>,
           <<"recovery_intents", "intent", "expected_events">>}

Set(place, value) == [full EXCEPT ![place[1]][place[2]][place[3]] = value]
Value(place) == full[place[1]][place[2]][place[3]]
Broken(place) ==
  IF place \in Listed THEN Set(place, Append(Value(place), "ghost")) ELSE Set(place, "ghost")
Repeated(place) == Set(place, Value(place) \o Value(place))

Others ==
  [plain |-> [full EXCEPT !.payloads = <<>>, !.data_products = <<>>, !.contact_profiles = <<>>,
                !.link_profiles = <<>>, !.contact_windows = <<>>, !.downlink_flows = <<>>,
                !.command_sources = <<>>, !.commandability_rules = <<>>,
                !.autonomous_actions = <<>>, !.recovery_intents = <<>>,
                !.commands = "clean" :> [full.commands["clean"] EXCEPT !.data_products = none,
                                                                      !.other_effects = TRUE]],
   no_flow |-> [full EXCEPT !.downlink_flows = <<>>, !.contact_windows = <<>>],
   two_links |-> [full EXCEPT !.link_profiles = @ @@ "sband" :> [direction |-> "downlink"],
                              !.contact_windows = @ @@ "late" :>
                                [full.contact_windows["window"] EXCEPT !.link_profile = "sband"]],
   two_initial |-> [full EXCEPT !.modes["NOMINAL"].initial = TRUE],
   bad_transition |-> [full EXCEPT !.mode_transitions = <<[from |-> "SAFE", to |-> "ghost"]>>],
   not_payload |-> [full EXCEPT !.payloads["payload"].subsystem = "obc"],
   bad_state |-> [full EXCEPT !.commands["take"].leaves.state = malformed],
   bad_product |-> [full EXCEPT !.commands["take"].data_products = malformed],
   risky_safe |-> [full EXCEPT !.commands["take"].allowed_modes = <<"SAFE">>],
   silent_fault |-> [full EXCEPT !.faults["hot"].emits = <<>>],
   no_limits |-> [full EXCEPT !.telemetry["temp"].limits = FALSE],
   empty_packet |-> [full EXCEPT !.packets["beacon"] = [telemetry |-> <<>>, max_payload_bytes |-> 0]],
   small_window |-> [full EXCEPT !.contact_windows["window"].capacity = 3,
                                 !.commandability_rules["rule"].confirmation = none]]

AllRead == [file \in ModelFiles |-> "read"]
Directory(m) == [is_dir |-> TRUE, files |-> AllRead, typed |-> TRUE, twice |-> {}, text |-> m]
ThatFail ==
  [no_dir |-> [Directory(full) EXCEPT !.is_dir = FALSE],
   no_events |-> [Directory(full) EXCEPT !.files["events.yaml"] = "absent"],
   no_payloads |-> [Directory(full) EXCEPT !.files["payloads.yaml"] = "absent"],
   bad_yaml |-> [Directory(full) EXCEPT !.files["contacts.yaml"] = "bad_yaml"],
   untyped |-> [Directory(full) EXCEPT !.typed = FALSE],
   doubled |-> [Directory(full) EXCEPT !.twice = {<<"events", "done">>}]]

MCWorkspace ==
  "full" :> Directory(full)
  @@ [o \in DOMAIN Others |-> Directory(Others[o])] @@ ThatFail
  @@ [v \in {"broken_" \o p[1] \o "_" \o p[3] \o "_" \o p[2] : p \in Named \cup Listed} |->
        Directory(Broken(CHOOSE p \in Named \cup Listed :
                           v = "broken_" \o p[1] \o "_" \o p[3] \o "_" \o p[2]))]
  @@ [v \in {"repeated_" \o p[1] \o "_" \o p[3] : p \in Listed} |->
        Directory(Repeated(CHOOSE p \in Listed : v = "repeated_" \o p[1] \o "_" \o p[3]))]
ScenarioSymmetry == Permutations(Scenarios)
MCRevisions == DOMAIN MCWorkspace
MCRevised == {"full", "no_flow"}
MCBudget ==
  [r \in MCRevisions |->
     IF r = "full" THEN {[evidence |-> 6, other |-> 0], [evidence |-> 2, other |-> 2]}
                   ELSE {[evidence |-> 1, other |-> 1]}]
Course(dispatched, executed, expectations) ==
  [dispatched |-> dispatched, executed |-> executed, expectations |-> expectations]
MCCourses ==
  {Course({}, {}, <<>>), Course({}, {}, <<"failed">>), Course({"take"}, {}, <<"failed", "passed">>),
   Course({"take"}, {"take"}, <<"passed">>), Course({"clean"}, {"clean"}, <<"failed", "failed">>),
   Course({"take", "clean"}, {"take"}, <<"failed", "passed", "failed">>),
   Course({"take", "clean"}, {"take", "clean"}, <<"passed", "passed">>)}
\* No property reads how a command ended, and no command does.
ButExit == <<revision, files, budget, upsets>>

=============================================================================
