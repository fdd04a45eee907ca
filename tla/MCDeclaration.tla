---------------------------- MODULE MCDeclaration ----------------------------
(***************************************************************************)
(* ScenarioDeclaration on a scenario with every kind of atom and variants  *)
(* of it, and on a mission that declares what it names and variants.       *)
(***************************************************************************)
EXTENDS ScenarioDeclaration

CONSTANTS none, malformed
MCIds == {"SAFE", "done", "flow", "payload", "raw", "take", "temp", "volt", "window", "ghost"}

step ==
  [t |-> 0, command |-> none, args |-> FALSE, inject |-> none, expect_event |-> none,
   expect_mode |-> none, expect_command |-> none, expect_telemetry |-> none, expect |-> none]
\* Strings as keys: one expectation.
Only(key, value) == [k \in {key} |-> value]
flow == [data_product |-> "raw", triggered_by_command |-> "take",
         eligible_downlink_flow |-> "flow", contact_window |-> "window"]
lifecycle == [payload |-> "payload", state |-> TRUE]
commanding == [step EXCEPT !.command = "take", !.args = TRUE,
                           !.expect = [command_status |-> "status", data_flow |-> flow]]
injecting ==
  [step EXCEPT !.t = 1, !.inject = "temp", !.expect_event = "done", !.expect_mode = "SAFE",
               !.expect_command = "take", !.expect_telemetry = {"temp", "volt"},
               !.expect = [payload_lifecycle |-> lifecycle, scenario_status |-> "status"]]

full ==
  [text |-> "mapping", keys |-> "exact", typed |-> TRUE, dumps |-> TRUE, mode |-> "SAFE", telemetry |-> {"temp"},
   steps |-> <<commanding, injecting>>]
With(s) == [full EXCEPT !.steps = <<s>>]
Expecting(key, value) == With([commanding EXCEPT !.expect = Only(key, value)])

MCContent ==
  [full |-> full, short |-> With([step EXCEPT !.expect_mode = "SAFE"]),
   no_steps |-> [full EXCEPT !.steps = <<>>],
   not_utf8 |-> [full EXCEPT !.text = "not_utf8"], empty |-> [full EXCEPT !.text = "empty"],
   keys |-> [full EXCEPT !.keys = "unexpected"], untyped |-> [full EXCEPT !.typed = FALSE],
   dated |-> [full EXCEPT !.dumps = FALSE],
   backwards |-> [full EXCEPT !.steps = <<injecting, commanding>>],
   mode |-> [full EXCEPT !.mode = "ghost"], telemetry |-> [full EXCEPT !.telemetry = {"ghost"}],
   command |-> With([commanding EXCEPT !.command = "ghost"]),
   inject |-> With([injecting EXCEPT !.inject = "ghost"]),
   event |-> With([injecting EXCEPT !.expect_event = "ghost"]),
   expect_mode |-> With([injecting EXCEPT !.expect_mode = "ghost"]),
   expect_command |-> With([injecting EXCEPT !.expect_command = "ghost"]),
   sampled |-> With([injecting EXCEPT !.expect_telemetry = {"temp", "ghost"}]),
   no_action |-> With(step), no_telemetry |-> With([step EXCEPT !.expect_telemetry = {}]),
   no_expect |-> With([step EXCEPT !.expect = <<>>]),
   args |-> With([injecting EXCEPT !.args = TRUE]),
   other_key |-> Expecting("until", "status"), null_status |-> Expecting("command_status", none),
   no_command |-> With([injecting EXCEPT !.expect = Only("command_status", "status")]),
   null_verdict |-> Expecting("scenario_status", none),
   text_lifecycle |-> Expecting("payload_lifecycle", malformed),
   stateless |-> Expecting("payload_lifecycle", [lifecycle EXCEPT !.state = FALSE]),
   nameless |-> Expecting("payload_lifecycle", [lifecycle EXCEPT !.payload = malformed]),
   payload |-> Expecting("payload_lifecycle", [lifecycle EXCEPT !.payload = "ghost"]),
   text_flow |-> Expecting("data_flow", malformed),
   no_product |-> Expecting("data_flow", Only("contact_window", "window")),
   bad_product |-> Expecting("data_flow", [flow EXCEPT !.data_product = malformed]),
   bad_window |-> Expecting("data_flow", [flow EXCEPT !.contact_window = malformed]),
   product |-> Expecting("data_flow", [flow EXCEPT !.data_product = "ghost"]),
   trigger |-> Expecting("data_flow", [flow EXCEPT !.triggered_by_command = "ghost"]),
   downlink |-> Expecting("data_flow", [flow EXCEPT !.eligible_downlink_flow = "ghost"]),
   window |-> Expecting("data_flow", [flow EXCEPT !.contact_window = "ghost"])]
MCScenarios == DOMAIN MCContent

demo == [modes |-> {"SAFE"}, telemetry |-> {"temp", "volt"}, commands |-> {"take"},
         events |-> {"done"}, payloads |-> {"payload"}, data_products |-> {"raw"},
         downlink_flows |-> {"flow"}, contact_windows |-> {"window"}]
MCMission ==
  [full |-> [utf8 |-> TRUE, loads |-> TRUE, identity |-> "one", ids |-> demo],
   no_payload |-> [utf8 |-> TRUE, loads |-> TRUE, identity |-> "one", ids |-> [demo EXCEPT !.payloads = {}]],
   next |-> [utf8 |-> TRUE, loads |-> TRUE, identity |-> "two", ids |-> demo],
   broken |-> [utf8 |-> TRUE, loads |-> FALSE, identity |-> "one", ids |-> demo],
   not_utf8 |-> [utf8 |-> FALSE, loads |-> FALSE, identity |-> "one", ids |-> demo]]
MCMissions == DOMAIN MCMission
MCRevised == {"full", "short", Absent}
MCBudget ==
  [s \in MCScenarios \cup {Absent} |->
     IF s \in MCRevised THEN [runs |-> 4, upsets |-> 2] ELSE [runs |-> 1, upsets |-> 0]]
MCMisdeeds == {"omits", "repeats", "invents", "malformed", "no_scenario", "foreign_mapping",
               "ambiguous", "unlisted_mapping", "wrong_artifact"}

=============================================================================
