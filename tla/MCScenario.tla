------------------------------ MODULE MCScenario ------------------------------
(* Small instances of ScenarioRun: three missions after the demo mission. *)
EXTENDS ScenarioRun, TLC

\* Start and stop of an acquisition: each needs the state the other leaves.
Start == [allowed |-> {"NOMINAL"}, needs |-> <<"cam", "READY">>, declaresArgs |-> TRUE,
          emits |-> <<"started">>, lifecycle |-> <<"cam", "ACQUIRING">>,
          products |-> <<"image">>, mapping |-> TRUE, sets |-> "active" :> "on", goes |-> None]
Stop == [allowed |-> {"NOMINAL", "DEGRADED"}, needs |-> <<"cam", "ACQUIRING">>,
         declaresArgs |-> FALSE, emits |-> <<"stopped">>, lifecycle |-> <<"cam", "READY">>,
         products |-> <<>>, mapping |-> TRUE, sets |-> "active" :> "off", goes |-> "NOMINAL"]

\* The warning is debounced, the critical fault is not, and its recovery
\* takes the mode away that the other's auto command is allowed in.
BatteryLow == [watches |-> "volt", holds |-> {"low", "critical"}, raises |-> {"text"},
               debounce |-> 2, emits |-> <<"battery_low">>, goes |-> "DEGRADED",
               autos |-> <<"stop", "start">>]
BatteryCritical == [watches |-> "volt", holds |-> {"critical"}, raises |-> {"text"},
                    debounce |-> 1, emits |-> <<"battery_critical", "battery_low">>,
                    goes |-> "SAFE", autos |-> <<"stop">>]

Demo ==
  [modes |-> {"NOMINAL", "DEGRADED", "SAFE"},
   events |-> {"started", "stopped", "battery_low", "battery_critical"},
   products |-> {"image"}, lifecycles |-> "cam" :> "READY",
   transitions |-> {<<"NOMINAL", "DEGRADED">>, <<"DEGRADED", "SAFE">>, <<"NOMINAL", "SAFE">>},
   commands |-> "start" :> Start @@ "stop" :> Stop,
   faults |-> <<BatteryCritical, BatteryLow>>]

\* Lint would reject it: an event, a product and a command are not declared.
Unlinted == [Demo EXCEPT !.events = @ \ {"battery_critical"}, !.products = {},
                         !.commands = "start" :> Start]

\* Two faults whose debounce is not positive, and a command whose telemetry effects are no
\* mapping.
Undebounced ==
  [Demo EXCEPT !.commands = "stop" :> [Stop EXCEPT !.needs = None, !.mapping = FALSE],
     !.faults = <<[BatteryCritical EXCEPT !.debounce = 0, !.autos = <<>>],
                  [BatteryLow EXCEPT !.debounce = -1, !.autos = <<>>]>>]

MCMissions == {Demo, Unlinted, Undebounced}

TelemetryIds == {"obc.mode", "volt", "active"}
ModeIds == {"NOMINAL", "DEGRADED", "SAFE"}
ValueSet == {"fine", "low", "critical", "text", "on", "off"} \cup ModeIds
Injected == {<<"volt", "fine">>, <<"volt", "low">>, <<"volt", "critical">>,
             <<"volt", "text">>, <<"active", "on">>}
Initially == {[x \in TelemetryIds |-> None],
              [x \in TelemetryIds |-> IF x = "volt" THEN "low" ELSE "off"]}

=============================================================================
