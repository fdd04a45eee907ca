SPECIFICATION FairSpec
CONSTANTS
  Missions <- MCMissions
  Commands = {"start", "stop"}
  Events = {"started", "stopped", "battery_low", "battery_critical"}
  Modes <- ModeIds
  Telemetry <- TelemetryIds
  Values <- ValueSet
  Injections <- Injected
  Starts <- Initially
  Payloads = {"cam"}
  Lifecycles = {"READY", "ACQUIRING"}
  Products = {"image"}
  None = None
  MaxSteps = 3
INVARIANTS TypeOK ModeChain TriggersAreDebounced RecoversOnce EventsAccounted AutosAccounted LifecycleRespected LintedNeverKeyError VerdictMatchesRecords
PROPERTY RunEnds
CHECK_DEADLOCK FALSE
