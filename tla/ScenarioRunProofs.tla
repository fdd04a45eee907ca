--------------------------- MODULE ScenarioRunProofs ---------------------------
(***************************************************************************)
(* What holds of a run of the simulator for any Mission Models and any     *)
(* number of steps.                                                        *)
(***************************************************************************)
EXTENDS ScenarioRun, TLAPS, SequenceTheorems, FiniteSetTheorems, FiniteSums,
        WellFoundedInduction

---------------------------------------------------------------------------
(* What the assumption says of the mission of a run. *)

LEMMA EffectShape ==
  ASSUME mission \in Missions, NEW c \in DOMAIN mission.commands
  PROVE  c \in Commands /\ IsEffect(mission.commands[c])
BY ScenarioAssumption DEF IsMission

LEMMA FaultShape ==
  ASSUME mission \in Missions
  PROVE  /\ FaultIds = 1 .. Len(mission.faults) /\ Len(mission.faults) \in Nat
         /\ \A f \in FaultIds : IsFault(Fault(f))
<1>1. IsMission(mission)
  BY ScenarioAssumption
<1>2. mission.faults \in Seq(Range(mission.faults))
  BY <1>1 DEF IsMission
<1> QED
  BY <1>1, <1>2 DEF IsMission, FaultIds, Fault

\* An executed command is declared.
LEMMA ExecutedIsDeclared ==
  ASSUME NEW c, NEW args, NEW dispatch, Executed(Status(c, args, dispatch))
  PROVE  c \in DOMAIN mission.commands
BY DEF Executed, Status

LEMMA KnownEmits ==
  ASSUME NEW ids \in Seq(Events), Known(ids)
  PROVE  ids \in Seq(mission.events)
BY DEF Known, Range

---------------------------------------------------------------------------
(* Type correctness. *)

Entry == [id : Commands, status : {"ACCEPTED", "REJECTED", "AUTO_DISPATCHED", "FAILED"},
          dispatch : {"GROUND", "AUTO"}]
Sample == [Telemetry -> Values \cup {None}]

EffectsOK ==
  /\ mode \in Modes /\ telemetry \in Sample /\ lifecycle \in [Payloads -> Lifecycles]
  /\ events \in Seq(mission.events) /\ commands \in Seq(Entry)
  /\ transitions \in Seq([from : Modes, to : Modes])
  /\ evidence \subseteq [product : mission.products, command : DOMAIN mission.commands,
                         run : 1 .. Len(commands), at : Nat]

ChecksOK ==
  /\ checks \in Seq([kind : Kinds, expected : Expected, passed : BOOLEAN])
  /\ Len(checks) <= MaxSteps /\ failed \in 0 .. Len(checks)

MonitorOK ==
  /\ counters \in [FaultIds -> 0 .. MaxSteps] /\ triggered \subseteq FaultIds
  /\ pending \subseteq FaultIds /\ applied \in Seq(FaultIds) /\ autos \in Seq(Commands)
  /\ snapshots \in Seq(Sample)

PlaceOK ==
  /\ mission \in Missions /\ initial \in mission.modes
  /\ pc \in {"step", "status", "inject", "recover", "check", "done"} \cup Errors
  /\ steps \in 0 .. MaxSteps

LEMMA TypeParts == TypeOK <=> PlaceOK /\ EffectsOK /\ ChecksOK /\ MonitorOK
BY DEF TypeOK, PlaceOK, EffectsOK, ChecksOK, MonitorOK, Entry, Sample

\* Entering a mode that is declared, or none.
LEMMA EnterTypes ==
  ASSUME EffectsOK, NEW target \in Modes \cup {None}, Enter(target)
  PROVE  mode' \in Modes /\ transitions' \in Seq([from : Modes, to : Modes])
<1>1. CASE target \in {None, mode}
  BY <1>1 DEF EffectsOK, Enter
<1>2. CASE target \notin {None, mode}
  <2>1. [from |-> mode, to |-> target] \in [from : Modes, to : Modes]
    BY <1>2 DEF EffectsOK
  <2>2. mode' = target /\ transitions' = Append(transitions, [from |-> mode, to |-> target])
    BY <1>2 DEF Enter
  <2>3. transitions \in Seq([from : Modes, to : Modes])
    BY DEF EffectsOK
  <2> QED
    BY <1>2, <2>1, <2>2, <2>3, AppendProperties
<1> QED
  BY <1>1, <1>2

LEMMA UpdatedTypes ==
  ASSUME EffectsOK, NEW target \in Modes \cup {None}, NEW sets,
         DOMAIN sets \subseteq Telemetry, Range(sets) \subseteq Values
  PROVE  Updated(sets, target) \in Sample
<1>1. \A x \in DOMAIN sets : sets[x] \in Values
  BY DEF Range
<1> QED
  BY <1>1, ScenarioAssumption DEF EffectsOK, Updated, Sample

LEMMA EvidenceTypes ==
  ASSUME PlaceOK, EffectsOK, NEW c \in DOMAIN mission.commands
  PROVE  Evidence(c) \subseteq [product : mission.products, command : DOMAIN mission.commands,
                                run : 1 .. Len(commands) + 1, at : Nat]
<1>1. mission.commands[c].products \in Seq(Products)
  BY EffectShape DEF PlaceOK, IsEffect
<1>2. Len(commands) \in Nat
  BY DEF EffectsOK
<1> QED
  BY <1>1, <1>2 DEF Evidence

\* The effects of an executed command.
LEMMA ApplyTypes ==
  ASSUME PlaceOK, EffectsOK, NEW c \in DOMAIN mission.commands, ApplyEffects(c),
         Known(mission.commands[c].emits), UNCHANGED constVars,
         NEW entry \in Entry, commands' = Append(commands, entry)
  PROVE  EffectsOK'
<1> DEFINE cmd == mission.commands[c]
<1>1. IsEffect(cmd)
  BY EffectShape DEF PlaceOK
<1>2. mode' \in Modes /\ transitions' \in Seq([from : Modes, to : Modes])
  BY <1>1, EnterTypes DEF ApplyEffects, IsEffect
<1>3. telemetry' \in Sample
  BY <1>1, UpdatedTypes DEF ApplyEffects, IsEffect
<1>4. lifecycle' \in [Payloads -> Lifecycles]
  <2>1. cmd.lifecycle # None => cmd.lifecycle[1] \in Payloads /\ cmd.lifecycle[2] \in Lifecycles
    BY <1>1 DEF IsEffect
  <2> QED
    BY <2>1 DEF ApplyEffects, EffectsOK
<1>5. events' \in Seq(mission.events)
  <2>1. cmd.emits \in Seq(mission.events)
    BY <1>1, KnownEmits DEF IsEffect
  <2> QED
    BY <2>1, ConcatProperties DEF ApplyEffects, EffectsOK
<1>6. commands' \in Seq(Entry) /\ Len(commands') = Len(commands) + 1 /\ Len(commands) \in Nat
  BY AppendProperties DEF EffectsOK
<1>7. evidence' \subseteq [product : mission.products, command : DOMAIN mission.commands,
                           run : 1 .. Len(commands'), at : Nat]
  <2>1. 1 .. Len(commands) \subseteq 1 .. Len(commands')
    BY <1>6
  <2>2. evidence' = evidence \cup Evidence(c)
    BY DEF ApplyEffects
  <2> QED
    BY <1>6, <2>1, <2>2, EvidenceTypes DEF EffectsOK
<1> QED
  BY <1>2, <1>3, <1>4, <1>5, <1>6, <1>7 DEF EffectsOK, constVars

\* A dispatch, executed or not, or the exception that it ends in.
LEMMA DispatchTypes ==
  ASSUME PlaceOK, EffectsOK, NEW c \in Commands, NEW args, NEW dispatch \in {"GROUND", "AUTO"},
         NEW then, NEW queue \in Seq(Commands), autos \in Seq(Commands),
         DispatchOrRaise(c, args, dispatch, then, queue), UNCHANGED constVars
  PROVE  /\ EffectsOK' /\ UNCHANGED <<pending, applied>> /\ autos' \in Seq(Commands)
         /\ pc' = then \/ pc' \in Errors
<1> DEFINE status == Status(c, args, dispatch)
           entry == [id |-> c, status |-> status, dispatch |-> dispatch]
<1>1. CASE DispatchError(c, args, dispatch) # "none"
  <2>1. pc' \in Errors /\ UNCHANGED <<effectVars, commands, recoveryVars>>
    BY <1>1 DEF DispatchOrRaise, Raise, DispatchError, Errors
  <2> QED
    BY <2>1 DEF effectVars, recoveryVars, EffectsOK, constVars
<1>2. CASE DispatchError(c, args, dispatch) = "none"
  <2>1. DispatchAndApply(c, args, dispatch, then) /\ autos' = queue /\ UNCHANGED <<pending, applied>>
    BY <1>2 DEF DispatchOrRaise
  <2>2. entry \in Entry /\ commands' = Append(commands, entry)
    BY <2>1 DEF DispatchAndApply, Entry, Status
  <2>3. CASE Executed(status)
    <3>1. ApplyEffects(c) /\ Known(mission.commands[c].emits)
      BY <1>2, <2>1, <2>3 DEF DispatchAndApply, EffectsIfExecuted, DispatchError
    <3>2. c \in DOMAIN mission.commands
      BY <2>3, ExecutedIsDeclared
    <3> QED
      BY <2>1, <2>2, <3>1, <3>2, ApplyTypes DEF DispatchAndApply
  <2>4. CASE ~Executed(status)
    <3>1. UNCHANGED effectVars
      BY <2>1, <2>4 DEF DispatchAndApply, EffectsIfExecuted
    <3>2. commands' \in Seq(Entry) /\ 1 .. Len(commands) \subseteq 1 .. Len(commands')
      BY <2>2, AppendProperties DEF EffectsOK
    <3> QED
      BY <2>1, <3>1, <3>2 DEF effectVars, EffectsOK, constVars, DispatchAndApply
  <2> QED
    BY <2>3, <2>4
<1> QED
  BY <1>1, <1>2

\* Why a counter is bounded: there is one evaluation in a step at most.
SampleInv ==
  /\ Len(snapshots) <= steps
  /\ pc \in {"status", "inject"} => Len(snapshots) < steps
  /\ \A f \in FaultIds : counters[f] <= Len(snapshots)

TypeInv == PlaceOK /\ EffectsOK /\ ChecksOK /\ MonitorOK /\ SampleInv

LEMMA TypeInvInit == Init => TypeInv
<1> SUFFICES ASSUME Init PROVE TypeInv
  OBVIOUS
<1>1. mission \in Missions /\ IsMission(mission) /\ initial \in Modes
  BY ScenarioAssumption DEF Init, IsMission
<1>2. PlaceOK
  BY <1>1, ScenarioAssumption DEF Init, PlaceOK
<1>3. telemetry \in Sample
  BY <1>1, ScenarioAssumption DEF Init, Sample
<1>4. EffectsOK
  BY <1>1, <1>3 DEF Init, EffectsOK, IsMission
<1>5. ChecksOK
  BY ScenarioAssumption DEF Init, ChecksOK
<1>6. MonitorOK
  BY ScenarioAssumption DEF Init, MonitorOK
<1>7. SampleInv
  BY DEF Init, SampleInv
<1> QED
  BY <1>2, <1>4, <1>5, <1>6, <1>7 DEF TypeInv

\* One more expectation record.
CheckRecord == [kind : Kinds, expected : Expected, passed : BOOLEAN]
Recorded(entry) ==
  /\ checks' = Append(checks, entry)
  /\ failed' = IF entry.passed THEN failed ELSE failed + 1
  /\ steps + Len(checks) < MaxSteps
  /\ entry.kind = "scenario_status" /\ entry.passed => entry.expected = Verdict

LEMMA RecordTypes ==
  ASSUME PlaceOK, ChecksOK, NEW entry \in CheckRecord, Recorded(entry)
  PROVE  ChecksOK'
<1>1. checks' = Append(checks, entry) /\ failed' \in {failed, failed + 1}
      /\ steps + Len(checks) < MaxSteps
  BY DEF Recorded
<1> QED
  BY <1>1, AppendProperties, ScenarioAssumption DEF PlaceOK, ChecksOK, CheckRecord

LEMMA RecordShape ==
  ASSUME NEW kind \in Kinds, NEW expected \in Expected, NEW met \in BOOLEAN
  PROVE  [kind |-> kind, expected |-> expected, passed |-> met] \in CheckRecord
BY DEF CheckRecord

\* A step records one expectation or none.
LEMMA CheckStep ==
  ASSUME PlaceOK, [Next]_vars
  PROVE  UNCHANGED checkVars \/ \E entry \in CheckRecord : Recorded(entry)
<1>1. mission.events \subseteq Expected /\ DOMAIN mission.commands \subseteq Expected
  BY ScenarioAssumption DEF PlaceOK, IsMission, Expected
<1>2. ASSUME NEW e \in mission.events, CheckEvent(e)
      PROVE  \E entry \in CheckRecord : Recorded(entry)
  <2> DEFINE met == (e \in Range(events))
  <2>1. met \in BOOLEAN
    OBVIOUS
  <2>2. Recorded([kind |-> "event", expected |-> e, passed |-> met])
    BY <1>2 DEF Record, Recorded, CheckEvent
  <2>3. e \in Expected
    BY <1>1 DEF Expected
  <2> HIDE DEF met
  <2>4. [kind |-> "event", expected |-> e, passed |-> met] \in CheckRecord
    BY <2>1, <2>3, RecordShape DEF Kinds
  <2> QED
    BY <2>2, <2>4
<1>3. ASSUME NEW m \in Modes, CheckMode(m)
      PROVE  \E entry \in CheckRecord : Recorded(entry)
  <2> DEFINE met == (mode = m)
  <2>1. met \in BOOLEAN
    OBVIOUS
  <2>2. Recorded([kind |-> "mode", expected |-> m, passed |-> met])
    BY <1>3 DEF Record, Recorded, CheckMode
  <2>3. m \in Expected
    BY <1>1 DEF Expected
  <2> HIDE DEF met
  <2>4. [kind |-> "mode", expected |-> m, passed |-> met] \in CheckRecord
    BY <2>1, <2>3, RecordShape DEF Kinds
  <2> QED
    BY <2>2, <2>4
<1>4. ASSUME NEW c \in DOMAIN mission.commands, NEW d, CheckCommand(c, d)
      PROVE  \E entry \in CheckRecord : Recorded(entry)
  <2> DEFINE met == (\E k \in DOMAIN commands : commands[k].id = c /\ commands[k].dispatch = d)
  <2>1. met \in BOOLEAN
    OBVIOUS
  <2>2. Recorded([kind |-> "command", expected |-> c, passed |-> met])
    BY <1>4 DEF Record, Recorded, CheckCommand
  <2>3. c \in Expected
    BY <1>1 DEF Expected
  <2> HIDE DEF met
  <2>4. [kind |-> "command", expected |-> c, passed |-> met] \in CheckRecord
    BY <2>1, <2>3, RecordShape DEF Kinds
  <2> QED
    BY <2>2, <2>4
<1>5. ASSUME NEW x \in Injections, CheckTelemetry(x[1], x[2])
      PROVE  \E entry \in CheckRecord : Recorded(entry)
  <2> DEFINE met == (telemetry[x[1]] = x[2])
  <2>1. met \in BOOLEAN
    OBVIOUS
  <2>2. Recorded([kind |-> "telemetry", expected |-> x[2], passed |-> met])
    BY <1>5 DEF Record, Recorded, CheckTelemetry
  <2>3. x[2] \in Expected
    BY ScenarioAssumption DEF Expected
  <2> HIDE DEF met
  <2>4. [kind |-> "telemetry", expected |-> x[2], passed |-> met] \in CheckRecord
    BY <2>1, <2>3, RecordShape DEF Kinds
  <2> QED
    BY <2>2, <2>4
<1>6. ASSUME NEW p \in Payloads, NEW s \in Lifecycles, CheckLifecycle(p, s)
      PROVE  \E entry \in CheckRecord : Recorded(entry)
  <2> DEFINE met == (lifecycle[p] = s)
  <2>1. met \in BOOLEAN
    OBVIOUS
  <2>2. Recorded([kind |-> "payload_lifecycle", expected |-> s, passed |-> met])
    BY <1>6 DEF Record, Recorded, CheckLifecycle
  <2>3. s \in Expected
    BY <1>1 DEF Expected
  <2> HIDE DEF met
  <2>4. [kind |-> "payload_lifecycle", expected |-> s, passed |-> met] \in CheckRecord
    BY <2>1, <2>3, RecordShape DEF Kinds
  <2> QED
    BY <2>2, <2>4
<1>7. ASSUME NEW d, NEW c \in DOMAIN mission.commands, CheckDataFlow(d, c)
      PROVE  \E entry \in CheckRecord : Recorded(entry)
  <2> DEFINE met == (\E e \in EvidenceOf(d) : e.command = c /\ \A o \in EvidenceOf(d) : o.run <= e.run)
  <2>1. met \in BOOLEAN
    OBVIOUS
  <2>2. Recorded([kind |-> "data_flow", expected |-> c, passed |-> met])
    BY <1>7 DEF Record, Recorded, CheckDataFlow
  <2>3. c \in Expected
    BY <1>1 DEF Expected
  <2> HIDE DEF met
  <2>4. [kind |-> "data_flow", expected |-> c, passed |-> met] \in CheckRecord
    BY <2>1, <2>3, RecordShape DEF Kinds
  <2> QED
    BY <2>2, <2>4
<1>8. ASSUME NEW e \in {"ACCEPTED", "REJECTED", "FAILED"},
              Record("command_status", e, commands[Len(commands)].status = e)
      PROVE  \E entry \in CheckRecord : Recorded(entry)
  <2> DEFINE met == (commands[Len(commands)].status = e)
  <2>1. met \in BOOLEAN
    OBVIOUS
  <2>2. Recorded([kind |-> "command_status", expected |-> e, passed |-> met])
    BY <1>8 DEF Record, Recorded
  <2>3. e \in Expected
    BY <1>1 DEF Expected
  <2> HIDE DEF met
  <2>4. [kind |-> "command_status", expected |-> e, passed |-> met] \in CheckRecord
    BY <2>1, <2>3, RecordShape DEF Kinds
  <2> QED
    BY <2>2, <2>4
<1>9. ASSUME NEW e \in {"PASSED", "FAILED"}, Record("scenario_status", e, Verdict = e)
      PROVE  \E entry \in CheckRecord : Recorded(entry)
  <2> DEFINE met == (Verdict = e)
  <2>1. met \in BOOLEAN
    OBVIOUS
  <2>2. Recorded([kind |-> "scenario_status", expected |-> e, passed |-> met])
    BY <1>9 DEF Record, Recorded
  <2>3. e \in Expected
    BY <1>1 DEF Expected
  <2> HIDE DEF met
  <2>4. [kind |-> "scenario_status", expected |-> e, passed |-> met] \in CheckRecord
    BY <2>1, <2>3, RecordShape DEF Kinds
  <2> QED
    BY <2>2, <2>4
<1>10. CASE CheckExpectation
  BY <1>2, <1>3, <1>4, <1>5, <1>6, <1>7, <1>10 DEF CheckExpectation
<1>11. CASE CheckCommandStatus
  BY <1>8, <1>11 DEF CheckCommandStatus
<1>12. CASE EndStep
  BY <1>9, <1>12 DEF EndStep
<1> QED
  BY <1>10, <1>11, <1>12
  DEF Next, vars, GroundCommand, NoCommand, Inject, NoInjection, ApplyTrigger, AutoCommand,
      Recovered, End

LEMMA ChecksTypes == ASSUME PlaceOK, ChecksOK, [Next]_vars PROVE ChecksOK'
<1>1. UNCHANGED checkVars => ChecksOK'
  BY DEF ChecksOK, checkVars
<1> QED
  BY <1>1, CheckStep, RecordTypes

\* The steps that change neither the histories nor the monitor.
Silent ==
  /\ UNCHANGED <<constVars, effectVars, commands, monitorVars, recoveryVars>>
  /\ pc' \in {"step", "status", "inject", "recover", "check", "done"}
  /\ \/ steps' = steps /\ (pc' \in {"status", "inject"} => pc \in {"status", "inject"})
     \/ steps' = steps + 1 /\ steps < MaxSteps

LEMMA SilentStep ==
  ASSUME TypeInv, Silent, ChecksOK'
  PROVE  TypeInv'
<1>1. steps' \in 0 .. MaxSteps /\ steps' >= steps
  BY ScenarioAssumption DEF TypeInv, PlaceOK, Silent
<1>2. PlaceOK'
  BY <1>1 DEF TypeInv, PlaceOK, Silent, constVars
<1>3. EffectsOK'
  BY DEF TypeInv, EffectsOK, Silent, constVars, effectVars
<1>4. MonitorOK' /\ FaultIds' = FaultIds
  BY DEF TypeInv, MonitorOK, Silent, constVars, monitorVars, recoveryVars, FaultIds
<1>5. SampleInv'
  <2>1. Len(snapshots) \in Nat /\ steps \in Nat
    BY ScenarioAssumption DEF TypeInv, MonitorOK, PlaceOK
  <2> QED
    BY <1>1, <1>4, <2>1 DEF TypeInv, SampleInv, Silent, monitorVars
<1> QED
  BY <1>2, <1>3, <1>4, <1>5 DEF TypeInv

LEMMA DispatchStep ==
  ASSUME TypeInv, NEW c \in Commands, NEW args, NEW dispatch \in {"GROUND", "AUTO"},
         NEW then \in {"status", "recover"}, NEW queue \in Seq(Commands),
         DispatchOrRaise(c, args, dispatch, then, queue),
         UNCHANGED <<constVars, monitorVars, checkVars>>,
         \/ steps' = steps /\ then = "recover"
         \/ steps' = steps + 1 /\ steps + Len(checks) < MaxSteps
  PROVE  TypeInv'
<1>1. Len(checks) \in Nat /\ steps \in Nat /\ Len(snapshots) \in Nat
  BY ScenarioAssumption DEF TypeInv, ChecksOK, MonitorOK, PlaceOK
<1>2. steps' \in 0 .. MaxSteps /\ steps' >= steps
  BY <1>1, ScenarioAssumption DEF TypeInv, PlaceOK
<1>3. /\ EffectsOK' /\ UNCHANGED <<pending, applied>> /\ autos' \in Seq(Commands)
      /\ pc' = then \/ pc' \in Errors
  BY DispatchTypes DEF TypeInv, MonitorOK
<1>4. PlaceOK'
  BY <1>2, <1>3 DEF TypeInv, PlaceOK, constVars
<1>5. ChecksOK'
  BY DEF TypeInv, ChecksOK, checkVars
<1>6. MonitorOK' /\ FaultIds' = FaultIds
  BY <1>3 DEF TypeInv, MonitorOK, constVars, monitorVars, FaultIds
<1>7. SampleInv'
  BY <1>1, <1>2, <1>3, <1>6 DEF TypeInv, SampleInv, monitorVars, Errors
<1> QED
  BY <1>3, <1>4, <1>5, <1>6, <1>7 DEF TypeInv

LEMMA InjectStep == ASSUME TypeInv, Inject PROVE TypeInv'
<1> PICK injected \in Injections :
      LET x == injected[1]
          seen == [telemetry EXCEPT ![x] = injected[2]]
          raises == \E f \in FaultIds \ triggered : seen[Fault(f).watches] \in Fault(f).raises
      IN  IF raises
            THEN Raise("type_error") /\ UNCHANGED monitorVars
            ELSE /\ telemetry' = seen
                 /\ Evaluate(seen)
                 /\ pc' = "recover"
                 /\ UNCHANGED <<mode, lifecycle, events, transitions, evidence,
                                commands, autos, applied>>
  BY DEF Inject
<1> DEFINE seen == [telemetry EXCEPT ![injected[1]] = injected[2]]
           raises == \E f \in FaultIds \ triggered :
                       seen[Fault(f).watches] \in Fault(f).raises
<1>1. UNCHANGED <<constVars, steps, checkVars>> /\ pc = "inject"
  BY DEF Inject
<1>2. Len(snapshots) \in Nat /\ steps \in Nat /\ Len(snapshots) < steps /\ steps <= MaxSteps
  BY <1>1, ScenarioAssumption DEF TypeInv, MonitorOK, PlaceOK, SampleInv
<1>3. FaultIds' = FaultIds /\ ChecksOK'
  BY <1>1 DEF FaultIds, constVars, TypeInv, ChecksOK, checkVars
<1>4. CASE raises
  <2>1. pc' = "type_error" /\ UNCHANGED <<effectVars, commands, recoveryVars, monitorVars>>
    BY <1>4 DEF Raise
  <2>2. PlaceOK' /\ EffectsOK' /\ MonitorOK'
    BY <1>1, <1>3, <2>1 DEF TypeInv, PlaceOK, EffectsOK, MonitorOK, constVars, effectVars,
                            recoveryVars, monitorVars, Errors
  <2>3. SampleInv'
    BY <1>1, <1>2, <1>3, <2>1 DEF TypeInv, SampleInv, monitorVars
  <2> QED
    BY <1>3, <2>2, <2>3 DEF TypeInv
<1>5. CASE ~raises
  <2>1. /\ telemetry' = seen /\ Evaluate(seen) /\ pc' = "recover"
        /\ UNCHANGED <<mode, lifecycle, events, transitions, evidence, commands, autos, applied>>
    BY <1>5
  <2>2. seen \in Sample
    BY ScenarioAssumption DEF TypeInv, EffectsOK, Sample
  <2> HIDE DEF seen, raises
  <2>3. PlaceOK' /\ EffectsOK'
    BY <1>1, <2>1, <2>2 DEF TypeInv, PlaceOK, EffectsOK, constVars
  <2>4. snapshots' \in Seq(Sample) /\ Len(snapshots') = Len(snapshots) + 1
    BY <2>1, <2>2, AppendProperties DEF Evaluate, TypeInv, MonitorOK
  <2>5. \A f \in FaultIds : Count(f, seen) \in Nat /\ Count(f, seen) <= Len(snapshots) + 1
    BY <1>2 DEF Count, TypeInv, MonitorOK, SampleInv
  <2>6. \A f \in FaultIds : Count(f, seen) \in 0 .. MaxSteps
    <3> SUFFICES ASSUME NEW f \in FaultIds PROVE Count(f, seen) \in 0 .. MaxSteps
      OBVIOUS
    <3> DEFINE n == Count(f, seen)
    <3>1. n \in Nat /\ n <= Len(snapshots) + 1
      BY <2>5
    <3> HIDE DEF n
    <3>2. n \in 0 .. MaxSteps
      BY <1>2, <3>1, ScenarioAssumption
    <3> QED
      BY <3>2 DEF n
  <2>7. counters' \in [FaultIds -> 0 .. MaxSteps]
    BY <2>1, <2>6 DEF Evaluate
  <2>8. Triggers \subseteq FaultIds
    BY DEF Triggers
  <2>9. MonitorOK'
    BY <1>3, <2>1, <2>4, <2>7, <2>8 DEF TypeInv, MonitorOK, Evaluate, Remember
  <2>10. SampleInv'
    <3>1. Len(snapshots') <= steps' /\ pc' = "recover"
      BY <1>1, <1>2, <2>1, <2>4
    <3>2. \A f \in FaultIds : counters'[f] <= Len(snapshots')
      BY <2>1, <2>4, <2>5 DEF Evaluate
    <3> QED
      BY <1>3, <3>1, <3>2 DEF SampleInv
  <2> QED
    BY <1>3, <2>3, <2>9, <2>10 DEF TypeInv
<1> QED
  BY <1>4, <1>5

LEMMA ApplyTriggerStep == ASSUME TypeInv, ApplyTrigger PROVE TypeInv'
<1> PICK f \in pending :
      IF ~Known(Fault(f).emits)
        THEN Raise("key_error")
        ELSE /\ events' = events \o Fault(f).emits
             /\ telemetry' = Updated(<<>>, Fault(f).goes)
             /\ Enter(Fault(f).goes)
             /\ autos' = Fault(f).autos
             /\ pending' = pending \ {f} /\ applied' = Append(applied, f)
             /\ UNCHANGED <<pc, lifecycle, evidence, commands>>
  BY DEF ApplyTrigger
<1>1. UNCHANGED <<constVars, steps, monitorVars, checkVars>> /\ pc = "recover"
  BY DEF ApplyTrigger
<1>2. f \in FaultIds /\ IsFault(Fault(f))
  BY FaultShape DEF TypeInv, MonitorOK, PlaceOK
<1>3. FaultIds' = FaultIds /\ ChecksOK'
  BY <1>1 DEF FaultIds, constVars, TypeInv, ChecksOK, checkVars
<1>4. pc' \notin {"status", "inject"} => SampleInv'
  BY <1>1, <1>3 DEF TypeInv, SampleInv, monitorVars
<1>5. CASE ~Known(Fault(f).emits)
  <2>1. pc' = "key_error" /\ UNCHANGED <<effectVars, commands, recoveryVars>>
    BY <1>5 DEF Raise
  <2>2. PlaceOK' /\ EffectsOK' /\ MonitorOK'
    BY <1>1, <1>3, <2>1 DEF TypeInv, PlaceOK, EffectsOK, MonitorOK, constVars, effectVars,
                            recoveryVars, monitorVars, Errors
  <2> QED
    BY <1>3, <1>4, <2>1, <2>2 DEF TypeInv
<1>6. CASE Known(Fault(f).emits)
  <2>1. /\ events' = events \o Fault(f).emits
        /\ telemetry' = Updated(<<>>, Fault(f).goes)
        /\ Enter(Fault(f).goes)
        /\ autos' = Fault(f).autos
        /\ pending' = pending \ {f} /\ applied' = Append(applied, f)
        /\ UNCHANGED <<pc, lifecycle, evidence, commands>>
    BY <1>6
  <2>2. telemetry' \in Sample
    <3>1. DOMAIN << >> = {} /\ Range(<< >>) = {}
      BY DEF Range
    <3> QED
      BY <1>2, <2>1, <3>1, UpdatedTypes DEF IsFault, TypeInv
  <2>3. mode' \in Modes /\ transitions' \in Seq([from : Modes, to : Modes])
    BY <1>2, <2>1, EnterTypes DEF IsFault, TypeInv
  <2>4. events' \in Seq(mission.events)
    BY <1>2, <1>6, <2>1, KnownEmits, ConcatProperties DEF IsFault, TypeInv, EffectsOK
  <2>5. PlaceOK' /\ EffectsOK'
    BY <1>1, <2>1, <2>2, <2>3, <2>4 DEF TypeInv, PlaceOK, EffectsOK, constVars
  <2>6. applied' \in Seq(FaultIds)
    BY <1>2, <2>1, AppendProperties DEF TypeInv, MonitorOK
  <2>7. MonitorOK'
    BY <1>1, <1>2, <1>3, <2>1, <2>6 DEF TypeInv, MonitorOK, monitorVars, IsFault
  <2> QED
    BY <1>1, <1>3, <1>4, <2>1, <2>5, <2>7 DEF TypeInv
<1> QED
  BY <1>5, <1>6

LEMMA TypeInvStep == ASSUME TypeInv, [Next]_vars PROVE TypeInv'
<1>1. CASE GroundCommand
  <2>1. PICK c \in DOMAIN mission.commands :
          \E args \in GroundArgs(c) : DispatchOrRaise(c, args, "GROUND", "status", autos)
    BY <1>1 DEF GroundCommand
  <2>2. c \in Commands /\ autos \in Seq(Commands)
    BY EffectShape DEF TypeInv, PlaceOK, MonitorOK
  <2> QED
    BY <1>1, <2>1, <2>2, DispatchStep DEF GroundCommand
<1>2. CASE AutoCommand
  <2>1. DispatchOrRaise(Head(autos), AutoArgs(Head(autos)), "AUTO", "recover", Tail(autos))
        /\ autos # <<>>
    BY <1>2 DEF AutoCommand
  <2>2. Head(autos) \in Commands /\ Tail(autos) \in Seq(Commands)
    BY <2>1, HeadTailProperties DEF TypeInv, MonitorOK
  <2> QED
    BY <1>2, <2>1, <2>2, DispatchStep DEF AutoCommand
<1>3. CASE NoCommand
  <2>1. steps < MaxSteps
    BY <1>3, ScenarioAssumption DEF NoCommand, TypeInv, PlaceOK, ChecksOK
  <2>2. Silent
    BY <1>3, <2>1 DEF NoCommand, Silent
  <2> QED
    BY <2>2, ChecksTypes, SilentStep DEF TypeInv
<1>4. CASE CheckCommandStatus
  BY <1>4, ChecksTypes, SilentStep DEF CheckCommandStatus, Silent, TypeInv
<1>5. CASE NoInjection \/ Recovered \/ End
  BY <1>5, ChecksTypes, SilentStep DEF NoInjection, Recovered, End, Silent, TypeInv
<1>6. CASE CheckExpectation
  BY <1>6, ChecksTypes, SilentStep DEF CheckExpectation, Silent, TypeInv
<1>7. CASE EndStep
  BY <1>7, ChecksTypes, SilentStep DEF EndStep, Silent, TypeInv
<1>8. CASE Inject
  BY <1>8, InjectStep
<1>9. CASE ApplyTrigger
  BY <1>9, ApplyTriggerStep
<1>10. CASE UNCHANGED vars
  BY <1>10 DEF vars, TypeInv, PlaceOK, EffectsOK, ChecksOK, MonitorOK, SampleInv, constVars,
               effectVars, checkVars, monitorVars, recoveryVars, FaultIds
<1> QED
  BY <1>1, <1>2, <1>3, <1>4, <1>5, <1>6, <1>7, <1>8, <1>9, <1>10 DEF Next

LEMMA TypeInvAlways == Spec => []TypeInv
BY TypeInvInit, TypeInvStep, PTL DEF Spec

\* The type invariant of the run holds for any missions and any number of steps.
THEOREM TypeCorrect == Spec => []TypeOK
<1>1. TypeInv => TypeOK
  BY TypeParts DEF TypeInv
<1> QED
  BY <1>1, TypeInvAlways, PTL

---------------------------------------------------------------------------
(* What a step does to the mode, the lifecycle of the payloads and the commands. *)

Quiet == UNCHANGED <<mode, transitions, lifecycle, commands>>

\* A command is logged, and takes effect if it was executed.
Dispatched(entry) ==
  /\ commands' = Append(commands, entry)
  /\ Executed(entry.status) =>
       /\ entry.id \in DOMAIN mission.commands
       /\ LifecycleMet(entry.id) /\ ApplyEffects(entry.id)
  /\ ~Executed(entry.status) => UNCHANGED <<mode, transitions, lifecycle>>

\* A fault recovers.
Moved(f) == Enter(Fault(f).goes) /\ UNCHANGED <<lifecycle, commands>>

LEMMA DispatchEffects ==
  ASSUME NEW c \in Commands, NEW args, NEW dispatch \in {"GROUND", "AUTO"}, NEW then, NEW queue,
         DispatchOrRaise(c, args, dispatch, then, queue)
  PROVE  Quiet \/ \E entry \in Entry : Dispatched(entry)
<1> DEFINE entry == [id |-> c, status |-> Status(c, args, dispatch), dispatch |-> dispatch]
<1>1. CASE DispatchError(c, args, dispatch) # "none"
  BY <1>1 DEF DispatchOrRaise, Raise, effectVars, Quiet
<1>2. CASE DispatchError(c, args, dispatch) = "none"
  <2>1. DispatchAndApply(c, args, dispatch, then)
    BY <1>2 DEF DispatchOrRaise
  <2>2. entry \in Entry
    BY DEF Entry, Status
  <2>3. Executed(entry.status) => c \in DOMAIN mission.commands /\ LifecycleMet(c)
    BY DEF Executed, Status
  <2>4. Dispatched(entry)
    BY <2>1, <2>3 DEF Dispatched, DispatchAndApply, EffectsIfExecuted, effectVars
  <2> QED
    BY <2>2, <2>4
<1> QED
  BY <1>1, <1>2

LEMMA StepEffects ==
  ASSUME TypeInv, [Next]_vars
  PROVE  /\ UNCHANGED constVars
         /\ Quiet \/ (\E entry \in Entry : Dispatched(entry)) \/ \E f \in FaultIds : Moved(f)
<1>1. CASE GroundCommand
  BY <1>1, EffectShape, DispatchEffects DEF GroundCommand, TypeInv, PlaceOK
<1>2. CASE AutoCommand
  <2>1. Head(autos) \in Commands
    BY <1>2, HeadTailProperties DEF AutoCommand, TypeInv, MonitorOK
  <2> QED
    BY <1>2, <2>1, DispatchEffects DEF AutoCommand
<1>3. CASE Inject
  <2>1. UNCHANGED constVars
    BY <1>3 DEF Inject
  <2>2. Quiet
    BY <1>3 DEF Inject, Raise, effectVars, Quiet
  <2> QED
    BY <2>1, <2>2
<1>4. CASE ApplyTrigger
  <2>1. PICK f \in pending :
          \/ Raise("key_error")
          \/ Enter(Fault(f).goes) /\ UNCHANGED <<pc, lifecycle, evidence, commands>>
    BY <1>4 DEF ApplyTrigger
  <2>2. Quiet \/ Moved(f)
    BY <2>1 DEF Raise, effectVars, Quiet, Moved
  <2>3. f \in FaultIds /\ UNCHANGED constVars
    BY <1>4 DEF TypeInv, MonitorOK, ApplyTrigger
  <2> QED
    BY <2>2, <2>3
<1>5. CASE UNCHANGED <<constVars, effectVars, commands>>
  BY <1>5 DEF effectVars, Quiet
<1> QED
  BY <1>1, <1>2, <1>3, <1>4, <1>5
  DEF Next, vars, NoCommand, CheckCommandStatus, NoInjection, Recovered, CheckExpectation,
      EndStep, End

---------------------------------------------------------------------------
(* The transitions are a path. *)

LEMMA EnterChain ==
  ASSUME ModeChain, transitions \in Seq([from : Modes, to : Modes]), initial' = initial,
         NEW target, target # None => target \in Modes, mode \in Modes, Enter(target)
  PROVE  ModeChain'
<1>1. CASE target \in {None, mode}
  BY <1>1 DEF Enter, ModeChain
<1>2. CASE target \notin {None, mode}
  <2> DEFINE entry == [from |-> mode, to |-> target]
  <2>1. entry \in [from : Modes, to : Modes] /\ mode' = target /\ transitions' = Append(transitions, entry)
    BY <1>2 DEF Enter
  <2>2. Len(transitions) \in Nat /\ Len(transitions') = Len(transitions) + 1
        /\ transitions'[Len(transitions) + 1] = entry
        /\ \A k \in 1 .. Len(transitions) : transitions'[k] = transitions[k]
    BY <2>1, AppendProperties
  <2> QED
    BY <1>2, <2>1, <2>2 DEF ModeChain
<1> QED
  BY <1>1, <1>2

LEMMA ChainStep == ASSUME TypeInv, ModeChain, [Next]_vars PROVE ModeChain'
<1>1. transitions \in Seq([from : Modes, to : Modes]) /\ mode \in Modes
  BY DEF TypeInv, EffectsOK
<1>2. initial' = initial
  BY StepEffects DEF constVars
<1>3. Quiet => ModeChain'
  BY <1>2 DEF Quiet, ModeChain
<1>4. ASSUME NEW f \in FaultIds, Moved(f) PROVE ModeChain'
  BY <1>1, <1>2, <1>4, FaultShape, EnterChain DEF Moved, IsFault, TypeInv, PlaceOK
<1>5. ASSUME NEW entry \in Entry, Dispatched(entry) PROVE ModeChain'
  <2>1. CASE Executed(entry.status)
    <3>1. ApplyEffects(entry.id) /\ IsEffect(mission.commands[entry.id])
      BY <1>5, <2>1, EffectShape DEF Dispatched, TypeInv, PlaceOK
    <3>2. Enter(mission.commands[entry.id].goes)
      BY <3>1 DEF ApplyEffects
    <3> QED
      BY <1>1, <1>2, <3>1, <3>2, EnterChain DEF IsEffect
  <2>2. CASE ~Executed(entry.status)
    BY <1>2, <1>5, <2>2 DEF Dispatched, ModeChain
  <2> QED
    BY <2>1, <2>2
<1> QED
  BY <1>3, <1>4, <1>5, StepEffects

\* The mode transitions of a run are a path from its initial mode to its mode.
THEOREM ModesChain == Spec => []ModeChain
<1>1. Init => ModeChain
  BY DEF Init, ModeChain
<1> QED
  BY <1>1, ChainStep, TypeInvAlways, PTL DEF Spec

---------------------------------------------------------------------------
(* The lifecycle of a payload, and the commands that set it. *)

LifecycleOf(k) == mission.commands[commands[k].id].lifecycle
NeedsOf(k) == mission.commands[commands[k].id].needs
Sets(k) == Executed(commands[k].status) /\ LifecycleOf(k) # None

\* The state that a command set is there still, or a later one set the state that is.
LifecycleInv ==
  /\ \A k \in DOMAIN commands :
       Executed(commands[k].status) => commands[k].id \in DOMAIN mission.commands
  /\ \A j \in DOMAIN commands : Sets(j) =>
       LET p == LifecycleOf(j)[1] IN
       \/ lifecycle[p] = LifecycleOf(j)[2]
       \/ \E n \in DOMAIN commands : n > j /\ Sets(n) /\ LifecycleOf(n) = <<p, lifecycle[p]>>

LEMMA LifecycleStep ==
  ASSUME TypeInv, LifecycleInv, LifecycleRespected, [Next]_vars
  PROVE  LifecycleInv' /\ LifecycleRespected'
<1>1. mission' = mission
  BY StepEffects DEF constVars
<1>2. ASSUME UNCHANGED <<lifecycle, commands>> PROVE LifecycleInv' /\ LifecycleRespected'
  <2>1. LifecycleInv'
    BY <1>1, <1>2 DEF LifecycleInv, Executed, Sets, LifecycleOf
  <2>2. LifecycleRespected'
    BY <1>1, <1>2, SMTT(30) DEF LifecycleRespected, Executed
  <2> QED
    BY <2>1, <2>2
<1>3. ASSUME NEW entry \in Entry, Dispatched(entry) PROVE LifecycleInv' /\ LifecycleRespected'
  <2> DEFINE cmd == mission.commands[entry.id]
  <2> PICK N \in Nat : N = Len(commands)
    BY DEF TypeInv, EffectsOK
  <2>1. /\ DOMAIN commands = 1 .. N /\ DOMAIN commands' = 1 .. N + 1
        /\ commands'[N + 1] = entry /\ \A k \in 1 .. N : commands'[k] = commands[k]
    <3>1. commands \in Seq(Entry) /\ commands' = Append(commands, entry)
      BY <1>3 DEF Dispatched, TypeInv, EffectsOK
    <3>2. commands' \in Seq(Entry) /\ Len(commands') = N + 1
      BY <3>1, AppendProperties
    <3> QED
      BY <3>1, <3>2, AppendProperties
  <2>2. \A k \in 1 .. N : LifecycleOf(k)' = LifecycleOf(k) /\ (Sets(k)' <=> Sets(k))
    BY <1>1, <2>1 DEF LifecycleOf, Sets, Executed
  <2>3. LifecycleOf(N + 1)' = cmd.lifecycle
    BY <1>1, <2>1 DEF LifecycleOf
  <2> DEFINE of(n) == mission.commands[commands'[n].id]
             Between(j, k) == /\ j < k
                              /\ Executed(commands'[j].status) /\ Executed(commands'[k].status)
                              /\ of(j).lifecycle # None /\ of(k).needs # None
                              /\ of(j).lifecycle[1] = of(k).needs[1]
                              /\ of(j).lifecycle # of(k).needs
             Restored(j, k) == \E n \in j + 1 .. k - 1 :
                                 Executed(commands'[n].status) /\ of(n).lifecycle = of(k).needs
  <2>4. ASSUME NEW j \in 1 .. N, NEW k \in 1 .. N, Between(j, k) PROVE Restored(j, k)
    <3>1. /\ j \in DOMAIN commands /\ k \in DOMAIN commands /\ j < k
          /\ Executed(commands[j].status) /\ Executed(commands[k].status)
          /\ LifecycleOf(j) # None /\ NeedsOf(k) # None
          /\ LifecycleOf(j)[1] = NeedsOf(k)[1] /\ LifecycleOf(j) # NeedsOf(k)
      BY <2>1, <2>4 DEF LifecycleOf, NeedsOf
    <3>2. PICK n \in j + 1 .. k - 1 : Executed(commands[n].status) /\ LifecycleOf(n) = NeedsOf(k)
      BY <3>1, Zenon DEF LifecycleRespected, LifecycleOf, NeedsOf
    <3>3. n \in 1 .. N
      OBVIOUS
    <3> QED
      BY <2>1, <3>2, <3>3 DEF LifecycleOf, NeedsOf
  <2>5. (\A j, k \in 1 .. N + 1 : Between(j, k) => Restored(j, k)) => LifecycleRespected'
    BY <1>1, <2>1, ZenonT(40) DEF LifecycleRespected
  <2>6. \A j \in 1 .. N : Sets(j) => LifecycleOf(j) \in Payloads \X Lifecycles
    <3> SUFFICES ASSUME NEW j \in 1 .. N, Sets(j)
                 PROVE  LifecycleOf(j) \in Payloads \X Lifecycles
      OBVIOUS
    <3>1. commands[j].id \in DOMAIN mission.commands
      BY <2>1 DEF LifecycleInv, Sets
    <3> QED
      BY <3>1, EffectShape DEF IsEffect, Sets, LifecycleOf, TypeInv, PlaceOK
  <2>7. CASE ~Executed(entry.status)
    <3>1. ~Sets(N + 1)' /\ lifecycle' = lifecycle
      BY <1>3, <2>1, <2>7 DEF Sets, Dispatched
    <3>2. LifecycleInv'
      BY <1>1, <2>1, <2>2, <2>7, <3>1 DEF LifecycleInv, Executed
    <3>3. LifecycleRespected'
      <4>1. ASSUME NEW j \in 1 .. N + 1, NEW k \in 1 .. N + 1, Between(j, k)
            PROVE  j \in 1 .. N /\ k \in 1 .. N
        BY <2>1, <2>7, <4>1
      <4> QED
        BY <2>4, <2>5, <4>1
    <3> QED
      BY <3>2, <3>3
  <2>8. CASE Executed(entry.status)
    <3>1. /\ IsEffect(cmd) /\ entry.id \in DOMAIN mission.commands
          /\ LifecycleMet(entry.id) /\ ApplyEffects(entry.id)
      BY <1>3, <2>8, EffectShape DEF Dispatched, TypeInv, PlaceOK
    <3>2. cmd.lifecycle = None => lifecycle' = lifecycle /\ ~Sets(N + 1)'
      BY <2>3, <3>1 DEF ApplyEffects, Sets
    <3>3. ASSUME cmd.lifecycle # None
          PROVE  /\ cmd.lifecycle[1] \in Payloads /\ Sets(N + 1)'
                 /\ cmd.lifecycle = <<cmd.lifecycle[1], cmd.lifecycle[2]>>
                 /\ lifecycle' = [lifecycle EXCEPT ![cmd.lifecycle[1]] = cmd.lifecycle[2]]
      <4>1. cmd.lifecycle \in Payloads \X Lifecycles
        BY <3>1, <3>3 DEF IsEffect
      <4>2. Sets(N + 1)'
        BY <2>1, <2>3, <2>8, <3>3 DEF Sets
      <4>3. lifecycle' = [lifecycle EXCEPT ![cmd.lifecycle[1]] = cmd.lifecycle[2]]
        BY <3>1, <3>3 DEF ApplyEffects
      <4> QED
        BY <4>1, <4>2, <4>3
    <3>4. lifecycle \in [Payloads -> Lifecycles]
      BY DEF TypeInv, EffectsOK
    <3>5. \A k \in 1 .. N + 1 :
            Executed(commands'[k].status) => commands'[k].id \in DOMAIN mission.commands
      BY <2>1, <3>1 DEF LifecycleInv
    <3>6. ASSUME NEW j \in 1 .. N + 1, Sets(j)'
          PROVE  LET p == LifecycleOf(j)'[1] IN
                 \/ lifecycle'[p] = LifecycleOf(j)'[2]
                 \/ \E n \in 1 .. N + 1 :
                      n > j /\ Sets(n)' /\ LifecycleOf(n)' = <<p, lifecycle'[p]>>
      <4>1. CASE j = N + 1
        BY <2>3, <3>2, <3>3, <3>4, <3>6, <4>1
      <4>2. CASE j # N + 1
        <5> DEFINE p == LifecycleOf(j)[1]
        <5>1. j \in 1 .. N /\ Sets(j) /\ LifecycleOf(j)' = LifecycleOf(j)
          BY <2>1, <2>2, <3>6, <4>2
        <5>2. \/ lifecycle[p] = LifecycleOf(j)[2]
              \/ \E n \in 1 .. N : n > j /\ Sets(n) /\ LifecycleOf(n) = <<p, lifecycle[p]>>
          BY <2>1, <5>1 DEF LifecycleInv
        <5>3. CASE cmd.lifecycle # None /\ cmd.lifecycle[1] = p
          <6>1. lifecycle'[p] = cmd.lifecycle[2] /\ Sets(N + 1)'
            BY <3>3, <3>4, <5>3
          <6>2. LifecycleOf(N + 1)' = <<p, lifecycle'[p]>>
            BY <2>3, <3>3, <5>3, <6>1
          <6> QED
            BY <5>1, <6>1, <6>2
        <5>4. CASE cmd.lifecycle = None \/ cmd.lifecycle[1] # p
          <6>1. lifecycle'[p] = lifecycle[p]
            BY <2>6, <3>2, <3>3, <3>4, <5>1, <5>4
          <6> QED
            BY <2>1, <2>2, <5>1, <5>2, <6>1
        <5> QED
          BY <5>3, <5>4
      <4> QED
        BY <4>1, <4>2
    <3>7. LifecycleInv'
      BY <1>1, <2>1, <3>5, <3>6 DEF LifecycleInv
    <3>8. LifecycleRespected'
      <4> SUFFICES ASSUME NEW j \in 1 .. N + 1, NEW k \in 1 .. N + 1, Between(j, k)
                   PROVE  Restored(j, k)
        BY <2>5
      <4>1. CASE k # N + 1
        <5>1. j \in 1 .. N /\ k \in 1 .. N
          BY <4>1
        <5> QED
          BY <2>4, <5>1
      <4>2. CASE k = N + 1
        <5> DEFINE p == LifecycleOf(j)[1]
        <5>1. j \in 1 .. N /\ Sets(j) /\ of(j).lifecycle = LifecycleOf(j) /\ of(k).needs = cmd.needs
          BY <2>1, <4>2 DEF Sets, LifecycleOf
        <5>2. cmd.needs = <<p, lifecycle[p]>>
          <6>1. cmd.needs # None /\ cmd.needs[1] = p
            BY <5>1
          <6>2. cmd.needs \in Payloads \X Lifecycles
            BY <3>1, <6>1, Zenon DEF IsEffect
          <6>3. lifecycle[cmd.needs[1]] = cmd.needs[2]
            BY <3>1, <6>1 DEF LifecycleMet
          <6> QED
            BY <6>1, <6>2, <6>3
        <5>3. LifecycleOf(j) = <<p, LifecycleOf(j)[2]>>
          BY <2>6, <5>1
        <5>4. PICK n \in 1 .. N : n > j /\ Sets(n) /\ LifecycleOf(n) = <<p, lifecycle[p]>>
          BY <2>1, <5>1, <5>2, <5>3 DEF LifecycleInv
        <5>5. n \in j + 1 .. k - 1 /\ commands'[n] = commands[n]
          BY <2>1, <4>2, <5>4
        <5> QED
          BY <5>1, <5>2, <5>4, <5>5 DEF Sets, LifecycleOf
      <4> QED
        BY <4>1, <4>2
    <3> QED
      BY <3>7, <3>8
  <2> QED
    BY <2>7, <2>8
<1> QED
  BY <1>2, <1>3, StepEffects DEF Quiet, Moved

\* Executed commands respect the lifecycle that they need and leave, whatever the scenario.
THEOREM LifecyclesRespected == Spec => []LifecycleRespected
<1>1. Init => LifecycleInv /\ LifecycleRespected
  BY DEF Init, LifecycleInv, LifecycleRespected
<1> QED
  BY <1>1, LifecycleStep, TypeInvAlways, PTL DEF Spec

---------------------------------------------------------------------------
(* A linted model has the events that it names. *)

LEMMA LintedStep ==
  ASSUME TypeInv, LintedNeverKeyError, [Next]_vars
  PROVE  LintedNeverKeyError'
<1> SUFFICES ASSUME LintClean(mission) PROVE pc' # "key_error"
  BY StepEffects DEF LintedNeverKeyError, constVars
<1>1. pc # "key_error"
  BY DEF LintedNeverKeyError
<1>2. ASSUME NEW c, NEW args, NEW dispatch, NEW then, NEW queue, then # "key_error",
             DispatchOrRaise(c, args, dispatch, then, queue)
      PROVE  pc' # "key_error"
  <2>1. DispatchError(c, args, dispatch) # "key_error"
    BY ExecutedIsDeclared DEF DispatchError, LintClean, Known
  <2> QED
    BY <1>2, <2>1 DEF DispatchOrRaise, Raise, DispatchAndApply
<1>3. CASE GroundCommand
  BY <1>2, <1>3 DEF GroundCommand
<1>4. CASE AutoCommand
  BY <1>2, <1>4 DEF AutoCommand
<1>5. CASE Inject
  BY <1>5 DEF Inject, Raise
<1>6. CASE ApplyTrigger
  <2>1. ASSUME NEW f \in pending PROVE Known(Fault(f).emits)
    BY <2>1 DEF LintClean, Known, Fault, FaultIds, Range, TypeInv, MonitorOK
  <2> QED
    BY <1>1, <1>6, <2>1 DEF ApplyTrigger
<1> QED
  BY <1>1, <1>3, <1>4, <1>5, <1>6
  DEF Next, vars, NoCommand, CheckCommandStatus, NoInjection, Recovered, CheckExpectation,
      EndStep, End

\* A model without lint errors never ends a run with an unknown name.
THEOREM LintedRunsKnowTheirNames == Spec => []LintedNeverKeyError
<1>1. Init => LintedNeverKeyError
  BY DEF Init, LintedNeverKeyError
<1> QED
  BY <1>1, LintedStep, TypeInvAlways, PTL DEF Spec

---------------------------------------------------------------------------
(* The rules that the lint command applies make a mission clean for the    *)
(* simulator, which applies none.                                          *)

CONSTANTS Ids, Malformed   \* see MissionModel
Lint == INSTANCE LintProofs

\* What the simulator reads of the objects of a Mission Model that the rules check.
ReadFrom(m, read) ==
  /\ read.modes = DOMAIN m.modes /\ read.events = DOMAIN m.events
  /\ DOMAIN read.commands = DOMAIN m.commands
  /\ \A c \in DOMAIN m.commands :
       /\ read.commands[c].emits = m.commands[c].emits
       /\ read.commands[c].allowed = Range(m.commands[c].allowed_modes)
  /\ \A f \in Range(read.faults) : \E id \in DOMAIN m.faults :
       /\ f.emits = m.faults[id].emits /\ f.goes = m.faults[id].mode_transition
       /\ f.autos = m.faults[id].auto_commands

\* ScenarioRun's LintClean holds of every Mission Model without lint errors: OF-REF-006 to
\* OF-REF-009 and OF-FLT-005 are applied, whatever else the model holds.
LEMMA LintedIsClean ==
  ASSUME None \notin Ids, Malformed \notin Ids, None # Malformed,
         NEW m, NEW read, ReadFrom(m, read), ~Lint!has_errors(Lint!LintRun(m))
  PROVE  LintClean(read)
<1>1. /\ \A f \in Lint!NamingFields : Lint!Found(m, Lint!Names(m[f[1]], f[2]), f[3])
      /\ \A f \in Lint!ListingFields : Lint!Found(m, Lint!Lists(m[f[1]], f[2]), f[3])
  BY Lint!NoDanglingReference DEF Lint!Closed
<1>2. /\ Lint!Found(m, Lint!Lists(m.commands, "emits"), "events")
      /\ Lint!Found(m, Lint!Lists(m.commands, "allowed_modes"), "modes")
      /\ Lint!Found(m, Lint!Lists(m.faults, "emits"), "events")
      /\ Lint!Found(m, Lint!Lists(m.faults, "auto_commands"), "commands")
  BY <1>1 DEF Lint!ListingFields
<1>3. Lint!Found(m, Lint!Names(m.faults, "mode_transition"), "modes")
  BY <1>1 DEF Lint!NamingFields
<1>4. ASSUME NEW table, NEW field, NEW domain, Lint!Found(m, Lint!Lists(table, field), domain),
             NEW o \in DOMAIN table
      PROVE  Range(table[o][field]) \subseteq DOMAIN m[domain]
  <2> SUFFICES ASSUME NEW k \in DOMAIN table[o][field]
               PROVE  table[o][field][k] \in DOMAIN m[domain]
    BY DEF Range
  <2> DEFINE r == [owner |-> o, at |-> k, id |-> table[o][field][k]]
  <2>1. r \in Lint!Lists(table, field)
    BY DEF Lint!Lists
  <2> QED
    BY <1>4, <2>1 DEF Lint!Found, Lint!Declared
<1>5. ASSUME NEW id \in DOMAIN m.faults, m.faults[id].mode_transition # None
      PROVE  m.faults[id].mode_transition \in DOMAIN m.modes
  <2> DEFINE r == [owner |-> id, at |-> 0, id |-> m.faults[id]["mode_transition"]]
  <2>1. r \in Lint!Names(m.faults, "mode_transition")
    BY <1>5 DEF Lint!Names
  <2> QED
    BY <1>3, <2>1 DEF Lint!Found, Lint!Declared
<1>6. ASSUME NEW c \in DOMAIN read.commands
      PROVE  /\ Range(read.commands[c].emits) \subseteq read.events
             /\ read.commands[c].allowed \subseteq read.modes
  BY <1>2, <1>4 DEF ReadFrom
<1>7. ASSUME NEW f \in Range(read.faults)
      PROVE  /\ Range(f.emits) \subseteq read.events /\ f.goes \in read.modes \cup {None}
             /\ Range(f.autos) \subseteq DOMAIN read.commands
  BY <1>2, <1>4, <1>5 DEF ReadFrom
<1> QED
  BY <1>6, <1>7 DEF LintClean

\* A mission that `orbitfabric lint` accepts does not end `orbitfabric sim` with a KeyError,
\* whatever the scenario (lint/rules_references.py; sim/event_bus.py, sim/runner.py).
THEOREM LintPreventsKeyErrors ==
  ASSUME None \notin Ids, Malformed \notin Ids, None # Malformed,
         \A read \in Missions :
           \E m : ReadFrom(m, read) /\ ~Lint!has_errors(Lint!LintRun(m))
  PROVE  Spec => [](pc # "key_error")
<1>1. ASSUME TypeInv, LintedNeverKeyError PROVE pc # "key_error"
  <2>1. mission \in Missions
    BY <1>1 DEF TypeInv, PlaceOK
  <2>2. LintClean(mission)
    BY <2>1, LintedIsClean
  <2> QED
    BY <1>1, <2>2 DEF LintedNeverKeyError
<1> QED
  BY <1>1, TypeInvAlways, LintedRunsKnowTheirNames, PTL

---------------------------------------------------------------------------
(* Recoveries. *)

\* Nothing is left to recover when the next evaluation comes.
RecoveryInv == RecoversOnce /\ (pc \notin {"recover"} \cup Errors => pending = {})

LEMMA RecoveryStep == ASSUME TypeInv, RecoveryInv, [Next]_vars PROVE RecoveryInv'
<1>1. applied \in Seq(FaultIds) /\ pending \subseteq FaultIds
  BY DEF TypeInv, MonitorOK
<1>2. (UNCHANGED <<applied, triggered, pending>>) => RecoversOnce'
  BY DEF RecoveryInv, RecoversOnce
<1>3. CASE Inject
  <2>1. pending = {} /\ pc' \in {"recover", "type_error"}
    BY <1>3 DEF Inject, Raise, RecoveryInv, Errors
  <2>2. CASE UNCHANGED <<applied, triggered, pending>>
    BY <1>2, <2>1, <2>2 DEF RecoveryInv, Errors
  <2>3. CASE /\ pending' = Triggers /\ triggered' = Remember(Triggers) /\ applied' = applied
    <3>1. triggered' \ pending' = triggered /\ pending' \subseteq triggered'
      BY <2>3 DEF Triggers, Remember
    <3> QED
      BY <2>1, <2>3, <3>1 DEF RecoveryInv, RecoversOnce, Errors
  <2> QED
    BY <1>3, <2>2, <2>3 DEF Inject, Raise, Evaluate, monitorVars, recoveryVars
<1>4. CASE ApplyTrigger
  <2>1. PICK f \in pending :
          \/ pc' = "key_error" /\ UNCHANGED <<applied, pending>>
          \/ pc' = pc /\ pending' = pending \ {f} /\ applied' = Append(applied, f)
    BY <1>4 DEF ApplyTrigger, Raise, recoveryVars
  <2>2. triggered' = triggered /\ pc = "recover"
    BY <1>4 DEF ApplyTrigger, monitorVars
  <2>3. CASE pc' = "key_error" /\ UNCHANGED <<applied, pending>>
    BY <1>2, <2>2, <2>3 DEF RecoveryInv, Errors
  <2>4. CASE pc' = pc /\ pending' = pending \ {f} /\ applied' = Append(applied, f)
    <3> PICK N \in Nat : N = Len(applied)
      BY <1>1
    <3>1. /\ DOMAIN applied = 1 .. N /\ DOMAIN applied' = 1 .. N + 1 /\ applied'[N + 1] = f
          /\ \A k \in 1 .. N : applied'[k] = applied[k]
      BY <1>1, <2>4, AppendProperties
    <3>2. Range(applied') = Range(applied) \cup {f}
      BY <3>1 DEF Range
    <3>3. f \notin Range(applied) /\ f \in triggered
      BY DEF RecoveryInv, RecoversOnce
    <3>4. IsInjective(applied')
      BY <3>1, <3>3 DEF RecoveryInv, RecoversOnce, IsInjective, Range
    <3> QED
      BY <2>2, <2>4, <3>2, <3>3, <3>4 DEF RecoveryInv, RecoversOnce, Errors
  <2> QED
    BY <2>1, <2>3, <2>4
<1>5. ASSUME NEW c, NEW args, NEW dispatch, NEW then, NEW queue, UNCHANGED triggered,
             DispatchOrRaise(c, args, dispatch, then, queue), then = "recover" \/ pending = {}
      PROVE  RecoveryInv'
  <2>1. UNCHANGED <<applied, pending>> /\ (pc' = then \/ pc' \in Errors)
    BY <1>5 DEF DispatchOrRaise, Raise, recoveryVars, DispatchAndApply, DispatchError, Errors
  <2> QED
    BY <1>2, <1>5, <2>1 DEF RecoveryInv
<1>6. CASE GroundCommand
  BY <1>5, <1>6 DEF GroundCommand, monitorVars, RecoveryInv, Errors
<1>7. CASE AutoCommand
  BY <1>5, <1>7 DEF AutoCommand, monitorVars
<1>8. CASE UNCHANGED <<applied, triggered, pending>> /\ (pending = {} \/ pc' = pc)
  BY <1>2, <1>8 DEF RecoveryInv
<1> QED
  BY <1>3, <1>4, <1>6, <1>7, <1>8
  DEF Next, vars, NoCommand, CheckCommandStatus, NoInjection, Recovered, CheckExpectation,
      EndStep, End, monitorVars, recoveryVars, RecoveryInv, Errors

\* No fault recovers twice, and every fault that triggered has recovered or is about to.
THEOREM FaultsRecoverOnce == Spec => []RecoversOnce
<1>1. Init => RecoveryInv
  BY DEF Init, RecoveryInv, RecoversOnce, IsInjective, Range
<1>2. RecoveryInv => RecoversOnce
  BY DEF RecoveryInv
<1> QED
  BY <1>1, <1>2, RecoveryStep, TypeInvAlways, PTL DEF Spec

---------------------------------------------------------------------------
(* The records of the expectations and the verdict. *)

Unmet == {k \in DOMAIN checks : ~checks[k].passed}

LEMMA VerdictStep ==
  ASSUME TypeInv, VerdictMatchesRecords, [Next]_vars
  PROVE  VerdictMatchesRecords'
<1>1. checks \in Seq(CheckRecord) /\ failed = Cardinality(Unmet)
  BY DEF TypeInv, ChecksOK, CheckRecord, VerdictMatchesRecords, Unmet
<1> PICK N \in Nat : N = Len(checks)
  BY <1>1
<1>2. DOMAIN checks = 1 .. N /\ IsFiniteSet(Unmet)
  <2>1. DOMAIN checks = 1 .. N
    BY <1>1
  <2> QED
    <3>1. IsFiniteSet(1 .. N) /\ Unmet \subseteq 1 .. N
      BY <2>1, FS_Interval DEF Unmet
    <3> QED
      BY <2>1, <3>1, FS_Subset
<1>3. (UNCHANGED checkVars) => VerdictMatchesRecords'
  BY DEF checkVars, VerdictMatchesRecords
<1>4. ASSUME NEW entry \in CheckRecord, Recorded(entry) PROVE VerdictMatchesRecords'
  <2>1. checks' = Append(checks, entry) /\ failed' = IF entry.passed THEN failed ELSE failed + 1
    BY <1>4 DEF Recorded
  <2>2. /\ DOMAIN checks' = 1 .. N + 1 /\ checks'[N + 1] = entry
        /\ \A k \in 1 .. N : checks'[k] = checks[k]
    BY <1>1, <2>1, AppendProperties
  <2>3. Unmet' = IF entry.passed THEN Unmet ELSE Unmet \cup {N + 1}
    BY <1>2, <2>2 DEF Unmet
  <2>4. failed' = Cardinality(Unmet')
    <3>1. N + 1 \notin Unmet
      BY <1>2 DEF Unmet
    <3> QED
      BY <1>1, <1>2, <2>1, <2>3, <3>1, FS_AddElement
  <2>5. Verdict = "PASSED" <=> \A j \in 1 .. N : checks[j].passed
    <3>1. failed = 0 <=> Unmet = {}
      BY <1>1, <1>2, FS_EmptySet
    <3> QED
      BY <1>2, <3>1 DEF Verdict, Unmet
  <2>6. ASSUME NEW k \in 1 .. N + 1, checks'[k].kind = "scenario_status", checks'[k].passed
        PROVE  checks'[k].expected = "PASSED" <=> \A j \in 1 .. k - 1 : checks'[j].passed
    <3>1. CASE k = N + 1
      <4>1. entry.expected = Verdict
        BY <1>4, <2>2, <2>6, <3>1 DEF Recorded
      <4>2. \A j \in 1 .. k - 1 : checks'[j] = checks[j]
        BY <2>2, <3>1
      <4> QED
        BY <2>2, <2>5, <3>1, <4>1, <4>2
    <3>2. CASE k # N + 1
      <4>1. k \in 1 .. N /\ \A j \in 1 .. k - 1 : checks'[j] = checks[j]
        BY <2>2, <3>2
      <4> QED
        BY <1>2, <2>2, <2>6, <4>1 DEF VerdictMatchesRecords
    <3> QED
      BY <3>1, <3>2
  <2> QED
    BY <2>2, <2>4, <2>6 DEF VerdictMatchesRecords, Unmet
<1> QED
  BY <1>3, <1>4, CheckStep DEF TypeInv

\* The count of failed expectations is that of the unmet records, and an expectation on the
\* status of the scenario was met by what the records before it say.
THEOREM VerdictsMatchRecords == Spec => []VerdictMatchesRecords
<1>1. Init => VerdictMatchesRecords
  BY FS_EmptySet DEF Init, VerdictMatchesRecords
<1> QED
  BY <1>1, VerdictStep, TypeInvAlways, PTL DEF Spec

---------------------------------------------------------------------------
(* Every run ends: the steps descend in a well-founded order. *)

Spent == steps + Len(checks)
PhaseRank == [done |-> 0, type_error |-> 0, key_error |-> 0, attribute_error |-> 0, step |-> 1, check |-> 2,
              recover |-> 3, inject |-> 4, status |-> 5]

\* What is left of a run: of the scenario, of the step, of the recoveries, of the auto commands.
Left == <<MaxSteps - Spent, PhaseRank[pc], Cardinality(pending), Len(autos)>>
Less == OpToRel(<, Nat)
Smaller == LexProductOrdering(Less, Nat, 4)

LEMMA LessFacts == /\ IsWellFoundedOn(Less, Nat)
                   /\ \A a, b \in Nat : <<a, b>> \in Less <=> a < b
<1>1. IsWellFoundedOn(Less, Nat)
  BY NatLessThanWellFounded DEF Less
<1>2. \A a, b \in Nat : <<a, b>> \in Less <=> a < b
  BY DEF Less, OpToRel
<1> QED
  BY <1>1, <1>2

LEMMA SmallerIsWellFounded == IsWellFoundedOn(Smaller, [1 .. 4 -> Nat])
  BY LessFacts, WFLexProductOrdering DEF Smaller

LEMMA SmallerAt ==
  ASSUME NEW a \in [1 .. 4 -> Nat], NEW b \in [1 .. 4 -> Nat], NEW k \in 1 .. 4,
         a[k] < b[k], \A j \in 1 .. k - 1 : a[j] = b[j]
  PROVE  <<a, b>> \in Smaller
<1>1. <<a[k], b[k]>> \in Less
  BY LessFacts
<1> QED
  BY <1>1 DEF Smaller, LexProductOrdering

\* A dispatch leads to where the runner goes on, or to an error.
LEMMA DispatchGoesOn ==
  ASSUME NEW c, NEW args, NEW dispatch, NEW then, NEW queue,
         DispatchOrRaise(c, args, dispatch, then, queue)
  PROVE  \/ pc' \in Errors
         \/ pc' = then /\ autos' = queue /\ pending' = pending
<1>1. CASE DispatchError(c, args, dispatch) # "none"
  <2>1. DispatchError(c, args, dispatch) \in Errors
    BY <1>1 DEF DispatchError, Errors
  <2> QED
    BY <1>1, <2>1 DEF DispatchOrRaise, Raise
<1>2. CASE DispatchError(c, args, dispatch) = "none"
  BY <1>2 DEF DispatchOrRaise, DispatchAndApply
<1> QED
  BY <1>1, <1>2

\* A record costs one of the steps and expectations that are left.
LEMMA RecordIsSpent ==
  ASSUME checks \in Seq(CheckRecord), steps \in Nat, steps' = steps,
         NEW kind, NEW expected, NEW met, Record(kind, expected, met)
  PROVE  Spent < MaxSteps /\ Spent' = Spent + 1
<1>1. Len(checks') = Len(checks) + 1
  BY DEF Record
<1> QED
  BY <1>1 DEF Record, Spent

\* The ways in which a step advances: it takes one of the steps and expectations, comes
\* further in the step, takes up a recovery, or dispatches one of its commands.
Takes == Spent < MaxSteps /\ Spent' = Spent + 1
Descends == Spent' = Spent /\ PhaseRank[pc'] < PhaseRank[pc]
TakesUp == /\ UNCHANGED <<steps, checks, pc>>
           /\ \E f \in pending : pending' = pending \ {f}
Dispatches == UNCHANGED <<steps, checks, pc, pending>> /\ autos # <<>> /\ autos' = Tail(autos)

LEMMA StepAdvances ==
  ASSUME TypeInv, Next PROVE Takes \/ Descends \/ TakesUp \/ Dispatches
<1> USE DEF TypeInv, PlaceOK, ChecksOK
<1>1. /\ checks \in Seq(CheckRecord) /\ steps \in Nat
      /\ \A error \in Errors : PhaseRank[error] = 0
      /\ PhaseRank["recover"] = 3 /\ PhaseRank["inject"] = 4 /\ PhaseRank["status"] = 5
      /\ PhaseRank["step"] = 1 /\ PhaseRank["check"] = 2 /\ PhaseRank["done"] = 0
  BY DEF CheckRecord, PhaseRank, Errors
<1>2. (UNCHANGED <<steps, checks>>) => Spent' = Spent
  BY DEF Spent
<1>3. CASE GroundCommand \/ NoCommand
  BY <1>1, <1>3 DEF GroundCommand, NoCommand, checkVars, Takes, Spent
<1>4. CASE CheckCommandStatus
  <2>1. CASE UNCHANGED checkVars
    BY <1>1, <1>2, <1>4, <2>1 DEF CheckCommandStatus, checkVars, Descends
  <2>2. CASE \E expected \in {"ACCEPTED", "REJECTED", "FAILED"} :
               Record("command_status", expected, commands[Len(commands)].status = expected)
    BY <1>1, <1>4, <2>2, RecordIsSpent DEF CheckCommandStatus, Takes
  <2> QED
    BY <1>4, <2>1, <2>2 DEF CheckCommandStatus
<1>5. CASE Inject
  <2>1. pc = "inject" /\ pc' \in Errors \cup {"recover"} /\ UNCHANGED <<steps, checks>>
    BY <1>5 DEF Inject, Raise, Errors, checkVars
  <2> QED
    BY <1>1, <1>2, <2>1 DEF Descends
<1>6. CASE NoInjection \/ Recovered \/ End
  BY <1>1, <1>2, <1>6 DEF NoInjection, Recovered, End, checkVars, Descends
<1>7. CASE ApplyTrigger
  <2>1. /\ pc = "recover" /\ UNCHANGED <<steps, checks>>
        /\ \/ pc' = "key_error"
           \/ UNCHANGED pc /\ \E f \in pending : pending' = pending \ {f}
    BY <1>7 DEF ApplyTrigger, Raise, checkVars
  <2> QED
    BY <1>1, <1>2, <2>1 DEF Descends, TakesUp, Errors
<1>8. CASE AutoCommand
  <2>1. /\ pc = "recover" /\ autos # <<>> /\ UNCHANGED <<steps, checks>>
        /\ \/ pc' \in Errors
           \/ pc' = "recover" /\ autos' = Tail(autos) /\ pending' = pending
    BY <1>8, DispatchGoesOn DEF AutoCommand, checkVars
  <2> QED
    BY <1>1, <1>2, <2>1 DEF Descends, Dispatches
<1>9. CASE CheckExpectation
  <2>1. UNCHANGED steps /\ \E kind, expected, met : Record(kind, expected, met)
    BY <1>9 DEF CheckExpectation, CheckEvent, CheckMode, CheckCommand, CheckTelemetry,
                CheckLifecycle, CheckDataFlow
  <2> QED
    BY <1>1, <2>1, RecordIsSpent DEF Takes
<1>10. CASE EndStep
  <2>1. CASE UNCHANGED checkVars
    BY <1>1, <1>2, <1>10, <2>1 DEF EndStep, checkVars, Descends
  <2>2. CASE \E expected \in {"PASSED", "FAILED"} :
               Record("scenario_status", expected, Verdict = expected)
    BY <1>1, <1>10, <2>2, RecordIsSpent DEF EndStep, Takes
  <2> QED
    BY <1>10, <2>1, <2>2 DEF EndStep
<1> QED
  BY <1>3, <1>4, <1>5, <1>6, <1>7, <1>8, <1>9, <1>10 DEF Next

SpentInv == Spent \in 0 .. MaxSteps
LeftOK == Left \in [1 .. 4 -> Nat]
Shrinks == <<Left', Left>> \in Smaller

LEMMA PendingIsFinite == ASSUME TypeInv PROVE IsFiniteSet(pending)
<1>1. FaultIds = 1 .. Len(mission.faults) /\ Len(mission.faults) \in Nat
  BY FaultShape DEF TypeInv, PlaceOK
<1>2. IsFiniteSet(FaultIds)
  BY <1>1, FS_Interval
<1>3. pending \subseteq FaultIds
  BY DEF TypeInv, MonitorOK
<1> QED
  BY <1>2, <1>3, FS_Subset

LEMMA LeftIsNatural == ASSUME TypeInv, SpentInv PROVE LeftOK
<1>1. MaxSteps - Spent \in Nat
  BY ScenarioAssumption DEF SpentInv
<1>2. PhaseRank[pc] \in Nat
  BY DEF TypeInv, PlaceOK, Errors, PhaseRank
<1>3. Cardinality(pending) \in Nat
  BY PendingIsFinite, FS_CardinalityType
<1>4. Len(autos) \in Nat
  BY DEF TypeInv, MonitorOK
<1> QED
  BY <1>1, <1>2, <1>3, <1>4 DEF Left, LeftOK

LEMMA SpentStep == ASSUME TypeInv, SpentInv, [Next]_vars PROVE SpentInv'
<1>1. CASE UNCHANGED vars
  BY <1>1 DEF vars, checkVars, SpentInv, Spent
<1>2. CASE Next
  <2>1. (UNCHANGED <<steps, checks>>) => Spent' = Spent
    BY DEF Spent
  <2> QED
    BY <1>2, <2>1, StepAdvances, ScenarioAssumption
    DEF Takes, Descends, TakesUp, Dispatches, SpentInv
<1> QED
  BY <1>1, <1>2

LEMMA LeftShrinks ==
  ASSUME TypeInv, SpentInv, SpentInv', LeftOK, LeftOK', Next PROVE Shrinks
<1> USE DEF Shrinks, LeftOK
<1>1. /\ Left[1] = MaxSteps - Spent /\ Left'[1] = MaxSteps - Spent'
      /\ Left[2] = PhaseRank[pc] /\ Left'[2] = PhaseRank[pc']
      /\ Left[3] = Cardinality(pending) /\ Left'[3] = Cardinality(pending')
      /\ Left[4] = Len(autos) /\ Left'[4] = Len(autos')
  BY DEF Left
<1>2. Spent \in Nat /\ Spent' \in Nat /\ MaxSteps \in Nat
  BY ScenarioAssumption DEF SpentInv
<1>3. CASE Takes
  <2>1. Left'[1] < Left[1]
    BY <1>1, <1>2, <1>3 DEF Takes
  <2> QED
    BY <2>1, SmallerAt
<1>4. CASE Descends
  <2>1. Left'[1] = Left[1] /\ Left'[2] < Left[2]
    BY <1>1, <1>4 DEF Descends
  <2> QED
    BY <2>1, SmallerAt
<1>5. CASE TakesUp
  <2>1. PICK f \in pending : pending' = pending \ {f}
    BY <1>5 DEF TakesUp
  <2>2. Cardinality(pending') < Cardinality(pending)
    BY <2>1, PendingIsFinite, OneFewer
  <2>3. Left'[1] = Left[1] /\ Left'[2] = Left[2] /\ Left'[3] < Left[3]
    BY <1>1, <1>5, <2>2 DEF TakesUp, Spent
  <2> QED
    BY <2>3, SmallerAt
<1>6. CASE Dispatches
  <2>1. Len(autos') < Len(autos)
    BY <1>6, HeadTailProperties DEF Dispatches, TypeInv, MonitorOK
  <2>2. Left'[1] = Left[1] /\ Left'[2] = Left[2] /\ Left'[3] = Left[3] /\ Left'[4] < Left[4]
    BY <1>1, <1>6, <2>1 DEF Dispatches, Spent
  <2> QED
    BY <2>2, SmallerAt
<1> QED
  BY <1>3, <1>4, <1>5, <1>6, StepAdvances

\* No run goes on for ever, whatever the mission, the faults and the commands that recover
\* them: each step of the runner is smaller in a well-founded order (sim/runner.py:
\* ScenarioRunner.run, _apply_fault_triggers).
THEOREM EveryStepAdvances ==
  /\ IsWellFoundedOn(Smaller, [1 .. 4 -> Nat])
  /\ Spec => []LeftOK /\ [][Shrinks]_vars
<1>1. Init => SpentInv
  BY ScenarioAssumption DEF Init, SpentInv, Spent
<1>2. TypeInv /\ SpentInv => LeftOK
  BY LeftIsNatural
<1>3. TypeInv /\ SpentInv /\ SpentInv' /\ LeftOK /\ LeftOK' /\ [Next]_vars => [Shrinks]_vars
  <2>1. TypeInv /\ SpentInv /\ SpentInv' /\ LeftOK /\ LeftOK' /\ Next => Shrinks
    BY LeftShrinks
  <2> QED
    BY <2>1
<1>4. Spec => [](TypeInv /\ SpentInv)
  BY <1>1, SpentStep, TypeInvAlways, PTL DEF Spec
<1>5. Spec => []LeftOK /\ [][Shrinks]_vars
  BY <1>2, <1>3, <1>4, PTL DEF Spec
<1> QED
  BY <1>5, SmallerIsWellFounded

---------------------------------------------------------------------------
(* The debounce. *)

HeldAt(f, k) == snapshots[k][Fault(f).watches] \in Fault(f).holds

\* The counter of a fault that has not triggered is the length of the longest run of
\* evaluations up to the last that its condition was true at.
CounterInv ==
  \A f \in FaultIds \ triggered :
    LET n == Len(snapshots) IN
    /\ \A k \in (n + 1 - counters[f]) .. n : HeldAt(f, k)
    /\ counters[f] < n => ~HeldAt(f, n - counters[f])

\* A fault has been true at as many evaluations in a row as its debounce asks for.
Window(f, last) ==
  LET d == IF Debounce(f) < 0 THEN 0 ELSE Debounce(f)
  IN  last >= d /\ \A k \in (last + 1 - d) .. last : HeldAt(f, k)

LEMMA EvaluateStep ==
  ASSUME TypeInv, CounterInv, TriggersAreDebounced, UNCHANGED constVars,
         NEW seen \in Sample, Evaluate(seen)
  PROVE  CounterInv' /\ TriggersAreDebounced'
<1> DEFINE Now(f, k) == snapshots'[k][Fault(f).watches] \in Fault(f).holds
<1> PICK N \in Nat : N = Len(snapshots)
  BY DEF TypeInv, MonitorOK
<1>1. /\ DOMAIN snapshots = 1 .. N /\ DOMAIN snapshots' = 1 .. N + 1 /\ Len(snapshots') = N + 1
      /\ snapshots'[N + 1] = seen /\ \A k \in 1 .. N : snapshots'[k] = snapshots[k]
  <2>1. snapshots \in Seq(Sample) /\ snapshots' = Append(snapshots, seen)
    BY DEF Evaluate, TypeInv, MonitorOK
  <2>2. snapshots' \in Seq(Sample) /\ Len(snapshots') = N + 1
    BY <2>1, AppendProperties
  <2> QED
    BY <2>1, <2>2, AppendProperties
<1>2. FaultIds' = FaultIds
  BY DEF FaultIds, constVars
<1>3. \A f \in FaultIds : /\ Debounce(f)' = Debounce(f) /\ Debounce(f) \in Int /\ Debounce(f) # 0
                          /\ Fault(f)' = Fault(f)
  BY FaultShape DEF Debounce, Fault, constVars, IsFault, TypeInv, PlaceOK
<1>4. \A f \in FaultIds : \A k \in 1 .. N : Now(f, k) <=> HeldAt(f, k)
  BY <1>1, <1>3 DEF HeldAt
<1>5. \A f \in FaultIds : Now(f, N + 1) <=> seen[Fault(f).watches] \in Fault(f).holds
  BY <1>1, <1>3 DEF HeldAt
<1>6. \A f \in FaultIds : counters[f] \in Nat /\ counters[f] <= N
  BY DEF TypeInv, MonitorOK, SampleInv
<1>7. ASSUME NEW f \in FaultIds \ triggered
      PROVE  /\ counters'[f] = IF Now(f, N + 1) THEN counters[f] + 1 ELSE 0
             /\ counters'[f] \in Nat /\ counters'[f] <= N + 1
             /\ \A k \in (N + 2 - counters'[f]) .. N + 1 : Now(f, k)
             /\ counters'[f] < N + 1 => ~Now(f, N + 1 - counters'[f])
  <2>1. counters'[f] = IF Now(f, N + 1) THEN counters[f] + 1 ELSE 0
    BY <1>5 DEF Evaluate, Count
  <2>2. /\ \A k \in (N + 1 - counters[f]) .. N : HeldAt(f, k)
        /\ counters[f] < N => ~HeldAt(f, N - counters[f])
    BY DEF CounterInv
  <2>3. CASE Now(f, N + 1)
    <3>1. counters'[f] = counters[f] + 1
      BY <2>1, <2>3
    <3>2. \A k \in (N + 2 - counters'[f]) .. N + 1 : Now(f, k)
      BY <1>4, <1>6, <2>2, <2>3, <3>1
    <3>3. ASSUME counters'[f] < N + 1 PROVE ~Now(f, N + 1 - counters'[f])
      <4>1. N + 1 - counters'[f] = N - counters[f] /\ N - counters[f] \in 1 .. N
        BY <1>6, <3>1, <3>3
      <4> QED
        BY <1>4, <1>6, <2>2, <4>1
    <3> QED
      BY <1>6, <2>1, <3>1, <3>2, <3>3
  <2>4. CASE ~Now(f, N + 1)
    BY <2>1, <2>4
  <2> QED
    BY <2>3, <2>4
<1>8. CounterInv'
  <2>1. triggered \subseteq triggered'
    BY DEF Evaluate, Remember
  <2> HIDE DEF Now
  <2> DEFINE Runs(f, n) == \A k \in (n + 1 - counters'[f]) .. n : Now(f, k)
             Stops(f, n) == counters'[f] < n => ~Now(f, n - counters'[f])
  <2>2. ASSUME NEW f \in FaultIds \ triggered PROVE Runs(f, N + 1) /\ Stops(f, N + 1)
    <3>1. counters'[f] \in Nat /\ \A k \in (N + 2 - counters'[f]) .. N + 1 : Now(f, k)
      BY <1>7
    <3>2. Runs(f, N + 1)
      BY <3>1
    <3>3. Stops(f, N + 1)
      BY <1>7
    <3> QED
      BY <3>2, <3>3
  <2>3. ASSUME NEW f \in FaultIds \ triggered
        PROVE  Runs(f, Len(snapshots')) /\ Stops(f, Len(snapshots'))
    <3> HIDE DEF Runs, Stops
    <3> QED
      BY <1>1, <2>2
  <2>4. \A f \in FaultIds : Fault(f)' = Fault(f)
    BY <1>3
  <2> QED
    BY <1>2, <2>1, <2>3, <2>4 DEF CounterInv, HeldAt, Now
<1>9. \A f \in FaultIds : f \in triggered <=> \E last \in 1 .. N : Window(f, last)
  BY <1>1 DEF TriggersAreDebounced, Window, HeldAt
<1>10. \A f \in FaultIds : \A last \in 1 .. N : Window(f, last)' <=> Window(f, last)
  BY <1>3, <1>4 DEF Window, HeldAt
<1>11. ASSUME NEW f \in FaultIds
       PROVE  f \in triggered' <=> \E last \in 1 .. N + 1 : Window(f, last)'
  <2>1. CASE f \in triggered
    BY <1>9, <1>10, <2>1 DEF Evaluate, Remember
  <2>2. CASE f \notin triggered
    <3>1. f \in triggered' <=> counters'[f] >= Debounce(f)
      BY <2>2 DEF Evaluate, Remember, Triggers, Debounced
    <3>2. (\E last \in 1 .. N + 1 : Window(f, last)') <=> Window(f, N + 1)'
      BY <1>9, <1>10, <2>2
    <3> DEFINE d == IF Debounce(f) < 0 THEN 0 ELSE Debounce(f)
    <3>3. Window(f, N + 1)' <=> N + 1 >= d /\ \A k \in (N + 2 - d) .. N + 1 : Now(f, k)
      BY <1>3, <2>2 DEF Window, HeldAt
    <3>4. Window(f, N + 1)' <=> counters'[f] >= Debounce(f)
      <4>1. CASE Debounce(f) < 0
        <5>1. Window(f, N + 1)'
          BY <3>3, <4>1
        <5>2. counters'[f] >= Debounce(f)
          BY <1>3, <1>7, <2>2, <4>1
        <5> QED
          BY <5>1, <5>2
      <4>2. CASE Debounce(f) > counters'[f]
        <5>1. ASSUME Debounce(f) <= N + 1
              PROVE  /\ N + 1 - counters'[f] \in (N + 2 - Debounce(f)) .. N + 1
                     /\ ~Now(f, N + 1 - counters'[f])
          BY <1>3, <1>7, <2>2, <4>2, <5>1
        <5> QED
          BY <1>3, <1>7, <2>2, <3>3, <4>2, <5>1
      <4>3. CASE Debounce(f) > 0 /\ Debounce(f) <= counters'[f]
        BY <1>3, <1>7, <2>2, <3>3, <4>3
      <4> QED
        BY <1>3, <1>7, <2>2, <4>1, <4>2, <4>3
    <3> QED
      BY <3>1, <3>2, <3>4
  <2> QED
    BY <2>1, <2>2
<1>12. TriggersAreDebounced'
  BY <1>1, <1>2, <1>11 DEF TriggersAreDebounced, Window, HeldAt
<1> QED
  BY <1>8, <1>12

LEMMA DebounceStep ==
  ASSUME TypeInv, CounterInv, TriggersAreDebounced, [Next]_vars
  PROVE  CounterInv' /\ TriggersAreDebounced'
<1>1. UNCHANGED constVars
  BY StepEffects
<1>2. ASSUME UNCHANGED monitorVars PROVE CounterInv' /\ TriggersAreDebounced'
  BY <1>1, <1>2 DEF constVars, monitorVars, CounterInv, TriggersAreDebounced, FaultIds, Fault,
                    Debounce, HeldAt
<1>3. CASE Inject
  <2>1. PICK injected \in Injections :
          \/ UNCHANGED monitorVars
          \/ Evaluate([telemetry EXCEPT ![injected[1]] = injected[2]])
    BY <1>3 DEF Inject
  <2>2. [telemetry EXCEPT ![injected[1]] = injected[2]] \in Sample
    BY ScenarioAssumption DEF TypeInv, EffectsOK, Sample
  <2> QED
    BY <1>1, <1>2, <2>1, <2>2, EvaluateStep
<1>4. ~Inject => UNCHANGED monitorVars
  BY DEF Next, vars, GroundCommand, NoCommand, CheckCommandStatus, NoInjection, ApplyTrigger,
         AutoCommand, Recovered, CheckExpectation, EndStep, End
<1> QED
  BY <1>2, <1>3, <1>4

\* The counters implement the debounce: a fault has triggered exactly if its condition was
\* true at as many evaluations in a row as its debounce asks for.
THEOREM TriggersDebounced == Spec => []TriggersAreDebounced
<1>1. Init => CounterInv /\ TriggersAreDebounced
  BY DEF Init, CounterInv, TriggersAreDebounced
<1> QED
  BY <1>1, DebounceStep, TypeInvAlways, PTL DEF Spec

---------------------------------------------------------------------------
(* Counting what a sequence holds. *)

\* The positions of x in s.
At(x, s) == {k \in DOMAIN s : s[k] = x}

LEMMA AtIsFinite ==
  ASSUME NEW S, NEW s \in Seq(S), NEW x
  PROVE  IsFiniteSet(At(x, s)) /\ Occurrences(x, s) = Cardinality(At(x, s))
         /\ Occurrences(x, s) \in Nat
<1>1. At(x, s) \subseteq 1 .. Len(s) /\ Len(s) \in Nat
  BY DEF At
<1>2. IsFiniteSet(At(x, s))
  <2>1. IsFiniteSet(1 .. Len(s))
    BY <1>1, FS_Interval
  <2> QED
    BY <1>1, <2>1, FS_Subset
<1>3. Occurrences(x, s) = Cardinality(At(x, s))
  BY DEF Occurrences, At
<1> QED
  BY <1>2, <1>3, FS_CardinalityType

\* Moving a set of numbers does not change its size.
LEMMA ShiftedSize ==
  ASSUME NEW P \in SUBSET Nat, IsFiniteSet(P), NEW n \in Nat
  PROVE  IsFiniteSet({k + n : k \in P}) /\ Cardinality({k + n : k \in P}) = Cardinality(P)
<1> DEFINE Q == {k + n : k \in P}
           move == [k \in P |-> k + n]
<1>1. move \in Bijection(P, Q)
  BY DEF Bijection, Injection, Surjection, IsInjective
<1>2. ExistsBijection(P, Q)
  BY <1>1, Zenon DEF ExistsBijection
<1> QED
  BY <1>2, FS_Bijection

LEMMA DisjointSize ==
  ASSUME NEW S, NEW T, IsFiniteSet(S), IsFiniteSet(T), S \cap T = {}
  PROVE  Cardinality(S \cup T) = Cardinality(S) + Cardinality(T)
<1>1. Cardinality(S \cap T) = 0 /\ Cardinality(S) \in Nat /\ Cardinality(T) \in Nat
  BY FS_EmptySet, FS_CardinalityType
<1>2. Cardinality(S \cup T) = Cardinality(S) + Cardinality(T) - Cardinality(S \cap T)
  BY FS_Union
<1> QED
  BY <1>1, <1>2

\* One sequence after the other.
LEMMA OccurrencesConcat ==
  ASSUME NEW S, NEW s \in Seq(S), NEW t \in Seq(S), NEW x
  PROVE  Occurrences(x, s \o t) = Occurrences(x, s) + Occurrences(x, t)
<1> PICK m \in Nat, n \in Nat : m = Len(s) /\ n = Len(t)
  OBVIOUS
<1>1. /\ s \o t \in Seq(S) /\ DOMAIN (s \o t) = 1 .. m + n
      /\ \A k \in 1 .. m + n : (s \o t)[k] = IF k <= m THEN s[k] ELSE t[k - m]
  BY ConcatProperties
<1>2. DOMAIN s = 1 .. m /\ DOMAIN t = 1 .. n
  OBVIOUS
<1> DEFINE moved == {k + m : k \in At(x, t)}
<1>3. At(x, s \o t) = At(x, s) \cup moved
  <2>1. ASSUME NEW k \in At(x, s \o t) PROVE k \in At(x, s) \cup moved
    <3>1. k \in 1 .. m + n /\ (s \o t)[k] = x
      BY <1>1, <2>1 DEF At
    <3>2. CASE k <= m
      BY <1>1, <1>2, <3>1, <3>2 DEF At
    <3>3. CASE ~(k <= m)
      <4>1. k - m \in At(x, t) /\ k = (k - m) + m
        BY <1>1, <1>2, <3>1, <3>3 DEF At
      <4> QED
        BY <4>1
    <3> QED
      BY <3>2, <3>3
  <2>2. ASSUME NEW k \in At(x, s) PROVE k \in At(x, s \o t)
    BY <1>1, <1>2, <2>2 DEF At
  <2>3. ASSUME NEW k \in At(x, t) PROVE k + m \in At(x, s \o t)
    <3>1. k \in 1 .. n /\ t[k] = x
      BY <1>2 DEF At
    <3>2. k + m \in 1 .. m + n /\ ~(k + m <= m) /\ (k + m) - m = k
      BY <3>1
    <3> QED
      BY <1>1, <3>1, <3>2 DEF At
  <2> QED
    BY <2>1, <2>2, <2>3
<1>4. At(x, s) \cap moved = {}
  BY <1>2 DEF At
<1>5. At(x, t) \in SUBSET Nat
  BY <1>2 DEF At
<1>6. IsFiniteSet(At(x, s)) /\ IsFiniteSet(At(x, t))
  BY AtIsFinite
<1>7. IsFiniteSet(moved) /\ Cardinality(moved) = Cardinality(At(x, t))
  BY <1>5, <1>6, ShiftedSize
<1> HIDE DEF moved
<1>8. Cardinality(At(x, s \o t)) = Cardinality(At(x, s)) + Cardinality(At(x, t))
  BY <1>3, <1>4, <1>6, <1>7, DisjointSize
<1> QED
  BY <1>1, <1>8, AtIsFinite

LEMMA OccurrencesSingle ==
  \A x, y : Occurrences(x, <<y>>) = IF x = y THEN 1 ELSE 0
<1> SUFFICES ASSUME NEW x, NEW y
             PROVE  Occurrences(x, <<y>>) = IF x = y THEN 1 ELSE 0
  OBVIOUS
<1>1. At(x, <<y>>) = IF x = y THEN {1} ELSE {}
  BY DEF At
<1> QED
  BY <1>1, FS_Singleton, FS_EmptySet DEF Occurrences, At

\* The first entry and the rest.
LEMMA OccurrencesTail ==
  ASSUME NEW S, NEW s \in Seq(S), s # <<>>, NEW x
  PROVE  Occurrences(x, s) = (IF Head(s) = x THEN 1 ELSE 0) + Occurrences(x, Tail(s))
<1>1. Head(s) \in S /\ Tail(s) \in Seq(S)
  BY HeadTailProperties
<1>2. <<Head(s)>> \in Seq(S) /\ s = <<Head(s)>> \o Tail(s)
  BY <1>1, HeadTailProperties
<1>3. Occurrences(x, s) = Occurrences(x, <<Head(s)>>) + Occurrences(x, Tail(s))
  BY <1>1, <1>2, OccurrencesConcat
<1>4. Occurrences(x, <<Head(s)>>) = IF x = Head(s) THEN 1 ELSE 0
  BY OccurrencesSingle
<1> QED
  BY <1>3, <1>4

LEMMA OccurrencesNone == \A x : Occurrences(x, <<>>) = 0
BY FS_EmptySet DEF Occurrences

---------------------------------------------------------------------------
(* The accounts of events and auto commands. *)

\* How often each executed command, and each recovery, declares an event.
ExecutedAt == {k \in DOMAIN commands : Executed(commands[k].status)}
ByCommand(e) == [k \in ExecutedAt |-> Occurrences(e, mission.commands[commands[k].id].emits)]
ByFault(e) == [k \in DOMAIN applied |-> Occurrences(e, Fault(applied[k]).emits)]
AutosByFault(c) == [k \in DOMAIN applied |-> Occurrences(c, Fault(applied[k]).autos)]
AutoAt(c) == {k \in DOMAIN commands : commands[k].id = c /\ commands[k].dispatch = "AUTO"}

\* What a step does to the event log, the commands and the recoveries: nothing, or it logs
\* a command, which emits its events if it was executed, or a fault recovers and emits its own.
Unheard == UNCHANGED <<events, commands, autos, applied>>
Logged(entry) ==
  /\ commands' = Append(commands, entry) /\ applied' = applied
  /\ Executed(entry.status) =>
       /\ entry.id \in DOMAIN mission.commands
       /\ events' = events \o mission.commands[entry.id].emits
  /\ ~Executed(entry.status) => events' = events
  /\ \/ entry.dispatch = "GROUND" /\ autos' = autos
     \/ entry.dispatch = "AUTO" /\ autos # <<>> /\ entry.id = Head(autos) /\ autos' = Tail(autos)
Recovers(f) ==
  /\ events' = events \o Fault(f).emits /\ commands' = commands
  /\ autos = <<>> /\ autos' = Fault(f).autos /\ applied' = Append(applied, f)

LEMMA DispatchLogs ==
  ASSUME NEW c \in Commands, NEW args, NEW dispatch \in {"GROUND", "AUTO"}, NEW then, NEW queue,
         DispatchOrRaise(c, args, dispatch, then, queue),
         \/ dispatch = "GROUND" /\ queue = autos
         \/ dispatch = "AUTO" /\ autos # <<>> /\ c = Head(autos) /\ queue = Tail(autos)
  PROVE  Unheard \/ \E entry \in Entry : Logged(entry)
<1> DEFINE entry == [id |-> c, status |-> Status(c, args, dispatch), dispatch |-> dispatch]
<1>1. CASE DispatchError(c, args, dispatch) # "none"
  BY <1>1 DEF DispatchOrRaise, Raise, effectVars, recoveryVars, Unheard
<1>2. CASE DispatchError(c, args, dispatch) = "none"
  <2>1. DispatchAndApply(c, args, dispatch, then) /\ autos' = queue /\ applied' = applied
    BY <1>2 DEF DispatchOrRaise
  <2>2. entry \in Entry
    BY DEF Entry, Status
  <2>3. Executed(entry.status) => c \in DOMAIN mission.commands
    BY DEF Executed, Status
  <2>4. commands' = Append(commands, entry)
    BY <2>1 DEF DispatchAndApply
  <2>5. Executed(entry.status) => events' = events \o mission.commands[c].emits
    BY <2>1 DEF DispatchAndApply, EffectsIfExecuted, ApplyEffects
  <2>6. ~Executed(entry.status) => events' = events
    BY <2>1 DEF DispatchAndApply, EffectsIfExecuted, effectVars
  <2>7. Logged(entry)
    BY <2>1, <2>3, <2>4, <2>5, <2>6 DEF Logged
  <2> QED
    BY <2>2, <2>7
<1> QED
  BY <1>1, <1>2

LEMMA StepLogs ==
  ASSUME TypeInv, [Next]_vars
  PROVE  /\ mission' = mission
         /\ Unheard \/ (\E entry \in Entry : Logged(entry)) \/ \E f \in FaultIds : Recovers(f)
<1>1. CASE GroundCommand
  <2>1. PICK c \in DOMAIN mission.commands, args \in {"right", "wrong", "uncomparable"} :
          DispatchOrRaise(c, args, "GROUND", "status", autos)
    BY <1>1 DEF GroundCommand, GroundArgs
  <2>2. c \in Commands
    BY EffectShape DEF TypeInv, PlaceOK
  <2>3. mission' = mission
    BY <1>1 DEF GroundCommand, constVars
  <2> QED
    BY <2>1, <2>2, <2>3, DispatchLogs
<1>2. CASE AutoCommand
  <2>1. Head(autos) \in Commands /\ autos # <<>>
    BY <1>2, HeadTailProperties DEF AutoCommand, TypeInv, MonitorOK
  <2>2. mission' = mission
    BY <1>2 DEF AutoCommand, constVars
  <2>3. DispatchOrRaise(Head(autos), AutoArgs(Head(autos)), "AUTO", "recover", Tail(autos))
    BY <1>2 DEF AutoCommand
  <2> QED
    BY <2>1, <2>2, <2>3, DispatchLogs
<1>3. CASE Inject
  <2>1. mission' = mission
    BY <1>3 DEF Inject, constVars
  <2>2. Unheard
    BY <1>3 DEF Inject, Raise, effectVars, recoveryVars, Unheard
  <2> QED
    BY <2>1, <2>2
<1>4. CASE ApplyTrigger
  <2>1. PICK f \in pending :
          \/ Raise("key_error")
          \/ /\ events' = events \o Fault(f).emits /\ autos' = Fault(f).autos
             /\ applied' = Append(applied, f) /\ UNCHANGED <<pc, lifecycle, evidence, commands>>
    BY <1>4 DEF ApplyTrigger
  <2>2. f \in FaultIds /\ mission' = mission /\ autos = <<>>
    BY <1>4 DEF TypeInv, MonitorOK, ApplyTrigger, constVars
  <2>3. Unheard \/ Recovers(f)
    BY <2>1, <2>2 DEF Raise, effectVars, recoveryVars, Unheard, Recovers
  <2> QED
    BY <2>2, <2>3
<1>5. CASE UNCHANGED <<constVars, effectVars, commands, recoveryVars>>
  BY <1>5 DEF constVars, effectVars, recoveryVars, Unheard
<1> QED
  BY <1>1, <1>2, <1>3, <1>4, <1>5
  DEF Next, vars, NoCommand, CheckCommandStatus, NoInjection, Recovered, CheckExpectation,
      EndStep, End

\* An entry more in the command log.
LEMMA LoggedCommands ==
  ASSUME TypeInv, mission' = mission, NEW entry \in Entry, Logged(entry),
         \A k \in ExecutedAt : commands[k].id \in DOMAIN mission.commands
  PROVE  \E N \in Nat :
           /\ DOMAIN commands = 1 .. N /\ DOMAIN commands' = 1 .. N + 1
           /\ commands'[N + 1] = entry /\ \A k \in 1 .. N : commands'[k] = commands[k]
           /\ ExecutedAt \subseteq 1 .. N /\ IsFiniteSet(ExecutedAt)
           /\ ExecutedAt' = IF Executed(entry.status) THEN ExecutedAt \cup {N + 1}
                                                      ELSE ExecutedAt
           /\ \A k \in ExecutedAt' : commands'[k].id \in DOMAIN mission.commands
<1> PICK N \in Nat : N = Len(commands)
  BY DEF TypeInv, EffectsOK
<1>1. /\ DOMAIN commands = 1 .. N /\ DOMAIN commands' = 1 .. N + 1
      /\ commands'[N + 1] = entry /\ \A k \in 1 .. N : commands'[k] = commands[k]
  <2>1. commands \in Seq(Entry) /\ commands' = Append(commands, entry)
    BY DEF TypeInv, EffectsOK, Logged
  <2> QED
    BY <2>1, AppendProperties
<1>2. ExecutedAt \subseteq 1 .. N /\ IsFiniteSet(ExecutedAt)
  <2>1. ExecutedAt \subseteq 1 .. N
    BY <1>1 DEF ExecutedAt
  <2>2. IsFiniteSet(1 .. N)
    BY FS_Interval
  <2> QED
    BY <2>1, <2>2, FS_Subset
<1>3. ExecutedAt' = IF Executed(entry.status) THEN ExecutedAt \cup {N + 1} ELSE ExecutedAt
  BY <1>1 DEF ExecutedAt, Executed
<1>4. \A k \in ExecutedAt' : commands'[k].id \in DOMAIN mission.commands
  BY <1>1, <1>2, <1>3 DEF Logged
<1> QED
  BY <1>1, <1>2, <1>3, <1>4

\* The sum over the executed ones grows by its events.
LEMMA LoggedSums ==
  ASSUME TypeInv, mission' = mission, NEW e \in Events, NEW entry \in Entry, Logged(entry),
         \A k \in ExecutedAt : commands[k].id \in DOMAIN mission.commands
  PROVE  /\ SumFunction(ByCommand(e)) \in Nat
         /\ ~Executed(entry.status) => ByCommand(e)' = ByCommand(e)
         /\ Executed(entry.status) =>
              SumFunction(ByCommand(e)') =
                SumFunction(ByCommand(e)) + Occurrences(e, mission.commands[entry.id].emits)
<1> PICK N \in Nat :
      /\ DOMAIN commands = 1 .. N /\ DOMAIN commands' = 1 .. N + 1
      /\ commands'[N + 1] = entry /\ \A k \in 1 .. N : commands'[k] = commands[k]
      /\ ExecutedAt \subseteq 1 .. N /\ IsFiniteSet(ExecutedAt)
      /\ ExecutedAt' = IF Executed(entry.status) THEN ExecutedAt \cup {N + 1} ELSE ExecutedAt
      /\ \A k \in ExecutedAt' : commands'[k].id \in DOMAIN mission.commands
  BY LoggedCommands
<1>1. commands'[N + 1] = entry
  OBVIOUS
<1>2. N + 1 \notin ExecutedAt /\ IsFiniteSet(ExecutedAt)
  OBVIOUS
<1>3. ExecutedAt' = IF Executed(entry.status) THEN ExecutedAt \cup {N + 1} ELSE ExecutedAt
  OBVIOUS
<1>4. \A k \in ExecutedAt : commands'[k] = commands[k]
  OBVIOUS
<1>5. \A k \in ExecutedAt' : commands'[k].id \in DOMAIN mission.commands
  OBVIOUS
<1>6. ASSUME NEW c \in DOMAIN mission.commands
      PROVE  Occurrences(e, mission.commands[c].emits) \in Nat
  <2>1. mission.commands[c].emits \in Seq(Events)
    BY EffectShape DEF TypeInv, PlaceOK, IsEffect
  <2> QED
    BY <2>1, AtIsFinite
<1> DEFINE f == ByCommand(e)
           g == ByCommand(e)'
<1>7. DOMAIN f = ExecutedAt /\ \A k \in DOMAIN f : f[k] \in Nat
  BY <1>6 DEF ByCommand
<1>8. /\ DOMAIN g = ExecutedAt'
      /\ \A k \in DOMAIN g : g[k] = Occurrences(e, mission.commands[commands'[k].id].emits)
  BY DEF ByCommand, Occurrences
<1>9. \A k \in DOMAIN g : g[k] \in Nat
  BY <1>5, <1>6, <1>8
<1>10. \A k \in DOMAIN f : k \in DOMAIN g /\ g[k] = f[k]
  BY <1>3, <1>4, <1>7, <1>8 DEF ByCommand
<1>11. ASSUME ~Executed(entry.status) PROVE g = f
  <2>1. DOMAIN g = DOMAIN f
    BY <1>3, <1>7, <1>8, <1>11
  <2> QED
    BY <1>10, <2>1 DEF ByCommand
<1>12. ASSUME Executed(entry.status)
       PROVE  SumFunction(g) = SumFunction(f) + Occurrences(e, mission.commands[entry.id].emits)
  <2>1. DOMAIN g = DOMAIN f \cup {N + 1} /\ N + 1 \notin DOMAIN f /\ IsFiniteSet(DOMAIN f)
    BY <1>2, <1>3, <1>7, <1>8, <1>12
  <2>2. g[N + 1] = Occurrences(e, mission.commands[entry.id].emits)
    BY <1>1, <1>8, <2>1
  <2> HIDE DEF f, g
  <2>3. SumFunction(g) = SumFunction(f) + g[N + 1]
    BY <1>9, <1>10, <2>1, SumOfOneMore
  <2> QED
    BY <2>2, <2>3
<1>13. SumFunction(f) \in Nat
  BY <1>2, <1>7, SumIsNat
<1> QED
  BY <1>11, <1>12, <1>13

\* A recovery more: a sum over the recoveries grows by what the fault declares.
Along(s, n) == [k \in DOMAIN s |-> n[s[k]]]

LEMMA RecoverySums ==
  ASSUME NEW F, NEW s \in Seq(F), NEW f \in F, NEW n, \A g \in F : n[g] \in Nat
  PROVE  /\ SumFunction(Along(s, n)) \in Nat
         /\ SumFunction(Along(Append(s, f), n)) = SumFunction(Along(s, n)) + n[f]
<1> DEFINE t == Append(s, f)
           before == Along(s, n)
           after == Along(t, n)
<1>0. /\ DOMAIN before = DOMAIN s /\ DOMAIN after = DOMAIN t
      /\ \A k \in DOMAIN s : before[k] = n[s[k]]
      /\ \A k \in DOMAIN t : after[k] = n[t[k]]
  BY DEF Along
<1> HIDE DEF before, after
<1> PICK N \in Nat : N = Len(s)
  OBVIOUS
<1>1. /\ DOMAIN s = 1 .. N /\ DOMAIN t = 1 .. N + 1 /\ t[N + 1] = f
      /\ \A k \in 1 .. N : t[k] = s[k] /\ s[k] \in F
  BY AppendProperties
<1>2. IsFiniteSet(1 .. N) /\ N + 1 \notin 1 .. N /\ 1 .. N + 1 = (1 .. N) \cup {N + 1}
  <2>1. IsFiniteSet(1 .. N)
    BY FS_Interval
  <2> QED
    BY <2>1
<1> HIDE DEF t
<1>3. \A k \in 1 .. N : before[k] \in Nat /\ after[k] = before[k]
  BY <1>0, <1>1, <1>2
<1>4. after[N + 1] = n[f]
  BY <1>0, <1>1
<1>5. \A k \in DOMAIN after : after[k] \in Nat
  BY <1>0, <1>1, <1>2, <1>3, <1>4
<1>6. N + 1 \notin DOMAIN before /\ IsFiniteSet(DOMAIN before)
  BY <1>0, <1>1, <1>2
<1>7. DOMAIN after = DOMAIN before \cup {N + 1}
  BY <1>0, <1>1, <1>2
<1>8. \A k \in DOMAIN before : after[k] = before[k]
  BY <1>0, <1>1, <1>3
<1>9. SumFunction(after) = SumFunction(before) + after[N + 1]
  BY <1>5, <1>6, <1>7, <1>8, SumOfOneMore
<1>10. SumFunction(before) \in Nat
  BY <1>0, <1>1, <1>3, <1>6, SumIsNat
<1> QED
  BY <1>4, <1>9, <1>10 DEF before, after, t

\* The account, and what it is kept of: executed commands are declared.
EventsInv ==
  /\ EventsAccounted
  /\ \A k \in ExecutedAt : commands[k].id \in DOMAIN mission.commands

LEMMA EventsOfRecoveries ==
  ASSUME TypeInv, mission' = mission, NEW e \in Events, NEW f \in FaultIds, Recovers(f)
  PROVE  /\ Fault(f).emits \in Seq(Events) /\ SumFunction(ByFault(e)) \in Nat
         /\ SumFunction(ByFault(e)') = SumFunction(ByFault(e)) + Occurrences(e, Fault(f).emits)
<1> DEFINE n == [g \in FaultIds |-> Occurrences(e, Fault(g).emits)]
<1>1. \A g \in FaultIds : Fault(g).emits \in Seq(Events)
  BY FaultShape DEF TypeInv, PlaceOK, IsFault
<1>2. n \in [FaultIds -> Nat]
  BY <1>1, AtIsFinite
<1>3. applied \in Seq(FaultIds) /\ applied' = Append(applied, f)
  BY DEF TypeInv, MonitorOK, Recovers
<1>4. /\ DOMAIN applied' = 1 .. Len(applied) + 1
      /\ \A k \in DOMAIN applied' : applied'[k] \in FaultIds
      /\ \A k \in DOMAIN applied : applied[k] \in FaultIds
  BY <1>3, AppendProperties
<1>5. ByFault(e) = Along(applied, n)
  BY <1>4 DEF ByFault, Along
<1>6. ByFault(e)' = Along(applied', n)
  BY <1>4 DEF ByFault, Along, Fault, Occurrences
<1>7. n[f] = Occurrences(e, Fault(f).emits) /\ \A g \in FaultIds : n[g] \in Nat
  BY <1>2
<1> HIDE DEF n
<1>8. /\ SumFunction(Along(applied, n)) \in Nat
      /\ SumFunction(Along(applied', n)) = SumFunction(Along(applied, n)) + n[f]
  BY <1>3, <1>7, RecoverySums
<1> QED
  BY <1>1, <1>5, <1>6, <1>7, <1>8

LEMMA FaultSums ==
  ASSUME TypeInv, NEW e \in Events
  PROVE  SumFunction(ByFault(e)) \in Nat
<1>1. applied \in Seq(FaultIds)
  BY DEF TypeInv, MonitorOK
<1>2. DOMAIN applied = 1 .. Len(applied) /\ \A k \in DOMAIN applied : applied[k] \in FaultIds
  BY <1>1
<1>3. \A k \in DOMAIN applied : Fault(applied[k]).emits \in Seq(Events)
  BY <1>2, FaultShape DEF TypeInv, PlaceOK, IsFault
<1>4. \A k \in DOMAIN ByFault(e) : ByFault(e)[k] \in Nat
  BY <1>3, AtIsFinite DEF ByFault
<1>5. IsFiniteSet(DOMAIN ByFault(e))
  <2>1. Len(applied) \in Nat
    BY <1>1
  <2>2. IsFiniteSet(1 .. Len(applied))
    BY <2>1, FS_Interval
  <2> QED
    BY <1>2, <2>2 DEF ByFault
<1> QED
  BY <1>4, <1>5, SumIsNat

LEMMA CommandSums ==
  ASSUME TypeInv, NEW e \in Events,
         \A k \in ExecutedAt : commands[k].id \in DOMAIN mission.commands
  PROVE  SumFunction(ByCommand(e)) \in Nat
<1>1. commands \in Seq(Entry)
  BY DEF TypeInv, EffectsOK
<1>2. IsFiniteSet(ExecutedAt)
  <2>1. Len(commands) \in Nat /\ ExecutedAt \subseteq 1 .. Len(commands)
    BY <1>1 DEF ExecutedAt
  <2>2. IsFiniteSet(1 .. Len(commands))
    BY <2>1, FS_Interval
  <2> QED
    BY <2>1, <2>2, FS_Subset
<1>3. \A k \in ExecutedAt : mission.commands[commands[k].id].emits \in Seq(Events)
  BY EffectShape DEF TypeInv, PlaceOK, IsEffect
<1>4. \A k \in DOMAIN ByCommand(e) : ByCommand(e)[k] \in Nat
  BY <1>3, AtIsFinite DEF ByCommand
<1>5. DOMAIN ByCommand(e) = ExecutedAt
  BY DEF ByCommand
<1> QED
  BY <1>2, <1>4, <1>5, SumIsNat

LEMMA EventsStep == ASSUME TypeInv, EventsInv, [Next]_vars PROVE EventsInv'
<1>1. mission' = mission
  BY StepLogs
<1>2. events \in Seq(Events)
  <2>1. mission.events \subseteq Events
    BY ScenarioAssumption DEF TypeInv, PlaceOK, IsMission
  <2> QED
    BY <2>1, SeqMonotonic DEF TypeInv, EffectsOK
<1>3. \A e \in Events : Occurrences(e, events) = SumFunction(ByCommand(e)) + SumFunction(ByFault(e))
  BY DEF EventsInv, EventsAccounted, ByCommand, ByFault, ExecutedAt
<1>4. CASE Unheard
  BY <1>1, <1>4 DEF Unheard, EventsInv, EventsAccounted, ExecutedAt, Executed, Fault
<1>5. ASSUME NEW entry \in Entry, Logged(entry) PROVE EventsInv'
  <2>1. \A k \in ExecutedAt' : commands'[k].id \in DOMAIN mission'.commands
    BY <1>1, <1>5, LoggedCommands DEF EventsInv
  <2>2. ASSUME NEW e \in Events
        PROVE  Occurrences(e, events') = SumFunction(ByCommand(e)') + SumFunction(ByFault(e)')
    <3>1. ByFault(e)' = ByFault(e) /\ SumFunction(ByFault(e)) \in Nat
      <4>1. ByFault(e)' = ByFault(e)
        BY <1>1, <1>5 DEF Logged, ByFault, Fault, Occurrences
      <4>2. SumFunction(ByFault(e)) \in Nat
        BY FaultSums
      <4> QED
        BY <4>1, <4>2
    <3>2. /\ SumFunction(ByCommand(e)) \in Nat
          /\ ~Executed(entry.status) => ByCommand(e)' = ByCommand(e)
          /\ Executed(entry.status) =>
               SumFunction(ByCommand(e)') =
                 SumFunction(ByCommand(e)) + Occurrences(e, mission.commands[entry.id].emits)
      BY <1>1, <1>5, LoggedSums DEF EventsInv
    <3>3. CASE ~Executed(entry.status)
      BY <1>3, <1>5, <3>1, <3>2, <3>3 DEF Logged
    <3>4. CASE Executed(entry.status)
      <4> DEFINE emits == mission.commands[entry.id].emits
      <4>1. emits \in Seq(Events) /\ events' = events \o emits
        BY <1>5, <3>4, EffectShape DEF Logged, TypeInv, PlaceOK, IsEffect
      <4>2. Occurrences(e, events') = Occurrences(e, events) + Occurrences(e, emits)
        BY <1>2, <4>1, OccurrencesConcat
      <4>3. Occurrences(e, emits) \in Nat
        BY <4>1, AtIsFinite
      <4> HIDE DEF emits
      <4>4. SumFunction(ByCommand(e)') = SumFunction(ByCommand(e)) + Occurrences(e, emits)
        BY <3>2, <3>4 DEF emits
      <4> QED
        BY <1>3, <3>1, <3>2, <4>2, <4>3, <4>4
    <3> QED
      BY <3>3, <3>4
  <2> QED
    BY <1>1, <2>1, <2>2 DEF EventsInv, EventsAccounted, ByCommand, ByFault, ExecutedAt
<1>6. ASSUME NEW f \in FaultIds, Recovers(f) PROVE EventsInv'
  <2>1. commands' = commands /\ events' = events \o Fault(f).emits
    BY <1>6 DEF Recovers
  <2>2. ASSUME NEW e \in Events
        PROVE  Occurrences(e, events') = SumFunction(ByCommand(e)') + SumFunction(ByFault(e)')
    <3>1. ByCommand(e)' = ByCommand(e)
      BY <1>1, <2>1 DEF ByCommand, ExecutedAt, Executed, Occurrences
    <3>2. SumFunction(ByCommand(e)) \in Nat
      BY CommandSums DEF EventsInv
    <3>3. /\ Fault(f).emits \in Seq(Events) /\ SumFunction(ByFault(e)) \in Nat
          /\ SumFunction(ByFault(e)') =
               SumFunction(ByFault(e)) + Occurrences(e, Fault(f).emits)
      BY <1>1, <1>6, EventsOfRecoveries
    <3>4. Occurrences(e, events') = Occurrences(e, events) + Occurrences(e, Fault(f).emits)
      BY <1>2, <2>1, <3>3, OccurrencesConcat
    <3>5. Occurrences(e, Fault(f).emits) \in Nat
      BY <3>3, AtIsFinite
    <3> QED
      BY <1>3, <3>1, <3>2, <3>3, <3>4, <3>5
  <2>3. ExecutedAt' = ExecutedAt
    BY <2>1 DEF ExecutedAt, Executed
  <2> QED
    BY <1>1, <2>1, <2>2, <2>3
    DEF EventsInv, EventsAccounted, ByCommand, ByFault, ExecutedAt
<1> QED
  BY <1>4, <1>5, <1>6, StepLogs

\* The event log holds each event as often as the executed commands and the recoveries that
\* came about declare it, whatever their order.
THEOREM EventsAreAccounted == Spec => []EventsAccounted
<1>1. Init => EventsInv
  <2> SUFFICES ASSUME Init PROVE EventsInv
    OBVIOUS
  <2>1. events = <<>> /\ commands = <<>> /\ applied = <<>>
    BY DEF Init
  <2>2. ExecutedAt = {}
    BY <2>1 DEF ExecutedAt
  <2>3. ASSUME NEW e \in Events
        PROVE  Occurrences(e, events) = SumFunction(ByCommand(e)) + SumFunction(ByFault(e))
    <3>1. DOMAIN ByCommand(e) = {} /\ DOMAIN ByFault(e) = {}
      BY <2>1, <2>2 DEF ByCommand, ByFault
    <3>2. SumFunction(ByCommand(e)) = 0 /\ SumFunction(ByFault(e)) = 0
      BY <3>1, SumOfNone
    <3> QED
      BY <2>1, <3>2, OccurrencesNone
  <2> QED
    BY <2>2, <2>3 DEF EventsInv, EventsAccounted, ByCommand, ByFault, ExecutedAt
<1>2. EventsInv => EventsAccounted
  BY DEF EventsInv
<1> QED
  BY <1>1, <1>2, EventsStep, TypeInvAlways, PTL DEF Spec

LEMMA AutosOfRecoveries ==
  ASSUME TypeInv, mission' = mission, NEW c \in Commands, NEW f \in FaultIds, Recovers(f)
  PROVE  /\ Fault(f).autos \in Seq(Commands) /\ SumFunction(AutosByFault(c)) \in Nat
         /\ SumFunction(AutosByFault(c)') =
              SumFunction(AutosByFault(c)) + Occurrences(c, Fault(f).autos)
<1> DEFINE n == [g \in FaultIds |-> Occurrences(c, Fault(g).autos)]
<1>1. \A g \in FaultIds : Fault(g).autos \in Seq(Commands)
  BY FaultShape DEF TypeInv, PlaceOK, IsFault
<1>2. n \in [FaultIds -> Nat]
  BY <1>1, AtIsFinite
<1>3. applied \in Seq(FaultIds) /\ applied' = Append(applied, f)
  BY DEF TypeInv, MonitorOK, Recovers
<1>4. /\ \A k \in DOMAIN applied' : applied'[k] \in FaultIds
      /\ \A k \in DOMAIN applied : applied[k] \in FaultIds
  BY <1>3, AppendProperties
<1>5. AutosByFault(c) = Along(applied, n)
  BY <1>4 DEF AutosByFault, Along
<1>6. AutosByFault(c)' = Along(applied', n)
  BY <1>4 DEF AutosByFault, Along, Fault, Occurrences
<1>7. n[f] = Occurrences(c, Fault(f).autos) /\ \A g \in FaultIds : n[g] \in Nat
  BY <1>2
<1> HIDE DEF n
<1>8. /\ SumFunction(Along(applied, n)) \in Nat
      /\ SumFunction(Along(applied', n)) = SumFunction(Along(applied, n)) + n[f]
  BY <1>3, <1>7, RecoverySums
<1> QED
  BY <1>1, <1>5, <1>6, <1>7, <1>8

LEMMA AutoAtIsFinite ==
  ASSUME TypeInv, NEW c
  PROVE  /\ Len(commands) \in Nat /\ DOMAIN commands = 1 .. Len(commands)
         /\ IsFiniteSet(AutoAt(c)) /\ AutoAt(c) \subseteq 1 .. Len(commands)
         /\ Cardinality(AutoAt(c)) \in Nat
<1>1. Len(commands) \in Nat /\ DOMAIN commands = 1 .. Len(commands)
  BY DEF TypeInv, EffectsOK
<1>2. AutoAt(c) \subseteq 1 .. Len(commands)
  BY <1>1 DEF AutoAt
<1>3. IsFiniteSet(1 .. Len(commands))
  BY <1>1, FS_Interval
<1>4. IsFiniteSet(AutoAt(c))
  BY <1>2, <1>3, FS_Subset
<1> QED
  BY <1>1, <1>2, <1>4, FS_CardinalityType

\* An auto command leaves the queue when it enters the log.
LEMMA LoggedAutos ==
  ASSUME TypeInv, NEW c \in Commands, NEW entry \in Entry, Logged(entry)
  PROVE  Cardinality(AutoAt(c)') + Occurrences(c, autos')
           = Cardinality(AutoAt(c)) + Occurrences(c, autos)
<1> PICK N \in Nat : N = Len(commands)
  BY DEF TypeInv, EffectsOK
<1>1. /\ DOMAIN commands = 1 .. N /\ DOMAIN commands' = 1 .. N + 1
      /\ commands'[N + 1] = entry /\ \A k \in 1 .. N : commands'[k] = commands[k]
  <2>1. commands \in Seq(Entry) /\ commands' = Append(commands, entry)
    BY DEF TypeInv, EffectsOK, Logged
  <2> QED
    BY <2>1, AppendProperties
<1>2. autos \in Seq(Commands) /\ Occurrences(c, autos) \in Nat
  BY AtIsFinite DEF TypeInv, MonitorOK
<1>3. AutoAt(c)' = IF entry.id = c /\ entry.dispatch = "AUTO" THEN AutoAt(c) \cup {N + 1}
                                                               ELSE AutoAt(c)
  BY <1>1 DEF AutoAt
<1>4. IsFiniteSet(AutoAt(c)) /\ N + 1 \notin AutoAt(c) /\ Cardinality(AutoAt(c)) \in Nat
  BY AutoAtIsFinite
<1>5. CASE entry.dispatch = "GROUND" /\ autos' = autos
  BY <1>3, <1>5
<1>6. CASE entry.dispatch = "AUTO" /\ autos # <<>> /\ entry.id = Head(autos) /\ autos' = Tail(autos)
  <2>1. Occurrences(c, autos) = (IF Head(autos) = c THEN 1 ELSE 0) + Occurrences(c, autos')
    BY <1>2, <1>6, OccurrencesTail
  <2>2. Occurrences(c, autos') \in Nat
    BY <1>2, <1>6, HeadTailProperties, AtIsFinite
  <2>3. Cardinality(AutoAt(c)') = Cardinality(AutoAt(c)) + (IF Head(autos) = c THEN 1 ELSE 0)
    <3>1. CASE Head(autos) = c
      <4>1. AutoAt(c)' = AutoAt(c) \cup {N + 1}
        BY <1>3, <1>6, <3>1
      <4> QED
        BY <1>4, <3>1, <4>1, FS_AddElement
    <3>2. CASE Head(autos) # c
      BY <1>3, <1>4, <1>6, <3>2
    <3> QED
      BY <3>1, <3>2
  <2> QED
    BY <1>4, <2>1, <2>2, <2>3
<1> QED
  BY <1>5, <1>6 DEF Logged

LEMMA AutosStep == ASSUME TypeInv, AutosAccounted, [Next]_vars PROVE AutosAccounted'
<1>1. mission' = mission
  BY StepLogs
<1>2. \A c \in Commands :
        Cardinality(AutoAt(c)) + Occurrences(c, autos) = SumFunction(AutosByFault(c))
  BY DEF AutosAccounted, AutoAt, AutosByFault
<1> SUFFICES ASSUME NEW c \in Commands
             PROVE  Cardinality(AutoAt(c)') + Occurrences(c, autos') = SumFunction(AutosByFault(c)')
  BY <1>1 DEF AutosAccounted, AutoAt, AutosByFault
<1>3. CASE Unheard
  <2>1. AutoAt(c)' = AutoAt(c) /\ AutosByFault(c)' = AutosByFault(c) /\ autos' = autos
    BY <1>1, <1>3 DEF Unheard, AutoAt, AutosByFault, Fault, Occurrences
  <2> QED
    BY <1>2, <2>1
<1>4. ASSUME NEW entry \in Entry, Logged(entry)
      PROVE  Cardinality(AutoAt(c)') + Occurrences(c, autos') = SumFunction(AutosByFault(c)')
  <2>1. AutosByFault(c)' = AutosByFault(c)
    BY <1>1, <1>4 DEF Logged, AutosByFault, Fault, Occurrences
  <2> QED
    BY <1>2, <1>4, <2>1, LoggedAutos
<1>5. ASSUME NEW f \in FaultIds, Recovers(f)
      PROVE  Cardinality(AutoAt(c)') + Occurrences(c, autos') = SumFunction(AutosByFault(c)')
  <2>1. AutoAt(c)' = AutoAt(c)
    BY <1>5 DEF Recovers, AutoAt
  <2>2. Occurrences(c, autos) = 0 /\ autos' = Fault(f).autos
    BY <1>5, OccurrencesNone DEF Recovers
  <2>3. /\ Fault(f).autos \in Seq(Commands) /\ SumFunction(AutosByFault(c)) \in Nat
        /\ SumFunction(AutosByFault(c)') =
             SumFunction(AutosByFault(c)) + Occurrences(c, Fault(f).autos)
    BY <1>1, <1>5, AutosOfRecoveries
  <2>4. Cardinality(AutoAt(c)) \in Nat /\ Occurrences(c, Fault(f).autos) \in Nat
    BY <2>3, AutoAtIsFinite, AtIsFinite
  <2> QED
    BY <1>2, <2>1, <2>2, <2>3, <2>4
<1> QED
  BY <1>3, <1>4, <1>5, StepLogs

\* Every auto command of every recovery that came about is dispatched once or still queued.
THEOREM AutosAreAccounted == Spec => []AutosAccounted
<1>1. Init => AutosAccounted
  <2> SUFFICES ASSUME Init, NEW c \in Commands
               PROVE  Cardinality(AutoAt(c)) + Occurrences(c, autos) = SumFunction(AutosByFault(c))
    BY DEF AutosAccounted, AutoAt, AutosByFault
  <2>1. commands = <<>> /\ autos = <<>> /\ applied = <<>>
    BY DEF Init
  <2>2. AutoAt(c) = {} /\ DOMAIN AutosByFault(c) = {}
    BY <2>1 DEF AutoAt, AutosByFault
  <2>3. Cardinality(AutoAt(c)) = 0 /\ SumFunction(AutosByFault(c)) = 0
    BY <2>2, FS_EmptySet, SumOfNone
  <2> QED
    BY <2>1, <2>3, OccurrencesNone
<1> QED
  BY <1>1, AutosStep, TypeInvAlways, PTL DEF Spec

=============================================================================
