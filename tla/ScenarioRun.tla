------------------------------ MODULE ScenarioRun ------------------------------
(***************************************************************************)
(* One run of ScenarioRunner: commands are dispatched against the current  *)
(* mode and payload lifecycle, injected telemetry is evaluated by the      *)
(* fault monitor, triggered faults recover, and expectations are checked   *)
(* against the history so far.  The scenario is any list of steps with at  *)
(* most MaxSteps steps and expectations: the runner never looks ahead, so  *)
(* each part of a step is chosen where the runner comes to it.             *)
(***************************************************************************)
EXTENDS Integers, Sequences, FiniteSets, Functions

CONSTANTS
  Missions,    \* Mission Models, see MissionShape
  Commands,    \* command ids, declared or not
  Events,      \* event ids, declared or not
  Modes,       \* mode ids
  Telemetry,   \* telemetry ids
  Values,      \* telemetry values
  Injections,  \* the pairs of telemetry and value the scenario may inject
  Starts,      \* the telemetry it may start from
  Payloads,    \* payload ids
  Lifecycles,  \* payload lifecycle states
  Products,    \* data product ids
  None,        \* Python's None, and an effect that is not declared
  MaxSteps     \* bound on the steps of the scenario and its expectations together

\* What the runner reads of a Mission Model.  A command says in which modes
\* and in which payload state it is allowed, whether it declares arguments,
\* and its expected effects, whose telemetry may be no mapping; a fault says
\* on which values of which telemetry its comparison is true, and on which it
\* raises (a text compared with a number).  A debounce may be any number: the
\* loader does not reject one that is not positive.
IsEffect(e) ==
  /\ e.needs \in (Payloads \X Lifecycles) \cup {None}
  /\ e.lifecycle \in (Payloads \X Lifecycles) \cup {None}
  /\ e.emits \in Seq(Events) /\ e.products \in Seq(Products)
  /\ e.mapping \in BOOLEAN
  /\ DOMAIN e.sets \subseteq Telemetry /\ Range(e.sets) \subseteq Values
  /\ e.goes \in Modes \cup {None}
IsFault(f) ==
  /\ f.watches \in Telemetry /\ f.holds \cup f.raises \subseteq Values
  /\ f.debounce \in Int
  /\ f.emits \in Seq(Events) /\ f.autos \in Seq(Commands)
  /\ f.goes \in Modes \cup {None}
IsMission(m) ==
  /\ m.modes \subseteq Modes /\ m.events \subseteq Events /\ m.products \subseteq Products
  /\ m.transitions \subseteq Modes \X Modes
  /\ m.lifecycles \in [Payloads -> Lifecycles]
  /\ DOMAIN m.commands \subseteq Commands
  /\ \A c \in DOMAIN m.commands : IsEffect(m.commands[c])
  /\ m.faults \in Seq(Range(m.faults)) /\ \A f \in DOMAIN m.faults : IsFault(m.faults[f])

ASSUME ScenarioAssumption ==
  /\ None \notin Modes \cup Values
  /\ "obc.mode" \in Telemetry /\ Modes \subseteq Values
  /\ Injections \subseteq Telemetry \X Values
  /\ Starts \subseteq [Telemetry -> Values \cup {None}]
  /\ \A m \in Missions : IsMission(m)
  /\ MaxSteps \in Nat

VARIABLES
  mission,     \* the Mission Model, constant
  initial,     \* the initial mode of the scenario, constant
  pc,          \* the part of the step that comes next
  steps,       \* number of steps begun
  mode, telemetry, lifecycle,     \* SimulationState
  events, commands, transitions,  \* its histories
  evidence,    \* its data flow evidence: a set, of places in the runs of commands
  checks,      \* its expectation records
  failed,      \* its failed_expectations: how many
  counters, triggered,  \* FaultMonitor
  pending,     \* the faults that triggered whose recovery is still to be applied
  autos,       \* auto commands of the current trigger still to be dispatched
  applied,     \* history: the faults in the order their recovery was applied
  snapshots    \* history: the telemetry that each evaluation has seen

monitorVars == <<counters, triggered, snapshots>>
effectVars == <<mode, telemetry, lifecycle, events, transitions, evidence>>
checkVars == <<checks, failed>>
constVars == <<mission, initial>>
recoveryVars == <<pending, autos, applied>>
vars == <<constVars, pc, steps, effectVars, commands, checkVars, monitorVars, recoveryVars>>

FaultIds == DOMAIN mission.faults
Fault(f) == mission.faults[f]

---------------------------------------------------------------------------
(* CommandRouter.dispatch *)

\* Deviation: the payload lifecycle is not looked at.
StatusIgnoringLifecycle(c, args, dispatch) ==
  IF c \notin DOMAIN mission.commands THEN "FAILED"
  ELSE IF mode \notin mission.commands[c].allowed THEN "REJECTED"
  ELSE IF args = "wrong" THEN "FAILED"
  ELSE IF dispatch = "AUTO" THEN "AUTO_DISPATCHED" ELSE "ACCEPTED"

LifecycleMet(c) ==
  LET needed == mission.commands[c].needs
  IN  needed # None => lifecycle[needed[1]] = needed[2]

Status(c, args, dispatch) ==
  IF c \notin DOMAIN mission.commands THEN "FAILED"
  ELSE IF mode \notin mission.commands[c].allowed \/ ~LifecycleMet(c) THEN "REJECTED"
  ELSE IF args = "wrong" THEN "FAILED"
  ELSE IF dispatch = "AUTO" THEN "AUTO_DISPATCHED" ELSE "ACCEPTED"

Executed(status) == status \in {"ACCEPTED", "AUTO_DISPATCHED"}

\* How the arguments given compare with the declared ones: unknown, missing
\* or out of range; or of a type the range check cannot compare.
GroundArgs(c) ==
  IF mission.commands[c].declaresArgs THEN {"right", "wrong", "uncomparable"}
  ELSE {"right", "wrong"}
AutoArgs(c) ==
  IF c \in DOMAIN mission.commands /\ mission.commands[c].declaresArgs
    THEN "wrong" ELSE "right"

---------------------------------------------------------------------------
(* Effects *)

\* EventBus.emit looks the event up: an undeclared one is a KeyError.
Known(ids) == Range(ids) \subseteq mission.events

\* Deviation: the transition is logged also when the mode does not change.
EnterLoggingAll(target) ==
  /\ mode' = IF target = None THEN mode ELSE target
  /\ transitions' = IF target = None THEN transitions
                    ELSE Append(transitions, [from |-> target, to |-> target])

\* ModeManager.transition_to
Enter(target) ==
  IF target \in {None, mode}
    THEN UNCHANGED <<mode, transitions>>
    ELSE /\ mode' = target
         /\ transitions' = Append(transitions, [from |-> mode, to |-> target])

\* Telemetry after `sets`, and after the mode has become `target`.
Updated(sets, target) ==
  [x \in Telemetry |->
     IF x = "obc.mode" /\ target \notin {None, mode} THEN target
     ELSE IF x \in DOMAIN sets THEN sets[x] ELSE telemetry[x]]

\* Deviation: undeclared products are recorded too.
EvidenceOfAny(c) ==
  LET listed == mission.commands[c].products
  IN  {[product |-> listed[k], command |-> c, run |-> Len(commands) + 1, at |-> k] :
         k \in DOMAIN listed}

\* _record_data_flow_evidence: undeclared products are skipped.
Evidence(c) ==
  LET listed == mission.commands[c].products
  IN  {[product |-> listed[k], command |-> c, run |-> Len(commands) + 1, at |-> k] :
         k \in {j \in DOMAIN listed : listed[j] \in mission.products}}

\* _apply_command_effects of an executed command.
ApplyEffects(c) ==
  LET cmd == mission.commands[c] IN
  /\ events' = events \o cmd.emits
  /\ lifecycle' = IF cmd.lifecycle = None THEN lifecycle
                  ELSE [lifecycle EXCEPT ![cmd.lifecycle[1]] = cmd.lifecycle[2]]
  /\ evidence' = evidence \cup Evidence(c)
  /\ telemetry' = Updated(cmd.sets, cmd.goes)
  /\ Enter(cmd.goes)

\* Deviation: the effects of a command do not depend on its status.
EffectsWhatever(c, status) ==
  IF c \in DOMAIN mission.commands THEN ApplyEffects(c) ELSE UNCHANGED effectVars

EffectsIfExecuted(c, status) ==
  IF Executed(status) THEN ApplyEffects(c) ELSE UNCHANGED effectVars

\* An exception leaves run(): there is no result and no report.
Raise(error) == pc' = error /\ UNCHANGED <<effectVars, commands, recoveryVars>>

\* dispatch, then the effects; `then` is where the runner goes on.
DispatchAndApply(c, args, dispatch, then) ==
  LET status == Status(c, args, dispatch) IN
  /\ commands' = Append(commands, [id |-> c, status |-> status, dispatch |-> dispatch])
  /\ EffectsIfExecuted(c, status)
  /\ pc' = then

\* The range check raises a TypeError, an emitted event is unknown, or the telemetry effects
\* are no mapping and have no items.
DispatchError(c, args, dispatch) ==
  IF ~Executed(Status(c, args, dispatch)) THEN "none"
  ELSE IF args = "uncomparable" THEN "type_error"
  ELSE IF ~Known(mission.commands[c].emits) THEN "key_error"
  ELSE IF ~mission.commands[c].mapping THEN "attribute_error" ELSE "none"

\* A dispatch with its effects, or the exception it ends in.
DispatchOrRaise(c, args, dispatch, then, queue) ==
  IF DispatchError(c, args, dispatch) # "none"
    THEN Raise(DispatchError(c, args, dispatch))
    ELSE DispatchAndApply(c, args, dispatch, then) /\ autos' = queue /\ UNCHANGED <<pending, applied>>

---------------------------------------------------------------------------
(* FaultMonitor.evaluate *)

\* condition.debounce_samples or 1: zero and none are one.
Debounce(f) == IF Fault(f).debounce = 0 THEN 1 ELSE Fault(f).debounce
Debounced(f) == counters'[f] >= Debounce(f)

\* Deviation: a sample on which the condition is false does not start over.
CountWithoutReset(f, seen) ==
  IF f \in triggered \/ seen[Fault(f).watches] \notin Fault(f).holds
    THEN counters[f] ELSE counters[f] + 1

\* The counter of a fault after an evaluation of the values `seen`.
Count(f, seen) ==
  IF f \in triggered THEN counters[f]
  ELSE IF seen[Fault(f).watches] \in Fault(f).holds THEN counters[f] + 1 ELSE 0

\* The faults that trigger; a fault stands for its place in the order of the model.
Triggers == {f \in FaultIds \ triggered : Debounced(f)}

\* Deviation: a fault is not remembered as triggered.
RememberNone(now) == {}

Remember(now) == triggered \cup now

Evaluate(seen) ==
  /\ counters' = [f \in FaultIds |-> Count(f, seen)]
  /\ pending' = Triggers
  /\ triggered' = Remember(Triggers)
  /\ snapshots' = Append(snapshots, seen)

---------------------------------------------------------------------------
(* ScenarioRunner *)

\* A step with a command; the loader has checked that it is declared.
GroundCommand ==
  /\ pc = "step" /\ steps + Len(checks) < MaxSteps
  /\ steps' = steps + 1
  /\ \E c \in DOMAIN mission.commands : \E args \in GroundArgs(c) :
       DispatchOrRaise(c, args, "GROUND", "status", autos)
  /\ UNCHANGED <<constVars, monitorVars, checkVars>>

NoCommand ==
  /\ pc = "step" /\ steps + Len(checks) < MaxSteps
  /\ steps' = steps + 1
  /\ pc' = "inject"
  /\ UNCHANGED <<constVars, effectVars, commands, monitorVars, checkVars, recoveryVars>>

\* _record_expectation_result
Record(kind, expected, met) ==
  /\ steps + Len(checks) < MaxSteps
  /\ checks' = Append(checks, [kind |-> kind, expected |-> expected, passed |-> met])
  /\ failed' = IF met THEN failed ELSE failed + 1

\* expect.command_status is compared before anything is injected.
CheckCommandStatus ==
  /\ pc = "status"
  /\ \/ \E expected \in {"ACCEPTED", "REJECTED", "FAILED"} :
          Record("command_status", expected, commands[Len(commands)].status = expected)
     \/ UNCHANGED checkVars
  /\ pc' = "inject"
  /\ UNCHANGED <<constVars, steps, effectVars, commands, monitorVars, recoveryVars>>

\* Any value can be injected: its type is not checked against the model.
Inject ==
  /\ pc = "inject"
  /\ \E injected \in Injections :
       LET x == injected[1]
           seen == [telemetry EXCEPT ![x] = injected[2]]
           raises == \E f \in FaultIds \ triggered : seen[Fault(f).watches] \in Fault(f).raises
       IN  IF raises
             THEN Raise("type_error") /\ UNCHANGED monitorVars
             ELSE /\ telemetry' = seen
                  /\ Evaluate(seen)
                  /\ pc' = "recover"
                  /\ UNCHANGED <<mode, lifecycle, events, transitions, evidence,
                                 commands, autos, applied>>
  /\ UNCHANGED <<constVars, steps, checkVars>>

NoInjection ==
  /\ pc = "inject"
  /\ pc' = "check"
  /\ UNCHANGED <<constVars, steps, effectVars, commands, monitorVars, checkVars,
                 recoveryVars>>

\* _apply_fault_triggers: the events and the mode transition of a trigger.
ApplyTrigger ==
  /\ pc = "recover" /\ autos = <<>>
  /\ \E f \in pending :
       /\ \A g \in pending : f <= g
       /\ IF ~Known(Fault(f).emits)
            THEN Raise("key_error")
            ELSE /\ events' = events \o Fault(f).emits
                 /\ telemetry' = Updated(<<>>, Fault(f).goes)
                 /\ Enter(Fault(f).goes)
                 /\ autos' = Fault(f).autos
                 /\ pending' = pending \ {f} /\ applied' = Append(applied, f)
                 /\ UNCHANGED <<pc, lifecycle, evidence, commands>>
  /\ UNCHANGED <<constVars, steps, monitorVars, checkVars>>

\* Deviation: only the first auto command of a trigger is dispatched.
AutoCommandOnce ==
  /\ pc = "recover" /\ autos # <<>>
  /\ LET c == Head(autos) IN DispatchOrRaise(c, AutoArgs(c), "AUTO", "recover", <<>>)
  /\ UNCHANGED <<constVars, steps, monitorVars, checkVars>>

\* Deviation: an auto command that is not executed is tried again.
AutoCommandUntilExecuted ==
  /\ pc = "recover" /\ autos # <<>>
  /\ LET c == Head(autos)
         again == ~Executed(Status(c, AutoArgs(c), "AUTO"))
     IN  IF again THEN UNCHANGED <<effectVars, commands, pc, recoveryVars>>
         ELSE DispatchOrRaise(c, AutoArgs(c), "AUTO", "recover", Tail(autos))
  /\ UNCHANGED <<constVars, steps, monitorVars, checkVars>>

\* Its auto commands, dispatched without arguments in the mode of the moment.
AutoCommand ==
  /\ pc = "recover" /\ autos # <<>>
  /\ LET c == Head(autos)
     IN  DispatchOrRaise(c, AutoArgs(c), "AUTO", "recover", Tail(autos))
  /\ UNCHANGED <<constVars, steps, monitorVars, checkVars>>

Recovered ==
  /\ pc = "recover" /\ autos = <<>> /\ pending = {}
  /\ pc' = "check"
  /\ UNCHANGED <<constVars, steps, effectVars, commands, monitorVars, checkVars,
                 recoveryVars>>

\* _check_expectations: against the whole history, not only this step's.
CheckEvent(e) ==
  Record("event", e, e \in Range(events))
CheckMode(m) ==
  Record("mode", m, mode = m)
CheckCommand(c, dispatch) ==
  Record("command", c, \E k \in DOMAIN commands :
                         commands[k].id = c /\ commands[k].dispatch = dispatch)
CheckTelemetry(x, v) ==
  Record("telemetry", v, telemetry[x] = v)
CheckLifecycle(p, s) ==
  Record("payload_lifecycle", s, lifecycle[p] = s)

EvidenceOf(d) == {e \in evidence : e.product = d}

\* The latest evidence of the product; the other fields that can be expected
\* of it follow from the product and the model alone.
CheckDataFlow(d, c) ==
  Record("data_flow", c, \E e \in EvidenceOf(d) :
                           e.command = c /\ \A o \in EvidenceOf(d) : o.run <= e.run)

CheckExpectation ==
  /\ pc = "check"
  /\ \/ \E e \in mission.events : CheckEvent(e)
     \/ \E m \in Modes : CheckMode(m)
     \/ \E c \in DOMAIN mission.commands, d \in {"GROUND", "AUTO"} : CheckCommand(c, d)
     \/ \E expected \in Injections : CheckTelemetry(expected[1], expected[2])
     \/ \E p \in Payloads, s \in Lifecycles : CheckLifecycle(p, s)
     \/ \E d \in mission.products, c \in DOMAIN mission.commands : CheckDataFlow(d, c)
  /\ UNCHANGED <<constVars, pc, steps, effectVars, commands, monitorVars, recoveryVars>>

\* Deviation: the verdict looks at the status of the commands alone.
VerdictOfCommands ==
  IF \E k \in DOMAIN commands : commands[k].status = "FAILED" THEN "FAILED" ELSE "PASSED"

Verdict == IF failed = 0 THEN "PASSED" ELSE "FAILED"

\* expect.scenario_status comes last, and sees the failures of its own step.
EndStep ==
  /\ pc = "check"
  /\ \/ \E expected \in {"PASSED", "FAILED"} :
          Record("scenario_status", expected, Verdict = expected)
     \/ UNCHANGED checkVars
  /\ pc' = "step"
  /\ UNCHANGED <<constVars, steps, effectVars, commands, monitorVars, recoveryVars>>

\* The scenario has no further step.
End ==
  /\ pc = "step"
  /\ pc' = "done"
  /\ UNCHANGED <<constVars, steps, effectVars, commands, monitorVars, checkVars,
                 recoveryVars>>

---------------------------------------------------------------------------
(* The lint rules that bear on the run: `sim` does not apply them. *)

\* Deviation: lint does not look at the events of faults.
LintCleanCommandsOnly(m) ==
  \A c \in DOMAIN m.commands : Range(m.commands[c].emits) \subseteq m.events

\* OF-REF-006 to OF-REF-009 and OF-FLT-005.
LintClean(m) ==
  /\ \A c \in DOMAIN m.commands :
       Range(m.commands[c].emits) \subseteq m.events /\ m.commands[c].allowed \subseteq m.modes
  /\ \A f \in Range(m.faults) :
       /\ Range(f.emits) \subseteq m.events
       /\ f.goes \in m.modes \cup {None}
       /\ Range(f.autos) \subseteq DOMAIN m.commands

Init ==
  /\ mission \in Missions
  /\ initial \in mission.modes
  /\ mode = initial
  /\ \E given \in Starts :
       telemetry = [given EXCEPT !["obc.mode"] = initial]
  /\ lifecycle = mission.lifecycles
  /\ pc = "step" /\ steps = 0
  /\ events = <<>> /\ commands = <<>> /\ transitions = <<>> /\ evidence = {}
  /\ checks = <<>> /\ failed = 0
  /\ counters = [f \in FaultIds |-> 0] /\ triggered = {}
  /\ pending = {} /\ autos = <<>>
  /\ applied = <<>> /\ snapshots = <<>>

Next ==
  \/ GroundCommand \/ NoCommand \/ CheckCommandStatus
  \/ Inject \/ NoInjection
  \/ ApplyTrigger \/ AutoCommand \/ Recovered
  \/ CheckExpectation \/ EndStep \/ End

Spec == Init /\ [][Next]_vars

\* The runner is one loop: it runs until it returns or raises.
FairSpec == Spec /\ WF_vars(Next)

---------------------------------------------------------------------------
(* Properties. *)

Errors == {"type_error", "key_error", "attribute_error"}

\* What an expectation is about, and what it can name.
Kinds == {"command_status", "event", "mode", "command", "telemetry", "payload_lifecycle",
          "data_flow", "scenario_status"}
Expected == {"ACCEPTED", "REJECTED", "FAILED", "PASSED"} \cup Events \cup Modes \cup Commands
            \cup Values \cup Lifecycles

\* The type invariant of the run.
TypeOK ==
  /\ mission \in Missions /\ initial \in mission.modes
  /\ pc \in {"step", "status", "inject", "recover", "check", "done"} \cup Errors
  /\ steps \in 0 .. MaxSteps
  /\ mode \in Modes
  /\ telemetry \in [Telemetry -> Values \cup {None}]
  /\ lifecycle \in [Payloads -> Lifecycles]
  /\ events \in Seq(mission.events)
  /\ commands \in Seq([id : Commands, status : {"ACCEPTED", "REJECTED", "AUTO_DISPATCHED",
                                                "FAILED"}, dispatch : {"GROUND", "AUTO"}])
  /\ transitions \in Seq([from : Modes, to : Modes])
  /\ evidence \subseteq [product : mission.products, command : DOMAIN mission.commands,
                         run : 1 .. Len(commands), at : Nat]
  /\ checks \in Seq([kind : Kinds, expected : Expected, passed : BOOLEAN])
  /\ Len(checks) <= MaxSteps /\ failed \in 0 .. Len(checks)
  /\ counters \in [FaultIds -> 0 .. MaxSteps] /\ triggered \subseteq FaultIds
  /\ pending \subseteq FaultIds /\ applied \in Seq(FaultIds) /\ autos \in Seq(Commands)
  /\ snapshots \in Seq([Telemetry -> Values \cup {None}])

\* mode_transitions is a path: it starts in the initial mode of the scenario,
\* ends in the current mode, and every entry leaves the mode the previous one
\* entered, whether commands or faults caused them.
ModeChain ==
  LET n == Len(transitions)
      at(k) == IF k = 0 THEN initial ELSE transitions[k].to
  IN  /\ mode = at(n)
      /\ \A k \in 1 .. n : transitions[k].from = at(k - 1) /\ transitions[k].to # at(k - 1)

\* The counters of the fault monitor implement its debounce: a fault has triggered if and
\* only if its condition was true at `debounce` evaluations in a row, of the telemetry as it
\* was before any recovery of that evaluation.  A debounce of zero is one of one sample; a
\* negative one needs none, and the fault triggers at the first evaluation.
TriggersAreDebounced ==
  LET heldAt(f, k) == snapshots[k][Fault(f).watches] \in Fault(f).holds
      samples(f) == IF Debounce(f) < 0 THEN 0 ELSE Debounce(f)
  IN  \A f \in FaultIds :
        f \in triggered <=>
          \E last \in DOMAIN snapshots :
            /\ last >= samples(f)
            /\ \A k \in (last + 1 - samples(f)) .. last : heldAt(f, k)

\* A fault recovers once in a run, however often its condition comes back.
RecoversOnce ==
  /\ IsInjective(applied)
  /\ pending \subseteq triggered /\ Range(applied) = triggered \ pending

Occurrences(x, s) == Cardinality({k \in DOMAIN s : s[k] = x})

\* The event log is accounted for: each event in it was emitted by a command
\* that was executed or by a fault whose recovery was applied, once for each
\* time they declare it; a rejected or failed command emits nothing.
EventsAccounted ==
  \A e \in Events :
    LET executed == {k \in DOMAIN commands : Executed(commands[k].status)}
        byCommand == [k \in executed |-> Occurrences(e, mission.commands[commands[k].id].emits)]
        byFault == [k \in DOMAIN applied |-> Occurrences(e, Fault(applied[k]).emits)]
    IN  Occurrences(e, events) = SumFunction(byCommand) + SumFunction(byFault)

\* Every auto command of every applied recovery is dispatched exactly once,
\* also when an earlier one was rejected or changed the mode.
AutosAccounted ==
  \A c \in Commands :
    Cardinality({k \in DOMAIN commands : commands[k].id = c /\ commands[k].dispatch = "AUTO"})
      + Occurrences(c, autos)
      = SumFunction([k \in DOMAIN applied |-> Occurrences(c, Fault(applied[k]).autos)])

\* The sequence that a command's precondition promises: between two executed
\* commands that need a payload in the same state and leave it in another,
\* some executed command brought it back.
LifecycleRespected ==
  \A j, k \in DOMAIN commands :
    LET of(n) == mission.commands[commands[n].id] IN
    (/\ j < k /\ Executed(commands[j].status) /\ Executed(commands[k].status)
     /\ of(j).lifecycle # None /\ of(k).needs # None
     /\ of(j).lifecycle[1] = of(k).needs[1] /\ of(j).lifecycle # of(k).needs)
    => \E n \in j + 1 .. k - 1 :
         Executed(commands[n].status) /\ of(n).lifecycle = of(k).needs

\* A model without lint errors is never looked up in vain: only a value of a
\* type the model does not expect can end the run with an exception.
LintedNeverKeyError == LintClean(mission) => pc # "key_error"

\* failed_expectations and the structured records agree, and a met
\* expectation on the status of the scenario agrees with the records before it.
VerdictMatchesRecords ==
  /\ failed = Cardinality({k \in DOMAIN checks : ~checks[k].passed})
  /\ \A k \in DOMAIN checks :
       checks[k].kind = "scenario_status" /\ checks[k].passed =>
         (checks[k].expected = "PASSED" <=> \A j \in 1 .. k - 1 : checks[j].passed)

\* Every scenario ends: the effects of a recovery do not start another one.
RunEnds == <>(pc \in {"done"} \cup Errors)

=============================================================================
