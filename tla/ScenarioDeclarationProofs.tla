---------------------- MODULE ScenarioDeclarationProofs ----------------------
(***************************************************************************)
(* What holds of a scenario declaration and of the accountings that are    *)
(* checked against it, for any scenarios, missions, adapters and any number*)
(* of runs, edits and kills.                                               *)
(***************************************************************************)
EXTENDS ScenarioDeclaration, SequenceTheorems, FiniteSums

---------------------------------------------------------------------------
(* FlattenSeq, by which the atoms are put one after the other. *)

LEMMA ConcatInjective ==
  ASSUME NEW T, NEW s \in Seq(T), NEW t \in Seq(T), IsInjective(s), IsInjective(t),
         Range(s) \cap Range(t) = {}
  PROVE  IsInjective(s \o t)
<1>1. /\ Len(s) \in Nat /\ Len(t) \in Nat /\ DOMAIN s = 1 .. Len(s) /\ DOMAIN t = 1 .. Len(t)
  BY LenProperties
<1>2. DOMAIN (s \o t) = 1 .. Len(s) + Len(t)
  BY ConcatProperties, LenProperties
<1>3. \A i \in 1 .. Len(s) + Len(t) :
        \/ i \in DOMAIN s /\ (s \o t)[i] = s[i]
        \/ i - Len(s) \in DOMAIN t /\ (s \o t)[i] = t[i - Len(s)]
  BY <1>1, ConcatProperties
<1>4. \A i \in DOMAIN s, j \in DOMAIN t : s[i] # t[j]
  BY DEF Range
<1> SUFFICES ASSUME NEW a \in 1 .. Len(s) + Len(t), NEW b \in 1 .. Len(s) + Len(t),
                    (s \o t)[a] = (s \o t)[b]
             PROVE  a = b
  BY <1>2 DEF IsInjective
<1>5. CASE a \in DOMAIN s /\ (s \o t)[a] = s[a]
  BY <1>3, <1>4, <1>5, ZenonT(40) DEF IsInjective
<1>6. CASE a - Len(s) \in DOMAIN t /\ (s \o t)[a] = t[a - Len(s)]
  <2>1. b - Len(s) \in DOMAIN t /\ (s \o t)[b] = t[b - Len(s)]
    BY <1>3, <1>4, <1>6
  <2>2. a - Len(s) = b - Len(s)
    BY <1>6, <2>1 DEF IsInjective
  <2> QED
    BY <1>1, <2>2
<1> QED
  BY <1>3, <1>5, <1>6

\* What the recursive function of FlattenSeq is at i, and that there is one up to n.
FlatStep(seqs, g, i) == IF i = 1 THEN seqs[i] ELSE g[i - 1] \o seqs[i]
FlatStage(seqs, n) == \E g : g = [i \in 1 .. n |-> FlatStep(seqs, g, i)]

LEMMA FlatStageNext ==
  ASSUME NEW seqs, NEW n \in Nat, FlatStage(seqs, n)
  PROVE  FlatStage(seqs, n + 1)
<1>1. PICK g : g = [i \in 1 .. n |-> FlatStep(seqs, g, i)]
  BY Zenon DEF FlatStage
<1> DEFINE h == [i \in 1 .. n + 1 |-> IF i <= n THEN g[i] ELSE FlatStep(seqs, g, i)]
<1>2. ASSUME NEW i \in 1 .. n + 1 PROVE h[i] = FlatStep(seqs, h, i)
  <2>1. h[i] = FlatStep(seqs, g, i)
    <3>1. i <= n => g[i] = FlatStep(seqs, g, i)
      <4> SUFFICES ASSUME i <= n PROVE g[i] = FlatStep(seqs, g, i)
        OBVIOUS
      <4>1. i \in 1 .. n
        OBVIOUS
      <4> QED
        BY <1>1, <4>1, Zenon
    <3> QED
      BY <3>1
  <2>2. i # 1 => h[i - 1] = g[i - 1]
    OBVIOUS
  <2> QED
    BY <2>1, <2>2 DEF FlatStep
<1>3. h = [i \in 1 .. n + 1 |-> FlatStep(seqs, h, i)]
  BY <1>2
<1> HIDE DEF h
<1> QED
  BY <1>3, Zenon DEF FlatStage

LEMMA FlattenUnfolds ==
  ASSUME NEW seqs, Len(seqs) \in Nat \ {0}
  PROVE  \E g : /\ g = [i \in 1 .. Len(seqs) |-> FlatStep(seqs, g, i)]
                /\ FlattenSeq(seqs) = g[Len(seqs)]
<1> DEFINE N == {n \in Nat : FlatStage(seqs, n)}
<1>1. FlatStage(seqs, 0)
  <2> DEFINE g == [i \in 1 .. 0 |-> seqs]
  <2>1. g = [i \in 1 .. 0 |-> FlatStep(seqs, g, i)]
    OBVIOUS
  <2> HIDE DEF g
  <2> QED
    BY <2>1, Zenon DEF FlatStage
<1>2. Nat \subseteq N
  <2>1. 0 \in N /\ \A n \in Nat : n \in N => n + 1 \in N
    BY <1>1, FlatStageNext
  <2> HIDE DEF N
  <2> QED
    BY <2>1, InductionOnNat
<1>3. \E g : g = [i \in 1 .. Len(seqs) |-> FlatStep(seqs, g, i)]
  BY <1>2, Zenon DEF FlatStage
<1> DEFINE f == CHOOSE g : g = [i \in 1 .. Len(seqs) |-> FlatStep(seqs, g, i)]
<1>4. f = [i \in 1 .. Len(seqs) |-> FlatStep(seqs, f, i)]
  BY <1>3, Zenon
<1>5. FlattenSeq(seqs) = f[Len(seqs)]
  <2>1. Len(seqs) # 0
    OBVIOUS
  <2> QED
    BY <2>1, Zenon DEF FlattenSeq, FlatStep
<1> HIDE DEF f
<1> QED
  BY <1>4, <1>5, Zenon

\* A sequence of sequences without a common element, each without a repetition, is put
\* together to one without a repetition, of the elements of all of them.
LEMMA FlattenFacts ==
  ASSUME NEW T, NEW seqs \in Seq(Seq(T)),
         \A i \in DOMAIN seqs : IsInjective(seqs[i]),
         \A i, j \in DOMAIN seqs : i # j => Range(seqs[i]) \cap Range(seqs[j]) = {}
  PROVE  /\ FlattenSeq(seqs) \in Seq(T) /\ IsInjective(FlattenSeq(seqs))
         /\ Range(FlattenSeq(seqs)) = UNION {Range(seqs[i]) : i \in DOMAIN seqs}
<1> DEFINE L == Len(seqs)
<1>1. L \in Nat /\ DOMAIN seqs = 1 .. L /\ \A i \in 1 .. L : seqs[i] \in Seq(T)
  BY LenProperties
<1>2. CASE L = 0
  <2>1. FlattenSeq(seqs) = seqs /\ seqs = <<>>
    BY <1>2, EmptySeq, Zenon DEF FlattenSeq
  <2>2. DOMAIN seqs = {}
    BY <1>1, <1>2
  <2> QED
    BY <2>1, <2>2, EmptySeq DEF IsInjective, Range
<1>3. CASE L # 0
  <2>1. PICK g : g = [i \in 1 .. L |-> FlatStep(seqs, g, i)] /\ FlattenSeq(seqs) = g[L]
    BY <1>1, <1>3, FlattenUnfolds
  <2>2. \A i \in 1 .. L : g[i] = FlatStep(seqs, g, i)
    BY <2>1
  <2> DEFINE Good(n) == /\ g[n] \in Seq(T) /\ IsInjective(g[n])
                        /\ Range(g[n]) = UNION {Range(seqs[i]) : i \in 1 .. n}
             N == {n \in Nat : n \in 1 .. L => Good(n)}
  <2>3. 0 \in N
    OBVIOUS
  <2>4. ASSUME NEW n \in Nat, n \in N PROVE n + 1 \in N
    <3> SUFFICES ASSUME n + 1 \in 1 .. L PROVE Good(n + 1)
      OBVIOUS
    <3>1. CASE n = 0
      <4>1. g[1] = seqs[1]
        BY <1>1, <1>3, <2>2 DEF FlatStep
      <4>2. {Range(seqs[i]) : i \in 1 .. 1} = {Range(seqs[1])}
        OBVIOUS
      <4> QED
        BY <1>1, <3>1, <4>1, <4>2
    <3>2. CASE n # 0
      <4>1. n \in 1 .. L /\ Good(n)
        BY <1>1, <2>4, <3>2
      <4>2. g[n + 1] = g[n] \o seqs[n + 1]
        <5> DEFINE i == n + 1
        <5>1. i \in 1 .. L /\ i # 1 /\ i - 1 = n
          BY <1>1, <3>2
        <5> HIDE DEF i, L
        <5>2. g[i] = g[i - 1] \o seqs[i]
          BY <2>2, <5>1, Zenon DEF FlatStep
        <5>3. g[i] = g[n] \o seqs[i]
          BY <5>1, <5>2, Zenon
        <5> QED
          BY <5>3 DEF i
      <4>3. seqs[n + 1] \in Seq(T) /\ IsInjective(seqs[n + 1])
        <5>1. n + 1 \in 1 .. L /\ n + 1 \in DOMAIN seqs
          BY <1>1
        <5> HIDE DEF L
        <5> QED
          BY <1>1, <5>1
      <4>4. Range(g[n]) \cap Range(seqs[n + 1]) = {}
        <5>1. ASSUME NEW i \in 1 .. n PROVE Range(seqs[i]) \cap Range(seqs[n + 1]) = {}
          <6>1. i \in DOMAIN seqs /\ n + 1 \in DOMAIN seqs /\ i # n + 1
            BY <1>1
          <6> QED
            BY <6>1, Zenon
        <5> QED
          BY <4>1, <5>1
      <4> DEFINE u == g[n]  v == seqs[n + 1]
      <4>5. u \o v \in Seq(T) /\ Range(u \o v) = Range(u) \cup Range(v) /\ IsInjective(u \o v)
        <5>1. u \in Seq(T) /\ v \in Seq(T) /\ IsInjective(u) /\ IsInjective(v)
              /\ Range(u) \cap Range(v) = {}
          BY <4>1, <4>3, <4>4
        <5> HIDE DEF u, v
        <5> QED
          BY <5>1, ConcatProperties, RangeConcatenation, ConcatInjective
      <4>6. UNION {Range(seqs[i]) : i \in 1 .. n + 1} =
              (UNION {Range(seqs[i]) : i \in 1 .. n}) \cup Range(seqs[n + 1])
        <5>1. 1 .. n + 1 = (1 .. n) \cup {n + 1}
          OBVIOUS
        <5> QED
          BY <5>1
      <4> QED
        BY <4>1, <4>2, <4>5, <4>6
    <3> QED
      BY <3>1, <3>2
  <2>5. L \in N
    <3> HIDE DEF N
    <3> QED
      BY <1>1, <2>3, <2>4, InductionOnNat
  <2>6. Good(L)
    BY <1>1, <1>3, <2>5
  <2> QED
    BY <1>1, <2>1, <2>6
<1> QED
  BY <1>2, <1>3

---------------------------------------------------------------------------
(* The records of a step. *)

\* A sequence of records without a repetition: what it is made of and what is in it.
IsRecords(s, T, R) == s \in Seq(T) /\ IsInjective(s) /\ Range(s) = R

LEMMA NoRecord == ASSUME NEW T PROVE IsRecords(<<>>, T, {})
<1>1. DOMAIN << >> = {}
  OBVIOUS
<1> QED
  BY <1>1 DEF IsRecords, IsInjective, Range

LEMMA OneRecord == ASSUME NEW T, NEW r \in T PROVE IsRecords(<<r>>, T, {r})
<1>1. DOMAIN <<r>> = {1} /\ <<r>>[1] = r /\ <<r>> \in Seq(T)
  OBVIOUS
<1> DEFINE s == <<r>>
<1> HIDE DEF s
<1> QED
  BY <1>1 DEF IsRecords, IsInjective, Range, s

LEMMA SortedFacts ==
  ASSUME NEW S, IsFiniteSet(S)
  PROVE  IsRecords(Sorted(S), S, S) /\ Cardinality(S) \in Nat
         /\ DOMAIN Sorted(S) = 1 .. Cardinality(S)
<1> DEFINE N == Cardinality(S)
<1>1. N \in Nat /\ ExistsBijection(1 .. N, S)
  BY FS_CardinalityType
<1>2. PICK f \in [1 .. N -> S] : IsInjective(f)
  BY <1>1 DEF ExistsBijection, Bijection, Injection
<1>3. Sorted(S) \in [1 .. N -> S] /\ IsInjective(Sorted(S))
  BY <1>2, Zenon DEF Sorted, SetToSeq
<1>4. IsFiniteSet(1 .. N) /\ Cardinality(1 .. N) = N
  BY <1>1, FS_Interval
<1> DEFINE s == Sorted(S)
<1> HIDE DEF s
<1>5. s \in Injection(1 .. N, S)
  BY <1>3 DEF Injection, s
<1>6. s \in Surjection(1 .. N, S)
  <2> HIDE DEF N
  <2> QED
    BY <1>4, <1>5, FS_Injection DEF N
<1>7. Range(s) = S
  BY <1>6 DEF Surjection, Range
<1>8. s \in Seq(S) /\ DOMAIN s = 1 .. N
  BY <1>1, <1>3 DEF s
<1> QED
  BY <1>1, <1>3, <1>7, <1>8 DEF IsRecords, s

LEMMA RecordForFacts ==
  ASSUME NEW T, NEW kind, NEW domain, NEW id, id # None => Record(kind, {<<domain, id>>}) \in T
  PROVE  IsRecords(RecordFor(kind, domain, id), T,
                   IF id = None THEN {} ELSE {Record(kind, {<<domain, id>>})})
BY NoRecord, OneRecord DEF RecordFor

LEMMA RecordIfFacts ==
  ASSUME NEW T, NEW step, NEW key, NEW kind, NEW refs, Expects(step, key) => Record(kind, refs) \in T
  PROVE  IsRecords(RecordIf(step, key, kind, refs), T,
                   IF Expects(step, key) THEN {Record(kind, refs)} ELSE {})
BY NoRecord, OneRecord DEF RecordIf

LEMMA TelemetryRecordsFacts ==
  ASSUME NEW T, NEW kind, NEW ids, IsFiniteSet(ids),
         \A x \in ids : Record(kind, {<<"telemetry", x>>}) \in T
  PROVE  IsRecords(TelemetryRecords(kind, ids), T, {Record(kind, {<<"telemetry", x>>}) : x \in ids})
<1> DEFINE N == Cardinality(ids)
           q == Sorted(ids)
           of(x) == Record(kind, {<<"telemetry", x>>})
           s == TelemetryRecords(kind, ids)
<1>1. N \in Nat /\ DOMAIN q = 1 .. N /\ IsInjective(q) /\ Range(q) = ids
  BY SortedFacts DEF IsRecords
<1>2. \A k \in 1 .. N : q[k] \in ids
  BY <1>1 DEF Range
<1>3. s = [k \in 1 .. N |-> of(q[k])]
  BY <1>1 DEF TelemetryRecords
<1>4. ASSUME NEW x, NEW y, of(x) = of(y) PROVE x = y
  <2>1. of(x).refs = {<<"telemetry", x>>} /\ of(y).refs = {<<"telemetry", y>>}
    BY DEF Record
  <2>2. <<"telemetry", x>> \in {<<"telemetry", y>>}
    BY <1>4, <2>1
  <2> QED
    BY <2>2
<1> HIDE DEF s, q, N, of
<1>5. \A x \in ids : of(x) \in T
  BY DEF of
<1>6. s \in Seq(T) /\ DOMAIN s = 1 .. N
  BY <1>1, <1>2, <1>3, <1>5
<1>7. IsInjective(s)
  BY <1>1, <1>3, <1>4 DEF IsInjective
<1>8. Range(s) = {of(x) : x \in ids}
  BY <1>1, <1>3 DEF Range
<1> QED
  BY <1>6, <1>7, <1>8 DEF IsRecords, s, of

Sampled(step) == IF step.expect_telemetry = None THEN {} ELSE step.expect_telemetry
Payloads(step) ==
  IF Expects(step, "payload_lifecycle")
    THEN {<<"payloads", step.expect["payload_lifecycle"].payload>>} ELSE {}

\* The references of a step that the loader looks up.
StepRefs(step) ==
  Named("commands", {step.command, step.expect_command})
  \cup Named("telemetry", {step.inject} \cup Sampled(step))
  \cup Named("events", {step.expect_event}) \cup Named("modes", {step.expect_mode})
  \cup FlowReferences(step)

\* What is referred to by records of a declaration made with m.
DeclaredRefs(m) == {ref \in Domains \X Ids : Declares(m, ref)}
Recs(m) == [kind : Kinds, refs : SUBSET DeclaredRefs(m)]

LEMMA ReferencesDeclared ==
  ASSUME NEW m \in Missions, NEW domain \in Domains, NEW x, x \in Mission[m].ids[domain]
  PROVE  <<domain, x>> \in DeclaredRefs(m)
<1>1. x \in Ids
  BY DeclarationAssumption
<1> QED
  BY <1>1 DEF DeclaredRefs, Declares

\* What may be looked up is declared, and it has a domain.
LEMMA FlowReferencesDeclared ==
  ASSUME NEW m \in Missions, NEW step, \A ref \in FlowReferences(step) : Declares(m, ref)
  PROVE  FlowReferences(step) \subseteq DeclaredRefs(m)
<1> SUFFICES ASSUME NEW ref \in FlowReferences(step) PROVE ref \in DeclaredRefs(m)
  OBVIOUS
<1>1. "commands" \in Domains /\ "downlink_flows" \in Domains /\ "contact_windows" \in Domains
      /\ "data_products" \in Domains
  BY DEF Domains
<1>2. \A f \in DOMAIN FlowFields : FlowFields[f] \in Domains
  BY <1>1 DEF FlowFields
<1>3. PICK domain, x : domain \in Domains /\ ref = <<domain, x>>
  BY <1>1, <1>2 DEF FlowReferences
<1>4. x \in Mission[m].ids[domain]
  BY <1>3 DEF Declares
<1> QED
  BY <1>3, <1>4, ReferencesDeclared

\* The parts of the records of a step, what is in each part, and its kind.
Pieces(step) ==
  <<RecordFor("command", "commands", step.command),
    RecordIf(step, "command_status", "expect_command_status", Named("commands", {step.command})),
    RecordFor("telemetry_injection", "telemetry", step.inject),
    RecordFor("expect_event", "events", step.expect_event),
    RecordFor("expect_mode", "modes", step.expect_mode),
    RecordFor("expect_command", "commands", step.expect_command),
    TelemetryRecords("expect_telemetry", Sampled(step)),
    RecordIf(step, "payload_lifecycle", "expect_payload_lifecycle", Payloads(step)),
    RecordIf(step, "data_flow", "expect_data_flow", FlowReferences(step)),
    RecordIf(step, "scenario_status", "expect_scenario_status", {})>>
KindOf == <<"command", "expect_command_status", "telemetry_injection", "expect_event",
            "expect_mode", "expect_command", "expect_telemetry", "expect_payload_lifecycle",
            "expect_data_flow", "expect_scenario_status">>

ForOne(kind, domain, id) == IF id = None THEN {} ELSE {Record(kind, {<<domain, id>>})}
If(step, key, kind, refs) == IF Expects(step, key) THEN {Record(kind, refs)} ELSE {}
PieceSets(step) ==
  <<ForOne("command", "commands", step.command),
    If(step, "command_status", "expect_command_status", Named("commands", {step.command})),
    ForOne("telemetry_injection", "telemetry", step.inject),
    ForOne("expect_event", "events", step.expect_event),
    ForOne("expect_mode", "modes", step.expect_mode),
    ForOne("expect_command", "commands", step.expect_command),
    {Record("expect_telemetry", {<<"telemetry", x>>}) : x \in Sampled(step)},
    If(step, "payload_lifecycle", "expect_payload_lifecycle", Payloads(step)),
    If(step, "data_flow", "expect_data_flow", FlowReferences(step)),
    If(step, "scenario_status", "expect_scenario_status", {})>>

LEMMA PieceFacts ==
  ASSUME NEW m \in Missions, NEW step, IsStep(step), ~NormalizationFails(step, m),
         \A ref \in StepRefs(step) : Declares(m, ref),
         NEW i \in 1 .. 10
  PROVE  IsRecords(Pieces(step)[i], Recs(m), PieceSets(step)[i])
<1>1. ASSUME NEW kind \in Kinds, NEW domain \in Domains, NEW x, <<domain, x>> \in StepRefs(step)
      PROVE  Record(kind, {<<domain, x>>}) \in Recs(m) /\ <<domain, x>> \in DeclaredRefs(m)
  <2>1. x \in Mission[m].ids[domain]
    BY <1>1 DEF Declares
  <2> QED
    BY <2>1, ReferencesDeclared DEF Recs, Record
<1>2. {"modes", "telemetry", "commands", "events", "payloads"} \subseteq Domains
  BY DEF Domains
<1>3. /\ \A x \in {step.command, step.expect_command} : x # None => <<"commands", x>> \in StepRefs(step)
      /\ \A x \in {step.inject} \cup Sampled(step) : x # None => <<"telemetry", x>> \in StepRefs(step)
      /\ step.expect_event # None => <<"events", step.expect_event>> \in StepRefs(step)
      /\ step.expect_mode # None => <<"modes", step.expect_mode>> \in StepRefs(step)
      /\ FlowReferences(step) \subseteq StepRefs(step)
  BY DEF StepRefs, Named
<1>4. Named("commands", {step.command}) \subseteq DeclaredRefs(m)
  <2> SUFFICES ASSUME step.command # None PROVE <<"commands", step.command>> \in DeclaredRefs(m)
    BY DEF Named
  <2>1. <<"commands", step.command>> \in StepRefs(step) /\ "commands" \in Domains
        /\ "command" \in Kinds
    BY <1>2, <1>3 DEF Kinds
  <2> QED
    BY <1>1, <2>1
<1>5. FlowReferences(step) \subseteq DeclaredRefs(m)
  BY <1>3, FlowReferencesDeclared
<1>6. Expects(step, "payload_lifecycle") => Payloads(step) \subseteq DeclaredRefs(m)
  <2> SUFFICES ASSUME Expects(step, "payload_lifecycle") PROVE Payloads(step) \subseteq DeclaredRefs(m)
    OBVIOUS
  <2> DEFINE value == step.expect["payload_lifecycle"]
  <2>1. value.payload \in Mission[m].ids["payloads"]
    BY DEF NormalizationFails, LifecycleUnusable, Declares
  <2> QED
    BY <1>2, <2>1, ReferencesDeclared DEF Payloads
<1>7. \A x \in Sampled(step) : x \in Ids /\ x # None
  BY DeclarationAssumption DEF Sampled, IsStep
<1>8. IsFiniteSet(Sampled(step))
  BY <1>7, DeclarationAssumption, FS_Subset
<1>9. ASSUME NEW kind \in Kinds, NEW domain \in Domains, NEW x,
             x # None => <<domain, x>> \in StepRefs(step)
      PROVE  IsRecords(RecordFor(kind, domain, x), Recs(m), ForOne(kind, domain, x))
  <2>1. x # None => Record(kind, {<<domain, x>>}) \in Recs(m)
    BY <1>1, <1>9
  <2> QED
    BY <2>1, RecordForFacts DEF ForOne
<1>10. ASSUME NEW key, NEW kind \in Kinds, NEW refs,
              Expects(step, key) => refs \subseteq DeclaredRefs(m)
       PROVE  IsRecords(RecordIf(step, key, kind, refs), Recs(m), If(step, key, kind, refs))
  <2>1. Expects(step, key) => Record(kind, refs) \in Recs(m)
    BY <1>10 DEF Record, Recs
  <2> QED
    BY <2>1, RecordIfFacts DEF If
<1>11. IsRecords(TelemetryRecords("expect_telemetry", Sampled(step)), Recs(m),
                 {Record("expect_telemetry", {<<"telemetry", x>>}) : x \in Sampled(step)})
  <2>1. ASSUME NEW x \in Sampled(step)
        PROVE  Record("expect_telemetry", {<<"telemetry", x>>}) \in Recs(m)
    <3>1. "expect_telemetry" \in Kinds /\ "telemetry" \in Domains
          /\ <<"telemetry", x>> \in StepRefs(step)
      BY <1>2, <1>3, <1>7 DEF Kinds
    <3> QED
      BY <1>1, <3>1
  <2> QED
    BY <1>8, <2>1, TelemetryRecordsFacts
<1>12. {"command", "expect_command_status", "telemetry_injection", "expect_event", "expect_mode",
        "expect_command", "expect_telemetry", "expect_payload_lifecycle", "expect_data_flow",
        "expect_scenario_status"} \subseteq Kinds
  BY DEF Kinds
<1>13. CASE i = 1
  <2>1. IsRecords(RecordFor("command", "commands", step.command), Recs(m),
                  ForOne("command", "commands", step.command))
    BY <1>2, <1>3, <1>9, <1>12
  <2> QED
    BY <1>13, <2>1 DEF Pieces, PieceSets
<1>14. CASE i = 2
  <2> DEFINE refs == Named("commands", {step.command})
  <2>1. IsRecords(RecordIf(step, "command_status", "expect_command_status", refs), Recs(m),
                  If(step, "command_status", "expect_command_status", refs))
    BY <1>4, <1>10, <1>12
  <2> QED
    BY <1>14, <2>1 DEF Pieces, PieceSets
<1>15. CASE i = 3
  <2>1. IsRecords(RecordFor("telemetry_injection", "telemetry", step.inject), Recs(m),
                  ForOne("telemetry_injection", "telemetry", step.inject))
    BY <1>2, <1>3, <1>9, <1>12
  <2> QED
    BY <1>15, <2>1 DEF Pieces, PieceSets
<1>16. CASE i = 4
  <2>1. IsRecords(RecordFor("expect_event", "events", step.expect_event), Recs(m),
                  ForOne("expect_event", "events", step.expect_event))
    <3>1. "events" \in Domains
      BY DEF Domains
    <3> QED
      BY <1>3, <1>9, <1>12, <3>1
  <2> QED
    BY <1>16, <2>1 DEF Pieces, PieceSets
<1>17. CASE i = 5
  <2>1. IsRecords(RecordFor("expect_mode", "modes", step.expect_mode), Recs(m),
                  ForOne("expect_mode", "modes", step.expect_mode))
    BY <1>2, <1>3, <1>9, <1>12
  <2> QED
    BY <1>17, <2>1 DEF Pieces, PieceSets
<1>18. CASE i = 6
  <2>1. IsRecords(RecordFor("expect_command", "commands", step.expect_command), Recs(m),
                  ForOne("expect_command", "commands", step.expect_command))
    BY <1>2, <1>3, <1>9, <1>12
  <2> QED
    BY <1>18, <2>1 DEF Pieces, PieceSets
<1>19. CASE i = 7
  BY <1>11, <1>19 DEF Pieces, PieceSets
<1>20. CASE i = 8
  <2>1. IsRecords(RecordIf(step, "payload_lifecycle", "expect_payload_lifecycle", Payloads(step)),
                  Recs(m), If(step, "payload_lifecycle", "expect_payload_lifecycle", Payloads(step)))
    BY <1>6, <1>10, <1>12
  <2> QED
    BY <1>20, <2>1 DEF Pieces, PieceSets
<1>21. CASE i = 9
  <2>1. IsRecords(RecordIf(step, "data_flow", "expect_data_flow", FlowReferences(step)), Recs(m),
                  If(step, "data_flow", "expect_data_flow", FlowReferences(step)))
    BY <1>5, <1>10, <1>12
  <2> QED
    BY <1>21, <2>1 DEF Pieces, PieceSets
<1>22. CASE i = 10
  <2>1. IsRecords(RecordIf(step, "scenario_status", "expect_scenario_status", {}), Recs(m),
                  If(step, "scenario_status", "expect_scenario_status", {}))
    BY <1>10, <1>12
  <2> QED
    BY <1>22, <2>1 DEF Pieces, PieceSets
<1>23. i \in {1, 2, 3, 4, 5, 6, 7, 8, 9, 10}
  OBVIOUS
<1> QED
  BY <1>13, <1>14, <1>15, <1>16, <1>17, <1>18, <1>19, <1>20, <1>21, <1>22, <1>23

LEMMA PieceKinds ==
  ASSUME NEW step, NEW i \in 1 .. 10, NEW r \in PieceSets(step)[i]
  PROVE  r.kind = KindOf[i]
<1>1. ASSUME NEW kind, NEW domain, NEW id, NEW x \in ForOne(kind, domain, id) PROVE x.kind = kind
  BY DEF ForOne, Record
<1>2. ASSUME NEW key, NEW kind, NEW refs, NEW x \in If(step, key, kind, refs) PROVE x.kind = kind
  BY DEF If, Record
<1>3. ASSUME NEW kind, NEW ids, NEW x \in {Record(kind, {<<"telemetry", y>>}) : y \in ids}
      PROVE  x.kind = kind
  BY DEF Record
<1>4. CASE i \in {1, 3, 4, 5, 6}
  BY <1>1, <1>4 DEF PieceSets, KindOf
<1>5. CASE i \in {2, 8, 9, 10}
  BY <1>2, <1>5 DEF PieceSets, KindOf
<1>6. CASE i = 7
  BY <1>3, <1>6 DEF PieceSets, KindOf
<1>7. i \in {1, 2, 3, 4, 5, 6, 7, 8, 9, 10}
  OBVIOUS
<1> QED
  BY <1>4, <1>5, <1>6, <1>7

LEMMA StepRecordsFacts ==
  ASSUME NEW m \in Missions, NEW step, IsStep(step), ~NormalizationFails(step, m),
         \A ref \in StepRefs(step) : Declares(m, ref)
  PROVE  /\ IsRecords(StepRecords(step), Recs(m), UNION {PieceSets(step)[i] : i \in 1 .. 10})
         /\ StepRecords(step) # <<>>
<1> DEFINE p == Pieces(step)
           T == Recs(m)
<1>1. StepRecords(step) = FlattenSeq(p)
  BY Zenon DEF StepRecords, Pieces, Sampled, Payloads
<1>2. DOMAIN p = 1 .. 10 /\ p = [i \in 1 .. 10 |-> p[i]]
  BY DEF Pieces
<1>3. \A i \in 1 .. 10 : IsRecords(p[i], T, PieceSets(step)[i])
  BY PieceFacts
<1>4. \A i, j \in 1 .. 10 : KindOf[i] = KindOf[j] => i = j
  BY DEF KindOf
<1>5. \A i, j \in 1 .. 10 : i # j => PieceSets(step)[i] \cap PieceSets(step)[j] = {}
  BY <1>4, PieceKinds
<1> HIDE DEF p, T
<1>6. p \in Seq(Seq(T))
  <2>1. \A i \in 1 .. 10 : p[i] \in Seq(T)
    BY <1>3 DEF IsRecords
  <2>2. p \in [1 .. 10 -> Seq(T)]
    BY <1>2, <2>1
  <2> DEFINE S == Seq(T)
  <2> HIDE DEF S
  <2>3. p \in UNION {[1 .. n -> S] : n \in Nat}
    BY <2>2 DEF S
  <2>4. p \in Seq(S)
    BY <2>3, SeqDef, Zenon
  <2> QED
    BY <2>4 DEF S
<1>7. \A i \in 1 .. 10 : IsInjective(p[i]) /\ Range(p[i]) = PieceSets(step)[i]
  BY <1>3 DEF IsRecords
<1>8. \A i, j \in DOMAIN p : i # j => Range(p[i]) \cap Range(p[j]) = {}
  BY <1>2, <1>5, <1>7
<1>9. {Range(p[i]) : i \in DOMAIN p} = {PieceSets(step)[i] : i \in 1 .. 10}
  BY <1>2, <1>7
<1>10. /\ FlattenSeq(p) \in Seq(T) /\ IsInjective(FlattenSeq(p))
       /\ Range(FlattenSeq(p)) = UNION {Range(p[i]) : i \in DOMAIN p}
  BY <1>2, <1>6, <1>7, <1>8, FlattenFacts
<1>11. StepRecords(step) # <<>>
  BY DEF NormalizationFails, Contentless
<1> QED
  BY <1>1, <1>9, <1>10, <1>11 DEF IsRecords, T

---------------------------------------------------------------------------
(* The atoms of a scenario that can be declared. *)

\* Scenario contents that become the declaration of their atoms for a mission.
Declarable(c, m) ==
  ~LoadFails(c, m) /\ \A k \in DOMAIN c.steps : ~NormalizationFails(c.steps[k], m)

InitialRecords(c) ==
  <<Record("scenario_metadata", {}), Record("initial_mode", {<<"modes", c.mode>>})>>
  \o TelemetryRecords("initial_telemetry", c.telemetry)
InitialSet(c) ==
  {Record("scenario_metadata", {}), Record("initial_mode", {<<"modes", c.mode>>})}
  \cup {Record("initial_telemetry", {<<"telemetry", x>>}) : x \in c.telemetry}
StepSet(step) == UNION {PieceSets(step)[i] : i \in 1 .. 10}

AtomOf(k, record) == [step |-> k, kind |-> record.kind, refs |-> record.refs]
AtomAt(k, records) ==
  [n \in DOMAIN records |-> [step |-> k, kind |-> records[n].kind, refs |-> records[n].refs]]
AtomSet(n, m) == [step : 0 .. n, kind : Kinds, refs : SUBSET DeclaredRefs(m)]
AtomsOf(k, R) == {AtomOf(k, record) : record \in R}

LEMMA AtFacts ==
  ASSUME NEW m, NEW n \in Nat, NEW k \in 0 .. n, NEW s, NEW R, IsRecords(s, Recs(m), R)
  PROVE  IsRecords(AtomAt(k, s), AtomSet(n, m), AtomsOf(k, R))
<1> DEFINE a == AtomAt(k, s)
<1>1. Len(s) \in Nat /\ DOMAIN s = 1 .. Len(s) /\ \A i \in DOMAIN s : s[i] \in Recs(m)
  BY LenProperties, ElementOfSeq DEF IsRecords
<1>2. DOMAIN a = DOMAIN s /\ \A i \in DOMAIN s : a[i] = AtomOf(k, s[i])
  BY DEF AtomAt, AtomOf
<1>3. \A x \in Recs(m) : AtomOf(k, x) \in AtomSet(n, m)
  BY DEF AtomOf, AtomSet, Recs
<1>4. \A x, y \in Recs(m) : AtomOf(k, x) = AtomOf(k, y) => x = y
  BY DEF AtomOf, Recs
<1>5. a = [i \in 1 .. Len(s) |-> a[i]]
  BY <1>1 DEF AtomAt
<1> HIDE DEF a
<1>6. a \in Seq(AtomSet(n, m))
  <2>1. a \in [1 .. Len(s) -> AtomSet(n, m)]
    BY <1>1, <1>2, <1>3, <1>5
  <2> QED
    BY <1>1, <2>1, SeqDef
<1>7. IsInjective(a)
  BY <1>1, <1>2, <1>4 DEF IsInjective, IsRecords
<1>8. Range(a) = AtomsOf(k, R)
  BY <1>2 DEF Range, AtomsOf, IsRecords
<1> QED
  BY <1>6, <1>7, <1>8 DEF IsRecords, a

LEMMA ConcatFacts ==
  ASSUME NEW T, NEW s, NEW t, NEW R, NEW Q, IsRecords(s, T, R), IsRecords(t, T, Q), R \cap Q = {}
  PROVE  IsRecords(s \o t, T, R \cup Q)
BY ConcatProperties, RangeConcatenation, ConcatInjective DEF IsRecords

LEMMA InitialFacts ==
  ASSUME NEW m \in Missions, NEW c, IsContent(c), ~LoadFails(c, m)
  PROVE  IsRecords(InitialRecords(c), Recs(m), InitialSet(c))
<1> DEFINE one == Record("scenario_metadata", {})
           two == Record("initial_mode", {<<"modes", c.mode>>})
           telemetry == {Record("initial_telemetry", {<<"telemetry", x>>}) : x \in c.telemetry}
<1>1. \A ref \in references(c) : Declares(m, ref)
  BY DEF LoadFails, ReferenceFindings
<1>2. "modes" \in Domains /\ "telemetry" \in Domains
  BY DEF Domains
<1>3. <<"modes", c.mode>> \in DeclaredRefs(m)
  <2>1. <<"modes", c.mode>> \in references(c)
    BY DEF references
  <2>2. c.mode \in Mission[m].ids["modes"]
    BY <1>1, <2>1 DEF Declares
  <2> QED
    BY <1>2, <2>2, ReferencesDeclared
<1>4. ASSUME NEW x \in c.telemetry PROVE <<"telemetry", x>> \in DeclaredRefs(m)
  <2>1. <<"telemetry", x>> \in references(c)
    <3>1. x \in c.telemetry \ {None}
      BY DeclarationAssumption DEF IsContent
    <3> QED
      BY <3>1 DEF references, Named
  <2>2. x \in Mission[m].ids["telemetry"]
    BY <1>1, <2>1 DEF Declares
  <2> QED
    BY <1>2, <2>2, ReferencesDeclared
<1>5. {"scenario_metadata", "initial_mode", "initial_telemetry"} \subseteq Kinds
  BY DEF Kinds
<1>6. one \in Recs(m) /\ two \in Recs(m)
      /\ \A x \in c.telemetry : Record("initial_telemetry", {<<"telemetry", x>>}) \in Recs(m)
  BY <1>3, <1>4, <1>5 DEF Recs, Record
<1>7. IsFiniteSet(c.telemetry)
  BY DeclarationAssumption, FS_Subset DEF IsContent
<1>8. IsRecords(TelemetryRecords("initial_telemetry", c.telemetry), Recs(m), telemetry)
  BY <1>6, <1>7, TelemetryRecordsFacts
<1>9. one.kind = "scenario_metadata" /\ two.kind = "initial_mode"
      /\ \A x \in telemetry : x.kind = "initial_telemetry"
  BY DEF Record
<1> HIDE DEF one, two, telemetry
<1>10. IsRecords(<<one, two>>, Recs(m), {one, two})
  <2> DEFINE s == <<one, two>>
  <2>1. s \in Seq(Recs(m)) /\ DOMAIN s = {1, 2} /\ s[1] = one /\ s[2] = two /\ one # two
    BY <1>6, <1>9
  <2> HIDE DEF s
  <2>2. IsInjective(s)
    BY <2>1 DEF IsInjective
  <2>3. Range(s) = {one, two}
    BY <2>1 DEF Range
  <2> QED
    BY <2>1, <2>2, <2>3 DEF IsRecords, s
<1>11. {one, two} \cap telemetry = {}
  BY <1>9
<1>12. IsRecords(<<one, two>> \o TelemetryRecords("initial_telemetry", c.telemetry), Recs(m),
                 {one, two} \cup telemetry)
  BY <1>8, <1>10, <1>11, ConcatFacts
<1> QED
  BY <1>12 DEF InitialRecords, InitialSet, one, two, telemetry

LEMMA StepsFacts ==
  ASSUME NEW m \in Missions, NEW c, IsContent(c), Declarable(c, m), NEW k \in DOMAIN c.steps
  PROVE  IsRecords(StepRecords(c.steps[k]), Recs(m), StepSet(c.steps[k]))
         /\ StepRecords(c.steps[k]) # <<>>
<1> DEFINE step == c.steps[k]
<1>1. StepRefs(step) \subseteq references(c)
  BY DEF references, StepRefs, Sampled
<1>2. \A ref \in StepRefs(step) : Declares(m, ref)
  BY <1>1 DEF Declarable, LoadFails, ReferenceFindings
<1>3. IsStep(step) /\ ~NormalizationFails(step, m)
  BY DEF IsContent, Declarable
<1> QED
  BY <1>2, <1>3, StepRecordsFacts DEF StepSet

\* The atoms of the scenario as a whole, and of its steps.
StepAtoms(c) == UNION {AtomsOf(k, StepSet(c.steps[k])) : k \in 1 .. Len(c.steps)}
AllAtoms(c) == AtomsOf(0, InitialSet(c)) \cup StepAtoms(c)

LEMMA AtomsFacts ==
  ASSUME NEW m \in Missions, NEW c, IsContent(c), Declarable(c, m)
  PROVE  /\ Len(c.steps) \in Nat /\ DOMAIN c.steps = 1 .. Len(c.steps)
         /\ IsRecords(Atoms(c), AtomSet(Len(c.steps), m), AllAtoms(c))
<1> DEFINE n == Len(c.steps)
           T == AtomSet(n, m)
           first == AtomAt(0, InitialRecords(c))
           rest == [k \in DOMAIN c.steps |-> AtomAt(k, StepRecords(c.steps[k]))]
           R(k) == AtomsOf(k, StepSet(c.steps[k]))
<1>1. n \in Nat /\ DOMAIN c.steps = 1 .. n
  BY LenProperties DEF IsContent
<1>2. Atoms(c) = first \o FlattenSeq(rest)
  BY DEF Atoms, AtomAt, InitialRecords
<1>3. IsRecords(first, T, AtomsOf(0, InitialSet(c)))
  <2>1. 0 \in 0 .. n
    BY <1>1
  <2> QED
    BY <1>1, <2>1, InitialFacts, AtFacts DEF Declarable
<1>4. ASSUME NEW k \in 1 .. n PROVE IsRecords(rest[k], T, R(k))
  <2>1. k \in 0 .. n /\ k \in DOMAIN c.steps
    BY <1>1
  <2>2. IsRecords(StepRecords(c.steps[k]), Recs(m), StepSet(c.steps[k]))
    BY <2>1, StepsFacts
  <2>3. rest[k] = AtomAt(k, StepRecords(c.steps[k]))
    BY <2>1
  <2> HIDE DEF rest
  <2> QED
    BY <1>1, <2>1, <2>2, <2>3, AtFacts
<1>5. ASSUME NEW k, NEW x \in R(k) PROVE x.step = k
  BY DEF AtomsOf, AtomOf
<1>6. DOMAIN rest = 1 .. n /\ rest = [k \in 1 .. n |-> rest[k]]
  BY <1>1
<1> HIDE DEF n, T, first, rest, R
<1>7. rest \in Seq(Seq(T))
  <2> DEFINE S == Seq(T)
  <2>1. \A k \in 1 .. n : rest[k] \in S
    BY <1>4 DEF IsRecords
  <2> HIDE DEF S
  <2>2. rest \in [1 .. n -> S]
    BY <1>6, <2>1
  <2>3. rest \in UNION {[1 .. i -> S] : i \in Nat}
    BY <1>1, <2>2
  <2>4. rest \in Seq(S)
    BY <2>3, SeqDef, Zenon
  <2> QED
    BY <2>4 DEF S
<1>8. \A k \in 1 .. n : IsInjective(rest[k]) /\ Range(rest[k]) = R(k)
  BY <1>4 DEF IsRecords
<1>9. \A j, k \in DOMAIN rest : j # k => Range(rest[j]) \cap Range(rest[k]) = {}
  BY <1>5, <1>6, <1>8
<1>10. {Range(rest[k]) : k \in DOMAIN rest} = {R(k) : k \in 1 .. n}
  BY <1>6, <1>8
<1>11. IsRecords(FlattenSeq(rest), T, UNION {R(k) : k \in 1 .. n})
  <2>1. \A k \in DOMAIN rest : IsInjective(rest[k])
    BY <1>6, <1>8
  <2> QED
    BY <1>7, <1>9, <1>10, <2>1, FlattenFacts DEF IsRecords
<1>12. AtomsOf(0, InitialSet(c)) \cap (UNION {R(k) : k \in 1 .. n}) = {}
  <2>1. \A x \in AtomsOf(0, InitialSet(c)) : x.step = 0
    BY DEF AtomsOf, AtomOf
  <2>2. \A k \in 1 .. n : k # 0
    BY <1>1
  <2> QED
    BY <1>5, <2>1, <2>2
<1>13. IsRecords(Atoms(c), T, AtomsOf(0, InitialSet(c)) \cup UNION {R(k) : k \in 1 .. n})
  BY <1>2, <1>3, <1>11, <1>12, ConcatFacts
<1> QED
  BY <1>1, <1>13 DEF AllAtoms, StepAtoms, n, T, R

\* Every step of a scenario that is declared has an atom.
LEMMA StepsOfAtoms ==
  ASSUME NEW m \in Missions, NEW c, IsContent(c), Declarable(c, m)
  PROVE  {Atoms(c)[i].step : i \in DOMAIN Atoms(c)} = 0 .. Len(c.steps)
<1> DEFINE n == Len(c.steps)
           A == Atoms(c)
<1>1. n \in Nat /\ DOMAIN c.steps = 1 .. n /\ A \in Seq(AtomSet(n, m)) /\ Range(A) = AllAtoms(c)
  BY AtomsFacts DEF IsRecords
<1>2. {A[i].step : i \in DOMAIN A} = {x.step : x \in AllAtoms(c)}
  BY <1>1 DEF Range
<1>3. ASSUME NEW x \in AllAtoms(c) PROVE x.step \in 0 .. n
  <2>1. PICK i \in DOMAIN A : A[i] = x
    BY <1>1 DEF Range
  <2>2. x \in AtomSet(n, m)
    BY <1>1, <2>1, LenProperties, ElementOfSeq
  <2> QED
    BY <2>2 DEF AtomSet
<1>4. \E x \in AllAtoms(c) : x.step = 0
  <2>1. AtomOf(0, Record("scenario_metadata", {})) \in AllAtoms(c)
    BY DEF AllAtoms, AtomsOf, InitialSet
  <2>2. AtomOf(0, Record("scenario_metadata", {})).step = 0
    BY DEF AtomOf
  <2> QED
    BY <2>1, <2>2
<1>5. ASSUME NEW k \in 1 .. n PROVE \E x \in AllAtoms(c) : x.step = k
  <2> DEFINE s == StepRecords(c.steps[k])
  <2>1. IsRecords(s, Recs(m), StepSet(c.steps[k])) /\ s # <<>>
    BY <1>1, StepsFacts
  <2>2. Len(s) \in Nat \ {0} /\ DOMAIN s = 1 .. Len(s)
    BY <2>1, EmptySeq, LenProperties DEF IsRecords
  <2> HIDE DEF s
  <2>3. s[1] \in StepSet(c.steps[k])
    BY <2>1, <2>2 DEF IsRecords, Range
  <2>4. AtomOf(k, s[1]) \in AllAtoms(c)
    BY <2>3 DEF AllAtoms, StepAtoms, AtomsOf
  <2>5. AtomOf(k, s[1]).step = k
    BY DEF AtomOf
  <2> QED
    BY <2>4, <2>5
<1>6. \A k \in 0 .. n : k = 0 \/ k \in 1 .. n
  BY <1>1
<1> HIDE DEF n, A
<1> QED
  BY <1>2, <1>3, <1>4, <1>5, <1>6 DEF n, A

---------------------------------------------------------------------------
(* What is expected and what is checked. *)

Acts == {"command", "telemetry_injection"}
Expected(k, R) == {<<k, record.kind, record.refs>> : record \in R}

LEMMA ExpectedRecord ==
  ASSUME NEW k, NEW kind, NEW refs
  PROVE  Expected(k, {Record(kind, refs)}) = {<<k, kind, refs>>} /\ Expected(k, {}) = {}
<1> DEFINE r == Record(kind, refs)
<1>1. r.kind = kind /\ r.refs = refs
  BY DEF Record
<1> HIDE DEF r
<1>2. Expected(k, {r}) = {<<k, r.kind, r.refs>>} /\ Expected(k, {}) = {}
  BY DEF Expected
<1> QED
  BY <1>1, <1>2 DEF r

\* The expectations among the records of a step are what the runner records a result for.
LEMMA StepExpectations ==
  ASSUME NEW m, NEW step, IsStep(step), ~NormalizationFails(step, m), NEW k
  PROVE  Expected(k, {record \in StepSet(step) : record.kind \notin Acts}) = RecordedOfStep(step, k)
<1> DEFINE E(i) == Expected(k, PieceSets(step)[i])
           value == IF Expects(step, "payload_lifecycle")
                      THEN step.expect["payload_lifecycle"] ELSE Malformed
           status == Expects(step, "command_status") /\ step.command # None
                     /\ step.expect["command_status"] # None
           checked(kind, domain, x) == IF x = None THEN {} ELSE {<<k, kind, {<<domain, x>>}>>}
           C2 == IF status THEN {<<k, "expect_command_status", {<<"commands", step.command>>}>>} ELSE {}
           C7 == IF step.expect_telemetry = None THEN {}
                 ELSE UNION {checked("expect_telemetry", "telemetry", x) : x \in step.expect_telemetry}
           C8 == IF value = Malformed THEN {}
                 ELSE {<<k, "expect_payload_lifecycle",
                         IF IsText(value.payload) /\ value.state
                           THEN {<<"payloads", value.payload>>} ELSE {}>>}
           C9 == IF ~Expects(step, "data_flow") \/ step.expect["data_flow"] = Malformed THEN {}
                 ELSE {<<k, "expect_data_flow", FlowReferences(step)>>}
           C10 == IF Expects(step, "scenario_status") /\ step.expect["scenario_status"] # None
                    THEN {<<k, "expect_scenario_status", {}>>} ELSE {}
<1>1. RecordedOfStep(step, k) =
        C2 \cup checked("expect_event", "events", step.expect_event)
           \cup checked("expect_mode", "modes", step.expect_mode)
           \cup checked("expect_command", "commands", step.expect_command)
           \cup C7 \cup C8 \cup C9 \cup C10
  BY DEF RecordedOfStep
<1>2. ASSUME NEW key, NEW kind, NEW refs
      PROVE  Expected(k, If(step, key, kind, refs)) =
               IF Expects(step, key) THEN {<<k, kind, refs>>} ELSE {}
  BY ExpectedRecord DEF If
<1>3. ASSUME NEW kind, NEW domain, NEW x
      PROVE  Expected(k, ForOne(kind, domain, x)) = checked(kind, domain, x)
  BY ExpectedRecord DEF ForOne
<1>4. E(4) = checked("expect_event", "events", step.expect_event)
      /\ E(5) = checked("expect_mode", "modes", step.expect_mode)
      /\ E(6) = checked("expect_command", "commands", step.expect_command)
  <2> HIDE DEF checked
  <2> QED
    BY <1>3 DEF PieceSets
<1>5. E(2) = C2
  <2>1. E(2) = IF Expects(step, "command_status")
                 THEN {<<k, "expect_command_status", Named("commands", {step.command})>>} ELSE {}
    BY <1>2 DEF PieceSets
  <2>2. Expects(step, "command_status") => status
    BY DEF NormalizationFails, StatusUnusable
  <2>3. step.command # None => Named("commands", {step.command}) = {<<"commands", step.command>>}
    BY DEF Named
  <2> QED
    BY <2>1, <2>2, <2>3
<1>6. E(7) = C7
  <2>1. E(7) = {<<k, "expect_telemetry", {<<"telemetry", x>>}>> : x \in Sampled(step)}
    <3> DEFINE of(x) == Record("expect_telemetry", {<<"telemetry", x>>})
    <3>1. E(7) = Expected(k, {of(x) : x \in Sampled(step)})
      BY DEF PieceSets
    <3>2. \A x : of(x).kind = "expect_telemetry" /\ of(x).refs = {<<"telemetry", x>>}
      BY DEF Record
    <3> HIDE DEF of, E
    <3>3. Expected(k, {of(x) : x \in Sampled(step)}) =
            {<<k, of(x).kind, of(x).refs>> : x \in Sampled(step)}
      BY DEF Expected
    <3> QED
      BY <3>1, <3>2, <3>3
  <2>2. \A x \in Sampled(step) : x # None
    BY DeclarationAssumption DEF Sampled, IsStep
  <2>3. \A x \in Sampled(step) :
          checked("expect_telemetry", "telemetry", x) =
            {<<k, "expect_telemetry", {<<"telemetry", x>>}>>}
    BY <2>2
  <2>4. C7 = UNION {checked("expect_telemetry", "telemetry", x) : x \in Sampled(step)}
    BY DEF Sampled
  <2> HIDE DEF checked, C7
  <2> QED
    BY <2>1, <2>3, <2>4
<1>7. E(8) = C8
  <2>1. E(8) = IF Expects(step, "payload_lifecycle")
                 THEN {<<k, "expect_payload_lifecycle", Payloads(step)>>} ELSE {}
    BY <1>2 DEF PieceSets
  <2>2. Expects(step, "payload_lifecycle") =>
          /\ value # Malformed /\ IsText(value.payload) /\ value.state
          /\ Payloads(step) = {<<"payloads", value.payload>>}
    BY DEF NormalizationFails, LifecycleUnusable, Payloads
  <2> QED
    BY <2>1, <2>2
<1>8. E(9) = C9
  <2>1. E(9) = IF Expects(step, "data_flow")
                 THEN {<<k, "expect_data_flow", FlowReferences(step)>>} ELSE {}
    BY <1>2 DEF PieceSets
  <2>2. Expects(step, "data_flow") => step.expect["data_flow"] # Malformed
    BY DEF NormalizationFails, FlowUnusable
  <2> QED
    BY <2>1, <2>2
<1>9. E(10) = C10
  <2>1. E(10) = IF Expects(step, "scenario_status")
                  THEN {<<k, "expect_scenario_status", {}>>} ELSE {}
    BY <1>2 DEF PieceSets
  <2>2. Expects(step, "scenario_status") => step.expect["scenario_status"] # None
    BY DEF NormalizationFails
  <2> QED
    BY <2>1, <2>2
<1>10. {record \in StepSet(step) : record.kind \notin Acts} =
         UNION {PieceSets(step)[i] : i \in (1 .. 10) \ {1, 3}}
  <2>1. \A i \in 1 .. 10 : KindOf[i] \in Acts <=> i \in {1, 3}
    BY DEF KindOf, Acts
  <2>2. \A i \in 1 .. 10 : \A x \in PieceSets(step)[i] : x.kind \in Acts <=> i \in {1, 3}
    BY <2>1, PieceKinds
  <2> QED
    BY <2>2 DEF StepSet
<1>11. Expected(k, UNION {PieceSets(step)[i] : i \in (1 .. 10) \ {1, 3}}) =
         UNION {E(i) : i \in (1 .. 10) \ {1, 3}}
  BY DEF Expected
<1>12. (1 .. 10) \ {1, 3} = {2, 4, 5, 6, 7, 8, 9, 10}
  OBVIOUS
<1> HIDE DEF E, checked, C2, C7, C8, C9, C10
<1>13. UNION {E(i) : i \in {2, 4, 5, 6, 7, 8, 9, 10}} =
         E(2) \cup E(4) \cup E(5) \cup E(6) \cup E(7) \cup E(8) \cup E(9) \cup E(10)
  OBVIOUS
<1> QED
  BY <1>1, <1>4, <1>5, <1>6, <1>7, <1>8, <1>9, <1>10, <1>11, <1>12, <1>13

\* The expectations among these atoms are what the runner records of these steps.
ExpectsWhatIsChecked(atoms, steps) ==
  LET expectations == {n \in DOMAIN atoms : atoms[n].step > 0 /\ atoms[n].kind \notin
                         {"command", "telemetry_injection"}}
      declared == [n \in expectations |-> <<atoms[n].step, atoms[n].kind, atoms[n].refs>>]
  IN  /\ Range(declared) = UNION {RecordedOfStep(steps[k], k) : k \in DOMAIN steps}
      /\ IsInjective(declared)

LEMMA ExpectedFacts ==
  ASSUME NEW m \in Missions, NEW c, IsContent(c), Declarable(c, m)
  PROVE  ExpectsWhatIsChecked(Atoms(c), c.steps)
<1> DEFINE A == Atoms(c)
           n == Len(c.steps)
           X == {i \in DOMAIN A : A[i].step > 0 /\ A[i].kind \notin Acts}
           declared == [i \in X |-> <<A[i].step, A[i].kind, A[i].refs>>]
<1>1. /\ n \in Nat /\ DOMAIN c.steps = 1 .. n /\ A \in Seq(AtomSet(n, m)) /\ IsInjective(A)
      /\ Range(A) = AllAtoms(c)
  BY AtomsFacts DEF IsRecords
<1>2. \A i \in DOMAIN A : A[i] \in AtomSet(n, m)
  BY <1>1, LenProperties, ElementOfSeq
<1>3. IsInjective(declared)
  <2> SUFFICES ASSUME NEW i \in X, NEW j \in X, declared[i] = declared[j] PROVE i = j
    BY DEF IsInjective
  <2>1. A[i].step = A[j].step /\ A[i].kind = A[j].kind /\ A[i].refs = A[j].refs
    OBVIOUS
  <2> HIDE DEF A, n
  <2>2. A[i] = A[j]
    BY <1>2, <2>1 DEF AtomSet
  <2> QED
    BY <1>1, <2>2 DEF IsInjective
<1>4. Range(declared) = {<<x.step, x.kind, x.refs>> : x \in {y \in AllAtoms(c) : y.step > 0 /\ y.kind \notin Acts}}
  <2> DEFINE Y == {y \in AllAtoms(c) : y.step > 0 /\ y.kind \notin Acts}
             of(x) == <<x.step, x.kind, x.refs>>
  <2>1. DOMAIN declared = X /\ \A i \in X : declared[i] = of(A[i])
    OBVIOUS
  <2>2. {A[i] : i \in X} = Y
    BY <1>1 DEF Range
  <2> HIDE DEF declared, X, Y, of, A
  <2>3. Range(declared) = {of(A[i]) : i \in X}
    BY <2>1 DEF Range
  <2>4. {of(A[i]) : i \in X} = {of(y) : y \in {A[i] : i \in X}}
    OBVIOUS
  <2> QED
    BY <2>2, <2>3, <2>4 DEF Y, of
<1>5. ASSUME NEW k \in 1 .. n
      PROVE  Expected(k, {record \in StepSet(c.steps[k]) : record.kind \notin Acts})
               = RecordedOfStep(c.steps[k], k)
  BY <1>1, StepExpectations DEF IsContent, Declarable
<1>6. {y \in AllAtoms(c) : y.step > 0 /\ y.kind \notin Acts} =
        UNION {AtomsOf(k, {record \in StepSet(c.steps[k]) : record.kind \notin Acts}) : k \in 1 .. n}
  <2>1. \A y \in AtomsOf(0, InitialSet(c)) : y.step = 0
    BY DEF AtomsOf, AtomOf
  <2>2. \A k \in 1 .. n : k > 0
    BY <1>1
  <2>3. \A k, r : AtomOf(k, r).step = k /\ AtomOf(k, r).kind = r.kind
    BY DEF AtomOf
  <2> QED
    BY <2>1, <2>2, <2>3 DEF AllAtoms, StepAtoms, AtomsOf
<1>7. ASSUME NEW k, NEW R
      PROVE  {<<x.step, x.kind, x.refs>> : x \in AtomsOf(k, R)} = Expected(k, R)
  <2>1. \A x : /\ AtomOf(k, x).step = k /\ AtomOf(k, x).kind = x.kind
               /\ AtomOf(k, x).refs = x.refs
    BY DEF AtomOf
  <2>2. {<<x.step, x.kind, x.refs>> : x \in {AtomOf(k, y) : y \in R}} =
          {<<AtomOf(k, y).step, AtomOf(k, y).kind, AtomOf(k, y).refs>> : y \in R}
    OBVIOUS
  <2> QED
    BY <2>1, <2>2 DEF AtomsOf, Expected
<1>8. Range(declared) = UNION {RecordedOfStep(c.steps[k], k) : k \in 1 .. n}
  <2> DEFINE Q(k) == {record \in StepSet(c.steps[k]) : record.kind \notin Acts}
  <2> HIDE DEF Q
  <2>1. Range(declared) = {<<x.step, x.kind, x.refs>> : x \in UNION {AtomsOf(k, Q(k)) : k \in 1 .. n}}
    BY <1>4, <1>6 DEF Q
  <2>2. {<<x.step, x.kind, x.refs>> : x \in UNION {AtomsOf(k, Q(k)) : k \in 1 .. n}} =
          UNION {{<<x.step, x.kind, x.refs>> : x \in AtomsOf(k, Q(k))} : k \in 1 .. n}
    OBVIOUS
  <2>3. \A k \in 1 .. n : {<<x.step, x.kind, x.refs>> : x \in AtomsOf(k, Q(k))}
                            = RecordedOfStep(c.steps[k], k)
    BY <1>5, <1>7 DEF Q
  <2> HIDE DEF declared, n
  <2> QED
    BY <2>1, <2>2, <2>3
<1> QED
  BY <1>1, <1>3, <1>8 DEF Acts, ExpectsWhatIsChecked

---------------------------------------------------------------------------
(* The inductive invariant. *)

\* An envelope is a failure, or the declaration of a scenario that can be declared.
EnvelopeOK(file) ==
  \/ \E sha \in Scenarios \cup {None} : file = Failed(sha)
  \/ \E sha, s \in Scenarios, m \in Missions :
       file = Loaded(sha, s, m) /\ Declarable(Content[s], m)
AccountingOK(payload) == payload.records \in Seq([atom : Nat, mappings : SUBSET {"mapping"}])

SourcesInv ==
  /\ scenario \in Scenarios \cup {Absent} /\ mission \in Missions
  /\ budget \in [runs : Nat, upsets : Nat]
ExportInv ==
  /\ export \in [next : {"begin", "load", "again"}, sha : Scenarios \cup {None},
                 of : Scenarios \cup {None}, in : Missions \cup {None}]
  /\ export.next = "again" => /\ export.of \in Scenarios /\ export.in \in Missions
                              /\ ~LoadFails(Content[export.of], export.in)
EnvelopeInv == Readable(declaration) => EnvelopeOK(declaration)
AdapterInv == Readable(accounting) => AccountingOK(accounting)
CheckInv ==
  /\ check = [next |-> check.next, result |-> check.result, accounting |-> check.accounting]
  /\ check.next \in {"result", "accounting", "declaration"}
  /\ check.next = "declaration" =>
       AccountingOK(check.accounting) /\ validate_parent(check.accounting, check.result)
VerifiedInv ==
  verified # None =>
    /\ AccountingOK(verified.accounting)
    /\ validate_parent(verified.accounting, verified.result)
    /\ validate_scenario(verified.accounting, verified.declaration)
    /\ EnvelopeOK(verified.declaration)
    /\ verified.unaccounted = Unaccounted(verified.accounting, verified.declaration)

DeclarationInv ==
  SourcesInv /\ ExportInv /\ EnvelopeInv /\ AdapterInv /\ CheckInv /\ VerifiedInv

LEMMA DeclarationInit == Init => DeclarationInv
<1> SUFFICES ASSUME Init PROVE DeclarationInv
  OBVIOUS
<1>1. SourcesInv
  BY DeclarationAssumption DEF Init, SourcesInv
<1>2. ExportInv
  BY DEF Init, ExportInv, ExportIdle
<1>3. EnvelopeInv /\ AdapterInv /\ VerifiedInv
  BY DEF Init, EnvelopeInv, AdapterInv, VerifiedInv, Readable
<1>4. CheckInv
  BY DEF Init, CheckInv, CheckIdle
<1> QED
  BY <1>1, <1>2, <1>3, <1>4 DEF DeclarationInv

LEMMA BudgetTaken ==
  ASSUME SourcesInv, NEW r \in Nat, NEW u \in Nat, Takes(r, u)
  PROVE  budget' \in [runs : Nat, upsets : Nat]
BY DEF SourcesInv, Takes

\* What the loader accepts becomes a declaration of it or a failure.
LEMMA NormalizedEnvelope ==
  ASSUME NEW sha \in Scenarios, NEW s \in Scenarios, NEW m \in Missions, ~LoadFails(Content[s], m)
  PROVE  EnvelopeOK(Normalize(sha, s, m))
BY DEF Normalize, EnvelopeOK, Declarable

LEMMA NothingWritten ==
  ASSUME DeclarationInv, Escapes
  PROVE  ExportInv' /\ EnvelopeInv' /\ budget' \in [runs : Nat, upsets : Nat]
BY DEF Escapes, DeclarationInv, ExportInv, ExportIdle, EnvelopeInv, SourcesInv

LEMMA EnvelopeWritten ==
  ASSUME DeclarationInv, NEW envelope, Write(envelope), EnvelopeOK(envelope)
  PROVE  ExportInv' /\ EnvelopeInv' /\ budget' \in [runs : Nat, upsets : Nat]
<1>1. export' = ExportIdle /\ declaration' \in {envelope, CutOff} /\ (Takes(0, 0) \/ Takes(0, 1))
  BY DEF Write
<1>2. budget' \in [runs : Nat, upsets : Nat]
  BY <1>1, BudgetTaken DEF DeclarationInv
<1>3. ExportInv'
  BY <1>1 DEF ExportInv, ExportIdle
<1>4. EnvelopeInv'
  BY <1>1 DEF EnvelopeInv, Readable
<1> QED
  BY <1>2, <1>3, <1>4

LEMMA DeclarationWritten ==
  ASSUME DeclarationInv, NEW sha \in Scenarios, NEW s \in Scenarios, NEW m \in Missions,
         ~LoadFails(Content[s], m), Declare(sha, s, m)
  PROVE  ExportInv' /\ EnvelopeInv' /\ budget' \in [runs : Nat, upsets : Nat]
<1>1. Escapes \/ Write(Normalize(sha, s, m))
  BY DEF Declare
<1> QED
  BY <1>1, NothingWritten, NormalizedEnvelope, EnvelopeWritten

LEMMA ExportStep ==
  ASSUME DeclarationInv, Fingerprint \/ Load \/ FingerprintAgain
  PROVE  DeclarationInv'
<1>1. UNCHANGED <<scenario, mission, result, accounting, check, verified>>
  BY DEF Fingerprint, Load, FingerprintAgain
<1>2. AdapterInv' /\ CheckInv' /\ VerifiedInv'
  BY <1>1 DEF DeclarationInv, AdapterInv, CheckInv, VerifiedInv
<1>3. scenario' \in Scenarios \cup {Absent} /\ mission' \in Missions
  BY <1>1 DEF DeclarationInv, SourcesInv
<1> SUFFICES ExportInv' /\ EnvelopeInv' /\ budget' \in [runs : Nat, upsets : Nat]
  BY <1>2, <1>3 DEF DeclarationInv, SourcesInv
<1>4. CASE Fingerprint
  <2>1. export' = [export EXCEPT !.next = "load", !.sha = Digest(scenario)] /\ Takes(1, 0)
        /\ declaration' = declaration
    BY <1>4 DEF Fingerprint
  <2>2. Digest(scenario) \in Scenarios \cup {None}
    BY DEF Digest, DeclarationInv, SourcesInv
  <2>3. ExportInv'
    BY <2>1, <2>2 DEF DeclarationInv, ExportInv
  <2>4. EnvelopeInv'
    BY <2>1 DEF DeclarationInv, EnvelopeInv
  <2> QED
    BY <2>1, <2>3, <2>4, BudgetTaken DEF DeclarationInv
<1>5. CASE Load
  <2>1. CASE Escapes
    BY <2>1, NothingWritten
  <2>2. CASE Write(Failed(export.sha))
    <3>1. EnvelopeOK(Failed(export.sha))
      BY DEF DeclarationInv, ExportInv, EnvelopeOK
    <3> QED
      BY <2>2, <3>1, EnvelopeWritten
  <2>3. CASE scenario # Absent /\ ~LoadFails(Content[scenario], mission)
    <3>1. scenario \in Scenarios /\ mission \in Missions
      BY <2>3 DEF DeclarationInv, SourcesInv
    <3>2. CASE export.sha # None /\ Declare(export.sha, scenario, mission)
      <4>1. export.sha \in Scenarios
        BY <3>2 DEF DeclarationInv, ExportInv
      <4> QED
        BY <2>3, <3>1, <3>2, <4>1, DeclarationWritten
    <3>3. CASE /\ export' = [export EXCEPT !.next = "again", !.of = scenario, !.in = mission]
               /\ UNCHANGED <<declaration, budget>>
      BY <2>3, <3>1, <3>3 DEF DeclarationInv, ExportInv, EnvelopeInv, SourcesInv
    <3> QED
      BY <1>5, <2>1, <2>2, <3>2, <3>3 DEF Load
  <2> QED
    BY <1>5, <2>1, <2>2, <2>3 DEF Load
<1>6. CASE FingerprintAgain
  <2>1. export.of \in Scenarios /\ export.in \in Missions /\ ~LoadFails(Content[export.of], export.in)
    BY <1>6 DEF FingerprintAgain, DeclarationInv, ExportInv
  <2>2. CASE scenario = Absent
    <3>1. EnvelopeOK(Failed(None))
      BY DEF EnvelopeOK
    <3>2. Write(Failed(None))
      BY <1>6, <2>2 DEF FingerprintAgain
    <3> QED
      BY <3>1, <3>2, EnvelopeWritten
  <2>3. CASE scenario # Absent
    <3>1. Digest(scenario) \in Scenarios
      BY <2>3 DEF Digest, DeclarationInv, SourcesInv
    <3>2. Declare(Digest(scenario), export.of, export.in)
      BY <1>6, <2>3 DEF FingerprintAgain
    <3> QED
      BY <2>1, <3>1, <3>2, DeclarationWritten
  <2> QED
    BY <2>2, <2>3
<1> QED
  BY <1>4, <1>5, <1>6

LEMMA LoadedEnvelope ==
  ASSUME NEW file, EnvelopeOK(file), IsLoaded(file)
  PROVE  \E sha, s \in Scenarios, m \in Missions :
           file = Loaded(sha, s, m) /\ Declarable(Content[s], m)
BY DEF EnvelopeOK, IsLoaded, Failed

LEMMA AtomsOfLoaded ==
  ASSUME NEW s \in Scenarios, NEW m \in Missions, Declarable(Content[s], m)
  PROVE  /\ Len(Atoms(Content[s])) \in Nat \ {0}
         /\ DOMAIN Atoms(Content[s]) = 1 .. Len(Atoms(Content[s]))
<1> DEFINE A == Atoms(Content[s])
           n == Len(Content[s].steps)
<1>1. IsContent(Content[s])
  BY DeclarationAssumption
<1>2. n \in Nat /\ A \in Seq(AtomSet(n, m)) /\ {A[i].step : i \in DOMAIN A} = 0 .. n
  BY <1>1, AtomsFacts, StepsOfAtoms DEF IsRecords
<1>3. DOMAIN A # {}
  <2>1. 0 \in 0 .. n
    BY <1>2
  <2> QED
    BY <1>2, <2>1
<1> QED
  BY <1>2, <1>3, LenProperties

\* Whatever an adapter gets wrong, its records are a list.
LEMMA RecordsAreListed ==
  ASSUME NEW n \in Nat \ {0}, NEW misdeed
  PROVE  Records(n, misdeed) \in Seq([atom : Nat, mappings : SUBSET {"mapping"}])
<1> DEFINE T == [atom : Nat, mappings : SUBSET {"mapping"}]
           full == [k \in 1 .. n |-> [atom |-> k, mappings |-> IF k = n THEN {"mapping"} ELSE {}]]
           short == SubSeq(full, 2, n)
           one == [atom |-> n + 1, mappings |-> {}]
<1>1. full \in Seq(T) /\ \A k \in 1 .. n : full[k] \in T
  OBVIOUS
<1>2. one \in T
  OBVIOUS
<1>3. Records(n, misdeed) \in {full, short, Append(short, full[n]), Append(full, one)}
  BY DEF Records
<1> HIDE DEF full, T, one
<1>4. short \in Seq(T)
  <2>1. \A i \in 2 .. n : full[i] \in T
    BY <1>1
  <2> QED
    BY <2>1, SubSeqProperties
<1> HIDE DEF short
<1>5. full[n] \in T
  BY <1>1
<1>6. Append(short, full[n]) \in Seq(T) /\ Append(full, one) \in Seq(T)
  BY <1>1, <1>2, <1>4, <1>5, AppendProperties
<1> QED
  BY <1>1, <1>3, <1>4, <1>6 DEF T

LEMMA AdapterStep ==
  ASSUME DeclarationInv, RunAdapter
  PROVE  DeclarationInv'
<1>1. UNCHANGED <<scenario, mission, declaration, export, check, verified>>
  BY DEF RunAdapter
<1>2. ExportInv' /\ EnvelopeInv' /\ CheckInv' /\ VerifiedInv'
  BY <1>1 DEF DeclarationInv, ExportInv, EnvelopeInv, CheckInv, VerifiedInv
<1>3. Takes(1, 0) \/ Takes(1, 1)
  BY DEF RunAdapter
<1>4. SourcesInv'
  BY <1>1, <1>3, BudgetTaken DEF DeclarationInv, SourcesInv
<1>5. \/ accounting' = CutOff
      \/ \E misdeed, complete :
           accounting' = Accounting(Len(declaration.atoms), misdeed, complete)
  BY DEF RunAdapter
<1>6. Len(declaration.atoms) \in Nat \ {0}
  <2>1. IsLoaded(declaration) /\ EnvelopeOK(declaration)
    BY DEF RunAdapter, IsLoaded, DeclarationInv, EnvelopeInv
  <2>2. PICK sha \in Scenarios, s \in Scenarios, m \in Missions :
          declaration = Loaded(sha, s, m) /\ Declarable(Content[s], m)
    BY <2>1, LoadedEnvelope
  <2>3. declaration.atoms = Atoms(Content[s])
    BY <2>2 DEF Loaded
  <2> QED
    BY <2>2, <2>3, AtomsOfLoaded
<1>7. AdapterInv'
  <2>1. CASE accounting' = CutOff
    BY <2>1 DEF AdapterInv, Readable
  <2>2. ASSUME NEW misdeed, NEW complete,
               accounting' = Accounting(Len(declaration.atoms), misdeed, complete)
        PROVE  AdapterInv'
    <3>1. accounting'.records = Records(Len(declaration.atoms), misdeed)
      BY <2>2 DEF Accounting
    <3> QED
      BY <1>6, <3>1, RecordsAreListed DEF AdapterInv, AccountingOK
  <2> QED
    BY <1>5, <2>1, <2>2
<1> QED
  BY <1>2, <1>4, <1>7 DEF DeclarationInv

LEMMA CheckStep ==
  ASSUME DeclarationInv, CheckResult \/ CheckAccounting \/ CheckDeclaration
  PROVE  DeclarationInv'
<1>1. UNCHANGED <<scenario, mission, declaration, accounting, export>>
  BY DEF CheckResult, CheckAccounting, CheckDeclaration
<1>2. ExportInv' /\ EnvelopeInv' /\ AdapterInv'
  BY <1>1 DEF DeclarationInv, ExportInv, EnvelopeInv, AdapterInv
<1>3. SourcesInv'
  <2>1. budget' = budget \/ Takes(1, 0)
    BY DEF CheckResult, CheckAccounting, CheckDeclaration
  <2> QED
    BY <1>1, <2>1, BudgetTaken DEF DeclarationInv, SourcesInv
<1> SUFFICES CheckInv' /\ VerifiedInv'
  BY <1>2, <1>3 DEF DeclarationInv
<1>4. CASE CheckFails
  BY <1>4 DEF CheckFails, CheckInv, CheckIdle, VerifiedInv
<1>5. CASE CheckResult
  <2>1. CASE check' = [check EXCEPT !.next = "accounting", !.result = result] /\ verified' = verified
    BY <2>1 DEF DeclarationInv, CheckInv, VerifiedInv
  <2> QED
    BY <1>4, <1>5, <2>1 DEF CheckResult
<1>6. CASE CheckAccounting
  <2>1. CASE /\ Readable(accounting) /\ validate_parent(accounting, check.result)
             /\ check' = [check EXCEPT !.next = "declaration", !.accounting = accounting]
             /\ verified' = verified
    <3>1. VerifiedInv'
      BY <2>1 DEF DeclarationInv, VerifiedInv
    <3>2. AccountingOK(accounting)
      BY <2>1 DEF DeclarationInv, AdapterInv
    <3>3. /\ check' = [next |-> "declaration", result |-> check.result, accounting |-> accounting]
      BY <2>1 DEF DeclarationInv, CheckInv
    <3>4. CheckInv'
      BY <2>1, <3>2, <3>3 DEF CheckInv
    <3> QED
      BY <3>1, <3>4
  <2> QED
    BY <1>4, <1>6, <2>1 DEF CheckAccounting
<1>7. CASE CheckDeclaration
  <2>1. CASE /\ validate_scenario(check.accounting, declaration) /\ check' = CheckIdle
             /\ verified' = [accounting |-> check.accounting, result |-> check.result,
                             declaration |-> declaration,
                             unaccounted |-> Unaccounted(check.accounting, declaration)]
    <3>1. AccountingOK(check.accounting) /\ validate_parent(check.accounting, check.result)
      BY <1>7 DEF CheckDeclaration, DeclarationInv, CheckInv
    <3>2. EnvelopeOK(declaration)
      BY <2>1 DEF validate_scenario, IsLoaded, DeclarationInv, EnvelopeInv
    <3>3. /\ verified'.accounting = check.accounting /\ verified'.result = check.result
          /\ verified'.declaration = declaration
          /\ verified'.unaccounted = Unaccounted(check.accounting, declaration)
      BY <2>1
    <3>4. VerifiedInv'
      BY <2>1, <3>1, <3>2, <3>3 DEF VerifiedInv
    <3>5. CheckInv'
      BY <2>1 DEF CheckInv, CheckIdle
    <3> QED
      BY <3>4, <3>5
  <2> QED
    BY <1>4, <1>7, <2>1 DEF CheckDeclaration
<1> QED
  BY <1>5, <1>6, <1>7

LEMMA EditStep ==
  ASSUME DeclarationInv, EditScenario \/ EditMission
  PROVE  DeclarationInv'
<1>1. UNCHANGED <<declaration, result, accounting, export, check, verified>> /\ Takes(0, 1)
  BY DEF EditScenario, EditMission
<1>2. ExportInv' /\ EnvelopeInv' /\ AdapterInv' /\ CheckInv' /\ VerifiedInv'
  BY <1>1 DEF DeclarationInv, ExportInv, EnvelopeInv, AdapterInv, CheckInv, VerifiedInv
<1>3. scenario' \in Scenarios \cup {Absent} /\ mission' \in Missions
  BY DeclarationAssumption DEF EditScenario, EditMission, DeclarationInv, SourcesInv
<1>4. SourcesInv'
  BY <1>1, <1>3, BudgetTaken DEF DeclarationInv, SourcesInv
<1> QED
  BY <1>2, <1>4 DEF DeclarationInv

LEMMA DeclarationAlways == Spec => []DeclarationInv
<1>1. ASSUME DeclarationInv, [Next]_vars PROVE DeclarationInv'
  <2>1. CASE UNCHANGED vars
    BY <1>1, <2>1
    DEF vars, DeclarationInv, SourcesInv, ExportInv, EnvelopeInv, AdapterInv, CheckInv, VerifiedInv
  <2> QED
    BY <1>1, <2>1, ExportStep, AdapterStep, CheckStep, EditStep DEF Next
<1> QED
  BY <1>1, DeclarationInit, PTL DEF Spec

---------------------------------------------------------------------------
(* The theorems. *)

\* A loaded envelope holds the atoms of contents that the export's mission makes declarable.
LEMMA LoadedDeclaration ==
  ASSUME DeclarationInv, IsLoaded(declaration)
  PROVE  /\ declaration.sha \in Scenarios /\ declaration.of \in Scenarios
         /\ declaration.in \in Missions /\ IsContent(Content[declaration.of])
         /\ Declarable(Content[declaration.of], declaration.in)
         /\ declaration.atoms = Atoms(Content[declaration.of])
<1>1. EnvelopeOK(declaration)
  BY DEF DeclarationInv, EnvelopeInv, IsLoaded
<1>2. PICK sha \in Scenarios, s \in Scenarios, m \in Missions :
        declaration = Loaded(sha, s, m) /\ Declarable(Content[s], m)
  BY <1>1, LoadedEnvelope
<1>3. /\ declaration.sha = sha /\ declaration.of = s /\ declaration.in = m
      /\ declaration.atoms = Atoms(Content[s])
  BY <1>2 DEF Loaded
<1> QED
  BY <1>2, <1>3, DeclarationAssumption

\* The lists of atoms that declarations hold are lists, and None is not one.
LEMMA AtomsAreNotNone ==
  ASSUME NEW m \in Missions, NEW c, IsContent(c), Declarable(c, m)
  PROVE  Atoms(c) # None
<1> DEFINE n == Len(c.steps)
           Refs == Domains \X Ids
           T == [step : Nat, kind : Kinds, refs : SUBSET Refs]
<1>1. n \in Nat /\ Atoms(c) \in Seq(AtomSet(n, m))
  BY AtomsFacts DEF IsRecords
<1>2. DeclaredRefs(m) \subseteq Refs
  BY DEF DeclaredRefs
<1>3. 0 .. n \subseteq Nat
  BY <1>1
<1>4. AtomSet(n, m) \subseteq T
  <2> HIDE DEF n, Refs
  <2> SUFFICES ASSUME NEW x \in AtomSet(n, m) PROVE x \in T
    OBVIOUS
  <2>1. /\ x = [step |-> x.step, kind |-> x.kind, refs |-> x.refs]
        /\ x.step \in 0 .. n /\ x.kind \in Kinds /\ x.refs \in SUBSET DeclaredRefs(m)
    BY DEF AtomSet
  <2>2. x.step \in Nat /\ x.refs \in SUBSET Refs
    BY <2>1, <1>2, <1>3
  <2> QED
    BY <2>1, <2>2
<1>5. Atoms(c) \in Seq(T)
  <2> HIDE DEF n, T
  <2> QED
    BY <1>1, <1>4, SeqMonotonic
<1> QED
  BY <1>5, DeclarationAssumption

LEMMA DeclarationTypes == DeclarationInv => TypeOK
<1> SUFFICES ASSUME DeclarationInv PROVE TypeOK
  OBVIOUS
<1>1. /\ scenario \in Scenarios \cup {Absent} /\ mission \in Missions
      /\ export.next \in {"begin", "load", "again"} /\ check.next \in {"result", "accounting", "declaration"}
      /\ budget \in [runs : Nat, upsets : Nat]
  BY DEF DeclarationInv, SourcesInv, ExportInv, CheckInv
<1>2. ASSUME Readable(declaration)
      PROVE  /\ declaration.sha \in Scenarios \cup {None}
             /\ declaration.result = "failed" <=> declaration.atoms = None
             /\ IsLoaded(declaration) =>
                  /\ declaration.sha # None /\ declaration.of \in Scenarios
                  /\ {declaration.atoms[n].step : n \in DOMAIN declaration.atoms} =
                       0..Len(Content[declaration.of].steps)
  <2>1. CASE IsLoaded(declaration)
    <3>1. /\ declaration.sha \in Scenarios /\ declaration.of \in Scenarios
          /\ declaration.atoms # None
          /\ {declaration.atoms[n].step : n \in DOMAIN declaration.atoms} =
               0..Len(Content[declaration.of].steps)
      BY <2>1, LoadedDeclaration, AtomsAreNotNone, StepsOfAtoms
    <3> QED
      BY <2>1, <3>1, DeclarationAssumption DEF IsLoaded
  <2>2. CASE ~IsLoaded(declaration)
    <3>1. EnvelopeOK(declaration) /\ declaration.result # "loaded"
      BY <1>2, <2>2 DEF DeclarationInv, EnvelopeInv, IsLoaded
    <3>2. PICK sha \in Scenarios \cup {None} : declaration = Failed(sha)
      BY <3>1 DEF EnvelopeOK, Loaded
    <3> QED
      BY <2>2, <3>2 DEF Failed
  <2> QED
    BY <2>1, <2>2
<1> QED
  BY <1>1, <1>2 DEF TypeOK

\* An envelope is a failure without atoms or the complete declaration of a scenario, with
\* an atom for each of its steps, whatever is edited, killed or run meanwhile.
THEOREM DeclarationIsComplete == Spec => []TypeOK
BY DeclarationTypes, DeclarationAlways, PTL

\* Every atom of a declaration refers only to entities of the mission it was made with.
THEOREM DeclarationResolves == Spec => []ReferencesResolve
<1>1. ASSUME DeclarationInv PROVE ReferencesResolve
  <2> SUFFICES ASSUME IsLoaded(declaration), NEW n \in DOMAIN declaration.atoms,
                      NEW ref \in declaration.atoms[n].refs
               PROVE  Declares(declaration.in, ref)
    BY DEF ReferencesResolve
  <2> DEFINE c == Content[declaration.of]
             m == declaration.in
  <2>1. m \in Missions /\ IsContent(c) /\ Declarable(c, m) /\ declaration.atoms = Atoms(c)
    BY <1>1, LoadedDeclaration
  <2>2. declaration.atoms \in Seq(AtomSet(Len(c.steps), m))
    BY <2>1, AtomsFacts DEF IsRecords
  <2>3. declaration.atoms[n] \in AtomSet(Len(c.steps), m)
    BY <2>2, LenProperties, ElementOfSeq
  <2> QED
    BY <2>3 DEF AtomSet, DeclaredRefs
<1> QED
  BY <1>1, DeclarationAlways, PTL

\* What a declaration expects is what the runner checks: one result for each expectation.
THEOREM ExpectationsAreChecked == Spec => []ExpectedIsChecked
<1>1. ASSUME DeclarationInv PROVE ExpectedIsChecked
  <2> SUFFICES ASSUME IsLoaded(declaration) PROVE ExpectedIsChecked
    BY DEF ExpectedIsChecked
  <2> DEFINE c == Content[declaration.of]
  <2>1. declaration.in \in Missions /\ IsContent(c) /\ Declarable(c, declaration.in)
        /\ declaration.atoms = Atoms(c)
    BY <1>1, LoadedDeclaration
  <2>2. ExpectsWhatIsChecked(declaration.atoms, c.steps)
    BY <2>1, ExpectedFacts
  <2> QED
    BY <2>2, Zenon DEF ExpectedIsChecked, ExpectsWhatIsChecked
<1> QED
  BY <1>1, DeclarationAlways, PTL

\* Records of different atoms: there are as many as there are atoms recorded.
LEMMA RecordsCounted ==
  ASSUME NEW payload, AccountingOK(payload), validate_accounting(payload)
  PROVE  /\ IsFiniteSet(Recorded(payload))
         /\ Cardinality(Recorded(payload)) = Len(payload.records) /\ Len(payload.records) \in Nat
<1> DEFINE N == Len(payload.records)
           D == DOMAIN payload.records
           f == [k \in D |-> payload.records[k].atom]
           R == Recorded(payload)
<1>1. N \in Nat /\ D = 1 .. N
  BY LenProperties DEF AccountingOK
<1>2. IsInjective(f)
  BY DEF validate_accounting
<1>3. f \in [D -> R] /\ \A x \in R : \E k \in D : f[k] = x
  BY DEF Recorded
<1>4. IsFiniteSet(D) /\ Cardinality(D) = N
  BY <1>1, FS_Interval
<1> HIDE DEF f, D, R
<1>5. f \in Bijection(D, R)
  BY <1>2, <1>3 DEF Bijection, Injection, Surjection
<1>6. ExistsBijection(D, R)
  BY <1>5 DEF ExistsBijection
<1> QED
  BY <1>1, <1>4, <1>6, FS_Bijection DEF R

\* A verified accounting accounts for every atom of the scenario whose digest it names.
THEOREM AccountingsAccount == Spec => []VerifiedAccounts
<1>1. ASSUME DeclarationInv PROVE VerifiedAccounts
  <2> DEFINE payload == verified.accounting
             file == verified.declaration
  <2> SUFFICES ASSUME verified # None, file.sha = file.of
               PROVE  LET atoms == DOMAIN Atoms(Content[payload.sha])
                      IN  /\ Recorded(payload) \cup verified.unaccounted = atoms
                          /\ Len(payload.records) + Cardinality(verified.unaccounted) = Cardinality(atoms)
                          /\ payload.complete => verified.unaccounted = {}
                          /\ Mapped(payload) \subseteq Range(verified.result.mappings)
                          /\ payload.sha = verified.result.scenario
    BY DEF VerifiedAccounts
  <2>1. /\ AccountingOK(payload) /\ validate_parent(payload, verified.result)
        /\ validate_scenario(payload, file) /\ EnvelopeOK(file)
        /\ verified.unaccounted = Unaccounted(payload, file)
    BY <1>1 DEF DeclarationInv, VerifiedInv
  <2>2. PICK sha \in Scenarios, s \in Scenarios, m \in Missions :
          file = Loaded(sha, s, m) /\ Declarable(Content[s], m)
    BY <2>1, LoadedEnvelope DEF validate_scenario
  <2>3. file.sha = sha /\ file.of = s /\ file.atoms = Atoms(Content[s])
    BY <2>2 DEF Loaded
  <2>4. payload.sha = s /\ Recorded(payload) \subseteq DOMAIN file.atoms
        /\ (payload.complete => Unaccounted(payload, file) = {})
    BY <2>1, <2>3 DEF validate_scenario
  <2> DEFINE A == DOMAIN Atoms(Content[s])
             R == Recorded(payload)
  <2>5. verified.unaccounted = A \ R /\ R \subseteq A
    BY <2>1, <2>3, <2>4 DEF Unaccounted
  <2>6. IsFiniteSet(A) /\ Cardinality(A) \in Nat
    <3>1. A = 1 .. Len(Atoms(Content[s])) /\ Len(Atoms(Content[s])) \in Nat
      BY <2>2, AtomsOfLoaded
    <3> HIDE DEF A
    <3> QED
      BY <3>1, FS_Interval, FS_CardinalityType
  <2>7. Cardinality(R) = Len(payload.records) /\ Len(payload.records) \in Nat
    BY <2>1, RecordsCounted DEF validate_parent
  <2>8. Cardinality(A \ R) = Cardinality(A) - Cardinality(R)
    <3> HIDE DEF A, R
    <3>1. A \cap R = R
      BY <2>5
    <3>2. Cardinality(A \ R) = Cardinality(A) - Cardinality(A \cap R)
      BY <2>6, FS_Difference
    <3> QED
      BY <3>1, <3>2
  <2>9. Len(payload.records) + Cardinality(verified.unaccounted) = Cardinality(A)
    BY <2>5, <2>6, <2>7, <2>8
  <2>10. R \cup verified.unaccounted = A
    BY <2>5
  <2>11. Mapped(payload) \subseteq Range(verified.result.mappings)
         /\ payload.sha = verified.result.scenario
    BY <2>1 DEF validate_parent
  <2> QED
    BY <2>1, <2>4, <2>9, <2>10, <2>11
<1> QED
  BY <1>1, DeclarationAlways, PTL

=============================================================================
