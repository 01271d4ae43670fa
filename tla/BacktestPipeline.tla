-------------------------- MODULE BacktestPipeline --------------------------
(***************************************************************************)
(* How the contracts of a Sampler, an Environment Graph, a Pipeline and an *)
(* Analysis Graph are composed into one frozen artifact, how the worker    *)
(* binds that artifact again, and how each cycle then runs on real data.   *)
(*                                                                         *)
(* A DataKey is <<root>> or <<root, field>>.  A schema is a set of shapes, *)
(* the alternatives of an anyOf; a shape gives each of its leaves a set of *)
(* types and says which leaves are required.  The only leaf of a scalar is *)
(* Self.  A contract state joins the schema of every root (the empty set   *)
(* for an undeclared one) with the roots guaranteed to be present.         *)
(*                                                                         *)
(* At run time a Data Dict maps roots to cells of a heap, because projected*)
(* values are shared, not copied: a write in place would be seen by every  *)
(* other owner of the cell.                                                *)
(***************************************************************************)
EXTENDS Naturals, FiniteSets, Sequences

CONSTANTS
    DataKeys,               \* the DataKeys in their canonical order
    Types,                  \* the scalar JSON types
    Designs,                \* the sets of resources a user may put together
    Temporaries,            \* the lists of Modules a reader may run on a Result
    MaxCycles               \* how many samples the Sampler emits

Self == 0
Keys == {DataKeys[i] : i \in DOMAIN DataKeys}
Roots == {key[1] : key \in Keys}

VARIABLES
    design,       \* the resources chosen for this Backtest
    phase,        \* the step that runs next
    before,       \* the Observation contracts of the current composition round
    seen,         \* the rounds already tried
    work,         \* the contracts of the stages bound so far in this round
    binding,      \* the worker binds the frozen artifact again
    plan,         \* the composition artifact
    at,           \* the direct Module that runs next within its phase
    heap,         \* the object values, shared by the Data Dicts below
    sample,       \* the Data Dict of the current frame
    data,         \* the Observation, then the current cycle's Data Dict
    previous,     \* what the next cycle will read as `last`
    lastCycle,    \* what this cycle reads as `last`
    cycle,        \* cycles appended to the result
    recorded,     \* the cycle appended last
    temporary,    \* the temporary Modules of the open Result, in the order they run
    failure,      \* why the run stopped, or "none"
    was           \* what sample, lastCycle and the completed Pipeline data were

cells == <<heap, sample, data, previous, lastCycle>>
vars == <<design, phase, before, seen, work, binding, plan, at, cells, cycle, recorded, temporary, failure, was>>

-----------------------------------------------------------------------------
(* Contracts. *)

Root(key) == key[1]
Leaf(key) == IF Len(key) = 1 THEN Self ELSE key[2]

Scalar(types) == {[props |-> [leaf \in {Self} |-> types], req |-> {Self}]}
Created(field, types) == {[props |-> [leaf \in {field} |-> types], req |-> {field}]}
IsObject(shape) == Self \notin DOMAIN shape.props

\* What is required is declared, and a scalar has nothing but itself.
WellFormed(schema) ==
    \A s \in schema : /\ s.req \subseteq DOMAIN s.props
                      /\ ~IsObject(s) => DOMAIN s.props = {Self} /\ s.req = {Self}

\* A contract state has a well-formed schema for every root.
ContractState(state) ==
    /\ state = [ok |-> state.ok, schema |-> state.schema, req |-> state.req]
    /\ state.schema = [r \in Roots |-> state.schema[r]]
    /\ state.req \subseteq Roots
    /\ \A r \in Roots : WellFormed(state.schema[r])

Empty == [ok |-> TRUE, schema |-> [r \in Roots |-> {}], req |-> {}]
Refused == [Empty EXCEPT !.ok = FALSE]

ShapeSubset(s, t) ==
    /\ DOMAIN s.props \subseteq DOMAIN t.props
    /\ t.req \subseteq s.req
    /\ \A leaf \in DOMAIN s.props : s.props[leaf] \subseteq t.props[leaf]

Compatible(source, target) == \A s \in source : \E t \in target : ShapeSubset(s, t)

\* One scalar alternative holds all the scalar types of a schema.
Merged(schema) ==
    LET scalars == {s \in schema : ~IsObject(s)} IN
    IF scalars = {} THEN schema
    ELSE (schema \ scalars) \cup Scalar(UNION {s.props[Self] : s \in scalars})

OptionalUnion(left, right) ==
    CASE left = {} \/ Compatible(left, right) -> right
      [] left # {} /\ ~Compatible(left, right) /\ Compatible(right, left) -> left
      [] OTHER -> Merged(left \cup right)

KeepsStructure(old, new) == \A s \in old, t \in new : IsObject(s) = IsObject(t)

\* One nested write in one alternative of an object schema.
WriteField(shape, field, types, required) ==
    [props |-> [leaf \in DOMAIN shape.props \cup {field} |->
                  IF leaf # field THEN shape.props[leaf]
                  ELSE IF required \/ field \notin DOMAIN shape.props THEN types
                  ELSE shape.props[field] \cup types],
     req |-> IF required THEN shape.req \cup {field} ELSE shape.req]

TypesOf(schema) == UNION {s.props[Self] : s \in {t \in schema : ~IsObject(t)}}

\* As the code, with the case of the absent root forgotten.
WrittenRootPresent(state, w) ==
    LET old == state.schema[Root(w.key)]
        types == TypesOf(w.schema)
    IN  IF old = {} THEN Created(Leaf(w.key), types)
        ELSE {WriteField(s, Leaf(w.key), types, w.required) : s \in old}

\* The schema of a root after a write of one of its fields.  A root that may
\* be absent may also be created by the write, with nothing but that field.
WrittenRoot(state, w) ==
    LET old == state.schema[Root(w.key)]
        types == TypesOf(w.schema)
        updated == {WriteField(s, Leaf(w.key), types, w.required) : s \in old}
        created == Created(Leaf(w.key), types)
    IN  CASE old = {} -> created
          [] old # {} /\ Root(w.key) \in state.req -> updated
          [] OTHER -> OptionalUnion(updated, created)

\* As the code, with an optional write taken to happen.
ReplacedRootAlways(state, w) == w.schema

\* The schema of a root after a write of the whole root.
ReplacedRoot(state, w) ==
    LET old == state.schema[Root(w.key)] IN
    IF w.required THEN w.schema ELSE OptionalUnion(old, w.schema)

\* One ordered write to the schemas and to the guaranteed roots together.
Apply(state, w) ==
    LET r == Root(w.key)
        old == state.schema[r]
        allowed == IF Len(w.key) = 1 THEN KeepsStructure(old, w.schema)
                   ELSE \A s \in old : IsObject(s)
    IN  IF ~state.ok \/ ~allowed THEN Refused
        ELSE [ok |-> TRUE,
              schema |-> [state.schema EXCEPT ![r] =
                  IF Len(w.key) = 1 THEN ReplacedRoot(state, w) ELSE WrittenRoot(state, w)],
              req |-> IF w.required THEN state.req \cup {r} ELSE state.req]

\* Every declared write in turn; one without a schema is never carried out.
ApplyAll(state, writes) ==
    LET upto[i \in 0 .. Len(writes)] ==
            IF i = 0 THEN state
            ELSE IF writes[i].schema = {} THEN upto[i - 1] ELSE Apply(upto[i - 1], writes[i])
    IN  upto[Len(writes)]

\* The schema of the value at a key, the empty set when it is not declared.
Resolve(state, key) ==
    LET schema == state.schema[Root(key)]
        types == UNION {s.props[Leaf(key)] : s \in {t \in schema : Leaf(key) \in DOMAIN t.props}}
    IN  IF Len(key) = 1 THEN schema ELSE IF types = {} THEN {} ELSE Scalar(types)

\* Whether the value at a key is guaranteed to exist, given its root is.
PathGuaranteed(schema, key) == schema # {} /\ (Len(key) = 1 \/ \A s \in schema : Leaf(key) \in s.req)

PathRequired(state, key) ==
    Root(key) \in state.req /\ PathGuaranteed(state.schema[Root(key)], key)

\* The writes of the n-th turn: one DataKey after another in canonical order, at
\* each one what a Data Input is wired to and then what a Module makes.
InTurn(writes, n) == {w \in writes : w.key = DataKeys[(n + 1) \div 2] /\ w.pass = (n % 2 = 1)}

ByKey(writes) ==
    LET upto[n \in 0 .. 2 * Len(DataKeys)] ==
            IF n = 0 THEN <<>>
            ELSE IF InTurn(writes, n) = {} THEN upto[n - 1]
            ELSE Append(upto[n - 1], CHOOSE w \in InTurn(writes, n) : TRUE)
    IN  upto[2 * Len(DataKeys)]

\* What a Module writes, as boundary outputs.
Made(writes) == {[key |-> w.key, schema |-> w.schema, required |-> w.required, pass |-> FALSE,
                  from |-> "node", of |-> w.key] : w \in writes}

-----------------------------------------------------------------------------
(* The resources: values have one level of fields, and neither two Module   *)
(* outputs nor two wires of a Graph end at one DataKey.                     *)

ReadsFit(reads, sources) ==
    \A r \in reads : r.from \in sources /\ r.key \in Keys /\ r.required \in BOOLEAN

WritesFit(writes) ==
    \A w \in writes :
        /\ w.key \in Keys /\ w.required \in BOOLEAN /\ WellFormed(w.schema)
        /\ Len(w.key) = 2 => \A s \in w.schema : ~IsObject(s)
        /\ \A v \in writes : v.key = w.key => v = w

PassesFit(passes, sources) ==
    \A p \in passes :
        /\ p.from \in sources /\ p.key \in Keys /\ p.to \in Keys
        /\ Len(p.to) = 2 => Len(p.key) = 2
        /\ \A q \in passes : q.to = p.to => q = p

GraphFits(graph, sources) ==
    ReadsFit(graph.reads, sources) /\ PassesFit(graph.passes, sources) /\ WritesFit(graph.writes)

ModulesFit(modules) ==
    /\ modules \in Seq({modules[i] : i \in DOMAIN modules})
    /\ \A i \in DOMAIN modules : ReadsFit(modules[i].reads, {"data"}) /\ WritesFit(modules[i].writes)

SamplerFits(state) == state.ok /\ ContractState(state)

DesignFits(d) ==
    /\ SamplerFits(d.sampler)
    /\ GraphFits(d.environment, {"sample", "last"})
    /\ d.whitelist \subseteq Keys /\ d.blacklist \subseteq Keys
    /\ ModulesFit(d.pre) /\ GraphFits(d.signal, {"data"}) /\ ModulesFit(d.post)
    /\ GraphFits(d.analysis, {"sample", "last", "currentPipeline"})

\* The canonical order has a root before its fields, and no DataKey twice.
KeysInOrder ==
    /\ DataKeys \in Seq(Seq(Nat))
    /\ \A i \in DOMAIN DataKeys :
         /\ Len(DataKeys[i]) \in {1, 2}
         /\ Len(DataKeys[i]) = 2 => /\ DataKeys[i][2] # Self
                                    /\ \E j \in 1 .. i : DataKeys[j] = <<DataKeys[i][1]>>
         /\ \A j \in DOMAIN DataKeys : DataKeys[j] = DataKeys[i] => j = i

ASSUME KeysAssumption == KeysInOrder
ASSUME CyclesAssumption == MaxCycles \in Nat
ASSUME DesignsAssumption == \A d \in Designs : DesignFits(d)
ASSUME TemporariesAssumption == \A list \in Temporaries : ModulesFit(list)

-----------------------------------------------------------------------------
(* Compiling the Graphs and the direct Modules against contract states.    *)
(* A Graph has node inputs (reads), node outputs (writes) and Data Inputs   *)
(* wired straight to Data Outputs (passes).                                 *)

ReadAllowed(state, r, strict) ==
    LET provided == Resolve(state, r.key) IN
    IF provided = {} THEN ~(r.required /\ strict)
    ELSE /\ r.required => PathRequired(state, r.key)
         /\ Compatible(provided, r.schema)

Outputs(graph, sources) ==
    ByKey(Made(graph.writes)
          \cup {[key |-> p.to, schema |-> Resolve(sources[p.from], p.key), pass |-> TRUE,
                 required |-> PathRequired(sources[p.from], p.key),
                 from |-> p.from, of |-> p.key] : p \in graph.passes})

\* compile_verified_module_graph: the compiled boundary writes, or a refusal.
Compile(graph, sources, strict) ==
    [ok |-> /\ \A r \in graph.reads : ReadAllowed(sources[r.from], r, strict)
            /\ ApplyAll(Empty, Outputs(graph, sources)).ok,
     outputs |-> Outputs(graph, sources)]

\* apply_pipeline_module_contract
ApplyModule(state, module) ==
    IF ~(\A r \in module.reads : ReadAllowed(state, r, TRUE)) THEN Refused
    ELSE ApplyAll(state, ByKey(Made(module.writes)))

Covers(key, other) == Root(key) = Root(other) /\ (Len(key) = 1 \/ key = other)
Minimal(keys) == {k \in keys : ~\E p \in keys \ {k} : Covers(p, k)}

\* compile_observation_projection_plan
Selected(d) == {k \in Minimal(d.whitelist) : ~\E b \in d.blacklist : Covers(b, k)}
Denied(d) == {b \in Minimal(d.blacklist) : \E k \in Selected(d) : k # b /\ Covers(k, b)}

WithoutDenied(shape, denied) ==
    [props |-> [leaf \in DOMAIN shape.props \ denied |-> shape.props[leaf]],
     req |-> shape.req \ denied]

\* The images of one alternative under a partial selection of its fields: the
\* root is emitted only when one of the selected fields is.
SelectedShapes(shape, fields) ==
    LET props == [leaf \in DOMAIN shape.props \cap fields |-> shape.props[leaf]]
        req == shape.req \cap fields
    IN  IF req # {} THEN {[props |-> props, req |-> req]}
        ELSE {[props |-> props, req |-> {leaf}] : leaf \in DOMAIN props}

\* Whether every value of a root keeps one of the selected fields.
AlwaysEmits(source, fields) == \A s \in source : s.req \cap fields # {}

\* No value of the source has any selected path.
NoWitness(image) == image = {}

\* project_observation_contract_state
ProjectContracts(state, d) ==
    LET selected(r) == {k \in Selected(d) : Root(k) = r}
        fields(r) == {Leaf(k) : k \in selected(r)}
        denied(r) == {Leaf(b) : b \in {c \in Denied(d) : Root(c) = r}}
        source(r) == {WithoutDenied(s, denied(r)) : s \in state.schema[r]}
        whole(r) == <<r>> \in selected(r)
        emits(r) == whole(r) \/ AlwaysEmits(source(r), fields(r))
        image(r) == CASE selected(r) = {} -> {}
                      [] whole(r) -> source(r)
                      [] OTHER -> UNION {SelectedShapes(s, fields(r)) : s \in source(r)}
    IN  IF \E k \in d.whitelist \cup d.blacklist : Resolve(state, k) = {} THEN Refused
        ELSE IF \E r \in Roots : selected(r) # {} /\ NoWitness(image(r)) THEN Refused
        ELSE [ok |-> TRUE, schema |-> [r \in Roots |-> image(r)],
              req |-> {r \in state.req : selected(r) # {} /\ emits(r)}]

\* cycle_input_contract_state: every Sample root is guaranteed, no `last` key is.
CycleSources(d, through) == [from \in {"sample", "last", "currentPipeline"} |->
    CASE from = "sample" -> d.sampler
      [] from = "last" -> [through EXCEPT !.req = {}]
      [] OTHER -> through]

-----------------------------------------------------------------------------
(* Composition. *)

NoPlan == [env |-> <<>>, input |-> Empty, entry |-> Empty, signal |-> <<>>, through |-> Empty,
           analysis |-> <<>>, result |-> Empty]

Init ==
    /\ design \in Designs
    /\ phase = "draft"
    /\ binding = FALSE
    /\ before = Empty /\ seen = {} /\ work = Empty /\ plan = NoPlan
    /\ at = 1 /\ cycle = 0
    /\ heap = <<>> /\ sample = <<>> /\ data = <<>> /\ previous = <<>> /\ lastCycle = <<>>
    /\ recorded = <<>> /\ temporary = <<>> /\ failure = "none"
    /\ was = [sample |-> <<>>, last |-> <<>>, left |-> <<>>]

Unbuilt == UNCHANGED <<design, cells, cycle, recorded, temporary, failure, was>>

\* The contracts of one step replace those before it, or the step is refused.
Bound(state, then) ==
    /\ work' = state
    /\ phase' = IF state.ok THEN then ELSE IF binding THEN "mismatch" ELSE "refused"

\* What the worker derives again, against what was frozen.
ObservationAgrees(projected) == plan.input = projected
PipelineAgrees(signal) == <<plan.entry, plan.signal>> = <<work, signal.outputs>>
EnvironmentAgrees(environment) == <<plan.env, plan.through>> = <<environment.outputs, work>>
AnalysisAgrees(analysis, result) == <<plan.analysis, plan.result>> = <<analysis.outputs, result>>

\* The preliminary Environment compile: no previous cycle is known yet.
ComposePreliminary ==
    /\ phase = "draft"
    /\ \E environment \in {Compile(design.environment, CycleSources(design, Empty), FALSE)} :
         IF environment.ok
         THEN phase' = "observation" /\ before' = ApplyAll(Empty, environment.outputs)
         ELSE phase' = "refused" /\ UNCHANGED before
    /\ UNCHANGED <<seen, work, plan, at, binding>>
    /\ Unbuilt

\* A round starts from Observation contracts not met before.
BindObservation ==
    /\ phase = "observation"
    /\ IF before \in seen /\ ~binding
       THEN phase' = "refused" /\ UNCHANGED <<work, seen, plan>>
       ELSE \E projected \in {ProjectContracts(before, design)} :
            IF binding /\ ~ObservationAgrees(projected)
            THEN phase' = "mismatch" /\ UNCHANGED <<work, seen, plan>>
            ELSE /\ Bound(projected, "bindPre")
                 /\ seen' = seen \cup {before}
                 /\ plan' = [plan EXCEPT !.input = projected]
    /\ at' = 1
    /\ UNCHANGED <<before, binding>>
    /\ Unbuilt

\* One direct Module of the Pipeline.
BindDirect(modules, here, then) ==
    /\ phase = here
    /\ IF at > Len(modules) THEN phase' = then /\ at' = 1 /\ UNCHANGED work
       ELSE Bound(ApplyModule(work, modules[at]), here) /\ at' = at + 1
    /\ UNCHANGED <<before, seen, plan, binding>>
    /\ Unbuilt

BindPre == BindDirect(design.pre, "bindPre", "bindSignal")

BindSignal ==
    /\ phase = "bindSignal"
    /\ \E signal \in {Compile(design.signal, [from \in {"data"} |-> work], TRUE)} :
         IF ~signal.ok THEN Bound(Refused, "refused") /\ UNCHANGED plan
         ELSE IF binding /\ ~PipelineAgrees(signal)
         THEN phase' = "mismatch" /\ UNCHANGED <<work, plan>>
         ELSE /\ Bound(ApplyAll(work, signal.outputs), "bindPost")
              /\ plan' = [plan EXCEPT !.entry = work, !.signal = signal.outputs]
    /\ at' = 1
    /\ UNCHANGED <<before, seen, binding>>
    /\ Unbuilt

BindPost == BindDirect(design.post, "bindPost", "environmentGraph")

\* As the code, with the first round taken as the fixed point.
StableAtOnce(next) == TRUE

Stable(next) == next = before

\* The strict Environment compile closes the round: at the fixed point the
\* Analysis follows, otherwise another round starts from what this one produced.
CompileEnvironment ==
    /\ phase = "environmentGraph"
    /\ \E environment \in {Compile(design.environment, CycleSources(design, work), TRUE)} :
       \E next \in {ApplyAll(Empty, environment.outputs)} :
         CASE ~environment.ok -> Bound(Refused, "refused") /\ UNCHANGED <<before, plan>>
           [] environment.ok /\ binding /\ ~EnvironmentAgrees(environment) ->
                phase' = "mismatch" /\ UNCHANGED <<before, plan, work>>
           [] environment.ok /\ ~binding /\ ~Stable(next) ->
                phase' = "observation" /\ before' = next /\ UNCHANGED <<plan, work>>
           [] OTHER ->
                /\ phase' = "analysisGraph"
                /\ plan' = [plan EXCEPT !.env = environment.outputs, !.through = work]
                /\ UNCHANGED <<before, work>>
    /\ UNCHANGED <<seen, at, binding>>
    /\ Unbuilt

\* bind_frozen_backtest_composition starts from the frozen Environment plan.
StartBinding ==
    /\ phase' = "observation" /\ binding' = TRUE
    /\ before' = ApplyAll(Empty, plan.env)

\* The Analysis completes the artifact, which the worker then binds again from
\* its frozen Environment plan; once it agrees, the cycles may run.
CompileAnalysis ==
    /\ phase = "analysisGraph"
    /\ \E analysis \in {Compile(design.analysis, CycleSources(design, work), TRUE)} :
       \E result \in {ApplyAll(work, analysis.outputs)} :
         IF ~(analysis.ok /\ result.ok) THEN Bound(Refused, "refused") /\ UNCHANGED <<plan, binding, before>>
         ELSE IF binding
         THEN /\ phase' = IF AnalysisAgrees(analysis, result) THEN "sample" ELSE "mismatch"
              /\ UNCHANGED <<work, plan, binding, before>>
         ELSE /\ plan' = [plan EXCEPT !.analysis = analysis.outputs, !.result = result]
              /\ StartBinding
              /\ UNCHANGED work
    /\ at' = 1
    /\ UNCHANGED seen
    /\ Unbuilt

-----------------------------------------------------------------------------
(* Data Dicts.  A value is a function from leaves to types; a wire carries *)
(* a value with the cell it lives in, 0 when it is the reader's own.       *)

Has(h, d, key) == Root(key) \in DOMAIN d /\ (Len(key) = 1 \/ Leaf(key) \in DOMAIN h[d[Root(key)]])

ValueAt(h, d, key) ==
    LET cell == h[d[Root(key)]] IN
    IF Len(key) = 1 THEN cell ELSE [leaf \in {Self} |-> cell[Leaf(key)]]

Wire(h, d, key) == [cell |-> IF Len(key) = 1 THEN d[Root(key)] ELSE 0,
                    value |-> ValueAt(h, d, key)]
Own(value) == [cell |-> 0, value |-> value]

Fits(value, shape) ==
    /\ shape.req \subseteq DOMAIN value /\ DOMAIN value \subseteq DOMAIN shape.props
    /\ \A leaf \in DOMAIN value : value[leaf] \in shape.props[leaf]
Accepts(schema, value) == \E s \in schema : Fits(value, s)

\* compile_cycle_validator: the guaranteed roots are there, and what is there fits.
Declares(state, values) ==
    /\ state.req \subseteq DOMAIN values
    /\ \A r \in DOMAIN values : Accepts(state.schema[r], values[r])

Values(schema) == UNION {{v \in UNION {[leaves -> Types] : leaves \in SUBSET DOMAIN s.props} :
                            Fits(v, s)} : s \in schema}

\* A Data Dict with the heap it lives in; ok says no write changed a structure.
Dict(h, d) == [ok |-> TRUE, h |-> h, d |-> d]
Put(d, r, cell) == [x \in DOMAIN d \cup {r} |-> IF x = r THEN cell ELSE d[x]]

WriteWhole(s, r, wire) ==
    LET clash == r \in DOMAIN s.d /\ (Self \in DOMAIN s.h[s.d[r]]) # (Self \in DOMAIN wire.value)
        own == wire.cell = 0
    IN  [ok |-> s.ok /\ ~clash,
         h |-> IF own THEN Append(s.h, wire.value) ELSE s.h,
         d |-> Put(s.d, r, IF own THEN Len(s.h) + 1 ELSE wire.cell)]

\* set_data_segments, on an object another Data Dict may share.
WriteFieldInPlace(s, r, field, type) ==
    LET old == IF r \in DOMAIN s.d THEN s.h[s.d[r]] ELSE <<>>
        new == [leaf \in DOMAIN old \cup {field} |-> IF leaf = field THEN type ELSE old[leaf]]
    IN  [ok |-> s.ok /\ Self \notin DOMAIN old,
         h |-> IF r \in DOMAIN s.d THEN [s.h EXCEPT ![s.d[r]] = new] ELSE Append(s.h, new),
         d |-> IF r \in DOMAIN s.d THEN s.d ELSE Put(s.d, r, Len(s.h) + 1)]

\* set_data_segments_copy_on_write: the object on the written path is copied.
WriteFieldCopying(s, r, field, type) ==
    LET old == IF r \in DOMAIN s.d THEN s.h[s.d[r]] ELSE <<>>
        new == [leaf \in DOMAIN old \cup {field} |-> IF leaf = field THEN type ELSE old[leaf]]
    IN  [ok |-> s.ok /\ Self \notin DOMAIN old, h |-> Append(s.h, new), d |-> Put(s.d, r, Len(s.h) + 1)]

Write(s, key, wire) ==
    IF Len(key) = 1 THEN WriteWhole(s, Root(key), wire)
    ELSE WriteFieldCopying(s, Root(key), Leaf(key), wire.value[Self])

\* delete_data_segments_copy_on_write
Delete(s, key) ==
    IF Root(key) \notin DOMAIN s.d THEN s
    ELSE LET old == s.h[s.d[Root(key)]] IN
         [s EXCEPT !.h = Append(s.h, [leaf \in DOMAIN old \ {Leaf(key)} |-> old[leaf]]),
                   !.d = Put(s.d, Root(key), Len(s.h) + 1)]

DeleteAll(s, keys) ==
    LET upto[i \in 0 .. Len(DataKeys)] ==
            IF i = 0 THEN s
            ELSE IF DataKeys[i] \in keys THEN Delete(upto[i - 1], DataKeys[i]) ELSE upto[i - 1]
    IN  upto[Len(DataKeys)]

\* One path of a projection: the value stays shared.
Copy(s, d, key) ==
    IF ~Has(s.h, d, key) THEN s
    ELSE IF Len(key) = 1 THEN WriteWhole(s, Root(key), Wire(s.h, d, key))
    ELSE WriteFieldInPlace(s, Root(key), Leaf(key), ValueAt(s.h, d, key)[Self])

\* project_compiled_data_paths: a fresh path tree of the values at some keys.
Project(s, d, keys) ==
    LET upto[i \in 0 .. Len(DataKeys)] ==
            IF i = 0 THEN s
            ELSE IF DataKeys[i] \in keys THEN Copy(upto[i - 1], d, DataKeys[i]) ELSE upto[i - 1]
    IN  upto[Len(DataKeys)]

\* The place of a number among the numbers of a set, and the number at a place.
Rank(S, x) == Cardinality({y \in S : y <= x})
AtRank(S, i) == CHOOSE x \in S : Rank(S, x) = i

\* Values of their own for some roots, behind those of a heap.
Fresh(h, values) ==
    [h |-> h \o [i \in 1 .. Cardinality(DOMAIN values) |-> values[AtRank(DOMAIN values, i)]],
     d |-> [r \in DOMAIN values |-> Len(h) + Rank(DOMAIN values, r)]]

Deref(h, d) == [r \in DOMAIN d |-> h[d[r]]]

\* The keys a Graph reads from one source.
KeysFrom(graph, from) == {r.key : r \in {x \in graph.reads : x.from = from}}
                         \cup {p.key : p \in {x \in graph.passes : x.from = from}}
LastKeys(graph) == KeysFrom(graph, "last")

PreviousKeys == LastKeys(design.environment) \cup LastKeys(design.analysis)

-----------------------------------------------------------------------------
(* One cycle. *)

\* Required paths the entry proof of a Graph finds missing.  The contract of
\* `last` lists every root as required, so once any `last` key is there, all
\* the others must be.
EntryMissing(graph, dicts, states) ==
    \/ \E from \in DOMAIN dicts : \E k \in KeysFrom(graph, from) :
         PathRequired(states[from], k) /\ ~Has(heap, dicts[from], k)
    \/ /\ "last" \in DOMAIN dicts
       /\ \E k \in LastKeys(graph) : Has(heap, dicts["last"], k)
       /\ \E k \in LastKeys(graph) :
            PathGuaranteed(states["last"].schema[Root(k)], k) /\ ~Has(heap, dicts["last"], k)

EntryUnfit(graph, dicts, states) ==
    \E from \in DOMAIN dicts : \E k \in KeysFrom(graph, from) :
        /\ Has(heap, dicts[from], k)
        /\ ~Accepts(Resolve(states[from], k), ValueAt(heap, dicts[from], k))

Starves(reads, dicts) ==
    \E r \in reads : r.required /\ ~Has(heap, dicts[r.from], r.key)

KeysOf(parts) == {x.key : x \in parts}

\* What a Module may return: every required output, any optional ones.
Returns(writes) ==
    UNION {{f \in [KeysOf(given) -> UNION {Values(w.schema) : w \in given}] :
              \A w \in given : f[w.key] \in Values(w.schema)} :
           given \in {g \in SUBSET writes : {w \in writes : w.required} \subseteq g}}

\* The value a compiled boundary output carries, from a node or from a Data Input.
Carries(o, out, dicts) ==
    IF o.pass THEN Has(heap, dicts[o.from], o.of)
    ELSE o.key \in DOMAIN out
Carried(o, out, dicts) ==
    IF o.pass THEN Wire(heap, dicts[o.from], o.of) ELSE Own(out[o.key])

\* Every boundary write of a Graph, in order, into a target Data Dict.
WriteOutputs(outputs, out, dicts, target) ==
    LET upto[i \in 0 .. Len(outputs)] ==
            IF i = 0 THEN Dict(heap, target)
            ELSE IF Carries(outputs[i], out, dicts)
            THEN Write(upto[i - 1], outputs[i].key, Carried(outputs[i], out, dicts))
            ELSE upto[i - 1]
    IN  upto[Len(outputs)]

OutputMissing(outputs, out, dicts) ==
    \E i \in DOMAIN outputs : outputs[i].required /\ ~Carries(outputs[i], out, dicts)

Composed == UNCHANGED <<design, before, seen, work, binding, plan, temporary>>

Fail(why) ==
    /\ phase' = "failed" /\ failure' = why
    /\ UNCHANGED <<at, cells, cycle, recorded, was>>

\* One Graph execution into a target: presence, then values, then the nodes in
\* turn, then the boundary outputs.
Execute(graph, outputs, dicts, states, target, then) ==
    IF EntryMissing(graph, dicts, states) THEN Fail("entry")
    ELSE IF EntryUnfit(graph, dicts, states) THEN Fail("unfit")
    ELSE IF Starves(graph.reads, dicts) THEN Fail("starved")
    ELSE \E out \in Returns(graph.writes) :
         \E s \in {WriteOutputs(outputs, out, dicts, target)} :
         IF OutputMissing(outputs, out, dicts) THEN Fail("output")
         ELSE IF ~s.ok THEN Fail("structure")
         ELSE /\ phase' = then /\ heap' = s.h /\ data' = s.d
              /\ UNCHANGED failure

\* The Sampler's next frame.
NextSample ==
    /\ phase = "sample" /\ cycle < MaxCycles
    /\ \E frame \in {f \in [design.sampler.req -> UNION {Values(design.sampler.schema[r]) : r \in Roots}] :
                       \A r \in DOMAIN f : f[r] \in Values(design.sampler.schema[r])} :
         /\ heap' = Fresh(heap, frame).h /\ sample' = Fresh(heap, frame).d
         /\ was' = [sample |-> frame, last |-> was.left, left |-> <<>>]
    /\ lastCycle' = previous
    /\ phase' = "environment"
    /\ Composed
    /\ UNCHANGED <<at, data, previous, cycle, recorded, failure>>

CycleDicts == [from \in {"sample", "last"} |-> IF from = "sample" THEN sample ELSE lastCycle]

\* Environment.execute_observation: the boundary outputs become the Observation.
RunEnvironment ==
    /\ phase = "environment"
    /\ Execute(design.environment, plan.env, CycleDicts,
               CycleSources(design, plan.through), <<>>, "project")
    /\ Composed
    /\ UNCHANGED <<at, sample, previous, lastCycle, cycle, recorded, was>>

\* Pipeline.execute_observation consumes the Observation: whitelist, blacklist.
RunProjection ==
    /\ phase = "project"
    /\ \E s \in {DeleteAll(Project(Dict(heap, <<>>), data, Selected(design)), Denied(design))} :
         heap' = s.h /\ data' = s.d
    /\ phase' = "pre" /\ at' = 1
    /\ Composed
    /\ UNCHANGED <<sample, previous, lastCycle, cycle, recorded, failure, was>>

\* One direct Module: its inputs, its outputs, written in key order.
RunDirect(modules, here, then) ==
    /\ phase = here
    /\ IF at > Len(modules)
       THEN phase' = then /\ at' = 1 /\ UNCHANGED <<heap, data, failure>>
       ELSE LET module == modules[at] IN
            IF Starves(module.reads, [from \in {"data"} |-> data]) THEN Fail("starved")
            ELSE IF \E r \in module.reads :
                        Has(heap, data, r.key) /\ ~Accepts(r.schema, ValueAt(heap, data, r.key))
            THEN Fail("unfit")
            ELSE \E out \in Returns(module.writes) :
                 \E s \in {WriteOutputs(ByKey(Made(module.writes)), out, <<>>, data)} :
                     IF ~s.ok THEN Fail("structure")
                     ELSE /\ heap' = s.h /\ data' = s.d
                          /\ at' = at + 1 /\ UNCHANGED <<phase, failure>>
    /\ Composed
    /\ UNCHANGED <<sample, previous, lastCycle, cycle, recorded, was>>

RunPre == RunDirect(design.pre, "pre", "signal")

\* The Signal Graph reads and writes the same Data Dict.
RunSignal ==
    /\ phase = "signal"
    /\ Execute(design.signal, plan.signal, [from \in {"data"} |-> data],
               [from \in {"data"} |-> plan.entry], data, "post")
    /\ Composed
    /\ UNCHANGED <<at, sample, previous, lastCycle, cycle, recorded, was>>

RunPost == RunDirect(design.post, "post", "previous")

\* The projection the next cycle will read, taken before the Analysis writes:
\* what the Environment reads first, then what only the Analysis reads.
KeepPrevious ==
    /\ phase = "previous"
    /\ \E s \in {Project(Project(Dict(heap, <<>>), data, LastKeys(design.environment)), data,
                        LastKeys(design.analysis) \ LastKeys(design.environment))} :
         heap' = s.h /\ previous' = s.d
    /\ was' = [was EXCEPT !.left = Deref(heap, data)]
    /\ phase' = "analysis"
    /\ Composed
    /\ UNCHANGED <<at, sample, data, lastCycle, cycle, recorded, failure>>

RunAnalysis ==
    /\ phase = "analysis"
    /\ Execute(design.analysis, plan.analysis,
               [from \in {"sample", "last", "currentPipeline"} |->
                  IF from = "currentPipeline" THEN data ELSE CycleDicts[from]],
               CycleSources(design, plan.through), data, "append")
    /\ Composed
    /\ UNCHANGED <<at, sample, previous, lastCycle, cycle, recorded, was>>

\* The cells `d` reaches, renumbered: nothing else outlives the cycle.
Compacted(d) ==
    LET live == {d[r] : r \in DOMAIN d}
    IN  [h |-> [i \in 1 .. Cardinality(live) |-> heap[AtRank(live, i)]],
         d |-> [r \in DOMAIN d |-> Rank(live, d[r])]]

\* The writer encodes the cycle at once.
AppendCycle ==
    /\ phase = "append"
    /\ recorded' = Deref(heap, data)
    /\ cycle' = cycle + 1
    /\ heap' = Compacted(previous).h /\ previous' = Compacted(previous).d
    /\ sample' = <<>> /\ data' = <<>> /\ lastCycle' = <<>>
    /\ was' = [was EXCEPT !.sample = <<>>, !.last = <<>>]
    /\ phase' = "sample"
    /\ Composed
    /\ UNCHANGED <<at, failure>>

-----------------------------------------------------------------------------
(* Reading the Result through temporary Modules. *)

\* What a temporary Module declares by itself.
Declared(module) == ApplyAll(Empty, ByKey(Made(module.writes)))

\* A write of a root that does not keep the field that is read.
Destroys(module, key) ==
    /\ Len(key) = 2 /\ <<Root(key)>> \in KeysOf(module.writes)
    /\ ~PathGuaranteed(Declared(module).schema[Root(key)], key)

\* Whether the value is there without this producer.
Elsewhere(list, reader, producer, key) ==
    \/ Resolve(plan.result, key) # {}
    \/ \E i \in DOMAIN list \ {reader, producer} : Resolve(Declared(list[i]), key) # {}

\* The list positions that must run before position `i`: those that produce what
\* it reads, and the readers of what it would destroy.
Precede(list, i) ==
    LET destroys(j, k, key) == Destroys(list[j], key) /\ Elsewhere(list, k, j, key) IN
    {j \in DOMAIN list \ {i} :
        \/ \E key \in KeysOf(list[i].reads) :
              ~destroys(j, i, key) /\ Resolve(Declared(list[j]), key) # {}
        \/ \E key \in KeysOf(list[j].reads) : destroys(i, j, key)}

\* The positions that are ready once others are done, in the order of the list.
Layer(list, done) ==
    LET upto[i \in 0 .. Len(list)] ==
            IF i = 0 THEN <<>>
            ELSE IF i \notin done /\ Precede(list, i) \subseteq done THEN Append(upto[i - 1], i)
            ELSE upto[i - 1]
    IN  upto[Len(list)]

\* One layer after another, until none is ready.
Layered(list) ==
    LET upto[n \in 0 .. Len(list)] ==
            IF n = 0 THEN <<>>
            ELSE upto[n - 1] \o Layer(list, {upto[n - 1][i] : i \in DOMAIN upto[n - 1]})
    IN  upto[Len(list)]

\* As a direct Module, but an unknown input is refused even when optional.
ApplyTemporary(state, module) ==
    IF \E r \in module.reads : Resolve(state, r.key) = {} THEN Refused
    ELSE ApplyModule(state, module)

ApplyTemporaries(state, modules) ==
    LET upto[i \in 0 .. Len(modules)] ==
            IF i = 0 THEN state ELSE ApplyTemporary(upto[i - 1], modules[i])
    IN  upto[Len(modules)]

\* Two producers of one DataKey.
Contested(list) ==
    \E i, j \in DOMAIN list : i # j /\ KeysOf(list[i].writes) \cap KeysOf(list[j].writes) # {}

\* compile_temporary_module_plan, over the contracts the Result declares.
OpenResult ==
    /\ phase = "sample" /\ cycle = MaxCycles
    /\ \E list \in Temporaries :
       \E order \in {Layered(list)} :
       \E state \in {ApplyTemporaries(plan.result, [i \in DOMAIN order |-> list[order[i]]])} :
         IF Contested(list) \/ Len(order) < Len(list) \/ ~state.ok
         THEN phase' = "unreadable" /\ UNCHANGED <<work, temporary>>
         ELSE /\ phase' = "decode" /\ work' = state
              /\ temporary' = [i \in DOMAIN order |-> list[order[i]]]
    /\ heap' = <<>> /\ previous' = <<>> /\ was' = [was EXCEPT !.left = <<>>]
    /\ UNCHANGED <<design, before, seen, binding, plan, at, sample, data, lastCycle, cycle, recorded, failure>>

\* The reader decodes a cycle, if there is one, into values of its own and proves
\* it against the declarations.
DecodeCycle ==
    /\ phase = "decode" /\ cycle > 0
    /\ IF ~Declares(plan.result, recorded) THEN Fail("unfit")
       ELSE /\ phase' = "temporary" /\ at' = 1
            /\ heap' = Fresh(<<>>, recorded).h /\ data' = Fresh(<<>>, recorded).d
            /\ UNCHANGED <<sample, previous, lastCycle, cycle, recorded, failure, was>>
    /\ Composed

RunTemporary == RunDirect(temporary, "temporary", "transformed")

\* The final validator, over what the temporary Modules left.
ProveProjection ==
    /\ phase = "transformed"
    /\ phase' = IF Declares(work, Deref(heap, data)) THEN "read" ELSE "failed"
    /\ failure' = IF Declares(work, Deref(heap, data)) THEN failure ELSE "unfit"
    /\ Composed
    /\ UNCHANGED <<at, cells, cycle, recorded, was>>

Finished ==
    /\ \/ phase \in {"refused", "mismatch", "failed", "unreadable", "read"}
       \/ phase = "decode" /\ cycle = 0
    /\ UNCHANGED vars

Next ==
    \/ ComposePreliminary \/ BindObservation \/ BindPre \/ BindSignal \/ BindPost
    \/ CompileEnvironment \/ CompileAnalysis
    \/ NextSample \/ RunEnvironment \/ RunProjection \/ RunPre \/ RunSignal \/ RunPost
    \/ KeepPrevious \/ RunAnalysis \/ AppendCycle
    \/ OpenResult \/ DecodeCycle \/ RunTemporary \/ ProveProjection
    \/ Finished

Spec == Init /\ [][Next]_vars

-----------------------------------------------------------------------------
(* Properties. *)

TypeOK ==
    /\ phase \in {"draft", "observation", "bindPre", "bindSignal", "bindPost", "environmentGraph",
                  "analysisGraph", "refused", "mismatch", "sample", "environment", "project", "pre", "signal", "post", "previous",
                  "analysis", "append", "failed", "unreadable", "decode", "temporary", "transformed", "read"}
    /\ failure \in {"none", "entry", "unfit", "starved", "output", "structure"}
    /\ cycle \in 0 .. MaxCycles

\* What the worker derives again from a frozen artifact is what was frozen:
\* compose_backtest_plans stops only at a fixed point, so
\* bind_frozen_backtest_composition never refuses an accepted submission.
FrozenCompositionBinds == phase # "mismatch"

\* No run of an accepted composition fails on its data, whatever optional
\* outputs its Modules leave out, the first cycle included: every required
\* input is there and fits, no write changes a structure.  (The entry proof's
\* demand on `last` is EntryProofHolds.)
ComposedNeverStarves == failure \in {"none", "entry"}

\* Every cycle recorded fits the contracts the result declares: its guaranteed
\* roots are there, and each root that is there has a declared shape.
ResultIsAsDeclared ==
    cycle > 0 => Declares(plan.result, recorded)

\* The values of a Data Dict at some keys.
Restricted(values, keys) ==
    LET of(r) == {k \in keys : Root(k) = r}
        leaves(r) == IF <<r>> \in of(r) THEN DOMAIN values[r]
                     ELSE DOMAIN values[r] \cap {Leaf(k) : k \in of(r)}
        present == {r \in DOMAIN values : <<r>> \in of(r) \/ leaves(r) # {}}
    IN  [r \in present |-> [leaf \in leaves(r) |-> values[r][leaf]]]

\* All stages of a cycle read one sample and one previous cycle, although the
\* Data Dicts share their objects: no later write is seen through `sample` or
\* `last`, and `last` is what the Pipeline left a cycle ago, without anything
\* the Analysis wrote.
StagesReadOneCycle ==
    LET keys == PreviousKeys IN
    /\ phase \in {"environment", "project", "pre", "signal", "post", "previous", "analysis", "append"} =>
         /\ Deref(heap, sample) = was.sample
         /\ Deref(heap, lastCycle) = Restricted(was.last, keys)
    /\ phase \in {"analysis", "append", "sample"} =>
         Deref(heap, previous) = Restricted(was.left, keys)

\* A path the entry proof of a Graph demands is one the compiler guarantees to
\* exist (contract_path_required: "Return whether a complete DataKey path is
\* guaranteed to exist").
EntryProofHolds == failure # "entry"

-----------------------------------------------------------------------------
(* Why the composed artifact binds.                                         *)

\* The contracts before each direct Module and after the last.
Chain(modules, state) ==
    LET upto[i \in 0 .. Len(modules)] ==
            IF i = 0 THEN state ELSE ApplyModule(upto[i - 1], modules[i])
    IN  upto

Holds(chain, n) == \A i \in 0 .. n : chain[i].ok

PreChain == Chain(design.pre, plan.input)
PostChain == Chain(design.post, ApplyAll(plan.entry, plan.signal))
SignalGraph == Compile(design.signal, [from \in {"data"} |-> plan.entry], TRUE)
EnvironmentGraph == Compile(design.environment, CycleSources(design, plan.through), TRUE)
AnalysisGraph == Compile(design.analysis, CycleSources(design, plan.through), TRUE)

\* What each part of the plan was derived from.
InputDerived == plan.input = ProjectContracts(before, design) /\ plan.input.ok

EntryDerived ==
    /\ plan.entry = PreChain[Len(design.pre)] /\ Holds(PreChain, Len(design.pre))
    /\ SignalGraph.ok /\ plan.signal = SignalGraph.outputs
    /\ ApplyAll(plan.entry, plan.signal).ok

\* The fixed point: these Environment outputs are what the round started from.
ThroughDerived ==
    /\ plan.through = PostChain[Len(design.post)] /\ Holds(PostChain, Len(design.post))
    /\ EnvironmentGraph.ok /\ plan.env = EnvironmentGraph.outputs
    /\ before = ApplyAll(Empty, plan.env)

ResultDerived ==
    /\ AnalysisGraph.ok /\ plan.analysis = AnalysisGraph.outputs
    /\ plan.result = ApplyAll(plan.through, plan.analysis) /\ plan.result.ok

Running == {"sample", "environment", "project", "pre", "signal", "post", "previous", "analysis", "append",
            "failed", "unreadable", "decode", "temporary", "transformed", "read"}

\* Each part of the plan is there once its step is done, and for good once the
\* artifact is complete; the worker's round walks the same chain of contracts.
FrozenInv ==
    /\ design \in Designs /\ binding \in BOOLEAN
    /\ plan = [env |-> plan.env, input |-> plan.input, entry |-> plan.entry, signal |-> plan.signal,
               through |-> plan.through, analysis |-> plan.analysis, result |-> plan.result]
    /\ (phase \in Running => binding) /\ (phase = "draft" => ~binding)
    /\ phase \in {"draft", "observation", "bindPre", "bindSignal", "bindPost", "environmentGraph",
                  "analysisGraph", "refused"} \cup Running
    /\ binding \/ phase \in {"bindPre", "bindSignal", "bindPost", "environmentGraph", "analysisGraph"}
         => InputDerived
    /\ binding \/ phase \in {"bindPost", "environmentGraph", "analysisGraph"} => EntryDerived
    /\ binding \/ phase = "analysisGraph" => ThroughDerived
    /\ binding => ResultDerived
    /\ phase = "bindPre" =>
         at \in 1 .. Len(design.pre) + 1 /\ work = PreChain[at - 1] /\ Holds(PreChain, at - 1)
    /\ phase = "bindSignal" =>
         work = PreChain[Len(design.pre)] /\ Holds(PreChain, Len(design.pre))
    /\ phase = "bindPost" =>
         at \in 1 .. Len(design.post) + 1 /\ work = PostChain[at - 1] /\ Holds(PostChain, at - 1)
    /\ phase = "environmentGraph" =>
         work = PostChain[Len(design.post)] /\ Holds(PostChain, Len(design.post))
    /\ phase = "analysisGraph" => work = plan.through

-----------------------------------------------------------------------------
(* Why the stages read one cycle, and why the data fits.                    *)

IsFunction(f) == f = [x \in DOMAIN f |-> f[x]]

\* The heap holds values, and the cells of a Data Dict are in it.
HeapOK(h) == h \in Seq({h[i] : i \in DOMAIN h}) /\ \A i \in DOMAIN h : IsFunction(h[i])
Lives(h, d) == IsFunction(d) /\ DOMAIN d \subseteq Roots /\ \A r \in DOMAIN d : d[r] \in DOMAIN h

Composing == {"draft", "observation", "bindPre", "bindSignal", "bindPost", "environmentGraph", "analysisGraph"}

\* Outside a cycle nothing but `previous` is held.
HeapInv ==
    /\ HeapOK(heap)
    /\ Lives(heap, sample) /\ Lives(heap, data) /\ Lives(heap, previous) /\ Lives(heap, lastCycle)
    /\ was = [sample |-> was.sample, last |-> was.last, left |-> was.left]
    /\ phase \in Composing \cup {"sample", "decode"} => sample = <<>> /\ data = <<>> /\ lastCycle = <<>>
    /\ phase \in Composing \cup {"decode"} => previous = <<>> /\ was.left = <<>>

InCycle == {"environment", "project", "pre", "signal", "post", "previous", "analysis", "append"}

\* Whatever is there fits; nothing need be there.
Conforms(state, values) == \A r \in DOMAIN values : Accepts(state.schema[r], values[r])

ReaderChain == Chain(temporary, plan.result)

\* The data fits the contracts of its stage, `last` fits what the Pipeline
\* leaves, and what was recorded fits what the Result declares.
FitInv ==
    LET now == Deref(heap, data) IN
    /\ failure \in {"none", "entry"}
    /\ phase \in InCycle => Declares(design.sampler, was.sample) /\ Conforms(plan.through, was.last)
    /\ phase \in {"analysis", "append", "sample"} => Conforms(plan.through, was.left)
    /\ phase = "project" => Declares(before, now)
    /\ phase = "pre" => at \in 1 .. Len(design.pre) + 1 /\ Declares(PreChain[at - 1], now)
    /\ phase = "signal" => at = 1 /\ Declares(plan.entry, now)
    /\ phase = "post" => at \in 1 .. Len(design.post) + 1 /\ Declares(PostChain[at - 1], now)
    /\ phase \in {"previous", "analysis"} => Declares(plan.through, now)
    /\ phase = "append" => Declares(plan.result, now)
    /\ cycle \in 0 .. MaxCycles
    /\ (phase \in Composing => cycle = 0) /\ (phase \in InCycle => cycle < MaxCycles)
    /\ cycle > 0 => /\ Declares(plan.result, recorded)
                    /\ IsFunction(recorded) /\ DOMAIN recorded \subseteq Roots
                    /\ \A r \in DOMAIN recorded : IsFunction(recorded[r])
    /\ phase \in {"decode", "temporary", "transformed"} =>
         /\ ModulesFit(temporary) /\ Holds(ReaderChain, Len(temporary))
         /\ work = ReaderChain[Len(temporary)]
    /\ phase = "temporary" => at \in 1 .. Len(temporary) + 1 /\ Declares(ReaderChain[at - 1], now)
    /\ phase = "transformed" => Declares(work, now)

PipelineInv == FrozenInv /\ ContractState(before) /\ HeapInv /\ StagesReadOneCycle /\ FitInv
=============================================================================
