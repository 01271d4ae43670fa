----------------------------- MODULE ModuleGraph -----------------------------
(***************************************************************************)
(* One Module Graph from the editor to its Runtime: the typed compiler     *)
(* (compiler/graph.py), the semantic proof that seals a compiled plan and  *)
(* that a frozen worker repeats (authority/graph.py,                       *)
(* authority/graph_semantics.py), and the Runtime that executes the plan   *)
(* wire by wire (runtime/graph.py) through one invoker per Module          *)
(* (runtime/module_invoker.py).                                            *)
(*                                                                         *)
(* A Graph joins input boundaries, Modules and output boundaries by wires. *)
(* A schema is the set of values it admits: one schema is compatible with  *)
(* another when it admits no more.  An input boundary's contract is        *)
(* "declared" (its DataKey is a contract of the composition), "dynamic"    *)
(* (it is found through a typed map, so that the value is proved when it   *)
(* is first used) or "unknown".                                            *)
(***************************************************************************)
EXTENDS Naturals, FiniteSets, Sequences, SequencesExt

CONSTANTS
    Graphs,    \* the Graphs the compiler is given
    Values,    \* JSON values
    Missing,   \* no value on a wire
    Unbound    \* the wire of a port that is not bound

\* What normalize_graph and the first checks of the compiler leave: nodes
\* without repetition, names of their own for nodes and input boundaries, and
\* a wire at every boundary.
Normalized(g) ==
    /\ g.nodes \in Seq(ToSet(g.nodes))
    /\ \A i, j \in DOMAIN g.nodes : g.nodes[i] = g.nodes[j] => i = j
    /\ ToSet(g.nodes) \cap DOMAIN g.inputs = {}
    /\ \A b \in DOMAIN g.inputs : g.inputs[b].wire # Unbound
    /\ \A b \in DOMAIN g.outputs : g.outputs[b] # Unbound

ASSUME GraphsAssumption == Missing \notin Values /\ \A g \in Graphs : Normalized(g)

VARIABLES
    graph,     \* the Graph at hand
    phase,     \* how far it has come
    topology,  \* the order of its nodes in the compiled plan
    at,        \* the next node of the topology to construct or to run
    invokers,  \* each node's invoker: "none", "running", "finalized", "closed"
    value,     \* what each wire carries in this cycle
    proven,    \* wires whose value has been proved in this cycle
    given,     \* the inputs of the last Module that was invoked
    error      \* why the last cycle stopped, or "none"

graphVars == <<graph, phase, topology, at, invokers, value, proven, given, error>>

-----------------------------------------------------------------------------
(* The Graph's own structure.                                              *)

NodesOf(g) == ToSet(g.nodes)

BoundTo(ports, w) == {p \in DOMAIN ports : ports[p].wire = w}

PortWires(ports) == {ports[p].wire : p \in DOMAIN ports}

WiresOf(g) == (PortWires(g.inputs)
               \cup {g.outputs[b] : b \in DOMAIN g.outputs}
               \cup (UNION {PortWires(g.mods[n].ins) : n \in NodesOf(g)})
               \cup (UNION {PortWires(g.mods[n].outs) : n \in NodesOf(g)})) \ {Unbound}

\* Who writes a wire: input boundaries and bound output ports.
Producers(g, w) ==
    {<<b, "value">> : b \in {b \in DOMAIN g.inputs : g.inputs[b].wire = w}}
    \cup UNION {{<<n, p>> : p \in BoundTo(g.mods[n].outs, w)} : n \in NodesOf(g)}

Producer(g, w) == CHOOSE x \in Producers(g, w) : TRUE

IsInput(g, w) == Producer(g, w)[1] \in DOMAIN g.inputs
Contract(g, w) == g.inputs[Producer(g, w)[1]].contract
OutPort(g, w) == g.mods[Producer(g, w)[1]].outs[Producer(g, w)[2]]

\* producer_schemas and producer_presence.
Unknown(g, w) == IsInput(g, w) /\ Contract(g, w).kind = "unknown"

SchemaOf(g, w) == IF IsInput(g, w) THEN Contract(g, w).schema ELSE OutPort(g, w).schema

\* Mutant: a declared value is taken for a guaranteed one.
PresenceOfDeclared(g, w) ==
    IF IsInput(g, w) THEN Contract(g, w).kind # "unknown" ELSE OutPort(g, w).required

Presence(g, w) ==
    IF IsInput(g, w)
      THEN Contract(g, w).kind # "unknown" /\ Contract(g, w).required
      ELSE OutPort(g, w).required

-----------------------------------------------------------------------------
(* compile_module_graph.                                                   *)

SingleProducer(g) == \A w \in WiresOf(g) : \A x, y \in Producers(g, w) : x = y

\* _validate_instance: required ports of both directions are bound.
PortsBound(g) ==
    \A n \in NodesOf(g) :
        /\ \A p \in DOMAIN g.mods[n].ins :
              g.mods[n].ins[p].required => g.mods[n].ins[p].wire # Unbound
        /\ \A p \in DOMAIN g.mods[n].outs :
              g.mods[n].outs[p].required => g.mods[n].outs[p].wire # Unbound

\* Mutant: the two schemas are compared the wrong way round.
CompatibleReversed(provided, required) == required \subseteq provided

\* schemas_compatible: what the provider admits, the reader admits too.
Compatible(provided, required) == provided \subseteq required

\* One bound input port: its wire is produced and present if the port needs
\* it, is not the Module's own, and carries what the port admits.
InputAccepts(g, n, p) ==
    LET port == g.mods[n].ins[p]
        w == port.wire
    IN  IF w = Unbound \/ Producers(g, w) = {} THEN ~port.required
        ELSE /\ port.required => Presence(g, w)
             /\ Producer(g, w)[1] # n
             /\ ~Unknown(g, w) => Compatible(SchemaOf(g, w), port.schema)

\* The wires of a node's inputs that some other node writes.
Sources(g, n) ==
    {Producer(g, w)[1] : w \in {w \in WiresOf(g) :
        /\ BoundTo(g.mods[n].ins, w) # {}
        /\ Producers(g, w) # {}
        /\ ~IsInput(g, w)}}

Dependencies(g) == [n \in NodesOf(g) |-> Sources(g, n)]

\* The elements of a sequence that are in S, in the order of the sequence.
Filtered(seq, S) ==
    LET upto[i \in 0..Len(seq)] ==
          IF i = 0 THEN <<>>
          ELSE IF seq[i] \in S THEN Append(upto[i - 1], seq[i]) ELSE upto[i - 1]
    IN  upto[Len(seq)]

\* The remaining nodes that depend on none of the remaining ones.
Free(g, remaining) == {n \in remaining : Dependencies(g)[n] \cap remaining = {}}

Ready(g, order, remaining) == Filtered(order, Free(g, remaining))

\* Mutant: one ready node at a time.
LayersOfOne(g, order) ==
    LET from[remaining \in SUBSET NodesOf(g)] ==
          LET ready == Ready(g, order, remaining)
          IN  IF ready = <<>> THEN <<>>
              ELSE <<ready[1]>> \o from[remaining \ {ready[1]}]
    IN  from[NodesOf(g)]

\* The topology: layer after layer, each in the editor's order.
Layers(g, order) ==
    LET from[remaining \in SUBSET NodesOf(g)] ==
          LET ready == Ready(g, order, remaining)
          IN  IF ready = <<>> THEN <<>>
              ELSE ready \o from[remaining \ ToSet(ready)]
    IN  from[NodesOf(g)]

Topology(g) == Layers(g, g.nodes)

Acyclic(g) == Len(Topology(g)) = Len(g.nodes)

\* Data Outputs need a producer, and an unknown source must be used.
OutputsProduced(g) == \A b \in DOMAIN g.outputs : Producers(g, g.outputs[b]) # {}

UnknownIsUsed(g) ==
    \A w \in WiresOf(g) :
        Producers(g, w) # {} /\ Unknown(g, w) =>
            \/ \E n \in NodesOf(g) : BoundTo(g.mods[n].ins, w) # {}
            \/ \E b \in DOMAIN g.outputs : g.outputs[b] = w

Compiles(g) ==
    /\ SingleProducer(g)
    /\ PortsBound(g)
    /\ \A n \in NodesOf(g) : \A p \in DOMAIN g.mods[n].ins : InputAccepts(g, n, p)
    /\ Acyclic(g)
    /\ OutputsProduced(g)
    /\ UnknownIsUsed(g)

RequiredOutputs(g) == {b \in DOMAIN g.outputs : Presence(g, g.outputs[b])}

\* The schemas of the plan's edges that leave a boundary wire: a consumer of
\* an unknown source lends it its own, and an output of one admits nothing.
EdgeSchemas(g, w) ==
    {IF Unknown(g, w) THEN g.mods[x[1]].ins[x[2]].schema ELSE SchemaOf(g, w) :
        x \in UNION {{<<n, p>> : p \in BoundTo(g.mods[n].ins, w)} : n \in NodesOf(g)}}
    \cup {IF Unknown(g, w) THEN {} ELSE SchemaOf(g, w) :
            b \in {b \in DOMAIN g.outputs : g.outputs[b] = w}}

-----------------------------------------------------------------------------
(* verify_compiled_graph_semantics, over the plan's own topology.          *)

\* Every relation of the plan is proved again, in the plan's order.
RelationsHold(g) ==
    /\ SingleProducer(g)
    /\ \A n \in NodesOf(g) : \A p \in DOMAIN g.mods[n].ins :
        LET port == g.mods[n].ins[p]
            w == port.wire
        IN  IF w = Unbound \/ Producers(g, w) = {} THEN ~port.required
            ELSE /\ port.required => Presence(g, w) /\ ~Unknown(g, w)
                 /\ Producer(g, w)[1] # n
                 /\ Unknown(g, w) \/ Compatible(SchemaOf(g, w), port.schema)
    /\ OutputsProduced(g)
    /\ UnknownIsUsed(g)

\* The plan is cut into the layers of the given order.
Verifies(g, order, plan) ==
    LET from[remaining \in SUBSET NodesOf(g)] ==
          LET ready == Ready(g, order, remaining)
              cursor == Len(plan) - Cardinality(remaining)
          IN  \/ remaining = {}
              \/ /\ ready # <<>>
                 /\ SubSeq(plan, cursor + 1, cursor + Len(ready)) = ready
                 /\ from[remaining \ ToSet(ready)]
    IN  IF Len(plan) = Len(order) THEN from[NodesOf(g)] ELSE FALSE

-----------------------------------------------------------------------------
GraphInit ==
    /\ graph \in Graphs
    /\ phase = "draft"
    /\ topology = <<>>
    /\ at = 1
    /\ invokers = [n \in NodesOf(graph) |-> "none"]
    /\ value = [w \in WiresOf(graph) |-> Missing]
    /\ proven = {}
    /\ given = {}
    /\ error = "none"

cycle == <<value, proven, given, error>>

Compile ==
    /\ phase = "draft"
    /\ IF Compiles(graph)
         THEN phase' = "compiled" /\ topology' = Topology(graph)
         ELSE phase' = "rejected" /\ UNCHANGED topology
    /\ UNCHANGED <<graph, at, invokers, cycle>>

\* seal_compiled_graph_authority proves the plan in its own order, and a
\* frozen worker binds it to the Definition's (one step: both only read).
Seal ==
    /\ phase = "compiled"
    /\ phase' = IF /\ RelationsHold(graph)
                   /\ Verifies(graph, topology, topology)
                   /\ Verifies(graph, graph.nodes, topology)
                  THEN "sealed" ELSE "unsealed"
    /\ UNCHANGED <<graph, topology, at, invokers, cycle>>

-----------------------------------------------------------------------------
(* ModuleGraphRuntime.                                                     *)

\* One invoker after the other, then the runtime plan; when one cannot be
\* made, all are closed.
Construct ==
    /\ phase = "sealed"
    /\ \/ /\ at <= Len(topology)
          /\ invokers' = [invokers EXCEPT ![topology[at]] = "running"]
          /\ at' = at + 1 /\ UNCHANGED phase
       \/ at > Len(topology) /\ phase' = "ready" /\ at' = 1 /\ UNCHANGED invokers
       \/ /\ phase' = "closed" /\ at' = 1
          /\ invokers' = [n \in DOMAIN invokers |->
                            IF invokers[n] = "none" THEN "none" ELSE "closed"]
    /\ UNCHANGED <<graph, topology, cycle>>

\* The entry proof: presence of every required path first, then the values
\* of the contracted ones.  Unknown DataKeys are not looked at.
EntryHolds(data) ==
    \A b \in DOMAIN graph.inputs :
        LET c == graph.inputs[b].contract
        IN  c.kind = "unknown"
            \/ IF data[b] = Missing THEN ~c.required ELSE data[b] \in c.schema

\* A cycle begins: boundary values are put on their wires, and those whose
\* contract is declared are proved already.
BeginCycle ==
    /\ phase = "ready"
    /\ \E data \in [DOMAIN graph.inputs -> Values \cup {Missing}] :
        /\ EntryHolds(data)
        /\ value' = [w \in DOMAIN value |->
              IF Producers(graph, w) # {} /\ IsInput(graph, w)
                THEN data[Producer(graph, w)[1]] ELSE Missing]
    /\ proven' = {w \in DOMAIN value :
          /\ Producers(graph, w) # {} /\ IsInput(graph, w)
          /\ Contract(graph, w).kind = "declared"}
    /\ phase' = "running" /\ at' = 1 /\ error' = "none" /\ given' = {}
    /\ UNCHANGED <<graph, topology, invokers>>

Fail(why) ==
    /\ error' = why
    /\ phase' = "ready" /\ at' = 1
    /\ UNCHANGED <<graph, topology, invokers, value, proven, given>>

\* prove_wire over the wires of one invocation: a wire nobody can prove, and
\* a value some edge does not admit.
Unprovable(wires) == \E w \in wires \ proven : EdgeSchemas(graph, w) = {}
Inadmissible(wires) ==
    \E w \in wires \ proven : \E s \in EdgeSchemas(graph, w) : value[w] \notin s

\* What a Module may return: invoke_validated refuses a missing required
\* output and a value outside its port.
Returns(n) ==
    [DOMAIN graph.mods[n].outs -> Values \cup {Missing}]

ReturnHolds(n, outs) ==
    \A p \in DOMAIN outs :
        IF outs[p] = Missing THEN ~graph.mods[n].outs[p].required
        ELSE outs[p] \in graph.mods[n].outs[p].schema

RunNode ==
    /\ phase = "running" /\ at <= Len(topology)
    /\ LET n == topology[at]
           ins == graph.mods[n].ins
           bound == {p \in DOMAIN ins : ins[p].wire # Unbound}
           have == {p \in bound : value[ins[p].wire] # Missing}
           wires == {ins[p].wire : p \in have}
       IN  IF \E p \in bound \ have : ins[p].required THEN Fail("starved")
           ELSE IF Unprovable(wires) THEN Fail("unproven")
           ELSE IF Inadmissible(wires) THEN Fail("source")
           ELSE \/ Fail("module")
                \/ \E outs \in Returns(n) :
                     /\ ReturnHolds(n, outs)
                     /\ given' = {<<n, p, value[ins[p].wire]>> : p \in have}
                     /\ value' = [w \in DOMAIN value |->
                           IF \E p \in BoundTo(graph.mods[n].outs, w) : outs[p] # Missing
                             THEN outs[CHOOSE p \in BoundTo(graph.mods[n].outs, w) : TRUE]
                             ELSE value[w]]
                     /\ proven' = proven \cup wires
                          \cup ({graph.mods[n].outs[p].wire :
                                   p \in {p \in DOMAIN outs : outs[p] # Missing}} \ {Unbound})
                     /\ at' = at + 1
                     /\ UNCHANGED <<graph, topology, phase, invokers, error>>

\* The output boundaries, in the plan's order.
Export ==
    /\ phase = "running" /\ at > Len(topology)
    /\ LET wires == {graph.outputs[b] : b \in DOMAIN graph.outputs}
           have == {w \in wires : value[w] # Missing}
       IN  IF \E b \in RequiredOutputs(graph) : value[graph.outputs[b]] = Missing
             THEN Fail("starved")
           ELSE IF Unprovable(have) THEN Fail("unproven")
           ELSE IF Inadmissible(have) THEN Fail("source")
           ELSE /\ phase' = "ready" /\ at' = 1
                /\ proven' = proven \cup have
                /\ UNCHANGED <<graph, topology, invokers, value, given, error>>

\* finalize and close visit every invoker in reverse order; an error of one
\* does not spare the others, and each is finalized or closed all the same.
FinalizeGraph ==
    /\ phase = "ready"
    /\ phase' = "finalized"
    /\ invokers' = [n \in DOMAIN invokers |-> "finalized"]
    /\ UNCHANGED <<graph, topology, at, cycle>>

CloseGraph ==
    /\ phase \in {"ready", "finalized"}
    /\ phase' = "closed"
    /\ invokers' = [n \in DOMAIN invokers |-> "closed"]
    /\ UNCHANGED <<graph, topology, at, cycle>>

GraphNext == Compile \/ Seal \/ Construct \/ BeginCycle \/ RunNode \/ Export
        \/ FinalizeGraph \/ CloseGraph

GraphSpec == GraphInit /\ [][GraphNext]_graphVars

-----------------------------------------------------------------------------
(* Properties.                                                             *)

GraphTypeOK ==
    /\ phase \in {"draft", "compiled", "rejected", "sealed", "unsealed",
                  "ready", "running", "finalized", "closed"}
    /\ at \in 1..(Len(graph.nodes) + 1)
    /\ invokers \in [NodesOf(graph) -> {"none", "running", "finalized", "closed"}]
    /\ value \in [WiresOf(graph) -> Values \cup {Missing}]
    /\ proven \subseteq WiresOf(graph)
    /\ error \in {"none", "starved", "unproven", "source", "module"}

\* What compiled never stops for want of a value: whatever optional values
\* samples and Modules leave out, no Module and no Data Output of an accepted
\* Graph finds a required wire empty or a value that nothing can prove.
CompiledNeverStarves == error \notin {"starved", "unproven"}

\* A Module is only ever given values its port admits, although inputs are
\* not validated where they are used: the producer's contract, the compiler's
\* compatibility and the one proof per boundary wire together are enough.
PortsAdmitWhatTheyGet ==
    \A x \in given : x[3] \in graph.mods[x[1]].ins[x[2]].schema

\* Compiling is enough: the semantic proof never refuses what the compiler
\* accepted, neither when the plan is sealed in its own order nor when a
\* frozen worker binds it to the Definition's order.
CompiledIsSealed == phase # "unsealed"

-----------------------------------------------------------------------------
(* The inductive invariant behind the properties.                          *)

\* The nodes that have run in this cycle.
Ran == {topology[i] : i \in 1..(at - 1)}

\* Whatever has come past the compiler has compiled, and keeps its order.
PlanInv ==
    phase \notin {"draft", "rejected"} => Compiles(graph) /\ topology = Topology(graph)

\* Invokers exist for the nodes constructed so far, then for all of them.
InvokersInv ==
    /\ phase \in {"draft", "compiled"} => at = 1
    /\ phase = "sealed" => \A n \in Ran : invokers[n] = "running"
    /\ phase \in {"ready", "running"} => \A n \in NodesOf(graph) : invokers[n] = "running"

\* What the wires of a cycle carry: nothing without a producer; what the
\* entry proof, or the port it left, admits; whatever was guaranteed by a
\* boundary or by a node that has run; and a proved value fits every edge.
WireInv(w) ==
    /\ value[w] # Missing => Producers(graph, w) # {}
    /\ Producers(graph, w) # {} => value[w] = Missing \/ Unknown(graph, w)
                                        \/ value[w] \in SchemaOf(graph, w)
    /\ Producers(graph, w) # {} /\ Presence(graph, w)
          /\ (IsInput(graph, w) \/ Producer(graph, w)[1] \in Ran) => value[w] # Missing
    /\ Producers(graph, w) # {} /\ Unknown(graph, w) /\ w \in proven /\ value[w] # Missing =>
          \A s \in EdgeSchemas(graph, w) : value[w] \in s

CycleInv == phase = "running" => \A w \in WiresOf(graph) : WireInv(w)

GraphIndInv ==
    /\ graph \in Graphs
    /\ GraphTypeOK
    /\ PlanInv
    /\ InvokersInv
    /\ CycleInv
    /\ PortsAdmitWhatTheyGet
    /\ CompiledNeverStarves
    /\ CompiledIsSealed
=============================================================================
