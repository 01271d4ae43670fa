--------------------------- MODULE MCModuleGraph -----------------------------
(***************************************************************************)
(* Instances of ModuleGraph.  ShapeGraphs: three Modules in two editor     *)
(* orders (the others differ by names only) and their wirings of two input *)
(* ports, cycles included.                                                 *)
(* ContractGraphs: two Modules with every combination of required and      *)
(* optional ports, narrow and wide schemas, an unproduced wire, a wire     *)
(* written twice, an output that is not bound, and every contract of the   *)
(* input boundary.  PassGraphs: no Module.                                 *)
(***************************************************************************)
EXTENDS ModuleGraph

In(w, req, s) == [wire |-> w, required |-> req, schema |-> s]
Narrow == {1}
Wide == {1, 2}

Own == [n1 |-> "w1", n2 |-> "w2", n3 |-> "w3"]

ShapeGraphs ==
    {[nodes |-> order,
      inputs |-> [b |-> [wire |-> "w0",
                         contract |-> [kind |-> "declared", schema |-> Narrow,
                                       required |-> TRUE]]],
      outputs |-> [o |-> "w3"],
      mods |-> [n \in {"n1", "n2", "n3"} |->
                  [ins |-> [a |-> In(first[n], TRUE, Narrow),
                            b |-> In(second[n], FALSE, Narrow)],
                   outs |-> [v |-> In(Own[n], TRUE, Narrow)]]]] :
        order \in {<<"n1", "n2", "n3">>, <<"n3", "n1", "n2">>},
        first \in [{"n1", "n2", "n3"} -> {"w0", "w1", "w2", "w3"}],
        second \in [{"n1", "n2", "n3"} -> {Unbound, "w1", "w3"}]}

Contracts ==
    {[kind |-> "unknown", schema |-> {}, required |-> FALSE]}
    \cup [kind : {"declared", "dynamic"}, schema : {Narrow, Wide}, required : BOOLEAN]

ContractGraphs ==
    {[nodes |-> <<"n1", "n2">>,
      inputs |-> [b |-> [wire |-> "w0", contract |-> c]],
      outputs |-> [o |-> ow],
      mods |-> [n1 |-> [ins |-> [a |-> In(w1, r1, s1)],
                        outs |-> [v |-> In("w1", q1, t1)]],
                n2 |-> [ins |-> [a |-> In(w2, r2, s2)],
                        outs |-> [v |-> In(o2, q2, Wide)]]]] :
        c \in Contracts,
        ow \in {"w0", "w2"},
        w1 \in {Unbound, "w0", "w2"}, r1 \in BOOLEAN, s1 \in {Narrow},
        q1 \in BOOLEAN, t1 \in {Narrow, Wide},
        w2 \in {"w0", "w1", "w9"}, r2 \in BOOLEAN, s2 \in {Narrow, Wide},
        o2 \in {"w2", "w1", Unbound}, q2 \in BOOLEAN}

\* No Module at all: the input is wired to the output.
PassGraphs ==
    {[nodes |-> <<>>, inputs |-> [b |-> [wire |-> "w0", contract |-> c]],
      outputs |-> [o |-> "w0"], mods |-> <<>>] : c \in Contracts}

MCGraphs == ShapeGraphs \cup ContractGraphs \cup PassGraphs
=============================================================================
