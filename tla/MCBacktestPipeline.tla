------------------------- MODULE MCBacktestPipeline -------------------------
(* Two roots with two fields each, and the resources put together below.   *)
EXTENDS BacktestPipeline

a == <<1>>
ax == <<1, 1>>
ay == <<1, 2>>
b == <<2>>
MCDataKeys == <<a, ax, ay, b, <<2, 1>>, <<2, 2>>>>
Number == Scalar({"int"})
Text == Scalar({"str"})
Either == Scalar({"int", "str"})
\* An object with a required x and an optional y.
Obj == {[props |-> [f \in {1, 2} |-> {"int"}], req |-> {1}]}

R(from, key, schema, required) == [from |-> from, key |-> key, schema |-> schema, required |-> required]
W(key, schema, required) == [key |-> key, schema |-> schema, required |-> required]
P(from, key, to) == [from |-> from, key |-> key, to |-> to]
G(reads, passes, writes) == [reads |-> reads, passes |-> passes, writes |-> writes]
M(reads, writes) == [reads |-> reads, writes |-> writes]

Sampler(schema) == [ok |-> TRUE, schema |-> [r \in Roots |-> IF r = 1 THEN schema ELSE {}], req |-> {1}]

Environments ==
    { G({}, {P("sample", a, a)}, {W(b, Number, FALSE)}),
      G({}, {P("last", ay, ay)}, {W(ax, Number, TRUE)}),
      G({R("sample", a, Obj, TRUE)}, {P("last", b, b)}, {W(a, Obj, FALSE)}),
      G({R("last", b, Either, FALSE)}, {P("last", a, a)}, {W(ay, Number, FALSE)}),
      G({R("last", ax, Number, FALSE)}, {}, {W(ax, Number, FALSE), W(ay, Number, FALSE), W(b, Number, TRUE)}) }

Projections ==
    { <<{a}, {}>>, <<{a, b}, {ay}>>, <<{ax, ay}, {}>>, <<{ay, b}, {}>> }

Pres == { <<>>,
          <<M({}, {W(ay, Text, FALSE)})>>,
          <<M({R("data", ax, Number, TRUE)}, {W(b, Number, FALSE), W(ay, Number, TRUE)})>> }

Signals == { G({}, {}, {}),
             G({}, {P("data", ay, b)}, {W(ax, Number, FALSE)}),
             G({R("data", a, Obj, FALSE)}, {}, {W(a, Obj, FALSE)}) }

Posts == { <<>>,
           <<M({R("data", b, Number, FALSE)}, {W(ax, Text, FALSE)})>> }

Analyses == { G({R("currentPipeline", ax, Either, TRUE)}, {}, {W(ay, Text, TRUE)}),
              G({R("last", b, Either, FALSE)}, {P("currentPipeline", a, a), P("last", ay, b)}, {W(ax, Text, FALSE)}) }

MCDesigns ==
    {[sampler |-> Sampler(s), environment |-> e, whitelist |-> p[1], blacklist |-> p[2],
      pre |-> m, signal |-> g, post |-> q, analysis |-> n] :
        s \in {Number, Obj}, e \in Environments, p \in Projections, m \in Pres, g \in Signals,
        q \in Posts, n \in Analyses}

\* Read a field while another Module replaces its root; write what is read.
MCTemporaries ==
    { <<>>, <<M({}, {W(b, Number, TRUE)}), M({}, {W(b, Text, FALSE)})>>,
      <<M({}, {W(a, Text, TRUE)}), M({R("data", ax, Either, FALSE)}, {W(b, Number, FALSE)})>>,
      <<M({R("data", b, Number, TRUE)}, {W(ay, Number, FALSE)}), M({R("data", ax, Either, TRUE)}, {W(b, Number, TRUE)})>>,
      <<M({R("data", ax, Either, FALSE)}, {W(b, Number, TRUE)}), M({R("data", b, Number, FALSE)}, {W(ax, Number, TRUE)})>> }

\* Environments that pass two previous values on, one of them optional.
MCOptionalLast ==
    {[sampler |-> Sampler(Number), environment |-> G({}, {P("last", a, a), P("last", b, b)}, {W(a, Number, TRUE)}),
      whitelist |-> {a}, blacklist |-> {}, pre |-> <<>>,
      signal |-> G({}, {}, {W(b, Number, required)}), post |-> <<>>, analysis |-> G({}, {}, {})] :
        required \in BOOLEAN}
=============================================================================
