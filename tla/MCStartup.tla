------------------------------ MODULE MCStartup ------------------------------
(* Pipelines for TLC: graphs of up to three transforms, single windows with *)
(* every mix of attributes, single maps with every short expression, and    *)
(* two wasm nodes in a row.                                                 *)
EXTENDS Startup, TLC

Blanks == [inputs |-> <<"s">>, groupBy |-> <<>>, size |-> None, slide |-> None,
           lateness |-> None, idle |-> None, maxGroups |-> None, value |-> None]

Node(id, kind, fields) == [id |-> id, kind |-> kind] @@ fields @@ Blanks

Of(transforms, inputs) ==
  [sources |-> <<[id |-> "s", kind |-> "generator", interval |-> "1s"],
                 [id |-> "r", kind |-> "stdin", interval |-> None]>>,
   transforms |-> transforms,
   sinks |-> [i \in DOMAIN inputs |-> [id |-> <<"k", "l">>[i], kind |-> "stdout", input |-> inputs[i]]]]

Window(id, input, groupBy, size) ==
  Node(id, "window", [inputs |-> <<input>>, groupBy |-> groupBy, size |-> size])

(* Two nodes and perhaps a join of them, in any wiring. *)
Graphs2 ==
  LET firsts == {Node("a", "filter", [inputs |-> <<x>>]) : x \in {"s", "b", "j"}}
                  \cup {Window("a", x, <<"g">>, "60s") : x \in {"s", "a", "b", "j"}}
      seconds == {Window("b", x, g, z) : x \in {"r", "a", "j"}, g \in {<<"g">>, <<"h">>},
                                         z \in {"60s", "1m"}}
      joins == {<<>>} \cup {<<Node("j", "join", [inputs |-> <<x, y>>, value |-> v, maxGroups |-> m])>> :
                  x \in {"a", "b"}, y \in {"a", "b", "s"}, v \in {None, <<"x">>}, m \in {None, 0}}
  IN  {Of(<<f, s>> \o j, <<o>>) : f \in firsts, s \in seconds, j \in joins, o \in {"a", "b", "j", "r", "nope"}}

(* Ids that collide, intervals that do not parse, two sinks on one output. *)
Oddities ==
  {[sources |-> <<[id |-> "s", kind |-> k, interval |-> i]>>,
    transforms |-> <<Node(id, "filter", [inputs |-> <<"s">>])>>,
    sinks |-> [n \in DOMAIN o |-> [id |-> <<"k", "l">>[n], kind |-> "otlp", input |-> o[n]]]] :
     k \in {"generator", "otlp"}, i \in {"1s", "soon"}, id \in {"s", "a", "k"},
     o \in {<<>>, <<"a">>, <<"s">>, <<"a", "a">>}}

Attributes ==
  {Of(<<Node("w", "window", [size |-> z, slide |-> l, lateness |-> g, idle |-> d, maxGroups |-> m])>>, <<"w">>) :
     z \in {"0s", "60s", "soon"}, l \in {None, "0s", "1s", "1m", "90s", "soon"},
     g \in {None, "1s", "soon"}, d \in {None, "soon"}, m \in {None, 0, 1}}

Texts ==
  UNION {[1 .. n -> {"x", "y", "-", "*", "^", "(", ")"}] : n \in 0 .. 4}
    \cup [1 .. 5 -> {"x", "+", "-", "*", "^"}]
    \cup UNION {[1 .. n -> {"y", "-", "^"}] : n \in 6 .. 7}
    \cup [1 .. 6 -> {"x", "/", "(", ")"}]
    \cup {<<"value", " ", "%", "1">>, <<"value", "$", "1">>, <<"1", " ", "1">>}

MCWasmPipelines ==
  {Of(<<Node("m1", "wasm", <<>>), Node("m2", "wasm", [inputs |-> <<"m1">>])>>, <<"m2">>)}

MCPipelines ==
  Graphs2 \cup Oddities \cup Attributes
    \cup {Of(<<Node("m", "map", [value |-> e])>>, <<"m">>) : e \in Texts}
    \cup MCWasmPipelines

MCSeconds == [d \in {"0s", "1s", "60s", "1m", "90s"} |->
                CASE d = "0s" -> 0 [] d = "1s" -> 1 [] d = "90s" -> 90 [] OTHER -> 60]

MCWasmNodes == {"m1", "m2"}

MCOnError == [n \in MCWasmNodes |-> IF n = "m1" THEN "skip" ELSE "error"]

MCFields == {"x", "y"}

=============================================================================
