---------------------------- MODULE MCFlowEngine ----------------------------
(* Flows over two or three nodes, and a few larger ones by hand. *)
EXTENDS FlowEngine

Conditions == {<<"default", "">>, <<"verdict", "pass">>, <<"verdict", "fail">>,
              <<"policy", "pass">>}
EdgeSet(N) == {[from |-> a, to |-> b, field |-> c[1], value |-> c[2]] :
                 a \in N, b \in N, c \in Conditions}

\* Every way to draw at most k edges.
RECURSIVE AtMost(_, _)
AtMost(k, S) == IF k = 0 THEN {{}} ELSE AtMost(k - 1, S) \cup
                  {E \cup {e} : E \in AtMost(k - 1, S), e \in S}

Mixed == <<{<<"a">>}, {<<"a", "b">>}, {<<"c">>}, {<<"d">>}, {}>>
Apart == <<{<<"a">>}, {<<"b">>}, {<<"c">>}, {<<"d">>}, {<<"e">>}>>
Over(N, scope) == [n \in N |-> scope[n]]
Constant(N, v) == [n \in N |-> v]

\* Small flows, exhaustively.
SmallFlows ==
  {[cli |-> {}, nodes |-> 1..3, uses |-> u, lane |-> Constant(1..3, ""), max |-> m,
    scope |-> Over(1..3, Mixed), edges |-> E] :
     u \in [1..3 -> {"verify", "review", "apply"}],
     m \in {<<0, 0, 0>>, <<0, 2, 0>>},
     E \in AtMost(2, {e \in EdgeSet(1..3) : e.from # e.to})}

Edge(a, b, f, v) == [from |-> a, to |-> b, field |-> f, value |-> v]
Cover(a, good, bad) ==
  {Edge(a, good, "verdict", "pass"), Edge(a, bad, "verdict", "fail"),
   Edge(a, bad, "verdict", "blocked"), Edge(a, bad, "verdict", "not_run")}

\* verify routes to apply or review; a diamond; a wide wave; lanes; cycles.
BigFlows ==
  {[cli |-> {}, nodes |-> 1..4, uses |-> <<"verify", "apply", "review", "apply">>,
    lane |-> <<"cheap", "", "", "">>, max |-> Constant(1..4, 0),
    scope |-> Over(1..4, s),
    edges |-> Cover(1, 2, 3) \cup {Edge(3, 4, "default", "")}] : s \in {Mixed, Apart}}
  \cup
  {[cli |-> {}, nodes |-> 1..4, uses |-> <<"mission", "workspace", "review", "apply">>,
    lane |-> <<"", "medium", "", "">>, max |-> Constant(1..4, 0),
    scope |-> Over(1..4, s),
    edges |-> {Edge(1, 2, "policy", "pass"), Edge(1, 3, "default", ""),
               Edge(2, 4, "policy", "pass"), Edge(3, 4, "policy", "pass")}] : s \in {Mixed, Apart}}
  \cup
  {[cli |-> {}, nodes |-> 1..k, uses |-> Constant(1..k, "review"), lane |-> Constant(1..k, ""),
    max |-> Constant(1..k, 0), scope |-> Over(1..k, s), edges |-> {}] :
     k \in 1..5, s \in {Mixed, Apart}}
  \cup
  {[cli |-> {}, nodes |-> 1..3, uses |-> <<"verify", "review", "apply">>, lane |-> Constant(1..3, ""),
    max |-> m, scope |-> Over(1..3, Apart),
    edges |-> Cover(1, 3, 2) \cup {Edge(2, 1, "default", "")}] :
     m \in {<<2, 0, 0>>, <<0, 0, 3>>, <<3, 3, 3>>, <<9, 9, 0>>, <<0, 0, 0>>}}
  \cup
  {[cli |-> {}, nodes |-> 1..3, uses |-> <<"apply", "verify", "review">>, lane |-> Constant(1..3, ""),
    max |-> <<m, 2, 0>>, scope |-> Over(1..3, Apart),
    edges |-> Cover(2, 1, 3) \cup {Edge(1, 2, "default", "")}] : m \in {0, 2}}
  \cup
  {[cli |-> {}, nodes |-> {1}, uses |-> <<"review">>, lane |-> <<"">>, max |-> <<k>>,
    scope |-> <<{}>>, edges |-> {Edge(1, 1, "default", "")}] : k \in {-1, 0, 1, 9}}
  \cup
  {[cli |-> {}, nodes |-> 1..2, uses |-> <<"review", "other">>, lane |-> <<"", "">>, max |-> <<0, 0>>,
    scope |-> Over(1..2, Apart), edges |-> {}],
   [cli |-> {}, nodes |-> 1..2, uses |-> <<"review", "apply">>, lane |-> <<"", "none">>, max |-> <<0, 0>>,
    scope |-> Over(1..2, Apart), edges |-> {}],
   [cli |-> {}, nodes |-> 1..2, uses |-> <<"review", "apply">>, lane |-> <<"", "">>, max |-> <<0, 0>>,
    scope |-> Over(1..2, Apart), edges |-> {Edge(1, 3, "default", "")}],
   [cli |-> {}, nodes |-> 1..2, uses |-> <<"verify", "apply">>, lane |-> <<"cheap", "">>, max |-> <<0, 0>>,
    scope |-> Over(1..2, Apart), edges |-> {Edge(1, 2, "default", "")}],
   [cli |-> {}, nodes |-> 1..3, uses |-> <<"verify", "apply", "review">>, lane |-> <<"cheap", "", "">>,
    max |-> Constant(1..3, 0), scope |-> Over(1..3, Apart),
    edges |-> {Edge(1, 2, "policy", "pass"), Edge(1, 3, "default", "")}],
   [cli |-> {2}, nodes |-> 1..2, uses |-> <<"verify", "review">>, lane |-> <<"", "">>, max |-> <<0, 0>>,
    scope |-> Over(1..2, Apart), edges |-> {Edge(1, 2, "default", "")}],
   [cli |-> {}, nodes |-> {}, uses |-> <<>>, lane |-> <<>>, max |-> <<>>, scope |-> <<>>, edges |-> {}]}

MCFlows == SmallFlows \cup BigFlows
MCVerdicts == {"pass", "fail", "blocked", "not_run"}
=============================================================================
