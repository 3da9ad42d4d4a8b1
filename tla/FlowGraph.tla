------------------------------ MODULE FlowGraph ------------------------------
(***************************************************************************)
(* The pure part of internal/capability/orchestration: the lint of a flow  *)
(* (Validate) and its scheduling into waves (ScheduleWaves), with the path *)
(* verdict of internal/scope.                                              *)
(*                                                                         *)
(* A flow is a record: nodes, a finite set of naturals (node ids, compared *)
(* as the code compares strings), uses, lane, max (max_visits), cli (the   *)
(* nodes whose input names a binary) and scope (allowed_paths, a set of    *)
(* paths; a path is the sequence of its segments, empty for a bare glob),  *)
(* and edges, a set of [from, to, field, value].                           *)
(* Ids are distinct and conditions parse: the rules about malformed text   *)
(* are left out.                                                           *)
(***************************************************************************)
EXTENDS Integers, Sequences, FiniteSets, SequencesExt, FiniteSetsExt

CONSTANTS
  Verdicts,       \* verifyVerdicts, with "pass" and "not_run" among them
  MaxWaveWidth    \* the fan-out cap

\* parseCondition: the conditions of an edge.
Condition(e) ==
  \/ e.field = "default"
  \/ e.field = "verdict" /\ e.value \in Verdicts
  \/ e.field = "policy" /\ e.value \in {"pass", "require_approval", "blocked", "escalate"}

ASSUME FlowAssumption ==
  /\ {"pass", "not_run"} \subseteq Verdicts /\ "" \notin Verdicts
  /\ MaxWaveWidth \in Nat \ {0}

Uses == {"mission", "workspace", "verify", "review", "apply"}
Lanes == {"cheap", "medium", "planner", "premium"}

----------------------------------------------------------------------------
(* Validate *)

Preds(flow, n) == {e.from : e \in {x \in flow.edges : x.to = n}}
Incoming(flow, n) == {e \in flow.edges : e.to = n}
Outgoing(flow, n) == {e \in flow.edges : e.from = n}
Dangling(flow) == {e \in flow.edges : e.from \notin flow.nodes \/ e.to \notin flow.nodes}

\* Kahn's order: while some node has no predecessor left, take the first.
Ready(flow, done) == {n \in flow.nodes \ done : Preds(flow, n) \subseteq done}
TakeNext(flow, taken) ==
  LET ready == Ready(flow, ToSet(taken))
  IN  IF ready = {} THEN taken ELSE Append(taken, Min(ready))
Kahn(flow) ==
  LET prefix[k \in 0..Cardinality(flow.nodes)] ==
        IF k = 0 THEN <<>> ELSE TakeNext(flow, prefix[k - 1])
  IN  prefix
Order(flow) == Kahn(flow)[Cardinality(flow.nodes)]

\* residualCycleNodes: the nodes on a cycle, and everything behind one.
ResidualCycleNodes(flow) == flow.nodes \ ToSet(Order(flow))

\* Mutant: a default edge out of a verify node may lead to apply.
BadEdgeDefaultAllowed(flow, e) ==
  \/ e.field = "verdict" /\ flow.uses[e.from] # "verify"
  \/ e.field = "verdict" /\ e.value = "not_run" /\ flow.uses[e.to] = "apply"

\* verdict_source_not_verify, not_run_apply, default_apply
BadEdge(flow, e) ==
  \/ e.field = "verdict" /\ flow.uses[e.from] # "verify"
  \/ e.field = "verdict" /\ e.value = "not_run" /\ flow.uses[e.to] = "apply"
  \/ e.field = "default" /\ flow.uses[e.from] = "verify" /\ flow.uses[e.to] = "apply"

\* unknown_capability, named_cli, unknown_lane, invalid_max_visits
BadNode(flow, n) ==
  \/ flow.uses[n] \notin Uses
  \/ n \in flow.cli
  \/ flow.lane[n] \notin Lanes \cup {""}
  \/ flow.max[n] < 0

\* orphan_node
Orphan(flow, n) ==
  /\ flow.edges # {} /\ Cardinality(flow.nodes) > 1
  /\ Incoming(flow, n) \cup Outgoing(flow, n) = {}

\* incomplete_verdict_edges
Uncovered(flow, n) ==
  /\ flow.uses[n] = "verify" /\ Outgoing(flow, n) # {}
  /\ \A e \in Outgoing(flow, n) : e.field # "default"
  /\ Verdicts \ {e.value : e \in {x \in Outgoing(flow, n) : x.field = "verdict"}} # {}

\* unbounded_cycle: one bounded node anywhere in the residue is enough.
UnboundedCycle(flow) ==
  /\ ResidualCycleNodes(flow) # {}
  /\ \A n \in ResidualCycleNodes(flow) : flow.max[n] <= 0

Blocked(flow) ==
  \/ flow.nodes = {}
  \/ Dangling(flow) # {}
  \/ \E n \in flow.nodes : BadNode(flow, n) \/ Orphan(flow, n) \/ Uncovered(flow, n)
  \/ \E e \in flow.edges : BadEdge(flow, e)
  \/ UnboundedCycle(flow)

----------------------------------------------------------------------------
(* ScheduleWaves *)

\* scope.ListsConflict: an empty list or an unknown path conflicts with
\* everything; equal paths and directory prefixes conflict.
ListsConflict(left, right) ==
  \/ left = {} \/ right = {} \/ <<>> \in left \cup right
  \/ \E l \in left, r \in right : IsPrefix(l, r) \/ IsPrefix(r, l)

\* The first wave behind every predecessor without a conflicting node.
Least(flow, placed, n) == Max({0} \cup {placed[m] + 1 : m \in Preds(flow, n)})
Clear(flow, placed, n, w) ==
  \A m \in DOMAIN placed : placed[m] = w => ~ListsConflict(flow.scope[n], flow.scope[m])
\* Mutant: the scopes of the nodes in the wave are not compared.
PlaceAnywhere(flow, placed, n) == Least(flow, placed, n)

Place(flow, placed, n) ==
  LET least == Least(flow, placed, n)
  IN  Min({w \in least..least + Cardinality(flow.nodes) : Clear(flow, placed, n, w)})

\* The wave of every node of an acyclic flow, the first wave being 0: the nodes
\* are placed one by one in Kahn's order.
PlaceNext(flow, placed, n) ==
  [m \in {n} \cup DOMAIN placed |-> IF m = n THEN Place(flow, placed, n) ELSE placed[m]]
Placements(flow) ==
  LET order == Order(flow)
      upto[k \in 0..Len(order)] ==
        IF k = 0 THEN <<>> ELSE PlaceNext(flow, upto[k - 1], order[k])
  IN  upto
WaveOf(flow) == Placements(flow)[Len(Order(flow))]

ScheduleWaves(flow) ==
  LET waveOf == WaveOf(flow)
  IN  [w \in 1..Max({0} \cup {waveOf[n] + 1 : n \in flow.nodes}) |->
         {n \in flow.nodes : waveOf[n] = w - 1}]

IsCyclic(flow) == Len(Order(flow)) # Cardinality(flow.nodes)

\* fanOutFinding
FanOut(waves) == \E w \in 1..Len(waves) : Cardinality(waves[w]) > MaxWaveWidth

----------------------------------------------------------------------------
(* What a flow means *)

\* What can be reached from a over one to k + 1 edges.
Onward(flow, S) == S \cup {e.to : e \in {x \in flow.edges : x.from \in S}}
Behind(flow, a) ==
  LET reach[k \in 0..Cardinality(flow.nodes)] ==
        IF k = 0 THEN {e.to : e \in Outgoing(flow, a)} ELSE Onward(flow, reach[k - 1])
  IN  reach

\* There is a path of one or more edges from a to b.
Reaches(flow, a, b) == b \in Behind(flow, a)[Cardinality(flow.nodes)]

=============================================================================
