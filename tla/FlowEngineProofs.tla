-------------------------- MODULE FlowEngineProofs --------------------------
(***************************************************************************)
(* Four results about every flow, whatever its graph.                      *)
(*                                                                         *)
(* A node of a walk is visited at most max_visits times, and no apply node *)
(* starts after a verification that ran and did not pass.  Both rest on    *)
(* SoundInv: a result is one its node can return, a visited node has one,  *)
(* and while the engine is running none of the results it has taken stops  *)
(* the flow.                                                               *)
(*                                                                         *)
(* The nodes in flight together are independent, and the trace accounts    *)
(* for all of them.  Both rest on EngineInv, which follows the engine from *)
(* wave to wave, and on what ScheduleWaves computes for every acyclic flow *)
(* (GoodWaves): Kahn's order puts a node behind its predecessors, and each *)
(* node is placed in a later wave than theirs, clear of conflicts.  The    *)
(* functions of the schedule are recursive; what holds of each value is    *)
(* shown by the least index where it would fail.                           *)
(***************************************************************************)
EXTENDS FlowEngine, FiniteSetTheorems, SequenceTheorems, TLAPS

\* What the goroutine of a node, or its visit, can leave behind.
Possible(n) == Executed(n) \cup {Refused}

ResultsTyped ==
  /\ flow.max \in [flow.nodes -> Int]
  /\ results \in [flow.nodes -> Results \cup {NoResult}]
  /\ outcome \in [flow.nodes -> Results \cup {NoResult, Error}]
  /\ visits \in [flow.nodes -> Nat]
  /\ \A n \in flow.nodes : results[n] \in Possible(n) \cup {NoResult}
  /\ \A n \in flow.nodes : outcome[n] \in Possible(n) \cup {NoResult, Error}

VisitedHasResult == \A n \in flow.nodes : visits[n] > 0 => results[n] # NoResult

NothingStopped ==
  status \notin Final =>
    \A n \in flow.nodes : results[n] # NoResult => ~PolicyStops(results[n])

SoundInv == ResultsTyped /\ VisitedHasResult /\ NothingStopped /\ VisitsAreBounded

----------------------------------------------------------------------------
\* Whatever a node returns is a result, never one of the absent values
\* (tool.go, executeNode).
LEMMA PossibleIsResult ==
  \A n : Possible(n) \subseteq Results /\ NoResult \notin Possible(n) /\ Error \notin Possible(n)
<1> SUFFICES ASSUME NEW n PROVE Possible(n) \subseteq Results
  BY EngineAssumption
<1>1. Refused \in Results
  BY DEF Refused, Policy, Results
<1> QED BY <1>1 DEF Possible, Executed

\* A verification that does not stop the flow has passed, or was refused its
\* lane and has no verdict (tool.go, policyForVerify).
LEMMA VerdictStops ==
  ASSUME NEW v, flow.uses[v] = "verify", NEW r \in Possible(v), ~PolicyStops(r)
  PROVE  r = Refused \/ r.verdict = "pass"
<1>2. CASE r \in Executed(v)
  BY <1>2 DEF Executed, PolicyForVerify, PolicyStops
<1> QED BY <1>2 DEF Possible

\* maxVisits is at least one.
LEMMA MaxVisitsPositive ==
  ASSUME ResultsTyped, NEW n \in flow.nodes
  PROVE  MaxVisits(n) \in Nat /\ MaxVisits(n) >= 1
BY DEF ResultsTyped, MaxVisits

\* The node the walker selects has a visit left; the node it seeds a cycle
\* with has had none, since no node has a result (engine.go, executeBoundedCycle).
LEMMA SelectedHasVisitsLeft ==
  ASSUME SoundInv, NEW n \in Selected
  PROVE  n \in flow.nodes /\ visits[n] < MaxVisits(n)
<1>1. CASE n \in flow.nodes /\ Selectable(n)
  BY <1>1 DEF Selectable
<1>2. CASE n \in flow.nodes /\ \A k \in flow.nodes : results[k] = NoResult
  <2>1. visits[n] = 0
    BY <1>2 DEF SoundInv, ResultsTyped, VisitedHasResult
  <2> QED BY <1>2, <2>1, MaxVisitsPositive DEF SoundInv
<1> QED BY <1>1, <1>2 DEF Selected

----------------------------------------------------------------------------
\* SoundInv holds before the flow is submitted.
LEMMA SoundInit == Init => SoundInv
<1> SUFFICES ASSUME Init PROVE SoundInv
  OBVIOUS
<1>1. ResultsTyped
  BY EngineAssumption DEF Init, ResultsTyped
<1>2. VisitsAreBounded
  BY <1>1, MaxVisitsPositive DEF Init, VisitsAreBounded
<1> QED BY <1>1, <1>2 DEF Init, SoundInv, VisitedHasResult, NothingStopped

\* Every step of the engine keeps SoundInv: an outcome is taken only up to the
\* first one that stops the flow, and a visit is made only while one is left.
LEMMA SoundNext == SoundInv /\ [Next]_vars => SoundInv'
<1> SUFFICES ASSUME SoundInv, [Next]_vars PROVE SoundInv'
  OBVIOUS
<1> USE DEF SoundInv
<1>1. CASE Submit \/ Cancel \/ FinishWaves \/ FinishWalk \/ Blocks
  <2>1. UNCHANGED <<flow, outcome, results, visits>> /\ (status' \notin Final => status \notin Final)
    BY <1>1 DEF Submit, Cancel, FinishWaves, FinishWalk, Blocks, WalkBlocks, NodeBlocks, Final
  <2> QED BY <2>1 DEF ResultsTyped, VisitedHasResult, NothingStopped, VisitsAreBounded,
                      MaxVisits, Possible, Executed
<1>2. CASE StartWave
  <2>1. /\ UNCHANGED <<flow, results, visits>> /\ status \notin Final
        /\ outcome' = [n \in flow.nodes |-> NoResult]
    BY <1>2 DEF StartWave, Final
  <2>2. ResultsTyped'
    BY <2>1 DEF ResultsTyped, Possible, Executed
  <2> QED BY <2>1, <2>2 DEF VisitedHasResult, NothingStopped, VisitsAreBounded, MaxVisits
<1>3. CASE \E n \in flow.nodes : NodeReturns(n)
  <2>1. PICK n \in flow.nodes : NodeReturns(n)
    BY <1>3
  <2>2. UNCHANGED <<flow, status, results, visits>>
    BY <2>1 DEF NodeReturns
  <2>3. PICK r \in Possible(n) \cup {Error} : outcome' = [outcome EXCEPT ![n] = r]
    BY <2>1 DEF NodeReturns, Possible
  <2>4. \A m \in flow.nodes : outcome'[m] \in Possible(m) \cup {NoResult, Error}
    BY <2>3 DEF ResultsTyped
  <2>5. outcome' \in [flow.nodes -> Results \cup {NoResult, Error}]
    BY <2>3, PossibleIsResult DEF ResultsTyped
  <2>6. ResultsTyped'
    BY <2>2, <2>4, <2>5 DEF ResultsTyped, Possible, Executed
  <2> QED BY <2>2, <2>6 DEF VisitedHasResult, NothingStopped, VisitsAreBounded, MaxVisits
<1>4. CASE Collect
  <2> DEFINE active == {n \in flow.nodes : outcome[n] # NoResult}
             stops == {n \in active : outcome[n] = Error \/ PolicyStops(outcome[n])}
  <2>1. /\ UNCHANGED <<flow, outcome>> /\ status = "running"
        /\ status' \notin Final => stops = {}
    BY <1>4 DEF Collect, Final
  <2>2. PICK taken \in SUBSET active :
          /\ \A n \in taken : outcome[n] # Error
          /\ results' = [n \in flow.nodes |-> IF n \in taken THEN outcome[n] ELSE results[n]]
          /\ visits' = [n \in flow.nodes |-> IF n \in taken THEN 1 ELSE visits[n]]
    <3> DEFINE set == {n \in {k \in active : \A m \in stops : k <= m} : outcome[n] # Error}
    <3>1. /\ results' = [n \in flow.nodes |-> IF n \in set THEN outcome[n] ELSE results[n]]
          /\ visits' = [n \in flow.nodes |-> IF n \in set THEN 1 ELSE visits[n]]
      BY <1>4 DEF Collect
    <3>2. set \in SUBSET active /\ \A n \in set : outcome[n] # Error
      OBVIOUS
    <3> HIDE DEF set
    <3> QED BY <3>1, <3>2
  <2>3. \A n \in flow.nodes : results'[n] \in Possible(n) \cup {NoResult}
    BY <2>2 DEF ResultsTyped
  <2>4. ResultsTyped'
    BY <2>1, <2>2, <2>3, PossibleIsResult DEF ResultsTyped, Possible, Executed
  <2>5. VisitedHasResult'
    BY <2>1, <2>2 DEF VisitedHasResult
  <2>6. NothingStopped'
    BY <2>1, <2>2 DEF NothingStopped, Final
  <2>7. VisitsAreBounded'
    BY <2>1, <2>2, MaxVisitsPositive DEF VisitsAreBounded, MaxVisits
  <2> QED BY <2>4, <2>5, <2>6, <2>7
<1>5. CASE WalkStep
  <2>1. UNCHANGED <<flow, outcome>> /\ status = "walking"
    BY <1>5 DEF WalkStep
  <2>2. CASE UNCHANGED <<results, visits>>
    BY <2>1, <2>2 DEF ResultsTyped, VisitedHasResult, NothingStopped, VisitsAreBounded,
                      MaxVisits, Possible, Executed, Final
  <2>3. CASE \E n \in Selected : \E r \in Executed(n) :
               /\ results' = [results EXCEPT ![n] = r]
               /\ visits' = [visits EXCEPT ![n] = @ + 1]
               /\ status' = IF PolicyStops(r) THEN "escalated" ELSE status
    <3>0. PICK n \in Selected : \E r \in Executed(n) :
               /\ results' = [results EXCEPT ![n] = r]
               /\ visits' = [visits EXCEPT ![n] = @ + 1]
               /\ status' = IF PolicyStops(r) THEN "escalated" ELSE status
      BY <2>3
    <3>1. PICK r \in Executed(n) :
               /\ results' = [results EXCEPT ![n] = r]
               /\ visits' = [visits EXCEPT ![n] = @ + 1]
               /\ status' = IF PolicyStops(r) THEN "escalated" ELSE status
      BY <3>0
    <3>2. n \in flow.nodes /\ visits[n] < MaxVisits(n)
      BY SelectedHasVisitsLeft
    <3>3. r \in Possible(n) /\ r \in Results /\ r # NoResult
      BY PossibleIsResult DEF Possible
    <3>4. \A m \in flow.nodes : results'[m] \in Possible(m) \cup {NoResult}
      BY <3>1, <3>2, <3>3 DEF ResultsTyped
    <3>5. ResultsTyped'
      <4>1. results' \in [flow.nodes -> Results \cup {NoResult}]
        BY <3>1, <3>3 DEF ResultsTyped
      <4>2. visits' \in [flow.nodes -> Nat]
        BY <3>1, <3>2 DEF ResultsTyped
      <4> QED BY <2>1, <3>4, <4>1, <4>2 DEF ResultsTyped, Possible, Executed
    <3>6. VisitedHasResult'
      BY <2>1, <3>1, <3>2, <3>3 DEF VisitedHasResult, ResultsTyped
    <3>7. NothingStopped'
      BY <2>1, <3>1, <3>2 DEF NothingStopped, ResultsTyped, Final
    <3>8. VisitsAreBounded'
      BY <2>1, <3>1, <3>2, MaxVisitsPositive DEF VisitsAreBounded, MaxVisits, ResultsTyped
    <3> QED BY <3>5, <3>6, <3>7, <3>8
  <2> QED BY <1>5, <2>2, <2>3 DEF WalkStep
<1>6. CASE UNCHANGED vars
  BY <1>6 DEF vars, ResultsTyped, VisitedHasResult, NothingStopped, VisitsAreBounded,
              MaxVisits, Possible, Executed
<1> QED BY <1>1, <1>2, <1>3, <1>4, <1>5, <1>6 DEF Next, Steps

----------------------------------------------------------------------------
\* No node of a walk runs more often than its max_visits, and no node of a
\* wave twice (engine.go, executeBoundedCycle), in every flow and whatever the
\* nodes return.
THEOREM VisitsBounded == Spec => []VisitsAreBounded
<1>1. SoundInv => VisitsAreBounded
  BY DEF SoundInv
<1> QED BY <1>1, SoundInit, SoundNext, PTL DEF Spec

\* A node starts only while the flow is executed, in a wave whose edges enabled
\* it or as the node that the walk selects.
LEMMA StartsWhen ==
  ASSUME [Next]_vars, NEW n \in flow.nodes, Starts(n)
  PROVE  \/ status = "between" /\ Enabled(n)
         \/ status = "walking" /\ n \in Selected
<1>1. CASE WalkStep /\ n \in Selected
  BY <1>1 DEF WalkStep
<1>2. CASE n \in running' \ running
  <2>1. CASE StartWave
    BY <1>2, <2>1 DEF StartWave
  <2>2. CASE WalkBlocks
    BY <1>2, <2>2 DEF WalkBlocks
  <2>3. CASE \/ Submit \/ Cancel \/ FinishWaves \/ FinishWalk \/ Collect \/ WalkStep
             \/ UNCHANGED vars \/ \E m \in flow.nodes : NodeReturns(m) \/ NodeBlocks(m)
    BY <1>2, <2>3 DEF Submit, Cancel, FinishWaves, FinishWalk, Collect, WalkStep, vars,
                      NodeReturns, NodeBlocks
  <2> QED BY <2>1, <2>2, <2>3 DEF Next, Steps, Blocks
<1> QED BY <1>1, <1>2 DEF Starts

\* No apply node starts once a verification that ran has reported anything but
\* pass, whatever edges the flow has (engine.go, policyStops; tool.go,
\* policyForVerify); one that was refused its lane has reported nothing.
THEOREM ApplySafe == Spec => NoApplyAfterBadVerdict
<1>1. ASSUME SoundInv, [Next]_vars,
             NEW n \in flow.nodes, NEW v \in flow.nodes,
             flow.uses[n] = "apply", Starts(n), flow.uses[v] = "verify"
      PROVE  results[v] \in {NoResult, Refused} \/ results[v].verdict = "pass"
  <2>1. status \notin Final
    BY <1>1, StartsWhen DEF Final
  <2>2. CASE results[v] # NoResult
    <3>1. results[v] \in Possible(v) /\ ~PolicyStops(results[v])
      BY <1>1, <2>1, <2>2 DEF SoundInv, ResultsTyped, NothingStopped
    <3> QED BY <1>1, <3>1, VerdictStops
  <2> QED BY <2>2
<1>2. SoundInv /\ [Next]_vars =>
        [\A n, v \in flow.nodes :
           flow.uses[n] = "apply" /\ Starts(n) /\ flow.uses[v] = "verify" =>
             results[v] \in {NoResult, Refused} \/ results[v].verdict = "pass"]_vars
  BY <1>1
<1> QED BY <1>2, SoundInit, SoundNext, PTL DEF Spec, NoApplyAfterBadVerdict

----------------------------------------------------------------------------
\* A flow that is executed passed the lint, and its conditions parse.
Linted ==
  /\ \A e \in flow.edges : Condition(e)
  /\ status \notin Final \cup {"submitted"} => ~Blocked(flow)

\* Execute validates before it schedules (engine.go, Execute).
LEMMA LintedHolds == Spec => []Linted
<1>1. Init => Linted
  BY EngineAssumption DEF Init, Linted
<1>2. Linted /\ [Next]_vars => Linted'
  <2> SUFFICES ASSUME Linted, [Next]_vars PROVE Linted'
    OBVIOUS
  <2>1. flow' = flow
    BY DEF Next, Steps, Blocks, vars, Submit, Cancel, StartWave, FinishWaves, NodeReturns, Collect,
           WalkStep, FinishWalk, NodeBlocks, WalkBlocks
  <2>2. status' \notin Final \cup {"submitted"} => ~Blocked(flow)
    <3>1. CASE Submit
      BY <3>1 DEF Submit, Final
    <3>2. CASE Steps \/ Blocks \/ Cancel \/ UNCHANGED vars
      <4>1. status' \notin Final \cup {"submitted"} => status \notin Final \cup {"submitted"}
        BY <3>2 DEF Steps, Blocks, vars, Cancel, StartWave, FinishWaves, NodeReturns, Collect,
                    WalkStep, FinishWalk, NodeBlocks, WalkBlocks, Final
      <4> QED BY <4>1 DEF Linted
    <3> QED BY <3>1, <3>2 DEF Next
  <2>3. Blocked(flow)' = Blocked(flow)
    BY <2>1
  <2> QED BY <2>1, <2>2, <2>3 DEF Linted, Condition
<1> QED BY <1>1, <1>2, PTL DEF Spec

\* The node a walk selects is enabled, or begins a walk in which nothing has run.
LEMMA SelectedWhen ==
  ASSUME NEW n \in Selected
  PROVE  Enabled(n) \/ \A m \in flow.nodes : n <= m /\ results[m] = NoResult
<1>1. CASE {m \in flow.nodes : Selectable(m)} # {}
  BY <1>1 DEF Selected, Selectable
<1>2. CASE {m \in flow.nodes : Selectable(m)} = {}
  BY <1>2 DEF Selected
<1> QED BY <1>1, <1>2

\* An apply node whose predecessors are all verifications starts only behind a
\* pass, in a wave and in a walk, unless it begins a walk in which nothing has
\* run: the lint leaves no other edge that could match (graph.go, Validate;
\* engine.go, edgeDecision).
THEOREM ApplyBehindPass == Spec => ApplyNeedsPass
<1>1. ASSUME SoundInv, Linted, [Next]_vars, NEW n \in flow.nodes,
             flow.uses[n] = "apply", Starts(n), Incoming(flow, n) # {},
             \A v \in Preds(flow, n) : flow.uses[v] = "verify",
             ~(status = "walking" /\ \A m \in flow.nodes : n <= m /\ results[m] = NoResult)
      PROVE  \E v \in Preds(flow, n) :
               results[v] # NoResult /\ results[v].verdict = "pass" /\ results[v].policy = "pass"
  <2>1. Enabled(n) /\ status \in {"between", "walking"}
    BY <1>1, StartsWhen, SelectedWhen
  <2>2. PICK e \in Incoming(flow, n) : Matches(e)
    BY <1>1, <2>1 DEF Enabled
  <2>3. e \in flow.edges /\ e.to = n /\ e.from \in Preds(flow, n)
    BY <2>2 DEF Incoming, Preds
  <2>4. ~Blocked(flow)
    BY <1>1, <2>1 DEF Linted, Final
  <2>5. e.from \in flow.nodes /\ ~BadEdge(flow, e)
    BY <2>3, <2>4 DEF Blocked, Dangling
  <2>6. e.field # "default" /\ Condition(e)
    BY <1>1, <2>3, <2>5 DEF BadEdge, Linted
  <2> DEFINE r == results[e.from]
  <2>7. r # NoResult /\ r \in Possible(e.from) /\ ~PolicyStops(r)
    BY <1>1, <2>1, <2>2, <2>5 DEF Matches, SoundInv, ResultsTyped, NothingStopped, Final
  <2>8. r # Refused
    <3>1. Refused.verdict = "" /\ Refused.policy = ""
      BY DEF Refused, Policy
    <3>2. r.verdict \in Verdicts \/ r.policy \in {"pass", "require_approval", "blocked", "escalate"}
      BY <2>2, <2>6 DEF Matches, Condition
    <3> QED BY <3>1, <3>2, FlowAssumption
  <2>9. r.verdict # "" /\ r.policy = PolicyForVerify(r.verdict)
    BY <1>1, <2>3, <2>7, <2>8 DEF Possible, Executed
  <2>10. r.verdict = "pass" /\ r.policy = "pass"
    BY <1>1, <2>3, <2>7, <2>8, <2>9, VerdictStops DEF PolicyForVerify
  <2> QED BY <2>3, <2>7, <2>10
<1>2. SoundInv /\ Linted /\ [Next]_vars =>
        [\A n \in flow.nodes :
           /\ flow.uses[n] = "apply" /\ Starts(n) /\ Incoming(flow, n) # {}
           /\ \A v \in Preds(flow, n) : flow.uses[v] = "verify"
           => \/ \E v \in Preds(flow, n) :
                   results[v] # NoResult /\ results[v].verdict = "pass" /\ results[v].policy = "pass"
              \/ status = "walking" /\ \A m \in flow.nodes : n <= m /\ results[m] = NoResult]_vars
  BY <1>1
<1>3. Spec => []SoundInv
  BY SoundInit, SoundNext, PTL DEF Spec
<1> QED BY <1>2, <1>3, LintedHolds, PTL DEF Spec, ApplyNeedsPass

----------------------------------------------------------------------------
(* Numbers, and the recursive functions of the schedule *)

\* Every set of numbers has a least one.
LEMMA LeastOf == ASSUME NEW S \in SUBSET Nat, S # {} PROVE \E m \in S : \A n \in S : m <= n
<1> DEFINE R == {ss \in Nat \X Nat : ss[1] < ss[2]}
<1>1. IsWellFoundedOn(R, Nat)
  BY NatLessThanWellFounded DEF OpToRel
<1>2. \A x, y \in Nat : x < y => <<x, y>> \in R
  OBVIOUS
<1> HIDE DEF R
<1>3. PICK m \in S : \A n \in S : <<n, m>> \notin R
  BY <1>1, WFMin
<1>4. ASSUME NEW n \in S PROVE m <= n
  <2>1. n \in Nat /\ m \in Nat
    OBVIOUS
  <2>2. ~(n < m)
    BY <1>2, <1>3, <2>1, Zenon
  <2> QED  BY <2>1, <2>2
<1> QED
  BY <1>4

\* The recursion of Kahn's order has a solution, which Kahn is: a least length
\* without one would follow a length with one.
LEMMA KahnDef ==
  ASSUME NEW f, Cardinality(f.nodes) \in Nat
  PROVE  Kahn(f) = [k \in 0..Cardinality(f.nodes) |->
                      IF k = 0 THEN <<>> ELSE TakeNext(f, Kahn(f)[k - 1])]
<1> DEFINE Is(m, g) == g = [k \in 0..m |-> IF k = 0 THEN <<>> ELSE TakeNext(f, g[k - 1])]
           Bad == {m \in Nat : \A g : ~Is(m, g)}
<1>1. ASSUME Bad # {} PROVE FALSE
  <2>1. PICK m \in Bad : \A n \in Bad : m <= n
    BY <1>1, LeastOf
  <2>2. Is(0, [k \in 0..0 |-> <<>>])
    <3>1. \A k \in 0..0 : k = 0
      OBVIOUS
    <3> QED
      BY <3>1, Zenon
  <2> HIDE DEF Is
  <2>3. m \in Nat /\ m # 0 /\ m - 1 \in Nat /\ m - 1 \notin Bad
    <3>1. m # 0
      BY <2>1, <2>2
    <3> QED
      BY <2>1, <3>1
  <2>4. PICK g : Is(m - 1, g)
    BY <2>3
  <2> USE DEF Is
  <2> DEFINE h == [k \in 0..m |-> IF k = m THEN TakeNext(f, g[m - 1]) ELSE g[k]]
  <2>5. Is(m, h)
    <3>1. ASSUME NEW k \in 0..m PROVE h[k] = IF k = 0 THEN <<>> ELSE TakeNext(f, h[k - 1])
      <4>1. CASE k = m
        BY <2>3, <4>1
      <4>2. CASE k # m
        <5>1. k \in 0..(m - 1) /\ h[k] = g[k]
          BY <2>3, <4>2
        <5>2. k # 0 => k - 1 \in 0..m /\ h[k - 1] = g[k - 1]
          BY <2>3, <4>2
        <5> QED
          BY <2>4, <5>1, <5>2
      <4> QED
        BY <4>1, <4>2
    <3> QED
      BY <3>1
  <2> QED
    BY <2>1, <2>5
<1>2. \E g : Is(Cardinality(f.nodes), g)
  BY <1>1
<1>3. Kahn(f) = CHOOSE g : Is(Cardinality(f.nodes), g)
  BY DEF Kahn
<1> HIDE DEF Is
<1>4. Is(Cardinality(f.nodes), Kahn(f))
  BY <1>2, <1>3
<1> QED
  BY <1>4 DEF Is

\* The least element that CHOOSE takes is one.
LEMMA MinOf ==
  ASSUME NEW S \in SUBSET Nat, S # {}
  PROVE  Min(S) \in S /\ \A y \in S : Min(S) <= y
<1>1. \E x \in S : \A y \in S : x <= y
  BY LeastOf
<1> QED
  BY <1>1 DEF Min

\* A set of numbers with a bound has a greatest.
LEMMA MaxOf ==
  ASSUME NEW S \in SUBSET Nat, S # {}, NEW b \in Nat, \A x \in S : x <= b
  PROVE  Max(S) \in S /\ \A y \in S : Max(S) >= y
<1> DEFINE B == {c \in Nat : \A x \in S : x <= c}
<1>1. PICK m \in B : \A c \in B : m <= c
  BY LeastOf
<1>2. m \in Nat /\ \A x \in S : x \in Nat /\ x <= m
  BY <1>1
<1>3. m \in S
  <2>1. SUFFICES ASSUME m \notin S PROVE FALSE
    OBVIOUS
  <2>2. \A x \in S : x < m
    BY <1>2, <2>1
  <2>3. m > 0
    <3>1. PICK x \in S : TRUE
      OBVIOUS
    <3> QED
      BY <1>2, <2>2, <3>1
  <2>4. m - 1 \in B
    BY <1>2, <2>2, <2>3
  <2> QED
    BY <1>1, <1>2, <2>4
<1>4. \E x \in S : \A y \in S : x >= y
  BY <1>2, <1>3
<1> QED
  BY <1>4 DEF Max

----------------------------------------------------------------------------
(* Kahn's order *)

\* Nodes in an order: none twice, and each behind its predecessors.
Ordered(f, s) ==
  /\ s \in Seq(f.nodes)
  /\ \A i, j \in 1..Len(s) : i # j => s[i] # s[j]
  /\ \A i \in 1..Len(s) : \A m \in Preds(f, s[i]) : \E j \in 1..(i - 1) : s[j] = m

\* One round of the loop takes a node behind those it needs.
LEMMA TakeNextKeeps ==
  ASSUME NEW f, f.nodes \in SUBSET Nat, NEW s, Ordered(f, s)
  PROVE  Ordered(f, TakeNext(f, s))
<1> DEFINE ready == Ready(f, ToSet(s))
           x == Min(ready)
           t == Append(s, x)
<1>1. CASE ready = {}
  BY <1>1 DEF TakeNext
<1>2. CASE ready # {}
  <2>1. x \in f.nodes /\ x \notin ToSet(s) /\ Preds(f, x) \subseteq ToSet(s)
    <3>1. ready \in SUBSET Nat
      BY DEF Ready
    <3>2. x \in ready
      BY <1>2, <3>1, MinOf
    <3> QED
      BY <3>2 DEF Ready
  <2> HIDE DEF x
  <2>2. s \in Seq(f.nodes) /\ Len(s) \in Nat /\ DOMAIN s = 1..Len(s)
    BY DEF Ordered
  <2>3. /\ t \in Seq(f.nodes) /\ Len(t) = Len(s) + 1
        /\ t[Len(s) + 1] = x /\ \A i \in 1..Len(s) : t[i] = s[i]
    BY <2>1, <2>2
  <2>4. \A m : m \in ToSet(s) <=> \E j \in 1..Len(s) : s[j] = m
    BY <2>2 DEF ToSet
  <2> HIDE DEF t
  <2>5. ASSUME NEW i \in 1..Len(t), NEW j \in 1..Len(t), i # j PROVE t[i] # t[j]
    <3>1. CASE i = Len(s) + 1
      BY <2>1, <2>2, <2>3, <2>4, <2>5, <3>1
    <3>2. CASE j = Len(s) + 1
      BY <2>1, <2>2, <2>3, <2>4, <2>5, <3>2
    <3>3. CASE i \in 1..Len(s) /\ j \in 1..Len(s)
      BY <2>3, <2>5, <3>3 DEF Ordered
    <3> QED
      BY <2>2, <2>3, <3>1, <3>2, <3>3
  <2>6. ASSUME NEW i \in 1..Len(t), NEW m \in Preds(f, t[i]) PROVE \E j \in 1..(i - 1) : t[j] = m
    <3>1. CASE i = Len(s) + 1
      <4>1. PICK j \in 1..Len(s) : s[j] = m
        BY <2>1, <2>3, <2>4, <2>6, <3>1
      <4> QED
        BY <2>2, <2>3, <3>1, <4>1
    <3>2. CASE i \in 1..Len(s)
      <4>1. PICK j \in 1..(i - 1) : s[j] = m
        BY <2>3, <2>6, <3>2 DEF Ordered
      <4>2. j \in 1..Len(s)
        BY <2>2, <3>2, <4>1
      <4> QED
        BY <2>3, <4>1, <4>2
    <3> QED
      BY <2>2, <2>3, <3>1, <3>2
  <2>7. Ordered(f, t)
    BY <2>3, <2>5, <2>6 DEF Ordered
  <2> QED
    BY <1>2, <2>7 DEF TakeNext, t, x
<1> QED
  BY <1>1, <1>2

\* The order that the lint computes is one.
LEMMA OrderOrdered ==
  ASSUME NEW f, f.nodes \in SUBSET Nat, IsFiniteSet(f.nodes)
  PROVE  Ordered(f, Order(f))
<1> DEFINE N == Cardinality(f.nodes)
           Bad == {k \in 0..N : ~Ordered(f, Kahn(f)[k])}
<1>0. N \in Nat
  BY FS_CardinalityType
<1>1. ASSUME Bad # {} PROVE FALSE
  <2>0. Bad \in SUBSET Nat
    BY <1>0
  <2>1. PICK k \in Bad : \A n \in Bad : k <= n
    BY <1>1, <2>0, LeastOf
  <2>2. k \in 0..N /\ ~Ordered(f, Kahn(f)[k])
    BY <2>1
  <2>3. Kahn(f)[k] = IF k = 0 THEN <<>> ELSE TakeNext(f, Kahn(f)[k - 1])
    BY <1>0, <2>2, KahnDef
  <2>4. CASE k = 0
    BY <2>2, <2>3, <2>4 DEF Ordered
  <2>5. CASE k # 0
    <3>1. k - 1 \in 0..N /\ k - 1 \notin Bad
      BY <1>0, <2>1, <2>2, <2>5
    <3>2. Ordered(f, Kahn(f)[k - 1])
      BY <3>1
    <3> QED
      BY <2>2, <2>3, <2>5, <3>2, TakeNextKeeps
  <2> QED
    BY <2>4, <2>5
<1> QED
  BY <1>0, <1>1 DEF Order

\* The order of an acyclic flow has every node.
LEMMA OrderComplete ==
  ASSUME NEW f, f.nodes \in SUBSET Nat, IsFiniteSet(f.nodes), ~IsCyclic(f)
  PROVE  \A n \in f.nodes : \E i \in 1..Len(Order(f)) : Order(f)[i] = n
<1> DEFINE o == Order(f)
           N == Cardinality(f.nodes)
<1>1. Ordered(f, o) /\ Len(o) = N /\ N \in Nat
  BY OrderOrdered, FS_CardinalityType DEF IsCyclic
<1> HIDE DEF o
<1>2. o \in Injection(1..N, f.nodes)
  BY <1>1 DEF Ordered, Injection, IsInjective
<1>3. Cardinality(1..N) = N
  BY <1>1, FS_Interval
<1>4. o \in Surjection(1..N, f.nodes)
  BY <1>2, <1>3, FS_Injection
<1> QED
  BY <1>1, <1>4 DEF Surjection, o

----------------------------------------------------------------------------
(* The waves *)

\* Two lists conflict in either order (scope.ListsConflict).
LEMMA ConflictSymmetric == \A a, b : ListsConflict(a, b) => ListsConflict(b, a)
BY DEF ListsConflict

\* Some of the nodes have a wave: behind those of their predecessors, which
\* have one too, and without conflicts inside a wave.
Placed(f, p) ==
  /\ DOMAIN p \subseteq f.nodes
  /\ \A n \in DOMAIN p : p[n] \in Nat
  /\ \E b \in Nat : \A n \in DOMAIN p : p[n] <= b
  /\ \A n \in DOMAIN p : \A m \in Preds(f, n) : m \in DOMAIN p /\ p[m] < p[n]
  /\ \A m, n \in DOMAIN p : m # n /\ p[m] = p[n] => ~ListsConflict(f.scope[m], f.scope[n])

\* The least wave of a node is behind its predecessors.
LEMMA LeastWave ==
  ASSUME NEW f, NEW p, Placed(f, p), NEW n, Preds(f, n) \subseteq DOMAIN p
  PROVE  Least(f, p, n) \in Nat /\ \A m \in Preds(f, n) : p[m] < Least(f, p, n)
<1> DEFINE S == {0} \cup {p[m] + 1 : m \in Preds(f, n)}
<1>1. PICK b \in Nat : \A m \in DOMAIN p : p[m] \in Nat /\ p[m] <= b
  BY DEF Placed
<1>2. S \in SUBSET Nat /\ S # {} /\ b + 1 \in Nat /\ \A x \in S : x <= b + 1
  BY <1>1
<1>3. Max(S) \in S /\ \A y \in S : Max(S) >= y
  BY <1>2, MaxOf
<1>4. Least(f, p, n) = Max(S)
  BY DEF Least
<1>5. \A m \in Preds(f, n) : p[m] \in Nat /\ p[m] + 1 \in S
  BY <1>1
<1> HIDE DEF S
<1>6. Least(f, p, n) \in Nat
  BY <1>2, <1>3, <1>4
<1>7. ASSUME NEW m \in Preds(f, n) PROVE p[m] < Least(f, p, n)
  <2>1. p[m] \in Nat /\ Least(f, p, n) >= p[m] + 1
    BY <1>3, <1>4, <1>5
  <2> QED
    BY <1>6, <2>1
<1> QED
  BY <1>6, <1>7

\* Among as many waves as there are nodes, and one, is a clear one.
LEMMA SomeWaveClear ==
  ASSUME NEW f, IsFiniteSet(f.nodes), NEW p, Placed(f, p), NEW n, NEW least \in Nat
  PROVE  \E w \in least..least + Cardinality(f.nodes) : Clear(f, p, n, w)
<1> DEFINE N == Cardinality(f.nodes)
           I == least..least + N
           h == [w \in I |-> CHOOSE m \in DOMAIN p : p[m] = w]
<1>0. N \in Nat
  BY FS_CardinalityType
<1>1. SUFFICES ASSUME \A w \in I : \E m \in DOMAIN p : p[m] = w PROVE FALSE
  BY DEF Clear
<1>2. \A w \in I : h[w] \in DOMAIN p /\ p[h[w]] = w
  BY <1>1
<1>3. h \in [I -> DOMAIN p]
  BY <1>2
<1>4. IsFiniteSet(I) /\ Cardinality(I) = N + 1
  BY <1>0, FS_Interval
<1>5. IsFiniteSet(DOMAIN p) /\ Cardinality(DOMAIN p) <= N /\ Cardinality(DOMAIN p) \in Nat
  BY FS_Subset, FS_CardinalityType DEF Placed
<1> HIDE DEF h, I, N
<1>6. \E x, y \in I : x # y /\ h[x] = h[y]
  BY <1>0, <1>3, <1>4, <1>5, FS_PigeonHole
<1> QED
  BY <1>2, <1>6

\* Placing one more node behind its predecessors keeps the waves sound.
LEMMA PlaceNextKeeps ==
  ASSUME NEW f, IsFiniteSet(f.nodes), NEW p, Placed(f, p),
         NEW n \in f.nodes \ DOMAIN p, Preds(f, n) \subseteq DOMAIN p
  PROVE  Placed(f, PlaceNext(f, p, n)) /\ DOMAIN PlaceNext(f, p, n) = {n} \cup DOMAIN p
<1> DEFINE N == Cardinality(f.nodes)
           least == Least(f, p, n)
           W == {w \in least..least + N : Clear(f, p, n, w)}
           w == Min(W)
           q == PlaceNext(f, p, n)
<1>0. N \in Nat /\ least \in Nat /\ \A m \in Preds(f, n) : p[m] < least
  BY LeastWave, FS_CardinalityType
<1>1. w \in Nat /\ w >= least /\ Clear(f, p, n, w) /\ Place(f, p, n) = w
  <2> HIDE DEF least, N
  <2>1. W \in SUBSET Nat
    BY <1>0
  <2>2. W # {}
    BY <1>0, SomeWaveClear DEF N
  <2>3. w \in W
    BY <2>1, <2>2, MinOf
  <2>4. w \in Nat /\ w >= least /\ Clear(f, p, n, w)
    BY <1>0, <2>3
  <2>5. Place(f, p, n) = w
    BY DEF Place, least, N
  <2> QED
    BY <2>4, <2>5
<1> HIDE DEF w, least, N
<1>2. DOMAIN q = {n} \cup DOMAIN p /\ q[n] = w /\ \A m \in DOMAIN p : q[m] = p[m]
  BY <1>1 DEF PlaceNext
<1> HIDE DEF q
<1>3. DOMAIN q \subseteq f.nodes /\ \A m \in DOMAIN q : q[m] \in Nat
  BY <1>1, <1>2 DEF Placed
<1>4. \E b \in Nat : \A m \in DOMAIN q : q[m] <= b
  <2>1. PICK b \in Nat : \A m \in DOMAIN p : p[m] \in Nat /\ p[m] <= b
    BY DEF Placed
  <2>2. \A m \in DOMAIN q : q[m] <= b + w
    BY <1>1, <1>2, <2>1
  <2> QED
    BY <1>1, <2>1, <2>2
<1>5. ASSUME NEW k \in DOMAIN q, NEW m \in Preds(f, k) PROVE m \in DOMAIN q /\ q[m] < q[k]
  <2>1. CASE k = n
    <3>1. m \in DOMAIN p /\ p[m] < least /\ p[m] \in Nat
      BY <1>0, <1>5, <2>1 DEF Placed
    <3> QED
      BY <1>0, <1>1, <1>2, <2>1, <3>1
  <2>2. CASE k \in DOMAIN p
    BY <1>2, <1>5, <2>2 DEF Placed
  <2> QED
    BY <1>2, <2>1, <2>2
<1>6. ASSUME NEW k \in DOMAIN q, NEW m \in DOMAIN q, k # m, q[k] = q[m]
      PROVE  ~ListsConflict(f.scope[k], f.scope[m])
  <2>1. CASE k = n
    BY <1>1, <1>2, <1>6, <2>1 DEF Clear
  <2>2. CASE m = n
    BY <1>1, <1>2, <1>6, <2>2, ConflictSymmetric DEF Clear
  <2>3. CASE k \in DOMAIN p /\ m \in DOMAIN p
    BY <1>2, <1>6, <2>3 DEF Placed
  <2> QED
    BY <1>2, <2>1, <2>2, <2>3
<1> QED
  BY <1>2, <1>3, <1>4, <1>5, <1>6 DEF Placed, q

\* The recursion that places the nodes in Kahn's order has a solution.
LEMMA PlacementsDef ==
  ASSUME NEW f, Len(Order(f)) \in Nat
  PROVE  Placements(f) = [k \in 0..Len(Order(f)) |->
                            IF k = 0 THEN <<>> ELSE PlaceNext(f, Placements(f)[k - 1], Order(f)[k])]
<1> DEFINE o == Order(f)
           Is(m, g) == g = [k \in 0..m |-> IF k = 0 THEN <<>> ELSE PlaceNext(f, g[k - 1], o[k])]
           Bad == {m \in Nat : \A g : ~Is(m, g)}
<1> HIDE DEF o
<1>1. ASSUME Bad # {} PROVE FALSE
  <2>1. PICK m \in Bad : \A n \in Bad : m <= n
    BY <1>1, LeastOf
  <2>2. Is(0, [k \in 0..0 |-> <<>>])
    <3>1. \A k \in 0..0 : k = 0
      OBVIOUS
    <3> QED
      BY <3>1, Zenon
  <2> HIDE DEF Is
  <2>3. m \in Nat /\ m # 0 /\ m - 1 \in Nat /\ m - 1 \notin Bad
    <3>1. m # 0
      BY <2>1, <2>2
    <3> QED
      BY <2>1, <3>1
  <2>4. PICK g : Is(m - 1, g)
    BY <2>3
  <2> USE DEF Is
  <2> DEFINE h == [k \in 0..m |-> IF k = m THEN PlaceNext(f, g[m - 1], o[m]) ELSE g[k]]
  <2>5. Is(m, h)
    <3>1. ASSUME NEW k \in 0..m PROVE h[k] = IF k = 0 THEN <<>> ELSE PlaceNext(f, h[k - 1], o[k])
      <4>1. CASE k = m
        BY <2>3, <4>1
      <4>2. CASE k # m
        <5>1. k \in 0..(m - 1) /\ h[k] = g[k]
          BY <2>3, <4>2
        <5>2. k # 0 => k - 1 \in 0..m /\ h[k - 1] = g[k - 1]
          BY <2>3, <4>2
        <5> QED
          BY <2>4, <5>1, <5>2
      <4> QED
        BY <4>1, <4>2
    <3> QED
      BY <3>1
  <2> QED
    BY <2>1, <2>5
<1>2. \E g : Is(Len(o), g)
  BY <1>1 DEF o
<1>3. Placements(f) = CHOOSE g : Is(Len(o), g)
  BY DEF Placements, o
<1> HIDE DEF Is
<1>4. Is(Len(o), Placements(f))
  BY <1>2, <1>3
<1> QED
  BY <1>4 DEF Is, o

\* Every prefix of the order is placed soundly.
LEMMA PlacementsPlaced ==
  ASSUME NEW f, f.nodes \in SUBSET Nat, IsFiniteSet(f.nodes), NEW k \in 0..Len(Order(f))
  PROVE  /\ Placed(f, Placements(f)[k])
         /\ DOMAIN Placements(f)[k] = {Order(f)[i] : i \in 1..k}
<1> DEFINE o == Order(f)
           P(i) == Placements(f)[i]
           Good(i) == Placed(f, P(i)) /\ DOMAIN P(i) = {o[j] : j \in 1..i}
           Bad == {i \in 0..Len(o) : ~Good(i)}
<1>0. Ordered(f, o) /\ Len(o) \in Nat
  <2>1. Ordered(f, o)
    BY OrderOrdered
  <2> HIDE DEF o
  <2>2. o \in Seq(f.nodes)
    BY <2>1, Zenon DEF Ordered
  <2>3. Len(o) \in Nat
    BY <2>2
  <2> QED
    BY <2>1, <2>3
<1>1. \A i \in 0..Len(o) : P(i) = IF i = 0 THEN <<>> ELSE PlaceNext(f, P(i - 1), o[i])
  <2>1. Placements(f) = [i \in 0..Len(Order(f)) |->
                           IF i = 0 THEN <<>> ELSE PlaceNext(f, Placements(f)[i - 1], Order(f)[i])]
    BY <1>0, PlacementsDef
  <2> QED
    BY <2>1
<1> HIDE DEF o, P
<1>2. ASSUME Bad # {} PROVE FALSE
  <2>0. Bad \in SUBSET Nat
    BY <1>0
  <2>1. PICK i \in Bad : \A n \in Bad : i <= n
    BY <1>2, <2>0, LeastOf
  <2>2. i \in 0..Len(o) /\ ~Good(i)
    BY <2>1
  <2>3. CASE i = 0
    <3>1. P(i) = <<>> /\ DOMAIN P(i) = {}
      BY <1>1, <2>2, <2>3
    <3>2. Placed(f, P(i))
      BY <3>1 DEF Placed
    <3>3. {o[j] : j \in 1..i} = {}
      BY <2>3
    <3> QED
      BY <2>2, <3>1, <3>2, <3>3
  <2>4. CASE i # 0
    <3>0. i \in Nat /\ i - 1 \in 0..Len(o) /\ ~(i <= i - 1)
      BY <1>0, <2>2, <2>4
    <3>1. i - 1 \notin Bad
      BY <2>1, <3>0
    <3>2. Good(i - 1)
      BY <3>0, <3>1
    <3>3. P(i) = PlaceNext(f, P(i - 1), o[i])
      BY <1>1, <2>2, <2>4
    <3>4. i \in 1..Len(o) /\ o[i] \in f.nodes
      BY <1>0, <2>2, <2>4 DEF Ordered
    <3>5. o[i] \notin DOMAIN P(i - 1)
      <4>1. \A j \in 1..(i - 1) : j \in 1..Len(o) /\ j # i
        BY <1>0, <3>4
      <4> QED
        BY <1>0, <3>2, <3>4, <4>1 DEF Ordered
    <3>6. Preds(f, o[i]) \subseteq DOMAIN P(i - 1)
      BY <1>0, <3>2, <3>4 DEF Ordered
    <3>7. Placed(f, P(i)) /\ DOMAIN P(i) = {o[i]} \cup DOMAIN P(i - 1)
      <4> DEFINE q == P(i - 1)
      <4>1. Placed(f, q) /\ o[i] \in f.nodes \ DOMAIN q /\ Preds(f, o[i]) \subseteq DOMAIN q
        BY <3>2, <3>4, <3>5, <3>6
      <4> HIDE DEF q
      <4>2. Placed(f, PlaceNext(f, q, o[i])) /\ DOMAIN PlaceNext(f, q, o[i]) = {o[i]} \cup DOMAIN q
        BY <4>1, PlaceNextKeeps
      <4> QED
        BY <3>3, <4>2 DEF q
    <3>8. {o[j] : j \in 1..i} = {o[i]} \cup {o[j] : j \in 1..(i - 1)}
      BY <1>0, <3>4
    <3> QED
      BY <2>2, <3>2, <3>7, <3>8
  <2> QED
    BY <2>3, <2>4
<1>3. Good(k)
  BY <1>2 DEF o
<1> QED
  BY <1>3 DEF o, P

\* The waves of an acyclic flow: every node is in one and only one, an edge
\* leads to a later one, and the nodes of a wave write disjoint paths.
GoodWaves(f, ws) ==
  /\ ws \in Seq(SUBSET f.nodes)
  /\ \A n \in f.nodes : \E w \in 1..Len(ws) : n \in ws[w]
  /\ \A v, w \in 1..Len(ws) : \A n \in ws[v] : n \in ws[w] => v = w
  /\ \A v, w \in 1..Len(ws) : \A n \in ws[w] : \A m \in Preds(f, n) : m \in ws[v] => v < w
  /\ \A w \in 1..Len(ws) : \A m, n \in ws[w] : m # n => ~ListsConflict(f.scope[m], f.scope[n])

\* ScheduleWaves computes such waves.
LEMMA ScheduleGood ==
  ASSUME NEW f, f.nodes \in SUBSET Nat, IsFiniteSet(f.nodes), ~IsCyclic(f)
  PROVE  GoodWaves(f, ScheduleWaves(f))
<1> DEFINE p == WaveOf(f)
           S == {0} \cup {p[n] + 1 : n \in f.nodes}
           L == Max(S)
           ws == ScheduleWaves(f)
<1>1. Placed(f, p) /\ DOMAIN p = f.nodes
  <2>1. Ordered(f, Order(f)) /\ Len(Order(f)) \in Nat
    <3>1. Ordered(f, Order(f))
      BY OrderOrdered
    <3>2. Order(f) \in Seq(f.nodes)
      BY <3>1, Zenon DEF Ordered
    <3>3. Len(Order(f)) \in Nat
      BY <3>2
    <3> QED
      BY <3>1, <3>3
  <2>2. Placed(f, p) /\ DOMAIN p = {Order(f)[i] : i \in 1..Len(Order(f))}
    BY <2>1, PlacementsPlaced DEF WaveOf
  <2>3. f.nodes \subseteq {Order(f)[i] : i \in 1..Len(Order(f))}
    BY OrderComplete
  <2> QED
    BY <2>2, <2>3 DEF Placed
<1> HIDE DEF p
<1>2. PICK b \in Nat : \A n \in f.nodes : p[n] \in Nat /\ p[n] <= b
  BY <1>1 DEF Placed
<1>3. L \in Nat /\ \A n \in f.nodes : p[n] + 1 <= L
  <2>1. S \in SUBSET Nat /\ S # {} /\ b + 1 \in Nat /\ \A x \in S : x <= b + 1
    BY <1>2
  <2>2. L \in S /\ \A y \in S : L >= y
    BY <2>1, MaxOf
  <2>3. \A n \in f.nodes : p[n] + 1 \in S
    OBVIOUS
  <2> HIDE DEF S
  <2>4. L \in Nat
    BY <2>1, <2>2
  <2> HIDE DEF L
  <2> QED
    BY <1>2, <2>2, <2>3, <2>4
<1>4. ws = [w \in 1..L |-> {n \in f.nodes : p[n] = w - 1}]
  BY DEF ScheduleWaves, p
<1> HIDE DEF L, ws
<1>5. ws \in Seq(SUBSET f.nodes) /\ Len(ws) = L
  BY <1>3, <1>4
<1>6. \A w \in 1..L : \A n : n \in ws[w] <=> n \in f.nodes /\ p[n] = w - 1
  BY <1>4
<1>7. ASSUME NEW n \in f.nodes PROVE \E w \in 1..L : n \in ws[w]
  <2>1. p[n] + 1 \in 1..L /\ p[n] = (p[n] + 1) - 1
    BY <1>2, <1>3
  <2> QED
    BY <1>6, <2>1
<1>8. ASSUME NEW v \in 1..L, NEW w \in 1..L, NEW n \in ws[v], n \in ws[w] PROVE v = w
  <2>1. p[n] = v - 1 /\ p[n] = w - 1
    BY <1>6, <1>8
  <2> QED
    BY <1>3, <2>1
<1>9. ASSUME NEW v \in 1..L, NEW w \in 1..L, NEW n \in ws[w], NEW m \in Preds(f, n), m \in ws[v]
      PROVE  v < w
  <2>1. p[n] = w - 1 /\ p[m] = v - 1 /\ n \in f.nodes
    BY <1>6, <1>9
  <2>2. p[m] < p[n]
    BY <1>1, <2>1 DEF Placed
  <2> QED
    BY <1>3, <2>1, <2>2
<1>10. ASSUME NEW w \in 1..L, NEW m \in ws[w], NEW n \in ws[w], m # n
       PROVE  ~ListsConflict(f.scope[m], f.scope[n])
  <2>1. p[n] = p[m] /\ n \in f.nodes /\ m \in f.nodes
    BY <1>6, <1>10
  <2> QED
    BY <1>1, <1>10, <2>1 DEF Placed
<1>11. GoodWaves(f, ws)
  BY <1>5, <1>7, <1>8, <1>9, <1>10 DEF GoodWaves
<1> QED
  BY <1>11 DEF ws

\* The recursion of Behind has a solution.
LEMMA BehindDef ==
  ASSUME NEW f, Cardinality(f.nodes) \in Nat, NEW a
  PROVE  Behind(f, a) = [k \in 0..Cardinality(f.nodes) |->
           IF k = 0 THEN {e.to : e \in Outgoing(f, a)} ELSE Onward(f, Behind(f, a)[k - 1])]
<1> DEFINE out == {e.to : e \in Outgoing(f, a)}
           Is(m, g) == g = [k \in 0..m |-> IF k = 0 THEN out ELSE Onward(f, g[k - 1])]
           Bad == {m \in Nat : \A g : ~Is(m, g)}
<1> HIDE DEF out
<1>1. ASSUME Bad # {} PROVE FALSE
  <2>1. PICK m \in Bad : \A n \in Bad : m <= n
    BY <1>1, LeastOf
  <2>2. Is(0, [k \in 0..0 |-> out])
    <3>1. \A k \in 0..0 : k = 0
      OBVIOUS
    <3> QED
      BY <3>1, Zenon
  <2> HIDE DEF Is
  <2>3. m \in Nat /\ m # 0 /\ m - 1 \in Nat /\ m - 1 \notin Bad
    <3>1. m # 0
      BY <2>1, <2>2
    <3> QED
      BY <2>1, <3>1
  <2>4. PICK g : Is(m - 1, g)
    BY <2>3
  <2> USE DEF Is
  <2> DEFINE h == [k \in 0..m |-> IF k = m THEN Onward(f, g[m - 1]) ELSE g[k]]
  <2>5. Is(m, h)
    <3>1. ASSUME NEW k \in 0..m PROVE h[k] = IF k = 0 THEN out ELSE Onward(f, h[k - 1])
      <4>1. CASE k = m
        BY <2>3, <4>1
      <4>2. CASE k # m
        <5>1. k \in 0..(m - 1) /\ h[k] = g[k]
          BY <2>3, <4>2
        <5>2. k # 0 => k - 1 \in 0..m /\ h[k - 1] = g[k - 1]
          BY <2>3, <4>2
        <5> QED
          BY <2>4, <5>1, <5>2
      <4> QED
        BY <4>1, <4>2
    <3> QED
      BY <3>1
  <2> QED
    BY <2>1, <2>5
<1>2. \E g : Is(Cardinality(f.nodes), g)
  BY <1>1
<1>3. Behind(f, a) = CHOOSE g : Is(Cardinality(f.nodes), g)
  BY DEF Behind, out
<1> HIDE DEF Is
<1>4. Is(Cardinality(f.nodes), Behind(f, a))
  BY <1>2, <1>3
<1> QED
  BY <1>4 DEF Is, out

\* A path leads to a later wave.
LEMMA ReachesLater ==
  ASSUME NEW f, IsFiniteSet(f.nodes), Dangling(f) = {}, NEW ws, GoodWaves(f, ws),
         NEW v \in 1..Len(ws), NEW a \in ws[v],
         NEW w \in 1..Len(ws), NEW b \in ws[w], Reaches(f, a, b)
  PROVE  v < w
<1> DEFINE N == Cardinality(f.nodes)
           B(k) == Behind(f, a)[k]
           Later(c) == c \in f.nodes /\ \A u \in 1..Len(ws) : c \in ws[u] => v < u
           Bad == {k \in 0..N : ~(\A c \in B(k) : Later(c))}
<1>0. N \in Nat /\ Len(ws) \in Nat
  BY FS_CardinalityType DEF GoodWaves
<1>1. /\ B(0) = {e.to : e \in Outgoing(f, a)}
      /\ \A k \in 0..N : k # 0 => B(k) = Onward(f, B(k - 1))
  <2>1. Behind(f, a) = [k \in 0..Cardinality(f.nodes) |->
           IF k = 0 THEN {e.to : e \in Outgoing(f, a)} ELSE Onward(f, Behind(f, a)[k - 1])]
    BY <1>0, BehindDef
  <2> DEFINE out == {e.to : e \in Outgoing(f, a)}
  <2>2. \A k \in 0..N : B(k) = IF k = 0 THEN out ELSE Onward(f, B(k - 1))
    BY <2>1
  <2> HIDE DEF out, B, N
  <2>3. 0 \in 0..N
    BY <1>0
  <2>4. B(0) = out
    BY <2>2, <2>3
  <2>5. \A k \in 0..N : k # 0 => B(k) = Onward(f, B(k - 1))
    BY <2>2
  <2> QED
    BY <2>4, <2>5 DEF out
<1>2. ASSUME NEW e \in f.edges, NEW u \in 1..Len(ws), e.from \in ws[u], v <= u PROVE Later(e.to)
  <2>1. e.to \in f.nodes
    BY <1>2 DEF Dangling
  <2>2. ASSUME NEW t \in 1..Len(ws), e.to \in ws[t] PROVE v < t
    <3>1. e.from \in Preds(f, e.to)
      BY <1>2 DEF Preds
    <3>2. u < t
      BY <1>2, <2>2, <3>1 DEF GoodWaves
    <3> QED
      BY <1>0, <1>2, <3>2
  <2> QED
    BY <2>1, <2>2
<1> HIDE DEF B, Later, N
<1>3. ASSUME Bad # {} PROVE FALSE
  <2>0. Bad \in SUBSET Nat
    BY <1>0
  <2>1. PICK k \in Bad : \A n \in Bad : k <= n
    BY <1>3, <2>0, LeastOf
  <2>2. k \in 0..N /\ \E c \in B(k) : ~Later(c)
    BY <2>1
  <2>3. PICK c \in B(k) : ~Later(c)
    BY <2>2
  <2>4. CASE k = 0
    <3>1. PICK e \in f.edges : e.from = a /\ e.to = c
      BY <1>1, <2>3, <2>4 DEF Outgoing
    <3>2. Later(e.to)
      BY <1>0, <1>2, <3>1
    <3> QED
      BY <2>3, <3>1, <3>2
  <2>5. CASE k # 0
    <3>0. k \in Nat /\ k - 1 \in 0..N /\ ~(k <= k - 1)
      BY <1>0, <2>2, <2>5
    <3>1. k - 1 \notin Bad
      BY <2>1, <3>0
    <3>2. \A d \in B(k - 1) : Later(d)
      BY <3>0, <3>1
    <3>3. c \in Onward(f, B(k - 1))
      BY <1>1, <2>2, <2>3, <2>5
    <3>4. PICK e \in f.edges : e.from \in B(k - 1) /\ e.to = c
      BY <2>3, <3>2, <3>3 DEF Onward
    <3>5. PICK u \in 1..Len(ws) : e.from \in ws[u]
      BY <3>2, <3>4 DEF Later, GoodWaves
    <3>6. v < u
      BY <3>2, <3>4, <3>5 DEF Later
    <3>7. Later(e.to)
      BY <1>0, <1>2, <3>5, <3>6
    <3> QED
      BY <2>3, <3>4, <3>7
  <2> QED
    BY <2>4, <2>5
<1>4. b \in B(N)
  BY DEF Reaches, B, N
<1>5. Later(b)
  BY <1>0, <1>3, <1>4
<1> QED
  BY <1>5 DEF Later


----------------------------------------------------------------------------
(* The order of the ids *)

\* A sequence in ascending order that lists a set.
Lists(s, S) ==
  /\ s \in Seq(S) /\ Len(s) = Cardinality(S)
  /\ \A x \in S : \E i \in 1..Len(s) : s[i] = x
  /\ \A i, j \in 1..Len(s) : i < j => s[i] < s[j]

\* A smaller id has fewer before it.
LEMMA RankGrows ==
  ASSUME NEW S \in SUBSET Nat, IsFiniteSet(S), NEW x \in S, NEW y \in S, x < y
  PROVE  Rank(S, x) \in Nat /\ Rank(S, y) \in Nat /\ Rank(S, x) < Rank(S, y)
<1> DEFINE X == {z \in S : z < x}
           Y == {z \in S : z < y}
<1>0. x \in Nat /\ y \in Nat /\ \A z \in S : z \in Nat /\ (z < x => z < y)
  OBVIOUS
<1>1. X \subseteq Y /\ x \in Y /\ X \subseteq S /\ Y \subseteq S
  BY <1>0
<1>2. x \notin X
  BY <1>0
<1> HIDE DEF X, Y
<1>3. IsFiniteSet(X) /\ IsFiniteSet(Y)
  BY <1>1, FS_Subset
<1>4. Cardinality(X) \in Nat /\ Cardinality(Y) \in Nat /\ Cardinality(X) <= Cardinality(Y)
  BY <1>1, <1>3, FS_Subset, FS_CardinalityType
<1>5. Cardinality(X) # Cardinality(Y)
  BY <1>1, <1>2, <1>3, FS_Subset
<1> QED
  BY <1>4, <1>5 DEF Rank, X, Y

\* Sorted lists the set: the ranks are the numbers below its size.
LEMMA SortedLists ==
  ASSUME NEW S \in SUBSET Nat, IsFiniteSet(S)
  PROVE  Lists(Sorted(S), S)
<1> DEFINE N == Cardinality(S)
           I == 0..(N - 1)
           r == [x \in S |-> Rank(S, x)]
           s == Sorted(S)
<1>0. N \in Nat
  BY FS_CardinalityType
<1>1. \A x, y \in S : x < y => Rank(S, x) < Rank(S, y)
  BY RankGrows
<1>2. ASSUME NEW x \in S PROVE Rank(S, x) \in I
  <2> DEFINE X == {z \in S : z < x}
  <2>1. X \subseteq S /\ x \notin X
    OBVIOUS
  <2> HIDE DEF X
  <2>2. Cardinality(X) \in Nat /\ Cardinality(X) <= N /\ Cardinality(X) # N
    BY <2>1, FS_Subset, FS_CardinalityType
  <2> QED
    BY <1>0, <2>2 DEF Rank, X
<1>3. \A x, y \in S : Rank(S, x) = Rank(S, y) => x = y
  <2> SUFFICES ASSUME NEW x \in S, NEW y \in S, Rank(S, x) = Rank(S, y) PROVE x = y
    OBVIOUS
  <2>1. ~(Rank(S, x) < Rank(S, y)) /\ ~(Rank(S, y) < Rank(S, x))
    BY <1>0, <1>2
  <2>2. ~(x < y) /\ ~(y < x)
    BY <1>1, <2>1
  <2> QED
    BY <2>2
<1>4. \A k \in I : \E x \in S : Rank(S, x) = k
  <2>1. r \in Injection(S, I)
    BY <1>2, <1>3 DEF Injection, IsInjective
  <2>2. IsFiniteSet(I) /\ Cardinality(I) = N
    <3>1. 0 \in Int /\ N - 1 \in Int
      BY <1>0
    <3> HIDE DEF N
    <3>2. IsFiniteSet(I) /\ Cardinality(I) = IF 0 > N - 1 THEN 0 ELSE N - 1 - 0 + 1
      BY <3>1, FS_Interval
    <3> QED
      BY <1>0, <3>2
  <2>3. r \in Surjection(S, I)
    <3>1. Cardinality(S) = Cardinality(I) /\ IsFiniteSet(I) /\ r \in Injection(S, I)
      BY <2>1, <2>2
    <3> HIDE DEF r, I, N
    <3>2. Cardinality(S) = Cardinality(I) <=> r \in Surjection(S, I)
      BY <3>1, FS_Injection
    <3> QED
      BY <3>1, <3>2
  <2> QED
    BY <2>3 DEF Surjection
<1>5. s = [i \in 1..N |-> CHOOSE x \in S : Rank(S, x) = i - 1]
  BY DEF Sorted
<1> HIDE DEF s, N, r, I
<1>6. ASSUME NEW i \in 1..N PROVE s[i] \in S /\ Rank(S, s[i]) = i - 1
  <2>1. i - 1 \in I
    BY <1>0 DEF I
  <2>2. \E x \in S : Rank(S, x) = i - 1
    BY <1>4, <2>1
  <2>3. s[i] = CHOOSE x \in S : Rank(S, x) = i - 1
    BY <1>5
  <2> QED
    BY <2>2, <2>3
<1>7. s \in Seq(S) /\ Len(s) = N
  <2>1. s \in [1..N -> S]
    BY <1>5, <1>6
  <2> QED
    BY <1>0, <2>1
<1>8. ASSUME NEW x \in S PROVE \E i \in 1..N : s[i] = x
  <2>1. Rank(S, x) + 1 \in 1..N /\ Rank(S, x) = (Rank(S, x) + 1) - 1
    BY <1>0, <1>2 DEF I
  <2>2. Rank(S, s[Rank(S, x) + 1]) = Rank(S, x) /\ s[Rank(S, x) + 1] \in S
    BY <1>6, <2>1
  <2> QED
    BY <1>3, <2>1, <2>2
<1>9. ASSUME NEW i \in 1..N, NEW j \in 1..N, i < j PROVE s[i] < s[j]
  <2>1. s[i] \in S /\ s[j] \in S /\ Rank(S, s[i]) = i - 1 /\ Rank(S, s[j]) = j - 1
    BY <1>6
  <2>2. Rank(S, s[i]) # Rank(S, s[j]) /\ ~(Rank(S, s[j]) < Rank(S, s[i]))
    BY <1>0, <1>9, <2>1
  <2>3. ~(s[j] < s[i]) /\ s[i] # s[j]
    BY <1>1, <2>1, <2>2
  <2>4. s[i] \in Nat /\ s[j] \in Nat
    BY <2>1
  <2> QED
    BY <2>3, <2>4
<1>10. Lists(s, S)
  BY <1>7, <1>8, <1>9 DEF Lists, N
<1> QED
  BY <1>10 DEF s

----------------------------------------------------------------------------
(* The trace *)

EventSet(S) == [node : S, decision : {"executed", "skipped"}]

\* The event of an executor that was called and whose outcome was taken.
Reports(t, n) == \E i \in 1..Len(t) : t[i].node = n /\ t[i].decision = "executed"

\* The events t are those of the first k waves, in the order of waves and ids.
Covers(ws, k, t) ==
  /\ \A i \in 1..Len(t) : \E w \in 1..k : t[i].node \in ws[w]
  /\ \A w \in 1..k : \A n \in ws[w] : \E i \in 1..Len(t) : t[i].node = n
  /\ \A i, j \in 1..Len(t) : i < j =>
       \A v, w \in 1..Len(ws) : t[i].node \in ws[v] /\ t[j].node \in ws[w] =>
         v < w \/ (v = w /\ t[i].node < t[j].node)

\* What the engine has planned: the schedule of a flow that passed the lint, or
\* the walk of one with a cycle.
Planned ==
  /\ flow \in Flows /\ wave \in Nat
  /\ status = "submitted" => wave = 0 /\ trace = <<>> /\ ran = {}
  /\ status = "walking" => IsCyclic(flow)
  /\ status \in {"between", "running"} =>
       /\ ~IsCyclic(flow) /\ Dangling(flow) = {}
       /\ GoodWaves(flow, waves) /\ ~FanOut(waves)
       /\ wave <= Len(waves)
  /\ status = "running" => wave < Len(waves)

\* The goroutines in flight are nodes of one wave.
InOneWave ==
  status = "running" =>
    /\ running \subseteq waves[wave + 1]
    /\ \A n \in flow.nodes : outcome[n] # NoResult => n \in waves[wave + 1]

\* The trace has told all waves before, and every executor that was called, the
\* running wave's and those that never return apart.
Narrated ==
  /\ trace \in Seq(EventSet(flow.nodes)) /\ ran \subseteq flow.nodes
  /\ status \in {"between", "running"} => Covers(waves, wave, trace)
  /\ stuck \subseteq running /\ (status \in {"submitted", "between"} => stuck = {})
  /\ status \in {"submitted", "between", "walking"} => \A n \in ran : Reports(trace, n) \/ n \in stuck
  /\ status = "running" => \A n \in ran : Reports(trace, n) \/ outcome[n] # NoResult \/ n \in stuck

EngineInv == Planned /\ InOneWave /\ Narrated /\ TraceAccountsForAll

\* The events of a wave: one for each node, in the order of the ids.
LEMMA EventsOf ==
  ASSUME NEW S \in SUBSET Nat, IsFiniteSet(S), NEW skipped
  PROVE  LET e == Events(S, skipped)
         IN  /\ e \in Seq(EventSet(S))
             /\ \A x \in S : \E i \in 1..Len(e) :
                  e[i].node = x /\ (x \notin skipped => e[i].decision = "executed")
             /\ \A i, j \in 1..Len(e) : i < j => e[i].node < e[j].node
<1> DEFINE s == Sorted(S)
           e == Events(S, skipped)
<1>1. Lists(s, S)
  BY SortedLists
<1>2. e = [i \in 1..Len(s) |-> [node |-> s[i],
                            decision |-> IF s[i] \in skipped THEN "skipped" ELSE "executed"]]
  BY DEF Events
<1> HIDE DEF s, e
<1>3. s \in Seq(S) /\ Len(s) \in Nat /\ \A i \in 1..Len(s) : s[i] \in S
  BY <1>1 DEF Lists
<1>4. \A i \in 1..Len(s) : e[i] \in EventSet(S)
  BY <1>2, <1>3 DEF EventSet
<1>5. e \in Seq(EventSet(S)) /\ Len(e) = Len(s)
  <2>1. e \in [1..Len(s) -> EventSet(S)]
    BY <1>2, <1>4
  <2> QED
    BY <1>3, <2>1
<1>6. \A i \in 1..Len(s) : e[i].node = s[i] /\ (s[i] \notin skipped => e[i].decision = "executed")
  BY <1>2
<1>7. \A x \in S : \E i \in 1..Len(e) : e[i].node = x /\ (x \notin skipped => e[i].decision = "executed")
  BY <1>1, <1>5, <1>6 DEF Lists
<1>8. \A i, j \in 1..Len(e) : i < j => e[i].node < e[j].node
  BY <1>1, <1>5, <1>6 DEF Lists
<1> QED
  BY <1>5, <1>7, <1>8 DEF e

\* Appending events keeps what the trace reports, and adds what they report.
LEMMA ReportsAppended ==
  ASSUME NEW E, NEW t \in Seq(E), NEW e \in Seq(E), NEW n, Reports(t, n) \/ Reports(e, n)
  PROVE  Reports(t \o e, n)
<1>1. /\ Len(t) \in Nat /\ Len(e) \in Nat /\ Len(t \o e) = Len(t) + Len(e)
      /\ \A i \in 1..Len(t) : (t \o e)[i] = t[i]
      /\ \A i \in 1..Len(e) : (t \o e)[Len(t) + i] = e[i]
  OBVIOUS
<1> DEFINE u == t \o e
<1> HIDE DEF u
<1>2. CASE Reports(t, n)
  <2>1. PICK i \in 1..Len(t) : t[i].node = n /\ t[i].decision = "executed"
    BY <1>2 DEF Reports
  <2>2. i \in 1..Len(u) /\ u[i] = t[i]
    BY <1>1 DEF u
  <2> QED
    BY <2>1, <2>2 DEF Reports, u
<1>3. CASE Reports(e, n)
  <2>1. PICK i \in 1..Len(e) : e[i].node = n /\ e[i].decision = "executed"
    BY <1>3 DEF Reports
  <2>2. Len(t) + i \in 1..Len(u) /\ u[Len(t) + i] = e[i]
    BY <1>1 DEF u
  <2> QED
    BY <2>1, <2>2 DEF Reports, u
<1> QED
  BY <1>2, <1>3

\* The trace with the events of the next wave covers one wave more.
LEMMA CoversNext ==
  ASSUME NEW f, f.nodes \in SUBSET Nat, IsFiniteSet(f.nodes), NEW ws, GoodWaves(f, ws),
         NEW k \in 0..(Len(ws) - 1), NEW t \in Seq(EventSet(f.nodes)), Covers(ws, k, t), NEW skipped
  PROVE  Covers(ws, k + 1, t \o Events(ws[k + 1], skipped))
<1> DEFINE S == ws[k + 1]
           e == Events(S, skipped)
           u == t \o e
           a == Len(t)
<1>0. ws \in Seq(SUBSET f.nodes) /\ Len(ws) \in Nat /\ k \in Nat /\ k + 1 \in 1..Len(ws)
  BY DEF GoodWaves
<1>1. S \subseteq f.nodes /\ S \in SUBSET Nat /\ IsFiniteSet(S)
  BY <1>0, FS_Subset
<1>2. /\ e \in Seq(EventSet(S))
      /\ \A x \in S : \E i \in 1..Len(e) : e[i].node = x
      /\ \A i, j \in 1..Len(e) : i < j => e[i].node < e[j].node
  BY <1>1, EventsOf
<1>3. \A i \in 1..Len(e) : e[i].node \in S
  <2>1. \A x \in EventSet(S) : x.node \in S
    BY DEF EventSet
  <2> HIDE DEF e, S
  <2> QED
    BY <1>2, <2>1
<1> HIDE DEF S
<1>4. /\ a \in Nat /\ Len(e) \in Nat /\ Len(u) = a + Len(e)
      /\ \A i \in 1..a : u[i] = t[i]
      /\ \A i \in 1..Len(e) : u[a + i] = e[i]
  <2> HIDE DEF e
  <2> QED
    BY <1>2
<1> HIDE DEF e, u, a
<1>5. \A i \in 1..Len(u) : i \in 1..a \/ (i - a \in 1..Len(e) /\ i > a /\ u[i] = e[i - a])
  <2> SUFFICES ASSUME NEW i \in 1..Len(u), i \notin 1..a
               PROVE  i - a \in 1..Len(e) /\ i > a /\ u[i] = e[i - a]
    OBVIOUS
  <2>1. i - a \in 1..Len(e) /\ i > a /\ a + (i - a) = i
    BY <1>4
  <2> QED
    BY <1>4, <2>1
<1>6. ASSUME NEW i \in 1..a PROVE \E w \in 1..k : u[i].node \in ws[w]
  BY <1>4 DEF Covers, a
<1>7. ASSUME NEW i \in 1..Len(u) PROVE \E w \in 1..(k + 1) : u[i].node \in ws[w]
  <2>1. CASE i \in 1..a
    BY <1>0, <1>6, <2>1
  <2>2. CASE i - a \in 1..Len(e) /\ u[i] = e[i - a]
    <3>1. u[i].node \in ws[k + 1] /\ k + 1 \in 1..(k + 1)
      BY <1>0, <1>3, <2>2 DEF S
    <3> QED
      BY <3>1
  <2> QED
    BY <1>5, <2>1, <2>2
<1>8. ASSUME NEW w \in 1..(k + 1), NEW n \in ws[w] PROVE \E i \in 1..Len(u) : u[i].node = n
  <2>1. CASE w \in 1..k
    <3>1. PICK i \in 1..a : t[i].node = n
      BY <1>8, <2>1 DEF Covers, a
    <3> QED
      BY <1>4, <3>1
  <2>2. CASE w = k + 1
    <3>1. PICK i \in 1..Len(e) : e[i].node = n
      BY <1>2, <1>8, <2>2 DEF S
    <3>2. a + i \in 1..Len(u) /\ u[a + i] = e[i]
      BY <1>4
    <3> QED
      BY <3>1, <3>2
  <2> QED
    BY <1>0, <2>1, <2>2
<1>9. ASSUME NEW i \in 1..Len(u), NEW j \in 1..Len(u), i < j,
             NEW v \in 1..Len(ws), NEW w \in 1..Len(ws), u[i].node \in ws[v], u[j].node \in ws[w]
      PROVE  v < w \/ (v = w /\ u[i].node < u[j].node)
  <2>0. \A x, y \in 1..Len(ws) : \A n \in ws[x] : n \in ws[y] => x = y
    BY DEF GoodWaves
  <2>1. CASE i \in 1..a /\ j \in 1..a
    <3>1. u[i] = t[i] /\ u[j] = t[j]
      BY <1>4, <2>1
    <3>2. \A x, y \in 1..Len(ws) : t[i].node \in ws[x] /\ t[j].node \in ws[y] =>
            x < y \/ (x = y /\ t[i].node < t[j].node)
      BY <1>9, <2>1 DEF Covers, a
    <3> QED
      BY <1>9, <3>1, <3>2
  <2>2. CASE i \in 1..a /\ j - a \in 1..Len(e) /\ u[j] = e[j - a]
    <3>1. PICK x \in 1..k : u[i].node \in ws[x]
      BY <1>6, <2>2
    <3>2. x \in 1..Len(ws) /\ x < k + 1
      BY <1>0
    <3>3. u[j].node \in ws[k + 1]
      BY <1>3, <2>2 DEF S
    <3>4. v = x /\ w = k + 1
      BY <1>0, <1>9, <2>0, <3>1, <3>2, <3>3
    <3> QED
      BY <3>2, <3>4
  <2>3. CASE i - a \in 1..Len(e) /\ u[i] = e[i - a] /\ j - a \in 1..Len(e) /\ u[j] = e[j - a]
    <3>1. u[i].node \in ws[k + 1] /\ u[j].node \in ws[k + 1]
      BY <1>3, <2>3 DEF S
    <3>2. v = k + 1 /\ w = k + 1
      BY <1>0, <1>9, <2>0, <3>1
    <3>3. i - a < j - a
      BY <1>4, <1>9
    <3>4. u[i].node < u[j].node
      BY <1>2, <2>3, <3>3
    <3> QED
      BY <3>2, <3>4
  <2>4. ~(i > a /\ j \in 1..a)
    BY <1>4, <1>9
  <2> QED
    BY <1>5, <2>1, <2>2, <2>3, <2>4
<1>10. Covers(ws, k + 1, u)
  BY <1>7, <1>8, <1>9 DEF Covers
<1> QED
  BY <1>10 DEF u, e, S

\* A trace that covers all waves has as many events as there are nodes.
LEMMA CoversAll ==
  ASSUME NEW f, f.nodes \in SUBSET Nat, IsFiniteSet(f.nodes), NEW ws, GoodWaves(f, ws),
         NEW t \in Seq(EventSet(f.nodes)), Covers(ws, Len(ws), t)
  PROVE  /\ Len(t) = Cardinality(f.nodes)
         /\ \A n \in f.nodes : \E i \in 1..Len(t) : t[i].node = n
         /\ \A i, j \in 1..Len(t) : i < j =>
              \E v, w \in 1..Len(ws) :
                /\ t[i].node \in ws[v] /\ t[j].node \in ws[w]
                /\ v < w \/ (v = w /\ t[i].node < t[j].node)
<1> DEFINE g == [i \in 1..Len(t) |-> t[i].node]
<1>0. Len(ws) \in Nat /\ Len(t) \in Nat
  BY DEF GoodWaves
<1>1. \A i \in 1..Len(t) : t[i].node \in f.nodes /\ t[i].node \in Nat
  <2>1. \A x \in EventSet(f.nodes) : x.node \in f.nodes
    BY DEF EventSet
  <2> QED
    BY <2>1
<1>2. \A n \in f.nodes : \E i \in 1..Len(t) : t[i].node = n
  BY DEF Covers, GoodWaves
<1>3. ASSUME NEW i \in 1..Len(t), NEW j \in 1..Len(t), i < j
      PROVE  \E v, w \in 1..Len(ws) :
               /\ t[i].node \in ws[v] /\ t[j].node \in ws[w]
               /\ v < w \/ (v = w /\ t[i].node < t[j].node)
  <2>1. PICK v \in 1..Len(ws) : t[i].node \in ws[v]
    BY DEF Covers
  <2>2. PICK w \in 1..Len(ws) : t[j].node \in ws[w]
    BY DEF Covers
  <2>3. v < w \/ (v = w /\ t[i].node < t[j].node)
    BY <1>3, <2>1, <2>2 DEF Covers
  <2> QED
    BY <2>1, <2>2, <2>3
<1>4. ASSUME NEW i \in 1..Len(t), NEW j \in 1..Len(t), i < j PROVE t[i].node # t[j].node
  <2>1. PICK v \in 1..Len(ws), w \in 1..Len(ws) :
               /\ t[i].node \in ws[v] /\ t[j].node \in ws[w]
               /\ v < w \/ (v = w /\ t[i].node < t[j].node)
    BY <1>3, <1>4
  <2>2. CASE v < w
    <3>1. v # w
      BY <1>0, <2>2
    <3> QED
      BY <2>1, <3>1 DEF GoodWaves
  <2>3. CASE t[i].node < t[j].node
    BY <1>1, <2>3
  <2> QED
    BY <2>1, <2>2, <2>3
<1>5. \A i, j \in 1..Len(t) : t[i].node = t[j].node => i = j
  <2> SUFFICES ASSUME NEW i \in 1..Len(t), NEW j \in 1..Len(t), t[i].node = t[j].node PROVE i = j
    OBVIOUS
  <2>1. ~(i < j) /\ ~(j < i)
    BY <1>4
  <2> QED
    BY <2>1
<1>6. g \in Injection(1..Len(t), f.nodes)
  BY <1>1, <1>5 DEF Injection, IsInjective
<1>7. g \in Surjection(1..Len(t), f.nodes)
  <2>1. g \in [1..Len(t) -> f.nodes] /\ \A n \in f.nodes : \E i \in 1..Len(t) : g[i] = n
    BY <1>1, <1>2
  <2> HIDE DEF g
  <2> QED
    BY <2>1 DEF Surjection
<1>8. Cardinality(1..Len(t)) = Cardinality(f.nodes)
  <2> HIDE DEF g
  <2> QED
    BY <1>6, <1>7, FS_Injection
<1>9. Cardinality(1..Len(t)) = Len(t)
  <2> DEFINE a == Len(t)
  <2>1. a \in Nat /\ 1 \in Int /\ a \in Int
    BY <1>0
  <2> HIDE DEF a
  <2>2. Cardinality(1..a) = IF 1 > a THEN 0 ELSE a - 1 + 1
    BY <2>1, FS_Interval
  <2>3. Cardinality(1..a) = a
    BY <2>1, <2>2
  <2> QED
    BY <2>3 DEF a
<1> QED
  BY <1>2, <1>3, <1>8, <1>9

\* EngineInv holds before the flow is submitted.
LEMMA EngineInit == Init => EngineInv
<1> SUFFICES ASSUME Init PROVE EngineInv
  OBVIOUS
<1>1. Planned
  BY DEF Init, Planned
<1>2. InOneWave
  BY DEF Init, InOneWave
<1>3. Narrated
  BY DEF Init, Narrated
<1>4. TraceAccountsForAll
  BY DEF Init, TraceAccountsForAll
<1> QED
  BY <1>1, <1>2, <1>3, <1>4 DEF EngineInv

\* The flow is a finite graph over numbers.
LEMMA FlowFinite ==
  ASSUME Planned
  PROVE  flow.nodes \in SUBSET Nat /\ IsFiniteSet(flow.nodes)
BY EngineAssumption DEF Planned

\* Submitting a flow schedules it soundly, or refuses it.
LEMMA SubmitKeeps == EngineInv /\ Submit => EngineInv'
<1> SUFFICES ASSUME EngineInv, Submit PROVE EngineInv'
  OBVIOUS
<1> DEFINE ws == ScheduleWaves(flow)
<1>0. /\ UNCHANGED <<flow, wave, trace, ran, stuck>> /\ status = "submitted"
      /\ flow \in Flows /\ wave = 0 /\ trace = <<>> /\ ran = {} /\ stuck = {}
      /\ status' \in {"blocked", "walking", "between"}
  BY DEF Submit, EngineInv, Planned, Narrated
<1>1. flow.nodes \in SUBSET Nat /\ IsFiniteSet(flow.nodes)
  BY FlowFinite DEF EngineInv
<1>2. status' = "walking" => IsCyclic(flow)
  BY DEF Submit
<1>3. ASSUME status' = "between"
      PROVE  /\ ~IsCyclic(flow) /\ Dangling(flow) = {} /\ waves' = ws
             /\ GoodWaves(flow, ws) /\ ~FanOut(ws) /\ Len(ws) \in Nat
  <2>1. ~Blocked(flow) /\ ~IsCyclic(flow) /\ ~FanOut(ws) /\ waves' = ws
    BY <1>3 DEF Submit
  <2>2. Dangling(flow) = {}
    BY <2>1 DEF Blocked
  <2>3. GoodWaves(flow, ws)
    BY <1>1, <2>1, ScheduleGood
  <2> HIDE DEF ws
  <2>4. Len(ws) \in Nat
    BY <2>3 DEF GoodWaves
  <2> QED
    BY <2>1, <2>2, <2>3, <2>4
<1>4. IsCyclic(flow)' = IsCyclic(flow) /\ Dangling(flow)' = Dangling(flow)
  BY <1>0
<1> HIDE DEF ws
<1>5. status' = "between" => GoodWaves(flow, waves)' /\ FanOut(waves)' = FanOut(ws)
  BY <1>0, <1>3
<1>6. Planned'
  BY <1>0, <1>2, <1>3, <1>4, <1>5 DEF Planned
<1>7. InOneWave'
  BY <1>0 DEF InOneWave
<1>8. Narrated'
  BY <1>0 DEF Narrated, Covers
<1>9. TraceAccountsForAll'
  BY <1>0 DEF TraceAccountsForAll
<1> QED
  BY <1>6, <1>7, <1>8, <1>9 DEF EngineInv

\* A wave starts with the enabled nodes and no outcome.
LEMMA StartKeeps == EngineInv /\ StartWave => EngineInv'
<1> SUFFICES ASSUME EngineInv, StartWave PROVE EngineInv'
  OBVIOUS
<1>0. /\ UNCHANGED <<flow, waves, wave, trace, ran, stuck>> /\ status = "between" /\ status' = "running"
      /\ wave < Len(waves) /\ running' \subseteq waves[wave + 1]
      /\ outcome' = [n \in flow.nodes |-> NoResult]
  BY DEF StartWave
<1>1. /\ IsCyclic(flow)' = IsCyclic(flow) /\ Dangling(flow)' = Dangling(flow)
      /\ GoodWaves(flow, waves)' = GoodWaves(flow, waves) /\ FanOut(waves)' = FanOut(waves)
  BY <1>0
<1>2. Planned'
  BY <1>0, <1>1 DEF EngineInv, Planned
<1>3. InOneWave'
  BY <1>0 DEF InOneWave
<1>4. Narrated'
  <2>1. \A n : Reports(trace, n)' = Reports(trace, n)
    BY <1>0 DEF Reports
  <2>2. Covers(waves, wave, trace)' = Covers(waves, wave, trace)
    BY <1>0 DEF Covers
  <2> QED
    BY <1>0, <2>1, <2>2 DEF EngineInv, Narrated
<1>5. TraceAccountsForAll'
  BY <1>0 DEF TraceAccountsForAll
<1> QED
  BY <1>2, <1>3, <1>4, <1>5 DEF EngineInv

\* A goroutine that returns stays in its wave, and if it called its executor it
\* has an outcome.
LEMMA ReturnKeeps ==
  ASSUME SoundInv, EngineInv, NEW n \in flow.nodes, NodeReturns(n)
  PROVE  EngineInv'
<1>0. /\ UNCHANGED <<flow, status, waves, wave, trace, stuck>> /\ status = "running"
      /\ n \in running \ stuck /\ running' = running \ {n} /\ ran' \in {ran, ran \cup {n}}
  BY DEF NodeReturns
<1>1. PICK r \in Possible(n) \cup {Error} : outcome' = [outcome EXCEPT ![n] = r]
  BY DEF NodeReturns, Possible
<1>2. r # NoResult
  BY PossibleIsResult, EngineAssumption
<1>3. /\ \A m \in flow.nodes : m # n => outcome'[m] = outcome[m]
      /\ outcome'[n] # NoResult
  <2>1. DOMAIN outcome = flow.nodes
    BY DEF SoundInv, ResultsTyped
  <2> QED
    BY <1>1, <1>2, <2>1
<1>4. /\ IsCyclic(flow)' = IsCyclic(flow) /\ Dangling(flow)' = Dangling(flow)
      /\ GoodWaves(flow, waves)' = GoodWaves(flow, waves) /\ FanOut(waves)' = FanOut(waves)
      /\ Covers(waves, wave, trace)' = Covers(waves, wave, trace)
      /\ \A m : Reports(trace, m)' = Reports(trace, m)
  BY <1>0 DEF Covers, Reports
<1>5. Planned'
  BY <1>0, <1>4 DEF EngineInv, Planned
<1>6. InOneWave'
  <2>1. n \in waves[wave + 1]
    BY <1>0 DEF EngineInv, InOneWave
  <2>2. \A m \in flow.nodes : outcome'[m] # NoResult => m \in waves[wave + 1]
    BY <1>0, <1>3, <2>1 DEF EngineInv, InOneWave
  <2>3. running' \subseteq waves[wave + 1]
    BY <1>0 DEF EngineInv, InOneWave
  <2> QED
    BY <1>0, <2>2, <2>3 DEF InOneWave
<1>7. Narrated'
  <2>1. ran' \subseteq flow.nodes
    BY <1>0 DEF EngineInv, Narrated
  <2>2. \A m \in ran' : Reports(trace, m) \/ outcome'[m] # NoResult \/ m \in stuck
    BY <1>0, <1>3, <2>1 DEF EngineInv, Narrated
  <2>3. stuck' \subseteq running'
    BY <1>0 DEF EngineInv, Narrated
  <2> QED
    BY <1>0, <1>4, <2>1, <2>2, <2>3 DEF EngineInv, Narrated
<1>8. TraceAccountsForAll'
  BY <1>0 DEF TraceAccountsForAll
<1> QED
  BY <1>5, <1>6, <1>7, <1>8 DEF EngineInv

\* Untraced nodes are those that ran and are not reported.
LEMMA UntracedIs == \A n : n \in Untraced <=> n \in ran /\ ~Reports(trace, n)
BY DEF Untraced, ExecutedEvents, Reports

\* A flow of waves ends with a trace of all waves, or was cancelled between two.
LEMMA FinishWavesKeeps == EngineInv /\ FinishWaves => EngineInv'
<1> SUFFICES ASSUME EngineInv, FinishWaves PROVE EngineInv'
  OBVIOUS
<1>0. /\ UNCHANGED <<flow, waves, wave, trace, ran, stuck, running>> /\ status = "between"
      /\ status' \in {"ok", "cancelled"} /\ (status' = "ok" => wave = Len(waves))
  BY DEF FinishWaves
<1>1. Planned' /\ InOneWave'
  BY <1>0 DEF EngineInv, Planned, InOneWave
<1>2. Narrated'
  BY <1>0 DEF EngineInv, Narrated
<1>3. Untraced' = {}
  <2>1. Untraced = {}
    BY <1>0, UntracedIs DEF EngineInv, Narrated
  <2> QED
    BY <1>0, <2>1 DEF Untraced, ExecutedEvents
<1>4. ASSUME status' = "ok"
      PROVE  /\ Len(trace) = Cardinality(flow.nodes)
             /\ \A n \in flow.nodes : \E i \in 1..Len(trace) : trace[i].node = n
             /\ \A i, j \in 1..Len(trace) : i < j =>
                  \E v, w \in 1..Len(waves) :
                    /\ trace[i].node \in waves[v] /\ trace[j].node \in waves[w]
                    /\ v < w \/ (v = w /\ trace[i].node < trace[j].node)
  <2>1. flow.nodes \in SUBSET Nat /\ IsFiniteSet(flow.nodes)
    BY FlowFinite DEF EngineInv
  <2>2. GoodWaves(flow, waves) /\ trace \in Seq(EventSet(flow.nodes)) /\ Covers(waves, Len(waves), trace)
    BY <1>0, <1>4 DEF EngineInv, Planned, Narrated
  <2> QED
    BY <2>1, <2>2, CoversAll
<1>5. TraceAccountsForAll'
  BY <1>0, <1>3, <1>4 DEF TraceAccountsForAll
<1> QED
  BY <1>1, <1>2, <1>3, <1>5 DEF EngineInv

\* The walk tells every visit.
LEMMA WalkKeeps == EngineInv /\ SoundInv /\ (WalkStep \/ FinishWalk) => EngineInv'
<1> SUFFICES ASSUME EngineInv, SoundInv, WalkStep \/ FinishWalk PROVE EngineInv'
  OBVIOUS
<1>0. /\ UNCHANGED <<flow, waves, stuck, running>> /\ status = "walking" /\ stuck = {}
      /\ wave' \in {wave, wave + 1} /\ wave \in Nat /\ flow \in Flows /\ IsCyclic(flow)
      /\ status' \in {"walking", "escalated", "failed", "max_visits", "cancelled", "ok"}
  BY DEF WalkStep, FinishWalk, EngineInv, Planned
<1>1. IsCyclic(flow)' = IsCyclic(flow)
  BY <1>0
<1>2. Planned' /\ InOneWave'
  BY <1>0, <1>1 DEF Planned, InOneWave
<1>3. ASSUME trace' \in Seq(EventSet(flow.nodes)), ran' \subseteq flow.nodes,
             IF status' = "failed" THEN trace' = <<>> ELSE \A n \in ran' : Reports(trace', n)
      PROVE  EngineInv'
  <2>1. \A n : Reports(trace, n)' = Reports(trace', n)
    BY DEF Reports
  <2>2. Narrated'
    BY <1>0, <1>3, <2>1 DEF Narrated
  <2>3. status' # "failed" => Untraced' = {}
    BY <1>3 DEF Untraced, ExecutedEvents, Reports
  <2>4. TraceAccountsForAll'
    BY <1>0, <1>1, <1>3, <2>3 DEF TraceAccountsForAll
  <2> QED
    BY <1>2, <2>2, <2>4 DEF EngineInv
<1>4. trace \in Seq(EventSet(flow.nodes)) /\ ran \subseteq flow.nodes /\ \A n \in ran : Reports(trace, n)
  BY <1>0 DEF EngineInv, Narrated
<1>5. CASE FinishWalk
  BY <1>3, <1>4, <1>5 DEF FinishWalk
<1>6. CASE WalkStep
  <2>1. PICK n \in Selected :
          \/ /\ ran' = ran \cup {n} /\ status' # "failed"
             /\ trace' = Append(trace, [node |-> n, decision |-> "executed"])
          \/ status' = "failed" /\ ran' \in {ran, ran \cup {n}} /\ trace' = <<>>
    BY <1>6 DEF WalkStep
  <2>2. n \in flow.nodes
    BY SelectedHasVisitsLeft
  <2>3. CASE status' = "failed" /\ ran' \in {ran, ran \cup {n}} /\ trace' = <<>>
    <3>1. trace' \in Seq(EventSet(flow.nodes)) /\ ran' \subseteq flow.nodes
      BY <1>4, <2>2, <2>3
    <3> QED
      BY <1>3, <2>3, <3>1
  <2>4. CASE /\ ran' = ran \cup {n} /\ status' # "failed"
             /\ trace' = Append(trace, [node |-> n, decision |-> "executed"])
    <3> DEFINE ev == [node |-> n, decision |-> "executed"]
    <3>1. ev \in EventSet(flow.nodes) /\ ev.node = n /\ ev.decision = "executed"
      BY <2>2 DEF EventSet
    <3> HIDE DEF ev
    <3>2. /\ trace' \in Seq(EventSet(flow.nodes)) /\ Len(trace) \in Nat /\ Len(trace') = Len(trace) + 1
          /\ trace'[Len(trace) + 1] = ev /\ \A i \in 1..Len(trace) : trace'[i] = trace[i]
      BY <1>4, <2>4, <3>1 DEF ev
    <3>3. Reports(trace', n)
      <4>1. Len(trace) + 1 \in 1..Len(trace')
        BY <3>2
      <4> QED
        BY <3>1, <3>2, <4>1 DEF Reports
    <3>4. ASSUME NEW m \in ran PROVE Reports(trace', m)
      <4>1. PICK i \in 1..Len(trace) : trace[i].node = m /\ trace[i].decision = "executed"
        BY <1>4, <3>4 DEF Reports
      <4>2. i \in 1..Len(trace') /\ trace'[i] = trace[i]
        BY <3>2
      <4> QED
        BY <4>1, <4>2 DEF Reports
    <3> QED
      BY <1>3, <1>4, <2>2, <2>4, <3>2, <3>3, <3>4
  <2> QED
    BY <2>1, <2>3, <2>4
<1> QED
  BY <1>5, <1>6

\* Taking the outcomes of a wave tells the whole wave, or stops at the least
\* node that stops the flow and hides only what is behind it.
LEMMA CollectKeeps == EngineInv /\ SoundInv /\ Collect => EngineInv'
<1> SUFFICES ASSUME EngineInv, SoundInv, Collect PROVE EngineInv'
  OBVIOUS
<1> DEFINE active == {n \in flow.nodes : outcome[n] # NoResult}
           stops == {n \in active : outcome[n] = Error \/ PolicyStops(outcome[n])}
           upto == {n \in active : \A m \in stops : n <= m}
           failed == \E n \in upto : outcome[n] = Error
           taken == {n \in upto : outcome[n] # Error}
           here == waves[wave + 1]
           skipped == here \ active
           told == taken \cup skipped
           ev == Events(told, skipped)
<1>0. /\ UNCHANGED <<flow, waves, outcome, ran, stuck, running>> /\ status = "running" /\ wave' = wave + 1
      /\ running = {}
      /\ trace' = IF failed THEN trace ELSE trace \o ev
      /\ status' = IF failed THEN "failed" ELSE IF stops # {} THEN "escalated" ELSE "between"
  BY DEF Collect
<1>1. flow.nodes \in SUBSET Nat /\ IsFiniteSet(flow.nodes)
  BY FlowFinite DEF EngineInv
<1>2. /\ flow \in Flows /\ ~IsCyclic(flow) /\ Dangling(flow) = {} /\ ~FanOut(waves)
      /\ GoodWaves(flow, waves) /\ wave \in Nat /\ wave < Len(waves)
  BY <1>0 DEF EngineInv, Planned
<1>3. waves \in Seq(SUBSET flow.nodes) /\ Len(waves) \in Nat
  BY <1>2 DEF GoodWaves
<1>4. wave + 1 \in 1..Len(waves) /\ here \subseteq flow.nodes /\ wave \in 0..(Len(waves) - 1)
  BY <1>2, <1>3
<1>5. active \subseteq here
  BY <1>0 DEF EngineInv, InOneWave
<1>6. /\ trace \in Seq(EventSet(flow.nodes)) /\ ran \subseteq flow.nodes
      /\ Covers(waves, wave, trace)
      /\ \A n \in ran : Reports(trace, n) \/ n \in active
      /\ stuck = {}
  BY <1>0 DEF EngineInv, Narrated
<1>7. told \subseteq here /\ told \in SUBSET Nat /\ IsFiniteSet(told)
  <2>1. told \subseteq here /\ told \subseteq flow.nodes
    BY <1>4, <1>5
  <2> HIDE DEF told
  <2> QED
    BY <1>1, <2>1, FS_Subset
<1>8. /\ taken \subseteq upto /\ upto \subseteq active /\ stops \subseteq active
      /\ ~failed => taken = upto
      /\ stops = {} => upto = active /\ ~failed
      /\ \A n \in taken : n \in told /\ n \notin skipped
      /\ stops = {} /\ active \subseteq here => told = here
  OBVIOUS
<1>9. /\ ev \in Seq(EventSet(told))
      /\ \A n \in told : n \notin skipped => Reports(ev, n)
  <2> HIDE DEF told, skipped
  <2>1. /\ ev \in Seq(EventSet(told))
        /\ \A x \in told : \E i \in 1..Len(ev) :
             ev[i].node = x /\ (x \notin skipped => ev[i].decision = "executed")
    BY <1>7, EventsOf
  <2> HIDE DEF ev
  <2> QED
    BY <2>1 DEF Reports
<1>10. \A n \in upto : n \in active /\ \A m \in stops : n <= m
  OBVIOUS
<1>11. \A n \in active : n \notin upto => \E m \in stops : ~(n <= m)
  OBVIOUS
<1>12. \A n \in active : (\A m \in stops : n <= m) => n \in upto
  OBVIOUS
<1>13. active \subseteq flow.nodes
  OBVIOUS
<1> HIDE DEF active, stops, upto, failed, taken, skipped, told, ev, here
<1>14. ev \in Seq(EventSet(flow.nodes))
  <2>1. EventSet(told) \subseteq EventSet(flow.nodes)
    BY <1>4, <1>7 DEF EventSet
  <2> QED
    BY <1>9, <2>1
<1>15. trace' \in Seq(EventSet(flow.nodes))
  <2> DEFINE E == EventSet(flow.nodes)
  <2>1. trace \in Seq(E) /\ ev \in Seq(E)
    BY <1>6, <1>14
  <2> HIDE DEF E
  <2>2. trace \o ev \in Seq(E)
    BY <2>1
  <2>3. trace' = trace \/ trace' = trace \o ev
    BY <1>0
  <2>4. trace' \in Seq(E)
    BY <2>1, <2>2, <2>3
  <2> QED
    BY <2>4 DEF E
<1>16. ASSUME ~failed, NEW n, Reports(trace, n) \/ n \in taken PROVE Reports(trace', n)
  <2>1. trace' = trace \o ev
    BY <1>0, <1>16
  <2>2. Reports(trace, n) \/ Reports(ev, n)
    BY <1>8, <1>9, <1>16
  <2> QED
    BY <1>6, <1>14, <2>1, <2>2, ReportsAppended
<1>17. \A n : Reports(trace, n)' = Reports(trace', n)
  BY DEF Reports
<1>18. status' # "running" /\ status' # "submitted" /\ status' # "walking"
  BY <1>0
<1>19. CASE failed
  <2>1. status' = "failed" /\ trace' = trace
    BY <1>0, <1>19
  <2>2. Planned' /\ InOneWave'
    BY <1>0, <1>2, <2>1 DEF Planned, InOneWave
  <2>3. Narrated'
    BY <1>0, <1>6, <1>15, <2>1 DEF Narrated
  <2>4. Untraced' \subseteq waves[wave + 1]
    <3>1. \A n : n \in Untraced' <=> n \in ran' /\ ~Reports(trace', n)
      BY DEF Untraced, ExecutedEvents, Reports
    <3> QED
      BY <1>0, <1>5, <1>6, <2>1, <3>1 DEF here
  <2>5. ASSUME NEW n \in flow.nodes
        PROVE  (\E i \in 1..Len(trace) : trace[i].node = n)
                  <=> \E v \in 1..(wave + 1 - 1) : n \in waves[v]
    <3>1. wave + 1 - 1 = wave
      BY <1>2
    <3>2. ASSUME NEW i \in 1..Len(trace), trace[i].node = n PROVE \E v \in 1..wave : n \in waves[v]
      BY <1>6, <3>2 DEF Covers
    <3>3. ASSUME NEW v \in 1..wave, n \in waves[v] PROVE \E i \in 1..Len(trace) : trace[i].node = n
      BY <1>6, <3>3 DEF Covers
    <3> QED
      BY <3>1, <3>2, <3>3
  <2>6. IsCyclic(flow)' = IsCyclic(flow)
    BY <1>0
  <2>7. \E w \in 1..Len(waves) :
              /\ Untraced' \subseteq waves[w]
              /\ \A n \in flow.nodes : (\E i \in 1..Len(trace) : trace[i].node = n)
                                         <=> \E v \in 1..(w - 1) : n \in waves[v]
    BY <1>4, <2>4, <2>5
  <2>8. TraceAccountsForAll'
    BY <1>0, <1>2, <2>1, <2>6, <2>7 DEF TraceAccountsForAll
  <2> QED
    BY <2>2, <2>3, <2>8 DEF EngineInv
<1>20. CASE ~failed /\ stops = {}
  <2>1. status' = "between" /\ trace' = trace \o ev /\ told = here
    BY <1>0, <1>5, <1>8, <1>20
  <2>2. Covers(waves, wave + 1, trace')
    <3>1. ev = Events(waves[wave + 1], skipped)
      BY <2>1 DEF ev, here
    <3>2. Covers(waves, wave + 1, trace \o Events(waves[wave + 1], skipped))
      BY <1>1, <1>2, <1>4, <1>6, CoversNext
    <3> QED
      BY <2>1, <3>1, <3>2
  <2>3. \A n \in ran : Reports(trace', n)
    BY <1>6, <1>8, <1>16, <1>20
  <2>4. /\ IsCyclic(flow)' = IsCyclic(flow) /\ Dangling(flow)' = Dangling(flow)
        /\ GoodWaves(flow, waves)' = GoodWaves(flow, waves) /\ FanOut(waves)' = FanOut(waves)
        /\ Covers(waves, wave, trace)' = Covers(waves, wave + 1, trace')
    BY <1>0 DEF Covers
  <2>5. wave' \in Nat /\ wave' <= Len(waves)
    BY <1>0, <1>2, <1>3
  <2>6. Planned'
    BY <1>0, <1>2, <2>1, <2>4, <2>5 DEF Planned
  <2>7. InOneWave'
    BY <2>1 DEF InOneWave
  <2>8. Narrated'
    BY <1>0, <1>6, <1>15, <1>17, <2>1, <2>2, <2>3, <2>4 DEF Narrated
  <2>9. TraceAccountsForAll'
    BY <2>1 DEF TraceAccountsForAll
  <2> QED
    BY <2>6, <2>7, <2>8, <2>9 DEF EngineInv
<1>21. CASE ~failed /\ stops # {}
  <2>1. status' = "escalated"
    BY <1>0, <1>21
  <2>2. Planned' /\ InOneWave'
    BY <1>0, <1>2, <2>1 DEF Planned, InOneWave
  <2>3. Narrated'
    BY <1>0, <1>6, <1>15, <2>1 DEF Narrated
  <2>4. stops \in SUBSET Nat /\ active \in SUBSET Nat
    BY <1>1, <1>8, <1>13
  <2>5. PICK s \in stops : \A m \in stops : s <= m
    BY <1>21, <2>4, LeastOf
  <2>6. s \in taken /\ s \in here
    BY <1>5, <1>8, <1>12, <1>21, <2>5
  <2>7. PICK i \in 1..Len(trace') : trace'[i].node = s /\ trace'[i].decision = "executed"
    <3>1. Reports(trace', s)
      BY <1>16, <1>21, <2>6
    <3> QED
      BY <3>1 DEF Reports
  <2>8. ASSUME NEW n \in ran, ~Reports(trace', n) PROVE n \in here /\ s < n
    <3>1. n \in active /\ n \notin upto
      BY <1>6, <1>8, <1>16, <1>21, <2>8
    <3>2. PICK m \in stops : ~(n <= m)
      BY <1>11, <3>1
    <3>3. s <= m /\ s \in Nat /\ m \in Nat /\ n \in Nat
      BY <2>4, <2>5, <3>1, <3>2
    <3> QED
      BY <1>5, <3>1, <3>2, <3>3
  <2>9. \A n : n \in Untraced' <=> n \in ran' /\ ~Reports(trace', n)
    BY DEF Untraced, ExecutedEvents, Reports
  <2>10. i \in ExecutedEvents'
    BY <2>7 DEF ExecutedEvents
  <2>11. ASSUME NEW n \in Untraced'
         PROVE  \E j \in ExecutedEvents', w \in 1..Len(waves') :
                  {n, trace'[j].node} \subseteq waves'[w] /\ trace'[j].node < n
    <3>1. n \in here /\ s < n
      BY <1>0, <2>8, <2>9, <2>11
    <3>2. {n, trace'[i].node} \subseteq waves'[wave + 1] /\ trace'[i].node < n /\ wave + 1 \in 1..Len(waves')
      BY <1>0, <1>4, <2>6, <2>7, <3>1 DEF here
    <3> QED
      BY <2>10, <3>2
  <2>12. TraceAccountsForAll'
    BY <2>1, <2>11 DEF TraceAccountsForAll
  <2> QED
    BY <2>2, <2>3, <2>12 DEF EngineInv
<1> QED
  BY <1>19, <1>20, <1>21

\* Every step of the engine keeps EngineInv.
LEMMA EngineNext == EngineInv /\ SoundInv /\ [Next]_vars => EngineInv'
<1> SUFFICES ASSUME EngineInv, SoundInv, [Next]_vars PROVE EngineInv'
  OBVIOUS
<1>1. CASE \E n \in flow.nodes : NodeReturns(n)
  BY <1>1, ReturnKeeps
<1>2. CASE Cancel \/ UNCHANGED vars
  <2>1. UNCHANGED <<flow, status, waves, wave, running, outcome, trace, ran, stuck>>
    BY <1>2 DEF Cancel, vars
  <2>2. /\ IsCyclic(flow)' = IsCyclic(flow) /\ Dangling(flow)' = Dangling(flow)
        /\ GoodWaves(flow, waves)' = GoodWaves(flow, waves) /\ FanOut(waves)' = FanOut(waves)
        /\ Covers(waves, wave, trace)' = Covers(waves, wave, trace)
        /\ \A m : Reports(trace, m)' = Reports(trace, m)
    BY <2>1 DEF Covers, Reports
  <2>3. Planned' /\ InOneWave'
    BY <2>1, <2>2 DEF EngineInv, Planned, InOneWave
  <2>4. Narrated'
    BY <2>1, <2>2 DEF EngineInv, Narrated
  <2>5. Untraced' = Untraced /\ ExecutedEvents' = ExecutedEvents
    BY <2>1 DEF Untraced, ExecutedEvents
  <2>6. TraceAccountsForAll'
    BY <2>1, <2>2, <2>5 DEF EngineInv, TraceAccountsForAll
  <2> QED
    BY <2>3, <2>4, <2>6 DEF EngineInv
<1>3. CASE Blocks
  <2> DEFINE Stands(S) ==
               /\ UNCHANGED <<flow, status, waves, wave, outcome, trace>> /\ ran' = ran \cup S
               /\ \/ status = "running" /\ running' = running /\ S \subseteq running /\ stuck' = stuck \cup S
                  \/ status = "walking" /\ running' = S /\ stuck' = S /\ stuck = {}
  <2>1. PICK S \in SUBSET flow.nodes : Stands(S)
    <3>1. CASE WalkBlocks
      <4>1. Selected \in SUBSET flow.nodes
        BY DEF Selected
      <4>2. Stands(Selected)
        BY <3>1 DEF WalkBlocks
      <4> QED
        BY <4>1, <4>2
    <3>2. CASE \E n \in flow.nodes : NodeBlocks(n)
      <4>1. PICK n \in flow.nodes : NodeBlocks(n)
        BY <3>2
      <4>2. Stands({n})
        BY <4>1 DEF NodeBlocks
      <4> QED
        BY <4>2
    <3> QED
      BY <1>3, <3>1, <3>2 DEF Blocks
  <2>2. /\ IsCyclic(flow)' = IsCyclic(flow) /\ Dangling(flow)' = Dangling(flow)
        /\ GoodWaves(flow, waves)' = GoodWaves(flow, waves) /\ FanOut(waves)' = FanOut(waves)
        /\ Covers(waves, wave, trace)' = Covers(waves, wave, trace)
        /\ \A m : Reports(trace, m)' = Reports(trace, m)
    BY <2>1 DEF Covers, Reports
  <2>3. Planned' /\ InOneWave'
    BY <2>1, <2>2 DEF EngineInv, Planned, InOneWave
  <2>4. Narrated'
    BY <2>1, <2>2 DEF EngineInv, Narrated
  <2>5. TraceAccountsForAll'
    BY <2>1 DEF TraceAccountsForAll
  <2> QED
    BY <2>3, <2>4, <2>5 DEF EngineInv
<1> QED
  BY <1>1, <1>2, <1>3, SubmitKeeps, StartKeeps, FinishWavesKeeps, WalkKeeps, CollectKeeps DEF Next, Steps

\* Both invariants hold together.
LEMMA EngineHolds == Spec => [](EngineInv /\ SoundInv)
BY EngineInit, EngineNext, SoundInit, SoundNext, PTL DEF Spec

\* The trace of a completed flow of waves accounts for every node exactly once in
\* the order of waves and ids; other ends account for every executor called, but
\* for the nodes behind an escalation in its own wave, for the whole wave that
\* fails, and for a walk that fails, which has no trace (engine.go, Execute,
\* executeBoundedCycle), in every flow.
THEOREM TraceComplete == Spec => []TraceAccountsForAll
<1>1. EngineInv => TraceAccountsForAll
  BY DEF EngineInv
<1> QED BY <1>1, EngineHolds, PTL

\* The goroutines in flight together write disjoint paths, do not depend on one
\* another, are never more than the cap, and run behind all their predecessors
\* (graph.go, ScheduleWaves), in every flow the lint lets through.
THEOREM IndependentWaves == Spec => []WaveIsIndependent
<1>1. EngineInv => WaveIsIndependent
  <2> SUFFICES ASSUME EngineInv PROVE WaveIsIndependent
    OBVIOUS
  <2>1. CASE status # "running"
    <3>1. InFlight = {}
      BY <2>1 DEF InFlight
    <3>2. Cardinality(InFlight) = 0 /\ MaxWaveWidth \in Nat
      BY <3>1, FS_EmptySet, FlowAssumption
    <3>3. Cardinality(InFlight) <= MaxWaveWidth
      BY <3>2
    <3> QED
      BY <3>1, <3>3 DEF WaveIsIndependent
  <2>2. CASE status = "running"
    <3> DEFINE here == waves[wave + 1]
    <3>1. flow.nodes \in SUBSET Nat /\ IsFiniteSet(flow.nodes)
      BY FlowFinite DEF EngineInv
    <3>2. /\ Dangling(flow) = {} /\ GoodWaves(flow, waves) /\ ~FanOut(waves)
          /\ wave \in Nat /\ wave < Len(waves) /\ Covers(waves, wave, trace)
      BY <2>2 DEF EngineInv, Planned, Narrated
    <3>3. waves \in Seq(SUBSET flow.nodes) /\ Len(waves) \in Nat
      BY <3>2 DEF GoodWaves
    <3>4. wave + 1 \in 1..Len(waves) /\ here \subseteq flow.nodes
      BY <3>2, <3>3
    <3>5. InFlight \subseteq here
      BY <2>2 DEF EngineInv, InOneWave, InFlight
    <3>6. Cardinality(InFlight) <= MaxWaveWidth
      <4>1. ~(Cardinality(here) > MaxWaveWidth)
        BY <3>2, <3>4 DEF FanOut
      <4>2. IsFiniteSet(here)
        BY <3>1, <3>4, FS_Subset
      <4>3. IsFiniteSet(InFlight) /\ Cardinality(InFlight) <= Cardinality(here)
        BY <3>5, <4>2, FS_Subset
      <4>4. Cardinality(InFlight) \in Nat /\ Cardinality(here) \in Nat /\ MaxWaveWidth \in Nat
        BY <4>2, <4>3, FS_CardinalityType, FlowAssumption
      <4> QED
        BY <4>1, <4>3, <4>4
    <3>7. ASSUME NEW m \in InFlight, NEW n \in InFlight, m # n
          PROVE  ~ListsConflict(flow.scope[m], flow.scope[n]) /\ ~Reaches(flow, m, n)
      <4>1. m \in waves[wave + 1] /\ n \in waves[wave + 1]
        BY <3>5
      <4>2. ~ListsConflict(flow.scope[m], flow.scope[n])
        BY <3>2, <3>4, <3>7, <4>1 DEF GoodWaves
      <4>3. ASSUME Reaches(flow, m, n) PROVE FALSE
        <5>1. wave + 1 < wave + 1
          BY <3>1, <3>2, <3>4, <4>1, <4>3, ReachesLater
        <5> QED
          BY <3>2, <5>1
      <4> QED
        BY <4>2, <4>3
    <3>8. ASSUME NEW n \in InFlight, NEW m \in Preds(flow, n)
          PROVE  \E i \in 1..Len(trace) : trace[i].node = m
      <4>1. m \in flow.nodes
        BY <3>2 DEF Preds, Dangling
      <4>2. PICK w \in 1..Len(waves) : m \in waves[w]
        BY <3>2, <4>1 DEF GoodWaves
      <4>3. w < wave + 1
        BY <3>2, <3>4, <3>5, <4>2 DEF GoodWaves
      <4>4. w \in 1..wave
        BY <3>2, <4>3
      <4> QED
        BY <3>2, <4>2, <4>4 DEF Covers
    <3> QED
      BY <3>6, <3>7, <3>8 DEF WaveIsIndependent
  <2> QED
    BY <2>1, <2>2
<1> QED BY <1>1, EngineHolds, PTL
=============================================================================
