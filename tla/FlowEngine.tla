----------------------------- MODULE FlowEngine -----------------------------
(***************************************************************************)
(* The execution of a flow: Execute and executeBoundedCycle of             *)
(* internal/capability/orchestration/engine.go over the node executor of   *)
(* tool.go.  The nodes of a wave run in goroutines and return in any order;*)
(* their outcomes are taken in the order of their ids after all returned.  *)
(* A flow with a cycle is walked one node at a time instead.               *)
(*                                                                         *)
(* A result is a verdict and a policy; outputs, opinions and references    *)
(* between nodes are data, and a reference that cannot be resolved is an   *)
(* error of the node.                                                      *)
(***************************************************************************)
EXTENDS FlowGraph

CONSTANTS
  Flows,      \* the flows that may be submitted
  NoResult,   \* absent value
  Error       \* outcome of a node that returned an error

VARIABLES
  flow,      \* the flow submitted
  status,    \* where the execution is, or the status of the FlowResult
  waves,     \* the waves of the schedule, sets of nodes; empty for a cycle
  wave,      \* index of the next wave, or of the one running
  running,   \* nodes whose goroutine has not returned
  outcome,   \* what the returned nodes of the wave sent to outcomes
  results,   \* the results map
  visits,    \* the visits map; 1 for an executed node of a wave
  trace,     \* FlowResult.Trace: the node and the decision of every event
  ctxDone,   \* the context has ended
  stuck,     \* nodes whose executor will never return
  ran        \* nodes whose executor was called (history)

vars == <<flow, status, waves, wave, running, outcome, results, visits, trace, ctxDone, stuck, ran>>

Results == [verdict : Verdicts \cup {""}, policy : {"", "pass", "blocked", "require_approval"}]

ASSUME EngineAssumption ==
  /\ \A f \in Flows :
       /\ f.nodes \subseteq Nat /\ IsFiniteSet(f.nodes)
       /\ f.max \in [f.nodes -> Int]
       /\ \A e \in f.edges : Condition(e)
  /\ NoResult \notin Results /\ Error \notin Results /\ NoResult # Error

\* "max_visits" is a failed flow with the finding of that name.
Final == {"blocked", "failed", "max_visits", "ok", "escalated", "cancelled"}
Policy(p) == [verdict |-> "", policy |-> p]

\* A lane that RouteNode refuses: the node does not run.
Refused == Policy("")

\* policyForVerify; a blocked verdict comes with status blocked.
PolicyForVerify(v) == IF v \in {"pass", "blocked"} THEN v ELSE "require_approval"

\* executeNode: what a call of the executor may return, errors apart.
Executed(n) ==
  {r \in Results :
     \/ flow.uses[n] = "verify" /\ r.verdict # "" /\ r.policy = PolicyForVerify(r.verdict)
     \/ flow.uses[n] = "review" /\ r.verdict = "" /\ r.policy # ""
     \/ flow.uses[n] \notin {"verify", "review"} /\ r.verdict = "" /\ r.policy \in {"pass", "blocked"}}

\* edgeDecision: the condition of some edge from a node with a result holds.
Matches(e) ==
  /\ results[e.from] # NoResult
  /\ \/ e.field = "default"
     \/ e.field = "verdict" /\ results[e.from].verdict = e.value
     \/ e.field = "policy" /\ results[e.from].policy = e.value

Enabled(n) == Incoming(flow, n) = {} \/ \E e \in Incoming(flow, n) : Matches(e)

\* Mutant: a require_approval does not stop the flow.
PolicyStopsOnBlocked(r) == r.policy = "blocked"

PolicyStops(r) == r.policy \in {"blocked", "require_approval"}

\* The elements of a set of ids in ascending order: x has as many before it as
\* there are smaller ones.
Rank(S, x) == Cardinality({y \in S : y < x})
Sorted(S) == [i \in 1..Cardinality(S) |-> CHOOSE x \in S : Rank(S, x) = i - 1]

\* Mutant: nodes that are not active leave no event.
EventsOfActive(S, skipped) ==
  LET s == Sorted(S \ skipped)
  IN  [i \in 1..Len(s) |-> [node |-> s[i], decision |-> "executed"]]

Events(S, skipped) ==
  LET s == Sorted(S)
  IN  [i \in 1..Len(s) |-> [node |-> s[i],
                            decision |-> IF s[i] \in skipped THEN "skipped" ELSE "executed"]]

----------------------------------------------------------------------------
(* Waves *)

Submit ==
  /\ status = "submitted"
  /\ status' = IF Blocked(flow) THEN "blocked"
               ELSE IF IsCyclic(flow) THEN "walking"
               ELSE IF FanOut(ScheduleWaves(flow)) THEN "blocked" ELSE "between"
  /\ waves' = IF Blocked(flow) \/ IsCyclic(flow) THEN <<>> ELSE ScheduleWaves(flow)
  /\ UNCHANGED <<flow, wave, running, outcome, results, visits, trace, ctxDone, stuck, ran>>

StartWave ==
  /\ status = "between" /\ ~ctxDone /\ wave < Len(waves)
  /\ status' = "running"
  /\ running' = {n \in waves[wave + 1] : Enabled(n)}
  /\ outcome' = [n \in flow.nodes |-> NoResult]
  /\ UNCHANGED <<flow, waves, wave, results, visits, trace, ctxDone, stuck, ran>>

FinishWaves ==
  /\ status = "between"
  /\ \/ ctxDone /\ wave < Len(waves) /\ status' = "cancelled"
     \/ wave = Len(waves) /\ status' = "ok"
  /\ UNCHANGED <<flow, waves, wave, running, outcome, results, visits, trace, ctxDone, stuck, ran>>

\* Mutant: the goroutine of a refused node returns without wait.Done().
NodeReturnsNoDone(n) ==
  /\ status = "running" /\ n \in running /\ outcome[n] = NoResult
  /\ \/ /\ flow.lane[n] # ""
        /\ outcome' = [outcome EXCEPT ![n] = Refused]
        /\ UNCHANGED <<ran, running>>
     \/ /\ \E r \in Executed(n) \cup {Error} : outcome' = [outcome EXCEPT ![n] = r]
        /\ ran' = ran \cup {n}
        /\ running' = running \ {n}
  /\ UNCHANGED <<flow, status, waves, wave, results, visits, trace, ctxDone, stuck>>

\* A goroutine: resolve the references, route the lane, call the executor.
NodeReturns(n) ==
  /\ status = "running" /\ n \in running \ stuck
  /\ running' = running \ {n}
  /\ \/ /\ flow.lane[n] # ""
        /\ outcome' = [outcome EXCEPT ![n] = Refused]
        /\ UNCHANGED ran
     \/ /\ outcome' = [outcome EXCEPT ![n] = Error]   \* unresolved reference
        /\ UNCHANGED ran
     \/ /\ \E r \in Executed(n) \cup {Error} : outcome' = [outcome EXCEPT ![n] = r]
        /\ ran' = ran \cup {n}
  /\ UNCHANGED <<flow, status, waves, wave, results, visits, trace, ctxDone, stuck>>

\* The executor is called and never returns: its verification waits for an output
\* that a process outside its commands' groups holds, or its operation for
\* runs.lock, which does not look at the context.
NodeBlocks(n) ==
  /\ status = "running" /\ n \in running \ stuck
  /\ stuck' = stuck \cup {n}
  /\ ran' = ran \cup {n}
  /\ UNCHANGED <<flow, status, waves, wave, running, outcome, results, visits, trace, ctxDone>>

\* wait.Wait() returned: outcomes in the order of the ids, until one stops.
Collect ==
  LET active == {n \in flow.nodes : outcome[n] # NoResult}
      stops == {n \in active : outcome[n] = Error \/ PolicyStops(outcome[n])}
      upto == {n \in active : \A m \in stops : n <= m}
      failed == \E n \in upto : outcome[n] = Error
      taken == {n \in upto : outcome[n] # Error}
      skipped == waves[wave + 1] \ active
  IN
  /\ status = "running" /\ running = {}
  /\ results' = [n \in flow.nodes |-> IF n \in taken THEN outcome[n] ELSE results[n]]
  /\ visits' = [n \in flow.nodes |-> IF n \in taken THEN 1 ELSE visits[n]]
  /\ trace' = IF failed THEN trace ELSE trace \o Events(taken \cup skipped, skipped)
  /\ status' = IF failed THEN "failed" ELSE IF stops # {} THEN "escalated" ELSE "between"
  /\ wave' = wave + 1
  /\ UNCHANGED <<flow, waves, running, outcome, ctxDone, stuck, ran>>

----------------------------------------------------------------------------
(* The bounded walk of a flow with a cycle *)

MaxVisits(n) == IF flow.max[n] > 0 THEN flow.max[n] ELSE 1

Selectable(n) == Enabled(n) /\ visits[n] < MaxVisits(n)

\* The first selectable node; a cycle without a root starts at the first node.
Selected ==
  LET candidates == {n \in flow.nodes : Selectable(n)}
      seed == IF \A n \in flow.nodes : results[n] = NoResult THEN flow.nodes ELSE {}
      from == IF candidates # {} THEN candidates ELSE seed
  IN  {n \in from : \A m \in from : n <= m}

StepCap == 4 * Cardinality(flow.nodes) + 4

\* wave counts the iterations of the loop.  A node that fails ends the walk with
\* an empty FlowResult.
WalkStep ==
  /\ status = "walking" /\ ~ctxDone /\ stuck = {} /\ wave < StepCap
  /\ \E n \in Selected :
       \/ /\ ran' = ran \cup {n}
          /\ \E r \in Executed(n) :
               /\ results' = [results EXCEPT ![n] = r]
               /\ visits' = [visits EXCEPT ![n] = @ + 1]
               /\ trace' = Append(trace, [node |-> n, decision |-> "executed"])
               /\ status' = IF PolicyStops(r) THEN "escalated" ELSE status
       \/ /\ status' = "failed"
          /\ ran' \in {ran, ran \cup {n}}
          /\ trace' = <<>>
          /\ UNCHANGED <<results, visits>>
  /\ wave' = wave + 1
  /\ UNCHANGED <<flow, waves, running, outcome, ctxDone, stuck>>

\* As NodeBlocks; the walk stands still, whatever becomes of its context.
WalkBlocks ==
  /\ status = "walking" /\ ~ctxDone /\ stuck = {} /\ wave < StepCap
  /\ stuck' = Selected /\ Selected # {}
  /\ running' = Selected
  /\ ran' = ran \cup Selected
  /\ UNCHANGED <<flow, status, waves, wave, outcome, results, visits, trace, ctxDone>>

FinishWalk ==
  /\ status = "walking" /\ stuck = {}
  /\ \/ wave = StepCap /\ status' = "max_visits"
     \/ wave < StepCap /\ ctxDone /\ status' = "cancelled"
     \/ wave < StepCap /\ ~ctxDone /\ Selected = {} /\ status' = "ok"
  /\ UNCHANGED <<flow, waves, wave, running, outcome, results, visits, trace, ctxDone, stuck, ran>>

----------------------------------------------------------------------------
Cancel ==
  /\ ~ctxDone /\ status \notin Final
  /\ ctxDone' = TRUE
  /\ UNCHANGED <<flow, status, waves, wave, running, outcome, results, visits, trace, stuck, ran>>

Init ==
  /\ flow \in Flows
  /\ status = "submitted"
  /\ waves = <<>>
  /\ wave = 0
  /\ running = {}
  /\ outcome = [n \in flow.nodes |-> NoResult]
  /\ results = [n \in flow.nodes |-> NoResult]
  /\ visits = [n \in flow.nodes |-> 0]
  /\ trace = <<>>
  /\ ctxDone = FALSE
  /\ stuck = {} /\ ran = {}

Steps ==
  \/ StartWave \/ FinishWaves \/ Collect \/ WalkStep \/ FinishWalk
  \/ \E n \in flow.nodes : NodeReturns(n)

Blocks == WalkBlocks \/ \E n \in flow.nodes : NodeBlocks(n)

Next == Submit \/ Steps \/ Blocks \/ Cancel

Spec == Init /\ [][Next]_vars

\* The goroutines are scheduled, and an executor that is not stuck returns.
\* Submit, which is enabled until it is taken, is taken.
FairSpec == Spec /\ <>(status # "submitted") /\ WF_vars(Steps)

----------------------------------------------------------------------------
(* Properties *)

TypeOK ==
  /\ status \in Final \cup {"submitted", "between", "running", "walking"}
  /\ waves \in Seq(SUBSET flow.nodes)
  /\ wave \in 0..(StepCap + 1)
  /\ running \subseteq flow.nodes
  /\ outcome \in [flow.nodes -> Results \cup {NoResult, Error}]
  /\ results \in [flow.nodes -> Results \cup {NoResult}]
  /\ visits \in [flow.nodes -> 0..(StepCap + 1)]
  /\ ctxDone \in BOOLEAN
  /\ stuck \subseteq running
  /\ ran \subseteq flow.nodes

\* The goroutines that are in flight together write disjoint paths and do not
\* depend on one another, there are never more than the cap, and every
\* predecessor has been executed or skipped before (graph.go, ScheduleWaves).
InFlight == {n \in flow.nodes : status = "running" /\ (n \in running \/ outcome[n] # NoResult)}
WaveIsIndependent ==
  /\ Cardinality(InFlight) <= MaxWaveWidth
  /\ \A m, n \in InFlight : m # n =>
       /\ ~ListsConflict(flow.scope[m], flow.scope[n])
       /\ ~Reaches(flow, m, n)
  /\ \A n \in InFlight : \A m \in Preds(flow, n) :
       \E i \in 1..Len(trace) : trace[i].node = m

\* The executor of the node is about to be called.
Starts(n) == n \in running' \ running \/ (WalkStep /\ n \in Selected)

\* No apply node starts once a verification that ran has reported anything but
\* pass, over any detour of default and policy edges (tool.go: policyForVerify,
\* engine.go: policyStops, graph.go: default_apply and not_run_apply).  A verify
\* node whose lane RouteNode refuses reports nothing (engine.go:135-138): its
\* result is Refused, which does not stop the flow, and an apply may follow.
NoApplyAfterBadVerdict ==
  [][\A n, v \in flow.nodes :
       flow.uses[n] = "apply" /\ Starts(n) /\ flow.uses[v] = "verify" =>
         results[v] \in {NoResult, Refused} \/ results[v].verdict = "pass"]_vars

\* An apply node that starts behind verify nodes alone has the pass of one of
\* them, in a wave and in a walk; except that a walk in which nothing can be
\* selected begins with its first node, whatever it is (engine.go:310-314).
ApplyNeedsPass ==
  [][\A n \in flow.nodes :
       /\ flow.uses[n] = "apply" /\ Starts(n) /\ Incoming(flow, n) # {}
       /\ \A v \in Preds(flow, n) : flow.uses[v] = "verify"
       => \/ \E v \in Preds(flow, n) :
               results[v] # NoResult /\ results[v].verdict = "pass" /\ results[v].policy = "pass"
          \/ status = "walking" /\ \A m \in flow.nodes : n <= m /\ results[m] = NoResult]_vars

ExecutedEvents == {i \in 1..Len(trace) : trace[i].decision = "executed"}
Untraced == {n \in ran : \A i \in ExecutedEvents : trace[i].node # n}

\* The trace that Execute returns.  A completed flow of waves accounts for every
\* node exactly once, executed or skipped, in the order of waves and ids; any
\* flow that completes, is cancelled or runs out of steps, for every node whose
\* executor was called.  An escalation hides nodes of its own wave with larger
\* ids, although they ran (engine.go:159).  A failure of a wave hides the whole
\* wave and tells exactly those before it (engine.go:154); a failure of a walk
\* tells nothing (engine.go:318-325).
TraceAccountsForAll ==
  /\ status = "ok" /\ ~IsCyclic(flow) =>
       /\ Len(trace) = Cardinality(flow.nodes)
       /\ \A n \in flow.nodes : \E i \in 1..Len(trace) : trace[i].node = n
       /\ \A i, j \in 1..Len(trace) : i < j =>
            \E v, w \in 1..Len(waves) :
              /\ trace[i].node \in waves[v] /\ trace[j].node \in waves[w]
              /\ v < w \/ (v = w /\ trace[i].node < trace[j].node)
  /\ status \in {"ok", "cancelled", "max_visits"} => Untraced = {}
  /\ status = "escalated" =>
       \A n \in Untraced : \E i \in ExecutedEvents, w \in 1..Len(waves) :
         {n, trace[i].node} \subseteq waves[w] /\ trace[i].node < n
  /\ status = "failed" =>
       IF IsCyclic(flow) THEN trace = <<>>
       ELSE \E w \in 1..Len(waves) :
              /\ Untraced \subseteq waves[w]
              /\ \A n \in flow.nodes : (\E i \in 1..Len(trace) : trace[i].node = n)
                                         <=> \E v \in 1..(w - 1) : n \in waves[v]

\* No node of a walk runs more often than its max_visits (1 by default).
VisitsAreBounded == \A n \in flow.nodes : visits[n] <= MaxVisits(n)

\* Every flow that is submitted ends, unless an executor never returns: no wave
\* waits for a goroutine that does not report and no walk goes round a cycle for
\* ever (engine.go: wait.Wait, the step cap of executeBoundedCycle).
FlowEnds == <>(status \in Final \/ stuck # {})
=============================================================================
