-------------------------- MODULE HostGuardProofs --------------------------
(***************************************************************************)
(* For every panel, every set of nodes, every threshold and cooldown: the  *)
(* breaker keeps its type, and a half-open breaker has a probe that is     *)
(* still out. The second is inductive with the first: only Allow makes the *)
(* breaker half-open, and it sends its caller out; whoever comes back      *)
(* records, and a record always leaves half-open.                          *)
(***************************************************************************)
EXTENDS HostGuard, TLAPS

LEMMA AgesOK == Cap \in Nat /\ 0 \in Ages /\ \A a \in Ages : Older(a) \in Ages
BY HostAssumption DEF Cap, Ages, Older

LEMMA InitType == Init => TypeOK
BY HostAssumption, AgesOK DEF Init, TypeOK

LEMMA RecordType ==
    ASSUME TypeOK, NEW n \in Nodes, NEW success \in BOOLEAN, Record(n, success)
    PROVE  /\ state' \in {"closed", "open", "half_open"}
           /\ failures' \in 0..failureThreshold
           /\ openedAgo' \in Ages
BY HostAssumption DEF TypeOK, Record

LEMMA ReturnType ==
    ASSUME TypeOK, NEW n \in Nodes, Return(n)
    PROVE  /\ pc' \in [Nodes -> {"idle", "digest", "mismatch", "guard", "invoke"}]
           /\ age' \in [Nodes -> Ages]
BY AgesOK DEF TypeOK, Return

LEMMA NextType == TypeOK /\ [Next]_vars => TypeOK'
<1> SUFFICES ASSUME TypeOK, [Next]_vars PROVE TypeOK'
  OBVIOUS
<1>1. ASSUME NEW n \in Nodes, Route(n) PROVE TypeOK'
  BY <1>1 DEF TypeOK, Route, breakerVars
<1>2. ASSUME NEW n \in Nodes, fileDigest(n) PROVE TypeOK'
  <2>1. CASE Return(n)
    BY <1>2, <2>1, ReturnType DEF TypeOK, fileDigest, breakerVars
  <2>2. CASE \E digest \in {"guard", "mismatch"} : pc' = [pc EXCEPT ![n] = digest] /\ UNCHANGED age
    BY <1>2, <2>2 DEF TypeOK, fileDigest, breakerVars
  <2> QED BY <1>2, <2>1, <2>2 DEF fileDigest
<1>3. ASSUME NEW n \in Nodes, Refuse(n) PROVE TypeOK'
  BY <1>3, ReturnType DEF TypeOK, Refuse, breakerVars
<1>4. ASSUME NEW n \in Nodes, Allow(n) PROVE TypeOK'
  BY <1>4 DEF TypeOK, Allow
<1>5. ASSUME NEW n \in Nodes, Invoked(n) PROVE TypeOK'
  <2>1. PICK success \in BOOLEAN : Record(n, success)
    BY <1>5 DEF Invoked
  <2>2. Return(n) /\ UNCHANGED probe
    BY <1>5 DEF Invoked
  <2> QED BY <2>1, <2>2, RecordType, ReturnType DEF TypeOK
<1>6. CASE Tick
  BY <1>6, AgesOK DEF TypeOK, Tick
<1>7. CASE UNCHANGED vars
  BY <1>7 DEF TypeOK, vars, breakerVars
<1> QED BY <1>1, <1>2, <1>3, <1>4, <1>5, <1>6, <1>7 DEF Next, Step

(***************************************************************************)
(* Every variable of the breaker and of its callers keeps its type: the    *)
(* failures never pass the threshold and the ages never pass Cap.          *)
(***************************************************************************)
THEOREM TypeCorrect == Spec => []TypeOK
BY InitType, NextType, PTL DEF Spec

---------------------------------------------------------------------------

\* However an invocation ends, recording it leaves half-open.
LEMMA RecordLeaves ==
    ASSUME NEW n \in Nodes, NEW success \in BOOLEAN, Record(n, success)
    PROVE  state' # "half_open"
BY DEF Record

LEMMA NextProbe == TypeOK /\ HalfOpenHasProbe /\ [Next]_vars => HalfOpenHasProbe'
<1> SUFFICES ASSUME TypeOK, HalfOpenHasProbe, [Next]_vars, state' = "half_open"
             PROVE  \E n \in probe' : pc'[n] = "invoke"
  BY DEF HalfOpenHasProbe
\* A step that changes neither the breaker nor the probe, of a node that is not
\* out, leaves the node that is.
<1>0. ASSUME NEW n \in Nodes, pc[n] # "invoke", UNCHANGED <<state, probe>>,
             \A m \in Nodes \ {n} : pc'[m] = pc[m]
      PROVE  \E m \in probe' : pc'[m] = "invoke"
  BY <1>0 DEF HalfOpenHasProbe, TypeOK
<1>1. ASSUME NEW n \in Nodes, Route(n) PROVE \E m \in probe' : pc'[m] = "invoke"
  BY <1>0, <1>1 DEF Route, TypeOK, breakerVars
<1>2. ASSUME NEW n \in Nodes, fileDigest(n) PROVE \E m \in probe' : pc'[m] = "invoke"
  BY <1>0, <1>2 DEF fileDigest, Return, TypeOK, breakerVars
<1>3. ASSUME NEW n \in Nodes, Refuse(n) PROVE \E m \in probe' : pc'[m] = "invoke"
  BY <1>0, <1>3 DEF Refuse, Return, TypeOK, breakerVars
<1>4. ASSUME NEW n \in Nodes, Allow(n) PROVE \E m \in probe' : pc'[m] = "invoke"
  BY <1>4 DEF Allow, TypeOK
<1>5. ASSUME NEW n \in Nodes, Invoked(n) PROVE FALSE
  BY <1>5, RecordLeaves DEF Invoked
<1>6. CASE Tick
  BY <1>6 DEF Tick, HalfOpenHasProbe
<1>7. CASE UNCHANGED vars
  BY <1>7 DEF vars, breakerVars, HalfOpenHasProbe
<1> QED BY <1>1, <1>2, <1>3, <1>4, <1>5, <1>6, <1>7 DEF Next, Step

(***************************************************************************)
(* A half-open breaker is never left behind: the call that made it so is   *)
(* still out and will record, for any number of concurrent calls and in    *)
(* any order of their ends (GuardedInvoke, CircuitBreaker).                *)
(***************************************************************************)
THEOREM ProbeIsOut == Spec => []HalfOpenHasProbe
<1>1. Init => HalfOpenHasProbe
  BY DEF Init, HalfOpenHasProbe
<1> QED BY <1>1, TypeCorrect, NextProbe, PTL DEF Spec

=============================================================================
