----------------------------- MODULE HostGuard -----------------------------
(***************************************************************************)
(* The nodes of a wave that ask for a lane (capability/orchestration       *)
(* route.go) share one circuit breaker (modelcontrol/resilience.go): each  *)
(* is routed to a host profile, reads the digest of its binary, passes the *)
(* guard, invokes the host and records how that ended, with the time it    *)
(* read before all this.                                                   *)
(*                                                                         *)
(* Instants are kept as ages. A node between its reading of the clock and  *)
(* the guard is at most MaxDelay old; ages stop at Cap, from where every   *)
(* difference the breaker looks at is the same.                            *)
(***************************************************************************)
EXTENDS Integers, Sequences

CONSTANTS
    Nodes,
    LaneOf,             \* the lane a node declares
    Panel,              \* the host profiles, in the order of the catalogue
    failureThreshold,
    cooldown,
    MaxDelay            \* bound on the time from time.Now to the guard

Profile ==
    [id : Nat, lane : STRING, rank : Int, available : BOOLEAN, patch : BOOLEAN,
     signed : BOOLEAN, total : Nat, accepted : Nat]

ASSUME HostAssumption ==
    /\ Nodes # {} /\ LaneOf \in [Nodes -> STRING]
    /\ Panel \in Seq(Profile)
    /\ failureThreshold \in Nat \ {0}
    /\ cooldown \in Nat
    /\ MaxDelay \in Nat

Cap == cooldown + MaxDelay
Ages == 0..Cap

VARIABLES
    state,      \* the state of the breaker
    failures,   \* failures in a row, up to the threshold
    openedAgo,  \* the age of openedAt
    pc,         \* where each node is
    age,        \* the age of the instant the node read
    probe       \* history: the nodes that have made the breaker half-open

breakerVars == <<state, failures, openedAgo>>
vars == <<breakerVars, pc, age, probe>>

TypeOK ==
    /\ state \in {"closed", "open", "half_open"}
    /\ failures \in 0..failureThreshold
    /\ openedAgo \in Ages
    /\ pc \in [Nodes -> {"idle", "digest", "mismatch", "guard", "invoke"}]
    /\ age \in [Nodes -> Ages]
    /\ probe \in SUBSET Nodes

Init ==
    /\ state = "closed" /\ failures = 0 /\ openedAgo = 0
    /\ pc = [n \in Nodes |-> "idle"]
    /\ age = [n \in Nodes |-> 0]
    /\ probe = {}

---------------------------------------------------------------------------
(***************************************************************************)
(* RouteNode. Its profile is fixed by the panel and the lane of the node.  *)
(***************************************************************************)

ValidateSignedCLI(p) == Panel[p].signed

Candidates(lane) ==
    {p \in DOMAIN Panel : Panel[p].available /\ Panel[p].lane = lane /\ Panel[p].patch /\ ValidateSignedCLI(p)}

Before(p, q) ==
    \/ Panel[p].rank < Panel[q].rank
    \/ Panel[p].rank = Panel[q].rank /\ Panel[p].id < Panel[q].id
    \/ Panel[p].rank = Panel[q].rank /\ Panel[p].id = Panel[q].id /\ p <= q

Routed(lane) == CHOOSE p \in Candidates(lane) : \A q \in Candidates(lane) : Before(p, q)

\* At least ten runs, more than four in ten of them not accepted.
EvaluateDemotion(p) ==
    /\ Panel[p].total >= 10
    /\ 10 * (Panel[p].total - Panel[p].accepted) > 4 * Panel[p].total

\* The routed profile, or when it is demoted the first other one of the whole
\* panel that is not, or the routed one again when all are.
Chosen(lane) ==
    LET first == Routed(lane)
        kept == {p \in DOMAIN Panel : Panel[p].id # Panel[first].id /\ ~EvaluateDemotion(p)}
    IN  IF EvaluateDemotion(first) /\ kept # {}
          THEN CHOOSE p \in kept : \A q \in kept : p <= q
          ELSE first

Return(n) ==
    /\ pc' = [pc EXCEPT ![n] = "idle"]
    /\ age' = [age EXCEPT ![n] = 0]

Route(n) ==
    /\ pc[n] = "idle" /\ Candidates(LaneOf[n]) # {}
    /\ pc' = [pc EXCEPT ![n] = "digest"]
    /\ UNCHANGED <<breakerVars, age, probe>>

\* The binary may have been replaced or removed at any time; nothing but this
\* reading of it counts.
fileDigest(n) ==
    /\ pc[n] = "digest"
    /\ \/ Return(n)
       \/ \E digest \in {"guard", "mismatch"} : pc' = [pc EXCEPT ![n] = digest] /\ UNCHANGED age
    /\ UNCHANGED <<breakerVars, probe>>

---------------------------------------------------------------------------
(***************************************************************************)
(* GuardedInvoke and the breaker.                                          *)
(***************************************************************************)

Passes(n) == pc[n] = "guard" /\ ValidateSignedCLI(Chosen(LaneOf[n]))

CooledDown(n) == openedAgo - age[n] >= cooldown

\* Mutant: a call that is refused is recorded as a failure.
RefuseRecorded(n) ==
    /\ pc[n] \in {"guard", "mismatch"}
    /\ \/ ~Passes(n) /\ UNCHANGED breakerVars
       \/ /\ Passes(n) /\ state = "open" /\ ~CooledDown(n)
          /\ openedAgo' = age[n]
          /\ UNCHANGED <<state, failures>>
    /\ Return(n)
    /\ UNCHANGED probe

Refuse(n) ==
    /\ pc[n] \in {"guard", "mismatch"}
    /\ \/ ~Passes(n)
       \/ state = "half_open"
       \/ state = "open" /\ ~CooledDown(n)
    /\ Return(n)
    /\ UNCHANGED <<breakerVars, probe>>

Allow(n) ==
    /\ Passes(n)
    /\ \/ state = "closed" /\ UNCHANGED <<state, probe>>
       \/ state = "open" /\ CooledDown(n) /\ state' = "half_open" /\ probe' = {n}
    /\ pc' = [pc EXCEPT ![n] = "invoke"]
    /\ UNCHANGED <<failures, openedAgo, age>>

Record(n, success) ==
    \/ /\ success
       /\ state' = "closed" /\ failures' = 0
       /\ UNCHANGED openedAgo
    \/ /\ ~success
       /\ state = "half_open" \/ failures + 1 >= failureThreshold
       /\ state' = "open" /\ failures' = failureThreshold
       /\ openedAgo' = age[n]
    \/ /\ ~success
       /\ state # "half_open" /\ failures + 1 < failureThreshold
       /\ failures' = failures + 1
       /\ UNCHANGED <<state, openedAgo>>

\* Mutant: an invocation that fails early is not recorded.
InvokedUnrecorded(n) ==
    /\ pc[n] = "invoke"
    /\ \/ \E success \in BOOLEAN : Record(n, success)
       \/ UNCHANGED breakerVars
    /\ Return(n)
    /\ UNCHANGED probe

\* The invocation ends, or there was no invoker.
Invoked(n) ==
    /\ pc[n] = "invoke"
    /\ \E success \in BOOLEAN : Record(n, success)
    /\ Return(n)
    /\ UNCHANGED probe

---------------------------------------------------------------------------

Older(a) == IF a < Cap THEN a + 1 ELSE a

Tick ==
    /\ \A n \in Nodes : pc[n] \in {"digest", "guard", "mismatch"} => age[n] < MaxDelay
    /\ age' = [n \in Nodes |-> IF pc[n] = "idle" THEN age[n] ELSE Older(age[n])]
    /\ openedAgo' = Older(openedAgo)
    /\ UNCHANGED <<state, failures, pc, probe>>

Step(n) == fileDigest(n) \/ Refuse(n) \/ Allow(n)

Next ==
    \/ \E n \in Nodes : Route(n) \/ Step(n) \/ Invoked(n)
    \/ Tick

Spec == Init /\ [][Next]_vars

(***************************************************************************)
(* The code of a node goes on and time passes. Nothing is assumed of the   *)
(* hosts, which may never answer, or of the flows, which may never ask.    *)
(***************************************************************************)
FairSpec == Spec /\ WF_vars(Tick) /\ \A n \in Nodes : WF_vars(Step(n))

---------------------------------------------------------------------------
(***************************************************************************)
(* Properties                                                              *)
(***************************************************************************)

\* A half-open breaker refuses every call, so the call that made it half-open
\* must still be out to record how it ended: a state nobody is left to leave
\* is not reached, whatever calls of before the opening record in between
\* (resilience.go:165, resilience.go:217).
HalfOpenHasProbe == state = "half_open" => \E n \in probe : pc[n] = "invoke"

\* Calls that pass the checks of their binary come again and again.
Asked == []<>(\E n \in Nodes : Passes(n))

\* A breaker that has opened lets a call through again, as long as calls keep
\* coming: failures that are recorded late, and calls that are refused, do not
\* put the end of the cooldown off for ever (resilience.go:160).
Reopens == Asked => (state = "open" ~> state # "open")

=============================================================================
