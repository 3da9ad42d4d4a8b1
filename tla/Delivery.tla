------------------------------ MODULE Delivery ------------------------------
(***************************************************************************)
(* From a compiled program to a green pull request: the queue of missions  *)
(* (workspace/autonomy_executor.go), each run by a provider process        *)
(* (internal/runner) and verified (Verification), the delivery of the      *)
(* branch (cmd/jacu/deliver.go), the watch of its checks (runner/ci.go)    *)
(* and the corrections of the checks that fail.                            *)
(*                                                                         *)
(* A branch is delivered from three places: by the program once all of its *)
(* missions are settled, by Apply within a mission, and by hand. Only the  *)
(* first asks what became of the missions.                                 *)
(*                                                                         *)
(* The host drives the last part: it opens the watch after the delivery of *)
(* the program and carries out what the remediation plan decides. The      *)
(* watch of a branch delivered otherwise is the same and not repeated.     *)
(***************************************************************************)
EXTENDS Verification, Integers, FiniteSets

CONSTANTS
    Missions,    \* the indexes of the missions
    Queues,      \* the programs: the dependencies of every mission, 0 a mission that is unknown
    BatchOf,     \* the batches of verification commands of every mission
    Checks       \* the checks of the pull request

ASSUME DeliveryAssumption ==
    /\ Missions \subseteq Nat \ {0} /\ IsFiniteSet(Missions)
    /\ Queues \subseteq [Missions -> SUBSET (Missions \cup {0})]
    /\ BatchOf \in [Missions -> SUBSET Seq(Commands)]

VARIABLES
    pc,          \* where the program, the delivery or the watch is
    after,       \* the dependencies of the missions
    mission,     \* status of every mission, and what its audit package says
    left,        \* missions left, as the loop counts them
    todo,        \* missions the current pass has not looked at
    progress,    \* the current pass has settled a mission
    cur,         \* the mission that is executed
    pr,          \* the branch: local, pushed, or with a pull request
    pushed,     \* history: how the branch was pushed
    check,       \* the checks, on the server
    over,        \* the time of the watch is over
    seen,        \* the last evidence
    prior        \* failures of every check that were corrected

programVars == <<after, mission, left, todo, progress, cur>>
checkVars == <<check, over, seen, prior>>
branchVars == <<pr, pushed>>
vars == <<commandVars, verifyVars, programVars, checkVars, branchVars, pc>>

Ends == {"invalid", "cycle", "settled", "undelivered", "delivered", "unknown", "error", "escalated"}

Evidence ==
    [status : {"none", "pending", "passed", "failed", "timed_out"},
     failed : SUBSET Checks,
     usable : SUBSET Checks]     \* failures with a digest and a safe path

\* An executor reports any string: "other" stands for those that mean nothing here.
Reports == {"pending", "applied", "escalated", "blocked", "other"}
Gates == {"gated", "ungated"}

\* pass: the verdict in the audit package is "pass"; claimed and exits are
\* history: no verification gave that verdict, or how the commands of the one
\* that did exited.
Mission == [status : Reports, pass : BOOLEAN, claimed : BOOLEAN, exits : SUBSET Exits]

TypeOK ==
    /\ VerifyTypeOK
    /\ pc \in Ends \cup {"validate", "scan", "request", "agent", "verify", "report", "deliver",
                         "collect", "poll", "plan"}
    /\ after \in [Missions -> SUBSET (Missions \cup {0})]
    /\ mission \in [Missions -> Mission]
    /\ left \in Int /\ todo \subseteq Missions /\ progress \in BOOLEAN
    /\ cur \in Missions \cup {0}
    /\ pr \in {"local", "pushed", "open"} /\ pushed \subseteq Gates
    /\ check \in [Checks -> {"absent", "queued", "passed", "failed"}]
    /\ over \in BOOLEAN /\ seen \in Evidence /\ prior \in [Checks -> 0..2]

Unread == [status |-> "pending", pass |-> FALSE, claimed |-> FALSE, exits |-> {}]
NoEvidence == [status |-> "none", failed |-> {}, usable |-> {}]

Init ==
    /\ VerifyInit
    /\ pc = "validate"
    /\ after \in Queues
    /\ mission = [m \in Missions |-> Unread]
    /\ left = Cardinality(Missions)
    /\ todo = Missions
    /\ progress = FALSE
    /\ cur = 0
    /\ pr = "local" /\ pushed = {}
    /\ check = [c \in Checks |-> "absent"]
    /\ over = FALSE
    /\ seen = NoEvidence
    /\ prior = [c \in Checks |-> 0]

Go(where) == pc' = where

---------------------------------------------------------------------------
(***************************************************************************)
(* ExecuteProgramWithDelivery: passes over the missions in their order.    *)
(***************************************************************************)

validateProgramQueue == \A m \in Missions : m \notin after[m] /\ after[m] \subseteq Missions

Validate ==
    /\ pc = "validate"
    /\ Go(IF validateProgramQueue THEN "scan" ELSE "invalid")
    /\ UNCHANGED <<commandVars, verifyVars, programVars, checkVars, branchVars>>

First(S) == CHOOSE m \in S : \A n \in S : m <= n

Dependencies(m) == {mission[d].status : d \in after[m]}

\* Mutant: a blocked mission does not stop the ones after it.
StoppedEscalated(m) == "escalated" \in Dependencies(m)

Stopped(m) == Dependencies(m) \cap {"escalated", "blocked"} # {}

\* The audit package of a mission that is not applied is never read again.
Settle(m, status, pass) ==
    /\ mission' = [mission EXCEPT ![m] =
                     IF status = "applied" /\ pass
                       THEN [status |-> status, pass |-> TRUE, claimed |-> verdict # "pass",
                             exits |-> IF verdict = "pass" THEN {results[i].exit : i \in DOMAIN results} ELSE {}]
                       ELSE [Unread EXCEPT !.status = status]]
    /\ left' = left - 1
    /\ progress' = TRUE

\* The next mission of the pass: settled before or waiting for another, it is
\* passed over; behind one that was stopped, or after the program was
\* cancelled, it is escalated; else it is executed.
Scan ==
    /\ pc = "scan" /\ todo # {}
    /\ LET m == First(todo) IN
         /\ todo' = todo \ {m}
         /\ \/ /\ mission[m].status # "pending" \/ "pending" \in Dependencies(m)
               /\ UNCHANGED <<pc, mission, left, progress, cur>>
            \/ /\ mission[m].status = "pending" /\ "pending" \notin Dependencies(m)
               /\ Stopped(m) \/ ctx # "live"
               /\ Settle(m, "escalated", FALSE)
               /\ UNCHANGED <<pc, cur>>
            \/ /\ mission[m].status = "pending" /\ "pending" \notin Dependencies(m)
               /\ ~Stopped(m) /\ ctx = "live"
               /\ cur' = m
               /\ Go("request")
               /\ UNCHANGED <<mission, left, progress>>
    /\ UNCHANGED <<commandVars, verifyVars, checkVars, branchVars, after>>

\* Mutant: the verdict of the audit package is not looked at.
programApplied == \A m \in Missions : mission[m].status = "applied"

programReadyToDeliver ==
    \A m \in Missions : mission[m].status = "applied" /\ mission[m].pass

\* At the end the program is delivered if it asks for it.
EndOfPass ==
    /\ pc = "scan" /\ todo = {}
    /\ \/ left > 0 /\ progress /\ todo' = Missions /\ progress' = FALSE /\ UNCHANGED pc
       \/ left > 0 /\ ~progress /\ Go("cycle") /\ UNCHANGED <<todo, progress>>
       \/ left <= 0 /\ programReadyToDeliver /\ Go("deliver") /\ UNCHANGED <<todo, progress>>
       \/ left <= 0 /\ Go("settled") /\ UNCHANGED <<todo, progress>>
    /\ UNCHANGED <<commandVars, verifyVars, checkVars, branchVars, after, mission, left, cur>>

---------------------------------------------------------------------------
(***************************************************************************)
(* The execution of one mission: a provider process, the verification, and *)
(* what the executor reports.                                              *)
(***************************************************************************)

\* runner.run refuses the request, finds the binary changed, or is cancelled
\* before it starts the process.
AgentRefused ==
    /\ pc = "request"
    /\ Go("report")
    /\ UNCHANGED <<commandVars, verifyVars, programVars, checkVars, branchVars>>

AgentStarted ==
    /\ pc = "request" /\ ctx = "live"
    /\ Start
    /\ Go("agent")
    /\ UNCHANGED <<verifyVars, programVars, checkVars, branchVars>>

AgentEnded ==
    /\ pc = "agent" /\ phase = "ended"
    /\ Close
    /\ Go(IF Outcome = "passed" THEN "verify" ELSE "report")
    /\ UNCHANGED <<verifyVars, programVars, checkVars, branchVars>>

VerifyBegins ==
    /\ pc = "verify" /\ vpc = "idle"
    /\ \E b \in BatchOf[cur] : Verify(b)
    /\ UNCHANGED <<programVars, checkVars, branchVars, pc>>

VerifyEnds ==
    /\ pc = "verify" /\ vpc = "done"
    /\ Go("report")
    /\ UNCHANGED <<commandVars, verifyVars, programVars, checkVars, branchVars>>

\* What the executor reports is stored as it is: a status and a verdict that
\* need not be those of the verification. An error and an empty status count as
\* escalated; a mission reported as pending is counted as settled.
Report ==
    /\ pc = "report"
    /\ \E status \in Reports, pass \in BOOLEAN : Settle(cur, status, pass)
    /\ cur' = 0
    /\ Go("scan")
    /\ vpc' = "idle" /\ batch' = <<>> /\ results' = <<>> /\ verdict' = "none"
    /\ group' = NoGroup /\ late' = FALSE
    /\ UNCHANGED <<phase, ctx, checkVars, branchVars, after, todo>>

---------------------------------------------------------------------------
(***************************************************************************)
(* deliver: the branch, a clean checkout, the push, the pull request.      *)
(***************************************************************************)

Keep == UNCHANGED <<commandVars, verifyVars, programVars>>

\* The checkout may be on another branch or have changes, git and gh may fail,
\* before the push or after it, and gh makes no second pull request.
deliverFails(gate) ==
    \/ UNCHANGED branchVars
    \/ /\ pushed' = pushed \cup {gate}
       /\ pr' = IF pr = "open" THEN "open" ELSE "pushed"

deliverWorks(gate) ==
    /\ pr # "open"
    /\ pushed' = pushed \cup {gate}
    /\ pr' = "open"

\* At the end of the program: git and gh fail once the context has ended.
ProgramDelivers ==
    /\ pc = "deliver"
    /\ \/ ctx = "live" /\ deliverWorks("gated") /\ Go("collect")
       \/ ctx = "live" /\ deliverFails("gated") /\ Go("undelivered")
       \/ ctx # "live" /\ UNCHANGED branchVars /\ Go("undelivered")
    /\ Keep /\ UNCHANGED checkVars

\* Apply, called by the executor of a mission that passed its verification: at
\* the mission a run counts as the last one, whatever became of the others.
callAutonomyDeliver ==
    /\ pc = "report" /\ verdict = "pass" /\ ctx = "live"
    /\ deliverWorks("ungated") \/ deliverFails("ungated")
    /\ Keep /\ UNCHANGED <<checkVars, pc>>

\* jacu deliver, by hand, at any time and with a context of its own.
runDeliver ==
    /\ deliverWorks("ungated") \/ deliverFails("ungated")
    /\ Keep /\ UNCHANGED <<checkVars, pc>>

---------------------------------------------------------------------------
(***************************************************************************)
(* WatchCheckEvidence.                                                     *)
(***************************************************************************)

Hold == Keep /\ UNCHANGED branchVars

\* The checks, on the server; what they did before anyone looks they do here.
CheckMoves(c) ==
    /\ pc \in {"collect", "poll"}
    /\ \/ check[c] = "absent" /\ check' = [check EXCEPT ![c] = "queued"]
       \/ check[c] = "queued" /\ \E s \in {"passed", "failed"} : check' = [check EXCEPT ![c] = s]
    /\ Hold /\ UNCHANGED <<pc, over, seen, prior>>

WatchExpires ==
    /\ pc \in {"collect", "poll"} /\ ~over
    /\ over' = TRUE
    /\ Hold /\ UNCHANGED <<pc, check, seen, prior>>

Listed == {c \in Checks : check[c] # "absent"}
Failed == {c \in Checks : check[c] = "failed"}

checkStatus ==
    CASE Listed = {} -> "pending"
      [] Failed # {} -> "failed"
      [] \E c \in Listed : check[c] = "queued" -> "pending"
      [] OTHER -> "passed"

\* Evidence of a failure needs two more calls of gh, which may fail and do so
\* when the time of the watch is over, and an annotation with a relative path.
enrichFailureEvidence == IF over THEN {{}} ELSE SUBSET Failed

CollectCheckEvidence ==
    /\ pc = "collect" /\ ctx = "live"
    /\ \E usable \in enrichFailureEvidence :
         seen' = [status |-> checkStatus, failed |-> Failed, usable |-> usable]
    /\ Go(CASE checkStatus = "pending" -> "poll"
            [] checkStatus = "failed" -> "plan"
            [] OTHER -> "delivered")
    /\ Hold /\ UNCHANGED <<check, over, prior>>

\* One call of gh ran out of its own time: another is tried while the watch
\* has time left.
CollectTimesOut ==
    /\ pc = "collect" /\ ctx = "live"
    /\ IF over THEN Go("unknown") /\ seen' = [seen EXCEPT !.status = "timed_out"]
               ELSE Go("poll") /\ seen' = [NoEvidence EXCEPT !.status = "timed_out"]
    /\ Hold /\ UNCHANGED <<check, over, prior>>

\* gh cannot be run, fails, or prints what cannot be decoded; or the caller
\* went away.
CollectFails ==
    /\ pc = "collect"
    /\ \/ /\ ctx # "cancelled" /\ (over \/ ctx = "expired")
          /\ Go("unknown") /\ seen' = [seen EXCEPT !.status = "timed_out"]
       \/ /\ ctx = "cancelled" \/ (ctx = "live" /\ ~over)
          /\ Go("error") /\ UNCHANGED seen
    /\ Hold /\ UNCHANGED <<check, over, prior>>

PollAgain ==
    /\ pc = "poll" /\ ~over /\ ctx = "live"
    /\ Go("collect")
    /\ Hold /\ UNCHANGED checkVars

PollEnds ==
    /\ pc = "poll"
    /\ over \/ ctx # "live"
    /\ IF ctx = "cancelled" THEN Go("error") /\ UNCHANGED seen
                            ELSE Go("unknown") /\ seen' = [seen EXCEPT !.status = "timed_out"]
    /\ Hold /\ UNCHANGED <<check, over, prior>>

---------------------------------------------------------------------------
(***************************************************************************)
(* The corrections.                                                        *)
(***************************************************************************)


NextRemediation(c, flaky) ==
    IF prior[c] >= 2 THEN "escalate"
    ELSE IF flaky /\ prior[c] = 0 THEN "rerun"
    ELSE "mission"

\* A mission needs a path it may touch and evidence with a digest.
BuildRemediationPlan(c, flaky) ==
    IF NextRemediation(c, flaky) = "mission" /\ c \notin seen.usable THEN "escalate"
    ELSE NextRemediation(c, flaky)

\* The host takes up a failure: it escalates, has the check run again, or has a
\* mission change the branch, after which all checks run again, and watches anew.
Correct ==
    /\ pc = "plan"
    /\ \E c \in seen.failed, flaky \in BOOLEAN :
         LET action == BuildRemediationPlan(c, flaky) IN
         IF action = "escalate"
           THEN Go("escalated") /\ UNCHANGED <<check, over, prior>>
           ELSE /\ Go("collect")
                /\ over' = FALSE
                /\ prior' = [prior EXCEPT ![c] = IF @ < 2 THEN @ + 1 ELSE @]
                /\ check' = [d \in Checks |-> IF d = c \/ action = "mission" THEN "queued" ELSE check[d]]
    /\ Hold /\ UNCHANGED seen

---------------------------------------------------------------------------

Others == UNCHANGED <<programVars, checkVars, branchVars, pc>>

Step ==
    \/ Validate \/ Scan \/ EndOfPass
    \/ AgentRefused \/ AgentStarted \/ AgentEnded \/ VerifyBegins \/ VerifyEnds \/ Report
    \/ pc = "agent" /\ RunStep /\ UNCHANGED verifyVars /\ Others
    \/ pc = "verify" /\ VerifyStep /\ Others
    \/ ProgramDelivers
    \/ CollectCheckEvidence \/ CollectTimesOut \/ CollectFails \/ PollAgain \/ PollEnds \/ Correct

Environment ==
    \/ ProcessStep /\ UNCHANGED verifyVars /\ Others
    \/ ContextEnds /\ pc \notin Ends /\ UNCHANGED verifyVars /\ Others
    \/ callAutonomyDeliver \/ runDeliver
    \/ \E c \in Checks : CheckMoves(c)

Timer == DeadlineFires /\ UNCHANGED verifyVars /\ Others

Next == Step \/ Environment \/ Timer \/ WatchExpires

Spec == Init /\ [][Next]_vars

(***************************************************************************)
(* The code goes on while it can, git and gh return, and deadlines pass.   *)
(* Nothing is assumed of the processes, the checks or the user.            *)
(***************************************************************************)
FairSpec == Spec /\ WF_vars(Step) /\ WF_vars(Timer) /\ WF_vars(WatchExpires)

---------------------------------------------------------------------------
(***************************************************************************)
(* Properties                                                              *)
(***************************************************************************)

\* The delivery of the program itself pushes only when every mission is reported
\* as applied with a pass, and a report that is the verdict of a verification
\* stands for commands that all exited with zero; although reports of pending
\* missions are counted as settled and passes are repeated
\* (autonomy_executor.go:135). What Apply or the user pushes is not gated.
ProgramPushIsEarned ==
    "gated" \in pushed =>
        \A m \in Missions :
            /\ mission[m].status = "applied" /\ mission[m].pass
            /\ mission[m].claimed \/ mission[m].exits = {"zero"}

\* A mission that is executed, or was and did not escalate, stands on missions
\* that were settled and neither escalated nor blocked: one behind a stopped,
\* failed or unfinished mission never runs, through any number of passes. A
\* status the code does not know counts as done (autonomy_executor.go:65).
RunsOnSettledWork ==
    \A m \in Missions :
        (m = cur \/ mission[m].status \notin {"pending", "escalated"})
        => \A d \in after[m] : mission[d].status \in {"applied", "other"}


=============================================================================
