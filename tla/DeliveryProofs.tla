--------------------------- MODULE DeliveryProofs ---------------------------
(***************************************************************************)
(* Proofs about Verification and Delivery, for every set of commands, of   *)
(* missions, of queues and of checks: the verdict of a batch is what its   *)
(* processes did, nothing of a batch is left that was not killed, a        *)
(* mission runs on settled work only, and the program pushes nothing that  *)
(* is not reported as applied and verified.                                *)
(*                                                                         *)
(* The induction has three parts. CommandInv says what is known of a child *)
(* at each phase of its Run, ResultInv what the results of a batch stand   *)
(* for, and ProgramInv what the queue has settled where the program is.    *)
(***************************************************************************)
EXTENDS Delivery, FiniteSetTheorems, WellFoundedInduction, TLAPS

---------------------------------------------------------------------------
(***************************************************************************)
(* The invariant.                                                          *)
(***************************************************************************)

\* No process of the group is left that was not sent SIGKILL.
Spent(g) == ~MainAlive(g) /\ (ChildAlive(g) => g.killed)

\* A child runs for the agent or for the verification, never for both; its main
\* process has ended once Wait has returned, and what is left of the group was
\* sent SIGKILL once the group was stopped; a process that was killed was killed because its time was over or
\* the context had ended.
CommandInv ==
    /\ phase # "none" <=> (pc = "agent" \/ vpc = "running")
    /\ phase # "none" => group.main # "none"
    /\ phase = "stop" => ~MainAlive(group)
    /\ phase \in {"none", "ended"} => Spent(group)
    /\ phase # "none" /\ group.main = "killed" => late \/ ctx # "live"

\* What a result stands for.
HonestEntry(e) ==
    /\ e.status = "passed" => e.exit = "zero"
    /\ e.status = "failed" => e.exit = "nonzero"

ResultInv ==
    /\ vpc # "idle" => pc \in {"verify", "report"}
    /\ vpc \in {"policy", "run", "running"} => pc = "verify"
    /\ vpc = "idle" => batch = <<>>
    /\ vpc # "done" => verdict = "none"
    /\ vpc \in {"idle", "policy"} => results = <<>>
    /\ vpc = "policy" => group = NoGroup
    /\ vpc \in {"run", "running"} => ~Refused /\ Len(results) < Len(batch)
    /\ \A i \in DOMAIN results : HonestEntry(results[i])

Executing == {"request", "agent", "verify", "report"}
Earlier == Executing \cup {"validate", "invalid", "scan", "cycle", "settled"}

\* A pass in an audit package is one the commands earned, or the executor's claim.
Backed(r) == r.pass => r.claimed \/ r.exits = {"zero"}

ProgramInv ==
    /\ pc \notin {"validate", "invalid"} => validateProgramQueue
    /\ cur # 0 <=> pc \in Executing
    /\ cur # 0 => mission[cur].status = "pending"
    /\ \A m \in Missions : Backed(mission[m])
    /\ pc \notin Earlier => programReadyToDeliver
    /\ "gated" \in pushed => pc \notin Earlier

DeliveryInv ==
    /\ TypeOK
    /\ CommandInv
    /\ ResultInv
    /\ VerdictIsHonest
    /\ BatchLeavesNothing
    /\ ProgramInv
    /\ RunsOnSettledWork

---------------------------------------------------------------------------
(***************************************************************************)
(* A step that leaves one side alone keeps what is known of that side.     *)
(***************************************************************************)

\* The program does not move: what is known of the queue stays.
LEMMA ProgramStill ==
    ASSUME ProgramInv, RunsOnSettledWork, UNCHANGED <<programVars, pc>>,
           "gated" \in pushed' => "gated" \in pushed
    PROVE  ProgramInv' /\ RunsOnSettledWork'
  BY DEF ProgramInv, RunsOnSettledWork, programVars, validateProgramQueue, programReadyToDeliver

\* No process and no batch moves: what is known of them stays, if the program
\* is where a child or a batch belongs.
LEMMA CommandStill ==
    ASSUME CommandInv, ResultInv, VerdictIsHonest, BatchLeavesNothing,
           UNCHANGED <<commandVars, verifyVars>>,
           pc' = "agent" <=> pc = "agent",
           vpc # "idle" => pc' \in {"verify", "report"},
           vpc \in {"policy", "run", "running"} => pc' = "verify"
    PROVE  CommandInv' /\ ResultInv' /\ VerdictIsHonest' /\ BatchLeavesNothing'
  BY DEF CommandInv, ResultInv, VerdictIsHonest, BatchLeavesNothing, commandVars, verifyVars,
         HonestEntry, Refused

\* The delivery and the watch change nothing that the program or its missions
\* have settled.
LEMMA Delivering ==
    ASSUME DeliveryInv, Keep, pc \notin Earlier, pc' \notin Earlier,
           TypeOK'
    PROVE  DeliveryInv'
  <1>1. CommandInv' /\ ResultInv' /\ VerdictIsHonest' /\ BatchLeavesNothing'
    BY CommandStill DEF DeliveryInv, Keep, Earlier, Executing, ResultInv
  <1>2. ProgramInv' /\ RunsOnSettledWork'
    BY DEF DeliveryInv, Keep, ProgramInv, RunsOnSettledWork, programVars, validateProgramQueue,
           programReadyToDeliver, Earlier, Executing
  <1> QED  BY <1>1, <1>2 DEF DeliveryInv

---------------------------------------------------------------------------
(***************************************************************************)
(* The child: its processes, its Run, its deadline and the context.        *)
(***************************************************************************)

\* Everything that can happen to a child without the batch or the program.
ChildStep == RunStep \/ ProcessStep \/ ContextEnds \/ DeadlineFires

\* After a kill every process left of the group was sent SIGKILL, and its main
\* process is one that was killed or one that had ended.
LEMMA Killed ==
    ASSUME NEW g \in Group, NEW k \in killGroup(g)
    PROVE  /\ k \in Group
           /\ Spent(k)
           /\ g.main # "none" => k.main # "none"
           /\ ~MainAlive(g) => k.main = g.main
  <1>1. PICK c \in {g.child} \cup (IF ChildAlive(g) THEN {"gone"} ELSE {}) :
          k = [main |-> IF MainAlive(g) THEN "killed" ELSE g.main, child |-> c, killed |-> TRUE]
    BY DEF killGroup
  <1> QED  BY <1>1 DEF Group, Spent, MainAlive, ChildAlive

\* A step of the child keeps what is known of it, and without a child nothing moves.
LEMMA ChildStepKeeps ==
    ASSUME CommandTypeOK, CommandInv, ChildStep, UNCHANGED <<pc, vpc>>
    PROVE  /\ CommandTypeOK' /\ CommandInv'
           /\ phase = "none" => group' = group /\ phase' = "none"
  <1> USE DEF CommandInv, CommandTypeOK, Phases, Contexts, commandVars
  <1>1. CASE ProcessStep
    <2>1. phase # "none" /\ UNCHANGED <<phase, late, ctx>> /\ group \in Group
      BY <1>1 DEF ProcessStep
    <2>2. /\ group' \in Group /\ (~MainAlive(group) => group'.main = group.main)
          /\ (group.main # "none" => group'.main # "none")
          /\ (group'.main = "killed" => group.main = "killed")
          /\ group'.killed = group.killed
          /\ (~MainAlive(group) /\ ChildAlive(group') => ChildAlive(group))
      <3> USE DEF Group, MainAlive, ChildAlive
      <3>1. CASE Fork
        BY <2>1, <3>1 DEF Fork
      <3>2. CASE LeaveGroup
        BY <2>1, <3>2 DEF LeaveGroup
      <3>3. CASE CloseOutput
        BY <2>1, <3>3 DEF CloseOutput
      <3>4. CASE Exit
        BY <2>1, <3>4 DEF Exit
      <3> QED  BY <1>1, <3>1, <3>2, <3>3, <3>4 DEF ProcessStep
    <2>3. ~MainAlive(group) => ~MainAlive(group')
      BY <2>2 DEF MainAlive
    <2> QED  BY <2>1, <2>2, <2>3 DEF Spent
  <1>4. CASE Drained
    BY <1>4 DEF Drained
  <1>5. CASE Waited
    BY <1>5 DEF Waited, MainAlive
  <1>6. CASE stopProcessGroup
    <2>1. ~MainAlive(group) /\ group \in Group
      BY <1>6 DEF stopProcessGroup
    <2>2. group' \in Group /\ Spent(group') /\ group'.main = group.main
      <3>1. CASE ~ChildAlive(group) /\ UNCHANGED group
        BY <2>1, <3>1 DEF Spent
      <3>2. CASE group' = [group EXCEPT !.child = "gone"]
        BY <2>1, <3>2 DEF Group, Spent, MainAlive, ChildAlive
      <3>3. CASE group' \in killGroup(group)
        BY <2>1, <3>3, Killed
      <3> QED  BY <1>6, <3>1, <3>2, <3>3 DEF stopProcessGroup
    <2> QED  BY <1>6, <2>2 DEF stopProcessGroup
  <1>7. ASSUME Cancel, phase' = phase, late \in BOOLEAN, late' \/ ctx' # "live",
               late' \in BOOLEAN, ctx' \in Contexts
        PROVE  /\ CommandTypeOK' /\ CommandInv'
               /\ phase = "none" => group' = group /\ phase' = "none"
    <2>1. CASE phase \in {"drain", "wait"}
      <3>1. group' \in killGroup(group)
        BY <1>7, <2>1 DEF Cancel
      <3>2. group' \in Group /\ Spent(group') /\ group'.main # "none"
        BY <2>1, <3>1, Killed
      <3> QED  BY <1>7, <2>1, <3>2
    <2>2. CASE phase \notin {"drain", "wait"}
      BY <1>7, <2>2 DEF Cancel
    <2> QED  BY <2>1, <2>2
  <1>8. CASE ContextEnds
    BY <1>7, <1>8 DEF ContextEnds
  <1>9. CASE DeadlineFires
    BY <1>7, <1>9 DEF DeadlineFires
  <1> QED  BY <1>1, <1>4, <1>5, <1>6, <1>8, <1>9 DEF ChildStep, RunStep

\* Between two commands and around the batch there is no child to move, so a
\* child's step never disturbs what is known of the results.
LEMMA ChildStepInv ==
    ASSUME DeliveryInv, ChildStep, UNCHANGED verifyVars, Others
    PROVE  DeliveryInv'
  <1>1. CommandTypeOK' /\ CommandInv' /\ (phase = "none" => group' = group)
    BY ChildStepKeeps DEF DeliveryInv, TypeOK, VerifyTypeOK, verifyVars, Others
  <1>2. TypeOK'
    BY <1>1 DEF DeliveryInv, TypeOK, VerifyTypeOK, verifyVars, Others, programVars, checkVars, branchVars
  <1>3. vpc \in {"policy", "run", "done"} => phase = "none"
    BY DEF DeliveryInv, CommandInv, ResultInv
  <1>4. ResultInv' /\ VerdictIsHonest'
    BY <1>1, <1>3 DEF DeliveryInv, ResultInv, VerdictIsHonest, verifyVars, Others, Refused
  <1>5. BatchLeavesNothing'
    BY <1>1, <1>3 DEF DeliveryInv, TypeOK, VerifyTypeOK, ResultInv, BatchLeavesNothing, verifyVars, Refused
  <1>6. ProgramInv' /\ RunsOnSettledWork'
    BY ProgramStill DEF DeliveryInv, Others, branchVars
  <1> QED  BY <1>1, <1>2, <1>4, <1>5, <1>6 DEF DeliveryInv

---------------------------------------------------------------------------
(***************************************************************************)
(* The batch.                                                              *)
(***************************************************************************)

\* The verdict of a batch is one of the verdicts.
LEMMA AggregateType == \A rs \in Seq(Entry) : aggregate(rs) \in Verdicts
  BY DEF aggregate, Verdicts

\* A pass means that something ran and that everything that ran passed; a fail
\* that something failed.
LEMMA AggregateMeaning ==
    ASSUME NEW rs \in Seq(Entry)
    PROVE  /\ aggregate(rs) = "pass" => \A i \in DOMAIN rs : rs[i].status = "passed"
           /\ aggregate(rs) = "fail" => \E i \in DOMAIN rs : rs[i].status = "failed"
  <1> DEFINE statuses == {rs[i].status : i \in DOMAIN rs}
  <1>0. \A i \in DOMAIN rs : rs[i] \in Entry
    OBVIOUS
  <1>1. \A i \in DOMAIN rs : rs[i].status \in Statuses /\ rs[i].status \in statuses
    <2>1. \A i \in DOMAIN rs : rs[i].status \in Statuses
      BY <1>0 DEF Entry
    <2>2. \A i \in DOMAIN rs : rs[i].status \in statuses
      OBVIOUS
    <2> QED  BY <2>1, <2>2
  <1>2. aggregate(rs) = "pass" =>
            "blocked" \notin statuses /\ "timed_out" \notin statuses /\ "failed" \notin statuses
            /\ "not_run" \notin statuses
    BY DEF aggregate
  <1>3. aggregate(rs) = "fail" => "failed" \in statuses
    BY DEF aggregate
  <1> HIDE DEF statuses
  <1>4. aggregate(rs) = "pass" => \A i \in DOMAIN rs : rs[i].status = "passed"
    BY <1>1, <1>2 DEF Statuses
  <1>5. "failed" \in statuses => \E i \in DOMAIN rs : rs[i].status = "failed"
    BY DEF statuses
  <1> QED  BY <1>3, <1>4, <1>5

\* What Add does to a batch of which the entries stand for what happened.
LEMMA AddKeeps ==
    ASSUME NEW entry \in Entry, VerifyTypeOK, Add(entry),
           Len(results) < Len(batch), verdict = "none", HonestEntry(entry),
           \A i \in DOMAIN results : HonestEntry(results[i]), batch' = batch
    PROVE  /\ vpc' \in {"run", "done"}
           /\ results' \in Seq(Entry) /\ verdict' \in Verdicts \cup {"none"}
           /\ \A i \in DOMAIN results' : HonestEntry(results'[i])
           /\ vpc' = "run" => verdict' = "none" /\ Len(results') < Len(batch)
           /\ VerdictIsHonest'
  <1> DEFINE rs == Append(results, entry)
  <1>1. rs \in Seq(Entry) /\ Len(rs) = Len(results) + 1 /\ Len(rs) \in Nat /\ Len(batch) \in Nat
    BY DEF VerifyTypeOK
  <1>2. \A i \in DOMAIN rs : HonestEntry(rs[i])
    <2>1. TAKE i \in DOMAIN rs
    <2>2. CASE i \in DOMAIN results
      BY <2>2 DEF VerifyTypeOK
    <2>3. CASE i = Len(results) + 1
      BY <2>3 DEF VerifyTypeOK
    <2> QED  BY <2>2, <2>3 DEF VerifyTypeOK
  <1>3. rs[Len(rs)] = entry /\ Len(rs) \in DOMAIN rs
    BY <1>1 DEF VerifyTypeOK
  <1>4. CASE entry.status \in {"timed_out", "not_run"} \/ Len(rs) = Len(batch)
    <2>1. vpc' = "done" /\ results' = rs /\ verdict' = aggregate(rs)
      BY <1>4 DEF Add, Finish
    <2>2. verdict' = "pass" => /\ Len(rs) = Len(batch) /\ batch # <<>>
                               /\ \A i \in DOMAIN rs : rs[i].exit = "zero"
      <3>1. verdict' = "pass" => \A i \in DOMAIN rs : rs[i].status = "passed"
        BY <1>1, <2>1, AggregateMeaning
      <3>2. verdict' = "pass" => \A i \in DOMAIN rs : rs[i].exit = "zero"
        BY <1>2, <3>1 DEF HonestEntry
      <3>3. verdict' = "pass" => entry.status = "passed"
        BY <1>3, <3>1
      <3>4. batch # <<>>
        BY <1>1 DEF VerifyTypeOK
      <3> QED  BY <1>4, <3>2, <3>3, <3>4
    <2>3. verdict' = "fail" => \E i \in DOMAIN rs : rs[i].exit = "nonzero"
      BY <1>1, <1>2, <2>1, AggregateMeaning DEF HonestEntry
    <2> HIDE DEF rs
    <2>4. VerdictIsHonest'
      BY <2>1, <2>2, <2>3 DEF VerdictIsHonest
    <2> QED  BY <1>1, <1>2, <2>1, <2>4, AggregateType
  <1>5. CASE ~(entry.status \in {"timed_out", "not_run"} \/ Len(rs) = Len(batch))
    <2>1. vpc' = "run" /\ results' = rs /\ verdict' = verdict
      BY <1>5 DEF Add
    <2>2. Len(rs) < Len(batch)
      BY <1>1, <1>5
    <2> QED  BY <1>1, <1>2, <2>1, <2>2 DEF VerdictIsHonest
  <1> QED  BY <1>4, <1>5

\* The outcome of a child that ended: a pass is an exit with zero, and a failure
\* is an exit with another status, because a kill leaves its reason behind.
LEMMA StatusIsHonest ==
    ASSUME CommandTypeOK, CommandInv, phase = "ended"
    PROVE  /\ [status |-> Status, exit |-> group.main] \in Entry
           /\ HonestEntry([status |-> Status, exit |-> group.main])
  <1>1. group.main \in {"zero", "nonzero", "killed"}
    BY DEF CommandTypeOK, CommandInv, Group, Spent, MainAlive
  <1>2. Status \in {"timed_out", "not_run", "passed", "failed"}
    BY DEF Status, Outcome
  <1>3. Status = "passed" => group.main = "zero"
    BY DEF Status, Outcome
  <1>4. Status = "failed" => group.main # "zero" /\ ~late /\ ctx = "live"
    BY DEF Status, Outcome, CommandTypeOK, Contexts
  <1>5. group.main = "killed" => late \/ ctx # "live"
    BY DEF CommandInv
  <1> HIDE DEF Status
  <1> QED  BY <1>1, <1>2, <1>3, <1>4, <1>5 DEF Entry, Statuses, Exits, HonestEntry

\* Verify and its callees leave the program alone.
LEMMA BatchStep ==
    ASSUME DeliveryInv, Others,
           VerifyTypeOK', CommandInv', ResultInv', VerdictIsHonest', BatchLeavesNothing'
    PROVE  DeliveryInv'
  <1>1. TypeOK'
    BY DEF DeliveryInv, TypeOK, Others, programVars, checkVars, branchVars
  <1>2. ProgramInv' /\ RunsOnSettledWork'
    BY ProgramStill DEF DeliveryInv, Others, branchVars
  <1> QED  BY <1>1, <1>2 DEF DeliveryInv

\* A result is added to the batch by a step that leaves no process behind.
LEMMA AddInv ==
    ASSUME DeliveryInv, Others, pc = "verify", vpc \in {"run", "running"},
           NEW entry \in Entry, HonestEntry(entry), Add(entry),
           UNCHANGED <<batch, group, late, ctx>>, phase' = "none", Spent(group)
    PROVE  DeliveryInv'
  <1>1. VerifyTypeOK /\ CommandTypeOK /\ Len(results) < Len(batch) /\ verdict = "none"
        /\ ~Refused /\ \A i \in DOMAIN results : HonestEntry(results[i])
    BY DEF DeliveryInv, TypeOK, VerifyTypeOK, ResultInv
  <1>2. /\ vpc' \in {"run", "done"}
        /\ results' \in Seq(Entry) /\ verdict' \in Verdicts \cup {"none"}
        /\ \A i \in DOMAIN results' : HonestEntry(results'[i])
        /\ vpc' = "run" => verdict' = "none" /\ Len(results') < Len(batch)
        /\ VerdictIsHonest'
    BY <1>1, AddKeeps
  <1>3. VerifyTypeOK'
    BY <1>1, <1>2 DEF VerifyTypeOK, CommandTypeOK, Phases
  <1>4. CommandInv'
    BY <1>2 DEF CommandInv, Others
  <1>5. Refused' = Refused
    BY DEF Refused
  <1>6. ResultInv'
    BY <1>1, <1>2, <1>5 DEF ResultInv, Others
  <1>7. BatchLeavesNothing'
    BY <1>1, <1>2, <1>5 DEF BatchLeavesNothing, Spent
  <1> QED  BY <1>2, <1>3, <1>4, <1>6, <1>7, BatchStep

\* The entry of a command that was not run is honest.
LEMMA BlockedHonest == BlockedEntry \in Entry /\ HonestEntry(BlockedEntry)
  BY DEF BlockedEntry, Entry, Statuses, Exits, HonestEntry

\* The whole batch is judged before anything of it runs.
LEMMA ExecuteInv ==
    ASSUME DeliveryInv, Others, pc = "verify", ExecuteCommands
    PROVE  DeliveryInv'
  <1>1. /\ vpc = "policy" /\ UNCHANGED commandVars /\ batch' = batch /\ group = NoGroup /\ phase = "none"
        /\ pc' = pc /\ results = <<>> /\ verdict = "none" /\ batch \in Seq(Commands)
    BY DEF ExecuteCommands, DeliveryInv, ResultInv, CommandInv, Others, TypeOK, VerifyTypeOK
  <1>2. Refused' = Refused /\ CommandTypeOK' /\ Spent(group) /\ group' = group /\ phase' = phase
    BY <1>1 DEF Refused, DeliveryInv, TypeOK, VerifyTypeOK, CommandTypeOK, commandVars, CommandInv
  <1>3. ASSUME NEW rs \in Seq(Entry), NEW v \in {"blocked", "not_run"}, Finish(rs, v),
               \A i \in DOMAIN rs : HonestEntry(rs[i])
        PROVE  DeliveryInv'
    <2>1. vpc' = "done" /\ results' = rs /\ verdict' = v
      BY <1>3 DEF Finish
    <2>2. VerifyTypeOK'
      BY <1>1, <1>2, <2>1 DEF VerifyTypeOK, Verdicts
    <2>3. CommandInv'
      BY <1>1, <1>2, <2>1 DEF CommandInv
    <2>4. ResultInv'
      BY <1>1, <1>2, <1>3, <2>1 DEF ResultInv
    <2>5. VerdictIsHonest'
      BY <2>1 DEF VerdictIsHonest
    <2>6. BatchLeavesNothing'
      BY <1>1, <1>2, <2>1 DEF BatchLeavesNothing, Spent
    <2> QED  BY <2>2, <2>3, <2>4, <2>5, <2>6, BatchStep
  <1>4. <<>> \in Seq(Entry) /\ <<BlockedEntry>> \in Seq(Entry)
        /\ (\A i \in DOMAIN <<>> : HonestEntry(<<>>[i]))
        /\ \A i \in DOMAIN <<BlockedEntry>> : HonestEntry(<<BlockedEntry>>[i])
    <2>1. BlockedEntry \in Entry /\ HonestEntry(BlockedEntry)
      BY BlockedHonest
    <2> HIDE DEF BlockedEntry
    <2> QED  BY <2>1
  <1>5. CASE Finish(<<>>, "not_run")
    BY <1>3, <1>4, <1>5
  <1>6. CASE Finish(<<>>, "blocked")
    BY <1>3, <1>4, <1>6
  <1>7. CASE Finish(<<BlockedEntry>>, "blocked")
    BY <1>3, <1>4, <1>7
  <1>8. CASE batch # <<>> /\ ~Refused /\ vpc' = "run" /\ UNCHANGED <<results, verdict>>
    <2>1. VerifyTypeOK'
      BY <1>1, <1>2, <1>8 DEF VerifyTypeOK
    <2>2. CommandInv'
      BY <1>1, <1>2, <1>8 DEF CommandInv
    <2>3. Len(results) < Len(batch)
      BY <1>1, <1>8
    <2>4. ResultInv'
      BY <1>1, <1>2, <1>8, <2>3 DEF ResultInv
    <2>5. VerdictIsHonest' /\ BatchLeavesNothing'
      BY <1>1, <1>2, <1>8 DEF VerdictIsHonest, BatchLeavesNothing, Spent
    <2> QED  BY <2>1, <2>2, <2>4, <2>5, BatchStep
  <1> QED  BY <1>5, <1>6, <1>7, <1>8 DEF ExecuteCommands, runnerForFails

\* Every step of the batch keeps the invariant.
LEMMA VerifyStepInv ==
    ASSUME DeliveryInv, Others, pc = "verify", VerifyStep
    PROVE  DeliveryInv'
  <1>1. CASE ExecuteCommands
    BY <1>1, ExecuteInv
  <1>2. ASSUME vpc = "run" PROVE phase = "none" /\ Spent(group)
    BY <1>2 DEF DeliveryInv, CommandInv
  <1>3. CASE NotRun
    <2> DEFINE entry == [status |-> "not_run", exit |-> "none"]
    <2>1. vpc = "run" /\ Add(entry) /\ UNCHANGED <<batch, group, late, ctx>> /\ phase' = phase
      BY <1>3 DEF NotRun, commandVars
    <2>2. entry \in Entry /\ HonestEntry(entry)
      BY DEF Entry, Statuses, Exits, HonestEntry
    <2> HIDE DEF entry
    <2> QED  BY <1>2, <2>1, <2>2, AddInv
  <1>4. CASE NotStarted
    <2>1. vpc = "run" /\ Add(BlockedEntry) /\ UNCHANGED <<batch, group, late, ctx>> /\ phase' = phase
      BY <1>4 DEF NotStarted, commandVars
    <2> QED  BY <1>2, <2>1, BlockedHonest, AddInv
  <1>5. CASE Started
    <2>1. /\ vpc = "run" /\ vpc' = "running" /\ UNCHANGED <<batch, results, verdict, ctx>>
          /\ phase' = "drain" /\ group' = [NoGroup EXCEPT !.main = "running"] /\ late' = FALSE
      BY <1>5 DEF Started, Start
    <2>2. VerifyTypeOK'
      BY <2>1 DEF DeliveryInv, TypeOK, VerifyTypeOK, CommandTypeOK, Phases, Group, NoGroup
    <2>3. CommandInv'
      BY <2>1 DEF CommandInv, MainAlive, NoGroup
    <2>4. Refused' = Refused /\ pc' = pc
      BY <2>1 DEF Refused, Others
    <2>5. ResultInv'
      BY <2>1, <2>4 DEF DeliveryInv, ResultInv
    <2>6. VerdictIsHonest' /\ BatchLeavesNothing'
      BY <2>1, <2>4 DEF DeliveryInv, ResultInv, VerdictIsHonest, BatchLeavesNothing
    <2> QED  BY <2>2, <2>3, <2>5, <2>6, BatchStep
  <1>6. CASE Ended
    <2> DEFINE entry == [status |-> Status, exit |-> group.main]
    <2>1. /\ vpc = "running" /\ phase = "ended" /\ Add(entry)
          /\ UNCHANGED <<batch, group, late, ctx>> /\ phase' = "none"
      BY <1>6 DEF Ended, Close
    <2>2. CommandTypeOK /\ CommandInv /\ Spent(group)
      BY <2>1 DEF DeliveryInv, TypeOK, VerifyTypeOK, CommandInv
    <2>3. entry \in Entry /\ HonestEntry(entry)
      BY <2>1, <2>2, StatusIsHonest
    <2> HIDE DEF entry
    <2> QED  BY <2>1, <2>2, <2>3, AddInv
  <1>7. CASE RunStep /\ UNCHANGED verifyVars
    BY <1>7, ChildStepInv DEF ChildStep
  <1> QED  BY <1>1, <1>3, <1>4, <1>5, <1>6, <1>7 DEF VerifyStep

---------------------------------------------------------------------------
(***************************************************************************)
(* The program: the queue, and the execution of a mission.                 *)
(***************************************************************************)

\* Outside a mission there is no child and no batch.
LEMMA NothingRuns ==
    ASSUME DeliveryInv, pc \notin {"agent", "verify", "report"}
    PROVE  vpc = "idle" /\ phase = "none" /\ Spent(group) /\ batch = <<>>
  BY DEF DeliveryInv, TypeOK, VerifyTypeOK, CommandInv, ResultInv

\* A step of the program that moves no process and no batch.
LEMMA ProgramStep ==
    ASSUME DeliveryInv, UNCHANGED <<commandVars, verifyVars>>,
           pc' = "agent" <=> pc = "agent",
           vpc # "idle" => pc' \in {"verify", "report"},
           vpc \in {"policy", "run", "running"} => pc' = "verify",
           TypeOK', ProgramInv', RunsOnSettledWork'
    PROVE  DeliveryInv'
  BY CommandStill DEF DeliveryInv

\* The queue is validated.
LEMMA ValidateInv ==
    ASSUME DeliveryInv, Validate
    PROVE  DeliveryInv'
  <1>1. TypeOK'
    BY DEF DeliveryInv, Validate, TypeOK, Go, VerifyTypeOK, CommandTypeOK, commandVars, verifyVars,
           programVars, checkVars, branchVars, Ends
  <1>2. ProgramInv' /\ RunsOnSettledWork'
    BY DEF DeliveryInv, Validate, Go, ProgramInv, RunsOnSettledWork, programVars, Earlier, Executing,
           validateProgramQueue, programReadyToDeliver, branchVars
  <1>3. vpc = "idle"
    BY NothingRuns DEF Validate
  <1> QED  BY <1>1, <1>2, <1>3, ProgramStep DEF Validate, Go

MissionTypeOK ==
    /\ mission \in [Missions -> Mission]
    /\ left \in Int /\ progress \in BOOLEAN

\* Settling a mission that was pending: the others keep their status, and a
\* mission that stands on settled work loses nothing.
LEMMA SettleKeeps ==
    ASSUME TypeOK, RunsOnSettledWork, validateProgramQueue,
           \A n \in Missions : Backed(mission[n]),
           NEW m \in Missions, mission[m].status = "pending", cur \in {0, m},
           NEW status \in Reports, NEW pass \in BOOLEAN,
           {results[i].exit : i \in DOMAIN results} \in SUBSET Exits,
           verdict = "pass" => {results[i].exit : i \in DOMAIN results} = {"zero"},
           status \notin {"pending", "escalated"} => \A d \in after[m] : mission[d].status \in {"applied", "other"},
           Settle(m, status, pass), after' = after, cur' = 0
    PROVE  /\ MissionTypeOK'
           /\ \A n \in Missions : Backed(mission'[n])
           /\ RunsOnSettledWork'
  <1> DEFINE exits == {results[i].exit : i \in DOMAIN results}
  <1>0. exits \in SUBSET Exits /\ (verdict = "pass" => exits = {"zero"})
    OBVIOUS
  <1>2. /\ mission' = [mission EXCEPT ![m] =
                      IF status = "applied" /\ pass
                       THEN [status |-> status, pass |-> TRUE, claimed |-> verdict # "pass",
                             exits |-> IF verdict = "pass" THEN exits ELSE {}]
                       ELSE [Unread EXCEPT !.status = status]]
        /\ left' = left - 1 /\ progress' = TRUE
    BY DEF Settle
  <1> HIDE DEF exits
  <1> DEFINE new == IF status = "applied" /\ pass
                      THEN [status |-> status, pass |-> TRUE, claimed |-> verdict # "pass",
                            exits |-> IF verdict = "pass" THEN exits ELSE {}]
                      ELSE [Unread EXCEPT !.status = status]
  <1>1. new \in Mission /\ new.status = status /\ Backed(new)
    <2>1. CASE status = "applied" /\ pass
      <3>1. (IF verdict = "pass" THEN exits ELSE {}) \in SUBSET Exits
        BY <1>0
      <3>2. (verdict # "pass") \in BOOLEAN
        OBVIOUS
      <3> QED  BY <1>0, <2>1, <3>1, <3>2 DEF Mission, Backed, Reports
    <2>2. CASE ~(status = "applied" /\ pass)
      BY <2>2 DEF Unread, Mission, Backed
    <2> QED  BY <2>1, <2>2
  <1>6. mission' = [mission EXCEPT ![m] = new]
    BY <1>2
  <1> HIDE DEF new
  <1>3. /\ mission'[m] = new
        /\ \A n \in Missions \ {m} : mission'[n] = mission[n]
    BY <1>6 DEF TypeOK
  <1>4. RunsOnSettledWork'
    <2> SUFFICES ASSUME NEW n \in Missions, mission'[n].status \notin {"pending", "escalated"},
                        NEW d \in after[n]
                 PROVE  mission'[d].status \in {"applied", "other"}
      BY DeliveryAssumption DEF RunsOnSettledWork
    <2>1. d \in Missions /\ n # d
      BY DEF validateProgramQueue
    <2>2. mission[d].status \in {"applied", "other"}
      BY <1>1, <1>3 DEF RunsOnSettledWork
    <2> QED  BY <1>3, <2>1, <2>2
  <1>5. MissionTypeOK'
    <2>1. mission \in [Missions -> Mission] /\ left \in Int
      BY DEF TypeOK
    <2>2. mission' \in [Missions -> Mission]
      BY <1>1, <1>6, <2>1
    <2>3. left' \in Int /\ progress' \in BOOLEAN
      BY <1>2, <2>1
    <2> QED  BY <2>2, <2>3 DEF MissionTypeOK
  <1> QED  BY <1>1, <1>3, <1>4, <1>5

\* A pass over the queue takes a mission of it: every set of indexes has a first.
LEMMA FirstOf == ASSUME NEW S \in SUBSET Missions, S # {} PROVE First(S) \in S
  <1> DEFINE R == {ss \in Nat \X Nat : ss[1] < ss[2]}
  <1>1. IsWellFoundedOn(R, Nat) /\ S \subseteq Nat
    BY NatLessThanWellFounded, DeliveryAssumption DEF OpToRel
  <1>2. \A x, y \in Nat : x < y => <<x, y>> \in R
    OBVIOUS
  <1> HIDE DEF R
  <1>3. PICK m \in S : \A n \in S : <<n, m>> \notin R
    BY <1>1, WFMin
  <1>4. ASSUME NEW n \in S PROVE m <= n
    <2>1. n \in Nat /\ m \in Nat
      BY <1>1
    <2>2. ~(n < m)
      BY <1>2, <1>3, <2>1, Zenon
    <2> QED  BY <2>1, <2>2
  <1> QED  BY <1>4 DEF First

\* A pass looks for the next mission whose dependencies are settled.
LEMMA ScanInv ==
    ASSUME DeliveryInv, Scan
    PROVE  DeliveryInv'
  <1> DEFINE m == First(todo)
  <1>1. m \in Missions /\ m # 0
    BY FirstOf, DeliveryAssumption DEF Scan, DeliveryInv, TypeOK
  <1>2. vpc = "idle" /\ pc = "scan" /\ cur = 0 /\ validateProgramQueue
    BY NothingRuns DEF Scan, DeliveryInv, ProgramInv, Executing
  <1>3. /\ UNCHANGED <<commandVars, verifyVars, checkVars, branchVars, after>>
        /\ todo' \subseteq Missions
    BY DEF Scan, DeliveryInv, TypeOK
  <1>4. ASSUME pc' \in {"scan", "request"}, ProgramInv', RunsOnSettledWork',
               MissionTypeOK', cur' \in Missions \cup {0}
        PROVE  DeliveryInv'
    <2>1. TypeOK'
      BY <1>3, <1>4 DEF DeliveryInv, TypeOK, MissionTypeOK, VerifyTypeOK, CommandTypeOK, commandVars,
             verifyVars, programVars, checkVars, branchVars, Ends
    <2> QED  BY <1>2, <1>3, <1>4, <2>1, ProgramStep
  <1>5. CASE UNCHANGED <<pc, mission, left, progress, cur>>
    <2>1. ProgramInv' /\ RunsOnSettledWork'
      BY <1>2, <1>3, <1>5 DEF DeliveryInv, ProgramInv, RunsOnSettledWork, Earlier, Executing,
             validateProgramQueue, programReadyToDeliver, branchVars
    <2> QED  BY <1>2, <1>4, <1>5, <2>1 DEF DeliveryInv, TypeOK, MissionTypeOK
  <1>6. CASE /\ mission[m].status = "pending"
             /\ Settle(m, "escalated", FALSE)
             /\ UNCHANGED <<pc, cur>>
    <2>1. TypeOK /\ RunsOnSettledWork /\ after' = after /\ cur' = 0
          /\ \A n \in Missions : Backed(mission[n])
      BY <1>2, <1>3, <1>6 DEF DeliveryInv, ProgramInv
    <2> HIDE DEF m
    <2>6. {results[i].exit : i \in DOMAIN results} = {} /\ verdict = "none"
      BY <1>2 DEF DeliveryInv, ResultInv
    <2>2. /\ MissionTypeOK'
          /\ \A n \in Missions : Backed(mission'[n])
          /\ RunsOnSettledWork'
      BY <1>1, <1>2, <1>6, <2>1, <2>6, SettleKeeps DEF Reports
    <2>3. validateProgramQueue'
      BY <1>2, <1>3 DEF validateProgramQueue
    <2>4. ProgramInv'
      BY <1>2, <1>3, <1>6, <2>1, <2>2, <2>3 DEF DeliveryInv, ProgramInv, Earlier, Executing, branchVars
    <2>5. pc' \in {"scan", "request"} /\ cur' \in Missions \cup {0}
      BY <1>2, <1>6, <2>1
    <2> QED  BY <1>4, <2>2, <2>4, <2>5
  <1>7. CASE /\ mission[m].status = "pending" /\ "pending" \notin Dependencies(m)
             /\ ~Stopped(m)
             /\ cur' = m
             /\ Go("request")
             /\ UNCHANGED <<mission, left, progress>>
    <2>1. \A d \in after[m] : mission[d].status \in {"applied", "other"}
      <3>1. TAKE d \in after[m]
      <3>2. d \in Missions
        BY <1>1, <1>2 DEF validateProgramQueue
      <3>3. mission[d].status \in Reports
        BY <3>2 DEF DeliveryInv, TypeOK, Mission
      <3>4. mission[d].status \in Dependencies(m)
        BY DEF Dependencies
      <3> QED  BY <1>7, <3>3, <3>4 DEF Stopped, Reports
    <2> HIDE DEF m
    <2>2. RunsOnSettledWork'
      BY <1>1, <1>2, <1>3, <1>7, <2>1 DEF DeliveryInv, RunsOnSettledWork
    <2>3. ProgramInv'
      BY <1>1, <1>2, <1>3, <1>7 DEF DeliveryInv, ProgramInv, Earlier, Executing, Go, validateProgramQueue, branchVars
    <2> QED  BY <1>1, <1>4, <1>7, <2>2, <2>3 DEF Go, DeliveryInv, TypeOK, MissionTypeOK
  <1> QED  BY <1>5, <1>6, <1>7 DEF Scan

\* A pass that found nothing to do ends the program or starts another.
LEMMA EndOfPassInv ==
    ASSUME DeliveryInv, EndOfPass
    PROVE  DeliveryInv'
  <1>1. vpc = "idle" /\ pc = "scan"
    BY NothingRuns DEF EndOfPass
  <1>2. /\ UNCHANGED <<commandVars, verifyVars, checkVars, branchVars, after, mission, left, cur>>
        /\ pc' \in {"scan", "cycle", "deliver", "settled"}
        /\ pc' = "deliver" => programReadyToDeliver
        /\ todo' \in SUBSET Missions /\ progress' \in BOOLEAN
    BY <1>1 DEF EndOfPass, Go, DeliveryInv, TypeOK
  <1>3. TypeOK'
    BY <1>2 DEF DeliveryInv, TypeOK, VerifyTypeOK, CommandTypeOK, commandVars, verifyVars, checkVars, branchVars, Ends
  <1>4. ProgramInv' /\ RunsOnSettledWork'
    BY <1>1, <1>2 DEF DeliveryInv, ProgramInv, RunsOnSettledWork, Earlier, Executing,
           validateProgramQueue, programReadyToDeliver, branchVars
  <1> QED  BY <1>1, <1>2, <1>3, <1>4, ProgramStep

\* The provider process is not started.
LEMMA AgentRefusedInv ==
    ASSUME DeliveryInv, AgentRefused
    PROVE  DeliveryInv'
  <1>1. vpc = "idle" /\ pc = "request" /\ pc' = "report"
    BY NothingRuns DEF AgentRefused, Go
  <1>2. TypeOK'
    BY DEF DeliveryInv, AgentRefused, TypeOK, Go, VerifyTypeOK, CommandTypeOK, commandVars, verifyVars,
           programVars, checkVars, branchVars
  <1>3. ProgramInv' /\ RunsOnSettledWork'
    BY <1>1 DEF DeliveryInv, AgentRefused, ProgramInv, RunsOnSettledWork, programVars, Earlier, Executing,
           validateProgramQueue, programReadyToDeliver, branchVars
  <1> QED  BY <1>1, <1>2, <1>3, ProgramStep DEF AgentRefused

\* The host reads the verdict of the batch.
LEMMA VerifyEndsInv ==
    ASSUME DeliveryInv, VerifyEnds
    PROVE  DeliveryInv'
  <1>1. pc = "verify" /\ pc' = "report" /\ vpc = "done"
    BY DEF VerifyEnds, Go
  <1>2. TypeOK'
    BY DEF DeliveryInv, VerifyEnds, TypeOK, Go, VerifyTypeOK, CommandTypeOK, commandVars, verifyVars,
           programVars, checkVars, branchVars
  <1>3. ProgramInv' /\ RunsOnSettledWork'
    BY <1>1 DEF DeliveryInv, VerifyEnds, ProgramInv, RunsOnSettledWork, programVars, Earlier, Executing,
           validateProgramQueue, programReadyToDeliver, branchVars
  <1> QED  BY <1>1, <1>2, <1>3, ProgramStep DEF VerifyEnds

\* The agent's process is started and ends while no batch exists.
LEMMA AgentStartedInv ==
    ASSUME DeliveryInv, AgentStarted
    PROVE  DeliveryInv'
  <1>1. /\ pc = "request" /\ pc' = "agent" /\ vpc = "idle"
        /\ UNCHANGED <<verifyVars, programVars, checkVars, branchVars, ctx>>
        /\ phase' = "drain" /\ group' = [NoGroup EXCEPT !.main = "running"] /\ late' = FALSE
    BY NothingRuns DEF AgentStarted, Go, Start
  <1>2. TypeOK'
    BY <1>1 DEF DeliveryInv, TypeOK, VerifyTypeOK, CommandTypeOK, Group, NoGroup, Phases, verifyVars, programVars,
           checkVars, branchVars
  <1>3. CommandInv'
    BY <1>1 DEF CommandInv, MainAlive, NoGroup
  <1>4. ResultInv' /\ VerdictIsHonest' /\ BatchLeavesNothing'
    BY <1>1 DEF DeliveryInv, ResultInv, VerdictIsHonest, BatchLeavesNothing, verifyVars
  <1>5. ProgramInv' /\ RunsOnSettledWork'
    BY <1>1 DEF DeliveryInv, ProgramInv, RunsOnSettledWork, programVars, Earlier, Executing,
           validateProgramQueue, programReadyToDeliver, branchVars
  <1> QED  BY <1>2, <1>3, <1>4, <1>5 DEF DeliveryInv

\* The provider process has ended.
LEMMA AgentEndedInv ==
    ASSUME DeliveryInv, AgentEnded
    PROVE  DeliveryInv'
  <1>1. /\ pc = "agent" /\ pc' \in {"verify", "report"} /\ phase = "ended" /\ phase' = "none"
        /\ UNCHANGED <<verifyVars, programVars, checkVars, branchVars, group, late, ctx>>
    BY DEF AgentEnded, Go, Close
  <1>2. vpc = "idle" /\ Spent(group)
    BY <1>1 DEF DeliveryInv, ResultInv, CommandInv
  <1>3. TypeOK'
    BY <1>1 DEF DeliveryInv, TypeOK, VerifyTypeOK, CommandTypeOK, Phases, verifyVars, programVars, checkVars, branchVars
  <1>4. CommandInv'
    BY <1>1, <1>2 DEF CommandInv, verifyVars
  <1>5. ResultInv' /\ VerdictIsHonest' /\ BatchLeavesNothing'
    BY <1>1, <1>2 DEF DeliveryInv, ResultInv, VerdictIsHonest, BatchLeavesNothing, verifyVars
  <1>6. ProgramInv' /\ RunsOnSettledWork'
    BY <1>1 DEF DeliveryInv, ProgramInv, RunsOnSettledWork, programVars, Earlier, Executing,
           validateProgramQueue, programReadyToDeliver, branchVars
  <1> QED  BY <1>3, <1>4, <1>5, <1>6 DEF DeliveryInv

\* The host hands the batch to the verification.
LEMMA VerifyBeginsInv ==
    ASSUME DeliveryInv, VerifyBegins
    PROVE  DeliveryInv'
  <1>1. cur \in Missions
    BY DEF VerifyBegins, DeliveryInv, ProgramInv, TypeOK, Executing
  <1>2. PICK b \in BatchOf[cur] : Verify(b)
    BY DEF VerifyBegins
  <1>3. b \in Seq(Commands)
    BY <1>1, <1>2, DeliveryAssumption
  <1>4. /\ pc = "verify" /\ pc' = "verify" /\ Others /\ vpc' = "policy" /\ batch' = b
        /\ results' = <<>> /\ verdict' = "none" /\ group' = NoGroup
        /\ UNCHANGED <<phase, late, ctx>> /\ phase = "none"
    BY <1>2 DEF VerifyBegins, Verify, Others, DeliveryInv, CommandInv
  <1>5. VerifyTypeOK'
    BY <1>3, <1>4 DEF DeliveryInv, TypeOK, VerifyTypeOK, CommandTypeOK, NoGroup, Group
  <1>6. CommandInv'
    BY <1>4 DEF CommandInv, Spent, MainAlive, ChildAlive, NoGroup
  <1>7. ResultInv'
    BY <1>4 DEF ResultInv
  <1>8. VerdictIsHonest' /\ BatchLeavesNothing'
    BY <1>4 DEF VerdictIsHonest, BatchLeavesNothing
  <1> QED  BY <1>4, <1>5, <1>6, <1>7, <1>8, BatchStep

\* What the executor reports ends the mission: a pass in its audit package is a
\* batch of which every command exited with zero.
LEMMA ReportInv ==
    ASSUME DeliveryInv, Report
    PROVE  DeliveryInv'
  <1> DEFINE exits == {results[i].exit : i \in DOMAIN results}
  <1>1. PICK status \in Reports, pass \in BOOLEAN : Settle(cur, status, pass)
    BY DEF Report
  <1>2. /\ pc = "report" /\ pc' = "scan" /\ cur' = 0 /\ vpc' = "idle" /\ batch' = <<>> /\ results' = <<>>
        /\ verdict' = "none" /\ group' = NoGroup /\ late' = FALSE
        /\ UNCHANGED <<phase, ctx, checkVars, branchVars, after, todo>>
    BY DEF Report, Go
  <1>3. /\ cur \in Missions /\ mission[cur].status = "pending" /\ validateProgramQueue
        /\ TypeOK /\ RunsOnSettledWork
        /\ \A n \in Missions : Backed(mission[n])
    BY <1>2 DEF DeliveryInv, ProgramInv, TypeOK, Executing
  <1>4. exits \in SUBSET Exits
    <2>1. \A i \in DOMAIN results : results[i] \in Entry
      BY <1>3 DEF TypeOK, VerifyTypeOK
    <2>2. \A i \in DOMAIN results : results[i].exit \in Exits
      BY <2>1 DEF Entry
    <2> QED  BY <2>2
  <1>5. verdict = "pass" => exits = {"zero"}
    <2> SUFFICES ASSUME verdict = "pass" PROVE exits = {"zero"}
      OBVIOUS
    <2>1. /\ batch # <<>> /\ Len(results) = Len(batch)
          /\ \A i \in DOMAIN results : results[i].exit = "zero"
      BY DEF DeliveryInv, ResultInv, VerdictIsHonest
    <2>2. 1 \in DOMAIN results
      BY <1>3, <2>1 DEF TypeOK, VerifyTypeOK
    <2> QED  BY <2>1, <2>2
  <1>6. \A d \in after[cur] : mission[d].status \in {"applied", "other"}
    BY <1>3 DEF RunsOnSettledWork
  <1>8. /\ MissionTypeOK'
        /\ \A n \in Missions : Backed(mission'[n])
        /\ RunsOnSettledWork'
    BY <1>1, <1>2, <1>3, <1>4, <1>5, <1>6, SettleKeeps
  <1>9. TypeOK'
    <2>1. VerifyTypeOK'
      <3>1. CommandTypeOK'
        BY <1>2, <1>3 DEF TypeOK, VerifyTypeOK, CommandTypeOK, NoGroup, Group
      <3> QED  BY <1>2, <3>1 DEF VerifyTypeOK
    <2> QED  BY <1>2, <1>3, <1>8, <2>1 DEF TypeOK, MissionTypeOK, checkVars, branchVars
  <1>10. phase = "none"
    BY <1>2 DEF DeliveryInv, CommandInv, ResultInv, TypeOK, VerifyTypeOK
  <1>11. CommandInv'
    BY <1>2, <1>10 DEF CommandInv, Spent, MainAlive, ChildAlive, NoGroup
  <1>12. ResultInv' /\ VerdictIsHonest' /\ BatchLeavesNothing'
    BY <1>2 DEF ResultInv, VerdictIsHonest, BatchLeavesNothing
  <1>13. ProgramInv'
    <2>1. validateProgramQueue'
      BY <1>2, <1>3 DEF validateProgramQueue
    <2> QED  BY <1>2, <1>8, <2>1 DEF DeliveryInv, ProgramInv, Earlier, Executing, branchVars
  <1> QED  BY <1>8, <1>9, <1>11, <1>12, <1>13 DEF DeliveryInv

---------------------------------------------------------------------------
(***************************************************************************)
(* The delivery, the watch and the corrections.                            *)
(***************************************************************************)

Watching == CollectCheckEvidence \/ CollectTimesOut \/ CollectFails \/ PollAgain \/ PollEnds \/ Correct

\* What is left of TypeOK once the processes, the batch and the queue are out.
RestTypeOK ==
    /\ pc \in Ends \cup {"validate", "scan", "request", "agent", "verify", "report", "deliver",
                         "collect", "poll", "plan"}
    /\ pr \in {"local", "pushed", "open"} /\ pushed \subseteq Gates
    /\ check \in [Checks -> {"absent", "queued", "passed", "failed"}]
    /\ over \in BOOLEAN /\ seen \in Evidence /\ prior \in [Checks -> 0..2]

\* Types of what a step of the delivery leaves alone.
LEMMA RestType ==
    ASSUME TypeOK, Keep, RestTypeOK'
    PROVE  TypeOK'
  BY DEF TypeOK, RestTypeOK, Keep, VerifyTypeOK, CommandTypeOK, commandVars, verifyVars, programVars

\* Types after the delivery of the program.
LEMMA DeliverTypes ==
    ASSUME TypeOK, ProgramDelivers
    PROVE  RestTypeOK' /\ Keep /\ pc \notin Earlier /\ pc' \notin Earlier
  BY DEF TypeOK, ProgramDelivers, deliverWorks, deliverFails, RestTypeOK, checkVars, branchVars, Go,
         Ends, Earlier, Executing, Gates

\* Types after the steps of the watch.
LEMMA WatchTypes ==
    ASSUME TypeOK, Watching
    PROVE  RestTypeOK' /\ Keep /\ pc \notin Earlier /\ pc' \notin Earlier
  <1> USE DEF Go, Hold, branchVars, Ends, Earlier, Executing
  <1>1. seen \in Evidence /\ NoEvidence \in Evidence
    BY DEF TypeOK, Evidence, NoEvidence
  <1>2. [seen EXCEPT !.status = "timed_out"] \in Evidence
    BY <1>1 DEF Evidence
  <1>3. [NoEvidence EXCEPT !.status = "timed_out"] \in Evidence
    BY DEF Evidence, NoEvidence
  <1>4. CASE CollectCheckEvidence
    <2>1. PICK usable \in enrichFailureEvidence :
            seen' = [status |-> checkStatus, failed |-> Failed, usable |-> usable]
      BY <1>4 DEF CollectCheckEvidence
    <2>2. usable \in SUBSET Checks /\ Failed \in SUBSET Checks
      BY <2>1 DEF enrichFailureEvidence, Failed
    <2>3. checkStatus \in {"none", "pending", "passed", "failed", "timed_out"}
      BY DEF checkStatus
    <2>4. seen' \in Evidence
      BY <2>1, <2>2, <2>3 DEF Evidence
    <2>5. pc = "collect" /\ pc' \in {"poll", "plan", "delivered"}
      BY <1>4 DEF CollectCheckEvidence
    <2>6. Keep /\ UNCHANGED <<pr, pushed, check, over, prior>>
      BY <1>4 DEF CollectCheckEvidence
    <2> QED  BY <2>4, <2>5, <2>6 DEF TypeOK, RestTypeOK
  <1>5. CASE CollectTimesOut
    <2>1. pc = "collect" /\ pc' \in {"poll", "unknown"} /\ seen' \in Evidence
      BY <1>2, <1>3, <1>5 DEF CollectTimesOut
    <2>2. Keep /\ UNCHANGED <<pr, pushed, check, over, prior>>
      BY <1>5 DEF CollectTimesOut
    <2> QED  BY <2>1, <2>2 DEF TypeOK, RestTypeOK
  <1>6. CASE CollectFails
    <2>1. pc = "collect" /\ pc' \in {"error", "unknown"} /\ seen' \in Evidence
      BY <1>1, <1>2, <1>6 DEF CollectFails
    <2>2. Keep /\ UNCHANGED <<pr, pushed, check, over, prior>>
      BY <1>6 DEF CollectFails
    <2> QED  BY <2>1, <2>2 DEF TypeOK, RestTypeOK
  <1>7. CASE PollAgain
    BY <1>7 DEF PollAgain, checkVars, branchVars, TypeOK, RestTypeOK
  <1>8. CASE PollEnds
    <2>1. pc = "poll" /\ pc' \in {"error", "unknown"} /\ seen' \in Evidence
      BY <1>1, <1>2, <1>8 DEF PollEnds
    <2>2. Keep /\ UNCHANGED <<pr, pushed, check, over, prior>>
      BY <1>8 DEF PollEnds
    <2> QED  BY <2>1, <2>2 DEF TypeOK, RestTypeOK
  <1>9. CASE Correct
    <2>1. pc = "plan" /\ pc' \in {"escalated", "collect"} /\ Keep /\ UNCHANGED <<pr, pushed, seen>>
      BY <1>9 DEF Correct
    <2>2. PICK c \in seen.failed, flaky \in BOOLEAN :
            LET action == BuildRemediationPlan(c, flaky) IN
            IF action = "escalate"
              THEN Go("escalated") /\ UNCHANGED <<check, over, prior>>
              ELSE /\ Go("collect")
                   /\ over' = FALSE
                   /\ prior' = [prior EXCEPT ![c] = IF @ < 2 THEN @ + 1 ELSE @]
                   /\ check' = [d \in Checks |-> IF d = c \/ action = "mission" THEN "queued" ELSE check[d]]
      BY <1>9 DEF Correct
    <2>3. c \in Checks
      BY <1>1 DEF Evidence
    <2>4. over' \in BOOLEAN
      BY <2>2 DEF TypeOK
    <2>5. check' \in [Checks -> {"absent", "queued", "passed", "failed"}]
      BY <2>2, <2>3 DEF TypeOK
    <2>6. prior' \in [Checks -> 0..2]
      <3>1. prior[c] \in 0..2 /\ prior \in [Checks -> 0..2]
        BY <2>3 DEF TypeOK
      <3>2. (IF prior[c] < 2 THEN prior[c] + 1 ELSE prior[c]) \in 0..2
        BY <3>1
      <3> QED  BY <2>2, <3>1, <3>2
    <2> QED  BY <2>1, <2>4, <2>5, <2>6 DEF TypeOK, RestTypeOK
  <1> QED  BY <1>4, <1>5, <1>6, <1>7, <1>8, <1>9 DEF Watching

\* The server and the clock of the watch touch the checks only.
LEMMA CheckTypes ==
    ASSUME TypeOK, (\E c \in Checks : CheckMoves(c)) \/ WatchExpires
    PROVE  RestTypeOK' /\ Keep /\ pc' = pc /\ pushed' = pushed
  <1>1. CASE WatchExpires
    BY <1>1 DEF WatchExpires, TypeOK, RestTypeOK, Hold, branchVars
  <1>2. CASE \E c \in Checks : CheckMoves(c)
    <2>1. PICK c \in Checks : CheckMoves(c)
      BY <1>2
    <2>2. check' \in [Checks -> {"absent", "queued", "passed", "failed"}]
      BY <2>1 DEF CheckMoves, TypeOK
    <2> QED  BY <2>1, <2>2 DEF CheckMoves, TypeOK, RestTypeOK, Hold, branchVars
  <1> QED  BY <1>1, <1>2

\* A check moves or the time of the watch is over: the program stays where it is.
LEMMA CheckStepInv ==
    ASSUME DeliveryInv, (\E c \in Checks : CheckMoves(c)) \/ WatchExpires
    PROVE  DeliveryInv'
  <1>1. TypeOK' /\ Keep /\ pc' = pc /\ pushed' = pushed
    BY CheckTypes, RestType DEF DeliveryInv
  <1>2. CommandInv' /\ ResultInv' /\ VerdictIsHonest' /\ BatchLeavesNothing'
    BY <1>1, CommandStill DEF DeliveryInv, Keep, ResultInv
  <1>3. ProgramInv' /\ RunsOnSettledWork'
    BY <1>1, ProgramStill DEF DeliveryInv, Keep
  <1> QED  BY <1>1, <1>2, <1>3 DEF DeliveryInv

\* A push by Apply or by hand leaves the program where it is and passes for no
\* delivery of the program.
LEMMA UngatedInv ==
    ASSUME DeliveryInv, callAutonomyDeliver \/ runDeliver
    PROVE  DeliveryInv'
  <1>1. /\ deliverWorks("ungated") \/ deliverFails("ungated")
        /\ Keep /\ UNCHANGED <<checkVars, pc>>
    BY DEF callAutonomyDeliver, runDeliver
  <1>2. RestTypeOK' /\ ("gated" \in pushed' => "gated" \in pushed)
    BY <1>1 DEF deliverWorks, deliverFails, DeliveryInv, TypeOK, RestTypeOK, branchVars, checkVars, Gates
  <1>3. TypeOK'
    BY <1>1, <1>2, RestType DEF DeliveryInv
  <1>4. CommandInv' /\ ResultInv' /\ VerdictIsHonest' /\ BatchLeavesNothing'
    BY <1>1, CommandStill DEF DeliveryInv, Keep, ResultInv
  <1>5. ProgramInv' /\ RunsOnSettledWork'
    BY <1>1, <1>2, ProgramStill DEF DeliveryInv, Keep
  <1> QED  BY <1>3, <1>4, <1>5 DEF DeliveryInv

---------------------------------------------------------------------------
(***************************************************************************)
(* The theorems.                                                           *)
(***************************************************************************)

\* The program starts with the invariant.
LEMMA DeliveryInit == Init => DeliveryInv
  <1> SUFFICES ASSUME Init PROVE DeliveryInv
    OBVIOUS
  <1>1. CommandTypeOK
    BY DEF Init, VerifyInit, CommandInit, CommandTypeOK, Phases, Contexts, Group, NoGroup
  <1>2. VerifyTypeOK
    BY <1>1 DEF Init, VerifyInit, VerifyTypeOK
  <1>3. left \in Int
    BY DeliveryAssumption, FS_CardinalityType DEF Init
  <1>4. after \in [Missions -> SUBSET (Missions \cup {0})] 
    BY DeliveryAssumption DEF Init
  <1>5. mission \in [Missions -> Mission]
    BY DEF Init, Unread, Mission, Reports
  <1>6. seen \in Evidence
    BY DEF Init, Evidence, NoEvidence
  <1>7. TypeOK
    <2>1. check \in [Checks -> {"absent", "queued", "passed", "failed"}] /\ prior \in [Checks -> 0..2]
      BY DEF Init
    <2>2. todo \subseteq Missions /\ progress \in BOOLEAN /\ over \in BOOLEAN /\ cur \in Missions \cup {0}
      BY DEF Init
    <2>3. pc = "validate" /\ pr = "local" /\ pushed = {}
      BY DEF Init
    <2> QED  BY <1>2, <1>3, <1>4, <1>5, <1>6, <2>1, <2>2, <2>3 DEF TypeOK
  <1>8. CommandInv
    BY DEF Init, VerifyInit, CommandInit, CommandInv, Spent, MainAlive, ChildAlive, NoGroup
  <1>9. ResultInv /\ VerdictIsHonest /\ BatchLeavesNothing
    BY DEF Init, VerifyInit, ResultInv, VerdictIsHonest, BatchLeavesNothing
  <1>10. ProgramInv
    <2>1. \A m \in Missions : Backed(mission[m])
      BY DEF Init, Unread, Backed
    <2> QED  BY <2>1 DEF Init, ProgramInv, Earlier, Executing
  <1>11. RunsOnSettledWork
    BY DeliveryAssumption DEF Init, RunsOnSettledWork, Unread
  <1> QED  BY <1>7, <1>8, <1>9, <1>10, <1>11 DEF DeliveryInv

\* Every step keeps the invariant.
LEMMA DeliveryNext == DeliveryInv /\ [Next]_vars => DeliveryInv'
  <1> SUFFICES ASSUME DeliveryInv, [Next]_vars PROVE DeliveryInv'
    OBVIOUS
  <1>1. CASE Validate
    BY <1>1, ValidateInv
  <1>2. CASE Scan
    BY <1>2, ScanInv
  <1>3. CASE EndOfPass
    BY <1>3, EndOfPassInv
  <1>4. CASE AgentRefused
    BY <1>4, AgentRefusedInv
  <1>5. CASE AgentStarted
    BY <1>5, AgentStartedInv
  <1>6. CASE AgentEnded
    BY <1>6, AgentEndedInv
  <1>7. CASE VerifyBegins
    BY <1>7, VerifyBeginsInv
  <1>8. CASE VerifyEnds
    BY <1>8, VerifyEndsInv
  <1>9. CASE Report
    BY <1>9, ReportInv
  <1>10. CASE ChildStep /\ UNCHANGED verifyVars /\ Others
    BY <1>10, ChildStepInv
  <1>11. CASE pc = "verify" /\ VerifyStep /\ Others
    BY <1>11, VerifyStepInv
  <1>12. CASE ProgramDelivers \/ Watching
    BY <1>12, DeliverTypes, WatchTypes, RestType, Delivering DEF DeliveryInv
  <1>13. CASE callAutonomyDeliver \/ runDeliver
    BY <1>13, UngatedInv
  <1>14. CASE (\E c \in Checks : CheckMoves(c)) \/ WatchExpires
    BY <1>14, CheckStepInv
  <1>15. CASE UNCHANGED vars
    <2>1. TypeOK' /\ Keep /\ pc' = pc /\ pushed' = pushed
      BY <1>15 DEF vars, DeliveryInv, TypeOK, VerifyTypeOK, CommandTypeOK, commandVars, verifyVars,
             programVars, checkVars, branchVars, Keep
    <2>2. CommandInv' /\ ResultInv' /\ VerdictIsHonest' /\ BatchLeavesNothing'
      BY <2>1, CommandStill DEF DeliveryInv, Keep, ResultInv
    <2>3. ProgramInv' /\ RunsOnSettledWork'
      BY <2>1, ProgramStill DEF DeliveryInv, Keep
    <2> QED  BY <2>1, <2>2, <2>3 DEF DeliveryInv
  <1>16. CASE Step
    BY <1>1, <1>2, <1>3, <1>4, <1>5, <1>6, <1>7, <1>8, <1>9, <1>10, <1>11, <1>12, <1>16
       DEF Step, ChildStep, Watching
  <1>17. CASE Environment
    BY <1>10, <1>13, <1>14, <1>17 DEF Environment, ChildStep
  <1>18. CASE Timer
    BY <1>10, <1>18 DEF Timer, ChildStep
  <1> QED  BY <1>14, <1>15, <1>16, <1>17, <1>18 DEF Next

\* The invariant holds throughout.
LEMMA DeliveryInvariant == Spec => []DeliveryInv
  BY DeliveryInit, DeliveryNext, PTL DEF Spec

\* The type invariant of the program, its verification, its delivery and its
\* watch: in particular every exit that is recorded is one a process can have
\* had, and a check is corrected at most twice.
THEOREM TypeCorrect == Spec => []TypeOK
  <1>1. DeliveryInv => TypeOK
    BY DEF DeliveryInv
  <1> QED  BY <1>1, DeliveryInvariant, PTL

\* A pass of verify.executeCommands means that every command of the batch ran
\* and exited with zero, a fail that one exited with another status by itself,
\* in whatever order the exit, the deadline and the end of the context come.
THEOREM Honest == Spec => []VerdictIsHonest
  <1>1. DeliveryInv => VerdictIsHonest
    BY DEF DeliveryInv
  <1> QED  BY <1>1, DeliveryInvariant, PTL

\* A batch with a refused command starts nothing, and of a command whose Run has
\* returned no process is left in its group that was not sent SIGKILL.
THEOREM NothingLeft == Spec => []BatchLeavesNothing
  <1>1. DeliveryInv => BatchLeavesNothing
    BY DEF DeliveryInv
  <1> QED  BY <1>1, DeliveryInvariant, PTL

\* A mission is executed, or was and did not escalate, only on top of missions
\* that were settled and neither escalated nor blocked, for every queue, also
\* one with cycles, and for every report, one that means nothing included.
THEOREM OnSettledWork == Spec => []RunsOnSettledWork
  <1>1. DeliveryInv => RunsOnSettledWork
    BY DEF DeliveryInv
  <1> QED  BY <1>1, DeliveryInvariant, PTL

\* The delivery at the end of a program pushes only when every mission is
\* reported as applied with a pass, and the commands behind every such verdict
\* that an executor did not make up all exited with zero, beside any number of
\* pushes by Apply and by hand.
THEOREM EarnedPush == Spec => []ProgramPushIsEarned
  <1>1. DeliveryInv => ProgramPushIsEarned
    BY DEF DeliveryInv, ProgramInv, ProgramPushIsEarned, programReadyToDeliver, Backed
  <1> QED  BY <1>1, DeliveryInvariant, PTL

=============================================================================
