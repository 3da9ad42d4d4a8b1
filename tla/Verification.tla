---------------------------- MODULE Verification ----------------------------
(***************************************************************************)
(* Verification of a run (internal/capability/verify): the whole batch of  *)
(* commands is judged by the allowlist, then the commands are run one by   *)
(* one, each as a BoundedCommand, and their outcomes become one verdict.   *)
(***************************************************************************)
EXTENDS BoundedCommand, Naturals, Sequences

CONSTANTS Commands

VARIABLES
    vpc,       \* where Verify is
    batch,     \* the commands to run
    results,   \* the outcomes so far
    verdict    \* the aggregate, at the end

verifyVars == <<vpc, batch, results, verdict>>

\* What an argv looks like to the policy.
Shapes == {"plain", "no_program", "path", "meta", "shell", "interpreter", "traversal", "removal"}

\* An argv, the lists that have an entry for it, and where its program resolves to.
Command ==
    [shape   : Shapes,
     global  : BOOLEAN,
     allow   : BOOLEAN,
     deny    : BOOLEAN,
     program : {"outside", "worktree", "missing"}]

ASSUME CommandsAssumption == Commands \subseteq Command

Statuses == {"passed", "failed", "timed_out", "blocked", "not_run"}
Verdicts == {"pass", "fail", "timeout", "blocked", "not_run"}

\* One outcome, with what became of the process (the history the exit code
\* stands for).
Exits == {"none", "zero", "nonzero", "killed"}
Entry == [status : Statuses, exit : Exits]

VerifyTypeOK ==
    /\ CommandTypeOK
    /\ vpc \in {"idle", "policy", "run", "running", "done"}
    /\ batch \in Seq(Commands)
    /\ results \in Seq(Entry)
    /\ verdict \in Verdicts \cup {"none"}

VerifyInit ==
    /\ CommandInit
    /\ vpc = "idle"
    /\ batch = <<>> /\ results = <<>>
    /\ verdict = "none"

\* The allowlist of the project: the global entries and its own, without those
\* of a program it denies.
New(c) == (c.global \/ c.allow) /\ ~c.deny

Check(c) == c.shape = "plain" /\ New(c)

resolveProgram(c) == c.program = "outside"

aggregate(rs) ==
    LET seen == {rs[i].status : i \in DOMAIN rs} IN
    CASE seen = {} -> "not_run"
      [] "blocked" \in seen -> "blocked"
      [] "timed_out" \in seen -> "timeout"
      [] "failed" \in seen -> "fail"
      [] "not_run" \in seen -> "not_run"
      [] OTHER -> "pass"

Refused == \E i \in DOMAIN batch : ~Check(batch[i])

---------------------------------------------------------------------------

\* Verify begins with a run that is open or reviewed and the commands of its
\* mission, or with the one command of the request.
Verify(b) ==
    /\ vpc \in {"idle", "done"}
    /\ vpc' = "policy"
    /\ batch' = b
    /\ results' = <<>>
    /\ verdict' = "none"
    /\ group' = NoGroup
    /\ UNCHANGED <<phase, late, ctx>>

Finish(rs, v) ==
    /\ vpc' = "done"
    /\ results' = rs
    /\ verdict' = v

BlockedEntry == [status |-> "blocked", exit |-> "none"]

\* The runner is not made: no project identity, no home, no scratch directory.
\* An unreadable policy ends the batch the same way.
runnerForFails == batch # <<>> /\ Finish(<<>>, "blocked")

\* The policy is applied to the whole batch before the first command starts.
ExecuteCommands ==
    /\ vpc = "policy"
    /\ \/ batch = <<>> /\ Finish(<<>>, "not_run")
       \/ runnerForFails
       \/ Refused /\ Finish(<<BlockedEntry>>, "blocked")
       \/ batch # <<>> /\ ~Refused /\ vpc' = "run" /\ UNCHANGED <<results, verdict>>
    /\ UNCHANGED <<commandVars, batch>>

\* A result is added; the batch stops at its end, at a timeout and at a
\* command that was not run.
Add(entry) ==
    LET rs == Append(results, entry) IN
    IF entry.status \in {"timed_out", "not_run"} \/ Len(rs) = Len(batch)
      THEN Finish(rs, aggregate(rs))
      ELSE vpc' = "run" /\ results' = rs /\ UNCHANGED verdict

Current == batch[Len(results) + 1]

\* Runner.Run of the next command up to its start.
NotRun ==
    /\ vpc = "run" /\ ctx # "live"
    /\ Add([status |-> "not_run", exit |-> "none"])
    /\ UNCHANGED <<commandVars, batch>>

NotStarted ==
    /\ vpc = "run" /\ ctx = "live"
    /\ Add(BlockedEntry)
    /\ UNCHANGED <<commandVars, batch>>

Started ==
    /\ vpc = "run" /\ ctx = "live"
    /\ resolveProgram(Current)
    /\ Start
    /\ vpc' = "running"
    /\ UNCHANGED <<batch, results, verdict>>

Status ==
    CASE Outcome = "cancelled" -> "not_run"
      [] OTHER -> Outcome

Ended ==
    /\ vpc = "running" /\ phase = "ended"
    /\ Add([status |-> Status, exit |-> group.main])
    /\ Close
    /\ UNCHANGED batch

VerifyStep ==
    \/ ExecuteCommands \/ NotRun \/ NotStarted \/ Started \/ Ended
    \/ vpc = "running" /\ RunStep /\ UNCHANGED verifyVars

---------------------------------------------------------------------------
(***************************************************************************)
(* Properties                                                              *)
(***************************************************************************)

\* A pass means that every command of the batch ran and exited with zero; a
\* fail means that one exited with another status by itself: a process killed
\* because the context was cancelled or its time was over never counts as a
\* failure, whatever order the exit and the contexts end in (exec.go:152,
\* core.go:219).
VerdictIsHonest ==
    vpc = "done" =>
        /\ verdict = "pass" => /\ batch # <<>> /\ Len(results) = Len(batch)
                               /\ \A i \in DOMAIN results : results[i].exit = "zero"
        /\ verdict = "fail" => \E i \in DOMAIN results : results[i].exit = "nonzero"

\* A batch with a refused command has started nothing (core.go:155), and between
\* two commands and at the end every process of a command that is still in its
\* group was sent SIGKILL, although commands leave processes in the background
\* and although the wait for them is given up (exec_unix.go:26). A process that
\* left its group is not looked for.
BatchLeavesNothing ==
    /\ vpc # "idle" /\ Refused => group = NoGroup
    /\ vpc \in {"run", "done"} => ~MainAlive(group) /\ (ChildAlive(group) => group.killed)

=============================================================================
