--------------------------- MODULE BoundedCommand ---------------------------
(***************************************************************************)
(* One child process under a context and a deadline, the way verify.Runner *)
(* (internal/capability/verify) and the provider runner (internal/runner)  *)
(* both run theirs: in a process group of its own, its output drained      *)
(* before Wait, the group killed when the context ends and stopped after   *)
(* Wait, and the outcome read from the contexts before the exit status.    *)
(*                                                                         *)
(* A command may leave a process in the background, with or without the    *)
(* output open, in its group or, with setsid, outside it, where no kill    *)
(* reaches it. A process in the group may survive SIGKILL for longer than  *)
(* anyone waits. The readers of the output wait for both, for ever if need *)
(* be. What a process does after its Run returned is not followed.         *)
(***************************************************************************)
VARIABLES
    phase,   \* where Run is with the current child
    group,   \* the process group of the current child
    late,    \* the deadline of the child passed before the context ended
    ctx      \* the context of the caller

commandVars == <<phase, group, late, ctx>>

Phases == {"none", "drain", "wait", "stop", "ended"}
Contexts == {"live", "cancelled", "expired"}

Group ==
    [main   : {"none", "running", "silent", "zero", "nonzero", "killed"},  \* silent: closed its output
     child  : {"none", "holding", "quiet", "escaped", "gone"},             \* holding, escaped: with the output open
     killed : BOOLEAN]                                                     \* SIGKILL was sent to the group

CommandTypeOK ==
    /\ phase \in Phases
    /\ group \in Group
    /\ late \in BOOLEAN
    /\ ctx \in Contexts

NoGroup == [main |-> "none", child |-> "none", killed |-> FALSE]

CommandInit ==
    /\ phase = "none"
    /\ group = NoGroup
    /\ late = FALSE
    /\ ctx = "live"

MainAlive(g) == g.main \in {"running", "silent"}
ChildAlive(g) == g.child \in {"holding", "quiet"}
OutputOpen(g) == g.main = "running" \/ g.child \in {"holding", "escaped"}

\* The states a group may be in after SIGKILL: one of its processes may take its
\* time to leave.
killGroup(g) ==
    {[main   |-> IF MainAlive(g) THEN "killed" ELSE g.main,
      child  |-> c,
      killed |-> TRUE] : c \in {g.child} \cup (IF ChildAlive(g) THEN {"gone"} ELSE {})}

\* Run waits for an output that no kill of the code will close.
Blocked == phase = "drain" /\ OutputOpen(group) /\ (group.child = "escaped" \/ group.killed)

Start ==
    /\ phase' = "drain"
    /\ group' = [NoGroup EXCEPT !.main = "running"]
    /\ late' = FALSE
    /\ UNCHANGED ctx

\* Run has returned its result.
Close ==
    /\ phase' = "none"
    /\ UNCHANGED <<group, late, ctx>>

---------------------------------------------------------------------------
(***************************************************************************)
(* The processes of the command.                                           *)
(***************************************************************************)

Fork ==
    /\ MainAlive(group) /\ group.child = "none"
    /\ \E how \in {"holding", "quiet"} : group' = [group EXCEPT !.child = how]

\* setsid, with the output open.
LeaveGroup ==
    /\ group.child = "holding" /\ ~group.killed
    /\ group' = [group EXCEPT !.child = "escaped"]

CloseOutput ==
    /\ group.main = "running"
    /\ group' = [group EXCEPT !.main = "silent"]

Exit ==
    \/ /\ MainAlive(group)
       /\ \E code \in {"zero", "nonzero"} : group' = [group EXCEPT !.main = code]
    \/ /\ group.child \in {"holding", "quiet", "escaped"}
       /\ group' = [group EXCEPT !.child = "gone"]

ProcessStep ==
    /\ phase # "none"
    /\ Fork \/ LeaveGroup \/ CloseOutput \/ Exit
    /\ UNCHANGED <<phase, late, ctx>>

---------------------------------------------------------------------------
(***************************************************************************)
(* Run: the readers, Wait, the second half of the group's end.             *)
(***************************************************************************)

Drained ==
    /\ phase = "drain" /\ ~OutputOpen(group)
    /\ phase' = "wait"
    /\ UNCHANGED <<group, late, ctx>>

Waited ==
    /\ phase = "wait" /\ ~MainAlive(group)
    /\ phase' = "stop"
    /\ UNCHANGED <<group, late, ctx>>

\* Mutant: only the process that Run started is looked after.
stopProcess ==
    /\ phase = "stop"
    /\ phase' = "ended"
    /\ UNCHANGED <<group, late, ctx>>

\* SIGTERM, a wait, SIGKILL and another wait that is given up after its window.
stopProcessGroup ==
    /\ phase = "stop"
    /\ \/ ~ChildAlive(group) /\ UNCHANGED group
       \/ ChildAlive(group) /\ group' = [group EXCEPT !.child = "gone"]
       \/ ChildAlive(group) /\ group' \in killGroup(group)
    /\ phase' = "ended"
    /\ UNCHANGED <<late, ctx>>

\* The child's context ends: until Wait has returned, its group is killed.
Cancel == IF phase \in {"drain", "wait"} THEN group' \in killGroup(group) ELSE UNCHANGED group

DeadlineFires ==
    /\ phase # "none"
    /\ ctx = "live" /\ ~late
    /\ late' = TRUE
    /\ Cancel
    /\ UNCHANGED <<phase, ctx>>

ContextEnds ==
    /\ ctx = "live"
    /\ \E why \in Contexts \ {"live"} : ctx' = why
    /\ Cancel
    /\ UNCHANGED <<phase, late>>

\* Mutant: the exit status alone.
OutcomeOfExit == IF group.main = "zero" THEN "passed" ELSE "failed"

\* What Run reports, read at its end; a deadline that passes between Wait and
\* here still makes a timeout of a command that succeeded.
Outcome ==
    CASE late \/ ctx = "expired" -> "timed_out"
      [] ctx = "cancelled" -> "cancelled"
      [] group.main = "zero" -> "passed"
      [] OTHER -> "failed"

RunStep == Drained \/ Waited \/ stopProcessGroup

=============================================================================
