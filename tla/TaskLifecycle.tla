---------------------------- MODULE TaskLifecycle ----------------------------
(***************************************************************************)
(* What the task runtime promises of the persisted records (ADR-014, and   *)
(* verify.Task.Transition): a task is created queued, moves forward only,  *)
(* and never leaves a terminal status.  The code keeps this promise but    *)
(* for one case, which is named here: another process changed a record     *)
(* between the read and the write of the one that starts or cancels it.    *)
(***************************************************************************)
CONSTANT Tasks

VARIABLES
  disk,      \* status of each persisted task, "none" before it exists
  excused    \* tasks whose record another process changed under a reader that will write

Terminal == {"done", "failed", "cancelled", "timeout"}
TaskStatus == {"none", "queued", "running"} \cup Terminal

\* Task.Transition
Transition(from, to) ==
  \/ from = "queued" /\ to \in {"running", "failed", "cancelled"}
  \/ from = "running" /\ to \in Terminal

Init == disk = [t \in Tasks |-> "none"] /\ excused = {}

\* One write may move several tasks: recovery fails every orphan at once.
Next ==
  /\ disk' \in [Tasks -> TaskStatus]
  /\ \A t \in Tasks : \/ disk'[t] = disk[t]
                      \/ disk[t] = "none" /\ disk'[t] = "queued"
                      \/ Transition(disk[t], disk'[t])
                      \/ t \in excused /\ disk'[t] \in {"running", "cancelled"}

Spec == Init /\ [][Next]_<<disk, excused>>
=============================================================================
