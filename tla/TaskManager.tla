----------------------------- MODULE TaskManager -----------------------------
(***************************************************************************)
(* The asynchronous task runtime of internal/capability/verify/task.go:    *)
(* task records on disk, and in every process that builds a TaskManager    *)
(* (the MCP server, and the CLI commands verify, status and flow) a FIFO   *)
(* queue, a bounded set of executing goroutines and their contexts.        *)
(*                                                                         *)
(* Two locks: manager.mu guards the memory of one manager and is held over *)
(* a whole pump or Cancel; the file lock of runstate.WithLock guards one   *)
(* write of the records.  pumpLocked and Cancel read the record without    *)
(* the file lock, so between that read and their write another process may *)
(* write.  A write (saveTaskLocked) replaces the record unconditionally.   *)
(***************************************************************************)
EXTENDS Naturals, Sequences, FiniteSets

CONSTANTS
  Servers,        \* processes that may build a TaskManager
  Tasks,          \* task identifiers
  MaxConcurrent,  \* TaskConfig.MaxConcurrent
  SaveMayFail,    \* writes of task records can fail (disk full, permissions)
  NoTask,         \* absent value
  NoServer        \* absent value

ASSUME TaskAssumption ==
  /\ MaxConcurrent \in Nat \ {0}
  /\ NoTask \notin Tasks /\ NoServer \notin Servers
  /\ SaveMayFail \in BOOLEAN

VARIABLES
  disk,     \* .git/jacu/tasks/<task>.json: the status field
  up,       \* the process runs and its manager exists
  saved,    \* Start has written the record and has not enqueued it yet
  queue,    \* manager.queue
  active,   \* manager.active
  ctx,      \* context of an executing task, reached through manager.cancel
  exec,     \* the goroutine running execute
  mu,       \* what the holder of manager.mu is doing
  lost,     \* history: tasks whose record could not be written when it was due
  orphans,  \* history: tasks of a process that exited, until a manager is built
  writer    \* history: the process that wrote the record last

memory == <<saved, queue, active, ctx, exec, mu>>
history == <<lost, orphans, writer>>
vars == <<disk, up, memory, history>>

\* A pump or a Cancel of s holds a record it read as queued, and another process
\* has written it since.
Overtaken(s, t) ==
  /\ mu[s].op \in {"pump_save", "cancel_save"} /\ mu[s].task = t
  /\ disk[t] # "queued" /\ writer[t] # s

L == INSTANCE TaskLifecycle WITH Tasks <- Tasks, disk <- disk,
                                 excused <- {t \in Tasks : \E s \in Servers : Overtaken(s, t)}

Terminal == L!Terminal
TaskStatus == L!TaskStatus
Transition(from, to) == L!Transition(from, to)

MuState == [op : {"free", "pump", "pump_save", "cancel_save"}, task : Tasks \cup {NoTask}]
Free == [op |-> "free", task |-> NoTask]
Pump == [op |-> "pump", task |-> NoTask]
PumpSaving(t) == [op |-> "pump_save", task |-> t]
CancelSaving(t) == [op |-> "cancel_save", task |-> t]

----------------------------------------------------------------------------
(* removeQueued: a task is enqueued once, so it has at most one position *)
RemoveQueued(q, t) ==
  LET at == CHOOSE i \in 1..Len(q) : q[i] = t
  IN  IF \E i \in 1..Len(q) : q[i] = t
      THEN SubSeq(q, 1, at - 1) \o SubSeq(q, at + 1, Len(q))
      ELSE q

\* The records that differ were written by s.
Wrote(s) == writer' = [t \in Tasks |-> IF disk'[t] # disk[t] THEN s ELSE writer[t]]

\* The manager has the goroutine that will end the task.
Owned(s, t) == exec[s][t] \in {"run", "blocked"} \cup Terminal

\* The manager is about to look at the record: it is starting the task, has it
\* in its queue, or has just taken it from there.
Held(s, t) ==
  \/ t \in saved[s]
  \/ \E i \in 1..Len(queue[s]) : queue[s][i] = t
  \/ mu[s] = PumpSaving(t)

\* Mutants: the recovery misses a status, or looks at no status.
NewTaskManagerQueuedOnly(s) ==
  /\ ~up[s]
  /\ up' = [up EXCEPT ![s] = TRUE]
  /\ disk' = [t \in Tasks |-> IF disk[t] = "queued" THEN "failed" ELSE disk[t]]
  /\ Wrote(s)
  /\ orphans' = {}
  /\ UNCHANGED <<memory, lost>>
NewTaskManagerAll(s) ==
  /\ ~up[s]
  /\ up' = [up EXCEPT ![s] = TRUE]
  /\ disk' = [t \in Tasks |-> IF disk[t] # "none" THEN "failed" ELSE disk[t]]
  /\ Wrote(s)
  /\ orphans' = {}
  /\ UNCHANGED <<memory, lost>>

(***************************************************************************)
(* NewTaskManagerWithConfig: recoverOrphans fails every queued or running  *)
(* record it finds, under the file lock, before the manager serves calls.  *)
(***************************************************************************)
NewTaskManager(s) ==
  /\ ~up[s]
  /\ up' = [up EXCEPT ![s] = TRUE]
  /\ disk' = [t \in Tasks |-> IF disk[t] \in {"queued", "running"} THEN "failed" ELSE disk[t]]
  /\ Wrote(s)
  /\ orphans' = {}
  /\ UNCHANGED <<memory, lost>>

\* A write of the recovery fails, or the process is killed: some of the
\* orphans are failed and no manager is built.
RecoverStops(s) ==
  /\ ~up[s]
  /\ \E done \in SUBSET {t \in Tasks : disk[t] \in {"queued", "running"}} :
       disk' = [t \in Tasks |-> IF t \in done THEN "failed" ELSE disk[t]]
  /\ Wrote(s)
  /\ UNCHANGED <<up, memory, lost, orphans>>

\* The process exits or is killed: memory and goroutines are gone.
Exit(s) ==
  /\ up[s]
  /\ up' = [up EXCEPT ![s] = FALSE]
  /\ saved' = [saved EXCEPT ![s] = {}]
  /\ queue' = [queue EXCEPT ![s] = <<>>]
  /\ active' = [active EXCEPT ![s] = {}]
  /\ ctx' = [ctx EXCEPT ![s] = [t \in Tasks |-> "none"]]
  /\ exec' = [exec EXCEPT ![s] = [t \in Tasks |-> "none"]]
  /\ mu' = [mu EXCEPT ![s] = Free]
  /\ orphans' = orphans \cup {t \in Tasks : Held(s, t) \/ Owned(s, t)}
  /\ UNCHANGED <<disk, lost, writer>>

----------------------------------------------------------------------------
(* Start and StartRaw *)

StartSave(s, t) ==
  /\ up[s]
  /\ disk[t] = "none"
  /\ disk' = [disk EXCEPT ![t] = "queued"]
  /\ saved' = [saved EXCEPT ![s] = @ \cup {t}]
  /\ Wrote(s)
  /\ UNCHANGED <<up, queue, active, ctx, exec, mu, lost, orphans>>

StartEnqueue(s, t) ==
  /\ mu[s] = Free
  /\ t \in saved[s]
  /\ saved' = [saved EXCEPT ![s] = @ \ {t}]
  /\ queue' = [queue EXCEPT ![s] = Append(@, t)]
  /\ mu' = [mu EXCEPT ![s] = Pump]
  /\ UNCHANGED <<disk, up, active, ctx, exec, history>>

----------------------------------------------------------------------------
(* pumpLocked *)

\* Mutant: the limit is off by one.
PumpTakeOneMore(s) ==
  /\ mu[s] = Pump
  /\ Cardinality(active[s]) <= MaxConcurrent
  /\ queue[s] # <<>>
  /\ queue' = [queue EXCEPT ![s] = Tail(@)]
  /\ mu' = [mu EXCEPT ![s] = IF disk[Head(queue[s])] = "queued"
                             THEN PumpSaving(Head(queue[s])) ELSE Pump]
  /\ UNCHANGED <<disk, up, saved, active, ctx, exec, history>>

PumpTake(s) ==
  /\ mu[s] = Pump
  /\ Cardinality(active[s]) < MaxConcurrent
  /\ queue[s] # <<>>
  /\ queue' = [queue EXCEPT ![s] = Tail(@)]
  /\ mu' = [mu EXCEPT ![s] = IF disk[Head(queue[s])] = "queued"
                             THEN PumpSaving(Head(queue[s])) ELSE Pump]
  /\ UNCHANGED <<disk, up, saved, active, ctx, exec, history>>

PumpSave(s, t) ==
  /\ mu[s] = PumpSaving(t)
  /\ disk' = [disk EXCEPT ![t] = "running"]
  /\ active' = [active EXCEPT ![s] = @ \cup {t}]
  /\ ctx' = [ctx EXCEPT ![s][t] = "live"]
  /\ exec' = [exec EXCEPT ![s][t] = "run"]
  /\ mu' = [mu EXCEPT ![s] = Pump]
  /\ Wrote(s)
  /\ UNCHANGED <<up, saved, queue, lost, orphans>>

\* The write failed: the task has left the queue and stays queued on disk.
PumpDrop(s, t) ==
  /\ SaveMayFail
  /\ mu[s] = PumpSaving(t)
  /\ mu' = [mu EXCEPT ![s] = Pump]
  /\ UNCHANGED <<disk, up, saved, queue, active, ctx, exec, orphans, writer>>
  /\ lost' = lost \cup {t}

PumpStop(s) ==
  /\ mu[s] = Pump
  /\ Cardinality(active[s]) >= MaxConcurrent \/ queue[s] = <<>>
  /\ mu' = [mu EXCEPT ![s] = Free]
  /\ UNCHANGED <<disk, up, saved, queue, active, ctx, exec, history>>

----------------------------------------------------------------------------
(* Cancel *)

CancelQueued(s, t) ==
  /\ up[s] /\ mu[s] = Free
  /\ disk[t] = "queued"
  /\ mu' = [mu EXCEPT ![s] = CancelSaving(t)]
  /\ UNCHANGED <<disk, up, saved, queue, active, ctx, exec, history>>

CancelSave(s, t) ==
  /\ mu[s] = CancelSaving(t)
  /\ disk' = [disk EXCEPT ![t] = "cancelled"]
  /\ queue' = [queue EXCEPT ![s] = RemoveQueued(@, t)]
  /\ mu' = [mu EXCEPT ![s] = Pump]
  /\ Wrote(s)
  /\ UNCHANGED <<up, saved, active, ctx, exec, lost, orphans>>

\* saveTaskLocked fails before its rename: the record is as it was.
CancelFail(s, t) ==
  /\ SaveMayFail
  /\ mu[s] = CancelSaving(t)
  /\ mu' = [mu EXCEPT ![s] = Free]
  /\ UNCHANGED <<disk, up, saved, queue, active, ctx, exec, history>>

\* A running task: cancel its context if this manager executes it.
CancelRunning(s, t) ==
  /\ up[s] /\ mu[s] = Free
  /\ disk[t] = "running"
  /\ ctx[s][t] = "live"
  /\ ctx' = [ctx EXCEPT ![s][t] = "cancelled"]
  /\ UNCHANGED <<disk, up, saved, queue, active, exec, mu, history>>

----------------------------------------------------------------------------
(* execute *)

\* context.WithTimeout(taskTimeout)
Expire(s, t) ==
  /\ ctx[s][t] = "live"
  /\ ctx' = [ctx EXCEPT ![s][t] = "expired"]
  /\ UNCHANGED <<disk, up, saved, queue, active, exec, mu, history>>

\* taskTerminalStatus
TerminalStatus(c) ==
  IF c = "expired" THEN "timeout" ELSE IF c = "cancelled" THEN "cancelled" ELSE "done"

\* The executor will not return: its commands were killed with the context, and
\* it waits for an output that a process outside their groups holds.
Blocks(s, t) ==
  /\ exec[s][t] = "run"
  /\ exec' = [exec EXCEPT ![s][t] = "blocked"]
  /\ UNCHANGED <<disk, up, saved, queue, active, ctx, mu, history>>

\* The executor returned and the outcome is decided, before the file lock is
\* taken: the context may still change.  A record that cannot be read, a raw
\* executor that is missing or reports an error, end as failed.
Executed(s, t) ==
  /\ exec[s][t] = "run"
  /\ \E outcome \in {TerminalStatus(ctx[s][t]), "failed"} :
       exec' = [exec EXCEPT ![s][t] = outcome]
  /\ UNCHANGED <<disk, up, saved, queue, active, ctx, mu, history>>

\* finish or finishRaw writes the outcome under the file lock, only over a
\* running record.  If that fails, a second write of failed is tried.
Finish(s, t) ==
  /\ exec[s][t] \in Terminal
  /\ \E outcome \in {exec[s][t]} \cup (IF SaveMayFail THEN {"failed"} ELSE {}) :
       disk' = [disk EXCEPT ![t] = IF @ = "running" THEN outcome ELSE @]
  /\ exec' = [exec EXCEPT ![s][t] = "ended"]
  /\ Wrote(s)
  /\ UNCHANGED <<up, saved, queue, active, ctx, mu, lost, orphans>>

\* Both writes failed; the error is dropped and the record stays running.
FinishLost(s, t) ==
  /\ SaveMayFail
  /\ exec[s][t] \in Terminal
  /\ exec' = [exec EXCEPT ![s][t] = "ended"]
  /\ UNCHANGED <<disk, up, saved, queue, active, ctx, mu, orphans, writer>>
  /\ lost' = lost \cup {t}


\* The goroutine leaves active and pumps.
Release(s, t) ==
  /\ mu[s] = Free
  /\ exec[s][t] = "ended"
  /\ exec' = [exec EXCEPT ![s][t] = "none"]
  /\ ctx' = [ctx EXCEPT ![s][t] = "none"]
  /\ active' = [active EXCEPT ![s] = @ \ {t}]
  /\ mu' = [mu EXCEPT ![s] = Pump]
  /\ UNCHANGED <<disk, up, saved, queue, history>>

----------------------------------------------------------------------------
Init ==
  /\ disk = [t \in Tasks |-> "none"]
  /\ up = [s \in Servers |-> FALSE]
  /\ saved = [s \in Servers |-> {}]
  /\ queue = [s \in Servers |-> <<>>]
  /\ active = [s \in Servers |-> {}]
  /\ ctx = [s \in Servers |-> [t \in Tasks |-> "none"]]
  /\ exec = [s \in Servers |-> [t \in Tasks |-> "none"]]
  /\ mu = [s \in Servers |-> Free]
  /\ lost = {} /\ orphans = {}
  /\ writer = [t \in Tasks |-> NoServer]

\* The holder of manager.mu goes on.
MuStep(s) ==
  \/ PumpTake(s) \/ PumpStop(s)
  \/ \E t \in Tasks : PumpSave(s, t) \/ PumpDrop(s, t) \/ CancelSave(s, t) \/ CancelFail(s, t)

TaskStep(s, t) ==
  \/ StartEnqueue(s, t) \/ Executed(s, t) \/ Finish(s, t) \/ FinishLost(s, t) \/ Release(s, t)

Request(s, t) == StartSave(s, t) \/ CancelQueued(s, t) \/ CancelRunning(s, t)

Next ==
  \E s \in Servers :
    \/ NewTaskManager(s) \/ RecoverStops(s) \/ Exit(s) \/ MuStep(s)
    \/ \E t \in Tasks : TaskStep(s, t) \/ Request(s, t) \/ Expire(s, t) \/ Blocks(s, t)

Spec == Init /\ [][Next]_vars

\* Goroutines are scheduled, sync.Mutex hands itself to a waiter that was
\* passed over (its starvation mode), and an executor that is not blocked
\* returns: its commands end with their context.  Nothing obliges a process to
\* start, a client to call, a write to succeed, or a task to outlast its timeout.
Fairness ==
  \A s \in Servers :
    /\ WF_vars(MuStep(s))
    /\ \A t \in Tasks : /\ SF_vars(StartEnqueue(s, t) \/ Release(s, t))
                        /\ WF_vars(Executed(s, t) \/ Finish(s, t) \/ FinishLost(s, t))

FairSpec == Spec /\ Fairness

----------------------------------------------------------------------------
(* Properties *)

TypeOK ==
  /\ disk \in [Tasks -> TaskStatus]
  /\ up \in [Servers -> BOOLEAN]
  /\ saved \in [Servers -> SUBSET Tasks]
  /\ queue \in [Servers -> Seq(Tasks)]
  /\ active \in [Servers -> SUBSET Tasks]
  /\ ctx \in [Servers -> [Tasks -> {"none", "live", "cancelled", "expired"}]]
  /\ exec \in [Servers -> [Tasks -> {"none", "run", "blocked", "ended"} \cup Terminal]]
  /\ mu \in [Servers -> MuState]
  /\ lost \in SUBSET Tasks /\ orphans \in SUBSET Tasks
  /\ writer \in [Tasks -> Servers \cup {NoServer}]

\* A manager never runs more executors than MaxConcurrent, although the limit
\* is tested before the record is written and the goroutine is started.
BoundedActive == \A s \in Servers : Cardinality(active[s]) <= MaxConcurrent

\* No record is stuck in queued or running while the process that accepted it
\* lives, and none of a process that exited once a manager was built, however
\* many there are and whatever is started, cancelled, timed out or restarted:
\* only a write that failed at task.go:379 or task.go:419 may strand its own
\* task, and no other.  What a dead process left stays until the next start,
\* also beside a live server.
NoneStranded ==
  \A t \in Tasks \ (lost \cup orphans) :
    /\ disk[t] = "running" => \E s \in Servers : up[s] /\ Owned(s, t)
    /\ disk[t] = "queued" => \E s \in Servers : up[s] /\ Held(s, t)

\* The persisted records follow the lifecycle that ADR-014 promises, for any
\* number of processes, but for a record that another process changed between
\* the read and the write of a pump or a Cancel (task.go:368, task.go:378), which
\* then overwrites it: within one process nothing comes between the two.
Lifecycle == L!Spec

\* A manager that starts fails only tasks without a live executor, as the
\* reason it records says; so does a status command, which builds a manager.
OrphansHaveNoExecutor ==
  [][\A s \in Servers, t \in Tasks :
       NewTaskManager(s) /\ disk'[t] # disk[t] =>
         \A u \in Servers : exec[u][t] # "run"]_vars

\* The executor of the task never returns, or all that may run at once do not.
Jammed(s, t) ==
  \/ exec[s][t] = "blocked"
  \/ Cardinality({u \in Tasks : exec[s][u] = "blocked"}) >= MaxConcurrent

=============================================================================
