---------------------------- MODULE TaskRetention ----------------------------
(***************************************************************************)
(* The retention policy of internal/capability/verify/retention.go over    *)
(* the task records of task.go: a terminal record keeps its payload for    *)
(* ResultTTL, is then compacted to its metadata, and the metadata goes     *)
(* after MetadataTTL or when more than RecordCap compacted records exist.  *)
(* Retention runs under the file lock, at startup and at list time, and    *)
(* stops at the first write that fails.                                    *)
(***************************************************************************)
EXTENDS Naturals, FiniteSets

CONSTANTS
  MaxTask,      \* task identifiers are 1..MaxTask, in the order of their names
  MaxTime,      \* bound on the clock
  ResultTTL,    \* defaultResultTTL
  MetadataTTL,  \* terminalMetadataTTL
  RecordCap     \* terminalRecordCap

ASSUME RetentionAssumption ==
  /\ MaxTask \in Nat /\ MaxTime \in Nat
  /\ ResultTTL \in Nat \ {0} /\ MetadataTTL \in Nat /\ RecordCap \in Nat

Records == 1..MaxTask
Time == 0..MaxTime
Never == MaxTime + ResultTTL + 1    \* a zero time.Time

VARIABLES now, task
retentionVars == <<now, task>>

TaskRecord == [state : {"absent", "active", "terminal"}, finished : Time \cup {Never},
               expires : 0..Never, payload : BOOLEAN]
Absent == [state |-> "absent", finished |-> Never, expires |-> Never, payload |-> FALSE]

terminalTask(t) == task[t].state = "terminal"

Tick ==
  /\ now < MaxTime
  /\ now' = now + 1
  /\ UNCHANGED task

Start(t) ==
  /\ task[t] = Absent
  /\ task' = [task EXCEPT ![t] = [state |-> "active", finished |-> Never,
                                  expires |-> Never, payload |-> TRUE]]
  /\ UNCHANGED now

\* finish and finishRaw: the result expires ResultTTL after it was written.
EndWithResult(t) ==
  /\ task[t].state = "active"
  /\ task' = [task EXCEPT ![t].state = "terminal", ![t].finished = now,
                          ![t].expires = now + ResultTTL]
  /\ UNCHANGED now

\* recoverOrphans and the cancellation of a queued task set no ExpiresAt.
EndWithoutResult(t) ==
  /\ task[t].state = "active"
  /\ task' = [task EXCEPT ![t].state = "terminal", ![t].finished = now]
  /\ UNCHANGED now

----------------------------------------------------------------------------
(* retainTasks *)

\* Mutants: off-by-one in the TTL and in the cap, and the sort reversed.
ExpiredEarly(t) ==
  terminalTask(t) /\ task[t].payload /\ task[t].expires # Never /\ now + 1 >= task[t].expires
NotBeforeReversed(t, u) ==
  \/ task[u].finished < task[t].finished
  \/ task[u].finished = task[t].finished /\ u <= t

Expired(t) == terminalTask(t) /\ task[t].payload /\ task[t].expires # Never /\ now >= task[t].expires

Compacted == {t \in Records : terminalTask(t) /\ ~task[t].payload}

\* The records that are compacted once every expired payload is gone, sorted
\* by the time they finished and then by name.
ToSweep == Compacted \cup {t \in Records : Expired(t)}
NotBefore(t, u) ==
  \/ task[u].finished > task[t].finished
  \/ task[u].finished = task[t].finished /\ u >= t

TooOld(t) == now - task[t].finished > MetadataTTL
OverCapByOne(t) == Cardinality({u \in ToSweep : NotBefore(t, u)}) > RecordCap + 1
OverCap(t) == Cardinality({u \in ToSweep : NotBefore(t, u)}) > RecordCap

Compact(t) == [task[t] EXCEPT !.payload = FALSE]
Removable(t) == TooOld(t) \/ OverCap(t)

RetainTasks ==
  /\ task' = [t \in Records |->
       IF t \notin ToSweep THEN task[t] ELSE IF Removable(t) THEN Absent ELSE Compact(t)]
  /\ UNCHANGED now

\* A pass ends early: the write of an expired record fails, records being read
\* in the order of their names, or the removal of a compacted one, oldest
\* first.
RetainStops ==
  /\ \/ \E u \in Records :
          /\ Expired(u)
          /\ task' = [t \in Records |-> IF Expired(t) /\ t < u THEN Compact(t) ELSE task[t]]
     \/ \E u \in ToSweep :
          /\ Removable(u)
          /\ task' = [t \in Records |->
               IF t \notin ToSweep THEN task[t]
               ELSE IF Removable(t) /\ t # u /\ NotBefore(t, u) THEN Absent ELSE Compact(t)]
  /\ UNCHANGED now

----------------------------------------------------------------------------
RetentionInit == now = 0 /\ task = [t \in Records |-> Absent]

RetentionNext ==
  \/ Tick \/ RetainTasks \/ RetainStops
  \/ \E t \in Records : Start(t) \/ EndWithResult(t) \/ EndWithoutResult(t)

RetentionSpec == RetentionInit /\ [][RetentionNext]_retentionVars

----------------------------------------------------------------------------
(* Properties *)

RetentionTypeOK == now \in Time /\ task \in [Records -> TaskRecord]

\* A result can be read for the whole of its TTL: until then retention, its
\* cap included, neither compacts nor deletes the record.
ResultIsKept ==
  [][\A t \in Records : terminalTask(t) /\ task[t].payload /\ now < task[t].expires =>
       task'[t] = task[t]]_task

\* Only terminal records are removed, and the cap removes the oldest first: no
\* record goes while an older compacted one stays.
OldestGoesFirst ==
  [][\A t, u \in Records :
       /\ task[t].state # "absent" /\ task'[t].state = "absent"
       /\ task'[u].state = "terminal" /\ ~task'[u].payload
       => task[t].finished <= task[u].finished]_task

\* A retention pass that completes leaves at most RecordCap compacted records,
\* none of them past MetadataTTL.
CapHolds ==
  [][RetainTasks =>
       /\ Cardinality(Compacted') <= RecordCap
       /\ \A t \in Compacted' : now - task'[t].finished <= MetadataTTL]_retentionVars
=============================================================================
