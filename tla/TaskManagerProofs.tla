-------------------------- MODULE TaskManagerProofs --------------------------
(* Theorems about TaskManager, for every number of servers and tasks, and   *)
(* about TaskRetention, for every number of tasks, every TTL and every cap.  *)
EXTENDS TaskManager, TaskRetention, FiniteSetTheorems, SequenceTheorems,
        WellFoundedInduction, TLAPS

----------------------------------------------------------------------------
(* Types *)

\* The holder of manager.mu writes a record, or fails to.
MuSave(s, t) == PumpSave(s, t) \/ PumpDrop(s, t) \/ CancelSave(s, t) \/ CancelFail(s, t)

\* One step of any process leaves every variable in its type: records,
\* queues, contexts and goroutines of task.go never mix up their values.
LEMMA TypeStep == TypeOK /\ [Next]_vars => TypeOK'
<1> SUFFICES ASSUME TypeOK, [Next]_vars PROVE TypeOK'
  OBVIOUS
<1> USE TaskAssumption DEF TypeOK, MuState, Free, Pump, PumpSaving, CancelSaving,
                           TaskStatus, L!TaskStatus, Terminal, L!Terminal, Wrote, history
<1>1. CASE UNCHANGED vars
  BY <1>1 DEF vars, memory, history
<1>2. ASSUME NEW s \in Servers, NewTaskManager(s) PROVE TypeOK'
  BY <1>2 DEF NewTaskManager, memory
<1>3. ASSUME NEW s \in Servers, RecoverStops(s) PROVE TypeOK'
  BY <1>3 DEF RecoverStops, memory
<1>4. ASSUME NEW s \in Servers, Exit(s) PROVE TypeOK'
  BY <1>4 DEF Exit
<1>5. ASSUME NEW s \in Servers, PumpTake(s) PROVE TypeOK'
  <2>1. Head(queue[s]) \in Tasks /\ Tail(queue[s]) \in Seq(Tasks)
    BY <1>5 DEF PumpTake
  <2>2. queue' \in [Servers -> Seq(Tasks)] /\ mu' \in [Servers -> MuState]
    BY <1>5, <2>1 DEF PumpTake
  <2> QED
    BY <1>5, <2>2 DEF PumpTake
<1>6. ASSUME NEW s \in Servers, PumpStop(s) PROVE TypeOK'
  BY <1>6 DEF PumpStop
<1>7. ASSUME NEW s \in Servers, NEW t \in Tasks, TaskStep(s, t) \/ MuSave(s, t) PROVE TypeOK'
  <2>1. CASE StartEnqueue(s, t)
    BY <2>1 DEF StartEnqueue
  <2>2. CASE PumpSave(s, t)
    BY <2>2 DEF PumpSave
  <2>3. CASE PumpDrop(s, t)
    BY <2>3 DEF PumpDrop
  <2>4. CASE CancelSave(s, t)
    <3>1. RemoveQueued(queue[s], t) \in Seq(Tasks)
      <4>1. queue[s] \in Seq(Tasks)
        OBVIOUS
      <4>2. CASE \E i \in 1..Len(queue[s]) : queue[s][i] = t
        <5>1. PICK at \in 1..Len(queue[s]) :
                at = CHOOSE i \in 1..Len(queue[s]) : queue[s][i] = t
          BY <4>2
        <5>2. /\ SubSeq(queue[s], 1, at - 1) \in Seq(Tasks)
              /\ SubSeq(queue[s], at + 1, Len(queue[s])) \in Seq(Tasks)
          BY <4>1
        <5> QED
          BY <4>2, <5>1, <5>2 DEF RemoveQueued
      <4>3. CASE ~ \E i \in 1..Len(queue[s]) : queue[s][i] = t
        BY <4>1, <4>3 DEF RemoveQueued
      <4> QED
        BY <4>2, <4>3
    <3> QED
      BY <2>4, <3>1 DEF CancelSave
  <2>5. CASE CancelFail(s, t)
    BY <2>5 DEF CancelFail
  <2>6. CASE Executed(s, t)
    BY <2>6 DEF Executed, TerminalStatus
  <2>7. CASE Finish(s, t)
    BY <2>7 DEF Finish
  <2>8. CASE FinishLost(s, t)
    BY <2>8 DEF FinishLost
  <2>9. CASE Release(s, t)
    BY <2>9 DEF Release
  <2> QED
    BY <1>7, <2>1, <2>2, <2>3, <2>4, <2>5, <2>6, <2>7, <2>8, <2>9 DEF TaskStep, MuSave
<1>8. ASSUME NEW s \in Servers, NEW t \in Tasks, Request(s, t) PROVE TypeOK'
  <2>1. CASE StartSave(s, t)
    BY <2>1 DEF StartSave
  <2>2. CASE CancelQueued(s, t)
    BY <2>2 DEF CancelQueued
  <2>3. CASE CancelRunning(s, t)
    BY <2>3 DEF CancelRunning
  <2> QED
    BY <1>8, <2>1, <2>2, <2>3 DEF Request
<1>9. ASSUME NEW s \in Servers, NEW t \in Tasks, Expire(s, t) \/ Blocks(s, t) PROVE TypeOK'
  <2>1. CASE Expire(s, t)
    BY <2>1 DEF Expire
  <2>2. CASE Blocks(s, t)
    BY <2>2 DEF Blocks
  <2> QED
    BY <1>9, <2>1, <2>2
<1> QED
  BY <1>1, <1>2, <1>3, <1>4, <1>5, <1>6, <1>7, <1>8, <1>9 DEF Next, MuStep, MuSave

\* TypeOK is an invariant of the runtime.
THEOREM TypeCorrect == Spec => []TypeOK
<1>1. Init => TypeOK
  BY TaskAssumption DEF Init, TypeOK, MuState, Free, TaskStatus, L!TaskStatus, Terminal
<1> QED
  BY <1>1, TypeStep, PTL DEF Spec

----------------------------------------------------------------------------
(* The limit on running executors *)

\* BoundedActive alone is not inductive: the limit is tested when a task is
\* taken from the queue and used when the task starts.  In between, mu is held
\* and no other goroutine adds to active.
ActiveInv ==
  \A s \in Servers :
    /\ IsFiniteSet(active[s])
    /\ Cardinality(active[s]) <= MaxConcurrent
    /\ mu[s].op = "pump_save" => Cardinality(active[s]) < MaxConcurrent

\* Every step keeps the count of running tasks and its bound.
LEMMA ActiveStep == TypeOK /\ ActiveInv /\ [Next]_vars => ActiveInv'
<1> SUFFICES ASSUME TypeOK, ActiveInv, [Next]_vars PROVE ActiveInv'
  OBVIOUS
<1> USE TaskAssumption DEF TypeOK, MuState, ActiveInv
<1>1. ASSUME UNCHANGED <<active, mu>> PROVE ActiveInv'
  BY <1>1
<1>2. ASSUME NEW s \in Servers, UNCHANGED active,
             NEW m, m.op # "pump_save", mu' = [mu EXCEPT ![s] = m]
      PROVE  ActiveInv'
  BY <1>2
<1>3. CASE UNCHANGED vars
  BY <1>1, <1>3 DEF vars, memory
<1>4. ASSUME NEW s \in Servers, NewTaskManager(s) \/ RecoverStops(s) PROVE ActiveInv'
  BY <1>1, <1>4 DEF NewTaskManager, RecoverStops, memory
<1>5. ASSUME NEW s \in Servers, Exit(s) PROVE ActiveInv'
  BY <1>5, FS_EmptySet DEF Exit, Free
<1>6. ASSUME NEW s \in Servers, PumpTake(s) PROVE ActiveInv'
  BY <1>6 DEF PumpTake, Pump, PumpSaving
<1>7. ASSUME NEW s \in Servers, PumpStop(s) PROVE ActiveInv'
  BY <1>2, <1>7 DEF PumpStop, Free
<1>8. ASSUME NEW s \in Servers, NEW t \in Tasks, PumpSave(s, t) PROVE ActiveInv'
  <2>1. IsFiniteSet(active[s]) /\ Cardinality(active[s]) \in Nat
    BY FS_CardinalityType
  <2>2. Cardinality(active[s]) < MaxConcurrent
    BY <1>8 DEF PumpSave, PumpSaving
  <2>3. /\ IsFiniteSet(active[s] \cup {t})
        /\ Cardinality(active[s] \cup {t}) =
             IF t \in active[s] THEN Cardinality(active[s]) ELSE Cardinality(active[s]) + 1
    <3> HIDE DEF TypeOK, ActiveInv
    <3> QED
      BY <2>1, FS_AddElement
  <2>4. Cardinality(active[s] \cup {t}) <= MaxConcurrent
    BY <2>1, <2>2, <2>3
  <2> QED
    BY <1>8, <2>3, <2>4 DEF PumpSave, Pump
<1>9. ASSUME NEW s \in Servers, NEW t \in Tasks, Release(s, t) PROVE ActiveInv'
  <2>1. IsFiniteSet(active[s]) /\ Cardinality(active[s]) \in Nat
    BY FS_CardinalityType
  <2>2. /\ IsFiniteSet(active[s] \ {t})
        /\ Cardinality(active[s] \ {t}) =
             IF t \in active[s] THEN Cardinality(active[s]) - 1 ELSE Cardinality(active[s])
    <3> HIDE DEF TypeOK, ActiveInv
    <3> QED
      BY <2>1, FS_RemoveElement
  <2>3. Cardinality(active[s] \ {t}) <= MaxConcurrent
    BY <2>1, <2>2
  <2> QED
    BY <1>9, <2>2, <2>3 DEF Release, Pump
<1>10. ASSUME NEW s \in Servers, NEW t \in Tasks,
              StartEnqueue(s, t) \/ PumpDrop(s, t) \/ CancelSave(s, t) \/ CancelFail(s, t)
                \/ CancelQueued(s, t)
       PROVE  ActiveInv'
  BY <1>2, <1>10 DEF StartEnqueue, PumpDrop, CancelSave, CancelFail, CancelQueued,
                     Free, Pump, CancelSaving
<1>11. ASSUME NEW s \in Servers, NEW t \in Tasks,
              Executed(s, t) \/ Finish(s, t) \/ FinishLost(s, t) \/ StartSave(s, t)
                \/ CancelRunning(s, t) \/ Expire(s, t) \/ Blocks(s, t)
       PROVE  ActiveInv'
  BY <1>1, <1>11 DEF Executed, Finish, FinishLost, StartSave, CancelRunning, Expire, Blocks
<1> QED
  BY <1>3, <1>4, <1>5, <1>6, <1>7, <1>8, <1>9, <1>10, <1>11 DEF Next, MuStep, TaskStep, Request

\* No manager ever runs more than MaxConcurrent executors, for any number of
\* servers, tasks, failed writes and restarts.
THEOREM ActiveIsBounded == Spec => []BoundedActive
<1>1. Init => ActiveInv
  BY TaskAssumption, FS_EmptySet DEF Init, ActiveInv, Free
<1>2. ActiveInv => BoundedActive
  BY DEF ActiveInv, BoundedActive
<1> QED
  BY <1>1, <1>2, TypeCorrect, ActiveStep, PTL DEF Spec

----------------------------------------------------------------------------
(* The lifecycle of the persisted records, for any number of processes *)

\* A process that is down holds nothing; a record with a goroutine has been
\* started; and what pump and Cancel read without the file lock is still so when
\* they write, unless another process wrote it: their own process has no
\* goroutine for it and starts no task of that name.
Fresh(s) ==
  /\ ~up[s] => saved[s] = {} /\ mu[s] = Free /\ \A t \in Tasks : exec[s][t] = "none"
  /\ \A t \in Tasks : exec[s][t] # "none" => disk[t] \notin {"none", "queued"}
  /\ mu[s].op \in {"pump_save", "cancel_save"} =>
       /\ mu[s].task \in Tasks /\ disk[mu[s].task] # "none" /\ exec[s][mu[s].task] = "none"
       /\ disk[mu[s].task] = "queued" \/ writer[mu[s].task] # s

ReadIsFresh == \A s \in Servers : Fresh(s)

\* What a step of s leaves to the other processes: their memory, and records that
\* it did not write; it makes a record queued only when it creates it.
Alone(s) ==
  /\ \A u \in Servers \ {s} : /\ up'[u] = up[u] /\ saved'[u] = saved[u]
                             /\ mu'[u] = mu[u] /\ exec'[u] = exec[u]
  /\ \A t \in Tasks : \/ disk'[t] = disk[t] /\ writer'[t] = writer[t]
                      \/ /\ writer'[t] = s /\ disk'[t] # "none"
                         /\ disk'[t] = "queued" => disk[t] = "none"

\* Such a step makes no other process's read stale without its name on the record.
LEMMA OthersFresh ==
  ASSUME TypeOK, NEW s \in Servers, NEW u \in Servers \ {s}, Fresh(u), Alone(s)
  PROVE  Fresh(u)'
<1>1. up'[u] = up[u] /\ saved'[u] = saved[u] /\ mu'[u] = mu[u] /\ exec'[u] = exec[u]
  BY DEF Alone
<1>2. \A t \in Tasks : \/ disk'[t] = disk[t] /\ writer'[t] = writer[t]
                      \/ /\ writer'[t] = s /\ disk'[t] # "none"
                         /\ disk'[t] = "queued" => disk[t] = "none"
  BY DEF Alone
<1>3. \A t \in Tasks : exec'[u][t] # "none" => disk'[t] \notin {"none", "queued"}
  BY <1>1, <1>2 DEF Fresh
<1>4. mu'[u].op \in {"pump_save", "cancel_save"} =>
        /\ mu'[u].task \in Tasks /\ disk'[mu'[u].task] # "none" /\ exec'[u][mu'[u].task] = "none"
        /\ disk'[mu'[u].task] = "queued" \/ writer'[mu'[u].task] # u
  BY <1>1, <1>2 DEF Fresh
<1> QED
  BY <1>1, <1>3, <1>4 DEF Fresh

\* Every step of a process keeps its own reads fresh, and is a step of the
\* lifecycle.
LEMMA LifecycleStep ==
  ASSUME TypeOK, TypeOK', NEW s \in Servers, ReadIsFresh,
         \/ NewTaskManager(s) \/ RecoverStops(s) \/ Exit(s) \/ PumpTake(s) \/ PumpStop(s)
         \/ \E t \in Tasks : MuSave(s, t) \/ TaskStep(s, t) \/ Request(s, t) \/ Expire(s, t) \/ Blocks(s, t)
  PROVE  Fresh(s)' /\ Alone(s) /\ L!Next
<1> USE TaskAssumption DEF TypeOK, MuState, Free, Pump, PumpSaving, CancelSaving, ReadIsFresh, Fresh
<1> USE DEF TaskStatus, L!TaskStatus, Terminal, L!Terminal, history
<1>0. SUFFICES /\ Fresh(s)' /\ Alone(s)
               /\ \A t \in Tasks : \/ disk'[t] = disk[t]
                                   \/ disk[t] = "none" /\ disk'[t] = "queued"
                                   \/ L!Transition(disk[t], disk'[t])
                                   \/ Overtaken(s, t) /\ disk'[t] \in {"running", "cancelled"}
  BY DEF L!Next
<1>1. CASE NewTaskManager(s)
  BY <1>1 DEF NewTaskManager, memory, Wrote, Alone, L!Transition
<1>2. CASE RecoverStops(s)
  BY <1>2 DEF RecoverStops, memory, Wrote, Alone, L!Transition
<1>3. CASE Exit(s)
  BY <1>3 DEF Exit, Alone
<1>4. CASE PumpTake(s)
  <2>1. Head(queue[s]) \in Tasks
    BY <1>4 DEF PumpTake
  <2> QED
    BY <1>4, <2>1 DEF PumpTake, Alone
<1>5. CASE PumpStop(s)
  BY <1>5 DEF PumpStop, Alone
<1>6. ASSUME NEW t \in Tasks, MuSave(s, t)
      PROVE  /\ Fresh(s)' /\ Alone(s)
             /\ \A v \in Tasks : \/ disk'[v] = disk[v]
                                 \/ disk[v] = "none" /\ disk'[v] = "queued"
                                 \/ L!Transition(disk[v], disk'[v])
                                 \/ Overtaken(s, v) /\ disk'[v] \in {"running", "cancelled"}
  <2>1. CASE PumpSave(s, t)
    <3>0. mu[s].op = "pump_save" /\ mu[s].task = t
      BY <2>1 DEF PumpSave
    <3>1. disk[t] # "queued" => Overtaken(s, t)
      BY <3>0 DEF Overtaken
    <3>2. up[s] /\ exec[s][t] = "none"
      BY <3>0
    <3> QED
      BY <2>1, <3>0, <3>1, <3>2 DEF PumpSave, Wrote, Alone, L!Transition
  <2>2. CASE PumpDrop(s, t)
    BY <2>2 DEF PumpDrop, Alone
  <2>3. CASE CancelSave(s, t)
    <3>0. mu[s].op = "cancel_save" /\ mu[s].task = t
      BY <2>3 DEF CancelSave
    <3>1. disk[t] # "queued" => Overtaken(s, t)
      BY <3>0 DEF Overtaken
    <3> QED
      BY <2>3, <3>0, <3>1 DEF CancelSave, Wrote, Alone, L!Transition
  <2>4. CASE CancelFail(s, t)
    BY <2>4 DEF CancelFail, Alone
  <2> QED
    BY <1>6, <2>1, <2>2, <2>3, <2>4 DEF MuSave
<1>7. ASSUME NEW t \in Tasks, TaskStep(s, t)
      PROVE  /\ Fresh(s)' /\ Alone(s)
             /\ \A v \in Tasks : disk'[v] = disk[v] \/ L!Transition(disk[v], disk'[v])
  <2>1. CASE StartEnqueue(s, t)
    BY <2>1 DEF StartEnqueue, Alone
  <2>2. CASE Executed(s, t)
    BY <2>2 DEF Executed, Alone
  <2>3. CASE Finish(s, t)
    <3>1. PICK outcome : /\ outcome \in {exec[s][t], "failed"}
                         /\ disk' = [disk EXCEPT ![t] = IF @ = "running" THEN outcome ELSE @]
      BY <2>3 DEF Finish
    <3>2. /\ exec[s][t] \in Terminal /\ exec' = [exec EXCEPT ![s][t] = "ended"] /\ Wrote(s)
          /\ UNCHANGED <<up, saved, mu>>
      BY <2>3 DEF Finish
    <3>3. outcome \in Terminal /\ exec[s][t] # "none" /\ up[s]
      BY <3>1, <3>2
    <3>4. mu[s].op \in {"pump_save", "cancel_save"} => mu[s].task # t
      BY <3>3
    <3> QED
      BY <3>1, <3>2, <3>3, <3>4 DEF Wrote, Alone, L!Transition
  <2>4. CASE FinishLost(s, t)
    BY <2>4 DEF FinishLost, Alone
  <2>5. CASE Release(s, t)
    BY <2>5 DEF Release, Alone
  <2> QED
    BY <1>7, <2>1, <2>2, <2>3, <2>4, <2>5 DEF TaskStep
<1>8. ASSUME NEW t \in Tasks, Request(s, t) \/ Expire(s, t) \/ Blocks(s, t)
      PROVE  /\ Fresh(s)' /\ Alone(s)
             /\ \A v \in Tasks : disk'[v] = disk[v] \/ (disk[v] = "none" /\ disk'[v] = "queued")
  <2>1. CASE StartSave(s, t)
    <3>1. exec[s][t] = "none" /\ (mu[s].op \in {"pump_save", "cancel_save"} => mu[s].task # t)
      BY <2>1 DEF StartSave
    <3> QED
      BY <2>1, <3>1 DEF StartSave, Wrote, Alone
  <2>2. CASE CancelQueued(s, t)
    BY <2>2 DEF CancelQueued, Alone
  <2>3. CASE CancelRunning(s, t) \/ Expire(s, t)
    BY <2>3 DEF CancelRunning, Expire, Alone
  <2>4. CASE Blocks(s, t)
    BY <2>4 DEF Blocks, Alone
  <2> QED
    BY <1>8, <2>1, <2>2, <2>3, <2>4 DEF Request
<1> QED
  BY <1>1, <1>2, <1>3, <1>4, <1>5, <1>6, <1>7, <1>8

\* At first nothing is held, so no read is stale.
LEMMA FreshInit == Init => L!Init /\ ReadIsFresh
<1> SUFFICES ASSUME Init PROVE L!Init /\ ReadIsFresh
  OBVIOUS
<1>1. \A s \in Servers : mu[s].op = "free"
  BY DEF Init, Free
<1>2. {t \in Tasks : \E s \in Servers : Overtaken(s, t)} = {}
  BY <1>1 DEF Overtaken
<1>3. ReadIsFresh
  BY DEF Init, ReadIsFresh, Fresh, Free
<1> QED
  BY <1>2, <1>3 DEF Init, L!Init

\* A step of any process keeps every read fresh or marked, and is one of the lifecycle.
LEMMA FreshStep ==
  TypeOK /\ TypeOK' /\ ReadIsFresh /\ [Next]_vars
    => ReadIsFresh' /\ [L!Next]_<<disk, {t \in Tasks : \E s \in Servers : Overtaken(s, t)}>>
<1> SUFFICES ASSUME TypeOK, TypeOK', ReadIsFresh, [Next]_vars
             PROVE  ReadIsFresh' /\ [L!Next]_<<disk, {t \in Tasks : \E s \in Servers : Overtaken(s, t)}>>
  OBVIOUS
<1>1. CASE Next
  <2>1. PICK s \in Servers : Fresh(s)' /\ Alone(s) /\ L!Next
    BY <1>1, LifecycleStep DEF Next, MuStep, MuSave
  <2>2. \A u \in Servers \ {s} : Fresh(u)'
    BY <2>1, OthersFresh DEF ReadIsFresh
  <2> QED
    BY <2>1, <2>2 DEF ReadIsFresh
<1>2. CASE UNCHANGED vars
  <2>1. UNCHANGED <<disk, up, saved, exec, mu, writer>>
    BY <1>2 DEF vars, memory, history
  <2> QED
    BY <2>1 DEF ReadIsFresh, Fresh, Overtaken
<1> QED
  BY <1>1, <1>2

\* The task records implement the lifecycle for any number of processes, also
\* ones that start, stop and cancel beside each other: forward moves only and
\* terminal records immutable, but for a record that another process wrote
\* between the read and the write of a pump or a Cancel.
THEOREM LifecycleImplemented == Spec => Lifecycle
  BY FreshInit, FreshStep, TypeCorrect, PTL DEF Spec, Lifecycle, L!Spec

----------------------------------------------------------------------------
(* No record is stranded *)

InQueue(q, t) == \E i \in 1..Len(q) : q[i] = t

\* What a live process has for a record that is not final: its goroutine, or its
\* place in Start, queue or pump.
KeptBy(s, t) ==
  /\ up[s]
  /\ \/ disk[t] = "running" /\ Owned(s, t)
     \/ disk[t] = "queued" /\ (t \in saved[s] \/ InQueue(queue[s], t) \/ mu[s] = PumpSaving(t))

Kept(t) ==
  \/ t \in lost \cup orphans \/ disk[t] \notin {"queued", "running"}
  \/ \E s \in Servers : KeptBy(s, t)

\* removeQueued leaves the other tasks in the queue.
LEMMA RemoveOthers ==
  ASSUME NEW q \in Seq(Tasks), NEW t \in Tasks, NEW u \in Tasks \ {t}, InQueue(q, u)
  PROVE  InQueue(RemoveQueued(q, t), u)
<1>1. CASE ~InQueue(q, t)
  BY <1>1 DEF RemoveQueued, InQueue
<1>2. CASE InQueue(q, t)
  <2>1. PICK at \in 1..Len(q) :
          q[at] = t /\ RemoveQueued(q, t) = SubSeq(q, 1, at - 1) \o SubSeq(q, at + 1, Len(q))
    BY <1>2 DEF RemoveQueued, InQueue
  <2>2. PICK i \in 1..Len(q) : q[i] = u
    BY DEF InQueue
  <2> DEFINE a == SubSeq(q, 1, at - 1)
             b == SubSeq(q, at + 1, Len(q))
  <2>3. /\ a \in Seq(Tasks) /\ Len(a) = at - 1 /\ \A j \in 1..(at - 1) : a[j] = q[j]
        /\ b \in Seq(Tasks) /\ Len(b) = Len(q) - at /\ \A j \in 1..(Len(q) - at) : b[j] = q[at + j]
    OBVIOUS
  <2> HIDE DEF a, b
  <2>4. /\ Len(a \o b) = Len(a) + Len(b)
        /\ \A j \in 1..(Len(a) + Len(b)) : (a \o b)[j] = IF j <= Len(a) THEN a[j] ELSE b[j - Len(a)]
    BY <2>3, ConcatProperties
  <2>5. RemoveQueued(q, t) = a \o b
    BY <2>1 DEF a, b
  <2>6. CASE i < at
    <3>1. i \in 1..Len(a) /\ i \in 1..(Len(a) + Len(b)) /\ i <= Len(a)
      BY <2>3, <2>6
    <3>2. (a \o b)[i] = a[i] /\ a[i] = u
      BY <2>2, <2>3, <2>4, <3>1
    <3> QED
      BY <2>4, <2>5, <3>1, <3>2 DEF InQueue
  <2>7. CASE i > at
    <3>1. /\ i - 1 \in 1..(Len(a) + Len(b)) /\ ~(i - 1 <= Len(a)) /\ i - 1 - Len(a) = i - at
          /\ i - at \in 1..(Len(q) - at) /\ at + (i - at) = i
      BY <2>3, <2>7
    <3>2. (a \o b)[i - 1] = b[i - at] /\ b[i - at] = u
      BY <2>2, <2>3, <2>4, <3>1
    <3> QED
      BY <2>4, <2>5, <3>1, <3>2 DEF InQueue
  <2> QED
    BY <2>1, <2>2, <2>6, <2>7
<1> QED
  BY <1>1, <1>2

\* Taking the head of the queue leaves the other tasks in it.
LEMMA TailOthers ==
  ASSUME NEW q \in Seq(Tasks), q # <<>>, NEW u \in Tasks, InQueue(q, u), u # Head(q)
  PROVE  InQueue(Tail(q), u)
<1>1. PICK i \in 1..Len(q) : q[i] = u /\ i # 1
  BY DEF InQueue
<1>2. i - 1 \in 1..Len(Tail(q)) /\ Tail(q)[i - 1] = q[i]
  BY <1>1
<1> QED
  BY <1>1, <1>2 DEF InQueue

\* An appended task is in the queue, and so is what was there.
LEMMA AppendHolds ==
  ASSUME NEW q \in Seq(Tasks), NEW t \in Tasks, NEW u \in Tasks
  PROVE  InQueue(Append(q, t), t) /\ (InQueue(q, u) => InQueue(Append(q, t), u))
<1>1. /\ Len(Append(q, t)) = Len(q) + 1 /\ Len(q) \in Nat
      /\ Append(q, t)[Len(q) + 1] = t
      /\ \A i \in 1..Len(q) : Append(q, t)[i] = q[i]
  BY AppendProperties
<1> DEFINE r == Append(q, t)
<1> HIDE DEF r
<1>2. Len(r) = Len(q) + 1 /\ r[Len(q) + 1] = t /\ \A i \in 1..Len(q) : r[i] = q[i]
  BY <1>1 DEF r
<1>3. InQueue(r, t)
  BY <1>1, <1>2 DEF InQueue
<1>4. InQueue(q, u) => InQueue(r, u)
  BY <1>1, <1>2 DEF InQueue
<1> QED
  BY <1>3, <1>4 DEF r

\* A step of s leaves the memory of the other processes alone and excuses no
\* fewer tasks.
Frame(s) ==
  /\ \A w \in Servers \ {s} : /\ up'[w] = up[w] /\ saved'[w] = saved[w] /\ queue'[w] = queue[w]
                             /\ mu'[w] = mu[w] /\ exec'[w] = exec[w]
  /\ lost \cup orphans \subseteq lost' \cup orphans'

\* A step that does not touch a record keeps it, if what its own process has for
\* it is kept or excused.
LEMMA FrameKeeps ==
  ASSUME NEW s \in Servers, NEW u \in Tasks, Kept(u), Frame(s), disk'[u] = disk[u],
         KeptBy(s, u) => KeptBy(s, u)' \/ u \in lost' \cup orphans'
  PROVE  Kept(u)'
<1>1. CASE u \in lost \cup orphans \/ disk[u] \notin {"queued", "running"}
  BY <1>1 DEF Frame, Kept
<1>2. ASSUME NEW w \in Servers \ {s}, KeptBy(w, u) PROVE Kept(u)'
  <2>1. KeptBy(w, u)'
    BY <1>2 DEF Frame, KeptBy, Owned
  <2> QED
    BY <2>1 DEF Kept
<1>3. CASE KeptBy(s, u)
  BY <1>3 DEF Kept
<1> QED
  BY <1>1, <1>2, <1>3 DEF Kept

\* Every step keeps every record owned, held or excused.
LEMMA KeptStep ==
  ASSUME TypeOK, ReadIsFresh, NEW u \in Tasks, Kept(u), NEW s \in Servers,
         \/ NewTaskManager(s) \/ RecoverStops(s) \/ Exit(s) \/ PumpTake(s) \/ PumpStop(s)
         \/ \E t \in Tasks : MuSave(s, t) \/ TaskStep(s, t) \/ Request(s, t) \/ Expire(s, t) \/ Blocks(s, t)
  PROVE  Kept(u)'
<1>0. queue[s] \in Seq(Tasks) /\ exec[s] \in [Tasks -> {"none", "run", "blocked", "ended"} \cup Terminal]
      /\ (mu[s] # Free => up[s])
  BY DEF TypeOK, ReadIsFresh, Fresh
<1> USE DEF TypeOK, Terminal, L!Terminal, history
<1>1. CASE NewTaskManager(s)
  <2>1. disk'[u] \notin {"queued", "running"}
    BY <1>1 DEF NewTaskManager
  <2> QED
    BY <2>1 DEF Kept
<1>2. CASE RecoverStops(s)
  <2>1. disk'[u] = "failed" \/ disk'[u] = disk[u]
    BY <1>2 DEF RecoverStops
  <2>2. Frame(s) /\ (KeptBy(s, u) /\ disk'[u] = disk[u] => KeptBy(s, u)')
    BY <1>2 DEF RecoverStops, memory, Frame, KeptBy, Owned
  <2> QED
    BY <2>1, <2>2, FrameKeeps DEF Kept
<1>3. CASE Exit(s)
  <2>1. Frame(s) /\ disk' = disk /\ orphans' = orphans \cup {t \in Tasks : Held(s, t) \/ Owned(s, t)}
    BY <1>3 DEF Exit, Frame
  <2>2. KeptBy(s, u) => u \in orphans'
    BY <2>1 DEF KeptBy, Held, InQueue
  <2> QED
    BY <2>1, <2>2, FrameKeeps
<1>4. CASE PumpTake(s)
  <2>1. /\ queue[s] # <<>> /\ queue'[s] = Tail(queue[s]) /\ mu[s] = Pump
        /\ mu'[s] = IF disk[Head(queue[s])] = "queued" THEN PumpSaving(Head(queue[s])) ELSE Pump
        /\ UNCHANGED <<disk, up, saved, exec, history>> /\ Frame(s)
    BY <1>4 DEF PumpTake, Frame
  <2>2. mu[s] # PumpSaving(u)
    BY <2>1 DEF Pump, PumpSaving
  <2>3. u # Head(queue[s]) /\ InQueue(queue[s], u) => InQueue(queue'[s], u)
    BY <1>0, <2>1, TailOthers
  <2>4. KeptBy(s, u) => KeptBy(s, u)'
    BY <2>1, <2>2, <2>3 DEF KeptBy, Owned
  <2> QED
    BY <2>1, <2>4, FrameKeeps
<1>5. CASE PumpStop(s)
  <2>1. mu[s] = Pump /\ UNCHANGED <<disk, up, saved, queue, exec, history>> /\ Frame(s)
    BY <1>5 DEF PumpStop, Frame
  <2>2. mu[s] # PumpSaving(u)
    BY <2>1 DEF Pump, PumpSaving
  <2>3. KeptBy(s, u) => KeptBy(s, u)'
    BY <2>1, <2>2 DEF KeptBy, Owned
  <2> QED
    BY <2>1, <2>3, FrameKeeps
<1>6. ASSUME NEW t \in Tasks, MuSave(s, t) PROVE Kept(u)'
  <2>1. CASE PumpSave(s, t)
    <3>1. /\ mu[s] = PumpSaving(t) /\ disk' = [disk EXCEPT ![t] = "running"]
          /\ exec' = [exec EXCEPT ![s][t] = "run"]
          /\ UNCHANGED <<up, saved, queue>> /\ Frame(s)
      BY <2>1 DEF PumpSave, Frame
    <3>2. up[s]
      BY <1>0, <3>1 DEF PumpSaving, Free
    <3>3. CASE u = t
      BY <3>1, <3>2, <3>3 DEF Kept, KeptBy, Owned
    <3>4. CASE u # t
      <4>1. mu[s] # PumpSaving(u) /\ disk'[u] = disk[u] /\ exec'[s][u] = exec[s][u]
        BY <3>1, <3>4 DEF PumpSaving
      <4> QED
        BY <3>1, <4>1, FrameKeeps DEF KeptBy, Owned
    <3> QED
      BY <3>3, <3>4
  <2>2. CASE PumpDrop(s, t)
    <3>1. /\ mu[s] = PumpSaving(t) /\ lost' = lost \cup {t}
          /\ UNCHANGED <<disk, up, saved, queue, exec>> /\ Frame(s)
      BY <2>2 DEF PumpDrop, Frame
    <3>2. u # t => mu[s] # PumpSaving(u)
      BY <3>1 DEF PumpSaving
    <3> QED
      BY <3>1, <3>2, FrameKeeps DEF KeptBy, Owned
  <2>3. CASE CancelSave(s, t)
    <3>1. /\ mu[s] = CancelSaving(t) /\ disk' = [disk EXCEPT ![t] = "cancelled"]
          /\ queue'[s] = RemoveQueued(queue[s], t)
          /\ UNCHANGED <<up, saved, exec>> /\ Frame(s)
      BY <2>3 DEF CancelSave, Frame
    <3>2. CASE u = t
      BY <3>1, <3>2 DEF Kept
    <3>3. CASE u # t
      <4>1. mu[s] # PumpSaving(u) /\ disk'[u] = disk[u]
        BY <3>1, <3>3 DEF PumpSaving, CancelSaving
      <4>2. InQueue(queue[s], u) => InQueue(queue'[s], u)
        BY <1>0, <3>1, <3>3, RemoveOthers
      <4> QED
        BY <3>1, <4>1, <4>2, FrameKeeps DEF KeptBy, Owned
    <3> QED
      BY <3>2, <3>3
  <2>4. CASE CancelFail(s, t)
    <3>1. mu[s] = CancelSaving(t) /\ UNCHANGED <<disk, up, saved, queue, exec, history>> /\ Frame(s)
      BY <2>4 DEF CancelFail, Frame
    <3>2. mu[s] # PumpSaving(u)
      BY <3>1 DEF CancelSaving, PumpSaving
    <3>3. KeptBy(s, u) => KeptBy(s, u)'
      BY <3>1, <3>2 DEF KeptBy, Owned
    <3> QED
      BY <3>1, <3>3, FrameKeeps
  <2> QED
    BY <1>6, <2>1, <2>2, <2>3, <2>4 DEF MuSave
<1>7. ASSUME NEW t \in Tasks, TaskStep(s, t) PROVE Kept(u)'
  <2>1. CASE StartEnqueue(s, t)
    <3>1. /\ queue'[s] = Append(queue[s], t) /\ mu[s] = Free /\ saved'[s] = saved[s] \ {t}
          /\ UNCHANGED <<disk, up, exec, history>> /\ Frame(s)
      BY <2>1 DEF StartEnqueue, Frame
    <3>2. InQueue(queue'[s], t) /\ (InQueue(queue[s], u) => InQueue(queue'[s], u))
      BY <1>0, <3>1, AppendHolds
    <3>3. mu[s] # PumpSaving(u)
      BY <3>1 DEF Free, PumpSaving
    <3>4. KeptBy(s, u) => KeptBy(s, u)'
      BY <3>1, <3>2, <3>3 DEF KeptBy, Owned
    <3> QED
      BY <3>1, <3>4, FrameKeeps
  <2>2. CASE Executed(s, t)
    <3>1. PICK outcome \in {TerminalStatus(ctx[s][t]), "failed"} :
            exec' = [exec EXCEPT ![s][t] = outcome]
      BY <2>2 DEF Executed
    <3>2. outcome \in Terminal
      BY DEF TerminalStatus
    <3>3. exec'[s][u] = exec[s][u] \/ exec'[s][u] \in Terminal
      BY <3>1, <3>2
    <3>4. UNCHANGED <<disk, up, saved, queue, mu, history>> /\ Frame(s)
      BY <2>2 DEF Executed, Frame
    <3> QED
      BY <3>3, <3>4, FrameKeeps DEF KeptBy, Owned
  <2>3. CASE Finish(s, t)
    <3>1. PICK outcome : /\ outcome \in {exec[s][t], "failed"}
                         /\ disk' = [disk EXCEPT ![t] = IF @ = "running" THEN outcome ELSE @]
      BY <2>3 DEF Finish
    <3>2. /\ exec[s][t] \in Terminal /\ exec' = [exec EXCEPT ![s][t] = "ended"]
          /\ UNCHANGED <<up, saved, queue, mu>> /\ Frame(s)
      BY <2>3 DEF Finish, Frame
    <3>3. CASE disk'[u] # disk[u]
      <4>1. disk'[u] \in Terminal
        BY <3>1, <3>2, <3>3
      <4> QED
        BY <4>1 DEF Kept
    <3>4. CASE disk'[u] = disk[u]
      <4>1. disk[u] = "running" => u # t
        BY <3>1, <3>2, <3>4
      <4>2. u # t => exec'[s][u] = exec[s][u]
        BY <3>2
      <4> QED
        BY <3>2, <3>4, <4>1, <4>2, FrameKeeps DEF KeptBy, Owned
    <3> QED
      BY <3>3, <3>4
  <2>4. CASE FinishLost(s, t)
    <3>1. /\ exec' = [exec EXCEPT ![s][t] = "ended"] /\ lost' = lost \cup {t}
          /\ UNCHANGED <<disk, up, saved, queue, mu>> /\ Frame(s)
      BY <2>4 DEF FinishLost, Frame
    <3>2. u # t => exec'[s][u] = exec[s][u]
      BY <3>1
    <3> QED
      BY <3>1, <3>2, FrameKeeps DEF KeptBy, Owned
  <2>5. CASE Release(s, t)
    <3>1. /\ mu[s] = Free /\ exec[s][t] = "ended" /\ exec' = [exec EXCEPT ![s][t] = "none"]
          /\ UNCHANGED <<disk, up, saved, queue, history>> /\ Frame(s)
      BY <2>5 DEF Release, Frame
    <3>2. u # t => exec'[s][u] = exec[s][u]
      BY <3>1
    <3>3. mu[s] # PumpSaving(u)
      BY <3>1 DEF Free, PumpSaving
    <3>4. KeptBy(s, u) => KeptBy(s, u)'
      BY <3>1, <3>2, <3>3 DEF KeptBy, Owned
    <3> QED
      BY <3>1, <3>4, FrameKeeps
  <2> QED
    BY <1>7, <2>1, <2>2, <2>3, <2>4, <2>5 DEF TaskStep
<1>8. ASSUME NEW t \in Tasks, Request(s, t) \/ Expire(s, t) \/ Blocks(s, t) PROVE Kept(u)'
  <2>1. CASE StartSave(s, t)
    <3>1. /\ disk' = [disk EXCEPT ![t] = "queued"] /\ saved'[s] = saved[s] \cup {t} /\ up[s]
          /\ UNCHANGED <<up, queue, exec, mu, lost>> /\ Frame(s)
      BY <2>1 DEF StartSave, Frame
    <3>2. CASE u = t
      BY <3>1, <3>2 DEF Kept, KeptBy
    <3>3. CASE u # t
      <4>1. disk'[u] = disk[u]
        BY <3>1, <3>3
      <4> QED
        BY <3>1, <4>1, FrameKeeps DEF KeptBy, Owned
    <3> QED
      BY <3>2, <3>3
  <2>2. CASE CancelQueued(s, t)
    <3>1. mu[s] = Free /\ UNCHANGED <<disk, up, saved, queue, exec, history>> /\ Frame(s)
      BY <2>2 DEF CancelQueued, Frame
    <3>2. mu[s] # PumpSaving(u)
      BY <3>1 DEF Free, PumpSaving
    <3>3. KeptBy(s, u) => KeptBy(s, u)'
      BY <3>1, <3>2 DEF KeptBy, Owned
    <3> QED
      BY <3>1, <3>3, FrameKeeps
  <2>3. CASE CancelRunning(s, t) \/ Expire(s, t)
    <3>1. UNCHANGED <<disk, up, saved, queue, mu, exec, history>> /\ Frame(s)
      BY <2>3 DEF CancelRunning, Expire, Frame
    <3> QED
      BY <3>1, FrameKeeps DEF KeptBy, Owned
  <2>4. CASE Blocks(s, t)
    <3>1. exec' = [exec EXCEPT ![s][t] = "blocked"] /\ UNCHANGED <<disk, up, saved, queue, mu, history>> /\ Frame(s)
      BY <2>4 DEF Blocks, Frame
    <3>2. exec'[s][u] = exec[s][u] \/ exec'[s][u] = "blocked"
      BY <3>1
    <3> QED
      BY <3>1, <3>2, FrameKeeps DEF KeptBy, Owned
  <2> QED
    BY <1>8, <2>1, <2>2, <2>3, <2>4 DEF Request
<1> QED
  BY <1>1, <1>2, <1>3, <1>4, <1>5, <1>6, <1>7, <1>8

\* No record is stuck in queued or running while the process that accepted it
\* lives, nor one of a dead process once a manager was built, for any number of
\* processes and tasks and whatever is started, cancelled, timed out or
\* restarted; a write that failed strands only its own task.
THEOREM NoRecordStranded == Spec => []NoneStranded
<1> DEFINE AllKept == ReadIsFresh /\ \A t \in Tasks : Kept(t)
<1>1. Init => AllKept
  BY FreshInit DEF Init, Kept
<1>2. TypeOK /\ TypeOK' /\ AllKept /\ [Next]_vars => AllKept'
  <2> SUFFICES ASSUME TypeOK, TypeOK', AllKept, [Next]_vars PROVE AllKept'
    OBVIOUS
  <2>1. ReadIsFresh'
    BY FreshStep
  <2>2. ASSUME NEW u \in Tasks PROVE Kept(u)'
    <3>1. CASE Next
      BY <3>1, KeptStep DEF Next, MuStep, MuSave
    <3>2. CASE UNCHANGED vars
      <4>1. Kept(u) /\ UNCHANGED <<disk, up, saved, queue, mu, exec, lost, orphans>>
        BY <3>2 DEF vars, memory, history
      <4> QED
        BY <4>1 DEF Kept, KeptBy, Owned
    <3> QED
      BY <3>1, <3>2
  <2> QED
    BY <2>1, <2>2
<1>3. AllKept => NoneStranded
  BY DEF Kept, KeptBy, NoneStranded, Held, InQueue
<1> HIDE DEF AllKept
<1> QED
  BY <1>1, <1>2, <1>3, TypeCorrect, PTL DEF Spec

----------------------------------------------------------------------------
(***************************************************************************)
(* Retention, for every number of records and every setting of the TTLs    *)
(* and of the cap: RetentionSpec has variables of its own, the clock and   *)
(* the records with their times.                                           *)
(***************************************************************************)

\* The clock, and what retention compares, are numbers.
LEMMA RetentionNumbers ==
  ASSUME RetentionTypeOK
  PROVE  /\ now \in Nat /\ MetadataTTL \in Nat /\ RecordCap \in Nat /\ Never \in Nat
         /\ \A t \in Records : /\ t \in Nat /\ task[t] \in TaskRecord
                               /\ task[t].finished \in Nat /\ task[t].expires \in Nat
BY RetentionAssumption DEF RetentionTypeOK, TaskRecord, Time, Never, Records

\* What compaction changes of a record, and what it leaves.
LEMMA CompactRecord ==
  ASSUME RetentionTypeOK, NEW t \in Records
  PROVE  /\ Compact(t) \in TaskRecord /\ ~Compact(t).payload
         /\ Compact(t).state = task[t].state /\ Compact(t).finished = task[t].finished
<1>1. task[t] \in TaskRecord
  BY DEF RetentionTypeOK
<1> QED
  BY <1>1 DEF Compact, TaskRecord

LEMMA AbsentRecord ==
  Absent \in TaskRecord /\ Absent.state = "absent"
BY RetentionAssumption DEF Absent, TaskRecord, Never, Time

\* Every step of the clock, of a task and of retention keeps the records records.
LEMMA RetentionType ==
  ASSUME RetentionTypeOK, [RetentionNext]_retentionVars
  PROVE  RetentionTypeOK'
<1>0. /\ now \in Time /\ task \in [Records -> TaskRecord]
      /\ \A t \in Records : Compact(t) \in TaskRecord
      /\ Absent \in TaskRecord
  BY CompactRecord, AbsentRecord DEF RetentionTypeOK
<1>1. CASE Tick
  BY <1>0, <1>1, RetentionAssumption DEF Tick, RetentionTypeOK, Time
<1>2. ASSUME NEW t \in Records, Start(t) PROVE RetentionTypeOK'
  <2>1. [state |-> "active", finished |-> Never, expires |-> Never, payload |-> TRUE]
          \in TaskRecord
    BY RetentionAssumption DEF TaskRecord, Never
  <2> QED
    BY <1>0, <1>2, <2>1 DEF Start, RetentionTypeOK
<1>3. ASSUME NEW t \in Records, EndWithResult(t) \/ EndWithoutResult(t) PROVE RetentionTypeOK'
  <2>1. now + ResultTTL \in 0..Never
    BY <1>0, RetentionAssumption DEF Time, Never
  <2>2. task[t] \in TaskRecord
    BY <1>0
  <2>3. /\ [task[t] EXCEPT !.state = "terminal", !.finished = now, !.expires = now + ResultTTL]
             \in TaskRecord
        /\ [task[t] EXCEPT !.state = "terminal", !.finished = now] \in TaskRecord
    BY <1>0, <2>1, <2>2 DEF TaskRecord
  <2> QED
    BY <1>0, <1>3, <2>3 DEF EndWithResult, EndWithoutResult, RetentionTypeOK
<1>4. CASE RetainTasks
  BY <1>0, <1>4 DEF RetainTasks, RetentionTypeOK
<1>5. CASE RetainStops
  BY <1>0, <1>5 DEF RetainStops, RetentionTypeOK
<1>6. CASE UNCHANGED retentionVars
  BY <1>6 DEF retentionVars, RetentionTypeOK
<1> QED
  BY <1>1, <1>2, <1>3, <1>4, <1>5, <1>6 DEF RetentionNext

LEMMA RetentionTypeCorrect == RetentionSpec => []RetentionTypeOK
<1>1. RetentionInit => RetentionTypeOK
  BY AbsentRecord, RetentionAssumption DEF RetentionInit, RetentionTypeOK, Time
<1>2. RetentionTypeOK /\ [RetentionNext]_retentionVars => RetentionTypeOK'
  BY RetentionType
<1> QED
  BY <1>1, <1>2, PTL DEF RetentionSpec

\* The steps that change a record: one of its own task, or retention's.
LEMMA RecordSteps ==
  ASSUME [RetentionNext]_retentionVars, task' # task
  PROVE  \/ RetainTasks \/ RetainStops
         \/ \E t \in Records : Start(t) \/ EndWithResult(t) \/ EndWithoutResult(t)
BY DEF RetentionNext, retentionVars, Tick

(***************************************************************************)
(* A finished result stays readable for the whole of its TTL, however many *)
(* other records the cap and the passes that stop half-way remove          *)
(* (ResultIsKept).                                                         *)
(***************************************************************************)
THEOREM ResultKept == RetentionSpec => ResultIsKept
<1>1. ASSUME RetentionTypeOK, [RetentionNext]_retentionVars, task' # task, NEW t \in Records,
             terminalTask(t), task[t].payload, now < task[t].expires
      PROVE  task'[t] = task[t]
  <2>1. ~Expired(t) /\ t \notin ToSweep
    BY <1>1, RetentionNumbers DEF Expired, ToSweep, Compacted
  <2>2. CASE RetainTasks \/ RetainStops
    BY <2>1, <2>2 DEF RetainTasks, RetainStops
  <2>3. ASSUME NEW u \in Records, Start(u) \/ EndWithResult(u) \/ EndWithoutResult(u)
        PROVE  task'[t] = task[t]
    <3>1. u # t
      BY <1>1, <2>3, AbsentRecord DEF Start, EndWithResult, EndWithoutResult, terminalTask
    <3> QED
      BY <1>1, <2>3, <3>1 DEF Start, EndWithResult, EndWithoutResult, RetentionTypeOK
  <2> QED
    BY <1>1, <2>2, <2>3, RecordSteps
<1>2. RetentionTypeOK /\ [RetentionNext]_retentionVars =>
        [\A t \in Records : terminalTask(t) /\ task[t].payload /\ now < task[t].expires =>
           task'[t] = task[t]]_task
  BY <1>1
<1> QED
  BY <1>2, RetentionTypeCorrect, PTL DEF RetentionSpec, ResultIsKept

\* The records from t on, in the order of the sweep.
From(t) == {u \in ToSweep : NotBefore(t, u)}

LEMMA SweepFinite ==
  \A S \in SUBSET ToSweep : IsFiniteSet(S) /\ Cardinality(S) \in Nat
<1>1. IsFiniteSet(Records)
  BY FS_Interval, RetentionAssumption DEF Records
<1>2. ToSweep \subseteq Records
  BY DEF ToSweep, Compacted
<1>3. ASSUME NEW S \in SUBSET ToSweep PROVE IsFiniteSet(S) /\ Cardinality(S) \in Nat
  <2>1. IsFiniteSet(S)
    BY <1>1, <1>2, FS_Subset
  <2> QED
    BY <2>1, FS_CardinalityType
<1> QED
  BY <1>3

\* What makes a record removable makes every older one removable.
LEMMA OlderRemovable ==
  ASSUME RetentionTypeOK, NEW t \in Records, NEW u \in Records,
         Removable(t), task[u].finished < task[t].finished
  PROVE  Removable(u)
<1>0. /\ now \in Nat /\ MetadataTTL \in Nat /\ RecordCap \in Nat
      /\ \A v \in Records : v \in Nat /\ task[v].finished \in Nat
  BY RetentionNumbers
<1>1. CASE TooOld(t)
  BY <1>0, <1>1 DEF TooOld, Removable
<1>2. CASE OverCap(t)
  <2>1. From(t) \subseteq From(u)
    <3>1. ToSweep \subseteq Records
      BY DEF ToSweep, Compacted
    <3> QED
      BY <1>0, <3>1 DEF From, NotBefore
  <2>2. From(u) \in SUBSET ToSweep /\ From(t) \in SUBSET ToSweep
    BY DEF From
  <2>3. IsFiniteSet(From(u)) /\ Cardinality(From(u)) \in Nat /\ Cardinality(From(t)) \in Nat
    BY <2>2, SweepFinite
  <2>4. Cardinality(From(t)) <= Cardinality(From(u))
    BY <2>1, <2>3, FS_Subset
  <2>5. Cardinality(From(t)) > RecordCap
    BY <1>2 DEF OverCap, From
  <2>6. Cardinality(From(u)) > RecordCap
    BY <1>0, <2>3, <2>4, <2>5
  <2> QED
    BY <2>6 DEF OverCap, Removable, From
<1> QED
  BY <1>1, <1>2 DEF Removable

(***************************************************************************)
(* A pass removes the oldest compacted records first, also when it stops   *)
(* at a removal that fails (OldestGoesFirst).                              *)
(***************************************************************************)
THEOREM OldestFirst == RetentionSpec => OldestGoesFirst
<1>1. ASSUME RetentionTypeOK, [RetentionNext]_retentionVars, task' # task, NEW t \in Records, NEW u \in Records,
             task[t].state # "absent", task'[t].state = "absent",
             task'[u].state = "terminal", ~task'[u].payload
      PROVE  task[t].finished <= task[u].finished
  <2>0. /\ \A v \in Records : v \in Nat /\ task[v].finished \in Nat
        /\ task \in [Records -> TaskRecord]
    BY <1>1, RetentionNumbers DEF RetentionTypeOK
  <2>1. Absent.state = "absent" /\ Compact(t).state = task[t].state
    BY <1>1, AbsentRecord, CompactRecord
  <2>2. ASSUME NEW v \in Records, Start(v) \/ EndWithResult(v) \/ EndWithoutResult(v) PROVE FALSE
    <3>1. v = t
      BY <1>1, <2>0, <2>2 DEF Start, EndWithResult, EndWithoutResult
    <3>2. task[t] \in TaskRecord
      BY <2>0
    <3> QED
      BY <1>1, <2>0, <2>2, <3>1, <3>2 DEF Start, EndWithResult, EndWithoutResult, TaskRecord
  <2>3. u \notin ToSweep => task'[u] # task[u]
    <3>1. task[u].state = "terminal" /\ ~task[u].payload => u \in ToSweep
      BY DEF ToSweep, Compacted, terminalTask
    <3> QED
      BY <1>1, <3>1
  <2>4. CASE RetainTasks
    <3>1. t \in ToSweep /\ Removable(t)
      BY <1>1, <2>1, <2>4 DEF RetainTasks
    <3>2. u \in ToSweep /\ ~Removable(u)
      BY <1>1, <2>1, <2>3, <2>4 DEF RetainTasks
    <3> QED
      BY <1>1, <2>0, <3>1, <3>2, OlderRemovable
  <2>5. CASE RetainStops
    <3>1. PICK v \in ToSweep :
            /\ Removable(v)
            /\ task' = [w \in Records |->
                 IF w \notin ToSweep THEN task[w]
                 ELSE IF Removable(w) /\ w # v /\ NotBefore(w, v) THEN Absent
                 ELSE Compact(w)]
      BY <1>1, <2>1, <2>5 DEF RetainStops
    <3>2. Removable(t) /\ NotBefore(t, v)
      BY <1>1, <2>1, <3>1
    <3>3. ~(Removable(u) /\ u # v /\ NotBefore(u, v))
      BY <1>1, <2>1, <2>3, <3>1
    <3>4. v \in Records
      BY DEF ToSweep, Compacted
    <3>5. task[u].finished < task[t].finished => u # v /\ NotBefore(u, v)
      BY <2>0, <3>2, <3>4 DEF NotBefore
    <3> QED
      BY <1>1, <2>0, <3>2, <3>3, <3>5, OlderRemovable
  <2> QED
    BY <1>1, <2>2, <2>4, <2>5, RecordSteps
<1>2. RetentionTypeOK /\ [RetentionNext]_retentionVars =>
        [\A t, u \in Records :
           /\ task[t].state # "absent" /\ task'[t].state = "absent"
           /\ task'[u].state = "terminal" /\ ~task'[u].payload
           => task[t].finished <= task[u].finished]_task
  BY <1>1
<1> QED
  BY <1>2, RetentionTypeCorrect, PTL DEF RetentionSpec, OldestGoesFirst

\* Every set of numbers has a least one.
LEMMA LeastOf == ASSUME NEW S \in SUBSET Nat, S # {} PROVE \E m \in S : \A n \in S : m <= n
<1> DEFINE Below == {ss \in Nat \X Nat : ss[1] < ss[2]}
<1>1. IsWellFoundedOn(Below, Nat)
  BY NatLessThanWellFounded DEF OpToRel
<1>2. \A x, y \in Nat : x < y => <<x, y>> \in Below
  OBVIOUS
<1> HIDE DEF Below
<1>3. PICK m \in S : \A n \in S : <<n, m>> \notin Below
  BY <1>1, WFMin
<1>4. ASSUME NEW n \in S PROVE m <= n
  <2>1. n \in Nat /\ m \in Nat
    OBVIOUS
  <2>2. ~(n < m)
    BY <1>2, <1>3, <2>1, Zenon
  <2> QED
    BY <2>1, <2>2
<1> QED
  BY <1>4

\* Among some records one is first in the order of the sweep.
LEMMA FirstOf ==
  ASSUME RetentionTypeOK, NEW S \in SUBSET Records, S # {}
  PROVE  \E m \in S : \A u \in S : NotBefore(m, u)
<1>0. \A t \in Records : t \in Nat /\ task[t].finished \in Nat
  BY RetentionNumbers
<1> DEFINE Times == {task[t].finished : t \in S}
<1>1. Times \in SUBSET Nat /\ Times # {}
  BY <1>0
<1>2. PICK f \in Times : \A g \in Times : f <= g
  BY <1>1, LeastOf
<1> DEFINE Oldest == {t \in S : task[t].finished = f}
<1>3. Oldest \in SUBSET Nat /\ Oldest # {}
  BY <1>0, <1>2
<1>4. PICK m \in Oldest : \A n \in Oldest : m <= n
  BY <1>3, LeastOf
<1>5. ASSUME NEW u \in S PROVE NotBefore(m, u)
  <2>1. task[m].finished = f /\ f <= task[u].finished /\ f \in Nat /\ m \in Nat
    BY <1>1, <1>2, <1>3, <1>4
  <2>2. task[u].finished = f => m <= u
    BY <1>4
  <2> QED
    BY <1>0, <2>1, <2>2 DEF NotBefore
<1> QED
  BY <1>5

(***************************************************************************)
(* A pass that completes leaves at most RecordCap compacted records and    *)
(* none past MetadataTTL, whatever earlier passes that stopped half-way    *)
(* left behind (CapHolds).                                                 *)
(***************************************************************************)
THEOREM CapKept == RetentionSpec => CapHolds
<1>1. ASSUME RetentionTypeOK, RetainTasks
      PROVE  /\ Cardinality(Compacted') <= RecordCap
             /\ \A t \in Compacted' : now - task'[t].finished <= MetadataTTL
  <2>0. now \in Nat /\ RecordCap \in Nat /\ MetadataTTL \in Nat
        /\ \A t \in Records : task[t].finished \in Nat
    BY <1>1, RetentionNumbers
  <2>1. ASSUME NEW t \in Compacted'
        PROVE  /\ t \in Records /\ t \in ToSweep /\ ~Removable(t)
               /\ task'[t].finished = task[t].finished
    <3>1. t \in Records /\ task'[t].state = "terminal" /\ ~task'[t].payload
      BY <2>1 DEF Compacted, terminalTask
    <3>2. t \in ToSweep
      BY <1>1, <3>1 DEF RetainTasks, ToSweep, Compacted, terminalTask
    <3>3. ~Removable(t)
      BY <1>1, <3>1, <3>2, AbsentRecord DEF RetainTasks
    <3>4. task'[t] = Compact(t)
      BY <1>1, <3>1, <3>2, <3>3 DEF RetainTasks
    <3> QED
      BY <1>1, <3>1, <3>2, <3>3, <3>4, CompactRecord
  <2>2. \A t \in Compacted' : now - task'[t].finished <= MetadataTTL
    BY <2>0, <2>1 DEF Removable, TooOld
  <2> DEFINE K == Compacted'
  <2>3. K \in SUBSET ToSweep /\ K \in SUBSET Records
    BY <2>1
  <2>4. CASE K = {}
    BY <2>0, <2>2, <2>4, FS_EmptySet
  <2>5. CASE K # {}
    <3>1. PICK m \in K : \A u \in K : NotBefore(m, u)
      BY <1>1, <2>3, <2>5, FirstOf
    <3>2. K \subseteq From(m) /\ From(m) \in SUBSET ToSweep
      BY <2>3, <3>1 DEF From
    <3>3. IsFiniteSet(From(m)) /\ Cardinality(From(m)) \in Nat /\ Cardinality(K) \in Nat
      BY <2>3, <3>2, SweepFinite
    <3>4. Cardinality(K) <= Cardinality(From(m))
      BY <3>2, <3>3, FS_Subset
    <3>5. ~(Cardinality(From(m)) > RecordCap)
      BY <2>1, <3>1 DEF Removable, OverCap, From
    <3>6. Cardinality(K) <= RecordCap
      BY <2>0, <3>3, <3>4, <3>5
    <3> QED
      BY <2>2, <3>6
  <2> QED
    BY <2>4, <2>5
<1>2. RetentionTypeOK /\ [RetentionNext]_retentionVars =>
        [RetainTasks =>
           /\ Cardinality(Compacted') <= RecordCap
           /\ \A t \in Compacted' : now - task'[t].finished <= MetadataTTL]_retentionVars
  BY <1>1
<1> QED
  BY <1>2, RetentionTypeCorrect, PTL DEF RetentionSpec, CapHolds

=============================================================================
