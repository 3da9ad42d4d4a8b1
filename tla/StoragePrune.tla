---------------------------- MODULE StoragePrune ----------------------------
(***************************************************************************)
(* `jacu storage prune --apply` of internal/capability/storage/storage.go, *)
(* invoked several times at once beside the workspace and the task         *)
(* capabilities.  An invocation builds its plan without the run lock, in   *)
(* three readings (runs, archives, the rest), reads the clock again, and   *)
(* then applies one action after the other, each revalidated and executed  *)
(* in a lock section of its own: archives, task retention, the toolchain   *)
(* home, run records, the empty worktree parent.  What must survive is the *)
(* run record as long as it is the only proof that an archived patch       *)
(* belongs to the harness.                                                 *)
(*                                                                         *)
(* A lock section is one step.  The workspace and task operations are      *)
(* reduced to what they do to the files that prune reads (Workspace and    *)
(* TaskManager have their steps).  A file's inode is a generation number;  *)
(* an archive is good when its bytes have the digest its record names.     *)
(***************************************************************************)
EXTENDS Naturals, FiniteSets

CONSTANTS
  Pruners,     \* invocations of storage prune --apply, each of which runs once
  NumRuns,     \* run identifiers are 1..NumRuns, in the order of their names
  Tasks,       \* task identifiers
  Retention,   \* retentionAge
  MaxTime,     \* bound on the clock
  MaxGen,      \* bound on how often a record is saved
  MaxMade,     \* bound on how often a patch or a directory is made
  MaxFaults    \* bound on crashes, failed removals and outside interference

ASSUME StorageAssumption ==
  /\ NumRuns \in Nat /\ Retention \in Nat \ {0}
  /\ MaxTime \in Nat /\ MaxGen \in Nat \ {0}
  /\ MaxMade \in 1..MaxGen /\ MaxFaults \in Nat

VARIABLES
  now,       \* the clock
  rec,       \* .git/jacu/runs/<run>.json
  wt,        \* the runs whose worktree directory exists
  archive,   \* .git/jacu/archive/<run>.patch
  task,      \* status of the task records
  tool,      \* <state>/toolchain-home/<project>
  parent,    \* <state>/worktrees/<project>
  pr,        \* the plan and the progress of each prune invocation
  faults,    \* how often something outside the normal course happened
  slow       \* history: runs whose archive was removed by an invocation that
             \* planned for a retention age or longer

files == <<rec, wt, archive, task, tool, parent>>
vars == <<now, files, pr, faults, slow>>

----------------------------------------------------------------------------
(* Values *)

Runs == 1..NumRuns
Time == 0..MaxTime
Gen == 0..MaxGen

Record == [status : {"none", "active", "applied", "discarded", "unreadable"},
           mtime : Time, ref : BOOLEAN, gen : Gen]
Gone(g) == [status |-> "none", mtime |-> 0, ref |-> FALSE, gen |-> g]
NoRecord == Gone(0)

Patch == [there : BOOLEAN, good : BOOLEAN, mtime : Time, gen : Gen]
NoPatch(g) == [there |-> FALSE, good |-> FALSE, mtime |-> 0, gen |-> g]

\* mtime is the newest time in the tree; nothing reads the parent's.
Folder == [there : BOOLEAN, mtime : Time, gen : Gen]

Plan == [pc : {"idle", "archives", "rest", "planned", "apply", "done"},
         at : Time,                      \* the clock of the plan
         clock : Time,                   \* the clock of the revalidation
         seen : [Runs -> Record],        \* the map reportRuns returns
         arch : [Runs -> Gen],           \* planned archives, with their inode
         recs : [Runs -> Gen],           \* planned records, with their inode
         tasks : BOOLEAN, tool : Gen, parent : Gen,
         applied : SUBSET Runs]          \* appliedArchives
IdlePlan == [pc |-> "idle", at |-> 0, clock |-> 0, seen |-> [r \in Runs |-> NoRecord],
             arch |-> [r \in Runs |-> 0], recs |-> [r \in Runs |-> 0],
             tasks |-> FALSE, tool |-> 0, parent |-> 0, applied |-> {}]

Old(t, at) == t + Retention <= at

Exists(r) == rec[r].status # "none"
Empty(x) == \A r \in Runs : x[r] = 0
First(x, r) == x[r] # 0 /\ \A s \in Runs : x[s] # 0 => r <= s

----------------------------------------------------------------------------
(* What the plan and the revalidation decide *)

\* Mutant: a record whose worktree is still there is taken for finished.
TerminalAgedAnywhere(r, at) ==
  /\ rec[r].status \in {"applied", "discarded"}
  /\ Old(rec[r].mtime, at)

\* terminalAgedRun, of a record that runstate.Load accepts.  Its CreatedAt is never
\* later than the time of its file, so the older of the two tests is implied.
TerminalAged(r, at) ==
  /\ rec[r].status \in {"applied", "discarded"}
  /\ Old(rec[r].mtime, at)
  /\ r \notin wt

\* archiveMatches: the record names the file, the file is old and its bytes
\* have the recorded digest.
ArchiveMatches(run, r, at) ==
  run.ref /\ archive[r].there /\ Old(archive[r].mtime, at) /\ archive[r].good

\* hasActiveState: an open, reviewed or unreadable run, or a task that is
\* not terminal.
HasActiveState ==
  \/ \E r \in Runs : rec[r].status \in {"active", "unreadable"}
  \/ \E t \in Tasks : task[t] = "active"

\* revalidate, one operator per owner, with the second reading of the clock.
\* The time of an archive is the one the plan saw (action.info): old by the first
\* reading, it is old by the second.
ArchiveValid(p, r) ==
  /\ archive[r].there /\ archive[r].gen = pr[p].arch[r]
  /\ TerminalAged(r, pr[p].clock)
  /\ rec[r].ref /\ archive[r].good

\* Mutant: absence of the archive is proof enough.
RecordValidIfAbsent(p, r) ==
  /\ Exists(r) /\ rec[r].gen = pr[p].recs[r]
  /\ TerminalAged(r, pr[p].clock)
  /\ rec[r].ref => ~archive[r].there

RecordValid(p, r) ==
  /\ Exists(r) /\ rec[r].gen = pr[p].recs[r]
  /\ TerminalAged(r, pr[p].clock)
  /\ rec[r].ref => r \in pr[p].applied /\ ~archive[r].there

\* Mutant: what the plan found idle is not looked at again.
ToolchainValidAsPlanned(p) ==
  tool.there /\ tool.gen = pr[p].tool /\ Old(tool.mtime, pr[p].clock)

ToolchainValid(p) ==
  /\ tool.there /\ tool.gen = pr[p].tool
  /\ ~HasActiveState
  /\ Old(tool.mtime, pr[p].clock)

ParentValid(p) == parent.there /\ parent.gen = pr[p].parent /\ wt = {}

----------------------------------------------------------------------------
(* The rest of the harness *)

Fault == faults < MaxFaults /\ faults' = faults + 1

Tick ==
  /\ now < MaxTime
  /\ now' = now + 1
  /\ UNCHANGED <<files, pr, faults, slow>>

\* Save, of a record r that exists: a new file is renamed over the old one.
Saved(r, status, ref) ==
  [rec[r] EXCEPT !.status = status, !.ref = ref, !.mtime = now, !.gen = @ + 1]

ParentMade == IF parent.there THEN parent
              ELSE [there |-> TRUE, mtime |-> 0, gen |-> parent.gen + 1]

\* openUnlocked: the parent directory, the worktree, the record.
Open(r) ==
  /\ rec[r] = NoRecord
  /\ ParentMade.gen <= MaxMade
  /\ rec' = [rec EXCEPT ![r] = [status |-> "active", mtime |-> now,
                                ref |-> FALSE, gen |-> 1]]
  /\ wt' = wt \cup {r}
  /\ parent' = ParentMade
  /\ UNCHANGED <<now, archive, task, tool, pr, faults, slow>>

\* Apply: the record becomes applied, then the worktree is removed, which
\* may fail and leave it.
Apply(r, removed) ==
  /\ rec[r].status = "active" /\ r \in wt
  /\ rec[r].gen < MaxGen
  /\ rec' = [rec EXCEPT ![r] = Saved(r, "applied", rec[r].ref)]
  /\ wt' = IF removed THEN wt \ {r} ELSE wt
  /\ UNCHANGED <<now, archive, task, tool, parent, pr, faults, slow>>

NewPatch(r) == [archive EXCEPT ![r] = [there |-> TRUE, good |-> TRUE, mtime |-> now,
                                       gen |-> archive[r].gen + 1]]

\* Mutant: the record is marked discarded and the patch is written after.
DiscardPresentLateArchive(r, diff, far) ==
  /\ rec[r].status \in {"active", "discarded"} /\ r \in wt
  /\ rec[r].gen < MaxGen
  /\ rec' = [rec EXCEPT ![r] = Saved(r, "discarded", diff)]
  /\ wt' = wt \ {r}
  /\ UNCHANGED <<now, archive, task, tool, parent, pr, faults, slow>>

(***************************************************************************)
(* discardRun while the worktree exists: the diff is archived and the      *)
(* record saved with the reference to it (an empty diff clears the         *)
(* reference and leaves an older archive where it is).  The worktree       *)
(* removal may fail ("saved"), what follows it may fail ("removed"), or    *)
(* the run ends up discarded ("done").                                     *)
(***************************************************************************)
DiscardPresent(r, diff, far) ==
  /\ rec[r].status \in {"active", "discarded"} /\ r \in wt
  /\ rec[r].gen < MaxGen
  /\ diff => archive[r].gen < MaxMade
  /\ archive' = IF diff THEN NewPatch(r) ELSE archive
  /\ rec' = [rec EXCEPT ![r] =
               Saved(r, IF far = "done" THEN "discarded" ELSE rec[r].status, diff)]
  /\ wt' = IF far = "saved" THEN wt ELSE wt \ {r}
  /\ UNCHANGED <<now, task, tool, parent, pr, faults, slow>>

\* discardRun after the worktree is gone: a referenced archive must still be
\* the recorded one.
DiscardAbsent(r) ==
  /\ rec[r].status \in {"active", "discarded"} /\ r \notin wt
  /\ rec[r].ref => archive[r].there /\ archive[r].good
  /\ rec[r].gen < MaxGen
  /\ rec' = [rec EXCEPT ![r] = Saved(r, "discarded", rec[r].ref)]
  /\ UNCHANGED <<now, wt, archive, task, tool, parent, pr, faults, slow>>

TaskStart(t) ==
  /\ task[t] = "none"
  /\ task' = [task EXCEPT ![t] = "active"]
  /\ UNCHANGED <<now, rec, wt, archive, tool, parent, pr, faults, slow>>

TaskFinish(t) ==
  /\ task[t] = "active"
  /\ task' = [task EXCEPT ![t] = "terminal"]
  /\ UNCHANGED <<now, rec, wt, archive, tool, parent, pr, faults, slow>>

----------------------------------------------------------------------------
(* Interference from outside the lock *)

\* A record that json.Unmarshal no longer accepts.
Damage(r) ==
  /\ rec[r].status \in {"active", "applied", "discarded"} /\ Fault
  /\ rec' = [rec EXCEPT ![r].status = "unreadable"]
  /\ UNCHANGED <<now, wt, archive, task, tool, parent, pr, slow>>

\* The bytes of an archive change and its time does not.
Tamper(r) ==
  /\ archive[r].there /\ archive[r].good /\ Fault
  /\ archive' = [archive EXCEPT ![r].good = FALSE]
  /\ UNCHANGED <<now, rec, wt, task, tool, parent, pr, slow>>

Lose(r) ==
  /\ archive[r].there /\ Fault
  /\ archive' = [archive EXCEPT ![r] = NoPatch(archive[r].gen)]
  /\ UNCHANGED <<now, rec, wt, task, tool, parent, pr, slow>>

\* A copy of the recorded patch is put back, with the time it had.
Restore(r) ==
  /\ rec[r].ref /\ archive[r].gen < MaxMade /\ Fault
  /\ archive' = [archive EXCEPT ![r] = [there |-> TRUE, good |-> TRUE,
                   mtime |-> rec[r].mtime, gen |-> archive[r].gen + 1]]
  /\ UNCHANGED <<now, rec, wt, task, tool, parent, pr, slow>>

\* The directory of a worktree is removed or made again by hand.
DropWorktree(r) ==
  /\ r \in wt /\ Fault
  /\ wt' = wt \ {r}
  /\ UNCHANGED <<now, rec, archive, task, tool, parent, pr, slow>>

MakeWorktree(r) ==
  /\ Exists(r) /\ r \notin wt /\ ParentMade.gen <= MaxMade /\ Fault
  /\ wt' = wt \cup {r}
  /\ parent' = ParentMade
  /\ UNCHANGED <<now, rec, archive, task, tool, pr, slow>>

----------------------------------------------------------------------------
(* storage prune --apply *)

\* reportRuns: the terminal aged records; the ones that name no archive are
\* planned at once.
PlanRuns(p) ==
  /\ pr[p].pc = "idle"
  /\ LET seen == [r \in Runs |-> IF TerminalAged(r, now) THEN rec[r] ELSE NoRecord]
     IN pr' = [pr EXCEPT ![p] =
          [IdlePlan EXCEPT !.pc = "archives", !.at = now, !.seen = seen,
             !.recs = [r \in Runs |-> IF seen[r].ref THEN 0 ELSE seen[r].gen]]]
  /\ UNCHANGED <<now, files, faults, slow>>

\* reportArchives: the archives that match a record read before, and these
\* records after them.
PlanArchives(p) ==
  /\ pr[p].pc = "archives"
  /\ LET seen == pr[p].seen
         matched == {r \in Runs : ArchiveMatches(seen[r], r, pr[p].at)}
     IN pr' = [pr EXCEPT ![p].pc = "rest", ![p].seen = IdlePlan.seen,
          ![p].arch = [r \in Runs |-> IF r \in matched THEN archive[r].gen ELSE 0],
          ![p].recs = [r \in Runs |-> IF r \in matched THEN seen[r].gen ELSE @[r]]]
  /\ UNCHANGED <<now, files, faults, slow>>

\* reportTasks, reportToolchain and reportWorktrees.
PlanRest(p) ==
  /\ pr[p].pc = "rest"
  /\ pr' = [pr EXCEPT ![p].pc = "planned",
       ![p].tasks = \E t \in Tasks : task[t] # "none",
       ![p].tool = IF tool.there /\ Old(tool.mtime, pr[p].at) /\ ~HasActiveState
                   THEN tool.gen ELSE 0,
       ![p].parent = IF parent.there /\ wt = {} THEN parent.gen ELSE 0]
  /\ UNCHANGED <<now, files, faults, slow>>

\* PruneWithOptions has its plan and reads the clock for the revalidations.
ReadClock(p) ==
  /\ pr[p].pc = "planned"
  /\ pr' = [pr EXCEPT ![p].pc = "apply", ![p].clock = now]
  /\ UNCHANGED <<now, files, faults, slow>>

\* The actions before the archive's, the tasks', ... are done (actionOrder).
Applying(p) == pr[p].pc = "apply"
PastArchives(p) == Applying(p) /\ Empty(pr[p].arch)
PastTasks(p) == PastArchives(p) /\ ~pr[p].tasks
PastToolchain(p) == PastTasks(p) /\ pr[p].tool = 0
PastRecords(p) == PastToolchain(p) /\ Empty(pr[p].recs)

\* One archive action: skipped, applied, or failed at os.Remove.
ApplyArchive(p, r) ==
  /\ Applying(p) /\ First(pr[p].arch, r)
  /\ LET done == [pr EXCEPT ![p].arch[r] = 0]
     IN \/ /\ ~ArchiveValid(p, r)
           /\ pr' = done
           /\ UNCHANGED <<archive, faults, slow>>
        \/ /\ ArchiveValid(p, r)
           /\ archive' = [archive EXCEPT ![r] = NoPatch(archive[r].gen)]
           /\ pr' = [done EXCEPT ![p].applied = @ \cup {r}]
           /\ slow' = IF Old(pr[p].at, pr[p].clock) THEN slow \cup {r} ELSE slow
           /\ UNCHANGED faults
        \/ /\ ArchiveValid(p, r) /\ Fault
           /\ pr' = done
           /\ UNCHANGED <<archive, slow>>
  /\ UNCHANGED <<now, rec, wt, task, tool, parent>>

\* The task action, delegated to verify.RetainTasksAt (TaskRetention): any
\* terminal records may go, and no other.
ApplyTasks(p, gone) ==
  /\ PastArchives(p) /\ pr[p].tasks
  /\ gone \subseteq {t \in Tasks : task[t] = "terminal"}
  /\ task' = [t \in Tasks |-> IF t \in gone THEN "none" ELSE task[t]]
  /\ pr' = [pr EXCEPT ![p].tasks = FALSE]
  /\ UNCHANGED <<now, rec, wt, archive, tool, parent, faults, slow>>

\* removeTree, which may stop half-way and leave a younger directory.
ApplyToolchain(p) ==
  /\ PastTasks(p) /\ pr[p].tool # 0
  /\ pr' = [pr EXCEPT ![p].tool = 0]
  /\ \/ ~ToolchainValid(p) /\ UNCHANGED <<tool, faults>>
     \/ /\ ToolchainValid(p)
        /\ tool' = [tool EXCEPT !.there = FALSE, !.mtime = 0]
        /\ UNCHANGED faults
     \/ ToolchainValid(p) /\ tool' = [tool EXCEPT !.mtime = now] /\ Fault
  /\ UNCHANGED <<now, rec, wt, archive, task, parent, slow>>

ApplyRecord(p, r) ==
  /\ PastToolchain(p) /\ First(pr[p].recs, r)
  /\ pr' = [pr EXCEPT ![p].recs[r] = 0]
  /\ \/ ~RecordValid(p, r) /\ UNCHANGED <<rec, faults>>
     \/ /\ RecordValid(p, r)
        /\ rec' = [rec EXCEPT ![r] = Gone(rec[r].gen)]
        /\ UNCHANGED faults
     \/ RecordValid(p, r) /\ Fault /\ UNCHANGED rec
  /\ UNCHANGED <<now, wt, archive, task, tool, parent, slow>>

ApplyParent(p) ==
  /\ PastRecords(p) /\ pr[p].parent # 0
  /\ pr' = [pr EXCEPT ![p].parent = 0]
  /\ \/ ~ParentValid(p) /\ UNCHANGED <<parent, faults>>
     \/ /\ ParentValid(p)
        /\ parent' = [parent EXCEPT !.there = FALSE]
        /\ UNCHANGED faults
     \/ ParentValid(p) /\ Fault /\ UNCHANGED parent
  /\ UNCHANGED <<now, rec, wt, archive, task, tool, slow>>

\* The report is returned and appliedArchives is forgotten.
Finish(p) ==
  /\ PastRecords(p) /\ pr[p].parent = 0
  /\ pr' = [pr EXCEPT ![p] = [IdlePlan EXCEPT !.pc = "done"]]
  /\ UNCHANGED <<now, files, faults, slow>>

Crash(p) ==
  /\ pr[p].pc \notin {"idle", "done"} /\ Fault
  /\ pr' = [pr EXCEPT ![p] = [IdlePlan EXCEPT !.pc = "done"]]
  /\ UNCHANGED <<now, files, slow>>

----------------------------------------------------------------------------
(* Specification *)

\* A toolchain home of an earlier version is there; verifications have one of
\* their own by now (core.go:288), so nothing writes below it any more.
Init ==
  /\ now = 0
  /\ rec = [r \in Runs |-> NoRecord]
  /\ wt = {}
  /\ archive = [r \in Runs |-> NoPatch(0)]
  /\ task = [t \in Tasks |-> "none"]
  /\ tool = [there |-> TRUE, mtime |-> 0, gen |-> 1]
  /\ parent = [there |-> FALSE, mtime |-> 0, gen |-> 0]
  /\ pr = [p \in Pruners |-> IdlePlan]
  /\ faults = 0 /\ slow = {}

Harness ==
  \/ Tick
  \/ \E r \in Runs :
       \/ Open(r)
       \/ \E removed \in BOOLEAN : Apply(r, removed)
       \/ \E diff \in BOOLEAN, far \in {"saved", "removed", "done"} :
            DiscardPresent(r, diff, far)
       \/ DiscardAbsent(r)
  \/ \E t \in Tasks : TaskStart(t) \/ TaskFinish(t)

Outside ==
  \E r \in Runs : \/ Damage(r) \/ Tamper(r) \/ Lose(r) \/ Restore(r)
                  \/ DropWorktree(r) \/ MakeWorktree(r)

Prune(p) ==
  \/ PlanRuns(p) \/ PlanArchives(p) \/ PlanRest(p) \/ ReadClock(p)
  \/ \E r \in Runs : ApplyArchive(p, r) \/ ApplyRecord(p, r)
  \/ \E gone \in SUBSET Tasks : ApplyTasks(p, gone)
  \/ ApplyToolchain(p) \/ ApplyParent(p) \/ Finish(p) \/ Crash(p)

Next == Harness \/ Outside \/ \E p \in Pruners : Prune(p)

Spec == Init /\ [][Next]_vars

----------------------------------------------------------------------------
(* Properties *)

TypeOK ==
  /\ now \in Time /\ faults \in 0..MaxFaults /\ slow \subseteq Runs
  /\ rec \in [Runs -> Record]
  /\ wt \subseteq Runs
  /\ archive \in [Runs -> Patch]
  /\ task \in [Tasks -> {"none", "active", "terminal"}]
  /\ tool \in Folder /\ parent \in Folder
  /\ pr \in [Pruners -> Plan]

(***************************************************************************)
(* A run record that names an archive leaves the disk only after an        *)
(* invocation that is still running removed that archive itself, and with  *)
(* the archive still absent: neither another process, nor a user who       *)
(* deletes or restores the patch, nor a crash makes prune drop the record  *)
(* that proves whom a patch belongs to (appliedArchives and the Lstat in   *)
(* revalidate).                                                            *)
(***************************************************************************)
RecordOutlivesArchive ==
  [][\A r \in Runs :
       Exists(r) /\ rec'[r].status = "none" /\ rec[r].ref =>
         ~archive[r].there /\ \E p \in Pruners : r \in pr[p].applied]_vars

(***************************************************************************)
(* Whatever happened between the plan and the removal, a record that goes  *)
(* is readable and terminal, is older than the retention age, and has no   *)
(* worktree; an archive that an invocation removes still carries the       *)
(* digest of such a record (revalidate under the lock).                    *)
(***************************************************************************)
OnlyAgedTerminalGoes ==
  [][\A r \in Runs :
       LET finished == /\ rec[r].status \in {"applied", "discarded"}
                       /\ Old(rec[r].mtime, now) /\ r \notin wt
       IN /\ Exists(r) /\ rec'[r].status = "none" => finished
          /\ (\E p \in Pruners : r \in pr'[p].applied \ pr[p].applied) =>
               finished /\ rec[r].ref /\ archive[r].good]_vars

(***************************************************************************)
(* The directories all runs share go only when nobody uses them: the       *)
(* toolchain home never while a run is open or unreadable or a task is     *)
(* running, the parent of the worktrees never while there is a worktree,   *)
(* though the plan looked before they appeared (hasActiveState and the     *)
(* ReadDir in revalidate).                                                 *)
(***************************************************************************)
SharedGoesIdle ==
  [][/\ tool.there /\ ~tool'.there =>
          /\ \A r \in Runs : rec[r].status \notin {"active", "unreadable"}
          /\ \A t \in Tasks : task[t] # "active"
     /\ parent.there /\ ~parent'.there => wt = {}]_vars

(***************************************************************************)
(* As long as nothing crashed, failed or was changed by hand, a terminal   *)
(* record whose archive is gone is one that a running invocation is about  *)
(* to remove: no record is stranded without its archive, which prune would *)
(* then keep for ever as "archive-unproven", also when it is saved again   *)
(* between the plan and its execution.  The exception is an invocation     *)
(* that planned for a whole retention age: by the second reading of the    *)
(* clock (storage.go:106-109) a record saved since the plan is old enough  *)
(* to lose its archive, and another file than the planned one.             *)
(***************************************************************************)
NoStrandedRecord ==
  faults = 0 =>
    \A r \in Runs \ slow : rec[r].ref /\ ~archive[r].there =>
      \E p \in Pruners : r \in pr[p].applied /\ pr[p].recs[r] = rec[r].gen

=============================================================================
