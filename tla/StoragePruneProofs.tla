------------------------- MODULE StoragePruneProofs -------------------------
(***************************************************************************)
(* Proofs about StoragePrune for any number of invocations, runs and       *)
(* tasks, any retention age and any number of faults.                      *)
(*                                                                         *)
(* NoStrandedRecord is not inductive.  It needs to know that a record that *)
(* was saved again since the plan is younger than it (Kept), that what an  *)
(* invocation did lives only while it executes its plan (Memory), and that *)
(* a record whose archive is gone stays eligible (Pending).  The second    *)
(* reading of the clock enters where an archive goes: a record younger     *)
(* than the plan and old by the second reading makes the invocation slow.  *)
(***************************************************************************)
EXTENDS StoragePrune, TLAPS

(***************************************************************************)
(* The inductive invariant                                                 *)
(***************************************************************************)

\* A record that exists, or once existed, has an inode; one that does not
\* names no archive.
Numbered ==
  \A r \in Runs : /\ Exists(r) => rec[r].gen # 0
                  /\ ~Exists(r) => ~rec[r].ref

\* Neither reading of an invocation is ahead of the clock, and archives are
\* remembered as applied only while the plan is executed.
Memory ==
  \A p \in Pruners : /\ pr[p].at <= now /\ pr[p].clock <= now
                     /\ pr[p].pc # "apply" => pr[p].applied = {}

\* The record read for a plan is still the one on disk, or it was saved
\* after the invocation started, or it is gone.
SameRecord(p, r, g) == rec[r].gen = g \/ pr[p].at <= rec[r].mtime \/ ~Exists(r)

\* The archives are planned.
Matched == {"rest", "planned", "apply"}

Kept ==
  \A p \in Pruners, r \in Runs :
    /\ pr[p].pc = "archives" /\ pr[p].seen[r].ref =>
         SameRecord(p, r, pr[p].seen[r].gen)
    /\ pr[p].pc \in Matched /\ pr[p].arch[r] # 0 =>
         SameRecord(p, r, pr[p].recs[r])
    /\ pr[p].pc \notin Matched => pr[p].arch[r] = 0

\* Without faults, the record of an archive that p removed is gone, or still
\* eligible and without its archive.
Pending ==
  faults = 0 =>
    \A p \in Pruners, r \in Runs : r \in pr[p].applied =>
      \/ ~Exists(r) /\ rec[r].gen # 0
      \/ TerminalAged(r, pr[p].clock) /\ rec[r].ref /\ ~archive[r].there

PruneInv == TypeOK /\ Numbered /\ Memory /\ Kept /\ Pending /\ NoStrandedRecord

----------------------------------------------------------------------------
(* Types *)

\* The initial plan of an invocation, and the numbers the steps use, are typed.
LEMMA Constants ==
  /\ 0 \in Gen /\ 1 \in Gen /\ 0 \in Time
  /\ NoRecord \in Record
  /\ IdlePlan \in Plan
  /\ [IdlePlan EXCEPT !.pc = "done"] \in Plan
  <1>1. 0 \in Gen /\ 1 \in Gen /\ 0 \in Time
    BY StorageAssumption DEF Gen, Time
  <1>2. NoRecord \in Record
    BY <1>1 DEF NoRecord, Gone, Record
  <1> QED
    BY <1>1, <1>2 DEF Plan, IdlePlan

\* Save replaces a record by a record.
LEMMA SavedType ==
  ASSUME TypeOK, NEW r \in Runs, rec[r].gen < MaxGen, NEW ref \in BOOLEAN,
         NEW status \in {"active", "applied", "discarded"}
  PROVE  Saved(r, status, ref) \in Record
  <1>1. rec[r] \in Record /\ now \in Time
    BY DEF TypeOK
  <1>2. rec[r].gen + 1 \in Gen
    BY <1>1, StorageAssumption DEF Record, Gen
  <1> QED
    BY <1>1, <1>2 DEF Saved, Record

\* So does the creation of the worktree parent.
LEMMA ParentType ==
  ASSUME TypeOK, ParentMade.gen <= MaxMade
  PROVE  ParentMade \in Folder
  <1>1. CASE parent.there
    BY <1>1 DEF TypeOK, ParentMade
  <1>2. CASE ~parent.there
    <2>1. parent.gen \in Nat
      BY DEF TypeOK, Folder, Gen
    <2>2. parent.gen + 1 \in Gen
      BY <1>2, <2>1, StorageAssumption DEF ParentMade, Gen
    <2> QED
      BY <1>2, <2>2, Constants DEF ParentMade, Folder
  <1> QED
    BY <1>1, <1>2

\* Every state the harness and prune reach is well typed (TypeOK).
LEMMA TypeInit == Init => TypeOK
  <1> SUFFICES ASSUME Init PROVE TypeOK
    OBVIOUS
  <1>1. NoPatch(0) \in Patch
    BY Constants DEF NoPatch, Patch
  <1>2. tool \in Folder /\ parent \in Folder
    BY Constants DEF Init, Folder
  <1> QED
    BY <1>1, <1>2, Constants, StorageAssumption DEF Init, TypeOK

\* A step of the harness or of prune changes no type (TypeOK).
LEMMA TypeNext == TypeOK /\ [Next]_vars => TypeOK'
  <1> SUFFICES ASSUME TypeOK, [Next]_vars PROVE TypeOK'
    OBVIOUS
  <1> USE DEF Fault, files
  <1>a. Fault => faults' \in 0..MaxFaults
    BY StorageAssumption DEF TypeOK
  <1>b. \A p \in Pruners : pr[p] \in Plan
    BY DEF TypeOK
  <1>c. \A r \in Runs : archive[r] \in Patch /\ rec[r] \in Record
    BY DEF TypeOK
  <1>1. CASE Tick
    BY <1>1, StorageAssumption DEF Tick, Time, TypeOK
  <1>3. ASSUME NEW r \in Runs, Open(r) PROVE TypeOK'
    <2>1. [status |-> "active", mtime |-> now, ref |-> FALSE, gen |-> 1]
            \in Record
      BY Constants DEF TypeOK, Record
    <2> QED
      BY <1>3, <2>1, ParentType DEF Open, TypeOK
  <1>4. ASSUME NEW r \in Runs, NEW removed \in BOOLEAN, Apply(r, removed) PROVE TypeOK'
    <2>1. Saved(r, "applied", rec[r].ref) \in Record
      BY <1>c, <1>4, SavedType DEF Apply, Record
    <2> QED
      BY <1>4, <2>1 DEF Apply, TypeOK
  <1>5. ASSUME NEW r \in Runs, NEW diff \in BOOLEAN, NEW far \in {"saved", "removed", "done"},
               DiscardPresent(r, diff, far)
        PROVE TypeOK'
    <2>1. Saved(r, IF far = "done" THEN "discarded" ELSE rec[r].status, diff) \in Record
      BY <1>5, SavedType DEF DiscardPresent
    <2>2. rec' \in [Runs -> Record]
      BY <1>5, <2>1 DEF DiscardPresent, TypeOK
    <2>3. archive' \in [Runs -> Patch]
      <3>1. CASE diff
        <4>1. archive[r].gen + 1 \in Gen
          BY <1>c, <1>5, <3>1, StorageAssumption DEF DiscardPresent, Patch, Gen
        <4>2. [there |-> TRUE, good |-> TRUE, mtime |-> now, gen |-> archive[r].gen + 1]
                \in Patch
          BY <4>1 DEF Patch, TypeOK
        <4> QED
          BY <1>5, <3>1, <4>2 DEF DiscardPresent, NewPatch, TypeOK
      <3> QED
        BY <1>5, <3>1 DEF DiscardPresent, TypeOK
    <2> QED
      BY <1>5, <2>2, <2>3 DEF DiscardPresent, TypeOK
  <1>6. ASSUME NEW r \in Runs, DiscardAbsent(r) PROVE TypeOK'
    <2>1. Saved(r, "discarded", rec[r].ref) \in Record
      BY <1>c, <1>6, SavedType DEF DiscardAbsent, Record
    <2> QED
      BY <1>6, <2>1 DEF DiscardAbsent, TypeOK
  <1>7. ASSUME NEW t \in Tasks, TaskStart(t) \/ TaskFinish(t) PROVE TypeOK'
    BY <1>7 DEF TaskStart, TaskFinish, TypeOK
  <1>8. ASSUME NEW r \in Runs, Damage(r) PROVE TypeOK'
    <2>1. [rec[r] EXCEPT !.status = "unreadable"] \in Record
      BY <1>c DEF Record
    <2> QED
      BY <1>a, <1>8, <2>1 DEF Damage, TypeOK
  <1>9. ASSUME NEW r \in Runs, Tamper(r) \/ Lose(r) \/ Restore(r) PROVE TypeOK'
    <2>1. [archive[r] EXCEPT !.good = FALSE] \in Patch /\ NoPatch(archive[r].gen) \in Patch
      BY <1>c, Constants DEF NoPatch, Patch
    <2>2. archive[r].gen < MaxMade =>
            [there |-> TRUE, good |-> TRUE, mtime |-> rec[r].mtime,
             gen |-> archive[r].gen + 1] \in Patch
      BY <1>c, StorageAssumption DEF Patch, Record, Gen
    <2>3. archive' \in [Runs -> Patch]
      BY <1>9, <2>1, <2>2 DEF Tamper, Lose, Restore, TypeOK
    <2> QED
      BY <1>a, <1>9, <2>3 DEF Tamper, Lose, Restore, TypeOK
  <1>10. ASSUME NEW r \in Runs, DropWorktree(r) \/ MakeWorktree(r) PROVE TypeOK'
    BY <1>a, <1>10, ParentType DEF DropWorktree, MakeWorktree, TypeOK
  <1>11. ASSUME NEW p \in Pruners, PlanRuns(p) PROVE TypeOK'
    <2> DEFINE seen == [r \in Runs |-> IF TerminalAged(r, now) THEN rec[r] ELSE NoRecord]
               recs == [r \in Runs |-> IF seen[r].ref THEN 0 ELSE seen[r].gen]
               q == [IdlePlan EXCEPT !.pc = "archives", !.at = now, !.seen = seen,
                                     !.recs = recs]
    <2>1. seen \in [Runs -> Record]
      BY <1>c, Constants
    <2>2. recs \in [Runs -> Gen]
      <3>1. \A r \in Runs : seen[r].gen \in Gen
        BY <2>1 DEF Record
      <3> QED
        BY <3>1, Constants
    <2>3. q \in Plan
      BY <2>1, <2>2, Constants DEF Plan, TypeOK
    <2>4. pr' = [pr EXCEPT ![p] = q]
      BY <1>11 DEF PlanRuns
    <2> QED
      BY <1>11, <2>3, <2>4 DEF PlanRuns, TypeOK
  <1>12. ASSUME NEW p \in Pruners, PlanArchives(p) PROVE TypeOK'
    <2> DEFINE seen == pr[p].seen
               matched == {r \in Runs : ArchiveMatches(seen[r], r, pr[p].at)}
               arch == [r \in Runs |-> IF r \in matched THEN archive[r].gen ELSE 0]
               recs == [r \in Runs |-> IF r \in matched THEN seen[r].gen ELSE pr[p].recs[r]]
               q == [pr[p] EXCEPT !.pc = "rest", !.seen = IdlePlan.seen,
                                  !.arch = arch, !.recs = recs]
    <2>1. seen \in [Runs -> Record] /\ pr[p].recs \in [Runs -> Gen]
      BY <1>b DEF Plan
    <2>2. \A r \in Runs : seen[r].gen \in Gen /\ archive[r].gen \in Gen
      BY <1>c, <2>1 DEF Record, Patch
    <2>3. arch \in [Runs -> Gen] /\ recs \in [Runs -> Gen]
      BY <2>1, <2>2, Constants
    <2>4. IdlePlan.seen \in [Runs -> Record]
      BY Constants DEF Plan
    <2> HIDE DEF arch, recs, matched, seen
    <2>5. q \in Plan
      BY <1>b, <2>3, <2>4 DEF Plan
    <2>6. pr' = [pr EXCEPT ![p] = q]
      BY <1>12 DEF PlanArchives, arch, recs, matched, seen
    <2> HIDE DEF q
    <2>7. pr' \in [Pruners -> Plan]
      BY <2>5, <2>6 DEF TypeOK
    <2>8. UNCHANGED <<now, files, faults, slow>>
      BY <1>12 DEF PlanArchives
    <2> QED
      BY <2>7, <2>8 DEF TypeOK
  <1>13. ASSUME NEW p \in Pruners, PlanRest(p) PROVE TypeOK'
    <2> DEFINE ts == \E t \in Tasks : task[t] # "none"
               tl == IF tool.there /\ Old(tool.mtime, pr[p].at) /\ ~HasActiveState
                     THEN tool.gen ELSE 0
               pt == IF parent.there /\ wt = {} THEN parent.gen ELSE 0
    <2>1. ts \in BOOLEAN /\ tl \in Gen /\ pt \in Gen
      BY Constants DEF TypeOK, Folder
    <2> HIDE DEF ts, tl, pt
    <2>2. [pr[p] EXCEPT !.pc = "planned", !.tasks = ts, !.tool = tl, !.parent = pt] \in Plan
      BY <1>b, <2>1 DEF Plan
    <2>3. pr' = [pr EXCEPT ![p] = [pr[p] EXCEPT !.pc = "planned", !.tasks = ts, !.tool = tl,
                                                !.parent = pt]]
      BY <1>13 DEF PlanRest, ts, tl, pt
    <2>4. pr' \in [Pruners -> Plan]
      BY <2>2, <2>3 DEF TypeOK
    <2>5. UNCHANGED <<now, files, faults, slow>>
      BY <1>13 DEF PlanRest
    <2> QED
      BY <2>4, <2>5 DEF TypeOK
  <1>21. ASSUME NEW p \in Pruners, ReadClock(p) PROVE TypeOK'
    <2>1. [pr[p] EXCEPT !.pc = "apply", !.clock = now] \in Plan
      BY <1>b DEF Plan, TypeOK
    <2>2. pr' = [pr EXCEPT ![p] = [pr[p] EXCEPT !.pc = "apply", !.clock = now]]
      BY <1>21 DEF ReadClock
    <2>3. pr' \in [Pruners -> Plan]
      BY <2>1, <2>2 DEF TypeOK
    <2>4. UNCHANGED <<now, files, faults, slow>>
      BY <1>21 DEF ReadClock
    <2> QED
      BY <2>3, <2>4 DEF TypeOK
  <1>14. ASSUME NEW p \in Pruners, NEW r \in Runs, ApplyArchive(p, r) PROVE TypeOK'
    <2> DEFINE q == [pr[p] EXCEPT !.arch = [pr[p].arch EXCEPT ![r] = 0]]
    <2>1. /\ q \in Plan
          /\ [q EXCEPT !.applied = pr[p].applied \cup {r}] \in Plan
      BY <1>b, Constants DEF Plan
    <2>2. \/ pr' = [pr EXCEPT ![p] = q]
          \/ pr' = [pr EXCEPT ![p] = [q EXCEPT !.applied = pr[p].applied \cup {r}]]
      BY <1>14, <1>b DEF ApplyArchive, TypeOK, Plan
    <2>3. NoPatch(archive[r].gen) \in Patch
      BY <1>c, Constants DEF NoPatch, Patch
    <2>4. pr' \in [Pruners -> Plan]
      BY <2>1, <2>2 DEF TypeOK
    <2> QED
      BY <1>a, <1>14, <2>3, <2>4 DEF ApplyArchive, TypeOK
  <1>15. ASSUME NEW p \in Pruners, NEW r \in Runs, ApplyRecord(p, r) PROVE TypeOK'
    <2>1. [pr[p] EXCEPT !.recs = [pr[p].recs EXCEPT ![r] = 0]] \in Plan
      BY <1>b, Constants DEF Plan
    <2>2. pr' = [pr EXCEPT ![p] = [pr[p] EXCEPT !.recs = [pr[p].recs EXCEPT ![r] = 0]]]
      BY <1>15 DEF ApplyRecord
    <2>3. Gone(rec[r].gen) \in Record
      BY <1>c, Constants DEF Gone, Record
    <2>4. pr' \in [Pruners -> Plan]
      BY <2>1, <2>2 DEF TypeOK
    <2> QED
      BY <1>a, <1>15, <2>3, <2>4 DEF ApplyRecord, TypeOK
  <1>16. ASSUME NEW p \in Pruners, NEW gone \in SUBSET Tasks, ApplyTasks(p, gone) PROVE TypeOK'
    <2>1. [pr[p] EXCEPT !.tasks = FALSE] \in Plan
      BY <1>b DEF Plan
    <2>2. pr' = [pr EXCEPT ![p] = [pr[p] EXCEPT !.tasks = FALSE]]
      BY <1>16 DEF ApplyTasks
    <2> QED
      BY <1>16, <2>1, <2>2 DEF ApplyTasks, TypeOK
  <1>17. ASSUME NEW p \in Pruners, ApplyToolchain(p) PROVE TypeOK'
    <2>1. [pr[p] EXCEPT !.tool = 0] \in Plan
      BY <1>b, Constants DEF Plan
    <2>2. pr' = [pr EXCEPT ![p] = [pr[p] EXCEPT !.tool = 0]]
      BY <1>17 DEF ApplyToolchain
    <2>3. tool' \in Folder
      BY <1>17, Constants DEF ApplyToolchain, TypeOK, Folder
    <2>4. pr' \in [Pruners -> Plan]
      BY <2>1, <2>2 DEF TypeOK
    <2> QED
      BY <1>a, <1>17, <2>3, <2>4 DEF ApplyToolchain, TypeOK
  <1>18. ASSUME NEW p \in Pruners, ApplyParent(p) PROVE TypeOK'
    <2>1. [pr[p] EXCEPT !.parent = 0] \in Plan
      BY <1>b, Constants DEF Plan
    <2>2. pr' = [pr EXCEPT ![p] = [pr[p] EXCEPT !.parent = 0]]
      BY <1>18 DEF ApplyParent
    <2>3. parent' \in Folder
      BY <1>18 DEF ApplyParent, TypeOK, Folder
    <2>4. pr' \in [Pruners -> Plan]
      BY <2>1, <2>2 DEF TypeOK
    <2> QED
      BY <1>a, <1>18, <2>3, <2>4 DEF ApplyParent, TypeOK
  <1>19. ASSUME NEW p \in Pruners, Finish(p) \/ Crash(p) PROVE TypeOK'
    BY <1>a, <1>19, Constants DEF Finish, Crash, TypeOK
  <1>20. CASE UNCHANGED vars
    BY <1>20 DEF vars, TypeOK
  <1> QED
    BY <1>1, <1>3, <1>4, <1>5, <1>6, <1>7, <1>8, <1>9, <1>10, <1>11, <1>12, <1>13,
       <1>14, <1>15, <1>16, <1>17, <1>18, <1>19, <1>20, <1>21
    DEF Next, Harness, Outside, Prune

----------------------------------------------------------------------------
(* Steps that disturb nothing the invariant is about *)

\* q executes its plan where it was.
Still(q) ==
  /\ pr'[q].pc = pr[q].pc /\ pr'[q].at = pr[q].at /\ pr'[q].clock = pr[q].clock
  /\ pr'[q].seen = pr[q].seen
  /\ pr'[q].arch = pr[q].arch /\ pr'[q].recs = pr[q].recs
  /\ pr'[q].applied = pr[q].applied

\* Steps that touch no record, worktree or archive and no progress of an
\* invocation keep the invariant.
LEMMA Quiet ==
  ASSUME PruneInv, TypeOK', UNCHANGED <<rec, wt, archive, slow>>, now <= now',
         faults' = 0 => faults = 0, \A q \in Pruners : Still(q)
  PROVE  PruneInv'
  <1>1. Numbered'
    BY DEF PruneInv, Numbered, Exists
  <1>2. Memory'
    BY StorageAssumption DEF PruneInv, Memory, Still, TypeOK, Plan, Time
  <1>3. Kept'
    BY DEF PruneInv, Kept, Still, SameRecord, Exists
  <1>4. Pending'
    BY DEF PruneInv, Pending, Still, TerminalAged, Exists
  <1>5. NoStrandedRecord'
    BY DEF PruneInv, NoStrandedRecord, Still
  <1> QED
    BY <1>1, <1>2, <1>3, <1>4, <1>5 DEF PruneInv

\* Interference counts as a fault, and replaces no record.
LEMMA Disturbed ==
  ASSUME PruneInv, TypeOK', UNCHANGED <<now, pr>>, faults' # 0,
         \A r \in Runs : /\ rec'[r].gen = rec[r].gen /\ rec'[r].mtime = rec[r].mtime
                         /\ rec'[r].ref = rec[r].ref /\ (Exists(r)' <=> Exists(r))
  PROVE  PruneInv'
  <1>1. Numbered'
    BY DEF PruneInv, Numbered, Exists
  <1>2. Memory'
    BY DEF PruneInv, Memory
  <1>3. Kept'
    BY DEF PruneInv, Kept, Matched, SameRecord, Exists
  <1>4. Pending' /\ NoStrandedRecord'
    BY DEF Pending, NoStrandedRecord
  <1> QED
    BY <1>1, <1>2, <1>3, <1>4 DEF PruneInv

\* A save makes a record too young for every plan that was made before it.
LEMMA SaveKeeps ==
  ASSUME PruneInv, TypeOK', UNCHANGED <<now, pr, faults, slow>>, NEW r \in Runs,
         rec' = [rec EXCEPT ![r] = rec'[r]],
         rec'[r].mtime = now, rec'[r].gen # 0, rec'[r].status # "none",
         \A s \in Runs : s # r => archive'[s] = archive[s] /\ (s \in wt' <=> s \in wt),
         faults = 0 => \A p \in Pruners : r \notin pr[p].applied,
         faults = 0 => r \in slow \/ ~(rec'[r].ref /\ ~archive'[r].there)
  PROVE  PruneInv'
  <1>0. \A s \in Runs : s # r => rec'[s] = rec[s]
    BY DEF PruneInv, TypeOK
  <1>1. Numbered'
    BY <1>0 DEF PruneInv, Numbered, Exists
  <1>2. Memory'
    BY DEF PruneInv, Memory
  <1>3. Kept'
    <2>1. \A p \in Pruners : pr[p].at <= now
      BY DEF PruneInv, Memory
    <2> QED
      BY <1>0, <2>1 DEF PruneInv, Kept, Matched, SameRecord, Exists
  <1>4. Pending'
    BY <1>0 DEF PruneInv, Pending, TerminalAged, Exists
  <1>5. NoStrandedRecord'
    BY <1>0 DEF PruneInv, NoStrandedRecord
  <1> QED
    BY <1>1, <1>2, <1>3, <1>4, <1>5 DEF PruneInv

----------------------------------------------------------------------------
(* The steps of an invocation *)

\* Reading the run records starts a plan that remembers no archive.
LEMMA PlanRunsKeeps ==
  ASSUME PruneInv, TypeOK', NEW p \in Pruners, PlanRuns(p)
  PROVE  PruneInv'
  <1> DEFINE seen == [r \in Runs |-> IF TerminalAged(r, now) THEN rec[r] ELSE NoRecord]
  <1>1. /\ pr'[p].pc = "archives" /\ pr'[p].at = now /\ pr'[p].seen = seen
        /\ pr'[p].arch = [r \in Runs |-> 0] /\ pr'[p].applied = {} /\ pr'[p].clock = 0
        /\ \A q \in Pruners : q # p => pr'[q] = pr[q]
    BY DEF PlanRuns, PruneInv, TypeOK, IdlePlan
  <1>2. UNCHANGED <<now, rec, wt, archive, faults, slow>>
    BY DEF PlanRuns, files
  <1>3. pr[p].applied = {}
    BY DEF PlanRuns, PruneInv, Memory
  <1>4. Numbered'
    BY <1>2 DEF PruneInv, Numbered, Exists
  <1>5. Memory'
    BY <1>1, <1>2 DEF PruneInv, Memory, TypeOK, Time
  <1>6. Kept'
    <2>1. \A r \in Runs : seen[r].ref => seen[r].gen = rec[r].gen
      BY DEF NoRecord, Gone
    <2> QED
      BY <1>1, <1>2, <2>1 DEF PruneInv, Kept, Matched, SameRecord, Exists
  <1>7. Pending'
    BY <1>1, <1>2 DEF PruneInv, Pending, TerminalAged, Exists
  <1>8. NoStrandedRecord'
    BY <1>1, <1>2, <1>3 DEF PruneInv, NoStrandedRecord
  <1> QED
    BY <1>4, <1>5, <1>6, <1>7, <1>8 DEF PruneInv

\* Matching the archives plans each of them with its record.
LEMMA PlanArchivesKeeps ==
  ASSUME PruneInv, TypeOK', NEW p \in Pruners, PlanArchives(p)
  PROVE  PruneInv'
  <1>1. pr[p] \in Plan /\ pr[p].pc = "archives"
    BY DEF PlanArchives, PruneInv, TypeOK
  <1>2. UNCHANGED <<now, rec, wt, archive, faults, slow>>
    BY DEF PlanArchives, files
  <1>3. /\ pr'[p].pc = "rest" /\ pr'[p].at = pr[p].at /\ pr'[p].clock = pr[p].clock
        /\ pr'[p].applied = pr[p].applied
        /\ \A r \in Runs : pr'[p].arch[r] # 0 =>
             pr[p].seen[r].ref /\ pr'[p].recs[r] = pr[p].seen[r].gen
        /\ \A q \in Pruners : q # p => pr'[q] = pr[q]
    <2> DEFINE matched == {r \in Runs : ArchiveMatches(pr[p].seen[r], r, pr[p].at)}
               arch == [r \in Runs |-> IF r \in matched THEN archive[r].gen ELSE 0]
               recs == [r \in Runs |-> IF r \in matched THEN pr[p].seen[r].gen
                                       ELSE pr[p].recs[r]]
    <2>1. \A r \in Runs : arch[r] # 0 => pr[p].seen[r].ref /\ recs[r] = pr[p].seen[r].gen
      BY DEF ArchiveMatches
    <2>2. pr' = [pr EXCEPT ![p] = [pr[p] EXCEPT !.pc = "rest", !.seen = IdlePlan.seen,
                                                !.arch = arch, !.recs = recs]]
      BY DEF PlanArchives
    <2> HIDE DEF arch, recs
    <2> QED
      BY <1>1, <2>1, <2>2 DEF PruneInv, TypeOK, Plan
  <1>4. pr[p].applied = {}
    BY <1>1 DEF PruneInv, Memory
  <1>5. Numbered'
    BY <1>2 DEF PruneInv, Numbered, Exists
  <1>6. Memory'
    BY <1>2, <1>3, <1>4 DEF PruneInv, Memory
  <1>7. Kept'
    BY <1>1, <1>2, <1>3 DEF PruneInv, Kept, Matched, SameRecord, Exists
  <1>8. Pending'
    BY <1>2, <1>3 DEF PruneInv, Pending, TerminalAged, Exists
  <1>9. NoStrandedRecord'
    BY <1>2, <1>3, <1>4 DEF PruneInv, NoStrandedRecord
  <1> QED
    BY <1>5, <1>6, <1>7, <1>8, <1>9 DEF PruneInv

\* The rest of the plan concerns no run.
LEMMA PlanRestKeeps ==
  ASSUME PruneInv, TypeOK', NEW p \in Pruners, PlanRest(p)
  PROVE  PruneInv'
  <1>1. pr[p] \in Plan /\ pr[p].pc = "rest"
    BY DEF PlanRest, PruneInv, TypeOK
  <1>2. UNCHANGED <<now, rec, wt, archive, faults, slow>>
    BY DEF PlanRest, files
  <1>3. /\ pr'[p].pc = "planned" /\ pr'[p].at = pr[p].at /\ pr'[p].clock = pr[p].clock
        /\ pr'[p].applied = pr[p].applied
        /\ pr'[p].arch = pr[p].arch /\ pr'[p].recs = pr[p].recs
        /\ \A q \in Pruners : q # p => pr'[q] = pr[q]
    <2> DEFINE ts == \E t \in Tasks : task[t] # "none"
               tl == IF tool.there /\ Old(tool.mtime, pr[p].at) /\ ~HasActiveState
                     THEN tool.gen ELSE 0
               pt == IF parent.there /\ wt = {} THEN parent.gen ELSE 0
    <2>1. pr' = [pr EXCEPT ![p] = [pr[p] EXCEPT !.pc = "planned", !.tasks = ts, !.tool = tl,
                                                !.parent = pt]]
      BY DEF PlanRest
    <2> HIDE DEF ts, tl, pt
    <2> QED
      BY <1>1, <2>1 DEF PruneInv, TypeOK, Plan
  <1>4. Numbered'
    BY <1>2 DEF PruneInv, Numbered, Exists
  <1>5. Memory'
    BY <1>1, <1>2, <1>3 DEF PruneInv, Memory
  <1>6. Kept'
    BY <1>1, <1>2, <1>3 DEF PruneInv, Kept, Matched, SameRecord, Exists
  <1>7. Pending'
    BY <1>2, <1>3 DEF PruneInv, Pending, TerminalAged, Exists
  <1>8. NoStrandedRecord'
    BY <1>2, <1>3 DEF PruneInv, NoStrandedRecord
  <1> QED
    BY <1>4, <1>5, <1>6, <1>7, <1>8 DEF PruneInv

\* The second reading comes before anything is applied.
LEMMA ReadClockKeeps ==
  ASSUME PruneInv, TypeOK', NEW p \in Pruners, ReadClock(p)
  PROVE  PruneInv'
  <1>1. pr[p] \in Plan /\ pr[p].pc = "planned"
    BY DEF ReadClock, PruneInv, TypeOK
  <1>2. UNCHANGED <<now, rec, wt, archive, faults, slow>>
    BY DEF ReadClock, files
  <1>3. /\ pr'[p].pc = "apply" /\ pr'[p].at = pr[p].at /\ pr'[p].clock = now
        /\ pr'[p].applied = pr[p].applied
        /\ pr'[p].arch = pr[p].arch /\ pr'[p].recs = pr[p].recs
        /\ \A q \in Pruners : q # p => pr'[q] = pr[q]
    BY <1>1 DEF ReadClock, PruneInv, TypeOK, Plan
  <1>a. pr[p].applied = {} /\ now <= now
    BY <1>1 DEF PruneInv, Memory, TypeOK, Time
  <1>4. Numbered'
    BY <1>2 DEF PruneInv, Numbered, Exists
  <1>5. Memory'
    BY <1>a, <1>1, <1>2, <1>3 DEF PruneInv, Memory
  <1>6. Kept'
    BY <1>1, <1>2, <1>3 DEF PruneInv, Kept, Matched, SameRecord, Exists
  <1>7. Pending'
    BY <1>a, <1>2, <1>3 DEF PruneInv, Pending, TerminalAged, Exists
  <1>8. NoStrandedRecord'
    BY <1>2, <1>3 DEF PruneInv, NoStrandedRecord
  <1> QED
    BY <1>4, <1>5, <1>6, <1>7, <1>8 DEF PruneInv

\* When an archive goes, the record that names it is the planned one: had it
\* been saved since, it would be old only for an invocation that is slow.
LEMMA ApplyArchiveKeeps ==
  ASSUME PruneInv, TypeOK', NEW p \in Pruners, NEW r \in Runs, ApplyArchive(p, r)
  PROVE  PruneInv'
  <1>1. pr[p] \in Plan /\ pr[p].pc = "apply" /\ pr[p].arch[r] # 0
    BY DEF ApplyArchive, Applying, First, PruneInv, TypeOK
  <1>2. UNCHANGED <<now, rec, wt>>
    BY DEF ApplyArchive
  <1>3. /\ pr'[p].pc = pr[p].pc /\ pr'[p].at = pr[p].at /\ pr'[p].clock = pr[p].clock
        /\ pr'[p].recs = pr[p].recs /\ pr'[p].seen = pr[p].seen
        /\ pr'[p].arch = [pr[p].arch EXCEPT ![r] = 0]
        /\ \A q \in Pruners : q # p => pr'[q] = pr[q]
    BY <1>1 DEF ApplyArchive, PruneInv, TypeOK, Plan
  <1>4. Numbered'
    BY <1>2 DEF PruneInv, Numbered, Exists
  <1>5. Memory'
    BY <1>1, <1>2, <1>3 DEF PruneInv, Memory
  <1>6. Kept'
    BY <1>1, <1>2, <1>3 DEF PruneInv, Kept, Matched, SameRecord, Exists, Plan
  <1>7. CASE ArchiveValid(p, r) /\ UNCHANGED faults /\ r \in pr'[p].applied
             /\ archive' = [archive EXCEPT ![r] = NoPatch(archive[r].gen)]
             /\ pr'[p].applied = pr[p].applied \cup {r}
             /\ slow' = IF Old(pr[p].at, pr[p].clock) THEN slow \cup {r} ELSE slow
    <2>1. /\ ~archive'[r].there
          /\ \A s \in Runs : s # r => archive'[s] = archive[s]
      BY <1>7 DEF PruneInv, TypeOK, NoPatch
    <2>2. TerminalAged(r, pr[p].clock) /\ rec[r].ref
      BY <1>7 DEF ArchiveValid
    <2>3. pr[p].recs[r] = rec[r].gen \/ r \in slow'
      <3>1. Exists(r)
        BY <2>2 DEF TerminalAged, Exists
      <3>2. rec[r].mtime \in Nat /\ pr[p].at \in Nat /\ pr[p].clock \in Nat
        BY <1>1 DEF PruneInv, TypeOK, Record, Plan, Time
      <3>3. pr[p].at <= rec[r].mtime => Old(pr[p].at, pr[p].clock)
        BY <2>2, <3>2, StorageAssumption DEF TerminalAged, Old
      <3>4. pr[p].recs[r] = rec[r].gen \/ pr[p].at <= rec[r].mtime
        BY <1>1, <3>1 DEF PruneInv, Kept, Matched, SameRecord
      <3> QED
        BY <1>7, <3>3, <3>4
    <2>6. slow \subseteq slow'
      BY <1>7
    <2>4. Pending'
      BY <1>2, <1>3, <1>7, <2>1, <2>2 DEF PruneInv, Pending, TerminalAged, Exists
    <2>5. NoStrandedRecord'
      BY <1>2, <1>3, <1>7, <2>1, <2>3, <2>6 DEF PruneInv, NoStrandedRecord
    <2> QED
      BY <1>4, <1>5, <1>6, <2>4, <2>5 DEF PruneInv
  <1>8. CASE UNCHANGED <<archive, slow>> /\ pr'[p].applied = pr[p].applied
             /\ (faults' = 0 => faults = 0)
    <2>1. Pending'
      BY <1>2, <1>3, <1>8 DEF PruneInv, Pending, TerminalAged, Exists
    <2>2. NoStrandedRecord'
      BY <1>2, <1>3, <1>8 DEF PruneInv, NoStrandedRecord
    <2> QED
      BY <1>4, <1>5, <1>6, <2>1, <2>2 DEF PruneInv
  <1> QED
    <2>1. faults \in Nat
      BY StorageAssumption DEF PruneInv, TypeOK
    <2> QED
      BY <1>1, <1>7, <1>8, <2>1 DEF ApplyArchive, Fault, PruneInv, TypeOK, Plan

\* A record that waits for its removal is still valid when its turn comes.
LEMMA ApplyRecordKeeps ==
  ASSUME PruneInv, TypeOK', NEW p \in Pruners, NEW r \in Runs, ApplyRecord(p, r)
  PROVE  PruneInv'
  <1>1. /\ pr[p] \in Plan /\ pr[p].pc = "apply"
        /\ \A s \in Runs : pr[p].arch[s] = 0
    BY DEF ApplyRecord, PastToolchain, PastTasks, PastArchives, Applying, Empty,
           PruneInv, TypeOK
  <1>2. UNCHANGED <<now, wt, archive, slow>>
    BY DEF ApplyRecord
  <1>3. /\ pr'[p].pc = pr[p].pc /\ pr'[p].at = pr[p].at /\ pr'[p].clock = pr[p].clock
        /\ pr'[p].arch = pr[p].arch /\ pr'[p].seen = pr[p].seen /\ pr'[p].applied = pr[p].applied
        /\ pr'[p].recs = [pr[p].recs EXCEPT ![r] = 0]
        /\ \A q \in Pruners : q # p => pr'[q] = pr[q]
    BY <1>1 DEF ApplyRecord, PruneInv, TypeOK, Plan
  <1>4. \/ UNCHANGED rec
        \/ RecordValid(p, r) /\ rec' = [rec EXCEPT ![r] = Gone(rec[r].gen)]
    BY DEF ApplyRecord
  <1>5. /\ rec'[r] = rec[r] \/ (rec'[r] = Gone(rec[r].gen) /\ Exists(r))
        /\ \A s \in Runs : s # r => rec'[s] = rec[s]
    BY <1>4 DEF PruneInv, TypeOK, RecordValid
  <1>6. Numbered'
    BY <1>5 DEF PruneInv, Numbered, Exists, Gone
  <1>7. Memory'
    BY <1>2, <1>3 DEF PruneInv, Memory
  <1>8. Kept'
    <2>1. \A q \in Pruners, s \in Runs, g \in Gen :
            SameRecord(q, s, g) => SameRecord(q, s, g)'
      BY <1>3, <1>5 DEF SameRecord, Exists, Gone
    <2>2. \A q \in Pruners, s \in Runs : pr[q].seen[s].gen \in Gen /\ pr[q].recs[s] \in Gen
      BY DEF PruneInv, TypeOK, Plan, Record
    <2> QED
      BY <1>1, <1>3, <2>1, <2>2 DEF PruneInv, Kept, Matched
  <1>9. /\ faults' = 0 => faults = 0
        /\ RecordValid(p, r) /\ UNCHANGED rec => faults' # 0 \/ rec[r] = Gone(rec[r].gen)
    <2>1. faults \in Nat
      BY StorageAssumption DEF PruneInv, TypeOK
    <2> QED
      BY <2>1 DEF ApplyRecord, Fault, PruneInv, TypeOK
  <1>10. Pending'
    BY <1>2, <1>3, <1>5, <1>9
    DEF PruneInv, Numbered, Pending, TerminalAged, Exists, Gone
  <1>11. NoStrandedRecord'
    <2> SUFFICES ASSUME faults' = 0, NEW s \in Runs \ slow, rec'[s].ref, ~archive'[s].there
                 PROVE  \E q \in Pruners : s \in pr'[q].applied /\ pr'[q].recs[s] = rec'[s].gen
      BY <1>2 DEF NoStrandedRecord
    <2>1. rec'[s] = rec[s]
      BY <1>5 DEF Gone
    <2>2. PICK w \in Pruners : s \in pr[w].applied /\ pr[w].recs[s] = rec[s].gen
      BY <1>2, <1>9, <2>1 DEF PruneInv, NoStrandedRecord
    <2>3. CASE w # p \/ s # r
      BY <1>1, <1>3, <2>1, <2>2, <2>3 DEF Plan
    <2>4. CASE w = p /\ s = r
      <3>1. Exists(r)
        BY <2>1, <2>4 DEF PruneInv, Numbered
      <3>2. TerminalAged(r, pr[p].clock) /\ ~archive[r].there
        BY <1>9, <2>2, <2>4, <3>1 DEF PruneInv, Pending
      <3>3. RecordValid(p, r)
        BY <2>2, <2>4, <3>1, <3>2 DEF RecordValid
      <3>4. rec[r] # Gone(rec[r].gen)
        BY <3>1 DEF Exists, Gone
      <3>5. UNCHANGED rec
        BY <1>4, <2>1, <2>4, <3>4 DEF PruneInv, TypeOK
      <3> QED
        BY <1>9, <3>3, <3>4, <3>5
    <2> QED
      BY <2>3, <2>4
  <1> QED
    BY <1>6, <1>7, <1>8, <1>10, <1>11 DEF PruneInv

\* An invocation that returns has no record left to remove; one that dies
\* counts as a fault.
LEMMA EndKeeps ==
  ASSUME PruneInv, TypeOK', NEW p \in Pruners, Finish(p) \/ Crash(p)
  PROVE  PruneInv'
  <1>1. UNCHANGED <<now, rec, wt, archive, slow>>
    BY DEF Finish, Crash, files
  <1>2. /\ pr'[p] = [IdlePlan EXCEPT !.pc = "done"]
        /\ \A q \in Pruners : q # p => pr'[q] = pr[q]
    BY DEF Finish, Crash, PruneInv, TypeOK
  <1>3. /\ faults' = 0 => faults = 0
        /\ faults' # 0 \/ \A r \in Runs : pr[p].recs[r] = 0
    <2>1. faults \in Nat
      BY StorageAssumption DEF PruneInv, TypeOK
    <2> QED
      BY <2>1 DEF Finish, Crash, Fault, PastRecords, Empty
  <1>4. Numbered'
    BY <1>1 DEF PruneInv, Numbered, Exists
  <1>5. Memory'
    BY <1>1, <1>2 DEF PruneInv, Memory, IdlePlan, TypeOK, Time
  <1>6. Kept'
    <2>1. \A r \in Runs : IdlePlan.seen[r].ref = FALSE
      BY DEF IdlePlan, NoRecord, Gone
    <2> QED
      BY <1>1, <1>2, <2>1 DEF PruneInv, Kept, Matched, SameRecord, Exists, IdlePlan
  <1>7. Pending'
    BY <1>1, <1>2, <1>3 DEF PruneInv, Pending, TerminalAged, Exists, IdlePlan
  <1>8. NoStrandedRecord'
    <2> SUFFICES ASSUME faults' = 0, NEW s \in Runs \ slow, rec[s].ref, ~archive[s].there
                 PROVE  \E q \in Pruners : s \in pr'[q].applied /\ pr'[q].recs[s] = rec[s].gen
      BY <1>1 DEF NoStrandedRecord
    <2>1. PICK w \in Pruners : s \in pr[w].applied /\ pr[w].recs[s] = rec[s].gen
      BY <1>3 DEF PruneInv, NoStrandedRecord
    <2>2. rec[s].gen # 0
      BY DEF PruneInv, Numbered
    <2> QED
      BY <1>2, <1>3, <2>1, <2>2
  <1> QED
    BY <1>4, <1>5, <1>6, <1>7, <1>8 DEF PruneInv

----------------------------------------------------------------------------
(* The theorems *)

\* The invariant holds at the start.
LEMMA InvInit == Init => PruneInv
  <1> SUFFICES ASSUME Init PROVE PruneInv
    OBVIOUS
  <1>1. TypeOK
    BY TypeInit
  <1>2. \A r \in Runs : rec[r] = NoRecord
    BY DEF Init
  <1>3. \A p \in Pruners : pr[p] = IdlePlan
    BY DEF Init
  <1>4. \A r \in Runs : IdlePlan.seen[r].ref = FALSE
    BY DEF IdlePlan, NoRecord, Gone
  <1>5. Numbered /\ NoStrandedRecord
    BY <1>2 DEF Numbered, NoStrandedRecord, Exists, NoRecord, Gone
  <1>6. Memory /\ Kept /\ Pending
    BY <1>3, <1>4 DEF Init, Memory, Kept, Matched, Pending, IdlePlan
  <1> QED
    BY <1>1, <1>5, <1>6 DEF PruneInv

\* Every step of the harness, of a user and of prune keeps it.
LEMMA InvNext == PruneInv /\ [Next]_vars => PruneInv'
  <1> SUFFICES ASSUME PruneInv, [Next]_vars PROVE PruneInv'
    OBVIOUS
  <1>a. TypeOK' /\ TypeOK
    BY TypeNext DEF PruneInv
  <1>b. now \in Nat /\ faults \in Nat
    BY StorageAssumption DEF PruneInv, TypeOK, Time
  <1>c. \A q \in Pruners : pr'[q] = pr[q] => Still(q)
    BY DEF Still
  <1>1. CASE Tick \/ UNCHANGED vars \/ \E t \in Tasks : TaskStart(t) \/ TaskFinish(t)
    BY <1>1, <1>a, <1>b, <1>c, Quiet DEF Tick, TaskStart, TaskFinish, vars, files
  <1>2. ASSUME NEW r \in Runs, Open(r) PROVE PruneInv'
    <2>1. /\ rec' = [rec EXCEPT ![r] = rec'[r]] /\ rec'[r].mtime = now /\ rec'[r].gen = 1
          /\ rec'[r].status = "active" /\ rec'[r].ref = FALSE
      BY <1>2, <1>a DEF Open, TypeOK
    <2>2. rec[r].status = "none" /\ rec[r].gen = 0
      BY <1>2 DEF Open, NoRecord, Gone
    <2>3. faults = 0 => \A p \in Pruners : r \notin pr[p].applied
      BY <2>2 DEF PruneInv, Pending, TerminalAged
    <2>5. /\ UNCHANGED <<now, pr, faults, slow>>
          /\ \A s \in Runs : s # r => archive'[s] = archive[s] /\ (s \in wt' <=> s \in wt)
          /\ r \in slow \/ ~(rec'[r].ref /\ ~archive'[r].there) \/ faults # 0
      BY <1>2, <2>1, <2>3 DEF Open
    <2>6. rec'[r].gen # 0
      BY <2>1
    <2> QED
      BY <1>a, <2>1, <2>3, <2>5, <2>6, SaveKeeps
  <1>3. ASSUME NEW r \in Runs, NEW removed \in BOOLEAN, Apply(r, removed) PROVE PruneInv'
    <2>1. /\ rec' = [rec EXCEPT ![r] = rec'[r]] /\ rec'[r].mtime = now
          /\ rec'[r].gen = rec[r].gen + 1
          /\ rec'[r].status = "applied" /\ rec'[r].ref = rec[r].ref
      BY <1>3, <1>a DEF Apply, Saved, TypeOK, Record
    <2>2. rec[r].status = "active" /\ rec[r].gen \in Nat
      BY <1>3, <1>a DEF Apply, TypeOK, Record, Gen
    <2>3. faults = 0 => \A p \in Pruners : r \notin pr[p].applied
      BY <2>2 DEF PruneInv, Pending, TerminalAged, Exists
    <2>4. faults = 0 => r \in slow \/ ~(rec[r].ref /\ ~archive[r].there)
      BY <2>3 DEF PruneInv, NoStrandedRecord
    <2>5. /\ UNCHANGED <<now, pr, faults, slow>>
          /\ \A s \in Runs : s # r => archive'[s] = archive[s] /\ (s \in wt' <=> s \in wt)
          /\ r \in slow \/ ~(rec'[r].ref /\ ~archive'[r].there) \/ faults # 0
      BY <1>3, <2>1, <2>2, <2>3, <2>4 DEF Apply
    <2>6. rec'[r].gen # 0
      BY <2>1, <2>2
    <2> QED
      BY <1>a, <2>1, <2>3, <2>5, <2>6, SaveKeeps
  <1>4. ASSUME NEW r \in Runs, NEW diff \in BOOLEAN, NEW far \in {"saved", "removed", "done"},
               DiscardPresent(r, diff, far)
        PROVE  PruneInv'
    <2>1. /\ rec' = [rec EXCEPT ![r] = rec'[r]] /\ rec'[r].mtime = now
          /\ rec'[r].gen = rec[r].gen + 1
          /\ rec'[r].status # "none" /\ rec'[r].ref = diff
      BY <1>4, <1>a DEF DiscardPresent, Saved, TypeOK, Record
    <2>2. rec[r].status # "none" /\ r \in wt /\ rec[r].gen \in Nat
      BY <1>4, <1>a DEF DiscardPresent, TypeOK, Record, Gen
    <2>3. faults = 0 => \A p \in Pruners : r \notin pr[p].applied
      BY <2>2 DEF PruneInv, Pending, TerminalAged, Exists
    <2>4. /\ diff => archive'[r].there
          /\ \A s \in Runs : s # r => archive'[s] = archive[s]
      BY <1>4, <1>a DEF DiscardPresent, NewPatch, TypeOK
    <2>5. /\ UNCHANGED <<now, pr, faults, slow>>
          /\ \A s \in Runs : s # r => archive'[s] = archive[s] /\ (s \in wt' <=> s \in wt)
          /\ r \in slow \/ ~(rec'[r].ref /\ ~archive'[r].there) \/ faults # 0
      BY <1>4, <2>1, <2>2, <2>3, <2>4 DEF DiscardPresent
    <2>6. rec'[r].gen # 0
      BY <2>1, <2>2
    <2> QED
      BY <1>a, <2>1, <2>3, <2>5, <2>6, SaveKeeps
  <1>5. ASSUME NEW r \in Runs, DiscardAbsent(r) PROVE PruneInv'
    <2>1. /\ rec' = [rec EXCEPT ![r] = rec'[r]] /\ rec'[r].mtime = now
          /\ rec'[r].gen = rec[r].gen + 1
          /\ rec'[r].status = "discarded" /\ rec'[r].ref = rec[r].ref
      BY <1>5, <1>a DEF DiscardAbsent, Saved, TypeOK, Record
    <2>2. /\ rec[r].status # "none" /\ rec[r].gen \in Nat
          /\ rec[r].ref => archive[r].there
      BY <1>5, <1>a DEF DiscardAbsent, TypeOK, Record, Gen
    <2>3. faults = 0 => \A p \in Pruners : r \notin pr[p].applied
      BY <2>2 DEF PruneInv, Pending, Exists
    <2>5. /\ UNCHANGED <<now, pr, faults, slow>>
          /\ \A s \in Runs : s # r => archive'[s] = archive[s] /\ (s \in wt' <=> s \in wt)
          /\ r \in slow \/ ~(rec'[r].ref /\ ~archive'[r].there) \/ faults # 0
      BY <1>5, <2>1, <2>2, <2>3 DEF DiscardAbsent
    <2>6. rec'[r].gen # 0
      BY <2>1, <2>2
    <2> QED
      BY <1>a, <2>1, <2>3, <2>5, <2>6, SaveKeeps
  <1>6. ASSUME NEW r \in Runs, Damage(r) PROVE PruneInv'
    <2>1. \A s \in Runs : /\ rec'[s].gen = rec[s].gen /\ rec'[s].mtime = rec[s].mtime
                          /\ rec'[s].ref = rec[s].ref /\ (Exists(s)' <=> Exists(s))
      BY <1>6, <1>a DEF Damage, Exists, TypeOK, Record
    <2> QED
      BY <1>6, <1>a, <1>b, <2>1, Disturbed DEF Damage, Fault
  <1>7. ASSUME NEW r \in Runs, Tamper(r) \/ Lose(r) \/ Restore(r) \/ DropWorktree(r) \/ MakeWorktree(r)
        PROVE  PruneInv'
    <2>1. UNCHANGED <<now, pr, rec>> /\ faults' # 0
      BY <1>7, <1>b DEF Tamper, Lose, Restore, DropWorktree, MakeWorktree, Fault
    <2> QED
      BY <1>a, <2>1, Disturbed DEF Exists
  <1>8. ASSUME NEW p \in Pruners,
               ApplyToolchain(p) \/ ApplyParent(p)
               \/ \E gone \in SUBSET Tasks : ApplyTasks(p, gone)
        PROVE  PruneInv'
    <2>1. UNCHANGED <<now, rec, wt, archive, slow>> /\ (faults' = 0 => faults = 0)
      BY <1>8, <1>b DEF ApplyToolchain, ApplyParent, ApplyTasks, Fault
    <2>2. pr[p] \in Plan
      BY <1>a DEF TypeOK
    <2>3. \A q \in Pruners : Still(q)
      <3>1. \/ pr' = [pr EXCEPT ![p] = [pr[p] EXCEPT !.tool = 0]]
            \/ pr' = [pr EXCEPT ![p] = [pr[p] EXCEPT !.parent = 0]]
            \/ pr' = [pr EXCEPT ![p] = [pr[p] EXCEPT !.tasks = FALSE]]
        BY <1>8 DEF ApplyToolchain, ApplyParent, ApplyTasks
      <3>2. \A q \in Pruners : q # p => pr'[q] = pr[q]
        BY <1>a, <3>1 DEF TypeOK
      <3>3. \/ pr'[p] = [pr[p] EXCEPT !.tool = 0]
            \/ pr'[p] = [pr[p] EXCEPT !.parent = 0]
            \/ pr'[p] = [pr[p] EXCEPT !.tasks = FALSE]
        BY <1>a, <3>1 DEF TypeOK
      <3>4. Still(p)
        BY <2>2, <3>3 DEF Still, Plan
      <3> QED
        BY <1>c, <3>2, <3>4
    <2> QED
      BY <1>a, <1>b, <2>1, <2>3, Quiet
  <1>9. ASSUME NEW p \in Pruners, Prune(p) PROVE PruneInv'
    <2>1. CASE PlanRuns(p)
      BY <1>a, <2>1, PlanRunsKeeps
    <2>2. CASE PlanArchives(p)
      BY <1>a, <2>2, PlanArchivesKeeps
    <2>3. CASE PlanRest(p) \/ ReadClock(p)
      BY <1>a, <2>3, PlanRestKeeps, ReadClockKeeps
    <2>4. ASSUME NEW r \in Runs, ApplyArchive(p, r) PROVE PruneInv'
      BY <1>a, <2>4, ApplyArchiveKeeps
    <2>5. ASSUME NEW r \in Runs, ApplyRecord(p, r) PROVE PruneInv'
      BY <1>a, <2>5, ApplyRecordKeeps
    <2>6. CASE Finish(p) \/ Crash(p)
      BY <1>a, <2>6, EndKeeps
    <2> QED
      BY <1>8, <1>9, <2>1, <2>2, <2>3, <2>4, <2>5, <2>6 DEF Prune
  <1> QED
    BY <1>1, <1>2, <1>3, <1>4, <1>5, <1>6, <1>7, <1>9 DEF Next, Harness, Outside

\* The variables keep their types in every behaviour (TypeOK).
THEOREM TypeCorrect == Spec => []TypeOK
  BY TypeInit, TypeNext, PTL DEF Spec

(***************************************************************************)
(* Any number of prune invocations, beside any use of the harness, strand  *)
(* no run record without its archive unless something crashes, fails or is *)
(* changed by hand, or the plan of an invocation took as long as the       *)
(* retention age (NoStrandedRecord).                                       *)
(***************************************************************************)
THEOREM NoneStranded == Spec => []NoStrandedRecord
  <1>1. PruneInv => NoStrandedRecord
    BY DEF PruneInv
  <1> QED
    BY <1>1, InvInit, InvNext, PTL DEF Spec

\* Nothing but a validated record action removes a record.
LEMMA OnlyValidRecordsGo ==
  ASSUME PruneInv, [Next]_vars, NEW r \in Runs, Exists(r), rec'[r].status = "none"
  PROVE  \E p \in Pruners : RecordValid(p, r)
  <1>a. rec \in [Runs -> Record]
    BY DEF PruneInv, TypeOK
  <1>b. rec' # rec
    BY DEF Exists
  <1>1. ASSUME NEW s \in Runs, Open(s) PROVE FALSE
    BY <1>1, <1>a DEF Open, Exists
  <1>2. ASSUME NEW s \in Runs, NEW removed \in BOOLEAN, Apply(s, removed) PROVE FALSE
    BY <1>2, <1>a DEF Apply, Saved, Exists, Record
  <1>3. ASSUME NEW s \in Runs, NEW diff \in BOOLEAN, NEW far \in {"saved", "removed", "done"},
               DiscardPresent(s, diff, far)
        PROVE  FALSE
    BY <1>3, <1>a DEF DiscardPresent, Saved, Exists, Record
  <1>4. ASSUME NEW s \in Runs, DiscardAbsent(s) PROVE FALSE
    BY <1>4, <1>a DEF DiscardAbsent, Saved, Exists, Record
  <1>5. ASSUME NEW s \in Runs, Damage(s) PROVE FALSE
    BY <1>5, <1>a DEF Damage, Exists, Record
  <1>6. ASSUME NEW p \in Pruners, NEW s \in Runs, ApplyRecord(p, s) PROVE RecordValid(p, r)
    <2>1. RecordValid(p, s) /\ rec' = [rec EXCEPT ![s] = Gone(rec[s].gen)]
      BY <1>6, <1>b DEF ApplyRecord
    <2> QED
      BY <1>a, <2>1 DEF Exists
  <1>7. (Tick \/ \E t \in Tasks : TaskStart(t) \/ TaskFinish(t)) => FALSE
    BY <1>b DEF Tick, TaskStart, TaskFinish, files
  <1>8. ASSUME NEW s \in Runs, Tamper(s) \/ Lose(s) \/ Restore(s) \/ DropWorktree(s) \/ MakeWorktree(s)
        PROVE  FALSE
    BY <1>8, <1>b DEF Tamper, Lose, Restore, DropWorktree, MakeWorktree
  <1>9. ASSUME NEW p \in Pruners, Prune(p) PROVE RecordValid(p, r)
    <2>1. \E s \in Runs : ApplyRecord(p, s)
      <3>1. ~(PlanRuns(p) \/ PlanArchives(p) \/ PlanRest(p) \/ ReadClock(p) \/ Finish(p) \/ Crash(p))
        BY <1>b DEF PlanRuns, PlanArchives, PlanRest, ReadClock, Finish, Crash, files
      <3>2. ~(ApplyToolchain(p) \/ ApplyParent(p)) /\ \A s \in Runs : ~ApplyArchive(p, s)
        BY <1>b DEF ApplyToolchain, ApplyParent, ApplyArchive
      <3>3. \A gone \in SUBSET Tasks : ~ApplyTasks(p, gone)
        BY <1>b DEF ApplyTasks
      <3> QED
        BY <1>9, <3>1, <3>2, <3>3 DEF Prune
    <2> QED
      BY <1>6, <2>1
  <1>10. CASE UNCHANGED vars
    BY <1>10, <1>b DEF vars, files
  <1> QED
    BY <1>1, <1>2, <1>3, <1>4, <1>5, <1>7, <1>8, <1>9, <1>10 DEF Next, Harness, Outside

(***************************************************************************)
(* A record that names an archive goes only after the invocation that      *)
(* removes it removed the archive itself, whatever other invocations and   *)
(* users do in between (RecordOutlivesArchive).                            *)
(***************************************************************************)
THEOREM RecordGoesLast == Spec => RecordOutlivesArchive
  <1>1. PruneInv /\ [Next]_vars =>
          [\A r \in Runs :
             Exists(r) /\ rec'[r].status = "none" /\ rec[r].ref =>
               ~archive[r].there /\ \E p \in Pruners : r \in pr[p].applied]_vars
    BY OnlyValidRecordsGo DEF RecordValid
  <1> QED
    BY <1>1, InvInit, InvNext, PTL DEF Spec, RecordOutlivesArchive

\* Nothing but a validated archive action is remembered as applied.
LEMMA OnlyValidArchivesGo ==
  ASSUME PruneInv, [Next]_vars, NEW r \in Runs, NEW p \in Pruners,
         r \in pr'[p].applied, r \notin pr[p].applied
  PROVE  ArchiveValid(p, r)
  <1>a. pr \in [Pruners -> Plan]
    BY DEF PruneInv, TypeOK
  <1>b. pr'[p] # pr[p]
    OBVIOUS
  <1>1. ~Harness /\ ~Outside /\ ~UNCHANGED vars
    BY <1>b DEF Harness, Outside, Tick, Open, Apply, DiscardPresent,
         DiscardAbsent, TaskStart, TaskFinish, Damage, Tamper, Lose, Restore,
         DropWorktree, MakeWorktree, vars
  <1>2. PICK q \in Pruners : Prune(q)
    BY <1>1 DEF Next
  <1>3. ~(PlanRuns(q) \/ Finish(q) \/ Crash(q))
    <2>1. IdlePlan.applied = {}
      BY DEF IdlePlan
    <2>2. PlanRuns(q) => p = q /\ pr'[p].applied = {}
      BY <1>a, <1>b DEF PlanRuns, IdlePlan
    <2>3. Finish(q) \/ Crash(q) => pr'[p].applied = {}
      BY <1>a, <1>b DEF Finish, Crash, IdlePlan
    <2> QED
      BY <2>1, <2>2, <2>3
  <1>c. pr[q] \in Plan
    BY <1>a
  <1>4. ASSUME NEW x, x.applied = pr[q].applied, pr' = [pr EXCEPT ![q] = x] PROVE FALSE
    BY <1>a, <1>4
  <1>5. ~PlanArchives(q)
    <2> DEFINE matched == {s \in Runs : ArchiveMatches(pr[q].seen[s], s, pr[q].at)}
               arch == [s \in Runs |-> IF s \in matched THEN archive[s].gen ELSE 0]
               recs == [s \in Runs |-> IF s \in matched THEN pr[q].seen[s].gen
                                       ELSE pr[q].recs[s]]
               x == [pr[q] EXCEPT !.pc = "rest", !.seen = IdlePlan.seen,
                                  !.arch = arch, !.recs = recs]
    <2>1. PlanArchives(q) => pr' = [pr EXCEPT ![q] = x]
      BY DEF PlanArchives
    <2> HIDE DEF arch, recs
    <2>2. x.applied = pr[q].applied
      BY <1>c DEF Plan
    <2> QED
      BY <1>4, <2>1, <2>2
  <1>6. ~PlanRest(q)
    <2> DEFINE ts == \E t \in Tasks : task[t] # "none"
               tl == IF tool.there /\ Old(tool.mtime, pr[q].at) /\ ~HasActiveState
                     THEN tool.gen ELSE 0
               pt == IF parent.there /\ wt = {} THEN parent.gen ELSE 0
               x == [pr[q] EXCEPT !.pc = "planned", !.tasks = ts, !.tool = tl, !.parent = pt]
    <2>1. PlanRest(q) => pr' = [pr EXCEPT ![q] = x]
      BY DEF PlanRest
    <2> HIDE DEF ts, tl, pt
    <2>2. x.applied = pr[q].applied
      BY <1>c DEF Plan
    <2> QED
      BY <1>4, <2>1, <2>2
  <1>11. ~ReadClock(q)
    <2>1. [pr[q] EXCEPT !.pc = "apply", !.clock = now].applied = pr[q].applied
      BY <1>c DEF Plan
    <2>2. ReadClock(q) =>
            pr' = [pr EXCEPT ![q] = [pr[q] EXCEPT !.pc = "apply", !.clock = now]]
      BY DEF ReadClock
    <2> QED
      BY <1>4, <2>1, <2>2
  <1>7. /\ ~(ApplyToolchain(q) \/ ApplyParent(q))
        /\ \A gone \in SUBSET Tasks : ~ApplyTasks(q, gone)
    <2>1. /\ [pr[q] EXCEPT !.tool = 0].applied = pr[q].applied
          /\ [pr[q] EXCEPT !.parent = 0].applied = pr[q].applied
          /\ [pr[q] EXCEPT !.tasks = FALSE].applied = pr[q].applied
      BY <1>c DEF Plan
    <2>2. /\ ApplyToolchain(q) => pr' = [pr EXCEPT ![q] = [pr[q] EXCEPT !.tool = 0]]
          /\ ApplyParent(q) => pr' = [pr EXCEPT ![q] = [pr[q] EXCEPT !.parent = 0]]
          /\ \A gone \in SUBSET Tasks : ApplyTasks(q, gone) =>
               pr' = [pr EXCEPT ![q] = [pr[q] EXCEPT !.tasks = FALSE]]
      BY DEF ApplyToolchain, ApplyParent, ApplyTasks
    <2> QED
      BY <1>4, <2>1, <2>2
  <1>8. \A s \in Runs : ~ApplyRecord(q, s)
    <2>1. \A s \in Runs :
            [pr[q] EXCEPT !.recs = [pr[q].recs EXCEPT ![s] = 0]].applied = pr[q].applied
      BY <1>c DEF Plan
    <2>2. \A s \in Runs : ApplyRecord(q, s) =>
            pr' = [pr EXCEPT ![q] = [pr[q] EXCEPT !.recs = [pr[q].recs EXCEPT ![s] = 0]]]
      BY DEF ApplyRecord
    <2> QED
      BY <1>4, <2>1, <2>2
  <1>9. PICK s \in Runs : ApplyArchive(q, s)
    BY <1>2, <1>3, <1>5, <1>6, <1>7, <1>8, <1>11 DEF Prune
  <1>10. /\ ArchiveValid(q, s)
         /\ pr' = [pr EXCEPT ![q] = [pr[q] EXCEPT !.arch = [pr[q].arch EXCEPT ![s] = 0],
                                                  !.applied = pr[q].applied \cup {s}]]
    <2> DEFINE x == [pr[q] EXCEPT !.arch = [pr[q].arch EXCEPT ![s] = 0]]
    <2>1. x.applied = pr[q].applied
      BY <1>c DEF Plan
    <2>2. pr' # [pr EXCEPT ![q] = x]
      BY <1>4, <2>1
    <2> QED
      BY <1>9, <1>a, <1>c, <2>2 DEF ApplyArchive, Plan
  <1> QED
    BY <1>10, <1>a, <1>c DEF Plan

(***************************************************************************)
(* However stale the plan, what prune removes is a finished run past the   *)
(* retention age without a worktree, and the archive of such a run with    *)
(* the recorded digest (OnlyAgedTerminalGoes).                             *)
(***************************************************************************)
THEOREM OnlyAgedGoes == Spec => OnlyAgedTerminalGoes
  <1> DEFINE Finished(r) == /\ rec[r].status \in {"applied", "discarded"}
                            /\ Old(rec[r].mtime, now) /\ r \notin wt
  <1>1. ASSUME PruneInv, NEW r \in Runs, NEW p \in Pruners, TerminalAged(r, pr[p].clock)
        PROVE  Finished(r)
    <2>1. pr[p].clock \in Nat /\ now \in Nat /\ rec[r].mtime \in Nat /\ pr[p].clock <= now
      BY <1>1 DEF PruneInv, Memory, TypeOK, Plan, Record, Time
    <2> QED
      BY <1>1, <2>1, StorageAssumption DEF TerminalAged, Old
  <1>2. ASSUME PruneInv, [Next]_vars, NEW r \in Runs
        PROVE  /\ Exists(r) /\ rec'[r].status = "none" => Finished(r)
               /\ (\E p \in Pruners : r \in pr'[p].applied \ pr[p].applied) =>
                    Finished(r) /\ rec[r].ref /\ archive[r].good
    <2>1. ASSUME Exists(r), rec'[r].status = "none" PROVE Finished(r)
      BY <1>1, <1>2, <2>1, OnlyValidRecordsGo DEF RecordValid
    <2>2. ASSUME NEW p \in Pruners, r \in pr'[p].applied \ pr[p].applied
          PROVE  Finished(r) /\ rec[r].ref /\ archive[r].good
      BY <1>1, <1>2, <2>2, OnlyValidArchivesGo DEF ArchiveValid
    <2> QED
      BY <2>1, <2>2
  <1>3. PruneInv /\ [Next]_vars =>
          [\A r \in Runs :
             /\ Exists(r) /\ rec'[r].status = "none" => Finished(r)
             /\ (\E p \in Pruners : r \in pr'[p].applied \ pr[p].applied) =>
                  Finished(r) /\ rec[r].ref /\ archive[r].good]_vars
    BY <1>2
  <1> QED
    BY <1>3, InvInit, InvNext, PTL DEF Spec, OnlyAgedTerminalGoes

\* Only a validated action removes a shared directory; every other step that
\* touches one leaves it there.
LEMMA SharedStep ==
  ASSUME TypeOK, [Next]_vars
  PROVE  /\ tool.there /\ ~tool'.there => ~HasActiveState
         /\ parent.there /\ ~parent'.there => wt = {}
  <1>a. tool \in Folder /\ parent \in Folder
    BY DEF TypeOK
  <1>b. parent.there => ParentMade = parent
    BY DEF ParentMade
  <1> DEFINE Goal == /\ tool.there /\ ~tool'.there => ~HasActiveState
                     /\ parent.there /\ ~parent'.there => wt = {}
  <1>0. ASSUME UNCHANGED <<tool, parent>> PROVE Goal
    BY <1>0
  <1>1. ASSUME NEW r \in Runs, Open(r) \/ MakeWorktree(r) PROVE Goal
    BY <1>1, <1>b DEF Open, MakeWorktree
  <1>3. ASSUME NEW p \in Pruners, ApplyToolchain(p) PROVE Goal
    <2>1. UNCHANGED parent
      BY <1>3 DEF ApplyToolchain
    <2>2. CASE UNCHANGED tool
      BY <2>1, <2>2
    <2>3. CASE ToolchainValid(p)
      BY <2>1, <2>3 DEF ToolchainValid
    <2> QED
      BY <1>3, <2>2, <2>3 DEF ApplyToolchain
  <1>4. ASSUME NEW p \in Pruners, ApplyParent(p) PROVE Goal
    <2>1. UNCHANGED tool
      BY <1>4 DEF ApplyParent
    <2>2. CASE UNCHANGED parent
      BY <2>1, <2>2
    <2>3. CASE ParentValid(p)
      BY <2>1, <2>3 DEF ParentValid
    <2> QED
      BY <1>4, <2>2, <2>3 DEF ApplyParent
  <1> HIDE DEF Goal
  <1>5. ASSUME Harness PROVE Goal
    <2>1. CASE Tick \/ \E t \in Tasks : TaskStart(t) \/ TaskFinish(t)
      BY <1>0, <2>1 DEF Tick, TaskStart, TaskFinish, files
    <2>2. ASSUME NEW r \in Runs,
                 \/ \E removed \in BOOLEAN : Apply(r, removed)
                 \/ \E diff \in BOOLEAN, far \in {"saved", "removed", "done"} :
                      DiscardPresent(r, diff, far)
                 \/ DiscardAbsent(r)
          PROVE  Goal
      BY <1>0, <2>2 DEF Apply, DiscardPresent, DiscardAbsent
    <2> QED
      BY <1>1, <1>5, <2>1, <2>2 DEF Harness
  <1>6. ASSUME Outside PROVE Goal
    <2>1. ASSUME NEW r \in Runs, Damage(r) \/ Tamper(r) \/ Lose(r) \/ Restore(r) \/ DropWorktree(r)
          PROVE  Goal
      BY <1>0, <2>1 DEF Damage, Tamper, Lose, Restore, DropWorktree
    <2> QED
      BY <1>1, <1>6, <2>1 DEF Outside
  <1>7. ASSUME NEW p \in Pruners, Prune(p) PROVE Goal
    <2>1. CASE \/ PlanRuns(p) \/ PlanArchives(p) \/ PlanRest(p) \/ ReadClock(p)
               \/ Finish(p) \/ Crash(p)
      BY <1>0, <2>1 DEF PlanRuns, PlanArchives, PlanRest, ReadClock, Finish, Crash, files
    <2>2. ASSUME NEW r \in Runs, ApplyArchive(p, r) \/ ApplyRecord(p, r) PROVE Goal
      BY <1>0, <2>2 DEF ApplyArchive, ApplyRecord
    <2>3. ASSUME NEW gone \in SUBSET Tasks, ApplyTasks(p, gone) PROVE Goal
      BY <1>0, <2>3 DEF ApplyTasks
    <2> QED
      BY <1>3, <1>4, <1>7, <2>1, <2>2, <2>3 DEF Prune
  <1>8. ASSUME UNCHANGED vars PROVE Goal
    BY <1>0, <1>8 DEF vars, files
  <1>9. Goal
    BY <1>5, <1>6, <1>7, <1>8 DEF Next
  <1> QED
    BY <1>9 DEF Goal

(***************************************************************************)
(* The toolchain home goes only while no run is open or unreadable and no  *)
(* task is running, the parent of the worktrees only while it is empty,    *)
(* though the plan that removes them looked earlier (SharedGoesIdle).      *)
(***************************************************************************)
THEOREM SharedIdle == Spec => SharedGoesIdle
  <1>1. TypeOK /\ [Next]_vars =>
          [/\ tool.there /\ ~tool'.there =>
                /\ \A r \in Runs : rec[r].status \notin {"active", "unreadable"}
                /\ \A t \in Tasks : task[t] # "active"
           /\ parent.there /\ ~parent'.there => wt = {}]_vars
    BY SharedStep DEF HasActiveState
  <1> QED
    BY <1>1, TypeCorrect, PTL DEF Spec, SharedGoesIdle

=============================================================================
