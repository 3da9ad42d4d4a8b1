------------------------------ MODULE Workspace ------------------------------
(***************************************************************************)
(* The run lifecycle of internal/capability/workspace: Open, WorkspaceDiff,*)
(* Apply and Discard (with its GC mode), over the run records of           *)
(* internal/runstate and the worktrees and branches of internal/gitx.      *)
(*                                                                         *)
(* Every operation runs inside runstate.WithLock, an flock shared by all   *)
(* jacu processes of a repository; a process that dies loses the lock and  *)
(* everything it held in memory.  The coding agent, the reviewer and the   *)
(* user touch the worktree, the branch and the receipts without the lock.  *)
(*                                                                         *)
(* Data abstraction: a tree and the digest of its diff against the run's   *)
(* base commit are the same model value (the digest is collision free and  *)
(* Base is the tree whose diff is empty).  A blocked or refused call       *)
(* changes nothing, so it is not a step.                                   *)
(***************************************************************************)
EXTENDS FiniteSets

CONSTANTS
  Procs,          \* processes that call the workspace capability
  Runs,           \* run identifiers that Open may draw
  Contents,       \* trees an agent can leave in a worktree
  Base,           \* the tree of the base commit
  Wreck,          \* what a removal that stops half-way leaves of a worktree
  None,           \* absent value
  NoProc,         \* the lock is free
  PolicyPresent   \* an autonomy policy file exists in the repository

ASSUME ConstantsAssumption ==
  /\ Base \in Contents
  /\ Wreck \notin Contents
  /\ None \notin Contents \cup {Wreck}
  /\ NoProc \notin Procs
  /\ PolicyPresent \in BOOLEAN

VARIABLES
  lock,      \* holder of .git/jacu/runs.lock
  rec,       \* .git/jacu/runs/<run>.json
  dir,       \* the worktree directory: its tree, None when absent
  admin,     \* git's worktree metadata
  branch,    \* refs/heads/jacu/run-<suffix>
  away,      \* the commit of the worktree's HEAD when that is not the run's
             \* branch but another one or detached; NoCommit when it is
  archive,   \* .git/jacu/archive/<run>.patch
  receipt,   \* .git/jacu/receipts/<run>.json and its .used marker
  frame,     \* the call each process is executing, with its local variables
  (* history variables, read by properties only *)
  work,      \* the last tree the agent left in the worktree
  fate,      \* why a worktree may be gone without its last tree being seen
  stray      \* Apply committed on a HEAD that was not the run's branch

disk == <<rec, dir, admin, branch, away, archive, receipt>>
ghosts == <<work, fate, stray>>
vars == <<lock, disk, frame, ghosts>>

----------------------------------------------------------------------------
(* Values *)

Trees == Contents \cup {Wreck}
Status == {"none", "open", "reviewed", "applied", "discarded"}
Commit == [tree : Trees \cup {None}, by : {"none", "base", "jacu", "agent"}]
NoCommit == [tree |-> None, by |-> "none"]
BaseCommit == [tree |-> Base, by |-> "base"]
JacuCommit(t) == [tree |-> t, by |-> "jacu"]

Record == [status : Status, reviewed : Trees \cup {None},
           applied : Commit, archive : Trees \cup {None}]
NoRecord == [status |-> "none", reviewed |-> None,
             applied |-> NoCommit, archive |-> None]

Receipt == [digest : Trees \cup {None},
            verdict : {"none", "approve", "reject"}, used : BOOLEAN]
NoReceipt == [digest |-> None, verdict |-> "none", used |-> FALSE]

Labels == {"idle",
           "open_branch", "open_worktree", "open_lock", "open_save", "open_cleanup",
           "diff_save",
           "verify", "head", "stage", "receipt", "commit", "save_applied",
           "rollback", "integrate", "deliver", "apply_unlock", "apply_remove",
           "archive", "record", "unlock", "remove", "absent", "refused", "branch",
           "final"}

Frame == [pc : Labels, run : Runs \cup {None}, copy : Record,
          tree : Trees \cup {None}, verdict : {"none", "pass", "not_run"},
          todo : SUBSET Runs]
IdleFrame == [pc |-> "idle", run |-> None, copy |-> NoRecord,
              tree |-> None, verdict |-> "none", todo |-> {}]

\* Mutant: an applied run may be discarded.
TransitionFromApplied(from, to) ==
  \/ from = to
  \/ from = "open" /\ to \in {"reviewed", "discarded"}
  \/ from = "reviewed" /\ to \in {"applied", "discarded"}
  \/ from = "applied" /\ to = "discarded"

(***************************************************************************)
(* runstate.Run.Transition: a run moves open -> reviewed -> applied, or to *)
(* discarded from any state but applied.  The status corrupted exists only *)
(* in memory, for a file that cannot be read; no operation persists it.    *)
(***************************************************************************)
Transition(from, to) ==
  \/ from = to
  \/ from = "open" /\ to \in {"reviewed", "discarded"}
  \/ from = "reviewed" /\ to \in {"applied", "discarded"}

----------------------------------------------------------------------------
(* Steps of a call *)

At(p, l) == frame[p].pc = l
Run(p) == frame[p].run
Copy(p) == frame[p].copy

Goto(p, l) ==
  /\ frame' = [frame EXCEPT ![p].pc = l]
  /\ UNCHANGED lock

\* WithLock blocks until no other process holds the file lock.
Enter(p, f) ==
  /\ lock = NoProc
  /\ At(p, "idle")
  /\ lock' = p
  /\ frame' = [frame EXCEPT ![p] = f]


\* The callback returns and WithLock unlocks.
Return(p) ==
  /\ lock' = NoProc
  /\ frame' = [frame EXCEPT ![p] = IdleFrame]

\* SaveLocked: re-read the record, check the transition, write a temporary
\* file and rename it.  A failure leaves the old record in place.
SaveLocked(r, new) ==
  /\ rec[r].status # "none" => Transition(rec[r].status, new.status)
  /\ rec' = [rec EXCEPT ![r] = new]

(***************************************************************************)
(* The process dies, or a call it makes fails and the handler returns the  *)
(* error without compensating: either way the lock is released and nothing *)
(* else changes.                                                           *)
(***************************************************************************)
Abort(p) ==
  /\ ~At(p, "idle")
  /\ Return(p)
  /\ UNCHANGED <<disk, ghosts>>

----------------------------------------------------------------------------
(* Open *)

Fresh(r) ==
  /\ rec[r] = NoRecord
  /\ branch[r] = NoCommit
  /\ dir[r] = None
  /\ admin[r] = "none"

OpenCall(p, r) ==
  /\ Fresh(r)
  /\ Enter(p, [IdleFrame EXCEPT !.pc = "open_branch", !.run = r])
  /\ UNCHANGED <<disk, ghosts>>

\* update-ref with an empty old value: the branch is created by this call.
OpenBranch(p) ==
  /\ At(p, "open_branch")
  /\ branch' = [branch EXCEPT ![Run(p)] = BaseCommit]
  /\ Goto(p, "open_worktree")
  /\ UNCHANGED <<rec, dir, admin, away, archive, receipt, ghosts>>

OpenWorktree(p) ==
  /\ At(p, "open_worktree")
  /\ dir' = [dir EXCEPT ![Run(p)] = Base]
  /\ admin' = [admin EXCEPT ![Run(p)] = "registered"]
  /\ work' = [work EXCEPT ![Run(p)] = Base]
  /\ Goto(p, "open_lock")
  /\ UNCHANGED <<rec, branch, away, archive, receipt, fate, stray>>

OpenLock(p) ==
  /\ At(p, "open_lock")
  /\ admin' = [admin EXCEPT ![Run(p)] = "locked"]
  /\ Goto(p, "open_save")
  /\ UNCHANGED <<rec, dir, branch, away, archive, receipt, ghosts>>

OpenSave(p) ==
  /\ At(p, "open_save")
  /\ SaveLocked(Run(p), [NoRecord EXCEPT !.status = "open"])
  /\ Return(p)
  /\ UNCHANGED <<dir, admin, branch, away, archive, receipt, ghosts>>

\* A step after the branch was created fails.
OpenFail(p) ==
  /\ \E l \in {"open_worktree", "open_lock", "open_save"} : At(p, l)
  /\ Goto(p, "open_cleanup")
  /\ UNCHANGED <<disk, ghosts>>

\* cleanup: unlock, remove --force and branch -D, each ignoring its error.
\* git refuses to remove a locked worktree and to delete a checked-out branch.
OpenCleanup(p) ==
  /\ At(p, "open_cleanup")
  /\ \E unlocked, removed, deleted \in BOOLEAN :
       LET r == Run(p)
           free == admin[r] # "locked" \/ unlocked
           gone == dir[r] = None \/ (free /\ removed)
       IN  /\ dir' = [dir EXCEPT ![r] = IF gone THEN None ELSE @]
           /\ admin' = [admin EXCEPT ![r] = IF gone THEN "none"
                                            ELSE IF free THEN "registered" ELSE @]
           /\ branch' = [branch EXCEPT ![r] = IF gone /\ deleted THEN NoCommit ELSE @]
           /\ work' = [work EXCEPT ![r] = IF gone THEN None ELSE @]
  /\ Return(p)
  /\ UNCHANGED <<rec, away, archive, receipt, fate, stray>>

----------------------------------------------------------------------------
(* WorkspaceDiff *)

DiffCall(p, r) ==
  /\ rec[r].status # "none" /\ Transition(rec[r].status, "reviewed")
  /\ dir[r] # None
  /\ Enter(p, [IdleFrame EXCEPT
                 !.pc = "diff_save", !.run = r,
                 !.copy = [rec[r] EXCEPT !.status = "reviewed", !.reviewed = dir[r]]])
  /\ UNCHANGED <<disk, ghosts>>

DiffSave(p) ==
  /\ At(p, "diff_save")
  /\ SaveLocked(Run(p), Copy(p))
  /\ Return(p)
  /\ UNCHANGED <<dir, admin, branch, away, archive, receipt, ghosts>>

----------------------------------------------------------------------------
(* Apply *)

\* The gates before verification: status, digest of the current diff, mission
\* integrity, scope, protected paths, destructive approval, policy readable.
ApplyCall(p, r) ==
  /\ rec[r].status = "reviewed"
  /\ dir[r] # None
  /\ dir[r] = rec[r].reviewed
  /\ Enter(p, [IdleFrame EXCEPT !.pc = "verify", !.run = r, !.copy = rec[r]])
  /\ UNCHANGED <<disk, ghosts>>

\* All commands passed, or the mission declares none.  What the commands do to
\* the worktree are AgentEdit and AgentCommit steps; a failing command aborts.
ApplyVerify(p) ==
  /\ At(p, "verify")
  /\ \E v \in {"pass", "not_run"} :
       frame' = [frame EXCEPT ![p].pc = "head", ![p].verdict = v]
  /\ UNCHANGED <<lock, disk, ghosts>>

\* The commit that HEAD of the worktree names.
Head(r) == IF away[r] = NoCommit THEN branch[r] ELSE away[r]

\* update-ref HEAD, git commit: they write the branch that is checked out, or
\* HEAD itself when it is detached.
SetHead(r, c) ==
  \/ /\ away[r] = NoCommit
     /\ branch' = [branch EXCEPT ![r] = c]
     /\ UNCHANGED away
  \/ /\ away[r] # NoCommit
     /\ away' = [away EXCEPT ![r] = c]
     /\ UNCHANGED branch

\* RevParseHead(worktree) = BaseSHA, else blocked; which branch HEAD is on is
\* not looked at.
ApplyHead(p) ==
  /\ At(p, "head")
  /\ dir[Run(p)] # None
  /\ Head(Run(p)) = BaseCommit
  /\ Goto(p, "stage")
  /\ UNCHANGED <<disk, ghosts>>

\* Mutant: the staged tree is not compared with the reviewed digest again.
ApplyStageUnchecked(p) ==
  /\ At(p, "stage")
  /\ dir[Run(p)] # None
  /\ frame' = [frame EXCEPT ![p].tree = dir[Run(p)],
                            ![p].pc = IF PolicyPresent THEN "receipt" ELSE "commit"]
  /\ UNCHANGED <<lock, disk, ghosts>>

\* StageTree pins a tree; its diff must still have the reviewed digest, else
\* the index is reset and the call is blocked.
ApplyStage(p) ==
  /\ At(p, "stage")
  /\ dir[Run(p)] = Copy(p).reviewed
  /\ frame' = [frame EXCEPT ![p].tree = dir[Run(p)],
                            ![p].pc = IF PolicyPresent THEN "receipt" ELSE "commit"]
  /\ fate' = [fate EXCEPT ![Run(p)] = IF dir[Run(p)] = Wreck THEN @ ELSE "none"]
  /\ UNCHANGED <<lock, disk, work, stray>>

\* Mutant: a receipt for any digest is accepted.
ValidReceiptAnyDigest(p) == receipt[Run(p)].digest # None /\ ~receipt[Run(p)].used

\* ValidateReviewReceipt; a receipt may also have expired (an Abort).
ValidReceipt(p) ==
  /\ receipt[Run(p)].digest = Copy(p).reviewed
  /\ ~receipt[Run(p)].used

\* EvaluateAutoApplyPolicy at iteration 1; the risk bound is read from the
\* policy file at every call, so either answer is possible.
PolicyAllows(p, riskAllowed) ==
  /\ frame[p].verdict = "pass"
  /\ riskAllowed

\* A valid receipt is spent by creating its .used marker with O_EXCL.
ConsumeReviewReceipt(p) ==
  /\ ValidReceipt(p)
  /\ receipt' = [receipt EXCEPT ![Run(p)].used = TRUE]

\* The receipt is spent before its verdict and the policy are looked at.
ApplyReceipt(p) ==
  /\ At(p, "receipt")
  /\ ConsumeReviewReceipt(p)
  /\ \E riskAllowed \in BOOLEAN :
       IF receipt[Run(p)].verdict = "approve" /\ PolicyAllows(p, riskAllowed)
       THEN Goto(p, "commit")
       ELSE Return(p)
  /\ UNCHANGED <<rec, dir, admin, branch, away, archive, ghosts>>

\* Mutant: HEAD is set without an expected old value.
MoveHeadNoCAS(p) ==
  /\ dir[Run(p)] # None
  /\ SetHead(Run(p), JacuCommit(frame[p].tree))
  /\ stray' = [stray EXCEPT ![Run(p)] = away[Run(p)] # NoCommit]

\* commit-tree -p BaseSHA, then update-ref HEAD with BaseSHA as the expected
\* old value.
MoveHead(p) ==
  /\ dir[Run(p)] # None
  /\ Head(Run(p)) = BaseCommit
  /\ SetHead(Run(p), JacuCommit(frame[p].tree))
  /\ stray' = [stray EXCEPT ![Run(p)] = away[Run(p)] # NoCommit]

ApplyCommit(p) ==
  /\ At(p, "commit")
  /\ MoveHead(p)
  /\ frame' = [frame EXCEPT
                 ![p].pc = "save_applied",
                 ![p].copy = [Copy(p) EXCEPT !.status = "applied",
                                             !.applied = JacuCommit(frame[p].tree)]]
  /\ UNCHANGED <<lock, rec, dir, admin, archive, receipt, work, fate>>

\* The context ends while git runs: HEAD has moved but CommitTree returns an
\* error, and Apply returns it.
ApplyCommitCut(p) ==
  /\ At(p, "commit")
  /\ MoveHead(p)
  /\ Return(p)
  /\ UNCHANGED <<rec, dir, admin, archive, receipt, work, fate>>

ApplySave(p) ==
  /\ At(p, "save_applied")
  /\ SaveLocked(Run(p), Copy(p))
  /\ Goto(p, IF PolicyPresent THEN "integrate" ELSE "apply_unlock")
  /\ UNCHANGED <<dir, admin, branch, away, archive, receipt, ghosts>>

ApplySaveFail(p) ==
  /\ At(p, "save_applied")
  /\ Goto(p, "rollback")
  /\ UNCHANGED <<disk, ghosts>>

\* UpdateHeadCAS(BaseSHA, commit); the caller is told to retry Apply.
ApplyRollback(p) ==
  /\ At(p, "rollback")
  /\ dir[Run(p)] # None
  /\ Head(Run(p)) = Copy(p).applied
  /\ SetHead(Run(p), BaseCommit)
  /\ Return(p)
  /\ UNCHANGED <<rec, dir, admin, archive, receipt, ghosts>>

\* The merge into sdd/NNN succeeds, or escalates and keeps the worktree.  The
\* last mission of a program that delivers at its end is delivered now.
ApplyIntegrate(p) ==
  /\ At(p, "integrate")
  /\ \/ Goto(p, "deliver")
     \/ Goto(p, "apply_unlock")
     \/ Return(p)
  /\ UNCHANGED <<disk, ghosts>>

\* callAutonomyDeliver pushes and opens the pull request while the lock is
\* held; its failure is a warning (the module Delivery has the push).
ApplyDeliver(p) ==
  /\ At(p, "deliver")
  /\ Goto(p, "apply_unlock")
  /\ UNCHANGED <<disk, ghosts>>

ApplyUnlock(p) ==
  /\ At(p, "apply_unlock")
  /\ admin[Run(p)] = "locked"
  /\ admin' = [admin EXCEPT ![Run(p)] = "registered"]
  /\ Goto(p, "apply_remove")
  /\ UNCHANGED <<rec, dir, branch, away, archive, receipt, ghosts>>

\* git worktree remove --force deletes whatever is there, edits included.
RemoveWorktree(r) ==
  /\ dir[r] # None
  /\ admin[r] = "registered"
  /\ dir' = [dir EXCEPT ![r] = None]
  /\ admin' = [admin EXCEPT ![r] = "none"]

\* git deletes the files one by one, then its metadata.  Killed half-way (its
\* context ended, the user interrupted) it leaves the rest registered; a file
\* it cannot delete makes it drop the metadata and report an error.
TearWorktree(r) ==
  /\ dir[r] # None
  /\ admin[r] = "registered"
  /\ dir' = [dir EXCEPT ![r] = Wreck]
  /\ \E left \in {"registered", "none"} : admin' = [admin EXCEPT ![r] = left]
  /\ fate' = [fate EXCEPT ![r] = IF @ = "late" THEN @ ELSE "torn"]

ApplyRemove(p) ==
  /\ At(p, "apply_remove")
  /\ \/ RemoveWorktree(Run(p)) /\ UNCHANGED fate
     \/ TearWorktree(Run(p))
  /\ Return(p)
  /\ UNCHANGED <<rec, branch, away, archive, receipt, work, stray>>

----------------------------------------------------------------------------
(* Discard *)

\* git worktree list: the worktree is registered (a directory that is gone may
\* be) and has the run's branch checked out.
WorktreeInfo(r) == [registered |-> admin[r] # "none", onBranch |-> away[r] = NoCommit]

\* A directory must be registered, and a registered worktree on its branch.
WorktreeFits(r) ==
  /\ dir[r] # None => WorktreeInfo(r).registered
  /\ WorktreeInfo(r).registered => WorktreeInfo(r).onBranch

\* discardRun: what it decides before it changes anything.
DiscardFrame(r, rest) ==
  [IdleFrame EXCEPT !.pc = IF ~WorktreeFits(r) THEN "refused"
                           ELSE IF dir[r] # None THEN "archive" ELSE "absent",
                    !.run = r, !.copy = rec[r], !.todo = rest]

\* Mutant: the status of the run is not looked at.
DiscardableAnyStatus(r) ==
  /\ rec[r].status # "none"
  /\ WorktreeFits(r)

Discardable(r) ==
  /\ rec[r].status # "none" /\ Transition(rec[r].status, "discarded")
  /\ WorktreeFits(r)

\* Mutant: the worktree is not looked at.
OrphansByStatus == {r \in Runs : rec[r].status \in {"open", "reviewed"}}

\* GC selects the open and reviewed runs whose worktree is gone.
Orphans == {r \in Runs : rec[r].status \in {"open", "reviewed"} /\ dir[r] = None}

\* With gc, the orphans are discarded as well.
DiscardCall(p, r) ==
  /\ Discardable(r)
  /\ \E rest \in {{}, Orphans \ {r}} : Enter(p, DiscardFrame(r, rest))
  /\ UNCHANGED <<disk, ghosts>>

GcCall(p) ==
  /\ \E r \in Orphans : Enter(p, DiscardFrame(r, Orphans \ {r}))
  /\ UNCHANGED <<disk, ghosts>>

\* The selected run is done or has failed: take the next one, or return.
NextRun(p) ==
  \/ /\ frame[p].todo = {}
     /\ Return(p)
  \/ /\ \E r \in frame[p].todo :
          frame' = [frame EXCEPT ![p] = DiscardFrame(r, frame[p].todo \ {r})]
     /\ UNCHANGED lock

DiscardPc ==
  {"archive", "record", "unlock", "remove", "absent", "refused", "branch", "final"}

\* A step of one run fails, or the run is refused; GC records the failure and
\* goes on.
DiscardFail(p) ==
  /\ frame[p].pc \in DiscardPc
  /\ NextRun(p)
  /\ UNCHANGED <<disk, ghosts>>

\* Mutant: a retry keeps the patch that the first attempt recorded.
DiscardArchiveOnce(p) ==
  LET r == Run(p)
      new == dir[r] # Base /\ Copy(p).archive = None
  IN
  /\ At(p, "archive")
  /\ dir[r] # None
  /\ archive' = [archive EXCEPT ![r] = IF new THEN dir[r] ELSE @]
  /\ frame' = [frame EXCEPT ![p].pc = "record",
                            ![p].copy.archive = IF new THEN dir[r] ELSE @]
  /\ fate' = [fate EXCEPT ![r] = IF dir[r] = Wreck THEN @ ELSE "none"]
  /\ UNCHANGED <<lock, rec, dir, admin, branch, away, receipt, work, stray>>

\* Mutant: an archive file that exists is not replaced.
DiscardArchiveKeepsFile(p) ==
  LET r == Run(p) IN
  /\ At(p, "archive")
  /\ dir[r] # None
  /\ archive' = [archive EXCEPT ![r] = IF @ = None /\ dir[r] # Base THEN dir[r] ELSE @]
  /\ frame' = [frame EXCEPT ![p].pc = "record",
                            ![p].copy.archive = IF dir[r] # Base THEN dir[r] ELSE None]
  /\ fate' = [fate EXCEPT ![r] = IF dir[r] = Wreck THEN @ ELSE "none"]
  /\ UNCHANGED <<lock, rec, dir, admin, branch, away, receipt, work, stray>>

\* Diff against the base and, unless it is empty, archiveDiff: temporary file,
\* fsync, rename over the previous archive.
DiscardArchive(p) ==
  LET r == Run(p) IN
  /\ At(p, "archive")
  /\ dir[r] # None
  /\ archive' = [archive EXCEPT ![r] = IF dir[r] # Base THEN dir[r] ELSE @]
  /\ frame' = [frame EXCEPT
                 ![p].pc = "record",
                 ![p].copy = [Copy(p) EXCEPT !.archive = IF dir[r] # Base THEN dir[r] ELSE None]]
  /\ fate' = [fate EXCEPT ![r] = IF dir[r] = Wreck THEN @ ELSE "none"]
  /\ UNCHANGED <<lock, rec, dir, admin, branch, away, receipt, work, stray>>

\* The archive reference is persisted before anything is removed.
DiscardRecord(p) ==
  /\ At(p, "record")
  /\ SaveLocked(Run(p), Copy(p))
  /\ Goto(p, IF admin[Run(p)] = "locked" THEN "unlock" ELSE "remove")
  /\ UNCHANGED <<dir, admin, branch, away, archive, receipt, ghosts>>

DiscardUnlock(p) ==
  /\ At(p, "unlock")
  /\ admin' = [admin EXCEPT ![Run(p)] = "registered"]
  /\ Goto(p, "remove")
  /\ UNCHANGED <<rec, dir, branch, away, archive, receipt, ghosts>>

DiscardRemove(p) ==
  /\ At(p, "remove")
  /\ RemoveWorktree(Run(p))
  /\ Goto(p, "branch")
  /\ UNCHANGED <<rec, branch, away, archive, receipt, ghosts>>

DiscardTear(p) ==
  /\ At(p, "remove")
  /\ TearWorktree(Run(p))
  /\ NextRun(p)
  /\ UNCHANGED <<rec, branch, away, archive, receipt, work, stray>>

\* git worktree prune forgets every unlocked worktree whose directory is gone.
Prune(meta) ==
  [r \in Runs |-> IF dir[r] = None /\ meta[r] = "registered" THEN "none" ELSE meta[r]]

\* The patch that the record names is there and has the recorded digest.
validateArchiveReference(p) == Copy(p).archive # None => archive[Run(p)] = Copy(p).archive

\* The worktree is gone: a promised archive must be there and intact; then
\* unlock and prune git's metadata.
DiscardAbsent(p) ==
  LET r == Run(p) IN
  /\ At(p, "absent")
  /\ validateArchiveReference(p)
  /\ admin' = Prune([admin EXCEPT ![r] = IF @ = "locked" THEN "registered" ELSE @])
  /\ Goto(p, "branch")
  /\ UNCHANGED <<rec, dir, branch, away, archive, receipt, ghosts>>

\* Mutant: a branch that cannot be deleted is ignored.
DiscardBranchIgnored(p) ==
  /\ At(p, "branch")
  /\ admin' = Prune(admin)
  /\ Goto(p, "final")
  /\ UNCHANGED <<rec, dir, branch, away, archive, receipt, ghosts>>

\* git branch -D refuses a branch that a registered worktree has checked out.
DiscardBranch(p) ==
  /\ At(p, "branch")
  /\ admin[Run(p)] = "none"
  /\ branch' = [branch EXCEPT ![Run(p)] = NoCommit]
  /\ admin' = Prune(admin)
  /\ Goto(p, "final")
  /\ UNCHANGED <<rec, dir, away, archive, receipt, ghosts>>

DiscardFinal(p) ==
  /\ At(p, "final")
  /\ SaveLocked(Run(p), [Copy(p) EXCEPT !.status = "discarded"])
  /\ NextRun(p)
  /\ UNCHANGED <<dir, admin, branch, away, archive, receipt, ghosts>>

----------------------------------------------------------------------------
(* Everybody else: no lock *)

\* A process has taken the last look at the tree it is about to commit or
\* remove.
Committed(p) == frame[p].pc \in
  {"receipt", "commit", "save_applied", "rollback", "integrate", "deliver",
   "apply_unlock", "apply_remove", "record", "unlock", "remove"}

AgentEdit(r) ==
  /\ rec[r].status # "none"
  /\ dir[r] \notin {None, Wreck}
  /\ \E c \in Contents \ {dir[r]} :
       /\ dir' = [dir EXCEPT ![r] = c]
       /\ work' = [work EXCEPT ![r] = c]
  /\ fate' = [fate EXCEPT ![r] =
                IF \E p \in Procs : Run(p) = r /\ Committed(p) THEN "late" ELSE @]
  /\ UNCHANGED <<lock, rec, admin, branch, away, archive, receipt, frame, stray>>

\* git works in the worktree of a run that has a branch.
GitWorks(r) ==
  /\ rec[r].status # "none"
  /\ dir[r] # None /\ admin[r] # "none"
  /\ branch[r] # NoCommit

\* git commit in the worktree, by the agent or by a verification command.
AgentCommit(r) ==
  /\ GitWorks(r)
  /\ SetHead(r, [tree |-> dir[r], by |-> "agent"])
  /\ UNCHANGED <<lock, rec, dir, admin, archive, receipt, frame, ghosts>>

\* git switch -c other, git switch --detach (at HEAD or at the base), and back.
\* What a switch does to the files is AgentEdit.
AgentSwitch(r) ==
  /\ GitWorks(r)
  /\ \/ away[r] = NoCommit /\ \E c \in {branch[r], BaseCommit} : away' = [away EXCEPT ![r] = c]
     \/ away[r] # NoCommit /\ away' = [away EXCEPT ![r] = NoCommit]
  /\ UNCHANGED <<lock, rec, dir, admin, branch, archive, receipt, frame, ghosts>>

\* The worktree directory is deleted behind jacu's back.
UserRemove(r) ==
  /\ rec[r].status # "none"
  /\ dir[r] # None
  /\ dir' = [dir EXCEPT ![r] = None]
  /\ fate' = [fate EXCEPT ![r] = "external"]
  /\ UNCHANGED <<lock, rec, admin, branch, away, archive, receipt, frame, work, stray>>

\* WriteReviewReceipt: O_EXCL, so a run gets one receipt; it is for the digest
\* the reviewer names, at any time.  No operation reads it without a policy.
WriteReceipt(r) ==
  /\ PolicyPresent
  /\ receipt[r] = NoReceipt
  /\ \E d \in Trees, v \in {"approve", "reject"} :
       receipt' = [receipt EXCEPT ![r] = [digest |-> d, verdict |-> v, used |-> FALSE]]
  /\ UNCHANGED <<lock, rec, dir, admin, branch, away, archive, frame, ghosts>>

----------------------------------------------------------------------------
Init ==
  /\ lock = NoProc
  /\ rec = [r \in Runs |-> NoRecord]
  /\ dir = [r \in Runs |-> None]
  /\ admin = [r \in Runs |-> "none"]
  /\ branch = [r \in Runs |-> NoCommit]
  /\ away = [r \in Runs |-> NoCommit]
  /\ archive = [r \in Runs |-> None]
  /\ receipt = [r \in Runs |-> NoReceipt]
  /\ frame = [p \in Procs |-> IdleFrame]
  /\ work = [r \in Runs |-> None]
  /\ fate = [r \in Runs |-> "none"]
  /\ stray = [r \in Runs |-> FALSE]

OpenStep(p) ==
  \/ OpenBranch(p) \/ OpenWorktree(p) \/ OpenLock(p) \/ OpenSave(p)
  \/ OpenFail(p) \/ OpenCleanup(p)

ApplyStep(p) ==
  \/ ApplyVerify(p) \/ ApplyHead(p) \/ ApplyStage(p) \/ ApplyReceipt(p)
  \/ ApplyCommit(p) \/ ApplyCommitCut(p) \/ ApplySave(p) \/ ApplySaveFail(p)
  \/ ApplyRollback(p) \/ ApplyIntegrate(p) \/ ApplyDeliver(p) \/ ApplyUnlock(p)
  \/ ApplyRemove(p)

DiscardStep(p) ==
  \/ DiscardFail(p) \/ DiscardArchive(p) \/ DiscardRecord(p) \/ DiscardUnlock(p)
  \/ DiscardRemove(p) \/ DiscardTear(p) \/ DiscardAbsent(p) \/ DiscardBranch(p)
  \/ DiscardFinal(p)

Step(p) == OpenStep(p) \/ DiffSave(p) \/ ApplyStep(p) \/ DiscardStep(p) \/ Abort(p)

Call(p) ==
  \/ \E r \in Runs : \/ OpenCall(p, r) \/ DiffCall(p, r)
                     \/ ApplyCall(p, r) \/ DiscardCall(p, r)
  \/ GcCall(p)

Environment(r) ==
  \/ AgentEdit(r) \/ AgentCommit(r) \/ AgentSwitch(r) \/ UserRemove(r)
  \/ WriteReceipt(r)

Next ==
  \/ \E p \in Procs : Call(p) \/ Step(p)
  \/ \E r \in Runs : Environment(r)

Spec == Init /\ [][Next]_vars

\* A handler that holds the lock keeps running.  Two steps may never end: the
\* verification commands and the delivery, whose output a process that outlives
\* them can keep open (exec.go, runner.go).  git is killed with its context.
Foreign(p) == At(p, "verify") \/ At(p, "deliver")
Progress(p) == ~Foreign(p) /\ Step(p)
FairSpec == Spec /\ \A p \in Procs : WF_vars(Progress(p))

\* Every operation but the discard of a run that is named: runs are collected
\* by GC alone.
CollectNext ==
  \/ \E p \in Procs :
       \/ \E r \in Runs : OpenCall(p, r) \/ DiffCall(p, r) \/ ApplyCall(p, r)
       \/ GcCall(p) \/ Step(p)
  \/ \E r \in Runs : Environment(r)

CollectSpec == Init /\ [][CollectNext]_vars /\ \A p \in Procs : WF_vars(Progress(p))

----------------------------------------------------------------------------
(* Properties *)

TypeOK ==
  /\ lock \in Procs \cup {NoProc}
  /\ rec \in [Runs -> Record]
  /\ dir \in [Runs -> Trees \cup {None}]
  /\ admin \in [Runs -> {"none", "registered", "locked"}]
  /\ branch \in [Runs -> Commit]
  /\ away \in [Runs -> Commit]
  /\ archive \in [Runs -> Trees \cup {None}]
  /\ receipt \in [Runs -> Receipt]
  /\ frame \in [Procs -> Frame]
  /\ work \in [Runs -> Contents \cup {None}]
  /\ fate \in [Runs -> {"none", "late", "torn", "external"}]
  /\ stray \in [Runs -> BOOLEAN]

\* What Apply records as applied is one commit made by jacu whose tree is
\* exactly the reviewed diff, whatever the agent and the verification
\* commands did to the worktree while Apply was running (apply.go: the digest
\* is checked before verification and again on the staged tree).
AppliedIsReviewed ==
  \A r \in Runs : rec[r].status = "applied" =>
    /\ rec[r].applied = JacuCommit(rec[r].reviewed)
    /\ rec[r].reviewed # None

\* Under an autonomy policy nothing is applied without a consumed receipt
\* that approves the very tree that was committed (apply.go, receipt.go).
ReceiptGovernsApply ==
  \A r \in Runs : PolicyPresent /\ rec[r].status = "applied" =>
    receipt[r] = [digest |-> rec[r].applied.tree, verdict |-> "approve", used |-> TRUE]

\* The commit of an applied run stays on the run's branch: no later discard, GC
\* or retry, after any crash, deletes or rewinds it; only the agent commits on
\* top of it.  The one exception is a commit that never got there: update-ref
\* HEAD writes whatever is checked out in the worktree, and Apply compares the
\* commit of HEAD with the base, never its branch (apply.go:144, gitx.go:420).
AppliedStaysOnBranch ==
  \A r \in Runs : rec[r].status = "applied" /\ ~stray[r] =>
    \/ branch[r] = rec[r].applied
    \/ branch[r].by = "agent"

\* A run marked discarded has left nothing behind: no directory, no git
\* metadata, no branch, in spite of crashes and retries in between.
DiscardedIsGone ==
  \A r \in Runs : rec[r].status = "discarded" =>
    dir[r] = None /\ admin[r] = "none" /\ branch[r] = NoCommit

\* No work is lost: once jacu has removed a worktree, the last tree the agent
\* left there is the base, the run's archived patch or the applied commit.
\* The three exceptions are recorded in fate: an edit made after jacu's last
\* look (late), a removal that stopped half-way (torn), and a directory that
\* somebody else deleted (external).
WorkIsKept(r) ==
  \/ work[r] \in {None, Base}
  \/ rec[r].archive = work[r] /\ archive[r] = work[r]
  \/ rec[r].status = "applied" /\ rec[r].applied.tree = work[r]
NoWorkLost ==
  \A r \in Runs : dir[r] = None /\ fate[r] = "none" => WorkIsKept(r)

\* As NoWorkLost, for a run that is discarded, without the torn exception: the
\* removal may have been cut short and the discard called again.
WorkSurvivesRetry ==
  \A r \in Runs : rec[r].status = "discarded" /\ fate[r] \in {"none", "torn"} =>
    WorkIsKept(r)

\* The record of a run whose worktree a discard removed names an archive that
\* exists with that digest, so the retry of an interrupted discard never
\* fails its integrity check (discard.go: validateArchiveReference).
ArchiveReferenceHolds ==
  \A r \in Runs :
    /\ dir[r] = None /\ fate[r] # "external"
    /\ rec[r].status # "applied" /\ rec[r].archive # None
    => archive[r] = rec[r].archive

\* Between loading a record and saving it no other process changes it: the
\* copy a handler works on is never stale.
CopyIsFresh ==
  \A p \in Procs : frame[p].pc \in DiscardPc \cup
      {"verify", "head", "stage", "receipt", "commit"} =>
    Copy(p).status = rec[Run(p)].status /\ Copy(p).reviewed = rec[Run(p)].reviewed

\* applied and discarded are final, and so is what they recorded.
TerminalIsFinal ==
  [][\A r \in Runs :
       /\ rec[r].status = "applied" => rec'[r] = rec[r]
       /\ rec[r].status = "discarded" => rec'[r].status = "discarded"]_rec

\* Apply and its rollback never overwrite a commit that somebody else put on
\* the run's branch.  Only a discard deletes it, and only once the worktree is
\* gone: archived and removed by jacu, or deleted by somebody else.
ForeignCommitsSurvive ==
  [][\A r \in Runs :
       branch[r].by = "agent" /\ branch'[r].by # "agent" =>
         /\ branch'[r] = NoCommit
         /\ dir[r] = None]_branch

\* GC, when runs are discarded by it alone, touches only the runs it collects:
\* a run whose worktree is there keeps its record and git's metadata, whatever
\* happens to the other runs and whatever else works on this one.
HealthyRunsUntouched ==
  [][\A p \in Procs : DiscardStep(p) =>
       \A r \in Runs : dir[r] # None => rec'[r] = rec[r] /\ admin'[r] = admin[r]]_vars

=============================================================================
