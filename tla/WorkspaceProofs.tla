--------------------------- MODULE WorkspaceProofs ---------------------------
(* Theorems about Workspace, for every number of processes and runs.        *)
EXTENDS Workspace, TLAPS

----------------------------------------------------------------------------
(* Values and frames *)

\* The constant records belong to their sets, and updates stay there.
LEMMA Values ==
  /\ Base \in Trees /\ Wreck \in Trees /\ Contents \subseteq Trees
  /\ NoCommit \in Commit /\ BaseCommit \in Commit
  /\ \A t \in Trees \cup {None} : /\ JacuCommit(t) \in Commit
                                 /\ [tree |-> t, by |-> "agent"] \in Commit
  /\ NoRecord \in Record /\ NoReceipt \in Receipt
  /\ \A c \in Record, s \in Status : [c EXCEPT !.status = s] \in Record
  /\ \A c \in Record, t \in Trees \cup {None} :
       /\ [c EXCEPT !.archive = t] \in Record
       /\ [c EXCEPT !.status = "reviewed", !.reviewed = t] \in Record
       /\ [c EXCEPT !.status = "applied", !.applied = JacuCommit(t)] \in Record
BY ConstantsAssumption DEF Trees, NoCommit, BaseCommit, JacuCommit, Commit, NoRecord, Record,
                           NoReceipt, Receipt, Status

\* The parts of a frame.
LEMMA FrameParts ==
  ASSUME NEW f \in Frame
  PROVE  /\ f.copy \in Record /\ f.tree \in Trees \cup {None}
         /\ f.run \in Runs \cup {None} /\ f.todo \in SUBSET Runs
BY DEF Frame

\* The frame of a process outside any call.
LEMMA IdleFrameType == IdleFrame \in Frame /\ IdleFrame.pc = "idle"
<1>1. NoRecord \in Record
  BY Values
<1> QED
  BY <1>1 DEF IdleFrame, Frame, Labels

\* Updates of a frame that keep its run.
LEMMA SetPc ==
  ASSUME NEW f \in Frame, NEW l \in Labels
  PROVE  [f EXCEPT !.pc = l] \in Frame /\ [f EXCEPT !.pc = l].run = f.run
BY DEF Frame

\* A label and a new record copy: what Apply and Discard do to their frame.
LEMMA SetCopy ==
  ASSUME NEW f \in Frame, NEW l \in Labels, NEW c \in Record
  PROVE  /\ [f EXCEPT !.pc = l, !.copy = c] \in Frame
         /\ [f EXCEPT !.pc = l, !.copy = c].run = f.run
BY DEF Frame

LEMMA SetVerdict ==
  ASSUME NEW f \in Frame, NEW l \in Labels, NEW v \in {"pass", "not_run"}
  PROVE  /\ [f EXCEPT !.pc = l, !.verdict = v] \in Frame
         /\ [f EXCEPT !.pc = l, !.verdict = v].run = f.run
BY DEF Frame

\* The frame of the first step of a call.
LEMMA NewFrame ==
  ASSUME NEW l \in Labels, NEW r \in Runs
  PROVE  /\ [IdleFrame EXCEPT !.pc = l, !.run = r] \in Frame
         /\ [IdleFrame EXCEPT !.pc = l, !.run = r].run = r
BY IdleFrameType DEF Frame

\* The first frame of a call that loads a record.
LEMMA NewFrameCopy ==
  ASSUME NEW l \in Labels, NEW r \in Runs, NEW c \in Record
  PROVE  /\ [IdleFrame EXCEPT !.pc = l, !.run = r, !.copy = c] \in Frame
         /\ [IdleFrame EXCEPT !.pc = l, !.run = r, !.copy = c].run = r
BY IdleFrameType DEF Frame

----------------------------------------------------------------------------
(* Types *)

DiskTypeOK ==
  /\ rec \in [Runs -> Record]
  /\ dir \in [Runs -> Trees \cup {None}]
  /\ admin \in [Runs -> {"none", "registered", "locked"}]
  /\ branch \in [Runs -> Commit]
  /\ away \in [Runs -> Commit]
  /\ archive \in [Runs -> Trees \cup {None}]
  /\ receipt \in [Runs -> Receipt]
  /\ work \in [Runs -> Contents \cup {None}]
  /\ fate \in [Runs -> {"none", "late", "torn", "external"}]
  /\ stray \in [Runs -> BOOLEAN]

\* A process that executes a call works on a run and holds the lock.
FrameTypeOK ==
  /\ lock \in Procs \cup {NoProc}
  /\ frame \in [Procs -> Frame]
  /\ \A p \in Procs : frame[p].pc # "idle" => frame[p].run \in Runs /\ lock = p

\* A removal that stops half-way writes the directory, git's metadata and fate.
LEMMA TearType ==
  ASSUME DiskTypeOK, NEW r \in Runs, TearWorktree(r)
  PROVE  /\ dir' \in [Runs -> Trees \cup {None}]
         /\ admin' \in [Runs -> {"none", "registered", "locked"}]
         /\ fate' \in [Runs -> {"none", "late", "torn", "external"}]
<1>1. dir' \in [Runs -> Trees \cup {None}]
  BY Values DEF DiskTypeOK, TearWorktree
<1>2. admin' \in [Runs -> {"none", "registered", "locked"}]
  BY DEF DiskTypeOK, TearWorktree
<1>3. fate' \in [Runs -> {"none", "late", "torn", "external"}]
  BY DEF DiskTypeOK, TearWorktree
<1> QED
  BY <1>1, <1>2, <1>3

\* update-ref HEAD writes the run's branch or the commit of another HEAD.
LEMMA SetHeadType ==
  ASSUME DiskTypeOK, NEW r \in Runs, NEW c \in Commit, SetHead(r, c)
  PROVE  branch' \in [Runs -> Commit] /\ away' \in [Runs -> Commit]
BY DEF DiskTypeOK, SetHead

\* So does the commit of Apply, which is noted when it strays.
LEMMA MoveHeadType ==
  ASSUME DiskTypeOK, NEW p \in Procs, Run(p) \in Runs, frame[p].tree \in Trees \cup {None},
         MoveHead(p)
  PROVE  /\ branch' \in [Runs -> Commit] /\ away' \in [Runs -> Commit]
         /\ stray' \in [Runs -> BOOLEAN]
<1>1. SetHead(Run(p), JacuCommit(frame[p].tree)) /\ JacuCommit(frame[p].tree) \in Commit
  BY Values DEF MoveHead
<1>2. branch' \in [Runs -> Commit] /\ away' \in [Runs -> Commit]
  BY <1>1, SetHeadType
<1>3. stray' \in [Runs -> BOOLEAN]
  <2>1. PICK b \in BOOLEAN : stray' = [stray EXCEPT ![Run(p)] = b]
    BY Zenon DEF MoveHead
  <2> QED
    BY <2>1 DEF DiskTypeOK
<1> QED
  BY <1>2, <1>3

\* What a step leaves on disk is well typed.
LEMMA DiskTypeStep == DiskTypeOK /\ FrameTypeOK /\ [Next]_vars => DiskTypeOK'
<1> SUFFICES ASSUME DiskTypeOK, FrameTypeOK, [Next]_vars PROVE DiskTypeOK'
  OBVIOUS
<1> USE ConstantsAssumption, Values DEF DiskTypeOK, At, Run, Copy, disk, ghosts
<1>0. ASSUME NEW p \in Procs, frame[p].pc # "idle"
      PROVE  /\ frame[p].run \in Runs
             /\ frame[p].copy \in Record
             /\ frame[p].tree \in Trees \cup {None}
  BY <1>0, FrameParts DEF FrameTypeOK
<1>1. CASE UNCHANGED vars
  BY <1>0, <1>1 DEF vars
<1>2. ASSUME NEW p \in Procs, OpenBranch(p)
      PROVE  DiskTypeOK'
  BY <1>0, <1>2 DEF OpenBranch
<1>3. ASSUME NEW p \in Procs, OpenWorktree(p)
      PROVE  DiskTypeOK'
  BY <1>0, <1>3 DEF OpenWorktree
<1>4. ASSUME NEW p \in Procs, OpenLock(p)
      PROVE  DiskTypeOK'
  BY <1>0, <1>4 DEF OpenLock
<1>5. ASSUME NEW p \in Procs, OpenSave(p)
      PROVE  DiskTypeOK'
  BY <1>0, <1>5 DEF OpenSave, SaveLocked, Status
<1>6. ASSUME NEW p \in Procs, OpenFail(p)
      PROVE  DiskTypeOK'
  BY <1>0, <1>6 DEF OpenFail
<1>7. ASSUME NEW p \in Procs, OpenCleanup(p)
      PROVE  DiskTypeOK'
  <2>1. PICK gone, deleted \in BOOLEAN :
          /\ dir' = [dir EXCEPT ![Run(p)] = IF gone THEN None ELSE @]
          /\ branch' = [branch EXCEPT ![Run(p)] = IF gone /\ deleted THEN NoCommit ELSE @]
    BY <1>0, <1>7, Zenon DEF OpenCleanup
  <2>2. dir' \in [Runs -> Trees \cup {None}]
    BY <2>1
  <2>3. branch' \in [Runs -> Commit]
    BY <2>1
  <2>4. admin' \in [Runs -> {"none", "registered", "locked"}]
    <3>1. PICK cleared, free \in BOOLEAN :
            admin' = [admin EXCEPT ![Run(p)] = IF cleared THEN "none"
                                               ELSE IF free THEN "registered" ELSE @]
      BY <1>0, <1>7, Zenon DEF OpenCleanup
    <3> QED
      BY <3>1
  <2>5. work' \in [Runs -> Contents \cup {None}]
    BY <1>0, <1>7 DEF OpenCleanup
  <2> QED
    BY <1>0, <1>7, <2>2, <2>3, <2>4, <2>5 DEF OpenCleanup
<1>8. ASSUME NEW p \in Procs, DiffSave(p)
      PROVE  DiskTypeOK'
  BY <1>0, <1>8 DEF DiffSave, SaveLocked
<1>9. ASSUME NEW p \in Procs, ApplyVerify(p)
      PROVE  DiskTypeOK'
  BY <1>0, <1>9 DEF ApplyVerify
<1>10. ASSUME NEW p \in Procs, ApplyHead(p)
      PROVE  DiskTypeOK'
  BY <1>0, <1>10 DEF ApplyHead
<1>11. ASSUME NEW p \in Procs, ApplyStage(p)
      PROVE  DiskTypeOK'
  BY <1>0, <1>11 DEF ApplyStage
<1>12. ASSUME NEW p \in Procs, ApplyReceipt(p)
      PROVE  DiskTypeOK'
  BY <1>0, <1>12 DEF ApplyReceipt, ConsumeReviewReceipt, Receipt
<1>13. ASSUME NEW p \in Procs, ApplyCommit(p)
      PROVE  DiskTypeOK'
  BY <1>0, <1>13, MoveHeadType DEF ApplyCommit
<1>14. ASSUME NEW p \in Procs, ApplyCommitCut(p)
      PROVE  DiskTypeOK'
  BY <1>0, <1>14, MoveHeadType DEF ApplyCommitCut
<1>15. ASSUME NEW p \in Procs, ApplySave(p)
      PROVE  DiskTypeOK'
  BY <1>0, <1>15 DEF ApplySave, SaveLocked
<1>16. ASSUME NEW p \in Procs, ApplySaveFail(p)
      PROVE  DiskTypeOK'
  BY <1>0, <1>16 DEF ApplySaveFail
<1>17. ASSUME NEW p \in Procs, ApplyRollback(p)
      PROVE  DiskTypeOK'
  BY <1>0, <1>17, SetHeadType DEF ApplyRollback
<1>18. ASSUME NEW p \in Procs, ApplyIntegrate(p)
      PROVE  DiskTypeOK'
  BY <1>0, <1>18 DEF ApplyIntegrate
<1>19. ASSUME NEW p \in Procs, ApplyUnlock(p)
      PROVE  DiskTypeOK'
  BY <1>0, <1>19 DEF ApplyUnlock
<1>20. ASSUME NEW p \in Procs, ApplyRemove(p)
      PROVE  DiskTypeOK'
  <2>1. CASE RemoveWorktree(Run(p)) /\ UNCHANGED fate
    BY <1>0, <1>20, <2>1 DEF ApplyRemove, RemoveWorktree
  <2>2. CASE TearWorktree(Run(p))
    BY <1>0, <1>20, <2>2, TearType DEF ApplyRemove
  <2> QED
    BY <1>0, <1>20, <2>1, <2>2 DEF ApplyRemove
<1>21. ASSUME NEW p \in Procs, DiscardFail(p)
      PROVE  DiskTypeOK'
  BY <1>0, <1>21 DEF DiscardFail
<1>22. ASSUME NEW p \in Procs, DiscardArchive(p)
      PROVE  DiskTypeOK'
  BY <1>0, <1>22 DEF DiscardArchive
<1>23. ASSUME NEW p \in Procs, DiscardRecord(p)
      PROVE  DiskTypeOK'
  BY <1>0, <1>23 DEF DiscardRecord, SaveLocked
<1>24. ASSUME NEW p \in Procs, DiscardUnlock(p)
      PROVE  DiskTypeOK'
  BY <1>0, <1>24 DEF DiscardUnlock
<1>25. ASSUME NEW p \in Procs, DiscardRemove(p)
      PROVE  DiskTypeOK'
  BY <1>0, <1>25 DEF DiscardRemove, RemoveWorktree
<1>26. ASSUME NEW p \in Procs, DiscardTear(p)
      PROVE  DiskTypeOK'
  BY <1>0, <1>26, TearType DEF DiscardTear
<1>27. ASSUME NEW p \in Procs, DiscardAbsent(p)
      PROVE  DiskTypeOK'
  BY <1>0, <1>27 DEF DiscardAbsent, Prune
<1>28. ASSUME NEW p \in Procs, DiscardBranch(p)
      PROVE  DiskTypeOK'
  BY <1>0, <1>28 DEF DiscardBranch, Prune
<1>29. ASSUME NEW p \in Procs, DiscardFinal(p)
      PROVE  DiskTypeOK'
  BY <1>0, <1>29 DEF DiscardFinal, SaveLocked, Status
<1>30. ASSUME NEW p \in Procs, Abort(p)
      PROVE  DiskTypeOK'
  BY <1>0, <1>30 DEF Abort
<1>31. ASSUME NEW p \in Procs, NEW r \in Runs, OpenCall(p, r)
      PROVE  DiskTypeOK'
  BY <1>0, <1>31 DEF OpenCall
<1>32. ASSUME NEW p \in Procs, NEW r \in Runs, DiffCall(p, r)
      PROVE  DiskTypeOK'
  BY <1>0, <1>32 DEF DiffCall
<1>33. ASSUME NEW p \in Procs, NEW r \in Runs, ApplyCall(p, r)
      PROVE  DiskTypeOK'
  BY <1>0, <1>33 DEF ApplyCall
<1>34. ASSUME NEW p \in Procs, NEW r \in Runs, DiscardCall(p, r)
      PROVE  DiskTypeOK'
  BY <1>0, <1>34 DEF DiscardCall
<1>35. ASSUME NEW p \in Procs, GcCall(p)
      PROVE  DiskTypeOK'
  BY <1>0, <1>35 DEF GcCall
<1>36. ASSUME NEW r \in Runs, AgentEdit(r)
      PROVE  DiskTypeOK'
  <2>1. dir' \in [Runs -> Trees \cup {None}]
    BY <1>0, <1>36 DEF AgentEdit
  <2>2. work' \in [Runs -> Contents \cup {None}]
    BY <1>0, <1>36 DEF AgentEdit
  <2>3. fate' \in [Runs -> {"none", "late", "torn", "external"}]
    BY <1>0, <1>36 DEF AgentEdit
  <2> QED
    BY <1>0, <1>36, <2>1, <2>2, <2>3 DEF AgentEdit
<1>37. ASSUME NEW r \in Runs, AgentCommit(r)
      PROVE  DiskTypeOK'
  BY <1>0, <1>37, SetHeadType DEF AgentCommit
<1>38. ASSUME NEW r \in Runs, UserRemove(r)
      PROVE  DiskTypeOK'
  BY <1>0, <1>38 DEF UserRemove
<1>39. ASSUME NEW r \in Runs, WriteReceipt(r)
      PROVE  DiskTypeOK'
  <2>1. \A d \in Trees, v \in {"approve", "reject"} :
          [digest |-> d, verdict |-> v, used |-> FALSE] \in Receipt
    BY DEF Receipt
  <2>2. PICK d \in Trees, v \in {"approve", "reject"} :
          receipt' = [receipt EXCEPT ![r] = [digest |-> d, verdict |-> v, used |-> FALSE]]
    BY <1>39 DEF WriteReceipt
  <2>3. receipt' \in [Runs -> Receipt]
    BY <2>1, <2>2
  <2> QED
    BY <1>39, <2>3 DEF WriteReceipt
<1>40. ASSUME NEW p \in Procs, ApplyDeliver(p)
      PROVE  DiskTypeOK'
  BY <1>0, <1>40 DEF ApplyDeliver
<1>41. ASSUME NEW r \in Runs, AgentSwitch(r)
      PROVE  DiskTypeOK'
  <2>1. \E c \in Commit : away' = [away EXCEPT ![r] = c]
    BY <1>41 DEF AgentSwitch
  <2>2. away' \in [Runs -> Commit]
    BY <2>1
  <2> QED
    BY <1>41, <2>2 DEF AgentSwitch
<1> QED
  BY <1>1, <1>2, <1>3, <1>4, <1>5, <1>6, <1>7, <1>8, <1>9, <1>10, <1>11, <1>12, <1>13, <1>14, <1>15, <1>16, <1>17, <1>18, <1>19, <1>20, <1>21, <1>22, <1>23, <1>24, <1>25, <1>26, <1>27, <1>28, <1>29, <1>30, <1>31, <1>32, <1>33, <1>34, <1>35, <1>36, <1>37, <1>38, <1>39, <1>40, <1>41
     DEF Next, Call, Step, OpenStep, ApplyStep, DiscardStep, Environment

\* The four ways in which a step changes frames.
LEMMA SetFrameType ==
  ASSUME FrameTypeOK, NEW p \in Procs, ~At(p, "idle"), NEW f \in Frame, f.run = frame[p].run,
         frame' = [frame EXCEPT ![p] = f], UNCHANGED lock
  PROVE  FrameTypeOK'
BY DEF FrameTypeOK, At

\* Goto keeps every frame typed and the lock with the process that holds it.
LEMMA GotoType ==
  ASSUME FrameTypeOK, NEW p \in Procs, ~At(p, "idle"), NEW l \in Labels, Goto(p, l)
  PROVE  FrameTypeOK'
<1>1. [frame[p] EXCEPT !.pc = l] \in Frame /\ [frame[p] EXCEPT !.pc = l].run = frame[p].run
  BY SetPc DEF FrameTypeOK
<1>2. frame' = [frame EXCEPT ![p] = [frame[p] EXCEPT !.pc = l]]
  BY DEF Goto
<1> QED
  BY <1>1, <1>2, SetFrameType DEF Goto

\* Return empties the frame of the process and frees the lock.
LEMMA ReturnType ==
  ASSUME FrameTypeOK, NEW p \in Procs, ~At(p, "idle"), Return(p)
  PROVE  FrameTypeOK'
BY IdleFrameType DEF FrameTypeOK, Return, At

\* Enter gives the lock to the process and installs its first frame.
LEMMA EnterType ==
  ASSUME FrameTypeOK, NEW p \in Procs, NEW f \in Frame, f.run \in Runs, Enter(p, f)
  PROVE  FrameTypeOK'
BY ConstantsAssumption DEF FrameTypeOK, Enter

\* The frame with which a discard of a run begins.
LEMMA DiscardFrameType ==
  ASSUME DiskTypeOK, NEW r \in Runs, NEW rest \in SUBSET Runs
  PROVE  DiscardFrame(r, rest) \in Frame /\ DiscardFrame(r, rest).run = r
<1> DEFINE l == IF ~WorktreeFits(r) THEN "refused"
                ELSE IF dir[r] # None THEN "archive" ELSE "absent"
<1>1. l \in Labels
  BY DEF Labels
<1>2. rec[r] \in Record
  BY DEF DiskTypeOK
<1>3. DiscardFrame(r, rest) =
        [IdleFrame EXCEPT !.pc = l, !.run = r, !.copy = rec[r], !.todo = rest]
  BY DEF DiscardFrame
<1> HIDE DEF l
<1> QED
  BY <1>1, <1>2, <1>3, IdleFrameType DEF Frame

\* The next run of a discard's list, or the end of the call.
LEMMA NextRunType ==
  ASSUME DiskTypeOK, FrameTypeOK, NEW p \in Procs, ~At(p, "idle"), NextRun(p)
  PROVE  FrameTypeOK'
<1>1. CASE Return(p)
  BY <1>1, ReturnType
<1>2. CASE /\ \E r \in frame[p].todo :
                frame' = [frame EXCEPT ![p] = DiscardFrame(r, frame[p].todo \ {r})]
           /\ UNCHANGED lock
  <2>1. PICK r \in frame[p].todo :
          frame' = [frame EXCEPT ![p] = DiscardFrame(r, frame[p].todo \ {r})]
    BY <1>2
  <2>2. r \in Runs /\ frame[p].todo \ {r} \in SUBSET Runs
    BY FrameParts DEF FrameTypeOK
  <2>3. /\ DiscardFrame(r, frame[p].todo \ {r}) \in Frame
        /\ DiscardFrame(r, frame[p].todo \ {r}).run = r
    BY <2>2, DiscardFrameType
  <2> QED
    BY <1>2, <2>1, <2>2, <2>3 DEF FrameTypeOK, At
<1> QED
  BY <1>1, <1>2 DEF NextRun

\* Frames are well typed, and a process inside a call holds the lock.
LEMMA FrameTypeStep == DiskTypeOK /\ FrameTypeOK /\ [Next]_vars => FrameTypeOK'
<1> SUFFICES ASSUME DiskTypeOK, FrameTypeOK, [Next]_vars PROVE FrameTypeOK'
  OBVIOUS
<1> USE DEF At
<1>0. ASSUME NEW p \in Procs PROVE frame[p] \in Frame
  BY DEF FrameTypeOK
<1>1. CASE UNCHANGED vars
  BY <1>1 DEF vars, FrameTypeOK
<1>2. ASSUME NEW p \in Procs, OpenBranch(p)
      PROVE  FrameTypeOK'
  BY <1>2, GotoType DEF OpenBranch, Labels
<1>3. ASSUME NEW p \in Procs, OpenWorktree(p)
      PROVE  FrameTypeOK'
  BY <1>3, GotoType DEF OpenWorktree, Labels
<1>4. ASSUME NEW p \in Procs, OpenLock(p)
      PROVE  FrameTypeOK'
  BY <1>4, GotoType DEF OpenLock, Labels
<1>5. ASSUME NEW p \in Procs, OpenSave(p)
      PROVE  FrameTypeOK'
  BY <1>5, ReturnType DEF OpenSave
<1>6. ASSUME NEW p \in Procs, OpenFail(p)
      PROVE  FrameTypeOK'
  <2>1. ~At(p, "idle") /\ Goto(p, "open_cleanup")
    BY <1>6 DEF OpenFail
  <2> QED
    BY <2>1, GotoType DEF Labels
<1>7. ASSUME NEW p \in Procs, OpenCleanup(p)
      PROVE  FrameTypeOK'
  BY <1>7, ReturnType DEF OpenCleanup
<1>8. ASSUME NEW p \in Procs, DiffSave(p)
      PROVE  FrameTypeOK'
  BY <1>8, ReturnType DEF DiffSave
<1>9. ASSUME NEW p \in Procs, ApplyVerify(p)
      PROVE  FrameTypeOK'
  <2>1. PICK v \in {"pass", "not_run"} :
          frame' = [frame EXCEPT ![p] = [frame[p] EXCEPT !.pc = "head", !.verdict = v]]
    BY <1>9 DEF ApplyVerify
  <2>2. /\ [frame[p] EXCEPT !.pc = "head", !.verdict = v] \in Frame
        /\ [frame[p] EXCEPT !.pc = "head", !.verdict = v].run = frame[p].run
    <3>1. "head" \in Labels
      BY DEF Labels
    <3> QED
      BY <1>0, <3>1, SetVerdict
  <2> QED
    BY <1>9, <2>1, <2>2, SetFrameType DEF ApplyVerify
<1>10. ASSUME NEW p \in Procs, ApplyHead(p)
      PROVE  FrameTypeOK'
  BY <1>10, GotoType DEF ApplyHead, Labels
<1>11. ASSUME NEW p \in Procs, ApplyStage(p)
      PROVE  FrameTypeOK'
  <2> DEFINE f == [frame[p] EXCEPT !.tree = dir[Run(p)],
                                   !.pc = IF PolicyPresent THEN "receipt" ELSE "commit"]
  <2>1. frame' = [frame EXCEPT ![p] = f]
    BY <1>11 DEF ApplyStage
  <2>2. dir[Run(p)] \in Trees \cup {None}
    BY <1>11 DEF ApplyStage, DiskTypeOK, FrameTypeOK, Run, At
  <2>3. f \in Frame /\ f.run = frame[p].run
    <3>1. (IF PolicyPresent THEN "receipt" ELSE "commit") \in Labels
      BY DEF Labels
    <3> QED
      BY <1>0, <2>2, <3>1 DEF Frame
  <2> QED
    BY <1>11, <2>1, <2>3, SetFrameType DEF ApplyStage
<1>12. ASSUME NEW p \in Procs, ApplyReceipt(p)
      PROVE  FrameTypeOK'
  BY <1>12, GotoType, ReturnType DEF ApplyReceipt, ConsumeReviewReceipt, Labels
<1>13. ASSUME NEW p \in Procs, ApplyCommit(p)
      PROVE  FrameTypeOK'
  <2> DEFINE cp == [frame[p].copy EXCEPT !.status = "applied",
                                          !.applied = JacuCommit(frame[p].tree)]
             f == [frame[p] EXCEPT !.pc = "save_applied", !.copy = cp]
  <2>1. frame' = [frame EXCEPT ![p] = f]
    BY <1>13 DEF ApplyCommit, Copy
  <2>2. cp \in Record
    BY Values, FrameParts DEF FrameTypeOK
  <2>3. f \in Frame /\ f.run = frame[p].run
    <3>1. "save_applied" \in Labels
      BY DEF Labels
    <3> QED
      BY <1>0, <2>2, <3>1, SetCopy
  <2> QED
    BY <1>13, <2>1, <2>3, SetFrameType DEF ApplyCommit
<1>14. ASSUME NEW p \in Procs, ApplyCommitCut(p)
      PROVE  FrameTypeOK'
  BY <1>14, ReturnType DEF ApplyCommitCut
<1>15. ASSUME NEW p \in Procs, ApplySave(p)
      PROVE  FrameTypeOK'
  BY <1>15, GotoType DEF ApplySave, Labels
<1>16. ASSUME NEW p \in Procs, ApplySaveFail(p)
      PROVE  FrameTypeOK'
  BY <1>16, GotoType DEF ApplySaveFail, Labels
<1>17. ASSUME NEW p \in Procs, ApplyRollback(p)
      PROVE  FrameTypeOK'
  BY <1>17, ReturnType DEF ApplyRollback
<1>18. ASSUME NEW p \in Procs, ApplyIntegrate(p)
      PROVE  FrameTypeOK'
  BY <1>18, GotoType, ReturnType DEF ApplyIntegrate, Labels
<1>19. ASSUME NEW p \in Procs, ApplyUnlock(p)
      PROVE  FrameTypeOK'
  BY <1>19, GotoType DEF ApplyUnlock, Labels
<1>20. ASSUME NEW p \in Procs, ApplyRemove(p)
      PROVE  FrameTypeOK'
  BY <1>20, ReturnType DEF ApplyRemove
<1>21. ASSUME NEW p \in Procs, DiscardFail(p)
      PROVE  FrameTypeOK'
  BY <1>21, NextRunType DEF DiscardFail, DiscardPc
<1>22. ASSUME NEW p \in Procs, DiscardArchive(p)
      PROVE  FrameTypeOK'
  <2> DEFINE t == IF dir[Run(p)] # Base THEN dir[Run(p)] ELSE None
             cp == [frame[p].copy EXCEPT !.archive = t]
             f == [frame[p] EXCEPT !.pc = "record", !.copy = cp]
  <2>1. frame' = [frame EXCEPT ![p] = f]
    BY <1>22 DEF DiscardArchive, Copy
  <2>2. t \in Trees \cup {None}
    BY <1>22 DEF DiscardArchive, DiskTypeOK, FrameTypeOK, Run, At
  <2>3. cp \in Record
    BY <2>2, Values, FrameParts DEF FrameTypeOK
  <2>4. f \in Frame /\ f.run = frame[p].run
    <3>1. "record" \in Labels
      BY DEF Labels
    <3> QED
      BY <1>0, <2>3, <3>1, SetCopy
  <2> QED
    BY <1>22, <2>1, <2>4, SetFrameType DEF DiscardArchive
<1>23. ASSUME NEW p \in Procs, DiscardRecord(p)
      PROVE  FrameTypeOK'
  BY <1>23, GotoType DEF DiscardRecord, Labels
<1>24. ASSUME NEW p \in Procs, DiscardUnlock(p)
      PROVE  FrameTypeOK'
  BY <1>24, GotoType DEF DiscardUnlock, Labels
<1>25. ASSUME NEW p \in Procs, DiscardRemove(p)
      PROVE  FrameTypeOK'
  BY <1>25, GotoType DEF DiscardRemove, Labels
<1>26. ASSUME NEW p \in Procs, DiscardTear(p)
      PROVE  FrameTypeOK'
  BY <1>26, NextRunType DEF DiscardTear
<1>27. ASSUME NEW p \in Procs, DiscardAbsent(p)
      PROVE  FrameTypeOK'
  BY <1>27, GotoType DEF DiscardAbsent, Labels
<1>28. ASSUME NEW p \in Procs, DiscardBranch(p)
      PROVE  FrameTypeOK'
  BY <1>28, GotoType DEF DiscardBranch, Labels
<1>29. ASSUME NEW p \in Procs, DiscardFinal(p)
      PROVE  FrameTypeOK'
  BY <1>29, NextRunType DEF DiscardFinal
<1>30. ASSUME NEW p \in Procs, Abort(p)
      PROVE  FrameTypeOK'
  BY <1>30, ReturnType DEF Abort
<1>31. ASSUME NEW p \in Procs, NEW r \in Runs, OpenCall(p, r)
      PROVE  FrameTypeOK'
  <2>1. "open_branch" \in Labels
    BY DEF Labels
  <2> QED
    BY <1>31, <2>1, EnterType, NewFrame DEF OpenCall
<1>32. ASSUME NEW p \in Procs, NEW r \in Runs, DiffCall(p, r)
      PROVE  FrameTypeOK'
  <2>1. [rec[r] EXCEPT !.status = "reviewed", !.reviewed = dir[r]] \in Record
    BY Values DEF DiskTypeOK
  <2>2. "diff_save" \in Labels
    BY DEF Labels
  <2> QED
    <3> DEFINE cp == [rec[r] EXCEPT !.status = "reviewed", !.reviewed = dir[r]]
               f == [IdleFrame EXCEPT !.pc = "diff_save", !.run = r, !.copy = cp]
    <3>1. f \in Frame /\ f.run = r
      <4> HIDE DEF cp
      <4> QED
        BY <2>1, <2>2, NewFrameCopy DEF cp
    <3>2. Enter(p, f)
      BY <1>32 DEF DiffCall
    <3> HIDE DEF f
    <3> QED
      BY <3>1, <3>2, EnterType
<1>33. ASSUME NEW p \in Procs, NEW r \in Runs, ApplyCall(p, r)
      PROVE  FrameTypeOK'
  <2>1. "verify" \in Labels /\ rec[r] \in Record
    BY DEF Labels, DiskTypeOK
  <2> QED
    <3> DEFINE f == [IdleFrame EXCEPT !.pc = "verify", !.run = r, !.copy = rec[r]]
    <3>1. f \in Frame /\ f.run = r
      BY <2>1, NewFrameCopy
    <3>2. Enter(p, f)
      BY <1>33 DEF ApplyCall
    <3> HIDE DEF f
    <3> QED
      BY <3>1, <3>2, EnterType
<1>34. ASSUME NEW p \in Procs, NEW r \in Runs, DiscardCall(p, r)
      PROVE  FrameTypeOK'
  <2>1. Orphans \subseteq Runs
    BY DEF Orphans
  <2> QED
    <3>1. PICK rest \in SUBSET Runs : Enter(p, DiscardFrame(r, rest))
      BY <1>34, <2>1 DEF DiscardCall
    <3> QED
      BY <3>1, EnterType, DiscardFrameType
<1>35. ASSUME NEW p \in Procs, GcCall(p)
      PROVE  FrameTypeOK'
  <2>1. Orphans \subseteq Runs
    BY DEF Orphans
  <2> QED
    <3>1. PICK r \in Runs, rest \in SUBSET Runs : Enter(p, DiscardFrame(r, rest))
      BY <1>35, <2>1 DEF GcCall
    <3> QED
      BY <3>1, EnterType, DiscardFrameType
<1>36. ASSUME NEW r \in Runs, AgentEdit(r)
      PROVE  FrameTypeOK'
  BY <1>36 DEF AgentEdit, FrameTypeOK
<1>37. ASSUME NEW r \in Runs, AgentCommit(r)
      PROVE  FrameTypeOK'
  BY <1>37 DEF AgentCommit, FrameTypeOK
<1>38. ASSUME NEW r \in Runs, UserRemove(r)
      PROVE  FrameTypeOK'
  BY <1>38 DEF UserRemove, FrameTypeOK
<1>39. ASSUME NEW r \in Runs, WriteReceipt(r)
      PROVE  FrameTypeOK'
  BY <1>39 DEF WriteReceipt, FrameTypeOK
<1>40. ASSUME NEW p \in Procs, ApplyDeliver(p)
      PROVE  FrameTypeOK'
  BY <1>40, GotoType DEF ApplyDeliver, Labels
<1>41. ASSUME NEW r \in Runs, AgentSwitch(r)
      PROVE  FrameTypeOK'
  BY <1>41 DEF AgentSwitch, FrameTypeOK
<1> QED
  BY <1>1, <1>2, <1>3, <1>4, <1>5, <1>6, <1>7, <1>8, <1>9, <1>10, <1>11, <1>12, <1>13, <1>14, <1>15, <1>16, <1>17, <1>18, <1>19, <1>20, <1>21, <1>22, <1>23, <1>24, <1>25, <1>26, <1>27, <1>28, <1>29, <1>30, <1>31, <1>32, <1>33, <1>34, <1>35, <1>36, <1>37, <1>38, <1>39, <1>40, <1>41
     DEF Next, Call, Step, OpenStep, ApplyStep, DiscardStep, Environment

\* The initial state is typed.
LEMMA InitType == Init => DiskTypeOK /\ FrameTypeOK
<1> SUFFICES ASSUME Init PROVE DiskTypeOK /\ FrameTypeOK
  OBVIOUS
<1>1. DiskTypeOK
  BY Values DEF Init, DiskTypeOK
<1>2. FrameTypeOK
  BY IdleFrameType DEF Init, FrameTypeOK
<1> QED
  BY <1>1, <1>2

\* Every variable keeps its type, whatever calls, failures and crashes happen.
THEOREM TypeCorrect == Spec => []TypeOK
<1>1. DiskTypeOK /\ FrameTypeOK => TypeOK
  BY DEF DiskTypeOK, FrameTypeOK, TypeOK
<1> QED
  BY <1>1, InitType, DiskTypeStep, FrameTypeStep, PTL DEF Spec

----------------------------------------------------------------------------
(* Apply and the lock *)

Approved(t) == [digest |-> t, verdict |-> "approve", used |-> TRUE]

\* What a process knows while it holds the lock: the record it loaded is still
\* the record on disk; from the staged tree on, the tree is the reviewed one
\* and not empty; once past the receipt, the receipt approved that tree; a
\* discard never works on an applied run, nor will the rest of its list.
Consistent(f) ==
  /\ f.pc = "diff_save" => f.copy.status = "reviewed"
  /\ f.pc \in {"verify", "head", "stage", "receipt", "commit"} =>
       /\ rec[f.run].status = "reviewed" /\ f.copy.status = "reviewed"
       /\ f.copy.reviewed = rec[f.run].reviewed /\ f.copy.reviewed # None
  /\ f.pc \in {"receipt", "commit"} => f.tree = f.copy.reviewed
  /\ f.pc = "save_applied" =>
       /\ rec[f.run].status = "reviewed" /\ f.copy.status = "applied"
       /\ f.copy.applied = JacuCommit(f.copy.reviewed) /\ f.copy.reviewed # None
  /\ f.pc \in {"commit", "save_applied"} /\ PolicyPresent =>
       receipt[f.run] = Approved(f.copy.reviewed)
  /\ f.pc \in DiscardPc =>
       /\ f.copy.status = rec[f.run].status /\ f.copy.reviewed = rec[f.run].reviewed
       /\ f.copy.status # "applied"
       /\ f.run \notin f.todo
       /\ \A r \in f.todo : rec[r].status \in {"open", "reviewed"}

FramesConsistent == \A p \in Procs : Consistent(frame[p])

ApplyInv == FramesConsistent /\ AppliedIsReviewed /\ ReceiptGovernsApply

\* Terminal records are final, as an action.
TerminalKept ==
  \A r \in Runs : /\ rec[r].status = "applied" => rec'[r] = rec[r]
                  /\ rec[r].status = "discarded" => rec'[r].status = "discarded"

\* The process that moves is the only one inside a call, so its own frame is
\* the only one to look at.
LEMMA OnlyMine ==
  ASSUME FrameTypeOK, NEW p \in Procs, ~At(p, "idle") \/ lock = NoProc,
         \A q \in Procs \ {p} : frame'[q] = frame[q], Consistent(frame[p])'
  PROVE  FramesConsistent'
<1> SUFFICES ASSUME NEW q \in Procs, q # p PROVE Consistent(frame[q])'
  BY DEF FramesConsistent
<1>1. frame[q].pc = "idle"
  BY ConstantsAssumption DEF FrameTypeOK, At
<1> QED
  BY <1>1 DEF Consistent, DiscardPc

\* A step that leaves records and receipts alone.
LEMMA QuietStep ==
  ASSUME ApplyInv, FrameTypeOK, NEW p \in Procs, ~At(p, "idle") \/ lock = NoProc,
         \A q \in Procs \ {p} : frame'[q] = frame[q], UNCHANGED <<rec, receipt>>,
         Consistent(frame[p])'
  PROVE  ApplyInv' /\ TerminalKept
<1>1. FramesConsistent'
  BY OnlyMine
<1>2. AppliedIsReviewed' /\ ReceiptGovernsApply'
  BY DEF ApplyInv, AppliedIsReviewed, ReceiptGovernsApply
<1> QED
  BY <1>1, <1>2 DEF ApplyInv, TerminalKept

\* A call that returns.
LEMMA ReturnConsistent ==
  ASSUME FrameTypeOK, NEW p \in Procs, ~At(p, "idle"), Return(p)
  PROVE  FramesConsistent' /\ \A q \in Procs \ {p} : frame'[q] = frame[q]
<1>1. frame'[p].pc = "idle" /\ \A q \in Procs \ {p} : frame'[q] = frame[q]
  BY IdleFrameType DEF Return, FrameTypeOK
<1>2. Consistent(frame[p])'
  BY <1>1 DEF Consistent, DiscardPc
<1> QED
  BY <1>1, <1>2, OnlyMine

\* A call that returns and has written no record and no receipt.
LEMMA ReturnQuiet ==
  ASSUME ApplyInv, FrameTypeOK, NEW p \in Procs, ~At(p, "idle"), Return(p),
         UNCHANGED <<rec, receipt>>
  PROVE  ApplyInv' /\ TerminalKept
<1>1. Consistent(frame[p])' /\ \A q \in Procs \ {p} : frame'[q] = frame[q]
  BY ReturnConsistent DEF FramesConsistent
<1> QED
  BY <1>1, QuietStep

\* A call that goes on at a label about which Consistent claims nothing.
LEMMA GotoFree ==
  ASSUME ApplyInv, FrameTypeOK, NEW p \in Procs, ~At(p, "idle"), UNCHANGED <<rec, receipt>>,
         NEW l \in {"open_worktree", "open_lock", "open_save", "open_cleanup", "rollback",
                    "integrate", "deliver", "apply_unlock", "apply_remove"},
         Goto(p, l)
  PROVE  ApplyInv' /\ TerminalKept
<1>1. frame'[p].pc = l /\ \A q \in Procs \ {p} : frame'[q] = frame[q]
  BY DEF Goto, FrameTypeOK, Frame
<1>2. Consistent(frame[p])'
  BY <1>1 DEF Consistent, DiscardPc
<1> QED
  BY <1>1, <1>2, QuietStep

\* The first frame of a discard: its run is not applied and not in the rest.
LEMMA DiscardFrameConsistent ==
  ASSUME DiskTypeOK, NEW r \in Runs, rec[r].status # "applied", NEW rest \in SUBSET Runs,
         r \notin rest, \A q \in rest : rec[q].status \in {"open", "reviewed"}
  PROVE  Consistent(DiscardFrame(r, rest)) /\ DiscardFrame(r, rest).pc # "idle"
<1>1. /\ DiscardFrame(r, rest).pc \in {"archive", "absent", "refused"}
      /\ DiscardFrame(r, rest).run = r
      /\ DiscardFrame(r, rest).copy = rec[r]
      /\ DiscardFrame(r, rest).todo = rest
  BY DEF DiscardFrame, IdleFrame
<1> QED
  BY <1>1 DEF Consistent, DiscardPc

\* The next run of a list: the records of the list are not written meanwhile.
LEMMA NextRunConsistent ==
  ASSUME DiskTypeOK, FrameTypeOK, NEW p \in Procs, ~At(p, "idle"), NextRun(p),
         \A r \in frame[p].todo : rec[r].status \in {"open", "reviewed"} /\ rec'[r] = rec[r]
  PROVE  FramesConsistent' /\ \A q \in Procs \ {p} : frame'[q] = frame[q]
<1>1. CASE Return(p)
  BY <1>1, ReturnConsistent
<1>2. CASE \E r \in frame[p].todo :
             frame' = [frame EXCEPT ![p] = DiscardFrame(r, frame[p].todo \ {r})]
  <2>1. PICK r \in frame[p].todo :
          frame' = [frame EXCEPT ![p] = DiscardFrame(r, frame[p].todo \ {r})]
    BY <1>2
  <2> DEFINE f == DiscardFrame(r, frame[p].todo \ {r})
  <2>2. frame'[p] = f /\ \A q \in Procs \ {p} : frame'[q] = frame[q]
    BY <2>1 DEF FrameTypeOK
  <2>3. /\ f.pc \in {"archive", "absent", "refused"} /\ f.run = r
        /\ f.copy = rec[r] /\ f.todo = frame[p].todo \ {r}
    BY DEF DiscardFrame, IdleFrame
  <2>4. Consistent(frame[p])'
    <3> HIDE DEF f
    <3> QED
      BY <2>2, <2>3 DEF Consistent, DiscardPc
  <2> QED
    BY <2>2, <2>4, OnlyMine
<1> QED
  BY <1>1, <1>2 DEF NextRun

\* The next run of a list, when the step wrote no record and no receipt.
LEMMA NextRunQuiet ==
  ASSUME ApplyInv, DiskTypeOK, FrameTypeOK, NEW p \in Procs, frame[p].pc \in DiscardPc,
         NextRun(p), UNCHANGED <<rec, receipt>>,
         \A r \in frame[p].todo : rec[r].status \in {"open", "reviewed"}
  PROVE  ApplyInv' /\ TerminalKept
<1>1. ~At(p, "idle")
  BY DEF At, DiscardPc
<1>2. Consistent(frame[p])' /\ \A q \in Procs \ {p} : frame'[q] = frame[q]
  BY <1>1, NextRunConsistent DEF FramesConsistent
<1> QED
  BY <1>1, <1>2, QuietStep

\* Steps that change neither a record nor a receipt.
LEMMA QuietSteps ==
  ASSUME ApplyInv, DiskTypeOK, FrameTypeOK, NEW p \in Procs,
         \/ OpenBranch(p) \/ OpenWorktree(p) \/ OpenLock(p) \/ OpenFail(p) \/ OpenCleanup(p)
         \/ ApplyVerify(p) \/ ApplyHead(p) \/ ApplyStage(p) \/ ApplyCommit(p)
         \/ ApplyCommitCut(p) \/ ApplySaveFail(p) \/ ApplyRollback(p) \/ ApplyIntegrate(p)
         \/ ApplyDeliver(p) \/ ApplyUnlock(p) \/ ApplyRemove(p)
         \/ DiscardFail(p) \/ DiscardArchive(p) \/ DiscardUnlock(p) \/ DiscardRemove(p)
         \/ DiscardTear(p) \/ DiscardAbsent(p) \/ DiscardBranch(p) \/ Abort(p)
  PROVE  ApplyInv' /\ TerminalKept
<1> USE DEF At
<1>0. Consistent(frame[p]) /\ frame[p] \in Frame /\ frame \in [Procs -> Frame]
  BY DEF ApplyInv, FramesConsistent, FrameTypeOK
<1>1. CASE OpenBranch(p) \/ OpenWorktree(p) \/ OpenLock(p) \/ OpenFail(p) \/ ApplySaveFail(p) \/ ApplyUnlock(p)
           \/ ApplyDeliver(p)
  <2>1. PICK l \in {"open_worktree", "open_lock", "open_save", "open_cleanup", "rollback",
                     "apply_unlock", "apply_remove"} : Goto(p, l)
    BY <1>1 DEF OpenBranch, OpenWorktree, OpenLock, OpenFail, ApplySaveFail, ApplyUnlock,
                ApplyDeliver
  <2>2. ~At(p, "idle") /\ UNCHANGED <<rec, receipt>>
    BY <1>1 DEF OpenBranch, OpenWorktree, OpenLock, OpenFail, ApplySaveFail, ApplyUnlock,
                ApplyDeliver, disk
  <2> QED
    BY <2>1, <2>2, GotoFree
<1>2. CASE OpenCleanup(p) \/ ApplyCommitCut(p) \/ ApplyRollback(p) \/ ApplyRemove(p) \/ Abort(p)
  <2>1. Return(p) /\ ~At(p, "idle") /\ UNCHANGED <<rec, receipt>>
    BY <1>2 DEF OpenCleanup, ApplyCommitCut, ApplyRollback, ApplyRemove, Abort, disk
  <2> QED
    BY <2>1, ReturnQuiet
<1>3. CASE ApplyIntegrate(p)
  <2>1. ~At(p, "idle") /\ UNCHANGED <<rec, receipt>>
    BY <1>3 DEF ApplyIntegrate, disk
  <2>2. Goto(p, "deliver") \/ Goto(p, "apply_unlock") \/ Return(p)
    BY <1>3 DEF ApplyIntegrate
  <2> QED
    BY <2>1, <2>2, GotoFree, ReturnQuiet
<1>4. CASE DiscardUnlock(p) \/ DiscardRemove(p) \/ DiscardAbsent(p) \/ DiscardBranch(p)
  <2>1. PICK l \in DiscardPc : Goto(p, l)
    BY <1>4 DEF DiscardUnlock, DiscardRemove, DiscardAbsent, DiscardBranch, DiscardPc
  <2>2. frame[p].pc \in DiscardPc /\ UNCHANGED <<rec, receipt>>
    BY <1>4 DEF DiscardUnlock, DiscardRemove, DiscardAbsent, DiscardBranch, DiscardPc
  <2>3. Consistent(frame[p])'
    BY <1>0, <2>1, <2>2 DEF Goto, Consistent, DiscardPc, Frame
  <2> QED
    BY <2>1, <2>2, <2>3, QuietStep DEF Goto, DiscardPc
<1>5. CASE ApplyVerify(p)
  <2>1. Consistent(frame[p])'
    BY <1>5, <1>0 DEF ApplyVerify, disk, Consistent, DiscardPc, Frame
  <2>2. ~At(p, "idle") /\ UNCHANGED <<rec, receipt>>
    BY <1>5 DEF ApplyVerify, disk
  <2>3. \A q \in Procs \ {p} : frame'[q] = frame[q]
    BY <1>5, <1>0 DEF ApplyVerify
  <2> QED
    BY <2>1, <2>2, <2>3, QuietStep
<1>6. CASE ApplyHead(p)
  <2>1. Consistent(frame[p])'
    BY <1>6, <1>0 DEF ApplyHead, Goto, disk, Consistent, DiscardPc, Frame
  <2> QED
    BY <1>6, <2>1, QuietStep DEF ApplyHead, Goto, disk
<1>7. CASE ApplyStage(p)
  <2>1. Consistent(frame[p])'
    BY <1>7, <1>0 DEF ApplyStage, disk, Consistent, DiscardPc, Frame, Run, Copy
  <2>2. ~At(p, "idle") /\ UNCHANGED <<rec, receipt>>
    BY <1>7 DEF ApplyStage, disk
  <2>3. \A q \in Procs \ {p} : frame'[q] = frame[q]
    BY <1>7, <1>0 DEF ApplyStage
  <2> QED
    BY <2>1, <2>2, <2>3, QuietStep
<1>8. CASE ApplyCommit(p)
  <2>1. Consistent(frame[p])'
    BY <1>8, <1>0 DEF ApplyCommit, Consistent, DiscardPc, Frame, Run, Copy, Record
  <2>2. ~At(p, "idle") /\ UNCHANGED <<rec, receipt>>
    BY <1>8 DEF ApplyCommit
  <2>3. \A q \in Procs \ {p} : frame'[q] = frame[q]
    BY <1>8, <1>0 DEF ApplyCommit
  <2> QED
    BY <2>1, <2>2, <2>3, QuietStep
<1>9. CASE DiscardArchive(p)
  <2>1. Consistent(frame[p])'
    BY <1>9, <1>0 DEF DiscardArchive, Consistent, DiscardPc, Frame, Run, Copy, Record
  <2>2. ~At(p, "idle") /\ UNCHANGED <<rec, receipt>>
    BY <1>9 DEF DiscardArchive
  <2>3. \A q \in Procs \ {p} : frame'[q] = frame[q]
    BY <1>9, <1>0 DEF DiscardArchive
  <2> QED
    BY <2>1, <2>2, <2>3, QuietStep
<1>10. CASE DiscardFail(p) \/ DiscardTear(p)
  <2>1. frame[p].pc \in DiscardPc /\ NextRun(p) /\ UNCHANGED <<rec, receipt>>
    BY <1>10 DEF DiscardFail, DiscardTear, disk, DiscardPc
  <2>2. \A r \in frame[p].todo : rec[r].status \in {"open", "reviewed"}
    BY <1>0, <2>1 DEF Consistent
  <2> QED
    BY <2>1, <2>2, NextRunQuiet
<1> QED
  BY <1>1, <1>2, <1>3, <1>4, <1>5, <1>6, <1>7, <1>8, <1>9, <1>10

\* A save that neither starts nor ends at applied, and stays at discarded.
LEMMA SaveKeeps ==
  ASSUME ApplyInv, DiskTypeOK, NEW r \in Runs, NEW new, rec' = [rec EXCEPT ![r] = new],
         UNCHANGED receipt, new.status # "applied", rec[r].status # "applied",
         rec[r].status = "discarded" => new.status = "discarded"
  PROVE  AppliedIsReviewed' /\ ReceiptGovernsApply' /\ TerminalKept
<1>1. rec'[r] = new /\ \A q \in Runs \ {r} : rec'[q] = rec[q]
  BY DEF DiskTypeOK
<1>2. TerminalKept
  BY <1>1 DEF TerminalKept
<1>3. AppliedIsReviewed'
  BY <1>1 DEF ApplyInv, AppliedIsReviewed
<1>4. ReceiptGovernsApply'
  BY <1>1 DEF ApplyInv, ReceiptGovernsApply
<1> QED
  BY <1>2, <1>3, <1>4

\* Steps that save the record.
LEMMA SaveSteps ==
  ASSUME ApplyInv, DiskTypeOK, FrameTypeOK, NEW p \in Procs,
         OpenSave(p) \/ DiffSave(p) \/ ApplySave(p) \/ DiscardRecord(p) \/ DiscardFinal(p)
  PROVE  ApplyInv' /\ TerminalKept
<1> USE DEF At
<1>0. /\ Consistent(frame[p]) /\ frame[p] \in Frame /\ frame \in [Procs -> Frame]
      /\ rec \in [Runs -> Record]
  BY DEF ApplyInv, FramesConsistent, FrameTypeOK, DiskTypeOK
<1>1. Run(p) \in Runs /\ frame[p].pc # "idle"
  BY DEF FrameTypeOK, Run, OpenSave, DiffSave, ApplySave, DiscardRecord, DiscardFinal
<1>2. CASE OpenSave(p)
  <2>1. /\ rec' = [rec EXCEPT ![Run(p)] = [NoRecord EXCEPT !.status = "open"]]
        /\ rec[Run(p)].status # "none" => Transition(rec[Run(p)].status, "open")
        /\ Return(p) /\ UNCHANGED receipt
    BY <1>2 DEF OpenSave, SaveLocked, NoRecord
  <2>2. [NoRecord EXCEPT !.status = "open"].status = "open"
    BY DEF NoRecord
  <2>3. rec[Run(p)].status \notin {"applied", "discarded"}
    BY <2>1 DEF Transition
  <2>4. AppliedIsReviewed' /\ ReceiptGovernsApply' /\ TerminalKept
    <3> DEFINE new == [NoRecord EXCEPT !.status = "open"]
    <3> HIDE DEF new
    <3> QED
      BY <1>1, <2>1, <2>2, <2>3, SaveKeeps DEF new
  <2>5. FramesConsistent'
    BY <1>1, <2>1, ReturnConsistent
  <2> QED
    BY <2>4, <2>5 DEF ApplyInv
<1>3. CASE DiffSave(p)
  <2>1. /\ rec' = [rec EXCEPT ![Run(p)] = Copy(p)] /\ Copy(p).status = "reviewed"
        /\ rec[Run(p)].status # "none" => Transition(rec[Run(p)].status, "reviewed")
        /\ Return(p) /\ UNCHANGED receipt
    BY <1>0, <1>3 DEF DiffSave, SaveLocked, Copy, Consistent
  <2>2. rec[Run(p)].status \notin {"applied", "discarded"}
    BY <2>1 DEF Transition
  <2>3. AppliedIsReviewed' /\ ReceiptGovernsApply' /\ TerminalKept
    BY <1>1, <2>1, <2>2, SaveKeeps
  <2>4. FramesConsistent'
    BY <1>1, <2>1, ReturnConsistent
  <2> QED
    BY <2>3, <2>4 DEF ApplyInv
<1>4. CASE ApplySave(p)
  <2>1. /\ rec' = [rec EXCEPT ![Run(p)] = Copy(p)] /\ UNCHANGED receipt
        /\ rec[Run(p)].status = "reviewed" /\ Copy(p).status = "applied"
        /\ Copy(p).applied = JacuCommit(Copy(p).reviewed) /\ Copy(p).reviewed # None
        /\ PolicyPresent => receipt[Run(p)] = Approved(Copy(p).reviewed)
    BY <1>0, <1>4 DEF ApplySave, SaveLocked, Copy, Run, Consistent
  <2>2. rec'[Run(p)] = Copy(p) /\ \A q \in Runs \ {Run(p)} : rec'[q] = rec[q]
    BY <1>0, <1>1, <2>1
  <2>3. TerminalKept
    BY <2>1, <2>2 DEF TerminalKept
  <2>4. AppliedIsReviewed'
    BY <2>1, <2>2 DEF ApplyInv, AppliedIsReviewed
  <2>5. ReceiptGovernsApply'
    <3>1. Copy(p).applied.tree = Copy(p).reviewed
      BY <2>1 DEF JacuCommit
    <3>2. PolicyPresent => receipt'[Run(p)] = Approved(rec'[Run(p)].applied.tree)
      BY <2>1, <2>2, <3>1
    <3>3. \A q \in Runs \ {Run(p)} : receipt'[q] = receipt[q] /\ rec'[q] = rec[q]
      BY <2>1, <2>2
    <3> QED
      BY <3>2, <3>3 DEF ApplyInv, ReceiptGovernsApply, Approved
  <2>6. /\ frame'[p].pc \in {"integrate", "apply_unlock"}
        /\ \A q \in Procs \ {p} : frame'[q] = frame[q]
    BY <1>0, <1>4 DEF ApplySave, Goto, Frame
  <2>7. Consistent(frame[p])'
    BY <2>6 DEF Consistent, DiscardPc
  <2>8. FramesConsistent'
    BY <1>1, <2>6, <2>7, OnlyMine
  <2> QED
    BY <2>3, <2>4, <2>5, <2>8 DEF ApplyInv
<1>5. CASE DiscardRecord(p)
  <2>1. /\ rec' = [rec EXCEPT ![Run(p)] = Copy(p)] /\ UNCHANGED receipt
        /\ Copy(p).status = rec[Run(p)].status /\ Copy(p).status # "applied"
        /\ Run(p) \notin frame[p].todo
        /\ \A r \in frame[p].todo : rec[r].status \in {"open", "reviewed"}
    BY <1>0, <1>5 DEF DiscardRecord, SaveLocked, Copy, Run, Consistent, DiscardPc
  <2>2. AppliedIsReviewed' /\ ReceiptGovernsApply' /\ TerminalKept
    BY <1>1, <2>1, SaveKeeps
  <2>3. PICK l \in {"unlock", "remove"} : frame' = [frame EXCEPT ![p].pc = l]
    BY <1>5 DEF DiscardRecord, Goto
  <2>4. /\ frame'[p].pc \in {"unlock", "remove"} /\ frame'[p].copy = frame[p].copy
        /\ frame'[p].run = frame[p].run /\ frame'[p].todo = frame[p].todo
        /\ \A q \in Procs \ {p} : frame'[q] = frame[q]
    BY <1>0, <2>3 DEF Frame
  <2>5. rec'[Run(p)] = Copy(p) /\ \A q \in Runs \ {Run(p)} : rec'[q] = rec[q]
    BY <1>0, <1>1, <2>1
  <2>6. frame[p].todo \in SUBSET Runs
    BY <1>0, FrameParts
  <2>7. Consistent(frame[p])'
    BY <2>1, <2>4, <2>5, <2>6 DEF Consistent, DiscardPc, Run, Copy
  <2>8. FramesConsistent'
    BY <1>1, <2>4, <2>7, OnlyMine
  <2> QED
    BY <2>2, <2>8 DEF ApplyInv
<1>6. CASE DiscardFinal(p)
  <2> DEFINE new == [Copy(p) EXCEPT !.status = "discarded"]
  <2>1. Copy(p) \in Record
    BY <1>0, FrameParts DEF Copy
  <2>2. new.status = "discarded"
    BY <2>1 DEF Record
  <2>3. /\ rec' = [rec EXCEPT ![Run(p)] = new] /\ UNCHANGED receipt /\ NextRun(p)
        /\ rec[Run(p)].status # "applied"
        /\ Run(p) \notin frame[p].todo
        /\ \A r \in frame[p].todo : rec[r].status \in {"open", "reviewed"}
    BY <1>0, <1>6 DEF DiscardFinal, SaveLocked, Copy, Run, Consistent, DiscardPc
  <2> HIDE DEF new
  <2>4. AppliedIsReviewed' /\ ReceiptGovernsApply' /\ TerminalKept
    BY <1>1, <2>2, <2>3, SaveKeeps
  <2>5. \A r \in frame[p].todo : r \in Runs /\ rec'[r] = rec[r]
    BY <1>0, <2>3, FrameParts
  <2>6. FramesConsistent'
    BY <1>1, <2>3, <2>5, NextRunConsistent
  <2> QED
    BY <2>4, <2>6 DEF ApplyInv
<1> QED
  BY <1>2, <1>3, <1>4, <1>5, <1>6

\* Steps that write a receipt or its .used marker: neither changes the receipt
\* of an applied run, which exists and is used.
LEMMA ReceiptSteps ==
  ASSUME ApplyInv, DiskTypeOK, FrameTypeOK,
         \/ \E p \in Procs : ApplyReceipt(p)
         \/ \E r \in Runs : WriteReceipt(r)
  PROVE  ApplyInv' /\ TerminalKept
<1> USE DEF At
<1>1. ASSUME NEW p \in Procs, ApplyReceipt(p)
      PROVE  ApplyInv' /\ TerminalKept
  <2>0. /\ Consistent(frame[p]) /\ frame[p] \in Frame /\ frame \in [Procs -> Frame]
        /\ receipt \in [Runs -> Receipt] /\ frame[p].pc = "receipt"
    BY <1>1 DEF ApplyInv, FramesConsistent, FrameTypeOK, DiskTypeOK, ApplyReceipt, ConsumeReviewReceipt
  <2>1. Run(p) \in Runs /\ ~At(p, "idle")
    BY <2>0 DEF FrameTypeOK, Run
  <2>2. /\ rec[Run(p)].status = "reviewed"
        /\ Copy(p).status = "reviewed" /\ Copy(p).reviewed = rec[Run(p)].reviewed
        /\ Copy(p).reviewed # None /\ frame[p].tree = Copy(p).reviewed
    BY <2>0 DEF Consistent, Run, Copy
  <2>3. /\ rec' = rec /\ receipt[Run(p)].digest = Copy(p).reviewed
        /\ \A q \in Runs \ {Run(p)} : receipt'[q] = receipt[q]
    BY <1>1, <2>0 DEF ApplyReceipt, ConsumeReviewReceipt, ValidReceipt
  <2>4. AppliedIsReviewed' /\ TerminalKept
    BY <2>3 DEF ApplyInv, AppliedIsReviewed, TerminalKept
  <2>5. ReceiptGovernsApply'
    BY <2>2, <2>3 DEF ApplyInv, ReceiptGovernsApply
  <2>6. CASE Return(p)
    BY <2>1, <2>4, <2>5, <2>6, ReturnConsistent DEF ApplyInv
  <2>7. CASE receipt[Run(p)].verdict = "approve" /\ Goto(p, "commit")
    <3>1. receipt'[Run(p)] = Approved(Copy(p).reviewed)
      BY <1>1, <2>0, <2>1, <2>3, <2>7 DEF ApplyReceipt, ConsumeReviewReceipt, Receipt, Approved
    <3>2. /\ frame'[p].pc = "commit" /\ frame'[p].run = Run(p)
          /\ frame'[p].copy = Copy(p) /\ frame'[p].tree = frame[p].tree
          /\ \A q \in Procs \ {p} : frame'[q] = frame[q]
      BY <2>0, <2>7 DEF Goto, Frame, Run, Copy
    <3>3. Consistent(frame[p])'
      BY <2>2, <2>3, <3>1, <3>2 DEF Consistent, DiscardPc
    <3>4. FramesConsistent'
      BY <2>1, <3>2, <3>3, OnlyMine
    <3> QED
      BY <2>4, <2>5, <3>4 DEF ApplyInv
  <2> QED
    BY <1>1, <2>6, <2>7 DEF ApplyReceipt, ConsumeReviewReceipt
<1>2. ASSUME NEW r \in Runs, WriteReceipt(r)
      PROVE  ApplyInv' /\ TerminalKept
  <2>1. /\ rec' = rec /\ frame' = frame /\ PolicyPresent
        /\ receipt[r] = NoReceipt
        /\ \A q \in Runs \ {r} : receipt'[q] = receipt[q]
    BY <1>2 DEF WriteReceipt, DiskTypeOK
  <2>2. AppliedIsReviewed' /\ TerminalKept
    BY <2>1 DEF ApplyInv, AppliedIsReviewed, TerminalKept
  <2>3. ReceiptGovernsApply'
    <3>1. receipt[r].used = FALSE
      BY <2>1 DEF NoReceipt
    <3>2. ASSUME rec[r].status = "applied" PROVE FALSE
      <4>1. receipt[r] = Approved(rec[r].applied.tree)
        BY <2>1, <3>2 DEF ApplyInv, ReceiptGovernsApply, Approved
      <4> QED
        BY <3>1, <4>1 DEF Approved
    <3> QED
      BY <2>1, <3>2 DEF ApplyInv, ReceiptGovernsApply
  <2>4. ASSUME NEW p \in Procs PROVE Consistent(frame[p])'
    <3>1. Consistent(frame[p]) /\ (frame[p].pc # "idle" => frame[p].run \in Runs)
      BY DEF ApplyInv, FramesConsistent, FrameTypeOK
    <3>2. CASE frame[p].run = r /\ frame[p].pc \in {"commit", "save_applied"}
      <4>1. receipt[r] = Approved(frame[p].copy.reviewed)
        BY <2>1, <3>1, <3>2 DEF Consistent
      <4>2. FALSE
        BY <2>1, <4>1 DEF Approved, NoReceipt
      <4> QED
        BY <4>2
    <3>3. CASE ~(frame[p].run = r /\ frame[p].pc \in {"commit", "save_applied"})
      <4>1. frame[p].pc \in {"commit", "save_applied"} =>
              receipt'[frame[p].run] = receipt[frame[p].run]
        BY <2>1, <3>1, <3>3
      <4> QED
        BY <2>1, <3>1, <4>1 DEF Consistent, DiscardPc
    <3> QED
      BY <3>2, <3>3
  <2> QED
    BY <2>2, <2>3, <2>4 DEF ApplyInv, FramesConsistent
<1> QED
  BY <1>1, <1>2

\* A call that starts with a consistent frame.
LEMMA EnterQuiet ==
  ASSUME ApplyInv, FrameTypeOK, NEW p \in Procs, NEW f, Enter(p, f),
         UNCHANGED <<rec, receipt>>, Consistent(f)
  PROVE  ApplyInv' /\ TerminalKept
<1>1. frame'[p] = f /\ \A q \in Procs \ {p} : frame'[q] = frame[q]
  BY DEF Enter, FrameTypeOK
<1>2. Consistent(frame[p])'
  BY <1>1 DEF Consistent
<1>3. lock = NoProc
  BY DEF Enter
<1> QED
  BY <1>1, <1>2, <1>3, QuietStep

\* The calls: each loads the record it works on.
LEMMA CallSteps ==
  ASSUME ApplyInv, DiskTypeOK, FrameTypeOK, NEW p \in Procs, Call(p)
  PROVE  ApplyInv' /\ TerminalKept
<1>1. ASSUME NEW r \in Runs, OpenCall(p, r) PROVE ApplyInv' /\ TerminalKept
  <2> DEFINE f == [IdleFrame EXCEPT !.pc = "open_branch", !.run = r]
  <2>1. f.pc = "open_branch"
    BY DEF IdleFrame
  <2>2. Enter(p, f) /\ UNCHANGED <<rec, receipt>>
    BY <1>1 DEF OpenCall, disk
  <2> HIDE DEF f
  <2>3. Consistent(f)
    BY <2>1 DEF Consistent, DiscardPc
  <2> QED
    BY <2>2, <2>3, EnterQuiet
<1>2. ASSUME NEW r \in Runs, DiffCall(p, r) PROVE ApplyInv' /\ TerminalKept
  <2> DEFINE c == [rec[r] EXCEPT !.status = "reviewed", !.reviewed = dir[r]]
             f == [IdleFrame EXCEPT !.pc = "diff_save", !.run = r, !.copy = c]
  <2>1. rec[r] \in Record
    BY DEF DiskTypeOK
  <2>2. c.status = "reviewed"
    BY <2>1 DEF Record
  <2>3. Enter(p, f) /\ UNCHANGED <<rec, receipt>>
    BY <1>2 DEF DiffCall, disk
  <2> HIDE DEF c
  <2>4. f.pc = "diff_save" /\ f.copy = c
    BY DEF IdleFrame
  <2> HIDE DEF f
  <2>5. Consistent(f)
    BY <2>2, <2>4 DEF Consistent, DiscardPc
  <2> QED
    BY <2>3, <2>5, EnterQuiet
<1>3. ASSUME NEW r \in Runs, ApplyCall(p, r) PROVE ApplyInv' /\ TerminalKept
  <2> DEFINE f == [IdleFrame EXCEPT !.pc = "verify", !.run = r, !.copy = rec[r]]
  <2>1. f.pc = "verify" /\ f.run = r /\ f.copy = rec[r]
    BY DEF IdleFrame
  <2>2. /\ Enter(p, f) /\ UNCHANGED <<rec, receipt>>
        /\ rec[r].status = "reviewed" /\ rec[r].reviewed # None
    BY <1>3 DEF ApplyCall, disk
  <2> HIDE DEF f
  <2>3. Consistent(f)
    BY <2>1, <2>2 DEF Consistent, DiscardPc
  <2> QED
    BY <2>2, <2>3, EnterQuiet
<1>4. ASSUME NEW r \in Runs, NEW rest \in {{}, Orphans \ {r}}, rec[r].status # "applied",
             Enter(p, DiscardFrame(r, rest)), UNCHANGED <<rec, receipt>>
      PROVE  ApplyInv' /\ TerminalKept
  <2>1. /\ rest \in SUBSET Runs /\ r \notin rest
        /\ \A q \in rest : rec[q].status \in {"open", "reviewed"}
    BY <1>4 DEF Orphans
  <2>2. Consistent(DiscardFrame(r, rest))
    BY <1>4, <2>1, DiscardFrameConsistent
  <2> DEFINE f == DiscardFrame(r, rest)
  <2> HIDE DEF f
  <2>3. Enter(p, f) /\ Consistent(f)
    BY <1>4, <2>2 DEF f
  <2> QED
    BY <1>4, <2>3, EnterQuiet
<1>5. ASSUME NEW r \in Runs, DiscardCall(p, r) PROVE ApplyInv' /\ TerminalKept
  <2>1. PICK rest \in {{}, Orphans \ {r}} : Enter(p, DiscardFrame(r, rest))
    BY <1>5 DEF DiscardCall
  <2>2. rec[r].status # "applied" /\ UNCHANGED <<rec, receipt>>
    BY <1>5 DEF DiscardCall, Discardable, Transition, disk
  <2> QED
    BY <1>4, <2>1, <2>2
<1>6. CASE GcCall(p)
  <2>1. PICK r \in Orphans : Enter(p, DiscardFrame(r, Orphans \ {r}))
    BY <1>6 DEF GcCall
  <2>2. UNCHANGED <<rec, receipt>>
    BY <1>6 DEF GcCall, disk
  <2>3. r \in Runs /\ rec[r].status # "applied"
    BY DEF Orphans
  <2>4. Orphans \ {r} \in {{}, Orphans \ {r}}
    OBVIOUS
  <2> QED
    BY <1>4, <2>1, <2>2, <2>3, <2>4
<1> QED
  BY <1>1, <1>2, <1>3, <1>5, <1>6 DEF Call

\* Every step keeps the invariant and every terminal record.
LEMMA ApplyInvStep ==
  ApplyInv /\ DiskTypeOK /\ FrameTypeOK /\ [Next]_vars => ApplyInv' /\ TerminalKept
<1> SUFFICES ASSUME ApplyInv, DiskTypeOK, FrameTypeOK, [Next]_vars
             PROVE  ApplyInv' /\ TerminalKept
  OBVIOUS
<1>1. CASE UNCHANGED <<rec, receipt, frame>>
  BY <1>1 DEF ApplyInv, FramesConsistent, Consistent, AppliedIsReviewed, ReceiptGovernsApply,
              TerminalKept
<1>2. ASSUME NEW p \in Procs, Step(p) PROVE ApplyInv' /\ TerminalKept
  <2>1. CASE OpenStep(p)
    BY <2>1, QuietSteps, SaveSteps DEF OpenStep
  <2>2. CASE ApplyStep(p)
    BY <2>2, QuietSteps, SaveSteps, ReceiptSteps DEF ApplyStep
  <2>3. CASE DiscardStep(p)
    BY <2>3, QuietSteps, SaveSteps DEF DiscardStep
  <2> QED
    BY <1>2, <2>1, <2>2, <2>3, QuietSteps, SaveSteps DEF Step
<1>3. ASSUME NEW r \in Runs, Environment(r) PROVE ApplyInv' /\ TerminalKept
  <2>1. CASE AgentEdit(r) \/ AgentCommit(r) \/ AgentSwitch(r) \/ UserRemove(r)
    BY <1>1, <2>1 DEF AgentEdit, AgentCommit, AgentSwitch, UserRemove
  <2> QED
    BY <1>3, <2>1, ReceiptSteps DEF Environment
<1> QED
  BY <1>1, <1>2, <1>3, CallSteps DEF Next, vars, disk

\* The inductive invariant of the workspace.
LEMMA WorkspaceInvariant == Spec => [](ApplyInv /\ DiskTypeOK /\ FrameTypeOK)
<1>1. Init => ApplyInv
  BY IdleFrameType DEF Init, ApplyInv, FramesConsistent, Consistent, DiscardPc,
     AppliedIsReviewed, ReceiptGovernsApply, NoRecord
<1>2. Init => DiskTypeOK /\ FrameTypeOK
  BY InitType
<1> QED
  BY <1>1, <1>2, DiskTypeStep, FrameTypeStep, ApplyInvStep, PTL DEF Spec

\* What Apply records as applied is a commit by jacu of exactly the reviewed
\* tree (apply.go), for any number of processes, runs and trees, whatever the
\* agent does while Apply runs and wherever a process dies.
THEOREM AppliedReviewed == Spec => []AppliedIsReviewed
<1>1. ApplyInv => AppliedIsReviewed
  BY DEF ApplyInv
<1> QED
  BY <1>1, WorkspaceInvariant, PTL

\* Under an autonomy policy an applied run has a consumed receipt that approves
\* the tree that was committed (apply.go, receipt.go).
THEOREM ReceiptGoverns == Spec => []ReceiptGovernsApply
<1>1. ApplyInv => ReceiptGovernsApply
  BY DEF ApplyInv
<1> QED
  BY <1>1, WorkspaceInvariant, PTL

\* The record a handler loaded is the record on disk until it saves its own
\* (runstate.WithLock).
THEOREM CopyFresh == Spec => []CopyIsFresh
<1>1. ApplyInv => CopyIsFresh
  BY DEF ApplyInv, FramesConsistent, Consistent, CopyIsFresh, Copy, Run
<1> QED
  BY <1>1, WorkspaceInvariant, PTL

\* applied and discarded are final (runstate.Run.Transition, SaveLocked).
THEOREM TerminalFinal == Spec => TerminalIsFinal
<1>1. ApplyInv /\ DiskTypeOK /\ FrameTypeOK /\ [Next]_vars => [TerminalKept]_rec
  BY ApplyInvStep
<1> QED
  BY <1>1, WorkspaceInvariant, PTL DEF Spec, TerminalIsFinal, TerminalKept

----------------------------------------------------------------------------
(* What is on disk *)

OpenPc == {"open_branch", "open_worktree", "open_lock", "open_save", "open_cleanup"}
AppliedPc == {"integrate", "deliver", "apply_unlock", "apply_remove"}

\* What a process that holds the lock knows of the disk: nobody touches a run
\* that has no record yet; a discard that found or made the directory absent
\* will not see it again; the branch has the commit that is about to be
\* recorded, unless that strayed or the agent has moved the branch on; the copy has the archive of the
\* record; and, unless fate says otherwise, the tree that was pinned or archived
\* is the last one the agent left.
Sound(f) ==
  /\ f.pc \in OpenPc => rec[f.run] = NoRecord
  /\ f.pc = "open_branch" => branch[f.run] = NoCommit
  /\ f.pc \in OpenPc \ {"open_branch"} => branch[f.run] = BaseCommit
  /\ f.pc \in {"open_lock", "open_save"} => dir[f.run] # None
  /\ f.pc \in {"absent", "branch", "final"} => dir[f.run] = None
  /\ f.pc \in {"branch", "final"} => admin[f.run] = "none"
  /\ f.pc = "final" => branch[f.run] = NoCommit
  /\ f.pc = "save_applied" =>
       /\ stray[f.run] \/ branch[f.run] = f.copy.applied \/ branch[f.run].by = "agent"
       /\ f.copy.applied.tree = f.tree
  /\ f.pc = "rollback" => rec[f.run].status = "reviewed" /\ f.copy.applied.by = "jacu"
  /\ f.pc \in AppliedPc => rec[f.run].status = "applied" /\ rec[f.run].applied.tree = f.tree
  /\ f.pc \in {"diff_save", "verify", "head", "stage", "receipt", "commit", "save_applied", "archive",
               "unlock", "remove", "absent", "branch", "final"} => f.copy.archive = rec[f.run].archive
  /\ f.pc \in {"record", "unlock", "remove"} =>
       /\ f.copy.archive # None => archive[f.run] = f.copy.archive
       /\ rec[f.run].status # "discarded"
       /\ fate[f.run] = "none" => work[f.run] \in {None, Base, f.copy.archive}
  /\ f.pc \in {"receipt", "commit", "save_applied"} \cup AppliedPc =>
       (fate[f.run] = "none" => f.tree = work[f.run])

\* What is known of a run whoever works on it: its directory has the last tree
\* of the agent, or is a wreck that fate knows of; and the four invariants.
RunKept(r) ==
  /\ dir[r] \notin {None, Wreck} => work[r] = dir[r]
  /\ dir[r] = Wreck => fate[r] \in {"torn", "late"}
  /\ rec[r].status = "applied" =>
       stray[r] \/ branch[r] = rec[r].applied \/ branch[r].by = "agent"
  /\ rec[r].status = "discarded" => dir[r] = None /\ admin[r] = "none" /\ branch[r] = NoCommit
  /\ dir[r] = None /\ fate[r] = "none" => WorkIsKept(r)
  /\ dir[r] = None /\ fate[r] # "external" /\ rec[r].status # "applied" /\ rec[r].archive # None
     => archive[r] = rec[r].archive

DiskInv == (\A p \in Procs : Sound(frame[p])) /\ (\A r \in Runs : RunKept(r))

\* A commit of the agent leaves a branch only with the branch itself, and only
\* when the worktree is gone.
ForeignKept ==
  \A r \in Runs :
    branch[r].by = "agent" /\ branch'[r].by # "agent" =>
      /\ branch'[r] = NoCommit
      /\ dir[r] = None

\* A step on one run leaves the others alone, but for prune, which forgets the
\* worktrees that are gone.
OthersAlone(r) ==
  \A q \in Runs \ {r} :
    /\ rec'[q] = rec[q] /\ dir'[q] = dir[q] /\ branch'[q] = branch[q]
    /\ archive'[q] = archive[q] /\ work'[q] = work[q] /\ fate'[q] = fate[q]
    /\ stray'[q] = stray[q] /\ admin'[q] \in {admin[q], "none"}

KeepRuns == UNCHANGED <<rec, dir, admin, branch, archive, ghosts>>

\* Runs of which nothing changed are kept.
LEMMA KeepRunsKept ==
  ASSUME \A r \in Runs : RunKept(r), KeepRuns
  PROVE  (\A r \in Runs : RunKept(r)') /\ ForeignKept
BY DEF RunKept, WorkIsKept, KeepRuns, ghosts, ForeignKept

\* A step on one run keeps the others.
LEMMA OthersKept ==
  ASSUME \A q \in Runs : RunKept(q), NEW r \in Runs, OthersAlone(r)
  PROVE  \A q \in Runs \ {r} : RunKept(q)'
BY DEF RunKept, WorkIsKept, OthersAlone

\* Only one process is inside a call.
LEMMA OnlyMineSound ==
  ASSUME FrameTypeOK, NEW p \in Procs, ~At(p, "idle") \/ lock = NoProc,
         \A q \in Procs \ {p} : frame'[q] = frame[q], Sound(frame[p])'
  PROVE  \A q \in Procs : Sound(frame[q])'
<1> SUFFICES ASSUME NEW q \in Procs, q # p PROVE Sound(frame[q])'
  OBVIOUS
<1>1. frame[q].pc = "idle" /\ frame'[q] = frame[q]
  BY ConstantsAssumption DEF FrameTypeOK, At
<1> QED
  BY <1>1 DEF Sound, OpenPc, AppliedPc

\* A step of a process that changes nothing of any run.
LEMMA StillStep ==
  ASSUME DiskInv, FrameTypeOK, NEW p \in Procs, ~At(p, "idle") \/ lock = NoProc,
         \A q \in Procs \ {p} : frame'[q] = frame[q], KeepRuns, Sound(frame[p])'
  PROVE  DiskInv' /\ ForeignKept
<1>1. (\A r \in Runs : RunKept(r)') /\ ForeignKept
  BY KeepRunsKept DEF DiskInv
<1>2. \A q \in Procs : Sound(frame[q])'
  BY OnlyMineSound
<1> QED
  BY <1>1, <1>2 DEF DiskInv

\* A step of a process on the run it works on.
LEMMA OwnStep ==
  ASSUME DiskInv, FrameTypeOK, NEW p \in Procs, ~At(p, "idle"),
         \A q \in Procs \ {p} : frame'[q] = frame[q], Sound(frame[p])',
         NEW r \in Runs, OthersAlone(r), RunKept(r)',
         branch[r].by = "agent" /\ branch'[r].by # "agent" => branch'[r] = NoCommit /\ dir[r] = None
  PROVE  DiskInv' /\ ForeignKept
<1>1. \A q \in Runs : RunKept(q)'
  BY OthersKept DEF DiskInv
<1>2. \A q \in Procs : Sound(frame[q])'
  BY OnlyMineSound
<1>3. ForeignKept
  BY DEF ForeignKept, OthersAlone
<1> QED
  BY <1>1, <1>2, <1>3 DEF DiskInv

\* What Goto and Return leave of a frame.
LEMMA GotoParts ==
  ASSUME FrameTypeOK, NEW p \in Procs, NEW l, Goto(p, l)
  PROVE  /\ frame'[p].pc = l /\ frame'[p].run = frame[p].run /\ frame'[p].copy = frame[p].copy
         /\ frame'[p].tree = frame[p].tree
         /\ \A q \in Procs \ {p} : frame'[q] = frame[q]
BY DEF FrameTypeOK, Goto, Frame

\* A process that returns knows nothing any more.
LEMMA ReturnSound ==
  ASSUME FrameTypeOK, NEW p \in Procs, Return(p)
  PROVE  Sound(frame[p])' /\ \A q \in Procs \ {p} : frame'[q] = frame[q]
<1>1. frame'[p].pc = "idle" /\ \A q \in Procs \ {p} : frame'[q] = frame[q]
  BY IdleFrameType DEF Return, FrameTypeOK
<1> QED
  BY <1>1 DEF Sound, OpenPc, AppliedPc

\* The frame of a discard that begins, on a run that this step leaves alone.
LEMMA DiscardFrameSound ==
  ASSUME NEW r \in Runs, NEW rest, NEW p \in Procs, frame'[p] = DiscardFrame(r, rest),
         rec'[r] = rec[r], dir'[r] = dir[r]
  PROVE  Sound(frame[p])'
<1>1. /\ frame'[p].pc \in {"archive", "absent", "refused"} /\ frame'[p].run = r /\ frame'[p].copy = rec[r]
      /\ frame'[p].pc = "absent" => dir[r] = None
  BY DEF DiscardFrame, IdleFrame
<1> QED
  BY <1>1 DEF Sound, OpenPc, AppliedPc

\* GC goes on to the next run with nothing left of the last one.
LEMMA NextRunSound ==
  ASSUME FrameTypeOK, NEW p \in Procs, NextRun(p), Run(p) \notin frame[p].todo,
         OthersAlone(Run(p))
  PROVE  Sound(frame[p])' /\ \A q \in Procs \ {p} : frame'[q] = frame[q]
<1>1. CASE Return(p)
  BY <1>1, ReturnSound
<1>2. CASE \E r \in frame[p].todo :
             frame' = [frame EXCEPT ![p] = DiscardFrame(r, frame[p].todo \ {r})]
  <2>1. PICK r \in frame[p].todo :
          frame' = [frame EXCEPT ![p] = DiscardFrame(r, frame[p].todo \ {r})]
    BY <1>2
  <2>2. r \in Runs \ {Run(p)}
    BY FrameParts DEF FrameTypeOK
  <2>3. rec'[r] = rec[r] /\ dir'[r] = dir[r]
    BY <2>2 DEF OthersAlone
  <2>4. frame'[p] = DiscardFrame(r, frame[p].todo \ {r}) /\ \A q \in Procs \ {p} : frame'[q] = frame[q]
    BY <2>1 DEF FrameTypeOK
  <2> QED
    BY <2>2, <2>3, <2>4, DiscardFrameSound
<1> QED
  BY <1>1, <1>2 DEF NextRun

\* What is known when a process that is inside a call moves.
LEMMA InCall ==
  ASSUME DiskInv, ApplyInv, DiskTypeOK, FrameTypeOK, NEW p \in Procs, ~At(p, "idle")
  PROVE  /\ Run(p) \in Runs /\ frame[p] \in Frame /\ frame[p].run = Run(p) /\ frame[p].copy = Copy(p)
         /\ Copy(p) \in Record /\ rec[Run(p)] \in Record
         /\ Sound(frame[p]) /\ Consistent(frame[p]) /\ RunKept(Run(p))
<1>1. frame[p].run \in Runs /\ frame[p] \in Frame
  BY DEF FrameTypeOK, At
<1>2. frame[p].copy \in Record
  BY <1>1, FrameParts
<1> QED
  BY <1>1, <1>2 DEF DiskInv, DiskTypeOK, ApplyInv, FramesConsistent, Run, Copy

\* Open: nobody else touches the run, because it has no record.
LEMMA OpenSteps ==
  ASSUME DiskInv, ApplyInv, DiskTypeOK, FrameTypeOK, NEW p \in Procs, OpenStep(p)
  PROVE  DiskInv' /\ ForeignKept
<1>0. ~At(p, "idle")
  BY DEF OpenStep, OpenBranch, OpenWorktree, OpenLock, OpenSave, OpenFail, OpenCleanup, At
<1>1. PICK r \in Runs : r = Run(p) /\ frame[p].run = r /\ Sound(frame[p]) /\ RunKept(r)
  BY <1>0, InCall
<1>2. Base # None /\ Base # Wreck
  BY ConstantsAssumption
<1>9. NoRecord.status = "none" /\ NoRecord.archive = None
  BY DEF NoRecord
<1> USE DEF At
<1>3. CASE OpenBranch(p)
  <2>1. /\ rec[r] = NoRecord /\ branch[r] = NoCommit /\ Goto(p, "open_worktree")
        /\ branch'[r] = BaseCommit /\ OthersAlone(r)
        /\ rec' = rec /\ dir' = dir /\ admin' = admin /\ archive' = archive /\ work' = work /\ fate' = fate /\ stray' = stray
    BY <1>1, <1>3 DEF OpenBranch, Sound, OpenPc, DiskTypeOK, OthersAlone, ghosts
  <2>2. RunKept(r)'
    BY <1>1, <1>9, <2>1 DEF RunKept, WorkIsKept
  <2>3. Sound(frame[p])' /\ \A q \in Procs \ {p} : frame'[q] = frame[q]
    BY <1>1, <2>1, GotoParts DEF Sound, OpenPc, AppliedPc
  <2> QED
    BY <1>0, <1>1, <2>1, <2>2, <2>3, OwnStep DEF NoCommit
<1>4. CASE OpenWorktree(p)
  <2>1. /\ rec[r] = NoRecord /\ branch[r] = BaseCommit /\ Goto(p, "open_lock")
        /\ dir'[r] = Base /\ work'[r] = Base /\ OthersAlone(r)
        /\ rec' = rec /\ branch' = branch /\ archive' = archive /\ fate' = fate /\ stray' = stray
    BY <1>1, <1>4 DEF OpenWorktree, Sound, OpenPc, DiskTypeOK, OthersAlone
  <2>2. RunKept(r)'
    BY <1>1, <1>2, <1>9, <2>1 DEF RunKept
  <2>3. Sound(frame[p])' /\ \A q \in Procs \ {p} : frame'[q] = frame[q]
    BY <1>1, <1>2, <2>1, GotoParts DEF Sound, OpenPc, AppliedPc
  <2> QED
    BY <1>0, <1>1, <2>1, <2>2, <2>3, OwnStep
<1>5. CASE OpenLock(p)
  <2>1. /\ rec[r] = NoRecord /\ branch[r] = BaseCommit /\ dir[r] # None /\ Goto(p, "open_save")
        /\ OthersAlone(r)
        /\ rec' = rec /\ dir' = dir /\ branch' = branch /\ archive' = archive /\ work' = work /\ fate' = fate /\ stray' = stray
    BY <1>1, <1>5 DEF OpenLock, Sound, OpenPc, DiskTypeOK, OthersAlone, ghosts
  <2>2. RunKept(r)'
    BY <1>1, <2>1 DEF RunKept
  <2>3. Sound(frame[p])' /\ \A q \in Procs \ {p} : frame'[q] = frame[q]
    BY <1>1, <2>1, GotoParts DEF Sound, OpenPc, AppliedPc
  <2> QED
    BY <1>0, <1>1, <2>1, <2>2, <2>3, OwnStep
<1>6. CASE OpenSave(p)
  <2>1. /\ dir[r] # None /\ Return(p) /\ OthersAlone(r)
        /\ rec'[r] = [NoRecord EXCEPT !.status = "open"]
        /\ dir' = dir /\ branch' = branch /\ archive' = archive /\ work' = work /\ fate' = fate /\ stray' = stray
    BY <1>1, <1>6 DEF OpenSave, SaveLocked, Sound, OpenPc, DiskTypeOK, OthersAlone, ghosts
  <2>2. rec'[r].status = "open"
    BY <2>1 DEF NoRecord
  <2>3. RunKept(r)'
    BY <1>1, <2>1, <2>2 DEF RunKept
  <2> QED
    BY <1>0, <1>1, <2>1, <2>3, ReturnSound, OwnStep
<1>7. CASE OpenFail(p)
  <2>1. /\ rec[r] = NoRecord /\ branch[r] = BaseCommit /\ Goto(p, "open_cleanup") /\ KeepRuns
    BY <1>1, <1>7 DEF OpenFail, Sound, OpenPc, disk, KeepRuns
  <2>2. Sound(frame[p])' /\ \A q \in Procs \ {p} : frame'[q] = frame[q]
    BY <1>1, <2>1, GotoParts DEF Sound, OpenPc, AppliedPc, KeepRuns
  <2> QED
    BY <1>0, <2>1, <2>2, StillStep
<1>8. CASE OpenCleanup(p)
  <2>1. PICK gone, deleted \in BOOLEAN :
          /\ dir[Run(p)] = None => gone
          /\ dir' = [dir EXCEPT ![Run(p)] = IF gone THEN None ELSE @]
          /\ branch' = [branch EXCEPT ![Run(p)] = IF gone /\ deleted THEN NoCommit ELSE @]
          /\ work' = [work EXCEPT ![Run(p)] = IF gone THEN None ELSE @]
    BY <1>8, Zenon DEF OpenCleanup
  <2>2. PICK a : admin' = [admin EXCEPT ![Run(p)] = a]
    BY <1>8, Zenon DEF OpenCleanup
  <2>3. /\ rec[r] = NoRecord /\ branch[r] = BaseCommit /\ Return(p)
        /\ rec' = rec /\ archive' = archive /\ fate' = fate /\ stray' = stray
    BY <1>1, <1>8 DEF OpenCleanup, Sound, OpenPc
  <2>4. OthersAlone(r)
    BY <1>1, <2>1, <2>2, <2>3 DEF OthersAlone, DiskTypeOK
  <2>5. /\ dir'[r] = IF gone THEN None ELSE dir[r]
        /\ work'[r] = IF gone THEN None ELSE work[r]
    BY <1>1, <2>1 DEF DiskTypeOK
  <2>6. RunKept(r)'
    <3>1. CASE gone
      BY <1>1, <2>3, <2>5, <3>1, <1>9, ConstantsAssumption DEF RunKept, WorkIsKept
    <3>2. CASE ~gone
      BY <1>1, <2>1, <2>3, <2>5, <3>2 DEF RunKept, WorkIsKept
    <3> QED
      BY <3>1, <3>2
  <2> QED
    BY <1>0, <1>1, <2>3, <2>4, <2>6, ReturnSound, OwnStep DEF BaseCommit
<1> QED
  BY <1>3, <1>4, <1>5, <1>6, <1>7, <1>8 DEF OpenStep

\* WorkspaceDiff: the record keeps its archive and does not become terminal.
LEMMA DiffSteps ==
  ASSUME DiskInv, ApplyInv, DiskTypeOK, FrameTypeOK, NEW p \in Procs, DiffSave(p)
  PROVE  DiskInv' /\ ForeignKept
<1>0. ~At(p, "idle")
  BY DEF DiffSave, At
<1>1. PICK r \in Runs : /\ r = Run(p) /\ frame[p].run = r /\ frame[p].copy = Copy(p)
                        /\ Sound(frame[p]) /\ Consistent(frame[p]) /\ RunKept(r)
  BY <1>0, InCall
<1>2. Copy(p).status = "reviewed" /\ Copy(p).archive = rec[r].archive
  BY <1>1 DEF DiffSave, At, Consistent, Sound
<1>3. /\ rec[r].status # "none" => Transition(rec[r].status, Copy(p).status)
      /\ rec'[r] = Copy(p) /\ OthersAlone(r) /\ Return(p)
      /\ dir' = dir /\ admin' = admin /\ branch' = branch /\ archive' = archive /\ work' = work /\ fate' = fate /\ stray' = stray
  BY <1>1 DEF DiffSave, SaveLocked, DiskTypeOK, OthersAlone, ghosts
<1>4. rec[r].status # "applied"
  BY <1>2, <1>3 DEF Transition
<1>5. RunKept(r)'
  BY <1>1, <1>2, <1>3, <1>4 DEF RunKept, WorkIsKept
<1> QED
  BY <1>0, <1>3, <1>5, ReturnSound, OwnStep

\* Apply up to the commit: the tree that is pinned is the last one of the agent,
\* unless fate says that it was replaced since.
LEMMA ApplyPrepares ==
  ASSUME DiskInv, ApplyInv, DiskTypeOK, FrameTypeOK, NEW p \in Procs,
         ApplyVerify(p) \/ ApplyHead(p) \/ ApplyStage(p) \/ ApplyReceipt(p)
  PROVE  DiskInv' /\ ForeignKept
<1>0. ~At(p, "idle") /\ frame[p].pc \in {"verify", "head", "stage", "receipt"}
  BY DEF ApplyVerify, ApplyHead, ApplyStage, ApplyReceipt, At
<1>1. PICK r \in Runs : /\ r = Run(p) /\ frame[p].run = r /\ frame[p].copy = Copy(p)
                        /\ Sound(frame[p]) /\ Consistent(frame[p]) /\ RunKept(r) /\ frame[p] \in Frame
  BY <1>0, InCall
<1>2. Copy(p).archive = rec[r].archive
  BY <1>0, <1>1 DEF Sound
<1>3. CASE ApplyVerify(p)
  <2>1. PICK v \in {"pass", "not_run"} :
          frame' = [frame EXCEPT ![p] = [frame[p] EXCEPT !.pc = "head", !.verdict = v]]
    BY <1>3 DEF ApplyVerify
  <2>2. /\ frame'[p].pc = "head" /\ frame'[p].run = r /\ frame'[p].copy = Copy(p)
        /\ \A q \in Procs \ {p} : frame'[q] = frame[q]
    BY <1>1, <2>1 DEF FrameTypeOK, Frame
  <2>3. KeepRuns
    BY <1>3 DEF ApplyVerify, disk, KeepRuns
  <2>4. Sound(frame[p])'
    BY <1>2, <2>2, <2>3 DEF Sound, OpenPc, AppliedPc, KeepRuns
  <2> QED
    BY <1>0, <2>2, <2>3, <2>4, StillStep
<1>4. CASE ApplyHead(p)
  <2>1. KeepRuns /\ Goto(p, "stage")
    BY <1>4 DEF ApplyHead, disk, KeepRuns
  <2>2. Sound(frame[p])' /\ \A q \in Procs \ {p} : frame'[q] = frame[q]
    BY <1>1, <1>2, <2>1, GotoParts DEF Sound, OpenPc, AppliedPc, KeepRuns
  <2> QED
    BY <1>0, <2>1, <2>2, StillStep
<1>5. CASE ApplyStage(p)
  <2>1. /\ dir[r] = Copy(p).reviewed /\ Copy(p).reviewed # None
        /\ rec' = rec /\ dir' = dir /\ admin' = admin /\ branch' = branch /\ archive' = archive
        /\ work' = work /\ stray' = stray
    BY <1>1, <1>5 DEF ApplyStage, At, Consistent, disk
  <2>2. /\ OthersAlone(r)
        /\ fate'[r] = IF dir[r] = Wreck THEN fate[r] ELSE "none"
    BY <1>1, <1>5, <2>1 DEF ApplyStage, OthersAlone, DiskTypeOK
  <2>3. /\ frame'[p].pc \in {"receipt", "commit"} /\ frame'[p].run = r /\ frame'[p].copy = Copy(p)
        /\ frame'[p].tree = dir[r]
        /\ \A q \in Procs \ {p} : frame'[q] = frame[q]
    BY <1>1, <1>5 DEF ApplyStage, FrameTypeOK, Frame
  <2>4. RunKept(r)'
    BY <1>1, <2>1, <2>2 DEF RunKept, WorkIsKept
  <2>5. fate'[r] = "none" => dir[r] = work[r]
    BY <1>1, <2>1, <2>2 DEF RunKept
  <2>6. Sound(frame[p])'
    BY <1>2, <2>1, <2>3, <2>5 DEF Sound, OpenPc, AppliedPc
  <2> QED
    BY <1>0, <2>1, <2>2, <2>3, <2>4, <2>6, OwnStep
<1>6. CASE ApplyReceipt(p)
  <2>1. KeepRuns /\ (Goto(p, "commit") \/ Return(p)) /\ frame[p].pc = "receipt"
    BY <1>6 DEF ApplyReceipt, KeepRuns, At
  <2>2. CASE Goto(p, "commit")
    <3>1. fate[r] = "none" => frame[p].tree = work[r]
      BY <1>1, <2>1 DEF Sound
    <3>2. Sound(frame[p])' /\ \A q \in Procs \ {p} : frame'[q] = frame[q]
      BY <1>1, <1>2, <2>1, <2>2, <3>1, GotoParts DEF Sound, OpenPc, AppliedPc, KeepRuns, ghosts
    <3> QED
      BY <1>0, <2>1, <3>2, StillStep
  <2>3. CASE Return(p)
    BY <1>0, <2>1, <2>3, ReturnSound, StillStep
  <2> QED
    BY <2>1, <2>2, <2>3
<1> QED
  BY <1>3, <1>4, <1>5, <1>6

\* What update-ref HEAD does to the branch of a run.
LEMMA SetHeadParts ==
  ASSUME DiskTypeOK, NEW r \in Runs, NEW c, SetHead(r, c)
  PROVE  /\ away[r] = NoCommit => branch'[r] = c
         /\ away[r] # NoCommit => branch'[r] = branch[r]
         /\ \A q \in Runs \ {r} : branch'[q] = branch[q]
BY DEF SetHead, DiskTypeOK

\* What the commit of Apply does: it lands on the run's branch, at the base, or
\* is noted as stray.
LEMMA MoveHeadParts ==
  ASSUME DiskTypeOK, NEW p \in Procs, Run(p) \in Runs, MoveHead(p)
  PROVE  /\ stray'[Run(p)] \/ branch'[Run(p)] = JacuCommit(frame[p].tree)
         /\ branch'[Run(p)] = branch[Run(p)] \/ branch[Run(p)] = BaseCommit
         /\ \A q \in Runs \ {Run(p)} : branch'[q] = branch[q] /\ stray'[q] = stray[q]
<1>1. /\ Head(Run(p)) = BaseCommit /\ SetHead(Run(p), JacuCommit(frame[p].tree))
      /\ stray' = [stray EXCEPT ![Run(p)] = away[Run(p)] # NoCommit]
  BY DEF MoveHead
<1>2. /\ stray'[Run(p)] = (away[Run(p)] # NoCommit)
      /\ \A q \in Runs \ {Run(p)} : stray'[q] = stray[q]
  BY <1>1 DEF DiskTypeOK
<1> QED
  BY <1>1, <1>2, SetHeadParts DEF Head

\* Apply puts its commit on the branch, saves it, or takes it back.
LEMMA ApplyCommits ==
  ASSUME DiskInv, ApplyInv, DiskTypeOK, FrameTypeOK, NEW p \in Procs,
         \/ ApplyCommit(p) \/ ApplyCommitCut(p) \/ ApplySave(p) \/ ApplySaveFail(p) \/ ApplyRollback(p)
  PROVE  DiskInv' /\ ForeignKept
<1>0. ~At(p, "idle") /\ frame[p].pc \in {"commit", "save_applied", "rollback"}
  BY DEF ApplyCommit, ApplyCommitCut, ApplySave, ApplySaveFail, ApplyRollback, At
<1>1. PICK r \in Runs : /\ r = Run(p) /\ frame[p].run = r /\ frame[p].copy = Copy(p)
                        /\ Sound(frame[p]) /\ Consistent(frame[p]) /\ RunKept(r) /\ frame[p] \in Frame
                        /\ Copy(p) \in Record
  BY <1>0, InCall
<1>2. rec[r].status = "reviewed"
  BY <1>0, <1>1 DEF Sound, Consistent
<1>3. CASE ApplyCommit(p)
  <2> DEFINE new == [Copy(p) EXCEPT !.status = "applied", !.applied = JacuCommit(frame[p].tree)]
  <2>1. new.applied = JacuCommit(frame[p].tree) /\ new.archive = Copy(p).archive
    BY <1>1 DEF Record
  <2>2. /\ frame[p].pc = "commit" /\ OthersAlone(r)
        /\ stray'[r] \/ branch'[r] = JacuCommit(frame[p].tree)
        /\ branch'[r] = branch[r] \/ branch[r] = BaseCommit
        /\ rec' = rec /\ dir' = dir /\ admin' = admin /\ archive' = archive /\ work' = work /\ fate' = fate
    BY <1>1, <1>3, MoveHeadParts DEF ApplyCommit, At, OthersAlone
  <2>3. frame' = [frame EXCEPT ![p] = [frame[p] EXCEPT !.pc = "save_applied", !.copy = new]]
    BY <1>3 DEF ApplyCommit
  <2> HIDE DEF new
  <2>4. /\ frame'[p].pc = "save_applied" /\ frame'[p].run = r /\ frame'[p].copy = new
        /\ frame'[p].tree = frame[p].tree
        /\ \A q \in Procs \ {p} : frame'[q] = frame[q]
    BY <1>1, <2>3 DEF FrameTypeOK, Frame
  <2>5. RunKept(r)'
    BY <1>1, <1>2, <2>2 DEF RunKept, WorkIsKept
  <2>6. Copy(p).archive = rec[r].archive /\ (fate[r] = "none" => frame[p].tree = work[r])
    BY <1>1, <2>2 DEF Sound
  <2>7. Sound(frame[p])'
    BY <2>1, <2>2, <2>4, <2>6 DEF Sound, OpenPc, AppliedPc, JacuCommit
  <2> QED
    BY <1>0, <2>2, <2>4, <2>5, <2>7, OwnStep DEF BaseCommit
<1>4. CASE ApplyCommitCut(p)
  <2>1. /\ branch'[r] = branch[r] \/ branch[r] = BaseCommit
        /\ OthersAlone(r) /\ Return(p)
        /\ rec' = rec /\ dir' = dir /\ admin' = admin /\ archive' = archive /\ work' = work /\ fate' = fate
    BY <1>1, <1>4, MoveHeadParts DEF ApplyCommitCut, OthersAlone
  <2>2. RunKept(r)'
    BY <1>1, <1>2, <2>1 DEF RunKept, WorkIsKept
  <2> QED
    BY <1>0, <2>1, <2>2, ReturnSound, OwnStep DEF BaseCommit
<1>5. CASE ApplySave(p)
  <2>1. /\ frame[p].pc = "save_applied" /\ rec'[r] = Copy(p) /\ OthersAlone(r)
        /\ dir' = dir /\ admin' = admin /\ branch' = branch /\ archive' = archive /\ work' = work /\ fate' = fate /\ stray' = stray
    BY <1>1, <1>5 DEF ApplySave, SaveLocked, At, DiskTypeOK, OthersAlone, ghosts
  <2>2. /\ stray[r] \/ branch[r] = Copy(p).applied \/ branch[r].by = "agent"
        /\ Copy(p).applied.tree = frame[p].tree /\ Copy(p).archive = rec[r].archive
        /\ Copy(p).status = "applied" /\ (fate[r] = "none" => frame[p].tree = work[r])
    BY <1>1, <2>1 DEF Sound, Consistent
  <2>3. RunKept(r)'
    BY <1>1, <1>2, <2>1, <2>2 DEF RunKept, WorkIsKept
  <2>4. PICK l \in {"integrate", "apply_unlock"} : Goto(p, l)
    BY <1>5 DEF ApplySave
  <2>5. Sound(frame[p])' /\ \A q \in Procs \ {p} : frame'[q] = frame[q]
    BY <1>1, <2>1, <2>2, <2>4, GotoParts DEF Sound, OpenPc, AppliedPc
  <2> QED
    BY <1>0, <2>1, <2>3, <2>5, OwnStep
<1>6. CASE ApplySaveFail(p)
  <2>1. frame[p].pc = "save_applied" /\ KeepRuns /\ Goto(p, "rollback")
    BY <1>6 DEF ApplySaveFail, At, disk, KeepRuns
  <2>2. Copy(p).applied.by = "jacu"
    BY <1>1, <2>1 DEF Consistent, JacuCommit
  <2>3. Sound(frame[p])' /\ \A q \in Procs \ {p} : frame'[q] = frame[q]
    BY <1>1, <1>2, <2>1, <2>2, GotoParts DEF Sound, OpenPc, AppliedPc, KeepRuns
  <2> QED
    BY <1>0, <2>1, <2>3, StillStep
<1>7. CASE ApplyRollback(p)
  <2>1. /\ branch'[r] = branch[r] \/ branch[r].by = "jacu"
        /\ OthersAlone(r) /\ Return(p)
        /\ rec' = rec /\ dir' = dir /\ admin' = admin /\ archive' = archive /\ work' = work /\ fate' = fate /\ stray' = stray
    <3>1. /\ frame[p].pc = "rollback" /\ Head(r) = Copy(p).applied /\ SetHead(r, BaseCommit)
          /\ UNCHANGED <<rec, dir, admin, archive, ghosts>> /\ Return(p)
      BY <1>1, <1>7 DEF ApplyRollback, At
    <3>2. Copy(p).applied.by = "jacu"
      BY <1>1, <3>1 DEF Sound
    <3> QED
      BY <3>1, <3>2, SetHeadParts DEF Head, OthersAlone, ghosts
  <2>2. RunKept(r)'
    BY <1>1, <1>2, <2>1 DEF RunKept, WorkIsKept
  <2> QED
    BY <1>0, <2>1, <2>2, ReturnSound, OwnStep
<1> QED
  BY <1>3, <1>4, <1>5, <1>6, <1>7

\* A removal that stops half-way: fate knows of the wreck.
LEMMA TearKept ==
  ASSUME DiskTypeOK, NEW r \in Runs, RunKept(r), rec[r].status # "discarded", TearWorktree(r),
         UNCHANGED <<rec, branch, archive, work, stray>>
  PROVE  RunKept(r)' /\ OthersAlone(r)
<1>1. /\ dir[r] # None /\ dir'[r] = Wreck /\ fate'[r] \in {"late", "torn"}
      /\ rec' = rec /\ branch' = branch /\ stray' = stray
  BY DEF TearWorktree, DiskTypeOK
<1>2. OthersAlone(r)
  BY DEF TearWorktree, DiskTypeOK, OthersAlone
<1>3. RunKept(r)'
  BY <1>1, ConstantsAssumption DEF RunKept
<1> QED
  BY <1>2, <1>3

\* Apply after the record is saved: what was applied is what is removed.
LEMMA ApplyEnds ==
  ASSUME DiskInv, ApplyInv, DiskTypeOK, FrameTypeOK, NEW p \in Procs,
         ApplyIntegrate(p) \/ ApplyDeliver(p) \/ ApplyUnlock(p) \/ ApplyRemove(p)
  PROVE  DiskInv' /\ ForeignKept
<1>0. ~At(p, "idle") /\ frame[p].pc \in AppliedPc
  BY DEF ApplyIntegrate, ApplyDeliver, ApplyUnlock, ApplyRemove, At, AppliedPc
<1>1. PICK r \in Runs : /\ r = Run(p) /\ frame[p].run = r /\ Sound(frame[p]) /\ RunKept(r)
  BY <1>0, InCall
<1>2. /\ rec[r].status = "applied" /\ rec[r].applied.tree = frame[p].tree
      /\ fate[r] = "none" => frame[p].tree = work[r]
  BY <1>0, <1>1 DEF Sound
<1>3. CASE ApplyIntegrate(p) \/ ApplyDeliver(p)
  <2>1. KeepRuns /\ (Goto(p, "deliver") \/ Goto(p, "apply_unlock") \/ Return(p))
    BY <1>3 DEF ApplyIntegrate, ApplyDeliver, disk, KeepRuns
  <2>2. CASE Goto(p, "deliver") \/ Goto(p, "apply_unlock")
    <3>1. Sound(frame[p])' /\ \A q \in Procs \ {p} : frame'[q] = frame[q]
      BY <1>1, <1>2, <2>1, <2>2, GotoParts DEF Sound, OpenPc, AppliedPc, KeepRuns, ghosts
    <3> QED
      BY <1>0, <2>1, <3>1, StillStep
  <2>3. CASE Return(p)
    BY <1>0, <2>1, <2>3, ReturnSound, StillStep
  <2> QED
    BY <2>1, <2>2, <2>3
<1>4. CASE ApplyUnlock(p)
  <2>1. /\ OthersAlone(r) /\ Goto(p, "apply_remove")
        /\ rec' = rec /\ dir' = dir /\ branch' = branch /\ archive' = archive /\ work' = work /\ fate' = fate /\ stray' = stray
    BY <1>1, <1>4 DEF ApplyUnlock, OthersAlone, DiskTypeOK, ghosts
  <2>2. RunKept(r)'
    BY <1>1, <1>2, <2>1 DEF RunKept, WorkIsKept
  <2>3. Sound(frame[p])' /\ \A q \in Procs \ {p} : frame'[q] = frame[q]
    BY <1>1, <1>2, <2>1, GotoParts DEF Sound, OpenPc, AppliedPc
  <2> QED
    BY <1>0, <2>1, <2>2, <2>3, OwnStep
<1>5. CASE ApplyRemove(p)
  <2>1. /\ Return(p) /\ rec' = rec /\ branch' = branch /\ archive' = archive /\ work' = work
        /\ stray' = stray
    BY <1>5 DEF ApplyRemove
  <2>2. RunKept(r)' /\ OthersAlone(r)
    <3>1. CASE RemoveWorktree(r) /\ UNCHANGED fate
      <4>1. OthersAlone(r) /\ dir'[r] = None /\ fate' = fate
        BY <1>1, <2>1, <3>1 DEF RemoveWorktree, OthersAlone, DiskTypeOK
      <4> QED
        BY <1>1, <1>2, <2>1, <4>1, ConstantsAssumption DEF RunKept, WorkIsKept
    <3>2. CASE TearWorktree(r)
      BY <1>1, <1>2, <2>1, <3>2, TearKept
    <3> QED
      BY <1>1, <1>5, <3>1, <3>2 DEF ApplyRemove
  <2> QED
    BY <1>0, <2>1, <2>2, ReturnSound, OwnStep
<1> QED
  BY <1>3, <1>4, <1>5

\* What a discard knows of the run it works on.
LEMMA InDiscard ==
  ASSUME DiskInv, ApplyInv, DiskTypeOK, FrameTypeOK, NEW p \in Procs, frame[p].pc \in DiscardPc
  PROVE  /\ ~At(p, "idle") /\ Run(p) \in Runs /\ frame[p].run = Run(p) /\ frame[p].copy = Copy(p)
         /\ frame[p] \in Frame /\ Copy(p) \in Record /\ Sound(frame[p]) /\ RunKept(Run(p))
         /\ Copy(p).status = rec[Run(p)].status /\ Copy(p).status # "applied"
         /\ Run(p) \notin frame[p].todo
<1>1. ~At(p, "idle")
  BY DEF At, DiscardPc
<1> QED
  BY <1>1, InCall DEF Consistent

\* Discard up to the removal: the patch is on disk before the record names it,
\* and the record names it before the worktree goes.
LEMMA DiscardSaves ==
  ASSUME DiskInv, ApplyInv, DiskTypeOK, FrameTypeOK, NEW p \in Procs,
         DiscardFail(p) \/ DiscardArchive(p) \/ DiscardRecord(p) \/ DiscardUnlock(p)
  PROVE  DiskInv' /\ ForeignKept
<1>0. frame[p].pc \in DiscardPc
  BY DEF DiscardFail, DiscardArchive, DiscardRecord, DiscardUnlock, At, DiscardPc
<1>1. PICK r \in Runs :
        /\ ~At(p, "idle") /\ r = Run(p) /\ frame[p].run = r /\ frame[p].copy = Copy(p)
        /\ frame[p] \in Frame /\ Copy(p) \in Record /\ Sound(frame[p]) /\ RunKept(r)
        /\ Copy(p).status = rec[r].status /\ Copy(p).status # "applied"
        /\ Run(p) \notin frame[p].todo
  BY <1>0, InDiscard
<1>2. CASE DiscardFail(p)
  <2>1. KeepRuns /\ OthersAlone(Run(p)) /\ NextRun(p)
    BY <1>2 DEF DiscardFail, disk, ghosts, KeepRuns, OthersAlone
  <2>2. Sound(frame[p])' /\ \A q \in Procs \ {p} : frame'[q] = frame[q]
    BY <1>1, <2>1, NextRunSound
  <2> QED
    BY <1>1, <2>1, <2>2, StillStep
<1>3. CASE DiscardArchive(p)
  <2> DEFINE patch == IF dir[r] # Base THEN dir[r] ELSE None
  <2> DEFINE new == [Copy(p) EXCEPT !.archive = patch]
  <2>1. /\ dir[r] # None /\ OthersAlone(r)
        /\ rec' = rec /\ dir' = dir /\ admin' = admin /\ branch' = branch /\ work' = work
        /\ archive'[r] = IF dir[r] # Base THEN dir[r] ELSE archive[r]
        /\ fate'[r] = IF dir[r] = Wreck THEN fate[r] ELSE "none"
    BY <1>1, <1>3 DEF DiscardArchive, OthersAlone, DiskTypeOK
  <2>2. new.archive = patch
    BY <1>1 DEF Record
  <2>3. frame' = [frame EXCEPT ![p] = [frame[p] EXCEPT !.pc = "record", !.copy = new]]
    BY <1>1, <1>3 DEF DiscardArchive
  <2> HIDE DEF new
  <2>4. /\ frame'[p].pc = "record" /\ frame'[p].run = r /\ frame'[p].copy = new
        /\ \A q \in Procs \ {p} : frame'[q] = frame[q]
    BY <1>1, <2>3 DEF FrameTypeOK, Frame
  <2>5. RunKept(r)'
    BY <1>1, <2>1 DEF RunKept
  <2>6. /\ new.archive # None => archive'[r] = new.archive
        /\ fate'[r] = "none" => work[r] \in {None, Base, new.archive}
        /\ rec[r].status # "discarded"
    BY <1>1, <2>1, <2>2 DEF RunKept
  <2>7. Sound(frame[p])'
    BY <2>1, <2>4, <2>6 DEF Sound, OpenPc, AppliedPc
  <2> QED
    BY <1>1, <2>1, <2>4, <2>5, <2>7, OwnStep
<1>4. CASE DiscardRecord(p)
  <2>1. /\ frame[p].pc = "record" /\ rec'[r] = Copy(p) /\ OthersAlone(r)
        /\ dir' = dir /\ admin' = admin /\ branch' = branch /\ archive' = archive /\ work' = work /\ fate' = fate /\ stray' = stray
    BY <1>1, <1>4 DEF DiscardRecord, SaveLocked, At, DiskTypeOK, OthersAlone, ghosts
  <2>2. /\ Copy(p).archive # None => archive[r] = Copy(p).archive
        /\ fate[r] = "none" => work[r] \in {None, Base, Copy(p).archive}
        /\ rec[r].status # "discarded"
    BY <1>1, <2>1 DEF Sound
  <2>3. RunKept(r)'
    BY <1>1, <2>1, <2>2 DEF RunKept, WorkIsKept
  <2>4. PICK l \in {"unlock", "remove"} : Goto(p, l)
    BY <1>4 DEF DiscardRecord
  <2>5. Sound(frame[p])' /\ \A q \in Procs \ {p} : frame'[q] = frame[q]
    BY <1>1, <2>1, <2>2, <2>4, GotoParts DEF Sound, OpenPc, AppliedPc
  <2> QED
    BY <1>1, <2>1, <2>3, <2>5, OwnStep
<1>5. CASE DiscardUnlock(p)
  <2>1. /\ frame[p].pc = "unlock" /\ OthersAlone(r) /\ Goto(p, "remove")
        /\ rec' = rec /\ dir' = dir /\ branch' = branch /\ archive' = archive /\ work' = work /\ fate' = fate /\ stray' = stray
    BY <1>1, <1>5 DEF DiscardUnlock, At, DiskTypeOK, OthersAlone, ghosts
  <2>2. /\ Copy(p).archive # None => archive[r] = Copy(p).archive
        /\ fate[r] = "none" => work[r] \in {None, Base, Copy(p).archive}
        /\ rec[r].status # "discarded" /\ Copy(p).archive = rec[r].archive
    BY <1>1, <2>1 DEF Sound
  <2>3. RunKept(r)'
    BY <1>1, <2>1, <2>2 DEF RunKept, WorkIsKept
  <2>4. Sound(frame[p])' /\ \A q \in Procs \ {p} : frame'[q] = frame[q]
    BY <1>1, <2>1, <2>2, GotoParts DEF Sound, OpenPc, AppliedPc
  <2> QED
    BY <1>1, <2>1, <2>3, <2>4, OwnStep
<1> QED
  BY <1>2, <1>3, <1>4, <1>5

\* Discard from the removal on: what it removes is archived, and what it makes
\* absent stays absent until the record says so.
LEMMA DiscardRemoves ==
  ASSUME DiskInv, ApplyInv, DiskTypeOK, FrameTypeOK, NEW p \in Procs,
         \/ DiscardRemove(p) \/ DiscardTear(p) \/ DiscardAbsent(p) \/ DiscardBranch(p)
         \/ DiscardFinal(p)
  PROVE  DiskInv' /\ ForeignKept
<1>0. frame[p].pc \in DiscardPc
  BY DEF DiscardRemove, DiscardTear, DiscardAbsent, DiscardBranch, DiscardFinal, At, DiscardPc
<1>1. PICK r \in Runs :
        /\ ~At(p, "idle") /\ r = Run(p) /\ frame[p].run = r /\ frame[p].copy = Copy(p)
        /\ frame[p] \in Frame /\ Copy(p) \in Record /\ Sound(frame[p]) /\ RunKept(r)
        /\ Copy(p).status = rec[r].status /\ Copy(p).status # "applied"
        /\ Run(p) \notin frame[p].todo
  BY <1>0, InDiscard
<1>2. CASE DiscardRemove(p)
  <2>1. /\ frame[p].pc = "remove" /\ OthersAlone(r) /\ Goto(p, "branch")
        /\ dir'[r] = None /\ admin'[r] = "none"
        /\ rec' = rec /\ branch' = branch /\ archive' = archive /\ work' = work /\ fate' = fate /\ stray' = stray
    BY <1>1, <1>2 DEF DiscardRemove, RemoveWorktree, At, DiskTypeOK, OthersAlone, ghosts
  <2>2. /\ Copy(p).archive # None => archive[r] = Copy(p).archive
        /\ fate[r] = "none" => work[r] \in {None, Base, Copy(p).archive}
        /\ rec[r].status # "discarded" /\ Copy(p).archive = rec[r].archive
    BY <1>1, <2>1 DEF Sound
  <2>3. RunKept(r)'
    BY <1>1, <2>1, <2>2, ConstantsAssumption DEF RunKept, WorkIsKept
  <2>4. Sound(frame[p])' /\ \A q \in Procs \ {p} : frame'[q] = frame[q]
    BY <1>1, <2>1, <2>2, GotoParts DEF Sound, OpenPc, AppliedPc
  <2> QED
    BY <1>1, <2>1, <2>3, <2>4, OwnStep
<1>3. CASE DiscardTear(p)
  <2>1. /\ frame[p].pc = "remove" /\ TearWorktree(r) /\ NextRun(p)
        /\ UNCHANGED <<rec, branch, archive, work, stray>>
    BY <1>1, <1>3 DEF DiscardTear, At
  <2>2. rec[r].status # "discarded"
    BY <1>1, <2>1 DEF Sound
  <2>3. RunKept(r)' /\ OthersAlone(r)
    BY <1>1, <2>1, <2>2, TearKept
  <2>4. OthersAlone(Run(p))
    BY <1>1, <2>3 DEF OthersAlone
  <2>5. Sound(frame[p])' /\ \A q \in Procs \ {p} : frame'[q] = frame[q]
    BY <1>1, <2>1, <2>4, NextRunSound
  <2> QED
    BY <1>1, <2>1, <2>3, <2>5, OwnStep
<1>4. CASE DiscardAbsent(p)
  <2>1. /\ frame[p].pc = "absent" /\ Goto(p, "branch")
        /\ rec' = rec /\ dir' = dir /\ branch' = branch /\ archive' = archive /\ work' = work /\ fate' = fate /\ stray' = stray
    BY <1>1, <1>4 DEF DiscardAbsent, At, ghosts
  <2>2. dir[r] = None /\ Copy(p).archive = rec[r].archive
    BY <1>1, <2>1 DEF Sound
  <2>3. /\ admin'[r] = "none"
        /\ \A q \in Runs \ {r} : admin'[q] \in {admin[q], "none"}
    BY <1>1, <1>4, <2>2 DEF DiscardAbsent, Prune, DiskTypeOK
  <2>4. RunKept(r)' /\ OthersAlone(r)
    BY <1>1, <2>1, <2>2, <2>3 DEF RunKept, WorkIsKept, OthersAlone
  <2>5. Sound(frame[p])' /\ \A q \in Procs \ {p} : frame'[q] = frame[q]
    BY <1>1, <2>1, <2>2, <2>3, GotoParts DEF Sound, OpenPc, AppliedPc
  <2> QED
    BY <1>1, <2>1, <2>4, <2>5, OwnStep
<1>5. CASE DiscardBranch(p)
  <2>1. /\ frame[p].pc = "branch" /\ Goto(p, "final") /\ branch'[r] = NoCommit
        /\ \A q \in Runs \ {r} : branch'[q] = branch[q]
        /\ rec' = rec /\ dir' = dir /\ archive' = archive /\ work' = work /\ fate' = fate /\ stray' = stray
    BY <1>1, <1>5 DEF DiscardBranch, At, ghosts, DiskTypeOK
  <2>2. dir[r] = None /\ Copy(p).archive = rec[r].archive
    BY <1>1, <2>1 DEF Sound
  <2>3. /\ admin'[r] = "none"
        /\ \A q \in Runs \ {r} : admin'[q] \in {admin[q], "none"}
    BY <1>1, <1>5, <2>2 DEF DiscardBranch, Prune, DiskTypeOK
  <2>4. RunKept(r)' /\ OthersAlone(r)
    BY <1>1, <2>1, <2>2, <2>3 DEF RunKept, WorkIsKept, OthersAlone
  <2>5. Sound(frame[p])' /\ \A q \in Procs \ {p} : frame'[q] = frame[q]
    BY <1>1, <2>1, <2>2, <2>3, GotoParts DEF Sound, OpenPc, AppliedPc
  <2> QED
    BY <1>1, <2>1, <2>2, <2>4, <2>5, OwnStep
<1>6. CASE DiscardFinal(p)
  <2> DEFINE new == [Copy(p) EXCEPT !.status = "discarded"]
  <2>1. /\ frame[p].pc = "final" /\ NextRun(p) /\ rec'[r] = new /\ OthersAlone(r) /\ OthersAlone(Run(p))
        /\ dir' = dir /\ admin' = admin /\ branch' = branch /\ archive' = archive /\ work' = work /\ fate' = fate /\ stray' = stray
    BY <1>1, <1>6 DEF DiscardFinal, SaveLocked, At, ghosts, DiskTypeOK, OthersAlone
  <2>2. /\ dir[r] = None /\ admin[r] = "none" /\ branch[r] = NoCommit
        /\ Copy(p).archive = rec[r].archive
    BY <1>1, <2>1 DEF Sound
  <2>3. new.status = "discarded" /\ new.archive = rec[r].archive
    BY <1>1, <2>2 DEF Record
  <2> HIDE DEF new
  <2>4. RunKept(r)'
    BY <1>1, <2>1, <2>2, <2>3 DEF RunKept, WorkIsKept
  <2>5. Sound(frame[p])' /\ \A q \in Procs \ {p} : frame'[q] = frame[q]
    BY <1>1, <2>1, NextRunSound
  <2> QED
    BY <1>1, <2>1, <2>4, <2>5, OwnStep
<1> QED
  BY <1>2, <1>3, <1>4, <1>5, <1>6

\* A call begins: it has read the record and the directory under the lock.
LEMMA CallsSound ==
  ASSUME DiskInv, ApplyInv, DiskTypeOK, FrameTypeOK, NEW p \in Procs, Call(p)
  PROVE  DiskInv' /\ ForeignKept
<1>1. ASSUME NEW f, Enter(p, f), UNCHANGED <<disk, ghosts>>
      PROVE  /\ lock = NoProc /\ KeepRuns /\ frame'[p] = f
             /\ \A q \in Procs \ {p} : frame'[q] = frame[q]
  BY <1>1 DEF Enter, FrameTypeOK, KeepRuns, disk
<1>2. ASSUME NEW r \in Runs, NEW rest, Enter(p, DiscardFrame(r, rest)), UNCHANGED <<disk, ghosts>>
      PROVE  DiskInv' /\ ForeignKept
  <2>1. /\ lock = NoProc /\ KeepRuns /\ frame'[p] = DiscardFrame(r, rest)
        /\ \A q \in Procs \ {p} : frame'[q] = frame[q]
    BY <1>1, <1>2
  <2>2. Sound(frame[p])'
    BY <2>1, DiscardFrameSound DEF KeepRuns
  <2> QED
    BY <2>1, <2>2, StillStep
<1>3. ASSUME NEW r \in Runs, OpenCall(p, r) PROVE DiskInv' /\ ForeignKept
  <2> DEFINE f == [IdleFrame EXCEPT !.pc = "open_branch", !.run = r]
  <2>1. f.pc = "open_branch" /\ f.run = r
    BY DEF IdleFrame
  <2>2. Enter(p, f) /\ UNCHANGED <<disk, ghosts>> /\ rec[r] = NoRecord /\ branch[r] = NoCommit
    BY <1>3 DEF OpenCall, Fresh
  <2> HIDE DEF f
  <2>3. /\ lock = NoProc /\ KeepRuns /\ frame'[p] = f
        /\ \A q \in Procs \ {p} : frame'[q] = frame[q]
    BY <1>1, <2>2
  <2>4. Sound(frame[p])'
    BY <2>1, <2>2, <2>3 DEF Sound, OpenPc, AppliedPc, KeepRuns
  <2> QED
    BY <2>3, <2>4, StillStep
<1>4. ASSUME NEW r \in Runs, DiffCall(p, r) PROVE DiskInv' /\ ForeignKept
  <2> DEFINE c == [rec[r] EXCEPT !.status = "reviewed", !.reviewed = dir[r]]
             f == [IdleFrame EXCEPT !.pc = "diff_save", !.run = r, !.copy = c]
  <2>1. c.archive = rec[r].archive
    BY DEF DiskTypeOK, Record
  <2>2. Enter(p, f) /\ UNCHANGED <<disk, ghosts>>
    BY <1>4 DEF DiffCall
  <2> HIDE DEF c
  <2>3. f.pc = "diff_save" /\ f.run = r /\ f.copy = c
    BY DEF IdleFrame
  <2> HIDE DEF f
  <2>4. /\ lock = NoProc /\ KeepRuns /\ frame'[p] = f
        /\ \A q \in Procs \ {p} : frame'[q] = frame[q]
    BY <1>1, <2>2
  <2>5. Sound(frame[p])'
    BY <2>1, <2>3, <2>4 DEF Sound, OpenPc, AppliedPc, KeepRuns
  <2> QED
    BY <2>4, <2>5, StillStep
<1>5. ASSUME NEW r \in Runs, ApplyCall(p, r) PROVE DiskInv' /\ ForeignKept
  <2> DEFINE f == [IdleFrame EXCEPT !.pc = "verify", !.run = r, !.copy = rec[r]]
  <2>1. f.pc = "verify" /\ f.run = r /\ f.copy = rec[r]
    BY DEF IdleFrame
  <2>2. Enter(p, f) /\ UNCHANGED <<disk, ghosts>>
    BY <1>5 DEF ApplyCall
  <2> HIDE DEF f
  <2>3. /\ lock = NoProc /\ KeepRuns /\ frame'[p] = f
        /\ \A q \in Procs \ {p} : frame'[q] = frame[q]
    BY <1>1, <2>2
  <2>4. Sound(frame[p])'
    BY <2>1, <2>3 DEF Sound, OpenPc, AppliedPc, KeepRuns
  <2> QED
    BY <2>3, <2>4, StillStep
<1>6. ASSUME NEW r \in Runs, DiscardCall(p, r) PROVE DiskInv' /\ ForeignKept
  <2>1. PICK rest \in {{}, Orphans \ {r}} : Enter(p, DiscardFrame(r, rest))
    BY <1>6 DEF DiscardCall
  <2> QED
    BY <1>2, <1>6, <2>1 DEF DiscardCall
<1>7. CASE GcCall(p)
  <2>1. PICK r \in Orphans : Enter(p, DiscardFrame(r, Orphans \ {r}))
    BY <1>7 DEF GcCall
  <2>2. r \in Runs
    BY DEF Orphans
  <2> QED
    BY <1>2, <1>7, <2>1, <2>2 DEF GcCall
<1> QED
  BY <1>3, <1>4, <1>5, <1>6, <1>7 DEF Call

\* The agent, the user and the reviewer, who do not wait for the lock: an edit
\* behind the back of a process that has pinned its tree is late, a deletion is
\* external, a commit is the agent's.
LEMMA EnvironmentSound ==
  ASSUME DiskInv, ApplyInv, DiskTypeOK, FrameTypeOK, NEW r \in Runs, Environment(r)
  PROVE  DiskInv' /\ ForeignKept
<1>0. ASSUME NEW q \in Procs
      PROVE  frame[q].pc # "idle" => frame[q].run \in Runs /\ Run(q) = frame[q].run
  BY DEF FrameTypeOK, Run
<1>1. CASE AgentEdit(r)
  <2>1. PICK c \in Contents : dir' = [dir EXCEPT ![r] = c] /\ work' = [work EXCEPT ![r] = c]
    BY <1>1 DEF AgentEdit
  <2>2. /\ rec[r].status # "none" /\ dir[r] # None /\ dir[r] # Wreck
        /\ rec' = rec /\ admin' = admin /\ branch' = branch /\ archive' = archive /\ frame' = frame
        /\ stray' = stray
    BY <1>1 DEF AgentEdit
  <2>3. dir'[r] = c /\ work'[r] = c /\ c # None /\ c # Wreck
    BY <2>1, ConstantsAssumption DEF DiskTypeOK
  <2>4. /\ fate'[r] \in {fate[r], "late"}
        /\ \A q \in Procs : Run(q) = r /\ Committed(q) => fate'[r] = "late"
    BY <1>1 DEF AgentEdit, DiskTypeOK
  <2>5. OthersAlone(r)
    BY <1>1, <2>1, <2>2 DEF AgentEdit, OthersAlone, DiskTypeOK
  <2>6. RunKept(r)'
    BY <2>2, <2>3 DEF DiskInv, RunKept
  <2>7. ASSUME NEW q \in Procs PROVE Sound(frame[q])'
    <3>1. Sound(frame[q]) /\ frame'[q] = frame[q]
      BY <2>2 DEF DiskInv
    <3>2. CASE frame[q].pc = "idle"
      BY <3>1, <3>2 DEF Sound, OpenPc, AppliedPc
    <3>3. CASE frame[q].pc # "idle" /\ frame[q].run # r
      <4>1. frame[q].run \in Runs \ {r}
        BY <1>0, <3>3
      <4> QED
        BY <2>2, <2>5, <3>1, <4>1 DEF Sound, OthersAlone
    <3>4. CASE frame[q].pc # "idle" /\ frame[q].run = r
      <4>1. Committed(q) => fate'[r] = "late"
        BY <1>0, <2>4, <3>4
      <4>2. frame[q].pc \notin {"absent", "branch", "final"}
        BY <2>2, <3>1, <3>4 DEF Sound
      <4> QED
        BY <2>2, <2>3, <3>1, <3>4, <4>1, <4>2 DEF Sound, Committed, OpenPc, AppliedPc
    <3> QED
      BY <3>2, <3>3, <3>4
  <2> QED
    BY <2>2, <2>5, <2>6, <2>7, OthersKept DEF DiskInv, ForeignKept
<1>2. CASE AgentCommit(r)
  <2>1. /\ rec[r].status # "none" /\ dir[r] # None
        /\ rec' = rec /\ dir' = dir /\ admin' = admin /\ archive' = archive /\ frame' = frame
        /\ work' = work /\ fate' = fate /\ stray' = stray
    BY <1>2 DEF AgentCommit, GitWorks, ghosts
  <2>2. /\ branch'[r] = branch[r] \/ branch'[r].by = "agent"
        /\ \A q \in Runs \ {r} : branch'[q] = branch[q]
    <3> DEFINE c == [tree |-> dir[r], by |-> "agent"]
    <3>1. c.by = "agent"
      OBVIOUS
    <3>2. SetHead(r, c)
      BY <1>2 DEF AgentCommit
    <3> HIDE DEF c
    <3> QED
      BY <3>1, <3>2, SetHeadParts
  <2>3. OthersAlone(r)
    BY <2>1, <2>2 DEF OthersAlone
  <2>4. RunKept(r)'
    BY <2>1, <2>2 DEF DiskInv, RunKept, WorkIsKept
  <2>5. ASSUME NEW q \in Procs PROVE Sound(frame[q])'
    <3>1. Sound(frame[q]) /\ frame'[q] = frame[q]
      BY <2>1 DEF DiskInv
    <3>2. CASE frame[q].pc = "idle"
      BY <3>1, <3>2 DEF Sound, OpenPc, AppliedPc
    <3>3. CASE frame[q].pc # "idle" /\ frame[q].run # r
      <4>1. frame[q].run \in Runs \ {r}
        BY <1>0, <3>3
      <4> QED
        BY <2>1, <2>3, <3>1, <4>1 DEF Sound, OthersAlone
    <3>4. CASE frame[q].pc # "idle" /\ frame[q].run = r
      <4>1. frame[q].pc \notin OpenPc
        BY <2>1, <3>1, <3>4 DEF Sound, NoRecord
      <4>2. frame[q].pc \notin {"absent", "branch", "final"}
        BY <2>1, <3>1, <3>4 DEF Sound
      <4> QED
        BY <2>1, <2>2, <3>1, <3>4, <4>1, <4>2 DEF Sound, OpenPc
    <3> QED
      BY <3>2, <3>3, <3>4
  <2>6. ForeignKept
    BY <2>2 DEF ForeignKept
  <2> QED
    BY <2>3, <2>4, <2>5, <2>6, OthersKept DEF DiskInv
<1>3. CASE UserRemove(r)
  <2>1. /\ rec[r].status # "none" /\ dir[r] # None
        /\ rec' = rec /\ admin' = admin /\ branch' = branch /\ archive' = archive /\ frame' = frame
        /\ work' = work /\ stray' = stray
    BY <1>3 DEF UserRemove
  <2>2. dir'[r] = None /\ fate'[r] = "external"
    BY <1>3 DEF UserRemove, DiskTypeOK
  <2>3. OthersAlone(r)
    BY <1>3 DEF UserRemove, OthersAlone, DiskTypeOK
  <2>4. RunKept(r)'
    BY <2>1, <2>2, ConstantsAssumption DEF DiskInv, RunKept
  <2>5. ASSUME NEW q \in Procs PROVE Sound(frame[q])'
    <3>1. Sound(frame[q]) /\ frame'[q] = frame[q]
      BY <2>1 DEF DiskInv
    <3>2. CASE frame[q].pc = "idle"
      BY <3>1, <3>2 DEF Sound, OpenPc, AppliedPc
    <3>3. CASE frame[q].pc # "idle" /\ frame[q].run # r
      <4>1. frame[q].run \in Runs \ {r}
        BY <1>0, <3>3
      <4> QED
        BY <2>1, <2>3, <3>1, <4>1 DEF Sound, OthersAlone
    <3>4. CASE frame[q].pc # "idle" /\ frame[q].run = r
      <4>1. frame[q].pc \notin OpenPc
        BY <2>1, <3>1, <3>4 DEF Sound, NoRecord
      <4> QED
        BY <2>1, <2>2, <3>1, <3>4, <4>1 DEF Sound, OpenPc
    <3> QED
      BY <3>2, <3>3, <3>4
  <2> QED
    BY <2>1, <2>3, <2>4, <2>5, OthersKept DEF DiskInv, ForeignKept
<1>4. CASE WriteReceipt(r)
  BY <1>4 DEF WriteReceipt, DiskInv, Sound, RunKept, WorkIsKept, ForeignKept, ghosts
<1>5. CASE AgentSwitch(r)
  BY <1>5 DEF AgentSwitch, DiskInv, Sound, RunKept, WorkIsKept, ForeignKept, ghosts
<1> QED
  BY <1>1, <1>2, <1>3, <1>4, <1>5 DEF Environment

\* Every step keeps the invariant and every commit of the agent.
LEMMA DiskInvStep ==
  DiskInv /\ ApplyInv /\ DiskTypeOK /\ FrameTypeOK /\ [Next]_vars => DiskInv' /\ ForeignKept
<1> SUFFICES ASSUME DiskInv, ApplyInv, DiskTypeOK, FrameTypeOK, [Next]_vars
             PROVE  DiskInv' /\ ForeignKept
  OBVIOUS
<1>1. CASE UNCHANGED vars
  BY <1>1 DEF vars, disk, ghosts, DiskInv, Sound, RunKept, WorkIsKept, ForeignKept
<1>2. ASSUME NEW p \in Procs, Step(p) PROVE DiskInv' /\ ForeignKept
  <2>1. CASE ApplyStep(p)
    BY <2>1, ApplyPrepares, ApplyCommits, ApplyEnds DEF ApplyStep
  <2>2. CASE DiscardStep(p)
    BY <2>2, DiscardSaves, DiscardRemoves DEF DiscardStep
  <2>3. CASE Abort(p)
    <3>1. ~At(p, "idle") /\ Return(p) /\ KeepRuns
      BY <2>3 DEF Abort, disk, KeepRuns
    <3> QED
      BY <3>1, ReturnSound, StillStep
  <2> QED
    BY <1>2, <2>1, <2>2, <2>3, OpenSteps, DiffSteps DEF Step
<1> QED
  BY <1>1, <1>2, CallsSound, EnvironmentSound DEF Next

\* The inductive invariant of what is on disk.
LEMMA DiskInvariant == Spec => []DiskInv
<1>1. Init => DiskInv
  BY IdleFrameType, ConstantsAssumption DEF Init, DiskInv, Sound, OpenPc, AppliedPc, RunKept, WorkIsKept, NoRecord
<1> QED
  BY <1>1, DiskInvStep, WorkspaceInvariant, PTL DEF Spec

\* The commit of an applied run is never deleted or rewound by jacu: unless Apply
\* made it on a HEAD that had left the run's branch, it stays on that branch, or
\* the agent has committed there (apply.go, discard.go, gitx.go).
THEOREM AppliedStays == Spec => []AppliedStaysOnBranch
<1>1. DiskInv => AppliedStaysOnBranch
  BY DEF DiskInv, RunKept, AppliedStaysOnBranch
<1> QED
  BY <1>1, DiskInvariant, PTL

\* A run whose record says discarded has no directory, no metadata and no branch
\* left, wherever earlier attempts to discard it died (discard.go).
THEOREM DiscardedGone == Spec => []DiscardedIsGone
<1>1. DiskInv => DiscardedIsGone
  BY DEF DiskInv, RunKept, DiscardedIsGone
<1> QED
  BY <1>1, DiskInvariant, PTL

\* Once jacu has removed a worktree, the agent's last tree is the base, archived
\* or applied, unless an edit came after jacu's last look, a removal was torn or
\* somebody else deleted the directory (apply.go, discard.go).
THEOREM WorkKept == Spec => []NoWorkLost
<1>1. DiskInv => NoWorkLost
  BY DEF DiskInv, RunKept, NoWorkLost
<1> QED
  BY <1>1, DiskInvariant, PTL

\* The archive that a record names is there whenever a discard has removed the
\* worktree, so validateArchiveReference never refuses a retry (discard.go).
THEOREM ArchiveHolds == Spec => []ArchiveReferenceHolds
<1>1. DiskInv => ArchiveReferenceHolds
  BY DEF DiskInv, RunKept, ArchiveReferenceHolds
<1> QED
  BY <1>1, DiskInvariant, PTL

\* Apply and its rollback never overwrite a commit that somebody else put on the
\* branch; only a discard deletes it, once the worktree is gone (gitx CommitTree
\* and UpdateHeadCAS).
THEOREM ForeignSurvives == Spec => ForeignCommitsSurvive
<1>1. DiskInv /\ ApplyInv /\ DiskTypeOK /\ FrameTypeOK /\ [Next]_vars => [ForeignKept]_branch
  BY DiskInvStep
<1> QED
  BY <1>1, DiskInvariant, WorkspaceInvariant, PTL DEF Spec, ForeignCommitsSurvive, ForeignKept

----------------------------------------------------------------------------
(* GC *)

\* A collection that no user asked for by name works on runs whose worktree is
\* gone, and nothing brings a worktree back while it holds the lock.
CollectFrame(f) ==
  f.pc \in DiscardPc =>
    /\ f.pc \in {"absent", "refused", "branch", "final"} /\ dir[f.run] = None
    /\ \A r \in f.todo : dir[r] = None

Collecting == \A p \in Procs : CollectFrame(frame[p])

\* Only one process is inside a call.
LEMMA OnlyMineCollects ==
  ASSUME FrameTypeOK, NEW p \in Procs, ~At(p, "idle") \/ lock = NoProc,
         \A q \in Procs \ {p} : frame'[q] = frame[q], CollectFrame(frame[p])'
  PROVE  Collecting'
<1> SUFFICES ASSUME NEW q \in Procs, q # p PROVE CollectFrame(frame[q])'
  BY DEF Collecting
<1>1. frame[q].pc = "idle" /\ frame'[q] = frame[q]
  BY ConstantsAssumption DEF FrameTypeOK, At
<1> QED
  BY <1>1 DEF CollectFrame, DiscardPc

\* A step that leaves or stays outside of discarding.
LEMMA OutsideDiscard ==
  ASSUME FrameTypeOK, NEW p \in Procs, ~At(p, "idle") \/ lock = NoProc, NEW f,
         f.pc \notin DiscardPc, frame' = [frame EXCEPT ![p] = f]
  PROVE  Collecting'
<1>1. frame'[p] = f /\ \A q \in Procs \ {p} : frame'[q] = frame[q]
  BY DEF FrameTypeOK
<1>2. CollectFrame(frame[p])'
  BY <1>1 DEF CollectFrame
<1> QED
  BY <1>1, <1>2, OnlyMineCollects

\* The next frame of a step of Open, WorkspaceDiff or Apply.
LEMMA OtherSteps ==
  ASSUME FrameTypeOK, NEW p \in Procs, OpenStep(p) \/ DiffSave(p) \/ ApplyStep(p) \/ Abort(p)
  PROVE  Collecting'
<1>0. frame[p] \in Frame /\ frame \in [Procs -> Frame]
  BY DEF FrameTypeOK
<1>1. ASSUME ~At(p, "idle"), Return(p) PROVE Collecting'
  <2>1. IdleFrame.pc \notin DiscardPc
    BY IdleFrameType DEF DiscardPc
  <2> QED
    BY <1>1, <2>1, OutsideDiscard DEF Return
<1>2. ASSUME ~At(p, "idle"), NEW l, l \notin DiscardPc, Goto(p, l) PROVE Collecting'
  <2> DEFINE f == [frame[p] EXCEPT !.pc = l]
  <2>1. f.pc = l /\ frame' = [frame EXCEPT ![p] = f]
    BY <1>0, <1>2 DEF Goto, Frame
  <2> HIDE DEF f
  <2> QED
    BY <1>2, <2>1, OutsideDiscard
<1>3. CASE Abort(p) \/ DiffSave(p)
  BY <1>1, <1>3 DEF Abort, DiffSave, At
<1>4. CASE OpenStep(p)
  <2>1. CASE OpenSave(p) \/ OpenCleanup(p)
    BY <1>1, <2>1 DEF OpenSave, OpenCleanup, At
  <2>2. CASE OpenBranch(p) \/ OpenWorktree(p) \/ OpenLock(p) \/ OpenFail(p)
    <3>1. ~At(p, "idle")
      BY <2>2 DEF OpenBranch, OpenWorktree, OpenLock, OpenFail, At
    <3>2. \E l \in {"open_worktree", "open_lock", "open_save", "open_cleanup"} : Goto(p, l)
      BY <2>2 DEF OpenBranch, OpenWorktree, OpenLock, OpenFail
    <3> QED
      BY <1>2, <3>1, <3>2 DEF DiscardPc
  <2> QED
    BY <1>4, <2>1, <2>2 DEF OpenStep
<1>5. CASE ApplyStep(p)
  <2>0. ~At(p, "idle")
    BY <1>5 DEF ApplyStep, ApplyVerify, ApplyHead, ApplyStage, ApplyReceipt, ApplyCommit,
       ApplyCommitCut, ApplySave, ApplySaveFail, ApplyRollback, ApplyIntegrate, ApplyDeliver,
       ApplyUnlock, ApplyRemove, At
  <2>1. CASE Return(p)
    BY <1>1, <2>0, <2>1
  <2>2. CASE \E l \in {"stage", "commit", "rollback", "integrate", "deliver", "apply_unlock", "apply_remove"} :
               Goto(p, l)
    BY <1>2, <2>0, <2>2 DEF DiscardPc
  <2>3. CASE ApplyVerify(p)
    <3>1. PICK v : frame' = [frame EXCEPT ![p].pc = "head", ![p].verdict = v]
      BY <2>3 DEF ApplyVerify
    <3> DEFINE f == [frame[p] EXCEPT !.pc = "head", !.verdict = v]
    <3>2. f.pc = "head" /\ frame' = [frame EXCEPT ![p] = f]
      BY <1>0, <3>1 DEF Frame
    <3> HIDE DEF f
    <3> QED
      BY <2>0, <3>2, OutsideDiscard DEF DiscardPc
  <2>4. CASE ApplyStage(p)
    <3> DEFINE l == IF PolicyPresent THEN "receipt" ELSE "commit"
               f == [frame[p] EXCEPT !.tree = dir[Run(p)], !.pc = l]
    <3>1. frame' = [frame EXCEPT ![p] = f]
      BY <1>0, <2>4 DEF ApplyStage, Frame
    <3>2. f.pc = l /\ l \notin DiscardPc
      BY <1>0 DEF Frame, DiscardPc
    <3> HIDE DEF f, l
    <3> QED
      BY <2>0, <3>1, <3>2, OutsideDiscard
  <2>5. CASE ApplyCommit(p)
    <3> DEFINE c == [Copy(p) EXCEPT !.status = "applied", !.applied = JacuCommit(frame[p].tree)]
               f == [frame[p] EXCEPT !.pc = "save_applied", !.copy = c]
    <3>1. frame' = [frame EXCEPT ![p] = f]
      BY <1>0, <2>5 DEF ApplyCommit, Frame
    <3> HIDE DEF c
    <3>2. f.pc = "save_applied"
      BY <1>0 DEF Frame
    <3> HIDE DEF f
    <3> QED
      BY <2>0, <3>1, <3>2, OutsideDiscard DEF DiscardPc
  <2>6. CASE ApplyHead(p) \/ ApplyReceipt(p) \/ ApplyCommitCut(p) \/ ApplySave(p)
             \/ ApplySaveFail(p) \/ ApplyRollback(p) \/ ApplyIntegrate(p) \/ ApplyDeliver(p)
             \/ ApplyUnlock(p) \/ ApplyRemove(p)
    <3>1. \/ Return(p)
          \/ \E l \in {"stage", "commit", "rollback", "integrate", "deliver", "apply_unlock", "apply_remove"} :
               Goto(p, l)
      BY <2>6 DEF ApplyHead, ApplyReceipt, ApplyCommitCut, ApplySave, ApplySaveFail,
         ApplyRollback, ApplyIntegrate, ApplyDeliver, ApplyUnlock, ApplyRemove
    <3> QED
      BY <2>1, <2>2, <3>1
  <2> QED
    BY <1>5, <2>3, <2>4, <2>5, <2>6 DEF ApplyStep
<1> QED
  BY <1>3, <1>4, <1>5

\* A step of a collection: what it selected is still gone, and what is there it
\* leaves alone.
LEMMA CollectStep ==
  ASSUME Collecting, DiskTypeOK, FrameTypeOK, NEW p \in Procs, DiscardStep(p)
  PROVE  /\ Collecting'
         /\ \A r \in Runs : dir[r] # None => rec'[r] = rec[r] /\ admin'[r] = admin[r]
<1>0. /\ frame[p].pc \in {"absent", "refused", "branch", "final"} /\ dir[Run(p)] = None
      /\ \A r \in frame[p].todo : dir[r] = None
  BY DEF DiscardStep, DiscardFail, DiscardArchive, DiscardRecord, DiscardUnlock, DiscardRemove,
         DiscardTear, DiscardAbsent, DiscardBranch, DiscardFinal, At, DiscardPc,
         Collecting, CollectFrame, Run
<1>1. ~At(p, "idle") /\ frame[p] \in Frame /\ frame \in [Procs -> Frame]
      /\ Run(p) \in Runs
  BY <1>0 DEF At, FrameTypeOK, Run
<1>2. DiscardFail(p) \/ DiscardAbsent(p) \/ DiscardBranch(p) \/ DiscardFinal(p)
  BY <1>0 DEF DiscardStep, DiscardArchive, DiscardRecord, DiscardUnlock, DiscardRemove,
         DiscardTear, At
<1>3. UNCHANGED dir
  BY <1>2 DEF DiscardFail, DiscardAbsent, DiscardBranch, DiscardFinal, disk
<1>4. ASSUME NEW l \in {"branch", "final"}, Goto(p, l) PROVE Collecting'
  <2> DEFINE f == [frame[p] EXCEPT !.pc = l]
  <2>1. f.pc = l /\ f.run = Run(p) /\ f.todo = frame[p].todo /\ frame' = [frame EXCEPT ![p] = f]
    BY <1>1, <1>4 DEF Goto, Frame, Run
  <2> HIDE DEF f
  <2>2. frame'[p] = f /\ \A q \in Procs \ {p} : frame'[q] = frame[q]
    BY <1>1, <2>1
  <2>3. CollectFrame(frame[p])'
    BY <1>0, <1>3, <2>1, <2>2 DEF CollectFrame
  <2> QED
    BY <1>1, <2>2, <2>3, OnlyMineCollects
<1>5. ASSUME NextRun(p) PROVE Collecting'
  <2>1. CASE Return(p)
    BY <1>1, <2>1, IdleFrameType, OutsideDiscard DEF Return, DiscardPc
  <2>2. CASE \E r \in frame[p].todo :
               frame' = [frame EXCEPT ![p] = DiscardFrame(r, frame[p].todo \ {r})]
    <3>1. PICK r \in frame[p].todo :
            frame' = [frame EXCEPT ![p] = DiscardFrame(r, frame[p].todo \ {r})]
      BY <2>2
    <3> DEFINE f == DiscardFrame(r, frame[p].todo \ {r})
    <3>2. f.pc \in {"absent", "refused"} /\ f.run = r /\ f.todo = frame[p].todo \ {r}
      BY <1>0 DEF DiscardFrame, IdleFrame
    <3> HIDE DEF f
    <3>3. frame'[p] = f /\ \A q \in Procs \ {p} : frame'[q] = frame[q]
      BY <1>1, <3>1 DEF f
    <3>4. CollectFrame(frame[p])'
      BY <1>0, <1>3, <3>2, <3>3 DEF CollectFrame
    <3> QED
      BY <1>1, <3>3, <3>4, OnlyMineCollects
  <2> QED
    BY <1>5, <2>1, <2>2 DEF NextRun
<1>6. Collecting'
  BY <1>2, <1>4, <1>5 DEF DiscardFail, DiscardAbsent, DiscardBranch, DiscardFinal
<1>7. ASSUME NEW r \in Runs, dir[r] # None PROVE rec'[r] = rec[r] /\ admin'[r] = admin[r]
  <2>0. r # Run(p)
    BY <1>0, <1>7
  <2>1. CASE DiscardFail(p)
    BY <2>1 DEF DiscardFail, disk
  <2>2. CASE DiscardAbsent(p)
    BY <1>7, <2>0, <2>2 DEF DiscardAbsent, Prune, DiskTypeOK
  <2>3. CASE DiscardBranch(p)
    BY <1>7, <2>3 DEF DiscardBranch, Prune
  <2>4. CASE DiscardFinal(p)
    BY <2>0, <2>4 DEF DiscardFinal, SaveLocked, DiskTypeOK
  <2> QED
    BY <1>2, <2>1, <2>2, <2>3, <2>4
<1> QED
  BY <1>6, <1>7

\* Every step of a behaviour without named discards keeps what GC relies on.
LEMMA CollectNextKeeps ==
  ASSUME Collecting, DiskTypeOK, FrameTypeOK, [CollectNext]_vars
  PROVE  Collecting'
<1>1. CASE UNCHANGED vars
  BY <1>1 DEF vars, disk, Collecting, CollectFrame
<1>2. ASSUME NEW p \in Procs, Step(p) PROVE Collecting'
  BY <1>2, OtherSteps, CollectStep DEF Step
<1>3. ASSUME NEW p \in Procs, GcCall(p) PROVE Collecting'
  <2>1. PICK r \in Orphans : Enter(p, DiscardFrame(r, Orphans \ {r})) /\ UNCHANGED dir
    BY <1>3 DEF GcCall, disk
  <2> DEFINE f == DiscardFrame(r, Orphans \ {r})
  <2>2. f.pc \in {"absent", "refused"} /\ f.run = r /\ f.todo = Orphans \ {r}
    BY DEF DiscardFrame, IdleFrame, Orphans
  <2> HIDE DEF f
  <2>3. /\ lock = NoProc /\ frame'[p] = f
        /\ \A q \in Procs \ {p} : frame'[q] = frame[q]
    BY <2>1 DEF Enter, FrameTypeOK, f
  <2>4. CollectFrame(frame[p])'
    BY <2>1, <2>2, <2>3 DEF CollectFrame, Orphans
  <2> QED
    BY <2>3, <2>4, OnlyMineCollects
<1>4. ASSUME NEW p \in Procs, NEW r \in Runs, OpenCall(p, r) \/ DiffCall(p, r) \/ ApplyCall(p, r)
      PROVE  Collecting'
  <2>1. ASSUME NEW f, Enter(p, f), f.pc \in {"open_branch", "diff_save", "verify"}
        PROVE  Collecting'
    <3>1. /\ lock = NoProc /\ frame' = [frame EXCEPT ![p] = f]
          /\ f.pc \notin DiscardPc
      BY <2>1 DEF Enter, DiscardPc
    <3> QED
      BY <2>1, <3>1, OutsideDiscard
  <2>2. CASE OpenCall(p, r)
    <3> DEFINE f == [IdleFrame EXCEPT !.pc = "open_branch", !.run = r]
    <3>1. f.pc = "open_branch"
      BY DEF IdleFrame
    <3>2. Enter(p, f)
      BY <2>2 DEF OpenCall, disk
    <3> HIDE DEF f
    <3> QED
      BY <2>1, <3>1, <3>2
  <2>3. CASE DiffCall(p, r)
    <3> DEFINE c == [rec[r] EXCEPT !.status = "reviewed", !.reviewed = dir[r]]
               f == [IdleFrame EXCEPT !.pc = "diff_save", !.run = r, !.copy = c]
    <3>1. Enter(p, f)
      BY <2>3 DEF DiffCall, disk
    <3> HIDE DEF c
    <3>2. f.pc = "diff_save"
      BY DEF IdleFrame
    <3> HIDE DEF f
    <3> QED
      BY <2>1, <3>1, <3>2
  <2>4. CASE ApplyCall(p, r)
    <3> DEFINE f == [IdleFrame EXCEPT !.pc = "verify", !.run = r, !.copy = rec[r]]
    <3>1. f.pc = "verify"
      BY DEF IdleFrame
    <3>2. Enter(p, f)
      BY <2>4 DEF ApplyCall, disk
    <3> HIDE DEF f
    <3> QED
      BY <2>1, <3>1, <3>2
  <2> QED
    BY <1>4, <2>2, <2>3, <2>4
<1>5. ASSUME NEW r \in Runs, Environment(r) PROVE Collecting'
  <2>1. UNCHANGED frame /\ \A q \in Runs : dir[q] = None => dir'[q] = None
    BY <1>5 DEF Environment, AgentEdit, AgentCommit, AgentSwitch, UserRemove, WriteReceipt, DiskTypeOK
  <2>2. \A p \in Procs : frame[p].pc \in DiscardPc => frame[p].run \in Runs /\ frame[p].todo \subseteq Runs
    BY FrameParts DEF FrameTypeOK, DiscardPc
  <2> QED
    BY <2>1, <2>2 DEF Collecting, CollectFrame
<1> QED
  BY <1>1, <1>2, <1>3, <1>4, <1>5 DEF CollectNext

\* GC, when runs are discarded by it alone, leaves a run whose worktree is there
\* its record and git's metadata, for any number of runs and processes and
\* whatever users and agents do to the directories meanwhile (discard.go, GC).
THEOREM HealthyUntouched == CollectSpec => HealthyRunsUntouched
<1>1. CollectSpec => Spec
  <2>1. [CollectNext]_vars => [Next]_vars
    BY DEF CollectNext, Next, Call
  <2> QED
    BY <2>1, PTL DEF CollectSpec, Spec
<1>2. Init => Collecting
  BY IdleFrameType DEF Init, Collecting, CollectFrame, DiscardPc
<1>3. Collecting /\ DiskTypeOK /\ FrameTypeOK /\ [CollectNext]_vars => Collecting'
  BY CollectNextKeeps
<1>4. Collecting /\ DiskTypeOK /\ FrameTypeOK /\ [CollectNext]_vars =>
        [\A p \in Procs : DiscardStep(p) =>
           \A r \in Runs : dir[r] # None => rec'[r] = rec[r] /\ admin'[r] = admin[r]]_vars
  BY CollectStep
<1> QED
  BY <1>1, <1>2, <1>3, <1>4, WorkspaceInvariant, PTL DEF CollectSpec, HealthyRunsUntouched

=============================================================================
