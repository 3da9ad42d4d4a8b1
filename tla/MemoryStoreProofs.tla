------------------------- MODULE MemoryStoreProofs -------------------------
(***************************************************************************)
(* ChainsEnd for every set of threads, processes, titles and inputs. It is *)
(* not inductive by itself: between writing a successor and marking its    *)
(* target, the successor must stay an active record, which it does because *)
(* the call that is about to mark holds the lock and everybody else writes *)
(* records under the lock only.                                            *)
(*                                                                         *)
(* QuietInv is about AGENTS.md: what a call that no other one overlaps has  *)
(* read is still what the store and AGENTS.md hold, up to the edits of     *)
(* users. LookedUp is about the times of creation: a call that lost no     *)
(* race for its record is about to write the time the record has.          *)
(***************************************************************************)
EXTENDS MemoryStore, TLAPS

\* What a call between its two writes relies on.
Marking(c) ==
    /\ lock = c
    /\ call[c].id \in Ids /\ call[c].supersedes \in Ids
    /\ call[c].id # call[c].supersedes
    /\ store[call[c].id] # None /\ store[call[c].id].status = "active"
    /\ store[call[c].supersedes] # None

\* A call that has begun has a record to write, with a time of creation, and does
\* not supersede it.
Begun(c) ==
    /\ call[c].id \in Ids /\ call[c].supersedes # call[c].id
    /\ call[c].created # 0

StoreOK == store \in [Ids -> Record \cup {None}]

CallsOK ==
    /\ call \in [Calls -> Frame]
    /\ \A c \in Calls : call[c].pc # "idle" => Begun(c)
    /\ \A c \in Calls : call[c].pc = "mark" => Marking(c)

ChainInv == StoreOK /\ CallsOK /\ ChainsEnd

LEMMA RecordFields ==
    ASSUME NEW r \in Record
    PROVE  r # None /\ r.by \in Ids \cup {None}
BY NoneAssumption DEF Record

---------------------------------------------------------------------------
(***************************************************************************)
(* The two ways in which the store changes.                                *)
(***************************************************************************)

\* Any record may become active.
LEMMA ActivateKeeps ==
    ASSUME StoreOK, ChainsEnd, NEW id \in Ids, NEW new \in Record, new.status = "active",
           store' = [store EXCEPT ![id] = new]
    PROVE  StoreOK' /\ ChainsEnd'
<1>1. StoreOK'
  BY DEF StoreOK
<1>2. Superseded' = Superseded \ {id}
  BY RecordFields DEF Superseded, StoreOK
<1>3. \A i \in Superseded' : store'[i] = store[i]
  BY <1>2 DEF StoreOK, Superseded
<1>4. \A j \in Ids : store[j] # None => store'[j] # None
  BY RecordFields DEF StoreOK
<1>5. ASSUME NEW i \in Superseded' PROVE store'[i].by # None /\ store'[store'[i].by] # None
  <2>1. i \in Superseded /\ store'[i] = store[i] /\ i \in Ids /\ store[i] \in Record
    BY <1>2, <1>3 DEF Superseded, StoreOK
  <2>2. store[i].by # None /\ store[store[i].by] # None
    BY <2>1 DEF ChainsEnd
  <2>3. store[i].by \in Ids
    BY <2>1, <2>2, RecordFields
  <2> QED BY <2>1, <2>2, <2>3, <1>4
<1>6. ASSUME NEW S \in (SUBSET Superseded') \ {{}}, \A i \in S : store'[i].by \in S PROVE FALSE
  <2>1. S \in (SUBSET Superseded) \ {{}}
    BY <1>2
  <2>2. \A i \in S : store[i].by \in S
    BY <1>3, <1>6
  <2> QED BY <2>1, <2>2 DEF ChainsEnd
<1> QED BY <1>1, <1>5, <1>6 DEF ChainsEnd

\* A record may be marked as superseded by another one that is active.
LEMMA MarkKeeps ==
    ASSUME StoreOK, ChainsEnd, NEW t \in Ids, NEW id \in Ids, id # t,
           store[t] # None, store[id] # None, store[id].status = "active",
           NEW new \in Record, new.status = "superseded", new.by = id,
           store' = [store EXCEPT ![t] = new]
    PROVE  StoreOK' /\ ChainsEnd'
<1>1. StoreOK'
  BY DEF StoreOK
<1>2. Superseded' = Superseded \cup {t}
  BY RecordFields DEF Superseded, StoreOK
<1>3. /\ store'[t] = new
      /\ \A i \in Ids \ {t} : store'[i] = store[i]
      /\ id \notin Superseded'
  BY <1>2 DEF StoreOK, Superseded
<1>4. \A j \in Ids : store[j] # None => store'[j] # None
  BY RecordFields DEF StoreOK
<1>5. ASSUME NEW i \in Superseded' PROVE store'[i].by # None /\ store'[store'[i].by] # None
  <2>1. CASE i = t
    BY <2>1, <1>3, <1>4, NoneAssumption
  <2>2. CASE i # t
    <3>1. i \in Superseded /\ store'[i] = store[i] /\ i \in Ids /\ store[i] \in Record
      BY <2>2, <1>2, <1>3 DEF Superseded, StoreOK
    <3>2. store[i].by # None /\ store[store[i].by] # None
      BY <3>1 DEF ChainsEnd
    <3>3. store[i].by \in Ids
      BY <3>1, <3>2, RecordFields
    <3> QED BY <3>1, <3>2, <3>3, <1>4
  <2> QED BY <2>1, <2>2
<1>6. ASSUME NEW S \in (SUBSET Superseded') \ {{}}, \A i \in S : store'[i].by \in S PROVE FALSE
  <2>1. t \notin S
    BY <1>3, <1>6
  <2>2. S \in (SUBSET Superseded) \ {{}}
    BY <1>2, <2>1
  <2>3. \A i \in S : store[i].by \in S
    BY <1>3, <1>6, <2>1, <2>2 DEF Superseded
  <2> QED BY <2>2, <2>3 DEF ChainsEnd
<1> QED BY <1>1, <1>5, <1>6 DEF ChainsEnd

---------------------------------------------------------------------------
(***************************************************************************)
(* The frames of the calls.                                                *)
(***************************************************************************)

LEMMA IdleFrame == Idle \in Frame /\ Idle.pc = "idle"
BY MemoryAssumption DEF Idle, Frame, File, Region, NoRegion

\* The frame f may take the place of call[c] without a write.
Proper(f) ==
    /\ f \in Frame
    /\ f.pc # "mark"
    /\ f.pc # "idle" => f.id \in Ids /\ f.supersedes # f.id /\ f.created # 0

LEMMA StepKeeps ==
    ASSUME ChainInv, NEW c \in Calls, NEW f, Proper(f), call[c].pc # "mark",
           call' = [call EXCEPT ![c] = f], UNCHANGED <<store, lock>>
    PROVE  ChainInv'
<1>1. StoreOK' /\ ChainsEnd'
  BY DEF ChainInv, StoreOK, ChainsEnd, Superseded
<1>2. CallsOK'
  BY DEF ChainInv, CallsOK, Begun, Marking, Proper
<1> QED BY <1>1, <1>2 DEF ChainInv

LEMMA ReturnKeeps ==
    ASSUME ChainInv, NEW c \in Calls, call[c].pc # "mark", Return(c), UNCHANGED <<store, lock>>
    PROVE  ChainInv'
BY StepKeeps, IdleFrame DEF Return, Proper

---------------------------------------------------------------------------
(***************************************************************************)
(* One lemma per kind of step.                                             *)
(***************************************************************************)

LEMMA InputIds == ASSUME NEW in \in Inputs, ~lint(in) PROVE in.id \in Ids
BY InputsAssumption DEF Input, lint, Ids

\* The history fields are all that other calls notice.
LEMMA DisturbedFrames ==
    ASSUME call \in [Calls -> Frame], NEW x
    PROVE  Disturbed(x) \in [Calls -> Frame] /\ \A d \in Calls :
             /\ Disturbed(x)[d].pc = call[d].pc /\ Disturbed(x)[d].id = call[d].id
             /\ Disturbed(x)[d].supersedes = call[d].supersedes
             /\ Disturbed(x)[d].created = call[d].created
<1>1. ASSUME NEW d \in Calls
      PROVE  /\ [call[d] EXCEPT !.alone = FALSE] \in Frame
             /\ Disturbed(x)[d] \in {call[d], [call[d] EXCEPT !.alone = FALSE]}
  BY DEF Disturbed, Frame
<1>2. Disturbed(x) \in [Calls -> Frame]
  BY <1>1 DEF Disturbed
<1> QED BY <1>1, <1>2 DEF Frame

\* A new frame is a proper one, whatever the history fields record.
LEMMA BeginKeeps ==
    ASSUME ChainInv, clock \in 0..MaxCalls, NEW c \in Calls,
           NEW f \in Frame, f.pc # "mark", f.id \in Ids, f.supersedes # f.id, f.created # 0,
           Begin(c, f)
    PROVE  ChainInv'
<1> DEFINE g == [f EXCEPT !.alone = Quiet,
                          !.agreed = agents.region = Managed(ActiveConventions)]
<1>1. Quiet \in BOOLEAN
      /\ (agents.region = Managed(ActiveConventions)) \in BOOLEAN
  BY DEF Quiet
<1>2. g \in Frame /\ g.pc = f.pc /\ g.id = f.id /\ g.supersedes = f.supersedes
      /\ g.created = f.created
  BY <1>1 DEF Frame
<1>3. Disturbed(c) \in [Calls -> Frame] /\ \A d \in Calls :
        /\ Disturbed(c)[d].pc = call[d].pc /\ Disturbed(c)[d].id = call[d].id
        /\ Disturbed(c)[d].supersedes = call[d].supersedes
        /\ Disturbed(c)[d].created = call[d].created
  BY DisturbedFrames DEF ChainInv, CallsOK
<1>4. /\ call' = [Disturbed(c) EXCEPT ![c] = g]
      /\ UNCHANGED <<store, lock>>
  BY DEF Begin
<1>5. StoreOK' /\ ChainsEnd'
  BY <1>4 DEF ChainInv, StoreOK, ChainsEnd, Superseded
<1> HIDE DEF g
<1>6. CallsOK'
  BY <1>2, <1>3, <1>4 DEF ChainInv, CallsOK, Begun, Marking
<1> QED BY <1>5, <1>6 DEF ChainInv

LEMMA SaveHandlerKeeps ==
    ASSUME ChainInv, clock \in 0..MaxCalls, NEW c \in Calls, saveHandler(c)
    PROVE  ChainInv'
<1>1. PICK in \in Inputs :
        /\ ~lint(in)
        /\ in.supersedes # in.id
        /\ Begin(c, [Idle EXCEPT !.pc = "get", !.op = "save", !.id = in.id, !.source = in.source,
                                 !.supersedes = in.supersedes, !.created = clock + 1])
  BY DEF saveHandler
<1> DEFINE f == [Idle EXCEPT !.pc = "get", !.op = "save", !.id = in.id, !.source = in.source,
                             !.supersedes = in.supersedes, !.created = clock + 1]
<1>2. in.id \in Ids /\ in.source \in {"human", "derived"} /\ in.supersedes \in Ids \cup {None}
  BY <1>1, InputIds, InputsAssumption DEF lint, Input
<1>3. clock + 1 \in 0..MaxCalls /\ clock + 1 # 0
  BY <1>1, MemoryAssumption DEF Begin
<1>4. f \in Frame /\ f.pc = "get" /\ f.id = in.id /\ f.supersedes = in.supersedes /\ f.created # 0
  BY <1>2, <1>3, IdleFrame DEF Frame
<1> HIDE DEF f
<1> QED BY <1>1, <1>2, <1>4, BeginKeeps DEF f

LEMMA PromoteKeeps ==
    ASSUME ChainInv, clock \in 0..MaxCalls, NEW c \in Calls, PromoteDerivedToConvention(c)
    PROVE  ChainInv'
<1>1. PICK id \in Ids :
        /\ store[id] # None
        /\ id.kind # "convention" /\ id.project # "global"
        /\ Begin(c, [Idle EXCEPT !.pc = "check", !.op = "promote", !.id = Successor(id),
                                 !.source = store[id].source, !.supersedes = id,
                                 !.created = clock + 1])
  BY DEF PromoteDerivedToConvention
<1> DEFINE f == [Idle EXCEPT !.pc = "check", !.op = "promote", !.id = Successor(id),
                             !.source = store[id].source, !.supersedes = id,
                             !.created = clock + 1]
<1>2. Successor(id) \in Ids /\ Successor(id) # id
  BY <1>1 DEF Successor, Ids, validKind
<1>3. store[id].source \in {"human", "derived"}
  BY <1>1 DEF ChainInv, StoreOK, Record
<1>4. clock + 1 \in 0..MaxCalls /\ clock + 1 # 0
  BY <1>1, MemoryAssumption DEF Begin
<1>5. f \in Frame /\ f.pc = "check" /\ f.id = Successor(id) /\ f.supersedes = id /\ f.created # 0
  BY <1>2, <1>3, <1>4, IdleFrame DEF Frame
<1> HIDE DEF f
<1> QED BY <1>1, <1>2, <1>5, BeginKeeps DEF f

FilesOK == agents \in File /\ clock \in 0..MaxCalls

\* The steps of a call that read.
LEMMA ReadKeeps ==
    ASSUME ChainInv, FilesOK, NEW c \in Calls,
           \/ Get(c) \/ PromoteCheck(c) \/ SearchList(c) \/ SearchRead(c) \/ SyncAgentsFile(c)
    PROVE  ChainInv'
<1>0. call[c] \in Frame /\ call \in [Calls -> Frame] /\ (call[c].pc # "idle" => Begun(c))
  BY DEF ChainInv, CallsOK
<1>1. CASE Get(c)
  <2>1. PICK hit \in readRecordRoot(call[c].id) :
          call' = [call EXCEPT ![c].pc = "save",
                               ![c].created = IF hit THEN store[call[c].id].created ELSE @]
    BY <1>1 DEF Get
  <2> DEFINE t == IF hit THEN store[call[c].id].created ELSE call[c].created
             f == [call[c] EXCEPT !.pc = "save", !.created = t]
  <2>2. hit => store[call[c].id] # None
    BY DEF readRecordRoot
  <2>3. call[c].id \in Ids
    BY <1>0, <1>1 DEF Get, Begun
  <2>4. t \in 0..MaxCalls /\ t # 0
    <3>1. CASE hit
      <4>1. store[call[c].id] \in Record
        BY <2>2, <2>3, <3>1 DEF ChainInv, StoreOK
      <4>2. store[call[c].id].created \in 1..MaxCalls
        BY <4>1 DEF Record
      <4> QED BY <3>1, <4>2, MemoryAssumption
    <3>2. CASE ~hit
      BY <1>0, <1>1, <3>2 DEF Frame, Begun, Get
    <3> QED BY <3>1, <3>2
  <2>5. call' = [call EXCEPT ![c] = f]
    BY <1>0, <2>1 DEF Frame
  <2>6. Proper(f)
    BY <1>0, <1>1, <2>4 DEF Proper, Frame, Begun, Get
  <2> HIDE DEF f
  <2> QED BY <1>1, <2>5, <2>6, StepKeeps DEF Get
<1>2. CASE PromoteCheck(c)
  <2>1. CASE Return(c)
    BY <1>2, <2>1, ReturnKeeps DEF PromoteCheck
  <2>2. CASE call' = [call EXCEPT ![c].pc = "save"]
    <3> DEFINE f == [call[c] EXCEPT !.pc = "save"]
    <3>1. call' = [call EXCEPT ![c] = f]
      BY <1>0, <2>2 DEF Frame
    <3>2. Proper(f)
      BY <1>0, <1>2 DEF Proper, Frame, Begun, PromoteCheck
    <3> HIDE DEF f
    <3> QED BY <1>2, <3>1, <3>2, StepKeeps DEF PromoteCheck
  <2> QED BY <1>2, <2>1, <2>2 DEF PromoteCheck
<1>3. CASE SearchList(c)
  <2> DEFINE found == {i \in Ids : store[i] # None /\ i.project = Project}
             f == [call[c] EXCEPT !.pc = "read", !.seen = {}, !.names = found]
  <2>1. call' = [call EXCEPT ![c] = f]
    BY <1>0, <1>3 DEF Frame, SearchList
  <2>2. found \in SUBSET Ids
    OBVIOUS
  <2> HIDE DEF found
  <2>3. Proper(f)
    BY <1>0, <1>3, <2>2 DEF Proper, Frame, Begun, SearchList
  <2> HIDE DEF f
  <2> QED BY <1>3, <2>1, <2>3, StepKeeps DEF SearchList
<1>4. CASE SearchRead(c)
  <2>1. PICK i \in call[c].names : \E hit \in readRecordRoot(i) :
          call' = [call EXCEPT ![c].names = @ \ {i},
                               ![c].seen = IF hit /\ i \in ActiveConventions THEN @ \cup {i} ELSE @]
    BY <1>4 DEF SearchRead
  <2>2. PICK hit \in readRecordRoot(i) :
          call' = [call EXCEPT ![c].names = @ \ {i},
                               ![c].seen = IF hit /\ i \in ActiveConventions THEN @ \cup {i} ELSE @]
    BY <2>1
  <2> DEFINE n == call[c].names \ {i}
             z == IF hit /\ i \in ActiveConventions THEN call[c].seen \cup {i} ELSE call[c].seen
             f == [call[c] EXCEPT !.names = n, !.seen = z]
  <2>3. n \in SUBSET Ids /\ z \in SUBSET Ids
    BY <1>0 DEF Frame
  <2>4. call' = [call EXCEPT ![c] = f]
    BY <1>0, <2>2 DEF Frame
  <2> HIDE DEF n, z
  <2>5. Proper(f)
    BY <1>0, <1>4, <2>3 DEF Proper, Frame, Begun, SearchRead
  <2> HIDE DEF f
  <2> QED BY <1>4, <2>4, <2>5, StepKeeps DEF SearchRead
<1>5. CASE SyncAgentsFile(c)
  <2>1. CASE Return(c)
    BY <1>5, <2>1, ReturnKeeps DEF SyncAgentsFile
  <2>2. CASE call' = [call EXCEPT ![c].pc = "replace", ![c].file = agents]
    <3> DEFINE f == [call[c] EXCEPT !.pc = "replace", !.file = agents]
    <3>1. call' = [call EXCEPT ![c] = f]
      BY <1>0, <2>2 DEF Frame
    <3>2. Proper(f)
      BY <1>0, <1>5 DEF Proper, Frame, Begun, SyncAgentsFile, FilesOK
    <3> HIDE DEF f
    <3> QED BY <1>5, <3>1, <3>2, StepKeeps DEF SyncAgentsFile
  <2> QED BY <1>5, <2>1, <2>2 DEF SyncAgentsFile
<1> QED BY <1>1, <1>2, <1>3, <1>4, <1>5

---------------------------------------------------------------------------
(***************************************************************************)
(* The steps of a call that write.                                         *)
(***************************************************************************)

\* While the lock is free nobody is between two writes.
LEMMA FreeLock == ASSUME ChainInv, lock = None PROVE \A d \in Calls : call[d].pc # "mark"
BY MemoryAssumption DEF ChainInv, CallsOK, Marking

LEMMA SavedRecord ==
    ASSUME ChainInv, NEW c \in Calls, call[c].pc = "save"
    PROVE  \E new \in Record : new.status = "active" /\ Saved(c) = [store EXCEPT ![call[c].id] = new]
<1> DEFINE new == [source |-> call[c].source, status |-> "active", by |-> None, created |-> call[c].created]
<1>1. call[c] \in Frame /\ Begun(c)
  BY DEF ChainInv, CallsOK
<1>2. new \in Record /\ new.status = "active"
  BY <1>1, MemoryAssumption DEF Frame, Begun, Record
<1> QED BY <1>2 DEF Saved

LEMMA SavedKeeps ==
    ASSUME ChainInv, NEW c \in Calls, call[c].pc = "save", store' = Saved(c)
    PROVE  StoreOK' /\ ChainsEnd' /\ store'[call[c].id] # None
           /\ store'[call[c].id].status = "active"
           /\ \A i \in Ids : store[i] # None => store'[i] # None
<1>1. PICK new \in Record : new.status = "active" /\ Saved(c) = [store EXCEPT ![call[c].id] = new]
  BY SavedRecord
<1>2. call[c].id \in Ids
  BY DEF ChainInv, CallsOK, Begun
<1>3. StoreOK' /\ ChainsEnd'
  BY <1>1, <1>2, ActivateKeeps DEF ChainInv
<1> QED BY <1>1, <1>2, <1>3, RecordFields DEF ChainInv, StoreOK

\* The frames of a step that gives up the lock or never takes it.
LEMMA AfterSaveFrames ==
    ASSUME ChainInv, NEW c \in Calls, call[c].pc # "idle", AfterSave(c)
    PROVE  \E f : Proper(f) /\ call' = [call EXCEPT ![c] = f]
<1>1. call[c] \in Frame /\ call \in [Calls -> Frame] /\ Begun(c)
  BY DEF ChainInv, CallsOK
<1>2. CASE Return(c)
  BY <1>2, IdleFrame DEF Return, Proper
<1>3. CASE call' = [call EXCEPT ![c].pc = "list"]
  <2> DEFINE f == [call[c] EXCEPT !.pc = "list"]
  <2>1. call' = [call EXCEPT ![c] = f]
    BY <1>1, <1>3 DEF Frame
  <2>2. Proper(f)
    BY <1>1 DEF Proper, Frame, Begun
  <2> QED BY <2>1, <2>2
<1> QED BY <1>2, <1>3 DEF AfterSave

\* Nobody but c is between two writes, and c ends there.
LEMMA WriteFrames ==
    ASSUME ChainInv, NEW c \in Calls, NEW f, Proper(f), call' = [call EXCEPT ![c] = f],
           \A d \in Calls \ {c} : call[d].pc # "mark"
    PROVE  CallsOK'
BY DEF ChainInv, CallsOK, Begun, Marking, Proper

LEMMA SaveKeeps ==
    ASSUME ChainInv, NEW c \in Calls, Save(c)
    PROVE  ChainInv'
<1>1. /\ call[c].pc = "save" /\ lock = None /\ Supersedable(c) /\ store' = Saved(c)
      /\ call[c] \in Frame /\ call \in [Calls -> Frame] /\ Begun(c)
  BY DEF Save, ChainInv, CallsOK
<1>2. /\ StoreOK' /\ ChainsEnd' /\ store'[call[c].id] # None
      /\ store'[call[c].id].status = "active"
      /\ \A i \in Ids : store[i] # None => store'[i] # None
  BY <1>1, SavedKeeps
<1>3. \A d \in Calls : call[d].pc # "mark"
  BY <1>1, FreeLock
<1>4. CASE call[c].supersedes = None
  BY <1>1, <1>2, <1>3, <1>4, AfterSaveFrames, WriteFrames DEF Save, ChainInv
<1>5. CASE call[c].supersedes # None
  <2> DEFINE f == [call[c] EXCEPT !.pc = "mark"]
  <2>1. call' = [call EXCEPT ![c] = f] /\ lock' = c
    BY <1>1, <1>5 DEF Save, Frame
  <2>2. f \in Frame /\ f.id = call[c].id /\ f.supersedes = call[c].supersedes
        /\ f.created = call[c].created
    BY <1>1 DEF Frame
  <2>3. call[c].supersedes \in Ids /\ store[call[c].supersedes] # None
    BY <1>1, <1>5 DEF Supersedable, Frame
  <2> HIDE DEF f
  <2>4. CallsOK'
    BY <1>1, <1>2, <1>3, <2>1, <2>2, <2>3 DEF CallsOK, Begun, Marking, ChainInv
  <2> QED BY <1>2, <2>4 DEF ChainInv
<1> QED BY <1>4, <1>5

LEMMA SaveEndsKeeps ==
    ASSUME ChainInv, NEW c \in Calls, SaveRefused(c) \/ SaveFails(c)
    PROVE  ChainInv'
<1>1. call[c].pc = "save" /\ lock = None /\ Return(c)
  BY DEF SaveRefused, SaveFails
<1>2. CASE UNCHANGED store
  BY <1>1, <1>2, ReturnKeeps DEF SaveRefused, SaveFails
<1>3. CASE store' = Saved(c)
  <2>1. StoreOK' /\ ChainsEnd'
    BY <1>1, <1>3, SavedKeeps
  <2>2. CallsOK'
    BY <1>1, FreeLock, WriteFrames, IdleFrame DEF Return, Proper
  <2> QED BY <2>1, <2>2 DEF ChainInv
<1> QED BY <1>2, <1>3 DEF SaveRefused, SaveFails

\* The call that holds the lock marks its target; no other call is between two writes.
LEMMA MarkStepKeeps ==
    ASSUME ChainInv, NEW c \in Calls, MarkTarget(c) \/ MarkFails(c)
    PROVE  ChainInv'
<1>1. /\ call[c].pc = "mark" /\ Marking(c) /\ call[c] \in Frame
      /\ \A d \in Calls \ {c} : call[d].pc # "mark"
  BY DEF MarkTarget, MarkFails, ChainInv, CallsOK, Marking
<1>2. \E f : Proper(f) /\ call' = [call EXCEPT ![c] = f]
  <2>1. CASE MarkTarget(c)
    BY <1>1, <2>1, AfterSaveFrames DEF MarkTarget
  <2>2. CASE MarkFails(c)
    BY <2>2, IdleFrame DEF MarkFails, Return, Proper
  <2> QED BY <2>1, <2>2
<1>3. CallsOK'
  BY <1>1, <1>2, WriteFrames
<1>4. CASE UNCHANGED store
  BY <1>3, <1>4 DEF ChainInv, StoreOK, ChainsEnd, Superseded
<1>5. CASE store' = Marked(c)
  <2> DEFINE t == call[c].supersedes
             id == call[c].id
             new == [store[t] EXCEPT !.status = "superseded", !.by = id]
  <2>1. /\ t \in Ids /\ id \in Ids /\ id # t /\ store[t] # None /\ store[id] # None
        /\ store[id].status = "active" /\ store \in [Ids -> Record \cup {None}]
    BY <1>1 DEF Marking, ChainInv, StoreOK
  <2>2. new \in Record /\ new.status = "superseded" /\ new.by = id
    BY <2>1 DEF Record
  <2>3. store' = [store EXCEPT ![t] = new]
    BY <1>5, <2>1 DEF Marked
  <2> HIDE DEF t, id, new
  <2>4. StoreOK' /\ ChainsEnd'
    BY <2>1, <2>2, <2>3, MarkKeeps DEF ChainInv
  <2> QED BY <1>3, <2>4 DEF ChainInv
<1> QED BY <1>4, <1>5 DEF MarkTarget, MarkFails

---------------------------------------------------------------------------
(***************************************************************************)
(* The environment, and the theorem.                                       *)
(***************************************************************************)

\* A process that dies gives up its lock; the holder of another one keeps it.
LEMMA CrashKeeps ==
    ASSUME ChainInv, NEW p \in Processes, Crash(p)
    PROVE  ChainInv'
<1>1. StoreOK' /\ ChainsEnd'
  BY DEF Crash, ChainInv, StoreOK, ChainsEnd, Superseded
<1>2. CallsOK'
  <2>1. call' \in [Calls -> Frame]
    BY IdleFrame DEF Crash, ChainInv, CallsOK
  <2>2. ASSUME NEW d \in Calls, call'[d].pc # "idle"
        PROVE  call'[d] = call[d] /\ Home[d] # p
    BY <2>2, IdleFrame DEF Crash
  <2>3. \A d \in Calls : call'[d].pc # "idle" => Begun(d)'
    BY <2>2 DEF ChainInv, CallsOK, Begun
  <2>4. \A d \in Calls : call'[d].pc = "mark" => Marking(d)'
    BY <2>2 DEF ChainInv, CallsOK, Marking, Crash
  <2> QED BY <2>1, <2>3, <2>4 DEF CallsOK
<1> QED BY <1>1, <1>2 DEF ChainInv

LEMMA UserEditKeeps ==
    ASSUME ChainInv, UserEdit
    PROVE  ChainInv'
<1>1. StoreOK' /\ ChainsEnd'
  BY DEF UserEdit, ChainInv, StoreOK, ChainsEnd, Superseded
<1>2. call' \in [Calls -> Frame] /\ \A d \in Calls :
        /\ call'[d].pc = call[d].pc /\ call'[d].id = call[d].id
        /\ call'[d].supersedes = call[d].supersedes
        /\ call'[d].created = call[d].created
  BY DisturbedFrames DEF ChainInv, CallsOK, UserEdit
<1>3. CallsOK'
  BY <1>2 DEF ChainInv, CallsOK, Begun, Marking, UserEdit
<1> QED BY <1>1, <1>3 DEF ChainInv

\* Only two actions change AGENTS.md, and only a new call moves the clock.
LEMMA FilesKept ==
    ASSUME ChainInv, FilesOK, [Next]_vars
    PROVE  FilesOK'
<1>1. ASSUME UNCHANGED <<agents, clock>> PROVE FilesOK'
  BY <1>1 DEF FilesOK
<1>2. ASSUME NEW c \in Calls, NEW f, Begin(c, f) PROVE FilesOK'
  <2>1. clock < MaxCalls /\ clock' = clock + 1 /\ UNCHANGED agents
    BY <1>2 DEF Begin
  <2>2. clock' \in 0..MaxCalls
    BY <2>1, MemoryAssumption DEF FilesOK
  <2> QED BY <2>1, <2>2 DEF FilesOK
<1>3. ASSUME NEW c \in Calls, saveHandler(c) \/ PromoteDerivedToConvention(c) PROVE FilesOK'
  BY <1>2, <1>3 DEF saveHandler, PromoteDerivedToConvention
<1>4. CASE UserEdit
  <2>1. agents.text + 1 \in 0..MaxEdits
    BY <1>4, MemoryAssumption DEF UserEdit, FilesOK, File
  <2> QED BY <1>4, <2>1 DEF UserEdit, FilesOK, File, Region, NoRegion
<1>5. ASSUME NEW c \in Calls, atomicReplace(c) PROVE FilesOK'
  <2>1. call[c].file \in File /\ call[c].seen \in SUBSET Ids
    BY DEF ChainInv, CallsOK, Frame
  <2> QED BY <1>5, <2>1 DEF atomicReplace, Replaced, Managed, FilesOK, File, Region
<1>6. ASSUME NEW c \in Calls, Step(c) PROVE FilesOK'
  <2>1. CASE saveHandler(c) \/ PromoteDerivedToConvention(c)
    BY <1>3, <2>1
  <2>2. CASE atomicReplace(c)
    BY <1>5, <2>2
  <2>3. CASE Get(c) \/ PromoteCheck(c) \/ SearchList(c) \/ SearchRead(c) \/ SyncAgentsFile(c)
    BY <1>1, <2>3 DEF Get, PromoteCheck, SearchList, SearchRead, SyncAgentsFile
  <2>4. CASE Save(c) \/ SaveRefused(c) \/ SaveFails(c) \/ MarkTarget(c) \/ MarkFails(c) \/ ReplaceFails(c)
    BY <1>1, <2>4 DEF Save, SaveRefused, SaveFails, MarkTarget, MarkFails, ReplaceFails
  <2> QED BY <1>6, <2>1, <2>2, <2>3, <2>4 DEF Step
<1>7. ASSUME NEW p \in Processes, Crash(p) PROVE FilesOK'
  BY <1>1, <1>7 DEF Crash
<1> QED BY <1>1, <1>4, <1>6, <1>7 DEF Next, vars

LEMMA NextKeeps ==
    ASSUME ChainInv, FilesOK, [Next]_vars
    PROVE  ChainInv'
<1>1. CASE UNCHANGED vars
  BY <1>1 DEF vars, ChainInv, StoreOK, CallsOK, Begun, Marking, ChainsEnd, Superseded
<1>2. ASSUME NEW c \in Calls, Step(c) PROVE ChainInv'
  <2>1. CASE saveHandler(c)
    BY <2>1, SaveHandlerKeeps DEF FilesOK
  <2>2. CASE PromoteDerivedToConvention(c)
    BY <2>2, PromoteKeeps DEF FilesOK
  <2>3. CASE Get(c) \/ PromoteCheck(c) \/ SearchList(c) \/ SearchRead(c) \/ SyncAgentsFile(c)
    BY <2>3, ReadKeeps
  <2>4. CASE Save(c)
    BY <2>4, SaveKeeps
  <2>5. CASE SaveRefused(c) \/ SaveFails(c)
    BY <2>5, SaveEndsKeeps
  <2>6. CASE MarkTarget(c) \/ MarkFails(c)
    BY <2>6, MarkStepKeeps
  <2>7. CASE atomicReplace(c) \/ ReplaceFails(c)
    BY <2>7, ReturnKeeps DEF atomicReplace, ReplaceFails
  <2> QED BY <1>2, <2>1, <2>2, <2>3, <2>4, <2>5, <2>6, <2>7 DEF Step
<1>3. ASSUME NEW p \in Processes, Crash(p) PROVE ChainInv'
  BY <1>3, CrashKeeps
<1>4. CASE UserEdit
  BY <1>4, UserEditKeeps
<1> QED BY <1>1, <1>2, <1>3, <1>4 DEF Next

LEMMA InitHolds == Init => ChainInv /\ FilesOK
<1> SUFFICES ASSUME Init PROVE ChainInv /\ FilesOK
  OBVIOUS
<1>1. StoreOK /\ Superseded = {}
  BY DEF Init, StoreOK, Superseded
<1>2. ChainsEnd
  BY <1>1 DEF ChainsEnd
<1>3. CallsOK
  BY IdleFrame DEF Init, CallsOK
<1>4. FilesOK
  BY MemoryAssumption DEF Init, FilesOK, File, Region, NoRegion
<1> QED BY <1>1, <1>2, <1>3, <1>4 DEF ChainInv

\* Following superseded_by from any record always leads to an active one, for
\* every number of threads, processes and titles, with promotions and crashes
\* between the two writes of a save (store.go:163).
THEOREM ChainsHold == Spec => []ChainsEnd
<1>1. Init => ChainInv /\ FilesOK
  BY InitHolds
<1>2. ChainInv /\ FilesOK /\ [Next]_vars => (ChainInv /\ FilesOK)'
  BY NextKeeps, FilesKept
<1>3. ChainInv => ChainsEnd
  BY DEF ChainInv
<1> QED BY <1>1, <1>2, <1>3, PTL DEF Spec

---------------------------------------------------------------------------
(***************************************************************************)
(* What a call knows as long as nothing else happens.                      *)
(***************************************************************************)

\* A call that nothing has disturbed is the only one in flight.
OnlyCall == \A c, d \in Calls : call[c].alone /\ c # d => call[d].pc = "idle"

\* What such a call has read still holds: the conventions it has seen, and
\* AGENTS.md as long as no convention can have changed.
Knows(c) ==
    call[c].alone =>
        /\ call[c].pc = "read" => call[c].seen = ActiveConventions \ call[c].names
        /\ call[c].pc = "replace" => call[c].seen = ActiveConventions
        /\ call[c].agreed /\ call[c].pc \in {"get", "check", "save"} =>
             agents.region = Managed(ActiveConventions)
        /\ call[c].agreed /\ call[c].pc = "mark" /\ call[c].id.project = "global" =>
             agents.region = Managed(ActiveConventions)

\* A record is superseded by one of its own scope.
SameScope(c) == call[c].pc = "mark" => call[c].supersedes.project = call[c].id.project

QuietInv == OnlyCall /\ \A c \in Calls : Knows(c) /\ SameScope(c)

LEMMA IdleHistory == Idle.pc = "idle" /\ Idle.alone = FALSE
BY DEF Idle

\* A step of one call: the others are not alone, so only its own frame counts.
LEMMA OwnStep ==
    ASSUME ChainInv, QuietInv, NEW c \in Calls, NEW f, call[c].pc # "idle",
           call' = [call EXCEPT ![c] = f], f.alone => call[c].alone, Knows(c)', SameScope(c)'
    PROVE  QuietInv'
<1>1. call'[c] = f /\ \A d \in Calls \ {c} : call'[d] = call[d] /\ ~call[d].alone
  BY DEF ChainInv, CallsOK, QuietInv, OnlyCall
<1>2. OnlyCall'
  BY <1>1 DEF QuietInv, OnlyCall
<1>3. \A d \in Calls \ {c} : Knows(d)' /\ SameScope(d)'
  BY <1>1 DEF QuietInv, Knows, SameScope
<1> QED BY <1>2, <1>3 DEF QuietInv

LEMMA OwnReturn ==
    ASSUME ChainInv, QuietInv, NEW c \in Calls, call[c].pc # "idle", Return(c)
    PROVE  QuietInv'
<1>1. call' = [call EXCEPT ![c] = Idle] /\ call'[c] = Idle
  BY DEF Return, ChainInv, CallsOK
<1>2. Knows(c)' /\ SameScope(c)'
  BY <1>1, IdleHistory DEF Knows, SameScope
<1> QED BY <1>1, <1>2, OwnStep, IdleHistory

\* Nothing is replaced under a call that is alone and only reads.
LEMMA AloneReads ==
    ASSUME ChainInv, QuietInv, NEW c \in Calls, call[c].alone, call[c].pc \notin {"save", "mark"},
           NEW i, NEW hit \in readRecordRoot(i)
    PROVE  hit = (store[i] # None)
<1>1. \A d \in Calls : call[d].pc \notin {"save", "mark"}
  BY DEF QuietInv, OnlyCall
<1>2. ~BeingReplaced(i)
  BY <1>1 DEF BeingReplaced
<1> QED BY <1>2 DEF readRecordRoot

\* Writing a record that is no convention leaves the active conventions.
LEMMA SameConventions ==
    ASSUME StoreOK, NEW i \in Ids, i.kind # "convention", NEW new,
           store' = [store EXCEPT ![i] = new]
    PROVE  ActiveConventions' = ActiveConventions
<1>1. \A j \in Ids : j # i => store'[j] = store[j]
  BY DEF StoreOK
<1> QED BY <1>1 DEF ActiveConventions

\* The conventions all belong to the project.
LEMMA ConventionScope ==
    /\ \A i \in Ids : i.project = "global" => i.kind # "convention"
    /\ \A i \in ActiveConventions : i \in Ids /\ store[i] # None /\ i.project = Project
BY DEF Ids, Scopes, ActiveConventions

LEMMA BeginQuiet ==
    ASSUME ChainInv, QuietInv, NEW c \in Calls, NEW f \in Frame, f.pc \in {"get", "check"}, Begin(c, f)
    PROVE  QuietInv'
<1> DEFINE g == [f EXCEPT !.alone = Quiet,
                          !.agreed = agents.region = Managed(ActiveConventions)]
<1>1. /\ g.pc = f.pc /\ g.id = f.id /\ g.alone = Quiet
      /\ g.agreed = (agents.region = Managed(ActiveConventions))
  BY DEF Frame
<1>2. call' = [Disturbed(c) EXCEPT ![c] = g] /\ UNCHANGED <<store, agents>>
  BY DEF Begin
<1> HIDE DEF g
<1>3. ASSUME NEW d \in Calls, d # c
      PROVE  call'[d].pc = call[d].pc /\ call'[d].alone = FALSE
             /\ call'[d].id = call[d].id /\ call'[d].supersedes = call[d].supersedes
  <2>1. call'[d] = [call[d] EXCEPT !.alone = FALSE]
    BY <1>2, <1>3 DEF Disturbed
  <2> QED BY <2>1 DEF ChainInv, CallsOK, Frame
<1>4. call'[c] = g
  BY <1>2 DEF Disturbed
<1>5. OnlyCall'
  BY <1>1, <1>3, <1>4 DEF OnlyCall, Quiet
<1>6. ASSUME NEW d \in Calls, d # c PROVE Knows(d)' /\ SameScope(d)'
  BY <1>3, <1>6 DEF Knows, SameScope, QuietInv
<1>7. Knows(c)' /\ SameScope(c)'
  BY <1>1, <1>2, <1>4 DEF Knows, SameScope, ActiveConventions
<1> QED BY <1>5, <1>6, <1>7 DEF QuietInv

LEMMA StartQuiet ==
    ASSUME ChainInv, QuietInv, FilesOK, NEW c \in Calls,
           saveHandler(c) \/ PromoteDerivedToConvention(c)
    PROVE  QuietInv'
<1>1. CASE saveHandler(c)
  <2>1. PICK in \in Inputs :
          /\ ~lint(in)
          /\ Begin(c, [Idle EXCEPT !.pc = "get", !.op = "save", !.id = in.id, !.source = in.source,
                                   !.supersedes = in.supersedes, !.created = clock + 1])
    BY <1>1 DEF saveHandler
  <2> DEFINE f == [Idle EXCEPT !.pc = "get", !.op = "save", !.id = in.id, !.source = in.source,
                               !.supersedes = in.supersedes, !.created = clock + 1]
  <2>2. in.id \in Ids /\ in.source \in {"human", "derived"} /\ in.supersedes \in Ids \cup {None}
    BY <2>1, InputIds, InputsAssumption DEF lint, Input
  <2>3. clock + 1 \in 0..MaxCalls
    BY <2>1, MemoryAssumption DEF Begin, FilesOK
  <2>4. f \in Frame /\ f.pc = "get"
    BY <2>2, <2>3, IdleFrame DEF Frame
  <2> HIDE DEF f
  <2> QED BY <2>1, <2>4, BeginQuiet DEF f
<1>2. CASE PromoteDerivedToConvention(c)
  <2>1. PICK id \in Ids :
          /\ store[id] # None
          /\ id.kind # "convention" /\ id.project # "global"
          /\ Begin(c, [Idle EXCEPT !.pc = "check", !.op = "promote", !.id = Successor(id),
                                   !.source = store[id].source, !.supersedes = id,
                                   !.created = clock + 1])
    BY <1>2 DEF PromoteDerivedToConvention
  <2> DEFINE f == [Idle EXCEPT !.pc = "check", !.op = "promote", !.id = Successor(id),
                               !.source = store[id].source, !.supersedes = id,
                               !.created = clock + 1]
  <2>2. Successor(id) \in Ids
    BY <2>1 DEF Successor, Ids, validKind
  <2>3. store[id].source \in {"human", "derived"}
    BY <2>1 DEF ChainInv, StoreOK, Record
  <2>4. clock + 1 \in 0..MaxCalls
    BY <2>1, MemoryAssumption DEF Begin, FilesOK
  <2>5. f \in Frame /\ f.pc = "check"
    BY <2>2, <2>3, <2>4, IdleFrame DEF Frame
  <2> HIDE DEF f
  <2> QED BY <2>1, <2>5, BeginQuiet DEF f
<1> QED BY <1>1, <1>2

\* The steps of a call that read the store.
LEMMA LookupQuiet ==
    ASSUME ChainInv, QuietInv, NEW c \in Calls, Get(c) \/ PromoteCheck(c)
    PROVE  QuietInv'
<1>0. call[c] \in Frame /\ call \in [Calls -> Frame] /\ Knows(c) /\ UNCHANGED <<store, agents>>
  BY DEF ChainInv, CallsOK, QuietInv, Get, PromoteCheck
<1>1. CASE Get(c)
  <2>1. PICK hit \in readRecordRoot(call[c].id) :
          call' = [call EXCEPT ![c].pc = "save",
                               ![c].created = IF hit THEN store[call[c].id].created ELSE @]
    BY <1>1 DEF Get
  <2> DEFINE t == IF hit THEN store[call[c].id].created ELSE call[c].created
             f == [call[c] EXCEPT !.pc = "save", !.created = t]
  <2>3. call' = [call EXCEPT ![c] = f] /\ call'[c] = f
    BY <1>0, <2>1 DEF Frame
  <2> HIDE DEF t
  <2>5. /\ f.pc = "save" /\ f.created = t /\ f.id = call[c].id /\ f.alone = call[c].alone
        /\ f.agreed = call[c].agreed
    BY <1>0 DEF Frame
  <2> HIDE DEF f
  <2>6. Knows(c)'
    <3>1. ActiveConventions' = ActiveConventions
      BY <1>0 DEF ActiveConventions
    <3>2. call[c].alone /\ call[c].agreed => agents.region = Managed(ActiveConventions)
      BY <1>0, <1>1 DEF Knows, Get
    <3> QED BY <1>0, <2>3, <2>5, <3>1, <3>2 DEF Knows
  <2>7. SameScope(c)'
    BY <2>3, <2>5 DEF SameScope
  <2> QED BY <1>1, <2>3, <2>5, <2>6, <2>7, OwnStep DEF Get
<1>2. CASE PromoteCheck(c)
  <2>1. PICK hit \in readRecordRoot(call[c].id) :
          IF hit THEN Return(c) ELSE call' = [call EXCEPT ![c].pc = "save"]
    BY <1>2 DEF PromoteCheck
  <2>2. CASE Return(c)
    BY <1>2, <2>2, OwnReturn DEF PromoteCheck
  <2>3. CASE ~hit /\ call' = [call EXCEPT ![c].pc = "save"]
    <3> DEFINE f == [call[c] EXCEPT !.pc = "save"]
    <3>1. call' = [call EXCEPT ![c] = f] /\ call'[c] = f
      BY <1>0, <2>3 DEF Frame
    <3>3. /\ f.pc = "save" /\ f.id = call[c].id /\ f.alone = call[c].alone
          /\ f.agreed = call[c].agreed
      BY <1>0 DEF Frame
    <3> HIDE DEF f
    <3>4. Knows(c)'
      BY <1>0, <1>2, <3>1, <3>3 DEF Knows, PromoteCheck, ActiveConventions
    <3>5. SameScope(c)'
      BY <3>1, <3>3 DEF SameScope
    <3> QED BY <1>2, <3>1, <3>3, <3>4, <3>5, OwnStep DEF PromoteCheck
  <2> QED BY <2>1, <2>2, <2>3
<1> QED BY <1>1, <1>2

\* The search of the conventions and the inspection of AGENTS.md.
LEMMA SearchQuiet ==
    ASSUME ChainInv, QuietInv, NEW c \in Calls,
           SearchList(c) \/ SearchRead(c) \/ SyncAgentsFile(c)
    PROVE  QuietInv'
<1>0. call[c] \in Frame /\ call \in [Calls -> Frame] /\ Knows(c) /\ UNCHANGED <<store, agents>>
  BY DEF ChainInv, CallsOK, QuietInv, SearchList, SearchRead, SyncAgentsFile
<1>a. ActiveConventions' = ActiveConventions
  BY <1>0 DEF ActiveConventions
<1>1. CASE SearchList(c)
  <2> DEFINE found == {i \in Ids : store[i] # None /\ i.project = Project}
             f == [call[c] EXCEPT !.pc = "read", !.seen = {}, !.names = found]
  <2>1. call' = [call EXCEPT ![c] = f] /\ call'[c] = f
    BY <1>0, <1>1 DEF Frame, SearchList
  <2>2. ActiveConventions \ found = {}
    BY ConventionScope
  <2> HIDE DEF found
  <2>3. f.pc = "read" /\ f.seen = {} /\ f.names = found /\ f.alone = call[c].alone
    BY <1>0 DEF Frame
  <2> HIDE DEF f
  <2>4. Knows(c)' /\ SameScope(c)'
    BY <1>a, <2>1, <2>2, <2>3 DEF Knows, SameScope
  <2> QED BY <1>1, <2>1, <2>3, <2>4, OwnStep DEF SearchList
<1>2. CASE SearchRead(c)
  <2>1. PICK i \in call[c].names : \E hit \in readRecordRoot(i) :
          call' = [call EXCEPT ![c].names = @ \ {i},
                               ![c].seen = IF hit /\ i \in ActiveConventions THEN @ \cup {i} ELSE @]
    BY <1>2 DEF SearchRead
  <2>2. PICK hit \in readRecordRoot(i) :
          call' = [call EXCEPT ![c].names = @ \ {i},
                               ![c].seen = IF hit /\ i \in ActiveConventions THEN @ \cup {i} ELSE @]
    BY <2>1
  <2> DEFINE n == call[c].names \ {i}
             z == IF hit /\ i \in ActiveConventions THEN call[c].seen \cup {i} ELSE call[c].seen
             f == [call[c] EXCEPT !.names = n, !.seen = z]
  <2>3. call' = [call EXCEPT ![c] = f] /\ call'[c] = f
    BY <1>0, <2>2 DEF Frame
  <2>4. call[c].alone => hit = (store[i] # None)
    BY <1>2, AloneReads DEF SearchRead
  <2>5. call[c].alone => z = ActiveConventions \ n
    <3>1. i \in ActiveConventions => store[i] # None
      BY DEF ActiveConventions
    <3>2. call[c].alone => call[c].seen = ActiveConventions \ call[c].names
      BY <1>0, <1>2 DEF Knows, SearchRead
    <3> QED BY <2>4, <3>1, <3>2
  <2> HIDE DEF n, z
  <2>6. f.pc = "read" /\ f.names = n /\ f.seen = z /\ f.alone = call[c].alone
    BY <1>0, <1>2 DEF Frame, SearchRead
  <2> HIDE DEF f
  <2>7. Knows(c)' /\ SameScope(c)'
    BY <1>a, <2>3, <2>5, <2>6 DEF Knows, SameScope
  <2> QED BY <1>2, <2>3, <2>6, <2>7, OwnStep DEF SearchRead
<1>3. CASE SyncAgentsFile(c)
  <2>1. CASE Return(c)
    BY <1>3, <2>1, OwnReturn DEF SyncAgentsFile
  <2>2. CASE call' = [call EXCEPT ![c].pc = "replace", ![c].file = agents]
    <3> DEFINE f == [call[c] EXCEPT !.pc = "replace", !.file = agents]
    <3>1. call' = [call EXCEPT ![c] = f] /\ call'[c] = f
      BY <1>0, <2>2 DEF Frame
    <3>2. f.pc = "replace" /\ f.seen = call[c].seen /\ f.alone = call[c].alone
      BY <1>0 DEF Frame
    <3>3. call[c].alone => call[c].seen = ActiveConventions
      BY <1>0, <1>3 DEF Knows, SyncAgentsFile
    <3> HIDE DEF f
    <3>4. Knows(c)' /\ SameScope(c)'
      BY <1>a, <3>1, <3>2, <3>3 DEF Knows, SameScope
    <3> QED BY <1>3, <3>1, <3>2, <3>4, OwnStep DEF SyncAgentsFile
  <2> QED BY <1>3, <2>1, <2>2 DEF SyncAgentsFile
<1> QED BY <1>1, <1>2, <1>3

\* After a save the call ends or goes on to list the conventions.
LEMMA AfterSaveQuiet ==
    ASSUME ChainInv, QuietInv, NEW c \in Calls, call[c].pc # "idle", AfterSave(c)
    PROVE  QuietInv'
<1>0. call[c] \in Frame /\ call \in [Calls -> Frame]
  BY DEF ChainInv, CallsOK
<1>1. CASE Return(c)
  BY <1>1, OwnReturn
<1>2. CASE call' = [call EXCEPT ![c].pc = "list"]
  <2> DEFINE f == [call[c] EXCEPT !.pc = "list"]
  <2>1. call' = [call EXCEPT ![c] = f] /\ call'[c] = f
    BY <1>0, <1>2 DEF Frame
  <2>2. f.pc = "list" /\ f.alone = call[c].alone
    BY <1>0 DEF Frame
  <2> HIDE DEF f
  <2>3. Knows(c)' /\ SameScope(c)'
    BY <2>1, <2>2 DEF Knows, SameScope
  <2> QED BY <2>1, <2>2, <2>3, OwnStep
<1> QED BY <1>1, <1>2 DEF AfterSave

\* A save of a record that is no convention leaves the active ones.
LEMMA SavedConventions ==
    ASSUME ChainInv, NEW c \in Calls, call[c].pc = "save", store' = Saved(c),
           call[c].id.kind # "convention"
    PROVE  ActiveConventions' = ActiveConventions
<1>1. call[c].id \in Ids /\ StoreOK
  BY DEF ChainInv, CallsOK, Begun
<1> QED BY <1>1, SameConventions DEF Saved

LEMMA SaveQuiet ==
    ASSUME ChainInv, QuietInv, NEW c \in Calls, Save(c)
    PROVE  QuietInv'
<1>0. /\ call[c] \in Frame /\ call \in [Calls -> Frame] /\ Knows(c) /\ Begun(c)
      /\ call[c].pc = "save" /\ Supersedable(c) /\ store' = Saved(c) /\ UNCHANGED agents
  BY DEF ChainInv, CallsOK, QuietInv, Save
<1>1. CASE call[c].supersedes = None
  BY <1>0, <1>1, AfterSaveQuiet DEF Save
<1>2. CASE call[c].supersedes # None
  <2> DEFINE f == [call[c] EXCEPT !.pc = "mark"]
  <2>1. call' = [call EXCEPT ![c] = f] /\ call'[c] = f
    BY <1>0, <1>2 DEF Save, Frame
  <2>2. /\ f.pc = "mark" /\ f.id = call[c].id /\ f.supersedes = call[c].supersedes
        /\ f.alone = call[c].alone /\ f.agreed = call[c].agreed
    BY <1>0 DEF Frame
  <2> HIDE DEF f
  <2>3. SameScope(c)'
    BY <1>0, <1>2, <2>1, <2>2 DEF SameScope, Supersedable
  <2>4. call[c].id.project = "global" => ActiveConventions' = ActiveConventions
    BY <1>0, SavedConventions, ConventionScope DEF Begun
  <2>5. Knows(c)'
    BY <1>0, <2>1, <2>2, <2>4 DEF Knows
  <2> QED BY <1>0, <2>1, <2>2, <2>3, <2>5, OwnStep
<1> QED BY <1>1, <1>2

\* The environment disturbs whoever is left.
LEMMA OutsideQuiet ==
    ASSUME ChainInv, QuietInv, UserEdit \/ \E p \in Processes : Crash(p)
    PROVE  QuietInv'
<1>1. CASE UserEdit
  <2>1. ASSUME NEW d \in Calls
        PROVE  call'[d].alone = FALSE /\ call'[d].pc = call[d].pc
               /\ call'[d].id = call[d].id /\ call'[d].supersedes = call[d].supersedes
    <3>1. call'[d] = [call[d] EXCEPT !.alone = FALSE]
      BY <1>1, MemoryAssumption DEF UserEdit, Disturbed
    <3> QED BY <3>1 DEF ChainInv, CallsOK, Frame
  <2> QED BY <2>1 DEF QuietInv, OnlyCall, Knows, SameScope
<1>2. ASSUME NEW p \in Processes, Crash(p) PROVE QuietInv'
  <2>1. \A d \in Calls : call'[d] = Idle \/ call'[d] = call[d]
    BY <1>2 DEF Crash
  <2>2. ActiveConventions' = ActiveConventions /\ UNCHANGED <<store, agents>>
    BY <1>2 DEF Crash, ActiveConventions
  <2>3. OnlyCall'
    BY <2>1, IdleHistory DEF QuietInv, OnlyCall
  <2>4. ASSUME NEW d \in Calls PROVE Knows(d)' /\ SameScope(d)'
    <3>1. CASE call'[d] = Idle
      BY <3>1, IdleHistory DEF Knows, SameScope
    <3>2. CASE call'[d] = call[d]
      BY <2>2, <3>2 DEF QuietInv, Knows, SameScope
    <3> QED BY <2>1, <3>1, <3>2
  <2> QED BY <2>3, <2>4 DEF QuietInv
<1> QED BY <1>1, <1>2

LEMMA QuietNext ==
    ASSUME ChainInv, QuietInv, FilesOK, [Next]_vars
    PROVE  QuietInv'
<1>1. CASE UNCHANGED vars
  BY <1>1 DEF vars, QuietInv, OnlyCall, Knows, SameScope, ActiveConventions
<1>2. ASSUME NEW c \in Calls, Step(c) PROVE QuietInv'
  <2>1. CASE saveHandler(c) \/ PromoteDerivedToConvention(c)
    BY <2>1, StartQuiet
  <2>2. CASE Get(c) \/ PromoteCheck(c)
    BY <2>2, LookupQuiet
  <2>3. CASE SearchList(c) \/ SearchRead(c) \/ SyncAgentsFile(c)
    BY <2>3, SearchQuiet
  <2>4. CASE Save(c)
    BY <2>4, SaveQuiet
  <2>5. CASE MarkTarget(c)
    BY <2>5, AfterSaveQuiet DEF MarkTarget
  <2>6. CASE SaveRefused(c) \/ SaveFails(c) \/ MarkFails(c) \/ atomicReplace(c) \/ ReplaceFails(c)
    BY <2>6, OwnReturn DEF SaveRefused, SaveFails, MarkFails, atomicReplace, ReplaceFails
  <2> QED BY <1>2, <2>1, <2>2, <2>3, <2>4, <2>5, <2>6 DEF Step
<1> QED BY <1>1, <1>2, OutsideQuiet DEF Next

---------------------------------------------------------------------------
(***************************************************************************)
(* What a call knows of the record it looked up.                           *)
(***************************************************************************)

\* A call that is about to save, and that lost no race for its record, has the
\* record's time of creation.
LookedUp ==
    \A c \in Calls :
        call[c].pc = "save" /\ c \notin raced /\ store[call[c].id] # None =>
            call[c].created = store[call[c].id].created

\* c got to its save by a lookup, or is where it was.
Arrives(c) ==
    \/ call[c].pc # "save" /\ (Get(c) \/ PromoteCheck(c))
    \/ /\ call[c].pc = "save"
       /\ call'[c].id = call[c].id /\ call'[c].created = call[c].created

\* A step of the call d that does not lead to a save.
LEMMA ElsewhereArrives ==
    ASSUME ChainInv, NEW c \in Calls, NEW d \in Calls, NEW f, f.pc # "save",
           call' = [call EXCEPT ![d] = f], call'[c].pc = "save"
    PROVE  Arrives(c)
<1>1. call \in [Calls -> Frame]
  BY DEF ChainInv, CallsOK
<1>2. c # d
  BY <1>1
<1>3. call'[c] = call[c]
  BY <1>1, <1>2
<1> QED BY <1>3 DEF Arrives

\* Only a lookup leads to a save, and nothing changes the frame of a call that
\* waits for the lock.
LEMMA SaveFrame ==
    ASSUME ChainInv, Next, NEW c \in Calls, call'[c].pc = "save"
    PROVE  Arrives(c)
<1>0. call \in [Calls -> Frame]
  BY DEF ChainInv, CallsOK
<1>a. \A x : \A d \in Calls :
        /\ Disturbed(x)[d].pc = call[d].pc /\ Disturbed(x)[d].id = call[d].id
        /\ Disturbed(x)[d].created = call[d].created
  BY <1>0, DisturbedFrames
<1>b. ASSUME NEW d \in Calls, Return(d) PROVE Arrives(c)
  BY <1>b, IdleFrame, ElsewhereArrives DEF Return
<1>c. ASSUME NEW d \in Calls, NEW f, f.pc # "save", Begin(d, f) PROVE Arrives(c)
  <2> DEFINE g == [f EXCEPT !.alone = Quiet,
                            !.agreed = agents.region = Managed(ActiveConventions)]
  <2>1. call' = [Disturbed(d) EXCEPT ![d] = g] /\ Disturbed(d) = [e \in Calls |-> Disturbed(d)[e]]
    BY <1>c DEF Begin, Disturbed
  <2>2. g.pc = f.pc
    OBVIOUS
  <2> HIDE DEF g
  <2>3. c # d
    BY <1>c, <2>1, <2>2
  <2>4. call'[c] = Disturbed(d)[c]
    BY <2>1, <2>3
  <2> QED BY <1>a, <2>4 DEF Arrives
<1>d. ASSUME NEW d \in Calls, NEW pc \in {"mark", "list"}, call' = [call EXCEPT ![d].pc = pc]
      PROVE  Arrives(c)
  <2> DEFINE f == [call[d] EXCEPT !.pc = pc]
  <2>1. f.pc = pc
    BY <1>0 DEF Frame
  <2>2. call' = [call EXCEPT ![d] = f]
    BY <1>0, <1>d
  <2> HIDE DEF f
  <2> QED BY <2>1, <2>2, ElsewhereArrives
<1>1. ASSUME NEW d \in Calls, saveHandler(d) PROVE Arrives(c)
  <2>1. PICK in \in Inputs :
          Begin(d, [Idle EXCEPT !.pc = "get", !.op = "save", !.id = in.id, !.source = in.source,
                                !.supersedes = in.supersedes, !.created = clock + 1])
    BY <1>1 DEF saveHandler
  <2> DEFINE f == [Idle EXCEPT !.pc = "get", !.op = "save", !.id = in.id, !.source = in.source,
                               !.supersedes = in.supersedes, !.created = clock + 1]
  <2>2. f.pc = "get"
    BY DEF Idle
  <2> HIDE DEF f
  <2> QED BY <1>c, <2>1, <2>2 DEF f
<1>2. ASSUME NEW d \in Calls, PromoteDerivedToConvention(d) PROVE Arrives(c)
  <2>1. PICK id \in Ids :
          Begin(d, [Idle EXCEPT !.pc = "check", !.op = "promote", !.id = Successor(id),
                                !.source = store[id].source, !.supersedes = id,
                                !.created = clock + 1])
    BY <1>2 DEF PromoteDerivedToConvention
  <2> DEFINE f == [Idle EXCEPT !.pc = "check", !.op = "promote", !.id = Successor(id),
                               !.source = store[id].source, !.supersedes = id,
                               !.created = clock + 1]
  <2>2. f.pc = "check"
    BY DEF Idle
  <2> HIDE DEF f
  <2> QED BY <1>c, <2>1, <2>2 DEF f
<1>3. ASSUME NEW d \in Calls, Get(d) \/ PromoteCheck(d) PROVE Arrives(c)
  <2>1. CASE c = d
    BY <1>3, <2>1 DEF Get, PromoteCheck, Arrives
  <2>2. CASE c # d
    <3>1. call'[c] = call[c]
      BY <1>0, <1>3, <2>2 DEF Get, PromoteCheck, Return
    <3> QED BY <3>1 DEF Arrives
  <2> QED BY <2>1, <2>2
<1>4. ASSUME NEW d \in Calls, Save(d) \/ MarkTarget(d) PROVE Arrives(c)
  <2>1. \/ Return(d)
        \/ call' = [call EXCEPT ![d].pc = "mark"]
        \/ call' = [call EXCEPT ![d].pc = "list"]
    BY <1>4 DEF Save, MarkTarget, AfterSave
  <2> QED BY <1>b, <1>d, <2>1
<1>5. ASSUME NEW d \in Calls,
             SaveRefused(d) \/ SaveFails(d) \/ MarkFails(d) \/ atomicReplace(d) \/ ReplaceFails(d)
      PROVE  Arrives(c)
  BY <1>b, <1>5 DEF SaveRefused, SaveFails, MarkFails, atomicReplace, ReplaceFails
<1>6. ASSUME NEW d \in Calls, SearchList(d) \/ SearchRead(d) \/ SyncAgentsFile(d) PROVE Arrives(c)
  <2>1. c # d => call'[c] = call[c]
    BY <1>0, <1>6 DEF SearchList, SearchRead, SyncAgentsFile, Return
  <2>2. call'[d].pc \in {"read", "replace", "idle"}
    <3>1. CASE SearchList(d)
      BY <1>0, <3>1 DEF SearchList, Frame
    <3>2. CASE SearchRead(d)
      <4>1. PICK i \in call[d].names : \E hit \in readRecordRoot(i) :
              call' = [call EXCEPT ![d].names = @ \ {i},
                                   ![d].seen = IF hit /\ i \in ActiveConventions THEN @ \cup {i} ELSE @]
        BY <3>2 DEF SearchRead
      <4>2. call[d].pc = "read" /\ call'[d].pc = call[d].pc
        BY <1>0, <3>2, <4>1 DEF SearchRead, Frame
      <4> QED BY <4>2
    <3>3. CASE SyncAgentsFile(d)
      BY <1>0, <3>3, IdleFrame DEF SyncAgentsFile, Return, Frame
    <3> QED BY <1>6, <3>1, <3>2, <3>3
  <2> QED BY <2>1, <2>2 DEF Arrives
<1>7. ASSUME NEW p \in Processes, Crash(p) PROVE Arrives(c)
  <2>1. call'[c] = Idle \/ call'[c] = call[c]
    BY <1>7 DEF Crash
  <2> QED BY <2>1, IdleFrame DEF Arrives
<1>8. CASE UserEdit
  BY <1>8, <1>a DEF UserEdit, Arrives
<1> QED BY <1>1, <1>2, <1>3, <1>4, <1>5, <1>6, <1>7, <1>8 DEF Next, Step

\* Every step keeps the account of the races.
LEMMA NextRaces == Next => Races
<1>1. ASSUME NEW c \in Calls, Step(c) PROVE Races
  BY <1>1 DEF Step, saveHandler, PromoteDerivedToConvention, Begin, Get, PromoteCheck, Save,
       SaveRefused, SaveFails, MarkTarget, MarkFails, SearchList, SearchRead, SyncAgentsFile,
       atomicReplace, ReplaceFails
<1>2. UserEdit \/ (\E p \in Processes : Crash(p)) => Races
  BY DEF UserEdit, Crash
<1> QED BY <1>1, <1>2 DEF Next

\* A lookup that meets no other write finds the record if there is one.
LEMMA LookupNext ==
    ASSUME ChainInv, LookedUp, [Next]_vars
    PROVE  LookedUp'
<1>1. CASE UNCHANGED vars
  BY <1>1 DEF vars, LookedUp
<1>2. CASE Next
  <2> SUFFICES ASSUME NEW c \in Calls, call'[c].pc = "save", c \notin raced',
                      store'[call'[c].id] # None
               PROVE  call'[c].created = store'[call'[c].id].created
    BY DEF LookedUp
  <2>1. IF call[c].pc = "save" THEN c \notin raced /\ store'[call[c].id] = store[call[c].id]
                               ELSE ~BeingReplaced(call[c].id)
    BY <1>2, NextRaces DEF Races
  <2>2. Arrives(c)
    BY <1>2, SaveFrame
  <2>3. CASE call[c].pc = "save"
    BY <2>1, <2>2, <2>3 DEF Arrives, LookedUp
  <2>4. CASE call[c].pc # "save" /\ Get(c)
    <3>1. call[c] \in Frame /\ call \in [Calls -> Frame] /\ UNCHANGED store
      BY <2>4 DEF ChainInv, CallsOK, Get
    <3>2. PICK hit \in readRecordRoot(call[c].id) :
            call' = [call EXCEPT ![c].pc = "save",
                                 ![c].created = IF hit THEN store[call[c].id].created ELSE @]
      BY <2>4 DEF Get
    <3>3. hit = (store[call[c].id] # None)
      BY <2>1, <2>4 DEF readRecordRoot
    <3>4. call'[c].id = call[c].id
      BY <3>1, <3>2 DEF Frame
    <3>5. hit
      BY <3>1, <3>3, <3>4
    <3>6. call'[c].created = store[call[c].id].created
      BY <3>1, <3>2, <3>5 DEF Frame
    <3> QED BY <3>1, <3>4, <3>6
  <2>5. CASE call[c].pc # "save" /\ PromoteCheck(c)
    <3>1. call[c] \in Frame /\ call \in [Calls -> Frame] /\ UNCHANGED store
      BY <2>5 DEF ChainInv, CallsOK, PromoteCheck
    <3>2. PICK hit \in readRecordRoot(call[c].id) :
            IF hit THEN Return(c) ELSE call' = [call EXCEPT ![c].pc = "save"]
      BY <2>5 DEF PromoteCheck
    <3>3. ~hit
      BY <3>1, <3>2, IdleFrame DEF Return
    <3>4. store[call[c].id] = None
      BY <2>1, <2>5, <3>3 DEF readRecordRoot
    <3>5. call'[c].id = call[c].id
      BY <3>1, <3>2, <3>3 DEF Frame
    <3> QED BY <3>1, <3>4, <3>5
  <2> QED BY <2>2, <2>3, <2>4, <2>5 DEF Arrives
<1> QED BY <1>1, <1>2

\* The invariant of the two theorems below.
MemoryInv == ChainInv /\ FilesOK /\ QuietInv /\ LookedUp

LEMMA MemoryInvariant == Spec => []MemoryInv
<1>1. Init => MemoryInv
  <2>1. Init => QuietInv
    BY IdleHistory DEF Init, QuietInv, OnlyCall, Knows, SameScope
  <2>2. Init => LookedUp
    BY IdleHistory DEF Init, LookedUp
  <2> QED BY <2>1, <2>2, InitHolds DEF MemoryInv
<1>2. MemoryInv /\ [Next]_vars => MemoryInv'
  BY NextKeeps, FilesKept, QuietNext, LookupNext DEF MemoryInv
<1> QED BY <1>1, <1>2, PTL DEF Spec

---------------------------------------------------------------------------
(***************************************************************************)
(* The action properties.                                                  *)
(***************************************************************************)

\* A write that changes a time of creation is the save of that record by a call
\* that lost a race for it.
LEMMA CreationStep ==
    ASSUME MemoryInv, [Next]_vars, NEW i \in Ids, store[i] # None,
           store'[i].created # store[i].created
    PROVE  \E c \in raced : call[c].id = i /\ call[c].pc = "save"
<1>0. store \in [Ids -> Record \cup {None}] /\ store' # store
  BY DEF MemoryInv, ChainInv, StoreOK
<1>1. ~UserEdit /\ ~UNCHANGED vars /\ \A p \in Processes : ~Crash(p)
  BY <1>0 DEF UserEdit, Crash, vars
<1>2. PICK c \in Calls : Step(c)
  BY <1>1 DEF Next
<1>3. CASE (Save(c) \/ SaveFails(c)) /\ store' = Saved(c)
  <2>1. call[c].pc = "save" /\ call[c].id \in Ids
    BY <1>3 DEF Save, SaveFails, MemoryInv, ChainInv, CallsOK, Begun
  <2>2. call[c].id = i
    BY <1>0, <1>3, <2>1 DEF Saved
  <2>3. store'[i].created = call[c].created
    BY <1>0, <1>3, <2>2 DEF Saved
  <2>4. c \in raced
    BY <2>1, <2>2, <2>3 DEF MemoryInv, LookedUp
  <2> QED BY <2>1, <2>2, <2>4
<1>4. CASE (MarkTarget(c) \/ MarkFails(c)) /\ store' = Marked(c)
  <2> DEFINE t == call[c].supersedes
             new == [store[t] EXCEPT !.status = "superseded", !.by = call[c].id]
  <2>1. call[c].pc = "mark" /\ t \in Ids /\ store[t] # None
    BY <1>4 DEF MarkTarget, MarkFails, MemoryInv, ChainInv, CallsOK, Marking
  <2>2. store' = [store EXCEPT ![t] = new]
    BY <1>0, <1>4, <2>1 DEF Marked
  <2>3. store[t] \in Record
    BY <1>0, <2>1
  <2>4. new.created = store[t].created
    BY <2>3 DEF Record
  <2> HIDE DEF t, new
  <2>5. store'[i].created = store[i].created
    BY <1>0, <2>1, <2>2, <2>4
  <2> QED BY <2>5
<1>5. \/ (Save(c) \/ SaveFails(c)) /\ store' = Saved(c)
      \/ (MarkTarget(c) \/ MarkFails(c)) /\ store' = Marked(c)
  <2>1. ~(saveHandler(c) \/ PromoteDerivedToConvention(c))
    BY <1>0 DEF saveHandler, PromoteDerivedToConvention, Begin
  <2>2. ~(Get(c) \/ PromoteCheck(c) \/ SearchList(c) \/ SearchRead(c) \/ SyncAgentsFile(c))
    BY <1>0 DEF Get, PromoteCheck, SearchList, SearchRead, SyncAgentsFile
  <2>3. ~(SaveRefused(c) \/ atomicReplace(c) \/ ReplaceFails(c))
    BY <1>0 DEF SaveRefused, atomicReplace, ReplaceFails
  <2>4. Save(c) \/ SaveFails(c) => store' = Saved(c)
    BY <1>0 DEF Save, SaveFails
  <2>5. MarkTarget(c) \/ MarkFails(c) => store' = Marked(c)
    BY <1>0 DEF MarkTarget, MarkFails
  <2> QED BY <1>2, <2>1, <2>2, <2>3, <2>4, <2>5 DEF Step
<1> QED BY <1>3, <1>4, <1>5

(***************************************************************************)
(* A record that is saved again keeps its time of creation unless the save *)
(* lost a race for that very record, because the handler looks it up       *)
(* without the lock (run.go:65); for every number of threads and processes *)
(* that is the only way to lose it (CreationTimeKept).                     *)
(***************************************************************************)
THEOREM CreationKept == Spec => CreationTimeKept
<1>1. MemoryInv /\ [Next]_vars =>
        [\A i \in Ids :
           (store[i] # None /\ store'[i].created # store[i].created)
           => \E c \in raced : call[c].id = i /\ call[c].pc = "save"]_vars
  BY CreationStep
<1> QED BY <1>1, MemoryInvariant, PTL DEF Spec, CreationTimeKept

\* The end of a save that stayed alone, by the step that ends it.
LEMMA ProjectionStep ==
    ASSUME MemoryInv, NEW c \in Calls, call[c].alone, call'[c].pc = "idle", call[c].op = "save",
           \/ atomicReplace(c) \/ SyncAgentsFile(c)
           \/ call[c].agreed /\ (Save(c) \/ MarkTarget(c))
    PROVE  agents.region.state = "edited" \/ agents'.region = Managed(ActiveConventions')
<1>0. /\ ChainInv /\ call[c] \in Frame /\ call \in [Calls -> Frame] /\ Knows(c) /\ SameScope(c)
      /\ store \in [Ids -> Record \cup {None}]
  BY DEF MemoryInv, ChainInv, StoreOK, CallsOK, QuietInv
<1>1. CASE atomicReplace(c)
  <2>1. call[c].seen = ActiveConventions
    BY <1>0, <1>1 DEF Knows, atomicReplace
  <2>2. agents'.region = Managed(call[c].seen) /\ UNCHANGED store
    BY <1>1 DEF atomicReplace, Replaced
  <2>3. ActiveConventions' = ActiveConventions
    BY <2>2 DEF ActiveConventions
  <2> QED BY <2>1, <2>2, <2>3
<1>2. CASE SyncAgentsFile(c)
  <2>1. call[c].seen = ActiveConventions
    BY <1>0, <1>2 DEF Knows, SyncAgentsFile
  <2>2. call' # [call EXCEPT ![c].pc = "replace", ![c].file = agents]
    BY <1>0 DEF Frame
  <2>3. /\ agents.region.state = "edited" \/ agents.region = Managed(call[c].seen)
        /\ UNCHANGED <<store, agents>>
    BY <1>2, <2>2 DEF SyncAgentsFile
  <2>4. ActiveConventions' = ActiveConventions
    BY <2>3 DEF ActiveConventions
  <2> QED BY <2>1, <2>3, <2>4
<1>3. AfterSave(c) => ~NeedsSync(c)
  <2>1. call' # [call EXCEPT ![c].pc = "list"]
    BY <1>0 DEF Frame
  <2> QED BY <2>1 DEF AfterSave
<1>4. CASE call[c].agreed /\ Save(c)
  <2>1. call[c].pc = "save" /\ store' = Saved(c) /\ UNCHANGED agents /\ Begun(c)
    BY <1>0, <1>4 DEF Save, ChainInv, CallsOK
  <2>2. call' # [call EXCEPT ![c].pc = "mark"]
    BY <1>0 DEF Frame
  <2>3. AfterSave(c)
    BY <1>4, <2>2 DEF Save
  <2>4. call[c].id.kind # "convention"
    BY <1>3, <2>1, <2>3, ConventionScope DEF NeedsSync, Begun
  <2>5. ActiveConventions' = ActiveConventions
    BY <1>0, <2>1, <2>4, SavedConventions
  <2>6. agents.region = Managed(ActiveConventions)
    BY <1>0, <1>4, <2>1 DEF Knows
  <2> QED BY <2>1, <2>5, <2>6
<1>5. CASE call[c].agreed /\ MarkTarget(c)
  <2>1. call[c].pc = "mark" /\ store' = Marked(c) /\ UNCHANGED agents /\ Marking(c) /\ AfterSave(c)
    BY <1>0, <1>5 DEF MarkTarget, ChainInv, CallsOK
  <2>2. call[c].supersedes # None
    BY <2>1, NoneAssumption DEF Marking
  <2>3. call[c].id.project = "global"
    BY <1>3, <2>1, <2>2 DEF NeedsSync
  <2>4. call[c].supersedes \in Ids /\ call[c].supersedes.kind # "convention"
    BY <1>0, <2>1, <2>3, ConventionScope DEF SameScope, Marking
  <2> DEFINE t == call[c].supersedes
             new == [store[t] EXCEPT !.status = "superseded", !.by = call[c].id]
  <2>5. store' = [store EXCEPT ![t] = new]
    BY <1>0, <2>1, <2>4 DEF Marked, Marking
  <2> HIDE DEF new
  <2>6. ActiveConventions' = ActiveConventions
    BY <1>0, <2>4, <2>5, SameConventions DEF StoreOK
  <2>7. agents.region = Managed(ActiveConventions)
    BY <1>0, <1>5, <2>1, <2>3 DEF Knows
  <2> QED BY <2>1, <2>6, <2>7
<1> QED BY <1>1, <1>2, <1>4, <1>5

(***************************************************************************)
(* A save that nothing disturbs ends with exactly the active conventions   *)
(* in AGENTS.md, whatever overlapping or dying saves had left there, unless *)
(* the region was edited by hand (QuietSaveProjects; run.go:72).           *)
(***************************************************************************)
THEOREM QuietProjects == Spec => QuietSaveProjects
<1>1. MemoryInv /\ [Next]_vars =>
        [\A c \in Calls :
           (/\ call[c].alone /\ call[c].op = "save" /\ call'[c].pc = "idle"
            /\ \/ atomicReplace(c) \/ SyncAgentsFile(c)
               \/ call[c].agreed /\ (Save(c) \/ MarkTarget(c)))
           => \/ agents.region.state = "edited"
              \/ agents'.region = Managed(ActiveConventions')]_vars
  BY ProjectionStep
<1> QED BY <1>1, MemoryInvariant, PTL DEF Spec, QuietSaveProjects

=============================================================================
