---------------------------- MODULE MemoryStore ----------------------------
(***************************************************************************)
(* The memory capability (internal/capability/memory): a directory of JSON *)
(* records that several processes save into under one flock, the links of  *)
(* superseded records to their successors, the promotion of a derived      *)
(* record to a convention, and the projection of the active conventions    *)
(* into the managed region of AGENTS.md.                                   *)
(*                                                                         *)
(* Saves are serialised; Get and Search read without the lock, record by   *)
(* record, and AGENTS.md is guarded by a mutex of the process only.        *)
(***************************************************************************)
EXTENDS Naturals, FiniteSets

CONSTANTS
    Calls,      \* the threads that execute calls of the capability
    Processes,  \* the processes they run in
    Home,       \* the process of every thread
    Project,    \* the project the server was started for
    Titles,     \* normalised titles
    Inputs,     \* the inputs of the calls
    MaxCalls,   \* bound on the calls started
    MaxEdits,   \* bound on edits of AGENTS.md by hand
    None        \* no record, no target, no holder

ASSUME MemoryAssumption ==
    /\ Home \in [Calls -> Processes]
    /\ MaxCalls \in Nat /\ MaxEdits \in Nat
    /\ None \notin Calls /\ Project # "global"

VARIABLES
    store,      \* id -> record on disk, or None
    agents,     \* AGENTS.md: the bytes outside the region, and the region
    lock,       \* the call that holds .memory.lock, or None
    call,       \* what every thread is doing
    clock,      \* calls started so far, the timestamps of the records
    raced       \* history: calls whose lookup met another write of their record

vars == <<store, agents, lock, call, clock, raced>>

validKind == {"decision", "convention", "gotcha", "preference"}
Scopes == {Project, "global"}

(***************************************************************************)
(* memoryID hashes project, kind and title, so the id is that triple.      *)
(***************************************************************************)
Ids == {i \in [project : Scopes, kind : validKind, title : Titles] :
          i.project = "global" => i.kind = "preference"}

Record ==
    [source  : {"human", "derived"},
     status  : {"active", "superseded"},
     by      : Ids \cup {None},      \* superseded_by
     created : 1..MaxCalls]          \* created_at

Input ==
    [id         : [project : Scopes \cup {"other"}, kind : validKind \cup {"?"}, title : Titles],
     source     : {"human", "derived", "?"},
     evidence   : BOOLEAN,           \* some non-empty evidence entry
     secret     : BOOLEAN,           \* title or body matches a secret pattern
     supersedes : Ids \cup {None}]

ASSUME InputsAssumption == Inputs \subseteq Input
ASSUME NoneAssumption == None \notin Ids \cup Record

(***************************************************************************)
(* The BLOCK rules of the lint that depend on more than the shape of a     *)
(* text field.                                                             *)
(***************************************************************************)
lint(in) ==
    \/ in.source = "derived" /\ ~in.evidence
    \/ in.source \notin {"human", "derived"}
    \/ in.secret
    \/ in.id.kind \notin validKind
    \/ in.id.project = "global" /\ in.id.kind # "preference"
    \/ in.id.project \notin Scopes

Region ==
    [state : {"absent", "managed", "edited"},  \* edited: the checksum does not match
     ids   : SUBSET Ids]                       \* the conventions a managed region lists

NoRegion == [state |-> "absent", ids |-> {}]

Managed(S) == [state |-> "managed", ids |-> S]

File == [text : 0..MaxEdits, region : Region]

Idle ==
    [pc |-> "idle", op |-> "none", id |-> None, source |-> "human", supersedes |-> None,
     created |-> 0, names |-> {}, seen |-> {}, file |-> [text |-> 0, region |-> NoRegion],
     alone |-> FALSE, agreed |-> FALSE]

Frame ==
    [pc : {"idle", "get", "check", "save", "mark", "list", "read", "replace"},
     op : {"none", "save", "promote"}, id : Ids \cup {None},
     source : {"human", "derived"}, supersedes : Ids \cup {None},
     created : 0..MaxCalls, names : SUBSET Ids, seen : SUBSET Ids, file : File,
     alone : BOOLEAN,    \* history: nothing else happened since the call began
     agreed : BOOLEAN]   \* history: AGENTS.md listed the conventions when the call began

TypeOK ==
    /\ store \in [Ids -> Record \cup {None}]
    /\ agents \in File
    /\ lock \in Calls \cup {None}
    /\ clock \in 0..MaxCalls
    /\ raced \subseteq Calls
    /\ call \in [Calls -> Frame]
    /\ lock # None <=> \E c \in Calls : call[c].pc = "mark"
    /\ \A c \in Calls : call[c].pc = "mark" => lock = c

Init ==
    /\ store = [i \in Ids |-> None]
    /\ agents = [text |-> 0, region |-> NoRegion]
    /\ lock = None
    /\ call = [c \in Calls |-> Idle]
    /\ clock = 0
    /\ raced = {}

ActiveConventions ==
    {i \in Ids : store[i] # None /\ i.kind = "convention" /\ store[i].status = "active"}

---------------------------------------------------------------------------
(***************************************************************************)
(* The steps of a call.                                                    *)
(***************************************************************************)

Return(c) == call' = [call EXCEPT ![c] = Idle]

\* Whatever else happens disturbs the calls in flight.
Disturbed(except) == [d \in Calls |-> IF d = except THEN call[d] ELSE [call[d] EXCEPT !.alone = FALSE]]

Quiet == \A d \in Calls : call[d].pc = "idle"

\* A call is about to rename a new file over the record of id. A reader whose
\* two Lstats enclose that rename takes the record for missing.
BeingReplaced(id) ==
    \E d \in Calls :
        \/ call[d].pc = "save" /\ lock = None /\ call[d].id = id
        \/ call[d].pc = "mark" /\ call[d].supersedes = id

\* History: a call is raced from its lookup to its save when the lookup fell into
\* another write of the record, or the record changed between the two.
Races ==
    raced' = {c \in Calls :
        /\ call'[c].pc = "save"
        /\ IF call[c].pc = "save"
             THEN c \in raced \/ store'[call[c].id] # store[call[c].id]
             ELSE BeingReplaced(call[c].id)}

Begin(c, frame) ==
    /\ call[c].pc = "idle"
    /\ clock < MaxCalls
    /\ clock' = clock + 1
    /\ call' = [Disturbed(c) EXCEPT ![c] =
                  [frame EXCEPT !.alone = Quiet,
                                !.agreed = agents.region = Managed(ActiveConventions)]]
    /\ UNCHANGED <<store, agents, lock>>
    /\ Races

\* The tool jacu_memory_save: lint, then the record with this moment as its
\* time of creation.
saveHandler(c) ==
    \E in \in Inputs :
        /\ ~lint(in)
        /\ in.supersedes # in.id
        /\ Begin(c, [Idle EXCEPT !.pc = "get", !.op = "save", !.id = in.id, !.source = in.source,
                                 !.supersedes = in.supersedes, !.created = clock + 1])

\* The values a read of one record may return: whether it was found.
readRecordRoot(id) ==
    {store[id] # None} \cup (IF BeingReplaced(id) THEN {FALSE} ELSE {})

\* Mutant: the time of creation of an existing record is not kept.
GetForgets(c) ==
    /\ call[c].pc = "get"
    /\ call' = [call EXCEPT ![c].pc = "save"]
    /\ UNCHANGED <<store, agents, lock, clock>>
    /\ Races

\* The handler asks for an existing record, without the lock, to keep its
\* time of creation.
Get(c) ==
    /\ call[c].pc = "get"
    /\ \E hit \in readRecordRoot(call[c].id) :
         call' = [call EXCEPT ![c].pc = "save",
                              ![c].created = IF hit THEN store[call[c].id].created ELSE @]
    /\ UNCHANGED <<store, agents, lock, clock>>
    /\ Races

Successor(id) == [id EXCEPT !.kind = "convention"]

\* Promotion reads its source and looks for the successor, both without the lock.
PromoteDerivedToConvention(c) ==
    \E id \in Ids :
        /\ store[id] # None
        /\ store[id].source = "derived" /\ store[id].status = "active"
        /\ id.kind # "convention" /\ id.project # "global"
        /\ Begin(c, [Idle EXCEPT !.pc = "check", !.op = "promote", !.id = Successor(id),
                                 !.source = store[id].source, !.supersedes = id,
                                 !.created = clock + 1])

PromoteCheck(c) ==
    /\ call[c].pc = "check"
    /\ \E hit \in readRecordRoot(call[c].id) :
         IF hit THEN Return(c) ELSE call' = [call EXCEPT ![c].pc = "save"]
    /\ UNCHANGED <<store, agents, lock, clock>>
    /\ Races

---------------------------------------------------------------------------
(***************************************************************************)
(* Save, under the lock.                                                   *)
(***************************************************************************)

\* The target of supersedes is looked up under the lock.
Supersedable(c) ==
    LET t == call[c].supersedes IN
    t # None => /\ store[t] # None
                /\ t.project = call[c].id.project
                /\ store[t].status = "superseded" => store[t].by = call[c].id

\* Mutant: a record that is saved again keeps its status and its successor.
SavedOver(c) ==
    LET old == store[call[c].id] IN
    [store EXCEPT ![call[c].id] =
        [source |-> call[c].source, created |-> call[c].created,
         status |-> IF old = None THEN "active" ELSE old.status,
         by |-> IF old = None THEN None ELSE old.by]]

Saved(c) ==
    [store EXCEPT ![call[c].id] =
        [source |-> call[c].source, status |-> "active", by |-> None, created |-> call[c].created]]

\* Mutant: only the save of a convention is projected.
NeedsSyncConvention(c) ==
    /\ call[c].op = "save"
    /\ call[c].id.project # "global"
    /\ call[c].id.kind = "convention"

\* After a save the handler projects the conventions when they may have
\* changed; promotion does not.
NeedsSync(c) ==
    /\ call[c].op = "save"
    /\ call[c].id.project # "global"
    /\ call[c].id.kind = "convention" \/ call[c].supersedes # None

AfterSave(c) ==
    IF NeedsSync(c) THEN call' = [call EXCEPT ![c].pc = "list"] ELSE Return(c)

\* One rename writes the record; a successor is written before its target is
\* marked, and the lock is kept for that.
Save(c) ==
    /\ call[c].pc = "save" /\ lock = None
    /\ Supersedable(c)
    /\ store' = Saved(c)
    /\ IF call[c].supersedes = None
         THEN AfterSave(c) /\ UNCHANGED lock
         ELSE lock' = c /\ call' = [call EXCEPT ![c].pc = "mark"]
    /\ UNCHANGED <<agents, clock>>
    /\ Races

SaveRefused(c) ==
    /\ call[c].pc = "save" /\ lock = None
    /\ ~Supersedable(c)
    /\ Return(c)
    /\ UNCHANGED <<store, agents, lock, clock>>
    /\ Races

\* A write fails before its rename, or the directory cannot be synced after it.
SaveFails(c) ==
    /\ call[c].pc = "save" /\ lock = None
    /\ Supersedable(c)
    /\ store' \in {store, Saved(c)}
    /\ Return(c)
    /\ UNCHANGED <<agents, lock, clock>>
    /\ Races

Marked(c) ==
    [store EXCEPT ![call[c].supersedes].status = "superseded",
                  ![call[c].supersedes].by = call[c].id]

MarkTarget(c) ==
    /\ call[c].pc = "mark"
    /\ store' = Marked(c)
    /\ lock' = None
    /\ AfterSave(c)
    /\ UNCHANGED <<agents, clock>>
    /\ Races

MarkFails(c) ==
    /\ call[c].pc = "mark"
    /\ store' \in {store, Marked(c)}
    /\ lock' = None
    /\ Return(c)
    /\ UNCHANGED <<agents, clock>>
    /\ Races

---------------------------------------------------------------------------
(***************************************************************************)
(* SyncProjectAgents: search the conventions, then rewrite the region.     *)
(***************************************************************************)

\* The names of the directory are read once ...
SearchList(c) ==
    /\ call[c].pc = "list"
    /\ call' = [call EXCEPT ![c].pc = "read", ![c].seen = {},
                            ![c].names = {i \in Ids : store[i] # None /\ i.project = Project}]
    /\ UNCHANGED <<store, agents, lock, clock>>
    /\ Races

\* ... and the records one after the other.
SearchRead(c) ==
    /\ call[c].pc = "read"
    /\ \E i \in call[c].names : \E hit \in readRecordRoot(i) :
         call' = [call EXCEPT ![c].names = @ \ {i},
                              ![c].seen = IF hit /\ i \in ActiveConventions THEN @ \cup {i} ELSE @]
    /\ UNCHANGED <<store, agents, lock, clock>>
    /\ Races

\* The mutex of AGENTS.md, one per process.
BridgeFree(c) == \A d \in Calls : Home[d] = Home[c] => call[d].pc # "replace"

\* The file is read and its region inspected: a region whose checksum does not
\* match is refused, a region that would not change is left alone.
SyncAgentsFile(c) ==
    /\ call[c].pc = "read" /\ call[c].names = {}
    /\ BridgeFree(c)
    /\ IF agents.region.state = "edited" \/ agents.region = Managed(call[c].seen)
         THEN Return(c)
         ELSE call' = [call EXCEPT ![c].pc = "replace", ![c].file = agents]
    /\ UNCHANGED <<store, agents, lock, clock>>
    /\ Races

\* The file is replaced by what was read with a new region, created, appended
\* or updated.
Replaced(c) == [text |-> call[c].file.text, region |-> Managed(call[c].seen)]

atomicReplace(c) ==
    /\ call[c].pc = "replace"
    /\ agents' = Replaced(c)
    /\ Return(c)
    /\ UNCHANGED <<store, lock, clock>>
    /\ Races

ReplaceFails(c) ==
    /\ call[c].pc = "replace"
    /\ Return(c)
    /\ UNCHANGED <<store, agents, lock, clock>>
    /\ Races

---------------------------------------------------------------------------
(***************************************************************************)
(* A process dies with its calls and its locks; a user edits AGENTS.md.    *)
(***************************************************************************)

Crash(p) ==
    /\ \E c \in Calls : Home[c] = p /\ call[c].pc # "idle"
    /\ call' = [c \in Calls |-> IF Home[c] = p THEN Idle ELSE call[c]]
    /\ lock' = IF lock # None /\ Home[lock] = p THEN None ELSE lock
    /\ UNCHANGED <<store, agents, clock>>
    /\ Races

\* The user changes the text outside the region, edits the region, or
\* removes it.
UserEdit ==
    /\ agents.text < MaxEdits
    /\ \E r \in {agents.region, NoRegion, [state |-> "edited", ids |-> {}]} :
         agents' = [text |-> agents.text + 1, region |-> r]
    /\ call' = Disturbed(None)
    /\ UNCHANGED <<store, lock, clock>>
    /\ Races

Step(c) ==
    \/ saveHandler(c) \/ Get(c) \/ PromoteDerivedToConvention(c) \/ PromoteCheck(c)
    \/ Save(c) \/ SaveRefused(c) \/ SaveFails(c) \/ MarkTarget(c) \/ MarkFails(c)
    \/ SearchList(c) \/ SearchRead(c) \/ SyncAgentsFile(c) \/ atomicReplace(c) \/ ReplaceFails(c)

Next ==
    \/ \E c \in Calls : Step(c)
    \/ \E p \in Processes : Crash(p)
    \/ UserEdit

Spec == Init /\ [][Next]_vars

---------------------------------------------------------------------------
(***************************************************************************)
(* Properties                                                              *)
(***************************************************************************)

Superseded == {i \in Ids : store[i] # None /\ store[i].status = "superseded"}

\* Following superseded_by from any record leads to an active one: the
\* successor was written before its target was marked (store.go:163), and the
\* links never close a cycle, although records are saved again, superseded in
\* both directions, promoted without a lock, and a save may stop half-way. A
\* set of records closed under the links would be a cycle or a dangling end.
ChainsEnd ==
    /\ \A i \in Superseded : store[i].by # None /\ store[store[i].by] # None
    /\ ~ \E S \in (SUBSET Superseded) \ {{}} : \A i \in S : store[i].by \in S

\* A save that nothing disturbs leaves AGENTS.md with exactly the active
\* conventions: one that projects them whatever earlier saves that overlapped
\* or died had left in the file, one that does not if they were right before
\* (run.go:72, bridge.go:154); only a region edited by hand is not touched.
QuietSaveProjects ==
    [][\A c \in Calls :
         (/\ call[c].alone /\ call[c].op = "save" /\ call'[c].pc = "idle"
          /\ \/ atomicReplace(c) \/ SyncAgentsFile(c)
             \/ call[c].agreed /\ (Save(c) \/ MarkTarget(c)))
         => \/ agents.region.state = "edited"
            \/ agents'.region = Managed(ActiveConventions')]_vars

\* A record that is saved again keeps its time of creation (memory/spec.md:56),
\* unless the save lost a race for that very record: the handler looks it up
\* without the lock (run.go:65), so it may read while another save of the record,
\* or the mark of one that supersedes it, replaces the file, and the record may
\* be created or change before the save. Nothing else costs the time: no other
\* call, no crash, no edit of AGENTS.md.
CreationTimeKept ==
    [][\A i \in Ids :
         (store[i] # None /\ store'[i].created # store[i].created)
         => \E c \in raced : call[c].id = i /\ call[c].pc = "save"]_vars

=============================================================================
