----------------------------- MODULE Telemetry -----------------------------
(***************************************************************************)
(* The capability pipeline (internal/runtime) and the event stream it      *)
(* writes (internal/telemetry): every call of a tool, in any process,      *)
(* appends one event to the segment of its month under a file lock,        *)
(* rotates the segments and removes the oldest ones, while readers of the  *)
(* stream take no lock.                                                    *)
(***************************************************************************)
EXTENDS Naturals, Sequences, FiniteSets, SequencesExt, FiniteSetsExt

CONSTANTS
    Calls,            \* calls of tools, each in a process of its own
    Request,          \* what may be wrong with every call before its handler
    Ends,             \* how the handler of every call may end
    MaxData,          \* bound on the encoded size of the data of a result
    MaxOutputBytes,   \* limit of a result, 0 for none
    Enabled,          \* JACU_TELEMETRY is not off
    MaxMonth,         \* bound on the months that pass
    MaxEvent,         \* largest size of an encoded event
    maxSegmentBytes, maxTotalBytes, retainedMonths,
    Since,            \* the first month the reader asks for
    None

ASSUME TelemetryAssumption ==
    /\ MaxMonth \in Nat /\ MaxEvent \in Nat \ {0}
    /\ maxSegmentBytes \in Nat \ {0} /\ maxTotalBytes \in Nat \ {0} /\ retainedMonths \in Nat \ {0}
    /\ Enabled \in BOOLEAN /\ None \notin Calls
    /\ MaxData \in Nat /\ MaxOutputBytes \in Nat

VARIABLES
    stream,   \* segment -> the lines appended to it, for the segments that exist
    lock,     \* the call that holds events.lock, or None
    call,     \* the calls
    month,    \* the current month
    rd,       \* the reader
    acked,    \* history: events whose Emit returned without an error
    settled   \* history: the segment of the event whose collection was complete and
              \* the last thing that happened to the stream, or None

vars == <<stream, lock, call, month, rd, acked, settled>>

Months == 0..MaxMonth

\* events-YYYY-MM.jsonl has sequence 0, its rotated successors 1, 2, ...
Segments == [month : Months, sequence : 0..Cardinality(Calls)]

\* An append that was cut short leaves a line without its end.
Line == [event : Calls, size : 1..MaxEvent, whole : BOOLEAN]

Statuses == {"ok", "blocked", "partial", "failed"}

\* An envelope: its status, and its data, which json.Marshal may refuse.
Result == [status : Statuses, data : 0..MaxData, encodes : BOOLEAN]
Failed == [status |-> "failed", data |-> 0, encodes |-> TRUE]
Blocked == [status |-> "blocked", data |-> 0, encodes |-> TRUE]

\* How a call comes to its end; the value that comes with an error is not used.
Ending == [end : {"bad_spec", "large_input", "panic", "error", "value"}, value : Result]

ASSUME EndsAssumption ==
    /\ Request \in [Calls -> SUBSET {"none", "bad_spec", "large_input"}]
    /\ Ends \in [Calls -> SUBSET {o \in Ending : o.end \in {"panic", "error", "value"}}]
    /\ None \notin Ending

Frame ==
    [pc : {"idle", "handle", "deferred", "lock", "append", "gc", "done", "dead"},
     outcome : Ending \cup {None},
     result  : Result \cup {None},         \* the named result of Execute, unset in a panic
     month   : Months,                     \* of the timestamp of the event
     segment : Segments \cup {None}]       \* the segment that received the event

TypeOK ==
    /\ DOMAIN stream \subseteq Segments
    /\ \A s \in DOMAIN stream : stream[s] \in Seq(Line)
    /\ lock \in Calls \cup {None}
    /\ call \in [Calls -> Frame]
    /\ month \in Months
    /\ rd \in [pc : {"idle", "reading"}, todo : SUBSET Segments, got : SUBSET Calls, must : SUBSET Calls]
    /\ acked \subseteq Calls
    /\ settled \in Segments \cup {None}

NoRead == [pc |-> "idle", todo |-> {}, got |-> {}, must |-> {}]

Init ==
    /\ stream = <<>>
    /\ lock = None
    /\ call = [c \in Calls |-> [pc |-> "idle", outcome |-> None, result |-> None,
                                month |-> 0, segment |-> None]]
    /\ month = 0
    /\ rd = NoRead
    /\ acked = {}
    /\ settled = None

---------------------------------------------------------------------------
(***************************************************************************)
(* The segments.                                                           *)
(***************************************************************************)

Existing == DOMAIN stream

\* The order in which segments() lists them.
Before(s, t) == s.month < t.month \/ (s.month = t.month /\ s.sequence < t.sequence)

Oldest(S) == CHOOSE s \in S : \A t \in S \ {s} : Before(s, t)

Bytes(lines) == FoldSeq(LAMBDA l, n : n + l.size, 0, lines)

Size(s) == Bytes(stream[s])

Total(segments) == MapThenSumSet(LAMBDA s : Bytes(segments[s]), DOMAIN segments)

MonthsKept == {s.month : s \in Existing}

\* A line can be decoded when it is whole and starts a line of its own.
Readable(s) ==
    {stream[s][i].event : i \in {j \in DOMAIN stream[s] :
        stream[s][j].whole /\ (j > 1 => stream[s][j - 1].whole)}}

\* The newest segment of the month, or its successor when the event would make
\* it too large.
nextSegmentPath(m, incoming) ==
    LET mine == {s \in Existing : s.month = m}
        newest == IF mine = {} THEN [month |-> m, sequence |-> 0]
                  ELSE CHOOSE s \in mine : \A t \in mine : t.sequence <= s.sequence
    IN IF mine # {} /\ Size(newest) > 0 /\ Size(newest) + incoming > maxSegmentBytes
         THEN [newest EXCEPT !.sequence = @ + 1]
         ELSE newest

Appended(s, lines) ==
    [t \in Existing \cup {s} |->
        (IF t \in Existing THEN stream[t] ELSE <<>>) \o (IF t = s THEN lines ELSE <<>>)]

Without(s) == [t \in Existing \ {s} |-> stream[t]]

---------------------------------------------------------------------------
(***************************************************************************)
(* Execute, of the pipeline.                                               *)
(***************************************************************************)

Stay == UNCHANGED <<stream, lock, month, rd, acked, settled>>

\* The result that Execute has when it comes to its end: of the refusals, of an
\* error, whose value is dropped, or the handler's own. A panic leaves none.
Returned(o) ==
    CASE o.end = "panic" -> None
      [] o.end = "large_input" -> Blocked
      [] o.end = "value" -> o.value
      [] OTHER -> Failed

Ended(c, o) ==
    call' = [call EXCEPT ![c].pc = "deferred", ![c].outcome = o, ![c].result = Returned(o)]

\* Validation of the specification and the limit of the input, then the handler.
Execute(c) ==
    /\ call[c].pc = "idle"
    /\ \/ /\ "none" \in Request[c]
          /\ call' = [call EXCEPT ![c].pc = "handle"]
       \/ \E refusal \in Request[c] \ {"none"} : Ended(c, [end |-> refusal, value |-> Failed])
    /\ Stay

\* The handler panics, returns an error or a result. It may as well never come
\* back: Execute has no way to leave it behind.
HandlerEnds(c) ==
    /\ call[c].pc = "handle"
    /\ \E o \in Ends[c] : Ended(c, o)
    /\ Stay

\* json.Marshal of the result: the envelope itself and the data.
Encoded(r) == 1 + r.data

\* Mutant: a result that is too large is marked but keeps its data.
capOutputMarks(r) ==
    IF ~r.encodes THEN Failed
    ELSE IF MaxOutputBytes = 0 \/ Encoded(r) <= MaxOutputBytes THEN r
    ELSE [r EXCEPT !.status = "partial"]

capOutput(r) ==
    IF ~r.encodes THEN Failed
    ELSE IF MaxOutputBytes = 0 \/ Encoded(r) <= MaxOutputBytes THEN r
    ELSE [r EXCEPT !.status = "partial", !.data = 0]

\* The deferred function: a panic becomes a failure, then the output is capped.
Recovered(f) == capOutput(IF f.outcome.end = "panic" THEN Failed ELSE f.result)

Return(c) == call' = [call EXCEPT ![c].pc = "done"]

\* The event, with its time.
Stamp(c) ==
    /\ call[c].pc = "deferred"
    /\ Enabled
    /\ call' = [call EXCEPT ![c].pc = "lock", ![c].result = Recovered(call[c]), ![c].month = month]
    /\ Stay

\* Telemetry is off, the event is not valid, or the directory or the lock file
\* cannot be opened: the call returns what it has.
NoEvent(c) ==
    /\ call[c].pc = "deferred"
    /\ call' = [call EXCEPT ![c].pc = "done", ![c].result = Recovered(call[c])]
    /\ Stay

---------------------------------------------------------------------------
(***************************************************************************)
(* Store.Emit: lock, choose the segment, append, sync, collect.            *)
(***************************************************************************)

EmitLock(c) ==
    /\ call[c].pc = "lock" /\ lock = None
    /\ lock' = c
    /\ call' = [call EXCEPT ![c].pc = "append"]
    /\ UNCHANGED <<stream, month, rd, acked, settled>>

\* History: a segment that was removed under the reader and is created again is
\* read without an error, so what it held is no longer due.
StillDue(s) ==
    IF s \in rd.todo \ Existing THEN [rd EXCEPT !.must = {e \in @ : call[e].segment # s}] ELSE rd

\* openRegularAppend and Write: the segment is created when it is not there.
AppendLines(s, lines) ==
    /\ stream' = Appended(s, lines)
    /\ rd' = StillDue(s)
    /\ settled' = None

WriteEvent(c) ==
    /\ call[c].pc = "append"
    /\ \E size \in 1..MaxEvent :
         LET s == nextSegmentPath(call[c].month, size) IN
         /\ AppendLines(s, <<[event |-> c, size |-> size, whole |-> TRUE]>>)
         /\ call' = [call EXCEPT ![c].pc = "gc", ![c].segment = s]
    /\ UNCHANGED <<lock, month, acked>>

\* What an append that is not completed leaves: the segment, chosen by the size
\* of the whole line, with nothing, a part of the line or all of it.
Remains(c) ==
    \E size \in 1..MaxEvent, whole \in BOOLEAN : \E written \in 0..size :
        /\ whole => written = size
        /\ AppendLines(nextSegmentPath(call[c].month, size),
             IF written = 0 THEN <<>> ELSE <<[event |-> c, size |-> written, whole |-> whole]>>)

\* Mutant: the lock is kept.
AppendFailsLocked(c) ==
    /\ call[c].pc = "append"
    /\ Return(c)
    /\ UNCHANGED <<stream, lock, month, rd, acked, settled>>

\* The segment cannot be opened, the write is short (a full disk), or it cannot
\* be synced: Emit returns an error and leaves what was written.
AppendFails(c) ==
    /\ call[c].pc = "append"
    /\ UNCHANGED <<stream, rd, settled>> \/ Remains(c)
    /\ lock' = None
    /\ Return(c)
    /\ UNCHANGED <<month, acked>>

\* The next segment to remove: of the months beyond the retained ones, then of
\* all while the total is too large; never the one that received the event.
Expired ==
    {s \in Existing : Cardinality({m \in MonthsKept : m > s.month}) >= retainedMonths}

\* Mutant: the total is not looked at.
gcLockedMonths(c) == Expired \ {call[c].segment}

gcLocked(c) ==
    LET free == Existing \ {call[c].segment}
        old == Expired \ {call[c].segment}
    IN IF old # {} THEN old ELSE IF Total(stream) > maxTotalBytes THEN free ELSE {}

GcRemove(c) ==
    /\ call[c].pc = "gc"
    /\ gcLocked(c) # {}
    /\ stream' = Without(Oldest(gcLocked(c)))
    /\ UNCHANGED <<lock, call, month, rd, acked, settled>>

EmitReturns(c) ==
    /\ call[c].pc = "gc"
    /\ gcLocked(c) = {}
    /\ acked' = acked \cup {c}
    /\ settled' = call[c].segment
    /\ lock' = None
    /\ Return(c)
    /\ UNCHANGED <<stream, month, rd>>

\* A segment cannot be removed or inspected: the collection ends with an error.
GcFails(c) ==
    /\ call[c].pc = "gc"
    /\ lock' = None
    /\ Return(c)
    /\ UNCHANGED <<stream, month, rd, acked, settled>>

---------------------------------------------------------------------------
(***************************************************************************)
(* ReadSince, without the lock: list the segments, then read one by one.   *)
(***************************************************************************)

\* What a read that begins now has to return.
Due(S) == UNION {Readable(s) \cap acked : s \in S}

ReadSince ==
    /\ rd.pc = "idle"
    /\ LET S == {s \in Existing : s.month >= Since} IN
         rd' = [pc |-> "reading", todo |-> S, got |-> {}, must |-> Due(S)]
    /\ UNCHANGED <<stream, lock, call, month, acked, settled>>

\* Mutant: a segment that is gone is passed over.
ReadSegmentLenient ==
    /\ rd.pc = "reading" /\ rd.todo # {}
    /\ LET s == Oldest(rd.todo) IN
         rd' = [rd EXCEPT !.todo = @ \ {s}, !.got = @ \cup (IF s \in Existing THEN Readable(s) ELSE {})]
    /\ UNCHANGED <<stream, lock, call, month, acked, settled>>

ReadSegment ==
    /\ rd.pc = "reading" /\ rd.todo # {}
    /\ LET s == Oldest(rd.todo) IN
         IF s \in Existing
           THEN rd' = [rd EXCEPT !.todo = @ \ {s}, !.got = @ \cup Readable(s)]
           ELSE rd' = NoRead     \* the segment is gone: the whole read is an error
    /\ UNCHANGED <<stream, lock, call, month, acked, settled>>

ReadEnds ==
    /\ rd.pc = "reading" /\ rd.todo = {}
    /\ rd' = NoRead
    /\ UNCHANGED <<stream, lock, call, month, acked, settled>>

---------------------------------------------------------------------------

NextMonth ==
    /\ month < MaxMonth
    /\ month' = month + 1
    /\ UNCHANGED <<stream, lock, call, rd, acked, settled>>

\* A process is killed anywhere; inside the append it leaves what was written.
Crash(c) ==
    /\ call[c].pc \notin {"idle", "done", "dead"}
    /\ call' = [call EXCEPT ![c].pc = "dead", ![c].result = None, ![c].month = 0, ![c].segment = None]
    /\ lock' = IF lock = c THEN None ELSE lock
    /\ \/ UNCHANGED <<stream, rd, settled>>
       \/ call[c].pc = "append" /\ Remains(c)
    /\ UNCHANGED <<month, acked>>

Progress(c) ==
    \/ Stamp(c) \/ NoEvent(c) \/ EmitLock(c) \/ WriteEvent(c) \/ AppendFails(c)
    \/ GcRemove(c) \/ EmitReturns(c) \/ GcFails(c)

Next ==
    \/ \E c \in Calls : Execute(c) \/ HandlerEnds(c) \/ Progress(c) \/ Crash(c)
    \/ ReadSince \/ ReadSegment \/ ReadEnds
    \/ NextMonth

Spec == Init /\ [][Next]_vars

(***************************************************************************)
(* Once its handler has come back a call goes on, and flock is granted to a *)
(* waiter that finds it free again and again. Nothing is assumed of a       *)
(* handler.                                                                 *)
(***************************************************************************)
FairSpec == Spec /\ \A c \in Calls : WF_vars(Progress(c)) /\ SF_vars(EmitLock(c))

---------------------------------------------------------------------------
(***************************************************************************)
(* Properties                                                              *)
(***************************************************************************)

\* What the contract sees of the end of a call and of its envelope.
Seen(o) ==
    IF o = None THEN None
    ELSE [end |-> o.end, status |-> o.value.status, data |-> o.value.data # 0,
          fits |-> MaxOutputBytes = 0 \/ Encoded(o.value) <= MaxOutputBytes,
          encodes |-> o.value.encodes]
Sent(r) == [status |-> r.status, data |-> r.data # 0]

Contract == INSTANCE ToolCall WITH
    outcome <- [c \in Calls |-> Seen(call[c].outcome)],
    result <- [c \in Calls |-> IF call[c].pc = "done" THEN Sent(call[c].result) ELSE None]

ASSUME ContractAssumption == None \notin Contract!Outcomes

\* The caller gets an honest envelope, once: the result of the handler as it is,
\* or no data and a status that tells an error, a panic, a refusal or the cap.
\* The error mapping, recover and capOutput together do it (pipeline.go:42-53,
\* 80-94, 127), and nothing that happens to the event in between - no lock, a full
\* disk, a failed collection, telemetry switched off - changes it (store.go:431).
CallContract == Contract!Spec

\* Once its handler has come back, every call returns, although all of them queue
\* for one file lock and may fail inside it (store.go:82), and although other
\* handlers never come back (pipeline.go:89).
CallReturns == \A c \in Calls : call[c].pc = "deferred" ~> call[c].pc \in {"done", "dead"}

\* A read that succeeds returns every event that was acknowledged before it
\* began and could be decoded then, although segments rotate and are removed
\* while it goes from one to the next. The one exception: a segment that was
\* removed meanwhile and that a late event of its month has created again is
\* there to be read, without what it held (store.go:185).
ReadMissesNothing == [][ReadEnds => rd.must \subseteq rd.got]_vars

\* After every complete collection the stream is within its limits: apart from
\* the segment that received the event, which is never removed, at most
\* retainedMonths months are there, and nothing is when the total is still too
\* large (store.go:124).
StreamIsBounded ==
    settled # None =>
        LET rest == Existing \ {settled} IN
        /\ settled \in Existing
        /\ Cardinality({s.month : s \in rest}) <= retainedMonths
        /\ Total(stream) > maxTotalBytes => rest = {}

=============================================================================
