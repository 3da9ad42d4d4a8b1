--------------------------- MODULE TelemetryProofs ---------------------------
(* Theorems about Telemetry, for any number of calls, months and segments.  *)
EXTENDS Telemetry, FiniteSetTheorems, SequenceTheorems, WellFoundedInduction, TLAPS

----------------------------------------------------------------------------
(* The inductive invariant *)

\* Types, without the bound on sequence numbers that counting the calls gives.
AnySegment == [month : Months, sequence : Nat]
AnyLine == [event : Calls, size : Nat, whole : BOOLEAN]
AnyFrame ==
  [pc : {"idle", "handle", "deferred", "lock", "append", "gc", "done", "dead"},
   outcome : Ending \cup {None}, result : Result \cup {None},
   month : Months, segment : AnySegment \cup {None}]
AnyReader == [pc : {"idle", "reading"}, todo : SUBSET AnySegment,
              got : SUBSET Calls, must : SUBSET Calls]

StreamOK ==
  /\ Existing \subseteq AnySegment
  /\ \A s \in Existing : stream[s] \in Seq(AnyLine)
  /\ \E n \in Nat : \A s \in Existing : s.sequence <= n

\* Whoever writes or collects holds the lock; a call has an outcome from its end
\* on, with the result that Execute gives it, and after the deferred function one
\* that is honest.
FrameOK(c, f, holder) ==
  /\ f.pc \in {"idle", "handle"} => f.outcome = None
  /\ f.pc = "deferred" => f.outcome \in Ending /\ f.result = Returned(f.outcome)
  /\ f.pc \in {"lock", "append", "gc", "done"} =>
       /\ f.outcome \in Ending /\ f.result \in Result
       /\ Contract!Honest(Seen(f.outcome), Sent(f.result))
  /\ f.pc \in {"append", "gc"} => holder = c

\* Where the event of a call is: nowhere before it is written, and, once it is,
\* only in the segment that the call remembers.
BeforePc == {"idle", "handle", "deferred", "lock", "append"}
EventOK(c) ==
  /\ c \in acked => call[c].pc = "done"
  /\ call[c].pc \in BeforePc =>
       \A s \in Existing : \A i \in DOMAIN stream[s] : stream[s][i].event # c
  /\ call[c].pc = "gc" \/ c \in acked =>
       \A s \in Existing : \A i \in DOMAIN stream[s] :
         stream[s][i].event = c => s = call[c].segment

\* What a read owes is read already or in a segment that is still to be read,
\* in which, if it exists, it can be decoded.
ReaderOK ==
  rd.pc = "reading" => \A e \in rd.must :
    /\ e \in acked
    /\ \/ e \in rd.got
       \/ /\ call[e].segment \in rd.todo
          /\ call[e].segment \in Existing => e \in Readable(call[e].segment)

\* A collection is under way, or the stream is within its limits.
CollectionOK ==
  /\ \A c \in Calls : call[c].pc = "gc" =>
       settled = None /\ call[c].segment \in Existing
  /\ settled # None => settled \in Existing /\ Expired \subseteq {settled}
                       /\ (Total(stream) > maxTotalBytes => Existing \ {settled} = {})

TypeInv ==
  /\ StreamOK
  /\ call \in [Calls -> AnyFrame]
  /\ month \in Months
  /\ rd \in AnyReader
  /\ acked \subseteq Calls
  /\ \A c \in Calls : FrameOK(c, call[c], lock)

TelemetryInv == TypeInv /\ (\A c \in Calls : EventOK(c)) /\ ReaderOK /\ CollectionOK

----------------------------------------------------------------------------
(* Values *)

\* The envelopes that the pipeline makes itself.
LEMMA OwnEnvelopes ==
  /\ Failed \in Result /\ Blocked \in Result
  /\ Failed.status = "failed" /\ Failed.data = 0 /\ Failed.encodes = TRUE
  /\ Blocked.status = "blocked" /\ Blocked.data = 0 /\ Blocked.encodes = TRUE
<1>1. 0 \in 0 .. MaxData
  BY TelemetryAssumption
<1> DEFINE D == 0 .. MaxData
<1>2. Result = [status : Statuses, data : D, encodes : BOOLEAN]
  BY DEF Result
<1>3. 0 \in D
  BY <1>1
<1> HIDE DEF D
<1> QED
  BY <1>2, <1>3 DEF Statuses, Failed, Blocked

\* A result without its data.
LEMMA CutType ==
  ASSUME NEW r \in Result, NEW cut, cut = [r EXCEPT !.status = "partial", !.data = 0]
  PROVE  cut \in Result /\ cut.status = "partial" /\ cut.data = 0
<1>1. 0 \in 0 .. MaxData
  BY TelemetryAssumption
<1> DEFINE D == 0 .. MaxData
<1>2. Result = [status : Statuses, data : D, encodes : BOOLEAN]
  BY DEF Result
<1>3. 0 \in D
  BY <1>1
<1> HIDE DEF D
<1> QED
  BY <1>2, <1>3 DEF Statuses

\* The result of Execute before its deferred function.
LEMMA ReturnedType == \A o \in Ending : Returned(o) \in Result \cup {None}
<1> SUFFICES ASSUME NEW o \in Ending PROVE Returned(o) \in Result \cup {None}
  OBVIOUS
<1>1. Failed \in Result /\ Blocked \in Result
  BY OwnEnvelopes
<1>2. o.value \in Result
  BY DEF Ending
<1> HIDE DEF Result
<1> QED
  BY <1>1, <1>2 DEF Returned

\* The error mapping, recover and the cap together give an honest envelope.
LEMMA RecoveredHonest ==
  ASSUME NEW f, f.outcome \in Ending, f.result = Returned(f.outcome)
  PROVE  Recovered(f) \in Result /\ Contract!Honest(Seen(f.outcome), Sent(Recovered(f)))
<1>1. PICK o \in Ending : o = f.outcome
  OBVIOUS
<1>2. PICK v \in Result : v = o.value
  BY DEF Ending
<1>3. /\ v.status \in Statuses /\ v.data \in 0 .. MaxData /\ v.encodes \in BOOLEAN
      /\ o.end \in {"bad_spec", "large_input", "panic", "error", "value"} /\ o # None
  BY EndsAssumption DEF Result, Ending
<1>4. PICK r \in Result : r = IF o.end = "panic" THEN Failed ELSE f.result
  BY <1>1, <1>2, <1>3, OwnEnvelopes DEF Returned
<1>5. /\ o.end \in {"bad_spec", "panic", "error"} => r = Failed
      /\ o.end = "large_input" => r = Blocked
      /\ o.end = "value" => r = v
  BY <1>1, <1>2, <1>3, <1>4 DEF Returned
<1>6. /\ Failed.status = "failed" /\ Failed.data = 0 /\ Failed.encodes = TRUE /\ Failed \in Result
      /\ Blocked.status = "blocked" /\ Blocked.data = 0 /\ Blocked.encodes = TRUE
  BY OwnEnvelopes
<1> DEFINE ok(x) == MaxOutputBytes = 0 \/ Encoded(x) <= MaxOutputBytes
           cut == [r EXCEPT !.status = "partial", !.data = 0]
<1>7. cut \in Result /\ cut.status = "partial" /\ cut.data = 0
  BY CutType
<1>8. PICK q : q = Recovered(f)
  OBVIOUS
<1>9. /\ ~r.encodes => q = Failed
      /\ r.encodes /\ ok(r) => q = r
      /\ r.encodes /\ ~ok(r) => q = cut
  BY <1>1, <1>4, <1>8 DEF Recovered, capOutput
<1>10. (r = Failed => ok(r)) /\ (r = Blocked => ok(r))
  BY <1>6, TelemetryAssumption DEF Encoded
<1>11. Seen(o) = [end |-> o.end, status |-> v.status, data |-> v.data # 0, fits |-> ok(v), encodes |-> v.encodes]
  BY <1>2, <1>3 DEF Seen
<1>12. /\ Sent(q) = [status |-> q.status, data |-> q.data # 0]
       /\ q.data = 0 => Sent(q) = [status |-> q.status, data |-> FALSE]
  BY DEF Sent
<1>13. r.encodes \in BOOLEAN /\ ok(r) \in BOOLEAN /\ ok(v) \in BOOLEAN
  BY DEF Result
<1> HIDE DEF ok, cut
<1>14. q \in Result
  BY <1>6, <1>7, <1>9, <1>13
<1>15. Contract!Honest(Seen(o), Sent(q))
  <2>1. CASE o.end # "value"
    <3>1. q = r /\ r \in {Failed, Blocked} /\ (o.end = "large_input" <=> r = Blocked)
      BY <1>3, <1>5, <1>6, <1>9, <1>10, <2>1
    <3>2. q.data = 0 /\ q.status \in {"failed", "blocked"} /\ (o.end = "large_input" <=> q.status = "blocked")
      BY <1>6, <3>1
    <3> QED
      BY <1>11, <1>12, <2>1, <3>2 DEF Contract!Honest, Contract!Complete
  <2>2. CASE o.end = "value" /\ ~v.encodes
    <3>1. q.status = "failed" /\ q.data = 0
      BY <1>5, <1>6, <1>9, <2>2
    <3> QED
      BY <1>11, <1>12, <2>2, <3>1 DEF Contract!Honest, Contract!Complete
  <2>3. CASE o.end = "value" /\ v.encodes /\ ok(v)
    <3>1. q = v
      BY <1>5, <1>9, <2>3
    <3> QED
      BY <1>11, <1>12, <2>3, <3>1 DEF Contract!Honest, Contract!Complete
  <2>4. CASE o.end = "value" /\ v.encodes /\ ~ok(v)
    <3>1. q.status = "partial" /\ q.data = 0
      BY <1>5, <1>7, <1>9, <2>4
    <3> QED
      BY <1>11, <1>12, <2>4, <3>1 DEF Contract!Honest, Contract!Complete
  <2> QED
    BY <1>3, <1>13, <2>1, <2>2, <2>3, <2>4
<1> QED
  BY <1>1, <1>8, <1>14, <1>15

\* Every set of numbers has a least one.
LEMMA LeastOf == ASSUME NEW S \in SUBSET Nat, S # {} PROVE \E m \in S : \A n \in S : m <= n
<1> DEFINE R == {ss \in Nat \X Nat : ss[1] < ss[2]}
<1>1. IsWellFoundedOn(R, Nat)
  BY NatLessThanWellFounded DEF OpToRel
<1>2. \A x, y \in Nat : x < y => <<x, y>> \in R
  OBVIOUS
<1> HIDE DEF R
<1>3. PICK m \in S : \A n \in S : <<n, m>> \notin R
  BY <1>1, WFMin
<1>4. ASSUME NEW n \in S PROVE m <= n
  <2>1. n \in Nat /\ m \in Nat
    OBVIOUS
  <2>2. ~(n < m)
    BY <1>2, <1>3, <2>1, Zenon
  <2> QED  BY <2>1, <2>2
<1> QED
  BY <1>4

\* A set of segments whose sequence numbers are bounded has a newest one.
LEMMA NewestOf ==
  ASSUME NEW S \in SUBSET AnySegment, S # {}, NEW n \in Nat, \A s \in S : s.sequence <= n
  PROVE  \E s \in S : \A t \in S : t.sequence <= s.sequence
<1> DEFINE B == {k \in Nat : \A s \in S : s.sequence <= k}
<1>0. \A s \in S : s.sequence \in Nat
  BY DEF AnySegment
<1>1. PICK k \in B : \A j \in B : k <= j
  BY LeastOf
<1>2. CASE k = 0
  BY <1>0, <1>1, <1>2
<1>3. CASE k # 0
  <2>1. k - 1 \in Nat /\ k - 1 \notin B
    BY <1>1, <1>3
  <2>2. PICK s \in S : ~(s.sequence <= k - 1)
    BY <2>1
  <2>3. s.sequence = k
    BY <1>0, <1>1, <2>1, <2>2
  <2> QED
    BY <1>1, <2>3
<1> QED
  BY <1>2, <1>3

\* The first month is one of the months.
LEMMA FirstMonth == 0 \in Months
BY TelemetryAssumption DEF Months

\* nextSegmentPath names a segment of the month.
LEMMA NextSegmentType ==
  ASSUME StreamOK, NEW m \in Months, NEW k
  PROVE  nextSegmentPath(m, k) \in AnySegment
<1> DEFINE mine == {s \in Existing : s.month = m}
           newest == IF mine = {} THEN [month |-> m, sequence |-> 0]
                     ELSE CHOOSE s \in mine : \A t \in mine : t.sequence <= s.sequence
<1>1. newest \in AnySegment
  <2>1. CASE mine = {}
    BY <2>1 DEF AnySegment
  <2>2. CASE mine # {}
    <3>1. \E s \in mine : \A t \in mine : t.sequence <= s.sequence
      BY <2>2, NewestOf DEF StreamOK
    <3> QED
      BY <2>2, <3>1 DEF StreamOK
  <2> QED
    BY <2>1, <2>2
<1>2. nextSegmentPath(m, k) \in {newest, [newest EXCEPT !.sequence = @ + 1]}
  BY DEF nextSegmentPath
<1> HIDE DEF newest
<1> QED
  BY <1>1, <1>2 DEF AnySegment

\* What an append does to the stream: the lines go to the end of one segment.
LEMMA AppendedParts ==
  ASSUME StreamOK, NEW s \in AnySegment, NEW lines \in Seq(AnyLine), stream' = Appended(s, lines)
  PROVE  /\ Existing' = Existing \cup {s}
         /\ \A t \in Existing \ {s} : stream'[t] = stream[t]
         /\ stream'[s] = (IF s \in Existing THEN stream[s] ELSE <<>>) \o lines
<1>1. Existing' = Existing \cup {s}
  BY DEF Appended, Existing
<1>2. ASSUME NEW t \in Existing \ {s} PROVE stream'[t] = stream[t]
  <2>1. stream'[t] = stream[t] \o <<>>
    BY DEF Appended
  <2> QED
    BY <2>1, ConcatEmptySeq DEF StreamOK
<1>3. stream'[s] = (IF s \in Existing THEN stream[s] ELSE <<>>) \o lines
  BY DEF Appended
<1> QED
  BY <1>1, <1>2, <1>3

\* The lines of the stream after an append: the old ones where they were, and
\* the new ones.
LEMMA AppendedLines ==
  ASSUME StreamOK, NEW s \in AnySegment, NEW lines \in Seq(AnyLine), stream' = Appended(s, lines)
  PROVE  /\ StreamOK'
         /\ \A t \in Existing' : \A i \in DOMAIN stream'[t] :
              \/ t \in Existing /\ i \in DOMAIN stream[t] /\ stream'[t][i] = stream[t][i]
              \/ t = s /\ \E k \in DOMAIN lines : stream'[t][i] = lines[k]
         /\ \A t \in Existing : \A i \in DOMAIN stream[t] :
              i \in DOMAIN stream'[t] /\ stream'[t][i] = stream[t][i]
<1> DEFINE old == IF s \in Existing THEN stream[s] ELSE <<>>
<1>1. /\ Existing' = Existing \cup {s}
      /\ \A t \in Existing \ {s} : stream'[t] = stream[t]
      /\ stream'[s] = old \o lines
  BY AppendedParts
<1>2. old \in Seq(AnyLine)
  BY DEF StreamOK
<1>3. s \in Existing => old = stream[s]
  OBVIOUS
<1>9. s \notin Existing => old = <<>>
  OBVIOUS
<1> HIDE DEF old
<1>4. /\ stream'[s] \in Seq(AnyLine) /\ Len(stream'[s]) = Len(old) + Len(lines)
      /\ \A i \in 1 .. Len(old) + Len(lines) :
           stream'[s][i] = IF i <= Len(old) THEN old[i] ELSE lines[i - Len(old)]
  BY <1>1, <1>2, ConcatProperties
<1>5. /\ DOMAIN stream'[s] = 1 .. Len(old) + Len(lines) /\ DOMAIN old = 1 .. Len(old)
      /\ DOMAIN lines = 1 .. Len(lines) /\ Len(old) \in Nat /\ Len(lines) \in Nat
  BY <1>2, <1>4, LenProperties
<1>6. \A i \in DOMAIN stream'[s] :
        \/ i \in DOMAIN old /\ stream'[s][i] = old[i]
        \/ \E k \in DOMAIN lines : stream'[s][i] = lines[k]
  <2> SUFFICES ASSUME NEW i \in 1 .. Len(old) + Len(lines)
               PROVE  \/ i \in 1 .. Len(old) /\ stream'[s][i] = old[i]
                      \/ \E k \in 1 .. Len(lines) : stream'[s][i] = lines[k]
    BY <1>5
  <2>1. CASE i <= Len(old)
    BY <1>4, <1>5, <2>1
  <2>2. CASE ~(i <= Len(old))
    <3>1. i - Len(old) \in 1 .. Len(lines)
      BY <1>5, <2>2
    <3>2. stream'[s][i] = lines[i - Len(old)]
      BY <1>4, <2>2
    <3> QED
      BY <3>1, <3>2
  <2> QED
    BY <2>1, <2>2
<1>7. \A i \in DOMAIN old : i \in DOMAIN stream'[s] /\ stream'[s][i] = old[i]
  BY <1>4, <1>5
<1>8. StreamOK'
  <2>1. PICK n \in Nat : \A t \in Existing : t.sequence <= n
    BY DEF StreamOK
  <2>2. s.sequence \in Nat /\ \A t \in Existing : t.sequence \in Nat
    BY DEF StreamOK, AnySegment
  <2>3. \A t \in Existing' : t.sequence <= n + s.sequence
    BY <1>1, <2>1, <2>2
  <2>4. Existing' \subseteq AnySegment
    BY <1>1 DEF StreamOK
  <2>5. \A t \in Existing' : stream'[t] \in Seq(AnyLine)
    BY <1>1, <1>4 DEF StreamOK
  <2>6. n + s.sequence \in Nat
    BY <2>2
  <2> QED
    BY <2>3, <2>4, <2>5, <2>6 DEF StreamOK
<1>10. DOMAIN <<>> = {}
  OBVIOUS
<1>11. ASSUME NEW t \in Existing', NEW i \in DOMAIN stream'[t]
       PROVE  \/ t \in Existing /\ i \in DOMAIN stream[t] /\ stream'[t][i] = stream[t][i]
              \/ t = s /\ \E k \in DOMAIN lines : stream'[t][i] = lines[k]
  <2>1. CASE t = s
    BY <1>3, <1>6, <1>9, <1>10, <2>1, Zenon
  <2>2. CASE t # s
    BY <1>1, <2>2
  <2> QED
    BY <2>1, <2>2
<1>12. ASSUME NEW t \in Existing, NEW i \in DOMAIN stream[t]
       PROVE  i \in DOMAIN stream'[t] /\ stream'[t][i] = stream[t][i]
  <2>1. CASE t = s
    BY <1>3, <1>7, <2>1
  <2>2. CASE t # s
    BY <1>1, <2>2
  <2> QED
    BY <2>1, <2>2
<1> QED
  BY <1>8, <1>11, <1>12

\* A line that could be decoded still can be: the stream is only appended to.
LEMMA AppendedReadable ==
  ASSUME StreamOK, NEW s \in AnySegment, NEW lines \in Seq(AnyLine), stream' = Appended(s, lines)
  PROVE  \A t \in Existing : t \in Existing' /\ Readable(t) \subseteq Readable(t)'
<1>0. Existing' = Existing \cup {s}
  BY AppendedParts
<1> SUFFICES ASSUME NEW t \in Existing, NEW i \in DOMAIN stream[t],
                    stream[t][i].whole /\ (i > 1 => stream[t][i - 1].whole)
             PROVE  stream[t][i].event \in Readable(t)'
  BY <1>0 DEF Readable
<1>1. \A j \in DOMAIN stream[t] : j \in DOMAIN stream'[t] /\ stream'[t][j] = stream[t][j]
  BY AppendedLines
<1>2. i \in Nat /\ (i > 1 => i - 1 \in DOMAIN stream[t])
  BY DEF StreamOK
<1> QED
  BY <1>1, <1>2 DEF Readable

----------------------------------------------------------------------------
(* Steps *)

\* What is known of the call that moves.
LEMMA CallParts ==
  ASSUME TelemetryInv, NEW c \in Calls
  PROVE  /\ call[c] \in AnyFrame /\ call[c].month \in Months
         /\ FrameOK(c, call[c], lock) /\ EventOK(c)
BY DEF TelemetryInv, TypeInv, AnyFrame

\* A step of a call that leaves the stream and the reader alone, on a path where
\* the event is not written or stays where it is.
LEMMA CallStep ==
  ASSUME TelemetryInv, NEW c \in Calls, NEW f \in AnyFrame, call' = [call EXCEPT ![c] = f],
         UNCHANGED <<stream, month, rd, acked, settled>>,
         call[c].pc # "done",
         f.pc \in BeforePc => call[c].pc \in BeforePc, f.pc # "gc",
         FrameOK(c, f, lock'), lock' = lock \/ lock \in {c, None}
  PROVE  TelemetryInv'
<1>0. /\ call \in [Calls -> AnyFrame] /\ call'[c] = f
      /\ \A d \in Calls \ {c} : call'[d] = call[d]
      /\ Existing' = Existing
  BY DEF TelemetryInv, TypeInv, Existing
<1>1. ASSUME NEW d \in Calls PROVE FrameOK(d, call[d], lock)'
  <2>1. CASE d = c
    BY <1>0, <2>1 DEF FrameOK
  <2>2. CASE d # c
    <3>1. call'[d] = call[d] /\ FrameOK(d, call[d], lock)
      BY <1>0, <2>2 DEF TelemetryInv, TypeInv
    <3>2. call[d].pc \in {"append", "gc"} => lock' = d
      BY <2>2, <3>1, TelemetryAssumption DEF FrameOK
    <3> QED
      BY <3>1, <3>2 DEF FrameOK
  <2> QED
    BY <2>1, <2>2
<1>2. TypeInv'
  <2>1. call' \in [Calls -> AnyFrame]
    BY DEF TelemetryInv, TypeInv
  <2>2. StreamOK'
    BY <1>0 DEF TelemetryInv, TypeInv, StreamOK
  <2> QED
    BY <1>1, <2>1, <2>2 DEF TelemetryInv, TypeInv
<1>3. ASSUME NEW d \in Calls PROVE EventOK(d)'
  BY <1>0 DEF TelemetryInv, EventOK, BeforePc
<1>4. ReaderOK'
  <2>1. rd.must \subseteq Calls
    BY DEF TelemetryInv, TypeInv, AnyReader
  <2>2. c \notin acked
    BY CallParts DEF EventOK
  <2>3. \A e \in rd.must : rd.pc = "reading" => call'[e] = call[e]
    BY <1>0, <2>1, <2>2 DEF TelemetryInv, ReaderOK
  <2> QED
    BY <1>0, <2>3 DEF TelemetryInv, ReaderOK, Readable
<1>5. CollectionOK'
  <2>1. MonthsKept' = MonthsKept
    BY <1>0 DEF MonthsKept
  <2>2. Expired' = Expired
    BY <1>0, <2>1 DEF Expired
  <2> QED
    BY <1>0, <2>2 DEF TelemetryInv, CollectionOK
<1> QED
  BY <1>2, <1>3, <1>4, <1>5 DEF TelemetryInv

\* The call returns what it has.
LEMMA ReturnFrame ==
  ASSUME TelemetryInv, NEW c \in Calls, Return(c), call[c].pc \in {"append", "gc"}
  PROVE  \E f \in AnyFrame :
           /\ call' = [call EXCEPT ![c] = f] /\ f.pc = "done" /\ f.segment = call[c].segment
           /\ f.outcome = call[c].outcome /\ f.result = call[c].result
           /\ \A holder : FrameOK(c, f, holder)
<1> DEFINE f == [call[c] EXCEPT !.pc = "done"]
<1>1. call[c] \in AnyFrame /\ FrameOK(c, call[c], lock)
  BY CallParts
<1>2. f \in AnyFrame
  BY <1>1 DEF AnyFrame
<1>3. /\ f.pc = "done" /\ f.segment = call[c].segment
      /\ f.outcome = call[c].outcome /\ f.result = call[c].result
  BY <1>1 DEF AnyFrame
<1>4. call' = [call EXCEPT ![c] = f]
  BY DEF Return
<1> HIDE DEF f
<1>5. \A holder : FrameOK(c, f, holder)
  BY <1>1, <1>3 DEF FrameOK
<1> QED
  BY <1>2, <1>3, <1>4, <1>5

\* The call comes to its end, by a refusal or in its handler.
LEMMA EndedInv ==
  ASSUME TelemetryInv, NEW c \in Calls, NEW o \in Ending, Ended(c, o), Stay,
         call[c].pc \in {"idle", "handle"}
  PROVE  TelemetryInv'
<1> DEFINE f == [call[c] EXCEPT !.pc = "deferred", !.outcome = o, !.result = Returned(o)]
<1>1. call[c] \in AnyFrame
  BY CallParts
<1>2. f \in AnyFrame
  BY <1>1, ReturnedType DEF AnyFrame
<1>3. f.pc = "deferred" /\ f.outcome = o /\ f.result = Returned(o)
  BY <1>1 DEF AnyFrame
<1>4. /\ call' = [call EXCEPT ![c] = f]
      /\ UNCHANGED <<stream, month, rd, acked, settled>> /\ lock' = lock
  BY DEF Ended, Stay
<1> HIDE DEF f
<1>5. FrameOK(c, f, lock')
  BY <1>3 DEF FrameOK
<1> QED
  BY <1>2, <1>3, <1>4, <1>5, CallStep DEF BeforePc

\* The ends that a request or a handler can come to.
LEMMA EndsType ==
  ASSUME NEW c \in Calls
  PROVE  /\ \A o \in Ends[c] : o \in Ending
         /\ \A refusal \in Request[c] \ {"none"} : [end |-> refusal, value |-> Failed] \in Ending
<1>1. \A o \in Ends[c] : o \in Ending
  BY EndsAssumption
<1>2. Failed \in Result
  BY OwnEnvelopes
<1>3. \A refusal \in Request[c] : refusal \in {"none", "bad_spec", "large_input"}
  BY EndsAssumption
<1>4. \A refusal \in {"bad_spec", "large_input"} : [end |-> refusal, value |-> Failed] \in Ending
  BY <1>2 DEF Ending
<1> QED
  BY <1>1, <1>3, <1>4

\* The deferred function has run, and the event is due or the call is done.
LEMMA RecoveredFrame ==
  ASSUME TelemetryInv, NEW c \in Calls, call[c].pc = "deferred", NEW m \in Months,
         NEW l \in {"lock", "done"}, NEW f,
         f = [call[c] EXCEPT !.pc = l, !.result = Recovered(call[c]), !.month = m]
  PROVE  /\ f \in AnyFrame /\ f.pc = l /\ f.outcome = call[c].outcome
         /\ f.result = Recovered(call[c]) /\ \A holder : FrameOK(c, f, holder)
<1>1. call[c] \in AnyFrame /\ call[c].outcome \in Ending /\ call[c].result = Returned(call[c].outcome)
  BY CallParts DEF FrameOK
<1>2. PICK r \in Result : r = Recovered(call[c]) /\ Contract!Honest(Seen(call[c].outcome), Sent(r))
  BY <1>1, RecoveredHonest
<1>3. f \in AnyFrame
  BY <1>1, <1>2 DEF AnyFrame
<1>4. f.pc = l /\ f.outcome = call[c].outcome /\ f.result = r
  BY <1>1, <1>2 DEF AnyFrame
<1>5. \A holder : FrameOK(c, f, holder)
  BY <1>1, <1>2, <1>4 DEF FrameOK
<1> QED
  BY <1>2, <1>3, <1>4, <1>5

\* The steps of a call outside the stream.
LEMMA QuietSteps ==
  ASSUME TelemetryInv, NEW c \in Calls,
         \/ Execute(c) \/ HandlerEnds(c) \/ Stamp(c) \/ NoEvent(c) \/ EmitLock(c) \/ GcFails(c)
         \/ AppendFails(c) /\ UNCHANGED <<stream, rd, settled>>
         \/ Crash(c) /\ UNCHANGED <<stream, rd, settled>>
  PROVE  TelemetryInv'
<1>0. /\ call[c] \in AnyFrame /\ FrameOK(c, call[c], lock) /\ call[c].month \in Months
      /\ month \in Months
  BY CallParts DEF TelemetryInv, TypeInv
<1>1. CASE Execute(c) /\ call' = [call EXCEPT ![c].pc = "handle"]
  <2> DEFINE f == [call[c] EXCEPT !.pc = "handle"]
  <2>1. f \in AnyFrame /\ f.pc = "handle" /\ f.outcome = call[c].outcome
    BY <1>0 DEF AnyFrame
  <2>2. /\ call[c].pc = "idle" /\ call' = [call EXCEPT ![c] = f]
        /\ UNCHANGED <<stream, month, rd, acked, settled>> /\ lock' = lock
    BY <1>1 DEF Execute, Stay
  <2> HIDE DEF f
  <2>3. FrameOK(c, f, lock')
    BY <1>0, <2>1, <2>2 DEF FrameOK
  <2> QED
    BY <2>1, <2>2, <2>3, CallStep DEF BeforePc
<1>2. CASE \E refusal \in Request[c] \ {"none"} : Execute(c) /\ Ended(c, [end |-> refusal, value |-> Failed])
  <2>1. PICK refusal \in Request[c] \ {"none"} : Execute(c) /\ Ended(c, [end |-> refusal, value |-> Failed])
    BY <1>2
  <2>2. PICK o \in Ending : o = [end |-> refusal, value |-> Failed]
    BY EndsType
  <2>3. Ended(c, o) /\ Stay /\ call[c].pc = "idle"
    BY <2>1, <2>2 DEF Execute
  <2> QED
    BY <2>3, EndedInv
<1>3. CASE HandlerEnds(c)
  <2>1. PICK o \in Ends[c] : Ended(c, o)
    BY <1>3 DEF HandlerEnds
  <2>2. o \in Ending /\ Stay /\ call[c].pc = "handle"
    BY <1>3, EndsType DEF HandlerEnds
  <2> QED
    BY <2>1, <2>2, EndedInv
<1>4. CASE EmitLock(c)
  <2> DEFINE f == [call[c] EXCEPT !.pc = "append"]
  <2>1. f \in AnyFrame /\ f.pc = "append" /\ f.segment = call[c].segment
        /\ f.outcome = call[c].outcome /\ f.result = call[c].result
    BY <1>0 DEF AnyFrame
  <2>2. /\ call[c].pc = "lock" /\ call' = [call EXCEPT ![c] = f]
        /\ UNCHANGED <<stream, month, rd, acked, settled>> /\ lock = None /\ lock' = c
    BY <1>4 DEF EmitLock
  <2> HIDE DEF f
  <2>3. FrameOK(c, f, lock')
    BY <1>0, <2>1, <2>2 DEF FrameOK
  <2> QED
    BY <2>1, <2>2, <2>3, CallStep DEF BeforePc
<1>5. CASE Stamp(c)
  <2> DEFINE f == [call[c] EXCEPT !.pc = "lock", !.result = Recovered(call[c]), !.month = month]
  <2>1. call' = [call EXCEPT ![c] = f]
    BY <1>5 DEF Stamp
  <2>2. call[c].pc = "deferred" /\ UNCHANGED <<stream, month, rd, acked, settled>> /\ lock' = lock
    BY <1>5 DEF Stamp, Stay
  <2>3. f \in AnyFrame /\ f.pc = "lock" /\ \A holder : FrameOK(c, f, holder)
    <3>1. PICK g : g = f
      OBVIOUS
    <3> HIDE DEF f
    <3>2. g \in AnyFrame /\ g.pc = "lock" /\ \A holder : FrameOK(c, g, holder)
      BY <1>0, <2>2, <3>1, RecoveredFrame DEF f
    <3> QED
      BY <3>1, <3>2
  <2> HIDE DEF f
  <2> QED
    BY <2>1, <2>2, <2>3, CallStep DEF BeforePc
<1>8. CASE NoEvent(c)
  <2> DEFINE f == [call[c] EXCEPT !.pc = "done", !.result = Recovered(call[c])]
             h == [call[c] EXCEPT !.pc = "done", !.result = Recovered(call[c]), !.month = call[c].month]
  <2>1. call' = [call EXCEPT ![c] = f]
    BY <1>8 DEF NoEvent
  <2>2. call[c].pc = "deferred" /\ UNCHANGED <<stream, month, rd, acked, settled>> /\ lock' = lock
    BY <1>8 DEF NoEvent, Stay
  <2>3. f = h
    BY <1>0 DEF AnyFrame
  <2>4. f \in AnyFrame /\ f.pc = "done" /\ \A holder : FrameOK(c, f, holder)
    <3>1. PICK g : g = h
      OBVIOUS
    <3> HIDE DEF f, h
    <3>3. PICK m \in Months : m = call[c].month
      BY <1>0
    <3>4. g = [call[c] EXCEPT !.pc = "done", !.result = Recovered(call[c]), !.month = m]
      BY <3>1, <3>3 DEF h
    <3>2. g \in AnyFrame /\ g.pc = "done" /\ \A holder : FrameOK(c, g, holder)
      BY <2>2, <3>4, RecoveredFrame
    <3> QED
      BY <2>3, <3>1, <3>2
  <2> HIDE DEF f
  <2> QED
    BY <2>1, <2>2, <2>4, CallStep DEF BeforePc
<1>6. CASE Crash(c) /\ UNCHANGED <<stream, rd, settled>>
  <2> DEFINE f == [call[c] EXCEPT !.pc = "dead", !.result = None, !.month = 0, !.segment = None]
  <2>1. f \in AnyFrame /\ f.pc = "dead"
    BY <1>0, FirstMonth DEF AnyFrame
  <2>2. /\ call[c].pc # "done" /\ call' = [call EXCEPT ![c] = f]
        /\ UNCHANGED <<stream, month, rd, acked, settled>> /\ (lock' = lock \/ lock = c)
    BY <1>6 DEF Crash
  <2> HIDE DEF f
  <2>3. FrameOK(c, f, lock')
    BY <2>1 DEF FrameOK
  <2> QED
    BY <2>1, <2>2, <2>3, CallStep DEF BeforePc
<1>7. CASE GcFails(c) \/ (AppendFails(c) /\ UNCHANGED <<stream, rd, settled>>)
  <2>0. /\ Return(c) /\ call[c].pc \in {"append", "gc"}
        /\ UNCHANGED <<stream, month, rd, acked, settled>> /\ lock' = None /\ lock = c
    BY <1>0, <1>7 DEF GcFails, AppendFails, FrameOK
  <2>1. PICK f \in AnyFrame :
           /\ call' = [call EXCEPT ![c] = f] /\ f.pc = "done" /\ f.segment = call[c].segment
           /\ f.outcome = call[c].outcome /\ f.result = call[c].result
           /\ \A holder : FrameOK(c, f, holder)
    BY <2>0, ReturnFrame
  <2> QED
    BY <2>0, <2>1, CallStep DEF BeforePc
<1> QED
  BY <1>1, <1>2, <1>3, <1>4, <1>5, <1>6, <1>7, <1>8 DEF Execute

\* Lines are appended by the call that holds the lock, whatever becomes of the
\* call then.
LEMMA AppendStep ==
  ASSUME TelemetryInv, NEW c \in Calls, call[c].pc = "append",
         NEW s \in AnySegment, NEW lines \in Seq(AnyLine), AppendLines(s, lines),
         \A k \in DOMAIN lines : lines[k].event = c,
         NEW f \in AnyFrame, call' = [call EXCEPT ![c] = f], FrameOK(c, f, lock'),
         f.pc \in {"gc", "done", "dead"}, f.pc = "gc" => f.segment = s,
         UNCHANGED <<month, acked>>
  PROVE  TelemetryInv'
<1>0. /\ call \in [Calls -> AnyFrame] /\ call'[c] = f
      /\ \A d \in Calls \ {c} : call'[d] = call[d]
      /\ rd' = StillDue(s) /\ settled' = None /\ rd \in AnyReader /\ acked \subseteq Calls
  BY DEF TelemetryInv, TypeInv, AppendLines
<1>1. stream' = Appended(s, lines) /\ StreamOK
  BY DEF AppendLines, TelemetryInv, TypeInv
<1>2. c \notin acked /\ \A d \in Calls \ {c} : call[d].pc \notin {"append", "gc"}
  <2>1. lock = c
    BY CallParts DEF FrameOK
  <2> QED
    BY <2>1, CallParts DEF EventOK, FrameOK
<1>3. Existing' = Existing \cup {s}
  BY <1>1, AppendedParts
<1>4. rd' \in AnyReader /\ rd'.pc = rd.pc /\ rd'.todo = rd.todo /\ rd'.got = rd.got
      /\ rd'.must \subseteq rd.must
      /\ (s \in rd.todo \ Existing => \A e \in rd'.must : call[e].segment # s)
  BY <1>0 DEF StillDue, AnyReader
<1>5. TypeInv'
  <2>1. call' \in [Calls -> AnyFrame]
    BY <1>0
  <2>2. StreamOK'
    BY <1>1, AppendedLines
  <2>3. ASSUME NEW d \in Calls PROVE FrameOK(d, call[d], lock)'
    <3>1. CASE d = c
      BY <1>0, <3>1 DEF FrameOK
    <3>2. CASE d # c
      <4>1. FrameOK(d, call[d], lock) /\ call[d].pc \notin {"append", "gc"} /\ call'[d] = call[d]
        BY <1>0, <1>2, <3>2, CallParts
      <4> QED
        BY <4>1 DEF FrameOK
    <3> QED
      BY <3>1, <3>2
  <2> QED
    BY <1>4, <2>1, <2>2, <2>3 DEF TelemetryInv, TypeInv
<1>6. ASSUME NEW d \in Calls PROVE EventOK(d)'
  <2>0. EventOK(d) /\ EventOK(c)
    BY CallParts
  <2>1. \A t \in Existing' : \A i \in DOMAIN stream'[t] :
          \/ t \in Existing /\ i \in DOMAIN stream[t] /\ stream'[t][i] = stream[t][i]
          \/ t = s /\ stream'[t][i].event = c
    <3>1. \A t \in Existing' : \A i \in DOMAIN stream'[t] :
            \/ t \in Existing /\ i \in DOMAIN stream[t] /\ stream'[t][i] = stream[t][i]
            \/ t = s /\ \E k \in DOMAIN lines : stream'[t][i] = lines[k]
      BY <1>1, AppendedLines
    <3> QED
      BY <3>1
  <2>2. CASE d = c
    <3>1. \A t \in Existing : \A i \in DOMAIN stream[t] : stream[t][i].event # c
      BY <2>0 DEF EventOK, BeforePc
    <3>2. \A t \in Existing' : \A i \in DOMAIN stream'[t] : stream'[t][i].event = c => t = s
      BY <2>1, <3>1
    <3> QED
      BY <1>0, <1>2, <2>2, <3>2 DEF EventOK, BeforePc
  <2>3. CASE d # c
    <3>1. call'[d] = call[d]
      BY <1>0, <2>3
    <3>2. \A t \in Existing' : \A i \in DOMAIN stream'[t] : stream'[t][i].event = d =>
            t \in Existing /\ i \in DOMAIN stream[t] /\ stream[t][i].event = d
      BY <1>1, <2>1, <2>3
    <3> QED
      BY <2>0, <3>1, <3>2 DEF EventOK
  <2> QED
    BY <2>2, <2>3
<1>7. ReaderOK'
  <2> SUFFICES ASSUME rd.pc = "reading", NEW e \in rd'.must
               PROVE  /\ e \in acked
                      /\ \/ e \in rd.got
                         \/ /\ call'[e].segment \in rd.todo
                            /\ call'[e].segment \in Existing' => e \in Readable(call[e].segment)'
    BY <1>4 DEF ReaderOK
  <2>1. /\ e \in acked
        /\ \/ e \in rd.got
           \/ /\ call[e].segment \in rd.todo
              /\ call[e].segment \in Existing => e \in Readable(call[e].segment)
    BY <1>4 DEF TelemetryInv, ReaderOK
  <2>2. call'[e] = call[e]
    BY <1>0, <1>2, <2>1
  <2>3. \A t \in Existing : Readable(t) \subseteq Readable(t)'
    BY <1>1, AppendedReadable
  <2>4. CASE e \in rd.got
    BY <2>1, <2>4
  <2>5. CASE e \notin rd.got
    <3>1. PICK t : t = call[e].segment
      OBVIOUS
    <3>2. t \in rd.todo /\ (t \in Existing => e \in Readable(t)) /\ call'[e].segment = t
      BY <2>1, <2>2, <2>5, <3>1
    <3>3. t \in Existing' => t \in Existing
      BY <1>3, <1>4, <3>1, <3>2
    <3>4. t \in Existing' => e \in Readable(t)'
      BY <2>3, <3>2, <3>3
    <3> QED
      BY <2>1, <3>2, <3>4
  <2> QED
    BY <2>4, <2>5
<1>8. CollectionOK'
  BY <1>0, <1>2, <1>3 DEF CollectionOK
<1> QED
  BY <1>5, <1>6, <1>7, <1>8 DEF TelemetryInv

\* What an append that is not completed leaves.
LEMMA RemainsParts ==
  ASSUME TelemetryInv, NEW c \in Calls, Remains(c)
  PROVE  \E s \in AnySegment, lines \in Seq(AnyLine) :
           AppendLines(s, lines) /\ \A k \in DOMAIN lines : lines[k].event = c
<1>1. PICK size \in 1 .. MaxEvent, whole \in BOOLEAN : \E written \in 0 .. size :
        AppendLines(nextSegmentPath(call[c].month, size),
          IF written = 0 THEN <<>> ELSE <<[event |-> c, size |-> written, whole |-> whole]>>)
  BY DEF Remains
<1>2. PICK written \in 0 .. size :
        AppendLines(nextSegmentPath(call[c].month, size),
          IF written = 0 THEN <<>> ELSE <<[event |-> c, size |-> written, whole |-> whole]>>)
  BY <1>1
<1>3. PICK s \in AnySegment : s = nextSegmentPath(call[c].month, size)
  BY CallParts, NextSegmentType DEF TelemetryInv, TypeInv
<1>8. written \in Nat
  BY TelemetryAssumption
<1>4. PICK line \in AnyLine : line = [event |-> c, size |-> written, whole |-> whole]
  BY <1>8, Zenon DEF AnyLine
<1>5. line.event = c
  BY <1>4
<1>6. PICK lines \in Seq(AnyLine) :
        /\ lines = IF written = 0 THEN <<>> ELSE <<line>>
        /\ \A k \in DOMAIN lines : lines[k].event = c
  <2>1. CASE written = 0
    <3>1. <<>> \in Seq(AnyLine) /\ \A k \in DOMAIN <<>> : <<>>[k].event = c
      OBVIOUS
    <3> QED
      BY <2>1, <3>1
  <2>2. CASE written # 0
    <3>1. <<line>> \in Seq(AnyLine) /\ \A k \in DOMAIN <<line>> : <<line>>[k].event = c
      BY <1>5
    <3> QED
      BY <2>2, <3>1
  <2> QED
    BY <2>1, <2>2
<1>7. AppendLines(s, lines)
  BY <1>2, <1>3, <1>4, <1>6
<1> QED
  BY <1>6, <1>7

\* The three appends: complete, failed, cut short by a crash.
LEMMA AppendSteps ==
  ASSUME TelemetryInv, NEW c \in Calls, WriteEvent(c) \/ AppendFails(c) \/ Crash(c)
  PROVE  TelemetryInv'
<1>0. /\ call[c] \in AnyFrame /\ FrameOK(c, call[c], lock)
      /\ \A size : nextSegmentPath(call[c].month, size) \in AnySegment
  BY CallParts, NextSegmentType DEF TelemetryInv, TypeInv
<1>1. CASE WriteEvent(c)
  <2>1. PICK size \in 1 .. MaxEvent :
          /\ AppendLines(nextSegmentPath(call[c].month, size), <<[event |-> c, size |-> size, whole |-> TRUE]>>)
          /\ call' = [call EXCEPT ![c].pc = "gc", ![c].segment = nextSegmentPath(call[c].month, size)]
    BY <1>1 DEF WriteEvent
  <2>2. PICK s \in AnySegment : s = nextSegmentPath(call[c].month, size)
    BY <1>0
  <2> DEFINE f == [call[c] EXCEPT !.pc = "gc", !.segment = s]
  <2>3. /\ f \in AnyFrame /\ f.pc = "gc" /\ f.segment = s
        /\ f.outcome = call[c].outcome /\ f.result = call[c].result
    BY <1>0 DEF AnyFrame
  <2>6. size \in Nat
    BY TelemetryAssumption
  <2>7. PICK line \in AnyLine : line = [event |-> c, size |-> size, whole |-> TRUE]
    BY <2>6, Zenon DEF AnyLine
  <2>8. PICK lines \in Seq(AnyLine) : lines = <<line>> /\ \A k \in DOMAIN lines : lines[k].event = c
    <3>1. line.event = c
      BY <2>7
    <3>2. <<line>> \in Seq(AnyLine) /\ \A k \in DOMAIN <<line>> : <<line>>[k].event = c
      BY <3>1
    <3> QED
      BY <3>2
  <2>4. call[c].pc = "append" /\ call' = [call EXCEPT ![c] = f] /\ lock' = lock
        /\ UNCHANGED <<month, acked>> /\ AppendLines(s, lines)
    BY <1>1, <2>1, <2>2, <2>7, <2>8 DEF WriteEvent
  <2> HIDE DEF f
  <2>5. FrameOK(c, f, lock')
    BY <1>0, <2>3, <2>4 DEF FrameOK
  <2> QED
    BY <2>3, <2>4, <2>5, <2>8, AppendStep
<1>2. CASE AppendFails(c)
  <2>1. CASE UNCHANGED <<stream, rd, settled>>
    BY <1>2, <2>1, QuietSteps
  <2>2. CASE Remains(c)
    <3>1. PICK s \in AnySegment, lines \in Seq(AnyLine) :
            AppendLines(s, lines) /\ \A k \in DOMAIN lines : lines[k].event = c
      BY <2>2, RemainsParts
    <3>2. PICK f \in AnyFrame :
           /\ call' = [call EXCEPT ![c] = f] /\ f.pc = "done" /\ f.segment = call[c].segment
           /\ f.outcome = call[c].outcome /\ f.result = call[c].result
           /\ \A holder : FrameOK(c, f, holder)
      BY <1>2, ReturnFrame DEF AppendFails
    <3>4. call[c].pc = "append" /\ UNCHANGED <<month, acked>>
      BY <1>2 DEF AppendFails
    <3> QED
      BY <3>1, <3>2, <3>4, AppendStep
  <2> QED
    BY <1>2, <2>1, <2>2 DEF AppendFails
<1>3. CASE Crash(c)
  <2>1. CASE UNCHANGED <<stream, rd, settled>>
    BY <1>3, <2>1, QuietSteps
  <2>2. CASE call[c].pc = "append" /\ Remains(c)
    <3> DEFINE f == [call[c] EXCEPT !.pc = "dead", !.result = None, !.month = 0, !.segment = None]
    <3>1. f \in AnyFrame /\ f.pc = "dead"
      BY <1>0, FirstMonth DEF AnyFrame
    <3>2. call' = [call EXCEPT ![c] = f] /\ UNCHANGED <<month, acked>>
      BY <1>3 DEF Crash
    <3> HIDE DEF f
    <3>3. FrameOK(c, f, lock')
      BY <3>1 DEF FrameOK
    <3>4. PICK s \in AnySegment, lines \in Seq(AnyLine) :
            AppendLines(s, lines) /\ \A k \in DOMAIN lines : lines[k].event = c
      BY <2>2, RemainsParts
    <3> QED
      BY <2>2, <3>1, <3>2, <3>3, <3>4, AppendStep
  <2> QED
    BY <1>3, <2>1, <2>2 DEF Crash
<1> QED
  BY <1>1, <1>2, <1>3

\* Every set of segments has an oldest one.
LEMMA OldestOf == ASSUME NEW S \in SUBSET AnySegment, S # {} PROVE Oldest(S) \in S
<1>0. \A s \in S : s.month \in Nat /\ s.sequence \in Nat /\ s = [month |-> s.month, sequence |-> s.sequence]
  BY DEF AnySegment, Months
<1>1. PICK m \in {s.month : s \in S} : \A n \in {s.month : s \in S} : m <= n
  <2>1. {s.month : s \in S} \subseteq Nat /\ {s.month : s \in S} # {}
    BY <1>0
  <2> QED
    BY <2>1, LeastOf
<1> DEFINE Q == {s.sequence : s \in {t \in S : t.month = m}}
<1>2. PICK q \in Q : \A k \in Q : q <= k
  <2>1. Q \subseteq Nat /\ Q # {}
    BY <1>0, <1>1
  <2> QED
    BY <2>1, LeastOf
<1>3. PICK s \in S : s.month = m /\ s.sequence = q
  BY <1>2
<1>4. ASSUME NEW t \in S \ {s} PROVE Before(s, t)
  <2>1. m <= t.month /\ (t.month = m => q <= t.sequence)
    BY <1>1, <1>2
  <2>2. m \in Nat /\ q \in Nat /\ t.month \in Nat /\ t.sequence \in Nat
    BY <1>0, <1>3
  <2>3. ~(t.month = m /\ t.sequence = q)
    BY <1>0, <1>3
  <2> QED
    BY <1>3, <2>1, <2>2, <2>3 DEF Before
<1> QED
  BY <1>4 DEF Oldest

\* Only the call that holds the lock collects.
LEMMA OneCollector ==
  ASSUME TelemetryInv, NEW c \in Calls, call[c].pc = "gc"
  PROVE  lock = c /\ \A d \in Calls \ {c} : call[d].pc \notin {"append", "gc"}
<1>1. lock = c
  BY CallParts DEF FrameOK
<1> QED
  BY <1>1, CallParts DEF FrameOK

\* The collection removes a segment, never the one that received the event.
LEMMA GcRemoveInv ==
  ASSUME TelemetryInv, NEW c \in Calls, GcRemove(c)
  PROVE  TelemetryInv'
<1>0. /\ call[c].pc = "gc" /\ UNCHANGED <<lock, call, month, rd, acked, settled>>
      /\ settled = None /\ call[c].segment \in Existing
  BY DEF GcRemove, TelemetryInv, CollectionOK
<1>1. PICK x \in gcLocked(c) : stream' = Without(x)
  <2>1. gcLocked(c) \in SUBSET AnySegment
    BY DEF gcLocked, Expired, TelemetryInv, TypeInv, StreamOK
  <2> QED
    BY <2>1, OldestOf DEF GcRemove
<1>2. x # call[c].segment
  BY DEF gcLocked
<1>3. Existing' = Existing \ {x} /\ \A t \in Existing' : stream'[t] = stream[t]
  BY <1>1 DEF Without, Existing
<1>4. TypeInv'
  BY <1>0, <1>3 DEF TelemetryInv, TypeInv, StreamOK, FrameOK
<1>5. \A d \in Calls : EventOK(d)'
  BY <1>0, <1>3 DEF TelemetryInv, EventOK
<1>6. ReaderOK'
  BY <1>0, <1>3 DEF TelemetryInv, ReaderOK, Readable
<1>7. CollectionOK'
  BY <1>0, <1>2, <1>3, OneCollector DEF CollectionOK
<1> QED
  BY <1>4, <1>5, <1>6, <1>7 DEF TelemetryInv

\* The collection is complete: the stream is within its limits.
LEMMA EmitReturnsInv ==
  ASSUME TelemetryInv, NEW c \in Calls, EmitReturns(c)
  PROVE  TelemetryInv'
<1>0. /\ call[c].pc = "gc" /\ gcLocked(c) = {} /\ acked' = acked \cup {c}
      /\ settled' = call[c].segment /\ lock' = None /\ UNCHANGED <<stream, month, rd>>
      /\ Return(c) /\ call[c].segment \in Existing
  BY DEF EmitReturns, TelemetryInv, CollectionOK
<1>1. PICK f \in AnyFrame :
           /\ call' = [call EXCEPT ![c] = f] /\ f.pc = "done" /\ f.segment = call[c].segment
           /\ f.outcome = call[c].outcome /\ f.result = call[c].result
           /\ \A holder : FrameOK(c, f, holder)
  BY <1>0, ReturnFrame
<1>2. /\ call \in [Calls -> AnyFrame] /\ call'[c] = f
      /\ \A d \in Calls \ {c} : call'[d] = call[d]
      /\ \A d \in Calls : call'[d].segment = call[d].segment
      /\ Existing' = Existing
  BY <1>0, <1>1 DEF TelemetryInv, TypeInv, Existing
<1>3. \A d \in Calls \ {c} : call[d].pc \notin {"append", "gc"}
  BY <1>0, OneCollector
<1>4. TypeInv'
  <2>1. ASSUME NEW d \in Calls PROVE FrameOK(d, call[d], lock)'
    <3>1. CASE d = c
      BY <1>1, <1>2, <3>1 DEF FrameOK
    <3>2. CASE d # c
      <4>1. FrameOK(d, call[d], lock) /\ call[d].pc \notin {"append", "gc"} /\ call'[d] = call[d]
        BY <1>2, <1>3, <3>2, CallParts
      <4> QED
        BY <4>1 DEF FrameOK
    <3> QED
      BY <3>1, <3>2
  <2>2. call' \in [Calls -> AnyFrame]
    BY <1>1, <1>2
  <2>3. StreamOK'
    BY <1>0, <1>2 DEF TelemetryInv, TypeInv, StreamOK
  <2> QED
    BY <1>0, <2>1, <2>2, <2>3 DEF TelemetryInv, TypeInv
<1>5. ASSUME NEW d \in Calls PROVE EventOK(d)'
  BY <1>0, <1>1, <1>2 DEF TelemetryInv, EventOK, BeforePc
<1>6. ReaderOK'
  <2>1. rd.must \subseteq Calls
    BY DEF TelemetryInv, TypeInv, AnyReader
  <2> QED
    BY <1>0, <1>2, <2>1 DEF TelemetryInv, ReaderOK, Readable
<1>7. CollectionOK'
  <2>1. MonthsKept' = MonthsKept
    BY <1>2 DEF MonthsKept
  <2>2. Expired' = Expired
    BY <1>2, <2>1 DEF Expired
  <2>3. Expired \subseteq {call[c].segment} /\ (Total(stream) > maxTotalBytes => Existing \ {call[c].segment} = {})
    BY <1>0 DEF gcLocked
  <2>4. \A d \in Calls : call'[d].pc # "gc"
    BY <1>1, <1>2, <1>3
  <2>5. Total(stream)' = Total(stream)
    BY <1>0
  <2> QED
    BY <1>0, <1>2, <2>2, <2>3, <2>4, <2>5 DEF CollectionOK
<1> QED
  BY <1>4, <1>5, <1>6, <1>7 DEF TelemetryInv

\* The reader, who takes no lock, and the calendar.
LEMMA ReaderSteps ==
  ASSUME TelemetryInv, ReadSince \/ ReadSegment \/ ReadEnds \/ NextMonth
  PROVE  TelemetryInv'
<1>1. UNCHANGED <<stream, lock, call, acked, settled>> /\ Existing' = Existing
  BY DEF ReadSince, ReadSegment, ReadEnds, NextMonth, Existing
<1>2. month' \in Months
  BY TelemetryAssumption DEF ReadSince, ReadSegment, ReadEnds, NextMonth, Months, TelemetryInv, TypeInv
<1>3. rd \in AnyReader /\ Existing \subseteq AnySegment
  BY DEF TelemetryInv, TypeInv, StreamOK
<1>4. ASSUME NEW s \in Existing PROVE Readable(s) \subseteq Calls
  <2>1. stream[s] \in Seq(AnyLine)
    BY DEF TelemetryInv, TypeInv, StreamOK
  <2>2. \A i \in DOMAIN stream[s] : stream[s][i] \in AnyLine
    BY <2>1
  <2>3. \A l \in AnyLine : l.event \in Calls
    BY DEF AnyLine
  <2> QED
    BY <2>2, <2>3 DEF Readable
<1>5. rd' \in AnyReader /\ ReaderOK'
  <2>1. CASE ReadSince
    <3> DEFINE S == {s \in Existing : s.month >= Since}
    <3>1. rd' = [pc |-> "reading", todo |-> S, got |-> {}, must |-> Due(S)]
      BY <2>1 DEF ReadSince
    <3>2. rd' \in AnyReader
      BY <1>3, <1>4, <3>1 DEF AnyReader, Due
    <3>3. ASSUME NEW e \in Due(S)
          PROVE  e \in acked /\ call[e].segment \in S /\ e \in Readable(call[e].segment)
      <4>1. PICK s \in S : e \in Readable(s) /\ e \in acked
        BY DEF Due
      <4>2. PICK i \in DOMAIN stream[s] : stream[s][i].event = e
        BY <4>1 DEF Readable
      <4>3. e \in Calls
        BY <1>4, <4>1
      <4>4. s = call[e].segment
        BY <4>1, <4>2, <4>3, CallParts DEF EventOK
      <4> QED
        BY <4>1, <4>4
    <3> HIDE DEF S
    <3>4. rd'.todo = S /\ rd'.must = Due(S)
      BY <3>1
    <3>5. \A s : Readable(s)' = Readable(s)
      BY <1>1 DEF Readable
    <3> QED
      BY <1>1, <3>2, <3>3, <3>4, <3>5 DEF ReaderOK
  <2>2. CASE rd' = NoRead
    BY <2>2 DEF NoRead, AnyReader, ReaderOK
  <2>3. CASE ReadSegment /\ rd' # NoRead
    <3>1. PICK s \in Existing : rd' = [rd EXCEPT !.todo = @ \ {s}, !.got = @ \cup Readable(s)]
      BY <2>3 DEF ReadSegment
    <3>2. /\ rd' \in AnyReader /\ rd'.todo = rd.todo \ {s} /\ rd'.got = rd.got \cup Readable(s)
          /\ rd'.must = rd.must /\ rd'.pc = rd.pc
      BY <1>3, <1>4, <3>1 DEF AnyReader
    <3>3. \A t : Readable(t)' = Readable(t)
      BY <1>1 DEF Readable
    <3> QED
      BY <1>1, <3>2, <3>3 DEF ReaderOK, TelemetryInv
  <2>4. CASE NextMonth
    BY <1>1, <1>3, <2>4 DEF NextMonth, ReaderOK, TelemetryInv, Readable
  <2> QED
    BY <2>1, <2>2, <2>3, <2>4 DEF ReadEnds
<1>6. TypeInv'
  BY <1>1, <1>2, <1>5 DEF TelemetryInv, TypeInv, StreamOK, FrameOK
<1>7. \A c \in Calls : EventOK(c)'
  BY <1>1 DEF TelemetryInv, EventOK
<1>8. CollectionOK'
  <2>1. MonthsKept' = MonthsKept
    BY <1>1 DEF MonthsKept
  <2>2. Expired' = Expired
    BY <1>1, <2>1 DEF Expired
  <2> QED
    BY <1>1, <2>2 DEF TelemetryInv, CollectionOK
<1> QED
  BY <1>5, <1>6, <1>7, <1>8 DEF TelemetryInv

\* Every step keeps the invariant.
LEMMA TelemetryStep == TelemetryInv /\ [Next]_vars => TelemetryInv'
<1> SUFFICES ASSUME TelemetryInv, [Next]_vars PROVE TelemetryInv'
  OBVIOUS
<1>1. CASE UNCHANGED vars
  <2>1. Existing' = Existing /\ MonthsKept' = MonthsKept /\ \A s : Readable(s)' = Readable(s)
    BY <1>1 DEF vars, Existing, MonthsKept, Readable
  <2>2. Expired' = Expired
    BY <2>1 DEF Expired
  <2> QED
    BY <1>1, <2>1, <2>2 DEF vars, TelemetryInv, TypeInv, StreamOK, FrameOK, EventOK, ReaderOK, CollectionOK
<1>2. ASSUME NEW c \in Calls, Execute(c) \/ HandlerEnds(c) \/ Progress(c) \/ Crash(c)
      PROVE  TelemetryInv'
  BY <1>2, QuietSteps, AppendSteps, GcRemoveInv, EmitReturnsInv DEF Progress
<1> QED
  BY <1>1, <1>2, ReaderSteps DEF Next

\* The inductive invariant of the stream.
LEMMA TelemetryInvariant == Spec => []TelemetryInv
<1>1. Init => TelemetryInv
  <2> SUFFICES ASSUME Init PROVE TelemetryInv
    OBVIOUS
  <2>1. Existing = {} /\ 0 \in Months /\ 0 \in Nat
    BY TelemetryAssumption DEF Init, Existing, Months
  <2>2. StreamOK
    BY <2>1 DEF StreamOK
  <2>3. call \in [Calls -> AnyFrame] /\ \A c \in Calls : FrameOK(c, call[c], lock)
    BY <2>1 DEF Init, AnyFrame, FrameOK
  <2>4. rd \in AnyReader /\ ReaderOK
    BY DEF Init, NoRead, AnyReader, ReaderOK
  <2>5. \A c \in Calls : EventOK(c)
    BY <2>1 DEF Init, EventOK
  <2>6. CollectionOK
    BY DEF Init, CollectionOK
  <2> QED
    BY <2>1, <2>2, <2>3, <2>4, <2>5, <2>6 DEF Init, TelemetryInv, TypeInv
<1> QED
  BY <1>1, TelemetryStep, PTL DEF Spec

----------------------------------------------------------------------------
(* Theorems *)

\* A read that succeeds returns what was due when it began, but for segments
\* that were removed and created again under it (ReadSince takes no lock).
THEOREM NothingMissed == Spec => ReadMissesNothing
<1>1. TelemetryInv /\ [Next]_vars => [ReadEnds => rd.must \subseteq rd.got]_vars
  BY DEF TelemetryInv, ReaderOK, ReadEnds
<1> QED
  BY <1>1, TelemetryInvariant, PTL DEF Spec, ReadMissesNothing

\* Numbers with fewer than k others above the least of them are at most k.
LEMMA FewMonths ==
  ASSUME NEW M \in SUBSET Nat, IsFiniteSet(M), NEW T \in SUBSET M, NEW k \in Nat \ {0},
         \A t \in T : ~(Cardinality({m \in M : m > t}) >= k)
  PROVE  Cardinality(T) <= k
<1>1. CASE T = {}
  BY <1>1, FS_EmptySet
<1>2. CASE T # {}
  <2>1. PICK t \in T : \A n \in T : t <= n
    BY <1>2, LeastOf
  <2> DEFINE above == {m \in M : m > t}
  <2>2. above \in SUBSET M /\ T \ {t} \in SUBSET above
    BY <2>1
  <2>3. IsFiniteSet(above) /\ IsFiniteSet(T)
    BY <2>2, FS_Subset
  <2>4. Cardinality(T \ {t}) <= Cardinality(above) /\ Cardinality(T \ {t}) = Cardinality(T) - 1
    BY <2>2, <2>3, FS_Subset, FS_RemoveElement
  <2>5. Cardinality(above) \in Nat /\ Cardinality(T) \in Nat
    BY <2>3, FS_CardinalityType
  <2>6. ~(Cardinality(above) >= k)
    BY <2>1
  <2> HIDE DEF above
  <2> QED
    BY <2>4, <2>5, <2>6
<1> QED
  BY <1>1, <1>2

\* After every complete collection the stream keeps both of its limits, the
\* segment in use apart, for any limits, months and number of calls (gcLocked).
THEOREM Bounded == Spec => []StreamIsBounded
<1>1. TelemetryInv => StreamIsBounded
  <2> SUFFICES ASSUME TelemetryInv, settled # None PROVE StreamIsBounded
    BY DEF StreamIsBounded
  <2> DEFINE rest == Existing \ {settled}
             T == {s.month : s \in rest}
  <2>1. settled \in Existing /\ Expired \subseteq {settled}
        /\ (Total(stream) > maxTotalBytes => rest = {})
    BY DEF TelemetryInv, CollectionOK
  <2>2. MonthsKept \subseteq Months /\ Months \subseteq Nat /\ IsFiniteSet(Months)
    <3>1. MonthsKept \subseteq Months
      BY DEF TelemetryInv, TypeInv, StreamOK, AnySegment, MonthsKept
    <3>2. 0 \in Int /\ MaxMonth \in Int
      BY TelemetryAssumption
    <3>3. IsFiniteSet(Months)
      BY <3>2, FS_Interval DEF Months
    <3> QED
      BY <3>1, <3>3, TelemetryAssumption DEF Months
  <2>3. IsFiniteSet(MonthsKept) /\ MonthsKept \in SUBSET Nat
    BY <2>2, FS_Subset
  <2>4. T \in SUBSET MonthsKept
    BY DEF MonthsKept
  <2>5. ASSUME NEW t \in T PROVE ~(Cardinality({m \in MonthsKept : m > t}) >= retainedMonths)
    <3>1. PICK s \in rest : t = s.month
      OBVIOUS
    <3>2. s \notin Expired /\ s \in Existing
      BY <2>1
    <3> QED
      BY <3>1, <3>2 DEF Expired
  <2>6. Cardinality(T) <= retainedMonths
    BY <2>3, <2>4, <2>5, FewMonths, TelemetryAssumption
  <2> QED
    BY <2>1, <2>6 DEF StreamIsBounded
<1> QED
  BY <1>1, TelemetryInvariant, PTL

\* What the contract sees of a call.
Abs(f) == <<Seen(f.outcome), IF f.pc = "done" THEN Sent(f.result) ELSE None>>

\* A step in which the contract sees nothing.
LEMMA ContractStutters ==
  ASSUME \A d \in Calls : Abs(call[d])' = Abs(call[d])
  PROVE  UNCHANGED Contract!vars
<1>1. \A d \in Calls : /\ Seen(call'[d].outcome) = Seen(call[d].outcome)
                       /\ (IF call'[d].pc = "done" THEN Sent(call'[d].result) ELSE None) =
                          (IF call[d].pc = "done" THEN Sent(call[d].result) ELSE None)
  BY DEF Abs, Seen, Sent, Encoded
<1> QED
  BY <1>1 DEF Contract!vars, Seen, Sent, Encoded

\* The step in which a call comes to its end.
LEMMA EndedHandles ==
  ASSUME TelemetryInv, NEW c \in Calls, NEW o \in Ending, Ended(c, o), call[c].pc \in {"idle", "handle"}
  PROVE  Contract!Handle(c)
<1>1. call[c].outcome = None /\ call \in [Calls -> AnyFrame] /\ call[c] \in AnyFrame
  BY CallParts DEF FrameOK, TelemetryInv, TypeInv
<1>2. /\ call'[c].outcome = o /\ call'[c].pc = "deferred"
      /\ \A d \in Calls \ {c} : call'[d] = call[d]
  BY <1>1 DEF Ended, AnyFrame
<1>3. PICK seen : seen = Seen(o)
  OBVIOUS
<1>4. seen \in Contract!Outcomes
  <2>1. o # None /\ o.value \in Result /\ o.end \in {"bad_spec", "large_input", "panic", "error", "value"}
    BY EndsAssumption DEF Ending
  <2>2. o.value.status \in Statuses /\ o.value.encodes \in BOOLEAN
    BY <2>1 DEF Result
  <2> QED
    BY <1>3, <2>1, <2>2 DEF Seen, Contract!Outcomes, Contract!Statuses, Statuses
<1>5. /\ \A d \in Calls : Seen(call'[d].outcome) = IF d = c THEN seen ELSE Seen(call[d].outcome)
      /\ \A d \in Calls : (IF call'[d].pc = "done" THEN Sent(call'[d].result) ELSE None) =
                           (IF call[d].pc = "done" THEN Sent(call[d].result) ELSE None)
  BY <1>2, <1>3
<1>6. Seen(call[c].outcome) = None
  BY <1>1 DEF Seen
<1> DEFINE O == [d \in Calls |-> Seen(call[d].outcome)]
           R == [d \in Calls |-> IF call[d].pc = "done" THEN Sent(call[d].result) ELSE None]
<1>7. O[c] = None /\ O' = [O EXCEPT ![c] = seen] /\ R' = R
  BY <1>5, <1>6 DEF Seen, Sent, Encoded
<1> QED
  BY <1>4, <1>7 DEF Contract!Handle

\* A return is an answer that the contract allows.
LEMMA DoneAnswers ==
  ASSUME TelemetryInv, NEW c \in Calls, call[c].pc \in {"deferred", "append", "gc"},
         NEW f \in AnyFrame, call' = [call EXCEPT ![c] = f], f.pc = "done",
         f.outcome = call[c].outcome, FrameOK(c, f, None)
  PROVE  Contract!Answer(c)
<1>1. f.outcome \in Ending /\ f.result \in Result /\ Contract!Honest(Seen(f.outcome), Sent(f.result))
  BY DEF FrameOK
<1>2. call \in [Calls -> AnyFrame]
  BY DEF TelemetryInv, TypeInv
<1>3. call'[c] = f /\ \A d \in Calls \ {c} : call'[d] = call[d]
  BY <1>2
<1>4. PICK seen : seen = Seen(f.outcome)
  OBVIOUS
<1>5. PICK sent : sent = Sent(f.result)
  OBVIOUS
<1>6. sent \in Contract!Answers
  <2>1. f.result.status \in Statuses
    BY <1>1 DEF Result
  <2> QED
    BY <1>5, <2>1 DEF Sent, Contract!Answers, Contract!Statuses, Statuses
<1>7. seen # None
  <2>1. f.outcome # None /\ f.outcome.value \in Result
        /\ f.outcome.end \in {"bad_spec", "large_input", "panic", "error", "value"}
    BY <1>1, EndsAssumption DEF Ending
  <2>2. f.outcome.value.status \in Statuses /\ f.outcome.value.encodes \in BOOLEAN
    BY <2>1 DEF Result
  <2>3. seen \in Contract!Outcomes
    BY <1>4, <2>1, <2>2 DEF Seen, Contract!Outcomes, Contract!Statuses, Statuses
  <2> QED
    BY <2>3, ContractAssumption
<1> DEFINE O == [d \in Calls |-> Seen(call[d].outcome)]
           R == [d \in Calls |-> IF call[d].pc = "done" THEN Sent(call[d].result) ELSE None]
<1>8. /\ \A d \in Calls : Seen(call'[d].outcome) = Seen(call[d].outcome)
      /\ \A d \in Calls : (IF call'[d].pc = "done" THEN Sent(call'[d].result) ELSE None) =
           (IF d = c THEN sent ELSE IF call[d].pc = "done" THEN Sent(call[d].result) ELSE None)
  BY <1>3, <1>5
<1>9. O[c] = seen /\ R[c] = None /\ O' = O /\ R' = [R EXCEPT ![c] = sent]
  BY <1>4, <1>8 DEF Seen, Sent, Encoded
<1>10. Contract!Honest(seen, sent)
  BY <1>1, <1>4, <1>5
<1> QED
  BY <1>6, <1>7, <1>9, <1>10 DEF Contract!Answer

\* Every step is a step of the contract or leaves its variables alone.
LEMMA ContractStep == TelemetryInv /\ [Next]_vars => [Contract!Next]_(Contract!vars)
<1> SUFFICES ASSUME TelemetryInv, [Next]_vars PROVE [Contract!Next]_(Contract!vars)
  OBVIOUS
<1>0. call \in [Calls -> AnyFrame]
  BY DEF TelemetryInv, TypeInv
<1>1. CASE UNCHANGED call
  BY <1>1, ContractStutters DEF Abs, Seen, Sent, Encoded
<1>2. ASSUME NEW c \in Calls, HandlerEnds(c) PROVE Contract!Handle(c)
  <2>1. PICK o \in Ending : Ended(c, o)
    BY <1>2, EndsType DEF HandlerEnds
  <2> QED
    BY <1>2, <2>1, EndedHandles DEF HandlerEnds
<1>3. ASSUME NEW c \in Calls, AppendFails(c) \/ EmitReturns(c) \/ GcFails(c)
      PROVE  Contract!Answer(c)
  <2>1. Return(c) /\ call[c].pc \in {"append", "gc"}
    BY <1>3 DEF AppendFails, EmitReturns, GcFails
  <2>2. PICK f \in AnyFrame :
           /\ call' = [call EXCEPT ![c] = f] /\ f.pc = "done" /\ f.segment = call[c].segment
           /\ f.outcome = call[c].outcome /\ f.result = call[c].result
           /\ \A holder : FrameOK(c, f, holder)
    BY <2>1, ReturnFrame
  <2> QED
    BY <2>1, <2>2, DoneAnswers
<1>4. ASSUME NEW c \in Calls, NoEvent(c) PROVE Contract!Answer(c)
  <2> DEFINE f == [call[c] EXCEPT !.pc = "done", !.result = Recovered(call[c])]
             h == [call[c] EXCEPT !.pc = "done", !.result = Recovered(call[c]), !.month = call[c].month]
  <2>1. call' = [call EXCEPT ![c] = f] /\ call[c].pc = "deferred"
    BY <1>4 DEF NoEvent
  <2>2. f = h
    BY <1>0 DEF AnyFrame
  <2>3. PICK m \in Months : m = call[c].month
    BY CallParts
  <2> HIDE DEF f, h
  <2>4. PICK g : g = f
    OBVIOUS
  <2>5. g = [call[c] EXCEPT !.pc = "done", !.result = Recovered(call[c]), !.month = m]
    BY <2>2, <2>3, <2>4 DEF h
  <2>6. g \in AnyFrame /\ g.pc = "done" /\ g.outcome = call[c].outcome /\ \A holder : FrameOK(c, g, holder)
    BY <2>1, <2>5, RecoveredFrame
  <2> QED
    BY <2>1, <2>4, <2>6, DoneAnswers
<1>5. ASSUME NEW c \in Calls, Execute(c) PROVE Contract!Handle(c) \/ UNCHANGED Contract!vars
  <2>1. CASE \E refusal \in Request[c] \ {"none"} : Ended(c, [end |-> refusal, value |-> Failed])
    <3>1. PICK o \in Ending : Ended(c, o)
      BY <2>1, EndsType
    <3> QED
      BY <1>5, <3>1, EndedHandles DEF Execute
  <2>2. CASE call' = [call EXCEPT ![c].pc = "handle"]
    <3>1. \A d \in Calls : /\ call'[d].outcome = call[d].outcome
                           /\ call'[d].pc = (IF d = c THEN "handle" ELSE call[d].pc)
                           /\ call'[d].result = call[d].result
      BY <1>0, <2>2 DEF AnyFrame
    <3>2. call[c].pc = "idle"
      BY <1>5 DEF Execute
    <3> QED
      BY <3>1, <3>2, ContractStutters DEF Abs, Seen, Sent, Encoded
  <2> QED
    BY <1>5, <2>1, <2>2 DEF Execute
<1>6. ASSUME NEW c \in Calls, NEW l, l # "done", call[c].pc # "done",
             \A d \in Calls : /\ call'[d].outcome = call[d].outcome
                              /\ call'[d].pc = (IF d = c THEN l ELSE call[d].pc)
                              /\ d # c => call'[d].result = call[d].result
      PROVE  UNCHANGED Contract!vars
  <2>1. \A d \in Calls : Abs(call[d])' = Abs(call[d])
    BY <1>6 DEF Abs, Seen, Sent, Encoded
  <2> QED
    BY <2>1, ContractStutters
<1>7. ASSUME NEW c \in Calls, Stamp(c) \/ EmitLock(c) \/ WriteEvent(c) \/ Crash(c)
      PROVE  UNCHANGED Contract!vars
  <2>1. CASE Stamp(c)
    <3>1. /\ call[c].pc # "done"
          /\ \A d \in Calls : /\ call'[d].outcome = call[d].outcome
                              /\ call'[d].pc = (IF d = c THEN "lock" ELSE call[d].pc)
                              /\ d # c => call'[d].result = call[d].result
      BY <1>0, <2>1 DEF Stamp, AnyFrame
    <3> QED
      BY <1>6, <3>1
  <2>2. CASE EmitLock(c)
    <3>1. /\ call[c].pc # "done"
          /\ \A d \in Calls : /\ call'[d].outcome = call[d].outcome
                              /\ call'[d].pc = (IF d = c THEN "append" ELSE call[d].pc)
                              /\ d # c => call'[d].result = call[d].result
      BY <1>0, <2>2 DEF EmitLock, AnyFrame
    <3> QED
      BY <1>6, <3>1
  <2>3. CASE WriteEvent(c)
    <3>0. PICK s : call' = [call EXCEPT ![c].pc = "gc", ![c].segment = s] /\ call[c].pc = "append"
      BY <2>3 DEF WriteEvent
    <3>1. /\ call[c].pc # "done"
          /\ \A d \in Calls : /\ call'[d].outcome = call[d].outcome
                              /\ call'[d].pc = (IF d = c THEN "gc" ELSE call[d].pc)
                              /\ d # c => call'[d].result = call[d].result
      BY <1>0, <3>0 DEF AnyFrame
    <3> QED
      BY <1>6, <3>1
  <2>4. CASE Crash(c)
    <3>1. /\ call[c].pc # "done"
          /\ \A d \in Calls : /\ call'[d].outcome = call[d].outcome
                              /\ call'[d].pc = (IF d = c THEN "dead" ELSE call[d].pc)
                              /\ d # c => call'[d].result = call[d].result
      BY <1>0, <2>4 DEF Crash, AnyFrame
    <3> QED
      BY <1>6, <3>1
  <2> QED
    BY <1>7, <2>1, <2>2, <2>3, <2>4
<1>8. ASSUME NEW c \in Calls, GcRemove(c) PROVE UNCHANGED call
  BY <1>8 DEF GcRemove
<1>9. ReadSince \/ ReadSegment \/ ReadEnds \/ NextMonth => UNCHANGED call
  BY DEF ReadSince, ReadSegment, ReadEnds, NextMonth
<1> QED
  BY <1>1, <1>2, <1>3, <1>4, <1>5, <1>7, <1>8, <1>9 DEF Next, vars, Progress, Contract!Next

\* Every call gets one envelope, honest about how it ended: what the error
\* mapping, recover and capOutput make of every end (pipeline.go) keeps the
\* contract of a tool call, for every limit, every number of calls and whatever
\* fails while the event is written.
THEOREM ContractImplemented == Spec => CallContract
<1>1. Init => Contract!Init
  BY DEF Init, Contract!Init, Seen
<1> QED
  BY <1>1, ContractStep, TelemetryInvariant, PTL DEF Spec, CallContract, Contract!Spec

=============================================================================
