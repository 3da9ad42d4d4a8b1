------------------------------ MODULE ToolCall ------------------------------
(***************************************************************************)
(* What the capability pipeline promises of one call of a tool: the call   *)
(* comes to an outcome once, and the caller gets, once, an envelope that   *)
(* is honest about it. Nothing that observes the call is here, and nothing *)
(* of how the envelope is put together.                                    *)
(***************************************************************************)
CONSTANTS Calls, None

VARIABLES outcome, result

vars == <<outcome, result>>

Statuses == {"ok", "blocked", "partial", "failed"}

(***************************************************************************)
(* How a call can end: refused before the handler (bad specification, too  *)
(* large an input), or by the handler: a panic, an error, or a result with *)
(* a status and data, which may be too large for the limit of the tool or  *)
(* impossible to encode.                                                   *)
(***************************************************************************)
Outcomes ==
    [end : {"bad_spec", "large_input", "panic", "error", "value"}, status : Statuses,
     data : BOOLEAN, fits : BOOLEAN, encodes : BOOLEAN]

Answers == [status : Statuses, data : BOOLEAN]

\* The handler returned a result that can be sent as it is.
Complete(o) == o.end = "value" /\ o.encodes /\ o.fits

\* A complete result reaches the caller as it is; in every other case he gets no
\* data, and a status that says why.
Honest(o, a) ==
    /\ Complete(o) => a.status = o.status /\ a.data = o.data
    /\ ~Complete(o) =>
         /\ ~a.data
         /\ a.status = "partial" <=> o.end = "value" /\ o.encodes
         /\ a.status = "blocked" <=> o.end = "large_input"
         /\ a.status # "ok"

Init ==
    /\ outcome = [c \in Calls |-> None]
    /\ result = [c \in Calls |-> None]

Handle(c) ==
    /\ outcome[c] = None
    /\ \E o \in Outcomes : outcome' = [outcome EXCEPT ![c] = o]
    /\ UNCHANGED result

Answer(c) ==
    /\ outcome[c] # None /\ result[c] = None
    /\ \E a \in Answers : /\ Honest(outcome[c], a)
                          /\ result' = [result EXCEPT ![c] = a]
    /\ UNCHANGED outcome

Next == \E c \in Calls : Handle(c) \/ Answer(c)

Spec == Init /\ [][Next]_vars

=============================================================================
