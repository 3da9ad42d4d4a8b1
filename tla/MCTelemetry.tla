----------------------------- MODULE MCTelemetry -----------------------------
(* The instance of Telemetry: a call whose handler panics or returns an error *)
(* beside some data, one whose result is too large, and one that is refused   *)
(* before its handler.                                                        *)
EXTENDS Telemetry, TLC

CONSTANTS e1, e2, e3

Value(status, data, encodes) == [status |-> status, data |-> data, encodes |-> encodes]

RequestOf == e1 :> {"none"} @@ e2 :> {"none"} @@ e3 :> {"large_input"}

EndsOf ==
    e1 :> {[end |-> "panic", value |-> Failed]}
    @@ e2 :> {[end |-> "value", value |-> Value("ok", 2, TRUE)]}
    @@ e3 :> {}

=============================================================================
