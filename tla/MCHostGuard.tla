---------------------------- MODULE MCHostGuard ----------------------------
(* The instance of HostGuard: three nodes of two lanes; the first profile of *)
(* one lane is demoted, and the profile that takes its place is not signed.  *)
EXTENDS HostGuard, TLC

CONSTANTS n1, n2, n3

Host(id, lane, total, signed) ==
    [id |-> id, lane |-> lane, rank |-> 1, available |-> TRUE, patch |-> TRUE,
     signed |-> signed, total |-> total, accepted |-> 5]

Catalogue == <<Host(1, "cheap", 9, TRUE), Host(2, "medium", 10, TRUE), Host(3, "medium", 0, FALSE)>>

Lanes == n1 :> "cheap" @@ n2 :> "cheap" @@ n3 :> "medium"

=============================================================================
