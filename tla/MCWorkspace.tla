----------------------------- MODULE MCWorkspace -----------------------------
(* Instances of Workspace for TLC. *)
EXTENDS Workspace, TLC

CONSTANTS p1, p2, r1, r2, base, c1, c2

MCOneProc == {p1}
MCProcs == {p1, p2}
MCOneRun == {r1}
MCTwoRuns == {r1, r2}
MCContents == {base, c1, c2}
MCTwoContents == {base, c1}
MCOneContent == {base}

Symmetry == Permutations(MCProcs) \cup Permutations({c1, c2})
=============================================================================
