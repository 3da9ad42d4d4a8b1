--------------------------- MODULE MCMemoryStore ---------------------------
(* Instances of MemoryStore: two threads, each in a process of its own, save *)
(* three project memories over one another.                                  *)
EXTENDS MemoryStore, TLC

CONSTANTS c1, c2, p1, p2

HomeOf == c1 :> p1 @@ c2 :> p2

\* The two threads are alike, each with its process.
Swap == {c1 :> c1 @@ c2 :> c2 @@ p1 :> p1 @@ p2 :> p2, c1 :> c2 @@ c2 :> c1 @@ p1 :> p2 @@ p2 :> p1}

Id(k, t) == [project |-> "prj", kind |-> k, title |-> t]

Rules == Id("convention", "a")
Style == Id("convention", "b")
Note == Id("decision", "a")

Plain(id, source, t) ==
    [id |-> id, source |-> source, evidence |-> TRUE, secret |-> FALSE, supersedes |-> t]

Sample ==
    {Plain(Rules, "human", t) : t \in {None, Style}}
    \cup {Plain(Style, "human", t) : t \in {None, Rules, Note}}
    \cup {Plain(Note, "derived", t) : t \in {None, Rules}}
    \cup {[Plain(Rules, "human", None) EXCEPT !.secret = TRUE],
          [Plain(Note, "derived", None) EXCEPT !.evidence = FALSE]}

=============================================================================
