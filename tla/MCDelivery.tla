----------------------------- MODULE MCDelivery -----------------------------
(* The instance of Delivery: three missions, queues with a chain, a join, a  *)
(* cycle and a reference to no mission, and batches of up to two commands.   *)
EXTENDS Delivery

Test == [shape |-> "plain", global |-> TRUE, allow |-> FALSE, deny |-> FALSE, program |-> "outside"]
Lost == [Test EXCEPT !.program = "missing"]
Shell == [Test EXCEPT !.shape = "shell"]
Denied == [Test EXCEPT !.allow = TRUE, !.deny = TRUE]

Sample == {Test, Lost, Shell, Denied}

Programs ==
    {<<{}, {}, {1, 2}>>, <<{2}, {3}, {}>>, <<{}, {3}, {2}>>, <<{}, {0}, {}>>}

Batches == <<{<<Test, Test>>, <<Test, Shell>>}, {<<Lost>>, <<>>, <<Test>>}, {<<Test>>, <<Denied>>}>>

=============================================================================
