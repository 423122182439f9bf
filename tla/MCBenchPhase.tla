----------------------------- MODULE MCBenchPhase ----------------------------
(* A rare actor, whose first slot may come at the deadline or after it, and *)
(* a frequent one, whose longest operation runs over two of its slots.  All *)
(* first slots are tried, those that put a slot exactly at the deadline too. *)
EXTENDS BenchPhase
CONSTANTS rare, frequent
MCActors  == {rare, frequent}
MCScorers == {rare}
MCEvery   == [a \in MCActors |-> IF a = rare THEN 10 ELSE 2]
=============================================================================
