---------------------------- MODULE MCBenchClient ----------------------------
(* Three coroutines share a client of two slots, so that the limit is met   *)
(* while both holders can still end in any way; bodies of up to two units   *)
(* are read one or two at a time, so that each framing meets the ceiling.   *)
(* Latencies lie on, between and beyond the bounds of the buckets.          *)
EXTENDS BenchReport, TLC
CONSTANTS c1, c2, c3
MCCallers   == {c1, c2, c3}
MCSymmetry  == Permutations(MCCallers)
MCFractions == {<<1, 2>>, <<19, 20>>, <<99, 100>>}
=============================================================================
