------------------------------- MODULE MC_Stats -------------------------------
(* Two threads, one kind of operation and a ring that wraps.                 *)
EXTENDS Stats, TLC

CONSTANTS w1, w2
MCThreads == {w1, w2}
Symmetry == Permutations(MCThreads)
MCOp == {"read"}
MCRc == {0, 5}
MCLatBuckets == <<1, 3>>
MCLatency == {1, 4}
===============================================================================
