---------------------------- MODULE MC_ThreadPool ----------------------------
(* Three workers and four jobs: two that may never come back, which still      *)
(* leaves one worker, and one that may panic.                                  *)
EXTENDS ThreadPool

CONSTANTS w1, w2, w3, j1, j2, j3, j4

MCWorkers == {w1, w2, w3}
MCJobs    == {j1, j2, j3, j4}
MCStuck   == {j1, j4}
MCPanicky == {j2}
===============================================================================
