------------------------------ MODULE RecentLog ------------------------------
(***************************************************************************)
(* What the `ops` view of the control socket promises: the most recent Cap   *)
(* operations, newest first.                                                 *)
(***************************************************************************)
EXTENDS Naturals, Sequences

CONSTANTS
    Item,   \* what is recorded
    Cap     \* how many of them are kept

VARIABLE log

Add(x) ==
    log' = [i \in 1..(IF Len(log) < Cap THEN Len(log) + 1 ELSE Cap) |->
              IF i = 1 THEN x ELSE log[i - 1]]

Init == log = << >>
Next == \E x \in Item : Add(x)
Spec == Init /\ [][Next]_log
===============================================================================
