------------------------------ MODULE MC_FuseFS ------------------------------
(* Two directories with one file name in each, over a lower with one of the   *)
(* files, and over a stack with both, one under a whiteout of another lower    *)
(* and one under an opaque marker of the upper.                               *)
EXTENDS FuseFS

CONSTANTS d, e, x

MCNames == {d, e, x}
MCPaths == {<<d>>, <<d, x>>, <<e>>, <<e, x>>}
MCDirs  == {<<d>>, <<e>>}
MCByte  == {0}
MCData  == UNION {[1..n -> MCByte] : n \in 0..MaxLen}
MCEmpty == << >>

\* Files start at their longest.
L(ds, fs, w, o) ==
    [ent |-> [p \in Paths |-> IF p \in ds THEN Dir
                              ELSE IF p \in fs THEN [i \in 1..MaxLen |-> 0] ELSE Absent],
     wh |-> w, opq |-> o]
Stack(u, ls) == [upper |-> u, lower |-> ls]

MCStacks ==
    { Stack(L({}, {}, {}, {}), <<L({<<d>>}, {<<d, x>>}, {}, {})>>),
      Stack(L({<<e>>}, {}, {}, {<<e>>}),
            <<L({<<d>>}, {}, {<<d, x>>}, {}), L({<<d>>, <<e>>}, {<<d, x>>, <<e, x>>}, {}, {})>>) }

\* Where no promise about a file is left (all below a renamed directory, all of the
\* second stack) a second handle is not followed further.
Promising == (\E p \in Paths \ DirPaths : want[p] # None) \/ next_fh <= 2

SecondVerified == {2}
===============================================================================
