----------------------------- MODULE MC_LayerFS -----------------------------
(* A small namespace with two directories, and the stacks that make the       *)
(* merge interesting.                                                         *)
EXTENDS LayerFS

CONSTANTS a, b, x, y, d1

MCNames == {a, b, x, y}
MCPaths == {<<a>>, <<a, x>>, <<a, x, y>>, <<b>>, <<b, x>>, <<b, x, y>>}
MCData  == {Empty, d1}

\* A layer that holds the directories ds and the files fs, each with content d1.
L(ds, fs, w, o) ==
    [ent |-> [p \in MCPaths |-> IF p \in ds THEN Dir ELSE IF p \in fs THEN d1 ELSE Absent],
     wh |-> w, opq |-> o]
None == L({}, {}, {}, {})
Stack(u, ls) == [upper |-> u, lower |-> ls]

Base == L({<<a>>}, {<<a, x>>}, {}, {})
Deep == L({<<a>>, <<a, x>>}, {<<a, x, y>>}, {}, {})
Wide == L({<<a>>, <<b>>}, {<<a, x>>, <<b, x>>}, {}, {})

MCStacks ==
    { Stack(None, <<>>),                                         \* no lower at all
      Stack(None, <<Base>>),
      Stack(None, <<Deep>>),
      Stack(None, <<L({<<a>>}, {}, {<<a, x>>}, {}), Wide>>),     \* a whiteout in a lower
      Stack(None, <<L({}, {}, {<<a>>}, {}), Deep>>),             \* ... of a directory
      Stack(None, <<L({<<a>>}, {<<a, x>>}, {}, {}), Deep>>),     \* a file over a directory
      Stack(L({<<a>>}, {}, {}, {<<a>>}), <<Base>>),              \* an opaque upper directory
      Stack(L({<<a>>}, {<<a, x>>}, {<<b>>}, {}), <<Wide>>) }     \* an upper from an earlier mount

\* One image layer, without markers.
OneLower == { Stack(None, <<Base>>) }

\* What ListingMatches needs of the stacks.
ASSUME MCShallow == Shallow
=============================================================================
