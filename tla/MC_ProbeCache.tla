---------------------------- MODULE MC_ProbeCache ----------------------------
(* Two threads over two lowers, the upper of which holds a marker.            *)
EXTENDS ProbeCache

CONSTANTS a, x, d1, t1, t2

MCThreads == {t1, t2}
MCNames == {a, x}
MCPaths == {<<a>>, <<a, x>>}
MCData  == {Empty, d1}

L(ds, fs, c, w, o) ==
    [ent |-> [p \in MCPaths |-> IF p \in ds THEN Dir ELSE IF p \in fs THEN c ELSE Absent],
     wh |-> w, opq |-> o]
NoLayer == L({}, {}, d1, {}, {})
Base == L({<<a>>}, {<<a, x>>}, d1, {}, {})
Over(ls) == [upper |-> NoLayer, lower |-> ls]

MCStacks ==
    { Over(<< >>),
      Over(<<L({<<a>>}, {}, d1, {<<a, x>>}, {}), Base>>),      \* a whiteout over a file
      Over(<<L({<<a>>}, {}, d1, {}, {<<a>>}), Base>>) }        \* an opaque directory over it
===============================================================================
