-------------------------------- MODULE MC_Pvc --------------------------------
(* Two files, one of them in a lower, two uppers, two control clients.  *)
EXTENDS Pvc

CONSTANTS f, g, d1, u1, u2, c1, c2

MCNames == {f, g}
MCPaths == {<<f>>, <<g>>}
MCData  == {Empty, d1}
MCUppers == {u1, u2}
MCClients == {c1, c2}

L(fs) == [ent |-> [p \in MCPaths |-> IF p \in fs THEN Empty ELSE Absent], wh |-> {}, opq |-> {}]
MCStacks == { [upper |-> L({}), lower |-> <<L({<<f>>})>>] }

MCAccess == {"ReadOnly", "ReadWriteOnce"}
MCLifecycle == {"Persistent", "EphemeralThenPersistent"}
===============================================================================
