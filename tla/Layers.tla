-------------------------------- MODULE Layers --------------------------------
(***************************************************************************)
(* What the overlay is made of: paths, the on-disk content of one layer, and  *)
(* the walk of LayerFS::resolve over the read-only lowers.  A deleted entry    *)
(* is remembered by a whiteout marker `.wh.<name>`; a directory that hides     *)
(* everything below it in the stack holds an opaque marker `.wh..wh..opq`.     *)
(***************************************************************************)
EXTENDS Integers, Sequences

CONSTANTS
    Names,     \* path components
    Paths,     \* the namespace: every path of the instance, without the root
    Data,      \* file contents
    Empty,     \* the content of a file just created or truncated
    Absent,    \* "no such entry"
    Dir,       \* "a directory"
    Stacks     \* the disk images a mount may start from

Root  == << >>
Entry == Data \cup {Absent, Dir}

\* The on-disk content of one layer: its real entries, the paths whose
\* whiteout marker it holds, and the directories whose opaque marker it holds.
Layer == [ent : [Paths -> Entry], wh : SUBSET Paths, opq : SUBSET (Paths \cup {Root})]

-----------------------------------------------------------------------------
(* Paths.  split_path gives (parent, name); the relation ChildOf is that     *)
(* parent, Below is its transitive closure.                                  *)

Below(a, p) == Len(a) < Len(p) /\ \A i \in 1..Len(a) : a[i] = p[i]
AtOrBelow(a, p) == a = p \/ Below(a, p)
ChildOf(d, p) == Below(d, p) /\ Len(p) = Len(d) + 1

\* The directories the path walk goes through before it reaches p.
Anc(p) == {a \in Paths : Below(a, p)}

\* A layer is a directory tree: every entry and every marker sits in a
\* directory of the same layer; and it never holds `x` beside `.wh.x`.
IsTree(L) ==
    /\ \A p \in Paths : (L.ent[p] # Absent \/ p \in L.wh) => \A a \in Anc(p) : L.ent[a] = Dir
    /\ \A d \in L.opq \ {Root} : L.ent[d] = Dir /\ \A a \in Anc(d) : L.ent[a] = Dir
    /\ \A p \in L.wh : L.ent[p] = Absent

ASSUME PathsAssumption ==
    /\ Paths \subseteq Seq(Names) \ {Root}
    /\ \A p \in Paths : \A n \in 1..Len(p) : SubSeq(p, 1, n) \in Paths
ASSUME EntryAssumption ==
    /\ Empty \in Data
    /\ Absent \notin Data /\ Dir \notin Data /\ Absent # Dir
ASSUME StacksAssumption ==
    \A s \in Stacks : /\ s.upper \in Layer /\ IsTree(s.upper)
                      /\ s.lower \in Seq(Layer)
                      /\ \A i \in 1..Len(s.lower) : IsTree(s.lower[i])

-----------------------------------------------------------------------------
(* The lowers.                                                               *)

\* is_opaque_above / lower_is_opaque_above: a directory above p is opaque.
OpaqueAbove(marks, p) == \E d \in marks : Below(d, p)

\* Layer i of the stack ls is where the walk over the lowers stops and finds p:
\* no layer above it whites p out, holds it, or is opaque above it.
FoundIn(ls, i, p) ==
    /\ p \notin ls[i].wh
    /\ ls[i].ent[p] # Absent
    /\ \A j \in 1..(i - 1) : /\ p \notin ls[j].wh
                             /\ ls[j].ent[p] = Absent
                             /\ ~OpaqueAbove(ls[j].opq, p)

LowerResolve(ls, p) ==
    IF \E i \in 1..Len(ls) : FoundIn(ls, i, p)
    THEN ls[CHOOSE i \in 1..Len(ls) : FoundIn(ls, i, p)].ent[p]
    ELSE Absent
===============================================================================
