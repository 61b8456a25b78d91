--------------------------- MODULE LayerFS_proofs ---------------------------
(***************************************************************************)
(* LayerFS, for every namespace, every set of contents, every stack of layers,*)
(* every call, and an interruption at every primitive.                     *)
(*                                                                         *)
(* IInv: the upper is a tree and a call changes only what it is about; CallInv*)
(* is what one primitive leaves for the next.  DataInv, on top of it: what a*)
(* copy has brought over so far and what a removal has left, from which it *)
(* follows what a call has done when it is over or abandoned.              *)
(***************************************************************************)
EXTENDS LayerFS, SequenceTheorems, WellFoundedInduction, TLAPS

(***************************************************************************)
(* Paths.                                                                  *)
(***************************************************************************)

\* Paths are sequences of names, never empty, over which Below is a strict
\* order (split_path strips one component at a time).
LEMMA PathType == \A p \in Paths \cup {Root} : p \in Seq(Names) /\ Len(p) \in Nat
  BY PathsAssumption, EmptySeq, LenProperties DEF Root

LEMMA BelowTrans ==
  ASSUME NEW a \in Paths \cup {Root}, NEW b \in Paths \cup {Root}, NEW c \in Paths \cup {Root},
         Below(a, b), Below(b, c)
  PROVE  Below(a, c)
  BY PathType DEF Below

LEMMA AtOrBelowTrans ==
  ASSUME NEW a \in Paths \cup {Root}, NEW b \in Paths \cup {Root}, NEW c \in Paths \cup {Root},
         AtOrBelow(a, b), AtOrBelow(b, c)
  PROVE  AtOrBelow(a, c)
  BY BelowTrans DEF AtOrBelow

LEMMA NotBelowSelf == \A p \in Paths \cup {Root} : ~Below(p, p)
  BY PathType DEF Below

\* The ancestors of an entry are its directory and that directory's ancestors.
LEMMA AncOfChild ==
  ASSUME NEW d \in Paths, NEW p \in Paths, ChildOf(d, p), NEW a \in Anc(p)
  PROVE  a = d \/ a \in Anc(d)
<1>1. a \in Paths /\ Below(a, p) BY DEF Anc
<1>2. a \in Seq(Names) /\ d \in Seq(Names) /\ p \in Seq(Names) BY <1>1, PathType
<1>3. Len(a) \in Nat /\ Len(d) \in Nat /\ Len(p) \in Nat BY <1>1, PathType
<1>4. Len(a) <= Len(d) BY <1>1, <1>3 DEF ChildOf, Below
<1>5. \A i \in 1..Len(a) : a[i] = d[i] BY <1>1, <1>3, <1>4 DEF ChildOf, Below
<1>6. CASE Len(a) = Len(d)
  BY <1>2, <1>5, <1>6, SeqEqual
<1>7. CASE Len(a) < Len(d)
  BY <1>1, <1>5, <1>7 DEF Anc, Below
<1>8. QED BY <1>3, <1>4, <1>6, <1>7

\* Between a directory and an entry below it lies a child of the directory.
LEMMA ChildOnPath ==
  ASSUME NEW d \in Paths, NEW q \in Paths, Below(d, q)
  PROVE  \E c \in Paths : ChildOf(d, c) /\ AtOrBelow(c, q)
<1> DEFINE n == Len(d) + 1
           c == SubSeq(q, 1, n)
<1>1. q \in Seq(Names) /\ Len(q) \in Nat /\ Len(d) \in Nat BY PathType
<1>2. n \in 1..Len(q) /\ 1 \in Nat BY <1>1 DEF Below
<1>3. c \in Paths BY <1>2, PathsAssumption
<1>4. Len(c) = n /\ \A i \in 1..n : c[i] = q[i] BY <1>1, <1>2, SubSeqProperties
<1>5. ChildOf(d, c) BY <1>1, <1>4 DEF ChildOf, Below
<1>6. c = q \/ Below(c, q)
  <2>1. CASE n = Len(q)
    BY <1>1, <1>3, <1>4, <2>1, PathType, SeqEqual
  <2>2. CASE n < Len(q)
    BY <1>1, <1>4, <2>2 DEF Below
  <2>3. QED BY <1>1, <1>2, <2>1, <2>2
<1>7. QED BY <1>3, <1>5, <1>6 DEF AtOrBelow

\* The image of an entry of the moved tree lies in the destination.
LEMMA JoinBelow ==
  ASSUME NEW s \in Paths, NEW d \in Paths, NEW q \in Paths, AtOrBelow(s, q)
  PROVE  LET t == d \o SubSeq(q, Len(s) + 1, Len(q))
         IN  AtOrBelow(d, t) /\ (q = s => t = d)
<1> DEFINE r == SubSeq(q, Len(s) + 1, Len(q))
           t == d \o r
<1>1. /\ s \in Seq(Names) /\ d \in Seq(Names) /\ q \in Seq(Names)
      /\ Len(s) \in Nat /\ Len(d) \in Nat /\ Len(q) \in Nat /\ Len(s) <= Len(q)
  BY PathType DEF AtOrBelow, Below
<1>2. CASE q = s
  <2>1. r = << >> BY <1>1, <1>2, SubSeqEmpty
  <2>2. t = d BY <1>1, <2>1, ConcatEmptySeq
  <2>3. QED BY <2>2 DEF AtOrBelow
<1>3. CASE q # s
  <2>1. Len(s) < Len(q) BY <1>3 DEF AtOrBelow, Below
  <2>2. r \in Seq(Names) /\ Len(r) = Len(q) - Len(s)
    BY <1>1, <2>1, SubSeqProperties
  <2>3. Len(t) = Len(d) + Len(r) /\ \A i \in 1..Len(d) : t[i] = d[i]
    BY <1>1, <2>2, ConcatProperties
  <2>4. QED BY <1>1, <1>3, <2>1, <2>2, <2>3 DEF AtOrBelow, Below
<1>4. QED BY <1>2, <1>3

(***************************************************************************)
(* resolve().                                                              *)
(***************************************************************************)

LEMMA ResolveType == TypeOK => \A p \in Paths : Resolve(p) \in Entry /\ View(p) \in Entry
<1> SUFFICES ASSUME TypeOK, NEW p \in Paths PROVE Resolve(p) \in Entry /\ View(p) \in Entry
  OBVIOUS
<1>1. LowerResolve(lower, p) \in Entry
  <2>1. CASE \E i \in 1..Len(lower) : FoundIn(lower, i, p)
    <3> DEFINE i == CHOOSE i \in 1..Len(lower) : FoundIn(lower, i, p)
    <3>1. i \in 1..Len(lower) BY <2>1
    <3>2. lower[i] \in Layer BY <3>1, ElementOfSeq DEF TypeOK
    <3>3. lower[i].ent[p] \in Entry BY <3>2 DEF Layer
    <3>4. LowerResolve(lower, p) = lower[i].ent[p] BY <2>1 DEF LowerResolve
    <3>5. QED BY <3>3, <3>4
  <2>2. CASE ~ \E i \in 1..Len(lower) : FoundIn(lower, i, p)
    BY <2>2 DEF LowerResolve, Entry
  <2>3. QED BY <2>1, <2>2
<1>2. Resolve(p) \in Entry BY <1>1 DEF TypeOK, Resolve, Entry
<1>3. QED BY <1>2 DEF View, Entry

\* A path that resolves to something has no marker in the upper, and resolves to
\* the upper's entry if there is one.
LEMMA ResolveUpper ==
  ASSUME NEW p \in Paths, Resolve(p) # Absent
  PROVE  p \notin wh /\ (ent[p] # Absent => Resolve(p) = ent[p])
  BY DEF Resolve

LEMMA ViewFound ==
  ASSUME NEW p \in Paths, View(p) # Absent
  PROVE  Reachable(p) /\ Resolve(p) = View(p)
  BY DEF View

\* resolve() looks at the upper only at the path itself and at the opaque markers
\* above it.
LEMMA ResolveElsewhere ==
  ASSUME NEW q \in Paths, lower' = lower, ent'[q] = ent[q], q \in wh' <=> q \in wh,
         OpaqueAbove(opq, q)' <=> OpaqueAbove(opq, q)
  PROVE  Resolve(q)' = Resolve(q)
  BY DEF Resolve

\* Removing the opaque marker of a directory matters only below it.
LEMMA OpaqueElsewhere ==
  ASSUME NEW c, NEW q \in Paths, ~Below(c, q), opq' = opq \ {c}
  PROVE  OpaqueAbove(opq, q)' <=> OpaqueAbove(opq, q)
  BY DEF OpaqueAbove

\* The step changes what is resolved at most at c and below it.
ChangesOnly(c) == \A q \in Paths : AtOrBelow(c, q) \/ Resolve(q)' = Resolve(q)

LEMMA ReachableKept ==
  ASSUME NEW c \in Paths, NEW q \in Paths, ChangesOnly(c), ~Below(c, q), Reachable(q)
  PROVE  Reachable(q)'
<1> SUFFICES ASSUME NEW a \in Anc(q) PROVE Resolve(a)' = Dir
  BY DEF Reachable, Anc
<1>1. a \in Paths /\ Below(a, q) BY DEF Anc
<1>2. ~AtOrBelow(c, a) BY <1>1, BelowTrans DEF AtOrBelow
<1>3. QED BY <1>1, <1>2 DEF ChangesOnly, Reachable

LEMMA ViewKept ==
  ASSUME NEW c \in Paths, NEW q \in Paths, ChangesOnly(c), ~AtOrBelow(c, q)
  PROVE  View(q)' = View(q)
<1>1. \A a \in Anc(q) : Resolve(a)' = Resolve(a)
  <2> SUFFICES ASSUME NEW a \in Anc(q) PROVE Resolve(a)' = Resolve(a)
    OBVIOUS
  <2>1. a \in Paths /\ Below(a, q) BY DEF Anc
  <2>2. ~AtOrBelow(c, a) BY <2>1, BelowTrans DEF AtOrBelow
  <2>3. QED BY <2>1, <2>2 DEF ChangesOnly
<1>2. Reachable(q)' <=> Reachable(q) BY <1>1 DEF Reachable, Anc
<1>3. Resolve(q)' = Resolve(q) BY DEF ChangesOnly
<1>4. QED BY <1>2, <1>3 DEF View

\* A step that leaves the disk alone leaves the merged tree alone.
LEMMA DiskKept ==
  ASSUME UNCHANGED <<lower, ent, wh, opq>>
  PROVE  \A q \in Paths : Resolve(q)' = Resolve(q) /\ View(q)' = View(q)
                          /\ (Reachable(q)' <=> Reachable(q))
                          /\ (Listed(q)' <=> Listed(q))
                          /\ NoParent(q)' = NoParent(q)
<1>1. \A q \in Paths : Resolve(q)' = Resolve(q)
  BY DEF Resolve, OpaqueAbove
<1>2. \A q \in Paths : Reachable(q)' <=> Reachable(q)
  BY <1>1 DEF Reachable, Anc
<1>3. \A q \in Paths : View(q)' = View(q)
  BY <1>1, <1>2 DEF View
<1>4. \A q \in Paths : (Listed(q)' <=> Listed(q)) /\ NoParent(q)' = NoParent(q)
  BY DEF Listed, NoParent
<1>5. QED BY <1>1, <1>2, <1>3, <1>4

(***************************************************************************)
(* The inductive invariant.                                                *)
(***************************************************************************)

IInv == TypeOK /\ UpperIsTree /\ CallInv /\ Frame

LEMMA InitInv == Init => IInv
<1> SUFFICES ASSUME Init PROVE IInv
  OBVIOUS
<1>1. PICK s \in Stacks : /\ lower = s.lower
                          /\ ent = s.upper.ent /\ wh = s.upper.wh /\ opq = s.upper.opq
                          /\ op = Idle
  BY DEF Init
<1>2. s.upper \in Layer /\ IsTree(s.upper) /\ s.lower \in Seq(Layer)
  BY StacksAssumption
<1>3. TypeOK
  <2>1. Idle \in Ops
    BY DEF Idle, Ops, Kinds, PCs, Outcomes, Entry
  <2>2. QED BY <1>1, <1>2, <2>1 DEF TypeOK, Layer
<1>4. UpperIsTree BY <1>1, <1>2 DEF UpperIsTree, IsTree, Layer
<1>5. op.pc = "idle" BY <1>1 DEF Idle
<1>6. QED BY <1>3, <1>4, <1>5 DEF IInv, CallInv, Frame

\* The upper's tree property, spelled out.
LEMMA TreeFacts ==
  ASSUME UpperIsTree
  PROVE  /\ \A p \in Paths : ent[p] # Absent \/ p \in wh => \A a \in Anc(p) : ent[a] = Dir
         /\ \A d \in opq \ {Root} : ent[d] = Dir /\ \A a \in Anc(d) : ent[a] = Dir
         /\ \A p \in wh : ent[p] = Absent
  BY DEF UpperIsTree, IsTree

LEMMA TreeFactsPrime ==
  ASSUME /\ \A p \in Paths : ent'[p] # Absent \/ p \in wh' => \A a \in Anc(p) : ent'[a] = Dir
         /\ \A d \in opq' \ {Root} : ent'[d] = Dir /\ \A a \in Anc(d) : ent'[a] = Dir
         /\ \A p \in wh' : ent'[p] = Absent
  PROVE  UpperIsTree'
  BY DEF UpperIsTree, IsTree, Anc

\* A directory that the upper holds, with everything above it, is a directory of
\* the merged tree.
LEMMA UpperDirFound ==
  ASSUME UpperIsTree, NEW d \in Paths, ent[d] = Dir
  PROVE  Resolve(d) = Dir
  BY TreeFacts, EntryAssumption DEF Resolve

\* Once no parent is missing, all of them are directories of the upper.
LEMMA ParentsInUpper ==
  ASSUME NEW p \in Paths, Reachable(p), NoParent(p) = {}
  PROVE  \A a \in Anc(p) : ent[a] = Dir /\ a \notin wh
<1> SUFFICES ASSUME NEW a \in Anc(p) PROVE ent[a] = Dir /\ a \notin wh
  OBVIOUS
<1>1. a \in Paths BY DEF Anc
<1>2. Resolve(a) = Dir BY DEF Reachable
<1>3. ent[a] # Absent BY DEF NoParent
<1>4. QED BY <1>1, <1>2, <1>3, ResolveUpper, EntryAssumption

LEMMA ParentsAllThere ==
  ASSUME NEW p \in Paths, \A a \in Anc(p) : ent[a] = Dir
  PROVE  NoParent(p) = {}
  BY EntryAssumption DEF NoParent

\* What the upper holds is what is seen.
LEMMA UpperSeen ==
  ASSUME IInv, NEW p \in Paths, ent[p] # Absent
  PROVE  View(p) = ent[p]
<1>1. p \notin wh BY TreeFacts DEF IInv
<1>2. Resolve(p) = ent[p] BY <1>1 DEF Resolve
<1>3. \A a \in Anc(p) : Resolve(a) = Dir
  <2> SUFFICES ASSUME NEW a \in Anc(p) PROVE Resolve(a) = Dir
    OBVIOUS
  <2>1. a \in Paths /\ ent[a] = Dir BY TreeFacts DEF IInv, Anc
  <2>2. QED BY <2>1, UpperDirFound DEF IInv
<1>4. QED BY <1>2, <1>3 DEF View, Reachable

(***************************************************************************)
(* A call begins.                                                          *)
(***************************************************************************)
LEMMA BeginTyped ==
  ASSUME TypeOK,
         NEW kind \in Kinds, NEW pc \in PCs, NEW src \in Paths, NEW dst \in Paths,
         NEW val \in Entry, NEW new \in Entry, NEW todo \in SUBSET Paths,
         Begin(kind, pc, src, dst, val, new, todo)
  PROVE  TypeOK' /\ Frame'
<1>1. \A p \in Paths : View(p) \in Entry BY ResolveType
<1>2. op' \in Ops BY <1>1 DEF Begin, Ops, Outcomes
<1>3. TypeOK' BY <1>2 DEF Begin, TypeOK
<1>4. \A q \in Paths : View(q)' = View(q) BY DiskKept DEF Begin
<1>5. \A q \in Paths : op'.before[q] = View(q) BY DEF Begin
<1>6. Frame' BY <1>4, <1>5 DEF Frame
<1>7. QED BY <1>3, <1>6

LEMMA TreeKept ==
  ASSUME UpperIsTree, UNCHANGED <<lower, ent, wh, opq>>
  PROVE  UpperIsTree'
  BY DEF UpperIsTree, IsTree, Anc

LEMMA CallCreate ==
  ASSUME IInv, NEW p \in Paths, Reachable(p),
         NEW kind \in {"create_file", "create_dir"}, NEW val \in Entry,
         Begin(kind, "parents", p, p, val, val, {})
  PROVE  IInv'
<1>1. TypeOK' /\ Frame'
  BY BeginTyped DEF IInv, Kinds, Creating, PCs, CopyPCs
<1>2. UpperIsTree' BY TreeKept DEF IInv, Begin
<1>3. Reachable(p)' BY DiskKept DEF Begin
<1>4. CallInv'
  BY <1>3 DEF Begin, CallInv, Kinds, Creating, Removing, Moving, CopyPCs, RemovePCs, AtOrBelow
<1>5. QED BY <1>1, <1>2, <1>4 DEF IInv

LEMMA CallAppend ==
  ASSUME IInv, NEW p \in Paths, NEW d \in Data, AppendFile(p, d)
  PROVE  IInv'
<1> DEFINE pc == IF ent[p] # Absent THEN "append" ELSE "parents"
<1>1. View(p) \in Data /\ Begin("append_file", pc, p, p, View(p), d, {})
  BY DEF AppendFile
<1>2. Reachable(p) /\ Resolve(p) \in Data BY <1>1, EntryAssumption, ViewFound
<1>3. TypeOK' /\ Frame'
  BY <1>1, BeginTyped DEF IInv, Kinds, Creating, PCs, CopyPCs, Entry
<1>4. UpperIsTree' BY <1>1, TreeKept DEF IInv, Begin
<1>5. p \notin wh /\ (ent[p] # Absent => ent[p] \in Data)
  BY <1>2, ResolveUpper, EntryAssumption
<1>6. ent[p] # Absent => NoParent(p) = {}
  BY TreeFacts, ParentsAllThere DEF IInv
<1>7. Reachable(p)' /\ NoParent(p)' = NoParent(p) BY <1>1, <1>2, DiskKept DEF Begin
<1>8. CallInv'
  BY <1>1, <1>5, <1>6, <1>7
     DEF Begin, CallInv, Kinds, Creating, Removing, Moving, CopyPCs, RemovePCs, AtOrBelow
<1>9. QED BY <1>3, <1>4, <1>8 DEF IInv

LEMMA CallRemove ==
  ASSUME IInv, NEW p \in Paths, View(p) # Absent,
         NEW kind \in {"remove_file", "remove_dir"},
         Begin(kind, "remove", p, p, Absent, Absent, {})
  PROVE  IInv'
<1>0. kind \in Kinds /\ "remove" \in PCs /\ Absent \in Entry
  BY DEF Kinds, Removing, PCs, RemovePCs, Entry
<1>1. TypeOK' /\ Frame'
  BY <1>0, BeginTyped DEF IInv
<1>2. UpperIsTree' BY TreeKept DEF IInv, Begin
<1>3. Reachable(p)' BY ViewFound, DiskKept DEF Begin
<1>4. CallInv'
  BY <1>3 DEF Begin, CallInv, Kinds, Creating, Removing, Moving, CopyPCs, RemovePCs, AtOrBelow
<1>5. QED BY <1>1, <1>2, <1>4 DEF IInv

\* The destination of a copy or a move does not exist, so it is not above a
\* source that does.
LEMMA DstNotAbove ==
  ASSUME NEW s \in Paths, NEW d \in Paths, View(s) # Absent, Resolve(d) = Absent
  PROVE  ~AtOrBelow(d, s)
<1>1. Reachable(s) /\ Resolve(s) # Absent BY ViewFound
<1>2. Below(d, s) => Resolve(d) = Dir BY <1>1 DEF Reachable, Anc
<1>3. QED BY <1>1, <1>2, EntryAssumption DEF AtOrBelow

LEMMA CallCopy ==
  ASSUME IInv, NEW s \in Paths, NEW d \in Paths, View(s) \in Data,
         Reachable(d), Resolve(d) = Absent,
         NEW kind \in {"copy_file", "move_file"},
         Begin(kind, "parents", s, d, View(s), View(s), {})
  PROVE  IInv'
<1>1. TypeOK' /\ Frame'
  BY BeginTyped DEF IInv, Kinds, Creating, PCs, CopyPCs, Entry
<1>2. UpperIsTree' BY TreeKept DEF IInv, Begin
<1>3. Reachable(s) /\ ~AtOrBelow(d, s) BY ViewFound, DstNotAbove, EntryAssumption
<1>4. Reachable(s)' /\ Reachable(d)' BY <1>3, DiskKept DEF Begin
<1>5. CallInv'
  BY <1>3, <1>4
     DEF Begin, CallInv, Kinds, Creating, Removing, Moving, CopyPCs, RemovePCs, AtOrBelow
<1>6. QED BY <1>1, <1>2, <1>5 DEF IInv

LEMMA CallMoveDir ==
  ASSUME IInv, NEW s \in Paths, NEW d \in Paths, MoveDir(s, d)
  PROVE  IInv'
<1>1. /\ View(s) = Dir /\ Reachable(d) /\ Resolve(d) = Absent
      /\ \A q \in Walk(s) : d \o SubSeq(q, Len(s) + 1, Len(q)) \in Paths
      /\ Begin("move_dir", "pick_copy", s, d, Dir, Dir, Walk(s))
  BY DEF MoveDir
<1>2. Walk(s) \in SUBSET Paths /\ \A q \in Walk(s) : AtOrBelow(s, q) BY DEF Walk
<1>3. TypeOK' /\ Frame'
  BY <1>1, <1>2, BeginTyped DEF IInv, Kinds, Creating, PCs, Entry
<1>4. UpperIsTree' BY <1>1, TreeKept DEF IInv, Begin
<1>5. ~AtOrBelow(d, s) BY <1>1, DstNotAbove, EntryAssumption
<1>6. Reachable(d)' BY <1>1, DiskKept DEF Begin
<1>7. op'.src = s /\ op'.dst = d /\ op'.todo = Walk(s) BY <1>1 DEF Begin
<1>8. \A q \in op'.todo : Image(q)' \in Paths BY <1>1, <1>7 DEF Image
<1>9. CallInv'
  BY <1>1, <1>2, <1>5, <1>6, <1>7, <1>8
     DEF Begin, CallInv, Kinds, Creating, Removing, Moving, CopyPCs, RemovePCs, AtOrBelow
<1>10. QED BY <1>3, <1>4, <1>9 DEF IInv

LEMMA CallInductive == IInv /\ Call => IInv'
<1> SUFFICES ASSUME IInv, Call PROVE IInv'
  OBVIOUS
<1>1. PICK p \in Paths :
        \/ \E d \in Data : CreateFile(p, d) \/ AppendFile(p, d)
        \/ CreateDir(p) \/ RemoveFile(p) \/ RemoveDir(p)
        \/ \E q \in Paths : CopyFile(p, q) \/ MoveFile(p, q) \/ MoveDir(p, q)
  BY DEF Call
<1>2. ASSUME NEW d \in Data, CreateFile(p, d) PROVE IInv'
  BY <1>2, CallCreate DEF CreateFile, Entry
<1>3. ASSUME NEW d \in Data, AppendFile(p, d) PROVE IInv'
  BY <1>3, CallAppend
<1>4. CASE CreateDir(p)
  BY <1>4, CallCreate DEF CreateDir, Entry
<1>5. CASE RemoveFile(p)
  BY <1>5, CallRemove, EntryAssumption DEF RemoveFile
<1>6. CASE RemoveDir(p)
  BY <1>6, CallRemove, EntryAssumption DEF RemoveDir
<1>7. ASSUME NEW q \in Paths, CopyFile(p, q) \/ MoveFile(p, q) PROVE IInv'
  BY <1>7, CallCopy DEF CopyFile, MoveFile
<1>8. ASSUME NEW q \in Paths, MoveDir(p, q) PROVE IInv'
  BY <1>8, CallMoveDir
<1>9. QED BY <1>1, <1>2, <1>3, <1>4, <1>5, <1>6, <1>7, <1>8

(***************************************************************************)
(* Steps that leave the disk alone.                                        *)
(***************************************************************************)

\* The call goes on (or ends) with the arguments it was made with.
SameCall == /\ op'.kind = op.kind /\ op'.src = op.src /\ op'.dst = op.dst
            /\ op'.before = op.before
            /\ op.pc # "idle"

LEMMA FrameKept ==
  ASSUME IInv, SameCall, UNCHANGED <<lower, ent, wh, opq>>
  PROVE  Frame'
<1>1. \A q \in Paths : View(q)' = View(q) BY DiskKept
<1>2. \A q \in Paths : Touched(q)' <=> Touched(q) BY DEF SameCall, Touched
<1>3. QED BY <1>1, <1>2 DEF IInv, Frame, SameCall

LEMMA StopInductive ==
  ASSUME IInv, NEW why \in Outcomes, op.pc \notin {"idle", "done"},
         op' = [op EXCEPT !.pc = "done", !.out = why], UNCHANGED <<lower, ent, wh, opq>>
  PROVE  IInv'
<1>1. op' \in Ops BY DEF IInv, TypeOK, Ops, PCs
<1>2. TypeOK' BY <1>1 DEF IInv, TypeOK
<1>3. UpperIsTree' BY TreeKept DEF IInv
<1>4. op'.pc = "done" /\ SameCall BY DEF IInv, TypeOK, Ops, SameCall
<1>5. QED BY <1>2, <1>3, <1>4, FrameKept DEF IInv, CallInv

LEMMA ReplyInductive == IInv /\ Reply => IInv'
<1> SUFFICES ASSUME IInv, Reply PROVE IInv'
  OBVIOUS
<1>1. op' = Idle /\ UNCHANGED <<lower, ent, wh, opq>> BY DEF Reply
<1>2. Idle \in Ops BY DEF Idle, Ops, Kinds, PCs, Outcomes, Entry
<1>3. TypeOK' BY <1>1, <1>2 DEF IInv, TypeOK
<1>4. UpperIsTree' BY <1>1, TreeKept DEF IInv
<1>5. op'.pc = "idle" BY <1>1 DEF Idle
<1>6. QED BY <1>3, <1>4, <1>5 DEF IInv, CallInv, Frame

\* What the calls' invariant says, for a call that is under way.
LEMMA ParentsMadeInductive == IInv /\ ParentsMade => IInv'
<1> SUFFICES ASSUME IInv, ParentsMade PROVE IInv'
  OBVIOUS
<1>1. op.pc \in {"parents", "mark_parents"} /\ NoParent(Target) = {}
      /\ UNCHANGED <<lower, ent, wh, opq>>
  BY DEF ParentsMade
<1> DEFINE pc == IF op.pc = "mark_parents" THEN "mark"
                 ELSE IF op.kind = "append_file" THEN "create" ELSE "unmask"
<1>2. op' = [op EXCEPT !.pc = pc, !.out = "none"] BY DEF ParentsMade, Goto
<1>3. op \in Ops BY DEF IInv, TypeOK
<1>4. op' \in Ops
  <2>1. pc \in PCs BY DEF PCs, CopyPCs, RemovePCs
  <2> HIDE DEF pc
  <2>2. QED BY <1>2, <1>3, <2>1 DEF Ops, Outcomes
<1>5. TypeOK' BY <1>1, <1>4 DEF IInv, TypeOK
<1>6. UpperIsTree' BY <1>1, TreeKept DEF IInv
<1>7. SameCall /\ op'.at = op.at /\ op'.to = op.to /\ op'.val = op.val /\ op'.new = op.new
      /\ op'.todo = op.todo /\ op'.pc = pc
  BY <1>1, <1>2, <1>3 DEF SameCall, Ops
<1>8. Frame' BY <1>1, <1>7, FrameKept
<1>9. \A q \in Paths : (Reachable(q)' <=> Reachable(q)) /\ NoParent(q)' = NoParent(q)
  BY <1>1, DiskKept
<1>10. \A q : Image(q)' = Image(q) BY <1>7 DEF Image, SameCall
<1>11. op.todo \subseteq Paths BY <1>3 DEF Ops
<1>12. CallInv'
  <2>1. CASE op.pc = "parents"
    BY <1>1, <1>7, <1>9, <1>10, <1>11, <2>1
       DEF IInv, CallInv, SameCall, Target, CopyPCs, RemovePCs
  <2>2. CASE op.pc = "mark_parents"
    BY <1>1, <1>7, <1>9, <1>10, <1>11, <2>2
       DEF IInv, CallInv, SameCall, Target, CopyPCs, RemovePCs
  <2>3. QED BY <1>1, <2>1, <2>2
<1>13. QED BY <1>5, <1>6, <1>8, <1>12 DEF IInv

LEMMA PickCopyInductive == IInv /\ PickCopy => IInv'
<1> SUFFICES ASSUME IInv, PickCopy PROVE IInv'
  OBVIOUS
<1>1. op.pc = "pick_copy" /\ UNCHANGED <<lower, ent, wh, opq>> BY DEF PickCopy
<1>2. PICK q \in op.todo :
        /\ q = op.src \/ \E d \in Paths : ChildOf(d, Image(q)) /\ ent[d] = Dir
        /\ op' = [op EXCEPT !.pc = "parents", !.at = q, !.to = Image(q), !.val = Resolve(q),
                            !.todo = @ \ {q}]
  BY DEF PickCopy
<1>3. op \in Ops BY DEF IInv, TypeOK
<1>4. q \in Paths /\ op.src \in Paths /\ op.dst \in Paths /\ op.kind = "move_dir"
      /\ AtOrBelow(op.src, q) /\ Image(q) \in Paths /\ Reachable(op.dst)
      /\ ~AtOrBelow(op.dst, op.src)
  BY <1>1, <1>2, <1>3 DEF IInv, CallInv, Ops, Moving
<1>5. Resolve(q) \in Entry BY <1>4, ResolveType DEF IInv
<1>6. op' \in Ops BY <1>2, <1>3, <1>4, <1>5 DEF Ops, PCs, CopyPCs
<1>7. TypeOK' BY <1>1, <1>6 DEF IInv, TypeOK
<1>8. UpperIsTree' BY <1>1, TreeKept DEF IInv
<1>9. SameCall /\ op'.pc = "parents" /\ op'.at = q /\ op'.to = Image(q)
      /\ op'.todo = op.todo \ {q}
  BY <1>1, <1>2, <1>3 DEF SameCall, Ops
<1>10. Frame' BY <1>1, <1>9, FrameKept
<1>11. AtOrBelow(op.dst, Image(q)) /\ (q = op.src => Image(q) = op.dst)
  BY <1>4, JoinBelow DEF Image
<1>12. Reachable(Image(q))
  <2>1. CASE q = op.src
    BY <1>4, <1>11, <2>1
  <2>2. ASSUME NEW d \in Paths, ChildOf(d, Image(q)), ent[d] = Dir PROVE Reachable(Image(q))
    <3> SUFFICES ASSUME NEW a \in Anc(Image(q)) PROVE Resolve(a) = Dir
      BY DEF Reachable
    <3>1. a \in Paths BY DEF Anc
    <3>2. a = d \/ a \in Anc(d) BY <1>4, <2>2, AncOfChild
    <3>3. ent[a] = Dir BY <2>2, <3>2, TreeFacts, EntryAssumption DEF IInv
    <3>4. QED BY <3>1, <3>3, UpperDirFound DEF IInv
  <2>3. QED BY <1>2, <2>1, <2>2
<1>13. \A r \in Paths : Reachable(r)' <=> Reachable(r) BY <1>1, DiskKept
<1>14. \A r : Image(r)' = Image(r) BY <1>9 DEF Image, SameCall
<1>15. CallInv'
  BY <1>1, <1>4, <1>9, <1>11, <1>12, <1>13, <1>14
     DEF IInv, CallInv, SameCall, Kinds, Creating, Removing, Moving, CopyPCs, RemovePCs
<1>16. QED BY <1>7, <1>8, <1>10, <1>15 DEF IInv

LEMMA CopyDoneInductive == IInv /\ CopyDone => IInv'
<1> SUFFICES ASSUME IInv, CopyDone PROVE IInv'
  OBVIOUS
<1>1. op.pc = "pick_copy" /\ UNCHANGED <<lower, ent, wh, opq>>
      /\ op' = [op EXCEPT !.pc = "pick_remove", !.todo = Walk(op.src)]
  BY DEF CopyDone
<1>2. op \in Ops BY DEF IInv, TypeOK
<1>3. Walk(op.src) \subseteq Paths /\ \A q \in Walk(op.src) : AtOrBelow(op.src, q) /\ Reachable(q)
  BY ViewFound DEF Walk
<1>4. op' \in Ops BY <1>1, <1>2, <1>3 DEF Ops, PCs
<1>5. TypeOK' BY <1>1, <1>4 DEF IInv, TypeOK
<1>6. UpperIsTree' BY <1>1, TreeKept DEF IInv
<1>7. SameCall /\ op'.pc = "pick_remove" /\ op'.at = op.at /\ op'.to = op.to
      /\ op'.todo = Walk(op.src)
  BY <1>1, <1>2 DEF SameCall, Ops
<1>8. Frame' BY <1>1, <1>7, FrameKept
<1>9. \A r \in Paths : Reachable(r)' <=> Reachable(r) BY <1>1, DiskKept
<1>10. CallInv'
  BY <1>1, <1>3, <1>7, <1>9
     DEF IInv, CallInv, SameCall, Kinds, Creating, Removing, Moving, CopyPCs, RemovePCs
<1>11. QED BY <1>5, <1>6, <1>8, <1>10 DEF IInv

LEMMA PickRemoveInductive == IInv /\ PickRemove => IInv'
<1> SUFFICES ASSUME IInv, PickRemove PROVE IInv'
  OBVIOUS
<1>1. op.pc = "pick_remove" /\ UNCHANGED <<lower, ent, wh, opq>> BY DEF PickRemove
<1>2. PICK q \in op.todo :
        /\ \A r \in op.todo : ~Below(q, r)
        /\ op' = [op EXCEPT !.pc = IF Resolve(q) = Dir THEN "sweep" ELSE "remove", !.at = q,
                            !.todo = @ \ {q}]
  BY DEF PickRemove
<1>3. op \in Ops BY DEF IInv, TypeOK
<1>4. q \in Paths /\ op.kind = "move_dir" /\ AtOrBelow(op.src, q) /\ Reachable(q)
  BY <1>1, <1>2, <1>3 DEF IInv, CallInv, Ops
<1>5. op' \in Ops BY <1>2, <1>3, <1>4 DEF Ops, PCs, RemovePCs
<1>6. TypeOK' BY <1>1, <1>5 DEF IInv, TypeOK
<1>7. UpperIsTree' BY <1>1, TreeKept DEF IInv
<1>8. SameCall /\ op'.pc \in {"sweep", "remove"} /\ op'.at = q /\ op'.to = op.to
      /\ op'.todo = op.todo \ {q}
  BY <1>1, <1>2, <1>3 DEF SameCall, Ops
<1>9. Frame' BY <1>1, <1>8, FrameKept
<1>10. \A r \in Paths : Reachable(r)' <=> Reachable(r) BY <1>1, DiskKept
<1>11. \A r \in op'.todo : r \in Paths /\ ~AtOrBelow(q, r)
  BY <1>2, <1>3, <1>8 DEF AtOrBelow, Ops
<1>12. CallInv'
  BY <1>1, <1>4, <1>8, <1>10, <1>11
     DEF IInv, CallInv, SameCall, Kinds, Creating, Removing, Moving, CopyPCs, RemovePCs
<1>13. QED BY <1>6, <1>7, <1>9, <1>12 DEF IInv

LEMMA SweptInductive == IInv /\ Swept => IInv'
<1> SUFFICES ASSUME IInv, Swept PROVE IInv'
  OBVIOUS
<1>1. op.pc = "sweep" /\ UNCHANGED <<lower, ent, wh, opq>>
      /\ op' = [op EXCEPT !.pc = "remove", !.out = "none"]
  BY DEF Swept, Goto
<1>2. op \in Ops BY DEF IInv, TypeOK
<1>3. op' \in Ops BY <1>1, <1>2 DEF Ops, PCs, RemovePCs, Outcomes
<1>4. TypeOK' BY <1>1, <1>3 DEF IInv, TypeOK
<1>5. UpperIsTree' BY <1>1, TreeKept DEF IInv
<1>6. SameCall /\ op'.pc = "remove" /\ op'.at = op.at /\ op'.to = op.to /\ op'.todo = op.todo
  BY <1>1, <1>2 DEF SameCall, Ops
<1>7. Frame' BY <1>1, <1>6, FrameKept
<1>8. \A r \in Paths : Reachable(r)' <=> Reachable(r) BY <1>1, DiskKept
<1>9. op.todo \subseteq Paths BY <1>2 DEF Ops
<1>10. CallInv'
  BY <1>1, <1>6, <1>8, <1>9
     DEF IInv, CallInv, SameCall, Kinds, Creating, Removing, Moving, CopyPCs, RemovePCs
<1>11. QED BY <1>4, <1>5, <1>7, <1>10 DEF IInv

(***************************************************************************)
(* Steps that change the disk.                                             *)
(***************************************************************************)

\* A step that changes only paths the call is about preserves Frame.
LEMMA FrameTouched ==
  ASSUME IInv, SameCall, NEW c \in Paths, ChangesOnly(c), Touched(c), op \in Ops
  PROVE  Frame'
<1> SUFFICES ASSUME NEW q \in Paths, ~Touched(q)' PROVE View(q)' = op'.before[q]
  BY DEF Frame
<1>1. ~Touched(q) BY DEF SameCall, Touched
<1>2. op.src \in Paths \cup {Root} /\ op.dst \in Paths \cup {Root} BY DEF Ops
<1>3. ~AtOrBelow(c, q) BY <1>1, <1>2, AtOrBelowTrans DEF Touched
<1>4. View(q)' = View(q) BY <1>3, ViewKept
<1>5. QED BY <1>1, <1>4 DEF IInv, Frame, SameCall

LEMMA FrameSame ==
  ASSUME IInv, SameCall, \A q \in Paths : Resolve(q)' = Resolve(q)
  PROVE  Frame'
<1>1. \A q \in Paths : Reachable(q)' <=> Reachable(q) BY DEF Reachable, Anc
<1>2. \A q \in Paths : View(q)' = View(q) BY <1>1 DEF View
<1>3. \A q \in Paths : Touched(q)' <=> Touched(q) BY DEF SameCall, Touched
<1>4. QED BY <1>2, <1>3 DEF IInv, Frame, SameCall

\* A step at the entry being created or removed is about the call.
LEMMA TargetTouched ==
  ASSUME IInv, op.pc \notin {"idle", "done"}
  PROVE  /\ op.pc \in CopyPCs => Touched(op.to)
         /\ op.pc \in RemovePCs => Touched(op.at)
  BY DEF IInv, CallInv, Touched

\* ensure_upper_parents makes a directory that the merged tree has already.
LEMMA MakeParentFacts ==
  ASSUME IInv, MakeParent
  PROVE  /\ \E a \in Anc(Target) : /\ ent[a] = Absent /\ a \notin wh /\ Resolve(a) = Dir
                                   /\ ent' = [ent EXCEPT ![a] = Dir]
         /\ NoParent(Target) # {}
         /\ \A q \in Paths : Resolve(q)' = Resolve(q)
<1>1. op.pc \in {"parents", "mark_parents"} /\ UNCHANGED <<lower, wh, opq, op>> BY DEF MakeParent
<1>2. PICK a \in NoParent(Target) : ent' = [ent EXCEPT ![a] = Dir] BY DEF MakeParent
<1>3. ent \in [Paths -> Entry] BY DEF IInv, TypeOK
<1>4. Reachable(Target) BY <1>1 DEF IInv, CallInv, Target, CopyPCs, RemovePCs
<1>5. a \in Paths /\ a \in Anc(Target) /\ ent[a] = Absent BY <1>2 DEF NoParent, Anc
<1>6. Resolve(a) = Dir /\ a \notin wh
  BY <1>4, <1>5, ResolveUpper, EntryAssumption DEF Reachable
<1>7. ASSUME NEW q \in Paths PROVE Resolve(q)' = Resolve(q)
  <2>1. CASE q = a
    BY <1>1, <1>2, <1>3, <1>5, <1>6, <2>1, EntryAssumption DEF Resolve
  <2>2. CASE q # a
    <3>1. ent'[q] = ent[q] BY <1>2, <1>3, <2>2
    <3>2. OpaqueAbove(opq, q)' <=> OpaqueAbove(opq, q) BY <1>1 DEF OpaqueAbove
    <3>3. QED BY <1>1, <3>1, <3>2, ResolveElsewhere
  <2>3. QED BY <2>1, <2>2
<1>8. QED BY <1>2, <1>5, <1>6, <1>7

LEMMA MakeParentInductive == IInv /\ MakeParent => IInv'
<1> SUFFICES ASSUME IInv, MakeParent PROVE IInv'
  OBVIOUS
<1>1. op.pc \in {"parents", "mark_parents"} /\ UNCHANGED <<lower, wh, opq, op>> BY DEF MakeParent
<1> DEFINE t == Target
<1>2. PICK a \in NoParent(t) :
        /\ \A b \in NoParent(t) : ~Below(b, a)
        /\ ent' = [ent EXCEPT ![a] = Dir]
  BY DEF MakeParent
<1>3. op \in Ops /\ ent \in [Paths -> Entry] BY DEF IInv, TypeOK
<1>4. t \in Paths /\ Reachable(t)
  BY <1>1 DEF IInv, CallInv, Target, CopyPCs, RemovePCs
<1> HIDE DEF t
<1>5. a \in Paths /\ a \in Anc(t) /\ ent[a] = Absent BY DEF NoParent, Anc
<1>6. Resolve(a) = Dir /\ a \notin wh
  BY <1>4, <1>5, ResolveUpper, EntryAssumption DEF Reachable
<1>7. ent' \in [Paths -> Entry] BY <1>2, <1>3 DEF Entry
<1>8. TypeOK' BY <1>1, <1>7 DEF IInv, TypeOK
<1>9. \A q \in Paths : Resolve(q)' = Resolve(q) BY MakeParentFacts
<1>10. SameCall BY <1>1 DEF SameCall
<1>11. Frame' BY <1>9, <1>10, FrameSame
<1>12. \A b \in Anc(a) : ent[b] = Dir
  <2> SUFFICES ASSUME NEW b \in Anc(a) PROVE ent[b] = Dir
    OBVIOUS
  <2>1. b \in Paths /\ Below(b, a) BY DEF Anc
  <2>2. b \in Anc(t) BY <1>4, <1>5, <2>1, BelowTrans DEF Anc
  <2>3. ent[b] # Absent BY <1>2, <2>1, <2>2 DEF NoParent
  <2>4. Resolve(b) = Dir BY <1>4, <2>2 DEF Reachable
  <2>5. QED BY <2>1, <2>3, <2>4, ResolveUpper, EntryAssumption
<1>13. \A q \in Paths : ent[q] = Dir => ent'[q] = Dir BY <1>2, <1>3
<1>14. UpperIsTree'
  <2>1. \A p \in Paths : ent'[p] # Absent \/ p \in wh' => \A b \in Anc(p) : ent'[b] = Dir
    <3> SUFFICES ASSUME NEW p \in Paths, ent'[p] # Absent \/ p \in wh', NEW b \in Anc(p)
                 PROVE  ent'[b] = Dir
      OBVIOUS
    <3>1. p = a \/ ent[p] # Absent \/ p \in wh BY <1>1, <1>2, <1>3
    <3>2. ent[b] = Dir BY <1>12, <3>1, TreeFacts DEF IInv
    <3>3. QED BY <1>13, <3>2 DEF Anc
  <2>2. \A d \in opq' \ {Root} : ent'[d] = Dir /\ \A b \in Anc(d) : ent'[b] = Dir
    <3>1. \A d \in opq \ {Root} : d \in Paths BY DEF IInv, TypeOK
    <3>2. QED BY <1>1, <1>13, <3>1, TreeFacts DEF IInv, Anc
  <2>3. \A p \in wh' : ent'[p] = Absent
    BY <1>1, <1>2, <1>3, <1>6, TreeFacts DEF IInv, TypeOK
  <2>4. QED BY <2>1, <2>2, <2>3, TreeFactsPrime
<1>15. \A q \in Paths : Reachable(q)' <=> Reachable(q) BY <1>9 DEF Reachable, Anc
<1>16. \A q : Image(q)' = Image(q) BY <1>1 DEF Image
<1>17. op.pc = "mark_parents" => op.at # a
  BY <1>1, <1>4, <1>5, NotBelowSelf DEF Target, t, Anc
<1>18. CallInv'
  BY <1>1, <1>2, <1>3, <1>15, <1>16, <1>17 DEF IInv, CallInv, CopyPCs, RemovePCs, Ops
<1>19. QED BY <1>8, <1>11, <1>14, <1>18 DEF IInv

\* A copy step changes what is found at `to` only, so everything above it, and
\* the source of a move, stays reachable.
LEMMA CopyReach ==
  ASSUME IInv, op.pc \in CopyPCs, NEW t \in Paths, NEW src \in Paths, NEW dst \in Paths,
         t = op.to, src = op.src, dst = op.dst, ChangesOnly(t)
  PROVE  /\ Reachable(t)'
         /\ op.kind = "move_dir" => Reachable(dst)'
         /\ op.kind = "move_file" => Reachable(src)'
<1>1. /\ Reachable(t) /\ AtOrBelow(dst, t)
      /\ op.kind = "move_dir" => Reachable(dst)
      /\ op.kind = "move_file" => Reachable(src) /\ t = dst /\ ~AtOrBelow(dst, src)
  BY DEF IInv, CallInv, CopyPCs, Moving
<1>2. ~Below(t, t) BY NotBelowSelf
<1>3. ~Below(t, dst) BY <1>1, <1>2, BelowTrans DEF AtOrBelow
<1>4. op.kind = "move_file" => ~Below(t, src) BY <1>1 DEF AtOrBelow
<1>5. Reachable(t)' BY <1>1, <1>2, ReachableKept
<1>6. op.kind = "move_dir" => Reachable(dst)' BY <1>1, <1>3, ReachableKept
<1>7. op.kind = "move_file" => Reachable(src)' BY <1>1, <1>4, ReachableKept
<1>8. QED BY <1>5, <1>6, <1>7

\* A removal step changes what is found at `at` and below it only, so everything
\* above it, and what the walk has still to visit, stays reachable.
LEMMA RemoveReach ==
  ASSUME IInv, op.pc \in RemovePCs, NEW t \in Paths, t = op.at, ChangesOnly(t)
  PROVE  /\ Reachable(t)'
         /\ op.kind = "move_dir" => \A q \in op.todo : Reachable(q)'
<1>1. /\ Reachable(t)
      /\ op.kind = "move_dir" => \A q \in op.todo : q \in Paths /\ Reachable(q) /\ ~AtOrBelow(t, q)
  BY DEF IInv, CallInv, RemovePCs, TypeOK, Ops
<1>2. Reachable(t)' BY <1>1, NotBelowSelf, ReachableKept
<1>3. ASSUME op.kind = "move_dir", NEW q \in op.todo PROVE Reachable(q)'
  <2>1. q \in Paths /\ Reachable(q) /\ ~Below(t, q) BY <1>1, <1>3 DEF AtOrBelow
  <2>2. QED BY <2>1, ReachableKept
<1>4. QED BY <1>2, <1>3

\* Setting the upper's entry at t, or its marker, changes what is found at t only.
LEMMA EntryChange ==
  ASSUME TypeOK, NEW t \in Paths, NEW v, ent' = [ent EXCEPT ![t] = v], UNCHANGED <<lower, wh, opq>>
  PROVE  ChangesOnly(t)
<1> SUFFICES ASSUME NEW q \in Paths, q # t PROVE Resolve(q)' = Resolve(q)
  BY DEF ChangesOnly, AtOrBelow
<1>1. ent'[q] = ent[q] BY DEF TypeOK
<1>2. OpaqueAbove(opq, q)' <=> OpaqueAbove(opq, q) BY DEF OpaqueAbove
<1>3. QED BY <1>1, <1>2, ResolveElsewhere

LEMMA MarkerChange ==
  ASSUME NEW t \in Paths, \A q \in Paths : AtOrBelow(t, q) \/ (q \in wh' <=> q \in wh),
         UNCHANGED <<lower, ent, opq>>
  PROVE  ChangesOnly(t)
<1> SUFFICES ASSUME NEW q \in Paths, ~AtOrBelow(t, q) PROVE Resolve(q)' = Resolve(q)
  BY DEF ChangesOnly
<1>1. OpaqueAbove(opq, q)' <=> OpaqueAbove(opq, q) BY DEF OpaqueAbove
<1>2. QED BY <1>1, ResolveElsewhere

\* The entry at t becomes v: the upper stays a tree when t's parents are there,
\* no marker hides t, and t does not stop being a directory that holds anything.
LEMMA TreeSet ==
  ASSUME TypeOK, UpperIsTree, NEW t \in Paths, NEW v \in Entry,
         ent' = [ent EXCEPT ![t] = v], UNCHANGED <<wh, opq>>,
         v # Absent => t \notin wh /\ \A a \in Anc(t) : ent[a] = Dir,
         ent[t] = Dir => v = Dir
  PROVE  UpperIsTree'
<1>1. ent \in [Paths -> Entry] BY DEF TypeOK
<1>2. \A q \in Paths : ent[q] = Dir => ent'[q] = Dir BY <1>1
<1>3. \A p \in Paths : ent'[p] # Absent \/ p \in wh' => \A a \in Anc(p) : ent'[a] = Dir
  <2> SUFFICES ASSUME NEW p \in Paths, ent'[p] # Absent \/ p \in wh', NEW a \in Anc(p)
               PROVE  ent'[a] = Dir
    OBVIOUS
  <2>1. ent[a] = Dir
    <3>1. CASE p = t /\ v # Absent BY <3>1
    <3>2. CASE ~(p = t /\ v # Absent) BY <1>1, <3>2, TreeFacts
    <3>3. QED BY <3>1, <3>2
  <2>2. QED BY <1>2, <2>1 DEF Anc
<1>4. \A d \in opq' \ {Root} : ent'[d] = Dir /\ \A a \in Anc(d) : ent'[a] = Dir
  <2>1. \A d \in opq \ {Root} : d \in Paths BY DEF TypeOK
  <2>2. QED BY <1>2, <2>1, TreeFacts DEF Anc
<1>5. \A p \in wh' : ent'[p] = Absent
  <2>1. wh \subseteq Paths BY DEF TypeOK
  <2>2. QED BY <1>1, <2>1, TreeFacts
<1>6. QED BY <1>3, <1>4, <1>5, TreeFactsPrime

\* The fields a primitive on the entry at hand leaves alone.
SameEntry == /\ SameCall
             /\ op'.at = op.at /\ op'.to = op.to /\ op'.val = op.val /\ op'.new = op.new
             /\ op'.todo = op.todo

LEMMA GotoTyped ==
  ASSUME op \in Ops, op.pc # "idle", NEW pc \in PCs, Goto(pc)
  PROVE  op' \in Ops /\ SameEntry /\ op'.pc = pc
<1>1. op' \in Ops BY DEF Goto, Ops, Outcomes
<1>2. QED BY <1>1 DEF Goto, Ops, SameEntry, SameCall

LEMMA CopyStep ==
  ASSUME IInv, op.pc \in CopyPCs, SameEntry, NEW t \in Paths, t = op.to, ChangesOnly(t),
         op'.pc \in {"create", "write", "append", "pick_copy", "remove", "done"},
         op'.pc = "append" => op.kind = "append_file",
         op'.pc = "pick_copy" => op.kind = "move_dir",
         op'.pc = "remove" => op.kind = "move_file",
         op'.pc \in {"create", "write", "append"} => NoParent(t)' = {} /\ t \notin wh',
         op'.pc = "write" => op.val \in Data,
         op'.pc \in {"write", "append"} => ent'[t] \in Data,
         op.kind = "append_file" => t \notin wh'
  PROVE  CallInv' /\ Frame'
<1>1. op \in Ops BY DEF IInv, TypeOK
<1>2. PICK src \in Paths, dst \in Paths : src = op.src /\ dst = op.dst
  BY DEF IInv, CallInv, CopyPCs
<1>3. /\ Reachable(t)'
      /\ op.kind = "move_dir" => Reachable(dst)'
      /\ op.kind = "move_file" => Reachable(src)'
  BY <1>2, CopyReach
<1>4. \A q : Image(q)' = Image(q) BY DEF Image, SameEntry, SameCall
<1>5. CallInv'
  <2>1. /\ op'.to = t /\ op'.src = src /\ op'.dst = dst /\ op'.kind = op.kind
        /\ op'.at = op.at /\ op'.val = op.val /\ op'.new = op.new /\ op'.todo = op.todo
    BY <1>2 DEF SameEntry, SameCall
  <2>2. /\ Reachable(op.to)'
        /\ op'.kind = "move_dir" => Reachable(op.dst)'
        /\ op'.kind = "move_file" => Reachable(op.src)'
        /\ NoParent(op.to)' = NoParent(t)'
    BY <1>3, <2>1 DEF Reachable, NoParent
  <2>3. op'.kind = "move_file" => Reachable(op.at)'
    BY <1>2, <1>3, <2>1 DEF IInv, CallInv, CopyPCs, Reachable
  <2>4. QED
    BY <1>2, <1>4, <2>1, <2>2, <2>3
       DEF IInv, CallInv, Kinds, Creating, Removing, Moving, CopyPCs, RemovePCs
<1>6. Touched(t) BY TargetTouched DEF CopyPCs
<1>7. Frame' BY <1>1, <1>6, FrameTouched DEF SameEntry
<1>8. QED BY <1>5, <1>7

LEMMA RemoveStep ==
  ASSUME IInv, op.pc \in RemovePCs, SameEntry, NEW t \in Paths, t = op.at, ChangesOnly(t),
         op'.pc \in {"sweep", "mark_parents", "pick_remove", "done"},
         op'.pc \in {"sweep", "pick_remove"} => op.kind = "move_dir",
         op'.pc = "mark_parents" => ent'[t] = Absent
  PROVE  CallInv' /\ Frame'
<1>1. op \in Ops BY DEF IInv, TypeOK
<1>2. /\ Reachable(t)'
      /\ op.kind = "move_dir" => \A q \in op.todo : Reachable(q)'
  BY RemoveReach
<1>3. CallInv'
  <2>1. /\ op'.to = op.to /\ op'.src = op.src /\ op'.dst = op.dst /\ op'.kind = op.kind
        /\ op'.at = t /\ op'.val = op.val /\ op'.new = op.new /\ op'.todo = op.todo
    BY DEF SameEntry, SameCall
  <2>2. Reachable(op.at)' BY <1>2, <2>1 DEF Reachable
  <2>3. op.kind # "move_dir" => op'.src = t BY <2>1 DEF IInv, CallInv, RemovePCs
  <2>4. op'.kind = "move_file" => Reachable(op.src)' BY <1>2, <2>1, <2>3 DEF Reachable
  <2>5. QED
    BY <1>2, <2>1, <2>2, <2>4
       DEF IInv, CallInv, Kinds, Creating, Removing, Moving, CopyPCs, RemovePCs
<1>4. Touched(t) BY TargetTouched DEF RemovePCs
<1>5. Frame' BY <1>1, <1>4, FrameTouched DEF SameEntry
<1>6. QED BY <1>3, <1>5

\* The parents of the entry being written are still there after it is written.
LEMMA NoParentKept ==
  ASSUME TypeOK, NEW t \in Paths, NoParent(t) = {}, NEW v, ent' = [ent EXCEPT ![t] = v]
  PROVE  NoParent(t)' = {}
<1> SUFFICES ASSUME NEW a \in Anc(t), ent'[a] = Absent PROVE FALSE
  BY DEF NoParent, Anc
<1>1. a \in Paths /\ a # t BY NotBelowSelf DEF Anc
<1>2. ent[a] = Absent BY <1>1 DEF TypeOK
<1>3. QED BY <1>2 DEF NoParent

LEMMA RemoveWhiteoutInductive == IInv /\ RemoveWhiteout => IInv'
<1> SUFFICES ASSUME IInv, RemoveWhiteout PROVE IInv'
  OBVIOUS
<1>1. op.pc = "unmask" /\ wh' = wh \ {op.to} /\ Goto("create") /\ UNCHANGED <<lower, ent, opq>>
  BY DEF RemoveWhiteout
<1>2. op \in Ops BY DEF IInv, TypeOK
<1>3. op' \in Ops /\ SameEntry /\ op'.pc = "create"
  BY <1>1, <1>2, GotoTyped DEF PCs, CopyPCs
<1>4. PICK t \in Paths : t = op.to BY <1>1 DEF IInv, CallInv
<1>5. NoParent(t) = {} BY <1>1, <1>4 DEF IInv, CallInv, CopyPCs
<1>6. TypeOK' BY <1>1, <1>3 DEF IInv, TypeOK
<1>7. UpperIsTree' BY <1>1, TreeFacts, TreeFactsPrime DEF IInv
<1>8. ChangesOnly(t) BY <1>1, <1>4, MarkerChange DEF AtOrBelow
<1>9. NoParent(t)' = {} BY <1>1, <1>5 DEF NoParent
<1>10. CallInv' /\ Frame' BY <1>1, <1>3, <1>4, <1>8, <1>9, CopyStep DEF CopyPCs
<1>11. QED BY <1>6, <1>7, <1>10 DEF IInv

\* The common part of the three steps that write the entry at `to`.
LEMMA WriteTo ==
  ASSUME IInv, op.pc \in {"create", "write", "append"}, NEW t \in Paths, t = op.to,
         NEW v \in Entry \ {Absent}, ent[t] = Dir => v = Dir,
         ent' = [ent EXCEPT ![t] = v], UNCHANGED <<lower, wh, opq>>, op' \in Ops
  PROVE  TypeOK' /\ UpperIsTree' /\ ChangesOnly(t) /\ NoParent(t)' = {} /\ t \notin wh'
<1>1. Reachable(t) /\ NoParent(t) = {} /\ t \notin wh BY DEF IInv, CallInv, CopyPCs
<1>2. \A a \in Anc(t) : ent[a] = Dir BY <1>1, ParentsInUpper
<1>3. ent' \in [Paths -> Entry] BY DEF IInv, TypeOK
<1>4. TypeOK' BY <1>3 DEF IInv, TypeOK
<1>5. UpperIsTree' BY <1>1, <1>2, TreeSet DEF IInv
<1>6. ChangesOnly(t) BY EntryChange DEF IInv
<1>7. NoParent(t)' = {} BY <1>1, NoParentKept DEF IInv
<1>8. QED BY <1>1, <1>4, <1>5, <1>6, <1>7

LEMMA AfterCopyTyped ==
  ASSUME op \in Ops
  PROVE  /\ AfterCopy \in {"append", "remove", "pick_copy", "done"}
         /\ AfterCopy = "append" => op.kind = "append_file"
         /\ AfterCopy = "remove" => op.kind = "move_file"
         /\ AfterCopy = "pick_copy" => op.kind = "move_dir"
  BY DEF AfterCopy

LEMMA MakeDirInductive == IInv /\ MakeDir => IInv'
<1> SUFFICES ASSUME IInv, MakeDir PROVE IInv'
  OBVIOUS
<1>1. /\ op.pc = "create" /\ op.val = Dir /\ ent[op.to] = Absent
      /\ ent' = [ent EXCEPT ![op.to] = Dir] /\ UNCHANGED <<lower, wh, opq>>
      /\ op' = [op EXCEPT !.pc = "done", !.out = "refused"] \/ Goto(AfterCopy)
  BY DEF MakeDir
<1>2. op \in Ops BY DEF IInv, TypeOK
<1>3. PICK t \in Paths : t = op.to BY <1>1 DEF IInv, CallInv
<1>4. /\ AfterCopy \in {"remove", "pick_copy", "done"}
      /\ AfterCopy = "remove" => op.kind = "move_file"
      /\ AfterCopy = "pick_copy" => op.kind = "move_dir"
  <2>1. op.kind # "append_file"
    BY <1>1, EntryAssumption DEF IInv, CallInv
  <2>2. QED BY <1>2, <2>1, AfterCopyTyped
<1>5. /\ op' \in Ops /\ SameEntry /\ op'.pc \in {"remove", "pick_copy", "done"}
      /\ op'.pc = "remove" => op.kind = "move_file"
      /\ op'.pc = "pick_copy" => op.kind = "move_dir"
  <2>1. CASE op' = [op EXCEPT !.pc = "done", !.out = "refused"]
    BY <1>1, <1>2, <2>1 DEF Ops, PCs, Outcomes, SameEntry, SameCall
  <2>2. CASE Goto(AfterCopy)
    <3>1. PICK pc \in PCs : pc = AfterCopy BY <1>4 DEF PCs, RemovePCs
    <3>2. Goto(pc) BY <2>2, <3>1
    <3>3. QED BY <1>1, <1>2, <1>4, <3>1, <3>2, GotoTyped
  <2>3. QED BY <1>1, <2>1, <2>2
<1>6. Dir \in Entry \ {Absent} BY EntryAssumption DEF Entry
<1>7. TypeOK' /\ UpperIsTree' /\ ChangesOnly(t) /\ t \notin wh'
  BY <1>1, <1>3, <1>5, <1>6, WriteTo
<1>8. CallInv' /\ Frame'
  BY <1>1, <1>3, <1>5, <1>7, CopyStep DEF CopyPCs
<1>9. QED BY <1>7, <1>8 DEF IInv

LEMMA MakeFileInductive == IInv /\ MakeFile => IInv'
<1> SUFFICES ASSUME IInv, MakeFile PROVE IInv'
  OBVIOUS
<1>1. /\ op.pc = "create" /\ op.val \in Data /\ ent[op.to] # Dir
      /\ ent' = [ent EXCEPT ![op.to] = Empty] /\ UNCHANGED <<lower, wh, opq>> /\ Goto("write")
  BY DEF MakeFile
<1>2. op \in Ops BY DEF IInv, TypeOK
<1>3. PICK t \in Paths : t = op.to BY <1>1 DEF IInv, CallInv
<1>4. op' \in Ops /\ SameEntry /\ op'.pc = "write"
  BY <1>1, <1>2, GotoTyped DEF PCs, CopyPCs
<1>5. Empty \in Entry \ {Absent} BY EntryAssumption DEF Entry
<1>6. TypeOK' /\ UpperIsTree' /\ ChangesOnly(t) /\ NoParent(t)' = {} /\ t \notin wh'
  BY <1>1, <1>3, <1>4, <1>5, WriteTo
<1>7. ent'[t] \in Data BY <1>1, <1>3, EntryAssumption DEF IInv, TypeOK
<1>8. CallInv' /\ Frame'
  BY <1>1, <1>3, <1>4, <1>6, <1>7, CopyStep DEF CopyPCs
<1>9. QED BY <1>6, <1>8 DEF IInv

LEMMA WriteFileInductive == IInv /\ WriteFile => IInv'
<1> SUFFICES ASSUME IInv, WriteFile PROVE IInv'
  OBVIOUS
<1>1. /\ op.pc = "write" /\ ent' = [ent EXCEPT ![op.to] = op.val] /\ UNCHANGED <<lower, wh, opq>>
      /\ Goto(AfterCopy)
  BY DEF WriteFile
<1>2. op \in Ops BY DEF IInv, TypeOK
<1>3. PICK t \in Paths : t = op.to BY <1>1 DEF IInv, CallInv
<1>4. PICK pc \in PCs : pc = AfterCopy
  BY <1>2, AfterCopyTyped DEF PCs, CopyPCs, RemovePCs
<1>5. op' \in Ops /\ SameEntry /\ op'.pc = AfterCopy
  BY <1>1, <1>2, <1>4, GotoTyped
<1>6. PICK v \in Data : v = op.val BY <1>1 DEF IInv, CallInv
<1>7. v \in Entry \ {Absent} /\ ent[t] # Dir
  BY <1>1, <1>3, EntryAssumption DEF IInv, CallInv, Entry
<1>8. TypeOK' /\ UpperIsTree' /\ ChangesOnly(t) /\ NoParent(t)' = {} /\ t \notin wh'
  BY <1>1, <1>3, <1>5, <1>6, <1>7, WriteTo
<1>9. ent'[t] \in Data BY <1>1, <1>3, <1>6 DEF IInv, TypeOK
<1>10. CallInv' /\ Frame'
  BY <1>1, <1>2, <1>3, <1>5, <1>8, <1>9, AfterCopyTyped, CopyStep DEF CopyPCs
<1>11. QED BY <1>8, <1>10 DEF IInv

LEMMA AppendUpperInductive == IInv /\ AppendUpper => IInv'
<1> SUFFICES ASSUME IInv, AppendUpper PROVE IInv'
  OBVIOUS
<1>1. /\ op.pc = "append" /\ ent' = [ent EXCEPT ![op.to] = op.new] /\ UNCHANGED <<lower, wh, opq>>
      /\ Goto("done")
  BY DEF AppendUpper
<1>2. op \in Ops BY DEF IInv, TypeOK
<1>3. PICK t \in Paths : t = op.to BY <1>1 DEF IInv, CallInv
<1>4. op' \in Ops /\ SameEntry /\ op'.pc = "done"
  BY <1>1, <1>2, GotoTyped DEF PCs
<1>5. PICK v \in Data : v = op.new BY <1>1 DEF IInv, CallInv
<1>6. v \in Entry \ {Absent} /\ ent[t] # Dir
  BY <1>1, <1>3, EntryAssumption DEF IInv, CallInv, Entry
<1>7. TypeOK' /\ UpperIsTree' /\ ChangesOnly(t) /\ t \notin wh'
  BY <1>1, <1>3, <1>4, <1>5, <1>6, WriteTo
<1>8. CallInv' /\ Frame'
  BY <1>1, <1>3, <1>4, <1>7, CopyStep DEF CopyPCs
<1>9. QED BY <1>7, <1>8 DEF IInv

\* remove_dir takes a directory out of the upper only when the upper holds nothing
\* directly in it, and then it holds nothing deeper either.
LEMMA TreeDelete ==
  ASSUME TypeOK, UpperIsTree, NEW t \in Paths, ent[t] = Dir => UpperEmpty(t),
         ent' = [ent EXCEPT ![t] = Absent], UNCHANGED <<wh, opq>>
  PROVE  UpperIsTree'
<1>1. ent \in [Paths -> Entry] /\ wh \subseteq Paths BY DEF TypeOK
<1>2. \A q \in Paths : q # t => ent'[q] = ent[q] BY <1>1
<1>3. ASSUME NEW p \in Paths, ent[p] # Absent \/ p \in wh, Below(t, p) PROVE FALSE
  <2>1. ent[t] = Dir BY <1>3, TreeFacts DEF Anc
  <2>2. PICK c \in Paths : ChildOf(t, c) /\ AtOrBelow(c, p) BY <1>3, ChildOnPath
  <2>3. ent[c] = Absent /\ c \notin wh BY <2>1, <2>2 DEF UpperEmpty
  <2>4. c # p BY <1>3, <2>3
  <2>5. ent[c] = Dir BY <1>3, <2>2, <2>4, TreeFacts DEF AtOrBelow, Anc
  <2>6. QED BY <2>3, <2>5, EntryAssumption
<1>4. \A p \in Paths : ent'[p] # Absent \/ p \in wh' => \A a \in Anc(p) : ent'[a] = Dir
  <2> SUFFICES ASSUME NEW p \in Paths, ent'[p] # Absent \/ p \in wh', NEW a \in Anc(p)
               PROVE  ent'[a] = Dir
    OBVIOUS
  <2>1. ent[p] # Absent \/ p \in wh BY <1>1
  <2>2. a \in Paths /\ Below(a, p) BY DEF Anc
  <2>3. a # t BY <1>3, <2>1, <2>2
  <2>4. QED BY <1>2, <2>1, <2>2, <2>3, TreeFacts
<1>5. \A d \in opq' \ {Root} : ent'[d] = Dir /\ \A a \in Anc(d) : ent'[a] = Dir
  <2> SUFFICES ASSUME NEW d \in opq \ {Root} PROVE ent'[d] = Dir /\ \A a \in Anc(d) : ent'[a] = Dir
    OBVIOUS
  <2>1. d \in Paths /\ ent[d] = Dir /\ \A a \in Anc(d) : ent[a] = Dir BY TreeFacts DEF TypeOK
  <2>2. d # t BY <2>1 DEF UpperEmpty, Opaque
  <2>3. t \notin Anc(d) BY <1>3, <2>1, EntryAssumption DEF Anc
  <2>4. QED BY <1>2, <2>1, <2>2, <2>3 DEF Anc
<1>6. \A p \in wh' : ent'[p] = Absent BY <1>1, TreeFacts
<1>7. QED BY <1>4, <1>5, <1>6, TreeFactsPrime

LEMMA AfterRemoveTyped ==
  /\ AfterRemove \in {"pick_remove", "done"}
  /\ AfterRemove = "pick_remove" => op.kind = "move_dir"
  BY DEF AfterRemove

LEMMA RemoveUpperInductive == IInv /\ RemoveUpper => IInv'
<1> SUFFICES ASSUME IInv, RemoveUpper PROVE IInv'
  OBVIOUS
<1>1. /\ op.pc = "remove" /\ (ent[op.at] = Dir => UpperEmpty(op.at))
      /\ ent' = [ent EXCEPT ![op.at] = Absent] /\ UNCHANGED <<lower, wh, opq>>
      /\ Goto(IF InLower(op.at) THEN "mark_parents" ELSE AfterRemove)
  BY DEF RemoveUpper
<1>2. op \in Ops BY DEF IInv, TypeOK
<1>3. PICK t \in Paths : t = op.at BY <1>1 DEF IInv, CallInv
<1>4. PICK pc \in PCs : /\ pc = IF InLower(op.at) THEN "mark_parents" ELSE AfterRemove
                        /\ pc \in {"mark_parents", "pick_remove", "done"}
                        /\ pc = "pick_remove" => op.kind = "move_dir"
  BY AfterRemoveTyped DEF PCs, RemovePCs
<1>5. Goto(pc) BY <1>1, <1>4
<1>6. op' \in Ops /\ SameEntry /\ op'.pc = pc
  BY <1>1, <1>2, <1>5, GotoTyped
<1>7. ent' \in [Paths -> Entry] BY <1>1 DEF IInv, TypeOK, Entry
<1>8. TypeOK' BY <1>1, <1>6, <1>7 DEF IInv, TypeOK
<1>9. UpperIsTree' BY <1>1, <1>3, TreeDelete DEF IInv
<1>10. ChangesOnly(t) BY <1>1, <1>3, EntryChange DEF IInv
<1>11. ent'[t] = Absent BY <1>1, <1>3 DEF IInv, TypeOK
<1>12. CallInv' /\ Frame'
  BY <1>1, <1>3, <1>4, <1>6, <1>10, <1>11, RemoveStep DEF RemovePCs
<1>13. QED BY <1>8, <1>9, <1>12 DEF IInv

LEMMA CreateWhiteoutInductive == IInv /\ CreateWhiteout => IInv'
<1> SUFFICES ASSUME IInv, CreateWhiteout PROVE IInv'
  OBVIOUS
<1>1. /\ op.pc = "mark" /\ wh' = wh \cup {op.at} /\ UNCHANGED <<lower, ent, opq>>
      /\ Goto(AfterRemove)
  BY DEF CreateWhiteout
<1>2. op \in Ops BY DEF IInv, TypeOK
<1>3. PICK t \in Paths : t = op.at BY <1>1 DEF IInv, CallInv
<1>4. Reachable(t) /\ NoParent(t) = {} /\ ent[t] = Absent
  BY <1>1, <1>3 DEF IInv, CallInv, RemovePCs
<1>5. \A a \in Anc(t) : ent[a] = Dir BY <1>4, ParentsInUpper
<1>6. PICK pc \in PCs : pc = AfterRemove BY AfterRemoveTyped DEF PCs
<1>7. op' \in Ops /\ SameEntry /\ op'.pc = AfterRemove
  BY <1>1, <1>2, <1>6, GotoTyped
<1>8. TypeOK' BY <1>1, <1>3, <1>7 DEF IInv, TypeOK
<1>9. UpperIsTree' BY <1>1, <1>3, <1>4, <1>5, TreeFacts, TreeFactsPrime DEF IInv
<1>10. ChangesOnly(t) BY <1>1, <1>3, MarkerChange DEF AtOrBelow
<1>11. CallInv' /\ Frame'
  BY <1>1, <1>3, <1>7, <1>10, AfterRemoveTyped, RemoveStep DEF RemovePCs
<1>12. QED BY <1>8, <1>9, <1>11 DEF IInv

\* Sweeping a directory shows only at and below it.
LEMMA SweepChanges ==
  ASSUME IInv, SweepWhiteout \/ SweepOpaque, NEW t \in Paths, t = op.at
  PROVE  ChangesOnly(t)
<1>1. UNCHANGED <<lower, ent, op>> BY DEF SweepWhiteout, SweepOpaque
<1>2. CASE SweepWhiteout
  <2>1. PICK q \in wh : ChildOf(t, q) /\ wh' = wh \ {q} /\ opq' = opq
    BY <1>2 DEF SweepWhiteout
  <2>2. \A r \in Paths : AtOrBelow(t, r) \/ (r \in wh' <=> r \in wh)
    BY <2>1 DEF AtOrBelow, ChildOf
  <2>3. QED BY <1>1, <2>1, <2>2, MarkerChange
<1>3. CASE SweepOpaque
  <2>1. opq' = opq \ {t} /\ wh' = wh BY <1>3 DEF SweepOpaque
  <2>2. ASSUME NEW q \in Paths, ~AtOrBelow(t, q) PROVE Resolve(q)' = Resolve(q)
    <3>1. OpaqueAbove(opq, q)' <=> OpaqueAbove(opq, q)
      BY <2>1, <2>2, OpaqueElsewhere DEF AtOrBelow
    <3>2. QED BY <1>1, <2>1, <3>1, ResolveElsewhere
  <2>3. QED BY <2>1, <2>2 DEF ChangesOnly
<1>4. QED BY <1>2, <1>3

LEMMA SweepInductive == IInv /\ (SweepWhiteout \/ SweepOpaque) => IInv'
<1> SUFFICES ASSUME IInv, SweepWhiteout \/ SweepOpaque PROVE IInv'
  OBVIOUS
<1>1. op.pc = "sweep" /\ UNCHANGED <<lower, ent, op>> BY DEF SweepWhiteout, SweepOpaque
<1>2. op \in Ops /\ op.kind = "move_dir" BY <1>1 DEF IInv, TypeOK, CallInv
<1>3. PICK t \in Paths : t = op.at BY <1>1 DEF IInv, CallInv
<1>4. SameEntry BY <1>1 DEF SameEntry, SameCall
<1>5. /\ wh' \subseteq wh /\ opq' \subseteq opq
      /\ ChangesOnly(t)
  BY <1>3, SweepChanges DEF SweepWhiteout, SweepOpaque
<1>6. TypeOK' BY <1>1, <1>5 DEF IInv, TypeOK
<1>7. UpperIsTree' BY <1>1, <1>5, TreeFacts, TreeFactsPrime DEF IInv, TypeOK
<1>8. CallInv' /\ Frame'
  BY <1>1, <1>2, <1>3, <1>4, <1>5, RemoveStep DEF RemovePCs
<1>9. QED BY <1>6, <1>7, <1>8 DEF IInv

LEMMA NextInductive == IInv /\ [Next]_vars => IInv'
<1> SUFFICES ASSUME IInv, [Next]_vars PROVE IInv'
  OBVIOUS
<1>1. CASE Call
  BY <1>1, CallInductive
<1>2. CASE MakeParent \/ ParentsMade \/ RemoveWhiteout
  BY <1>2, MakeParentInductive, ParentsMadeInductive, RemoveWhiteoutInductive
<1>3. CASE MakeDir \/ MakeFile \/ WriteFile \/ AppendUpper
  BY <1>3, MakeDirInductive, MakeFileInductive, WriteFileInductive, AppendUpperInductive
<1>4. CASE RemoveUpper \/ CreateWhiteout
  BY <1>4, RemoveUpperInductive, CreateWhiteoutInductive
<1>5. CASE RemoveRefused
  BY <1>5, StopInductive DEF RemoveRefused, Outcomes
<1>6. CASE PickCopy \/ CopyDone \/ PickRemove
  BY <1>6, PickCopyInductive, CopyDoneInductive, PickRemoveInductive
<1>7. CASE MoveDone
  BY <1>7, StopInductive DEF MoveDone, Goto, Outcomes
<1>8. CASE SweepWhiteout \/ SweepOpaque \/ Swept
  BY <1>8, SweepInductive, SweptInductive
<1>9. CASE Reply
  BY <1>9, ReplyInductive
<1>10. ASSUME NEW why \in {"io", "crash"}, Interrupt(why) PROVE IInv'
  BY <1>10, StopInductive DEF Interrupt, Outcomes
<1>11. CASE UNCHANGED vars
  <2>1. UNCHANGED <<lower, ent, wh, opq>> /\ op' = op BY <1>11 DEF vars
  <2>2. TypeOK' /\ UpperIsTree' BY <2>1, TreeKept DEF IInv, TypeOK
  <2>3. \A q \in Paths : /\ View(q)' = View(q) /\ (Reachable(q)' <=> Reachable(q))
                         /\ NoParent(q)' = NoParent(q)
    BY <2>1, DiskKept
  <2>4. \A q : Image(q)' = Image(q) /\ (Touched(q)' <=> Touched(q)) BY <2>1 DEF Image, Touched
  <2>5. op.todo \subseteq Paths BY DEF IInv, TypeOK, Ops
  <2>6. CallInv' BY <2>1, <2>3, <2>4, <2>5 DEF IInv, CallInv
  <2>7. Frame' BY <2>1, <2>3, <2>4 DEF IInv, Frame
  <2>8. QED BY <2>2, <2>6, <2>7 DEF IInv
<1>12. QED
  BY <1>1, <1>2, <1>3, <1>4, <1>5, <1>6, <1>7, <1>8, <1>9, <1>10, <1>11 DEF Next, Step

(***************************************************************************)
(* The theorems.                                                           *)
(***************************************************************************)

\* The inductive invariant holds in every reachable state of LayerFS, for every
\* namespace, every set of contents and every stack of layers.
THEOREM Invariance == Spec => []IInv
  BY InitInv, NextInductive, PTL DEF Spec

\* Type correctness of the model of layer.rs.
THEOREM TypeCorrect == Spec => []TypeOK
<1>1. IInv => TypeOK BY DEF IInv
<1>2. QED BY <1>1, Invariance, PTL

\* At every point where the daemon can die, the upper directory is a well-formed
\* tree and no entry stands beside its own whiteout marker.
THEOREM UpperAlwaysTree == Spec => []UpperIsTree
<1>1. IInv => UpperIsTree BY DEF IInv
<1>2. QED BY <1>1, Invariance, PTL

\* No step of any call, completed, failed or cut short, changes what an
\* application sees at a path the call is not about.
THEOREM CallsStayLocal == Spec => []Frame
<1>1. IInv => Frame BY DEF IInv
<1>2. QED BY <1>1, Invariance, PTL

LEMMA UpperSeenAlways == IInv => UpperVisible
  BY UpperSeen DEF UpperVisible

\* Whatever is written to the upper can be found again under its name.
THEOREM NothingLostInUpper == Spec => []UpperVisible
<1>1. IInv => UpperVisible BY UpperSeenAlways
<1>2. QED BY <1>1, Invariance, PTL

(***************************************************************************)
(* read_dir() and resolve().                                               *)
(***************************************************************************)

\* The lowers stay as they are and an opaque marker is never added.
LEMMA MarkersShrink == [Next]_vars => lower' = lower /\ opq' \subseteq opq
  BY DEF Next, Call, Step, vars, Begin, CreateFile, AppendFile, CreateDir, RemoveFile, RemoveDir,
         CopyFile, MoveFile, MoveDir, MakeParent, ParentsMade, RemoveWhiteout, MakeDir, MakeFile,
         WriteFile, AppendUpper, RemoveUpper, RemoveRefused, CreateWhiteout, PickCopy, CopyDone,
         PickRemove, MoveDone, SweepWhiteout, SweepOpaque, Swept, Reply, Interrupt

\* The topmost lower that holds a path.
LEMMA FirstHolder ==
  ASSUME NEW ls \in Seq(Layer), NEW p, NEW k \in 1..Len(ls), ls[k].ent[p] # Absent
  PROVE  \E i \in 1..k : ls[i].ent[p] # Absent /\ \A j \in 1..(i - 1) : ls[j].ent[p] = Absent
<1>1. k \in Nat BY LenProperties
<1>2. PICK T : T = {i \in 1..k : ls[i].ent[p] # Absent} OBVIOUS
<1>3. T \subseteq Nat /\ T # {} BY <1>1, <1>2
<1>4. PICK i \in T : \A j \in T : ~(<<j, i>> \in OpToRel(<, Nat))
  BY <1>3, NatLessThanWellFounded, WFMin
<1>5. \A j \in T : ~(j < i) BY <1>3, <1>4 DEF OpToRel
<1>6. i \in 1..k /\ ls[i].ent[p] # Absent BY <1>2
<1>7. \A j \in 1..(i - 1) : j \in 1..k /\ j < i BY <1>1, <1>6
<1>8. QED BY <1>2, <1>5, <1>6, <1>7

\* The walk over lowers without opaque markers finds a path that one of them holds
\* and none down to it has a whiteout for, as read_dir does.
LEMMA LowerFound ==
  ASSUME NEW ls \in Seq(Layer), NEW q \in Paths, \A i \in 1..Len(ls) : ls[i].opq = {}
  PROVE  LowerResolve(ls, q) # Absent <=>
           \E i \in 1..Len(ls) : ls[i].ent[q] # Absent /\ \A j \in 1..i : q \notin ls[j].wh
<1>0. Len(ls) \in Nat BY LenProperties
<1>1. LowerResolve(ls, q) # Absent <=> \E i \in 1..Len(ls) : FoundIn(ls, i, q)
  BY DEF LowerResolve, FoundIn
<1>2. ASSUME NEW i \in 1..Len(ls), FoundIn(ls, i, q)
      PROVE  ls[i].ent[q] # Absent /\ \A j \in 1..i : q \notin ls[j].wh
  BY <1>0, <1>2 DEF FoundIn
<1>3. ASSUME NEW k \in 1..Len(ls), ls[k].ent[q] # Absent, \A j \in 1..k : q \notin ls[j].wh
      PROVE  \E i \in 1..Len(ls) : FoundIn(ls, i, q)
  <2>1. PICK i \in 1..k : ls[i].ent[q] # Absent /\ \A j \in 1..(i - 1) : ls[j].ent[q] = Absent
    BY <1>3, FirstHolder
  <2>2. i \in 1..Len(ls) /\ \A j \in 1..(i - 1) : j \in 1..Len(ls) /\ j \in 1..k BY <1>0
  <2>3. FoundIn(ls, i, q) BY <1>3, <2>1, <2>2 DEF FoundIn, OpaqueAbove
  <2>4. QED BY <2>2, <2>3
<1>4. QED BY <1>1, <1>2, <1>3

LEMMA ListingAgrees == IInv /\ HidesChildren(lower, opq) => ListingMatches
<1> SUFFICES ASSUME IInv, HidesChildren(lower, opq), NEW q \in Paths
             PROVE  Listed(q) <=> Resolve(q) # Absent
  BY DEF ListingMatches
<1>1. CASE ent[q] # Absent
  <2>1. q \notin wh BY <1>1, TreeFacts DEF IInv
  <2>2. QED BY <1>1, <2>1 DEF Listed, Resolve
<1>2. CASE ent[q] = Absent
  <2>1. LowerResolve(lower, q) # Absent <=>
          \E i \in 1..Len(lower) : lower[i].ent[q] # Absent /\ \A j \in 1..i : q \notin lower[j].wh
    BY LowerFound DEF IInv, TypeOK, HidesChildren
  <2>2. ASSUME NEW i \in 1..Len(lower), lower[i].ent[q] # Absent
        PROVE  OpaqueAbove(opq, q) <=> \E d \in opq : ChildOf(d, q)
    BY <2>2 DEF HidesChildren, OpaqueAbove, ChildOf
  <2>3. QED BY <1>2, <2>1, <2>2 DEF Listed, Resolve
<1>3. QED BY <1>1, <1>2

\* read_dir lists exactly what a lookup finds, at every step of every call, over
\* lowers without opaque markers of their own in which an opaque directory of the
\* upper hides only what lies directly in it; elsewhere read_dir lists more.
THEOREM ListingIsExact == Shallow => (Spec => []ListingMatches)
<1> SUFFICES ASSUME Shallow PROVE Spec => []ListingMatches
  OBVIOUS
<1>1. Init => HidesChildren(lower, opq) BY DEF Init, Shallow
<1>2. IInv /\ HidesChildren(lower, opq) /\ [Next]_vars => HidesChildren(lower, opq)'
  <2> SUFFICES ASSUME IInv, HidesChildren(lower, opq), [Next]_vars PROVE HidesChildren(lower, opq)'
    OBVIOUS
  <2>1. lower' = lower /\ opq' \subseteq opq BY MarkersShrink
  <2>2. QED BY <2>1 DEF HidesChildren
<1>3. QED BY <1>1, <1>2, Invariance, ListingAgrees, PTL DEF Spec

(***************************************************************************)
(* What a call has done so far.                                            *)
(***************************************************************************)

InSrc(q) == AtOrBelow(op.src, q)

\* The entry q of the moved tree is at its place in the upper; all of them are;
\* none has been touched yet.
Arrived(q) == \E r \in Paths : r = Image(q) /\ ent[r] = op.before[q]
Copied == \A q \in Paths : InSrc(q) /\ op.before[q] # Absent => Arrived(q)
Kept == \A q \in Paths : InSrc(q) => View(q) = op.before[q]

\* What the arguments of a call say, from its first step to its answer.
ArgsInv ==
    /\ op.pc = "idle" => op.kind = "none"
    /\ op.pc # "idle" =>
         /\ op.kind \in Kinds /\ op.src \in Paths /\ op.dst \in Paths
         /\ op.kind \in Moving => ~AtOrBelow(op.src, op.dst) /\ ~AtOrBelow(op.dst, op.src)
         /\ op.kind \in Moving => op.new = op.before[op.src] /\ op.new # Absent
         /\ op.kind \in Removing => op.src = op.dst
         /\ op.kind \in Creating =>
               /\ op.new \in (IF op.kind \in {"create_dir", "move_dir"} THEN {Dir} ELSE Data)
               /\ \A q \in Paths : Below(op.dst, q) => op.before[q] = Absent

\* While a call copies: what is read is what was there; of a moved tree nothing is
\* gone, and what the walk has passed has arrived.
CopyInv ==
    op.pc \in CopyPCs \cup {"pick_copy"} =>
      /\ op.kind \in Creating
      /\ op.kind \in Moving =>
            /\ Kept
            /\ \A q \in Paths : InSrc(q) /\ op.before[q] # Absent =>
                  q \in op.todo \/ (q = op.at /\ op.pc \in CopyPCs) \/ Arrived(q)
            /\ \A q \in op.todo : op.kind = "move_dir" /\ op.before[q] # Absent
      /\ op.pc \in CopyPCs =>
            /\ op.kind \in Moving =>
                  op.to = Image(op.at) /\ op.val = op.before[op.at] /\ op.val # Absent
            /\ op.kind \notin Moving => op.val \in {op.new, op.before[op.dst]}
            /\ op.kind \notin Moving \cup {"append_file"} => op.val = op.new
      /\ op.pc = "parents" => op.to = op.dst \/ NoParent(op.to) = {}

\* While a call removes: a moved tree has arrived as a whole, and its root is the
\* last entry to go.
RemoveInv ==
    op.pc \in RemovePCs \cup {"pick_remove"} =>
      /\ op.kind \in Moving => Copied
      /\ \/ op.src \in op.todo
         \/ op.pc # "pick_remove" /\ op.at = op.src
         \/ op.pc = "pick_remove" /\ \A q \in Paths : q = op.src => Resolve(q) = Absent

\* Once a call is over.
DoneInv ==
    op.pc = "done" =>
      /\ op.kind \in Moving => Kept \/ Copied
      /\ op.out = "ok" =>
            /\ op.kind \in Creating => ent[op.dst] = op.new
            /\ op.kind \in Moving => Copied
            /\ op.kind \in Moving \cup Removing =>
                  \A q \in Paths : q = op.src => Resolve(q) = Absent

\* What the upper may hold in the part of the tree the call is about.
Accounted(q, v) ==
    \/ v \in {op.before[q], Intended(q), LowerResolve(lower, q)}
    \/ AtOrBelow(op.dst, q) /\ v = Empty

IsImage(q) ==
    /\ op.kind = "move_dir"
    /\ \E r \in Paths : InSrc(r) /\ Image(r) = q /\ op.before[r] # Absent

LeftInv ==
    op.pc # "idle" =>
      \A q \in Paths :
        /\ Touched(q) /\ ent[q] # Absent => Accounted(q, ent[q])
        /\ op.kind \in Creating /\ Below(op.dst, q) /\ ent[q] # Absent => IsImage(q)
        /\ op.kind \in Creating /\ q = op.dst /\ op.before[q] # Absent => View(q) # Absent

DataInv == ArgsInv /\ CopyInv /\ RemoveInv /\ DoneInv /\ LeftInv

(***************************************************************************)
(* Images of a moved tree.                                                 *)
(***************************************************************************)

\* Two directories above one entry are one above the other.
LEMMA Comparable ==
  ASSUME NEW a \in Paths, NEW b \in Paths, NEW q \in Paths, AtOrBelow(a, q), AtOrBelow(b, q)
  PROVE  AtOrBelow(a, b) \/ AtOrBelow(b, a)
<1>1. /\ a \in Seq(Names) /\ b \in Seq(Names)
      /\ Len(a) \in Nat /\ Len(b) \in Nat /\ Len(q) \in Nat
  BY PathType
<1>2. /\ \A i \in 1..Len(a) : a[i] = q[i]
      /\ \A i \in 1..Len(b) : b[i] = q[i]
  BY DEF AtOrBelow, Below
<1>3. CASE Len(a) < Len(b) BY <1>1, <1>2, <1>3 DEF AtOrBelow, Below
<1>4. CASE Len(b) < Len(a) BY <1>1, <1>2, <1>4 DEF AtOrBelow, Below
<1>5. CASE Len(a) = Len(b)
  <2>1. a = b BY <1>1, <1>2, <1>5, SeqEqual
  <2>2. QED BY <2>1 DEF AtOrBelow
<1>6. QED BY <1>1, <1>3, <1>4, <1>5

\* Two entries of the tree s do not go to the same place below d.
LEMMA JoinInjective ==
  ASSUME NEW s \in Paths, NEW d \in Paths, NEW q \in Paths, NEW r \in Paths,
         AtOrBelow(s, q), AtOrBelow(s, r),
         d \o SubSeq(q, Len(s) + 1, Len(q)) = d \o SubSeq(r, Len(s) + 1, Len(r))
  PROVE  q = r
<1> DEFINE u == SubSeq(q, Len(s) + 1, Len(q))
           v == SubSeq(r, Len(s) + 1, Len(r))
<1>1. /\ q \in Seq(Names) /\ r \in Seq(Names) /\ d \in Seq(Names)
      /\ Len(s) \in Nat /\ Len(d) \in Nat /\ Len(q) \in Nat /\ Len(r) \in Nat
      /\ Len(s) <= Len(q) /\ Len(s) <= Len(r)
      /\ \A i \in 1..Len(s) : q[i] = r[i]
  BY PathType DEF AtOrBelow, Below
<1>2. /\ u \in Seq(Names) /\ Len(u) = Len(q) - Len(s) /\ \A i \in 1..Len(u) : u[i] = q[Len(s) + i]
      /\ v \in Seq(Names) /\ Len(v) = Len(r) - Len(s) /\ \A i \in 1..Len(v) : v[i] = r[Len(s) + i]
  <2>1. ASSUME NEW p \in Seq(Names), Len(p) \in Nat, Len(s) <= Len(p)
        PROVE  LET w == SubSeq(p, Len(s) + 1, Len(p))
               IN  w \in Seq(Names) /\ Len(w) = Len(p) - Len(s) /\ \A i \in 1..Len(w) : w[i] = p[Len(s) + i]
    <3>1. CASE Len(s) = Len(p)
      BY <1>1, <2>1, <3>1, SubSeqEmpty, EmptySeq
    <3>2. CASE Len(s) < Len(p)
      BY <1>1, <2>1, <3>2, SubSeqProperties
    <3>3. QED BY <1>1, <2>1, <3>1, <3>2
  <2>2. QED BY <1>1, <2>1
<1> HIDE DEF u, v
<1>3. /\ Len(d \o u) = Len(d) + Len(u) /\ \A i \in 1..Len(u) : (d \o u)[Len(d) + i] = u[i]
      /\ Len(d \o v) = Len(d) + Len(v) /\ \A i \in 1..Len(v) : (d \o v)[Len(d) + i] = v[i]
  <2>1. ASSUME NEW w \in Seq(Names)
        PROVE  Len(d \o w) = Len(d) + Len(w) /\ \A i \in 1..Len(w) : (d \o w)[Len(d) + i] = w[i]
    <3>1. Len(w) \in Nat BY LenProperties
    <3>2. Len(d \o w) = Len(d) + Len(w) BY <1>1, ConcatProperties
    <3>3. ASSUME NEW i \in 1..Len(w) PROVE (d \o w)[Len(d) + i] = w[i]
      <4>1. /\ Len(d) + i \in 1..(Len(d) + Len(w)) /\ ~(Len(d) + i <= Len(d))
            /\ (Len(d) + i) - Len(d) = i
        BY <1>1, <3>1
      <4>2. QED BY <1>1, <4>1, ConcatProperties
    <3>4. QED BY <3>2, <3>3
  <2>2. QED BY <1>2, <2>1
<1>4. d \o u = d \o v BY DEF u, v
<1>5. Len(q) = Len(r) /\ Len(u) = Len(v) BY <1>1, <1>2, <1>3, <1>4
<1>6. \A i \in 1..Len(u) : u[i] = v[i] BY <1>3, <1>4, <1>5
<1>7. ASSUME NEW i \in 1..Len(q) PROVE q[i] = r[i]
  <2>1. CASE i <= Len(s) BY <1>1, <2>1
  <2>2. CASE i > Len(s)
    <3>1. PICK k \in 1..Len(u) : i = Len(s) + k
      <4>1. i - Len(s) \in 1..Len(u) /\ i = Len(s) + (i - Len(s)) BY <1>1, <1>2, <2>2
      <4>2. QED BY <4>1
    <3>2. QED BY <1>2, <1>5, <1>6, <3>1
  <2>3. QED BY <1>1, <2>1, <2>2
<1>8. QED BY <1>1, <1>5, <1>7, SeqEqual

LEMMA ImageFacts ==
  ASSUME op.src \in Paths, op.dst \in Paths
  PROVE  /\ Image(op.src) = op.dst
         /\ \A q \in Paths : InSrc(q) => AtOrBelow(op.dst, Image(q))
         /\ \A q, r \in Paths : InSrc(q) /\ InSrc(r) /\ Image(q) = Image(r) => q = r
<1>1. PICK s \in Paths, d \in Paths : s = op.src /\ d = op.dst OBVIOUS
<1>2. AtOrBelow(s, s) BY DEF AtOrBelow
<1>3. Image(s) = d BY <1>1, <1>2, JoinBelow DEF Image
<1>4. \A q \in Paths : AtOrBelow(s, q) => AtOrBelow(d, Image(q)) BY <1>1, JoinBelow DEF Image
<1>5. \A q, r \in Paths : AtOrBelow(s, q) /\ AtOrBelow(s, r) /\ Image(q) = Image(r) => q = r
  BY <1>1, JoinInjective DEF Image
<1>6. QED BY <1>1, <1>3, <1>4, <1>5 DEF InSrc

\* The two trees of a move have no entry in common.
LEMMA TreesApart ==
  ASSUME ArgsInv, op.pc # "idle", op.kind \in Moving, NEW q \in Paths, InSrc(q)
  PROVE  ~AtOrBelow(op.dst, q)
<1>1. PICK s \in Paths, d \in Paths : s = op.src /\ d = op.dst BY DEF ArgsInv
<1>2. ~AtOrBelow(s, d) /\ ~AtOrBelow(d, s) BY <1>1 DEF ArgsInv
<1>3. AtOrBelow(s, q) BY <1>1 DEF InSrc
<1>4. ~AtOrBelow(d, q) BY <1>2, <1>3, Comparable
<1>5. QED BY <1>1, <1>4

\* What a call is asked for, case by case.
LEMMA IntendedFacts ==
  ASSUME ArgsInv, op.pc # "idle", NEW q \in Paths
  PROVE  /\ op.kind \in Creating /\ q = op.dst => Intended(q) = op.new
         /\ op.kind \in Removing /\ AtOrBelow(op.dst, q) => Intended(q) = Absent
         /\ op.kind \in Moving /\ InSrc(q) => Intended(q) = Absent
         /\ op.kind = "move_dir" /\ Below(op.dst, q) /\ (\A r \in Paths : InSrc(r) => Image(r) # q) =>
              Intended(q) = Absent
         /\ \A r \in Paths : op.kind = "move_dir" /\ Below(op.dst, q) /\ InSrc(r) /\ Image(r) = q =>
              Intended(q) = op.before[r]
         /\ op.kind \in Creating \ {"move_dir"} /\ Below(op.dst, q) => Intended(q) = Absent
         /\ ~Touched(q) => Intended(q) = op.before[q]
<1>0. op.kind \in Kinds /\ op.dst \in Paths /\ op.src \in Paths BY DEF ArgsInv
<1>1. ~Below(op.dst, op.dst) BY <1>0, NotBelowSelf
<1>2. op.kind \in Moving /\ InSrc(q) => ~AtOrBelow(op.dst, q) BY TreesApart
<1>3. op.kind \in Creating /\ q = op.dst => Intended(q) = op.new
  <2> SUFFICES ASSUME op.kind \in Creating, q = op.dst PROVE Intended(q) = op.new
    OBVIOUS
  <2>1. ~(op.kind \in Moving /\ AtOrBelow(op.src, q)) BY <1>2 DEF AtOrBelow, InSrc
  <2>2. op.kind \notin Removing BY DEF Creating, Removing
  <2>3. QED BY <1>1, <2>1, <2>2 DEF Intended
<1>4. op.kind \in Removing /\ AtOrBelow(op.dst, q) => Intended(q) = Absent
  BY DEF Intended, Creating, Removing, Moving
<1>5. op.kind \in Moving /\ InSrc(q) => Intended(q) = Absent
  <2> SUFFICES ASSUME op.kind \in Moving, InSrc(q) PROVE Intended(q) = Absent
    OBVIOUS
  <2>1. q # op.dst /\ ~Below(op.dst, q) BY <1>2 DEF AtOrBelow
  <2>2. QED BY <2>1 DEF Intended, InSrc, Creating, Removing, Moving
<1>6. ASSUME op.kind = "move_dir", Below(op.dst, q)
      PROVE  /\ (\A r \in Paths : InSrc(r) => Image(r) # q) => Intended(q) = Absent
             /\ \A r \in Paths : InSrc(r) /\ Image(r) = q => Intended(q) = op.before[r]
  <2>1. ~AtOrBelow(op.src, q) /\ q # op.dst BY <1>1, <1>2, <1>6 DEF InSrc, Moving, AtOrBelow
  <2>2. Intended(q) = IF \E r \in Paths : AtOrBelow(op.src, r) /\ Image(r) = q
                      THEN op.before[CHOOSE r \in Paths : AtOrBelow(op.src, r) /\ Image(r) = q]
                      ELSE Absent
    BY <1>6, <2>1 DEF Intended, Creating, Removing, Moving
  <2>3. CASE \A r \in Paths : InSrc(r) => Image(r) # q
    BY <2>2, <2>3 DEF InSrc
  <2>4. ASSUME NEW r \in Paths, InSrc(r), Image(r) = q PROVE Intended(q) = op.before[r]
    <3> DEFINE c == CHOOSE x \in Paths : AtOrBelow(op.src, x) /\ Image(x) = q
    <3>1. c \in Paths /\ AtOrBelow(op.src, c) /\ Image(c) = q BY <2>4 DEF InSrc
    <3>2. Intended(q) = op.before[c] BY <2>2, <2>4 DEF InSrc
    <3>3. c = r BY <1>0, <2>4, <3>1, ImageFacts DEF InSrc
    <3>4. QED BY <3>2, <3>3
  <2>5. QED BY <2>3, <2>4
<1>7. op.kind \in Creating \ {"move_dir"} /\ Below(op.dst, q) => Intended(q) = Absent
  <2> SUFFICES ASSUME op.kind \in Creating \ {"move_dir"}, Below(op.dst, q) PROVE Intended(q) = Absent
    OBVIOUS
  <2>1. op.before[q] = Absent BY DEF ArgsInv
  <2>2. ~(op.kind \in Moving /\ AtOrBelow(op.src, q)) /\ q # op.dst
    BY <1>1, <1>2 DEF AtOrBelow, InSrc
  <2>3. QED BY <2>1, <2>2 DEF Intended, Creating, Removing, Moving
<1>8. ~Touched(q) => Intended(q) = op.before[q]
  BY <1>0 DEF Touched, Intended, AtOrBelow, Creating, Removing, Moving
<1>9. QED BY <1>3, <1>4, <1>5, <1>6, <1>7, <1>8

\* A step within a call: the call goes on, or ends, with its arguments.
Within == /\ SameCall /\ op'.pc # "idle" /\ op'.new = op.new /\ lower' = lower

LEMMA ArgsKept ==
  ASSUME Within, ArgsInv
  PROVE  ArgsInv'
  BY DEF Within, SameCall, ArgsInv

LEMMA CallKept ==
  ASSUME Within
  PROVE  /\ \A q : Image(q)' = Image(q)
         /\ \A q : InSrc(q)' <=> InSrc(q)
         /\ \A q : Touched(q)' <=> Touched(q)
         /\ \A q \in Paths : Intended(q)' = Intended(q)
         /\ \A q \in Paths : IsImage(q)' <=> IsImage(q)
         /\ \A q \in Paths, v \in Entry : Accounted(q, v)' <=> Accounted(q, v)
<1>1. \A q : Image(q)' = Image(q) BY DEF Within, SameCall, Image
<1>2. \A q : InSrc(q)' <=> InSrc(q) BY DEF Within, SameCall, InSrc
<1>3. \A q : Touched(q)' <=> Touched(q) BY DEF Within, SameCall, Touched
<1>4. \A q \in Paths : Intended(q)' = Intended(q)
  BY <1>1 DEF Within, SameCall, Intended
<1>5. \A q \in Paths : IsImage(q)' <=> IsImage(q) BY <1>1, <1>2 DEF Within, SameCall, IsImage
<1>6. \A q \in Paths, v \in Entry : Accounted(q, v)' <=> Accounted(q, v)
  BY <1>4 DEF Within, SameCall, Accounted
<1>7. QED BY <1>1, <1>2, <1>3, <1>4, <1>5, <1>6

(***************************************************************************)
(* A call begins.                                                          *)
(***************************************************************************)

\* Nothing lies below what is not a directory.
LEMMA NothingBelow ==
  ASSUME UpperIsTree, NEW d \in Paths, Resolve(d) # Dir, NEW q \in Paths, Below(d, q)
  PROVE  View(q) = Absent /\ ent[q] = Absent
<1>1. d \in Anc(q) BY DEF Anc
<1>2. ~Reachable(q) BY <1>1 DEF Reachable
<1>3. ent[q] # Absent => Resolve(d) = Dir BY <1>1, TreeFacts, UpperDirFound
<1>4. QED BY <1>2, <1>3 DEF View

\* What the checks before a call make sure of.
Admitted(kind, src, dst, new) ==
    /\ kind \in Kinds
    /\ kind \in Moving => /\ ~AtOrBelow(src, dst) /\ ~AtOrBelow(dst, src)
                          /\ new = View(src) /\ new # Absent
    /\ kind \in Removing => src = dst
    /\ kind \in Creating =>
          /\ Resolve(dst) # Dir
          /\ new \in (IF kind \in {"create_dir", "move_dir"} THEN {Dir} ELSE Data)

LEMMA BeginData ==
  ASSUME IInv, NEW kind, NEW pc, pc # "idle", NEW src \in Paths, NEW dst \in Paths, NEW val, NEW new,
         NEW todo,
         Begin(kind, pc, src, dst, val, new, todo), Admitted(kind, src, dst, new)
  PROVE  /\ ArgsInv' /\ LeftInv'
         /\ \A q \in Paths : op'.before[q] = View(q) /\ View(q)' = View(q)
<1>1. /\ op'.pc = pc /\ op'.kind = kind /\ op'.src = src /\ op'.dst = dst /\ op'.new = new
      /\ \A q \in Paths : op'.before[q] = View(q)
      /\ UNCHANGED <<lower, ent, wh, opq>>
  BY DEF Begin
<1>2. \A q \in Paths : View(q)' = View(q) BY <1>1, DiskKept
<1>3. ASSUME kind \in Creating, NEW q \in Paths, Below(dst, q)
      PROVE  View(q) = Absent /\ ent[q] = Absent
  BY <1>3, NothingBelow DEF IInv, Admitted
<1>4. ArgsInv' BY <1>1, <1>3 DEF ArgsInv, Admitted
<1>5. \A q \in Paths : ent[q] # Absent => View(q) = ent[q] BY UpperSeen
<1>6. LeftInv' BY <1>1, <1>2, <1>3, <1>5 DEF LeftInv, Accounted
<1>7. QED BY <1>1, <1>2, <1>4, <1>6

LEMMA CopyFileData ==
  ASSUME IInv, NEW s \in Paths, NEW d \in Paths, View(s) \in Data,
         Reachable(d), Resolve(d) = Absent, NEW kind \in {"copy_file", "move_file"},
         Begin(kind, "parents", s, d, View(s), View(s), {})
  PROVE  DataInv'
<1>1. Reachable(s) /\ Resolve(s) \in Data /\ ~AtOrBelow(d, s)
  BY ViewFound, DstNotAbove, EntryAssumption
<1>2. ~AtOrBelow(s, d)
  <2>1. s # d BY <1>1, EntryAssumption
  <2>2. Below(s, d) => Resolve(s) = Dir BY DEF Reachable, Anc
  <2>3. QED BY <1>1, <2>1, <2>2, EntryAssumption DEF AtOrBelow
<1>3. Admitted(kind, s, d, View(s))
  BY <1>1, <1>2, EntryAssumption DEF Admitted, Kinds, Creating, Removing, Moving
<1>4. PICK v : v = View(s) OBVIOUS
<1>5. /\ ArgsInv' /\ LeftInv'
      /\ \A q \in Paths : op'.before[q] = View(q) /\ View(q)' = View(q)
  BY <1>3, <1>4, BeginData
<1>6. /\ op'.kind = kind /\ op'.src = s /\ op'.dst = d /\ op'.at = s /\ op'.to = d
      /\ op'.val = View(s) /\ op'.new = View(s) /\ op'.todo = {} /\ op'.pc = "parents"
  BY DEF Begin
<1>7. Image(s)' = d
  <2>1. AtOrBelow(s, s) BY DEF AtOrBelow
  <2>2. QED BY <1>6, <2>1, JoinBelow DEF Image
<1>8. ASSUME NEW q \in Paths, AtOrBelow(s, q), View(q) # Absent PROVE q = s
  <2>1. Reachable(q) BY <1>8, ViewFound
  <2>2. Below(s, q) => Resolve(s) = Dir BY <2>1 DEF Reachable, Anc
  <2>3. QED BY <1>1, <1>8, <2>2, EntryAssumption DEF AtOrBelow
<1>9. op'.to = Image(op.at)'
  BY <1>6, <1>7 DEF Image
<1>10. CopyInv'
  BY <1>5, <1>6, <1>8, <1>9, EntryAssumption
     DEF CopyInv, Kept, InSrc, Creating, Moving, CopyPCs
<1>11. RemoveInv' /\ DoneInv' BY <1>6 DEF RemoveInv, DoneInv, RemovePCs
<1>12. QED BY <1>5, <1>10, <1>11 DEF DataInv

\* What lookups find from s down, read_dir lists: the walk of a move visits it.
LEMMA WalkComplete ==
  ASSUME NEW s \in Paths, NEW q \in Paths, AtOrBelow(s, q), View(q) # Absent
  PROVE  q \in Walk(s)
<1>1. Reachable(q) /\ Resolve(q) # Absent BY ViewFound
<1>2. ASSUME NEW r \in Paths, Resolve(r) # Absent PROVE Listed(r)
  <2>1. CASE ent[r] # Absent BY <2>1 DEF Listed
  <2>2. CASE ent[r] = Absent
    <3>1. r \notin wh /\ ~OpaqueAbove(opq, r) /\ LowerResolve(lower, r) # Absent
      BY <1>2, <2>2 DEF Resolve
    <3>2. PICK i \in 1..Len(lower) : FoundIn(lower, i, r) BY <3>1 DEF LowerResolve
    <3>3. i \in Int BY <3>2
    <3>4. lower[i].ent[r] # Absent /\ \A j \in 1..i : r \notin lower[j].wh
      BY <3>2, <3>3 DEF FoundIn
    <3>5. QED BY <3>1, <3>4 DEF Listed, OpaqueAbove, ChildOf
  <2>3. QED BY <2>1, <2>2
<1>3. ASSUME NEW r \in Paths, AtOrBelow(r, q) PROVE Listed(r)
  BY <1>1, <1>2, <1>3, EntryAssumption DEF AtOrBelow, Reachable, Anc
<1>4. QED BY <1>3 DEF Walk

LEMMA MoveDirData ==
  ASSUME IInv, NEW s \in Paths, NEW d \in Paths, MoveDir(s, d)
  PROVE  DataInv'
<1>1. /\ View(s) = Dir /\ Reachable(d) /\ Resolve(d) = Absent /\ ~AtOrBelow(s, d)
      /\ Begin("move_dir", "pick_copy", s, d, Dir, Dir, Walk(s))
  BY DEF MoveDir
<1>2. ~AtOrBelow(d, s) BY <1>1, DstNotAbove, EntryAssumption
<1>3. Admitted("move_dir", s, d, Dir)
  BY <1>1, <1>2, EntryAssumption DEF Admitted, Kinds, Creating, Removing, Moving
<1>4. PICK w : w = Walk(s) OBVIOUS
<1>5. /\ ArgsInv' /\ LeftInv'
      /\ \A q \in Paths : op'.before[q] = View(q) /\ View(q)' = View(q)
  BY <1>1, <1>3, <1>4, BeginData
<1>6. op'.kind = "move_dir" /\ op'.src = s /\ op'.todo = Walk(s) /\ op'.pc = "pick_copy"
  BY <1>1 DEF Begin
<1>7. \A q \in Paths : AtOrBelow(s, q) /\ View(q) # Absent => q \in Walk(s) BY WalkComplete
<1>8. \A q \in Walk(s) : q \in Paths /\ View(q) # Absent BY DEF Walk
<1>9. CopyInv'
  BY <1>5, <1>6, <1>7, <1>8 DEF CopyInv, Kept, InSrc, Creating, Moving, CopyPCs
<1>10. RemoveInv' /\ DoneInv' BY <1>6 DEF RemoveInv, DoneInv, RemovePCs
<1>11. QED BY <1>5, <1>9, <1>10 DEF DataInv

LEMMA CallData == IInv /\ Call => DataInv'
<1> SUFFICES ASSUME IInv, Call PROVE DataInv'
  OBVIOUS
<1>1. PICK p \in Paths :
        \/ \E d \in Data : CreateFile(p, d) \/ AppendFile(p, d)
        \/ CreateDir(p) \/ RemoveFile(p) \/ RemoveDir(p)
        \/ \E q \in Paths : CopyFile(p, q) \/ MoveFile(p, q) \/ MoveDir(p, q)
  BY DEF Call
<1> DEFINE Simple(kind, pc, val, new) == Begin(kind, pc, p, p, val, new, {}) /\ Admitted(kind, p, p, new)
<1>2. ASSUME NEW kind, NEW pc, NEW val, NEW new, Simple(kind, pc, val, new), kind \notin Moving,
             \/ pc = "parents" /\ kind \in Creating /\ kind # "append_file" /\ val = new
             \/ pc \in {"parents", "append"} /\ kind = "append_file" /\ val = View(p)
             \/ pc = "remove" /\ kind \in Removing
      PROVE  DataInv'
  <2>1. /\ ArgsInv' /\ LeftInv'
        /\ \A q \in Paths : op'.before[q] = View(q) /\ View(q)' = View(q)
    BY <1>2, BeginData
  <2>2. /\ op'.kind = kind /\ op'.src = p /\ op'.dst = p /\ op'.at = p /\ op'.to = p
        /\ op'.val = val /\ op'.new = new /\ op'.pc = pc
    BY <1>2 DEF Begin
  <2>3. pc # "remove" => kind \in Creating
    BY <1>2 DEF Creating
  <2>4. CopyInv'
    BY <1>2, <2>1, <2>2, <2>3 DEF CopyInv, CopyPCs
  <2>5. RemoveInv' /\ DoneInv' BY <1>2, <2>2 DEF RemoveInv, DoneInv, RemovePCs
  <2>6. QED BY <2>1, <2>4, <2>5 DEF DataInv
<1>3. ASSUME NEW d \in Data, CreateFile(p, d) PROVE DataInv'
  <2>1. Simple("create_file", "parents", d, d)
    BY <1>3 DEF CreateFile, Admitted, Kinds, Creating, Removing, Moving
  <2>2. QED BY <1>2, <2>1 DEF Moving, Creating
<1>4. ASSUME NEW d \in Data, AppendFile(p, d) PROVE DataInv'
  <2>1. PICK pc, v : /\ pc = IF ent[p] # Absent THEN "append" ELSE "parents"
                     /\ v = View(p)
    OBVIOUS
  <2>2. Resolve(p) # Dir BY <1>4, ViewFound, EntryAssumption DEF AppendFile
  <2>3. Simple("append_file", pc, v, d)
    BY <1>4, <2>1, <2>2 DEF AppendFile, Admitted, Kinds, Creating, Removing, Moving
  <2>4. pc \in {"parents", "append"} BY <2>1
  <2>5. QED BY <1>2, <2>1, <2>3, <2>4 DEF Moving
<1>5. CASE CreateDir(p)
  <2>1. Simple("create_dir", "parents", Dir, Dir)
    BY <1>5, EntryAssumption DEF CreateDir, Admitted, Kinds, Creating, Removing, Moving
  <2>2. QED BY <1>2, <2>1 DEF Moving, Creating
<1>6. CASE RemoveFile(p) \/ RemoveDir(p)
  <2>1. PICK kind \in {"remove_file", "remove_dir"} : Simple(kind, "remove", Absent, Absent)
    BY <1>6 DEF RemoveFile, RemoveDir, Admitted, Kinds, Creating, Removing, Moving
  <2>2. QED BY <1>2, <2>1 DEF Moving, Removing
<1>7. ASSUME NEW q \in Paths, CopyFile(p, q) \/ MoveFile(p, q) PROVE DataInv'
  BY <1>7, CopyFileData DEF CopyFile, MoveFile
<1>8. ASSUME NEW q \in Paths, MoveDir(p, q) PROVE DataInv'
  BY <1>8, MoveDirData
<1>9. QED BY <1>1, <1>3, <1>4, <1>5, <1>6, <1>7, <1>8

(***************************************************************************)
(* Steps that leave the disk alone.                                        *)
(***************************************************************************)

LEMMA LeftKept ==
  ASSUME Within, LeftInv, TypeOK', \A q \in Paths : ent'[q] \in {Absent, ent[q]},
         \A q \in Paths : op.kind \in Creating /\ q = op.dst /\ View(q) # Absent => View(q)' # Absent
  PROVE  LeftInv'
<1>1. op'.kind = op.kind /\ op'.dst = op.dst /\ op'.before = op.before /\ op.pc # "idle"
  BY DEF Within, SameCall
<1>2. \A q \in Paths : ent'[q] \in Entry BY DEF TypeOK
<1>3. /\ \A q : Touched(q)' <=> Touched(q)
      /\ \A q \in Paths : IsImage(q)' <=> IsImage(q)
      /\ \A q \in Paths, v \in Entry : Accounted(q, v)' <=> Accounted(q, v)
  BY CallKept
<1>4. ASSUME NEW q \in Paths, Touched(q)', ent'[q] # Absent PROVE Accounted(q, ent[q])'
  <2>1. PICK v \in Entry : v = ent'[q] BY <1>2
  <2>2. v = ent[q] BY <1>4, <2>1
  <2>3. Accounted(q, v) BY <1>1, <1>3, <1>4, <2>1, <2>2 DEF LeftInv
  <2>4. Accounted(q, v)' BY <1>3, <2>3
  <2>5. QED BY <2>1, <2>4 DEF Accounted
<1>5. QED BY <1>1, <1>3, <1>4 DEF LeftInv

LEMMA CopiedKept ==
  ASSUME Within, ArgsInv, Copied,
         \A q \in Paths : AtOrBelow(op.dst, q) /\ ent[q] # Absent => ent'[q] = ent[q]
  PROVE  Copied'
<1>1. /\ op'.before = op.before /\ op.src \in Paths /\ op.dst \in Paths
  BY DEF Within, SameCall, ArgsInv
<1>2. SUFFICES ASSUME NEW q \in Paths, InSrc(q), op.before[q] # Absent PROVE Arrived(q)'
  BY <1>1, CallKept DEF Copied
<1>3. PICK r \in Paths : r = Image(q) /\ ent[r] = op.before[q] BY <1>2 DEF Copied, Arrived
<1>4. AtOrBelow(op.dst, r) BY <1>1, <1>2, <1>3, ImageFacts
<1>5. ent'[r] = op'.before[q] BY <1>1, <1>2, <1>3, <1>4
<1>6. QED BY <1>3, <1>5, CallKept DEF Arrived

LEMMA KeptKept ==
  ASSUME Within, Kept, \A q \in Paths : InSrc(q) => View(q)' = View(q)
  PROVE  Kept'
<1>1. op'.before = op.before BY DEF Within, SameCall
<1>2. QED BY <1>1, CallKept DEF Kept

\* The moved directory, or file, itself has arrived when everything has.
LEMMA CopiedRoot ==
  ASSUME ArgsInv, op.pc # "idle", op.kind \in Moving, Copied
  PROVE  ent[op.dst] = op.new
<1>1. op.src \in Paths /\ op.dst \in Paths /\ op.new = op.before[op.src] /\ op.new # Absent
  BY DEF ArgsInv
<1>2. InSrc(op.src) /\ Image(op.src) = op.dst BY <1>1, ImageFacts DEF InSrc, AtOrBelow
<1>3. QED BY <1>1, <1>2 DEF Copied, Arrived

LEMMA Stay ==
  ASSUME IInv, DataInv, Within, TypeOK', UNCHANGED <<lower, ent, wh, opq>>
  PROVE  /\ ArgsInv' /\ LeftInv'
         /\ Kept => Kept'
         /\ Copied => Copied'
         /\ \A q \in Paths : Arrived(q) => Arrived(q)'
<1>1. \A q \in Paths : View(q)' = View(q) BY DiskKept
<1>2. ArgsInv' BY ArgsKept DEF DataInv
<1>3. LeftInv' BY <1>1, LeftKept DEF DataInv
<1>4. Kept => Kept' BY <1>1, KeptKept
<1>5. Copied => Copied' BY CopiedKept DEF DataInv
<1>6. \A q \in Paths : Arrived(q) => Arrived(q)' BY CallKept DEF Arrived, Within, SameCall
<1>7. QED BY <1>2, <1>3, <1>4, <1>5, <1>6

LEMMA StopData ==
  ASSUME IInv, DataInv, IInv', Within, UNCHANGED <<lower, ent, wh, opq>>,
         op.pc # "done", op'.pc = "done", op'.out # "ok"
  PROVE  DataInv'
<1>1. /\ ArgsInv' /\ LeftInv' /\ (Kept => Kept') /\ (Copied => Copied')
  BY Stay DEF IInv
<1>2. op.pc \in CopyPCs \cup {"pick_copy"} \cup RemovePCs \cup {"pick_remove"}
  BY DEF IInv, TypeOK, Ops, PCs, Within, SameCall
<1>3. op.kind \in Moving => Kept \/ Copied
  BY <1>2 DEF DataInv, CopyInv, RemoveInv
<1>4. op'.kind = op.kind BY DEF Within, SameCall
<1>5. CopyInv' /\ RemoveInv' /\ DoneInv'
  BY <1>1, <1>3, <1>4 DEF CopyInv, RemoveInv, DoneInv, CopyPCs, RemovePCs
<1>6. QED BY <1>1, <1>5 DEF DataInv

LEMMA ReplyData == Reply => DataInv'
<1> SUFFICES ASSUME Reply PROVE DataInv'
  OBVIOUS
<1>1. op'.pc = "idle" /\ op'.kind = "none" BY DEF Reply, Idle
<1>2. QED
  BY <1>1 DEF DataInv, ArgsInv, CopyInv, RemoveInv, DoneInv, LeftInv, CopyPCs, RemovePCs

LEMMA InitData == Init => DataInv
<1> SUFFICES ASSUME Init PROVE DataInv
  OBVIOUS
<1>1. op.pc = "idle" /\ op.kind = "none" BY DEF Init, Idle
<1>2. QED
  BY <1>1 DEF DataInv, ArgsInv, CopyInv, RemoveInv, DoneInv, LeftInv, CopyPCs, RemovePCs

LEMMA ParentsMadeData == IInv /\ DataInv /\ IInv' /\ ParentsMade => DataInv'
<1> SUFFICES ASSUME IInv, DataInv, IInv', ParentsMade PROVE DataInv'
  OBVIOUS
<1>1. /\ op.pc \in {"parents", "mark_parents"} /\ UNCHANGED <<lower, ent, wh, opq>>
      /\ Goto(IF op.pc = "mark_parents" THEN "mark"
              ELSE IF op.kind = "append_file" THEN "create" ELSE "unmask")
  BY DEF ParentsMade
<1>2. PICK pc \in PCs : /\ pc = IF op.pc = "mark_parents" THEN "mark"
                               ELSE IF op.kind = "append_file" THEN "create" ELSE "unmask"
  BY DEF PCs, CopyPCs, RemovePCs
<1>3. op \in Ops BY DEF IInv, TypeOK
<1>4. SameEntry /\ op'.pc = pc BY <1>1, <1>2, <1>3, GotoTyped
<1>5. Within BY <1>1, <1>2, <1>4 DEF Within, SameEntry
<1>6. /\ ArgsInv' /\ LeftInv' /\ (Kept => Kept') /\ (Copied => Copied')
      /\ \A q \in Paths : Arrived(q) => Arrived(q)'
  BY <1>1, <1>5, Stay DEF IInv
<1>7. /\ op'.kind = op.kind /\ op'.src = op.src /\ op'.dst = op.dst /\ op'.before = op.before
      /\ op'.at = op.at /\ op'.to = op.to /\ op'.val = op.val /\ op'.new = op.new /\ op'.todo = op.todo
      /\ Image(op.at)' = Image(op.at)
      /\ \A q \in Paths : InSrc(q)' <=> InSrc(q)
  BY <1>4 DEF SameEntry, SameCall, Image, InSrc
<1>8. CASE op.pc = "parents"
  <2>1. pc \in {"create", "unmask"} BY <1>2, <1>8
  <2>2. CopyInv'
    BY <1>4, <1>6, <1>7, <1>8, <2>1 DEF DataInv, CopyInv, CopyPCs
  <2>3. RemoveInv' /\ DoneInv' BY <1>4, <2>1 DEF RemoveInv, DoneInv, RemovePCs
  <2>4. QED BY <1>6, <2>2, <2>3 DEF DataInv
<1>9. CASE op.pc = "mark_parents"
  <2>1. pc = "mark" BY <1>2, <1>9
  <2>2. RemoveInv' BY <1>4, <1>6, <1>7, <1>9, <2>1 DEF DataInv, RemoveInv, RemovePCs
  <2>3. CopyInv' /\ DoneInv' BY <1>4, <2>1 DEF CopyInv, DoneInv, CopyPCs
  <2>4. QED BY <1>6, <2>2, <2>3 DEF DataInv
<1>10. QED BY <1>1, <1>8, <1>9

LEMMA PickCopyData == IInv /\ DataInv /\ IInv' /\ PickCopy => DataInv'
<1> SUFFICES ASSUME IInv, DataInv, IInv', PickCopy PROVE DataInv'
  OBVIOUS
<1>1. op.pc = "pick_copy" /\ UNCHANGED <<lower, ent, wh, opq>> BY DEF PickCopy
<1>2. PICK q \in op.todo :
        /\ q = op.src \/ \E d \in Paths : ChildOf(d, Image(q)) /\ ent[d] = Dir
        /\ op' = [op EXCEPT !.pc = "parents", !.at = q, !.to = Image(q), !.val = Resolve(q),
                            !.todo = @ \ {q}]
  BY DEF PickCopy
<1>3. op \in Ops BY DEF IInv, TypeOK
<1>4. /\ q \in Paths /\ AtOrBelow(op.src, q) /\ Image(q) \in Paths /\ op.kind = "move_dir"
      /\ op.src \in Paths /\ op.dst \in Paths
  BY <1>1, <1>3 DEF IInv, CallInv, Ops
<1>5. /\ op'.pc = "parents" /\ op'.at = q /\ op'.to = Image(q) /\ op'.val = Resolve(q)
      /\ op'.todo = op.todo \ {q} /\ op'.kind = op.kind /\ op'.src = op.src /\ op'.dst = op.dst
      /\ op'.before = op.before /\ op'.new = op.new
  BY <1>2, <1>3 DEF Ops
<1>6. Within BY <1>1, <1>5 DEF Within, SameCall
<1>7. /\ ArgsInv' /\ LeftInv' /\ (Kept => Kept')
      /\ \A r \in Paths : Arrived(r) => Arrived(r)'
  BY <1>1, <1>6, Stay DEF IInv
<1>8. /\ Kept
      /\ \A r \in Paths : InSrc(r) /\ op.before[r] # Absent => r \in op.todo \/ Arrived(r)
      /\ \A r \in op.todo : op.before[r] # Absent
  BY <1>1, <1>4 DEF DataInv, CopyInv, Moving, CopyPCs
<1>9. op.before[q] # Absent /\ Resolve(q) = op.before[q]
  <2>1. View(q) = op.before[q] BY <1>4, <1>8 DEF Kept, InSrc
  <2>2. QED BY <1>4, <1>8, <2>1, ViewFound
<1>10. PICK t \in Paths : t = Image(q) BY <1>4
<1>11. t = op.dst \/ NoParent(t) = {}
  <2>1. CASE q = op.src BY <1>4, <1>10, <2>1, ImageFacts
  <2>2. CASE \E d \in Paths : ChildOf(d, t) /\ ent[d] = Dir
    <3>1. PICK d \in Paths : ChildOf(d, t) /\ ent[d] = Dir BY <2>2
    <3>2. \A a \in Anc(d) : ent[a] = Dir BY <3>1, TreeFacts, EntryAssumption DEF IInv
    <3>3. \A a \in Anc(t) : ent[a] = Dir BY <3>1, <3>2, AncOfChild
    <3>4. QED BY <3>3, ParentsAllThere
  <2>3. QED BY <1>2, <1>10, <2>1, <2>2
<1>12. op'.to = op'.dst \/ NoParent(op.to)' = {}
  BY <1>1, <1>5, <1>10, <1>11 DEF NoParent
<1>13. Image(op.at)' = Image(q) BY <1>5 DEF Image
<1>14. \A r \in Paths : InSrc(r)' <=> InSrc(r) BY <1>6, CallKept
<1>15. CopyInv'
  BY <1>4, <1>5, <1>7, <1>8, <1>9, <1>12, <1>13, <1>14 DEF CopyInv, Creating, Moving, CopyPCs
<1>16. RemoveInv' /\ DoneInv' BY <1>5 DEF RemoveInv, DoneInv, RemovePCs
<1>17. QED BY <1>7, <1>15, <1>16 DEF DataInv

LEMMA CopyDoneData == IInv /\ DataInv /\ IInv' /\ CopyDone => DataInv'
<1> SUFFICES ASSUME IInv, DataInv, IInv', CopyDone PROVE DataInv'
  OBVIOUS
<1>1. /\ op.pc = "pick_copy" /\ op.todo = {} /\ UNCHANGED <<lower, ent, wh, opq>>
      /\ op' = [op EXCEPT !.pc = "pick_remove", !.todo = Walk(op.src)]
  BY DEF CopyDone
<1>2. op \in Ops /\ op.kind = "move_dir" /\ op.src \in Paths
  BY <1>1 DEF IInv, TypeOK, CallInv
<1>3. /\ op'.pc = "pick_remove" /\ op'.todo = Walk(op.src) /\ op'.kind = op.kind /\ op'.src = op.src
      /\ op'.dst = op.dst /\ op'.before = op.before /\ op'.new = op.new
  BY <1>1, <1>2 DEF Ops
<1>4. Within BY <1>1, <1>3 DEF Within, SameCall
<1>5. ArgsInv' /\ LeftInv' /\ (Copied => Copied') BY <1>1, <1>4, Stay DEF IInv
<1>6. Copied BY <1>1, <1>2 DEF DataInv, CopyInv, Copied, Moving, CopyPCs
<1>7. PICK s \in Paths : s = op.src BY <1>2
<1>8. View(s) # Absent
  <2>1. Kept BY <1>1, <1>2 DEF DataInv, CopyInv, Moving
  <2>2. op.before[s] # Absent BY <1>1, <1>2, <1>7 DEF DataInv, ArgsInv, Moving
  <2>3. QED BY <1>7, <2>1, <2>2 DEF Kept, InSrc, AtOrBelow
<1>9. s \in Walk(s) BY <1>8, WalkComplete DEF AtOrBelow
<1>10. RemoveInv' BY <1>3, <1>5, <1>6, <1>7, <1>9 DEF RemoveInv
<1>11. CopyInv' /\ DoneInv' BY <1>3 DEF CopyInv, DoneInv, CopyPCs
<1>12. QED BY <1>5, <1>10, <1>11 DEF DataInv

LEMMA PickRemoveData == IInv /\ DataInv /\ IInv' /\ PickRemove => DataInv'
<1> SUFFICES ASSUME IInv, DataInv, IInv', PickRemove PROVE DataInv'
  OBVIOUS
<1>1. op.pc = "pick_remove" /\ UNCHANGED <<lower, ent, wh, opq>> BY DEF PickRemove
<1>2. PICK q \in op.todo :
        op' = [op EXCEPT !.pc = IF Resolve(q) = Dir THEN "sweep" ELSE "remove", !.at = q,
                         !.todo = @ \ {q}]
  BY DEF PickRemove
<1>3. op \in Ops BY DEF IInv, TypeOK
<1>4. q \in Paths /\ AtOrBelow(op.src, q) /\ Reachable(q) /\ op.src \in Paths
  BY <1>1, <1>3 DEF IInv, CallInv, Ops
<1>5. /\ op'.pc \in {"sweep", "remove"} /\ op'.at = q /\ op'.todo = op.todo \ {q}
      /\ op'.kind = op.kind /\ op'.src = op.src /\ op'.dst = op.dst
      /\ op'.before = op.before /\ op'.new = op.new
  BY <1>2, <1>3 DEF Ops
<1>6. Within BY <1>1, <1>5 DEF Within, SameCall
<1>7. ArgsInv' /\ LeftInv' /\ (Copied => Copied') BY <1>1, <1>6, Stay DEF IInv
<1>8. op.src \in op.todo \/ q = op.src
  <2> SUFFICES ASSUME op.src \notin op.todo, q # op.src PROVE FALSE
    OBVIOUS
  <2>1. Resolve(op.src) = Absent BY <1>1, <1>4 DEF DataInv, RemoveInv
  <2>2. op.src \in Anc(q) BY <1>4 DEF AtOrBelow, Anc
  <2>3. QED BY <1>4, <2>1, <2>2, EntryAssumption DEF Reachable
<1>9. op.kind \in Moving => Copied BY <1>1 DEF DataInv, RemoveInv
<1>10. RemoveInv' BY <1>5, <1>7, <1>8, <1>9 DEF RemoveInv
<1>11. CopyInv' /\ DoneInv' BY <1>5 DEF CopyInv, DoneInv, CopyPCs
<1>12. QED BY <1>7, <1>10, <1>11 DEF DataInv

LEMMA MoveDoneData == IInv /\ DataInv /\ IInv' /\ MoveDone => DataInv'
<1> SUFFICES ASSUME IInv, DataInv, IInv', MoveDone PROVE DataInv'
  OBVIOUS
<1>1. op.pc = "pick_remove" /\ op.todo = {} /\ Goto("done") /\ UNCHANGED <<lower, ent, wh, opq>>
  BY DEF MoveDone
<1>2. op \in Ops /\ op.kind = "move_dir" BY <1>1 DEF IInv, TypeOK, CallInv
<1>3. SameEntry /\ op'.pc = "done" BY <1>1, <1>2, GotoTyped DEF PCs
<1>4. Within BY <1>1, <1>3 DEF Within, SameEntry
<1>5. ArgsInv' /\ LeftInv' /\ (Copied => Copied') BY <1>1, <1>4, Stay DEF IInv
<1>6. Copied /\ \A q \in Paths : q = op.src => Resolve(q) = Absent
  BY <1>1, <1>2 DEF DataInv, RemoveInv, Moving
<1>7. op'.kind = "move_dir" /\ op'.src = op.src BY <1>2, <1>3 DEF SameEntry, SameCall
<1>8. \A q \in Paths : q = op'.src => Resolve(q)' = Absent BY <1>1, <1>6, <1>7, DiskKept
<1>9. ent'[op'.dst] = op'.new
  <2>1. Copied' /\ op'.kind \in Moving /\ op'.pc # "idle" BY <1>3, <1>5, <1>6, <1>7 DEF Moving
  <2>2. ArgsInv /\ op.pc # "idle" /\ op.kind \in Moving => ent[op.dst] = op.new
    BY <1>6, CopiedRoot
  <2>3. QED BY <1>1, <1>2, <1>3, <2>2 DEF DataInv, Moving, SameEntry, SameCall
<1>10. DoneInv' BY <1>3, <1>5, <1>6, <1>8, <1>9 DEF DoneInv
<1>11. CopyInv' /\ RemoveInv' BY <1>3 DEF CopyInv, RemoveInv, CopyPCs, RemovePCs
<1>12. QED BY <1>5, <1>10, <1>11 DEF DataInv

LEMMA SweptData == IInv /\ DataInv /\ IInv' /\ Swept => DataInv'
<1> SUFFICES ASSUME IInv, DataInv, IInv', Swept PROVE DataInv'
  OBVIOUS
<1>1. op.pc = "sweep" /\ Goto("remove") /\ UNCHANGED <<lower, ent, wh, opq>> BY DEF Swept
<1>2. op \in Ops BY DEF IInv, TypeOK
<1>3. SameEntry /\ op'.pc = "remove" BY <1>1, <1>2, GotoTyped DEF PCs, RemovePCs
<1>4. Within BY <1>1, <1>3 DEF Within, SameEntry
<1>5. ArgsInv' /\ LeftInv' /\ (Copied => Copied') BY <1>1, <1>4, Stay DEF IInv
<1>6. RemoveInv' BY <1>1, <1>3, <1>5 DEF DataInv, RemoveInv, RemovePCs, SameEntry, SameCall
<1>7. CopyInv' /\ DoneInv' BY <1>3 DEF CopyInv, DoneInv, CopyPCs
<1>8. QED BY <1>5, <1>6, <1>7 DEF DataInv

(***************************************************************************)
(* Steps on the disk.                                                      *)
(***************************************************************************)

LEMMA SameViews ==
  ASSUME \A q \in Paths : Resolve(q)' = Resolve(q)
  PROVE  \A q \in Paths : View(q)' = View(q)
<1>1. \A q \in Paths : Reachable(q)' <=> Reachable(q) BY DEF Reachable, Anc
<1>2. QED BY <1>1 DEF View

LEMMA MakeParentData == IInv /\ DataInv /\ IInv' /\ MakeParent => DataInv'
<1> SUFFICES ASSUME IInv, DataInv, IInv', MakeParent PROVE DataInv'
  OBVIOUS
<1>1. op.pc \in {"parents", "mark_parents"} /\ UNCHANGED <<lower, wh, opq, op>> BY DEF MakeParent
<1>2. PICK a \in Anc(Target) : /\ ent[a] = Absent /\ a \notin wh /\ Resolve(a) = Dir
                               /\ ent' = [ent EXCEPT ![a] = Dir]
  BY MakeParentFacts
<1>3. NoParent(Target) # {} /\ \A q \in Paths : Resolve(q)' = Resolve(q) BY MakeParentFacts
<1>4. \A q \in Paths : View(q)' = View(q) BY <1>3, SameViews
<1>5. Within BY <1>1 DEF Within, SameCall
<1>6. /\ a \in Paths /\ ent'[a] = Dir /\ \A q \in Paths \ {a} : ent'[q] = ent[q]
  BY <1>2 DEF IInv, TypeOK, Anc
<1>7. \A q \in Paths : ent[q] # Absent => ent'[q] = ent[q] BY <1>2, <1>6
<1>8. ArgsInv' BY <1>5, ArgsKept DEF DataInv
<1>9. /\ {op.src, op.dst, op.at, op.to} \subseteq Paths
      /\ AtOrBelow(op.src, op.at)
      /\ op.pc = "mark_parents" => op.kind \in Removing \cup Moving
  BY <1>1 DEF IInv, CallInv, RemovePCs
<1>10. op.pc = "parents" => op.to = op.dst
  BY <1>3 DEF Target, DataInv, CopyInv, CopyPCs
<1>11. ASSUME op.kind \in Creating, Below(op.dst, a) PROVE FALSE
  <2>1. PICK d \in Paths, c \in Paths : d = op.dst /\ c = op.at BY <1>9
  <2>2. CASE op.pc = "parents"
    <3>1. Below(a, d) BY <1>2, <1>10, <2>1, <2>2 DEF Target, Anc
    <3>2. QED BY <1>6, <1>11, <2>1, <3>1, BelowTrans, NotBelowSelf
  <2>3. CASE op.pc = "mark_parents"
    <3>1. op.kind \in Moving BY <1>9, <1>11, <2>3 DEF Creating, Removing
    <3>2. Below(a, c) BY <1>2, <2>1, <2>3 DEF Target, Anc
    <3>3. Below(d, c) BY <1>6, <1>11, <2>1, <3>2, BelowTrans
    <3>4. ~AtOrBelow(op.dst, c)
      BY <1>9, <2>1, <2>3, <3>1, TreesApart DEF InSrc, DataInv
    <3>5. QED BY <2>1, <3>3, <3>4 DEF AtOrBelow
  <2>4. QED BY <1>1, <2>2, <2>3
<1>12. LowerResolve(lower, a) = Dir BY <1>2, EntryAssumption DEF Resolve
<1>13. LeftInv'
  <2>1. /\ \A q : Touched(q)' <=> Touched(q)
        /\ \A q \in Paths : IsImage(q)' <=> IsImage(q)
        /\ \A q \in Paths, v \in Entry : Accounted(q, v)' <=> Accounted(q, v)
    BY <1>5, CallKept
  <2>2. ASSUME NEW q \in Paths, Touched(q), ent'[q] # Absent PROVE Accounted(q, ent[q])'
    <3>1. PICK v \in Entry : v = ent'[q] BY DEF IInv, TypeOK
    <3>2. CASE q = a BY <1>1, <1>6, <1>12, <3>2 DEF Accounted
    <3>3. CASE q # a
      <4>1. v = ent[q] BY <1>6, <3>1, <3>3
      <4>2. Accounted(q, v) BY <1>1, <2>2, <3>1, <4>1 DEF DataInv, LeftInv
      <4>3. Accounted(q, v)' BY <2>1, <4>2
      <4>4. QED BY <3>1, <4>3 DEF Accounted
    <3>4. QED BY <3>2, <3>3
  <2>3. ASSUME NEW q \in Paths, op.kind \in Creating, Below(op.dst, q), ent'[q] # Absent
        PROVE  IsImage(q)
    <3>1. q # a BY <1>11, <2>3
    <3>2. QED BY <1>1, <1>6, <2>3, <3>1 DEF DataInv, LeftInv
  <2>4. ASSUME NEW q \in Paths, op.kind \in Creating, q = op.dst, op.before[q] # Absent
        PROVE  View(q) # Absent
    BY <1>1, <2>4 DEF DataInv, LeftInv
  <2>5. QED BY <1>1, <1>4, <2>1, <2>2, <2>3, <2>4 DEF LeftInv
<1>14. Kept => Kept' BY <1>4, <1>5, KeptKept
<1>15. Copied => Copied' BY <1>5, <1>7, CopiedKept DEF DataInv
<1>16. \A q \in Paths : op.before[q] # Absent /\ Arrived(q) => Arrived(q)'
  BY <1>1, <1>5, <1>7, CallKept DEF Arrived
<1>17. \A q \in Paths : InSrc(q)' <=> InSrc(q) BY <1>5, CallKept
<1>18. Image(op.at)' = Image(op.at) BY <1>1 DEF Image
<1>19. CopyInv'
  BY <1>1, <1>10, <1>14, <1>16, <1>17, <1>18 DEF DataInv, CopyInv, CopyPCs
<1>20. RemoveInv' BY <1>1, <1>15 DEF DataInv, RemoveInv
<1>21. DoneInv' BY <1>1 DEF DoneInv
<1>22. QED BY <1>8, <1>13, <1>19, <1>20, <1>21 DEF DataInv

\* A copy step is away from the source of a move.
LEMMA KeptByCopy ==
  ASSUME IInv, DataInv, Within, op.pc \in CopyPCs, NEW t \in Paths, t = op.to, ChangesOnly(t),
         op.kind \in Moving
  PROVE  Kept'
<1>1. Kept BY DEF DataInv, CopyInv
<1>2. op.pc # "idle" /\ op.pc # "done" BY DEF CopyPCs
<1>3. PICK d \in Paths : d = op.dst /\ AtOrBelow(d, t) BY <1>2 DEF IInv, CallInv
<1>4. ASSUME NEW q \in Paths, InSrc(q) PROVE View(q)' = View(q)
  <2>1. ~AtOrBelow(d, q) BY <1>2, <1>3, <1>4, TreesApart DEF DataInv
  <2>2. ~AtOrBelow(t, q) BY <1>3, <2>1, AtOrBelowTrans
  <2>3. QED BY <2>2, ViewKept
<1>5. QED BY <1>1, <1>4, KeptKept

LEMMA RemoveWhiteoutData == IInv /\ DataInv /\ IInv' /\ RemoveWhiteout => DataInv'
<1> SUFFICES ASSUME IInv, DataInv, IInv', RemoveWhiteout PROVE DataInv'
  OBVIOUS
<1>1. op.pc = "unmask" /\ wh' = wh \ {op.to} /\ Goto("create") /\ UNCHANGED <<lower, ent, opq>>
  BY DEF RemoveWhiteout
<1>2. op \in Ops BY DEF IInv, TypeOK
<1>3. SameEntry /\ op'.pc = "create" BY <1>1, <1>2, GotoTyped DEF PCs, CopyPCs
<1>4. Within BY <1>1, <1>3 DEF Within, SameEntry
<1>5. PICK t \in Paths, d \in Paths : t = op.to /\ d = op.dst /\ AtOrBelow(d, t)
  BY <1>1 DEF IInv, CallInv
<1>6. ChangesOnly(t) BY <1>1, <1>5, MarkerChange DEF AtOrBelow
<1>7. op.kind \in Moving => Kept' BY <1>1, <1>4, <1>5, <1>6, KeptByCopy DEF CopyPCs
<1>8. View(d) # Absent => View(d)' # Absent
  <2>1. CASE t = d
    <3>1. SUFFICES ASSUME View(d) # Absent PROVE View(d)' # Absent
      OBVIOUS
    <3>2. d \notin wh BY <3>1, ViewFound, ResolveUpper
    <3>3. wh' = wh BY <1>1, <1>5, <2>1, <3>2
    <3>4. QED BY <1>1, <3>1, <3>3, DiskKept
  <2>2. CASE t # d
    <3>1. Below(d, t) BY <1>5, <2>2 DEF AtOrBelow
    <3>2. ~AtOrBelow(t, d) BY <3>1, <2>2, BelowTrans, NotBelowSelf DEF AtOrBelow
    <3>3. QED BY <1>6, <3>2, ViewKept
  <2>3. QED BY <2>1, <2>2
<1>9. ArgsInv' BY <1>4, ArgsKept DEF DataInv
<1>10. LeftInv' BY <1>1, <1>4, <1>5, <1>8, LeftKept DEF DataInv, IInv
<1>11. /\ op'.kind = op.kind /\ op'.src = op.src /\ op'.dst = op.dst /\ op'.before = op.before
       /\ op'.at = op.at /\ op'.to = op.to /\ op'.val = op.val /\ op'.new = op.new /\ op'.todo = op.todo
       /\ Image(op.at)' = Image(op.at)
       /\ \A q \in Paths : (InSrc(q)' <=> InSrc(q)) /\ (Arrived(q) => Arrived(q)')
  BY <1>1, <1>3 DEF SameEntry, SameCall, Image, InSrc, Arrived
<1>12. CopyInv'
  BY <1>1, <1>3, <1>7, <1>11 DEF DataInv, CopyInv, CopyPCs
<1>13. RemoveInv' /\ DoneInv' BY <1>3 DEF RemoveInv, DoneInv, RemovePCs
<1>14. QED BY <1>9, <1>10, <1>12, <1>13 DEF DataInv

\* What a copy writes is what the call is asked for at that place, or what was
\* there before.
LEMMA ValueAccounted ==
  ASSUME IInv, DataInv, op.pc \in CopyPCs
  PROVE  /\ Accounted(op.to, op.val)
         /\ op.kind = "append_file" => Accounted(op.to, op.new)
<1>0. op.pc # "idle" /\ op.pc # "done" /\ op.kind \in Creating
  BY DEF CopyPCs, DataInv, CopyInv
<1>1. /\ {op.src, op.dst, op.at, op.to} \subseteq Paths
      /\ AtOrBelow(op.src, op.at) /\ AtOrBelow(op.dst, op.to)
      /\ op.kind # "move_dir" => op.at = op.src /\ op.to = op.dst
  BY <1>0 DEF IInv, CallInv
<1>2. Intended(op.dst) = op.new BY <1>0, <1>1, IntendedFacts DEF DataInv
<1>3. CASE op.kind \in Moving
  <2>1. op.to = Image(op.at) /\ op.val = op.before[op.at]
    BY <1>3 DEF DataInv, CopyInv
  <2>2. CASE op.to = op.dst
    <3>1. Image(op.src) = op.dst /\ InSrc(op.src) /\ InSrc(op.at)
      BY <1>1, ImageFacts DEF InSrc, AtOrBelow
    <3>2. op.at = op.src BY <1>1, <2>1, <2>2, <3>1, ImageFacts
    <3>3. op.val = op.new BY <1>0, <1>3, <2>1, <3>2 DEF DataInv, ArgsInv
    <3>4. QED BY <1>2, <1>3, <2>2, <3>3 DEF Accounted, Moving
  <2>3. CASE op.to # op.dst
    <3>1. op.kind = "move_dir" /\ Below(op.dst, op.to) BY <1>1, <2>3 DEF AtOrBelow
    <3>2. Intended(op.to) = op.before[op.at]
      BY <1>0, <1>1, <2>1, <3>1, IntendedFacts DEF DataInv, InSrc
    <3>3. QED BY <2>1, <3>1, <3>2 DEF Accounted
  <2>4. QED BY <2>2, <2>3
<1>4. CASE op.kind \notin Moving
  <2>1. op.to = op.dst BY <1>1, <1>4 DEF Moving
  <2>2. op.val \in {op.new, op.before[op.dst]} BY <1>4 DEF DataInv, CopyInv
  <2>3. QED BY <1>2, <2>1, <2>2 DEF Accounted
<1>5. QED BY <1>3, <1>4

\* The entry at `to` is written.
LEMMA WriteData ==
  ASSUME IInv, DataInv, IInv', Within, op.pc \in CopyPCs, NEW t \in Paths, t = op.to,
         NEW v \in Entry \ {Absent}, Accounted(t, v),
         ent' = [ent EXCEPT ![t] = v], UNCHANGED <<lower, wh, opq>>
  PROVE  /\ ArgsInv' /\ LeftInv'
         /\ op.kind \in Moving =>
              /\ Kept'
              /\ \A q \in Paths : InSrc(q) /\ q # op.at /\ Arrived(q) => Arrived(q)'
<1>0. op.pc # "idle" /\ op.pc # "done" BY DEF CopyPCs
<1>1. /\ {op.src, op.dst, op.at, op.to} \subseteq Paths
      /\ AtOrBelow(op.src, op.at) /\ AtOrBelow(op.dst, op.to)
      /\ op.kind # "move_dir" => op.at = op.src /\ op.to = op.dst
  BY <1>0 DEF IInv, CallInv
<1>2. ent'[t] = v /\ \A q \in Paths \ {t} : ent'[q] = ent[q] BY DEF IInv, TypeOK
<1>3. ChangesOnly(t) BY EntryChange DEF IInv
<1>4. ArgsInv' BY ArgsKept DEF DataInv
<1>5. op.kind \in Moving => Kept' BY <1>3, KeptByCopy
<1>6. ASSUME op.kind \in Moving, NEW q \in Paths, InSrc(q), q # op.at, Arrived(q) PROVE Arrived(q)'
  <2>1. PICK r \in Paths : r = Image(q) /\ ent[r] = op.before[q] BY <1>6 DEF Arrived
  <2>2. t = Image(op.at) /\ InSrc(op.at) BY <1>1, <1>6 DEF DataInv, CopyInv, InSrc
  <2>3. r # t BY <1>1, <1>6, <2>1, <2>2, ImageFacts
  <2>4. ent'[r] = op'.before[q] BY <1>2, <2>1, <2>3 DEF Within, SameCall
  <2>5. QED BY <2>1, <2>4, CallKept DEF Arrived
<1>7. LeftInv'
  <2>1. /\ \A q : Touched(q)' <=> Touched(q)
        /\ \A q \in Paths : IsImage(q)' <=> IsImage(q)
        /\ \A q \in Paths, w \in Entry : Accounted(q, w)' <=> Accounted(q, w)
    BY CallKept
  <2>2. ASSUME NEW q \in Paths, Touched(q), ent'[q] # Absent PROVE Accounted(q, ent[q])'
    <3>1. PICK w \in Entry : w = ent'[q] BY DEF IInv, TypeOK
    <3>2. Accounted(q, w)
      <4>1. CASE q = t BY <1>2, <3>1, <4>1
      <4>2. CASE q # t BY <1>0, <1>2, <2>2, <3>1, <4>2 DEF DataInv, LeftInv
      <4>3. QED BY <4>1, <4>2
    <3>3. Accounted(q, w)' BY <2>1, <3>2
    <3>4. QED BY <3>1, <3>3 DEF Accounted
  <2>3. ASSUME NEW q \in Paths, op.kind \in Creating, Below(op.dst, q), ent'[q] # Absent
        PROVE  IsImage(q)
    <3>1. CASE q = t
      <4>1. op.kind = "move_dir" BY <1>1, <2>3, <3>1, NotBelowSelf
      <4>2. t = Image(op.at) /\ op.before[op.at] # Absent
        BY <4>1 DEF DataInv, CopyInv, Moving
      <4>3. QED BY <1>1, <3>1, <4>1, <4>2 DEF IsImage, InSrc
    <3>2. CASE q # t BY <1>0, <1>2, <2>3, <3>2 DEF DataInv, LeftInv
    <3>3. QED BY <3>1, <3>2
  <2>4. ASSUME NEW q \in Paths, op.kind \in Creating, q = op.dst, op.before[q] # Absent
        PROVE  View(q)' # Absent
    <3>1. CASE q = t
      <4>1. UpperVisible' BY UpperSeenAlways, PTL
      <4>2. QED BY <1>2, <3>1, <4>1 DEF UpperVisible
    <3>2. CASE q # t
      <4>1. Below(q, t) BY <1>1, <2>4, <3>2 DEF AtOrBelow
      <4>2. ~AtOrBelow(t, q) BY <4>1, <3>2, BelowTrans, NotBelowSelf DEF AtOrBelow
      <4>3. View(q)' = View(q) BY <1>3, <4>2, ViewKept
      <4>4. QED BY <1>0, <2>4, <4>3 DEF DataInv, LeftInv
    <3>3. QED BY <3>1, <3>2
  <2>5. /\ op'.kind = op.kind /\ op'.dst = op.dst /\ op'.before = op.before
    BY DEF Within, SameCall
  <2>6. QED BY <2>1, <2>2, <2>3, <2>4, <2>5 DEF LeftInv
<1>8. QED BY <1>4, <1>5, <1>6, <1>7

\* The copy of an entry is complete.
LEMMA EntryCopied ==
  ASSUME IInv, DataInv, IInv', op.pc \in {"create", "write"}, NEW t \in Paths, t = op.to,
         NEW v \in Entry \ {Absent}, v = op.val,
         ent' = [ent EXCEPT ![t] = v], UNCHANGED <<lower, wh, opq>>, Goto(AfterCopy)
  PROVE  DataInv'
<1>1. op \in Ops /\ op.pc \in CopyPCs /\ op.pc # "idle" /\ op.pc # "done"
  BY DEF IInv, TypeOK, CopyPCs
<1>2. PICK pc \in PCs : pc = AfterCopy /\ pc \in {"append", "remove", "pick_copy", "done"}
  BY <1>1, AfterCopyTyped DEF PCs, CopyPCs, RemovePCs
<1>3. SameEntry /\ op'.pc = pc BY <1>1, <1>2, GotoTyped
<1>4. Within BY <1>1, <1>2, <1>3 DEF Within, SameEntry
<1>5. Accounted(t, v) BY <1>1, ValueAccounted
<1>6. /\ ArgsInv' /\ LeftInv'
      /\ op.kind \in Moving =>
           /\ Kept'
           /\ \A q \in Paths : InSrc(q) /\ q # op.at /\ Arrived(q) => Arrived(q)'
  BY <1>1, <1>4, <1>5, WriteData
<1>7. /\ op'.kind = op.kind /\ op'.src = op.src /\ op'.dst = op.dst /\ op'.before = op.before
      /\ op'.at = op.at /\ op'.to = op.to /\ op'.val = op.val /\ op'.new = op.new /\ op'.todo = op.todo
      /\ \A q \in Paths : (InSrc(q)' <=> InSrc(q)) /\ Image(q)' = Image(q)
  BY <1>3 DEF SameEntry, SameCall, InSrc, Image
<1>8. op.kind \in Creating /\ op.at \in Paths /\ (op.kind # "move_dir" => op.at = op.src /\ op.to = op.dst)
  BY <1>1 DEF DataInv, CopyInv, IInv, CallInv
<1>9. op.kind \in Moving => Arrived(op.at)'
  <2> SUFFICES ASSUME op.kind \in Moving PROVE Arrived(op.at)'
    OBVIOUS
  <2>1. t = Image(op.at) /\ v = op.before[op.at] BY <1>1 DEF DataInv, CopyInv
  <2>2. ent'[t] = v BY DEF IInv, TypeOK
  <2>3. t = Image(op.at)' BY <1>7, <2>1 DEF Image
  <2>4. QED BY <1>7, <2>1, <2>2, <2>3 DEF Arrived
<1>10. op.kind \in Moving =>
         \A q \in Paths : InSrc(q) /\ op.before[q] # Absent => q \in op.todo \/ Arrived(q)'
  <2> SUFFICES ASSUME op.kind \in Moving, NEW q \in Paths, InSrc(q), op.before[q] # Absent,
                      q \notin op.todo
               PROVE  Arrived(q)'
    OBVIOUS
  <2>1. CASE q = op.at BY <1>7, <1>9, <2>1 DEF Arrived, Image
  <2>2. CASE q # op.at
    <3>1. Arrived(q) BY <1>1, <2>2 DEF DataInv, CopyInv
    <3>2. QED BY <1>6, <2>2, <3>1
  <2>3. QED BY <2>1, <2>2
<1>11. CASE op.kind = "append_file"
  <2>1. pc = "append" BY <1>2, <1>11 DEF AfterCopy
  <2>2. CopyInv'
    BY <1>1, <1>3, <1>7, <1>8, <1>11, <2>1 DEF DataInv, CopyInv, CopyPCs, Moving
  <2>3. RemoveInv' /\ DoneInv' BY <1>3, <2>1 DEF RemoveInv, DoneInv, RemovePCs
  <2>4. QED BY <1>6, <2>2, <2>3 DEF DataInv
<1>12. CASE op.kind = "move_file"
  <2>1. pc = "remove" BY <1>2, <1>12 DEF AfterCopy
  <2>2. op.todo = {} BY <1>1, <1>12 DEF DataInv, CopyInv, Moving
  <2>3. Copied' BY <1>7, <1>10, <1>12, <2>2 DEF Copied, Moving
  <2>4. RemoveInv' BY <1>3, <1>7, <1>8, <1>12, <2>1, <2>3 DEF RemoveInv
  <2>5. CopyInv' /\ DoneInv' BY <1>3, <2>1 DEF CopyInv, DoneInv, CopyPCs
  <2>6. QED BY <1>6, <2>4, <2>5 DEF DataInv
<1>13. CASE op.kind = "move_dir"
  <2>1. pc = "pick_copy" BY <1>2, <1>13 DEF AfterCopy
  <2>2. \A q \in op.todo : op.before[q] # Absent BY <1>1, <1>13 DEF DataInv, CopyInv, Moving
  <2>3. CopyInv'
    BY <1>3, <1>6, <1>7, <1>8, <1>10, <1>13, <2>1, <2>2 DEF CopyInv, CopyPCs, Moving
  <2>4. RemoveInv' /\ DoneInv' BY <1>3, <2>1 DEF RemoveInv, DoneInv, RemovePCs
  <2>5. QED BY <1>6, <2>3, <2>4 DEF DataInv
<1>14. CASE op.kind \notin {"append_file", "move_file", "move_dir"}
  <2>1. pc = "done" BY <1>2, <1>14 DEF AfterCopy
  <2>2. op.val = op.new BY <1>1, <1>14 DEF DataInv, CopyInv, Moving
  <2>3. ent'[op'.dst] = op'.new
    <3>1. ent'[t] = v BY DEF IInv, TypeOK
    <3>2. QED BY <1>7, <1>8, <1>14, <2>2, <3>1
  <2>4. op.kind \notin Moving \cup Removing BY <1>8, <1>14 DEF Moving, Removing, Creating
  <2>5. DoneInv' BY <1>7, <2>3, <2>4 DEF DoneInv
  <2>6. CopyInv' /\ RemoveInv' BY <1>3, <2>1 DEF CopyInv, RemoveInv, CopyPCs, RemovePCs
  <2>7. QED BY <1>6, <2>5, <2>6 DEF DataInv
<1>15. QED BY <1>11, <1>12, <1>13, <1>14

LEMMA MakeDirData == IInv /\ DataInv /\ IInv' /\ MakeDir => DataInv'
<1> SUFFICES ASSUME IInv, DataInv, IInv', MakeDir PROVE DataInv'
  OBVIOUS
<1>1. /\ op.pc = "create" /\ op.val = Dir /\ ent' = [ent EXCEPT ![op.to] = Dir]
      /\ UNCHANGED <<lower, wh, opq>>
      /\ op' = [op EXCEPT !.pc = "done", !.out = "refused"] \/ Goto(AfterCopy)
  BY DEF MakeDir
<1>2. PICK t \in Paths : t = op.to BY <1>1 DEF IInv, CallInv
<1>3. Dir \in Entry \ {Absent} /\ op \in Ops BY EntryAssumption DEF Entry, IInv, TypeOK
<1>4. CASE Goto(AfterCopy) BY <1>1, <1>2, <1>3, <1>4, EntryCopied
<1>5. CASE op' = [op EXCEPT !.pc = "done", !.out = "refused"]
  <2>1. op'.pc = "done" /\ op'.out = "refused" /\ SameEntry
    BY <1>1, <1>3, <1>5 DEF Ops, SameEntry, SameCall
  <2>2. Within BY <1>1, <2>1 DEF Within, SameEntry
  <2>3. Accounted(t, Dir) BY <1>1, <1>2, ValueAccounted DEF CopyPCs
  <2>4. ArgsInv' /\ LeftInv' /\ (op.kind \in Moving => Kept')
    BY <1>1, <1>2, <1>3, <2>2, <2>3, WriteData DEF CopyPCs
  <2>5. DoneInv' BY <2>1, <2>4 DEF DoneInv, SameEntry, SameCall
  <2>6. CopyInv' /\ RemoveInv' BY <2>1 DEF CopyInv, RemoveInv, CopyPCs, RemovePCs
  <2>7. QED BY <2>4, <2>5, <2>6 DEF DataInv
<1>6. QED BY <1>1, <1>4, <1>5

LEMMA MakeFileData == IInv /\ DataInv /\ IInv' /\ MakeFile => DataInv'
<1> SUFFICES ASSUME IInv, DataInv, IInv', MakeFile PROVE DataInv'
  OBVIOUS
<1>1. /\ op.pc = "create" /\ ent' = [ent EXCEPT ![op.to] = Empty] /\ UNCHANGED <<lower, wh, opq>>
      /\ Goto("write")
  BY DEF MakeFile
<1>2. PICK t \in Paths : t = op.to /\ AtOrBelow(op.dst, t) BY <1>1 DEF IInv, CallInv
<1>3. Empty \in Entry \ {Absent} /\ op \in Ops BY EntryAssumption DEF Entry, IInv, TypeOK
<1>4. SameEntry /\ op'.pc = "write" BY <1>1, <1>3, GotoTyped DEF PCs, CopyPCs
<1>5. Within BY <1>1, <1>4 DEF Within, SameEntry
<1>6. Accounted(t, Empty) BY <1>2 DEF Accounted
<1>7. /\ ArgsInv' /\ LeftInv'
      /\ op.kind \in Moving =>
           /\ Kept'
           /\ \A q \in Paths : InSrc(q) /\ q # op.at /\ Arrived(q) => Arrived(q)'
  BY <1>1, <1>2, <1>3, <1>5, <1>6, WriteData DEF CopyPCs
<1>8. /\ op'.kind = op.kind /\ op'.src = op.src /\ op'.dst = op.dst /\ op'.before = op.before
      /\ op'.at = op.at /\ op'.to = op.to /\ op'.val = op.val /\ op'.new = op.new /\ op'.todo = op.todo
      /\ Image(op.at)' = Image(op.at)
      /\ \A q \in Paths : InSrc(q)' <=> InSrc(q)
  BY <1>4 DEF SameEntry, SameCall, Image, InSrc
<1>9. CopyInv' BY <1>1, <1>4, <1>7, <1>8 DEF DataInv, CopyInv, CopyPCs
<1>10. RemoveInv' /\ DoneInv' BY <1>4 DEF RemoveInv, DoneInv, RemovePCs
<1>11. QED BY <1>7, <1>9, <1>10 DEF DataInv

LEMMA WriteFileData == IInv /\ DataInv /\ IInv' /\ WriteFile => DataInv'
<1> SUFFICES ASSUME IInv, DataInv, IInv', WriteFile PROVE DataInv'
  OBVIOUS
<1>1. /\ op.pc = "write" /\ ent' = [ent EXCEPT ![op.to] = op.val] /\ UNCHANGED <<lower, wh, opq>>
      /\ Goto(AfterCopy)
  BY DEF WriteFile
<1>2. PICK t \in Paths : t = op.to BY <1>1 DEF IInv, CallInv
<1>3. PICK v \in Data : v = op.val BY <1>1 DEF IInv, CallInv
<1>4. v \in Entry \ {Absent} BY EntryAssumption DEF Entry
<1>5. QED BY <1>1, <1>2, <1>3, <1>4, EntryCopied

LEMMA AppendUpperData == IInv /\ DataInv /\ IInv' /\ AppendUpper => DataInv'
<1> SUFFICES ASSUME IInv, DataInv, IInv', AppendUpper PROVE DataInv'
  OBVIOUS
<1>1. /\ op.pc = "append" /\ ent' = [ent EXCEPT ![op.to] = op.new] /\ UNCHANGED <<lower, wh, opq>>
      /\ Goto("done")
  BY DEF AppendUpper
<1>2. PICK t \in Paths : t = op.to BY <1>1 DEF IInv, CallInv
<1>3. op.kind = "append_file" /\ op.to = op.dst BY <1>1 DEF IInv, CallInv
<1>4. PICK v \in Data : v = op.new BY <1>1, <1>3 DEF IInv, CallInv
<1>5. v \in Entry \ {Absent} /\ op \in Ops BY EntryAssumption DEF Entry, IInv, TypeOK
<1>6. SameEntry /\ op'.pc = "done" BY <1>1, <1>5, GotoTyped DEF PCs
<1>7. Within BY <1>1, <1>6 DEF Within, SameEntry
<1>8. Accounted(t, v) BY <1>1, <1>2, <1>3, <1>4, ValueAccounted DEF CopyPCs
<1>9. ArgsInv' /\ LeftInv' BY <1>1, <1>2, <1>4, <1>5, <1>7, <1>8, WriteData DEF CopyPCs
<1>10. ent'[op'.dst] = op'.new
  <2>1. ent'[t] = v BY <1>1, <1>2, <1>4 DEF IInv, TypeOK
  <2>2. QED BY <1>2, <1>3, <1>4, <1>6, <2>1 DEF SameEntry, SameCall
<1>11. DoneInv' BY <1>3, <1>6, <1>10 DEF DoneInv, Moving, Removing, SameEntry, SameCall
<1>12. CopyInv' /\ RemoveInv' BY <1>6 DEF CopyInv, RemoveInv, CopyPCs, RemovePCs
<1>13. QED BY <1>9, <1>11, <1>12 DEF DataInv

\* A removal step is away from the destination of a move.
LEMMA RemoveData ==
  ASSUME IInv, DataInv, IInv', Within, op.pc \in RemovePCs, NEW t \in Paths, t = op.at, ChangesOnly(t),
         \A q \in Paths : ent'[q] \in {Absent, ent[q]},
         \A q \in Paths \ {t} : ent'[q] = ent[q]
  PROVE  ArgsInv' /\ LeftInv' /\ (op.kind \in Moving => Copied')
<1>0. op.pc # "idle" /\ op.pc # "done" BY DEF RemovePCs
<1>1. /\ op.dst \in Paths /\ InSrc(t) /\ op.kind \in Removing \cup Moving
  BY <1>0 DEF IInv, CallInv, InSrc
<1>2. ArgsInv' BY ArgsKept DEF DataInv
<1>3. op.kind \in Moving => ~AtOrBelow(op.dst, t) BY <1>0, <1>1, TreesApart DEF DataInv
<1>4. ASSUME op.kind \in Moving PROVE Copied'
  <2>1. Copied BY <1>4 DEF DataInv, RemoveInv
  <2>2. \A q \in Paths : AtOrBelow(op.dst, q) => q # t BY <1>3, <1>4
  <2>3. QED BY <2>1, <2>2, CopiedKept DEF DataInv
<1>5. ASSUME NEW q \in Paths, op.kind \in Creating, q = op.dst PROVE View(q)' = View(q)
  <2>1. op.kind \in Moving BY <1>1, <1>5 DEF Creating, Removing
  <2>2. PICK s \in Paths : s = op.src /\ ~AtOrBelow(s, q)
    BY <1>0, <1>5, <2>1 DEF DataInv, ArgsInv
  <2>3. ~AtOrBelow(t, q) BY <1>1, <2>2, AtOrBelowTrans DEF InSrc
  <2>4. QED BY <2>3, ViewKept
<1>6. LeftInv' BY <1>5, LeftKept DEF DataInv, IInv
<1>7. QED BY <1>2, <1>4, <1>6

\* The removal of an entry is complete.
LEMMA EntryRemoved ==
  ASSUME IInv, DataInv, IInv', op.pc \in {"remove", "mark"}, NEW t \in Paths, t = op.at, ChangesOnly(t),
         \A q \in Paths : ent'[q] \in {Absent, ent[q]},
         \A q \in Paths \ {t} : ent'[q] = ent[q],
         Resolve(t)' = Absent, lower' = lower, Goto(AfterRemove)
  PROVE  DataInv'
<1>1. op \in Ops /\ op.pc \in RemovePCs /\ op.pc # "idle" /\ op.pc # "done" /\ op.pc # "pick_remove"
  BY DEF IInv, TypeOK, RemovePCs
<1>2. PICK pc \in PCs : pc = AfterRemove BY AfterRemoveTyped DEF PCs
<1>3. SameEntry /\ op'.pc = pc BY <1>1, <1>2, GotoTyped
<1>4. Within BY <1>2, <1>3, AfterRemoveTyped DEF Within, SameEntry
<1>5. ArgsInv' /\ LeftInv' /\ (op.kind \in Moving => Copied') BY <1>1, <1>4, RemoveData
<1>6. /\ op'.kind = op.kind /\ op'.src = op.src /\ op'.at = op.at /\ op'.todo = op.todo
  BY <1>3 DEF SameEntry, SameCall
<1>7. op.kind \in Removing \cup Moving /\ (op.kind # "move_dir" => op.at = op.src)
  BY <1>1 DEF IInv, CallInv
<1>8. op.src \in op.todo \/ op.at = op.src BY <1>1 DEF DataInv, RemoveInv
<1>9. op.at = op.src => \A q \in Paths : q = op'.src => Resolve(q)' = Absent BY <1>6
<1>10. CASE op.kind = "move_dir"
  <2>1. pc = "pick_remove" BY <1>2, <1>10 DEF AfterRemove
  <2>2. RemoveInv' BY <1>3, <1>5, <1>6, <1>8, <1>9, <2>1 DEF RemoveInv
  <2>3. CopyInv' /\ DoneInv' BY <1>3, <2>1 DEF CopyInv, DoneInv, CopyPCs
  <2>4. QED BY <1>5, <2>2, <2>3 DEF DataInv
<1>11. CASE op.kind # "move_dir"
  <2>1. pc = "done" BY <1>2, <1>11 DEF AfterRemove
  <2>2. op.kind \in Creating => op.kind \in Moving BY <1>7 DEF Creating, Removing
  <2>3. op.kind \in Moving => ent'[op'.dst] = op'.new
    <3>1. op.kind \in Moving => ent[op.dst] = op.new
      BY <1>1, CopiedRoot DEF DataInv, RemoveInv
    <3>2. op.kind \in Moving => op.dst \in Paths /\ op.dst # t
      BY <1>1, <1>7, <1>11 DEF DataInv, ArgsInv, AtOrBelow
    <3>3. QED BY <1>3, <3>1, <3>2 DEF SameEntry, SameCall
  <2>4. DoneInv' BY <1>3, <1>5, <1>6, <1>7, <1>9, <1>11, <2>1, <2>2, <2>3 DEF DoneInv
  <2>5. CopyInv' /\ RemoveInv' BY <1>3, <2>1 DEF CopyInv, RemoveInv, CopyPCs, RemovePCs
  <2>6. QED BY <1>5, <2>4, <2>5 DEF DataInv
<1>12. QED BY <1>10, <1>11

LEMMA RemoveUpperData == IInv /\ DataInv /\ IInv' /\ RemoveUpper => DataInv'
<1> SUFFICES ASSUME IInv, DataInv, IInv', RemoveUpper PROVE DataInv'
  OBVIOUS
<1>1. /\ op.pc = "remove" /\ ent' = [ent EXCEPT ![op.at] = Absent] /\ UNCHANGED <<lower, wh, opq>>
      /\ Goto(IF InLower(op.at) THEN "mark_parents" ELSE AfterRemove)
  BY DEF RemoveUpper
<1>2. op \in Ops BY DEF IInv, TypeOK
<1>3. PICK t \in Paths : t = op.at BY <1>1 DEF IInv, CallInv
<1>4. ChangesOnly(t) BY <1>1, <1>3, EntryChange DEF IInv
<1>5. /\ ent'[t] = Absent
      /\ \A q \in Paths : ent'[q] \in {Absent, ent[q]}
      /\ \A q \in Paths \ {t} : ent'[q] = ent[q]
  BY <1>1, <1>3 DEF IInv, TypeOK
<1>6. CASE InLower(t)
  <2>1. Goto("mark_parents") BY <1>1, <1>3, <1>6
  <2>2. SameEntry /\ op'.pc = "mark_parents" BY <1>1, <1>2, <2>1, GotoTyped DEF PCs, RemovePCs
  <2>3. Within BY <1>1, <2>2 DEF Within, SameEntry
  <2>4. ArgsInv' /\ LeftInv' /\ (op.kind \in Moving => Copied')
    BY <1>1, <1>3, <1>4, <1>5, <2>3, RemoveData DEF RemovePCs
  <2>5. RemoveInv' BY <1>1, <2>2, <2>4 DEF DataInv, RemoveInv, RemovePCs, SameEntry, SameCall
  <2>6. CopyInv' /\ DoneInv' BY <2>2 DEF CopyInv, DoneInv, CopyPCs
  <2>7. QED BY <2>4, <2>5, <2>6 DEF DataInv
<1>7. CASE ~InLower(t)
  <2>1. Goto(AfterRemove) BY <1>1, <1>3, <1>7
  <2>2. LowerResolve(lower, t) = Absent BY <1>7 DEF LowerResolve, FoundIn, InLower
  <2>3. Resolve(t)' = Absent BY <1>1, <1>5, <2>2 DEF Resolve
  <2>4. QED BY <1>1, <1>3, <1>4, <1>5, <2>1, <2>3, EntryRemoved
<1>8. QED BY <1>6, <1>7

LEMMA CreateWhiteoutData == IInv /\ DataInv /\ IInv' /\ CreateWhiteout => DataInv'
<1> SUFFICES ASSUME IInv, DataInv, IInv', CreateWhiteout PROVE DataInv'
  OBVIOUS
<1>1. /\ op.pc = "mark" /\ wh' = wh \cup {op.at} /\ UNCHANGED <<lower, ent, opq>>
      /\ Goto(AfterRemove)
  BY DEF CreateWhiteout
<1>2. PICK t \in Paths : t = op.at BY <1>1 DEF IInv, CallInv
<1>3. ChangesOnly(t) BY <1>1, <1>2, MarkerChange DEF AtOrBelow
<1>4. Resolve(t)' = Absent BY <1>1, <1>2 DEF Resolve
<1>5. QED BY <1>1, <1>2, <1>3, <1>4, EntryRemoved

LEMMA SweepData == IInv /\ DataInv /\ IInv' /\ (SweepWhiteout \/ SweepOpaque) => DataInv'
<1> SUFFICES ASSUME IInv, DataInv, IInv', SweepWhiteout \/ SweepOpaque PROVE DataInv'
  OBVIOUS
<1>1. op.pc = "sweep" /\ UNCHANGED <<lower, ent, op>> BY DEF SweepWhiteout, SweepOpaque
<1>2. PICK t \in Paths : t = op.at BY <1>1 DEF IInv, CallInv
<1>3. Within BY <1>1 DEF Within, SameCall
<1>4. ChangesOnly(t) BY <1>2, SweepChanges
<1>5. ArgsInv' /\ LeftInv' /\ (op.kind \in Moving => Copied')
  BY <1>1, <1>2, <1>3, <1>4, RemoveData DEF RemovePCs
<1>6. RemoveInv' BY <1>1, <1>5 DEF DataInv, RemoveInv, RemovePCs
<1>7. CopyInv' /\ DoneInv' BY <1>1 DEF CopyInv, DoneInv, CopyPCs
<1>8. QED BY <1>5, <1>6, <1>7 DEF DataInv

LEMMA NextData == IInv /\ DataInv /\ [Next]_vars => DataInv'
<1> SUFFICES ASSUME IInv, DataInv, [Next]_vars PROVE DataInv'
  OBVIOUS
<1>0. IInv' BY NextInductive
<1>1. CASE Call BY <1>1, CallData
<1>2. CASE MakeParent \/ ParentsMade \/ RemoveWhiteout
  BY <1>0, <1>2, MakeParentData, ParentsMadeData, RemoveWhiteoutData
<1>3. CASE MakeDir \/ MakeFile \/ WriteFile \/ AppendUpper
  BY <1>0, <1>3, MakeDirData, MakeFileData, WriteFileData, AppendUpperData
<1>4. CASE RemoveUpper \/ CreateWhiteout
  BY <1>0, <1>4, RemoveUpperData, CreateWhiteoutData
<1>5. ASSUME NEW why \in Outcomes \ {"ok"}, op.pc \notin {"idle", "done"},
             op' = [op EXCEPT !.pc = "done", !.out = why], UNCHANGED <<lower, ent, wh, opq>>
      PROVE  DataInv'
  <2>1. op'.pc = "done" /\ op'.out = why /\ Within
    BY <1>5 DEF IInv, TypeOK, Ops, Within, SameCall
  <2>2. QED BY <1>0, <1>5, <2>1, StopData
<1>6. CASE RemoveRefused
  BY <1>5, <1>6 DEF RemoveRefused, Outcomes
<1>7. CASE PickCopy \/ CopyDone \/ PickRemove \/ MoveDone
  BY <1>0, <1>7, PickCopyData, CopyDoneData, PickRemoveData, MoveDoneData
<1>8. CASE SweepWhiteout \/ SweepOpaque \/ Swept
  BY <1>0, <1>8, SweepData, SweptData
<1>9. CASE Reply BY <1>9, ReplyData
<1>10. ASSUME NEW why \in {"io", "crash"}, Interrupt(why) PROVE DataInv'
  BY <1>5, <1>10 DEF Interrupt, Outcomes
<1>11. CASE UNCHANGED vars
  <2>1. UNCHANGED <<lower, ent, wh, opq>> /\ op' = op BY <1>11 DEF vars
  <2>2. CASE op.pc = "idle"
    BY <2>1, <2>2 DEF DataInv, ArgsInv, CopyInv, RemoveInv, DoneInv, LeftInv, CopyPCs, RemovePCs
  <2>3. CASE op.pc # "idle"
    <3>1. Within BY <2>1, <2>3 DEF Within, SameCall
    <3>2. /\ ArgsInv' /\ LeftInv' /\ (Kept => Kept') /\ (Copied => Copied')
          /\ \A q \in Paths : Arrived(q) => Arrived(q)'
      BY <1>0, <2>1, <3>1, Stay DEF IInv
    <3>3. /\ Image(op.at)' = Image(op.at)
          /\ \A q \in Paths : InSrc(q)' <=> InSrc(q)
          /\ NoParent(op.to)' = NoParent(op.to)
          /\ \A q \in Paths : Resolve(q)' = Resolve(q)
      BY <2>1, DiskKept DEF Image, InSrc, NoParent
    <3>4. CopyInv' BY <2>1, <3>2, <3>3 DEF DataInv, CopyInv
    <3>5. RemoveInv' BY <2>1, <3>2, <3>3 DEF DataInv, RemoveInv
    <3>6. DoneInv' BY <2>1, <3>2, <3>3 DEF DataInv, DoneInv
    <3>7. QED BY <3>2, <3>4, <3>5, <3>6 DEF DataInv
  <2>4. QED BY <2>2, <2>3
<1>12. QED
  BY <1>1, <1>2, <1>3, <1>4, <1>6, <1>7, <1>8, <1>9, <1>10, <1>11 DEF Next, Step

\* At every step of every call of layer.rs: what is to be copied is still there or
\* has arrived, and nothing is removed before it has.
THEOREM DataInvariance == Spec => []DataInv
  BY InitData, NextData, Invariance, PTL DEF Spec

\* Where the upper holds nothing, a path shows what the lowers hold or nothing.
LEMMA NotInUpper ==
  ASSUME NEW q \in Paths, ent[q] = Absent
  PROVE  View(q) \in {Absent, LowerResolve(lower, q)}
  BY DEF View, Resolve

\* A move, of a file or of a tree, never has the moved data in neither place, at
\* any step and however it is cut short: every file of the source is seen with its
\* content under the old name or under the new one.
THEOREM MovesLoseNothing == Spec => []MoveKeepsData
<1>1. IInv /\ DataInv => MoveKeepsData
  <2> SUFFICES ASSUME IInv, DataInv, op.kind \in Moving, NEW q \in Paths,
                      AtOrBelow(op.src, q), op.before[q] \in Data
               PROVE  View(q) = op.before[q] \/ View(Image(q)) = op.before[q]
    BY DEF MoveKeepsData
  <2>1. op.pc # "idle" BY DEF DataInv, ArgsInv, Moving
  <2>2. Kept \/ Copied
    BY <2>1 DEF DataInv, CopyInv, RemoveInv, DoneInv, IInv, TypeOK, Ops, PCs
  <2>3. CASE Kept BY <2>3 DEF Kept, InSrc
  <2>4. CASE Copied
    <3>1. op.before[q] # Absent BY EntryAssumption
    <3>2. PICK r \in Paths : r = Image(q) /\ ent[r] = op.before[q]
      BY <2>4, <3>1 DEF Copied, Arrived, InSrc
    <3>3. View(r) = ent[r] BY <3>1, <3>2, UpperSeen
    <3>4. QED BY <3>2, <3>3
  <2>5. QED BY <2>2, <2>3, <2>4
<1>2. QED BY <1>1, Invariance, DataInvariance, PTL

\* A call abandoned half way, by an error or by the death of the process, leaves at
\* every path what was there, what was asked for, the lowers' version or, where it
\* was writing, an empty file.
THEOREM AbandonedIsOldOrNew == Spec => []OldOrNew
<1>1. IInv /\ DataInv => OldOrNew
  <2> SUFFICES ASSUME IInv, DataInv, op.pc # "idle", NEW q \in Paths
               PROVE  \/ View(q) \in {op.before[q], Intended(q), LowerResolve(lower, q)}
                      \/ AtOrBelow(op.dst, q) /\ View(q) = Empty
    BY DEF OldOrNew
  <2>1. CASE ~Touched(q) BY <2>1 DEF IInv, Frame
  <2>2. CASE Touched(q) /\ ent[q] # Absent
    BY <2>2, UpperSeen DEF DataInv, LeftInv, Accounted
  <2>3. CASE Touched(q) /\ ent[q] = Absent /\ View(q) = Absent
    <3>1. op.kind \in Kinds BY DEF DataInv, ArgsInv
    <3>2. CASE op.kind \in Removing
      BY <2>3, <3>2, IntendedFacts DEF DataInv, Touched, Removing, Moving
    <3>3. CASE op.kind \in Moving /\ InSrc(q)
      BY <2>3, <3>3, IntendedFacts DEF DataInv
    <3>4. CASE op.kind \in Creating /\ AtOrBelow(op.dst, q)
      BY <2>3, <3>4 DEF DataInv, ArgsInv, LeftInv, AtOrBelow
    <3>5. QED BY <2>3, <3>1, <3>2, <3>3, <3>4 DEF Touched, InSrc, Kinds
  <2>4. CASE ent[q] = Absent /\ View(q) # Absent BY <2>4, NotInUpper
  <2>5. QED BY <2>1, <2>2, <2>3, <2>4
<1>2. QED BY <1>1, Invariance, DataInvariance, PTL

\* A call that returns Ok has done what it was asked, over the whole merged tree;
\* the directory create_dir and move_dir make may show what the lowers hold below it.
THEOREM OkMeansDone == Spec => []Result
<1>1. IInv /\ DataInv => Result
  <2> SUFFICES ASSUME IInv, DataInv, op.pc = "done", op.out = "ok", NEW q \in Paths
               PROVE  View(q) = Intended(q) \/ Uncovered(q)
    BY DEF Result
  <2>0. op.pc # "idle" /\ op.kind \in Kinds /\ op.src \in Paths /\ op.dst \in Paths
    BY DEF DataInv, ArgsInv
  <2>1. CASE ~Touched(q) BY <2>0, <2>1, IntendedFacts DEF DataInv, IInv, Frame
  <2>2. CASE op.kind \in Moving \cup Removing /\ InSrc(q)
    <3>1. Resolve(op.src) = Absent BY <2>0, <2>2 DEF DataInv, DoneInv
    <3>2. View(q) = Absent
      <4>1. CASE q = op.src BY <3>1, <4>1 DEF View
      <4>2. CASE Below(op.src, q)
        BY <2>0, <3>1, <4>2, NothingBelow, EntryAssumption DEF IInv
      <4>3. QED BY <2>2, <4>1, <4>2 DEF InSrc, AtOrBelow
    <3>3. Intended(q) = Absent
      <4>1. op.kind \in Removing => AtOrBelow(op.dst, q)
        BY <2>0, <2>2 DEF DataInv, ArgsInv, InSrc
      <4>2. QED BY <2>0, <2>2, <4>1, IntendedFacts DEF DataInv
    <3>4. QED BY <3>2, <3>3
  <2>3. CASE op.kind \in Creating /\ q = op.dst
    <3>1. ent[q] = op.new /\ op.new # Absent
      BY <2>0, <2>3, EntryAssumption DEF DataInv, DoneInv, ArgsInv
    <3>2. QED BY <2>0, <2>3, <3>1, UpperSeen, IntendedFacts DEF DataInv
  <2>4. CASE op.kind \in Creating /\ Below(op.dst, q)
    <3>1. CASE op.kind \notin {"create_dir", "move_dir"}
      <4>1. ent[op.dst] \in Data BY <2>0, <2>4, <3>1 DEF DataInv, DoneInv, ArgsInv
      <4>2. Resolve(op.dst) # Dir
        BY <2>0, <4>1, EntryAssumption DEF Resolve
      <4>3. View(q) = Absent BY <2>0, <2>4, <4>2, NothingBelow DEF IInv
      <4>4. QED BY <2>0, <2>4, <3>1, <4>3, IntendedFacts DEF DataInv
    <3>2. CASE op.kind \in {"create_dir", "move_dir"} /\ ent[q] = Absent
      <4>1. Intended(q) = Absent
        <5>1. CASE op.kind = "create_dir" BY <2>0, <2>4, <5>1, IntendedFacts DEF DataInv
        <5>2. CASE op.kind = "move_dir" /\ \A r \in Paths : InSrc(r) => Image(r) # q
          BY <2>0, <2>4, <5>2, IntendedFacts DEF DataInv
        <5>3. ASSUME op.kind = "move_dir", NEW r \in Paths, InSrc(r), Image(r) = q
              PROVE  Intended(q) = Absent
          <6>1. Copied BY <5>3 DEF DataInv, DoneInv, Moving
          <6>2. op.before[r] = Absent BY <3>2, <5>3, <6>1 DEF Copied, Arrived
          <6>3. QED BY <2>0, <2>4, <5>3, <6>2, IntendedFacts DEF DataInv
        <5>4. QED BY <3>2, <5>1, <5>2, <5>3
      <4>2. QED BY <2>4, <3>2, <4>1, NotInUpper DEF Uncovered
    <3>3. CASE ent[q] # Absent
      <4>1. PICK r \in Paths : op.kind = "move_dir" /\ InSrc(r) /\ Image(r) = q /\ op.before[r] # Absent
        BY <2>0, <2>4, <3>3 DEF DataInv, LeftInv, IsImage
      <4>2. Copied BY <4>1 DEF DataInv, DoneInv, Moving
      <4>3. ent[q] = op.before[r] BY <4>1, <4>2 DEF Copied, Arrived
      <4>4. Intended(q) = op.before[r] BY <2>0, <2>4, <4>1, IntendedFacts DEF DataInv
      <4>5. QED BY <3>3, <4>3, <4>4, UpperSeen
    <3>4. QED BY <3>1, <3>2, <3>3
  <2>5. QED BY <2>0, <2>1, <2>2, <2>3, <2>4 DEF Touched, InSrc, AtOrBelow, Kinds, DataInv, ArgsInv
<1>2. QED BY <1>1, Invariance, DataInvariance, PTL
=============================================================================
