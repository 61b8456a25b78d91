----------------------------- MODULE FuseFS_proofs -----------------------------
(***************************************************************************)
(* The adapter, for every namespace, every disk image and every bound.     *)
(*                                                                         *)
(* For every client: the two inode tables never contradict each other, and *)
(* lookup finds what the overlay shows, in the same layer.  As long as no  *)
(* directory is renamed: a request is carried out on its own name.         *)
(*                                                                         *)
(* TablesInv: a number in use is below next_ino, so that a fresh one is    *)
(* nobody's.  NameInv: the number the kernel holds for a path is the one   *)
(* the path is interned under.                                             *)
(***************************************************************************)
EXTENDS FuseFS, FiniteSetTheorems, SequenceTheorems, WellFoundedInduction, TLAPS

TablesInv ==
    /\ inodes \in [Inos -> Paths \cup {Root, None}]
    /\ paths \in [Paths -> Inos \cup {None}]
    /\ next_ino \in Nat /\ next_ino >= 2
    /\ \A p \in Paths : paths[p] # None => paths[p] < next_ino
    /\ TablesAgree

-----------------------------------------------------------------------------
(* The inode table.                                                          *)

\* A path that intern_path has not seen takes a number no path is interned
\* under; the others keep theirs.
LEMMA InternKeepsTables ==
    ASSUME NEW S \in SUBSET Paths, TablesInv, Intern(S)
    PROVE  TablesInv'
<1> DEFINE new == {p \in S : paths[p] = None}
           last == next_ino + Cardinality(new) - 1
<1>1. Cardinality(new) \in Nat
  BY FuseAssumption, FS_Subset, FS_CardinalityType
<1>2. /\ last <= MaxIno
      /\ next_ino' = last + 1
  BY DEF Intern
<1>3. PICK f \in [new -> next_ino..last] :
        /\ \A p, q \in new : f[p] = f[q] => p = q
        /\ paths' = [p \in Paths |-> IF p \in new THEN f[p] ELSE paths[p]]
        /\ inodes' = [i \in Inos |-> IF \E p \in new : f[p] = i
                                     THEN CHOOSE p \in new : f[p] = i ELSE inodes[i]]
  BY DEF Intern
<1>4. last \in Int /\ MaxIno \in Nat /\ next_ino \in Nat /\ next_ino >= 2
  BY <1>1, FuseAssumption DEF TablesInv
<1>5. \A p \in new : p \in Paths /\ f[p] \in Inos /\ f[p] >= next_ino /\ f[p] <= last
  BY <1>2, <1>3, <1>4 DEF Inos
<1>6. \A i \in Inos : (\E p \in new : f[p] = i) => (CHOOSE p \in new : f[p] = i) \in new
  OBVIOUS
<1>7. inodes' \in [Inos -> Paths \cup {Root, None}]
  BY <1>3, <1>5, <1>6 DEF TablesInv
<1>8. paths' \in [Paths -> Inos \cup {None}]
  BY <1>3, <1>5 DEF TablesInv
<1>9. next_ino' \in Nat /\ next_ino' >= 2 /\ next_ino' >= next_ino
  BY <1>1, <1>2, <1>4
<1>10. ASSUME NEW p \in Paths, paths'[p] # None
       PROVE  paths'[p] < next_ino' /\ inodes'[paths'[p]] = p
  <2>1. CASE p \in new
    <3>1. paths'[p] = f[p] /\ f[p] \in Inos /\ f[p] <= last
      BY <1>3, <1>5, <2>1
    <3>2. inodes'[f[p]] = CHOOSE q \in new : f[q] = f[p]
      BY <1>3, <2>1, <3>1
    <3>3. (CHOOSE q \in new : f[q] = f[p]) = p
      BY <1>3, <2>1
    <3> QED BY <3>1, <3>2, <3>3, <1>2, <1>4, <1>5, <2>1 DEF Inos
  <2>2. CASE p \notin new
    <3>1. paths'[p] = paths[p] /\ paths[p] # None
      BY <1>3, <1>10, <2>2
    <3>2. paths[p] \in Inos /\ paths[p] < next_ino /\ inodes[paths[p]] = p
      BY <3>1 DEF TablesInv, TablesAgree
    <3>3. ~\E q \in new : f[q] = paths[p]
      BY <1>4, <1>5, <3>2 DEF Inos
    <3>4. inodes'[paths[p]] = inodes[paths[p]]
      BY <1>3, <3>2, <3>3
    <3>5. paths[p] < next_ino'
      BY <3>2, <1>9, <1>4 DEF Inos
    <3> QED BY <3>1, <3>2, <3>4, <3>5
  <2> QED BY <2>1, <2>2
<1> QED BY <1>7, <1>8, <1>9, <1>10 DEF TablesInv, TablesAgree

\* unlink and rmdir drop a number from both tables.
LEMMA UnbindKeepsTables ==
    ASSUME NEW p \in Paths, TablesInv, Unbind(p)
    PROVE  TablesInv'
<1>1. inodes' \in [Inos -> Paths \cup {Root, None}]
  BY DEF TablesInv, Unbind
<1>2. paths' \in [Paths -> Inos \cup {None}]
  BY DEF TablesInv, Unbind
<1>3. next_ino' = next_ino
  BY DEF Unbind
<1>4. ASSUME NEW q \in Paths, paths'[q] # None
      PROVE  paths'[q] < next_ino' /\ inodes'[paths'[q]] = q
  <2>1. q # p /\ paths'[q] = paths[q]
    BY <1>4 DEF TablesInv, Unbind
  <2>2. paths[q] \in Inos /\ paths[q] < next_ino /\ inodes[paths[q]] = q
    BY <1>4, <2>1 DEF TablesInv, TablesAgree
  <2>3. paths[q] # paths[p]
    BY <1>4, <2>1 DEF TablesInv, TablesAgree
  <2>4. inodes'[paths[q]] = inodes[paths[q]]
    BY <2>2, <2>3 DEF Unbind
  <2> QED BY <2>1, <2>2, <2>4, <1>3
<1> QED BY <1>1, <1>2, <1>3, <1>4 DEF TablesInv, TablesAgree

\* rename moves a number from one path to the other; one the destination had
\* before is left in the forward table only.
LEMMA RebindKeepsTables ==
    ASSUME NEW s \in Paths, NEW d \in Paths, TablesInv, Rebind(s, d)
    PROVE  TablesInv'
<1>1. inodes' \in [Inos -> Paths \cup {Root, None}]
  BY DEF TablesInv, Rebind
<1>2. paths' \in [Paths -> Inos \cup {None}]
  BY DEF TablesInv, Rebind
<1>3. next_ino' = next_ino
  BY DEF Rebind
<1>4. ASSUME NEW q \in Paths, paths'[q] # None
      PROVE  paths'[q] < next_ino' /\ inodes'[paths'[q]] = q
  <2>1. CASE q = d /\ paths[s] # None
    <3>1. paths'[q] = paths[s] /\ paths[s] \in Inos /\ paths[s] < next_ino
      BY <2>1 DEF TablesInv, Rebind
    <3>2. inodes'[paths[s]] = d
      BY <3>1 DEF Rebind
    <3> QED BY <2>1, <3>1, <3>2, <1>3
  <2>2. CASE ~(q = d /\ paths[s] # None)
    <3>1. paths'[q] = paths[q]
      BY <1>4, <2>2 DEF TablesInv, Rebind
    <3>2. paths[q] \in Inos /\ paths[q] < next_ino /\ inodes[paths[q]] = q
      BY <1>4, <3>1 DEF TablesInv, TablesAgree
    <3>3. paths[q] # paths[s]
      BY <1>4, <2>2, <3>1 DEF TablesInv, TablesAgree, Rebind
    <3>4. inodes'[paths[q]] = inodes[paths[q]]
      BY <3>2, <3>3 DEF Rebind
    <3> QED BY <3>1, <3>2, <3>4, <1>3
  <2> QED BY <2>1, <2>2
<1> QED BY <1>1, <1>2, <1>3, <1>4 DEF TablesInv, TablesAgree

\* The handlers that deal with handles and layers leave the tables alone.
LEMMA SameTables ==
    ASSUME TablesInv, UNCHANGED tables
    PROVE  TablesInv'
BY DEF TablesInv, TablesAgree, tables

LEMMA InitTables == Init => TablesInv
<1> SUFFICES ASSUME Init PROVE TablesInv
  OBVIOUS
<1>1. /\ inodes = [i \in Inos |-> IF i = RootIno THEN Root ELSE None]
      /\ paths = [p \in Paths |-> None]
      /\ next_ino = RootIno + 1
  BY DEF Init
<1> QED BY <1>1 DEF TablesInv, TablesAgree, RootIno

\* One step of any handler, of a worker or of the kernel.
LEMMA NextTables ==
    ASSUME TablesInv, [Next]_vars
    PROVE  TablesInv'
<1>1. ASSUME NEW p \in Paths, lookup(p) PROVE TablesInv'
  <2>1. join(p) \in Paths
    BY <1>1 DEF lookup, Physical
  <2>2. PICK path \in Paths : path = join(p)
    BY <2>1
  <2>3. Intern({path}) /\ {path} \in SUBSET Paths
    BY <1>1, <2>2 DEF lookup
  <2> QED BY <2>3, InternKeepsTables
<1>2. ASSUME NEW i \in Inos, readdir(i) PROVE TablesInv'
  <2>1. PICK S \in SUBSET Paths : S = {q \in Paths : ChildOf(path_of(i), q) /\ Listed(q)}
    OBVIOUS
  <2>2. Intern(S)
    BY <1>2, <2>1 DEF readdir
  <2> QED BY <2>2, InternKeepsTables
<1>3. ASSUME NEW p \in Paths, mkdir(p) PROVE TablesInv'
  <2>1. PICK path \in Paths : path = join(p) /\ Intern({path})
    BY <1>3 DEF mkdir
  <2>2. {path} \in SUBSET Paths
    OBVIOUS
  <2> QED BY <2>1, <2>2, InternKeepsTables
<1>4. ASSUME NEW p \in Paths, NEW t \in BOOLEAN, create(p, t) PROVE TablesInv'
  <2>1. PICK path \in Paths : path = join(p) /\ Intern({path})
    BY <1>4 DEF create
  <2>2. {path} \in SUBSET Paths
    OBVIOUS
  <2> QED BY <2>1, <2>2, InternKeepsTables
<1>5. ASSUME NEW p \in Paths, rmdir(p) PROVE TablesInv'
  <2>1. PICK path \in Paths : path = join(p) /\ Unbind(path)
    BY <1>5 DEF rmdir
  <2> QED BY <2>1, UnbindKeepsTables
<1>6. ASSUME NEW p \in Paths, unlink(p) PROVE TablesInv'
  <2>1. PICK path \in Paths : path = join(p) /\ Unbind(path)
    BY <1>6 DEF unlink
  <2> QED BY <2>1, UnbindKeepsTables
<1>7. ASSUME NEW p \in Paths, NEW q \in Paths, rename(p, q) PROVE TablesInv'
  <2>1. PICK src \in Paths, dst \in Paths : src = join(p) /\ dst = join(q) /\ Rebind(src, dst)
    BY <1>7 DEF rename
  <2> QED BY <2>1, RebindKeepsTables
<1>8. ASSUME NEW p \in Paths,
             \/ Forget(p) \/ open_write(p) \/ open_shared(p) \/ open_passthrough(p)
             \/ open_streaming(p) \/ truncate(p) \/ setattr(p) \/ setxattr(p)
             \/ \E n \in 1..MaxLen : resize(p, n)
      PROVE  TablesInv'
  <2>1. UNCHANGED tables
    BY <1>8 DEF Forget, open_write, open_shared, open_passthrough, open_streaming, truncate,
                resize, setattr, setxattr, ensure_in_upper, tables
  <2> QED BY <2>1, SameTables
<1>9. ASSUME NEW fh \in Fhs,
             \/ release(fh) \/ fsync(fh)
             \/ \E off \in 0..(MaxLen - 1), b \in Byte : write(fh, off, b)
      PROVE  TablesInv'
  <2>1. UNCHANGED tables
    BY <1>9 DEF release, fsync, write, tables
  <2> QED BY <2>1, SameTables
<1>10. ASSUME NEW j \in jobs, RunWrite(j) PROVE TablesInv'
  <2>1. UNCHANGED tables
    BY <1>10 DEF RunWrite, tables
  <2> QED BY <2>1, SameTables
<1>11. CASE UNCHANGED vars
  BY <1>11, SameTables DEF vars, tables
<1> QED
  BY <1>1, <1>2, <1>3, <1>4, <1>5, <1>6, <1>7, <1>8, <1>9, <1>10, <1>11 DEF Next

\* The inode tables agree for ever: the number lookup, readdir, mkdir or create
\* hands out for a path is, as long as the path is interned under it, the
\* number of that path and no other, whatever is renamed onto it, unlinked
\* from it or made again.
THEOREM InodeTablesAgree == Spec => []TablesAgree
<1>1. TablesInv => TablesAgree
  BY DEF TablesInv
<1> QED BY <1>1, InitTables, NextTables, PTL DEF Spec

-----------------------------------------------------------------------------
(* Types of the layers.                                                      *)

LayersInv == lower \in Seq(Layer) /\ up \in Layer

\* Resolve, of values: what the upper L over the lowers ls shows at p.
Seen(L, ls, p) ==
    IF p \in L.wh THEN Absent
    ELSE IF L.ent[p] # Absent THEN L.ent[p]
    ELSE IF OpaqueAbove(L.opq, p) THEN Absent
    ELSE LowerResolve(ls, p)

LEMMA ResolveSeen == \A p : Resolve(p) = Seen(up, lower, p)
  BY DEF Resolve, Seen

LEMMA SomeEntries == Absent \in Entry /\ Dir \in Entry /\ Data \subseteq Entry /\ Empty \in Data /\ Absent \notin Data
  BY EntryAssumption DEF Entry

LEMMA LayerOf ==
  ASSUME NEW ls \in Seq(Layer), NEW i \in 1..Len(ls)
  PROVE  ls[i] \in Layer /\ ls[i].ent \in [Paths -> Entry]
<1>1. ls[i] \in Layer BY ElementOfSeq
<1>2. QED BY <1>1 DEF Layer

LEMMA SeenType ==
  ASSUME NEW L \in Layer, NEW ls \in Seq(Layer), NEW p \in Paths
  PROVE  LowerResolve(ls, p) \in Entry /\ Seen(L, ls, p) \in Entry
<1>1. LowerResolve(ls, p) \in Entry
  <2>1. CASE \E i \in 1..Len(ls) : FoundIn(ls, i, p)
    <3>1. PICK i \in 1..Len(ls) : LowerResolve(ls, p) = ls[i].ent[p] BY <2>1 DEF LowerResolve
    <3>2. QED BY <3>1, LayerOf
  <2>2. QED BY <2>1, SomeEntries DEF LowerResolve
<1>2. QED BY <1>1, SomeEntries DEF Seen, Layer

LEMMA PutLayer ==
  ASSUME NEW L \in Layer, NEW p \in Paths, NEW v \in Entry
  PROVE  /\ Put(L, p, v) \in Layer
         /\ Put(L, p, v).wh = L.wh \ {p} /\ Put(L, p, v).opq = L.opq
         /\ \A q \in Paths : Put(L, p, v).ent[q] = IF q = p THEN v ELSE IF Below(q, p) THEN Dir ELSE L.ent[q]
<1>1. PICK e : e = [q \in Paths |-> IF q = p THEN v ELSE IF Below(q, p) THEN Dir ELSE L.ent[q]] OBVIOUS
<1>2. e \in [Paths -> Entry] BY <1>1, SomeEntries DEF Layer
<1>3. Put(L, p, v) = [L EXCEPT !.ent = e, !.wh = L.wh \ {p}] BY <1>1 DEF Put
<1>4. Put(L, p, v) \in Layer /\ Put(L, p, v).ent = e /\ Put(L, p, v).wh = L.wh \ {p} /\ Put(L, p, v).opq = L.opq
  BY <1>2, <1>3 DEF Layer
<1>5. QED BY <1>1, <1>4

LEMMA DropLayer ==
  ASSUME NEW L \in Layer, NEW p \in Paths
  PROVE  /\ Drop(L, p) \in Layer /\ Drop(L, p).opq = L.opq
         /\ Drop(L, p).wh = IF InLower(p) THEN L.wh \cup {p} ELSE L.wh
         /\ \A q \in Paths : Drop(L, p).ent[q] = IF q = p THEN Absent ELSE IF InLower(p) /\ Below(q, p) THEN Dir ELSE L.ent[q]
<1>1. CASE InLower(p)
  <2>1. PICK e : e = [q \in Paths |-> IF q = p THEN Absent ELSE IF Below(q, p) THEN Dir ELSE L.ent[q]] OBVIOUS
  <2>2. e \in [Paths -> Entry] BY <2>1, SomeEntries DEF Layer
  <2>3. Drop(L, p) = [L EXCEPT !.ent = e, !.wh = L.wh \cup {p}] BY <1>1, <2>1 DEF Drop
  <2>4. Drop(L, p) \in Layer /\ Drop(L, p).ent = e /\ Drop(L, p).wh = L.wh \cup {p} /\ Drop(L, p).opq = L.opq
    BY <2>2, <2>3 DEF Layer
  <2>5. QED BY <1>1, <2>1, <2>4
<1>2. CASE ~InLower(p)
  <2>1. Drop(L, p) = [L EXCEPT !.ent[p] = Absent] BY <1>2 DEF Drop
  <2>2. QED BY <1>2, <2>1, SomeEntries DEF Layer
<1>3. QED BY <1>1, <1>2

LEMMA MoveTreeLayer ==
  ASSUME LayersInv, NEW s \in Paths, NEW d \in Paths
  PROVE  MoveTree(up, s, d) \in Layer /\ MoveTree(up, s, d).opq \subseteq up.opq
<1>1. PICK e : e = [q \in Paths |->
                  IF \E r \in Moves(s, d) : q = Image(s, d, r) /\ Resolve(r) # Absent
                  THEN Resolve(CHOOSE r \in Moves(s, d) : q = Image(s, d, r))
                  ELSE IF AtOrBelow(s, q) THEN Absent
                  ELSE IF Below(q, d) \/ (InLower(s) /\ Below(q, s)) THEN Dir
                  ELSE up.ent[q]]
  OBVIOUS
<1>2. \A p \in Paths : Resolve(p) \in Entry BY ResolveSeen, SeenType DEF LayersInv
<1>3. ASSUME NEW q \in Paths PROVE e[q] \in Entry
  <2>1. CASE \E r \in Moves(s, d) : q = Image(s, d, r) /\ Resolve(r) # Absent
    <3>1. PICK t \in Moves(s, d) : t = CHOOSE r \in Moves(s, d) : q = Image(s, d, r) BY <2>1
    <3>2. t \in Paths BY DEF Moves
    <3>3. e[q] = Resolve(t) BY <1>1, <2>1, <3>1
    <3>4. QED BY <1>2, <3>2, <3>3
  <2>2. CASE ~\E r \in Moves(s, d) : q = Image(s, d, r) /\ Resolve(r) # Absent
    BY <1>1, <2>2, SomeEntries DEF LayersInv, Layer
  <2>3. QED BY <2>1, <2>2
<1>4. e \in [Paths -> Entry] BY <1>1, <1>3
<1>5. PICK w, o : /\ w = ({q \in up.wh : ~Below(s, q)} \ {Image(s, d, r) : r \in {q \in Moves(s, d) : Resolve(q) # Absent}})
                           \cup (IF InLower(s) THEN {s} ELSE {})
                  /\ o = {q \in up.opq : ~AtOrBelow(s, q)}
  OBVIOUS
<1>6. w \subseteq Paths /\ o \subseteq up.opq /\ o \subseteq Paths \cup {Root} BY <1>5 DEF LayersInv, Layer
<1>7. MoveTree(up, s, d) = [ent |-> e, wh |-> w, opq |-> o] BY <1>1, <1>5 DEF MoveTree
<1>8. QED BY <1>4, <1>6, <1>7 DEF Layer

-----------------------------------------------------------------------------
(* Handles.                                                                  *)

OpenType == {h \in Handle : h.kind = "buffered" => h.data \in Data}

FilesInv ==
    /\ files \in [Fhs -> OpenType \cup {None}]
    /\ next_fh \in 1..(MaxFh + 1)
    /\ \A fh \in Fhs : fh >= next_fh => files[fh] = None
    /\ jobs \subseteq [fh : Fhs, off : 0..(MaxLen - 1), byte : Byte]
    /\ \A j \in jobs : files[j.fh] # None /\ files[j.fh].kind = "buffered"

LEMMA NotNone == None \notin OpenType /\ \A fh \in Fhs : fh # None
  BY NoneAssumption DEF OpenType, Fhs

LEMMA NewFhFiles ==
  ASSUME FilesInv, NEW h \in OpenType, NewFh(h)
  PROVE  /\ FilesInv' /\ next_fh \in Fhs /\ files[next_fh] = None /\ files'[next_fh] = h
         /\ \A fh \in Fhs : fh # next_fh => files'[fh] = files[fh]
<1>1. PICK n \in 1..(MaxFh + 1) : n = next_fh BY DEF FilesInv
<1>2. /\ n \in Fhs /\ files[n] = None /\ next_fh' = n + 1 /\ n + 1 \in 1..(MaxFh + 1)
  BY <1>1, FuseAssumption DEF NewFh, FilesInv, Fhs
<1>3. /\ files' = [files EXCEPT ![n] = h] /\ jobs' = jobs
  BY <1>1 DEF NewFh
<1>4. files' \in [Fhs -> OpenType \cup {None}] /\ files'[n] = h /\ \A fh \in Fhs : fh # n => files'[fh] = files[fh]
  BY <1>2, <1>3 DEF FilesInv
<1>5. \A fh \in Fhs : fh >= n + 1 => files'[fh] = None BY <1>1, <1>2, <1>4 DEF FilesInv, Fhs
<1>6. \A j \in jobs : files'[j.fh] # None /\ files'[j.fh].kind = "buffered"
  BY <1>2, <1>4 DEF FilesInv
<1>7. QED BY <1>1, <1>2, <1>3, <1>4, <1>5, <1>6 DEF FilesInv

\* A step that changes what handles hold, but opens and closes none.
LEMMA SameHandles ==
  ASSUME FilesInv, files' \in [Fhs -> OpenType \cup {None}], UNCHANGED <<next_fh>>,
         \A fh \in Fhs : /\ files'[fh] = None <=> files[fh] = None
                         /\ files[fh] # None => files'[fh].kind = files[fh].kind,
         jobs' \subseteq [fh : Fhs, off : 0..(MaxLen - 1), byte : Byte],
         \A j \in jobs' : j \in jobs \/ (files[j.fh] # None /\ files[j.fh].kind = "buffered")
  PROVE  FilesInv'
<1>1. \A j \in jobs' : files'[j.fh] # None /\ files'[j.fh].kind = "buffered" BY DEF FilesInv
<1>2. QED BY <1>1 DEF FilesInv

LEMMA ReleaseFiles ==
  ASSUME FilesInv, NEW fh \in Fhs, release(fh)
  PROVE  FilesInv' /\ files'[fh] = None /\ files[fh] # None /\ \A g \in Fhs : g # fh => files'[g] = files[g]
<1>1. /\ fh \in Open /\ ~Busy(fh) /\ files' = [files EXCEPT ![fh] = None]
      /\ UNCHANGED <<next_fh, jobs>>
  BY DEF release
<1>2. files[fh] # None BY <1>1 DEF Open
<1>3. files' \in [Fhs -> OpenType \cup {None}] /\ files'[fh] = None /\ \A g \in Fhs : g # fh => files'[g] = files[g]
  BY <1>1 DEF FilesInv
<1>4. \A j \in jobs : j.fh \in Fhs /\ j.fh # fh BY <1>1 DEF Busy, FilesInv
<1>5. QED BY <1>1, <1>2, <1>3, <1>4 DEF FilesInv

\* write() stays within the longest file.
LEMMA WrittenData ==
  ASSUME NEW x \in Data, NEW off \in 0..(MaxLen - 1), NEW b \in Byte
  PROVE  Written(x, off, b) \in Data
<1>1. PICK n \in 0..MaxLen : x \in [1..n -> Byte] BY FuseAssumption
<1>2. n \in Nat /\ MaxLen \in Nat BY FuseAssumption
<1>3. Len(x) = n BY <1>1, <1>2
<1>4. PICK m \in 0..MaxLen : m = IF off + 1 > n THEN off + 1 ELSE n BY <1>2
<1>5. Written(x, off, b) = [i \in 1..m |-> IF i = off + 1 THEN b ELSE IF i <= n THEN x[i] ELSE Zero]
  BY <1>3, <1>4 DEF Written
<1>6. \A i \in 1..m : (IF i = off + 1 THEN b ELSE IF i <= n THEN x[i] ELSE Zero) \in Byte
  BY <1>1, <1>2, <1>4, FuseAssumption
<1>7. Written(x, off, b) \in [1..m -> Byte] BY <1>5, <1>6
<1>8. QED BY <1>7, FuseAssumption

-----------------------------------------------------------------------------
(* physical_for.                                                             *)

LEMMA FirstHolder ==
  ASSUME NEW ls \in Seq(Layer), NEW p, NEW k \in 1..Len(ls), ls[k].ent[p] # Absent
  PROVE  \E i \in 1..Len(ls) : ls[i].ent[p] # Absent /\ \A j \in 1..(i - 1) : ls[j].ent[p] = Absent
<1>1. PICK n \in Nat : n = Len(ls) BY LenProperties
<1>2. PICK T : T = {i \in 1..n : ls[i].ent[p] # Absent} OBVIOUS
<1>3. T \subseteq Nat /\ T # {} BY <1>1, <1>2
<1>4. PICK i \in T : \A j \in T : ~(<<j, i>> \in OpToRel(<, Nat)) BY <1>3, NatLessThanWellFounded, WFMin
<1>5. \A j \in T : ~(j < i) BY <1>3, <1>4 DEF OpToRel
<1>6. i \in 1..n /\ ls[i].ent[p] # Absent BY <1>2
<1>7. \A j \in 1..(i - 1) : j \in 1..n /\ j < i BY <1>1, <1>6
<1>8. \A j \in 1..(i - 1) : ls[j].ent[p] = Absent BY <1>2, <1>5, <1>7
<1>9. QED BY <1>1, <1>6, <1>8

\* The walk stops at the first layer that holds the path.
LEMMA PhysicalFacts ==
  ASSUME LayersInv, NEW p \in Paths
  PROVE  /\ Physical(p) = None <=> p \in up.wh \/ (up.ent[p] = Absent /\ ~InLower(p))
         /\ p \notin up.wh /\ up.ent[p] # Absent => Physical(p) = 0
         /\ p \notin up.wh /\ up.ent[p] = Absent /\ InLower(p) =>
              \E i \in 1..Len(lower) : /\ Physical(p) = i /\ lower[i].ent[p] # Absent
                                       /\ \A j \in 1..(i - 1) : lower[j].ent[p] = Absent
<1>0. PICK n \in Nat : n = Len(lower) BY LenProperties DEF LayersInv
<1>1. CASE p \in up.wh \/ up.ent[p] # Absent \/ ~InLower(p) BY <1>1, NoneAssumption DEF Physical
<1>2. CASE p \notin up.wh /\ up.ent[p] = Absent /\ InLower(p)
  <2>1. PICK k \in 1..Len(lower) : lower[k].ent[p] # Absent BY <1>2 DEF InLower
  <2>2. \E i \in 1..Len(lower) : lower[i].ent[p] # Absent /\ \A j \in 1..(i - 1) : lower[j].ent[p] = Absent
    BY <2>1, FirstHolder DEF LayersInv
  <2>3. PICK i \in 1..Len(lower) : /\ Physical(p) = i /\ lower[i].ent[p] # Absent
                                   /\ \A j \in 1..(i - 1) : lower[j].ent[p] = Absent
    BY <1>2, <2>2 DEF Physical
  <2>4. i # None BY <1>0, <2>3, NoneAssumption
  <2>5. QED BY <1>2, <2>3, <2>4
<1>3. QED BY <1>1, <1>2

LEMMA PhysicalType ==
  ASSUME LayersInv, NEW p \in Paths
  PROVE  /\ PhysicalEntry(p) \in Entry
         /\ PhysicalEntry(p) = Absent <=> Physical(p) = None
         /\ Physical(p) = 0 => PhysicalEntry(p) = up.ent[p]
         /\ Physical(p) # None /\ Physical(p) # 0 => PhysicalEntry(p) = lower[Physical(p)].ent[p]
<1>0. PICK n \in Nat : n = Len(lower) BY LenProperties DEF LayersInv
<1>1. CASE p \in up.wh \/ (up.ent[p] = Absent /\ ~InLower(p))
  BY <1>1, PhysicalFacts, SomeEntries, NoneAssumption DEF PhysicalEntry
<1>2. CASE p \notin up.wh /\ up.ent[p] # Absent
  <2>1. Physical(p) = 0 /\ 0 # None BY <1>2, PhysicalFacts, NoneAssumption
  <2>2. QED BY <1>2, <2>1 DEF PhysicalEntry, LayersInv, Layer
<1>3. CASE p \notin up.wh /\ up.ent[p] = Absent /\ InLower(p)
  <2>1. PICK i \in 1..Len(lower) : Physical(p) = i /\ lower[i].ent[p] # Absent BY <1>3, PhysicalFacts
  <2>2. i # 0 /\ i # None BY <1>0, <2>1, NoneAssumption
  <2>3. PhysicalEntry(p) = lower[i].ent[p] BY <2>1, <2>2 DEF PhysicalEntry
  <2>4. lower[i].ent[p] \in Entry BY LayerOf DEF LayersInv
  <2>5. QED BY <2>1, <2>2, <2>3, <2>4
<1>4. QED BY <1>1, <1>2, <1>3

-----------------------------------------------------------------------------
(* The types, for every client.                                              *)

TypeInv ==
    /\ TablesInv /\ LayersInv /\ FilesInv
    /\ dentry \in [Paths -> Inos \cup {None}]

LEMMA InternStep ==
  ASSUME TypeInv, NEW p \in Paths, NEW x \in Paths, Intern({x}),
         dentry' = [dentry EXCEPT ![p] = paths'[x]], lower' = lower, up' \in Layer, FilesInv'
  PROVE  TypeInv'
<1>1. TablesInv' BY InternKeepsTables DEF TypeInv
<1>2. paths'[x] \in Inos \cup {None} BY <1>1 DEF TablesInv
<1>3. QED BY <1>1, <1>2 DEF TypeInv, LayersInv

LEMMA SameFiles ==
  ASSUME FilesInv, UNCHANGED <<files, next_fh, jobs>>
  PROVE  FilesInv'
  BY SameHandles DEF FilesInv

LEMMA FilesType ==
  ASSUME FilesInv, NEW fh \in Fhs, files[fh] # None
  PROVE  files[fh] \in OpenType /\ files[fh] \in Handle
  BY DEF FilesInv, OpenType

LEMMA WriteBackLayer ==
  ASSUME LayersInv, NEW h \in Handle, WriteBack(h)
  PROVE  up' \in Layer
<1>1. h.path \in Paths /\ h.data \in Entry BY DEF Handle
<1>2. Put(up, h.path, h.data) \in Layer BY <1>1, PutLayer DEF LayersInv
<1>3. QED BY <1>2 DEF WriteBack, LayersInv

LEMMA FrozenType ==
  ASSUME LayersInv, NEW h \in OpenType, NEW S, NEW n \in Paths \cup {None}
  PROVE  /\ [Frozen(h, S) EXCEPT !.name = n] \in OpenType
         /\ [Frozen(h, S) EXCEPT !.name = n].kind = h.kind
         /\ Frozen(h, S).name = h.name
<1>1. h \in Handle BY DEF OpenType
<1>2. h.path \in Paths BY <1>1 DEF Handle
<1>3. up.ent[h.path] \in Entry BY <1>2 DEF LayersInv, Layer
<1>4. Frozen(h, S) \in Handle /\ Frozen(h, S).kind = h.kind /\ Frozen(h, S).name = h.name
      /\ (h.kind = "buffered" => Frozen(h, S).data = h.data)
  BY <1>1, <1>3 DEF Frozen, Handle
<1>5. QED BY <1>4 DEF OpenType, Handle

LEMMA NamesTyped ==
  ASSUME TypeInv, NEW p \in Paths, lookup(p) \/ mkdir(p) \/ Forget(p)
  PROVE  TypeInv'
<1>1. CASE lookup(p)
  <2>1. PICK x \in Paths : x = join(p) /\ Intern({x}) /\ dentry' = [dentry EXCEPT ![p] = paths'[x]]
    BY <1>1 DEF lookup, Physical
  <2>2. lower' = lower /\ up' \in Layer /\ FilesInv' BY <1>1, SameFiles DEF lookup, TypeInv, LayersInv
  <2>3. QED BY <2>1, <2>2, InternStep
<1>2. CASE mkdir(p)
  <2>1. PICK x \in Paths : x = join(p) /\ Intern({x}) /\ dentry' = [dentry EXCEPT ![p] = paths'[x]] /\ up' = Put(up, x, Dir)
    BY <1>2 DEF mkdir
  <2>2. lower' = lower /\ FilesInv' BY <1>2, SameFiles DEF mkdir, TypeInv
  <2>3. up' \in Layer BY <2>1, PutLayer, SomeEntries DEF TypeInv, LayersInv
  <2>4. QED BY <2>1, <2>2, <2>3, InternStep
<1>3. CASE Forget(p)
  <2>1. /\ dentry' \in [Paths -> Inos \cup {None}] /\ UNCHANGED <<lower, up, inodes, paths, next_ino>>
        /\ UNCHANGED <<files, next_fh, jobs>>
    BY <1>3 DEF Forget, TypeInv
  <2>2. QED BY <2>1, SameFiles, SameTables DEF TypeInv, LayersInv, tables
<1>4. QED BY <1>1, <1>2, <1>3

LEMMA RmdirTyped == ASSUME TypeInv, NEW p \in Paths, rmdir(p) PROVE TypeInv'
<1>1. PICK x \in Paths : x = join(p) /\ Unbind(x) /\ up' = Drop(up, x) BY DEF rmdir
<1>2. up' \in Layer BY <1>1, DropLayer DEF TypeInv, LayersInv
<1>3. TablesInv' BY <1>1, UnbindKeepsTables DEF TypeInv
<1>4. lower' = lower /\ FilesInv' BY SameFiles DEF rmdir, TypeInv
<1>5. dentry' \in [Paths -> Inos \cup {None}] BY DEF rmdir, TypeInv
<1>6. QED BY <1>2, <1>3, <1>4, <1>5 DEF TypeInv, LayersInv

LEMMA UnlinkTyped == ASSUME TypeInv, NEW p \in Paths, unlink(p) PROVE TypeInv'
<1>1. PICK x \in Paths : x = join(p) /\ Unbind(x) /\ up' = Drop(up, x) BY DEF unlink
<1>2. up' \in Layer BY <1>1, DropLayer DEF TypeInv, LayersInv
<1>3. TablesInv' BY <1>1, UnbindKeepsTables DEF TypeInv
<1>4. /\ files' = [fh \in Fhs |-> IF files[fh] = None THEN None
                                  ELSE [Frozen(files[fh], {x}) EXCEPT !.name = IF @ = p THEN None ELSE @]]
      /\ UNCHANGED <<lower, next_fh, jobs>>
  BY <1>1 DEF unlink
<1>5. ASSUME NEW fh \in Fhs
      PROVE  /\ files'[fh] \in OpenType \cup {None} /\ (files'[fh] = None <=> files[fh] = None)
             /\ files[fh] # None => files'[fh].kind = files[fh].kind
  <2>1. CASE files[fh] = None BY <1>4, <2>1
  <2>2. CASE files[fh] # None
    <3>1. PICK h \in OpenType : h = files[fh] BY <2>2, FilesType DEF TypeInv
    <3>2. PICK n \in Paths \cup {None} : n = IF h.name = p THEN None ELSE h.name BY DEF OpenType, Handle
    <3>3. Frozen(h, {x}).name = h.name BY FrozenType DEF TypeInv
    <3>4. files'[fh] = [Frozen(h, {x}) EXCEPT !.name = n] BY <1>4, <2>2, <3>1, <3>2, <3>3
    <3>5. QED BY <2>2, <3>1, <3>4, FrozenType, NotNone DEF TypeInv
  <2>3. QED BY <2>1, <2>2
<1>6. files' \in [Fhs -> OpenType \cup {None}] BY <1>4, <1>5
<1>7. FilesInv' BY <1>4, <1>5, <1>6, SameHandles DEF TypeInv, FilesInv
<1>8. dentry' \in [Paths -> Inos \cup {None}] BY DEF unlink, TypeInv
<1>9. QED BY <1>2, <1>3, <1>4, <1>7, <1>8 DEF TypeInv, LayersInv

LEMMA RenameTyped == ASSUME TypeInv, NEW p \in Paths, NEW q \in Paths, rename(p, q) PROVE TypeInv'
<1>1. PICK s \in Paths, d \in Paths : s = join(p) /\ d = join(q) /\ Rebind(s, d) BY DEF rename
<1>2. TablesInv' BY <1>1, RebindKeepsTables DEF TypeInv
<1>3. up' \in Layer
  <2>1. up' = IF Resolve(s) = Dir THEN MoveTree(up, s, d) ELSE Drop(Put(up, d, Resolve(s)), s) BY <1>1 DEF rename
  <2>2. MoveTree(up, s, d) \in Layer BY MoveTreeLayer DEF TypeInv
  <2>3. PICK v \in Entry : v = Resolve(s) BY ResolveSeen, SeenType DEF TypeInv, LayersInv
  <2>4. PICK M \in Layer : M = Put(up, d, v) BY PutLayer DEF TypeInv, LayersInv
  <2>5. Drop(M, s) \in Layer BY DropLayer
  <2>6. QED BY <2>1, <2>2, <2>3, <2>4, <2>5
<1>4. /\ files' = [fh \in Fhs |-> IF files[fh] = None THEN None
                                  ELSE [Frozen(files[fh], Tree(s)) EXCEPT
                                          !.name = IF @ \in Moves(p, q) THEN Image(p, q, @) ELSE @]]
      /\ UNCHANGED <<lower, next_fh, jobs>>
  BY <1>1 DEF rename
<1>5. ASSUME NEW fh \in Fhs
      PROVE  /\ files'[fh] \in OpenType \cup {None} /\ (files'[fh] = None <=> files[fh] = None)
             /\ files[fh] # None => files'[fh].kind = files[fh].kind
  <2>1. CASE files[fh] = None BY <1>4, <2>1
  <2>2. CASE files[fh] # None
    <3>1. PICK h \in OpenType : h = files[fh] BY <2>2, FilesType DEF TypeInv
    <3>2. PICK n \in Paths \cup {None} : n = IF h.name \in Moves(p, q) THEN Image(p, q, h.name) ELSE h.name
      BY DEF OpenType, Handle, Moves
    <3>3. Frozen(h, Tree(s)).name = h.name BY FrozenType DEF TypeInv
    <3>4. files'[fh] = [Frozen(h, Tree(s)) EXCEPT !.name = n] BY <1>4, <2>2, <3>1, <3>2, <3>3
    <3>5. QED BY <2>2, <3>1, <3>4, FrozenType, NotNone DEF TypeInv
  <2>3. QED BY <2>1, <2>2
<1>6. files' \in [Fhs -> OpenType \cup {None}] BY <1>4, <1>5
<1>7. FilesInv' BY <1>4, <1>5, <1>6, SameHandles DEF TypeInv, FilesInv
<1>8. dentry' \in [Paths -> Inos \cup {None}]
  <2>1. dentry' = [r \in Paths |-> IF \E s2 \in Moves(p, q) : Image(p, q, s2) = r
                                   THEN dentry[CHOOSE s2 \in Moves(p, q) : Image(p, q, s2) = r]
                                   ELSE IF AtOrBelow(p, r) \/ AtOrBelow(q, r) THEN None ELSE dentry[r]]
    BY DEF rename
  <2>2. ASSUME NEW r \in Paths PROVE dentry'[r] \in Inos \cup {None}
    <3>1. CASE \E s2 \in Moves(p, q) : Image(p, q, s2) = r
      <4>1. PICK t \in Moves(p, q) : t = CHOOSE s2 \in Moves(p, q) : Image(p, q, s2) = r BY <3>1
      <4>2. t \in Paths /\ dentry'[r] = dentry[t] BY <2>1, <3>1, <4>1 DEF Moves
      <4>3. QED BY <4>2 DEF TypeInv
    <3>2. CASE ~\E s2 \in Moves(p, q) : Image(p, q, s2) = r BY <2>1, <3>2 DEF TypeInv
    <3>3. QED BY <3>1, <3>2
  <2>3. QED BY <2>1, <2>2
<1>9. QED BY <1>2, <1>3, <1>4, <1>7, <1>8 DEF TypeInv, LayersInv

\* A handle is opened.
LEMMA OpenTyped ==
  ASSUME TypeInv, NEW h \in OpenType, NewFh(h), UNCHANGED <<lower, up, inodes, paths, next_ino, dentry>>
  PROVE  TypeInv'
  BY NewFhFiles, SameTables DEF TypeInv, LayersInv, tables

LEMMA OpenWriteTyped == ASSUME TypeInv, NEW p \in Paths, open_write(p) PROVE TypeInv'
<1>1. PICK x \in Paths : x = path_of(dentry[p]) /\ Resolve(x) \in Data /\ NewFh(Buffered(x, p, Resolve(x)))
  BY DEF open_write
<1>2. PICK v \in Data : v = Resolve(x) BY <1>1
<1>3. PICK h : h = Buffered(x, p, v) OBVIOUS
<1>4. h \in OpenType BY <1>3, SomeEntries DEF Buffered, OpenFile, OpenType, Handle
<1>5. NewFh(h) BY <1>1, <1>2, <1>3
<1>6. QED BY <1>4, <1>5, OpenTyped DEF open_write

LEMMA OpenReadTyped ==
  ASSUME TypeInv, NEW p \in Paths, open_shared(p) \/ open_passthrough(p) \/ open_streaming(p) PROVE TypeInv'
<1>0. UNCHANGED <<lower, up, inodes, paths, next_ino, dentry>>
  BY DEF open_shared, open_passthrough, open_streaming
<1>1. CASE open_shared(p)
  <2>1. PICK fh \in Fhs : files[fh] # None /\ NewFh([files[fh] EXCEPT !.name = p])
    BY <1>1 DEF open_shared, Sharers, Open
  <2>2. PICK g \in OpenType : g = files[fh] BY <2>1, FilesType DEF TypeInv
  <2>3. PICK h : h = [g EXCEPT !.name = p] OBVIOUS
  <2>4. h \in OpenType BY <2>3 DEF OpenType, Handle
  <2>5. QED BY <1>0, <2>1, <2>2, <2>3, <2>4, OpenTyped
<1>2. CASE open_passthrough(p)
  <2>1. PICK x \in Paths : /\ x = path_of(dentry[p]) /\ Physical(x) # None /\ PhysicalEntry(x) \in Data
                           /\ NewFh(Source("passthrough", x, p, Physical(x), next_fh))
    BY <1>2 DEF open_passthrough, Physical
  <2>2. PICK i, n : i = Physical(x) /\ n = next_fh OBVIOUS
  <2>3. n \in Fhs BY <2>1, <2>2, FuseAssumption DEF NewFh, TypeInv, FilesInv, Fhs
  <2>4. i # 0 => lower[i].ent[x] \in Data BY <2>1, <2>2, PhysicalType DEF TypeInv
  <2>5. PICK v \in Data : v = IF i = 0 THEN Empty ELSE lower[i].ent[x] BY <2>4, SomeEntries
  <2>6. PICK h : h = OpenFile("passthrough", x, p, v, i = 0, n) OBVIOUS
  <2>7. h \in OpenType BY <2>3, <2>6, SomeEntries DEF OpenFile, OpenType, Handle
  <2>8. NewFh(h) BY <2>1, <2>2, <2>5, <2>6 DEF Source
  <2>9. QED BY <1>0, <2>7, <2>8, OpenTyped
<1>3. CASE open_streaming(p)
  <2>1. PICK x \in Paths : /\ x = path_of(dentry[p]) /\ Resolve(x) \in Data
                           /\ NewFh(OpenFile("streaming", x, p, Resolve(x), up.ent[x] # Absent, None))
    BY <1>3 DEF open_streaming
  <2>2. PICK v \in Data, l \in BOOLEAN : v = Resolve(x) /\ l = (up.ent[x] # Absent) BY <2>1
  <2>3. PICK h : h = OpenFile("streaming", x, p, v, l, None) OBVIOUS
  <2>4. h \in OpenType BY <2>3, SomeEntries DEF OpenFile, OpenType, Handle
  <2>5. NewFh(h) BY <2>1, <2>2, <2>3
  <2>6. QED BY <1>0, <2>4, <2>5, OpenTyped
<1>4. QED BY <1>1, <1>2, <1>3

LEMMA CreateTyped == ASSUME TypeInv, NEW p \in Paths, NEW t \in BOOLEAN, create(p, t) PROVE TypeInv'
<1>1. PICK x \in Paths : /\ x = join(p) /\ Intern({x}) /\ dentry' = [dentry EXCEPT ![p] = paths'[x]]
                         /\ NewFh(Buffered(x, p, Empty)) /\ lower' = lower
                         /\ up' = Put(up, x, Empty) \/ up' = up
  BY DEF create
<1>2. PICK h : h = Buffered(x, p, Empty) OBVIOUS
<1>3. h \in OpenType BY <1>2, SomeEntries DEF Buffered, OpenFile, OpenType, Handle
<1>4. FilesInv' BY <1>1, <1>2, <1>3, NewFhFiles DEF TypeInv
<1>5. up' \in Layer BY <1>1, PutLayer, SomeEntries DEF TypeInv, LayersInv
<1>6. QED BY <1>1, <1>4, <1>5, InternStep

LEMMA HandleOpsTyped ==
  ASSUME TypeInv, NEW fh \in Fhs,
         release(fh) \/ fsync(fh) \/ \E off \in 0..(MaxLen - 1), b \in Byte : write(fh, off, b)
  PROVE  TypeInv'
<1>1. UNCHANGED <<lower, inodes, paths, next_ino, dentry>> BY DEF release, fsync, write
<1>2. PICK h \in OpenType : h = files[fh] /\ h \in Handle BY FilesType DEF TypeInv, release, fsync, write, Open
<1>3. up' \in Layer
  <2>1. CASE release(fh) \/ fsync(fh) BY <1>2, <2>1, WriteBackLayer DEF release, fsync, TypeInv
  <2>2. CASE \E off \in 0..(MaxLen - 1), b \in Byte : write(fh, off, b) BY <2>2 DEF write, TypeInv, LayersInv
  <2>3. QED BY <2>1, <2>2
<1>4. FilesInv'
  <2>1. CASE release(fh) BY <2>1, ReleaseFiles DEF TypeInv
  <2>2. CASE fsync(fh)
    <3>1. PICK g : g = [h EXCEPT !.dirty = FALSE] OBVIOUS
    <3>2. g \in OpenType /\ g.kind = h.kind BY <3>1 DEF OpenType, Handle
    <3>3. files' = [files EXCEPT ![fh] = g] BY <1>2, <2>2, <3>1 DEF fsync
    <3>4. files[fh] # None /\ UNCHANGED <<next_fh, jobs>> BY <2>2 DEF fsync, Open
    <3>5. files' \in [Fhs -> OpenType \cup {None}] BY <3>2, <3>3 DEF TypeInv, FilesInv
    <3>6. QED BY <1>2, <3>2, <3>3, <3>4, <3>5, SameHandles, NotNone DEF TypeInv, FilesInv
  <2>3. CASE \E off \in 0..(MaxLen - 1), b \in Byte : write(fh, off, b)
    <3>1. PICK off \in 0..(MaxLen - 1), b \in Byte : write(fh, off, b) BY <2>3
    <3>2. PICK j \in [fh : Fhs, off : 0..(MaxLen - 1), byte : Byte] : j = [fh |-> fh, off |-> off, byte |-> b] OBVIOUS
    <3>3. jobs' = jobs \cup {j} /\ j.fh = fh BY <3>1, <3>2 DEF write
    <3>4. files[fh] # None /\ files[fh].kind = "buffered" /\ UNCHANGED <<files, next_fh>>
      BY <3>1 DEF write, Open
    <3>5. QED BY <3>3, <3>4, SameHandles DEF TypeInv, FilesInv
  <2>4. QED BY <2>1, <2>2, <2>3
<1>5. QED BY <1>1, <1>3, <1>4, SameTables DEF TypeInv, LayersInv, tables

\* A write lands in the handle it was sent to.
LEMMA RunWriteFiles ==
  ASSUME TypeInv, NEW j \in jobs, RunWrite(j)
  PROVE  /\ FilesInv' /\ j.fh \in Fhs /\ files[j.fh] # None /\ files[j.fh].kind = "buffered"
         /\ files[j.fh] \in OpenType /\ Written(files[j.fh].data, j.off, j.byte) \in Data
         /\ files'[j.fh] = [files[j.fh] EXCEPT !.data = Written(files[j.fh].data, j.off, j.byte), !.dirty = TRUE]
         /\ \A fh \in Fhs : fh # j.fh => files'[fh] = files[fh]
<1>1. j.fh \in Fhs /\ j.off \in 0..(MaxLen - 1) /\ j.byte \in Byte /\ files[j.fh] # None /\ files[j.fh].kind = "buffered"
  BY DEF TypeInv, FilesInv
<1>2. PICK h \in OpenType : h = files[j.fh] BY <1>1, FilesType DEF TypeInv
<1>3. h.kind = "buffered" /\ h.data \in Data BY <1>1, <1>2 DEF OpenType
<1>4. PICK d \in Data : d = Written(h.data, j.off, j.byte) BY <1>1, <1>3, WrittenData
<1>5. PICK g : g = [h EXCEPT !.data = d, !.dirty = TRUE] OBVIOUS
<1>6. g \in OpenType /\ g.kind = "buffered" BY <1>3, <1>5, SomeEntries DEF OpenType, Handle
<1>7. files' = [files EXCEPT ![j.fh] = g] BY <1>2, <1>4, <1>5 DEF RunWrite
<1>8. UNCHANGED <<next_fh>> /\ jobs' = jobs \ {j} BY DEF RunWrite
<1>9. files' \in [Fhs -> OpenType \cup {None}] /\ files'[j.fh] = g /\ \A fh \in Fhs : fh # j.fh => files'[fh] = files[fh]
  BY <1>1, <1>6, <1>7 DEF TypeInv, FilesInv
<1>10. FilesInv' BY <1>1, <1>6, <1>8, <1>9, SameHandles, NotNone DEF TypeInv, FilesInv
<1>11. QED BY <1>1, <1>2, <1>4, <1>5, <1>9, <1>10

LEMMA RunWriteTyped == ASSUME TypeInv, NEW j \in jobs, RunWrite(j) PROVE TypeInv'
<1>1. UNCHANGED <<lower, up, inodes, paths, next_ino, dentry>> BY DEF RunWrite
<1>2. QED BY <1>1, RunWriteFiles, SameTables DEF TypeInv, LayersInv, tables

LEMMA AttrTyped == ASSUME TypeInv, NEW p \in Paths, truncate(p) \/ setattr(p) \/ setxattr(p) PROVE TypeInv'
<1>1. /\ UNCHANGED <<lower, inodes, paths, next_ino, dentry>>
      /\ UNCHANGED <<files, next_fh, jobs>>
  BY DEF truncate, setattr, setxattr, ensure_in_upper
<1>2. PICK x \in Paths, v \in Entry : up' = Put(up, x, v)
  <2>1. CASE truncate(p) BY <2>1, SomeEntries DEF truncate
  <2>2. CASE setattr(p) \/ setxattr(p)
    <3>1. PICK x \in Paths : up' = Put(up, x, PhysicalEntry(x)) BY <2>2 DEF setattr, setxattr, ensure_in_upper
    <3>2. PhysicalEntry(x) \in Entry BY PhysicalType DEF TypeInv
    <3>3. QED BY <3>1, <3>2
  <2>3. QED BY <2>1, <2>2
<1>3. up' \in Layer BY <1>2, PutLayer DEF TypeInv, LayersInv
<1>4. QED BY <1>1, <1>3, SameFiles, SameTables DEF TypeInv, LayersInv, tables

LEMMA ResizeTyped == ASSUME TypeInv, NEW p \in Paths, NEW n \in 1..MaxLen, resize(p, n) PROVE TypeInv'
<1>1. UNCHANGED <<lower, up, inodes, paths, next_ino, files, next_fh, jobs, dentry>> BY DEF resize
<1>2. QED BY <1>1, SameFiles, SameTables DEF TypeInv, LayersInv, tables

LEMMA ReaddirTyped == ASSUME TypeInv, NEW i \in Inos, readdir(i) PROVE TypeInv'
<1>1. PICK S \in SUBSET Paths : S = {q \in Paths : ChildOf(path_of(i), q) /\ Listed(q)} OBVIOUS
<1>2. Intern(S) BY <1>1 DEF readdir
<1>3. UNCHANGED <<lower, up, dentry, files, next_fh, jobs>> BY DEF readdir
<1>4. QED BY <1>2, <1>3, InternKeepsTables, SameFiles DEF TypeInv, LayersInv

LEMMA InitTyped == Init => TypeInv
<1>1. SUFFICES ASSUME Init PROVE TypeInv OBVIOUS
<1>2. LayersInv BY <1>1, StacksAssumption DEF Init, LayersInv
<1>3. /\ files = [fh \in Fhs |-> None] /\ next_fh = 1 /\ jobs = {}
      /\ dentry = [p \in Paths |-> None]
  BY <1>1 DEF Init
<1>4. FilesInv BY <1>3, FuseAssumption DEF FilesInv
<1>5. QED BY <1>1, <1>2, <1>3, <1>4, InitTables DEF TypeInv

LEMMA NextTyped == ASSUME TypeInv, [Next]_vars PROVE TypeInv'
<1>1. ASSUME NEW p \in Paths,
             \/ lookup(p) \/ mkdir(p) \/ rmdir(p) \/ unlink(p) \/ Forget(p)
             \/ open_write(p) \/ open_shared(p) \/ open_passthrough(p) \/ open_streaming(p)
             \/ truncate(p) \/ setattr(p) \/ setxattr(p) \/ create(p, TRUE) \/ create(p, FALSE)
             \/ \E n \in 1..MaxLen : resize(p, n)
      PROVE  TypeInv'
  BY <1>1, NamesTyped, RmdirTyped, UnlinkTyped, OpenWriteTyped, OpenReadTyped, AttrTyped, ResizeTyped,
     CreateTyped
<1>2. ASSUME NEW p \in Paths, NEW q \in Paths, rename(p, q) PROVE TypeInv' BY <1>2, RenameTyped
<1>3. ASSUME NEW i \in Inos, readdir(i) PROVE TypeInv' BY <1>3, ReaddirTyped
<1>4. ASSUME NEW fh \in Fhs,
             release(fh) \/ fsync(fh) \/ \E off \in 0..(MaxLen - 1), b \in Byte : write(fh, off, b)
      PROVE  TypeInv'
  BY <1>4, HandleOpsTyped
<1>5. ASSUME NEW j \in jobs, RunWrite(j) PROVE TypeInv' BY <1>5, RunWriteTyped
<1>6. CASE UNCHANGED vars
  <2>1. UNCHANGED <<lower, up, inodes, paths, next_ino, files, next_fh, jobs, dentry>> BY <1>6 DEF vars
  <2>2. QED BY <2>1, SameFiles, SameTables DEF TypeInv, LayersInv, tables
<1>7. QED BY <1>1, <1>2, <1>3, <1>4, <1>5, <1>6 DEF Next

LEMMA Typed == Spec => []TypeInv
  BY InitTyped, NextTyped, PTL DEF Spec

-----------------------------------------------------------------------------
(* The walk of physical_for and the overlay's own.                           *)

\* The handlers never write an opaque marker, and leave the lowers alone.
LEMMA UpperMarkers == ASSUME TypeInv, [Next]_vars PROVE lower' = lower /\ up'.opq \subseteq up.opq
<1>0. LayersInv /\ up \in Layer BY DEF TypeInv, LayersInv
<1>1. ASSUME NEW x \in Paths, NEW v \in Entry, up' = Put(up, x, v) PROVE up'.opq \subseteq up.opq
  BY <1>0, <1>1, PutLayer
<1>2. ASSUME NEW x \in Paths, up' = Drop(up, x) PROVE up'.opq \subseteq up.opq BY <1>0, <1>2, DropLayer
<1>3. ASSUME NEW p \in Paths,
             \/ lookup(p) \/ Forget(p) \/ open_write(p) \/ open_shared(p) \/ open_passthrough(p) \/ open_streaming(p)
      PROVE  lower' = lower /\ up' = up
  BY <1>3 DEF lookup, Forget, open_write, open_shared, open_passthrough, open_streaming
<1>4. ASSUME NEW p \in Paths, mkdir(p) PROVE lower' = lower /\ up'.opq \subseteq up.opq
  BY <1>1, <1>4, SomeEntries DEF mkdir
<1>5. ASSUME NEW p \in Paths, rmdir(p) \/ unlink(p) PROVE lower' = lower /\ up'.opq \subseteq up.opq
  BY <1>2, <1>5 DEF rmdir, unlink
<1>6. ASSUME NEW p \in Paths, NEW t \in BOOLEAN, create(p, t) PROVE lower' = lower /\ up'.opq \subseteq up.opq
  <2>1. lower' = lower /\ (up' = up \/ \E x \in Paths : up' = Put(up, x, Empty)) BY <1>6 DEF create
  <2>2. QED BY <1>1, <2>1, SomeEntries
<1>7. ASSUME NEW p \in Paths, truncate(p) \/ setattr(p) \/ setxattr(p) PROVE lower' = lower /\ up'.opq \subseteq up.opq
  <2>1. lower' = lower /\ \E x \in Paths : up' = Put(up, x, Empty) \/ up' = Put(up, x, PhysicalEntry(x))
    BY <1>7 DEF truncate, setattr, setxattr, ensure_in_upper
  <2>2. QED BY <1>0, <1>1, <2>1, SomeEntries, PhysicalType
<1>8. ASSUME NEW p \in Paths, NEW q \in Paths, rename(p, q) PROVE lower' = lower /\ up'.opq \subseteq up.opq
  <2>1. PICK s \in Paths, d \in Paths : s = join(p) /\ d = join(q) BY <1>8 DEF rename
  <2>2. PICK v \in Entry : v = Resolve(s) BY <1>0, ResolveSeen, SeenType DEF LayersInv
  <2>3. PICK M \in Layer : M = Put(up, d, v) /\ M.opq = up.opq BY <1>0, PutLayer
  <2>4. lower' = lower /\ (up' = MoveTree(up, s, d) \/ up' = Drop(M, s)) BY <1>8, <2>1, <2>2, <2>3 DEF rename
  <2>5. MoveTree(up, s, d).opq \subseteq up.opq BY <1>0, MoveTreeLayer
  <2>6. Drop(M, s).opq = M.opq BY DropLayer
  <2>7. QED BY <2>3, <2>4, <2>5, <2>6
<1>9. ASSUME NEW fh \in Fhs, release(fh) \/ fsync(fh) PROVE lower' = lower /\ up'.opq \subseteq up.opq
  <2>1. PICK h \in Handle : h = files[fh] BY <1>9, FilesType DEF TypeInv, release, fsync, Open
  <2>2. lower' = lower /\ (up' = up \/ up' = Put(up, h.path, h.data)) BY <1>9, <2>1 DEF release, fsync, WriteBack
  <2>3. h.path \in Paths /\ h.data \in Entry BY DEF Handle
  <2>4. QED BY <1>1, <2>2, <2>3
<1>10. ASSUME NEW fh \in Fhs, NEW off \in 0..(MaxLen - 1), NEW b \in Byte, write(fh, off, b) PROVE lower' = lower /\ up' = up
  BY <1>10 DEF write
<1>11. ASSUME NEW j \in jobs, RunWrite(j) PROVE lower' = lower /\ up' = up BY <1>11 DEF RunWrite
<1>12. ASSUME NEW i \in Inos, readdir(i) PROVE lower' = lower /\ up' = up BY <1>12 DEF readdir
<1>13. ASSUME UNCHANGED vars PROVE lower' = lower /\ up' = up BY <1>13 DEF vars
<1>a. ASSUME NEW p \in Paths, NEW n \in 1..MaxLen, resize(p, n) PROVE lower' = lower /\ up' = up BY <1>a DEF resize
<1>14. QED BY <1>a, <1>3, <1>4, <1>5, <1>6, <1>7, <1>8, <1>9, <1>10, <1>11, <1>12, <1>13 DEF Next

\* Where the overlay finds a path in the lowers is the first one that holds it.
LEMMA FoundIsFirst ==
  ASSUME NEW ls \in Seq(Layer), NEW p, NEW k \in 1..Len(ls), FoundIn(ls, k, p),
         NEW i \in 1..Len(ls), ls[i].ent[p] # Absent, \A j \in 1..(i - 1) : ls[j].ent[p] = Absent
  PROVE  k = i
<1>1. PICK n \in Nat : n = Len(ls) BY LenProperties
<1>2. ~(k < i) BY <1>1 DEF FoundIn
<1>3. ~(i < k) BY <1>1 DEF FoundIn
<1>4. QED BY <1>1, <1>2, <1>3

\* A lower that holds the path is where the overlay finds it, or a marker hides it.
LEMMA FirstIsFound ==
  ASSUME NEW ls \in Seq(Layer), NEW p, NEW i \in 1..Len(ls), ls[i].ent[p] # Absent,
         \A j \in 1..(i - 1) : ls[j].ent[p] = Absent
  PROVE  \/ FoundIn(ls, i, p)
         \/ \E j \in 1..Len(ls) : p \in ls[j].wh \/ OpaqueAbove(ls[j].opq, p)
<1>1. PICK n \in Nat : n = Len(ls) BY LenProperties
<1>2. \A j \in 1..i : j \in 1..n BY <1>1
<1>3. \A j \in 1..(i - 1) : j \in 1..n BY <1>1
<1>4. QED BY <1>1, <1>2, <1>3 DEF FoundIn

LEMMA WalksAgree ==
  ASSUME LayersInv, NEW p \in Paths
  PROVE  IF Resolve(p) # Absent THEN PhysicalEntry(p) = Resolve(p)
         ELSE PhysicalEntry(p) = Absent \/ Unseen(p)
<1>0. PICK n \in Nat : n = Len(lower) BY LenProperties DEF LayersInv
<1>1. CASE p \in up.wh BY <1>1, PhysicalFacts, PhysicalType DEF Resolve
<1>2. CASE p \notin up.wh /\ up.ent[p] # Absent BY <1>2, PhysicalFacts, PhysicalType DEF Resolve
<1>3. CASE p \notin up.wh /\ up.ent[p] = Absent /\ ~InLower(p)
  <2>1. ~\E i \in 1..Len(lower) : FoundIn(lower, i, p) BY <1>3 DEF InLower, FoundIn
  <2>2. Resolve(p) = Absent BY <1>3, <2>1 DEF Resolve, LowerResolve
  <2>3. QED BY <1>3, <2>2, PhysicalFacts, PhysicalType
<1>4. CASE p \notin up.wh /\ up.ent[p] = Absent /\ InLower(p)
  <2>1. PICK i \in 1..Len(lower) : /\ Physical(p) = i /\ lower[i].ent[p] # Absent
                                   /\ \A j \in 1..(i - 1) : lower[j].ent[p] = Absent
    BY <1>4, PhysicalFacts
  <2>2. i # 0 /\ i # None BY <1>0, <2>1, NoneAssumption
  <2>3. PhysicalEntry(p) = lower[i].ent[p] BY <2>1, <2>2, PhysicalType
  <2>4. \A k \in 1..Len(lower) : FoundIn(lower, k, p) => k = i BY <2>1, FoundIsFirst DEF LayersInv
  <2>5. CASE Resolve(p) # Absent
    <3>1. Resolve(p) = LowerResolve(lower, p) BY <1>4, <2>5 DEF Resolve
    <3>2. PICK k \in 1..Len(lower) : FoundIn(lower, k, p) BY <2>5, <3>1 DEF LowerResolve
    <3>3. k = i BY <2>4, <3>2
    <3>4. LowerResolve(lower, p) = lower[i].ent[p] BY <2>4, <3>2, <3>3 DEF LowerResolve
    <3>5. QED BY <2>3, <2>5, <3>1, <3>4
  <2>6. CASE Resolve(p) = Absent
    <3>1. CASE OpaqueAbove(up.opq, p) BY <2>6, <3>1 DEF Unseen
    <3>2. CASE ~OpaqueAbove(up.opq, p)
      <4>1. LowerResolve(lower, p) = Absent BY <1>4, <2>6, <3>2 DEF Resolve
      <4>2. ~FoundIn(lower, i, p)
        <5>1. SUFFICES ASSUME FoundIn(lower, i, p) PROVE FALSE OBVIOUS
        <5>2. LowerResolve(lower, p) = lower[i].ent[p] BY <2>4, <5>1 DEF LowerResolve
        <5>3. QED BY <2>1, <4>1, <5>2
      <4>3. \E j \in 1..Len(lower) : p \in lower[j].wh \/ OpaqueAbove(lower[j].opq, p)
        BY <2>1, <4>2, FirstIsFound DEF LayersInv
      <4>4. QED BY <2>6, <4>3 DEF Unseen
    <3>3. QED BY <3>1, <3>2
  <2>7. QED BY <2>5, <2>6
<1>5. QED BY <1>1, <1>2, <1>3, <1>4

\* physical_for against the overlay's resolve, over every stack, markers of the
\* lowers and opaque ones included, and whatever clients do: lookup, getattr and
\* read-only opens find all that readdir lists, in the layer it is read from, and
\* what they find beyond that a whiteout of a lower or an opaque marker hides.
THEOREM LookupSeesOverlay == Spec => []LookupMatches
<1>1. TypeInv => LookupMatches BY WalksAgree DEF TypeInv, LookupMatches
<1>2. QED BY Typed, <1>1, PTL

-----------------------------------------------------------------------------
(* Names, as long as no directory is renamed.                                *)

KindInv == OneKind(up) /\ \A i \in 1..Len(lower) : OneKind(lower[i])

\* A handle is a file's, only a Buffered one has anything to write back, and
\* only the others share a backing file.
FileHandles ==
    \A fh \in Fhs : files[fh] # None => /\ files[fh].path \notin DirPaths
                                        /\ files[fh].kind # "buffered" => ~files[fh].dirty
                                        /\ files[fh].kind = "buffered" => files[fh].ref = None

\* The number the kernel holds for a path is the one the path is interned under.
KernelInv ==
    /\ inodes[RootIno] = Root
    /\ \A p \in Paths : dentry[p] # None => dentry[p] = paths[p]

NameInv == TypeInv /\ KindInv /\ FileHandles /\ KernelInv

LEMMA PathFacts ==
  ASSUME NEW p \in Paths
  PROVE  /\ p \in Seq(Names) /\ Len(p) \in Nat /\ Len(p) >= 1 /\ p # Root
         /\ Parent(p) = Root \/ Parent(p) \in Paths
         /\ Append(Parent(p), p[Len(p)]) = p
<1>1. p \in Seq(Names) /\ p # << >> /\ Len(p) \in Nat BY PathsAssumption, LenProperties DEF Root
<1>2. Len(p) >= 1 BY <1>1, EmptySeq
<1>3. PICK n \in Nat : n = Len(p) - 1 BY <1>1, <1>2
<1>4. Parent(p) = SubSeq(p, 1, n) BY <1>3 DEF Parent
<1>5. CASE n = 0
  <2>1. SubSeq(p, 1, 0) = << >> BY <1>1
  <2>2. QED BY <1>1, <1>2, <1>3, <1>4, <1>5, <2>1 DEF Root
<1>6. CASE n >= 1
  <2>1. n \in 1..Len(p) BY <1>1, <1>3, <1>6
  <2>2. Parent(p) \in Paths BY <1>4, <2>1, PathsAssumption
  <2>3. QED BY <1>1, <1>2, <1>3, <1>4, <2>2 DEF Root
<1>7. QED BY <1>3, <1>5, <1>6

\* A file has nothing below it.
LEMMA Leaf ==
  ASSUME NEW p \in Paths, p \notin DirPaths
  PROVE  \A r \in Paths : ~Below(p, r) /\ (AtOrBelow(p, r) <=> r = p)
  BY KindAssumption DEF Anc, AtOrBelow

LEMMA LeafMoves ==
  ASSUME NEW p \in Paths, p \notin DirPaths, NEW q \in Paths
  PROVE  Moves(p, q) = {p} /\ Image(p, q, p) = q
<1>1. p \in Seq(Names) /\ q \in Seq(Names) /\ Len(p) \in Nat BY PathFacts
<1>2. SubSeq(p, Len(p) + 1, Len(p)) = << >> BY <1>1
<1>3. q \o << >> = q BY <1>1, ConcatEmptySeq
<1>4. Image(p, q, p) = q BY <1>2, <1>3 DEF Image
<1>5. QED BY <1>4, Leaf DEF Moves

\* What the adapter joins is what the kernel means.
LEMMA JoinIsPath ==
  ASSUME TypeInv, KernelInv, NEW p \in Paths
  PROVE  /\ join(p) = p \/ join(p) = None
         /\ path_of(dentry[p]) = (IF dentry[p] = None THEN None ELSE p)
         /\ join(p) = p => Parent(p) = Root \/ (Parent(p) \in Paths /\ dentry[Parent(p)] # None)
<1>1. /\ Parent(p) = Root \/ Parent(p) \in Paths
      /\ Append(Parent(p), p[Len(p)]) = p
  BY PathFacts
<1>2. \A q \in Paths : dentry[q] # None => inodes[dentry[q]] = q
  BY DEF KernelInv, TypeInv, TablesInv, TablesAgree
<1>3. RootIno # None /\ None # Root /\ None \notin Paths BY FuseAssumption DEF RootIno, Inos
<1>4. CASE Parent(p) = Root
  <2>1. path_of(ParentIno(p)) = Root BY <1>3, <1>4 DEF ParentIno, path_of, KernelInv
  <2>2. join(p) = p BY <1>1, <1>3, <1>4, <2>1 DEF join
  <2>3. QED BY <1>2, <1>4, <2>2 DEF path_of
<1>5. CASE Parent(p) # Root
  <2>1. path_of(ParentIno(p)) = IF dentry[Parent(p)] = None THEN None ELSE Parent(p)
    BY <1>1, <1>2, <1>5 DEF ParentIno, path_of
  <2>2. join(p) = IF dentry[Parent(p)] = None THEN None ELSE p BY <1>1, <1>3, <1>5, <2>1 DEF join
  <2>3. QED BY <1>1, <1>2, <1>3, <1>5, <2>2 DEF path_of
<1>6. QED BY <1>4, <1>5

LEMMA SeenKind ==
  ASSUME LayersInv, KindInv, NEW p \in Paths
  PROVE  /\ Resolve(p) \in Entry /\ (Resolve(p) # Absent => (Resolve(p) = Dir <=> p \in DirPaths))
         /\ PhysicalEntry(p) # Absent => (PhysicalEntry(p) = Dir <=> p \in DirPaths)
<1>1. ASSUME LowerResolve(lower, p) # Absent PROVE LowerResolve(lower, p) = Dir <=> p \in DirPaths
  <2>1. PICK i \in 1..Len(lower) : LowerResolve(lower, p) = lower[i].ent[p] BY <1>1 DEF LowerResolve
  <2>2. QED BY <1>1, <2>1 DEF KindInv, OneKind
<1>2. Resolve(p) # Absent => (Resolve(p) = Dir <=> p \in DirPaths) BY <1>1 DEF Resolve, KindInv, OneKind
<1>3. Resolve(p) \in Entry BY ResolveSeen, SeenType DEF LayersInv
<1>4. ASSUME PhysicalEntry(p) # Absent PROVE PhysicalEntry(p) = Dir <=> p \in DirPaths
  <2>1. CASE Physical(p) = 0 BY <1>4, <2>1, PhysicalType DEF KindInv, OneKind
  <2>2. CASE Physical(p) # 0
    <3>1. PICK i \in 1..Len(lower) : Physical(p) = i BY <1>4, <2>2, PhysicalFacts, PhysicalType
    <3>2. PhysicalEntry(p) = lower[i].ent[p] BY <1>4, <2>2, <3>1, PhysicalType
    <3>3. QED BY <1>4, <3>2 DEF KindInv, OneKind
  <2>3. QED BY <2>1, <2>2
<1>5. QED BY <1>2, <1>3, <1>4

\* What is put at a path is of the path's kind, and what it is put in are directories.
LEMMA PutKind ==
  ASSUME NEW L \in Layer, OneKind(L), NEW p \in Paths, NEW v \in Entry, v # Absent => (v = Dir <=> p \in DirPaths)
  PROVE  OneKind(Put(L, p, v))
  BY PutLayer, KindAssumption DEF OneKind, Anc

LEMMA DropKind ==
  ASSUME NEW L \in Layer, OneKind(L), NEW p \in Paths
  PROVE  OneKind(Drop(L, p))
<1>1. PICK M : M = Drop(L, p) OBVIOUS
<1>2. \A q \in Paths : M.ent[q] = IF q = p THEN Absent ELSE IF InLower(p) /\ Below(q, p) THEN Dir ELSE L.ent[q]
  BY <1>1, DropLayer
<1>3. OneKind(M) BY <1>2, KindAssumption DEF OneKind, Anc
<1>4. QED BY <1>1, <1>3

\* Every number that was handed out keeps its path; a new one is handed out
\* for each path that had none.
LEMMA InternFrame ==
  ASSUME NEW S \in SUBSET Paths, TablesInv, Intern(S)
  PROVE  /\ \A p \in Paths : paths[p] # None \/ p \notin S => paths'[p] = paths[p]
         /\ \A p \in S : paths'[p] # None
         /\ \A i \in Inos : i < next_ino => inodes'[i] = inodes[i]
         /\ next_ino' \in Nat /\ next_ino <= next_ino'
<1> DEFINE new == {p \in S : paths[p] = None}
           last == next_ino + Cardinality(new) - 1
<1>1. Cardinality(new) \in Nat BY FuseAssumption, FS_Subset, FS_CardinalityType
<1>2. last <= MaxIno /\ next_ino' = last + 1 BY DEF Intern
<1>3. PICK f \in [new -> next_ino..last] :
        /\ paths' = [p \in Paths |-> IF p \in new THEN f[p] ELSE paths[p]]
        /\ inodes' = [i \in Inos |-> IF \E p \in new : f[p] = i THEN CHOOSE p \in new : f[p] = i ELSE inodes[i]]
  BY DEF Intern
<1>4. last \in Int /\ next_ino \in Nat BY <1>1 DEF TablesInv
<1>5. \A p \in new : f[p] \in Nat /\ f[p] >= next_ino BY <1>3, <1>4
<1>6. \A p \in new : f[p] # None BY <1>5, NoneAssumption
<1>7. \A p \in Paths : paths[p] # None \/ p \notin S => paths'[p] = paths[p] BY <1>3
<1>8. \A p \in S : paths'[p] # None BY <1>3, <1>6
<1>9. ASSUME NEW i \in Inos, i < next_ino PROVE inodes'[i] = inodes[i]
  <2>1. ~\E p \in new : f[p] = i BY <1>4, <1>5, <1>9 DEF Inos
  <2>2. QED BY <1>3, <2>1
<1>10. QED BY <1>1, <1>2, <1>4, <1>7, <1>8, <1>9

\* The kernel learns the number of p, and of nothing else.
LEMMA InternKernel ==
  ASSUME TypeInv, KernelInv, NEW p \in Paths, Intern({p}), dentry' = [dentry EXCEPT ![p] = paths'[p]]
  PROVE  KernelInv'
<1>1. {p} \in SUBSET Paths OBVIOUS
<1>2. /\ \A q \in Paths : paths[q] # None \/ q \notin {p} => paths'[q] = paths[q]
      /\ \A i \in Inos : i < next_ino => inodes'[i] = inodes[i]
  BY <1>1, InternFrame DEF TypeInv
<1>3. RootIno \in Inos /\ RootIno < next_ino BY FuseAssumption DEF RootIno, Inos, TypeInv, TablesInv
<1>4. inodes'[RootIno] = Root BY <1>2, <1>3 DEF KernelInv
<1>5. ASSUME NEW q \in Paths, dentry'[q] # None PROVE dentry'[q] = paths'[q]
  <2>1. CASE q = p BY <2>1 DEF TypeInv
  <2>2. CASE q # p BY <1>2, <1>5, <2>2 DEF TypeInv, KernelInv
  <2>3. QED BY <2>1, <2>2
<1>6. QED BY <1>4, <1>5 DEF KernelInv

LEMMA UnbindKernel ==
  ASSUME TypeInv, KernelInv, NEW p \in Paths, Unbind(p),
         \A q \in Paths : dentry'[q] # None => q # p /\ dentry'[q] = dentry[q]
  PROVE  KernelInv'
<1>1. RootIno \in Inos /\ RootIno # paths[p]
  <2>1. RootIno \in Inos /\ RootIno # None BY FuseAssumption DEF RootIno, Inos
  <2>2. p # Root BY PathFacts
  <2>3. paths[p] # None => inodes[paths[p]] = p BY DEF TypeInv, TablesInv, TablesAgree
  <2>4. QED BY <2>1, <2>2, <2>3 DEF KernelInv
<1>2. inodes'[RootIno] = Root BY <1>1 DEF Unbind, KernelInv
<1>3. QED BY <1>2 DEF Unbind, KernelInv, TypeInv, TablesInv

\* rename, when no directory is renamed: a file goes from p to q.
LEMMA RenameShape ==
  ASSUME NameInv, ~DirRenames, NEW p \in Paths, NEW q \in Paths, rename(p, q)
  PROVE  /\ p \notin DirPaths /\ q \notin DirPaths /\ p # q
         /\ join(p) = p /\ join(q) = q /\ dentry[p] # None /\ dentry[q] = None
         /\ Resolve(p) \in Data /\ Resolve(q) = Absent /\ ParentIsDir(q)
         /\ up' = Drop(Put(up, q, Resolve(p)), p)
         /\ Rebind(p, q)
         /\ dentry' = [r \in Paths |-> IF r = q THEN dentry[p] ELSE IF r = p THEN None ELSE dentry[r]]
         /\ want' = [r \in Paths |-> IF r \in {p, q} /\ Writers({p}) # {} THEN None
                                     ELSE IF r = p THEN Told(p, Absent)[p]
                                     ELSE IF r = q THEN Told(q, want[p])[q] ELSE want[r]]
         /\ files' = [fh \in Fhs |-> IF files[fh] = None THEN None
                                     ELSE [Frozen(files[fh], {p}) EXCEPT !.name = IF @ \in {p} THEN q ELSE @]]
         /\ UNCHANGED <<lower, next_fh, cache, jobs, rewritten>>
<1>0. TypeInv /\ LayersInv /\ KindInv /\ KernelInv BY DEF NameInv, TypeInv
<1>1. join(p) = p /\ join(q) = q
  <2>1. join(p) \in Paths /\ join(q) \in Paths BY DEF rename
  <2>2. QED BY <1>0, <2>1, JoinIsPath, FuseAssumption
<1>2. Resolve(p) # Absent /\ Resolve(p) # Dir /\ Resolve(q) = Absent /\ ParentIsDir(q) BY <1>1 DEF rename, Exists
<1>3. p \notin DirPaths /\ Resolve(p) \in Data BY <1>0, <1>2, SeenKind DEF Entry
<1>4. q \notin DirPaths /\ dentry[p] # None /\ dentry[q] = None BY <1>3 DEF rename
<1>5. p # q BY DEF rename, AtOrBelow
<1>6. \A r \in Paths : (AtOrBelow(p, r) <=> r = p) /\ (AtOrBelow(q, r) <=> r = q) BY <1>3, <1>4, Leaf
<1>7. Moves(p, q) = {p} /\ Image(p, q, p) = q BY <1>3, LeafMoves
<1>8. Tree(p) = {p} BY <1>6 DEF Tree
<1>9. \A r : (\E s \in Moves(p, q) : Image(p, q, s) = r) <=> r = q BY <1>7
<1>10. (CHOOSE s \in Moves(p, q) : Image(p, q, s) = q) = p BY <1>7
<1>11. dentry' = [r \in Paths |-> IF r = q THEN dentry[p] ELSE IF r = p THEN None ELSE dentry[r]]
  <2>1. dentry' = [r \in Paths |-> IF \E s \in Moves(p, q) : Image(p, q, s) = r
                                   THEN dentry[CHOOSE s \in Moves(p, q) : Image(p, q, s) = r]
                                   ELSE IF AtOrBelow(p, r) \/ AtOrBelow(q, r) THEN None ELSE dentry[r]]
    BY DEF rename
  <2>2. QED BY <1>6, <1>9, <1>10, <2>1
<1>12. want' = [r \in Paths |-> IF r \in {p, q} /\ Writers({p}) # {} THEN None
                            ELSE IF r = p THEN Told(p, Absent)[p]
                            ELSE IF r = q THEN Told(q, want[p])[q] ELSE want[r]]
  <2>1. want' = [r \in Paths |->
                   IF Below(p, r) \/ Below(q, r) \/ (r \in {p, q} /\ Writers({p}) # {}) THEN None
                   ELSE IF r = p THEN Told(p, Absent)[p]
                   ELSE IF r = q THEN Told(q, want[p])[q] ELSE want[r]]
    BY DEF rename
  <2>2. \A r \in Paths : ~Below(p, r) /\ ~Below(q, r) BY <1>3, <1>4, Leaf
  <2>3. QED BY <2>1, <2>2
<1>13. files' = [fh \in Fhs |-> IF files[fh] = None THEN None
                                ELSE [Frozen(files[fh], {p}) EXCEPT !.name = IF @ \in {p} THEN q ELSE @]]
  <2>1. files' = [fh \in Fhs |-> IF files[fh] = None THEN None
                                 ELSE [Frozen(files[fh], {p}) EXCEPT !.name = IF @ \in {p} THEN Image(p, q, @) ELSE @]]
    BY <1>1, <1>7, <1>8 DEF rename
  <2>2. \A n : (IF n \in {p} THEN Image(p, q, n) ELSE n) = (IF n \in {p} THEN q ELSE n) BY <1>7
  <2>3. QED BY <2>1, <2>2
<1>14. /\ up' = Drop(Put(up, q, Resolve(p)), p)
       /\ Rebind(p, q)
       /\ UNCHANGED <<lower, next_fh, cache, jobs, rewritten>>
  BY <1>1, <1>2, <1>8 DEF rename
<1>15. QED BY <1>1, <1>2, <1>3, <1>4, <1>5, <1>11, <1>12, <1>13, <1>14

LEMMA SameKernel ==
  ASSUME KernelInv, UNCHANGED <<inodes, paths, dentry>>
  PROVE  KernelInv'
  BY DEF KernelInv

LEMMA SameKind ==
  ASSUME KindInv, UNCHANGED <<lower, up>>
  PROVE  KindInv'
  BY DEF KindInv, OneKind

LEMMA PutKindInv ==
  ASSUME TypeInv, KindInv, NEW p \in Paths, NEW v \in Entry, v # Absent => (v = Dir <=> p \in DirPaths),
         up' = Put(up, p, v), lower' = lower
  PROVE  KindInv'
<1>1. OneKind(Put(up, p, v)) BY PutKind DEF TypeInv, LayersInv, KindInv
<1>2. QED BY <1>1 DEF KindInv, OneKind

LEMMA DropKindInv ==
  ASSUME TypeInv, KindInv, NEW p \in Paths, up' = Drop(up, p), lower' = lower
  PROVE  KindInv'
<1>1. OneKind(Drop(up, p)) BY DropKind DEF TypeInv, LayersInv, KindInv
<1>2. QED BY <1>1 DEF KindInv, OneKind

\* A new handle, of a file.
LEMMA NewFhHandles ==
  ASSUME TypeInv, FileHandles, NEW h \in OpenType, NewFh(h), h.path \notin DirPaths,
         h.kind # "buffered" => ~h.dirty, h.kind = "buffered" => h.ref = None
  PROVE  FileHandles'
<1>1. PICK n : n = next_fh OBVIOUS
<1>2. files'[n] = h /\ \A fh \in Fhs : fh # n => files'[fh] = files[fh] BY <1>1, NewFhFiles DEF TypeInv
<1>3. QED BY <1>2 DEF FileHandles

\* Handles keep their path and their kind when names move.
LEMMA FrozenHandles ==
  ASSUME TypeInv, FileHandles, NEW S, NEW T, NEW m \in Paths \cup {None},
         files' = [fh \in Fhs |-> IF files[fh] = None THEN None
                                  ELSE [Frozen(files[fh], S) EXCEPT !.name = IF @ \in T THEN m ELSE @]]
  PROVE  FileHandles'
<1>1. ASSUME NEW fh \in Fhs, files'[fh] # None
      PROVE  /\ files'[fh].path \notin DirPaths /\ (files'[fh].kind # "buffered" => ~files'[fh].dirty)
             /\ files'[fh].kind = "buffered" => files'[fh].ref = None
  <2>1. files[fh] # None BY <1>1
  <2>2. PICK h \in Handle : h = files[fh] BY <2>1, FilesType DEF TypeInv
  <2>3. PICK g \in Handle : g = Frozen(h, S) /\ g.path = h.path /\ g.kind = h.kind /\ g.dirty = h.dirty /\ g.ref = h.ref
    <3>1. up.ent[h.path] \in Entry BY DEF Handle, TypeInv, LayersInv, Layer
    <3>2. CASE h.kind # "buffered" /\ h.live /\ h.path \in S
      <4>1. Frozen(h, S) = [h EXCEPT !.live = FALSE, !.data = up.ent[h.path]] BY <3>2 DEF Frozen
      <4>2. QED BY <3>1, <4>1 DEF Handle
    <3>3. CASE ~(h.kind # "buffered" /\ h.live /\ h.path \in S) BY <3>3 DEF Frozen
    <3>4. QED BY <3>2, <3>3
  <2>4. PICK n \in Paths \cup {None} : n = IF g.name \in T THEN m ELSE g.name BY DEF Handle
  <2>5. files'[fh] = [g EXCEPT !.name = n] BY <2>1, <2>2, <2>3, <2>4
  <2>6. files'[fh].path = h.path /\ files'[fh].kind = h.kind /\ files'[fh].dirty = h.dirty /\ files'[fh].ref = h.ref
    BY <2>3, <2>5 DEF Handle
  <2>7. QED BY <2>1, <2>2, <2>6 DEF FileHandles
<1>2. QED BY <1>1 DEF FileHandles

LEMMA NamesNamed == ASSUME NameInv, NEW p \in Paths, lookup(p) \/ mkdir(p) PROVE NameInv'
<1>0. TypeInv /\ KindInv /\ FileHandles /\ KernelInv /\ TypeInv' BY NamesTyped DEF NameInv
<1>1. join(p) = p
  <2>1. join(p) \in Paths BY DEF lookup, mkdir, Physical
  <2>2. QED BY <1>0, <2>1, JoinIsPath, FuseAssumption
<1>2. Intern({p}) /\ dentry' = [dentry EXCEPT ![p] = paths'[p]] /\ UNCHANGED <<lower, files>>
  BY <1>1 DEF lookup, mkdir
<1>3. KernelInv' BY <1>0, <1>2, InternKernel
<1>4. FileHandles' BY <1>0, <1>2 DEF FileHandles
<1>5. KindInv'
  <2>1. CASE lookup(p) BY <1>0, <2>1, SameKind DEF lookup
  <2>2. CASE mkdir(p) BY <1>0, <1>1, <1>2, <2>2, PutKindInv, SomeEntries DEF mkdir
  <2>3. QED BY <2>1, <2>2
<1>6. QED BY <1>0, <1>3, <1>4, <1>5 DEF NameInv

LEMMA ReaddirNamed == ASSUME NameInv, NEW i \in Inos, readdir(i) PROVE NameInv'
<1>0. TypeInv /\ KindInv /\ FileHandles /\ KernelInv /\ TypeInv' BY ReaddirTyped DEF NameInv
<1>1. PICK S \in SUBSET Paths : S = {q \in Paths : ChildOf(path_of(i), q) /\ Listed(q)} OBVIOUS
<1>2. Intern(S) /\ UNCHANGED <<lower, up, files, dentry>> BY <1>1 DEF readdir
<1>3. /\ \A q \in Paths : paths[q] # None \/ q \notin S => paths'[q] = paths[q]
      /\ \A k \in Inos : k < next_ino => inodes'[k] = inodes[k]
  BY <1>0, <1>2, InternFrame DEF TypeInv
<1>4. RootIno \in Inos /\ RootIno < next_ino BY <1>0, FuseAssumption DEF RootIno, Inos, TypeInv, TablesInv
<1>5. KernelInv' BY <1>0, <1>2, <1>3, <1>4 DEF KernelInv
<1>6. QED BY <1>0, <1>2, <1>5, SameKind DEF NameInv, FileHandles

LEMMA RemoveNamed == ASSUME NameInv, NEW p \in Paths, rmdir(p) \/ unlink(p) PROVE NameInv'
<1>0. TypeInv /\ KindInv /\ FileHandles /\ KernelInv /\ TypeInv' BY RmdirTyped, UnlinkTyped DEF NameInv
<1>1. join(p) = p
  <2>1. join(p) \in Paths BY DEF rmdir, unlink
  <2>2. QED BY <1>0, <2>1, JoinIsPath, FuseAssumption
<1>2. Unbind(p) /\ up' = Drop(up, p) /\ lower' = lower BY <1>1 DEF rmdir, unlink
<1>3. \A q \in Paths : dentry'[q] # None => q # p /\ dentry'[q] = dentry[q]
  BY <1>0 DEF rmdir, unlink, AtOrBelow, TypeInv
<1>4. KernelInv' BY <1>0, <1>2, <1>3, UnbindKernel
<1>5. KindInv' BY <1>0, <1>2, DropKindInv
<1>6. FileHandles'
  <2>1. CASE rmdir(p) BY <1>0, <2>1 DEF rmdir, FileHandles
  <2>2. CASE unlink(p)
    <3>1. files' = [fh \in Fhs |-> IF files[fh] = None THEN None
                                   ELSE [Frozen(files[fh], {p}) EXCEPT !.name = IF @ \in {p} THEN None ELSE @]]
      BY <1>1, <2>2 DEF unlink
    <3>2. QED BY <1>0, <3>1, FrozenHandles
  <2>3. QED BY <2>1, <2>2
<1>7. QED BY <1>0, <1>4, <1>5, <1>6 DEF NameInv

LEMMA ForgetNamed == ASSUME NameInv, NEW p \in Paths, Forget(p) PROVE NameInv'
<1>0. TypeInv /\ KindInv /\ FileHandles /\ KernelInv /\ TypeInv' BY NamesTyped DEF NameInv
<1>1. /\ UNCHANGED <<lower, up, files, inodes, paths>>
      /\ \A q \in Paths : dentry'[q] # None => dentry'[q] = dentry[q]
  BY DEF Forget
<1>2. QED BY <1>0, <1>1, SameKind DEF NameInv, FileHandles, KernelInv

LEMMA RenameNamed ==
  ASSUME NameInv, ~DirRenames, NEW p \in Paths, NEW q \in Paths, rename(p, q)
  PROVE  NameInv'
<1>0. TypeInv /\ KindInv /\ FileHandles /\ KernelInv /\ TypeInv' BY RenameTyped DEF NameInv
<1>1. /\ q \notin DirPaths /\ p # q /\ dentry[p] # None /\ dentry[q] = None
      /\ Resolve(p) \in Data /\ up' = Drop(Put(up, q, Resolve(p)), p)
      /\ Rebind(p, q) /\ lower' = lower
      /\ dentry' = [r \in Paths |-> IF r = q THEN dentry[p] ELSE IF r = p THEN None ELSE dentry[r]]
      /\ files' = [fh \in Fhs |-> IF files[fh] = None THEN None
                                  ELSE [Frozen(files[fh], {p}) EXCEPT !.name = IF @ \in {p} THEN q ELSE @]]
  BY RenameShape
<1>2. KernelInv'
  <2>1. dentry[p] = paths[p] /\ paths[p] # None BY <1>0, <1>1 DEF KernelInv
  <2>2. paths' = [paths EXCEPT ![p] = None, ![q] = paths[p]] BY <1>1, <2>1 DEF Rebind
  <2>3. paths \in [Paths -> Inos \cup {None}] BY <1>0 DEF TypeInv, TablesInv
  <2>4. \A r \in Paths : dentry'[r] # None => dentry'[r] = paths'[r] BY <1>0, <1>1, <2>1, <2>2, <2>3 DEF KernelInv
  <2>5. RootIno \in Inos /\ RootIno # paths[p]
    <3>1. RootIno \in Inos BY FuseAssumption DEF RootIno, Inos
    <3>2. p # Root BY PathFacts
    <3>3. inodes[paths[p]] = p BY <1>0, <2>1 DEF TypeInv, TablesInv, TablesAgree
    <3>4. QED BY <1>0, <3>1, <3>2, <3>3 DEF KernelInv
  <2>6. inodes'[RootIno] = Root BY <1>0, <1>1, <2>5 DEF Rebind, KernelInv
  <2>7. QED BY <2>4, <2>6 DEF KernelInv
<1>3. KindInv'
  <2>1. PICK v \in Data : v = Resolve(p) BY <1>1
  <2>2. PICK M : M = Put(up, q, v) OBVIOUS
  <2>3. M \in Layer /\ OneKind(M)
    BY <1>0, <1>1, <2>2, PutLayer, PutKind, SomeEntries, EntryAssumption DEF TypeInv, LayersInv, KindInv
  <2>4. OneKind(Drop(M, p)) BY <2>3, DropKind
  <2>5. up' = Drop(M, p) BY <1>1, <2>1, <2>2
  <2>6. QED BY <1>0, <1>1, <2>4, <2>5 DEF KindInv, OneKind
<1>4. FileHandles' BY <1>0, <1>1, FrozenHandles
<1>5. QED BY <1>0, <1>2, <1>3, <1>4 DEF NameInv

LEMMA WriteHandle ==
  ASSUME TypeInv, KernelInv, NEW p \in Paths, open_write(p)
  PROVE  /\ Resolve(p) \in Data /\ dentry[p] # None
         /\ \E h \in OpenType : /\ NewFh(h) /\ h.kind = "buffered" /\ h.name = p /\ h.path = p
                                /\ h.data = Resolve(p) /\ ~h.dirty /\ h.ref = None
<1>1. path_of(dentry[p]) = p /\ dentry[p] # None BY JoinIsPath, FuseAssumption DEF open_write
<1>2. PICK v \in Data : v = Resolve(p) BY <1>1 DEF open_write
<1>3. PICK h : h = Buffered(p, p, v) OBVIOUS
<1>4. h \in OpenType /\ h.kind = "buffered" /\ h.name = p /\ h.path = p /\ h.data = v /\ ~h.dirty /\ h.ref = None
  BY <1>3, SomeEntries DEF Buffered, OpenFile, OpenType, Handle
<1>5. NewFh(h) BY <1>1, <1>2, <1>3 DEF open_write
<1>6. QED BY <1>1, <1>2, <1>4, <1>5

\* A BackingId is shared: the handle reads what the one it shares it with reads.
LEMMA SharedHandle ==
  ASSUME TypeInv, NEW p \in Paths, open_shared(p)
  PROVE  /\ dentry[p] # None
         /\ \E h \in OpenType, fh \in Fhs :
              /\ NewFh(h) /\ files[fh] # None /\ files[fh].ref # None /\ files[fh].ref = cache[dentry[p]]
              /\ h.name = p /\ h.path = files[fh].path /\ h.kind = files[fh].kind /\ h.data = files[fh].data
              /\ h.dirty = files[fh].dirty /\ h.live = files[fh].live /\ h.ref = files[fh].ref
<1>1. PICK fh \in Fhs : /\ files[fh] # None /\ files[fh].ref # None /\ files[fh].ref = cache[dentry[p]]
                        /\ NewFh([files[fh] EXCEPT !.name = p])
  BY DEF open_shared, Sharers, Open
<1>2. PICK g \in OpenType : g = files[fh] BY <1>1, FilesType DEF TypeInv
<1>3. PICK h : h = [g EXCEPT !.name = p] OBVIOUS
<1>4. /\ h \in OpenType /\ h.name = p /\ h.path = g.path /\ h.kind = g.kind /\ h.data = g.data
      /\ h.dirty = g.dirty /\ h.live = g.live /\ h.ref = g.ref
  BY <1>3 DEF OpenType, Handle
<1>5. NewFh(h) BY <1>1, <1>2, <1>3
<1>6. dentry[p] # None BY DEF open_shared
<1>7. QED BY <1>1, <1>2, <1>4, <1>5, <1>6

\* The handle reads the physical file that the adapter's walk finds.
LEMMA PassthroughHandle ==
  ASSUME TypeInv, KernelInv, NEW p \in Paths, open_passthrough(p)
  PROVE  /\ PhysicalEntry(p) \in Data /\ dentry[p] # None
         /\ \E h \in OpenType : /\ NewFh(h) /\ h.kind # "buffered" /\ h.name = p /\ h.path = p /\ ~h.dirty /\ h.ref = next_fh
                                /\ h.live => up.ent[p] = PhysicalEntry(p)
                                /\ ~h.live => h.data = PhysicalEntry(p)
<1>0. LayersInv BY DEF TypeInv
<1>1. Physical(path_of(dentry[p])) # None /\ dentry[p] # None BY DEF open_passthrough
<1>2. path_of(dentry[p]) = p BY <1>1, JoinIsPath, FuseAssumption DEF Physical
<1>3. PICK i, n : i = Physical(p) /\ n = next_fh OBVIOUS
<1>4. i # None /\ PhysicalEntry(p) \in Data /\ NewFh(Source("passthrough", p, p, i, n)) BY <1>2, <1>3 DEF open_passthrough
<1>5. n \in Fhs BY <1>3, <1>4, FuseAssumption DEF NewFh, TypeInv, FilesInv, Fhs
<1>6. PICK v \in Data : v = IF i = 0 THEN Empty ELSE lower[i].ent[p] BY <1>0, <1>3, <1>4, PhysicalType, SomeEntries
<1>a. PICK l \in BOOLEAN : l = (i = 0) OBVIOUS
<1>7. PICK h : h = OpenFile("passthrough", p, p, v, l, n) /\ l = (i = 0) BY <1>a
<1>8. h \in OpenType /\ h.kind # "buffered" /\ h.name = p /\ h.path = p /\ h.data = v /\ ~h.dirty /\ h.live = l /\ h.ref = n
  BY <1>5, <1>7, SomeEntries DEF OpenFile, OpenType, Handle
<1>9. NewFh(h) BY <1>4, <1>6, <1>7 DEF Source
<1>10. CASE i = 0
  <2>1. up.ent[p] = PhysicalEntry(p) BY <1>0, <1>3, <1>10, PhysicalType
  <2>2. QED BY <1>1, <1>3, <1>4, <1>7, <1>8, <1>9, <1>10, <2>1
<1>11. CASE i # 0
  <2>1. v = PhysicalEntry(p) BY <1>0, <1>3, <1>4, <1>6, <1>11, PhysicalType
  <2>2. QED BY <1>1, <1>3, <1>4, <1>7, <1>8, <1>9, <1>11, <2>1
<1>12. QED BY <1>10, <1>11

\* The handle reads the file that the overlay resolves.
LEMMA StreamingHandle ==
  ASSUME TypeInv, KernelInv, NEW p \in Paths, open_streaming(p)
  PROVE  /\ Resolve(p) \in Data /\ dentry[p] # None
         /\ \E h \in OpenType : /\ NewFh(h) /\ h.kind # "buffered" /\ h.name = p /\ h.path = p /\ ~h.dirty /\ h.ref = None
                                /\ h.live => up.ent[p] = Resolve(p)
                                /\ ~h.live => h.data = Resolve(p)
<1>1. path_of(dentry[p]) = p /\ dentry[p] # None BY JoinIsPath, FuseAssumption DEF open_streaming
<1>2. PICK v \in Data, l \in BOOLEAN : v = Resolve(p) /\ l = (up.ent[p] # Absent) BY <1>1 DEF open_streaming
<1>3. PICK h : h = OpenFile("streaming", p, p, v, l, None) OBVIOUS
<1>4. h \in OpenType /\ h.kind # "buffered" /\ h.name = p /\ h.path = p /\ h.data = v /\ ~h.dirty /\ h.live = l /\ h.ref = None
  BY <1>3, SomeEntries DEF OpenFile, OpenType, Handle
<1>5. NewFh(h) BY <1>1, <1>2, <1>3 DEF open_streaming
<1>6. l => up.ent[p] = v BY <1>2, SomeEntries DEF Resolve
<1>7. QED BY <1>1, <1>2, <1>4, <1>5, <1>6

LEMMA OpenNamed ==
  ASSUME NameInv, NEW p \in Paths, open_write(p) \/ open_shared(p) \/ open_passthrough(p) \/ open_streaming(p)
  PROVE  NameInv'
<1>0. TypeInv /\ LayersInv /\ KindInv /\ FileHandles /\ KernelInv /\ TypeInv'
  BY OpenWriteTyped, OpenReadTyped DEF NameInv, TypeInv
<1>1. UNCHANGED <<lower, up, inodes, paths, dentry>> BY DEF open_write, open_shared, open_passthrough, open_streaming
<1>2. Dir \notin Data /\ Absent \notin Data BY EntryAssumption
<1>3. Resolve(p) \in Data \/ PhysicalEntry(p) \in Data => p \notin DirPaths BY <1>0, <1>2, SeenKind
<1>4. FileHandles'
  <2>1. CASE open_write(p)
    <3>1. PICK h \in OpenType : NewFh(h) /\ h.kind = "buffered" /\ h.path = p /\ h.ref = None BY <1>0, <2>1, WriteHandle
    <3>2. p \notin DirPaths BY <1>0, <1>3, <2>1, WriteHandle
    <3>3. QED BY <1>0, <3>1, <3>2, NewFhHandles
  <2>2. CASE open_shared(p)
    <3>1. PICK h \in OpenType, fh \in Fhs :
            /\ NewFh(h) /\ files[fh] # None /\ h.path = files[fh].path /\ h.kind = files[fh].kind
            /\ h.dirty = files[fh].dirty /\ h.ref = files[fh].ref
      BY <1>0, <2>2, SharedHandle
    <3>2. h.path \notin DirPaths /\ (h.kind # "buffered" => ~h.dirty) /\ (h.kind = "buffered" => h.ref = None)
      BY <1>0, <3>1 DEF FileHandles
    <3>3. QED BY <1>0, <3>1, <3>2, NewFhHandles
  <2>3. CASE open_passthrough(p)
    <3>1. PICK h \in OpenType : NewFh(h) /\ h.kind # "buffered" /\ h.path = p /\ ~h.dirty BY <1>0, <2>3, PassthroughHandle
    <3>2. p \notin DirPaths BY <1>0, <1>3, <2>3, PassthroughHandle
    <3>3. QED BY <1>0, <3>1, <3>2, NewFhHandles
  <2>4. CASE open_streaming(p)
    <3>1. PICK h \in OpenType : NewFh(h) /\ h.kind # "buffered" /\ h.path = p /\ ~h.dirty BY <1>0, <2>4, StreamingHandle
    <3>2. p \notin DirPaths BY <1>0, <1>3, <2>4, StreamingHandle
    <3>3. QED BY <1>0, <3>1, <3>2, NewFhHandles
  <2>5. QED BY <2>1, <2>2, <2>3, <2>4
<1>5. QED BY <1>0, <1>1, <1>4, SameKind, SameKernel DEF NameInv

LEMMA CreateNamed == ASSUME NameInv, NEW p \in Paths, NEW t \in BOOLEAN, create(p, t) PROVE NameInv'
<1>0. TypeInv /\ KindInv /\ FileHandles /\ KernelInv /\ TypeInv' BY CreateTyped DEF NameInv
<1>1. join(p) = p
  <2>1. join(p) \in Paths BY DEF create
  <2>2. QED BY <1>0, <2>1, JoinIsPath, FuseAssumption
<1>2. /\ p \notin DirPaths /\ Intern({p}) /\ dentry' = [dentry EXCEPT ![p] = paths'[p]] /\ lower' = lower
      /\ up' = Put(up, p, Empty) \/ up' = up
      /\ NewFh(Buffered(p, p, Empty))
  BY <1>1 DEF create
<1>3. KernelInv' BY <1>0, <1>2, InternKernel
<1>4. KindInv' BY <1>0, <1>2, PutKindInv, SameKind, SomeEntries, EntryAssumption
<1>5. FileHandles'
  <2>1. PICK h : h = Buffered(p, p, Empty) OBVIOUS
  <2>2. h \in OpenType /\ h.path = p /\ h.kind = "buffered" /\ h.ref = None BY <2>1, SomeEntries DEF Buffered, OpenFile, OpenType, Handle
  <2>3. QED BY <1>0, <1>2, <2>1, <2>2, NewFhHandles
<1>6. QED BY <1>0, <1>3, <1>4, <1>5 DEF NameInv

LEMMA AttrNamed == ASSUME NameInv, NEW p \in Paths, truncate(p) \/ setattr(p) \/ setxattr(p) PROVE NameInv'
<1>0. TypeInv /\ LayersInv /\ KindInv /\ FileHandles /\ KernelInv /\ TypeInv' BY AttrTyped DEF NameInv, TypeInv
<1>1. UNCHANGED <<lower, files, inodes, paths, dentry>> BY DEF truncate, setattr, setxattr, ensure_in_upper
<1>2. path_of(dentry[p]) \in {p, None} /\ None \notin Paths BY <1>0, JoinIsPath, FuseAssumption
<1>3. KindInv'
  <2>1. CASE truncate(p)
    <3>1. up' = Put(up, p, Empty) /\ p \notin DirPaths BY <1>2, <2>1 DEF truncate
    <3>2. QED BY <1>0, <1>1, <3>1, PutKindInv, SomeEntries, EntryAssumption
  <2>2. CASE setattr(p) \/ setxattr(p)
    <3>1. up' = Put(up, p, PhysicalEntry(p)) BY <1>2, <2>2 DEF setattr, setxattr, ensure_in_upper
    <3>2. PICK v \in Entry : v = PhysicalEntry(p) BY <1>0, PhysicalType
    <3>3. v # Absent => (v = Dir <=> p \in DirPaths) BY <1>0, <3>2, SeenKind
    <3>4. QED BY <1>0, <1>1, <3>1, <3>2, <3>3, PutKindInv
  <2>3. QED BY <2>1, <2>2
<1>4. QED BY <1>0, <1>1, <1>3, SameKernel DEF NameInv, FileHandles

LEMMA ResizeNamed == ASSUME NameInv, NEW p \in Paths, NEW n \in 1..MaxLen, resize(p, n) PROVE NameInv'
<1>1. UNCHANGED <<lower, up, inodes, paths, files, dentry>> BY DEF resize
<1>2. TypeInv' BY ResizeTyped DEF NameInv
<1>3. QED BY <1>1, <1>2, SameKind, SameKernel DEF NameInv, FileHandles

LEMMA WriteBackKind ==
  ASSUME NameInv, NEW fh \in Fhs, files[fh] # None, WriteBack(files[fh]), lower' = lower
  PROVE  KindInv'
<1>0. TypeInv /\ KindInv /\ FileHandles BY DEF NameInv
<1>1. PICK h \in OpenType : h = files[fh] BY <1>0, FilesType DEF TypeInv
<1>2. h.path \in Paths /\ h.data \in Entry BY DEF OpenType, Handle
<1>3. CASE h.dirty
  <2>1. h.data \in Data /\ h.path \notin DirPaths BY <1>0, <1>1, <1>3 DEF FileHandles, OpenType
  <2>2. up' = Put(up, h.path, h.data) \/ up' = up BY <1>1 DEF WriteBack
  <2>3. QED BY <1>0, <1>2, <2>1, <2>2, PutKindInv, SameKind, EntryAssumption
<1>4. CASE ~h.dirty BY <1>0, <1>1, <1>4, SameKind DEF WriteBack
<1>5. QED BY <1>3, <1>4

LEMMA HandleOpsNamed ==
  ASSUME NameInv, NEW fh \in Fhs,
         release(fh) \/ fsync(fh) \/ \E off \in 0..(MaxLen - 1), b \in Byte : write(fh, off, b)
  PROVE  NameInv'
<1>0. TypeInv /\ KindInv /\ FileHandles /\ KernelInv /\ TypeInv' BY HandleOpsTyped DEF NameInv
<1>1. UNCHANGED <<lower, inodes, paths, dentry>> /\ files[fh] # None BY DEF release, fsync, write, Open
<1>2. KindInv'
  <2>1. CASE release(fh) \/ fsync(fh) BY <1>1, <2>1, WriteBackKind DEF release, fsync
  <2>2. CASE \E off \in 0..(MaxLen - 1), b \in Byte : write(fh, off, b) BY <1>0, <1>1, <2>2, SameKind DEF write
  <2>3. QED BY <2>1, <2>2
<1>3. FileHandles'
  <2>1. CASE release(fh) BY <1>0, <2>1, ReleaseFiles DEF TypeInv, FileHandles
  <2>2. CASE fsync(fh)
    <3>1. PICK h \in Handle : h = files[fh] BY <1>0, <1>1, FilesType DEF TypeInv
    <3>2. PICK g : g = [h EXCEPT !.dirty = FALSE] OBVIOUS
    <3>3. g.path = h.path /\ g.kind = h.kind /\ g.ref = h.ref /\ ~g.dirty BY <3>2 DEF Handle
    <3>4. files' = [files EXCEPT ![fh] = g] BY <2>2, <3>1, <3>2 DEF fsync
    <3>5. files'[fh] = g /\ \A k \in Fhs : k # fh => files'[k] = files[k] BY <1>0, <3>4 DEF TypeInv, FilesInv
    <3>6. h.path \notin DirPaths /\ (h.kind = "buffered" => h.ref = None) BY <1>0, <1>1, <3>1 DEF FileHandles
    <3>7. QED BY <1>0, <3>3, <3>5, <3>6 DEF FileHandles
  <2>3. CASE \E off \in 0..(MaxLen - 1), b \in Byte : write(fh, off, b) BY <1>0, <2>3 DEF write, FileHandles
  <2>4. QED BY <2>1, <2>2, <2>3
<1>4. QED BY <1>0, <1>1, <1>2, <1>3, SameKernel DEF NameInv

LEMMA RunWriteNamed == ASSUME NameInv, NEW j \in jobs, RunWrite(j) PROVE NameInv'
<1>0. TypeInv /\ KindInv /\ FileHandles /\ KernelInv /\ TypeInv' BY RunWriteTyped DEF NameInv
<1>1. UNCHANGED <<lower, up, inodes, paths, dentry>> BY DEF RunWrite
<1>a. PICK fh : fh = j.fh OBVIOUS
<1>b. PICK h, d : h = files[fh] /\ d = Written(h.data, j.off, j.byte) OBVIOUS
<1>2. /\ fh \in Fhs /\ h \in OpenType /\ files[fh] # None /\ h.kind = "buffered"
      /\ files'[fh] = [h EXCEPT !.data = d, !.dirty = TRUE]
      /\ \A k \in Fhs : k # fh => files'[k] = files[k]
  BY <1>0, <1>a, <1>b, RunWriteFiles
<1>3. files'[fh].path = h.path /\ files'[fh].kind = "buffered" /\ files'[fh].ref = h.ref BY <1>2 DEF OpenType, Handle
<1>4. FileHandles' BY <1>0, <1>b, <1>2, <1>3 DEF FileHandles
<1>5. QED BY <1>0, <1>1, <1>4, SameKernel, SameKind DEF NameInv

LEMMA InitNamed == Init => NameInv
<1>1. SUFFICES ASSUME Init PROVE NameInv OBVIOUS
<1>2. KindInv BY <1>1, KindAssumption DEF Init, KindInv
<1>3. KernelInv BY <1>1, FuseAssumption DEF Init, KernelInv, RootIno, Inos
<1>4. FileHandles BY <1>1 DEF Init, FileHandles
<1>5. QED BY <1>1, <1>2, <1>3, <1>4, InitTyped DEF NameInv

LEMMA NextNamed == ASSUME NameInv, ~DirRenames, [Next]_vars PROVE NameInv'
<1>1. ASSUME NEW p \in Paths,
             \/ lookup(p) \/ mkdir(p) \/ rmdir(p) \/ unlink(p) \/ Forget(p)
             \/ open_write(p) \/ open_shared(p) \/ open_passthrough(p) \/ open_streaming(p)
             \/ truncate(p) \/ setattr(p) \/ setxattr(p) \/ create(p, TRUE) \/ create(p, FALSE)
             \/ \E n \in 1..MaxLen : resize(p, n)
      PROVE  NameInv'
  BY <1>1, NamesNamed, RemoveNamed, ForgetNamed, OpenNamed, AttrNamed, ResizeNamed, CreateNamed
<1>2. ASSUME NEW p \in Paths, NEW q \in Paths, rename(p, q) PROVE NameInv' BY <1>2, RenameNamed
<1>3. ASSUME NEW i \in Inos, readdir(i) PROVE NameInv' BY <1>3, ReaddirNamed
<1>4. ASSUME NEW fh \in Fhs,
             release(fh) \/ fsync(fh) \/ \E off \in 0..(MaxLen - 1), b \in Byte : write(fh, off, b)
      PROVE  NameInv'
  BY <1>4, HandleOpsNamed
<1>5. ASSUME NEW j \in jobs, RunWrite(j) PROVE NameInv' BY <1>5, RunWriteNamed
<1>6. CASE UNCHANGED vars
  <2>1. UNCHANGED <<lower, up, inodes, paths, files, dentry>> BY <1>6 DEF vars
  <2>2. TypeInv' BY NextTyped DEF NameInv
  <2>3. QED BY <2>1, <2>2, SameKind, SameKernel DEF NameInv, FileHandles
<1>7. QED BY <1>1, <1>2, <1>3, <1>4, <1>5, <1>6 DEF Next

LEMMA Named == ~DirRenames => (Spec => []NameInv)
<1>1. SUFFICES ASSUME ~DirRenames PROVE Spec => []NameInv OBVIOUS
<1>2. NameInv /\ [Next]_vars => NameInv' BY <1>1, NextNamed
<1>3. QED BY InitNamed, <1>2, PTL DEF Spec

\* The inode table and the kernel's dentries: as long as no directory is renamed,
\* the number the kernel holds for a path leads the adapter to that path,
\* whatever files are renamed, unlinked and made again under open handles.
\* Renaming a directory breaks it, as the adapter rebinds the directory alone.
THEOREM RequestsHitTheirName == ~DirRenames => (Spec => []RightFile)
<1>1. SUFFICES ASSUME ~DirRenames PROVE Spec => []RightFile OBVIOUS
<1>2. NameInv => RightFile BY DEF NameInv, KernelInv, TypeInv, TablesInv, TablesAgree, RightFile
<1>3. Spec => []NameInv BY <1>1, Named
<1>4. QED BY <1>2, <1>3, PTL
===============================================================================
