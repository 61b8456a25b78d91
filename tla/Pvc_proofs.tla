------------------------------ MODULE Pvc_proofs ------------------------------
(***************************************************************************)
(* A PVC mount, for any files, stack of layers, number of uppers, of control  *)
(* clients and of requests: promotion keeps the workload's data, a quiet       *)
(* capture is the mounted tree, and an answered pivot leaves no stale name.    *)
(*                                                                           *)
(* MutexInv: what the PVC mutex gives, that outside a pivot's two last steps   *)
(* the upper that capture packs is the one that is mounted.  ServedInv: the     *)
(* call under way works on the stored root, or on files that are adrift, and    *)
(* the rest of the tree is what the workload was told.  HandleInv: a file with  *)
(* an open handle exists, so that the write-back never brings back a name that  *)
(* an invalidation left alone because it was absent.  PackInv: what a quiet     *)
(* capture has packed so far.                                                *)
(***************************************************************************)
EXTENDS Pvc, SequenceTheorems, TLAPS

Held == {"pivot", "stored", "fields", "list", "pack"}

ReqType ==
    [pc : {"idle", "fetch", "fetch2", "exec", "flush"},
     op : {"none", "create", "unlink", "rename", "release"},
     p : Paths \cup {Root}, q : Paths \cup {Root},
     via : Uppers \cup {None}, via2 : Uppers \cup {None}, data : Entry \ {Absent}]

HandleType == [p : Paths \cup {Root}, data : Entry \ {Absent}, dirty : BOOLEAN]

ClientType ==
    [pc : Held \cup {"new", "check", "lock", "inval", "notify", "ok", "error"},
     kind : {"none", "pivot", "capture"}, to : Uppers \cup {None},
     todo : SUBSET Paths, names : SUBSET Paths, at : Nat, blob : Layer]

TypeInv ==
    /\ opts \in [access : Access, lifecycle : Lifecycle, lower : Seq(Layer)]
    /\ disk \in [Uppers -> Layer]
    /\ made \subseteq Uppers /\ root \in made /\ upper \in Uppers
    /\ cl \in [Clients -> ClientType]
    /\ req \in ReqType
    /\ req.pc # "idle" => req.p \in Paths /\ req.q \in Paths
    /\ req.pc = "flush" => req.op = "release"
    /\ req.pc \in {"fetch2", "exec", "flush"} => req.via \in Uppers /\ req.via2 \in Uppers
    /\ hnd \in HandleType
    /\ hnd # NoHandle => hnd.p \in Paths
    /\ kc \subseteq Paths \X (Uppers \cup {None})
    /\ ops \in 0..MaxOps
    /\ want \in [Paths -> Entry]
    /\ adrift \subseteq Paths

\* r is the request of client c.
MutexOf(c, r) ==
    /\ r.pc \in Held => mux = c
    /\ r.kind = "pivot" /\ r.pc \in {"lock", "pivot"} => r.to \in made
    /\ r.pc = "pivot" => r.kind = "pivot"
    /\ r.pc \in {"stored", "fields"} => r.to = root
    /\ r.pc = "pack" => r.to = upper

MutexInv ==
    /\ \A c \in Clients : MutexOf(c, cl[c])
    /\ upper = root \/ \E c \in Clients : cl[c].pc \in {"stored", "fields"}

\* Resolve, of values: what the upper L over the lowers ls shows at p.
Seen(L, ls, p) ==
    IF p \in L.wh THEN Absent
    ELSE IF L.ent[p] # Absent THEN L.ent[p]
    ELSE IF OpaqueAbove(L.opq, p) THEN Absent
    ELSE LowerResolve(ls, p)

Shown(p) == Seen(disk[root], opts.lower, p)

\* The call under way is on the stored root, or about files that a swap under it
\* has set adrift; of the others nothing but the file whose write-back is between
\* its truncation and its write differs from the history.
ServedInv ==
    /\ req.pc \in {"fetch2", "exec", "flush"} => req.via = root \/ (req.p \in adrift /\ req.q \in adrift)
    /\ req.pc \in {"exec", "flush"} => req.via2 = root \/ (req.p \in adrift /\ req.q \in adrift)
    /\ \A p \in Paths \ adrift : Shown(p) = want[p] \/ (req.pc = "flush" /\ p = req.p)

Stale(e) == e[2] # root /\ e[2] # None /\ e[1] \notin adrift /\ Shown(e[1]) # Absent

HandleInv ==
    /\ hnd # NoHandle => Shown(hnd.p) # Absent \/ hnd.p \in adrift
    /\ req.pc # "idle" /\ req.op = "release" => Shown(req.p) # Absent \/ req.p \in adrift
    /\ req.pc # "idle" /\ req.op \in {"unlink", "rename"} => hnd.p # req.p

\* A pivot that is not answered has yet to drop the name.
ToDrop(e, r) ==
    \/ r.pc \in {"stored", "fields", "inval"}
    \/ r.pc = "notify" /\ e[1] \in r.todo

StaleInv == \A e \in kc : Stale(e) => \E c \in Clients : ToDrop(e, cl[c])

PackOf(r) ==
    r.pc = "pack" =>
        /\ r.at <= ops \/ r.at = MaxOps + 1
        /\ r.at = ops =>
             /\ req.pc = "idle"
             /\ \A p \in Paths : r.blob.ent[p] = IF p \in r.todo THEN Absent ELSE disk[root].ent[p]
             /\ r.blob.wh \cup r.names = disk[root].wh
             /\ r.blob.opq = disk[root].opq

PackInv == \A c \in Clients : PackOf(cl[c])

IInv ==
    /\ TypeInv /\ MutexInv /\ PackInv
    /\ ServedInv /\ HandleInv /\ StaleInv

-----------------------------------------------------------------------------
(* The overlay.                                                              *)

LEMMA ResolveSeen == \A u, p : Resolve(u, p) = Seen(disk[u], opts.lower, p)
  BY DEF Resolve, Seen

LEMMA LayerOf ==
  ASSUME NEW ls \in Seq(Layer), NEW i \in 1..Len(ls)
  PROVE  ls[i] \in Layer /\ ls[i].ent \in [Paths -> Entry]
<1>1. ls[i] \in Layer BY ElementOfSeq
<1>2. QED BY <1>1 DEF Layer

LEMMA LowerType ==
  ASSUME NEW ls \in Seq(Layer), NEW p \in Paths
  PROVE  LowerResolve(ls, p) \in Entry
<1>1. CASE \E i \in 1..Len(ls) : FoundIn(ls, i, p)
  <2>1. PICK i \in 1..Len(ls) : LowerResolve(ls, p) = ls[i].ent[p] BY <1>1 DEF LowerResolve
  <2>2. QED BY <2>1, LayerOf
<1>2. QED BY <1>1 DEF LowerResolve, Entry

LEMMA SeenType ==
  ASSUME NEW L \in Layer, NEW ls \in Seq(Layer), NEW p \in Paths
  PROVE  Seen(L, ls, p) \in Entry
  BY LowerType DEF Seen, Layer, Entry

LEMMA PutLayer ==
  ASSUME NEW L \in Layer, NEW p \in Paths, NEW v \in Entry
  PROVE  /\ Put(L, p, v) \in Layer
         /\ Put(L, p, v).ent[p] = v /\ p \notin Put(L, p, v).wh
         /\ Put(L, p, v).opq = L.opq
         /\ \A q \in Paths : q # p => /\ Put(L, p, v).ent[q] = L.ent[q]
                                      /\ q \in Put(L, p, v).wh <=> q \in L.wh
  BY DEF Put, Layer

\* Writing a file shows it, and nothing else changes.
LEMMA PutSeen ==
  ASSUME NEW L \in Layer, NEW ls, NEW p \in Paths, NEW v \in Entry, v # Absent
  PROVE  /\ Seen(Put(L, p, v), ls, p) = v
         /\ \A q \in Paths : q # p => Seen(Put(L, p, v), ls, q) = Seen(L, ls, q)
<1>1. PICK M : M = Put(L, p, v) OBVIOUS
<1>2. /\ M.ent[p] = v /\ p \notin M.wh /\ M.opq = L.opq
      /\ \A q \in Paths : q # p => M.ent[q] = L.ent[q] /\ (q \in M.wh <=> q \in L.wh)
  BY <1>1, PutLayer
<1>3. Seen(M, ls, p) = v BY <1>2 DEF Seen
<1>4. \A q \in Paths : q # p => Seen(M, ls, q) = Seen(L, ls, q) BY <1>2 DEF Seen
<1>5. QED BY <1>1, <1>3, <1>4

LEMMA GoneLayer ==
  ASSUME NEW L \in Layer, NEW p \in Paths
  PROVE  /\ Gone(L, p) \in Layer
         /\ Gone(L, p).ent[p] = Absent /\ (InLower(p) => p \in Gone(L, p).wh)
         /\ Gone(L, p).opq = L.opq
         /\ \A q \in Paths : q # p => /\ Gone(L, p).ent[q] = L.ent[q]
                                      /\ q \in Gone(L, p).wh <=> q \in L.wh
<1>1. Absent \in Entry BY DEF Entry
<1>2. CASE InLower(p)
  <2>1. Gone(L, p) = [L EXCEPT !.ent[p] = Absent, !.wh = @ \cup {p}] BY <1>2 DEF Gone
  <2>2. QED BY <1>1, <1>2, <2>1 DEF Layer
<1>3. CASE ~InLower(p)
  <2>1. Gone(L, p) = [L EXCEPT !.ent[p] = Absent, !.wh = @] BY <1>3 DEF Gone
  <2>2. QED BY <1>1, <1>3, <2>1 DEF Layer
<1>4. QED BY <1>2, <1>3

LEMMA NotInLower ==
  ASSUME NEW p \in Paths, ~InLower(p)
  PROVE  LowerResolve(opts.lower, p) = Absent
  BY DEF InLower, LowerResolve, FoundIn

\* Removing a file hides it, with a marker if a lower has it.
LEMMA GoneSeen ==
  ASSUME NEW L \in Layer, NEW p \in Paths
  PROVE  /\ Seen(Gone(L, p), opts.lower, p) = Absent
         /\ \A q \in Paths : q # p => Seen(Gone(L, p), opts.lower, q) = Seen(L, opts.lower, q)
<1>0. PICK ls : ls = opts.lower OBVIOUS
<1>1. PICK M : M = Gone(L, p) OBVIOUS
<1>2. /\ M.ent[p] = Absent /\ (InLower(p) => p \in M.wh) /\ M.opq = L.opq
      /\ \A q \in Paths : q # p => M.ent[q] = L.ent[q] /\ (q \in M.wh <=> q \in L.wh)
  BY <1>1, GoneLayer
<1>3. Seen(M, ls, p) = Absent BY <1>0, <1>2, NotInLower DEF Seen
<1>4. \A q \in Paths : q # p => Seen(M, ls, q) = Seen(L, ls, q) BY <1>2 DEF Seen
<1>5. QED BY <1>0, <1>1, <1>3, <1>4

\* A layer on top of the lowers is read as an upper is.
LEMMA OnTop ==
  ASSUME NEW A \in Layer, NEW ls \in Seq(Layer), NEW p \in Paths
  PROVE  LowerResolve(<<A>> \o ls, p) = Seen(A, ls, p)
<1>1. PICK s : s = <<A>> \o ls OBVIOUS
<1>2. PICK n \in Nat : n = Len(ls) BY LenProperties
<1>3. /\ Len(s) = n + 1 /\ s[1] = A
      /\ \A i \in 1..n : s[i + 1] = ls[i]
  BY <1>1, <1>2
<1>4. CASE p \in A.wh \/ (A.ent[p] = Absent /\ OpaqueAbove(A.opq, p))
  <2>1. \A i \in 1..Len(s) : ~FoundIn(s, i, p)
    <3>1. SUFFICES ASSUME NEW i \in 1..(n + 1), FoundIn(s, i, p) PROVE FALSE BY <1>3
    <3>2. CASE i = 1 BY <1>3, <1>4, <3>1, <3>2 DEF FoundIn
    <3>3. CASE i # 1
      <4>1. 1 \in 1..(i - 1) BY <1>2, <3>1, <3>3
      <4>2. QED BY <1>3, <1>4, <3>1, <4>1 DEF FoundIn
    <3>4. QED BY <3>2, <3>3
  <2>2. QED BY <1>1, <1>4, <2>1 DEF LowerResolve, Seen
<1>5. CASE p \notin A.wh /\ A.ent[p] # Absent
  <2>1. FoundIn(s, 1, p) BY <1>3, <1>5 DEF FoundIn
  <2>2. \A i \in 1..Len(s) : FoundIn(s, i, p) => i = 1
    <3>1. SUFFICES ASSUME NEW i \in 1..(n + 1), FoundIn(s, i, p), i # 1 PROVE FALSE BY <1>3
    <3>2. 1 \in 1..(i - 1) BY <1>2, <3>1
    <3>3. QED BY <1>3, <1>5, <3>1, <3>2 DEF FoundIn
  <2>3. 1 \in 1..Len(s) BY <1>2, <1>3
  <2>4. (CHOOSE i \in 1..Len(s) : FoundIn(s, i, p)) = 1 BY <2>1, <2>2, <2>3
  <2>5. LowerResolve(s, p) = A.ent[p] BY <1>3, <2>1, <2>3, <2>4 DEF LowerResolve
  <2>6. QED BY <1>1, <1>5, <2>5 DEF Seen
<1>6. CASE p \notin A.wh /\ A.ent[p] = Absent /\ ~OpaqueAbove(A.opq, p)
  <2>1. ~FoundIn(s, 1, p) BY <1>3, <1>6 DEF FoundIn
  <2>2. \A i \in 1..n : FoundIn(s, i + 1, p) <=> FoundIn(ls, i, p)
    <3>1. SUFFICES ASSUME NEW i \in 1..n PROVE FoundIn(s, i + 1, p) <=> FoundIn(ls, i, p) OBVIOUS
    <3>2. \A j \in 1..i : j = 1 \/ (j - 1 \in 1..(i - 1) /\ s[j] = ls[j - 1])
      <4>1. SUFFICES ASSUME NEW j \in 1..i, j # 1 PROVE j - 1 \in 1..(i - 1) /\ s[j] = ls[j - 1] OBVIOUS
      <4>2. j - 1 \in 1..n /\ j - 1 \in 1..(i - 1) /\ (j - 1) + 1 = j BY <1>2, <3>1, <4>1
      <4>3. QED BY <1>3, <4>2
    <3>3. \A j \in 1..(i - 1) : j + 1 \in 1..i /\ s[j + 1] = ls[j] BY <1>2, <1>3, <3>1
    <3>4. (i + 1) - 1 = i BY <1>2, <3>1
    <3>5. FoundIn(s, i + 1, p) => FoundIn(ls, i, p) BY <1>3, <3>1, <3>3, <3>4 DEF FoundIn
    <3>6. FoundIn(ls, i, p) => FoundIn(s, i + 1, p)
      <4>1. SUFFICES ASSUME FoundIn(ls, i, p) PROVE FoundIn(s, i + 1, p) OBVIOUS
      <4>2. \A j \in 1..i : p \notin s[j].wh /\ s[j].ent[p] = Absent /\ ~OpaqueAbove(s[j].opq, p)
        <5>1. SUFFICES ASSUME NEW j \in 1..i
                       PROVE  p \notin s[j].wh /\ s[j].ent[p] = Absent /\ ~OpaqueAbove(s[j].opq, p)
          OBVIOUS
        <5>2. CASE j = 1 BY <1>3, <1>6, <5>2
        <5>3. CASE j - 1 \in 1..(i - 1) /\ s[j] = ls[j - 1] BY <4>1, <5>3 DEF FoundIn
        <5>4. QED BY <3>2, <5>2, <5>3
      <4>3. p \notin s[i + 1].wh /\ s[i + 1].ent[p] # Absent BY <1>3, <3>1, <4>1 DEF FoundIn
      <4>4. QED BY <3>4, <4>2, <4>3 DEF FoundIn
    <3>7. QED BY <3>5, <3>6
  <2>3. \A i, k \in 1..n : FoundIn(ls, i, p) /\ FoundIn(ls, k, p) => i = k
    <3>1. SUFFICES ASSUME NEW i \in 1..n, NEW k \in 1..n, FoundIn(ls, i, p), FoundIn(ls, k, p), i < k PROVE FALSE
      BY <1>2
    <3>2. i \in 1..(k - 1) BY <1>2, <3>1
    <3>3. QED BY <3>1, <3>2 DEF FoundIn
  <2>4. CASE \E i \in 1..n : FoundIn(ls, i, p)
    <3>1. PICK i \in 1..n : FoundIn(ls, i, p) BY <2>4
    <3>2. (CHOOSE k \in 1..Len(ls) : FoundIn(ls, k, p)) = i BY <1>2, <2>3, <3>1
    <3>3. i + 1 \in 1..Len(s) /\ FoundIn(s, i + 1, p) BY <1>2, <1>3, <2>2, <3>1
    <3>4. \A k \in 1..Len(s) : FoundIn(s, k, p) => k = i + 1
      <4>1. SUFFICES ASSUME NEW k \in 1..(n + 1), FoundIn(s, k, p) PROVE k = i + 1 BY <1>3
      <4>2. k # 1 BY <2>1, <4>1
      <4>3. k - 1 \in 1..n /\ (k - 1) + 1 = k BY <1>2, <4>1, <4>2
      <4>4. FoundIn(ls, k - 1, p) BY <2>2, <4>1, <4>3
      <4>5. k - 1 = i BY <2>3, <3>1, <4>3, <4>4
      <4>6. QED BY <4>3, <4>5
    <3>5. (CHOOSE k \in 1..Len(s) : FoundIn(s, k, p)) = i + 1 BY <3>3, <3>4
    <3>6. LowerResolve(ls, p) = ls[i].ent[p] BY <1>2, <3>1, <3>2 DEF LowerResolve
    <3>7. LowerResolve(s, p) = s[i + 1].ent[p] BY <3>3, <3>5 DEF LowerResolve
    <3>8. QED BY <1>1, <1>3, <1>6, <3>1, <3>6, <3>7 DEF Seen
  <2>5. CASE ~\E i \in 1..n : FoundIn(ls, i, p)
    <3>1. \A k \in 1..Len(s) : ~FoundIn(s, k, p)
      <4>1. SUFFICES ASSUME NEW k \in 1..(n + 1), FoundIn(s, k, p) PROVE FALSE BY <1>3
      <4>2. k # 1 BY <2>1, <4>1
      <4>3. k - 1 \in 1..n /\ (k - 1) + 1 = k BY <1>2, <4>1, <4>2
      <4>4. QED BY <2>2, <2>5, <4>1, <4>3
    <3>2. QED BY <1>1, <1>2, <1>6, <2>5, <3>1 DEF LowerResolve, Seen
  <2>6. QED BY <2>4, <2>5
<1>7. QED BY <1>4, <1>5, <1>6

-----------------------------------------------------------------------------
(* What a step leaves alone.                                                 *)

LEMMA MutexKept == MutexInv /\ UNCHANGED pvc => MutexInv'
  BY DEF MutexInv, MutexOf, pvc

\* A capture stays quiet only while there is no call.
LEMMA PackKept ==
  ASSUME TypeInv, PackInv, UNCHANGED <<cl, root>>,
         \/ ops < MaxOps /\ ops' = ops + 1
         \/ ops' = ops /\ req.pc # "idle"
         \/ ops' = ops /\ req'.pc = req.pc /\ disk'[root] = disk[root]
  PROVE  PackInv'
<1>1. SUFFICES ASSUME NEW c \in Clients, cl[c].pc = "pack" PROVE PackOf(cl[c])'
  BY DEF PackInv, PackOf
<1>2. PICK a \in Nat : a = cl[c].at BY <1>1 DEF TypeInv, ClientType
<1>3. ops \in 0..MaxOps /\ MaxOps \in Nat BY PvcAssumption DEF TypeInv
<1>4. PackOf(cl[c]) /\ (a <= ops \/ a = MaxOps + 1) BY <1>1, <1>2 DEF PackInv, PackOf
<1>5. CASE ops < MaxOps /\ ops' = ops + 1
  <2>1. a # ops' /\ (a <= ops' \/ a = MaxOps + 1) BY <1>3, <1>4, <1>5
  <2>2. QED BY <1>2, <2>1 DEF PackOf
<1>6. CASE ops' = ops /\ req.pc # "idle"
  <2>1. a # ops BY <1>1, <1>2, <1>4, <1>6 DEF PackOf
  <2>2. QED BY <1>2, <1>4, <1>6, <2>1 DEF PackOf
<1>7. CASE ops' = ops /\ req'.pc = req.pc /\ disk'[root] = disk[root]
  BY <1>1, <1>4, <1>7 DEF PackOf
<1>8. QED BY <1>5, <1>6, <1>7

LEMMA StaleKept ==
  ASSUME StaleInv, UNCHANGED cl, \A e \in kc' : Stale(e)' => e \in kc /\ Stale(e)
  PROVE  StaleInv'
  BY DEF StaleInv, ToDrop

-----------------------------------------------------------------------------
(* The workload asks.                                                        *)

LEMMA SendStep ==
  ASSUME IInv, NEW op \in {"create", "unlink", "rename", "release"},
         NEW p \in Paths, NEW q \in Paths, NEW d \in Entry \ {Absent},
         Send(op, p, q, d),
         hnd' = hnd \/ hnd' = NoHandle,
         op = "release" => Shown(p) # Absent \/ p \in adrift,
         op \in {"unlink", "rename"} => hnd'.p # p
  PROVE  IInv'
<1>0. TypeInv /\ MutexInv /\ PackInv BY DEF IInv
<1>1. /\ req' \in ReqType /\ req'.pc = "fetch" /\ req'.op = op /\ req'.p = p /\ req'.q = q
  BY EntryAssumption DEF Send, NoReq, ReqType, Entry
<1>2. /\ UNCHANGED <<opts, disk, made, root, wlock, upper, mux, cl, kc, want, adrift>>
      /\ req.pc = "idle" /\ ops < MaxOps /\ ops' = ops + 1
  BY DEF Send
<1>3. ops' \in 0..MaxOps BY <1>0, <1>2, PvcAssumption DEF TypeInv
<1>4. NoHandle \in HandleType BY EntryAssumption DEF NoHandle, HandleType, Entry
<1>5. hnd' \in HandleType /\ (hnd' # NoHandle => hnd'.p \in Paths) BY <1>0, <1>4 DEF TypeInv
<1>6. TypeInv' BY <1>0, <1>1, <1>2, <1>3, <1>5 DEF TypeInv
<1>7. MutexInv' /\ PackInv' BY <1>0, <1>2, MutexKept, PackKept DEF pvc
<1>8. ServedInv' /\ HandleInv' /\ StaleInv'
  <2>1. ServedInv /\ HandleInv /\ StaleInv BY DEF IInv
  <2>2. ServedInv' BY <1>1, <1>2, <2>1 DEF ServedInv, Shown
  <2>3. HandleInv' BY <1>1, <1>2, <2>1 DEF HandleInv, Shown
  <2>4. StaleInv' BY <1>2, <2>1, StaleKept DEF Stale, Shown
  <2>5. QED BY <2>2, <2>3, <2>4
<1>9. QED BY <1>2, <1>6, <1>7, <1>8 DEF IInv

LEMMA AskStep ==
  ASSUME IInv, NEW p \in Paths, NEW q \in Paths, AskCreate(p) \/ AskUnlink(p) \/ AskRename(p, q)
  PROVE  IInv'
<1>1. Empty \in Entry \ {Absent} BY EntryAssumption DEF Entry
<1>2. CASE AskCreate(p) BY <1>1, <1>2, SendStep DEF AskCreate
<1>3. CASE AskUnlink(p) BY <1>1, <1>3, SendStep DEF AskUnlink
<1>4. CASE AskRename(p, q) BY <1>1, <1>4, SendStep DEF AskRename
<1>5. QED BY <1>2, <1>3, <1>4

LEMMA AskReleaseStep == ASSUME IInv, AskRelease PROVE IInv'
<1>0. TypeInv /\ MutexInv /\ PackInv BY DEF IInv
<1>1. hnd # NoHandle /\ hnd' = NoHandle BY DEF AskRelease
<1>2. CASE hnd.dirty
  <2>1. hnd.p \in Paths /\ hnd.data \in Entry \ {Absent} BY <1>0, <1>1 DEF TypeInv, HandleType
  <2>2. PICK p \in Paths, d \in Entry \ {Absent} : p = hnd.p /\ d = hnd.data BY <2>1
  <2>3. Send("release", p, p, d) BY <1>2, <2>2 DEF AskRelease
  <2>4. Shown(p) # Absent \/ p \in adrift BY <1>1, <2>2 DEF IInv, HandleInv, Shown
  <2>5. QED BY <1>1, <2>3, <2>4, SendStep
<1>3. CASE ~hnd.dirty
  <2>1. UNCHANGED <<opts, disk, made, root, wlock, upper, mux, cl, req, kc, ops, want, adrift>> BY <1>3 DEF AskRelease
  <2>2. NoHandle \in HandleType BY EntryAssumption DEF NoHandle, HandleType, Entry
  <2>3. TypeInv' BY <1>0, <1>1, <2>1, <2>2 DEF TypeInv
  <2>4. MutexInv' /\ PackInv' BY <1>0, <2>1, MutexKept, PackKept DEF pvc
  <2>5. ServedInv' /\ HandleInv' /\ StaleInv'
    <3>1. ServedInv /\ HandleInv /\ StaleInv BY DEF IInv
    <3>2. ServedInv' BY <2>1, <3>1 DEF ServedInv, Shown
    <3>3. req.pc # "idle" => req.p \in Paths BY <1>0 DEF TypeInv
    <3>4. HandleInv'
      <4>1. Root \notin Paths BY PathsAssumption
      <4>2. QED BY <1>1, <2>1, <3>1, <3>3, <4>1 DEF HandleInv, Shown, NoHandle
    <3>5. StaleInv' BY <2>1, <3>1, StaleKept DEF Stale, Shown
    <3>6. QED BY <3>2, <3>4, <3>5
  <2>6. QED BY <2>1, <2>3, <2>4, <2>5 DEF IInv
<1>4. QED BY <1>2, <1>3

-----------------------------------------------------------------------------
(* Calls fetch the root, names are looked up, handles opened and written.    *)

LEMMA FetchStep == ASSUME IInv, Fetch \/ Fetch2 PROVE IInv'
<1>0. TypeInv /\ MutexInv /\ PackInv BY DEF IInv
<1>1. /\ UNCHANGED <<opts, disk, made, root, wlock, upper, mux, cl, hnd, kc, ops, want, adrift>>
      /\ req.pc \in {"fetch", "fetch2"}
  BY DEF Fetch, Fetch2, pvc
<1>2. /\ req' \in ReqType /\ req'.pc \in {"fetch2", "exec"} /\ req'.p = req.p /\ req'.q = req.q /\ req'.op = req.op
      /\ req'.via2 = root /\ ((req'.via = req.via /\ req.pc = "fetch2") \/ req'.via = root)
  BY <1>0 DEF TypeInv, ReqType, Fetch, Fetch2
<1>3. TypeInv' BY <1>0, <1>1, <1>2 DEF TypeInv
<1>4. MutexInv' /\ PackInv' BY <1>0, <1>1, MutexKept, PackKept DEF pvc
<1>5. ServedInv' /\ HandleInv' /\ StaleInv'
  <2>1. ServedInv /\ HandleInv /\ StaleInv BY DEF IInv
  <2>2. ServedInv' BY <1>1, <1>2, <2>1 DEF ServedInv, Shown
  <2>3. HandleInv' BY <1>1, <1>2, <2>1 DEF HandleInv, Shown
  <2>4. StaleInv' BY <1>1, <2>1, StaleKept DEF Stale, Shown
  <2>5. QED BY <2>2, <2>3, <2>4
<1>6. QED BY <1>1, <1>3, <1>4, <1>5 DEF IInv

\* A name looked up now has the root of now.
LEMMA LookupStep == ASSUME IInv, NEW x \in Paths, Lookup(x) PROVE IInv'
<1>0. TypeInv /\ MutexInv /\ PackInv BY DEF IInv
<1>1. /\ UNCHANGED <<opts, disk, made, root, wlock, upper, mux, cl, req, hnd, ops, want, adrift>>
      /\ kc' = kc \cup {<<x, root>>}
  BY DEF Lookup, pvc
<1>2. TypeInv' BY <1>0, <1>1 DEF TypeInv
<1>3. MutexInv' /\ PackInv' BY <1>0, <1>1, MutexKept, PackKept DEF pvc
<1>4. ServedInv' /\ HandleInv' /\ StaleInv'
  <2>1. ServedInv /\ HandleInv /\ StaleInv BY DEF IInv
  <2>2. ServedInv' /\ HandleInv' BY <1>1, <2>1 DEF ServedInv, HandleInv, Shown
  <2>3. StaleInv' BY <1>1, <2>1, StaleKept DEF Stale, Shown
  <2>4. QED BY <2>2, <2>3
<1>5. QED BY <1>1, <1>2, <1>3, <1>4 DEF IInv

LEMMA OpenStep == ASSUME IInv, NEW x \in Paths, OpenWrite(x) PROVE IInv'
<1>0. TypeInv /\ MutexInv /\ PackInv BY DEF IInv
<1>1. /\ UNCHANGED <<opts, disk, made, root, wlock, upper, mux, cl, req, kc, want, adrift>>
      /\ req.pc = "idle" /\ ops < MaxOps /\ ops' = ops + 1
      /\ Shown(x) # Absent /\ hnd' = [p |-> x, data |-> Shown(x), dirty |-> FALSE]
  BY ResolveSeen DEF OpenWrite, pvc, Shown
<1>2. Shown(x) \in Entry BY <1>0, SeenType DEF Shown, TypeInv
<1>3. hnd' \in HandleType /\ hnd'.p = x BY <1>1, <1>2 DEF HandleType
<1>4. ops' \in 0..MaxOps BY <1>0, <1>1, PvcAssumption DEF TypeInv
<1>5. TypeInv' BY <1>0, <1>1, <1>3, <1>4 DEF TypeInv
<1>6. MutexInv' /\ PackInv' BY <1>0, <1>1, MutexKept, PackKept DEF pvc
<1>7. ServedInv' /\ HandleInv' /\ StaleInv'
  <2>1. ServedInv /\ HandleInv /\ StaleInv BY DEF IInv
  <2>2. ServedInv' BY <1>1, <2>1 DEF ServedInv, Shown
  <2>3. HandleInv' BY <1>1, <1>3 DEF HandleInv, Shown
  <2>4. StaleInv' BY <1>1, <2>1, StaleKept DEF Stale, Shown
  <2>5. QED BY <2>2, <2>3, <2>4
<1>8. QED BY <1>1, <1>5, <1>6, <1>7 DEF IInv

LEMMA WriteStep == ASSUME IInv, NEW v \in Data \ {Empty}, WriteBuffer(v) PROVE IInv'
<1>0. TypeInv /\ MutexInv /\ PackInv BY DEF IInv
<1>1. /\ UNCHANGED <<opts, disk, made, root, wlock, upper, mux, cl, req, kc, ops, want, adrift>>
      /\ hnd # NoHandle /\ hnd' = [hnd EXCEPT !.data = v, !.dirty = TRUE]
  BY DEF WriteBuffer, pvc
<1>2. v \in Entry \ {Absent} BY EntryAssumption DEF Entry
<1>3. hnd' \in HandleType /\ hnd'.p = hnd.p /\ hnd.p \in Paths BY <1>0, <1>1, <1>2 DEF TypeInv, HandleType
<1>4. TypeInv' BY <1>0, <1>1, <1>3 DEF TypeInv
<1>5. MutexInv' /\ PackInv' BY <1>0, <1>1, MutexKept, PackKept DEF pvc
<1>6. ServedInv' /\ HandleInv' /\ StaleInv'
  <2>1. ServedInv /\ HandleInv /\ StaleInv BY DEF IInv
  <2>2. ServedInv' BY <1>1, <2>1 DEF ServedInv, Shown
  <2>3. HandleInv' BY <1>1, <1>3, <2>1 DEF HandleInv, Shown
  <2>4. StaleInv' BY <1>1, <2>1, StaleKept DEF Stale, Shown
  <2>5. QED BY <2>2, <2>3, <2>4
<1>7. QED BY <1>1, <1>4, <1>5, <1>6 DEF IInv

-----------------------------------------------------------------------------
(* Calls work on the root they fetched.                                      *)

LEMMA NoReqType == NoReq \in ReqType /\ NoReq.pc = "idle" /\ Empty \in Entry \ {Absent} /\ Absent \in Entry
  BY EntryAssumption DEF NoReq, ReqType, Entry

\* A file is written into the upper u: the mounted tree shows it if it is u's.
LEMMA PutAt ==
  ASSUME TypeInv, NEW p \in Paths, NEW u \in Uppers, NEW v \in Entry \ {Absent},
         disk' = [disk EXCEPT ![u] = Put(disk[u], p, v)], UNCHANGED <<opts, root>>
  PROVE  (u = root => Shown(p)' = v) /\ \A x \in Paths : x # p => Shown(x)' = Shown(x)
<1>1. disk[root] \in Layer /\ root \in Uppers BY DEF TypeInv
<1>2. PICK L, ls : L \in Layer /\ L = disk[root] /\ ls = opts.lower BY <1>1
<1>3. CASE u = root
  <2>1. disk'[root] = Put(L, p, v) BY <1>1, <1>2, <1>3 DEF TypeInv
  <2>2. Seen(Put(L, p, v), ls, p) = v /\ \A x \in Paths : x # p => Seen(Put(L, p, v), ls, x) = Seen(L, ls, x)
    BY <1>2, PutSeen
  <2>3. QED BY <1>2, <2>1, <2>2 DEF Shown
<1>4. CASE u # root
  <2>1. disk'[root] = disk[root] BY <1>1, <1>4 DEF TypeInv
  <2>2. QED BY <1>4, <2>1 DEF Shown
<1>5. QED BY <1>3, <1>4

LEMMA DoCreateStep == ASSUME IInv, DoCreate PROVE IInv'
<1>0. TypeInv /\ MutexInv /\ PackInv BY DEF IInv
<1>1. /\ UNCHANGED <<opts, made, root, wlock, upper, mux, cl, ops, adrift>>
      /\ req.pc = "exec" /\ req' = NoReq
  BY DEF DoCreate, pvc
<1>2. PICK p \in Paths, u \in Uppers : p = req.p /\ u = req.via BY <1>0, <1>1 DEF TypeInv
<1>3. PICK old \in Entry : old = Seen(disk[u], opts.lower, p) BY <1>0, SeenType DEF TypeInv
<1>4. /\ disk' = IF old = Absent THEN [disk EXCEPT ![u] = Put(disk[u], p, Empty)] ELSE disk
      /\ hnd' = [p |-> p, data |-> IF old = Absent THEN Empty ELSE old, dirty |-> FALSE]
      /\ want' = IF old = Absent THEN [want EXCEPT ![p] = Empty] ELSE want
      /\ kc' = Uncache(p) \cup {<<p, root>>}
  BY <1>2, <1>3, ResolveSeen DEF DoCreate
<1>5. TypeInv'
  <2>1. disk[u] \in Layer BY <1>0 DEF TypeInv
  <2>2. Put(disk[u], p, Empty) \in Layer BY <2>1, NoReqType, PutLayer
  <2>3. disk' \in [Uppers -> Layer] BY <1>0, <1>4, <2>2 DEF TypeInv
  <2>4. hnd' \in HandleType /\ hnd'.p = p BY <1>3, <1>4, NoReqType DEF HandleType
  <2>5. want' \in [Paths -> Entry] BY <1>0, <1>4, NoReqType DEF TypeInv
  <2>6. kc' \subseteq Paths \X (Uppers \cup {None}) BY <1>0, <1>4 DEF TypeInv, Uncache
  <2>7. QED BY <1>0, <1>1, <2>3, <2>4, <2>5, <2>6, NoReqType DEF TypeInv
<1>6. MutexInv' /\ PackInv' BY <1>0, <1>1, MutexKept, PackKept DEF pvc
<1>7. ServedInv' /\ HandleInv' /\ StaleInv'
  <2>1. ServedInv /\ HandleInv /\ StaleInv /\ (u = root \/ p \in adrift) BY <1>1, <1>2 DEF IInv, ServedInv
  <2>2. /\ u = root => Shown(p)' = (IF old = Absent THEN Empty ELSE old) /\ Shown(p) = old
        /\ \A x \in Paths : x # p => Shown(x)' = Shown(x)
    <3>1. CASE old = Absent
      <4>1. disk' = [disk EXCEPT ![u] = Put(disk[u], p, Empty)] BY <1>4, <3>1
      <4>2. (u = root => Shown(p)' = Empty) /\ \A x \in Paths : x # p => Shown(x)' = Shown(x)
        BY <1>0, <1>1, <4>1, NoReqType, PutAt
      <4>3. u = root => Shown(p) = old BY <1>3 DEF Shown
      <4>4. QED BY <3>1, <4>2, <4>3
    <3>2. CASE old # Absent BY <1>1, <1>3, <1>4, <3>2 DEF Shown
    <3>3. QED BY <3>1, <3>2
  <2>3. ServedInv'
    <3>1. req'.pc = "idle" BY <1>1, NoReqType
    <3>2. SUFFICES ASSUME NEW x \in Paths \ adrift PROVE Shown(x)' = want'[x] BY <1>1, <3>1 DEF ServedInv
    <3>3. Shown(x) = want[x] BY <1>1, <2>1 DEF ServedInv
    <3>4. CASE x = p BY <1>0, <1>4, <2>1, <2>2, <3>3, <3>4 DEF TypeInv
    <3>5. CASE x # p BY <1>0, <1>4, <2>2, <3>3, <3>5 DEF TypeInv
    <3>6. QED BY <3>4, <3>5
  <2>4. HandleInv'
    <3>1. hnd'.p = p BY <1>4
    <3>2. Shown(p)' # Absent \/ p \in adrift BY <2>1, <2>2, NoReqType
    <3>3. QED BY <1>1, <3>1, <3>2, NoReqType DEF HandleInv, Shown
  <2>5. \A e \in kc' : Stale(e)' => e \in kc /\ Stale(e)
    <3>1. SUFFICES ASSUME NEW e \in kc', Stale(e)' PROVE e \in kc /\ Stale(e) OBVIOUS
    <3>2. e \in kc /\ e[1] # p BY <1>1, <1>4, <3>1 DEF Stale, Uncache
    <3>3. e[1] \in Paths BY <1>0, <3>2 DEF TypeInv
    <3>4. QED BY <1>1, <2>2, <3>1, <3>2, <3>3 DEF Stale
  <2>6. StaleInv' BY <1>1, <2>1, <2>5, StaleKept
  <2>7. QED BY <2>3, <2>4, <2>6
<1>8. QED BY <1>1, <1>5, <1>6, <1>7 DEF IInv

LEMMA DoUnlinkStep == ASSUME IInv, DoUnlink PROVE IInv'
<1>0. TypeInv /\ MutexInv /\ PackInv BY DEF IInv
<1>1. /\ UNCHANGED <<opts, made, root, wlock, upper, mux, cl, hnd, ops, adrift>>
      /\ req.pc = "exec" /\ req.op = "unlink" /\ req' = NoReq
  BY DEF DoUnlink, pvc
<1>2. PICK p \in Paths, u \in Uppers : p = req.p /\ u = req.via BY <1>0, <1>1 DEF TypeInv
<1>3. PICK old \in Entry : old = Seen(disk[u], opts.lower, p) BY <1>0, SeenType DEF TypeInv
<1>4. /\ disk' = IF old = Absent THEN disk ELSE [disk EXCEPT ![u] = Gone(disk[u], p)]
      /\ want' = IF old = Absent THEN want ELSE [want EXCEPT ![p] = Absent]
      /\ kc' = Uncache(p)
  BY <1>2, <1>3, ResolveSeen DEF DoUnlink
<1>5. TypeInv'
  <2>1. disk[u] \in Layer BY <1>0 DEF TypeInv
  <2>2. Gone(disk[u], p) \in Layer BY <2>1, GoneLayer
  <2>3. disk' \in [Uppers -> Layer] BY <1>0, <1>4, <2>2 DEF TypeInv
  <2>4. want' \in [Paths -> Entry] BY <1>0, <1>4, NoReqType DEF TypeInv
  <2>5. kc' \subseteq Paths \X (Uppers \cup {None}) BY <1>0, <1>4 DEF TypeInv, Uncache
  <2>6. QED BY <1>0, <1>1, <2>3, <2>4, <2>5, NoReqType DEF TypeInv
<1>6. MutexInv' /\ PackInv' BY <1>0, <1>1, MutexKept, PackKept DEF pvc
<1>7. ServedInv' /\ HandleInv' /\ StaleInv'
  <2>1. ServedInv /\ HandleInv /\ StaleInv /\ (u = root \/ p \in adrift) BY <1>1, <1>2 DEF IInv, ServedInv
  <2>2. (u = root => Shown(p)' = Absent /\ Shown(p) = old) /\ \A x \in Paths : x # p => Shown(x)' = Shown(x)
    <3>0. PICK L, ls : L \in Layer /\ L = disk[root] /\ ls = opts.lower BY <1>0 DEF TypeInv
    <3>1. CASE old = Absent BY <1>1, <1>3, <1>4, <3>1 DEF Shown
    <3>2. CASE old # Absent /\ u = root
      <4>1. disk'[root] = Gone(L, p) BY <1>0, <1>4, <3>0, <3>2 DEF TypeInv
      <4>2. Seen(Gone(L, p), ls, p) = Absent /\ \A x \in Paths : x # p => Seen(Gone(L, p), ls, x) = Seen(L, ls, x)
        BY <3>0, GoneSeen
      <4>3. QED BY <1>1, <1>3, <3>0, <3>2, <4>1, <4>2 DEF Shown
    <3>3. CASE old # Absent /\ u # root
      <4>1. disk'[root] = disk[root] BY <1>0, <1>4, <3>3 DEF TypeInv
      <4>2. QED BY <1>1, <3>3, <4>1 DEF Shown
    <3>4. QED BY <3>1, <3>2, <3>3
  <2>3. ServedInv'
    <3>1. req'.pc = "idle" BY <1>1, NoReqType
    <3>2. SUFFICES ASSUME NEW x \in Paths \ adrift PROVE Shown(x)' = want'[x] BY <1>1, <3>1 DEF ServedInv
    <3>3. Shown(x) = want[x] BY <1>1, <2>1 DEF ServedInv
    <3>4. CASE x = p BY <1>0, <1>4, <2>1, <2>2, <3>3, <3>4 DEF TypeInv
    <3>5. CASE x # p BY <1>0, <1>4, <2>2, <3>3, <3>5 DEF TypeInv
    <3>6. QED BY <3>4, <3>5
  <2>4. HandleInv'
    <3>1. hnd # NoHandle => hnd.p \in Paths /\ hnd.p # p BY <1>0, <1>1, <1>2, <2>1 DEF TypeInv, HandleInv
    <3>2. QED BY <1>1, <2>1, <2>2, <3>1, NoReqType DEF HandleInv, Shown
  <2>5. \A e \in kc' : Stale(e)' => e \in kc /\ Stale(e)
    <3>1. SUFFICES ASSUME NEW e \in kc', Stale(e)' PROVE e \in kc /\ Stale(e) OBVIOUS
    <3>2. e \in kc /\ e[1] # p BY <1>4, <3>1 DEF Uncache
    <3>3. e[1] \in Paths BY <1>0, <3>2 DEF TypeInv
    <3>4. QED BY <1>1, <2>2, <3>1, <3>2, <3>3 DEF Stale
  <2>6. StaleInv' BY <1>1, <2>1, <2>5, StaleKept
  <2>7. QED BY <2>3, <2>4, <2>6
<1>8. QED BY <1>1, <1>5, <1>6, <1>7 DEF IInv

LEMMA DoRenameStep == ASSUME IInv, DoRename PROVE IInv'
<1>0. TypeInv /\ MutexInv /\ PackInv BY DEF IInv
<1>1. /\ UNCHANGED <<opts, made, root, wlock, upper, mux, cl, hnd, ops>>
      /\ req.pc = "exec" /\ req.op = "rename" /\ req' = NoReq
  BY DEF DoRename, pvc
<1>2. PICK p \in Paths, q \in Paths, u \in Uppers, w \in Uppers : p = req.p /\ q = req.q /\ u = req.via /\ w = req.via2
  BY <1>0, <1>1 DEF TypeInv
<1>3. PICK v \in Entry, old \in Entry : v = Seen(disk[u], opts.lower, p) /\ old = Seen(disk[w], opts.lower, q)
  BY <1>0, SeenType DEF TypeInv
<1>4. CASE v = Absent \/ old # Absent
  <2>1. UNCHANGED <<disk, kc, want, adrift>> BY <1>2, <1>3, <1>4, ResolveSeen DEF DoRename
  <2>2. TypeInv' BY <1>0, <1>1, <2>1, NoReqType DEF TypeInv
  <2>3. MutexInv' /\ PackInv' BY <1>0, <1>1, MutexKept, PackKept DEF pvc
  <2>4. ServedInv' /\ HandleInv' /\ StaleInv'
    <3>1. ServedInv /\ HandleInv /\ StaleInv BY DEF IInv
    <3>2. ServedInv' /\ HandleInv' BY <1>1, <2>1, <3>1, NoReqType DEF ServedInv, HandleInv, Shown
    <3>3. StaleInv' BY <1>1, <2>1, <3>1, StaleKept DEF Stale, Shown
    <3>4. QED BY <3>2, <3>3
  <2>5. QED BY <1>1, <2>2, <2>3, <2>4 DEF IInv
<1>5. CASE v # Absent /\ old = Absent
  <2>1. /\ disk' = [x \in Uppers |->
                      LET L == IF x = w THEN Put(disk[x], q, v) ELSE disk[x]
                      IN  IF x = u THEN Gone(L, p) ELSE L]
        /\ want' = [want EXCEPT ![q] = want[p], ![p] = Absent]
        /\ kc' = (Uncache(p) \ {c \in kc : c[1] = q}) \cup {<<q, root>>}
        /\ adrift' = IF p \in adrift THEN adrift \cup {q} ELSE adrift
    BY <1>2, <1>3, <1>5, ResolveSeen DEF DoRename
  <2>2. TypeInv'
    <3>1. ASSUME NEW x \in Uppers PROVE disk'[x] \in Layer
      <4>1. disk[x] \in Layer /\ Put(disk[x], q, v) \in Layer BY <1>0, PutLayer DEF TypeInv
      <4>2. PICK L \in Layer : L = IF x = w THEN Put(disk[x], q, v) ELSE disk[x] BY <4>1
      <4>3. Gone(L, p) \in Layer BY GoneLayer
      <4>4. disk'[x] = IF x = u THEN Gone(L, p) ELSE L BY <2>1, <4>2
      <4>5. QED BY <4>3, <4>4
    <3>2. disk' \in [Uppers -> Layer] BY <2>1, <3>1
    <3>3. want' \in [Paths -> Entry] BY <1>0, <2>1, NoReqType DEF TypeInv
    <3>4. kc' \subseteq Paths \X (Uppers \cup {None}) BY <1>0, <2>1 DEF TypeInv, Uncache
    <3>5. adrift' \subseteq Paths BY <1>0, <2>1 DEF TypeInv
    <3>6. QED BY <1>0, <1>1, <3>2, <3>3, <3>4, <3>5, NoReqType DEF TypeInv
  <2>3. MutexInv' /\ PackInv' BY <1>0, <1>1, MutexKept, PackKept DEF pvc
  <2>4. ServedInv' /\ HandleInv' /\ StaleInv'
    <3>1. /\ ServedInv /\ HandleInv /\ StaleInv
          /\ (u = root /\ w = root) \/ (p \in adrift /\ q \in adrift)
      BY <1>1, <1>2 DEF IInv, ServedInv
    <3>2. adrift \subseteq adrift' /\ (p \in adrift => q \in adrift') BY <2>1
    <3>3. /\ u = root /\ w = root => p # q /\ Shown(p) = v /\ Shown(q)' = v /\ Shown(p)' = Absent
          /\ \A x \in Paths : x # p /\ x # q => Shown(x)' = Shown(x)
      <4>1. PICK L, ls : L \in Layer /\ L = disk[root] /\ ls = opts.lower /\ root \in Uppers BY <1>0 DEF TypeInv
      <4>2. PICK M \in Layer : M = IF root = w THEN Put(L, q, v) ELSE L BY <4>1, PutLayer
      <4>3. disk'[root] = IF root = u THEN Gone(M, p) ELSE M BY <2>1, <4>1, <4>2
      <4>4. (w = root => Seen(M, ls, q) = v) /\ \A x \in Paths : x # q => Seen(M, ls, x) = Seen(L, ls, x)
        BY <1>5, <4>1, <4>2, PutSeen
      <4>5. Seen(Gone(M, p), ls, p) = Absent /\ \A x \in Paths : x # p => Seen(Gone(M, p), ls, x) = Seen(M, ls, x)
        BY <4>1, GoneSeen
      <4>6. u = root /\ w = root => p # q BY <1>3, <1>5
      <4>7. u = root => Shown(p) = v BY <1>3 DEF Shown
      <4>8. \A x : Shown(x) = Seen(L, ls, x) /\ Shown(x)' = Seen(disk'[root], ls, x) BY <1>1, <4>1 DEF Shown
      <4>9. u = root /\ w = root => Shown(q)' = v /\ Shown(p)' = Absent BY <4>3, <4>4, <4>5, <4>6, <4>8
      <4>10. \A x \in Paths : x # p /\ x # q => Shown(x)' = Shown(x) BY <4>3, <4>4, <4>5, <4>8
      <4>11. QED BY <4>6, <4>7, <4>9, <4>10
    <3>4. ServedInv'
      <4>1. req'.pc = "idle" BY <1>1, NoReqType
      <4>2. SUFFICES ASSUME NEW x \in Paths \ adrift' PROVE Shown(x)' = want'[x] BY <1>1, <4>1 DEF ServedInv
      <4>3. x \notin adrift /\ Shown(x) = want[x] BY <1>1, <3>1, <3>2 DEF ServedInv
      <4>4. CASE x = p BY <1>0, <2>1, <3>1, <3>3, <4>3, <4>4 DEF TypeInv
      <4>5. CASE x = q
        <5>1. p \notin adrift /\ u = root /\ w = root BY <3>1, <3>2, <4>2, <4>3, <4>5
        <5>2. Shown(p) = want[p] BY <1>1, <3>1, <5>1 DEF ServedInv
        <5>3. QED BY <1>0, <2>1, <3>3, <4>5, <5>1, <5>2 DEF TypeInv
      <4>6. CASE x # p /\ x # q BY <1>0, <2>1, <3>3, <4>3, <4>6 DEF TypeInv
      <4>7. QED BY <4>4, <4>5, <4>6
    <3>5. HandleInv'
      <4>1. hnd # NoHandle => hnd.p \in Paths /\ hnd.p # p BY <1>0, <1>1, <1>2, <3>1 DEF TypeInv, HandleInv
      <4>2. q \in adrift' \/ Shown(q)' # Absent BY <1>5, <3>1, <3>2, <3>3
      <4>3. hnd # NoHandle => Shown(hnd.p)' # Absent \/ hnd.p \in adrift'
        <5>1. SUFFICES ASSUME hnd # NoHandle, hnd.p # q PROVE Shown(hnd.p)' # Absent \/ hnd.p \in adrift'
          BY <1>1, <4>2 DEF Shown
        <5>2. PICK x \in Paths : x = hnd.p /\ x # p /\ x # q BY <4>1, <5>1
        <5>3. Shown(x)' = Shown(x) /\ (Shown(x) # Absent \/ x \in adrift) BY <3>1, <3>3, <5>1, <5>2 DEF HandleInv
        <5>4. QED BY <1>1, <3>2, <5>2, <5>3 DEF Shown
      <4>4. QED BY <1>1, <4>3, NoReqType DEF HandleInv, Shown
    <3>6. \A e \in kc' : Stale(e)' => e \in kc /\ Stale(e)
      <4>1. SUFFICES ASSUME NEW e \in kc', Stale(e)' PROVE e \in kc /\ Stale(e) OBVIOUS
      <4>2. e \in kc /\ e[1] # p /\ e[1] # q BY <1>1, <2>1, <4>1 DEF Stale, Uncache
      <4>3. e[1] \in Paths BY <1>0, <4>2 DEF TypeInv
      <4>4. QED BY <1>1, <3>2, <3>3, <4>1, <4>2, <4>3 DEF Stale
    <3>7. StaleInv' BY <1>1, <3>1, <3>6, StaleKept
    <3>8. QED BY <3>4, <3>5, <3>7
  <2>5. QED BY <1>1, <2>2, <2>3, <2>4 DEF IInv
<1>6. QED BY <1>4, <1>5

\* The write-back, both its steps.
LEMMA WriteBackStep == ASSUME IInv, DoRelease \/ Flush PROVE IInv'
<1>0. TypeInv /\ MutexInv /\ PackInv BY DEF IInv
<1>1. /\ UNCHANGED <<opts, made, root, wlock, upper, mux, cl, hnd, kc, ops, adrift>>
      /\ req.pc \in {"exec", "flush"} /\ req.op = "release"
  BY <1>0 DEF DoRelease, Flush, pvc, TypeInv
<1>2. PICK p \in Paths, u \in Uppers : p = req.p /\ u = req.via BY <1>0, <1>1 DEF TypeInv
<1>3. PICK v \in Entry \ {Absent} : v = IF req.pc = "exec" THEN Empty ELSE req.data
  BY <1>0, NoReqType DEF TypeInv, ReqType
<1>4. /\ disk' = [disk EXCEPT ![u] = Put(disk[u], p, v)]
      /\ \/ req.pc = "exec" /\ req' = [req EXCEPT !.pc = "flush"] /\ want' = want
         \/ req' = NoReq /\ want' = [want EXCEPT ![p] = v]
  BY <1>2, <1>3 DEF DoRelease, Flush
<1>5. \/ /\ req.pc = "exec" /\ want' = want /\ req' \in ReqType
         /\ req'.pc = "flush" /\ req'.op = "release" /\ req'.p = p /\ req'.q = req.q /\ req'.via = u /\ req'.via2 = req.via2
      \/ req' = NoReq /\ req'.pc = "idle" /\ req' \in ReqType /\ want' = [want EXCEPT ![p] = v]
  BY <1>0, <1>1, <1>2, <1>4, NoReqType DEF TypeInv, ReqType
<1>6. TypeInv'
  <2>1. disk[u] \in Layer BY <1>0 DEF TypeInv
  <2>2. Put(disk[u], p, v) \in Layer BY <2>1, PutLayer
  <2>3. disk' \in [Uppers -> Layer] BY <1>0, <1>4, <2>2 DEF TypeInv
  <2>4. want' \in [Paths -> Entry] BY <1>0, <1>5 DEF TypeInv
  <2>5. QED BY <1>0, <1>1, <1>2, <1>5, <2>3, <2>4 DEF TypeInv
<1>7. MutexInv' /\ PackInv' BY <1>0, <1>1, MutexKept, PackKept DEF pvc
<1>8. ServedInv' /\ HandleInv' /\ StaleInv'
  <2>1. /\ ServedInv /\ HandleInv /\ StaleInv
        /\ p \in adrift \/ (u = root /\ req.via2 = root /\ Shown(p) # Absent)
        /\ (u = root \/ (p \in adrift /\ req.q \in adrift)) /\ (req.via2 = root \/ (p \in adrift /\ req.q \in adrift))
    BY <1>1, <1>2 DEF IInv, ServedInv, HandleInv
  <2>2. (u = root => Shown(p)' = v) /\ \A x \in Paths : x # p => Shown(x)' = Shown(x)
    BY <1>0, <1>1, <1>4, PutAt
  <2>3. ServedInv'
    <3>1. \A x \in Paths \ adrift : Shown(x)' = want'[x] \/ (req'.pc = "flush" /\ x = req'.p)
      <4>1. SUFFICES ASSUME NEW x \in Paths \ adrift PROVE Shown(x)' = want'[x] \/ (req'.pc = "flush" /\ x = req'.p)
        OBVIOUS
      <4>2. CASE x = p BY <1>0, <1>5, <2>1, <2>2, <4>2 DEF TypeInv
      <4>3. CASE x # p
        <5>1. Shown(x)' = want[x] BY <1>2, <2>1, <2>2, <4>3 DEF ServedInv
        <5>2. want'[x] = want[x] BY <1>0, <1>5, <4>3 DEF TypeInv
        <5>3. QED BY <5>1, <5>2
      <4>4. QED BY <4>2, <4>3
    <3>2. QED BY <1>1, <1>2, <1>5, <2>1, <3>1 DEF ServedInv
  <2>4. HandleInv'
    <3>1. hnd # NoHandle => hnd.p \in Paths BY <1>0 DEF TypeInv
    <3>2. Shown(p)' # Absent \/ p \in adrift BY <2>1, <2>2
    <3>3. hnd # NoHandle => Shown(hnd.p)' # Absent \/ hnd.p \in adrift
      <4>1. SUFFICES ASSUME hnd # NoHandle, hnd.p # p PROVE Shown(hnd.p)' # Absent \/ hnd.p \in adrift
        BY <1>1, <3>2 DEF Shown
      <4>2. PICK x \in Paths : x = hnd.p /\ x # p BY <3>1, <4>1
      <4>3. Shown(x)' = Shown(x) /\ (Shown(x) # Absent \/ x \in adrift) BY <2>1, <2>2, <4>1, <4>2 DEF HandleInv
      <4>4. QED BY <1>1, <4>2, <4>3 DEF Shown
    <3>4. QED BY <1>1, <1>5, <3>2, <3>3 DEF HandleInv, Shown
  <2>5. \A e \in kc' : Stale(e)' => e \in kc /\ Stale(e)
    <3>1. SUFFICES ASSUME NEW e \in kc, Stale(e)' PROVE Stale(e) BY <1>1
    <3>2. e[1] \in Paths BY <1>0, <3>1 DEF TypeInv
    <3>3. QED BY <1>1, <2>1, <2>2, <3>1, <3>2 DEF Stale
  <2>6. StaleInv' BY <1>1, <2>1, <2>5, StaleKept
  <2>7. QED BY <2>3, <2>4, <2>6
<1>9. QED BY <1>1, <1>6, <1>7, <1>8 DEF IInv

-----------------------------------------------------------------------------
(* The boot agent and the control requests.                                  *)

LEMMA PrepareStep == ASSUME IInv, NEW u \in Uppers, Prepare(u) PROVE IInv'
<1>0. TypeInv /\ MutexInv /\ PackInv BY DEF IInv
<1>1. /\ UNCHANGED <<opts, root, wlock, upper, mux, cl, req, hnd, kc, ops, want, adrift>>
      /\ u \notin made /\ made' = made \cup {u} /\ disk' = [disk EXCEPT ![u] = disk[root]]
  BY DEF Prepare, work
<1>2. root \in Uppers /\ root # u BY <1>0, <1>1 DEF TypeInv
<1>3. TypeInv' /\ disk'[root] = disk[root] BY <1>0, <1>1, <1>2 DEF TypeInv
<1>4. MutexInv' BY <1>0, <1>1 DEF MutexInv, MutexOf
<1>5. PackInv' BY <1>0, <1>1, <1>3, PackKept
<1>6. ServedInv' /\ HandleInv' /\ StaleInv'
  <2>1. ServedInv /\ HandleInv /\ StaleInv BY DEF IInv
  <2>2. ServedInv' /\ HandleInv' BY <1>1, <1>3, <2>1 DEF ServedInv, HandleInv, Shown
  <2>3. StaleInv' BY <1>1, <1>3, <2>1, StaleKept DEF Stale, Shown
  <2>4. QED BY <2>2, <2>3
<1>7. QED BY <1>1, <1>3, <1>4, <1>5, <1>6 DEF IInv

\* A step of one request that leaves the mounted tree alone; names may be tagged.
LEMMA TaggingStep ==
  ASSUME IInv, NEW c \in Clients, NEW r \in ClientType,
         cl' = [cl EXCEPT ![c] = r],
         UNCHANGED <<opts, disk, made, root, req, hnd, ops, want, adrift>>,
         upper' \in Uppers, kc' \subseteq Paths \X (Uppers \cup {None}), \A e \in kc' : Stale(e) => e \in kc,
         \A d \in Clients \ {c} : cl[d].pc \in Held => mux' = d /\ upper' = upper,
         upper' = root \/ (upper' = upper /\ (cl[c].pc \in {"stored", "fields"} => r.pc \in {"stored", "fields"})),
         MutexOf(c, r)', PackOf(r)',
         \A e \in kc' : Stale(e) /\ ToDrop(e, cl[c]) => ToDrop(e, r)
  PROVE  IInv'
<1>0. TypeInv /\ MutexInv /\ PackInv BY DEF IInv
<1>1. cl \in [Clients -> ClientType] BY <1>0 DEF TypeInv
<1>2. cl'[c] = r /\ \A d \in Clients \ {c} : cl'[d] = cl[d] BY <1>1
<1>3. cl' \in [Clients -> ClientType] BY <1>1
<1>4. TypeInv' BY <1>0, <1>3 DEF TypeInv
<1>5. MutexInv'
  <2>1. ASSUME NEW d \in Clients PROVE MutexOf(d, cl[d])'
    <3>1. CASE d = c BY <1>2, <3>1
    <3>2. CASE d # c BY <1>0, <1>2, <3>2 DEF MutexInv, MutexOf, Held
    <3>3. QED BY <3>1, <3>2
  <2>2. (upper = root \/ \E d \in Clients : cl[d].pc \in {"stored", "fields"})'
    BY <1>0, <1>2 DEF MutexInv
  <2>3. QED BY <2>1, <2>2 DEF MutexInv
<1>6. PackInv'
  <2>1. ASSUME NEW d \in Clients PROVE PackOf(cl[d])'
    <3>1. CASE d = c BY <1>2, <3>1
    <3>2. CASE d # c BY <1>0, <1>2, <3>2 DEF PackInv, PackOf
    <3>3. QED BY <3>1, <3>2
  <2>2. QED BY <2>1 DEF PackInv
<1>7. ServedInv' /\ HandleInv' /\ StaleInv'
  <2>1. ServedInv /\ HandleInv /\ StaleInv BY DEF IInv
  <2>2. ServedInv' /\ HandleInv' BY <2>1 DEF ServedInv, HandleInv, Shown
  <2>3. StaleInv'
    <3>1. SUFFICES ASSUME NEW e \in kc', Stale(e) PROVE \E d \in Clients : ToDrop(e, cl'[d])
      BY DEF StaleInv, Stale, Shown
    <3>2. PICK d \in Clients : ToDrop(e, cl[d]) BY <2>1, <3>1 DEF StaleInv
    <3>3. ToDrop(e, cl'[d]) BY <1>2, <3>1, <3>2
    <3>4. QED BY <3>3
  <2>4. QED BY <2>2, <2>3
<1>8. QED BY <1>4, <1>5, <1>6, <1>7 DEF IInv

\* The same, where names are at most dropped.
LEMMA ClientStep ==
  ASSUME IInv, NEW c \in Clients, NEW r \in ClientType,
         cl' = [cl EXCEPT ![c] = r],
         UNCHANGED <<opts, disk, made, root, req, hnd, ops, want, adrift>>,
         upper' \in Uppers, kc' \subseteq kc,
         \A d \in Clients \ {c} : cl[d].pc \in Held => mux' = d /\ upper' = upper,
         upper' = root \/ (upper' = upper /\ (cl[c].pc \in {"stored", "fields"} => r.pc \in {"stored", "fields"})),
         MutexOf(c, r)', PackOf(r)',
         \A e \in kc' : Stale(e) /\ ToDrop(e, cl[c]) => ToDrop(e, r)
  PROVE  IInv'
<1>1. kc' \subseteq Paths \X (Uppers \cup {None}) BY DEF IInv, TypeInv
<1>2. QED BY <1>1, TaggingStep

LEMMA IdleType == Idle \in ClientType /\ NoBlob \in Layer /\ \A c \in Clients : c # None
  BY PvcAssumption, NoReqType DEF Idle, NoBlob, ClientType, Layer

\* A request is answered; the mutex, if it was held, is free.
LEMMA ReplyStep ==
  ASSUME IInv, NEW c \in Clients, NEW pc \in {"ok", "error"}, Reply(c, pc),
         UNCHANGED <<opts, disk, made, root, upper, work, adrift>>,
         mux' = mux \/ (cl[c].pc \in Held /\ mux' = None),
         cl[c].pc \notin {"stored", "fields", "inval"}, cl[c].pc = "notify" => cl[c].todo = {}
  PROVE  IInv'
<1>0. TypeInv /\ MutexInv BY DEF IInv
<1>1. PICK r \in ClientType : r = [Idle EXCEPT !.pc = pc] BY IdleType DEF ClientType
<1>2. r.pc = pc /\ cl' = [cl EXCEPT ![c] = r] BY <1>1 DEF Idle, Reply
<1>3. UNCHANGED <<req, hnd, kc, ops, want>> BY DEF work
<1>4. \A d \in Clients \ {c} : cl[d].pc \in Held => mux' = d BY <1>0 DEF MutexInv, MutexOf
<1>5. MutexOf(c, r)' /\ PackOf(r)' BY <1>2 DEF MutexOf, PackOf, Held
<1>6. \A e \in kc : ~ToDrop(e, cl[c]) BY DEF ToDrop
<1>7. upper \in Uppers BY <1>0 DEF TypeInv
<1>8. QED BY <1>2, <1>3, <1>4, <1>5, <1>6, <1>7, ClientStep

LEMMA AskedStep ==
  ASSUME IInv, NEW c \in Clients, NEW u \in Uppers, AskPivot(c, u) \/ AskCapture(c)
  PROVE  IInv'
<1>0. TypeInv /\ MutexInv BY DEF IInv
<1>1. PICK r \in ClientType :
        /\ r = [Idle EXCEPT !.pc = "check", !.kind = "pivot", !.to = u] \/ r = [Idle EXCEPT !.pc = "lock", !.kind = "capture"]
        /\ cl' = [cl EXCEPT ![c] = r]
  BY IdleType DEF ClientType, AskPivot, AskCapture
<1>2. r.pc = "check" \/ (r.pc = "lock" /\ r.kind = "capture") BY <1>1, IdleType DEF Idle
<1>3. UNCHANGED <<opts, disk, made, root, upper, mux, req, hnd, kc, ops, want, adrift>> /\ cl[c].pc = "new"
  BY DEF AskPivot, AskCapture, work
<1>4. \A d \in Clients \ {c} : cl[d].pc \in Held => mux' = d BY <1>0, <1>3 DEF MutexInv, MutexOf
<1>5. MutexOf(c, r)' /\ PackOf(r)' BY <1>2 DEF MutexOf, PackOf, Held
<1>6. \A e \in kc : ~ToDrop(e, cl[c]) BY <1>3 DEF ToDrop
<1>7. upper \in Uppers BY <1>0 DEF TypeInv
<1>8. QED BY <1>1, <1>3, <1>4, <1>5, <1>6, <1>7, ClientStep

LEMMA CheckStep == ASSUME IInv, NEW c \in Clients, PivotCheck(c) PROVE IInv'
<1>0. TypeInv /\ MutexInv BY DEF IInv
<1>1. UNCHANGED <<opts, disk, made, root, upper, mux, work, adrift>> /\ cl[c].pc = "check" BY DEF PivotCheck
<1>2. CASE cl[c].to \notin made
  <2>1. Reply(c, "error") BY <1>2 DEF PivotCheck
  <2>2. QED BY <1>1, <2>1, ReplyStep
<1>3. CASE cl[c].to \in made
  <2>1. PICK r : r = [cl[c] EXCEPT !.pc = "lock"] OBVIOUS
  <2>2. cl' = [cl EXCEPT ![c] = r] BY <1>3, <2>1 DEF PivotCheck, Step
  <2>3. r \in ClientType /\ r.pc = "lock" /\ r.to = cl[c].to BY <1>0, <2>1 DEF TypeInv, ClientType
  <2>4. \A d \in Clients \ {c} : cl[d].pc \in Held => mux' = d BY <1>0, <1>1 DEF MutexInv, MutexOf
  <2>5. MutexOf(c, r)' /\ PackOf(r)' BY <1>1, <1>3, <2>3 DEF MutexOf, PackOf, Held
  <2>6. \A e \in kc : ~ToDrop(e, cl[c]) BY <1>1 DEF ToDrop
  <2>7. upper \in Uppers BY <1>0 DEF TypeInv
  <2>8. QED BY <1>1, <2>2, <2>3, <2>4, <2>5, <2>6, <2>7, ClientStep DEF work
<1>4. QED BY <1>2, <1>3

LEMMA LockStep == ASSUME IInv, NEW c \in Clients, Lock(c) PROVE IInv'
<1>0. TypeInv /\ MutexInv BY DEF IInv
<1>1. /\ UNCHANGED <<opts, disk, made, root, upper, work, adrift>>
      /\ cl[c].pc = "lock" /\ mux = None /\ mux' = c
  BY DEF Lock
<1>2. PICK r : r = [cl[c] EXCEPT !.pc = IF cl[c].kind = "pivot" THEN "pivot" ELSE "list"] OBVIOUS
<1>3. cl' = [cl EXCEPT ![c] = r] BY <1>2 DEF Lock, Step
<1>4. /\ r \in ClientType /\ r.to = cl[c].to /\ r.kind = cl[c].kind
      /\ \/ r.pc = "pivot" /\ r.kind = "pivot"
         \/ r.pc = "list"
  BY <1>0, <1>2 DEF TypeInv, ClientType, Held
<1>5. \A d \in Clients \ {c} : cl[d].pc \notin Held BY <1>0, <1>1, IdleType DEF MutexInv, MutexOf
<1>6. MutexOf(c, r)'
  <2>1. MutexOf(c, cl[c]) BY <1>0 DEF MutexInv
  <2>2. QED BY <1>1, <1>4, <2>1 DEF MutexOf
<1>7. PackOf(r)' BY <1>4 DEF PackOf
<1>8. \A e \in kc : ~ToDrop(e, cl[c]) BY <1>1 DEF ToDrop
<1>9. upper \in Uppers BY <1>0 DEF TypeInv
<1>10. QED BY <1>1, <1>3, <1>4, <1>5, <1>6, <1>7, <1>8, <1>9, ClientStep DEF work

\* What the new tree has as the old one had it stays with the history, the rest
\* and the files of a call on the old tree go adrift; the names that are cached
\* are left to this pivot.
LEMMA StoreStep == ASSUME IInv, NEW c \in Clients, PivotStore(c) PROVE IInv'
<1>0. TypeInv /\ MutexInv /\ PackInv BY DEF IInv
<1>1. /\ UNCHANGED <<opts, disk, made, upper, mux, req, hnd, kc, ops, want>>
      /\ cl[c].pc = "pivot" /\ root' = cl[c].to
      /\ adrift' = adrift \cup {p \in Paths : Resolve(cl[c].to, p) # Resolve(root, p)}
                         \cup (IF req.pc \in {"fetch2", "exec", "flush"} THEN {req.p, req.q} ELSE {})
  BY DEF PivotStore, work
<1>2. PICK r : r = [cl[c] EXCEPT !.pc = "stored"] OBVIOUS
<1>3. cl' = [cl EXCEPT ![c] = r] BY <1>2 DEF PivotStore, Step
<1>4. r \in ClientType /\ r.pc = "stored" /\ r.to = root' BY <1>0, <1>1, <1>2 DEF TypeInv, ClientType, Held
<1>5. cl \in [Clients -> ClientType] BY <1>0 DEF TypeInv
<1>6. cl'[c] = r /\ \A d \in Clients \ {c} : cl'[d] = cl[d] BY <1>3, <1>5
<1>7. \A d \in Clients \ {c} : cl[d].pc \notin Held
  BY <1>0, <1>1 DEF MutexInv, MutexOf, Held
<1>8. root' \in made /\ mux = c BY <1>0, <1>1 DEF MutexInv, MutexOf, Held
<1>9. TypeInv'
  <2>1. cl' \in [Clients -> ClientType] BY <1>3, <1>4, <1>5
  <2>2. adrift' \subseteq Paths BY <1>0, <1>1 DEF TypeInv
  <2>3. QED BY <1>0, <1>1, <1>8, <2>1, <2>2 DEF TypeInv
<1>10. MutexInv'
  <2>1. ASSUME NEW d \in Clients PROVE MutexOf(d, cl[d])'
    <3>1. CASE d = c BY <1>1, <1>4, <1>6, <1>8, <3>1 DEF MutexOf
    <3>2. CASE d # c BY <1>0, <1>1, <1>6, <1>7, <3>2 DEF MutexInv, MutexOf, Held
    <3>3. QED BY <3>1, <3>2
  <2>2. QED BY <1>4, <1>6, <2>1 DEF MutexInv
<1>11. PackInv' BY <1>4, <1>6, <1>7 DEF PackInv, PackOf, Held
<1>12. ServedInv' /\ HandleInv' /\ StaleInv'
  <2>1. ServedInv /\ HandleInv BY DEF IInv
  <2>2. adrift \subseteq adrift' /\ \A x \in Paths \ adrift' : Shown(x)' = Shown(x)
    <3>1. \A x : Resolve(cl[c].to, x) = Shown(x)' /\ Resolve(root, x) = Shown(x) BY <1>1, ResolveSeen DEF Shown
    <3>2. QED BY <1>1, <3>1
  <2>3. req.pc \in {"fetch2", "exec", "flush"} => req.p \in adrift' /\ req.q \in adrift' BY <1>1
  <2>4. ServedInv' BY <1>1, <2>1, <2>2, <2>3 DEF ServedInv
  <2>5. HandleInv'
    <3>1. \A x \in Paths : Shown(x) # Absent \/ x \in adrift => Shown(x)' # Absent \/ x \in adrift' BY <2>2
    <3>2. hnd # NoHandle => Shown(hnd.p)' # Absent \/ hnd.p \in adrift'
      <4>1. SUFFICES ASSUME hnd # NoHandle PROVE Shown(hnd.p)' # Absent \/ hnd.p \in adrift' OBVIOUS
      <4>2. PICK x \in Paths : x = hnd.p BY <1>0, <4>1 DEF TypeInv
      <4>3. Shown(x) # Absent \/ x \in adrift BY <2>1, <4>1, <4>2 DEF HandleInv
      <4>4. Shown(x)' # Absent \/ x \in adrift' BY <3>1, <4>3
      <4>5. QED BY <1>1, <4>2, <4>4 DEF Shown
    <3>3. req.pc # "idle" /\ req.op = "release" => Shown(req.p)' # Absent \/ req.p \in adrift'
      <4>1. SUFFICES ASSUME req.pc # "idle", req.op = "release" PROVE Shown(req.p)' # Absent \/ req.p \in adrift' OBVIOUS
      <4>2. PICK x \in Paths : x = req.p BY <1>0, <4>1 DEF TypeInv
      <4>3. Shown(x) # Absent \/ x \in adrift BY <2>1, <4>1, <4>2 DEF HandleInv
      <4>4. Shown(x)' # Absent \/ x \in adrift' BY <3>1, <4>3
      <4>5. QED BY <1>1, <4>2, <4>4 DEF Shown
    <3>4. QED BY <1>1, <2>1, <3>2, <3>3 DEF HandleInv, Shown
  <2>6. StaleInv' BY <1>4, <1>6 DEF StaleInv, ToDrop
  <2>7. QED BY <2>4, <2>5, <2>6
<1>13. QED BY <1>9, <1>10, <1>11, <1>12 DEF IInv

LEMMA PivotEndStep ==
  ASSUME IInv, NEW c \in Clients, PivotRelease(c) \/ PivotFields(c) PROVE IInv'
<1>0. TypeInv /\ MutexInv BY DEF IInv
<1>1. /\ UNCHANGED <<opts, disk, made, root, work, adrift>>
      /\ \/ cl[c].pc = "stored" /\ UNCHANGED <<upper, mux>>
         \/ cl[c].pc = "fields" /\ upper' = cl[c].to /\ mux' = None
  BY DEF PivotRelease, PivotFields
<1>2. PICK x \in {"fields", "inval"} : x = IF cl[c].pc = "stored" THEN "fields" ELSE "inval" OBVIOUS
<1>3. PICK r : r = [cl[c] EXCEPT !.pc = x] OBVIOUS
<1>4. cl' = [cl EXCEPT ![c] = r] BY <1>2, <1>3 DEF PivotRelease, PivotFields, Step
<1>5. r \in ClientType /\ r.pc = x /\ r.to = cl[c].to /\ r.kind = cl[c].kind
  BY <1>0, <1>2, <1>3 DEF TypeInv, ClientType, Held
<1>6. mux = c /\ cl[c].to = root /\ root \in Uppers /\ upper \in Uppers
  BY <1>0, <1>1 DEF MutexInv, MutexOf, Held, TypeInv
<1>7. \A d \in Clients \ {c} : cl[d].pc \notin Held BY <1>0, <1>6 DEF MutexInv, MutexOf
<1>8. MutexOf(c, r)' /\ PackOf(r)' BY <1>1, <1>2, <1>5, <1>6 DEF MutexOf, PackOf, Held
<1>9. \A e \in kc : ToDrop(e, r) BY <1>5 DEF ToDrop
<1>10. QED BY <1>1, <1>2, <1>4, <1>5, <1>6, <1>7, <1>8, <1>9, ClientStep DEF work

\* What is left of the requests that end in a reply.
LEMMA AnswerStep ==
  ASSUME IInv, NEW c \in Clients, PivotRefused(c) \/ PivotReply(c) \/ CaptureReply(c) PROVE IInv'
<1>1. CASE PivotRefused(c) BY <1>1, ReplyStep DEF PivotRefused, Held
<1>2. CASE PivotReply(c) BY <1>2, ReplyStep DEF PivotReply
<1>3. CASE CaptureReply(c) BY <1>3, ReplyStep DEF CaptureReply, Held
<1>4. QED BY <1>1, <1>2, <1>3

\* Every stale name is one of the tree, and so on the list.
LEMMA InvalListStep == ASSUME IInv, NEW c \in Clients, InvalList(c) PROVE IInv'
<1>0. TypeInv /\ MutexInv BY DEF IInv
<1>1. UNCHANGED <<opts, disk, made, root, upper, mux, work, adrift>> /\ cl[c].pc = "inval" BY DEF InvalList
<1>2. PICK T \in SUBSET Paths : T = {p \in Paths : Shown(p) # Absent} OBVIOUS
<1>3. PICK r : r = [cl[c] EXCEPT !.pc = "notify", !.todo = T] OBVIOUS
<1>4. cl' = [cl EXCEPT ![c] = r] BY <1>2, <1>3, ResolveSeen DEF InvalList, Shown
<1>5. r \in ClientType /\ r.pc = "notify" /\ r.todo = T BY <1>0, <1>3 DEF TypeInv, ClientType
<1>6. \A d \in Clients \ {c} : cl[d].pc \in Held => mux' = d BY <1>0, <1>1 DEF MutexInv, MutexOf
<1>7. MutexOf(c, r)' /\ PackOf(r)' BY <1>5 DEF MutexOf, PackOf, Held
<1>8. \A e \in kc : Stale(e) => ToDrop(e, r) BY <1>0, <1>2, <1>5 DEF TypeInv, Stale, ToDrop
<1>9. upper \in Uppers BY <1>0 DEF TypeInv
<1>10. QED BY <1>1, <1>4, <1>5, <1>6, <1>7, <1>8, <1>9, ClientStep DEF work

\* A name that is kept is no longer counted stale.
LEMMA InvalFailsStep ==
  ASSUME IInv, NEW c \in Clients, InvalListFails(c) \/ \E p \in Paths : InvalEntryFails(c, p)
  PROVE  IInv'
<1>0. TypeInv /\ MutexInv BY DEF IInv
<1>1. UNCHANGED <<opts, disk, made, root, upper, mux, req, hnd, ops, want, adrift>> /\ cl[c].pc \in {"inval", "notify"}
  BY DEF InvalListFails, InvalEntryFails
<1>2. PICK S, T : /\ (S = Paths /\ T = {}) \/ (T = cl[c].todo \ S /\ cl[c].pc = "notify")
                  /\ kc' = Kept(S)
                  /\ cl' = [cl EXCEPT ![c] = [cl[c] EXCEPT !.pc = "notify", !.todo = T]]
  <2>1. CASE InvalListFails(c) BY <2>1 DEF InvalListFails
  <2>2. ASSUME NEW p \in Paths, InvalEntryFails(c, p) PROVE \E S, T : /\ (S = Paths /\ T = {}) \/ (T = cl[c].todo \ S /\ cl[c].pc = "notify")
                  /\ kc' = Kept(S)
                  /\ cl' = [cl EXCEPT ![c] = [cl[c] EXCEPT !.pc = "notify", !.todo = T]]
    <3>1. cl[c].pc = "notify" BY <2>2 DEF InvalEntryFails
    <3>2. [cl[c] EXCEPT !.pc = "notify", !.todo = cl[c].todo \ {p}] = [cl[c] EXCEPT !.todo = cl[c].todo \ {p}]
      BY <1>0, <3>1 DEF TypeInv, ClientType
    <3>3. kc' = Kept({p}) /\ cl' = [cl EXCEPT ![c] = [cl[c] EXCEPT !.todo = cl[c].todo \ {p}]]
      BY <2>2 DEF InvalEntryFails
    <3>4. QED BY <3>1, <3>2, <3>3
  <2>3. QED BY <2>1, <2>2
<1>3. T \subseteq Paths BY <1>0, <1>2 DEF TypeInv, ClientType
<1>4. PICK r \in ClientType : r = [cl[c] EXCEPT !.pc = "notify", !.todo = T] BY <1>0, <1>3 DEF TypeInv, ClientType
<1>5. r.pc = "notify" /\ r.todo = T /\ cl' = [cl EXCEPT ![c] = r] BY <1>0, <1>2, <1>4 DEF TypeInv, ClientType
<1>6. \A d \in Clients \ {c} : cl[d].pc \in Held => mux' = d BY <1>0, <1>1 DEF MutexInv, MutexOf
<1>7. MutexOf(c, r)' /\ PackOf(r)' BY <1>5 DEF MutexOf, PackOf, Held
<1>8. ASSUME NEW e \in kc'
      PROVE  /\ e \in Paths \X (Uppers \cup {None})
             /\ Stale(e) => e \in kc /\ (ToDrop(e, cl[c]) => ToDrop(e, r))
  <2>1. PICK f \in kc : e = IF f[1] \in S /\ f[2] # root THEN <<f[1], None>> ELSE f BY <1>2, <1>8 DEF Kept
  <2>2. PICK x \in Paths, t \in Uppers \cup {None} : f = <<x, t>> BY <1>0, <2>1 DEF TypeInv
  <2>3. CASE x \in S /\ t # root
    <3>1. e = <<x, None>> BY <2>1, <2>2, <2>3
    <3>2. QED BY <3>1 DEF Stale
  <2>4. CASE ~(x \in S /\ t # root)
    <3>1. e = <<x, t>> /\ e \in kc BY <2>1, <2>2, <2>4
    <3>2. Stale(e) => S # Paths /\ x \notin S BY <1>2, <2>4, <3>1 DEF Stale
    <3>3. Stale(e) => (ToDrop(e, cl[c]) => ToDrop(e, r)) BY <1>2, <1>5, <3>1, <3>2 DEF ToDrop
    <3>4. QED BY <3>1, <3>3
  <2>5. QED BY <2>3, <2>4
<1>9. upper \in Uppers BY <1>0 DEF TypeInv
<1>10. QED BY <1>1, <1>5, <1>6, <1>7, <1>8, <1>9, TaggingStep

LEMMA InvalEntryStep == ASSUME IInv, NEW c \in Clients, NEW p \in Paths, InvalEntry(c, p) PROVE IInv'
<1>0. TypeInv /\ MutexInv BY DEF IInv
<1>1. /\ UNCHANGED <<opts, disk, made, root, upper, mux, req, hnd, ops, want, adrift>>
      /\ cl[c].pc = "notify" /\ kc' = Uncache(p)
  BY DEF InvalEntry
<1>2. PICK r : r = [cl[c] EXCEPT !.todo = @ \ {p}] OBVIOUS
<1>3. cl' = [cl EXCEPT ![c] = r] BY <1>2 DEF InvalEntry
<1>4. r \in ClientType /\ r.pc = "notify" /\ r.todo = cl[c].todo \ {p} BY <1>0, <1>1, <1>2 DEF TypeInv, ClientType
<1>5. \A d \in Clients \ {c} : cl[d].pc \in Held => mux' = d BY <1>0, <1>1 DEF MutexInv, MutexOf
<1>6. MutexOf(c, r)' /\ PackOf(r)' BY <1>4 DEF MutexOf, PackOf, Held
<1>7. kc' \subseteq kc /\ \A e \in kc' : ToDrop(e, cl[c]) => ToDrop(e, r) BY <1>1, <1>4 DEF ToDrop, Uncache
<1>8. upper \in Uppers BY <1>0 DEF TypeInv
<1>9. QED BY <1>1, <1>3, <1>4, <1>5, <1>6, <1>7, <1>8, ClientStep

\* With the mutex held outside a pivot, the upper to pack is the mounted one.
LEMMA HeldUpper ==
  ASSUME TypeInv, MutexInv, NEW c \in Clients, cl[c].pc \in {"list", "pack"}
  PROVE  upper = root /\ mux = c /\ \A d \in Clients \ {c} : cl[d].pc \notin Held
<1>1. mux = c /\ \A d \in Clients \ {c} : cl[d].pc \notin Held BY DEF MutexInv, MutexOf, Held
<1>2. QED BY <1>1 DEF MutexInv, Held

LEMMA CaptureListStep == ASSUME IInv, NEW c \in Clients, CaptureList(c) PROVE IInv'
<1>0. TypeInv /\ MutexInv BY DEF IInv
<1>1. UNCHANGED <<opts, disk, made, root, upper, mux, work, adrift>> /\ cl[c].pc = "list" BY DEF CaptureList
<1>2. upper = root /\ mux = c /\ \A d \in Clients \ {c} : cl[d].pc \notin Held BY <1>0, <1>1, HeldUpper
<1>3. PICK D \in Layer : D = disk[upper] BY <1>0 DEF TypeInv
<1>4. PICK a \in Nat : a = IF req.pc = "idle" THEN ops ELSE MaxOps + 1 BY <1>0, PvcAssumption DEF TypeInv
<1>5. PICK b : b = [NoBlob EXCEPT !.opq = D.opq] OBVIOUS
<1>6. b \in Layer /\ b.wh = {} /\ b.opq = D.opq /\ \A p \in Paths : b.ent[p] = Absent
  BY <1>5, IdleType DEF NoBlob, Layer
<1>7. PICK T \in SUBSET Paths, W \in SUBSET Paths : T = {p \in Paths : D.ent[p] # Absent} /\ W = D.wh BY DEF Layer
<1>8. PICK r : r = [cl[c] EXCEPT !.pc = "pack", !.to = upper, !.todo = T, !.names = W, !.blob = b, !.at = a] OBVIOUS
<1>9. /\ cl' = [cl EXCEPT ![c] = r]
      /\ r \in ClientType /\ r.pc = "pack" /\ r.to = upper /\ r.todo = T /\ r.names = W /\ r.blob = b /\ r.at = a
  <2>1. cl' = [cl EXCEPT ![c] = r] BY <1>3, <1>4, <1>5, <1>7, <1>8 DEF CaptureList
  <2>2. upper \in Uppers /\ cl[c] \in ClientType BY <1>0 DEF TypeInv
  <2>3. r \in ClientType /\ r.pc = "pack" /\ r.to = upper /\ r.todo = T /\ r.names = W /\ r.blob = b /\ r.at = a
    BY <1>6, <1>8, <2>2 DEF ClientType, Held
  <2>4. QED BY <2>1, <2>3
<1>10. MutexOf(c, r)' BY <1>1, <1>2, <1>9 DEF MutexOf
<1>11. PackOf(r)'
  <2>1. ops \in 0..MaxOps /\ MaxOps \in Nat BY <1>0, PvcAssumption DEF TypeInv
  <2>2. a <= ops \/ a = MaxOps + 1 BY <1>4, <2>1
  <2>3. a = ops => req.pc = "idle" BY <1>4, <2>1
  <2>4. \A p \in Paths : b.ent[p] = IF p \in r.todo THEN Absent ELSE D.ent[p] BY <1>6, <1>7, <1>9
  <2>5. QED BY <1>1, <1>2, <1>3, <1>6, <1>7, <1>9, <2>2, <2>3, <2>4 DEF PackOf, work
<1>12. \A e \in kc : ~ToDrop(e, cl[c]) BY <1>1 DEF ToDrop
<1>13. upper \in Uppers BY <1>0 DEF TypeInv
<1>14. QED BY <1>1, <1>2, <1>9, <1>10, <1>11, <1>12, <1>13, ClientStep DEF work

LEMMA PackMarkerStep == ASSUME IInv, NEW c \in Clients, PackMarker(c) PROVE IInv'
<1>0. TypeInv /\ MutexInv /\ PackOf(cl[c]) BY DEF IInv, PackInv
<1>1. UNCHANGED <<opts, disk, made, root, upper, work, adrift>> /\ cl[c].pc = "pack" BY DEF PackMarker
<1>2. PICK p \in cl[c].names :
         IF p \in disk[cl[c].to].wh
         THEN cl' = [cl EXCEPT ![c].names = @ \ {p}, ![c].blob.wh = @ \cup {p}] /\ UNCHANGED mux
         ELSE Reply(c, "error") /\ mux' = None
  BY DEF PackMarker
<1>3. CASE p \notin disk[cl[c].to].wh BY <1>1, <1>2, <1>3, ReplyStep DEF Held
<1>4. CASE p \in disk[cl[c].to].wh
  <2>1. PICK r : r = [cl[c] EXCEPT !.names = @ \ {p}, !.blob.wh = @ \cup {p}] OBVIOUS
  <2>2. cl' = [cl EXCEPT ![c] = r] /\ mux' = mux BY <1>2, <1>4, <2>1
  <2>3. p \in Paths BY <1>0 DEF TypeInv, ClientType
  <2>4. /\ r \in ClientType /\ r.pc = "pack" /\ r.to = cl[c].to /\ r.at = cl[c].at /\ r.todo = cl[c].todo
        /\ r.names = cl[c].names \ {p} /\ r.blob.wh = cl[c].blob.wh \cup {p}
        /\ r.blob.ent = cl[c].blob.ent /\ r.blob.opq = cl[c].blob.opq
    BY <1>0, <1>1, <2>1, <2>3 DEF TypeInv, ClientType, Layer
  <2>5. upper = root /\ mux = c /\ \A d \in Clients \ {c} : cl[d].pc \notin Held BY <1>0, <1>1, HeldUpper
  <2>6. MutexOf(c, r)'
    <3>1. MutexOf(c, cl[c]) BY <1>0 DEF MutexInv
    <3>2. QED BY <1>1, <2>2, <2>4, <2>5, <3>1 DEF MutexOf
  <2>7. PackOf(r)'
    <3>1. r.blob.wh \cup r.names = cl[c].blob.wh \cup cl[c].names BY <1>2, <2>4
    <3>2. QED BY <1>0, <1>1, <2>4, <3>1 DEF PackOf, work
  <2>8. \A e \in kc : ~ToDrop(e, cl[c]) BY <1>1 DEF ToDrop
  <2>9. upper \in Uppers BY <1>0 DEF TypeInv
  <2>10. QED BY <1>1, <2>2, <2>4, <2>5, <2>6, <2>7, <2>8, <2>9, ClientStep DEF work
<1>5. QED BY <1>3, <1>4

\* A client's record with one more file in its blob.
Repacked(k, p, v) == [k EXCEPT !.todo = @ \ {p}, !.blob.ent[p] = v]

LEMMA Packed ==
  ASSUME NEW k \in ClientType, NEW p \in Paths, NEW v \in Entry
  PROVE  LET r == Repacked(k, p, v) IN
         /\ r \in ClientType /\ r.pc = k.pc /\ r.to = k.to /\ r.at = k.at /\ r.names = k.names
         /\ r.todo = k.todo \ {p} /\ r.blob.wh = k.blob.wh /\ r.blob.opq = k.blob.opq
         /\ r.blob.ent[p] = v /\ \A x \in Paths : x # p => r.blob.ent[x] = k.blob.ent[x]
<1>1. k.blob \in Layer /\ k.todo \in SUBSET Paths BY DEF ClientType
<1>2. PICK f : f = [k.blob.ent EXCEPT ![p] = v] OBVIOUS
<1>3. /\ f \in [Paths -> Entry] /\ f[p] = v
      /\ \A x \in Paths : x # p => f[x] = k.blob.ent[x]
  BY <1>1, <1>2 DEF Layer
<1>4. PICK b : b = [k.blob EXCEPT !.ent = f] OBVIOUS
<1>5. b \in Layer /\ b.ent = f /\ b.wh = k.blob.wh /\ b.opq = k.blob.opq BY <1>1, <1>3, <1>4 DEF Layer
<1>6. PICK t : t = k.todo \ {p} OBVIOUS
<1>7. PICK r : r = [k EXCEPT !.todo = t, !.blob = b] OBVIOUS
<1>8. r = Repacked(k, p, v) BY <1>1, <1>2, <1>4, <1>6, <1>7 DEF Repacked, ClientType, Layer
<1>9. t \in SUBSET Paths BY <1>1, <1>6
<1>10. r \in ClientType BY <1>5, <1>7, <1>9 DEF ClientType
<1>11. r.pc = k.pc /\ r.to = k.to /\ r.at = k.at /\ r.names = k.names /\ r.todo = t /\ r.blob = b
  BY <1>7 DEF ClientType
<1>12. QED BY <1>3, <1>5, <1>6, <1>8, <1>10, <1>11

LEMMA PackFileStep == ASSUME IInv, NEW c \in Clients, PackFile(c) PROVE IInv'
<1>0. TypeInv /\ MutexInv /\ PackOf(cl[c]) BY DEF IInv, PackInv
<1>1. UNCHANGED <<opts, disk, made, root, upper, work, adrift>> /\ cl[c].pc = "pack" BY DEF PackFile
<1>2. upper = root /\ mux = c /\ \A d \in Clients \ {c} : cl[d].pc \notin Held BY <1>0, <1>1, HeldUpper
<1>3. cl[c].to = root /\ root \in Uppers BY <1>0, <1>1, <1>2 DEF MutexInv, MutexOf, TypeInv
<1>4. PICK p \in cl[c].todo :
         IF disk[cl[c].to].ent[p] # Absent
         THEN cl' = [cl EXCEPT ![c].todo = @ \ {p}, ![c].blob.ent[p] = disk[cl[c].to].ent[p]] /\ UNCHANGED mux
         ELSE Reply(c, "error") /\ mux' = None
  BY DEF PackFile
<1>5. CASE disk[cl[c].to].ent[p] = Absent BY <1>1, <1>4, <1>5, ReplyStep DEF Held
<1>6. CASE disk[cl[c].to].ent[p] # Absent
  <2>1. p \in Paths BY <1>0 DEF TypeInv, ClientType
  <2>2. PICK v \in Entry : v = disk[root].ent[p] BY <1>0, <1>3, <2>1 DEF TypeInv, Layer
  <2>3. PICK r : r = Repacked(cl[c], p, v) OBVIOUS
  <2>4. cl' = [cl EXCEPT ![c] = r] /\ mux' = mux BY <1>3, <1>4, <1>6, <2>2, <2>3 DEF Repacked
  <2>5. /\ r \in ClientType /\ r.pc = "pack" /\ r.to = cl[c].to /\ r.at = cl[c].at /\ r.names = cl[c].names
        /\ r.todo = cl[c].todo \ {p} /\ r.blob.wh = cl[c].blob.wh /\ r.blob.opq = cl[c].blob.opq
        /\ r.blob.ent[p] = v /\ \A x \in Paths : x # p => r.blob.ent[x] = cl[c].blob.ent[x]
    <3>1. cl[c] \in ClientType BY <1>0 DEF TypeInv
    <3>2. QED BY <1>1, <2>1, <2>3, <3>1, Packed
  <2>6. MutexOf(c, r)'
    <3>1. MutexOf(c, cl[c]) BY <1>0 DEF MutexInv
    <3>2. QED BY <1>1, <1>2, <2>4, <2>5, <3>1 DEF MutexOf
  <2>7. PackOf(r)' BY <1>0, <1>1, <2>2, <2>5 DEF PackOf, work
  <2>8. \A e \in kc : ~ToDrop(e, cl[c]) BY <1>1 DEF ToDrop
  <2>9. upper \in Uppers BY <1>0 DEF TypeInv
  <2>10. QED BY <1>1, <1>2, <2>4, <2>5, <2>6, <2>7, <2>8, <2>9, ClientStep DEF work
<1>7. QED BY <1>5, <1>6

-----------------------------------------------------------------------------
(* The invariant.                                                            *)

LEMMA InitInv == Init => IInv
<1>0. SUFFICES ASSUME Init PROVE IInv OBVIOUS
<1>1. opts \in [access : Access, lifecycle : Lifecycle, lower : Seq(Layer)] /\ disk \in [Uppers -> Layer]
  BY <1>0, StacksAssumption DEF Init
<1>2. root = First /\ First \in Uppers BY <1>0, PvcAssumption DEF Init
<1>3. want = [p \in Paths |-> Shown(p)] BY <1>0, <1>2, ResolveSeen DEF Init, Shown
<1>4. want \in [Paths -> Entry] BY <1>1, <1>2, <1>3, SeenType DEF Shown
<1>5. NoHandle \in HandleType BY NoReqType DEF NoHandle, HandleType
<1>6. ops \in 0..MaxOps BY <1>0, PvcAssumption DEF Init
<1>7. cl \in [Clients -> ClientType] /\ \A c \in Clients : cl[c].pc = "new" BY <1>0, IdleType DEF Init, Idle
<1>8. TypeInv BY <1>0, <1>1, <1>2, <1>4, <1>5, <1>6, <1>7, NoReqType DEF Init, TypeInv
<1>9. MutexInv BY <1>0, <1>7 DEF Init, MutexInv, MutexOf, Held
<1>10. PackInv BY <1>7 DEF PackInv, PackOf
<1>11. req.pc = "idle" /\ hnd = NoHandle /\ kc = {} BY <1>0, NoReqType DEF Init
<1>12. ServedInv /\ HandleInv /\ StaleInv BY <1>3, <1>11 DEF ServedInv, HandleInv, StaleInv
<1>13. QED BY <1>8, <1>9, <1>10, <1>12 DEF IInv

LEMMA NextInv == IInv /\ [Next]_vars => IInv'
<1>1. SUFFICES ASSUME IInv, [Next]_vars PROVE IInv' OBVIOUS
<1>2. CASE Dispatch
  BY <1>1, <1>2, FetchStep, DoCreateStep, DoUnlinkStep, DoRenameStep, WriteBackStep DEF Dispatch
<1>3. CASE Workload
  BY <1>1, <1>3, AskStep, LookupStep, OpenStep, WriteStep, AskReleaseStep DEF Workload
<1>4. ASSUME NEW u \in Uppers, Prepare(u) PROVE IInv' BY <1>1, <1>4, PrepareStep
<1>5. ASSUME NEW c \in Clients, NEW u \in Uppers, AskPivot(c, u) PROVE IInv' BY <1>1, <1>5, AskedStep
<1>6. ASSUME NEW c \in Clients, AskCapture(c) PROVE IInv' BY <1>1, <1>6, AskedStep, PvcAssumption
<1>7. ASSUME NEW c \in Clients, Lock(c) PROVE IInv' BY <1>1, <1>7, LockStep
<1>8. ASSUME NEW c \in Clients, Pivot(c) PROVE IInv'
  BY <1>1, <1>8, CheckStep, AnswerStep, StoreStep, PivotEndStep, InvalListStep, InvalEntryStep, InvalFailsStep DEF Pivot
<1>9. ASSUME NEW c \in Clients, Capture(c) PROVE IInv'
  BY <1>1, <1>9, CaptureListStep, PackMarkerStep, PackFileStep, AnswerStep DEF Capture
<1>10. CASE UNCHANGED vars
  <2>1. UNCHANGED <<opts, disk, made, root, wlock, upper, mux, cl, req, hnd, kc, ops, want, adrift>>
    BY <1>10 DEF vars
  <2>2. TypeInv' /\ MutexInv' BY <1>1, <2>1 DEF IInv, TypeInv, MutexInv, MutexOf
  <2>3. PackInv' BY <1>1, <2>1 DEF IInv, PackInv, PackOf
  <2>4. ServedInv' /\ HandleInv' /\ StaleInv'
    BY <1>1, <2>1 DEF IInv, ServedInv, HandleInv, StaleInv, Stale, Shown
  <2>5. QED BY <2>1, <2>2, <2>3, <2>4 DEF IInv
<1>11. QED BY <1>1, <1>2, <1>3, <1>4, <1>5, <1>6, <1>7, <1>8, <1>9, <1>10 DEF Next

LEMMA Invariance == Spec => []IInv
  BY InitInv, NextInv, PTL DEF Spec

\* Between calls the swappable root has what the workload was told, across any
\* number of pivots and with handles open over them, but for the very files that
\* a new upper did not have as the old one did or that a call under way at a swap
\* was about.
THEOREM PromotionKeepsData == Spec => []TreeKept
<1>1. IInv => TreeKept BY ResolveSeen DEF IInv, ServedInv, TreeKept, Shown
<1>2. QED BY Invariance, <1>1, PTL

\* capture_layer and apply_blob, while the workload is quiet: the blob on top of
\* the lowers is the mounted tree, whatever pivots went before or wait.
THEOREM QuietCaptureIsMount == Spec => []CaptureIsMount
<1>1. IInv => CaptureIsMount
  <2>1. SUFFICES ASSUME IInv, NEW c \in Clients, NEW p \in Paths, cl[c].pc = "pack", cl[c].todo = {},
                        cl[c].names = {}, cl[c].at = ops
                 PROVE  LowerResolve(<<Applied(cl[c].blob)>> \o opts.lower, p) = Resolve(root, p)
    BY DEF CaptureIsMount
  <2>2. cl[c].blob \in Layer /\ opts.lower \in Seq(Layer) BY <2>1 DEF IInv, TypeInv, ClientType
  <2>3. PICK B \in Layer, ls \in Seq(Layer) : B = cl[c].blob /\ ls = opts.lower BY <2>2
  <2>4. B.wh = disk[root].wh /\ B.opq = disk[root].opq /\ B.ent[p] = disk[root].ent[p]
    BY <2>1, <2>3 DEF IInv, PackInv, PackOf
  <2>5. Applied(B) = B BY DEF Applied, Layer
  <2>6. LowerResolve(<<B>> \o ls, p) = Seen(B, ls, p) BY OnTop
  <2>7. Seen(B, ls, p) = Seen(disk[root], ls, p) BY <2>4 DEF Seen
  <2>8. QED BY <2>3, <2>5, <2>6, <2>7, ResolveSeen
<1>2. QED BY Invariance, <1>1, PTL

\* do_invalidate: with every pivot answered, the kernel holds no name of the tree
\* from before the swap but names that are no longer there, names whose
\* notification failed and files set adrift.
THEOREM PivotDropsNames == Spec => []Invalidated
<1>1. IInv => Invalidated
  <2>1. SUFFICES ASSUME IInv, ~Pivoting, NEW e \in kc, Stale(e) PROVE FALSE
    BY ResolveSeen DEF Invalidated, Stale, Shown
  <2>2. PICK c \in Clients : ToDrop(e, cl[c]) BY <2>1 DEF IInv, StaleInv
  <2>3. QED BY <2>1, <2>2 DEF Pivoting, ToDrop
<1>2. QED BY Invariance, <1>1, PTL
===============================================================================
