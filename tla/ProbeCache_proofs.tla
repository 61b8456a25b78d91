-------------------------- MODULE ProbeCache_proofs --------------------------
(***************************************************************************)
(* What the probe caches cost, for every namespace, stack of layers, number   *)
(* of threads and sequence of disk faults.  A cached answer is never more     *)
(* than the disk holds, and exactly that if no probe of its directory has     *)
(* failed (CacheInv).  A call knows of each layer it has passed that it does  *)
(* not hold the path and, failures aside, that it does not hide it (CallInv). *)
(* The call's part is stated over a stack, a set of missed directories and a  *)
(* call as plain values, so that a step of one thread leaves the others' part *)
(* to one lemma: more missed directories never make it false.                *)
(***************************************************************************)
EXTENDS ProbeCache, SequenceTheorems, TLAPS

NoMiss(ms, p) == \A d \in ms : ~Below(d, p)

\* Layer j neither holds the path nor, probes that failed aside, hides it.
PassedBy(ls, ms, r, j) ==
    /\ ~r.bad => ls[j].ent[r.path] = Absent
    /\ NoMiss(ms, r.path) => r.path \notin ls[j].wh /\ ~OpaqueAbove(ls[j].opq, r.path)

Right(ls, ms, r) ==
    /\ r.path \in Paths
    /\ (~r.bad /\ r.ans # Error) =>
         /\ LowerResolve(ls, r.path) # Absent => r.ans = LowerResolve(ls, r.path)
         /\ NoMiss(ms, r.path) => r.ans = LowerResolve(ls, r.path)

\* The markers of the directory at hand.
Markers(ls, r) == {p \in ls[r.i].wh : split_path(p) = r.cur}

Marking  == {"wh", "whprobe", "whins"}
Climbing == {"opq", "guard", "probe", "ins"}
Walking  == Marking \cup {"exists"} \cup Climbing

CallInv(ls, ms, r) ==
    /\ r \in CallType
    /\ r.pc \in Walking =>
         /\ r.path \in Paths /\ r.i \in 1..Len(ls) /\ Below(r.cur, r.path)
         /\ \A j \in 1..(r.i - 1) : PassedBy(ls, ms, r, j)
    /\ r.pc \in Marking \cup {"exists"} => r.cur = split_path(r.path)
    /\ r.pc = "whins" =>
         /\ r.names \subseteq Markers(ls, r)
         /\ r.cur \notin ms => Markers(ls, r) \subseteq r.names
    /\ r.pc \in Climbing \cup {"exists"} => (NoMiss(ms, r.path) => r.path \notin ls[r.i].wh)
    /\ r.pc \in Climbing =>
         /\ ~r.bad => ls[r.i].ent[r.path] = Absent
         /\ NoMiss(ms, r.path) => \A d \in ls[r.i].opq : Below(d, r.path) => Len(d) <= Len(r.cur)
    /\ r.pc \in {"guard", "ins"} =>
         /\ r.opq = "yes" => r.cur \in ls[r.i].opq
         /\ r.opq = "no" => (r.cur \notin ms => r.cur \notin ls[r.i].opq)
    /\ r.pc = "ins" => r.opq # "miss"
    /\ r.pc = "done" => Right(ls, ms, r)

CacheInv ==
    /\ \A k \in DOMAIN whc : /\ k \in Keys /\ whc[k] \subseteq WhOf(k)
                             /\ k[2] \notin missed => WhOf(k) \subseteq whc[k]
    /\ \A k \in DOMAIN opc : /\ k \in Keys /\ opc[k] \in {"yes", "no"}
                             /\ opc[k] = "yes" => OpqOf(k)
                             /\ opc[k] = "no" /\ k[2] \notin missed => ~OpqOf(k)

IInv ==
    /\ lower \in Seq(Layer) /\ missed \subseteq Dirs
    /\ DOMAIN th = Threads /\ th \in [Threads -> CallType]
    /\ CacheInv
    /\ \A t \in Threads : CallInv(lower, missed, th[t])

-----------------------------------------------------------------------------
(* Paths.                                                                    *)

LEMMA PathType == \A p \in Dirs : p \in Seq(Names) /\ Len(p) \in Nat
  BY PathsAssumption, EmptySeq, LenProperties DEF Root, Dirs

LEMMA SplitFacts ==
  ASSUME NEW p \in Dirs, p # Root
  PROVE  /\ split_path(p) \in Dirs /\ Len(split_path(p)) = Len(p) - 1
         /\ Below(split_path(p), p)
<1>1. p \in Paths /\ p \in Seq(Names) /\ Len(p) \in Nat BY PathType DEF Dirs
<1>2. Len(p) # 0 BY <1>1, EmptySeq DEF Root
<1>3. CASE Len(p) = 1
  <2>1. split_path(p) = << >> BY <1>1, <1>3, SubSeqEmpty DEF split_path
  <2>2. Len(<< >>) = 0 OBVIOUS
  <2>3. QED BY <1>1, <1>3, <2>1, <2>2 DEF Dirs, Root, Below
<1>4. CASE Len(p) > 1
  <2>1. Len(p) - 1 \in 1..Len(p) /\ 1 \in 1..Len(p) BY <1>1, <1>4
  <2>2. split_path(p) \in Paths BY <1>1, <2>1, PathsAssumption DEF split_path
  <2>3. Len(split_path(p)) = Len(p) - 1 /\ \A i \in 1..(Len(p) - 1) : split_path(p)[i] = p[i]
    BY <1>1, <2>1, SubSeqProperties DEF split_path
  <2>4. QED BY <1>1, <2>2, <2>3 DEF Dirs, Below
<1>5. \A n \in Nat : n # 0 => n = 1 \/ n > 1 OBVIOUS
<1>6. Len(p) = 1 \/ Len(p) > 1 BY ONLY <1>1, <1>2, <1>5
<1>7. QED BY <1>3, <1>4, <1>6

\* Two directories above the same path at the same depth are one.
LEMMA SameDepth ==
  ASSUME NEW p \in Dirs, NEW a \in Dirs, NEW b \in Dirs, Below(a, p), Below(b, p), Len(a) = Len(b)
  PROVE  a = b
  BY PathType, SeqEqual DEF Below

LEMMA RootBelow ==
  ASSUME NEW p \in Paths PROVE p \in Dirs /\ p # Root
  BY PathsAssumption DEF Dirs

\* The parent of a directory above a path is above it too.
LEMMA Climb ==
  ASSUME NEW p \in Paths, NEW c \in Dirs, c # Root, Below(c, p)
  PROVE  split_path(c) \in Dirs /\ Below(split_path(c), p) /\ Len(split_path(c)) = Len(c) - 1
<1>1. /\ split_path(c) \in Dirs /\ Len(split_path(c)) = Len(c) - 1
      /\ Below(split_path(c), c)
  BY SplitFacts
<1>2. Len(p) \in Nat /\ Len(c) \in Nat /\ Len(split_path(c)) \in Nat BY <1>1, PathType, RootBelow
<1>3. QED BY <1>1, <1>2 DEF Below

-----------------------------------------------------------------------------
(* What the disk says.                                                       *)

LEMMA LayerType ==
  ASSUME NEW ls \in Seq(Layer), NEW i \in 1..Len(ls)
  PROVE  ls[i].wh \subseteq Paths /\ ls[i].opq \subseteq Dirs /\ ls[i].ent \in [Paths -> Entry]
<1>1. ls[i] \in Layer BY ElementOfSeq
<1>2. QED BY <1>1 DEF Layer, Dirs

LEMMA ResolvedSomewhere ==
  ASSUME NEW ls \in Seq(Layer), NEW p \in Paths, LowerResolve(ls, p) # Absent
  PROVE  \E k \in 1..Len(ls) : FoundIn(ls, k, p) /\ LowerResolve(ls, p) = ls[k].ent[p]
  BY DEF LowerResolve

LEMMA HiddenHere ==
  ASSUME NEW ls \in Seq(Layer), NEW p \in Paths, NEW i \in 1..Len(ls),
         \A j \in 1..(i - 1) : ls[j].ent[p] = Absent,
         p \in ls[i].wh \/ (ls[i].ent[p] = Absent /\ OpaqueAbove(ls[i].opq, p))
  PROVE  LowerResolve(ls, p) = Absent
<1> SUFFICES ASSUME LowerResolve(ls, p) # Absent PROVE FALSE OBVIOUS
<1>1. PICK k \in 1..Len(ls) : FoundIn(ls, k, p) BY ResolvedSomewhere
<1>2. Len(ls) \in Nat BY LenProperties
<1>3. CASE k < i BY <1>1, <1>2, <1>3 DEF FoundIn
<1>4. CASE k = i BY <1>1, <1>4 DEF FoundIn
<1>5. CASE k > i
  <2>1. i \in 1..(k - 1) BY <1>2, <1>5
  <2>2. QED BY <1>1, <2>1 DEF FoundIn
<1>6. QED BY <1>2, <1>3, <1>4, <1>5

LEMMA HeldNowhere ==
  ASSUME NEW ls \in Seq(Layer), NEW p \in Paths, \A j \in 1..Len(ls) : ls[j].ent[p] = Absent
  PROVE  LowerResolve(ls, p) = Absent
  BY ResolvedSomewhere DEF FoundIn

LEMMA HeldHere ==
  ASSUME NEW ls \in Seq(Layer), NEW p \in Paths, NEW i \in 1..Len(ls), ls[i].ent[p] # Absent,
         \A j \in 1..(i - 1) : ls[j].ent[p] = Absent
  PROVE  LowerResolve(ls, p) # Absent => LowerResolve(ls, p) = ls[i].ent[p]
<1> SUFFICES ASSUME LowerResolve(ls, p) # Absent PROVE LowerResolve(ls, p) = ls[i].ent[p] OBVIOUS
<1>1. PICK k \in 1..Len(ls) : FoundIn(ls, k, p) /\ LowerResolve(ls, p) = ls[k].ent[p]
  BY ResolvedSomewhere
<1>2. Len(ls) \in Nat BY LenProperties
<1>3. ~(k < i) BY <1>1, <1>2 DEF FoundIn
<1>4. ~(k > i)
  <2> SUFFICES ASSUME k > i PROVE FALSE OBVIOUS
  <2>1. i \in 1..(k - 1) BY <1>2
  <2>2. QED BY <1>1, <2>1 DEF FoundIn
<1>5. k = i BY <1>2, <1>3, <1>4
<1>6. QED BY <1>1, <1>5

LEMMA SeenHere ==
  ASSUME NEW ls \in Seq(Layer), NEW p \in Paths, NEW i \in 1..Len(ls), FoundIn(ls, i, p)
  PROVE  LowerResolve(ls, p) = ls[i].ent[p]
<1>1. ls[i].ent[p] # Absent /\ \A j \in 1..(i - 1) : ls[j].ent[p] = Absent BY DEF FoundIn
<1>2. LowerResolve(ls, p) = ls[CHOOSE k \in 1..Len(ls) : FoundIn(ls, k, p)].ent[p] BY DEF LowerResolve
<1>3. PICK k \in 1..Len(ls) : FoundIn(ls, k, p) /\ LowerResolve(ls, p) = ls[k].ent[p]
  <2>1. FoundIn(ls, CHOOSE k \in 1..Len(ls) : FoundIn(ls, k, p), p)
        /\ (CHOOSE k \in 1..Len(ls) : FoundIn(ls, k, p)) \in 1..Len(ls) OBVIOUS
  <2>2. QED BY <1>2, <2>1
<1>4. LowerResolve(ls, p) # Absent BY <1>3 DEF FoundIn
<1>5. QED BY <1>1, <1>4, HeldHere

-----------------------------------------------------------------------------
(* The call.                                                                 *)

\* A directory missed later takes nothing back.
LEMMA MoreMissed ==
  ASSUME NEW ls, NEW ms, NEW ms2, ms \subseteq ms2, NEW r, CallInv(ls, ms, r)
  PROVE  CallInv(ls, ms2, r)
<1>1. NoMiss(ms2, r.path) => NoMiss(ms, r.path) BY DEF NoMiss
<1>2. \A j : PassedBy(ls, ms, r, j) => PassedBy(ls, ms2, r, j) BY <1>1 DEF PassedBy
<1>3. Right(ls, ms, r) => Right(ls, ms2, r) BY <1>1 DEF Right
<1>4. QED BY <1>1, <1>2, <1>3 DEF CallInv

LEMMA DoneType ==
  ASSUME NEW r \in CallType, NEW a \in Entry \cup {Error}
  PROVE  /\ Done(r, a) \in CallType
         /\ Done(r, a).pc = "done" /\ Done(r, a).path = r.path /\ Done(r, a).ans = a
         /\ Done(r, a).bad = r.bad
<1>1. Root \in Dirs BY DEF Dirs
<1>2. Idle \in CallType BY <1>1 DEF Idle, CallType
<1>3. QED BY <1>2 DEF Done, CallType

LEMMA DoneInv ==
  ASSUME NEW ls, NEW ms, NEW r \in CallType, r.path \in Paths, NEW a \in Entry \cup {Error},
         (~r.bad /\ a # Error) =>
            /\ LowerResolve(ls, r.path) # Absent => a = LowerResolve(ls, r.path)
            /\ NoMiss(ms, r.path) => a = LowerResolve(ls, r.path)
  PROVE  CallInv(ls, ms, Done(r, a))
<1>1. PICK s : s = Done(r, a) OBVIOUS
<1>2. s \in CallType /\ s.pc = "done" /\ s.path = r.path /\ s.ans = a /\ s.bad = r.bad
  BY <1>1, DoneType
<1>3. Right(ls, ms, s) BY <1>2 DEF Right
<1>4. CallInv(ls, ms, s) BY <1>2, <1>3 DEF CallInv, Walking, Marking, Climbing
<1>5. QED BY <1>1, <1>4

LEMMA AnsweredAbsent ==
  ASSUME NEW ls, NEW ms, NEW r \in CallType, r.path \in Paths,
         ~r.bad => LowerResolve(ls, r.path) = Absent
  PROVE  CallInv(ls, ms, Done(r, Absent))
<1>1. Absent \in Entry \cup {Error} BY DEF Entry
<1>2. QED BY <1>1, DoneInv

\* The layer at hand is passed: on to the next, or the answer is "no".
LEMMA NextLayerInv ==
  ASSUME lower \in Seq(Layer), NEW ms, NEW r \in CallType, r.path \in Paths, r.i \in 1..Len(lower),
         \A j \in 1..r.i : PassedBy(lower, ms, r, j)
  PROVE  CallInv(lower, ms, NextLayer(r))
<1>1. Len(lower) \in Nat BY LenProperties
<1>2. CASE r.i < Len(lower)
  <2>1. PICK s : s = [r EXCEPT !.pc = "wh", !.i = @ + 1, !.cur = split_path(r.path), !.opq = "miss"]
    OBVIOUS
  <2>2. r.path \in Dirs /\ r.path # Root BY RootBelow
  <2>3. split_path(r.path) \in Dirs /\ Below(split_path(r.path), r.path) BY <2>2, SplitFacts
  <2>4. /\ s \in CallType /\ s.pc = "wh" /\ s.path = r.path /\ s.i = r.i + 1
        /\ s.cur = split_path(r.path)
    <3>1. r.i + 1 \in Nat \ {0} BY <1>1
    <3>2. PICK n : n = r.i + 1 OBVIOUS
    <3>3. PICK c : c = split_path(r.path) OBVIOUS
    <3>4. s = [r EXCEPT !.pc = "wh", !.i = n, !.cur = c, !.opq = "miss"] BY <2>1, <3>2, <3>3 DEF CallType
    <3>5. n \in Nat \ {0} /\ c \in Dirs BY <2>3, <3>1, <3>2, <3>3
    <3>6. s \in CallType /\ s.pc = "wh" /\ s.path = r.path /\ s.i = n /\ s.cur = c
      BY <3>4, <3>5 DEF CallType
    <3>7. QED BY <3>2, <3>3, <3>6
  <2>5. s.bad = r.bad BY <2>1 DEF CallType
  <2>6. \A j \in 1..(s.i - 1) : PassedBy(lower, ms, s, j)
    BY <1>1, <2>4, <2>5 DEF PassedBy
  <2>7. s.i \in 1..Len(lower) BY <1>1, <1>2, <2>4
  <2>8. CallInv(lower, ms, s)
    BY <2>3, <2>4, <2>6, <2>7 DEF CallInv, Walking, Marking, Climbing
  <2>9. QED BY <1>2, <2>1, <2>8 DEF NextLayer
<1>3. CASE ~(r.i < Len(lower))
  <2>1. r.i = Len(lower) BY <1>1, <1>3
  <2>2. ~r.bad => LowerResolve(lower, r.path) = Absent
    BY <2>1, HeldNowhere DEF PassedBy
  <2>3. CallInv(lower, ms, Done(r, Absent)) BY <2>2, AnsweredAbsent
  <2>4. QED BY <1>3, <2>3 DEF NextLayer
<1>4. QED BY <1>2, <1>3

\* The directory at hand is not opaque: up, or on to the next layer.
LEMMA WalkUpInv ==
  ASSUME lower \in Seq(Layer), NEW ms, NEW r, CallInv(lower, ms, r), r.pc \in {"guard", "ins"},
         r.opq = "no"
  PROVE  CallInv(lower, ms, WalkUp(r))
<1>1. /\ r \in CallType /\ r.path \in Paths /\ r.i \in 1..Len(lower) /\ Below(r.cur, r.path)
      /\ \A j \in 1..(r.i - 1) : PassedBy(lower, ms, r, j)
      /\ NoMiss(ms, r.path) => r.path \notin lower[r.i].wh
      /\ ~r.bad => lower[r.i].ent[r.path] = Absent
      /\ NoMiss(ms, r.path) => \A d \in lower[r.i].opq : Below(d, r.path) => Len(d) <= Len(r.cur)
      /\ NoMiss(ms, r.path) => r.cur \notin lower[r.i].opq
  BY DEF CallInv, Walking, Climbing, NoMiss
<1>2. r.cur \in Dirs /\ r.path \in Dirs /\ Len(r.cur) \in Nat BY <1>1, PathType DEF CallType, Dirs
<1>3. lower[r.i].opq \subseteq Dirs BY <1>1, LayerType
<1>4. \A d \in lower[r.i].opq : Len(d) \in Nat BY <1>3, PathType
<1>5. NoMiss(ms, r.path) => \A d \in lower[r.i].opq : Below(d, r.path) => Len(d) < Len(r.cur)
  <2> SUFFICES ASSUME NoMiss(ms, r.path), NEW d \in lower[r.i].opq, Below(d, r.path)
               PROVE  Len(d) < Len(r.cur)
    OBVIOUS
  <2>1. Len(d) <= Len(r.cur) /\ d # r.cur BY <1>1
  <2>2. Len(d) # Len(r.cur) BY <1>1, <1>2, <1>3, <2>1, SameDepth
  <2>3. QED BY <1>2, <1>4, <2>1, <2>2
<1>6. CASE r.cur = Root
  <2>1. Len(r.cur) = 0 BY <1>6 DEF Root
  <2>2. NoMiss(ms, r.path) => ~OpaqueAbove(lower[r.i].opq, r.path)
    BY <1>4, <1>5, <2>1 DEF OpaqueAbove
  <2>3. PassedBy(lower, ms, r, r.i) BY <1>1, <2>2 DEF PassedBy
  <2>4. Len(lower) \in Nat BY LenProperties
  <2>5. \A j \in 1..r.i : PassedBy(lower, ms, r, j)
    <3> TAKE j \in 1..r.i
    <3>1. j = r.i \/ j \in 1..(r.i - 1) BY <1>1, <2>4
    <3>2. QED BY <1>1, <2>3, <3>1
  <2>6. CallInv(lower, ms, NextLayer(r)) BY <1>1, <2>5, NextLayerInv
  <2>7. QED BY <1>6, <2>6 DEF WalkUp
<1>7. CASE r.cur # Root
  <2>1. PICK s : s = [r EXCEPT !.pc = "opq", !.cur = split_path(@), !.opq = "miss"] OBVIOUS
  <2>2. /\ split_path(r.cur) \in Dirs /\ Below(split_path(r.cur), r.path)
        /\ Len(split_path(r.cur)) = Len(r.cur) - 1
    BY <1>1, <1>2, <1>7, Climb
  <2>3. s \in CallType /\ s.pc = "opq" /\ s.path = r.path /\ s.i = r.i /\ s.cur = split_path(r.cur)
    BY <1>1, <2>1, <2>2 DEF CallType
  <2>4. s.bad = r.bad BY <1>1, <2>1 DEF CallType
  <2>5. \A j \in 1..(s.i - 1) : PassedBy(lower, ms, s, j) BY <1>1, <2>3, <2>4 DEF PassedBy
  <2>6. NoMiss(ms, s.path) => \A d \in lower[s.i].opq : Below(d, s.path) => Len(d) <= Len(s.cur)
    BY <1>2, <1>4, <1>5, <2>2, <2>3
  <2>7. CallInv(lower, ms, s)
    BY <1>1, <2>2, <2>3, <2>4, <2>5, <2>6 DEF CallInv, Walking, Marking, Climbing
  <2>8. QED BY <1>7, <2>1, <2>7 DEF WalkUp
<1>8. QED BY <1>6, <1>7

\* A marker hides the path from the call.
LEMMA WhitedOut ==
  ASSUME lower \in Seq(Layer), NEW ms, NEW r, CallInv(lower, ms, r), r.pc \in Walking,
         r.path \in lower[r.i].wh
  PROVE  CallInv(lower, ms, Done(r, Absent))
<1>1. /\ r \in CallType /\ r.path \in Paths /\ r.i \in 1..Len(lower)
      /\ ~r.bad => \A j \in 1..(r.i - 1) : lower[j].ent[r.path] = Absent
  BY DEF CallInv, PassedBy
<1>2. ~r.bad => LowerResolve(lower, r.path) = Absent BY <1>1, HiddenHere
<1>3. QED BY <1>1, <1>2, AnsweredAbsent

LEMMA OpaqueHides ==
  ASSUME lower \in Seq(Layer), NEW ms, NEW r, CallInv(lower, ms, r), r.pc \in {"guard", "ins"},
         r.opq = "yes"
  PROVE  CallInv(lower, ms, Done(r, Absent))
<1>1. /\ r \in CallType /\ r.path \in Paths /\ r.i \in 1..Len(lower) /\ Below(r.cur, r.path)
      /\ ~r.bad => \A j \in 1..(r.i - 1) : lower[j].ent[r.path] = Absent
      /\ ~r.bad => lower[r.i].ent[r.path] = Absent
      /\ r.cur \in lower[r.i].opq
  BY DEF CallInv, PassedBy, Walking, Climbing
<1>2. OpaqueAbove(lower[r.i].opq, r.path) BY <1>1 DEF OpaqueAbove
<1>3. ~r.bad => LowerResolve(lower, r.path) = Absent BY <1>1, <1>2, HiddenHere
<1>4. QED BY <1>1, <1>3, AnsweredAbsent

\* A step inside a layer changes neither the path nor what earlier layers said.
LEMMA MarkedUnseen ==
  ASSUME NEW ls, NEW ms, NEW r, CallInv(ls, ms, r), r.pc = "whins", r.path \notin r.names
  PROVE  NoMiss(ms, r.path) => r.path \notin ls[r.i].wh
<1>1. r.names \subseteq Markers(ls, r) /\ (r.cur \notin ms => Markers(ls, r) \subseteq r.names)
  BY DEF CallInv
<1>2. r.cur = split_path(r.path) /\ Below(r.cur, r.path) BY DEF CallInv, Walking, Marking
<1>3. QED BY <1>1, <1>2 DEF NoMiss, Markers

-----------------------------------------------------------------------------
(* The steps.                                                                *)

LEMMA CacheKept ==
  ASSUME CacheInv, lower' = lower, missed \subseteq missed', whc' = whc, opc' = opc
  PROVE  CacheInv'
  BY DEF CacheInv, Keys, WhOf, OpqOf

\* A step of thread t keeps the invariant if it keeps t's own part and the caches'.
LEMMA ThreadStep ==
  ASSUME IInv, lower' = lower, missed \subseteq missed', missed' \subseteq Dirs, CacheInv',
         NEW t \in Threads, NEW n, th' = [th EXCEPT ![t] = n], CallInv(lower, missed', n)
  PROVE  IInv'
<1>1. n \in CallType BY DEF CallInv
<1>2. DOMAIN th' = Threads /\ th' \in [Threads -> CallType] BY <1>1 DEF IInv
<1>3. \A u \in Threads : CallInv(lower', missed', th'[u])
  <2> TAKE u \in Threads
  <2>1. CASE u = t BY <2>1 DEF IInv
  <2>2. CASE u # t
    <3>1. th'[u] = th[u] /\ CallInv(lower, missed, th[u]) BY <2>2 DEF IInv
    <3>2. QED BY <3>1, MoreMissed
  <2>3. QED BY <2>1, <2>2
<1>4. QED BY <1>2, <1>3 DEF IInv

LEMMA CallStep ==
  ASSUME IInv, NEW t \in Threads, NEW p \in Paths, Call(t, p) PROVE IInv'
<1>1. Root \in Dirs /\ p \in Dirs /\ p # Root BY RootBelow DEF Dirs
<1>2. Idle \in CallType BY <1>1 DEF Idle, CallType
<1>3. CacheInv' BY CacheKept DEF IInv, Call
<1>4. PICK q : q = [Idle EXCEPT !.path = p] OBVIOUS
<1>5. q \in CallType /\ q.path = p BY <1>1, <1>2, <1>4 DEF CallType
<1>6. CASE lower = << >>
  <2>1. PICK n : n = Done(q, Absent) OBVIOUS
  <2>2. Len(lower) = 0 /\ lower \in Seq(Layer) BY <1>6 DEF IInv
  <2>3. LowerResolve(lower, p) = Absent
    <3>1. 1..Len(lower) = {} BY <2>2
    <3>2. QED BY <2>2, <3>1, HeldNowhere
  <2>4. CallInv(lower, missed', n) BY <1>5, <2>1, <2>3, AnsweredAbsent
  <2>5. th' = [th EXCEPT ![t] = n] BY <1>4, <1>6, <2>1 DEF Call
  <2>6. QED BY <1>3, <2>4, <2>5, ThreadStep DEF Call, IInv
<1>7. CASE lower # << >>
  <2>1. PICK n : n = [Idle EXCEPT !.pc = "wh", !.path = p, !.cur = split_path(p)] OBVIOUS
  <2>2. split_path(p) \in Dirs /\ Below(split_path(p), p) BY <1>1, SplitFacts
  <2>3. /\ n \in CallType /\ n.pc = "wh" /\ n.path = p /\ n.cur = split_path(p)
    BY <1>1, <1>2, <2>1, <2>2 DEF CallType
  <2>4. n.i = 1 BY <2>1 DEF Idle
  <2>5. Len(lower) \in Nat /\ Len(lower) # 0 BY <1>7, EmptySeq, LenProperties DEF IInv
  <2>6. n.i \in 1..Len(lower) /\ 1..(n.i - 1) = {} BY <2>4, <2>5
  <2>7. CallInv(lower, missed', n) BY <2>2, <2>3, <2>6 DEF CallInv, Walking, Marking, Climbing
  <2>8. th' = [th EXCEPT ![t] = n] BY <1>7, <2>1 DEF Call
  <2>9. QED BY <1>3, <2>7, <2>8, ThreadStep DEF Call, IInv
<1>8. QED BY <1>6, <1>7

LEMMA WhLookupStep ==
  ASSUME IInv, NEW t \in Threads, WhLookup(t) PROVE IInv'
<1>1. PICK r : r = th[t] OBVIOUS
<1>2. lower \in Seq(Layer) /\ r \in CallType /\ CallInv(lower, missed, r) /\ r.pc = "wh"
  BY <1>1 DEF IInv, WhLookup
<1>3. PICK k : k = KeyOf(r) OBVIOUS
<1>4. CacheInv' BY CacheKept DEF IInv, WhLookup
<1>5. k[1] = r.i /\ k[2] = r.cur BY <1>3 DEF KeyOf
<1>6. r.path \in Paths /\ r.cur = split_path(r.path) /\ Below(r.cur, r.path)
  BY <1>2 DEF CallInv, Walking, Marking
<1>7. CASE k \notin DOMAIN whc
  <2>1. PICK n : n = [r EXCEPT !.pc = "whprobe"] OBVIOUS
  <2>2. /\ n \in CallType /\ n.pc = "whprobe" /\ n.path = r.path /\ n.i = r.i /\ n.cur = r.cur
    BY <1>2, <2>1 DEF CallType
  <2>3. n.bad = r.bad BY <1>2, <2>1 DEF CallType
  <2>4. CallInv(lower, missed', n)
    BY <1>2, <2>2, <2>3 DEF CallInv, PassedBy, Walking, Marking, Climbing, WhLookup
  <2>5. th' = [th EXCEPT ![t] = n] BY <1>1, <1>3, <1>7, <2>1 DEF WhLookup
  <2>6. QED BY <1>4, <2>4, <2>5, ThreadStep DEF WhLookup, IInv
<1>8. CASE k \in DOMAIN whc /\ r.path \in whc[k]
  <2>1. PICK n : n = Done(r, Absent) OBVIOUS
  <2>2. r.path \in lower[r.i].wh BY <1>5, <1>8 DEF IInv, CacheInv, WhOf
  <2>3. CallInv(lower, missed', n) BY <1>2, <2>1, <2>2, WhitedOut DEF Walking, Marking, WhLookup
  <2>4. th' = [th EXCEPT ![t] = n] BY <1>1, <1>3, <1>8, <2>1 DEF WhLookup
  <2>5. QED BY <1>4, <2>3, <2>4, ThreadStep DEF WhLookup, IInv
<1>9. CASE k \in DOMAIN whc /\ r.path \notin whc[k]
  <2>1. PICK n : n = [r EXCEPT !.pc = "exists"] OBVIOUS
  <2>2. /\ n \in CallType /\ n.pc = "exists" /\ n.path = r.path /\ n.i = r.i /\ n.cur = r.cur
    BY <1>2, <2>1 DEF CallType
  <2>3. n.bad = r.bad BY <1>2, <2>1 DEF CallType
  <2>4. NoMiss(missed, r.path) => r.path \notin lower[r.i].wh
    BY <1>5, <1>6, <1>9 DEF IInv, CacheInv, WhOf, NoMiss
  <2>5. CallInv(lower, missed', n)
    BY <1>2, <2>2, <2>3, <2>4 DEF CallInv, PassedBy, Walking, Marking, Climbing, WhLookup
  <2>6. th' = [th EXCEPT ![t] = n] BY <1>1, <1>3, <1>9, <2>1 DEF WhLookup
  <2>7. QED BY <1>4, <2>5, <2>6, ThreadStep DEF WhLookup, IInv
<1>10. QED BY <1>7, <1>8, <1>9

LEMMA WhProbeStep ==
  ASSUME IInv, NEW t \in Threads, WhProbe(t) PROVE IInv'
<1>1. PICK r : r = th[t] OBVIOUS
<1>2. lower \in Seq(Layer) /\ r \in CallType /\ CallInv(lower, missed, r) /\ r.pc = "whprobe"
  BY <1>1 DEF IInv, WhProbe
<1>3. PICK ns : ns = IF io THEN WhOf(<<r.i, r.cur>>) ELSE {} OBVIOUS
<1>4. PICK n : n = [r EXCEPT !.pc = "whins", !.names = ns] OBVIOUS
<1>5. th' = [th EXCEPT ![t] = n] BY <1>1, <1>2, <1>3, <1>4 DEF WhProbe, CallType, IInv
<1>6. missed \subseteq missed' /\ missed' \subseteq Dirs BY <1>1, <1>2 DEF WhProbe, IInv, CallType
<1>7. CacheInv' BY <1>6, CacheKept DEF IInv, WhProbe
<1>8. CallInv(lower, missed', r) BY <1>2, <1>6, MoreMissed
<1>9. r.i \in 1..Len(lower) BY <1>2 DEF CallInv, Walking, Marking
<1>10. /\ ns \subseteq Markers(lower, r) /\ ns \subseteq Paths
       /\ r.cur \notin missed' => Markers(lower, r) \subseteq ns
  <2>1. lower[r.i].wh \subseteq Paths BY <1>2, <1>9, LayerType
  <2>2. WhOf(<<r.i, r.cur>>) = Markers(lower, r) BY DEF WhOf, Markers
  <2>3. Markers(lower, r) \subseteq Paths BY <2>1 DEF Markers
  <2>4. CASE io BY <1>3, <2>2, <2>3, <2>4
  <2>5. CASE ~io
    <3>1. r.cur \in missed' BY <1>1, <2>5 DEF WhProbe
    <3>2. QED BY <1>3, <2>5, <3>1
  <2>6. QED BY <2>4, <2>5
<1>11. /\ n \in CallType /\ n.pc = "whins" /\ n.path = r.path /\ n.i = r.i /\ n.cur = r.cur /\ n.names = ns
  BY <1>2, <1>4, <1>10 DEF CallType
<1>12. n.bad = r.bad BY <1>2, <1>4 DEF CallType
<1>13. Markers(lower, n) = Markers(lower, r) BY <1>11 DEF Markers
<1>14. CallInv(lower, missed', n)
  BY <1>2, <1>8, <1>10, <1>11, <1>12, <1>13 DEF CallInv, PassedBy, Walking, Marking, Climbing
<1>15. QED BY <1>5, <1>6, <1>7, <1>14, ThreadStep DEF WhProbe

LEMMA WhInsertStep ==
  ASSUME IInv, NEW t \in Threads, WhInsert(t) PROVE IInv'
<1>1. PICK r : r = th[t] OBVIOUS
<1>2. lower \in Seq(Layer) /\ r \in CallType /\ CallInv(lower, missed, r) /\ r.pc = "whins"
  BY <1>1 DEF IInv, WhInsert
<1>3. PICK k : k = KeyOf(r) OBVIOUS
<1>4. /\ r.path \in Paths /\ r.i \in 1..Len(lower) /\ r.cur \in Dirs
      /\ r.names \subseteq Markers(lower, r)
      /\ r.cur \notin missed => Markers(lower, r) \subseteq r.names
  BY <1>2 DEF CallInv, Walking, Marking, CallType
<1>5. k \in Keys /\ k[1] = r.i /\ k[2] = r.cur BY <1>3, <1>4 DEF KeyOf, Keys
<1>6. WhOf(k) = Markers(lower, r) BY <1>5 DEF WhOf, Markers
<1>7. CacheInv'
  <2>1. /\ DOMAIN whc' = DOMAIN whc \cup {k}
        /\ \A x \in DOMAIN whc' : whc'[x] = IF x = k THEN r.names ELSE whc[x]
    BY <1>1, <1>3 DEF WhInsert, Put
  <2>2. lower' = lower /\ missed' = missed /\ opc' = opc BY DEF WhInsert
  <2>3. \A x \in DOMAIN whc' : /\ x \in Keys /\ whc'[x] \subseteq WhOf(x)
                               /\ x[2] \notin missed => WhOf(x) \subseteq whc'[x]
    <3> TAKE x \in DOMAIN whc'
    <3>1. CASE x = k BY <1>4, <1>5, <1>6, <2>1, <3>1
    <3>2. CASE x # k BY <2>1, <3>2 DEF IInv, CacheInv
    <3>3. QED BY <3>1, <3>2
  <2>4. QED BY <2>2, <2>3 DEF IInv, CacheInv, Keys, WhOf, OpqOf
<1>8. CASE r.path \in r.names
  <2>1. PICK n : n = Done(r, Absent) OBVIOUS
  <2>2. r.path \in lower[r.i].wh BY <1>4, <1>8 DEF Markers
  <2>3. CallInv(lower, missed', n) BY <1>2, <2>1, <2>2, WhitedOut DEF Walking, Marking, WhInsert
  <2>4. th' = [th EXCEPT ![t] = n] BY <1>1, <1>8, <2>1 DEF WhInsert
  <2>5. QED BY <1>7, <2>3, <2>4, ThreadStep DEF WhInsert, IInv
<1>9. CASE r.path \notin r.names
  <2>1. PICK n : n = [r EXCEPT !.pc = "exists", !.names = {}] OBVIOUS
  <2>2. /\ n \in CallType /\ n.pc = "exists" /\ n.path = r.path /\ n.i = r.i /\ n.cur = r.cur
    BY <1>2, <2>1 DEF CallType
  <2>3. n.bad = r.bad BY <1>2, <2>1 DEF CallType
  <2>4. NoMiss(missed, r.path) => r.path \notin lower[r.i].wh BY <1>2, <1>9, MarkedUnseen
  <2>5. CallInv(lower, missed', n)
    BY <1>2, <2>2, <2>3, <2>4 DEF CallInv, PassedBy, Walking, Marking, Climbing, WhInsert
  <2>6. th' = [th EXCEPT ![t] = n] BY <1>1, <1>9, <2>1 DEF WhInsert
  <2>7. QED BY <1>7, <2>5, <2>6, ThreadStep DEF WhInsert, IInv
<1>10. QED BY <1>8, <1>9

\* From the existence probe on to the opaque markers.
LEMMA NotHeld ==
  ASSUME NEW ls \in Seq(Layer), NEW ms, NEW r, CallInv(ls, ms, r), r.pc = "exists",
         NEW n, n \in CallType, n.pc = "opq", n.path = r.path, n.i = r.i, n.cur = r.cur,
         ~n.bad => ~r.bad /\ ls[r.i].ent[r.path] = Absent
  PROVE  CallInv(ls, ms, n)
<1>1. /\ r.path \in Paths /\ r.cur = split_path(r.path) /\ Below(r.cur, r.path) /\ r.i \in 1..Len(ls)
      /\ \A j \in 1..(r.i - 1) : PassedBy(ls, ms, r, j)
  BY DEF CallInv, Walking
<1>2. r.path \in Dirs /\ r.path # Root BY <1>1, RootBelow
<1>3. Len(r.path) \in Nat /\ Len(r.cur) = Len(r.path) - 1 BY <1>1, <1>2, SplitFacts, PathType
<1>4. \A d \in ls[r.i].opq : Len(d) \in Nat BY <1>1, LayerType, PathType
<1>5. \A d \in ls[r.i].opq : Below(d, r.path) => Len(d) <= Len(r.cur)
  BY <1>3, <1>4 DEF Below
<1>6. \A j \in 1..(n.i - 1) : PassedBy(ls, ms, n, j) BY <1>1 DEF PassedBy
<1>7. QED BY <1>1, <1>5, <1>6 DEF CallInv, Walking, Marking, Climbing

LEMMA ExistsStep ==
  ASSUME IInv, NEW t \in Threads, Exists(t) PROVE IInv'
<1>1. PICK r : r = th[t] OBVIOUS
<1>2. lower \in Seq(Layer) /\ r \in CallType /\ CallInv(lower, missed, r) /\ r.pc = "exists"
  BY <1>1 DEF IInv, Exists
<1>3. /\ r.path \in Paths /\ r.i \in 1..Len(lower) /\ Below(r.cur, r.path)
      /\ \A j \in 1..(r.i - 1) : PassedBy(lower, missed, r, j)
      /\ NoMiss(missed, r.path) => r.path \notin lower[r.i].wh
  BY <1>2 DEF CallInv, Walking
<1>4. PICK e : e = lower[r.i].ent[r.path] OBVIOUS
<1>5. e \in Entry BY <1>2, <1>3, <1>4, LayerType
<1>6. CacheInv' BY CacheKept DEF IInv, Exists
<1>7. missed' = missed /\ lower' = lower BY DEF Exists
<1>8. ASSUME NEW n, th' = [th EXCEPT ![t] = n], CallInv(lower, missed, n) PROVE IInv'
  BY <1>6, <1>7, <1>8, ThreadStep DEF IInv
<1>9. CASE io /\ th' = [th EXCEPT ![t] = IF e # Absent THEN Done(r, e) ELSE [r EXCEPT !.pc = "opq"]]
  <2>1. CASE e # Absent
    <3>1. PICK n : n = Done(r, e) OBVIOUS
    <3>2. Len(lower) \in Nat BY <1>2, LenProperties
    <3>3. ~r.bad => (LowerResolve(lower, r.path) # Absent => e = LowerResolve(lower, r.path))
      BY <1>2, <1>3, <1>4, <2>1, HeldHere DEF PassedBy
    <3>4. ~r.bad /\ NoMiss(missed, r.path) => e = LowerResolve(lower, r.path)
      <4> SUFFICES ASSUME ~r.bad, NoMiss(missed, r.path) PROVE e = LowerResolve(lower, r.path)
        OBVIOUS
      <4>1. FoundIn(lower, r.i, r.path) BY <1>3, <1>4, <2>1 DEF FoundIn, PassedBy
      <4>2. QED BY <1>2, <1>3, <1>4, <4>1, SeenHere
    <3>5. e \in Entry \cup {Error} BY <1>5
    <3>6. CallInv(lower, missed, n) BY <1>2, <1>3, <3>1, <3>3, <3>4, <3>5, DoneInv
    <3>7. QED BY <1>8, <1>9, <2>1, <3>1, <3>6
  <2>2. CASE e = Absent
    <3>1. PICK n : n = [r EXCEPT !.pc = "opq"] OBVIOUS
    <3>2. /\ n \in CallType /\ n.pc = "opq" /\ n.path = r.path /\ n.i = r.i /\ n.cur = r.cur
      BY <1>2, <3>1 DEF CallType
    <3>3. n.bad = r.bad BY <1>2, <3>1 DEF CallType
    <3>4. CallInv(lower, missed, n) BY <1>2, <1>4, <2>2, <3>2, <3>3, NotHeld
    <3>5. QED BY <1>8, <1>9, <2>2, <3>1, <3>4
  <2>3. QED BY <2>1, <2>2
<1>10. CASE th' = [th EXCEPT ![t] = Done(r, Error)]
  <2>1. PICK n : n = Done(r, Error) OBVIOUS
  <2>2. CallInv(lower, missed, n) BY <1>2, <1>3, <2>1, DoneInv
  <2>3. QED BY <1>8, <1>10, <2>1, <2>2
<1>11. CASE th' = [th EXCEPT ![t] = [r EXCEPT !.pc = "opq", !.bad = TRUE]]
  <2>1. PICK n : n = [r EXCEPT !.pc = "opq", !.bad = TRUE] OBVIOUS
  <2>2. /\ n \in CallType /\ n.pc = "opq" /\ n.path = r.path /\ n.i = r.i /\ n.cur = r.cur
    BY <1>2, <2>1 DEF CallType
  <2>3. n.bad BY <1>2, <2>1 DEF CallType
  <2>4. CallInv(lower, missed, n) BY <1>2, <2>2, <2>3, NotHeld
  <2>5. QED BY <1>8, <1>11, <2>1, <2>4
<1>12. QED BY <1>1, <1>4, <1>9, <1>10, <1>11 DEF Exists

\* While it looks for opaque markers a call changes only its place and its note.
LEMMA Looks ==
  ASSUME NEW ls, NEW ms, NEW r, CallInv(ls, ms, r), r.pc \in Climbing,
         NEW n, n \in CallType, n.pc \in Climbing, n.path = r.path, n.i = r.i, n.cur = r.cur,
         n.bad = r.bad,
         n.pc \in {"guard", "ins"} =>
            /\ n.opq = "yes" => r.cur \in ls[r.i].opq
            /\ n.opq = "no" => (r.cur \notin ms => r.cur \notin ls[r.i].opq),
         n.pc = "ins" => n.opq # "miss"
  PROVE  CallInv(ls, ms, n)
<1>1. /\ r.path \in Paths /\ r.i \in 1..Len(ls) /\ Below(r.cur, r.path)
      /\ \A j \in 1..(r.i - 1) : PassedBy(ls, ms, r, j)
      /\ NoMiss(ms, r.path) => r.path \notin ls[r.i].wh
      /\ ~r.bad => ls[r.i].ent[r.path] = Absent
      /\ NoMiss(ms, r.path) => \A d \in ls[r.i].opq : Below(d, r.path) => Len(d) <= Len(r.cur)
  BY DEF CallInv, Walking
<1>2. \A j \in 1..(n.i - 1) : PassedBy(ls, ms, n, j) BY <1>1 DEF PassedBy
<1>3. n.pc \notin Marking /\ n.pc # "exists" /\ n.pc # "whins" /\ n.pc # "done" /\ n.pc \in Walking
  BY DEF Marking, Climbing, Walking
<1>4. QED BY <1>1, <1>2, <1>3 DEF CallInv

LEMMA OpqLookupStep ==
  ASSUME IInv, NEW t \in Threads, OpqLookup(t) PROVE IInv'
<1>1. PICK r : r = th[t] OBVIOUS
<1>2. r \in CallType /\ CallInv(lower, missed, r) /\ r.pc = "opq" BY <1>1 DEF IInv, OpqLookup
<1>3. PICK k : k = KeyOf(r) OBVIOUS
<1>4. k[1] = r.i /\ k[2] = r.cur BY <1>3 DEF KeyOf
<1>5. PICK o : o = IF k \in DOMAIN opc THEN opc[k] ELSE "miss" OBVIOUS
<1>6. /\ o \in {"miss", "yes", "no"}
      /\ o = "yes" => r.cur \in lower[r.i].opq
      /\ o = "no" => (r.cur \notin missed => r.cur \notin lower[r.i].opq)
  BY <1>4, <1>5 DEF IInv, CacheInv, OpqOf
<1>7. PICK n : n = [r EXCEPT !.pc = "guard", !.opq = o] OBVIOUS
<1>8. th' = [th EXCEPT ![t] = n] BY <1>1, <1>2, <1>3, <1>5, <1>7 DEF OpqLookup, CallType, IInv
<1>9. /\ n \in CallType /\ n.pc = "guard" /\ n.path = r.path /\ n.i = r.i /\ n.cur = r.cur /\ n.opq = o
  BY <1>2, <1>6, <1>7 DEF CallType
<1>10. n.bad = r.bad BY <1>2, <1>7 DEF CallType
<1>11. CallInv(lower, missed, n) BY <1>2, <1>6, <1>9, <1>10, Looks DEF Climbing
<1>12. lower' = lower /\ missed' = missed /\ CacheInv' BY CacheKept DEF IInv, OpqLookup
<1>13. QED BY <1>8, <1>11, <1>12, ThreadStep DEF IInv

LEMMA OpqReleaseStep ==
  ASSUME IInv, NEW t \in Threads, OpqRelease(t) PROVE IInv'
<1>1. PICK r : r = th[t] OBVIOUS
<1>2. lower \in Seq(Layer) /\ r \in CallType /\ CallInv(lower, missed, r) /\ r.pc = "guard"
  BY <1>1 DEF IInv, OpqRelease
<1>3. PICK n : n = AfterLookup(r) OBVIOUS
<1>4. th' = [th EXCEPT ![t] = n] BY <1>1, <1>3 DEF OpqRelease
<1>5. lower' = lower /\ missed' = missed /\ CacheInv' BY CacheKept DEF IInv, OpqRelease
<1>6. CASE r.opq = "miss"
  <2>1. n = [r EXCEPT !.pc = "probe"] BY <1>3, <1>6 DEF AfterLookup
  <2>2. /\ n \in CallType /\ n.pc = "probe" /\ n.path = r.path /\ n.i = r.i /\ n.cur = r.cur
    BY <1>2, <2>1 DEF CallType
  <2>3. n.bad = r.bad BY <1>2, <2>1 DEF CallType
  <2>4. CallInv(lower, missed, n) BY <1>2, <2>2, <2>3, Looks DEF Climbing
  <2>5. QED BY <1>4, <1>5, <2>4, ThreadStep DEF IInv
<1>7. CASE r.opq = "yes"
  <2>1. n = Done(r, Absent) BY <1>3, <1>7 DEF AfterLookup
  <2>2. CallInv(lower, missed, n) BY <1>2, <1>7, <2>1, OpaqueHides
  <2>3. QED BY <1>4, <1>5, <2>2, ThreadStep DEF IInv
<1>8. CASE r.opq = "no"
  <2>1. n = WalkUp(r) BY <1>3, <1>8 DEF AfterLookup
  <2>2. CallInv(lower, missed, n) BY <1>2, <1>8, <2>1, WalkUpInv
  <2>3. QED BY <1>4, <1>5, <2>2, ThreadStep DEF IInv
<1>9. QED BY <1>2, <1>6, <1>7, <1>8 DEF CallType

LEMMA OpqProbeStep ==
  ASSUME IInv, NEW t \in Threads, OpqProbe(t) PROVE IInv'
<1>1. PICK r : r = th[t] OBVIOUS
<1>2. r \in CallType /\ CallInv(lower, missed, r) /\ r.pc = "probe" BY <1>1 DEF IInv, OpqProbe
<1>3. PICK o : o = IF io /\ OpqOf(<<r.i, r.cur>>) THEN "yes" ELSE "no" OBVIOUS
<1>4. PICK n : n = [r EXCEPT !.pc = "ins", !.opq = o] OBVIOUS
<1>5. th' = [th EXCEPT ![t] = n] BY <1>1, <1>2, <1>3, <1>4 DEF OpqProbe, CallType, IInv
<1>6. missed \subseteq missed' /\ missed' \subseteq Dirs BY <1>1, <1>2 DEF OpqProbe, IInv, CallType
<1>7. lower' = lower /\ CacheInv' BY <1>6, CacheKept DEF IInv, OpqProbe
<1>8. CallInv(lower, missed', r) BY <1>2, <1>6, MoreMissed
<1>9. /\ o \in {"yes", "no"}
      /\ o = "yes" => r.cur \in lower[r.i].opq
      /\ o = "no" => (r.cur \notin missed' => r.cur \notin lower[r.i].opq)
  <2>1. ~io => r.cur \in missed' BY <1>1 DEF OpqProbe
  <2>2. QED BY <1>3, <2>1 DEF OpqOf
<1>10. /\ n \in CallType /\ n.pc = "ins" /\ n.path = r.path /\ n.i = r.i /\ n.cur = r.cur /\ n.opq = o
  BY <1>2, <1>4, <1>9 DEF CallType
<1>11. n.bad = r.bad BY <1>2, <1>4 DEF CallType
<1>12. CallInv(lower, missed', n) BY <1>2, <1>8, <1>9, <1>10, <1>11, Looks DEF Climbing
<1>13. QED BY <1>5, <1>6, <1>7, <1>12, ThreadStep

LEMMA OpqInsertStep ==
  ASSUME IInv, NEW t \in Threads, OpqInsert(t) PROVE IInv'
<1>1. PICK r : r = th[t] OBVIOUS
<1>2. lower \in Seq(Layer) /\ r \in CallType /\ CallInv(lower, missed, r) /\ r.pc = "ins"
  BY <1>1 DEF IInv, OpqInsert
<1>3. PICK k : k = KeyOf(r) OBVIOUS
<1>4. /\ r.i \in 1..Len(lower) /\ r.cur \in Dirs /\ r.opq \in {"yes", "no"}
      /\ r.opq = "yes" => r.cur \in lower[r.i].opq
      /\ r.opq = "no" => (r.cur \notin missed => r.cur \notin lower[r.i].opq)
  BY <1>2 DEF CallInv, Walking, Climbing, CallType
<1>5. k \in Keys /\ k[1] = r.i /\ k[2] = r.cur BY <1>3, <1>4 DEF KeyOf, Keys
<1>6. lower' = lower /\ missed' = missed /\ whc' = whc BY DEF OpqInsert
<1>7. CacheInv'
  <2>1. /\ DOMAIN opc' = DOMAIN opc \cup {k}
        /\ \A x \in DOMAIN opc' : opc'[x] = IF x = k THEN r.opq ELSE opc[x]
    BY <1>1, <1>3 DEF OpqInsert, Put
  <2>2. \A x \in DOMAIN opc' : /\ x \in Keys /\ opc'[x] \in {"yes", "no"}
                               /\ opc'[x] = "yes" => OpqOf(x)
                               /\ opc'[x] = "no" /\ x[2] \notin missed => ~OpqOf(x)
    <3> TAKE x \in DOMAIN opc'
    <3>1. CASE x = k BY <1>4, <1>5, <2>1, <3>1 DEF OpqOf
    <3>2. CASE x # k BY <2>1, <3>2 DEF IInv, CacheInv
    <3>3. QED BY <3>1, <3>2
  <2>3. QED BY <1>6, <2>2 DEF IInv, CacheInv, Keys, WhOf, OpqOf
<1>8. PICK n : n = IF r.opq = "yes" THEN Done(r, Absent) ELSE WalkUp(r) OBVIOUS
<1>9. th' = [th EXCEPT ![t] = n] BY <1>1, <1>8 DEF OpqInsert
<1>10. CASE r.opq = "yes"
  <2>1. CallInv(lower, missed, n) BY <1>2, <1>8, <1>10, OpaqueHides
  <2>2. QED BY <1>6, <1>7, <1>9, <2>1, ThreadStep DEF IInv
<1>11. CASE r.opq = "no"
  <2>1. CallInv(lower, missed, n) BY <1>2, <1>8, <1>11, WalkUpInv
  <2>2. QED BY <1>6, <1>7, <1>9, <2>1, ThreadStep DEF IInv
<1>12. QED BY <1>4, <1>10, <1>11

LEMMA IdleInv ==
  ASSUME NEW ls, NEW ms PROVE CallInv(ls, ms, Idle)
<1>1. Root \in Dirs BY DEF Dirs
<1>2. Idle \in CallType BY <1>1 DEF Idle, CallType
<1>3. Idle.pc = "idle" BY DEF Idle
<1>4. PICK s : s = Idle OBVIOUS
<1>5. CallInv(ls, ms, s) BY <1>2, <1>3, <1>4 DEF CallInv, Walking, Marking, Climbing
<1>6. QED BY <1>4, <1>5

LEMMA ReturnStep ==
  ASSUME IInv, NEW t \in Threads, Return(t) PROVE IInv'
<1>1. PICK n : n = Idle OBVIOUS
<1>2. CallInv(lower, missed, n) BY <1>1, IdleInv
<1>3. th' = [th EXCEPT ![t] = n] BY <1>1 DEF Return
<1>4. lower' = lower /\ missed' = missed /\ CacheInv' BY CacheKept DEF IInv, Return
<1>5. QED BY <1>2, <1>3, <1>4, ThreadStep DEF IInv

LEMMA QuietStep ==
  ASSUME IInv, UNCHANGED <<lower, whc, opc, missed, th>> PROVE IInv'
<1>1. CacheInv' BY CacheKept DEF IInv
<1>2. QED BY <1>1 DEF IInv

-----------------------------------------------------------------------------

LEMMA InitInv == Init => IInv
<1> SUFFICES ASSUME Init PROVE IInv OBVIOUS
<1>1. lower \in Seq(Layer) BY StacksAssumption DEF Init
<1>2. CacheInv BY DEF Init, NoCache, CacheInv
<1>3. \A t \in Threads : th[t] = Idle BY DEF Init
<1>4. \A t \in Threads : CallInv(lower, missed, th[t]) BY <1>3, IdleInv
<1>5. \A t \in Threads : th[t] \in CallType BY <1>4 DEF CallInv
<1>6. DOMAIN th = Threads /\ th \in [Threads -> CallType] BY <1>5 DEF Init
<1>7. missed \subseteq Dirs BY DEF Init
<1>8. QED BY <1>1, <1>2, <1>4, <1>6, <1>7 DEF IInv

LEMMA NextInv == IInv /\ [Next]_vars => IInv'
<1> SUFFICES ASSUME IInv, [Next]_vars PROVE IInv' OBVIOUS
<1>1. ASSUME NEW t \in Threads, Walk(t) PROVE IInv'
  BY <1>1, WhLookupStep, WhProbeStep, WhInsertStep, ExistsStep, OpqLookupStep, OpqReleaseStep,
     OpqProbeStep, OpqInsertStep DEF Walk
<1>2. ASSUME NEW t \in Threads, Return(t) PROVE IInv' BY <1>2, ReturnStep
<1>3. ASSUME NEW t \in Threads, NEW p \in Paths, Call(t, p) PROVE IInv' BY <1>3, CallStep
<1>4. CASE DiskFault BY <1>4, QuietStep DEF DiskFault
<1>5. CASE UNCHANGED vars BY <1>5, QuietStep DEF vars
<1>6. QED BY <1>1, <1>2, <1>3, <1>4, <1>5 DEF Next

LEMMA Invariant == Spec => []IInv
  BY InitInv, NextInv, PTL DEF Spec

\* For every number of threads, stack of layers and pattern of disk faults: a
\* path that a layer gives is found by every call whose own existence probes
\* succeeded, whatever other threads have put into lower_whiteouts and
\* lower_opaque before.
THEOREM NothingHidden == Spec => []PresentFound
<1>1. IInv => PresentFound
  <2> SUFFICES ASSUME IInv, NEW t \in Threads, th[t].pc = "done", ~th[t].bad, th[t].ans # Error,
                      LowerResolve(lower, th[t].path) # Absent
               PROVE  th[t].ans = LowerResolve(lower, th[t].path)
    BY DEF PresentFound
  <2>1. Right(lower, missed, th[t]) BY DEF IInv, CallInv
  <2>2. QED BY <2>1 DEF Right
<1>2. QED BY <1>1, Invariant, PTL

\* For every number of threads, stack of layers and pattern of disk faults: an
\* answer that differs from what the disk holds needs a marker probe that failed
\* on a directory of the path, in resolve or in a call before it.
THEOREM WrongNeedsMiss == Spec => []RightUnlessMissed
<1>1. IInv => RightUnlessMissed
  <2> SUFFICES ASSUME IInv, NEW t \in Threads, th[t].pc = "done", ~th[t].bad,
                      th[t].ans \notin {Error, LowerResolve(lower, th[t].path)}
               PROVE  \E d \in missed : Below(d, th[t].path)
    BY DEF RightUnlessMissed
  <2>1. Right(lower, missed, th[t]) BY DEF IInv, CallInv
  <2>2. QED BY <2>1 DEF Right, NoMiss
<1>2. QED BY <1>1, Invariant, PTL
===============================================================================
