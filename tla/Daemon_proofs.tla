---------------------------- MODULE Daemon_proofs ----------------------------
(***************************************************************************)
(* For any number of daemons, every way to start them, whether or not they    *)
(* overlap, and in builds that unwind and that abort: no mount and no upper   *)
(* of its own making is left by a daemon but in the ways that NoZombie names, *)
(* and data is lost in the three ways that ExitLosesNothing names only.       *)
(*                                                                           *)
(* Every unmount is by path and takes the topmost mount, so what each of them *)
(* hits has to be known: the mount of a daemon that runs is the topmost one   *)
(* and is there once (TableInv).  That in turn holds because daemons start in  *)
(* order, each when no other one that runs has a mount (OrderInv).  OwnInv    *)
(* is what a daemon knows of itself on its way through main().                *)
(***************************************************************************)
EXTENDS Daemon, SequenceTheorems, TLAPS

PCs == {"off", "forked", "built", "mounted", "armed", "serving", "ended", "unbound", "dropped", "exited"}
Past == {"serving", "ended", "unbound", "dropped", "exited"}

TypeInv ==
    /\ pc \in [Inst -> PCs]
    /\ mode \in [Inst -> [fork : BOOLEAN, ctl : BOOLEAN, tmp : BOOLEAN]]
    /\ parent \in [Inst -> {"none", "polling", "looked", "ok", "failed"}]
    /\ term \in [Inst -> BOOLEAN]
    /\ watcher \in [Inst -> {"none", "polling", "done", "failed"}]
    /\ owned \in [Inst -> BOOLEAN]
    /\ table \in Seq(Inst)
    /\ user \in [Inst -> {"none", "queued", "open", "write", "dirty", "closed"}]

\* A daemon is started when those before it are past their start, and what they
\* have mounted, if anything, nobody serves.
OrderInv ==
    \A i, j \in Inst : j < i /\ pc[i] # "off" =>
        /\ pc[j] \in Past
        /\ pc[j] = "exited" \/ ~Mounted(j)

TableInv ==
    \A k \in 1..Len(table) :
        /\ pc[table[k]] \notin {"off", "forked", "built"}
        /\ pc[table[k]] # "exited" => k = Len(table)

OwnInv(i) ==
    /\ pc[i] = "off" => i \notin tmp
    /\ i \in tmp => ~mode[i].ctl
    /\ pc[i] = "armed" => mode[i].ctl
    /\ pc[i] \in {"off", "forked", "built", "mounted"} => watcher[i] = "none"
    /\ pc[i] \in {"armed", "serving", "ended", "unbound"} => watcher[i] # "none"
    /\ pc[i] = "mounted" => owned[i]
    /\ pc[i] \in {"off", "forked", "built", "exited"} => user[i] = "none"
    /\ pc[i] \in {"mounted", "armed"} => user[i] \in {"none", "queued"}
    /\ watcher[i] = "none" => user[i] \in {"none", "queued"}
    /\ pc[i] = "armed" /\ Mounted(i) /\ ~owned[i] => user[i] # "none"
    /\ pc[i] \in {"ended", "unbound", "dropped"} /\ i \notin fault \cup panicked =>
          user[i] = "none" /\ ~Mounted(i)

\* The two properties, of one daemon.
SafeOf(i) ==
    /\ pc[i] = "exited" /\ (Mounted(i) \/ i \in tmp) => i \in cut
    /\ i \in lost => i \in fault \cup panicked \cup raced

IInv ==
    /\ TypeInv
    /\ OrderInv
    /\ TableInv
    /\ \A i \in Inst : OwnInv(i) /\ SafeOf(i)
    /\ lost \subseteq Inst

-----------------------------------------------------------------------------
(* The mounts at the path.                                                   *)

LEMMA FrontFacts ==
  ASSUME NEW S, NEW s \in Seq(S), s # << >>
  PROVE  /\ Front(s) \in Seq(S)
         /\ Len(Front(s)) = Len(s) - 1
         /\ \A k \in 1..Len(Front(s)) : Front(s)[k] = s[k]
<1>1. Len(s) \in Nat /\ Len(s) >= 1 BY EmptySeq, LenProperties
<1>2. PICK n \in Nat : n = Len(s) - 1 BY <1>1
<1>3. PICK f : f = SubSeq(s, 1, n) OBVIOUS
<1>4. \A k \in 1..n : s[k] \in S BY <1>1, <1>2, ElementOfSeq
<1>5. /\ f \in Seq(S)
      /\ Len(f) = IF 1 <= n THEN n - 1 + 1 ELSE 0
      /\ \A k \in 1..(n - 1 + 1) : f[k] = s[1 + k - 1]
  BY <1>2, <1>3, <1>4, SubSeqProperties
<1>6. Len(f) = n BY <1>2, <1>5
<1>7. \A k \in 1..n : f[k] = s[k]
  <2> TAKE k \in 1..n
  <2>1. 1 + k - 1 = k /\ k \in 1..(n - 1 + 1) BY <1>2
  <2>2. QED BY <1>5, <2>1
<1>8. Front(s) = f BY <1>2, <1>3 DEF Front
<1>9. QED BY <1>2, <1>5, <1>6, <1>7, <1>8

\* A mount is taken from the top, or none is.
Pops == table' = table \/ (table # << >> /\ table' = Front(table))

LEMMA UnmountsPop ==
  ASSUME NEW i \in Inst
  PROVE  /\ table' = Detach => Pops
         /\ table' = DropMount(i) => Pops
         /\ UNCHANGED table => Pops
BY DEF Detach, DropMount, Umount, Pops

LEMMA PopFacts ==
  ASSUME TypeInv, Pops
  PROVE  /\ table' \in Seq(Inst)
         /\ Len(table) \in Nat /\ Len(table') \in Nat /\ Len(table') <= Len(table)
         /\ \A k \in 1..Len(table') : k \in 1..Len(table) /\ table'[k] = table[k] /\ table[k] \in Inst
         /\ \A i \in Inst : Mounted(i)' => Mounted(i)
<1>1. table \in Seq(Inst) /\ Len(table) \in Nat BY LenProperties DEF TypeInv
<1>2. \A k \in 1..Len(table) : table[k] \in Inst BY <1>1, ElementOfSeq
<1>3. CASE table' = table BY <1>1, <1>2, <1>3 DEF Mounted
<1>4. CASE table # << >> /\ table' = Front(table)
  <2>1. /\ table' \in Seq(Inst)
        /\ Len(table') = Len(table) - 1
        /\ \A k \in 1..Len(table') : table'[k] = table[k]
    BY <1>1, <1>4, FrontFacts
  <2>2. Len(table') \in Nat BY <2>1, LenProperties
  <2>3. QED BY <1>1, <1>2, <2>1, <2>2 DEF Mounted
<1>5. QED BY <1>3, <1>4 DEF Pops

\* The mount of a daemon that runs is on top, and goes with the next unmount.
LEMMA OnTop ==
  ASSUME TypeInv, TableInv, NEW i \in Inst, pc[i] # "exited", Mounted(i)
  PROVE  table # << >> /\ Top = i
<1>1. PICK k \in 1..Len(table) : table[k] = i BY DEF Mounted
<1>2. k = Len(table) BY <1>1 DEF TableInv
<1>3. Len(table) \in Nat BY LenProperties DEF TypeInv
<1>4. table # << >> BY <1>1, <1>3, EmptySeq
<1>5. QED BY <1>1, <1>2, <1>4 DEF Top

LEMMA PoppedIsGone ==
  ASSUME TypeInv, TableInv, NEW i \in Inst, pc[i] # "exited",
         table # << >>, table' = Front(table)
  PROVE  ~Mounted(i)'
<1> SUFFICES ASSUME Mounted(i)' PROVE FALSE OBVIOUS
<1>1. PICK k \in 1..Len(table') : table'[k] = i BY DEF Mounted
<1>2. k \in 1..Len(table) /\ table[k] = i BY <1>1, PopFacts DEF Pops
<1>3. k = Len(table) BY <1>2 DEF TableInv
<1>4. Len(table') = Len(table) - 1 /\ Len(table) \in Nat BY FrontFacts, LenProperties DEF TypeInv
<1>5. QED BY <1>1, <1>3, <1>4

-----------------------------------------------------------------------------
(* Steps of one daemon, or of nobody, that mount nothing.                    *)

Same(j) ==
    /\ pc'[j] = pc[j] /\ mode'[j] = mode[j] /\ watcher'[j] = watcher[j]
    /\ owned'[j] = owned[j] /\ user'[j] = user[j]
    /\ j \in tmp' <=> j \in tmp
    /\ j \in lost' <=> j \in lost
    /\ j \in raced' <=> j \in raced
    /\ j \in fault' <=> j \in fault
    /\ j \in panicked' <=> j \in panicked
    /\ j \in cut' <=> j \in cut

LEMMA OthersKeep ==
  ASSUME IInv, Pops, NEW j \in Inst, Same(j)
  PROVE  OwnInv(j)' /\ SafeOf(j)'
<1>1. Mounted(j)' => Mounted(j) BY PopFacts DEF IInv
<1>2. OwnInv(j) /\ SafeOf(j) BY DEF IInv
<1>3. OwnInv(j)' BY <1>1, <1>2 DEF OwnInv, Same
<1>4. SafeOf(j)' BY <1>1, <1>2 DEF SafeOf, Same
<1>5. QED BY <1>3, <1>4

\* i goes on.
Forward(i) ==
    /\ pc[i] # "off"
    /\ pc[i] \in Past => pc'[i] \in Past
    /\ pc[i] = "exited" => pc'[i] = "exited"
    /\ pc'[i] \in {"off", "forked", "built"} => pc[i] \in {"off", "forked", "built"}

LEMMA QuietStep ==
  ASSUME IInv, TypeInv', Pops, lost' \subseteq Inst,
         NEW i \in Inst, Forward(i), OwnInv(i)', SafeOf(i)',
         \A j \in Inst : j # i => Same(j)
  PROVE  IInv'
<1>1. \A j \in Inst : Mounted(j)' => Mounted(j) BY PopFacts DEF IInv
<1>2. OrderInv'
  <2> SUFFICES ASSUME NEW a \in Inst, NEW b \in Inst, b < a, pc'[a] # "off"
               PROVE  /\ pc'[b] \in Past
                      /\ pc'[b] = "exited" \/ ~Mounted(b)'
    BY DEF OrderInv
  <2>1. pc[a] # "off" BY DEF Same, Forward
  <2>2. /\ pc[b] \in Past
        /\ pc[b] = "exited" \/ ~Mounted(b)
    BY <2>1 DEF IInv, OrderInv
  <2>3. QED BY <1>1, <2>2 DEF Same, Forward
<1>3. TableInv'
  <2> SUFFICES ASSUME NEW k \in 1..Len(table')
               PROVE  /\ pc'[table'[k]] \notin {"off", "forked", "built"}
                      /\ pc'[table'[k]] # "exited" => k = Len(table')
    BY DEF TableInv
  <2>1. /\ k \in 1..Len(table) /\ table'[k] = table[k] /\ table[k] \in Inst
        /\ Len(table') <= Len(table) /\ Len(table') \in Nat /\ Len(table) \in Nat
    BY PopFacts DEF IInv
  <2>2. /\ pc[table[k]] \notin {"off", "forked", "built"}
        /\ pc[table[k]] # "exited" => k = Len(table)
    BY <2>1 DEF IInv, TableInv
  <2>3. pc[table[k]] = "exited" => pc'[table[k]] = "exited" BY <2>1 DEF Same, Forward
  <2>4. pc'[table[k]] \notin {"off", "forked", "built"} BY <2>1, <2>2 DEF Same, Forward
  <2>5. QED BY <2>1, <2>2, <2>3, <2>4
<1>4. \A j \in Inst : OwnInv(j)' /\ SafeOf(j)'
  <2> TAKE j \in Inst
  <2>1. CASE j = i BY <2>1
  <2>2. CASE j # i BY <2>2, OthersKeep
  <2>3. QED BY <2>1, <2>2
<1>5. QED BY <1>2, <1>3, <1>4 DEF IInv

LEMMA NobodysStep ==
  ASSUME IInv, TypeInv', Pops, UNCHANGED <<pc, mode, watcher, owned, user, tmp, lost, raced, fault, panicked, cut>>
  PROVE  IInv'
<1>1. \A j \in Inst : Same(j) BY DEF Same
<1>2. \A j \in Inst : OwnInv(j)' /\ SafeOf(j)' BY <1>1, OthersKeep
<1>3. OrderInv' BY PopFacts DEF IInv, OrderInv
<1>4. TableInv'
  <2> SUFFICES ASSUME NEW k \in 1..Len(table')
               PROVE  /\ pc[table'[k]] \notin {"off", "forked", "built"}
                      /\ pc[table'[k]] # "exited" => k = Len(table')
    BY DEF TableInv
  <2>1. /\ k \in 1..Len(table) /\ table'[k] = table[k]
        /\ Len(table') <= Len(table) /\ Len(table') \in Nat /\ Len(table) \in Nat
    BY PopFacts DEF IInv
  <2>2. QED BY <2>1 DEF IInv, TableInv
<1>5. QED BY <1>2, <1>3, <1>4 DEF IInv

-----------------------------------------------------------------------------
(* The steps.                                                                *)

LEMMA StartStep ==
  ASSUME IInv, NEW i \in Inst, NEW m \in Modes, Start(i, m)
  PROVE  IInv'
<1>1. TypeInv'
  <2>1. m \in [fork : BOOLEAN, ctl : BOOLEAN, tmp : BOOLEAN] BY DaemonAssumption
  <2>2. QED BY <2>1 DEF IInv, TypeInv, Start, PCs
<1>2. /\ pc[i] = "off" /\ pc' = [pc EXCEPT ![i] = "forked"]
      /\ table' = table /\ \A j \in Inst : Mounted(j)' <=> Mounted(j)
      /\ \A j \in Inst : j # i => Same(j)
  BY DEF Start, Mounted, Same, IInv, TypeInv
<1>3. ~Mounted(i) BY <1>2 DEF Mounted, IInv, TableInv
<1>4. OrderInv'
  <2> SUFFICES ASSUME NEW a \in Inst, NEW b \in Inst, b < a, pc'[a] # "off"
               PROVE  /\ pc'[b] \in Past
                      /\ pc'[b] = "exited" \/ ~Mounted(b)'
    BY DEF OrderInv
  <2>1. CASE a = i
    <3>1. b \in 1..(i - 1) /\ b # i BY <2>1 DEF Inst
    <3>2. pc[b] \in {"exited", "serving"} BY <3>1 DEF Start
    <3>3. pc[b] = "exited" \/ ~Mounted(b)
      <4>1. CASE Overlap
        <5>1. table = << >> BY <4>1 DEF Start
        <5>2. QED BY <5>1, EmptySeq DEF Mounted
      <4>2. CASE ~Overlap BY <3>1, <4>2 DEF Start
      <4>3. QED BY <4>1, <4>2
    <3>4. QED BY <1>2, <3>1, <3>2, <3>3 DEF Same, Past
  <2>2. CASE a # i
    <3>1. pc[a] # "off" BY <1>2, <2>2 DEF Same
    <3>2. b # i BY <1>2, <3>1 DEF IInv, OrderInv, Past
    <3>3. QED BY <1>2, <3>1, <3>2 DEF IInv, OrderInv, Same
  <2>3. QED BY <2>1, <2>2
<1>5. TableInv'
  <2> SUFFICES ASSUME NEW k \in 1..Len(table)
               PROVE  /\ pc'[table[k]] \notin {"off", "forked", "built"}
                      /\ pc'[table[k]] # "exited" => k = Len(table)
    BY <1>2 DEF TableInv
  <2>1. table[k] # i /\ table[k] \in Inst BY <1>3, ElementOfSeq DEF Mounted, IInv, TypeInv
  <2>2. QED BY <1>2, <2>1 DEF IInv, TableInv, Same
<1>6. \A j \in Inst : OwnInv(j)' /\ SafeOf(j)'
  <2> TAKE j \in Inst
  <2>1. CASE j = i
    <3>1. OwnInv(i) /\ SafeOf(i) BY DEF IInv
    <3>2. OwnInv(i)' BY <1>1, <1>2, <3>1, DaemonAssumption DEF OwnInv, Start, IInv, TypeInv
    <3>3. SafeOf(i)' BY <1>1, <1>2, <3>1 DEF SafeOf, Start, IInv, TypeInv
    <3>4. QED BY <2>1, <3>2, <3>3
  <2>2. CASE j # i BY <1>2, <2>2, OthersKeep DEF Pops
  <2>3. QED BY <2>1, <2>2
<1>7. QED BY <1>1, <1>4, <1>5, <1>6 DEF IInv, Start

LEMMA SessionNewStep ==
  ASSUME IInv, NEW i \in Inst, SessionNew(i)
  PROVE  IInv'
<1>1. TypeInv'
  <2>1. table' \in Seq(Inst) BY AppendProperties DEF SessionNew, IInv, TypeInv
  <2>2. QED BY <2>1 DEF IInv, TypeInv, SessionNew, PCs
<1>2. /\ Len(table) \in Nat /\ Len(table') = Len(table) + 1 /\ table'[Len(table) + 1] = i
      /\ \A k \in 1..Len(table) : table'[k] = table[k] /\ table[k] \in Inst
  BY AppendProperties, LenProperties, ElementOfSeq DEF SessionNew, IInv, TypeInv
<1>3. pc[i] = "built" /\ pc' = [pc EXCEPT ![i] = "mounted"] /\ pc'[i] = "mounted"
  BY DEF SessionNew, IInv, TypeInv
<1>4. \A j \in Inst : j # i => Same(j) /\ (Mounted(j)' <=> Mounted(j))
  <2> TAKE j \in Inst
  <2> HAVE j # i
  <2>1. Same(j) BY DEF SessionNew, Same, IInv, TypeInv
  <2>2. Mounted(j)' <=> Mounted(j) BY <1>2 DEF Mounted
  <2>3. QED BY <2>1, <2>2
<1>5. OrderInv'
  <2> SUFFICES ASSUME NEW a \in Inst, NEW b \in Inst, b < a, pc'[a] # "off"
               PROVE  /\ pc'[b] \in Past
                      /\ pc'[b] = "exited" \/ ~Mounted(b)'
    BY DEF OrderInv
  <2>1. pc[a] # "off" BY <1>3, <1>4 DEF Same
  <2>2. /\ pc[b] \in Past
        /\ pc[b] = "exited" \/ ~Mounted(b)
    BY <2>1 DEF IInv, OrderInv
  <2>3. b # i BY <1>3, <2>2 DEF Past
  <2>4. QED BY <1>4, <2>2, <2>3 DEF Same
<1>6. TableInv'
  <2> SUFFICES ASSUME NEW k \in 1..Len(table')
               PROVE  /\ pc'[table'[k]] \notin {"off", "forked", "built"}
                      /\ pc'[table'[k]] # "exited" => k = Len(table')
    BY DEF TableInv
  <2>1. CASE k = Len(table') BY <1>2, <1>3, <2>1
  <2>2. CASE k # Len(table')
    <3>1. k \in 1..Len(table) /\ table'[k] = table[k] /\ table[k] \in Inst BY <1>2, <2>2
    <3>2. PICK j \in Inst : j = table[k] BY <3>1
    <3>3. Mounted(j) BY <3>1, <3>2 DEF Mounted
    <3>4. pc[j] \notin {"off", "forked", "built"} BY <3>1, <3>2 DEF IInv, TableInv
    <3>5. j < i
      <4>1. j # i BY <1>3, <3>4
      <4>2. ~(i < j) BY <1>3, <3>4 DEF IInv, OrderInv, Past
      <4>3. QED BY <4>1, <4>2 DEF Inst
    <3>6. pc[j] = "exited" BY <1>3, <3>3, <3>5 DEF IInv, OrderInv
    <3>7. pc'[j] = "exited" BY <1>4, <3>5, <3>6 DEF Same, Inst
    <3>8. QED BY <3>1, <3>2, <3>7
  <2>3. QED BY <2>1, <2>2
<1>7. \A j \in Inst : OwnInv(j)' /\ SafeOf(j)'
  <2> TAKE j \in Inst
  <2>1. OwnInv(j) /\ SafeOf(j) BY DEF IInv
  <2>2. CASE j = i
    <3>1. OwnInv(i)' BY <1>1, <1>3, <2>1, <2>2 DEF OwnInv, SessionNew, IInv, TypeInv
    <3>2. SafeOf(i)' BY <1>3, <2>1, <2>2 DEF SafeOf, SessionNew
    <3>3. QED BY <2>2, <3>1, <3>2
  <2>3. CASE j # i
    <3>1. OwnInv(j)' BY <1>4, <2>1, <2>3 DEF OwnInv, Same
    <3>2. SafeOf(j)' BY <1>4, <2>1, <2>3 DEF SafeOf, Same
    <3>3. QED BY <3>1, <3>2
  <2>4. QED BY <2>2, <2>3
<1>8. QED BY <1>1, <1>5, <1>6, <1>7 DEF IInv, SessionNew

\* The way to the session.
LEMMA BuildStep ==
  ASSUME IInv, NEW i \in Inst, Build(i) \/ Arm(i) \/ Bind(i)
  PROVE  IInv'
<1>1. TypeInv' BY DEF IInv, TypeInv, Build, Arm, Bind, PCs
<1>2. UNCHANGED table BY DEF Build, Arm, Bind
<1>3. Pops /\ (Mounted(i)' <=> Mounted(i)) BY <1>2 DEF Pops, Mounted
<1>4. \A j \in Inst : j # i => Same(j) BY DEF IInv, TypeInv, Build, Arm, Bind, Same
<1>5. Forward(i) BY DEF IInv, TypeInv, Build, Arm, Bind, Forward, Past
<1>6. OwnInv(i) /\ SafeOf(i) BY DEF IInv
<1>7. OwnInv(i)' BY <1>1, <1>3, <1>6 DEF OwnInv, Build, Arm, Bind, IInv, TypeInv
<1>8. SafeOf(i)' BY <1>1, <1>3, <1>6 DEF SafeOf, Build, Arm, Bind, IInv, TypeInv
<1>9. lost' \subseteq Inst BY DEF IInv, Build, Arm, Bind
<1>10. QED BY <1>1, <1>3, <1>4, <1>5, <1>7, <1>8, <1>9, QuietStep

\* No mount yet, and only a daemon without a socket has an upper of its own.
LEMMA SessionFailsStep ==
  ASSUME IInv, NEW i \in Inst, SessionFails(i)
  PROVE  IInv'
<1>1. TypeInv' BY DEF IInv, TypeInv, SessionFails, Die, PCs
<1>2. Pops /\ (Mounted(i)' <=> Mounted(i)) BY DEF Pops, Mounted, SessionFails
<1>3. \A j \in Inst : j # i => Same(j) BY DEF IInv, TypeInv, SessionFails, Die, Same
<1>4. Forward(i) BY DEF IInv, TypeInv, SessionFails, Die, Forward, Past
<1>5. OwnInv(i) /\ SafeOf(i) BY DEF IInv
<1>6. pc[i] = "built" /\ ~Mounted(i) /\ user[i] = "none"
  BY <1>5 DEF SessionFails, OwnInv, IInv, TableInv, Mounted
<1>7. lost' = lost /\ user'[i] = "none" /\ i \in fault' BY <1>6 DEF SessionFails, Die, IInv, TypeInv
<1>8. mode' = mode /\ tmp' = tmp /\ cut' = cut BY DEF SessionFails
<1>9. pc'[i] = IF mode[i].ctl THEN "exited" ELSE "dropped" BY DEF SessionFails, Die, IInv, TypeInv
<1>10. OwnInv(i)' BY <1>2, <1>5, <1>6, <1>7, <1>8, <1>9 DEF OwnInv
<1>11. SafeOf(i)' BY <1>2, <1>5, <1>6, <1>7, <1>8, <1>9 DEF SafeOf, OwnInv
<1>12. lost' \subseteq Inst BY <1>7 DEF IInv
<1>13. QED BY <1>1, <1>2, <1>3, <1>4, <1>10, <1>11, <1>12, QuietStep

\* A session dropped while its mount is idle takes the mount along; a busy one
\* is recorded in `cut`.
LEMMA BindFailsStep ==
  ASSUME IInv, NEW i \in Inst, BindFails(i)
  PROVE  IInv'
<1>1. Pops BY UnmountsPop DEF BindFails
<1>2. TypeInv' BY <1>1, PopFacts DEF IInv, TypeInv, BindFails, Die, PCs
<1>3. \A j \in Inst : j # i => Same(j) BY DEF IInv, TypeInv, BindFails, Die, Same
<1>4. Forward(i) BY DEF IInv, TypeInv, BindFails, Die, Forward, Past
<1>5. OwnInv(i) /\ SafeOf(i) BY DEF IInv
<1>6. /\ pc[i] = "armed" /\ pc'[i] = "exited" /\ user'[i] = "none"
      /\ mode' = mode /\ tmp' = tmp /\ i \notin tmp
  BY <1>5 DEF IInv, TypeInv, BindFails, Die, OwnInv
<1>7. OwnInv(i)' BY <1>2, <1>5, <1>6 DEF OwnInv, TypeInv
<1>8. i \notin cut' => ~Mounted(i)'
  <2> SUFFICES ASSUME i \notin cut' PROVE ~Mounted(i)' OBVIOUS
  <2>1. user[i] = "none" BY DEF BindFails
  <2>2. CASE ~Mounted(i) BY <1>1, <2>2, PopFacts DEF IInv
  <2>3. CASE Mounted(i)
    <3>1. owned[i] /\ Alive(i) BY <1>5, <1>6, <2>1, <2>3 DEF OwnInv, Alive
    <3>2. table # << >> /\ Top = i BY <1>6, <2>3, OnTop DEF IInv
    <3>3. table' = Front(table) BY <2>1, <3>1, <3>2 DEF BindFails, DropMount, Umount
    <3>4. QED BY <1>6, <3>2, <3>3, PoppedIsGone DEF IInv
  <2>4. QED BY <2>2, <2>3
<1>9. SafeOf(i)' BY <1>5, <1>6, <1>8 DEF SafeOf, BindFails
<1>10. lost' \subseteq Inst BY DEF IInv, BindFails, Die
<1>11. QED BY <1>1, <1>2, <1>3, <1>4, <1>7, <1>9, <1>10, QuietStep

\* The parent only looks.
LEMMA ParentStep ==
  ASSUME IInv, NEW i \in Inst, ParentReady(i) \/ ParentLooks(i) \/ ParentReaps(i) \/ ParentAgain(i)
  PROVE  IInv'
<1>1. TypeInv' BY DEF IInv, TypeInv, ParentReady, ParentLooks, ParentReaps, ParentAgain
<1>2. Pops BY DEF Pops, ParentReady, ParentLooks, ParentReaps, ParentAgain
<1>3. UNCHANGED <<pc, mode, watcher, owned, user, tmp, lost, raced, fault, panicked, cut>>
  BY DEF ParentReady, ParentLooks, ParentReaps, ParentAgain
<1>4. QED BY <1>1, <1>2, <1>3, NobodysStep

\* A signal, also the one a parent sends when it gives up.  Before the handlers
\* are armed it kills, which `cut` records.
LEMMA TerminateStep ==
  ASSUME IInv, NEW i \in Inst, Terminate(i),
         \/ UNCHANGED parent
         \/ parent' = [parent EXCEPT ![i] = "failed"]
  PROVE  IInv'
<1>1. TypeInv' BY DEF IInv, TypeInv, Terminate, Die, PCs
<1>2. Pops /\ (Mounted(i)' <=> Mounted(i)) BY DEF Pops, Mounted, Terminate
<1>3. \A j \in Inst : j # i => Same(j) BY DEF IInv, TypeInv, Terminate, Die, Same
<1>4. OwnInv(i) /\ SafeOf(i) BY DEF IInv
<1>5. Forward(i) BY DEF IInv, TypeInv, Terminate, Die, Forward, Past
<1>6. pc[i] \notin {"off", "exited"} /\ UNCHANGED <<mode, tmp, raced, fault, panicked>> BY DEF Terminate
<1>7. lost' \subseteq Inst BY DEF IInv, Terminate, Die
<1>8. CASE watcher[i] # "none"
  <2>1. UNCHANGED <<pc, user, lost, watcher, owned, cut>> BY <1>8 DEF Terminate
  <2>2. OwnInv(i)' BY <1>2, <1>4, <1>6, <2>1 DEF OwnInv
  <2>3. SafeOf(i)' BY <1>2, <1>4, <1>6, <2>1 DEF SafeOf
  <2>4. QED BY <1>1, <1>2, <1>3, <1>5, <1>7, <2>2, <2>3, QuietStep
<1>9. CASE watcher[i] = "none"
  <2>1. pc'[i] = "exited" /\ user'[i] = "none" /\ i \in cut' BY <1>9 DEF Terminate, Die, IInv, TypeInv
  <2>2. user[i] \in {"none", "queued"} BY <1>4, <1>9 DEF OwnInv
  <2>3. lost' = lost BY <1>9, <2>2 DEF Terminate, Die
  <2>4. OwnInv(i)' BY <1>4, <1>6, <2>1 DEF OwnInv
  <2>5. SafeOf(i)' BY <1>4, <1>6, <2>1, <2>3 DEF SafeOf
  <2>6. QED BY <1>1, <1>2, <1>3, <1>5, <1>7, <2>4, <2>5, QuietStep
<1>10. QED BY <1>8, <1>9

\* The watcher's unmount fails on a busy mount, which is then in use when the
\* daemon comes to bind its socket.
LEMMA WatchStep ==
  ASSUME IInv, NEW i \in Inst, Watch(i)
  PROVE  IInv'
<1>1. Pops BY UnmountsPop DEF Watch
<1>2. TypeInv' BY <1>1, PopFacts DEF IInv, TypeInv, Watch
<1>3. \A j \in Inst : j # i => Same(j) BY DEF IInv, TypeInv, Watch, Same
<1>4. OwnInv(i) /\ SafeOf(i) BY DEF IInv
<1>5. watcher[i] = "polling" /\ pc'[i] = pc[i] /\ watcher'[i] # "none" BY DEF Watch, IInv, TypeInv
<1>6. pc[i] \notin {"off", "forked", "built", "mounted"} BY <1>4, <1>5 DEF OwnInv
<1>7. Forward(i) BY <1>5, <1>6 DEF Watch, Forward
<1>8. Mounted(i)' => Mounted(i) BY <1>1, PopFacts DEF IInv
<1>9. pc[i] = "armed" /\ Mounted(i)' => user[i] # "none"
  <2> SUFFICES ASSUME pc[i] = "armed", Mounted(i)', user[i] = "none" PROVE FALSE OBVIOUS
  <2>1. owned[i] /\ Alive(i) BY <1>4, <1>8 DEF OwnInv, Alive, IInv, TypeInv
  <2>2. table # << >> /\ Top = i BY <1>8, OnTop DEF IInv
  <2>3. table' = Front(table) BY <2>1, <2>2 DEF Watch, DropMount, Umount
  <2>4. QED BY <2>2, <2>3, PoppedIsGone DEF IInv
<1>10. OwnInv(i)' BY <1>4, <1>5, <1>6, <1>8, <1>9 DEF OwnInv, Watch
<1>11. SafeOf(i)' BY <1>4, <1>5, <1>8 DEF SafeOf, Watch
<1>12. lost' \subseteq Inst BY DEF IInv, Watch
<1>13. QED BY <1>1, <1>2, <1>3, <1>7, <1>10, <1>11, <1>12, QuietStep

\* What the users of a mount do.
LEMMA UserStep ==
  ASSUME IInv, NEW i \in Inst, Open(i) \/ Opened(i) \/ Write(i) \/ Written(i) \/ Close(i) \/ Release(i)
  PROVE  IInv'
<1>1. TypeInv' BY DEF IInv, TypeInv, Open, Opened, Write, Written, Close, Release
<1>2. Pops /\ (Mounted(i)' <=> Mounted(i)) BY DEF Pops, Mounted, Open, Opened, Write, Written, Close, Release
<1>3. \A j \in Inst : j # i => Same(j) BY DEF IInv, TypeInv, Open, Opened, Write, Written, Close, Release, Same
<1>4. OwnInv(i) /\ SafeOf(i) BY DEF IInv
<1>5. UNCHANGED <<pc, mode, watcher, owned, tmp, lost, raced, fault, panicked, cut>>
  BY DEF Open, Opened, Write, Written, Close, Release
<1>6. \/ pc[i] = "serving" \/ Open(i)
      \/ Close(i) /\ user[i] \in {"open", "dirty"} /\ user'[i] \in {"none", "closed"}
  BY DEF Opened, Write, Written, Close, Release, IInv, TypeInv
<1>7. ASSUME Open(i)
      PROVE  Mounted(i) /\ pc[i] \notin {"off", "forked", "built", "exited"} /\ user'[i] = "queued"
  <2>1. Len(table) \in Nat /\ Len(table) > 0 /\ table[Len(table)] = i
    BY <1>7, EmptySeq, LenProperties DEF Open, Top, IInv, TypeInv
  <2>2. Mounted(i) /\ pc[i] \notin {"off", "forked", "built"} BY <2>1 DEF Mounted, IInv, TableInv
  <2>3. user'[i] = "queued" /\ pc[i] # "exited" BY <1>7 DEF Open, IInv, TypeInv
  <2>4. QED BY <2>2, <2>3
<1>8. pc[i] # "off" BY <1>4, <1>6, <1>7 DEF OwnInv
<1>9. Forward(i) BY <1>5, <1>8 DEF Forward
<1>10. OwnInv(i)'
  <2>1. CASE pc[i] = "serving" BY <1>2, <1>4, <1>5, <2>1 DEF OwnInv
  <2>2. CASE Open(i) BY <1>2, <1>4, <1>5, <1>7, <2>2 DEF OwnInv
  <2>3. CASE Close(i) BY <1>2, <1>4, <1>5, <1>6, <2>1, <2>2, <2>3 DEF OwnInv
  <2>4. QED BY <1>6, <2>1, <2>2, <2>3
<1>11. SafeOf(i)' BY <1>2, <1>4, <1>5 DEF SafeOf
<1>12. QED BY <1>1, <1>2, <1>3, <1>5, <1>9, <1>10, <1>11, QuietStep DEF IInv

\* The connection ends with a RELEASE in it.
LEMMA DropQueueStep ==
  ASSUME IInv, NEW i \in Inst, DropQueue(i)
  PROVE  IInv'
<1>1. TypeInv' BY DEF IInv, TypeInv, DropQueue
<1>2. Pops /\ (Mounted(i)' <=> Mounted(i)) BY DEF Pops, Mounted, DropQueue
<1>3. \A j \in Inst : j # i => Same(j) BY DEF IInv, TypeInv, DropQueue, Same
<1>4. OwnInv(i) /\ SafeOf(i) BY DEF IInv
<1>5. UNCHANGED <<pc, mode, watcher, owned, tmp, fault, panicked, cut>> BY DEF DropQueue
<1>6. user[i] = "closed" /\ user'[i] = "none" /\ ~Mounted(i) /\ i \in raced' BY DEF DropQueue, IInv, TypeInv
<1>7. Forward(i) BY <1>4, <1>5, <1>6 DEF Forward, OwnInv
<1>8. OwnInv(i)' BY <1>2, <1>4, <1>5, <1>6 DEF OwnInv
<1>9. SafeOf(i)' BY <1>2, <1>4, <1>5, <1>6 DEF SafeOf
<1>10. lost' \subseteq Inst BY DEF IInv, DropQueue
<1>11. QED BY <1>1, <1>2, <1>3, <1>7, <1>8, <1>9, <1>10, QuietStep

\* A session ends when its connection is gone, or in a fault.
LEMMA EndStep ==
  ASSUME IInv, NEW i \in Inst, RunReturns(i) \/ RunFails(i) \/ RemoveSocket(i)
  PROVE  IInv'
<1>1. TypeInv' BY DEF IInv, TypeInv, RunReturns, RunFails, RemoveSocket, PCs
<1>2. Pops /\ (Mounted(i)' <=> Mounted(i)) BY DEF Pops, Mounted, RunReturns, RunFails, RemoveSocket
<1>3. \A j \in Inst : j # i => Same(j) BY DEF IInv, TypeInv, RunReturns, RunFails, RemoveSocket, Same
<1>4. OwnInv(i) /\ SafeOf(i) BY DEF IInv
<1>5. Forward(i) BY DEF IInv, TypeInv, RunReturns, RunFails, RemoveSocket, Forward, Past
<1>6. OwnInv(i)'
  BY <1>1, <1>2, <1>4 DEF OwnInv, RunReturns, RunFails, RemoveSocket, Alive, IInv, TypeInv
<1>7. SafeOf(i)' BY <1>1, <1>2, <1>4 DEF SafeOf, RunReturns, RunFails, RemoveSocket, IInv, TypeInv
<1>8. lost' \subseteq Inst BY DEF IInv, RunReturns, RunFails, RemoveSocket
<1>9. QED BY <1>1, <1>2, <1>3, <1>5, <1>6, <1>7, <1>8, QuietStep

\* A panic is caught, or aborts and is recorded in `cut`.
LEMMA PanicStep ==
  ASSUME IInv, NEW i \in Inst, Panic(i)
  PROVE  IInv'
<1>1. TypeInv' BY DEF IInv, TypeInv, Panic, Die, PCs
<1>2. Pops /\ (Mounted(i)' <=> Mounted(i)) BY DEF Pops, Mounted, Panic
<1>3. \A j \in Inst : j # i => Same(j) BY DEF IInv, TypeInv, Panic, Die, Same
<1>4. OwnInv(i) /\ SafeOf(i) BY DEF IInv
<1>5. Forward(i) BY DEF IInv, TypeInv, Panic, Die, Forward, Past
<1>6. pc[i] = "serving" /\ i \in panicked' /\ UNCHANGED <<mode, tmp, raced, fault>> BY DEF Panic
<1>7. lost' \subseteq Inst BY DEF IInv, Panic, Die
<1>8. CASE Unwind
  <2>1. pc'[i] = "ended" /\ UNCHANGED <<watcher, owned, user, lost, cut>> BY <1>8 DEF Panic, IInv, TypeInv
  <2>2. OwnInv(i)' BY <1>2, <1>4, <1>6, <2>1 DEF OwnInv
  <2>3. SafeOf(i)' BY <1>2, <1>4, <1>6, <2>1 DEF SafeOf
  <2>4. QED BY <1>1, <1>2, <1>3, <1>5, <1>7, <2>2, <2>3, QuietStep
<1>9. CASE ~Unwind
  <2>1. pc'[i] = "exited" /\ user'[i] = "none" /\ i \in cut' BY <1>9 DEF Panic, Die, IInv, TypeInv
  <2>2. OwnInv(i)' BY <1>4, <1>6, <2>1 DEF OwnInv
  <2>3. SafeOf(i)' BY <1>6, <2>1 DEF SafeOf
  <2>4. QED BY <1>1, <1>2, <1>3, <1>5, <1>7, <2>2, <2>3, QuietStep
<1>10. QED BY <1>8, <1>9

LEMMA DropSessionStep ==
  ASSUME IInv, NEW i \in Inst, DropSession(i)
  PROVE  IInv'
<1>1. Pops BY UnmountsPop DEF DropSession
<1>2. TypeInv' BY <1>1, PopFacts DEF IInv, TypeInv, DropSession, PCs
<1>3. \A j \in Inst : j # i => Same(j) BY DEF IInv, TypeInv, DropSession, Same
<1>4. OwnInv(i) /\ SafeOf(i) BY DEF IInv
<1>5. Forward(i) BY DEF IInv, TypeInv, DropSession, Forward, Past
<1>6. Mounted(i)' => Mounted(i) BY <1>1, PopFacts DEF IInv
<1>7. pc[i] \in {"ended", "unbound"} /\ pc'[i] = "dropped" BY DEF DropSession, IInv, TypeInv
<1>8. OwnInv(i)' BY <1>4, <1>6, <1>7 DEF OwnInv, DropSession
<1>9. SafeOf(i)' BY <1>4, <1>6, <1>7 DEF SafeOf, DropSession
<1>10. lost' \subseteq Inst BY DEF IInv, DropSession
<1>11. QED BY <1>1, <1>2, <1>3, <1>5, <1>8, <1>9, <1>10, QuietStep

\* The detach hits the daemon's own mount, if it still has one, and unwritten
\* data is there only after a fault or a panic.
LEMMA CleanupStep ==
  ASSUME IInv, NEW i \in Inst, Cleanup(i)
  PROVE  IInv'
<1>1. Pops BY UnmountsPop DEF Cleanup
<1>2. TypeInv' BY <1>1, PopFacts DEF IInv, TypeInv, Cleanup, Die, PCs
<1>3. \A j \in Inst : j # i => Same(j) BY DEF IInv, TypeInv, Cleanup, Die, Same
<1>4. OwnInv(i) /\ SafeOf(i) BY DEF IInv
<1>5. Forward(i) BY DEF IInv, TypeInv, Cleanup, Die, Forward, Past
<1>6. /\ pc[i] = "dropped" /\ pc'[i] = "exited" /\ user'[i] = "none" /\ i \notin tmp'
      /\ UNCHANGED <<raced, fault, panicked>>
  BY DEF Cleanup, Die, IInv, TypeInv
<1>7. OwnInv(i)' BY <1>2, <1>6 DEF OwnInv
<1>8. ~Mounted(i)'
  <2>1. CASE ~Mounted(i) BY <1>1, <2>1, PopFacts DEF IInv
  <2>2. CASE Mounted(i)
    <3>1. table # << >> BY <1>6, <2>2, OnTop DEF IInv
    <3>2. table' = Front(table) BY <3>1 DEF Cleanup, is_mountpoint, Detach
    <3>3. QED BY <1>6, <3>1, <3>2, PoppedIsGone DEF IInv
  <2>3. QED BY <2>1, <2>2
<1>9. i \in lost' => i \in fault \cup panicked \cup raced
  BY <1>4, <1>6 DEF OwnInv, SafeOf, Cleanup, Die
<1>10. SafeOf(i)' BY <1>6, <1>8, <1>9 DEF SafeOf
<1>11. lost' \subseteq Inst BY DEF IInv, Cleanup, Die
<1>12. QED BY <1>1, <1>2, <1>3, <1>5, <1>7, <1>10, <1>11, QuietStep

-----------------------------------------------------------------------------
LEMMA InitInv == Init => IInv
<1> SUFFICES ASSUME Init PROVE IInv OBVIOUS
<1>1. table = << >> /\ Len(table) = 0 BY EmptySeq DEF Init
<1>2. TypeInv BY EmptySeq DEF Init, TypeInv, PCs
<1>3. OrderInv BY DEF Init, OrderInv
<1>4. TableInv BY <1>1 DEF TableInv
<1>5. \A i \in Inst : ~Mounted(i) BY <1>1 DEF Mounted
<1>6. \A i \in Inst : OwnInv(i) /\ SafeOf(i) BY <1>5 DEF Init, OwnInv, SafeOf
<1>7. QED BY <1>2, <1>3, <1>4, <1>6 DEF IInv, Init

LEMMA NextInv == ASSUME IInv, [Next]_vars PROVE IInv'
<1>1. ASSUME NEW i \in Inst, Main(i) PROVE IInv'
  <2>1. ASSUME Build(i) \/ Arm(i) \/ Bind(i) PROVE IInv' BY <2>1, BuildStep
  <2>2. ASSUME RunReturns(i) \/ RemoveSocket(i) PROVE IInv' BY <2>2, EndStep
  <2>3. QED
    BY <1>1, <2>1, <2>2, SessionNewStep, SessionFailsStep, BindFailsStep, DropSessionStep, CleanupStep DEF Main
<1>2. ASSUME NEW i \in Inst, Parent(i) \/ Signal(i) PROVE IInv'
  <2>1. ASSUME ParentTimeout(i) PROVE IInv' BY <2>1, TerminateStep DEF ParentTimeout
  <2>2. ASSUME Signal(i) PROVE IInv' BY <2>2, TerminateStep DEF Signal
  <2>3. QED BY <1>2, <2>1, <2>2, ParentStep DEF Parent
<1>3. ASSUME NEW i \in Inst, Serve(i) \/ Open(i) \/ Write(i) \/ Close(i) PROVE IInv'
  BY <1>3, UserStep DEF Serve
<1>4. ASSUME NEW i \in Inst, RunFails(i) \/ Panic(i) \/ DropQueue(i) PROVE IInv'
  BY <1>4, EndStep, PanicStep, DropQueueStep
<1>5. CASE LazyUnmount
  <2>1. Pops BY <1>5 DEF LazyUnmount, Detach, Pops
  <2>2. TypeInv' BY <1>5, <2>1, PopFacts DEF IInv, TypeInv, LazyUnmount
  <2>3. QED BY <1>5, <2>1, <2>2, NobodysStep DEF LazyUnmount
<1>6. CASE UNCHANGED vars
  <2>1. Pops BY <1>6 DEF vars, Pops
  <2>2. TypeInv' BY <1>6 DEF IInv, TypeInv, vars
  <2>3. QED BY <1>6, <2>1, <2>2, NobodysStep DEF vars
<1>7. QED BY <1>1, <1>2, <1>3, <1>4, <1>5, <1>6, StartStep, WatchStep DEF Next

LEMMA Invariance == Spec => []IInv
BY InitInv, NextInv, PTL DEF Spec

\* No daemon that ends leaves its mount in the table or its synthesized upper on
\* disk, apart from the cases that `cut` records: however many daemons follow
\* one another, whatever is unmounted from outside, and with files open when the
\* session fails.
THEOREM MountGoesWithDaemon == Spec => []NoZombie
<1>1. IInv => NoZombie BY DEF IInv, SafeOf, NoZombie
<1>2. QED BY <1>1, Invariance, PTL

\* Data written through the mount and not yet written back is lost only to a
\* session that failed or panicked, or to an unmount that overtakes a RELEASE:
\* not to signals, to unmounts under open files, or to a later daemon.
THEOREM OnlyFaultsLose == Spec => []ExitLosesNothing
<1>1. IInv => ExitLosesNothing BY DEF IInv, SafeOf, ExitLosesNothing
<1>2. QED BY <1>1, Invariance, PTL
===============================================================================
