---------------------------- MODULE Stats_proofs ----------------------------
(***************************************************************************)
(* The ring of recent operations implements the log it stands for, for every *)
(* capacity, number of threads and operations.  Stats has an unbounded past:  *)
(* the ring forgets it, and what has to be invariant is how `head` relates    *)
(* to the fill of the buffer: 0 until the buffer is full, the slot of the     *)
(* oldest entry from then on.  The step that matters is a push, and the       *)
(* argument is about the remainders by which push and collect go round.      *)
(* The second half is about a histogram whose relaxed increments are seen in *)
(* any order: each of its values is that of the observations whose increment  *)
(* of it has been seen.                                                       *)
(***************************************************************************)
EXTENDS Stats, SequenceTheorems, FiniteSetTheorems, WellFoundedInduction, TLAPS

RingOK(r) ==
    /\ r \in [buf : Seq(RecentOp), head : Nat]
    /\ Len(r.buf) <= Cap
    /\ r.head < Cap
    /\ Len(r.buf) < Cap => r.head = 0

\* What has to be known of the threads: an entry to be pushed is an entry.
ThreadType ==
    [pc : {"idle", "work", "stamp", "lock", "push", "recorded", "unwound", "drop"},
     op : Op \cup {None}, rc : Rc, ts : 0..MaxTime, us : Latency \cup {0},
     todo : SUBSET {"bucket", "count", "sum_us", "in_flight"}]
ThreadInv ==
    /\ clock \in 0..MaxTime
    /\ th \in [Threads -> ThreadType]
    /\ \A t \in Threads : th[t].pc # "idle" => th[t].op \in Op

RInv == RingOK(ring) /\ ThreadInv

-----------------------------------------------------------------------------
(* Going round.                                                              *)

LEMMA Remainders ==
  ASSUME NEW n \in Nat \ {0}, NEW a \in 0..(n - 1)
  PROVE  a % n = a /\ (a + n) % n = a /\ n % n = 0
<1>1. \A m \in Nat \ {0} : \A b \in 0..(m - 1) : b % m = b OBVIOUS
<1>2. \A m \in Nat \ {0} : \A b \in 0..(m - 1) : (b + m) % m = b OBVIOUS
<1>3. \A m \in Nat \ {0} : m % m = 0 OBVIOUS
<1>4. QED BY <1>1, <1>2, <1>3

\* The slot i back from the head h.
LEMMA Back ==
  ASSUME NEW h \in Nat, h < Cap, NEW i \in 1..Cap
  PROVE  (h + Cap - i) % Cap = IF i <= h THEN h - i ELSE h + Cap - i
<1>1. Cap \in Nat \ {0} BY StatsAssumption
<1>2. CASE i <= h
  <2>1. h - i \in 0..(Cap - 1) BY <1>1, <1>2
  <2>2. h + Cap - i = (h - i) + Cap BY <1>1
  <2>3. ((h - i) + Cap) % Cap = h - i BY <1>1, <2>1, Remainders
  <2>4. QED BY <1>2, <2>2, <2>3
<1>3. CASE ~(i <= h)
  <2>1. h + Cap - i \in 0..(Cap - 1) BY <1>1, <1>3
  <2>2. (h + Cap - i) % Cap = h + Cap - i BY <1>1, <2>1, Remainders
  <2>3. QED BY <1>3, <2>2
<1>4. QED BY <1>2, <1>3

LEMMA Forth ==
  ASSUME NEW h \in Nat, h < Cap
  PROVE  (h + 1) % Cap = IF h + 1 = Cap THEN 0 ELSE h + 1
<1>1. Cap \in Nat \ {0} BY StatsAssumption
<1>2. CASE h + 1 = Cap
  <2>1. 0 \in 0..(Cap - 1) BY <1>1
  <2>2. Cap % Cap = 0 BY <1>1, <2>1, Remainders
  <2>3. QED BY <1>2, <2>2
<1>3. CASE h + 1 # Cap
  <2>1. h + 1 \in 0..(Cap - 1) BY <1>1, <1>3
  <2>2. (h + 1) % Cap = h + 1 BY <1>1, <2>1, Remainders
  <2>3. QED BY <1>3, <2>2
<1>4. QED BY <1>2, <1>3

-----------------------------------------------------------------------------
(* What collect returns.                                                     *)

LEMMA SlotRange ==
  ASSUME NEW r, RingOK(r), NEW i \in 1..Len(r.buf)
  PROVE  Slot(r, i) + 1 \in 1..Len(r.buf)
<1>1. Cap \in Nat \ {0} /\ r.head \in Nat /\ r.head < Cap /\ Len(r.buf) \in Nat /\ Len(r.buf) <= Cap
  BY StatsAssumption, LenProperties DEF RingOK
<1>2. CASE Len(r.buf) < Cap
  BY <1>1, <1>2 DEF Slot
<1>3. CASE ~(Len(r.buf) < Cap)
  <2>1. Len(r.buf) = Cap /\ i \in 1..Cap BY <1>1, <1>3
  <2>2. Slot(r, i) = IF i <= r.head THEN r.head - i ELSE r.head + Cap - i
    BY <1>1, <1>3, <2>1, Back DEF Slot
  <2>3. QED BY <1>1, <2>1, <2>2
<1>4. QED BY <1>2, <1>3

LEMMA CollectIsSeq ==
  ASSUME NEW r, RingOK(r)
  PROVE  /\ Collect(r, Cap) \in Seq(RecentOp)
         /\ Len(Collect(r, Cap)) = Len(r.buf)
         /\ Collect(r, Cap) = [i \in 1..Len(r.buf) |-> r.buf[Slot(r, i) + 1]]
<1> DEFINE n == Len(r.buf)
<1> DEFINE c == [i \in 1..n |-> r.buf[Slot(r, i) + 1]]
<1>1. r.buf \in Seq(RecentOp) /\ n \in Nat /\ n <= Cap /\ Cap \in Nat
  BY StatsAssumption, LenProperties DEF RingOK
<1>2. Collect(r, Cap) = c BY <1>1 DEF Collect
<1>3. \A i \in 1..n : r.buf[Slot(r, i) + 1] \in RecentOp
  <2> TAKE i \in 1..n
  <2>1. Slot(r, i) + 1 \in 1..n BY SlotRange
  <2>2. QED BY <1>1, <2>1, ElementOfSeq
<1>4. c \in Seq(RecentOp) /\ Len(c) = n
  <2>1. c \in [1..n -> RecentOp] BY <1>3
  <2>2. c \in Seq(RecentOp) BY <1>1, <2>1, SeqDef
  <2>3. DOMAIN c = 1..n OBVIOUS
  <2> HIDE DEF c
  <2>4. Len(c) \in Nat /\ DOMAIN c = 1..Len(c) BY <2>2, LenProperties
  <2>5. QED BY <1>1, <2>2, <2>3, <2>4
<1>5. QED BY <1>2, <1>4

\* What push does to what collect returns: the new entry is in front, and of the
\* others the oldest is gone if the buffer was full.
LEMMA PushCollects ==
  ASSUME NEW r, RingOK(r), NEW x \in RecentOp
  PROVE  /\ RingOK(Push(r, x))
         /\ Collect(Push(r, x), Cap) =
              [i \in 1..(IF Len(Collect(r, Cap)) < Cap THEN Len(Collect(r, Cap)) + 1 ELSE Cap) |->
                 IF i = 1 THEN x ELSE Collect(r, Cap)[i - 1]]
<1> DEFINE n == Len(r.buf)
           s == Push(r, x)
<1>1. /\ Cap \in Nat \ {0} /\ r.buf \in Seq(RecentOp) /\ n \in Nat /\ n <= Cap
      /\ r.head \in Nat /\ r.head < Cap /\ r \in [buf : Seq(RecentOp), head : Nat]
  BY StatsAssumption, LenProperties DEF RingOK
<1>2. Len(Collect(r, Cap)) = n /\ Collect(r, Cap) = [i \in 1..n |-> r.buf[Slot(r, i) + 1]]
  BY CollectIsSeq
<1>3. CASE n < Cap
  <2>1. s.buf = Append(r.buf, x) /\ s.head = r.head /\ s \in [buf : Seq(RecentOp), head : Nat]
    <3>1. Append(r.buf, x) \in Seq(RecentOp) BY <1>1, AppendProperties
    <3>2. s = [r EXCEPT !.buf = Append(@, x)] BY <1>3 DEF Push
    <3>3. QED BY <1>1, <3>1, <3>2
  <2>2. Len(s.buf) = n + 1 /\ (\A k \in 1..n : s.buf[k] = r.buf[k]) /\ s.buf[n + 1] = x
    BY <1>1, <2>1, AppendProperties
  <2>3. r.head = 0 BY <1>3 DEF RingOK
  <2>4. RingOK(s)
    <3>1. Len(s.buf) <= Cap /\ s.head < Cap /\ s.head = 0 BY <1>1, <1>3, <2>1, <2>2, <2>3
    <3>2. QED BY <2>1, <3>1 DEF RingOK
  <2>5. Collect(s, Cap) = [i \in 1..(n + 1) |-> s.buf[Slot(s, i) + 1]]
    BY <2>2, <2>4, CollectIsSeq
  <2>6. \A i \in 1..(n + 1) : s.buf[Slot(s, i) + 1] = IF i = 1 THEN x ELSE r.buf[Slot(r, i - 1) + 1]
    <3> TAKE i \in 1..(n + 1)
    <3>1. Slot(s, i) = n + 1 - i
      <4>1. CASE n + 1 < Cap BY <1>1, <2>2, <4>1 DEF Slot
      <4>2. CASE ~(n + 1 < Cap)
        <5>1. n + 1 = Cap /\ s.head = 0 /\ 0 < Cap /\ i \in 1..Cap BY <1>1, <1>3, <2>1, <2>3, <4>2
        <5>2. (0 + Cap - i) % Cap = 0 + Cap - i BY <5>1, Back
        <5>3. QED BY <1>1, <2>2, <5>1, <5>2 DEF Slot
      <4>3. QED BY <4>1, <4>2
    <3>2. i # 1 => Slot(r, i - 1) = n + 1 - i BY <1>1, <1>3 DEF Slot
    <3>3. QED BY <1>1, <2>2, <3>1, <3>2
  <2>7. \A i \in 1..(n + 1) : i # 1 => Collect(r, Cap)[i - 1] = r.buf[Slot(r, i - 1) + 1]
    BY <1>1, <1>2
  <2>8. QED BY <1>1, <1>2, <1>3, <2>4, <2>5, <2>6, <2>7
<1>4. CASE ~(n < Cap)
  <2>1. n = Cap /\ r.head + 1 \in 1..n BY <1>1, <1>4
  <2>2. s.buf = [r.buf EXCEPT ![r.head + 1] = x] /\ s.head = (r.head + 1) % Cap
    <3>1. s = [r EXCEPT !.buf[r.head + 1] = x, !.head = (@ + 1) % Cap] BY <1>4 DEF Push
    <3>2. QED BY <1>1, <3>1
  <2>3. s.head = (IF r.head + 1 = Cap THEN 0 ELSE r.head + 1) /\ s.head \in Nat /\ s.head < Cap
    BY <1>1, <2>2, Forth
  <2>4. s.buf \in Seq(RecentOp) /\ Len(s.buf) = n
    BY <1>1, <2>1, <2>2, ExceptSeq
  <2>5. RingOK(s)
    <3>1. s \in [buf : Seq(RecentOp), head : Nat]
      <4>1. s = [r EXCEPT !.buf[r.head + 1] = x, !.head = (@ + 1) % Cap] BY <1>4 DEF Push
      <4>2. DOMAIN s = {"buf", "head"} BY <1>1, <4>1
      <4>3. s = [buf |-> s.buf, head |-> s.head] BY <1>1, <4>1
      <4>4. QED BY <2>3, <2>4, <4>3
    <3>2. QED BY <1>1, <2>1, <2>3, <2>4, <3>1 DEF RingOK
  <2>6. Collect(s, Cap) = [i \in 1..n |-> s.buf[Slot(s, i) + 1]]
    BY <2>4, <2>5, CollectIsSeq
  <2>7. \A i \in 1..n : s.buf[Slot(s, i) + 1] = IF i = 1 THEN x ELSE r.buf[Slot(r, i - 1) + 1]
    <3> TAKE i \in 1..n
    <3>1. i \in 1..Cap /\ i \in Nat BY <1>1, <2>1
    <3>2. Slot(s, i) = IF i <= s.head THEN s.head - i ELSE s.head + Cap - i
      <4>1. Slot(s, i) = (s.head + Cap - i) % Cap BY <1>1, <2>1, <2>4 DEF Slot
      <4>2. QED BY <2>3, <3>1, <4>1, Back
    <3>3. CASE i = 1
      <4>1. Slot(s, i) = r.head BY <1>1, <2>3, <3>2, <3>3
      <4>2. QED BY <1>1, <2>1, <2>2, <3>3, <4>1
    <3>4. CASE i # 1
      <4>1. i - 1 \in 1..Cap BY <1>1, <3>1, <3>4
      <4>2. Slot(r, i - 1) = IF i - 1 <= r.head THEN r.head - (i - 1) ELSE r.head + Cap - (i - 1)
        <5>1. Slot(r, i - 1) = (r.head + Cap - (i - 1)) % Cap BY <1>1, <1>4 DEF Slot
        <5>2. QED BY <1>1, <4>1, <5>1, Back
      <4>3. Slot(s, i) = Slot(r, i - 1) /\ Slot(s, i) # r.head
        BY <1>1, <2>3, <3>1, <3>2, <3>4, <4>2
      <4>4. Slot(s, i) + 1 \in 1..n /\ Slot(s, i) + 1 # r.head + 1
        <5>1. Slot(s, i) \in Int BY <1>1, <2>3, <3>1, <3>2
        <5>2. Slot(s, i) + 1 \in 1..n BY <2>4, <2>5, SlotRange
        <5>3. QED BY <1>1, <4>3, <5>1, <5>2
      <4>5. s.buf[Slot(s, i) + 1] = r.buf[Slot(s, i) + 1]
        <5>1. DOMAIN r.buf = 1..n BY <1>1, LenProperties
        <5>2. QED BY <2>2, <4>4, <5>1
      <4>6. QED BY <3>4, <4>3, <4>5
    <3>5. QED BY <3>3, <3>4
  <2>8. \A i \in 1..n : i # 1 => Collect(r, Cap)[i - 1] = r.buf[Slot(r, i - 1) + 1]
    BY <1>1, <1>2
  <2>9. QED BY <1>1, <1>2, <1>4, <2>1, <2>5, <2>6, <2>7, <2>8
<1>5. QED BY <1>3, <1>4

-----------------------------------------------------------------------------
(* The steps.                                                                *)

LEMMA InitRing == Init => RInv /\ Log!Init
<1> SUFFICES ASSUME Init PROVE RInv /\ Log!Init OBVIOUS
<1>1. Cap \in Nat \ {0} /\ MaxTime \in Nat BY StatsAssumption
<1>2. ring = [buf |-> << >>, head |-> 0] BY DEF Init
<1>3. RingOK(ring)
  BY <1>1, <1>2, EmptySeq DEF RingOK
<1>4. ThreadInv
  <2>1. 0 \in Rc BY StatsAssumption
  <2>2. QED BY <1>1, <2>1 DEF Init, ThreadInv, ThreadType, Idle
<1>5. Collect(ring, Cap) = << >>
  <2>1. Collect(ring, Cap) \in Seq(RecentOp) /\ Len(Collect(ring, Cap)) = Len(ring.buf)
    BY <1>3, CollectIsSeq
  <2>2. Len(ring.buf) = 0 BY <1>2, EmptySeq
  <2>3. QED BY <2>1, <2>2, EmptySeq
<1>6. QED BY <1>3, <1>4, <1>5 DEF RInv, Log!Init

\* Every step but a push leaves the ring alone.
LEMMA OtherSteps ==
  ASSUME RInv, NEW t \in Threads,
         \/ \E o \in Op : StartScope(t, o)
         \/ \E rc \in Rc : Record(t, rc)
         \/ Stamp(t) \/ LockRing(t) \/ Panic(t)
         \/ \E us \in Latency : Drop(t, us)
         \/ Visible(t) \/ Finish(t)
  PROVE  ring' = ring /\ RInv'
<1> USE DEF RInv, ThreadInv
<1>0. 0 \in Rc BY StatsAssumption
<1>1. ring' = ring /\ clock' = clock
  BY DEF StartScope, Record, Stamp, LockRing, Panic, Drop, Visible, Finish
<1>2. RingOK(ring)' BY <1>1 DEF RingOK
<1>3. th' \in [Threads -> ThreadType] /\ \A w \in Threads : th'[w].pc # "idle" => th'[w].op \in Op
  <2> USE DEF ThreadType
  <2>1. ASSUME NEW o \in Op, StartScope(t, o)
        PROVE  th' \in [Threads -> ThreadType] /\ \A w \in Threads : th'[w].pc # "idle" => th'[w].op \in Op
    <3> DEFINE r == [Idle EXCEPT !.pc = "work", !.op = o]
    <3>1. th' = [th EXCEPT ![t] = r] BY <2>1 DEF StartScope
    <3>2. 0 \in 0..MaxTime BY StatsAssumption
    <3>3. Idle \in ThreadType BY <1>0, <3>2 DEF Idle
    <3>4. r \in ThreadType /\ r.op = o BY <3>3
    <3> HIDE DEF r
    <3>5. QED BY <3>1, <3>4
  <2>2. ASSUME NEW rc \in Rc, Record(t, rc)
        PROVE  th' \in [Threads -> ThreadType] /\ \A w \in Threads : th'[w].pc # "idle" => th'[w].op \in Op
    <3> DEFINE r == [th[t] EXCEPT !.pc = "stamp", !.rc = rc, !.ts = clock]
    <3>1. th' = [th EXCEPT ![t] = r] /\ th[t].pc = "work" BY <2>2 DEF Record
    <3>2. r \in ThreadType /\ r.op = th[t].op OBVIOUS
    <3>3. QED BY <3>1, <3>2
  <2>3. CASE Stamp(t) BY <2>3 DEF Stamp
  <2>4. CASE LockRing(t) BY <2>4 DEF LockRing
  <2>5. CASE Panic(t) BY <2>5 DEF Panic
  <2>6. ASSUME NEW us \in Latency, Drop(t, us)
        PROVE  th' \in [Threads -> ThreadType] /\ \A w \in Threads : th'[w].pc # "idle" => th'[w].op \in Op
    <3> DEFINE r == [th[t] EXCEPT !.pc = "drop", !.us = us, !.todo = Observation(us)]
    <3>1. th' = [th EXCEPT ![t] = r] /\ th[t].pc # "idle" BY <2>6 DEF Drop
    <3>2. Observation(us) \in SUBSET {"bucket", "count", "sum_us", "in_flight"} BY DEF Observation
    <3>3. r \in ThreadType /\ r.op = th[t].op BY <3>2
    <3>4. QED BY <3>1, <3>3
  <2>7. CASE Visible(t)
    <3>1. PICK k \in th[t].todo : th' = [th EXCEPT ![t].todo = @ \ {k}] BY <2>7 DEF Visible
    <3>2. QED BY <3>1
  <2>8. CASE Finish(t)
    <3>1. 0 \in 0..MaxTime BY StatsAssumption
    <3>2. Idle \in ThreadType /\ Idle.pc = "idle" BY <1>0, <3>1 DEF Idle
    <3>3. th' = [th EXCEPT ![t] = Idle] BY <2>8 DEF Finish
    <3>4. QED BY <3>2, <3>3
  <2>9. QED BY <2>1, <2>2, <2>3, <2>4, <2>5, <2>6, <2>7, <2>8
<1>4. QED BY <1>1, <1>2, <1>3

LEMMA PushStep ==
  ASSUME RInv, NEW t \in Threads, PushRing(t)
  PROVE  RInv' /\ Log!Next
<1> DEFINE x == [ts |-> clock, op |-> th[t].op, rc |-> th[t].rc]
<1>1. x \in RecentOp BY DEF RInv, ThreadInv, ThreadType, PushRing, RecentOp
<1>2. ring' = Push(ring, x) /\ clock' = clock /\ th' = [th EXCEPT ![t].pc = "recorded"]
  BY DEF PushRing
<1> HIDE DEF x
<1>3. PICK r : r = ring OBVIOUS
<1>4. RingOK(r) BY <1>3 DEF RInv
<1>5. RingOK(Push(r, x)) /\
      Collect(Push(r, x), Cap) =
        [i \in 1..(IF Len(Collect(r, Cap)) < Cap THEN Len(Collect(r, Cap)) + 1 ELSE Cap) |->
           IF i = 1 THEN x ELSE Collect(r, Cap)[i - 1]]
  BY <1>1, <1>4, PushCollects
<1>6. RInv'
  <2>1. RingOK(ring') BY <1>2, <1>3, <1>5
  <2>2. ThreadInv' BY <1>2 DEF RInv, ThreadInv, ThreadType, PushRing
  <2>3. QED BY <2>1, <2>2 DEF RInv, RingOK
<1>7. Log!Next
  <2>1. Collect(ring, Cap)' = Collect(ring', Cap) BY DEF Collect, Slot
  <2>2. Collect(ring, Cap)' =
          [i \in 1..(IF Len(Collect(ring, Cap)) < Cap THEN Len(Collect(ring, Cap)) + 1 ELSE Cap) |->
             IF i = 1 THEN x ELSE Collect(ring, Cap)[i - 1]]
    BY <1>2, <1>3, <1>5, <2>1
  <2>3. QED BY <1>1, <2>2 DEF Log!Next, Log!Add
<1>8. QED BY <1>6, <1>7

LEMMA RingStep == RInv /\ [Next]_vars => RInv' /\ [Log!Next]_(Collect(ring, Cap))
<1> SUFFICES ASSUME RInv, [Next]_vars PROVE RInv' /\ [Log!Next]_(Collect(ring, Cap)) OBVIOUS
<1>1. ASSUME NEW t \in Threads, PushRing(t) PROVE RInv' /\ Log!Next
  BY <1>1, PushStep
<1>2. ASSUME NEW t \in Threads, Operation(t), ~PushRing(t) PROVE ring' = ring /\ RInv'
  BY <1>2, OtherSteps DEF Operation
<1>3. CASE Tick
  BY <1>3, StatsAssumption DEF Tick, RInv, ThreadInv, RingOK
<1>4. CASE UNCHANGED vars
  BY <1>4 DEF vars, RInv, ThreadInv, RingOK
<1>5. ring' = ring => Collect(ring, Cap)' = Collect(ring, Cap) BY DEF Collect, Slot
<1>6. CASE Tick \/ UNCHANGED vars
  BY <1>3, <1>4, <1>5, <1>6 DEF Tick, vars
<1>7. CASE \E t \in Threads : Operation(t)
  BY <1>1, <1>2, <1>5, <1>7
<1>8. QED BY <1>6, <1>7 DEF Next

\* The `ops` view of the control socket is the log of the most recent operations:
\* record() and collect(), with a ring that wraps and threads that race for it,
\* implement RecentLog.
THEOREM RingImplementsLog == Spec => RingIsLog
<1>1. Init => RInv /\ Log!Init BY InitRing
<1>2. RInv /\ [Next]_vars => RInv' /\ [Log!Next]_(Collect(ring, Cap)) BY RingStep
<1>3. QED BY <1>1, <1>2, PTL DEF Spec, RingIsLog, Log!Spec

-----------------------------------------------------------------------------
(* The order of the timestamps.                                              *)

\* A thread that has stored last_op_unix_ms still has its entry to push.
Pending == \E t \in Threads : th[t].pc \in {"lock", "push"}

OrderInv ==
    LET c == Collect(ring, Cap) IN
    /\ \A i, j \in 1..Len(c) : i < j => c[i].ts >= c[j].ts
    /\ \A i \in 1..Len(c) : c[i].ts <= clock
    /\ last \in 0..clock
    /\ \A t \in Threads : th[t].ts <= clock
    /\ last = 0 \/ Pending \/ (c # << >> /\ last <= c[1].ts)

LEMMA CollectType == RInv => /\ Collect(ring, Cap) \in Seq(RecentOp)
                             /\ Len(Collect(ring, Cap)) \in Nat
                             /\ \A i \in 1..Len(Collect(ring, Cap)) : Collect(ring, Cap)[i].ts \in Nat
<1> SUFFICES ASSUME RInv
             PROVE  /\ Collect(ring, Cap) \in Seq(RecentOp)
                    /\ Len(Collect(ring, Cap)) \in Nat
                    /\ \A i \in 1..Len(Collect(ring, Cap)) : Collect(ring, Cap)[i].ts \in Nat
  OBVIOUS
<1>1. PICK r : r = ring OBVIOUS
<1>2. RingOK(r) BY <1>1 DEF RInv
<1>3. Collect(r, Cap) \in Seq(RecentOp) BY <1>2, CollectIsSeq
<1>4. PICK c : c = Collect(r, Cap) OBVIOUS
<1>5. c \in Seq(RecentOp) /\ Len(c) \in Nat BY <1>3, <1>4, LenProperties
<1>6. \A i \in 1..Len(c) : c[i] \in RecentOp BY <1>5, ElementOfSeq
<1>7. \A i \in 1..Len(c) : c[i].ts \in Nat BY <1>6, StatsAssumption DEF RecentOp
<1>8. QED BY <1>1, <1>4, <1>5, <1>7

LEMMA InitOrder == Init => OrderInv
<1> SUFFICES ASSUME Init PROVE OrderInv OBVIOUS
<1>1. Collect(ring, Cap) = << >> BY InitRing DEF Log!Init
<1>2. Len(<< >>) = 0 BY EmptySeq
<1>3. last = 0 /\ clock = 0 /\ \A t \in Threads : th[t].ts = 0 BY DEF Init, Idle
<1>4. QED BY <1>1, <1>2, <1>3 DEF OrderInv

LEMMA PushOrder ==
  ASSUME RInv, OrderInv, NEW t \in Threads, PushRing(t)
  PROVE  OrderInv'
<1>1. PICK r : r = ring OBVIOUS
<1>2. PICK x : x = [ts |-> clock, op |-> th[t].op, rc |-> th[t].rc] OBVIOUS
<1>3. x \in RecentOp /\ x.ts = clock /\ clock \in Nat
  BY <1>2, StatsAssumption DEF RInv, ThreadInv, ThreadType, PushRing, RecentOp
<1>4. ring' = Push(r, x) /\ clock' = clock /\ last' = last BY <1>1, <1>2 DEF PushRing
<1>5. PICK c : c = Collect(r, Cap) OBVIOUS
<1>6. PICK d : d = Collect(Push(r, x), Cap) OBVIOUS
<1>7. RingOK(r) BY <1>1 DEF RInv
<1>8. /\ RingOK(Push(r, x))
      /\ d = [i \in 1..(IF Len(c) < Cap THEN Len(c) + 1 ELSE Cap) |-> IF i = 1 THEN x ELSE c[i - 1]]
  BY <1>3, <1>5, <1>6, <1>7, PushCollects
<1>9. /\ Len(c) \in Nat /\ Cap \in Nat \ {0}
      /\ \A i \in 1..Len(c) : c[i].ts \in Nat
  BY <1>1, <1>5, CollectType, StatsAssumption
<1>10. Len(c) <= Cap
  <2>1. Len(c) = Len(r.buf) BY <1>5, <1>7, CollectIsSeq
  <2>2. QED BY <2>1, <1>7 DEF RingOK
<1>11. PICK m : m = IF Len(c) < Cap THEN Len(c) + 1 ELSE Cap OBVIOUS
<1>12. m \in Nat /\ m >= 1 /\ m <= Len(c) + 1 BY <1>9, <1>10, <1>11
<1>13. d \in Seq(RecentOp) /\ Len(d) = m
  <2>1. d \in Seq(RecentOp)
    <3>1. PICK p : p = Push(r, x) OBVIOUS
    <3>2. RingOK(p) BY <1>8, <3>1
    <3>3. Collect(p, Cap) \in Seq(RecentOp) BY <3>2, CollectIsSeq
    <3>4. QED BY <1>6, <3>1, <3>3
  <2>2. DOMAIN d = 1..m BY <1>8, <1>11
  <2>3. Len(d) \in Nat /\ DOMAIN d = 1..Len(d) BY <2>1, LenProperties
  <2>4. QED BY <1>12, <2>1, <2>2, <2>3
<1>14. d[1] = x /\ \A i \in 2..m : i - 1 \in 1..Len(c) /\ d[i] = c[i - 1] BY <1>8, <1>9, <1>11, <1>12
<1>15. /\ \A i, j \in 1..Len(c) : i < j => c[i].ts >= c[j].ts
       /\ \A i \in 1..Len(c) : c[i].ts <= clock
       /\ last \in 0..clock
       /\ \A w \in Threads : th[w].ts <= clock
  BY <1>1, <1>5 DEF OrderInv
<1>16. \A i \in 1..m : d[i].ts <= clock
  BY <1>3, <1>12, <1>14, <1>15
<1>17. \A i, j \in 1..m : i < j => d[i].ts >= d[j].ts
  <2> SUFFICES ASSUME NEW i \in 1..m, NEW j \in 1..m, i < j PROVE d[i].ts >= d[j].ts OBVIOUS
  <2>1. j \in 2..m /\ d[j] = c[j - 1] /\ j - 1 \in 1..Len(c) BY <1>12, <1>14
  <2>2. CASE i = 1 BY <1>3, <1>9, <1>14, <1>15, <2>1, <2>2
  <2>3. CASE i # 1
    <3>1. i \in 2..m /\ d[i] = c[i - 1] /\ i - 1 \in 1..Len(c) BY <1>12, <1>14, <2>3
    <3>2. i - 1 < j - 1 OBVIOUS
    <3>3. QED BY <1>15, <2>1, <3>1, <3>2
  <2>4. QED BY <2>2, <2>3
<1>18. d # << >> /\ last <= d[1].ts
  <2>1. Len(<< >>) = 0 BY EmptySeq
  <2>2. d # << >> BY <1>12, <1>13, <2>1
  <2>3. QED BY <1>3, <1>14, <1>15, <2>2
<1>19. \A w \in Threads : th'[w].ts = th[w].ts
  BY DEF RInv, ThreadInv, ThreadType, PushRing
<1>20. Collect(ring, Cap)' = d BY <1>4, <1>6 DEF Collect, Slot
<1>21. QED BY <1>4, <1>13, <1>15, <1>16, <1>17, <1>18, <1>19, <1>20 DEF OrderInv

LEMMA OtherOrder ==
  ASSUME RInv, OrderInv, ring' = ring, NEW t \in Threads,
         \/ \E o \in Op : StartScope(t, o)
         \/ \E rc \in Rc : Record(t, rc)
         \/ Stamp(t) \/ LockRing(t) \/ Panic(t)
         \/ \E us \in Latency : Drop(t, us)
         \/ Visible(t) \/ Finish(t)
  PROVE  OrderInv'
<1>1. clock' = clock /\ clock \in Nat
  <2>1. clock' = clock BY DEF StartScope, Record, Stamp, LockRing, Panic, Drop, Visible, Finish
  <2>2. QED BY <2>1, StatsAssumption DEF RInv, ThreadInv
<1>2. Collect(ring, Cap)' = Collect(ring, Cap) BY DEF Collect, Slot
<1> USE DEF RInv, ThreadInv, ThreadType
<1>3. \A w \in Threads : th'[w].ts <= clock
  <2>1. \A w \in Threads : th[w].ts <= clock BY DEF OrderInv
  <2>2. ASSUME NEW o \in Op, StartScope(t, o) PROVE \A w \in Threads : th'[w].ts <= clock
    <3>1. th' = [th EXCEPT ![t] = [Idle EXCEPT !.pc = "work", !.op = o]] BY <2>2 DEF StartScope
    <3>2. [Idle EXCEPT !.pc = "work", !.op = o].ts = 0 BY DEF Idle
    <3>3. QED BY <1>1, <2>1, <3>1, <3>2
  <2>3. ASSUME NEW rc \in Rc, Record(t, rc) PROVE \A w \in Threads : th'[w].ts <= clock
    <3> DEFINE r == [th[t] EXCEPT !.pc = "stamp", !.rc = rc, !.ts = clock]
    <3>1. th' = [th EXCEPT ![t] = r] BY <2>3 DEF Record
    <3>2. r.ts = clock OBVIOUS
    <3> HIDE DEF r
    <3>3. QED BY <1>1, <2>1, <3>1, <3>2
  <2>4. CASE Stamp(t) \/ LockRing(t) \/ Panic(t) BY <2>1, <2>4 DEF Stamp, LockRing, Panic
  <2>5. ASSUME NEW us \in Latency, Drop(t, us) PROVE \A w \in Threads : th'[w].ts <= clock
    <3> DEFINE r == [th[t] EXCEPT !.pc = "drop", !.us = us, !.todo = Observation(us)]
    <3>1. th' = [th EXCEPT ![t] = r] BY <2>5 DEF Drop
    <3>2. r.ts = th[t].ts OBVIOUS
    <3> HIDE DEF r
    <3>3. QED BY <2>1, <3>1, <3>2
  <2>6. CASE Visible(t)
    <3>1. PICK k \in th[t].todo : th' = [th EXCEPT ![t].todo = @ \ {k}] BY <2>6 DEF Visible
    <3>2. QED BY <2>1, <3>1
  <2>7. CASE Finish(t)
    <3>1. th' = [th EXCEPT ![t] = Idle] /\ Idle.ts = 0 BY <2>7 DEF Finish, Idle
    <3>2. QED BY <1>1, <2>1, <3>1
  <2>8. QED BY <2>2, <2>3, <2>4, <2>5, <2>6, <2>7
<1>4. last' \in 0..clock
  <2>1. CASE Stamp(t)
    <3>1. last' = th[t].ts /\ th[t].ts \in 0..MaxTime BY <2>1 DEF Stamp
    <3>2. th[t].ts <= clock BY DEF OrderInv
    <3>3. QED BY <1>1, <3>1, <3>2, StatsAssumption
  <2>2. CASE ~Stamp(t)
    BY <2>2 DEF StartScope, Record, LockRing, Panic, Drop, Visible, Finish, OrderInv
  <2>3. QED BY <2>1, <2>2
<1>5. last' = 0 \/ Pending' \/ (Collect(ring, Cap) # << >> /\ last' <= Collect(ring, Cap)[1].ts)
  <2>1. CASE Stamp(t)
    <3>1. th'[t].pc = "lock" BY <2>1 DEF Stamp
    <3>2. QED BY <3>1 DEF Pending
  <2>2. CASE ~Stamp(t)
    <3>1. last' = last BY <2>2 DEF StartScope, Record, LockRing, Panic, Drop, Visible, Finish
    <3>2. Pending => Pending'
      <4> SUFFICES ASSUME NEW w \in Threads, th[w].pc \in {"lock", "push"} PROVE th'[w].pc \in {"lock", "push"}
        BY DEF Pending
      <4>1. CASE w = t
        <5>1. LockRing(t) \/ Visible(t)
          BY <2>2, <4>1 DEF StartScope, Record, Panic, Drop, Finish
        <5>2. CASE LockRing(t) BY <4>1, <5>2 DEF LockRing
        <5>3. CASE Visible(t)
          <6>1. PICK k \in th[t].todo : th' = [th EXCEPT ![t].todo = @ \ {k}] BY <5>3 DEF Visible
          <6>2. QED BY <4>1, <6>1
        <5>4. QED BY <5>1, <5>2, <5>3
      <4>2. CASE w # t
        <5>1. th'[w] = th[w]
          BY <2>2, <4>2 DEF StartScope, Record, LockRing, Panic, Drop, Visible, Finish
        <5>2. QED BY <5>1
      <4>3. QED BY <4>1, <4>2
    <3>3. QED BY <3>1, <3>2 DEF OrderInv
  <2>3. QED BY <2>1, <2>2
<1>6. QED BY <1>1, <1>2, <1>3, <1>4, <1>5 DEF OrderInv

LEMMA OrderStep == RInv /\ OrderInv /\ [Next]_vars => OrderInv'
<1> SUFFICES ASSUME RInv, OrderInv, [Next]_vars PROVE OrderInv' OBVIOUS
<1>1. ASSUME NEW t \in Threads, PushRing(t) PROVE OrderInv' BY <1>1, PushOrder
<1>2. ASSUME NEW t \in Threads, Operation(t), ~PushRing(t) PROVE OrderInv'
  <2>1. ring' = ring BY <1>2, OtherSteps DEF Operation
  <2>2. QED BY <1>2, <2>1, OtherOrder DEF Operation
<1>3. CASE Tick
  <2>1. ring' = ring /\ last' = last /\ th' = th /\ clock' = clock + 1 /\ clock \in Nat
    BY <1>3, StatsAssumption DEF Tick, RInv, ThreadInv
  <2>2. Collect(ring, Cap)' = Collect(ring, Cap) BY <2>1 DEF Collect, Slot
  <2>3. \A i \in 1..Len(Collect(ring, Cap)) : Collect(ring, Cap)[i].ts <= clock + 1
    BY <2>1, CollectType DEF OrderInv
  <2>4. \A t \in Threads : th[t].ts <= clock + 1
    BY <2>1, StatsAssumption DEF OrderInv, RInv, ThreadInv, ThreadType
  <2>5. last \in 0..(clock + 1) BY <2>1 DEF OrderInv
  <2>6. Pending' <=> Pending BY <2>1 DEF Pending
  <2>7. QED BY <2>1, <2>2, <2>3, <2>4, <2>5, <2>6 DEF OrderInv
<1>4. CASE UNCHANGED vars
  <2>1. Collect(ring, Cap)' = Collect(ring, Cap) BY <1>4 DEF Collect, Slot, vars
  <2>2. Pending' <=> Pending BY <1>4 DEF Pending, vars
  <2>3. QED BY <1>4, <2>1, <2>2 DEF OrderInv, vars
<1>5. QED BY <1>1, <1>2, <1>3, <1>4 DEF Next

\* The entries of the `ops` view are in the order of their timestamps, and the
\* newest is no older than last_op_unix_ms when nothing is under way: record()
\* reads the clock again inside the critical section.
THEOREM OpsInOrder == Spec => []NewestFirst
<1>1. Init => RInv /\ OrderInv BY InitRing, InitOrder
<1>2. RInv /\ OrderInv /\ [Next]_vars => RInv' /\ OrderInv' BY RingStep, OrderStep
<1>3. RInv /\ OrderInv => NewestFirst
  <2> SUFFICES ASSUME RInv, OrderInv PROVE NewestFirst OBVIOUS
  <2>1. (\A t \in Threads : th[t].pc = "idle") => ~Pending BY DEF Pending
  <2>2. Collect(ring, Cap) # << >> => Collect(ring, Cap)[1].ts \in Nat
    <3>1. PICK c : c = Collect(ring, Cap) OBVIOUS
    <3>2. c \in Seq(RecentOp) /\ Len(c) \in Nat /\ \A i \in 1..Len(c) : c[i].ts \in Nat
      BY <3>1, CollectType
    <3>3. c # << >> => Len(c) # 0 BY <3>2, EmptySeq
    <3>4. QED BY <3>1, <3>2, <3>3
  <2>3. QED BY <2>1, <2>2 DEF OrderInv, NewestFirst
<1>4. QED BY <1>1, <1>2, <1>3, PTL DEF Spec

-----------------------------------------------------------------------------
(* Sums.  Induction is by a least counterexample.                            *)

\* A set of numbers that has something in it has a least one.
LEMMA LeastOf ==
  ASSUME NEW T \in SUBSET Nat, T # {}
  PROVE  \E m \in T : \A n \in T : m <= n
<1>1. PICK m \in T : \A n \in T : ~(<<n, m>> \in OpToRel(<, Nat)) BY NatLessThanWellFounded, WFMin
<1>2. \A n \in T : ~(n < m) BY <1>1 DEF OpToRel
<1>3. QED BY <1>2

\* A set that holds 0, and n + 1 with each n below top, holds all up to top.
LEMMA UpTo ==
  ASSUME NEW top \in Nat, NEW S, 0 \in S, \A n \in 0..top : n \in S /\ n < top => n + 1 \in S
  PROVE  \A n \in 0..top : n \in S
<1>1. SUFFICES ASSUME NEW x \in 0..top, x \notin S PROVE FALSE OBVIOUS
<1>2. PICK m \in 0..top : m \notin S /\ \A n \in 0..top : n \notin S => m <= n
  <2> DEFINE T == {n \in 0..top : n \notin S}
  <2>1. T \in SUBSET Nat /\ T # {} BY <1>1
  <2>2. PICK m \in T : \A n \in T : m <= n BY <2>1, LeastOf
  <2>3. QED BY <2>2
<1>3. m # 0 /\ m - 1 \in 0..top /\ m - 1 < m BY <1>2
<1>4. m - 1 \in S BY <1>2, <1>3
<1>5. QED BY <1>2, <1>3, <1>4

\* The element a fold takes next, and the subsets that are small.
First(s) == CHOOSE x \in s : TRUE
UpToSize(S, n) == {s \in SUBSET S : Cardinality(s) <= n}
SumBody(g, f, D) == g = [s \in D |-> IF s = {} THEN 0 ELSE f[First(s)] + g[s \ {First(s)}]]

LEMMA Sizes ==
  ASSUME NEW S, IsFiniteSet(S)
  PROVE  /\ Cardinality(S) \in Nat /\ UpToSize(S, Cardinality(S)) = SUBSET S /\ UpToSize(S, 0) = {{}}
         /\ \A n \in Nat : \A s \in UpToSize(S, n + 1) :
               s # {} => First(s) \in s /\ First(s) \in S /\ s \ {First(s)} \in UpToSize(S, n)
<1>1. Cardinality(S) \in Nat BY FS_CardinalityType
<1>2. \A s \in SUBSET S : IsFiniteSet(s) /\ Cardinality(s) \in Nat /\ Cardinality(s) <= Cardinality(S)
  BY FS_Subset, FS_CardinalityType
<1>3. UpToSize(S, Cardinality(S)) = SUBSET S BY <1>2 DEF UpToSize
<1>4. UpToSize(S, 0) = {{}}
  <2>1. \A s \in SUBSET S : Cardinality(s) <= 0 <=> s = {} BY <1>2, FS_EmptySet
  <2>2. QED BY <2>1 DEF UpToSize
<1>5. ASSUME NEW n \in Nat, NEW s \in UpToSize(S, n + 1), s # {}
      PROVE  First(s) \in s /\ First(s) \in S /\ s \ {First(s)} \in UpToSize(S, n)
  <2>1. s \in SUBSET S /\ Cardinality(s) <= n + 1 BY DEF UpToSize
  <2>2. First(s) \in s BY <1>5 DEF First
  <2>3. Cardinality(s \ {First(s)}) = Cardinality(s) - 1 BY <1>2, <2>1, <2>2, FS_RemoveElement
  <2>4. Cardinality(s) - 1 <= n BY <1>2, <2>1
  <2>5. QED BY <2>1, <2>2, <2>3, <2>4 DEF UpToSize
<1>6. QED BY <1>1, <1>3, <1>4, <1>5

\* A set of subsets that holds the empty one, and each with the one left by a
\* fold's step, holds them all.
LEMMA BySize ==
  ASSUME NEW S, IsFiniteSet(S), NEW P, {} \in P,
         \A s \in SUBSET S : s # {} /\ First(s) \in s /\ s \ {First(s)} \in P => s \in P
  PROVE  \A s \in SUBSET S : s \in P
<1>1. PICK top \in Nat : top = Cardinality(S) BY Sizes
<1> DEFINE R == {n \in 0..top : UpToSize(S, n) \subseteq P}
<1>2. 0 \in R
  <2>1. UpToSize(S, 0) = {{}} BY Sizes
  <2>2. UpToSize(S, 0) \subseteq P BY <2>1
  <2>3. 0 \in 0..top OBVIOUS
  <2>4. QED BY <2>2, <2>3
<1>3. ASSUME NEW n \in 0..top, n \in R, n < top PROVE n + 1 \in R
  <2>1. ASSUME NEW s \in UpToSize(S, n + 1) PROVE s \in P
    <3>1. CASE s = {} BY <3>1
    <3>2. CASE s # {}
      <4>1. First(s) \in s /\ s \ {First(s)} \in UpToSize(S, n) BY <3>2, Sizes
      <4>2. s \in SUBSET S BY DEF UpToSize
      <4>3. QED BY <1>3, <3>2, <4>1, <4>2
    <3>3. QED BY <3>1, <3>2
  <2>2. QED BY <1>3, <2>1
<1>4. top \in R
  <2> HIDE DEF R
  <2>1. \A n \in 0..top : n \in R BY <1>2, <1>3, UpTo
  <2>2. QED BY <2>1
<1>5. QED BY <1>1, <1>4, Sizes

LEMMA SumExist ==
  ASSUME NEW f, NEW S, IsFiniteSet(S)
  PROVE  \E g : SumBody(g, f, SUBSET S)
<1>1. PICK top \in Nat : top = Cardinality(S) BY Sizes
<1> DEFINE R == {n \in 0..top : \E g : SumBody(g, f, UpToSize(S, n))}
<1>2. 0 \in R
  <2> DEFINE e == [s \in UpToSize(S, 0) |-> 0]
  <2>1. \A s \in UpToSize(S, 0) : s = {} BY Sizes
  <2>2. SumBody(e, f, UpToSize(S, 0)) BY <2>1 DEF SumBody
  <2>3. QED BY <2>2
<1>3. ASSUME NEW n \in 0..top, n \in R, n < top PROVE n + 1 \in R
  <2>1. PICK g : SumBody(g, f, UpToSize(S, n)) BY <1>3
  <2>2. \A s \in UpToSize(S, n) : g[s] = IF s = {} THEN 0 ELSE f[First(s)] + g[s \ {First(s)}] BY <2>1 DEF SumBody
  <2>3. PICK D, D2 : D = UpToSize(S, n) /\ D2 = UpToSize(S, n + 1) OBVIOUS
  <2>4. PICK h : h = [s \in D2 |-> IF s = {} THEN 0 ELSE f[First(s)] + g[s \ {First(s)}]] OBVIOUS
  <2>5. ASSUME NEW s \in D PROVE s \in D2 /\ h[s] = g[s]
    <3>1. s \in SUBSET S /\ Cardinality(s) <= n BY <2>3 DEF UpToSize
    <3>2. Cardinality(s) \in Nat BY <3>1, FS_Subset, FS_CardinalityType
    <3>3. Cardinality(s) <= n + 1 BY <3>1, <3>2
    <3>4. s \in D2 BY <2>3, <3>1, <3>3 DEF UpToSize
    <3>5. QED BY <2>2, <2>3, <2>4, <3>4
  <2>6. ASSUME NEW s \in D2 PROVE h[s] = IF s = {} THEN 0 ELSE f[First(s)] + h[s \ {First(s)}]
    <3>1. CASE s = {} BY <2>4, <3>1
    <3>2. CASE s # {}
      <4>1. n \in Nat OBVIOUS
      <4>2. s \ {First(s)} \in D BY <2>3, <3>2, <4>1, Sizes
      <4>3. QED BY <2>4, <2>5, <3>2, <4>2
    <3>3. QED BY <3>1, <3>2
  <2>7. h = [s \in D2 |-> IF s = {} THEN 0 ELSE f[First(s)] + h[s \ {First(s)}]] BY <2>4, <2>6
  <2>8. SumBody(h, f, UpToSize(S, n + 1)) BY <2>3, <2>7 DEF SumBody
  <2>9. QED BY <1>3, <2>8
<1>4. top \in R
  <2> HIDE DEF R
  <2>1. \A n \in 0..top : n \in R BY <1>2, <1>3, UpTo
  <2>2. QED BY <2>1
<1>5. PICK g : SumBody(g, f, UpToSize(S, top)) BY <1>4
<1>6. UpToSize(S, top) = SUBSET S BY <1>1, Sizes
<1>7. QED BY <1>5, <1>6

SumTo(g, f, S) == g[{}] = 0 /\ \A s \in SUBSET S : s # {} => g[s] = f[First(s)] + g[s \ {First(s)}]

LEMMA SumDef ==
  ASSUME NEW f, NEW S, IsFiniteSet(S)
  PROVE  \E g : Sum(f, S) = g[S] /\ SumTo(g, f, S)
<1>1. Sum(f, S) = (CHOOSE g : SumBody(g, f, SUBSET S))[S]
  BY DEF Sum, MapThenSumSet, MapThenFoldSet, SumBody, First
<1>2. PICK g : g = CHOOSE x : SumBody(x, f, SUBSET S) OBVIOUS
<1>3. SumBody(g, f, SUBSET S) BY <1>2, SumExist
<1>4. \A s \in SUBSET S : g[s] = IF s = {} THEN 0 ELSE f[First(s)] + g[s \ {First(s)}] BY <1>3 DEF SumBody
<1>5. {} \in SUBSET S OBVIOUS
<1>6. SumTo(g, f, S) BY <1>4, <1>5 DEF SumTo
<1>7. QED BY <1>1, <1>2, <1>6

LEMMA SumNat ==
  ASSUME NEW f, NEW S, IsFiniteSet(S), \A x \in S : f[x] \in Nat
  PROVE  Sum(f, S) \in Nat
<1>1. PICK g : Sum(f, S) = g[S] /\ SumTo(g, f, S) BY SumDef
<1> DEFINE P == {s \in SUBSET S : g[s] \in Nat}
<1>2. {} \in P BY <1>1 DEF SumTo
<1>3. ASSUME NEW s \in SUBSET S, s # {}, First(s) \in s, s \ {First(s)} \in P PROVE s \in P
  <2>1. f[First(s)] \in Nat /\ g[s \ {First(s)}] \in Nat BY <1>3
  <2>2. g[s] = f[First(s)] + g[s \ {First(s)}] BY <1>1, <1>3 DEF SumTo
  <2>3. QED BY <2>1, <2>2
<1>4. S \in P
  <2> HIDE DEF P
  <2>1. QED BY <1>2, <1>3, BySize
<1>5. QED BY <1>1, <1>4

\* One term grows by d.
Grows(f, f2, S, z, d) == d \in Nat /\ \A x \in S : f[x] \in Nat /\ f2[x] = f[x] + (IF x = z THEN d ELSE 0)

LEMMA SumShift ==
  ASSUME NEW f, NEW f2, NEW S, IsFiniteSet(S), NEW z, NEW d, Grows(f, f2, S, z, d)
  PROVE  Sum(f, S) \in Nat /\ Sum(f2, S) = Sum(f, S) + (IF z \in S THEN d ELSE 0)
<1>1. PICK g : Sum(f, S) = g[S] /\ SumTo(g, f, S) BY SumDef
<1>2. PICK h : Sum(f2, S) = h[S] /\ SumTo(h, f2, S) BY SumDef
<1> d \in Nat BY DEF Grows
<1> DEFINE P == {s \in SUBSET S : g[s] \in Nat /\ h[s] = g[s] + (IF z \in s THEN d ELSE 0)}
<1>3. {} \in P BY <1>1, <1>2 DEF SumTo
<1>4. ASSUME NEW s \in SUBSET S, s # {}, First(s) \in s, s \ {First(s)} \in P PROVE s \in P
  <2>1. PICK x \in S : x = First(s) /\ x \in s BY <1>4
  <2>2. PICK a \in Nat : a = f[x] /\ f2[x] = a + (IF x = z THEN d ELSE 0) BY DEF Grows
  <2>3. PICK b \in Nat : b = g[s \ {x}] /\ h[s \ {x}] = b + (IF z \in s \ {x} THEN d ELSE 0) BY <1>4, <2>1
  <2>4. g[s] = a + b /\ h[s] = f2[x] + h[s \ {x}] BY <1>1, <1>2, <1>4, <2>1, <2>2, <2>3 DEF SumTo
  <2>5. CASE z = x BY <2>1, <2>2, <2>3, <2>4, <2>5
  <2>6. CASE z # x /\ z \in s BY <2>1, <2>2, <2>3, <2>4, <2>6
  <2>7. CASE z # x /\ z \notin s BY <2>1, <2>2, <2>3, <2>4, <2>7
  <2>8. QED BY <2>5, <2>6, <2>7
<1>5. S \in P
  <2> HIDE DEF P
  <2>1. QED BY <1>3, <1>4, BySize
<1>6. QED BY <1>1, <1>2, <1>5

LEMMA SumOrder ==
  ASSUME NEW f, NEW f2, NEW S, IsFiniteSet(S), \A x \in S : f[x] \in Nat /\ f2[x] \in Nat /\ f[x] <= f2[x]
  PROVE  Sum(f, S) \in Nat /\ Sum(f2, S) \in Nat /\ Sum(f, S) <= Sum(f2, S)
<1>1. PICK g : Sum(f, S) = g[S] /\ SumTo(g, f, S) BY SumDef
<1>2. PICK h : Sum(f2, S) = h[S] /\ SumTo(h, f2, S) BY SumDef
<1> DEFINE P == {s \in SUBSET S : g[s] \in Nat /\ h[s] \in Nat /\ g[s] <= h[s]}
<1>3. {} \in P BY <1>1, <1>2 DEF SumTo
<1>4. ASSUME NEW s \in SUBSET S, s # {}, First(s) \in s, s \ {First(s)} \in P PROVE s \in P
  <2>1. PICK x \in S : x = First(s) BY <1>4
  <2>2. PICK a \in Nat, a2 \in Nat : a = f[x] /\ a2 = f2[x] /\ a <= a2 OBVIOUS
  <2>3. PICK b \in Nat, b2 \in Nat : b = g[s \ {x}] /\ b2 = h[s \ {x}] /\ b <= b2 BY <1>4, <2>1
  <2>4. g[s] = a + b /\ h[s] = a2 + b2 BY <1>1, <1>2, <1>4, <2>1, <2>2, <2>3 DEF SumTo
  <2>5. QED BY <2>2, <2>3, <2>4
<1>5. S \in P
  <2> HIDE DEF P
  <2>1. QED BY <1>3, <1>4, BySize
<1>6. QED BY <1>1, <1>2, <1>5

LEMMA SumZero ==
  ASSUME NEW f, NEW S, IsFiniteSet(S), \A x \in S : f[x] = 0
  PROVE  Sum(f, S) = 0
<1>1. PICK g : Sum(f, S) = g[S] /\ SumTo(g, f, S) BY SumDef
<1> DEFINE P == {s \in SUBSET S : g[s] = 0}
<1>2. {} \in P BY <1>1 DEF SumTo
<1>3. ASSUME NEW s \in SUBSET S, s # {}, First(s) \in s, s \ {First(s)} \in P PROVE s \in P
  <2>1. f[First(s)] = 0 /\ g[s \ {First(s)}] = 0 BY <1>3
  <2>2. g[s] = f[First(s)] + g[s \ {First(s)}] BY <1>1, <1>3 DEF SumTo
  <2>3. QED BY <2>1, <2>2
<1>4. S \in P
  <2> HIDE DEF P
  <2>1. QED BY <1>2, <1>3, BySize
<1>5. QED BY <1>1, <1>4

-----------------------------------------------------------------------------
(* What a histogram reports of a number of observations of each latency.     *)

InOrder(i) == {us \in Latency : i # 0 /\ us <= LatBuckets[i]}

LEMMA MulType == \A x, y \in Nat : x * y \in Nat OBVIOUS
LEMMA MulOne == \A x, y \in Nat : x * (y + 1) = x * y + x OBVIOUS
LEMMA MulOrder ==
  ASSUME NEW x \in Nat, NEW y \in Nat, NEW z \in Nat, y <= z
  PROVE  x * y <= x * z
<1>1. PICK d \in Nat : z = y + d
  <2>1. z - y \in Nat /\ z = y + (z - y) OBVIOUS
  <2>2. QED BY <2>1
<1>2. x * z = x * y + x * d BY <1>1
<1>3. QED BY <1>2, MulType

LEMMA MetricShift ==
  ASSUME NEW a, NEW b, NEW z \in Latency, NEW d \in {0, 1},
         \A us \in Latency : a[us] \in Nat /\ b[us] = a[us] + (IF us = z THEN d ELSE 0)
  PROVE  /\ Ops(b) = Ops(a) + d
         /\ Total(b) = Total(a) + (IF d = 1 THEN z ELSE 0)
         /\ \A i \in Bucket : Within(b, i) = Within(a, i) + (IF z <= LatBuckets[i] THEN d ELSE 0)
<1>1. IsFiniteSet(Latency) /\ Latency \subseteq Nat BY StatsAssumption, HistAssumption
<1>2. Ops(b) = Ops(a) + d
  <2>1. PICK S : S = Latency /\ IsFiniteSet(S) BY <1>1
  <2>2. Grows(a, b, S, z, d) BY <2>1 DEF Grows
  <2>3. Sum(b, S) = Sum(a, S) + (IF z \in S THEN d ELSE 0)
    <3>1. IsFiniteSet(S) BY <2>1
    <3>2. QED BY <2>2, <3>1, SumShift
  <2>4. QED BY <2>1, <2>3 DEF Ops
<1>3. Total(b) = Total(a) + (IF d = 1 THEN z ELSE 0)
  <2>1. PICK p : p = [us \in Latency |-> us * a[us]] OBVIOUS
  <2>2. PICK q : q = [us \in Latency |-> us * b[us]] OBVIOUS
  <2>3. PICK e \in Nat : e = IF d = 1 THEN z ELSE 0 BY <1>1
  <2>4. ASSUME NEW us \in Latency PROVE p[us] \in Nat /\ q[us] = p[us] + (IF us = z THEN e ELSE 0)
    <3>1. PICK u \in Nat, n \in Nat : u = us /\ n = a[us] BY <1>1
    <3>2. p[us] = u * n /\ u * n \in Nat BY <2>1, <3>1, MulType
    <3>3. CASE us = z /\ d = 1
      <4>1. b[us] = n + 1 BY <3>1, <3>3
      <4>2. q[us] = u * (n + 1) BY <2>2, <3>1, <4>1
      <4>3. q[us] = u * n + u BY <3>1, <4>2, MulOne
      <4>4. QED BY <2>3, <3>1, <3>2, <3>3, <4>3
    <3>4. CASE ~(us = z /\ d = 1)
      <4>1. b[us] = n BY <3>1, <3>4
      <4>2. q[us] = u * n BY <2>2, <3>1, <4>1
      <4>3. QED BY <2>3, <3>2, <3>4, <4>2
    <3>5. QED BY <3>3, <3>4
  <2>5. PICK S : S = Latency /\ IsFiniteSet(S) BY <1>1
  <2>6. Grows(p, q, S, z, e) BY <2>4, <2>5 DEF Grows
  <2>7. Sum(q, S) = Sum(p, S) + (IF z \in S THEN e ELSE 0)
    <3>1. IsFiniteSet(S) BY <2>5
    <3>2. QED BY <2>6, <3>1, SumShift
  <2>8. QED BY <2>1, <2>2, <2>3, <2>5, <2>7 DEF Total
<1>4. ASSUME NEW i \in Bucket PROVE Within(b, i) = Within(a, i) + (IF z <= LatBuckets[i] THEN d ELSE 0)
  <2>1. PICK S : S = InOrder(i) /\ S \subseteq Latency BY DEF InOrder
  <2>2. IsFiniteSet(S) BY <1>1, <2>1, FS_Subset
  <2>3. Grows(a, b, S, z, d) BY <2>1 DEF Grows
  <2>4. Sum(b, S) = Sum(a, S) + (IF z \in S THEN d ELSE 0) BY <2>2, <2>3, SumShift
  <2>5. z \in S <=> z <= LatBuckets[i]
    <3>1. i # 0 BY DEF Bucket
    <3>2. QED BY <2>1, <3>1 DEF InOrder
  <2>6. QED BY <2>1, <2>4, <2>5 DEF Within, InOrder
<1>5. QED BY <1>2, <1>3, <1>4

LEMMA MetricOrder ==
  ASSUME NEW a, NEW b, \A us \in Latency : a[us] \in Nat /\ b[us] \in Nat /\ a[us] <= b[us]
  PROVE  /\ Ops(a) \in Nat /\ Ops(b) \in Nat /\ Ops(a) <= Ops(b)
         /\ Total(a) \in Nat /\ Total(b) \in Nat /\ Total(a) <= Total(b)
         /\ \A i \in Bucket : Within(a, i) \in Nat /\ Within(b, i) \in Nat /\ Within(a, i) <= Within(b, i)
<1>1. IsFiniteSet(Latency) /\ Latency \subseteq Nat BY StatsAssumption, HistAssumption
<1>2. Ops(a) \in Nat /\ Ops(b) \in Nat /\ Ops(a) <= Ops(b) BY <1>1, SumOrder DEF Ops
<1>3. Total(a) \in Nat /\ Total(b) \in Nat /\ Total(a) <= Total(b)
  <2>1. PICK p : p = [us \in Latency |-> us * a[us]] OBVIOUS
  <2>2. PICK q : q = [us \in Latency |-> us * b[us]] OBVIOUS
  <2>3. ASSUME NEW us \in Latency PROVE p[us] \in Nat /\ q[us] \in Nat /\ p[us] <= q[us]
    <3>1. PICK u \in Nat, m \in Nat, n \in Nat : u = us /\ m = a[us] /\ n = b[us] /\ m <= n BY <1>1
    <3>2. u * m \in Nat /\ u * n \in Nat /\ u * m <= u * n BY <3>1, MulType, MulOrder
    <3>3. p[us] = u * m /\ q[us] = u * n BY <2>1, <2>2, <3>1
    <3>4. QED BY <3>2, <3>3
  <2>4. Sum(p, Latency) \in Nat /\ Sum(q, Latency) \in Nat /\ Sum(p, Latency) <= Sum(q, Latency)
    BY <1>1, <2>3, SumOrder
  <2>5. QED BY <2>1, <2>2, <2>4 DEF Total
<1>4. ASSUME NEW i \in Bucket PROVE Within(a, i) \in Nat /\ Within(b, i) \in Nat /\ Within(a, i) <= Within(b, i)
  <2>1. PICK S : S = InOrder(i) /\ S \subseteq Latency BY DEF InOrder
  <2>2. IsFiniteSet(S) BY <1>1, <2>1, FS_Subset
  <2>3. \A us \in S : a[us] \in Nat /\ b[us] \in Nat /\ a[us] <= b[us] BY <2>1
  <2>4. Sum(a, S) \in Nat /\ Sum(b, S) \in Nat /\ Sum(a, S) <= Sum(b, S) BY <2>2, <2>3, SumOrder
  <2>5. QED BY <2>1, <2>4 DEF Within, InOrder
<1>5. QED BY <1>2, <1>3, <1>4

LEMMA MetricZero ==
  ASSUME NEW a, \A us \in Latency : a[us] = 0
  PROVE  Ops(a) = 0 /\ Total(a) = 0 /\ \A i \in Bucket : Within(a, i) = 0
<1>1. IsFiniteSet(Latency) /\ Latency \subseteq Nat BY StatsAssumption, HistAssumption
<1>2. Ops(a) = 0 BY <1>1, SumZero DEF Ops
<1>3. Total(a) = 0
  <2>1. PICK p : p = [us \in Latency |-> us * a[us]] OBVIOUS
  <2>2. \A us \in Latency : p[us] = 0 BY <1>1, <2>1
  <2>3. Sum(p, Latency) = 0 BY <1>1, <2>2, SumZero
  <2>4. QED BY <2>1, <2>3 DEF Total
<1>4. ASSUME NEW i \in Bucket PROVE Within(a, i) = 0
  <2>1. PICK S : S = InOrder(i) /\ S \subseteq Latency BY DEF InOrder
  <2>2. IsFiniteSet(S) BY <1>1, <2>1, FS_Subset
  <2>3. \A us \in S : a[us] = 0 BY <2>1
  <2>4. Sum(a, S) = 0 BY <2>2, <2>3, SumZero
  <2>5. QED BY <2>1, <2>4 DEF Within, InOrder
<1>5. QED BY <1>2, <1>3, <1>4

-----------------------------------------------------------------------------
(* The buckets.                                                              *)

CumBody(g, s, top) == g = [n \in 0..top |-> IF n = 0 THEN 0 ELSE g[n - 1] + s.buckets[n]]
CumTo(g, s, top) == g[0] = 0 /\ \A n \in 1..top : g[n] = g[n - 1] + s.buckets[n]

LEMMA CumExist ==
  ASSUME NEW s, NEW top \in Nat
  PROVE  \E g : CumBody(g, s, top)
<1> DEFINE R == {n \in 0..top : \E g : CumBody(g, s, n)}
<1>1. 0 \in R
  <2> DEFINE e == [n \in 0..0 |-> 0]
  <2>1. CumBody(e, s, 0) BY DEF CumBody
  <2>2. QED BY <2>1
<1>2. ASSUME NEW m \in 0..top, m \in R, m < top PROVE m + 1 \in R
  <2>1. PICK g : CumBody(g, s, m) BY <1>2
  <2>2. \A n \in 0..m : g[n] = IF n = 0 THEN 0 ELSE g[n - 1] + s.buckets[n] BY <2>1 DEF CumBody
  <2>3. PICK h : h = [n \in 0..m + 1 |-> IF n = 0 THEN 0 ELSE g[n - 1] + s.buckets[n]] OBVIOUS
  <2>4. \A n \in 0..m : h[n] = g[n] BY <2>2, <2>3
  <2>5. ASSUME NEW n \in 0..m + 1 PROVE h[n] = IF n = 0 THEN 0 ELSE h[n - 1] + s.buckets[n]
    <3>1. n # 0 => n - 1 \in 0..m OBVIOUS
    <3>2. h[n] = IF n = 0 THEN 0 ELSE g[n - 1] + s.buckets[n] BY <2>3
    <3>3. QED BY <2>4, <3>1, <3>2
  <2>6. h = [n \in 0..m + 1 |-> IF n = 0 THEN 0 ELSE h[n - 1] + s.buckets[n]] BY <2>3, <2>5
  <2>7. CumBody(h, s, m + 1) BY <2>6 DEF CumBody
  <2>8. QED BY <1>2, <2>7
<1>3. top \in R
  <2> HIDE DEF R
  <2>1. \A n \in 0..top : n \in R BY <1>1, <1>2, UpTo
  <2>2. QED BY <2>1
<1>4. QED BY <1>3

LEMMA CumDef ==
  ASSUME NEW s
  PROVE  \E g : CumTo(g, s, Len(LatBuckets)) /\ \A i \in Bucket : Cumulative(s, i) = g[i]
<1>1. PICK top \in Nat : top = Len(LatBuckets) BY StatsAssumption, LenProperties
<1>2. PICK g : g = CHOOSE x : CumBody(x, s, top) OBVIOUS
<1>3. \A i \in Bucket : Cumulative(s, i) = g[i] BY <1>1, <1>2 DEF Cumulative, CumBody
<1>4. CumBody(g, s, top) BY <1>2, CumExist
<1>5. \A n \in 0..top : g[n] = IF n = 0 THEN 0 ELSE g[n - 1] + s.buckets[n] BY <1>4 DEF CumBody
<1>6. CumTo(g, s, top) BY <1>5 DEF CumTo
<1>7. QED BY <1>1, <1>3, <1>6

\* One bucket grows (none, when j is 0).
LEMMA CumShift ==
  ASSUME NEW a, NEW b, NEW j \in Nat,
         \A i \in Bucket : a.buckets[i] \in Nat /\ b.buckets[i] = a.buckets[i] + (IF i = j THEN 1 ELSE 0)
  PROVE  \A i \in Bucket : /\ Cumulative(a, i) \in Nat
                           /\ Cumulative(b, i) = Cumulative(a, i) + (IF 1 <= j /\ j <= i THEN 1 ELSE 0)
<1>1. PICK top \in Nat : top = Len(LatBuckets) /\ Bucket = 1..top BY StatsAssumption, LenProperties DEF Bucket
<1>2. PICK g : CumTo(g, a, top) /\ \A i \in Bucket : Cumulative(a, i) = g[i] BY <1>1, CumDef
<1>3. PICK h : CumTo(h, b, top) /\ \A i \in Bucket : Cumulative(b, i) = h[i] BY <1>1, CumDef
<1> DEFINE R == {n \in 0..top : g[n] \in Nat /\ h[n] = g[n] + (IF 1 <= j /\ j <= n THEN 1 ELSE 0)}
<1>4. 0 \in R BY <1>2, <1>3 DEF CumTo
<1>5. ASSUME NEW n \in 0..top, n \in R, n < top PROVE n + 1 \in R
  <2>1. PICK m \in 1..top : m = n + 1 /\ m - 1 = n BY <1>5
  <2>2. g[m] = g[n] + a.buckets[m] /\ h[m] = h[n] + b.buckets[m] BY <1>2, <1>3, <2>1 DEF CumTo
  <2>3. PICK x \in Nat : x = g[n] /\ h[n] = x + (IF 1 <= j /\ j <= n THEN 1 ELSE 0) BY <1>5
  <2>4. PICK y \in Nat : y = a.buckets[m] /\ b.buckets[m] = y + (IF m = j THEN 1 ELSE 0) BY <1>1, <2>1
  <2>5. g[m] = x + y BY <2>2, <2>3, <2>4
  <2>6. h[m] = x + (IF 1 <= j /\ j <= n THEN 1 ELSE 0) + (y + (IF m = j THEN 1 ELSE 0)) BY <2>2, <2>3, <2>4
  <2>7. h[m] = g[m] + (IF 1 <= j /\ j <= m THEN 1 ELSE 0)
    <3>1. CASE j = m BY <2>1, <2>5, <2>6, <3>1
    <3>2. CASE j # m /\ 1 <= j /\ j <= n BY <2>1, <2>5, <2>6, <3>2
    <3>3. CASE j # m /\ ~(1 <= j /\ j <= n) BY <2>1, <2>5, <2>6, <3>3
    <3>4. QED BY <3>1, <3>2, <3>3
  <2>8. g[m] \in Nat BY <2>5
  <2>9. QED BY <2>1, <2>7, <2>8
<1>6. \A n \in 0..top : n \in R
  <2> HIDE DEF R
  <2>1. QED BY <1>4, <1>5, UpTo
<1>7. QED BY <1>1, <1>2, <1>3, <1>6

LEMMA CumZero ==
  ASSUME NEW a, \A i \in Bucket : a.buckets[i] = 0
  PROVE  \A i \in Bucket : Cumulative(a, i) = 0
<1>1. PICK top \in Nat : top = Len(LatBuckets) /\ Bucket = 1..top BY StatsAssumption, LenProperties DEF Bucket
<1>2. PICK g : CumTo(g, a, top) /\ \A i \in Bucket : Cumulative(a, i) = g[i] BY <1>1, CumDef
<1> DEFINE R == {n \in 0..top : g[n] = 0}
<1>3. 0 \in R BY <1>2 DEF CumTo
<1>4. ASSUME NEW n \in 0..top, n \in R, n < top PROVE n + 1 \in R
  <2>1. PICK m \in 1..top : m = n + 1 /\ m - 1 = n BY <1>4
  <2>2. g[m] = g[n] + a.buckets[m] BY <1>2, <2>1 DEF CumTo
  <2>3. g[n] = 0 /\ a.buckets[m] = 0 BY <1>1, <1>4
  <2>4. QED BY <2>1, <2>2, <2>3
<1>5. \A n \in 0..top : n \in R
  <2> HIDE DEF R
  <2>1. QED BY <1>3, <1>4, UpTo
<1>6. QED BY <1>1, <1>2, <1>5

\* The bounds ascend, so the bucket of a latency is the first whose report
\* includes it.
LEMMA BucketFor ==
  ASSUME NEW us \in Nat, NEW j \in Bucket, InBucket(us, j)
  PROVE  \A i \in Bucket : (InBucket(us, i) <=> i = j) /\ (us <= LatBuckets[i] <=> j <= i)
<1>1. PICK top \in Nat : top = Len(LatBuckets) /\ Bucket = 1..top BY StatsAssumption, LenProperties DEF Bucket
<1>2. \A i \in Bucket : LatBuckets[i] \in Nat BY <1>1, StatsAssumption, ElementOfSeq
<1>3. us <= LatBuckets[j] /\ \A i \in 1..(j - 1) : us > LatBuckets[i] BY DEF InBucket
<1>4. ASSUME NEW i \in Bucket PROVE us <= LatBuckets[i] <=> j <= i
  <2>1. PICK x \in Nat, y \in Nat : x = LatBuckets[i] /\ y = LatBuckets[j] BY <1>2
  <2>2. CASE i < j
    <3>1. i \in 1..(j - 1) BY <1>1, <2>2
    <3>2. us > x BY <1>3, <2>1, <3>1
    <3>3. QED BY <1>1, <2>1, <2>2, <3>2
  <2>3. CASE i = j BY <1>1, <1>3, <2>3
  <2>4. CASE j < i
    <3>1. y < x BY <1>1, <2>1, <2>4, HistAssumption
    <3>2. us <= y BY <1>3, <2>1
    <3>3. QED BY <1>1, <2>1, <2>4, <3>1, <3>2
  <2>5. QED BY <1>1, <2>2, <2>3, <2>4
<1>5. ASSUME NEW i \in Bucket PROVE InBucket(us, i) <=> i = j
  <2>1. ASSUME InBucket(us, i), i # j PROVE FALSE
    <3>1. us <= LatBuckets[i] /\ \A k \in 1..(i - 1) : us > LatBuckets[k] BY <2>1 DEF InBucket
    <3>2. j < i BY <1>1, <1>4, <2>1, <3>1
    <3>3. j \in 1..(i - 1) BY <1>1, <3>2
    <3>4. PICK y \in Nat : y = LatBuckets[j] BY <1>2
    <3>5. us > y /\ us <= y BY <1>3, <3>1, <3>3, <3>4
    <3>6. QED BY <3>4, <3>5
  <2>2. QED BY <2>1
<1>6. QED BY <1>4, <1>5

\* Beyond the last bound no report includes it.
LEMMA NoBucket ==
  ASSUME NEW us \in Nat, ~\E i \in Bucket : InBucket(us, i)
  PROVE  \A i \in Bucket : ~(us <= LatBuckets[i])
<1>1. PICK top \in Nat : top = Len(LatBuckets) /\ Bucket = 1..top BY StatsAssumption, LenProperties DEF Bucket
<1>2. \A i \in Bucket : LatBuckets[i] \in Nat BY <1>1, StatsAssumption, ElementOfSeq
<1>3. SUFFICES ASSUME NEW x \in Bucket, us <= LatBuckets[x] PROVE FALSE OBVIOUS
<1> DEFINE S == {i \in Bucket : us <= LatBuckets[i]}
<1>4. S \in SUBSET Nat /\ S # {} BY <1>1, <1>3
<1>5. PICK i \in S : \A k \in S : i <= k
  <2> HIDE DEF S
  <2>1. QED BY <1>4, LeastOf
<1>6. i \in Bucket /\ us <= LatBuckets[i] OBVIOUS
<1>7. ASSUME NEW k \in 1..(i - 1) PROVE us > LatBuckets[k]
  <2>1. k \in Bucket /\ k < i BY <1>1, <1>6
  <2>2. k \notin S BY <1>1, <1>5, <1>6, <2>1
  <2>3. PICK y \in Nat : y = LatBuckets[k] BY <1>2, <2>1
  <2>4. ~(us <= y) BY <2>1, <2>2, <2>3
  <2>5. QED BY <2>3, <2>4
<1>8. InBucket(us, i) BY <1>6, <1>7 DEF InBucket
<1>9. QED BY <1>6, <1>8

-----------------------------------------------------------------------------
(* The threads that a number counts.                                         *)

Bit(b) == IF b THEN 1 ELSE 0

LEMMA CardMove ==
  ASSUME NEW S \in SUBSET Threads, NEW S2 \in SUBSET Threads, NEW t, S \ {t} = S2 \ {t}
  PROVE  /\ Cardinality(S) \in Nat /\ Cardinality(S2) \in Nat
         /\ Cardinality(S2) = Cardinality(S) + Bit(t \in S2) - Bit(t \in S)
<1>1. IsFiniteSet(S) /\ IsFiniteSet(S2) BY StatsAssumption, FS_Subset
<1>2. PICK a \in Nat, b \in Nat : a = Cardinality(S) /\ b = Cardinality(S2) BY <1>1, FS_CardinalityType
<1>3. PICK c : c = Cardinality(S \ {t}) OBVIOUS
<1>4. c = IF t \in S THEN a - 1 ELSE a BY <1>1, <1>2, <1>3, FS_RemoveElement
<1>5. c = IF t \in S2 THEN b - 1 ELSE b BY <1>1, <1>2, <1>3, FS_RemoveElement
<1>6. b = a + Bit(t \in S2) - Bit(t \in S) BY <1>4, <1>5 DEF Bit
<1>7. QED BY <1>2, <1>6

\* A thread whose operation of kind o and latency us has been observed; one that
\* has increment k of it still to be seen; one whose scope is alive; and one that
\* is recorded, or has panicked, and is not observed yet.
IsLate(r, o, us) == r.pc = "drop" /\ r.op = o /\ r.us = us
Waits(r, o, us, k) == IsLate(r, o, us) /\ k \in r.todo
IsAlive(r, o) == r.pc # "idle" /\ r.op = o /\ (r.pc = "drop" => "in_flight" \in r.todo)
IsDone(r, o) == r.pc \in {"stamp", "lock", "push", "recorded", "unwound"} /\ r.op = o

Late(T, o, us) == {t \in Threads : IsLate(T[t], o, us)}
Waiting(T, o, us, k) == {t \in Threads : Waits(T[t], o, us, k)}
Alive(T, o) == {t \in Threads : IsAlive(T[t], o)}
Done(T, o) == {t \in Threads : IsDone(T[t], o)}

\* Thread t moves on to r.
Moves(T, T2, t, r) == t \in Threads /\ T2[t] = r /\ \A w \in Threads : w # t => T2[w] = T[w]

LEMMA CountsMove ==
  ASSUME NEW T, NEW T2, NEW t, NEW r, Moves(T, T2, t, r), NEW o
  PROVE  /\ \A us : /\ Cardinality(Late(T, o, us)) \in Nat /\ Cardinality(Late(T2, o, us)) \in Nat
                    /\ Cardinality(Late(T2, o, us)) =
                         Cardinality(Late(T, o, us)) + Bit(IsLate(r, o, us)) - Bit(IsLate(T[t], o, us))
         /\ \A us, k : /\ Cardinality(Waiting(T, o, us, k)) \in Nat /\ Cardinality(Waiting(T2, o, us, k)) \in Nat
                       /\ Cardinality(Waiting(T2, o, us, k)) =
                            Cardinality(Waiting(T, o, us, k)) + Bit(Waits(r, o, us, k)) - Bit(Waits(T[t], o, us, k))
         /\ /\ Cardinality(Alive(T, o)) \in Nat /\ Cardinality(Alive(T2, o)) \in Nat
            /\ Cardinality(Alive(T2, o)) = Cardinality(Alive(T, o)) + Bit(IsAlive(r, o)) - Bit(IsAlive(T[t], o))
         /\ /\ Cardinality(Done(T, o)) \in Nat /\ Cardinality(Done(T2, o)) \in Nat
            /\ Cardinality(Done(T2, o)) = Cardinality(Done(T, o)) + Bit(IsDone(r, o)) - Bit(IsDone(T[t], o))
<1>1. t \in Threads /\ T2[t] = r /\ \A w \in Threads : w # t => T2[w] = T[w] BY DEF Moves
<1>2. ASSUME NEW us
      PROVE  /\ Cardinality(Late(T, o, us)) \in Nat /\ Cardinality(Late(T2, o, us)) \in Nat
             /\ Cardinality(Late(T2, o, us)) =
                  Cardinality(Late(T, o, us)) + Bit(IsLate(r, o, us)) - Bit(IsLate(T[t], o, us))
  <2>1. PICK S \in SUBSET Threads, S2 \in SUBSET Threads : S = Late(T, o, us) /\ S2 = Late(T2, o, us) BY DEF Late
  <2>2. S \ {t} = S2 \ {t} BY <1>1, <2>1 DEF Late
  <2>3. (t \in S <=> IsLate(T[t], o, us)) /\ (t \in S2 <=> IsLate(r, o, us)) BY <1>1, <2>1 DEF Late
  <2>4. Bit(t \in S) = Bit(IsLate(T[t], o, us)) /\ Bit(t \in S2) = Bit(IsLate(r, o, us)) BY <2>3 DEF Bit
  <2>5. QED BY <2>1, <2>2, <2>4, CardMove
<1>3. ASSUME NEW us, NEW k
      PROVE  /\ Cardinality(Waiting(T, o, us, k)) \in Nat /\ Cardinality(Waiting(T2, o, us, k)) \in Nat
             /\ Cardinality(Waiting(T2, o, us, k)) =
                  Cardinality(Waiting(T, o, us, k)) + Bit(Waits(r, o, us, k)) - Bit(Waits(T[t], o, us, k))
  <2>1. PICK S \in SUBSET Threads, S2 \in SUBSET Threads : S = Waiting(T, o, us, k) /\ S2 = Waiting(T2, o, us, k)
    BY DEF Waiting
  <2>2. S \ {t} = S2 \ {t} BY <1>1, <2>1 DEF Waiting
  <2>3. (t \in S <=> Waits(T[t], o, us, k)) /\ (t \in S2 <=> Waits(r, o, us, k)) BY <1>1, <2>1 DEF Waiting
  <2>4. Bit(t \in S) = Bit(Waits(T[t], o, us, k)) /\ Bit(t \in S2) = Bit(Waits(r, o, us, k)) BY <2>3 DEF Bit
  <2>5. QED BY <2>1, <2>2, <2>4, CardMove
<1>4. /\ Cardinality(Alive(T, o)) \in Nat /\ Cardinality(Alive(T2, o)) \in Nat
      /\ Cardinality(Alive(T2, o)) = Cardinality(Alive(T, o)) + Bit(IsAlive(r, o)) - Bit(IsAlive(T[t], o))
  <2>1. PICK S \in SUBSET Threads, S2 \in SUBSET Threads : S = Alive(T, o) /\ S2 = Alive(T2, o) BY DEF Alive
  <2>2. S \ {t} = S2 \ {t} BY <1>1, <2>1 DEF Alive
  <2>3. (t \in S <=> IsAlive(T[t], o)) /\ (t \in S2 <=> IsAlive(r, o)) BY <1>1, <2>1 DEF Alive
  <2>4. Bit(t \in S) = Bit(IsAlive(T[t], o)) /\ Bit(t \in S2) = Bit(IsAlive(r, o)) BY <2>3 DEF Bit
  <2>5. QED BY <2>1, <2>2, <2>4, CardMove
<1>5. /\ Cardinality(Done(T, o)) \in Nat /\ Cardinality(Done(T2, o)) \in Nat
      /\ Cardinality(Done(T2, o)) = Cardinality(Done(T, o)) + Bit(IsDone(r, o)) - Bit(IsDone(T[t], o))
  <2>1. PICK S \in SUBSET Threads, S2 \in SUBSET Threads : S = Done(T, o) /\ S2 = Done(T2, o) BY DEF Done
  <2>2. S \ {t} = S2 \ {t} BY <1>1, <2>1 DEF Done
  <2>3. (t \in S <=> IsDone(T[t], o)) /\ (t \in S2 <=> IsDone(r, o)) BY <1>1, <2>1 DEF Done
  <2>4. Bit(t \in S) = Bit(IsDone(T[t], o)) /\ Bit(t \in S2) = Bit(IsDone(r, o)) BY <2>3 DEF Bit
  <2>5. QED BY <2>1, <2>2, <2>4, CardMove
<1>6. QED BY <1>2, <1>3, <1>4, <1>5

-----------------------------------------------------------------------------
(* What the histogram of an operation shows: value k is that of the          *)
(* observations whose increment k has been seen.  They are between those     *)
(* that are over and all that were begun.                                    *)

HistType == [buckets : [Bucket -> Nat], count : Nat, sum_us : Nat, in_flight : Int]

Seen(T, b, o, k) == [us \in Latency |-> b[us] - Cardinality(Waiting(T, o, us, k))]
Enough(T, b, o) == \A us \in Latency : Cardinality(Late(T, o, us)) <= b[us]
HistOK(T, b, h, o) ==
    /\ Enough(T, b, o)
    /\ h.count = Ops(Seen(T, b, o, "count"))
    /\ h.sum_us = Total(Seen(T, b, o, "sum_us"))
    /\ \A i \in Bucket : Cumulative(h, i) = Within(Seen(T, b, o, "bucket"), i)
    /\ h.in_flight = Cardinality(Alive(T, o))
CountOK(T, b, n, o) == Ops(b) + Cardinality(Done(T, o)) <= n

ThreadOK(r) ==
    /\ r.pc # "drop" => r.todo = {}
    /\ r.pc = "drop" => r.us \in Latency /\ r.todo \subseteq Observation(r.us)

HInv ==
    /\ hist \in [Op -> HistType] /\ begun \in [Op -> [Latency -> Nat]] /\ ctr \in [Op -> Nat] /\ panics \in Nat
    /\ \A t \in Threads : ThreadOK(th[t])
    /\ \A o \in Op : HistOK(th, begun[o], hist[o], o) /\ CountOK(th, begun[o], ctr[o] + panics, o)

LEMMA SeenType ==
  ASSUME NEW T, NEW b \in [Latency -> Nat], NEW o, NEW k, Enough(T, b, o), NEW us \in Latency
  PROVE  /\ Cardinality(Late(T, o, us)) \in Nat /\ Cardinality(Waiting(T, o, us, k)) \in Nat
         /\ b[us] - Cardinality(Late(T, o, us)) \in Nat /\ Seen(T, b, o, k)[us] \in Nat
         /\ b[us] - Cardinality(Late(T, o, us)) <= Seen(T, b, o, k)[us] /\ Seen(T, b, o, k)[us] <= b[us]
         /\ Seen(T, b, o, k)[us] = b[us] - Cardinality(Waiting(T, o, us, k))
<1>1. IsFiniteSet(Late(T, o, us)) /\ IsFiniteSet(Waiting(T, o, us, k)) /\ Waiting(T, o, us, k) \subseteq Late(T, o, us)
  <2>1. Late(T, o, us) \subseteq Threads BY DEF Late
  <2>2. Waiting(T, o, us, k) \subseteq Late(T, o, us) BY DEF Late, Waiting, Waits
  <2>3. IsFiniteSet(Late(T, o, us)) BY <2>1, StatsAssumption, FS_Subset
  <2>4. QED BY <2>2, <2>3, FS_Subset
<1>2. PICK l \in Nat, w \in Nat : l = Cardinality(Late(T, o, us)) /\ w = Cardinality(Waiting(T, o, us, k)) /\ w <= l
  BY <1>1, FS_CardinalityType, FS_Subset
<1>3. PICK n \in Nat : n = b[us] /\ l <= n BY <1>2 DEF Enough
<1>4. Seen(T, b, o, k)[us] = n - w BY <1>2, <1>3 DEF Seen
<1>5. n - l \in Nat /\ n - w \in Nat /\ n - l <= n - w /\ n - w <= n BY <1>2, <1>3
<1>6. QED BY <1>2, <1>3, <1>4, <1>5

\* The threads late do not become more.
LEMMA EnoughStays ==
  ASSUME NEW T, NEW T2, NEW t, NEW r, Moves(T, T2, t, r), NEW o, NEW b \in [Latency -> Nat], Enough(T, b, o),
         \A us \in Latency : IsLate(r, o, us) => IsLate(T[t], o, us)
  PROVE  Enough(T2, b, o)
<1>1. ASSUME NEW us \in Latency PROVE Cardinality(Late(T2, o, us)) <= b[us]
  <2>1. PICK x \in Nat, y \in Nat : /\ x = Cardinality(Late(T, o, us)) /\ y = Cardinality(Late(T2, o, us))
                                    /\ y = x + Bit(IsLate(r, o, us)) - Bit(IsLate(T[t], o, us))
    BY CountsMove
  <2>2. Bit(IsLate(r, o, us)) \in {0, 1} /\ Bit(IsLate(T[t], o, us)) \in {0, 1} BY DEF Bit
  <2>3. Bit(IsLate(r, o, us)) <= Bit(IsLate(T[t], o, us)) BY DEF Bit
  <2>4. y <= x BY <2>1, <2>2, <2>3
  <2>5. x <= b[us] /\ b[us] \in Nat BY <2>1 DEF Enough
  <2>6. QED BY <2>1, <2>4, <2>5
<1>2. QED BY <1>1 DEF Enough

\* An increment nobody starts or ends to wait for.
LEMMA SeenStays ==
  ASSUME NEW T, NEW T2, NEW t, NEW r, Moves(T, T2, t, r), NEW o, NEW b \in [Latency -> Nat], NEW k,
         \A us \in Latency : Waits(r, o, us, k) <=> Waits(T[t], o, us, k)
  PROVE  Seen(T2, b, o, k) = Seen(T, b, o, k)
<1>1. ASSUME NEW us \in Latency PROVE Cardinality(Waiting(T2, o, us, k)) = Cardinality(Waiting(T, o, us, k))
  <2>1. PICK x \in Nat, y \in Nat : /\ x = Cardinality(Waiting(T, o, us, k)) /\ y = Cardinality(Waiting(T2, o, us, k))
                                    /\ y = x + Bit(Waits(r, o, us, k)) - Bit(Waits(T[t], o, us, k))
    BY CountsMove
  <2>2. Bit(Waits(r, o, us, k)) \in {0, 1} BY DEF Bit
  <2>3. Bit(Waits(r, o, us, k)) = Bit(Waits(T[t], o, us, k)) BY DEF Bit
  <2>4. QED BY <2>1, <2>2, <2>3
<1>2. QED BY <1>1 DEF Seen

Keys == {"count", "sum_us", "bucket"}
HistMoves(h, h2, d) ==
    h2.count = h.count /\ h2.sum_us = h.sum_us /\ h2.buckets = h.buckets /\ h2.in_flight = h.in_flight + d

LEMMA CumSame ==
  ASSUME NEW h, NEW h2, h2.buckets = h.buckets
  PROVE  \A i : Cumulative(h2, i) = Cumulative(h, i)
BY DEF Cumulative

\* A step that leaves the counts, the sum and the buckets alone.
LEMMA PlainHist ==
  ASSUME NEW T, NEW T2, NEW t, NEW r, Moves(T, T2, t, r), NEW o, NEW b \in [Latency -> Nat], NEW h, NEW h2,
         HistOK(T, b, h, o), HistMoves(h, h2, Bit(IsAlive(r, o)) - Bit(IsAlive(T[t], o))),
         \A us \in Latency : IsLate(r, o, us) => IsLate(T[t], o, us),
         \A us \in Latency, k \in Keys : Waits(r, o, us, k) <=> Waits(T[t], o, us, k)
  PROVE  HistOK(T2, b, h2, o)
<1>1. Enough(T2, b, o) BY EnoughStays DEF HistOK
<1>2. \A k \in Keys : Seen(T2, b, o, k) = Seen(T, b, o, k) BY SeenStays
<1>3. /\ Seen(T2, b, o, "count") = Seen(T, b, o, "count") /\ Seen(T2, b, o, "sum_us") = Seen(T, b, o, "sum_us")
      /\ Seen(T2, b, o, "bucket") = Seen(T, b, o, "bucket")
  BY <1>2 DEF Keys
<1>4. h2.in_flight = Cardinality(Alive(T2, o))
  <2>1. PICK x \in Nat, y \in Nat : /\ x = Cardinality(Alive(T, o)) /\ y = Cardinality(Alive(T2, o))
                                    /\ y = x + Bit(IsAlive(r, o)) - Bit(IsAlive(T[t], o))
    BY CountsMove
  <2>2. Bit(IsAlive(r, o)) \in {0, 1} /\ Bit(IsAlive(T[t], o)) \in {0, 1} BY DEF Bit
  <2>3. h.in_flight = x BY <2>1 DEF HistOK
  <2>4. h2.in_flight = h.in_flight + (Bit(IsAlive(r, o)) - Bit(IsAlive(T[t], o))) BY DEF HistMoves
  <2>5. QED BY <2>1, <2>2, <2>3, <2>4
<1>5. h2.count = h.count /\ h2.sum_us = h.sum_us BY DEF HistMoves
<1>6. \A i : Cumulative(h2, i) = Cumulative(h, i) BY CumSame DEF HistMoves
<1>7. QED BY <1>1, <1>3, <1>4, <1>5, <1>6 DEF HistOK

LEMMA CountStays ==
  ASSUME NEW T, NEW T2, NEW t, NEW r, Moves(T, T2, t, r), NEW o, NEW b \in [Latency -> Nat], NEW n \in Nat, NEW n2 \in Nat,
         CountOK(T, b, n, o), n2 >= n + Bit(IsDone(r, o)) - Bit(IsDone(T[t], o))
  PROVE  CountOK(T2, b, n2, o)
<1>1. PICK x \in Nat, y \in Nat : /\ x = Cardinality(Done(T, o)) /\ y = Cardinality(Done(T2, o))
                                  /\ y = x + Bit(IsDone(r, o)) - Bit(IsDone(T[t], o))
  BY CountsMove
<1>2. PICK c \in Nat : c = Ops(b) BY MetricOrder
<1>3. PICK d \in {0, 1}, e \in {0, 1} : d = Bit(IsDone(r, o)) /\ e = Bit(IsDone(T[t], o)) BY DEF Bit
<1>4. c + x <= n BY <1>1, <1>2 DEF CountOK
<1>5. y = x + d - e /\ n2 >= n + d - e BY <1>1, <1>3
<1>6. c + y <= n2 BY <1>4, <1>5
<1>7. QED BY <1>1, <1>2, <1>6 DEF CountOK

Plus(b, z) == [b EXCEPT ![z] = @ + 1]

LEMMA PlusIs ==
  ASSUME NEW S, NEW b \in [S -> Nat], NEW z \in S
  PROVE  /\ Plus(b, z) \in [S -> Nat]
         /\ \A x \in S : Plus(b, z)[x] = b[x] + (IF x = z THEN 1 ELSE 0) /\ b[x] \in Nat
<1>1. \A x \in S : b[x] \in Nat /\ b[x] + 1 \in Nat OBVIOUS
<1>2. Plus(b, z) = [x \in S |-> IF x = z THEN b[z] + 1 ELSE b[x]] BY DEF Plus
<1>3. QED BY <1>1, <1>2

LEMMA OpsPlus ==
  ASSUME NEW b \in [Latency -> Nat], NEW z \in Latency
  PROVE  Ops(Plus(b, z)) = Ops(b) + 1
<1>1. PICK S : S = Latency /\ IsFiniteSet(S) BY HistAssumption
<1>2. PICK a, c : a = b /\ c = Plus(b, z) OBVIOUS
<1>3. Grows(a, c, S, z, 1) BY <1>1, <1>2, PlusIs DEF Grows
<1>4. Sum(c, S) = Sum(a, S) + (IF z \in S THEN 1 ELSE 0)
  <2>1. IsFiniteSet(S) BY <1>1
  <2>2. QED BY <1>3, <2>1, SumShift
<1>5. QED BY <1>1, <1>2, <1>4 DEF Ops

LEMMA BeyondShift ==
  ASSUME NEW f, NEW g, NEW z \in Latency, ~\E j \in Bucket : InBucket(z, j), \A us \in Latency : f[us] \in Nat,
         \A us \in Latency : g[us] = f[us] + (IF us = z THEN 1 ELSE 0)
  PROVE  \A i \in Bucket : Within(g, i) = Within(f, i)
<1>1. PICK d \in {0, 1} : d = 1 OBVIOUS
<1>2. \A us \in Latency : f[us] \in Nat /\ g[us] = f[us] + (IF us = z THEN d ELSE 0) BY <1>1
<1>3. /\ Ops(g) = Ops(f) + d /\ Total(g) = Total(f) + (IF d = 1 THEN z ELSE 0)
      /\ \A i \in Bucket : Within(g, i) = Within(f, i) + (IF z <= LatBuckets[i] THEN d ELSE 0)
  BY <1>2, MetricShift
<1>4. \A i \in Bucket : ~(z <= LatBuckets[i]) BY StatsAssumption, NoBucket
<1>5. \A i \in Bucket : Within(f, i) \in Nat
  <2>1. \A us \in Latency : f[us] \in Nat /\ f[us] \in Nat /\ f[us] <= f[us] OBVIOUS
  <2>2. QED BY <2>1, MetricOrder
<1>6. QED BY <1>3, <1>4, <1>5

\* The scope is dropped: the observation is begun, and waits for what it will
\* increment.  One beyond the last bound waits for no bucket, and none reports it.
LEMMA DropHist ==
  ASSUME NEW T, NEW T2, NEW t, NEW r, Moves(T, T2, t, r), NEW o, NEW b \in [Latency -> Nat], NEW h, NEW z \in Latency,
         HistOK(T, b, h, o), NEW b2, b2 = Plus(b, z),
         \A us \in Latency : ~IsLate(T[t], o, us), \A us \in Latency : IsLate(r, o, us) <=> us = z,
         r.todo = Observation(z), IsAlive(r, o) <=> IsAlive(T[t], o)
  PROVE  HistOK(T2, b2, h, o)
<1>1. b2 \in [Latency -> Nat] /\ \A us \in Latency : b2[us] = b[us] + (IF us = z THEN 1 ELSE 0) /\ b[us] \in Nat BY PlusIs
<1>2. Enough(T, b, o) BY DEF HistOK
<1>3. Enough(T2, b2, o)
  <2>1. ASSUME NEW us \in Latency PROVE Cardinality(Late(T2, o, us)) <= b2[us]
    <3>1. PICK x \in Nat, y \in Nat : /\ x = Cardinality(Late(T, o, us)) /\ y = Cardinality(Late(T2, o, us))
                                      /\ y = x + Bit(IsLate(r, o, us)) - Bit(IsLate(T[t], o, us))
      BY CountsMove
    <3>2. Bit(IsLate(r, o, us)) = (IF us = z THEN 1 ELSE 0) /\ Bit(IsLate(T[t], o, us)) = 0 BY DEF Bit
    <3>3. x <= b[us] BY <1>2, <3>1 DEF Enough
    <3>4. QED BY <1>1, <3>1, <3>2, <3>3
  <2>2. QED BY <2>1 DEF Enough
<1>4. ASSUME NEW k, NEW us \in Latency
      PROVE  Seen(T2, b2, o, k)[us] = Seen(T, b, o, k)[us] + (IF us = z /\ k \notin Observation(z) THEN 1 ELSE 0)
  <2>1. PICK x \in Nat, y \in Nat : /\ x = Cardinality(Waiting(T, o, us, k)) /\ y = Cardinality(Waiting(T2, o, us, k))
                                    /\ y = x + Bit(Waits(r, o, us, k)) - Bit(Waits(T[t], o, us, k))
    BY CountsMove
  <2>2. /\ Bit(Waits(r, o, us, k)) = (IF us = z /\ k \in Observation(z) THEN 1 ELSE 0)
        /\ Bit(Waits(T[t], o, us, k)) = 0
    BY DEF Bit, Waits
  <2>3. y = x + (IF us = z /\ k \in Observation(z) THEN 1 ELSE 0) BY <2>1, <2>2
  <2>4. PICK n \in Nat : n = b[us] /\ b2[us] = n + (IF us = z THEN 1 ELSE 0) BY <1>1
  <2>5. Seen(T, b, o, k)[us] = n - x /\ Seen(T2, b2, o, k)[us] = b2[us] - y BY <2>1, <2>4 DEF Seen
  <2>6. CASE us = z BY <2>3, <2>4, <2>5, <2>6
  <2>7. CASE us # z BY <2>3, <2>4, <2>5, <2>7
  <2>8. QED BY <2>6, <2>7
<1>5. ASSUME NEW k \in Observation(z) PROVE Seen(T2, b2, o, k) = Seen(T, b, o, k)
  <2>1. PICK f, g : f = Seen(T, b, o, k) /\ g = Seen(T2, b2, o, k) OBVIOUS
  <2>2. f = [us \in Latency |-> f[us]] /\ g = [us \in Latency |-> g[us]] BY <2>1 DEF Seen
  <2>3. ASSUME NEW us \in Latency PROVE g[us] = f[us]
    <3>1. f[us] \in Nat BY <1>2, <2>1, SeenType
    <3>2. g[us] = f[us] + (IF us = z /\ k \notin Observation(z) THEN 1 ELSE 0) BY <1>4, <2>1
    <3>3. QED BY <3>1, <3>2
  <2>4. QED BY <2>1, <2>2, <2>3
<1>6. "count" \in Observation(z) /\ "sum_us" \in Observation(z) BY DEF Observation
<1>7. Seen(T2, b2, o, "count") = Seen(T, b, o, "count") /\ Seen(T2, b2, o, "sum_us") = Seen(T, b, o, "sum_us")
  BY <1>5, <1>6
<1>8. ASSUME NEW i \in Bucket PROVE Within(Seen(T2, b2, o, "bucket"), i) = Within(Seen(T, b, o, "bucket"), i)
  <2>1. CASE "bucket" \in Observation(z) BY <1>5, <2>1
  <2>2. CASE "bucket" \notin Observation(z)
    <3>1. PICK f, g : f = Seen(T, b, o, "bucket") /\ g = Seen(T2, b2, o, "bucket") OBVIOUS
    <3>2. \A us \in Latency : f[us] \in Nat BY <1>2, <3>1, SeenType
    <3>3. \A us \in Latency : g[us] = f[us] + (IF us = z THEN 1 ELSE 0) BY <1>4, <2>2, <3>1
    <3>4. ~\E j \in Bucket : InBucket(z, j) BY <2>2 DEF Observation
    <3>5. QED BY <3>1, <3>2, <3>3, <3>4, BeyondShift
  <2>3. QED BY <2>1, <2>2
<1>9. Cardinality(Alive(T2, o)) = Cardinality(Alive(T, o))
  <2>1. PICK x \in Nat, y \in Nat : /\ x = Cardinality(Alive(T, o)) /\ y = Cardinality(Alive(T2, o))
                                    /\ y = x + Bit(IsAlive(r, o)) - Bit(IsAlive(T[t], o))
    BY CountsMove
  <2>2. Bit(IsAlive(r, o)) = Bit(IsAlive(T[t], o)) /\ Bit(IsAlive(r, o)) \in {0, 1} BY DEF Bit
  <2>3. QED BY <2>1, <2>2
<1>10. QED BY <1>3, <1>7, <1>8, <1>9 DEF HistOK

\* An increment is seen: the observation joins those its value is of.
LEMMA VisibleHist ==
  ASSUME NEW T, NEW T2, NEW t, NEW r, Moves(T, T2, t, r), NEW o, NEW b \in [Latency -> Nat], NEW h \in HistType,
         NEW z \in Latency, HistOK(T, b, h, o), NEW q \in Keys, q \in T[t].todo, T[t].todo \subseteq Observation(z),
         r.todo = T[t].todo \ {q},
         \A us \in Latency : IsLate(T[t], o, us) <=> us = z, \A us \in Latency : IsLate(r, o, us) <=> us = z,
         IsAlive(r, o) <=> IsAlive(T[t], o)
  PROVE  HistOK(T2, b, Bump(h, q, z), o)
<1>1. PICK h2 : h2 = Bump(h, q, z) OBVIOUS
<1>2. Enough(T, b, o) BY DEF HistOK
<1>3. Enough(T2, b, o) BY <1>2, EnoughStays
<1>4. ASSUME NEW k, k # q PROVE Seen(T2, b, o, k) = Seen(T, b, o, k)
  <2>1. \A us \in Latency : Waits(r, o, us, k) <=> Waits(T[t], o, us, k) BY <1>4 DEF Waits
  <2>2. QED BY <2>1, SeenStays
<1>5. PICK f, g : f = Seen(T, b, o, q) /\ g = Seen(T2, b, o, q) OBVIOUS
<1>6. PICK d \in {0, 1} : d = 1 OBVIOUS
<1>7. ASSUME NEW us \in Latency PROVE f[us] \in Nat /\ g[us] = f[us] + (IF us = z THEN d ELSE 0)
  <2>1. PICK x \in Nat, y \in Nat : /\ x = Cardinality(Waiting(T, o, us, q)) /\ y = Cardinality(Waiting(T2, o, us, q))
                                    /\ y = x + Bit(Waits(r, o, us, q)) - Bit(Waits(T[t], o, us, q))
    BY CountsMove
  <2>2. Bit(Waits(r, o, us, q)) = 0 /\ Bit(Waits(T[t], o, us, q)) = (IF us = z THEN 1 ELSE 0) BY DEF Bit, Waits
  <2>3. PICK n \in Nat : n = b[us] OBVIOUS
  <2>4. f[us] = n - x /\ g[us] = n - y BY <1>5, <2>1, <2>3 DEF Seen
  <2>5. f[us] \in Nat BY <1>2, <1>5, SeenType
  <2>6. y = x - (IF us = z THEN d ELSE 0) BY <1>6, <2>1, <2>2
  <2>7. QED BY <1>6, <2>4, <2>5, <2>6
<1>8. /\ Ops(g) = Ops(f) + 1 /\ Total(g) = Total(f) + z
      /\ \A i \in Bucket : Within(g, i) = Within(f, i) + (IF z <= LatBuckets[i] THEN 1 ELSE 0)
  <2>1. /\ Ops(g) = Ops(f) + d /\ Total(g) = Total(f) + (IF d = 1 THEN z ELSE 0)
        /\ \A i \in Bucket : Within(g, i) = Within(f, i) + (IF z <= LatBuckets[i] THEN d ELSE 0)
    BY <1>7, MetricShift
  <2>2. QED BY <1>6, <2>1
<1>9. Cardinality(Alive(T2, o)) = Cardinality(Alive(T, o))
  <2>1. PICK x \in Nat, y \in Nat : /\ x = Cardinality(Alive(T, o)) /\ y = Cardinality(Alive(T2, o))
                                    /\ y = x + Bit(IsAlive(r, o)) - Bit(IsAlive(T[t], o))
    BY CountsMove
  <2>2. Bit(IsAlive(r, o)) = Bit(IsAlive(T[t], o)) /\ Bit(IsAlive(r, o)) \in {0, 1} BY DEF Bit
  <2>3. QED BY <2>1, <2>2
<1>10. /\ h.count = Ops(Seen(T, b, o, "count")) /\ h.sum_us = Total(Seen(T, b, o, "sum_us"))
       /\ \A i \in Bucket : Cumulative(h, i) = Within(Seen(T, b, o, "bucket"), i)
       /\ h.in_flight = Cardinality(Alive(T, o))
  BY DEF HistOK
<1>11. CASE q = "count"
  <2>1. h2 = [h EXCEPT !.count = @ + 1] BY <1>1, <1>11 DEF Bump
  <2>2. /\ h2.count = h.count + 1 /\ h2.sum_us = h.sum_us /\ h2.buckets = h.buckets /\ h2.in_flight = h.in_flight
    BY <2>1 DEF HistType
  <2>3. \A i : Cumulative(h2, i) = Cumulative(h, i) BY <2>2, CumSame
  <2>4. /\ Seen(T2, b, o, "sum_us") = Seen(T, b, o, "sum_us") /\ Seen(T2, b, o, "bucket") = Seen(T, b, o, "bucket")
    BY <1>4, <1>11
  <2>5. h2.count = Ops(Seen(T2, b, o, "count")) BY <1>5, <1>8, <1>10, <1>11, <2>2
  <2>6. HistOK(T2, b, h2, o) BY <1>3, <1>9, <1>10, <2>2, <2>3, <2>4, <2>5 DEF HistOK
  <2>7. QED BY <1>1, <2>6
<1>12. CASE q = "sum_us"
  <2>1. h2 = [h EXCEPT !.sum_us = @ + z] BY <1>1, <1>12 DEF Bump
  <2>2. /\ h2.count = h.count /\ h2.sum_us = h.sum_us + z /\ h2.buckets = h.buckets /\ h2.in_flight = h.in_flight
    BY <2>1 DEF HistType
  <2>3. \A i : Cumulative(h2, i) = Cumulative(h, i) BY <2>2, CumSame
  <2>4. /\ Seen(T2, b, o, "count") = Seen(T, b, o, "count") /\ Seen(T2, b, o, "bucket") = Seen(T, b, o, "bucket")
    BY <1>4, <1>12
  <2>5. h2.sum_us = Total(Seen(T2, b, o, "sum_us")) BY <1>5, <1>8, <1>10, <1>12, <2>2
  <2>6. HistOK(T2, b, h2, o) BY <1>3, <1>9, <1>10, <2>2, <2>3, <2>4, <2>5 DEF HistOK
  <2>7. QED BY <1>1, <2>6
<1>13. CASE q = "bucket"
  <2>1. h2 = [h EXCEPT !.buckets = [i \in Bucket |-> IF InBucket(z, i) THEN @[i] + 1 ELSE @[i]]]
    BY <1>1, <1>13 DEF Bump
  <2>2. /\ h2.count = h.count /\ h2.sum_us = h.sum_us /\ h2.in_flight = h.in_flight
        /\ h2.buckets = [i \in Bucket |-> IF InBucket(z, i) THEN h.buckets[i] + 1 ELSE h.buckets[i]]
    BY <2>1 DEF HistType
  <2>3. z \in Nat /\ Bucket \subseteq Nat BY StatsAssumption, LenProperties DEF Bucket
  <2>4. PICK j \in Bucket : InBucket(z, j) BY <1>13 DEF Observation
  <2>5. \A i \in Bucket : (InBucket(z, i) <=> i = j) /\ (z <= LatBuckets[i] <=> j <= i) BY <2>3, <2>4, BucketFor
  <2>6. \A i \in Bucket : h.buckets[i] \in Nat /\ h2.buckets[i] = h.buckets[i] + (IF i = j THEN 1 ELSE 0)
    <3>1. \A i \in Bucket : h.buckets[i] \in Nat BY DEF HistType
    <3>2. QED BY <2>2, <2>5, <3>1
  <2>7. \A i \in Bucket : /\ Cumulative(h, i) \in Nat
                          /\ Cumulative(h2, i) = Cumulative(h, i) + (IF 1 <= j /\ j <= i THEN 1 ELSE 0)
    BY <2>3, <2>6, CumShift
  <2>8. 1 <= j BY DEF Bucket
  <2>9. ASSUME NEW i \in Bucket PROVE Cumulative(h2, i) = Within(Seen(T2, b, o, "bucket"), i)
    <3>1. PICK c : c = Cumulative(h, i) /\ c = Within(f, i) BY <1>5, <1>10, <1>13
    <3>2. Within(g, i) = c + (IF z <= LatBuckets[i] THEN 1 ELSE 0) BY <1>8, <3>1
    <3>3. Cumulative(h2, i) = c + (IF j <= i THEN 1 ELSE 0) BY <2>7, <2>8, <3>1
    <3>4. z <= LatBuckets[i] <=> j <= i BY <2>5
    <3>5. QED BY <1>5, <1>13, <3>2, <3>3, <3>4
  <2>10. /\ Seen(T2, b, o, "count") = Seen(T, b, o, "count") /\ Seen(T2, b, o, "sum_us") = Seen(T, b, o, "sum_us")
    BY <1>4, <1>13
  <2>11. HistOK(T2, b, h2, o) BY <1>3, <1>9, <1>10, <2>2, <2>9, <2>10 DEF HistOK
  <2>12. QED BY <1>1, <2>11
<1>14. QED BY <1>11, <1>12, <1>13 DEF Keys

-----------------------------------------------------------------------------
(* The steps, as the histogram sees them.                                    *)

LEMMA InitHist == Init => HInv
<1> SUFFICES ASSUME Init PROVE HInv OBVIOUS
<1>1. /\ hist = [o \in Op |-> ZeroHist] /\ begun = [o \in Op |-> NoLatency] /\ ctr = [o \in Op |-> 0] /\ panics = 0
      /\ th = [t \in Threads |-> Idle]
  BY DEF Init
<1>2. ZeroHist \in HistType /\ NoLatency \in [Latency -> Nat] BY DEF ZeroHist, HistType, NoLatency
<1>3. \A t \in Threads : th[t].pc = "idle" /\ ThreadOK(th[t]) BY <1>1 DEF ThreadOK, Idle
<1>4. Cardinality({}) = 0 BY FS_EmptySet
<1>5. ASSUME NEW o \in Op PROVE HistOK(th, begun[o], hist[o], o) /\ CountOK(th, begun[o], ctr[o] + panics, o)
  <2>1. PICK T, b, h : T = th /\ b = begun[o] /\ h = hist[o] OBVIOUS
  <2>2. b = NoLatency /\ h = ZeroHist /\ ctr[o] + panics = 0 BY <1>1, <2>1
  <2>3. \A us \in Latency : b[us] = 0 BY <2>2 DEF NoLatency
  <2>4. \A us, k : Late(T, o, us) = {} /\ Waiting(T, o, us, k) = {} BY <1>3, <2>1 DEF Late, Waiting, Waits, IsLate
  <2>5. Alive(T, o) = {} /\ Done(T, o) = {} BY <1>3, <2>1 DEF Alive, Done, IsAlive, IsDone
  <2>6. \A k : \A us \in Latency : Seen(T, b, o, k)[us] = 0 BY <1>4, <2>3, <2>4 DEF Seen
  <2>7. /\ Ops(Seen(T, b, o, "count")) = 0 /\ Total(Seen(T, b, o, "sum_us")) = 0
        /\ \A i \in Bucket : Within(Seen(T, b, o, "bucket"), i) = 0
    BY <2>6, MetricZero
  <2>8. h.count = 0 /\ h.sum_us = 0 /\ h.in_flight = 0 /\ \A i \in Bucket : h.buckets[i] = 0 BY <2>2 DEF ZeroHist
  <2>9. \A i \in Bucket : Cumulative(h, i) = 0 BY <2>8, CumZero
  <2>10. Enough(T, b, o) BY <1>4, <2>3, <2>4 DEF Enough
  <2>11. HistOK(T, b, h, o) BY <1>4, <2>5, <2>7, <2>8, <2>9, <2>10 DEF HistOK
  <2>12. Ops(b) = 0 BY <2>3, MetricZero
  <2>13. CountOK(T, b, 0, o) BY <1>4, <2>5, <2>12 DEF CountOK
  <2>14. QED BY <2>1, <2>2, <2>11, <2>13
<1>6. QED BY <1>1, <1>2, <1>3, <1>5 DEF HInv

LEMMA MovesIs ==
  ASSUME NEW T \in [Threads -> ThreadType], NEW t \in Threads, NEW r, NEW T2, T2 = [T EXCEPT ![t] = r]
  PROVE  Moves(T, T2, t, r)
BY DEF Moves

\* A step that leaves the counts, the sums and the buckets alone.
LEMMA PlainStep ==
  ASSUME ThreadInv, HInv, NEW t \in Threads, NEW r, th' = [th EXCEPT ![t] = r], begun' = begun,
         th[t].todo = {}, r.todo = {}, r.pc # "drop",
         hist' \in [Op -> HistType], ctr' \in [Op -> Nat], panics' \in Nat,
         \A o \in Op : HistMoves(hist[o], hist'[o], Bit(IsAlive(r, o)) - Bit(IsAlive(th[t], o))),
         \A o \in Op : ctr'[o] + panics' >= ctr[o] + panics + Bit(IsDone(r, o)) - Bit(IsDone(th[t], o))
  PROVE  HInv'
<1>1. PICK T, T2 : T = th /\ T2 = th' /\ Moves(T, T2, t, r) BY MovesIs DEF ThreadInv
<1>2. \A w \in Threads : ThreadOK(th'[w]) BY DEF HInv, ThreadOK, ThreadInv
<1>3. ASSUME NEW o \in Op PROVE HistOK(T2, begun[o], hist'[o], o)
  <2>1. PICK b \in [Latency -> Nat], h \in HistType, h2 \in HistType : b = begun[o] /\ h = hist[o] /\ h2 = hist'[o] BY DEF HInv
  <2>2. HistOK(T, b, h, o) BY <1>1, <2>1 DEF HInv
  <2>3. HistMoves(h, h2, Bit(IsAlive(r, o)) - Bit(IsAlive(T[t], o))) BY <1>1, <2>1
  <2>4. \A us \in Latency : IsLate(r, o, us) => IsLate(T[t], o, us) BY DEF IsLate
  <2>5. T[t].todo = {} BY <1>1
  <2>6. \A us \in Latency, k \in Keys : Waits(r, o, us, k) <=> Waits(T[t], o, us, k) BY <2>5 DEF Waits
  <2>7. HistOK(T2, b, h2, o) BY <1>1, <2>2, <2>3, <2>4, <2>6, PlainHist
  <2>8. QED BY <2>1, <2>7
<1>4. ASSUME NEW o \in Op PROVE CountOK(T2, begun[o], ctr'[o] + panics', o)
  <2>1. PICK b \in [Latency -> Nat] : b = begun[o] BY DEF HInv
  <2>2. PICK n \in Nat, n2 \in Nat : n = ctr[o] + panics /\ n2 = ctr'[o] + panics'
    <3>1. ctr[o] \in Nat /\ panics \in Nat /\ ctr'[o] \in Nat /\ panics' \in Nat BY DEF HInv
    <3>2. \A x, y \in Nat : x + y \in Nat OBVIOUS
    <3>3. QED BY <3>1, <3>2
  <2>3. CountOK(T, b, n, o) BY <1>1, <2>1, <2>2 DEF HInv
  <2>4. n2 >= n + Bit(IsDone(r, o)) - Bit(IsDone(T[t], o)) BY <1>1, <2>2
  <2>5. CountOK(T2, b, n2, o) BY <1>1, <2>3, <2>4, CountStays
  <2>6. QED BY <2>1, <2>2, <2>5
<1>5. begun' \in [Op -> [Latency -> Nat]] BY DEF HInv
<1>6. QED BY <1>1, <1>2, <1>3, <1>4, <1>5 DEF HInv

LEMMA QuietStep ==
  ASSUME ThreadInv, HInv, NEW t \in Threads, NEW r, th' = [th EXCEPT ![t] = r], begun' = begun, hist' = hist,
         th[t].todo = {}, r.todo = {}, r.pc # "drop", ctr' \in [Op -> Nat], panics' \in Nat,
         \A o \in Op : IsAlive(r, o) <=> IsAlive(th[t], o),
         \A o \in Op : ctr'[o] + panics' >= ctr[o] + panics + Bit(IsDone(r, o)) - Bit(IsDone(th[t], o))
  PROVE  HInv'
<1>1. hist' \in [Op -> HistType] BY DEF HInv
<1>2. ASSUME NEW o \in Op PROVE HistMoves(hist[o], hist'[o], Bit(IsAlive(r, o)) - Bit(IsAlive(th[t], o)))
  <2>1. PICK h \in HistType : h = hist[o] /\ h = hist'[o] BY DEF HInv
  <2>2. Bit(IsAlive(r, o)) - Bit(IsAlive(th[t], o)) = 0 BY DEF Bit
  <2>3. h.in_flight \in Int BY DEF HistType
  <2>4. HistMoves(h, h, 0) BY <2>3 DEF HistMoves
  <2>5. QED BY <2>1, <2>2, <2>4
<1>3. QED BY <1>1, <1>2, PlainStep

LEMMA NotDropped ==
  ASSUME HInv, NEW t \in Threads, th[t].pc # "drop"
  PROVE  th[t].todo = {}
BY DEF HInv, ThreadOK

LEMMA StartScopeHist ==
  ASSUME ThreadInv, HInv, NEW t \in Threads, NEW o0 \in Op, StartScope(t, o0)
  PROVE  HInv'
<1>1. PICK r : r = [Idle EXCEPT !.pc = "work", !.op = o0] OBVIOUS
<1>2. r.pc = "work" /\ r.op = o0 /\ r.todo = {} BY <1>1 DEF Idle
<1>3. /\ th[t].pc = "idle" /\ th' = [th EXCEPT ![t] = r] /\ begun' = begun /\ ctr' = ctr /\ panics' = panics
      /\ hist' = [hist EXCEPT ![o0].in_flight = @ + 1]
  BY <1>1 DEF StartScope
<1>4. th[t].todo = {} BY <1>3, NotDropped
<1>5. hist \in [Op -> HistType] /\ ctr \in [Op -> Nat] /\ panics \in Nat BY DEF HInv
<1>6. PICK h \in HistType : h = hist[o0] BY <1>5
<1>7. PICK h2 : h2 = [h EXCEPT !.in_flight = @ + 1] /\ h2 \in HistType /\ HistMoves(h, h2, 1)
  <2>1. PICK h2 : h2 = [h EXCEPT !.in_flight = @ + 1] OBVIOUS
  <2>2. h.in_flight \in Int /\ h.in_flight + 1 \in Int BY DEF HistType
  <2>3. h2 \in HistType BY <2>1, <2>2 DEF HistType
  <2>4. HistMoves(h, h2, 1) BY <2>1 DEF HistType, HistMoves
  <2>5. QED BY <2>1, <2>3, <2>4
<1>8. hist' = [hist EXCEPT ![o0] = h2] BY <1>3, <1>6, <1>7
<1>9. hist' \in [Op -> HistType] BY <1>5, <1>7, <1>8
<1>10. ASSUME NEW o \in Op PROVE HistMoves(hist[o], hist'[o], Bit(IsAlive(r, o)) - Bit(IsAlive(th[t], o)))
  <2>1. Bit(IsAlive(th[t], o)) = 0 BY <1>3 DEF Bit, IsAlive
  <2>2. CASE o = o0
    <3>1. Bit(IsAlive(r, o)) = 1 BY <1>2, <2>2 DEF Bit, IsAlive
    <3>2. hist[o] = h /\ hist'[o] = h2 BY <1>5, <1>6, <1>8, <2>2
    <3>3. 1 - 0 = 1 OBVIOUS
    <3>4. QED BY <1>7, <2>1, <3>1, <3>2, <3>3
  <2>3. CASE o # o0
    <3>1. Bit(IsAlive(r, o)) = 0 BY <1>2, <2>3 DEF Bit, IsAlive
    <3>2. PICK g \in HistType : g = hist[o] /\ g = hist'[o] BY <1>5, <1>8, <2>3
    <3>3. HistMoves(g, g, 0) BY DEF HistType, HistMoves
    <3>4. 0 - 0 = 0 OBVIOUS
    <3>5. QED BY <2>1, <3>1, <3>2, <3>3, <3>4
  <2>4. QED BY <2>2, <2>3
<1>11. ASSUME NEW o \in Op PROVE ctr'[o] + panics' >= ctr[o] + panics + Bit(IsDone(r, o)) - Bit(IsDone(th[t], o))
  <2>1. Bit(IsDone(r, o)) = 0 /\ Bit(IsDone(th[t], o)) = 0 BY <1>2, <1>3 DEF Bit, IsDone
  <2>2. PICK c \in Nat : c = ctr[o] BY <1>5
  <2>3. QED BY <1>3, <1>5, <2>1, <2>2
<1>12. QED BY <1>2, <1>3, <1>4, <1>5, <1>9, <1>10, <1>11, PlainStep

LEMMA RecordHist ==
  ASSUME ThreadInv, HInv, NEW t \in Threads, NEW rc \in Rc, Record(t, rc)
  PROVE  HInv'
<1>1. th[t] \in ThreadType /\ th[t].pc = "work" BY DEF ThreadInv, Record
<1>2. PICK r : r = [th[t] EXCEPT !.pc = "stamp", !.rc = rc, !.ts = clock] OBVIOUS
<1>3. th[t].todo = {} BY <1>1, NotDropped
<1>4. r.pc = "stamp" /\ r.op = th[t].op /\ r.todo = {} BY <1>1, <1>2, <1>3 DEF ThreadType
<1>5. th' = [th EXCEPT ![t] = r] /\ begun' = begun /\ hist' = hist /\ panics' = panics BY <1>2 DEF Record
<1>6. th[t].op \in Op /\ ctr' = Plus(ctr, th[t].op) BY <1>1 DEF Record, Plus, ThreadInv
<1>7. ctr \in [Op -> Nat] /\ panics \in Nat BY DEF HInv
<1>8. ctr' \in [Op -> Nat] /\ \A o \in Op : ctr'[o] = ctr[o] + (IF o = th[t].op THEN 1 ELSE 0) BY <1>6, <1>7, PlusIs
<1>9. \A o \in Op : IsAlive(r, o) <=> IsAlive(th[t], o) BY <1>1, <1>4 DEF IsAlive
<1>10. ASSUME NEW o \in Op PROVE ctr'[o] + panics' >= ctr[o] + panics + Bit(IsDone(r, o)) - Bit(IsDone(th[t], o))
  <2>1. Bit(IsDone(th[t], o)) = 0 BY <1>1 DEF Bit, IsDone
  <2>2. PICK c \in Nat : c = ctr[o] BY <1>7
  <2>3. CASE th[t].op = o
    <3>1. Bit(IsDone(r, o)) = 1 BY <1>4, <2>3 DEF Bit, IsDone
    <3>2. ctr'[o] = c + 1 BY <1>8, <2>2, <2>3
    <3>3. QED BY <1>5, <1>7, <2>1, <2>2, <3>1, <3>2
  <2>4. CASE th[t].op # o
    <3>1. Bit(IsDone(r, o)) = 0 BY <1>4, <2>4 DEF Bit, IsDone
    <3>2. ctr'[o] = c BY <1>8, <2>2, <2>4
    <3>3. QED BY <1>5, <1>7, <2>1, <2>2, <3>1, <3>2
  <2>5. QED BY <2>3, <2>4
<1>11. QED BY <1>3, <1>4, <1>5, <1>7, <1>8, <1>9, <1>10, QuietStep

\* A step of record() behind the counters.
LEMMA PcHist ==
  ASSUME ThreadInv, HInv, NEW t \in Threads, NEW pc \in {"lock", "push", "recorded"}, th' = [th EXCEPT ![t].pc = pc],
         th[t].pc \in {"stamp", "lock", "push"}, UNCHANGED <<ctr, panics, hist, begun>>
  PROVE  HInv'
<1>1. th[t] \in ThreadType /\ th[t].todo = {} BY NotDropped DEF ThreadInv
<1>2. PICK r : r = [th[t] EXCEPT !.pc = pc] OBVIOUS
<1>3. r.pc = pc /\ r.op = th[t].op /\ r.todo = {} BY <1>1, <1>2 DEF ThreadType
<1>4. th' = [th EXCEPT ![t] = r] BY <1>2
<1>5. ctr \in [Op -> Nat] /\ panics \in Nat BY DEF HInv
<1>6. \A o \in Op : IsAlive(r, o) <=> IsAlive(th[t], o) BY <1>3 DEF IsAlive
<1>7. ASSUME NEW o \in Op PROVE ctr'[o] + panics' >= ctr[o] + panics + Bit(IsDone(r, o)) - Bit(IsDone(th[t], o))
  <2>1. Bit(IsDone(r, o)) = Bit(IsDone(th[t], o)) /\ Bit(IsDone(r, o)) \in {0, 1} BY <1>3 DEF Bit, IsDone
  <2>2. PICK c \in Nat : c = ctr[o] BY <1>5
  <2>3. QED BY <1>5, <2>1, <2>2
<1>8. QED BY <1>1, <1>3, <1>4, <1>5, <1>6, <1>7, QuietStep

LEMMA PanicHist ==
  ASSUME ThreadInv, HInv, NEW t \in Threads, Panic(t)
  PROVE  HInv'
<1>1. th[t] \in ThreadType /\ th[t].pc \in {"work", "recorded"} BY DEF ThreadInv, Panic
<1>2. th[t].todo = {} BY <1>1, NotDropped
<1>3. PICK r : r = [th[t] EXCEPT !.pc = "unwound"] OBVIOUS
<1>4. r.pc = "unwound" /\ r.op = th[t].op /\ r.todo = {} BY <1>1, <1>2, <1>3 DEF ThreadType
<1>5. th' = [th EXCEPT ![t] = r] /\ begun' = begun /\ hist' = hist /\ ctr' = ctr /\ panics' = panics + 1
  BY <1>3 DEF Panic
<1>6. ctr \in [Op -> Nat] /\ panics \in Nat /\ panics' \in Nat BY <1>5 DEF HInv
<1>7. \A o \in Op : IsAlive(r, o) <=> IsAlive(th[t], o) BY <1>1, <1>4 DEF IsAlive
<1>8. ASSUME NEW o \in Op PROVE ctr'[o] + panics' >= ctr[o] + panics + Bit(IsDone(r, o)) - Bit(IsDone(th[t], o))
  <2>1. PICK d \in {0, 1}, e \in {0, 1} : d = Bit(IsDone(r, o)) /\ e = Bit(IsDone(th[t], o)) BY DEF Bit
  <2>2. PICK c \in Nat : c = ctr[o] BY <1>6
  <2>3. QED BY <1>5, <1>6, <2>1, <2>2
<1>9. QED BY <1>2, <1>4, <1>5, <1>6, <1>7, <1>8, QuietStep

LEMMA FinishHist ==
  ASSUME ThreadInv, HInv, NEW t \in Threads, Finish(t)
  PROVE  HInv'
<1>1. th[t].pc = "drop" /\ th[t].todo = {} BY DEF Finish
<1>2. PICK r : r = Idle OBVIOUS
<1>3. r.pc = "idle" /\ r.todo = {} BY <1>2 DEF Idle
<1>4. th' = [th EXCEPT ![t] = r] /\ begun' = begun /\ hist' = hist /\ ctr' = ctr /\ panics' = panics
  BY <1>2 DEF Finish
<1>5. ctr \in [Op -> Nat] /\ panics \in Nat BY DEF HInv
<1>6. \A o \in Op : IsAlive(r, o) <=> IsAlive(th[t], o) BY <1>1, <1>3 DEF IsAlive
<1>7. ASSUME NEW o \in Op PROVE ctr'[o] + panics' >= ctr[o] + panics + Bit(IsDone(r, o)) - Bit(IsDone(th[t], o))
  <2>1. Bit(IsDone(r, o)) = 0 /\ Bit(IsDone(th[t], o)) = 0 BY <1>1, <1>3 DEF Bit, IsDone
  <2>2. PICK c \in Nat : c = ctr[o] BY <1>5
  <2>3. QED BY <1>4, <1>5, <2>1, <2>2
<1>8. QED BY <1>1, <1>3, <1>4, <1>5, <1>6, <1>7, QuietStep

LEMMA DropStep ==
  ASSUME ThreadInv, HInv, NEW t \in Threads, NEW z \in Latency, Drop(t, z)
  PROVE  HInv'
<1>1. th[t] \in ThreadType /\ th[t].pc \in {"recorded", "unwound"} /\ th[t].op \in Op BY DEF ThreadInv, Drop
<1>2. PICK o0 \in Op : o0 = th[t].op BY <1>1
<1>3. th[t].todo = {} BY <1>1, NotDropped
<1>4. PICK r : r = [th[t] EXCEPT !.pc = "drop", !.us = z, !.todo = Observation(z)] OBVIOUS
<1>5. r.pc = "drop" /\ r.op = o0 /\ r.us = z /\ r.todo = Observation(z) BY <1>1, <1>2, <1>4 DEF ThreadType
<1>6. /\ th' = [th EXCEPT ![t] = r] /\ hist' = hist /\ ctr' = ctr /\ panics' = panics
      /\ begun' = [begun EXCEPT ![o0][z] = @ + 1]
  BY <1>2, <1>4 DEF Drop
<1>7. /\ hist \in [Op -> HistType] /\ begun \in [Op -> [Latency -> Nat]] /\ ctr \in [Op -> Nat] /\ panics \in Nat
  BY DEF HInv
<1>8. PICK T, T2 : T = th /\ T2 = th' /\ Moves(T, T2, t, r) BY <1>6, MovesIs DEF ThreadInv
<1>9. PICK b0 \in [Latency -> Nat], b2 \in [Latency -> Nat] : b0 = begun[o0] /\ b2 = Plus(b0, z) BY <1>7, PlusIs
<1>10. begun' = [begun EXCEPT ![o0] = b2] BY <1>6, <1>9 DEF Plus
<1>11. begun' \in [Op -> [Latency -> Nat]] BY <1>7, <1>10
<1>12. \A w \in Threads : ThreadOK(th'[w])
  <2>1. ThreadOK(r) BY <1>5 DEF ThreadOK
  <2>2. QED BY <1>6, <2>1 DEF HInv, ThreadInv
<1>13. T[t].pc # "drop" /\ T[t].pc # "idle" /\ T[t].op = o0 /\ T[t].todo = {} BY <1>1, <1>2, <1>3, <1>8
<1>14. ASSUME NEW o \in Op PROVE HistOK(T2, begun'[o], hist'[o], o)
  <2>1. PICK b \in [Latency -> Nat], h \in HistType : b = begun[o] /\ h = hist[o] BY <1>7
  <2>2. HistOK(T, b, h, o) BY <1>8, <2>1 DEF HInv
  <2>3. \A us \in Latency : ~IsLate(T[t], o, us) BY <1>13 DEF IsLate
  <2>4. IsAlive(r, o) <=> IsAlive(T[t], o) BY <1>5, <1>13 DEF IsAlive, Observation
  <2>5. CASE o = o0
    <3>1. \A us \in Latency : IsLate(r, o, us) <=> us = z BY <1>5, <2>5 DEF IsLate
    <3>2. PICK c : c = Plus(b, z) OBVIOUS
    <3>3. HistOK(T2, c, h, o) BY <1>5, <1>8, <2>2, <2>3, <2>4, <3>1, <3>2, DropHist
    <3>4. begun'[o] = c /\ hist'[o] = h BY <1>6, <1>7, <1>9, <1>10, <2>1, <2>5, <3>2
    <3>5. QED BY <3>3, <3>4
  <2>6. CASE o # o0
    <3>1. \A us \in Latency : ~IsLate(r, o, us) BY <1>5, <2>6 DEF IsLate
    <3>2. \A us \in Latency, k \in Keys : Waits(r, o, us, k) <=> Waits(T[t], o, us, k) BY <2>3, <3>1 DEF Waits
    <3>3. Bit(IsAlive(r, o)) - Bit(IsAlive(T[t], o)) = 0 BY <2>4 DEF Bit
    <3>4. HistMoves(h, h, 0) BY DEF HistType, HistMoves
    <3>5. HistMoves(h, h, Bit(IsAlive(r, o)) - Bit(IsAlive(T[t], o))) BY <3>3, <3>4
    <3>6. HistOK(T2, b, h, o) BY <1>8, <2>2, <3>1, <3>2, <3>5, PlainHist
    <3>7. begun'[o] = b /\ hist'[o] = h BY <1>6, <1>7, <1>10, <2>1, <2>6
    <3>8. QED BY <3>6, <3>7
  <2>7. QED BY <2>5, <2>6
<1>15. ASSUME NEW o \in Op PROVE CountOK(T2, begun'[o], ctr'[o] + panics', o)
  <2>1. PICK b \in [Latency -> Nat], n \in Nat : b = begun[o] /\ n = ctr[o] + panics
    <3>1. ctr[o] \in Nat /\ panics \in Nat BY <1>7
    <3>2. \A x, y \in Nat : x + y \in Nat OBVIOUS
    <3>3. QED BY <1>7, <3>1, <3>2
  <2>2. CountOK(T, b, n, o) /\ ctr'[o] + panics' = n BY <1>6, <1>8, <2>1 DEF HInv
  <2>3. ~IsDone(r, o) BY <1>5 DEF IsDone
  <2>4. CASE o = o0
    <3>1. PICK c \in [Latency -> Nat] : c = Plus(b, z) BY PlusIs
    <3>2. begun'[o] = c BY <1>7, <1>9, <1>10, <2>1, <2>4, <3>1
    <3>3. Ops(c) = Ops(b) + 1 BY <3>1, OpsPlus
    <3>4. ~IsDone(r, o) /\ T[t].pc \in {"recorded", "unwound"} BY <1>1, <1>8, <2>3
    <3>5. PICK x \in Nat, y \in Nat : /\ x = Cardinality(Done(T, o)) /\ y = Cardinality(Done(T2, o))
                                      /\ y = x + Bit(IsDone(r, o)) - Bit(IsDone(T[t], o))
      BY <1>8, CountsMove
    <3>6. IsDone(T[t], o) BY <1>13, <2>4, <3>4 DEF IsDone
    <3>7. Bit(IsDone(r, o)) = 0 /\ Bit(IsDone(T[t], o)) = 1 BY <3>4, <3>6 DEF Bit
    <3>8. y = x - 1 BY <3>5, <3>7
    <3>9. PICK m \in Nat : m = Ops(b) BY MetricOrder
    <3>10. m + x <= n BY <2>2, <3>5, <3>9 DEF CountOK
    <3>11. Ops(c) = m + 1 BY <3>3, <3>9
    <3>12. Ops(c) + y <= n BY <3>8, <3>10, <3>11
    <3>13. CountOK(T2, c, n, o) BY <3>5, <3>12 DEF CountOK
    <3>14. QED BY <2>2, <3>2, <3>13
  <2>5. CASE o # o0
    <3>1. begun'[o] = b BY <1>7, <1>10, <2>1, <2>5
    <3>2. ~IsDone(T[t], o) BY <1>13, <2>5 DEF IsDone
    <3>3. n >= n + Bit(IsDone(r, o)) - Bit(IsDone(T[t], o)) BY <2>3, <3>2 DEF Bit
    <3>4. CountOK(T2, b, n, o) BY <1>8, <2>2, <3>3, CountStays
    <3>5. QED BY <2>2, <3>1, <3>4
  <2>6. QED BY <2>4, <2>5
<1>16. QED BY <1>6, <1>7, <1>8, <1>11, <1>12, <1>14, <1>15 DEF HInv

LEMMA BumpType ==
  ASSUME NEW h \in HistType, NEW q \in Keys \cup {"in_flight"}, NEW z \in Nat
  PROVE  Bump(h, q, z) \in HistType
<1>1. h.count \in Nat /\ h.sum_us \in Nat /\ h.in_flight \in Int /\ h.buckets \in [Bucket -> Nat] BY DEF HistType
<1>2. h.count + 1 \in Nat /\ h.sum_us + z \in Nat /\ h.in_flight - 1 \in Int BY <1>1
<1>3. CASE q = "count"
  <2>1. Bump(h, q, z) = [h EXCEPT !.count = @ + 1] BY <1>3 DEF Bump
  <2>2. QED BY <1>2, <2>1 DEF HistType
<1>4. CASE q = "sum_us"
  <2>1. Bump(h, q, z) = [h EXCEPT !.sum_us = @ + z] BY <1>4 DEF Bump
  <2>2. QED BY <1>2, <2>1 DEF HistType
<1>5. CASE q = "in_flight"
  <2>1. Bump(h, q, z) = [h EXCEPT !.in_flight = @ - 1] BY <1>5 DEF Bump
  <2>2. QED BY <1>2, <2>1 DEF HistType
<1>6. CASE q = "bucket"
  <2>1. PICK bs : bs = [i \in Bucket |-> IF InBucket(z, i) THEN h.buckets[i] + 1 ELSE h.buckets[i]] OBVIOUS
  <2>2. bs \in [Bucket -> Nat] BY <1>1, <2>1
  <2>3. Bump(h, q, z) = [h EXCEPT !.buckets = bs] BY <1>6, <2>1 DEF Bump
  <2>4. QED BY <2>2, <2>3 DEF HistType
<1>7. QED BY <1>3, <1>4, <1>5, <1>6 DEF Keys

LEMMA VisibleStep ==
  ASSUME ThreadInv, HInv, NEW t \in Threads, Visible(t)
  PROVE  HInv'
<1>1. PICK q \in th[t].todo : /\ hist' = [hist EXCEPT ![th[t].op] = Bump(@, q, th[t].us)]
                              /\ th' = [th EXCEPT ![t].todo = @ \ {q}]
                              /\ UNCHANGED <<ctr, panics, begun>>
  BY DEF Visible
<1>2. th[t] \in ThreadType /\ th[t].pc = "drop" /\ th[t].op \in Op /\ th[t].us \in Latency
      /\ th[t].todo \subseteq Observation(th[t].us)
  <2>1. ThreadOK(th[t]) BY DEF HInv
  <2>2. th[t].pc = "drop" BY <2>1 DEF ThreadOK
  <2>3. QED BY <2>1, <2>2 DEF ThreadOK, ThreadInv
<1>3. PICK o0 \in Op, z \in Latency : o0 = th[t].op /\ z = th[t].us BY <1>2
<1>4. q \in Keys \cup {"in_flight"} BY <1>2 DEF Observation, Keys
<1>5. PICK r : r = [th[t] EXCEPT !.todo = @ \ {q}] OBVIOUS
<1>6. r.pc = "drop" /\ r.op = o0 /\ r.us = z /\ r.todo = th[t].todo \ {q} BY <1>2, <1>3, <1>5 DEF ThreadType
<1>7. th' = [th EXCEPT ![t] = r] BY <1>1, <1>5
<1>8. PICK T, T2 : T = th /\ T2 = th' /\ Moves(T, T2, t, r) BY <1>7, MovesIs DEF ThreadInv
<1>9. /\ T[t].pc = "drop" /\ T[t].op = o0 /\ T[t].us = z /\ q \in T[t].todo /\ T[t].todo \subseteq Observation(z)
      /\ r.todo = T[t].todo \ {q}
  BY <1>2, <1>3, <1>6, <1>8
<1>10. /\ hist \in [Op -> HistType] /\ begun \in [Op -> [Latency -> Nat]] /\ ctr \in [Op -> Nat] /\ panics \in Nat
  BY DEF HInv
<1>11. PICK h0 \in HistType, h2 \in HistType : h0 = hist[o0] /\ h2 = Bump(h0, q, z)
  <2>1. PICK h0 \in HistType : h0 = hist[o0] BY <1>10
  <2>2. z \in Nat BY StatsAssumption
  <2>3. Bump(h0, q, z) \in HistType BY <1>4, <2>2, BumpType
  <2>4. QED BY <2>1, <2>3
<1>12. hist' = [hist EXCEPT ![o0] = h2] BY <1>1, <1>3, <1>11
<1>13. hist' \in [Op -> HistType] BY <1>10, <1>12
<1>14. \A w \in Threads : ThreadOK(th'[w])
  <2>1. r.todo \subseteq Observation(r.us) BY <1>6, <1>9
  <2>2. ThreadOK(r) BY <1>6, <2>1 DEF ThreadOK
  <2>3. QED BY <1>7, <2>2 DEF HInv, ThreadInv
<1>15. ASSUME NEW o \in Op PROVE HistOK(T2, begun[o], hist'[o], o)
  <2>1. PICK b \in [Latency -> Nat], h \in HistType : b = begun[o] /\ h = hist[o] BY <1>10
  <2>2. HistOK(T, b, h, o) BY <1>8, <2>1 DEF HInv
  <2>3. \A us \in Latency : IsLate(T[t], o, us) <=> o = o0 /\ us = z BY <1>9 DEF IsLate
  <2>4. \A us \in Latency : IsLate(r, o, us) <=> o = o0 /\ us = z BY <1>6 DEF IsLate
  <2>5. CASE o # o0
    <3>1. \A us \in Latency : ~IsLate(T[t], o, us) /\ ~IsLate(r, o, us) BY <2>3, <2>4, <2>5
    <3>2. \A us \in Latency, k \in Keys : Waits(r, o, us, k) <=> Waits(T[t], o, us, k) BY <3>1 DEF Waits
    <3>3. ~IsAlive(r, o) /\ ~IsAlive(T[t], o) BY <1>6, <1>9, <2>5 DEF IsAlive
    <3>4. Bit(IsAlive(r, o)) - Bit(IsAlive(T[t], o)) = 0 BY <3>3 DEF Bit
    <3>5. HistMoves(h, h, 0) BY DEF HistType, HistMoves
    <3>6. HistMoves(h, h, Bit(IsAlive(r, o)) - Bit(IsAlive(T[t], o))) BY <3>4, <3>5
    <3>7. HistOK(T2, b, h, o) BY <1>8, <2>2, <3>1, <3>2, <3>6, PlainHist
    <3>8. hist'[o] = h BY <1>10, <1>12, <2>1, <2>5
    <3>9. QED BY <2>1, <3>7, <3>8
  <2>6. CASE o = o0 /\ q = "in_flight"
    <3>1. \A us \in Latency : IsLate(r, o, us) => IsLate(T[t], o, us) BY <2>3, <2>4
    <3>2. \A us \in Latency, k \in Keys : Waits(r, o, us, k) <=> Waits(T[t], o, us, k)
      <4>1. \A k \in Keys : k \in r.todo <=> k \in T[t].todo BY <1>9, <2>6 DEF Keys
      <4>2. QED BY <2>3, <2>4, <4>1 DEF Waits
    <3>3. ~IsAlive(r, o) /\ IsAlive(T[t], o) BY <1>6, <1>9, <2>6 DEF IsAlive
    <3>4. Bit(IsAlive(r, o)) - Bit(IsAlive(T[t], o)) = -1 BY <3>3 DEF Bit
    <3>5. h2 = [h EXCEPT !.in_flight = @ - 1] BY <1>11, <2>1, <2>6 DEF Bump
    <3>6. HistMoves(h, h2, -1) BY <3>5 DEF HistType, HistMoves
    <3>7. HistMoves(h, h2, Bit(IsAlive(r, o)) - Bit(IsAlive(T[t], o))) BY <3>4, <3>6
    <3>8. HistOK(T2, b, h2, o) BY <1>8, <2>2, <3>1, <3>2, <3>7, PlainHist
    <3>9. hist'[o] = h2 BY <1>10, <1>12, <2>6
    <3>10. QED BY <2>1, <3>8, <3>9
  <2>7. CASE o = o0 /\ q \in Keys
    <3>1. \A us \in Latency : IsLate(T[t], o, us) <=> us = z BY <2>3, <2>7
    <3>2. \A us \in Latency : IsLate(r, o, us) <=> us = z BY <2>4, <2>7
    <3>3. q # "in_flight" BY <2>7 DEF Keys
    <3>4. IsAlive(r, o) <=> IsAlive(T[t], o) BY <1>6, <1>9, <3>3 DEF IsAlive
    <3>5. HistOK(T2, b, Bump(h, q, z), o) BY <1>8, <1>9, <2>2, <2>7, <3>1, <3>2, <3>4, VisibleHist
    <3>6. hist'[o] = Bump(h, q, z) BY <1>10, <1>11, <1>12, <2>1, <2>7
    <3>7. QED BY <2>1, <3>5, <3>6
  <2>8. QED BY <1>4, <2>5, <2>6, <2>7
<1>16. ASSUME NEW o \in Op PROVE CountOK(T2, begun[o], ctr[o] + panics, o)
  <2>1. PICK b \in [Latency -> Nat], n \in Nat : b = begun[o] /\ n = ctr[o] + panics
    <3>1. ctr[o] \in Nat /\ panics \in Nat BY <1>10
    <3>2. \A x, y \in Nat : x + y \in Nat OBVIOUS
    <3>3. QED BY <1>10, <3>1, <3>2
  <2>2. CountOK(T, b, n, o) BY <1>8, <2>1 DEF HInv
  <2>3. ~IsDone(r, o) /\ ~IsDone(T[t], o) BY <1>6, <1>9 DEF IsDone
  <2>4. n >= n + Bit(IsDone(r, o)) - Bit(IsDone(T[t], o)) BY <2>3 DEF Bit
  <2>5. CountOK(T2, b, n, o) BY <1>8, <2>2, <2>4, CountStays
  <2>6. QED BY <2>1, <2>5
<1>17. QED BY <1>1, <1>8, <1>10, <1>13, <1>14, <1>15, <1>16 DEF HInv

LEMMA HistStep == ThreadInv /\ HInv /\ [Next]_vars => HInv'
<1> SUFFICES ASSUME ThreadInv, HInv, [Next]_vars PROVE HInv' OBVIOUS
<1>1. ASSUME NEW t \in Threads, Operation(t) PROVE HInv'
  <2>1. CASE \E o \in Op : StartScope(t, o) BY <2>1, StartScopeHist
  <2>2. CASE \E rc \in Rc : Record(t, rc) BY <2>2, RecordHist
  <2>3. CASE Stamp(t) BY <2>3, PcHist DEF Stamp
  <2>4. CASE LockRing(t) BY <2>4, PcHist DEF LockRing
  <2>5. CASE PushRing(t) BY <2>5, PcHist DEF PushRing
  <2>6. CASE Panic(t) BY <2>6, PanicHist
  <2>7. CASE \E us \in Latency : Drop(t, us) BY <2>7, DropStep
  <2>8. CASE Visible(t) BY <2>8, VisibleStep
  <2>9. CASE Finish(t) BY <2>9, FinishHist
  <2>10. QED BY <1>1, <2>1, <2>2, <2>3, <2>4, <2>5, <2>6, <2>7, <2>8, <2>9 DEF Operation
<1>2. CASE Tick \/ UNCHANGED vars
  <2>1. UNCHANGED <<hist, begun, ctr, panics, th>> BY <1>2 DEF Tick, vars
  <2>2. QED BY <2>1 DEF HInv
<1>3. QED BY <1>1, <1>2 DEF Next

\* Every value of a histogram lies between those of two numbers of observations
\* with what is over below and what was begun above.
LEMMA HistBracketed == HInv => Bracketed
<1> SUFFICES ASSUME HInv, NEW o \in Op
             PROVE  /\ hist[o].count \in Ops(Ended(o))..Ops(begun[o])
                    /\ hist[o].sum_us \in Total(Ended(o))..Total(begun[o])
                    /\ \A i \in Bucket : Cumulative(hist[o], i) \in Within(Ended(o), i)..Within(begun[o], i)
                    /\ hist[o].in_flight =
                         Cardinality({t \in Threads :
                                        /\ th[t].pc # "idle" /\ th[t].op = o
                                        /\ th[t].pc = "drop" => "in_flight" \in th[t].todo})
                    /\ Ops(begun[o]) <= ctr[o] + panics
  BY DEF Bracketed
<1>1. PICK T, h : T = th /\ h = hist[o] OBVIOUS
<1>2. PICK b \in [Latency -> Nat] : b = begun[o] BY DEF HInv
<1>3. HistOK(T, b, h, o) BY <1>1, <1>2 DEF HInv
<1>4. PICK e : e = Ended(o) OBVIOUS
<1>5. \A us \in Latency : e[us] = b[us] - Cardinality(Late(T, o, us)) BY <1>1, <1>2, <1>4 DEF Ended, Late, IsLate
<1>6. Enough(T, b, o) BY <1>3 DEF HistOK
<1>7. ASSUME NEW k
      PROVE  LET s == Seen(T, b, o, k) IN
             /\ Ops(s) \in Ops(e)..Ops(b) /\ Total(s) \in Total(e)..Total(b)
             /\ \A i \in Bucket : Within(s, i) \in Within(e, i)..Within(b, i)
  <2>1. PICK s : s = Seen(T, b, o, k) OBVIOUS
  <2>2. ASSUME NEW us \in Latency PROVE e[us] \in Nat /\ s[us] \in Nat /\ e[us] <= s[us] BY <1>5, <1>6, <2>1, SeenType
  <2>3. ASSUME NEW us \in Latency PROVE s[us] \in Nat /\ b[us] \in Nat /\ s[us] <= b[us] BY <1>6, <2>1, SeenType
  <2>4. /\ Ops(e) \in Nat /\ Ops(s) \in Nat /\ Ops(e) <= Ops(s)
        /\ Total(e) \in Nat /\ Total(s) \in Nat /\ Total(e) <= Total(s)
        /\ \A i \in Bucket : Within(e, i) \in Nat /\ Within(s, i) \in Nat /\ Within(e, i) <= Within(s, i)
    BY <2>2, MetricOrder
  <2>5. /\ Ops(s) \in Nat /\ Ops(b) \in Nat /\ Ops(s) <= Ops(b)
        /\ Total(s) \in Nat /\ Total(b) \in Nat /\ Total(s) <= Total(b)
        /\ \A i \in Bucket : Within(s, i) \in Nat /\ Within(b, i) \in Nat /\ Within(s, i) <= Within(b, i)
    BY <2>3, MetricOrder
  <2>6. Ops(s) \in Ops(e)..Ops(b) /\ Total(s) \in Total(e)..Total(b) BY <2>4, <2>5
  <2>7. \A i \in Bucket : Within(s, i) \in Within(e, i)..Within(b, i) BY <2>4, <2>5
  <2>8. QED BY <2>1, <2>6, <2>7
<1>8. /\ h.count \in Ops(e)..Ops(b) /\ h.sum_us \in Total(e)..Total(b)
      /\ \A i \in Bucket : Cumulative(h, i) \in Within(e, i)..Within(b, i)
  BY <1>3, <1>7 DEF HistOK
<1>9. h.in_flight = Cardinality({t \in Threads :
                                   /\ th[t].pc # "idle" /\ th[t].op = o
                                   /\ th[t].pc = "drop" => "in_flight" \in th[t].todo})
  <2>1. Alive(T, o) = {t \in Threads :
                         /\ th[t].pc # "idle" /\ th[t].op = o
                         /\ th[t].pc = "drop" => "in_flight" \in th[t].todo}
    BY <1>1 DEF Alive, IsAlive
  <2>2. QED BY <1>3, <2>1 DEF HistOK
<1>10. Ops(b) <= ctr[o] + panics
  <2>1. PICK n \in Nat : n = ctr[o] + panics
    <3>1. ctr[o] \in Nat /\ panics \in Nat BY DEF HInv
    <3>2. \A x, y \in Nat : x + y \in Nat OBVIOUS
    <3>3. QED BY <3>1, <3>2
  <2>2. Ops(b) + Cardinality(Done(T, o)) <= n BY <1>1, <1>2, <2>1 DEF HInv, CountOK
  <2>3. Cardinality(Done(T, o)) \in Nat
    <3>1. Done(T, o) \subseteq Threads BY DEF Done
    <3>2. QED BY <3>1, StatsAssumption, FS_Subset, FS_CardinalityType
  <2>4. Ops(b) \in Nat
    <3>1. \A us \in Latency : b[us] \in Nat /\ b[us] \in Nat /\ b[us] <= b[us] OBVIOUS
    <3>2. QED BY <3>1, MetricOrder
  <2>5. QED BY <2>1, <2>2, <2>3, <2>4
<1>11. QED BY <1>1, <1>2, <1>4, <1>8, <1>9, <1>10

\* Whatever the order in which the relaxed increments of the dropped scopes are
\* seen, what a scrape loads of a histogram at any instant (the count, the sum,
\* each cumulative bucket) is between what has finished and what has been
\* observed, the gauge counts the scopes that are alive, and no operation ends
\* without having been counted as recorded or as a panic.
THEOREM ScrapeIsBracketed == Spec => []Bracketed
<1>1. Init => RInv /\ HInv BY InitRing, InitHist
<1>2. RInv /\ HInv /\ [Next]_vars => RInv' /\ HInv'
  <2>1. RInv => ThreadInv BY DEF RInv
  <2>2. QED BY <2>1, RingStep, HistStep
<1>3. HInv => Bracketed BY HistBracketed
<1>4. QED BY <1>1, <1>2, <1>3, PTL DEF Spec
===============================================================================
