-------------------------------- MODULE Stats --------------------------------
(***************************************************************************)
(* The telemetry of crates/rspacefs-fuse/src/stats.rs: a counter and a        *)
(* latency histogram for each kind of operation, and a ring of the most      *)
(* recent ones.  The dispatch thread and the workers update them, a scraper   *)
(* (control socket or metrics endpoint) reads them.                          *)
(*                                                                           *)
(* Every atomic is Relaxed: the increments of one observation may become      *)
(* visible in any order.  An operation therefore carries the set `todo` of    *)
(* its increments still to be seen.  No property relates the counters of      *)
(* record() to one another, so they move in one step.  A scrape only reads:   *)
(* it loads each value at some instant, so what it can report is stated of    *)
(* every state.  The ring is guarded by a mutex.                             *)
(***************************************************************************)
EXTENDS Integers, Sequences, FiniteSets, FiniteSetsExt

CONSTANTS
    Threads,     \* the threads that run operations
    Op,          \* kinds of operation
    Rc,          \* result codes: 0, ENOENT, EIO, ...
    LatBuckets,  \* LAT_BUCKETS_US: the upper bounds of the finite buckets
    Latency,     \* the latencies that occur
    Cap,         \* the ring's capacity
    MaxOps,      \* bound: operations started
    MaxTime,     \* bound: the clock
    None

ASSUME StatsAssumption ==
    /\ Cap \in Nat \ {0} /\ 0 \in Rc
    /\ IsFiniteSet(Threads) /\ None \notin Threads
    /\ MaxOps \in Nat /\ MaxTime \in Nat
    /\ LatBuckets \in Seq(Nat) /\ Latency \subseteq Nat

\* The bounds are in order, and a latency is a u64.
ASSUME HistAssumption ==
    /\ \A i, j \in 1..Len(LatBuckets) : i < j => LatBuckets[i] < LatBuckets[j]
    /\ IsFiniteSet(Latency)

Bucket == 1..Len(LatBuckets)
RecentOp == [ts : 0..MaxTime, op : Op, rc : Rc]

VARIABLES
    ctr,       \* OpCounters
    errs,      \* errors_enoent, errors_io and errors_other, by result code
    panics,    \* faults_panic
    last,      \* last_op_unix_ms
    hist,      \* OpHistograms
    ring,      \* RecentRing
    lock,      \* the thread that holds the ring's mutex
    clock,     \* SystemTime::now
    th,        \* the operation each thread runs
    begun      \* history: how often each latency was observed, by operation

vars == <<ctr, errs, panics, last, hist, ring, lock, clock, th, begun>>

-----------------------------------------------------------------------------
(* The ring.                                                                 *)

\* Mutant: the slot is overwritten, but the head stays.
PushStuck(r, x) ==
    IF Len(r.buf) < Cap
    THEN [r EXCEPT !.buf = Append(@, x)]
    ELSE [r EXCEPT !.buf[r.head + 1] = x]

\* RecentRing::push.  `head`, counted from 0, is the slot written next once the
\* buffer is full.
Push(r, x) ==
    IF Len(r.buf) < Cap
    THEN [r EXCEPT !.buf = Append(@, x)]
    ELSE [r EXCEPT !.buf[r.head + 1] = x, !.head = (@ + 1) % Cap]

\* RecentRing::collect: the index, counted from 0, of the i-th newest entry.
Slot(r, i) == IF Len(r.buf) < Cap THEN Len(r.buf) - i ELSE (r.head + Cap - i) % Cap

Collect(r, max) ==
    [i \in 1..(IF max < Len(r.buf) THEN max ELSE Len(r.buf)) |-> r.buf[Slot(r, i) + 1]]

-----------------------------------------------------------------------------
(* The histogram.                                                            *)

\* The first bucket whose bound is not exceeded; none beyond the last bound.
InBucket(us, i) == us <= LatBuckets[i] /\ \A j \in 1..(i - 1) : us > LatBuckets[j]

NoLatency == [us \in Latency |-> 0]
ZeroHist == [buckets |-> [i \in Bucket |-> 0], count |-> 0, sum_us |-> 0, in_flight |-> 0]

\* The increments of observe() and of the scope's drop.
Observation(us) ==
    {"count", "sum_us", "in_flight"} \cup (IF \E i \in Bucket : InBucket(us, i) THEN {"bucket"} ELSE {})

Bump(h, k, us) ==
    CASE k = "bucket"    -> [h EXCEPT !.buckets = [i \in Bucket |-> IF InBucket(us, i) THEN @[i] + 1 ELSE @[i]]]
      [] k = "count"     -> [h EXCEPT !.count = @ + 1]
      [] k = "sum_us"    -> [h EXCEPT !.sum_us = @ + us]
      [] k = "in_flight" -> [h EXCEPT !.in_flight = @ - 1]

\* Mutant: each bucket is reported alone.
Alone(s, i) == s.buckets[i]

\* render_prom: a bucket is reported with all those below it.
Cumulative(s, i) ==
    LET f[n \in 0..Len(LatBuckets)] == IF n = 0 THEN 0 ELSE f[n - 1] + s.buckets[n]
    IN  f[i]

-----------------------------------------------------------------------------
(* An operation, from OwnedOpScope::new to its drop.                         *)

Idle == [pc |-> "idle", op |-> None, rc |-> 0, ts |-> 0, us |-> 0, todo |-> {}]
Sum(f, S) == MapThenSumSet(LAMBDA x : f[x], S)
Ops(lats) == Sum(lats, Latency)
Started == Cardinality({t \in Threads : th[t].pc \notin {"idle", "drop"}})
             + Sum([o \in Op |-> Ops(begun[o])], Op)

StartScope(t, o) ==
    /\ th[t].pc = "idle" /\ Started < MaxOps
    /\ hist' = [hist EXCEPT ![o].in_flight = @ + 1]
    /\ th' = [th EXCEPT ![t] = [Idle EXCEPT !.pc = "work", !.op = o]]
    /\ UNCHANGED <<ctr, errs, panics, last, ring, lock, clock, begun>>

\* record() up to its first now_ms().  (bytes_read and bytes_written are
\* counters like these.)
Record(t, rc) ==
    /\ th[t].pc = "work"
    /\ ctr' = [ctr EXCEPT ![th[t].op] = @ + 1]
    /\ errs' = IF rc = 0 THEN errs ELSE [errs EXCEPT ![rc] = @ + 1]
    /\ th' = [th EXCEPT ![t].pc = "stamp", ![t].rc = rc, ![t].ts = clock]
    /\ UNCHANGED <<panics, last, hist, ring, lock, clock, begun>>

\* The time read is stored; another thread may have stored a later one.
Stamp(t) ==
    /\ th[t].pc = "stamp"
    /\ last' = th[t].ts
    /\ th' = [th EXCEPT ![t].pc = "lock"]
    /\ UNCHANGED <<ctr, errs, panics, hist, ring, lock, clock, begun>>

LockRing(t) ==
    /\ th[t].pc = "lock" /\ lock = None
    /\ lock' = t
    /\ th' = [th EXCEPT ![t].pc = "push"]
    /\ UNCHANGED <<ctr, errs, panics, last, hist, ring, clock, begun>>

\* Mutant: the entry carries the time read before the lock was taken.
PushEarlyTime(t) ==
    /\ th[t].pc = "push"
    /\ ring' = Push(ring, [ts |-> th[t].ts, op |-> th[t].op, rc |-> th[t].rc])
    /\ lock' = None
    /\ th' = [th EXCEPT ![t].pc = "recorded"]
    /\ UNCHANGED <<ctr, errs, panics, last, hist, clock, begun>>

\* now_ms() is called again, with the mutex held.
PushRing(t) ==
    /\ th[t].pc = "push"
    /\ ring' = Push(ring, [ts |-> clock, op |-> th[t].op, rc |-> th[t].rc])
    /\ lock' = None
    /\ th' = [th EXCEPT ![t].pc = "recorded"]
    /\ UNCHANGED <<ctr, errs, panics, last, hist, clock, begun>>

\* The body panics, before it records (the pooled operations) or after (all
\* others, which record first); run_protected and protect! count it.
Panic(t) ==
    /\ th[t].pc \in {"work", "recorded"}
    /\ panics' = panics + 1
    /\ th' = [th EXCEPT ![t].pc = "unwound"]
    /\ UNCHANGED <<ctr, errs, last, hist, ring, lock, clock, begun>>

\* The scope is dropped: when the handler returns, or when the worker has
\* answered.
Drop(t, us) ==
    /\ th[t].pc \in {"recorded", "unwound"}
    /\ th' = [th EXCEPT ![t].pc = "drop", ![t].us = us, ![t].todo = Observation(us)]
    /\ begun' = [begun EXCEPT ![th[t].op][us] = @ + 1]
    /\ UNCHANGED <<ctr, errs, panics, last, hist, ring, lock, clock>>

\* One increment becomes visible.
Visible(t) ==
    \E k \in th[t].todo :
        /\ hist' = [hist EXCEPT ![th[t].op] = Bump(@, k, th[t].us)]
        /\ th' = [th EXCEPT ![t].todo = @ \ {k}]
        /\ UNCHANGED <<ctr, errs, panics, last, ring, lock, clock, begun>>

Finish(t) ==
    /\ th[t].pc = "drop" /\ th[t].todo = {}
    /\ th' = [th EXCEPT ![t] = Idle]
    /\ UNCHANGED <<ctr, errs, panics, last, hist, ring, lock, clock, begun>>

Tick ==
    /\ clock < MaxTime
    /\ clock' = clock + 1
    /\ UNCHANGED <<ctr, errs, panics, last, hist, ring, lock, th, begun>>

-----------------------------------------------------------------------------
Init ==
    /\ ctr = [o \in Op |-> 0]
    /\ errs = [r \in Rc |-> 0]
    /\ panics = 0
    /\ last = 0
    /\ hist = [o \in Op |-> ZeroHist]
    /\ ring = [buf |-> << >>, head |-> 0]
    /\ lock = None
    /\ clock = 0
    /\ th = [t \in Threads |-> Idle]
    /\ begun = [o \in Op |-> NoLatency]

Operation(t) ==
    \/ \E o \in Op : StartScope(t, o)
    \/ \E rc \in Rc : Record(t, rc)
    \/ Stamp(t) \/ LockRing(t) \/ PushRing(t) \/ Panic(t)
    \/ \E us \in Latency : Drop(t, us)
    \/ Visible(t) \/ Finish(t)

Next ==
    \/ \E t \in Threads : Operation(t)
    \/ Tick

Spec == Init /\ [][Next]_vars

-----------------------------------------------------------------------------
(* Properties.                                                               *)

\* The `ops` view: whatever the interleaving of the pushes and however often
\* the ring has wrapped, collect() walking back from the head returns the most
\* recent operations, the newest first.
Log == INSTANCE RecentLog WITH Item <- RecentOp, log <- Collect(ring, Cap)
RingIsLog == Log!Spec

\* The entries of the `ops` view are in the order of their timestamps: the
\* time is read inside the critical section that orders the pushes.  When
\* nothing is under way the newest is no older than last_op_unix_ms.
NewestFirst ==
    LET c == Collect(ring, Cap) IN
    /\ \A i, j \in 1..Len(c) : i < j => c[i].ts >= c[j].ts
    /\ (\A t \in Threads : th[t].pc = "idle") /\ c # << >> => last <= c[1].ts

Within(lats, i) == Sum(lats, {us \in Latency : i # 0 /\ us <= LatBuckets[i]})
Total(lats) == Sum([us \in Latency |-> us * lats[us]], Latency)

\* The observations of o that are visible altogether.
Ended(o) ==
    [us \in Latency |->
       begun[o][us] - Cardinality({t \in Threads : th[t].pc = "drop" /\ th[t].op = o /\ th[t].us = us})]

\* What a scrape loads of a histogram, at any instant and so with operations
\* under way whose relaxed increments are seen in any order, is between what has
\* finished and what has been observed: each cumulative bucket, the count and
\* the sum.  With nothing under way it is exact.  The gauge in_flight, which the
\* code keeps signed, counts the scopes that are alive, those that unwind
\* included, and every operation that ended was counted as recorded or as a panic.
Bracketed ==
    \A o \in Op :
        /\ hist[o].count \in Ops(Ended(o))..Ops(begun[o])
        /\ hist[o].sum_us \in Total(Ended(o))..Total(begun[o])
        /\ \A i \in Bucket : Cumulative(hist[o], i) \in Within(Ended(o), i)..Within(begun[o], i)
        /\ hist[o].in_flight =
             Cardinality({t \in Threads :
                            /\ th[t].pc # "idle" /\ th[t].op = o
                            /\ th[t].pc = "drop" => "in_flight" \in th[t].todo})
        /\ Ops(begun[o]) <= ctr[o] + panics
===============================================================================
