--------------------------- MODULE Metrics_proofs ---------------------------
(***************************************************************************)
(* Proofs about the metrics, for any number of threads and counts:         *)
(* mutual exclusion in the collector, and the life of the reporting        *)
(* thread.                                                                 *)
(***************************************************************************)
EXTENDS MetricsReporter, TLAPS

-----------------------------------------------------------------------------
(***************************************************************************)
(* The reporting thread                                                    *)
(***************************************************************************)

\* The only thread that can be alive is the one start remembers, so start
\* notices it whenever there is one.
ReporterInv ==
    /\ state \in [Reporter -> {"ended", "waiting", "reporting", "handling", "crashed"}]
    /\ Alive \subseteq {thread}

LEMMA ReporterInit == MetricsInit => ReporterInv
  BY DEF MetricsInit, ReporterInv, Alive

LEMMA ReporterStep == ReporterInv /\ [MetricsNext]_metricsVars => ReporterInv'
<1>. SUFFICES ASSUME ReporterInv, [MetricsNext]_metricsVars PROVE ReporterInv'
  OBVIOUS
<1>. USE DEF ReporterInv, Alive
<1>1. ASSUME NEW r \in Reporter, Start(r) PROVE ReporterInv'
  BY <1>1 DEF Start
<1>2. ASSUME NEW r \in Reporter, Wake(r) PROVE ReporterInv'
  BY <1>2 DEF Wake
<1>3. ASSUME NEW r \in Reporter, Reported(r) \/ ReportRaises(r) \/ Handled(r) \/ HandlerRaises(r)
      PROVE  ReporterInv'
  BY <1>3 DEF Reported, ReportRaises, Handled, HandlerRaises
<1>4. ASSUME NEW r \in Reporter, Ends(r) PROVE ReporterInv'
  BY <1>4 DEF Ends
<1>5. CASE Stop  BY <1>5 DEF Stop
<1>6. CASE Joined  BY <1>6 DEF Joined
<1>7. ASSUME NEW t \in Thread, Uses(t) \/ Locks(t) \/ Moves(t) PROVE ReporterInv'
  BY <1>7 DEF Uses, Locks, Moves, reporterVars
<1>8. CASE UNCHANGED metricsVars
  BY <1>8 DEF metricsVars, reporterVars
<1>. QED
  BY <1>1, <1>2, <1>3, <1>4, <1>5, <1>6, <1>7, <1>8 DEF MetricsNext

LEMMA ReporterAlways == MetricsSpec => []ReporterInv
  BY ReporterInit, ReporterStep, PTL DEF MetricsSpec

\* However often start and stop are called, and however long a report takes,
\* there is never a second reporting thread.
THEOREM AtMostOneReporter == MetricsSpec => []OneReporter
<1>1. ReporterInv => OneReporter
  BY DEF ReporterInv, OneReporter
<1>. QED  BY <1>1, ReporterAlways, PTL

-----------------------------------------------------------------------------
(***************************************************************************)
(* The collector                                                           *)
(***************************************************************************)

Op == Recorded \cup {"none", "snapshot", "reset"}

Write == [field : Field, keep : {0, 1}, by : Nat]

\* Each method changes a counter at most once, by adding to it or setting it.
LEMMA WritesFacts ==
    ASSUME NEW op \in Op
    PROVE  /\ Writes(op) \in Seq(Write)
           /\ \A i, j \in DOMAIN Writes(op) :
                 Writes(op)[i].field = Writes(op)[j].field => i = j
<1>. USE CollectorAssumption DEF Op, Write, Field, Fields, Add, Put
<1>1. CASE op = "transfer"  BY <1>1 DEF Writes
<1>2. CASE op = "slots"  BY <1>2 DEF Writes
<1>3. CASE op = "reset"  BY <1>3 DEF Writes
<1>4. CASE op \in {"hit", "miss", "eviction", "ttft", "tps"}
  <2>1. {"hits", "misses", "evictions", "ttft", "tps"} \subseteq Field
    <3>1. /\ Fields[1] = "hits" /\ Fields[2] = "misses" /\ Fields[3] = "evictions"
          /\ Fields[6] = "ttft" /\ Fields[7] = "tps" /\ DOMAIN Fields = 1 .. 10
      OBVIOUS
    <3>. QED  BY <3>1
  <2>2. PICK f \in Field : Writes(op) = <<Add(f, 1)>>
    BY <1>4, <2>1 DEF Writes
  <2>. QED  BY <2>2
<1>5. CASE op \in {"none", "snapshot"}  BY <1>5 DEF Writes
<1>. QED  BY <1>1, <1>2, <1>3, <1>4, <1>5

Counts == [Field -> Nat]

\* What a call may be in the middle of, and how the lock tells.
CallsInv ==
    /\ call \in [Thread -> [op : Op, at : Nat, read : BOOLEAN, old : Nat, got : Counts]]
    /\ \A t \in Thread :
          /\ call[t].at > 0 <=> lock = t
          /\ call[t].at > 0 => call[t].op # "none"
          /\ call[t].at <= Steps(call[t].op) + 1
          /\ call[t].read => call[t].op # "snapshot" /\ Working(t)

\* The first n writes of a method have been made, and no other.
Written(op, n) ==
    /\ \A i \in DOMAIN Writes(op) : LET w == Writes(op)[i] IN
          counters[w.field] = IF i <= n THEN w.keep * before[w.field] + w.by
                              ELSE before[w.field]
    /\ \A f \in Field :
          (\A i \in DOMAIN Writes(op) : Writes(op)[i].field # f) => counters[f] = before[f]

\* How far the thread that holds the lock has come.
HolderInv(t) ==
    IF call[t].op = "snapshot"
    THEN /\ counters = before
         /\ \A i \in DOMAIN Fields : i < call[t].at => call[t].got[Fields[i]] = before[Fields[i]]
    ELSE /\ Written(call[t].op, call[t].at - 1)
         /\ call[t].read => call[t].old = counters[Writes(call[t].op)[call[t].at].field]

CollectorInv ==
    /\ lock \in Thread \cup {Free}
    /\ counters \in Counts /\ before \in Counts /\ seen \in Counts
    /\ CallsInv
    /\ \A t \in Thread : lock = t => HolderInv(t)

LEMMA CollectorStart == CollectorInit => CollectorInv
<1>. SUFFICES ASSUME CollectorInit PROVE CollectorInv
  OBVIOUS
<1>1. Zero \in Counts
  BY DEF Zero, Counts
<1>2. NoCall \in [op : Op, at : Nat, read : BOOLEAN, old : Nat, got : Counts]
  BY <1>1 DEF NoCall, Op
<1>3. Steps("none") = 0
  BY DEF Steps, Writes
<1>4. CallsInv
  BY <1>2, <1>3, CollectorAssumption DEF CollectorInit, CallsInv, NoCall
<1>. QED
  BY <1>1, <1>4, CollectorAssumption DEF CollectorInit, CollectorInv

LEMMA StepsType ==
    ASSUME NEW op \in Op
    PROVE  /\ Steps(op) \in Nat
           /\ op # "snapshot" => Steps(op) = Len(Writes(op))
           /\ DOMAIN Fields = 1 .. 10 /\ Steps("snapshot") = 10
  BY WritesFacts DEF Steps, Fields

\* The step a method other than snapshot is at is one of its writes.
LEMMA WriteAt ==
    ASSUME NEW op \in Op, op # "snapshot", NEW at \in 1 .. Steps(op)
    PROVE  /\ at \in DOMAIN Writes(op)
           /\ Writes(op)[at] \in Write
           /\ Writes(op)[at].field \in Field
           /\ \A i \in DOMAIN Writes(op) \ {at} :
                 Writes(op)[i].field \in Field \ {Writes(op)[at].field}
<1>1. /\ at \in DOMAIN Writes(op)
      /\ \A i \in DOMAIN Writes(op) : Writes(op)[i] \in Write
  BY StepsType, WritesFacts
<1>2. \A v \in Write : v.field \in Field
  BY DEF Write
<1>. QED  BY <1>1, <1>2, WritesFacts

LEMMA FieldsFacts ==
    \A i, j \in 1 .. 10 : Fields[i] \in Field /\ (Fields[i] = Fields[j] => i = j)
<1>1. \A i \in 1 .. 10 : Fields[i] \in Field
  BY DEF Fields, Field
<1>. QED  BY <1>1 DEF Fields

\* Calling a method touches the record of the caller only.
LEMMA CallKeeps ==
    ASSUME CollectorInv, NEW t \in Thread, NEW op \in Op, Call(t, op)
    PROVE  CollectorInv'
<1>1. call' = [call EXCEPT ![t].op = op] /\ call[t] = NoCall
      /\ UNCHANGED <<enabled, lock, counters, seen, before>>
  BY DEF Call
<1>2. lock # t
  BY <1>1 DEF CollectorInv, CallsInv, NoCall
<1>3. CallsInv'
  <2>1. call' \in [Thread -> [op : Op, at : Nat, read : BOOLEAN, old : Nat, got : Counts]]
    BY <1>1 DEF CollectorInv, CallsInv
  <2>2. /\ call'[t].op = op /\ call'[t].at = 0 /\ ~ call'[t].read
        /\ \A u \in Thread \ {t} : call'[u] = call[u]
    BY <1>1 DEF CollectorInv, CallsInv, NoCall
  <2>. QED
    BY <1>1, <1>2, <2>1, <2>2, StepsType DEF CollectorInv, CallsInv, Working
<1>4. ASSUME NEW u \in Thread, lock = u PROVE HolderInv(u)'
  BY <1>1, <1>2, <1>4 DEF CollectorInv, CallsInv, HolderInv, Written
<1>. QED  BY <1>1, <1>3, <1>4 DEF CollectorInv

LEMMA AcquireKeeps ==
    ASSUME CollectorInv, NEW t \in Thread, AcquireLock(t)
    PROVE  CollectorInv'
<1>1. /\ call' = [call EXCEPT ![t].at = 1]
      /\ call[t].op \in Op \ {"none"} /\ call[t].at = 0 /\ ~ call[t].read
      /\ lock = Free /\ lock' = t /\ before' = counters
      /\ UNCHANGED <<counters, seen>>
  BY DEF AcquireLock, CollectorInv, CallsInv, Working
<1>2. CallsInv'
  <2>1. call' \in [Thread -> [op : Op, at : Nat, read : BOOLEAN, old : Nat, got : Counts]]
    BY <1>1 DEF CollectorInv, CallsInv
  <2>2. /\ call'[t].op = call[t].op /\ call'[t].at = 1 /\ ~ call'[t].read
        /\ \A u \in Thread \ {t} : call'[u] = call[u] /\ call[u].at = 0
    BY <1>1, CollectorAssumption DEF CollectorInv, CallsInv
  <2>. QED
    BY <1>1, <2>1, <2>2, StepsType DEF CollectorInv, CallsInv, Working
<1>3. HolderInv(t)'
  <2>1. call'[t].op = call[t].op /\ call'[t].at = 1 /\ ~ call'[t].read
    BY <1>1 DEF CollectorInv, CallsInv
  <2>2. ASSUME NEW i \in DOMAIN Writes(call[t].op) PROVE ~ i <= 0
    BY <1>1, <2>2, WritesFacts
  <2>3. Written(call[t].op, 0)'
    BY <1>1, <2>2 DEF Written
  <2>4. CASE call[t].op = "snapshot"
    BY <1>1, <2>1, <2>4 DEF HolderInv, Fields
  <2>5. CASE call[t].op # "snapshot"
    BY <2>1, <2>3, <2>5 DEF HolderInv
  <2>. QED  BY <2>4, <2>5
<1>. QED  BY <1>1, <1>2, <1>3 DEF CollectorInv

LEMMA ReadKeeps ==
    ASSUME CollectorInv, NEW t \in Thread, ReadCounter(t)
    PROVE  CollectorInv'
<1>. DEFINE op == call[t].op
            at == call[t].at
<1>1. /\ op \in Op /\ at \in 1 .. Steps(op) /\ lock = t
      /\ UNCHANGED <<lock, counters, seen, before>>
      /\ HolderInv(t)
      /\ \A u \in Thread \ {t} : call'[u] = call[u] /\ lock # u
  BY DEF ReadCounter, Working, CollectorInv, CallsInv
<1>2. CASE op = "snapshot"
  <2>1. /\ Fields[at] \in Field
        /\ call' = [call EXCEPT ![t].got[Fields[at]] = counters[Fields[at]], ![t].at = @ + 1]
    BY <1>1, <1>2, StepsType DEF ReadCounter, Field
  <2>2. /\ call'[t].op = op /\ call'[t].at = at + 1 /\ call'[t].read = call[t].read
        /\ call'[t].got = [call[t].got EXCEPT ![Fields[at]] = counters[Fields[at]]]
        /\ call' \in [Thread -> [op : Op, at : Nat, read : BOOLEAN, old : Nat, got : Counts]]
    BY <1>1, <2>1 DEF CollectorInv, CallsInv, Counts
  <2>3. CallsInv'
    BY <1>1, <1>2, <2>2, StepsType DEF CollectorInv, CallsInv, Working
  <2>4. ASSUME NEW i \in DOMAIN Fields, i < at + 1
        PROVE  call'[t].got[Fields[i]] = before'[Fields[i]]
    <3>1. i \in 1 .. 10 /\ at \in 1 .. 10 /\ call[t].got \in Counts
      BY <1>1, <1>2, StepsType DEF CollectorInv, CallsInv
    <3>2. CASE i = at
      BY <1>1, <1>2, <2>1, <2>2, <3>1, <3>2 DEF HolderInv, Counts
    <3>3. CASE i # at
      <4>1. call'[t].got[Fields[i]] = call[t].got[Fields[i]]
        BY <2>2, <3>1, <3>3, FieldsFacts DEF Counts
      <4>2. i < at
        BY <2>4, <3>1, <3>3
      <4>. QED  BY <1>1, <1>2, <4>1, <4>2, <3>1 DEF HolderInv
    <3>. QED  BY <3>2, <3>3
  <2>5. HolderInv(t)'
    BY <1>1, <1>2, <2>2, <2>4 DEF HolderInv
  <2>. QED  BY <1>1, <2>3, <2>5 DEF CollectorInv
<1>3. CASE op # "snapshot"
  <2>1. /\ at \in DOMAIN Writes(op)
        /\ Writes(op)[at].field \in Field
        /\ call' = [call EXCEPT ![t].old = counters[Writes(op)[at].field], ![t].read = TRUE]
    BY <1>1, <1>3, WriteAt DEF ReadCounter
  <2>2. /\ call'[t].op = op /\ call'[t].at = at /\ call'[t].read
        /\ call'[t].old = counters[Writes(op)[at].field]
        /\ call' \in [Thread -> [op : Op, at : Nat, read : BOOLEAN, old : Nat, got : Counts]]
    <3>1. PICK n \in Nat : n = counters[Writes(op)[at].field]
      BY <2>1 DEF CollectorInv, Counts
    <3>2. call' = [call EXCEPT ![t].old = n, ![t].read = TRUE]
      BY <2>1, <3>1
    <3>3. call \in [Thread -> [op : Op, at : Nat, read : BOOLEAN, old : Nat, got : Counts]]
      BY DEF CollectorInv, CallsInv
    <3>4. /\ call'[t].op = op /\ call'[t].at = at /\ call'[t].read /\ call'[t].old = n
          /\ call' \in [Thread -> [op : Op, at : Nat, read : BOOLEAN, old : Nat, got : Counts]]
      BY <3>2, <3>3
    <3>. QED  BY <3>1, <3>4
  <2>3. CallsInv'
    BY <1>1, <1>3, <2>2, StepsType DEF CollectorInv, CallsInv, Working
  <2>4. HolderInv(t)'
    BY <1>1, <1>3, <2>2 DEF HolderInv, Written
  <2>. QED  BY <1>1, <2>3, <2>4 DEF CollectorInv
<1>. QED  BY <1>2, <1>3

LEMMA WriteKeeps ==
    ASSUME CollectorInv, NEW t \in Thread, WriteCounter(t)
    PROVE  CollectorInv'
<1>. DEFINE op == call[t].op
            at == call[t].at
            w  == Writes(op)[at]
<1>1. /\ op \in Op \ {"snapshot"} /\ at \in 1 .. Steps(op) /\ lock = t /\ call[t].read
      /\ UNCHANGED <<lock, seen, before>>
      /\ HolderInv(t)
      /\ \A u \in Thread \ {t} : call'[u] = call[u] /\ lock # u
  BY DEF WriteCounter, Working, CollectorInv, CallsInv
<1>2. /\ at \in DOMAIN Writes(op) /\ w \in Write
      /\ counters' = [counters EXCEPT ![w.field] = w.keep * call[t].old + w.by]
      /\ call[t].old = before[w.field]
  <2>1. at \in DOMAIN Writes(op) /\ w \in Write
    BY <1>1, WriteAt
  <2>2. counters' = [counters EXCEPT ![w.field] = w.keep * call[t].old + w.by]
    BY <1>1 DEF WriteCounter
  <2>3. ~ (at <= at - 1)
    BY <1>1, StepsType
  <2>4. call[t].old = before[w.field]
    BY <1>1, <2>1, <2>3 DEF HolderInv, Written
  <2>. QED  BY <2>1, <2>2, <2>4
<1>3. w.field \in Field /\ w.keep * before[w.field] + w.by \in Nat
  <2>1. w.keep \in {0, 1} /\ w.by \in Nat /\ w.field \in Field
    BY <1>2 DEF Write
  <2>2. before[w.field] \in Nat
    BY <2>1 DEF CollectorInv, Counts
  <2>3. CASE w.keep = 0  BY <2>1, <2>2, <2>3
  <2>4. CASE w.keep = 1  BY <2>1, <2>2, <2>4
  <2>. QED  BY <2>1, <2>3, <2>4
<1>4. /\ counters' \in Counts
      /\ counters'[w.field] = w.keep * before[w.field] + w.by
      /\ \A f \in Field \ {w.field} : counters'[f] = counters[f]
  BY <1>2, <1>3 DEF CollectorInv, Counts
<1>5. /\ call'[t].op = op /\ call'[t].at = at + 1 /\ ~ call'[t].read
      /\ call' \in [Thread -> [op : Op, at : Nat, read : BOOLEAN, old : Nat, got : Counts]]
  BY <1>1 DEF WriteCounter, CollectorInv, CallsInv
<1>6. CallsInv'
  BY <1>1, <1>5, StepsType DEF CollectorInv, CallsInv, Working
<1>7. ASSUME NEW i \in DOMAIN Writes(op)
      PROVE  LET v == Writes(op)[i] IN
             counters'[v.field] = IF i <= at THEN v.keep * before[v.field] + v.by
                                  ELSE before[v.field]
  <2>1. CASE i = at  BY <1>1, <1>4, <2>1
  <2>2. CASE i # at
    <3>1. Writes(op)[i].field \in Field \ {w.field}
      BY <1>1, <2>2, WriteAt
    <3>2. i \in Nat /\ at \in Nat /\ (i <= at <=> i <= at - 1)
      BY <1>1, <2>2, WritesFacts
    <3>. QED  BY <1>1, <1>4, <3>1, <3>2 DEF HolderInv, Written
  <2>. QED  BY <2>1, <2>2
<1>8. ASSUME NEW f \in Field, \A i \in DOMAIN Writes(op) : Writes(op)[i].field # f
      PROVE  counters'[f] = before[f]
  BY <1>1, <1>2, <1>4, <1>8 DEF HolderInv, Written
<1>9. HolderInv(t)'
  <2>1. call'[t].at - 1 = at
    BY <1>1, <1>5, StepsType
  <2>. QED  BY <1>1, <1>5, <1>7, <1>8, <2>1 DEF HolderInv, Written
<1>. QED  BY <1>1, <1>4, <1>6, <1>9 DEF CollectorInv

\* The thread that gives up the lock has finished its method.
LEMMA ReleaseKeeps ==
    ASSUME CollectorInv, NEW t \in Thread, ReleaseLock(t)
    PROVE  /\ CollectorInv'
           /\ Whole!Update \/ Whole!Snapshot
<1>. DEFINE op == call[t].op
            at == call[t].at
<1>1. /\ op \in Op \ {"none"} /\ at = Steps(op) + 1 /\ lock = t /\ t # Free
      /\ Steps(op) \in Nat /\ ~ call[t].read
      /\ lock' = Free /\ UNCHANGED <<counters, before>>
      /\ HolderInv(t)
      /\ call' = [call EXCEPT ![t] = NoCall]
      /\ \A u \in Thread \ {t} : lock # u
  BY StepsType, CollectorAssumption DEF ReleaseLock, Working, CollectorInv, CallsInv
<1>2. CallsInv'
  <2>1. NoCall \in [op : Op, at : Nat, read : BOOLEAN, old : Nat, got : Counts]
    BY DEF NoCall, Op, Zero, Counts
  <2>2. /\ call'[t] = NoCall
        /\ \A u \in Thread \ {t} : call'[u] = call[u]
        /\ call' \in [Thread -> [op : Op, at : Nat, read : BOOLEAN, old : Nat, got : Counts]]
    BY <1>1, <2>1 DEF CollectorInv, CallsInv
  <2>3. Steps("none") = 0
    BY DEF Steps, Writes
  <2>. QED
    BY <1>1, <2>2, <2>3, CollectorAssumption DEF CollectorInv, CallsInv, Working, NoCall
<1>3. CASE op = "snapshot"
  <2>1. seen' = call[t].got /\ call[t].got \in Counts /\ counters = before
    BY <1>1, <1>3 DEF ReleaseLock, CollectorInv, CallsInv, HolderInv
  <2>2. ASSUME NEW f \in Field PROVE seen'[f] = before[f]
    <3>1. PICK i \in 1 .. 10 : f = Fields[i]
      BY StepsType, <1>1 DEF Field
    <3>. QED  BY <1>1, <1>3, <2>1, <3>1, StepsType DEF HolderInv
  <2>3. seen' = before
    BY <2>1, <2>2 DEF Counts, CollectorInv
  <2>. QED
    BY <1>1, <1>2, <2>1, <2>3, CollectorAssumption DEF CollectorInv, Whole!Snapshot
<1>4. CASE op # "snapshot"
  <2>1. seen' = seen
    BY <1>4 DEF ReleaseLock
  <2>2. op \in Recorded \cup {"reset"}
    BY <1>1, <1>4 DEF Op
  <2>3. Written(op, Len(Writes(op)))
    BY <1>1, <1>4, StepsType DEF HolderInv
  <2>. DEFINE c == [f \in Field |->
                 LET ws == {i \in DOMAIN Writes(op) : Writes(op)[i].field = f}
                 IN IF ws = {} THEN before[f]
                    ELSE LET w == Writes(op)[CHOOSE i \in ws : TRUE]
                         IN w.keep * before[f] + w.by]
  <2>4. ASSUME NEW f \in Field PROVE counters[f] = c[f]
    <3>. DEFINE ws == {i \in DOMAIN Writes(op) : Writes(op)[i].field = f}
    <3>1. CASE ws = {}
      BY <2>3, <3>1 DEF Written
    <3>2. CASE ws # {}
      <4>1. PICK i \in ws : i = CHOOSE j \in ws : TRUE
        BY <3>2
      <4>2. i \in DOMAIN Writes(op) /\ i <= Len(Writes(op)) /\ Writes(op)[i].field = f
        BY <4>1, <1>1, WritesFacts
      <4>3. counters[f] = Writes(op)[i].keep * before[f] + Writes(op)[i].by
        BY <2>3, <4>2 DEF Written
      <4>. QED  BY <3>2, <4>1, <4>3
    <3>. QED  BY <3>1, <3>2
  <2>5. counters = c
    BY <2>4 DEF CollectorInv, Counts
  <2>6. counters \in Changed(before)
    BY <2>2, <2>5 DEF Changed
  <2>. QED
    BY <1>1, <1>2, <2>1, <2>6, CollectorAssumption DEF CollectorInv, Whole!Update
<1>. QED  BY <1>3, <1>4

\* Every step of a thread is a step of Counters, or none.
LEMMA CollectorStep ==
    ASSUME CollectorInv, [MetricsNext]_metricsVars
    PROVE  /\ CollectorInv'
           /\ [Whole!Next]_<<IF lock = Free THEN counters ELSE before, seen>>
<1>. DEFINE tally == IF lock = Free THEN counters ELSE before
<1>1. ASSUME NEW t \in Thread, NEW op \in Op, Call(t, op)
      PROVE  CollectorInv' /\ UNCHANGED <<tally, seen>>
  BY <1>1, CallKeeps DEF Call
<1>2. ASSUME NEW t \in Thread, AcquireLock(t)
      PROVE  CollectorInv' /\ UNCHANGED <<tally, seen>>
  BY <1>2, AcquireKeeps, CollectorAssumption DEF AcquireLock
<1>3. ASSUME NEW t \in Thread, ReadCounter(t)
      PROVE  CollectorInv' /\ UNCHANGED <<tally, seen>>
  BY <1>3, ReadKeeps DEF ReadCounter
<1>4. ASSUME NEW t \in Thread, WriteCounter(t)
      PROVE  CollectorInv' /\ UNCHANGED <<tally, seen>>
  <2>1. lock = t
    BY <1>4 DEF WriteCounter, Working, CollectorInv, CallsInv
  <2>. QED  BY <1>4, <2>1, WriteKeeps, CollectorAssumption DEF WriteCounter
<1>5. ASSUME UNCHANGED collectorVars
      PROVE  CollectorInv' /\ UNCHANGED <<tally, seen>>
  BY <1>5 DEF collectorVars, CollectorInv, CallsInv, HolderInv, Written, Working
<1>6. ASSUME NEW r \in Reporter,
             \/ Start(r) \/ Ends(r)
             \/ Reported(r) \/ ReportRaises(r) \/ Handled(r) \/ HandlerRaises(r)
      PROVE  CollectorInv' /\ UNCHANGED <<tally, seen>>
  BY <1>5, <1>6 DEF Start, Ends, Reported, ReportRaises, Handled, HandlerRaises, collectorVars
<1>7. ASSUME NEW r \in Reporter, Wake(r)
      PROVE  CollectorInv' /\ UNCHANGED <<tally, seen>>
  BY <1>1, <1>7, ReporterAssumption DEF Wake, Op
<1>8. CASE Stop \/ Joined \/ UNCHANGED metricsVars
  BY <1>5, <1>8 DEF Stop, Joined, metricsVars
<1>9. ASSUME NEW t \in Thread, Uses(t)
      PROVE  CollectorInv' /\ UNCHANGED <<tally, seen>>
  BY <1>1, <1>9 DEF Uses, Op
<1>10. ASSUME NEW t \in Thread, Locks(t)
       PROVE  CollectorInv' /\ UNCHANGED <<tally, seen>>
  BY <1>2, <1>10 DEF Locks
<1>11. ASSUME NEW t \in Thread, Moves(t)
       PROVE  CollectorInv' /\ [Whole!Next]_<<tally, seen>>
  BY <1>3, <1>4, <1>11, ReleaseKeeps DEF Moves, InsideLock, Whole!Next
<1>. QED
  BY <1>6, <1>7, <1>8, <1>9, <1>10, <1>11 DEF MetricsNext

\* Whatever the threads do, the collector is a set of counters that are
\* updated and read in one piece.
THEOREM SnapshotsWhole == MetricsSpec => SnapshotsAreWhole
<1>1. MetricsInit => CollectorInv /\ Whole!Init
  BY CollectorStart DEF MetricsInit, CollectorInit, Whole!Init
<1>2. CollectorInv /\ [MetricsNext]_metricsVars => CollectorInv'
  BY CollectorStep
<1>3. CollectorInv /\ [MetricsNext]_metricsVars =>
        [Whole!Next]_<<IF lock = Free THEN counters ELSE before, seen>>
  BY CollectorStep
<1>. QED
  BY <1>1, <1>2, <1>3, PTL DEF MetricsSpec, SnapshotsAreWhole, Whole!Spec

LEMMA EnabledStays == MetricsSpec => [](enabled \in BOOLEAN)
<1>1. MetricsInit => enabled \in BOOLEAN
  BY DEF MetricsInit, CollectorInit
<1>2. enabled \in BOOLEAN /\ [MetricsNext]_metricsVars => (enabled \in BOOLEAN)'
  BY DEF MetricsNext, metricsVars, Start, Wake, Ends, Reported, ReportRaises, Handled,
         HandlerRaises, Stop, Joined, Uses, Locks, Moves, InsideLock, collectorVars, Call, AcquireLock, ReadCounter, WriteCounter,
         ReleaseLock
<1>. QED  BY <1>1, <1>2, PTL DEF MetricsSpec

LEMMA FlagsStep ==
    (stopEvent \in BOOLEAN /\ joining \in BOOLEAN /\ thread \in Reporter \cup {NoThread})
      /\ [MetricsNext]_metricsVars
    => (stopEvent \in BOOLEAN /\ joining \in BOOLEAN /\ thread \in Reporter \cup {NoThread})'
  BY DEF MetricsNext, metricsVars, reporterVars, Start, Wake, Ends, Reported, ReportRaises,
         Handled, HandlerRaises, Stop, Joined, Uses, Locks, Moves

\* The lock, the counters and the calls of all threads stay well typed, and
\* no call is inside the lock while another holds it.
THEOREM MetricsTypes == MetricsSpec => []MetricsTypeOK
<1>1. MetricsInit => stopEvent \in BOOLEAN /\ joining \in BOOLEAN /\ thread \in Reporter \cup {NoThread}
  BY DEF MetricsInit
<1>2. MetricsInit => CollectorInv
  BY CollectorStart DEF MetricsInit
<1>3. CollectorInv /\ [MetricsNext]_metricsVars => CollectorInv'
  BY CollectorStep
<1>4. CollectorInv /\ ReporterInv /\ enabled \in BOOLEAN
        /\ (stopEvent \in BOOLEAN /\ joining \in BOOLEAN /\ thread \in Reporter \cup {NoThread})
      => MetricsTypeOK
  BY DEF CollectorInv, CallsInv, ReporterInv, MetricsTypeOK, CollectorTypeOK, Counts, Op
<1>. QED
  BY <1>1, <1>2, <1>3, <1>4, EnabledStays, FlagsStep, ReporterAlways, PTL DEF MetricsSpec
=============================================================================
