------------------------- MODULE MetricsCollector -------------------------
(***************************************************************************)
(* MetricsCollector of metrics/collector.py, shared by threads.  A record  *)
(* and a reset change several counters one after the other, each by a read *)
(* and a write, and a snapshot reads them one by one; a lock is held       *)
(* meanwhile.  A list of samples is represented by its length.             *)
(***************************************************************************)
EXTENDS Integers, Sequences

CONSTANTS
    Thread,
    Free,           \* the lock when no thread holds it
    Recorded,       \* the record_* methods that are called
    Bytes,          \* bytes of a transfer
    MaxCount        \* bound on what a counter counts

Fields == <<"hits", "misses", "evictions", "transfers", "bytes",
            "ttft", "tps", "gbps", "gpu_slots", "cpu_slots">>

Field == {Fields[i] : i \in DOMAIN Fields}

ASSUME CollectorAssumption ==
    /\ Free \notin Thread
    /\ Recorded \subseteq {"hit", "miss", "eviction", "transfer", "ttft", "tps", "slots"}
    /\ Bytes \in Nat
    /\ MaxCount \in Nat

VARIABLES
    enabled,
    lock,       \* _lock: the thread that holds it
    counters,
    call,       \* the method each thread is in, and how far it is
    seen,       \* the last snapshot that was returned
    before      \* auxiliary: the counters when the lock was last taken

collectorVars == <<enabled, lock, counters, call, seen, before>>

Zero == [f \in Field |-> 0]

\* A write of one counter: its old value is kept or not, and by is added.
Add(f, by) == [field |-> f, keep |-> 1, by |-> by]
Put(f, by) == [field |-> f, keep |-> 0, by |-> by]

\* The writes of each method, in order.
Writes(op) ==
    CASE op = "hit"      -> <<Add("hits", 1)>>
      [] op = "miss"     -> <<Add("misses", 1)>>
      [] op = "eviction" -> <<Add("evictions", 1)>>
      [] op = "transfer" -> <<Add("transfers", 1), Add("bytes", Bytes), Put("gbps", Bytes)>>
      [] op = "ttft"     -> <<Add("ttft", 1)>>
      [] op = "tps"      -> <<Add("tps", 1)>>
      [] op = "slots"    -> <<Put("gpu_slots", 1), Put("cpu_slots", 2)>>
      [] op = "reset"    -> [i \in DOMAIN Fields |-> Put(Fields[i], 0)]
      [] OTHER           -> << >>

\* No call, or a call that is at step at of its reads or writes: at is 0
\* while it waits for the lock.  old is the value it read last, got what its
\* snapshot has so far.
NoCall == [op |-> "none", at |-> 0, read |-> FALSE, old |-> 0, got |-> Zero]

Steps(op) == IF op = "snapshot" THEN Len(Fields) ELSE Len(Writes(op))

CollectorTypeOK ==
    /\ enabled \in BOOLEAN
    /\ lock \in Thread \cup {Free}
    /\ counters \in [Field -> Nat]
    /\ seen \in [Field -> Nat]
    /\ before \in [Field -> Nat]
    /\ \A t \in Thread :
            /\ call[t].op \in Recorded \cup {"none", "snapshot", "reset"}
            /\ call[t].at > 0 => lock = t

-----------------------------------------------------------------------------
CollectorInit ==
    /\ enabled \in BOOLEAN
    /\ lock = Free
    /\ counters = Zero
    /\ call = [t \in Thread |-> NoCall]
    /\ seen = Zero
    /\ before = Zero

\* Calls are recorded while no counter has reached the bound of the model.
InBounds ==
    \A f \in {"hits", "misses", "evictions", "transfers", "ttft", "tps"} :
        counters[f] < MaxCount

\* A method is called; the records do nothing unless enabled, which they
\* look at before they take the lock.
Call(t, op) ==
    /\ call[t] = NoCall
    /\ op \in Recorded => enabled /\ InBounds
    /\ call' = [call EXCEPT ![t].op = op]
    /\ UNCHANGED <<enabled, lock, counters, seen, before>>

\* Mutant: the lock is not waited for.
AcquireAnyway(t) ==
    /\ call[t].op # "none"
    /\ call[t].at = 0
    /\ lock' = t
    /\ before' = IF lock = Free THEN counters ELSE before
    /\ call' = [call EXCEPT ![t].at = 1]
    /\ UNCHANGED <<enabled, counters, seen>>

AcquireLock(t) ==
    /\ call[t].op # "none"
    /\ call[t].at = 0
    /\ lock = Free
    /\ lock' = t
    /\ before' = counters
    /\ call' = [call EXCEPT ![t].at = 1]
    /\ UNCHANGED <<enabled, counters, seen>>

Working(t) == call[t].at \in 1 .. Steps(call[t].op)

ReadCounter(t) ==
    /\ Working(t)
    /\ ~ call[t].read
    /\ IF call[t].op = "snapshot"
       THEN LET f == Fields[call[t].at] IN
            call' = [call EXCEPT ![t].got[f] = counters[f], ![t].at = @ + 1]
       ELSE LET f == Writes(call[t].op)[call[t].at].field IN
            call' = [call EXCEPT ![t].old = counters[f], ![t].read = TRUE]
    /\ UNCHANGED <<enabled, lock, counters, seen, before>>

WriteCounter(t) ==
    /\ Working(t)
    /\ call[t].read
    /\ LET w == Writes(call[t].op)[call[t].at]
       IN counters' = [counters EXCEPT ![w.field] = w.keep * call[t].old + w.by]
    /\ call' = [call EXCEPT ![t].at = @ + 1, ![t].read = FALSE, ![t].old = 0]
    /\ UNCHANGED <<enabled, lock, seen, before>>

\* The lock is released and the method returns.
ReleaseLock(t) ==
    /\ call[t].at > Steps(call[t].op)
    /\ lock' = Free
    /\ seen' = IF call[t].op = "snapshot" THEN call[t].got ELSE seen
    /\ call' = [call EXCEPT ![t] = NoCall]
    /\ UNCHANGED <<enabled, counters, before>>

InsideLock(t) == ReadCounter(t) \/ WriteCounter(t) \/ ReleaseLock(t)

-----------------------------------------------------------------------------
(***************************************************************************)
(* Properties                                                              *)
(***************************************************************************)

\* What one whole method makes of the counters.
Changed(c) ==
    {[f \in Field |->
        LET ws == {i \in DOMAIN Writes(op) : Writes(op)[i].field = f}
        IN IF ws = {} THEN c[f]
           ELSE LET w == Writes(op)[CHOOSE i \in ws : TRUE] IN w.keep * c[f] + w.by] :
     op \in Recorded \cup {"reset"}}

Whole == INSTANCE Counters WITH
    Change  <- Changed,
    tally   <- IF lock = Free THEN counters ELSE before

\* The collector implements Counters: whatever the threads do, a snapshot
\* shows the counters of one moment, bytes and transfers together, and no
\* update is lost (collector.py:1-8).
SnapshotsAreWhole == Whole!Spec
=============================================================================
