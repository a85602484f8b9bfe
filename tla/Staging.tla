------------------------------ MODULE Staging ------------------------------
(***************************************************************************)
(* The pinned staging slots of transfer/reusable_staging.py and the CUDA   *)
(* transfer stream they are copied over, as operators on values.           *)
(*                                                                         *)
(* A pool is the sequence of the slots created so far (dict _slots, slot   *)
(* s at index s), each a record of                                         *)
(*   in_use       set by acquire, cleared by release;                      *)
(*   ready_event  whether the slot has an event left by                    *)
(*                mark_transfer_complete;                                  *)
(*   holds        the expert whose tensors are in the pinned buffers.      *)
(*                                                                         *)
(* The stream is external: a first-in first-out sequence of operations the *)
(* GPU still has to do.  A "copy" reads the slot when the GPU reaches it,  *)
(* not when it is enqueued; an "event" has completed once the GPU is past  *)
(* it, so an event is done exactly when it is no longer in the sequence.   *)
(***************************************************************************)
EXTENDS SequencesExt

CONSTANTS
    Expert,     \* the keys (layer_id, expert_id)
    PoolSlots,  \* slots that fit the pinned budget: budget_bytes \div slot size
    NoExpert    \* content of a buffer that holds no complete expert

Slot == [in_use      : BOOLEAN,
         ready_event : BOOLEAN,
         holds       : Expert \cup {NoExpert}]

\* An operation: a copy out of slot into the GPU state of handle (NoExpert
\* when no handle keeps that state), the event of a handle, or the
\* ready_event of a slot.
Copy(s, k)     == [op |-> "copy",  slot |-> s, handle |-> k]
HandleEvent(k) == [op |-> "event", slot |-> 0, handle |-> k]
SlotEvent(s)   == [op |-> "event", slot |-> s, handle |-> NoExpert]

StreamOp ==
    [op : {"copy", "event"}, slot : 0 .. PoolSlots, handle : Expert \cup {NoExpert}]

\* event.query()
Done(stream, event) == ~ Contains(stream, event)

-----------------------------------------------------------------------------
NewSlot == [in_use |-> TRUE, ready_event |-> FALSE, holds |-> NoExpert]

\* Mutant: acquire looks at the event of a slot only.
ReusableInUse(pool, stream, s) ==
    pool[s].ready_event => Done(stream, SlotEvent(s))

\* A slot acquire may hand out: not in use, and past its last transfer.
Reusable(pool, stream, s) ==
    /\ ~ pool[s].in_use
    /\ pool[s].ready_event => Done(stream, SlotEvent(s))

ReusableSlots(pool, stream) == {s \in DOMAIN pool : Reusable(pool, stream, s)}

\* Mutant: the pinned budget is not asked.
ExhaustedNever(pool, stream) == FALSE

\* acquire returns None: nothing to reuse and no budget for another slot.
Exhausted(pool, stream) ==
    /\ ReusableSlots(pool, stream) = {}
    /\ Len(pool) >= PoolSlots

\* The slot acquire returns: the first reusable one, else a new one.
AcquiredSlot(pool, stream) ==
    IF ReusableSlots(pool, stream) # {}
    THEN Min(ReusableSlots(pool, stream))
    ELSE Len(pool) + 1

\* The pool after an acquire that returned a slot.
Acquire(pool, stream) ==
    IF ReusableSlots(pool, stream) # {}
    THEN [pool EXCEPT ![AcquiredSlot(pool, stream)].in_use = TRUE,
                      ![AcquiredSlot(pool, stream)].ready_event = FALSE]
    ELSE Append(pool, NewSlot)

\* Mutant: release forgets to free the slot.
ReleaseNothing(pool, s) == pool

Release(pool, s) == [pool EXCEPT ![s].in_use = FALSE]

\* stage_expert copies into the buffers the slot already has, so one that
\* fails half way leaves a mixture behind.
Stage(pool, s, content) == [pool EXCEPT ![s].holds = content]

\* mark_transfer_complete: the event is recorded behind everything pending.
MarkEvent(pool, s) == [pool EXCEPT ![s].ready_event = TRUE]
=============================================================================
