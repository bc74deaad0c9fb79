---------------------------- MODULE DirtyQueue ----------------------------
(***************************************************************************)
(* From a committed append to the wake of its subscribers inside one       *)
(* process (webhook/dirty_queue.go and the loops of webhook/manager.go     *)
(* around it): a bounded queue of dirty streams, the worker that drains    *)
(* it, and the recovery sweep that covers what did not fit.                *)
(*                                                                         *)
(* The queue is only a hint, and the periodic sweep would find every owed  *)
(* wake in the end.  What the queue itself promises is more: as long as    *)
(* the process lives, no append goes unnoticed until that floor.  So the   *)
(* floor is a parameter of a behaviour (`mode`): without it only the       *)
(* sweeps the queue asks for count.                                        *)
(*                                                                         *)
(* A stream stands for itself and its one subscription: `tail` is its end, *)
(* `seen` the end some fan-out or sweep has compared the cursor with.      *)
(* `excused` remembers the streams a sweep did not look after although it  *)
(* counted as successful: outside its window, or the wake failed to arm.   *)
(***************************************************************************)
EXTENDS Naturals, FiniteSets, Sequences, SequencesExt, Functions

CONSTANTS
    Paths,          \* streams with a subscription each
    Ids,            \* their subscriptions in the order of the ids: a sequence of Paths
    Modes,          \* floor: does the periodic sweep tick; window: sweepBatch, 0 for
                    \* no bound; appends, errors: bounds on their numbers
    Capacity,       \* dirtyQueueCapacity
    BatchSize       \* dirtyBatchSize

ASSUME QueueAssumption == /\ Capacity \in Nat \ {0}
                          /\ BatchSize \in Nat \ {0}
                          /\ \A m \in Modes : /\ m.floor \in BOOLEAN
                                              /\ {m.window, m.appends, m.errors} \subseteq Nat
                          /\ Ids \in Seq(Paths) /\ ToSet(Ids) = Paths

VARIABLES
    tail, seen,     \* per stream
    entry,          \* the queue's entries: "none", "queued" or "processing"
    again,          \* streams appended to while processing (dirtyAgain)
    ready,          \* the ring of queued streams
    overflow,       \* the overflow epoch: phase and dirtyAgain
    notify,         \* dirtyNotify holds a token
    request,        \* reconcileC holds a request
    worker,         \* the dirty worker: the batch in hand and how far it is
    sweep,          \* the recovery loop: its phase, its snapshot of the tails
    cursor,         \* sweepCursor
    mode,           \* one of Modes, fixed in Init
    excused,        \* history, see above
    stopped,        \* Stop was called
    errors

vars == <<tail, seen, entry, again, ready, overflow, notify, request, worker,
          sweep, cursor, mode, excused, stopped, errors>>

queue == <<entry, again, ready, overflow>>
sweeper == <<sweep, cursor, mode, excused>>

Phases == {"idle", "pending", "reconciling"}
NoSnapshot == [p \in Paths |-> 0]
Resting == [at |-> "rest", covering |-> FALSE, window |-> {}, tails |-> NoSnapshot]

Entries == {p \in Paths : entry[p] # "none"}

TypeOK ==
    /\ tail \in [Paths -> 0 .. mode.appends] /\ seen \in [Paths -> 0 .. mode.appends]
    /\ entry \in [Paths -> {"none", "queued", "processing"}]
    /\ again \subseteq Paths
    /\ ready \in Seq(Paths)
    /\ overflow.phase \in Phases /\ overflow.again \in BOOLEAN
    /\ notify \in BOOLEAN /\ request \in BOOLEAN /\ stopped \in BOOLEAN
    /\ worker.batch \in Seq(Paths) /\ worker.at \in {"rest", "read", "arm"}
    /\ worker.retrying \in BOOLEAN /\ worker.failed \in BOOLEAN
    /\ sweep.at \in {"rest", "read", "arm"} /\ cursor \in 0 .. Len(Ids) - 1
    /\ mode \in Modes /\ excused \subseteq Paths
    /\ errors \in 0 .. mode.errors

Init ==
    /\ tail = [p \in Paths |-> 0] /\ seen = [p \in Paths |-> 0]
    /\ entry = [p \in Paths |-> "none"] /\ again = {} /\ ready = <<>>
    /\ overflow = [phase |-> "idle", again |-> FALSE]
    /\ notify = FALSE /\ request = FALSE /\ stopped = FALSE
    /\ worker = [batch |-> <<>>, at |-> "rest", read |-> 0, retrying |-> FALSE, failed |-> FALSE]
    /\ sweep = Resting /\ cursor = 0 /\ excused = {}
    /\ mode \in Modes
    /\ errors = 0

Larger(a, b) == IF a > b THEN a ELSE b

-----------------------------------------------------------------------------
(* The queue: enqueue, noteOverflow.                                       *)

\* noteOverflow: the epoch opens, or is marked for a second sweep.
NoteOverflow ==
    overflow' = IF overflow.phase = "reconciling" THEN [overflow EXCEPT !.again = TRUE]
                ELSE [overflow EXCEPT !.phase = "pending"]

Enqueue(p) ==
    \/ entry[p] = "queued" /\ UNCHANGED <<queue, notify>>
    \/ /\ entry[p] = "processing"
       /\ again' = again \cup {p}
       /\ UNCHANGED <<entry, ready, overflow, notify>>
    \/ /\ entry[p] = "none" /\ Cardinality(Entries) < Capacity
       /\ entry' = [entry EXCEPT ![p] = "queued"]
       /\ ready' = Append(ready, p)
       /\ notify' = TRUE
       /\ UNCHANGED <<again, overflow>>
    \/ /\ entry[p] = "none" /\ Cardinality(Entries) = Capacity
       /\ NoteOverflow
       /\ notify' = (notify \/ overflow.phase = "idle")   \* coalesced: no signal
       /\ UNCHANGED <<entry, again, ready>>

\* OnStreamAppend: after the durable append.  Stop ends the loops first and
\* closes the queue a moment later.
OnStreamAppend(p) ==
    /\ FoldFunction(+, 0, tail) < mode.appends
    /\ tail' = [tail EXCEPT ![p] = @ + 1]
    /\ \/ stopped /\ UNCHANGED <<queue, notify>>
       \/ Enqueue(p)
    /\ UNCHANGED <<seen, request, worker, sweeper, stopped, errors>>

-----------------------------------------------------------------------------
(* The dirty worker: take, processDirtyStream, complete.                   *)

\* A batch: the first BatchSize queued streams become processing.
Take ==
    LET n == IF Len(ready) < BatchSize THEN Len(ready) ELSE BatchSize
        batch == SubSeq(ready, 1, n)
    IN /\ entry' = [p \in Paths |-> IF p \in ToSet(batch) THEN "processing" ELSE entry[p]]
       /\ ready' = SubSeq(ready, n + 1, Len(ready))
       /\ worker' = [worker EXCEPT !.batch = batch, !.read = 0, !.failed = FALSE,
                                   !.at = IF n = 0 THEN "rest" ELSE "read",
                                   !.retrying = @ /\ n # 0]

\* Mutant: a pending overflow is left to the sweeps that come anyway.
NobodyAsks == FALSE

\* dirtyOverflowPending: after a batch, an overflow that no sweep has taken up
\* asks for one.
OverflowAsks == overflow.phase = "pending"

RequestAfterNothing == request' = (request \/ (ready = <<>> /\ OverflowAsks))

\* A token: ignored while retrying, else it starts a batch.
Notified ==
    /\ notify /\ worker.at = "rest" /\ ~stopped
    /\ notify' = FALSE
    /\ \/ worker.retrying /\ UNCHANGED <<entry, ready, worker, request>>
       \/ ~worker.retrying /\ Take /\ RequestAfterNothing
    /\ UNCHANGED <<tail, seen, again, overflow, sweeper, stopped, errors>>

\* The worker's ticker always starts a batch.
Tick ==
    /\ worker.at = "rest" /\ ~stopped
    /\ Take /\ RequestAfterNothing
    /\ UNCHANGED <<tail, seen, again, overflow, notify, sweeper, stopped, errors>>

\* processDirtyStream reads the subscribers and then the tails.
ReadTails ==
    /\ worker.at = "read"
    /\ worker' = [worker EXCEPT !.at = "arm", !.read = tail[Head(worker.batch)]]
    /\ UNCHANGED <<tail, seen, queue, notify, request, sweeper, stopped, errors>>

Complete(p, retry) ==
    IF retry \/ p \in again
    THEN /\ entry' = [entry EXCEPT ![p] = "queued"]
         /\ ready' = Append(ready, p)
         /\ again' = again \ {p}
    ELSE /\ entry' = [entry EXCEPT ![p] = "none"]
         /\ UNCHANGED <<ready, again>>

\* The next stream of the batch, or the end of it: more ready streams signal
\* the worker itself unless something failed; the loop then looks at overflow.
AfterOne(failed) ==
    LET rest == Tail(worker.batch)
        bad == worker.failed \/ failed
    IN IF rest # <<>>
       THEN /\ worker' = [worker EXCEPT !.batch = rest, !.at = "read", !.failed = bad]
            /\ UNCHANGED notify
            /\ request' = (request \/ failed)
       ELSE /\ worker' = [worker EXCEPT !.batch = rest, !.at = "rest", !.failed = FALSE,
                                        !.retrying = bad]
            /\ notify' = (notify \/ (~bad /\ ready' # <<>>))
            /\ request' = (request \/ failed \/ OverflowAsks)

\* The wakes are armed, and the stream is done with.
Arm ==
    /\ worker.at = "arm"
    /\ LET p == Head(worker.batch)
       IN /\ seen' = [seen EXCEPT ![p] = Larger(@, worker.read)]
          /\ Complete(p, FALSE)
    /\ AfterOne(FALSE)
    /\ UNCHANGED <<tail, overflow, sweeper, stopped, errors>>

\* A read or an arm failed: the stream goes back to the tail of the queue and
\* an eager sweep is asked for.
Fail ==
    /\ worker.at \in {"read", "arm"}
    /\ errors < mode.errors /\ errors' = errors + 1
    /\ Complete(Head(worker.batch), TRUE)
    /\ AfterOne(TRUE)
    /\ UNCHANGED <<tail, seen, overflow, sweeper, stopped>>

-----------------------------------------------------------------------------
(* The recovery loop: reconcile, sweepOnce.                                *)

\* sweepWindow: the ids of this sweep and the cursor of the next, when a bound
\* is set and there are more ids than it.
Window ==
    LET n == Len(Ids)
        first == IF cursor >= n THEN 0 ELSE cursor
        bounded == mode.window # 0 /\ n > mode.window
    IN [ids |-> IF bounded THEN {Ids[((first + k) % n) + 1] : k \in 0 .. mode.window - 1}
                           ELSE Paths,
        next |-> IF bounded THEN (first + mode.window) % n ELSE 0]

\* beginReconcile: every sweep takes up a pending overflow epoch.
Begin ==
    /\ overflow' = IF overflow.phase = "pending" THEN [overflow EXCEPT !.phase = "reconciling"]
                                                 ELSE overflow
    /\ sweep' = [Resting EXCEPT !.at = "read", !.covering = overflow.phase = "pending"]
    /\ UNCHANGED <<tail, seen, entry, again, ready, notify, worker, cursor, mode, excused,
                   stopped, errors>>

\* A requested sweep, or the periodic floor.
Requested ==
    /\ sweep.at = "rest" /\ request /\ ~stopped
    /\ request' = FALSE
    /\ Begin

Floor ==
    /\ sweep.at = "rest" /\ mode.floor /\ ~stopped
    /\ Begin
    /\ UNCHANGED request

\* The ids of the window, their subscriptions, and the tails they link to.
SweepRead ==
    /\ sweep.at = "read"
    /\ sweep' = [sweep EXCEPT !.at = "arm", !.tails = tail, !.window = Window.ids]
    /\ cursor' = Window.next
    /\ UNCHANGED <<tail, seen, queue, notify, request, worker, mode, excused, stopped, errors>>

\* completeReconcile: success closes the epoch unless something overflowed
\* meanwhile; failure leaves it to the worker's next tick.
CompleteReconcile(success) ==
    IF ~success
    THEN /\ overflow' = [phase |-> "pending", again |-> FALSE]
         /\ UNCHANGED request
    ELSE /\ overflow' = [phase |-> IF overflow.again THEN "pending" ELSE "idle",
                         again |-> FALSE]
         /\ request' = (request \/ overflow.again)

EndSweep(success) ==
    /\ sweep' = Resting
    /\ IF sweep.covering THEN CompleteReconcile(success) ELSE UNCHANGED <<overflow, request>>
    /\ UNCHANGED <<tail, entry, again, ready, notify, worker, mode, stopped>>

\* Pending idle subscriptions of the window are woken.  A wake that fails to
\* arm is logged and passed over: the sweep has succeeded all the same.
SweepArm(failing) ==
    /\ sweep.at = "arm"
    /\ errors + Cardinality(failing) <= mode.errors
    /\ errors' = errors + Cardinality(failing)
    /\ failing \subseteq sweep.window
    /\ seen' = [p \in Paths |-> IF p \in sweep.window \ failing
                                THEN Larger(seen[p], sweep.tails[p]) ELSE seen[p]]
    /\ excused' = {p \in excused : seen'[p] < tail[p]}
                  \cup IF sweep.covering
                       THEN {p \in Paths \ (sweep.window \ failing) : seen'[p] < tail[p]}
                       ELSE {}
    /\ EndSweep(TRUE)
    /\ UNCHANGED cursor

\* A failed read of the list, the subscriptions or the tails ends the sweep.
SweepFail ==
    /\ sweep.at = "read"
    /\ errors < mode.errors /\ errors' = errors + 1
    /\ cursor' \in {cursor, Window.next}
    /\ EndSweep(FALSE)
    /\ UNCHANGED <<seen, excused>>

\* Stop: hints are refused from now on; the loops finish what they hold.
Stop ==
    /\ ~stopped
    /\ stopped' = TRUE
    /\ UNCHANGED <<tail, seen, queue, notify, request, worker, sweeper, errors>>

-----------------------------------------------------------------------------
Next ==
    \/ \E p \in Paths : OnStreamAppend(p)
    \/ Notified \/ Tick \/ ReadTails \/ Arm \/ Fail
    \/ Requested \/ Floor \/ SweepRead \/ SweepFail
    \/ \E failing \in SUBSET Paths : SweepArm(failing)
    \/ Stop

\* The worker's ticker fires and its batches go on; a requested sweep is taken
\* up and goes on; the floor, where it exists, keeps coming.
Fairness ==
    /\ WF_vars(Tick) /\ WF_vars(ReadTails \/ Arm)
    /\ WF_vars(Requested) /\ WF_vars(SweepRead \/ SweepArm({})) /\ SF_vars(Floor)

Spec == Init /\ [][Next]_vars /\ Fairness

-----------------------------------------------------------------------------
\* The ring and the map agree: the ring holds every queued stream once, the
\* batch in hand is what is processing, an append is remembered only against a
\* stream in processing, and the bound holds (the panics of dirty_queue.go).
RingIsExact ==
    /\ ToSet(ready) = {p \in Paths : entry[p] = "queued"}
    /\ \A i, j \in DOMAIN ready : ready[i] = ready[j] => i = j
    /\ ToSet(worker.batch) = {p \in Paths : entry[p] = "processing"}
    /\ again \subseteq ToSet(worker.batch)
    /\ Cardinality(Entries) <= Capacity

\* An append that no fan-out and no sweep has looked at is still in somebody's
\* hands: its stream is queued, or being processed with its end still to be
\* read or read late enough, or an overflow epoch that has not been closed
\* stands for it; unless the sweep that closed the epoch passed it over.
NoAppendIsForgotten ==
    \A p \in Paths : seen[p] < tail[p] /\ ~stopped =>
        \/ entry[p] = "queued"
        \/ p \in again
        \/ /\ entry[p] = "processing"
           /\ \/ Head(worker.batch) # p \/ worker.at = "read"
              \/ worker.read = tail[p]
        \/ overflow.phase # "idle"
        \/ p \in excused

\* While a sweep covers an overflow epoch, an append its snapshot is too old
\* for has either been queued or marked the epoch for a second sweep.
SnapshotIsFreshOrMarked ==
    \A p \in sweep.window :
        overflow.phase = "reconciling" /\ sweep.at = "arm" /\ sweep.tails[p] < tail[p]
            => entry[p] # "none" \/ overflow.again \/ seen[p] = tail[p] \/ stopped

\* Every append is noticed without waiting for the periodic floor, as long as
\* the process is not stopped, by the queue, its retries and the overflow
\* sweeps together; what a sweep passed over is noticed by the floor, however
\* small the window it rolls.
EveryAppendIsNoticed ==
    \A p \in Paths :
        []<>(seen[p] = tail[p] \/ stopped \/ (~mode.floor /\ p \in excused))

\* PLAN.md: a successful full recovery sweep closes the overflow epoch.  The
\* code also closes it after a sweep of one window, and after one in which
\* wakes failed to arm, and leaves the overflowed append to the floor.
ClosedEpochIsCovered ==
    [][(overflow.phase = "reconciling" /\ overflow'.phase = "idle") =>
           \A p \in Paths : entry[p] = "none" /\ ~stopped => seen'[p] = tail[p]]_vars
=============================================================================
