----------------------------- MODULE MCWaiting -----------------------------
(***************************************************************************)
(* Small instances of what notices an append: the dirty queue behind the   *)
(* subscriptions (DirtyQueue) and the multiplexed hints for readers that   *)
(* wait (Notify).  They share no state; a behaviour is one of one of them, *)
(* and the other rests.                                                    *)
(***************************************************************************)
EXTENDS DirtyQueue, TLC

CONSTANTS p1, p2, p3, w1, w2

VARIABLE part   \* "queue" or "hints"

-----------------------------------------------------------------------------
(* The queue, two entries for three streams: without the periodic sweep,   *)
(* with and without a failing command, and with one of a stream at a time. *)

MCIds == <<p1, p2, p3>>
MCModes == {[floor |-> FALSE, window |-> 0, appends |-> 5, errors |-> 0],
            [floor |-> FALSE, window |-> 0, appends |-> 3, errors |-> 1],
            [floor |-> TRUE, window |-> 1, appends |-> 3, errors |-> 0]}

queueVars == vars

-----------------------------------------------------------------------------
(* The hints.                                                              *)

VARIABLES streams, actor, conn, commands, waiters, budget

hintVars == <<streams, actor, conn, commands, waiters, budget>>

Waiters == {w1, w2}
Streams == {p1, p2}

Waits(appends, closes, lives, waits, cancels, breaks, drops, failures, reopens, shutdowns) ==
    [appends |-> appends, closes |-> closes, lives |-> lives, waits |-> waits,
     cancels |-> cancels, breaks |-> breaks, drops |-> drops, failures |-> failures,
     reopens |-> reopens, shutdowns |-> shutdowns]

\* Each behaviour spends one of these: cancellations and re-registrations;
\* reconnects; streams that end or are replaced; lost hints and failures.
WaitBudgets == {Waits(1, 0, 0, 3, 1, 0, 0, 0, 0, 0),
              Waits(1, 0, 0, 2, 0, 1, 0, 1, 0, 0),
              Waits(0, 1, 0, 2, 0, 2, 0, 0, 0, 0),
              Waits(0, 0, 2, 2, 0, 0, 0, 0, 0, 0),
              Waits(1, 0, 0, 2, 0, 0, 1, 0, 0, 0),
              Waits(1, 0, 0, 2, 0, 0, 0, 0, 1, 0),
              Waits(0, 0, 0, 2, 1, 0, 0, 0, 0, 1)}

Hints == INSTANCE Notify WITH Paths <- Streams, Budgets <- WaitBudgets

-----------------------------------------------------------------------------
(* One part at a time.                                                     *)

QueueRests == Init /\ mode = CHOOSE m \in Modes : TRUE
HintsRest == Hints!Init /\ budget = CHOOSE b \in WaitBudgets : TRUE

SumInit ==
    \/ part = "queue" /\ Init /\ HintsRest
    \/ part = "hints" /\ QueueRests /\ Hints!Init

Queue == part = "queue" /\ UNCHANGED <<part, hintVars>>
Hint == part = "hints" /\ UNCHANGED <<part, queueVars>>

SumNext ==
    \/ \E p \in Paths : Queue /\ OnStreamAppend(p)
    \/ Queue /\ Notified
    \/ Queue /\ Tick
    \/ Queue /\ ReadTails
    \/ Queue /\ Arm
    \/ Queue /\ Fail
    \/ Queue /\ Requested
    \/ Queue /\ Floor
    \/ Queue /\ SweepRead
    \/ Queue /\ SweepFail
    \/ Queue /\ Stop
    \/ \E failing \in SUBSET Paths : Queue /\ SweepArm(failing)
    \/ Hint /\ Hints!ServerStep
    \/ Hint /\ Hints!Break
    \/ Hint /\ Hints!Dial
    \/ Hint /\ Hints!Drop
    \/ Hint /\ Hints!TakeAdd
    \/ Hint /\ Hints!TakeRemove
    \/ Hint /\ Hints!Handle
    \/ Hint /\ Hints!Reopen
    \/ Hint /\ Hints!Shutdown
    \/ \E p \in Streams : Hint /\ Hints!AppendMessage(p)
    \/ \E p \in Streams : Hint /\ Hints!CloseStream(p)
    \/ \E p \in Streams : Hint /\ Hints!DeleteOrCreate(p)
    \/ \E w \in Waiters, p \in Streams, now \in BOOLEAN : Hint /\ Hints!Begin(w, p, now)
    \/ \E w \in Waiters : Hint /\ Hints!ReadyPage(w)
    \/ \E w \in Waiters : Hint /\ Hints!NotReady(w)
    \/ \E w \in Waiters : Hint /\ Hints!Hinted(w)
    \/ \E w \in Waiters : Hint /\ Hints!Poll(w)
    \/ \E w \in Waiters : Hint /\ Hints!Cancel(w)
    \/ \E w \in Waiters : Hint /\ Hints!Ended(w)
    \/ \E w \in Waiters : Hint /\ Hints!Closed(w)

sumVars == <<part, queueVars, hintVars>>

\* What a reader's goroutine does by itself.
Advance(w) ==
    \/ Hints!ReadyPage(w) \/ Hints!NotReady(w) \/ Hints!Hinted(w)
    \/ Hints!Poll(w) \/ Hints!Ended(w) \/ Hints!Closed(w)

\* DirtyQueue!Fairness and Notify!Fairness: a behaviour is of one part only, so
\* one condition may stand for one of each.
SumFairness ==
    /\ WF_sumVars((Queue /\ Tick) \/ (Hint /\ (Hints!ServerStep \/ Hints!Dial)))
    /\ WF_sumVars(\/ Queue /\ (ReadTails \/ Arm)
                  \/ Hint /\ (Hints!TakeAdd \/ Hints!TakeRemove \/ Hints!Handle))
    /\ WF_sumVars((Queue /\ Requested) \/ (Hint /\ Advance(w1)))
    /\ WF_sumVars((Queue /\ (SweepRead \/ SweepArm({}))) \/ (Hint /\ Advance(w2)))
    /\ SF_sumVars(Queue /\ Floor)

SumSpec == SumInit /\ [][SumNext]_sumVars /\ SumFairness

-----------------------------------------------------------------------------
(* Properties of the parts.                                                *)

\* Notify!NobodySleepsOverData: no reader sleeps on data once every hint has arrived.
NobodySleepsOverData == Hints!NobodySleepsOverData

\* Notify!NobodyIsLeftWaiting: every reader that is owed an answer gets one.
NobodyIsLeftWaiting == Hints!NobodyIsLeftWaiting

=============================================================================
