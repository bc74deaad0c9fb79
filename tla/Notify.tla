------------------------------ MODULE Notify ------------------------------
(***************************************************************************)
(* Waiting for data: long-poll readers (handler.go handleRead,             *)
(* handler_stream.go waitForRegisteredPage, store/redis/notify.go          *)
(* WaitForPage) that sleep on hints published over Redis Pub/Sub, and one  *)
(* actor of the notification multiplexer (store/redis/notify_mux.go) that  *)
(* shares a single connection between all of them.                        *)
(*                                                                         *)
(* A hint is only a reason to read again.  The question is whether a       *)
(* reader can go to sleep over data no hint will tell it about, and        *)
(* whether the defensive poll makes that harmless.                         *)
(*                                                                         *)
(* The connection is the part that is not in the repository.  What the     *)
(* multiplexer sends (SUBSCRIBE, UNSUBSCRIBE) travels in order on `wire`;  *)
(* what Redis answers (acknowledgements carrying the number of channels    *)
(* the connection is subscribed to, and published messages) travels in     *)
(* order in `inbox`; go-redis reconnects by itself and subscribes again    *)
(* to all the channels it knows in one command.                            *)
(***************************************************************************)
EXTENDS Naturals, FiniteSets, Sequences, SequencesExt

CONSTANTS
    Paths,      \* the streams whose channels one actor serves
    Waiters,    \* the readers
    Budgets     \* what may happen in a behaviour: see Spend

VARIABLES
    streams,    \* path -> the stream: its tail, whether it is closed, and
                \* how many times it was created or deleted (odd: it exists)
    actor,      \* the actor's own state
    conn,       \* its Pub/Sub connection, both ends
    commands,   \* the actor's command channel
    waiters,    \* reader -> its request and its registration
    budget

vars == <<streams, actor, conn, commands, waiters, budget>>

Spend(kind) == budget[kind] > 0 /\ budget' = [budget EXCEPT ![kind] = @ - 1]

Unset == 0

NoEntry == [regs |-> {}, acked |-> FALSE]

Idle == [at |-> "idle", path |-> CHOOSE p \in Paths : TRUE, now |-> FALSE,
         off |-> Unset, life |-> Unset, ready |-> "no", signal |-> FALSE,
         closed |-> FALSE, doubt |-> FALSE]

ClosedConn == [chans |-> {}, subs |-> {}, up |-> FALSE, wire |-> <<>>, inbox |-> <<>>]

\* A channel is desired while it has a registration: an entry of the actor's
\* map is deleted with its last one.
Desired == {p \in Paths : actor.desired[p].regs # {}}

Exists(p) == streams[p].life % 2 = 1

TypeOK ==
    /\ \A p \in Paths : /\ streams[p].tail \in Nat /\ streams[p].life \in Nat
                        /\ streams[p].closed \in BOOLEAN
                        /\ actor.desired[p].regs \subseteq Waiters
                        /\ actor.desired[p].regs = {} => ~actor.desired[p].acked
    /\ actor.count \in 0 .. Cardinality(Paths)
    /\ actor.open \in BOOLEAN /\ actor.down \in BOOLEAN
    /\ actor.open => Desired # {} \/ \A p \in Paths : p \notin conn.subs
    /\ conn.chans \subseteq Paths /\ conn.subs \subseteq Paths
    /\ conn.up \in BOOLEAN
    /\ \A w \in Waiters :
         /\ waiters[w].at \in {"idle", "adding", "waiting", "closing"}
         /\ waiters[w].path \in Paths
         /\ waiters[w].ready \in {"no", "ok", "err"}
         /\ waiters[w].at = "waiting" => waiters[w].ready # "no"

Init ==
    /\ streams = [p \in Paths |-> [tail |-> 1, closed |-> FALSE, life |-> 1]]
    /\ actor = [desired |-> [p \in Paths |-> NoEntry], count |-> 0,
                open |-> FALSE, down |-> FALSE]
    /\ conn = ClosedConn
    /\ commands = <<>>
    /\ waiters = [w \in Waiters |-> Idle]
    /\ budget \in Budgets

-----------------------------------------------------------------------------
(* Redis and go-redis (external): the two ends of the connection.          *)

Ack(p, n) == [kind |-> "subscribe", channel |-> p, count |-> n]
Unack(p, n) == [kind |-> "unsubscribe", channel |-> p, count |-> n]
Hint(p) == [kind |-> "message", channel |-> p, count |-> 0]

\* Redis takes the next command of the connection.
ServerStep ==
    /\ conn.up /\ conn.wire # <<>>
    /\ LET c == Head(conn.wire)
           subs == IF c.op = "subscribe" THEN conn.subs \cup {c.channel}
                                         ELSE conn.subs \ {c.channel}
           n == Cardinality(subs)
       IN conn' = [conn EXCEPT
            !.wire = Tail(@), !.subs = subs,
            !.inbox = Append(@, IF c.op = "subscribe" THEN Ack(c.channel, n)
                                                      ELSE Unack(c.channel, n))]
    /\ UNCHANGED <<streams, actor, commands, waiters, budget>>

\* The connection is lost: what was on its way to Redis is gone, and of what
\* was on its way back only a prefix has arrived.
Break ==
    /\ conn.up
    /\ Spend("breaks")
    /\ \E n \in 0 .. Len(conn.inbox) :
         conn' = [conn EXCEPT !.up = FALSE, !.subs = {}, !.wire = <<>>,
                              !.inbox = SubSeq(@, 1, n)]
    /\ UNCHANGED <<streams, actor, commands, waiters>>

\* go-redis dials, and subscribes to every channel it knows of, in some
\* order, with one command.
Dial ==
    /\ actor.open /\ ~conn.up
    /\ \E order \in SetToSeqs(conn.chans) :
         conn' = [conn EXCEPT
           !.up = TRUE, !.subs = conn.chans,
           !.inbox = @ \o [i \in DOMAIN order |-> Ack(order[i], i)]]
    /\ UNCHANGED <<streams, actor, commands, waiters, budget>>

\* What PUBLISH does to this connection.
Published(p) == IF conn.up /\ p \in conn.subs
                THEN [conn EXCEPT !.inbox = Append(@, Hint(p))] ELSE conn

\* History: ready readers for which a hint may be gone without a later one.
Doubt(ws, rs) ==
    [w \in Waiters |-> IF w \in rs /\ ws[w].ready = "ok"
                       THEN [ws[w] EXCEPT !.doubt = TRUE] ELSE ws[w]]

\* The item at the head of a full buffer waits a second and is dropped.
Drop ==
    /\ \E i \in DOMAIN conn.inbox :
         /\ conn.inbox[i].kind = "message"
         /\ conn' = [conn EXCEPT !.inbox = RemoveAt(@, i)]
         /\ waiters' = Doubt(waiters, actor.desired[conn.inbox[i].channel].regs)
    /\ Spend("drops")
    /\ UNCHANGED <<streams, actor, commands>>

-----------------------------------------------------------------------------
(* The streams, as far as a waiting reader sees them.                      *)

AppendMessage(p) ==
    /\ Exists(p) /\ ~streams[p].closed
    /\ Spend("appends")
    /\ streams' = [streams EXCEPT ![p].tail = @ + 1]
    /\ conn' = Published(p)
    /\ UNCHANGED <<actor, commands, waiters>>

CloseStream(p) ==
    /\ Exists(p) /\ ~streams[p].closed
    /\ Spend("closes")
    /\ streams' = [streams EXCEPT ![p].closed = TRUE]
    /\ conn' = Published(p)
    /\ UNCHANGED <<actor, commands, waiters>>

\* A delete publishes; a creation without initial messages does not.
DeleteOrCreate(p) ==
    /\ Spend("lives")
    /\ streams' = [streams EXCEPT ![p] = [tail |-> 1, closed |-> FALSE, life |-> @.life + 1]]
    /\ conn' = IF Exists(p) THEN Published(p) ELSE conn
    /\ UNCHANGED <<actor, commands, waiters>>

-----------------------------------------------------------------------------
(* The actor.                                                              *)

MarkReady(ws, rs, r) ==
    [w \in Waiters |-> IF w \in rs /\ ws[w].ready = "no"
                       THEN [ws[w] EXCEPT !.ready = r] ELSE ws[w]]

MarkClosed(ws, rs) ==
    [w \in Waiters |-> IF w \in rs THEN [ws[w] EXCEPT !.closed = TRUE] ELSE ws[w]]

\* A hint for a registration: a burst leaves one signal.
NotifyAll(ws, rs) ==
    [w \in Waiters |-> IF w \in rs THEN [ws[w] EXCEPT !.signal = TRUE] ELSE ws[w]]

Registered == UNION {actor.desired[p].regs : p \in Paths}

\* A generation is what is acknowledged since the connection was last known
\* to be new; it begins with no channel acknowledged.
NewGeneration(desired) == [p \in Paths |-> [desired[p] EXCEPT !.acked = FALSE]]

\* openPhysical: dialled in the background with the given channels.
Opened(chans) == [ClosedConn EXCEPT !.chans = chans]

AddFrom(c) ==
    LET w == c.waiter
        p == waiters[w].path
        entry == actor.desired[p]
        added == [actor.desired EXCEPT ![p].regs = @ \cup {w}]
    IN
    \/ /\ actor.open /\ entry.acked
       /\ actor' = [actor EXCEPT !.desired = added]
       /\ waiters' = MarkReady(waiters, {w}, "ok")
       /\ UNCHANGED <<conn, budget>>
    \/ /\ ~actor.open
       /\ actor' = [actor EXCEPT !.desired = NewGeneration(added), !.count = 0, !.open = TRUE]
       /\ conn' = Opened({p})
       /\ UNCHANGED <<waiters, budget>>
    \/ /\ actor.open /\ entry.regs # {} /\ ~entry.acked
       /\ actor' = [actor EXCEPT !.desired = added]
       /\ UNCHANGED <<conn, waiters, budget>>
    \/ /\ actor.open /\ entry.regs = {}
       /\ actor' = [actor EXCEPT !.desired = added]
       /\ conn' = [conn EXCEPT !.chans = @ \cup {p},
                     !.wire = IF conn.up THEN Append(@, [op |-> "subscribe", channel |-> p])
                                         ELSE @]
       /\ UNCHANGED <<waiters, budget>>
    \/ /\ actor.open /\ entry.regs = {} /\ ~conn.up   \* pubsub.Subscribe fails
       /\ Spend("failures")
       /\ waiters' = MarkClosed(MarkReady(waiters, {w}, "err"), {w})
       /\ UNCHANGED <<actor, conn>>

TakeAdd ==
    /\ ~actor.down /\ commands # <<>> /\ Head(commands).op = "add"
    /\ AddFrom(Head(commands))
    /\ commands' = Tail(commands)
    /\ UNCHANGED streams

\* The last registration of a channel takes the channel with it, the last
\* channel takes the connection.
RemoveFrom(c) ==
    LET w == c.waiter
        p == waiters[w].path
        left == actor.desired[p].regs \ {w}
        removed == [actor.desired EXCEPT ![p] = IF left = {} THEN NoEntry
                                                ELSE [@ EXCEPT !.regs = left]]
        last == left = {} /\ actor.desired[p].regs # {}
        empty == last /\ \A q \in Paths : removed[q].regs = {}
    IN /\ actor' = [actor EXCEPT !.desired = removed,
                      !.open = @ /\ ~empty, !.count = IF empty THEN 0 ELSE @]
       /\ conn' = CASE empty -> ClosedConn
                    [] last /\ ~empty ->
                         [conn EXCEPT !.chans = @ \ {p},
                            !.wire = IF conn.up
                                     THEN Append(@, [op |-> "unsubscribe", channel |-> p])
                                     ELSE @]
                    [] OTHER -> conn
       /\ waiters' = MarkClosed(waiters, {w})

TakeRemove ==
    /\ ~actor.down /\ commands # <<>> /\ Head(commands).op = "remove"
    /\ RemoveFrom(Head(commands))
    /\ commands' = Tail(commands)
    /\ UNCHANGED <<streams, budget>>

\* beginReconnectGeneration, when an acknowledgement counts no more channels
\* than the last one did.
RestartsCount(item) == actor.count > 0 /\ item.count <= actor.count

\* acknowledge, after a possible change of generation.  `early` is history:
\* the acknowledgement makes registrations ready while the SUBSCRIBE sent for
\* them has not reached Redis.
HandleSubscribe(item) ==
    LET p == item.channel
        fresh == RestartsCount(item)
        base == IF fresh THEN NewGeneration(actor.desired) ELSE actor.desired
        first == base[p].regs # {} /\ ~base[p].acked
        rs == IF first THEN base[p].regs ELSE {}
        early == [op |-> "subscribe", channel |-> p] \in ToSet(conn.wire)
        woken == IF fresh THEN NotifyAll(waiters, Registered) ELSE waiters
    IN /\ actor' = [actor EXCEPT !.count = item.count,
                      !.desired = IF first THEN [base EXCEPT ![p].acked = TRUE] ELSE base]
       /\ waiters' = Doubt(MarkReady(woken, rs, "ok"), IF early THEN rs ELSE {})

HandleUnsubscribe(item) ==
    /\ actor' = [actor EXCEPT !.count = item.count]
    /\ UNCHANGED waiters

HandleMessage(item) ==
    /\ waiters' = NotifyAll(waiters, actor.desired[item.channel].regs)
    /\ UNCHANGED actor

Handle ==
    /\ ~actor.down /\ actor.open /\ conn.inbox # <<>>
    /\ LET item == Head(conn.inbox)
       IN \/ item.kind = "subscribe" /\ HandleSubscribe(item)
          \/ item.kind = "unsubscribe" /\ HandleUnsubscribe(item)
          \/ item.kind = "message" /\ HandleMessage(item)
    /\ conn' = [conn EXCEPT !.inbox = Tail(@)]
    /\ UNCHANGED <<streams, commands, budget>>

\* The events channel is closed: the actor opens a new connection with every
\* desired channel and wakes everybody at once, before it is subscribed.
Reopen ==
    /\ ~actor.down /\ actor.open
    /\ Spend("reopens")
    /\ actor' = [actor EXCEPT !.desired = NewGeneration(@), !.count = 0,
                              !.open = Desired # {}]
    /\ conn' = IF Desired = {} THEN ClosedConn ELSE Opened(Desired)
    /\ waiters' = Doubt(NotifyAll(waiters, Registered), Registered)
    /\ UNCHANGED <<streams, commands>>

\* The multiplexer is closed: the actor ends every registration it holds and
\* leaves what is in its command channel.
Shutdown ==
    /\ ~actor.down
    /\ Spend("shutdowns")
    /\ waiters' = MarkClosed(MarkReady(waiters, Registered, "err"), Registered)
    /\ actor' = [actor EXCEPT !.down = TRUE, !.desired = [p \in Paths |-> NoEntry],
                              !.count = 0, !.open = FALSE]
    /\ conn' = ClosedConn
    /\ UNCHANGED <<streams, commands>>

-----------------------------------------------------------------------------
(* The readers.                                                            *)

\* A page ends the wait: there is data, the stream is closed at the reader's
\* offset, or it is not the stream the wait began on.
Done(r) == \/ streams[r.path].life # r.life
           \/ streams[r.path].tail > r.off
           \/ streams[r.path].closed

\* handleRead up to the wait, for a reader at the tail; with offset=now the
\* registration comes first and the page after it.
Begin(w, p, now) ==
    /\ waiters[w].at = "idle" /\ ~actor.down
    /\ Exists(p) /\ ~streams[p].closed
    /\ Spend("waits")
    /\ waiters' = [waiters EXCEPT ![w] =
         [Idle EXCEPT !.at = "adding", !.path = p, !.now = now,
                      !.off = IF now THEN Unset ELSE streams[p].tail,
                      !.life = IF now THEN Unset ELSE streams[p].life]]
    /\ commands' = Append(commands, [op |-> "add", waiter |-> w])
    /\ UNCHANGED <<streams, actor, conn>>

\* Close: the remove command is sent, or the actor is gone and the
\* registration is closed on the spot.
CloseFrom(w) ==
    \/ /\ waiters' = [waiters EXCEPT ![w].at = "closing", ![w].signal = FALSE]
       /\ commands' = Append(commands, [op |-> "remove", waiter |-> w])
    \/ /\ actor.down
       /\ waiters' = [waiters EXCEPT ![w].at = "closing", ![w].signal = FALSE,
                                     ![w].closed = TRUE]
       /\ UNCHANGED commands

\* Mutant: no second read after the registration.
ReadyUnchecked(w) ==
    /\ waiters[w].at = "adding" /\ waiters[w].ready = "ok"
    /\ LET r == waiters[w]
           s == streams[r.path]
       IN waiters' = [waiters EXCEPT ![w].at = "waiting",
                                     ![w].off = IF r.now THEN s.tail ELSE @,
                                     ![w].life = IF r.now THEN s.life ELSE @]
    /\ UNCHANGED <<streams, actor, conn, commands, budget>>

\* The registration is ready: a reader at the tail reads again before it
\* sleeps, a reader of offset=now reads its first page.
ReadyPage(w) ==
    /\ waiters[w].at = "adding" /\ waiters[w].ready = "ok"
    /\ LET r == waiters[w]
           s == streams[r.path]
           gone == IF r.now THEN ~Exists(r.path) \/ s.closed ELSE Done(r)
       IN \/ gone /\ CloseFrom(w)
          \/ /\ ~gone
             /\ waiters' = [waiters EXCEPT ![w].at = "waiting", ![w].off = s.tail,
                                           ![w].life = s.life]
             /\ UNCHANGED commands
    /\ UNCHANGED <<streams, actor, conn, budget>>

\* The registration failed, or the multiplexer was closed under it.
NotReady(w) ==
    /\ waiters[w].at = "adding"
    /\ \/ waiters[w].ready = "err" /\ CloseFrom(w)
       \/ /\ actor.down
          /\ waiters' = [waiters EXCEPT ![w] = Idle]
          /\ UNCHANGED commands
    /\ UNCHANGED <<streams, actor, conn, budget>>

\* A hint or a second of waiting: read again, and go on or answer.
RecheckFrom(w) ==
    \/ Done(waiters[w]) /\ CloseFrom(w)
    \/ /\ ~Done(waiters[w])
       /\ waiters' = [waiters EXCEPT ![w].signal = FALSE]
       /\ UNCHANGED commands

Hinted(w) ==
    /\ waiters[w].at = "waiting" /\ waiters[w].signal
    /\ RecheckFrom(w)
    /\ UNCHANGED <<streams, actor, conn, budget>>

\* Mutant: no defensive poll.
PollNever(w) ==
    /\ waiters[w].at = "waiting" /\ ~waiters[w].signal /\ ~Done(waiters[w])
    /\ UNCHANGED vars

Poll(w) ==
    /\ waiters[w].at = "waiting" /\ ~waiters[w].signal
    /\ RecheckFrom(w)
    /\ UNCHANGED <<streams, actor, conn, budget>>

\* The request is cancelled or its time is up, before or after the
\* registration is ready; or the wait was ended under it.
Cancel(w) ==
    /\ waiters[w].at \in {"adding", "waiting"}
    /\ Spend("cancels")
    /\ CloseFrom(w)
    /\ UNCHANGED <<streams, actor, conn>>

Ended(w) ==
    /\ waiters[w].at = "waiting" /\ waiters[w].closed
    /\ CloseFrom(w)
    /\ UNCHANGED <<streams, actor, conn, budget>>

Closed(w) ==
    /\ waiters[w].at = "closing" /\ waiters[w].closed
    /\ waiters' = [waiters EXCEPT ![w] = Idle]
    /\ UNCHANGED <<streams, actor, conn, commands, budget>>

-----------------------------------------------------------------------------
Environment ==
    \/ ServerStep \/ Break \/ Dial \/ Drop
    \/ \E p \in Paths : AppendMessage(p) \/ CloseStream(p) \/ DeleteOrCreate(p)

Actor == TakeAdd \/ TakeRemove \/ Handle \/ Reopen \/ Shutdown

Reader(w) ==
    \/ \E p \in Paths, now \in BOOLEAN : Begin(w, p, now)
    \/ ReadyPage(w) \/ NotReady(w) \/ Hinted(w) \/ Poll(w)
    \/ Cancel(w) \/ Ended(w) \/ Closed(w)

Next == Environment \/ Actor \/ \E w \in Waiters : Reader(w)

\* Redis answers and go-redis keeps dialling; the actor's loop takes what is
\* in its channels; a reader's goroutine goes on, and its poll timer fires.
Fairness ==
    /\ WF_vars(ServerStep \/ Dial)
    /\ WF_vars(TakeAdd \/ TakeRemove \/ Handle)
    /\ \A w \in Waiters : WF_vars(\/ ReadyPage(w) \/ NotReady(w) \/ Hinted(w)
                                  \/ Poll(w) \/ Ended(w) \/ Closed(w))

Spec == Init /\ [][Next]_vars /\ Fairness

-----------------------------------------------------------------------------
Quiet == conn.up /\ conn.wire = <<>> /\ conn.inbox = <<>>

\* A reader that sleeps, when everything sent over the connection has arrived
\* and been handled, sleeps on a stream that has nothing for it: through
\* registrations, cancellations and reconnects, an append is either in the page
\* read after registration or signalled (WaitForPage's recheck, the reconnect
\* wake of beginReconnectGeneration).  Readers in doubt are left to the poll.
NobodySleepsOverData ==
    Quiet => \A w \in Waiters :
        LET r == waiters[w]
        IN r.at = "waiting" /\ ~r.signal /\ ~r.doubt /\ ~r.closed => ~Done(r)

\* When the connection is at rest, the actor's bookkeeping and Redis agree:
\* the channels Redis serves are the desired ones, each is acknowledged in the
\* current generation, the count is theirs and nobody waits to be ready
\* (handleSubscription infers a reconnect from the counts alone).
QuietAgreement ==
    Quiet /\ actor.open =>
        /\ conn.subs = Desired
        /\ actor.count = Cardinality(Desired)
        /\ \A p \in Desired : /\ actor.desired[p].acked
                              /\ \A w \in actor.desired[p].regs : waiters[w].ready # "no"

\* A registration held by the actor belongs to a reader that will remove it:
\* no registration outlives its request (Register and Close on every path).
NoRegistrationLeaks ==
    \A p \in Paths : \A w \in actor.desired[p].regs :
        /\ waiters[w].path = p
        /\ \/ waiters[w].at \in {"adding", "waiting"}
           \/ /\ waiters[w].at = "closing"
              /\ [op |-> "remove", waiter |-> w] \in ToSet(commands)

\* A reader in Register or in Close, or asleep on a stream that has something
\* for it.
Owed(w) == \/ waiters[w].at \in {"adding", "closing"}
           \/ waiters[w].at = "waiting" /\ Done(waiters[w])

\* Close of a registration whose add command the stopping actor never took:
\* nobody closes its channel any more.
Abandoned(w) == actor.down /\ waiters[w].at = "closing" /\ ~waiters[w].closed

\* Nobody is left waiting: registrations are answered, Close returns, and
\* data, an end or a deletion is noticed whatever hints are lost (the poll of
\* WaitForPage and waitForRegisteredPage), while the multiplexer lives.
NobodyIsLeftWaiting == \A w \in Waiters : []<>(~Owed(w) \/ Abandoned(w))

\* What the design says of acknowledgements: none makes a registration ready
\* while its own SUBSCRIBE has not been taken by Redis.
StaleAckNeverReadies ==
    \A w \in Waiters : waiters[w].ready = "ok" =>
        [op |-> "subscribe", channel |-> waiters[w].path] \notin ToSet(conn.wire)
=============================================================================
