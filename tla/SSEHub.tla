------------------------------- MODULE SSEHub -------------------------------
(***************************************************************************)
(* Live reading with Server-Sent Events: the handler of each connected     *)
(* client and the hub it shares with the other clients of the stream on    *)
(* this replica.  A hub subscribes to the stream's notifications, reads    *)
(* new messages once for everyone and keeps the most recent ones in a      *)
(* replay ring; a client catches up by itself in pages of one snapshot,    *)
(* confirms that the path still names that stream, and attaches to the     *)
(* ring at the offset it has flushed.                                      *)
(*                                                                         *)
(* Message k of an incarnation lies between the offsets k - 1 and k, so an *)
(* offset is the number of messages before it.  A hub is gone as soon as   *)
(* its last lease is closed: it then left the registry, and what its       *)
(* cancelled goroutine still does nobody can see.  A page that was read is *)
(* published in the same step, since refreshMu keeps every other reader of *)
(* the hub away in between.                                                *)
(***************************************************************************)
EXTENDS Integers, Sequences, FiniteSets, SequencesExt

CONSTANTS Clients,      \* connections the replica serves at a time
          ReplayLimit,  \* messages the replay ring may hold
          BatchLimit,   \* messages one ring event may hold
          PageLimit,    \* messages one page may hold
          MaxLen,       \* bound on the messages of an incarnation
          Budgets       \* bounds on what happens to the stream and around it

VARIABLES stream,  \* what the store holds under the path
          reg,     \* the registry: the hub of the path, or none
          hubs,    \* the hubs that hold a lease
          conns,   \* the request handler of each client
          budget   \* what may still happen: appends, ends (the stream is closed
                   \* or deleted), re-creations, connections, and faults (lost
                   \* hints, lost subscriptions, read errors)

vars == <<stream, reg, hubs, conns, budget>>

-----------------------------------------------------------------------------
(* State *)

HubIds == 1 .. Cardinality(Clients)
None == 0
Now == -1
Loop == "loop"  \* the hub's own goroutine, as the holder of refreshMu
Free == "free"

NoSnap == [inc |-> 0, tail |-> 0, closed |-> FALSE]

\* read.lua on the path: what one page captures.
Snapshot == [inc |-> stream.inc, tail |-> stream.tail, closed |-> stream.closed]

\* newSSEHubEntry.  `missed' records that the hub may not have heard of a change
\* of the stream since its snapshot: a hint was lost, or the snapshot is older
\* than the subscription.
NewHub ==
    [pc |-> "subscribe", first |-> TRUE, registered |-> FALSE, ready |-> FALSE,
     inc |-> 0, current |-> 0, closed |-> FALSE, failed |-> FALSE,
     events |-> <<>>, firstSeq |-> 1, signal |-> FALSE, missed |-> FALSE,
     refresh |-> Free, snap |-> NoSnap, conf |-> Free, confInc |-> 0]
NoHub == [NewHub EXCEPT !.pc = "none"]

NextSeq(hub) == hub.firstSeq + Len(hub.events)
IsSubscribed(hub) == hub.pc \in {"init", "again", "wait", "refreshing"}

\* `broken' records that a frame did not continue the connection's stream where
\* the frame before it ended.
NoConn == [pc |-> "idle", hub |-> None, snap |-> NoSnap, off |-> 0, page |-> 0,
           seq |-> 0, skip |-> 0, wake |-> FALSE, ended |-> FALSE,
           broken |-> FALSE]

Leases(h) == {c \in Clients : conns[c].hub = h}
Idle(c) == conns[c].pc = "idle"
Connected(c) == conns[c].pc \in {"live", "asleep"}

\* A connection that is over; what it said of the end of the stream stays.
Closed(conn) ==
    IF conn.ended
    THEN [NoConn EXCEPT !.ended = TRUE, !.snap = conn.snap, !.off = conn.off]
    ELSE NoConn

Spend(what) ==
    /\ \A w \in what : budget[w] > 0
    /\ budget' = [w \in DOMAIN budget |-> IF w \in what THEN budget[w] - 1 ELSE budget[w]]

-----------------------------------------------------------------------------
(* Leases *)

\* lease.close: the last lease cancels the hub and takes it off the registry.
Release(c) ==
    LET h == conns[c].hub
        last == Leases(h) = {c}
    IN  /\ hubs' = [hubs EXCEPT ![h] =
                      IF last THEN NoHub
                      ELSE IF @.refresh = c
                           THEN [@ EXCEPT !.refresh = Free, !.snap = NoSnap] ELSE @]
        /\ reg' = IF last /\ reg = h THEN None ELSE reg

\* The handler returns: for an error, the end of the stream, a write that
\* failed, the reconnect timer or the client going away.
Leave(c, conn) ==
    /\ conns' = [conns EXCEPT ![c] = Closed(conn)]
    /\ Release(c)
    /\ UNCHANGED <<stream, budget>>

\* Where the handler looks at the request's context or its reconnect timer, or
\* may fail to write; reads made for the hub use the hub's context.
Disconnect(c) ==
    /\ conns[c].pc \in {"first", "ready", "catchup", "confirmJoin", "attach",
                        "live", "asleep"}
    /\ Leave(c, conns[c])

\* acquireSSEHubRegistration.
Connect(c) ==
    LET fresh == reg = None \/ hubs[reg].failed
        h == IF fresh THEN CHOOSE i \in HubIds : hubs[i].pc = "none" ELSE reg
    IN  /\ Idle(c) /\ Spend({"conns"})
        /\ hubs' = [hubs EXCEPT ![h] = IF fresh THEN NewHub ELSE @]
        /\ reg' = h
        /\ conns' = [conns EXCEPT ![c] = [NoConn EXCEPT
                        !.pc = "first", !.hub = h]]
        /\ UNCHANGED stream

\* The end of a page read at `from' under a snapshot's tail.
PageEnd(from, tail) == IF from + PageLimit < tail THEN from + PageLimit ELSE tail

\* waitRegistered, then the first page of handleRead, which captures the
\* snapshot: the subscription is acknowledged before.  An offset at or past the
\* tail, and "now", give an empty page at the tail.
FirstPage(c, from) ==
    LET conn == conns[c]
        at == IF from = Now \/ from > stream.tail THEN stream.tail ELSE from
    IN  /\ conn.pc = "first" /\ hubs[conn.hub].registered
        /\ IF ~stream.exists THEN Leave(c, conn)
           ELSE /\ conns' = [conns EXCEPT ![c] = [conn EXCEPT
                            !.pc = "bind", !.snap = Snapshot, !.off = at,
                            !.page = PageEnd(at, stream.tail)]]
                /\ UNCHANGED <<stream, reg, hubs, budget>>

\* initialize: the first snapshot makes the hub; a later one must be of the
\* same stream.
CanInitialize(hub, snap) == ~hub.failed /\ (hub.inc = 0 \/ hub.inc = snap.inc)

\* waitInitialized, then markReady: the goroutine goes on when it is both
\* registered and initialised, and stops at once on a closed stream.
MarkReady(hub) ==
    IF hub.pc # "init" \/ hub.inc = 0 THEN hub
    ELSE [hub EXCEPT !.first = FALSE, !.ready = TRUE,
                     !.pc = IF hub.closed THEN "stopped" ELSE "wait"]

Initialize(hub, snap) ==
    IF hub.inc # 0 THEN hub
    ELSE MarkReady([hub EXCEPT !.inc = snap.inc, !.current = snap.tail,
                               !.closed = snap.closed])

\* handleSSE binds its snapshot to the hub.
Bind(c) ==
    LET conn == conns[c]
    IN  /\ conn.pc = "bind" /\ CanInitialize(hubs[conn.hub], conn.snap)
        /\ hubs' = [hubs EXCEPT ![conn.hub] = Initialize(@, conn.snap)]
        /\ conns' = [conns EXCEPT ![c].pc = "ready"]
        /\ UNCHANGED <<stream, reg, budget>>

\* replaceSSEHubLease: the hub serves another stream or has failed.  The new
\* lease is of the registry's hub if that is another live one, and a hub that
\* cannot take the snapshot either is failed.
Replace(c) ==
    LET conn == conns[c]
        old == conn.hub
        last == Leases(old) = {c}
        gone == IF last THEN [hubs EXCEPT ![old] = NoHub] ELSE hubs
        entry == IF last /\ reg = old THEN None ELSE reg
        fresh == entry = None \/ entry = old \/ gone[entry].failed
        h == IF fresh THEN CHOOSE i \in HubIds : gone[i].pc = "none" ELSE entry
        hub == IF fresh THEN NewHub ELSE gone[h]
        ok == CanInitialize(hub, conn.snap)
    IN  /\ conn.pc = "bind" /\ ~CanInitialize(hubs[old], conn.snap)
        /\ hubs' = [gone EXCEPT ![h] = IF ok THEN [Initialize(hub, conn.snap) EXCEPT
                                                      !.missed = @ \/ hub.inc = 0]
                                       ELSE [hub EXCEPT !.failed = TRUE]]
        /\ reg' = h
        /\ conns' = [d \in Clients |->
                       IF d = c THEN [conn EXCEPT !.pc = "ready", !.hub = h]
                       ELSE IF ~ok /\ conns[d].hub = h
                            THEN [conns[d] EXCEPT !.wake = Connected(d)] ELSE conns[d]]
        /\ UNCHANGED <<stream, budget>>

\* validateSnapshot.
IsServedBy(snap, hub) == ~hub.failed /\ hub.inc = snap.inc

\* waitReady (a hub is registered before it is ready), and the snapshot must still be the hub's.
Ready(c) ==
    LET conn == conns[c]
    IN  /\ conn.pc = "ready" /\ hubs[conn.hub].ready
        /\ IF IsServedBy(conn.snap, hubs[conn.hub])
           THEN /\ conns' = [conns EXCEPT ![c].pc = "catchup"]
                /\ UNCHANGED <<stream, reg, hubs, budget>>
           ELSE Leave(c, conn)

-----------------------------------------------------------------------------
(* Catching up *)

\* A frame of messages from + 1 .. to of an incarnation, and its control event;
\* only when both are flushed does the offset move.
Write(conn, inc, from, to) ==
    [conn EXCEPT !.off = to, !.broken = @ \/ from # conn.off \/ inc # conn.snap.inc]

\* The catch-up loop: the page in hand is written and the next one of the same
\* snapshot is read.  An empty checkpoint is not sent when the hub is already
\* past it.
CatchUp(c) ==
    LET conn == conns[c]
        hub == hubs[conn.hub]
        upToDate == conn.page = conn.snap.tail
        skip == /\ conn.page = conn.off /\ ~conn.snap.closed
                /\ conn.off < hub.current \/ hub.closed
        sent == Write(conn, conn.snap.inc, conn.off, conn.page)
    IN  /\ conn.pc = "catchup"
        /\ IF ~IsServedBy(conn.snap, hub) THEN Leave(c, conn)
           ELSE IF upToDate /\ conn.snap.closed
           THEN Leave(c, [sent EXCEPT !.ended = TRUE])
           ELSE IF ~upToDate /\ (~stream.exists \/ stream.inc # conn.snap.inc)
           THEN Leave(c, sent)
           ELSE /\ conns' = [conns EXCEPT ![c] =
                       IF skip THEN [conn EXCEPT !.pc = "confirm"]
                       ELSE IF upToDate THEN [sent EXCEPT !.pc = "confirm"]
                       ELSE [sent EXCEPT !.page = PageEnd(sent.off, conn.snap.tail)]]
                /\ UNCHANGED <<stream, reg, hubs, budget>>

-----------------------------------------------------------------------------
(* Confirming and attaching *)

\* confirmSnapshot: a client reads the path's present snapshot, and whoever asks
\* before that read has come back is given its result.
Confirm(c) ==
    LET conn == conns[c]
        hub == hubs[conn.hub]
    IN  /\ conn.pc = "confirm"
        /\ IF ~IsServedBy(conn.snap, hub) THEN Leave(c, conn)
           ELSE /\ IF hub.conf = Free
                   THEN /\ hubs' = [hubs EXCEPT
                              ![conn.hub].conf = c,
                              ![conn.hub].confInc = IF stream.exists THEN stream.inc ELSE 0]
                        /\ conns' = [conns EXCEPT ![c].pc = "confirmed"]
                   ELSE /\ conns' = [conns EXCEPT ![c].pc = "confirmJoin"]
                        /\ UNCHANGED hubs
                /\ UNCHANGED <<stream, reg, budget>>

\* The result goes to the reader and to those who joined; whoever finds another
\* stream returns an error.
Confirmed(c) ==
    LET h == conns[c].hub
        told == {d \in Leases(h) : d = c \/ conns[d].pc = "confirmJoin"}
    IN  /\ conns[c].pc = "confirmed"
        /\ conns' = [d \in Clients |->
              IF d \notin told THEN conns[d]
              ELSE [conns[d] EXCEPT !.pc =
                      IF hubs[h].confInc = conns[d].snap.inc THEN "attach"
                      ELSE "abort"]]
        /\ hubs' = [hubs EXCEPT ![h].conf = Free, ![h].confInc = 0]
        /\ UNCHANGED <<stream, reg, budget>>

Abort(c) == conns[c].pc = "abort" /\ Leave(c, conns[c])

\* The events a client at `off' still needs: firstSSEEventAfter.
EventsAfter(hub, off) == {i \in 1 .. Len(hub.events) : off < hub.events[i].to}
FirstAfter(hub, off) ==
    CHOOSE i \in EventsAfter(hub, off) : \A j \in EventsAfter(hub, off) : i <= j

\* findSSEBoundary: the messages of the event before `off', when `off' is where
\* the event begins or where one of its messages ends.
OnBoundary(event, off) == event.from <= off
SkipOf(event, off) == off - event.from

\* attach, called by waitAttach until the hub is not behind.
Attach(c) ==
    LET conn == conns[c]
        hub == hubs[conn.hub]
        i == FirstAfter(hub, conn.off)
        live == [conn EXCEPT !.pc = "live", !.page = 0, !.seq = NextSeq(hub)]
    IN  /\ conn.pc = "attach"
        /\ hub.failed \/ hub.current >= conn.off
        /\ IF ~hub.failed /\ hub.current = conn.off
           THEN conns' = [conns EXCEPT ![c] = live] /\ UNCHANGED <<stream, reg, hubs, budget>>
           ELSE IF ~hub.failed /\ EventsAfter(hub, conn.off) # {}
                   /\ OnBoundary(hub.events[i], conn.off)
           THEN /\ conns' = [conns EXCEPT ![c] = [live EXCEPT
                       !.seq = hub.firstSeq + i - 1,
                       !.skip = SkipOf(hub.events[i], conn.off)]]
                /\ UNCHANGED <<stream, reg, hubs, budget>>
           ELSE Leave(c, conn)

\* The hub is behind what the client has caught up to: refreshTo, under
\* refreshMu.
AttachBehind(c) ==
    LET h == conns[c].hub
    IN  /\ conns[c].pc = "attach" /\ hubs[h].refresh = Free
        /\ ~hubs[h].failed /\ hubs[h].current < conns[c].off
        /\ hubs' = [hubs EXCEPT ![h].refresh = c]
        /\ conns' = [conns EXCEPT ![c].pc = "refreshTo"]
        /\ UNCHANGED <<stream, reg, budget>>

-----------------------------------------------------------------------------
(* Live delivery *)

\* watcher.next finds an event: it is written with its control event, and
\* commit moves the watcher past it.
Deliver(c) ==
    LET conn == conns[c]
        hub == hubs[conn.hub]
        event == hub.events[conn.seq - hub.firstSeq + 1]
        sent == [Write(conn, event.inc, event.from + conn.skip, event.to) EXCEPT
                    !.seq = @ + 1, !.skip = 0, !.ended = event.closed]
    IN  /\ conn.pc = "live" /\ ~hub.failed /\ conn.off # hub.current
        /\ conn.seq \in hub.firstSeq .. NextSeq(hub) - 1
        /\ IF event.closed THEN Leave(c, sent)
           ELSE conns' = [conns EXCEPT ![c] = sent] /\ UNCHANGED <<stream, reg, hubs, budget>>

\* watcher.next at the tail of a closed stream.
DeliverEnd(c) ==
    LET conn == conns[c]
        hub == hubs[conn.hub]
    IN  /\ conn.pc = "live" /\ ~hub.failed
        /\ conn.off = hub.current /\ hub.closed
        /\ Leave(c, [conn EXCEPT !.ended = TRUE])

\* The hub failed, or the ring has moved past the client: it is disconnected
\* and resumes from its last control offset.
DropLive(c) ==
    LET conn == conns[c]
        hub == hubs[conn.hub]
    IN  /\ conn.pc = "live"
        /\ hub.failed \/ (conn.off # hub.current /\ conn.seq < hub.firstSeq)
        /\ Leave(c, conn)

\* Nothing to send: the handler sleeps until the hub wakes it.
Sleep(c) ==
    LET conn == conns[c]
        hub == hubs[conn.hub]
    IN  /\ conn.pc = "live" /\ ~hub.failed
        /\ IF conn.off = hub.current THEN ~hub.closed ELSE conn.seq >= NextSeq(hub)
        /\ conns' = [conns EXCEPT ![c].pc = "asleep"]
        /\ UNCHANGED <<stream, reg, hubs, budget>>

Wake(c) ==
    /\ conns[c].pc = "asleep" /\ conns[c].wake
    /\ conns' = [conns EXCEPT ![c].pc = "live", ![c].wake = FALSE]
    /\ UNCHANGED <<stream, reg, hubs, budget>>

-----------------------------------------------------------------------------
(* The hub's goroutine: runPersistent *)

\* A subscription is acknowledged.  The first generation waits for a client's
\* snapshot, a later one refreshes because hints may have been missed.
Subscribe(h) ==
    /\ hubs[h].pc = "subscribe"
    /\ hubs' = [hubs EXCEPT ![h] = MarkReady([@ EXCEPT
                   !.pc = IF hubs[h].first THEN "init" ELSE "again",
                   !.registered = TRUE, !.signal = FALSE])]
    /\ UNCHANGED <<stream, reg, conns, budget>>

\* A hint, a reconnect or the poll interval ends sub.Wait and starts a refresh;
\* so does a new generation.
StartRefresh(h) ==
    /\ hubs[h].pc \in {"again", "wait"} /\ hubs[h].refresh = Free
    /\ hubs' = [hubs EXCEPT ![h] = [@ EXCEPT
                   !.pc = "refreshing", !.refresh = Loop, !.signal = FALSE,
                   !.missed = FALSE]]
    /\ UNCHANGED <<stream, reg, conns, budget>>

\* sub.Wait fails: the subscription is closed and another one opened.
SubscriptionLost(h) ==
    /\ hubs[h].pc = "wait" /\ Spend({"faults"})
    /\ hubs' = [hubs EXCEPT ![h].pc = "subscribe", ![h].signal = FALSE]
    /\ UNCHANGED <<stream, reg, conns>>

\* buildSSEHubEvents: the messages of a page in events of at most BatchLimit.
BuildEvents(inc, from, to) ==
    LET end(i) == from + i * BatchLimit
    IN  [i \in 1 .. (to - from + BatchLimit - 1) \div BatchLimit |->
            [inc |-> inc, from |-> end(i - 1), closed |-> FALSE,
             to |-> IF end(i) < to THEN end(i) ELSE to]]

\* publish: the ring grows by the page's events, the last of which says whether
\* the stream ends there, and loses its oldest events while it is too large,
\* though never its last.
RingSize(events) == Last(events).to - Head(events).from
Evicted(events) ==
    CHOOSE k \in 0 .. Len(events) - 1 :
       /\ k = Len(events) - 1 \/ RingSize(SubSeq(events, k + 1, Len(events))) <= ReplayLimit
       /\ \A j \in 0 .. k - 1 : RingSize(SubSeq(events, j + 1, Len(events))) > ReplayLimit

\* Mutant: the ring is trimmed, but its first sequence number stays.
PublishKeepingSeq(hub, inc, to, snap) ==
    LET built == BuildEvents(inc, hub.current, to)
        ends == snap.closed /\ to = snap.tail
        all == IF built = <<>> THEN hub.events
               ELSE hub.events \o [built EXCEPT ![Len(built)].closed = ends]
        k == IF all = <<>> THEN 0 ELSE Evicted(all)
    IN  [hub EXCEPT !.events = SubSeq(all, k + 1, Len(all)), !.current = to,
                    !.closed = ends \/ (built # <<>> /\ @)]

Publish(hub, inc, to, snap) ==
    LET built == BuildEvents(inc, hub.current, to)
        ends == snap.closed /\ to = snap.tail
        all == IF built = <<>> THEN hub.events
               ELSE hub.events \o [built EXCEPT ![Len(built)].closed = ends]
        k == IF all = <<>> THEN 0 ELSE Evicted(all)
    IN  [hub EXCEPT !.events = SubSeq(all, k + 1, Len(all)),
                    !.firstSeq = @ + k, !.current = to,
                    !.closed = ends \/ (built # <<>> /\ @)]

\* notifyLocked.  A wake that is pending before the client is live only makes it
\* look once more, so it is left out.
Notified(h) == [d \in Clients |-> IF conns[d].hub = h /\ Connected(d)
                                  THEN [conns[d] EXCEPT !.wake = TRUE] ELSE conns[d]]

\* After a refresh: the goroutine waits again, or stops at the end of the
\* stream; a client tries to attach again.
AfterRefresh(hub) ==
    [hub EXCEPT !.refresh = Free, !.snap = NoSnap,
                !.pc = IF hub.refresh # Loop THEN @
                       ELSE IF hub.closed THEN "stopped" ELSE "wait"]

\* refreshPageLocked: one page from the hub's offset, under the snapshot its
\* first page captured, which must be of the hub's stream.
RefreshPage(h) ==
    LET hub == hubs[h]
        snap == IF hub.snap = NoSnap THEN Snapshot ELSE hub.snap
        to == PageEnd(hub.current, snap.tail)
        next == Publish([hub EXCEPT !.snap = snap], snap.inc, to, snap)
        done == to = snap.tail
    IN  /\ hub.refresh # Free
        /\ stream.exists /\ stream.inc = snap.inc /\ IsServedBy(snap, hub)
        /\ hubs' = [hubs EXCEPT ![h] = IF done THEN AfterRefresh(next) ELSE next]
        /\ conns' = [d \in Clients |->
              IF done /\ d = hub.refresh
              THEN [Notified(h)[d] EXCEPT !.pc = "attach"] ELSE Notified(h)[d]]
        /\ UNCHANGED <<stream, reg, budget>>

\* The page is of no stream or of another one: handleReadError fails the hub.
\* A client that was refreshing returns the error and leaves the hub alone.
RefreshTerminal(h) ==
    LET hub == hubs[h]
        snap == IF hub.snap = NoSnap THEN Snapshot ELSE hub.snap
    IN  /\ hub.refresh # Free
        /\ ~stream.exists \/ stream.inc # snap.inc \/ ~IsServedBy(snap, hub)
        /\ IF hub.refresh = Loop
           THEN /\ hubs' = [hubs EXCEPT ![h] = [@ EXCEPT
                               !.failed = TRUE, !.pc = "stopped",
                               !.refresh = Free, !.snap = NoSnap]]
                /\ conns' = Notified(h)
                /\ UNCHANGED <<stream, reg, budget>>
           ELSE Leave(hub.refresh, conns[hub.refresh])

\* Any other read error: the goroutine opens another subscription.
RefreshError(h) ==
    LET hub == hubs[h]
    IN  /\ hub.refresh = Loop /\ Spend({"faults"})
        /\ hubs' = [hubs EXCEPT ![h] = [@ EXCEPT
                       !.pc = "subscribe", !.refresh = Free, !.snap = NoSnap]]
        /\ UNCHANGED <<stream, reg, conns>>

-----------------------------------------------------------------------------
(* The stream, and the hints its scripts publish *)

\* PUBLISH to every hub that is subscribed, unless the message is lost.
Hint(lost, what) ==
    /\ Spend(IF lost THEN what \cup {"faults"} ELSE what)
    /\ hubs' = [h \in HubIds |->
          IF ~IsSubscribed(hubs[h]) THEN hubs[h]
          ELSE IF lost THEN [hubs[h] EXCEPT !.missed = TRUE]
          ELSE [hubs[h] EXCEPT !.signal = TRUE]]
    /\ UNCHANGED <<reg, conns>>

AppendMessage(lost) ==
    /\ stream.exists /\ ~stream.closed
    /\ stream' = [stream EXCEPT !.tail = @ + 1]
    /\ Hint(lost, {"appends"})

CloseStream(lost) ==
    /\ stream.exists /\ ~stream.closed
    /\ stream' = [stream EXCEPT !.closed = TRUE]
    /\ Hint(lost, {"ends"})

Delete(lost) ==
    /\ stream.exists
    /\ stream' = [stream EXCEPT !.exists = FALSE]
    /\ Hint(lost, {"ends"})

\* create.lua publishes only when the PUT carries messages.
Create ==
    /\ ~stream.exists
    /\ stream' = [exists |-> TRUE, inc |-> stream.inc + 1, tail |-> 0, closed |-> FALSE]
    /\ Spend({"creates"})
    /\ UNCHANGED <<reg, hubs, conns>>

-----------------------------------------------------------------------------
Init ==
    /\ stream = [exists |-> TRUE, inc |-> 1, tail |-> 1, closed |-> FALSE]
    /\ reg = None
    /\ hubs = [h \in HubIds |-> NoHub]
    /\ conns = [c \in Clients |-> NoConn]
    /\ budget \in Budgets

Next ==
    \/ \E c \in Clients :
          \/ Connect(c) \/ Disconnect(c)
          \/ \E from \in {Now} \cup 0 .. MaxLen : FirstPage(c, from)
          \/ Bind(c) \/ Replace(c) \/ Ready(c)
          \/ CatchUp(c)
          \/ Confirm(c) \/ Confirmed(c) \/ Abort(c)
          \/ Attach(c) \/ AttachBehind(c)
          \/ Deliver(c) \/ DeliverEnd(c) \/ DropLive(c) \/ Sleep(c) \/ Wake(c)
    \/ \E h \in HubIds :
          \/ Subscribe(h) \/ StartRefresh(h) \/ SubscriptionLost(h)
          \/ RefreshPage(h) \/ RefreshTerminal(h) \/ RefreshError(h)
    \/ \E lost \in BOOLEAN : AppendMessage(lost) \/ CloseStream(lost) \/ Delete(lost)
    \/ Create

Spec == Init /\ [][Next]_vars

-----------------------------------------------------------------------------
(* Properties *)

IsCurrent(c) == stream.exists /\ stream.inc = conns[c].snap.inc

\* Every variable has the shape the handler and the hub give it.
TypeOK ==
    /\ stream.inc \in Nat /\ stream.tail \in 0 .. MaxLen
    /\ reg \in HubIds \cup {None}
    /\ \A h \in HubIds :
          /\ hubs[h].refresh \in Clients \cup {Free, Loop}
          /\ hubs[h].conf \in Clients \cup {Free}
          /\ hubs[h].current \in 0 .. MaxLen /\ hubs[h].inc \in 0 .. stream.inc
    /\ \A c \in Clients :
          /\ conns[c].hub \in HubIds \cup {None}
          /\ Idle(c) <=> conns[c].hub = None
          /\ conns[c].off \in 0 .. MaxLen

\* What one connection sends is a run of consecutive messages of the one
\* incarnation it captured, from the offset it was asked for to the control
\* offset it announced last: nothing twice, nothing left out, nothing of a
\* stream re-created under the path, wherever it changed from pages to the
\* shared ring (handleSSE, attach, next, commit).
DeliveryIsExact ==
    \A c \in Clients : ~conns[c].broken

\* A live client's place in the ring is its offset: its next event begins at or
\* before the offset by exactly what it skips, or it has all there is.  A ring
\* that no longer holds the event is one the client is dropped from.
WatcherIsOnBoundary ==
    \A c \in Clients : Connected(c) /\ ~hubs[conns[c].hub].failed =>
       LET conn == conns[c]
           hub == hubs[conn.hub]
           event == hub.events[conn.seq - hub.firstSeq + 1]
       IN  \/ conn.seq < hub.firstSeq
           \/ conn.seq = NextSeq(hub) /\ conn.off = hub.current
           \/ /\ conn.seq \in hub.firstSeq .. NextSeq(hub) - 1
              /\ event.from + conn.skip = conn.off /\ conn.off < event.to

\* A client told that the stream ended has been sent all of it, and nothing is
\* ever appended after that.
EndIsFinal ==
    \A c \in Clients : conns[c].ended /\ IsCurrent(c) =>
       stream.closed /\ conns[c].off = stream.tail

\* A hub that waits with no hint pending knows the stream as it is: every
\* append, close and delete is either in the snapshot it started from or
\* signalled by its subscription, unless a hint was lost or the hub took over
\* a snapshot read before it subscribed.
NoHintIsMissed ==
    \A h \in HubIds :
       LET hub == hubs[h]
       IN  hub.pc = "wait" /\ ~hub.signal /\ ~hub.missed /\ hub.refresh = Free =>
             /\ stream.exists /\ hub.inc = stream.inc
             /\ hub.current = stream.tail /\ hub.closed = stream.closed

\* A lease keeps its hub, and only a hub with leases is in the registry: no
\* client is left on a hub whose goroutine was cancelled.
LeasesHoldHubs ==
    /\ \A h \in HubIds : hubs[h].pc = "none" <=> Leases(h) = {}
    /\ reg # None => hubs[reg].pc # "none"

\* No client sleeps over something to send: one that sleeps with no wake pending
\* has been sent all its hub has, and a hub that no longer follows the stream
\* has told its clients so.  With the poll interval, which starts a refresh of
\* every waiting hub, this is why a lost hint only delays a client.
NobodySleepsOverData ==
    \A c \in Clients :
       LET hub == hubs[conns[c].hub]
       IN  conns[c].pc = "asleep" /\ ~conns[c].wake =>
             /\ ~hub.failed /\ ~hub.closed /\ conns[c].off = hub.current
             /\ hub.pc # "stopped"
=============================================================================
