---------------------------- MODULE Subscription ----------------------------
(***************************************************************************)
(* One subscription of the __ds control plane: its Redis record, the three *)
(* schedules it is a member of (lease, retry, due), the external workers   *)
(* or webhook receivers that hold its fence, and the steps of the replicas *)
(* that drive it: append hints, arming, delivery, retries, the lease and   *)
(* due workers and the recovery sweep.                                     *)
(*                                                                         *)
(* Every Lua script is atomic and is one action; a Go function that issues *)
(* several scripts is several actions, and what it remembers between them  *)
(* is a record in `tasks' (or the snapshot in `sw' for the sweep), so that *)
(* any other step may fall in between and a crash may drop it.             *)
(*                                                                         *)
(* Deadlines are kept relative to the clock: sub.lease is lease_until_ns   *)
(* minus the present, and Tick lowers it.  A script is handed a timestamp  *)
(* its caller read up to MaxLag earlier, so a deadline has passed for it   *)
(* when sub.lease + lag <= 0.                                              *)
(***************************************************************************)
EXTENDS Integers, FiniteSets

CONSTANTS PullWake,    \* TRUE: pull-wake dispatch; FALSE: webhook dispatch
          LeaseTTL,    \* lease_ttl_ms, in clock ticks
          MaxLag,      \* age of the timestamp a script call may carry
          MaxGen,      \* bound on the generation of one incarnation
          MaxInc,      \* bound on the number of incarnations
          MaxTail,     \* bound on the linked stream's tail
          MaxEpoch,    \* bound on the slot's owner epoch
          MaxTasks,    \* bound on concurrent replica steps
          MaxFaults    \* bound on crashes, failovers, lost wake events and
                       \* failure windows that run out

ASSUME ConstantAssumption ==
    /\ PullWake \in BOOLEAN
    /\ LeaseTTL \in Nat /\ MaxLag \in Nat /\ MaxLag < LeaseTTL
    /\ MaxGen \in Nat /\ MaxInc \in Nat /\ MaxTail \in Nat
    /\ MaxEpoch \in Nat /\ MaxTasks \in Nat /\ MaxFaults \in Nat

VARIABLES
    sub,      \* the subscription hash; phase "none" when the key is absent
    acked,    \* acked_offset of the linked stream
    tail,     \* tail of the linked stream
    sched,    \* the schedule ZSETs it is a member of
    incs,     \* the incarnation counter key
    epoch,    \* owner_epoch of the subscription's slot; 0 while unowned
    tasks,    \* work a replica has begun and not finished
    sw,       \* the recovery sweep's progress and snapshot
    event,    \* an unread wake event sits in the wake stream
    issued,   \* fences handed to workers and webhook receivers
    grant,    \* fence of the newest claim granted
    faults    \* faults so far

vars == <<sub, acked, tail, sched, incs, epoch, tasks, sw,
          event, issued, grant, faults>>

-----------------------------------------------------------------------------
(* State *)

NoWake == <<0, 0>>

\* Wake ids are random and never repeat; the pair that minted one names it.
WakeIds == (0 .. MaxInc) \X (0 .. MaxGen)

Fences == [gen : 0 .. MaxGen, wake : WakeIds]

\* lease_until_ns - now, while lease_until_ns # 0.
Leases == -MaxLag .. LeaseTTL

Subs == [phase  : {"none", "idle", "waking", "live"},
         inc    : 0 .. MaxInc,
         gen    : 0 .. MaxGen,
         wake   : WakeIds,
         holder : BOOLEAN,
         leased : BOOLEAN,              \* lease_until_ns # 0
         lease  : Leases,
         sent   : {"no", "fresh", "stale"},  \* wake_event_sent_ns
         failed : {"no", "recent", "long"}]  \* first_fail_ns; status = failed

Absent == [phase |-> "none", inc |-> 0, gen |-> 0, wake |-> NoWake,
           holder |-> FALSE, leased |-> FALSE, lease |-> 0,
           sent |-> "no", failed |-> "no"]

\* scope 0 is the unscoped (external, hot-path) form of a script call; any
\* other scope is the owner epoch the calling worker believes it holds.
Tasks == [kind  : {"check", "issue", "clear", "emit", "stamp",
                   "deliver", "posted", "autoack", "retry", "collect"},
          scope : 0 .. MaxEpoch,
          gen   : 0 .. MaxGen,
          wake  : WakeIds,
          snap  : 0 .. MaxTail]

Task(kind, scope, gen, wake, snap) ==
    [kind |-> kind, scope |-> scope, gen |-> gen, wake |-> wake, snap |-> snap]

SweepStates == [at      : {"off", "restore", "reemit", "expire", "wake"},
                restore : BOOLEAN,  \* in flight with a lease deadline
                reemit  : BOOLEAN,  \* pull wake unstamped or stale
                expire  : BOOLEAN,  \* lease deadline passed
                idle    : BOOLEAN,
                pending : BOOLEAN,
                gen     : 0 .. MaxGen,
                wake    : WakeIds]

SweepOff == [at |-> "off", restore |-> FALSE, reemit |-> FALSE,
             expire |-> FALSE, idle |-> FALSE, pending |-> FALSE,
             gen |-> 0, wake |-> NoWake]

Exists == sub.phase # "none"
InFlight == sub.phase \in {"waking", "live"}
HasPendingWork == tail > acked
Larger(a, b) == IF a > b THEN a ELSE b

\* fenced() of common.lua: the token's generation and the request's
\* (generation, wake_id) must all be the current ones.
Fenced(tokenGen, req) ==
    \/ tokenGen # sub.gen
    \/ req.gen # sub.gen
    \/ req.wake = NoWake
    \/ req.wake # sub.wake

\* owner_fenced() of common.lua.  An epoch is granted to one replica only, so
\* it stands for the (owner_id, owner_epoch) pair.
OwnerFenced(scope) == scope # 0 /\ scope # epoch

\* Mutant: the deadline is compared one tick early.
ExpiredEarly(lag) == sub.leased /\ sub.lease + lag <= 1

Expired(lag) == sub.leased /\ sub.lease + lag <= 0

Newer(f, g) == f[1] > g[1] \/ (f[1] = g[1] /\ f[2] > g[2])

\* A replica runs t (and possibly started s to run after it).
Finish(t) == tasks' = tasks \ {t}
Continue(t, s) == tasks' = (tasks \ {t}) \cup {s}
CanStart == Cardinality(tasks) < MaxTasks

-----------------------------------------------------------------------------
(* Bodies of the scripts, shared by the actions that call them *)

\* Mutant: no lease is taken for a webhook wake.
ArmWakeWithoutLease(lag) ==
    LET g == sub.gen + 1
    IN  /\ g <= MaxGen
        /\ sub' = [sub EXCEPT !.gen = g, !.wake = <<sub.inc, g>>, !.sent = "no",
                              !.phase = "waking", !.holder = FALSE]
        /\ sched' = sched \cup {"due"}

\* arm_wake.lua past its guards: the next generation, a fresh wake id and a
\* due mark; a webhook wake also takes its lease.
ArmWake(lag) ==
    LET g == sub.gen + 1
        armed == [sub EXCEPT !.gen = g, !.wake = <<sub.inc, g>>,
                             !.phase = "waking", !.holder = FALSE]
    IN  /\ g <= MaxGen
        /\ sub' = IF PullWake THEN [armed EXCEPT !.sent = "no"]
                  ELSE [armed EXCEPT !.leased = TRUE, !.lease = LeaseTTL - lag]
        /\ sched' = sched \cup (IF PullWake THEN {"due"} ELSE {"due", "lease"})

\* What issueWake starts once the arm is durable.
Dispatch(scope) ==
    Task(IF PullWake THEN "emit" ELSE "deliver", scope, sub'.gen, sub'.wake, 0)

\* Mutant: the wake id is not reset.
IdledKeepingWake == [sub EXCEPT !.phase = "idle", !.holder = FALSE,
                                !.leased = FALSE, !.lease = 0]

\* The idle record that done, release and expiry leave behind.
Idled == [sub EXCEPT !.phase = "idle", !.holder = FALSE, !.wake = NoWake,
                     !.leased = FALSE, !.lease = 0]

\* Mutant: the cursor may move backwards.
AckDoneBackwards(off) ==
    acked' = off /\ sub' = [Idled EXCEPT !.failed = "no"] /\ sched' = {}

\* ack.lua's done branch, with its forward-only cursor move.
AckDone(off) ==
    /\ acked' = Larger(acked, off)
    /\ sub' = [Idled EXCEPT !.failed = "no"]
    /\ sched' = {}

\* Mutant: the lease entry is left behind.
ExpireLeaseKeepingEntry == sub' = Idled /\ sched' = sched \cup {"due"}

\* expire_lease.lua past its guards.
ExpireLease ==
    /\ sub' = Idled
    /\ sched' = (sched \ {"lease"}) \cup {"due"}

-----------------------------------------------------------------------------
(* The subscription's own life, and the stream it is linked to *)

\* create_sub.lua on an absent key.  seedLinks read the tail earlier, so the
\* cursor starts at some offset the stream has had.
CreateSub ==
    /\ sub.phase = "none" /\ incs < MaxInc
    /\ incs' = incs + 1
    /\ sub' = [Absent EXCEPT !.phase = "idle", !.inc = incs + 1]
    /\ acked' \in 0 .. tail
    /\ UNCHANGED <<tail, sched, epoch, tasks, sw, event, issued, grant,
                   faults>>

\* delete_sub.lua, reached from DELETE.
DeleteSub ==
    /\ Exists
    /\ sub' = Absent
    /\ sched' = {}
    /\ UNCHANGED <<acked, tail, incs, epoch, tasks, sw, event, issued, grant,
                   faults>>

\* An append to the linked stream leaves a hint for the dirty worker.
StreamAppend ==
    /\ tail < MaxTail /\ CanStart
    /\ tail' = tail + 1
    /\ tasks' = tasks \cup {Task("check", 0, 0, NoWake, 0)}
    /\ UNCHANGED <<sub, acked, sched, incs, epoch, sw, event, issued, grant,
                   faults>>

Tick ==
    /\ sub.leased /\ sub.lease > -MaxLag
    /\ sub' = [sub EXCEPT !.lease = @ - 1]
    /\ UNCHANGED <<acked, tail, sched, incs, epoch, tasks, sw, event, issued,
                   grant, faults>>

\* The staleness window of an emitted, unclaimed wake event runs out.
AgeWakeEvent ==
    /\ sub.sent = "fresh"
    /\ sub' = [sub EXCEPT !.sent = "stale"]
    /\ UNCHANGED <<acked, tail, sched, incs, epoch, tasks, sw, event, issued,
                   grant, faults>>

-----------------------------------------------------------------------------
(* Waking *)

\* processDirtyStream and rewakeIfPending: read the record and the tail, and
\* decide to wake.  The decision is acted on in a later step.
CheckPending(t) ==
    /\ t \in tasks /\ t.kind = "check"
    /\ IF sub.phase = "idle" /\ HasPendingWork
       THEN Continue(t, Task("issue", t.scope, 0, NoWake, 0))
       ELSE Finish(t)
    /\ UNCHANGED <<sub, acked, tail, sched, incs, epoch, sw, event, issued,
                   grant, faults>>

\* issueWake / issueWakeOwned: arm, and on ARMED start the delivery.
IssueWake(t, lag) ==
    /\ t \in tasks /\ t.kind = "issue"
    /\ IF OwnerFenced(t.scope) \/ sub.phase # "idle"
       THEN Finish(t) /\ UNCHANGED <<sub, sched>>
       ELSE ArmWake(lag) /\ Continue(t, Dispatch(t.scope))
    /\ UNCHANGED <<acked, tail, incs, epoch, sw, event, issued, grant,
                   faults>>

\* writeWakeEvent appends the event to the wake stream ...
EmitWakeEvent(t) ==
    /\ t \in tasks /\ t.kind = "emit"
    /\ event' = "unread"
    /\ Continue(t, [t EXCEPT !.kind = "stamp"])
    /\ UNCHANGED <<sub, acked, tail, sched, incs, epoch, sw, issued, grant,
                   faults>>

\* ... and then stamps the record (record_wake_sent.lua).
RecordWakeSent(t) ==
    /\ t \in tasks /\ t.kind = "stamp"
    /\ sub' = IF Exists /\ sub.gen = t.gen /\ sub.wake = t.wake
              THEN [sub EXCEPT !.sent = "fresh"] ELSE sub
    /\ Finish(t)
    /\ UNCHANGED <<acked, tail, sched, incs, epoch, sw, event, issued, grant,
                   faults>>

-----------------------------------------------------------------------------
(* Calls from outside: workers, and webhook receivers using the callback.   *)
(* A fence once handed out may be used at any later time, any number of     *)
(* times, and a request may pair one token with another fence's body.       *)

\* Mutant: a lapsed claim's fence is granted again.
ClaimReusingLapsedFence(lag) ==
    LET reuse == sub.wake # NoWake
        g == IF reuse THEN sub.gen ELSE sub.gen + 1
        wake == IF reuse THEN sub.wake ELSE <<sub.inc, g>>
    IN  /\ PullWake /\ Exists
        /\ ~(sub.phase = "live" /\ sub.holder /\ sub.lease + lag > 0)
        /\ g <= MaxGen
        /\ sub' = [sub EXCEPT !.gen = g, !.wake = wake, !.phase = "live",
                              !.holder = TRUE, !.leased = TRUE,
                              !.lease = LeaseTTL - lag]
        /\ sched' = sched \cup {"lease"}
        /\ issued' = issued \cup {[gen |-> g, wake |-> wake]}
        /\ grant' = <<sub.inc, g>>
        /\ event' \in {event, "none"}
        /\ UNCHANGED <<acked, tail, incs, epoch, tasks, sw, faults>>

\* claim.lua.  Granting reuses the fence only of a wake nobody has claimed.
Claim(lag) ==
    LET reuse == sub.phase = "waking" /\ sub.wake # NoWake
        g == IF reuse THEN sub.gen ELSE sub.gen + 1
        wake == IF reuse THEN sub.wake ELSE <<sub.inc, g>>
    IN  /\ PullWake /\ Exists
        /\ ~(sub.phase = "live" /\ sub.holder /\ sub.lease + lag > 0)
        /\ g <= MaxGen
        /\ sub' = [sub EXCEPT !.gen = g, !.wake = wake, !.phase = "live",
                              !.holder = TRUE, !.leased = TRUE,
                              !.lease = LeaseTTL - lag]
        /\ sched' = sched \cup {"lease"}
        /\ issued' = issued \cup {[gen |-> g, wake |-> wake]}
        /\ grant' = <<sub.inc, g>>
        /\ event' \in {event, "none"}
        /\ UNCHANGED <<acked, tail, incs, epoch, tasks, sw, faults>>

\* applyAck with done: ack.lua unscoped, then the rewake check.
Done(tokenGen, req, off) ==
    /\ Exists /\ ~Fenced(tokenGen, req) /\ CanStart
    /\ AckDone(off)
    /\ tasks' = tasks \cup {Task("check", 0, 0, NoWake, 0)}
    /\ UNCHANGED <<tail, incs, epoch, sw, event, issued, grant, faults>>

\* applyAck without done: ack.lua's heartbeat branch.
Heartbeat(tokenGen, req, off, lag) ==
    /\ Exists /\ ~Fenced(tokenGen, req)
    /\ sub.leased /\ sub.lease + lag > 0
    /\ IF PullWake THEN sub.phase = "live" /\ sub.holder
                   ELSE InFlight /\ ~sub.holder
    /\ acked' = Larger(acked, off)
    /\ sub' = [sub EXCEPT !.lease = LeaseTTL - lag, !.phase = "live"]
    /\ sched' = sched \cup {"lease"}
    /\ UNCHANGED <<tail, incs, epoch, tasks, sw, event, issued, grant,
                   faults>>

\* applyRelease: release.lua, then the rewake check.
Release(tokenGen, req) ==
    /\ Exists /\ ~Fenced(tokenGen, req) /\ CanStart
    /\ sub' = Idled
    /\ sched' = {}
    /\ tasks' = tasks \cup {Task("check", 0, 0, NoWake, 0)}
    /\ UNCHANGED <<acked, tail, incs, epoch, sw, event, issued, grant,
                   faults>>

-----------------------------------------------------------------------------
(* Webhook delivery *)

\* deliverWebhook up to the POST: check_owner, Get, Snapshot, then the
\* receiver may learn the fence, and the streams' tails as of now.
PostWebhook(t) ==
    /\ t \in tasks /\ t.kind = "deliver"
    /\ IF OwnerFenced(t.scope) \/ ~Exists
       THEN Finish(t) /\ UNCHANGED issued
       ELSE /\ Continue(t, [t EXCEPT !.kind = "posted", !.snap = tail])
            /\ issued' = issued \cup {[gen |-> t.gen, wake |-> t.wake]}
    /\ UNCHANGED <<sub, acked, tail, sched, incs, epoch, sw, event, grant,
                   faults>>

\* Mutant: the owner scope is not checked.
CurrentForAnyOwner(t) == Exists /\ sub.gen = t.gen /\ sub.wake = t.wake

Current(t) ==
    /\ Exists /\ ~OwnerFenced(t.scope)
    /\ sub.gen = t.gen /\ sub.wake = t.wake

\* recordFailure reads the record, and decides on what it read: nothing is left
\* to do, the subscription has failed for too long, or the wake is retried.
DeliveryFailed(t) ==
    /\ t \in tasks /\ t.kind = "posted"
    /\ IF ~Exists THEN Finish(t)
       ELSE Continue(t, IF sub.failed = "long"
                        THEN Task("collect", t.scope, 0, NoWake, 0)
                        ELSE Task("retry", t.scope, t.gen, t.wake, 0))
    /\ UNCHANGED <<sub, acked, tail, sched, incs, epoch, sw, event, issued, grant,
                   faults>>

\* ... and either deletes the subscription, whatever has become of it: Delete
\* carries neither the owner scope nor the wake ...
CollectFailing(t) ==
    /\ t \in tasks /\ t.kind = "collect"
    /\ sub' = Absent
    /\ sched' = {}
    /\ Finish(t)
    /\ UNCHANGED <<acked, tail, incs, epoch, sw, event, issued, grant, faults>>

\* ... or calls schedule_retry.lua.
ScheduleRetry(t) ==
    /\ t \in tasks /\ t.kind = "retry"
    /\ IF Current(t) /\ t.wake # NoWake
       THEN /\ sub' = [sub EXCEPT !.failed = IF @ = "no" THEN "recent" ELSE @]
            /\ sched' = sched \cup {"retry"}
       ELSE UNCHANGED <<sub, sched>>
    /\ Finish(t)
    /\ UNCHANGED <<acked, tail, incs, epoch, sw, event, issued, grant,
                   faults>>

\* A 2xx answer: record_success.lua; {"done":true} goes on to the auto-ack.
DeliverySucceeded(t, done) ==
    /\ t \in tasks /\ t.kind = "posted"
    /\ IF Current(t)
       THEN /\ sub' = [sub EXCEPT !.failed = "no"]
            /\ sched' = sched \ {"retry"}
            /\ IF done THEN Continue(t, [t EXCEPT !.kind = "autoack"])
                       ELSE Finish(t)
       ELSE Finish(t) /\ UNCHANGED <<sub, sched>>
    /\ UNCHANGED <<acked, tail, incs, epoch, sw, event, issued, grant,
                   faults>>

\* The auto-ack acknowledges the snapshot the notification carried.
AutoAck(t) ==
    /\ t \in tasks /\ t.kind = "autoack"
    /\ IF Exists /\ ~OwnerFenced(t.scope) /\ ~Fenced(t.gen, t)
       THEN /\ AckDone(t.snap)
            /\ Continue(t, Task("check", t.scope, 0, NoWake, 0))
       ELSE Finish(t) /\ UNCHANGED <<sub, acked, sched>>
    /\ UNCHANGED <<tail, incs, epoch, sw, event, issued, grant, faults>>

-----------------------------------------------------------------------------
(* Background workers.  Each drains its slot's ZSET without a fence, so a    *)
(* replica that has lost the slot may still start; its epoch is `scope'.     *)

\* claim_shard.lua hands the slot to another replica.
TransferSlot ==
    /\ epoch < MaxEpoch
    /\ epoch' = epoch + 1
    /\ UNCHANGED <<sub, acked, tail, sched, incs, tasks, sw, event, issued,
                   grant, faults>>

\* leasePass: expire_lease.lua under the owner scope.
LeaseWorker(scope, lag) ==
    /\ "lease" \in sched /\ ~OwnerFenced(scope)
    /\ InFlight /\ Expired(lag)
    /\ ExpireLease
    /\ UNCHANGED <<acked, tail, incs, epoch, tasks, sw, event, issued, grant,
                   faults>>

\* duePass: DecideDue on a fresh read; firing and clearing are later steps.
DueWorker(scope) ==
    /\ "due" \in sched /\ CanStart /\ ~InFlight
    /\ tasks' = tasks \cup
                {Task(IF Exists /\ HasPendingWork THEN "issue" ELSE "clear",
                      scope, 0, NoWake, 0)}
    /\ UNCHANGED <<sub, acked, tail, sched, incs, epoch, sw, event, issued,
                   grant, faults>>

\* ClearDue: an unconditional ZREM.
ClearDue(t) ==
    /\ t \in tasks /\ t.kind = "clear"
    /\ sched' = sched \ {"due"}
    /\ Finish(t)
    /\ UNCHANGED <<sub, acked, tail, incs, epoch, sw, event, issued, grant,
                   faults>>

\* retryPass: re-deliver the wake that is in flight now.
RetryWorker(scope) ==
    /\ "retry" \in sched /\ CanStart /\ sub.phase = "waking"
    /\ tasks' = tasks \cup {Task("deliver", scope, sub.gen, sub.wake, 0)}
    /\ UNCHANGED <<sub, acked, tail, sched, incs, epoch, sw, event, issued,
                   grant, faults>>

-----------------------------------------------------------------------------
(* The recovery sweep: one snapshot, then the phases in pipeline order.  A    *)
(* phase that the snapshot gives nothing to do is passed over.                *)

\* sweepOnce's reads, and what the phases will decide from them.
SweepRead(lag) ==
    LET reemit == /\ PullWake /\ sub.phase = "waking"
                  /\ sub.sent \in {"no", "stale"}
    IN  /\ sw.at = "off" /\ Exists
        /\ sw' = [at |-> "restore",
                  restore |-> InFlight /\ sub.leased,
                  reemit |-> reemit,
                  expire |-> InFlight /\ Expired(lag),
                  idle |-> sub.phase = "idle",
                  pending |-> HasPendingWork,
                  gen |-> IF reemit THEN sub.gen ELSE 0,
                  wake |-> IF reemit THEN sub.wake ELSE NoWake]
        /\ UNCHANGED <<sub, acked, tail, sched, incs, epoch, tasks, event,
                       issued, grant, faults>>

\* RestoreLeaseTails: restore_lease.lua for a record whose lease entry is
\* missing.  A failed read of the lease ZSET counts as an empty one.
SweepRestore(readOk) ==
    /\ sw.at = "restore"
    /\ sw' = [sw EXCEPT !.restore = FALSE,
                        !.at = IF sw.reemit THEN "reemit"
                               ELSE IF sw.expire THEN "expire" ELSE "wake"]
    /\ IF /\ sw.restore /\ ~(readOk /\ "lease" \in sched)
          /\ InFlight /\ sub.leased
       THEN sched' = sched \cup (IF sw.pending THEN {"lease", "due"}
                                               ELSE {"lease"})
       ELSE UNCHANGED sched
    /\ UNCHANGED <<sub, acked, tail, incs, epoch, tasks, event, issued, grant,
                   faults>>

\* Mutant: no wake event is emitted again.
SweepReemitNothing ==
    /\ sw.at = "reemit"
    /\ sw' = SweepOff
    /\ UNCHANGED <<sub, acked, tail, sched, incs, epoch, tasks, event, issued,
                   grant, faults>>

\* ReemitUnstamped and ReemitStale: append the event again, then stamp it;
\* a re-emitted subscription is handled and skips the remaining phases.
SweepReemit ==
    /\ sw.at = "reemit" /\ CanStart
    /\ event' = "unread"
    /\ tasks' = tasks \cup {Task("stamp", 0, sw.gen, sw.wake, 0)}
    /\ sw' = SweepOff
    /\ UNCHANGED <<sub, acked, tail, sched, incs, epoch, issued, grant,
                   faults>>

\* ExpireDueLeases: expire_lease.lua, unscoped; the snapshot follows it.
SweepExpire(lag) ==
    /\ sw.at = "expire"
    /\ IF InFlight /\ Expired(lag)
       THEN /\ ExpireLease
            /\ sw' = [sw EXCEPT !.at = "wake", !.expire = FALSE, !.idle = TRUE]
       ELSE /\ UNCHANGED <<sub, sched>>
            /\ sw' = [sw EXCEPT !.at = "wake", !.expire = FALSE]
    /\ UNCHANGED <<acked, tail, incs, epoch, tasks, event, issued, grant,
                   faults>>

\* WakeIdlePending: issueWake on the snapshot's word.
SweepWake(lag) ==
    /\ sw.at = "wake"
    /\ sw' = SweepOff
    /\ IF sw.idle /\ sw.pending /\ sub.phase = "idle"
       THEN /\ CanStart
            /\ ArmWake(lag)
            /\ tasks' = tasks \cup {Dispatch(0)}
       ELSE UNCHANGED <<sub, sched, tasks>>
    /\ UNCHANGED <<acked, tail, incs, epoch, event, issued, grant, faults>>

-----------------------------------------------------------------------------
(* Faults *)

Fault == faults < MaxFaults /\ faults' = faults + 1

\* The replica running t stops.
LoseTask(t) ==
    /\ Fault /\ t \in tasks /\ Finish(t)
    /\ UNCHANGED <<sub, acked, tail, sched, incs, epoch, sw, event, issued,
                   grant>>

\* The replica running the sweep stops.
LoseSweep ==
    /\ Fault /\ sw.at # "off" /\ sw' = SweepOff
    /\ UNCHANGED <<sub, acked, tail, sched, incs, epoch, tasks, event, issued,
                   grant>>

\* A worker reads the wake event and dies before it claims.
LoseWakeEvent ==
    /\ Fault /\ event = "unread" /\ event' = "none"
    /\ UNCHANGED <<sub, acked, tail, sched, incs, epoch, tasks, sw, issued,
                   grant>>

\* The holder of a fence dies.
LoseFence(f) ==
    /\ Fault /\ f \in issued /\ issued' = issued \ {f}
    /\ UNCHANGED <<sub, acked, tail, sched, incs, epoch, tasks, sw, event,
                   grant>>

\* The webhook has been failing for longer than gcFailureWindow.
FailForLong ==
    /\ Fault /\ sub.failed = "recent"
    /\ sub' = [sub EXCEPT !.failed = "long"]
    /\ UNCHANGED <<acked, tail, sched, incs, epoch, tasks, sw, event, issued,
                   grant>>

\* A Redis failover loses the newest schedule entries.
LoseSchedule ==
    /\ Fault
    /\ sched' \in SUBSET sched
    /\ UNCHANGED <<sub, acked, tail, incs, epoch, tasks, sw, event, issued,
                   grant>>

-----------------------------------------------------------------------------
Init ==
    /\ sub = Absent /\ acked = 0 /\ tail = 0
    /\ sched = {}
    /\ incs = 0 /\ epoch = 0
    /\ tasks = {} /\ sw = SweepOff /\ event = "none"
    /\ issued = {}
    /\ grant = NoWake
    /\ faults = 0

Lags == 0 .. MaxLag

\* Requests from outside.
External ==
    \/ \E lag \in Lags : Claim(lag)
    \/ \E tok \in issued, req \in issued :
          \/ \E off \in 0 .. tail : Done(tok.gen, req, off)
          \/ \E off \in 0 .. tail, lag \in Lags :
                Heartbeat(tok.gen, req, off, lag)
          \/ Release(tok.gen, req)

\* One step of a task a replica has begun.
TaskStep(t) ==
    \/ CheckPending(t)
    \/ \E lag \in Lags : IssueWake(t, lag)
    \/ EmitWakeEvent(t)
    \/ RecordWakeSent(t)
    \/ PostWebhook(t)
    \/ DeliveryFailed(t)
    \/ CollectFailing(t)
    \/ ScheduleRetry(t)
    \/ \E done \in BOOLEAN : DeliverySucceeded(t, done)
    \/ AutoAck(t)
    \/ ClearDue(t)

\* The owned-slot workers.
OwnedWorker ==
    \E scope \in 1 .. epoch :
       \/ \E lag \in Lags : LeaseWorker(scope, lag)
       \/ DueWorker(scope)
       \/ RetryWorker(scope)

Sweep ==
    \/ \E lag \in Lags : SweepRead(lag)
    \/ \E readOk \in BOOLEAN : SweepRestore(readOk)
    \/ SweepReemit
    \/ \E lag \in Lags : SweepExpire(lag)
    \/ \E lag \in Lags : SweepWake(lag)

Crash ==
    \/ \E t \in tasks : LoseTask(t)
    \/ LoseSweep
    \/ LoseWakeEvent
    \/ \E f \in issued : LoseFence(f)
    \/ FailForLong
    \/ LoseSchedule

Next ==
    \/ CreateSub \/ DeleteSub \/ StreamAppend
    \/ Tick \/ AgeWakeEvent \/ TransferSlot
    \/ External
    \/ \E t \in tasks : TaskStep(t)
    \/ OwnedWorker
    \/ Sweep
    \/ Crash

Spec == Init /\ [][Next]_vars

\* A worker that reads a wake event claims; whoever holds the current fence
\* finishes with the streams read to their tails.
ClaimOnEvent == event = "unread" /\ Claim(0)
FinishHeld == \E f \in issued : Done(f.gen, f, tail)

\* Replicas keep running their loops, time passes, and live workers answer.
\* Nothing blocks the sweep in the code; here the bound MaxTasks may do so
\* again and again, hence SF.
Fairness ==
    /\ WF_vars(Tick) /\ WF_vars(AgeWakeEvent)
    /\ SF_vars(Sweep)
    /\ WF_vars(\E t \in tasks : TaskStep(t))
    /\ WF_vars(ClaimOnEvent) /\ WF_vars(FinishHeld)

FairSpec == Spec /\ Fairness

-----------------------------------------------------------------------------
(* Properties *)

\* Every variable keeps the shape the Redis schema and the Go structs give it.
TypeOK ==
    /\ sub \in Subs
    /\ acked \in 0 .. MaxTail /\ tail \in 0 .. MaxTail
    /\ sched \subseteq {"lease", "retry", "due"}
    /\ incs \in 0 .. MaxInc /\ epoch \in 0 .. MaxEpoch
    /\ tasks \subseteq Tasks
    /\ sw \in SweepStates
    /\ event \in {"none", "unread"}
    /\ issued \subseteq Fences
    /\ grant \in WakeIds
    /\ faults \in 0 .. MaxFaults

\* A wake in flight can always be recovered from the subscription hash alone,
\* whatever happened to the schedules: it carries a lease deadline, or it is a
\* pull wake nobody has claimed, which the sweep emits again.  A subscription
\* at rest has no fence and no lease entry left for the lease worker to expire.
InFlightIsRecoverable ==
    /\ sub.phase = "live" => sub.leased
    /\ sub.phase = "waking" => (sub.leased \/ PullWake)
    /\ InFlight => sub.wake = <<sub.inc, sub.gen>>
    /\ ~InFlight => sub.wake = NoWake /\ ~sub.leased /\ "lease" \notin sched

\* Why grants are fresh: the newest grant never runs ahead of the record's
\* fence, and the fence of a wake nobody has claimed is newer than any grant,
\* so a claim may reuse it; a live pull claim is always somebody's.
FenceInvariant ==
    /\ InFlightIsRecoverable
    /\ Exists => sub.inc = incs
    /\ PullWake /\ sub.phase = "live" => sub.holder
    /\ grant[1] <= incs
    /\ Exists /\ grant[1] = incs => grant[2] <= sub.gen
    /\ sub.phase = "waking" /\ grant[1] = incs => grant[2] < sub.gen

\* Every claim the server grants carries a fence newer than any it granted
\* before, also across lapse, takeover, and delete and re-create: no two
\* workers are ever told they hold the same (generation, wake_id).
GrantsAreFresh ==
    [][(\E lag \in Lags : Claim(lag)) => Newer(grant', grant)]_vars

\* A claim whose lease has not run out is only ended by a request that names
\* its fence, or by deleting the subscription.  No worker, sweep, late timer
\* or competing claim takes it away early.
LeaseIsHonoured ==
    [][(sub.phase = "live" /\ sub.lease > 0) =>
          \/ sub'.phase = "live" /\ sub'.wake = sub.wake
          \/ sub'.phase = "none"
          \/ \E t \in tasks : AutoAck(t)
          \/ \E tok \in issued, req \in issued :
                \/ Release(tok.gen, req)
                \/ \E off \in 0 .. tail : Done(tok.gen, req, off)]_vars

\* A step taken under an owner scope the slot no longer has moves no cursor and
\* posts nothing, and the only schedules and records it touches are those of
\* the three calls that carry no scope: clearing a due mark; the stamp of an
\* emitted event, which is fenced on its wake and records that the event was
\* sent and nothing else; and recordFailure's deletion of a subscription that it
\* read as failing for longer than gcFailureWindow.
DeposedOwnerIsInert ==
    [][\A t \in tasks \ tasks' :
          OwnerFenced(t.scope) =>
             /\ UNCHANGED <<acked, issued>>
             /\ \/ UNCHANGED <<sub, sched>>
                \/ t.kind = "clear" /\ sub' = sub /\ sched' = sched \ {"due"}
                \/ t.kind = "stamp" /\ sub' = [sub EXCEPT !.sent = "fresh"] /\ sched' = sched
                \/ t.kind = "collect" /\ sub' = Absent /\ sched' = {}]_vars

\* Pending work is always eventually acknowledged, or the subscription is
\* deleted, or it has been woken MaxGen times: no crash, failover or lost wake
\* event leaves it idle, waking or live with nobody about to act.
PendingWorkIsServed ==
    []<>(~Exists \/ ~HasPendingWork \/ sub.gen = MaxGen)

-----------------------------------------------------------------------------
(* Refinement *)

\* Deleting closes the whole incarnation, past its last generation.
NewestFence == IF Exists THEN <<sub.inc, sub.gen>> ELSE <<incs, MaxGen + 1>>

Abstract == INSTANCE FencedCursor
              WITH fence <- NewestFence, open <- InFlight, cursor <- acked

\* The scripts and the steps between them implement a cursor guarded by a
\* fence that is never reused: acks, auto-acks, expiries, takeovers, retries
\* and sweeps are all steps of FencedCursor or change nothing it can see.
ImplementsFencedCursor == Abstract!FSpec

=============================================================================
