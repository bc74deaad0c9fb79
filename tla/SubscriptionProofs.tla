------------------------- MODULE SubscriptionProofs -------------------------
(***************************************************************************)
(* Proofs about Subscription, for every value of its constants.            *)
(***************************************************************************)
EXTENDS Subscription, TLAPS

USE ConstantAssumption DEF ConstantAssumption, Lags

-----------------------------------------------------------------------------
(* Typing *)

\* Pairs of an incarnation and a generation are wake ids, and so is ''.
LEMMA WakeIdType ==
    /\ \A i \in 0 .. MaxInc, g \in 0 .. MaxGen : <<i, g>> \in WakeIds
    /\ NoWake \in WakeIds
BY DEF WakeIds, NoWake

\* Deadlines the scripts write, and the resting value, are in range.
LEMMA LeaseType ==
    /\ 0 \in Leases
    /\ \A lag \in Lags : LeaseTTL - lag \in Leases
BY DEF Leases

\* The absent record and the resting sweep are well formed.
LEMMA ConstantsTyped == Absent \in Subs /\ SweepOff \in SweepStates
<1>1. Absent \in Subs
  BY WakeIdType, LeaseType DEF Absent, Subs
<1>2. SweepOff \in SweepStates
  BY WakeIdType DEF SweepOff, SweepStates
<1> QED
  BY <1>1, <1>2

\* Every task record the actions build is well formed.
LEMMA TaskType ==
    ASSUME NEW kind \in {"check", "issue", "clear", "emit", "stamp",
                         "deliver", "posted", "autoack", "retry", "collect"},
           NEW scope \in 0 .. MaxEpoch, NEW gen \in 0 .. MaxGen,
           NEW wake \in WakeIds, NEW snap \in 0 .. MaxTail
    PROVE  Task(kind, scope, gen, wake, snap) \in Tasks
BY DEF Task, Tasks

\* The scripts that idle a subscription leave a well-formed record.
LEMMA IdledType == sub \in Subs => Idled \in Subs
BY WakeIdType, LeaseType, Zenon DEF Idled, Subs

\* The initial state is well typed.
LEMMA TypeInit == Init => TypeOK
BY WakeIdType, ConstantsTyped DEF Init, TypeOK

\* arm_wake.lua keeps the record and the schedules well formed.
LEMMA ArmType ==
    ASSUME TypeOK, NEW lag \in Lags, ArmWake(lag)
    PROVE  /\ sub' \in Subs
           /\ sched' \subseteq {"lease", "retry", "due"}
           /\ \A scope \in 0 .. MaxEpoch : Dispatch(scope) \in Tasks
<1>1. sub.gen + 1 \in 0 .. MaxGen
  BY DEF TypeOK, Subs, ArmWake
<1>2. <<sub.inc, sub.gen + 1>> \in WakeIds
  BY <1>1, WakeIdType DEF TypeOK, Subs
<1>3. sub' \in Subs
  BY <1>1, <1>2, LeaseType, Zenon DEF TypeOK, Subs, ArmWake
<1>4. sched' \subseteq {"lease", "retry", "due"}
  BY DEF TypeOK, ArmWake
<1>5. \A scope \in 0 .. MaxEpoch : Dispatch(scope) \in Tasks
  BY <1>3 DEF Dispatch, Task, Tasks, Subs
<1> QED
  BY <1>3, <1>4, <1>5

\* Every step keeps the state well typed.
LEMMA TypeStep == TypeOK /\ [Next]_vars => TypeOK'
<1> SUFFICES ASSUME TypeOK, [Next]_vars PROVE TypeOK'
  OBVIOUS
<1> USE DEF TypeOK
<1>1. CASE CreateSub
  <2>1. incs' \in 0 .. MaxInc /\ acked' \in 0 .. MaxTail
    BY <1>1 DEF CreateSub
  <2>2. sub' \in Subs
    BY <1>1, <2>1, ConstantsTyped, Zenon DEF CreateSub, Subs
  <2> QED
    BY <1>1, <2>1, <2>2 DEF CreateSub
<1>2. CASE DeleteSub
  BY <1>2, ConstantsTyped DEF DeleteSub
<1>3. CASE StreamAppend
  BY <1>3, TaskType, WakeIdType DEF StreamAppend
<1>4. CASE Tick
  BY <1>4 DEF Tick, Subs, Leases
<1>5. CASE AgeWakeEvent
  BY <1>5 DEF AgeWakeEvent, Subs
<1>6. CASE TransferSlot
  BY <1>6 DEF TransferSlot
<1>7. CASE External
  <2>1. ASSUME NEW lag \in Lags, Claim(lag) PROVE TypeOK'
    <3> DEFINE reuse == sub.phase = "waking" /\ sub.wake # NoWake
               g == IF reuse THEN sub.gen ELSE sub.gen + 1
               wake == IF reuse THEN sub.wake ELSE <<sub.inc, g>>
    <3>1. g \in 0 .. MaxGen /\ sub.inc \in 0 .. MaxInc
      BY <2>1 DEF Claim, Subs
    <3>2. wake \in WakeIds /\ <<sub.inc, g>> \in WakeIds
      BY <3>1, WakeIdType DEF Subs
    <3> HIDE DEF g, wake
    <3>3. /\ sub' = [sub EXCEPT !.gen = g, !.wake = wake, !.phase = "live",
                                !.holder = TRUE, !.leased = TRUE,
                                !.lease = LeaseTTL - lag]
          /\ issued' = issued \cup {[gen |-> g, wake |-> wake]}
          /\ grant' = <<sub.inc, g>>
      BY <2>1 DEF Claim, g, wake
    <3>4. sub' \in Subs
      BY <3>1, <3>2, <3>3, LeaseType, Zenon DEF Subs
    <3>5. issued' \subseteq Fences
      BY <3>1, <3>2, <3>3 DEF Fences
    <3> QED
      BY <2>1, <3>2, <3>3, <3>4, <3>5 DEF Claim
  <2>2. ASSUME NEW tok \in issued, NEW req \in issued, NEW off \in 0 .. tail,
               Done(tok.gen, req, off)
        PROVE  TypeOK'
    <3>1. acked' \in 0 .. MaxTail
      BY <2>2 DEF Done, AckDone, Larger
    <3>2. sub' \in Subs
      BY <2>2, IdledType, Zenon DEF Done, AckDone, Subs
    <3>3. tasks' \subseteq Tasks
      BY <2>2, TaskType, WakeIdType DEF Done
    <3> QED
      BY <2>2, <3>1, <3>2, <3>3 DEF Done, AckDone
  <2>3. ASSUME NEW tok \in issued, NEW req \in issued, NEW off \in 0 .. tail,
               NEW lag \in Lags, Heartbeat(tok.gen, req, off, lag)
        PROVE  TypeOK'
    <3>1. acked' \in 0 .. MaxTail
      BY <2>3 DEF Heartbeat, Larger
    <3>2. sub' \in Subs
      BY <2>3, LeaseType, Zenon DEF Heartbeat, Subs
    <3> QED
      BY <2>3, <3>1, <3>2 DEF Heartbeat
  <2>4. ASSUME NEW tok \in issued, NEW req \in issued, Release(tok.gen, req)
        PROVE  TypeOK'
    BY <2>4, IdledType, TaskType, WakeIdType DEF Release
  <2> QED
    BY <1>7, <2>1, <2>2, <2>3, <2>4 DEF External
<1>8. ASSUME NEW t \in tasks, TaskStep(t) PROVE TypeOK'
  <2>0. t \in Tasks
    OBVIOUS
  <2>1. CASE CheckPending(t)
    <3>1. Task("issue", t.scope, 0, NoWake, 0) \in Tasks
      BY <2>0, WakeIdType DEF Task, Tasks
    <3> QED
      BY <2>1, <3>1 DEF CheckPending, Continue, Finish
  <2>2. ASSUME NEW lag \in Lags, IssueWake(t, lag) PROVE TypeOK'
    BY <2>0, <2>2, ArmType, ZenonT(40) DEF IssueWake, Continue, Finish, Tasks
  <2>3. CASE EmitWakeEvent(t)
    BY <2>0, <2>3 DEF EmitWakeEvent, Continue, Tasks
  <2>4. CASE RecordWakeSent(t)
    BY <2>4 DEF RecordWakeSent, Finish, Subs
  <2>5. CASE PostWebhook(t)
    <3>1. /\ [t EXCEPT !.kind = "posted", !.snap = tail] \in Tasks
          /\ [gen |-> t.gen, wake |-> t.wake] \in Fences
      BY <2>0, Zenon DEF Tasks, Fences
    <3> QED
      BY <2>5, <3>1 DEF PostWebhook, Continue, Finish
  <2>6. CASE DeliveryFailed(t)
    <3>1. /\ Task("collect", t.scope, 0, NoWake, 0) \in Tasks
          /\ Task("retry", t.scope, t.gen, t.wake, 0) \in Tasks
      BY <2>0, WakeIdType DEF Task, Tasks
    <3> QED
      BY <2>6, <3>1, Zenon DEF DeliveryFailed, Continue, Finish
  <2>10. CASE CollectFailing(t)
    BY <2>10, ConstantsTyped DEF CollectFailing, Finish
  <2>11. CASE ScheduleRetry(t)
    <3>1. /\ [sub EXCEPT !.failed = "recent"] \in Subs
          /\ [sub EXCEPT !.failed = sub.failed] \in Subs
      BY Zenon DEF Subs
    <3>2. sub' \in Subs /\ sched' \subseteq {"lease", "retry", "due"}
      BY <2>11, <3>1, Zenon DEF ScheduleRetry
    <3> QED
      BY <2>11, <3>2 DEF ScheduleRetry, Finish
  <2>7. ASSUME NEW done \in BOOLEAN, DeliverySucceeded(t, done) PROVE TypeOK'
    <3>1. [t EXCEPT !.kind = "autoack"] \in Tasks
      BY <2>0 DEF Tasks
    <3>2. [sub EXCEPT !.failed = "no"] \in Subs
      BY Zenon DEF Subs
    <3> QED
      BY <2>7, <3>1, <3>2, Zenon DEF DeliverySucceeded, Continue, Finish
  <2>8. CASE AutoAck(t)
    <3>1. /\ Task("check", t.scope, 0, NoWake, 0) \in Tasks
          /\ t.snap \in 0 .. MaxTail
      BY <2>0, WakeIdType DEF Task, Tasks
    <3>2. [Idled EXCEPT !.failed = "no"] \in Subs
      BY IdledType, Zenon DEF Subs
    <3>3. Larger(acked, t.snap) \in 0 .. MaxTail
      BY <3>1 DEF Larger
    <3> QED
      BY <2>8, <3>1, <3>2, <3>3, Zenon DEF AutoAck, AckDone, Continue, Finish
  <2>9. CASE ClearDue(t)
    BY <2>9 DEF ClearDue, Finish
  <2> QED
    BY <1>8, <2>1, <2>2, <2>3, <2>4, <2>5, <2>6, <2>7, <2>8, <2>9, <2>10, <2>11
    DEF TaskStep
<1>9. CASE OwnedWorker
  <2> PICK scope \in 1 .. epoch :
          \/ \E lag \in Lags : LeaseWorker(scope, lag)
          \/ DueWorker(scope)
          \/ RetryWorker(scope)
    BY <1>9 DEF OwnedWorker
  <2>0. scope \in 0 .. MaxEpoch
    OBVIOUS
  <2>1. ASSUME NEW lag \in Lags, LeaseWorker(scope, lag) PROVE TypeOK'
    BY <2>1, IdledType DEF LeaseWorker, ExpireLease
  <2>2. CASE DueWorker(scope)
    BY <2>0, <2>2, TaskType, WakeIdType DEF DueWorker
  <2>3. CASE RetryWorker(scope)
    BY <2>0, <2>3, TaskType DEF RetryWorker, Subs
  <2> QED
    BY <2>1, <2>2, <2>3
<1>10. CASE Sweep
  <2>1. ASSUME NEW lag \in Lags, SweepRead(lag) PROVE TypeOK'
    BY <2>1, WakeIdType DEF SweepRead, SweepStates, Subs, HasPendingWork,
       InFlight, Expired
  <2>2. ASSUME NEW readOk \in BOOLEAN, SweepRestore(readOk) PROVE TypeOK'
    <3>1. \A p \in {"reemit", "expire", "wake"} :
             [sw EXCEPT !.restore = FALSE, !.at = p] \in SweepStates
      BY Zenon DEF SweepStates
    <3>2. sw' \in SweepStates
      BY <2>2, <3>1 DEF SweepRestore
    <3> QED
      BY <2>2, <3>2, Zenon DEF SweepRestore
  <2>3. CASE SweepReemit
    BY <2>3, ConstantsTyped, TaskType, SMTT(30) DEF SweepReemit, SweepStates
  <2>4. ASSUME NEW lag \in Lags, SweepExpire(lag) PROVE TypeOK'
    <3>1. sub' \in Subs /\ sched' \subseteq {"lease", "retry", "due"}
      BY <2>4, IdledType DEF SweepExpire, ExpireLease
    <3>2. sw' \in SweepStates
      <4>1. /\ [sw EXCEPT !.at = "wake", !.expire = FALSE, !.idle = TRUE] \in SweepStates
            /\ [sw EXCEPT !.at = "wake", !.expire = FALSE] \in SweepStates
        BY Zenon DEF SweepStates
      <4> QED
        BY <2>4, <4>1, Zenon DEF SweepExpire
    <3> QED
      BY <2>4, <3>1, <3>2 DEF SweepExpire
  <2>5. ASSUME NEW lag \in Lags, SweepWake(lag) PROVE TypeOK'
    <3>1. CASE ArmWake(lag) /\ tasks' = tasks \cup {Dispatch(0)}
      BY <2>5, <3>1, ConstantsTyped, ArmType DEF SweepWake
    <3>2. CASE UNCHANGED <<sub, sched, tasks>>
      BY <2>5, <3>2, ConstantsTyped DEF SweepWake
    <3> QED
      BY <2>5, <3>1, <3>2 DEF SweepWake
  <2> QED
    BY <1>10, <2>1, <2>2, <2>3, <2>4, <2>5 DEF Sweep
<1>11. CASE Crash
  <2>1. faults' \in 0 .. MaxFaults
    BY <1>11 DEF Crash, Fault, LoseTask, LoseSweep, LoseWakeEvent, LoseFence,
       FailForLong, LoseSchedule
  <2>2. ASSUME NEW t \in tasks, LoseTask(t) PROVE TypeOK'
    BY <2>1, <2>2 DEF LoseTask, Finish
  <2>3. CASE LoseSweep
    BY <2>1, <2>3, ConstantsTyped DEF LoseSweep
  <2>4. CASE LoseWakeEvent
    BY <2>1, <2>4 DEF LoseWakeEvent
  <2>5. ASSUME NEW f \in issued, LoseFence(f) PROVE TypeOK'
    BY <2>1, <2>5 DEF LoseFence
  <2>6. CASE LoseSchedule
    BY <2>1, <2>6 DEF LoseSchedule
  <2>7. CASE FailForLong
    <3>1. [sub EXCEPT !.failed = "long"] \in Subs
      BY Zenon DEF Subs
    <3> QED
      BY <2>1, <2>7, <3>1 DEF FailForLong
  <2> QED
    BY <1>11, <2>2, <2>3, <2>4, <2>5, <2>6, <2>7 DEF Crash
<1>12. CASE UNCHANGED vars
  BY <1>12 DEF vars
<1> QED
  BY <1>1, <1>2, <1>3, <1>4, <1>5, <1>6, <1>7, <1>8, <1>9, <1>10, <1>11,
     <1>12 DEF Next

\* The type invariant holds in every reachable state.
THEOREM TypeCorrect == Spec => []TypeOK
BY TypeInit, TypeStep, PTL DEF Spec

-----------------------------------------------------------------------------
(* The fence invariant *)

\* A subscription that does not exist yet satisfies the fence invariant.
LEMMA FenceInit == Init => FenceInvariant
BY DEF Init, FenceInvariant, InFlightIsRecoverable, InFlight, Exists, Absent,
   NoWake

\* Every script, worker, sweep phase and fault keeps the fence invariant: arming
\* and claiming move the generation forward together with the wake id, idling
\* clears wake id, lease and lease entry together.
LEMMA FenceStep == TypeOK /\ FenceInvariant /\ [Next]_vars => FenceInvariant'
<1> SUFFICES ASSUME TypeOK, FenceInvariant, [Next]_vars PROVE FenceInvariant'
  OBVIOUS
<1> USE DEF FenceInvariant, InFlightIsRecoverable, InFlight, Exists
<1>0. /\ sub.gen \in Int /\ sub.inc \in Int /\ incs \in Int
      /\ grant[1] \in Int /\ grant[2] \in Int /\ sub \in Subs
  BY DEF TypeOK, Subs, WakeIds
<1>a. ASSUME NEW lag \in Lags, sub.phase = "idle", ArmWake(lag),
             UNCHANGED <<incs, grant>>
      PROVE  FenceInvariant'
  BY <1>0, <1>a DEF ArmWake, Subs
<1>b. ASSUME Exists, sub' = Idled \/ sub' = [Idled EXCEPT !.failed = "no"],
             "lease" \notin sched', UNCHANGED <<incs, grant>>
      PROVE  FenceInvariant'
  BY <1>0, <1>b, ZenonT(40) DEF Idled, Subs
<1>c. ASSUME UNCHANGED <<incs, grant>>, sched' \subseteq sched \cup {"due", "retry"},
             \/ sub' = sub
             \/ \E v \in {"no", "fresh", "stale"} : sub' = [sub EXCEPT !.sent = v]
             \/ \E v \in {"no", "recent", "long"} : sub' = [sub EXCEPT !.failed = v]
             \/ \E v \in Leases : sub' = [sub EXCEPT !.lease = v]
      PROVE  FenceInvariant'
  BY <1>0, <1>c DEF Subs
<1>1. CASE CreateSub
  BY <1>0, <1>1 DEF CreateSub, Absent
<1>2. CASE DeleteSub
  BY <1>0, <1>2 DEF DeleteSub, Absent
<1>3. CASE StreamAppend
  BY <1>3, <1>c DEF StreamAppend
<1>4. CASE Tick
  <2>1. sub.lease - 1 \in Leases
    BY <1>0, <1>4 DEF Tick, Subs, Leases
  <2> QED
    BY <1>4, <1>c, <2>1 DEF Tick
<1>5. CASE AgeWakeEvent
  BY <1>5, <1>c DEF AgeWakeEvent
<1>6. CASE TransferSlot
  BY <1>6, <1>c DEF TransferSlot
<1>7. CASE External
  <2>1. ASSUME NEW lag \in Lags, Claim(lag) PROVE FenceInvariant'
    BY <1>0, <2>1 DEF Claim, Subs, NoWake
  <2>2. ASSUME NEW tok \in issued, NEW req \in issued, NEW off \in 0 .. tail,
               Done(tok.gen, req, off)
        PROVE  FenceInvariant'
    BY <1>b, <2>2 DEF Done, AckDone
  <2>3. ASSUME NEW tok \in issued, NEW req \in issued, NEW off \in 0 .. tail,
               NEW lag \in Lags, Heartbeat(tok.gen, req, off, lag)
        PROVE  FenceInvariant'
    BY <1>0, <2>3 DEF Heartbeat, Subs
  <2>4. ASSUME NEW tok \in issued, NEW req \in issued, Release(tok.gen, req)
        PROVE  FenceInvariant'
    BY <1>b, <2>4, SMTT(30) DEF Release
  <2> QED
    BY <1>7, <2>1, <2>2, <2>3, <2>4 DEF External
<1>8. ASSUME NEW t \in tasks, TaskStep(t) PROVE FenceInvariant'
  <2>1. CASE CheckPending(t)
    BY <1>c, <2>1 DEF CheckPending
  <2>2. ASSUME NEW lag \in Lags, IssueWake(t, lag) PROVE FenceInvariant'
    <3>1. CASE UNCHANGED <<sub, sched>>
      BY <1>c, <2>2, <3>1 DEF IssueWake
    <3>2. CASE sub.phase = "idle" /\ ArmWake(lag)
      BY <1>a, <2>2, <3>2 DEF IssueWake
    <3> QED
      BY <2>2, <3>1, <3>2 DEF IssueWake
  <2>3. CASE EmitWakeEvent(t)
    BY <1>c, <2>3 DEF EmitWakeEvent
  <2>4. CASE RecordWakeSent(t)
    BY <1>c, <2>4 DEF RecordWakeSent
  <2>5. CASE PostWebhook(t)
    BY <1>c, <2>5 DEF PostWebhook
  <2>6. CASE DeliveryFailed(t)
    BY <1>c, <2>6, Zenon DEF DeliveryFailed
  <2>10. CASE CollectFailing(t)
    BY <1>0, <2>10 DEF CollectFailing, Absent
  <2>11. CASE ScheduleRetry(t)
    <3>1. sub.failed \in {"no", "recent", "long"}
      BY <1>0 DEF Subs
    <3> QED
      BY <1>c, <2>11, <3>1, ZenonT(40) DEF ScheduleRetry
  <2>7. ASSUME NEW done \in BOOLEAN, DeliverySucceeded(t, done)
        PROVE  FenceInvariant'
    BY <1>c, <2>7, ZenonT(40) DEF DeliverySucceeded
  <2>8. CASE AutoAck(t)
    <3>1. CASE UNCHANGED <<sub, sched>>
      BY <1>c, <2>8, <3>1 DEF AutoAck
    <3>2. CASE Exists /\ AckDone(t.snap)
      BY <1>b, <2>8, <3>2 DEF AutoAck, AckDone
    <3> QED
      BY <2>8, <3>1, <3>2, ZenonT(40) DEF AutoAck
  <2>9. CASE ClearDue(t)
    BY <1>c, <2>9 DEF ClearDue
  <2> QED
    BY <1>8, <2>1, <2>2, <2>3, <2>4, <2>5, <2>6, <2>7, <2>8, <2>9, <2>10, <2>11, ZenonT(40)
    DEF TaskStep
<1>9. CASE OwnedWorker
  <2> PICK scope \in 1 .. epoch :
          \/ \E lag \in Lags : LeaseWorker(scope, lag)
          \/ DueWorker(scope)
          \/ RetryWorker(scope)
    BY <1>9 DEF OwnedWorker
  <2>1. ASSUME NEW lag \in Lags, LeaseWorker(scope, lag) PROVE FenceInvariant'
    BY <1>b, <2>1 DEF LeaseWorker, ExpireLease
  <2>2. CASE DueWorker(scope)
    BY <1>c, <2>2 DEF DueWorker
  <2>3. CASE RetryWorker(scope)
    BY <1>c, <2>3 DEF RetryWorker
  <2> QED
    BY <2>1, <2>2, <2>3
<1>10. CASE Sweep
  <2>1. ASSUME NEW lag \in Lags, SweepRead(lag) PROVE FenceInvariant'
    BY <1>c, <2>1 DEF SweepRead
  <2>2. ASSUME NEW readOk \in BOOLEAN, SweepRestore(readOk)
        PROVE  FenceInvariant'
    BY <1>0, <2>2 DEF SweepRestore
  <2>3. CASE SweepReemit
    BY <1>c, <2>3 DEF SweepReemit
  <2>4. ASSUME NEW lag \in Lags, SweepExpire(lag) PROVE FenceInvariant'
    <3>1. CASE UNCHANGED <<sub, sched>>
      BY <1>c, <2>4, <3>1 DEF SweepExpire
    <3>2. CASE InFlight /\ ExpireLease
      BY <1>b, <2>4, <3>2 DEF SweepExpire, ExpireLease
    <3> QED
      BY <2>4, <3>1, <3>2 DEF SweepExpire
  <2>5. ASSUME NEW lag \in Lags, SweepWake(lag) PROVE FenceInvariant'
    <3>1. CASE UNCHANGED <<sub, sched>>
      BY <1>c, <2>5, <3>1 DEF SweepWake
    <3>2. CASE sub.phase = "idle" /\ ArmWake(lag)
      BY <1>a, <2>5, <3>2 DEF SweepWake
    <3> QED
      BY <2>5, <3>1, <3>2 DEF SweepWake
  <2> QED
    BY <1>10, <2>1, <2>2, <2>3, <2>4, <2>5, ZenonT(40) DEF Sweep
<1>11. CASE Crash
  BY <1>11, <1>c
  DEF Crash, LoseTask, LoseSweep, LoseWakeEvent, LoseFence, FailForLong, LoseSchedule
<1>12. CASE UNCHANGED vars
  BY <1>12, <1>c DEF vars
<1> QED
  BY <1>1, <1>2, <1>3, <1>4, <1>5, <1>6, <1>7, <1>8, <1>9, <1>10, <1>11,
     <1>12, ZenonT(40) DEF Next

\* The fence invariant holds in every reachable state, for any lease, clock lag
\* and number of incarnations, replicas and faults.
THEOREM FenceCorrect == Spec => [](TypeOK /\ FenceInvariant)
BY TypeInit, TypeStep, FenceInit, FenceStep, PTL DEF Spec

\* A wake in flight can always be recovered from the subscription hash alone:
\* arm_wake.lua and claim.lua never leave one without a lease or a re-emission.
THEOREM WakesAreRecoverable == Spec => []InFlightIsRecoverable
<1>1. FenceInvariant => InFlightIsRecoverable
  BY DEF FenceInvariant
<1> QED
  BY <1>1, FenceCorrect, PTL

\* claim.lua never grants the same fence twice, nor an older one after a newer.
THEOREM FreshGrants == Spec => GrantsAreFresh
<1>1. ASSUME TypeOK, FenceInvariant, NEW lag \in Lags, Claim(lag)
      PROVE  Newer(grant', grant)
  <2>1. /\ sub.gen \in Int /\ sub.inc \in Int /\ incs \in Int
        /\ grant[1] \in Int /\ grant[2] \in Int
    BY <1>1 DEF TypeOK, Subs, WakeIds
  <2> QED
    BY <1>1, <2>1 DEF Claim, Newer, FenceInvariant, Exists
<1>2. TypeOK /\ FenceInvariant =>
        [(\E lag \in Lags : Claim(lag)) => Newer(grant', grant)]_vars
  BY <1>1
<1> QED
  BY <1>2, FenceCorrect, PTL DEF GrantsAreFresh

-----------------------------------------------------------------------------
(* Owners *)

\* What a step that ends t may do when t's owner scope is not the slot's.
Inert(t) ==
    /\ acked' = acked /\ issued' = issued
    /\ \/ sub' = sub /\ sched' = sched
       \/ t.kind = "clear" /\ sub' = sub /\ sched' = sched \ {"due"}
       \/ t.kind = "stamp" /\ sub' = [sub EXCEPT !.sent = "fresh"] /\ sched' = sched
       \/ t.kind = "collect" /\ sub' = Absent /\ sched' = {}

LEMMA FencedTask ==
    ASSUME NEW t \in tasks, TaskStep(t), OwnerFenced(t.scope)
    PROVE  Inert(t)
<1>1. CASE CheckPending(t)
  BY <1>1 DEF CheckPending, Inert
<1>2. ASSUME NEW lag \in Lags, IssueWake(t, lag) PROVE Inert(t)
  BY <1>2 DEF IssueWake, Inert
<1>3. CASE EmitWakeEvent(t)
  BY <1>3 DEF EmitWakeEvent, Inert
<1>4. CASE RecordWakeSent(t)
  BY <1>4, Zenon DEF RecordWakeSent, Inert
<1>5. CASE PostWebhook(t)
  BY <1>5 DEF PostWebhook, Inert
<1>6. CASE DeliveryFailed(t)
  BY <1>6 DEF DeliveryFailed, Inert
<1>7. ASSUME NEW done \in BOOLEAN, DeliverySucceeded(t, done) PROVE Inert(t)
  BY <1>7, Zenon DEF DeliverySucceeded, Current, Inert
<1>8. CASE AutoAck(t)
  BY <1>8 DEF AutoAck, Inert
<1>9. CASE ClearDue(t)
  BY <1>9, Zenon DEF ClearDue, Inert
<1>10. CASE CollectFailing(t)
  BY <1>10, Zenon DEF CollectFailing, Inert
<1>11. CASE ScheduleRetry(t)
  BY <1>11, Zenon DEF ScheduleRetry, Current, Inert
<1> QED
  BY <1>1, <1>2, <1>3, <1>4, <1>5, <1>6, <1>7, <1>8, <1>9, <1>10, <1>11, Zenon DEF TaskStep

\* Only a step of a task, or the loss of its replica, ends it.
LEMMA TaskEnds ==
    ASSUME [Next]_vars, NEW t \in tasks \ tasks'
    PROVE  TaskStep(t) \/ LoseTask(t)
<1>1. ASSUME NEW u \in tasks, TaskStep(u) PROVE u = t
  <2>1. Finish(u) \/ \E s : Continue(u, s)
    <3>1. CASE CheckPending(u)
      BY <3>1, Zenon DEF CheckPending
    <3>2. ASSUME NEW lag \in Lags, IssueWake(u, lag) PROVE Finish(u) \/ \E s : Continue(u, s)
      BY <3>2, Zenon DEF IssueWake
    <3>3. CASE EmitWakeEvent(u)
      BY <3>3, Zenon DEF EmitWakeEvent
    <3>4. CASE RecordWakeSent(u)
      BY <3>4, Zenon DEF RecordWakeSent
    <3>5. CASE PostWebhook(u)
      BY <3>5, Zenon DEF PostWebhook
    <3>6. CASE DeliveryFailed(u)
      BY <3>6, Zenon DEF DeliveryFailed
    <3>7. ASSUME NEW done \in BOOLEAN, DeliverySucceeded(u, done)
          PROVE  Finish(u) \/ \E s : Continue(u, s)
      BY <3>7, Zenon DEF DeliverySucceeded
    <3>8. CASE AutoAck(u)
      BY <3>8, Zenon DEF AutoAck
    <3>9. CASE ClearDue(u)
      BY <3>9, Zenon DEF ClearDue
    <3>10. CASE CollectFailing(u)
      BY <3>10, Zenon DEF CollectFailing
    <3>11. CASE ScheduleRetry(u)
      BY <3>11, Zenon DEF ScheduleRetry
    <3> QED
      BY <1>1, <3>1, <3>2, <3>3, <3>4, <3>5, <3>6, <3>7, <3>8, <3>9, <3>10, <3>11, Zenon
      DEF TaskStep
  <2> QED
    BY <2>1, Zenon DEF Finish, Continue
<1>2. CASE CreateSub \/ DeleteSub \/ StreamAppend \/ Tick \/ AgeWakeEvent \/ TransferSlot
  BY <1>2, ZenonT(40) DEF CreateSub, DeleteSub, StreamAppend, Tick, AgeWakeEvent, TransferSlot
<1>3. CASE External
  BY <1>3, Zenon DEF External, Claim, Done, Heartbeat, Release
<1>4. CASE OwnedWorker
  BY <1>4, ZenonT(40) DEF OwnedWorker, LeaseWorker, DueWorker, RetryWorker
<1>5. CASE Sweep
  BY <1>5 DEF Sweep, SweepRead, SweepRestore, SweepReemit, SweepExpire, SweepWake
<1>6. CASE Crash
  <2>1. CASE \/ LoseSweep \/ LoseWakeEvent \/ FailForLong \/ LoseSchedule
             \/ \E f \in issued : LoseFence(f)
    BY <2>1 DEF LoseSweep, LoseWakeEvent, FailForLong, LoseSchedule, LoseFence
  <2>2. ASSUME NEW u \in tasks, LoseTask(u) PROVE u = t
    BY <2>2, Zenon DEF LoseTask, Finish
  <2> QED
    BY <1>6, <2>1, <2>2, Zenon DEF Crash
<1>7. CASE UNCHANGED vars
  BY <1>7 DEF vars
<1> QED
  BY <1>1, <1>2, <1>3, <1>4, <1>5, <1>6, <1>7, Zenon DEF Next

\* Whatever a deposed owner had begun, the scripts it still calls change nothing:
\* owner_fenced refuses it.  The three calls without a scope do what they say and
\* no more: drop a due mark, stamp the event of the current wake, and delete a
\* subscription that was read as failing for longer than gcFailureWindow.
THEOREM DeposedInert == Spec => DeposedOwnerIsInert
<1>1. ASSUME [Next]_vars, NEW t \in tasks \ tasks', OwnerFenced(t.scope)
      PROVE  Inert(t)
  <2>1. CASE TaskStep(t)
    BY <1>1, <2>1, FencedTask, Zenon
  <2>2. CASE LoseTask(t)
    BY <2>2 DEF LoseTask, Inert
  <2> QED
    BY <1>1, <2>1, <2>2, TaskEnds, Zenon
<1>2. [Next]_vars =>
         [\A t \in tasks \ tasks' :
             OwnerFenced(t.scope) =>
                /\ UNCHANGED <<acked, issued>>
                /\ \/ UNCHANGED <<sub, sched>>
                   \/ t.kind = "clear" /\ sub' = sub /\ sched' = sched \ {"due"}
                   \/ t.kind = "stamp" /\ sub' = [sub EXCEPT !.sent = "fresh"] /\ sched' = sched
                   \/ t.kind = "collect" /\ sub' = Absent /\ sched' = {}]_vars
  BY <1>1, SMTT(30) DEF Inert
<1> QED
  BY <1>2, PTL DEF Spec, DeposedOwnerIsInert

-----------------------------------------------------------------------------
(* Leases *)

\* A live claim with time left survives every step but its own completion,
\* its own release and a delete.
THEOREM LeasesHonoured == Spec => LeaseIsHonoured
<1> DEFINE Kept == \/ sub'.phase = "live" /\ sub'.wake = sub.wake
                   \/ sub'.phase = "none"
                   \/ \E t \in tasks : AutoAck(t)
                   \/ \E tok \in issued, req \in issued :
                         \/ Release(tok.gen, req)
                         \/ \E off \in 0 .. tail : Done(tok.gen, req, off)
<1>1. ASSUME TypeOK, FenceInvariant, [Next]_vars,
             sub.phase = "live", sub.lease > 0
      PROVE  Kept
  <2>0. sub \in Subs /\ sub.lease \in Int
    BY <1>1 DEF TypeOK, Subs, Leases
  <2>1. \A lag \in Lags : ~Expired(lag)
    BY <1>1, <2>0 DEF Expired
  <2>2. \A lag \in Lags : ~Claim(lag)
    BY <1>1, <2>0 DEF Claim, FenceInvariant
  <2>3. CASE CreateSub \/ DeleteSub
    BY <1>1, <2>3 DEF CreateSub, DeleteSub, Absent
  <2>4. CASE StreamAppend \/ Tick \/ AgeWakeEvent \/ TransferSlot
    BY <1>1, <2>0, <2>4
    DEF StreamAppend, Tick, AgeWakeEvent, TransferSlot, Subs
  <2>5. CASE External
    <3>1. ASSUME NEW tok \in issued, NEW req \in issued,
                 NEW off \in 0 .. tail, NEW lag \in Lags,
                 Heartbeat(tok.gen, req, off, lag)
          PROVE  Kept
      BY <2>0, <3>1, SMTT(30) DEF Heartbeat, Subs
    <3> QED
      BY <2>2, <2>5, <3>1 DEF External
  <2>6. ASSUME NEW t \in tasks, TaskStep(t) PROVE Kept
    <3>1. ASSUME NEW lag \in Lags, IssueWake(t, lag) PROVE Kept
      BY <1>1, <3>1 DEF IssueWake
    <3>2. CASE RecordWakeSent(t)
      BY <1>1, <2>0, <3>2 DEF RecordWakeSent, Subs
    <3>3. CASE CollectFailing(t) \/ ScheduleRetry(t)
      BY <1>1, <2>0, <3>3 DEF CollectFailing, ScheduleRetry, Subs, Absent
    <3>4. ASSUME NEW done \in BOOLEAN, DeliverySucceeded(t, done) PROVE Kept
      BY <1>1, <2>0, <3>4 DEF DeliverySucceeded, Subs
    <3>5. CASE CheckPending(t) \/ EmitWakeEvent(t) \/ PostWebhook(t) \/ DeliveryFailed(t) \/ ClearDue(t)
      BY <1>1, <3>5 DEF CheckPending, EmitWakeEvent, PostWebhook, DeliveryFailed, ClearDue
    <3> QED
      BY <2>6, <3>1, <3>2, <3>3, <3>4, <3>5, ZenonT(40) DEF TaskStep
  <2>7. CASE OwnedWorker
    BY <1>1, <2>1, <2>7 DEF OwnedWorker, LeaseWorker, DueWorker, RetryWorker
  <2>8. CASE Sweep
    BY <1>1, <2>1, <2>8
    DEF Sweep, SweepRead, SweepRestore, SweepReemit, SweepExpire, SweepWake
  <2>9. CASE Crash \/ UNCHANGED vars
    BY <1>1, <2>0, <2>9 DEF Crash, LoseTask, LoseSweep, LoseWakeEvent, LoseFence,
       FailForLong, LoseSchedule, Subs, vars
  <2> QED
    BY <1>1, <2>3, <2>4, <2>5, <2>6, <2>7, <2>8, <2>9 DEF Next
<1>2. TypeOK /\ FenceInvariant /\ [Next]_vars =>
        [(sub.phase = "live" /\ sub.lease > 0) => Kept]_vars
  BY <1>1
<1> QED
  BY <1>2, FenceCorrect, PTL DEF LeaseIsHonoured, Spec

-----------------------------------------------------------------------------
(* Refinement *)

\* The initial state maps to an initial state of FencedCursor.
LEMMA RefinementInit == Init => Abstract!FInit
BY DEF Init, Abstract!FInit, NewestFence, Exists, InFlight, Absent

\* Every step is a step of FencedCursor or leaves its variables alone.
LEMMA RefinementStep ==
    TypeOK /\ TypeOK' /\ FenceInvariant /\ [Next]_vars =>
      [Abstract!FNext]_(Abstract!fvars)
<1> SUFFICES ASSUME TypeOK, TypeOK', FenceInvariant, [Next]_vars
             PROVE  Abstract!FNext \/ UNCHANGED Abstract!fvars
  OBVIOUS
<1> USE DEF NewestFence, Exists, InFlight
<1>0. /\ sub \in Subs /\ sub.gen \in 0 .. MaxGen /\ sub.inc \in Int
      /\ incs \in Int /\ acked \in Nat /\ acked' \in Nat
      /\ sub'.gen \in Int /\ sub'.inc \in Int /\ incs' \in Int
  BY DEF TypeOK, Subs
<1>1. (InFlight') \in BOOLEAN
  OBVIOUS
<1>a. ASSUME sub.phase = "idle", NEW lag \in Lags, ArmWake(lag),
             UNCHANGED <<incs, acked>>
      PROVE  Abstract!Mint
  BY <1>0, <1>a DEF Abstract!Mint, Abstract!Precedes, ArmWake, Subs
<1>b. ASSUME InFlight, sub' = Idled, UNCHANGED <<incs, acked>>
      PROVE  Abstract!Lapse
  BY <1>0, <1>b DEF Abstract!Lapse, Idled, Subs
<1>c. ASSUME InFlight, sub'.gen = sub.gen, sub'.inc = sub.inc,
             sub'.phase # "none", acked' >= acked, UNCHANGED incs
      PROVE  Abstract!Use
  BY <1>0, <1>1, <1>c DEF Abstract!Use
<1>d. ASSUME UNCHANGED <<incs, acked>>, sub'.phase = sub.phase,
             sub'.gen = sub.gen, sub'.inc = sub.inc
      PROVE  UNCHANGED Abstract!fvars
  BY <1>d DEF Abstract!fvars
<1>e. ASSUME NEW tokenGen, NEW req, ~Fenced(tokenGen, req) PROVE InFlight
  BY <1>e DEF Fenced, FenceInvariant, InFlightIsRecoverable
<1>f. ASSUME NEW off \in Nat PROVE Larger(acked, off) >= acked
  BY <1>0 DEF Larger
<1> DEFINE Simulated == Abstract!FNext \/ UNCHANGED Abstract!fvars
<1> USE DEF Abstract!FNext
<1> HIDE DEF NewestFence
<1>g. ASSUME Exists, sub' = Absent, UNCHANGED <<incs, acked>>
      PROVE  Abstract!Restart
  <2>1. /\ NewestFence = <<incs, sub.gen>>
        /\ NewestFence' = <<incs, MaxGen + 1>>
    BY <1>0, <1>g DEF Absent, NewestFence, FenceInvariant
  <2>2. Abstract!Precedes(<<incs, sub.gen>>, <<incs, MaxGen + 1>>)
    BY <1>0 DEF Abstract!Precedes
  <2>3. ~InFlight'
    BY <1>g DEF Absent
  <2> QED
    BY <1>0, <2>1, <2>2, <2>3, SMT DEF Abstract!Restart
<1>2. CASE CreateSub \/ DeleteSub
  <2>1. ASSUME NEW f, NEW g, NewestFence = f, NewestFence' = g,
               g \in Int \X Int, Abstract!Precedes(f, g), ~InFlight'
        PROVE  Abstract!Restart
    BY <1>0, <2>1 DEF Abstract!Restart
  <2>2. CASE CreateSub
    <3>1. NewestFence = <<incs, MaxGen + 1>> /\ NewestFence' = <<incs + 1, 0>>
      BY <1>0, <2>2 DEF CreateSub, Absent, NewestFence
    <3>2. Abstract!Precedes(<<incs, MaxGen + 1>>, <<incs + 1, 0>>)
      BY <1>0 DEF Abstract!Precedes
    <3> QED
      BY <1>0, <2>1, <2>2, <3>1, <3>2 DEF CreateSub, Absent
  <2>3. CASE DeleteSub
    BY <1>g, <2>3 DEF DeleteSub
  <2> QED
    BY <1>2, <2>2, <2>3
<1>3. CASE StreamAppend \/ Tick \/ AgeWakeEvent \/ TransferSlot
  BY <1>0, <1>3, <1>d
  DEF StreamAppend, Tick, AgeWakeEvent, TransferSlot, Subs
<1>4. CASE External
  <2>1. ASSUME NEW lag \in Lags, Claim(lag) PROVE Simulated
    <3>1. CASE sub.phase = "waking" /\ sub.wake # NoWake
      BY <1>0, <1>c, <2>1, <3>1 DEF Claim, Subs
    <3>2. CASE ~(sub.phase = "waking" /\ sub.wake # NoWake)
      BY <1>0, <2>1, <3>2 DEF Claim, Subs, Abstract!Mint, Abstract!Precedes,
         NewestFence
    <3> QED
      BY <3>1, <3>2
  <2>2. ASSUME NEW tok \in issued, NEW req \in issued, NEW off \in 0 .. tail,
               Done(tok.gen, req, off)
        PROVE  Simulated
    <3>1. InFlight
      BY <1>e, <2>2 DEF Done
    <3> QED
      BY <1>0, <1>c, <1>f, <2>2, <3>1 DEF Done, AckDone, Idled, Subs, TypeOK
  <2>3. ASSUME NEW tok \in issued, NEW req \in issued, NEW off \in 0 .. tail,
               NEW lag \in Lags, Heartbeat(tok.gen, req, off, lag)
        PROVE  Simulated
    <3>1. InFlight
      BY <1>e, <2>3 DEF Heartbeat
    <3> QED
      BY <1>0, <1>c, <1>f, <2>3, <3>1 DEF Heartbeat, Subs, TypeOK
  <2>4. ASSUME NEW tok \in issued, NEW req \in issued, Release(tok.gen, req)
        PROVE  Simulated
    BY <1>b, <1>e, <2>4 DEF Release
  <2> QED
    BY <1>4, <2>1, <2>2, <2>3, <2>4 DEF External
<1>5. ASSUME NEW t \in tasks, TaskStep(t) PROVE Simulated
  <2>1. ASSUME NEW lag \in Lags, IssueWake(t, lag) PROVE Simulated
    BY <1>a, <1>d, <2>1 DEF IssueWake
  <2>2. CASE RecordWakeSent(t)
    BY <1>0, <1>d, <2>2 DEF RecordWakeSent, Subs
  <2>3. CASE CollectFailing(t)
    <3>1. CASE Exists
      BY <1>g, <2>3, <3>1 DEF CollectFailing
    <3>2. CASE ~Exists
      <4>1. sub'.phase = "none" /\ UNCHANGED <<incs, acked>>
        BY <2>3 DEF CollectFailing, Absent
      <4> QED
        BY <3>2, <4>1 DEF Abstract!fvars, NewestFence
    <3> QED
      BY <3>1, <3>2
  <2>7. CASE ScheduleRetry(t)
    BY <1>0, <1>d, <2>7 DEF ScheduleRetry, Subs
  <2>4. ASSUME NEW done \in BOOLEAN, DeliverySucceeded(t, done) PROVE Simulated
    BY <1>0, <1>d, <2>4 DEF DeliverySucceeded, Subs
  <2>5. CASE AutoAck(t)
    <3>1. CASE UNCHANGED <<sub, acked>>
      BY <1>d, <2>5, <3>1 DEF AutoAck
    <3>2. CASE ~Fenced(t.gen, t) /\ AckDone(t.snap)
      <4>1. InFlight /\ t.snap \in Nat
        BY <1>e, <3>2 DEF TypeOK, Tasks
      <4> QED
        BY <1>0, <1>c, <1>f, <2>5, <3>2, <4>1
        DEF AutoAck, AckDone, Idled, Subs
    <3> QED
      BY <2>5, <3>1, <3>2 DEF AutoAck
  <2>6. CASE CheckPending(t) \/ EmitWakeEvent(t) \/ PostWebhook(t) \/ DeliveryFailed(t) \/ ClearDue(t)
    BY <1>d, <2>6 DEF CheckPending, EmitWakeEvent, PostWebhook, DeliveryFailed, ClearDue
  <2> QED
    BY <1>5, <2>1, <2>2, <2>3, <2>4, <2>5, <2>6, <2>7 DEF TaskStep
<1>6. CASE OwnedWorker
  BY <1>b, <1>d, <1>6
  DEF OwnedWorker, LeaseWorker, DueWorker, RetryWorker, ExpireLease
<1>7. CASE Sweep
  <2>1. ASSUME NEW lag \in Lags, SweepExpire(lag) PROVE Simulated
    BY <1>b, <1>d, <2>1 DEF SweepExpire, ExpireLease
  <2>2. ASSUME NEW lag \in Lags, SweepWake(lag) PROVE Simulated
    BY <1>a, <1>d, <2>2 DEF SweepWake
  <2> QED
    BY <1>d, <1>7, <2>1, <2>2 DEF Sweep, SweepRead, SweepRestore, SweepReemit
<1>8. CASE Crash \/ UNCHANGED vars
  BY <1>0, <1>8, <1>d DEF Crash, LoseTask, LoseSweep, LoseWakeEvent, LoseFence,
     FailForLong, LoseSchedule, Subs, vars
<1> QED
  BY <1>2, <1>3, <1>4, <1>5, <1>6, <1>7, <1>8 DEF Next

\* The Lua scripts, interleaved in any order with each other, with stale calls
\* and with faults, implement the abstract cursor guarded by a fence.
THEOREM Refinement == Spec => ImplementsFencedCursor
BY RefinementInit, RefinementStep, FenceCorrect, PTL
DEF Spec, ImplementsFencedCursor, Abstract!FSpec

=============================================================================
