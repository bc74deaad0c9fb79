----------------------------- MODULE Durability -----------------------------
(***************************************************************************)
(* The durability tiers of the fence-minting writes.                       *)
(*                                                                         *)
(* Every wake and every claim rests on a (generation, wake id) pair that a *)
(* script mints on the Redis primary.  The primary persists and replicates *)
(* its writes later, so a restart or a failover can take a minted pair     *)
(* back.  Tier B puts a WAITAOF barrier, on the connection that minted the *)
(* pair, between the mint and the moment the pair leaves the server; tiers *)
(* A and C do not.  The boot check refuses a tier B deployment whose Redis *)
(* cannot answer the barrier.                                              *)
(*                                                                         *)
(* The subscription is one hash, written by one script at a time: log is   *)
(* the sequence of its versions, synced and mirrored are how much of it    *)
(* the primary's own file and the replica hold.                            *)
(***************************************************************************)
EXTENDS Integers, Sequences, FiniteSets

CONSTANTS
    Scenes,     \* the deployments: tier setting, Redis topology, dispatch type
    Managers,   \* goroutines of the server that issue wakes
    Workers,    \* pull-wake workers, or the webhook's endpoints
    Nobody

VARIABLES
    scene,      \* the deployment, chosen once
    server,     \* booting, refused or serving
    replica,    \* none, syncing or online
    log,        \* the versions of the subscription's hash, oldest first
    synced,     \* versions the primary has fsynced
    mirrored,   \* versions the replica has fsynced
    era,        \* restarts and failovers so far: connections do not cross one
    minted,     \* wake ids used so far: random, so never drawn again
    proc,       \* what each goroutine or claim request is in the middle of
    held,       \* the fence each worker was handed and has not acknowledged
    proven,     \* fences whose barrier was satisfied
    out,        \* fences that left the server, and by which path
    budget      \* faults, short replies and lapses still to come

vars == <<scene, server, replica, log, synced, mirrored, era, minted, proc,
          held, proven, out, budget>>

redis == <<replica, log, synced, mirrored, era>>

\* What the proofs assume of the constants.
Constants ==
    /\ \A s \in Scenes : s.replica \in {"none", "syncing", "online"} /\ s.want \in Int
    /\ Managers \cap Workers = {} /\ "issue" \notin Workers /\ "sweep" \notin Workers

NoFence == [gen |-> 0, wake |-> 0]
Rest == [at |-> "none", fence |-> NoFence, offset |-> 0, era |-> 0]

Cur == log[Len(log)]
Fence(sub) == [gen |-> sub.gen, wake |-> sub.wake]

-----------------------------------------------------------------------------
(* The tier and its barrier *)

\* The tier named by the configuration: a tier letter behind an optional
\* "tier" prefix, in any case; anything else stops the configuration loading.
ParseConsistencyTier(v) ==
    CASE v \in {"", "a"} -> "A"
      [] v = "b"         -> "B"
      [] v = "c"         -> "C"
      [] OTHER           -> "error"

Tier == ParseConsistencyTier(scene.config)

\* Only tier B waits: one local fsync and the configured number of replicas.
DurabilityFor(tier, numReplicas) ==
    IF tier # "B"
    THEN [wait |-> FALSE, numLocal |-> 0, numReplicas |-> 0]
    ELSE [wait |-> TRUE, numLocal |-> 1,
          numReplicas |-> IF numReplicas < 0 THEN 0 ELSE numReplicas]

Plan == DurabilityFor(Tier, scene.want)

\* The replicas INFO reports: the online ones of the per-replica lines, or the
\* header's count where the service hides those lines.
ParseConnectedReplicas(state, redacted) ==
    IF redacted
    THEN IF state = "none" THEN 0 ELSE 1
    ELSE IF state = "online" THEN 1 ELSE 0

\* The boot check: a tier B deployment needs the append-only file and as many
\* replicas as its barrier asks for.
AssertAOFEnabled(tier, aof, online, want) ==
    tier # "B" \/ (aof /\ want <= online)

\* What WAITAOF answers for a connection that has written up to an offset.
waitAOFCounts(offset) ==
    [local |-> IF synced >= offset THEN 1 ELSE 0,
     replicas |-> IF replica = "online" /\ mirrored >= offset THEN 1 ELSE 0]

\* The verdict: durable only when both counts meet the plan.
InterpretWaitAOF(plan, got) ==
    got.local >= plan.numLocal /\ got.replicas >= plan.numReplicas

-----------------------------------------------------------------------------
(* Boot *)

Init ==
    /\ scene \in Scenes
    /\ server = "booting"
    /\ replica = scene.replica
    /\ log = <<[phase |-> "idle", gen |-> 0, wake |-> 0, worker |-> Nobody,
                leased |-> FALSE, sent |-> FALSE, owed |-> TRUE]>>
    /\ synced = 1
    /\ mirrored = IF scene.replica = "online" THEN 1 ELSE 0
    /\ era = 0
    /\ minted = 0
    /\ proc = [a \in Managers \cup Workers |-> Rest]
    /\ held = [w \in Workers |-> NoFence]
    /\ proven = {}
    /\ out = {}
    /\ budget = scene.budget

\* The server reads its configuration and asks Redis whether it can honour the
\* tier; a deployment that cannot does not start.
Boot ==
    /\ server = "booting"
    /\ server' =
         IF /\ Tier # "error"
            /\ AssertAOFEnabled(Tier, scene.aof,
                 ParseConnectedReplicas(replica, scene.redacted), scene.want)
         THEN "serving" ELSE "refused"
    /\ UNCHANGED <<scene, redis, minted, proc, held, proven, out, budget>>

-----------------------------------------------------------------------------
(* Redis: persistence, replication and faults (external) *)

Persist ==
    /\ scene.aof
    /\ synced < Len(log)
    /\ synced' = Len(log)
    /\ UNCHANGED <<scene, server, replica, log, mirrored, era, minted, proc,
                   held, proven, out, budget>>

Replicate ==
    /\ replica # "none"
    /\ replica = "syncing" \/ mirrored < Len(log)
    /\ replica' = "online"
    /\ mirrored' = Len(log)
    /\ UNCHANGED <<scene, server, log, synced, era, minted, proc, held, proven,
                   out, budget>>

Smaller(a, b) == IF a < b THEN a ELSE b

\* The primary dies and comes back with what its file holds.
Restart ==
    /\ budget.faults > 0
    /\ log' = SubSeq(log, 1, synced)
    /\ mirrored' = Smaller(mirrored, synced)
    /\ era' = era + 1
    /\ budget' = [budget EXCEPT !.faults = @ - 1]
    /\ UNCHANGED <<scene, server, replica, synced, minted, proc, held, proven, out>>

\* The primary is lost and the replica promoted; the old primary rejoins as
\* its replica with the promoted data.
Failover ==
    /\ budget.faults > 0
    /\ replica = "online"
    /\ log' = SubSeq(log, 1, mirrored)
    /\ synced' = mirrored
    /\ era' = era + 1
    /\ budget' = [budget EXCEPT !.faults = @ - 1]
    /\ UNCHANGED <<scene, server, replica, mirrored, minted, proc, held, proven, out>>

-----------------------------------------------------------------------------
(* The scripts *)

\* A script's write: the primary has a new version, nothing else does yet.
Write(sub) == log' = log \o <<sub>>

ArmScript(sub, wake) ==
    [sub EXCEPT !.phase = "waking", !.gen = @ + 1, !.wake = wake,
                !.worker = Nobody, !.leased = (scene.kind = "webhook"),
                !.sent = FALSE]

ClaimReusing(sub, w, wake) ==
    LET new == IF sub.wake = 0
               THEN [sub EXCEPT !.gen = @ + 1, !.wake = wake]
               ELSE sub
    IN [new EXCEPT !.phase = "live", !.worker = w, !.leased = TRUE]

\* The first claim of an issued wake keeps its fence; every other grant,
\* the takeover of a lapsed lease included, rotates it.
ClaimScript(sub, w, wake) ==
    LET new == IF sub.phase = "waking"
               THEN sub
               ELSE [sub EXCEPT !.gen = @ + 1, !.wake = wake]
    IN [new EXCEPT !.phase = "live", !.worker = w, !.leased = TRUE]

DoneScript(sub) ==
    [sub EXCEPT !.phase = "idle", !.wake = 0, !.worker = Nobody,
                !.leased = FALSE, !.owed = FALSE]

ExpireScript(sub) ==
    [sub EXCEPT !.phase = "idle", !.wake = 0, !.worker = Nobody,
                !.leased = FALSE]

-----------------------------------------------------------------------------
(* Mint, barrier, externalize *)

\* After a mint: tier B waits on the very connection that ran the script, at
\* the offset its write has reached; the others go on at once.
Mint(fence) ==
    IF Plan.wait
    THEN [at |-> "barrier", fence |-> fence, offset |-> Len(log) + 1, era |-> era]
    ELSE [at |-> "ready", fence |-> fence, offset |-> 0, era |-> era]

\* A wake is issued for an idle subscription with pending work.
ArmWake(m) ==
    LET sub == ArmScript(Cur, minted + 1) IN
    /\ server = "serving"
    /\ proc[m].at = "none"
    /\ Cur.phase = "idle" /\ Cur.owed
    /\ Write(sub)
    /\ minted' = minted + 1
    /\ proc' = [proc EXCEPT ![m] = Mint(Fence(sub))]
    /\ UNCHANGED <<scene, server, replica, synced, mirrored, era, held, proven,
                   out, budget>>

Premature(fence) == \E w \in Workers : held[w] = fence
InFlight(fence) == \E a \in DOMAIN proc : proc[a].fence = fence

\* A lease lapses.  Where somebody is still at work under it the lapse is one
\* of a bounded number; a lease nobody can use any more always lapses.
Lapses(fence) ==
    IF Premature(fence) \/ InFlight(fence)
    THEN /\ budget.lapses > 0
         /\ budget' = [budget EXCEPT !.lapses = @ - 1]
    ELSE budget' = budget

\* What a granted claim does next: the barrier of the tier, for a rotated and
\* for a kept fence alike.
ClaimReply(w, sub) == Mint(Fence(sub))

\* A worker claims: refused while another worker's lease is live.
ClaimAuthorized(w) ==
    LET sub == ClaimScript(Cur, w, minted + 1) IN
    /\ server = "serving"
    /\ scene.kind = "pull-wake"
    /\ proc[w].at = "none" /\ held[w] = NoFence
    /\ Cur.owed
    /\ IF Cur.phase = "live" THEN Lapses(Fence(Cur)) ELSE budget' = budget
    /\ Write(sub)
    /\ minted' = IF sub.wake > minted THEN sub.wake ELSE minted
    /\ proc' = [proc EXCEPT ![w] = ClaimReply(w, sub)]
    /\ UNCHANGED <<scene, server, replica, synced, mirrored, era, held, proven, out>>

\* The barrier answers.  A connection of an earlier era is broken; a reply that
\* is short of the plan is an error, and the fence stays in the server.
awaitDurableOn(a) ==
    LET p == proc[a]
        durable == p.era = era /\ InterpretWaitAOF(Plan, waitAOFCounts(p.offset))
    IN /\ p.at = "barrier"
       /\ IF durable
          THEN /\ proc' = [proc EXCEPT ![a].at = "ready"]
               /\ proven' = proven \cup {p.fence}
               /\ budget' = budget
          ELSE /\ IF p.era = era
                  THEN /\ budget.shorts > 0
                       /\ budget' = [budget EXCEPT !.shorts = @ - 1]
                  ELSE budget' = budget
               /\ proc' = [proc EXCEPT ![a] = Rest]
               /\ UNCHANGED proven
       /\ UNCHANGED <<scene, server, redis, minted, held, out>>

\* The stamp that a wake event was appended, fenced on the current pair.
Stamp(fence) ==
    IF Fence(Cur) = fence THEN Write([Cur EXCEPT !.sent = TRUE]) ELSE UNCHANGED log

\* The wake leaves the server: a POST to one of the endpoints, or an event on
\* the wake stream followed by its stamp.
Dispatch(m) ==
    LET p == proc[m] IN
    /\ p.at \in {"ready", "reemit"}
    /\ out' = out \cup {[fence |-> p.fence,
                         by |-> IF p.at = "ready" THEN "issue" ELSE "sweep"]}
    /\ proc' = [proc EXCEPT ![m] = Rest]
    /\ IF scene.kind = "webhook"
       THEN /\ \E w \in Workers : held' = [held EXCEPT ![w] = p.fence]
            /\ UNCHANGED log
       ELSE /\ Stamp(p.fence)
            /\ UNCHANGED held
    /\ UNCHANGED <<scene, server, replica, synced, mirrored, era, minted,
                   proven, budget>>

\* The sweep finds a pull-wake whose event was never stamped and re-emits it
\* under the fence it read.
ReemitPullWake(m) ==
    /\ server = "serving"
    /\ scene.kind = "pull-wake"
    /\ proc[m].at = "none"
    /\ Cur.phase = "waking" /\ ~Cur.sent
    /\ proc' = [proc EXCEPT ![m] = [Rest EXCEPT !.at = "reemit", !.fence = Fence(Cur)]]
    /\ UNCHANGED <<scene, server, redis, minted, held, proven, out, budget>>

\* The process dies between the mint and the dispatch.
ManagerDies(m) ==
    /\ budget.faults > 0
    /\ proc[m].at # "none"
    /\ proc' = [proc EXCEPT ![m] = Rest]
    /\ budget' = [budget EXCEPT !.faults = @ - 1]
    /\ UNCHANGED <<scene, server, redis, minted, held, proven, out>>

\* A claim's authority reaches the worker.
ReturnClaim(w) ==
    /\ proc[w].at = "ready"
    /\ held' = [held EXCEPT ![w] = proc[w].fence]
    /\ out' = out \cup {[fence |-> proc[w].fence, by |-> w]}
    /\ proc' = [proc EXCEPT ![w] = Rest]
    /\ UNCHANGED <<scene, server, redis, minted, proven, budget>>

\* A worker reports its work done; a pair that is no longer current is fenced.
Ack(w) ==
    /\ held[w] # NoFence
    /\ IF held[w] = Fence(Cur) THEN Write(DoneScript(Cur)) ELSE UNCHANGED log
    /\ held' = [held EXCEPT ![w] = NoFence]
    /\ UNCHANGED <<scene, server, replica, synced, mirrored, era, minted, proc,
                   proven, out, budget>>

\* The lease worker returns a lapsed subscription to idle.
ExpireLease ==
    /\ server = "serving"
    /\ Cur.phase # "idle" /\ Cur.leased
    /\ Lapses(Fence(Cur))
    /\ Write(ExpireScript(Cur))
    /\ UNCHANGED <<scene, server, replica, synced, mirrored, era, minted, proc,
                   held, proven, out>>

-----------------------------------------------------------------------------

Next ==
    \/ Boot \/ Persist \/ Replicate \/ Restart \/ Failover \/ ExpireLease
    \/ \E m \in Managers :
         ArmWake(m) \/ ReemitPullWake(m) \/ Dispatch(m) \/ ManagerDies(m)
    \/ \E w \in Workers : ClaimAuthorized(w) \/ ReturnClaim(w) \/ Ack(w)
    \/ \E a \in Managers \cup Workers : awaitDurableOn(a)

Spec == Init /\ [][Next]_vars

\* Redis flushes and replicates, barriers answer, workers and the recovery
\* loops keep running; nothing is assumed of faults.
FairSpec ==
    /\ Spec
    /\ WF_vars(Boot) /\ WF_vars(Persist) /\ WF_vars(Replicate)
    /\ WF_vars(ExpireLease)
    /\ \A m \in Managers :
         WF_vars(ArmWake(m)) /\ WF_vars(ReemitPullWake(m)) /\ WF_vars(Dispatch(m))
    /\ \A w \in Workers :
         WF_vars(ClaimAuthorized(w)) /\ WF_vars(ReturnClaim(w)) /\ WF_vars(Ack(w))
    /\ \A a \in Managers \cup Workers : WF_vars(awaitDurableOn(a))

-----------------------------------------------------------------------------
(* Properties *)

\* The shape of the state: an idle subscription has no wake id, a busy one
\* does, and neither the file nor the replica is ahead of the primary.
TypeOK ==
    /\ server \in {"booting", "refused", "serving"}
    /\ replica \in {"none", "syncing", "online"}
    /\ synced \in 1..Len(log) /\ mirrored \in 0..Len(log)
    /\ Cur.phase \in {"idle", "waking", "live"}
    /\ (Cur.phase = "idle") <=> (Cur.wake = 0)
    /\ Cur.wake \in 0..minted
    /\ \A a \in Managers \cup Workers :
         proc[a].at \in {"none", "barrier", "ready", "reemit"}

\* A fence whose barrier was satisfied is never taken back: no restart and no
\* failover leaves Redis with an older generation, so its generation is never
\* minted a second time (awaitDurableOn before dispatch and before a claim's
\* reply).
ProvenFencesSurvive == \A f \in proven : Cur.gen >= f.gen

\* Two workers are never granted one (generation, wake id) pair, whatever the
\* log.
NoDoubleGrant ==
    \A x, y \in out :
        (x.by \in Workers /\ y.by \in Workers /\ x.fence = y.fence) => x.by = y.by

\* Under tier B no crash leads to a double grant: a claim is returned only when
\* the write that recorded its holder can no longer be lost.
GrantsAreExclusive == Plan.wait => NoDoubleGrant

\* Under tier B no fence leaves the server before its barrier was satisfied,
\* by the issuing path or by a claim.
NothingLeavesUnproven ==
    Plan.wait => \A x \in out : x.by # "sweep" => x.fence \in proven

\* The documented form: the barrier precedes every external dispatch.
BarrierPrecedesDispatch == Plan.wait => \A x \in out : x.fence \in proven

\* The barrier asks for the replica that a failover would promote.
Covered == scene.replica = "none" \/ scene.want >= 1

Finished == server = "serving" => ~Cur.owed

\* A deployment that was allowed to start gets its work done once faults,
\* short replies and lapses are over: a lost or unproven wake is issued again.
WorkIsDone == <>[]Finished

=============================================================================
