# A verification of chronicle in TLA+

chronicle is a Durable Streams server: append-only streams over HTTP, stored in
Redis, with subscriptions that wake workers when linked streams have unread
data.  This directory holds TLA+ modules translated from its source, TLC
configurations that check them on small instances, and theorems proved with
TLAPS for every value of the constants.  `PROJECT.json` lists the runs, the
mutants that show each property can fail, the map from definitions to source
lines, the hazards, the findings and the theorems.

## The system and its parts

| part | module | what is hard | what makes it correct |
|---|---|---|---|
| stream log (`store/redis`, `handler.go`) | `StreamLog`, `AppendLog` | appends are framed against a tail read earlier; producers retry; a response is several scripts | each producer batch is stored once and in order, answers are true, a response is one snapshot, a closed stream is final |
| forks | `ForkRefs` | the two streams are in different slots, so nothing is atomic | refcounts are exact, and a fork's source is there and is the same stream as long as the fork lives, but for one reference per reply that was lost |
| subscription lifecycle (`webhook/`) | `Subscription`, `FencedCursor` | replicas, workers and timers act on one record; a replica may stop between two scripts | fences are fresh, a running lease is honoured, cursors move only under the current fence, pending work is served |
| slot ownership | `SlotOwnership` | replicas act on old views; old and new versions run side by side | one owner per epoch; a deposed owner's steps have no effect |
| write fence | `AppendFence` | seals, grants and late appends in any order | nothing is appended under a generation that was sealed |
| append gate, tokens | `AppendGate`, `TokenLife`, `UserKeys` | the world changes between a check and its use | only the entitled act; the token of a short lease lives as long as the lease |
| control plane | `ControlPlane` | a handler authorizes what it read and commits on what is stored | what is committed was authorized |
| dirty queue | `DirtyQueue` | coalescing and overflow while work is in progress | no append goes unnoticed |
| links and fan-out index | `FanOut` | index and links are in different slots | they converge |
| waiting for data | `Notify` | registration racing an append or a reconnect | nobody sleeps over data or is left waiting |
| SSE hub | `SSEHub` | clients attach while the hub reads | each client sees every message once and in order |
| segment store | `Segments`, `SegmentCodec` | a crash between any two steps; corruption; power loss | reads are exact, what is published is durable |
| in-memory store | `StoreEquivalence` | two implementations of one interface | they show the same streams |
| key rotation | `KeyRotation` | replicas with different snapshots of the keys | rotation strands no token |
| durability tiers | `Durability` | a restart or failover takes minted fences back | tier B grants no pair twice |
| linearizability checkers | `StoreOracle`, `FenceOracle` | a checker that rejects a correct server, or follows a wrong model | an alarm has a cause |

The parts interact like this.  A successful append calls `OnStreamAppend`,
which queues a hint; the dirty worker reads the subscribers of the stream and
arms a wake for each that is idle and behind.  A webhook wake is posted; a
pull wake is an event appended to a wake stream, which a worker reads before it
claims.  Claims and webhook notifications may carry write tokens, checked by
the append gate and again by the append script.  Slot owners run the lease, due
and retry workers; any replica runs the recovery sweep.

## How the modules correspond to the code

A Lua script is one action, because Redis runs it atomically.  Go code between
two scripts is a record that remembers what the function has read and how far
it got, so that any other step may fall in between and a crash may drop it.
Requests, timers, crashes, lost replies and failovers are actions.  Time is a
number of ticks that are left, or only an order where that is all the code
depends on.  Names are those of the source.

* `Subscription` models one subscription with one linked stream.  `sub` is the
  record, `acked` and `tail` the cursor and the stream's tail, `sched` the ZSETs
  it is a member of, `epoch` the owner epoch of its slot, `tasks` what Go
  functions remember between scripts, `sw` the recovery sweep's snapshot.  A
  record that fails to be delivered counts as failing recently or for longer
  than `gcFailureWindow` (the fault `FailForLong`); `recordFailure` reads which,
  and then schedules a retry under its owner's scope or deletes the subscription
  under none, so the record may have changed in between.  Calls
  from outside use any fence that was ever handed out, with the token of any
  other.  A script's timestamp may be `MaxLag` old.  Steps of slot owners carry
  the epoch they were started under; that an epoch has one owner is proved in
  `SlotOwnershipProofs`.  `FencedCursor` is what a subscription promises.
* `StreamLog` models one stream without forks: `stream` its keys, `prods` the
  producer hash, `calls` and `reads` what a handler or a paging read remembers,
  `told` the answers given.  A request may be received any number of times.
  `AppendLog` is the promise: a log that only grows, final once closed, replaced
  only by a new incarnation.
* `ForkRefs` models creation and deletion of forks: per path its phase,
  refcount, source and incarnation, per client the step a request has reached.
  go-redis sends a script again when its reply is lost, and the scripts cannot
  tell (redis_store.go:1547-1551).  Two histories keep the account of what that
  does, and of crashes: `lost` counts the references that nobody will give back,
  `twice` those used twice, because both runs of decr_ref.lua gave them back or
  because a fork exists whose creation went unanswered.
* `AppendFence` models the claim of one subscription as its linked streams see
  it: `marker` per stream and authority (one incarnation of the subscription),
  `stream` the log with its seals and bound producers, `calls` the manager calls
  that grant or seal link by link, `writes` the appends between the pre-check
  and the store.  Time is reduced to the order in which leases end.
* `SlotOwnership`: membership heartbeats, rendezvous targets, the batched slot
  claim with the reservation that keeps the previous release out during a
  rolling deploy, the scopes that workers hold.
* `KeyRotation`: the custody source (a Redis hash with pointer and denylist, or
  a mounted file), per replica the snapshot in force and the `ReloadKeys` calls
  in flight, one token in flight.  A snapshot may be of any age, because
  `keysReloadLoop` keeps the last good one for as long as its reloads fail.
* `Durability`: the versions of the subscription's hash, how much of them the
  primary's file and the replica hold, and the barrier between minting a fence
  and letting it out.
* `DirtyQueue` (ring, entry states, overflow epochs, worker and sweep),
  `Notify` (waiters, the actor, its Pub/Sub connection), `SSEHub` (hub registry,
  shared reads, replay ring), `FanOut` (links, index, hooks, backfill, both
  reconcilers), `Segments` (hot log, blocks, manifest, cutover state, pins),
  `SegmentCodec` (the format and both decoders over abstract bytes),
  `StoreEquivalence` (both stores side by side), `AppendGate` (one request
  through both phases), `TokenLife`, `UserKeys`, `ControlPlane`, `StoreOracle`
  and `FenceOracle` each say in their head comment what their state stands for.

The `MC` modules give constants their values.  Components that ask a question
of the same kind share a run: the MC module extends one of them, instantiates
the others, and a variable `part` says which of them a behaviour follows.
Nothing is shared between the parts, so each is checked as if alone.

## Runs

Every time is with two workers.  Deadlock is not checked: every part may come
to rest when no request arrives.

| run | checks | bounds |
|---|---|---|
| `SubscriptionPull` | `FenceInvariant`, `GrantsAreFresh`, `LeaseIsHonoured`, and that `Subscription` implements `FencedCursor` | two incarnations (a deleted and a re-created record), two generations (a lapsed and a current fence), two tasks (every pair of replica steps), timestamps one tick old; 3 min |
| `SubscriptionWebhook` | `InFlightIsRecoverable`, `DeposedOwnerIsInert`, `PendingWorkIsServed` | two slot owners, one fault (a crash, a lost fence or schedule, or a webhook that has failed for long); 3.5 min |
| `SubscriptionPullLive` | `PendingWorkIsServed` with pull-wake dispatch | three generations, one fault; 1 min |
| `StreamLog` | `ProducerLogIsExact`, `AnsweredIsStored`, `ReadsAreOneSnapshot`, `ImplementsAppendLog` | two handlers; one producer with a batch, an epoch bump, a closing append and an invalid body, or a reader with pages of two frames beside writers; two incarnations; 1 min |
| `ForkRefs` | `RefcountIsExact`, `SourceOutlivesForks`, `SoftDeletedIsCollected` | three paths (a chain of two forks, or a re-created source), two requests, expiry, crashes, lost replies that use one reference twice, refcounts up to 2; 1.7 min |
| `AppendFence` | `SealsAreFinal`, `BoundProducersStayFenced`, `ClaimsDoNotInterleave` | two calls and two appends on one stream, two generations, re-creation of the stream; 2 min |
| `Storage` | `ViewsAgree` (both stores), `ReadIsExact`, `SealedPrefixIsTrue`, `PublishedIsDurable` (segments), `DrainIsExact` (codec) | a handful of calls each, a crash, a power loss, a corrupt object; 2 min |
| `Access` | `OnlyTheEntitledAct`, `VerifyAgreesWithGate`, `CommitsAreEntitled`, `LostClaimsAreSealed`, `TokenOutlivesShortLease`, `PublishedKeyIsFound` | one request with up to the named number of events around it; two control requests in enforce and in insecure mode; leases of 3, 4 and 6 ticks with a renewal threshold of 3 and requests that take up to 4; two keys; 2 min |
| `Fleet` | `EpochHasOneOwner`, `ScopeIsContinuous`, `DeliveryIsExact`, `FenceAlarmHasACause`, `LogAlarmHasACause` | two new replicas and an old one on one slot; two SSE clients on a replay ring of two events, which evicts, with logs of up to five; two recorded clients; 3 min |
| `Waiting` | `EveryAppendIsNoticed`, `NobodySleepsOverData`, `NobodyIsLeftWaiting` | a queue of two with three streams, so that it overflows; two waiters on a connection that breaks; 2 min |
| `Recovery` | `TokensOutliveRotation`, `GrantsAreExclusive`, `LinksConverge` | two replicas, three keys and snapshots of any age; ten deployments with up to two faults; two overlapping link calls; 3 min |
| `NoDoubleGrant` | a statement of `scenario_failover.go` that does not hold under tier A | expected violation |

The bound on generations appears in `PendingWorkIsServed`, because a
subscription that has used them all cannot be armed again in the model.
`ClaimsDoNotInterleave` speaks of grants that do not outlast a tombstone
(`appendFenceRetention`).  Without that the order can break: a generation that
missed its seal can be granted again by a late request after its successor's
grant was rolled back and the tombstone forgotten, because a rollback leaves no
seal.  INVARIANTS.md says that a delayed grant is refused whatever the
retention; that holds for sealed generations only.  In `Fleet` the constraint
stops a behaviour once a checker has raised its alarm.

Fairness.  Replicas run their loops on timers (`Start`, `recoveryLoop`), so a
task is continued and the sweep runs; time passes; a
worker that reads an event claims, and the holder of the current fence
eventually finishes.  Nothing is assumed of the owned-slot workers or of
requests in general: the sweep alone must recover.  Strong fairness of the
sweep makes up for the bound on tasks, which the code does not have.  In
`ForkRefs`, `FanOut`, `Notify` and `DirtyQueue` a call that has begun
continues, and the periodic passes come round; a connection that breaks is
retried; nothing is assumed of failures, except that they are finitely many.
The floor of `DirtyQueue` has strong fairness because it shares one loop with
the requested sweeps.

## Proofs

Eight modules hold theorems.  Each extends its component, so a theorem speaks
of the same definitions as the run.  What is proved holds for every value of
the constants that meets the assumption named; TLC evaluates the assumptions on
the runs' values, and has checked each inductive invariant below on an instance
with the run's constants.

* `SubscriptionProofs`, from `ConstantAssumption` (in particular a clock lag
  shorter than the lease): `TypeCorrect`, `FenceCorrect`, `WakesAreRecoverable`,
  `FreshGrants`, `LeasesHonoured`, `DeposedInert` and `Refinement` (every step of
  `Subscription` is a step of `FencedCursor` or leaves it unchanged).
  `DeposedInert` names the three calls of a worker that carry no owner scope and
  says what each may still do: clearing a due mark, the stamp of a pull-wake
  event (which the webhook run cannot show), and the deletion of a subscription
  that has failed for long.  That grants are fresh is
  not inductive: a claim may reuse the fence of a wake nobody has claimed.
  `FenceInvariant` therefore says that such a fence is newer than any grant,
  that a live pull claim has a holder, and that the record belongs to the newest
  incarnation.
* `AppendFenceProofs`, from `ConstantAssumption` (types of the bounds):
  `SealsFinal`, `BoundProducers`, `ClaimsOrdered`, and the action property
  `SealsMonotone`.  `FenceInv` adds to the three properties what makes them
  inductive: what calls, writers and logs remember of a claim was once current
  (`ClaimsArePast`), the last fenced offset and the bound set cover the log
  (`LastAndBoundCover`), and while grants are prompt a marker is as new as
  anything in the log, or no grant under way could bring it back older
  (`MarkerLeads`).
* `SlotOwnershipProofs`, from `Constants`: `OneOwner` and `ContinuousScope`, for
  any number of replicas of both versions.  The invariant records that every
  epoch a replica lists, has in a pass or works under was granted to it, and is
  in the record still or behind it (`EpochsWereGranted`).  `OneOwner` is
  what `Subscription` assumes of the owners of its slot.  `ListedUntilLapsed`
  and `GuardedLeases` (`HeldUntilLapsed` and `GuardCoversLease` as invariants)
  rest on `LeaseInv`, which says of each replica and slot: the record is the
  replica's for as long as the replica counts on it, ends no later than what the
  pass in flight would write, and is exactly that once the pass was granted; the
  guard record stays as the pass reserved it until it claims; and a pass gives a
  reservation back only when it does not have the slot.  `Constants` says that
  the empty owner of a record is no replica's name.
* `StreamLogProofs`, from `RequestAssumption` (what the handler lets through; in
  particular no message of a body is empty, store.go:410, 574, and the two page
  limits are numbers): `ExactProducers`, `AnswersAreTrue`, `Refinement`
  (`StreamLog` implements `AppendLog`), and for paged reads `OneSnapshot`,
  `EndIsFinal` and `ContiguousFrames`.  `LogInv` ties the producer hash to the
  log: a producer's messages are ordered and without a gap, none is ahead of
  what the hash remembers, and while the stream is open what it remembers is in
  the log.  `ReadInv` adds the layout of the log (`Framed`: each frame begins
  where the one before it ends, so offsets order the log) and, for every
  session, that what it has sent is the stretch of the log between the offset
  asked for and the next one (`Sent`), and that the tail its snapshot announced
  is the end of a message that is still there (`Snapshot`); the last makes sure
  that a page before that tail is never empty.  A session is only tied to the
  stream while the incarnation is its own; every script either leaves the log
  alone, extends it past the tail or begins another incarnation (`Evolves`).
  Frame offsets are sums and a page is cut off at a limit, so the argument needs
  induction; it is done on sets, from the library's theorem that a well-founded
  relation has minimal elements (`UpTo`).
* `ForkRefsProofs`, from `ConstantAssumption` (finitely many paths and clients):
  `ExactRefcounts` and `SourcesOutlive`, with every fault.  The invariant
  `RefInv` counts.  A refcount is never more than the number of forks, of
  references held by requests in progress and of those lost, and is less by at
  most the references used twice (`Balanced`).  The forks, and the requests
  about to make one, whose source is gone or was replaced are no more than that
  either (`Served`), because a source is removed only at refcount zero.  While
  every reply arrives `twice` is zero, and both statements are exact.  The
  proofs rest on the library's cardinality theorems.
* `KeyRotationProofs`, from `ConstantAssumption` (types of the bounds):
  `OneActiveKey`, `TokensSurvive` and `RetiredIsRefused`, for store custody.
  Nothing is assumed of reloads.  Instead each statement says how old a snapshot
  may be: a token survives rotation when the replica that minted it had a
  snapshot at most `Skew` old, whatever the verifier's; a key whose window has
  lapsed is refused by a snapshot younger than the window (`RetiredKeyLapses`).
  `RotInv` adds up three clocks: how long a retired key is still published, how
  old a snapshot that signs with it is, and how long the tokens that it signs
  live.  With the defaults `Skew` is five minutes against a reload every 15 s
  (rotation.go:57-71).
* `DurabilityProofs`, from `Constants`: `ExclusiveGrants`, `FencesSurvive` and
  `ProvenFirst`, for any deployments and any number of issuing goroutines and
  workers.  The first two are about deployments whose barrier asks for the
  replica that a failover would promote (`Covered`).  Exclusive grants are a
  fact about what survives, so the invariant `DurInv` says which versions of the
  record no fault takes back (`Mark`), that a satisfied barrier's version is
  among them, and that the versions are ordered: once a generation is live, no
  later version issues it again or gives it to somebody else.
* `ControlPlaneProofs`, from `ControlAssumption` (requests name known streams
  and patterns, and a grant on the literal prefix of a pattern covers what the
  pattern matches): `TypeCorrect`, `EntitledCommits`, `SealedBeforeLost`,
  `DeletesAreFinal` and `RefusalsHaveCauses`, for any callers, grants, patterns
  and number of requests.  A request is authorized on what it read and commits
  on what is stored, so `ControlInv` is mostly about what a request in flight
  remembers: it passed the checks of its handler on that (`Authorized`), what it
  read is a subscription of an incarnation no newer than the stored one, and
  unless it was told of a change the two still compare equal (`Remembers`); once
  past its seal it has sealed the claim that it read on the streams that it
  read, in either mode (`HasSealed`).  `SealedBeforeLost` is about both modes
  too, and names the claims that this does not reach: one granted after the
  read, and in insecure mode a stream linked after it.  In enforce
  mode the expectation carries the authorization from the read to the commit.  What it compares is the set of linked paths and not their kinds, so
  that step also needs `Accounted`: a path is linked because somebody named it,
  because the pattern matches it, or because a hook of an earlier incarnation
  linked it late.  Without enforcement an unlink is not guarded and `Accounted`
  fails, so the invariant claims it for enforce mode only; `DeletesAreFinal` and
  `RefusalsHaveCauses` do not need it.

Only model-checked:

* liveness, which is out of the prover's reach: `PendingWorkIsServed`,
  `SoftDeletedIsCollected`, `LinksConverge`, `EveryAppendIsNoticed`,
  `NobodyIsLeftWaiting`;
* `SegmentCodec`, `StoreEquivalence`, `StoreOracle` and `FenceOracle` (decoders,
  two stores and two checkers) are recursive operators;
* `DirtyQueue`, `Notify`, `SSEHub`, `Segments`, `FanOut`, `AppendGate`,
  `TokenLife` and `UserKeys` have no proofs so far.  For the
  first, `EveryAppendIsNoticed` is liveness, but `RingIsExact` and
  `NoAppendIsForgotten` would be next.

The modules also state properties that hold and are in no configuration, to keep
the runs short: `FramesAreContiguous`, `EndOfStreamIsFinal`, `RingIsExact`,
`NoAppendIsForgotten`, `SnapshotIsFreshOrMarked`, `NoRegistrationLeaks`,
`GapsHaveACause`, `CursorsAreSound`, `QuietAgreement`, `HeldUntilLapsed`,
`GuardCoversLease`, `WorkIsDone`, `DeleteIsFinal`, `RefusalHasACause`,
`FamilyIsWellFormed`, `RetiredKeyLapses` (the first two, the last four and the
two about leases are proved).  Any of them can be
added to the run of its module.

## Where the code departs from its documentation

`NoDoubleGrant` is the run that shows one such case.  The others were met while
modelling; most have a property of their own in the module, stated as the
document says it.  (PROTOCOL.md and WRITE-FENCING.md are in `docs/spec`,
INVARIANTS.md in `docs/specs/formal-verification`.)

* Stream log.  A close whose (epoch, seq) its producer has used before is taken
  for a duplicate and answered with `Stream-Closed: true`, and the stream stays
  open (`CloseAnswerIsTrue`, handler.go:1051, PROTOCOL.md:518).
* Forks.  A fork is validated against one stream and may attach to its
  successor (`ForksMatchTheirSnapshot`, incr_ref.lua:13, PROTOCOL.md:160).  A
  lost reply of a creation gives the reference back although the fork exists
  (`EveryForkHasItsSource`, store.go:423, PROTOCOL.md:540).  A decr_ref.lua sent
  again after a lost reply gives back a reference that is not its own, and an
  incr_ref.lua sent again takes one that nobody gives back.  An expired fork
  never releases its reference (common.lua:56, PROTOCOL.md:94).
* Write fence.  A subscription goes idle with a live marker on a stream linked
  after the links to seal were read (`IdleLeavesNoMarker`, manager.go:1596,
  INVARIANTS.md:88).  A claim granted between the read and the script of a
  delete or a remove-stream is left unsealed (routes.go:246, 283); in insecure
  mode, where the script is not guarded, so is a stream linked in between
  (routes.go:426-432).
* Subscription.  `release.lua` leaves the status at failed (webhook/types.go:70);
  `ClearDue` (manager.go:2102, INVARIANTS.md:96) and the deletion of a
  subscription that has failed for long (`recordFailure`, manager.go:1445) are
  not scoped to an owner; the second acts on a status read earlier.
* Tokens.  For leases above 300 s a token may end before its lease
  (`TokenOutlivesLease`, manager.go:1476), and so it may at the threshold: the
  renewal is decided by a clock read before the request's body, the lease armed
  after it, so the delay counts as well (`TokenOutlivesThreshold`,
  routes.go:459-466).
* Control plane.  A claim reads the links again after it was granted, so its
  write token may name a stream that was linked since the caller was authorized
  (`ScopeWasAuthorized`, control_authz.go:80).  The expectation names the linked
  paths and not their kinds (redis_store.go:975): a stray link that a hook of an
  earlier incarnation left behind is authorized by nobody, and is the one thing
  `Entitled` allows for (`Reaches`).
* Key rotation.  After `DenylistKid` has returned, an older `ReloadKeys` may swap
  its snapshot in and accept the kid again (`DenylistIsImmediate`); a family
  stopped by revoking its active key cannot be started again by a rotation
  (`StopCanBeEnded`); a file replaced between the load and the stat of
  `NewFileKeyWatcher` is not picked up (`ReplacementIsPickedUp`).  A replica
  whose reloads fail for longer than the overlap goes on signing with a retired
  key, and accepts it (`AnyTokenOutlivesRotation`, `RetiredVerifiesNowhere`).
* Durability.  The sweep re-emits a pull-wake without a barrier of its own
  (`BarrierPrecedesDispatch`, INVARIANTS.md:103).  A barrier that asks for no
  replica promises nothing about a failover, which is why the theorems say
  `Covered`.
* Links.  A new stream that the subscription's own backfill lists may be linked
  at its tail before the create hook links it at its beginning
  (`NewStreamsLinkFromTheStart`, INVARIANTS.md:101, manager.go:605).
* Dirty queue.  An overflow epoch is also closed by a sweep of one window, and by
  one in which wakes failed to arm; the floor covers what they passed over
  (`ClosedEpochIsCovered`, docs/PLAN.md:333, dirty_queue.go:253).
* Waiting.  The acknowledgement of an earlier SUBSCRIBE can make a registration
  ready whose own SUBSCRIBE Redis has not taken (`StaleAckNeverReadies`, docs/adr/0005-per-instance-sse-stream-fanout.md:80).
* Segments.  A stream that was cut over can be published as shadow or serving
  again (`CutoverIsOneWay`, types.go:63).
* Stores.  The two stores differ on the deletion of an expired fork and on
  creation over an expired stream that has forks (`StoresAgree`); `ViewsAgree`
  leaves these cases out.
* Checkers.  The log checker refuses an honest append with an unknown outcome
  (`HonestAppendIsAccepted`, scenario_store.go:40), and the fence checker leaves
  a slot claim with a lost reply out of its history.

## Not modelled

Cryptography and token formats (a token is a record), HTTP parsing,
configuration and telemetry keep no state the properties depend on.  Not
modelled either: an operator's override of the rotation overlap
(manager.go:187-195), the pins that keep segments readable across processes, the loss of a
primary under the segment store, and the Jepsen drivers that start processes
and compare transcripts.  One clock is assumed for all replicas where leases
are compared, except for `MaxLag`.

What the properties do not reach:

* `FencedCursor` lets a cursor move under the fence that is current; it does not
  say which of the calls that name this fence moved it.
* Both sides of `StoreEquivalence` share the operators for producer validation,
  the write fence and the matching of configurations, although the in-memory
  store does these in Go and the other in Lua.  The run compares what surrounds
  them, and would not notice a difference inside them.
* `Segments` re-creates streams with short logs only.  `PublishedIsDurable`
  assumes that the directory entry of a directory just made persists with it.
* `AppendGate` judges a request by the world at its last gate; a change between
  that gate and the commit is left to `AppendFence`, which covers claims and
  seals but not the policy.
* `PublishedKeyIsFound` excuses a denial when a refetch failed within the time
  allowed, so it does not say how soon a key is found after a failure.
* `Notify` rests on go-redis keeping a channel for the next connection even when
  the call to `Subscribe` returned an error.
