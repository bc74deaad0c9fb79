------------------------------- MODULE Segments -------------------------------
(***************************************************************************)
(* The immutable-segment read plane (store/segments): store.go over a       *)
(* FileBackend or a RedisBackend.  One stream path, several processes.       *)
(*                                                                           *)
(* The primary store is the linearizable source of the bytes: one            *)
(* incarnation of the stream at a time, a log of messages.  Seal copies a    *)
(* prefix into immutable objects and publishes a manifest through a          *)
(* compare-and-swap of the CURRENT pointer; readers take pages from the      *)
(* objects of one manifest and fall back to the primary.  Offsets count      *)
(* messages.  A manifest's token is its place in `manifests`: the digest     *)
(* covers the publication time, so no two publications share one.            *)
(***************************************************************************)
EXTENDS Integers, Sequences, FiniteSets, SequencesExt, FiniteSetsExt

CONSTANTS
    Nodes, Readers,
    Values,        \* what a message may hold
    MaxLen,        \* bound: messages of one incarnation
    MaxInc,        \* bound: incarnations
    MaxTries,      \* attempts of one seal (8 in the code)
    SealPage,      \* messages per segment (Options.TargetBytes)
    PageSize,      \* messages per page of a reader
    CacheSize,     \* entries of the object cache
    Keep,          \* GCRetention.KeepGenerations
    Budgets        \* bounds: backend, reads, seals, ... of a behaviour

NoToken == 0
States == {"shadow", "serving", "cutover"}

VARIABLES
    primary,    \* the stream: incarnation (0: absent), log, last incarnation
    manifests,  \* every manifest ever published, in order
    pointer,    \* CURRENT: now as read, safe as a power loss leaves it
    objects,    \* immutable objects: "renamed", "durable" or "bad"
    cache,      \* verified copies of the object cache: whole pairs, blocks
    op,         \* per process: the seal, repair or transition under the path lock
    late,       \* per process: what a create or delete still has to do
    known,      \* per process: incarnation and tail it knows to be sealed
    reader,     \* a paged read
    pins,       \* per process and token: read leases
    budget

vars == <<primary, manifests, pointer, objects, cache, op, late, known, reader, pins, budget>>

Idle == [kind |-> "idle", step |-> "idle", inc |-> 0, token |-> NoToken, m |-> <<>>, start |-> 0,
         tail |-> 0, page |-> <<>>, tries |-> 0, by |-> "nobody"]
Unread == [node |-> "none", step |-> "idle", inc |-> 0, tail |-> 0, next |-> 0,
           want |-> <<>>, got |-> <<>>, first |-> <<>>, token |-> NoToken, fresh |-> FALSE]
Unknown == <<0, 0>>

Init ==
    /\ budget \in Budgets
    /\ primary = [inc |-> 0, log |-> <<>>, last |-> 0]
    /\ manifests = <<>>
    /\ pointer = [now |-> NoToken, safe |-> NoToken]
    /\ objects = [x \in {} |-> "durable"]
    /\ cache = {}
    /\ op = [n \in Nodes |-> Idle]
    /\ late = [n \in Nodes |-> "nothing"]
    /\ known = [n \in Nodes |-> Unknown]
    /\ reader = [r \in Readers |-> Unread]
    /\ pins = [n \in Nodes |-> [t \in {} |-> 0]]

Spend(kind) == budget[kind] > 0 /\ budget' = [budget EXCEPT ![kind] = @ - 1]
Files == budget.mode \in {"files", "object"}
Current == manifests[pointer.now]

-----------------------------------------------------------------------------
(* Manifests.                                                              *)

NewManifest(inc) == [inc |-> inc, gen |-> 0, state |-> budget.initial, refs |-> <<>>]
EndOf(ref) == ref.start + Len(ref.data)
SealedThrough(m) == IF m.refs = <<>> THEN 0 ELSE EndOf(Last(m.refs))
BytesOf(m) == FlattenSeq([i \in 1..Len(m.refs) |-> m.refs[i].data])

validateManifest(m, inc) ==
    /\ m.inc = inc
    /\ \A i \in 1..Len(m.refs) :
          /\ m.refs[i].data # <<>>
          /\ m.refs[i].start = IF i = 1 THEN 0 ELSE EndOf(m.refs[i - 1])

\* Mutant: a manifest is good for whatever stream has the path now.
usableAnyStream(m, inc, tail, off) ==
    m.state # "shadow" /\ SealedThrough(m) <= tail /\ off < SealedThrough(m)
usableManifest(m, inc, tail, off) ==
    /\ validateManifest(m, inc)
    /\ m.state # "shadow" /\ SealedThrough(m) <= tail /\ off < SealedThrough(m)

\* The bytes of an object as the backend returns them: a checksum that does not
\* match, or a missing object, is an error.
Intact(ref) == ref \in DOMAIN objects /\ objects[ref] # "bad"
\* In object mode a verified copy of the cache answers for the origin.
Readable(ref, kind) == <<ref, kind>> \in cache \/ Intact(ref)
verifyManifest(m) == \A i \in 1..Len(m.refs) : Readable(m.refs[i], "pair")

\* readCached, readCachedBlock: a miss fills the cache, then evictCache drops
\* entries (the code drops the oldest, here any).
CacheFill(entries) ==
    IF budget.mode # "object" \/ entries \subseteq cache THEN cache' = cache
    ELSE LET all == cache \cup entries IN
         cache' \in kSubset(Min({CacheSize, Cardinality(all)}), all)
PairsOf(m) == {<<m.refs[i], "pair">> : i \in 1..Len(m.refs)}

-----------------------------------------------------------------------------
(* The primary, and what the wrapper does after it.                        *)

Create(n, first) ==
    /\ n \in budget.nodes /\ primary.inc = 0 /\ primary.last < MaxInc /\ late[n] = "nothing" /\ Spend("creates")
    /\ primary' = [inc |-> primary.last + 1, log |-> first, last |-> primary.last + 1]
    /\ late' = [late EXCEPT ![n] = IF first = <<>> THEN "tombstone" ELSE "tombstone, seal"]
    /\ known' = [known EXCEPT ![n] = Unknown]
    /\ UNCHANGED <<manifests, pointer, objects, cache, op, reader, pins>>

Delete(n) ==
    /\ n \in budget.nodes /\ primary.inc # 0 /\ late[n] = "nothing" /\ Spend("deletes")
    /\ primary' = [primary EXCEPT !.inc = 0, !.log = <<>>]
    /\ late' = [late EXCEPT ![n] = "tombstone"]
    /\ known' = [known EXCEPT ![n] = Unknown]
    /\ UNCHANGED <<manifests, pointer, objects, cache, op, reader, pins>>

AppendMessage(v) ==
    /\ primary.inc # 0 /\ Len(primary.log) < MaxLen /\ Spend("appends")
    /\ primary' = [primary EXCEPT !.log = Append(@, v)]
    /\ UNCHANGED <<manifests, pointer, objects, cache, op, late, known, reader, pins>>

\* lockStream: the file backend holds it over the rename of CURRENT and the
\* sync of its directory.
Unlocked(n) == Files => \A q \in Nodes \ {n} : op[q].step # "pointer"

\* Best effort: a tombstone that fails is logged and forgotten.
Tombstone(n) ==
    /\ late[n] \in {"tombstone", "tombstone, seal"} /\ Unlocked(n)
    /\ late' = [late EXCEPT ![n] = IF @ = "tombstone" THEN "nothing" ELSE "seal"]
    /\ \/ pointer' = [now |-> NoToken, safe |-> NoToken] /\ UNCHANGED budget
       \/ Spend("faults") /\ UNCHANGED pointer
    /\ UNCHANGED <<primary, manifests, objects, cache, op, known, reader, pins>>

-----------------------------------------------------------------------------
(* Seal, Repair and Transition: one at a time per process and path.        *)

Start(n, kind, by) ==
    /\ n \in budget.nodes /\ op[n].step = "idle"
    /\ op' = [op EXCEPT ![n] = [Idle EXCEPT !.kind = kind, !.step = "head", !.by = by]]

\* Seal called by a user, or by sealBestEffort after a create.
Seal(n) ==
    /\ Start(n, "seal", "nobody")
    /\ \/ late[n] = "seal" /\ late' = [late EXCEPT ![n] = "nothing"] /\ UNCHANGED budget
       \/ Spend("seals") /\ UNCHANGED late
    /\ UNCHANGED <<primary, manifests, pointer, objects, cache, known, reader, pins>>

Repair(n) ==
    /\ Start(n, "repair", "nobody") /\ Spend("repairs")
    /\ UNCHANGED <<primary, manifests, pointer, objects, cache, late, known, reader, pins>>

Transition(n, target) ==
    /\ Start(n, target, "nobody") /\ Spend("transitions")
    /\ UNCHANGED <<primary, manifests, pointer, objects, cache, late, known, reader, pins>>

\* sealForRead: a reader seals first, unless the process knows the tail sealed.
SealForRead(r) ==
    LET n == reader[r].node IN
    /\ reader[r].step = "captured"
    /\ IF known[n] = <<reader[r].inc, reader[r].tail>>
       THEN reader' = [reader EXCEPT ![r].step = "choose"] /\ UNCHANGED op
       ELSE Start(n, "seal", r) /\ reader' = [reader EXCEPT ![r].step = "sealing"]
    /\ UNCHANGED <<primary, manifests, pointer, objects, cache, late, known, pins, budget>>

\* The call returns; a reader waiting for it goes on, whatever the outcome.
End(n) ==
    /\ op' = [op EXCEPT ![n] = Idle]
    /\ reader' = IF op[n].by \in Readers THEN [reader EXCEPT ![op[n].by].step = "choose"] ELSE reader
Retry(n) ==
    IF op[n].tries + 1 = MaxTries THEN End(n)
    ELSE /\ op' = [op EXCEPT ![n] = [Idle EXCEPT !.kind = op[n].kind, !.step = "head", !.by = op[n].by,
                                                 !.tries = op[n].tries + 1]]
         /\ UNCHANGED reader
Go(n, new) == op' = [op EXCEPT ![n] = new] /\ UNCHANGED reader

capturePrimarySnapshot(n) ==
    /\ op[n].step = "head"
    /\ IF primary.inc = 0 THEN End(n) ELSE Go(n, [op[n] EXCEPT !.step = "load", !.inc = primary.inc])
    /\ UNCHANGED <<primary, manifests, pointer, objects, cache, late, known, pins, budget>>

Knows(n, m) == known' = [known EXCEPT ![n] = <<m.inc, SealedThrough(m)>>]

\* A seal starts from the current manifest of this incarnation, or a new one.
\* Mutant: a new incarnation takes over the segments of the one before.
LoadKeepingRefs(n) ==
    /\ op[n].step = "load" /\ op[n].kind = "seal"
    /\ Go(n, [op[n] EXCEPT !.step = "read", !.token = pointer.now,
                           !.m = IF pointer.now = NoToken THEN NewManifest(op[n].inc)
                                 ELSE [Current EXCEPT !.inc = op[n].inc]])
    /\ UNCHANGED <<primary, manifests, pointer, objects, cache, late, known, pins, budget>>
LoadForSeal(n) ==
    LET mine == pointer.now # NoToken /\ Current.inc = op[n].inc IN
    /\ op[n].step = "load" /\ op[n].kind = "seal"
    /\ Go(n, [op[n] EXCEPT !.step = "read", !.token = pointer.now,
                           !.m = IF mine THEN Current ELSE NewManifest(op[n].inc)])
    /\ UNCHANGED <<primary, manifests, pointer, objects, cache, late, known, pins, budget>>

\* A repair refuses another stream's manifest and leaves a good one alone.
LoadForRepair(n) ==
    /\ op[n].step = "load" /\ op[n].kind = "repair"
    /\ IF pointer.now = NoToken \/ ~validateManifest(Current, op[n].inc)
       THEN End(n) /\ cache' = cache
       ELSE IF verifyManifest(Current) THEN End(n) /\ CacheFill(PairsOf(Current))
       ELSE Go(n, [op[n] EXCEPT !.step = "read", !.token = pointer.now, !.m = [Current EXCEPT !.refs = <<>>]])
            /\ cache' = cache
    /\ UNCHANGED <<primary, manifests, pointer, objects, late, known, pins, budget>>

\* Only a verified generation changes state, and never back from cutover.
LoadForTransition(n) ==
    /\ op[n].step = "load" /\ op[n].kind \in States
    /\ IF pointer.now = NoToken \/ ~validateManifest(Current, op[n].inc)
       THEN End(n) /\ cache' = cache
       ELSE IF ~verifyManifest(Current) \/ (Current.state = "cutover" /\ op[n].kind # "cutover")
       THEN End(n) /\ cache' = cache
       ELSE /\ Go(n, [op[n] EXCEPT !.step = "publish", !.token = pointer.now,
                                   !.m = [Current EXCEPT !.gen = @ + 1, !.state = op[n].kind]])
            /\ CacheFill(PairsOf(Current))
    /\ UNCHANGED <<primary, manifests, pointer, objects, late, known, pins, budget>>

\* The first page fixes the tail.  A current manifest with nothing to add is
\* verified and returned; otherwise the next generation begins.
ReadFirst(n) ==
    LET o == op[n]
        sealed == SealedThrough(o.m)
        noop == /\ o.kind = "seal" /\ o.token # NoToken /\ manifests[o.token].inc = o.inc
                /\ sealed = Len(primary.log)
    IN
    /\ o.step = "read"
    /\ IF primary.inc = 0 THEN End(n) /\ UNCHANGED <<known, cache>>
       ELSE IF primary.inc # o.inc THEN Retry(n) /\ UNCHANGED <<known, cache>>
       ELSE IF noop
       THEN /\ End(n)
            /\ IF verifyManifest(o.m) THEN Knows(n, o.m) /\ CacheFill(PairsOf(o.m))
               ELSE UNCHANGED <<known, cache>>
       ELSE /\ Go(n, [o EXCEPT !.m.gen = @ + 1, !.start = sealed, !.tail = Len(primary.log),
                               !.page = SubSeq(primary.log, sealed + 1,
                                               Min({sealed + SealPage, Len(primary.log)})),
                               !.step = IF sealed = Len(primary.log) THEN "fresh" ELSE "put"])
            /\ UNCHANGED <<known, cache>>
    /\ UNCHANGED <<primary, manifests, pointer, objects, late, pins, budget>>

\* The next page of the snapshot; the stream may have been replaced since.
ReadNext(n) ==
    LET o == op[n] IN
    /\ o.step = "more"
    /\ IF primary.inc # o.inc THEN End(n)
       ELSE Go(n, [o EXCEPT !.step = "put",
                            !.page = SubSeq(primary.log, o.start + 1, Min({o.start + SealPage, o.tail}))])
    /\ UNCHANGED <<primary, manifests, pointer, objects, cache, late, known, pins, budget>>

\* Put.  The name of an object holds its generation and checksum; an existing
\* object must have the same bytes.  A file is renamed into place, a Redis string
\* is set when absent.
writeImmutable(ref) ==
    IF ref \in DOMAIN objects THEN objects
    ELSE [x \in DOMAIN objects \cup {ref} |-> IF x = ref THEN "renamed" ELSE objects[x]]
setImmutable(ref) ==
    IF ref \in DOMAIN objects THEN objects
    ELSE [x \in DOMAIN objects \cup {ref} |-> IF x = ref THEN "durable" ELSE objects[x]]
RefOf(o) == [gen |-> o.m.gen, start |-> o.start, data |-> o.page]
Stored(o) == [o EXCEPT !.m.refs = Append(@, RefOf(o)), !.start = EndOf(RefOf(o)),
                       !.step = IF EndOf(RefOf(o)) = o.tail THEN "fresh" ELSE "more"]
\* Mutant: an object that is already there needs no sync of its directory.
StageTrusting(n) ==
    LET o == op[n] ref == RefOf(op[n]) IN
    /\ o.step = "put"
    /\ IF ref \in DOMAIN objects
       THEN (IF objects[ref] = "bad" THEN End(n) ELSE Go(n, Stored(o))) /\ UNCHANGED objects
       ELSE /\ objects' = IF Files THEN writeImmutable(ref) ELSE setImmutable(ref)
            /\ Go(n, [o EXCEPT !.step = "sync"])
    /\ UNCHANGED <<primary, manifests, pointer, cache, late, known, pins, budget>>
Stage(n) ==
    LET o == op[n] ref == RefOf(op[n]) IN
    /\ o.step = "put"
    /\ IF ref \in DOMAIN objects /\ objects[ref] = "bad" THEN End(n) /\ UNCHANGED objects
       ELSE /\ objects' = IF Files THEN writeImmutable(ref) ELSE setImmutable(ref)
            /\ Go(n, [o EXCEPT !.step = "sync"])
    /\ UNCHANGED <<primary, manifests, pointer, cache, late, known, pins, budget>>

\* The directory is synced, for an object that was already there too.
SyncDir(n) ==
    /\ op[n].step = "sync"
    /\ objects' = [objects EXCEPT ![RefOf(op[n])] = IF @ = "renamed" THEN "durable" ELSE @]
    /\ Go(n, Stored(op[n]))
    /\ UNCHANGED <<primary, manifests, pointer, cache, late, known, pins, budget>>

\* The stream must still be the one whose bytes were put; a repair also reads
\* everything back.
Confirm(n) ==
    /\ op[n].step = "fresh"
    /\ IF op[n].kind = "repair" /\ ~verifyManifest(op[n].m) THEN End(n) /\ cache' = cache
       ELSE /\ IF op[n].kind = "repair" THEN CacheFill(PairsOf(op[n].m)) ELSE cache' = cache
            /\ IF primary.inc = op[n].inc THEN Go(n, [op[n] EXCEPT !.step = "publish"]) ELSE Retry(n)
    /\ UNCHANGED <<primary, manifests, pointer, objects, late, known, pins, budget>>

\* CURRENT is renamed into place, or set by the script that compared it.
writeReplace(t) == [now |-> t, safe |-> pointer.safe]
publishManifestScript(t) == [now |-> t, safe |-> t]

\* The compare-and-swap of CURRENT, under the stream's file lock or in a script.
Publish(n) ==
    /\ op[n].step = "publish" /\ Unlocked(n)
    /\ IF pointer.now # op[n].token THEN Retry(n) /\ UNCHANGED <<manifests, pointer>>
       ELSE /\ manifests' = Append(manifests, op[n].m)
            /\ pointer' = IF Files THEN writeReplace(Len(manifests) + 1)
                          ELSE publishManifestScript(Len(manifests) + 1)
            /\ Go(n, [op[n] EXCEPT !.step = "pointer"])
    /\ UNCHANGED <<primary, objects, cache, late, known, pins, budget>>

SyncPointer(n) ==
    /\ op[n].step = "pointer"
    /\ pointer' = [pointer EXCEPT !.safe = pointer.now]
    /\ IF op[n].kind \in {"seal", "repair"} THEN Knows(n, op[n].m) ELSE UNCHANGED known
    /\ End(n)
    /\ UNCHANGED <<primary, manifests, objects, cache, late, pins, budget>>

\* A step of the backend fails: the call returns the error, what was written stays.
OpFails(n) ==
    /\ op[n].step \in {"put", "sync", "publish", "pointer"} /\ Spend("faults")
    /\ End(n)
    /\ UNCHANGED <<primary, manifests, pointer, objects, cache, late, known, pins>>

-----------------------------------------------------------------------------
(* ReadPage.                                                               *)

Pinned(n, t) == IF t \in DOMAIN pins[n] THEN pins[n][t] ELSE 0
SetPins(n, t, c) ==
    [pins EXCEPT ![n] = [u \in (DOMAIN @ \ {t}) \cup (IF c = 0 THEN {} ELSE {t}) |-> IF u = t THEN c ELSE @[u]]]

ReleaseReadSnapshot(r, last) ==
    LET t == reader[r].token n == reader[r].node IN
    /\ pins' = IF t = NoToken THEN pins ELSE SetPins(n, t, Pinned(n, t) - 1)
    /\ reader' = [reader EXCEPT ![r].step = last, ![r].token = NoToken]

\* The snapshot of a read from off, with the page the primary answers first.
Snapshot(n, off) ==
    LET upto(k) == SubSeq(primary.log, off + 1, Min({off + k, Len(primary.log)})) IN
    [Unread EXCEPT !.node = n, !.step = IF budget.auto THEN "captured" ELSE "choose", !.inc = primary.inc,
                   !.tail = Len(primary.log), !.next = off, !.want = upto(MaxLen), !.first = upto(PageSize)]

Capture(r, n, off) ==
    /\ n \in budget.nodes /\ reader[r].step \in {"idle", "done", "failed"}
    /\ primary.inc # 0 /\ off <= Len(primary.log) /\ Spend("reads")
    /\ reader' = [reader EXCEPT ![r] = Snapshot(n, off)]
    /\ UNCHANGED <<primary, manifests, pointer, objects, cache, op, late, known, pins>>

\* A reader at the tail waits for more of the same stream.
WaitForPage(r) ==
    /\ reader[r].step = "done" /\ primary.inc # 0 /\ Spend("reads")
    /\ reader' = [reader EXCEPT ![r] = IF primary.inc = reader[r].inc THEN Snapshot(reader[r].node, reader[r].next)
                                       ELSE [reader[r] EXCEPT !.step = "failed"]]
    /\ UNCHANGED <<primary, manifests, pointer, objects, cache, op, late, known, pins>>

Deliver(it, page) == [it EXCEPT !.got = @ \o page, !.next = @ + Len(page), !.fresh = FALSE]

\* readCapturedPrimaryPage: a usable manifest is leased, otherwise the page that
\* was captured is the answer.
Choose(r) ==
    LET it == reader[r] IN
    /\ it.step = "choose"
    /\ IF pointer.now # NoToken /\ usableManifest(Current, it.inc, it.tail, it.next)
       THEN /\ reader' = [reader EXCEPT ![r].step = "segment", ![r].token = pointer.now, ![r].fresh = TRUE]
            /\ pins' = SetPins(it.node, pointer.now, Pinned(it.node, pointer.now) + 1)
       ELSE /\ reader' = [reader EXCEPT ![r] = Deliver([it EXCEPT !.step = "primary"], it.first)]
            /\ UNCHANGED pins
    /\ UNCHANGED <<primary, manifests, pointer, objects, cache, op, late, known, budget>>

\* readLeasedPage: below the sealed boundary, a page of one segment; the root is
\* validated again on a continuation.  A segment that cannot be read turns the
\* lease to the primary.
Leased(r) == reader[r].step = "segment" /\ reader[r].next < SealedThrough(manifests[reader[r].token])
SegmentPage(r) ==
    LET it == reader[r]
        m == manifests[it.token]
        ref == m.refs[Min({i \in 1..Len(m.refs) : it.next < EndOf(m.refs[i])})]
        page == SubSeq(ref.data, it.next - ref.start + 1, Min({it.next - ref.start + PageSize, Len(ref.data)}))
    IN
    /\ Leased(r)
    /\ IF primary.inc # it.inc /\ ~it.fresh THEN ReleaseReadSnapshot(r, "failed") /\ cache' = cache
       ELSE IF ~Readable(ref, "block")
       THEN reader' = [reader EXCEPT ![r].step = "primary"] /\ UNCHANGED pins /\ cache' = cache
       ELSE /\ reader' = [reader EXCEPT ![r] = Deliver(it, page)]
            /\ CacheFill({<<ref, "block">>}) /\ UNCHANGED pins
    /\ UNCHANGED <<primary, manifests, pointer, objects, op, late, known, budget>>

\* readPrimaryPage, at the captured snapshot.
PrimaryPage(r) ==
    LET it == reader[r] IN
    /\ it.step = "primary" \/ (it.step = "segment" /\ ~Leased(r))
    /\ it.next < it.tail
    /\ IF primary.inc # it.inc THEN ReleaseReadSnapshot(r, "failed")
       ELSE /\ reader' = [reader EXCEPT ![r] =
                            Deliver(it, SubSeq(primary.log, it.next + 1, Min({it.next + PageSize, it.tail})))]
            /\ UNCHANGED pins
    /\ UNCHANGED <<primary, manifests, pointer, objects, cache, op, late, known, budget>>

Finish(r) ==
    /\ reader[r].step \in {"primary", "segment"} /\ reader[r].next = reader[r].tail
    /\ ReleaseReadSnapshot(r, "done")
    /\ UNCHANGED <<primary, manifests, pointer, objects, cache, op, late, known, budget>>

-----------------------------------------------------------------------------
(* GC of one process classifies, and deletes nothing.                      *)

Deferred(n) ==
    {t \in 1..Len(manifests) :
        /\ Cardinality({u \in 1..Len(manifests) : manifests[u].gen > manifests[t].gen}) >= Keep
        /\ t # pointer.now /\ Pinned(n, t) = 0}

-----------------------------------------------------------------------------
(* Faults.                                                                 *)

\* A process stops; another may take its place.
Crash(n) ==
    /\ n \in budget.nodes /\ Spend("crashes")
    /\ op' = [op EXCEPT ![n] = Idle]
    /\ late' = [late EXCEPT ![n] = "nothing"]
    /\ known' = [known EXCEPT ![n] = Unknown]
    /\ pins' = [pins EXCEPT ![n] = [t \in {} |-> 0]]
    /\ reader' = [r \in Readers |-> IF reader[r].node = n THEN Unread ELSE reader[r]]
    /\ UNCHANGED <<primary, manifests, pointer, objects, cache>>

\* The host of the files stops: a rename whose directory was not synced may be
\* undone.
PowerLoss ==
    /\ Files /\ Spend("crashes")
    /\ op' = [n \in Nodes |-> Idle] /\ late' = [n \in Nodes |-> "nothing"]
    /\ known' = [n \in Nodes |-> Unknown] /\ pins' = [n \in Nodes |-> [t \in {} |-> 0]]
    /\ reader' = [r \in Readers |-> Unread]
    /\ \E lost \in SUBSET {x \in DOMAIN objects : objects[x] = "renamed"} :
          objects' = [x \in DOMAIN objects \ lost |-> objects[x]]
    /\ \E t \in {pointer.now, pointer.safe} : pointer' = [now |-> t, safe |-> t]
    /\ UNCHANGED <<primary, manifests, cache>>

\* Bytes of an object change on the medium.
Rot ==
    /\ Spend("rots")
    /\ \E ref \in DOMAIN objects : /\ objects[ref] = "durable"
                                  /\ objects' = [objects EXCEPT ![ref] = "bad"]
    /\ UNCHANGED <<primary, manifests, pointer, cache, op, late, known, reader, pins>>

OpStep(n) ==
    \/ capturePrimarySnapshot(n) \/ LoadForSeal(n) \/ LoadForRepair(n) \/ LoadForTransition(n)
    \/ ReadFirst(n) \/ ReadNext(n) \/ Stage(n) \/ SyncDir(n) \/ Confirm(n) \/ Publish(n) \/ SyncPointer(n)

Next ==
    \/ \E n \in Nodes :
          \/ \E first \in {<<>>} \cup {<<v>> : v \in Values} : Create(n, first)
          \/ Delete(n) \/ Tombstone(n) \/ Seal(n) \/ Repair(n) \/ OpStep(n) \/ OpFails(n) \/ Crash(n)
          \/ \E target \in States : Transition(n, target)
    \/ \E v \in Values : AppendMessage(v)
    \/ \E r \in Readers :
          \/ \E n \in Nodes, off \in 0..MaxLen : Capture(r, n, off)
          \/ WaitForPage(r) \/ SealForRead(r) \/ Choose(r) \/ SegmentPage(r) \/ PrimaryPage(r) \/ Finish(r)
    \/ PowerLoss \/ Rot

Spec == Init /\ [][Next]_vars

-----------------------------------------------------------------------------
(* Properties.                                                             *)

RefType == [gen : 1..20, start : 0..MaxLen, data : BoundedSeq(Values, MaxLen)]
ManifestOK(m) ==
    /\ m.inc \in 1..MaxInc /\ m.state \in States /\ m.gen \in 0..20
    /\ \A i \in 1..Len(m.refs) : m.refs[i] \in RefType

\* The state keeps its type: a cache within its bound, manifests whose segments
\* are contiguous (validateManifest), leases counted only while they are held.
TypeOK ==
    /\ primary.inc \in {0, primary.last} /\ primary.last \in 0..MaxInc
    /\ primary.log \in BoundedSeq(Values, MaxLen)
    /\ \A t \in 1..Len(manifests) : ManifestOK(manifests[t]) /\ validateManifest(manifests[t], manifests[t].inc)
    /\ {pointer.now, pointer.safe} \subseteq 0..Len(manifests)
    /\ \A ref \in DOMAIN objects : ref \in RefType /\ objects[ref] \in {"renamed", "durable", "bad"}
    /\ Cardinality(cache) <= CacheSize
    /\ \A n \in Nodes : \A t \in DOMAIN pins[n] : pins[n][t] \in 1..Cardinality(Readers)

\* "Every segment read can fall back to primary without losing an acknowledged
\* byte": whatever mixture of segments, hot tail and fallbacks serves a read, and
\* whatever is sealed, repaired, replaced or lost meanwhile, the pages are the
\* captured snapshot in order (readLeasedPage, fallbackPrimaryPage).
ReadIsExact ==
    \A r \in Readers : /\ IsPrefix(reader[r].got, reader[r].want)
                       /\ reader[r].step = "done" => reader[r].got = reader[r].want

\* A read fails only because its stream is gone: no state of the segments turns
\* a readable stream into an error.
NoNeedlessFailure ==
    \A r \in Readers : reader[r].step = "failed" => primary.inc # reader[r].inc

\* A manifest of the stream as it is describes a prefix of that stream, however
\* its seal raced with deletes, creates and seals of other processes.
SealedPrefixIsTrue ==
    \A t \in 1..Len(manifests) :
        manifests[t].inc = primary.inc => IsPrefix(BytesOf(manifests[t]), primary.log)

\* "A crash after Publish is safe because Put returned only after the referenced
\* objects were durable": what CURRENT designates, now or after a power loss, was
\* durable, even when the objects are leftovers of a failed attempt.
PublishedIsDurable ==
    \A t \in {pointer.now, pointer.safe} \ {NoToken} : \A i \in 1..Len(manifests[t].refs) :
        manifests[t].refs[i] \in DOMAIN objects /\ objects[manifests[t].refs[i]] # "renamed"

\* The collector of a process never counts a generation reclaimable that one of
\* its readers still holds, or that is current.
GCSparesReaders ==
    \A r \in Readers : reader[r].token # NoToken => reader[r].token \notin Deferred(reader[r].node)

Advances ==
    LET new == Last(manifests') IN
    (Len(manifests') > Len(manifests) /\ pointer.now # NoToken) =>
       (Current.inc = new.inc =>
           /\ new.gen = Current.gen + 1
           /\ SealedThrough(new) >= SealedThrough(Current)
           /\ Current.state = "cutover" => new.state = "cutover")

\* A publication over a manifest of the same stream is its direct successor: the
\* next generation, never a shorter prefix, never back from cutover.
PublicationAdvances == [][Advances]_vars

\* "StateCutover records the explicit one-way rollback boundary": a stream that
\* was cut over is never published as shadow or serving again.
CutoverIsOneWay ==
    \A t, u \in 1..Len(manifests) :
        t < u /\ manifests[t].inc = manifests[u].inc /\ manifests[t].state = "cutover"
        => manifests[u].state = "cutover"

=============================================================================
