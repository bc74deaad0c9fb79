------------------------------ MODULE ForkRefs ------------------------------
(***************************************************************************)
(* Forks of the Redis store and the reference counts that keep their       *)
(* sources alive.                                                          *)
(*                                                                         *)
(* A fork and its source live in different cluster slots, so creating or   *)
(* deleting a fork is a sequence of scripts on one path each: incr_ref.lua *)
(* on the source, create.lua on the fork; delete.lua on the fork,          *)
(* decr_ref.lua up the chain.  `ops' is what the Go code holds between     *)
(* them.  Readers of a fork reach the source by its path alone.            *)
(*                                                                         *)
(* Of a stream's configuration only its source is kept: two creations of a *)
(* path match when they name the same source.  `seen', `ref' and `lost'    *)
(* are history: the incarnation of the source that the fork was validated  *)
(* against, the one its reference was taken on, and how many references to *)
(* the stream nobody will give back: those forgotten by a crash or by a    *)
(* fork that expired, and those taken once more by a script sent again.    *)
(*                                                                         *)
(* go-redis sends a script again when the reply was lost, and none of the  *)
(* scripts can tell: `twice' is history, and counts per path how often one *)
(* reference was used twice, given back by both runs of decr_ref.lua, or   *)
(* given back by the request and kept by the fork that create.lua made.    *)
(***************************************************************************)
EXTENDS Integers, FiniteSets

CONSTANTS Paths, NoPath,
          Clients,   \* concurrent create and delete requests
          Faults,    \* what may go wrong: some of "expiry", "crash", "reply"
          MaxBirths, \* bound on the streams created
          MaxRefs,   \* bound on a refcount
          MaxTwice   \* bound on the references that are used twice

ASSUME ConstantAssumption ==
    /\ NoPath \notin Paths /\ MaxBirths \in Nat /\ MaxRefs \in Nat
    /\ MaxTwice \in Nat
    /\ IsFiniteSet(Paths) /\ IsFiniteSet(Clients)
    /\ Faults \subseteq {"expiry", "crash", "reply"}

VARIABLES st,     \* per path: its keys
          ops,    \* per client: the step a request has reached
          births, \* incarnation ids handed out
          twice   \* history, per path: references to it that were used twice

vars == <<st, ops, births, twice>>

Absent == [phase |-> "none", inc |-> 0, from |-> NoPath, rc |-> 0,
           expired |-> FALSE, seen |-> 0, ref |-> 0, lost |-> 0]

Idle == [at |-> "idle"]

Exists(p) == st[p].phase # "none"
Forks(p) == {f \in Paths : Exists(f) /\ st[f].from = p}

\* What fetchMeta finds, and what incr_ref.lua accepts: a source that is
\* neither absent, soft-deleted nor expired.
Usable(p) == st[p].phase = "live" /\ ~st[p].expired

\* A reference to s that nobody will give back any more.
Forget(s, streams) ==
    IF s = NoPath \/ streams[s].phase = "none" THEN streams
    ELSE [streams EXCEPT ![s].lost = @ + 1]

\* The keys of p go, and nobody releases the reference it held on its source.
Remove(p) == Forget(st[p].from, [st EXCEPT ![p] = Absent])

\* Mutant: an expired source is deleted although forks reference it.
ExpireCleanupAlways(p) == Remove(p)

\* expire_cleanup: a referenced stream is kept for its forks.  Deleting a fork
\* here does not release its source.
ExpireCleanup(p) ==
    IF st[p].rc > 0 THEN [st EXCEPT ![p].phase = "soft"] ELSE Remove(p)

Goto(c, op) == ops' = [ops EXCEPT ![c] = op]

\* releaseRef: the next reference to give back, if there is a source.
Release(parent) == IF parent = NoPath THEN Idle ELSE [at |-> "release", path |-> parent]

\* The reply of a script that has run is lost.
ReplyLost ==
    /\ "reply" \in Faults
    /\ Cardinality({x \in Paths \X (1 .. MaxTwice) : x[2] <= twice[x[1]]}) < MaxTwice

\* A reference to s is used twice.
UseTwice(s) == twice' = IF s = NoPath THEN twice ELSE [twice EXCEPT ![s] = @ + 1]

-----------------------------------------------------------------------------
(* Creation *)

\* The fresh creation of create.lua, after an expired stream is reaped.
Born(op) ==
    /\ st' = [(IF Exists(op.path) THEN ExpireCleanup(op.path) ELSE st) EXCEPT ![op.path] =
                [Absent EXCEPT !.phase = "live", !.inc = births + 1, !.from = op.from,
                               !.seen = op.seen, !.ref = op.ref]]
    /\ births' = births + 1

Creating == {c \in Clients : ops[c].at \in {"source", "incr", "create"}}

\* The pre-check of Create: an existing stream that has not expired answers at
\* once.  A plain stream goes straight to create.lua.
Request(c, p, from) ==
    /\ ops[c] = Idle
    /\ ~Exists(p) \/ st[p].expired
    /\ births + Cardinality(Creating) < MaxBirths
    /\ Goto(c, [at |-> IF from = NoPath THEN "create" ELSE "source",
                path |-> p, from |-> from, seen |-> 0, ref |-> 0])
    /\ UNCHANGED <<st, births, twice>>

\* fetchMeta of the source: fork offset and expiry are resolved against it.
FetchSource(c) ==
    /\ ops[c].at = "source"
    /\ IF Usable(ops[c].from)
       THEN Goto(c, [ops[c] EXCEPT !.at = "incr", !.seen = st[ops[c].from].inc])
       ELSE Goto(c, Idle)
    /\ UNCHANGED <<st, births, twice>>

\* incr_ref.lua.  When the reply is lost the script is sent again: the reference
\* that it took is nobody's.
IncrRef(c, replied) ==
    LET s == ops[c].from
    IN  /\ ops[c].at = "incr" /\ st[s].rc < MaxRefs
        /\ replied \/ (ReplyLost /\ Usable(s))
        /\ st' = IF ~Usable(s) THEN IF st[s].phase = "live" THEN ExpireCleanup(s) ELSE st
                 ELSE IF replied THEN [st EXCEPT ![s].rc = @ + 1]
                 ELSE [st EXCEPT ![s].rc = @ + 1, ![s].lost = @ + 1]
        /\ Goto(c, IF ~Usable(s) THEN Idle
                   ELSE IF replied THEN [ops[c] EXCEPT !.at = "create", !.ref = st[s].inc]
                   ELSE ops[c])
        /\ UNCHANGED <<births, twice>>

\* buildFrames rejects the initial data: the reference is given back.
RejectData(c) ==
    /\ ops[c].at = "create"
    /\ Goto(c, Release(ops[c].from))
    /\ UNCHANGED <<st, births, twice>>

\* Mutant: rollbackRef is forgotten when another request created the path.
CreateWithoutRollback(c, reply) ==
    LET p == ops[c].path
    IN  /\ ops[c].at = "create" /\ reply = "ok"
        /\ IF ~Exists(p) \/ (st[p].expired /\ st[p].rc = 0)
           THEN Born(ops[c]) ELSE UNCHANGED <<st, births>>
        /\ Goto(c, Idle)
        /\ UNCHANGED twice

\* create.lua.  An expired path is reaped and re-created unless it is
\* referenced; any other stream in the way (EXISTS, MATCHED, MISMATCH) makes
\* Create give the reference back.  When the reply of a script that made the
\* stream is lost, Create gives the reference back too ("lost"), or go-redis
\* sends the script again ("resent"), which finds the stream in its way.
Create(c, reply) ==
    LET p == ops[c].path
        free == ~Exists(p) \/ (st[p].expired /\ st[p].rc = 0)
    IN  /\ ops[c].at = "create"
        /\ reply = "ok" \/ (free /\ ReplyLost)
        /\ reply = "resent" => births + Cardinality(Creating) < MaxBirths
        /\ IF free
           THEN Born(ops[c])
           ELSE /\ st' = IF st[p].expired THEN ExpireCleanup(p) ELSE st
                /\ UNCHANGED births
        /\ Goto(c, IF reply = "resent" THEN ops[c]
                   ELSE IF free /\ reply = "ok" THEN Idle ELSE Release(ops[c].from))
        /\ IF reply = "ok" THEN UNCHANGED twice ELSE UseTwice(ops[c].from)

-----------------------------------------------------------------------------
(* Deletion *)

\* delete.lua: soft when referenced; otherwise the fork's own reference is
\* released next.  It does not look at expiry.  Sent again, the script finds
\* nothing and nothing is released, as when the process dies here.
Delete(c, p) ==
    /\ ops[c] = Idle /\ st[p].phase = "live"
    /\ IF st[p].rc > 0
       THEN st' = [st EXCEPT ![p].phase = "soft"] /\ UNCHANGED ops
       ELSE st' = [st EXCEPT ![p] = Absent] /\ Goto(c, Release(st[p].from))
    /\ UNCHANGED <<births, twice>>

\* Mutant: the last reference of a soft-deleted source does not delete it.
DecrRefWithoutCascade(c, replied) ==
    LET s == ops[c].path
    IN  /\ ops[c].at = "release" /\ replied
        /\ st' = IF st[s].rc > 0 THEN [st EXCEPT ![s].rc = @ - 1] ELSE st
        /\ Goto(c, Idle)
        /\ UNCHANGED <<births, twice>>

\* decr_ref.lua: GONE, UNDERFLOW (clamped at zero), CASCADE or OK.  When the
\* reply is lost the script is sent again: the count goes down once more, and
\* a source that is gone by then (GONE) ends the cascade.
DecrRef(c, replied) ==
    LET s == ops[c].path
        counted == Exists(s) /\ st[s].rc > 0
        last == st[s].rc = 1 /\ st[s].phase = "soft"
    IN  /\ ops[c].at = "release"
        /\ replied \/ (ReplyLost /\ counted)
        /\ st' = IF ~counted THEN st
                 ELSE IF ~last THEN [st EXCEPT ![s].rc = @ - 1]
                 ELSE IF replied THEN [st EXCEPT ![s] = Absent] ELSE Remove(s)
        /\ Goto(c, IF ~replied THEN ops[c] ELSE IF last THEN Release(st[s].from) ELSE Idle)
        /\ IF replied THEN UNCHANGED twice ELSE UseTwice(s)
        /\ UNCHANGED births

-----------------------------------------------------------------------------
(* Time, crashes *)

\* The TTL or the absolute expiry of a stream passes.
Expire(p) ==
    /\ "expiry" \in Faults /\ Exists(p) /\ ~st[p].expired
    /\ st' = [st EXCEPT ![p].expired = TRUE]
    /\ UNCHANGED <<ops, births, twice>>

\* Any other script finds the stream expired, or the key TTL that
\* refresh_backstop keeps on unreferenced streams runs out.
Reap(p) ==
    /\ Exists(p) /\ st[p].expired
    /\ st' = ExpireCleanup(p)
    /\ UNCHANGED <<ops, births, twice>>

\* The process dies, or a script call of releaseRef fails for good.
Crash(c) ==
    /\ "crash" \in Faults /\ ops[c] # Idle
    /\ st' = CASE ops[c].at = "create" -> Forget(ops[c].from, st)
              [] ops[c].at = "release" -> Forget(ops[c].path, st)
              [] OTHER -> st
    /\ Goto(c, Idle)
    /\ UNCHANGED <<births, twice>>

-----------------------------------------------------------------------------
Init ==
    /\ st = [p \in Paths |-> Absent]
    /\ ops = [c \in Clients |-> Idle]
    /\ births = 0
    /\ twice = [p \in Paths |-> 0]

Step(c) == FetchSource(c) \/ IncrRef(c, TRUE) \/ Create(c, "ok") \/ DecrRef(c, TRUE)

\* A script of c runs and its reply is lost.
LostReply(c) ==
    \/ IncrRef(c, FALSE) \/ DecrRef(c, FALSE)
    \/ \E reply \in {"lost", "resent"} : Create(c, reply)

Next ==
    \/ \E c \in Clients :
          \/ \E p \in Paths, from \in Paths \cup {NoPath} : Request(c, p, from)
          \/ Step(c) \/ RejectData(c) \/ LostReply(c)
          \/ \E p \in Paths : Delete(c, p)
          \/ Crash(c)
    \/ \E p \in Paths : Expire(p) \/ Reap(p)

Spec == Init /\ [][Next]_vars

\* A request that has begun runs to its end: nothing in Create, Delete or
\* releaseRef waits.
Fairness == \A c \in Clients : WF_vars(Step(c))

LiveSpec == Spec /\ Fairness

-----------------------------------------------------------------------------
(* Properties *)

\* References on p that a request holds: taken for a fork not yet created, or
\* about to be given back.
Held(p) == {c \in Clients : \/ ops[c].at = "create" /\ ops[c].from = p
                            \/ ops[c].at = "release" /\ ops[c].path = p}

\* The keys of a path, and what a request may hold, once b ids were handed out.
Streams(b) == [phase : {"none", "live", "soft"}, inc : 0 .. b,
               from : Paths \cup {NoPath}, rc : 0 .. MaxRefs, expired : BOOLEAN,
               seen : 0 .. b, ref : 0 .. b, lost : Nat]

Ops(b) == {Idle}
          \cup [at : {"source", "incr"}, path : Paths, from : Paths,
                seen : 0 .. b, ref : 0 .. b]
          \cup [at : {"create"}, path : Paths, from : Paths \cup {NoPath},
                seen : 0 .. b, ref : 0 .. b]
          \cup [at : {"release"}, path : Paths]

\* Every record has the shape the scripts and the Go code give it.
TypeOK ==
    /\ births \in Nat /\ twice \in [Paths -> Nat]
    /\ st \in [Paths -> Streams(births)] /\ ops \in [Clients -> Ops(births)]
    /\ \A p \in Paths : ~Exists(p) => st[p] = Absent

\* The references to p that exist, by the books.
Owed(p) == Cardinality(Forks(p)) + Cardinality(Held(p)) + st[p].lost

\* A refcount is the forks that exist, the references half-done requests hold
\* and those that nobody will give back: rollbacks, races of identical creations
\* and cascades neither lose nor double a reference.  It is exact while every
\* reply arrived; each reference that a lost reply made the code use twice makes
\* it one too low at most, and nothing makes it too high.
RefcountIsExact ==
    \A p \in Paths : st[p].rc <= Owed(p) /\ Owed(p) - twice[p] <= st[p].rc

\* The fork's source exists and is the incarnation the reference was taken on.
HasItsSource(f) ==
    Exists(f) /\ st[f].from # NoPath =>
       Exists(st[f].from) /\ st[st[f].from].inc = st[f].ref

Orphans(p) == {f \in Forks(p) : ~HasItsSource(f)}

\* The source of a fork exists for as long as the fork does, and is the
\* incarnation the reference was taken on: readers of the fork, who look the
\* source up by path, never find it absent or replaced.  A source that is taken
\* from its forks has had a reference used twice for each of them: one lost
\* reply costs at most one fork its source, and only a fork of that source.
SourceOutlivesForks == \A p \in Paths : Cardinality(Orphans(p)) <= twice[p]

\* The same without the condition: a fork always has its source.
EveryForkHasItsSource == \A f \in Paths : HasItsSource(f)

\* When the last fork of a soft-deleted stream is deleted, the stream's data
\* is cleaned up, up the whole chain, unless the path is forked again or a
\* reference to it was forgotten.
SoftDeletedIsCollected ==
    \A p \in Paths :
       st[p].phase = "soft" /\ Forks(p) = {} ~>
       st[p].phase = "none" \/ Forks(p) # {} \/ st[p].lost > 0

\* A fork is a fork of the stream its offset was validated against.
ForksMatchTheirSnapshot ==
    \A f \in Paths : Exists(f) => st[f].seen = st[f].ref
=============================================================================
