------------------------------ MODULE UserKeys ------------------------------
(***************************************************************************)
(* The cache of an identity provider's verification keys (OIDCUserAuth).   *)
(*                                                                         *)
(* Requests verify a user's token against cached keys.  The cache is       *)
(* refreshed when it is older than an interval, and once per miss interval *)
(* when a token names a key it does not have.  A refresh that fails leaves *)
(* the old keys in use and, where the fetch itself failed, the address of  *)
(* the key document is looked up again next time.  One mutex is held       *)
(* through the refresh, while the instant a request goes by is read before *)
(* it waits for the mutex.  Times are ages: how long ago, Top being long   *)
(* enough not to matter.                                                   *)
(***************************************************************************)
EXTENDS Integers, FiniteSets

CONSTANTS
    Requests,   \* requests in flight
    Kids,       \* key ids
    Published,  \* what the provider may publish at first
    Refresh,    \* refreshInterval
    Miss,       \* kidMissMinInterval
    MaxDelay,   \* how long a request may take, all its fetches included
    NoKid,      \* the key id of no request
    Changes     \* how often the provider may change something

VARIABLES
    idp,        \* external: the provider's document, address and health
    cache,      \* keys, fetchedAt, lastMiss and jwksURI of OIDCUserAuth
    req,        \* the requests
    holder,     \* the request that holds the mutex and is fetching
    hist,       \* history: how long each key has been published or withdrawn,
                \* how long ago a refresh failed and one was made for a miss,
                \* and the time between the two latest ones for a miss
    left        \* changes the provider may still make

vars == <<idp, cache, req, holder, hist, left>>

\* The bounds the answers are held to, and the ages beyond which nothing differs.
Late == Refresh + 2 * MaxDelay
Soon == Miss + 2 * MaxDelay
Top == Late + Soon + 1
Older(age, top) == IF age >= top THEN Top ELSE age + 1
Nobody == "nobody"
Answers == {"accepted", "denied"}
Asking == {"first", "second"}
NoDocument == [usable |-> {}, spare |-> {}, from |-> "nowhere"]

Init ==
    /\ idp \in [keys : Published, spare : {{}}, state : {"up"}]
    /\ cache = [loaded |-> FALSE, keys |-> {}, fetched |-> Top, miss |-> Top, uri |-> "none"]
    /\ req = [r \in Requests |-> [at |-> "idle", kid |-> NoKid, age |-> 0]]
    /\ holder = [who |-> Nobody, doc |-> NoDocument]
    /\ hist = [since |-> [k \in Kids |-> Top], failed |-> Top, missed |-> Top, gap |-> Top]
    /\ left = Changes

-----------------------------------------------------------------------------
(* External: the provider *)

Change ==
    /\ left > 0
    /\ left' = left - 1
    /\ UNCHANGED <<req, holder>>

\* A usable key is published, or withdrawn; a withdrawn one may stay listed as
\* a key of a kind the verifier skips.
Publish(k) ==
    /\ Change
    /\ k \notin idp.keys
    /\ idp' = [idp EXCEPT !.keys = @ \cup {k}, !.spare = @ \ {k}]
    /\ hist' = [hist EXCEPT !.since[k] = 0]
    /\ UNCHANGED cache

Withdraw(k) ==
    /\ Change
    /\ k \in idp.keys
    /\ \E s \in {{}, {k}} : idp' = [idp EXCEPT !.keys = @ \ {k}, !.spare = @ \cup s]
    /\ hist' = [hist EXCEPT !.since[k] = 0]
    /\ UNCHANGED cache

\* The provider stops answering, answers nonsense or recovers.
Health(s) ==
    /\ Change
    /\ s # idp.state
    /\ idp' = [idp EXCEPT !.state = s]
    /\ UNCHANGED <<cache, hist>>

\* Its document moves: the address the verifier knows answers no more.
Move ==
    /\ Change
    /\ cache.uri = "right"
    /\ cache' = [cache EXCEPT !.uri = "old"]
    /\ UNCHANGED <<idp, hist>>

-----------------------------------------------------------------------------
(* The verifier *)

\* Keys of unsupported kinds, and keys without an id, are skipped.
ParseOIDCJWKS(doc) == doc.usable

\* VerifyUser: the request reads the clock and asks for the current keys.
VerifyUser(r, k) ==
    /\ req[r].at \notin Asking
    /\ req' = [req EXCEPT ![r] = [at |-> "first", kid |-> k, age |-> 0]]
    /\ UNCHANGED <<idp, cache, holder, hist, left>>

\* The cache's ages are taken at the request's own, earlier instant.
stale(r) == ~cache.loaded \/ cache.fetched - req[r].age > Refresh

MissNever(r) == FALSE

missRefetch(r) == req[r].at = "second" /\ cache.miss - req[r].age > Miss

\* An answer, with its history: whether the key has for too long not deserved
\* it, and whether a refresh failed lately.
Accepted(k, failed) ==
    [at |-> "accepted", kid |-> NoKid, age |-> 0, excused |-> failed <= MaxDelay,
     overdue |-> k \notin idp.keys /\ hist.since[k] > Late]
Denied(k, failed) ==
    [at |-> "denied", kid |-> NoKid, age |-> 0, excused |-> failed <= Soon,
     overdue |-> k \in idp.keys /\ hist.since[k] > Soon]

\* What the keys it is given mean to a request: found, one more try, or denied.
Resolve(r, keys, failed) ==
    [req EXCEPT ![r] =
        CASE @.kid \in keys -> Accepted(@.kid, failed)
          [] @.kid \notin keys /\ @.at = "first" -> [@ EXCEPT !.at = "second"]
          [] OTHER -> Denied(@.kid, failed)]

\* currentKeys where nothing is due: the cached keys.
currentKeys(r) ==
    /\ req[r].at \in Asking
    /\ holder.who = Nobody
    /\ ~stale(r) /\ ~missRefetch(r)
    /\ req' = Resolve(r, cache.keys, hist.failed)
    /\ UNCHANGED <<idp, cache, holder, hist, left>>

\* The instant of a miss is noted whether or not its refresh succeeds.
NoteMiss(r) ==
    IF req[r].at = "second" THEN [cache EXCEPT !.miss = req[r].age] ELSE cache

\* currentKeys where a refresh is due: the mutex is taken, and kept.
refreshBegins(r) ==
    /\ req[r].at \in Asking
    /\ holder.who = Nobody
    /\ stale(r) \/ missRefetch(r)
    /\ holder' = [holder EXCEPT !.who = r]
    /\ cache' = NoteMiss(r)
    /\ hist' = IF stale(r) THEN hist
               ELSE [hist EXCEPT !.gap = hist.missed, !.missed = 0]
    /\ UNCHANGED <<idp, req, left>>

\* The provider serves the document, where it can be reached: at the address
\* known, or at the one that discovery finds.
get ==
    /\ holder.who # Nobody
    /\ holder.doc.from = "nowhere"
    /\ holder' = [holder EXCEPT !.doc =
         [usable |-> idp.keys, spare |-> idp.spare,
          from |-> CASE idp.state = "down" \/ cache.uri = "old" -> "unreachable"
                     [] idp.state = "garbled" /\ cache.uri = "none" -> "undiscovered"
                     [] idp.state = "garbled" /\ cache.uri = "right" -> "garbled"
                     [] OTHER -> "served"]]
    /\ UNCHANGED <<idp, cache, req, hist, left>>

\* A failed fetch forgets the address, a bad document keeps it, and neither
\* touches the keys.
refreshLocked(doc) ==
    CASE doc.from = "served" ->
           [cache EXCEPT !.loaded = TRUE, !.keys = ParseOIDCJWKS(doc), !.fetched = 0,
                         !.uri = IF @ = "old" THEN @ ELSE "right"]
      [] doc.from = "garbled" -> cache
      [] OTHER -> [cache EXCEPT !.uri = "none"]

\* The answer arrives; the mutex is released.
refreshEnds ==
    /\ holder.who # Nobody
    /\ holder.doc.from # "nowhere"
    /\ LET failed == IF holder.doc.from = "served" THEN hist.failed ELSE 0
       IN  /\ cache' = refreshLocked(holder.doc)
           /\ hist' = [hist EXCEPT !.failed = failed]
           /\ req' = Resolve(holder.who, refreshLocked(holder.doc).keys, failed)
    /\ holder' = [who |-> Nobody, doc |-> NoDocument]
    /\ UNCHANGED <<idp, left>>

\* Time passes; no request takes longer than MaxDelay.
Tick ==
    /\ \A r \in Requests : req[r].at \in Asking => req[r].age < MaxDelay
    /\ cache' = [cache EXCEPT !.fetched = Older(@, Refresh + MaxDelay),
                              !.miss = Older(@, Miss + MaxDelay)]
    /\ hist' = [hist EXCEPT !.since = [k \in Kids |-> Older(@[k], Late)],
                            !.failed = Older(@, Soon), !.missed = Older(@, Miss)]
    /\ req' = [r \in Requests |->
                 IF req[r].at \in Asking THEN [req[r] EXCEPT !.age = @ + 1] ELSE req[r]]
    /\ UNCHANGED <<idp, holder, left>>

Next ==
    \/ \E k \in Kids : Publish(k)
    \/ \E k \in Kids : Withdraw(k)
    \/ \E s \in {"up", "down", "garbled"} : Health(s)
    \/ Move
    \/ \E r \in Requests, k \in Kids : VerifyUser(r, k)
    \/ \E r \in Requests : currentKeys(r)
    \/ \E r \in Requests : refreshBegins(r)
    \/ get
    \/ refreshEnds
    \/ Tick

Spec == Init /\ [][Next]_vars

-----------------------------------------------------------------------------
(* Properties *)

\* Shape of the state; keys are cached only once a document was loaded, and the
\* request that holds the mutex is one that asks for keys.
TypeOK ==
    /\ cache.uri \in {"none", "right", "old"}
    /\ cache.keys \subseteq Kids
    /\ cache.keys # {} => cache.loaded
    /\ holder.who # Nobody => req[holder.who].at \in Asking
    /\ \A r \in Requests : req[r].age \in 0..MaxDelay
    /\ left \in 0..Changes

Answered(a) == {r \in Requests : req[r].at = a}

\* A key that was withdrawn verifies no token later than one refresh interval
\* (Late, which allows for the delay of a request and of the fetch before it),
\* unless the refresh that was due just failed (currentKeys, refreshLocked).
WithdrawnKeyIsForgotten ==
    \A r \in Answered("accepted") :
        req[r].overdue => req[r].excused

\* A token of a published key is denied only for one miss interval after the
\* publication, unless a refresh failed within that time (Soon): however many
\* misses others cause, and in whatever order (VerifyUser's second lookup).
PublishedKeyIsFound ==
    \A r \in Answered("denied") :
        req[r].overdue => req[r].excused

\* While the cache is not stale, tokens that name unknown keys refetch the
\* document no more often than once per miss interval (lastMiss).
MissesAreSpaced == hist.gap >= Miss - MaxDelay + 1

=============================================================================
