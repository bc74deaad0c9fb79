---------------------------- MODULE ControlPlane ----------------------------
(***************************************************************************)
(* The subscription control plane behind /__ds/subscriptions/{id}: create, *)
(* delete, add-streams, remove-stream and claim (webhook/routes.go), the   *)
(* deciders that authorize them (webhook/control_authz.go) and the scripts *)
(* that commit them under an expectation (webhook/redis_store.go).         *)
(*                                                                         *)
(* A handler authorizes the subscription it READ and commits on the one    *)
(* that is STORED when its script runs.  In between another request may    *)
(* have deleted and re-created the subscription, changed its links or      *)
(* claimed it; a request is therefore a record that remembers what it read *)
(* (`expected`) and a stage, and each stage is one action.                 *)
(*                                                                         *)
(* One subscription id.  Arming, acknowledging and the lease clock are     *)
(* Subscription's; here a claim is live until it ends.  The fan-out index  *)
(* and the backfill after a create are FanOut's.                           *)
(***************************************************************************)
EXTENDS Naturals, Sequences

CONSTANTS
  Callers,      \* who sends requests
  Services,     \* the callers that are mesh or static-bearer services
  Gateways,     \* the services that are trusted gateways
  Strangers,    \* the callers whose credential does not authenticate
  Grants,       \* [Callers -> [Actions -> SUBSET Namespaces]]
  Namespace,    \* [Paths -> Namespaces]
  Matches,      \* [Patterns -> SUBSET Paths], GlobMatch
  Prefix,       \* [Patterns -> Namespaces \cup {Unbounded}], GlobLiteralPrefix
  NoPattern, Unbounded, NoWake,
  Configs,      \* the configurations create is sent
  PathLists,    \* the bodies add-streams is sent
  Scenes,       \* what a behaviour may contain: its mode, callers, configurations
                \* and the number of requests
  Slots,        \* requests in flight at once
  MaxIncarnations, MaxClaims

VARIABLES
  scene,     \* the scene: .mode is the AuthMode
  sub,       \* the stored subscription, or NoSub
  incs,      \* the incarnation counter
  claims,    \* wake ids handed out
  sealed,    \* <<path, wake id>>: generations closed in the stream's slot
  call,      \* the request in each slot
  requests,  \* requests received so far
  glob,      \* a stream-created hook that read the subscription's pattern: a path, or NoPath
  scopes,    \* of the write tokens minted on claim, the paths not linked when it was authorized
  wrong,     \* commits made in enforce mode by a caller not entitled to them
  unsealed,  \* <<path, wake id>>: claims that lost a stream without being sealed there
  excused    \* those of them that the request which took the stream could not have read

vars == <<scene, sub, incs, claims, sealed, call, requests, glob, scopes, wrong,
          unsealed, excused>>

NoSub == [inc |-> 0]
NoPath == "none"
Nobody == "nobody"
Paths == DOMAIN Namespace
Actions == {"subscribe", "link", "claim"}

\* Requests name streams that have a namespace, and are served by handlers.  Who
\* may act on the literal prefix of a pattern may act on all that it matches.
ASSUME ControlAssumption ==
  /\ NoPath \notin Slots
  /\ PathLists \subseteq Seq(Paths)
  /\ \A cfg \in Configs : /\ cfg.streams \subseteq Paths
                          /\ cfg.pattern \in {NoPattern} \cup DOMAIN Matches
  /\ \A g \in DOMAIN Matches, who \in Callers, action \in Actions :
       Prefix[g] # Unbounded /\ Prefix[g] \in Grants[who][action] =>
         \A p \in Matches[g] \cap Paths : Namespace[p] \in Grants[who][action]

Exists == sub # NoSub
Enforce == scene.mode = "enforce"

Idle == [op |-> "none", who |-> Nobody, stage |-> "idle", expected |-> NoSub,
         todo |-> <<>>, wake |-> 0, status |-> 0, disturbed |-> FALSE]

-----------------------------------------------------------------------------
(* The deciders.                                                           *)

\* authenticateCaller: who presents a credential that verifies.
authenticates(who) == who \notin Strangers

\* controlCaller.authorize, for one path; a trusted gateway may do everything.
authorize(who, action, ns) == who \in Gateways \/ ns \in Grants[who][action]

\* controlCaller.authorizeAction, where no path is asked about.
authorizeAction(who, action) == who \in Gateways \/ Grants[who][action] # {}

\* The owner stamp: the verified subject, empty without a credential.
Subject(who) == IF authenticates(who) THEN who ELSE Nobody

linkPathsAuthz(who, action, paths) ==
  \A p \in paths : authorize(who, action, Namespace[p])

\* linkAuthz: every explicit stream, everything the pattern can match, and
\* the wake stream.
linkAuthz(who, action, pattern, wakeStream, paths) ==
  /\ linkPathsAuthz(who, action, paths)
  /\ pattern # NoPattern /\ who \notin Gateways =>
       Prefix[pattern] # Unbounded /\ authorize(who, action, Prefix[pattern])
  /\ wakeStream # NoWake => authorize(who, action, Namespace[wakeStream])

\* Config.Streams is rebuilt from the explicit links on every load
\* (subscriptionFromHash), so this authorizes the config of a stored s.
ExplicitLinks(s) == {p \in DOMAIN s.links : s.links[p] = "explicit"}
linkAuthzOf(who, action, s) ==
  linkAuthz(who, action, s.pattern, s.wakeStream, ExplicitLinks(s))

ownershipAuthz(storedOwner, subject) == storedOwner \in {Nobody, subject}
controlOwnershipAuthz(storedOwner, who) ==
  who \in Gateways \/ ownershipAuthz(storedOwner, Subject(who))

claimAuthz(who, s) ==
  controlOwnershipAuthz(s.owner, who) /\ linkAuthzOf(who, "claim", s)

\* controlDeny: a refusal stops the request in enforce mode only.
controlDeny(ok) == ok \/ ~Enforce
Denies(who, ok) == authenticates(who) => controlDeny(ok)

-----------------------------------------------------------------------------
(* The expectation a guarded script compares with the stored record.       *)

\* subscriptionExpectationFromSubscription: owner, incarnation, config hash
\* and the linked paths; the claim is not part of it.
Expectation(s) == [inc |-> s.inc, owner |-> s.owner, hash |-> s.hash,
                   paths |-> DOMAIN s.links]

MatchesById(expected) ==
  IF ~Exists THEN "NOSUB" ELSE "MATCHED"

MatchesExpectation(expected) ==
  IF ~Exists THEN "NOSUB"
  ELSE IF Expectation(sub) = expected THEN "MATCHED" ELSE "FORBIDDEN"

\* An unguarded mutation (insecure mode) is checked against nothing.
Guarded(expected) == IF Enforce THEN MatchesExpectation(expected) ELSE "MATCHED"

-----------------------------------------------------------------------------
(* Entitlement on the state a commit lands on: what the handlers' checks   *)
(* are meant to establish.  The expectation names the linked paths and not *)
(* the kinds of their links, so one kind of path is left out, which a      *)
(* request may have read as a glob link and find explicit: one that a hook *)
(* of an earlier incarnation linked (sub.stray).                           *)

StillGlob(s, path) == s.pattern # NoPattern /\ path \in Matches[s.pattern]

Reaches(who, action, s) ==
  /\ linkAuthz(who, action, s.pattern, s.wakeStream, {})
  /\ linkPathsAuthz(who, action, DOMAIN s.links \ s.stray)

Entitled(who, op, s, paths) ==
  /\ authenticates(who)
  /\ op = "create" => \A a \in {"subscribe", "link"} : linkAuthzOf(who, a, s)
  /\ op # "create" => who \in Gateways \/ s.owner \in {Nobody, who}
  /\ op = "link" => linkPathsAuthz(who, "link", paths)
  /\ op = "unlink" /\ who \in Services => linkPathsAuthz(who, "link", paths)
  /\ op = "delete" /\ who \in Services => Reaches(who, "subscribe", s)
  /\ op = "claim" => Reaches(who, "claim", s)

Commit(who, op, s, paths) ==
  wrong' = IF Enforce /\ ~Entitled(who, op, s, paths)
           THEN wrong \cup {<<who, op>>} ELSE wrong

\* Slot c goes on with `record`.  The other requests in flight notice, for the
\* properties, that what they compare with the record changed.
InFlight(d) == call[d].stage \notin {"idle", "done"}
Disturb(c, record) ==
  LET changed == \/ Exists # (sub' # NoSub)
                 \/ Exists /\ sub' # NoSub /\ Expectation(sub) # Expectation(sub')
  IN call' = [d \in Slots |-> IF d = c THEN record
                              ELSE IF InFlight(d) /\ changed
                                   THEN [call[d] EXCEPT !.disturbed = TRUE] ELSE call[d]]
Step(c, record) == call' = [call EXCEPT ![c] = record]

\* Of an answered request, what the properties ask for: the answer of a delete,
\* and a refusal by the script.
Done(c, status) ==
  IF status = 403 \/ call[c].op = "delete"
  THEN [Idle EXCEPT !.op = call[c].op, !.stage = "done", !.status = status,
                    !.expected = [inc |-> call[c].expected.inc],
                    !.disturbed = call[c].disturbed]
  ELSE Idle
Finish(c, status) == Step(c, Done(c, status))

Received(c, who) ==
  /\ who \in scene.callers
  /\ call[c].stage \in {"idle", "done"}
  /\ requests < scene.requests
  /\ requests' = requests + 1

Fresh(op, who, stage, expected, todo) ==
  [Idle EXCEPT !.op = op, !.who = who, !.stage = stage, !.expected = expected, !.todo = todo]

\* A refusal before any script leaves no trace; `status` is its answer.
Refuse(c, op, who, status) == Step(c, Idle)

-----------------------------------------------------------------------------
(* create                                                                  *)

\* create_sub.lua: MATCHED and CONFLICT change nothing.
CreateScript(c, who, cfg) ==
  IF Exists
  THEN /\ Refuse(c, "create", who,
                 IF ~Denies(who, controlOwnershipAuthz(sub.owner, who)) THEN 403
                 ELSE IF sub.hash = cfg THEN 200 ELSE 409)
       /\ UNCHANGED <<sub, incs, wrong>>
  ELSE /\ incs < MaxIncarnations
       /\ incs' = incs + 1
       /\ sub' = [inc |-> incs + 1, owner |-> Subject(who), hash |-> cfg,
                  pattern |-> cfg.pattern, wakeStream |-> cfg.wakeStream,
                  links |-> [p \in cfg.streams |-> "explicit"], stray |-> {},
                  gen |-> 0, wake |-> 0, live |-> FALSE]
       /\ Commit(who, "create", sub', {})
       /\ Disturb(c, Idle)

handleCreate(c, who, cfg) ==
  /\ cfg \in scene.configs
  /\ Received(c, who)
  /\ IF ~controlDeny(authenticates(who)) THEN
       /\ Refuse(c, "create", who, 401) /\ UNCHANGED <<sub, incs, wrong>>
     ELSE IF ~Denies(who, \A a \in {"subscribe", "link"} :
                            linkAuthz(who, a, cfg.pattern, cfg.wakeStream, cfg.streams)) THEN
       /\ Refuse(c, "create", who, 403) /\ UNCHANGED <<sub, incs, wrong>>
     ELSE CreateScript(c, who, cfg)
  /\ UNCHANGED <<scene, claims, sealed, glob, scopes, unsealed, excused>>

-----------------------------------------------------------------------------
(* Sealing a claim's generation before the stream it writes is taken away. *)

SealNothing(c, paths) == UNCHANGED sealed

\* sealWriteFences, sealWriteFencePath: what the request read as held is
\* closed on those of the paths that were linked.
Seal(c, paths) ==
  LET seen == call[c].expected
  IN sealed' = IF seen.live
               THEN sealed \cup {<<p, seen.wake>> : p \in paths \cap DOMAIN seen.links}
               ELSE sealed

\* What the request could not have read: a claim granted after its read and,
\* where no expectation is compared, a stream linked after it.
Unread(c, path) ==
  LET seen == call[c].expected
  IN \/ seen = NoSub \/ ~seen.live \/ seen.wake # sub.wake
     \/ ~Enforce /\ path \notin DOMAIN seen.links

\* The script that follows takes `paths` from the claim held at that moment.
Lose(c, paths) ==
  LET bare == {p \in paths : sub.live /\ <<p, sub.wake>> \notin sealed}
  IN /\ unsealed' = unsealed \cup {<<p, sub.wake>> : p \in bare}
     /\ excused' = excused \cup {<<p, sub.wake>> : p \in {q \in bare : Unread(c, q)}}

\* A delete takes every linked stream, a remove-stream the one it names.
SealStage(c) ==
  /\ call[c].stage = "seal"
  /\ Seal(c, IF call[c].op = "delete" THEN DOMAIN call[c].expected.links
             ELSE {Head(call[c].todo)})
  /\ Step(c, [call[c] EXCEPT !.stage = "commit"])
  /\ UNCHANGED <<scene, sub, incs, claims, requests, glob, scopes, wrong, unsealed, excused>>

-----------------------------------------------------------------------------
(* delete                                                                  *)

handleDelete(c, who) ==
  /\ Received(c, who)
  /\ IF ~controlDeny(authenticates(who)) THEN Refuse(c, "delete", who, 401)
     ELSE IF ~Exists THEN
       Refuse(c, "delete", who,
              IF ~Denies(who, who \in Services => authorizeAction(who, "subscribe"))
              THEN 403 ELSE 204)
     ELSE IF ~Denies(who, /\ who \in Services => linkAuthzOf(who, "subscribe", sub)
                          /\ controlOwnershipAuthz(sub.owner, who)) THEN
       Refuse(c, "delete", who, 403)
     ELSE Step(c, Fresh("delete", who, "seal", sub, <<>>))
  /\ UNCHANGED <<scene, sub, incs, claims, sealed, glob, scopes, wrong, unsealed, excused>>

\* DeleteAuthorized (enforce) or Delete.
DeleteStage(c) ==
  /\ call[c].op = "delete" /\ call[c].stage = "commit"
  /\ LET answer == Guarded(Expectation(call[c].expected))
     IN IF answer = "MATCHED" /\ Exists
        THEN /\ Commit(call[c].who, "delete", sub, {})
             /\ Lose(c, DOMAIN sub.links)
             /\ sub' = NoSub
             /\ Disturb(c, Done(c, 204))
        ELSE /\ Finish(c, IF answer = "FORBIDDEN" THEN 403 ELSE 204)
             /\ UNCHANGED <<sub, wrong, unsealed, excused>>
  /\ UNCHANGED <<scene, incs, claims, sealed, requests, glob, scopes>>

-----------------------------------------------------------------------------
(* add-streams                                                             *)

\* The streams a request names.
Named(list) == {list[i] : i \in DOMAIN list}

handleAddStreams(c, who, list) ==
  /\ Received(c, who)
  /\ IF ~controlDeny(authenticates(who)) THEN Refuse(c, "link", who, 401)
     ELSE IF ~Denies(who, linkPathsAuthz(who, "link", Named(list))) THEN
       Refuse(c, "link", who, 403)
     ELSE IF Enforce /\ ~Exists THEN Refuse(c, "link", who, 404)
     ELSE IF Exists /\ ~Denies(who, controlOwnershipAuthz(sub.owner, who)) THEN
       Refuse(c, "link", who, 403)
     ELSE Step(c, Fresh("link", who, "commit", sub, list))
  /\ UNCHANGED <<scene, sub, incs, claims, sealed, glob, scopes, wrong, unsealed, excused>>

\* link_stream.lua on the stored record: a new link, or one made explicit.
Linked(path, type) ==
  [sub EXCEPT !.links = [p \in DOMAIN sub.links \cup {path} |->
      IF p # path THEN sub.links[p]
      ELSE IF p \in DOMAIN sub.links /\ type = "glob" THEN sub.links[p] ELSE type]]

\* addExpectedPath: the request's own link is part of what it expects next.
addExpectedPath(seen, path) ==
  [seen EXCEPT !.links = [p \in DOMAIN seen.links \cup {path} |->
                            IF p = path THEN "explicit" ELSE seen.links[p]]]

\* One path of the body; LinkAuthorized (enforce) or the blind Link, which on
\* a missing record leaves links nobody owns (FanOut follows those).
LinkStage(c) ==
  /\ call[c].op = "link" /\ call[c].stage = "commit"
  /\ IF call[c].todo = <<>>
     THEN Finish(c, 204) /\ UNCHANGED <<sub, wrong>>
     ELSE LET path == Head(call[c].todo)
              answer == Guarded(IF Enforce THEN Expectation(call[c].expected) ELSE NoSub)
              next == [call[c] EXCEPT !.todo = Tail(@),
                         !.expected = IF Enforce THEN addExpectedPath(@, path) ELSE @]
          IN IF answer = "MATCHED"
             THEN /\ sub' = IF Exists THEN Linked(path, "explicit") ELSE sub
                  /\ IF Exists THEN Commit(call[c].who, "link", sub, {path}) ELSE UNCHANGED wrong
                  /\ Disturb(c, next)
             ELSE /\ Finish(c, IF answer = "NOSUB" THEN 404 ELSE 403)
                  /\ UNCHANGED <<sub, wrong>>
  /\ UNCHANGED <<scene, incs, claims, sealed, requests, glob, scopes, unsealed, excused>>

-----------------------------------------------------------------------------
(* remove-stream                                                           *)

handleRemoveStream(c, who, path) ==
  /\ Received(c, who)
  /\ IF ~controlDeny(authenticates(who)) THEN Refuse(c, "unlink", who, 401)
     ELSE IF ~Denies(who, who \in Services => linkPathsAuthz(who, "link", {path})) THEN
       Refuse(c, "unlink", who, 403)
     ELSE IF Enforce /\ ~Exists THEN Refuse(c, "unlink", who, 204)
     ELSE IF Exists /\ ~Denies(who, controlOwnershipAuthz(sub.owner, who)) THEN
       Refuse(c, "unlink", who, 403)
     ELSE Step(c, Fresh("unlink", who,
                        IF Exists /\ ~StillGlob(sub, path) THEN "seal" ELSE "commit",
                        sub, <<path>>))
  /\ UNCHANGED <<scene, sub, incs, claims, sealed, glob, scopes, wrong, unsealed, excused>>

Without(links, path) == [p \in DOMAIN links \ {path} |-> links[p]]

\* UnlinkAuthorized (enforce) or Unlink; stillGlob was decided on the record read.
UnlinkStage(c) ==
  /\ call[c].op = "unlink" /\ call[c].stage = "commit"
  /\ LET path == Head(call[c].todo)
         answer == Guarded(Expectation(call[c].expected))
         applies == answer = "MATCHED" /\ Exists /\ path \in DOMAIN sub.links
     IN IF applies
        THEN /\ Commit(call[c].who, "unlink", sub, {path})
             /\ IF call[c].expected # NoSub /\ StillGlob(call[c].expected, path)
                THEN /\ sub' = [sub EXCEPT !.links[path] = "glob"]
                     /\ UNCHANGED <<unsealed, excused>>
                ELSE /\ Lose(c, {path})
                     /\ sub' = [sub EXCEPT !.links = Without(@, path)]
             /\ Disturb(c, Done(c, 204))
        ELSE /\ Finish(c, IF answer = "FORBIDDEN" THEN 403 ELSE 204)
             /\ UNCHANGED <<sub, wrong, unsealed, excused>>
  /\ UNCHANGED <<scene, incs, claims, sealed, requests, glob, scopes>>

-----------------------------------------------------------------------------
(* claim                                                                   *)

handleClaim(c, who) ==
  /\ Received(c, who)
  /\ IF ~controlDeny(authenticates(who)) THEN Refuse(c, "claim", who, 401)
     ELSE IF ~Exists THEN Refuse(c, "claim", who, 404)
     ELSE IF ~Denies(who, claimAuthz(who, sub)) THEN Refuse(c, "claim", who, 403)
     ELSE IF sub.hash.type = "webhook" THEN Refuse(c, "claim", who, 400)
     ELSE Step(c, Fresh("claim", who, "commit", sub, <<>>))
  /\ UNCHANGED <<scene, sub, incs, claims, sealed, glob, scopes, wrong, unsealed, excused>>

\* ClaimAuthorized: guarded in both modes.  A refusal is 403, or 409 where a
\* denial is only recorded.
ClaimStage(c) ==
  /\ call[c].op = "claim" /\ call[c].stage = "commit"
  /\ LET answer == MatchesExpectation(Expectation(call[c].expected))
     IN IF answer # "MATCHED" THEN
          /\ Finish(c, IF answer = "NOSUB" THEN 404 ELSE IF Enforce THEN 403 ELSE 409)
          /\ UNCHANGED <<sub, claims, wrong>>
        ELSE IF sub.live THEN Finish(c, 409) /\ UNCHANGED <<sub, claims, wrong>>
        ELSE /\ claims < MaxClaims
             /\ claims' = claims + 1
             /\ Commit(call[c].who, "claim", sub, {})
             /\ sub' = [sub EXCEPT !.live = TRUE, !.gen = @ + 1, !.wake = claims + 1]
             /\ Step(c, [call[c] EXCEPT !.stage = "mint", !.wake = claims + 1])
  /\ UNCHANGED <<scene, incs, sealed, requests, glob, scopes, unsealed, excused>>

\* The handler reads the subscription again, grants the markers of the claim
\* it finds, and mints a token for the claim it made.  A claim that is no
\* longer live is released and answered 500.
MintStage(c) ==
  /\ call[c].stage = "mint"
  /\ IF Exists /\ sub.live
     THEN /\ scopes' = scopes \cup (DOMAIN sub.links \ DOMAIN call[c].expected.links)
          /\ Finish(c, 200)
     ELSE Finish(c, 500) /\ UNCHANGED scopes
  /\ UNCHANGED <<scene, sub, incs, claims, sealed, requests, glob, wrong, unsealed, excused>>

\* A claim ends: done, released (both sealed first) or expired.
EndClaim ==
  /\ Exists /\ sub.live
  /\ sub' = [sub EXCEPT !.live = FALSE, !.wake = 0]
  /\ UNCHANGED <<scene, incs, claims, sealed, call, requests, glob, scopes, wrong,
                 unsealed, excused>>

-----------------------------------------------------------------------------
(* A stream the pattern matches is created: OnStreamCreated reads the      *)
(* subscription, and links the stream, unguarded, later.                   *)

GlobRead(p) ==
  /\ glob = NoPath
  /\ Exists /\ StillGlob(sub, p) /\ p \notin DOMAIN sub.links
  /\ glob' = p
  /\ UNCHANGED <<scene, sub, incs, claims, sealed, call, requests, scopes, wrong,
                 unsealed, excused>>

GlobLink ==
  /\ glob # NoPath
  /\ glob' = NoPath
  /\ IF Exists
     THEN /\ sub' = LET linked == Linked(glob, "glob")
                    IN IF StillGlob(sub, glob) \/ glob \in DOMAIN sub.links THEN linked
                       ELSE [linked EXCEPT !.stray = @ \cup {glob}]
          /\ Disturb(NoPath, Idle)
     ELSE UNCHANGED <<sub, call>>
  /\ UNCHANGED <<scene, incs, claims, sealed, requests, scopes, wrong, unsealed, excused>>

-----------------------------------------------------------------------------

Init ==
  /\ scene \in Scenes
  /\ sub = NoSub /\ incs = 0 /\ claims = 0 /\ sealed = {}
  /\ call = [c \in Slots |-> Idle]
  /\ requests = 0 /\ glob = NoPath /\ scopes = {}
  /\ wrong = {} /\ unsealed = {} /\ excused = {}

Next ==
  \/ \E c \in Slots, who \in Callers :
       \/ \E cfg \in Configs : handleCreate(c, who, cfg)
       \/ handleDelete(c, who)
       \/ \E list \in PathLists : handleAddStreams(c, who, list)
       \/ \E p \in Paths : handleRemoveStream(c, who, p)
       \/ handleClaim(c, who)
  \/ \E c \in Slots : \/ SealStage(c) \/ DeleteStage(c) \/ LinkStage(c)
                      \/ UnlinkStage(c) \/ ClaimStage(c) \/ MintStage(c)
  \/ EndClaim
  \/ \E p \in Paths : GlobRead(p)
  \/ GlobLink

Spec == Init /\ [][Next]_vars

-----------------------------------------------------------------------------

\* TypeOK: the counters agree with the record, a live claim has a wake id
\* that was handed out, and a request past its read remembers what it read.
TypeOK ==
  /\ sub.inc \in 0 .. incs
  /\ Exists => /\ sub.owner \in Callers \cup {Nobody}
               /\ DOMAIN sub.links \subseteq Paths
               /\ sub.wake \in 0 .. claims
               /\ sub.live => sub.wake > 0
  /\ \A c \in Slots : InFlight(c) /\ Enforce => call[c].expected.inc \in 1 .. incs
  /\ sealed \subseteq Paths \X (1 .. claims)
  /\ unsealed \subseteq Paths \X (1 .. claims) /\ excused \subseteq unsealed

\* Whatever happened between a request's read and its script, in enforce mode
\* nothing is committed that its caller may not do to the subscription as it
\* is then stored: its owner, its incarnation, its configuration and its links
\* are the ones that were authorized.
CommitsAreEntitled == wrong = {}

\* A delete that read an incarnation and is answered 204 leaves it gone for good.
DeleteIsFinal ==
  \A c \in Slots :
    call[c].op = "delete" /\ call[c].status = 204 /\ call[c].expected.inc > 0 =>
      sub.inc # call[c].expected.inc

\* In either mode, a claim that loses a stream to a delete or a remove-stream
\* was sealed on that stream first, with two exceptions: the claim was granted
\* after the request had read the subscription (the expectation does not name
\* the claim) or, in insecure mode, where the scripts are unguarded, the stream
\* was linked after that read.
LostClaimsAreSealed == unsealed \subseteq excused

\* A request is refused by its own expectation only when somebody changed the
\* owner, the incarnation, the configuration or the linked paths meanwhile;
\* its own links, a claim and a link's change of type do not count.
RefusalHasACause ==
  \A c \in Slots :
    call[c].status = 403 /\ call[c].expected.inc > 0 => call[c].disturbed

\* A write token names only streams that the claimer was authorized for when
\* it claimed.  (The links are read again after the claim.)
ScopeWasAuthorized == Enforce => scopes = {}
=============================================================================
