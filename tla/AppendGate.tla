---------------------------- MODULE AppendGate ----------------------------
(***************************************************************************)
(* The authorization seam of the data plane: which credential family a     *)
(* request is routed to, what its credentials prove, and the two phases of *)
(* the append gate around the stream lookup.                               *)
(*                                                                         *)
(* A behaviour follows one request.  Between the phases time passes, keys  *)
(* are denied, the claim behind a write token changes hands, and the       *)
(* stream is deleted or created again: those are the actions of the        *)
(* environment, at most MaxEvents of them.  A claim is (incarnation,       *)
(* generation): within an incarnation of the subscription a generation has *)
(* one wake id and one holder.  How the marker of a claim gets to the      *)
(* streams is AppendFence; here it follows the claim in one later step.    *)
(*                                                                         *)
(* Cryptography is abstract: a token is a record, and holding one of type  *)
(* t under key k means it was minted so.  A path is a sequence of segments.*)
(***************************************************************************)
EXTENDS Integers, Sequences, FiniteSets, SequencesExt

CONSTANTS Requests,    \* the requests a behaviour may follow
          WriteTokens, \* the write tokens claim verification is asked about
          Modes,       \* AuthMode: subset of {"insecure", "enforce"}
          Gates,       \* what AppendAuth is: "none", "stateless", "live", "atomic"
          Trusted,     \* TrustedSPIFFEIDs
          Policy,      \* per service identity its policy
          CallerSkew, WakeSkew, LeaseTTL,
          MaxNow, MaxEvents

VARIABLES mode, gate, req,
          now, kids, sub, marker, stream, \* the world the request meets
          pc, cred, class, fence, reply,  \* the request
          vouched,                        \* history: was the last gate entitled to pass it
          met,                            \* history: the lookup met a fenced stream
          events

world == <<now, kids, sub, marker, stream>>
vars == <<mode, gate, req, world, pc, cred, class, fence, reply, vouched, met, events>>

NoToken == [typ |-> "none", kid |-> "none", scope |-> {}, exp |-> 0, nbf |-> 0,
            inc |-> 0, gen |-> 0, holder |-> "", shard |-> 0]
NoFence == [inc |-> 0, gen |-> 0, holder |-> ""]
NoCred == [family |-> "none", ok |-> FALSE, reason |-> "none", shard |-> FALSE,
           token |-> NoToken, malformed |-> FALSE, declared |-> FALSE]

-----------------------------------------------------------------------------
(* Decisions and paths *)

Allow == [ok |-> TRUE, reason |-> "none", shard |-> FALSE]
Deny(reason) == [ok |-> FALSE, reason |-> reason, shard |-> FALSE]
DenyShard == [Deny("unauthenticated") EXCEPT !.shard = TRUE]

\* The normalized path, or <<>> when the spelling is refused.
NormalizeStreamPath(raw) ==
    IF \E i \in DOMAIN raw : raw[i] \in {"", ".", ".."} THEN <<>> ELSE raw

PathWithinPrefixes(path, prefixes) == \E p \in prefixes : IsPrefix(p, path)

-----------------------------------------------------------------------------
(* Service identities *)

\* The peer an X-Forwarded-Client-Cert header proves: the last element only, and
\* nobody when any part of the header is malformed.
VerifyXFCC(elements) ==
    IF "malformed" \notin ToSet(elements) /\ Last(elements) \in Trusted
    THEN Last(elements) ELSE ""

\* Mutant: a refused mesh identity falls back to the static bearer.
AuthenticateFallingBack(r) ==
    IF r.xfcc # <<>> /\ r.marker /\ VerifyXFCC(r.xfcc) # ""
    THEN [status |-> "authenticated", id |-> VerifyXFCC(r.xfcc)]
    ELSE IF r.bearer.typ = "service"
    THEN [status |-> "authenticated", id |-> r.bearer.holder]
    ELSE [status |-> "notAttempted", id |-> ""]

\* Which service a request comes from; a presented mesh identity that fails is
\* terminal and never downgrades to the bearer.
AuthenticateDetail(r) ==
    IF r.xfcc # <<>>
    THEN IF r.marker /\ VerifyXFCC(r.xfcc) # ""
         THEN [status |-> "authenticated", id |-> VerifyXFCC(r.xfcc)]
         ELSE [status |-> "rejected", id |-> ""]
    ELSE IF r.bearer.typ = "service"
    THEN [status |-> "authenticated", id |-> r.bearer.holder]
    ELSE [status |-> "notAttempted", id |-> ""]

\* What the policy of a verified service says of an action on a path.
AuthorizeService(id, action, path) ==
    IF id \notin DOMAIN Policy THEN Deny("forbidden")
    ELSE IF Policy[id].gateway THEN Allow
    ELSE IF action \in Policy[id].actions /\ PathWithinPrefixes(path, Policy[id].namespaces)
    THEN Allow
    ELSE Deny("forbidden")

\* routed: no other credential family may be tried.
ServiceDecision(r, path, action) ==
    LET a == AuthenticateDetail(r) IN
    CASE a.status = "rejected" -> [routed |-> TRUE, d |-> Deny("unauthenticated")]
      [] a.status = "authenticated" -> [routed |-> TRUE, d |-> AuthorizeService(a.id, action, path)]
      [] OTHER -> [routed |-> FALSE, d |-> Deny("none")]

-----------------------------------------------------------------------------
(* Signed tokens: users, woken entities, callers, read capabilities *)

\* The key family that signs each type of token.
Family(typ) == CASE typ = "wake" -> "wake" [] typ = "user" -> "idp" [] OTHER -> "caller"

\* A compact JWS is accepted for exactly the type asked for, under a key of that
\* type's family that still verifies.
VerifyCompactJWS(t, typ) == t.typ = typ /\ t.kid \in kids[Family(typ)]

ValidateWakeToken(t) ==
    /\ VerifyCompactJWS(t, "wake")
    /\ now <= t.exp + WakeSkew /\ now >= t.nbf - WakeSkew

ValidateCallerToken(t) ==
    VerifyCompactJWS(t, "caller") /\ now - CallerSkew <= t.exp /\ t.nbf <= now + CallerSkew

ValidateReadCapability(t) ==
    /\ VerifyCompactJWS(t, "read") /\ now - CallerSkew <= t.exp /\ t.nbf <= now + CallerSkew
    /\ t.scope # {}

VerifyOIDCUser(t) ==
    VerifyCompactJWS(t, "user") /\ now - CallerSkew <= t.exp /\ t.nbf <= now + CallerSkew

\* A verified token acts within its scope and is refused outside it.
Scoped(valid, t, path) ==
    IF ~valid THEN Deny("unauthenticated")
    ELSE IF PathWithinPrefixes(path, t.scope) THEN Allow ELSE Deny("forbidden")

AuthorizeEntity(t, path) == Scoped(ValidateWakeToken(t), t, path)
AuthorizeCaller(t, path) == Scoped(ValidateCallerToken(t), t, path)
AuthorizeRead(t, path) == Scoped(ValidateReadCapability(t), t, path)

\* A bearer is routed by its unverified type (wake) or issuer (the IdP).
AgentDecision(t, path) == [routed |-> t.typ = "wake", d |-> AuthorizeEntity(t, path)]
UserDecision(t, path) == [routed |-> t.typ = "user", d |-> Scoped(VerifyOIDCUser(t), t, path)]

-----------------------------------------------------------------------------
(* The claim-scoped write token *)

\* The token itself: MAC, type and expiry.
ParseWriteToken(t) ==
    IF t.typ # "write" THEN "invalid" ELSE IF now > t.exp THEN "expired" ELSE "valid"

ValidateWriteToken(t, path) ==
    IF ParseWriteToken(t) = "valid" /\ path \notin t.scope THEN "wrongPath" ELSE ParseWriteToken(t)

\* check_write_fence.lua: the token's claim is the live one of the subscription.
VerifyWriteFence(t) ==
    /\ sub.exists /\ sub.live /\ sub.until > now
    /\ t.inc \in {0, sub.inc} /\ t.gen = sub.gen /\ t.holder = sub.holder

\* The live-state arm that the append gate and claim verification share.
LiveClaimDecision(t) ==
    IF t.holder = "" \/ ~VerifyWriteFence(t) \/ (gate = "atomic" /\ t.inc = 0)
    THEN Deny("fenced") ELSE Allow

AuthorizeAppendCredential(t, path) ==
    IF t = NoToken THEN Deny("unauthenticated")
    ELSE LET v == ValidateWriteToken(t, path) IN
    IF v # "invalid" /\ t.shard # 0 THEN DenyShard
    ELSE IF v = "valid" THEN Allow
    ELSE IF v = "wrongPath" THEN Deny("forbidden")
    ELSE Deny("unauthenticated")

\* The decision of phase 2, and the identity the store compares in the slot.
AuthorizeAppendFence(t, path) ==
    LET c == AuthorizeAppendCredential(t, path)
        d == IF c.ok /\ gate # "stateless" THEN LiveClaimDecision(t) ELSE c
    IN [d |-> d,
        fence |-> IF d.ok /\ gate = "atomic"
                  THEN [inc |-> t.inc, gen |-> t.gen, holder |-> t.holder] ELSE NoFence]

\* Mutant: verification does not apply the shard rule of the append gate.
VerifyClaimAnyShard(t) ==
    IF ParseWriteToken(t) # "valid" THEN ParseWriteToken(t)
    ELSE IF LiveClaimDecision(t).ok THEN "ok" ELSE "fenced"

\* The claim/verify route on a token of this subscription.
VerifyClaim(t) ==
    IF ParseWriteToken(t) = "invalid" \/ t.shard # 0 THEN "invalid"
    ELSE IF ParseWriteToken(t) = "expired" THEN "expired"
    ELSE IF LiveClaimDecision(t).ok THEN "ok" ELSE "fenced"

\* Write-Token, then electric-claim-token; a duplicated or empty header is
\* presented but malformed and never falls through.
NamedWriteTokenCarrier(r) ==
    LET h == IF r.writeToken # <<>> THEN r.writeToken ELSE r.claimToken
        bad == h # <<>> /\ (Len(h) > 1 \/ h[1] = NoToken)
    IN [present |-> h # <<>>, malformed |-> bad,
        token |-> IF h = <<>> \/ bad THEN NoToken ELSE h[1]]

PresentedWriteToken(r, family) ==
    LET c == NamedWriteTokenCarrier(r) IN
    IF c.present THEN [token |-> c.token, malformed |-> c.malformed]
    ELSE [token |-> IF family \in {"service", "agent"} THEN NoToken ELSE r.bearer,
          malformed |-> FALSE]

\* The token arm of one phase.
TokenDecision(t, malformed, path, phase) ==
    IF gate = "none" \/ malformed
    THEN [d |-> Deny("unauthenticated"), fence |-> NoFence]
    ELSE IF phase = "credential"
    THEN [d |-> AuthorizeAppendCredential(t, path), fence |-> NoFence]
    ELSE AuthorizeAppendFence(t, path)

-----------------------------------------------------------------------------
(* Reads, creates and deletes: one gate before any store access *)

ReadDecision(r, raw) ==
    LET path == NormalizeStreamPath(raw)
        svc == ServiceDecision(r, path, "read")
        user == UserDecision(r.bearer, path)
        agent == AgentDecision(r.bearer, path)
    IN IF path = <<>> THEN Deny("forbidden")
       ELSE IF svc.routed THEN svc.d
       ELSE IF r.bearer = NoToken THEN Deny("unauthenticated")
       ELSE IF user.routed THEN user.d
       ELSE IF agent.routed THEN agent.d
       ELSE AuthorizeRead(r.bearer, path)

\* No agent arm: an entity does not create or destroy entities.
MutateDecision(r, raw, action) ==
    LET path == NormalizeStreamPath(raw)
        svc == ServiceDecision(r, path, action)
        user == UserDecision(r.bearer, path)
    IN IF path = <<>> THEN Deny("forbidden")
       ELSE IF svc.routed THEN svc.d
       ELSE IF r.bearer = NoToken THEN Deny("unauthenticated")
       ELSE IF user.routed THEN user.d
       ELSE AuthorizeCaller(r.bearer, path)

\* Whether a denial is enforced, or only logged as telemetry.
Enforced(m, bind) == bind \/ m = "enforce"

-----------------------------------------------------------------------------
(* Appends: phase 1, before the stream lookup *)

RouteAppend(r) ==
    LET path == NormalizeStreamPath(r.raw)
        svc == ServiceDecision(r, path, "append")
        agent == AgentDecision(r.bearer, path)
    IN IF path = <<>> THEN [path |-> path, family |-> "none", d |-> Deny("forbidden")]
       ELSE IF svc.routed THEN [path |-> path, family |-> "service", d |-> svc.d]
       ELSE IF agent.routed THEN [path |-> path, family |-> "agent", d |-> agent.d]
       ELSE [path |-> path, family |-> "claim", d |-> Deny("none")]

Presented(c) == c.token # NoToken \/ c.malformed

\* Phase 1.  A declared fenced write needs a token, and one that verifies next to
\* whatever principal was routed; a token of another shard is refused everywhere.
AuthorizeAppendCredentialPhase(r, m) ==
    LET route == RouteAppend(r)
        t == PresentedWriteToken(r, route.family)
        presented == t.token # NoToken \/ t.malformed
        arm == route.family = "claim" \/ (r.declared /\ route.d.ok)
        d == IF r.declared /\ ~presented THEN Deny("unauthenticated")
             ELSE IF arm THEN TokenDecision(t.token, t.malformed, route.path, "credential").d
             ELSE route.d
        why == IF r.declared /\ ~presented THEN "credential"
               ELSE IF arm /\ presented THEN (IF d.shard THEN "shard" ELSE "credential")
               ELSE ""
    IN [denied |-> ~d.ok /\ Enforced(m, r.declared \/ why = "shard"), why |-> why, d |-> d,
        cred |-> [family |-> route.family, ok |-> d.ok, reason |-> d.reason, shard |-> d.shard,
                  token |-> t.token, malformed |-> t.malformed, declared |-> r.declared]]

\* The write class on a fenced stream.  A presented token or the assertion makes it
\* fenced, and then the token's decision binds in every mode.
ClassifyFencedStream(c, path, m) ==
    IF Presented(c) \/ c.declared
    THEN LET own == [ok |-> c.ok, reason |-> c.reason, shard |-> c.shard]
             d == IF c.family # "claim" /\ c.ok /\ ~c.declared
                  THEN TokenDecision(c.token, c.malformed, path, "credential").d ELSE own
         IN [denied |-> ~d.ok, class |-> "fenced", d |-> d,
             why |-> IF d.shard THEN "shard" ELSE "credential"]
    ELSE CASE c.family = "agent" ->
                [denied |-> TRUE, class |-> "open", d |-> Deny("forbidden"), why |-> "wake_token"]
           [] c.family = "service" ->
                [denied |-> FALSE, class |-> "open", d |-> Allow, why |-> ""]
           [] OTHER ->
                [denied |-> Enforced(m, FALSE), class |-> "open", d |-> Deny("unauthenticated"),
                 why |-> "principal"]

\* Phase 2, immediately before the mutation.  The fenced class is the token's alone
\* and must come with a fence; the open class follows AuthMode.
AuthorizeAppendFencePhase(r, c, k, m) ==
    LET path == NormalizeStreamPath(r.raw)
        route == RouteAppend(r)
        t == TokenDecision(c.token, c.malformed, path, "fence")
        d == IF k = "fenced" \/ route.family = "claim" THEN t.d ELSE route.d
    IN IF k = "fenced"
       THEN [denied |-> ~d.ok \/ t.fence = NoFence,
             d |-> IF d.ok THEN Deny("fenced") ELSE d,
             fence |-> t.fence,
             why |-> IF d.ok THEN "store" ELSE IF d.reason = "fenced" THEN "precheck"
                     ELSE IF d.shard THEN "shard" ELSE "credential"]
       ELSE [denied |-> ~d.ok /\ Enforced(m, FALSE), d |-> d,
             fence |-> IF d.ok /\ m = "enforce" /\ route.family = "claim" THEN t.fence ELSE NoFence,
             why |-> IF d.reason = "fenced" THEN "precheck" ELSE ""]

-----------------------------------------------------------------------------
(* What entitles a request, whatever the order the gates ask in: the reference *)
(* the decisions are compared with.                                            *)

Under(path, p) == Len(p) <= Len(path) /\ SubSeq(path, 1, Len(p)) = p
Covers(scope, path) == \E p \in scope : Under(path, p)

PolicyGrants(id, action, path) ==
    /\ id \in DOMAIN Policy
    /\ \/ Policy[id].gateway
       \/ action \in Policy[id].actions /\ Covers(Policy[id].namespaces, path)

Current(t, skew) == t.kid \in kids[Family(t.typ)] /\ t.nbf - skew <= now /\ now <= t.exp + skew

Proves(t, action, path, phase) ==
    CASE t.typ = "wake" ->
            action \in {"read", "append"} /\ Current(t, WakeSkew) /\ Covers(t.scope, path)
      [] t.typ = "user" ->
            action # "append" /\ Current(t, CallerSkew) /\ Covers(t.scope, path)
      [] t.typ = "read" ->
            action = "read" /\ Current(t, CallerSkew) /\ Covers(t.scope, path)
      [] t.typ = "caller" ->
            action \in {"create", "delete"} /\ Current(t, CallerSkew) /\ Covers(t.scope, path)
      [] t.typ = "write" ->
            /\ action = "append" /\ t.shard = 0 /\ path \in t.scope /\ now <= t.exp
            /\ phase = "credential" \/ gate = "stateless"
               \/ (sub.exists /\ sub.live /\ now < sub.until /\ t.gen = sub.gen
                   /\ t.holder = sub.holder /\ t.inc \in {0, sub.inc})
      [] OTHER -> FALSE

Vouched(r, action, path, phase) ==
    /\ path # <<>>
    /\ \/ /\ r.xfcc # <<>> /\ r.marker
          /\ \A i \in DOMAIN r.xfcc : r.xfcc[i] # "malformed"
          /\ r.xfcc[Len(r.xfcc)] \in Trusted /\ PolicyGrants(r.xfcc[Len(r.xfcc)], action, path)
       \/ /\ r.xfcc = <<>> /\ r.bearer.typ = "service" /\ PolicyGrants(r.bearer.holder, action, path)
       \/ /\ r.xfcc = <<>>
          /\ \E t \in {r.bearer} \cup ToSet(r.writeToken) \cup ToSet(r.claimToken) :
                /\ Proves(t, action, path, phase)
                /\ t.typ = "write" /\ r.writeToken # <<>> =>
                      Len(r.writeToken) = 1 /\ r.writeToken[1] # NoToken

-----------------------------------------------------------------------------
(* The request *)

DenyStatus(d) == CASE d.reason = "forbidden" -> 403 [] d.reason = "fenced" -> 409 [] OTHER -> 401

Answer(status, why) == pc' = "done" /\ reply' = [status |-> status, why |-> why]

\* Authorize, then the store call: reads, creates and deletes.
Direct ==
    /\ pc = "start" /\ req.op # "append"
    /\ LET d == IF req.op = "read" THEN ReadDecision(req, req.raw)
                ELSE MutateDecision(req, req.raw, req.op)
           source == IF req.op = "create" /\ req.source # <<>> THEN ReadDecision(req, req.source)
                     ELSE Allow
       IN /\ vouched' = (/\ Vouched(req, req.op, NormalizeStreamPath(req.raw), "credential")
                         /\ req.op = "create" /\ req.source # <<>> =>
                              Vouched(req, "read", NormalizeStreamPath(req.source), "credential"))
          /\ IF ~d.ok /\ Enforced(mode, FALSE) THEN Answer(DenyStatus(d), "")
             ELSE IF req.op = "create" /\ req.source # <<>> /\ NormalizeStreamPath(req.source) = <<>>
             THEN Answer(400, "")
             ELSE IF ~source.ok /\ Enforced(mode, FALSE) THEN Answer(DenyStatus(source), "")
             ELSE Answer(IF stream.exists \/ req.op = "create" THEN 200 ELSE 404, "")
    /\ UNCHANGED <<mode, gate, req, world, cred, class, fence, met, events>>

\* Phase 1 of handleAppend.
Credential ==
    /\ pc = "start" /\ req.op = "append"
    /\ LET p == AuthorizeAppendCredentialPhase(req, mode) IN
          IF p.denied THEN Answer(DenyStatus(p.d), p.why) /\ UNCHANGED cred
          ELSE pc' = "lookup" /\ cred' = p.cred /\ UNCHANGED reply
    /\ vouched' = Vouched(req, "append", NormalizeStreamPath(req.raw), "credential")
    /\ UNCHANGED <<mode, gate, req, world, class, fence, met, events>>

\* The stream lookup, the class on a fenced stream, and the producer headers.
Lookup ==
    /\ pc = "lookup"
    /\ LET k == ClassifyFencedStream(cred, NormalizeStreamPath(req.raw), mode)
           cl == IF stream.fenced THEN k.class ELSE "open"
       IN IF ~stream.exists THEN Answer(404, "") /\ UNCHANGED class
          ELSE IF stream.fenced /\ k.denied THEN Answer(DenyStatus(k.d), k.why) /\ UNCHANGED class
          ELSE /\ class' = cl
               /\ IF req.producer = "partial" \/ (cl = "fenced" /\ req.producer # "full")
                  THEN Answer(400, "") ELSE pc' = "fence" /\ UNCHANGED reply
    /\ met' = stream.fenced
    /\ UNCHANGED <<mode, gate, req, world, cred, fence, vouched, events>>

\* Phase 2 of handleAppend.
Fence ==
    /\ pc = "fence"
    /\ LET p == AuthorizeAppendFencePhase(req, cred, class, mode) IN
          IF p.denied THEN Answer(DenyStatus(p.d), p.why) /\ UNCHANGED fence
          ELSE pc' = "commit" /\ fence' = p.fence /\ UNCHANGED reply
    /\ vouched' = Vouched(req, "append", NormalizeStreamPath(req.raw), "fence")
    /\ UNCHANGED <<mode, gate, req, world, cred, class, met, events>>

\* The store call: a fence is compared with the stream's own marker.
Commit ==
    /\ pc = "commit"
    /\ IF ~stream.exists THEN Answer(404, "")
       ELSE IF fence # NoFence /\ (fence # marker.claim \/ marker.sealed) THEN Answer(409, "slot")
       ELSE Answer(200, "")
    /\ UNCHANGED <<mode, gate, req, world, cred, class, fence, vouched, met, events>>

-----------------------------------------------------------------------------
(* The world around it *)

Happens == pc \notin {"start", "done"} /\ events < MaxEvents /\ events' = events + 1
              /\ UNCHANGED <<mode, gate, req, pc, cred, class, fence, reply, vouched, met>>

Tick == Happens /\ now < MaxNow /\ now' = now + 1 /\ UNCHANGED <<kids, sub, marker, stream>>

\* A reload drops a denied or retired key from the verification set.
DropKid ==
    /\ Happens
    /\ \E f \in DOMAIN kids : kids[f] # {} /\ kids' = [kids EXCEPT ![f] = {}]
    /\ UNCHANGED <<now, sub, marker, stream>>

\* A worker claims the subscription once the last lease is over.
Reclaim ==
    /\ Happens /\ sub.exists /\ (~sub.live \/ sub.until <= now)
    /\ sub' = [sub EXCEPT !.gen = @ + 1, !.holder = "w2", !.live = TRUE, !.until = now + LeaseTTL]
    /\ UNCHANGED <<now, kids, marker, stream>>

GrantMarker ==
    /\ Happens /\ sub.exists /\ sub.live
    /\ marker' = [claim |-> [inc |-> sub.inc, gen |-> sub.gen, holder |-> sub.holder], sealed |-> FALSE]
    /\ marker' # marker
    /\ UNCHANGED <<now, kids, sub, stream>>

\* Release and delete seal before they leave the subscription's slot.
SealAndLeave ==
    /\ Happens /\ sub.exists /\ sub.live
    /\ marker' = [marker EXCEPT !.sealed = TRUE]
    /\ \/ sub' = [sub EXCEPT !.live = FALSE]
       \/ sub' = [sub EXCEPT !.live = FALSE, !.exists = FALSE]
    /\ UNCHANGED <<now, kids, stream>>

\* A new subscription of the same id starts again at generation 0.
Recreate ==
    /\ Happens /\ ~sub.exists
    /\ sub' = [exists |-> TRUE, inc |-> sub.inc + 1, gen |-> 0, holder |-> "", live |-> FALSE, until |-> 0]
    /\ UNCHANGED <<now, kids, marker, stream>>

\* The stream is deleted, or created anew, perhaps with the other choice of fence.
Replace ==
    /\ Happens
    /\ stream' \in [exists : BOOLEAN, fenced : BOOLEAN] /\ stream' # stream
    /\ marker' = [claim |-> NoFence, sealed |-> FALSE]
    /\ UNCHANGED <<now, kids, sub>>

Init ==
    /\ mode \in Modes /\ gate \in Gates /\ req \in Requests
    /\ now = 1 /\ kids = [f \in {"wake", "caller", "idp"} |-> {"k1"}]
    /\ sub = [exists |-> TRUE, inc |-> 1, gen |-> 1, holder |-> "w1", live |-> TRUE, until |-> 1 + LeaseTTL]
    /\ marker = [claim |-> [inc |-> 1, gen |-> 1, holder |-> "w1"], sealed |-> FALSE]
    /\ stream \in [exists : {TRUE}, fenced : BOOLEAN]
    /\ pc = "start" /\ cred = NoCred /\ class = "open" /\ fence = NoFence
    /\ reply = [status |-> 0, why |-> ""] /\ vouched = FALSE /\ met = FALSE
    /\ events = 0

Next ==
    \/ Direct \/ Credential \/ Lookup \/ Fence \/ Commit
    \/ Tick \/ DropKid \/ Reclaim \/ GrantMarker \/ SealAndLeave \/ Recreate \/ Replace

Spec == Init /\ [][Next]_vars

-----------------------------------------------------------------------------
(* Properties *)

TypeOK ==
    /\ mode \in Modes /\ gate \in Gates
    /\ now \in 0 .. MaxNow /\ events \in 0 .. MaxEvents
    /\ pc \in {"start", "lookup", "fence", "commit", "done"}
    /\ class \in {"open", "fenced"} /\ vouched \in BOOLEAN /\ met \in BOOLEAN
    /\ reply.status \in {0, 200, 400, 401, 403, 404, 409}
    /\ cred.family \in {"none", "service", "agent", "claim"}

Acted == pc = "done" /\ reply.status = 200

\* With enforcement on, nothing is read, written, created or deleted unless one of
\* the presented credentials entitled the request when the last gate looked: a
\* rejected mesh identity never falls through to another credential, a malformed
\* carrier never to the next one, and a deposed claim never writes (authz.go).
OnlyTheEntitledAct == (Acted /\ mode = "enforce") => vouched

\* With enforcement on, only a request whose credentials stand learns whether a
\* stream exists, and the "principal" refusal is never sent (authz_write_fence.go
\* says the gate of phase 1 makes it unreachable).
StrangersLearnNothing ==
    /\ (pc = "done" /\ reply.status = 404 /\ mode = "enforce") => vouched
    /\ reply.why # "principal"

\* A write that presents a token, or asserts the fence, on a fenced stream commits
\* only under a fence, whatever AuthMode and whatever else it presents; and a wake
\* token alone never writes one.
FenceBindsInEveryMode ==
    (pc = "commit" /\ met /\ (Presented(cred) \/ req.declared \/ cred.family = "agent")) =>
        fence # NoFence

\* Insecure mode only widens: at each gate, what enforcement lets through insecure
\* mode lets through as well, so switching enforcement on never admits a request.
InsecureOnlyWidens ==
    /\ req.op = "append" /\ pc = "start" /\ ~AuthorizeAppendCredentialPhase(req, "enforce").denied =>
          ~AuthorizeAppendCredentialPhase(req, "insecure").denied
    /\ pc = "lookup" /\ ~ClassifyFencedStream(cred, NormalizeStreamPath(req.raw), "enforce").denied =>
          ~ClassifyFencedStream(cred, NormalizeStreamPath(req.raw), "insecure").denied
    /\ pc = "fence" /\ ~AuthorizeAppendFencePhase(req, cred, class, "enforce").denied =>
          ~AuthorizeAppendFencePhase(req, cred, class, "insecure").denied

\* In insecure mode a client that knows nothing of fences is never refused: a
\* refusal of authority comes only with a declared fence, a token of another
\* shard, or a fenced stream.
BaseClientsAreNotBroken ==
    (pc = "done" /\ mode = "insecure" /\ reply.status \in {401, 403, 409}) =>
        req.declared \/ reply.why = "shard" \/ met

\* Claim verification answers exactly as the write-token part of the append gate
\* would at that instant, on every path of the token's scope (WRITE-FENCING.md
\* WF-29), except for a gate that has no claim store to ask.
VerifyAgreesWithGate ==
    \A t \in WriteTokens : \A path \in t.scope :
        gate \in {"live", "atomic"} =>
            (VerifyClaim(t) = "ok" <=> AuthorizeAppendFence(t, path).d.ok)
=============================================================================
