----------------------------- MODULE MCAccess -----------------------------
(***************************************************************************)
(* Small instances of what decides who may do what: the gate of an append  *)
(* (AppendGate), the control-plane requests (ControlPlane), the lives of a *)
(* claim's tokens (TokenLife) and the cached keys of an identity provider  *)
(* (UserKeys).  They share no state; a behaviour is one of one of them,    *)
(* and the variables of the others keep the value 0.                       *)
(***************************************************************************)
EXTENDS ControlPlane, Integers, TLC

CONSTANTS k1, k2, NoKid

VARIABLE part   \* "gate", "control", "tokens" or "keys"

-----------------------------------------------------------------------------
(* The gate: one request, every credential family, four deployments.       *)

VARIABLES mode, gate, req, now, kids, gateSub, marker, stream,
          pc, cred, class, fence, reply, vouched, met, events

gateVars == <<mode, gate, req, now, kids, gateSub, marker, stream,
              pc, cred, class, fence, reply, vouched, met, events>>

T == <<"t">>
TA == <<"t", "a">>
U == <<"u">>

NoToken == [typ |-> "none", kid |-> "none", scope |-> {}, exp |-> 0, nbf |-> 0,
            inc |-> 0, gen |-> 0, holder |-> "", shard |-> 0]
GateTrusted == {"mesh"}
GatePolicy ==
    [mesh |-> [gateway |-> FALSE, actions |-> {"append", "read"}, namespaces |-> {T}],
     svc |-> [gateway |-> FALSE, actions |-> {"append", "create"}, namespaces |-> {T}],
     gw |-> [gateway |-> TRUE, actions |-> {}, namespaces |-> {}]]

Tok(typ, scope, exp) == [NoToken EXCEPT !.typ = typ, !.kid = "k1", !.scope = scope, !.exp = exp]
Service(id) == [NoToken EXCEPT !.typ = "service", !.holder = id]
Write(exp) == [Tok("write", {TA}, exp) EXCEPT !.inc = 1, !.gen = 1, !.holder = "w1"]
Unbound == Tok("write", {TA}, 2)
Sharded == [Write(2) EXCEPT !.shard = 1]

GateWriteTokens == {Write(1), Write(2), Unbound, Sharded, [Write(2) EXCEPT !.inc = 0],
                  [Write(2) EXCEPT !.gen = 2, !.holder = "w2"], Tok("callback", {TA}, 2)}

Meshes == {<<>>, <<"mesh">>, <<"mesh", "peer">>, <<"malformed", "mesh">>}

Base == [op |-> "append", raw |-> TA, source |-> <<>>, xfcc |-> <<>>, marker |-> TRUE, bearer |-> NoToken,
         writeToken |-> <<>>, claimToken |-> <<>>, declared |-> FALSE, producer |-> "full"]

\* Appends: every mesh header with every bearer and carrier.
Appends ==
    {[Base EXCEPT !.xfcc = x, !.bearer = b, !.writeToken = w, !.declared = d] :
        x \in Meshes, d \in BOOLEAN,
        b \in {NoToken, Service("svc"), Service("gw"), Tok("wake", {TA}, 1), Write(2), Tok("read", {T}, 2)},
        w \in {<<>>, <<NoToken>>, <<Write(2)>>, <<Sharded>>}}

\* Other carriers, paths and headers.
Odd ==
    {[Base EXCEPT !.bearer = b, !.claimToken = c, !.writeToken = w, !.raw = r, !.producer = p] :
        b \in {NoToken, Write(1), Tok("user", {T}, 1)}, c \in {<<>>, <<Write(2)>>, <<Unbound>>, <<Write(2), Write(2)>>},
        w \in {<<>>, <<NoToken>>}, r \in {TA, T, <<"", "t", "a">>}, p \in {"none", "partial", "full"}}

\* Reads, creates and deletes.
Others ==
    {[Base EXCEPT !.op = o, !.raw = r, !.source = s, !.xfcc = x, !.marker = k, !.bearer = b] :
        o \in {"read", "create", "delete"}, r \in {TA, U, <<"", "t">>}, s \in {<<>>, TA, U},
        x \in {<<>>, <<"mesh">>, <<"peer">>}, k \in BOOLEAN,
        b \in {NoToken, Service("svc"), Service("gw"), Service("old"), Tok("wake", {TA}, 2),
               Tok("user", {T}, 1), Tok("caller", {T, U}, 0), Tok("caller", {T}, -1),
               Tok("read", {T}, 1), Write(2)}}

GateRequests == Appends \cup Odd \cup {r \in Others : r.source # <<>> => r.op = "create"}

Gate == INSTANCE AppendGate WITH
    Requests <- GateRequests, WriteTokens <- GateWriteTokens, Modes <- {"insecure", "enforce"},
    Gates <- {"none", "stateless", "live", "atomic"}, Trusted <- GateTrusted,
    Policy <- GatePolicy, CallerSkew <- 1, WakeSkew <- 0, LeaseTTL <- 1, MaxNow <- 3,
    MaxEvents <- 2, sub <- gateSub

-----------------------------------------------------------------------------
(* The control plane: alice may use namespace t, bob u; gate is a trusted  *)
(* gateway, whose policy lists nothing; svc is a service that may          *)
(* subscribe in both but link and claim only in t; eve's credential does   *)
(* not verify.                                                             *)

controlVars == vars

All(ns) == [a \in {"subscribe", "link", "claim"} |-> ns]
MCGrants == [w \in Callers |->
  CASE w = "alice" -> All({"t"}) [] w = "bob" -> All({"u"})
    [] w = "svc" -> [All({"t"}) EXCEPT !["subscribe"] = {"t", "u"}] [] OTHER -> All({})]
MCNamespace == [p \in {"t/1", "u/1"} |-> IF p = "t/1" THEN "t" ELSE "u"]
MCMatches == [g \in {"t/*", "**"} |-> IF g = "t/*" THEN {"t/1"} ELSE {"t/1", "u/1"}]
MCPrefix == [g \in {"t/*", "**"} |-> IF g = "t/*" THEN "t" ELSE "unbounded"]
Plain == [type |-> "pull", pattern |-> "", wakeStream |-> "", streams |-> {}]
T1 == [Plain EXCEPT !.streams = {"t/1"}]
U1 == [Plain EXCEPT !.streams = {"u/1"}]
TGlob == [Plain EXCEPT !.pattern = "t/*"]
AnyGlob == [Plain EXCEPT !.pattern = "**"]
TWake == [T1 EXCEPT !.wakeStream = "u/1"]
UHook == [U1 EXCEPT !.type = "webhook"]
MCConfigs == {T1, U1, TGlob, AnyGlob, TWake, UHook}
MCPathLists == {<<"t/1">>, <<"u/1", "t/1">>}
Scene(m, callers, configs, n) ==
  [mode |-> m, callers |-> callers, configs |-> configs, requests |-> n]
MCScenes == {Scene("enforce", {"alice", "bob"}, {T1, U1}, 4),
             Scene("enforce", {"alice", "gate"}, {T1, TGlob}, 4),
             Scene("enforce", {"alice", "gate"}, {TGlob, U1}, 4),
             Scene("enforce", {"svc", "gate"}, {TWake, AnyGlob}, 4),
             Scene("enforce", {"svc", "bob"}, {T1, UHook}, 4),
             Scene("enforce", {"alice", "eve"}, {TWake, TGlob}, 3),
             Scene("insecure", {"alice", "eve"}, {T1, TGlob}, 3),
             Scene("insecure", {"alice"}, {T1}, 4)}

-----------------------------------------------------------------------------
(* The tokens: half seconds; leases below and up to the threshold, and a   *)
(* handler's step of up to two seconds, more than expiry is rounded by.    *)

VARIABLES lease, phase, claim, worker, ack, lost

tokenVars == <<lease, phase, claim, worker, ack, lost>>

Tokens == INSTANCE TokenLife WITH
    Leases <- {3, 4, 6}, Grace <- 10, WriteGrace <- 5, WakeCap <- 2, Threshold <- 3, MaxDelay <- 4,
    sub <- claim, call <- ack

-----------------------------------------------------------------------------
(* The keys of the identity provider: one published, one to follow.        *)

VARIABLES idp, cache, lookup, holder, hist, left

keyVars == <<idp, cache, lookup, holder, hist, left>>

Keys == INSTANCE UserKeys WITH
    Requests <- Slots, Kids <- {k1, k2}, Published <- {{k1}}, Refresh <- 2, Miss <- 1,
    MaxDelay <- 1, Changes <- 2, req <- lookup

-----------------------------------------------------------------------------
(* One part at a time.                                                     *)

GateRests ==
    /\ mode = 0 /\ gate = 0 /\ req = 0 /\ now = 0 /\ kids = 0 /\ gateSub = 0 /\ marker = 0
    /\ stream = 0 /\ pc = 0 /\ cred = 0 /\ class = 0 /\ fence = 0 /\ reply = 0 /\ vouched = 0
    /\ met = 0 /\ events = 0
ControlRests ==
    /\ scene = 0 /\ sub = 0 /\ incs = 0 /\ claims = 0 /\ sealed = 0 /\ call = 0 /\ requests = 0
    /\ glob = 0 /\ scopes = 0 /\ wrong = {} /\ unsealed = {} /\ excused = {}
TokensRest == lease = 0 /\ phase = 0 /\ claim = 0 /\ worker = 0 /\ ack = 0 /\ lost = 0
KeysRest == idp = 0 /\ cache = 0 /\ lookup = 0 /\ holder = 0 /\ hist = 0 /\ left = 0

SumInit ==
    \/ part = "gate" /\ Gate!Init /\ ControlRests /\ TokensRest /\ KeysRest
    \/ part = "control" /\ GateRests /\ Init /\ TokensRest /\ KeysRest
    \/ part = "tokens" /\ GateRests /\ ControlRests /\ Tokens!Init /\ KeysRest
    \/ part = "keys" /\ GateRests /\ ControlRests /\ TokensRest /\ Keys!Init

InGate == part = "gate" /\ UNCHANGED <<part, controlVars, tokenVars, keyVars>>
InControl == part = "control" /\ UNCHANGED <<part, gateVars, tokenVars, keyVars>>
InTokens == part = "tokens" /\ UNCHANGED <<part, gateVars, controlVars, keyVars>>
InKeys == part = "keys" /\ UNCHANGED <<part, gateVars, controlVars, tokenVars>>

SumNext ==
    \/ InGate /\ Gate!Direct
    \/ InGate /\ Gate!Credential
    \/ InGate /\ Gate!Lookup
    \/ InGate /\ Gate!Fence
    \/ InGate /\ Gate!Commit
    \/ InGate /\ Gate!Tick
    \/ InGate /\ Gate!DropKid
    \/ InGate /\ Gate!Reclaim
    \/ InGate /\ Gate!GrantMarker
    \/ InGate /\ Gate!SealAndLeave
    \/ InGate /\ Gate!Recreate
    \/ InGate /\ Gate!Replace
    \/ \E c \in Slots, who \in Callers, cfg \in Configs : InControl /\ handleCreate(c, who, cfg)
    \/ \E c \in Slots, who \in Callers : InControl /\ handleDelete(c, who)
    \/ \E c \in Slots, who \in Callers, list \in PathLists :
          InControl /\ handleAddStreams(c, who, list)
    \/ \E c \in Slots, who \in Callers, p \in Paths :
          InControl /\ handleRemoveStream(c, who, p)
    \/ \E c \in Slots, who \in Callers : InControl /\ handleClaim(c, who)
    \/ \E c \in Slots : InControl /\ SealStage(c)
    \/ \E c \in Slots : InControl /\ DeleteStage(c)
    \/ \E c \in Slots : InControl /\ LinkStage(c)
    \/ \E c \in Slots : InControl /\ UnlinkStage(c)
    \/ \E c \in Slots : InControl /\ ClaimStage(c)
    \/ \E c \in Slots : InControl /\ MintStage(c)
    \/ InControl /\ EndClaim
    \/ \E p \in Paths : InControl /\ GlobRead(p)
    \/ InControl /\ GlobLink
    \/ InTokens /\ Tokens!Claim
    \/ InTokens /\ Tokens!MintClaimTokens
    \/ InTokens /\ Tokens!handleAckLike
    \/ InTokens /\ Tokens!applyAck
    \/ InTokens /\ Tokens!mintOnAck
    \/ InTokens /\ Tokens!Receive
    \/ InTokens /\ Tokens!LoseReply
    \/ InTokens /\ Tokens!Done
    \/ InTokens /\ Tokens!TakeOver
    \/ InTokens /\ Tokens!Tick
    \/ \E k \in {k1, k2} : InKeys /\ Keys!Publish(k)
    \/ \E k \in {k1, k2} : InKeys /\ Keys!Withdraw(k)
    \/ \E s \in {"up", "down", "garbled"} : InKeys /\ Keys!Health(s)
    \/ InKeys /\ Keys!Move
    \/ \E r \in Slots, k \in {k1, k2} : InKeys /\ Keys!VerifyUser(r, k)
    \/ \E r \in Slots : InKeys /\ Keys!currentKeys(r)
    \/ \E r \in Slots : InKeys /\ Keys!refreshBegins(r)
    \/ InKeys /\ Keys!get
    \/ InKeys /\ Keys!refreshEnds
    \/ InKeys /\ Keys!Tick

SumSpec == SumInit /\ [][SumNext]_<<part, gateVars, controlVars, tokenVars, keyVars>>

Symmetry == Permutations(Slots)

-----------------------------------------------------------------------------
(* Properties of the parts; the control plane's are ControlPlane's own.   *)

\* AppendGate!OnlyTheEntitledAct: what is committed was vouched for by the last gate.
OnlyTheEntitledAct == part = "gate" => Gate!OnlyTheEntitledAct

\* AppendGate!VerifyAgreesWithGate: claim verification answers as the append gate would.
VerifyAgreesWithGate == part = "gate" => Gate!VerifyAgreesWithGate

\* TokenLife!TokenOutlivesShortLease: where lease and delay fit the threshold, the
\* lease never outlives its callback token.
TokenOutlivesShortLease == part = "tokens" => Tokens!TokenOutlivesShortLease

\* UserKeys!PublishedKeyIsFound: a published key is soon accepted.
PublishedKeyIsFound == part = "keys" => Keys!PublishedKeyIsFound

=============================================================================
