---------------------------- MODULE AppendFence ----------------------------
(***************************************************************************)
(* The write fence: the claim of a subscription as the linked streams see  *)
(* it, and the appends made under it.                                      *)
(*                                                                         *)
(* A claim is (authority, generation): the authority is one incarnation of *)
(* the subscription, and within it a generation has one wake id and one    *)
(* holder.  The subscription and every stream are in slots of their own,   *)
(* so granting, sealing and writing are sequences of scripts; `calls' and  *)
(* `writes' are what the Go code holds between them.  The subscription is  *)
(* reduced to what the streams depend on; Subscription has all of it.  The *)
(* rungs of append.lua that do not concern the fence are those of          *)
(* StreamLog: here a request is one that passes them.                      *)
(*                                                                         *)
(* Time: the leases of one authority end in the order of its generations,  *)
(* since each is set later than the one before and all last as long.       *)
(* `lapsed' is the last generation whose lease is over.  A heartbeat only  *)
(* puts that moment off, so it is not an action.                           *)
(***************************************************************************)
EXTENDS Integers, Sequences, FiniteSets

CONSTANTS Streams,
          Fenced,     \* the streams created with Write-Fence
          Producers,
          Calls,      \* concurrent calls of the manager
          Writers,    \* concurrent fenced appends
          MaxAuth,    \* bound on incarnations of the subscription
          MaxGen,     \* bound on generations
          MaxLog,     \* bound on a stream's messages
          Scenes      \* the writers; whether no grant is under way for longer than a
                      \* tombstone is kept (prompt); bound on a stream's incarnations

ASSUME ConstantAssumption ==
    /\ Fenced \subseteq Streams
    /\ MaxAuth \in Nat /\ MaxGen \in Nat /\ MaxLog \in Nat
    /\ \A x \in DOMAIN Scenes :
          Scenes[x].writers \subseteq Writers /\ Scenes[x].prompt \in BOOLEAN /\ Scenes[x].lives \in Nat \ {0}

VARIABLES sub,     \* the subscription
          lapsed,  \* per authority, the last generation whose lease is over
          stream,  \* per stream: log and fence fields of the meta hash
          marker,  \* per stream and authority: the claim marker
          calls,   \* per manager call: the step it has reached
          writes,  \* per writer: an append that passed the pre-check
          scene    \* one of the Scenes, fixed in Init

vars == <<sub, lapsed, stream, marker, calls, writes, scene>>

Auths == 1 .. MaxAuth

NoMarker == [state |-> "none", gen |-> 0, life |-> 0]
NoSeal == [gen |-> 0, off |-> 0]
Unset == -1
NoCall == [at |-> "none"]
NoWrite == [s |-> "none"]

NewStream(life) ==
    [life |-> life, present |-> TRUE, log |-> <<>>,
     seal |-> [a \in Auths |-> NoSeal], last |-> Unset, bound |-> {}]

Claim == [auth |-> sub.auth, gen |-> sub.gen]

Lapsed(c) == c.gen <= lapsed[c.auth]

\* The offset a seal records: wfLastOff, or the tail when the class never wrote.
LastOffset(s) == IF stream[s].last # Unset THEN stream[s].last ELSE Len(stream[s].log)

\* The meta hash of s after generation g of authority a is sealed, monotonically.
Sealed(s, a, g) ==
    IF s \in Fenced /\ stream[s].present /\ g > stream[s].seal[a].gen
    THEN [stream EXCEPT ![s].seal[a] = [gen |-> g, off |-> LastOffset(s)]]
    ELSE stream

-----------------------------------------------------------------------------
(* The scripts of one stream's slot *)

\* Mutant: a grant does not look at the generation of the marker.
GrantAllowedStale(s, c) ==
    stream[s].present /\ ~Lapsed(c) /\ c.gen > stream[s].seal[c.auth].gen

\* The checks of grant_append_fence.lua.
GrantAllowed(s, c) ==
    LET m == marker[s][c.auth]
    IN  /\ stream[s].present /\ ~Lapsed(c)
        /\ c.gen > stream[s].seal[c.auth].gen
        /\ m.gen <= c.gen
        /\ m.gen = c.gen => m.state = "live"

\* What it writes: the marker, and the seal of the generation it supersedes.
Grant(s, c) ==
    LET m == marker[s][c.auth]
    IN  /\ marker' = [marker EXCEPT ![s][c.auth] =
                        [state |-> "live", gen |-> c.gen, life |-> stream[s].life]]
        /\ stream' = IF m.gen < c.gen THEN Sealed(s, c.auth, m.gen) ELSE stream

\* The tombstone of revoke_append_fence.lua and seal_append_fence.lua.
Tombstone(s, c) ==
    [marker EXCEPT ![s][c.auth] = [@ EXCEPT !.state = "revoked", !.gen = c.gen]]

\* revoke_append_fence.lua: a stale request changes nothing.
Revoke(s, c) ==
    marker' = IF marker[s][c.auth].gen > c.gen THEN marker ELSE Tombstone(s, c)

\* seal_append_fence.lua.
Seal(s, c) ==
    IF marker[s][c.auth].gen > c.gen THEN UNCHANGED <<marker, stream>>
    ELSE /\ marker' = Tombstone(s, c)
         /\ stream' = Sealed(s, c.auth, c.gen)

-----------------------------------------------------------------------------
(* The subscription *)

\* claim.lua: idle, or the holder's lease is over.  A new claim has a new
\* generation.
ClaimSub ==
    /\ sub.phase = "idle" \/ (sub.phase = "live" /\ Lapsed(Claim))
    /\ sub.gen < MaxGen
    /\ sub' = [sub EXCEPT !.phase = "live", !.gen = @ + 1]
    /\ UNCHANGED <<lapsed, stream, marker, calls, writes, scene>>

\* expire_lease.lua.
ExpireLease ==
    /\ sub.phase = "live" /\ Lapsed(Claim)
    /\ sub' = [sub EXCEPT !.phase = "idle"]
    /\ UNCHANGED <<lapsed, stream, marker, calls, writes, scene>>

\* A lease ends.
Lapse ==
    /\ \E a \in Auths :
          /\ lapsed[a] < (IF a = sub.auth THEN sub.gen ELSE MaxGen)
          /\ lapsed' = [lapsed EXCEPT ![a] = @ + 1]
    /\ UNCHANGED <<sub, stream, marker, calls, writes, scene>>

\* A stream is linked, explicitly or because its path matches the pattern.
Link(s) ==
    /\ sub.phase # "absent" /\ s \notin sub.links
    /\ sub' = [sub EXCEPT !.links = @ \cup {s}]
    /\ UNCHANGED <<lapsed, stream, marker, calls, writes, scene>>

CreateSub ==
    /\ sub.phase = "absent" /\ sub.auth < MaxAuth
    /\ sub' = [phase |-> "idle", auth |-> sub.auth + 1, gen |-> 0, links |-> Streams]
    /\ UNCHANGED <<lapsed, stream, marker, calls, writes, scene>>

-----------------------------------------------------------------------------
(* Calls of the manager *)

Goto(k, call) == calls' = [calls EXCEPT ![k] = call]

\* The subscription is read for a grant: after a claim, on a heartbeat, before
\* a webhook is posted.  grantWriteFences requires a live claim.
BeginGrant(k) ==
    /\ calls[k] = NoCall /\ sub.phase = "live" /\ ~Lapsed(Claim)
    /\ Goto(k, [at |-> "grant", claim |-> Claim, todo |-> sub.links, got |-> {}])
    /\ UNCHANGED <<sub, lapsed, stream, marker, writes, scene>>

\* One script of grantWriteFences.  NOTFOUND is passed over; a refusal, or a
\* script that fails, begins the rollback of what was granted.
GrantOne(k, s) ==
    LET call == calls[k]
        rest == [call EXCEPT !.todo = @ \ {s}]
    IN  /\ call.at = "grant" /\ s \in call.todo
        /\ \/ /\ GrantAllowed(s, call.claim)
              /\ Grant(s, call.claim)
              /\ Goto(k, [rest EXCEPT !.got = @ \cup {s}])
           \/ /\ ~stream[s].present
              /\ Goto(k, rest)
              /\ UNCHANGED <<stream, marker>>
        /\ UNCHANGED <<sub, lapsed, writes, scene>>

\* The refusal or failure may be that of a link the model does not follow.
AbandonGrant(k) ==
    /\ calls[k].at = "grant" /\ calls[k].got # {}
    /\ Goto(k, [calls[k] EXCEPT !.at = "revoke", !.todo = calls[k].got])
    /\ UNCHANGED <<sub, lapsed, stream, marker, writes, scene>>

\* One script of the rollback; errors are ignored.
RevokeOne(k, s) ==
    LET call == calls[k]
        rest == call.todo \ {s}
    IN  /\ call.at = "revoke" /\ s \in call.todo
        /\ Revoke(s, call.claim)
        /\ Goto(k, IF rest = {} THEN NoCall ELSE [call EXCEPT !.todo = rest])
        /\ UNCHANGED <<sub, lapsed, stream, writes, scene>>

\* The subscription is read to end its claim (done, release, delete) or to
\* unlink s.  A subscription without a claim has nothing to seal.
BeginSeal(k, end, paths) ==
    /\ calls[k] = NoCall /\ sub.phase # "absent"
    /\ end = "idle" => sub.phase = "live"
    /\ Goto(k, [at |-> "seal", claim |-> Claim, end |-> end, paths |-> paths,
                todo |-> IF sub.phase = "live" THEN paths ELSE {}])
    /\ UNCHANGED <<sub, lapsed, stream, marker, writes, scene>>

\* One script of sealWriteFences.
SealOne(k, s) ==
    /\ calls[k].at = "seal" /\ s \in calls[k].todo
    /\ Seal(s, calls[k].claim)
    /\ Goto(k, [calls[k] EXCEPT !.todo = @ \ {s}])
    /\ UNCHANGED <<sub, lapsed, writes, scene>>

\* When everything is sealed the subscription changes.  ack.lua and release.lua
\* refuse a claim that is no longer current; deleting and unlinking go ahead,
\* unless the guarded forms refuse them (EndCall).
EndSeal(k) ==
    LET call == calls[k]
    IN  /\ call.at = "seal" /\ call.todo = {}
        /\ sub' = CASE sub.phase = "absent" -> sub
                    [] call.end = "idle" /\ sub.phase = "live" /\ Claim = call.claim ->
                         [sub EXCEPT !.phase = "idle"]
                    [] call.end = "unlink" -> [sub EXCEPT !.links = @ \ call.paths]
                    [] call.end = "delete" -> [sub EXCEPT !.phase = "absent", !.links = {}]
                    [] OTHER -> sub
        /\ Goto(k, NoCall)
        /\ UNCHANGED <<lapsed, stream, marker, writes, scene>>

\* A grant is complete, or a call ends early: the process stops, or a script
\* fails and the request is answered with an error.
EndCall(k) ==
    /\ calls[k] # NoCall
    /\ Goto(k, NoCall)
    /\ UNCHANGED <<sub, lapsed, stream, marker, writes, scene>>

-----------------------------------------------------------------------------
(* Appends *)

\* check_write_fence.lua, before the store is called.
PreCheck(w, s, p) ==
    /\ writes[w] = NoWrite /\ sub.phase = "live" /\ ~Lapsed(Claim)
    /\ writes' = [writes EXCEPT ![w] = [s |-> s, claim |-> Claim, prod |-> p]]
    /\ UNCHANGED <<sub, lapsed, stream, marker, calls, scene>>

\* Mutant: the fence is checked only before the store is called.
FenceAcceptsUnseen(s, w) == TRUE

\* evaluate_write_fence for the fenced class.  The producer's epoch is the
\* generation, or the request is refused.  The lease was running at the
\* pre-check, and the clock append.lua goes by may be as old as that.
FenceAccepts(s, w) ==
    LET m == marker[s][w.claim.auth]
    IN  /\ s \in Fenced => w.claim.gen > stream[s].seal[w.claim.auth].gen
        /\ m.state = "live" /\ m.gen = w.claim.gen
        /\ m.life = stream[s].life

\* Mutant: an accepted write does not bind its producer.
FenceBindNothing(s, w, off) == [last |-> off, bound |-> stream[s].bound]

\* fence_bind.
FenceBind(s, w, off) ==
    IF s \in Fenced THEN [last |-> off, bound |-> stream[s].bound \cup {w.prod}]
    ELSE [last |-> stream[s].last, bound |-> stream[s].bound]

\* append.lua and close.lua of the fenced class, accepted or refused.  What a
\* stream without a write fence stores is not recorded, nor that it is closed.
FencedAppend(w, closing) ==
    LET s == writes[w].s
        log == IF closing \/ s \notin Fenced THEN stream[s].log
               ELSE Append(stream[s].log, [class |-> "fenced", claim |-> writes[w].claim,
                                           prod |-> writes[w].prod])
        b == FenceBind(s, writes[w], Len(log))
    IN  /\ writes[w] # NoWrite
        /\ Len(stream[s].log) < MaxLog
        /\ stream' = IF stream[s].present /\ FenceAccepts(s, writes[w])
                     THEN [stream EXCEPT ![s].log = log, ![s].last = b.last,
                                         ![s].bound = b.bound]
                     ELSE stream
        /\ writes' = [writes EXCEPT ![w] = NoWrite]
        /\ UNCHANGED <<sub, lapsed, marker, calls, scene>>

\* An append of the open class that names a producer: refused on a fenced
\* stream when the producer is bound.
OpenAppend(s, p) ==
    /\ s \in Fenced /\ stream[s].present
    /\ Len(stream[s].log) < MaxLog
    /\ p \notin stream[s].bound
    /\ stream' = [stream EXCEPT ![s].log = Append(@, [class |-> "open", prod |-> p])]
    /\ UNCHANGED <<sub, lapsed, marker, calls, writes, scene>>

-----------------------------------------------------------------------------
(* Streams and markers come and go *)

\* delete.lua and expire_cleanup leave the markers.  The bound is here so that
\* a deleted stream can come back.
DeleteStream(s) ==
    /\ stream[s].present /\ stream[s].life < Scenes[scene].lives
    /\ stream' = [stream EXCEPT ![s] = [NewStream(@.life) EXCEPT !.present = FALSE]]
    /\ UNCHANGED <<sub, lapsed, marker, calls, writes, scene>>

CreateStream(s) ==
    /\ ~stream[s].present
    /\ stream' = [stream EXCEPT ![s] = NewStream(@.life + 1)]
    /\ UNCHANGED <<sub, lapsed, marker, calls, writes, scene>>

\* The marker's key expires: a tombstone after the retention, which may be
\* shorter than a lease; a live marker after its lease and the retention, and
\* by then the lease of the previous generation is over too.  In a prompt scene a
\* grant that is under way finds the markers of its authority still there.
ReapMarker(s, a) ==
    /\ marker[s][a].state # "none"
    /\ marker[s][a].state = "live" => marker[s][a].gen <= lapsed[a] + 1
    /\ Scenes[scene].prompt => \A k \in Calls : calls[k].at = "grant" => calls[k].claim.auth # a
    /\ marker' = [marker EXCEPT ![s][a] = NoMarker]
    /\ UNCHANGED <<sub, lapsed, stream, calls, writes, scene>>

-----------------------------------------------------------------------------
Init ==
    /\ sub = [phase |-> "absent", auth |-> 0, gen |-> 0, links |-> {}]
    /\ lapsed = [a \in Auths |-> 0]
    /\ stream = [s \in Streams |-> NewStream(1)]
    /\ marker = [s \in Streams |-> [a \in Auths |-> NoMarker]]
    /\ calls = [k \in Calls |-> NoCall]
    /\ writes = [w \in Writers |-> NoWrite]
    /\ scene \in DOMAIN Scenes

Next ==
    \/ ClaimSub \/ ExpireLease \/ Lapse \/ CreateSub
    \/ \E k \in Calls :
          \/ BeginGrant(k) \/ EndSeal(k) \/ EndCall(k) \/ AbandonGrant(k)
          \/ BeginSeal(k, "idle", sub.links) \/ BeginSeal(k, "delete", sub.links)
          \/ \E s \in Streams : \/ GrantOne(k, s) \/ RevokeOne(k, s) \/ SealOne(k, s)
                                \/ s \in sub.links /\ BeginSeal(k, "unlink", {s})
    \/ \E w \in Scenes[scene].writers : \/ \E s \in Streams, p \in Producers : PreCheck(w, s, p)
                          \/ \E closing \in BOOLEAN : FencedAppend(w, closing)
    \/ \E s \in Streams : \/ Link(s) \/ DeleteStream(s) \/ CreateStream(s)
                          \/ \E p \in Producers : OpenAppend(s, p)
                          \/ \E a \in Auths : ReapMarker(s, a)

Spec == Init /\ [][Next]_vars

-----------------------------------------------------------------------------
(* Properties *)

ClaimRecords == [auth : Auths, gen : 0 .. MaxGen]
Messages == [class : {"fenced"}, claim : ClaimRecords, prod : Producers]
            \cup [class : {"open"}, prod : Producers]
StreamRecords == [life : Nat, present : BOOLEAN, log : Seq(Messages),
                  seal : [Auths -> [gen : 0 .. MaxGen, off : Nat]],
                  last : Nat \cup {Unset}, bound : SUBSET Producers]
Markers == [state : {"none", "live", "revoked"}, gen : 0 .. MaxGen, life : Nat]
CallRecords ==
    {NoCall} \cup
    [at : {"grant", "revoke"}, claim : ClaimRecords, todo : SUBSET Streams, got : SUBSET Streams]
    \cup [at : {"seal"}, claim : ClaimRecords, end : {"idle", "delete", "unlink"},
          paths : SUBSET Streams, todo : SUBSET Streams]
WriteRecords == {NoWrite} \cup [s : Streams, claim : ClaimRecords, prod : Producers]

\* Every record has the shape the scripts give it, and what records a length
\* or an incarnation is within it.
TypeOK ==
    /\ sub \in [phase : {"absent", "idle", "live"}, auth : 0 .. MaxAuth,
                gen : 0 .. MaxGen, links : SUBSET Streams]
    /\ sub.phase # "absent" => sub.auth \in Auths
    /\ lapsed \in [Auths -> 0 .. MaxGen]
    /\ stream \in [Streams -> StreamRecords]
    /\ marker \in [Streams -> [Auths -> Markers]]
    /\ calls \in [Calls -> CallRecords]
    /\ writes \in [Writers -> WriteRecords]
    /\ scene \in DOMAIN Scenes
    /\ \A s \in Streams :
          /\ stream[s].life \in 1 .. Scenes[scene].lives
          /\ ~stream[s].present => stream[s].life < Scenes[scene].lives
          /\ Len(stream[s].log) <= MaxLog /\ stream[s].last <= Len(stream[s].log)

IsFenced(s, i) == stream[s].log[i].class = "fenced"

\* On a write-fenced stream the fenced appends of one authority are in the
\* order of its generations, as long as no grant outlasts a tombstone: a
\* deposed holder's append never lands after one of its successor.
ClaimsDoNotInterleave ==
    Scenes[scene].prompt => \A s \in Fenced : \A i, j \in 1 .. Len(stream[s].log) :
       i < j /\ IsFenced(s, i) /\ IsFenced(s, j) =>
          LET c == stream[s].log[i].claim
              d == stream[s].log[j].claim
          IN  c.auth = d.auth => c.gen <= d.gen

\* A seal is final: nothing of a generation at or below the seal of its
\* authority lies after the offset the seal recorded.
SealsAreFinal ==
    \A s \in Fenced : \A i \in 1 .. Len(stream[s].log) :
       IsFenced(s, i) =>
          LET c == stream[s].log[i].claim
              seal == stream[s].seal[c.auth]
          IN  c.gen <= seal.gen => i <= seal.off

\* A producer that wrote under a claim never writes to the stream in the open
\* class again.
BoundProducersStayFenced ==
    \A s \in Fenced : \A i, j \in 1 .. Len(stream[s].log) :
       i < j /\ IsFenced(s, i) /\ stream[s].log[i].prod = stream[s].log[j].prod =>
          IsFenced(s, j)

\* Seals only rise, and the offset of a seal never changes, for as long as the
\* stream lives: a done that is delivered again is told the same last offset.
SealsAreMonotone ==
    [][\A s \in Fenced : \A a \in Auths :
          stream[s].present /\ stream'[s].present =>
             LET old == stream[s].seal[a]
                 new == stream'[s].seal[a]
             IN  old.gen <= new.gen /\ (old.gen = new.gen => old = new)]_vars

\* An idle subscription leaves no live, unexpired marker on a stream it links.
IdleLeavesNoMarker ==
    sub.phase = "idle" =>
       \A s \in sub.links :
          LET m == marker[s][sub.auth]
          IN  m.state = "live" => m.gen <= lapsed[sub.auth]
=============================================================================
