----------------------------- MODULE TokenLife -----------------------------
(***************************************************************************)
(* The lives of the three tokens of a claim.                               *)
(*                                                                         *)
(* A claim hands its worker a callback token (the lease and an hour), a    *)
(* write token (the lease and five seconds) and a wake token (half a       *)
(* lease, capped).  A heartbeat extends the lease at one instant, but the  *)
(* tokens it returns are dated from an earlier one: the handler reads the  *)
(* clock before it runs the script.  The callback token is only renewed    *)
(* near its end, and an expired one is answered with a new one.            *)
(*                                                                         *)
(* Leases run in nanoseconds and expiry times in whole seconds, so time is *)
(* counted in half seconds here and Unix rounds it down.  Every instant is *)
(* kept relative to the present one (how long is left, how long ago), so   *)
(* there is no last instant.  One worker works, another takes over when    *)
(* the lease has lapsed.                                                   *)
(***************************************************************************)
EXTENDS Integers

CONSTANTS
    Leases,     \* lease lengths of the subscription, in half seconds
    Grace,      \* the hour a callback token lives beyond the lease
    WriteGrace, \* the five seconds a write token lives beyond the lease
    WakeCap,    \* the longest life of a wake token
    Threshold,  \* how close to its end a callback token is renewed, in seconds
    MaxDelay    \* how long a handler may take from one step to the next

VARIABLES
    lease,      \* the subscription's lease length
    phase,      \* which half of a second it is
    sub,        \* the claim in Redis: whose it is, and how much lease is left
    worker,     \* the worker: whether the claim it knows is the current one,
                \* how long ago that claim ended, and the tokens it holds
    call,       \* the request in progress, with its age and its step's age
    lost        \* whether a reply to the worker was lost in this claim

vars == <<lease, phase, sub, worker, call, lost>>

Never == -1
NoToken == -100
Tokens == [callback |-> NoToken, write |-> NoToken, wake |-> NoToken]
NoCall == [at |-> "none", claims |-> FALSE, current |-> FALSE, died |-> Never,
           age |-> 0, step |-> 0, reply |-> Tokens]

-----------------------------------------------------------------------------
(* The token arithmetic; a token is the seconds left until its expiry time *)

\* The whole second of the instant that many half seconds from now, counted
\* from the present second.
Unix(offset) == (phase + offset) \div 2

\* Expired at a second, itself relative to the present one.
TokenExpired(exp, s) == s > exp

ShouldRefreshToken(exp, s) == ~TokenExpired(exp, s) /\ exp - s <= Threshold

\* Mutant: no grace beyond the lease.
TokenTTLBare == lease

tokenTTL == lease + Grace

writeTokenTTL == lease + WriteGrace

\* Half the lease, capped.
WakeTokenTTL == IF lease \div 2 > WakeCap THEN WakeCap ELSE lease \div 2

\* The expiry of a token dated from that many half seconds ago.
GenerateToken(ago, ttl) == Unix(ttl - ago)

-----------------------------------------------------------------------------
(* The claim *)

Mine == sub.holder = "worker" /\ worker.current
Live == sub.left > 0
claimLive(ago) == sub.holder # "none" /\ sub.left > 0 - ago

Init ==
    /\ lease \in Leases
    /\ phase \in {0, 1}
    /\ sub = [holder |-> "none", left |-> 0]
    /\ worker = [known |-> FALSE, current |-> FALSE, died |-> Never, tokens |-> Tokens]
    /\ call = NoCall
    /\ lost = FALSE

\* The worker claims; the script arms the lease from this instant.
Claim ==
    /\ call.at = "none"
    /\ sub.holder = "none" \/ ~Live
    /\ sub' = [holder |-> "worker", left |-> lease]
    /\ worker' = [worker EXCEPT !.current = FALSE]
    /\ call' = [NoCall EXCEPT !.at = "claimed", !.claims = TRUE, !.current = TRUE]
    /\ UNCHANGED <<lease, phase, lost>>

\* The handler dates the tokens of a claim from after the script.
MintClaimTokens ==
    /\ call.at = "claimed"
    /\ call' = [call EXCEPT !.at = "reply", !.step = 0,
         !.reply = [callback |-> GenerateToken(0, tokenTTL),
                    write |-> GenerateToken(0, writeTokenTTL),
                    wake |-> GenerateToken(0, WakeTokenTTL)]]
    /\ UNCHANGED <<lease, phase, sub, worker, lost>>

ValidateToken(exp) == ~TokenExpired(exp, 0)

\* An expired token is answered with a fresh one, whatever became of the claim.
writeTokenRejected ==
    [NoCall EXCEPT !.at = "reply", !.current = worker.current,
                   !.reply.callback = GenerateToken(0, tokenTTL)]

\* A heartbeat or a report arrives; with a valid token it goes on to the script.
handleAckLike ==
    /\ call.at = "none"
    /\ worker.known
    /\ call' = IF ValidateToken(worker.tokens.callback)
               THEN [NoCall EXCEPT !.at = "valid", !.current = worker.current]
               ELSE writeTokenRejected
    /\ UNCHANGED <<lease, phase, sub, worker, lost>>

Fenced == call.current /\ sub.holder = "worker"

\* The script renews the lease of the current claim, and only a live one.
Heartbeat == Fenced /\ Live

applyAck ==
    /\ call.at = "valid"
    /\ IF Heartbeat
       THEN /\ sub' = [sub EXCEPT !.left = lease]
            /\ call' = [call EXCEPT !.at = "acked", !.step = 0]
       ELSE /\ call' = NoCall
            /\ UNCHANGED sub
    /\ UNCHANGED <<lease, phase, worker, lost>>

\* The reply: the callback token is renewed near its end, the write token when
\* the claim read back is still the worker's, the wake token always; all are
\* dated from the arrival of the request.
mintOnAck ==
    /\ call.at = "acked"
    /\ call' = [call EXCEPT !.at = "reply", !.step = 0,
         !.reply =
           [callback |-> IF ShouldRefreshToken(worker.tokens.callback, Unix(0 - call.age))
                         THEN GenerateToken(call.age, tokenTTL) ELSE NoToken,
            write |-> IF Fenced /\ claimLive(call.age)
                      THEN GenerateToken(call.age, writeTokenTTL) ELSE NoToken,
            wake |-> GenerateToken(call.age, WakeTokenTTL)]]
    /\ UNCHANGED <<lease, phase, sub, worker, lost>>

\* What the worker holds after a reply: its old token where there is no new one.
Kept(fresh, old) ==
    [k \in DOMAIN old |-> IF fresh[k] = NoToken THEN old[k] ELSE fresh[k]]

\* The reply reaches the worker ...
Receive ==
    /\ call.at = "reply"
    /\ worker' = IF call.claims
                 THEN [known |-> TRUE, current |-> call.current, died |-> call.died,
                       tokens |-> call.reply]
                 ELSE [worker EXCEPT !.tokens = Kept(call.reply, @)]
    /\ lost' = (lost /\ ~call.claims)
    /\ call' = NoCall
    /\ UNCHANGED <<lease, phase, sub>>

\* ... or is lost on the way.
LoseReply ==
    /\ call.at = "reply"
    /\ call' = NoCall
    /\ lost' = TRUE
    /\ UNCHANGED <<lease, phase, sub, worker>>

\* The worker reports its work done, lapsed or not; the claim is over at once.
Done ==
    /\ call.at = "valid"
    /\ Fenced
    /\ sub' = [holder |-> "none", left |-> 0]
    /\ call' = NoCall
    /\ worker' = [worker EXCEPT !.died = IF @ = Never THEN 0 ELSE @]
    /\ UNCHANGED <<lease, phase, lost>>

\* Another worker takes over a claim that has lapsed or ended.
TakeOver ==
    /\ sub.holder = "none" \/ ~Live
    /\ sub' = [holder |-> "other", left |-> lease]
    /\ worker' = [worker EXCEPT !.current = FALSE]
    /\ call' = [call EXCEPT !.current = FALSE]
    /\ UNCHANGED <<lease, phase, lost>>

\* Half a second passes; a handler's step never takes longer than MaxDelay.
\* Token lives below -MaxLag seconds, before any request in progress arrived, and
\* ends older than two leases are not told apart.
MaxLag == MaxDelay + 2
Later(exp) == IF exp = NoToken \/ phase = 0 \/ exp <= 0 - MaxLag THEN exp ELSE exp - 1
Older(age) == IF age = Never \/ age > 2 * lease THEN age ELSE age + 1
Lapsing == sub.holder = "worker" /\ sub.left = 1
EndedAge(age, mine) == IF age = Never /\ mine /\ Lapsing THEN 0 ELSE Older(age)

Tick ==
    /\ call.at = "none" \/ call.step < MaxDelay
    /\ phase' = 1 - phase
    /\ sub' = [sub EXCEPT !.left = IF @ = 0 THEN 0 ELSE @ - 1]
    /\ worker' = [worker EXCEPT
                    !.died = EndedAge(@, worker.current),
                    !.tokens = [k \in DOMAIN @ |-> Later(@[k])]]
    /\ call' = IF call.at = "none" THEN call
               ELSE [call EXCEPT
                      !.died = EndedAge(@, call.claims /\ call.current),
                      !.age = @ + 1, !.step = @ + 1,
                      !.reply = [k \in DOMAIN @ |-> Later(@[k])]]
    /\ UNCHANGED <<lease, lost>>

Next ==
    \/ Claim \/ MintClaimTokens \/ handleAckLike \/ applyAck \/ mintOnAck
    \/ Receive \/ LoseReply \/ Done \/ TakeOver \/ Tick

Spec == Init /\ [][Next]_vars

-----------------------------------------------------------------------------
(* Properties *)

\* Shape of the state; a worker that knows of a claim holds its three tokens.
TypeOK ==
    /\ phase \in {0, 1}
    /\ sub.holder \in {"none", "worker", "other"}
    /\ sub.left \in 0..lease
    /\ worker.current => worker.known
    /\ worker.known <=> \A k \in DOMAIN worker.tokens : worker.tokens[k] # NoToken
    /\ call.at \in {"none", "claimed", "valid", "acked", "reply"}
    /\ call.at # "none" => call.age \in 0..3 * MaxDelay

Working == Mine /\ Live /\ call.at = "none" /\ ~lost

\* A worker that got every reply holds a usable callback token for as long as its
\* lease lives, where the lease and the delay of a request together are no longer
\* than the renewal threshold and the second by which expiry is rounded up: the
\* renewal near the token's end then comes before the last heartbeat the old token
\* can make (ShouldRefreshToken in handleAckLike, tokenTTL).  The delay counts
\* because handleAckLike reads the clock before the body and the script arms the
\* lease after it: a lease of the threshold alone is already too long.
TokenOutlivesShortLease ==
    (Working /\ lease + MaxDelay <= 2 * Threshold + 2)
        => ~TokenExpired(worker.tokens.callback, 0)

\* The same without the delay, which is not so: the lease may end after the token
\* whose renewal was decided by the earlier clock.
TokenOutlivesThreshold ==
    (Working /\ lease <= 2 * Threshold) => ~TokenExpired(worker.tokens.callback, 0)

\* The same for every lease: the token outlives a just-extended lease.
TokenOutlivesLease == Working => ~TokenExpired(worker.tokens.callback, 0)

\* The write token a heartbeat returns covers the lease that heartbeat armed,
\* though it is dated from before the script ran: the grace absorbs the delay
\* (mintWriteTokenOnAck, writeTokenTTL).
WriteTokenCoversLease == Working => ~TokenExpired(worker.tokens.write, 0)

\* A wake token stops attesting a claim within one lease of that claim's end,
\* however late in the claim it was minted (WakeTokenTTL, mintWakeTokenOnAck).
AttestationIsBrief ==
    (worker.died # Never /\ ~TokenExpired(worker.tokens.wake, 0)) => worker.died <= lease

\* The callback token outlives the lease by an hour, yet a claim that has ended
\* is never brought back to life by it (lease check of ack.lua).
EndedStaysEnded == worker.died # Never => ~(Mine /\ Live)

=============================================================================
