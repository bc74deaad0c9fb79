----------------------------- MODULE MCRecovery -----------------------------
(***************************************************************************)
(* Small instances of what is put right again after faults: signing keys   *)
(* that rotate under running replicas (KeyRotation), the links of streams  *)
(* to subscriptions (FanOut), and wakes over a Redis that loses its latest *)
(* writes (Durability).  They share no state; a behaviour is one of one of *)
(* them, and the others rest.                                              *)
(***************************************************************************)
EXTENDS KeyRotation, Sequences, TLC

CONSTANTS m1, w1, w2, p1, s1, NoTask, Nobody

VARIABLE part   \* "keys", "links" or "wakes"

-----------------------------------------------------------------------------
(* The keys: a rotation, or a revocation, with a token in flight between   *)
(* two replicas; two rotations, a revocation and a failing read on one     *)
(* replica; a file that is replaced.                                       *)

Budget(custody, rs, ro, de, fa, to) ==
    [custody |-> custody, replicas |-> rs, rotations |-> ro, denials |-> de, faults |-> fa, tokens |-> to]
MCBudgets ==
    {Budget("store", {1, 2}, 1, 0, 0, 1), Budget("store", {1, 2}, 0, 1, 0, 1),
     Budget("store", {1}, 2, 1, 1, 1), Budget("file", {1}, 1, 1, 1, 1)}

keyVars == vars

-----------------------------------------------------------------------------
(* The links: one subscription, with a pattern or explicit streams.        *)

VARIABLES streams, subs, links, member, bit, dirty, fan, tasks, pass, clock, torn, lateLinks, left

linkVars == <<streams, subs, links, member, bit, dirty, fan, tasks, pass, clock, torn, lateLinks,
              left>>

Calls(c, d, a, r, st, un, ap, e, k, ps) ==
    [create |-> c, delete |-> d, add |-> a, remove |-> r, stream |-> st, unstream |-> un,
     append |-> ap, error |-> e, crash |-> k, pass |-> ps]

Subscribing == {[glob |-> {p1}, streams |-> {}], [glob |-> {}, streams |-> {p1}]}

\* create, delete, add, remove, stream, unstream, append, error, crash, pass
LinkBudgets == {Calls(1, 0, 0, 0, 1, 0, 1, 0, 1, 0),
                Calls(1, 0, 0, 0, 1, 0, 0, 1, 0, 1),
                Calls(2, 1, 0, 0, 1, 0, 0, 0, 0, 0),
                Calls(1, 0, 1, 1, 1, 0, 0, 0, 0, 0),
                Calls(1, 0, 0, 1, 1, 0, 1, 0, 0, 0),
                Calls(1, 0, 0, 0, 2, 1, 1, 0, 0, 0),
                Calls(1, 1, 1, 0, 0, 0, 0, 0, 1, 0)}

Links == INSTANCE FanOut WITH
    Subs <- {s1}, Paths <- {p1}, Configs <- Subscribing, Tasks <- {1, 2},
    Budgets <- LinkBudgets, raced <- lateLinks, budget <- left

-----------------------------------------------------------------------------
(* The wakes: one goroutine that issues them, two workers.                 *)

VARIABLES scene, server, replica, log, synced, mirrored, era, minted, proc, held, proven, out, spare

wakeVars == <<scene, server, replica, log, synced, mirrored, era, minted, proc, held, proven, out,
              spare>>

Workers == {w1, w2}

Deployment(config, kind, aof, rep, redacted, want, f, s, l) ==
    [config |-> config, kind |-> kind, aof |-> aof, replica |-> rep,
     redacted |-> redacted, want |-> want,
     budget |-> [faults |-> f, shorts |-> s, lapses |-> l]]

Deployments ==
    { Deployment("b", "webhook",   TRUE,  "online",  FALSE, 1, 2, 1, 1),
      Deployment("b", "pull-wake", TRUE,  "online",  FALSE, 1, 1, 0, 0),
      Deployment("b", "pull-wake", TRUE,  "online",  FALSE, 1, 0, 0, 1),
      Deployment("b", "pull-wake", TRUE,  "none",    FALSE, 0, 1, 0, 0),
      Deployment("b", "pull-wake", TRUE,  "none",    FALSE, -1, 0, 1, 1),
      Deployment("b", "pull-wake", TRUE,  "syncing", TRUE,  1, 1, 0, 0),
      Deployment("b", "webhook",   TRUE,  "syncing", FALSE, 1, 1, 1, 0),
      Deployment("b", "webhook",   FALSE, "online",  FALSE, 1, 1, 0, 0),
      Deployment("",  "pull-wake", TRUE,  "online",  FALSE, 1, 1, 0, 0),
      Deployment("c", "webhook",   TRUE,  "online",  FALSE, 1, 1, 0, 1),
      Deployment("x", "webhook",   TRUE,  "online",  FALSE, 1, 0, 0, 0) }

Wakes == INSTANCE Durability WITH
    Scenes <- Deployments, Managers <- {m1}, budget <- spare

ASSUME WakeConstants == Wakes!Constants

-----------------------------------------------------------------------------
(* One part at a time.                                                     *)

KeysRest == Init /\ budget = Budget("store", {1, 2}, 0, 1, 0, 1)
LinksRest ==
    /\ streams = 0 /\ subs = 0 /\ links = 0 /\ member = 0 /\ bit = 0 /\ dirty = 0 /\ fan = 0
    /\ tasks = 0 /\ pass = 0 /\ clock = 0 /\ torn = 0 /\ lateLinks = 0 /\ left = 0
WakesRest ==
    /\ scene = 0 /\ server = 0 /\ replica = 0 /\ log = 0 /\ synced = 0 /\ mirrored = 0 /\ era = 0
    /\ minted = 0 /\ proc = 0 /\ held = 0 /\ proven = 0 /\ out = 0 /\ spare = 0

SumInit ==
    \/ part = "keys" /\ Init /\ LinksRest /\ WakesRest
    \/ part = "links" /\ KeysRest /\ Links!Init /\ WakesRest
    \/ part = "wakes" /\ KeysRest /\ LinksRest /\ Wakes!Init

Keys == part = "keys" /\ UNCHANGED <<part, linkVars, wakeVars>>
Link == part = "links" /\ UNCHANGED <<part, keyVars, wakeVars>>
Wake == part = "wakes" /\ UNCHANGED <<part, keyVars, linkVars>>

SumNext ==
    \/ \E r \in Replicas : Keys /\ LoadSigningKey(r)
    \/ \E r \in Replicas : Keys /\ NewFileKeyWatcher(r)
    \/ \E r \in Replicas : Keys /\ ArmWatcher(r)
    \/ \E r \in Replicas : Keys /\ StartReload(r)
    \/ \E r \in Replicas : Keys /\ RotateSigningKey(r)
    \/ \E r \in Replicas : Keys /\ Mint(r)
    \/ \E r \in Replicas, c \in Callers : Keys /\ Reload(r, c)
    \/ \E r \in Replicas, c \in Callers : Keys /\ ReloadFails(r, c)
    \/ \E r \in Replicas, k \in Kids : Keys /\ DenylistKid(r, k)
    \/ Keys /\ ReplaceFile
    \/ Keys /\ Tick
    \/ \E t \in {1, 2} : Link /\ Links!DeleteSub(t, s1)
    \/ \E t \in {1, 2}, cfg \in Subscribing : Link /\ Links!CreateSub(t, s1, cfg)
    \/ \E t \in {1, 2} : Link /\ Links!AddStream(t, s1, p1)
    \/ \E t \in {1, 2} : Link /\ Links!RemoveStream(t, s1, p1)
    \/ \E t \in {1, 2}, first \in {0, 1} : Link /\ Links!CreateStream(t, p1, first)
    \/ \E t \in {1, 2} : Link /\ Links!DeleteStream(t, p1)
    \/ Link /\ Links!AppendMessage(p1)
    \/ \E t \in {1, 2} : Link /\ Links!TaskStep(t)
    \/ \E t \in {1, 2} : Link /\ Links!IndexFails(t)
    \/ Link /\ Links!Acknowledge(s1)
    \/ Link /\ Links!FanStep
    \/ Link /\ Links!Sweep
    \/ Link /\ Links!PassStep
    \/ Link /\ Links!ReconcileRead
    \/ Link /\ Links!Crash
    \/ Wake /\ Wakes!Boot
    \/ Wake /\ Wakes!Persist
    \/ Wake /\ Wakes!Replicate
    \/ Wake /\ Wakes!Restart
    \/ Wake /\ Wakes!Failover
    \/ Wake /\ Wakes!ExpireLease
    \/ Wake /\ Wakes!ArmWake(m1)
    \/ Wake /\ Wakes!ReemitPullWake(m1)
    \/ Wake /\ Wakes!Dispatch(m1)
    \/ Wake /\ Wakes!ManagerDies(m1)
    \/ \E w \in Workers : Wake /\ Wakes!ClaimAuthorized(w)
    \/ \E w \in Workers : Wake /\ Wakes!ReturnClaim(w)
    \/ \E w \in Workers : Wake /\ Wakes!Ack(w)
    \/ \E a \in {m1} \cup Workers : Wake /\ Wakes!awaitDurableOn(a)

sumVars == <<part, keyVars, linkVars, wakeVars>>

\* The fairness of FanOut!Spec, for the one liveness property, which is about
\* the links.
SumFairness ==
    /\ \A t \in {1, 2} : WF_sumVars(Link /\ Links!TaskStep(t))
    /\ WF_sumVars(Link /\ Links!FanStep)
    /\ WF_sumVars(Link /\ Links!Sweep)
    /\ WF_sumVars(Link /\ Links!PassStep)
    /\ WF_sumVars(Link /\ Links!ReconcileRead)
    /\ WF_sumVars(Link /\ Links!Acknowledge(s1))

SumSpec == SumInit /\ [][SumNext]_sumVars /\ SumFairness

-----------------------------------------------------------------------------
(* Properties of the parts.                                                *)

\* Durability!GrantsAreExclusive: no fence is granted twice in a tier that waits.
GrantsAreExclusive == part = "wakes" => Wakes!GrantsAreExclusive

\* FanOut!LinksConverge: matching streams end up linked and indexed.
LinksConverge == <>[](part = "links" => ~Links!Repairable)

=============================================================================
