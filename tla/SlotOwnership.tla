---------------------------- MODULE SlotOwnership ----------------------------
(***************************************************************************)
(* Leased slot ownership (webhook/ownership.go, the slot-reconcile pass of  *)
(* webhook/manager.go and ClaimSlots of webhook/redis_store.go): which       *)
(* replica runs the background workers of a slot of the keyspace.            *)
(*                                                                           *)
(* Replicas of this build ("new") claim the co-homed slot record with        *)
(* claim_shard.lua and, for the length of a rolling deploy, guard it with    *)
(* the record the previous build claims: reserve it, claim, then mirror the  *)
(* grant or release the reservation.  Replicas of the previous build ("old") *)
(* run claim_shard.lua on that record alone.                                  *)
(*                                                                           *)
(* Time is relative: a lease is the number of ticks it has left (negative    *)
(* once it lapsed) and a pass knows how long ago it read its clock, so one   *)
(* Tick ages everything.  All replicas read the same clock.                  *)
(***************************************************************************)
EXTENDS Integers

CONSTANTS
    New, Old,        \* the replicas of this build and of the previous one
    Slots,
    Score(_, _),     \* hrwScore: replica and slot to an integer, ties broken
    SlotTTL,         \* slotLeaseTTL, in ticks
    MemberTTL,       \* memberLeaseTTL, in ticks
    MaxAge,          \* bound: how many ticks a pass may take
    MaxEpoch,        \* bound: transfers of a record
    Budgets          \* bounds: the faults and beats of a behaviour

Replicas == New \cup Old
Nobody == "nobody"
Gone == -MaxAge                        \* a lease that lapsed long ago

VARIABLES
    members,   \* the members ZSET: replica -> ticks left of its lease, or Gone
    slot,      \* the slot records of this build
    legacy,    \* the records the previous build claims
    pass,      \* per new replica: the slot-reconcile pass in flight
    held,      \* per replica: slot -> epoch it believes it owns, 0 if none
    anchor,    \* per new replica: leaseAnchor, as the ticks left of that lease
    scope,     \* per new replica: the scope a worker pass snapshot, with
               \* whether its slot was transferred since (history)
    spoiled,   \* history: slots whose guard record an overrun pass rewrote
    budget

vars == <<members, slot, legacy, pass, held, anchor, scope, spoiled, budget>>

Record(owner, epoch, until) == [owner |-> owner, epoch |-> epoch, until |-> until]
Unowned == Record(Nobody, 0, Gone)
Idle == [step |-> "idle", age |-> 0, plan |-> [h \in {} |-> "none"]]
NoScope == [slot |-> CHOOSE h \in Slots : TRUE, epoch |-> 0, broken |-> FALSE]

Init ==
    /\ members = [r \in Replicas |-> Gone]
    /\ slot = [h \in Slots |-> Unowned]
    /\ legacy = [h \in Slots |-> Unowned]
    /\ pass = [r \in New |-> Idle]
    /\ held = [r \in Replicas |-> [h \in Slots |-> 0]]
    /\ anchor = [r \in New |-> [h \in Slots |-> Gone]]
    /\ scope = [r \in New |-> NoScope]
    /\ spoiled = {}
    /\ budget \in Budgets

Spend(kind) == budget[kind] > 0 /\ budget' = [budget EXCEPT ![kind] = @ - 1]

-----------------------------------------------------------------------------
(* The pure core of ownership.go.                                          *)

HRWOwner(live, h) == CHOOSE r \in live : \A q \in live : Score(q, h) <= Score(r, h)

TargetedSlots(me, live) == {h \in Slots : HRWOwner(live, h) = me}

-----------------------------------------------------------------------------
(* The scripts, each atomic on one record.  age is how long ago the caller *)
(* read the clock it passes as "now".                                      *)

Busy(rec, me, age) == rec.owner \notin {Nobody, me} /\ rec.until > -age

\* Mutant: a renewal is a grant of the next epoch only after the lease of
\* somebody else lapsed, so an owner that lost the slot and took back an
\* abandoned record keeps its old epoch.
ClaimShardKeepingEpoch(rec, me, age) ==
    IF Busy(rec, me, age) THEN rec
    ELSE Record(me, IF rec.owner = Nobody THEN rec.epoch + 1 ELSE rec.epoch, SlotTTL - age)
ClaimShard(rec, me, age) ==
    IF Busy(rec, me, age) THEN rec
    ELSE Record(me, IF rec.owner = me THEN rec.epoch ELSE rec.epoch + 1, SlotTTL - age)

ReserveLegacySlot(rec, me, age) ==
    IF Busy(rec, me, age) THEN rec ELSE Record(me, rec.epoch, SlotTTL - age)

\* Mutant: check_owner compares the owner and not the epoch.
CheckOwnerById(h, me, epoch) == slot[h].owner = me
CheckOwner(h, me, epoch) == slot[h].owner = me /\ slot[h].epoch = epoch

-----------------------------------------------------------------------------
(* Membership.                                                             *)

Heartbeat(r) ==
    /\ Spend("beats")
    /\ members' = [q \in Replicas |->
                     IF q = r THEN MemberTTL ELSE IF members[q] < 0 THEN Gone ELSE members[q]]
    /\ UNCHANGED <<slot, legacy, pass, held, anchor, scope, spoiled>>

LiveMembers == {r \in Replicas : members[r] > 0}

-----------------------------------------------------------------------------
(* slotReconcileOnce.  plan holds, per targeted slot, how far it got:      *)
(* "claim" (may claim), "busy", "error"; after the claim "granted" with    *)
(* the epoch, "release" (busy) or "failed"; and "del" or "drop" for a      *)
(* reservation that is ours to give back.                                  *)

Todo(state) == [state |-> state, epoch |-> 0]

ReadMembers(r) ==
    LET mine == TargetedSlots(r, LiveMembers \cup {r}) IN
    /\ pass[r].step = "idle" /\ Spend("passes")
    /\ pass' = [pass EXCEPT ![r] = [step |-> "reserve", age |-> 0, plan |-> [h \in mine |-> Todo("claim")]]]
    /\ UNCHANGED <<members, slot, legacy, held, anchor, scope, spoiled>>

\* One pipeline: `refused` slots fail before the command ran, `lost` ones
\* after it (the reply is an error either way).
Faults(refused, lost) ==
    /\ refused \cap lost = {}
    /\ IF refused \cup lost = {} THEN UNCHANGED budget ELSE Spend("faults")

Reserve(r, refused, lost) ==
    LET p == pass[r]
        asked == DOMAIN p.plan
        After(h) == IF h \in refused \cup lost THEN "error"
                    ELSE IF Busy(legacy[h], r, p.age) THEN "busy" ELSE "claim"
    IN
    /\ p.step = "reserve" /\ refused \cup lost \subseteq asked /\ Faults(refused, lost)
    /\ legacy' = [h \in Slots |-> IF h \in asked \ refused
                                  THEN ReserveLegacySlot(legacy[h], r, p.age) ELSE legacy[h]]
    /\ pass' = [pass EXCEPT ![r].step = "claim", ![r].plan = [h \in asked |-> Todo(After(h))]]
    /\ UNCHANGED <<members, slot, held, anchor, scope, spoiled>>

Claim(r, refused, lost) ==
    LET p == pass[r]
        asked == {h \in DOMAIN p.plan : p.plan[h].state = "claim"}
        ran == asked \ refused
        After(h) == IF h \in refused \cup lost THEN Todo("failed")
                    ELSE IF Busy(slot[h], r, p.age) THEN Todo("release")
                    ELSE [state |-> "granted", epoch |-> ClaimShard(slot[h], r, p.age).epoch]
    IN
    /\ p.step = "claim" /\ refused \cup lost \subseteq asked /\ Faults(refused, lost)
    /\ slot' = [h \in Slots |-> IF h \in ran THEN ClaimShard(slot[h], r, p.age) ELSE slot[h]]
    /\ \A h \in Slots : slot'[h].epoch <= MaxEpoch
    /\ pass' = [pass EXCEPT ![r].step = "settle",
                            ![r].plan = [h \in DOMAIN p.plan |-> IF h \in asked THEN After(h) ELSE p.plan[h]]]
    /\ scope' = [q \in New |-> IF slot'[scope[q].slot].owner # slot[scope[q].slot].owner
                               THEN [scope[q] EXCEPT !.broken = TRUE] ELSE scope[q]]
    /\ UNCHANGED <<members, legacy, held, anchor, spoiled>>

\* The lease a pass of this age wrote.
Lapsed(p) == p.age >= SlotTTL

\* settleLegacySlots, first pipeline: mirror every grant, probe every
\* reservation to release.
Settle(r, refused, lost) ==
    LET p == pass[r]
        asked == {h \in DOMAIN p.plan : p.plan[h].state = "granted"}
        Ours(h) == legacy[h].owner = r /\ legacy[h].until = SlotTTL - p.age
        After(h) ==
            IF h \in refused \cup lost THEN Todo("error")
            ELSE IF p.plan[h].state \in {"release", "failed"}
            THEN Todo(IF Ours(h) THEN IF p.plan[h].state = "failed" THEN "drop" ELSE "del" ELSE
                      IF p.plan[h].state = "failed" THEN "error" ELSE "busy")
            ELSE p.plan[h]
    IN
    /\ p.step = "settle" /\ refused \cup lost \subseteq asked /\ Faults(refused, lost)
    /\ legacy' = [h \in Slots |-> IF h \in asked \ refused
                                  THEN Record(r, p.plan[h].epoch, SlotTTL - p.age) ELSE legacy[h]]
    /\ pass' = [pass EXCEPT ![r].step = "release", ![r].plan = [h \in DOMAIN p.plan |-> After(h)]]
    /\ spoiled' = IF Lapsed(p) THEN spoiled \cup asked ELSE spoiled
    /\ UNCHANGED <<members, slot, held, anchor, scope>>

\* settleLegacySlots, second pipeline: DEL of the reservations probed as ours.
Release(r) ==
    LET p == pass[r]
        gone == {h \in DOMAIN p.plan : p.plan[h].state \in {"del", "drop"}}
    IN
    /\ p.step = "release"
    /\ legacy' = [h \in Slots |-> IF h \in gone THEN Unowned ELSE legacy[h]]
    /\ pass' = [pass EXCEPT ![r].step = "land"]
    /\ spoiled' = spoiled \cup {h \in gone : Lapsed(p) \/ p.plan[h].state = "drop"}
    /\ UNCHANGED <<members, slot, held, anchor, scope, budget>>

\* The end of slotReconcileOnce: held and leaseAnchor.
Land(r) ==
    LET p == pass[r]
        Got(h) == h \in DOMAIN p.plan /\ p.plan[h].state = "granted"
        Err(h) == h \in DOMAIN p.plan /\ p.plan[h].state \in {"error", "drop"}
    IN
    /\ p.step = "land"
    /\ held' = [held EXCEPT ![r] = [h \in Slots |-> IF Got(h) THEN p.plan[h].epoch ELSE 0]]
    /\ anchor' = [anchor EXCEPT ![r] = [h \in Slots |-> IF Got(h) THEN SlotTTL - p.age
                                                        ELSE IF Err(h) THEN @[h] ELSE Gone]]
    /\ pass' = [pass EXCEPT ![r] = Idle]
    /\ UNCHANGED <<members, slot, legacy, scope, spoiled, budget>>

-----------------------------------------------------------------------------
(* The workers: ownedScopes, then a fenced write (owner_fenced or          *)
(* check_owner) at any later time.                                         *)

OwnedScopes(r, h) ==
    /\ held[r][h] # 0 /\ Spend("scopes")
    /\ scope' = [scope EXCEPT ![r] = [slot |-> h, epoch |-> held[r][h],
                                      broken |-> slot[h].owner # r \/ slot[h].epoch # held[r][h]]]
    /\ UNCHANGED <<members, slot, legacy, pass, held, anchor, spoiled>>

-----------------------------------------------------------------------------
(* The environment.                                                        *)

\* A replica of the previous build claims its record and runs the slot.
OldClaim(o, h) ==
    /\ Spend("claims") /\ HRWOwner(LiveMembers \cup {o}, h) = o
    /\ legacy' = [legacy EXCEPT ![h] = ClaimShard(@, o, 0)]
    /\ legacy'[h].epoch <= MaxEpoch
    /\ held' = [held EXCEPT ![o][h] = IF Busy(legacy[h], o, 0) THEN 0 ELSE legacy'[h].epoch]
    /\ UNCHANGED <<members, slot, pass, anchor, scope, spoiled>>

\* A replica stops: its pass and its memory are gone, its leases are left to
\* lapse.
Crash(r) ==
    /\ Spend("crashes")
    /\ pass' = [pass EXCEPT ![r] = Idle]
    /\ held' = [held EXCEPT ![r] = [h \in Slots |-> 0]]
    /\ anchor' = [anchor EXCEPT ![r] = [h \in Slots |-> Gone]]
    /\ scope' = [scope EXCEPT ![r] = NoScope]
    /\ UNCHANGED <<members, slot, legacy, spoiled>>

Older(ticks) == IF ticks = Gone THEN Gone ELSE ticks - 1

Tick ==
    /\ \A r \in New : pass[r].age < MaxAge
    /\ members' = [r \in Replicas |-> Older(members[r])]
    /\ slot' = [h \in Slots |-> [slot[h] EXCEPT !.until = Older(@)]]
    /\ legacy' = [h \in Slots |-> [legacy[h] EXCEPT !.until = Older(@)]]
    /\ anchor' = [r \in New |-> [h \in Slots |-> Older(anchor[r][h])]]
    /\ pass' = [r \in New |-> IF pass[r].step = "idle" THEN pass[r] ELSE [pass[r] EXCEPT !.age = @ + 1]]
    /\ UNCHANGED <<held, scope, spoiled, budget>>

Next ==
    \/ \E r \in Replicas : Heartbeat(r)
    \/ \E r \in New : \/ ReadMembers(r) \/ Release(r) \/ Land(r) \/ Crash(r)
                      \/ \E refused, lost \in SUBSET Slots :
                            \/ Reserve(r, refused, lost) \/ Claim(r, refused, lost)
                            \/ Settle(r, refused, lost)
                      \/ \E h \in Slots : OwnedScopes(r, h)
    \/ \E o \in Old, h \in Slots : OldClaim(o, h)
    \/ Tick

Spec == Init /\ [][Next]_vars

-----------------------------------------------------------------------------
(* Properties.                                                             *)

\* What the constants are.
Constants ==
    /\ New \cap Old = {} /\ Nobody \notin Replicas /\ Slots # {}
    /\ SlotTTL \in Nat /\ MemberTTL \in Nat /\ MaxAge \in Nat /\ MaxEpoch \in Nat

Steps == {"idle", "reserve", "claim", "settle", "release", "land"}
States == {"claim", "busy", "error", "failed", "granted", "release", "del", "drop"}
RecordType == [owner : Replicas \cup {Nobody}, epoch : 0..MaxEpoch, until : Gone..SlotTTL]
PlanRecord == [state : States, epoch : 0..MaxEpoch]
PlanType == UNION {[D -> PlanRecord] : D \in SUBSET Slots}

TypeOK ==
    /\ members \in [Replicas -> Gone..MemberTTL]
    /\ slot \in [Slots -> RecordType] /\ legacy \in [Slots -> RecordType]
    /\ pass \in [New -> [step : Steps, age : 0..MaxAge, plan : PlanType]]
    /\ held \in [Replicas -> [Slots -> 0..MaxEpoch]]
    /\ anchor \in [New -> [Slots -> Gone..SlotTTL]]
    /\ scope \in [New -> [slot : Slots, epoch : 0..MaxEpoch, broken : BOOLEAN]]
    /\ spoiled \subseteq Slots

\* The epoch a replica holds is never ahead of the record, and it is the
\* record's epoch only for the record's owner: claim_shard.lua grants an epoch
\* to one replica, whatever replies were lost.  (OwnerFenced of Subscription
\* rests on this.)
EpochHasOneOwner ==
    \A r \in New, h \in Slots :
        held[r][h] # 0 => /\ held[r][h] <= slot[h].epoch
                          /\ held[r][h] = slot[h].epoch => slot[h].owner = r

\* A scope that passes check_owner (or owner_fenced) belongs to a replica that
\* has owned the slot without interruption since it took the scope: a replica
\* that lost the slot and won it back is fenced for its earlier work.
ScopeIsContinuous ==
    \A r \in New : scope[r].epoch # 0 /\ CheckOwner(scope[r].slot, r, scope[r].epoch) => ~scope[r].broken

\* The runtime precondition slotReconcileOnce observes: a replica lists a slot
\* that belongs to somebody else only after the lease of the pass that put it
\* on the list ran out.
HeldUntilLapsed ==
    \A r \in New, h \in Slots : held[r][h] # 0 /\ slot[h].owner # r => anchor[r][h] <= 0

\* The rollout guard: while a replica of this build has an unexpired lease on a
\* slot, the record the previous build claims names the same replica for at
\* least as long, so that an old replica gets BUSY.  Excepted are slots whose
\* guard record was written by a pass that overran its own lease (the mirror
\* and the DEL are unconditional), or released after a claim that failed.
GuardCoversLease ==
    \A h \in Slots \ spoiled :
        slot[h].until > 0 => legacy[h].owner = slot[h].owner /\ legacy[h].until >= slot[h].until
=============================================================================
