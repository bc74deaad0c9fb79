------------------------ MODULE SlotOwnershipProofs ------------------------
(***************************************************************************)
(* Proofs about SlotOwnership: an epoch of a slot has one owner, a scope    *)
(* that still passes check_owner was never interrupted, a listed slot is    *)
(* not somebody else's before its lease ran out, and the guard record of a  *)
(* rolling deploy covers every lease.                                       *)
(***************************************************************************)
EXTENDS SlotOwnership, TLAPS

-----------------------------------------------------------------------------
(* The inductive invariant *)

\* Epoch e of slot h was granted to r: the record has it still, with r as the
\* owner, or has moved past it.
Granted(r, h, e) == e <= slot[h].epoch /\ (e = slot[h].epoch => slot[h].owner = r)

\* Every epoch that a replica lists, has in a pass or works under was granted to it.
EpochsWereGranted ==
    \A r \in New :
       /\ \A h \in Slots : held[r][h] # 0 => Granted(r, h, held[r][h])
       /\ \A h \in DOMAIN pass[r].plan :
             pass[r].plan[h].state = "granted" => Granted(r, h, pass[r].plan[h].epoch)
       /\ scope[r].epoch # 0 => Granted(r, scope[r].slot, scope[r].epoch)

OwnershipInv == TypeOK /\ EpochsWereGranted /\ ScopeIsContinuous

-----------------------------------------------------------------------------
(* Typing *)

LEMMA PlanFacts ==
    ASSUME TypeOK, NEW r \in New
    PROVE  /\ pass[r] \in [step : Steps, age : 0..MaxAge, plan : PlanType]
           /\ DOMAIN pass[r].plan \subseteq Slots
           /\ pass[r].plan \in [DOMAIN pass[r].plan -> PlanRecord]
           /\ pass[r].age \in 0..MaxAge
<1>1. pass[r] \in [step : Steps, age : 0..MaxAge, plan : PlanType]
  BY DEF TypeOK
<1>2. pass[r].plan \in PlanType /\ pass[r].age \in 0..MaxAge
  BY <1>1
<1>3. PICK D \in SUBSET Slots : pass[r].plan \in [D -> PlanRecord]
  BY <1>2 DEF PlanType
<1> QED
  BY <1>1, <1>2, <1>3

LEMMA PlanIntro ==
    ASSUME NEW D \in SUBSET Slots, NEW plan \in [D -> PlanRecord]
    PROVE  plan \in PlanType
BY DEF PlanType

\* A lease that a pass writes, and a lease that is a tick older.
LEMMA LeaseFacts ==
    ASSUME Constants
    PROVE  /\ \A age \in 0..MaxAge : SlotTTL - age \in Gone..SlotTTL
           /\ \A ttl \in Nat : \A ticks \in Gone..ttl : Older(ticks) \in Gone..ttl
           /\ \A ttl \in Nat : Gone \in Gone..ttl /\ ttl \in Gone..ttl
BY DEF Constants, Gone, Older

\* What the scripts make of a record.
LEMMA RecordFacts ==
    ASSUME Constants, NEW rec \in RecordType, NEW r \in Replicas, NEW age \in 0..MaxAge
    PROVE  /\ ReserveLegacySlot(rec, r, age) \in RecordType
           /\ ClaimShard(rec, r, age).epoch <= MaxEpoch => ClaimShard(rec, r, age) \in RecordType
           /\ \A e \in 0..MaxEpoch : Record(r, e, SlotTTL - age) \in RecordType
<1>1. rec.epoch \in Nat /\ rec.epoch \in 0..MaxEpoch
  BY DEF RecordType, Constants
<1>2. SlotTTL - age \in Gone..SlotTTL
  BY LeaseFacts
<1>3. \A e \in 0..MaxEpoch : Record(r, e, SlotTTL - age) \in RecordType
  BY <1>2 DEF RecordType, Record
<1>4. ReserveLegacySlot(rec, r, age) \in RecordType
  BY <1>1, <1>3 DEF ReserveLegacySlot
<1>5. ASSUME ClaimShard(rec, r, age).epoch <= MaxEpoch PROVE ClaimShard(rec, r, age) \in RecordType
  <2>1. CASE Busy(rec, r, age)
    BY <2>1 DEF ClaimShard
  <2>2. CASE ~Busy(rec, r, age)
    <3>1. PICK e \in Nat : ClaimShard(rec, r, age) = Record(r, e, SlotTTL - age)
      BY <1>1, <2>2 DEF ClaimShard
    <3>2. e <= MaxEpoch
      BY <1>5, <3>1 DEF Record
    <3>3. e \in 0..MaxEpoch
      BY <3>2 DEF Constants
    <3> QED
      BY <1>3, <3>1, <3>3
  <2> QED
    BY <2>1, <2>2
<1> QED
  BY <1>3, <1>4, <1>5

LEMMA IdleType ==
    ASSUME Constants
    PROVE  Idle \in [step : Steps, age : 0..MaxAge, plan : PlanType]
<1>1. [h \in {} |-> "none"] \in [{} -> PlanRecord]
  OBVIOUS
<1>2. [h \in {} |-> "none"] \in PlanType
  BY <1>1, PlanIntro, Zenon
<1> QED
  BY <1>2 DEF Idle, Steps, Constants

LEMMA TypeInit == Constants /\ Init => TypeOK
<1> SUFFICES ASSUME Constants, Init PROVE TypeOK
  OBVIOUS
<1>1. 0 \in 0..MaxEpoch /\ 0 \in 0..MaxAge /\ Gone \in Gone..SlotTTL /\ Gone \in Gone..MemberTTL
  BY DEF Constants, Gone
<1>2. Unowned \in RecordType
  BY <1>1 DEF Unowned, Record, RecordType
<1>4. Idle \in [step : Steps, age : 0..MaxAge, plan : PlanType]
  BY IdleType
<1>5. NoScope \in [slot : Slots, epoch : 0..MaxEpoch, broken : BOOLEAN]
  BY <1>1 DEF NoScope, Constants
<1> QED
  BY <1>1, <1>2, <1>4, <1>5 DEF Init, TypeOK

\* Membership, a pass that starts, and workers.
LEMMA QuietType ==
    ASSUME Constants, TypeOK, NEW r \in Replicas
    PROVE  /\ Heartbeat(r) => TypeOK'
           /\ r \in New /\ ReadMembers(r) => TypeOK'
           /\ r \in New /\ Crash(r) => TypeOK'
           /\ r \in New => \A h \in Slots : OwnedScopes(r, h) => TypeOK'
<1>1. ASSUME Heartbeat(r) PROVE TypeOK'
  <2>1. MemberTTL \in Gone..MemberTTL /\ Gone \in Gone..MemberTTL
    BY LeaseFacts DEF Constants
  <2>2. members' \in [Replicas -> Gone..MemberTTL]
    BY <1>1, <2>1 DEF Heartbeat, TypeOK
  <2> QED
    BY <1>1, <2>2 DEF Heartbeat, TypeOK
<1>2. ASSUME r \in New, ReadMembers(r) PROVE TypeOK'
  <2> DEFINE mine == TargetedSlots(r, LiveMembers \cup {r})
             plan == [h \in mine |-> Todo("claim")]
  <2>1. mine \in SUBSET Slots
    BY DEF TargetedSlots
  <2>2. Todo("claim") \in PlanRecord
    BY DEF Todo, PlanRecord, States, Constants
  <2>3. plan \in [mine -> PlanRecord]
    BY <2>2
  <2>4. plan \in PlanType
    BY <2>1, <2>3, PlanIntro, Zenon
  <2>5. /\ pass' = [pass EXCEPT ![r] = [step |-> "reserve", age |-> 0, plan |-> plan]]
        /\ UNCHANGED <<members, slot, legacy, held, anchor, scope, spoiled>>
    BY <1>2, Zenon DEF ReadMembers
  <2> HIDE DEF plan
  <2>6. [step |-> "reserve", age |-> 0, plan |-> plan] \in [step : Steps, age : 0..MaxAge, plan : PlanType]
    BY <2>4 DEF Steps, Constants
  <2> QED
    BY <2>5, <2>6, Zenon DEF TypeOK
<1>3. ASSUME r \in New, Crash(r) PROVE TypeOK'
  <2>1. NoScope \in [slot : Slots, epoch : 0..MaxEpoch, broken : BOOLEAN]
    BY DEF NoScope, Constants
  <2>2. Gone \in Gone..SlotTTL /\ 0 \in 0..MaxEpoch
    BY DEF Constants, Gone
  <2> QED
    BY <1>3, <2>1, <2>2, IdleType DEF Crash, TypeOK
<1>4. ASSUME r \in New, NEW h \in Slots, OwnedScopes(r, h) PROVE TypeOK'
  <2>1. held[r][h] \in 0..MaxEpoch
    BY DEF TypeOK
  <2> QED
    BY <1>4, <2>1 DEF OwnedScopes, TypeOK
<1> QED
  BY <1>1, <1>2, <1>3, <1>4

\* A pass takes its next step, with a new plan.
LEMMA StepType ==
    ASSUME TypeOK, NEW r \in New, NEW step \in Steps, NEW plan \in PlanType,
           pass' = [pass EXCEPT ![r].step = step, ![r].plan = plan]
    PROVE  pass' \in [New -> [step : Steps, age : 0..MaxAge, plan : PlanType]]
BY PlanFacts, Zenon DEF TypeOK

LEMMA ReserveType ==
    ASSUME Constants, TypeOK, NEW r \in New, NEW refused, NEW lost, Reserve(r, refused, lost)
    PROVE  TypeOK'
<1> DEFINE p == pass[r]
           asked == DOMAIN p.plan
           After(h) == IF h \in refused \cup lost THEN "error"
                       ELSE IF Busy(legacy[h], r, p.age) THEN "busy" ELSE "claim"
           plan == [h \in asked |-> Todo(After(h))]
<1>1. asked \in SUBSET Slots /\ p.age \in 0..MaxAge /\ r \in Replicas
  BY PlanFacts DEF Replicas
<1>2. \A s \in States : Todo(s) \in PlanRecord
  BY DEF Todo, PlanRecord, Constants
<1>3. \A h \in asked : After(h) \in States
  BY DEF States
<1>4. plan \in [asked -> PlanRecord]
  BY <1>2, <1>3
<1>5. plan \in PlanType
  BY <1>1, <1>4, PlanIntro, Zenon
<1>6. /\ pass' = [pass EXCEPT ![r].step = "claim", ![r].plan = plan]
      /\ UNCHANGED <<members, slot, held, anchor, scope, spoiled>>
      /\ legacy' = [h \in Slots |-> IF h \in asked \ refused
                                    THEN ReserveLegacySlot(legacy[h], r, p.age) ELSE legacy[h]]
  BY Zenon DEF Reserve
<1> HIDE DEF plan, asked, After
<1>7. pass' \in [New -> [step : Steps, age : 0..MaxAge, plan : PlanType]]
  BY <1>5, <1>6, StepType, Zenon DEF Steps
<1>8. \A h \in Slots : legacy[h] \in RecordType
  BY DEF TypeOK
<1>9. legacy' \in [Slots -> RecordType]
  BY <1>1, <1>6, <1>8, RecordFacts
<1> QED
  BY <1>6, <1>7, <1>9 DEF TypeOK

\* A record that claim_shard.lua does not leave alone has a new lease and, for
\* a new owner, the next epoch.
Moved(old, new) ==
    \/ new.owner = old.owner /\ new.epoch = old.epoch
    \/ new.owner # old.owner /\ new.epoch = old.epoch + 1

LEMMA ShardMoves ==
    ASSUME NEW rec \in RecordType, NEW r \in Replicas, NEW age \in 0..MaxAge
    PROVE  /\ Moved(rec, ClaimShard(rec, r, age))
           /\ ~Busy(rec, r, age) => ClaimShard(rec, r, age).owner = r
<1>1. CASE Busy(rec, r, age)
  BY <1>1 DEF ClaimShard, Moved
<1>2. CASE ~Busy(rec, r, age)
  BY <1>2 DEF ClaimShard, Moved, Record
<1> QED
  BY <1>1, <1>2

\* What the claims of a pass do.
LEMMA ClaimFacts ==
    ASSUME Constants, TypeOK, NEW r \in New, NEW refused, NEW lost, Claim(r, refused, lost)
    PROVE  /\ slot' \in [Slots -> RecordType]
           /\ \A h \in Slots : Moved(slot[h], slot'[h])
           /\ pass' \in [New -> [step : Steps, age : 0..MaxAge, plan : PlanType]]
           /\ \A q \in New \ {r} : pass'[q] = pass[q]
           /\ \A h \in DOMAIN pass'[r].plan :
                 /\ h \in Slots
                 /\ pass'[r].plan[h].state = "granted" =>
                       \/ h \in DOMAIN pass[r].plan /\ pass'[r].plan[h] = pass[r].plan[h]
                       \/ pass'[r].plan[h].epoch = slot'[h].epoch /\ slot'[h].owner = r
<1> DEFINE p == pass[r]
           asked == {h \in DOMAIN p.plan : p.plan[h].state = "claim"}
           ran == asked \ refused
           After(h) == IF h \in refused \cup lost THEN Todo("failed")
                       ELSE IF Busy(slot[h], r, p.age) THEN Todo("release")
                       ELSE [state |-> "granted", epoch |-> ClaimShard(slot[h], r, p.age).epoch]
           plan == [h \in DOMAIN p.plan |-> IF h \in asked THEN After(h) ELSE p.plan[h]]
<1>1. DOMAIN p.plan \in SUBSET Slots /\ p.age \in 0..MaxAge /\ r \in Replicas
      /\ p.plan \in [DOMAIN p.plan -> PlanRecord]
  BY PlanFacts DEF Replicas
<1>2. \A h \in Slots : slot[h] \in RecordType
  BY DEF TypeOK
<1>3. /\ slot' = [h \in Slots |-> IF h \in ran THEN ClaimShard(slot[h], r, p.age) ELSE slot[h]]
      /\ \A h \in Slots : slot'[h].epoch <= MaxEpoch
      /\ pass' = [pass EXCEPT ![r].step = "settle", ![r].plan = plan]
      /\ refused \cup lost \subseteq asked
  BY Zenon DEF Claim
<1>4. \A h \in Slots : slot'[h] \in RecordType /\ Moved(slot[h], slot'[h])
  <2> TAKE h \in Slots
  <2>1. CASE h \in ran
    <3>1. slot'[h] = ClaimShard(slot[h], r, p.age) /\ slot'[h].epoch <= MaxEpoch
      BY <1>3, <2>1, Zenon
    <3> QED
      BY <1>1, <1>2, <3>1, RecordFacts, ShardMoves
  <2>2. CASE h \notin ran
    <3>1. slot'[h] = slot[h]
      BY <1>3, <2>2, Zenon
    <3> QED
      BY <1>2, <3>1 DEF Moved
  <2> QED
    BY <2>1, <2>2
<1>5. slot' \in [Slots -> RecordType]
  <2>1. slot' = [h \in Slots |-> slot'[h]]
    BY <1>3, Zenon
  <2> QED
    BY <1>4, <2>1, Zenon
<1>6. ASSUME NEW h \in asked
      PROVE  /\ After(h) \in PlanRecord
             /\ After(h).state = "granted" =>
                   After(h).epoch = slot'[h].epoch /\ slot'[h].owner = r
  <2>a. h \in Slots /\ slot[h] \in RecordType
    BY <1>1, <1>2
  <2>1. CASE h \in refused \cup lost \/ Busy(slot[h], r, p.age)
    BY <2>1 DEF Todo, PlanRecord, States, Constants
  <2>2. CASE h \notin refused \cup lost /\ ~Busy(slot[h], r, p.age)
    <3>1. slot'[h] = ClaimShard(slot[h], r, p.age)
      BY <1>3, <2>a, <2>2, Zenon
    <3>2. slot'[h].owner = r
      BY <1>1, <2>a, <2>2, <3>1, ShardMoves, Zenon
    <3>3. slot'[h].epoch \in 0..MaxEpoch
      BY <1>4, <2>a DEF RecordType
    <3>4. After(h) = [state |-> "granted", epoch |-> slot'[h].epoch]
      BY <2>2, <3>1, Zenon
    <3> QED
      BY <3>2, <3>3, <3>4 DEF PlanRecord, States
  <2> QED
    BY <2>1, <2>2
<1> HIDE DEF After
<1>7. plan \in [DOMAIN p.plan -> PlanRecord]
  BY <1>1, <1>6
<1>8. plan \in PlanType
  BY <1>1, <1>7, PlanIntro, Zenon
<1>9. DOMAIN plan = DOMAIN p.plan
      /\ \A h \in DOMAIN p.plan : plan[h] = IF h \in asked THEN After(h) ELSE p.plan[h]
  BY Zenon
<1> HIDE DEF plan
<1>10. pass' \in [New -> [step : Steps, age : 0..MaxAge, plan : PlanType]]
  BY <1>3, <1>8, StepType, Zenon DEF Steps
<1>11. pass'[r].plan = plan /\ \A q \in New \ {r} : pass'[q] = pass[q]
  <2>1. pass[r] \in [step : Steps, age : 0..MaxAge, plan : PlanType]
        /\ pass \in [New -> [step : Steps, age : 0..MaxAge, plan : PlanType]]
    BY DEF TypeOK
  <2> QED
    BY <1>3, <2>1
<1>12. ASSUME NEW h \in DOMAIN p.plan, plan[h].state = "granted"
       PROVE  \/ plan[h] = p.plan[h]
              \/ plan[h].epoch = slot'[h].epoch /\ slot'[h].owner = r
  BY <1>6, <1>9, <1>12, Zenon
<1> QED
  BY <1>1, <1>4, <1>5, <1>9, <1>10, <1>11, <1>12, Zenon

\* A grant is in a plan after a step of a pass only if it was there before.
GrantsKept(r) ==
    /\ \A q \in New \ {r} : pass'[q] = pass[q]
    /\ \A h \in DOMAIN pass'[r].plan :
          pass'[r].plan[h].state = "granted" =>
             h \in DOMAIN pass[r].plan /\ pass'[r].plan[h] = pass[r].plan[h]

LEMMA StepKept ==
    ASSUME TypeOK, NEW r \in New, NEW step \in Steps, NEW plan \in PlanType,
           pass' = [pass EXCEPT ![r].step = step, ![r].plan = plan],
           DOMAIN plan = DOMAIN pass[r].plan,
           \A h \in DOMAIN plan : plan[h].state = "granted" => plan[h] = pass[r].plan[h]
    PROVE  GrantsKept(r)
<1>1. pass \in [New -> [step : Steps, age : 0..MaxAge, plan : PlanType]]
  BY DEF TypeOK
<1>2. pass'[r].plan = plan /\ \A q \in New \ {r} : pass'[q] = pass[q]
  BY <1>1
<1> QED
  BY <1>2, Zenon DEF GrantsKept

LEMMA ClaimType ==
    ASSUME Constants, TypeOK, NEW r \in New, NEW refused, NEW lost, Claim(r, refused, lost)
    PROVE  TypeOK'
<1>1. /\ UNCHANGED <<members, legacy, held, anchor, spoiled>>
      /\ scope' = [q \in New |-> IF slot'[scope[q].slot].owner # slot[scope[q].slot].owner
                                 THEN [scope[q] EXCEPT !.broken = TRUE] ELSE scope[q]]
  BY Zenon DEF Claim
<1>2. scope \in [New -> [slot : Slots, epoch : 0..MaxEpoch, broken : BOOLEAN]]
  BY DEF TypeOK
<1>3. scope' \in [New -> [slot : Slots, epoch : 0..MaxEpoch, broken : BOOLEAN]]
  BY <1>1, <1>2, Zenon
<1> QED
  BY <1>1, <1>3, ClaimFacts DEF TypeOK

LEMMA SettleType ==
    ASSUME Constants, TypeOK, NEW r \in New, NEW refused, NEW lost, Settle(r, refused, lost)
    PROVE  TypeOK' /\ GrantsKept(r)
<1> DEFINE p == pass[r]
           asked == {h \in DOMAIN p.plan : p.plan[h].state = "granted"}
           Ours(h) == legacy[h].owner = r /\ legacy[h].until = SlotTTL - p.age
           After(h) ==
               IF h \in refused \cup lost THEN Todo("error")
               ELSE IF p.plan[h].state \in {"release", "failed"}
               THEN Todo(IF Ours(h) THEN IF p.plan[h].state = "failed" THEN "drop" ELSE "del" ELSE
                         IF p.plan[h].state = "failed" THEN "error" ELSE "busy")
               ELSE p.plan[h]
           plan == [h \in DOMAIN p.plan |-> After(h)]
<1>1. DOMAIN p.plan \in SUBSET Slots /\ p.age \in 0..MaxAge /\ r \in Replicas
      /\ p.plan \in [DOMAIN p.plan -> PlanRecord]
  BY PlanFacts DEF Replicas
<1>2. /\ legacy' = [h \in Slots |-> IF h \in asked \ refused
                                    THEN Record(r, p.plan[h].epoch, SlotTTL - p.age) ELSE legacy[h]]
      /\ pass' = [pass EXCEPT ![r].step = "release", ![r].plan = plan]
      /\ spoiled' = IF Lapsed(p) THEN spoiled \cup asked ELSE spoiled
      /\ UNCHANGED <<members, slot, held, anchor, scope>>
  BY Zenon DEF Settle
<1>3. \A s \in States : Todo(s) \in PlanRecord /\ Todo(s).state = s
  BY DEF Todo, PlanRecord, Constants
<1>4. ASSUME NEW h \in DOMAIN p.plan
      PROVE  After(h) \in PlanRecord /\ (After(h).state = "granted" => After(h) = p.plan[h])
  <2>1. After(h) = p.plan[h] \/ \E s \in States \ {"granted"} : After(h) = Todo(s)
    BY DEF States
  <2>2. p.plan[h] \in PlanRecord
    BY <1>1
  <2> HIDE DEF After
  <2> QED
    BY <1>3, <2>1, <2>2
<1> HIDE DEF After
<1>5. /\ plan \in [DOMAIN p.plan -> PlanRecord] /\ DOMAIN plan = DOMAIN p.plan
      /\ \A h \in DOMAIN plan : plan[h].state = "granted" => plan[h] = p.plan[h]
  BY <1>4
<1>6. plan \in PlanType
  BY <1>1, <1>5, PlanIntro, Zenon
<1> HIDE DEF plan
<1>7. "release" \in Steps
  BY DEF Steps
<1>8. pass' \in [New -> [step : Steps, age : 0..MaxAge, plan : PlanType]]
  BY <1>2, <1>6, <1>7, StepType, Zenon
<1>9. GrantsKept(r)
  BY <1>2, <1>5, <1>6, <1>7, StepKept, Zenon
<1>10. legacy' \in [Slots -> RecordType]
  <2>1. \A h \in Slots : legacy[h] \in RecordType
    BY DEF TypeOK
  <2>2. \A h \in asked : Record(r, p.plan[h].epoch, SlotTTL - p.age) \in RecordType
    <3> TAKE h \in asked
    <3>1. p.plan[h].epoch \in 0..MaxEpoch
      BY <1>1 DEF PlanRecord
    <3>2. SlotTTL - p.age \in Gone..SlotTTL
      BY <1>1, LeaseFacts
    <3> QED
      BY <1>1, <3>1, <3>2 DEF Record, RecordType
  <2> QED
    BY <1>2, <2>1, <2>2
<1>11. spoiled' \subseteq Slots
  <2>1. spoiled \subseteq Slots
    BY DEF TypeOK
  <2> QED
    BY <1>1, <1>2, <2>1, Zenon
<1> QED
  BY <1>2, <1>8, <1>9, <1>10, <1>11 DEF TypeOK

LEMMA ReleaseType ==
    ASSUME Constants, TypeOK, NEW r \in New, Release(r)
    PROVE  TypeOK' /\ GrantsKept(r)
<1>1. pass \in [New -> [step : Steps, age : 0..MaxAge, plan : PlanType]] /\ "land" \in Steps
  BY DEF TypeOK, Steps
<1>2. pass' = [pass EXCEPT ![r].step = "land"] /\ UNCHANGED <<members, slot, held, anchor, scope>>
  BY DEF Release
<1>3. /\ pass' \in [New -> [step : Steps, age : 0..MaxAge, plan : PlanType]]
      /\ pass'[r].plan = pass[r].plan /\ \A q \in New \ {r} : pass'[q] = pass[q]
  BY <1>1, <1>2
<1>4. GrantsKept(r)
  BY <1>3, Zenon DEF GrantsKept
<1>5. Unowned \in RecordType
  BY DEF Unowned, Record, RecordType, Constants, Gone
<1>6. legacy' \in [Slots -> RecordType] /\ spoiled' \subseteq Slots
  BY <1>5, PlanFacts DEF Release, TypeOK
<1> QED
  BY <1>2, <1>3, <1>4, <1>6 DEF TypeOK

LEMMA LandType ==
    ASSUME Constants, TypeOK, NEW r \in New, Land(r)
    PROVE  TypeOK'
<1> DEFINE p == pass[r]
           Got(h) == h \in DOMAIN p.plan /\ p.plan[h].state = "granted"
           Err(h) == h \in DOMAIN p.plan /\ p.plan[h].state \in {"error", "drop"}
<1>1. DOMAIN p.plan \in SUBSET Slots /\ p.age \in 0..MaxAge /\ r \in Replicas
      /\ p.plan \in [DOMAIN p.plan -> PlanRecord]
  BY PlanFacts DEF Replicas
<1>2. /\ held' = [held EXCEPT ![r] = [h \in Slots |-> IF Got(h) THEN p.plan[h].epoch ELSE 0]]
      /\ anchor' = [anchor EXCEPT ![r] = [h \in Slots |-> IF Got(h) THEN SlotTTL - p.age
                                                          ELSE IF Err(h) THEN @[h] ELSE Gone]]
      /\ pass' = [pass EXCEPT ![r] = Idle]
      /\ UNCHANGED <<members, slot, legacy, scope, spoiled, budget>>
  BY DEF Land
<1>3. \A h \in Slots : Got(h) => p.plan[h].epoch \in 0..MaxEpoch
  BY <1>1 DEF PlanRecord
<1>4. SlotTTL - p.age \in Gone..SlotTTL /\ Gone \in Gone..SlotTTL /\ 0 \in 0..MaxEpoch
  BY <1>1, LeaseFacts DEF Constants
<1> HIDE DEF Got, Err
<1>5. held' \in [Replicas -> [Slots -> 0..MaxEpoch]]
  BY <1>2, <1>3, <1>4, Zenon DEF TypeOK
<1>6. anchor' \in [New -> [Slots -> Gone..SlotTTL]]
  BY <1>2, <1>4 DEF TypeOK
<1>7. pass' \in [New -> [step : Steps, age : 0..MaxAge, plan : PlanType]]
  BY <1>2, IdleType DEF TypeOK
<1> QED
  BY <1>2, <1>5, <1>6, <1>7 DEF TypeOK

LEMMA OldClaimType ==
    ASSUME Constants, TypeOK, NEW o \in Old, NEW h \in Slots, OldClaim(o, h)
    PROVE  TypeOK'
<1>1. /\ legacy' = [legacy EXCEPT ![h] = ClaimShard(@, o, 0)]
      /\ legacy'[h].epoch <= MaxEpoch
      /\ held' = [held EXCEPT ![o][h] = IF Busy(legacy[h], o, 0) THEN 0 ELSE legacy'[h].epoch]
      /\ UNCHANGED <<members, slot, pass, anchor, scope, spoiled>>
  BY DEF OldClaim
<1>2. legacy \in [Slots -> RecordType] /\ o \in Replicas /\ 0 \in 0..MaxAge /\ 0 \in 0..MaxEpoch
  BY DEF TypeOK, Replicas, Constants
<1>3. legacy'[h] = ClaimShard(legacy[h], o, 0)
  BY <1>1, <1>2
<1>4. legacy'[h] \in RecordType
  BY <1>1, <1>2, <1>3, RecordFacts
<1>5. legacy' \in [Slots -> RecordType]
  BY <1>1, <1>2, <1>3, <1>4
<1>6. legacy'[h].epoch \in 0..MaxEpoch
  BY <1>4 DEF RecordType
<1>7. held' \in [Replicas -> [Slots -> 0..MaxEpoch]]
  BY <1>1, <1>2, <1>6 DEF TypeOK
<1> QED
  BY <1>1, <1>5, <1>7 DEF TypeOK

LEMMA TickType ==
    ASSUME Constants, TypeOK, Tick
    PROVE  TypeOK'
<1>1. /\ \A ticks \in Gone..SlotTTL : Older(ticks) \in Gone..SlotTTL
      /\ \A ticks \in Gone..MemberTTL : Older(ticks) \in Gone..MemberTTL
  BY LeaseFacts DEF Constants
<1>2. members' \in [Replicas -> Gone..MemberTTL] /\ anchor' \in [New -> [Slots -> Gone..SlotTTL]]
  BY <1>1 DEF Tick, TypeOK
<1>3. \A rec \in RecordType : [rec EXCEPT !.until = Older(@)] \in RecordType
  BY <1>1 DEF RecordType
<1>4. slot' \in [Slots -> RecordType] /\ legacy' \in [Slots -> RecordType]
  BY <1>3 DEF Tick, TypeOK
<1>5. ASSUME NEW r \in New
      PROVE  (IF pass[r].step = "idle" THEN pass[r] ELSE [pass[r] EXCEPT !.age = @ + 1])
                \in [step : Steps, age : 0..MaxAge, plan : PlanType]
  <2>1. pass[r] \in [step : Steps, age : 0..MaxAge, plan : PlanType] /\ pass[r].age < MaxAge
    BY DEF TypeOK, Tick
  <2> QED
    BY <2>1 DEF Constants
<1>6. pass' \in [New -> [step : Steps, age : 0..MaxAge, plan : PlanType]]
  BY <1>5 DEF Tick
<1> QED
  BY <1>2, <1>4, <1>6 DEF Tick, TypeOK

LEMMA TypeStep == Constants /\ TypeOK /\ [Next]_vars => TypeOK'
<1> SUFFICES ASSUME Constants, TypeOK, [Next]_vars PROVE TypeOK'
  OBVIOUS
<1>1. CASE UNCHANGED vars
  BY <1>1 DEF vars, TypeOK
<1>2. New \subseteq Replicas
  BY DEF Replicas
<1>3. CASE Next
  BY <1>2, <1>3, QuietType, ReserveType, ClaimType, SettleType, ReleaseType, LandType,
     OldClaimType, TickType DEF Next
<1> QED
  BY <1>1, <1>3

-----------------------------------------------------------------------------
(* Grants *)

\* A grant survives whatever claim_shard.lua does to the record.
LEMMA GrantMoves ==
    ASSUME TypeOK, NEW r \in New, NEW h \in Slots, NEW e \in 0..MaxEpoch, Granted(r, h, e),
           Moved(slot[h], slot'[h])
    PROVE  Granted(r, h, e)'
<1>1. slot[h] \in RecordType
  BY DEF TypeOK
<1>2. slot[h].epoch \in Int
  BY <1>1 DEF RecordType
<1> QED
  BY <1>2 DEF Granted, Moved

LEMMA GrantInit == Constants /\ Init => OwnershipInv
<1> SUFFICES ASSUME Constants, Init PROVE OwnershipInv
  OBVIOUS
<1>1. TypeOK
  BY TypeInit
<1>2. \A r \in New : /\ \A h \in Slots : held[r][h] = 0
                     /\ DOMAIN pass[r].plan = {}
                     /\ scope[r].epoch = 0
  BY Zenon DEF Init, Idle, NoScope, Replicas
<1> QED
  BY <1>1, <1>2 DEF OwnershipInv, EpochsWereGranted, ScopeIsContinuous

\* What a step must show: the records move as claim_shard.lua moves them, and
\* every epoch that is new somewhere was granted.
LEMMA GrantStep ==
    ASSUME OwnershipInv, TypeOK', \A h \in Slots : Moved(slot[h], slot'[h]),
           \A r \in New : \A h \in Slots :
              held'[r][h] # 0 => held'[r][h] = held[r][h] \/ Granted(r, h, held[r][h])',
           \A r \in New : \A h \in DOMAIN pass'[r].plan :
              pass'[r].plan[h].state = "granted" =>
                 \/ h \in DOMAIN pass[r].plan /\ pass'[r].plan[h] = pass[r].plan[h]
                 \/ Granted(r, h, pass[r].plan[h].epoch)',
           \A r \in New :
              scope'[r].epoch # 0 =>
                 \/ scope'[r].slot = scope[r].slot /\ scope'[r].epoch = scope[r].epoch
                 \/ Granted(r, scope[r].slot, scope[r].epoch)'
    PROVE  EpochsWereGranted'
<1>1. TypeOK /\ EpochsWereGranted
  BY DEF OwnershipInv
<1>2. \A r \in New, h \in Slots, e \in 0..MaxEpoch : Granted(r, h, e) => Granted(r, h, e)'
  BY <1>1, GrantMoves
<1> SUFFICES ASSUME NEW r \in New
             PROVE  /\ \A h \in Slots : held'[r][h] # 0 => Granted(r, h, held[r][h])'
                    /\ \A h \in DOMAIN pass'[r].plan :
                          pass'[r].plan[h].state = "granted" => Granted(r, h, pass[r].plan[h].epoch)'
                    /\ scope'[r].epoch # 0 => Granted(r, scope[r].slot, scope[r].epoch)'
  BY Zenon DEF EpochsWereGranted
<1>3. ASSUME NEW h \in Slots, held'[r][h] # 0, held'[r][h] = held[r][h]
      PROVE  Granted(r, h, held[r][h])'
  <2>1. PICK e \in 0..MaxEpoch : e = held[r][h]
    BY <1>1 DEF TypeOK, Replicas
  <2>2. Granted(r, h, e)'
    BY <1>1, <1>2, <1>3, <2>1 DEF EpochsWereGranted
  <2> QED
    BY <1>3, <2>1, <2>2, ZenonT(40) DEF Granted
<1>4. ASSUME NEW h \in DOMAIN pass'[r].plan, pass'[r].plan[h].state = "granted",
             h \in DOMAIN pass[r].plan, pass'[r].plan[h] = pass[r].plan[h]
      PROVE  Granted(r, h, pass[r].plan[h].epoch)'
  <2>1. h \in Slots /\ pass[r].plan[h] \in PlanRecord
    BY <1>1, <1>4, PlanFacts
  <2>2. PICK e \in 0..MaxEpoch : e = pass[r].plan[h].epoch
    BY <2>1 DEF PlanRecord
  <2>3. Granted(r, h, e)'
    BY <1>1, <1>2, <1>4, <2>1, <2>2 DEF EpochsWereGranted
  <2> QED
    BY <1>4, <2>2, <2>3, ZenonT(40) DEF Granted
<1>5. ASSUME scope'[r].epoch # 0, scope'[r].slot = scope[r].slot, scope'[r].epoch = scope[r].epoch
      PROVE  Granted(r, scope[r].slot, scope[r].epoch)'
  <2>1. scope[r] \in [slot : Slots, epoch : 0..MaxEpoch, broken : BOOLEAN]
    BY <1>1 DEF TypeOK
  <2>2. PICK h \in Slots, e \in 0..MaxEpoch : h = scope[r].slot /\ e = scope[r].epoch
    BY <2>1, ZenonT(40)
  <2>3. Granted(r, h, e)'
    BY <1>1, <1>2, <1>5, <2>2 DEF EpochsWereGranted
  <2> QED
    BY <1>5, <2>2, <2>3 DEF Granted
<1> QED
  BY <1>3, <1>4, <1>5, Zenon

\* A step that leaves the slot records' owners and epochs, and the scopes, alone
\* keeps scopes continuous.
LEMMA ScopesRest ==
    ASSUME OwnershipInv, scope' = scope,
           \A h \in Slots : slot'[h].owner = slot[h].owner /\ slot'[h].epoch = slot[h].epoch
    PROVE  ScopeIsContinuous'
<1>1. \A r \in New : scope[r].slot \in Slots
  BY DEF OwnershipInv, TypeOK
<1> QED
  BY <1>1 DEF OwnershipInv, ScopeIsContinuous, CheckOwner

\* A pass that changes its plan and nothing the workers see.
LEMMA PassStep ==
    ASSUME OwnershipInv, TypeOK', NEW r \in New, GrantsKept(r), UNCHANGED <<slot, held, scope>>
    PROVE  OwnershipInv'
<1>1. \A h \in Slots : Moved(slot[h], slot'[h])
  BY DEF Moved
<1>2. EpochsWereGranted'
  BY <1>1, GrantStep DEF GrantsKept
<1>3. ScopeIsContinuous'
  BY ScopesRest
<1> QED
  BY <1>2, <1>3 DEF OwnershipInv

\* A pass that starts, or has run its reservations, has no grant yet.
LEMMA EarlyStep ==
    ASSUME OwnershipInv, TypeOK', NEW r \in New,
           ReadMembers(r) \/ \E refused, lost \in SUBSET Slots : Reserve(r, refused, lost)
    PROVE  OwnershipInv'
<1>a. pass \in [New -> [step : Steps, age : 0..MaxAge, plan : PlanType]]
  BY DEF OwnershipInv, TypeOK
<1>1. \A s : Todo(s).state = s
  BY DEF Todo
<1>2. ASSUME ReadMembers(r) PROVE GrantsKept(r)
  <2>1. pass'[r].plan = [h \in TargetedSlots(r, LiveMembers \cup {r}) |-> Todo("claim")]
        /\ \A q \in New \ {r} : pass'[q] = pass[q]
    BY <1>a, <1>2 DEF ReadMembers
  <2> QED
    BY <1>1, <2>1 DEF GrantsKept
<1>3. ASSUME NEW refused \in SUBSET Slots, NEW lost \in SUBSET Slots, Reserve(r, refused, lost)
      PROVE  GrantsKept(r)
  <2> DEFINE After(h) == IF h \in refused \cup lost THEN "error"
                         ELSE IF Busy(legacy[h], r, pass[r].age) THEN "busy" ELSE "claim"
             plan == [h \in DOMAIN pass[r].plan |-> Todo(After(h))]
  <2>1. pass' = [pass EXCEPT ![r].step = "claim", ![r].plan = plan]
    BY <1>3, Zenon DEF Reserve
  <2>2. \A h \in DOMAIN plan : plan[h].state # "granted"
    BY <1>1
  <2> HIDE DEF plan
  <2>3. pass'[r].plan = plan /\ \A q \in New \ {r} : pass'[q] = pass[q]
    BY <1>a, <2>1
  <2> QED
    BY <2>2, <2>3, Zenon DEF GrantsKept
<1>4. UNCHANGED <<slot, held, scope>>
  BY DEF ReadMembers, Reserve
<1> QED
  BY <1>2, <1>3, <1>4, PassStep

\* The claims of a pass: what it was granted is the record's, and a scope whose
\* slot changes hands is behind the record.
LEMMA ClaimStep ==
    ASSUME Constants, OwnershipInv, TypeOK', NEW r \in New, NEW refused, NEW lost,
           Claim(r, refused, lost)
    PROVE  OwnershipInv'
<1>1. TypeOK /\ EpochsWereGranted /\ ScopeIsContinuous
  BY DEF OwnershipInv
<1>2. /\ UNCHANGED held
      /\ scope' = [q \in New |-> IF slot'[scope[q].slot].owner # slot[scope[q].slot].owner
                                 THEN [scope[q] EXCEPT !.broken = TRUE] ELSE scope[q]]
  BY Zenon DEF Claim
<1>3. /\ \A h \in Slots : Moved(slot[h], slot'[h])
      /\ \A q \in New \ {r} : pass'[q] = pass[q]
      /\ \A h \in DOMAIN pass'[r].plan :
            /\ h \in Slots
            /\ pass'[r].plan[h].state = "granted" =>
                  \/ h \in DOMAIN pass[r].plan /\ pass'[r].plan[h] = pass[r].plan[h]
                  \/ pass'[r].plan[h].epoch = slot'[h].epoch /\ slot'[h].owner = r
  BY <1>1, ClaimFacts, Zenon
<1>4. \A h \in Slots : slot'[h].epoch \in Int /\ slot[h].epoch \in Int
  BY <1>1 DEF TypeOK, RecordType
<1>5. \A q \in New : scope[q] \in [slot : Slots, epoch : 0..MaxEpoch, broken : BOOLEAN]
  BY <1>1 DEF TypeOK
<1>6. \A q \in New : scope'[q].slot = scope[q].slot /\ scope'[q].epoch = scope[q].epoch
  BY <1>2, <1>5
<1>7. ASSUME NEW h \in DOMAIN pass'[r].plan,
             pass'[r].plan[h].epoch = slot'[h].epoch, slot'[h].owner = r
      PROVE  Granted(r, h, pass[r].plan[h].epoch)'
  BY <1>3, <1>4, <1>7 DEF Granted
<1>8. EpochsWereGranted'
  <2>1. \A q \in New : \A h \in Slots : held'[q][h] = held[q][h]
    BY <1>2
  <2>2. \A q \in New : \A h \in DOMAIN pass'[q].plan :
           pass'[q].plan[h].state = "granted" =>
              \/ h \in DOMAIN pass[q].plan /\ pass'[q].plan[h] = pass[q].plan[h]
              \/ Granted(q, h, pass[q].plan[h].epoch)'
    BY <1>3, <1>7, ZenonT(40)
  <2> QED
    BY <1>3, <1>6, <2>1, <2>2, GrantStep, Zenon
<1>9. ASSUME NEW q \in New, scope'[q].epoch # 0, CheckOwner(scope[q].slot, q, scope[q].epoch)'
      PROVE  ~scope'[q].broken
  <2> DEFINE h == scope[q].slot
  <2>1. h \in Slots /\ scope[q].epoch \in Int
    BY <1>5
  <2>2. slot'[h].owner = q /\ slot'[h].epoch = scope[q].epoch /\ scope[q].epoch # 0
    BY <1>6, <1>9 DEF CheckOwner
  <2>3. scope[q].epoch <= slot[h].epoch
    BY <1>1, <2>2 DEF EpochsWereGranted, Granted
  <2>4. slot'[h].owner = slot[h].owner /\ slot'[h].epoch = slot[h].epoch
    BY <1>3, <1>4, <2>1, <2>2, <2>3 DEF Moved
  <2>5. scope'[q] = scope[q]
    BY <1>2, <2>4
  <2> QED
    BY <1>1, <2>2, <2>4, <2>5, Zenon DEF ScopeIsContinuous, CheckOwner
<1>10. ScopeIsContinuous'
  BY <1>9 DEF ScopeIsContinuous
<1> QED
  BY <1>8, <1>10 DEF OwnershipInv

\* The end of a pass: what is listed is what was granted.
LEMMA LandStep ==
    ASSUME OwnershipInv, TypeOK', NEW r \in New, Land(r)
    PROVE  OwnershipInv'
<1> DEFINE p == pass[r]
           Got(h) == h \in DOMAIN p.plan /\ p.plan[h].state = "granted"
<1>1. TypeOK /\ EpochsWereGranted /\ r \in Replicas
  BY DEF OwnershipInv, Replicas
<1>2. /\ held' = [held EXCEPT ![r] = [h \in Slots |-> IF Got(h) THEN p.plan[h].epoch ELSE 0]]
      /\ pass' = [pass EXCEPT ![r] = Idle] /\ UNCHANGED <<slot, scope>>
  BY DEF Land
<1> HIDE DEF Got
<1>3. /\ \A h \in Slots : held'[r][h] = IF Got(h) THEN p.plan[h].epoch ELSE 0
      /\ \A q \in New \ {r} : held'[q] = held[q]
  BY <1>1, <1>2 DEF TypeOK, Replicas
<1>4. \A h \in Slots : Moved(slot[h], slot'[h])
  BY <1>2 DEF Moved
<1>5. ASSUME NEW h \in Slots, held'[r][h] # 0 PROVE Granted(r, h, held[r][h])'
  <2>1. Got(h) /\ held'[r][h] = p.plan[h].epoch
    BY <1>3, <1>5
  <2>2. Granted(r, h, p.plan[h].epoch)
    BY <1>1, <2>1 DEF EpochsWereGranted, Got
  <2> QED
    BY <1>2, <2>1, <2>2 DEF Granted
<1>6. DOMAIN pass'[r].plan = {} /\ \A q \in New \ {r} : pass'[q] = pass[q]
  BY <1>1, <1>2, SMTT(30) DEF TypeOK, Idle
<1>7. EpochsWereGranted'
  BY <1>2, <1>3, <1>4, <1>5, <1>6, GrantStep, ZenonT(40)
<1>8. ScopeIsContinuous'
  BY <1>2, ScopesRest
<1> QED
  BY <1>7, <1>8 DEF OwnershipInv

\* A worker takes a scope of a slot that its replica lists.
LEMMA ScopeStep ==
    ASSUME OwnershipInv, TypeOK', NEW r \in New, NEW h \in Slots, OwnedScopes(r, h)
    PROVE  OwnershipInv'
<1>1. TypeOK /\ EpochsWereGranted /\ ScopeIsContinuous
  BY SMTT(30) DEF OwnershipInv
<1>2. /\ held[r][h] # 0 /\ UNCHANGED <<slot, pass, held>>
      /\ scope' = [scope EXCEPT ![r] = [slot |-> h, epoch |-> held[r][h],
                                        broken |-> slot[h].owner # r \/ slot[h].epoch # held[r][h]]]
  BY ZenonT(40) DEF OwnedScopes
<1>3. /\ scope'[r].slot = h /\ scope'[r].epoch = held[r][h]
      /\ scope'[r].broken <=> slot[h].owner # r \/ slot[h].epoch # held[r][h]
      /\ \A q \in New \ {r} : scope'[q] = scope[q]
  BY <1>1, <1>2, Zenon DEF TypeOK
<1>4. \A g \in Slots : Moved(slot[g], slot'[g])
  BY <1>2 DEF Moved
<1>5. Granted(r, h, held[r][h])
  BY <1>1, <1>2 DEF EpochsWereGranted
<1>6. Granted(r, scope[r].slot, scope[r].epoch)'
  BY <1>2, <1>3, <1>5, SMTT(30) DEF Granted
<1>7. EpochsWereGranted'
  BY <1>2, <1>3, <1>4, <1>6, GrantStep, ZenonT(40)
<1>8. ScopeIsContinuous'
  BY <1>1, <1>2, <1>3 DEF ScopeIsContinuous, CheckOwner
<1> QED
  BY <1>7, <1>8 DEF OwnershipInv

\* A replica stops: it lists nothing and works on nothing.
LEMMA CrashStep ==
    ASSUME OwnershipInv, TypeOK', NEW r \in New, Crash(r)
    PROVE  OwnershipInv'
<1>1. TypeOK /\ ScopeIsContinuous
  BY DEF OwnershipInv
<1>2. /\ pass' = [pass EXCEPT ![r] = Idle] /\ scope' = [scope EXCEPT ![r] = NoScope]
      /\ held' = [held EXCEPT ![r] = [h \in Slots |-> 0]] /\ UNCHANGED slot
  BY SMTT(30) DEF Crash
<1>3. /\ DOMAIN pass'[r].plan = {} /\ \A q \in New \ {r} : pass'[q] = pass[q]
      /\ scope'[r].epoch = 0 /\ \A q \in New \ {r} : scope'[q] = scope[q]
      /\ \A h \in Slots : held'[r][h] = 0
      /\ \A q \in New \ {r} : held'[q] = held[q]
  BY <1>1, <1>2, ZenonT(40) DEF TypeOK, Idle, NoScope, Replicas
<1>4. \A h \in Slots : Moved(slot[h], slot'[h])
  BY <1>2 DEF Moved
<1>5. EpochsWereGranted'
  BY <1>3, <1>4, GrantStep, ZenonT(40)
<1>6. ScopeIsContinuous'
  BY <1>1, <1>2, <1>3 DEF ScopeIsContinuous, CheckOwner
<1> QED
  BY <1>5, <1>6 DEF OwnershipInv

\* Heartbeats, ticks, and claims of the previous build.
LEMMA OtherStep ==
    ASSUME Constants, OwnershipInv, TypeOK',
           \/ \E r \in Replicas : Heartbeat(r)
           \/ \E o \in Old, h \in Slots : OldClaim(o, h)
           \/ Tick
    PROVE  OwnershipInv'
<1>1. TypeOK
  BY DEF OwnershipInv
<1>2. \A r \in New, h \in Slots : held'[r][h] = held[r][h]
  BY <1>1, ZenonT(40) DEF Heartbeat, OldClaim, Tick, TypeOK, Constants, Replicas
<1>3. \A r \in New : pass'[r].plan = pass[r].plan
  BY <1>1, ZenonT(40) DEF Heartbeat, OldClaim, Tick, TypeOK
<1>4. \A h \in Slots : slot'[h].owner = slot[h].owner /\ slot'[h].epoch = slot[h].epoch
  <2>1. CASE slot' = slot
    BY <2>1
  <2>2. CASE slot' = [h \in Slots |-> [slot[h] EXCEPT !.until = Older(@)]]
    BY <1>1, <2>2 DEF TypeOK, RecordType
  <2> QED
    BY <2>1, <2>2, Zenon DEF Heartbeat, OldClaim, Tick
<1>5. scope' = scope
  BY Zenon DEF Heartbeat, OldClaim, Tick
<1>6. \A h \in Slots : Moved(slot[h], slot'[h])
  BY <1>4 DEF Moved
<1>7. EpochsWereGranted'
  BY <1>2, <1>3, <1>5, <1>6, GrantStep, ZenonT(40)
<1>8. ScopeIsContinuous'
  BY <1>4, <1>5, ScopesRest
<1> QED
  BY <1>7, <1>8 DEF OwnershipInv

\* OwnershipInv is inductive.
LEMMA OwnershipStep == Constants /\ OwnershipInv /\ [Next]_vars => OwnershipInv'
<1> SUFFICES ASSUME Constants, OwnershipInv, [Next]_vars PROVE OwnershipInv'
  OBVIOUS
<1>1. TypeOK /\ TypeOK'
  BY TypeStep, SMTT(30) DEF OwnershipInv
<1>2. CASE UNCHANGED vars
  BY <1>2, ZenonT(40) DEF vars, OwnershipInv, TypeOK, EpochsWereGranted, Granted, ScopeIsContinuous, CheckOwner
<1>3. CASE \E r \in New : ReadMembers(r) \/ \E refused, lost \in SUBSET Slots : Reserve(r, refused, lost)
  BY <1>1, <1>3, EarlyStep
<1>4. CASE \E r \in New, refused, lost \in SUBSET Slots : Claim(r, refused, lost)
  BY <1>1, <1>4, ClaimStep
<1>5. ASSUME NEW r \in New,
             Release(r) \/ \E refused, lost \in SUBSET Slots : Settle(r, refused, lost)
      PROVE  OwnershipInv'
  <2>1. GrantsKept(r)
    BY <1>1, <1>5, ReleaseType, SettleType, ZenonT(40)
  <2>2. UNCHANGED <<slot, held, scope>>
    BY <1>5, ZenonT(40) DEF Release, Settle
  <2> QED
    BY <1>1, <2>1, <2>2, PassStep
<1>6. CASE \E r \in New : Land(r) \/ Crash(r) \/ \E h \in Slots : OwnedScopes(r, h)
  BY <1>1, <1>6, LandStep, CrashStep, ScopeStep
<1>7. CASE \/ \E r \in Replicas : Heartbeat(r)
           \/ \E o \in Old, h \in Slots : OldClaim(o, h)
           \/ Tick
  BY <1>1, <1>7, OtherStep
<1> QED
  BY <1>2, <1>3, <1>4, <1>5, <1>6, <1>7, Zenon DEF Next

-----------------------------------------------------------------------------
(* Theorems *)

LEMMA OwnershipAlways == ASSUME Constants PROVE Spec => []OwnershipInv
  BY GrantInit, OwnershipStep, PTL DEF Spec

\* Whatever passes overlap, stall, lose replies or crash, every record and plan
\* keeps its shape and its bounds.
THEOREM TypeCorrect == ASSUME Constants PROVE Spec => []TypeOK
<1>1. OwnershipInv => TypeOK
  BY DEF OwnershipInv
<1> QED
  BY <1>1, OwnershipAlways, PTL

\* claim_shard.lua grants an epoch of a slot to one replica, for any number of
\* replicas and slots, any leases, and any lost replies and crashes.
THEOREM OneOwner == ASSUME Constants PROVE Spec => []EpochHasOneOwner
<1>1. OwnershipInv => EpochHasOneOwner
  BY DEF OwnershipInv, EpochsWereGranted, Granted, EpochHasOneOwner
<1> QED
  BY <1>1, OwnershipAlways, PTL

\* A scope that passes check_owner belongs to a replica that has owned the slot
\* without interruption since its worker took the scope.
THEOREM ContinuousScope == ASSUME Constants PROVE Spec => []ScopeIsContinuous
<1>1. OwnershipInv => ScopeIsContinuous
  BY DEF OwnershipInv
<1> QED
  BY <1>1, OwnershipAlways, PTL

-----------------------------------------------------------------------------
(* Leases: the invariant *)

\* How far the pass in flight got with a slot.
PlanState(p, h) == IF h \in DOMAIN p.plan THEN p.plan[h].state ELSE "none"

\* What replica r relies on of the record of a slot: it is r's while r may list
\* it, it ends no later than what the pass in flight would write, and it is
\* what that pass wrote if it was granted.
Lease(r, rec, left, p, state) ==
    /\ left > 0 => rec.owner = r /\ rec.until >= left
    /\ p.step # "idle" /\ rec.owner = r /\ rec.until > 0 => rec.until <= SlotTTL - p.age
    /\ state = "granted" /\ p.age < SlotTTL => rec.owner = r /\ rec.until = SlotTTL - p.age

\* The states that a slot has in a plan at a step.
Staged(p, state) ==
    /\ p.step = "idle" => state = "none"
    /\ p.step = "claim" => state \in {"none", "claim", "busy", "error"}
    /\ p.step = "settle" => state \in {"none", "granted", "release", "failed", "busy", "error"}

\* What replica r relies on of the guard record: it is as r reserved it until r
\* claims, and when r gives it back r does not have the slot.
Reservation(r, rec, guard, p, state) ==
    /\ p.age < SlotTTL /\ (\/ p.step = "claim" /\ state = "claim"
                           \/ p.step = "release" /\ state = "del")
       => guard.owner = r /\ guard.until = SlotTTL - p.age
    /\ state \in {"release", "del"} => rec.owner # r \/ rec.until <= 0

PairOK(r, rec, guard, left, p, state, spoilt) ==
    /\ Lease(r, rec, left, p, state) /\ Staged(p, state)
    /\ ~spoilt => Reservation(r, rec, guard, p, state)

\* Only replicas of this build have a lease on a slot, and its guard record
\* says the same for at least as long.
SlotOK(rec, guard, spoilt) ==
    /\ rec.until > 0 => rec.owner \in New
    /\ ~spoilt /\ rec.until > 0 => guard.owner = rec.owner /\ guard.until >= rec.until

LeaseInv ==
    \A h \in Slots :
       /\ SlotOK(slot[h], legacy[h], h \in spoiled)
       /\ \A r \in New : PairOK(r, slot[h], legacy[h], anchor[r][h], pass[r],
                                PlanState(pass[r], h), h \in spoiled)

-----------------------------------------------------------------------------
(* Leases: what a step does to a replica and a slot *)

LEMMA LeaseTypes ==
    ASSUME Constants, TypeOK, NEW r \in New, NEW h \in Slots
    PROVE  /\ slot[h].until \in Int /\ slot[h].until <= SlotTTL /\ legacy[h].until \in Int
           /\ slot[h] \in RecordType /\ legacy[h] \in RecordType
           /\ anchor[r][h] \in Int /\ pass[r].age \in Nat
<1>1. slot[h] \in RecordType /\ legacy[h] \in RecordType /\ anchor[r][h] \in Gone..SlotTTL
  BY Zenon DEF TypeOK
<1>2. pass[r].age \in 0..MaxAge
  BY PlanFacts, Zenon
<1> QED
  BY <1>1, <1>2 DEF RecordType, Constants, Gone

\* A pass that did not overrun the lease it wrote.
LEMMA StillLeased ==
    ASSUME Constants, NEW p, p.age \in Nat, ~Lapsed(p)
    PROVE  p.age < SlotTTL /\ SlotTTL - p.age > 0
BY DEF Lapsed, Constants

\* A record that somebody else may take is nobody's or lapsed.
LEMMA FreeRecord ==
    ASSUME Constants, NEW rec, rec.until \in Int, NEW q, NEW age \in Nat,
           ~Busy(rec, q, age), NEW r \in New, r # q
    PROVE  rec.owner # r \/ rec.until <= 0
BY DEF Busy, Constants, Replicas

\* The same for a caller whose clock is current.
LEMMA FreeNow ==
    ASSUME Constants, NEW rec, rec.until \in Int, NEW q, ~Busy(rec, q, 0), NEW r \in New, q # r
    PROVE  rec.owner # r \/ rec.until <= 0
BY DEF Busy, Constants, Replicas

\* Somebody else writes the guard record of a slot.
GuardWritten(r, rec, guard, left, p, state, spoilt, new) ==
    /\ PairOK(r, rec, guard, left, p, state, spoilt)
    /\ p.age \in Nat
    /\ spoilt \/ new = guard \/ guard.owner # r \/ guard.until <= 0

LEMMA OtherGuard ==
    ASSUME Constants, NEW r, NEW rec, NEW guard, NEW left, NEW p, NEW state, NEW spoilt,
           NEW new,
           GuardWritten(r, rec, guard, left, p, state, spoilt, new)
    PROVE  PairOK(r, rec, new, left, p, state, spoilt)
<1> USE DEF GuardWritten
<1> SUFFICES ASSUME ~spoilt PROVE Reservation(r, rec, new, p, state)
  BY Zenon DEF PairOK
<1>1. Reservation(r, rec, guard, p, state)
  BY Zenon DEF PairOK
<1>2. p.age < SlotTTL => ~ (SlotTTL - p.age <= 0)
  BY DEF Constants
<1>3. new = guard \/ guard.owner # r \/ guard.until <= 0
  BY Zenon
<1> QED
  BY <1>1, <1>2, <1>3, Zenon DEF Reservation

\* Somebody else takes the slot.
RecordTaken(r, rec, guard, left, p, state, spoilt, new) ==
    /\ PairOK(r, rec, guard, left, p, state, spoilt)
    /\ rec.until \in Int /\ left \in Int /\ p.age \in Nat
    /\ new = rec \/ (new.owner # r /\ (rec.owner # r \/ rec.until <= 0))

LEMMA OtherRecord ==
    ASSUME Constants, NEW r, NEW rec, NEW guard, NEW left, NEW p, NEW state, NEW spoilt,
           NEW new,
           RecordTaken(r, rec, guard, left, p, state, spoilt, new)
    PROVE  PairOK(r, new, guard, left, p, state, spoilt)
<1> USE DEF RecordTaken
<1> SUFFICES ASSUME new.owner # r, rec.owner # r \/ rec.until <= 0
             PROVE  PairOK(r, new, guard, left, p, state, spoilt)
  BY Zenon
<1>1. Lease(r, new, left, p, state)
  BY DEF PairOK, Lease, Constants
<1>2. ASSUME ~spoilt PROVE Reservation(r, new, guard, p, state)
  BY <1>2, Zenon DEF PairOK, Reservation
<1> QED
  BY <1>1, <1>2, Zenon DEF PairOK

\* A pass starts.
LEMMA OwnRead ==
    ASSUME Constants, NEW r, NEW rec, rec.until \in Int, rec.until <= SlotTTL, NEW guard,
           NEW left, NEW p, NEW state, NEW spoilt, PairOK(r, rec, guard, left, p, state, spoilt),
           NEW new, new.step = "reserve", new.age = 0, NEW stateNow, stateNow \in {"none", "claim"}
    PROVE  PairOK(r, rec, guard, left, new, stateNow, spoilt)
<1>1. Lease(r, rec, left, new, stateNow)
  BY DEF PairOK, Lease, Constants
<1>2. Staged(new, stateNow) /\ Reservation(r, rec, guard, new, stateNow)
  BY DEF Staged, Reservation
<1> QED
  BY <1>1, <1>2, Zenon DEF PairOK

\* A pass ends, or is cut short.
LEMMA OwnEnd ==
    ASSUME Constants, NEW r, NEW rec, NEW guard, NEW left, NEW p, NEW state, NEW spoilt,
           PairOK(r, rec, guard, left, p, state, spoilt), p.age \in Nat,
           NEW now \in Int, now <= 0 \/ now = left \/ (state = "granted" /\ now = SlotTTL - p.age)
    PROVE  PairOK(r, rec, guard, now, Idle, "none", spoilt)
<1>1. now > 0 => rec.owner = r /\ rec.until >= now
  BY DEF PairOK, Lease, Constants
<1>2. Idle.step = "idle"
  BY DEF Idle
<1> QED
  BY <1>1, <1>2 DEF PairOK, Lease, Staged, Reservation

\* A pass reserves the guard record of a slot.
PassReserves(r, rec, guard, left, p, state, spoilt, new, guardNow, stateNow) ==
    /\ PairOK(r, rec, guard, left, p, state, spoilt)
    /\ p.step = "reserve" /\ new.step = "claim" /\ new.age = p.age
    /\ stateNow \in {"none", "error", "busy", "claim"}
    /\ stateNow = "claim" => guardNow.owner = r /\ guardNow.until = SlotTTL - p.age

LEMMA OwnReserve ==
    ASSUME NEW r, NEW rec, NEW guard, NEW left, NEW p, NEW state, NEW spoilt,
           NEW new, NEW guardNow, NEW stateNow,
           PassReserves(r, rec, guard, left, p, state, spoilt, new, guardNow, stateNow)
    PROVE  PairOK(r, rec, guardNow, left, new, stateNow, spoilt)
<1> USE DEF PassReserves
<1>1. Lease(r, rec, left, new, stateNow)
  BY DEF PairOK, Lease
<1>2. Staged(new, stateNow) /\ Reservation(r, rec, guardNow, new, stateNow)
  BY DEF Staged, Reservation
<1> QED
  BY <1>1, <1>2, Zenon DEF PairOK

\* A pass claims a slot, is refused or does not learn the answer.
PassClaims(r, rec, guard, left, p, state, spoilt, new, recNow, stateNow) ==
    /\ PairOK(r, rec, guard, left, p, state, spoilt)
    /\ rec.until \in Int /\ left \in Int /\ p.age \in Nat
    /\ p.step = "claim" /\ new.step = "settle" /\ new.age = p.age
    /\ recNow = rec \/ (recNow.owner = r /\ recNow.until = SlotTTL - p.age)
    /\ \/ state # "claim" /\ stateNow = state
       \/ stateNow = "failed"
       \/ stateNow = "release" /\ recNow = rec /\ rec.owner # r
       \/ stateNow = "granted" /\ recNow.owner = r /\ recNow.until = SlotTTL - p.age

LEMMA OwnClaim ==
    ASSUME Constants, NEW r, NEW rec, NEW guard, NEW left, NEW p, NEW state, NEW spoilt,
           NEW new, NEW recNow, NEW stateNow,
           PassClaims(r, rec, guard, left, p, state, spoilt, new, recNow, stateNow)
    PROVE  PairOK(r, recNow, guard, left, new, stateNow, spoilt)
<1> USE DEF PassClaims
<1>1. Lease(r, rec, left, p, state) /\ state \in {"none", "claim", "busy", "error"}
  BY Zenon DEF PairOK, Staged
<1>2. stateNow \in {"none", "granted", "release", "failed", "busy", "error"}
  BY <1>1, Zenon
<1>3. Lease(r, recNow, left, new, stateNow)
  <2>1. left > 0 => recNow.owner = r /\ recNow.until >= left
    BY <1>1 DEF Lease, Constants
  <2>2. recNow.owner = r /\ recNow.until > 0 => recNow.until <= SlotTTL - p.age
    BY <1>1 DEF Lease, Constants
  <2>3. stateNow = "granted" => recNow.owner = r /\ recNow.until = SlotTTL - p.age
    BY <1>1
  <2> QED
    BY <2>1, <2>2, <2>3, Zenon DEF Lease
<1>4. Staged(new, stateNow) /\ Reservation(r, recNow, guard, new, stateNow)
  BY <1>1, <1>2 DEF Staged, Reservation
<1> QED
  BY <1>3, <1>4, Zenon DEF PairOK

\* A pass mirrors its grants and looks at its reservations.
PassSettles(r, rec, guard, left, p, state, spoilt, new, guardNow, spoiltNow, stateNow) ==
    /\ PairOK(r, rec, guard, left, p, state, spoilt)
    /\ p.step = "settle" /\ new.step = "release" /\ new.age = p.age
    /\ spoilt => spoiltNow
    /\ \/ stateNow = state /\ state \notin {"release", "failed"}
       \/ stateNow \in {"error", "drop", "busy"}
       \/ /\ stateNow = "del" /\ state = "release" /\ guardNow = guard
          /\ guard.owner = r /\ guard.until = SlotTTL - p.age

LEMMA OwnSettle ==
    ASSUME NEW r, NEW rec, NEW guard, NEW left, NEW p, NEW state, NEW spoilt,
           NEW new, NEW guardNow, NEW spoiltNow, NEW stateNow,
           PassSettles(r, rec, guard, left, p, state, spoilt, new, guardNow, spoiltNow, stateNow)
    PROVE  PairOK(r, rec, guardNow, left, new, stateNow, spoiltNow)
<1> USE DEF PassSettles
<1>1. Lease(r, rec, left, new, stateNow)
  BY DEF PairOK, Lease
<1>2. state # "del"
  BY DEF PairOK, Staged
<1>3. Staged(new, stateNow)
  BY DEF Staged
<1>4. ASSUME ~spoiltNow PROVE Reservation(r, rec, guardNow, new, stateNow)
  BY <1>2, <1>4 DEF PairOK, Reservation
<1> QED
  BY <1>1, <1>3, <1>4, Zenon DEF PairOK

\* A pass has given its reservations back.
PassReleases(r, rec, guard, left, p, state, spoilt, new) ==
    /\ PairOK(r, rec, guard, left, p, state, spoilt)
    /\ p.step = "release" /\ new.step = "land" /\ new.age = p.age

LEMMA OwnRelease ==
    ASSUME NEW r, NEW rec, NEW guard, NEW left, NEW p, NEW state, NEW spoilt,
           NEW new, NEW guardNow,
           PassReleases(r, rec, guard, left, p, state, spoilt, new)
    PROVE  PairOK(r, rec, guardNow, left, new, state, spoilt)
<1> USE DEF PassReleases
<1>1. Lease(r, rec, left, new, state)
  BY DEF PairOK, Lease
<1>2. Staged(new, state)
  BY DEF Staged
<1>3. ASSUME ~spoilt PROVE Reservation(r, rec, guardNow, new, state)
  BY <1>3 DEF PairOK, Reservation
<1> QED
  BY <1>1, <1>2, <1>3, Zenon DEF PairOK

\* Time passes.
PairAged(r, rec, guard, left, p, state, spoilt, new, recNow, guardNow) ==
    /\ PairOK(r, rec, guard, left, p, state, spoilt)
    /\ rec.until \in Int /\ guard.until \in Int /\ left \in Int /\ p.age \in Nat
    /\ recNow.owner = rec.owner /\ recNow.until = Older(rec.until)
    /\ guardNow.owner = guard.owner /\ guardNow.until = Older(guard.until)
    /\ new.step = p.step /\ new.age = IF p.step = "idle" THEN p.age ELSE p.age + 1

LEMMA PairAges ==
    ASSUME Constants, NEW r, NEW rec, NEW guard, NEW left, NEW p, NEW state, NEW spoilt,
           NEW new, NEW recNow, NEW guardNow,
           PairAged(r, rec, guard, left, p, state, spoilt, new, recNow, guardNow)
    PROVE  PairOK(r, recNow, guardNow, Older(left), new, state, spoilt)
<1> USE DEF PairAged
<1>1. Gone \in Int /\ Gone <= 0 /\ SlotTTL \in Nat
  BY DEF Constants, Gone
<1>2. \A t \in Int : /\ Older(t) > 0 => t > 0
                     /\ t > 0 => Older(t) = t - 1
                     /\ t <= 0 => Older(t) <= 0
  BY <1>1 DEF Older
<1>3. Lease(r, rec, left, p, state) /\ Staged(p, state)
  BY Zenon DEF PairOK
<1>4. Lease(r, recNow, Older(left), new, state)
  <2>1. Older(left) > 0 => recNow.owner = r /\ recNow.until >= Older(left)
    BY <1>2, <1>3, SMTT(30) DEF Lease
  <2>2. new.step # "idle" /\ recNow.owner = r /\ recNow.until > 0 => recNow.until <= SlotTTL - new.age
    BY <1>1, <1>2, <1>3, SMTT(30) DEF Lease
  <2>3. state = "granted" /\ new.age < SlotTTL => recNow.owner = r /\ recNow.until = SlotTTL - new.age
    BY <1>1, <1>2, <1>3 DEF Lease, Staged
  <2> QED
    BY <2>1, <2>2, <2>3, ZenonT(40) DEF Lease
<1>5. Staged(new, state)
  BY <1>3, Zenon DEF Staged
<1>6. ASSUME ~spoilt PROVE Reservation(r, recNow, guardNow, new, state)
  <2>1. Reservation(r, rec, guard, p, state)
    BY <1>6, Zenon DEF PairOK
  <2> QED
    BY <1>1, <1>2, <2>1 DEF Reservation
<1> QED
  BY <1>4, <1>5, <1>6, Zenon DEF PairOK

LEMMA SlotAges ==
    ASSUME Constants, NEW rec, rec.until \in Int, NEW guard, guard.until \in Int, NEW spoilt,
           SlotOK(rec, guard, spoilt),
           NEW recNow, recNow.owner = rec.owner, recNow.until = Older(rec.until),
           NEW guardNow, guardNow.owner = guard.owner, guardNow.until = Older(guard.until)
    PROVE  SlotOK(recNow, guardNow, spoilt)
<1>1. Gone \in Int /\ Gone <= 0
  BY DEF Constants, Gone
<1> QED
  BY <1>1 DEF SlotOK, Older

-----------------------------------------------------------------------------
(* Leases: every step keeps the invariant *)

\* The fields of a pass that takes its next step.
LEMMA PassFields ==
    ASSUME TypeOK, NEW r \in New, NEW step, NEW plan,
           pass' = [pass EXCEPT ![r].step = step, ![r].plan = plan]
    PROVE  /\ pass'[r].step = step /\ pass'[r].age = pass[r].age /\ pass'[r].plan = plan
           /\ \A q \in New \ {r} : pass'[q] = pass[q]
<1>1. pass \in [New -> [step : Steps, age : 0..MaxAge, plan : PlanType]]
  BY Zenon DEF TypeOK
<1> QED
  BY <1>1

\* A step of replica r's pass: what it has to show of a slot.
LEMMA LeaseStep ==
    ASSUME LeaseInv, NEW r \in New, \A q \in New \ {r} : pass'[q] = pass[q],
           \A h \in Slots : SlotOK(slot'[h], legacy'[h], h \in spoiled'),
           \A h \in Slots :
              PairOK(r, slot'[h], legacy'[h], anchor'[r][h], pass'[r],
                     PlanState(pass'[r], h), h \in spoiled'),
           \A h \in Slots, q \in New \ {r} :
              PairOK(q, slot'[h], legacy'[h], anchor'[q][h], pass[q],
                     PlanState(pass[q], h), h \in spoiled')
    PROVE  LeaseInv'
BY Zenon DEF LeaseInv

LEMMA LeaseInit == Constants /\ Init => LeaseInv
<1> SUFFICES ASSUME Constants, Init PROVE LeaseInv
  OBVIOUS
<1>1. Unowned.until <= 0 /\ ~ (Unowned.until > 0) /\ ~ (Gone > 0) /\ Idle.step = "idle"
  BY DEF Unowned, Record, Gone, Constants, Idle
<1>2. \A spoilt :
         /\ SlotOK(Unowned, Unowned, spoilt)
         /\ \A r \in New : PairOK(r, Unowned, Unowned, Gone, Idle, "none", spoilt)
  BY <1>1 DEF SlotOK, PairOK, Lease, Staged, Reservation
<1>3. \A h : PlanState(Idle, h) = "none"
  BY DEF PlanState, Idle
<1>4. ASSUME NEW h \in Slots
      PROVE  /\ slot[h] = Unowned /\ legacy[h] = Unowned
             /\ \A r \in New : anchor[r][h] = Gone /\ pass[r] = Idle
  BY Zenon DEF Init
<1> QED
  BY <1>2, <1>3, <1>4, Zenon DEF LeaseInv

LEMMA QuietLease ==
    ASSUME LeaseInv, UNCHANGED <<slot, legacy, pass, anchor, spoiled>>
    PROVE  LeaseInv'
BY Zenon DEF LeaseInv

LEMMA ReadLease ==
    ASSUME Constants, TypeOK, LeaseInv, NEW r \in New, ReadMembers(r)
    PROVE  LeaseInv'
<1>1. PICK mine : /\ pass' = [pass EXCEPT ![r] = [step |-> "reserve", age |-> 0,
                                                 plan |-> [h \in mine |-> Todo("claim")]]]
                  /\ UNCHANGED <<slot, legacy, anchor, spoiled>>
  BY Zenon DEF ReadMembers
<1>2. pass'[r] = [step |-> "reserve", age |-> 0, plan |-> [h \in mine |-> Todo("claim")]]
      /\ \A q \in New \ {r} : pass'[q] = pass[q]
  BY <1>1, Zenon DEF TypeOK
<1>3. pass'[r].step = "reserve" /\ pass'[r].age = 0
  BY <1>2
<1>4. \A h : PlanState(pass'[r], h) \in {"none", "claim"}
  BY <1>2 DEF PlanState, Todo
<1>5. ASSUME NEW h \in Slots
      PROVE  PairOK(r, slot[h], legacy[h], anchor[r][h], pass'[r], PlanState(pass'[r], h), h \in spoiled)
  <2>1. PairOK(r, slot[h], legacy[h], anchor[r][h], pass[r], PlanState(pass[r], h), h \in spoiled)
    BY Zenon DEF LeaseInv
  <2>2. slot[h].until \in Int /\ slot[h].until <= SlotTTL
    BY LeaseTypes, Zenon
  <2> QED
    BY <1>3, <1>4, <2>1, <2>2, OwnRead, Zenon
<1> QED
  BY <1>1, <1>2, <1>5, LeaseStep, Zenon DEF LeaseInv

\* A pass ends or is cut short, and leaves what it knows of its leases.
LEMMA EndLease ==
    ASSUME Constants, TypeOK, TypeOK', LeaseInv, NEW r \in New, Land(r) \/ Crash(r)
    PROVE  LeaseInv'
<1>1. /\ pass' = [pass EXCEPT ![r] = Idle] /\ UNCHANGED <<slot, legacy, spoiled>>
      /\ \A q \in New \ {r} : anchor'[q] = anchor[q]
  BY Zenon DEF Land, Crash, TypeOK
<1>2. pass'[r] = Idle /\ \A q \in New \ {r} : pass'[q] = pass[q]
  BY <1>1, Zenon DEF TypeOK
<1>3. \A h : PlanState(Idle, h) = "none"
  BY DEF PlanState, Idle
<1>4. ASSUME NEW h \in Slots
      PROVE  PairOK(r, slot[h], legacy[h], anchor'[r][h], Idle, "none", h \in spoiled)
  <2>1. PairOK(r, slot[h], legacy[h], anchor[r][h], pass[r], PlanState(pass[r], h), h \in spoiled)
    BY Zenon DEF LeaseInv
  <2>2. pass[r].age \in Nat /\ anchor'[r][h] \in Int
    <3>1. anchor'[r][h] \in Gone..SlotTTL
      BY DEF TypeOK
    <3> QED
      BY <3>1, LeaseTypes DEF Gone, Constants
  <2>3. Gone <= 0
    BY DEF Gone, Constants
  <2>4. \/ anchor'[r][h] = Gone \/ anchor'[r][h] = anchor[r][h]
        \/ PlanState(pass[r], h) = "granted" /\ anchor'[r][h] = SlotTTL - pass[r].age
    <3>1. CASE Crash(r)
      BY <3>1, Zenon DEF Crash, TypeOK
    <3>2. CASE Land(r)
      BY <3>2, Zenon DEF Land, TypeOK, PlanState
    <3> QED
      BY <3>1, <3>2, Zenon
  <2> QED
    BY <2>1, <2>2, <2>3, <2>4, OwnEnd, Zenon
<1>5. ASSUME NEW h \in Slots, NEW q \in New \ {r}
      PROVE  PairOK(q, slot[h], legacy[h], anchor'[q][h], pass[q], PlanState(pass[q], h), h \in spoiled)
  BY <1>1, Zenon DEF LeaseInv
<1>6. \A h \in Slots : SlotOK(slot[h], legacy[h], h \in spoiled)
  BY Zenon DEF LeaseInv
<1>7. \A h \in Slots : PairOK(r, slot'[h], legacy'[h], anchor'[r][h], pass'[r],
                              PlanState(pass'[r], h), h \in spoiled')
  BY <1>1, <1>2, <1>3, <1>4, Zenon
<1>8. \A h \in Slots, q \in New \ {r} :
         PairOK(q, slot'[h], legacy'[h], anchor'[q][h], pass[q], PlanState(pass[q], h), h \in spoiled')
  BY <1>1, <1>5, Zenon
<1>9. \A h \in Slots : SlotOK(slot'[h], legacy'[h], h \in spoiled')
  BY <1>1, <1>6, Zenon
<1> QED
  BY <1>2, <1>7, <1>8, <1>9, LeaseStep, Zenon

\* The pair of a replica and a slot, and the types that the lemmas ask for.
LEMMA PairFacts ==
    ASSUME Constants, TypeOK, LeaseInv, NEW r \in New, NEW h \in Slots
    PROVE  /\ PairOK(r, slot[h], legacy[h], anchor[r][h], pass[r], PlanState(pass[r], h), h \in spoiled)
           /\ SlotOK(slot[h], legacy[h], h \in spoiled)
           /\ slot[h].until \in Int /\ legacy[h].until \in Int
           /\ anchor[r][h] \in Int /\ pass[r].age \in Nat
BY LeaseTypes, Zenon DEF LeaseInv

LEMMA ReserveLease ==
    ASSUME Constants, TypeOK, LeaseInv, NEW r \in New, NEW refused, NEW lost, Reserve(r, refused, lost)
    PROVE  LeaseInv'
<1> DEFINE p == pass[r]
           asked == DOMAIN p.plan
           After(h) == IF h \in refused \cup lost THEN "error"
                       ELSE IF Busy(legacy[h], r, p.age) THEN "busy" ELSE "claim"
           plan == [h \in asked |-> Todo(After(h))]
<1>1. /\ pass' = [pass EXCEPT ![r].step = "claim", ![r].plan = plan]
      /\ UNCHANGED <<slot, anchor, spoiled>> /\ p.step = "reserve"
      /\ legacy' = [h \in Slots |-> IF h \in asked \ refused
                                    THEN ReserveLegacySlot(legacy[h], r, p.age) ELSE legacy[h]]
  BY Zenon DEF Reserve
<1>2. \A h : h \in asked => plan[h].state = After(h)
  BY Zenon DEF Todo
<1> HIDE DEF plan
<1>3. /\ pass'[r].step = "claim" /\ pass'[r].age = p.age /\ pass'[r].plan = plan
      /\ \A q \in New \ {r} : pass'[q] = pass[q]
  BY <1>1, PassFields, Zenon
<1>4. DOMAIN plan = asked
  BY Zenon DEF plan
<1>5. ASSUME NEW h \in Slots
      PROVE  \/ legacy'[h] = legacy[h]
             \/ /\ ~Busy(legacy[h], r, p.age)
                /\ legacy'[h].owner = r /\ legacy'[h].until = SlotTTL - p.age
  <2>1. \/ legacy'[h] = legacy[h]
        \/ ~Busy(legacy[h], r, p.age) /\ legacy'[h] = Record(r, legacy[h].epoch, SlotTTL - p.age)
    BY <1>1, Zenon DEF ReserveLegacySlot
  <2> QED
    BY <2>1 DEF Record
<1>6. ASSUME NEW h \in Slots
      PROVE  /\ PlanState(pass'[r], h) \in {"none", "error", "busy", "claim"}
             /\ PlanState(pass'[r], h) = "claim" =>
                   legacy'[h].owner = r /\ legacy'[h].until = SlotTTL - p.age
  <2>1. CASE h \notin asked
    <3>1. PlanState(pass'[r], h) = "none"
      BY <1>3, <1>4, <2>1, Zenon DEF PlanState
    <3> QED
      BY <3>1
  <2>2. CASE h \in asked
    <3>1. PlanState(pass'[r], h) = After(h)
      BY <1>2, <1>3, <1>4, <2>2, Zenon DEF PlanState
    <3>2. After(h) = "claim" => h \in asked \ refused /\ ~Busy(legacy[h], r, p.age)
      BY <2>2, Zenon
    <3>3. After(h) \in {"error", "busy", "claim"}
      BY Zenon
    <3> HIDE DEF After
    <3>4. After(h) = "claim" => legacy'[h] = Record(r, legacy[h].epoch, SlotTTL - p.age)
      BY <1>1, <3>2, ZenonT(40) DEF ReserveLegacySlot
    <3> QED
      BY <3>1, <3>3, <3>4 DEF Record
  <2> QED
    BY <2>1, <2>2, Zenon
<1> HIDE DEF After, asked
<1>7. ASSUME NEW h \in Slots
      PROVE  PairOK(r, slot[h], legacy'[h], anchor[r][h], pass'[r], PlanState(pass'[r], h), h \in spoiled)
  <2>1. PairOK(r, slot[h], legacy[h], anchor[r][h], p, PlanState(p, h), h \in spoiled)
    BY PairFacts, Zenon
  <2>2. /\ PlanState(pass'[r], h) \in {"none", "error", "busy", "claim"}
        /\ PlanState(pass'[r], h) = "claim" =>
              legacy'[h].owner = r /\ legacy'[h].until = SlotTTL - p.age
    BY <1>6, Zenon
  <2>3. p.step = "reserve" /\ pass'[r].step = "claim" /\ pass'[r].age = p.age
    BY <1>1, <1>3, ZenonT(40)
  <2>4. PassReserves(r, slot[h], legacy[h], anchor[r][h], p, PlanState(p, h), h \in spoiled,
                     pass'[r], legacy'[h], PlanState(pass'[r], h))
    BY <2>1, <2>2, <2>3, Zenon DEF PassReserves
  <2> QED
    BY <2>4, OwnReserve, Zenon
<1>8. ASSUME NEW h \in Slots, NEW q \in New \ {r}
      PROVE  PairOK(q, slot[h], legacy'[h], anchor[q][h], pass[q], PlanState(pass[q], h), h \in spoiled)
  <2>1. legacy'[h] = legacy[h] \/ legacy[h].owner # q \/ legacy[h].until <= 0
    <3>1. legacy[h].until \in Int /\ p.age \in Nat
      BY PairFacts, Zenon
    <3> QED
      BY <1>5, <3>1, FreeRecord, Zenon
  <2>2. /\ PairOK(q, slot[h], legacy[h], anchor[q][h], pass[q], PlanState(pass[q], h), h \in spoiled)
        /\ pass[q].age \in Nat
    BY PairFacts, Zenon
  <2>3. GuardWritten(q, slot[h], legacy[h], anchor[q][h], pass[q], PlanState(pass[q], h), h \in spoiled, legacy'[h])
    BY <2>1, <2>2, Zenon DEF GuardWritten
  <2> QED
    BY <2>3, OtherGuard, Zenon
<1>9. ASSUME NEW h \in Slots
      PROVE  SlotOK(slot[h], legacy'[h], h \in spoiled)
  <2>1. /\ SlotOK(slot[h], legacy[h], h \in spoiled)
        /\ Lease(r, slot[h], anchor[r][h], p, PlanState(p, h))
        /\ slot[h].until \in Int /\ legacy[h].until \in Int /\ p.age \in Nat /\ p.step # "idle"
    BY <1>1, PairFacts, Zenon DEF PairOK
  <2>2. CASE legacy'[h] = legacy[h]
    BY <2>1, <2>2, Zenon
  <2>3. CASE /\ ~Busy(legacy[h], r, p.age)
             /\ legacy'[h].owner = r /\ legacy'[h].until = SlotTTL - p.age
    <3>1. slot[h].until > 0 /\ h \notin spoiled => slot[h].owner = r
      <4> SUFFICES ASSUME slot[h].until > 0, h \notin spoiled, slot[h].owner # r
                   PROVE  FALSE
        BY Zenon
      <4>1. /\ slot[h].owner \in New /\ legacy[h].owner = slot[h].owner
            /\ legacy[h].until >= slot[h].until
        BY <2>1, Zenon DEF SlotOK
      <4>2. legacy[h].until <= 0
        BY <2>1, <2>3, <4>1, FreeRecord, Zenon
      <4>3. slot[h].until \in Int /\ legacy[h].until \in Int
        BY <2>1, Zenon
      <4> QED
        BY <4>1, <4>2, <4>3
    <3>2. slot[h].until > 0 /\ h \notin spoiled => SlotTTL - p.age >= slot[h].until
      BY <2>1, <3>1, ZenonT(40) DEF Lease, Constants
    <3> QED
      BY <2>1, <2>3, <3>1, <3>2, ZenonT(40) DEF SlotOK
  <2> QED
    BY <1>5, <2>2, <2>3, Zenon
<1> QED
  BY <1>1, <1>3, <1>7, <1>8, <1>9, LeaseStep, Zenon

\* A record that claim_shard.lua writes.
LEMMA ClaimedRecord ==
    ASSUME NEW rec, NEW r, NEW age
    PROVE  \/ ClaimShard(rec, r, age) = rec /\ Busy(rec, r, age)
           \/ /\ ~Busy(rec, r, age) /\ ClaimShard(rec, r, age).owner = r
              /\ ClaimShard(rec, r, age).until = SlotTTL - age
<1>1. ~Busy(rec, r, age) => \E e : ClaimShard(rec, r, age) = Record(r, e, SlotTTL - age)
  BY Zenon DEF ClaimShard
<1>2. Busy(rec, r, age) => ClaimShard(rec, r, age) = rec
  BY Zenon DEF ClaimShard
<1>3. \A e : Record(r, e, SlotTTL - age).owner = r /\ Record(r, e, SlotTTL - age).until = SlotTTL - age
  BY DEF Record
<1> QED
  BY <1>1, <1>2, <1>3, Zenon

LEMMA ClaimLease ==
    ASSUME Constants, TypeOK, LeaseInv, NEW r \in New, NEW refused, NEW lost, Claim(r, refused, lost)
    PROVE  LeaseInv'
<1> DEFINE p == pass[r]
           asked == {h \in DOMAIN p.plan : p.plan[h].state = "claim"}
           ran == asked \ refused
           After(h) == IF h \in refused \cup lost THEN Todo("failed")
                       ELSE IF Busy(slot[h], r, p.age) THEN Todo("release")
                       ELSE [state |-> "granted", epoch |-> ClaimShard(slot[h], r, p.age).epoch]
           plan == [h \in DOMAIN p.plan |-> IF h \in asked THEN After(h) ELSE p.plan[h]]
           Taken(h) == /\ ~Busy(slot[h], r, p.age)
                       /\ slot'[h].owner = r /\ slot'[h].until = SlotTTL - p.age
<1>1. /\ pass' = [pass EXCEPT ![r].step = "settle", ![r].plan = plan]
      /\ UNCHANGED <<legacy, anchor, spoiled>> /\ p.step = "claim"
      /\ slot' = [h \in Slots |-> IF h \in ran THEN ClaimShard(slot[h], r, p.age) ELSE slot[h]]
      /\ refused \cup lost \subseteq asked
  BY Zenon DEF Claim
<1>2. /\ DOMAIN plan = DOMAIN p.plan
      /\ \A h \in DOMAIN p.plan : plan[h] = IF h \in asked THEN After(h) ELSE p.plan[h]
  BY Zenon
<1> HIDE DEF plan
<1>3. /\ pass'[r].step = "settle" /\ pass'[r].age = p.age /\ pass'[r].plan = plan
      /\ \A q \in New \ {r} : pass'[q] = pass[q]
  BY <1>1, PassFields, Zenon
<1>4. \A h \in Slots : /\ slot'[h] = slot[h] \/ (PlanState(p, h) = "claim" /\ Taken(h))
                       /\ h \in ran /\ ~Busy(slot[h], r, p.age) => Taken(h)
                       /\ Busy(slot[h], r, p.age) => slot'[h] = slot[h]
  <2> SUFFICES ASSUME NEW h \in Slots
               PROVE  /\ slot'[h] = slot[h] \/ (PlanState(p, h) = "claim" /\ Taken(h))
                      /\ h \in ran /\ ~Busy(slot[h], r, p.age) => Taken(h)
                      /\ Busy(slot[h], r, p.age) => slot'[h] = slot[h]
    BY Zenon
  <2>1. /\ h \in ran => slot'[h] = ClaimShard(slot[h], r, p.age) /\ PlanState(p, h) = "claim"
        /\ h \notin ran => slot'[h] = slot[h]
    BY <1>1, Zenon DEF PlanState
  <2>2. \/ ClaimShard(slot[h], r, p.age) = slot[h] /\ Busy(slot[h], r, p.age)
        \/ /\ ~Busy(slot[h], r, p.age) /\ ClaimShard(slot[h], r, p.age).owner = r
           /\ ClaimShard(slot[h], r, p.age).until = SlotTTL - p.age
    BY ClaimedRecord
  <2> QED
    BY <2>1, <2>2, Zenon
<1> HIDE DEF Taken
<1>5. ASSUME NEW h \in Slots
      PROVE  LET now == PlanState(pass'[r], h)
             IN  \/ PlanState(p, h) # "claim" /\ now = PlanState(p, h)
                 \/ now = "failed"
                 \/ now = "release" /\ slot'[h] = slot[h] /\ slot[h].owner # r
                 \/ now = "granted" /\ Taken(h)
  <2>1. CASE h \notin asked
    <3>1. PlanState(pass'[r], h) = PlanState(p, h) /\ PlanState(p, h) # "claim"
      <4>1. h \notin DOMAIN p.plan => PlanState(p, h) = "none" /\ PlanState(pass'[r], h) = "none"
        BY <1>2, <1>3, Zenon DEF PlanState
      <4>2. h \in DOMAIN p.plan => /\ PlanState(p, h) = p.plan[h].state /\ p.plan[h].state # "claim"
                                   /\ PlanState(pass'[r], h) = p.plan[h].state
        BY <1>2, <1>3, <2>1, Zenon DEF PlanState
      <4> QED
        BY <4>1, <4>2
    <3> QED
      BY <3>1, ZenonT(40)
  <2>2. CASE h \in asked
    <3>1. PlanState(pass'[r], h) = After(h).state
      BY <1>2, <1>3, <2>2, Zenon DEF PlanState
    <3>2. CASE h \in refused \cup lost
      <4>1. After(h).state = "failed"
        BY <3>2 DEF Todo
      <4> QED
        BY <3>1, <4>1, Zenon
    <3>3. CASE h \notin refused \cup lost /\ Busy(slot[h], r, p.age)
      <4>1. After(h).state = "release" /\ slot[h].owner # r
        BY <3>3 DEF Todo, Busy
      <4> QED
        BY <1>4, <3>1, <3>3, <4>1, Zenon
    <3>4. CASE h \notin refused \cup lost /\ ~Busy(slot[h], r, p.age)
      <4>1. After(h).state = "granted"
        BY <3>4
      <4>2. h \in ran
        BY <2>2, <3>4, ZenonT(40)
      <4> QED
        BY <1>4, <3>1, <3>4, <4>1, <4>2, Zenon
    <3> QED
      BY <3>2, <3>3, <3>4, Zenon
  <2> QED
    BY <2>1, <2>2, Zenon
<1> HIDE DEF After, asked, ran
<1>6. ASSUME NEW h \in Slots
      PROVE  PairOK(r, slot'[h], legacy[h], anchor[r][h], pass'[r], PlanState(pass'[r], h), h \in spoiled)
  <2>1. /\ PairOK(r, slot[h], legacy[h], anchor[r][h], p, PlanState(p, h), h \in spoiled)
        /\ slot[h].until \in Int /\ anchor[r][h] \in Int /\ p.age \in Nat
    BY PairFacts, Zenon
  <2>2. slot'[h] = slot[h] \/ (slot'[h].owner = r /\ slot'[h].until = SlotTTL - p.age)
    BY <1>4, Zenon DEF Taken
  <2>3. \/ PlanState(p, h) # "claim" /\ PlanState(pass'[r], h) = PlanState(p, h)
        \/ PlanState(pass'[r], h) = "failed"
        \/ PlanState(pass'[r], h) = "release" /\ slot'[h] = slot[h] /\ slot[h].owner # r
        \/ /\ PlanState(pass'[r], h) = "granted"
           /\ slot'[h].owner = r /\ slot'[h].until = SlotTTL - p.age
    BY <1>5, Zenon DEF Taken
  <2>4. p.step = "claim" /\ pass'[r].step = "settle" /\ pass'[r].age = p.age
    BY <1>1, <1>3, ZenonT(40)
  <2>5. PassClaims(r, slot[h], legacy[h], anchor[r][h], p, PlanState(p, h), h \in spoiled,
                   pass'[r], slot'[h], PlanState(pass'[r], h))
    BY <2>1, <2>2, <2>3, <2>4, Zenon DEF PassClaims
  <2> QED
    BY <2>5, OwnClaim, Zenon
<1>7. ASSUME NEW h \in Slots, NEW q \in New \ {r}
      PROVE  PairOK(q, slot'[h], legacy[h], anchor[q][h], pass[q], PlanState(pass[q], h), h \in spoiled)
  <2>1. /\ PairOK(q, slot[h], legacy[h], anchor[q][h], pass[q], PlanState(pass[q], h), h \in spoiled)
        /\ slot[h].until \in Int /\ anchor[q][h] \in Int /\ pass[q].age \in Nat /\ p.age \in Nat
    BY PairFacts, Zenon
  <2>2. Taken(h) => slot'[h].owner # q /\ (slot[h].owner # q \/ slot[h].until <= 0)
    BY <2>1, FreeRecord, Zenon DEF Taken
  <2>3. slot'[h] = slot[h] \/ (slot'[h].owner # q /\ (slot[h].owner # q \/ slot[h].until <= 0))
    BY <1>4, <2>2, Zenon
  <2>4. RecordTaken(q, slot[h], legacy[h], anchor[q][h], pass[q], PlanState(pass[q], h), h \in spoiled, slot'[h])
    BY <2>1, <2>3, Zenon DEF RecordTaken
  <2> QED
    BY <2>4, OtherRecord, Zenon
<1>8. ASSUME NEW h \in Slots
      PROVE  SlotOK(slot'[h], legacy[h], h \in spoiled)
  <2>1. /\ SlotOK(slot[h], legacy[h], h \in spoiled) /\ p.age \in Nat
        /\ h \notin spoiled => Reservation(r, slot[h], legacy[h], p, PlanState(p, h))
    BY PairFacts, Zenon DEF PairOK
  <2>2. CASE slot'[h] = slot[h]
    BY <2>1, <2>2, Zenon
  <2>3. CASE PlanState(p, h) = "claim" /\ Taken(h)
    <3>1. slot'[h].owner = r /\ slot'[h].until = SlotTTL - p.age
      BY <2>3, Zenon DEF Taken
    <3>2. slot'[h].until > 0 /\ h \notin spoiled => legacy[h].owner = r /\ legacy[h].until = SlotTTL - p.age
      <4>1. SlotTTL - p.age > 0 => p.age < SlotTTL
        BY <2>1 DEF Constants
      <4>2. p.step = "claim" /\ PlanState(p, h) = "claim"
        BY <1>1, <2>3, Zenon
      <4> QED
        BY <2>1, <3>1, <4>1, <4>2, Zenon DEF Reservation
    <3>3. SlotTTL - p.age >= SlotTTL - p.age
      BY <2>1 DEF Constants
    <3> QED
      BY <3>1, <3>2, <3>3, Zenon DEF SlotOK
  <2> QED
    BY <1>4, <2>2, <2>3, Zenon
<1> QED
  BY <1>1, <1>3, <1>6, <1>7, <1>8, LeaseStep, Zenon

LEMMA SettleLease ==
    ASSUME Constants, TypeOK, LeaseInv, NEW r \in New, NEW refused, NEW lost, Settle(r, refused, lost)
    PROVE  LeaseInv'
<1> DEFINE p == pass[r]
           asked == {h \in DOMAIN p.plan : p.plan[h].state = "granted"}
           Ours(h) == legacy[h].owner = r /\ legacy[h].until = SlotTTL - p.age
           After(h) ==
               IF h \in refused \cup lost THEN Todo("error")
               ELSE IF p.plan[h].state \in {"release", "failed"}
               THEN Todo(IF Ours(h) THEN IF p.plan[h].state = "failed" THEN "drop" ELSE "del" ELSE
                         IF p.plan[h].state = "failed" THEN "error" ELSE "busy")
               ELSE p.plan[h]
           plan == [h \in DOMAIN p.plan |-> After(h)]
           Mirrored(h) == /\ PlanState(p, h) = "granted" /\ (Lapsed(p) => h \in spoiled')
                          /\ legacy'[h].owner = r /\ legacy'[h].until = SlotTTL - p.age
<1>1. /\ pass' = [pass EXCEPT ![r].step = "release", ![r].plan = plan]
      /\ UNCHANGED <<slot, anchor>> /\ p.step = "settle"
      /\ legacy' = [h \in Slots |-> IF h \in asked \ refused
                                    THEN Record(r, p.plan[h].epoch, SlotTTL - p.age) ELSE legacy[h]]
      /\ spoiled' = IF Lapsed(p) THEN spoiled \cup asked ELSE spoiled
      /\ refused \cup lost \subseteq asked
  BY Zenon DEF Settle
<1>2. DOMAIN plan = DOMAIN p.plan /\ \A h \in DOMAIN p.plan : plan[h] = After(h)
  BY Zenon
<1> HIDE DEF plan
<1>3. /\ pass'[r].step = "release" /\ pass'[r].age = p.age /\ pass'[r].plan = plan
      /\ \A q \in New \ {r} : pass'[q] = pass[q]
  BY <1>1, PassFields, Zenon
<1>4. ASSUME NEW h \in Slots
      PROVE  (legacy'[h] = legacy[h] \/ Mirrored(h)) /\ (h \in spoiled => h \in spoiled')
  <2>1. h \notin asked => legacy'[h] = legacy[h]
    BY <1>1, Zenon
  <2>2. h \in asked =>
           legacy'[h] = legacy[h] \/ legacy'[h] = Record(r, p.plan[h].epoch, SlotTTL - p.age)
    BY <1>1, Zenon
  <2>3. \A e : Record(r, e, SlotTTL - p.age).owner = r /\ Record(r, e, SlotTTL - p.age).until = SlotTTL - p.age
    BY DEF Record
  <2>4. h \in asked => PlanState(p, h) = "granted" /\ (Lapsed(p) => h \in spoiled')
    BY <1>1, Zenon DEF PlanState
  <2>5. h \in spoiled => h \in spoiled'
    BY <1>1, Zenon
  <2> QED
    BY <2>1, <2>2, <2>3, <2>4, <2>5, Zenon
<1>5. ASSUME NEW h \in Slots
      PROVE  LET now == PlanState(pass'[r], h)
                 was == PlanState(p, h)
             IN  \/ now = was /\ was \notin {"release", "failed"}
                 \/ now \in {"error", "drop", "busy"}
                 \/ now = "del" /\ was = "release" /\ legacy'[h] = legacy[h] /\ Ours(h)
  <2>1. CASE h \notin DOMAIN p.plan
    <3>1. PlanState(p, h) = "none" /\ PlanState(pass'[r], h) = "none"
      BY <1>2, <1>3, <2>1, ZenonT(40) DEF PlanState
    <3> QED
      BY <3>1
  <2>2. CASE h \in DOMAIN p.plan
    <3>1. PlanState(p, h) = p.plan[h].state /\ PlanState(pass'[r], h) = After(h).state
      BY <1>2, <1>3, <2>2, Zenon DEF PlanState
    <3>2. p.plan[h].state = "release" => legacy'[h] = legacy[h]
      <4>1. p.plan[h].state = "release" => h \notin asked
        OBVIOUS
      <4> QED
        BY <1>1, <4>1, Zenon
    <3>3. \/ After(h) = p.plan[h] /\ p.plan[h].state \notin {"release", "failed"}
          \/ \E s \in {"error", "drop", "busy"} : After(h) = Todo(s)
          \/ After(h) = Todo("del") /\ p.plan[h].state = "release" /\ Ours(h)
      BY Zenon
    <3>4. \A s : Todo(s).state = s
      BY SMTT(30) DEF Todo
    <3> HIDE DEF After, Ours
    <3> QED
      BY <3>1, <3>2, <3>3, <3>4, ZenonT(40)
  <2> QED
    BY <2>1, <2>2, Zenon
<1> HIDE DEF After, asked, Mirrored
<1>6. ASSUME NEW h \in Slots
      PROVE  PairOK(r, slot[h], legacy'[h], anchor[r][h], pass'[r], PlanState(pass'[r], h), h \in spoiled')
  <2>1. PairOK(r, slot[h], legacy[h], anchor[r][h], p, PlanState(p, h), h \in spoiled)
    BY PairFacts, Zenon
  <2>2. \/ PlanState(pass'[r], h) = PlanState(p, h) /\ PlanState(p, h) \notin {"release", "failed"}
        \/ PlanState(pass'[r], h) \in {"error", "drop", "busy"}
        \/ /\ PlanState(pass'[r], h) = "del" /\ PlanState(p, h) = "release" /\ legacy'[h] = legacy[h]
           /\ legacy[h].owner = r /\ legacy[h].until = SlotTTL - p.age
    BY <1>5, Zenon
  <2>3. p.step = "settle" /\ pass'[r].step = "release" /\ pass'[r].age = p.age
    BY <1>1, <1>3, Zenon
  <2>4. h \in spoiled => h \in spoiled'
    BY <1>4, Zenon
  <2>5. PassSettles(r, slot[h], legacy[h], anchor[r][h], p, PlanState(p, h), h \in spoiled,
                    pass'[r], legacy'[h], h \in spoiled', PlanState(pass'[r], h))
    BY <2>1, <2>2, <2>3, <2>4, Zenon DEF PassSettles
  <2> QED
    BY <2>5, OwnSettle, Zenon
<1>7. ASSUME NEW h \in Slots, Mirrored(h), h \notin spoiled'
      PROVE  /\ slot[h].owner = r /\ slot[h].until = SlotTTL - p.age
             /\ legacy[h].owner = r
  <2>1. /\ SlotOK(slot[h], legacy[h], h \in spoiled)
        /\ Lease(r, slot[h], anchor[r][h], p, PlanState(p, h)) /\ p.age \in Nat
    BY PairFacts, Zenon DEF PairOK
  <2>2. h \notin spoiled /\ PlanState(p, h) = "granted" /\ ~Lapsed(p)
    BY <1>4, <1>7, Zenon DEF Mirrored
  <2>3. p.age < SlotTTL /\ SlotTTL - p.age > 0
    BY <2>1, <2>2, StillLeased, Zenon
  <2> QED
    BY <2>1, <2>2, <2>3, Zenon DEF Lease, SlotOK
<1>8. ASSUME NEW h \in Slots, NEW q \in New \ {r}
      PROVE  PairOK(q, slot[h], legacy'[h], anchor[q][h], pass[q], PlanState(pass[q], h), h \in spoiled')
  <2>1. h \in spoiled' \/ legacy'[h] = legacy[h] \/ legacy[h].owner # q \/ legacy[h].until <= 0
    BY <1>4, <1>7, Zenon
  <2>2. /\ PairOK(q, slot[h], legacy[h], anchor[q][h], pass[q], PlanState(pass[q], h), h \in spoiled)
        /\ pass[q].age \in Nat
    BY PairFacts, Zenon
  <2>3. PairOK(q, slot[h], legacy[h], anchor[q][h], pass[q], PlanState(pass[q], h), h \in spoiled')
    BY <1>4, <2>2, Zenon DEF PairOK
  <2>4. GuardWritten(q, slot[h], legacy[h], anchor[q][h], pass[q], PlanState(pass[q], h), h \in spoiled', legacy'[h])
    BY <2>1, <2>2, <2>3, Zenon DEF GuardWritten
  <2> QED
    BY <2>4, OtherGuard, Zenon
<1>9. ASSUME NEW h \in Slots
      PROVE  SlotOK(slot[h], legacy'[h], h \in spoiled')
  <2>1. SlotOK(slot[h], legacy[h], h \in spoiled) /\ p.age \in Nat /\ (h \in spoiled => h \in spoiled')
    BY <1>4, PairFacts, Zenon
  <2>2. CASE legacy'[h] = legacy[h] \/ h \in spoiled'
    BY <2>1, <2>2, Zenon DEF SlotOK
  <2>3. CASE Mirrored(h) /\ h \notin spoiled'
    <3>1. slot[h].owner = r /\ slot[h].until = SlotTTL - p.age
      BY <1>7, <2>3, Zenon
    <3>2. legacy'[h].owner = r /\ legacy'[h].until = SlotTTL - p.age
      BY <2>3, Zenon DEF Mirrored
    <3>3. SlotTTL - p.age >= SlotTTL - p.age
      BY <2>1 DEF Constants
    <3> QED
      BY <2>3, <3>1, <3>2, <3>3, Zenon DEF SlotOK
  <2> QED
    BY <1>4, <2>2, <2>3, Zenon
<1> QED
  BY <1>1, <1>3, <1>6, <1>8, <1>9, LeaseStep, Zenon

LEMMA ReleaseLease ==
    ASSUME Constants, TypeOK, LeaseInv, NEW r \in New, Release(r)
    PROVE  LeaseInv'
<1> DEFINE p == pass[r]
           gone == {h \in DOMAIN p.plan : p.plan[h].state \in {"del", "drop"}}
           Freed(h) == /\ legacy'[h] = Unowned
                       /\ h \in spoiled' \/ (PlanState(p, h) = "del" /\ ~Lapsed(p))
<1>1. /\ p.step = "release" /\ pass' = [pass EXCEPT ![r].step = "land"] /\ UNCHANGED <<slot, anchor>>
      /\ legacy' = [h \in Slots |-> IF h \in gone THEN Unowned ELSE legacy[h]]
      /\ spoiled' = spoiled \cup {h \in gone : Lapsed(p) \/ p.plan[h].state = "drop"}
  BY Zenon DEF Release
<1>2. pass \in [New -> [step : Steps, age : 0..MaxAge, plan : PlanType]]
  BY Zenon DEF TypeOK
<1>3. /\ pass'[r].step = "land" /\ pass'[r].age = p.age /\ pass'[r].plan = p.plan
      /\ \A q \in New \ {r} : pass'[q] = pass[q]
  BY <1>1, <1>2
<1>4. \A h : PlanState(pass'[r], h) = PlanState(p, h)
  BY <1>3, Zenon DEF PlanState
<1>5. ASSUME NEW h \in Slots
      PROVE  (legacy'[h] = legacy[h] \/ Freed(h)) /\ (h \in spoiled => h \in spoiled')
  <2>1. h \notin gone => legacy'[h] = legacy[h]
    BY <1>1, Zenon
  <2>2. h \in gone => legacy'[h] = Unowned /\ PlanState(p, h) = p.plan[h].state
    BY <1>1, Zenon DEF PlanState
  <2>3. h \in gone => h \in spoiled' \/ (p.plan[h].state = "del" /\ ~Lapsed(p))
    BY <1>1, Zenon
  <2>4. h \in spoiled => h \in spoiled'
    BY <1>1, Zenon
  <2> QED
    BY <2>1, <2>2, <2>3, <2>4, Zenon
<1> HIDE DEF gone, Freed
<1>6. ASSUME NEW h \in Slots
      PROVE  PairOK(r, slot[h], legacy'[h], anchor[r][h], pass'[r], PlanState(pass'[r], h), h \in spoiled')
  <2>1. PairOK(r, slot[h], legacy[h], anchor[r][h], p, PlanState(p, h), h \in spoiled)
    BY PairFacts, Zenon
  <2>2. PairOK(r, slot[h], legacy[h], anchor[r][h], p, PlanState(p, h), h \in spoiled')
    BY <1>5, <2>1, Zenon DEF PairOK
  <2>3. PairOK(r, slot[h], legacy'[h], anchor[r][h], pass'[r], PlanState(p, h), h \in spoiled')
    <3>1. p.step = "release"
      BY <1>1, Zenon
    <3>2. PassReleases(r, slot[h], legacy[h], anchor[r][h], p, PlanState(p, h), h \in spoiled', pass'[r])
      BY <1>3, <2>2, <3>1, Zenon DEF PassReleases
    <3> QED
      BY <3>2, OwnRelease, Zenon
  <2> QED
    BY <1>4, <2>3, Zenon
<1>7. ASSUME NEW h \in Slots, Freed(h), h \notin spoiled'
      PROVE  legacy[h].owner = r /\ ~ (slot[h].until > 0)
  <2>1. /\ SlotOK(slot[h], legacy[h], h \in spoiled) /\ slot[h].until \in Int
        /\ h \notin spoiled => Reservation(r, slot[h], legacy[h], p, PlanState(p, h))
        /\ p.age \in Nat
    BY PairFacts, Zenon DEF PairOK
  <2>2. h \notin spoiled /\ PlanState(p, h) = "del" /\ ~Lapsed(p)
    BY <1>5, <1>7, Zenon DEF Freed
  <2>3. p.age < SlotTTL
    BY <2>1, <2>2, StillLeased, Zenon
  <2>4. legacy[h].owner = r
    BY <1>1, <2>1, <2>2, <2>3, SMTT(30) DEF Reservation
  <2>5. slot[h].owner # r \/ slot[h].until <= 0
    BY <2>1, <2>2, ZenonT(40) DEF Reservation
  <2> QED
    BY <2>1, <2>2, <2>4, <2>5 DEF SlotOK
<1>8. ASSUME NEW h \in Slots, NEW q \in New \ {r}
      PROVE  PairOK(q, slot[h], legacy'[h], anchor[q][h], pass[q], PlanState(pass[q], h), h \in spoiled')
  <2>1. h \in spoiled' \/ legacy'[h] = legacy[h] \/ legacy[h].owner # q \/ legacy[h].until <= 0
    BY <1>5, <1>7, Zenon
  <2>2. /\ PairOK(q, slot[h], legacy[h], anchor[q][h], pass[q], PlanState(pass[q], h), h \in spoiled)
        /\ pass[q].age \in Nat
    BY PairFacts, Zenon
  <2>3. PairOK(q, slot[h], legacy[h], anchor[q][h], pass[q], PlanState(pass[q], h), h \in spoiled')
    BY <1>5, <2>2, Zenon DEF PairOK
  <2>4. GuardWritten(q, slot[h], legacy[h], anchor[q][h], pass[q], PlanState(pass[q], h), h \in spoiled', legacy'[h])
    BY <2>1, <2>2, <2>3, Zenon DEF GuardWritten
  <2> QED
    BY <2>4, OtherGuard, Zenon
<1>9. ASSUME NEW h \in Slots
      PROVE  SlotOK(slot[h], legacy'[h], h \in spoiled')
  <2>1. SlotOK(slot[h], legacy[h], h \in spoiled) /\ (h \in spoiled => h \in spoiled')
    BY <1>5, PairFacts, Zenon
  <2> QED
    BY <1>5, <1>7, <2>1, Zenon DEF SlotOK
<1> QED
  BY <1>1, <1>3, <1>6, <1>8, <1>9, LeaseStep, Zenon

\* A replica of the previous build finds the guard record of a leased slot busy.
LEMMA OldClaimLease ==
    ASSUME Constants, TypeOK, LeaseInv, NEW o \in Old, NEW g \in Slots, OldClaim(o, g)
    PROVE  LeaseInv'
<1>1. /\ UNCHANGED <<slot, pass, anchor, spoiled>>
      /\ legacy' = [legacy EXCEPT ![g] = ClaimShard(@, o, 0)]
  BY Zenon DEF OldClaim
<1>2. ASSUME NEW h \in Slots
      PROVE  legacy'[h] = legacy[h] \/ ~Busy(legacy[h], o, 0)
  BY <1>1, Zenon DEF ClaimShard, TypeOK
<1>3. ASSUME NEW h \in Slots
      PROVE  SlotOK(slot[h], legacy'[h], h \in spoiled)
  <2>1. /\ SlotOK(slot[h], legacy[h], h \in spoiled)
        /\ slot[h].until \in Int /\ legacy[h].until \in Int
    <3>1. slot[h] \in RecordType /\ legacy[h] \in RecordType
      BY Zenon DEF TypeOK
    <3>2. slot[h].until \in Int /\ legacy[h].until \in Int
      BY <3>1 DEF RecordType, Gone, Constants
    <3>3. SlotOK(slot[h], legacy[h], h \in spoiled)
      BY Zenon DEF LeaseInv
    <3> QED
      BY <3>2, <3>3, Zenon
  <2>2. CASE ~Busy(legacy[h], o, 0)
    <3>1. slot[h].until > 0 => h \in spoiled
      BY <2>1, <2>2, SMTT(30) DEF SlotOK, Busy, Constants, Replicas
    <3> QED
      BY <2>1, <3>1, Zenon DEF SlotOK
  <2> QED
    BY <1>2, <2>1, <2>2, Zenon
<1>4. ASSUME NEW h \in Slots, NEW q \in New
      PROVE  PairOK(q, slot[h], legacy'[h], anchor[q][h], pass[q], PlanState(pass[q], h), h \in spoiled)
  <2>1. /\ PairOK(q, slot[h], legacy[h], anchor[q][h], pass[q], PlanState(pass[q], h), h \in spoiled)
        /\ pass[q].age \in Nat /\ legacy[h].until \in Int
    BY PairFacts, Zenon
  <2>2. o # q
    BY Zenon DEF Constants
  <2>3. legacy'[h] = legacy[h] \/ legacy[h].owner # q \/ legacy[h].until <= 0
    <3>1. ~Busy(legacy[h], o, 0) => legacy[h].owner # q \/ legacy[h].until <= 0
      BY <2>1, <2>2, FreeNow, Zenon
    <3> QED
      BY <1>2, <3>1, Zenon
  <2>4. GuardWritten(q, slot[h], legacy[h], anchor[q][h], pass[q], PlanState(pass[q], h), h \in spoiled, legacy'[h])
    BY <2>1, <2>3, Zenon DEF GuardWritten
  <2> QED
    BY <2>4, OtherGuard, Zenon
<1>5. \A h \in Slots : SlotOK(slot'[h], legacy'[h], h \in spoiled')
  <2>1. slot' = slot /\ spoiled' = spoiled
    BY <1>1, Zenon
  <2> QED
    BY <1>3, <2>1, Zenon
<1>6. \A h \in Slots, q \in New :
         PairOK(q, slot'[h], legacy'[h], anchor'[q][h], pass'[q], PlanState(pass'[q], h), h \in spoiled')
  BY <1>1, <1>4, Zenon
<1> QED
  BY <1>5, <1>6, Zenon DEF LeaseInv

LEMMA TickLease ==
    ASSUME Constants, TypeOK, LeaseInv, Tick
    PROVE  LeaseInv'
<1>1. /\ slot' = [h \in Slots |-> [slot[h] EXCEPT !.until = Older(@)]]
      /\ legacy' = [h \in Slots |-> [legacy[h] EXCEPT !.until = Older(@)]]
      /\ anchor' = [r \in New |-> [h \in Slots |-> Older(anchor[r][h])]]
      /\ pass' = [r \in New |-> IF pass[r].step = "idle" THEN pass[r]
                                ELSE [pass[r] EXCEPT !.age = @ + 1]]
      /\ spoiled' = spoiled
  BY Zenon DEF Tick
<1>2. ASSUME NEW h \in Slots
      PROVE  /\ slot'[h].owner = slot[h].owner /\ slot'[h].until = Older(slot[h].until)
             /\ legacy'[h].owner = legacy[h].owner /\ legacy'[h].until = Older(legacy[h].until)
             /\ slot[h].until \in Int /\ legacy[h].until \in Int
  <2>1. slot[h] \in RecordType /\ legacy[h] \in RecordType
    BY Zenon DEF TypeOK
  <2>2. /\ slot'[h] = [slot[h] EXCEPT !.until = Older(@)]
        /\ legacy'[h] = [legacy[h] EXCEPT !.until = Older(@)]
    BY <1>1, Zenon
  <2> QED
    BY <2>1, <2>2 DEF RecordType, Gone, Constants
<1>3. ASSUME NEW r \in New
      PROVE  /\ pass'[r].step = pass[r].step /\ pass'[r].plan = pass[r].plan
             /\ pass'[r].age = IF pass[r].step = "idle" THEN pass[r].age ELSE pass[r].age + 1
  <2>1. pass[r] \in [step : Steps, age : 0..MaxAge, plan : PlanType]
    BY Zenon DEF TypeOK
  <2>2. pass'[r] = IF pass[r].step = "idle" THEN pass[r] ELSE [pass[r] EXCEPT !.age = @ + 1]
    BY <1>1, Zenon
  <2> QED
    BY <2>1, <2>2
<1>4. ASSUME NEW h \in Slots
      PROVE  SlotOK(slot'[h], legacy'[h], h \in spoiled')
  <2>1. SlotOK(slot[h], legacy[h], h \in spoiled)
    BY Zenon DEF LeaseInv
  <2>2. SlotOK(slot'[h], legacy'[h], h \in spoiled)
    BY <1>2, <2>1, SlotAges, SMTT(30)
  <2> QED
    BY <1>1, <2>2, Zenon
<1>5. ASSUME NEW h \in Slots, NEW r \in New
      PROVE  PairOK(r, slot'[h], legacy'[h], anchor'[r][h], pass'[r], PlanState(pass'[r], h), h \in spoiled')
  <2>1. /\ PairOK(r, slot[h], legacy[h], anchor[r][h], pass[r], PlanState(pass[r], h), h \in spoiled)
        /\ pass[r].age \in Nat /\ anchor[r][h] \in Int
    BY PairFacts, ZenonT(40)
  <2>2. PairOK(r, slot'[h], legacy'[h], Older(anchor[r][h]), pass'[r], PlanState(pass[r], h), h \in spoiled)
    <3>1. PairAged(r, slot[h], legacy[h], anchor[r][h], pass[r], PlanState(pass[r], h), h \in spoiled,
                   pass'[r], slot'[h], legacy'[h])
      BY <1>2, <1>3, <2>1, Zenon DEF PairAged
    <3> QED
      BY <3>1, PairAges, Zenon
  <2>3. anchor'[r][h] = Older(anchor[r][h])
    BY <1>1, Zenon
  <2>4. PlanState(pass'[r], h) = PlanState(pass[r], h)
    BY <1>3, Zenon DEF PlanState
  <2> QED
    BY <1>1, <2>2, <2>3, <2>4, Zenon
<1> QED
  BY <1>4, <1>5, Zenon DEF LeaseInv

LEMMA LeaseInvStep == Constants /\ TypeOK /\ LeaseInv /\ [Next]_vars => LeaseInv'
<1> SUFFICES ASSUME Constants, TypeOK, LeaseInv, [Next]_vars PROVE LeaseInv'
  OBVIOUS
<1>1. TypeOK'
  BY TypeStep, Zenon
<1>2. CASE UNCHANGED vars
  BY <1>2, QuietLease, Zenon DEF vars
<1>3. ASSUME NEW r \in Replicas, Heartbeat(r) PROVE LeaseInv'
  BY <1>3, QuietLease, Zenon DEF Heartbeat
<1>4. ASSUME NEW r \in New, NEW h \in Slots, OwnedScopes(r, h) PROVE LeaseInv'
  BY <1>4, QuietLease, Zenon DEF OwnedScopes
<1>5. ASSUME NEW r \in New, ReadMembers(r) \/ Release(r) \/ Land(r) \/ Crash(r) PROVE LeaseInv'
  BY <1>1, <1>5, ReadLease, ReleaseLease, EndLease, Zenon
<1>6. ASSUME NEW r \in New, NEW refused, NEW lost,
             Reserve(r, refused, lost) \/ Claim(r, refused, lost) \/ Settle(r, refused, lost)
      PROVE  LeaseInv'
  BY <1>6, ReserveLease, ClaimLease, SettleLease, Zenon
<1>7. ASSUME NEW o \in Old, NEW h \in Slots, OldClaim(o, h) PROVE LeaseInv'
  BY <1>7, OldClaimLease, Zenon
<1>8. CASE Tick
  BY <1>8, TickLease, Zenon
<1> QED
  BY <1>2, <1>3, <1>4, <1>5, <1>6, <1>7, <1>8, Zenon DEF Next

LEMMA LeaseAlways == ASSUME Constants PROVE Spec => []LeaseInv
<1>1. Init => TypeOK /\ LeaseInv
  BY TypeInit, LeaseInit, Zenon
<1>2. TypeOK /\ LeaseInv /\ [Next]_vars => (TypeOK /\ LeaseInv)'
  BY TypeStep, LeaseInvStep, Zenon
<1> QED
  BY <1>1, <1>2, PTL DEF Spec

\* A slot that a replica still lists while the record names somebody else is one
\* whose lease, counted from the clock reading of the pass that listed it
\* (leaseAnchor of slotReconcileOnce), ran out: whatever replies were lost and
\* however long the pass took, no other replica is granted the slot before.
THEOREM ListedUntilLapsed == ASSUME Constants PROVE Spec => []HeldUntilLapsed
<1>1. TypeOK /\ LeaseInv => HeldUntilLapsed
  <2> SUFFICES ASSUME TypeOK, LeaseInv, NEW r \in New, NEW h \in Slots, slot[h].owner # r
               PROVE  anchor[r][h] <= 0
    BY Zenon DEF HeldUntilLapsed
  <2>1. anchor[r][h] \in Int /\ Lease(r, slot[h], anchor[r][h], pass[r], PlanState(pass[r], h))
    BY PairFacts, Zenon DEF PairOK
  <2> QED
    BY <2>1 DEF Lease
<1> QED
  BY <1>1, LeaseAlways, TypeCorrect, PTL

\* While a replica of this build has a lease on a slot, the record that the
\* previous build claims names the same replica for at least as long, so that
\* claim_shard.lua answers BUSY to an old replica: ClaimSlots reserves, claims
\* and settles in an order that keeps this at every step.  Excepted are the
\* slots whose guard record was written by a pass that overran its own lease
\* or given back after a claim that failed.
THEOREM GuardedLeases == ASSUME Constants PROVE Spec => []GuardCoversLease
<1>1. LeaseInv => GuardCoversLease
  BY Zenon DEF LeaseInv, SlotOK, GuardCoversLease
<1> QED
  BY <1>1, LeaseAlways, PTL
=============================================================================
