----------------------------- MODULE FenceOracle -----------------------------
(***************************************************************************)
(* The control-plane linearizability checks: workers race for a            *)
(* subscription's lease (scenario_lease.go), replicas for a slot           *)
(* (scenario_ownership.go), or both at once (scenario_composed.go); the    *)
(* recorded replies are judged by register models that leave time out      *)
(* (model_fence.go, model_shard.go, model_composed.go).                    *)
(*                                                                         *)
(* As in StoreOracle, `front` holds every linearization of the history so  *)
(* far and a history is rejected when it is empty.  A reply is fixed when  *)
(* the script runs; it may be lost, the command may run twice because the  *)
(* Redis client sends it again (external), or run after it was given up.   *)
(***************************************************************************)
EXTENDS Integers, Sequences, FiniteSets

CONSTANTS
  Workers,
  NoOwner,     \* a slot nobody owns
  Scenarios,   \* of "lease", "ownership", "composed"
  MaxCycles,   \* opsPerWorker
  MaxGen,      \* generations and epochs in one behaviour
  MaxFaults

VARIABLES
  scene,    \* the scenario
  srv,      \* the subscription's shard state and the slot record
  pc,       \* where each worker is in its cycle
  cycles,   \* cycles each worker started
  held,     \* heldEpoch: the slot epoch a worker last held
  token,    \* the fence of a worker's last grant
  op,       \* the operation a worker has in flight
  late,     \* slot claims given up on that may still run
  faults, front, excused

vars == <<scene, srv, pc, cycles, held, token, op, late, faults, front, excused>>

NoWake == <<>>
NoOp == [kind |-> "none"]
Pending(w) == op[w].kind # "none"

-----------------------------------------------------------------------------
(* The judges' register models.  A step is a set of states: empty when the *)
(* reply cannot be justified.                                              *)

Judged(ok, next) == IF ok THEN {next} ELSE {}

\* stepClaim: a wake in flight is reused exactly, anything else must rotate.
stepClaim(s, out) ==
  CASE out.status # "CLAIMED" -> {s}
    [] out.status = "CLAIMED" /\ s.phase = "waking" /\ s.wake # NoWake ->
         Judged(out.gen = s.gen /\ out.wake = s.wake, [s EXCEPT !.phase = "live"])
    [] OTHER ->
         Judged(out.gen > s.gen /\ out.wake # NoWake,
                [s EXCEPT !.gen = out.gen, !.wake = out.wake, !.phase = "live"])

\* checkerFenced, for a token whose generation is the request's.
checkerFenced(s, t) == t.gen # s.gen \/ t.wake = NoWake \/ t.wake # s.wake

\* stepAckOrRelease: an accepted ack carries the current fence; FENCED says nothing.
\* The drivers only ever send done acks.
stepAckOrRelease(s, t, out) ==
  IF out.status # "OK" THEN {s}
  ELSE Judged(~checkerFenced(s, t), [s EXCEPT !.wake = NoWake, !.phase = "idle"])

\* stepClaimShard: a renewal keeps owner and epoch, a transfer raises the epoch.
stepClaimShard(s, w, out) ==
  CASE out.status = "RENEWED" -> Judged(s.owner = w /\ out.epoch = s.epoch, s)
    [] out.status = "CLAIMED" -> Judged(out.epoch > s.epoch, [s EXCEPT !.owner = w, !.epoch = out.epoch])
    [] OTHER -> {s}

\* stepCheckOwner: OWNER is checked strictly.
stepCheckOwner(s, w, epoch, out) ==
  IF out.status = "OWNER" THEN Judged(s.owner = w /\ epoch = s.epoch, s) ELSE {s}

\* shardNondeterministicStep: a slot claim without a reply was applied or not.
shardNondeterministicStep(s, w) ==
  {s} \cup (IF s.owner = w THEN {} ELSE {[s EXCEPT !.owner = w, !.epoch = @ + 1]})

\* composedStep; the lease and the slot model are its two halves.
composedStep(s, w, o, out) ==
  CASE o.kind = "claimslot" /\ out.status = "INDETERMINATE" -> shardNondeterministicStep(s, w)
    [] o.kind = "claimslot" /\ out.status # "INDETERMINATE" -> stepClaimShard(s, w, out)
    [] o.kind = "check" -> stepCheckOwner(s, w, o.epoch, out)
    [] o.kind = "claim" -> stepClaim(s, out)
    [] o.kind = "ack" -> stepAckOrRelease(s, o.token, out)

-----------------------------------------------------------------------------
(* The search, as in StoreOracle.                                          *)

Answers(w) ==
  {op[w].out} \cup (IF op[w].kind = "claimslot" /\ scene = "ownership"
                    THEN {[status |-> "INDETERMINATE"]} ELSE {})

Place(l, w) ==
  IF l.placed[w] # <<>> THEN {}
  ELSE UNION {{[state |-> s, placed |-> [l.placed EXCEPT ![w] = <<a>>]] :
                 s \in composedStep(l.state, w, op[w], a)} : a \in Answers(w)}

RECURSIVE Extend(_, _)
Extend(S, W) ==
  LET more == UNION {Place(l, w) : l \in S, w \in W}
  IN IF more \subseteq S THEN S ELSE Extend(S \cup more, W)

\* recordOp: the operation of w returned `out`.
Record(w, out) ==
  LET before == Extend(front, {v \in Workers \ {w} : Pending(v)})
      early == {l \in before : l.placed[w] = <<out>>}
      now == UNION {{[state |-> s, placed |-> l.placed] : s \in composedStep(l.state, w, op[w], out)} :
                      l \in {m \in before : m.placed[w] = <<>>}}
  IN front' = {[l EXCEPT !.placed[w] = <<>>] : l \in early \cup now}

\* An operation that is not recorded takes no part.
Erase(w) == front' = {l \in front : l.placed[w] = <<>>}

-----------------------------------------------------------------------------
(* The scripts.                                                            *)

Clipped == srv.gen < MaxGen /\ srv.epoch < MaxGen

\* claim_shard.lua: the record after it, and its reply.
ClaimShardBusy(w) == srv.owner \notin {w, NoOwner} /\ srv.ownerLeased

\* As ClaimShard, a transfer that keeps the epoch.
ClaimShardKeepingEpoch(w) ==
  IF ClaimShardBusy(w) THEN srv ELSE [srv EXCEPT !.owner = w, !.ownerLeased = TRUE]

ClaimShard(w) ==
  CASE ClaimShardBusy(w) -> srv
    [] srv.owner = w -> [srv EXCEPT !.ownerLeased = TRUE]
    [] OTHER -> [srv EXCEPT !.owner = w, !.epoch = @ + 1, !.ownerLeased = TRUE]
ClaimShardReply(w) ==
  [status |-> CASE ClaimShardBusy(w) -> "BUSY" [] srv.owner = w -> "RENEWED" [] OTHER -> "CLAIMED",
   epoch |-> ClaimShard(w).epoch]

OwnerFenced(w, epoch) == srv.owner # w \/ srv.epoch # epoch
CheckOwnerReply(w, epoch) ==
  [status |-> CASE srv.owner = NoOwner -> "UNOWNED" [] OwnerFenced(w, epoch) -> "FENCED" [] OTHER -> "OWNER"]

\* claim.lua: busy under a live lease; a wake in flight is reused; else rotate.
ClaimBusy == srv.phase = "live" /\ srv.leased
Claim(wake) ==
  CASE ClaimBusy -> srv
    [] srv.phase = "waking" /\ srv.wake # NoWake -> [srv EXCEPT !.phase = "live", !.leased = TRUE]
    [] OTHER -> [srv EXCEPT !.gen = @ + 1, !.wake = wake, !.phase = "live", !.leased = TRUE]
ClaimReply(wake) ==
  IF ClaimBusy THEN [status |-> "BUSY"]
  ELSE [status |-> "CLAIMED", gen |-> Claim(wake).gen, wake |-> Claim(wake).wake]

\* ack.lua, done: the owner scope of the composed driver, then the fence.
AckAccepted(w) ==
  /\ scene = "composed" => ~OwnerFenced(w, held[w])
  /\ token[w].gen = srv.gen /\ token[w].wake = srv.wake /\ srv.wake # NoWake
Ack(w) ==
  IF AckAccepted(w) THEN [srv EXCEPT !.wake = NoWake, !.phase = "idle", !.leased = FALSE] ELSE srv

-----------------------------------------------------------------------------
(* The workers' cycle.                                                     *)

Step(w, at, record) ==
  /\ ~Pending(w) /\ pc[w] = at
  /\ op' = [op EXCEPT ![w] = record]

StartCycle(w) == cycles[w] < MaxCycles /\ cycles' = [cycles EXCEPT ![w] = @ + 1]

\* composedWorker (1) and ownershipClaimant: claim the slot.
ClaimSlotCall(w) ==
  /\ Clipped /\ StartCycle(w)
  /\ Step(w, "slot", [kind |-> "claimslot", out |-> ClaimShardReply(w)])
  /\ srv' = ClaimShard(w)
  /\ UNCHANGED <<scene, pc, held, token, late, faults, front, excused>>

\* composedWorker (2) and leaseWorker: claim the subscription.
ClaimCall(w) ==
  LET wake == <<w, cycles'[w]>>
  IN /\ Clipped
     /\ IF scene = "lease" THEN StartCycle(w) ELSE UNCHANGED cycles
     /\ Step(w, "claim", [kind |-> "claim", out |-> ClaimReply(wake)])
     /\ srv' = Claim(wake)
     /\ UNCHANGED <<scene, pc, held, token, late, faults, front, excused>>

\* composedWorker (3) and ownershipClaimant: check_owner at the epoch it holds.
CheckCall(w) ==
  /\ Step(w, "check", [kind |-> "check", epoch |-> held[w], out |-> CheckOwnerReply(w, held[w])])
  /\ UNCHANGED <<scene, srv, pc, cycles, held, token, late, faults, front, excused>>

\* composedWorker (3): only some grants pause and check.
SkipCheck(w) ==
  /\ scene = "composed" /\ ~Pending(w) /\ pc[w] = "check"
  /\ pc' = [pc EXCEPT ![w] = "ack"]
  /\ UNCHANGED <<scene, srv, cycles, held, token, op, late, faults, front, excused>>

\* composedWorker (4) and leaseWorker: ack(done) with the token of (2).
AckCall(w) ==
  /\ Step(w, "ack", [kind |-> "ack", token |-> token[w],
                     out |-> [status |-> IF AckAccepted(w) THEN "OK" ELSE "FENCED"]])
  /\ srv' = Ack(w)
  /\ UNCHANGED <<scene, pc, cycles, held, token, late, faults, front, excused>>

First == IF scene = "lease" THEN "claim" ELSE "slot"

\* Where a worker goes after its operation was answered with `status`.
After(kind, status) ==
  CASE kind = "claimslot" -> (CASE scene = "composed" -> "claim"
                                [] scene = "ownership" /\ status \in {"CLAIMED", "RENEWED"} -> "check"
                                [] OTHER -> First)
    [] kind = "claim" -> (CASE status # "CLAIMED" -> First
                            [] scene = "composed" -> "check"
                            [] OTHER -> "ack")
    [] kind = "check" -> IF scene = "composed" THEN "ack" ELSE First
    [] kind = "ack" -> First

\* The reply arrives: it is recorded and the worker goes on.
Reply(w) ==
  LET o == op[w]
  IN /\ Pending(w)
     /\ Record(w, o.out)
     /\ held' = IF o.kind = "claimslot" /\ o.out.status # "BUSY" THEN [held EXCEPT ![w] = o.out.epoch] ELSE held
     /\ token' = IF o.kind = "claim" /\ o.out.status = "CLAIMED"
                 THEN [token EXCEPT ![w] = [gen |-> o.out.gen, wake |-> o.out.wake]] ELSE token
     /\ pc' = [pc EXCEPT ![w] = After(o.kind, o.out.status)]
     /\ op' = [op EXCEPT ![w] = NoOp]
     /\ UNCHANGED <<scene, srv, cycles, late, faults, excused>>

Fault == faults < MaxFaults /\ faults' = faults + 1

\* The reply is lost.  The ownership driver records the slot claim as
\* indeterminate; every other operation is left out of the history.
LostReply(w) ==
  LET kept == op[w].kind = "claimslot" /\ scene = "ownership"
  IN /\ Pending(w) /\ Fault
     /\ IF kept THEN Record(w, [status |-> "INDETERMINATE"]) ELSE Erase(w)
     /\ excused' = IF op[w].kind = "claimslot" /\ ~kept THEN excused \cup {"erased"} ELSE excused
     /\ pc' = [pc EXCEPT ![w] = After(op[w].kind, "")]
     /\ op' = [op EXCEPT ![w] = NoOp]
     /\ UNCHANGED <<scene, srv, cycles, held, token, late>>

\* The reply is lost and the same command runs once more.
Resent(w) ==
  LET o == op[w]
      run == CASE o.kind = "claimslot" -> <<ClaimShard(w), ClaimShardReply(w)>>
               [] o.kind = "claim" -> <<Claim(<<w, cycles[w]>>), ClaimReply(<<w, cycles[w]>>)>>
               [] o.kind = "ack" -> <<Ack(w), [status |-> IF AckAccepted(w) THEN "OK" ELSE "FENCED"]>>
  IN /\ Pending(w) /\ o.kind # "check" /\ Fault /\ Clipped
     /\ srv' = run[1]
     /\ op' = [op EXCEPT ![w].out = run[2]]
     /\ excused' = IF o.kind = "claimslot" THEN excused \cup {"resent"} ELSE excused
     /\ UNCHANGED <<scene, pc, cycles, held, token, late, front>>

\* A slot claim times out before it runs.
ClaimSlotTimeout(w) ==
  /\ scene = "ownership" /\ StartCycle(w) /\ Fault
  /\ ~Pending(w) /\ pc[w] = "slot"
  /\ front' = LET before == Extend(front, {v \in Workers \ {w} : Pending(v)})
              IN UNION {{[l EXCEPT !.state = s] : s \in shardNondeterministicStep(l.state, w)} : l \in before}
  /\ late' = late \cup {w}
  /\ UNCHANGED <<scene, srv, pc, held, token, op, excused>>

\* It runs after all.
LateRun ==
  \E w \in late :
    /\ Clipped
    /\ srv' = ClaimShard(w)
    /\ late' = late \ {w}
    /\ excused' = IF srv' # srv THEN excused \cup {"late"} ELSE excused
    /\ UNCHANGED <<scene, pc, cycles, held, token, op, faults, front>>

-----------------------------------------------------------------------------
(* The server's own steps, which no operation of the history shows: leases *)
(* run out, the lease worker clears them, an append arms a wake.           *)

Lapse ==
  /\ \/ srv.leased /\ srv' = [srv EXCEPT !.leased = FALSE]
     \/ srv.ownerLeased /\ srv' = [srv EXCEPT !.ownerLeased = FALSE]
  /\ UNCHANGED <<scene, pc, cycles, held, token, op, late, faults, front, excused>>

\* expire_lease.lua: clears the wake and keeps the generation.
ExpireLease ==
  /\ scene = "lease" /\ srv.phase = "live" /\ ~srv.leased
  /\ srv' = [srv EXCEPT !.phase = "idle", !.wake = NoWake]
  /\ UNCHANGED <<scene, pc, cycles, held, token, op, late, faults, front, excused>>

\* arm_wake.lua.
ArmWake ==
  /\ scene = "lease" /\ srv.phase = "idle" /\ Clipped
  /\ srv' = [srv EXCEPT !.gen = @ + 1, !.wake = <<"armed", srv.gen>>, !.phase = "waking"]
  /\ UNCHANGED <<scene, pc, cycles, held, token, op, late, faults, front, excused>>

-----------------------------------------------------------------------------
Init ==
  /\ scene \in Scenarios
  /\ srv = [gen |-> 0, wake |-> NoWake, phase |-> "idle", leased |-> FALSE,
            owner |-> NoOwner, epoch |-> 0, ownerLeased |-> FALSE]
  /\ pc = [w \in Workers |-> First]
  /\ cycles = [w \in Workers |-> 0]
  /\ held = [w \in Workers |-> 0]
  /\ token = [w \in Workers |-> [gen |-> 0, wake |-> NoWake]]
  /\ op = [w \in Workers |-> NoOp]
  /\ late = {} /\ faults = 0 /\ excused = {}
  /\ front = {[state |-> [gen |-> -1, wake |-> NoWake, phase |-> "idle", owner |-> NoOwner, epoch |-> 0],
               placed |-> [w \in Workers |-> <<>>]]}

Next ==
  \/ \E w \in Workers : ClaimSlotCall(w)
  \/ \E w \in Workers : ClaimCall(w)
  \/ \E w \in Workers : CheckCall(w)
  \/ \E w \in Workers : SkipCheck(w)
  \/ \E w \in Workers : AckCall(w)
  \/ \E w \in Workers : Reply(w)
  \/ \E w \in Workers : LostReply(w)
  \/ \E w \in Workers : Resent(w)
  \/ \E w \in Workers : ClaimSlotTimeout(w)
  \/ LateRun
  \/ Lapse
  \/ ExpireLease
  \/ ArmWake

Spec == Init /\ [][Next]_vars

-----------------------------------------------------------------------------
(* Properties.                                                             *)

\* A worker in the middle of an operation stands at that operation's place in
\* its cycle, and every linearization has placed only operations in flight.
TypeOK ==
  /\ \A w \in Workers :
       Pending(w) => pc[w] = (IF op[w].kind = "claimslot" THEN "slot" ELSE op[w].kind)
  /\ \A l \in front : \A w \in Workers : ~Pending(w) => l.placed[w] = <<>>

\* The scripts are never rejected, through pauses, takeovers, lapsed and
\* cleared leases, silent wakes and lost replies, unless a slot claim was left
\* out of the history, ran twice, or ran after it was recorded.
AlarmHasACause == front = {} => excused # {}

\* The judge's registers never run ahead of the server, and with nothing in
\* flight some linearization knows the slot's owner and epoch exactly: the
\* silent steps touch only the lease half.
JudgeFollowsTheServer ==
  excused = {} =>
    /\ \A l \in front : l.state.gen <= srv.gen
    /\ (\A w \in Workers : ~Pending(w)) =>
         \E l \in front : l.state.owner = srv.owner /\ l.state.epoch = srv.epoch
=============================================================================
