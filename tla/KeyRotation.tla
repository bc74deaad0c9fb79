----------------------------- MODULE KeyRotation -----------------------------
(***************************************************************************)
(* Signing keys: custody, rotation, revocation (webhook/rotation.go,        *)
(* keys_file.go, the key functions of redis_store.go).  One key family; the  *)
(* webhook and the wake family run the same code on keys of their own.       *)
(*                                                                           *)
(* Custody is the Redis store (a hash of keys, the active-kid pointer and    *)
(* the denylist) or a mounted file that an operator replaces.  Each replica  *)
(* works from a snapshot that ReloadKeys rebuilds: from the reload loop, and *)
(* concurrently from RotateSigningKey and DenylistKid.                       *)
(*                                                                           *)
(* Keys are numbered in the order they are generated.  Time is relative: a   *)
(* stamp is the number of ticks to retire_after, an age the ticks since the  *)
(* reads of a snapshot.  Nothing bounds an age: keysReloadLoop may fall      *)
(* behind or fail for ever, and the last good snapshot stays in force.  How  *)
(* old a snapshot may be is part of the properties.  All replicas read one   *)
(* clock, so the whole Skew is there for the lag of a reload.                *)
(***************************************************************************)
EXTENDS Integers, FiniteSets, FiniteSetsExt

CONSTANTS
    Replicas,
    MaxKid,          \* bound: keys ever generated
    TokenTTL,        \* the longest life of a token, in ticks
    Skew,            \* what the default overlap adds to the token life
    Budgets          \* bounds: custody, rotations, denials, ... of a behaviour

ASSUME ConstantAssumption ==
    /\ MaxKid \in Nat \ {0} /\ TokenTTL \in Nat \ {0}
    /\ Skew \in Nat
    /\ Budgets \subseteq [custody : {"store", "file"}, replicas : SUBSET Replicas,
                          rotations : Nat, denials : Nat, faults : Nat, tokens : Nat]

Kids == 1..MaxKid
None == 0
Unstamped == 0                         \* no retire_after: retires never
Over == -1                             \* the window has lapsed

VARIABLES
    source,   \* the custody source: status of every key, the denylist
    pointer,  \* store custody: the active-kid key
    version,  \* file custody: mtime and size
    valid,    \* file custody: the file parses
    stamp,    \* retire_after of every key, as ticks left; fixed once stamped
    watch,    \* file custody, per replica: FileKeyWatcher (source, version)
    snap,     \* per replica: the key snapshot in force
    call,     \* per replica and caller: the ReloadKeys call in flight
    token,    \* one token in flight: the key it was signed with, ticks left, and
              \* whether the snapshot it was minted on was at most Skew old
    denied,   \* history: the kids whose DenylistKid returned on a replica
    raced,    \* history: replicas whose file changed between load and stat
    budget

vars == <<source, pointer, version, valid, stamp, watch, snap, call, token, denied, raced, budget>>

File == budget.custody = "file"
Callers == {"loop", "operator"}

NoKeys == [status |-> [k \in Kids |-> "absent"], deny |-> {}]
Holding(k) == [NoKeys EXCEPT !.status[k] = "active"]
Down == [up |-> FALSE, active |-> None, retiring |-> {}, newest |-> None, age |-> 0]
Rest == [step |-> "rest", keys |-> NoKeys, deny |-> {}, age |-> 0, kid |-> None]

Init ==
    /\ budget \in Budgets
    /\ source = IF File THEN Holding(1) ELSE NoKeys
    /\ pointer = None /\ version = 1 /\ valid = TRUE
    /\ stamp = [k \in Kids |-> Unstamped]
    /\ watch = [r \in Replicas |-> [source |-> NoKeys, version |-> 0, stat |-> 0]]
    /\ snap = [r \in Replicas |-> Down]
    /\ call = [r \in Replicas |-> [c \in Callers |-> Rest]]
    /\ token = [kid |-> None, left |-> 0, fresh |-> FALSE]
    /\ denied = [r \in Replicas |-> {}]
    /\ raced = {}

Spend(kind) == budget[kind] > 0 /\ budget' = [budget EXCEPT ![kind] = @ - 1]

Known == {k \in Kids : source.status[k] # "absent"} \cup {pointer}
Fresh == 1 + Max({0} \cup {k \in Kids : source.status[k] # "absent" \/ stamp[k] # Unstamped} \cup {pointer})

-----------------------------------------------------------------------------
(* The pure core.                                                          *)

rotationOverlap == TokenTTL + Skew

\* buildKeyFamily: no snapshot unless there is exactly one active key, denied
\* or not.
Buildable(keys) == Cardinality({k \in Kids : keys.status[k] = "active"}) = 1
Active(keys, deny) ==
    LET a == {k \in Kids \ deny : keys.status[k] = "active"} IN IF a = {} THEN None ELSE Max(a)

Retiring(keys, deny) == {k \in Kids \ deny : keys.status[k] = "retiring" /\ stamp[k] # Over}

Build(keys, deny, age) ==
    [up |-> TRUE, active |-> Active(keys, deny), retiring |-> Retiring(keys, deny), age |-> age,
     newest |-> Max({0} \cup {k \in Kids : keys.status[k] # "absent"})]

\* resolver: what a replica verifies with, the window checked again at use.
Verifies(r, k) == k # None /\ (k = snap[r].active \/ (k \in snap[r].retiring /\ stamp[k] # Over))

-----------------------------------------------------------------------------
(* Startup: NewManager.  Under store custody get_or_create_key.lua adopts  *)
(* the active key or installs the candidate; then the first ReloadKeys.    *)

Asleep(r) == r \in budget.replicas /\ ~snap[r].up /\ \A c \in Callers : call[r][c].step = "rest"
Begin(r, c, step, kid) ==
    call' = [call EXCEPT ![r][c] = [Rest EXCEPT !.step = step, !.kid = kid]]

LoadSigningKey(r) ==
    /\ ~File /\ Asleep(r)
    /\ IF pointer # None /\ source.status[pointer] # "absent"
       THEN UNCHANGED <<source, pointer>>
       ELSE source' = [source EXCEPT !.status[Fresh] = "active"] /\ pointer' = Fresh
    /\ Begin(r, "loop", "keys", None)
    /\ UNCHANGED <<version, valid, stamp, watch, snap, token, denied, raced, budget>>

\* The whole file or, when anything about it is wrong, nothing.
LoadFileKeySource == IF valid THEN {source} ELSE {}

\* Startup fails on a bad file; NewFileKeyWatcher then stats what it loaded.
NewFileKeyWatcher(r) ==
    /\ File /\ Asleep(r)
    /\ \E keys \in LoadFileKeySource :
          watch' = [watch EXCEPT ![r] = [source |-> keys, version |-> version, stat |-> 0]]
    /\ Begin(r, "loop", "arm", None)
    /\ UNCHANGED <<source, pointer, version, valid, stamp, snap, token, denied, raced, budget>>

ArmWatcher(r) ==
    /\ call[r]["loop"].step = "arm"
    /\ raced' = IF version # watch[r].version THEN raced \cup {r} ELSE raced
    /\ watch' = [watch EXCEPT ![r].version = version]
    /\ call' = [call EXCEPT ![r]["loop"].step = "keys"]
    /\ UNCHANGED <<source, pointer, version, valid, stamp, snap, token, denied, budget>>

-----------------------------------------------------------------------------
(* ReloadKeys, one step per read.                                          *)

\* The reload loop's tick.
StartReload(r) ==
    /\ snap[r].up /\ call[r]["loop"].step = "rest"
    /\ Begin(r, "loop", IF File THEN "stat" ELSE "keys", None)
    /\ UNCHANGED <<source, pointer, version, valid, stamp, watch, snap, token, denied, raced, budget>>

\* Refresh, first half: a file that did not change is not read again.
Stat(r, c) ==
    /\ call[r][c].step = "stat"
    /\ watch' = [watch EXCEPT ![r].stat = version]
    /\ call' = [call EXCEPT ![r][c].step = IF version = watch[r].version THEN "keys" ELSE "load"]
    /\ UNCHANGED <<source, pointer, version, valid, stamp, snap, token, denied, raced, budget>>

\* Refresh, second half: a bad file keeps the last good one.
Load(r, c) ==
    /\ call[r][c].step = "load"
    /\ IF LoadFileKeySource = {} THEN UNCHANGED watch
       ELSE \E keys \in LoadFileKeySource :
               watch' = [watch EXCEPT ![r] = [source |-> keys, version |-> @.stat, stat |-> 0]]
    /\ call' = [call EXCEPT ![r][c].step = "keys"]
    /\ UNCHANGED <<source, pointer, version, valid, stamp, snap, token, denied, raced, budget>>

Source(r) == IF File THEN watch[r].source ELSE source

SigningKeys(r, c) ==
    /\ call[r][c].step = "keys"
    /\ call' = [call EXCEPT ![r][c] = [@ EXCEPT !.step = "deny", !.keys = Source(r)]]
    /\ UNCHANGED <<source, pointer, version, valid, stamp, watch, snap, token, denied, raced, budget>>

DenylistedKids(r, c) ==
    /\ call[r][c].step = "deny"
    /\ call' = [call EXCEPT ![r][c] = [@ EXCEPT !.step = "swap", !.deny = Source(r).deny]]
    /\ UNCHANGED <<source, pointer, version, valid, stamp, watch, snap, token, denied, raced, budget>>

\* ReapRetiredKeys.
\* Mutant: every retiring key is reaped, its window over or not.
ReapEarly(status) == [k \in Kids |-> IF status[k] = "retiring" THEN "absent" ELSE status[k]]
ReapRetiredKeys(status) ==
    [k \in Kids |-> IF status[k] = "retiring" /\ stamp[k] = Over THEN "absent" ELSE status[k]]

\* buildKeyState, the Swap and, under store custody, the reaping; a failed build
\* keeps the last good snapshot, or refuses startup.  DenylistKid returns here.
Swap(r, c) ==
    LET it == call[r][c] IN
    /\ it.step = "swap"
    /\ call' = [call EXCEPT ![r][c] = Rest]
    /\ IF Buildable(it.keys)
       THEN /\ snap' = [snap EXCEPT ![r] = Build(it.keys, it.deny, it.age)]
            /\ source' = IF File THEN source ELSE [source EXCEPT !.status = ReapRetiredKeys(@)]
            /\ denied' = [denied EXCEPT ![r] = IF it.kid = None THEN @ ELSE @ \cup {it.kid}]
       ELSE UNCHANGED <<snap, source, denied>>
    /\ UNCHANGED <<pointer, version, valid, stamp, watch, token, raced, budget>>

\* A read of the custody source fails.
ReloadFails(r, c) ==
    /\ call[r][c].step \in {"keys", "deny"} /\ Spend("faults")
    /\ call' = [call EXCEPT ![r][c] = Rest]
    /\ UNCHANGED <<source, pointer, version, valid, stamp, watch, snap, token, denied, raced>>

-----------------------------------------------------------------------------
(* The operator.                                                           *)

Free(r) == snap[r].up /\ call[r]["operator"].step = "rest"

Rotated(pred, succ) ==
    source' = [source EXCEPT !.status[pred] = "retiring", !.status[succ] = "active"]

\* RotateSigningKey: rotate_key.lua compares the active kid of the caller's
\* snapshot; the loser of a race returns ErrRotationConflict.  A snapshot
\* without an active key cannot rotate.
RotateSigningKey(r) ==
    /\ ~File /\ Free(r) /\ Fresh \in Kids /\ snap[r].active # None /\ Spend("rotations")
    /\ IF snap[r].active = pointer
       THEN /\ Rotated(pointer, Fresh) /\ pointer' = Fresh
            /\ stamp' = [stamp EXCEPT ![pointer] = rotationOverlap]
            /\ Begin(r, "operator", "keys", None)
       ELSE UNCHANGED <<source, pointer, stamp, call>>
    /\ UNCHANGED <<version, valid, watch, snap, token, denied, raced>>

DenylistKid(r, k) ==
    /\ ~File /\ Free(r) /\ k \in Known /\ Spend("denials")
    /\ source' = [source EXCEPT !.deny = @ \cup {k}]
    /\ Begin(r, "operator", "keys", k)
    /\ UNCHANGED <<pointer, version, valid, stamp, watch, snap, token, denied, raced>>

\* File custody: the mount is replaced, with a successor, with a longer
\* denylist, or with something that does not parse.
ReplaceFile ==
    /\ File /\ version' = version + 1
    /\ \/ /\ Spend("rotations") /\ Fresh \in Kids /\ valid' = TRUE
          /\ LET pred == Max({k \in Kids : source.status[k] = "active"}) IN
             /\ Rotated(pred, Fresh) /\ stamp' = [stamp EXCEPT ![pred] = rotationOverlap]
       \/ /\ Spend("denials") /\ valid' = TRUE /\ UNCHANGED stamp
          /\ \E k \in Known \ {None} : source' = [source EXCEPT !.deny = @ \cup {k}]
       \/ /\ Spend("faults") /\ valid' = FALSE /\ UNCHANGED <<source, stamp>>
    /\ UNCHANGED <<pointer, watch, snap, call, token, denied, raced>>

-----------------------------------------------------------------------------

\* mintWakeTokenFor: the active key of the snapshot, none in an emergency stop.
Mint(r) ==
    /\ snap[r].up /\ snap[r].active # None /\ token.left = 0 /\ Spend("tokens")
    /\ token' = [kid |-> snap[r].active, left |-> TokenTTL, fresh |-> snap[r].age <= Skew]
    /\ UNCHANGED <<source, pointer, version, valid, stamp, watch, snap, call, denied, raced>>

Older(left) == CASE left = Unstamped -> Unstamped [] left \in {1, Over} -> Over [] OTHER -> left - 1

\* Ages are told apart up to the length of the window.
Aging(age) == IF age < rotationOverlap THEN age + 1 ELSE age

Tick ==
    /\ stamp' = [k \in Kids |-> Older(stamp[k])]
    /\ token' = [token EXCEPT !.left = Max({@ - 1, 0})]
    /\ snap' = [r \in Replicas |-> IF snap[r].up THEN [snap[r] EXCEPT !.age = Aging(@)] ELSE snap[r]]
    /\ call' = [r \in Replicas |-> [c \in Callers |->
                    IF call[r][c].step \in {"deny", "swap"}
                    THEN [call[r][c] EXCEPT !.age = Aging(@)] ELSE call[r][c]]]
    /\ UNCHANGED <<source, pointer, version, valid, watch, denied, raced, budget>>

Reload(r, c) ==
    \/ Stat(r, c) \/ Load(r, c) \/ SigningKeys(r, c) \/ DenylistedKids(r, c) \/ Swap(r, c)

Next ==
    \/ \E r \in Replicas :
          \/ LoadSigningKey(r) \/ NewFileKeyWatcher(r) \/ ArmWatcher(r) \/ StartReload(r)
          \/ \E c \in Callers : Reload(r, c) \/ ReloadFails(r, c)
          \/ RotateSigningKey(r) \/ Mint(r)
          \/ \E k \in Kids : DenylistKid(r, k)
    \/ ReplaceFile
    \/ Tick

\* keysReloadLoop keeps ticking and a call that started goes on.
Spec ==
    /\ Init /\ [][Next]_vars
    /\ \A r \in Replicas :
          /\ WF_vars(StartReload(r)) /\ WF_vars(ArmWatcher(r))
          /\ \A c \in Callers : WF_vars(Reload(r, c))

-----------------------------------------------------------------------------
(* Properties.                                                             *)

KeysType == [status : [Kids -> {"absent", "active", "retiring"}], deny : SUBSET Kids]

TypeOK ==
    /\ source \in KeysType /\ pointer \in {None} \cup Kids
    /\ stamp \in [Kids -> Over..rotationOverlap]
    /\ \A r \in Replicas :
          /\ watch[r].source \in KeysType /\ watch[r].version \in 0..version
          /\ snap[r].active \in {None} \cup Kids /\ snap[r].retiring \subseteq Kids \ {snap[r].active}
          /\ \A c \in Callers : call[r][c].age \in 0..rotationOverlap
    /\ token \in [kid : {None} \cup Kids, left : 0..TokenTTL, fresh : BOOLEAN]

\* Store custody always holds exactly one active key and the pointer names it,
\* whoever starts, rotates or reaps at the same time: otherwise every
\* buildKeyFamily fails and all replicas keep their last snapshot for ever.
FamilyIsWellFormed ==
    ~File /\ pointer # None => {k \in Kids : source.status[k] = "active"} = {pointer}

\* Rotation strands no token: an unexpired token whose kid is not revoked
\* verifies on every replica that has seen that key, however old the verifier's
\* snapshot is, and also when it was signed under the predecessor by a replica
\* that had not reloaded yet, provided that replica's snapshot was at most Skew
\* old, minutes against a keysReloadInterval of 15 seconds (store custody: a
\* mounted file may stay unreadable for as long as it likes).
TokensOutliveRotation ==
    ~File /\ token.left > 0 /\ token.fresh /\ token.kid \notin source.deny =>
        \A r \in Replicas : snap[r].newest >= token.kid => Verifies(r, token.kid)

\* The same for every token.  Does not hold: a replica whose reloads fail signs
\* with the predecessor up to the end of its window and beyond.
AnyTokenOutlivesRotation ==
    ~File /\ token.left > 0 /\ token.kid \notin source.deny =>
        \A r \in Replicas : snap[r].newest >= token.kid => Verifies(r, token.kid)

\* A key whose window has lapsed verifies on no replica whose snapshot is younger
\* than the window, though it was read when the key was still active or retiring.
RetiredKeyLapses ==
    ~File => \A r \in Replicas, k \in Kids :
                stamp[k] = Over /\ snap[r].age < rotationOverlap => ~Verifies(r, k)

\* The same on every replica.  Does not hold: ReloadKeys keeps the last good
\* snapshot for as long as it fails, and resolver lets the active key of that
\* snapshot verify.
RetiredVerifiesNowhere ==
    ~File => \A r \in Replicas, k \in Kids : stamp[k] = Over => ~Verifies(r, k)

\* A watcher that takes the file for unchanged has its contents, unless the
\* file was replaced between the load and the stat of NewFileKeyWatcher.
WatcherIsCurrent ==
    File => \A r \in Replicas \ raced :
               valid /\ watch[r].version = version /\ call[r]["loop"].step # "arm"
                  => watch[r].source = source

\* The same for every watcher.  Does not hold.
ReplacementIsPickedUp ==
    File => \A r \in Replicas :
               valid /\ watch[r].version = version /\ call[r]["loop"].step # "arm"
                  => watch[r].source = source

\* A revoked kid is refused everywhere in the end.
DenialSpreads ==
    <>[](valid => \A r \in Replicas \ raced : \A k \in source.deny : ~Verifies(r, k))

\* Once DenylistKid has returned on a replica, that replica refuses the kid.
\* Does not hold: an older ReloadKeys may swap its snapshot in afterwards.
DenylistIsImmediate == \A r \in Replicas : \A k \in denied[r] : ~Verifies(r, k)

\* A family stopped by revoking its active key can be started again by a
\* rotation on some replica.  Does not hold.
StopCanBeEnded ==
    ~File /\ pointer \in source.deny => \E r \in Replicas : ~snap[r].up \/ snap[r].active = pointer
=============================================================================
