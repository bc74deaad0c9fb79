-------------------------- MODULE KeyRotationProofs --------------------------
(***************************************************************************)
(* Proofs about KeyRotation under store custody: rotation strands no token *)
(* because the stamp of a retired key, the age of the snapshots that still *)
(* sign with it and the life of the tokens they sign add up.  No snapshot  *)
(* is assumed to be reloaded in time: what depends on its age says so.     *)
(***************************************************************************)
EXTENDS KeyRotation, FiniteSetTheorems, TLAPS

-----------------------------------------------------------------------------
(* The invariant *)

Stamps == [Kids -> Over .. rotationOverlap]

\* What was read this long ago had k as its active key: k is not retired, or was
\* retired no longer ago than that.  Past the length of the window an age tells
\* nothing.
Timely(S, k, age) ==
    age < rotationOverlap => S[k] = Unstamped \/ S[k] + age >= rotationOverlap

\* The hash of keys: every key before the active one is retiring, until its window
\* is over and it may be reaped.
KeyShape(status, S, p, k) ==
    /\ k = p => status[k] = "active" /\ S[k] = Unstamped
    /\ k < p => \/ status[k] = "retiring" /\ S[k] # Unstamped
                \/ status[k] = "absent" /\ S[k] = Over
    /\ k > p => status[k] = "absent" /\ S[k] = Unstamped

\* What a call has read: the hash as it was when q was active.
KeysWhen(keys, S, q) ==
    \A k \in Kids :
       /\ k = q => keys.status[k] = "active"
       /\ k < q => keys.status[k] = "retiring" \/ (keys.status[k] = "absent" /\ S[k] = Over)
       /\ k > q => keys.status[k] = "absent"

KeysOK(S, keys, age) ==
    \E q \in 0 .. MaxKid : (q # 0 => Timely(S, q, age)) /\ KeysWhen(keys, S, q)

SnapType == [up : BOOLEAN, active : 0 .. MaxKid, retiring : SUBSET Kids,
             newest : 0 .. MaxKid, age : 0 .. rotationOverlap]

SnapOK(S, deny, s) ==
    /\ ~s.up => s.newest = 0 /\ s.active = None
    /\ s.up => /\ s.newest # 0 /\ Timely(S, s.newest, s.age)
               /\ s.active = s.newest \/ (s.active = None /\ s.newest \in deny)
               /\ \A k \in Kids : k < s.newest => k \in s.retiring \/ S[k] = Over \/ k \in deny

CallType == [step : {"rest", "keys", "deny", "swap"}, keys : KeysType, deny : SUBSET Kids,
             age : 0 .. rotationOverlap, kid : 0 .. MaxKid]

CallOK(S, deny, it) ==
    /\ it.step \in {"deny", "swap"} => KeysOK(S, it.keys, it.age)
    /\ it.step = "swap" => it.deny \subseteq deny

TokenOK(S, tok) ==
    tok.left > 0 => /\ tok.kid \in Kids
                    /\ tok.fresh => S[tok.kid] = Unstamped \/ S[tok.kid] >= tok.left

TokenType == [kid : 0 .. MaxKid, left : 0 .. TokenTTL, fresh : BOOLEAN]

Types ==
    /\ source \in KeysType /\ pointer \in 0 .. MaxKid /\ stamp \in Stamps
    /\ snap \in [Replicas -> SnapType] /\ call \in [Replicas -> [Callers -> CallType]]
    /\ token \in TokenType

\* Under store custody.
StoreInv ==
    /\ Types
    /\ \A k \in Kids : KeyShape(source.status, stamp, pointer, k)
    /\ \A r \in Replicas : SnapOK(stamp, source.deny, snap[r])
    /\ \A r \in Replicas, c \in Callers : CallOK(stamp, source.deny, call[r][c])
    /\ TokenOK(stamp, token)

BudgetType == [custody : {"store", "file"}, replicas : SUBSET Replicas,
               rotations : Nat, denials : Nat, faults : Nat, tokens : Nat]

\* The inductive invariant.
RotInv == budget \in BudgetType /\ (~File => StoreInv)

-----------------------------------------------------------------------------
(* Numbers *)

LEMMA Numbers ==
    /\ Kids \subseteq Nat /\ MaxKid \in Nat /\ rotationOverlap \in Nat
    /\ rotationOverlap = TokenTTL + Skew /\ Skew < rotationOverlap
    /\ TokenTTL \in Nat /\ Skew \in Nat
    /\ 0 < TokenTTL /\ 0 < rotationOverlap
    /\ \A k : k \in Kids <=> k \in 0 .. MaxKid /\ k # 0
BY ConstantAssumption DEF Kids, rotationOverlap

LEMMA StampInt ==
    ASSUME NEW S \in Stamps, NEW k \in Kids
    PROVE  S[k] \in Int /\ S[k] >= -1 /\ S[k] <= rotationOverlap
<1>1. S[k] \in Over .. rotationOverlap
  BY Zenon DEF Stamps
<1> QED
  BY <1>1, Numbers DEF Over

-----------------------------------------------------------------------------
(* Another key is retired: what was read stays good. *)

Later(S, T) == \A k \in Kids : T[k] = S[k] \/ (S[k] = Unstamped /\ T[k] = rotationOverlap)

LEMMA LaterTimely ==
    ASSUME NEW S \in Stamps, NEW T \in Stamps, Later(S, T), NEW k \in Kids, NEW age \in Nat,
           Timely(S, k, age)
    PROVE  Timely(T, k, age)
<1>1. CASE T[k] = S[k]
  BY <1>1, Zenon DEF Timely
<1>2. CASE T[k] = rotationOverlap
  BY <1>2, Numbers DEF Timely
<1> QED
  BY <1>1, <1>2, Zenon DEF Later

LEMMA LaterOver ==
    ASSUME NEW S, NEW T, Later(S, T), NEW k \in Kids, S[k] = Over
    PROVE  T[k] = Over
<1>1. S[k] # Unstamped
  BY DEF Over, Unstamped
<1> QED
  BY <1>1, Zenon DEF Later

LEMMA LaterKeys ==
    ASSUME NEW S \in Stamps, NEW T \in Stamps, Later(S, T), NEW keys, NEW age \in Nat,
           KeysOK(S, keys, age)
    PROVE  KeysOK(T, keys, age)
<1>1. PICK q \in 0 .. MaxKid : (q # 0 => Timely(S, q, age)) /\ KeysWhen(keys, S, q)
  BY Zenon DEF KeysOK
<1>2. q # 0 => Timely(T, q, age)
  BY <1>1, Numbers, LaterTimely, Zenon
<1>3. \A k \in Kids : S[k] = Over => T[k] = Over
  BY LaterOver, Zenon
<1>4. KeysWhen(keys, T, q)
  BY <1>1, <1>3, Zenon DEF KeysWhen
<1> QED
  BY <1>2, <1>4, Zenon DEF KeysOK

LEMMA LaterSnap ==
    ASSUME NEW S \in Stamps, NEW T \in Stamps, Later(S, T), NEW deny, NEW deny2,
           deny \subseteq deny2, NEW s \in SnapType, SnapOK(S, deny, s)
    PROVE  SnapOK(T, deny2, s)
<1>1. s.age \in Nat /\ s.newest \in 0 .. MaxKid
  BY Numbers DEF SnapType
<1>2. s.newest # 0 /\ Timely(S, s.newest, s.age) => Timely(T, s.newest, s.age)
  BY <1>1, Numbers, LaterTimely, Zenon
<1>3. \A k \in Kids : S[k] = Over => T[k] = Over
  BY LaterOver, Zenon
<1> QED
  BY <1>2, <1>3, ZenonT(40) DEF SnapOK

LEMMA LaterCall ==
    ASSUME NEW S \in Stamps, NEW T \in Stamps, Later(S, T), NEW deny, NEW deny2,
           deny \subseteq deny2, NEW it \in CallType, CallOK(S, deny, it)
    PROVE  CallOK(T, deny2, it)
<1>1. it.age \in Nat
  BY Numbers DEF CallType
<1>2. KeysOK(S, it.keys, it.age) => KeysOK(T, it.keys, it.age)
  BY <1>1, LaterKeys, Zenon
<1> QED
  BY <1>2, Zenon DEF CallOK

LEMMA LaterToken ==
    ASSUME NEW S \in Stamps, NEW T \in Stamps, Later(S, T), NEW tok \in TokenType, TokenOK(S, tok)
    PROVE  TokenOK(T, tok)
<1> SUFFICES ASSUME tok.left > 0
             PROVE  /\ tok.kid \in Kids
                    /\ tok.fresh => T[tok.kid] = Unstamped \/ T[tok.kid] >= tok.left
  BY Zenon DEF TokenOK
<1>1. PICK k \in Kids : /\ k = tok.kid
                        /\ tok.fresh => S[k] = Unstamped \/ S[k] >= tok.left
  BY Zenon DEF TokenOK
<1>2. CASE T[k] = S[k]
  BY <1>1, <1>2, Zenon
<1>3. CASE T[k] = rotationOverlap
  <2>1. tok.left \in 0 .. TokenTTL
    BY Zenon DEF TokenType
  <2>2. rotationOverlap >= tok.left
    BY <2>1, Numbers
  <2> QED
    BY <1>1, <1>3, <2>2, Zenon
<1> QED
  BY <1>2, <1>3, Zenon DEF Later

-----------------------------------------------------------------------------
(* A step that is not a tick: what it changes, and that the rest stays. *)

CustodyStep ==
    /\ source' \in KeysType /\ pointer' \in 0 .. MaxKid /\ stamp' \in Stamps
    /\ \A k \in Kids : KeyShape(source'.status, stamp', pointer', k)
    /\ Later(stamp, stamp') /\ source.deny \subseteq source'.deny

SnapStep ==
    \/ snap' = snap
    \/ \E r \in Replicas, s \in SnapType :
          SnapOK(stamp', source'.deny, s) /\ snap' = [snap EXCEPT ![r] = s]

CallStep ==
    \/ call' = call
    \/ \E r \in Replicas, c \in Callers, it \in CallType :
          CallOK(stamp', source'.deny, it) /\ call' = [call EXCEPT ![r][c] = it]

TokenStep == token' = token \/ (token' \in TokenType /\ TokenOK(stamp', token'))

LEMMA SameCustody ==
    ASSUME StoreInv, UNCHANGED <<source, pointer, stamp>>
    PROVE  CustodyStep
<1>1. source' = source /\ pointer' = pointer /\ stamp' = stamp
  OBVIOUS
<1>2. Later(stamp, stamp)
  BY Zenon DEF Later
<1>3. /\ source \in KeysType /\ pointer \in 0 .. MaxKid /\ stamp \in Stamps
      /\ \A k \in Kids : KeyShape(source.status, stamp, pointer, k)
  BY Zenon DEF StoreInv, Types
<1> QED
  BY <1>1, <1>2, <1>3, Zenon DEF CustodyStep

LEMMA SnapsKept ==
    ASSUME StoreInv, CustodyStep, SnapStep
    PROVE  /\ snap' \in [Replicas -> SnapType]
           /\ \A r \in Replicas : SnapOK(stamp', source'.deny, snap'[r])
<1>1. /\ snap \in [Replicas -> SnapType] /\ stamp \in Stamps
      /\ \A r \in Replicas : SnapOK(stamp, source.deny, snap[r])
  BY Zenon DEF StoreInv, Types
<1>2. stamp' \in Stamps /\ Later(stamp, stamp') /\ source.deny \subseteq source'.deny
  BY Zenon DEF CustodyStep
<1>3. ASSUME NEW r \in Replicas PROVE SnapOK(stamp', source'.deny, snap[r])
  <2>1. snap[r] \in SnapType /\ SnapOK(stamp, source.deny, snap[r])
    BY <1>1, Zenon
  <2> QED
    BY <1>1, <1>2, <2>1, LaterSnap, Zenon
<1>4. CASE snap' = snap
  BY <1>1, <1>3, <1>4, Zenon
<1>5. ASSUME NEW r \in Replicas, NEW s \in SnapType,
             SnapOK(stamp', source'.deny, s), snap' = [snap EXCEPT ![r] = s]
      PROVE  /\ snap' \in [Replicas -> SnapType]
             /\ \A x \in Replicas : SnapOK(stamp', source'.deny, snap'[x])
  <2>1. /\ snap' \in [Replicas -> SnapType]
        /\ \A x \in Replicas : snap'[x] = s \/ snap'[x] = snap[x]
    BY <1>1, <1>5, Zenon
  <2> QED
    BY <1>3, <1>5, <2>1, Zenon
<1> QED
  BY <1>4, <1>5, Zenon DEF SnapStep

LEMMA CallsKept ==
    ASSUME StoreInv, CustodyStep, CallStep
    PROVE  /\ call' \in [Replicas -> [Callers -> CallType]]
           /\ \A r \in Replicas, c \in Callers : CallOK(stamp', source'.deny, call'[r][c])
<1>1. /\ call \in [Replicas -> [Callers -> CallType]] /\ stamp \in Stamps
      /\ \A r \in Replicas, c \in Callers : CallOK(stamp, source.deny, call[r][c])
  BY Zenon DEF StoreInv, Types
<1>2. stamp' \in Stamps /\ Later(stamp, stamp') /\ source.deny \subseteq source'.deny
  BY Zenon DEF CustodyStep
<1>3. ASSUME NEW r \in Replicas, NEW c \in Callers PROVE CallOK(stamp', source'.deny, call[r][c])
  <2>1. call[r][c] \in CallType /\ CallOK(stamp, source.deny, call[r][c])
    BY <1>1, Zenon
  <2> QED
    BY <1>1, <1>2, <2>1, LaterCall, Zenon
<1>4. CASE call' = call
  BY <1>1, <1>3, <1>4, Zenon
<1>5. ASSUME NEW r \in Replicas, NEW c \in Callers, NEW it \in CallType,
             CallOK(stamp', source'.deny, it), call' = [call EXCEPT ![r][c] = it]
      PROVE  /\ call' \in [Replicas -> [Callers -> CallType]]
             /\ \A x \in Replicas, y \in Callers : CallOK(stamp', source'.deny, call'[x][y])
  <2>1. /\ call' \in [Replicas -> [Callers -> CallType]]
        /\ call'[r][c] = it
        /\ \A x \in Replicas, y \in Callers : (x = r /\ y = c) \/ call'[x][y] = call[x][y]
    <3>1. /\ [call EXCEPT ![r][c] = it] \in [Replicas -> [Callers -> CallType]]
          /\ [call EXCEPT ![r][c] = it][r][c] = it
          /\ \A x \in Replicas, y \in Callers :
                (x = r /\ y = c) \/ [call EXCEPT ![r][c] = it][x][y] = call[x][y]
      BY <1>1, SMT
    <3> QED
      BY <1>5, <3>1, Zenon
  <2> QED
    BY <1>3, <1>5, <2>1, Zenon
<1> QED
  BY <1>4, <1>5, Zenon DEF CallStep

LEMMA TokenKept ==
    ASSUME StoreInv, CustodyStep, TokenStep
    PROVE  token' \in TokenType /\ TokenOK(stamp', token')
<1>1. token \in TokenType /\ TokenOK(stamp, token) /\ stamp \in Stamps
  BY Zenon DEF StoreInv, Types, TokenType
<1>2. stamp' \in Stamps /\ Later(stamp, stamp')
  BY Zenon DEF CustodyStep
<1>3. TokenOK(stamp', token)
  BY <1>1, <1>2, LaterToken, Zenon DEF TokenType
<1> QED
  BY <1>1, <1>3, Zenon DEF TokenStep

LEMMA Framed ==
    ASSUME StoreInv, CustodyStep, SnapStep, CallStep, TokenStep
    PROVE  StoreInv'
<1>1. /\ source' \in KeysType /\ pointer' \in 0 .. MaxKid /\ stamp' \in Stamps
      /\ \A k \in Kids : KeyShape(source.status, stamp, pointer, k)'
  BY Zenon DEF CustodyStep, KeyShape
<1>2. Types'
  BY <1>1, SnapsKept, CallsKept, TokenKept, Zenon DEF Types, TokenType
<1>3. \A r \in Replicas : SnapOK(stamp, source.deny, snap[r])'
  BY SnapsKept, ZenonT(40) DEF SnapOK, Timely
<1>4. \A r \in Replicas, c \in Callers : CallOK(stamp, source.deny, call[r][c])'
  BY CallsKept, Zenon DEF CallOK, KeysOK, Timely, KeysWhen
<1>5. TokenOK(stamp, token)'
  BY TokenKept, Zenon DEF TokenOK
<1> QED
  BY <1>1, <1>2, <1>3, <1>4, <1>5, Zenon DEF StoreInv

-----------------------------------------------------------------------------
(* What the steps read and build *)

LEMMA MaxIs ==
    ASSUME NEW S \in SUBSET Int, NEW m \in S, \A y \in S : m >= y
    PROVE  Max(S) = m
<1>1. /\ Max(S) \in S
      /\ \A y \in S : Max(S) >= y
  BY Zenon DEF Max
<1>2. Max(S) >= m /\ m >= Max(S)
  BY <1>1, Zenon
<1>3. Max(S) \in Int /\ m \in Int
  BY <1>1, Zenon
<1> QED
  BY <1>2, <1>3

LEMMA FreshIs ==
    ASSUME StoreInv
    PROVE  Fresh = pointer + 1
<1> DEFINE D == {0} \cup {k \in Kids : source.status[k] # "absent" \/ stamp[k] # Unstamped}
                    \cup {pointer}
<1>1. pointer \in Nat /\ \A k \in Kids : KeyShape(source.status, stamp, pointer, k)
  BY Numbers DEF StoreInv, Types
<1>2. D \in SUBSET Int
  BY <1>1, Numbers
<1>3. pointer \in D
  OBVIOUS
<1>4. ASSUME NEW y \in D PROVE pointer >= y
  <2>1. CASE y = 0 \/ y = pointer
    BY <1>1, <2>1
  <2>2. CASE y \in Kids /\ (source.status[y] # "absent" \/ stamp[y] # Unstamped)
    <3>1. ~(y > pointer)
      BY <1>1, <2>2, Zenon DEF KeyShape
    <3>2. y \in Nat
      BY <2>2, Numbers
    <3> QED
      BY <1>1, <3>1, <3>2
  <2> QED
    BY <2>1, <2>2, Zenon
<1>5. Max(D) = pointer
  <2> HIDE DEF D
  <2> QED
    BY <1>2, <1>3, <1>4, MaxIs, Zenon
<1>6. Fresh = 1 + Max(D)
  BY Zenon DEF Fresh
<1> HIDE DEF D
<1> QED
  BY <1>1, <1>5, <1>6

\* Reading the hash now: its active key is not retired.
LEMMA ReadNow ==
    ASSUME StoreInv, NEW age \in Nat
    PROVE  KeysOK(stamp, source, age)
<1>1. pointer \in 0 .. MaxKid /\ \A k \in Kids : KeyShape(source.status, stamp, pointer, k)
  BY Zenon DEF StoreInv, Types
<1>2. ASSUME pointer # 0 PROVE Timely(stamp, pointer, age)
  <2>1. pointer \in Kids
    BY <1>1, <1>2, Numbers, Zenon
  <2> QED
    BY <1>1, <2>1, Zenon DEF KeyShape, Timely
<1>3. KeysWhen(source, stamp, pointer)
  BY <1>1, Zenon DEF KeyShape, KeysWhen
<1> QED
  BY <1>1, <1>2, <1>3, Zenon DEF KeysOK

\* A snapshot built from what a call read.
LEMMA Built ==
    ASSUME stamp \in Stamps, NEW keys \in KeysType, NEW deny \in SUBSET Kids,
           NEW age \in 0 .. rotationOverlap,
           KeysOK(stamp, keys, age), Buildable(keys)
    PROVE  /\ Build(keys, deny, age) \in SnapType
           /\ \A d : deny \subseteq d => SnapOK(stamp, d, Build(keys, deny, age))
<1>1. PICK q \in 0 .. MaxKid : (q # 0 => Timely(stamp, q, age)) /\ KeysWhen(keys, stamp, q)
  BY Zenon DEF KeysOK
<1>2. q \in Nat /\ \A k \in Kids : k \in Nat /\ (k = q \/ k < q \/ k > q)
  BY Numbers
<1>3. q \in Kids
  <2> SUFFICES ASSUME q = 0 PROVE FALSE
    BY Numbers, Zenon
  <2>1. \A k \in Kids : k > q
    BY Numbers
  <2>2. {k \in Kids : keys.status[k] = "active"} = {}
    <3>1. \A k \in Kids : keys.status[k] = "absent"
      BY <1>1, <2>1, Zenon DEF KeysWhen
    <3> QED
      BY <3>1
  <2>3. Cardinality({k \in Kids : keys.status[k] = "active"}) = 0
    BY <2>2, FS_EmptySet, Zenon
  <2> QED
    BY <2>3 DEF Buildable
<1>4. \A k \in Kids : keys.status[k] = "active" <=> k = q
  BY <1>1, <1>2 DEF KeysWhen
<1>5. Max({0} \cup {k \in Kids : keys.status[k] # "absent"}) = q
  <2> DEFINE D == {0} \cup {k \in Kids : keys.status[k] # "absent"}
  <2>1. D \in SUBSET Int
    BY Numbers
  <2>2. q \in D
    BY <1>3, <1>4
  <2>3. ASSUME NEW y \in D PROVE q >= y
    <3>1. CASE y = 0
      BY <1>2, <3>1
    <3>2. CASE y \in Kids /\ keys.status[y] # "absent"
      <4>1. ~(y > q)
        BY <1>1, <3>2, Zenon DEF KeysWhen
      <4> QED
        BY <1>2, <3>2, <4>1
    <3> QED
      BY <3>1, <3>2, Zenon
  <2> HIDE DEF D
  <2>4. Max(D) = q
    BY <2>1, <2>2, <2>3, MaxIs, Zenon
  <2> QED
    BY <2>4, Zenon DEF D
<1>6. (q \in deny /\ Active(keys, deny) = None) \/ (q \notin deny /\ Active(keys, deny) = q)
  <2>1. CASE q \in deny
    <3>1. {k \in Kids \ deny : keys.status[k] = "active"} = {}
      BY <1>4, <2>1, Zenon
    <3> QED
      BY <2>1, <3>1, Zenon DEF Active
  <2>2. CASE q \notin deny
    <3>1. {k \in Kids \ deny : keys.status[k] = "active"} = {q}
      BY <1>3, <1>4, <2>2, Zenon
    <3>2. Max({q}) = q
      <4>1. {q} \in SUBSET Int /\ q \in {q} /\ \A y \in {q} : q >= y
        BY <1>2
      <4> QED
        BY <4>1, MaxIs, Zenon
    <3>3. {q} # {}
      BY Zenon
    <3> QED
      BY <2>2, <3>1, <3>2, <3>3, Zenon DEF Active
  <2> QED
    BY <2>1, <2>2, Zenon
<1>7. ASSUME NEW k \in Kids, k < q
      PROVE  k \in Retiring(keys, deny) \/ stamp[k] = Over \/ k \in deny
  BY <1>1, <1>7, Zenon DEF KeysWhen, Retiring
<1>8. PICK b : b = Build(keys, deny, age)
  BY Zenon
<1>9. /\ b = [up |-> TRUE, active |-> Active(keys, deny), retiring |-> Retiring(keys, deny),
              age |-> age, newest |-> q]
  BY <1>5, <1>8, Zenon DEF Build
<1>10. /\ Active(keys, deny) \in 0 .. MaxKid /\ Retiring(keys, deny) \in SUBSET Kids
  <2>1. None \in 0 .. MaxKid
    BY Numbers DEF None
  <2> QED
    BY <1>6, <2>1, Zenon DEF Retiring
<1>11. b \in SnapType
  <2>1. PICK a, R : a = Active(keys, deny) /\ R = Retiring(keys, deny)
    BY Zenon
  <2> QED
    BY <1>9, <1>10, <2>1 DEF SnapType
<1>12. /\ b.up = TRUE /\ b.active = Active(keys, deny) /\ b.retiring = Retiring(keys, deny)
       /\ b.age = age /\ b.newest = q
  BY <1>9, Zenon
<1>13. q # 0
  BY <1>3, Numbers, Zenon
<1>14. ASSUME NEW d, deny \subseteq d PROVE SnapOK(stamp, d, b)
  <2>1. b.active = b.newest \/ (b.active = None /\ b.newest \in d)
    BY <1>6, <1>12, <1>14, Zenon
  <2>2. \A k \in Kids : k < b.newest => k \in b.retiring \/ stamp[k] = Over \/ k \in d
    BY <1>7, <1>12, <1>14, Zenon
  <2>3. b.newest # 0 /\ Timely(stamp, b.newest, b.age)
    BY <1>1, <1>12, <1>13, Zenon
  <2> QED
    BY <1>12, <2>1, <2>2, <2>3, ZenonT(40) DEF SnapOK
<1> QED
  BY <1>8, <1>11, <1>14, Zenon

-----------------------------------------------------------------------------
(* The actions under store custody *)

LEMMA RestType ==
    /\ NoKeys \in KeysType /\ Rest \in CallType
    /\ Rest.step = "rest" /\ 0 \in 0 .. MaxKid /\ None \in 0 .. MaxKid
<1>1. 0 \in 0 .. MaxKid /\ 0 \in 0 .. rotationOverlap /\ None \in 0 .. MaxKid
  BY Numbers DEF None
<1>2. NoKeys \in KeysType
  BY Zenon DEF NoKeys, KeysType
<1>3. {} \in SUBSET Kids
  BY Zenon
<1> QED
  BY <1>1, <1>2, <1>3 DEF Rest, CallType

LEMMA Began ==
    ASSUME NEW r \in Replicas, NEW c \in Callers, NEW kid \in 0 .. MaxKid,
           Begin(r, c, "keys", kid)
    PROVE  CallStep
<1>1. PICK it : it = [Rest EXCEPT !.step = "keys", !.kid = kid]
  BY Zenon
<1>2. it \in CallType /\ it.step = "keys"
  BY <1>1, RestType, Zenon DEF CallType
<1>3. CallOK(stamp', source'.deny, it)
  <2>1. it.step \notin {"deny", "swap"} /\ it.step # "swap"
    BY <1>2
  <2> QED
    BY <2>1, Zenon DEF CallOK
<1>4. call' = [call EXCEPT ![r][c] = it]
  BY <1>1, Zenon DEF Begin
<1> QED
  BY <1>2, <1>3, <1>4, Zenon DEF CallStep

LEMMA Rested ==
    ASSUME NEW r \in Replicas, NEW c \in Callers, call' = [call EXCEPT ![r][c] = Rest]
    PROVE  CallStep
<1>1. Rest.step \notin {"deny", "swap"} /\ Rest.step # "swap"
  BY RestType
<1>2. CallOK(stamp', source'.deny, Rest)
  BY <1>1, Zenon DEF CallOK
<1> QED
  BY <1>2, RestType, Zenon DEF CallStep

LEMMA SigningKeysStep ==
    ASSUME StoreInv, ~File, NEW r \in Replicas, NEW c \in Callers, SigningKeys(r, c)
    PROVE  StoreInv'
<1>1. /\ call' = [call EXCEPT ![r][c] = [call[r][c] EXCEPT !.step = "deny", !.keys = Source(r)]]
      /\ UNCHANGED <<source, pointer, stamp, snap, token>>
  BY DEF SigningKeys, StoreInv, Types
<1>2. Source(r) = source
  BY Zenon DEF Source
<1>3. call[r][c] \in CallType /\ source \in KeysType
  BY Zenon DEF StoreInv, Types
<1>4. PICK it : it = [call[r][c] EXCEPT !.step = "deny", !.keys = source]
  BY Zenon
<1>5. it \in CallType /\ it.step = "deny" /\ it.keys = source /\ it.age \in Nat
  <2>1. /\ it \in CallType /\ it.step = "deny" /\ it.keys = source
        /\ it.age \in 0 .. rotationOverlap
    BY <1>3, <1>4, ZenonT(40) DEF CallType
  <2> QED
    BY <2>1, Numbers
<1>6. KeysOK(stamp, it.keys, it.age)
  BY <1>5, ReadNow, Zenon
<1>7. it.step # "swap"
  BY <1>5
<1>8. stamp' = stamp /\ source' = source
  BY <1>1
<1>9. CallOK(stamp', source'.deny, it)
  BY <1>6, <1>7, <1>8, Zenon DEF CallOK
<1>10. CallStep
  BY <1>1, <1>2, <1>4, <1>5, <1>9, Zenon DEF CallStep
<1> QED
  BY <1>1, <1>10, SameCustody, Framed, Zenon DEF SnapStep, TokenStep

LEMMA DenylistedKidsStep ==
    ASSUME StoreInv, ~File, NEW r \in Replicas, NEW c \in Callers, DenylistedKids(r, c)
    PROVE  StoreInv'
<1>1. /\ call[r][c].step = "deny"
      /\ call' = [call EXCEPT ![r][c] = [call[r][c] EXCEPT !.step = "swap", !.deny = Source(r).deny]]
      /\ UNCHANGED <<source, pointer, stamp, snap, token>>
  BY DEF DenylistedKids, StoreInv, Types
<1>2. Source(r) = source
  BY Zenon DEF Source
<1>3. /\ call[r][c] \in CallType /\ source \in KeysType
      /\ CallOK(stamp, source.deny, call[r][c])
  BY Zenon DEF StoreInv, Types
<1>4. PICK it : it = [call[r][c] EXCEPT !.step = "swap", !.deny = source.deny]
  BY Zenon
<1>5. /\ it \in CallType /\ it.deny = source.deny
      /\ it.keys = call[r][c].keys /\ it.age = call[r][c].age
  <2>1. source.deny \in SUBSET Kids
    BY <1>3 DEF KeysType
  <2> QED
    BY <1>3, <1>4, <2>1, Zenon DEF CallType
<1>6. KeysOK(stamp, it.keys, it.age)
  <2>1. call[r][c].step \in {"deny", "swap"}
    BY <1>1
  <2> QED
    BY <1>3, <1>5, <2>1, Zenon DEF CallOK
<1>8. stamp' = stamp /\ source' = source
  BY <1>1
<1>9. CallOK(stamp', source'.deny, it)
  BY <1>5, <1>6, <1>8, Zenon DEF CallOK
<1>10. CallStep
  BY <1>1, <1>2, <1>4, <1>5, <1>9, Zenon DEF CallStep
<1> QED
  BY <1>1, <1>10, SameCustody, Framed, Zenon DEF SnapStep, TokenStep

\* Reaping removes keys whose window is over, the active one never.
LEMMA Reaped ==
    ASSUME StoreInv
    PROVE  /\ [source EXCEPT !.status = ReapRetiredKeys(source.status)] \in KeysType
           /\ \A k \in Kids : KeyShape(ReapRetiredKeys(source.status), stamp, pointer, k)
<1>1. source \in KeysType /\ pointer \in Nat /\ stamp \in Stamps
  BY Numbers DEF StoreInv, Types
<1>2. ReapRetiredKeys(source.status) \in [Kids -> {"absent", "active", "retiring"}]
  <2>1. source.status \in [Kids -> {"absent", "active", "retiring"}]
    BY <1>1 DEF KeysType
  <2> QED
    BY <2>1 DEF ReapRetiredKeys
<1>3. ASSUME NEW k \in Kids PROVE KeyShape(ReapRetiredKeys(source.status), stamp, pointer, k)
  <2>1. KeyShape(source.status, stamp, pointer, k)
    BY Zenon DEF StoreInv
  <2>2. ReapRetiredKeys(source.status)[k] =
           IF source.status[k] = "retiring" /\ stamp[k] = Over THEN "absent" ELSE source.status[k]
    BY Zenon DEF ReapRetiredKeys
  <2>3. k \in Nat
    BY Numbers
  <2> QED
    BY <1>1, <2>1, <2>2, <2>3 DEF KeyShape
<1> QED
  BY <1>1, <1>2, <1>3 DEF KeysType

LEMMA SwapStep ==
    ASSUME StoreInv, ~File, NEW r \in Replicas, NEW c \in Callers, Swap(r, c)
    PROVE  StoreInv'
<1>1. PICK it : it = call[r][c]
  BY Zenon
<1>2. /\ it.step = "swap"
      /\ call' = [call EXCEPT ![r][c] = Rest]
      /\ pointer' = pointer /\ stamp' = stamp /\ token' = token
  BY <1>1 DEF Swap
<1>3. it \in CallType /\ CallOK(stamp, source.deny, it) /\ stamp \in Stamps
  BY <1>1, Zenon DEF StoreInv, Types
<1>4. CallStep
  BY <1>2, Rested, Zenon
<1>5. CASE ~Buildable(it.keys)
  <2>1. snap' = snap /\ source' = source
    BY <1>1, <1>5, Zenon DEF Swap
  <2> QED
    BY <1>2, <1>4, <2>1, SameCustody, Framed, Zenon DEF SnapStep, TokenStep
<1>6. CASE Buildable(it.keys)
  <2>1. /\ snap' = [snap EXCEPT ![r] = Build(it.keys, it.deny, it.age)]
        /\ source' = [source EXCEPT !.status = ReapRetiredKeys(source.status)]
    BY <1>1, <1>6, Zenon DEF Swap
  <2>2. source \in KeysType
    BY Zenon DEF StoreInv, Types
  <2>3. /\ source'.deny = source.deny
        /\ source'.status = ReapRetiredKeys(source.status)
    BY <2>1, <2>2 DEF KeysType
  <2>4. CustodyStep
    <3>1. Later(stamp, stamp')
      BY <1>2, Zenon DEF Later
    <3>2. pointer' \in 0 .. MaxKid /\ stamp' \in Stamps
      BY <1>2, Zenon DEF StoreInv, Types
    <3>3. \A k \in Kids : KeyShape(source'.status, stamp', pointer', k)
      BY <1>2, <2>3, Reaped, Zenon
    <3>4. source' \in KeysType
      BY <2>1, Reaped, Zenon
    <3> QED
      BY <2>3, <3>1, <3>2, <3>3, <3>4, Zenon DEF CustodyStep
  <2>5. it.step \in {"deny", "swap"}
    BY <1>2
  <2>6. /\ it.keys \in KeysType /\ it.deny \in SUBSET Kids /\ it.age \in 0 .. rotationOverlap
        /\ KeysOK(stamp, it.keys, it.age) /\ it.deny \subseteq source.deny
    <3>1. /\ it.keys \in KeysType /\ it.deny \in SUBSET Kids /\ it.age \in 0 .. rotationOverlap
      BY <1>3 DEF CallType
    <3> QED
      BY <1>2, <1>3, <2>5, <3>1, Zenon DEF CallOK
  <2>7. /\ Build(it.keys, it.deny, it.age) \in SnapType
        /\ \A d : it.deny \subseteq d => SnapOK(stamp, d, Build(it.keys, it.deny, it.age))
    BY <1>3, <1>6, <2>6, Built, Zenon
  <2>8. SnapOK(stamp', source'.deny, Build(it.keys, it.deny, it.age))
    BY <1>2, <2>3, <2>6, <2>7, Zenon
  <2>9. SnapStep
    BY <2>1, <2>7, <2>8, Zenon DEF SnapStep
  <2> QED
    BY <1>2, <1>4, <2>4, <2>9, Framed, Zenon DEF TokenStep
<1> QED
  BY <1>5, <1>6, Zenon

\* get_or_create_key.lua adopts the active key; it installs one only when there
\* never was any.
LEMMA LoadSigningKeyStep ==
    ASSUME StoreInv, NEW r \in Replicas, LoadSigningKey(r)
    PROVE  StoreInv'
<1>1. /\ Begin(r, "loop", "keys", None)
      /\ stamp' = stamp /\ snap' = snap /\ token' = token
  BY DEF LoadSigningKey
<1>2. CallStep
  <2>1. "loop" \in Callers
    BY DEF Callers
  <2> QED
    BY <1>1, <2>1, RestType, Began, Zenon
<1>3. /\ source \in KeysType /\ pointer \in 0 .. MaxKid /\ stamp \in Stamps
      /\ \A k \in Kids : KeyShape(source.status, stamp, pointer, k)
  BY Zenon DEF StoreInv, Types
<1>4. CASE UNCHANGED <<source, pointer>>
  BY <1>1, <1>2, <1>4, SameCustody, Framed, Zenon DEF SnapStep, TokenStep
<1>5. CASE /\ ~(pointer # None /\ source.status[pointer] # "absent")
           /\ source' = [source EXCEPT !.status[Fresh] = "active"] /\ pointer' = Fresh
  <2>1. pointer = 0
    <3> SUFFICES ASSUME pointer # 0 PROVE FALSE
      BY Zenon
    <3>1. pointer \in Kids
      BY <1>3, Numbers, Zenon
    <3>2. source.status[pointer] = "active"
      BY <1>3, <3>1, Zenon DEF KeyShape
    <3> QED
      BY <1>5, <3>2 DEF None
  <2>2. Fresh = 1 /\ 1 \in Kids
    <3>1. Fresh = 1
      BY <2>1, FreshIs
    <3>2. 1 \in 0 .. MaxKid
      BY ConstantAssumption
    <3> QED
      BY <3>1, <3>2, Numbers
  <2>3. /\ source' \in KeysType /\ source'.deny = source.deny
        /\ source'.status = [source.status EXCEPT ![1] = "active"]
    BY <1>3, <1>5, <2>2 DEF KeysType
  <2>4. ASSUME NEW k \in Kids PROVE KeyShape(source'.status, stamp', 1, k)
    <3>1. source.status[k] = "absent" /\ stamp[k] = Unstamped
      <4>1. k > pointer
        BY <2>1, Numbers
      <4> QED
        BY <1>3, <4>1, Zenon DEF KeyShape
    <3>2. source'.status[k] = IF k = 1 THEN "active" ELSE source.status[k]
      <4>1. source.status \in [Kids -> {"absent", "active", "retiring"}]
        BY <1>3 DEF KeysType
      <4> QED
        BY <2>3, <4>1
    <3>3. k \in Nat /\ k # 0
      BY Numbers
    <3> QED
      BY <1>1, <3>1, <3>2, <3>3 DEF KeyShape
  <2>5. CustodyStep
    <3>1. Later(stamp, stamp')
      BY <1>1, Zenon DEF Later
    <3>2. pointer' \in 0 .. MaxKid
      BY <1>5, <2>2, Numbers, Zenon
    <3> QED
      BY <1>1, <1>3, <1>5, <2>2, <2>3, <2>4, <3>1, <3>2, Zenon DEF CustodyStep
  <2> QED
    BY <1>1, <1>2, <2>5, Framed, Zenon DEF SnapStep, TokenStep
<1> QED
  BY <1>4, <1>5, Zenon DEF LoadSigningKey

LEMMA RotateSigningKeyStep ==
    ASSUME StoreInv, NEW r \in Replicas, RotateSigningKey(r)
    PROVE  StoreInv'
<1>1. /\ Fresh \in Kids /\ snap[r].active # None
      /\ snap' = snap /\ token' = token
  BY DEF RotateSigningKey
<1>2. CASE snap[r].active # pointer
  <2>1. UNCHANGED <<source, pointer, stamp, call>>
    BY <1>2, Zenon DEF RotateSigningKey
  <2>2. call' = call /\ UNCHANGED <<source, pointer, stamp>>
    BY <2>1, Zenon
  <2> QED
    BY <1>1, <2>2, SameCustody, Framed, Zenon DEF SnapStep, TokenStep, CallStep
<1>3. CASE snap[r].active = pointer
  <2>1. /\ source' = [source EXCEPT !.status[pointer] = "retiring", !.status[Fresh] = "active"]
        /\ pointer' = Fresh
        /\ stamp' = [stamp EXCEPT ![pointer] = rotationOverlap]
        /\ Begin(r, "operator", "keys", None)
    BY <1>3, Zenon DEF RotateSigningKey, Rotated
  <2>2. CallStep
    <3>1. "operator" \in Callers
      BY DEF Callers
    <3> QED
      BY <2>1, <3>1, RestType, Began, Zenon
  <2>3. /\ source \in KeysType /\ pointer \in 0 .. MaxKid /\ stamp \in Stamps
        /\ \A k \in Kids : KeyShape(source.status, stamp, pointer, k)
    BY Zenon DEF StoreInv, Types
  <2>4. pointer \in Kids
    <3>1. pointer # 0
      BY <1>1, <1>3, Zenon DEF None
    <3> QED
      BY <2>3, <3>1, Numbers, Zenon
  <2>5. PICK f \in Kids : f = Fresh /\ f = pointer + 1
    BY <1>1, FreshIs, Zenon
  <2>6. f # pointer
    BY <2>3, <2>5
  <2>7. /\ source' \in KeysType /\ source'.deny = source.deny
        /\ source'.status = [source.status EXCEPT ![pointer] = "retiring", ![f] = "active"]
    BY <2>1, <2>3, <2>4, <2>5, Zenon DEF KeysType
  <2>8. stamp[pointer] = Unstamped
    BY <2>3, <2>4, Zenon DEF KeyShape
  <2>9. /\ stamp' \in Stamps
        /\ stamp'[pointer] = rotationOverlap
        /\ \A k \in Kids : k # pointer => stamp'[k] = stamp[k]
    <3>1. rotationOverlap \in Over .. rotationOverlap
      BY Numbers DEF Over
    <3> QED
      BY <2>1, <2>3, <2>4, <3>1, Zenon DEF Stamps
  <2>10. ASSUME NEW k \in Kids PROVE KeyShape(source'.status, stamp', f, k)
    <3>1. source'.status[k] = IF k = f THEN "active"
                              ELSE IF k = pointer THEN "retiring" ELSE source.status[k]
      <4>1. source.status \in [Kids -> {"absent", "active", "retiring"}]
        BY <2>3 DEF KeysType
      <4> QED
        BY <2>4, <2>7, <4>1
    <3>2. k \in Nat /\ pointer \in Nat
      BY <2>4, Numbers, Zenon
    <3>3. KeyShape(source.status, stamp, pointer, k)
      BY <2>3, Zenon
    <3>4. CASE k = f
      <4>1. k > pointer /\ ~(k < f) /\ ~(k > f)
        BY <2>5, <3>2, <3>4
      <4> QED
        BY <2>6, <2>9, <3>1, <3>3, <3>4, <4>1, Zenon DEF KeyShape
    <3>5. CASE k = pointer
      <4>1. k < f /\ ~(k > f)
        BY <2>5, <3>2, <3>5
      <4>2. rotationOverlap # Unstamped
        BY Numbers DEF Unstamped
      <4> QED
        BY <2>6, <2>9, <3>1, <3>5, <4>1, <4>2, Zenon DEF KeyShape
    <3>6. CASE k # f /\ k # pointer
      <4>1. (k < f <=> k < pointer) /\ (k > f => k > pointer)
        BY <2>5, <3>2, <3>6
      <4> QED
        BY <2>9, <3>1, <3>3, <3>6, <4>1, Zenon DEF KeyShape
    <3> QED
      BY <3>4, <3>5, <3>6, Zenon
  <2>11. CustodyStep
    <3>1. Later(stamp, stamp')
      BY <2>8, <2>9, Zenon DEF Later
    <3>2. pointer' \in 0 .. MaxKid /\ pointer' = f
      BY <2>1, <2>5, Numbers, Zenon
    <3> QED
      BY <2>7, <2>9, <2>10, <3>1, <3>2, Zenon DEF CustodyStep
  <2> QED
    BY <1>1, <2>2, <2>11, Framed, Zenon DEF SnapStep, TokenStep
<1> QED
  BY <1>2, <1>3, Zenon

LEMMA DenylistKidStep ==
    ASSUME StoreInv, NEW r \in Replicas, NEW k \in Kids, DenylistKid(r, k)
    PROVE  StoreInv'
<1>1. /\ source' = [source EXCEPT !.deny = source.deny \cup {k}]
      /\ Begin(r, "operator", "keys", k)
      /\ pointer' = pointer /\ stamp' = stamp /\ snap' = snap /\ token' = token
  BY DEF DenylistKid
<1>2. CallStep
  <2>1. "operator" \in Callers /\ k \in 0 .. MaxKid
    BY Numbers DEF Callers
  <2> QED
    BY <1>1, <2>1, Began, Zenon
<1>3. /\ source \in KeysType /\ pointer \in 0 .. MaxKid /\ stamp \in Stamps
      /\ \A x \in Kids : KeyShape(source.status, stamp, pointer, x)
  BY Zenon DEF StoreInv, Types
<1>4. /\ source' \in KeysType /\ source'.status = source.status
      /\ source'.deny = source.deny \cup {k}
  BY <1>1, <1>3 DEF KeysType
<1>5. Later(stamp, stamp')
  BY <1>1, Zenon DEF Later
<1>6. CustodyStep
  BY <1>1, <1>3, <1>4, <1>5, Zenon DEF CustodyStep
<1> QED
  BY <1>1, <1>2, <1>6, Framed, Zenon DEF SnapStep, TokenStep

\* A token minted on a snapshot that is at most Skew old lives no longer than its
\* key's window.
LEMMA MintStep ==
    ASSUME StoreInv, NEW r \in Replicas, Mint(r)
    PROVE  StoreInv'
<1>1. /\ snap[r].up /\ snap[r].active # None
      /\ token' = [kid |-> snap[r].active, left |-> TokenTTL, fresh |-> snap[r].age <= Skew]
      /\ UNCHANGED <<source, pointer, stamp>> /\ snap' = snap /\ call' = call
  BY DEF Mint
<1>2. /\ snap[r] \in SnapType /\ SnapOK(stamp, source.deny, snap[r]) /\ stamp \in Stamps
  BY Zenon DEF StoreInv, Types
<1>3. PICK k : k = snap[r].active
  BY Zenon
<1>4. k = snap[r].newest /\ Timely(stamp, k, snap[r].age)
  BY <1>1, <1>2, <1>3, Zenon DEF SnapOK
<1>5. k \in Kids
  <2>1. snap[r].newest \in 0 .. MaxKid /\ snap[r].newest # 0
    BY <1>1, <1>2, ZenonT(40) DEF SnapOK, SnapType
  <2> QED
    BY <1>4, <2>1, Numbers, Zenon
<1>6. snap[r].age \in Nat
  <2>1. snap[r].age \in 0 .. rotationOverlap
    BY <1>2, Zenon DEF SnapType
  <2> QED
    BY <2>1, Numbers
<1>7. ASSUME snap[r].age <= Skew
      PROVE  stamp[k] = Unstamped \/ stamp[k] >= TokenTTL
  <2>1. CASE stamp[k] = Unstamped
    BY <2>1, Zenon
  <2>2. CASE stamp[k] + snap[r].age >= rotationOverlap
    <3>1. stamp[k] \in Int
      BY <1>2, <1>5, StampInt, Zenon
    <3> QED
      BY <1>6, <1>7, <2>2, <3>1, Numbers
  <2>3. snap[r].age < rotationOverlap
    BY <1>6, <1>7, Numbers
  <2> QED
    BY <1>4, <2>1, <2>2, <2>3, Zenon DEF Timely
<1>8. /\ token'.kid = k /\ token'.left = TokenTTL /\ (token'.fresh => snap[r].age <= Skew)
      /\ token' \in TokenType
  <2>1. k \in 0 .. MaxKid /\ TokenTTL \in 0 .. TokenTTL
    BY <1>5, Numbers
  <2>2. (snap[r].age <= Skew) \in BOOLEAN
    BY <1>6, Numbers
  <2>3. PICK f \in BOOLEAN : f = (snap[r].age <= Skew)
    BY <2>2, Zenon
  <2>4. token' = [kid |-> k, left |-> TokenTTL, fresh |-> f]
    BY <1>1, <1>3, <2>3, Zenon
  <2> QED
    BY <2>1, <2>3, <2>4, Zenon DEF TokenType
<1>9. TokenOK(stamp', token')
  <2>1. stamp' = stamp
    BY <1>1
  <2> QED
    BY <1>5, <1>7, <1>8, <2>1, Zenon DEF TokenOK
<1> QED
  BY <1>1, <1>8, <1>9, SameCustody, Framed, Zenon DEF SnapStep, TokenStep, CallStep

-----------------------------------------------------------------------------
(* A tick: ages grow as windows shrink. *)

LEMMA OlderFacts ==
    ASSUME NEW s \in Over .. rotationOverlap
    PROVE  /\ Older(s) \in Over .. rotationOverlap
           /\ s = Unstamped <=> Older(s) = Unstamped
           /\ s = Over => Older(s) = Over
           /\ s > 1 => Older(s) = s - 1
<1>1. s \in Int /\ s >= -1 /\ s <= rotationOverlap /\ rotationOverlap \in Nat
  BY Numbers DEF Over
<1>2. CASE s = 0
  BY <1>1, <1>2 DEF Older, Over, Unstamped
<1>3. CASE s = -1 \/ s = 1
  <2>1. Older(s) = -1
    BY <1>3 DEF Older, Over, Unstamped
  <2> QED
    BY <1>1, <1>3, <2>1 DEF Over, Unstamped
<1>4. CASE s > 1
  <2>1. Older(s) = s - 1
    BY <1>1, <1>4 DEF Older, Over, Unstamped
  <2> QED
    BY <1>1, <1>4, <2>1 DEF Over, Unstamped
<1> QED
  BY <1>1, <1>2, <1>3, <1>4

Aged(S, T) == \A k \in Kids : T[k] = Older(S[k])

LEMMA AgedFacts ==
    ASSUME NEW S \in Stamps, NEW T, Aged(S, T), NEW k \in Kids
    PROVE  /\ S[k] = Unstamped <=> T[k] = Unstamped
           /\ S[k] = Over => T[k] = Over
           /\ S[k] > 1 => T[k] = S[k] - 1
<1>1. S[k] \in Over .. rotationOverlap
  BY Zenon DEF Stamps
<1>2. T[k] = Older(S[k])
  BY Zenon DEF Aged
<1>3. PICK s \in Over .. rotationOverlap : s = S[k]
  BY <1>1, Zenon
<1>4. /\ s = Unstamped <=> Older(s) = Unstamped
      /\ s = Over => Older(s) = Over
      /\ s > 1 => Older(s) = s - 1
  BY OlderFacts, ZenonT(40)
<1> QED
  BY <1>2, <1>3, <1>4

LEMMA AgingType ==
    ASSUME NEW age \in 0 .. rotationOverlap
    PROVE  Aging(age) \in 0 .. rotationOverlap
BY Numbers DEF Aging

LEMMA AgedTimely ==
    ASSUME NEW S \in Stamps, NEW T, Aged(S, T), NEW k \in Kids, NEW age \in Nat,
           Timely(S, k, age)
    PROVE  Timely(T, k, Aging(age))
<1> SUFFICES ASSUME Aging(age) < rotationOverlap
             PROVE  T[k] = Unstamped \/ T[k] + Aging(age) >= rotationOverlap
  BY Zenon DEF Timely
<1>1. age < rotationOverlap /\ Aging(age) = age + 1
  BY Numbers DEF Aging
<1>2. CASE S[k] = Unstamped
  BY <1>2, AgedFacts, Zenon
<1>3. CASE S[k] + age >= rotationOverlap
  <2>1. S[k] \in Int
    BY StampInt, Zenon
  <2>2. S[k] > 1
    BY <1>1, <1>3, <2>1, Numbers
  <2>3. T[k] = S[k] - 1
    BY <2>2, AgedFacts, Zenon
  <2> QED
    BY <1>1, <1>3, <2>1, <2>3, Numbers
<1> QED
  BY <1>1, <1>2, <1>3, Zenon DEF Timely

LEMMA AgedKeys ==
    ASSUME NEW S \in Stamps, NEW T, Aged(S, T), NEW keys, NEW age \in Nat,
           KeysOK(S, keys, age)
    PROVE  KeysOK(T, keys, Aging(age))
<1>1. PICK q \in 0 .. MaxKid : (q # 0 => Timely(S, q, age)) /\ KeysWhen(keys, S, q)
  BY Zenon DEF KeysOK
<1>2. q # 0 => Timely(T, q, Aging(age))
  BY <1>1, Numbers, AgedTimely, Zenon
<1>3. \A k \in Kids : S[k] = Over => T[k] = Over
  BY AgedFacts, Zenon
<1>4. KeysWhen(keys, T, q)
  BY <1>1, <1>3, Zenon DEF KeysWhen
<1> QED
  BY <1>2, <1>4, Zenon DEF KeysOK

LEMMA AgedSnap ==
    ASSUME NEW S \in Stamps, NEW T, Aged(S, T), NEW deny, NEW s \in SnapType,
           s.up, SnapOK(S, deny, s)
    PROVE  /\ [s EXCEPT !.age = Aging(s.age)] \in SnapType
           /\ SnapOK(T, deny, [s EXCEPT !.age = Aging(s.age)])
<1>1. s.age \in Nat /\ Aging(s.age) \in 0 .. rotationOverlap /\ s.newest \in 0 .. MaxKid
  <2>1. s.age \in 0 .. rotationOverlap /\ s.newest \in 0 .. MaxKid
    BY Zenon DEF SnapType
  <2>2. s.age \in Nat
    BY <2>1, Numbers
  <2> QED
    BY <2>1, <2>2, AgingType, Zenon
<1>2. PICK a : a = Aging(s.age)
  BY Zenon
<1>3. PICK n : n = [s EXCEPT !.age = a]
  BY Zenon
<1>4. /\ n \in SnapType
      /\ n.up = s.up /\ n.active = s.active /\ n.retiring = s.retiring
      /\ n.newest = s.newest /\ n.age = a
  BY <1>1, <1>2, <1>3, Zenon DEF SnapType
<1>5. s.newest # 0 /\ Timely(S, s.newest, s.age)
  BY Zenon DEF SnapOK
<1>6. Timely(T, s.newest, a)
  <2>1. s.newest \in Kids
    BY <1>1, <1>5, Numbers, Zenon
  <2> QED
    BY <1>1, <1>2, <1>5, <2>1, AgedTimely, Zenon
<1>7. \A k \in Kids : S[k] = Over => T[k] = Over
  BY AgedFacts, Zenon
<1>8. SnapOK(T, deny, n)
  BY <1>4, <1>5, <1>6, <1>7, ZenonT(40) DEF SnapOK
<1> QED
  BY <1>2, <1>3, <1>4, <1>8, Zenon

LEMMA AgedCall ==
    ASSUME NEW S \in Stamps, NEW T, Aged(S, T), NEW deny, NEW it \in CallType,
           CallOK(S, deny, it)
    PROVE  /\ [it EXCEPT !.age = Aging(it.age)] \in CallType
           /\ CallOK(T, deny, [it EXCEPT !.age = Aging(it.age)])
<1>1. it.age \in Nat /\ Aging(it.age) \in 0 .. rotationOverlap
  <2>1. it.age \in 0 .. rotationOverlap
    BY Zenon DEF CallType
  <2>2. it.age \in Nat
    BY <2>1, Numbers
  <2> QED
    BY <2>1, <2>2, AgingType, Zenon
<1>2. PICK a : a = Aging(it.age)
  BY Zenon
<1>3. PICK n : n = [it EXCEPT !.age = a]
  BY Zenon
<1>4. /\ n \in CallType
      /\ n.step = it.step /\ n.keys = it.keys /\ n.deny = it.deny /\ n.age = a
  BY <1>1, <1>2, <1>3, Zenon DEF CallType
<1>5. KeysOK(S, it.keys, it.age) => KeysOK(T, it.keys, a)
  BY <1>1, <1>2, AgedKeys, Zenon
<1>6. CallOK(T, deny, n)
  BY <1>4, <1>5, Zenon DEF CallOK
<1> QED
  BY <1>2, <1>3, <1>4, <1>6, Zenon

LEMMA AgedToken ==
    ASSUME NEW S \in Stamps, NEW T, Aged(S, T), NEW tok \in TokenType, TokenOK(S, tok)
    PROVE  /\ [tok EXCEPT !.left = Max({tok.left - 1, 0})] \in TokenType
           /\ TokenOK(T, [tok EXCEPT !.left = Max({tok.left - 1, 0})])
<1>1. tok.left \in Nat /\ tok.left <= TokenTTL
  <2>1. tok.left \in 0 .. TokenTTL
    BY Zenon DEF TokenType
  <2> QED
    BY <2>1, Numbers
<1>2. PICK a : a = Max({tok.left - 1, 0})
  BY Zenon
<1>3. a \in 0 .. TokenTTL /\ (a > 0 => tok.left > 1 /\ a = tok.left - 1)
  <2>1. CASE tok.left = 0
    <3>1. {-1, 0} \in SUBSET Int /\ 0 \in {-1, 0} /\ \A y \in {-1, 0} : 0 >= y
      OBVIOUS
    <3>2. Max({-1, 0}) = 0
      BY <3>1, MaxIs, Zenon
    <3>3. tok.left - 1 = -1
      BY <2>1
    <3>4. a = 0
      BY <1>2, <3>2, <3>3, Zenon
    <3> QED
      BY <3>4, Numbers
  <2>2. CASE tok.left > 0
    <3>1. PICK m : m = tok.left - 1
      BY Zenon
    <3>2. m \in Nat
      BY <1>1, <2>2, <3>1
    <3>3. {m, 0} \in SUBSET Int /\ m \in {m, 0} /\ \A y \in {m, 0} : m >= y
      BY <3>2
    <3>4. Max({m, 0}) = m
      BY <3>3, MaxIs, Zenon
    <3>5. a = m
      BY <1>2, <3>1, <3>4, Zenon
    <3> QED
      BY <1>1, <2>2, <3>1, <3>2, <3>5, Numbers
  <2> QED
    BY <1>1, <2>1, <2>2
<1>4. PICK n : n = [tok EXCEPT !.left = a]
  BY Zenon
<1>5. n \in TokenType /\ n.kid = tok.kid /\ n.left = a /\ n.fresh = tok.fresh
  BY <1>3, <1>4, Zenon DEF TokenType
<1>6. ASSUME a > 0
      PROVE  /\ tok.kid \in Kids
             /\ tok.fresh => T[tok.kid] = Unstamped \/ T[tok.kid] >= a
  <2>1. tok.left > 0 /\ tok.left > 1 /\ a = tok.left - 1
    BY <1>1, <1>3, <1>6
  <2>2. PICK k \in Kids : /\ k = tok.kid
                          /\ tok.fresh => S[k] = Unstamped \/ S[k] >= tok.left
    BY <2>1, Zenon DEF TokenOK
  <2>3. S[k] = Unstamped => T[k] = Unstamped
    BY AgedFacts, Zenon
  <2>4. ASSUME S[k] >= tok.left
        PROVE  T[k] >= a
    <3>1. S[k] \in Int
      BY StampInt, Zenon
    <3>2. S[k] > 1
      BY <1>1, <2>1, <2>4, <3>1, Numbers
    <3>3. T[k] = S[k] - 1
      BY <3>2, AgedFacts, Zenon
    <3> QED
      BY <1>1, <2>1, <2>4, <3>1, <3>3, Numbers
  <2> QED
    BY <2>2, <2>3, <2>4, Zenon
<1>7. TokenOK(T, n)
  BY <1>5, <1>6, Zenon DEF TokenOK
<1> QED
  BY <1>2, <1>4, <1>5, <1>7, Zenon

LEMMA TickStep ==
    ASSUME StoreInv, Tick
    PROVE  StoreInv'
<1>1. /\ stamp' = [k \in Kids |-> Older(stamp[k])]
      /\ token' = [token EXCEPT !.left = Max({token.left - 1, 0})]
      /\ snap' = [r \in Replicas |->
                     IF snap[r].up THEN [snap[r] EXCEPT !.age = Aging(snap[r].age)] ELSE snap[r]]
      /\ call' = [r \in Replicas |-> [c \in Callers |->
                     IF call[r][c].step \in {"deny", "swap"}
                     THEN [call[r][c] EXCEPT !.age = Aging(call[r][c].age)] ELSE call[r][c]]]
      /\ source' = source /\ pointer' = pointer
  BY Zenon DEF Tick
<1>2. /\ source \in KeysType /\ pointer \in 0 .. MaxKid /\ stamp \in Stamps
      /\ snap \in [Replicas -> SnapType] /\ call \in [Replicas -> [Callers -> CallType]]
      /\ token \in TokenType
      /\ \A k \in Kids : KeyShape(source.status, stamp, pointer, k)
      /\ \A r \in Replicas : SnapOK(stamp, source.deny, snap[r])
      /\ \A r \in Replicas, c \in Callers : CallOK(stamp, source.deny, call[r][c])
      /\ TokenOK(stamp, token)
  BY Zenon DEF StoreInv, Types, TokenType
<1>3. stamp' \in Stamps /\ Aged(stamp, stamp')
  <2>1. \A k \in Kids : stamp'[k] = Older(stamp[k])
    BY <1>1, Zenon
  <2>2. ASSUME NEW k \in Kids PROVE Older(stamp[k]) \in Over .. rotationOverlap
    <3>1. stamp[k] \in Over .. rotationOverlap
      BY <1>2, Zenon DEF Stamps
    <3> QED
      BY <3>1, OlderFacts, Zenon
  <2> QED
    BY <1>1, <2>1, <2>2, Zenon DEF Stamps, Aged
<1>4. \A k \in Kids : KeyShape(source.status, stamp', pointer, k)
  <2> SUFFICES ASSUME NEW k \in Kids PROVE KeyShape(source.status, stamp', pointer, k)
    BY Zenon
  <2>1. KeyShape(source.status, stamp, pointer, k)
    BY <1>2, Zenon
  <2>2. /\ stamp[k] = Unstamped <=> stamp'[k] = Unstamped
        /\ stamp[k] = Over => stamp'[k] = Over
    BY <1>2, <1>3, AgedFacts, Zenon
  <2> QED
    BY <2>1, <2>2, Zenon DEF KeyShape
<1>5. ASSUME NEW r \in Replicas
      PROVE  snap'[r] \in SnapType /\ SnapOK(stamp', source.deny, snap'[r])
  <2>1. snap[r] \in SnapType /\ SnapOK(stamp, source.deny, snap[r])
    BY <1>2, Zenon
  <2>2. CASE ~snap[r].up
    <3>1. snap'[r] = snap[r]
      BY <1>1, <2>2, Zenon
    <3> QED
      BY <2>1, <2>2, <3>1, ZenonT(40) DEF SnapOK
  <2>3. CASE snap[r].up
    <3>1. snap'[r] = [snap[r] EXCEPT !.age = Aging(snap[r].age)]
      BY <1>1, <2>3, Zenon
    <3>2. /\ [snap[r] EXCEPT !.age = Aging(snap[r].age)] \in SnapType
          /\ SnapOK(stamp', source.deny, [snap[r] EXCEPT !.age = Aging(snap[r].age)])
      BY <1>2, <1>3, <2>1, <2>3, AgedSnap, Zenon
    <3> QED
      BY <3>1, <3>2, Zenon
  <2> QED
    BY <2>2, <2>3, Zenon
<1>6. ASSUME NEW r \in Replicas, NEW c \in Callers
      PROVE  call'[r][c] \in CallType /\ CallOK(stamp', source.deny, call'[r][c])
  <2>1. call[r][c] \in CallType /\ CallOK(stamp, source.deny, call[r][c])
    BY <1>2, Zenon
  <2>2. CASE call[r][c].step \notin {"deny", "swap"}
    <3>1. call'[r][c] = call[r][c]
      BY <1>1, <2>2, Zenon
    <3>2. call[r][c].step # "swap"
      BY <2>2
    <3> QED
      BY <2>1, <2>2, <3>1, <3>2, Zenon DEF CallOK
  <2>3. CASE call[r][c].step \in {"deny", "swap"}
    <3>1. call'[r][c] = [call[r][c] EXCEPT !.age = Aging(call[r][c].age)]
      BY <1>1, <2>3, Zenon
    <3>2. /\ [call[r][c] EXCEPT !.age = Aging(call[r][c].age)] \in CallType
          /\ CallOK(stamp', source.deny, [call[r][c] EXCEPT !.age = Aging(call[r][c].age)])
      BY <1>2, <1>3, <2>1, AgedCall, Zenon
    <3> QED
      BY <3>1, <3>2, Zenon
  <2> QED
    BY <2>2, <2>3, Zenon
<1>7. token' \in TokenType /\ TokenOK(stamp', token')
  <2>1. /\ [token EXCEPT !.left = Max({token.left - 1, 0})] \in TokenType
        /\ TokenOK(stamp', [token EXCEPT !.left = Max({token.left - 1, 0})])
    BY <1>2, <1>3, AgedToken, Zenon
  <2> QED
    BY <1>1, <2>1, Zenon
<1>8. snap' \in [Replicas -> SnapType]
  BY <1>1, <1>5, Zenon
<1>9. call' \in [Replicas -> [Callers -> CallType]]
  <2>1. \A r \in Replicas : call'[r] = [c \in Callers |-> call'[r][c]]
    BY <1>1, Zenon
  <2>2. \A r \in Replicas : call'[r] \in [Callers -> CallType]
    BY <1>6, <2>1, Zenon
  <2>3. call' = [r \in Replicas |-> call'[r]]
    BY <1>1, Zenon
  <2> QED
    BY <2>2, <2>3, Zenon
<1>10. Types'
  BY <1>1, <1>2, <1>3, <1>7, <1>8, <1>9, Zenon DEF Types, TokenType
<1>11. /\ \A k \in Kids : KeyShape(source.status, stamp, pointer, k)'
       /\ \A r \in Replicas : SnapOK(stamp, source.deny, snap[r])'
       /\ TokenOK(stamp, token)'
  BY <1>1, <1>4, <1>5, <1>7, Zenon DEF KeyShape, SnapOK, Timely, TokenOK
<1>12. \A r \in Replicas, c \in Callers : CallOK(stamp, source.deny, call[r][c])'
  <2>1. \A r \in Replicas, c \in Callers : CallOK(stamp', source'.deny, call'[r][c])
    BY <1>1, <1>6, ZenonT(40)
  <2> QED
    BY <2>1, Zenon DEF CallOK, KeysOK, Timely, KeysWhen
<1> QED
  BY <1>10, <1>11, <1>12, Zenon DEF StoreInv

-----------------------------------------------------------------------------
(* The invariant is inductive *)

LEMMA StoreInit ==
    ASSUME Init, ~File
    PROVE  StoreInv
<1>1. /\ source = NoKeys /\ pointer = None
      /\ stamp = [k \in Kids |-> Unstamped]
      /\ snap = [r \in Replicas |-> Down]
      /\ call = [r \in Replicas |-> [c \in Callers |-> Rest]]
      /\ token = [kid |-> None, left |-> 0, fresh |-> FALSE]
  BY Zenon DEF Init
<1>2. /\ Unstamped \in Over .. rotationOverlap /\ pointer \in 0 .. MaxKid
      /\ 0 \in 0 .. TokenTTL /\ 0 \in 0 .. rotationOverlap
  BY <1>1, Numbers DEF Unstamped, Over, None
<1>3. Down \in SnapType /\ ~Down.up /\ Down.newest = 0 /\ Down.active = None
  <2>1. {} \in SUBSET Kids /\ FALSE \in BOOLEAN
    BY Zenon
  <2> QED
    BY <1>2, <2>1, RestType, Zenon DEF Down, SnapType, None
<1>4. Types
  <2>1. stamp \in Stamps
    BY <1>1, <1>2, Zenon DEF Stamps
  <2>2. snap \in [Replicas -> SnapType] /\ call \in [Replicas -> [Callers -> CallType]]
    BY <1>1, <1>3, RestType, Zenon
  <2>3. token \in TokenType
    BY <1>1, <1>2, RestType, Zenon DEF TokenType
  <2> QED
    BY <1>1, <1>2, <2>1, <2>2, <2>3, RestType, Zenon DEF Types
<1>5. \A k \in Kids : KeyShape(source.status, stamp, pointer, k)
  <2> SUFFICES ASSUME NEW k \in Kids PROVE KeyShape(source.status, stamp, pointer, k)
    BY Zenon
  <2>1. source.status[k] = "absent" /\ stamp[k] = Unstamped
    BY <1>1, Zenon DEF NoKeys
  <2>2. k # pointer /\ ~(k < pointer)
    BY <1>1, Numbers DEF None
  <2> QED
    BY <2>1, <2>2, Zenon DEF KeyShape
<1>6. \A r \in Replicas : SnapOK(stamp, source.deny, snap[r])
  <2>1. SnapOK(stamp, source.deny, Down)
    BY <1>3, Zenon DEF SnapOK
  <2> QED
    BY <1>1, <2>1, Zenon
<1>7. \A r \in Replicas, c \in Callers : CallOK(stamp, source.deny, call[r][c])
  <2>1. Rest.step \notin {"deny", "swap"} /\ Rest.step # "swap"
    BY RestType
  <2>2. CallOK(stamp, source.deny, Rest)
    BY <2>1, Zenon DEF CallOK
  <2> QED
    BY <1>1, <2>2, Zenon
<1>8. TokenOK(stamp, token)
  <2>1. ~(token.left > 0)
    BY <1>1
  <2> QED
    BY <2>1, Zenon DEF TokenOK
<1> QED
  BY <1>4, <1>5, <1>6, <1>7, <1>8, Zenon DEF StoreInv

LEMMA SpendFacts ==
    ASSUME budget \in BudgetType, NEW kind \in {"rotations", "denials", "faults", "tokens"},
           Spend(kind)
    PROVE  budget' \in BudgetType /\ budget'.custody = budget.custody
<1>1. budget[kind] \in Nat /\ budget[kind] > 0
  BY DEF BudgetType, Spend
<1>2. PICK n \in Nat : n = budget[kind] - 1
  BY <1>1
<1>3. budget' = [budget EXCEPT ![kind] = n]
  BY <1>2, Zenon DEF Spend
<1> QED
  BY <1>3 DEF BudgetType

\* Custody is chosen once.
LEMMA BudgetStep ==
    ASSUME budget \in BudgetType, [Next]_vars
    PROVE  budget' \in BudgetType /\ budget'.custody = budget.custody
<1>1. CASE budget' = budget
  BY <1>1, Zenon
<1>2. ASSUME NEW kind \in {"rotations", "denials", "faults", "tokens"}, Spend(kind)
      PROVE  budget' \in BudgetType /\ budget'.custody = budget.custody
  BY <1>2, SpendFacts, Zenon
<1>3. /\ "rotations" \in {"rotations", "denials", "faults", "tokens"}
      /\ "denials" \in {"rotations", "denials", "faults", "tokens"}
      /\ "faults" \in {"rotations", "denials", "faults", "tokens"}
      /\ "tokens" \in {"rotations", "denials", "faults", "tokens"}
  OBVIOUS
<1>4. ASSUME NEW r \in Replicas, NEW c \in Callers, Reload(r, c) PROVE budget' = budget
  BY <1>4 DEF Reload, Stat, Load, SigningKeys, DenylistedKids, Swap
<1>5. ASSUME NEW r \in Replicas, NEW c \in Callers, ReloadFails(r, c) PROVE Spend("faults")
  BY <1>5, Zenon DEF ReloadFails
<1>6. ASSUME NEW r \in Replicas,
             \/ LoadSigningKey(r) \/ NewFileKeyWatcher(r) \/ ArmWatcher(r) \/ StartReload(r)
      PROVE  budget' = budget
  BY <1>6 DEF LoadSigningKey, NewFileKeyWatcher, ArmWatcher, StartReload
<1>7. ASSUME NEW r \in Replicas, RotateSigningKey(r) PROVE Spend("rotations")
  BY <1>7, Zenon DEF RotateSigningKey
<1>8. ASSUME NEW r \in Replicas, Mint(r) PROVE Spend("tokens")
  BY <1>8, Zenon DEF Mint
<1>9. ASSUME NEW r \in Replicas, NEW k \in Kids, DenylistKid(r, k) PROVE Spend("denials")
  BY <1>9, Zenon DEF DenylistKid
<1>10. CASE ReplaceFile
  <2>1. Spend("rotations") \/ Spend("denials") \/ Spend("faults")
    BY <1>10, Zenon DEF ReplaceFile
  <2> QED
    BY <1>2, <1>3, <2>1, Zenon
<1>11. CASE Tick
  <2>1. budget' = budget
    BY <1>11 DEF Tick
  <2> QED
    BY <1>1, <2>1, Zenon
<1>12. CASE UNCHANGED vars
  <2>1. budget' = budget
    BY <1>12, Zenon DEF vars
  <2> QED
    BY <1>1, <2>1, Zenon
<1>13. CASE Next
  BY <1>1, <1>2, <1>3, <1>4, <1>5, <1>6, <1>7, <1>8, <1>9, <1>10, <1>11, <1>13, Zenon DEF Next
<1> QED
  BY <1>12, <1>13, Zenon

LEMMA StoreNext ==
    ASSUME StoreInv, ~File, [Next]_vars
    PROVE  StoreInv'
<1>1. ASSUME NEW r \in Replicas, NEW c \in Callers, Reload(r, c) PROVE StoreInv'
  <2>1. call[r][c].step \notin {"stat", "load"}
    <3>1. call[r][c].step \in {"rest", "keys", "deny", "swap"}
      BY ZenonT(40) DEF StoreInv, Types, CallType
    <3> QED
      BY <3>1
  <2>2. ~Stat(r, c) /\ ~Load(r, c)
    BY <2>1 DEF Stat, Load
  <2> QED
    BY <1>1, <2>2, SigningKeysStep, DenylistedKidsStep, SwapStep, Zenon DEF Reload
<1>2. ASSUME NEW r \in Replicas, NEW c \in Callers, ReloadFails(r, c) PROVE StoreInv'
  <2>1. /\ call' = [call EXCEPT ![r][c] = Rest]
        /\ UNCHANGED <<source, pointer, stamp>> /\ snap' = snap /\ token' = token
    BY <1>2 DEF ReloadFails
  <2>2. CallStep
    BY <2>1, Rested, Zenon
  <2> QED
    BY <2>1, <2>2, SameCustody, Framed, Zenon DEF SnapStep, TokenStep
<1>3. ASSUME NEW r \in Replicas, StartReload(r) PROVE StoreInv'
  <2>1. /\ Begin(r, "loop", "keys", None)
        /\ UNCHANGED <<source, pointer, stamp>> /\ snap' = snap /\ token' = token
    BY <1>3 DEF StartReload
  <2>2. CallStep
    <3>1. "loop" \in Callers
      BY DEF Callers
    <3> QED
      BY <2>1, <3>1, RestType, Began, Zenon
  <2> QED
    BY <2>1, <2>2, SameCustody, Framed, Zenon DEF SnapStep, TokenStep
<1>4. ASSUME NEW r \in Replicas PROVE ~NewFileKeyWatcher(r) /\ ~ArmWatcher(r)
  <2>1. call[r]["loop"].step # "arm"
    <3>1. "loop" \in Callers
      BY DEF Callers
    <3>2. call[r]["loop"].step \in {"rest", "keys", "deny", "swap"}
      BY <3>1, ZenonT(40) DEF StoreInv, Types, CallType
    <3> QED
      BY <3>2
  <2> QED
    BY <2>1, Zenon DEF NewFileKeyWatcher, ArmWatcher
<1>5. ~ReplaceFile
  BY Zenon DEF ReplaceFile
<1>6. CASE UNCHANGED vars
  <2>1. /\ UNCHANGED <<source, pointer, stamp>>
        /\ snap' = snap /\ call' = call /\ token' = token
    BY <1>6 DEF vars
  <2> QED
    BY <2>1, SameCustody, Framed, Zenon DEF SnapStep, CallStep, TokenStep
<1>7. CASE Next
  BY <1>1, <1>2, <1>3, <1>4, <1>5, <1>7, LoadSigningKeyStep, RotateSigningKeyStep,
     DenylistKidStep, MintStep, TickStep, Zenon DEF Next
<1> QED
  BY <1>6, <1>7, Zenon

LEMMA RotInit ==
    ASSUME Init
    PROVE  RotInv
<1>1. budget \in BudgetType
  BY ConstantAssumption, Zenon DEF Init, BudgetType
<1> QED
  BY <1>1, StoreInit, Zenon DEF RotInv

LEMMA RotNext ==
    ASSUME RotInv, [Next]_vars
    PROVE  RotInv'
<1>1. budget' \in BudgetType /\ budget'.custody = budget.custody
  BY BudgetStep, Zenon DEF RotInv
<1>2. File' <=> File
  BY <1>1, Zenon DEF File
<1>3. ASSUME ~File PROVE StoreInv'
  BY <1>3, StoreNext, Zenon DEF RotInv
<1> QED
  BY <1>1, <1>2, <1>3, Zenon DEF RotInv

\* The invariant holds in every state.
THEOREM Invariance == Spec => []RotInv
<1>1. Init => RotInv
  BY RotInit
<1>2. RotInv /\ [Next]_vars => RotInv'
  BY RotNext
<1> QED
  BY <1>1, <1>2, PTL DEF Spec

-----------------------------------------------------------------------------
(* What it says *)

LEMMA InvFamily ==
    ASSUME RotInv
    PROVE  FamilyIsWellFormed
<1> SUFFICES ASSUME ~File, pointer # None
             PROVE  {k \in Kids : source.status[k] = "active"} = {pointer}
  BY Zenon DEF FamilyIsWellFormed
<1>1. /\ pointer \in 0 .. MaxKid
      /\ \A k \in Kids : KeyShape(source.status, stamp, pointer, k)
  BY Zenon DEF RotInv, StoreInv, Types
<1>2. pointer \in Kids
  BY <1>1, Numbers, Zenon DEF None
<1>3. \A k \in Kids : k = pointer \/ k < pointer \/ k > pointer
  BY <1>2, Numbers
<1>4. \A k \in Kids : source.status[k] = "active" <=> k = pointer
  BY <1>1, <1>3 DEF KeyShape
<1> QED
  BY <1>2, <1>4, Zenon

LEMMA InvTokens ==
    ASSUME RotInv
    PROVE  TokensOutliveRotation
<1> SUFFICES ASSUME ~File, token.left > 0, token.fresh, token.kid \notin source.deny,
                    NEW r \in Replicas, snap[r].newest >= token.kid
             PROVE  Verifies(r, token.kid)
  BY Zenon DEF TokensOutliveRotation
<1>1. /\ stamp \in Stamps /\ snap[r] \in SnapType /\ token \in TokenType
      /\ SnapOK(stamp, source.deny, snap[r]) /\ TokenOK(stamp, token)
  BY Zenon DEF RotInv, StoreInv, Types, TokenType
<1>2. PICK k \in Kids : /\ k = token.kid
                        /\ stamp[k] = Unstamped \/ stamp[k] >= token.left
  BY <1>1, Zenon DEF TokenOK
<1>3. stamp[k] # Over
  <2>1. stamp[k] \in Int /\ token.left \in Nat
    <3>1. token.left \in 0 .. TokenTTL
      BY <1>1, Zenon DEF TokenType
    <3> QED
      BY <1>1, <3>1, StampInt, Numbers
  <2> QED
    BY <1>2, <2>1, Numbers DEF Over, Unstamped
<1>4. k # None
  BY Numbers DEF None
<1>5. snap[r].newest \in Nat /\ k \in Nat /\ k # 0 /\ snap[r].newest >= k
  <2>1. snap[r].newest \in 0 .. MaxKid
    BY <1>1, Zenon DEF SnapType
  <2> QED
    BY <1>2, <2>1, Numbers
<1>6. snap[r].newest # 0
  BY <1>5
<1>7. snap[r].up
  BY <1>1, <1>6, Zenon DEF SnapOK
<1>8. CASE k = snap[r].newest
  <2>1. k = snap[r].active
    BY <1>1, <1>2, <1>7, <1>8, Zenon DEF SnapOK
  <2> QED
    BY <1>2, <1>4, <2>1, Zenon DEF Verifies
<1>9. CASE k < snap[r].newest
  <2>1. k \in snap[r].retiring
    BY <1>1, <1>2, <1>3, <1>7, <1>9, Zenon DEF SnapOK
  <2> QED
    BY <1>2, <1>3, <1>4, <2>1, Zenon DEF Verifies
<1> QED
  BY <1>5, <1>8, <1>9

LEMMA InvRetired ==
    ASSUME RotInv
    PROVE  RetiredKeyLapses
<1> SUFFICES ASSUME ~File, NEW r \in Replicas, NEW k \in Kids, stamp[k] = Over,
                    snap[r].age < rotationOverlap
             PROVE  ~Verifies(r, k)
  BY Zenon DEF RetiredKeyLapses
<1>1. SnapOK(stamp, source.deny, snap[r]) /\ snap[r] \in SnapType
  BY Zenon DEF RotInv, StoreInv, Types
<1>2. ASSUME snap[r].up, k = snap[r].active PROVE FALSE
  <2>1. k # None
    BY Numbers DEF None
  <2>2. Timely(stamp, k, snap[r].age)
    BY <1>1, <1>2, <2>1, Zenon DEF SnapOK
  <2>3. stamp[k] # Unstamped
    BY DEF Over, Unstamped
  <2>4. stamp[k] + snap[r].age >= rotationOverlap
    BY <2>2, <2>3, Zenon DEF Timely
  <2>5. snap[r].age \in 0 .. rotationOverlap
    BY <1>1, Zenon DEF SnapType
  <2> QED
    BY <2>4, <2>5, Numbers DEF Over
<1>3. ASSUME ~snap[r].up PROVE k # snap[r].active
  <2>1. snap[r].active = None
    BY <1>1, <1>3, Zenon DEF SnapOK
  <2> QED
    BY <2>1, Numbers DEF None
<1> QED
  BY <1>2, <1>3, Zenon DEF Verifies

\* However replicas start, rotate, reload and reap at the same time, the store
\* holds exactly one active key and the pointer names it (buildKeyFamily).
THEOREM OneActiveKey == Spec => []FamilyIsWellFormed
BY Invariance, InvFamily, PTL

\* Rotation strands no token: every replica that has seen the key of an unexpired
\* and unrevoked token verifies it, however old the replica's own snapshot is, if
\* the token was minted on a snapshot at most Skew old (rotationOverlap).
THEOREM TokensSurvive == Spec => []TokensOutliveRotation
BY Invariance, InvTokens, PTL

\* A key whose window is over verifies on no replica whose last good reload is more
\* recent than the length of the window (resolver, ReloadKeys).
THEOREM RetiredIsRefused == Spec => []RetiredKeyLapses
BY Invariance, InvRetired, PTL

=============================================================================
