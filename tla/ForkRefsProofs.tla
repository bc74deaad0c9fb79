--------------------------- MODULE ForkRefsProofs ---------------------------
(***************************************************************************)
(* Proofs about ForkRefs: a reference count is short by no more than the   *)
(* references that were used twice, so no more forks lose their source.    *)
(***************************************************************************)
EXTENDS ForkRefs, FiniteSetTheorems, TLAPS

-----------------------------------------------------------------------------
(* References, apart from the state that holds them *)

\* The record is a fork of p; the request holds a reference on p.
ForkOf(rec, p) == rec.phase # "none" /\ rec.from = p
Holds(op, p) == \/ op.at = "create" /\ op.from = p
                \/ op.at = "release" /\ op.path = p

ForksIn(S, p) == {f \in Paths : ForkOf(S[f], p)}
HeldIn(O, p) == {c \in Clients : Holds(O[c], p)}

\* One reference, or none.
One(b) == IF b THEN 1 ELSE 0

Owes(S, O, p) ==
    Cardinality(ForksIn(S, p)) + Cardinality(HeldIn(O, p)) + S[p].lost

\* The count of p is what is owed, or up to v less.
Balanced(S, O, v, p) == S[p].rc <= Owes(S, O, p) /\ Owes(S, O, p) <= S[p].rc + v

\* The stream that the reference was taken on is not at p any more.
Lacks(S, ref, p) == S[p].phase = "none" \/ S[p].inc # ref

StaleFork(S, rec, p) == ForkOf(rec, p) /\ Lacks(S, rec.ref, p)
StaleOp(S, op, p) == op.at = "create" /\ op.from = p /\ Lacks(S, op.ref, p)

StaleForksIn(S, p) == {f \in Paths : StaleFork(S, S[f], p)}
StaleOpsIn(S, O, p) == {c \in Clients : StaleOp(S, O[c], p)}

\* At most v references to p, of forks and of forks to be, are stale.
Served(S, O, v, p) ==
    Cardinality(StaleForksIn(S, p)) + Cardinality(StaleOpsIn(S, O, p)) <= v

\* The inductive invariant.
RefInv ==
    /\ TypeOK
    /\ \A p \in Paths : Balanced(st, ops, twice[p], p)
    /\ \A p \in Paths : Served(st, ops, twice[p], p)

\* References used twice stay so.
TwiceGrows ==
    twice' \in [Paths -> Nat] /\ \A p \in Paths : twice[p] <= twice'[p]

-----------------------------------------------------------------------------
(* Counting *)

LEMMA ForksFinite ==
    ASSUME NEW S, NEW p
    PROVE  /\ IsFiniteSet(ForksIn(S, p)) /\ Cardinality(ForksIn(S, p)) \in Nat
           /\ \A f \in Paths : ForkOf(S[f], p) => Cardinality(ForksIn(S, p)) > 0
<1>1. ForksIn(S, p) \in SUBSET Paths
  BY Zenon DEF ForksIn
<1>2. IsFiniteSet(ForksIn(S, p))
  BY <1>1, FS_Subset, ConstantAssumption, Zenon
<1>3. Cardinality(ForksIn(S, p)) \in Nat
  BY <1>2, FS_CardinalityType, Zenon
<1>4. ASSUME NEW f \in Paths, ForkOf(S[f], p)
      PROVE  Cardinality(ForksIn(S, p)) # 0
  BY <1>2, <1>4, FS_EmptySet, Zenon DEF ForksIn
<1> QED
  BY <1>2, <1>3, <1>4

LEMMA HeldFinite ==
    ASSUME NEW O, NEW p
    PROVE  /\ IsFiniteSet(HeldIn(O, p)) /\ Cardinality(HeldIn(O, p)) \in Nat
           /\ \A c \in Clients : Holds(O[c], p) => Cardinality(HeldIn(O, p)) > 0
<1>1. HeldIn(O, p) \in SUBSET Clients
  BY Zenon DEF HeldIn
<1>2. IsFiniteSet(HeldIn(O, p))
  BY <1>1, FS_Subset, ConstantAssumption, Zenon
<1>3. Cardinality(HeldIn(O, p)) \in Nat
  BY <1>2, FS_CardinalityType, Zenon
<1>4. ASSUME NEW c \in Clients, Holds(O[c], p)
      PROVE  Cardinality(HeldIn(O, p)) # 0
  BY <1>2, <1>4, FS_EmptySet, Zenon DEF HeldIn
<1> QED
  BY <1>2, <1>3, <1>4

\* Two finite sets that agree but for x.
LEMMA CardBut ==
    ASSUME NEW A, NEW B, NEW x, IsFiniteSet(A), IsFiniteSet(B), A \ {x} = B \ {x}
    PROVE  Cardinality(B) = Cardinality(A) - One(x \in A) + One(x \in B)
<1>1. /\ Cardinality(A) \in Nat /\ Cardinality(B) \in Nat
  BY FS_CardinalityType, Zenon
<1>2. Cardinality(A \ {x}) = IF x \in A THEN Cardinality(A) - 1 ELSE Cardinality(A)
  BY FS_RemoveElement, Zenon
<1>3. Cardinality(B \ {x}) = IF x \in B THEN Cardinality(B) - 1 ELSE Cardinality(B)
  BY FS_RemoveElement, Zenon
<1>4. Cardinality(A \ {x}) = Cardinality(B \ {x})
  OBVIOUS
<1> QED
  BY <1>1, <1>2, <1>3, <1>4 DEF One

\* Only the record of q changed, as far as forks of p go.
LEMMA ForksBut ==
    ASSUME NEW S, NEW T, NEW p, NEW q \in Paths,
           \A f \in Paths \ {q} : ForkOf(T[f], p) <=> ForkOf(S[f], p)
    PROVE  Cardinality(ForksIn(T, p)) =
              Cardinality(ForksIn(S, p)) - One(ForkOf(S[q], p)) + One(ForkOf(T[q], p))
<1>1. ForksIn(S, p) \ {q} = ForksIn(T, p) \ {q}
  BY Zenon DEF ForksIn
<1>2. (q \in ForksIn(S, p) <=> ForkOf(S[q], p)) /\ (q \in ForksIn(T, p) <=> ForkOf(T[q], p))
  BY Zenon DEF ForksIn
<1>3. Cardinality(ForksIn(T, p)) =
         Cardinality(ForksIn(S, p)) - One(q \in ForksIn(S, p)) + One(q \in ForksIn(T, p))
  BY <1>1, ForksFinite, CardBut, Zenon
<1>4. /\ One(q \in ForksIn(S, p)) = One(ForkOf(S[q], p))
      /\ One(q \in ForksIn(T, p)) = One(ForkOf(T[q], p))
  BY <1>2 DEF One
<1> QED
  BY <1>3, <1>4

LEMMA HeldBut ==
    ASSUME NEW O, NEW Q, NEW p, NEW c \in Clients,
           \A d \in Clients \ {c} : Holds(Q[d], p) <=> Holds(O[d], p)
    PROVE  Cardinality(HeldIn(Q, p)) =
              Cardinality(HeldIn(O, p)) - One(Holds(O[c], p)) + One(Holds(Q[c], p))
<1>1. HeldIn(O, p) \ {c} = HeldIn(Q, p) \ {c}
  BY Zenon DEF HeldIn
<1>2. (c \in HeldIn(O, p) <=> Holds(O[c], p)) /\ (c \in HeldIn(Q, p) <=> Holds(Q[c], p))
  BY Zenon DEF HeldIn
<1>3. Cardinality(HeldIn(Q, p)) =
         Cardinality(HeldIn(O, p)) - One(c \in HeldIn(O, p)) + One(c \in HeldIn(Q, p))
  BY <1>1, HeldFinite, CardBut, Zenon
<1>4. /\ One(c \in HeldIn(O, p)) = One(Holds(O[c], p))
      /\ One(c \in HeldIn(Q, p)) = One(Holds(Q[c], p))
  BY <1>2 DEF One
<1> QED
  BY <1>3, <1>4

LEMMA StaleFinite ==
    ASSUME NEW S, NEW O, NEW p
    PROVE  /\ IsFiniteSet(StaleForksIn(S, p)) /\ Cardinality(StaleForksIn(S, p)) \in Nat
           /\ IsFiniteSet(StaleOpsIn(S, O, p)) /\ Cardinality(StaleOpsIn(S, O, p)) \in Nat
           /\ Cardinality(StaleForksIn(S, p)) <= Cardinality(ForksIn(S, p))
           /\ Cardinality(StaleOpsIn(S, O, p)) <= Cardinality(HeldIn(O, p))
<1>1. StaleForksIn(S, p) \in SUBSET ForksIn(S, p)
  BY Zenon DEF StaleForksIn, ForksIn, StaleFork
<1>2. StaleOpsIn(S, O, p) \in SUBSET HeldIn(O, p)
  BY Zenon DEF StaleOpsIn, HeldIn, StaleOp, Holds
<1>3. IsFiniteSet(StaleForksIn(S, p)) /\ IsFiniteSet(StaleOpsIn(S, O, p))
  BY <1>1, <1>2, ForksFinite, HeldFinite, FS_Subset, Zenon
<1>4. /\ Cardinality(StaleForksIn(S, p)) <= Cardinality(ForksIn(S, p))
      /\ Cardinality(StaleOpsIn(S, O, p)) <= Cardinality(HeldIn(O, p))
  BY <1>1, <1>2, ForksFinite, HeldFinite, FS_Subset, Zenon
<1>5. Cardinality(StaleForksIn(S, p)) \in Nat /\ Cardinality(StaleOpsIn(S, O, p)) \in Nat
  BY <1>3, FS_CardinalityType, Zenon
<1> QED
  BY <1>3, <1>4, <1>5, Zenon

\* A stream without a count owes its references to what was used twice.
LEMMA UnreferencedServed ==
    ASSUME NEW S, NEW O, NEW p, NEW v \in Nat, S[p].lost \in Nat,
           Balanced(S, O, v, p), S[p].rc = 0
    PROVE  Served(S, O, v, p)
<1>1. /\ Cardinality(ForksIn(S, p)) \in Nat /\ Cardinality(HeldIn(O, p)) \in Nat
  BY ForksFinite, HeldFinite, Zenon
<1>2. /\ Cardinality(StaleForksIn(S, p)) \in Nat /\ Cardinality(StaleOpsIn(S, O, p)) \in Nat
      /\ Cardinality(StaleForksIn(S, p)) <= Cardinality(ForksIn(S, p))
      /\ Cardinality(StaleOpsIn(S, O, p)) <= Cardinality(HeldIn(O, p))
  BY StaleFinite, Zenon
<1>3. Cardinality(ForksIn(S, p)) + Cardinality(HeldIn(O, p)) + S[p].lost <= v
  BY DEF Balanced, Owes
<1>4. Cardinality(StaleForksIn(S, p)) + Cardinality(StaleOpsIn(S, O, p)) <= v
  BY <1>1, <1>2, <1>3
<1> QED
  BY <1>4, Zenon DEF Served

\* No reference to p becomes stale.
LEMMA ServedSame ==
    ASSUME NEW S, NEW T, NEW O, NEW Q, NEW p, NEW v \in Nat, NEW w \in Nat, v <= w,
           \A f \in Paths : StaleFork(T, T[f], p) => StaleFork(S, S[f], p),
           \A c \in Clients : StaleOp(T, Q[c], p) => StaleOp(S, O[c], p),
           Served(S, O, v, p)
    PROVE  Served(T, Q, w, p)
<1>1. StaleForksIn(T, p) \in SUBSET StaleForksIn(S, p)
  BY Zenon DEF StaleForksIn
<1>2. StaleOpsIn(T, Q, p) \in SUBSET StaleOpsIn(S, O, p)
  BY Zenon DEF StaleOpsIn
<1>3. /\ Cardinality(StaleForksIn(T, p)) <= Cardinality(StaleForksIn(S, p))
      /\ Cardinality(StaleOpsIn(T, Q, p)) <= Cardinality(StaleOpsIn(S, O, p))
  BY <1>1, <1>2, StaleFinite, FS_Subset, Zenon
<1>4. /\ Cardinality(StaleForksIn(T, p)) \in Nat /\ Cardinality(StaleForksIn(S, p)) \in Nat
      /\ Cardinality(StaleOpsIn(T, Q, p)) \in Nat /\ Cardinality(StaleOpsIn(S, O, p)) \in Nat
  BY StaleFinite, Zenon
<1>5. Cardinality(StaleForksIn(S, p)) + Cardinality(StaleOpsIn(S, O, p)) <= v
  BY Zenon DEF Served
<1>6. Cardinality(StaleForksIn(T, p)) + Cardinality(StaleOpsIn(T, Q, p)) <= w
  BY <1>3, <1>4, <1>5
<1> QED
  BY <1>6, Zenon DEF Served

\* The reference that the request of c held on p is now that of the fork q; if the
\* request keeps its own, a reference is used twice.
Inherits(S, T, O, Q, p, q, c, v, w) ==
    /\ \A f \in Paths \ {q} : StaleFork(T, T[f], p) => StaleFork(S, S[f], p)
    /\ \A d \in Clients \ {c} : StaleOp(T, Q[d], p) => StaleOp(S, O[d], p)
    /\ StaleFork(T, T[q], p) => StaleOp(S, O[c], p)
    /\ StaleOp(T, Q[c], p) => StaleOp(S, O[c], p) /\ v + 1 <= w

LEMMA ServedBorn ==
    ASSUME NEW S, NEW T, NEW O, NEW Q, NEW p, NEW v \in Nat, NEW w \in Nat, v <= w,
           NEW q \in Paths, NEW c \in Clients,
           Inherits(S, T, O, Q, p, q, c, v, w), Served(S, O, v, p)
    PROVE  Served(T, Q, w, p)
<1> DEFINE SF == StaleForksIn(S, p)
           SO == StaleOpsIn(S, O, p)
           TF == StaleForksIn(T, p)
           TO == StaleOpsIn(T, Q, p)
<1>0. /\ IsFiniteSet(SF) /\ IsFiniteSet(SO) /\ IsFiniteSet(TF) /\ IsFiniteSet(TO)
      /\ Cardinality(SF) \in Nat /\ Cardinality(SO) \in Nat
      /\ Cardinality(TF) \in Nat /\ Cardinality(TO) \in Nat
  BY StaleFinite, Zenon
<1>1. TF \ {q} \in SUBSET SF /\ TO \ {c} \in SUBSET (SO \ {c})
  BY Zenon DEF StaleForksIn, StaleOpsIn, Inherits
<1>2. /\ q \in TF => c \in SO
      /\ c \in TO => c \in SO /\ v + 1 <= w
  BY Zenon DEF StaleForksIn, StaleOpsIn, Inherits
<1>3. /\ IsFiniteSet(TF \ {q}) /\ IsFiniteSet(TO \ {c}) /\ IsFiniteSet(SO \ {c})
      /\ Cardinality(TF \ {q}) = IF q \in TF THEN Cardinality(TF) - 1 ELSE Cardinality(TF)
      /\ Cardinality(TO \ {c}) = IF c \in TO THEN Cardinality(TO) - 1 ELSE Cardinality(TO)
      /\ Cardinality(SO \ {c}) = IF c \in SO THEN Cardinality(SO) - 1 ELSE Cardinality(SO)
  BY <1>0, FS_RemoveElement, Zenon
<1>4. /\ Cardinality(TF \ {q}) <= Cardinality(SF)
      /\ Cardinality(TO \ {c}) <= Cardinality(SO \ {c})
  BY <1>0, <1>1, <1>3, FS_Subset, Zenon
<1>5. Cardinality(SF) + Cardinality(SO) <= v
  BY Zenon DEF Served
<1> HIDE DEF SF, SO, TF, TO
<1>6. Cardinality(TF) + Cardinality(TO) <= w
  <2>1. CASE c \in TO
    BY <1>0, <1>2, <1>3, <1>4, <1>5, <2>1
  <2>2. CASE c \notin TO /\ c \in SO
    BY <1>0, <1>3, <1>4, <1>5, <2>2
  <2>3. CASE c \notin TO /\ c \notin SO
    BY <1>0, <1>2, <1>3, <1>4, <1>5, <2>3
  <2> QED
    BY <2>1, <2>2, <2>3, Zenon
<1> QED
  BY <1>6, Zenon DEF Served, TF, TO

-----------------------------------------------------------------------------
(* Typing *)

AbsentIsClean(S) == \A p \in Paths : S[p].phase = "none" => S[p] = Absent

LEMMA Grown ==
    ASSUME NEW b \in Nat
    PROVE  Streams(b) \subseteq Streams(b + 1) /\ Ops(b) \subseteq Ops(b + 1)
<1>1. 0 .. b \subseteq 0 .. (b + 1)
  OBVIOUS
<1>2. Streams(b) \subseteq Streams(b + 1)
  BY <1>1, Zenon DEF Streams
<1>3. Ops(b) \subseteq Ops(b + 1)
  BY <1>1, Zenon DEF Ops
<1> QED
  BY <1>2, <1>3

LEMMA AbsentType ==
    ASSUME NEW b \in Nat
    PROVE  Absent \in Streams(b) /\ Idle \in Ops(b)
BY ConstantAssumption DEF Streams, Ops, Absent

LEMMA OpFacts ==
    ASSUME NEW b, NEW op \in Ops(b)
    PROVE  /\ op.at \in {"source", "incr"} =>
                 op \in [at : {"source", "incr"}, path : Paths, from : Paths,
                        seen : 0 .. b, ref : 0 .. b]
           /\ op.at = "create" =>
                 op \in [at : {"create"}, path : Paths, from : Paths \cup {NoPath},
                        seen : 0 .. b, ref : 0 .. b]
           /\ op.at = "release" => op \in [at : {"release"}, path : Paths]
           /\ op.at \in {"idle", "source", "incr", "create", "release"}
<1>1. CASE op = Idle
  BY <1>1 DEF Idle
<1>2. CASE op \in [at : {"source", "incr"}, path : Paths, from : Paths,
                   seen : 0 .. b, ref : 0 .. b]
  BY <1>2
<1>3. CASE op \in [at : {"create"}, path : Paths, from : Paths \cup {NoPath},
                   seen : 0 .. b, ref : 0 .. b]
  BY <1>3
<1>4. CASE op \in [at : {"release"}, path : Paths]
  BY <1>4
<1> QED
  BY <1>1, <1>2, <1>3, <1>4, Zenon DEF Ops

LEMMA ReleaseType ==
    ASSUME NEW b, NEW parent \in Paths \cup {NoPath}
    PROVE  Release(parent) \in Ops(b)
<1>1. CASE parent = NoPath
  BY <1>1, Zenon DEF Release, Ops
<1>2. CASE parent # NoPath
  <2>1. [at |-> "release", path |-> parent] \in [at : {"release"}, path : Paths]
    BY <1>2
  <2> QED
    BY <1>2, <2>1, Zenon DEF Release, Ops
<1> QED
  BY <1>1, <1>2, Zenon

\* Single fields of a stream's keys.
LEMMA FieldType ==
    ASSUME NEW b, NEW rec \in Streams(b)
    PROVE  /\ rec.phase \in {"none", "live", "soft"} /\ rec.inc \in 0 .. b
           /\ rec.from \in Paths \cup {NoPath} /\ rec.rc \in 0 .. MaxRefs
           /\ rec.expired \in BOOLEAN /\ rec.lost \in Nat
           /\ [rec EXCEPT !.phase = "soft"] \in Streams(b)
           /\ [rec EXCEPT !.expired = TRUE] \in Streams(b)
           /\ \A k \in 0 .. MaxRefs : [rec EXCEPT !.rc = k] \in Streams(b)
           /\ [rec EXCEPT !.lost = rec.lost + 1] \in Streams(b)
<1>1. /\ rec.phase \in {"none", "live", "soft"} /\ rec.inc \in 0 .. b
      /\ rec.from \in Paths \cup {NoPath} /\ rec.rc \in 0 .. MaxRefs
      /\ rec.expired \in BOOLEAN /\ rec.lost \in Nat
  BY DEF Streams
<1>2. [rec EXCEPT !.phase = "soft"] \in Streams(b)
  BY DEF Streams
<1>3. [rec EXCEPT !.expired = TRUE] \in Streams(b)
  BY Zenon DEF Streams
<1>4. ASSUME NEW k \in 0 .. MaxRefs
      PROVE  [rec EXCEPT !.rc = k] \in Streams(b)
  BY DEF Streams
<1>5. [rec EXCEPT !.lost = rec.lost + 1] \in Streams(b)
  <2>1. rec.lost + 1 \in Nat
    BY <1>1
  <2> QED
    BY <2>1 DEF Streams
<1> QED
  BY <1>1, <1>2, <1>3, <1>4, <1>5, Zenon

\* The record of q is replaced.
Put(S, q, rec) == [p \in Paths |-> IF p = q THEN rec ELSE S[p]]

LEMMA PutFacts ==
    ASSUME NEW S, NEW q \in Paths, NEW rec
    PROVE  Put(S, q, rec)[q] = rec /\ \A p \in Paths : p # q => Put(S, q, rec)[p] = S[p]
BY Zenon DEF Put

LEMMA PutType ==
    ASSUME NEW b, NEW S \in [Paths -> Streams(b)], NEW q \in Paths,
           NEW rec \in Streams(b)
    PROVE  Put(S, q, rec) \in [Paths -> Streams(b)]
BY Zenon DEF Put

LEMMA PutClean ==
    ASSUME NEW S, NEW q \in Paths, NEW rec, AbsentIsClean(S),
           rec.phase = "none" => rec = Absent
    PROVE  AbsentIsClean(Put(S, q, rec))
BY Zenon DEF Put, AbsentIsClean

LEMMA ForgetFacts ==
    ASSUME NEW b, NEW S \in [Paths -> Streams(b)], NEW s \in Paths \cup {NoPath}
    PROVE  \/ s = NoPath /\ Forget(s, S) = S
           \/ s \in Paths /\ S[s].phase = "none" /\ Forget(s, S) = S
           \/ /\ s \in Paths /\ S[s].phase # "none"
              /\ Forget(s, S) = Put(S, s, [S[s] EXCEPT !.lost = S[s].lost + 1])
              /\ [S[s] EXCEPT !.lost = S[s].lost + 1] \in Streams(b)
<1>1. CASE s = NoPath \/ S[s].phase = "none"
  BY <1>1, ConstantAssumption, Zenon DEF Forget
<1>2. CASE ~(s = NoPath \/ S[s].phase = "none")
  <2>1. s \in Paths /\ S[s] \in Streams(b)
    BY <1>2, Zenon
  <2>2. [S[s] EXCEPT !.lost = S[s].lost + 1] \in Streams(b)
    BY <2>1, FieldType, Zenon
  <2>3. Forget(s, S) = [S EXCEPT ![s] = [S[s] EXCEPT !.lost = S[s].lost + 1]]
    BY <1>2, Zenon DEF Forget
  <2>4. Forget(s, S) = Put(S, s, [S[s] EXCEPT !.lost = S[s].lost + 1])
    BY <2>1, <2>3, Zenon DEF Put
  <2> QED
    BY <1>2, <2>1, <2>2, <2>4, Zenon
<1> QED
  BY <1>1, <1>2, Zenon


LEMMA RemoveIsForget ==
    ASSUME TypeOK, NEW p \in Paths
    PROVE  /\ Remove(p) = Forget(st[p].from, Put(st, p, Absent))
           /\ Put(st, p, Absent) \in [Paths -> Streams(births)]
           /\ st[p].from \in Paths \cup {NoPath}
<1>1. st \in [Paths -> Streams(births)] /\ births \in Nat /\ st[p] \in Streams(births)
  BY Zenon DEF TypeOK
<1>2. Absent \in Streams(births)
  BY <1>1, AbsentType, Zenon
<1>3. [st EXCEPT ![p] = Absent] = Put(st, p, Absent)
  BY <1>1, Zenon DEF Put
<1>4. Put(st, p, Absent) \in [Paths -> Streams(births)]
  BY <1>1, <1>2, PutType, Zenon
<1>5. st[p].from \in Paths \cup {NoPath}
  BY <1>1, FieldType, Zenon
<1> QED
  BY <1>3, <1>4, <1>5, Zenon DEF Remove

\* What expire_cleanup leaves of a stream that exists.
LEMMA CleanupFacts ==
    ASSUME TypeOK, NEW p \in Paths
    PROVE  \/ /\ st[p].rc > 0
              /\ ExpireCleanup(p) = Put(st, p, [st[p] EXCEPT !.phase = "soft"])
              /\ [st[p] EXCEPT !.phase = "soft"] \in Streams(births)
           \/ st[p].rc = 0 /\ ExpireCleanup(p) = Remove(p)
<1>1. st \in [Paths -> Streams(births)] /\ births \in Nat /\ st[p] \in Streams(births)
  BY Zenon DEF TypeOK
<1>2. st[p].rc \in 0 .. MaxRefs /\ [st[p] EXCEPT !.phase = "soft"] \in Streams(births)
  BY <1>1, FieldType, Zenon
<1>3. CASE st[p].rc > 0
  <2>1. ExpireCleanup(p) = [st EXCEPT ![p] = [st[p] EXCEPT !.phase = "soft"]]
    BY <1>3, Zenon DEF ExpireCleanup
  <2>2. ExpireCleanup(p) = Put(st, p, [st[p] EXCEPT !.phase = "soft"])
    BY <1>1, <2>1, Zenon DEF Put
  <2> QED
    BY <1>2, <1>3, <2>2, Zenon
<1>4. CASE ~(st[p].rc > 0)
  <2>1. st[p].rc = 0
    BY <1>2, <1>4, ConstantAssumption
  <2> QED
    BY <1>4, <2>1, Zenon DEF ExpireCleanup
<1> QED
  BY <1>3, <1>4, Zenon

LEMMA ForgetType ==
    ASSUME NEW b, NEW S \in [Paths -> Streams(b)], NEW s \in Paths \cup {NoPath}
    PROVE  /\ Forget(s, S) \in [Paths -> Streams(b)]
           /\ AbsentIsClean(S) => AbsentIsClean(Forget(s, S))
<1>1. CASE Forget(s, S) = S
  BY <1>1, Zenon
<1>2. CASE /\ s \in Paths /\ S[s].phase # "none"
           /\ Forget(s, S) = Put(S, s, [S[s] EXCEPT !.lost = S[s].lost + 1])
           /\ [S[s] EXCEPT !.lost = S[s].lost + 1] \in Streams(b)
  <2>1. PICK rec \in Streams(b) : rec = [S[s] EXCEPT !.lost = S[s].lost + 1]
    BY <1>2, Zenon
  <2>2. S[s] \in Streams(b)
    BY <1>2, Zenon
  <2>3. rec.phase = S[s].phase
    BY <2>1, <2>2 DEF Streams
  <2>4. Put(S, s, rec) \in [Paths -> Streams(b)]
    BY <1>2, PutType, Zenon
  <2>5. AbsentIsClean(S) => AbsentIsClean(Put(S, s, rec))
    BY <1>2, <2>3, PutClean, Zenon
  <2> QED
    BY <1>2, <2>1, <2>4, <2>5, Zenon
<1> QED
  BY <1>1, <1>2, ForgetFacts, Zenon

LEMMA RemoveType ==
    ASSUME TypeOK, NEW p \in Paths
    PROVE  Remove(p) \in [Paths -> Streams(births)] /\ AbsentIsClean(Remove(p))
<1>1. AbsentIsClean(st)
  BY Zenon DEF TypeOK, AbsentIsClean, Exists
<1>2. AbsentIsClean(Put(st, p, Absent))
  BY <1>1, PutClean, Zenon
<1>3. /\ Remove(p) = Forget(st[p].from, Put(st, p, Absent))
      /\ Put(st, p, Absent) \in [Paths -> Streams(births)]
      /\ st[p].from \in Paths \cup {NoPath}
  BY RemoveIsForget, Zenon
<1> QED
  BY <1>2, <1>3, ForgetType, Zenon

LEMMA CleanupType ==
    ASSUME TypeOK, NEW p \in Paths
    PROVE  /\ ExpireCleanup(p) \in [Paths -> Streams(births)]
           /\ AbsentIsClean(ExpireCleanup(p))
<1>0. /\ st \in [Paths -> Streams(births)] /\ births \in Nat
      /\ st[p] \in Streams(births) /\ AbsentIsClean(st)
  BY Zenon DEF TypeOK, AbsentIsClean, Exists
<1>1. CASE /\ ExpireCleanup(p) = Put(st, p, [st[p] EXCEPT !.phase = "soft"])
           /\ [st[p] EXCEPT !.phase = "soft"] \in Streams(births)
  <2>1. PICK rec \in Streams(births) : rec = [st[p] EXCEPT !.phase = "soft"]
    BY <1>1, Zenon
  <2>2. rec.phase # "none"
    BY <1>0, <2>1 DEF Streams
  <2>3. Put(st, p, rec) \in [Paths -> Streams(births)]
    BY <1>0, PutType, Zenon
  <2>4. AbsentIsClean(Put(st, p, rec))
    BY <1>0, <2>2, PutClean, Zenon
  <2> QED
    BY <1>1, <2>1, <2>3, <2>4, Zenon
<1>2. CASE ExpireCleanup(p) = Remove(p)
  BY <1>2, RemoveType, Zenon
<1> QED
  BY <1>1, <1>2, CleanupFacts, Zenon

-----------------------------------------------------------------------------
(* Balance *)

\* Only the record of q and the request of c changed, as far as references to p
\* go ...
OnlyAt(S, T, O, Q, p, q, c) ==
    /\ \A f \in Paths \ {q} : ForkOf(T[f], p) <=> ForkOf(S[f], p)
    /\ \A d \in Clients \ {c} : Holds(Q[d], p) <=> Holds(O[d], p)

\* ... and this is what the count does not owe to them.
Rest(S, O, p, q, c) ==
    S[p].rc - S[p].lost - One(ForkOf(S[q], p)) - One(Holds(O[c], p))

\* The count falls with what it owes, and no further than references are used
\* twice; a count of zero is never too high.
Follows(rc, own, own2, v, w) == (rc = 0 \/ own2 <= own) /\ own + v <= own2 + w

LEMMA BalanceStep ==
    ASSUME NEW S, NEW T, NEW O, NEW Q, NEW p \in Paths, NEW q \in Paths,
           NEW c \in Clients, OnlyAt(S, T, O, Q, p, q, c), NEW v \in Nat, NEW w \in Nat,
           S[p].rc \in Nat, S[p].lost \in Nat, T[p].rc \in Nat, T[p].lost \in Nat,
           Follows(T[p].rc, Rest(S, O, p, q, c), Rest(T, Q, p, q, c), v, w),
           Balanced(S, O, v, p)
    PROVE  Balanced(T, Q, w, p)
<1>1. Cardinality(ForksIn(T, p)) =
         Cardinality(ForksIn(S, p)) - One(ForkOf(S[q], p)) + One(ForkOf(T[q], p))
  <2>1. \A f \in Paths \ {q} : ForkOf(T[f], p) <=> ForkOf(S[f], p)
    BY Zenon DEF OnlyAt
  <2> QED
    BY <2>1, ForksBut, ZenonT(40)
<1>2. Cardinality(HeldIn(Q, p)) =
         Cardinality(HeldIn(O, p)) - One(Holds(O[c], p)) + One(Holds(Q[c], p))
  <2>1. \A d \in Clients \ {c} : Holds(Q[d], p) <=> Holds(O[d], p)
    BY Zenon DEF OnlyAt
  <2> QED
    BY <2>1, HeldBut, Zenon
<1>3. /\ One(ForkOf(S[q], p)) \in Nat /\ One(ForkOf(T[q], p)) \in Nat
      /\ One(Holds(O[c], p)) \in Nat /\ One(Holds(Q[c], p)) \in Nat
  BY DEF One
<1>4. /\ Cardinality(ForksIn(S, p)) \in Nat /\ Cardinality(HeldIn(O, p)) \in Nat
      /\ Cardinality(ForksIn(T, p)) \in Nat /\ Cardinality(HeldIn(Q, p)) \in Nat
  BY ForksFinite, HeldFinite, Zenon
<1>5. /\ S[p].rc <= Cardinality(ForksIn(S, p)) + Cardinality(HeldIn(O, p)) + S[p].lost
      /\ Cardinality(ForksIn(S, p)) + Cardinality(HeldIn(O, p)) + S[p].lost <= S[p].rc + v
  BY Zenon DEF Balanced, Owes
<1>6. T[p].rc <= Cardinality(ForksIn(T, p)) + Cardinality(HeldIn(Q, p)) + T[p].lost
  <2>1. CASE T[p].rc = 0
    BY <1>4, <2>1
  <2>2. CASE Rest(T, Q, p, q, c) <= Rest(S, O, p, q, c)
    BY <1>1, <1>2, <1>3, <1>4, <1>5, <2>2 DEF Rest
  <2> QED
    BY <2>1, <2>2, Zenon DEF Follows
<1>7. Cardinality(ForksIn(T, p)) + Cardinality(HeldIn(Q, p)) + T[p].lost <= T[p].rc + w
  <2>1. Rest(S, O, p, q, c) + v <= Rest(T, Q, p, q, c) + w
    BY Zenon DEF Follows
  <2> QED
    BY <1>1, <1>2, <1>3, <1>4, <1>5, <2>1 DEF Rest
<1> QED
  BY <1>6, <1>7, Zenon DEF Balanced, Owes

\* Nothing changed that counts for p.
LEMMA BalanceSame ==
    ASSUME NEW S, NEW T, NEW O, NEW Q, NEW p \in Paths,
           \A f \in Paths : ForkOf(T[f], p) <=> ForkOf(S[f], p),
           \A d \in Clients : Holds(Q[d], p) <=> Holds(O[d], p),
           T[p].rc = S[p].rc, T[p].lost = S[p].lost,
           NEW v, Balanced(S, O, v, p)
    PROVE  Balanced(T, Q, v, p)
<1>1. ForksIn(T, p) = ForksIn(S, p) /\ HeldIn(Q, p) = HeldIn(O, p)
  BY Zenon DEF ForksIn, HeldIn
<1> QED
  BY <1>1, Zenon DEF Balanced, Owes

LEMMA BalanceGrows ==
    ASSUME NEW S, NEW O, NEW p, NEW v \in Nat, NEW w \in Nat, v <= w,
           S[p].rc \in Nat, S[p].lost \in Nat, Balanced(S, O, v, p)
    PROVE  Balanced(S, O, w, p)
<1>1. /\ Cardinality(ForksIn(S, p)) \in Nat /\ Cardinality(HeldIn(O, p)) \in Nat
  BY ForksFinite, HeldFinite, Zenon
<1> QED
  BY <1>1 DEF Balanced, Owes

LEMMA PathFacts ==
    ASSUME TypeOK, NEW p \in Paths
    PROVE  /\ st[p] \in Streams(births) /\ st[p].rc \in Nat /\ st[p].lost \in Nat
           /\ st[p].from \in Paths \cup {NoPath} /\ twice[p] \in Nat
           /\ ~Exists(p) => st[p] = Absent /\ st[p].rc = 0 /\ st[p].lost = 0
<1>1. st[p] \in Streams(births) /\ twice[p] \in Nat
  BY Zenon DEF TypeOK
<1>2. st[p].rc \in 0 .. MaxRefs /\ st[p].lost \in Nat /\ st[p].from \in Paths \cup {NoPath}
  BY <1>1, FieldType, Zenon
<1>3. ~Exists(p) => st[p] = Absent
  BY Zenon DEF TypeOK
<1>4. Absent.rc = 0 /\ Absent.lost = 0
  BY DEF Absent
<1>5. st[p].rc \in Nat
  BY <1>2, ConstantAssumption
<1> QED
  BY <1>1, <1>2, <1>3, <1>4, <1>5, Zenon

\* The same without a request: q is a stream that changed by itself.
LEMMA BalanceForks ==
    ASSUME NEW S, NEW T, NEW O, NEW p \in Paths, NEW q \in Paths,
           \A f \in Paths \ {q} : ForkOf(T[f], p) <=> ForkOf(S[f], p),
           S[p].rc \in Nat, S[p].lost \in Nat, T[p].rc \in Nat, T[p].lost \in Nat,
           NEW v \in Nat, NEW w \in Nat,
           Follows(T[p].rc, S[p].rc - S[p].lost - One(ForkOf(S[q], p)),
                   T[p].rc - T[p].lost - One(ForkOf(T[q], p)), v, w),
           Balanced(S, O, v, p)
    PROVE  Balanced(T, O, w, p)
<1>1. Cardinality(ForksIn(T, p)) =
         Cardinality(ForksIn(S, p)) - One(ForkOf(S[q], p)) + One(ForkOf(T[q], p))
  BY ForksBut, ZenonT(40)
<1>3. One(ForkOf(S[q], p)) \in Nat /\ One(ForkOf(T[q], p)) \in Nat
  BY DEF One
<1>4. /\ Cardinality(ForksIn(S, p)) \in Nat /\ Cardinality(HeldIn(O, p)) \in Nat
      /\ Cardinality(ForksIn(T, p)) \in Nat
  BY ForksFinite, HeldFinite, Zenon
<1>5. /\ S[p].rc <= Cardinality(ForksIn(S, p)) + Cardinality(HeldIn(O, p)) + S[p].lost
      /\ Cardinality(ForksIn(S, p)) + Cardinality(HeldIn(O, p)) + S[p].lost <= S[p].rc + v
  BY Zenon DEF Balanced, Owes
<1>6. T[p].rc <= Cardinality(ForksIn(T, p)) + Cardinality(HeldIn(O, p)) + T[p].lost
  <2>1. CASE T[p].rc = 0
    BY <1>4, <2>1
  <2>2. CASE T[p].rc - T[p].lost - One(ForkOf(T[q], p))
                <= S[p].rc - S[p].lost - One(ForkOf(S[q], p))
    BY <1>1, <1>3, <1>4, <1>5, <2>2
  <2> QED
    BY <2>1, <2>2, Zenon DEF Follows
<1>7. Cardinality(ForksIn(T, p)) + Cardinality(HeldIn(O, p)) + T[p].lost <= T[p].rc + w
  <2>1. S[p].rc - S[p].lost - One(ForkOf(S[q], p)) + v
           <= T[p].rc - T[p].lost - One(ForkOf(T[q], p)) + w
    BY Zenon DEF Follows
  <2> QED
    BY <1>1, <1>3, <1>4, <1>5, <2>1
<1> QED
  BY <1>6, <1>7, Zenon DEF Balanced, Owes

-----------------------------------------------------------------------------
(* What the scripts leave of the records *)

SameRefs(x, y) == y.from = x.from /\ y.ref = x.ref /\ y.inc = x.inc /\ y.rc = x.rc

LEMMA ForgetProfile ==
    ASSUME NEW b, NEW S \in [Paths -> Streams(b)], NEW s \in Paths \cup {NoPath},
           NEW f \in Paths
    PROVE  /\ SameRefs(S[f], Forget(s, S)[f]) /\ Forget(s, S)[f].phase = S[f].phase
           /\ Forget(s, S)[f].lost = S[f].lost + One(f = s /\ S[f].phase # "none")
<1>0. S[f] \in Streams(b) /\ S[f].lost \in Nat
  BY FieldType, Zenon
<1>1. CASE Forget(s, S) = S /\ ~(f = s /\ S[f].phase # "none")
  <2>1. One(f = s /\ S[f].phase # "none") = 0
    BY <1>1, Zenon DEF One
  <2>2. S[f].lost = S[f].lost + 0
    BY <1>0
  <2> QED
    BY <1>1, <2>1, <2>2, Zenon DEF SameRefs
<1>2. CASE /\ s \in Paths /\ S[s].phase # "none"
           /\ Forget(s, S) = Put(S, s, [S[s] EXCEPT !.lost = S[s].lost + 1])
  <2>1. CASE f = s
    <3>1. PICK rec : rec = [S[f] EXCEPT !.lost = S[f].lost + 1]
      BY Zenon
    <3>2. Forget(s, S)[f] = rec
      BY <1>2, <2>1, <3>1, Zenon DEF Put
    <3>3. SameRefs(S[f], rec) /\ rec.phase = S[f].phase /\ rec.lost = S[f].lost + 1
      BY <1>0, <3>1 DEF SameRefs, Streams
    <3>4. One(f = s /\ S[f].phase # "none") = 1
      BY <1>2, <2>1, Zenon DEF One
    <3> QED
      BY <3>2, <3>3, <3>4, Zenon
  <2>2. CASE f # s
    <3>1. Forget(s, S)[f] = S[f]
      BY <1>2, <2>2, Zenon DEF Put
    <3>2. One(f = s /\ S[f].phase # "none") = 0
      BY <2>2, Zenon DEF One
    <3>3. S[f].lost = S[f].lost + 0
      BY <1>0
    <3> QED
      BY <3>1, <3>2, <3>3, Zenon DEF SameRefs
  <2> QED
    BY <2>1, <2>2, Zenon
<1>3. \/ s = NoPath /\ Forget(s, S) = S
      \/ s \in Paths /\ S[s].phase = "none" /\ Forget(s, S) = S
      \/ s \in Paths /\ S[s].phase # "none"
         /\ Forget(s, S) = Put(S, s, [S[s] EXCEPT !.lost = S[s].lost + 1])
  BY ForgetFacts, Zenon
<1>4. f # NoPath
  BY ConstantAssumption, Zenon
<1> QED
  BY <1>1, <1>2, <1>3, <1>4, Zenon

\* expire_cleanup of p: kept for its forks, or gone without releasing its source.
Softened(p, f) ==
    /\ SameRefs(st[f], ExpireCleanup(p)[f])
    /\ ExpireCleanup(p)[f].phase = "none" <=> st[f].phase = "none"
    /\ ExpireCleanup(p)[f].lost = st[f].lost

Removed(p, f) ==
    /\ f = p => Remove(p)[f] = Absent
    /\ f # p =>
          /\ SameRefs(st[f], Remove(p)[f])
          /\ Remove(p)[f].phase = st[f].phase
          /\ Remove(p)[f].lost =
                st[f].lost + One(f = st[p].from /\ st[f].phase # "none")

LEMMA RemoveProfile ==
    ASSUME TypeOK, NEW p \in Paths, NEW f \in Paths
    PROVE  Removed(p, f)
<1>0. /\ Remove(p) = Forget(st[p].from, Put(st, p, Absent))
      /\ Put(st, p, Absent) \in [Paths -> Streams(births)]
      /\ st[p].from \in Paths \cup {NoPath}
  BY RemoveIsForget, Zenon
<1>1. PICK S : S = Put(st, p, Absent)
  BY Zenon
<1>2. S \in [Paths -> Streams(births)] /\ S[p] = Absent
      /\ \A g \in Paths : g # p => S[g] = st[g]
  BY <1>0, <1>1, Zenon DEF Put
<1>3. /\ SameRefs(S[f], Forget(st[p].from, S)[f])
      /\ Forget(st[p].from, S)[f].phase = S[f].phase
      /\ Forget(st[p].from, S)[f].lost =
            S[f].lost + One(f = st[p].from /\ S[f].phase # "none")
  BY <1>0, <1>2, ForgetProfile, Zenon
<1>4. CASE f = p
  <2>1. S[p].phase = "none"
    BY <1>2 DEF Absent
  <2>2. \/ Forget(st[p].from, S) = S
        \/ /\ st[p].from \in Paths /\ S[st[p].from].phase # "none"
           /\ Forget(st[p].from, S) = Put(S, st[p].from,
                 [S[st[p].from] EXCEPT !.lost = S[st[p].from].lost + 1])
    BY <1>0, <1>2, ForgetFacts, ZenonT(40)
  <2>3. Forget(st[p].from, S)[p] = Absent
    BY <1>2, <2>1, <2>2, Zenon DEF Put
  <2> QED
    BY <1>0, <1>1, <1>4, <2>3, Zenon DEF Removed
<1>5. CASE f # p
  <2>1. S[f] = st[f]
    BY <1>2, <1>5, Zenon
  <2> QED
    BY <1>0, <1>1, <1>3, <1>5, <2>1, Zenon DEF Removed
<1> QED
  BY <1>4, <1>5, Zenon

LEMMA CleanupProfile ==
    ASSUME TypeOK, NEW p \in Paths, Exists(p)
    PROVE  \/ st[p].rc > 0 /\ \A f \in Paths : Softened(p, f)
           \/ st[p].rc = 0 /\ ExpireCleanup(p) = Remove(p)
<1>0. births \in Nat /\ \A f \in Paths : st[f] \in Streams(births)
  BY Zenon DEF TypeOK
<1>1. CASE /\ st[p].rc > 0
           /\ ExpireCleanup(p) = Put(st, p, [st[p] EXCEPT !.phase = "soft"])
  <2>1. ASSUME NEW f \in Paths
        PROVE  Softened(p, f)
    <3>1. CASE f = p
      <4>1. PICK rec : rec = [st[p] EXCEPT !.phase = "soft"]
        BY Zenon
      <4>2. /\ SameRefs(st[p], rec) /\ rec.lost = st[p].lost /\ rec.phase = "soft"
        BY <1>0, <4>1 DEF SameRefs, Streams
      <4>3. ExpireCleanup(p)[f] = rec
        BY <1>1, <3>1, <4>1, Zenon DEF Put
      <4>4. rec.phase # "none" /\ st[p].phase # "none"
        BY <4>2, Zenon DEF Exists
      <4> QED
        BY <3>1, <4>2, <4>3, <4>4, Zenon DEF Softened
    <3>2. CASE f # p
      <4>1. ExpireCleanup(p)[f] = st[f]
        BY <1>1, <3>2, Zenon DEF Put
      <4> QED
        BY <4>1, Zenon DEF Softened, SameRefs
    <3> QED
      BY <3>1, <3>2, Zenon
  <2> QED
    BY <1>1, <2>1, Zenon
<1>2. CASE st[p].rc = 0 /\ ExpireCleanup(p) = Remove(p)
  BY <1>2, Zenon
<1> QED
  BY <1>1, <1>2, CleanupFacts, Zenon

\* The keys of p may go when a use of a reference twice, now or before, stands
\* against each that p was still counted.
LEMMA RemoveBalance ==
    ASSUME RefInv, NEW p \in Paths, Exists(p), NEW r \in Paths, NEW w \in Nat,
           twice[r] <= w, r = p => st[p].rc + twice[p] <= w
    PROVE  Balanced(Remove(p), ops, w, r)
<1>0. TypeOK /\ Balanced(st, ops, twice[r], r) /\ st[p].phase # "none"
  BY Zenon DEF RefInv, Exists
<1>1. PICK T : T = Remove(p)
  BY Zenon
<1>2. \A f \in Paths : Removed(p, f)
  BY <1>0, RemoveProfile, Zenon
<1>3. T[p] = Absent /\ ~ForkOf(T[p], r)
  <2>1. T[p] = Absent
    BY <1>1, <1>2, Zenon DEF Removed
  <2>2. Absent.phase = "none"
    BY DEF Absent
  <2> QED
    BY <2>1, <2>2, Zenon DEF ForkOf
<1>4. ASSUME NEW f \in Paths \ {p}
      PROVE  ForkOf(T[f], r) <=> ForkOf(st[f], r)
  BY <1>1, <1>2, Zenon DEF Removed, SameRefs, ForkOf
<1>5. st[r].rc \in Nat /\ st[r].lost \in Nat /\ twice[r] \in Nat
  BY <1>0, PathFacts, Zenon
<1>6. One(ForkOf(T[p], r)) = 0 /\ One(ForkOf(st[p], r)) \in Nat
  BY <1>3 DEF One
<1>7. /\ T[r].rc \in Nat /\ T[r].lost \in Nat
      /\ Follows(T[r].rc, st[r].rc - st[r].lost - One(ForkOf(st[p], r)),
                 T[r].rc - T[r].lost - One(ForkOf(T[p], r)), twice[r], w)
  <2>1. CASE r = p
    <3>1. T[r].rc = 0 /\ T[r].lost = 0
      BY <1>3, <2>1 DEF Absent
    <3>2. st[r].rc + twice[r] <= w
      BY <2>1
    <3> QED
      BY <1>5, <1>6, <3>1, <3>2 DEF Follows
  <2>2. CASE r # p
    <3>1. /\ T[r].rc = st[r].rc
          /\ T[r].lost = st[r].lost + One(r = st[p].from /\ st[r].phase # "none")
      BY <1>1, <1>2, <2>2, Zenon DEF Removed, SameRefs
    <3>2. CASE st[r].phase # "none"
      <4>1. ForkOf(st[p], r) <=> r = st[p].from /\ st[r].phase # "none"
        BY <1>0, <3>2, Zenon DEF ForkOf
      <4>2. One(ForkOf(st[p], r)) = One(r = st[p].from /\ st[r].phase # "none")
        BY <4>1, Zenon DEF One
      <4>3. T[r].lost = st[r].lost + One(ForkOf(st[p], r))
        BY <3>1, <4>2, Zenon
      <4> QED
        BY <1>5, <1>6, <3>1, <4>3 DEF Follows
    <3>3. CASE st[r].phase = "none"
      <4>1. st[r].rc = 0
        BY <1>0, <3>3, PathFacts, Zenon DEF Exists
      <4>2. One(r = st[p].from /\ st[r].phase # "none") = 0
        BY <3>3, Zenon DEF One
      <4>3. T[r].rc = 0 /\ T[r].lost = st[r].lost
        BY <1>5, <3>1, <4>1, <4>2
      <4> QED
        BY <1>5, <1>6, <4>1, <4>3 DEF Follows
    <3> QED
      BY <3>2, <3>3, Zenon
  <2> QED
    BY <2>1, <2>2, Zenon
<1> QED
  BY <1>0, <1>1, <1>4, <1>5, <1>7, BalanceForks, ZenonT(40)

LEMMA CleanupBalance ==
    ASSUME RefInv, NEW p \in Paths, Exists(p), NEW r \in Paths
    PROVE  Balanced(ExpireCleanup(p), ops, twice[r], r)
<1>0. TypeOK /\ Balanced(st, ops, twice[r], r)
  BY Zenon DEF RefInv
<1>1. CASE \A f \in Paths : Softened(p, f)
  <2>1. ASSUME NEW f \in Paths
        PROVE  ForkOf(ExpireCleanup(p)[f], r) <=> ForkOf(st[f], r)
    BY <1>1, Zenon DEF Softened, SameRefs, ForkOf
  <2>2. ExpireCleanup(p)[r].rc = st[r].rc /\ ExpireCleanup(p)[r].lost = st[r].lost
    BY <1>1, Zenon DEF Softened, SameRefs
  <2> QED
    BY <1>0, <2>1, <2>2, BalanceSame, Zenon
<1>2. CASE st[p].rc = 0 /\ ExpireCleanup(p) = Remove(p)
  <2>1. twice[r] \in Nat /\ twice[p] \in Nat
    BY <1>0, PathFacts, Zenon
  <2>2. twice[r] <= twice[r] /\ (r = p => st[p].rc + twice[p] <= twice[r])
    BY <1>2, <2>1
  <2> QED
    BY <1>2, <2>1, <2>2, RemoveBalance, Zenon
<1> QED
  BY <1>0, <1>1, <1>2, CleanupProfile, Zenon

-----------------------------------------------------------------------------
(* A step keeps the invariant *)

\* No reference becomes stale: no stream with a count is replaced, and a new
\* request carries a reference that is current.
Kept ==
    /\ \A q \in Paths : st'[q].rc = 0 \/ st'[q].inc = st[q].inc
    /\ \A f \in Paths : st'[f].phase # "none" =>
          st[f].phase # "none" /\ st'[f].from = st[f].from /\ st'[f].ref = st[f].ref
    /\ \A d \in Clients : ops'[d].at = "create" =>
          \/ ops'[d] = ops[d]
          \/ ops'[d].from = NoPath
          \/ ops'[d].ref = st'[ops'[d].from].inc

\* What a step leaves of a path.
LEMMA NextFacts ==
    ASSUME TypeOK', NEW r \in Paths
    PROVE  /\ st'[r].rc \in Nat /\ st'[r].lost \in Nat
           /\ st'[r].rc # 0 => st'[r].phase # "none"
<1>1. st' \in [Paths -> Streams(births')] /\ AbsentIsClean(st')
  BY Zenon DEF TypeOK, AbsentIsClean, Exists
<1>2. st'[r] \in Streams(births')
  BY <1>1, Zenon
<1>3. st'[r].lost \in Nat /\ st'[r].rc \in 0 .. MaxRefs
  BY <1>2, FieldType, Zenon
<1>4. st'[r].rc \in Nat
  BY <1>3, ConstantAssumption
<1>5. Absent.rc = 0
  BY DEF Absent
<1> QED
  BY <1>1, <1>3, <1>4, <1>5, Zenon DEF AbsentIsClean

LEMMA CurrentStep ==
    ASSUME RefInv, TypeOK', TwiceGrows, Kept,
           \A r \in Paths : Balanced(st', ops', twice'[r], r)
    PROVE  RefInv'
<1>1. ASSUME NEW r \in Paths
      PROVE  Served(st', ops', twice'[r], r)
  <2>0. /\ twice[r] \in Nat /\ twice'[r] \in Nat /\ twice[r] <= twice'[r]
        /\ Served(st, ops, twice[r], r) /\ r # NoPath
    BY ConstantAssumption, Zenon DEF RefInv, TypeOK, TwiceGrows
  <2>1. CASE st'[r].rc = 0
    <3>1. st'[r].lost \in Nat
      BY NextFacts, Zenon
    <3> QED
      BY <2>0, <2>1, <3>1, UnreferencedServed, Zenon
  <2>2. CASE st'[r].rc # 0
    <3>1. st'[r].inc = st[r].inc /\ st'[r].phase # "none"
      BY <2>2, NextFacts, Zenon DEF Kept
    <3>2. ASSUME NEW ref, Lacks(st', ref, r)
          PROVE  Lacks(st, ref, r) /\ st'[r].inc # ref
      BY <3>1, <3>2, Zenon DEF Lacks
    <3>3. \A f \in Paths : StaleFork(st', st'[f], r) => StaleFork(st, st[f], r)
      <4>1. ASSUME NEW f \in Paths, StaleFork(st', st'[f], r)
            PROVE  StaleFork(st, st[f], r)
        <5>1. st'[f].phase # "none" /\ st'[f].from = r /\ Lacks(st', st'[f].ref, r)
          BY <4>1, Zenon DEF StaleFork, ForkOf
        <5>2. st[f].phase # "none" /\ st[f].from = r /\ st[f].ref = st'[f].ref
          BY <5>1, Zenon DEF Kept
        <5>3. Lacks(st, st[f].ref, r)
          BY <3>2, <5>1, <5>2, Zenon
        <5> QED
          BY <5>2, <5>3, Zenon DEF StaleFork, ForkOf
      <4> QED
        BY <4>1, Zenon
    <3>4. \A d \in Clients : StaleOp(st', ops'[d], r) => StaleOp(st, ops[d], r)
      <4>1. ASSUME NEW d \in Clients, StaleOp(st', ops'[d], r)
            PROVE  StaleOp(st, ops[d], r)
        <5>1. ops'[d].at = "create" /\ ops'[d].from = r /\ Lacks(st', ops'[d].ref, r)
          BY <4>1, Zenon DEF StaleOp
        <5>2. Lacks(st, ops'[d].ref, r) /\ st'[r].inc # ops'[d].ref
          BY <3>2, <5>1, Zenon
        <5>3. ops'[d] = ops[d]
          BY <2>0, <5>1, <5>2, Zenon DEF Kept
        <5> QED
          BY <5>1, <5>2, <5>3, Zenon DEF StaleOp
      <4> QED
        BY <4>1, Zenon
    <3> QED
      BY <2>0, <3>3, <3>4, ServedSame, Zenon
  <2> QED
    BY <2>1, <2>2, Zenon
<1> QED
  BY <1>1, Zenon DEF RefInv

LEMMA TypeIntro ==
    ASSUME births' \in Nat, twice' \in [Paths -> Nat], st' \in [Paths -> Streams(births')],
           ops' \in [Clients -> Ops(births')], AbsentIsClean(st')
    PROVE  TypeOK'
BY Zenon DEF TypeOK, AbsentIsClean, Exists

LEMMA SameTwice ==
    ASSUME RefInv, twice' = twice
    PROVE  TwiceGrows
<1>1. twice \in [Paths -> Nat]
  BY Zenon DEF RefInv, TypeOK
<1>2. \A p \in Paths : twice[p] \in Nat
  BY <1>1, Zenon
<1>3. \A p \in Paths : twice[p] <= twice[p]
  BY <1>2
<1> QED
  BY <1>1, <1>3, Zenon DEF TwiceGrows

\* At most one stream is cleaned up.
Tidied ==
    \/ st' = st
    \/ \E q \in Paths : Exists(q) /\ st' = ExpireCleanup(q)
    \/ \E q \in Paths : Exists(q) /\ st' = Remove(q) /\ st[q].rc + twice[q] <= twice'[q]

LEMMA TidyKept ==
    ASSUME RefInv, Tidied
    PROVE  /\ st' \in [Paths -> Streams(births)] /\ AbsentIsClean(st')
           /\ \A q \in Paths : st'[q].rc = 0 \/ st'[q].inc = st[q].inc
           /\ \A f \in Paths : st'[f].phase # "none" =>
                 st[f].phase # "none" /\ st'[f].from = st[f].from /\ st'[f].ref = st[f].ref
<1>0. TypeOK /\ Absent.rc = 0 /\ Absent.phase = "none"
  BY DEF RefInv, Absent
<1>1. CASE st' = st
  BY <1>0, <1>1, Zenon DEF TypeOK, AbsentIsClean, Exists
<1>2. ASSUME NEW q \in Paths, st' = ExpireCleanup(q), \A f \in Paths : Softened(q, f)
      PROVE  /\ \A p \in Paths : st'[p].rc = 0 \/ st'[p].inc = st[p].inc
             /\ \A f \in Paths : st'[f].phase # "none" =>
                   st[f].phase # "none" /\ st'[f].from = st[f].from /\ st'[f].ref = st[f].ref
  BY <1>2, Zenon DEF Softened, SameRefs
<1>3. ASSUME NEW q \in Paths, st' = Remove(q)
      PROVE  /\ \A p \in Paths : st'[p].rc = 0 \/ st'[p].inc = st[p].inc
             /\ \A f \in Paths : st'[f].phase # "none" =>
                   st[f].phase # "none" /\ st'[f].from = st[f].from /\ st'[f].ref = st[f].ref
  <2>1. \A f \in Paths : Removed(q, f)
    BY <1>0, RemoveProfile, Zenon
  <2>2. \A p \in Paths : st'[p].rc = 0 \/ st'[p].inc = st[p].inc
    BY <1>0, <1>3, <2>1, Zenon DEF Removed, SameRefs
  <2>3. \A f \in Paths : st'[f].phase # "none" =>
           st[f].phase # "none" /\ st'[f].from = st[f].from /\ st'[f].ref = st[f].ref
    BY <1>0, <1>3, <2>1, Zenon DEF Removed, SameRefs
  <2> QED
    BY <2>2, <2>3, Zenon
<1>4. CASE \E q \in Paths : Exists(q) /\ st' = ExpireCleanup(q)
  <2>1. PICK q \in Paths : Exists(q) /\ st' = ExpireCleanup(q)
    BY <1>4, Zenon
  <2>2. (\A f \in Paths : Softened(q, f)) \/ ExpireCleanup(q) = Remove(q)
    BY <1>0, <2>1, CleanupProfile, Zenon
  <2>3. st' \in [Paths -> Streams(births)] /\ AbsentIsClean(st')
    BY <1>0, <2>1, CleanupType, Zenon
  <2> QED
    BY <1>2, <1>3, <2>1, <2>2, <2>3, Zenon
<1>5. CASE \E q \in Paths : st' = Remove(q)
  BY <1>0, <1>3, <1>5, RemoveType, Zenon
<1> QED
  BY <1>1, <1>4, <1>5, Zenon DEF Tidied

\* A step that cleans up at most one stream, and after which every request holds
\* what it held.
LEMMA NeutralStep ==
    ASSUME RefInv, Tidied, TwiceGrows,
           ops' \in [Clients -> Ops(births)], births' = births,
           \A d \in Clients : \A r \in Paths : Holds(ops'[d], r) <=> Holds(ops[d], r),
           \A d \in Clients : ops'[d].at = "create" =>
              ops'[d] = ops[d] \/ ops'[d].from = NoPath
    PROVE  RefInv'
<1>0. TypeOK /\ \A r \in Paths : Balanced(st, ops, twice[r], r)
  BY Zenon DEF RefInv
<1>1. births \in Nat /\ twice' \in [Paths -> Nat]
  BY <1>0, Zenon DEF TypeOK, TwiceGrows
<1>2. /\ st' \in [Paths -> Streams(births)] /\ AbsentIsClean(st')
      /\ \A q \in Paths : st'[q].rc = 0 \/ st'[q].inc = st[q].inc
      /\ \A f \in Paths : st'[f].phase # "none" =>
            st[f].phase # "none" /\ st'[f].from = st[f].from /\ st'[f].ref = st[f].ref
  BY TidyKept, Zenon
<1>3. TypeOK'
  BY <1>1, <1>2, TypeIntro, Zenon
<1>4. ASSUME NEW r \in Paths
      PROVE  Balanced(st', ops', twice'[r], r)
  <2>0. /\ twice[r] \in Nat /\ twice'[r] \in Nat /\ twice[r] <= twice'[r]
        /\ st'[r].rc \in Nat /\ st'[r].lost \in Nat
    BY <1>0, <1>3, NextFacts, Zenon DEF TypeOK, TwiceGrows
  <2>1. Balanced(st', ops, twice'[r], r)
    <3>1. CASE Balanced(st', ops, twice[r], r)
      BY <2>0, <3>1, BalanceGrows, Zenon
    <3>2. ASSUME NEW q \in Paths, Exists(q), st' = Remove(q),
                 st[q].rc + twice[q] <= twice'[q]
          PROVE  Balanced(st', ops, twice'[r], r)
      BY <2>0, <3>2, RemoveBalance, Zenon
    <3> QED
      BY <1>0, <3>1, <3>2, CleanupBalance, Zenon DEF Tidied
  <2>2. \A d \in Clients : Holds(ops'[d], r) <=> Holds(ops[d], r)
    BY Zenon
  <2> QED
    BY <2>1, <2>2, BalanceSame, Zenon
<1>5. Kept
  BY <1>2, Zenon DEF Kept
<1> QED
  BY <1>3, <1>4, <1>5, CurrentStep, Zenon

\* The references to r that the record of q and the request of c account for
\* change with the count of r.
Own(rc, lost, rec, op, r) == rc - lost - One(ForkOf(rec, r)) - One(Holds(op, r))

Moves(q, rec, c, op, r) ==
    Own(IF r = q THEN rec.rc ELSE st[r].rc, IF r = q THEN rec.lost ELSE st[r].lost,
        rec, op, r) =
    Own(st[r].rc, st[r].lost, st[q], ops[c], r)

\* ... or not as much, as references are used twice.
Accounts(q, rec, c, op, r) ==
    Follows(IF r = q THEN rec.rc ELSE st[r].rc,
            Own(st[r].rc, st[r].lost, st[q], ops[c], r),
            Own(IF r = q THEN rec.rc ELSE st[r].rc, IF r = q THEN rec.lost ELSE st[r].lost,
                rec, op, r),
            twice[r], twice'[r])

LEMMA OwnType ==
    ASSUME NEW rc \in Nat, NEW lost \in Nat, NEW rec, NEW op, NEW r
    PROVE  Own(rc, lost, rec, op, r) \in Int
<1>1. One(ForkOf(rec, r)) \in Nat /\ One(Holds(op, r)) \in Nat
  BY DEF One
<1> QED
  BY <1>1 DEF Own

\* A script that writes the keys of one path, and what its caller holds then.
LEMMA PutStep ==
    ASSUME RefInv, NEW q \in Paths, NEW rec \in Streams(births),
           NEW c \in Clients, NEW op \in Ops(births),
           rec.phase = "none" => rec = Absent,
           st' = Put(st, q, rec), Goto(c, op), births' = births, TwiceGrows,
           \A r \in Paths : Moves(q, rec, c, op, r) \/ Accounts(q, rec, c, op, r),
           rec.rc = 0 \/ rec.inc = st[q].inc,
           rec.phase # "none" =>
              st[q].phase # "none" /\ rec.from = st[q].from /\ rec.ref = st[q].ref,
           op.at = "create" => op.ref = st'[op.from].inc
    PROVE  RefInv'
<1>0. TypeOK /\ \A r \in Paths : Balanced(st, ops, twice[r], r)
  BY Zenon DEF RefInv
<1>1. births \in Nat /\ twice' \in [Paths -> Nat] /\ st \in [Paths -> Streams(births)]
      /\ AbsentIsClean(st) /\ ops \in [Clients -> Ops(births)]
  BY <1>0, Zenon DEF TypeOK, AbsentIsClean, Exists, TwiceGrows
<1>2. /\ ops' \in [Clients -> Ops(births)] /\ ops'[c] = op
      /\ \A d \in Clients : d # c => ops'[d] = ops[d]
  BY <1>1, Zenon DEF Goto
<1>3. st'[q] = rec /\ \A f \in Paths : f # q => st'[f] = st[f]
  BY Zenon DEF Put
<1>4. TypeOK'
  <2>1. Put(st, q, rec) \in [Paths -> Streams(births)]
    BY <1>1, PutType, Zenon
  <2>2. AbsentIsClean(Put(st, q, rec))
    BY <1>1, PutClean, Zenon
  <2> QED
    BY <1>1, <1>2, <2>1, <2>2, TypeIntro, Zenon
<1>5. ASSUME NEW r \in Paths
      PROVE  Balanced(st', ops', twice'[r], r)
  <2>1. st[r].rc \in Nat /\ st[r].lost \in Nat /\ twice[r] \in Nat
        /\ Balanced(st, ops, twice[r], r)
    BY <1>0, PathFacts, Zenon
  <2>2. st'[r].rc \in Nat /\ st'[r].lost \in Nat /\ twice'[r] \in Nat
        /\ twice[r] <= twice'[r]
    BY <1>1, <1>4, NextFacts, Zenon DEF TwiceGrows
  <2>3. OnlyAt(st, st', ops, ops', r, q, c)
    BY <1>2, <1>3, Zenon DEF OnlyAt
  <2>4. /\ Rest(st', ops', r, q, c) = Own(st'[r].rc, st'[r].lost, rec, op, r)
        /\ Rest(st, ops, r, q, c) = Own(st[r].rc, st[r].lost, st[q], ops[c], r)
    BY <1>2, <1>3, Zenon DEF Rest, Own
  <2>5. /\ st'[r].rc = IF r = q THEN rec.rc ELSE st[r].rc
        /\ st'[r].lost = IF r = q THEN rec.lost ELSE st[r].lost
    BY <1>3, Zenon
  <2>6. Follows(st'[r].rc, Own(st[r].rc, st[r].lost, st[q], ops[c], r),
                Own(st'[r].rc, st'[r].lost, rec, op, r), twice[r], twice'[r])
    <3>1. CASE Accounts(q, rec, c, op, r)
      BY <2>5, <3>1, Zenon DEF Accounts
    <3>2. CASE Moves(q, rec, c, op, r)
      <4>1. Own(st'[r].rc, st'[r].lost, rec, op, r) =
               Own(st[r].rc, st[r].lost, st[q], ops[c], r)
        BY <2>5, <3>2, Zenon DEF Moves
      <4>2. Own(st[r].rc, st[r].lost, st[q], ops[c], r) \in Int
        BY <2>1, OwnType, Zenon
      <4> QED
        BY <2>1, <2>2, <4>1, <4>2 DEF Follows
    <3> QED
      BY <3>1, <3>2, Zenon
  <2>7. Follows(st'[r].rc, Rest(st, ops, r, q, c), Rest(st', ops', r, q, c),
                twice[r], twice'[r])
    BY <2>4, <2>6, Zenon
  <2> QED
    BY <2>1, <2>2, <2>3, <2>7, BalanceStep, ZenonT(40)
<1>6. Kept
  <2>1. \A p \in Paths : st'[p].rc = 0 \/ st'[p].inc = st[p].inc
    BY <1>3, Zenon
  <2>2. \A f \in Paths : st'[f].phase # "none" =>
           st[f].phase # "none" /\ st'[f].from = st[f].from /\ st'[f].ref = st[f].ref
    BY <1>3, Zenon
  <2>3. \A d \in Clients : ops'[d].at = "create" =>
           ops'[d] = ops[d] \/ ops'[d].ref = st'[ops'[d].from].inc
    BY <1>2, Zenon
  <2> QED
    BY <2>1, <2>2, <2>3, Zenon DEF Kept
<1> QED
  BY <1>4, <1>5, <1>6, CurrentStep, Zenon

-----------------------------------------------------------------------------
(* The requests *)

LEMMA HoldsFacts ==
    ASSUME NEW r \in Paths
    PROVE  /\ ~Holds(Idle, r)
           /\ \A x : Holds(Release(x), r) <=> x = r
<1>0. r # NoPath
  BY ConstantAssumption, Zenon
<1>2. ~Holds(Idle, r)
  BY DEF Holds, Idle
<1>3. ASSUME NEW x
      PROVE  Holds(Release(x), r) <=> x = r
  <2>1. CASE x = NoPath
    BY <1>0, <1>2, <2>1, Zenon DEF Release
  <2>2. CASE x # NoPath
    <3>1. Release(x) = [at |-> "release", path |-> x]
      BY <2>2, Zenon DEF Release
    <3>2. Holds([at |-> "release", path |-> x], r) <=> x = r
      BY DEF Holds
    <3> QED
      BY <3>1, <3>2, Zenon
  <2> QED
    BY <2>1, <2>2, Zenon
<1> QED
  BY <1>2, <1>3, Zenon

LEMMA NoHold ==
    ASSUME NEW op, op.at = "source" \/ op.at = "incr", NEW r
    PROVE  ~Holds(op, r)
BY DEF Holds

LEMMA GotoNeutral ==
    ASSUME RefInv, NEW c \in Clients, NEW op \in Ops(births), Goto(c, op),
           Tidied, births' = births, twice' = twice,
           \A r \in Paths : Holds(op, r) <=> Holds(ops[c], r),
           op.at = "create" => op.from = NoPath
    PROVE  RefInv'
<1>1. ops \in [Clients -> Ops(births)]
  BY Zenon DEF RefInv, TypeOK
<1>2. /\ ops' \in [Clients -> Ops(births)] /\ ops'[c] = op
      /\ \A d \in Clients : d # c => ops'[d] = ops[d]
  BY <1>1, Zenon DEF Goto
<1>3. \A d \in Clients : \A r \in Paths : Holds(ops'[d], r) <=> Holds(ops[d], r)
  BY <1>2, Zenon
<1>4. \A d \in Clients : ops'[d].at = "create" =>
         ops'[d] = ops[d] \/ ops'[d].from = NoPath
  BY <1>2, Zenon
<1> QED
  BY <1>2, <1>3, <1>4, SameTwice, NeutralStep, Zenon

LEMMA OpsFacts ==
    ASSUME RefInv, NEW c \in Clients
    PROVE  TypeOK /\ births \in Nat /\ ops[c] \in Ops(births)
BY Zenon DEF RefInv, TypeOK

LEMMA RequestStep ==
    ASSUME RefInv, NEW c \in Clients, NEW p \in Paths, NEW from \in Paths \cup {NoPath},
           Request(c, p, from)
    PROVE  RefInv'
<1>1. PICK op : op = [at |-> IF from = NoPath THEN "create" ELSE "source",
                      path |-> p, from |-> from, seen |-> 0, ref |-> 0]
  BY Zenon
<1>2. Goto(c, op) /\ st' = st /\ births' = births /\ twice' = twice /\ ops[c] = Idle
  BY <1>1, Zenon DEF Request
<1>3. births \in Nat
  BY OpsFacts, Zenon
<1>4. CASE from = NoPath
  <2>1. op.at = "create" /\ op.from = NoPath
    BY <1>1, <1>4
  <2>2. op \in Ops(births)
    BY <1>1, <1>3, <1>4 DEF Ops
  <2>3. ASSUME NEW r \in Paths
        PROVE  Holds(op, r) <=> Holds(ops[c], r)
    <3>1. ~Holds(ops[c], r)
      BY <1>2, HoldsFacts, Zenon
    <3>2. ~Holds(op, r)
      BY <2>1, ConstantAssumption DEF Holds
    <3> QED
      BY <3>1, <3>2, Zenon
  <2> QED
    BY <1>2, <2>1, <2>2, <2>3, GotoNeutral, Zenon DEF Tidied
<1>5. CASE from # NoPath
  <2>1. op.at = "source"
    BY <1>1, <1>5
  <2>2. op \in Ops(births)
    BY <1>1, <1>3, <1>5 DEF Ops
  <2>3. ASSUME NEW r \in Paths
        PROVE  Holds(op, r) <=> Holds(ops[c], r)
    BY <1>2, <2>1, NoHold, HoldsFacts, Zenon
  <2>4. op.at # "create"
    BY <2>1
  <2> QED
    BY <1>2, <2>2, <2>3, <2>4, GotoNeutral, Zenon DEF Tidied
<1> QED
  BY <1>4, <1>5, Zenon

LEMMA FetchSourceStep ==
    ASSUME RefInv, NEW c \in Clients, FetchSource(c)
    PROVE  RefInv'
<1>0. births \in Nat /\ ops[c] \in Ops(births) /\ TypeOK
  BY OpsFacts, Zenon
<1>1. ops[c].at = "source" /\ st' = st /\ births' = births /\ twice' = twice
  BY Zenon DEF FetchSource
<1>2. ops[c] \in [at : {"source", "incr"}, path : Paths, from : Paths,
                  seen : 0 .. births, ref : 0 .. births]
  BY <1>0, <1>1, OpFacts, Zenon
<1>3. PICK s \in Paths : s = ops[c].from
  BY <1>2
<1>4. st[s].inc \in 0 .. births
  <2>1. st[s] \in Streams(births)
    BY <1>0, PathFacts, Zenon
  <2> QED
    BY <2>1, FieldType, Zenon
<1>5. CASE Goto(c, Idle)
  <2>1. Idle \in Ops(births) /\ Idle.at # "create"
    BY <1>0, AbsentType DEF Idle
  <2>2. \A r \in Paths : Holds(Idle, r) <=> Holds(ops[c], r)
    BY <1>1, NoHold, HoldsFacts, Zenon
  <2> QED
    BY <1>1, <1>5, <2>1, <2>2, GotoNeutral, Zenon DEF Tidied
<1>6. CASE Goto(c, [ops[c] EXCEPT !.at = "incr", !.seen = st[ops[c].from].inc])
  <2>1. PICK op : op = [ops[c] EXCEPT !.at = "incr", !.seen = st[s].inc]
    BY Zenon
  <2>2. op \in [at : {"source", "incr"}, path : Paths, from : Paths,
                seen : 0 .. births, ref : 0 .. births] /\ op.at = "incr"
    BY <1>2, <1>4, <2>1, Zenon
  <2>3. op \in Ops(births) /\ op.at # "create"
    BY <2>2 DEF Ops
  <2>4. \A r \in Paths : Holds(op, r) <=> Holds(ops[c], r)
    BY <1>1, <2>2, NoHold, Zenon
  <2>5. Goto(c, op)
    BY <1>3, <1>6, <2>1, Zenon
  <2> QED
    BY <1>1, <2>3, <2>4, <2>5, GotoNeutral, Zenon DEF Tidied
<1> QED
  BY <1>5, <1>6, Zenon DEF FetchSource

LEMMA RejectStep ==
    ASSUME RefInv, NEW c \in Clients, ops[c].at = "create", Goto(c, Release(ops[c].from)),
           Tidied, births' = births, twice' = twice
    PROVE  RefInv'
<1>0. births \in Nat /\ ops[c] \in Ops(births)
  BY OpsFacts, Zenon
<1>1. ops[c] \in [at : {"create"}, path : Paths, from : Paths \cup {NoPath},
                  seen : 0 .. births, ref : 0 .. births]
  BY <1>0, OpFacts, Zenon
<1>2. PICK s \in Paths \cup {NoPath} : s = ops[c].from
  BY <1>1
<1>3. Release(s) \in Ops(births)
  BY ReleaseType, Zenon
<1>4. ASSUME NEW r \in Paths
      PROVE  Holds(Release(s), r) <=> Holds(ops[c], r)
  <2>1. Holds(ops[c], r) <=> s = r
    BY <1>2 DEF Holds
  <2> QED
    BY <2>1, HoldsFacts, Zenon
<1>5. Release(s).at # "create"
  BY DEF Release, Idle
<1> QED
  BY <1>2, <1>3, <1>4, <1>5, GotoNeutral, Zenon

\* A record that is a fork exactly of what the record of q was a fork of.
SameFork(q, rec) == rec.phase # "none" /\ rec.from = st[q].from

LEMMA SameForkCounts ==
    ASSUME NEW q, NEW rec, NEW r, SameFork(q, rec), Exists(q)
    PROVE  One(ForkOf(rec, r)) = One(ForkOf(st[q], r)) /\ One(ForkOf(rec, r)) \in Nat
<1>1. ForkOf(rec, r) <=> ForkOf(st[q], r)
  BY Zenon DEF SameFork, ForkOf, Exists
<1>2. One(ForkOf(rec, r)) = One(ForkOf(st[q], r))
  BY <1>1, Zenon DEF One
<1>3. One(ForkOf(rec, r)) \in Nat
  BY DEF One
<1> QED
  BY <1>2, <1>3, Zenon

LEMMA IncrRefStep ==
    ASSUME RefInv, NEW c \in Clients, NEW replied \in BOOLEAN, IncrRef(c, replied)
    PROVE  RefInv'
<1>0. births \in Nat /\ ops[c] \in Ops(births) /\ TypeOK
      /\ st \in [Paths -> Streams(births)]
  BY OpsFacts, Zenon DEF TypeOK
<1>1. ops[c].at = "incr" /\ st[ops[c].from].rc < MaxRefs
      /\ births' = births /\ twice' = twice
  BY Zenon DEF IncrRef
<1>2. ops[c] \in [at : {"source", "incr"}, path : Paths, from : Paths,
                  seen : 0 .. births, ref : 0 .. births]
  BY <1>0, <1>1, OpFacts, Zenon
<1>3. PICK s \in Paths : s = ops[c].from
  BY <1>2
<1>4. st[s] \in Streams(births)
  BY <1>0, PathFacts, Zenon
<1>5. st[s].inc \in 0 .. births /\ st[s].rc \in 0 .. MaxRefs /\ st[s].lost \in Nat
      /\ \A k \in 0 .. MaxRefs : [st[s] EXCEPT !.rc = k] \in Streams(births)
  BY <1>4, FieldType, Zenon
<1>6. st[s].rc + 1 \in 0 .. MaxRefs /\ st[s].rc \in Nat
  BY <1>1, <1>3, <1>5, ConstantAssumption
<1>7. PICK more : more = [st[s] EXCEPT !.rc = st[s].rc + 1]
  BY Zenon
<1>8. more \in Streams(births)
  BY <1>5, <1>6, <1>7, Zenon
<1>9. /\ more.rc = st[s].rc + 1 /\ more.lost = st[s].lost /\ more.inc = st[s].inc
      /\ more.phase = st[s].phase /\ more.from = st[s].from /\ more.ref = st[s].ref
  BY <1>4, <1>7 DEF Streams
<1>10. CASE Usable(s) /\ replied
  <2>1. Exists(s) /\ more.phase # "none"
    BY <1>9, <1>10 DEF Usable, Exists
  <2>2. PICK op : op = [ops[c] EXCEPT !.at = "create", !.ref = st[s].inc]
    BY Zenon
  <2>3. /\ op \in [at : {"create"}, path : Paths, from : Paths \cup {NoPath},
                   seen : 0 .. births, ref : 0 .. births]
        /\ op.at = "create" /\ op.from = s /\ op.ref = st[s].inc
    BY <1>2, <1>3, <1>5, <2>2, Zenon
  <2>4. op \in Ops(births)
    BY <2>3, Zenon DEF Ops
  <2>5. Goto(c, op)
    BY <1>3, <1>10, <2>2, Zenon DEF IncrRef
  <2>6. st' = Put(st, s, more)
    <3>1. st' = [st EXCEPT ![s] = more]
      BY <1>3, <1>7, <1>10, Zenon DEF IncrRef
    <3> QED
      BY <1>0, <3>1, Zenon DEF Put
  <2>7. ASSUME NEW r \in Paths
        PROVE  Moves(s, more, c, op, r)
    <3>1. One(ForkOf(more, r)) = One(ForkOf(st[s], r)) /\ One(ForkOf(more, r)) \in Nat
      BY <1>9, <2>1, SameForkCounts, Zenon DEF SameFork
    <3>2. One(Holds(ops[c], r)) = 0
      BY <1>1, NoHold, Zenon DEF One
    <3>3. Holds(op, r) <=> r = s
      BY <2>3 DEF Holds
    <3>4. CASE r = s
      <4>1. One(Holds(op, r)) = 1
        BY <3>3, <3>4, Zenon DEF One
      <4> QED
        BY <1>5, <1>6, <1>9, <3>1, <3>2, <3>4, <4>1 DEF Moves, Own
    <3>5. CASE r # s
      <4>1. One(Holds(op, r)) = 0
        BY <3>3, <3>5, Zenon DEF One
      <4> QED
        BY <3>1, <3>2, <3>5, <4>1, Zenon DEF Moves, Own
    <3> QED
      BY <3>4, <3>5, Zenon
  <2>8. op.ref = st'[op.from].inc
    BY <1>9, <2>3, <2>6, Zenon DEF Put
  <2> QED
    BY <1>1, <1>8, <1>9, <2>1, <2>4, <2>5, <2>6, <2>7, <2>8, SameTwice, PutStep, Zenon
       DEF Exists
<1>11. CASE Usable(s) /\ ~replied
  <2>1. PICK rec : rec = [more EXCEPT !.lost = more.lost + 1]
    BY Zenon
  <2>2. rec \in Streams(births)
    BY <1>8, <2>1, FieldType, Zenon
  <2>3. /\ rec.rc = st[s].rc + 1 /\ rec.lost = st[s].lost + 1 /\ rec.inc = st[s].inc
        /\ rec.phase = st[s].phase /\ rec.from = st[s].from /\ rec.ref = st[s].ref
    BY <1>8, <1>9, <2>1 DEF Streams
  <2>4. Exists(s) /\ rec.phase # "none"
    BY <1>11, <2>3 DEF Usable, Exists
  <2>5. st' = Put(st, s, rec)
    <3>1. st' = [st EXCEPT ![s] = [[st[s] EXCEPT !.rc = st[s].rc + 1]
                                      EXCEPT !.lost = st[s].lost + 1]]
      BY <1>0, <1>3, <1>4, <1>11, Zenon DEF IncrRef
    <3>2. st' = [st EXCEPT ![s] = rec]
      BY <1>7, <1>9, <2>1, <3>1, Zenon
    <3> QED
      BY <1>0, <3>2, Zenon DEF Put
  <2>6. Goto(c, ops[c])
    BY <1>3, <1>11, Zenon DEF IncrRef
  <2>7. ASSUME NEW r \in Paths
        PROVE  Moves(s, rec, c, ops[c], r)
    <3>1. One(ForkOf(rec, r)) = One(ForkOf(st[s], r)) /\ One(ForkOf(rec, r)) \in Nat
      BY <2>3, <2>4, SameForkCounts, Zenon DEF SameFork
    <3>2. CASE r = s
      <4>1. One(Holds(ops[c], r)) \in Nat
        BY DEF One
      <4> QED
        BY <1>5, <1>6, <2>3, <3>1, <3>2, <4>1 DEF Moves, Own
    <3>3. CASE r # s
      BY <3>1, <3>3, Zenon DEF Moves, Own
    <3> QED
      BY <3>2, <3>3, Zenon
  <2>8. ops[c].at # "create"
    BY <1>1
  <2> QED
    BY <1>0, <1>1, <2>2, <2>3, <2>4, <2>5, <2>6, <2>7, <2>8, SameTwice, PutStep, Zenon
       DEF Exists
<1>12. CASE ~Usable(s)
  <2>1. Goto(c, Idle) /\ st' = IF st[s].phase = "live" THEN ExpireCleanup(s) ELSE st
    BY <1>3, <1>12, Zenon DEF IncrRef
  <2>2. Idle \in Ops(births) /\ Idle.at # "create"
    BY <1>0, AbsentType DEF Idle
  <2>3. \A r \in Paths : Holds(Idle, r) <=> Holds(ops[c], r)
    BY <1>1, NoHold, HoldsFacts, Zenon
  <2>4. st[s].phase = "live" => Exists(s)
    BY DEF Exists
  <2>5. Tidied
    BY <2>1, <2>4, Zenon DEF Tidied
  <2> QED
    BY <1>1, <2>1, <2>2, <2>3, <2>5, GotoNeutral, Zenon
<1> QED
  BY <1>10, <1>11, <1>12, Zenon

LEMMA ExpireStep ==
    ASSUME RefInv, NEW p \in Paths, Expire(p)
    PROVE  RefInv'
<1>0. TypeOK /\ \A r \in Paths : Balanced(st, ops, twice[r], r)
  BY Zenon DEF RefInv
<1>1. births \in Nat /\ twice \in [Paths -> Nat] /\ st \in [Paths -> Streams(births)]
      /\ AbsentIsClean(st) /\ ops \in [Clients -> Ops(births)] /\ st[p] \in Streams(births)
  BY <1>0, Zenon DEF TypeOK, AbsentIsClean, Exists
<1>2. PICK rec : rec = [st[p] EXCEPT !.expired = TRUE]
  BY Zenon
<1>3. st' = Put(st, p, rec) /\ ops' = ops /\ births' = births /\ twice' = twice
      /\ st[p].phase # "none"
  <2>1. st' = [st EXCEPT ![p] = rec] /\ ops' = ops /\ births' = births /\ twice' = twice
        /\ st[p].phase # "none"
    BY <1>2, Zenon DEF Expire, Exists
  <2> QED
    BY <1>1, <2>1, Zenon DEF Put
<1>4. rec \in Streams(births)
  BY <1>1, <1>2, FieldType, Zenon
<1>5. /\ SameRefs(st[p], rec) /\ rec.phase = st[p].phase /\ rec.lost = st[p].lost
  BY <1>1, <1>2 DEF Streams, SameRefs
<1>6. ASSUME NEW f \in Paths
      PROVE  /\ SameRefs(st[f], st'[f]) /\ st'[f].phase = st[f].phase
             /\ st'[f].lost = st[f].lost
  BY <1>3, <1>5, Zenon DEF Put, SameRefs
<1>7. TypeOK'
  <2>1. Put(st, p, rec) \in [Paths -> Streams(births)]
    BY <1>1, <1>4, PutType, Zenon
  <2>2. AbsentIsClean(Put(st, p, rec))
    BY <1>1, <1>3, <1>5, PutClean, Zenon
  <2> QED
    BY <1>1, <1>3, <2>1, <2>2, TypeIntro, Zenon
<1>8. ASSUME NEW r \in Paths'
      PROVE  Balanced(st', ops', twice'[r], r)
  <2>1. \A f \in Paths : ForkOf(st'[f], r) <=> ForkOf(st[f], r)
    BY <1>6, Zenon DEF ForkOf, SameRefs
  <2>2. \A d \in Clients : Holds(ops'[d], r) <=> Holds(ops[d], r)
    BY <1>3, Zenon
  <2>3. r \in Paths /\ st'[r].rc = st[r].rc /\ st'[r].lost = st[r].lost
        /\ Balanced(st, ops, twice'[r], r)
    BY <1>0, <1>3, <1>6, Zenon DEF SameRefs
  <2> QED
    BY <2>1, <2>2, <2>3, BalanceSame, Zenon
<1>9. Kept
  BY <1>3, <1>6, Zenon DEF Kept, SameRefs
<1> QED
  BY <1>3, <1>7, <1>8, <1>9, SameTwice, CurrentStep, Zenon

\* A path that create.lua finds free, after the cleanup.
Cleared(p) == IF Exists(p) THEN ExpireCleanup(p) ELSE st

LEMMA ClearedFacts ==
    ASSUME RefInv, NEW p \in Paths, ~Exists(p) \/ st[p].rc = 0
    PROVE  /\ Cleared(p) \in [Paths -> Streams(births)] /\ AbsentIsClean(Cleared(p))
           /\ Cleared(p)[p] = Absent
           /\ \A r \in Paths : Balanced(Cleared(p), ops, twice[r], r)
           /\ \A f \in Paths \ {p} : /\ SameRefs(st[f], Cleared(p)[f])
                                     /\ Cleared(p)[f].phase = st[f].phase
<1>0. TypeOK /\ \A r \in Paths : Balanced(st, ops, twice[r], r)
  BY Zenon DEF RefInv
<1>1. CASE ~Exists(p)
  <2>1. Cleared(p) = st
    BY <1>1, Zenon DEF Cleared
  <2>2. st[p] = Absent /\ st \in [Paths -> Streams(births)] /\ AbsentIsClean(st)
    BY <1>0, <1>1, Zenon DEF TypeOK, AbsentIsClean, Exists
  <2> QED
    BY <1>0, <2>1, <2>2, Zenon DEF SameRefs
<1>2. CASE Exists(p)
  <2>1. Cleared(p) = ExpireCleanup(p)
    BY <1>2, Zenon DEF Cleared
  <2>2. ~(st[p].rc > 0)
    BY <1>2
  <2>3. ExpireCleanup(p) = Remove(p) /\ \A f \in Paths : Removed(p, f)
    BY <1>0, <1>2, <2>2, CleanupProfile, RemoveProfile, Zenon
  <2>4. ExpireCleanup(p) \in [Paths -> Streams(births)] /\ AbsentIsClean(ExpireCleanup(p))
    BY <1>0, CleanupType, Zenon
  <2>5. \A r \in Paths : Balanced(ExpireCleanup(p), ops, twice[r], r)
    BY <1>2, CleanupBalance, Zenon
  <2>6. \A f \in Paths \ {p} : /\ SameRefs(st[f], ExpireCleanup(p)[f])
                               /\ ExpireCleanup(p)[f].phase = st[f].phase
    BY <2>3, Zenon DEF Removed
  <2>7. ExpireCleanup(p)[p] = Absent
    BY <2>3, Zenon DEF Removed
  <2> QED
    BY <2>1, <2>4, <2>5, <2>6, <2>7, Zenon
<1> QED
  BY <1>1, <1>2, Zenon

\* A reference to s is used twice.
LEMMA UsedTwice ==
    ASSUME RefInv, NEW s \in Paths \cup {NoPath}, UseTwice(s)
    PROVE  TwiceGrows /\ \A r \in Paths : r = s => twice'[r] = twice[r] + 1
<1>0. twice \in [Paths -> Nat] /\ NoPath \notin Paths
  BY ConstantAssumption, Zenon DEF RefInv, TypeOK
<1>1. CASE s = NoPath
  <2>1. twice' = twice
    BY <1>1, Zenon DEF UseTwice
  <2> QED
    BY <1>0, <1>1, <2>1, SameTwice, Zenon
<1>2. CASE s # NoPath
  <2>1. s \in Paths /\ twice' = [twice EXCEPT ![s] = twice[s] + 1]
    BY <1>2, Zenon DEF UseTwice
  <2>2. twice[s] + 1 \in Nat /\ twice[s] <= twice[s] + 1
    BY <1>0, <2>1
  <2>3. twice' \in [Paths -> Nat] /\ twice'[s] = twice[s] + 1
        /\ \A r \in Paths : r # s => twice'[r] = twice[r]
    BY <1>0, <2>1, <2>2, Zenon
  <2>4. ASSUME NEW r \in Paths
        PROVE  twice[r] <= twice'[r]
    <3>1. CASE r = s
      BY <2>2, <2>3, <3>1, Zenon
    <3>2. CASE r # s
      <4>1. twice'[r] = twice[r] /\ twice[r] \in Nat
        BY <1>0, <2>3, <3>2, Zenon
      <4> QED
        BY <4>1
    <3> QED
      BY <3>1, <3>2, Zenon
  <2> QED
    BY <2>3, <2>4, Zenon DEF TwiceGrows
<1> QED
  BY <1>1, <1>2, Zenon

\* What a request does when its script has made the fork: the reference that it
\* held is the fork's, or is used twice.
Hands(c, op) ==
    \/ op = Idle /\ twice' = twice
    \/ op \in {Release(ops[c].from), ops[c]} /\ UseTwice(ops[c].from)

LEMMA BornStep ==
    ASSUME RefInv, NEW c \in Clients, ops[c].at = "create",
           ~Exists(ops[c].path) \/ st[ops[c].path].rc = 0, Born(ops[c]),
           NEW op, Goto(c, op), Hands(c, op)
    PROVE  RefInv'
<1>0. births \in Nat /\ ops[c] \in Ops(births) /\ twice \in [Paths -> Nat]
      /\ ops \in [Clients -> Ops(births)]
  BY Zenon DEF RefInv, TypeOK
<1>1. ops[c] \in [at : {"create"}, path : Paths, from : Paths \cup {NoPath},
                  seen : 0 .. births, ref : 0 .. births]
  BY <1>0, OpFacts, Zenon
<1>2. PICK p \in Paths, from \in Paths \cup {NoPath}, seen \in 0 .. births, ref \in 0 .. births :
         p = ops[c].path /\ from = ops[c].from /\ seen = ops[c].seen /\ ref = ops[c].ref
  BY <1>1
<1>3. PICK T : T = Cleared(p)
  BY Zenon
<1>4. /\ T \in [Paths -> Streams(births)] /\ AbsentIsClean(T) /\ T[p] = Absent
      /\ \A r \in Paths : Balanced(T, ops, twice[r], r)
      /\ \A f \in Paths \ {p} : SameRefs(st[f], T[f]) /\ T[f].phase = st[f].phase
  BY <1>2, <1>3, ClearedFacts, Zenon
<1>5. PICK rec : rec = [Absent EXCEPT !.phase = "live", !.inc = births + 1, !.from = from,
                                      !.seen = seen, !.ref = ref]
  BY Zenon
<1>6. /\ rec.phase = "live" /\ rec.from = from /\ rec.ref = ref /\ rec.rc = 0 /\ rec.lost = 0
      /\ rec.inc = births + 1
  BY <1>5 DEF Absent
<1>7. rec \in Streams(births + 1)
  <2>1. PICK i \in 0 .. (births + 1) : i = births + 1
    BY <1>0
  <2>2. 0 .. births \subseteq 0 .. (births + 1) /\ 0 \in 0 .. MaxRefs /\ 0 \in Nat
    BY <1>0, ConstantAssumption
  <2>3. PICK se \in 0 .. (births + 1), re \in 0 .. (births + 1) : se = seen /\ re = ref
    BY <1>2, <2>2, Zenon
  <2>4. rec = [phase |-> "live", inc |-> i, from |-> from, rc |-> 0, expired |-> FALSE,
               seen |-> se, ref |-> re, lost |-> 0]
    BY <1>5, <2>1, <2>3, Zenon DEF Absent
  <2> QED
    BY <1>2, <2>2, <2>3, <2>4, Zenon DEF Streams
<1>8. st' = Put(T, p, rec) /\ births' = births + 1
  <2>1. st' = [T EXCEPT ![p] = rec] /\ births' = births + 1
    BY <1>2, <1>3, <1>5, Zenon DEF Born, Cleared
  <2> QED
    BY <1>4, <2>1, Zenon DEF Put
<1>9. st'[p] = rec /\ \A f \in Paths \ {p} : st'[f] = T[f]
  BY <1>8, Zenon DEF Put
<1>10. /\ TwiceGrows /\ op \in {Idle, Release(from), ops[c]}
       /\ op # Idle => \A r \in Paths : r = from => twice'[r] = twice[r] + 1
  BY <1>2, SameTwice, UsedTwice, Zenon DEF Hands
<1>11. twice' \in [Paths -> Nat] /\ \A r \in Paths : twice[r] <= twice'[r]
  BY <1>10, Zenon DEF TwiceGrows
<1>12. /\ ops' \in [Clients -> Ops(births + 1)] /\ ops'[c] = op
       /\ \A d \in Clients \ {c} : ops'[d] = ops[d]
  <2>1. Ops(births) \subseteq Ops(births + 1)
    BY <1>0, Grown, Zenon
  <2>2. Idle \in Ops(births) /\ Release(from) \in Ops(births)
    BY <1>0, <1>2, AbsentType, ReleaseType, Zenon
  <2>3. op \in Ops(births + 1)
    BY <1>0, <1>10, <2>1, <2>2, Zenon
  <2> QED
    BY <1>0, <2>1, <2>3, Zenon DEF Goto
<1>13. TypeOK'
  <2>1. Streams(births) \subseteq Streams(births + 1)
    BY <1>0, Grown, Zenon
  <2>2. T \in [Paths -> Streams(births + 1)]
    BY <1>4, <2>1, Zenon
  <2>3. Put(T, p, rec) \in [Paths -> Streams(births + 1)]
    BY <1>2, <1>7, <2>2, PutType, Zenon
  <2>4. rec.phase # "none"
    BY <1>6
  <2>5. AbsentIsClean(Put(T, p, rec))
    BY <1>2, <1>4, <2>4, PutClean, Zenon
  <2>6. births' \in Nat
    BY <1>0, <1>8
  <2> QED
    BY <1>8, <1>11, <1>12, <2>3, <2>5, <2>6, TypeIntro, Zenon
<1>14. ASSUME NEW r \in Paths
       PROVE  Balanced(st', ops', twice'[r], r)
  <2>0. /\ r # NoPath /\ twice[r] \in Nat /\ twice'[r] \in Nat /\ twice[r] <= twice'[r]
    BY <1>0, <1>11, ConstantAssumption, Zenon
  <2>1. T[r].rc \in Nat /\ T[r].lost \in Nat
    <3>1. T[r].rc \in 0 .. MaxRefs /\ T[r].lost \in Nat
      BY <1>4, FieldType, Zenon
    <3> QED
      BY <3>1, ConstantAssumption
  <2>2. st'[r].rc = T[r].rc /\ st'[r].lost = T[r].lost
    <3>1. Absent.rc = 0 /\ Absent.lost = 0
      BY DEF Absent
    <3> QED
      BY <1>4, <1>6, <1>9, <3>1, Zenon
  <2>3. OnlyAt(T, st', ops, ops', r, p, c)
    BY <1>9, <1>12, Zenon DEF OnlyAt
  <2>4. One(ForkOf(T[p], r)) = 0
    BY <1>4 DEF ForkOf, One, Absent
  <2>5. Holds(ops[c], r) <=> from = r
    BY <1>2 DEF Holds
  <2>6. ForkOf(st'[p], r) <=> from = r
    BY <1>6, <1>9 DEF ForkOf
  <2>7. Holds(ops'[c], r) => from = r /\ twice'[r] = twice[r] + 1
    <3>1. ~Holds(Idle, r) /\ (Holds(Release(from), r) <=> from = r)
      BY <2>0, HoldsFacts, Zenon
    <3> QED
      BY <1>10, <1>12, <2>5, <3>1, Zenon
  <2>8. One(ForkOf(st'[p], r)) = One(Holds(ops[c], r)) /\ One(Holds(ops[c], r)) \in Nat
    BY <2>5, <2>6 DEF One
  <2>9. One(Holds(ops'[c], r)) \in Nat /\ One(Holds(ops'[c], r)) + twice[r] <= twice'[r]
    BY <2>0, <2>7 DEF One
  <2>10. Follows(st'[r].rc, Rest(T, ops, r, p, c), Rest(st', ops', r, p, c),
                 twice[r], twice'[r])
    BY <2>0, <2>1, <2>2, <2>4, <2>8, <2>9 DEF Rest, Follows
  <2>11. Balanced(T, ops, twice[r], r) /\ st'[r].rc \in Nat /\ st'[r].lost \in Nat
    BY <1>4, <2>1, <2>2, Zenon
  <2> QED
    BY <1>2, <2>0, <2>1, <2>3, <2>10, <2>11, BalanceStep, ZenonT(40)
<1>15. ASSUME NEW r \in Paths
       PROVE  Served(st', ops', twice'[r], r)
  <2>0. /\ r # NoPath /\ twice[r] \in Nat /\ twice'[r] \in Nat /\ twice[r] <= twice'[r]
        /\ Served(st, ops, twice[r], r)
    BY <1>0, <1>11, ConstantAssumption, Zenon DEF RefInv
  <2>1. CASE st'[r].rc = 0
    <3>1. st'[r].lost \in Nat
      BY <1>13, NextFacts, Zenon
    <3> QED
      BY <1>14, <2>0, <2>1, <3>1, UnreferencedServed, Zenon
  <2>2. CASE st'[r].rc # 0
    <3>1. r # p /\ st'[r].inc = st[r].inc /\ st'[r].phase = st[r].phase
      BY <1>4, <1>6, <1>9, <2>2, Zenon DEF SameRefs
    <3>2. ASSUME NEW x
          PROVE  Lacks(st', x, r) <=> Lacks(st, x, r)
      BY <3>1, Zenon DEF Lacks
    <3>3. \A f \in Paths \ {p} : StaleFork(st', st'[f], r) => StaleFork(st, st[f], r)
      <4>1. \A f \in Paths \ {p} : st'[f].phase = st[f].phase /\ st'[f].from = st[f].from
                                   /\ st'[f].ref = st[f].ref
        BY <1>4, <1>9, Zenon DEF SameRefs
      <4> QED
        BY <3>2, <4>1, Zenon DEF StaleFork, ForkOf
    <3>4. \A d \in Clients \ {c} : StaleOp(st', ops'[d], r) => StaleOp(st, ops[d], r)
      BY <1>12, <3>2, Zenon DEF StaleOp
    <3>5. StaleFork(st', st'[p], r) => StaleOp(st, ops[c], r)
      BY <1>2, <1>6, <1>9, <3>2, Zenon DEF StaleFork, ForkOf, StaleOp
    <3>6. ASSUME StaleOp(st', ops'[c], r)
          PROVE  StaleOp(st, ops[c], r) /\ twice[r] + 1 <= twice'[r]
      <4>1. op.at = "create" /\ op.from = r /\ Lacks(st', op.ref, r)
        BY <1>12, <3>6, Zenon DEF StaleOp
      <4>2. Idle.at # "create" /\ Release(from).at # "create"
        BY DEF Idle, Release
      <4>3. op = ops[c]
        BY <1>10, <4>1, <4>2, Zenon
      <4>4. op # Idle /\ r = from
        BY <1>2, <4>1, <4>2, <4>3, Zenon
      <4>5. twice'[r] = twice[r] + 1
        BY <1>10, <4>4, Zenon
      <4>6. twice[r] + 1 <= twice'[r]
        BY <2>0, <4>5
      <4> QED
        BY <3>2, <4>1, <4>3, <4>6, Zenon DEF StaleOp
    <3>7. Inherits(st, st', ops, ops', r, p, c, twice[r], twice'[r])
      BY <3>3, <3>4, <3>5, <3>6, Zenon DEF Inherits
    <3> QED
      BY <2>0, <3>7, ServedBorn, ZenonT(40)
  <2> QED
    BY <2>1, <2>2, Zenon
<1> QED
  BY <1>13, <1>14, <1>15, Zenon DEF RefInv

LEMMA CreateStep ==
    ASSUME RefInv, NEW c \in Clients, NEW reply, Create(c, reply)
    PROVE  RefInv'
<1>0. ops[c].at = "create"
  BY Zenon DEF Create
<1>1. CASE ~Exists(ops[c].path) \/ (st[ops[c].path].expired /\ st[ops[c].path].rc = 0)
  <2>1. Born(ops[c])
    BY <1>1, Zenon DEF Create
  <2>2. PICK op : op = IF reply = "resent" THEN ops[c]
                       ELSE IF reply = "ok" THEN Idle ELSE Release(ops[c].from)
    BY Zenon
  <2>3. Goto(c, op)
    BY <1>1, <2>2, Zenon DEF Create
  <2>4. Hands(c, op)
    <3>1. IF reply = "ok" THEN twice' = twice ELSE UseTwice(ops[c].from)
      BY Zenon DEF Create
    <3>2. "resent" # "ok"
      OBVIOUS
    <3> QED
      BY <2>2, <3>1, <3>2, Zenon DEF Hands
  <2> QED
    BY <1>0, <1>1, <2>1, <2>3, <2>4, BornStep, Zenon
<1>2. CASE ~(~Exists(ops[c].path) \/ (st[ops[c].path].expired /\ st[ops[c].path].rc = 0))
  <2>0. reply = "ok" /\ reply # "resent"
    <3>1. reply = "ok"
      BY <1>2, Zenon DEF Create
    <3> QED
      BY <3>1
  <2>1. /\ Goto(c, Release(ops[c].from)) /\ births' = births /\ twice' = twice
        /\ st' = IF st[ops[c].path].expired THEN ExpireCleanup(ops[c].path) ELSE st
    BY <1>2, <2>0, Zenon DEF Create
  <2>2. ops[c].path \in Paths
    <3>1. births \in Nat /\ ops[c] \in Ops(births)
      BY OpsFacts, Zenon
    <3>2. ops[c] \in [at : {"create"}, path : Paths, from : Paths \cup {NoPath},
                      seen : 0 .. births, ref : 0 .. births]
      BY <1>0, <3>1, OpFacts, Zenon
    <3> QED
      BY <3>2
  <2>3. Tidied
    BY <1>2, <2>1, <2>2, Zenon DEF Tidied
  <2> QED
    BY <1>0, <2>1, <2>3, RejectStep, Zenon
<1> QED
  BY <1>1, <1>2, Zenon

\* c gives up a reference to x that no count records.
LEMMA DropUncounted ==
    ASSUME RefInv, NEW c \in Clients, NEW x \in Paths,
           \A r \in Paths : Holds(ops[c], r) <=> x = r,
           ~Exists(x) \/ st[x].rc = 0, st' = st, Goto(c, Idle),
           births' = births, twice' = twice
    PROVE  RefInv'
<1>0. TypeOK /\ births \in Nat /\ st \in [Paths -> Streams(births)]
  BY Zenon DEF RefInv, TypeOK
<1>1. PICK rec \in Streams(births) : rec = st[x]
  BY <1>0, Zenon
<1>2. st' = Put(st, x, rec)
  BY <1>0, <1>1, Zenon DEF Put
<1>3. st[x].rc = 0
  BY <1>0, PathFacts, Zenon
<1>4. ASSUME NEW r \in Paths
      PROVE  Moves(x, rec, c, Idle, r) \/ Accounts(x, rec, c, Idle, r)
  <2>1. ~Holds(Idle, r)
    BY HoldsFacts, Zenon
  <2>2. One(Holds(Idle, r)) = 0
    BY <2>1, Zenon DEF One
  <2>3. CASE r = x
    <3>1. st[r].lost \in Nat /\ twice[r] \in Nat
      BY <1>0, PathFacts, Zenon
    <3>2. One(ForkOf(st[x], r)) \in Nat /\ One(Holds(ops[c], r)) \in Nat
      BY DEF One
    <3> QED
      BY <1>1, <1>3, <2>2, <2>3, <3>1, <3>2 DEF Accounts, Follows, Own
  <2>4. CASE r # x
    <3>1. One(Holds(ops[c], r)) = 0
      BY <2>4, Zenon DEF One
    <3> QED
      BY <1>1, <2>2, <2>4, <3>1, Zenon DEF Moves, Own
  <2> QED
    BY <2>3, <2>4, Zenon
<1>5. Idle \in Ops(births) /\ Idle.at # "create"
  BY <1>0, AbsentType DEF Idle
<1>6. rec.phase = "none" => rec = Absent
  BY <1>0, <1>1, PathFacts, Zenon DEF Exists
<1>7. /\ rec.rc = 0 \/ rec.inc = st[x].inc
      /\ rec.phase # "none" =>
            st[x].phase # "none" /\ rec.from = st[x].from /\ rec.ref = st[x].ref
  BY <1>1, Zenon
<1> QED
  BY <1>2, <1>4, <1>5, <1>6, <1>7, SameTwice, PutStep, Zenon

\* c gives up a counted reference to x: the count goes down, or the loss is
\* recorded.
LEMMA DropCounted ==
    ASSUME RefInv, NEW c \in Clients, NEW x \in Paths, Exists(x),
           \A r \in Paths : Holds(ops[c], r) <=> x = r,
           NEW rec \in Streams(births), st' = Put(st, x, rec), Goto(c, Idle),
           births' = births, twice' = twice,
           rec.phase = st[x].phase, rec.from = st[x].from, rec.ref = st[x].ref,
           rec.inc = st[x].inc, rec.rc - rec.lost = st[x].rc - st[x].lost - 1
    PROVE  RefInv'
<1>0. TypeOK /\ births \in Nat /\ rec.phase # "none"
  BY Zenon DEF RefInv, TypeOK, Exists
<1>1. st[x].rc \in Nat /\ st[x].lost \in Nat
  BY <1>0, PathFacts, Zenon
<1>2. ASSUME NEW r \in Paths
      PROVE  Moves(x, rec, c, Idle, r)
  <2>1. One(ForkOf(rec, r)) = One(ForkOf(st[x], r)) /\ One(ForkOf(rec, r)) \in Nat
    BY <1>0, SameForkCounts, Zenon DEF SameFork
  <2>2. ~Holds(Idle, r)
    BY HoldsFacts, Zenon
  <2>3. One(Holds(Idle, r)) = 0
    BY <2>2, Zenon DEF One
  <2>4. CASE r = x
    <3>1. One(Holds(ops[c], r)) = 1
      BY <2>4, Zenon DEF One
    <3> QED
      BY <1>1, <2>1, <2>3, <2>4, <3>1 DEF Moves, Own
  <2>5. CASE r # x
    <3>1. One(Holds(ops[c], r)) = 0
      BY <2>5, Zenon DEF One
    <3> QED
      BY <2>1, <2>3, <2>5, <3>1, Zenon DEF Moves, Own
  <2> QED
    BY <2>4, <2>5, Zenon
<1>3. Idle \in Ops(births) /\ Idle.at # "create"
  BY <1>0, AbsentType DEF Idle
<1>4. rec.phase # "none" =>
         st[x].phase # "none" /\ rec.from = st[x].from /\ rec.ref = st[x].ref
  BY Zenon
<1> QED
  BY <1>0, <1>2, <1>3, <1>4, SameTwice, PutStep, Zenon

\* The keys of p go, and c releases the reference that p held on its source.
LEMMA GoneStep ==
    ASSUME RefInv, NEW c \in Clients, NEW p \in Paths, Exists(p),
           st' = Put(st, p, Absent), Goto(c, Release(st[p].from)),
           births' = births, twice' = twice,
           \A r \in Paths : Holds(ops[c], r) => r = p,
           st[p].rc <= One(Holds(ops[c], p))
    PROVE  RefInv'
<1>0. TypeOK /\ births \in Nat /\ st[p].phase # "none"
  BY Zenon DEF RefInv, TypeOK, Exists
<1>1. st[p].rc \in Nat /\ st[p].lost \in Nat /\ st[p].from \in Paths \cup {NoPath}
      /\ twice[p] \in Nat
  BY <1>0, PathFacts, Zenon
<1>2. PICK from \in Paths \cup {NoPath} : from = st[p].from
  BY <1>1, Zenon
<1>3. Absent.rc = 0 /\ Absent.lost = 0 /\ Absent.phase = "none"
  BY DEF Absent
<1>4. ASSUME NEW r \in Paths
      PROVE  Moves(p, Absent, c, Release(from), r) \/ Accounts(p, Absent, c, Release(from), r)
  <2>1. One(ForkOf(Absent, r)) = 0
    BY <1>3, Zenon DEF One, ForkOf
  <2>2. Holds(Release(from), r) <=> from = r
    BY HoldsFacts, Zenon
  <2>3. ForkOf(st[p], r) <=> from = r
    BY <1>0, <1>2, Zenon DEF ForkOf
  <2>4. One(Holds(Release(from), r)) = One(ForkOf(st[p], r)) /\ One(ForkOf(st[p], r)) \in Nat
    BY <2>2, <2>3 DEF One
  <2>5. CASE r = p
    <3>1. One(Holds(ops[c], r)) \in Nat /\ st[r].rc <= One(Holds(ops[c], r))
      BY <2>5 DEF One
    <3> QED
      BY <1>1, <1>3, <2>1, <2>4, <2>5, <3>1 DEF Accounts, Follows, Own
  <2>6. CASE r # p
    <3>1. One(Holds(ops[c], r)) = 0
      BY <2>6, Zenon DEF One
    <3>2. st[r].rc \in Nat /\ st[r].lost \in Nat
      BY <1>0, PathFacts, Zenon
    <3> QED
      BY <2>1, <2>4, <2>6, <3>1, <3>2 DEF Moves, Own
  <2> QED
    BY <2>5, <2>6, Zenon
<1>5. Absent \in Streams(births) /\ Release(from) \in Ops(births)
  BY <1>0, AbsentType, ReleaseType, Zenon
<1>6. Release(from).at # "create"
  BY DEF Release, Idle
<1>7. Goto(c, Release(from))
  BY <1>2, Zenon
<1> QED
  BY <1>3, <1>4, <1>5, <1>6, <1>7, SameTwice, PutStep, Zenon

LEMMA DeleteStep ==
    ASSUME RefInv, NEW c \in Clients, NEW p \in Paths, Delete(c, p)
    PROVE  RefInv'
<1>0. /\ TypeOK /\ births \in Nat /\ st \in [Paths -> Streams(births)]
      /\ st[p] \in Streams(births) /\ ops \in [Clients -> Ops(births)]
  BY Zenon DEF RefInv, TypeOK
<1>1. ops[c] = Idle /\ st[p].phase = "live" /\ births' = births /\ twice' = twice
  BY Zenon DEF Delete
<1>2. Exists(p)
  BY <1>1 DEF Exists
<1>3. \A r \in Paths : ~Holds(ops[c], r)
  BY <1>1, HoldsFacts, Zenon
<1>4. st[p].rc \in Nat /\ st[p].lost \in Nat
  BY <1>0, PathFacts, Zenon
<1>5. CASE st[p].rc > 0
  <2>1. PICK rec : rec = [st[p] EXCEPT !.phase = "soft"]
    BY Zenon
  <2>2. rec \in Streams(births)
    BY <1>0, <2>1, FieldType, Zenon
  <2>3. /\ SameRefs(st[p], rec) /\ rec.lost = st[p].lost /\ rec.phase = "soft"
    BY <1>0, <2>1 DEF Streams, SameRefs
  <2>4. rec.phase # "none" /\ rec.from = st[p].from /\ rec.ref = st[p].ref
        /\ rec.inc = st[p].inc /\ rec.rc = st[p].rc
    BY <2>3 DEF SameRefs
  <2>5. st' = Put(st, p, rec) /\ ops' = ops
    <3>1. st' = [st EXCEPT ![p] = rec] /\ ops' = ops
      BY <1>5, <2>1, Zenon DEF Delete
    <3> QED
      BY <1>0, <3>1, Zenon DEF Put
  <2>6. Goto(c, Idle)
    BY <1>0, <1>1, <2>5, Zenon DEF Goto
  <2>7. ASSUME NEW r \in Paths
        PROVE  Moves(p, rec, c, Idle, r)
    <3>1. One(ForkOf(rec, r)) = One(ForkOf(st[p], r))
      BY <1>2, <2>4, SameForkCounts, Zenon DEF SameFork
    <3>2. One(Holds(Idle, r)) = One(Holds(ops[c], r))
      BY <1>1, Zenon
    <3> QED
      BY <2>3, <2>4, <3>1, <3>2, Zenon DEF Moves, Own
  <2>8. Idle \in Ops(births) /\ Idle.at # "create"
    BY <1>0, AbsentType DEF Idle
  <2> QED
    BY <1>1, <1>2, <2>2, <2>4, <2>5, <2>6, <2>7, <2>8, SameTwice, PutStep, Zenon
       DEF Exists
<1>6. CASE ~(st[p].rc > 0)
  <2>1. st' = Put(st, p, Absent) /\ Goto(c, Release(st[p].from))
    <3>1. st' = [st EXCEPT ![p] = Absent] /\ Goto(c, Release(st[p].from))
      BY <1>6, Zenon DEF Delete
    <3> QED
      BY <1>0, <3>1, Zenon DEF Put
  <2>2. \A r \in Paths : Holds(ops[c], r) => r = p
    BY <1>3, Zenon
  <2>3. st[p].rc <= One(Holds(ops[c], p))
    BY <1>4, <1>6 DEF One
  <2> QED
    BY <1>1, <1>2, <2>1, <2>2, <2>3, GoneStep, Zenon
<1> QED
  BY <1>5, <1>6, Zenon

LEMMA DecrRefStep ==
    ASSUME RefInv, NEW c \in Clients, NEW replied \in BOOLEAN, DecrRef(c, replied)
    PROVE  RefInv'
<1>0. /\ TypeOK /\ births \in Nat /\ st \in [Paths -> Streams(births)]
      /\ ops[c] \in Ops(births) /\ ops \in [Clients -> Ops(births)]
  BY Zenon DEF RefInv, TypeOK
<1>1. ops[c].at = "release" /\ births' = births
  BY Zenon DEF DecrRef
<1>2. ops[c] \in [at : {"release"}, path : Paths]
  BY <1>0, <1>1, OpFacts, Zenon
<1>3. PICK s \in Paths : s = ops[c].path
  BY <1>2
<1>4. \A r \in Paths : Holds(ops[c], r) <=> s = r
  BY <1>1, <1>3 DEF Holds
<1>5. st[s] \in Streams(births) /\ st[s].rc \in Nat /\ st[s].lost \in Nat
      /\ (~Exists(s) => st[s].rc = 0) /\ twice[s] \in Nat
  BY <1>0, PathFacts, Zenon
<1> DEFINE counted == Exists(s) /\ st[s].rc > 0
           last == st[s].rc = 1 /\ st[s].phase = "soft"
<1>6. last => counted
  BY DEF Exists
<1>7. /\ st' = IF ~counted THEN st
               ELSE IF ~last THEN [st EXCEPT ![s].rc = st[s].rc - 1]
               ELSE IF replied THEN [st EXCEPT ![s] = Absent] ELSE Remove(s)
      /\ Goto(c, IF ~replied THEN ops[c] ELSE IF last THEN Release(st[s].from) ELSE Idle)
      /\ IF replied THEN twice' = twice ELSE UseTwice(s)
      /\ replied \/ counted
  BY <1>3, Zenon DEF DecrRef
<1>8. ~replied => TwiceGrows /\ twice'[s] = twice[s] + 1
  BY <1>7, UsedTwice, Zenon
<1>9. ~replied => ops' = ops
  BY <1>0, <1>7, Zenon DEF Goto
<1>10. CASE ~counted
  <2>1. ~Exists(s) \/ st[s].rc = 0
    BY <1>5, <1>10
  <2>2. st' = st /\ Goto(c, Idle) /\ twice' = twice
    BY <1>6, <1>7, <1>10, Zenon
  <2> QED
    BY <1>1, <1>4, <2>1, <2>2, DropUncounted, Zenon
<1>11. CASE last /\ replied
  <2>1. st' = Put(st, s, Absent) /\ Goto(c, Release(st[s].from)) /\ Exists(s)
        /\ twice' = twice
    <3>1. st' = [st EXCEPT ![s] = Absent] /\ Goto(c, Release(st[s].from)) /\ Exists(s)
          /\ twice' = twice
      BY <1>6, <1>7, <1>11, Zenon
    <3> QED
      BY <1>0, <3>1, Zenon DEF Put
  <2>2. One(Holds(ops[c], s)) = 1
    BY <1>4, Zenon DEF One
  <2>3. st[s].rc <= One(Holds(ops[c], s))
    BY <1>11, <2>2
  <2>4. \A r \in Paths : Holds(ops[c], r) => r = s
    BY <1>4, Zenon
  <2> QED
    BY <1>1, <2>1, <2>3, <2>4, GoneStep, Zenon
<1>12. CASE last /\ ~replied
  <2>1. st' = Remove(s) /\ Exists(s)
    BY <1>6, <1>7, <1>12, Zenon
  <2>2. st[s].rc + twice[s] <= twice'[s]
    BY <1>5, <1>8, <1>12
  <2>3. Tidied
    BY <2>1, <2>2, Zenon DEF Tidied
  <2> QED
    BY <1>0, <1>1, <1>8, <1>9, <1>12, <2>3, NeutralStep, Zenon
<1>13. CASE counted /\ ~last
  <2>1. PICK rec : rec = [st[s] EXCEPT !.rc = st[s].rc - 1]
    BY Zenon
  <2>2. st' = Put(st, s, rec) /\ Exists(s)
    <3>1. st' = [st EXCEPT ![s] = rec] /\ Exists(s)
      BY <1>7, <1>13, <2>1, Zenon
    <3> QED
      BY <1>0, <3>1, Zenon DEF Put
  <2>3. rec \in Streams(births)
    <3>1. st[s].rc \in 0 .. MaxRefs
          /\ \A k \in 0 .. MaxRefs : [st[s] EXCEPT !.rc = k] \in Streams(births)
      BY <1>5, FieldType, Zenon
    <3>2. st[s].rc - 1 \in 0 .. MaxRefs
      BY <1>13, <3>1, ConstantAssumption
    <3> QED
      BY <2>1, <3>1, <3>2, Zenon
  <2>4. /\ rec.rc = st[s].rc - 1 /\ rec.lost = st[s].lost /\ rec.phase = st[s].phase
        /\ rec.from = st[s].from /\ rec.ref = st[s].ref /\ rec.inc = st[s].inc
    BY <1>5, <2>1 DEF Streams
  <2>5. CASE replied
    <3>1. rec.rc - rec.lost = st[s].rc - st[s].lost - 1
      BY <1>5, <2>4
    <3>2. Goto(c, Idle) /\ twice' = twice
      BY <1>7, <1>13, <2>5, Zenon
    <3> QED
      BY <1>1, <1>4, <2>2, <2>3, <2>4, <3>1, <3>2, DropCounted, Zenon
  <2>6. CASE ~replied
    <3>1. Goto(c, ops[c])
      BY <1>7, <2>6, Zenon
    <3>2. rec.phase # "none" /\ ops[c].at # "create"
      BY <1>1, <2>2, <2>4 DEF Exists
    <3>3. ASSUME NEW r \in Paths
          PROVE  Moves(s, rec, c, ops[c], r) \/ Accounts(s, rec, c, ops[c], r)
      <4>1. One(ForkOf(rec, r)) = One(ForkOf(st[s], r)) /\ One(ForkOf(rec, r)) \in Nat
        BY <2>2, <2>4, <3>2, SameForkCounts, Zenon DEF SameFork
      <4>2. CASE r = s
        <5>1. One(Holds(ops[c], r)) \in Nat
          BY DEF One
        <5>2. twice'[s] = twice[s] + 1
          BY <1>8, <2>6, Zenon
        <5> QED
          BY <1>5, <2>4, <4>1, <4>2, <5>1, <5>2 DEF Accounts, Follows, Own
      <4>3. CASE r # s
        BY <4>1, <4>3, Zenon DEF Moves, Own
      <4> QED
        BY <4>2, <4>3, Zenon
    <3>4. rec.phase # "none" =>
             st[s].phase # "none" /\ rec.from = st[s].from /\ rec.ref = st[s].ref
      BY <2>2, <2>4, Zenon DEF Exists
    <3> QED
      BY <1>0, <1>1, <1>8, <2>2, <2>3, <2>4, <2>6, <3>1, <3>2, <3>3, <3>4, PutStep, Zenon
  <2> QED
    BY <2>5, <2>6, Zenon
<1> QED
  BY <1>10, <1>11, <1>12, <1>13, Zenon

\* The reference that c held on x is forgotten.
LEMMA ForgetStep ==
    ASSUME RefInv, NEW c \in Clients, NEW x \in Paths \cup {NoPath},
           \A r \in Paths : Holds(ops[c], r) <=> x = r,
           st' = Forget(x, st), Goto(c, Idle), births' = births, twice' = twice
    PROVE  RefInv'
<1>0. TypeOK /\ births \in Nat /\ st \in [Paths -> Streams(births)]
  BY Zenon DEF RefInv, TypeOK
<1>1. CASE x = NoPath /\ Forget(x, st) = st
  <2>1. Idle \in Ops(births) /\ Idle.at # "create"
    BY <1>0, AbsentType DEF Idle
  <2>2. \A r \in Paths : Holds(Idle, r) <=> Holds(ops[c], r)
    BY <1>1, ConstantAssumption, HoldsFacts, Zenon
  <2> QED
    BY <1>1, <2>1, <2>2, GotoNeutral, Zenon DEF Tidied
<1>2. CASE x \in Paths /\ st[x].phase = "none" /\ Forget(x, st) = st
  <2>1. ~Exists(x)
    BY <1>2, Zenon DEF Exists
  <2> QED
    BY <1>2, <2>1, DropUncounted, Zenon
<1>3. CASE /\ x \in Paths /\ st[x].phase # "none"
           /\ Forget(x, st) = Put(st, x, [st[x] EXCEPT !.lost = st[x].lost + 1])
           /\ [st[x] EXCEPT !.lost = st[x].lost + 1] \in Streams(births)
  <2>1. PICK rec \in Streams(births) : rec = [st[x] EXCEPT !.lost = st[x].lost + 1]
    BY <1>3, Zenon
  <2>2. st[x] \in Streams(births) /\ st[x].rc \in Nat /\ st[x].lost \in Nat
    BY <1>0, <1>3, PathFacts, Zenon
  <2>3. /\ rec.rc = st[x].rc /\ rec.lost = st[x].lost + 1 /\ rec.phase = st[x].phase
        /\ rec.from = st[x].from /\ rec.ref = st[x].ref /\ rec.inc = st[x].inc
    BY <2>1, <2>2 DEF Streams
  <2>4. rec.rc - rec.lost = st[x].rc - st[x].lost - 1
    BY <2>2, <2>3
  <2>5. Exists(x) /\ st' = Put(st, x, rec)
    BY <1>3, <2>1, Zenon DEF Exists
  <2> QED
    BY <1>3, <2>3, <2>4, <2>5, DropCounted, Zenon
<1> QED
  BY <1>0, <1>1, <1>2, <1>3, ForgetFacts, Zenon

LEMMA CrashStep ==
    ASSUME RefInv, NEW c \in Clients, Crash(c)
    PROVE  RefInv'
<1>0. TypeOK /\ births \in Nat /\ ops[c] \in Ops(births)
  BY OpsFacts, Zenon
<1>1. Goto(c, Idle) /\ births' = births /\ twice' = twice /\ ops[c] # Idle
  BY Zenon DEF Crash
<1>2. CASE ops[c].at = "create"
  <2>1. ops[c] \in [at : {"create"}, path : Paths, from : Paths \cup {NoPath},
                    seen : 0 .. births, ref : 0 .. births]
    BY <1>0, <1>2, OpFacts, Zenon
  <2>2. PICK x \in Paths \cup {NoPath} : x = ops[c].from
    BY <2>1
  <2>3. \A r \in Paths : Holds(ops[c], r) <=> x = r
    BY <1>2, <2>2 DEF Holds
  <2>4. st' = Forget(x, st)
    BY <1>2, <2>2 DEF Crash
  <2> QED
    BY <1>1, <2>3, <2>4, ForgetStep, Zenon
<1>3. CASE ops[c].at = "release"
  <2>1. ops[c] \in [at : {"release"}, path : Paths]
    BY <1>0, <1>3, OpFacts, Zenon
  <2>2. PICK x \in Paths : x = ops[c].path
    BY <2>1
  <2>3. \A r \in Paths : Holds(ops[c], r) <=> x = r
    BY <1>3, <2>2 DEF Holds
  <2>4. st' = Forget(x, st)
    BY <1>3, <2>2 DEF Crash
  <2> QED
    BY <1>1, <2>3, <2>4, ForgetStep, Zenon
<1>4. CASE ops[c].at # "create" /\ ops[c].at # "release"
  <2>1. st' = st
    BY <1>4 DEF Crash
  <2>2. Idle \in Ops(births) /\ Idle.at # "create"
    BY <1>0, AbsentType DEF Idle
  <2>3. \A r \in Paths : ~Holds(ops[c], r)
    BY <1>4, Zenon DEF Holds
  <2>4. \A r \in Paths : Holds(Idle, r) <=> Holds(ops[c], r)
    BY <2>3, HoldsFacts, Zenon
  <2> QED
    BY <1>1, <2>1, <2>2, <2>4, GotoNeutral, Zenon DEF Tidied
<1> QED
  BY <1>2, <1>3, <1>4, Zenon

LEMMA ReapStep ==
    ASSUME RefInv, NEW p \in Paths, Reap(p)
    PROVE  RefInv'
<1>1. Exists(p) /\ st' = ExpireCleanup(p) /\ ops' = ops /\ births' = births
      /\ twice' = twice
  BY Zenon DEF Reap
<1>2. ops \in [Clients -> Ops(births)]
  BY Zenon DEF RefInv, TypeOK
<1> QED
  BY <1>1, <1>2, SameTwice, NeutralStep, Zenon DEF Tidied

LEMMA StutterStep ==
    ASSUME RefInv, UNCHANGED vars
    PROVE  RefInv'
<1>1. st' = st /\ ops' = ops /\ births' = births /\ twice' = twice
  BY Zenon DEF vars
<1>2. ops \in [Clients -> Ops(births)]
  BY Zenon DEF RefInv, TypeOK
<1> QED
  BY <1>1, <1>2, SameTwice, NeutralStep, Zenon DEF Tidied

-----------------------------------------------------------------------------
(* The theorems *)

LEMMA InitInv == Init => RefInv
<1> SUFFICES ASSUME Init PROVE RefInv
  BY Zenon
<1>0. Absent.phase = "none" /\ Absent.rc = 0 /\ Absent.lost = 0 /\ Idle.at = "idle"
  BY DEF Absent, Idle
<1>1. /\ births = 0 /\ twice = [p \in Paths |-> 0]
      /\ \A p \in Paths : st[p] = Absent
      /\ \A c \in Clients : ops[c] = Idle
  BY Zenon DEF Init
<1>2. Absent \in Streams(0) /\ Idle \in Ops(0)
  BY AbsentType
<1>3. TypeOK
  <2>1. births \in Nat /\ 0 \in Nat
    BY <1>1
  <2> QED
    BY <1>1, <1>2, <2>1, Zenon DEF Init, TypeOK, Exists
<1>4. ASSUME NEW p \in Paths
      PROVE  Balanced(st, ops, twice[p], p)
  <2>1. \A f \in Paths : ~ForkOf(st[f], p)
    BY <1>0, <1>1, Zenon DEF ForkOf
  <2>2. \A c \in Clients : ~Holds(ops[c], p)
    BY <1>1, HoldsFacts, Zenon
  <2>3. ForksIn(st, p) = {} /\ HeldIn(ops, p) = {}
    BY <2>1, <2>2, Zenon DEF ForksIn, HeldIn
  <2>4. Cardinality(ForksIn(st, p)) = 0 /\ Cardinality(HeldIn(ops, p)) = 0
    BY <2>3, FS_EmptySet, Zenon
  <2>5. st[p].rc = 0 /\ st[p].lost = 0 /\ twice[p] = 0
    BY <1>0, <1>1, Zenon
  <2> QED
    BY <2>4, <2>5 DEF Balanced, Owes
<1>5. ASSUME NEW p \in Paths
      PROVE  Served(st, ops, twice[p], p)
  <2>1. st[p].rc = 0 /\ st[p].lost \in Nat /\ twice[p] \in Nat
    BY <1>0, <1>1
  <2> QED
    BY <1>4, <2>1, UnreferencedServed, Zenon
<1> QED
  BY <1>3, <1>4, <1>5, Zenon DEF RefInv

LEMMA InvStep == RefInv /\ [Next]_vars => RefInv'
<1> SUFFICES ASSUME RefInv, [Next]_vars PROVE RefInv'
  BY Zenon
<1>1. ASSUME NEW c \in Clients, NEW p \in Paths, NEW from \in Paths \cup {NoPath},
             Request(c, p, from)
      PROVE  RefInv'
  BY <1>1, RequestStep, Zenon
<1>2. ASSUME NEW c \in Clients, Step(c)
      PROVE  RefInv'
  BY <1>2, FetchSourceStep, IncrRefStep, CreateStep, DecrRefStep, Zenon DEF Step
<1>3. ASSUME NEW c \in Clients, RejectData(c)
      PROVE  RefInv'
  <2>1. ops[c].at = "create" /\ Goto(c, Release(ops[c].from)) /\ st' = st
        /\ births' = births /\ twice' = twice
    BY <1>3, Zenon DEF RejectData
  <2> QED
    BY <2>1, RejectStep, Zenon DEF Tidied
<1>4. ASSUME NEW c \in Clients, LostReply(c)
      PROVE  RefInv'
  BY <1>4, IncrRefStep, DecrRefStep, CreateStep, Zenon DEF LostReply
<1>5. ASSUME NEW c \in Clients, NEW p \in Paths, Delete(c, p)
      PROVE  RefInv'
  BY <1>5, DeleteStep, Zenon
<1>6. ASSUME NEW c \in Clients, Crash(c)
      PROVE  RefInv'
  BY <1>6, CrashStep, Zenon
<1>7. ASSUME NEW p \in Paths, Expire(p) \/ Reap(p)
      PROVE  RefInv'
  BY <1>7, ExpireStep, ReapStep, Zenon
<1>8. CASE Next
  BY <1>1, <1>2, <1>3, <1>4, <1>5, <1>6, <1>7, <1>8, ZenonT(40) DEF Next
<1>9. CASE UNCHANGED vars
  BY <1>9, StutterStep, Zenon
<1> QED
  BY <1>8, <1>9, Zenon

LEMMA Invariance == Spec => []RefInv
BY InitInv, InvStep, PTL DEF Spec

\* Keys and requests keep the shape the scripts and the Go code give them.
THEOREM TypeCorrect == Spec => []TypeOK
<1>1. RefInv => TypeOK
  BY Zenon DEF RefInv
<1> QED
  BY <1>1, Invariance, PTL

LEMMA OwedIsOwes ==
    ASSUME NEW p \in Paths
    PROVE  Owed(p) = Owes(st, ops, p)
<1>1. ForksIn(st, p) = Forks(p)
  BY Zenon DEF ForksIn, ForkOf, Forks, Exists
<1>2. HeldIn(ops, p) = Held(p)
  BY Zenon DEF HeldIn, Holds, Held
<1> QED
  BY <1>1, <1>2, Zenon DEF Owed, Owes

\* For any paths, clients and faults, scripts sent again after a lost reply
\* included: the refcount of a source is never more than the number of its forks,
\* of the references that requests in progress hold and of those that nobody will
\* give back, and it is less by at most the number of references to the source
\* that were used twice.  incr_ref.lua, create.lua, delete.lua and decr_ref.lua
\* together neither lose nor double a reference while every reply arrives.
THEOREM ExactRefcounts == Spec => []RefcountIsExact
<1>1. RefInv => RefcountIsExact
  <2> SUFFICES ASSUME RefInv, NEW p \in Paths
               PROVE  st[p].rc <= Owed(p) /\ Owed(p) - twice[p] <= st[p].rc
    BY Zenon DEF RefcountIsExact
  <2>1. st[p].rc <= Owed(p) /\ Owed(p) <= st[p].rc + twice[p]
    BY OwedIsOwes, Zenon DEF RefInv, Balanced
  <2>2. st[p].rc \in Nat /\ st[p].lost \in Nat /\ twice[p] \in Nat
    BY PathFacts, Zenon DEF RefInv
  <2>3. Owed(p) \in Nat
    <3>1. Cardinality(ForksIn(st, p)) \in Nat /\ Cardinality(HeldIn(ops, p)) \in Nat
      BY ForksFinite, HeldFinite, Zenon
    <3>2. Owes(st, ops, p) \in Nat
      BY <2>2, <3>1 DEF Owes
    <3> QED
      BY <3>2, OwedIsOwes, Zenon
  <2> QED
    BY <2>1, <2>2, <2>3
<1> QED
  BY <1>1, Invariance, PTL

\* The forks of a path that find no source there, or another stream than the one
\* whose reference they took, are no more than the references to the path that
\* were used twice: neither delete.lua nor decr_ref.lua nor expire_cleanup
\* removes a source that is referenced, while every reply arrives, and each lost
\* reply costs at most one fork of that path its source.
THEOREM SourcesOutlive == Spec => []SourceOutlivesForks
<1>1. RefInv => SourceOutlivesForks
  <2> SUFFICES ASSUME RefInv, NEW p \in Paths
               PROVE  Cardinality(Orphans(p)) <= twice[p]
    BY Zenon DEF SourceOutlivesForks
  <2>1. Orphans(p) = StaleForksIn(st, p)
    <3>1. p # NoPath
      BY ConstantAssumption, Zenon
    <3>2. ASSUME NEW f \in Paths
          PROVE  (f \in Forks(p) /\ ~HasItsSource(f)) <=> StaleFork(st, st[f], p)
      BY <3>1, Zenon DEF Forks, HasItsSource, StaleFork, ForkOf, Lacks, Exists
    <3> QED
      BY <3>2, Zenon DEF Orphans, StaleForksIn, Forks
  <2>2. /\ Cardinality(StaleForksIn(st, p)) \in Nat
        /\ Cardinality(StaleOpsIn(st, ops, p)) \in Nat
    BY StaleFinite, Zenon
  <2>3. /\ Cardinality(StaleForksIn(st, p)) + Cardinality(StaleOpsIn(st, ops, p)) <= twice[p]
        /\ twice[p] \in Nat
    BY Zenon DEF RefInv, Served, TypeOK
  <2>4. Cardinality(StaleForksIn(st, p)) <= twice[p]
    BY <2>2, <2>3
  <2> QED
    BY <2>1, <2>4, Zenon
<1> QED
  BY <1>1, Invariance, PTL

=============================================================================
