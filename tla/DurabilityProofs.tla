-------------------------- MODULE DurabilityProofs --------------------------
(***************************************************************************)
(* Proofs about Durability: under tier B a fence that has left the server  *)
(* rests on a version of the subscription that no restart and no failover  *)
(* takes back, and so no pair is granted twice.                            *)
(***************************************************************************)
EXTENDS Durability, TLAPS

-----------------------------------------------------------------------------
(* The invariant *)

Subs == [phase : {"idle", "waking", "live"}, gen : Nat, wake : Nat,
         worker : Workers \cup {Nobody}, leased : BOOLEAN, sent : BOOLEAN, owed : BOOLEAN]

Fences == [gen : Nat, wake : Nat]

Procs == [at : {"none", "barrier", "ready", "reemit"}, fence : Fences, offset : Nat, era : Nat]

Actors == Managers \cup Workers

\* v comes after u: generations only grow, and once a generation is live it is
\* not issued again nor granted to anybody else.
Follows(u, v) ==
    /\ u.gen <= v.gen
    /\ u.phase = "live" /\ u.gen = v.gen =>
          v.phase # "waking" /\ (v.phase = "live" => v.worker = u.worker)

Ordered(L) == \A i, j \in 1 .. Len(L) : i < j => Follows(L[i], L[j])

\* The versions that neither a restart nor a failover takes back.
Mark == IF scene.replica = "none" THEN synced ELSE Smaller(synced, mirrored)

Minted(L, n, f) == \E i \in 1 .. n : Fence(L[i]) = f

Recorded(L, n, w, f) ==
    \E i \in 1 .. n : Fence(L[i]) = f /\ L[i].phase = "live" /\ L[i].worker = w

\* A barrier of this era waits at the version that its script wrote.
PendOK(L, e, p, a) ==
    p.at = "barrier" =>
        /\ p.era <= e
        /\ p.era = e => /\ p.offset \in 1 .. Len(L) /\ Fence(L[p.offset]) = p.fence
                        /\ a \in Workers => /\ L[p.offset].phase = "live"
                                            /\ L[p.offset].worker = a

RedisTypes ==
    /\ scene \in Scenes /\ replica \in {"none", "syncing", "online"}
    /\ replica = "none" <=> scene.replica = "none"
    /\ log \in Seq(Subs) /\ synced \in 1 .. Len(log) /\ mirrored \in 0 .. Len(log)
    /\ replica = "online" => mirrored >= 1
    /\ era \in Nat /\ minted \in Nat

Unwaited == proven = {} /\ \A a \in Actors : proc[a].at # "barrier"

Awaited == \A a \in Actors : proc[a].at = "ready" => proc[a].fence \in proven

Durable ==
    /\ \A f \in proven : Minted(log, Mark, f)
    /\ \A w \in Workers : proc[w].at = "ready" => Recorded(log, Mark, w, proc[w].fence)
    /\ \A x \in out : x.by \in Workers => Recorded(log, Mark, x.by, x.fence)

\* The inductive invariant.
DurInv ==
    /\ RedisTypes /\ proc \in [Actors -> Procs]
    /\ Ordered(log)
    /\ \A a \in Actors : PendOK(log, era, proc[a], a)
    /\ ~Plan.wait => Unwaited
    /\ Plan.wait => Awaited /\ NothingLeavesUnproven
    /\ Plan.wait /\ Covered => Durable

-----------------------------------------------------------------------------
(* Sequences of versions *)

LEMMA AppendFacts ==
    ASSUME NEW S, NEW L \in Seq(S), NEW v \in S
    PROVE  /\ L \o <<v>> \in Seq(S) /\ Len(L \o <<v>>) = Len(L) + 1 /\ Len(L) \in Nat
           /\ (L \o <<v>>)[Len(L) + 1] = v
           /\ \A i \in 1 .. Len(L) : (L \o <<v>>)[i] = L[i] /\ L[i] \in S
OBVIOUS

LEMMA CutFacts ==
    ASSUME NEW S, NEW L \in Seq(S), NEW n \in 1 .. Len(L)
    PROVE  /\ SubSeq(L, 1, n) \in Seq(S) /\ Len(SubSeq(L, 1, n)) = n /\ Len(L) \in Nat
           /\ \A i \in 1 .. n : SubSeq(L, 1, n)[i] = L[i]
OBVIOUS

\* A version that may follow c: a new generation, the end of this one, or the same
\* holder's, or the first claim of an issued wake.
Successor(c, v) ==
    \/ v.gen = c.gen + 1
    \/ v.gen = c.gen /\ v.phase = "idle"
    \/ v.gen = c.gen /\ v.phase = c.phase /\ v.worker = c.worker
    \/ v.gen = c.gen /\ c.phase = "waking" /\ v.phase = "live"

LEMMA SuccessorFollows ==
    ASSUME NEW c \in Subs, NEW v \in Subs, Successor(c, v), NEW u \in Subs,
           u = c \/ Follows(u, c)
    PROVE  Follows(u, v)
<1>1. u.gen \in Nat /\ c.gen \in Nat /\ v.gen \in Nat
  BY Zenon DEF Subs
<1>2. u.gen <= c.gen
  BY <1>1 DEF Follows
<1>3. CASE v.gen = c.gen + 1
  BY <1>1, <1>2, <1>3 DEF Follows
<1>4. CASE v.gen = c.gen /\ v.phase = "idle"
  BY <1>1, <1>2, <1>4 DEF Follows
<1>5. CASE v.gen = c.gen /\ v.phase = c.phase /\ v.worker = c.worker
  BY <1>1, <1>2, <1>5 DEF Follows
<1>6. CASE v.gen = c.gen /\ c.phase = "waking" /\ v.phase = "live"
  BY <1>1, <1>2, <1>6 DEF Follows
<1> QED
  BY <1>3, <1>4, <1>5, <1>6, Zenon DEF Successor

LEMMA OrderedAppend ==
    ASSUME NEW L \in Seq(Subs), Len(L) >= 1, Ordered(L), NEW v \in Subs,
           Successor(L[Len(L)], v)
    PROVE  Ordered(L \o <<v>>)
<1>1. PICK M : M = L \o <<v>>
  BY Zenon
<1>2. PICK n \in Nat : n = Len(L)
  BY AppendFacts
<1>3. /\ Len(M) = n + 1 /\ M[n + 1] = v /\ n >= 1
      /\ \A i \in 1 .. n : M[i] = L[i] /\ L[i] \in Subs
  <2>1. /\ Len(L \o <<v>>) = Len(L) + 1
        /\ (L \o <<v>>)[Len(L) + 1] = v
        /\ \A i \in 1 .. Len(L) : (L \o <<v>>)[i] = L[i] /\ L[i] \in Subs
    BY AppendFacts
  <2> QED
    BY <1>1, <1>2, <2>1, Zenon
<1> SUFFICES ASSUME NEW i \in 1 .. n + 1, NEW j \in 1 .. n + 1, i < j
             PROVE  Follows(M[i], M[j])
  BY <1>1, <1>3, Zenon DEF Ordered
<1>4. CASE j \in 1 .. n
  <2>1. i \in 1 .. n
    BY <1>4
  <2>2. Follows(L[i], L[j])
    BY <1>2, <1>4, <2>1, Zenon DEF Ordered
  <2> QED
    BY <1>3, <1>4, <2>1, <2>2, Zenon
<1>5. CASE j = n + 1
  <2>1. i \in 1 .. n /\ n \in 1 .. n /\ (i = n \/ i < n)
    BY <1>3, <1>5
  <2>2. L[i] = L[n] \/ Follows(L[i], L[n])
    BY <1>2, <2>1, Zenon DEF Ordered
  <2>3. L[i] \in Subs /\ L[n] \in Subs
    BY <1>3, <2>1, Zenon
  <2>4. Follows(L[i], v)
    BY <1>2, <2>2, <2>3, SuccessorFollows, Zenon
  <2> QED
    BY <1>3, <1>5, <2>1, <2>4, Zenon
<1> QED
  BY <1>4, <1>5

LEMMA OrderedCut ==
    ASSUME NEW L \in Seq(Subs), Ordered(L), NEW n \in 1 .. Len(L)
    PROVE  Ordered(SubSeq(L, 1, n))
<1>1. PICK M : M = SubSeq(L, 1, n)
  BY Zenon
<1>2. Len(M) = n /\ \A i \in 1 .. n : M[i] = L[i] /\ i \in 1 .. Len(L)
  BY <1>1, CutFacts
<1> SUFFICES ASSUME NEW i \in 1 .. n, NEW j \in 1 .. n, i < j
             PROVE  Follows(M[i], M[j])
  BY <1>1, <1>2, Zenon DEF Ordered
<1> QED
  BY <1>2, Zenon DEF Ordered

-----------------------------------------------------------------------------
(* What a step does to Redis, to the goroutines, and to what has left *)

RedisStep ==
    /\ RedisTypes' /\ Ordered(log') /\ scene' = scene
    /\ Mark <= Mark' /\ \A i \in 1 .. Mark : log'[i] = log[i]
    /\ \/ /\ era' = era /\ Len(log) <= Len(log')
          /\ \A i \in 1 .. Len(log) : log'[i] = log[i]
       \/ era' = era + 1 /\ proc' = proc

\* The goroutine a comes to p.
MayBe(a, p) ==
    /\ PendOK(log', era', p, a)
    /\ p.at = "barrier" => Plan.wait
    /\ p.at = "ready" /\ Plan.wait =>
          /\ p.fence \in proven'
          /\ Covered /\ a \in Workers => Recorded(log', Mark', a, p.fence)

ProcStep ==
    \/ proc' = proc
    \/ \E a \in Actors, p \in Procs : MayBe(a, p) /\ proc' = [proc EXCEPT ![a] = p]

ProvenStep ==
    \/ proven' = proven
    \/ \E f : Plan.wait /\ (Covered => Minted(log', Mark', f)) /\ proven' = proven \cup {f}

MayLeave(x) ==
    /\ Plan.wait /\ x.by # "sweep" => x.fence \in proven'
    /\ Plan.wait /\ Covered /\ x.by \in Workers => Recorded(log', Mark', x.by, x.fence)

OutStep == out' = out \/ \E x : MayLeave(x) /\ out' = out \cup {x}

LEMMA MarkFacts ==
    ASSUME RedisTypes
    PROVE  Mark \in Nat /\ Mark <= Len(log) /\ Len(log) \in Nat /\ Len(log) >= 1
<1>1. synced \in 1 .. Len(log) /\ mirrored \in 0 .. Len(log) /\ Len(log) \in Nat
  BY DEF RedisTypes
<1> QED
  BY <1>1 DEF Mark, Smaller

LEMMA SamePlan ==
    ASSUME scene' = scene
    PROVE  (Plan.wait)' = Plan.wait /\ Covered' = Covered
BY Zenon DEF Plan, Tier, Covered

LEMMA KeepFacts ==
    ASSUME DurInv, RedisStep
    PROVE  /\ \A f : Minted(log, Mark, f) => Minted(log', Mark', f)
           /\ \A w, f : Recorded(log, Mark, w, f) => Recorded(log', Mark', w, f)
<1>1. /\ \A i \in 1 .. Mark : log'[i] = log[i]
      /\ Mark \in Nat /\ Mark' \in Nat /\ Mark <= Mark'
  <2>1. Mark \in Nat
    BY MarkFacts, Zenon DEF DurInv
  <2>2. Mark' \in Nat
    <3>1. synced' \in 1 .. Len(log') /\ mirrored' \in 0 .. Len(log') /\ Len(log') \in Nat
      BY DEF RedisStep, RedisTypes
    <3> QED
      BY <3>1 DEF Mark, Smaller
  <2> QED
    BY <2>1, <2>2, Zenon DEF RedisStep
<1>2. \A i \in 1 .. Mark : i \in 1 .. Mark'
  BY <1>1
<1> QED
  BY <1>1, <1>2, Zenon DEF Minted, Recorded

LEMMA PendKept ==
    ASSUME DurInv, RedisStep, NEW a \in Actors, proc'[a] = proc[a]
    PROVE  PendOK(log', era', proc'[a], a)
<1>1. PICK p \in Procs : p = proc[a]
  BY Zenon DEF DurInv
<1>2. PendOK(log, era, p, a)
  BY <1>1, Zenon DEF DurInv
<1>3. p.era \in Nat /\ era \in Nat /\ Len(log) \in Nat
  BY MarkFacts DEF DurInv, RedisTypes, Procs
<1>4. CASE /\ era' = era /\ Len(log) <= Len(log')
           /\ \A i \in 1 .. Len(log) : log'[i] = log[i]
  <2>1. \A i \in 1 .. Len(log) : i \in 1 .. Len(log')
    <3>1. Len(log') \in Nat
      BY DEF RedisStep, RedisTypes
    <3> QED
      BY <1>3, <1>4, <3>1
  <2> QED
    BY <1>1, <1>2, <1>4, <2>1, Zenon DEF PendOK
<1>5. CASE era' = era + 1
  <2>1. p.at = "barrier" => p.era <= era' /\ p.era # era'
    BY <1>2, <1>3, <1>5 DEF PendOK
  <2> QED
    BY <1>1, <2>1, Zenon DEF PendOK
<1> QED
  BY <1>4, <1>5, Zenon DEF RedisStep

LEMMA ProcsKept ==
    ASSUME DurInv, RedisStep, ProcStep, proven \subseteq proven'
    PROVE  /\ proc' \in [Actors -> Procs]
           /\ \A a \in Actors : /\ PendOK(log', era', proc'[a], a)
                                /\ ~Plan.wait => proc'[a].at # "barrier"
                                /\ Plan.wait /\ proc'[a].at = "ready" => proc'[a].fence \in proven'
                                /\ Plan.wait /\ Covered /\ a \in Workers /\ proc'[a].at = "ready"
                                     => Recorded(log', Mark', a, proc'[a].fence)
<1>1. proc \in [Actors -> Procs]
  BY Zenon DEF DurInv
<1>2. ASSUME NEW a \in Actors, proc'[a] = proc[a]
      PROVE  /\ PendOK(log', era', proc'[a], a)
             /\ ~Plan.wait => proc'[a].at # "barrier"
             /\ Plan.wait /\ proc'[a].at = "ready" => proc'[a].fence \in proven'
             /\ Plan.wait /\ Covered /\ a \in Workers /\ proc'[a].at = "ready"
                  => Recorded(log', Mark', a, proc'[a].fence)
  <2>1. PendOK(log', era', proc'[a], a)
    BY <1>2, PendKept, Zenon
  <2>2. ~Plan.wait => proc[a].at # "barrier"
    BY Zenon DEF DurInv, Unwaited
  <2>3. Plan.wait /\ proc[a].at = "ready" => proc[a].fence \in proven'
    BY Zenon DEF DurInv, Awaited
  <2>4. Plan.wait /\ Covered /\ a \in Workers /\ proc[a].at = "ready"
           => Recorded(log', Mark', a, proc[a].fence)
    BY KeepFacts, Zenon DEF DurInv, Durable
  <2> QED
    BY <1>2, <2>1, <2>2, <2>3, <2>4, Zenon
<1>3. CASE proc' = proc
  BY <1>1, <1>2, <1>3, Zenon
<1>4. ASSUME NEW b \in Actors, NEW p \in Procs, MayBe(b, p), proc' = [proc EXCEPT ![b] = p]
      PROVE  /\ proc' \in [Actors -> Procs]
             /\ \A a \in Actors : proc'[a] = proc[a] \/ (a = b /\ proc'[a] = p)
  BY <1>1, <1>4, Zenon
<1>5. ASSUME NEW b \in Actors, NEW p \in Procs, MayBe(b, p), proc'[b] = p
      PROVE  /\ PendOK(log', era', proc'[b], b)
             /\ ~Plan.wait => proc'[b].at # "barrier"
             /\ Plan.wait /\ proc'[b].at = "ready" => proc'[b].fence \in proven'
             /\ Plan.wait /\ Covered /\ b \in Workers /\ proc'[b].at = "ready"
                  => Recorded(log', Mark', b, proc'[b].fence)
  BY <1>5, Zenon DEF MayBe
<1> QED
  BY <1>2, <1>3, <1>4, <1>5, ZenonT(40) DEF ProcStep

LEMMA Stepped ==
    ASSUME DurInv, RedisStep, ProcStep, ProvenStep, OutStep
    PROVE  DurInv'
<1>1. scene' = scene /\ RedisTypes' /\ Ordered(log')
  BY Zenon DEF RedisStep
<1>2. (Plan.wait)' = Plan.wait /\ Covered' = Covered
  BY <1>1, SamePlan, Zenon
<1>3. proven \subseteq proven'
  BY Zenon DEF ProvenStep
<1>4. /\ proc' \in [Actors -> Procs]
      /\ \A a \in Actors : /\ PendOK(log', era', proc'[a], a)
                           /\ ~Plan.wait => proc'[a].at # "barrier"
                           /\ Plan.wait /\ proc'[a].at = "ready" => proc'[a].fence \in proven'
                           /\ Plan.wait /\ Covered /\ a \in Workers /\ proc'[a].at = "ready"
                                => Recorded(log', Mark', a, proc'[a].fence)
  BY <1>3, ProcsKept, Zenon
<1>5. ~Plan.wait => proven' = {}
  BY Zenon DEF ProvenStep, DurInv, Unwaited
<1>6. ASSUME Plan.wait, NEW x \in out', x.by # "sweep" PROVE x.fence \in proven'
  <2>1. CASE x \in out
    BY <1>3, <1>6, <2>1, Zenon DEF DurInv, NothingLeavesUnproven
  <2>2. CASE MayLeave(x)
    BY <1>6, <2>2, Zenon DEF MayLeave
  <2> QED
    BY <1>6, <2>1, <2>2, Zenon DEF OutStep
<1>7. ASSUME Plan.wait, Covered, NEW x \in out', x.by \in Workers
      PROVE  Recorded(log', Mark', x.by, x.fence)
  <2>1. CASE x \in out
    <3>1. Recorded(log, Mark, x.by, x.fence)
      BY <1>7, <2>1, Zenon DEF DurInv, Durable
    <3> QED
      BY <3>1, KeepFacts, Zenon
  <2>2. CASE MayLeave(x)
    BY <1>7, <2>2, Zenon DEF MayLeave
  <2> QED
    BY <1>7, <2>1, <2>2, Zenon DEF OutStep
<1>8. ASSUME Plan.wait, Covered, NEW f \in proven' PROVE Minted(log', Mark', f)
  <2>1. f \in proven => Minted(log, Mark, f)
    BY <1>8, Zenon DEF DurInv, Durable
  <2>2. f \in proven => Minted(log', Mark', f)
    BY <2>1, KeepFacts, Zenon
  <2> QED
    BY <1>8, <2>2, Zenon DEF ProvenStep
<1>9. Workers \subseteq Actors
  BY Zenon DEF Actors
<1>10. (Plan.wait /\ Covered => Durable)'
  <2> SUFFICES ASSUME Plan.wait, Covered
               PROVE  /\ \A f \in proven' : Minted(log', Mark', f)
                      /\ \A w \in Workers : proc'[w].at = "ready"
                            => Recorded(log', Mark', w, proc'[w].fence)
                      /\ \A x \in out' : x.by \in Workers => Recorded(log', Mark', x.by, x.fence)
    BY <1>2, Zenon DEF Durable, Minted, Recorded, Fence
  <2> QED
    BY <1>4, <1>7, <1>8, <1>9, Zenon
<1>11. (Plan.wait => Awaited /\ NothingLeavesUnproven)'
  BY <1>2, <1>4, <1>6, Zenon DEF Awaited, NothingLeavesUnproven
<1>12. (~Plan.wait => Unwaited)'
  BY <1>2, <1>4, <1>5, Zenon DEF Unwaited
<1>13. \A a \in Actors : PendOK(log, era, proc[a], a)'
  BY <1>4, Zenon DEF PendOK, Fence
<1>14. Ordered(log)'
  BY <1>1, Zenon DEF Ordered, Follows
<1> QED
  BY <1>1, <1>4, <1>10, <1>11, <1>12, <1>13, <1>14, Zenon DEF DurInv

-----------------------------------------------------------------------------
(* Redis *)

LEMMA RedisFacts ==
    ASSUME DurInv
    PROVE  /\ log \in Seq(Subs) /\ Len(log) \in Nat /\ Len(log) >= 1 /\ Cur \in Subs
           /\ synced \in 1 .. Len(log) /\ mirrored \in 0 .. Len(log)
           /\ era \in Nat /\ minted \in Nat /\ Ordered(log)
           /\ Mark \in Nat /\ Mark <= Len(log)
<1>1. /\ log \in Seq(Subs) /\ synced \in 1 .. Len(log) /\ mirrored \in 0 .. Len(log)
      /\ era \in Nat /\ minted \in Nat /\ Ordered(log)
  BY Zenon DEF DurInv, RedisTypes
<1>2. Mark \in Nat /\ Mark <= Len(log) /\ Len(log) \in Nat /\ Len(log) >= 1
  BY MarkFacts, Zenon DEF DurInv
<1>3. Cur \in Subs
  BY <1>1, <1>2 DEF Cur
<1> QED
  BY <1>1, <1>2, <1>3, Zenon

LEMMA SameRedis ==
    ASSUME DurInv, UNCHANGED <<scene, replica, log, synced, mirrored, era, minted>>
    PROVE  RedisStep
<1>1. /\ scene' = scene /\ replica' = replica /\ log' = log /\ synced' = synced
      /\ mirrored' = mirrored /\ era' = era /\ minted' = minted
  OBVIOUS
<1>2. RedisTypes'
  BY <1>1, Zenon DEF DurInv, RedisTypes
<1>3. Mark' = Mark
  BY <1>1, Zenon DEF Mark
<1>4. Mark <= Mark' /\ Len(log) <= Len(log')
  BY <1>1, <1>3, RedisFacts
<1> QED
  BY <1>1, <1>2, <1>4, RedisFacts, Zenon DEF RedisStep

LEMMA Wrote ==
    ASSUME DurInv, NEW v \in Subs, Successor(Cur, v), log' = log \o <<v>>, minted' \in Nat,
           UNCHANGED <<scene, replica, synced, mirrored, era>>
    PROVE  /\ RedisStep
           /\ Len(log) + 1 \in 1 .. Len(log') /\ log'[Len(log) + 1] = v
<1>1. /\ scene' = scene /\ replica' = replica /\ synced' = synced
      /\ mirrored' = mirrored /\ era' = era
  OBVIOUS
<1>2. /\ log' \in Seq(Subs) /\ Len(log') = Len(log) + 1 /\ log'[Len(log) + 1] = v
      /\ \A i \in 1 .. Len(log) : log'[i] = log[i]
  BY RedisFacts, AppendFacts
<1>3. Ordered(log')
  <2>1. Successor(log[Len(log)], v)
    BY Zenon DEF Cur
  <2> QED
    BY <2>1, RedisFacts, OrderedAppend, Zenon
<1>4. synced' \in 1 .. Len(log') /\ mirrored' \in 0 .. Len(log')
  BY <1>1, <1>2, RedisFacts
<1>5. RedisTypes'
  <2>1. /\ scene \in Scenes /\ replica \in {"none", "syncing", "online"}
        /\ replica = "none" <=> scene.replica = "none"
        /\ replica = "online" => mirrored >= 1
        /\ era \in Nat
    BY Zenon DEF DurInv, RedisTypes
  <2> QED
    BY <1>1, <1>2, <1>4, <2>1, Zenon DEF RedisTypes
<1>6. Mark' = Mark
  BY <1>1, Zenon DEF Mark
<1>7. /\ Mark <= Mark' /\ Len(log) <= Len(log') /\ Len(log) + 1 \in 1 .. Len(log')
      /\ \A i \in 1 .. Mark : i \in 1 .. Len(log)
  BY <1>2, <1>6, RedisFacts
<1> QED
  BY <1>1, <1>2, <1>3, <1>5, <1>7, Zenon DEF RedisStep

LEMMA PersistStep ==
    ASSUME DurInv, Persist
    PROVE  RedisStep
<1>1. /\ synced' = Len(log) /\ scene' = scene /\ replica' = replica /\ log' = log
      /\ mirrored' = mirrored /\ era' = era /\ minted' = minted
  BY DEF Persist
<1>2. synced' \in 1 .. Len(log') /\ mirrored' \in 0 .. Len(log')
  BY <1>1, RedisFacts
<1>3. RedisTypes'
  <2>1. /\ scene \in Scenes /\ replica \in {"none", "syncing", "online"}
        /\ replica = "none" <=> scene.replica = "none"
        /\ replica = "online" => mirrored >= 1
    BY Zenon DEF DurInv, RedisTypes
  <2> QED
    BY <1>1, <1>2, <2>1, RedisFacts, Zenon DEF RedisTypes
<1>4. Mark <= Mark' /\ Len(log) <= Len(log')
  BY <1>1, RedisFacts DEF Mark, Smaller
<1> QED
  BY <1>1, <1>3, <1>4, RedisFacts, Zenon DEF RedisStep

LEMMA ReplicateStep ==
    ASSUME DurInv, Replicate
    PROVE  RedisStep
<1>1. /\ mirrored' = Len(log) /\ scene' = scene /\ replica # "none" /\ replica' = "online"
      /\ log' = log /\ synced' = synced /\ era' = era /\ minted' = minted
  BY DEF Replicate
<1>2. synced' \in 1 .. Len(log') /\ mirrored' \in 0 .. Len(log') /\ mirrored' >= 1
  BY <1>1, RedisFacts
<1>3. RedisTypes'
  <2>1. scene \in Scenes /\ scene.replica # "none"
    BY <1>1, Zenon DEF DurInv, RedisTypes
  <2>2. replica' \in {"none", "syncing", "online"} /\ replica' # "none"
    BY <1>1
  <2> QED
    BY <1>1, <1>2, <2>1, <2>2, RedisFacts, Zenon DEF RedisTypes
<1>4. Mark <= Mark' /\ Len(log) <= Len(log')
  BY <1>1, RedisFacts DEF Mark, Smaller
<1> QED
  BY <1>1, <1>3, <1>4, RedisFacts, Zenon DEF RedisStep

LEMMA RestartStep ==
    ASSUME DurInv, Restart
    PROVE  RedisStep
<1>1. /\ log' = SubSeq(log, 1, synced) /\ mirrored' = Smaller(mirrored, synced)
      /\ era' = era + 1 /\ scene' = scene /\ replica' = replica /\ synced' = synced
      /\ minted' = minted /\ proc' = proc
  BY DEF Restart
<1>2. /\ log' \in Seq(Subs) /\ Len(log') = synced
      /\ \A i \in 1 .. synced : log'[i] = log[i]
  BY <1>1, RedisFacts, CutFacts
<1>3. Ordered(log')
  BY <1>1, RedisFacts, OrderedCut, Zenon
<1>4. /\ synced' \in 1 .. Len(log') /\ mirrored' \in 0 .. Len(log')
      /\ mirrored >= 1 => mirrored' >= 1
      /\ era' \in Nat
  BY <1>1, <1>2, RedisFacts DEF Smaller
<1>5. RedisTypes'
  <2>1. /\ scene \in Scenes /\ replica \in {"none", "syncing", "online"}
        /\ replica = "none" <=> scene.replica = "none"
        /\ replica = "online" => mirrored >= 1
    BY Zenon DEF DurInv, RedisTypes
  <2> QED
    BY <1>1, <1>2, <1>4, <2>1, RedisFacts, Zenon DEF RedisTypes
<1>6. Mark <= Mark' /\ \A i \in 1 .. Mark : i \in 1 .. synced
  BY <1>1, RedisFacts DEF Mark, Smaller
<1> QED
  BY <1>1, <1>2, <1>3, <1>5, <1>6, Zenon DEF RedisStep

LEMMA FailoverStep ==
    ASSUME DurInv, Failover
    PROVE  RedisStep
<1>1. /\ log' = SubSeq(log, 1, mirrored) /\ synced' = mirrored /\ replica = "online"
      /\ era' = era + 1 /\ scene' = scene /\ replica' = replica /\ mirrored' = mirrored
      /\ minted' = minted /\ proc' = proc
  BY DEF Failover
<1>2. /\ scene \in Scenes /\ replica \in {"none", "syncing", "online"}
      /\ scene.replica # "none" /\ mirrored >= 1
  <2>1. replica # "none"
    BY <1>1
  <2> QED
    BY <1>1, <2>1, Zenon DEF DurInv, RedisTypes
<1>3. mirrored \in 1 .. Len(log)
  BY <1>2, RedisFacts
<1>4. /\ log' \in Seq(Subs) /\ Len(log') = mirrored
      /\ \A i \in 1 .. mirrored : log'[i] = log[i]
  BY <1>1, <1>3, RedisFacts, CutFacts
<1>5. Ordered(log')
  BY <1>1, <1>3, RedisFacts, OrderedCut, Zenon
<1>6. /\ synced' \in 1 .. Len(log') /\ mirrored' \in 0 .. Len(log') /\ era' \in Nat
  BY <1>1, <1>3, <1>4, RedisFacts
<1>7. RedisTypes'
  <2>1. replica' # "none"
    BY <1>1
  <2> QED
    BY <1>1, <1>2, <1>4, <1>6, <2>1, RedisFacts, Zenon DEF RedisTypes
<1>8. Mark <= Mark' /\ \A i \in 1 .. Mark : i \in 1 .. mirrored
  BY <1>1, <1>2, RedisFacts DEF Mark, Smaller
<1> QED
  BY <1>1, <1>4, <1>5, <1>7, <1>8, Zenon DEF RedisStep

-----------------------------------------------------------------------------
(* The scripts *)

LEMMA ArmFacts ==
    ASSUME NEW c \in Subs, NEW wake \in Nat
    PROVE  ArmScript(c, wake) \in Subs /\ Successor(c, ArmScript(c, wake))
<1>1. PICK g \in Nat : g = c.gen + 1
  BY DEF Subs
<1>2. PICK l \in BOOLEAN : l = (scene.kind = "webhook")
  BY Zenon
<1>3. PICK v : v = ArmScript(c, wake)
  BY Zenon
<1>4. v = [c EXCEPT !.phase = "waking", !.gen = g, !.wake = wake, !.worker = Nobody,
                    !.leased = l, !.sent = FALSE]
  BY <1>1, <1>2, <1>3, Zenon DEF ArmScript
<1>5. v \in Subs /\ v.gen = g
  BY <1>4, Zenon DEF Subs
<1> QED
  BY <1>1, <1>3, <1>5, Zenon DEF Successor

LEMMA ClaimFacts ==
    ASSUME NEW c \in Subs, NEW w \in Workers, NEW wake \in Nat
    PROVE  /\ ClaimScript(c, w, wake) \in Subs /\ Successor(c, ClaimScript(c, w, wake))
           /\ ClaimScript(c, w, wake).phase = "live" /\ ClaimScript(c, w, wake).worker = w
<1>1. PICK g \in Nat : g = c.gen + 1
  BY DEF Subs
<1>2. PICK v : v = ClaimScript(c, w, wake)
  BY Zenon
<1>3. CASE c.phase = "waking"
  <2>1. v = [c EXCEPT !.phase = "live", !.worker = w, !.leased = TRUE]
    BY <1>2, <1>3, Zenon DEF ClaimScript
  <2>2. v \in Subs /\ v.gen = c.gen /\ v.phase = "live" /\ v.worker = w
    BY <2>1, Zenon DEF Subs
  <2> QED
    BY <1>2, <1>3, <2>2, Zenon DEF Successor
<1>4. CASE c.phase # "waking"
  <2>1. PICK n : n = [c EXCEPT !.gen = g, !.wake = wake]
    BY Zenon
  <2>2. n \in Subs /\ n.gen = g
    BY <2>1, Zenon DEF Subs
  <2>3. v = [n EXCEPT !.phase = "live", !.worker = w, !.leased = TRUE]
    BY <1>1, <1>2, <1>4, <2>1, Zenon DEF ClaimScript
  <2>4. v \in Subs /\ v.gen = g /\ v.phase = "live" /\ v.worker = w
    BY <2>2, <2>3, Zenon DEF Subs
  <2> QED
    BY <1>1, <1>2, <2>4, Zenon DEF Successor
<1> QED
  BY <1>3, <1>4, Zenon

LEMMA EndFacts ==
    ASSUME NEW c \in Subs
    PROVE  /\ DoneScript(c) \in Subs /\ Successor(c, DoneScript(c))
           /\ ExpireScript(c) \in Subs /\ Successor(c, ExpireScript(c))
           /\ [c EXCEPT !.sent = TRUE] \in Subs /\ Successor(c, [c EXCEPT !.sent = TRUE])
<1>1. PICK d, e, s : d = DoneScript(c) /\ e = ExpireScript(c) /\ s = [c EXCEPT !.sent = TRUE]
  BY Zenon
<1>2. d \in Subs /\ d.gen = c.gen /\ d.phase = "idle"
  BY <1>1, Zenon DEF DoneScript, Subs
<1>3. e \in Subs /\ e.gen = c.gen /\ e.phase = "idle"
  BY <1>1, Zenon DEF ExpireScript, Subs
<1>4. s \in Subs /\ s.gen = c.gen /\ s.phase = c.phase /\ s.worker = c.worker
  BY <1>1, Zenon DEF Subs
<1>5. Successor(c, d) /\ Successor(c, e) /\ Successor(c, s)
  BY <1>2, <1>3, <1>4, Zenon DEF Successor
<1> QED
  BY <1>1, <1>2, <1>3, <1>4, <1>5, Zenon

LEMMA FenceType ==
    ASSUME NEW v \in Subs
    PROVE  Fence(v) \in Fences
BY Zenon DEF Fence, Fences, Subs

LEMMA RestType == Rest \in Procs /\ Rest.at = "none" /\ Rest.fence = NoFence /\ NoFence \in Fences
<1>1. 0 \in Nat
  OBVIOUS
<1>2. NoFence \in Fences
  BY <1>1, Zenon DEF NoFence, Fences
<1> QED
  BY <1>2 DEF Rest, Procs

-----------------------------------------------------------------------------
(* The actions *)

LEMMA MayRest ==
    ASSUME NEW a
    PROVE  MayBe(a, Rest)
<1>1. Rest.at # "barrier" /\ Rest.at # "ready"
  BY RestType
<1> QED
  BY <1>1, Zenon DEF MayBe, PendOK

\* A script has written v and its goroutine goes on to the barrier, or past it.
LEMMA MintedStep ==
    ASSUME DurInv, RedisStep, NEW a \in Actors, NEW v \in Subs, era' = era,
           Len(log) + 1 \in 1 .. Len(log'), log'[Len(log) + 1] = v,
           a \in Workers => v.phase = "live" /\ v.worker = a,
           proc' = [proc EXCEPT ![a] = Mint(Fence(v))]
    PROVE  ProcStep
<1>1. PICK n \in Nat : n = Len(log) + 1
  BY RedisFacts
<1>2. era \in Nat /\ era <= era' /\ 0 \in Nat
  BY RedisFacts
<1>3. PICK p : p = Mint(Fence(v))
  BY Zenon
<1>4. PICK f \in Fences : f = Fence(v)
  BY FenceType, Zenon
<1>5. CASE Plan.wait
  <2>1. p = [at |-> "barrier", fence |-> f, offset |-> n, era |-> era]
    BY <1>1, <1>3, <1>4, <1>5, Zenon DEF Mint
  <2>2. p \in Procs /\ p.at = "barrier" /\ p.fence = f /\ p.offset = n /\ p.era = era
    BY <1>2, <2>1 DEF Procs
  <2>3. p.at # "ready"
    BY <2>2
  <2>4. MayBe(a, p)
    BY <1>1, <1>2, <1>4, <1>5, <2>2, <2>3, Zenon DEF MayBe, PendOK
  <2> QED
    BY <1>3, <2>2, <2>4, Zenon DEF ProcStep
<1>6. CASE ~Plan.wait
  <2>1. p = [at |-> "ready", fence |-> f, offset |-> 0, era |-> era]
    BY <1>3, <1>4, <1>6, Zenon DEF Mint
  <2>2. p \in Procs /\ p.at = "ready"
    BY <1>2, <2>1 DEF Procs
  <2>3. p.at # "barrier"
    BY <2>2
  <2>4. MayBe(a, p)
    BY <1>6, <2>3, Zenon DEF MayBe, PendOK
  <2> QED
    BY <1>3, <2>2, <2>4, Zenon DEF ProcStep
<1> QED
  BY <1>5, <1>6, Zenon

LEMMA ArmWakeStep ==
    ASSUME Constants, DurInv, NEW m \in Managers, ArmWake(m)
    PROVE  DurInv'
<1>1. PICK v : v = ArmScript(Cur, minted + 1)
  BY Zenon
<1>2. /\ log' = log \o <<v>> /\ minted' = minted + 1
      /\ proc' = [proc EXCEPT ![m] = Mint(Fence(v))]
      /\ UNCHANGED <<scene, replica, synced, mirrored, era>> /\ proven' = proven /\ out' = out
  BY <1>1 DEF ArmWake, Write
<1>3. minted + 1 \in Nat /\ minted' \in Nat
  BY <1>2, RedisFacts
<1>4. v \in Subs /\ Successor(Cur, v)
  BY <1>1, <1>3, RedisFacts, ArmFacts, Zenon
<1>5. /\ RedisStep
      /\ Len(log) + 1 \in 1 .. Len(log') /\ log'[Len(log) + 1] = v
  BY <1>2, <1>3, <1>4, Wrote, Zenon
<1>6. m \in Actors /\ m \notin Workers
  BY Zenon DEF Actors, Constants
<1>7. era' = era
  BY <1>2
<1>8. ProcStep
  BY <1>2, <1>4, <1>5, <1>6, <1>7, MintedStep, Zenon
<1> QED
  BY <1>2, <1>5, <1>8, Stepped, Zenon DEF ProvenStep, OutStep

LEMMA ClaimStep ==
    ASSUME DurInv, NEW w \in Workers, ClaimAuthorized(w)
    PROVE  DurInv'
<1>1. PICK v : v = ClaimScript(Cur, w, minted + 1)
  BY Zenon
<1>2. /\ log' = log \o <<v>> /\ minted' = IF v.wake > minted THEN v.wake ELSE minted
      /\ proc' = [proc EXCEPT ![w] = Mint(Fence(v))]
      /\ UNCHANGED <<scene, replica, synced, mirrored, era>> /\ proven' = proven /\ out' = out
  BY <1>1 DEF ClaimAuthorized, Write, ClaimReply
<1>3. minted + 1 \in Nat /\ minted \in Nat
  BY RedisFacts
<1>4. v \in Subs /\ Successor(Cur, v) /\ v.phase = "live" /\ v.worker = w
  BY <1>1, <1>3, RedisFacts, ClaimFacts, Zenon
<1>5. minted' \in Nat
  <2>1. v.wake \in Nat
    BY <1>4, Zenon DEF Subs
  <2> QED
    BY <1>2, <1>3, <2>1, Zenon
<1>6. /\ RedisStep
      /\ Len(log) + 1 \in 1 .. Len(log') /\ log'[Len(log) + 1] = v
  BY <1>2, <1>4, <1>5, Wrote, Zenon
<1>7. w \in Actors /\ era' = era
  BY <1>2 DEF Actors
<1>8. ProcStep
  BY <1>2, <1>4, <1>6, <1>7, MintedStep, Zenon
<1> QED
  BY <1>2, <1>6, <1>8, Stepped, Zenon DEF ProvenStep, OutStep

\* A satisfied barrier: the version it waited for can no longer be lost.
LEMMA BarrierFacts ==
    ASSUME Constants, DurInv, Plan.wait, Covered, NEW n \in 1 .. Len(log),
           InterpretWaitAOF(Plan, waitAOFCounts(n))
    PROVE  n \in 1 .. Mark
<1>1. scene.want \in Int
  BY Zenon DEF Constants, DurInv, RedisTypes
<1>2. Plan.numLocal = 1 /\ (scene.want >= 1 => Plan.numReplicas = scene.want)
  <2>1. Tier = "B"
    BY DEF Plan, DurabilityFor
  <2> QED
    BY <1>1, <2>1 DEF Plan, DurabilityFor
<1>3. PICK l, r : l = waitAOFCounts(n).local /\ r = waitAOFCounts(n).replicas
  BY Zenon
<1>4. /\ l = IF synced >= n THEN 1 ELSE 0
      /\ r = IF replica = "online" /\ mirrored >= n THEN 1 ELSE 0
  BY <1>3 DEF waitAOFCounts
<1>5. l >= 1 /\ (scene.want >= 1 => r >= scene.want)
  BY <1>2, <1>3, Zenon DEF InterpretWaitAOF
<1>6. synced >= n
  BY <1>4, <1>5
<1>7. CASE scene.replica = "none"
  BY <1>6, <1>7, RedisFacts DEF Mark
<1>8. CASE scene.want >= 1
  <2>1. mirrored >= n
    BY <1>1, <1>4, <1>5, <1>8
  <2> QED
    BY <1>6, <2>1, RedisFacts DEF Mark, Smaller
<1> QED
  BY <1>7, <1>8, Zenon DEF Covered

LEMMA AwaitStep ==
    ASSUME Constants, DurInv, NEW a \in Actors, awaitDurableOn(a)
    PROVE  DurInv'
<1>1. PICK p \in Procs : p = proc[a]
  BY Zenon DEF DurInv
<1>2. /\ p.at = "barrier" /\ out' = out
      /\ UNCHANGED <<scene, replica, log, synced, mirrored, era, minted>>
  BY <1>1 DEF awaitDurableOn, redis
<1>3. RedisStep
  BY <1>2, SameRedis, Zenon
<1>4. Plan.wait
  BY <1>1, <1>2, Zenon DEF DurInv, Unwaited
<1>5. CASE ~(p.era = era /\ InterpretWaitAOF(Plan, waitAOFCounts(p.offset)))
  <2>1. proc' = [proc EXCEPT ![a] = Rest] /\ proven' = proven
    BY <1>1, <1>5, Zenon DEF awaitDurableOn
  <2>2. ProcStep
    BY <2>1, MayRest, RestType, Zenon DEF ProcStep
  <2> QED
    BY <1>2, <1>3, <2>1, <2>2, Stepped, Zenon DEF ProvenStep, OutStep
<1>6. CASE p.era = era /\ InterpretWaitAOF(Plan, waitAOFCounts(p.offset))
  <2>1. proc' = [proc EXCEPT ![a].at = "ready"] /\ proven' = proven \cup {p.fence}
    BY <1>1, <1>6, Zenon DEF awaitDurableOn
  <2>2. PICK q : q = [p EXCEPT !.at = "ready"]
    BY Zenon
  <2>3. q \in Procs /\ q.at = "ready" /\ q.fence = p.fence
    BY <2>2 DEF Procs
  <2>4. proc' = [proc EXCEPT ![a] = q]
    BY <1>1, <2>1, <2>2, Zenon
  <2>5. /\ p.offset \in 1 .. Len(log) /\ Fence(log[p.offset]) = p.fence
        /\ a \in Workers => log[p.offset].phase = "live" /\ log[p.offset].worker = a
    BY <1>1, <1>2, <1>6, Zenon DEF DurInv, PendOK
  <2>6. ASSUME Covered PROVE p.offset \in 1 .. Mark
    BY <1>4, <1>6, <2>5, <2>6, BarrierFacts, Zenon
  <2>7. log' = log /\ Mark' = Mark
    <3>1. /\ scene' = scene /\ synced' = synced /\ mirrored' = mirrored /\ log' = log
      BY <1>2
    <3> QED
      BY <3>1, Zenon DEF Mark
  <2>8. ASSUME Covered PROVE Minted(log', Mark', p.fence)
    BY <2>5, <2>6, <2>7, <2>8, Zenon DEF Minted
  <2>9. ASSUME Covered, a \in Workers PROVE Recorded(log', Mark', a, p.fence)
    BY <2>5, <2>6, <2>7, <2>9, Zenon DEF Recorded
  <2>10. ProvenStep
    BY <1>4, <2>1, <2>8, Zenon DEF ProvenStep
  <2>11. q.at # "barrier"
    BY <2>3
  <2>12. MayBe(a, q)
    BY <2>1, <2>3, <2>9, <2>11, Zenon DEF MayBe, PendOK
  <2>13. ProcStep
    BY <2>3, <2>4, <2>12, Zenon DEF ProcStep
  <2> QED
    BY <1>2, <1>3, <2>10, <2>13, Stepped, Zenon DEF OutStep
<1> QED
  BY <1>5, <1>6, Zenon

\* What is ready or already out stays recorded in the next state.
LEMMA LeaveFacts ==
    ASSUME DurInv, RedisStep, proven' = proven, NEW a \in Actors, proc[a].at = "ready", NEW by,
           by \in Workers => by = a
    PROVE  MayLeave([fence |-> proc[a].fence, by |-> by])
<1>1. PICK x : x = [fence |-> proc[a].fence, by |-> by]
  BY Zenon
<1>2. x.fence = proc[a].fence /\ x.by = by
  BY <1>1, Zenon
<1>3. Plan.wait => x.fence \in proven'
  BY <1>2, Zenon DEF DurInv, Awaited
<1>4. ASSUME Plan.wait, Covered, by \in Workers PROVE Recorded(log', Mark', by, x.fence)
  <2>1. Recorded(log, Mark, by, proc[a].fence)
    BY <1>4, Zenon DEF DurInv, Durable
  <2> QED
    BY <1>2, <2>1, KeepFacts, Zenon
<1>5. MayLeave(x)
  BY <1>2, <1>3, <1>4, Zenon DEF MayLeave
<1> QED
  BY <1>1, <1>5, Zenon

LEMMA ReturnClaimStep ==
    ASSUME DurInv, NEW w \in Workers, ReturnClaim(w)
    PROVE  DurInv'
<1>1. /\ proc[w].at = "ready"
      /\ out' = out \cup {[fence |-> proc[w].fence, by |-> w]}
      /\ proc' = [proc EXCEPT ![w] = Rest] /\ proven' = proven
      /\ UNCHANGED <<scene, replica, log, synced, mirrored, era, minted>>
  BY DEF ReturnClaim, redis
<1>2. RedisStep
  BY <1>1, SameRedis, Zenon
<1>3. w \in Actors
  BY Zenon DEF Actors
<1>4. MayLeave([fence |-> proc[w].fence, by |-> w])
  BY <1>1, <1>2, <1>3, LeaveFacts, Zenon
<1>5. ProcStep
  BY <1>1, <1>3, MayRest, RestType, Zenon DEF ProcStep
<1> QED
  BY <1>1, <1>2, <1>4, <1>5, Stepped, Zenon DEF ProvenStep, OutStep

\* A write that ends or stamps the current version, or none.
LEMMA EndStep ==
    ASSUME DurInv, UNCHANGED <<scene, replica, synced, mirrored, era, minted>>,
           \/ log' = log \/ log' = log \o <<DoneScript(Cur)>> \/ log' = log \o <<ExpireScript(Cur)>>
           \/ log' = log \o <<[Cur EXCEPT !.sent = TRUE]>>
    PROVE  RedisStep
<1>1. minted' \in Nat /\ UNCHANGED <<scene, replica, synced, mirrored, era>> /\ minted' = minted
  BY RedisFacts
<1>2. CASE log' = log
  BY <1>1, <1>2, SameRedis, Zenon
<1>3. ASSUME NEW v \in Subs, Successor(Cur, v), log' = log \o <<v>> PROVE RedisStep
  BY <1>1, <1>3, Wrote, Zenon
<1>4. /\ DoneScript(Cur) \in Subs /\ Successor(Cur, DoneScript(Cur))
      /\ ExpireScript(Cur) \in Subs /\ Successor(Cur, ExpireScript(Cur))
      /\ [Cur EXCEPT !.sent = TRUE] \in Subs /\ Successor(Cur, [Cur EXCEPT !.sent = TRUE])
  BY RedisFacts, EndFacts, Zenon
<1> QED
  BY <1>2, <1>3, <1>4, Zenon

LEMMA DispatchStep ==
    ASSUME Constants, DurInv, NEW m \in Managers, Dispatch(m)
    PROVE  DurInv'
<1>1. PICK p \in Procs : p = proc[m] /\ m \in Actors /\ m \notin Workers
  BY Zenon DEF DurInv, Actors, Constants
<1>2. PICK by : by = IF p.at = "ready" THEN "issue" ELSE "sweep"
  BY Zenon
<1>3. /\ p.at \in {"ready", "reemit"}
      /\ out' = out \cup {[fence |-> p.fence, by |-> by]}
      /\ proc' = [proc EXCEPT ![m] = Rest] /\ proven' = proven
      /\ UNCHANGED <<scene, replica, synced, mirrored, era, minted>>
  BY <1>1, <1>2 DEF Dispatch
<1>4. log' = log \/ log' = log \o <<[Cur EXCEPT !.sent = TRUE]>>
  BY Zenon DEF Dispatch, Stamp, Write
<1>5. RedisStep
  BY <1>3, <1>4, EndStep, Zenon
<1>6. by \notin Workers
  BY <1>2, Zenon DEF Constants
<1>7. MayLeave([fence |-> p.fence, by |-> by])
  <2>1. CASE p.at = "ready"
    BY <1>1, <1>3, <1>5, <1>6, <2>1, LeaveFacts, Zenon
  <2>2. CASE p.at # "ready"
    <3>1. PICK x : x = [fence |-> p.fence, by |-> by]
      BY Zenon
    <3>2. x.by = "sweep" /\ x.by \notin Workers
      BY <1>2, <1>6, <2>2, <3>1, Zenon
    <3>3. MayLeave(x)
      BY <3>2, Zenon DEF MayLeave
    <3> QED
      BY <3>1, <3>3, Zenon
  <2> QED
    BY <2>1, <2>2, Zenon
<1>8. ProcStep
  BY <1>1, <1>3, MayRest, RestType, Zenon DEF ProcStep
<1> QED
  BY <1>3, <1>5, <1>7, <1>8, Stepped, Zenon DEF ProvenStep, OutStep

LEMMA ReemitStep ==
    ASSUME DurInv, NEW m \in Managers, ReemitPullWake(m)
    PROVE  DurInv'
<1>1. PICK q : q = [Rest EXCEPT !.at = "reemit", !.fence = Fence(Cur)]
  BY Zenon
<1>2. /\ proc' = [proc EXCEPT ![m] = q] /\ proven' = proven /\ out' = out
      /\ UNCHANGED <<scene, replica, log, synced, mirrored, era, minted>>
  BY <1>1 DEF ReemitPullWake, redis
<1>3. Fence(Cur) \in Fences
  BY RedisFacts, FenceType, Zenon
<1>4. q \in Procs /\ q.at = "reemit" /\ m \in Actors
  BY <1>1, <1>3, RestType, ZenonT(40) DEF Procs, Actors
<1>5. q.at # "barrier" /\ q.at # "ready"
  BY <1>4
<1>6. MayBe(m, q)
  BY <1>5, Zenon DEF MayBe, PendOK
<1>7. RedisStep
  BY <1>2, SameRedis, Zenon
<1>8. ProcStep
  BY <1>2, <1>4, <1>6, Zenon DEF ProcStep
<1> QED
  BY <1>2, <1>7, <1>8, Stepped, Zenon DEF ProvenStep, OutStep

LEMMA ManagerDiesStep ==
    ASSUME DurInv, NEW m \in Managers, ManagerDies(m)
    PROVE  DurInv'
<1>1. /\ proc' = [proc EXCEPT ![m] = Rest] /\ proven' = proven /\ out' = out /\ m \in Actors
      /\ UNCHANGED <<scene, replica, log, synced, mirrored, era, minted>>
  BY DEF ManagerDies, redis, Actors
<1>2. RedisStep
  BY <1>1, SameRedis, Zenon
<1>3. ProcStep
  BY <1>1, MayRest, RestType, Zenon DEF ProcStep
<1> QED
  BY <1>1, <1>2, <1>3, Stepped, Zenon DEF ProvenStep, OutStep

LEMMA AckStep ==
    ASSUME DurInv, NEW w \in Workers, Ack(w)
    PROVE  DurInv'
<1>1. /\ proc' = proc /\ proven' = proven /\ out' = out
      /\ UNCHANGED <<scene, replica, synced, mirrored, era, minted>>
  BY DEF Ack
<1>2. log' = log \/ log' = log \o <<DoneScript(Cur)>>
  BY Zenon DEF Ack, Write
<1>3. RedisStep
  BY <1>1, <1>2, EndStep, Zenon
<1> QED
  BY <1>1, <1>3, Stepped, Zenon DEF ProcStep, ProvenStep, OutStep

LEMMA ExpireStep ==
    ASSUME DurInv, ExpireLease
    PROVE  DurInv'
<1>1. /\ proc' = proc /\ proven' = proven /\ out' = out
      /\ UNCHANGED <<scene, replica, synced, mirrored, era, minted>>
  BY DEF ExpireLease
<1>2. log' = log \o <<ExpireScript(Cur)>>
  BY Zenon DEF ExpireLease, Write
<1>3. RedisStep
  BY <1>1, <1>2, EndStep, Zenon
<1> QED
  BY <1>1, <1>3, Stepped, Zenon DEF ProcStep, ProvenStep, OutStep

\* The steps of Redis and the boot check touch no goroutine.
LEMMA QuietStep ==
    ASSUME DurInv, Boot \/ Persist \/ Replicate \/ Restart \/ Failover
    PROVE  DurInv'
<1>1. proc' = proc /\ proven' = proven /\ out' = out
  BY DEF Boot, Persist, Replicate, Restart, Failover
<1>2. CASE Boot
  <2>1. UNCHANGED <<scene, replica, log, synced, mirrored, era, minted>>
    BY <1>2 DEF Boot, redis
  <2>2. RedisStep
    BY <2>1, SameRedis, Zenon
  <2> QED
    BY <1>1, <2>2, Stepped, Zenon DEF ProcStep, ProvenStep, OutStep
<1>3. CASE Persist \/ Replicate \/ Restart \/ Failover
  <2>1. RedisStep
    BY <1>3, PersistStep, ReplicateStep, RestartStep, FailoverStep, Zenon
  <2> QED
    BY <1>1, <2>1, Stepped, Zenon DEF ProcStep, ProvenStep, OutStep
<1> QED
  BY <1>2, <1>3, Zenon

LEMMA StutterStep ==
    ASSUME DurInv, UNCHANGED vars
    PROVE  DurInv'
<1>1. /\ proc' = proc /\ proven' = proven /\ out' = out
      /\ UNCHANGED <<scene, replica, log, synced, mirrored, era, minted>>
  BY DEF vars
<1>2. RedisStep
  BY <1>1, SameRedis, Zenon
<1> QED
  BY <1>1, <1>2, Stepped, Zenon DEF ProcStep, ProvenStep, OutStep

LEMMA DurNext ==
    ASSUME Constants, DurInv, [Next]_vars
    PROVE  DurInv'
<1>1. CASE Boot \/ Persist \/ Replicate \/ Restart \/ Failover
  BY <1>1, QuietStep, Zenon
<1>2. CASE ExpireLease
  BY <1>2, ExpireStep, Zenon
<1>3. ASSUME NEW m \in Managers,
             ArmWake(m) \/ ReemitPullWake(m) \/ Dispatch(m) \/ ManagerDies(m)
      PROVE  DurInv'
  BY <1>3, ArmWakeStep, ReemitStep, DispatchStep, ManagerDiesStep, Zenon
<1>4. ASSUME NEW w \in Workers, ClaimAuthorized(w) \/ ReturnClaim(w) \/ Ack(w)
      PROVE  DurInv'
  BY <1>4, ClaimStep, ReturnClaimStep, AckStep, Zenon
<1>5. ASSUME NEW a \in Actors, awaitDurableOn(a) PROVE DurInv'
  BY <1>5, AwaitStep, Zenon
<1>6. CASE UNCHANGED vars
  BY <1>6, StutterStep, Zenon
<1> QED
  BY <1>1, <1>2, <1>3, <1>4, <1>5, <1>6, Zenon DEF Next, Actors

LEMMA DurInit ==
    ASSUME Constants, Init
    PROVE  DurInv
<1>1. PICK v : v = [phase |-> "idle", gen |-> 0, wake |-> 0, worker |-> Nobody,
                    leased |-> FALSE, sent |-> FALSE, owed |-> TRUE]
  BY Zenon
<1>2. /\ scene \in Scenes /\ replica = scene.replica /\ log = <<v>> /\ synced = 1
      /\ mirrored = IF scene.replica = "online" THEN 1 ELSE 0
      /\ era = 0 /\ minted = 0 /\ proven = {} /\ out = {}
      /\ proc = [a \in Actors |-> Rest]
  BY <1>1 DEF Init, Actors
<1>3. v \in Subs
  BY <1>1 DEF Subs
<1>4. log \in Seq(Subs) /\ Len(log) = 1
  BY <1>2, <1>3
<1>5. scene.replica \in {"none", "syncing", "online"}
  BY <1>2, Zenon DEF Constants
<1>6. RedisTypes
  BY <1>2, <1>4, <1>5 DEF RedisTypes
<1>7. Ordered(log)
  BY <1>4 DEF Ordered
<1>8. proc \in [Actors -> Procs] /\ \A a \in Actors : proc[a].at = "none"
  BY <1>2, RestType, Zenon
<1>9. \A a \in Actors : proc[a].at # "barrier" /\ proc[a].at # "ready"
  BY <1>8
<1>10. Unwaited /\ Awaited /\ NothingLeavesUnproven
  BY <1>2, <1>9, Zenon DEF Unwaited, Awaited, NothingLeavesUnproven
<1>11. Durable
  BY <1>2, <1>9, Zenon DEF Durable, Actors
<1>12. \A a \in Actors : PendOK(log, era, proc[a], a)
  BY <1>9, Zenon DEF PendOK
<1> QED
  BY <1>6, <1>7, <1>8, <1>10, <1>11, <1>12, Zenon DEF DurInv

-----------------------------------------------------------------------------
(* The theorems *)

\* Two grants of one fence that can no longer be lost have one holder.
LEMMA OneHolder ==
    ASSUME NEW L \in Seq(Subs), Ordered(L), NEW n \in Nat, n <= Len(L), NEW f, NEW w, NEW u,
           Recorded(L, n, w, f), Recorded(L, n, u, f)
    PROVE  w = u
<1>1. PICK i \in 1 .. n : Fence(L[i]) = f /\ L[i].phase = "live" /\ L[i].worker = w
  BY Zenon DEF Recorded
<1>2. PICK j \in 1 .. n : Fence(L[j]) = f /\ L[j].phase = "live" /\ L[j].worker = u
  BY Zenon DEF Recorded
<1>3. L[i].gen = L[j].gen
  <2>1. Fence(L[i]).gen = L[i].gen /\ Fence(L[j]).gen = L[j].gen
    BY Zenon DEF Fence
  <2> QED
    BY <1>1, <1>2, <2>1, Zenon
<1>4. i \in 1 .. Len(L) /\ j \in 1 .. Len(L) /\ (i < j \/ j < i \/ i = j)
  OBVIOUS
<1>5. CASE i < j
  BY <1>1, <1>2, <1>3, <1>4, <1>5, Zenon DEF Ordered, Follows
<1>6. CASE j < i
  BY <1>1, <1>2, <1>3, <1>4, <1>6, Zenon DEF Ordered, Follows
<1>7. CASE i = j
  BY <1>1, <1>2, <1>7, Zenon
<1> QED
  BY <1>4, <1>5, <1>6, <1>7, Zenon

LEMMA DurGrants ==
    ASSUME DurInv, Covered
    PROVE  GrantsAreExclusive
<1> SUFFICES ASSUME Plan.wait, NEW x \in out, NEW y \in out,
                    x.by \in Workers, y.by \in Workers, x.fence = y.fence
             PROVE  x.by = y.by
  BY Zenon DEF GrantsAreExclusive, NoDoubleGrant
<1>1. Recorded(log, Mark, x.by, x.fence) /\ Recorded(log, Mark, y.by, x.fence)
  BY Zenon DEF DurInv, Durable
<1> QED
  BY <1>1, RedisFacts, OneHolder, Zenon

LEMMA DurFences ==
    ASSUME DurInv, Covered
    PROVE  ProvenFencesSurvive
<1> SUFFICES ASSUME NEW f \in proven PROVE Cur.gen >= f.gen
  BY Zenon DEF ProvenFencesSurvive
<1>1. Plan.wait
  BY Zenon DEF DurInv, Unwaited
<1>2. PICK i \in 1 .. Mark : Fence(log[i]) = f
  BY <1>1, Zenon DEF DurInv, Durable, Minted
<1>3. f.gen = log[i].gen
  BY <1>2, Zenon DEF Fence
<1>4. i \in 1 .. Len(log) /\ Len(log) \in 1 .. Len(log) /\ (i < Len(log) \/ i = Len(log))
  BY RedisFacts
<1>5. log[i] \in Subs /\ Cur \in Subs
  BY <1>4, RedisFacts
<1>6. log[i].gen \in Nat /\ Cur.gen \in Nat
  BY <1>5, Zenon DEF Subs
<1>7. log[i].gen <= Cur.gen
  <2>1. CASE i < Len(log)
    BY <1>4, <2>1, RedisFacts, Zenon DEF Ordered, Follows, Cur
  <2>2. CASE i = Len(log)
    BY <1>6, <2>2 DEF Cur
  <2> QED
    BY <1>4, <2>1, <2>2, Zenon
<1> QED
  BY <1>3, <1>6, <1>7

\* The invariant holds in every reachable state, for any deployments and any number of
\* managers and workers.
THEOREM Invariance ==
    ASSUME Constants
    PROVE  Spec => []DurInv
<1>1. Init => DurInv
  BY DurInit
<1>2. DurInv /\ [Next]_vars => DurInv'
  BY DurNext
<1> QED
  BY <1>1, <1>2, PTL DEF Spec

\* Under tier B no restart and no failover lets two workers hold one (generation, wake id)
\* pair (awaitDurableOn before a claim's reply), where the barrier asks for the replica that
\* a failover would promote.
THEOREM ExclusiveGrants ==
    ASSUME Constants
    PROVE  Spec => [](Covered => GrantsAreExclusive)
<1>1. DurInv => (Covered => GrantsAreExclusive)
  BY DurGrants, Zenon
<1> QED
  BY <1>1, Invariance, PTL

\* In such a deployment a fence whose barrier was satisfied is never taken back: Redis keeps
\* a generation at least as new.
THEOREM FencesSurvive ==
    ASSUME Constants
    PROVE  Spec => [](Covered => ProvenFencesSurvive)
<1>1. DurInv => (Covered => ProvenFencesSurvive)
  BY DurFences, Zenon
<1> QED
  BY <1>1, Invariance, PTL

\* Under tier B, whatever the replicas, no fence leaves the issuing path or a claim before its
\* barrier was satisfied.
THEOREM ProvenFirst ==
    ASSUME Constants
    PROVE  Spec => []NothingLeavesUnproven
<1>1. DurInv => NothingLeavesUnproven
  BY Zenon DEF DurInv, NothingLeavesUnproven
<1> QED
  BY <1>1, Invariance, PTL

=============================================================================
