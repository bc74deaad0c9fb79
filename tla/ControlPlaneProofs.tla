------------------------ MODULE ControlPlaneProofs ------------------------
(***************************************************************************)
(* What the control plane guarantees to every interleaving of its requests *)
(* proved for any callers, grants, patterns and number of requests: a      *)
(* commit is within the rights of its caller, a claim is sealed on a       *)
(* stream before the stream is taken from it, a delete is final, and a     *)
(* request is refused by its expectation only when somebody interfered.    *)
(***************************************************************************)
EXTENDS ControlPlane, TLAPS

-----------------------------------------------------------------------------
(* The inductive invariant.                                                *)

Links == UNION {[D -> {"explicit", "glob"}] : D \in SUBSET Paths}

Subscriptions ==
  [inc : Nat \ {0}, owner : Callers \cup {Nobody}, hash : Configs,
   pattern : {cfg.pattern : cfg \in Configs}, wakeStream : {cfg.wakeStream : cfg \in Configs},
   links : Links, stray : SUBSET Paths, gen : Nat, wake : Nat, live : BOOLEAN]

\* A path is linked because somebody named it, because the pattern matches it,
\* or because a hook of an earlier incarnation linked it.
Accounted(s) == \A p \in DOMAIN s.links \ s.stray : s.links[p] = "explicit" \/ StillGlob(s, p)

WellFormed(s) ==
  /\ s \in Subscriptions
  /\ s.pattern = s.hash.pattern /\ s.wakeStream = s.hash.wakeStream
  /\ s.live => s.wake > 0

Memories == [inc : Nat] \cup Subscriptions

Calls ==
  [op : {"none", "create", "delete", "link", "unlink", "claim"}, who : Callers \cup {Nobody},
   stage : {"idle", "seal", "commit", "mint", "done"}, expected : Memories,
   todo : Seq(Paths), wake : Nat, status : Nat, disturbed : BOOLEAN]

Counted == incs \in Nat /\ claims \in Nat /\ call \in [Slots -> Calls]

Stored ==
  /\ Exists => WellFormed(sub) /\ sub.wake <= claims
  /\ Exists /\ Enforce => Accounted(sub)
  /\ sub.inc \in Nat /\ sub.inc <= incs
  /\ glob \in Paths \cup {NoPath}
  /\ sealed \subseteq Paths \X (1 .. claims)
  /\ unsealed \subseteq Paths \X (1 .. claims) /\ excused \subseteq unsealed

(* The rest of the invariant is about one request k, given the stored      *)
(* subscription s, the counters i and n of incarnations and claims, the    *)
(* sealed generations z and whether e the mode is enforce.                 *)

\* Nobody changed what k compares with the record.
Undisturbed(k, s) == s # NoSub /\ Expectation(s) = Expectation(k.expected)

\* What k read is a subscription, and a stray of its incarnation stays one.
Remembers(k, s, n) ==
  /\ WellFormed(k.expected) /\ k.expected.wake <= n /\ Accounted(k.expected)
  /\ k.expected.inc = s.inc => k.expected.stray \subseteq s.stray
  /\ ~k.disturbed => Undisturbed(k, s)

\* k passed the checks of its handler on what it read.
Authorized(k) ==
  /\ k.op \in {"delete", "link", "unlink", "claim"}
  /\ k.who \in Callers /\ authenticates(k.who)
  /\ controlOwnershipAuthz(k.expected.owner, k.who)
  /\ k.op = "link" => k.stage = "commit" /\ linkPathsAuthz(k.who, "link", Named(k.todo))
  /\ k.op = "unlink" => \E p \in Paths :
       k.todo = <<p>> /\ (k.who \in Services => linkPathsAuthz(k.who, "link", {p}))
  /\ k.op = "delete" /\ k.who \in Services => linkAuthzOf(k.who, "subscribe", k.expected)
  /\ k.op = "claim" => k.stage # "seal" /\ linkAuthzOf(k.who, "claim", k.expected)
  /\ k.op # "claim" => k.stage # "mint"

\* k, about to take paths from the claim it read, has sealed them.
HasSealed(k, z) ==
  (k.stage = "commit" /\ k.expected # NoSub /\ k.expected.live) =>
    /\ k.op = "delete" => \A p \in DOMAIN k.expected.links : <<p, k.expected.wake>> \in z
    /\ k.op = "unlink" /\ ~StillGlob(k.expected, Head(k.todo)) =>
         (Head(k.todo) \in DOMAIN k.expected.links => <<Head(k.todo), k.expected.wake>> \in z)

\* A delete that was answered is final, and a refusal has a cause.
Answered(k, s, i) ==
  /\ k.expected.inc <= i
  /\ k.status # 0 => k.stage = "done"
  /\ k.op = "delete" /\ k.status = 204 /\ k.expected.inc > 0 => s.inc # k.expected.inc
  /\ k.status = 403 /\ k.expected.inc > 0 => k.disturbed

\* k seals the claim of a subscription it has read.
Sealing(k, n) == k.stage = "seal" => WellFormed(k.expected) /\ k.expected.wake <= n

Flying(k) == k.stage \notin {"idle", "done"}

Good(k, s, i, n, z, e) ==
  /\ Answered(k, s, i) /\ Sealing(k, n) /\ HasSealed(k, z)
  /\ e /\ Flying(k) => Remembers(k, s, n) /\ Authorized(k)

AllGood == \A d \in Slots : Good(call[d], sub, incs, claims, sealed, Enforce)

ControlInv ==
  /\ Counted /\ Stored /\ AllGood
  /\ wrong = {} /\ unsealed \subseteq excused

-----------------------------------------------------------------------------
(* A step and the requests it is not about.                                *)

\* The subscription goes from s to t: it goes, it is created anew after i
\* incarnations, or it stays the same one and keeps its strays.
Follows(s, t, i) ==
  /\ t.inc \in Nat
  /\ \/ t.inc = 0
     \/ t.inc > i
     \/ t.inc = s.inc /\ s.stray \subseteq t.stray

Same(s, t) == (s = NoSub <=> t = NoSub) /\ (s # NoSub => Expectation(s) = Expectation(t))

LEMMA MemoryInc ==
  ASSUME NEW m \in Memories
  PROVE  m.inc \in Nat
BY Zenon DEF Memories, Subscriptions

LEMMA WellFormedInc ==
  ASSUME NEW s, WellFormed(s)
  PROVE  s.inc \in Nat /\ s.inc > 0 /\ s # NoSub
BY DEF WellFormed, Subscriptions, NoSub

\* What is good of a request stays so when the record follows it and either
\* its expectation is not affected, or the request knows, or is over.
LEMMA GoodStays ==
  ASSUME NEW k \in Calls, NEW s, NEW t, NEW i \in Nat, NEW j \in Nat, NEW n \in Nat,
         NEW m \in Nat, NEW y, NEW z, NEW e,
         Good(k, s, i, n, y, e), Follows(s, t, i), i <= j, n <= m, y \subseteq z,
         Same(s, t) \/ k.disturbed \/ ~Flying(k)
  PROVE  Good(k, t, j, m, z, e)
<1>1. k.expected.inc \in Nat /\ k.expected.inc <= i
  BY MemoryInc, Zenon DEF Calls, Good, Answered
<1>2. Answered(k, t, j)
  BY <1>1 DEF Good, Answered, Follows
<1>3. ASSUME e, Flying(k) PROVE Remembers(k, t, m) /\ Authorized(k)
  <2>1. Remembers(k, s, n) /\ Authorized(k)
    BY <1>3, Zenon DEF Good
  <2>3. k.expected.inc > 0
    BY <2>1, WellFormedInc, Zenon DEF Remembers
  <2>4. k.expected.inc = t.inc => k.expected.stray \subseteq t.stray
    BY <1>1, <2>1, <2>3 DEF Remembers, Follows
  <2>5. WellFormed(k.expected)
    BY <2>1, Zenon DEF Remembers
  <2>6. k.expected.wake <= m
    BY <2>1, <2>5 DEF Remembers, WellFormed, Subscriptions
  <2>7. ~k.disturbed => Undisturbed(k, t)
    BY <1>3, <2>1, Zenon DEF Remembers, Undisturbed, Same
  <2> QED
    BY <2>1, <2>4, <2>5, <2>6, <2>7, Zenon DEF Remembers
<1>4. Sealing(k, m)
  <2>1. Sealing(k, n)
    BY Zenon DEF Good
  <2> QED
    BY <2>1 DEF Sealing, WellFormed, Subscriptions
<1>5. HasSealed(k, z)
  BY Zenon DEF Good, HasSealed
<1> QED
  BY <1>2, <1>3, <1>4, <1>5, Zenon DEF Good

\* A request in flight that is told of a change is one that knows.
LEMMA Told ==
  ASSUME NEW k \in Calls, NEW s, NEW i, NEW n, NEW z, NEW e, Good(k, s, i, n, z, e), Flying(k)
  PROVE  LET r == [k EXCEPT !.disturbed = TRUE]
         IN r \in Calls /\ r.disturbed /\ Good(r, s, i, n, z, e)
<1> DEFINE r == [k EXCEPT !.disturbed = TRUE]
<1>1. r \in Calls /\ r.disturbed
  BY Zenon DEF Calls
<1>2. /\ r.op = k.op /\ r.who = k.who /\ r.stage = k.stage /\ r.expected = k.expected
      /\ r.todo = k.todo /\ r.status = k.status
  BY Zenon DEF Calls
<1> HIDE DEF r
<1>3. Answered(r, s, i)
  BY <1>1, <1>2, ZenonT(40) DEF Good, Answered
<1>4. HasSealed(r, z) /\ (e => Remembers(r, s, n) /\ Authorized(r))
  <2>1. HasSealed(k, z) /\ (e => Remembers(k, s, n) /\ Authorized(k))
    BY Zenon DEF Good
  <2>2. Remembers(k, s, n) => Remembers(r, s, n)
    BY <1>1, <1>2, Zenon DEF Remembers
  <2>3. Authorized(k) => Authorized(r)
    BY <1>2, Zenon DEF Authorized
  <2>4. HasSealed(k, z) => HasSealed(r, z)
    BY <1>2, Zenon DEF HasSealed
  <2> QED
    BY <2>1, <2>2, <2>3, <2>4, Zenon
<1>5. Good(r, s, i, n, z, e)
  BY <1>2, <1>3, <1>4, Zenon DEF Good, Sealing
<1> QED
  BY <1>1, <1>5, Zenon DEF r

\* The counters and the sealed generations only grow, and the record follows.
Grows ==
  /\ scene' = scene
  /\ incs' \in Nat /\ incs <= incs' /\ claims' \in Nat /\ claims <= claims'
  /\ sealed \subseteq sealed'
  /\ Follows(sub, sub', incs)

\* Whoever is not slot c stays good through a step that c goes on from.
LEMMA StepKeeps ==
  ASSUME Counted, AllGood, Grows, Same(sub, sub'), NEW c \in Slots, NEW r \in Calls,
         Step(c, r), Good(r, sub', incs', claims', sealed', Enforce')
  PROVE  Counted' /\ AllGood'
<1>1. call' \in [Slots -> Calls] /\ call'[c] = r /\ \A d \in Slots \ {c} : call'[d] = call[d]
  BY Zenon DEF Step, Counted
<1>2. Counted'
  BY <1>1, Zenon DEF Counted, Grows
<1>3. Enforce' = Enforce
  BY Zenon DEF Enforce, Grows
<1>4. ASSUME NEW d \in Slots \ {c} PROVE Good(call'[d], sub', incs', claims', sealed', Enforce')
  <2>1. call[d] \in Calls
    BY Zenon DEF Counted
  <2>2. Good(call[d], sub, incs, claims, sealed, Enforce)
    BY Zenon DEF AllGood
  <2>3. Good(call[d], sub', incs', claims', sealed', Enforce)
    BY <2>1, <2>2, GoodStays, Zenon DEF Counted, Grows
  <2> QED
    BY <1>1, <1>3, <2>3, Zenon
<1> QED
  BY <1>1, <1>2, <1>4, Zenon DEF AllGood

\* The same where the others in flight are told of a change.  GlobLink, which no
\* request makes, tells all of them.
LEMMA DisturbKeeps ==
  ASSUME Counted, AllGood, Grows, NEW c, NEW r, Disturb(c, r),
         c \in Slots => r \in Calls /\ Good(r, sub', incs', claims', sealed', Enforce')
  PROVE  Counted' /\ AllGood'
<1> DEFINE changed == \/ Exists # (sub' # NoSub)
                      \/ Exists /\ sub' # NoSub /\ Expectation(sub) # Expectation(sub')
<1>1. ~changed => Same(sub, sub')
  BY Zenon DEF Same, Exists
<1>2. call' = [d \in Slots |-> IF d = c THEN r
                               ELSE IF InFlight(d) /\ changed
                                    THEN [call[d] EXCEPT !.disturbed = TRUE] ELSE call[d]]
  BY Zenon DEF Disturb
<1> HIDE DEF changed
<1>3. Enforce' = Enforce
  BY Zenon DEF Enforce, Grows
<1>4. ASSUME NEW d \in Slots
      PROVE  call'[d] \in Calls /\ Good(call'[d], sub', incs', claims', sealed', Enforce')
  <2>1. call[d] \in Calls /\ Good(call[d], sub, incs, claims, sealed, Enforce)
    BY Zenon DEF Counted, AllGood
  <2>2. CASE d = c
    BY <1>2, <2>2, Zenon
  <2>3. CASE d # c /\ InFlight(d) /\ changed
    <3> DEFINE k == [call[d] EXCEPT !.disturbed = TRUE]
    <3>1. Flying(call[d])
      BY <2>3, Zenon DEF Flying, InFlight
    <3>2. k \in Calls /\ k.disturbed /\ Good(k, sub, incs, claims, sealed, Enforce)
      BY <2>1, <3>1, Told, Zenon
    <3>3. call'[d] = k
      BY <1>2, <2>3, Zenon
    <3> HIDE DEF k
    <3>4. Good(k, sub', incs', claims', sealed', Enforce)
      BY <3>2, GoodStays, Zenon DEF Counted, Grows
    <3> QED
      BY <1>3, <3>2, <3>3, <3>4, Zenon
  <2>4. CASE d # c /\ ~(InFlight(d) /\ changed)
    <3>1. call'[d] = call[d]
      BY <1>2, <2>4, Zenon
    <3>2. Same(sub, sub') \/ ~Flying(call[d])
      BY <1>1, <2>4, Zenon DEF Flying, InFlight
    <3>3. Good(call[d], sub', incs', claims', sealed', Enforce)
      BY <2>1, <3>2, GoodStays, Zenon DEF Counted, Grows
    <3> QED
      BY <1>3, <2>1, <3>1, <3>3, Zenon
  <2> QED
    BY <2>2, <2>3, <2>4, Zenon
<1>5. call' \in [Slots -> Calls]
  BY <1>2, <1>4, Zenon
<1> QED
  BY <1>4, <1>5, Zenon DEF Counted, AllGood, Grows

-----------------------------------------------------------------------------
(* The records a slot goes on with.                                        *)

LEMMA IdleIsGood ==
  ASSUME NEW s, NEW i \in Nat, NEW n, NEW z, NEW e
  PROVE  Idle \in Calls /\ Good(Idle, s, i, n, z, e)
<1>1. NoSub \in Memories
  BY Zenon DEF NoSub, Memories
<1>2. Idle \in Calls
  BY <1>1 DEF Idle, Calls
<1>3. Idle.expected.inc = 0 /\ Idle.status = 0 /\ Idle.stage = "idle" /\ Idle.op = "none"
  BY Zenon DEF Idle, NoSub
<1> QED
  BY <1>2, <1>3 DEF Good, Answered, Flying, Sealing, HasSealed

LEMMA DoneIsGood ==
  ASSUME NEW c, call[c] \in Calls, NEW s, NEW i \in Nat, NEW n, NEW z, NEW e, NEW status \in Nat,
         call[c].expected.inc <= i,
         status = 403 /\ call[c].expected.inc > 0 => call[c].disturbed,
         call[c].op = "delete" /\ status = 204 /\ call[c].expected.inc > 0 =>
           s.inc # call[c].expected.inc
  PROVE  Done(c, status) \in Calls /\ Good(Done(c, status), s, i, n, z, e)
<1> DEFINE k == call[c]
           r == [Idle EXCEPT !.op = k.op, !.stage = "done", !.status = status,
                             !.expected = [inc |-> k.expected.inc], !.disturbed = k.disturbed]
<1>1. CASE status = 403 \/ k.op = "delete"
  <2>1. Done(c, status) = r
    BY <1>1, Zenon DEF Done
  <2>2. k.expected.inc \in Nat
    BY MemoryInc, Zenon DEF Calls
  <2>3. [inc |-> k.expected.inc] \in Memories
    BY <2>2, Zenon DEF Memories
  <2>4. k.op \in {"none", "create", "delete", "link", "unlink", "claim"} /\ k.disturbed \in BOOLEAN
    BY Zenon DEF Calls
  <2>5. Idle \in Calls
    BY IdleIsGood, Zenon
  <2>6. r \in Calls
    BY <2>3, <2>4, <2>5, Zenon DEF Calls
  <2>7. /\ r.op = k.op /\ r.stage = "done" /\ r.status = status
        /\ r.expected.inc = k.expected.inc /\ r.disturbed = k.disturbed
    BY <2>5, Zenon DEF Calls
  <2> HIDE DEF r
  <2>8. Good(r, s, i, n, z, e)
    BY <2>7, Zenon DEF Good, Answered, Flying, Sealing, HasSealed
  <2> QED
    BY <2>1, <2>6, <2>8, Zenon
<1>2. CASE ~(status = 403 \/ k.op = "delete")
  BY <1>2, IdleIsGood, Zenon DEF Done
<1> QED
  BY <1>1, <1>2, Zenon

\* A request that has read the subscription.
LEMMA FreshFields ==
  ASSUME NEW op \in {"delete", "link", "unlink", "claim"}, NEW who \in Callers,
         NEW stage \in {"seal", "commit"}, NEW m \in Memories, NEW todo \in Seq(Paths)
  PROVE  LET r == Fresh(op, who, stage, m, todo)
         IN /\ r \in Calls
            /\ r.op = op /\ r.who = who /\ r.stage = stage /\ r.expected = m /\ r.todo = todo
            /\ r.status = 0 /\ ~r.disturbed /\ Flying(r)
<1> DEFINE r == [Idle EXCEPT !.op = op, !.who = who, !.stage = stage, !.expected = m, !.todo = todo]
<1>1. Idle \in Calls /\ Idle.status = 0 /\ Idle.disturbed = FALSE
  BY IdleIsGood, Zenon DEF Idle
<1>2. /\ r \in Calls
      /\ r.op = op /\ r.who = who /\ r.stage = stage /\ r.expected = m /\ r.todo = todo
      /\ r.status = 0 /\ ~r.disturbed
  BY <1>1, Zenon DEF Calls
<1>3. Fresh(op, who, stage, m, todo) = r
  BY Zenon DEF Fresh
<1> HIDE DEF r
<1> QED
  BY <1>2, <1>3, Zenon DEF Flying

\* It is good when its handler's checks passed and it will seal what it takes.
LEMMA FreshIsGood ==
  ASSUME Counted, Stored, NEW r \in Calls, r.expected = sub, r.status = 0, ~r.disturbed, Flying(r),
         r.stage = "seal" => Exists, HasSealed(r, sealed),
         Enforce => Exists /\ Authorized(r)
  PROVE  Good(r, sub, incs, claims, sealed, Enforce)
<1>1. Answered(r, sub, incs)
  BY DEF Answered, Stored
<1>2. ASSUME Enforce PROVE Remembers(r, sub, claims)
  BY <1>2, Zenon DEF Remembers, Undisturbed, Stored, Exists
<1>3. Sealing(r, claims)
  BY Zenon DEF Sealing, Stored
<1> QED
  BY <1>1, <1>2, <1>3, Zenon DEF Good

-----------------------------------------------------------------------------
(* Steps that change nothing but the request of a slot.                    *)

QuietVars == <<scene, sub, incs, claims, sealed, glob, wrong, unsealed, excused>>

LEMMA StoredQuiet ==
  ASSUME Stored, UNCHANGED <<scene, sub, incs, claims, sealed, glob, unsealed, excused>>
  PROVE  Stored'
BY Zenon DEF Stored, Exists, Enforce

LEMMA SameRefl ==
  ASSUME Counted, Stored, UNCHANGED sub
  PROVE  Same(sub, sub') /\ Follows(sub, sub', incs)
BY Zenon DEF Same, Follows, Stored

LEMMA Quiet ==
  ASSUME ControlInv, UNCHANGED QuietVars, NEW c \in Slots, NEW r \in Calls, Step(c, r),
         Good(r, sub, incs, claims, sealed, Enforce)
  PROVE  ControlInv'
<1>1. Counted /\ Stored /\ AllGood /\ wrong = {} /\ unsealed \subseteq excused
  BY Zenon DEF ControlInv
<1>2. UNCHANGED <<scene, sub, incs, claims, sealed>> /\ wrong' = {} /\ unsealed' \subseteq excused'
  BY <1>1, Zenon DEF QuietVars
<1>3. Stored'
  BY <1>1, StoredQuiet, Zenon DEF QuietVars
<1>4. Same(sub, sub') /\ Follows(sub, sub', incs)
  BY <1>1, <1>2, SameRefl, Zenon
<1>5. Grows
  BY <1>1, <1>2, <1>4 DEF Grows, Counted
<1>6. Enforce' = Enforce
  BY <1>2, Zenon DEF Enforce
<1>7. Good(r, sub', incs', claims', sealed', Enforce')
  BY <1>2, <1>6, Zenon
<1>8. Counted' /\ AllGood'
  BY <1>1, <1>4, <1>5, <1>7, StepKeeps, Zenon
<1> QED
  BY <1>2, <1>3, <1>8, Zenon DEF ControlInv

LEMMA QuietIdle ==
  ASSUME ControlInv, UNCHANGED QuietVars, NEW c \in Slots, Step(c, Idle)
  PROVE  ControlInv'
BY Quiet, IdleIsGood, Zenon DEF ControlInv, Counted

-----------------------------------------------------------------------------
(* The handlers up to their scripts: what passed their checks is good.     *)

LEMMA ShortLists ==
  <<>> \in Seq(Paths) /\ \A p \in Paths : <<p>> \in Seq(Paths) /\ Head(<<p>>) = p
<1>1. <<>> \in Seq(Paths)
  OBVIOUS
<1>2. ASSUME NEW p \in Paths PROVE <<p>> \in Seq(Paths)
  OBVIOUS
<1>3. ASSUME NEW p \in Paths PROVE Head(<<p>>) = p
  BY SMTT(30)
<1> QED
  BY <1>1, <1>2, <1>3, Zenon

LEMMA LinksDomain ==
  ASSUME NEW s, WellFormed(s)
  PROVE  DOMAIN s.links \in SUBSET Paths /\ s.links \in [DOMAIN s.links -> {"explicit", "glob"}]
<1>1. s.links \in Links
  BY Zenon DEF WellFormed, Subscriptions
<1> QED
  BY <1>1, Zenon DEF Links

\* In enforce mode a request goes on only with a credential that verifies and
\* the permissions asked for.
LEMMA PassedChecks ==
  ASSUME Enforce, NEW who, NEW ok \in BOOLEAN, controlDeny(authenticates(who)), Denies(who, ok)
  PROVE  authenticates(who) /\ ok
BY Zenon DEF controlDeny, Denies

LEMMA SubIsMemory ==
  ASSUME Stored
  PROVE  sub \in Memories
<1>1. CASE sub = NoSub
  BY <1>1, Zenon DEF NoSub, Memories
<1>2. CASE sub # NoSub
  BY <1>2, Zenon DEF Stored, Exists, WellFormed, Memories
<1> QED
  BY <1>1, <1>2, Zenon

LEMMA DeleteBegins ==
  ASSUME ControlInv, NEW c \in Slots, NEW who \in Callers, handleDelete(c, who)
  PROVE  ControlInv'
<1> USE DEF handleDelete
<1>1. UNCHANGED QuietVars
  BY Zenon DEF QuietVars
<1>2. CASE Step(c, Idle)
  BY <1>1, <1>2, QuietIdle, Zenon
<1>3. CASE /\ controlDeny(authenticates(who)) /\ Exists
           /\ Denies(who, /\ who \in Services => linkAuthzOf(who, "subscribe", sub)
                          /\ controlOwnershipAuthz(sub.owner, who))
           /\ Step(c, Fresh("delete", who, "seal", sub, <<>>))
  <2>1. Counted /\ Stored /\ WellFormed(sub) /\ sub \in Memories
    BY <1>3, SubIsMemory, Zenon DEF ControlInv, Stored
  <2>2. PICK list : list = <<>> /\ list \in Seq(Paths)
    BY ShortLists, Zenon
  <2>3. list \in Seq(Paths)
    BY <2>2, Zenon
  <2>4. PICK r : r = Fresh("delete", who, "seal", sub, list)
    BY Zenon
  <2>5. /\ r \in Calls
        /\ r.op = "delete" /\ r.who = who /\ r.stage = "seal" /\ r.expected = sub /\ r.todo = list
        /\ r.status = 0 /\ ~r.disturbed /\ Flying(r)
    BY <2>1, <2>3, <2>4, FreshFields
  <2>6. ASSUME Enforce
        PROVE  /\ authenticates(who) /\ controlOwnershipAuthz(sub.owner, who)
               /\ who \in Services => linkAuthzOf(who, "subscribe", sub)
    BY <1>3, <2>6, PassedChecks, Zenon
  <2>7. HasSealed(r, sealed) /\ (Enforce => Authorized(r))
    BY <2>5, <2>6, Zenon DEF Authorized, HasSealed
  <2>8. Good(r, sub, incs, claims, sealed, Enforce)
    BY <1>3, <2>1, <2>5, <2>7, FreshIsGood, Zenon
  <2>9. Step(c, r)
    BY <1>3, <2>2, <2>4, Zenon
  <2> QED
    BY <1>1, <2>5, <2>8, <2>9, Quiet, Zenon
<1> QED
  BY <1>2, <1>3, Zenon DEF Refuse

LEMMA AddStreamsBegins ==
  ASSUME ControlInv, NEW c \in Slots, NEW who \in Callers, NEW list \in PathLists,
         handleAddStreams(c, who, list)
  PROVE  ControlInv'
<1> USE DEF handleAddStreams
<1>1. UNCHANGED QuietVars
  BY Zenon DEF QuietVars
<1>2. CASE Step(c, Idle)
  BY <1>1, <1>2, QuietIdle, Zenon
<1>3. CASE /\ controlDeny(authenticates(who))
           /\ Denies(who, linkPathsAuthz(who, "link", Named(list)))
           /\ ~(Enforce /\ ~Exists)
           /\ ~(Exists /\ ~Denies(who, controlOwnershipAuthz(sub.owner, who)))
           /\ Step(c, Fresh("link", who, "commit", sub, list))
  <2>1. Counted /\ Stored /\ sub \in Memories
    BY SubIsMemory, Zenon DEF ControlInv
  <2>2. list \in Seq(Paths)
    BY ControlAssumption, Zenon
  <2>3. PICK r : r = Fresh("link", who, "commit", sub, list)
    BY Zenon
  <2>4. /\ r \in Calls
        /\ r.op = "link" /\ r.who = who /\ r.stage = "commit" /\ r.expected = sub /\ r.todo = list
        /\ r.status = 0 /\ ~r.disturbed /\ Flying(r)
    BY <2>1, <2>2, <2>3, FreshFields
  <2>5. ASSUME Enforce
        PROVE  /\ Exists /\ authenticates(who) /\ controlOwnershipAuthz(sub.owner, who)
               /\ linkPathsAuthz(who, "link", Named(list))
    <3>1. Exists /\ Denies(who, controlOwnershipAuthz(sub.owner, who))
      BY <1>3, <2>5, Zenon
    <3>2. authenticates(who) /\ linkPathsAuthz(who, "link", Named(list))
      BY <1>3, <2>5, PassedChecks, Zenon DEF linkPathsAuthz
    <3>3. controlOwnershipAuthz(sub.owner, who)
      BY <1>3, <2>5, <3>1, PassedChecks, Zenon DEF controlOwnershipAuthz
    <3> QED
      BY <3>1, <3>2, <3>3, Zenon
  <2>6. HasSealed(r, sealed) /\ (Enforce => Exists /\ Authorized(r))
    BY <2>4, <2>5, Zenon DEF Authorized, HasSealed
  <2>7. Good(r, sub, incs, claims, sealed, Enforce)
    BY <2>1, <2>4, <2>6, FreshIsGood, Zenon
  <2> QED
    BY <1>1, <1>3, <2>3, <2>4, <2>7, Quiet, Zenon
<1> QED
  BY <1>2, <1>3, Zenon DEF Refuse

LEMMA RemoveStreamBegins ==
  ASSUME ControlInv, NEW c \in Slots, NEW who \in Callers, NEW path \in Paths,
         handleRemoveStream(c, who, path)
  PROVE  ControlInv'
<1> DEFINE stage == IF Exists /\ ~StillGlob(sub, path) THEN "seal" ELSE "commit"
<1> USE DEF handleRemoveStream
<1>1. UNCHANGED QuietVars
  BY Zenon DEF QuietVars
<1>2. CASE Step(c, Idle)
  BY <1>1, <1>2, QuietIdle, Zenon
<1>3. CASE /\ controlDeny(authenticates(who)) /\ ~(Enforce /\ ~Exists)
           /\ Denies(who, who \in Services => linkPathsAuthz(who, "link", {path}))
           /\ ~(Exists /\ ~Denies(who, controlOwnershipAuthz(sub.owner, who)))
           /\ Step(c, Fresh("unlink", who, stage, sub, <<path>>))
  <2>1. Counted /\ Stored /\ sub \in Memories
    BY SubIsMemory, Zenon DEF ControlInv
  <2>2. PICK list \in Seq(Paths) : list = <<path>> /\ Head(list) = path
    BY ShortLists, Zenon
  <2>2a. /\ stage \in {"seal", "commit"}
         /\ stage = "seal" => Exists
         /\ stage = "commit" => ~Exists \/ StillGlob(sub, path)
    BY Zenon
  <2> HIDE DEF stage
  <2>3. PICK r : r = Fresh("unlink", who, stage, sub, list)
    BY Zenon
  <2>4. /\ r \in Calls
        /\ r.op = "unlink" /\ r.who = who /\ r.stage = stage /\ r.expected = sub
        /\ r.todo = list /\ r.status = 0 /\ ~r.disturbed /\ Flying(r)
    BY <2>1, <2>3, <2>2a, FreshFields
  <2>5. ASSUME Enforce
        PROVE  /\ Exists /\ authenticates(who) /\ controlOwnershipAuthz(sub.owner, who)
               /\ who \in Services => linkPathsAuthz(who, "link", {path})
    <3>1. authenticates(who) /\ (who \in Services => linkPathsAuthz(who, "link", {path}))
      BY <1>3, <2>5, PassedChecks, Zenon
    <3>2. Exists /\ Denies(who, controlOwnershipAuthz(sub.owner, who))
      BY <1>3, <2>5, Zenon
    <3>3. controlOwnershipAuthz(sub.owner, who)
      BY <1>3, <2>5, <3>2, PassedChecks, Zenon DEF controlOwnershipAuthz
    <3> QED
      BY <3>1, <3>2, <3>3, Zenon
  <2>6. Enforce => Exists /\ Authorized(r)
    BY <2>2, <2>4, <2>5, <2>2a, Zenon DEF Authorized
  <2>7. HasSealed(r, sealed)
    BY <2>2, <2>4, <2>2a, Zenon DEF HasSealed, Exists
  <2>8. Good(r, sub, incs, claims, sealed, Enforce)
    BY <2>1, <2>2a, <2>4, <2>6, <2>7, FreshIsGood, Zenon
  <2> QED
    BY <1>1, <1>3, <2>2, <2>3, <2>4, <2>8, Quiet, Zenon
<1> QED
  BY <1>2, <1>3, Zenon DEF Refuse

LEMMA ClaimBegins ==
  ASSUME ControlInv, NEW c \in Slots, NEW who \in Callers, handleClaim(c, who)
  PROVE  ControlInv'
<1> USE DEF handleClaim
<1>1. UNCHANGED QuietVars
  BY Zenon DEF QuietVars
<1>2. CASE Step(c, Idle)
  BY <1>1, <1>2, QuietIdle, Zenon
<1>3. CASE /\ controlDeny(authenticates(who)) /\ Exists /\ Denies(who, claimAuthz(who, sub))
           /\ Step(c, Fresh("claim", who, "commit", sub, <<>>))
  <2>1. Counted /\ Stored /\ sub \in Memories
    BY SubIsMemory, Zenon DEF ControlInv
  <2>2. PICK list \in Seq(Paths) : list = <<>>
    BY ShortLists, Zenon
  <2>3. PICK r : r = Fresh("claim", who, "commit", sub, list)
    BY Zenon
  <2>4. /\ r \in Calls
        /\ r.op = "claim" /\ r.who = who /\ r.stage = "commit" /\ r.expected = sub
        /\ r.status = 0 /\ ~r.disturbed /\ Flying(r)
    BY <2>1, <2>3, FreshFields
  <2>5. ASSUME Enforce
        PROVE  /\ authenticates(who) /\ controlOwnershipAuthz(sub.owner, who)
               /\ linkAuthzOf(who, "claim", sub)
    BY <1>3, <2>5, PassedChecks, Zenon DEF claimAuthz
  <2>6. HasSealed(r, sealed) /\ (Enforce => Authorized(r))
    BY <2>4, <2>5, Zenon DEF Authorized, HasSealed
  <2>7. Good(r, sub, incs, claims, sealed, Enforce)
    BY <1>3, <2>1, <2>4, <2>6, FreshIsGood, Zenon
  <2> QED
    BY <1>1, <1>3, <2>2, <2>3, <2>4, <2>7, Quiet, Zenon
<1> QED
  BY <1>2, <1>3, Zenon DEF Refuse

-----------------------------------------------------------------------------
(* The scripts.                                                            *)

\* A commit by a caller entitled to it is not recorded as wrong.
LEMMA NothingWrong ==
  ASSUME NEW who, NEW op, NEW s, NEW paths, Commit(who, op, s, paths), wrong = {},
         Enforce => Entitled(who, op, s, paths)
  PROVE  wrong' = {}
BY Zenon DEF Commit

\* The record create stores for a configuration.
Created(who, cfg, inc) ==
  [inc |-> inc, owner |-> Subject(who), hash |-> cfg, pattern |-> cfg.pattern,
   wakeStream |-> cfg.wakeStream, links |-> [p \in cfg.streams |-> "explicit"], stray |-> {},
   gen |-> 0, wake |-> 0, live |-> FALSE]

LEMMA CreatedIsWellFormed ==
  ASSUME NEW who \in Callers, NEW cfg \in Configs, NEW inc \in Nat, inc > 0
  PROVE  LET s == Created(who, cfg, inc)
         IN /\ WellFormed(s) /\ Accounted(s) /\ s.inc = inc /\ s.wake = 0
            /\ s.pattern = cfg.pattern /\ s.wakeStream = cfg.wakeStream
            /\ ExplicitLinks(s) = cfg.streams
<1> DEFINE s == Created(who, cfg, inc)
           links == [p \in cfg.streams |-> "explicit"]
<1>1. Subject(who) \in Callers \cup {Nobody}
  BY Zenon DEF Subject
<1>2. links \in Links
  <2>1. cfg.streams \in SUBSET Paths
    BY ControlAssumption, Zenon
  <2>2. links \in [cfg.streams -> {"explicit", "glob"}]
    BY Zenon
  <2> QED
    BY <2>1, <2>2, Zenon DEF Links
<1>3. /\ s.inc = inc /\ s.wake = 0 /\ s.live = FALSE /\ s.hash = cfg /\ s.links = links
      /\ s.pattern = cfg.pattern /\ s.wakeStream = cfg.wakeStream
  BY Zenon DEF Created
<1>4. /\ cfg.pattern \in {g.pattern : g \in Configs}
      /\ cfg.wakeStream \in {g.wakeStream : g \in Configs}
  BY Zenon
<1> HIDE DEF links
<1>5. s \in Subscriptions
  BY <1>1, <1>2, <1>4 DEF Subscriptions, Created, links
<1> USE DEF links
<1>6. \A p \in DOMAIN s.links : s.links[p] = "explicit"
  BY <1>3, Zenon
<1>7. DOMAIN s.links = cfg.streams
  BY <1>3, Zenon
<1> HIDE DEF s, links
<1>8. WellFormed(s) /\ Accounted(s)
  BY <1>3, <1>5, <1>6, Zenon DEF WellFormed, Accounted
<1>9. ExplicitLinks(s) = cfg.streams
  BY <1>6, <1>7, Zenon DEF ExplicitLinks
<1> QED
  BY <1>3, <1>8, <1>9, Zenon DEF s

LEMMA CreateStep ==
  ASSUME ControlInv, NEW c \in Slots, NEW who \in Callers, NEW cfg \in Configs,
         handleCreate(c, who, cfg)
  PROVE  ControlInv'
<1> DEFINE reach == \A a \in {"subscribe", "link"} :
                      linkAuthz(who, a, cfg.pattern, cfg.wakeStream, cfg.streams)
<1>1. UNCHANGED <<scene, claims, sealed, glob, scopes, unsealed, excused>>
  BY Zenon DEF handleCreate
<1>2. CASE Step(c, Idle) /\ UNCHANGED <<sub, incs, wrong>>
  BY <1>1, <1>2, QuietIdle, Zenon DEF QuietVars
<1>3. CASE /\ controlDeny(authenticates(who)) /\ Denies(who, reach)
           /\ ~Exists /\ incs' = incs + 1 /\ sub' = Created(who, cfg, incs + 1)
           /\ Commit(who, "create", sub', {}) /\ Disturb(c, Idle)
  <2>1. Counted /\ Stored /\ AllGood /\ wrong = {} /\ unsealed \subseteq excused
    BY Zenon DEF ControlInv
  <2>2. incs + 1 \in Nat /\ incs + 1 > 0 /\ incs \in Nat /\ claims \in Nat
    BY <2>1, SMTT(30) DEF Counted
  <2>3. /\ WellFormed(sub') /\ Accounted(sub') /\ sub'.inc = incs + 1 /\ sub'.wake = 0
        /\ sub'.pattern = cfg.pattern /\ sub'.wakeStream = cfg.wakeStream
        /\ ExplicitLinks(sub') = cfg.streams
    BY <1>3, <2>2, CreatedIsWellFormed, ZenonT(40)
  <2>4. Stored'
    BY <1>1, <1>3, <2>1, <2>2, <2>3, SMTT(30) DEF Stored, Exists
  <2>5. Enforce => Entitled(who, "create", sub', {})
    <3>1. Enforce => authenticates(who) /\ reach
      BY <1>3, PassedChecks, Zenon
    <3> QED
      BY <2>3, <3>1, Zenon DEF Entitled, linkAuthzOf
  <2>6. wrong' = {}
    BY <1>3, <2>1, <2>5, NothingWrong, Zenon
  <2>7. Grows
    BY <1>1, <1>3, <2>2, <2>3, SMTT(30) DEF Grows, Follows
  <2>8. Idle \in Calls /\ Good(Idle, sub', incs', claims', sealed', Enforce')
    BY <1>3, <2>2, IdleIsGood, Zenon
  <2>9. Counted' /\ AllGood'
    BY <1>3, <2>1, <2>7, <2>8, DisturbKeeps, Zenon
  <2> QED
    BY <1>1, <2>1, <2>4, <2>6, <2>9, Zenon DEF ControlInv
<1> QED
  <2>1. CASE ~controlDeny(authenticates(who)) \/ ~Denies(who, reach)
    BY <1>2, <2>1, Zenon DEF handleCreate, Refuse
  <2>2. CASE controlDeny(authenticates(who)) /\ Denies(who, reach)
    <3>1. CreateScript(c, who, cfg)
      BY <2>2, Zenon DEF handleCreate
    <3> QED
      BY <1>2, <1>3, <2>2, <3>1, Zenon DEF CreateScript, Refuse, Created
  <2> QED
    BY <2>1, <2>2, Zenon

\* SealStage: what the request read as held is closed on what it will take.
LEMMA SealStep ==
  ASSUME ControlInv, NEW c \in Slots, SealStage(c)
  PROVE  ControlInv'
<1> DEFINE k == call[c]
           r == [k EXCEPT !.stage = "commit"]
           paths == IF k.op = "delete" THEN DOMAIN k.expected.links ELSE {Head(k.todo)}
           new == {<<p, k.expected.wake>> : p \in paths \cap DOMAIN k.expected.links}
<1>1. /\ k.stage = "seal" /\ Step(c, r)
      /\ UNCHANGED <<scene, sub, incs, claims, glob, wrong, unsealed, excused>>
      /\ sealed' = IF k.expected.live THEN sealed \cup new ELSE sealed
  BY Zenon DEF SealStage, Seal
<1>2. Counted /\ Stored /\ AllGood /\ wrong = {} /\ unsealed \subseteq excused
  BY Zenon DEF ControlInv
<1>3. k \in Calls /\ Good(k, sub, incs, claims, sealed, Enforce)
  BY <1>2, Zenon DEF Counted, AllGood
<1>4. /\ r \in Calls /\ r.op = k.op /\ r.who = k.who /\ r.stage = "commit"
      /\ r.expected = k.expected /\ r.todo = k.todo /\ r.status = k.status
      /\ r.disturbed = k.disturbed
  BY <1>3, Zenon DEF Calls
<1> HIDE DEF r, new, paths
<1>5. WellFormed(k.expected) /\ k.expected.wake <= claims
  BY <1>1, <1>3, Zenon DEF Good, Sealing
<1>6. paths \cap DOMAIN k.expected.links \subseteq Paths
  BY <1>5, LinksDomain, Zenon
<1>7. k.expected.live => k.expected.wake \in 1 .. claims
  BY <1>2, <1>5 DEF WellFormed, Subscriptions, Counted
<1>8. sealed' \subseteq Paths \X (1 .. claims)
  BY <1>1, <1>2, <1>6, <1>7 DEF new, Stored
<1>9. sealed \subseteq sealed'
  BY <1>1, Zenon
<1>10. Stored'
  BY <1>1, <1>2, <1>8, Zenon DEF Stored, Exists, Enforce
<1>11. Same(sub, sub') /\ Grows
  BY <1>1, <1>2, <1>9, SameRefl DEF Grows, Counted
<1>12. Enforce => Remembers(r, sub, claims) /\ Authorized(r)
  <2>1. Enforce => Remembers(k, sub, claims) /\ Authorized(k)
    BY <1>1, <1>3, Zenon DEF Good, Flying
  <2> QED
    BY <1>1, <1>4, <2>1, Zenon DEF Remembers, Undisturbed, Authorized
<1>12a. HasSealed(r, sealed')
  <2>1. ASSUME r.expected.live PROVE \A p \in paths \cap DOMAIN r.expected.links :
                                        <<p, r.expected.wake>> \in sealed'
    BY <1>1, <1>4, <2>1, Zenon DEF new
  <2> QED
    BY <1>4, <2>1, Zenon DEF HasSealed, paths
<1>13. Good(r, sub, incs, claims, sealed', Enforce)
  <2>1. Answered(r, sub, incs) /\ Sealing(r, claims)
    BY <1>1, <1>3, <1>4, SMTT(30) DEF Good, Answered, Sealing
  <2> QED
    BY <1>12, <1>12a, <2>1, Zenon DEF Good
<1>14. Good(r, sub', incs', claims', sealed', Enforce')
  BY <1>1, <1>13, Zenon DEF Enforce
<1>15. Counted' /\ AllGood'
  BY <1>1, <1>2, <1>4, <1>11, <1>14, StepKeeps, Zenon
<1> QED
  BY <1>1, <1>2, <1>10, <1>15, Zenon DEF ControlInv

LEMMA SameExpectation ==
  ASSUME NEW s, NEW t, Expectation(s) = Expectation(t)
  PROVE  s.inc = t.inc /\ s.owner = t.owner /\ s.hash = t.hash /\ DOMAIN s.links = DOMAIN t.links
BY Zenon DEF Expectation

\* What the answers of a guarded script say.
LEMMA GuardedAnswers ==
  ASSUME NEW m
  PROVE  /\ Enforce /\ Guarded(m) = "MATCHED" => Exists /\ Expectation(sub) = m
         /\ Guarded(m) = "FORBIDDEN" => Enforce /\ Expectation(sub) # m
         /\ Guarded(m) \notin {"MATCHED", "FORBIDDEN"} => ~Exists /\ Guarded(m) = "NOSUB"
BY Zenon DEF Guarded, MatchesExpectation

\* What was authorized for the subscription read is authorized for the one the
\* expectation found, whatever became of the kinds of its links.
LEMMA StillReaches ==
  ASSUME NEW m, NEW s, WellFormed(m), Accounted(m), WellFormed(s), Expectation(s) = Expectation(m),
         m.stray \subseteq s.stray, NEW who \in Callers, NEW action \in Actions,
         linkAuthzOf(who, action, m)
  PROVE  Reaches(who, action, s)
<1>1. DOMAIN s.links = DOMAIN m.links /\ s.hash = m.hash
  BY SameExpectation, Zenon
<1>2. s.pattern = m.pattern /\ s.wakeStream = m.wakeStream
  BY <1>1, Zenon DEF WellFormed
<1>3. linkAuthz(who, action, s.pattern, s.wakeStream, {})
  BY <1>2, Zenon DEF linkAuthzOf, linkAuthz, linkPathsAuthz
<1>4. ASSUME NEW p \in DOMAIN s.links \ s.stray
      PROVE  authorize(who, action, Namespace[p])
  <2>1. p \in DOMAIN m.links \ m.stray /\ p \in Paths
    BY <1>1, LinksDomain, Zenon
  <2>2. CASE m.links[p] = "explicit"
    BY <2>1, <2>2, Zenon DEF linkAuthzOf, linkAuthz, linkPathsAuthz, ExplicitLinks
  <2>3. CASE StillGlob(m, p) /\ who \in Gateways
    BY <2>3, Zenon DEF authorize
  <2>4. CASE StillGlob(m, p) /\ who \notin Gateways
    <3>1. m.pattern # NoPattern /\ p \in Matches[m.pattern]
      BY <2>4, Zenon DEF StillGlob
    <3>2. Prefix[m.pattern] # Unbounded /\ authorize(who, action, Prefix[m.pattern])
      BY <2>4, <3>1, Zenon DEF linkAuthzOf, linkAuthz
    <3>3. m.hash \in Configs /\ m.pattern = m.hash.pattern
      BY Zenon DEF WellFormed, Subscriptions
    <3>4. m.pattern \in DOMAIN Matches
      BY <3>1, <3>3, ControlAssumption, Zenon
    <3> QED
      BY <2>1, <2>4, <3>1, <3>2, <3>4, ControlAssumption, Zenon DEF authorize
  <2> QED
    BY <2>1, <2>2, <2>3, <2>4, Zenon DEF Accounted
<1> QED
  BY <1>3, <1>4, Zenon DEF Reaches, linkPathsAuthz

\* Owning what was read is owning what the expectation found.
LEMMA StillOwns ==
  ASSUME NEW who, NEW owner, authenticates(who), controlOwnershipAuthz(owner, who)
  PROVE  who \in Gateways \/ owner \in {Nobody, who}
BY Zenon DEF controlOwnershipAuthz, ownershipAuthz, Subject

\* A claim loses only what was sealed, or what the request could not have read.
LEMMA LoseKeeps ==
  ASSUME Counted, Stored, Exists, unsealed \subseteq excused, NEW c, NEW paths \in SUBSET Paths,
         Lose(c, paths),
         \A p \in paths : sub.live /\ ~Unread(c, p) => <<p, sub.wake>> \in sealed
  PROVE  /\ unsealed' \subseteq excused' /\ excused' \subseteq unsealed'
         /\ unsealed' \subseteq Paths \X (1 .. claims)
<1> DEFINE bare == {p \in paths : sub.live /\ <<p, sub.wake>> \notin sealed}
<1>1. /\ unsealed' = unsealed \cup {<<p, sub.wake>> : p \in bare}
      /\ excused' = excused \cup {<<p, sub.wake>> : p \in {q \in bare : Unread(c, q)}}
  BY Zenon DEF Lose
<1>2. {q \in bare : Unread(c, q)} = bare
  BY Zenon
<1>3. sub.live => sub.wake \in 1 .. claims
  BY DEF Stored, WellFormed, Subscriptions, Counted
<1>4. \A p \in bare : <<p, sub.wake>> \in Paths \X (1 .. claims)
  <2>1. \A p \in bare : p \in Paths /\ sub.wake \in 1 .. claims
    BY <1>3, Zenon
  <2> HIDE DEF bare
  <2> QED
    BY <2>1
<1> HIDE DEF bare
<1>5. /\ unsealed' = unsealed \cup {<<p, sub.wake>> : p \in bare}
      /\ excused' = excused \cup {<<p, sub.wake>> : p \in bare}
  BY <1>1, <1>2, Zenon
<1>6. {<<p, sub.wake>> : p \in bare} \subseteq Paths \X (1 .. claims)
  BY <1>4, Zenon
<1> QED
  BY <1>5, <1>6, Zenon DEF Stored

\* A request that takes a stream from a claim it could read on it has sealed it.
LEMMA SealedWhatItRead ==
  ASSUME Counted, Stored, AllGood, NEW c \in Slots, call[c].stage = "commit", Exists,
         Enforce => DOMAIN call[c].expected.links = DOMAIN sub.links,
         NEW path \in DOMAIN sub.links,
         \/ call[c].op = "delete"
         \/ /\ call[c].op = "unlink" /\ path = Head(call[c].todo)
            /\ ~(call[c].expected # NoSub /\ StillGlob(call[c].expected, path)),
         ~Unread(c, path)
  PROVE  <<path, sub.wake>> \in sealed
<1> DEFINE k == call[c]
<1>1. HasSealed(k, sealed)
  BY Zenon DEF AllGood, Good
<1>2. k.expected # NoSub /\ k.expected.live /\ k.expected.wake = sub.wake
  BY Zenon DEF Unread
<1>3. path \in DOMAIN k.expected.links
  BY Zenon DEF Unread
<1> QED
  BY <1>1, <1>2, <1>3, Zenon DEF HasSealed

\* What is known of a request when its script finds what it expects.
LEMMA Found ==
  ASSUME ControlInv, Enforce, NEW c \in Slots, Flying(call[c]), Exists,
         Expectation(sub) = Expectation(call[c].expected)
  PROVE  LET k == call[c]
         IN /\ WellFormed(sub) /\ WellFormed(k.expected) /\ Accounted(k.expected)
            /\ k.expected.stray \subseteq sub.stray
            /\ Authorized(k)
            /\ DOMAIN k.expected.links = DOMAIN sub.links /\ k.expected.owner = sub.owner
            /\ k.who \in Gateways \/ sub.owner \in {Nobody, k.who}
<1> DEFINE k == call[c]
<1>1. WellFormed(sub) /\ Good(k, sub, incs, claims, sealed, Enforce)
  BY Zenon DEF ControlInv, Stored, AllGood
<1>2. Remembers(k, sub, claims) /\ Authorized(k)
  BY <1>1, Zenon DEF Good
<1>3. /\ k.expected.inc = sub.inc /\ k.expected.owner = sub.owner
      /\ DOMAIN k.expected.links = DOMAIN sub.links
  BY SameExpectation, Zenon
<1>4. WellFormed(k.expected) /\ Accounted(k.expected) /\ k.expected.stray \subseteq sub.stray
  BY <1>2, <1>3, Zenon DEF Remembers
<1>5. k.who \in Gateways \/ sub.owner \in {Nobody, k.who}
  BY <1>2, <1>3, StillOwns, Zenon DEF Authorized
<1> QED
  BY <1>1, <1>2, <1>3, <1>4, <1>5, Zenon

\* A request its script refuses has been disturbed.
LEMMA RefusedKnows ==
  ASSUME ControlInv, Enforce, NEW c \in Slots, Flying(call[c]),
         ~Exists \/ Expectation(sub) # Expectation(call[c].expected)
  PROVE  call[c].disturbed
<1>1. Good(call[c], sub, incs, claims, sealed, Enforce)
  BY Zenon DEF ControlInv, AllGood
<1> QED
  BY <1>1, Zenon DEF Good, Remembers, Undisturbed, Exists

LEMMA QuietDone ==
  ASSUME ControlInv, UNCHANGED QuietVars, NEW c \in Slots, NEW status \in Nat, Finish(c, status),
         status = 403 => call[c].disturbed,
         call[c].op = "delete" /\ status = 204 => ~Exists
  PROVE  ControlInv'
<1>1. call[c] \in Calls /\ Good(call[c], sub, incs, claims, sealed, Enforce) /\ incs \in Nat
  BY Zenon DEF ControlInv, Counted, AllGood
<1>2. call[c].expected.inc <= incs
  BY <1>1, Zenon DEF Good, Answered
<1>3. ~Exists => sub.inc = 0
  BY DEF Exists, NoSub
<1>4. call[c].op = "delete" /\ status = 204 /\ call[c].expected.inc > 0 =>
        sub.inc # call[c].expected.inc
  <2>1. call[c].expected.inc \in Nat
    BY <1>1, MemoryInc, Zenon DEF Calls
  <2> QED
    BY <1>3, <2>1
<1>5. /\ Done(c, status) \in Calls
      /\ Good(Done(c, status), sub, incs, claims, sealed, Enforce)
  BY <1>1, <1>2, <1>4, DoneIsGood, Zenon
<1> QED
  BY <1>5, Quiet, Zenon DEF Finish

LEMMA DeleteStep ==
  ASSUME ControlInv, NEW c \in Slots, DeleteStage(c)
  PROVE  ControlInv'
<1> DEFINE k == call[c]
           answer == Guarded(Expectation(k.expected))
<1>1. /\ k.op = "delete" /\ k.stage = "commit"
      /\ UNCHANGED <<scene, incs, claims, sealed, glob>>
  BY Zenon DEF DeleteStage
<1>2. Counted /\ Stored /\ AllGood /\ wrong = {} /\ unsealed \subseteq excused
  BY Zenon DEF ControlInv
<1>3. k \in Calls /\ Good(k, sub, incs, claims, sealed, Enforce) /\ Flying(k)
  BY <1>1, <1>2, Zenon DEF Counted, AllGood, Flying
<1>4. CASE answer = "MATCHED" /\ Exists
  <2>1. /\ Commit(k.who, "delete", sub, {}) /\ Lose(c, DOMAIN sub.links) /\ sub' = NoSub
        /\ Disturb(c, Done(c, 204))
    BY <1>4, Zenon DEF DeleteStage
  <2>2. ASSUME Enforce
        PROVE  /\ Entitled(k.who, "delete", sub, {})
               /\ DOMAIN k.expected.links = DOMAIN sub.links
    <3>1. Expectation(sub) = Expectation(k.expected)
      BY <1>4, <2>2, GuardedAnswers, Zenon
    <3>2. /\ WellFormed(sub) /\ WellFormed(k.expected) /\ Accounted(k.expected)
          /\ k.expected.stray \subseteq sub.stray /\ Authorized(k)
          /\ DOMAIN k.expected.links = DOMAIN sub.links
          /\ k.who \in Gateways \/ sub.owner \in {Nobody, k.who}
      BY <1>3, <1>4, <2>2, <3>1, Found, Zenon
    <3>3. k.who \in Services => Reaches(k.who, "subscribe", sub)
      BY <1>1, <3>1, <3>2, StillReaches, Zenon DEF Authorized, Actions
    <3>4. Entitled(k.who, "delete", sub, {})
      BY <3>2, <3>3, Zenon DEF Entitled, Authorized
    <3> QED
      BY <3>2, <3>4, Zenon
  <2>3. wrong' = {}
    BY <1>2, <2>1, <2>2, NothingWrong, Zenon
  <2>4. /\ unsealed' \subseteq excused' /\ excused' \subseteq unsealed'
        /\ unsealed' \subseteq Paths \X (1 .. claims)
    <3>1. DOMAIN sub.links \in SUBSET Paths
      BY <1>2, <1>4, LinksDomain, Zenon DEF Stored
    <3>2. \A p \in DOMAIN sub.links : sub.live /\ ~Unread(c, p) => <<p, sub.wake>> \in sealed
      BY <1>1, <1>2, <1>4, <2>2, SealedWhatItRead, Zenon
    <3> QED
      BY <1>2, <1>4, <2>1, <3>1, <3>2, LoseKeeps, Zenon
  <2>5. sub'.inc = 0
    BY <2>1, Zenon DEF NoSub
  <2>6. Stored'
    BY <1>1, <1>2, <2>1, <2>4, <2>5, SMTT(30) DEF Stored, Exists, Counted
  <2>7. Grows
    BY <1>1, <1>2, <2>5, SMTT(30) DEF Grows, Follows, Counted
  <2>8. k.expected.inc \in Nat /\ k.expected.inc <= incs
    BY <1>3, MemoryInc, Zenon DEF Calls, Good, Answered
  <2>9. Done(c, 204) \in Calls /\ Good(Done(c, 204), sub', incs', claims', sealed', Enforce')
    <3>1. PICK status \in Nat : status = 204 /\ status # 403
      OBVIOUS
    <3>2. /\ incs' \in Nat /\ call[c] \in Calls /\ call[c].expected.inc <= incs'
          /\ status = 403 /\ call[c].expected.inc > 0 => call[c].disturbed
          /\ call[c].op = "delete" /\ status = 204 /\ call[c].expected.inc > 0 =>
               sub'.inc # call[c].expected.inc
      BY <1>1, <1>2, <1>3, <2>5, <2>8, <3>1 DEF Counted
    <3>3. /\ Done(c, status) \in Calls
          /\ Good(Done(c, status), sub', incs', claims', sealed', Enforce')
      BY <3>2, DoneIsGood, Zenon
    <3> QED
      BY <3>1, <3>3, Zenon
  <2>10. Counted' /\ AllGood'
    BY <1>2, <2>1, <2>7, <2>9, DisturbKeeps, Zenon
  <2> QED
    BY <2>3, <2>4, <2>6, <2>10, Zenon DEF ControlInv
<1>5. CASE ~(answer = "MATCHED" /\ Exists)
  <2>1. Finish(c, IF answer = "FORBIDDEN" THEN 403 ELSE 204) /\ UNCHANGED QuietVars
    BY <1>1, <1>5, Zenon DEF DeleteStage, QuietVars
  <2>2. CASE answer = "FORBIDDEN"
    <3>1. k.disturbed
      BY <1>3, <2>2, GuardedAnswers, RefusedKnows, Zenon
    <3> QED
      BY <2>1, <2>2, <3>1, QuietDone
  <2>3. CASE answer # "FORBIDDEN"
    <3>1. ~Exists
      BY <1>5, <2>3, GuardedAnswers, Zenon
    <3> QED
      BY <2>1, <2>3, <3>1, QuietDone
  <2> QED
    BY <2>2, <2>3, Zenon
<1> QED
  BY <1>4, <1>5, Zenon

\* A subscription with other links.
LEMMA Relinked ==
  ASSUME NEW s \in Subscriptions, NEW f \in Links
  PROVE  LET r == [s EXCEPT !.links = f]
         IN /\ r \in Subscriptions /\ r.links = f
            /\ r.inc = s.inc /\ r.owner = s.owner /\ r.hash = s.hash /\ r.pattern = s.pattern
            /\ r.wakeStream = s.wakeStream /\ r.stray = s.stray /\ r.wake = s.wake
            /\ r.live = s.live
BY Zenon DEF Subscriptions

\* Its links with one more, or with one made explicit.
LEMMA OneMoreLink ==
  ASSUME NEW s, WellFormed(s), NEW path \in Paths, NEW kind \in {"explicit", "glob"}
  PROVE  LET f == [p \in DOMAIN s.links \cup {path} |-> IF p = path THEN kind ELSE s.links[p]]
         IN /\ f \in Links /\ DOMAIN f = DOMAIN s.links \cup {path}
            /\ f[path] = kind /\ \A p \in DOMAIN s.links \ {path} : f[p] = s.links[p]
<1> DEFINE D == DOMAIN s.links \cup {path}
           f == [p \in D |-> IF p = path THEN kind ELSE s.links[p]]
<1>1. DOMAIN s.links \in SUBSET Paths /\ s.links \in [DOMAIN s.links -> {"explicit", "glob"}]
  BY LinksDomain, Zenon
<1>2. D \in SUBSET Paths /\ f \in [D -> {"explicit", "glob"}]
  BY <1>1, Zenon
<1>3. f \in Links
  BY <1>2, Zenon DEF Links
<1> QED
  BY <1>3, Zenon

\* A link keeps every field but the links.
SameButLinks(r, s) ==
  /\ r.inc = s.inc /\ r.owner = s.owner /\ r.hash = s.hash /\ r.pattern = s.pattern
  /\ r.wakeStream = s.wakeStream /\ r.stray = s.stray /\ r.wake = s.wake /\ r.live = s.live

LEMMA ExpectedIsWellFormed ==
  ASSUME NEW s, WellFormed(s), NEW path \in Paths
  PROVE  LET r == addExpectedPath(s, path)
         IN /\ WellFormed(r) /\ SameButLinks(r, s) /\ DOMAIN r.links = DOMAIN s.links \cup {path}
            /\ Accounted(s) => Accounted(r)
<1> DEFINE f == [p \in DOMAIN s.links \cup {path} |-> IF p = path THEN "explicit" ELSE s.links[p]]
           r == [s EXCEPT !.links = f]
<1>1. s \in Subscriptions
  BY Zenon DEF WellFormed
<1>2. /\ f \in Links /\ DOMAIN f = DOMAIN s.links \cup {path}
      /\ f[path] = "explicit" /\ \A p \in DOMAIN s.links \ {path} : f[p] = s.links[p]
  BY OneMoreLink, Zenon
<1>3. addExpectedPath(s, path) = r
  BY Zenon DEF addExpectedPath
<1> HIDE DEF f
<1>4. r \in Subscriptions /\ r.links = f /\ SameButLinks(r, s)
  BY <1>1, <1>2, Relinked, Zenon DEF SameButLinks
<1> HIDE DEF r
<1>5. Accounted(s) => Accounted(r)
  BY <1>2, <1>4, Zenon DEF Accounted, SameButLinks, StillGlob
<1> QED
  BY <1>2, <1>3, <1>4, <1>5, Zenon DEF WellFormed, SameButLinks

LEMMA LinkedExplicit ==
  ASSUME WellFormed(sub), NEW path \in Paths
  PROVE  Linked(path, "explicit") = addExpectedPath(sub, path)
<1>1. \A p \in DOMAIN sub.links \cup {path} :
        (IF p # path THEN sub.links[p]
         ELSE IF p \in DOMAIN sub.links /\ "explicit" = "glob" THEN sub.links[p] ELSE "explicit")
        = (IF p = path THEN "explicit" ELSE sub.links[p])
  BY Zenon
<1> QED
  BY <1>1, Zenon DEF Linked, addExpectedPath

LEMMA HeadAndTail ==
  ASSUME NEW todo \in Seq(Paths), todo # <<>>
  PROVE  /\ Head(todo) \in Paths /\ Tail(todo) \in Seq(Paths)
         /\ Head(todo) \in Named(todo) /\ Named(Tail(todo)) \subseteq Named(todo)
<1>1. Head(todo) \in Paths /\ Tail(todo) \in Seq(Paths)
  OBVIOUS
<1>2. 1 \in DOMAIN todo /\ Head(todo) = todo[1]
  OBVIOUS
<1>3. ASSUME NEW i \in DOMAIN Tail(todo)
      PROVE  i + 1 \in DOMAIN todo /\ Tail(todo)[i] = todo[i + 1]
  BY <1>3
<1> QED
  BY <1>1, <1>2, <1>3 DEF Named

\* One path of an add-streams request, found as expected or unguarded.
LEMMA LinkCommits ==
  ASSUME ControlInv, NEW c \in Slots, call[c].op = "link", call[c].stage = "commit",
         call[c].todo # <<>>, UNCHANGED <<scene, incs, claims, sealed, glob, unsealed, excused>>,
         Enforce => Exists /\ Expectation(sub) = Expectation(call[c].expected),
         NEW path, path = Head(call[c].todo),
         sub' = IF Exists THEN Linked(path, "explicit") ELSE sub,
         IF Exists THEN Commit(call[c].who, "link", sub, {path}) ELSE UNCHANGED wrong,
         Disturb(c, [call[c] EXCEPT !.todo = Tail(@),
                       !.expected = IF Enforce THEN addExpectedPath(@, path) ELSE @])
  PROVE  ControlInv'
<1> DEFINE k == call[c]
           m == IF Enforce THEN addExpectedPath(k.expected, path) ELSE k.expected
           r == [k EXCEPT !.todo = Tail(k.todo), !.expected = m]
<1>1. Counted /\ Stored /\ AllGood /\ wrong = {} /\ unsealed \subseteq excused
  BY Zenon DEF ControlInv
<1>2. k \in Calls /\ Good(k, sub, incs, claims, sealed, Enforce) /\ Flying(k)
  BY <1>1, Zenon DEF Counted, AllGood, Flying
<1>3. k.todo \in Seq(Paths)
  BY <1>2, Zenon DEF Calls
<1>4. /\ path \in Paths /\ Tail(k.todo) \in Seq(Paths)
      /\ path \in Named(k.todo) /\ Named(Tail(k.todo)) \subseteq Named(k.todo)
  BY <1>3, HeadAndTail, Zenon
<1>5. /\ sub'.inc = sub.inc /\ (Exists => sub'.stray = sub.stray)
      /\ Exists => /\ WellFormed(sub') /\ SameButLinks(sub', sub)
                   /\ DOMAIN sub'.links = DOMAIN sub.links \cup {path}
                   /\ Accounted(sub) => Accounted(sub')
  <2>1. CASE Exists
    <3>1. WellFormed(sub)
      BY <1>1, <2>1, Zenon DEF Stored
    <3>2. sub' = addExpectedPath(sub, path)
      BY <1>4, <2>1, <3>1, LinkedExplicit, Zenon
    <3> QED
      BY <1>4, <3>1, <3>2, ExpectedIsWellFormed DEF SameButLinks
  <2>2. CASE ~Exists
    BY <2>2, Zenon
  <2> QED
    BY <2>1, <2>2, Zenon
<1>6. Exists' = Exists
  <2>1. Exists => sub' # NoSub
    BY <1>5, WellFormedInc, Zenon
  <2> QED
    BY <2>1, Zenon DEF Exists
<1>7. ASSUME Enforce
      PROVE  /\ Authorized(k) /\ WellFormed(k.expected) /\ Accounted(k.expected)
             /\ k.expected.stray \subseteq sub.stray
             /\ k.expected.wake <= claims /\ k.expected.owner = sub.owner
             /\ DOMAIN k.expected.links = DOMAIN sub.links
             /\ k.who \in Gateways \/ sub.owner \in {Nobody, k.who}
  BY <1>2, <1>7, Found, Zenon DEF Good, Remembers
<1>8. wrong' = {}
  <2>1. Enforce => Entitled(k.who, "link", sub, {path})
    BY <1>4, <1>7, Zenon DEF Entitled, Authorized, linkPathsAuthz
  <2> QED
    BY <1>1, <2>1, NothingWrong, Zenon
<1>9. Stored'
  BY <1>1, <1>5, <1>6, Zenon DEF Stored, SameButLinks, Enforce
<1>10. Grows
  BY <1>1, <1>5, <1>6 DEF Grows, Follows, Counted, Stored, Exists, NoSub
<1>11. m \in Memories /\ m.inc = k.expected.inc
  <2>1. CASE Enforce
    BY <1>4, <1>7, <2>1, ExpectedIsWellFormed, Zenon DEF WellFormed, Memories, SameButLinks
  <2>2. CASE ~Enforce
    BY <1>2, <2>2, Zenon DEF Calls
  <2> QED
    BY <2>1, <2>2, Zenon
<1>12. Enforce => /\ WellFormed(m) /\ Accounted(m) /\ SameButLinks(m, k.expected)
                  /\ DOMAIN m.links = DOMAIN k.expected.links \cup {path}
  BY <1>4, <1>7, ExpectedIsWellFormed, Zenon
<1> HIDE DEF m
<1>13. /\ r \in Calls /\ r.op = "link" /\ r.who = k.who /\ r.stage = "commit" /\ r.expected = m
       /\ r.todo = Tail(k.todo) /\ r.status = k.status /\ r.disturbed = k.disturbed
  BY <1>2, <1>4, <1>11, Zenon DEF Calls
<1>14. Disturb(c, r)
  BY Zenon DEF m
<1> HIDE DEF r
<1>15. Answered(r, sub', incs) /\ Sealing(r, claims)
  BY <1>2, <1>11, <1>13, ZenonT(40) DEF Good, Answered, Sealing
<1>16. ASSUME Enforce PROVE Remembers(r, sub', claims) /\ Authorized(r)
  <2>1. Expectation(sub) = Expectation(k.expected)
    BY <1>16, Zenon
  <2>2. Expectation(sub') = Expectation(m)
    BY <1>5, <1>7, <1>12, <1>16, <2>1, SameExpectation, Zenon DEF Expectation, SameButLinks
  <2>3. Remembers(r, sub', claims)
    BY <1>5, <1>6, <1>7, <1>12, <1>13, <1>16, <2>2, Zenon DEF Remembers, Undisturbed, SameButLinks, Exists
  <2>4. Authorized(r)
    BY <1>4, <1>7, <1>12, <1>13, <1>16, Zenon DEF Authorized, linkPathsAuthz, SameButLinks
  <2> QED
    BY <2>3, <2>4, Zenon
<1>17. Good(r, sub', incs', claims', sealed', Enforce')
  <2>0. HasSealed(r, sealed)
    BY <1>13, Zenon DEF HasSealed
  <2>1. Good(r, sub', incs, claims, sealed, Enforce)
    BY <1>15, <1>16, <2>0, Zenon DEF Good
  <2> QED
    BY <2>1, Zenon DEF Enforce
<1>18. Counted' /\ AllGood'
  BY <1>1, <1>10, <1>13, <1>14, <1>17, DisturbKeeps, Zenon
<1> QED
  BY <1>1, <1>8, <1>9, <1>18, Zenon DEF ControlInv

LEMMA LinkStep ==
  ASSUME ControlInv, NEW c \in Slots, LinkStage(c)
  PROVE  ControlInv'
<1> DEFINE k == call[c]
           path == Head(k.todo)
           m == IF Enforce THEN Expectation(k.expected) ELSE NoSub
           next == [k EXCEPT !.todo = Tail(@),
                       !.expected = IF Enforce THEN addExpectedPath(@, path) ELSE @]
<1>1. /\ k.op = "link" /\ k.stage = "commit" /\ Flying(k)
      /\ UNCHANGED <<scene, incs, claims, sealed, glob, unsealed, excused>>
  BY Zenon DEF LinkStage, Flying
<1>2. CASE k.todo = <<>>
  <2>1. Finish(c, 204) /\ UNCHANGED QuietVars
    BY <1>1, <1>2, Zenon DEF LinkStage, QuietVars
  <2> QED
    BY <1>1, <2>1, QuietDone
<1>3. CASE k.todo # <<>> /\ Guarded(m) = "MATCHED"
  <2>1. /\ sub' = IF Exists THEN Linked(path, "explicit") ELSE sub
        /\ IF Exists THEN Commit(k.who, "link", sub, {path}) ELSE UNCHANGED wrong
        /\ Disturb(c, next)
    BY <1>3, Zenon DEF LinkStage
  <2>2. Enforce => Exists /\ Expectation(sub) = Expectation(k.expected)
    BY <1>3, GuardedAnswers, Zenon
  <2> QED
    BY <1>1, <1>3, <2>1, <2>2, LinkCommits, Zenon
<1>4. CASE k.todo # <<>> /\ Guarded(m) # "MATCHED"
  <2>1. Finish(c, IF Guarded(m) = "NOSUB" THEN 404 ELSE 403) /\ UNCHANGED QuietVars
    BY <1>1, <1>4, Zenon DEF LinkStage, QuietVars
  <2>2. CASE Guarded(m) = "NOSUB"
    BY <1>1, <2>1, <2>2, QuietDone
  <2>3. CASE Guarded(m) # "NOSUB"
    <3>1. k.disturbed
      BY <1>1, <1>4, <2>3, GuardedAnswers, RefusedKnows, Zenon
    <3> QED
      BY <1>1, <2>1, <2>3, <3>1, QuietDone
  <2> QED
    BY <2>2, <2>3, Zenon
<1> QED
  BY <1>2, <1>3, <1>4, Zenon

\* Links without one path, or with one turned into a glob link.
LEMMA OneLinkLess ==
  ASSUME NEW s, WellFormed(s), NEW path
  PROVE  LET f == Without(s.links, path)
         IN /\ f \in Links /\ DOMAIN f = DOMAIN s.links \ {path}
            /\ \A p \in DOMAIN f : f[p] = s.links[p]
<1> DEFINE D == DOMAIN s.links \ {path}
           f == [p \in D |-> s.links[p]]
<1>1. DOMAIN s.links \in SUBSET Paths /\ s.links \in [DOMAIN s.links -> {"explicit", "glob"}]
  BY LinksDomain, Zenon
<1>2. D \in SUBSET Paths /\ f \in [D -> {"explicit", "glob"}]
  BY <1>1, Zenon
<1>3. f \in Links
  BY <1>2, Zenon DEF Links
<1> QED
  BY <1>3, Zenon DEF Without

LEMMA OneGlobLink ==
  ASSUME NEW s, WellFormed(s), NEW path \in DOMAIN s.links
  PROVE  LET f == [s.links EXCEPT ![path] = "glob"]
         IN /\ f \in Links /\ DOMAIN f = DOMAIN s.links
            /\ \A p \in DOMAIN f \ {path} : f[p] = s.links[p]
<1> DEFINE f == [s.links EXCEPT ![path] = "glob"]
<1>1. DOMAIN s.links \in SUBSET Paths /\ s.links \in [DOMAIN s.links -> {"explicit", "glob"}]
  BY LinksDomain, Zenon
<1>2. f \in [DOMAIN s.links -> {"explicit", "glob"}]
  BY <1>1, Zenon
<1>3. f \in Links
  BY <1>1, <1>2, Zenon DEF Links
<1> QED
  BY <1>1, <1>3, Zenon

\* A remove-stream request leaves the subscription as it is but for its links;
\* in enforce mode the pattern it decided on is still the pattern.
LEMMA UnlinkedIsWellFormed ==
  ASSUME NEW s, WellFormed(s), NEW path \in DOMAIN s.links, NEW keep \in BOOLEAN, NEW t,
         t = IF keep THEN [s EXCEPT !.links[path] = "glob"]
                     ELSE [s EXCEPT !.links = Without(@, path)]
  PROVE  /\ WellFormed(t) /\ SameButLinks(t, s)
         /\ Accounted(s) /\ (keep => StillGlob(s, path)) => Accounted(t)
<1> DEFINE f == IF keep THEN [s.links EXCEPT ![path] = "glob"]
                ELSE Without(s.links, path)
<1>1. s \in Subscriptions
  BY Zenon DEF WellFormed
<1>2. t = [s EXCEPT !.links = f]
  BY <1>1, Zenon DEF Subscriptions
<1>3. f \in Links /\ \A p \in DOMAIN f : p \in DOMAIN s.links /\ ((keep /\ p = path) \/ f[p] = s.links[p])
  <2>1. CASE keep
    BY <2>1, OneGlobLink, Zenon
  <2>2. CASE ~keep
    <3>1. /\ Without(s.links, path) \in Links
          /\ DOMAIN Without(s.links, path) = DOMAIN s.links \ {path}
          /\ \A p \in DOMAIN Without(s.links, path) : Without(s.links, path)[p] = s.links[p]
      BY OneLinkLess, Zenon
    <3>2. f = Without(s.links, path)
      BY <2>2, ZenonT(40)
    <3> QED
      BY <3>1, <3>2, Zenon
  <2> QED
    BY <2>1, <2>2, Zenon
<1> HIDE DEF f
<1>4. t \in Subscriptions /\ t.links = f /\ SameButLinks(t, s)
  <2> DEFINE r == [s EXCEPT !.links = f]
  <2>1. r \in Subscriptions /\ r.links = f /\ SameButLinks(r, s)
    BY <1>1, <1>3, Relinked, Zenon DEF SameButLinks
  <2> QED
    BY <1>2, <2>1, Zenon
<1>5. WellFormed(t)
  BY <1>4, Zenon DEF WellFormed, SameButLinks
<1>6. ASSUME Accounted(s), keep => StillGlob(s, path) PROVE Accounted(t)
  <2>1. t.stray = s.stray /\ \A p : StillGlob(t, p) <=> StillGlob(s, p)
    BY <1>4, Zenon DEF StillGlob, SameButLinks
  <2>2. ASSUME NEW p \in DOMAIN t.links \ t.stray
        PROVE  t.links[p] = "explicit" \/ StillGlob(t, p)
    <3>1. p \in DOMAIN s.links \ s.stray /\ ((keep /\ p = path) \/ t.links[p] = s.links[p])
      BY <1>3, <1>4, <2>1, Zenon
    <3> QED
      BY <1>6, <2>1, <3>1, Zenon DEF Accounted
  <2> QED
    BY <2>2, Zenon DEF Accounted
<1> QED
  BY <1>4, <1>5, <1>6, Zenon

LEMMA UnlinkStep ==
  ASSUME ControlInv, NEW c \in Slots, UnlinkStage(c)
  PROVE  ControlInv'
<1> DEFINE k == call[c]
           path == Head(k.todo)
           answer == Guarded(Expectation(k.expected))
           keep == k.expected # NoSub /\ StillGlob(k.expected, path)
<1>1. /\ k.op = "unlink" /\ k.stage = "commit" /\ Flying(k)
      /\ UNCHANGED <<scene, incs, claims, sealed, glob>>
  BY Zenon DEF UnlinkStage, Flying
<1>2. Counted /\ Stored /\ AllGood /\ wrong = {} /\ unsealed \subseteq excused
  BY Zenon DEF ControlInv
<1>3. k \in Calls /\ Good(k, sub, incs, claims, sealed, Enforce)
  BY <1>2, Zenon DEF Counted, AllGood
<1>4. CASE answer = "MATCHED" /\ Exists /\ path \in DOMAIN sub.links
  <2>1. /\ Commit(k.who, "unlink", sub, {path})
        /\ sub' = IF keep THEN [sub EXCEPT !.links[path] = "glob"]
                  ELSE [sub EXCEPT !.links = Without(@, path)]
        /\ keep => UNCHANGED <<unsealed, excused>>
        /\ ~keep => Lose(c, {path})
        /\ Disturb(c, Done(c, 204))
    BY <1>4, Zenon DEF UnlinkStage
  <2>2. WellFormed(sub) /\ keep \in BOOLEAN
    BY <1>2, <1>4, Zenon DEF Stored, StillGlob
  <2>3. ASSUME Enforce
        PROVE  /\ Entitled(k.who, "unlink", sub, {path}) /\ (keep => StillGlob(sub, path))
               /\ DOMAIN k.expected.links = DOMAIN sub.links
    <3>1. Expectation(sub) = Expectation(k.expected)
      BY <1>4, <2>3, GuardedAnswers, Zenon
    <3>2. /\ WellFormed(k.expected) /\ Authorized(k)
          /\ DOMAIN k.expected.links = DOMAIN sub.links
          /\ k.who \in Gateways \/ sub.owner \in {Nobody, k.who}
      BY <1>1, <1>4, <2>3, <3>1, Found, Zenon
    <3>3. k.who \in Services => linkPathsAuthz(k.who, "link", {path})
      BY <1>1, <3>2, ShortLists, Zenon DEF Authorized
    <3>4. Entitled(k.who, "unlink", sub, {path})
      BY <3>2, <3>3, Zenon DEF Entitled, Authorized
    <3>5. sub.pattern = k.expected.pattern
      BY <2>2, <3>1, <3>2, SameExpectation, Zenon DEF WellFormed
    <3> QED
      BY <3>2, <3>4, <3>5, Zenon DEF StillGlob
  <2>4. wrong' = {}
    BY <1>2, <2>1, <2>3, NothingWrong, Zenon
  <2>5. /\ unsealed' \subseteq excused' /\ excused' \subseteq unsealed'
        /\ unsealed' \subseteq Paths \X (1 .. claims)
    <3>1. CASE keep
      BY <1>2, <2>1, <3>1, Zenon DEF Stored
    <3>2. CASE ~keep
      <4>1. {path} \in SUBSET Paths
        BY <1>4, <2>2, LinksDomain, Zenon
      <4>2. \A p \in {path} : sub.live /\ ~Unread(c, p) => <<p, sub.wake>> \in sealed
        BY <1>1, <1>2, <1>4, <2>3, <3>2, SealedWhatItRead, Zenon
      <4> QED
        BY <1>2, <1>4, <2>1, <3>2, <4>1, <4>2, LoseKeeps, Zenon
    <3> QED
      BY <3>1, <3>2, Zenon
  <2> HIDE DEF keep, path, answer
  <2>6. WellFormed(sub') /\ SameButLinks(sub', sub) /\ (Enforce => Accounted(sub'))
    <3>1. /\ WellFormed(sub') /\ SameButLinks(sub', sub)
          /\ Accounted(sub) /\ (keep => StillGlob(sub, path)) => Accounted(sub')
      <4>1. path \in DOMAIN sub.links
        BY <1>4, Zenon
      <4>2. sub' = IF keep THEN [sub EXCEPT !.links[path] = "glob"]
                   ELSE [sub EXCEPT !.links = Without(@, path)]
        BY <2>1, Zenon
      <4> QED
        BY <2>2, <4>1, <4>2, UnlinkedIsWellFormed
    <3> QED
      BY <1>2, <1>4, <2>3, <3>1, Zenon DEF Stored
  <2>7. sub'.inc = sub.inc /\ sub'.stray = sub.stray /\ sub'.wake = sub.wake
    BY <2>6, Zenon DEF SameButLinks
  <2>8. Stored'
    BY <1>1, <1>2, <1>4, <2>5, <2>6, <2>7, Zenon DEF Stored, Enforce
  <2>9. Grows
    BY <1>1, <1>2, <2>7, SMTT(30) DEF Grows, Follows, Counted, Stored
  <2>10. k.expected.inc \in Nat /\ k.expected.inc <= incs
    BY <1>3, MemoryInc, Zenon DEF Calls, Good, Answered
  <2>11. Done(c, 204) \in Calls /\ Good(Done(c, 204), sub', incs', claims', sealed', Enforce')
    <3>1. PICK status \in Nat : status = 204 /\ status # 403
      OBVIOUS
    <3>2. /\ incs' \in Nat /\ call[c] \in Calls /\ call[c].expected.inc <= incs'
          /\ status = 403 /\ call[c].expected.inc > 0 => call[c].disturbed
          /\ call[c].op = "delete" /\ status = 204 /\ call[c].expected.inc > 0 =>
               sub'.inc # call[c].expected.inc
      BY <1>1, <1>2, <1>3, <2>10, <3>1 DEF Counted
    <3>3. /\ Done(c, status) \in Calls
          /\ Good(Done(c, status), sub', incs', claims', sealed', Enforce')
      BY <3>2, DoneIsGood, Zenon
    <3> QED
      BY <3>1, <3>3, Zenon
  <2>12. Counted' /\ AllGood'
    BY <1>2, <2>1, <2>9, <2>11, DisturbKeeps, Zenon
  <2> QED
    BY <2>4, <2>5, <2>8, <2>12, Zenon DEF ControlInv
<1>5. CASE ~(answer = "MATCHED" /\ Exists /\ path \in DOMAIN sub.links)
  <2>1. Finish(c, IF answer = "FORBIDDEN" THEN 403 ELSE 204) /\ UNCHANGED QuietVars
    BY <1>1, <1>5, Zenon DEF UnlinkStage, QuietVars
  <2>2. CASE answer = "FORBIDDEN"
    <3>1. k.disturbed
      BY <1>1, <2>2, GuardedAnswers, RefusedKnows, Zenon
    <3> QED
      BY <2>1, <2>2, <3>1, QuietDone
  <2>3. CASE answer # "FORBIDDEN"
    BY <1>1, <2>1, <2>3, QuietDone
  <2> QED
    BY <2>2, <2>3, Zenon
<1> QED
  BY <1>4, <1>5, Zenon

\* A step no request makes, which leaves what they compare.
LEMMA NobodyActs ==
  ASSUME Counted, AllGood, Grows, Same(sub, sub'), UNCHANGED call
  PROVE  Counted' /\ AllGood'
<1>1. Counted' /\ Enforce' = Enforce
  BY Zenon DEF Counted, Grows, Enforce
<1>2. ASSUME NEW d \in Slots PROVE Good(call[d], sub', incs', claims', sealed', Enforce)
  <2>1. call[d] \in Calls /\ Good(call[d], sub, incs, claims, sealed, Enforce)
    BY Zenon DEF Counted, AllGood
  <2> QED
    BY <2>1, GoodStays, Zenon DEF Counted, Grows
<1> QED
  BY <1>1, <1>2, Zenon DEF AllGood

\* A claim that is granted or ends changes nothing a request compares.
LEMMA ClaimedIsWellFormed ==
  ASSUME NEW s, NEW t, WellFormed(s), t \in Subscriptions, t.live => t.wake > 0,
         t.inc = s.inc, t.owner = s.owner, t.hash = s.hash, t.pattern = s.pattern,
         t.wakeStream = s.wakeStream, t.links = s.links, t.stray = s.stray
  PROVE  WellFormed(t) /\ Expectation(t) = Expectation(s) /\ (Accounted(s) => Accounted(t))
<1>1. WellFormed(t) /\ Expectation(t) = Expectation(s)
  BY Zenon DEF WellFormed, Expectation
<1>2. Accounted(s) => Accounted(t)
  BY Zenon DEF Accounted, StillGlob
<1> QED
  BY <1>1, <1>2, Zenon

LEMMA ClaimStep ==
  ASSUME ControlInv, NEW c \in Slots, ClaimStage(c)
  PROVE  ControlInv'
<1> DEFINE k == call[c]
           answer == MatchesExpectation(Expectation(k.expected))
<1>1. /\ k.op = "claim" /\ k.stage = "commit" /\ Flying(k)
      /\ UNCHANGED <<scene, incs, sealed, glob, unsealed, excused>>
  BY Zenon DEF ClaimStage, Flying
<1>2. Counted /\ Stored /\ AllGood /\ wrong = {} /\ unsealed \subseteq excused
  BY Zenon DEF ControlInv
<1>3. k \in Calls /\ Good(k, sub, incs, claims, sealed, Enforce)
  BY <1>2, Zenon DEF Counted, AllGood
<1>4. CASE answer # "MATCHED"
  <2>1. /\ Finish(c, IF answer = "NOSUB" THEN 404 ELSE IF Enforce THEN 403 ELSE 409)
        /\ UNCHANGED QuietVars
    BY <1>1, <1>4, Zenon DEF ClaimStage, QuietVars
  <2>2. CASE answer = "NOSUB" \/ ~Enforce
    <3>1. Finish(c, 404) \/ Finish(c, 409)
      BY <2>1, <2>2, Zenon
    <3> QED
      BY <1>1, <2>1, <3>1, QuietDone
  <2>3. CASE answer # "NOSUB" /\ Enforce
    <3>1. Finish(c, 403)
      BY <2>1, <2>3, Zenon
    <3>2. k.disturbed
      BY <1>1, <1>4, <2>3, RefusedKnows, Zenon DEF MatchesExpectation
    <3> QED
      BY <1>1, <2>1, <3>1, <3>2, QuietDone
  <2> QED
    BY <2>2, <2>3, Zenon
<1>5. CASE answer = "MATCHED" /\ sub.live
  <2>1. Finish(c, 409) /\ UNCHANGED QuietVars
    BY <1>1, <1>5, Zenon DEF ClaimStage, QuietVars
  <2> QED
    BY <1>1, <2>1, QuietDone
<1>6. CASE answer = "MATCHED" /\ ~sub.live
  <2> DEFINE r == [k EXCEPT !.stage = "mint", !.wake = claims + 1]
  <2>1. /\ claims' = claims + 1 /\ Commit(k.who, "claim", sub, {})
        /\ sub' = [sub EXCEPT !.live = TRUE, !.gen = @ + 1, !.wake = claims + 1]
        /\ Step(c, r)
    BY <1>6, Zenon DEF ClaimStage
  <2>2. Exists /\ Expectation(sub) = Expectation(k.expected)
    BY <1>6, Zenon DEF MatchesExpectation
  <2>3. WellFormed(sub) /\ sub.gen + 1 \in Nat /\ claims + 1 \in Nat /\ claims + 1 > 0
    BY <1>2, <2>2, SMTT(30) DEF Stored, Counted, WellFormed, Subscriptions
  <2>4. /\ WellFormed(sub') /\ sub'.inc = sub.inc /\ sub'.stray = sub.stray
        /\ sub'.wake = claims + 1 /\ Expectation(sub') = Expectation(sub)
        /\ Accounted(sub) => Accounted(sub')
    <3>1. sub \in Subscriptions
      BY <2>3, Zenon DEF WellFormed
    <3>2. PICK g \in Nat : g = sub.gen + 1
      BY <2>3, Zenon
    <3>3. PICK w \in Nat : w = claims + 1 /\ w > 0
      BY <2>3, Zenon
    <3>4. sub' = [sub EXCEPT !.live = TRUE, !.gen = g, !.wake = w]
      BY <2>1, <3>2, <3>3, Zenon
    <3>5. /\ sub' \in Subscriptions /\ sub'.inc = sub.inc /\ sub'.owner = sub.owner
          /\ sub'.hash = sub.hash /\ sub'.pattern = sub.pattern /\ sub'.stray = sub.stray
          /\ sub'.wakeStream = sub.wakeStream /\ sub'.links = sub.links /\ sub'.wake = w
      BY <3>1, <3>4, Zenon DEF Subscriptions
    <3>6. WellFormed(sub') /\ Expectation(sub') = Expectation(sub) /\ (Accounted(sub) => Accounted(sub'))
      BY <2>3, <3>3, <3>5, ClaimedIsWellFormed, Zenon
    <3> QED
      BY <3>3, <3>5, <3>6, Zenon
  <2>5. Same(sub, sub') /\ Exists'
    BY <2>2, <2>4, WellFormedInc, Zenon DEF Same, Exists
  <2>6. Enforce => Entitled(k.who, "claim", sub, {})
    <3>1. ASSUME Enforce
          PROVE  /\ WellFormed(k.expected) /\ Accounted(k.expected)
                 /\ k.expected.stray \subseteq sub.stray /\ Authorized(k)
                 /\ k.who \in Gateways \/ sub.owner \in {Nobody, k.who}
      BY <1>1, <2>2, <3>1, Found, Zenon
    <3>2. Enforce => Reaches(k.who, "claim", sub)
      BY <1>1, <2>2, <2>3, <3>1, StillReaches, Zenon DEF Authorized, Actions
    <3> QED
      BY <3>1, <3>2, Zenon DEF Entitled, Authorized
  <2>7. wrong' = {}
    BY <1>2, <2>1, <2>6, NothingWrong, Zenon
  <2>8. 1 .. claims \subseteq 1 .. claims' /\ claims \in Nat /\ claims' \in Nat /\ claims <= claims'
    BY <1>2, <2>1 DEF Counted
  <2>9. Stored'
    BY <1>1, <1>2, <2>1, <2>2, <2>4, <2>8, SMTT(30) DEF Stored, Enforce
  <2>10. Grows
    BY <1>1, <1>2, <2>4, <2>8, SMTT(30) DEF Grows, Follows, Stored, Counted
  <2>11. Good(k, sub', incs', claims', sealed', Enforce')
    <3>1. Good(k, sub', incs', claims', sealed', Enforce)
      BY <1>2, <1>3, <2>5, <2>10, GoodStays, Zenon DEF Grows, Counted
    <3> QED
      BY <1>1, <3>1, Zenon DEF Enforce
  <2>12. /\ r \in Calls /\ r.op = "claim" /\ r.who = k.who /\ r.stage = "mint"
         /\ r.expected = k.expected /\ r.status = k.status /\ r.disturbed = k.disturbed
    BY <1>1, <1>3, <2>3, Zenon DEF Calls
  <2> HIDE DEF r
  <2>13. Good(r, sub', incs', claims', sealed', Enforce')
    <3>1. Answered(r, sub', incs') /\ Sealing(r, claims') /\ HasSealed(r, sealed')
      BY <1>1, <2>11, <2>12, ZenonT(40) DEF Good, Answered, Sealing, HasSealed
    <3>2. ASSUME Enforce' PROVE Remembers(r, sub', claims') /\ Authorized(r)
      <4>1. Remembers(k, sub', claims') /\ Authorized(k)
        BY <1>1, <2>11, <3>2, Zenon DEF Good
      <4>2. Remembers(r, sub', claims')
        BY <2>12, <4>1, Zenon DEF Remembers, Undisturbed
      <4>3. Authorized(r)
        BY <1>1, <2>12, <4>1, Zenon DEF Authorized
      <4> QED
        BY <4>2, <4>3, Zenon
    <3> QED
      BY <3>1, <3>2, Zenon DEF Good
  <2>14. Counted' /\ AllGood'
    BY <1>2, <2>1, <2>5, <2>10, <2>12, <2>13, StepKeeps, Zenon
  <2> QED
    BY <1>1, <1>2, <2>7, <2>9, <2>14, Zenon DEF ControlInv
<1> QED
  BY <1>4, <1>5, <1>6, Zenon

LEMMA MintStep ==
  ASSUME ControlInv, NEW c \in Slots, MintStage(c)
  PROVE  ControlInv'
<1>1. UNCHANGED QuietVars /\ (Finish(c, 200) \/ Finish(c, 500))
  BY Zenon DEF MintStage, QuietVars
<1> QED
  BY <1>1, QuietDone

LEMMA EndClaimStep ==
  ASSUME ControlInv, EndClaim
  PROVE  ControlInv'
<1>1. /\ Exists /\ sub' = [sub EXCEPT !.live = FALSE, !.wake = 0] /\ UNCHANGED call
      /\ UNCHANGED <<scene, incs, claims, sealed, glob, wrong, unsealed, excused>>
  BY Zenon DEF EndClaim
<1>2. Counted /\ Stored /\ AllGood /\ wrong = {} /\ unsealed \subseteq excused
  BY Zenon DEF ControlInv
<1>3. WellFormed(sub) /\ sub \in Subscriptions
  BY <1>1, <1>2, Zenon DEF Stored, WellFormed
<1>4. /\ WellFormed(sub') /\ sub'.inc = sub.inc /\ sub'.stray = sub.stray /\ sub'.wake = 0
      /\ Expectation(sub') = Expectation(sub) /\ (Accounted(sub) => Accounted(sub'))
  <2>1. PICK w \in Nat : w = 0
    BY Zenon
  <2>2. sub' = [sub EXCEPT !.live = FALSE, !.wake = w]
    BY <1>1, <2>1, Zenon
  <2>3. /\ sub' \in Subscriptions /\ sub'.inc = sub.inc /\ sub'.owner = sub.owner
        /\ sub'.hash = sub.hash /\ sub'.pattern = sub.pattern /\ sub'.stray = sub.stray
        /\ sub'.wakeStream = sub.wakeStream /\ sub'.links = sub.links /\ sub'.wake = w
        /\ sub'.live = FALSE
    BY <1>3, <2>2, Zenon DEF Subscriptions
  <2>4. WellFormed(sub') /\ Expectation(sub') = Expectation(sub) /\ (Accounted(sub) => Accounted(sub'))
    BY <1>3, <2>3, ClaimedIsWellFormed, Zenon
  <2> QED
    BY <2>1, <2>3, <2>4, Zenon
<1>5. Same(sub, sub') /\ Exists'
  BY <1>1, <1>4, WellFormedInc, Zenon DEF Same, Exists
<1>6. Stored'
  BY <1>1, <1>2, <1>4 DEF Stored, Enforce, Counted
<1>7. Grows
  BY <1>1, <1>2, <1>4 DEF Grows, Follows, Stored, Counted
<1>8. Counted' /\ AllGood'
  BY <1>1, <1>2, <1>5, <1>7, NobodyActs, Zenon
<1> QED
  BY <1>1, <1>2, <1>6, <1>8, Zenon DEF ControlInv

LEMMA GlobReadStep ==
  ASSUME ControlInv, NEW p \in Paths, GlobRead(p)
  PROVE  ControlInv'
<1>1. UNCHANGED <<scene, sub, incs, claims, sealed, call, wrong, unsealed, excused>> /\ glob' = p
  BY Zenon DEF GlobRead
<1>2. Counted /\ Stored /\ AllGood /\ wrong = {} /\ unsealed \subseteq excused
  BY Zenon DEF ControlInv
<1>3. Same(sub, sub') /\ Grows
  BY <1>1, <1>2, SameRefl DEF Grows, Counted
<1>4. Stored'
  BY <1>1, <1>2, Zenon DEF Stored, Exists, Enforce
<1>5. Counted' /\ AllGood'
  BY <1>1, <1>2, <1>3, NobodyActs, Zenon
<1> QED
  BY <1>1, <1>2, <1>4, <1>5, Zenon DEF ControlInv

\* The hook's link: a path that is linked stays as it is, another becomes a
\* glob link, and a stray where the pattern does not match it.
WithGlob(s, path) ==
  [p \in DOMAIN s.links \cup {path} |->
     IF p # path THEN s.links[p]
     ELSE IF p \in DOMAIN s.links /\ "glob" = "glob" THEN s.links[p] ELSE "glob"]

LEMMA GlobLinks ==
  ASSUME NEW s, WellFormed(s), NEW path \in Paths
  PROVE  LET f == WithGlob(s, path)
         IN /\ f \in Links /\ DOMAIN f = DOMAIN s.links \cup {path}
            /\ path \notin DOMAIN s.links => f[path] = "glob"
            /\ \A p \in DOMAIN s.links : f[p] = s.links[p]
<1> DEFINE D == DOMAIN s.links \cup {path}
           f == [p \in D |-> IF p # path THEN s.links[p]
                             ELSE IF p \in DOMAIN s.links /\ "glob" = "glob"
                                  THEN s.links[p] ELSE "glob"]
<1>1. DOMAIN s.links \in SUBSET Paths /\ s.links \in [DOMAIN s.links -> {"explicit", "glob"}]
  BY LinksDomain, Zenon
<1>2. D \in SUBSET Paths /\ f \in [D -> {"explicit", "glob"}]
  BY <1>1, Zenon
<1>3. f \in Links
  BY <1>2, Zenon DEF Links
<1> QED
  BY <1>3, Zenon DEF WithGlob

LEMMA LinkedGlob ==
  ASSUME WellFormed(sub), NEW path \in Paths
  PROVE  LET r == Linked(path, "glob")
         IN /\ WellFormed(r) /\ SameButLinks(r, sub) /\ DOMAIN r.links = DOMAIN sub.links \cup {path}
            /\ path \notin DOMAIN sub.links => r.links[path] = "glob"
            /\ \A p \in DOMAIN sub.links : r.links[p] = sub.links[p]
<1> DEFINE f == WithGlob(sub, path)
           r == [sub EXCEPT !.links = f]
<1>1. sub \in Subscriptions
  BY Zenon DEF WellFormed
<1>2. /\ f \in Links /\ DOMAIN f = DOMAIN sub.links \cup {path}
      /\ path \notin DOMAIN sub.links => f[path] = "glob"
      /\ \A p \in DOMAIN sub.links : f[p] = sub.links[p]
  BY GlobLinks, Zenon
<1>3. Linked(path, "glob") = r
  BY Zenon DEF Linked, WithGlob
<1> HIDE DEF f
<1>4. r \in Subscriptions /\ r.links = f /\ SameButLinks(r, sub)
  BY <1>1, <1>2, Relinked, Zenon DEF SameButLinks
<1> HIDE DEF r
<1>5. WellFormed(r)
  BY <1>4, Zenon DEF WellFormed, SameButLinks
<1> QED
  BY <1>2, <1>3, <1>4, <1>5, Zenon

LEMMA HookLinks ==
  ASSUME WellFormed(sub), NEW path \in Paths, NEW t,
         t = IF StillGlob(sub, path) \/ path \in DOMAIN sub.links THEN Linked(path, "glob")
             ELSE [Linked(path, "glob") EXCEPT !.stray = @ \cup {path}]
  PROVE  /\ WellFormed(t) /\ t.inc = sub.inc /\ sub.stray \subseteq t.stray /\ t.wake = sub.wake
         /\ Accounted(sub) => Accounted(t)
<1>1. PICK r : r = Linked(path, "glob")
  BY Zenon
<1>2. /\ WellFormed(r) /\ SameButLinks(r, sub) /\ DOMAIN r.links = DOMAIN sub.links \cup {path}
      /\ path \notin DOMAIN sub.links => r.links[path] = "glob"
      /\ \A p \in DOMAIN sub.links : r.links[p] = sub.links[p]
  BY <1>1, LinkedGlob, Zenon
<1>3. \A p : StillGlob(r, p) <=> StillGlob(sub, p)
  BY <1>2, Zenon DEF StillGlob, SameButLinks
<1>4. CASE StillGlob(sub, path) \/ path \in DOMAIN sub.links
  <2>1. t = r
    BY <1>1, <1>4, Zenon
  <2>2. Accounted(sub) => Accounted(r)
    BY <1>2, <1>3, <1>4, Zenon DEF Accounted, SameButLinks
  <2> QED
    BY <1>2, <2>1, <2>2, Zenon DEF SameButLinks
<1>5. CASE ~(StillGlob(sub, path) \/ path \in DOMAIN sub.links)
  <2>1. t = [r EXCEPT !.stray = r.stray \cup {path}]
    BY <1>1, <1>5, Zenon
  <2>2. r \in Subscriptions /\ r.stray \cup {path} \in SUBSET Paths
    BY <1>2, Zenon DEF WellFormed, Subscriptions
  <2>3. /\ t \in Subscriptions /\ t.inc = r.inc /\ t.hash = r.hash /\ t.pattern = r.pattern
        /\ t.wakeStream = r.wakeStream /\ t.links = r.links /\ t.stray = r.stray \cup {path}
        /\ t.wake = r.wake /\ t.live = r.live
    BY <2>1, <2>2, Zenon DEF Subscriptions
  <2>4. WellFormed(t)
    BY <1>2, <2>3, Zenon DEF WellFormed
  <2>5. ASSUME Accounted(sub), NEW p \in DOMAIN t.links \ t.stray
        PROVE  t.links[p] = "explicit" \/ StillGlob(t, p)
    <3>1. p # path /\ p \in DOMAIN sub.links \ sub.stray
      BY <1>2, <2>3, Zenon DEF SameButLinks
    <3>2. t.links[p] = sub.links[p] /\ (StillGlob(t, p) <=> StillGlob(sub, p))
      BY <1>2, <1>3, <2>3, <3>1, Zenon DEF StillGlob
    <3> QED
      BY <2>5, <3>1, <3>2, Zenon DEF Accounted
  <2> QED
    BY <1>2, <2>3, <2>4, <2>5, Zenon DEF SameButLinks, Accounted
<1> QED
  BY <1>4, <1>5, Zenon

LEMMA GlobLinkStep ==
  ASSUME ControlInv, GlobLink
  PROVE  ControlInv'
<1>1. /\ glob # NoPath /\ glob' = NoPath
      /\ UNCHANGED <<scene, incs, claims, sealed, wrong, unsealed, excused>>
  BY Zenon DEF GlobLink
<1>2. Counted /\ Stored /\ AllGood /\ wrong = {} /\ unsealed \subseteq excused
  BY Zenon DEF ControlInv
<1>3. CASE Exists
  <2>1. WellFormed(sub) /\ glob \in Paths
    BY <1>1, <1>2, <1>3, Zenon DEF Stored
  <2>2. /\ Disturb(NoPath, Idle)
        /\ sub' = IF StillGlob(sub, glob) \/ glob \in DOMAIN sub.links THEN Linked(glob, "glob")
                  ELSE [Linked(glob, "glob") EXCEPT !.stray = @ \cup {glob}]
    BY <1>3, Zenon DEF GlobLink
  <2>3. /\ WellFormed(sub') /\ sub'.inc = sub.inc /\ sub.stray \subseteq sub'.stray
        /\ sub'.wake = sub.wake /\ (Accounted(sub) => Accounted(sub'))
    BY <2>1, <2>2, HookLinks, Zenon
  <2>4. Stored'
    BY <1>1, <1>2, <1>3, <2>3, Zenon DEF Stored, Enforce
  <2>5. Grows
    BY <1>1, <1>2, <2>3 DEF Grows, Follows, Stored, Counted
  <2>6. Counted' /\ AllGood'
    BY <1>2, <2>2, <2>5, DisturbKeeps, ControlAssumption, Zenon
  <2> QED
    BY <1>1, <1>2, <2>4, <2>6, Zenon DEF ControlInv
<1>4. CASE ~Exists
  <2>1. UNCHANGED <<sub, call>>
    BY <1>4, Zenon DEF GlobLink
  <2>2. Same(sub, sub') /\ Grows
    BY <1>1, <1>2, <2>1, SameRefl DEF Grows, Counted
  <2>3. Stored'
    BY <1>1, <1>2, <2>1, Zenon DEF Stored, Exists, Enforce
  <2>4. Counted' /\ AllGood'
    BY <1>2, <2>1, <2>2, NobodyActs, Zenon
  <2> QED
    BY <1>1, <1>2, <2>3, <2>4, Zenon DEF ControlInv
<1> QED
  BY <1>3, <1>4, Zenon

-----------------------------------------------------------------------------
(* The invariant, and what follows from it.                                *)

LEMMA InitialState ==
  ASSUME Init
  PROVE  ControlInv
<1>1. /\ sub = NoSub /\ incs = 0 /\ claims = 0 /\ sealed = {} /\ call = [c \in Slots |-> Idle]
      /\ glob = NoPath /\ wrong = {} /\ unsealed = {} /\ excused = {}
  BY Zenon DEF Init
<1>2. incs \in Nat /\ sub.inc = 0
  BY <1>1, Zenon DEF NoSub
<1>3. Idle \in Calls /\ Good(Idle, sub, incs, claims, sealed, Enforce)
  BY <1>2, IdleIsGood, Zenon
<1>4. \A c \in Slots : call[c] = Idle
  BY <1>1, Zenon
<1>5. Counted
  BY <1>1, <1>3, Zenon DEF Counted
<1>6. AllGood
  BY <1>3, <1>4, Zenon DEF AllGood
<1>7. Stored
  BY <1>1, <1>2 DEF Stored, Exists
<1> QED
  BY <1>1, <1>5, <1>6, <1>7, Zenon DEF ControlInv

LEMMA NextStep ==
  ASSUME ControlInv, [Next]_vars
  PROVE  ControlInv'
<1>1. ASSUME NEW c \in Slots, NEW who \in Callers,
             \/ \E cfg \in Configs : handleCreate(c, who, cfg)
             \/ handleDelete(c, who)
             \/ \E list \in PathLists : handleAddStreams(c, who, list)
             \/ \E p \in Paths : handleRemoveStream(c, who, p)
             \/ handleClaim(c, who)
      PROVE  ControlInv'
  BY <1>1, CreateStep, DeleteBegins, AddStreamsBegins, RemoveStreamBegins, ClaimBegins, Zenon
<1>2. ASSUME NEW c \in Slots,
             \/ SealStage(c) \/ DeleteStage(c) \/ LinkStage(c)
             \/ UnlinkStage(c) \/ ClaimStage(c) \/ MintStage(c)
      PROVE  ControlInv'
  BY <1>2, SealStep, DeleteStep, LinkStep, UnlinkStep, ClaimStep, MintStep, Zenon
<1>3. CASE EndClaim
  BY <1>3, EndClaimStep, Zenon
<1>4. ASSUME NEW p \in Paths, GlobRead(p)
      PROVE  ControlInv'
  BY <1>4, GlobReadStep, Zenon
<1>5. CASE GlobLink
  BY <1>5, GlobLinkStep, Zenon
<1>6. CASE UNCHANGED vars
  <2>1. UNCHANGED <<scene, sub, incs, claims, sealed, call, glob, wrong, unsealed, excused>>
    BY <1>6, Zenon DEF vars
  <2> QED
    BY <2>1, Zenon DEF ControlInv, Counted, Stored, AllGood, Exists, Enforce
<1> QED
  BY <1>1, <1>2, <1>3, <1>4, <1>5, <1>6, Zenon DEF Next

\* Invariance: through every interleaving of the handlers with each other, with
\* the glob hook and with the ends of claims, what a request in flight read is
\* a subscription it was authorized for, its strays stay strays, the claim it
\* read is sealed before it commits, and nothing it did not see goes unnoticed.
THEOREM Invariance == Spec => []ControlInv
<1>1. Init => ControlInv
  BY InitialState, Zenon
<1>2. ControlInv /\ [Next]_vars => ControlInv'
  BY NextStep, Zenon
<1> QED
  BY <1>1, <1>2, PTL DEF Spec

\* TypeCorrect: the record, the counters and the seals fit together in every
\* reachable state (TypeOK), whatever the callers, the grants and the patterns.
THEOREM TypeCorrect == Spec => []TypeOK
<1>1. ControlInv => TypeOK
  <2> SUFFICES ASSUME ControlInv PROVE TypeOK
    BY Zenon
  <2>1. Counted /\ Stored /\ AllGood
    BY Zenon DEF ControlInv
  <2>2. sub.inc \in 0 .. incs
    BY <2>1 DEF Counted, Stored
  <2>3. ASSUME Exists
        PROVE  /\ sub.owner \in Callers \cup {Nobody} /\ DOMAIN sub.links \subseteq Paths
               /\ sub.wake \in 0 .. claims /\ (sub.live => sub.wake > 0)
    <3>1. WellFormed(sub) /\ sub.wake <= claims /\ sub \in Subscriptions
      BY <2>1, <2>3, Zenon DEF Stored, WellFormed
    <3>2. sub.owner \in Callers \cup {Nobody} /\ sub.wake \in Nat
      BY <3>1, Zenon DEF Subscriptions
    <3>3. DOMAIN sub.links \subseteq Paths
      BY <3>1, LinksDomain, Zenon
    <3> QED
      BY <2>1, <3>1, <3>2, <3>3 DEF WellFormed, Counted
  <2>4. ASSUME NEW c \in Slots, InFlight(c), Enforce
        PROVE  call[c].expected.inc \in 1 .. incs
    <3>1. Good(call[c], sub, incs, claims, sealed, Enforce) /\ Flying(call[c])
      BY <2>1, <2>4, Zenon DEF AllGood, InFlight, Flying
    <3>2. WellFormed(call[c].expected) /\ call[c].expected.inc <= incs
      BY <2>4, <3>1, Zenon DEF Good, Remembers, Answered
    <3>3. call[c].expected.inc \in Nat /\ call[c].expected.inc > 0
      BY <3>2, WellFormedInc, Zenon
    <3> QED
      BY <2>1, <3>2, <3>3 DEF Counted
  <2> QED
    BY <2>1, <2>2, <2>3, <2>4, Zenon DEF TypeOK, Stored
<1> QED
  BY <1>1, Invariance, PTL

\* EntitledCommits: in enforce mode no control-plane script commits what its
\* caller may not do to the subscription as it is stored when the script runs,
\* although the caller was authorized against an earlier read of it.
THEOREM EntitledCommits == Spec => []CommitsAreEntitled
<1>1. ControlInv => CommitsAreEntitled
  BY Zenon DEF ControlInv, CommitsAreEntitled
<1> QED
  BY <1>1, Invariance, PTL

\* SealedBeforeLost: in either mode, a claim that loses a stream to a delete or a
\* remove-stream was sealed on that stream first, or was granted after the
\* request's read, or (in insecure mode only) was linked to the stream after it.
THEOREM SealedBeforeLost == Spec => []LostClaimsAreSealed
<1>1. ControlInv => LostClaimsAreSealed
  BY Zenon DEF ControlInv, LostClaimsAreSealed
<1> QED
  BY <1>1, Invariance, PTL

\* DeletesAreFinal: the incarnation that a delete read and answered 204 for is
\* never stored again, in either mode.
THEOREM DeletesAreFinal == Spec => []DeleteIsFinal
<1>1. ControlInv => DeleteIsFinal
  BY Zenon DEF ControlInv, AllGood, Good, Answered, DeleteIsFinal
<1> QED
  BY <1>1, Invariance, PTL

\* RefusalsHaveCauses: a script refuses a request over its expectation only when
\* another one changed the owner, the incarnation, the configuration or the
\* linked paths since the request's read.
THEOREM RefusalsHaveCauses == Spec => []RefusalHasACause
<1>1. ControlInv => RefusalHasACause
  BY Zenon DEF ControlInv, AllGood, Good, Answered, RefusalHasACause
<1> QED
  BY <1>1, Invariance, PTL

=============================================================================
