-------------------------- MODULE StreamLogProofs ---------------------------
(***************************************************************************)
(* Proofs about StreamLog: idempotent producers are exact, an answered     *)
(* append is in the log, the scripts implement AppendLog, and a paged read *)
(* sends one contiguous stretch of one incarnation.                        *)
(***************************************************************************)
EXTENDS StreamLog, TLAPS

-----------------------------------------------------------------------------
(* What the invariant says of a log m, apart from the state that holds it *)

IsLog(m) == \E S : m \in Seq(S)

\* A message with a producer comes from a request of a client: what a PUT
\* carries has none.
Attributed(m) ==
    \A i \in 1 .. Len(m) : HasProducer(m[i].req) => m[i].req \in Requests

SameTuple(r, p, epoch, seq) == r.prod = p /\ r.epoch = epoch /\ r.seq = seq

Before(a, b) ==
    \/ a.req.epoch < b.req.epoch
    \/ a.req.epoch = b.req.epoch /\ a.req.seq < b.req.seq
    \/ a.req.epoch = b.req.epoch /\ a.req.seq = b.req.seq /\ a.part < b.part

Ordered(m) ==
    \A i, j \in 1 .. Len(m) :
       HasProducer(m[i].req) /\ i < j /\ m[i].req.prod = m[j].req.prod =>
          Before(m[i], m[j])

Gapless(m) ==
    \A i \in 1 .. Len(m) : HasProducer(m[i].req) /\ m[i].req.seq > 0 =>
       \E j \in 1 .. Len(m) :
          /\ j < i
          /\ SameTuple(m[j].req, m[i].req.prod, m[i].req.epoch, m[i].req.seq - 1)

\* The producer hash is not behind any message of the log ...
Reached(r, state) ==
    /\ state # NoState
    /\ r.epoch < state[1] \/ (r.epoch = state[1] /\ r.seq <= state[2])

Led(m, P) ==
    \A i \in 1 .. Len(m) :
       HasProducer(m[i].req) => Reached(m[i].req, P[m[i].req.prod])

\* ... and not ahead of the log, while the stream is open.
Logged(m, p, epoch, seq) ==
    \E i \in 1 .. Len(m) : SameTuple(m[i].req, p, epoch, seq)

Covered(m, P) ==
    \A p \in Producers : P[p] # NoState =>
       \A k \in 0 .. P[p][2] : Logged(m, p, P[p][1], k)

Stored(m, cb, r) ==
    IF HasProducer(r)
    THEN cb = Tuple(r) \/ Logged(m, r.prod, r.epoch, r.seq)
    ELSE \A k \in 1 .. Len(r.sizes) :
            \E i \in 1 .. Len(m) : m[i].req = r /\ m[i].part = k

\* n is m with the messages of r after it.
Appends(m, n, r) ==
    /\ Len(m) \in Nat /\ Len(r.sizes) \in Nat
    /\ Len(n) = Len(m) + Len(r.sizes)
    /\ \A i \in 1 .. Len(m) : n[i] = m[i]
    /\ \A i \in 1 .. Len(n) : i > Len(m) => n[i].req = r /\ n[i].part = i - Len(m)

ProducerStates == {NoState} \cup (Nat \X Nat)

\* The producer's state lets r in: r begins an epoch, or follows what was there.
Follows(r, state) ==
    \/ r.seq = 0 /\ (state = NoState \/ r.epoch > state[1])
    \/ state # NoState /\ r.epoch = state[1] /\ r.seq = state[2] + 1

-----------------------------------------------------------------------------
(* The inductive invariant *)

Fields == {"phase", "inc", "ct", "msgs", "tail", "lastSeq", "cb", "expired"}

StreamShape ==
    /\ DOMAIN stream = Fields
    /\ stream.phase \in {"none", "open", "closed"}
    /\ stream.inc \in Nat
    /\ stream.phase = "open" => stream.cb = NoTuple
    /\ IsLog(stream.msgs)

CallShape(call) ==
    \/ call = Idle
    \/ /\ DOMAIN call = {"at", "req", "base", "tries"}
       /\ call.req \in Requests /\ call.at = call.req.kind

CallsShape == /\ calls = [c \in Clients |-> calls[c]]
              /\ \A c \in Clients : CallShape(calls[c])

LogOK(m, P, open) ==
    /\ Attributed(m) /\ Ordered(m) /\ Gapless(m) /\ Led(m, P)
    /\ open => Covered(m, P)

ToldOK(T, m, cb) == \A t \in T : t.req \in Requests /\ Stored(m, cb, t.req)

LogInv ==
    /\ StreamShape /\ CallsShape
    /\ prods \in [Producers -> ProducerStates]
    /\ scene \in DOMAIN Scenes
    /\ LogOK(stream.msgs, prods, stream.phase = "open")
    /\ ToldOK(told, stream.msgs, stream.cb)

-----------------------------------------------------------------------------
(* Requests, producers and frames *)

LEMMA RequestFacts ==
    ASSUME NEW r \in Requests
    PROVE  /\ r.epoch \in Nat /\ r.seq \in Nat /\ r.sizes \in Seq(Nat \ {0})
           /\ Len(r.sizes) \in Nat
           /\ HasProducer(r) => r.prod \in Producers
           /\ r.kind = "append" /\ r.valid => Len(r.sizes) > 0
           /\ r.kind = "close" => Len(r.sizes) = 0
BY RequestAssumption DEF HasProducer

\* ValidateProducer accepts what follows the producer's state, and takes for
\* a duplicate only what is not ahead of it in its own epoch.
LEMMA Validated ==
    ASSUME NEW state \in ProducerStates, NEW r \in Requests
    PROVE  /\ ValidateProducer(state, r.epoch, r.seq) = "accept" => Follows(r, state)
           /\ ValidateProducer(state, r.epoch, r.seq) = "dup" =>
                 state # NoState /\ r.epoch = state[1] /\ r.seq <= state[2]
<1>1. r.epoch \in Nat /\ r.seq \in Nat
  BY RequestFacts
<1>2. CASE state = NoState
  BY <1>1, <1>2 DEF ValidateProducer, Follows
<1>3. CASE state # NoState
  <2>1. state[1] \in Nat /\ state[2] \in Nat
    BY <1>3 DEF ProducerStates
  <2> QED
    BY <1>1, <1>3, <2>1 DEF ValidateProducer, Follows
<1> QED
  BY <1>2, <1>3

LEMMA EmptySequence ==
    ASSUME NEW S
    PROVE  /\ <<>> \in Seq(S)
           /\ \A s \in Seq(S) : s = <<>> <=> Len(s) = 0
OBVIOUS

LEMMA FunctionIsASeq ==
    ASSUME NEW n \in Nat, NEW T, NEW f \in [1 .. n -> T]
    PROVE  f \in Seq(T) /\ Len(f) = n
OBVIOUS

\* buildFrames makes one message per part of the body, in order.
LEMMA FramesAreALog ==
    ASSUME NEW r, NEW base, r.sizes \in Seq(Nat \ {0})
    PROVE  /\ IsLog(BuildFrames(r, base))
           /\ Len(BuildFrames(r, base)) = Len(r.sizes)
           /\ \A i \in 1 .. Len(r.sizes) : /\ BuildFrames(r, base)[i].req = r
                                           /\ BuildFrames(r, base)[i].part = i
<1> DEFINE f == BuildFrames(r, base)
           T == {f[i] : i \in 1 .. Len(r.sizes)}
<1>1. Len(r.sizes) \in Nat
  OBVIOUS
<1>2. f = [i \in 1 .. Len(r.sizes) |-> f[i]]
  BY DEF BuildFrames
<1>3. \A i \in 1 .. Len(r.sizes) : f[i] \in T
  OBVIOUS
<1>4. f \in Seq(T) /\ Len(f) = Len(r.sizes)
  <2>1. PICK n \in Nat : n = Len(r.sizes)
    BY <1>1
  <2>2. f = [i \in 1 .. n |-> f[i]] /\ \A i \in 1 .. n : f[i] \in T
    BY <1>2, <1>3, <2>1
  <2> HIDE DEF f, T
  <2>3. f \in [1 .. n -> T]
    BY <2>2
  <2>4. f \in Seq(T) /\ Len(f) = n
    BY <2>3, FunctionIsASeq, Zenon
  <2> QED
    BY <2>1, <2>4
<1>5. \A i \in 1 .. Len(r.sizes) : f[i].req = r /\ f[i].part = i
  BY DEF BuildFrames
<1> QED
  BY <1>4, <1>5 DEF IsLog

\* The messages of a request are appended after the log as it is.
LEMMA Appending ==
    ASSUME NEW m, IsLog(m), NEW r \in Requests, NEW base
    PROVE  IsLog(m \o BuildFrames(r, base)) /\ Appends(m, m \o BuildFrames(r, base), r)
<1> DEFINE f == BuildFrames(r, base)
<1>1. PICK S : m \in Seq(S)
  BY DEF IsLog
<1>2. r.sizes \in Seq(Nat \ {0}) /\ Len(r.sizes) \in Nat
  BY RequestFacts
<1>3. /\ IsLog(f) /\ Len(f) = Len(r.sizes)
      /\ \A i \in 1 .. Len(r.sizes) : f[i].req = r /\ f[i].part = i
  BY <1>2, FramesAreALog
<1>4. PICK T : f \in Seq(T)
  BY <1>3 DEF IsLog
<1> HIDE DEF f
<1> DEFINE U == S \cup T
<1>5. m \in Seq(U) /\ f \in Seq(U)
  BY <1>1, <1>4
<1> HIDE DEF U
<1>6. /\ m \o f \in Seq(U) /\ Len(m \o f) = Len(m) + Len(f)
      /\ Len(m) \in Nat
      /\ \A i \in 1 .. Len(m) : (m \o f)[i] = m[i]
      /\ \A i \in 1 .. Len(m) + Len(f) : i > Len(m) => (m \o f)[i] = f[i - Len(m)]
  BY <1>5
<1>7. \A i \in 1 .. Len(m \o f) : i > Len(m) => i - Len(m) \in 1 .. Len(r.sizes)
  BY <1>2, <1>3, <1>6
<1>8. IsLog(m \o f)
  BY <1>6 DEF IsLog
<1>9. \A i \in 1 .. Len(m \o f) : i > Len(m) =>
         (m \o f)[i].req = r /\ (m \o f)[i].part = i - Len(m)
  BY <1>3, <1>6, <1>7
<1> QED
  BY <1>2, <1>3, <1>6, <1>8, <1>9 DEF Appends, f

-----------------------------------------------------------------------------
(* An accepted append keeps what the invariant says of the log *)

LEMMA AppendFacts ==
    ASSUME NEW m, NEW n, NEW r \in Requests, Appends(m, n, r)
    PROVE  /\ Len(m) \in Nat /\ Len(n) \in Nat /\ Len(m) <= Len(n)
           /\ \A i \in 1 .. Len(m) : i \in 1 .. Len(n) /\ n[i] = m[i]
           /\ \A i \in 1 .. Len(n) :
                 \/ i \in 1 .. Len(m) /\ n[i] = m[i]
                 \/ i > Len(m) /\ n[i].req = r /\ n[i].part = i - Len(m)
           /\ Len(r.sizes) > 0 => Len(n) \in 1 .. Len(n) /\ n[Len(n)].req = r
<1>1. /\ Len(m) \in Nat /\ Len(r.sizes) \in Nat
      /\ Len(n) = Len(m) + Len(r.sizes)
      /\ \A i \in 1 .. Len(m) : n[i] = m[i]
      /\ \A i \in 1 .. Len(n) : i > Len(m) => n[i].req = r /\ n[i].part = i - Len(m)
  BY DEF Appends
<1> QED
  BY <1>1

LEMMA OldMessage ==
    ASSUME NEW m, NEW n, NEW r \in Requests, Appends(m, n, r), NEW i \in 1 .. Len(m)
    PROVE  i \in 1 .. Len(n) /\ n[i] = m[i]
BY AppendFacts

LEMMA OldOrNew ==
    ASSUME NEW m, NEW n, NEW r \in Requests, Appends(m, n, r), NEW i \in 1 .. Len(n)
    PROVE  \/ i \in 1 .. Len(m) /\ n[i] = m[i]
           \/ i > Len(m) /\ n[i].req = r /\ n[i].part = i - Len(m)
BY AppendFacts

LEMMA AttributedStep ==
    ASSUME NEW m, NEW n, NEW r \in Requests, Appends(m, n, r), Attributed(m)
    PROVE  Attributed(n)
<1> SUFFICES ASSUME NEW i \in 1 .. Len(n), HasProducer(n[i].req)
             PROVE  n[i].req \in Requests
  BY Zenon DEF Attributed
<1>1. \/ i \in 1 .. Len(m) /\ n[i] = m[i]
      \/ i > Len(m) /\ n[i].req = r /\ n[i].part = i - Len(m)
  BY OldOrNew, Zenon
<1> QED
  BY <1>1, Zenon DEF Attributed

\* What a producer's state lets in comes after all that it has reached.
LEMMA FollowsIsLater ==
    ASSUME NEW state \in ProducerStates, NEW r \in Requests, NEW q \in Requests,
           Follows(r, state), Reached(q, state)
    PROVE  q.epoch < r.epoch \/ (q.epoch = r.epoch /\ q.seq < r.seq)
<1>1. r.epoch \in Nat /\ r.seq \in Nat /\ q.epoch \in Nat /\ q.seq \in Nat
  BY RequestFacts
<1>2. state # NoState
  BY DEF Reached
<1>3. state[1] \in Nat /\ state[2] \in Nat
  BY <1>2 DEF ProducerStates
<1> QED
  BY <1>1, <1>2, <1>3 DEF Follows, Reached

LEMMA OrderedStep ==
    ASSUME NEW m, NEW n, NEW r \in Requests, Appends(m, n, r), Attributed(m),
           NEW P \in [Producers -> ProducerStates], Led(m, P),
           HasProducer(r) => Follows(r, P[r.prod]), Ordered(m)
    PROVE  Ordered(n)
<1>0. \A i \in 1 .. Len(m) : n[i] = m[i]
  BY OldMessage
<1> SUFFICES ASSUME NEW i \in 1 .. Len(n), NEW j \in 1 .. Len(n),
                    HasProducer(n[i].req), i < j, n[i].req.prod = n[j].req.prod
             PROVE  Before(n[i], n[j])
  BY Zenon DEF Ordered
<1>1. Len(m) \in Nat /\ Len(n) \in Nat
  BY AppendFacts
<1>2. CASE i \in 1 .. Len(m) /\ j \in 1 .. Len(m)
  <2>1. n[i] = m[i] /\ n[j] = m[j]
    BY <1>0, <1>2, Zenon
  <2> QED
    BY <1>2, <2>1, Zenon DEF Ordered
<1>3. CASE i \in 1 .. Len(m) /\ j > Len(m)
  <2>1. n[i] = m[i] /\ n[j].req = r
    BY <1>1, <1>3, AppendFacts
  <2>2. m[i].req \in Requests /\ Reached(m[i].req, P[m[i].req.prod])
    BY <1>3, <2>1, Zenon DEF Attributed, Led
  <2>3. HasProducer(r) /\ r.prod \in Producers
    BY <2>1, RequestFacts, Zenon DEF HasProducer
  <2>4. m[i].req.prod = r.prod /\ P[r.prod] \in ProducerStates
    BY <2>1, <2>3, Zenon
  <2>5. \/ m[i].req.epoch < r.epoch
        \/ m[i].req.epoch = r.epoch /\ m[i].req.seq < r.seq
    BY <2>2, <2>3, <2>4, FollowsIsLater, Zenon
  <2> QED
    BY <2>1, <2>5, Zenon DEF Before
<1>4. CASE i > Len(m) /\ j > Len(m)
  <2>1. /\ n[i].req = r /\ n[i].part = i - Len(m)
        /\ n[j].req = r /\ n[j].part = j - Len(m)
    BY <1>1, <1>4, AppendFacts
  <2>2. i - Len(m) < j - Len(m)
    BY <1>1
  <2> QED
    BY <2>1, <2>2, Zenon DEF Before
<1>5. \/ i \in 1 .. Len(m) /\ j \in 1 .. Len(m)
      \/ i \in 1 .. Len(m) /\ j > Len(m)
      \/ i > Len(m) /\ j > Len(m)
  BY <1>1
<1> QED
  BY <1>2, <1>3, <1>4, <1>5, Zenon

\* The predecessor of what follows a producer's state is in the log.
LEMMA PredecessorIsLogged ==
    ASSUME NEW m, NEW r \in Requests, HasProducer(r), r.seq > 0,
           NEW P \in [Producers -> ProducerStates], Covered(m, P),
           Follows(r, P[r.prod])
    PROVE  Logged(m, r.prod, r.epoch, r.seq - 1)
<1>1. r.epoch \in Nat /\ r.seq \in Nat /\ r.prod \in Producers
  BY RequestFacts
<1>2. P[r.prod] # NoState /\ r.epoch = P[r.prod][1] /\ r.seq = P[r.prod][2] + 1
  BY <1>1 DEF Follows
<1>3. P[r.prod][2] \in Nat
  BY <1>1, <1>2 DEF ProducerStates
<1>4. r.seq - 1 = P[r.prod][2] /\ P[r.prod][2] \in 0 .. P[r.prod][2]
  BY <1>2, <1>3
<1>5. Logged(m, r.prod, P[r.prod][1], P[r.prod][2])
  BY <1>1, <1>2, <1>4, Zenon DEF Covered
<1> QED
  BY <1>2, <1>4, <1>5, Zenon

LEMMA GaplessStep ==
    ASSUME NEW m, NEW n, NEW r \in Requests, Appends(m, n, r),
           HasProducer(r) /\ r.seq > 0 => Logged(m, r.prod, r.epoch, r.seq - 1),
           Gapless(m)
    PROVE  Gapless(n)
<1> SUFFICES ASSUME NEW i \in 1 .. Len(n), HasProducer(n[i].req), n[i].req.seq > 0
             PROVE  \E j \in 1 .. Len(n) :
                       /\ j < i
                       /\ SameTuple(n[j].req, n[i].req.prod, n[i].req.epoch,
                                    n[i].req.seq - 1)
  BY Zenon DEF Gapless
<1>1. Len(m) \in Nat /\ Len(n) \in Nat
  BY AppendFacts
<1>2. CASE i \in 1 .. Len(m) /\ n[i] = m[i]
  <2>1. PICK j \in 1 .. Len(m) :
           /\ j < i
           /\ SameTuple(m[j].req, m[i].req.prod, m[i].req.epoch, m[i].req.seq - 1)
    BY <1>2, Zenon DEF Gapless
  <2>2. j \in 1 .. Len(n) /\ n[j] = m[j]
    BY OldMessage, Zenon
  <2> QED
    BY <1>2, <2>1, <2>2, Zenon
<1>3. CASE i > Len(m) /\ n[i].req = r
  <2>1. PICK j \in 1 .. Len(m) : SameTuple(m[j].req, r.prod, r.epoch, r.seq - 1)
    BY <1>3, Zenon DEF Logged
  <2>2. j \in 1 .. Len(n) /\ n[j] = m[j]
    BY OldMessage, Zenon
  <2>3. j < i
    BY <1>1, <1>3
  <2> QED
    BY <1>3, <2>1, <2>2, <2>3, Zenon
<1>4. \/ i \in 1 .. Len(m) /\ n[i] = m[i]
      \/ i > Len(m) /\ n[i].req = r /\ n[i].part = i - Len(m)
  BY OldOrNew, Zenon
<1> QED
  BY <1>2, <1>3, <1>4, Zenon

\* The producer hash after append.lua or close.lua has accepted r.
Updated(P, r) == IF HasProducer(r) THEN [P EXCEPT ![r.prod] = <<r.epoch, r.seq>>]
                                   ELSE P

LEMMA UpdatedFacts ==
    ASSUME NEW P \in [Producers -> ProducerStates], NEW r \in Requests
    PROVE  /\ Updated(P, r) \in [Producers -> ProducerStates]
           /\ HasProducer(r) =>
                 /\ r.prod \in Producers
                 /\ Updated(P, r)[r.prod] = <<r.epoch, r.seq>>
           /\ \A p \in Producers : ~HasProducer(r) \/ p # r.prod =>
                 Updated(P, r)[p] = P[p]
<1>1. <<r.epoch, r.seq>> \in ProducerStates /\ (HasProducer(r) => r.prod \in Producers)
  BY RequestFacts DEF ProducerStates
<1> QED
  BY <1>1 DEF Updated

LEMMA SelfReached ==
    ASSUME NEW r \in Requests
    PROVE  Reached(r, <<r.epoch, r.seq>>)
BY RequestFacts DEF Reached, NoState

LEMMA LedUpdate ==
    ASSUME NEW m, NEW r \in Requests, Attributed(m),
           NEW P \in [Producers -> ProducerStates], Led(m, P),
           HasProducer(r) => Follows(r, P[r.prod])
    PROVE  Led(m, Updated(P, r))
<1> SUFFICES ASSUME NEW i \in 1 .. Len(m), HasProducer(m[i].req)
             PROVE  Reached(m[i].req, Updated(P, r)[m[i].req.prod])
  BY Zenon DEF Led
<1>1. PICK q \in Requests : q = m[i].req
  BY Zenon DEF Attributed
<1>2. HasProducer(q) /\ q.prod \in Producers /\ Reached(q, P[q.prod])
  BY <1>1, RequestFacts, Zenon DEF Led
<1>3. CASE HasProducer(r) /\ q.prod = r.prod
  <2>1. q.epoch < r.epoch \/ (q.epoch = r.epoch /\ q.seq < r.seq)
    <3>1. P[r.prod] \in ProducerStates /\ Follows(r, P[r.prod]) /\ Reached(q, P[r.prod])
      BY <1>2, <1>3, Zenon
    <3> QED
      BY <3>1, FollowsIsLater, Zenon
  <2>2. r.epoch \in Nat /\ r.seq \in Nat /\ q.epoch \in Nat /\ q.seq \in Nat
    BY RequestFacts
  <2>3. Reached(q, <<r.epoch, r.seq>>)
    BY <2>1, <2>2 DEF Reached, NoState
  <2>4. Updated(P, r)[r.prod] = <<r.epoch, r.seq>>
    BY <1>3, UpdatedFacts
  <2> QED
    BY <1>1, <1>3, <2>3, <2>4, Zenon
<1>4. CASE ~HasProducer(r) \/ q.prod # r.prod
  <2>1. Updated(P, r)[q.prod] = P[q.prod]
    BY <1>2, <1>4, UpdatedFacts
  <2> QED
    BY <1>1, <1>2, <2>1, Zenon
<1> QED
  BY <1>3, <1>4, Zenon

LEMMA LedStep ==
    ASSUME NEW m, NEW n, NEW r \in Requests, Appends(m, n, r), Attributed(m),
           NEW P \in [Producers -> ProducerStates], Led(m, P),
           HasProducer(r) => Follows(r, P[r.prod])
    PROVE  Led(n, Updated(P, r))
<1>1. Led(m, Updated(P, r))
  BY LedUpdate
<1>2. HasProducer(r) => Reached(r, Updated(P, r)[r.prod])
  BY SelfReached, UpdatedFacts
<1> SUFFICES ASSUME NEW i \in 1 .. Len(n), HasProducer(n[i].req)
             PROVE  Reached(n[i].req, Updated(P, r)[n[i].req.prod])
  BY Zenon DEF Led
<1>3. \/ i \in 1 .. Len(m) /\ n[i] = m[i]
      \/ i > Len(m) /\ n[i].req = r /\ n[i].part = i - Len(m)
  BY OldOrNew, Zenon
<1> QED
  BY <1>1, <1>2, <1>3, Zenon DEF Led

LEMMA LoggedStays ==
    ASSUME NEW m, NEW n, NEW r \in Requests, Appends(m, n, r),
           NEW p, NEW epoch, NEW seq, Logged(m, p, epoch, seq)
    PROVE  Logged(n, p, epoch, seq)
<1>1. PICK i \in 1 .. Len(m) : SameTuple(m[i].req, p, epoch, seq)
  BY Zenon DEF Logged
<1>2. i \in 1 .. Len(n) /\ n[i] = m[i]
  BY OldMessage, Zenon
<1> QED
  BY <1>1, <1>2, Zenon DEF Logged

LEMMA AppendedIsLogged ==
    ASSUME NEW m, NEW n, NEW r \in Requests, Appends(m, n, r), Len(r.sizes) > 0
    PROVE  Logged(n, r.prod, r.epoch, r.seq)
<1>1. Len(n) \in 1 .. Len(n) /\ n[Len(n)].req = r
  BY AppendFacts
<1> QED
  BY <1>1, Zenon DEF Logged, SameTuple

LEMMA CoveredStep ==
    ASSUME NEW m, NEW n, NEW r \in Requests, Appends(m, n, r), Len(r.sizes) > 0,
           NEW P \in [Producers -> ProducerStates], Covered(m, P),
           HasProducer(r) => Follows(r, P[r.prod])
    PROVE  Covered(n, Updated(P, r))
<1>1. \A p, epoch, seq : Logged(m, p, epoch, seq) => Logged(n, p, epoch, seq)
  BY LoggedStays
<1> SUFFICES ASSUME NEW p \in Producers, Updated(P, r)[p] # NoState,
                    NEW k \in 0 .. Updated(P, r)[p][2]
             PROVE  Logged(n, p, Updated(P, r)[p][1], k)
  BY Zenon DEF Covered
<1>2. CASE ~HasProducer(r) \/ p # r.prod
  <2>1. Updated(P, r)[p] = P[p]
    BY <1>2, UpdatedFacts
  <2> QED
    BY <1>1, <2>1, Zenon DEF Covered
<1>3. CASE HasProducer(r) /\ p = r.prod
  <2>1. Updated(P, r)[p] = <<r.epoch, r.seq>>
    BY <1>3, UpdatedFacts
  <2>2. r.epoch \in Nat /\ r.seq \in Nat /\ k \in 0 .. r.seq
    BY <2>1, RequestFacts
  <2>3. Logged(n, p, r.epoch, k)
    <3>1. CASE k = r.seq
      BY <1>3, <3>1, AppendedIsLogged, Zenon
    <3>2. CASE k # r.seq
      <4>1. r.seq # 0
        BY <2>2, <3>2
      <4>2. P[p] # NoState /\ r.epoch = P[p][1] /\ r.seq = P[p][2] + 1
        BY <1>3, <4>1 DEF Follows
      <4>3. P[p][2] \in Nat
        BY <4>2 DEF ProducerStates
      <4>4. k \in 0 .. P[p][2]
        BY <2>2, <3>2, <4>2, <4>3
      <4>5. Logged(m, p, P[p][1], k)
        BY <4>2, <4>4, Zenon DEF Covered
      <4> QED
        BY <1>1, <4>2, <4>5, Zenon
    <3> QED
      BY <3>1, <3>2, Zenon
  <2> QED
    BY <2>1, <2>3
<1> QED
  BY <1>2, <1>3, Zenon

LEMMA TupleFacts ==
    ASSUME NEW r \in Requests, HasProducer(r)
    PROVE  Tuple(r) # NoTuple
BY DEF Tuple, NoTuple, HasProducer

\* What was stored without the help of a closing tuple stays stored.
LEMMA StoredStays ==
    ASSUME NEW m, NEW n, NEW r \in Requests, Appends(m, n, r), NEW cb,
           NEW q \in Requests, Stored(m, NoTuple, q)
    PROVE  Stored(n, cb, q)
<1>1. CASE HasProducer(q)
  <2>1. Logged(m, q.prod, q.epoch, q.seq)
    BY <1>1, TupleFacts, Zenon DEF Stored
  <2>2. Logged(n, q.prod, q.epoch, q.seq)
    BY <2>1, LoggedStays, Zenon
  <2> QED
    BY <1>1, <2>2, Zenon DEF Stored
<1>2. CASE ~HasProducer(q)
  <2>1. \A i \in 1 .. Len(m) : i \in 1 .. Len(n) /\ n[i] = m[i]
    BY OldMessage
  <2>2. \A k \in 1 .. Len(q.sizes) :
           \E i \in 1 .. Len(m) : m[i].req = q /\ m[i].part = k
    BY <1>2, Zenon DEF Stored
  <2>3. \A k \in 1 .. Len(q.sizes) :
           \E i \in 1 .. Len(n) : n[i].req = q /\ n[i].part = k
    BY <2>1, <2>2, Zenon
  <2> QED
    BY <1>2, <2>3, Zenon DEF Stored
<1> QED
  BY <1>1, <1>2, Zenon

LEMMA StoredUnderAnyTuple ==
    ASSUME NEW m, NEW cb, NEW q \in Requests, Stored(m, NoTuple, q)
    PROVE  Stored(m, cb, q)
BY TupleFacts, Zenon DEF Stored

LEMMA AppendedIsStored ==
    ASSUME NEW m, NEW n, NEW r \in Requests, Appends(m, n, r), Len(r.sizes) > 0,
           NEW cb
    PROVE  Stored(n, cb, r)
<1>1. CASE HasProducer(r)
  BY <1>1, AppendedIsLogged, Zenon DEF Stored
<1>2. CASE ~HasProducer(r)
  <2>1. /\ Len(m) \in Nat /\ Len(r.sizes) \in Nat
        /\ Len(n) = Len(m) + Len(r.sizes)
        /\ \A i \in 1 .. Len(n) : i > Len(m) => n[i].req = r /\ n[i].part = i - Len(m)
    BY DEF Appends
  <2>2. ASSUME NEW k \in 1 .. Len(r.sizes)
        PROVE  \E i \in 1 .. Len(n) : n[i].req = r /\ n[i].part = k
    <3>1. /\ Len(m) + k \in 1 .. Len(n) /\ Len(m) + k > Len(m)
          /\ (Len(m) + k) - Len(m) = k
      BY <2>1
    <3>2. n[Len(m) + k].req = r /\ n[Len(m) + k].part = k
      BY <2>1, <3>1
    <3> QED
      BY <3>1, <3>2
  <2> QED
    BY <1>2, <2>2, Zenon DEF Stored
<1> QED
  BY <1>1, <1>2, Zenon

\* A request whose tuple the producer hash covers is stored.
LEMMA DuplicateIsStored ==
    ASSUME NEW m, NEW r \in Requests, HasProducer(r), NEW cb,
           NEW P \in [Producers -> ProducerStates], Covered(m, P),
           ValidateProducer(P[r.prod], r.epoch, r.seq) = "dup"
    PROVE  Stored(m, cb, r)
<1>1. r.prod \in Producers /\ r.seq \in Nat
  BY RequestFacts
<1>2. PICK state \in ProducerStates : state = P[r.prod]
  BY <1>1
<1>3. state # NoState /\ r.epoch = state[1] /\ r.seq <= state[2]
  BY <1>2, Validated
<1>4. state[2] \in Nat
  BY <1>3 DEF ProducerStates
<1>5. r.seq \in 0 .. state[2]
  BY <1>1, <1>3, <1>4
<1>6. Logged(m, r.prod, r.epoch, r.seq)
  BY <1>1, <1>2, <1>3, <1>5, Zenon DEF Covered
<1> QED
  BY <1>6, Zenon DEF Stored

\* A log in which no message has a producer, under a fresh producer hash.
LEMMA FreshLog ==
    ASSUME NEW m, \A i \in 1 .. Len(m) : ~HasProducer(m[i].req), NEW open
    PROVE  LogOK(m, [p \in Producers |-> NoState], open)
BY Zenon DEF LogOK, Attributed, Ordered, Gapless, Led, Covered

-----------------------------------------------------------------------------
(* Every step keeps the invariant *)

LEMMA InvInit == Init => LogInv
<1> SUFFICES ASSUME Init
             PROVE  LogInv
  OBVIOUS
<1>1. stream = Gone /\ told = {} /\ scene \in DOMAIN Scenes
      /\ prods = [p \in Producers |-> NoState] /\ calls = [c \in Clients |-> Idle]
  BY DEF Init
<1>2. IsLog(<<>>)
  BY EmptySequence, Zenon DEF IsLog
<1>3. StreamShape /\ stream.msgs = <<>>
  BY <1>1, <1>2 DEF StreamShape, Fields, Gone
<1>4. CallsShape
  BY <1>1, Zenon DEF CallsShape, CallShape
<1>5. prods \in [Producers -> ProducerStates]
  BY <1>1, Zenon DEF ProducerStates
<1>6. LogOK(stream.msgs, prods, stream.phase = "open")
  <2>1. \A i \in 1 .. Len(stream.msgs) : ~HasProducer(stream.msgs[i].req)
    BY <1>3
  <2> QED
    BY <1>1, <2>1, FreshLog, Zenon
<1>7. ToldOK(told, stream.msgs, stream.cb)
  BY <1>1, Zenon DEF ToldOK
<1> QED
  BY <1>1, <1>3, <1>4, <1>5, <1>6, <1>7, Zenon DEF LogInv

\* A handler returns.
LEMMA ReturnStep ==
    ASSUME CallsShape, NEW c \in Clients, Return(c)
    PROVE  CallsShape'
<1>1. calls' = [d \in Clients |-> IF d = c THEN Idle ELSE calls[d]]
  BY DEF Return, CallsShape
<1> QED
  BY <1>1 DEF CallsShape, CallShape

\* The request of a handler that has reached the store.
LEMMA CallFacts ==
    ASSUME CallsShape, NEW c \in Clients, calls[c].at \in {"append", "close"}
    PROVE  calls[c].req \in Requests /\ calls[c].req.kind = calls[c].at
<1>1. calls[c] # Idle
  BY DEF Idle
<1> QED
  BY <1>1, Zenon DEF CallsShape, CallShape

LEMMA ResetStep ==
    ASSUME LogInv, Reset, CallsShape', UNCHANGED scene
    PROVE  LogInv'
<1>1. /\ stream' = [Gone EXCEPT !.inc = stream.inc] /\ told' = {}
      /\ prods' = [p \in Producers |-> NoState]
  BY DEF Reset
<1>2. IsLog(<<>>)
  BY EmptySequence, Zenon DEF IsLog
<1>3. StreamShape' /\ stream'.msgs = <<>>
  BY <1>1, <1>2, Zenon DEF LogInv, StreamShape, Fields, Gone
<1>4. prods' \in [Producers -> ProducerStates]
  BY <1>1, Zenon DEF ProducerStates
<1>5. LogOK(stream'.msgs, prods', stream'.phase = "open")
  <2>1. \A i \in 1 .. Len(stream'.msgs) : ~HasProducer(stream'.msgs[i].req)
    BY <1>3
  <2> QED
    BY <1>1, <2>1, FreshLog, Zenon
<1>6. ToldOK(told', stream'.msgs, stream'.cb)
  BY <1>1, Zenon DEF ToldOK
<1> QED
  BY <1>3, <1>4, <1>5, <1>6, Zenon DEF LogInv

LEMMA CreateStep ==
    ASSUME LogInv, NEW ct, NEW sizes \in Initials, NEW closed \in BOOLEAN,
           Create(ct, sizes, closed)
    PROVE  LogInv'
<1> DEFINE put == [kind |-> "put", prod |-> NoProducer, sizes |-> sizes]
           frames == BuildFrames(put, 0)
<1>1. /\ stream' = [Gone EXCEPT !.phase = IF closed THEN "closed" ELSE "open",
                                !.inc = stream.inc + 1, !.ct = ct,
                                !.msgs = frames, !.tail = NewTail(frames, 0)]
      /\ prods' = [p \in Producers |-> NoState] /\ told' = {}
      /\ UNCHANGED <<calls, scene>>
  BY DEF Create
<1>2. put.sizes \in Seq(Nat \ {0}) /\ ~HasProducer(put)
  BY RequestAssumption DEF HasProducer
<1> HIDE DEF put
<1>3. /\ IsLog(frames) /\ Len(frames) = Len(put.sizes)
      /\ \A i \in 1 .. Len(put.sizes) : frames[i].req = put
  BY <1>2, FramesAreALog
<1>4. \A i \in 1 .. Len(frames) : ~HasProducer(frames[i].req)
  BY <1>2, <1>3, Zenon
<1> HIDE DEF frames
<1>5. StreamShape' /\ stream'.msgs = frames
  <2>1. stream.inc + 1 \in Nat
    BY DEF LogInv, StreamShape
  <2> QED
    BY <1>1, <1>3, <2>1, Zenon DEF StreamShape, Fields, Gone
<1>6. prods' \in [Producers -> ProducerStates]
  BY <1>1, Zenon DEF ProducerStates
<1>7. LogOK(stream'.msgs, prods', stream'.phase = "open")
  BY <1>1, <1>4, <1>5, FreshLog, Zenon
<1>8. ToldOK(told', stream'.msgs, stream'.cb)
  BY <1>1, Zenon DEF ToldOK
<1>9. CallsShape' /\ scene' \in DOMAIN Scenes
  BY <1>1 DEF CallsShape, LogInv
<1> QED
  BY <1>5, <1>6, <1>7, <1>8, <1>9, Zenon DEF LogInv

\* A step that leaves the stream, the producers and the answers alone.
LEMMA QuietStep ==
    ASSUME LogInv, CallsShape', UNCHANGED <<stream, prods, told, scene>>
    PROVE  LogInv'
BY DEF LogInv, StreamShape

LEMMA ExpiredFields ==
    ASSUME NEW s, DOMAIN s = Fields, NEW t, t = [s EXCEPT !.expired = TRUE]
    PROVE  /\ t.msgs = s.msgs /\ t.cb = s.cb /\ t.inc = s.inc /\ t.phase = s.phase
           /\ DOMAIN t = DOMAIN s
BY DEF Fields

LEMMA ExpireStep ==
    ASSUME LogInv, Expire
    PROVE  LogInv'
<1>1. /\ stream' = [stream EXCEPT !.expired = TRUE]
      /\ UNCHANGED <<prods, calls, told, scene>>
  BY DEF Expire
<1>2. /\ stream'.msgs = stream.msgs /\ stream'.cb = stream.cb
      /\ stream'.inc = stream.inc /\ stream'.phase = stream.phase
      /\ DOMAIN stream' = DOMAIN stream
  <2>1. DOMAIN stream = Fields
    BY Zenon DEF LogInv, StreamShape
  <2> QED
    BY <1>1, <2>1, ExpiredFields, Zenon
<1>4. StreamShape'
  BY <1>2, Zenon DEF LogInv, StreamShape
<1>3. CallsShape'
  BY <1>1 DEF LogInv, CallsShape
<1> QED
  BY <1>1, <1>2, <1>3, <1>4 DEF LogInv

LEMMA ReceiveStep ==
    ASSUME LogInv, NEW c \in Clients, NEW r \in Scenes[scene].requests, Receive(c, r)
    PROVE  LogInv'
<1>1. r \in Requests
  BY Zenon DEF LogInv, Requests
<1>2. PICK call : call = [at |-> r.kind, req |-> r, base |-> stream.tail, tries |-> 0]
  BY Zenon
<1>3. CallShape(call)
  BY <1>1, <1>2 DEF CallShape
<1>4. calls' = [d \in Clients |-> IF d = c THEN call ELSE calls[d]]
  BY <1>2 DEF Receive, LogInv, CallsShape
<1>5. CallsShape'
  BY <1>3, <1>4 DEF LogInv, CallsShape
<1> QED
  BY <1>5, QuietStep DEF Receive

LEMMA RetryShape ==
    ASSUME NEW call, CallShape(call), call # Idle, NEW base, NEW tries
    PROVE  CallShape([call EXCEPT !.base = base, !.tries = tries])
<1>1. PICK new : new = [call EXCEPT !.base = base, !.tries = tries]
  BY Zenon
<1>2. /\ DOMAIN call = {"at", "req", "base", "tries"}
      /\ call.req \in Requests /\ call.at = call.req.kind
  BY Zenon DEF CallShape
<1>3. DOMAIN new = DOMAIN call /\ new.at = call.at /\ new.req = call.req
  BY <1>1, <1>2
<1>4. CallShape(new)
  BY <1>2, <1>3, Zenon DEF CallShape
<1> QED
  BY <1>1, <1>4, Zenon

LEMMA AppendRetryStep ==
    ASSUME LogInv, NEW c \in Clients, AppendRetry(c)
    PROVE  LogInv'
<1>1. CallsShape
  BY DEF LogInv
<1>2. CASE Return(c)
  <2>1. CallsShape' /\ UNCHANGED <<stream, prods, told, scene>>
    BY <1>1, <1>2, ReturnStep, Zenon DEF AppendRetry
  <2> QED
    BY <2>1, QuietStep, Zenon
<1>3. CASE calls' = [calls EXCEPT ![c].base = stream.tail,
                                  ![c].tries = calls[c].tries + 1]
  <2>1. PICK call : call = [calls[c] EXCEPT !.base = stream.tail,
                                            !.tries = calls[c].tries + 1]
    OBVIOUS
  <2>2. calls' = [d \in Clients |-> IF d = c THEN call ELSE calls[d]]
    BY <1>1, <1>3, <2>1 DEF CallsShape
  <2>3. calls[c] # Idle
    BY DEF AppendRetry, Idle
  <2>4. CallShape(call)
    BY <1>1, <2>1, <2>3, RetryShape, Zenon DEF CallsShape
  <2>5. CallsShape'
    BY <1>1, <2>2, <2>4 DEF CallsShape
  <2> QED
    BY <2>5, QuietStep DEF AppendRetry
<1> QED
  BY <1>2, <1>3 DEF AppendRetry

LEMMA AppendRefusedStep ==
    ASSUME LogInv, NEW c \in Clients, AppendRefused(c)
    PROVE  LogInv'
<1>1. /\ CallsShape /\ calls[c].at = "append" /\ Return(c)
      /\ UNCHANGED <<stream, prods, scene>>
  BY DEF LogInv, AppendRefused
<1>2. CallsShape'
  BY <1>1, ReturnStep, Zenon
<1>3. PICK r \in Requests : r = calls[c].req
  BY <1>1, CallFacts
<1>4. CASE UNCHANGED told
  BY <1>1, <1>2, <1>4, QuietStep
<1>5. CASE /\ AppendOutcome(r) = "dup"
           /\ told' = told \cup {[req |-> r, res |-> "dup",
                                  closed |-> stream.phase = "closed"]}
  <2>1. Stored(stream.msgs, stream.cb, r)
    <3>1. CASE stream.phase = "closed"
      <4>1. HasProducer(r) /\ stream.cb = Tuple(r)
        BY <1>5, <3>1 DEF AppendOutcome
      <4> QED
        BY <4>1, Zenon DEF Stored
    <3>2. CASE stream.phase # "closed"
      <4>1. HasProducer(r) /\ ValidateProducer(prods[r.prod], r.epoch, r.seq) = "dup"
        BY <1>5, <3>2 DEF AppendOutcome
      <4>2. stream.phase = "open"
        BY <1>5, <3>2 DEF AppendOutcome, Exists, LogInv, StreamShape
      <4>3. Covered(stream.msgs, prods) /\ prods \in [Producers -> ProducerStates]
        BY <4>2, Zenon DEF LogInv, LogOK
      <4> QED
        BY <4>1, <4>3, DuplicateIsStored, Zenon
    <3> QED
      BY <3>1, <3>2, Zenon
  <2>2. ToldOK(told', stream.msgs, stream.cb)
    BY <1>5, <2>1 DEF LogInv, ToldOK
  <2> QED
    BY <1>1, <1>2, <2>2 DEF LogInv, StreamShape
<1> QED
  BY <1>3, <1>4, <1>5 DEF AppendRefused, Answer

\* What append.lua writes has passed the ladder.
LEMMA Ladder ==
    ASSUME NEW r, AppendOutcome(r) = "write"
    PROVE  /\ Exists /\ stream.phase # "closed" /\ r.valid
           /\ HasProducer(r) => ValidateProducer(prods[r.prod], r.epoch, r.seq) = "accept"
<1> DEFINE producer == IF HasProducer(r)
                       THEN ValidateProducer(prods[r.prod], r.epoch, r.seq)
                       ELSE "accept"
           rest == IF ~r.valid THEN "valonly" ELSE "write"
           sseq == IF r.sseq # 0 /\ r.sseq <= stream.lastSeq THEN "seqconflict" ELSE rest
           open == IF r.ct # stream.ct THEN "ctmismatch"
                   ELSE IF producer # "accept" THEN producer ELSE sseq
           closed == IF HasProducer(r) /\ stream.cb = Tuple(r) THEN "dup" ELSE "closed"
<1>1. AppendOutcome(r) = IF ~Exists THEN "notfound"
                         ELSE IF stream.phase = "closed" THEN closed ELSE open
  BY Zenon DEF AppendOutcome
<1>2. producer # "write"
  BY Zenon DEF ValidateProducer
<1>3. closed # "write"
  BY Zenon
<1> HIDE DEF closed, open
<1>4. Exists /\ stream.phase # "closed" /\ open = "write"
  BY <1>1, <1>3, Zenon
<1> HIDE DEF producer, sseq
<1>5. producer = "accept" /\ sseq = "write"
  BY <1>2, <1>4, Zenon DEF open
<1>6. r.valid
  BY <1>5, Zenon DEF sseq
<1> QED
  BY <1>4, <1>5, <1>6, Zenon DEF producer

LEMMA WriteFacts ==
    ASSUME LogInv, NEW r \in Requests, AppendOutcome(r) = "write"
    PROVE  /\ stream.phase = "open" /\ r.valid
           /\ HasProducer(r) => Follows(r, prods[r.prod])
<1>1. stream.phase = "open" /\ r.valid
  BY Ladder, Zenon DEF Exists, LogInv, StreamShape
<1>2. ASSUME HasProducer(r)
      PROVE  Follows(r, prods[r.prod])
  <2>1. ValidateProducer(prods[r.prod], r.epoch, r.seq) = "accept"
    BY <1>2, Ladder, Zenon
  <2>2. prods[r.prod] \in ProducerStates
    BY <1>2, RequestFacts DEF LogInv
  <2> QED
    BY <2>1, <2>2, Validated
<1> QED
  BY <1>1, <1>2

Committed(s, m, tail, seq, phase, cb) ==
    [s EXCEPT !.msgs = m, !.tail = tail, !.lastSeq = seq, !.phase = phase, !.cb = cb]

LEMMA CommitFields ==
    ASSUME NEW s, DOMAIN s = Fields, NEW m, NEW tail, NEW seq, NEW phase, NEW cb
    PROVE  /\ Committed(s, m, tail, seq, phase, cb).msgs = m
           /\ Committed(s, m, tail, seq, phase, cb).cb = cb
           /\ Committed(s, m, tail, seq, phase, cb).inc = s.inc
           /\ Committed(s, m, tail, seq, phase, cb).phase = phase
           /\ DOMAIN Committed(s, m, tail, seq, phase, cb) = DOMAIN s
BY DEF Fields, Committed

\* What the commit of append.lua does, as a whole.
LEMMA CommitFacts ==
    ASSUME LogInv, NEW c \in Clients, AppendCommit(c)
    PROVE  \E r \in Requests :
              /\ stream.phase = "open" /\ Len(r.sizes) > 0
              /\ HasProducer(r) => Follows(r, prods[r.prod])
              /\ IsLog(stream'.msgs) /\ Appends(stream.msgs, stream'.msgs, r)
              /\ stream'.inc = stream.inc /\ DOMAIN stream' = Fields
              /\ stream'.phase = "closed" \/ (stream'.phase = "open" /\ stream'.cb = NoTuple)
              /\ prods' = Updated(prods, r)
              /\ told' = told \cup {[req |-> r, res |-> "ok", closed |-> r.close]}
<1>1. CallsShape /\ calls[c].at = "append"
  BY DEF LogInv, AppendCommit
<1>3. PICK r \in Requests : r = calls[c].req /\ r.kind = "append"
  BY <1>1, CallFacts
<1>4. PICK n, cb : /\ n = stream.msgs \o BuildFrames(r, calls[c].base)
                   /\ cb = IF r.close /\ HasProducer(r) THEN Tuple(r) ELSE stream.cb
  BY Zenon
<1>5. AppendOutcome(r) = "write"
  BY <1>3 DEF AppendCommit
<1>6. /\ stream.phase = "open" /\ Len(r.sizes) > 0
      /\ HasProducer(r) => Follows(r, prods[r.prod])
  BY <1>3, <1>5, WriteFacts, RequestFacts
<1>7. IsLog(n) /\ Appends(stream.msgs, n, r)
  BY <1>4, Appending, Zenon DEF LogInv, StreamShape
<1>8. /\ stream' = [stream EXCEPT
                       !.msgs = n,
                       !.tail = NewTail(BuildFrames(r, calls[c].base), calls[c].base),
                       !.lastSeq = IF r.sseq # 0 THEN r.sseq ELSE @,
                       !.phase = IF r.close THEN "closed" ELSE @, !.cb = cb]
      /\ prods' = Updated(prods, r)
      /\ told' = told \cup {[req |-> r, res |-> "ok", closed |-> r.close]}
  BY <1>3, <1>4 DEF AppendCommit, Answer, Updated
<1>9. /\ stream'.msgs = n /\ stream'.cb = cb /\ stream'.inc = stream.inc
      /\ stream'.phase = IF r.close THEN "closed" ELSE stream.phase
      /\ DOMAIN stream' = DOMAIN stream
  <2>1. PICK tail, seq, phase :
           /\ phase = IF r.close THEN "closed" ELSE stream.phase
           /\ stream' = Committed(stream, n, tail, seq, phase, cb)
    BY <1>8, Zenon DEF Committed
  <2>2. DOMAIN stream = Fields
    BY Zenon DEF LogInv, StreamShape
  <2>3. /\ stream'.msgs = n /\ stream'.cb = cb /\ stream'.inc = stream.inc
        /\ stream'.phase = phase /\ DOMAIN stream' = DOMAIN stream
    BY <2>1, <2>2, CommitFields
  <2> QED
    BY <2>1, <2>3, Zenon
<1>10. stream'.phase = "closed" \/ (stream'.phase = "open" /\ cb = NoTuple)
  BY <1>4, <1>6, <1>9, Zenon DEF LogInv, StreamShape
<1>11. DOMAIN stream = Fields
  BY Zenon DEF LogInv, StreamShape
<1> QED
  BY <1>6, <1>7, <1>8, <1>9, <1>10, <1>11, Zenon

LEMMA AppendCommitStep ==
    ASSUME LogInv, NEW c \in Clients, AppendCommit(c)
    PROVE  LogInv'
<1>1. CallsShape /\ calls[c].at = "append" /\ Return(c) /\ UNCHANGED scene
  BY DEF LogInv, AppendCommit
<1>2. CallsShape'
  BY <1>1, ReturnStep, Zenon
<1>3. PICK n, cb : n = stream'.msgs /\ cb = stream'.cb
  BY Zenon
<1>4. PICK r \in Requests :
         /\ stream.phase = "open" /\ Len(r.sizes) > 0
         /\ HasProducer(r) => Follows(r, prods[r.prod])
         /\ IsLog(n) /\ Appends(stream.msgs, n, r)
         /\ stream'.inc = stream.inc /\ DOMAIN stream' = Fields
         /\ stream'.phase = "closed" \/ (stream'.phase = "open" /\ cb = NoTuple)
         /\ prods' = Updated(prods, r)
         /\ told' = told \cup {[req |-> r, res |-> "ok", closed |-> r.close]}
  BY <1>3, CommitFacts, Zenon
<1>6. /\ stream.phase = "open" /\ Len(r.sizes) > 0
      /\ HasProducer(r) => Follows(r, prods[r.prod])
  BY <1>4, Zenon
<1>7. Appends(stream.msgs, n, r)
  BY <1>4, Zenon
<1>10. StreamShape'
  BY <1>3, <1>4, Zenon DEF LogInv, StreamShape
<1>11. prods' \in [Producers -> ProducerStates]
  BY <1>4, UpdatedFacts, Zenon DEF LogInv
<1>12. LogOK(n, Updated(prods, r), stream'.phase = "open")
  <2>1. /\ Attributed(stream.msgs) /\ Ordered(stream.msgs) /\ Gapless(stream.msgs)
        /\ Led(stream.msgs, prods) /\ Covered(stream.msgs, prods)
        /\ prods \in [Producers -> ProducerStates]
    BY <1>6, Zenon DEF LogInv, LogOK
  <2>2. Attributed(n)
    BY <1>7, <2>1, AttributedStep, Zenon
  <2>3. Ordered(n)
    BY <1>6, <1>7, <2>1, OrderedStep, Zenon
  <2>4. HasProducer(r) /\ r.seq > 0 =>
           Logged(stream.msgs, r.prod, r.epoch, r.seq - 1)
    BY <1>6, <2>1, PredecessorIsLogged, Zenon
  <2>5. Gapless(n)
    BY <1>7, <2>1, <2>4, GaplessStep, Zenon
  <2>6. Led(n, Updated(prods, r))
    BY <1>6, <1>7, <2>1, LedStep, Zenon
  <2>7. Covered(n, Updated(prods, r))
    BY <1>6, <1>7, <2>1, CoveredStep, Zenon
  <2> QED
    BY <2>2, <2>3, <2>5, <2>6, <2>7, Zenon DEF LogOK
<1>13. ToldOK(told', n, cb)
  <2>1. stream.cb = NoTuple
    BY <1>6, Zenon DEF LogInv, StreamShape
  <2>2. \A t \in told : t.req \in Requests /\ Stored(stream.msgs, NoTuple, t.req)
    BY <2>1, Zenon DEF LogInv, ToldOK
  <2>3. \A q \in Requests : Stored(stream.msgs, NoTuple, q) => Stored(n, cb, q)
    BY <1>7, StoredStays, Zenon
  <2>4. Stored(n, cb, r)
    BY <1>6, <1>7, AppendedIsStored, Zenon
  <2> QED
    BY <1>4, <2>2, <2>3, <2>4 DEF ToldOK
<1> QED
  BY <1>1, <1>2, <1>3, <1>4, <1>10, <1>11, <1>12, <1>13 DEF LogInv

\* close.lua closes an open stream.
LEMMA ClosingStep ==
    ASSUME LogInv, CallsShape', UNCHANGED scene, NEW r \in Requests,
           stream.phase = "open", Len(r.sizes) = 0,
           HasProducer(r) => Follows(r, prods[r.prod]),
           stream' = [stream EXCEPT !.phase = "closed",
                                    !.cb = IF HasProducer(r) THEN Tuple(r) ELSE @],
           prods' = Updated(prods, r),
           told' = told \cup {[req |-> r, res |-> "ok", closed |-> TRUE]}
    PROVE  LogInv'
<1>1. PICK cb : cb = IF HasProducer(r) THEN Tuple(r) ELSE stream.cb
  BY Zenon
<1>2. /\ stream'.msgs = stream.msgs /\ stream'.cb = cb /\ stream'.inc = stream.inc
      /\ stream'.phase = "closed" /\ DOMAIN stream' = DOMAIN stream
  BY <1>1 DEF LogInv, StreamShape, Fields
<1>3. StreamShape'
  BY <1>2 DEF LogInv, StreamShape
<1>4. prods' \in [Producers -> ProducerStates]
  BY UpdatedFacts, Zenon DEF LogInv
<1>5. LogOK(stream.msgs, Updated(prods, r), FALSE)
  <2>1. /\ Attributed(stream.msgs) /\ Ordered(stream.msgs) /\ Gapless(stream.msgs)
        /\ Led(stream.msgs, prods) /\ prods \in [Producers -> ProducerStates]
    BY Zenon DEF LogInv, LogOK
  <2>2. Led(stream.msgs, Updated(prods, r))
    BY <2>1, LedUpdate, Zenon
  <2> QED
    BY <2>1, <2>2, Zenon DEF LogOK
<1>6. ToldOK(told', stream.msgs, cb)
  <2>1. stream.cb = NoTuple
    BY Zenon DEF LogInv, StreamShape
  <2>2. \A t \in told : t.req \in Requests /\ Stored(stream.msgs, NoTuple, t.req)
    BY <2>1, Zenon DEF LogInv, ToldOK
  <2>3. \A q \in Requests : Stored(stream.msgs, NoTuple, q) => Stored(stream.msgs, cb, q)
    BY StoredUnderAnyTuple, Zenon
  <2>4. Stored(stream.msgs, cb, r)
    BY <1>1 DEF Stored
  <2> QED
    BY <2>2, <2>3, <2>4 DEF ToldOK
<1> QED
  BY <1>2, <1>3, <1>4, <1>5, <1>6, Zenon DEF LogInv

LEMMA CloseStep ==
    ASSUME LogInv, NEW c \in Clients, Close(c)
    PROVE  LogInv'
<1>1. CallsShape /\ calls[c].at = "close" /\ Return(c) /\ UNCHANGED scene
  BY DEF LogInv, Close
<1>2. CallsShape'
  BY <1>1, ReturnStep, Zenon
<1>3. PICK r \in Requests : r = calls[c].req /\ r.kind = "close"
  BY <1>1, CallFacts
<1>4. Len(r.sizes) = 0 /\ prods \in [Producers -> ProducerStates]
  BY <1>3, RequestFacts DEF LogInv
<1> DEFINE outcome == ValidateProducer(prods[r.prod], r.epoch, r.seq)
           closing == ~HasProducer(r) \/ outcome = "accept"
           success == IF stream.phase = "closed"
                      THEN ~HasProducer(r) \/ stream.cb = Tuple(r)
                      ELSE closing \/ outcome = "dup"
           answered == told \cup {[req |-> r, res |-> "ok", closed |-> TRUE]}
<1>5. CASE stream.phase = "open" /\ closing
  <2>1. /\ stream' = [stream EXCEPT !.phase = "closed",
                                    !.cb = IF HasProducer(r) THEN Tuple(r) ELSE @]
        /\ prods' = Updated(prods, r)
        /\ told' = answered
    BY <1>3, <1>5, Zenon DEF Close, Updated, Answer, Exists
  <2>2. HasProducer(r) => Follows(r, prods[r.prod])
    BY <1>4, <1>5, RequestFacts, Validated
  <2> QED
    BY <1>1, <1>2, <1>4, <1>5, <2>1, <2>2, ClosingStep, Zenon
<1>6. CASE ~(stream.phase = "open" /\ closing)
  <2>1. UNCHANGED <<stream, prods>>
    BY <1>3, <1>6, Zenon DEF Close
  <2>2. UNCHANGED told \/ (Exists /\ success /\ told' = answered)
    BY <1>3, Zenon DEF Close, Answer
  <2>3. CASE UNCHANGED told
    BY <1>1, <1>2, <2>1, <2>3, QuietStep
  <2>4. CASE Exists /\ success /\ told' = answered
    <3>1. Stored(stream.msgs, stream.cb, r)
      <4>1. CASE ~HasProducer(r)
        BY <1>4, <4>1 DEF Stored
      <4>2. CASE HasProducer(r) /\ stream.phase = "closed"
        BY <2>4, <4>2, Zenon DEF Stored
      <4>3. CASE HasProducer(r) /\ stream.phase # "closed"
        <5>1. stream.phase = "open" /\ outcome = "dup"
          BY <1>6, <2>4, <4>3, Zenon DEF LogInv, StreamShape, Exists
        <5>2. Covered(stream.msgs, prods)
          BY <5>1, Zenon DEF LogInv, LogOK
        <5> QED
          BY <1>4, <4>3, <5>1, <5>2, DuplicateIsStored, Zenon
      <4> QED
        BY <4>1, <4>2, <4>3, Zenon
    <3>2. ToldOK(told', stream.msgs, stream.cb)
      BY <2>4, <3>1 DEF LogInv, ToldOK
    <3> QED
      BY <1>1, <1>2, <2>1, <3>2 DEF LogInv, StreamShape
  <2> QED
    BY <2>2, <2>3, <2>4, Zenon
<1> QED
  BY <1>5, <1>6, Zenon

\* Every script, retry and read keeps the invariant.
LEMMA InvStep == LogInv /\ [Next]_vars => LogInv'
<1> SUFFICES ASSUME LogInv, [Next]_vars
             PROVE  LogInv'
  OBVIOUS
<1>0. CallsShape
  BY DEF LogInv
<1>1. ASSUME NEW ct \in ContentTypes, NEW sizes \in Initials, NEW closed \in BOOLEAN,
             Create(ct, sizes, closed)
      PROVE  LogInv'
  BY <1>1, CreateStep
<1>2. CASE Delete
  <2>1. Reset /\ CallsShape' /\ UNCHANGED scene
    BY <1>0, <1>2 DEF Delete, CallsShape
  <2> QED
    BY <2>1, ResetStep
<1>3. CASE Expire
  BY <1>3, ExpireStep
<1>4. ASSUME NEW c \in Clients, NEW r \in Scenes[scene].requests, Receive(c, r)
      PROVE  LogInv'
  BY <1>4, ReceiveStep
<1>5. ASSUME NEW c \in Clients, AppendExpired(c) \/ CloseExpired(c)
      PROVE  LogInv'
  <2>1. Reset /\ Return(c) /\ UNCHANGED scene
    BY <1>5, Zenon DEF AppendExpired, CloseExpired
  <2>2. CallsShape'
    BY <1>0, <2>1, ReturnStep, Zenon
  <2> QED
    BY <2>1, <2>2, ResetStep
<1>6. ASSUME NEW c \in Clients,
             AppendRefused(c) \/ AppendRetry(c) \/ AppendCommit(c) \/ Close(c)
      PROVE  LogInv'
  BY <1>6, AppendRefusedStep, AppendRetryStep, AppendCommitStep, CloseStep
<1>7. ASSUME NEW rd \in Scenes[scene].readers,
             (\E offset \in 0 .. stream.tail : ReadFirst(rd, offset)) \/ ReadNext(rd)
      PROVE  LogInv'
  <2>1. UNCHANGED <<stream, prods, calls, told, scene>>
    BY <1>7, Zenon DEF ReadFirst, ReadNext
  <2>2. CallsShape'
    BY <1>0, <2>1 DEF CallsShape
  <2> QED
    BY <2>1, <2>2, QuietStep
<1>8. ASSUME NEW rd \in Scenes[scene].readers, ReadExpired(rd)
      PROVE  LogInv'
  <2>1. Reset /\ UNCHANGED <<calls, scene>>
    BY <1>8, Zenon DEF ReadExpired
  <2>2. CallsShape'
    BY <1>0, <2>1 DEF CallsShape
  <2> QED
    BY <2>1, <2>2, ResetStep
<1>9. CASE UNCHANGED vars
  <2>1. UNCHANGED <<stream, prods, calls, told, scene>>
    BY <1>9 DEF vars
  <2>2. CallsShape'
    BY <1>0, <2>1 DEF CallsShape
  <2> QED
    BY <2>1, <2>2, QuietStep
<1> QED
  BY <1>1, <1>2, <1>3, <1>4, <1>5, <1>6, <1>7, <1>8, <1>9, Zenon DEF Next

LEMMA Invariance == Spec => []LogInv
BY InvInit, InvStep, PTL DEF Spec

-----------------------------------------------------------------------------
(* The safety properties *)

LEMMA InvImpliesExact == LogInv => ProducerLogIsExact
<1> SUFFICES ASSUME LogInv
             PROVE  ProducerLogIsExact
  OBVIOUS
<1> DEFINE m == stream.msgs
<1>1. Attributed(m) /\ Ordered(m) /\ Gapless(m)
  BY Zenon DEF LogInv, LogOK
<1>2. \A i \in 1 .. Len(m) : Tuple(m[i].req)[1] = m[i].req.prod
                          /\ Tuple(m[i].req)[2] = m[i].req.epoch
                          /\ Tuple(m[i].req)[3] = m[i].req.seq
  BY DEF Tuple
<1>3. ASSUME NEW i \in 1 .. Len(m), NEW j \in 1 .. Len(m), HasProducer(m[i].req),
             HasProducer(m[j].req), i < j, m[i].req.prod = m[j].req.prod
      PROVE  \/ m[i].req.epoch < m[j].req.epoch
             \/ m[i].req.epoch = m[j].req.epoch /\ m[i].req.seq < m[j].req.seq
             \/ Tuple(m[i].req) = Tuple(m[j].req) /\ m[i].part < m[j].part
  BY <1>1, <1>3, Zenon DEF Ordered, Before, Tuple
<1>4. ASSUME NEW i \in 1 .. Len(m), HasProducer(m[i].req), m[i].req.seq > 0
      PROVE  \E j \in {k \in 1 .. Len(m) : HasProducer(m[k].req)} :
                j < i /\ Tuple(m[j].req) = [Tuple(m[i].req) EXCEPT ![3] = @ - 1]
  <2>1. PICK j \in 1 .. Len(m) :
           j < i /\ SameTuple(m[j].req, m[i].req.prod, m[i].req.epoch, m[i].req.seq - 1)
    BY <1>1, <1>4, Zenon DEF Gapless
  <2>2. HasProducer(m[j].req)
    BY <1>4, <2>1, Zenon DEF SameTuple, HasProducer
  <2>3. [Tuple(m[i].req) EXCEPT ![3] = @ - 1] =
           <<m[i].req.prod, m[i].req.epoch, m[i].req.seq - 1>>
    BY DEF Tuple
  <2>4. Tuple(m[j].req) = <<m[i].req.prod, m[i].req.epoch, m[i].req.seq - 1>>
    BY <2>1 DEF SameTuple, Tuple
  <2> QED
    BY <2>1, <2>2, <2>3, <2>4, Zenon
<1> QED
  BY <1>2, <1>3, <1>4, Zenon DEF ProducerLogIsExact

\* Retries, overtaking requests, epoch bumps and closures leave every
\* producer's messages in the log once each, in order and without a gap.
THEOREM ExactProducers == Spec => []ProducerLogIsExact
BY Invariance, InvImpliesExact, PTL

LEMMA InvImpliesStored == LogInv => AnsweredIsStored
<1> SUFFICES ASSUME LogInv, NEW t \in told
             PROVE  IF HasProducer(t.req)
                    THEN \/ stream.cb = Tuple(t.req)
                         \/ \E i \in 1 .. Len(stream.msgs) :
                               /\ HasProducer(stream.msgs[i].req)
                               /\ Tuple(stream.msgs[i].req) = Tuple(t.req)
                    ELSE \A k \in 1 .. Len(t.req.sizes) :
                           \E i \in 1 .. Len(stream.msgs) :
                              stream.msgs[i].req = t.req /\ stream.msgs[i].part = k
  BY Zenon DEF AnsweredIsStored
<1>1. Stored(stream.msgs, stream.cb, t.req)
  BY Zenon DEF LogInv, ToldOK
<1>2. ASSUME HasProducer(t.req), stream.cb # Tuple(t.req)
      PROVE  \E i \in 1 .. Len(stream.msgs) :
                /\ HasProducer(stream.msgs[i].req)
                /\ Tuple(stream.msgs[i].req) = Tuple(t.req)
  <2>1. PICK i \in 1 .. Len(stream.msgs) :
           SameTuple(stream.msgs[i].req, t.req.prod, t.req.epoch, t.req.seq)
    BY <1>1, <1>2, Zenon DEF Stored, Logged
  <2> QED
    BY <1>2, <2>1, Zenon DEF SameTuple, Tuple, HasProducer
<1> QED
  BY <1>1, <1>2, Zenon DEF Stored

\* A client that was told its append succeeded, or was a duplicate, finds its
\* messages in the log for as long as this incarnation lives.
THEOREM AnswersAreTrue == Spec => []AnsweredIsStored
BY Invariance, InvImpliesStored, PTL

-----------------------------------------------------------------------------
(* The scripts implement AppendLog *)

LEMMA RefinementInit == Init => Abstract!LInit
<1> SUFFICES ASSUME Init
             PROVE  Abstract!LInit
  OBVIOUS
<1>1. stream.phase = "none" /\ stream.inc = 0 /\ stream.msgs = <<>>
  BY DEF Init, Gone
<1>2. ~(stream.phase = "closed") /\ Exists = FALSE
  BY <1>1 DEF Exists
<1> QED
  BY <1>1, <1>2, Zenon DEF Abstract!LInit

\* A deleted or expired stream, whoever finds it, leaves an empty dead log.
LEMMA ResetRefines ==
    ASSUME Exists, Reset
    PROVE  Abstract!Remove
<1>1. /\ stream'.msgs = <<>> /\ stream'.phase = "none" /\ stream'.inc = stream.inc
  BY DEF Reset, Gone
<1>2. Exists' = FALSE /\ ~(stream'.phase = "closed")
  BY <1>1 DEF Exists
<1>3. <<stream.inc, Exists>>[1] = stream.inc /\ <<stream.inc, Exists>>[2]
  BY Zenon
<1>4. <<stream'.inc, Exists'>> = <<stream.inc, FALSE>>
  BY <1>1, <1>2, Zenon
<1> QED
  BY <1>1, <1>2, <1>3, <1>4, Zenon DEF Abstract!Remove

LEMMA CommitRefines ==
    ASSUME LogInv, NEW c \in Clients, AppendCommit(c)
    PROVE  Abstract!Write
<1>1. PICK m, n : m = stream.msgs /\ n = stream'.msgs
  BY Zenon
<1>2. PICK r \in Requests :
         /\ stream.phase = "open" /\ Appends(m, n, r)
         /\ stream'.inc = stream.inc /\ stream'.phase \in {"open", "closed"}
  BY <1>1, CommitFacts, Zenon
<1>3. Exists /\ Exists'
  BY <1>2 DEF Exists
<1>4. Len(m) <= Len(n) /\ \A i \in 1 .. Len(m) : n[i] = m[i]
  BY <1>2, AppendFacts
<1>5. <<stream.inc, Exists>>' = <<stream.inc, Exists>> /\ <<stream.inc, Exists>>[2]
  BY <1>2, <1>3
<1>6. ~(stream.phase = "closed")
  BY <1>2
<1> QED
  BY <1>1, <1>4, <1>5, <1>6, Zenon DEF Abstract!Write, Abstract!Extends

\* What a step of the abstract log may not see.
LEMMA StutterRefines ==
    ASSUME stream'.msgs = stream.msgs, stream'.phase = stream.phase,
           stream'.inc = stream.inc
    PROVE  UNCHANGED Abstract!lvars
BY DEF Abstract!lvars, Exists

LEMMA CloseRefines ==
    ASSUME LogInv, NEW c \in Clients, Close(c)
    PROVE  Abstract!Write \/ UNCHANGED Abstract!lvars
<1>1. CASE UNCHANGED stream
  BY <1>1, StutterRefines
<1>2. CASE /\ stream.phase = "open"
           /\ \E cb : stream' = [stream EXCEPT !.phase = "closed", !.cb = cb]
  <2>1. /\ stream'.msgs = stream.msgs /\ stream'.phase = "closed"
        /\ stream'.inc = stream.inc
    BY <1>2 DEF LogInv, StreamShape, Fields
  <2>2. Exists /\ Exists'
    BY <1>2, <2>1 DEF Exists
  <2>3. Len(stream.msgs) \in Nat
    BY DEF LogInv, StreamShape, IsLog
  <2>4. <<stream.inc, Exists>>' = <<stream.inc, Exists>> /\ <<stream.inc, Exists>>[2]
    BY <2>1, <2>2
  <2> QED
    BY <1>2, <2>1, <2>3, <2>4 DEF Abstract!Write, Abstract!Extends
<1> QED
  BY <1>1, <1>2, Zenon DEF Close

LEMMA CreateRefines ==
    ASSUME NEW ct, NEW sizes, NEW closed, Create(ct, sizes, closed)
    PROVE  Abstract!Create
<1>1. PICK phase, n, tail :
         /\ phase = IF closed THEN "closed" ELSE "open"
         /\ n = BuildFrames([kind |-> "put", prod |-> NoProducer, sizes |-> sizes], 0)
         /\ tail = NewTail(n, 0)
  BY Zenon
<1>2. stream' = [Gone EXCEPT !.phase = phase, !.inc = stream.inc + 1, !.ct = ct,
                             !.msgs = n, !.tail = tail]
  BY <1>1, Zenon DEF Create
<1>3. stream'.inc = stream.inc + 1 /\ stream'.phase = phase
  BY <1>2 DEF Gone
<1>4. Exists' = TRUE
  BY <1>1, <1>3 DEF Exists
<1>5. <<stream'.inc, Exists'>> = <<stream.inc + 1, TRUE>>
  BY <1>3, <1>4, Zenon
<1>6. <<stream.inc, Exists>>[1] = stream.inc
  BY Zenon
<1> QED
  BY <1>5, <1>6, Zenon DEF Abstract!Create

LEMMA RefinementStep == LogInv /\ [Next]_vars => [Abstract!LNext]_(Abstract!lvars)
<1> SUFFICES ASSUME LogInv, [Next]_vars
             PROVE  Abstract!LNext \/ UNCHANGED Abstract!lvars
  OBVIOUS
<1>1. ASSUME NEW ct \in ContentTypes, NEW sizes \in Initials, NEW closed \in BOOLEAN,
             Create(ct, sizes, closed)
      PROVE  Abstract!LNext
  BY <1>1, CreateRefines DEF Abstract!LNext
<1>2. ASSUME Exists, Reset
      PROVE  Abstract!LNext
  BY <1>2, ResetRefines DEF Abstract!LNext
<1>3. CASE Expire
  <2>1. DOMAIN stream = Fields /\ stream' = [stream EXCEPT !.expired = TRUE]
    BY <1>3 DEF Expire, LogInv, StreamShape
  <2> QED
    BY <2>1, ExpiredFields, StutterRefines
<1>4. ASSUME NEW c \in Clients, AppendCommit(c)
      PROVE  Abstract!LNext
  BY <1>4, CommitRefines DEF Abstract!LNext
<1>5. ASSUME NEW c \in Clients, Close(c)
      PROVE  Abstract!LNext \/ UNCHANGED Abstract!lvars
  BY <1>5, CloseRefines DEF Abstract!LNext
<1>6. CASE UNCHANGED stream
  BY <1>6, StutterRefines
<1>7. CASE Next
  <2>1. CASE Delete
    BY <1>2, <2>1 DEF Delete
  <2>2. ASSUME NEW c \in Clients,
               (\E r \in Scenes[scene].requests : Receive(c, r))
                  \/ AppendRefused(c) \/ AppendRetry(c)
        PROVE  UNCHANGED stream
    BY <2>2, Zenon DEF Receive, AppendRefused, AppendRetry
  <2>3. ASSUME NEW c \in Clients, AppendExpired(c) \/ CloseExpired(c)
        PROVE  Abstract!LNext
    BY <1>2, <2>3 DEF AppendExpired, CloseExpired
  <2>4. ASSUME NEW rd \in Scenes[scene].readers,
               (\E offset \in 0 .. stream.tail : ReadFirst(rd, offset)) \/ ReadNext(rd)
        PROVE  UNCHANGED stream
    BY <2>4, Zenon DEF ReadFirst, ReadNext
  <2>5. ASSUME NEW rd \in Scenes[scene].readers, ReadExpired(rd)
        PROVE  Abstract!LNext
    BY <1>2, <2>5 DEF ReadExpired
  <2> QED
    BY <1>1, <1>3, <1>4, <1>5, <1>6, <1>7, <2>1, <2>2, <2>3, <2>4, <2>5,
       Zenon DEF Next
<1> QED
  BY <1>6, <1>7 DEF vars

\* The Redis scripts, interleaved in any order with expiry, deletes, retries
\* and paged reads, implement a log that only grows, that is final once
\* closed and that only a new incarnation replaces.
THEOREM Refinement == Spec => ImplementsAppendLog
BY RefinementInit, RefinementStep, Invariance, PTL
DEF Spec, ImplementsAppendLog, Abstract!LSpec

-----------------------------------------------------------------------------
(* Numbers, and what buildFrames adds up *)

\* The facts of the library that the reads rest on: a set of numbers that is
\* not empty has a least one, and the size of an interval.  They are proved
\* at the end of the module, so that the provers need not carry the library's
\* theorems through all the steps before.
Numbers ==
    /\ \A T \in SUBSET Nat : T # {} => \E x \in T : \A y \in T : x <= y
    /\ \A a, b \in Int : Cardinality(a .. b) = IF a > b THEN 0 ELSE b - a + 1
    /\ Cardinality({}) = 0

LEMMA LeastNumber ==
    ASSUME Numbers, NEW T, T \subseteq Nat, T # {}
    PROVE  \E x \in T : \A y \in T : x <= y
BY Zenon DEF Numbers

\* Induction over the numbers up to n, for a set instead of a predicate.
LEMMA UpTo ==
    ASSUME Numbers, NEW n \in Nat, NEW S, 0 \in S,
           \A k \in 1 .. n : k - 1 \in S => k \in S
    PROVE  \A k \in 0 .. n : k \in S
<1> DEFINE T == {k \in 0 .. n : k \notin S}
<1>1. SUFFICES ASSUME T # {} PROVE FALSE
  OBVIOUS
<1>2. PICK x \in T : \A y \in T : x <= y
  <2>1. T \subseteq Nat
    OBVIOUS
  <2> HIDE DEF T
  <2> QED
    BY <1>1, <2>1, LeastNumber, Zenon
<1>3. x \in 1 .. n /\ x - 1 \in 0 .. n /\ ~ (x <= x - 1)
  BY <1>2
<1> QED
  BY <1>2, <1>3

\* f adds up the first n sizes.
IsTotal(f, sizes, n) ==
    /\ f \in [0 .. n -> Nat] /\ f[0] = 0
    /\ \A k \in 1 .. n : f[k] = f[k - 1] + sizes[k]

\* Some function adds them up, by induction on their number ...
LEMMA TotalExists ==
    ASSUME Numbers, NEW sizes \in Seq(Nat \ {0})
    PROVE  \E f : IsTotal(f, sizes, Len(sizes))
<1> DEFINE S == {n \in Nat : \E f : IsTotal(f, sizes, n)}
<1>0. Len(sizes) \in Nat /\ \A k \in 1 .. Len(sizes) : sizes[k] \in Nat
  OBVIOUS
<1>1. 0 \in S
  <2>1. IsTotal([k \in 0 .. 0 |-> 0], sizes, 0)
    BY DEF IsTotal
  <2> QED
    BY <2>1
<1>2. ASSUME NEW n \in 1 .. Len(sizes), n - 1 \in S PROVE n \in S
  <2>1. PICK f : IsTotal(f, sizes, n - 1)
    BY <1>2
  <2> DEFINE g == [k \in 0 .. n |-> IF k = n THEN f[n - 1] + sizes[n] ELSE f[k]]
  <2>a. n - 1 \in 0 .. n - 1 /\ f[n - 1] \in Nat /\ sizes[n] \in Nat
    BY <1>0, <2>1 DEF IsTotal
  <2>b. \A k \in 0 .. n : k # n => k \in 0 .. n - 1 /\ f[k] \in Nat
    BY <1>0, <2>1 DEF IsTotal
  <2>c. g \in [0 .. n -> Nat]
    BY <2>a, <2>b
  <2>d. g[n] = f[n - 1] + sizes[n] /\ \A k \in 0 .. n - 1 : g[k] = f[k]
    BY <1>0
  <2>e. f[0] = 0 /\ \A k \in 1 .. n - 1 : f[k] = f[k - 1] + sizes[k]
    BY <2>1 DEF IsTotal
  <2> HIDE DEF g
  <2>2. IsTotal(g, sizes, n)
    <3>1. g[0] = 0
      BY <2>d, <2>e
    <3>2. ASSUME NEW k \in 1 .. n PROVE g[k] = g[k - 1] + sizes[k]
      BY <2>d, <2>e
    <3> QED
      BY <2>c, <3>1, <3>2 DEF IsTotal
  <2> QED
    BY <1>0, <2>2
<1>3. Len(sizes) \in S
  <2> HIDE DEF S
  <2>1. \A k \in 0 .. Len(sizes) : k \in S
    BY <1>0, <1>1, <1>2, UpTo, Zenon
  <2> QED
    BY <1>0, <2>1
<1> QED
  BY <1>3

\* ... so TotalSize, which is chosen among such functions, does.
LEMMA TotalIsTotal ==
    ASSUME Numbers, NEW sizes \in Seq(Nat \ {0})
    PROVE  IsTotal(TotalSize(sizes), sizes, Len(sizes))
<1> DEFINE n == Len(sizes)
           Eq(t) == t = [i \in 0 .. n |-> IF i = 0 THEN 0 ELSE t[i - 1] + sizes[i]]
<1>0. n \in Nat /\ \A k \in 1 .. n : sizes[k] \in Nat
  OBVIOUS
<1>1. PICK f : IsTotal(f, sizes, n)
  BY TotalExists
<1>2. Eq(f)
  BY <1>0, <1>1 DEF IsTotal
<1>3. TotalSize(sizes) = CHOOSE t : Eq(t)
  BY DEF TotalSize
<1>4. Eq(TotalSize(sizes))
  <2> HIDE DEF Eq
  <2> QED
    BY <1>2, <1>3, Zenon
<1>5. PICK t : t = TotalSize(sizes)
  OBVIOUS
<1>6. DOMAIN t = 0 .. n /\ t[0] = 0 /\ \A k \in 1 .. n : t[k] = t[k - 1] + sizes[k]
  BY <1>0, <1>4, <1>5
<1>7. \A k \in 0 .. n : t[k] \in Nat
  <2> DEFINE S == {k \in Nat : t[k] \in Nat}
  <2>1. 0 \in S
    BY <1>6
  <2>2. \A k \in 1 .. n : k - 1 \in S => k \in S
    BY <1>0, <1>6
  <2>3. \A k \in 0 .. n : k \in S
    <3> HIDE DEF S
    <3> QED
      BY <1>0, <2>1, <2>2, UpTo, Zenon
  <2> QED
    BY <2>3
<1>8. t = [k \in 0 .. n |-> t[k]]
  BY <1>4, <1>5
<1> QED
  BY <1>5, <1>6, <1>7, <1>8, Zenon DEF IsTotal

\* Messages are not empty, so the totals rise.
LEMMA TotalRises ==
    ASSUME Numbers, NEW sizes \in Seq(Nat \ {0}),
           NEW i \in 0 .. Len(sizes), NEW j \in 0 .. Len(sizes), i < j
    PROVE  TotalSize(sizes)[i] < TotalSize(sizes)[j]
<1>0. PICK t : t = TotalSize(sizes)
  OBVIOUS
<1>1. PICK n \in Nat : n = Len(sizes) /\ \A k \in 1 .. n : sizes[k] \in Nat \ {0}
  OBVIOUS
<1>2. /\ \A k \in 0 .. n : t[k] \in Nat
      /\ \A k \in 1 .. n : t[k] = t[k - 1] + sizes[k] /\ sizes[k] \in Nat \ {0}
  <2>1. IsTotal(t, sizes, n)
    BY <1>0, <1>1, TotalIsTotal, Zenon
  <2> QED
    BY <1>1, <2>1, Zenon DEF IsTotal
<1> DEFINE S == {k \in Nat : i < k => t[i] < t[k]}
<1>3. 0 \in S
  BY <1>1
<1>4. ASSUME NEW k \in 1 .. n, k - 1 \in S PROVE k \in S
  <2>1. t[k] = t[k - 1] + sizes[k] /\ sizes[k] \in Nat \ {0} /\ t[k - 1] \in Nat
    BY <1>2, <1>4
  <2>2. t[i] \in Nat /\ (i < k => i < k - 1 \/ i = k - 1)
    BY <1>1, <1>2, <1>4
  <2> QED
    BY <1>1, <1>4, <2>1, <2>2
<1>5. \A k \in 0 .. n : k \in S
  <2> HIDE DEF S
  <2> QED
    BY <1>1, <1>3, <1>4, UpTo, Zenon
<1> QED
  BY <1>0, <1>1, <1>5

-----------------------------------------------------------------------------
(* The layout of the log *)

\* A frame begins where the one before it ends, the first at its base.
Framed(m, base, tail) ==
    /\ base \in Nat /\ tail \in Nat /\ base <= tail /\ Len(m) \in Nat
    /\ \A i \in 1 .. Len(m) :
          /\ m[i].size \in Nat /\ m[i].end \in Nat
          /\ base < m[i].end /\ m[i].end <= tail
          /\ m[i].end = m[i].size + (IF i = 1 THEN base ELSE m[i - 1].end)
    /\ \A i, j \in 1 .. Len(m) : i < j => m[i].end < m[j].end
    /\ tail = IF Len(m) = 0 THEN base ELSE m[Len(m)].end

\* buildFrames lays its frames out from its base.
LEMMA FramesAreFramed ==
    ASSUME Numbers, NEW r, NEW base \in Nat, r.sizes \in Seq(Nat \ {0})
    PROVE  Framed(BuildFrames(r, base), base, NewTail(BuildFrames(r, base), base))
<1>0. PICK t : t = TotalSize(r.sizes)
  OBVIOUS
<1>1. PICK n \in Nat, sizes \in Seq(Nat \ {0}) : sizes = r.sizes /\ n = Len(sizes)
  OBVIOUS
<1>2. /\ t[0] = 0 /\ \A k \in 0 .. n : t[k] \in Nat
      /\ \A k \in 1 .. n : t[k] = t[k - 1] + sizes[k]
  <2>1. IsTotal(t, sizes, n)
    BY <1>0, <1>1, TotalIsTotal, Zenon
  <2> QED
    BY <1>1, <2>1, Zenon DEF IsTotal
<1>3. \A k \in 1 .. n : sizes[k] \in Nat \ {0}
  BY <1>1
<1>4. \A i, j \in 0 .. n : i < j => t[i] < t[j]
  BY <1>0, <1>1, TotalRises, Zenon
<1>5. PICK f : f = BuildFrames(r, base)
  OBVIOUS
<1>6. Len(f) = n
  BY <1>1, <1>5, FramesAreALog, Zenon
<1>7. \A i \in 1 .. n : f[i].size = sizes[i] /\ f[i].end = base + t[i]
  BY <1>0, <1>1, <1>5 DEF BuildFrames
<1>8. \A i \in 1 .. n : f[i].end \in Nat /\ base < f[i].end
  <2> TAKE i \in 1 .. n
  <2>1. i \in 0 .. n /\ 0 \in 0 .. n /\ 0 < i
    OBVIOUS
  <2>2. t[i] \in Nat /\ t[0] < t[i]
    BY <1>2, <1>4, <2>1
  <2> QED
    BY <1>2, <1>7, <2>2
<1>9. ASSUME NEW i \in 1 .. n, NEW j \in 1 .. n, i < j PROVE f[i].end < f[j].end
  <2>1. i \in 0 .. n /\ j \in 0 .. n
    OBVIOUS
  <2>2. t[i] \in Nat /\ t[j] \in Nat /\ t[i] < t[j]
    BY <1>2, <1>4, <1>9, <2>1
  <2> QED
    BY <1>7, <2>2
<1>10. ASSUME NEW i \in 1 .. n
       PROVE  f[i].end = f[i].size + (IF i = 1 THEN base ELSE f[i - 1].end)
  <2>1. t[i] = t[i - 1] + sizes[i] /\ t[i - 1] \in Nat /\ sizes[i] \in Nat
    BY <1>2, <1>3
  <2>2. i # 1 => f[i - 1].end = base + t[i - 1]
    BY <1>7
  <2>3. f[i].size = sizes[i] /\ f[i].end = base + t[i]
    BY <1>7
  <2>4. i = 1 => t[i - 1] = 0
    BY <1>2
  <2> QED
    BY <2>1, <2>2, <2>3, <2>4
<1>11. PICK tail : tail = NewTail(f, base)
  OBVIOUS
<1>12. tail = IF n = 0 THEN base ELSE f[n].end
  <2>1. f = <<>> <=> n = 0
    <3>1. PICK S : f \in Seq(S)
      BY <1>1, <1>5, FramesAreALog, Zenon DEF IsLog
    <3> QED
      BY <1>6, <3>1, EmptySequence, Zenon
  <2> QED
    BY <1>6, <1>11, <2>1 DEF NewTail
<1>13. tail \in Nat /\ base <= tail
  <2>1. n # 0 => n \in 1 .. n
    BY <1>1
  <2> QED
    BY <1>8, <1>12, <2>1
<1>14. \A i \in 1 .. n : f[i].end <= tail
  <2> TAKE i \in 1 .. n
  <2>1. n \in 1 .. n /\ f[i].end \in Nat /\ (i = n \/ i < n)
    BY <1>8
  <2>2. i < n => f[i].end < f[n].end
    BY <1>9, <2>1
  <2> QED
    BY <1>8, <1>12, <2>1, <2>2
<1>15. \A i \in 1 .. n : f[i].size \in Nat
  BY <1>3, <1>7
<1> QED
  BY <1>5, <1>6, <1>8, <1>9, <1>10, <1>11, <1>12, <1>13, <1>14, <1>15 DEF Framed

\* n is m followed by f.
Concatenates(m, f, n) ==
    /\ Len(n) = Len(m) + Len(f)
    /\ \A i \in 1 .. Len(m) : n[i] = m[i]
    /\ \A i \in 1 .. Len(f) : n[Len(m) + i] = f[i]

LEMMA Concatenation ==
    ASSUME NEW m, NEW f, IsLog(m), IsLog(f)
    PROVE  Concatenates(m, f, m \o f)
<1>1. PICK S : m \in Seq(S)
  BY DEF IsLog
<1>2. PICK T : f \in Seq(T)
  BY DEF IsLog
<1> DEFINE U == S \cup T
<1>3. m \in Seq(U) /\ f \in Seq(U)
  BY <1>1, <1>2
<1> HIDE DEF U
<1> QED
  BY <1>3 DEF Concatenates

\* What is framed against the tail continues the log.
LEMMA FramedStep ==
    ASSUME NEW m, NEW f, NEW n, NEW base, NEW mid, NEW tail,
           Framed(m, base, mid), Framed(f, mid, tail), Concatenates(m, f, n)
    PROVE  Framed(n, base, tail)
<1>1. PICK p \in Nat, q \in Nat : p = Len(m) /\ q = Len(f) /\ Len(n) = p + q
  BY DEF Framed, Concatenates
<1>2. /\ base \in Nat /\ mid \in Nat /\ tail \in Nat /\ base <= mid /\ mid <= tail
      /\ mid = IF p = 0 THEN base ELSE m[p].end
      /\ tail = IF q = 0 THEN mid ELSE f[q].end
  BY <1>1 DEF Framed
<1>3. \A i \in 1 .. p : /\ n[i] = m[i] /\ m[i].size \in Nat /\ m[i].end \in Nat
                        /\ base < m[i].end /\ m[i].end <= mid
                        /\ m[i].end = m[i].size + (IF i = 1 THEN base ELSE m[i - 1].end)
  BY <1>1, Zenon DEF Framed, Concatenates
<1>4. \A i \in 1 .. q : /\ n[p + i] = f[i] /\ f[i].size \in Nat /\ f[i].end \in Nat
                        /\ mid < f[i].end /\ f[i].end <= tail
                        /\ f[i].end = f[i].size + (IF i = 1 THEN mid ELSE f[i - 1].end)
  BY <1>1, Zenon DEF Framed, Concatenates
<1>5. /\ \A i, j \in 1 .. p : i < j => m[i].end < m[j].end
      /\ \A i, j \in 1 .. q : i < j => f[i].end < f[j].end
  BY <1>1, Zenon DEF Framed
<1>6. \A i \in 1 .. p + q : i \in 1 .. p \/ \E k \in 1 .. q : i = p + k
  <2> TAKE i \in 1 .. p + q
  <2>1. i > p => i - p \in 1 .. q /\ i = p + (i - p)
    OBVIOUS
  <2> QED
    BY <2>1
<1>7. ASSUME NEW i \in 1 .. p + q
      PROVE  /\ n[i].size \in Nat /\ n[i].end \in Nat
             /\ base < n[i].end /\ n[i].end <= tail
             /\ n[i].end = n[i].size + (IF i = 1 THEN base ELSE n[i - 1].end)
  <2>1. CASE i \in 1 .. p
    <3>1. i # 1 => i - 1 \in 1 .. p
      BY <2>1
    <3>2. i # 1 => n[i - 1] = m[i - 1]
      BY <1>3, <3>1
    <3>3. /\ n[i] = m[i] /\ m[i].size \in Nat /\ m[i].end \in Nat
          /\ base < m[i].end /\ m[i].end <= mid
          /\ m[i].end = m[i].size + (IF i = 1 THEN base ELSE m[i - 1].end)
      BY <1>3, <2>1
    <3>4. m[i].end <= tail
      BY <1>2, <3>3
    <3> QED
      BY <3>2, <3>3, <3>4, Zenon
  <2>2. ASSUME NEW k \in 1 .. q, i = p + k
        PROVE  /\ n[i].size \in Nat /\ n[i].end \in Nat
               /\ base < n[i].end /\ n[i].end <= tail
               /\ n[i].end = n[i].size + (IF i = 1 THEN base ELSE n[i - 1].end)
    <3>1. /\ n[i] = f[k] /\ f[k].size \in Nat /\ f[k].end \in Nat
          /\ mid < f[k].end /\ f[k].end <= tail
          /\ f[k].end = f[k].size + (IF k = 1 THEN mid ELSE f[k - 1].end)
      BY <1>4, <2>2
    <3>2. base < f[k].end
      BY <1>2, <3>1
    <3>3. k # 1 => n[i - 1] = f[k - 1] /\ i # 1
      <4>1. k # 1 => k - 1 \in 1 .. q /\ i - 1 = p + (k - 1) /\ i # 1
        BY <2>2
      <4> QED
        BY <1>4, <4>1
    <3>4. k = 1 => mid = IF i = 1 THEN base ELSE n[i - 1].end
      <4>1. k = 1 => (i = 1 <=> p = 0) /\ i - 1 = p /\ (p # 0 => p \in 1 .. p)
        BY <2>2
      <4> QED
        BY <1>2, <1>3, <4>1, Zenon
    <3> QED
      BY <3>1, <3>2, <3>3, <3>4, Zenon
  <2> QED
    BY <1>6, <2>1, <2>2, Zenon
<1>8. ASSUME NEW i \in 1 .. p + q, NEW j \in 1 .. p + q, i < j
      PROVE  n[i].end < n[j].end
  <2>1. CASE j \in 1 .. p
    <3>1. i \in 1 .. p
      BY <1>8, <2>1
    <3> QED
      BY <1>3, <1>5, <1>8, <2>1, <3>1, Zenon
  <2>2. ASSUME NEW k \in 1 .. q, j = p + k, i \in 1 .. p
        PROVE  n[i].end < n[j].end
    <3>1. n[i] = m[i] /\ m[i].end \in Nat /\ m[i].end <= mid
      BY <1>3, <2>2, Zenon
    <3>2. n[j] = f[k] /\ f[k].end \in Nat /\ mid < f[k].end
      BY <1>4, <2>2, Zenon
    <3>3. m[i].end < f[k].end
      BY <1>2, <3>1, <3>2
    <3> QED
      BY <3>1, <3>2, <3>3, Zenon
  <2>3. ASSUME NEW k \in 1 .. q, j = p + k, NEW l \in 1 .. q, i = p + l
        PROVE  n[i].end < n[j].end
    <3>1. l < k
      BY <1>8, <2>3
    <3> QED
      BY <1>4, <1>5, <2>3, <3>1, Zenon
  <2> QED
    BY <1>6, <2>1, <2>2, <2>3, Zenon
<1>9. tail = IF p + q = 0 THEN base ELSE n[p + q].end
  <2>1. CASE q = 0
    <3>1. p # 0 => p \in 1 .. p
      OBVIOUS
    <3>2. p + q = p
      BY <2>1
    <3> QED
      BY <1>2, <1>3, <2>1, <3>1, <3>2, Zenon
  <2>2. CASE q # 0
    <3>1. q \in 1 .. q /\ p + q # 0
      BY <2>2
    <3> QED
      BY <1>2, <1>4, <2>2, <3>1, Zenon
  <2> QED
    BY <2>1, <2>2, Zenon
<1>10. base <= tail /\ Len(n) \in Nat
  BY <1>1, <1>2
<1> QED
  BY <1>1, <1>2, <1>7, <1>8, <1>9, <1>10, Zenon DEF Framed

LEMMA NothingIsFramed == Framed(<<>>, 0, 0)
BY DEF Framed

\* The ends of a range of numbers.
LEMMA GreatestOfRange ==
    ASSUME NEW a \in Nat, NEW b \in Nat, a <= b
    PROVE  Max(a .. b) = b /\ Min(a .. b) = a
<1>1. b \in a .. b /\ \A y \in a .. b : b >= y
  OBVIOUS
<1>2. a \in a .. b /\ \A y \in a .. b : a <= y
  OBVIOUS
<1>3. \A x \in a .. b : (\A y \in a .. b : x >= y) => x = b
  OBVIOUS
<1>4. \A x \in a .. b : (\A y \in a .. b : x <= y) => x = a
  OBVIOUS
<1>5. Max(a .. b) = b
  BY <1>1, <1>3, Zenon DEF Max
<1>6. Min(a .. b) = a
  BY <1>2, <1>4, Zenon DEF Min
<1> QED
  BY <1>5, <1>6

-----------------------------------------------------------------------------
(* Offsets and pages *)

\* The first n messages of m are those that end by the offset.
Split(m, offset, n) ==
    /\ n \in Nat /\ n <= Len(m)
    /\ \A i \in 1 .. Len(m) : m[i].end <= offset <=> i <= n

\* Every offset splits the log.
LEMMA SplitExists ==
    ASSUME Numbers, NEW m, NEW base, NEW tail, Framed(m, base, tail), NEW offset \in Nat
    PROVE  \E n : Split(m, offset, n)
<1>1. PICK q \in Nat : q = Len(m)
  BY DEF Framed
<1>2. /\ \A i \in 1 .. q : m[i].end \in Nat
      /\ \A i, j \in 1 .. q : i < j => m[i].end < m[j].end
  BY <1>1, Zenon DEF Framed
<1> DEFINE T == {i \in 1 .. q : ~ (m[i].end <= offset)}
<1>3. CASE T = {}
  <2>1. \A i \in 1 .. q : m[i].end <= offset
    BY <1>3
  <2>2. Split(m, offset, q)
    BY <1>1, <2>1 DEF Split
  <2> QED
    BY <2>2
<1>4. CASE T # {}
  <2>1. PICK x \in T : \A y \in T : x <= y
    <3>1. T \subseteq Nat
      OBVIOUS
    <3> HIDE DEF T
    <3> QED
      BY <1>4, <3>1, LeastNumber, Zenon
  <2>2. x \in 1 .. q /\ ~ (m[x].end <= offset)
    OBVIOUS
  <2>3. ASSUME NEW i \in 1 .. q
        PROVE  m[i].end <= offset <=> i <= x - 1
    <3>1. m[i].end <= offset => i < x
      <4>1. i = x \/ i < x \/ x < i
        BY <2>2
      <4>2. x < i => m[x].end < m[i].end
        BY <1>2, <2>2
      <4> QED
        BY <1>2, <2>2, <4>1, <4>2
    <3>2. i < x => m[i].end <= offset
      BY <2>1, <2>2
    <3> QED
      BY <2>2, <3>1, <3>2
  <2>4. Split(m, offset, x - 1)
    BY <1>1, <2>2, <2>3 DEF Split
  <2> QED
    BY <2>4
<1> QED
  BY <1>3, <1>4

\* Where a message ends, the log splits after it.
LEMMA SplitAt ==
    ASSUME NEW m, NEW base, NEW tail, Framed(m, base, tail), NEW j \in 1 .. Len(m)
    PROVE  Split(m, m[j].end, j)
<1>1. PICK q \in Nat : q = Len(m)
  BY DEF Framed
<1>2. /\ \A i \in 1 .. q : m[i].end \in Nat
      /\ \A i, k \in 1 .. q : i < k => m[i].end < m[k].end
  BY <1>1, Zenon DEF Framed
<1>3. ASSUME NEW i \in 1 .. q PROVE m[i].end <= m[j].end <=> i <= j
  <2>1. i = j \/ i < j \/ j < i
    BY <1>1
  <2>2. m[i].end \in Nat /\ m[j].end \in Nat
    BY <1>1, <1>2
  <2>3. j < i => m[j].end < m[i].end
    BY <1>1, <1>2
  <2>4. i < j => m[i].end < m[j].end
    BY <1>1, <1>2
  <2> QED
    BY <1>1, <2>1, <2>2, <2>3, <2>4
<1> QED
  BY <1>1, <1>3 DEF Split

\* The page from next is the messages hi + 1 .. last.
Page(next, tail, hi, last) ==
    /\ hi < last /\ last <= Len(stream.msgs) /\ stream.msgs[last].end <= tail
    /\ PageOf(next, tail) = hi + 1 .. last

\* A page is a stretch of the log: it begins after what was sent, and ends by
\* the tail of the snapshot.
LEMMA PageIsARange ==
    ASSUME Numbers, NEW m, m = stream.msgs, NEW end, Framed(m, 0, end),
           NEW next \in Nat, NEW hi, Split(m, next, hi),
           NEW j \in 1 .. Len(m), next < m[j].end
    PROVE  \E last \in Nat : Page(next, m[j].end, hi, last)
<1>1. PICK q \in Nat, tail \in Nat : q = Len(m) /\ tail = m[j].end /\ j \in 1 .. q
  BY DEF Framed
<1>2. /\ \A i \in 1 .. q : m[i].end \in Nat /\ m[i].size \in Nat
      /\ \A i, k \in 1 .. q : i < k => m[i].end < m[k].end
  BY <1>1, Zenon DEF Framed
<1>3. hi \in Nat /\ hi <= q /\ \A i \in 1 .. q : m[i].end <= next <=> i <= hi
  BY <1>1, Zenon DEF Split
<1>4. \A i \in 1 .. q : m[i].end <= tail <=> i <= j
  BY <1>1, SplitAt, Zenon DEF Split
<1>5. hi < j
  <2>1. ~ (m[j].end <= next)
    BY <1>1
  <2>2. ~ (j <= hi)
    BY <1>1, <1>3, <2>1, Zenon
  <2> QED
    BY <1>1, <1>3, <2>2
<1> DEFINE ahead == {i \in 1 .. q : next < m[i].end /\ m[i].end <= tail}
           first == Min(ahead)
           fits(i) == /\ i < first + PageFrames
                      /\ m[i].end - m[first].end + m[first].size <= PageBytes
<1>6. PageOf(next, tail) = {i \in ahead : i = first \/ fits(i)}
  BY <1>1, Zenon DEF PageOf
<1>7. ahead = hi + 1 .. j
  <2>1. ASSUME NEW i \in 1 .. q PROVE next < m[i].end <=> i >= hi + 1
    BY <1>2, <1>3
  <2>2. \A i \in 1 .. q : (next < m[i].end /\ m[i].end <= tail) <=> i \in hi + 1 .. j
    BY <1>1, <1>3, <1>4, <2>1
  <2>3. \A i \in hi + 1 .. j : i \in 1 .. q
    BY <1>1, <1>3
  <2> QED
    BY <2>2, <2>3, Zenon
<1>8. first = hi + 1
  <2>1. hi + 1 \in Nat /\ j \in Nat /\ hi + 1 <= j
    BY <1>1, <1>3, <1>5
  <2>2. Min(hi + 1 .. j) = hi + 1
    BY <2>1, GreatestOfRange, Zenon
  <2> QED
    BY <1>7, <2>2, Zenon
<1> DEFINE a == hi + 1
           Fits(i) == i < a + PageFrames /\ m[i].end - m[a].end + m[a].size <= PageBytes
<1>9. PageOf(next, tail) = {i \in a .. j : i = a \/ Fits(i)}
  <2> HIDE DEF ahead
  <2>1. \A i : fits(i) <=> Fits(i)
    BY <1>8
  <2> HIDE DEF first, fits, Fits, a
  <2>2. first = a
    BY <1>8 DEF a
  <2>3. ahead = a .. j
    BY <1>7 DEF a
  <2> QED
    BY <1>6, <2>1, <2>2, <2>3, Zenon
<1>10. a \in 1 .. q /\ a <= j /\ PageFrames \in Nat /\ PageBytes \in Nat
  BY <1>1, <1>3, <1>5, RequestAssumption
<1> HIDE DEF a, ahead
<1> DEFINE T == {i \in a + 1 .. j : ~Fits(i)}
<1>11. CASE T = {}
  <2>1. \A i \in a .. j : i = a \/ Fits(i)
    <3>1. \A i \in a .. j : i = a \/ i \in a + 1 .. j
      BY <1>1, <1>10
    <3> HIDE DEF Fits
    <3> QED
      BY <1>11, <3>1
  <2> HIDE DEF Fits
  <2>2. PageOf(next, tail) = a .. j
    BY <1>9, <2>1
  <2>3. hi < j /\ j <= q /\ m[j].end <= tail
    BY <1>1, <1>5
  <2> QED
    <3>1. Page(next, tail, hi, j)
      BY <1>1, <2>2, <2>3, Zenon DEF a, Page
    <3>2. j \in Nat
      BY <1>1
    <3> QED
      BY <1>1, <3>1, <3>2, Zenon
<1>12. CASE T # {}
  <2>1. PICK x \in T : \A y \in T : x <= y
    <3>1. T \subseteq Nat
      BY <1>10
    <3> HIDE DEF T
    <3> QED
      BY <1>12, <3>1, LeastNumber, Zenon
  <2>2. x \in a + 1 .. j /\ ~Fits(x)
    OBVIOUS
  <2>3. ASSUME NEW i \in a .. j PROVE (i = a \/ Fits(i)) <=> i <= x - 1
    <3>1. i \in 1 .. q /\ x \in 1 .. q
      BY <1>1, <1>10, <2>2
    <3>2. m[i].end \in Nat /\ m[x].end \in Nat /\ m[a].end \in Nat /\ m[a].size \in Nat
      BY <1>2, <1>10, <3>1
    <3>3. x < i => m[x].end < m[i].end
      BY <1>2, <3>1
    <3>4. x <= i => ~Fits(i)
      <4>1. ASSUME x < i PROVE ~Fits(i)
        <5>1. x \in Nat /\ i \in Nat /\ a + PageFrames \in Nat /\ PageBytes \in Nat
          BY <1>10, <3>1
        <5>2. ~ (x < a + PageFrames /\ m[x].end - m[a].end + m[a].size <= PageBytes)
          BY <2>2, Zenon
        <5>3. m[x].end < m[i].end
          BY <3>3, <4>1, Zenon
        <5>4. PICK ex \in Nat, ei \in Nat, ea \in Nat, size \in Nat :
                 ex = m[x].end /\ ei = m[i].end /\ ea = m[a].end /\ size = m[a].size
          BY <3>2, Zenon
        <5>5. ~ (x < a + PageFrames /\ ex - ea + size <= PageBytes) /\ ex < ei
          BY <5>2, <5>3, <5>4, Zenon
        <5>6. ~ (i < a + PageFrames /\ ei - ea + size <= PageBytes)
          BY <4>1, <5>1, <5>5
        <5> QED
          BY <5>4, <5>6, Zenon
      <4>2. x = i => ~Fits(i)
        BY <2>2
      <4> QED
        BY <3>1, <4>1, <4>2
    <3>5. i < x /\ i # a => Fits(i)
      <4>1. i # a => i \in a + 1 .. j
        BY <1>1, <1>10
      <4>2. i < x => ~ (x <= i)
        BY <3>1
      <4> HIDE DEF Fits
      <4> QED
        BY <2>1, <4>1, <4>2, Zenon
    <3> HIDE DEF Fits
    <3>6. i = a => i < x
      BY <1>10, <2>2, <3>1
    <3> QED
      BY <3>1, <3>4, <3>5, <3>6
  <2> HIDE DEF Fits
  <2>4. \A i \in a .. j : i <= x - 1 <=> i \in a .. x - 1
    BY <1>1, <1>10, <2>2
  <2>5. \A i \in a .. x - 1 : i \in a .. j
    BY <1>1, <1>10, <2>2
  <2>6. PageOf(next, tail) = a .. x - 1
    BY <1>9, <2>3, <2>4, <2>5, Zenon
  <2>7. x - 1 \in Nat /\ hi < x - 1 /\ x - 1 <= q /\ x - 1 <= j /\ x - 1 \in 1 .. q
    BY <1>1, <1>3, <1>10, <2>2 DEF a
  <2>8. m[x - 1].end <= tail
    BY <1>4, <2>7, Zenon
  <2> QED
    BY <1>1, <2>6, <2>7, <2>8, Zenon DEF a, Page
<1> QED
  BY <1>11, <1>12, Zenon

-----------------------------------------------------------------------------
(* What a session has sent *)

\* n messages of incarnation inc, after the first lo.
Stretch(inc, lo, n) == [k \in 1 .. n |-> <<inc, lo + k>>]

LEMMA StretchIsASeq ==
    ASSUME NEW inc, NEW lo \in Nat, NEW n \in Nat
    PROVE  /\ Stretch(inc, lo, n) \in Seq({inc} \X Nat) /\ Len(Stretch(inc, lo, n)) = n
           /\ \A k \in 1 .. n : Stretch(inc, lo, n)[k] = <<inc, lo + k>>
<1>1. Stretch(inc, lo, n) \in [1 .. n -> {inc} \X Nat]
  BY DEF Stretch
<1>2. Stretch(inc, lo, n) \in Seq({inc} \X Nat) /\ Len(Stretch(inc, lo, n)) = n
  BY <1>1, FunctionIsASeq, Zenon
<1> QED
  BY <1>2 DEF Stretch

LEMMA JoinedSequence ==
    ASSUME NEW S, NEW s \in Seq(S), NEW t \in Seq(S)
    PROVE  /\ s \o t \in Seq(S) /\ Len(s \o t) = Len(s) + Len(t)
           /\ \A i \in 1 .. Len(s) + Len(t) :
                 (s \o t)[i] = IF i <= Len(s) THEN s[i] ELSE t[i - Len(s)]
OBVIOUS

LEMMA EqualSequences ==
    ASSUME NEW S, NEW s \in Seq(S), NEW t \in Seq(S), Len(s) = Len(t),
           \A i \in 1 .. Len(s) : s[i] = t[i]
    PROVE  s = t
OBVIOUS

\* Two stretches that meet are one.
LEMMA StretchGrows ==
    ASSUME NEW inc, NEW lo \in Nat, NEW n \in Nat, NEW p \in Nat
    PROVE  Stretch(inc, lo, n) \o Stretch(inc, lo + n, p) = Stretch(inc, lo, n + p)
<1>1. PICK s, t, u : /\ s = Stretch(inc, lo, n) /\ t = Stretch(inc, lo + n, p)
                     /\ u = Stretch(inc, lo, n + p)
  OBVIOUS
<1> DEFINE U == {inc} \X Nat
<1>2. /\ s \in Seq(U) /\ Len(s) = n
      /\ \A k \in 1 .. n : s[k] = <<inc, lo + k>>
  BY <1>1, StretchIsASeq, Zenon
<1>3. lo + n \in Nat /\ n + p \in Nat
  OBVIOUS
<1>4. /\ t \in Seq(U) /\ Len(t) = p
      /\ \A k \in 1 .. p : t[k] = <<inc, lo + n + k>>
  BY <1>1, <1>3, StretchIsASeq, Zenon
<1>5. /\ u \in Seq(U) /\ Len(u) = n + p
      /\ \A k \in 1 .. n + p : u[k] = <<inc, lo + k>>
  BY <1>1, <1>3, StretchIsASeq, Zenon
<1> HIDE DEF U
<1>6. /\ s \o t \in Seq(U) /\ Len(s \o t) = n + p
      /\ \A k \in 1 .. n : (s \o t)[k] = s[k]
      /\ \A k \in 1 .. n + p : k > n => (s \o t)[k] = t[k - n]
  <2>1. /\ s \o t \in Seq(U) /\ Len(s \o t) = n + p
        /\ \A k \in 1 .. n + p : (s \o t)[k] = IF k <= n THEN s[k] ELSE t[k - n]
    BY <1>2, <1>4, JoinedSequence, Zenon
  <2>2. \A k \in 1 .. n : k \in 1 .. n + p /\ k <= n
    OBVIOUS
  <2>3. \A k \in 1 .. n + p : k > n => ~ (k <= n)
    OBVIOUS
  <2> QED
    BY <2>1, <2>2, <2>3, Zenon
<1>7. ASSUME NEW k \in 1 .. n + p PROVE (s \o t)[k] = u[k]
  <2>1. CASE k <= n
    <3>1. k \in 1 .. n
      BY <2>1
    <3> QED
      BY <1>2, <1>5, <1>6, <3>1, Zenon
  <2>2. CASE k > n
    <3>1. k - n \in 1 .. p /\ lo + n + (k - n) = lo + k
      BY <2>2
    <3>2. t[k - n] = <<inc, lo + n + (k - n)>>
      BY <1>4, <3>1, Zenon
    <3> QED
      BY <1>5, <1>6, <2>2, <3>1, <3>2, Zenon
  <2>3. k <= n \/ k > n
    OBVIOUS
  <2> QED
    BY <2>1, <2>2, <2>3, Zenon
<1>8. s \o t = u
  BY <1>5, <1>6, <1>7, EqualSequences, Zenon
<1> QED
  BY <1>1, <1>8, Zenon

LEMMA StretchTo ==
    ASSUME NEW inc, NEW lo \in Nat, NEW n \in Nat, NEW last \in Nat, lo + n < last
    PROVE  Stretch(inc, lo, n) \o Stretch(inc, lo + n, last - (lo + n)) =
           Stretch(inc, lo, last - lo)
<1> DEFINE p == last - (lo + n)
<1>1. p \in Nat /\ n + p = last - lo
  OBVIOUS
<1> HIDE DEF p
<1>2. Stretch(inc, lo, n) \o Stretch(inc, lo + n, p) = Stretch(inc, lo, n + p)
  BY <1>1, StretchGrows, Zenon
<1> QED
  BY <1>1, <1>2, Zenon DEF p

\* The k-th smallest of a range of numbers.
LEMMA KthOfRange ==
    ASSUME Numbers, NEW hi \in Nat, NEW last \in Nat, hi < last, NEW k \in 1 .. last - hi
    PROVE  KthOf(hi + 1 .. last, k) = hi + k
<1> DEFINE page == hi + 1 .. last
           upTo(i) == {j \in page : j <= i}
<1>1. ASSUME NEW i \in page PROVE Cardinality(upTo(i)) = i - hi
  <2>1. i \in Int /\ hi + 1 \in Int /\ ~ (hi + 1 > i)
    OBVIOUS
  <2>2. upTo(i) = hi + 1 .. i
    OBVIOUS
  <2>3. Cardinality(hi + 1 .. i) = i - (hi + 1) + 1
    BY <2>1, Zenon DEF Numbers
  <2>4. i - (hi + 1) + 1 = i - hi
    BY <2>1
  <2> QED
    BY <2>2, <2>3, <2>4, Zenon
<1>2. hi + k \in page /\ (hi + k) - hi = k
  OBVIOUS
<1>3. \A i \in page : i - hi = k => i = hi + k
  OBVIOUS
<1>4. KthOf(page, k) = CHOOSE i \in page : Cardinality(upTo(i)) = k
  BY Zenon DEF KthOf
<1> HIDE DEF page, upTo
<1>5. Cardinality(upTo(hi + k)) = k
  BY <1>1, <1>2, Zenon
<1>6. \A i \in page : Cardinality(upTo(i)) = k => i = hi + k
  BY <1>1, <1>3, Zenon
<1>7. KthOf(page, k) = hi + k
  BY <1>2, <1>4, <1>5, <1>6, Zenon
<1> QED
  BY <1>7 DEF page

-----------------------------------------------------------------------------
(* What a session has after a page *)

ReadFields == {"at", "inc", "tail", "closed", "from", "next", "sent"}

\* new is read with the messages hi + 1 .. last sent.
Delivered(read, new, hi, last) ==
    /\ DOMAIN new = ReadFields /\ new.inc = read.inc /\ new.tail = read.tail
    /\ new.closed = read.closed /\ new.from = read.from
    /\ new.next = stream.msgs[last].end
    /\ new.at = IF new.next = read.tail THEN "done" ELSE "paging"
    /\ new.sent = read.sent \o Stretch(stream.inc, hi, last - hi)

LEMMA DeliveredRange ==
    ASSUME Numbers, NEW read, DOMAIN read = ReadFields, NEW hi \in Nat, NEW last \in Nat,
           NEW next, Page(next, read.tail, hi, last)
    PROVE  Delivered(read, Deliver(read, PageOf(next, read.tail)), hi, last)
<1>0. hi < last /\ PageOf(next, read.tail) = hi + 1 .. last
  BY Zenon DEF Page
<1>a. PICK new, end : new = Deliver(read, hi + 1 .. last) /\ end = stream.msgs[last].end
  OBVIOUS
<1> DEFINE page == hi + 1 .. last
           list == [k \in 1 .. Cardinality(page) |-> <<stream.inc, KthOf(page, k)>>]
<1>1. page # {} /\ Max(page) = last
  <2>1. hi + 1 \in Nat /\ hi + 1 <= last
    BY <1>0
  <2>2. Max(page) = last
    BY <2>1, GreatestOfRange, Zenon
  <2>3. last \in page
    BY <1>0
  <2> QED
    BY <2>2, <2>3, Zenon
<1>2. Cardinality(page) = last - hi
  <2>1. hi + 1 \in Int /\ last \in Int /\ ~ (hi + 1 > last)
    BY <1>0
  <2>2. Cardinality(page) = last - (hi + 1) + 1
    BY <2>1, Zenon DEF Numbers
  <2> QED
    BY <2>2
<1>3. list = Stretch(stream.inc, hi, last - hi)
  <2>1. \A k \in 1 .. last - hi : KthOf(page, k) = hi + k
    BY <1>0, KthOfRange, Zenon
  <2> HIDE DEF page
  <2> QED
    BY <1>2, <2>1, Zenon DEF Stretch
<1>4. new = [read EXCEPT !.sent = @ \o list, !.next = end,
                         !.at = IF end = read.tail THEN "done" ELSE "paging"]
  BY <1>a, <1>1, Zenon DEF Deliver
<1> HIDE DEF list
<1>5. PICK sent, at : /\ sent = read.sent \o list
                      /\ at = IF end = read.tail THEN "done" ELSE "paging"
  BY Zenon
<1>6. new = [read EXCEPT !.sent = sent, !.next = end, !.at = at]
  BY <1>4, <1>5, Zenon
<1>7. /\ DOMAIN new = ReadFields /\ new.inc = read.inc /\ new.tail = read.tail
      /\ new.closed = read.closed /\ new.from = read.from
      /\ new.next = end /\ new.at = at /\ new.sent = sent
  BY <1>6, Zenon DEF ReadFields
<1> QED
  BY <1>0, <1>a, <1>3, <1>5, <1>7, Zenon DEF Delivered

LEMMA DeliveredNothing ==
    ASSUME Numbers, NEW read, DOMAIN read = ReadFields, NEW S, read.sent \in Seq(S),
           NEW new, new = Deliver(read, {})
    PROVE  /\ DOMAIN new = ReadFields /\ new.inc = read.inc /\ new.tail = read.tail
           /\ new.closed = read.closed /\ new.from = read.from
           /\ new.next = read.tail /\ new.at = "done" /\ new.sent = read.sent
<1> DEFINE list == [k \in 1 .. Cardinality({}) |-> <<stream.inc, KthOf({}, k)>>]
<1>1. new = [read EXCEPT !.sent = @ \o list, !.next = read.tail, !.at = "done"]
  BY Zenon DEF Deliver
<1>2. list = <<>>
  <2>1. Cardinality({}) = 0
    BY Zenon DEF Numbers
  <2> QED
    BY <2>1
<1>3. read.sent \o <<>> = read.sent
  OBVIOUS
<1> HIDE DEF list
<1>4. new = [read EXCEPT !.sent = read.sent, !.next = read.tail, !.at = "done"]
  BY <1>1, <1>2, <1>3, Zenon
<1> QED
  BY <1>4, Zenon DEF ReadFields

-----------------------------------------------------------------------------
(* The invariant of the reads *)

\* The snapshot a session reads is of the stream as it is now.
SameStream(read, s) == s.phase # "none" /\ s.inc = read.inc

\* What was sent is a stretch of the log, from the first message past the
\* offset that was asked for to the last one by the next offset.
Sent(read, s) ==
    \E lo, n \in Nat :
       /\ read.sent = Stretch(read.inc, lo, n)
       /\ SameStream(read, s) =>
             Split(s.msgs, read.from, lo) /\ Split(s.msgs, read.next, lo + n)

\* The tail of the snapshot is the end of a message that is still there, and
\* of the last one if the snapshot said that the stream was closed.
Snapshot(read, s) ==
    SameStream(read, s) =>
       /\ read.next <= read.tail /\ read.tail <= s.tail
       /\ read.tail = 0 \/ \E j \in 1 .. Len(s.msgs) : s.msgs[j].end = read.tail
       /\ read.closed => s.phase = "closed" /\ s.tail = read.tail

ReadShape(read, s) ==
    /\ DOMAIN read = ReadFields
    /\ read.inc \in Nat /\ read.inc <= s.inc
    /\ read.from \in Nat /\ read.next \in Nat /\ read.tail \in Nat
    /\ read.from <= read.next

Session(read, s) ==
    /\ ReadShape(read, s) /\ Sent(read, s) /\ Snapshot(read, s)
    /\ read.at \in {"paging", "done", "changed"}
    /\ read.at = "paging" /\ SameStream(read, s) => read.next < read.tail

\* The invariant of the reads: LogInv, the layout of the log, and that every
\* session is true to the stream it began on.
ReadInv ==
    /\ LogInv
    /\ Framed(stream.msgs, 0, stream.tail)
    /\ reads = [rd \in Readers |-> reads[rd]]
    /\ \A rd \in Readers : reads[rd] = Idle \/ Session(reads[rd], stream)

\* How a step changes the stream: it is removed, begins anew, is closed or
\* expires, or grows while it is open.
Evolves(s, t) ==
    \/ t.phase = "none" /\ t.inc = s.inc /\ t.msgs = <<>> /\ t.tail = 0
    \/ t.inc = s.inc + 1 /\ Framed(t.msgs, 0, t.tail)
    \/ /\ t.inc = s.inc /\ t.msgs = s.msgs /\ t.tail = s.tail
       /\ s.phase = "none" <=> t.phase = "none"
       /\ s.phase = "closed" => t.phase = "closed"
    \/ /\ t.inc = s.inc /\ s.phase = "open"
       /\ \E f : Framed(f, s.tail, t.tail) /\ Concatenates(s.msgs, f, t.msgs)

LEMMA FramedEvolves ==
    ASSUME NEW s, NEW t, Framed(s.msgs, 0, s.tail), Evolves(s, t)
    PROVE  Framed(t.msgs, 0, t.tail)
<1>1. CASE t.msgs = <<>> /\ t.tail = 0
  BY <1>1, NothingIsFramed, Zenon
<1>2. CASE t.msgs = s.msgs /\ t.tail = s.tail
  BY <1>2, Zenon
<1>3. ASSUME NEW f, Framed(f, s.tail, t.tail), Concatenates(s.msgs, f, t.msgs)
      PROVE  Framed(t.msgs, 0, t.tail)
  BY <1>3, FramedStep, Zenon
<1> QED
  BY <1>1, <1>2, <1>3, Zenon DEF Evolves

\* A message of a later page is past every offset that was reached before it.
LEMMA SplitStays ==
    ASSUME NEW m, NEW f, NEW n, NEW mid, NEW tail,
           Framed(m, 0, mid), Framed(f, mid, tail), Concatenates(m, f, n),
           NEW offset \in Nat, offset <= mid, NEW k, Split(m, offset, k)
    PROVE  Split(n, offset, k)
<1>1. PICK p \in Nat, q \in Nat : p = Len(m) /\ q = Len(f) /\ Len(n) = p + q
  BY DEF Framed, Concatenates
<1>2. k \in Nat /\ k <= p /\ \A i \in 1 .. p : m[i].end <= offset <=> i <= k
  BY <1>1, Zenon DEF Split
<1>3. mid \in Nat /\ \A i \in 1 .. q : n[p + i] = f[i] /\ f[i].end \in Nat /\ mid < f[i].end
  BY <1>1, Zenon DEF Framed, Concatenates
<1>4. \A i \in 1 .. p : n[i] = m[i]
  BY <1>1, Zenon DEF Concatenates
<1>5. ASSUME NEW i \in 1 .. p + q PROVE n[i].end <= offset <=> i <= k
  <2>1. CASE i <= p
    <3>1. i \in 1 .. p
      BY <2>1
    <3> QED
      BY <1>2, <1>4, <3>1, Zenon
  <2>2. CASE ~ (i <= p)
    <3>1. i - p \in 1 .. q /\ p + (i - p) = i /\ ~ (i <= k)
      BY <1>2, <2>2
    <3>2. PICK e \in Nat : e = n[i].end /\ mid < e
      BY <1>3, <3>1, Zenon
    <3>3. ~ (e <= offset)
      BY <1>3, <3>2
    <3> QED
      BY <3>1, <3>2, <3>3, Zenon
  <2> QED
    BY <2>1, <2>2, Zenon
<1>6. k <= p + q
  BY <1>2
<1> QED
  BY <1>1, <1>2, <1>5, <1>6, Zenon DEF Split

\* Whatever happens to the stream between two pages, a session stays one.
LEMMA SessionStays ==
    ASSUME NEW s, NEW t, s.inc \in Nat, Framed(s.msgs, 0, s.tail), Evolves(s, t),
           NEW read, Session(read, s)
    PROVE  Session(read, t)
<1>1. /\ DOMAIN read = ReadFields /\ read.at \in {"paging", "done", "changed"}
      /\ read.inc \in Nat /\ read.inc <= s.inc
      /\ read.from \in Nat /\ read.next \in Nat /\ read.tail \in Nat
      /\ read.from <= read.next
      /\ read.at = "paging" /\ SameStream(read, s) => read.next < read.tail
  BY Zenon DEF Session, ReadShape
<1>2. PICK lo \in Nat, n \in Nat :
         /\ read.sent = Stretch(read.inc, lo, n)
         /\ SameStream(read, s) =>
             Split(s.msgs, read.from, lo) /\ Split(s.msgs, read.next, lo + n)
  BY Zenon DEF Session, Sent
<1>3. read.inc <= t.inc
  <2>1. t.inc = s.inc \/ t.inc = s.inc + 1
    BY Zenon DEF Evolves
  <2> QED
    BY <1>1, <2>1
<1>4. ReadShape(read, t)
  BY <1>1, <1>3, Zenon DEF ReadShape
<1>5. CASE ~SameStream(read, t)
  BY <1>1, <1>2, <1>4, <1>5, Zenon DEF Session, Sent, Snapshot
<1>6. CASE SameStream(read, t)
  <2>1. t.phase # "none" /\ t.inc = read.inc
    BY <1>6, Zenon DEF SameStream
  <2>2. t.inc # s.inc + 1
    BY <1>1, <2>1
  <2>3. CASE /\ t.inc = s.inc /\ t.msgs = s.msgs /\ t.tail = s.tail
             /\ s.phase = "none" <=> t.phase = "none"
             /\ s.phase = "closed" => t.phase = "closed"
    <3>1. SameStream(read, s)
      BY <2>1, <2>3, Zenon DEF SameStream
    <3>2. Snapshot(read, t)
      BY <2>3, <3>1, Zenon DEF Session, Snapshot
    <3>3. Sent(read, t)
      BY <1>2, <2>3, <3>1, Zenon DEF Sent
    <3> QED
      BY <1>1, <1>4, <3>1, <3>2, <3>3, Zenon DEF Session
  <2>4. ASSUME NEW f, t.inc = s.inc, s.phase = "open",
               Framed(f, s.tail, t.tail), Concatenates(s.msgs, f, t.msgs)
        PROVE  Session(read, t)
    <3>1. SameStream(read, s)
      BY <2>1, <2>4, Zenon DEF SameStream
    <3>2. /\ read.next <= read.tail /\ read.tail <= s.tail /\ ~read.closed
          /\ read.tail = 0 \/ \E j \in 1 .. Len(s.msgs) : s.msgs[j].end = read.tail
      BY <2>4, <3>1, Zenon DEF Session, Snapshot
    <3>3. s.tail \in Nat /\ t.tail \in Nat /\ s.tail <= t.tail
      BY <2>4, Zenon DEF Framed
    <3>4. read.tail <= t.tail /\ read.next <= s.tail
      <4>1. read.next \in Nat /\ read.tail \in Nat /\ s.tail \in Nat
        BY <1>1, <3>3, Zenon
      <4>2. read.next <= read.tail /\ read.tail <= s.tail
        BY <3>2, Zenon
      <4> QED
        BY <3>3, <4>1, <4>2
    <3>5. read.tail = 0 \/ \E j \in 1 .. Len(t.msgs) : t.msgs[j].end = read.tail
      <4>1. \A j \in 1 .. Len(s.msgs) : j \in 1 .. Len(t.msgs) /\ t.msgs[j] = s.msgs[j]
        <5>1. /\ Len(s.msgs) \in Nat /\ Len(f) \in Nat
              /\ Len(t.msgs) = Len(s.msgs) + Len(f)
          BY <2>4, Zenon DEF Framed, Concatenates
        <5>2. \A j \in 1 .. Len(s.msgs) : j \in 1 .. Len(t.msgs)
          BY <5>1
        <5> QED
          BY <2>4, <5>2, Zenon DEF Concatenates
      <4> QED
        BY <3>2, <4>1, Zenon
    <3>6. Snapshot(read, t)
      BY <3>2, <3>4, <3>5, Zenon DEF Snapshot
    <3>7. read.from <= s.tail
      BY <1>1, <3>3, <3>4
    <3>8. Split(t.msgs, read.from, lo) /\ Split(t.msgs, read.next, lo + n)
      BY <1>1, <1>2, <2>4, <3>1, <3>4, <3>7, SplitStays, Zenon
    <3>9. Sent(read, t)
      BY <1>2, <3>8, Zenon DEF Sent
    <3> QED
      BY <1>1, <1>4, <3>1, <3>6, <3>9, Zenon DEF Session
  <2> QED
    BY <2>1, <2>2, <2>3, <2>4, Zenon DEF Evolves
<1> QED
  BY <1>5, <1>6

\* One more page, empty or not, of the stream that the session reads.
LEMMA DeliverStep ==
    ASSUME Numbers, Framed(stream.msgs, 0, stream.tail), NEW read,
           ReadShape(read, stream), Sent(read, stream), Snapshot(read, stream),
           SameStream(read, stream)
    PROVE  /\ Session(Deliver(read, PageOf(read.next, read.tail)), stream)
           /\ read.next < read.tail => PageOf(read.next, read.tail) # {}
<1>1. /\ DOMAIN read = ReadFields /\ read.inc \in Nat /\ read.inc <= stream.inc
      /\ read.from \in Nat /\ read.next \in Nat /\ read.tail \in Nat
      /\ read.from <= read.next
  BY Zenon DEF ReadShape
<1>2. PICK lo, n :
         /\ lo \in Nat /\ n \in Nat
         /\ read.sent = Stretch(read.inc, lo, n)
         /\ Split(stream.msgs, read.from, lo) /\ Split(stream.msgs, read.next, lo + n)
  BY Zenon DEF Sent
<1>3. /\ read.next <= read.tail /\ read.tail <= stream.tail
      /\ read.tail = 0 \/ \E j \in 1 .. Len(stream.msgs) : stream.msgs[j].end = read.tail
      /\ read.closed => stream.phase = "closed" /\ stream.tail = read.tail
  BY Zenon DEF Snapshot
<1>4. stream.inc = read.inc /\ stream.phase # "none"
  BY Zenon DEF SameStream
<1>5. PICK new : new = Deliver(read, PageOf(read.next, read.tail))
  OBVIOUS
<1>6. CASE read.next = read.tail
  <2>1. PageOf(read.next, read.tail) = {}
    <3>1. \A i \in 1 .. Len(stream.msgs) : stream.msgs[i].end \in Nat
      BY Zenon DEF Framed
    <3>2. \A i \in 1 .. Len(stream.msgs) :
             ~ (read.next < stream.msgs[i].end /\ stream.msgs[i].end <= read.tail)
      BY <1>1, <1>6, <3>1
    <3> QED
      BY <3>2, Zenon DEF PageOf
  <2>2. read.sent \in Seq({read.inc} \X Nat)
    <3>1. PICK inc : inc = read.inc
      OBVIOUS
    <3>0. lo \in Nat /\ n \in Nat
      BY <1>2, Zenon
    <3>2. Stretch(inc, lo, n) \in Seq({inc} \X Nat)
      BY <3>0, StretchIsASeq, Zenon
    <3> QED
      BY <1>2, <3>1, <3>2, Zenon
  <2>3. /\ DOMAIN new = ReadFields /\ new.inc = read.inc /\ new.tail = read.tail
        /\ new.closed = read.closed /\ new.from = read.from
        /\ new.next = read.tail /\ new.at = "done" /\ new.sent = read.sent
    BY <1>1, <1>5, <2>1, <2>2, DeliveredNothing, Zenon
  <2>4. Session(new, stream)
    <3>1. read.tail <= read.tail
      BY <1>1
    <3>2. ReadShape(new, stream)
      BY <1>1, <1>6, <2>3, Zenon DEF ReadShape
    <3>3. Sent(new, stream)
      BY <1>2, <1>6, <2>3, Zenon DEF Sent
    <3>4. Snapshot(new, stream)
      BY <1>3, <2>3, <3>1, Zenon DEF Snapshot
    <3> QED
      BY <2>3, <3>2, <3>3, <3>4, Zenon DEF Session
  <2>5. ~ (read.next < read.tail)
    BY <1>1, <1>6
  <2> QED
    BY <1>5, <2>4, <2>5, Zenon
<1>7. CASE read.next # read.tail
  <2>0. PICK hi \in Nat : hi = lo + n
    BY <1>2
  <2>1. read.next < read.tail /\ read.tail # 0
    BY <1>1, <1>3, <1>7
  <2>2. \E last \in Nat : Page(read.next, read.tail, hi, last)
    <3>1. PICK m, end, j : /\ m = stream.msgs /\ end = stream.tail
                           /\ j \in 1 .. Len(m) /\ m[j].end = read.tail
      BY <1>3, <2>1, Zenon
    <3>2. PICK next : next = read.next
      OBVIOUS
    <3>3. /\ Framed(m, 0, end) /\ Split(m, next, hi) /\ next \in Nat /\ next < m[j].end
      BY <1>1, <1>2, <2>0, <2>1, <3>1, <3>2, Zenon
    <3>4. \E last \in Nat : Page(next, m[j].end, hi, last)
      BY <3>1, <3>3, PageIsARange, Zenon
    <3> QED
      BY <3>1, <3>2, <3>4, Zenon
  <2>3. PICK last \in Nat : Page(read.next, read.tail, hi, last)
    BY <2>2
  <2>4. Delivered(read, new, hi, last)
    BY <1>1, <1>5, <2>3, DeliveredRange, Zenon
  <2>5. /\ hi < last /\ last <= Len(stream.msgs) /\ stream.msgs[last].end <= read.tail
        /\ PageOf(read.next, read.tail) = hi + 1 .. last
    BY <2>3, Zenon DEF Page
  <2>6. last \in 1 .. Len(stream.msgs) /\ PageOf(read.next, read.tail) # {}
    <3>1. Len(stream.msgs) \in Nat
      BY Zenon DEF Framed
    <3>2. last \in hi + 1 .. last /\ last \in 1 .. Len(stream.msgs)
      BY <2>5, <3>1
    <3> QED
      BY <2>5, <3>2, Zenon
  <2>7. Sent(new, stream)
    <3>1. PICK inc : inc = read.inc
      OBVIOUS
    <3>2. new.sent = Stretch(inc, lo, n) \o Stretch(inc, lo + n, last - (lo + n))
      BY <1>2, <1>4, <2>0, <2>4, <3>1, Zenon DEF Delivered
    <3>3. new.sent = Stretch(inc, lo, last - lo)
      BY <1>2, <2>0, <2>5, <3>2, StretchTo, Zenon
    <3>4. last - lo \in Nat /\ lo + (last - lo) = last
      BY <1>2, <2>0, <2>5
    <3>5. Split(stream.msgs, new.next, last)
      BY <2>4, <2>6, SplitAt, Zenon DEF Delivered
    <3>6. new.inc = inc /\ new.from = read.from
      BY <2>4, <3>1, Zenon DEF Delivered
    <3> QED
      BY <1>2, <3>3, <3>4, <3>5, <3>6, Zenon DEF Sent
  <2>8. new.next \in Nat /\ read.next < new.next /\ new.next <= read.tail
    <3>1. new.next = stream.msgs[last].end
      BY <2>4, Zenon DEF Delivered
    <3>2. new.next \in Nat /\ new.next <= read.tail
      BY <2>5, <2>6, <3>1, Zenon DEF Framed
    <3>3. ~ (last <= hi)
      BY <2>5
    <3>4. ~ (new.next <= read.next)
      BY <1>2, <2>0, <2>6, <3>1, <3>3, Zenon DEF Split
    <3> QED
      BY <1>1, <3>2, <3>4
  <2>9. /\ read.from <= new.next
        /\ new.next # read.tail => new.next < read.tail
    BY <1>1, <2>8
  <2>10. /\ DOMAIN new = ReadFields /\ new.inc = read.inc /\ new.tail = read.tail
         /\ new.closed = read.closed /\ new.from = read.from
         /\ new.at = IF new.next = read.tail THEN "done" ELSE "paging"
    BY <2>4, Zenon DEF Delivered
  <2>11. ReadShape(new, stream)
    BY <1>1, <2>8, <2>9, <2>10, Zenon DEF ReadShape
  <2>12. Snapshot(new, stream)
    BY <1>3, <2>8, <2>10, Zenon DEF Snapshot
  <2>13. Session(new, stream)
    BY <2>7, <2>9, <2>10, <2>11, <2>12, Zenon DEF Session
  <2> QED
    BY <1>5, <2>6, <2>13, Zenon
<1> QED
  BY <1>6, <1>7, Zenon

-----------------------------------------------------------------------------
(* Every step changes the stream in one of these ways *)

LEMMA SameEvolves ==
    ASSUME UNCHANGED stream
    PROVE  Evolves(stream, stream')
BY Zenon DEF Evolves

LEMMA ResetEvolves ==
    ASSUME Reset
    PROVE  Evolves(stream, stream')
<1>1. stream' = [Gone EXCEPT !.inc = stream.inc]
  BY Zenon DEF Reset
<1>2. /\ stream'.phase = "none" /\ stream'.inc = stream.inc
      /\ stream'.msgs = <<>> /\ stream'.tail = 0
  BY <1>1, Zenon DEF Gone
<1> QED
  BY <1>2, Zenon DEF Evolves

LEMMA CreateEvolves ==
    ASSUME Numbers, NEW ct, NEW sizes \in Initials, NEW closed \in BOOLEAN, Create(ct, sizes, closed)
    PROVE  Evolves(stream, stream')
<1> DEFINE put == [kind |-> "put", prod |-> NoProducer, sizes |-> sizes]
           frames == BuildFrames(put, 0)
<1>1. stream' = [Gone EXCEPT !.phase = IF closed THEN "closed" ELSE "open",
                             !.inc = stream.inc + 1, !.ct = ct,
                             !.msgs = frames, !.tail = NewTail(frames, 0)]
  BY Zenon DEF Create
<1>2. put.sizes \in Seq(Nat \ {0})
  BY RequestAssumption
<1> HIDE DEF put
<1>3. Framed(frames, 0, NewTail(frames, 0))
  BY <1>2, FramesAreFramed
<1> HIDE DEF frames
<1>4. /\ stream'.inc = stream.inc + 1
      /\ stream'.msgs = frames /\ stream'.tail = NewTail(frames, 0)
  BY <1>1, Zenon DEF Gone
<1> QED
  BY <1>3, <1>4, Zenon DEF Evolves

LEMMA ExpireEvolves ==
    ASSUME LogInv, Expire
    PROVE  Evolves(stream, stream')
<1>1. stream' = [stream EXCEPT !.expired = TRUE] /\ DOMAIN stream = Fields
  BY Zenon DEF Expire, LogInv, StreamShape
<1>2. /\ stream'.phase = stream.phase /\ stream'.inc = stream.inc
      /\ stream'.msgs = stream.msgs /\ stream'.tail = stream.tail
  BY <1>1 DEF Fields
<1> QED
  BY <1>2, Zenon DEF Evolves

LEMMA CloseEvolves ==
    ASSUME LogInv, NEW c, Close(c)
    PROVE  Evolves(stream, stream')
<1>1. CASE UNCHANGED stream
  BY <1>1, SameEvolves
<1>2. ASSUME NEW cb, stream.phase = "open",
             stream' = [stream EXCEPT !.phase = "closed", !.cb = cb]
      PROVE  Evolves(stream, stream')
  <2>1. DOMAIN stream = Fields
    BY Zenon DEF LogInv, StreamShape
  <2>2. /\ stream'.phase = "closed" /\ stream'.inc = stream.inc
        /\ stream'.msgs = stream.msgs /\ stream'.tail = stream.tail
    BY <1>2, <2>1 DEF Fields
  <2> QED
    BY <1>2, <2>2, Zenon DEF Evolves
<1>3. \/ UNCHANGED stream
      \/ stream.phase = "open" /\ \E cb : stream' = [stream EXCEPT !.phase = "closed", !.cb = cb]
  BY Zenon DEF Close
<1> QED
  BY <1>1, <1>2, <1>3, Zenon

LEMMA CommitEvolves ==
    ASSUME Numbers, LogInv, Framed(stream.msgs, 0, stream.tail), NEW c \in Clients, AppendCommit(c)
    PROVE  Evolves(stream, stream')
<1>1. CallsShape /\ calls[c].at = "append"
  BY DEF LogInv, AppendCommit
<1>2. PICK r \in Requests : r = calls[c].req
  BY <1>1, CallFacts
<1>3. AppendOutcome(r) = "write" /\ calls[c].base = stream.tail
  BY <1>2 DEF AppendCommit
<1>4. PICK f, tail : f = BuildFrames(r, stream.tail) /\ tail = NewTail(f, stream.tail)
  BY Zenon
<1>5. stream.phase = "open"
  BY <1>2, <1>3, WriteFacts, Zenon
<1>6. r.sizes \in Seq(Nat \ {0}) /\ stream.tail \in Nat
  BY <1>2, RequestFacts DEF Framed
<1>7. Framed(f, stream.tail, tail)
  BY <1>4, <1>6, FramesAreFramed, Zenon
<1>8. IsLog(stream.msgs) /\ IsLog(f) /\ DOMAIN stream = Fields
  BY <1>4, <1>6, FramesAreALog, Zenon DEF LogInv, StreamShape
<1>9. Concatenates(stream.msgs, f, stream.msgs \o f)
  BY <1>8, Concatenation, Zenon
<1>10. PICK seq, phase, cb : stream' = Committed(stream, stream.msgs \o f, tail, seq, phase, cb)
  <2>1. stream' = [stream EXCEPT
                       !.msgs = stream.msgs \o f, !.tail = tail,
                       !.lastSeq = IF r.sseq # 0 THEN r.sseq ELSE stream.lastSeq,
                       !.phase = IF r.close THEN "closed" ELSE stream.phase,
                       !.cb = IF r.close /\ HasProducer(r) THEN Tuple(r) ELSE stream.cb]
    BY <1>2, <1>3, <1>4, Zenon DEF AppendCommit
  <2> QED
    BY <2>1, Zenon DEF Committed
<1>11. /\ stream'.msgs = stream.msgs \o f /\ stream'.inc = stream.inc
       /\ stream'.tail = tail
  <2>1. PICK m, t : m = stream.msgs \o f /\ t = Committed(stream, m, tail, seq, phase, cb)
    BY Zenon
  <2>2. t.msgs = m /\ t.inc = stream.inc /\ t.tail = tail
    BY <1>8, <2>1 DEF Committed, Fields
  <2> QED
    BY <1>10, <2>1, <2>2, Zenon
<1> QED
  BY <1>5, <1>7, <1>9, <1>11, Zenon DEF Evolves

-----------------------------------------------------------------------------
(* Every step keeps the invariant of the readers *)

\* A step that leaves the sessions alone.
LEMMA SessionsStay ==
    ASSUME ReadInv, LogInv', Evolves(stream, stream'), UNCHANGED reads
    PROVE  ReadInv'
<1>1. stream.inc \in Nat /\ Framed(stream.msgs, 0, stream.tail)
  BY Zenon DEF ReadInv, LogInv, StreamShape
<1>2. PICK s, t : s = stream /\ t = stream'
  BY Zenon
<1>3. s.inc \in Nat /\ Framed(s.msgs, 0, s.tail) /\ Evolves(s, t)
  BY <1>1, <1>2, Zenon
<1>4. Framed(t.msgs, 0, t.tail)
  BY <1>3, FramedEvolves, Zenon
<1>5. \A rd \in Readers : reads[rd] = Idle \/ Session(reads[rd], t)
  <2> TAKE rd \in Readers
  <2>1. reads[rd] = Idle \/ Session(reads[rd], s)
    BY <1>2, Zenon DEF ReadInv
  <2> QED
    BY <1>3, <2>1, SessionStays, Zenon
<1>6. reads = [rd \in Readers |-> reads[rd]]
  BY Zenon DEF ReadInv
<1> QED
  BY <1>2, <1>4, <1>5, <1>6, Zenon DEF ReadInv

\* A step of one session on a stream that does not change.
LEMMA OneSession ==
    ASSUME ReadInv, LogInv', UNCHANGED stream, NEW rd, NEW new,
           rd \in Readers => Session(new, stream),
           reads' = [reads EXCEPT ![rd] = new]
    PROVE  ReadInv'
<1>1. reads = [d \in Readers |-> reads[d]]
  BY Zenon DEF ReadInv
<1>2. DOMAIN reads = Readers
  BY <1>1, Zenon
<1>3. reads' = [d \in Readers |-> IF d = rd THEN new ELSE reads[d]]
  BY <1>2, Zenon
<1>4. \A d \in Readers : reads'[d] = Idle \/ Session(reads'[d], stream)
  BY <1>3, Zenon DEF ReadInv
<1>5. reads' = [d \in Readers |-> reads'[d]]
  BY <1>3, Zenon
<1>6. Framed(stream.msgs, 0, stream.tail)
  BY Zenon DEF ReadInv
<1> QED
  BY <1>4, <1>5, <1>6, Zenon DEF ReadInv

LEMMA ReadFirstStep ==
    ASSUME Numbers, ReadInv, LogInv', NEW rd, NEW offset \in 0 .. stream.tail, ReadFirst(rd, offset)
    PROVE  ReadInv'
<1>1. PICK read : read = [at |-> "paging", inc |-> stream.inc, tail |-> stream.tail,
                          closed |-> stream.phase = "closed", from |-> offset,
                          next |-> offset, sent |-> <<>>]
  BY Zenon
<1>2. /\ Visible /\ UNCHANGED stream
      /\ reads' = [reads EXCEPT ![rd] = Deliver(read, PageOf(offset, read.tail))]
  BY <1>1, Zenon DEF ReadFirst
<1>3. /\ read.at = "paging" /\ read.inc = stream.inc /\ read.tail = stream.tail
      /\ read.closed = (stream.phase = "closed") /\ read.from = offset
      /\ read.next = offset /\ read.sent = <<>> /\ DOMAIN read = ReadFields
  BY <1>1, Zenon DEF ReadFields
<1>4. /\ stream.inc \in Nat /\ Framed(stream.msgs, 0, stream.tail) /\ stream.tail \in Nat
      /\ Len(stream.msgs) \in Nat
  BY Zenon DEF ReadInv, LogInv, StreamShape, Framed
<1>5. offset \in Nat /\ offset <= stream.tail /\ offset <= offset
      /\ stream.inc <= stream.inc /\ stream.tail <= stream.tail
  BY <1>4
<1>6. ReadShape(read, stream)
  BY <1>3, <1>4, <1>5, Zenon DEF ReadShape
<1>7. SameStream(read, stream)
  BY <1>2, <1>3, Zenon DEF SameStream, Visible, Exists
<1>8. Snapshot(read, stream)
  <2>1. CASE Len(stream.msgs) = 0
    <3>1. stream.tail = 0
      BY <2>1, Zenon DEF ReadInv, Framed
    <3> QED
      BY <1>3, <1>5, <3>1, Zenon DEF Snapshot
  <2>2. CASE Len(stream.msgs) # 0
    <3>1. Len(stream.msgs) \in 1 .. Len(stream.msgs)
      BY <1>4, <2>2
    <3>2. stream.msgs[Len(stream.msgs)].end = stream.tail
      BY <2>2, Zenon DEF ReadInv, Framed
    <3> QED
      BY <1>3, <1>5, <3>1, <3>2, Zenon DEF Snapshot
  <2> QED
    BY <2>1, <2>2, Zenon
<1>9. Sent(read, stream)
  <2>1. PICK lo : Split(stream.msgs, offset, lo)
    BY <1>4, <1>5, SplitExists, Zenon
  <2>2. lo \in Nat
    BY <2>1, Zenon DEF Split
  <2>3. Stretch(read.inc, lo, 0) = <<>> /\ lo + 0 = lo
    BY <2>2 DEF Stretch
  <2> QED
    BY <1>3, <2>1, <2>2, <2>3, Zenon DEF Sent
<1>10. Session(Deliver(read, PageOf(read.next, read.tail)), stream)
  BY <1>4, <1>6, <1>7, <1>8, <1>9, DeliverStep, Zenon
<1>11. Session(Deliver(read, PageOf(offset, read.tail)), stream)
  BY <1>3, <1>10, Zenon
<1> QED
  BY <1>2, <1>11, OneSession, Zenon

LEMMA ChangedFields ==
    ASSUME NEW read, DOMAIN read = ReadFields, NEW new, new = [read EXCEPT !.at = "changed"]
    PROVE  /\ DOMAIN new = ReadFields /\ new.inc = read.inc /\ new.tail = read.tail
           /\ new.closed = read.closed /\ new.from = read.from /\ new.next = read.next
           /\ new.sent = read.sent /\ new.at = "changed"
BY DEF ReadFields

\* A session that gives up keeps what it has sent.
LEMMA ChangedStep ==
    ASSUME NEW s, NEW read, Session(read, s)
    PROVE  Session([read EXCEPT !.at = "changed"], s)
<1>1. PICK new : new = [read EXCEPT !.at = "changed"]
  BY Zenon
<1>2. DOMAIN read = ReadFields
  BY Zenon DEF Session, ReadShape
<1>3. /\ DOMAIN new = ReadFields /\ new.inc = read.inc /\ new.tail = read.tail
      /\ new.closed = read.closed /\ new.from = read.from /\ new.next = read.next
      /\ new.sent = read.sent /\ new.at = "changed"
  BY <1>1, <1>2, ChangedFields, Zenon
<1>4. SameStream(new, s) <=> SameStream(read, s)
  BY <1>3, Zenon DEF SameStream
<1>5. ReadShape(new, s)
  BY <1>3, Zenon DEF Session, ReadShape
<1>6. Sent(new, s)
  BY <1>3, <1>4, Zenon DEF Session, Sent
<1>7. Snapshot(new, s)
  BY <1>3, <1>4, Zenon DEF Session, Snapshot
<1>8. Session(new, s)
  BY <1>3, <1>5, <1>6, <1>7, Zenon DEF Session
<1> QED
  BY <1>1, <1>8, Zenon

LEMMA ReadNextStep ==
    ASSUME Numbers, ReadInv, LogInv', NEW rd, ReadNext(rd)
    PROVE  ReadInv'
<1>1. PICK read, page : read = reads[rd] /\ page = PageOf(read.next, read.tail)
  BY Zenon
<1>2. PICK new : new = IF ~Exists \/ stream.inc # read.inc
                       THEN [read EXCEPT !.at = "changed"]
                       ELSE IF page = {} THEN [read EXCEPT !.at = "missing"]
                       ELSE Deliver(read, page)
  BY Zenon
<1>3. read.at = "paging" /\ UNCHANGED stream /\ reads' = [reads EXCEPT ![rd] = new]
  BY <1>1, <1>2, Zenon DEF ReadNext
<1>4. ASSUME rd \in Readers
      PROVE  Session(new, stream)
  <2>1. Session(read, stream) /\ Framed(stream.msgs, 0, stream.tail)
    <3>1. read # Idle
      BY <1>3 DEF Idle
    <3> QED
      BY <1>1, <1>4, <3>1, Zenon DEF ReadInv
  <2>2. CASE ~SameStream(read, stream)
    <3>1. ~Exists \/ stream.inc # read.inc
      BY <2>2, Zenon DEF SameStream, Exists
    <3> QED
      BY <1>2, <2>1, <3>1, ChangedStep, Zenon
  <2>3. CASE SameStream(read, stream)
    <3>1. Exists /\ stream.inc = read.inc
      BY <2>3, Zenon DEF SameStream, Exists
    <3>2. /\ ReadShape(read, stream) /\ Sent(read, stream) /\ Snapshot(read, stream)
          /\ read.next < read.tail
      BY <1>3, <2>1, <2>3, Zenon DEF Session
    <3>3. Session(Deliver(read, page), stream) /\ page # {}
      BY <1>1, <2>1, <2>3, <3>2, DeliverStep, Zenon
    <3> QED
      BY <1>2, <3>1, <3>3, Zenon
  <2> QED
    BY <2>2, <2>3, Zenon
<1> QED
  BY <1>3, <1>4, OneSession, Zenon

LEMMA ReadExpiredStep ==
    ASSUME ReadInv, LogInv', NEW rd, ReadExpired(rd)
    PROVE  ReadInv'
<1>1. PICK read : read = reads[rd]
  BY Zenon
<1>2. PICK new : new = IF read.at = "paging" THEN [read EXCEPT !.at = "changed"] ELSE read
  BY Zenon
<1>3. Reset /\ reads' = [reads EXCEPT ![rd] = new]
  BY <1>1, <1>2, Zenon DEF ReadExpired
<1>4. PICK s, t : s = stream /\ t = stream'
  BY Zenon
<1>5. s.inc \in Nat /\ Framed(s.msgs, 0, s.tail) /\ Evolves(s, t)
  BY <1>3, <1>4, ResetEvolves, Zenon DEF ReadInv, LogInv, StreamShape
<1>6. Framed(t.msgs, 0, t.tail)
  BY <1>5, FramedEvolves, Zenon
<1>7. reads = [d \in Readers |-> reads[d]] /\ DOMAIN reads = Readers
  BY Zenon DEF ReadInv
<1>8. reads' = [d \in Readers |-> IF d = rd THEN new ELSE reads[d]]
  BY <1>3, <1>7, Zenon
<1>9. ASSUME NEW d \in Readers PROVE reads[d] = Idle \/ Session(reads[d], t)
  <2>1. reads[d] = Idle \/ Session(reads[d], s)
    BY <1>4, Zenon DEF ReadInv
  <2> QED
    BY <1>5, <2>1, SessionStays, Zenon
<1>10. ASSUME rd \in Readers PROVE new = Idle \/ Session(new, t)
  <2>1. read = Idle \/ Session(read, t)
    BY <1>1, <1>9, <1>10, Zenon
  <2>2. CASE read.at = "paging"
    <3>1. read # Idle
      BY <2>2 DEF Idle
    <3> QED
      BY <1>2, <2>1, <2>2, <3>1, ChangedStep, Zenon
  <2>3. CASE read.at # "paging"
    BY <1>2, <2>1, <2>3, Zenon
  <2> QED
    BY <2>2, <2>3, Zenon
<1>11. \A d \in Readers : reads'[d] = Idle \/ Session(reads'[d], t)
  BY <1>8, <1>9, <1>10, Zenon
<1>12. reads' = [d \in Readers |-> reads'[d]]
  BY <1>8, Zenon
<1> QED
  BY <1>4, <1>6, <1>11, <1>12, Zenon DEF ReadInv

LEMMA ReadInvInit == Init => ReadInv
<1> SUFFICES ASSUME Init PROVE ReadInv
  OBVIOUS
<1>1. LogInv
  BY InvInit
<1>2. stream.msgs = <<>> /\ stream.tail = 0
  BY Zenon DEF Init, Gone
<1>3. Framed(stream.msgs, 0, stream.tail)
  BY <1>2, NothingIsFramed, Zenon
<1>4. reads = [rd \in Readers |-> Idle]
  BY Zenon DEF Init
<1> QED
  BY <1>1, <1>3, <1>4, Zenon DEF ReadInv

LEMMA ReadInvStep == Numbers /\ ReadInv /\ [Next]_vars => ReadInv'
<1> SUFFICES ASSUME Numbers, ReadInv, [Next]_vars
             PROVE  ReadInv'
  OBVIOUS
<1>0. LogInv /\ Framed(stream.msgs, 0, stream.tail)
  BY Zenon DEF ReadInv
<1>1. LogInv'
  BY <1>0, InvStep, Zenon
<1>2. ASSUME NEW ct \in ContentTypes, NEW sizes \in Initials, NEW closed \in BOOLEAN,
             Create(ct, sizes, closed)
      PROVE  ReadInv'
  <2>1. UNCHANGED reads
    BY <1>2, Zenon DEF Create
  <2> QED
    BY <1>1, <1>2, <2>1, CreateEvolves, SessionsStay, Zenon
<1>3. CASE Delete
  <2>1. Reset /\ UNCHANGED reads
    BY <1>3, Zenon DEF Delete
  <2> QED
    BY <1>1, <2>1, ResetEvolves, SessionsStay, Zenon
<1>4. CASE Expire
  <2>1. UNCHANGED reads
    BY <1>4, Zenon DEF Expire
  <2> QED
    BY <1>0, <1>1, <1>4, <2>1, ExpireEvolves, SessionsStay, Zenon
<1>5. ASSUME NEW c \in Clients, NEW r \in Scenes[scene].requests, Receive(c, r)
      PROVE  ReadInv'
  <2>1. UNCHANGED <<stream, reads>>
    BY <1>5, Zenon DEF Receive
  <2> QED
    BY <1>1, <2>1, SameEvolves, SessionsStay, Zenon
<1>6. ASSUME NEW c \in Clients, AppendExpired(c) \/ CloseExpired(c)
      PROVE  ReadInv'
  <2>1. Reset /\ UNCHANGED reads
    BY <1>6, Zenon DEF AppendExpired, CloseExpired
  <2> QED
    BY <1>1, <2>1, ResetEvolves, SessionsStay, Zenon
<1>7. ASSUME NEW c \in Clients, AppendRefused(c) \/ AppendRetry(c)
      PROVE  ReadInv'
  <2>1. UNCHANGED <<stream, reads>>
    BY <1>7, Zenon DEF AppendRefused, AppendRetry
  <2> QED
    BY <1>1, <2>1, SameEvolves, SessionsStay, Zenon
<1>8. ASSUME NEW c \in Clients, AppendCommit(c)
      PROVE  ReadInv'
  <2>1. UNCHANGED reads
    BY <1>8, Zenon DEF AppendCommit
  <2> QED
    BY <1>0, <1>1, <1>8, <2>1, CommitEvolves, SessionsStay, Zenon
<1>9. ASSUME NEW c \in Clients, Close(c)
      PROVE  ReadInv'
  <2>1. UNCHANGED reads
    BY <1>9, Zenon DEF Close
  <2> QED
    BY <1>0, <1>1, <1>9, <2>1, CloseEvolves, SessionsStay, Zenon
<1>10. ASSUME NEW rd \in Scenes[scene].readers,
              (\E offset \in 0 .. stream.tail : ReadFirst(rd, offset))
                 \/ ReadNext(rd) \/ ReadExpired(rd)
       PROVE  ReadInv'
  BY <1>1, <1>10, ReadFirstStep, ReadNextStep, ReadExpiredStep, Zenon
<1>11. CASE UNCHANGED vars
  <2>1. UNCHANGED <<stream, reads>>
    BY <1>11, Zenon DEF vars
  <2> QED
    BY <1>1, <2>1, SameEvolves, SessionsStay, Zenon
<1> QED
  BY <1>2, <1>3, <1>4, <1>5, <1>6, <1>7, <1>8, <1>9, <1>10, <1>11, Zenon DEF Next

-----------------------------------------------------------------------------
(* What the readers are promised *)

LEMMA ReadInvImpliesSnapshot == ReadInv => ReadsAreOneSnapshot
<1> SUFFICES ASSUME ReadInv, NEW rd \in Readers, reads[rd] # Idle,
                    NEW read, read = reads[rd]
             PROVE  /\ read.at # "missing"
                    /\ \A k \in 1 .. Len(read.sent) :
                          /\ read.sent[k][1] = read.inc
                          /\ k > 1 => read.sent[k][2] = read.sent[k - 1][2] + 1
                    /\ Exists /\ stream.inc = read.inc =>
                          {read.sent[k][2] : k \in 1 .. Len(read.sent)} =
                          {i \in 1 .. Len(stream.msgs) :
                             /\ read.from < stream.msgs[i].end
                             /\ stream.msgs[i].end <= read.next}
  BY Zenon DEF ReadsAreOneSnapshot
<1>1. Session(read, stream) /\ Framed(stream.msgs, 0, stream.tail)
  BY Zenon DEF ReadInv
<1>2. read.at # "missing" /\ read.from \in Nat /\ read.next \in Nat
  BY <1>1, Zenon DEF Session, ReadShape
<1>3. PICK lo \in Nat, n \in Nat :
         /\ read.sent = Stretch(read.inc, lo, n)
         /\ SameStream(read, stream) =>
               Split(stream.msgs, read.from, lo) /\ Split(stream.msgs, read.next, lo + n)
  BY <1>1, Zenon DEF Session, Sent
<1>4. PICK inc, sent : inc = read.inc /\ sent = read.sent
  OBVIOUS
<1>5. Len(sent) = n /\ \A k \in 1 .. n : sent[k] = <<inc, lo + k>>
  <2>1. sent = Stretch(inc, lo, n)
    BY <1>3, <1>4, Zenon
  <2>2. Len(Stretch(inc, lo, n)) = n
    BY StretchIsASeq, Zenon
  <2> QED
    BY <2>1, <2>2, Zenon DEF Stretch
<1>6. \A k \in 1 .. n : /\ sent[k][1] = inc /\ sent[k][2] = lo + k
                        /\ k > 1 => sent[k][2] = sent[k - 1][2] + 1
  <2> TAKE k \in 1 .. n
  <2>1. sent[k][1] = inc /\ sent[k][2] = lo + k
    BY <1>5
  <2>2. ASSUME k > 1 PROVE sent[k][2] = sent[k - 1][2] + 1
    <3>1. k - 1 \in 1 .. n
      BY <2>2
    <3>2. sent[k - 1][2] = lo + (k - 1)
      BY <1>5, <3>1
    <3> QED
      BY <2>1, <3>2
  <2> QED
    BY <2>1, <2>2
<1>7. ASSUME Exists, stream.inc = read.inc
      PROVE  {sent[k][2] : k \in 1 .. n} =
             {i \in 1 .. Len(stream.msgs) : /\ read.from < stream.msgs[i].end
                                            /\ stream.msgs[i].end <= read.next}
  <2>1. Split(stream.msgs, read.from, lo) /\ Split(stream.msgs, read.next, lo + n)
    BY <1>3, <1>7, Zenon DEF SameStream, Exists
  <2>2. PICK m, q : m = stream.msgs /\ q = Len(m)
    BY Zenon
  <2>3. /\ q \in Nat /\ lo + n <= q /\ \A i \in 1 .. q : m[i].end \in Nat
        /\ \A i \in 1 .. q : m[i].end <= read.from <=> i <= lo
        /\ \A i \in 1 .. q : m[i].end <= read.next <=> i <= lo + n
    BY <1>1, <2>1, <2>2, Zenon DEF Framed, Split
  <2>4. \A i \in 1 .. q : (read.from < m[i].end /\ m[i].end <= read.next) <=>
                          (lo < i /\ i <= lo + n)
    <3> TAKE i \in 1 .. q
    <3>1. PICK e \in Nat : e = m[i].end
      BY <2>3
    <3>2. (e <= read.from <=> i <= lo) /\ (e <= read.next <=> i <= lo + n)
      BY <2>3, <3>1, Zenon
    <3>3. read.from < e <=> lo < i
      BY <1>2, <3>2
    <3> QED
      BY <3>1, <3>2, <3>3, Zenon
  <2>5. \A k \in 1 .. n : /\ sent[k][2] \in 1 .. q
                          /\ lo < sent[k][2] /\ sent[k][2] <= lo + n
    BY <1>6, <2>3
  <2>6. \A i \in 1 .. q : lo < i /\ i <= lo + n => \E k \in 1 .. n : i = sent[k][2]
    <3> TAKE i \in 1 .. q
    <3>1. lo < i /\ i <= lo + n => i - lo \in 1 .. n /\ i = lo + (i - lo)
      OBVIOUS
    <3> QED
      BY <1>6, <3>1, Zenon
  <2>7. {sent[k][2] : k \in 1 .. n} =
        {i \in 1 .. q : read.from < m[i].end /\ m[i].end <= read.next}
    BY <2>4, <2>5, <2>6, Zenon
  <2> QED
    BY <2>2, <2>7, Zenon
<1>8. Exists /\ stream.inc = read.inc =>
         {read.sent[k][2] : k \in 1 .. Len(read.sent)} =
         {i \in 1 .. Len(stream.msgs) : /\ read.from < stream.msgs[i].end
                                        /\ stream.msgs[i].end <= read.next}
  <2>1. {read.sent[k][2] : k \in 1 .. Len(read.sent)} = {sent[k][2] : k \in 1 .. n}
    <3>1. read.sent = sent /\ Len(read.sent) = n
      BY <1>4, <1>5, Zenon
    <3> QED
      BY <3>1
  <2> QED
    BY <1>7, <2>1, Zenon
<1>9. \A k \in 1 .. Len(read.sent) :
         /\ read.sent[k][1] = read.inc
         /\ k > 1 => read.sent[k][2] = read.sent[k - 1][2] + 1
  BY <1>4, <1>5, <1>6, Zenon
<1> QED
  BY <1>2, <1>8, <1>9, Zenon

LEMMA ReadInvImpliesEnd == ReadInv => EndOfStreamIsFinal
BY Zenon DEF ReadInv, EndOfStreamIsFinal, Session, Snapshot, SameStream, Exists

LEMMA ReadInvImpliesContiguous == ReadInv => FramesAreContiguous
<1> SUFFICES ASSUME ReadInv PROVE FramesAreContiguous
  OBVIOUS
<1>1. Framed(stream.msgs, 0, stream.tail) /\ IsLog(stream.msgs)
  BY Zenon DEF ReadInv, LogInv, StreamShape
<1>2. stream.msgs = <<>> <=> Len(stream.msgs) = 0
  BY <1>1, EmptySequence, Zenon DEF IsLog
<1> QED
  BY <1>1, <1>2, Zenon DEF Framed, FramesAreContiguous, NewTail

-----------------------------------------------------------------------------
(* What the library knows of numbers, and the theorems about the reads *)

INSTANCE FiniteSetTheorems

LEMMA NumbersHold == Numbers
<1>1. ASSUME NEW T \in SUBSET Nat, T # {}
      PROVE  \E x \in T : \A y \in T : x <= y
  <2>1. PICK x \in T : \A y \in T : ~ (<<y, x>> \in OpToRel(<, Nat))
    BY <1>1, NatLessThanWellFounded, WFMin, Zenon
  <2>2. \A y \in T : ~ (y < x)
    BY <2>1, Zenon DEF OpToRel
  <2> QED
    BY <2>2
<1>2. \A a, b \in Int : Cardinality(a .. b) = IF a > b THEN 0 ELSE b - a + 1
  BY FS_Interval, Zenon
<1>3. Cardinality({}) = 0
  BY FS_EmptySet, Zenon
<1> QED
  BY <1>1, <1>2, <1>3, Zenon DEF Numbers

\* The reads keep their invariant in every behaviour.
LEMMA ReadInvariance == Spec => []ReadInv
<1>1. ReadInv /\ [Next]_vars => ReadInv'
  BY NumbersHold, ReadInvStep, Zenon
<1> QED
  BY <1>1, ReadInvInit, PTL DEF Spec

\* A read session of any number of pages sends one incarnation's messages,
\* each once, in order and without a gap, while appends, closes, deletes and
\* re-creations go on between its pages; no page of read.lua misses a frame
\* that the session's snapshot announced.
THEOREM OneSnapshot == Spec => []ReadsAreOneSnapshot
BY ReadInvariance, ReadInvImpliesSnapshot, PTL

\* Once a response said that the stream is closed, no message ever follows the
\* tail that it announced, as long as the stream lives.
THEOREM EndIsFinal == Spec => []EndOfStreamIsFinal
BY ReadInvariance, ReadInvImpliesEnd, PTL

\* Frames follow each other without gap or overlap up to the tail, although
\* each append was framed against a tail that was read earlier.
THEOREM ContiguousFrames == Spec => []FramesAreContiguous
BY ReadInvariance, ReadInvImpliesContiguous, PTL

=============================================================================
