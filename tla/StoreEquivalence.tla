-------------------------- MODULE StoreEquivalence --------------------------
(***************************************************************************)
(* The in-memory store (store/memory_store.go) and the Redis store         *)
(* (store/redis/store.go and its Lua scripts) run side by side: every      *)
(* step gives one operation, with the same arguments and the same clock,   *)
(* to both.  The repository uses the in-memory store as the oracle of its  *)
(* randomised equivalence test (store/redis/equivalence_test.go); that     *)
(* test never reuses a path and never gives a fork a lifetime of its own,  *)
(* and this module does both.                                              *)
(*                                                                         *)
(* A byte is one element of a sequence, a message is the sequence of its   *)
(* bytes with its end offset, and a request body is a sequence of          *)
(* messages: what a JSON array flattens to.  Each store is a function      *)
(* from paths to stream records.                                           *)
(***************************************************************************)
EXTENDS Integers, Sequences, FiniteSets, SequencesExt

CONSTANTS Paths,       \* stream paths
          Authorities, \* subscription claims' authorities (subscription, incarnation, shard)
          Holders,     \* workers that may hold a claim
          Ids,         \* producer ids
          Budgets      \* scenarios: what each operation may be given, and how often

VARIABLES mem,      \* the in-memory store's streams
          red,      \* the Redis store's streams
          memMark,  \* claim markers kept by the in-memory store
          redMark,  \* claim markers kept in Redis
          clock,    \* the shared injected clock
          births,   \* incarnation ids handed out
          odd,      \* history: operations the two stores answered differently
          parted,   \* the stores took different ways over an expired stream
          budget    \* what is left of the scenario

vars == <<mem, red, memMark, redMark, clock, births, odd, parted, budget>>

None == -1
NoPath == "nopath"
NoProducer == [id |-> "none", epoch |-> None, seq |-> None]
NoFence == [auth |-> "none", gen |-> 0, holder |-> "none", lease |-> 0]
NoMarker == [state |-> "none", gen |-> 0, holder |-> "none", lease |-> 0, inc |-> 0]
NoSeal == [gen |-> 0, off |-> 0]
NoState == [epoch |-> None, seq |-> None]
Absent == [inc |-> 0]

Here(db, p) == db[p].inc > 0

\* StreamMetadata.IsExpiredAt and is_expired: the deadline itself is still alive.
Expired(s) ==
  \/ s.exp # None /\ clock > s.exp
  \/ s.ttl # None /\ clock > s.acc + s.ttl

Alive(db, p) == Here(db, p) /\ ~db[p].soft /\ ~Expired(db[p])

\* One answer of a store: AppendResult, CloseResult, CloseProducerResult,
\* SealResult and the read's messages in one record.
Answer == [err |-> "ok", off |-> 0, new |-> FALSE, dup |-> FALSE, epoch |-> 0, want |-> 0,
           got |-> 0, seq |-> 0, closed |-> FALSE, already |-> FALSE, reason |-> "none",
           gen |-> 0, holder |-> "none", msgs |-> <<>>, fresh |-> FALSE]
Err(e) == [Answer EXCEPT !.err = e]

\* StreamMetadata.ConfigMatches; an omitted content type means octet-stream,
\* and an omitted fork offset matches whatever was resolved.
ConfigMatches(s, o) ==
  /\ s.ct = (IF o.ct = "" THEN "bin" ELSE o.ct)
  /\ s.ttl = o.ttl
  /\ s.exp = o.exp
  /\ s.closed = o.closed
  /\ s.wf = o.wf
  /\ s.from = o.from
  /\ \/ o.from = NoPath
     \/ /\ o.off = None \/ o.off = (IF s.req = None THEN s.fork ELSE s.req)
        /\ s.sub = o.sub

\* ContentTypeMatches: an append that names no type is not checked.
ContentTypeMatches(s, ct) == ct = "" \/ ct = s.ct

\* The messages a body becomes: JSON mode flattens the array, any other type
\* stores the bytes as they came (an empty array is still one byte of text).
FrameBody(ct, body, tail) ==
  LET raw == IF body = <<>> THEN <<"[]">> ELSE FlattenSeq(body)
      parts == IF ct = "json" THEN body ELSE <<raw>>
      EndOf(i) == tail + Len(FlattenSeq(SubSeq(parts, 1, i)))
  IN  [i \in 1..Len(parts) |-> [end |-> EndOf(i), data |-> parts[i]]]

\* ProcessJSONAppend refuses an empty array on append and allows it on create.
EmptyArray(ct, body) == ct = "json" /\ body = <<>>

EndOfFrames(frames, tail) == IF frames = <<>> THEN tail ELSE frames[Len(frames)].end

\* ValidateProducer and validate_producer: one table, mirrored in Lua.
ValidateProducer(st, p) ==
  IF st = NoState
  THEN IF p.seq = 0 THEN [Answer EXCEPT !.seq = 0]
       ELSE [Err("seq_gap") EXCEPT !.got = p.seq]
  ELSE IF p.epoch < st.epoch THEN [Err("stale_epoch") EXCEPT !.epoch = st.epoch]
  ELSE IF p.epoch > st.epoch
  THEN IF p.seq = 0 THEN [Answer EXCEPT !.seq = 0] ELSE Err("epoch_seq")
  ELSE IF p.seq <= st.seq THEN [Answer EXCEPT !.dup = TRUE, !.seq = st.seq]
  ELSE IF p.seq = st.seq + 1 THEN [Answer EXCEPT !.seq = p.seq]
  ELSE [Err("seq_gap") EXCEPT !.want = st.seq + 1, !.got = p.seq]

\* EvaluateWriteFence: the reason of a refusal, and what the refusal discloses.
EvaluateWriteFence(s, fence, m, seal, p, bound) ==
  LET open == fence = NoFence
      producer == p # NoProducer
      leased == m.lease > clock
      gen == IF open THEN bound ELSE IF m # NoMarker THEN m.gen ELSE seal.gen
      holder == IF ~open /\ m.state = "live" /\ leased THEN m.holder ELSE "none"
      reason ==
        IF open
        THEN IF s.wf /\ producer /\ bound > 0 THEN "bound" ELSE "none"
        ELSE IF s.wf /\ seal # NoSeal /\ fence.gen <= seal.gen THEN "sealed"
        ELSE IF \/ m.state # "live" \/ m.gen # fence.gen \/ m.holder # fence.holder
                \/ ~leased \/ m.inc # s.inc
             THEN "marker"
        ELSE IF s.wf /\ ~producer THEN "producer_required"
        ELSE IF s.wf /\ p.epoch # fence.gen THEN "epoch" ELSE "none"
  IN  [Err("fenced") EXCEPT !.reason = reason, !.gen = gen, !.holder = holder]

\* resolveForkExpiry: an own lifetime wins, otherwise the source's is copied.
ResolveForkExpiry(o, src) ==
  IF o.ttl # None THEN [ttl |-> o.ttl, exp |-> None]
  ELSE IF o.exp # None THEN [ttl |-> None, exp |-> o.exp]
  ELSE IF src.ttl # None THEN [ttl |-> src.ttl, exp |-> None]
  ELSE [ttl |-> None, exp |-> src.exp]

\* The stream a create installs: `at` is the resolved fork point, or offset 0.
NewStream(o, ct, at, life, frames) ==
  [inc |-> births + 1, ct |-> ct, msgs |-> frames, tail |-> EndOfFrames(frames, at),
   closed |-> o.closed, cb |-> NoProducer, soft |-> FALSE, rc |-> 0,
   from |-> o.from, fork |-> at, req |-> o.off, sub |-> o.sub,
   ttl |-> life.ttl, exp |-> life.exp, acc |-> clock, lseq |-> 0,
   prods |-> [i \in Ids |-> NoState], wf |-> o.wf, seals |-> [a \in Authorities |-> NoSeal],
   bound |-> [i \in Ids |-> 0], lastF |-> None, sealGen |-> 0, sealOff |-> None]

\* Where a fork is cut.  `chain` is what the store's own reader returns for the
\* source after the requested offset: JSON counts messages and moves the point,
\* other types take a prefix of the first message.
ForkPoint(src, o, off, chain) ==
  LET json == src.ct = "json"
  IN  IF o.ct # "" /\ o.ct # src.ct THEN [err |-> "ct_mismatch"]
      ELSE IF off > src.tail THEN [err |-> "fork_offset"]
      ELSE IF o.sub = 0 THEN [err |-> "ok", at |-> off, prefix |-> <<>>]
      ELSE IF ~chain.ok THEN [err |-> "missing"]
      ELSE IF json
      THEN IF Len(chain.msgs) < o.sub THEN [err |-> "sub_offset"]
           ELSE [err |-> "ok", at |-> chain.msgs[o.sub].end, prefix |-> <<>>]
      ELSE IF chain.msgs = <<>> \/ Len(chain.msgs[1].data) < o.sub THEN [err |-> "sub_offset"]
      ELSE [err |-> "ok", at |-> off, prefix |-> SubSeq(chain.msgs[1].data, 1, o.sub)]

ForkOffset(src, o) == IF o.off = None THEN src.tail ELSE o.off

\* The frames of a create: the fork's prefix, then the initial body if there is one.
FirstFrames(o, ct, at, prefix) ==
  LET head == IF prefix = <<>> THEN <<>>
              ELSE <<[end |-> at + Len(prefix), data |-> prefix]>>
      from == EndOfFrames(head, at)
  IN  head \o (IF o.body = <<>> THEN <<>> ELSE FrameBody(ct, o.body, from))

(***************************************************************************)
(* The in-memory store.                                                    *)
(***************************************************************************)

\* readForkedStream and walkForkedMessages: the inherited prefix, capped at
\* the fork point, then the stream's own messages.  A source that is gone is
\* passed over in silence.
RECURSIVE MemWalk(_, _, _, _)
MemWalk(db, p, off, upper) ==
  LET s == db[p]
      inherited == s.from # NoPath /\ off < s.fork /\ Here(db, s.from)
      cap == IF s.fork < upper THEN s.fork ELSE upper
  IN  (IF inherited THEN MemWalk(db, s.from, off, cap) ELSE <<>>)
        \o SelectSeq(s.msgs, LAMBDA m : off < m.end /\ m.end <= upper)

\* MemoryStore.Create.  An expired stream is dropped from the map first,
\* whatever refers to it and whatever it refers to.
MemCreate(p, o) ==
  LET db == IF Here(mem, p) /\ Expired(mem[p]) THEN [mem EXCEPT ![p] = Absent] ELSE mem
      old == db[p]
      src == IF o.from = NoPath THEN Absent ELSE db[o.from]
      off == ForkOffset(src, o)
      cut == IF o.from = NoPath THEN [err |-> "ok", at |-> 0, prefix |-> <<>>]
             ELSE IF src.inc = 0 THEN [err |-> "notfound"]
             ELSE IF src.soft THEN [err |-> "softdeleted"]
             ELSE IF Expired(src) THEN [err |-> "notfound"]
             ELSE ForkPoint(src, o, off, [ok |-> TRUE, msgs |-> MemWalk(db, o.from, off, src.tail)])
      ct == IF o.ct # "" THEN o.ct ELSE IF o.from # NoPath THEN src.ct ELSE "bin"
      life == IF o.from = NoPath THEN [ttl |-> o.ttl, exp |-> o.exp] ELSE ResolveForkExpiry(o, src)
      held == IF o.from = NoPath THEN db ELSE [db EXCEPT ![o.from].rc = @ + 1]
  IN  IF Here(db, p)
      THEN [db |-> db, res |-> IF old.soft THEN Err("exists")
                               ELSE IF ConfigMatches(old, o) THEN Answer ELSE Err("mismatch")]
      ELSE IF cut.err # "ok" THEN [db |-> db, res |-> Err(cut.err)]
      ELSE [db |-> [held EXCEPT ![p] = NewStream(o, ct, cut.at, life,
                                                 FirstFrames(o, ct, cut.at, cut.prefix))],
            res |-> [Answer EXCEPT !.new = TRUE]]

\* deleteWithCascade: drop the stream, release its source, and follow the
\* chain up through soft-deleted sources nobody refers to any more.
RECURSIVE MemCascade(_, _)
MemCascade(db, p) ==
  LET up == db[p].from
      gone == [db EXCEPT ![p] = Absent]
      rc == gone[up].rc - 1
  IN  IF ~Here(db, p) \/ up = NoPath \/ ~Here(gone, up) THEN [db |-> gone, res |-> Answer]
      ELSE IF rc < 0 THEN [db |-> [gone EXCEPT ![up].rc = 0], res |-> Err("underflow")]
      ELSE IF rc = 0 /\ gone[up].soft THEN MemCascade([gone EXCEPT ![up].rc = rc], up)
      ELSE [db |-> [gone EXCEPT ![up].rc = rc], res |-> Answer]

\* MemoryStore.Delete does not look at the expiry.
MemDelete(p) ==
  IF ~Here(mem, p) THEN [db |-> mem, res |-> Err("notfound")]
  ELSE IF mem[p].soft THEN [db |-> mem, res |-> Err("softdeleted")]
  ELSE IF mem[p].rc > 0 THEN [db |-> [mem EXCEPT ![p].soft = TRUE], res |-> Answer]
  ELSE MemCascade(mem, p)

\* marker and fenceRung: the claim's marker and seal for a fenced request, the
\* producer's binding for an open one.
MemFenceRung(p, r) ==
  LET s == mem[p]
  IN  IF r.fence = NoFence /\ ~s.wf THEN Answer
      ELSE IF r.fence # NoFence
      THEN EvaluateWriteFence(s, r.fence, memMark[p][r.fence.auth], s.seals[r.fence.auth], r.prod, 0)
      ELSE EvaluateWriteFence(s, NoFence, NoMarker, NoSeal, r.prod,
                              IF r.prod = NoProducer THEN 0 ELSE s.bound[r.prod.id])

\* bind: what an accepted fenced write leaves on a stream that opted in.
MemBind(s, r, off) ==
  IF r.fence = NoFence \/ ~s.wf THEN s
  ELSE [s EXCEPT !.lastF = off, !.bound[r.prod.id] = r.fence.gen]

\* MemoryStore.Append, in the order of its checks.
MemAppend(p, r) ==
  LET s == mem[p]
      rung == MemFenceRung(p, r)
      t == [s EXCEPT !.acc = clock]
      Say(a) == [db |-> [mem EXCEPT ![p] = t], res |-> a]
      check == IF r.prod = NoProducer THEN Answer ELSE ValidateProducer(s.prods[r.prod.id], r.prod)
      frames == FrameBody(s.ct, r.body, s.tail)
      tail == EndOfFrames(frames, s.tail)
      b == MemBind([t EXCEPT !.msgs = @ \o frames, !.tail = tail], r, tail)
      q == IF r.seq = 0 THEN b ELSE [b EXCEPT !.lseq = r.seq]
      u == IF r.prod = NoProducer THEN q
           ELSE [q EXCEPT !.prods[r.prod.id] = [epoch |-> r.prod.epoch, seq |-> r.prod.seq]]
      v == IF r.close THEN [u EXCEPT !.closed = TRUE, !.cb = IF r.prod = NoProducer THEN @ ELSE r.prod]
           ELSE u
  IN  IF ~Here(mem, p) THEN [db |-> mem, res |-> Err("notfound")]
      ELSE IF s.soft THEN [db |-> mem, res |-> Err("softdeleted")]
      ELSE IF Expired(s) THEN [db |-> mem, res |-> Err("notfound")]
      ELSE IF rung.reason # "none" THEN [db |-> mem, res |-> rung]
      ELSE IF s.closed
      THEN IF r.prod # NoProducer /\ s.cb = r.prod
           THEN Say([Answer EXCEPT !.off = s.tail, !.dup = TRUE, !.seq = r.prod.seq, !.closed = TRUE])
           ELSE Say([Err("closed") EXCEPT !.off = s.tail, !.closed = TRUE])
      ELSE IF ~ContentTypeMatches(s, r.ct) THEN Say(Err("ct_mismatch"))
      ELSE IF check.err # "ok" \/ check.dup THEN Say([check EXCEPT !.off = s.tail])
      ELSE IF r.seq # 0 /\ s.lseq # 0 /\ r.seq <= s.lseq THEN Say(Err("seq_conflict"))
      ELSE IF EmptyArray(s.ct, r.body) THEN Say(Err("empty_array"))
      ELSE [db |-> [mem EXCEPT ![p] = v],
            res |-> [check EXCEPT !.off = tail, !.closed = r.close]]

\* closeStream and CloseStreamWithProducer: no soft-delete check, no touch.
MemClose(p, r) ==
  LET s == mem[p]
      rung == MemFenceRung(p, r)
      check == ValidateProducer(s.prods[r.prod.id], r.prod)
      Keep(a) == [db |-> mem, res |-> [a EXCEPT !.off = s.tail]]
      shut == [s EXCEPT !.closed = TRUE]
      signed == MemBind([shut EXCEPT !.cb = r.prod,
                         !.prods[r.prod.id] = [epoch |-> r.prod.epoch, seq |-> r.prod.seq]],
                        r, s.tail)
  IN  IF ~Here(mem, p) \/ Expired(s) THEN [db |-> mem, res |-> Err("notfound")]
      ELSE IF rung.reason # "none" THEN [db |-> mem, res |-> rung]
      ELSE IF r.prod = NoProducer
      THEN [db |-> [mem EXCEPT ![p] = shut],
            res |-> [Answer EXCEPT !.off = s.tail, !.closed = TRUE, !.already = s.closed]]
      ELSE IF s.closed
      THEN IF s.cb = r.prod
           THEN Keep([Answer EXCEPT !.dup = TRUE, !.seq = r.prod.seq, !.closed = TRUE, !.already = TRUE])
           ELSE Keep([Err("closed") EXCEPT !.closed = TRUE, !.already = TRUE])
      ELSE IF check.err # "ok" \/ check.dup THEN Keep(check)
      ELSE [db |-> [mem EXCEPT ![p] = signed],
            res |-> [check EXCEPT !.off = s.tail, !.closed = TRUE]]

\* ReadPage and Read with a page large enough: expiry before soft deletion, an
\* expired source becomes soft-deleted, a sliding lifetime is renewed.
MemRead(p, off) ==
  LET s == mem[p]
      msgs == MemWalk(mem, p, off, s.tail)
  IN  IF ~Here(mem, p) THEN [db |-> mem, res |-> Err("notfound")]
      ELSE IF Expired(s)
      THEN [db |-> IF s.rc > 0 THEN [mem EXCEPT ![p].soft = TRUE] ELSE mem, res |-> Err("notfound")]
      ELSE IF s.soft THEN [db |-> mem, res |-> Err("notfound")]
      ELSE [db |-> IF s.ttl # None THEN [mem EXCEPT ![p].acc = clock] ELSE mem,
            res |-> [Answer EXCEPT !.msgs = msgs, !.off = s.tail, !.closed = s.closed,
                                   !.fresh = msgs # <<>> \/ off = s.tail \/ s.tail = 0]]

\* memoryStream.seal: the authority's generation at the class's last offset.
MemSealed(s, a, gen) ==
  LET off == IF s.lastF = None THEN s.tail ELSE s.lastF
  IN  [s EXCEPT !.seals[a] = [gen |-> gen, off |-> off], !.sealGen = gen, !.sealOff = off]

\* GrantAppendFence, check for check; expiry and soft deletion are not consulted.
MemGrant(p, f) ==
  LET s == mem[p]
      m == memMark[p][f.auth]
      seal == s.seals[f.auth]
      same == m # NoMarker /\ f.gen = m.gen
      lease == IF same /\ m.lease > f.lease THEN m.lease ELSE f.lease
      over == m # NoMarker /\ f.gen > m.gen /\ s.wf /\ (seal = NoSeal \/ m.gen > seal.gen)
      Keep(a) == [db |-> mem, mark |-> memMark, res |-> a]
  IN  IF f.lease <= clock THEN Keep(Err("fenced"))
      ELSE IF ~Here(mem, p) THEN Keep(Answer)
      ELSE IF \/ seal # NoSeal /\ f.gen <= seal.gen
              \/ f.gen < m.gen
              \/ same /\ (m.state # "live" \/ m.holder # f.holder)
      THEN Keep(Err("fenced"))
      ELSE [db |-> IF over THEN [mem EXCEPT ![p] = MemSealed(s, f.auth, m.gen)] ELSE mem,
            mark |-> [memMark EXCEPT ![p][f.auth] = [state |-> "live", gen |-> f.gen,
                        holder |-> f.holder, lease |-> lease, inc |-> s.inc]],
            res |-> [Answer EXCEPT !.new = TRUE]]

\* tombstone: refused for a newer generation or another claim of this one.
MemStale(p, f) ==
  LET m == memMark[p][f.auth]
  IN  f.gen < m.gen \/ (f.gen = m.gen /\ m.holder # f.holder)
MemTombstone(p, f) ==
  [memMark EXCEPT ![p][f.auth] = [state |-> "revoked", gen |-> f.gen, holder |-> f.holder,
                                  lease |-> 0, inc |-> @.inc]]

\* RevokeAppendFence and SealAppendFence.
MemRevoke(p, f) ==
  [db |-> mem, mark |-> IF MemStale(p, f) THEN memMark ELSE MemTombstone(p, f), res |-> Answer]
MemSeal(p, f) ==
  LET s == mem[p]
      Say(db, a) == [db |-> db, mark |-> MemTombstone(p, f), res |-> a]
      sealed == MemSealed(s, f.auth, f.gen)
  IN  IF MemStale(p, f) THEN [db |-> mem, mark |-> memMark, res |-> Err("stale")]
      ELSE IF ~Here(mem, p) THEN Say(mem, Err("notfound"))
      ELSE IF ~s.wf THEN Say(mem, Err("unfenced"))
      ELSE IF s.seals[f.auth] # NoSeal /\ f.gen <= s.seals[f.auth].gen
      THEN Say(mem, [Err("already") EXCEPT !.gen = s.seals[f.auth].gen, !.off = s.seals[f.auth].off])
      ELSE Say([mem EXCEPT ![p] = sealed],
               [Answer EXCEPT !.gen = f.gen, !.off = sealed.sealOff])

(***************************************************************************)
(* The Redis store: Go code around Lua scripts, each atomic.               *)
(***************************************************************************)

\* expire_cleanup: a referenced stream is kept, soft-deleted; any other is
\* deleted.  A reference the stream itself held on a source is not released.
ExpireCleanup(db, p) ==
  IF db[p].rc > 0 THEN [db EXCEPT ![p].soft = TRUE] ELSE [db EXCEPT ![p] = Absent]

\* Mutant: the source's range is not capped at the fork point.
ReadSegmentsUncapped(db, p, lower, upper, frame) ==
  LET s == db[p]
      src == IF s.from = NoPath THEN Absent ELSE db[s.from]
      Range_(q, lo, up) == [path |-> q, lower |-> lo, upper |-> up, frame |-> FALSE]
  IN  IF lower >= upper THEN [ok |-> TRUE, segs |-> <<>>]
      ELSE IF src.inc = 0 THEN [ok |-> TRUE, segs |-> <<Range_(p, lower, upper)>>]
      ELSE [ok |-> TRUE, segs |-> <<Range_(s.from, lower, src.tail)>> \o
             (IF s.fork < upper THEN <<Range_(p, s.fork, upper)>> ELSE <<>>)]

\* readSegments: the ranges of the chain that hold (lower, upper], oldest
\* first; a source without metadata is an error.  `frame` says that the range
\* must end on a frame of its stream.
RECURSIVE ReadSegments(_, _, _, _, _)
ReadSegments(db, p, lower, upper, frame) ==
  LET s == db[p]
      forked == s.from # NoPath /\ lower < s.fork
      cap == IF s.fork < upper THEN s.fork ELSE upper
      above == ReadSegments(db, s.from, lower, cap, frame /\ upper < s.fork)
      own == IF forked THEN s.fork ELSE lower
      mine == IF own < upper THEN <<[path |-> p, lower |-> own, upper |-> upper, frame |-> frame]>>
              ELSE <<>>
  IN  IF lower >= upper THEN [ok |-> TRUE, segs |-> <<>>]
      ELSE IF ~forked THEN [ok |-> TRUE, segs |-> mine]
      ELSE IF ~Here(db, s.from) \/ ~above.ok THEN [ok |-> FALSE]
      ELSE [ok |-> TRUE, segs |-> above.segs \o mine]

\* read.lua over one segment, the page being large enough: the frames of the
\* range, or MISSING where a frame is owed and none is stored.
SegmentFrames(db, g) ==
  SelectSeq(db[g.path].msgs, LAMBDA m : g.lower < m.end /\ m.end <= g.upper)
SegmentMissing(db, g) ==
  /\ SegmentFrames(db, g) = <<>>
  /\ g.frame \/ (db[g.path].tail # 0 /\ db[g.path].msgs = <<>>)

\* The loop of ReadPage and readForkChain over segments: a segment that stops
\* short of its upper end stops the page, so nothing is leapt over.
RECURSIVE Collect(_, _, _, _)
Collect(db, segs, msgs, stopShort) ==
  LET g == Head(segs)
      got == SegmentFrames(db, g)
  IN  IF segs = <<>> THEN [ok |-> TRUE, msgs |-> msgs]
      ELSE IF SegmentMissing(db, g) THEN [ok |-> FALSE]
      ELSE IF stopShort /\ got # <<>> /\ EndOfFrames(got, 0) < g.upper
      THEN [ok |-> TRUE, msgs |-> msgs \o got]
      ELSE Collect(db, Tail(segs), msgs \o got, stopShort)

\* readForkChain: every segment to its end.
ReadForkChain(db, p, off) ==
  LET r == ReadSegments(db, p, off, db[p].tail, TRUE)
  IN  IF r.ok THEN Collect(db, r.segs, <<>>, FALSE) ELSE [ok |-> FALSE]

\* ReadPage after the root script, and Read's loop over pages: an empty page
\* ends at the tail, and pages are read until one ends there.
ClassifyRootReadRange(s, off) ==
  IF off >= s.tail THEN "empty" ELSE IF s.from # NoPath /\ off < s.fork THEN "inherited" ELSE "root"
RECURSIVE ReadPages(_, _, _, _)
ReadPages(db, p, off, msgs) ==
  LET s == db[p]
      root == [path |-> p, lower |-> off, upper |-> s.tail, frame |-> TRUE]
      chain == ReadSegments(db, p, off, s.tail, TRUE)
      page == CASE ClassifyRootReadRange(s, off) = "empty" -> [ok |-> TRUE, msgs |-> <<>>]
                [] ClassifyRootReadRange(s, off) = "root" -> Collect(db, <<root>>, <<>>, TRUE)
                [] OTHER -> IF chain.ok THEN Collect(db, chain.segs, <<>>, TRUE) ELSE [ok |-> FALSE]
      next == EndOfFrames(page.msgs, s.tail)
  IN  IF ~page.ok THEN [ok |-> FALSE]
      ELSE IF next = s.tail THEN [ok |-> TRUE, msgs |-> msgs \o page.msgs]
      ELSE ReadPages(db, p, next, msgs \o page.msgs)

\* Read: read.lua on the root (expiry, soft deletion, touch), then the pages.
RedRead(p, off) ==
  LET s == red[p]
      r == ReadPages(red, p, off, <<>>)
      touched == IF s.ttl # None THEN [red EXCEPT ![p].acc = clock] ELSE red
  IN  IF ~Here(red, p) THEN [db |-> red, res |-> Err("notfound")]
      ELSE IF Expired(s) THEN [db |-> ExpireCleanup(red, p), res |-> Err("notfound")]
      ELSE IF s.soft THEN [db |-> red, res |-> Err("notfound")]
      ELSE IF ~r.ok THEN [db |-> touched, res |-> Err("missing")]
      ELSE [db |-> touched,
            res |-> [Answer EXCEPT !.msgs = r.msgs, !.off = s.tail, !.closed = s.closed,
                                   !.fresh = r.msgs # <<>> \/ off = s.tail \/ s.tail = 0]]

\* releaseRef: decr_ref.lua up the chain while it answers CASCADE.
RECURSIVE ReleaseRef(_, _)
ReleaseRef(db, parent) ==
  LET s == db[parent]
  IN  IF parent = NoPath \/ ~Here(db, parent) THEN [db |-> db, res |-> Answer]
      ELSE IF s.rc - 1 < 0 THEN [db |-> [db EXCEPT ![parent].rc = 0], res |-> Err("underflow")]
      ELSE IF s.rc = 1 /\ s.soft THEN ReleaseRef([db EXCEPT ![parent] = Absent], s.from)
      ELSE [db |-> [db EXCEPT ![parent].rc = @ - 1], res |-> Answer]

\* Delete: delete.lua does not look at the expiry either.
RedDelete(p) ==
  IF ~Here(red, p) THEN [db |-> red, res |-> Err("notfound")]
  ELSE IF red[p].soft THEN [db |-> red, res |-> Err("softdeleted")]
  ELSE IF red[p].rc > 0 THEN [db |-> [red EXCEPT ![p].soft = TRUE], res |-> Answer]
  ELSE ReleaseRef([red EXCEPT ![p] = Absent], red[p].from)

\* Create: the pre-check, the fork's resolution and its reference (incr_ref.lua)
\* in Go, then create.lua, which reaps an expired stream nobody refers to and
\* refuses one that forks still read; a refusal gives the reference back.
RedCreate(p, o) ==
  LET old == red[p]
      src == IF o.from = NoPath THEN Absent ELSE red[o.from]
      off == ForkOffset(src, o)
      cut == IF o.from = NoPath THEN [err |-> "ok", at |-> 0, prefix |-> <<>>]
             ELSE IF src.inc = 0 THEN [err |-> "notfound"]
             ELSE IF src.soft THEN [err |-> "softdeleted"]
             ELSE IF Expired(src) THEN [err |-> "notfound"]
             ELSE ForkPoint(src, o, off, ReadForkChain(red, o.from, off))
      ct == IF o.ct # "" THEN o.ct ELSE IF o.from # NoPath THEN src.ct ELSE "bin"
      life == IF o.from = NoPath THEN [ttl |-> o.ttl, exp |-> o.exp] ELSE ResolveForkExpiry(o, src)
      held == IF o.from = NoPath THEN red ELSE [red EXCEPT ![o.from].rc = @ + 1]
      stale == Here(held, p)
  IN  IF Here(red, p) /\ ~Expired(old)
      THEN [db |-> red, res |-> IF old.soft THEN Err("exists")
                                ELSE IF ConfigMatches(old, o) THEN Answer ELSE Err("mismatch")]
      ELSE IF cut.err # "ok" THEN [db |-> red, res |-> Err(cut.err)]
      ELSE IF stale /\ held[p].rc > 0
      THEN [db |-> ReleaseRef(ExpireCleanup(held, p), o.from).db, res |-> Err("exists")]
      ELSE [db |-> [held EXCEPT ![p] = NewStream(o, ct, cut.at, life,
                                                 FirstFrames(o, ct, cut.at, cut.prefix))],
            res |-> [Answer EXCEPT !.new = TRUE]]

\* fence_rung and fence_bind of common.lua.
RedFenceRung(p, r) ==
  LET s == red[p]
      fenced == r.fence # NoFence
      m == IF fenced THEN redMark[p][r.fence.auth] ELSE NoMarker
      seal == IF fenced THEN s.seals[r.fence.auth] ELSE NoSeal
      bound == IF s.wf /\ r.prod # NoProducer /\ ~fenced THEN s.bound[r.prod.id] ELSE 0
  IN  IF ~fenced /\ ~s.wf THEN Answer ELSE EvaluateWriteFence(s, r.fence, m, seal, r.prod, bound)
RedBind(s, r, off) ==
  IF r.fence # NoFence /\ s.wf THEN [s EXCEPT !.lastF = off, !.bound[r.prod.id] = r.fence.gen] ELSE s

\* Append without contention: frames by the type the request names, else by the
\* stream's, and append.lua's numbered checks.  A body that cannot be framed
\* runs the checks only, so their errors keep precedence over its own.
RedAppend(p, r) ==
  LET s == red[p]
      frameCT == IF r.ct = "" THEN s.ct ELSE r.ct
      valOnly == EmptyArray(frameCT, r.body)
      frames == FrameBody(frameCT, r.body, s.tail)
      tail == EndOfFrames(frames, s.tail)
      rung == RedFenceRung(p, r)
      t == [s EXCEPT !.acc = clock]
      Say(a) == [db |-> [red EXCEPT ![p] = t], res |-> a]
      check == IF r.prod = NoProducer THEN Answer ELSE ValidateProducer(s.prods[r.prod.id], r.prod)
      written == RedBind([t EXCEPT !.msgs = @ \o frames, !.tail = tail,
                                   !.lseq = IF r.seq = 0 THEN @ ELSE r.seq,
                                   !.closed = @ \/ r.close,
                                   !.cb = IF r.close /\ r.prod # NoProducer THEN r.prod ELSE @],
                         r, tail)
      done == IF r.prod = NoProducer THEN written
              ELSE [written EXCEPT !.prods[r.prod.id] = [epoch |-> r.prod.epoch, seq |-> r.prod.seq]]
  IN  IF ~Here(red, p) THEN [db |-> red, res |-> Err("notfound")]
      ELSE IF s.soft THEN [db |-> red, res |-> Err("softdeleted")]
      ELSE IF Expired(s) THEN [db |-> ExpireCleanup(red, p), res |-> Err("notfound")]
      ELSE IF rung.reason # "none" THEN [db |-> red, res |-> rung]
      ELSE IF s.closed
      THEN IF r.prod # NoProducer /\ s.cb = r.prod
           THEN Say([Answer EXCEPT !.off = s.tail, !.dup = TRUE, !.seq = r.prod.seq, !.closed = TRUE])
           ELSE Say([Err("closed") EXCEPT !.off = s.tail, !.closed = TRUE])
      ELSE IF ~ContentTypeMatches(s, r.ct) THEN Say(Err("ct_mismatch"))
      ELSE IF check.err # "ok" \/ check.dup THEN Say([check EXCEPT !.off = s.tail])
      ELSE IF r.seq # 0 /\ s.lseq # 0 /\ r.seq <= s.lseq THEN Say(Err("seq_conflict"))
      ELSE IF valOnly THEN Say(Err("empty_array"))
      ELSE [db |-> [red EXCEPT ![p] = done],
            res |-> [Answer EXCEPT !.off = tail, !.closed = r.close,
                                   !.seq = IF r.prod = NoProducer THEN 0 ELSE r.prod.seq]]

\* close.lua behind closeStream and CloseStreamWithProducer.
RedClose(p, r) ==
  LET s == red[p]
      rung == RedFenceRung(p, r)
      check == ValidateProducer(s.prods[r.prod.id], r.prod)
      Keep(a) == [db |-> red, res |-> [a EXCEPT !.off = s.tail]]
      signed == RedBind([s EXCEPT !.closed = TRUE, !.cb = r.prod,
                         !.prods[r.prod.id] = [epoch |-> r.prod.epoch, seq |-> r.prod.seq]], r, s.tail)
  IN  IF ~Here(red, p) THEN [db |-> red, res |-> Err("notfound")]
      ELSE IF Expired(s) THEN [db |-> ExpireCleanup(red, p), res |-> Err("notfound")]
      ELSE IF rung.reason # "none" THEN [db |-> red, res |-> rung]
      ELSE IF s.closed
      THEN IF r.prod = NoProducer
           THEN Keep([Answer EXCEPT !.closed = TRUE, !.already = TRUE])
           ELSE IF s.cb = r.prod
           THEN Keep([Answer EXCEPT !.dup = TRUE, !.seq = r.prod.seq, !.closed = TRUE, !.already = TRUE])
           ELSE Keep([Err("closed") EXCEPT !.closed = TRUE, !.already = TRUE])
      ELSE IF r.prod = NoProducer
      THEN [db |-> [red EXCEPT ![p].closed = TRUE],
            res |-> [Answer EXCEPT !.off = s.tail, !.closed = TRUE]]
      ELSE IF check.err # "ok" \/ check.dup THEN Keep(check)
      ELSE [db |-> [red EXCEPT ![p] = signed],
            res |-> [Answer EXCEPT !.off = s.tail, !.closed = TRUE, !.seq = r.prod.seq]]

\* grant_append_fence.lua.
RedGrant(p, f) ==
  LET s == red[p]
      m == redMark[p][f.auth]
      seal == s.seals[f.auth]
      off == IF s.lastF = None THEN s.tail ELSE s.lastF
      lease == IF f.gen = m.gen /\ m.lease > f.lease THEN m.lease ELSE f.lease
      over == m # NoMarker /\ f.gen > m.gen /\ s.wf /\ (seal = NoSeal \/ m.gen > seal.gen)
      Keep(a) == [db |-> red, mark |-> redMark, res |-> a]
  IN  IF f.lease <= clock THEN Keep(Err("fenced"))
      ELSE IF ~Here(red, p) THEN Keep(Answer)
      ELSE IF seal # NoSeal /\ f.gen <= seal.gen THEN Keep(Err("fenced"))
      ELSE IF f.gen < m.gen THEN Keep(Err("fenced"))
      ELSE IF f.gen = m.gen /\ (m.state # "live" \/ m.holder # f.holder) THEN Keep(Err("fenced"))
      ELSE [db |-> IF over THEN [red EXCEPT ![p].seals[f.auth] = [gen |-> m.gen, off |-> off],
                                            ![p].sealGen = m.gen, ![p].sealOff = off] ELSE red,
            mark |-> [redMark EXCEPT ![p][f.auth] = [state |-> "live", gen |-> f.gen,
                        holder |-> f.holder, lease |-> lease, inc |-> s.inc]],
            res |-> [Answer EXCEPT !.new = TRUE]]

\* revoke_append_fence.lua and seal_append_fence.lua: a stale request writes
\* nothing, any other leaves a tombstone that keeps the marker's incarnation.
RedTombstone(p, f) ==
  LET m == redMark[p][f.auth]
      stale == f.gen < m.gen \/ (f.gen = m.gen /\ m.holder # f.holder)
  IN  IF stale THEN redMark
      ELSE [redMark EXCEPT ![p][f.auth] = [state |-> "revoked", gen |-> f.gen,
                                           holder |-> f.holder, lease |-> 0, inc |-> @.inc]]
RedRevoke(p, f) == [db |-> red, mark |-> RedTombstone(p, f), res |-> Answer]
RedSeal(p, f) ==
  LET s == red[p]
      m == redMark[p][f.auth]
      seal == s.seals[f.auth]
      off == IF s.lastF = None THEN s.tail ELSE s.lastF
      Say(db, a) == [db |-> db, mark |-> RedTombstone(p, f), res |-> a]
  IN  IF f.gen < m.gen \/ (f.gen = m.gen /\ m.holder # f.holder) THEN Say(red, Err("stale"))
      ELSE IF ~Here(red, p) THEN Say(red, Err("notfound"))
      ELSE IF ~s.wf THEN Say(red, Err("unfenced"))
      ELSE IF seal # NoSeal /\ f.gen <= seal.gen
      THEN Say(red, [Err("already") EXCEPT !.gen = seal.gen, !.off = seal.off])
      ELSE Say([red EXCEPT ![p].seals[f.auth] = [gen |-> f.gen, off |-> off],
                           ![p].sealGen = f.gen, ![p].sealOff = off],
               [Answer EXCEPT !.gen = f.gen, !.off = off])

(***************************************************************************)
(* Both stores together.                                                   *)
(***************************************************************************)

Ops == {"create", "append", "close", "read", "delete", "grant", "revoke", "seal"}

Init ==
  /\ mem = [p \in Paths |-> Absent]
  /\ red = [p \in Paths |-> Absent]
  /\ memMark = [p \in Paths |-> [a \in Authorities |-> NoMarker]]
  /\ redMark = [p \in Paths |-> [a \in Authorities |-> NoMarker]]
  /\ clock = 0
  /\ births = 0
  /\ odd = {}
  /\ parted = FALSE
  /\ budget \in Budgets

\* The equivalence test's error classes: a soft-deleted stream and a missing
\* one are both out of reach.
Class(a) == IF a.err = "softdeleted" THEN [a EXCEPT !.err = "notfound"] ELSE a

\* The test compares the calls that are blind to expiry on a live stream only.
Blind == {"delete", "grant", "revoke", "seal"}
Compared(op, p) == op \in Blind => Alive(mem, p) /\ Alive(red, p)

\* One operation on both stores; `m` and `r` are what each makes of it.  The
\* comparison is over once they have parted.
Both(op, p, m, r) ==
  /\ budget.ops > 0 /\ p \in budget.paths
  /\ ~parted
  /\ budget' = [budget EXCEPT !.ops = @ - 1]
  /\ mem' = m.db
  /\ red' = r.db
  /\ odd' = IF parted' \/ ~Compared(op, p) \/ Class(m.res) = Class(r.res) THEN odd
            ELSE odd \cup {op}
  /\ UNCHANGED clock

KeepMarks == UNCHANGED <<memMark, redMark>>

\* The streams a delete of p may reach: p and the sources above it.
RECURSIVE Above(_, _)
Above(db, p) ==
  IF p = NoPath THEN {} ELSE {p} \cup (IF Here(db, p) THEN Above(db, db[p].from) ELSE {})

\* One store has noticed that q expired and acted on it; the other has not.
NoticedByOne(q) ==
  \/ Here(mem, q) # Here(red, q)
  \/ Here(mem, q) /\ Here(red, q) /\ mem[q].soft # red[q].soft

\* The two situations after which the stores no longer agree, both about a
\* stream that expired: a delete that reaches a stream only one of them has
\* cleaned up, and a create over a stream that forks still read.  A comparison
\* ends there.  (In the in-memory store that create can even make the fork
\* chain a circle, which its readers would follow for ever.)
DeleteParts(p) == \E q \in Above(mem, p) \cup Above(red, p) : NoticedByOne(q)
CreateParts(p) == Here(red, p) /\ Expired(red[p]) /\ red[p].rc > 0

Create == \E p \in Paths, o \in budget.creates :
  /\ o.from # p
  /\ parted' = (parted \/ CreateParts(p))
  /\ Both("create", p, MemCreate(p, o), RedCreate(p, o))
  /\ births' = births + 1
  /\ KeepMarks

Append_ == \E p \in Paths, r \in budget.appends :
  /\ UNCHANGED <<births, parted>>
  /\ Both("append", p, MemAppend(p, r), RedAppend(p, r))
  /\ KeepMarks

Close == \E p \in Paths, r \in budget.closes :
  /\ UNCHANGED <<births, parted>>
  /\ Both("close", p, MemClose(p, r), RedClose(p, r))
  /\ KeepMarks

Read == \E p \in Paths, off \in budget.reads :
  /\ UNCHANGED <<births, parted>>
  /\ Both("read", p, MemRead(p, off), RedRead(p, off))
  /\ KeepMarks

Delete == \E p \in Paths :
  /\ budget.deletes
  /\ parted' = (parted \/ DeleteParts(p))
  /\ Both("delete", p, MemDelete(p), RedDelete(p))
  /\ KeepMarks /\ UNCHANGED births

Fencing(op, p, m, r) ==
  /\ UNCHANGED <<births, parted>>
  /\ Both(op, p, m, r)
  /\ memMark' = m.mark
  /\ redMark' = r.mark

Grant == \E p \in Paths, f \in budget.fences : Fencing("grant", p, MemGrant(p, f), RedGrant(p, f))
Revoke == \E p \in Paths, f \in budget.fences : Fencing("revoke", p, MemRevoke(p, f), RedRevoke(p, f))
Seal == \E p \in Paths, f \in budget.fences : Fencing("seal", p, MemSeal(p, f), RedSeal(p, f))

Tick ==
  /\ budget.ticks > 0
  /\ budget' = [budget EXCEPT !.ticks = @ - 1]
  /\ clock' = clock + 1
  /\ UNCHANGED <<mem, red, memMark, redMark, births, odd, parted>>

\* The key expiry refresh_backstop sets: Redis drops an expired stream that
\* nobody refers to, some time after its deadline.
Reap == \E p \in Paths :
  /\ Here(red, p) /\ Expired(red[p]) /\ red[p].rc = 0 /\ ~red[p].soft
  /\ red' = [red EXCEPT ![p] = Absent]
  /\ UNCHANGED <<mem, memMark, redMark, clock, births, odd, parted, budget>>

Next ==
  \/ Create \/ Append_ \/ Close \/ Read \/ Delete
  \/ Grant \/ Revoke \/ Seal \/ Tick \/ Reap

Spec == Init /\ [][Next]_vars

(***************************************************************************)
(* Properties.                                                             *)
(***************************************************************************)

\* Streams in either store are well formed: message ends rise strictly up to
\* the tail, a fork starts at its fork point, counts are not negative.
WellFormed(s) ==
  /\ s.inc \in 1..births
  /\ s.ct \in {"bin", "json"}
  /\ s.rc \in Nat
  /\ s.tail = EndOfFrames(s.msgs, s.fork)
  /\ \A i \in 1..Len(s.msgs) :
       s.msgs[i].end = Len(s.msgs[i].data) + (IF i = 1 THEN s.fork ELSE s.msgs[i - 1].end)
  /\ s.lastF \in None..s.tail
  /\ s.sealOff \in None..s.tail

TypeOK ==
  /\ \A p \in Paths : /\ Here(mem, p) => WellFormed(mem[p])
                      /\ Here(red, p) => WellFormed(red[p])
  /\ clock \in Nat /\ births \in Nat /\ parted \in BOOLEAN
  /\ odd \subseteq Ops

\* The oracle and the subject give the same answer to the same call, except
\* that calls blind to expiry (delete and the fence calls) are compared only on
\* a live stream, as equivalence_test.go does.
AnswersAgree == odd = {}

\* What HEAD shows of a live stream.
Shown(s) == [ct |-> s.ct, tail |-> s.tail, closed |-> s.closed, cb |-> s.cb, rc |-> s.rc,
             from |-> s.from, fork |-> s.fork, lseq |-> s.lseq, wf |-> s.wf,
             prods |-> s.prods, gen |-> s.sealGen, off |-> s.sealOff, ttl |-> s.ttl, exp |-> s.exp]

\* After every step the same streams are live in both stores, with the same
\* metadata and the same content along the whole fork chain.
ViewsAgree ==
  parted \/ \A p \in Paths :
    /\ Alive(mem, p) <=> Alive(red, p)
    /\ Alive(mem, p) => /\ Shown(mem[p]) = Shown(red[p])
                        /\ MemRead(p, 0).res = RedRead(p, 0).res

\* No live stream of the Redis store ever loses the data it inherits: whatever
\* expired, was deleted or was re-created, its sources stay readable.
ForksStayWhole ==
  \A p \in Paths : Alive(red, p) => RedRead(p, 0).res.err = "ok"

\* The same claim without the exemption of `parted`.
StoresAgree ==
  \A p \in Paths : Alive(mem, p) /\ Alive(red, p) => Shown(mem[p]) = Shown(red[p])
=============================================================================
