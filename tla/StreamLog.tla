----------------------------- MODULE StreamLog ------------------------------
(***************************************************************************)
(* One stream of the Redis store: its meta hash, message ZSET and producer *)
(* hash, the clients that append, close and delete, and the readers that   *)
(* page through it.                                                        *)
(*                                                                         *)
(* append.lua, close.lua, create.lua, delete.lua and read.lua are atomic.  *)
(* An append is framed against a tail its caller read earlier, and a read  *)
(* of several pages is several scripts, so `calls' and `reads' hold what a *)
(* caller remembers from one script to the next.  A client may send any    *)
(* request again at any time, as it does when an answer was lost.          *)
(*                                                                         *)
(* A message carries the request it came from, its position in it and its  *)
(* size; offsets count bytes.  Time only shows as `expired': every script  *)
(* looks at it before it would touch the sliding TTL.                      *)
(***************************************************************************)
EXTENDS Integers, Sequences, FiniteSets, FiniteSetsExt

CONSTANTS Clients,    \* concurrent request handlers
          Readers,    \* concurrent read sessions
          Producers,  \* Producer-Id values
          NoProducer,
          Initials,   \* initial contents a PUT may carry (sizes of messages)
          MaxTries,   \* maxAppendRetries
          PageFrames, \* MaxFrames of a page
          PageBytes,  \* TargetBytes of a page
          MaxInc,     \* bound on the number of incarnations
          Scenes      \* the POST bodies and headers clients send, the read sessions,
                      \* and a bound on the messages of one incarnation

\* The requests of every scene.
Requests == UNION {Scenes[x].requests : x \in DOMAIN Scenes}

\* What handleAppend lets through to the store: epochs and sequences are parsed
\* as non-negative numbers, only a close-only request has an empty body, and a
\* body that would frame no message is refused.  A framed message is not empty.
ASSUME RequestAssumption ==
    /\ NoProducer \notin Producers
    /\ \A r \in Requests :
          /\ r.kind \in {"append", "close"} /\ r.close \in BOOLEAN
          /\ r.prod \in Producers \cup {NoProducer}
          /\ r.epoch \in Nat /\ r.seq \in Nat
          /\ r.sizes \in Seq(Nat \ {0})
          /\ r.kind = "append" /\ r.valid => r.sizes # <<>>
          /\ r.kind = "close" => r.sizes = <<>>
    /\ Initials \subseteq Seq(Nat \ {0})
    /\ MaxInc \in Nat /\ PageFrames \in Nat /\ PageBytes \in Nat

VARIABLES stream,  \* the stream's keys
          prods,   \* producer hash: last accepted <<epoch, seq>>
          calls,   \* what a request handler remembers
          reads,   \* what a read session remembers, and has sent
          told,    \* success answers given to requests of this incarnation
          scene    \* one of the Scenes, fixed in Init

vars == <<stream, prods, calls, reads, told, scene>>

-----------------------------------------------------------------------------
(* State *)

NoState == <<-1, -1>>
NoTuple == <<NoProducer, -1, -1>>
Idle == [at |-> "idle"]
ContentTypes == {"json", "binary"}

Gone == [phase |-> "none", inc |-> 0, ct |-> "binary", msgs |-> <<>>,
         tail |-> 0, lastSeq |-> 0, cb |-> NoTuple, expired |-> FALSE]

Tuple(r) == <<r.prod, r.epoch, r.seq>>
HasProducer(r) == r.prod # NoProducer
Exists == stream.phase # "none"

\* Stream.Get, and the existence rungs of the scripts, see neither an absent
\* nor an expired stream.
Visible == Exists /\ ~stream.expired

-----------------------------------------------------------------------------
(* Helpers shared by the handlers *)

\* Mutant: the duplicate check is off by one, so the last sequence is taken again.
ValidateProducerOffByOne(state, epoch, seq) ==
    IF state = NoState THEN IF seq = 0 THEN "accept" ELSE "gap"
    ELSE IF epoch < state[1] THEN "stale"
    ELSE IF epoch > state[1] THEN IF seq = 0 THEN "accept" ELSE "epochseq"
    ELSE IF seq < state[2] THEN "dup"
    ELSE IF seq <= state[2] + 1 THEN "accept" ELSE "gap"

\* Mutant: epochs are not compared before sequences, so a request of a fenced
\* epoch is taken for a duplicate.
ValidateProducerStaleAsDup(state, epoch, seq) ==
    IF state = NoState THEN IF seq = 0 THEN "accept" ELSE "gap"
    ELSE IF epoch > state[1] THEN IF seq = 0 THEN "accept" ELSE "epochseq"
    ELSE IF seq <= state[2] \/ epoch < state[1] THEN "dup"
    ELSE IF seq = state[2] + 1 THEN "accept" ELSE "gap"

\* ValidateProducer, and validate_producer of common.lua.
ValidateProducer(state, epoch, seq) ==
    IF state = NoState THEN IF seq = 0 THEN "accept" ELSE "gap"
    ELSE IF epoch < state[1] THEN "stale"
    ELSE IF epoch > state[1] THEN IF seq = 0 THEN "accept" ELSE "epochseq"
    ELSE IF seq <= state[2] THEN "dup"
    ELSE IF seq = state[2] + 1 THEN "accept" ELSE "gap"

\* The bytes of the first i messages of a body, for every i.
TotalSize(sizes) ==
    LET total[i \in 0 .. Len(sizes)] == IF i = 0 THEN 0 ELSE total[i - 1] + sizes[i]
    IN  total

\* buildFrames: the messages of a body, with end offsets counted from base.
BuildFrames(r, base) ==
    [i \in 1 .. Len(r.sizes) |->
        [req |-> r, part |-> i, size |-> r.sizes[i],
         end |-> base + TotalSize(r.sizes)[i]]]

NewTail(frames, base) == IF frames = <<>> THEN base ELSE frames[Len(frames)].end

Answer(r, res, closed) ==
    told' = told \cup {[req |-> r, res |-> res, closed |-> closed]}

Return(c) == calls' = [calls EXCEPT ![c] = Idle]

\* expire_cleanup, for a stream without forks: every key is deleted.
Reset ==
    /\ stream' = [Gone EXCEPT !.inc = stream.inc]
    /\ prods' = [p \in Producers |-> NoState]
    /\ told' = {}

-----------------------------------------------------------------------------
(* The stream's own life *)

\* create.lua on an absent or expired path.
Create(ct, sizes, closed) ==
    LET put == [kind |-> "put", prod |-> NoProducer, sizes |-> sizes]
        frames == BuildFrames(put, 0)
    IN  /\ ~Visible /\ stream.inc < MaxInc /\ Len(frames) <= Scenes[scene].msgs
        /\ stream' = [Gone EXCEPT !.phase = IF closed THEN "closed" ELSE "open",
                                  !.inc = stream.inc + 1, !.ct = ct,
                                  !.msgs = frames, !.tail = NewTail(frames, 0)]
        /\ prods' = [p \in Producers |-> NoState]
        /\ told' = {}
        /\ UNCHANGED <<calls, reads, scene>>

\* delete.lua does not look at expiry; the key TTL reaps what has expired.
Delete == Exists /\ Reset /\ UNCHANGED <<calls, reads, scene>>

Expire ==
    /\ Visible
    /\ stream' = [stream EXCEPT !.expired = TRUE]
    /\ UNCHANGED <<prods, calls, reads, told, scene>>

-----------------------------------------------------------------------------
(* Appending and closing *)

\* handleAppend up to the store call: Get, the content-type check on what it
\* returned, and the tail as a hint.
Receive(c, r) ==
    /\ calls[c] = Idle /\ Visible
    /\ r.kind = "append" => r.ct = stream.ct
    /\ calls' = [calls EXCEPT ![c] = [at |-> r.kind, req |-> r,
                                      base |-> stream.tail, tries |-> 0]]
    /\ UNCHANGED <<stream, prods, reads, told, scene>>

\* append.lua finds the stream expired.
AppendExpired(c) ==
    /\ calls[c].at = "append" /\ Exists /\ stream.expired
    /\ Reset /\ Return(c) /\ UNCHANGED <<reads, scene>>

\* Mutant: closure is only tested by the handler's snapshot, not in the script.
AppendOutcomeWhenClosed(r) ==
    LET producer == IF HasProducer(r)
                    THEN ValidateProducer(prods[r.prod], r.epoch, r.seq)
                    ELSE "accept"
    IN  IF ~Exists THEN "notfound"
        ELSE IF r.ct # stream.ct THEN "ctmismatch"
        ELSE IF producer # "accept" THEN producer
        ELSE IF r.sseq # 0 /\ r.sseq <= stream.lastSeq THEN "seqconflict"
        ELSE IF ~r.valid THEN "valonly" ELSE "write"

\* The validation ladder of append.lua after its expiry rung.
AppendOutcome(r) ==
    LET producer == IF HasProducer(r)
                    THEN ValidateProducer(prods[r.prod], r.epoch, r.seq)
                    ELSE "accept"
    IN  IF ~Exists THEN "notfound"
        ELSE IF stream.phase = "closed"
             THEN IF HasProducer(r) /\ stream.cb = Tuple(r) THEN "dup" ELSE "closed"
        ELSE IF r.ct # stream.ct THEN "ctmismatch"
        ELSE IF producer # "accept" THEN producer
        ELSE IF r.sseq # 0 /\ r.sseq <= stream.lastSeq THEN "seqconflict"
        ELSE IF ~r.valid THEN "valonly" ELSE "write"

\* Every outcome that writes nothing.
AppendRefused(c) ==
    LET r == calls[c].req
        outcome == AppendOutcome(r)
    IN  /\ calls[c].at = "append" /\ ~stream.expired /\ outcome # "write"
        /\ IF outcome = "dup" THEN Answer(r, "dup", stream.phase = "closed")
                              ELSE UNCHANGED told
        /\ Return(c)
        /\ UNCHANGED <<stream, prods, reads, scene>>

\* The tail moved since the frames were built: RETRY carries the live tail,
\* until the attempts run out.
AppendRetry(c) ==
    LET again == calls[c].tries + 1
    IN  /\ calls[c].at = "append" /\ ~stream.expired
        /\ AppendOutcome(calls[c].req) = "write"
        /\ stream.tail # calls[c].base
        /\ IF again < MaxTries
           THEN calls' = [calls EXCEPT ![c].base = stream.tail,
                                       ![c].tries = again]
           ELSE Return(c)
        /\ UNCHANGED <<stream, prods, reads, told, scene>>

\* The commit: frames and tail, Stream-Seq, closure with its tuple, and the
\* producer's state, all in the script.
AppendCommit(c) ==
    LET r == calls[c].req
        frames == BuildFrames(r, calls[c].base)
    IN  /\ calls[c].at = "append" /\ ~stream.expired
        /\ AppendOutcome(r) = "write"
        /\ stream.tail = calls[c].base
        /\ Len(stream.msgs) + Len(frames) <= Scenes[scene].msgs
        /\ stream' = [stream EXCEPT
                        !.msgs = @ \o frames,
                        !.tail = NewTail(frames, calls[c].base),
                        !.lastSeq = IF r.sseq # 0 THEN r.sseq ELSE @,
                        !.phase = IF r.close THEN "closed" ELSE @,
                        !.cb = IF r.close /\ HasProducer(r) THEN Tuple(r) ELSE @]
        /\ prods' = IF HasProducer(r)
                    THEN [prods EXCEPT ![r.prod] = <<r.epoch, r.seq>>] ELSE prods
        /\ Answer(r, "ok", r.close)
        /\ Return(c)
        /\ UNCHANGED <<reads, scene>>

\* close.lua, reached by an empty body with Stream-Closed: true.  The handler
\* answers every success with Stream-Closed: true.
Close(c) ==
    LET r == calls[c].req
        outcome == ValidateProducer(prods[r.prod], r.epoch, r.seq)
        closing == ~HasProducer(r) \/ outcome = "accept"
        success == IF stream.phase = "closed"
                   THEN ~HasProducer(r) \/ stream.cb = Tuple(r)
                   ELSE closing \/ outcome = "dup"
    IN  /\ calls[c].at = "close" /\ ~stream.expired
        /\ IF stream.phase = "open" /\ closing
           THEN /\ stream' = [stream EXCEPT
                                !.phase = "closed",
                                !.cb = IF HasProducer(r) THEN Tuple(r) ELSE @]
                /\ prods' = IF HasProducer(r)
                            THEN [prods EXCEPT ![r.prod] = <<r.epoch, r.seq>>]
                            ELSE prods
           ELSE UNCHANGED <<stream, prods>>
        /\ IF Exists /\ success THEN Answer(r, "ok", TRUE) ELSE UNCHANGED told
        /\ Return(c)
        /\ UNCHANGED <<reads, scene>>

CloseExpired(c) ==
    /\ calls[c].at = "close" /\ Exists /\ stream.expired
    /\ Reset /\ Return(c) /\ UNCHANGED <<reads, scene>>

-----------------------------------------------------------------------------
(* Reading *)

\* The frames of one page: those past `next' and within the snapshot's tail,
\* as many as fit, and always one if there is one.
PageOf(next, tail) ==
    LET ahead == {i \in 1 .. Len(stream.msgs) :
                     next < stream.msgs[i].end /\ stream.msgs[i].end <= tail}
        first == Min(ahead)
        fits(i) == /\ i < first + PageFrames
                   /\ stream.msgs[i].end - stream.msgs[first].end
                         + stream.msgs[first].size <= PageBytes
    IN  {i \in ahead : i = first \/ fits(i)}

\* The k-th frame of a page.
KthOf(page, k) == CHOOSE i \in page : Cardinality({j \in page : j <= i}) = k

\* What a session has sent after one more page.
Deliver(read, page) ==
    LET next == IF page = {} THEN read.tail ELSE stream.msgs[Max(page)].end
    IN  [read EXCEPT !.sent = @ \o [k \in 1 .. Cardinality(page) |->
                                       <<stream.inc, KthOf(page, k)>>],
                     !.next = next,
                     !.at = IF next = read.tail THEN "done" ELSE "paging"]

\* The first page captures incarnation, tail and closure (read.lua), and is
\* empty when the offset is at or past the tail.
ReadFirst(rd, offset) ==
    LET read == [at |-> "paging", inc |-> stream.inc, tail |-> stream.tail,
                 closed |-> stream.phase = "closed", from |-> offset,
                 next |-> offset, sent |-> <<>>]
    IN  /\ reads[rd].at # "paging" /\ Visible
        /\ reads' = [reads EXCEPT ![rd] = Deliver(read, PageOf(offset, read.tail))]
        /\ UNCHANGED <<stream, prods, calls, told, scene>>

\* Mutant: a later page does not compare the incarnation.
ReadNextOfAny(rd) ==
    LET read == reads[rd]
        page == PageOf(read.next, read.tail)
    IN  /\ read.at = "paging" /\ ~stream.expired
        /\ reads' = [reads EXCEPT ![rd] =
                        IF ~Exists THEN [read EXCEPT !.at = "changed"]
                        ELSE IF page = {} THEN [read EXCEPT !.at = "missing"]
                        ELSE Deliver(read, page)]
        /\ UNCHANGED <<stream, prods, calls, told, scene>>

\* A later page of the same response: the incarnation must not have changed,
\* and the frames up to the snapshot's tail must be there.
ReadNext(rd) ==
    LET read == reads[rd]
        page == PageOf(read.next, read.tail)
    IN  /\ read.at = "paging" /\ ~stream.expired
        /\ reads' = [reads EXCEPT ![rd] =
                        IF ~Exists \/ stream.inc # read.inc
                        THEN [read EXCEPT !.at = "changed"]
                        ELSE IF page = {} THEN [read EXCEPT !.at = "missing"]
                        ELSE Deliver(read, page)]
        /\ UNCHANGED <<stream, prods, calls, told, scene>>

\* read.lua finds the stream expired.
ReadExpired(rd) ==
    /\ Exists /\ stream.expired
    /\ Reset
    /\ reads' = [reads EXCEPT ![rd] = IF @.at = "paging"
                                     THEN [@ EXCEPT !.at = "changed"] ELSE @]
    /\ UNCHANGED <<calls, scene>>

-----------------------------------------------------------------------------
Init ==
    /\ stream = Gone
    /\ prods = [p \in Producers |-> NoState]
    /\ calls = [c \in Clients |-> Idle]
    /\ reads = [rd \in Readers |-> Idle]
    /\ told = {}
    /\ scene \in DOMAIN Scenes

Next ==
    \/ \E ct \in ContentTypes, sizes \in Initials, closed \in BOOLEAN :
          Create(ct, sizes, closed)
    \/ Delete \/ Expire
    \/ \E c \in Clients :
          \/ \E r \in Scenes[scene].requests : Receive(c, r)
          \/ AppendExpired(c) \/ AppendRefused(c) \/ AppendRetry(c)
          \/ AppendCommit(c)
          \/ Close(c) \/ CloseExpired(c)
    \/ \E rd \in Scenes[scene].readers :
          \/ \E offset \in 0 .. stream.tail : ReadFirst(rd, offset)
          \/ ReadNext(rd) \/ ReadExpired(rd)

Spec == Init /\ [][Next]_vars

-----------------------------------------------------------------------------
(* Properties *)

\* Every variable has the shape the store gives it.
TypeOK ==
    /\ stream.phase \in {"none", "open", "closed"}
    /\ stream.inc \in 0 .. MaxInc /\ stream.ct \in ContentTypes
    /\ Len(stream.msgs) <= Scenes[scene].msgs
    /\ \A p \in Producers : prods[p] = NoState \/ prods[p] \in Nat \X Nat
    /\ \A c \in Clients : calls[c] = Idle \/ calls[c].tries < MaxTries
    /\ \A rd \in Readers :
          reads[rd] = Idle \/ reads[rd].next <= reads[rd].tail \/ reads[rd].at = "paging"

\* Frames follow each other without gap or overlap and the tail is the end of
\* the last one, although each was framed against a tail read earlier.
FramesAreContiguous ==
    /\ \A i \in 1 .. Len(stream.msgs) :
          stream.msgs[i].end = stream.msgs[i].size +
                               (IF i = 1 THEN 0 ELSE stream.msgs[i - 1].end)
    /\ stream.tail = NewTail(stream.msgs, 0)

\* A producer's messages are in the log once each, in (epoch, seq) order and
\* without a gap in seq, whatever it re-sent and however its requests
\* overtook each other.
ProducerLogIsExact ==
    LET own == {i \in 1 .. Len(stream.msgs) : HasProducer(stream.msgs[i].req)}
        key(i) == Tuple(stream.msgs[i].req)
    IN  /\ \A i, j \in own :
             i < j /\ key(i)[1] = key(j)[1] =>
                \/ key(i)[2] < key(j)[2]
                \/ key(i)[2] = key(j)[2] /\ key(i)[3] < key(j)[3]
                \/ key(i) = key(j) /\ stream.msgs[i].part < stream.msgs[j].part
        /\ \A i \in own : key(i)[3] > 0 =>
             \E j \in own : j < i /\ key(j) = [key(i) EXCEPT ![3] = @ - 1]

\* What a client was told succeeded is in the log: its messages, or, for a
\* request taken as a duplicate, messages sent under the same producer tuple
\* (or the closure recorded under it).
AnsweredIsStored ==
    \A t \in told :
       IF HasProducer(t.req)
       THEN \/ stream.cb = Tuple(t.req)
            \/ \E i \in 1 .. Len(stream.msgs) :
                  /\ HasProducer(stream.msgs[i].req)
                  /\ Tuple(stream.msgs[i].req) = Tuple(t.req)
       ELSE \A k \in 1 .. Len(t.req.sizes) :
              \E i \in 1 .. Len(stream.msgs) :
                 stream.msgs[i].req = t.req /\ stream.msgs[i].part = k

\* A session sends one incarnation's messages, each once, in order and without
\* a gap from the offset it was asked for; when it is done it has sent all up
\* to the tail it announced.  The frames it needs are never missing.
ReadsAreOneSnapshot ==
    \A rd \in Readers : reads[rd] # Idle =>
       LET read == reads[rd]
       IN  /\ read.at # "missing"
           /\ \A k \in 1 .. Len(read.sent) :
                 /\ read.sent[k][1] = read.inc
                 /\ k > 1 => read.sent[k][2] = read.sent[k - 1][2] + 1
           /\ Exists /\ stream.inc = read.inc =>
                 {read.sent[k][2] : k \in 1 .. Len(read.sent)} =
                 {i \in 1 .. Len(stream.msgs) :
                    /\ read.from < stream.msgs[i].end
                    /\ stream.msgs[i].end <= read.next}

\* Once a response announced the end of the stream, no message follows the
\* tail it announced.
EndOfStreamIsFinal ==
    \A rd \in Readers :
       reads[rd] # Idle /\ Exists /\ stream.inc = reads[rd].inc =>
          /\ reads[rd].closed => stream.tail = reads[rd].tail
          /\ reads[rd].tail <= stream.tail

\* Stream-Closed: true on a close-only answer confirms that the stream is
\* closed now.
CloseAnswerIsTrue ==
    \A t \in told : Exists /\ t.req.kind = "close" /\ t.closed =>
       stream.phase = "closed"

-----------------------------------------------------------------------------
Abstract == INSTANCE AppendLog
              WITH log <- stream.msgs, closed <- stream.phase = "closed",
                   life <- <<stream.inc, Exists>>

\* The scripts implement a log that only grows, that is final once closed and
\* that only a new incarnation replaces.
ImplementsAppendLog == Abstract!LSpec
=============================================================================
