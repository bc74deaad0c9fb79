----------------------------- MODULE MCStorage -----------------------------
(***************************************************************************)
(* Small instances of what stores streams: the two stores side by side     *)
(* (StoreEquivalence), the sealed segments of a stream (Segments) and the  *)
(* format of one segment (SegmentCodec).  They share no state; a behaviour *)
(* is one of one of them, and the others rest.                             *)
(***************************************************************************)
EXTENDS StoreEquivalence, TLC

CONSTANTS n1, n2, r1, r2, x, y

VARIABLE part   \* "stores", "segments" or "codec"

-----------------------------------------------------------------------------
(* The stores: forks that expire on their own over three paths, producers  *)
(* and JSON or binary bodies, and claims on a fenced stream.               *)

Opts == [ct |-> "", ttl |-> None, exp |-> None, closed |-> FALSE, wf |-> FALSE,
         from |-> NoPath, off |-> None, sub |-> 0, body |-> <<>>]
Req == [ct |-> "", body |-> <<<<"x">>>>, seq |-> 0, close |-> FALSE, prod |-> NoProducer,
        fence |-> NoFence]
Prod(i, e, q) == [id |-> i, epoch |-> e, seq |-> q]
Claim(a, g, h, l) == [auth |-> a, gen |-> g, holder |-> h, lease |-> l]

MCPaths == {"a", "b", "c"}
NoCalls == [ops |-> 0, ticks |-> 0, paths |-> MCPaths, creates |-> {}, appends |-> {},
          closes |-> {}, reads |-> {}, deletes |-> FALSE, fences |-> {}]

Two == <<<<"x", "y">>>>

\* A chain a <- b <- c whose members expire on their own, and are read.
Lifetimes == [NoCalls EXCEPT !.ops = 5, !.ticks = 2, !.deletes = TRUE, !.reads = {0},
  !.creates = {[Opts EXCEPT !.body = Two], [Opts EXCEPT !.body = Two, !.ttl = 0],
               [Opts EXCEPT !.from = "a", !.ttl = 2], [Opts EXCEPT !.from = "a", !.exp = 0],
               [Opts EXCEPT !.from = "b"]}]

\* The same with appends, shorter.
Touched == [Lifetimes EXCEPT !.ops = 4, !.ticks = 1, !.appends = {Req}]

\* JSON and binary streams cut at offsets and sub-offsets, inside a frame too.
Cut(from, off, sub) == [Opts EXCEPT !.from = from, !.off = off, !.sub = sub]
Framing == [NoCalls EXCEPT !.ops = 5, !.reads = {0, 1},
  !.appends = {[Req EXCEPT !.ct = t, !.body = b] : t \in {"", "json"}, b \in {<<>>, Two, <<<<"x">>, <<"y">>>>}},
  !.creates = {[Opts EXCEPT !.ct = t, !.body = <<<<"x">>, <<"y", "z">>>>] : t \in {"", "json"}}
              \cup {[Cut("a", 1, 1) EXCEPT !.body = Two], Cut("a", 1, 0), Cut("a", 0, 2), Cut("b", None, 0), Cut("b", 1, 1)}]

\* Two epochs of a producer, an application sequence and both ways to close.
Prods == {Prod("i1", e, q) : e \in 1..2, q \in 0..1} \cup {NoProducer}
Producing == [NoCalls EXCEPT !.ops = 7, !.paths = {"a"},
  !.creates = {Opts}, !.deletes = TRUE,
  !.appends = {[Req EXCEPT !.prod = p, !.close = c] : p \in Prods, c \in BOOLEAN}
              \cup {[Req EXCEPT !.seq = n] : n \in 1..2},
  !.closes = {[Req EXCEPT !.prod = p] : p \in Prods}]

\* Two generations of a claim by two holders on a stream that opted in.
Claims == {Claim("s1", 1, "w1", 1), Claim("s1", 1, "w2", 2), Claim("s1", 2, "w2", 2)}
Fenced == [NoCalls EXCEPT !.ops = 7, !.ticks = 1, !.paths = {"a"},
  !.creates = {[Opts EXCEPT !.wf = TRUE], Opts}, !.deletes = TRUE, !.fences = Claims,
  !.appends = {[Req EXCEPT !.fence = f, !.prod = Prod("i1", f.gen, 0)] : f \in Claims}
              \cup {[Req EXCEPT !.prod = Prod("i1", 2, 0)], Req},
  !.closes = {[Req EXCEPT !.fence = Claim("s1", 2, "w2", 2), !.prod = Prod("i1", 2, 1)]}]

MCCalls == {Lifetimes, Touched, Framing, Producing, Fenced}

storeVars == vars

-----------------------------------------------------------------------------
(* The segments; every field of a scenario bounds what a behaviour does.   *)

VARIABLES primary, manifests, pointer, objects, cache, op, late, known, reader, pins, left

segVars == <<primary, manifests, pointer, objects, cache, op, late, known, reader, pins, left>>

Nodes == {n1, n2}
Readers == {r1, r2}
Values == {x, y}
MaxLen == 3

Quiet == [mode |-> "files", initial |-> "serving", auto |-> FALSE, nodes |-> {n1}, creates |-> 1, deletes |-> 0,
          appends |-> 0, seals |-> 0, repairs |-> 0, transitions |-> 0, reads |-> 0, faults |-> 0, crashes |-> 0,
          rots |-> 0]

SegBudgets ==
    { \* a seal of another process against the re-creation of the stream
      [Quiet EXCEPT !.nodes = {n1, n2}, !.creates = 2, !.deletes = 1, !.seals = 1],
      \* a reader against the re-creation of the stream, one tombstone failing
      [Quiet EXCEPT !.mode = "redis", !.creates = 2, !.deletes = 1, !.reads = 2, !.faults = 1],
      \* a failed attempt, a power loss, a second attempt
      [Quiet EXCEPT !.seals = 1, !.faults = 1, !.crashes = 1, !.appends = 1],
      \* rot, repair and the object cache
      [Quiet EXCEPT !.mode = "object", !.rots = 1, !.repairs = 1, !.reads = 1, !.appends = 1, !.seals = 1],
      \* two readers of one generation while the next is published
      [Quiet EXCEPT !.mode = "redis", !.seals = 1, !.reads = 2, !.appends = 1],
      \* transitions of two processes against a seal
      [Quiet EXCEPT !.nodes = {n1, n2}, !.mode = "redis", !.initial = "shadow", !.seals = 1, !.transitions = 2],
      \* readers that seal first
      [Quiet EXCEPT !.mode = "redis", !.auto = TRUE, !.reads = 2, !.appends = 1, !.crashes = 1] }

Seg == INSTANCE Segments WITH
    MaxInc <- 2, MaxTries <- 2, SealPage <- 1, PageSize <- 1, CacheSize <- 1, Keep <- 1,
    Budgets <- SegBudgets, budget <- left

-----------------------------------------------------------------------------
(* One segment: up to four records of up to three bytes.                   *)

VARIABLES ref, data, bad, opts, from, page, got

codVars == <<ref, data, bad, opts, from, page, got>>

Cod == INSTANCE SegmentCodec WITH
    HeaderBytes <- 2, BlockBytes <- 3, MaxRecords <- 4, MaxSize <- 3,
    Strides <- {1, 2, 3}, Targets <- {1, 4}, Frames <- {3}, StartOffset <- 1

-----------------------------------------------------------------------------
(* One part at a time.                                                     *)

StoresRest == Init /\ budget = Lifetimes
SegmentsRest == Seg!Init /\ left = CHOOSE b \in SegBudgets : TRUE
CodecRests ==
    ref = 0 /\ data = 0 /\ bad = 0 /\ opts = 0 /\ from = 0 /\ page = 0 /\ got = 0

SumInit ==
    \/ part = "stores" /\ Init /\ SegmentsRest /\ CodecRests
    \/ part = "segments" /\ StoresRest /\ Seg!Init /\ CodecRests
    \/ part = "codec" /\ StoresRest /\ SegmentsRest /\ Cod!Init

Stores == part = "stores" /\ UNCHANGED <<part, segVars, codVars>>
Segs == part = "segments" /\ UNCHANGED <<part, storeVars, codVars>>
Codec == part = "codec" /\ UNCHANGED <<part, storeVars, segVars>>

SumNext ==
    \/ Stores /\ Create
    \/ Stores /\ Append_
    \/ Stores /\ Close
    \/ Stores /\ Read
    \/ Stores /\ Delete
    \/ Stores /\ Grant
    \/ Stores /\ Revoke
    \/ Stores /\ Seal
    \/ Stores /\ Tick
    \/ Stores /\ Reap
    \/ \E n \in Nodes, first \in {<<>>} \cup {<<v>> : v \in Values} : Segs /\ Seg!Create(n, first)
    \/ \E n \in Nodes : Segs /\ Seg!Delete(n)
    \/ \E n \in Nodes : Segs /\ Seg!Tombstone(n)
    \/ \E n \in Nodes : Segs /\ Seg!Seal(n)
    \/ \E n \in Nodes : Segs /\ Seg!Repair(n)
    \/ \E n \in Nodes : Segs /\ Seg!OpStep(n)
    \/ \E n \in Nodes : Segs /\ Seg!OpFails(n)
    \/ \E n \in Nodes : Segs /\ Seg!Crash(n)
    \/ \E n \in Nodes, target \in Seg!States : Segs /\ Seg!Transition(n, target)
    \/ \E v \in Values : Segs /\ Seg!AppendMessage(v)
    \/ \E r \in Readers, n \in Nodes, off \in 0..MaxLen : Segs /\ Seg!Capture(r, n, off)
    \/ \E r \in Readers : Segs /\ Seg!WaitForPage(r)
    \/ \E r \in Readers : Segs /\ Seg!SealForRead(r)
    \/ \E r \in Readers : Segs /\ Seg!Choose(r)
    \/ \E r \in Readers : Segs /\ Seg!SegmentPage(r)
    \/ \E r \in Readers : Segs /\ Seg!PrimaryPage(r)
    \/ \E r \in Readers : Segs /\ Seg!Finish(r)
    \/ Segs /\ Seg!PowerLoss
    \/ Segs /\ Seg!Rot
    \/ Codec /\ Cod!NextPage

SumSpec == SumInit /\ [][SumNext]_<<part, storeVars, segVars, codVars>>

Symmetry == Permutations(Readers) \cup Permutations(Values)

-----------------------------------------------------------------------------
(* Properties of the parts; the stores' are used under their own names.    *)

\* Segments!ReadIsExact: a page comes from the stream the reader captured.
ReadIsExact == part = "segments" => Seg!ReadIsExact

\* Segments!SealedPrefixIsTrue: what is sealed is what the stream held.
SealedPrefixIsTrue == part = "segments" => Seg!SealedPrefixIsTrue

\* Segments!PublishedIsDurable: what a manifest names survives a power loss.
PublishedIsDurable == part = "segments" => Seg!PublishedIsDurable

\* SegmentCodec!DrainIsExact: a drain delivers every record once, in order.
DrainIsExact == part = "codec" => Cod!DrainIsExact

=============================================================================
