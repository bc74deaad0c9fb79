----------------------------- MODULE SegmentCodec -----------------------------
(***************************************************************************)
(* The segment format (store/segments/codec.go, validateSegmentRef): records *)
(* of a fixed header and a payload, a sparse index with an entry for every   *)
(* stride-th record, and authenticated blocks.  Encode lays a segment out;   *)
(* DecodePageAfter finds a page through the index and fetches only blocks it *)
(* needs; DecodeAfter reads the whole object.                                *)
(*                                                                           *)
(* A record is its payload size; its offset counts payload bytes as the      *)
(* store's offsets do.  A byte of the object is the record it belongs to and *)
(* its place in it, so a header read at a wrong position is seen as such.    *)
(* A behaviour drains one segment page by page from some offset.             *)
(***************************************************************************)
EXTENDS Integers, Sequences, FiniteSets, SequencesExt, FiniteSetsExt

CONSTANTS
    HeaderBytes, BlockBytes,
    MaxRecords, MaxSize,   \* bounds of a segment
    Strides, Targets, Frames,
    StartOffset            \* StartExclusive of the segment

VARIABLES
    ref,     \* the segment as the manifest describes it
    data,    \* its bytes
    bad,     \* blocks whose checksum no longer matches
    opts,    \* target bytes and frames of a page, and where the drain started
    from,    \* where the next page starts
    page,    \* the last page: records, blocks fetched, records skipped, error
    got      \* the records delivered so far

vars == <<ref, data, bad, opts, from, page, got>>

Sum(sizes, n) == FoldLeft(LAMBDA acc, s : acc + s, 0, SubSeq(sizes, 1, n))
CeilDiv(a, b) == (a + b - 1) \div b

-----------------------------------------------------------------------------
(* Encode.                                                                 *)

Position(sizes, i) == Sum(sizes, i - 1) + (i - 1) * HeaderBytes

OffsetOf(sizes, i) == StartOffset + Sum(sizes, i)

Encode(sizes, stride) ==
    LET n == Len(sizes) IN
    [ref |-> [start |-> StartOffset, end |-> OffsetOf(sizes, n), records |-> n, stride |-> stride,
              bytes |-> Position(sizes, n + 1),
              entries |-> [e \in 1..CeilDiv(n, stride) |->
                             LET i == (e - 1) * stride + 1 IN
                             [offset |-> OffsetOf(sizes, i), ordinal |-> i - 1, position |-> Position(sizes, i)]]],
     data |-> FlattenSeq([i \in 1..n |-> [k \in 1..(HeaderBytes + sizes[i]) |->
                             [rec |-> i, at |-> k, offset |-> OffsetOf(sizes, i), size |-> sizes[i]]]])]

BlocksOf(r) == 0..(CeilDiv(r.bytes, BlockBytes) - 1)

\* What a manifest must say of a segment before any byte of it is used.
validateSegmentRef(r) ==
    /\ r.records > 0 /\ r.bytes >= HeaderBytes /\ r.stride > 0 /\ r.start < r.end
    /\ Len(r.entries) = CeilDiv(r.records, r.stride)
    /\ \A e \in 1..Len(r.entries) :
          /\ r.start < r.entries[e].offset /\ r.entries[e].offset <= r.end
          /\ r.entries[e].ordinal = (e - 1) * r.stride /\ r.entries[e].ordinal < r.records
          /\ r.entries[e].position < r.bytes
          /\ IF e = 1 THEN r.entries[e].position = 0
             ELSE /\ r.entries[e - 1].offset < r.entries[e].offset
                  /\ r.entries[e - 1].position < r.entries[e].position

-----------------------------------------------------------------------------
(* Decoding.                                                               *)

\* rangeDecoder.read: bytes start+1..start+length through whole blocks.
Touched(start, length) == IF length = 0 THEN {} ELSE (start \div BlockBytes)..((start + length - 1) \div BlockBytes)
InRange(start, length) == start >= 0 /\ start + length <= ref.bytes

\* recordHeader: what the bytes at pos say; anything but a header is garbage.
IsHeader(pos) ==
    /\ InRange(pos, HeaderBytes)
    /\ \A k \in 1..HeaderBytes : data[pos + k].at = k /\ data[pos + k].rec = data[pos + 1].rec
HeaderAt(pos) == data[pos + 1]

Failed(fetched) == [records |-> <<>>, fetched |-> fetched, skipped |-> 0, failed |-> TRUE]

\* Mutant: the search takes the first entry after the offset.
EntryAfter(f) == Min({Len(ref.entries)} \cup {e \in 1..Len(ref.entries) : f < ref.entries[e].offset})
\* The last entry whose record is not past f, or the first of all.
EntryFor(f) == Max({1} \cup {e \in 1..Len(ref.entries) : ref.entries[e].offset <= f})

\* The loop of DecodePageAfter: out holds record numbers, size their bytes.
Fits(out, size, more) == out = <<>> \/ (Len(out) < opts.frames /\ size + more <= opts.target)
Full(out, size) == Len(out) >= opts.frames \/ size >= opts.target

RECURSIVE Scan(_, _, _, _, _, _, _)
Scan(f, pos, ordinal, out, size, fetched, skipped) ==
    LET done == [records |-> out, fetched |-> fetched, skipped |-> skipped, failed |-> FALSE]
        head == fetched \cup Touched(pos, HeaderBytes)
        h == HeaderAt(pos)
        payload == pos + HeaderBytes
        all == head \cup Touched(payload, h.size)
    IN
    IF ordinal >= ref.records THEN done
    ELSE IF ~IsHeader(pos) \/ Touched(pos, HeaderBytes) \cap bad # {} THEN Failed(head)
    ELSE IF ~InRange(payload, h.size) THEN Failed(head)
    ELSE IF h.offset <= f THEN Scan(f, payload + h.size, ordinal + 1, out, size, head, skipped + 1)
    ELSE IF ~Fits(out, size, h.size) THEN [done EXCEPT !.fetched = head]
    ELSE IF Touched(payload, h.size) \cap bad # {} THEN Failed(all)
    ELSE IF Full(Append(out, h.rec), size + h.size)
    THEN [done EXCEPT !.records = Append(out, h.rec), !.fetched = all]
    ELSE Scan(f, payload + h.size, ordinal + 1, Append(out, h.rec), size + h.size, all, skipped)

DecodePageAfter(f) ==
    LET e == ref.entries[EntryFor(f)] IN
    IF ~validateSegmentRef(ref) THEN Failed({})
    ELSE IF IsHeader(e.position) /\ HeaderAt(e.position).offset # e.offset THEN Failed({})
    ELSE Scan(f, e.position, e.ordinal, <<>>, 0, {}, 0)

SizeOf(i) == (CHOOSE c \in ToSet(data) : c.rec = i).size
OffsetAt(i) == (CHOOSE c \in ToSet(data) : c.rec = i).offset

\* DecodeAfter: every checksum, every record, every entry, then the records
\* past f.  The empty sequence stands for an error too.
RECURSIVE Walk(_, _)
Walk(pos, n) ==
    IF n = 0 THEN IF pos = ref.bytes THEN <<>> ELSE <<"trailing">>
    ELSE IF ~IsHeader(pos) THEN <<"garbage">>
    ELSE <<HeaderAt(pos).rec>> \o Walk(pos + HeaderBytes + HeaderAt(pos).size, n - 1)
DecodeAfter(f) ==
    IF bad # {} \/ ~validateSegmentRef(ref) THEN <<>>
    ELSE SelectSeq(Walk(0, ref.records), LAMBDA i : OffsetAt(i) > f)

-----------------------------------------------------------------------------

Sizes == BoundedSeq(1..MaxSize, MaxRecords) \ {<<>>}
NoPage == [records |-> <<>>, fetched |-> {}, skipped |-> 0, failed |-> FALSE]

Init ==
    /\ \E sizes \in Sizes, stride \in Strides :
          /\ ref = Encode(sizes, stride).ref /\ data = Encode(sizes, stride).data
    /\ bad \in {{}} \cup {{b} : b \in BlocksOf(ref)}
    /\ opts \in [target : Targets, frames : Frames, from : ref.start..(ref.end - 1)]
    /\ from = opts.from
    /\ page = NoPage /\ got = <<>>

\* readLeasedPage on one segment: the next page, from the last record's offset.
NextPage ==
    /\ from < ref.end /\ ~page.failed
    /\ page' = DecodePageAfter(from)
    /\ IF page'.failed THEN UNCHANGED <<from, got>>
       ELSE /\ got' = got \o page'.records
            /\ from' = IF page'.records = <<>> THEN from
                       ELSE OffsetAt(Last(page'.records))
    /\ UNCHANGED <<ref, data, bad, opts>>

Next == NextPage
Spec == Init /\ [][Next]_vars

-----------------------------------------------------------------------------
(* Properties.                                                             *)

After(f) == SetToSortSeq({i \in 1..ref.records : OffsetAt(i) > f}, <)
SizeOfAll(s) == FoldLeft(LAMBDA acc, i : acc + SizeOf(i), 0, s)

\* The page from f by definition: the longest run of whole records after f within
\* the target and the frame limit, and at least one record.
Reference(f) ==
    LET rest == After(f)
        ok == {k \in 1..Len(rest) : k <= opts.frames /\ (k = 1 \/ SizeOfAll(SubSeq(rest, 1, k)) <= opts.target)}
    IN SubSeq(rest, 1, Max(ok))

\* The layout is what validateSegmentRef accepts, for every size, stride and
\* number of records: block and index cardinalities, ordered positions.
TypeOK ==
    /\ validateSegmentRef(ref) /\ Len(data) = ref.bytes
    /\ bad \subseteq BlocksOf(ref) /\ page.fetched \subseteq BlocksOf(ref)

PageFits ==
    IF page'.failed THEN page'.fetched \cap bad # {}
    ELSE page'.records = Reference(from) /\ page'.fetched \cap bad = {}

\* The page DecodePageAfter finds through the sparse index is the page of the
\* definition, or an error that a block it fetched explains.
PageIsReference == [][PageFits]_vars

\* A drain delivers every record after its start once and in order, and
\* DecodeAfter returns those records from the whole object.
DrainIsExact ==
    /\ got = SelectSeq(After(opts.from), LAMBDA i : OffsetAt(i) <= from)
    /\ bad = {} /\ page = NoPage => DecodeAfter(from) = After(from)

\* The sparse index bounds the work: a page reads past at most stride records
\* before the ones it returns, however long the segment.
SkipIsBounded == page.skipped <= ref.stride

=============================================================================
