---------------------------- MODULE MCStreamLog -----------------------------
(***************************************************************************)
(* Requests chosen so that retries, stale epochs, gaps, Stream-Seq         *)
(* regressions, invalid bodies, batches and the ways of closing all meet.  *)
(***************************************************************************)
EXTENDS StreamLog

Post(sizes, p, epoch, seq) ==
    [kind |-> "append", sizes |-> sizes, prod |-> p, epoch |-> epoch,
     seq |-> seq, sseq |-> 0, ct |-> "json", close |-> FALSE, valid |-> TRUE]

Plain(sseq) == [Post(<<1>>, NoProducer, 0, 0) EXCEPT !.sseq = sseq]

CloseOnly(p, epoch, seq) ==
    [Post(<<>>, p, epoch, seq) EXCEPT !.kind = "close", !.close = TRUE]

\* One producer across an epoch bump, with a batch, an invalid body and the
\* final append of an older epoch.
ProducerRequests ==
    {Post(<<1>>, "p", 0, 0), Post(<<2, 1>>, "p", 0, 1),
     Post(<<1>>, "p", 1, 0),
     [Post(<<1>>, "p", 0, 1) EXCEPT !.close = TRUE],
     [Post(<<1>>, "p", 0, 0) EXCEPT !.valid = FALSE]}

\* Writers without a producer, ordered by Stream-Seq, and a plain close.
PlainRequests ==
    {Plain(1), Plain(2), [Plain(0) EXCEPT !.close = TRUE],
     CloseOnly(NoProducer, 0, 0)}

MCScenes ==
    [producers |-> [requests |-> ProducerRequests, readers |-> {}, msgs |-> 4],
     reads |-> [requests |-> PlainRequests, readers |-> Readers, msgs |-> 3]]

MCInitials == {<<>>, <<2>>}
=============================================================================
