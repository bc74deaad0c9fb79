----------------------------- MODULE StoreOracle -----------------------------
(***************************************************************************)
(* The data-plane linearizability check: clients append to, read, close    *)
(* and ask the offset of one stream (jepsen/checker/scenario_store.go),    *)
(* record what they saw, and the history is judged by a sequential model   *)
(* of the log (jepsen/checker/model_store.go).                             *)
(*                                                                         *)
(* The judge is modelled by what its search decides: `front` holds every   *)
(* way to linearize the history so far, as the model state it leads to and *)
(* which of the unfinished operations it already placed.  A history is     *)
(* rejected when `front` is empty.                                         *)
(*                                                                         *)
(* The question is whether a correct server is ever rejected.  Replies can *)
(* be lost, the Redis client sends a command again when its reply does not *)
(* come (external), and a command given up on can still arrive.            *)
(***************************************************************************)
EXTENDS Naturals, Sequences, FiniteSets, SequencesExt

CONSTANTS
  Clients,      \* the clients of the scenario
  Closer,       \* the one that closes the stream
  SizeOf,       \* payload length of each client's frames
  MaxOps,       \* operations of each client
  MaxAttempts,  \* maxAppendRetries
  MaxFaults     \* faults in one behaviour

VARIABLES
  log,      \* the stream: frames in order
  closed,   \* the stream's latch
  latch,    \* storeAlreadyClosed
  op,       \* the operation each client has in flight
  count,    \* operations each client started
  stray,    \* appends given up on whose command is still on its way
  faults,   \* faults so far
  front,    \* the linearizations of the recorded history
  excused   \* faults the record of which is not honest

vars == <<log, closed, latch, op, count, stray, faults, front, excused>>

NoOp == [kind |-> "none"]
Pending(c) == op[c].kind # "none"

-----------------------------------------------------------------------------
(* The sequential model of the log.                                        *)

TailOf(frames) == FoldSeq(LAMBDA f, sum : sum + f.nbytes, 0, frames)
EndOf(frames, i) == TailOf(SubSeq(frames, 1, i))

\* suffixFrom: the frames whose end lies beyond `from`.
suffixFrom(frames, from) ==
  LET kept == {i \in 1 .. Len(frames) : EndOf(frames, i) > from}
  IN SubSeq(frames, Len(frames) - Cardinality(kept) + 1, Len(frames))

readAtTail(s, from) == suffixFrom(s.frames, from) # <<>> \/ from >= TailOf(s.frames)

hasTag(frames, tag) ==
  \E i \in 1 .. Len(frames) : frames[i].client = tag.client /\ frames[i].seq = tag.seq

\* stepAppend: the states after an append that was answered with `out`.
stepAppend(s, tag, out) ==
  LET committed == IF s.closed \/ hasTag(s.frames, tag) THEN {}
                   ELSE {[s EXCEPT !.frames = Append(@, tag)]}
  IN CASE out.status = "OK" -> IF out.offset = TailOf(s.frames) + tag.nbytes THEN committed ELSE {}
       [] out.status = "CLOSED" -> IF s.closed THEN {s} ELSE {}
       [] out.status = "INDETERMINATE" -> {s} \cup committed

\* stepClose: a latch, idempotent; closing never moves the tail.
stepClose(s, out) ==
  IF out.offset # TailOf(s.frames) \/ s.closed # (out.status = "CLOSED_ALRDY") THEN {}
  ELSE {[s EXCEPT !.closed = TRUE]}

\* stepRead: the exact frames after `from`, and the end-of-stream signal at the tail only.
stepRead(s, from, out) ==
  IF /\ out.frames = suffixFrom(s.frames, from)
     /\ out.upToDate = readAtTail(s, from)
     /\ out.closed = (s.closed /\ readAtTail(s, from))
  THEN {s} ELSE {}

stepGetOffset(s, out) == IF out.offset = TailOf(s.frames) THEN {s} ELSE {}

\* streamStep: the states after operation o, answered with out.
streamStep(s, o, out) ==
  CASE o.kind = "append" -> stepAppend(s, o.tag, out)
    [] o.kind = "close" -> stepClose(s, out)
    [] o.kind = "read" -> stepRead(s, o.from, out)
    [] o.kind = "getoffset" -> stepGetOffset(s, out)

-----------------------------------------------------------------------------
(* The search.  An operation may be placed before its answer is known: an  *)
(* append or a close then commits to an answer, a read or an offset to the *)
(* state it saw, and the linearization survives if the answer agrees.      *)

Changes(d) == op[d].kind \in {"append", "close"}

\* The answers that would place d at state s.
Answers(s, d) ==
  IF op[d].kind = "append"
  THEN {[status |-> "OK", offset |-> TailOf(s.frames) + op[d].tag.nbytes],
        [status |-> "CLOSED"], [status |-> "INDETERMINATE"]}
  ELSE {[status |-> x, offset |-> TailOf(s.frames)] : x \in {"CLOSED_FRESH", "CLOSED_ALRDY"}}

Place(l, d) ==
  CASE l.placed[d] # <<>> -> {}
    [] l.placed[d] = <<>> /\ Changes(d) ->
         UNION {{[state |-> s, placed |-> [l.placed EXCEPT ![d] = <<a>>]] :
                   s \in streamStep(l.state, op[d], a)} : a \in Answers(l.state, d)}
    [] OTHER -> {[l EXCEPT !.placed[d] = <<l.state>>]}

\* Every linearization that goes on from those of S by placing some of D.
RECURSIVE Extend(_, _)
Extend(S, D) ==
  LET more == UNION {Place(l, d) : l \in S, d \in D}
  IN IF more \subseteq S THEN S ELSE Extend(S \cup more, D)

\* l placed operation c before, in a way the answer confirms.
Confirmed(l, c, out) ==
  /\ l.placed[c] # <<>>
  /\ IF Changes(c) THEN l.placed[c][1] = out ELSE streamStep(l.placed[c][1], op[c], out) # {}

\* recordOp: operation c returned `out`.
Return(c, out) ==
  LET before == Extend(front, {d \in Clients \ {c} : Pending(d)})
      early == {l \in before : Confirmed(l, c, out)}
      late == UNION {{[state |-> s, placed |-> l.placed] : s \in streamStep(l.state, op[c], out)} :
                      l \in {m \in before : m.placed[c] = <<>>}}
  IN front' = {[l EXCEPT !.placed[c] = <<>>] : l \in early \cup late}

\* An operation that is not recorded takes no part.
Forget(c) == front' = {l \in front : l.placed[c] = <<>>}

Finish(c) == op' = [op EXCEPT ![c] = NoOp]
To(c, record) == op' = [op EXCEPT ![c] = record]
Start(c) == ~Pending(c) /\ count[c] < MaxOps[c] /\ count' = [count EXCEPT ![c] = @ + 1]
Fault == faults < MaxFaults /\ faults' = faults + 1

-----------------------------------------------------------------------------
(* storeDoAppend.  The request names no content type, so every attempt of  *)
(* the store's loop reads the tail and then runs the script against it.    *)

appendInvoke(c) ==
  /\ Start(c)
  /\ To(c, [kind |-> "append", tag |-> [client |-> c, seq |-> count[c], nbytes |-> SizeOf[c]],
            stage |-> "look", base |-> 0, attempts |-> 0, out |-> <<>>])
  /\ UNCHANGED <<log, closed, latch, stray, faults, front, excused>>

readTailAndContentType(c) ==
  /\ op[c].kind = "append" /\ op[c].stage = "look"
  /\ To(c, [op[c] EXCEPT !.stage = "eval", !.base = TailOf(log)])
  /\ UNCHANGED <<log, closed, latch, count, stray, faults, front, excused>>

\* As appendScript, without the optimistic tail check.
appendScriptUnpinned(tag, base) ==
  IF closed THEN UNCHANGED log ELSE log' = Append(log, tag)

\* The append script: CLOSED, RETRY when the tail moved, or the write.
appendScript(tag, base) ==
  IF closed \/ TailOf(log) # base THEN UNCHANGED log ELSE log' = Append(log, tag)

appendReply(tag, base) ==
  CASE closed -> [status |-> "CLOSED"]
    [] ~closed /\ TailOf(log) # base -> [status |-> "RETRY"]
    [] OTHER -> [status |-> "OK", offset |-> base + tag.nbytes]

\* One attempt; a RETRY goes back to the tail until the attempts are spent.
appendEval(c) ==
  /\ op[c].kind = "append" /\ op[c].stage = "eval"
  /\ appendScript(op[c].tag, op[c].base)
  /\ LET reply == appendReply(op[c].tag, op[c].base)
         spent == op[c].attempts + 1 = MaxAttempts
     IN To(c, CASE reply.status # "RETRY" -> [op[c] EXCEPT !.stage = "reply", !.out = <<reply>>]
                [] reply.status = "RETRY" /\ spent ->
                     [op[c] EXCEPT !.stage = "reply", !.out = <<[status |-> "INDETERMINATE"]>>]
                [] OTHER -> [op[c] EXCEPT !.stage = "look", !.attempts = @ + 1])
  /\ UNCHANGED <<closed, latch, count, stray, faults, front, excused>>

\* The reply arrives and the operation is recorded.
appendReturn(c) ==
  /\ op[c].kind = "append" /\ op[c].stage = "reply"
  /\ Return(c, op[c].out[1]) /\ Finish(c)
  /\ UNCHANGED <<log, closed, latch, count, stray, faults, excused>>

\* The reply is lost: an error, recorded as indeterminate.
appendLost(c) ==
  /\ op[c].kind = "append" /\ op[c].stage = "reply" /\ Fault
  /\ Return(c, [status |-> "INDETERMINATE"]) /\ Finish(c)
  /\ UNCHANGED <<log, closed, latch, count, stray, excused>>

\* The reply is lost and the Redis client sends the same command once more.
appendResent(c) ==
  /\ op[c].kind = "append" /\ op[c].stage = "reply" /\ Fault
  /\ To(c, [op[c] EXCEPT !.stage = "eval", !.out = <<>>])
  /\ excused' = excused \cup {"resent"}
  /\ UNCHANGED <<log, closed, latch, count, stray, front>>

\* The command times out on its way: recorded as indeterminate, and it may
\* still arrive.
appendTimeout(c) ==
  /\ op[c].kind = "append" /\ op[c].stage = "eval" /\ Fault
  /\ Return(c, [status |-> "INDETERMINATE"]) /\ Finish(c)
  /\ stray' = stray \cup {[tag |-> op[c].tag, base |-> op[c].base]}
  /\ UNCHANGED <<log, closed, latch, count, excused>>

\* It arrives.
StrayLands ==
  \E e \in stray :
    /\ appendScript(e.tag, e.base)
    /\ stray' = stray \ {e}
    /\ excused' = IF log' # log THEN excused \cup {"late"} ELSE excused
    /\ UNCHANGED <<closed, latch, op, count, faults, front>>

-----------------------------------------------------------------------------
(* storeDoRead: the messages, then the metadata, inside one recorded       *)
(* interval.  The read itself is bounded by the tail it captured first.    *)

readInvoke(c) ==
  /\ Start(c)
  /\ \E from \in 0 .. TailOf(log) :
       To(c, [kind |-> "read", from |-> from, frames |-> suffixFrom(log, from), tail |-> TailOf(log)])
  /\ UNCHANGED <<log, closed, latch, stray, faults, front, excused>>

\* upToDate was decided by the read; the closed signal compares the offset it
\* ended at with the metadata of now.
readReturn(c) ==
  LET o == op[c]
      end == IF o.frames = <<>> THEN o.from ELSE o.tail
  IN /\ o.kind = "read"
     /\ Return(c, [frames |-> o.frames, upToDate |-> end = o.tail,
                   closed |-> closed /\ end = TailOf(log)])
     /\ Finish(c)
     /\ UNCHANGED <<log, closed, latch, count, stray, faults, excused>>

\* The read or the metadata recheck fails: nothing is recorded.
readFailed(c) ==
  /\ op[c].kind = "read" /\ Fault
  /\ Forget(c) /\ Finish(c)
  /\ UNCHANGED <<log, closed, latch, count, stray, excused>>

storeDoGetOffset(c) ==
  /\ Start(c)
  /\ To(c, [kind |-> "getoffset", out |-> <<[offset |-> TailOf(log)]>>])
  /\ UNCHANGED <<log, closed, latch, stray, faults, front, excused>>

getOffsetReturn(c) ==
  /\ op[c].kind = "getoffset"
  /\ Return(c, op[c].out[1]) /\ Finish(c)
  /\ UNCHANGED <<log, closed, latch, count, stray, faults, excused>>

-----------------------------------------------------------------------------
(* storeDoClose: the closer, until a close of its was answered.            *)

closeScript(o) ==
  /\ closed' = TRUE
  /\ To(Closer, [o EXCEPT !.out = <<[status |-> IF closed THEN "CLOSED_ALRDY" ELSE "CLOSED_FRESH",
                                     offset |-> TailOf(log)]>>])

closeInvoke ==
  /\ ~latch /\ Start(Closer)
  /\ closeScript([kind |-> "close", out |-> <<>>])
  /\ UNCHANGED <<log, latch, stray, faults, front, excused>>

closeReturn ==
  /\ op[Closer].kind = "close"
  /\ latch' = TRUE
  /\ Return(Closer, op[Closer].out[1]) /\ Finish(Closer)
  /\ UNCHANGED <<log, closed, count, stray, faults, excused>>

\* The reply is lost: nothing is recorded and the latch stays down.
closeLost ==
  /\ op[Closer].kind = "close" /\ Fault
  /\ Forget(Closer) /\ Finish(Closer)
  /\ excused' = excused \cup {"unrecorded close"}
  /\ UNCHANGED <<log, closed, latch, count, stray>>

\* The reply is lost and the command is sent again: it finds its own close.
closeResent ==
  /\ op[Closer].kind = "close" /\ Fault
  /\ closeScript(op[Closer])
  /\ excused' = excused \cup {"resent"}
  /\ UNCHANGED <<log, latch, count, stray, front>>

-----------------------------------------------------------------------------
Init ==
  /\ log = <<>> /\ closed = FALSE /\ latch = FALSE
  /\ op = [c \in Clients |-> NoOp]
  /\ count = [c \in Clients |-> 0]
  /\ stray = {} /\ faults = 0 /\ excused = {}
  /\ front = {[state |-> [frames |-> <<>>, closed |-> FALSE],
               placed |-> [c \in Clients |-> <<>>]]}

Next ==
  \/ \E c \in Clients : appendInvoke(c)
  \/ \E c \in Clients : readTailAndContentType(c)
  \/ \E c \in Clients : appendEval(c)
  \/ \E c \in Clients : appendReturn(c)
  \/ \E c \in Clients : appendLost(c)
  \/ \E c \in Clients : appendResent(c)
  \/ \E c \in Clients : appendTimeout(c)
  \/ StrayLands
  \/ \E c \in Clients : readInvoke(c)
  \/ \E c \in Clients : readReturn(c)
  \/ \E c \in Clients : readFailed(c)
  \/ \E c \in Clients : storeDoGetOffset(c)
  \/ \E c \in Clients : getOffsetReturn(c)
  \/ closeInvoke
  \/ closeReturn
  \/ closeLost
  \/ closeResent

Spec == Init /\ [][Next]_vars

-----------------------------------------------------------------------------
(* Properties.                                                             *)

\* The state space is the driver's: operations in flight are of the four
\* kinds, and every linearization has placed only operations in flight.
TypeOK ==
  /\ \A c \in Clients : op[c].kind \in {"none", "append", "read", "getoffset", "close"}
  /\ closed \in BOOLEAN /\ latch \in BOOLEAN /\ (latch => closed)
  /\ \A l \in front : \A c \in Clients : ~Pending(c) => l.placed[c] = <<>>

\* A correct server is never rejected, whatever the interleaving and whichever
\* replies are lost, unless a fault the driver does not record honestly
\* happened: a close whose reply was lost, an append that committed after it
\* was recorded, or a command the Redis client sent twice.
AlarmHasACause == front = {} => excused # {}

\* While nothing is in flight, some linearization of the recorded history ends
\* in the server's own log and latch: the judge's uncertainty about lost
\* replies never excludes what happened.
JudgeKnowsTheLog ==
  (excused = {} /\ \A c \in Clients : ~Pending(c)) =>
    \E l \in front : l.state = [frames |-> log, closed |-> closed]

\* scenario_store.go: "an honest maybe-committed append does not produce a
\* false Illegal".
HonestAppendIsAccepted == front = {} => excused \ {"late"} # {}
=============================================================================
