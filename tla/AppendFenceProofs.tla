------------------------- MODULE AppendFenceProofs -------------------------
(***************************************************************************)
(* Proofs about AppendFence, for every set of streams, producers, calls    *)
(* and writers and every bound.                                            *)
(***************************************************************************)
EXTENDS AppendFence, TLAPS

\* The constants.
LEMMA Bounds ==
    Fenced \subseteq Streams /\ MaxAuth \in Nat /\ MaxGen \in Nat /\ MaxLog \in Nat
BY ConstantAssumption DEF ConstantAssumption

USE Bounds DEF Auths

-----------------------------------------------------------------------------
(* The inductive invariant *)

\* A claim of the subscription's past or present.
Past(c) == c.auth <= sub.auth /\ (c.auth = sub.auth => c.gen <= sub.gen)

\* What the manager, a writer or a log remembers of a claim was once current.
ClaimsArePast ==
    /\ \A k \in Calls : calls[k] # NoCall => Past(calls[k].claim)
    /\ \A w \in Writers : writes[w] # NoWrite => Past(writes[w].claim)
    /\ \A s \in Fenced : \A i \in 1 .. Len(stream[s].log) :
          IsFenced(s, i) => Past(stream[s].log[i].claim)

\* wfLastOff is at or after every fenced message, and every producer of one is bound.
LastAndBoundCover ==
    \A s \in Fenced : \A i \in 1 .. Len(stream[s].log) :
       IsFenced(s, i) => /\ i <= stream[s].last
                         /\ stream[s].log[i].prod \in stream[s].bound

\* In a prompt scene the marker is at or above every generation that wrote; or
\* it is not live, and no grant under way could make it live at a lower one.
MarkerLeads ==
    Scenes[scene].prompt => \A s \in Fenced : \A i \in 1 .. Len(stream[s].log) :
       IsFenced(s, i) =>
          LET c == stream[s].log[i].claim
          IN  \/ c.gen <= marker[s][c.auth].gen
              \/ /\ marker[s][c.auth].state # "live"
                 /\ \A k \in Calls : calls[k].at = "grant" /\ calls[k].claim.auth = c.auth =>
                       c.gen <= calls[k].claim.gen

FenceInv ==
    /\ TypeOK /\ ClaimsArePast /\ LastAndBoundCover /\ MarkerLeads
    /\ SealsAreFinal /\ BoundProducersStayFenced /\ ClaimsDoNotInterleave

-----------------------------------------------------------------------------
(* Typing *)

\* The places of a log are numbered from one.
LEMMA PlaceInLog ==
    ASSUME NEW log \in Seq(Messages), NEW i \in 1 .. Len(log)
    PROVE  i \in Nat /\ i >= 1
OBVIOUS

\* What a seal does to a stream's record: nothing but a higher generation, at
\* the offset LastOffset, in the seal of one authority.
LEMMA SealedFacts ==
    ASSUME TypeOK, NEW s \in Streams, NEW a \in Auths, NEW g \in 0 .. MaxGen
    PROVE  /\ Sealed(s, a, g) \in [Streams -> StreamRecords]
           /\ \A t \in Streams :
                 LET new == Sealed(s, a, g)[t]
                 IN  /\ new.log = stream[t].log /\ new.last = stream[t].last
                     /\ new.bound = stream[t].bound /\ new.life = stream[t].life
                     /\ new.present = stream[t].present
                     /\ \A b \in Auths :
                           \/ new.seal[b] = stream[t].seal[b]
                           \/ /\ new.seal[b].gen > stream[t].seal[b].gen
                              /\ new.seal[b].off = LastOffset(t)
<1>1. LastOffset(s) \in Nat
  BY DEF TypeOK, StreamRecords, LastOffset, Unset
<1>2. stream[s] \in StreamRecords
  BY DEF TypeOK
<1> DEFINE rec == [gen |-> g, off |-> LastOffset(s)]
           new == [stream[s] EXCEPT !.seal[a] = rec]
<1>3. rec \in [gen : 0 .. MaxGen, off : Nat] /\ rec.gen = g /\ rec.off = LastOffset(s)
  BY <1>1
<1> HIDE DEF rec
<1>4. new \in StreamRecords
  BY <1>2, <1>3, Zenon DEF StreamRecords
<1>5. /\ new.log = stream[s].log /\ new.last = stream[s].last
      /\ new.bound = stream[s].bound /\ new.life = stream[s].life
      /\ new.present = stream[s].present
      /\ new.seal[a] = rec
      /\ \A b \in Auths \ {a} : new.seal[b] = stream[s].seal[b]
  BY <1>2 DEF StreamRecords
<1>6. CASE s \in Fenced /\ stream[s].present /\ g > stream[s].seal[a].gen
  <2>1. Sealed(s, a, g) = [stream EXCEPT ![s] = new]
    BY <1>6 DEF Sealed, rec
  <2> HIDE DEF new
  <2>2. Sealed(s, a, g)[s] = new /\ \A t \in Streams \ {s} : Sealed(s, a, g)[t] = stream[t]
    BY <2>1 DEF TypeOK
  <2>3. Sealed(s, a, g) \in [Streams -> StreamRecords]
    BY <2>1, <1>4 DEF TypeOK
  <2>4. \A b \in Auths : \/ new.seal[b] = stream[s].seal[b]
                         \/ /\ new.seal[b].gen > stream[s].seal[b].gen
                            /\ new.seal[b].off = LastOffset(s)
    BY <1>3, <1>5, <1>6
  <2> QED
    BY <2>2, <2>3, <2>4, <1>5
<1>7. CASE ~(s \in Fenced /\ stream[s].present /\ g > stream[s].seal[a].gen)
  BY <1>7 DEF Sealed, TypeOK
<1> QED
  BY <1>6, <1>7

\* The initial state is well typed.
LEMMA TypeInit == Init => TypeOK
<1> SUFFICES ASSUME Init PROVE TypeOK
  OBVIOUS
<1>1. NewStream(1) \in StreamRecords /\ NewStream(1).life = 1 /\ NewStream(1).present
      /\ Len(NewStream(1).log) = 0 /\ NewStream(1).last = -1
  BY DEF NewStream, StreamRecords, NoSeal, Unset
<1>2. NoMarker \in Markers
  BY DEF NoMarker, Markers
<1> QED
  BY <1>1, <1>2, ConstantAssumption DEF ConstantAssumption, Init, TypeOK, CallRecords, WriteRecords

\* The claim of a subscription that exists is well formed, and current.
LEMMA ClaimFacts ==
    ASSUME TypeOK, sub.phase # "absent"
    PROVE  Claim \in ClaimRecords /\ Past(Claim)
BY DEF TypeOK, Claim, ClaimRecords, Past

\* The scripts write well-formed markers.
LEMMA MarkerType ==
    ASSUME TypeOK, NEW s \in Streams, NEW c \in ClaimRecords
    PROVE  /\ Tombstone(s, c) \in [Streams -> [Auths -> Markers]]
           /\ [marker EXCEPT ![s][c.auth] = [state |-> "live", gen |-> c.gen,
                                             life |-> stream[s].life]]
                 \in [Streams -> [Auths -> Markers]]
<1>a. marker \in [Streams -> [Auths -> Markers]] /\ stream \in [Streams -> StreamRecords]
  BY DEF TypeOK
<1>b. stream[s].life \in Nat
  BY <1>a DEF StreamRecords
<1>c. c.auth \in Auths /\ c.gen \in 0 .. MaxGen
  BY DEF ClaimRecords
<1>1. marker[s] \in [Auths -> Markers] /\ marker[s][c.auth] \in Markers
      /\ c.auth \in Auths /\ c.gen \in 0 .. MaxGen /\ stream[s].life \in Nat
  BY <1>a, <1>b, <1>c
<1>2. [marker[s][c.auth] EXCEPT !.state = "revoked", !.gen = c.gen] \in Markers
  BY <1>1, Zenon DEF Markers
<1>3. [state |-> "live", gen |-> c.gen, life |-> stream[s].life] \in Markers
  BY <1>1 DEF Markers
<1> QED
  BY <1>1, <1>2, <1>3 DEF TypeOK, Tombstone

\* A step that changes streams only in their seals.
SealsOnly ==
    /\ stream' \in [Streams -> StreamRecords]
    /\ \A t \in Streams :
          /\ stream'[t].log = stream[t].log /\ stream'[t].last = stream[t].last
          /\ stream'[t].bound = stream[t].bound /\ stream'[t].life = stream[t].life
          /\ stream'[t].present = stream[t].present
          /\ \A b \in Auths :
                \/ stream'[t].seal[b] = stream[t].seal[b]
                \/ /\ stream'[t].seal[b].gen > stream[t].seal[b].gen
                   /\ stream'[t].seal[b].off = LastOffset(t)

\* A step that leaves the streams alone is one.
LEMMA SameStreams == TypeOK /\ stream' = stream => SealsOnly
BY DEF TypeOK, SealsOnly

\* And so is a step that seals.
LEMMA SealStep ==
    ASSUME TypeOK, NEW s \in Streams, NEW a \in Auths, NEW g \in 0 .. MaxGen,
           stream' = Sealed(s, a, g)
    PROVE  SealsOnly
BY SealedFacts, SMTT(30) DEF SealsOnly

\* A script of a call leaves markers and streams well formed, changes streams
\* only in their seals, and leaves every marker but its own alone.
LEMMA ScriptFacts ==
    ASSUME TypeOK, NEW s \in Streams, NEW c \in ClaimRecords,
           \/ Grant(s, c)
           \/ Revoke(s, c) /\ UNCHANGED stream
           \/ Seal(s, c)
    PROVE  /\ marker' \in [Streams -> [Auths -> Markers]] /\ SealsOnly
           /\ \A t \in Streams, b \in Auths :
                 <<t, b>> # <<s, c.auth>> => marker'[t][b] = marker[t][b]
<1>1. /\ c.auth \in Auths /\ c.gen \in 0 .. MaxGen
      /\ marker \in [Streams -> [Auths -> Markers]]
  BY DEF TypeOK, ClaimRecords
<1>a. marker[s][c.auth].gen \in 0 .. MaxGen
  BY <1>1 DEF Markers
<1>2. CASE Grant(s, c)
  <2>1. SealsOnly
    BY <1>1, <1>a, <1>2, SealStep, SameStreams DEF Grant
  <2> QED
    BY <1>1, <1>2, <2>1, MarkerType DEF Grant
<1>3. CASE Revoke(s, c) /\ UNCHANGED stream
  BY <1>1, <1>3, MarkerType, SameStreams, Zenon DEF Revoke, Tombstone
<1>4. CASE Seal(s, c)
  <2>1. SealsOnly
    BY <1>1, <1>4, SealStep, SameStreams DEF Seal
  <2>2. marker' = marker \/ marker' = Tombstone(s, c)
    BY <1>4 DEF Seal
  <2>a. Tombstone(s, c) \in [Streams -> [Auths -> Markers]]
    BY MarkerType, Zenon
  <2>3. marker' \in [Streams -> [Auths -> Markers]]
    BY <1>1, <2>2, <2>a
  <2>4. \A t \in Streams, b \in Auths :
           <<t, b>> # <<s, c.auth>> => marker'[t][b] = marker[t][b]
    BY <1>1, <2>2 DEF Tombstone
  <2> QED
    BY <2>1, <2>3, <2>4
<1> QED
  BY <1>2, <1>3, <1>4

\* A step that changes streams only in their seals keeps what TypeOK says of
\* them.
LEMMA SealsOnlyType ==
    ASSUME TypeOK, SealsOnly, scene' = scene
    PROVE  /\ stream' \in [Streams -> StreamRecords]
           /\ \A s \in Streams :
                 /\ stream'[s].life \in 1 .. Scenes[scene'].lives
                 /\ ~stream'[s].present => stream'[s].life < Scenes[scene'].lives
                 /\ Len(stream'[s].log) <= MaxLog /\ stream'[s].last <= Len(stream'[s].log)
BY DEF TypeOK, SealsOnly

\* A step of a call with the scripts it may run keeps the state well typed.
LEMMA CallType ==
    ASSUME TypeOK, NEW k \in Calls, NEW call \in CallRecords, Goto(k, call),
           SealsOnly, marker' \in [Streams -> [Auths -> Markers]],
           UNCHANGED <<sub, lapsed, writes, scene>>
    PROVE  TypeOK'
BY SealsOnlyType DEF TypeOK, Goto

\* The record of a call in a stage.
LEMMA CallShape ==
    ASSUME TypeOK, NEW k \in Calls
    PROVE  /\ calls[k].at \in {"grant", "revoke"} =>
                 calls[k] \in [at : {"grant", "revoke"}, claim : ClaimRecords,
                               todo : SUBSET Streams, got : SUBSET Streams]
           /\ calls[k].at = "seal" =>
                 calls[k] \in [at : {"seal"}, claim : ClaimRecords,
                               end : {"idle", "delete", "unlink"},
                               paths : SUBSET Streams, todo : SUBSET Streams]
           /\ calls[k] # NoCall => calls[k].claim \in ClaimRecords
           /\ NoCall \in CallRecords /\ NoCall.at = "none"
BY DEF TypeOK, CallRecords, NoCall

\* Every call of the manager keeps the state well typed.
LEMMA CallStepType ==
    ASSUME TypeOK, NEW k \in Calls
    PROVE  /\ BeginGrant(k) \/ AbandonGrant(k) \/ EndSeal(k) \/ EndCall(k) => TypeOK'
           /\ \A s \in Streams : GrantOne(k, s) \/ RevokeOne(k, s) \/ SealOne(k, s) => TypeOK'
           /\ \A end \in {"idle", "delete", "unlink"}, paths \in SUBSET Streams :
                 BeginSeal(k, end, paths) => TypeOK'
<1>a. marker \in [Streams -> [Auths -> Markers]] /\ sub.links \subseteq Streams
  BY DEF TypeOK
<1>1. ASSUME BeginGrant(k) PROVE TypeOK'
  <2>1. [at |-> "grant", claim |-> Claim, todo |-> sub.links, got |-> {}] \in CallRecords
    BY <1>a, <1>1, ClaimFacts DEF BeginGrant, CallRecords
  <2> QED
    BY <1>a, <1>1, <2>1, CallType, SameStreams DEF BeginGrant
<1>2. ASSUME AbandonGrant(k) PROVE TypeOK'
  <2>1. [calls[k] EXCEPT !.at = "revoke", !.todo = calls[k].got] \in CallRecords
    BY <1>2, CallShape, Zenon DEF AbandonGrant, CallRecords
  <2> QED
    BY <1>a, <1>2, <2>1, CallType, SameStreams DEF AbandonGrant
<1>3. ASSUME EndSeal(k) PROVE TypeOK'
  <2>1. calls' \in [Calls -> CallRecords]
    BY <1>3, CallShape DEF EndSeal, Goto, TypeOK
  <2>2. /\ sub' \in [phase : {"absent", "idle", "live"}, auth : 0 .. MaxAuth,
                     gen : 0 .. MaxGen, links : SUBSET Streams]
        /\ sub'.phase # "absent" => sub'.auth \in Auths
    BY <1>3, Zenon DEF EndSeal, TypeOK
  <2> QED
    BY <1>3, <2>1, <2>2 DEF EndSeal, TypeOK
<1>4. ASSUME EndCall(k) PROVE TypeOK'
  BY <1>a, <1>4, CallShape, CallType, SameStreams DEF EndCall
<1>5. ASSUME NEW s \in Streams, GrantOne(k, s) PROVE TypeOK'
  <2> DEFINE rest == [calls[k] EXCEPT !.todo = @ \ {s}]
  <2>1. /\ calls[k].claim \in ClaimRecords
        /\ rest \in CallRecords /\ [rest EXCEPT !.got = @ \cup {s}] \in CallRecords
    BY <1>5, CallShape, Zenon DEF GrantOne, CallRecords
  <2>2. CASE Grant(s, calls[k].claim) /\ Goto(k, [rest EXCEPT !.got = @ \cup {s}])
    BY <1>5, <2>1, <2>2, ScriptFacts, CallType DEF GrantOne
  <2>3. CASE Goto(k, rest) /\ UNCHANGED <<stream, marker>>
    BY <1>a, <1>5, <2>1, <2>3, CallType, SameStreams DEF GrantOne
  <2> QED
    BY <1>5, <2>2, <2>3 DEF GrantOne
<1>6. ASSUME NEW s \in Streams, RevokeOne(k, s) PROVE TypeOK'
  <2> DEFINE rest == calls[k].todo \ {s}
             call == IF rest = {} THEN NoCall ELSE [calls[k] EXCEPT !.todo = rest]
  <2>1. calls[k].claim \in ClaimRecords /\ call \in CallRecords
    BY <1>6, CallShape DEF RevokeOne, CallRecords
  <2>2. Revoke(s, calls[k].claim) /\ UNCHANGED stream /\ Goto(k, call)
    BY <1>6 DEF RevokeOne
  <2> QED
    BY <1>6, <2>1, <2>2, ScriptFacts, CallType DEF RevokeOne
<1>7. ASSUME NEW s \in Streams, SealOne(k, s) PROVE TypeOK'
  <2>1. calls[k].claim \in ClaimRecords /\ [calls[k] EXCEPT !.todo = @ \ {s}] \in CallRecords
    BY <1>7, CallShape DEF SealOne, CallRecords
  <2> QED
    BY <1>7, <2>1, ScriptFacts, CallType DEF SealOne
<1>8. ASSUME NEW end \in {"idle", "delete", "unlink"}, NEW paths \in SUBSET Streams,
             BeginSeal(k, end, paths)
      PROVE  TypeOK'
  <2>1. [at |-> "seal", claim |-> Claim, end |-> end, paths |-> paths,
         todo |-> IF sub.phase = "live" THEN paths ELSE {}] \in CallRecords
    BY <1>8, ClaimFacts DEF BeginSeal, CallRecords
  <2> QED
    BY <1>a, <1>8, <2>1, CallType, SameStreams DEF BeginSeal
<1> QED
  BY <1>1, <1>2, <1>3, <1>4, <1>5, <1>6, <1>7, <1>8

\* What an accepted append of the fenced class does to the stream.
Message(w) == [class |-> "fenced", claim |-> writes[w].claim, prod |-> writes[w].prod]

Accepted(w, closing, s) ==
    /\ writes[w] \in [s : Streams, claim : ClaimRecords, prod : Producers]
    /\ FenceAccepts(s, writes[w])
    /\ stream' = [stream EXCEPT ![s] = stream'[s]]
    /\ stream'[s] = [stream[s] EXCEPT !.log = stream'[s].log, !.last = stream'[s].last,
                                      !.bound = stream'[s].bound]
    /\ IF closing \/ s \notin Fenced THEN stream'[s].log = stream[s].log
       ELSE stream'[s].log = Append(stream[s].log, Message(w))
    /\ IF s \in Fenced
       THEN /\ stream'[s].last = Len(stream'[s].log)
            /\ stream'[s].bound = stream[s].bound \cup {writes[w].prod}
       ELSE stream'[s].last = stream[s].last /\ stream'[s].bound = stream[s].bound

LEMMA AppendFacts ==
    ASSUME TypeOK, NEW w \in Writers, NEW closing \in BOOLEAN, FencedAppend(w, closing),
           NEW s \in Streams, s = writes[w].s, stream' # stream
    PROVE  Accepted(w, closing, s)
<1> DEFINE msg == Message(w)
           log == IF closing \/ s \notin Fenced THEN stream[s].log ELSE Append(stream[s].log, msg)
           b == FenceBind(s, writes[w], Len(log))
<1>1. writes[w] \in [s : Streams, claim : ClaimRecords, prod : Producers]
  BY Zenon DEF FencedAppend, TypeOK, WriteRecords
<1>2. /\ FenceAccepts(s, writes[w])
      /\ stream' = [stream EXCEPT ![s].log = log, ![s].last = b.last, ![s].bound = b.bound]
  BY Zenon DEF FencedAppend, Message
<1>3. /\ b.last = IF s \in Fenced THEN Len(log) ELSE stream[s].last
      /\ b.bound = IF s \in Fenced THEN stream[s].bound \cup {writes[w].prod} ELSE stream[s].bound
  BY DEF FenceBind
<1> HIDE DEF log, b
<1>4. s \in Streams /\ stream[s] \in StreamRecords /\ stream \in [Streams -> StreamRecords]
  BY DEF TypeOK
<1> DEFINE new == [stream[s] EXCEPT !.log = log, !.last = b.last, !.bound = b.bound]
<1>5. stream' = [stream EXCEPT ![s] = new]
  BY <1>2, <1>4, Zenon
<1>6. new.log = log /\ new.last = b.last /\ new.bound = b.bound
  BY <1>4 DEF StreamRecords
<1>7. stream'[s] = new
  BY <1>4, <1>5, Zenon
<1>8. new = [stream[s] EXCEPT !.log = new.log, !.last = new.last, !.bound = new.bound]
  BY <1>6
<1> HIDE DEF new
<1>9. IF closing \/ s \notin Fenced THEN new.log = stream[s].log
      ELSE new.log = Append(stream[s].log, msg)
  BY <1>6, Zenon DEF log
<1>10. IF s \in Fenced
       THEN new.last = Len(new.log) /\ new.bound = stream[s].bound \cup {writes[w].prod}
       ELSE new.last = stream[s].last /\ new.bound = stream[s].bound
  BY <1>3, <1>6
<1> QED
  BY <1>1, <1>2, <1>5, <1>7, <1>8, <1>9, <1>10, Zenon DEF Accepted

\* What appending a message to a log leaves.
LEMMA AppendedLog ==
    ASSUME NEW log \in Seq(Messages), NEW msg \in Messages
    PROVE  /\ Append(log, msg) \in Seq(Messages)
           /\ Len(Append(log, msg)) = Len(log) + 1
           /\ \A i \in 1 .. Len(log) : Append(log, msg)[i] = log[i]
           /\ Append(log, msg)[Len(log) + 1] = msg
OBVIOUS

\* The log of a stream's record.
LEMMA LogType ==
    ASSUME NEW r \in StreamRecords
    PROVE  r.log \in Seq(Messages) /\ Len(r.log) \in Nat
BY DEF StreamRecords

LEMMA InRange ==
    ASSUME NEW n \in Nat, NEW i \in 1 .. n
    PROVE  i <= n
OBVIOUS

Deleted(life) == [NewStream(life) EXCEPT !.present = FALSE]

\* A stream that is created or deleted is empty.
LEMMA NewStreamFacts ==
    ASSUME NEW life \in Nat, NEW new \in {NewStream(life), Deleted(life)}
    PROVE  /\ new \in StreamRecords
           /\ Len(new.log) = 0 /\ new.last = -1 /\ new.life = life
           /\ new.present <=> new = NewStream(life)
<1> DEFINE seal == [a \in Auths |-> NoSeal]
<1>1. seal \in [Auths -> [gen : 0 .. MaxGen, off : Nat]]
  BY DEF NoSeal
<1>2. <<>> \in Seq(Messages) /\ Len(<<>>) = 0
  OBVIOUS
<1> HIDE DEF seal
<1> DEFINE fresh == NewStream(life)
<1>3. /\ fresh \in StreamRecords /\ fresh.log = <<>>
      /\ fresh.last = -1 /\ fresh.life = life /\ fresh.present
  <2>1. fresh = [life |-> life, present |-> TRUE, log |-> <<>>, seal |-> seal,
                 last |-> -1, bound |-> {}]
    BY DEF NewStream, seal, Unset
  <2> QED
    BY <1>1, <1>2, <2>1 DEF StreamRecords, Unset
<1> HIDE DEF fresh
<1>4. LET d == [fresh EXCEPT !.present = FALSE]
      IN  /\ d \in StreamRecords /\ d.log = fresh.log
          /\ d.last = fresh.last /\ d.life = fresh.life /\ ~d.present
  BY <1>3, Zenon DEF StreamRecords
<1> QED
  BY <1>2, <1>3, <1>4, Zenon DEF fresh, Deleted

\* The record of one stream is replaced by another that is well formed.
LEMMA StreamType ==
    ASSUME TypeOK, NEW s \in Streams, NEW new \in StreamRecords,
           stream' = [stream EXCEPT ![s] = new],
           new.life \in 1 .. Scenes[scene].lives,
           ~new.present => new.life < Scenes[scene].lives,
           Len(new.log) <= MaxLog, new.last <= Len(new.log),
           writes' \in [Writers -> WriteRecords],
           UNCHANGED <<sub, lapsed, marker, calls, scene>>
    PROVE  TypeOK'
<1>1. stream' \in [Streams -> StreamRecords]
  BY DEF TypeOK
<1>2. \A t \in Streams : stream'[t] = IF t = s THEN new ELSE stream[t]
  BY DEF TypeOK
<1> QED
  BY <1>1, <1>2 DEF TypeOK

\* Appends, and streams and markers that come and go, keep the state well typed.
LEMMA StreamStepType ==
    ASSUME TypeOK
    PROVE  /\ \A w \in Writers, closing \in BOOLEAN : FencedAppend(w, closing) => TypeOK'
           /\ \A w \in Writers, s \in Streams, p \in Producers : PreCheck(w, s, p) => TypeOK'
           /\ \A s \in Streams :
                 /\ DeleteStream(s) \/ CreateStream(s) => TypeOK'
                 /\ \A p \in Producers : OpenAppend(s, p) => TypeOK'
                 /\ \A a \in Auths : ReapMarker(s, a) => TypeOK'
<1>a. \A s \in Streams : stream[s] \in StreamRecords /\ stream[s].life \in Nat
  BY DEF TypeOK
<1>1. ASSUME NEW w \in Writers, NEW closing \in BOOLEAN, FencedAppend(w, closing) PROVE TypeOK'
  <2>1. writes' \in [Writers -> WriteRecords]
    BY <1>1, Zenon DEF FencedAppend, TypeOK, WriteRecords
  <2>2. writes[w].s \in Streams
    BY <1>1, Zenon DEF FencedAppend, TypeOK, WriteRecords
  <2>3. CASE stream' = stream
    BY <1>1, <2>1, <2>3, Zenon DEF FencedAppend, TypeOK
  <2>4. CASE stream' # stream
    <3> DEFINE s == writes[w].s
               old == stream[s]
               new == stream'[s]
               msg == Message(w)
    <3>a. Accepted(w, closing, s)
      BY <1>1, <2>2, <2>4, AppendFacts, Zenon
    <3>1. /\ writes[w] \in [s : Streams, claim : ClaimRecords, prod : Producers]
          /\ stream' = [stream EXCEPT ![s] = new]
          /\ new = [old EXCEPT !.log = new.log, !.last = new.last, !.bound = new.bound]
          /\ IF closing \/ s \notin Fenced THEN new.log = old.log
                                           ELSE new.log = Append(old.log, msg)
          /\ IF s \in Fenced
             THEN new.last = Len(new.log) /\ new.bound = old.bound \cup {writes[w].prod}
             ELSE new.last = old.last /\ new.bound = old.bound
      BY <3>a, Zenon DEF Accepted
    <3>2. msg \in Messages
      BY <3>1, ZenonT(40) DEF Messages, Message
    <3>3. old \in StreamRecords /\ old.last <= Len(old.log) /\ Len(old.log) < MaxLog
          /\ old.life \in 1 .. Scenes[scene].lives
          /\ (~old.present => old.life < Scenes[scene].lives)
      BY <1>1, <2>2, ZenonT(40) DEF FencedAppend, TypeOK
    <3> HIDE DEF new, old, msg
    <3>4. new.log \in Seq(Messages) /\ Len(new.log) <= MaxLog /\ Len(old.log) <= Len(new.log)
      <4>1. old.log \in Seq(Messages)
        BY <3>3 DEF StreamRecords
      <4>2. /\ Append(old.log, msg) \in Seq(Messages)
            /\ Len(Append(old.log, msg)) = Len(old.log) + 1 /\ Len(old.log) \in Nat
        BY <3>2, <4>1, AppendedLog
      <4>3. new.log = old.log \/ new.log = Append(old.log, msg)
        BY <3>1
      <4>4. CASE new.log = old.log
        BY <3>3, <4>1, <4>2, <4>4
      <4>5. CASE new.log = Append(old.log, msg)
        <5> DEFINE longer == Append(old.log, msg)
        <5>1. longer \in Seq(Messages) /\ Len(longer) = Len(old.log) + 1 /\ new.log = longer
          BY <4>2, <4>5
        <5> HIDE DEF longer
        <5> QED
          BY <3>3, <4>2, <5>1
      <4> QED
        BY <4>3, <4>4, <4>5
    <3>5. new.last \in Nat \cup {Unset} /\ new.last <= Len(new.log)
      BY <3>1, <3>3, <3>4 DEF StreamRecords, Unset
    <3>6. new.bound \in SUBSET Producers
      BY <3>1, <3>3 DEF StreamRecords
    <3>7. new \in StreamRecords /\ new.life = old.life /\ new.present = old.present
      BY <3>1, <3>3, <3>4, <3>5, <3>6, Zenon DEF StreamRecords
    <3> QED
      BY <1>1, <2>1, <2>2, <3>1, <3>3, <3>4, <3>5, <3>7, StreamType, Zenon DEF FencedAppend
  <2> QED
    BY <2>3, <2>4, Zenon
<1>2. ASSUME NEW w \in Writers, NEW s \in Streams, NEW p \in Producers, PreCheck(w, s, p)
      PROVE  TypeOK'
  <2>1. [s |-> s, claim |-> Claim, prod |-> p] \in WriteRecords
    BY <1>2, ClaimFacts DEF PreCheck, WriteRecords
  <2> QED
    BY <1>2, <2>1 DEF PreCheck, TypeOK
<1>3. ASSUME NEW s \in Streams, DeleteStream(s) PROVE TypeOK'
  <2> DEFINE new == Deleted(stream[s].life)
  <2>1. stream' = [stream EXCEPT ![s] = new]
    BY <1>3 DEF DeleteStream, Deleted
  <2>2. new \in StreamRecords /\ Len(new.log) = 0 /\ new.last = -1 /\ new.life = stream[s].life
    BY <1>a, NewStreamFacts
  <2>3. stream[s].life \in 1 .. Scenes[scene].lives /\ stream[s].life < Scenes[scene].lives
        /\ writes' \in [Writers -> WriteRecords]
    BY <1>3 DEF DeleteStream, TypeOK
  <2> HIDE DEF new
  <2>4. Len(new.log) <= MaxLog /\ new.last <= Len(new.log)
    BY <2>2
  <2> QED
    BY <1>3, <2>1, <2>2, <2>3, <2>4, StreamType, Zenon DEF DeleteStream
<1>4. ASSUME NEW s \in Streams, CreateStream(s) PROVE TypeOK'
  <2> DEFINE new == NewStream(stream[s].life + 1)
  <2>1. stream' = [stream EXCEPT ![s] = new]
    BY <1>4 DEF CreateStream
  <2>2. new \in StreamRecords /\ Len(new.log) = 0 /\ new.last = -1
        /\ new.life = stream[s].life + 1 /\ new.present
    <3>1. stream[s].life + 1 \in Nat
      BY <1>a
    <3> QED
      BY <3>1, NewStreamFacts
  <2>3. stream[s].life \in 1 .. Scenes[scene].lives /\ stream[s].life < Scenes[scene].lives
        /\ Scenes[scene].lives \in Nat /\ writes' \in [Writers -> WriteRecords]
    BY <1>4, ConstantAssumption DEF ConstantAssumption, CreateStream, TypeOK
  <2> HIDE DEF new
  <2>4. Len(new.log) <= MaxLog /\ new.last <= Len(new.log)
    BY <2>2
  <2>5. new.life \in 1 .. Scenes[scene].lives
    BY <2>2, <2>3
  <2> QED
    BY <1>4, <2>1, <2>2, <2>3, <2>4, <2>5, StreamType, Zenon DEF CreateStream
<1>5. ASSUME NEW s \in Streams, NEW p \in Producers, OpenAppend(s, p) PROVE TypeOK'
  <2> DEFINE msg == [class |-> "open", prod |-> p]
             new == [stream[s] EXCEPT !.log = Append(@, msg)]
  <2>1. stream' = [stream EXCEPT ![s] = new] /\ Len(stream[s].log) < MaxLog
    BY <1>5 DEF OpenAppend
  <2>2. msg \in Messages
    BY DEF Messages
  <2>3. stream[s].last <= Len(stream[s].log) /\ stream[s].life \in 1 .. Scenes[scene].lives
        /\ (~stream[s].present => stream[s].life < Scenes[scene].lives)
        /\ writes' \in [Writers -> WriteRecords]
    BY <1>5 DEF TypeOK, OpenAppend
  <2> HIDE DEF msg
  <2>4. stream[s].log \in Seq(Messages) /\ stream[s].last \in Int
    BY <1>a DEF StreamRecords, Unset
  <2>5. /\ Append(stream[s].log, msg) \in Seq(Messages)
        /\ Len(Append(stream[s].log, msg)) = Len(stream[s].log) + 1
    BY <2>2, <2>4, AppendedLog
  <2>6. new \in StreamRecords /\ new.last = stream[s].last /\ new.life = stream[s].life
        /\ new.present = stream[s].present /\ new.log = Append(stream[s].log, msg)
    BY <1>a, <2>5, Zenon DEF StreamRecords
  <2>7. Len(new.log) <= MaxLog /\ new.last <= Len(new.log)
    BY <2>1, <2>3, <2>4, <2>5, <2>6
  <2> HIDE DEF new
  <2> QED
    BY <1>5, <2>1, <2>3, <2>6, <2>7, StreamType, Zenon DEF OpenAppend
<1>6. ASSUME NEW s \in Streams, NEW a \in Auths, ReapMarker(s, a) PROVE TypeOK'
  <2>1. NoMarker \in Markers
    BY DEF NoMarker, Markers
  <2> QED
    BY <1>6, <2>1 DEF ReapMarker, TypeOK
<1> QED
  BY <1>1, <1>2, <1>3, <1>4, <1>5, <1>6

\* The steps of the subscription by itself.
SubStep == ClaimSub \/ ExpireLease \/ Lapse \/ CreateSub \/ \E s \in Streams : Link(s)

\* A step of manager call k.
CallStep(k) ==
    \/ BeginGrant(k) \/ AbandonGrant(k) \/ EndSeal(k) \/ EndCall(k)
    \/ \E s \in Streams : GrantOne(k, s) \/ RevokeOne(k, s) \/ SealOne(k, s)
    \/ \E end \in {"idle", "delete", "unlink"}, paths \in SUBSET Streams : BeginSeal(k, end, paths)

\* The other steps: writers, and the streams and markers.
StreamStep ==
    \/ \E w \in Writers : \/ \E s \in Streams, p \in Producers : PreCheck(w, s, p)
                          \/ \E closing \in BOOLEAN : FencedAppend(w, closing)
    \/ \E s \in Streams : \/ DeleteStream(s) \/ CreateStream(s)
                          \/ \E p \in Producers : OpenAppend(s, p)
                          \/ \E a \in Auths : ReapMarker(s, a)

\* Every step is of one of the three kinds.
LEMMA NextKinds ==
    ASSUME TypeOK, Next
    PROVE  SubStep \/ (\E k \in Calls : CallStep(k)) \/ StreamStep
<1>a. sub.links \in SUBSET Streams /\ Scenes[scene].writers \subseteq Writers
  BY ConstantAssumption, Zenon DEF ConstantAssumption, TypeOK
<1>1. CASE ClaimSub \/ ExpireLease \/ Lapse \/ CreateSub
  BY <1>1 DEF SubStep
<1>2. ASSUME NEW k \in Calls,
             \/ BeginGrant(k) \/ EndSeal(k) \/ EndCall(k) \/ AbandonGrant(k)
             \/ BeginSeal(k, "idle", sub.links) \/ BeginSeal(k, "delete", sub.links)
             \/ \E s \in Streams : \/ GrantOne(k, s) \/ RevokeOne(k, s) \/ SealOne(k, s)
                                   \/ s \in sub.links /\ BeginSeal(k, "unlink", {s})
      PROVE  CallStep(k)
  BY <1>a, <1>2, Zenon DEF CallStep
<1>3. ASSUME NEW w \in Scenes[scene].writers,
             \/ \E s \in Streams, p \in Producers : PreCheck(w, s, p)
             \/ \E closing \in BOOLEAN : FencedAppend(w, closing)
      PROVE  StreamStep
  BY <1>a, <1>3 DEF StreamStep
<1>4. ASSUME NEW s \in Streams,
             \/ Link(s) \/ DeleteStream(s) \/ CreateStream(s)
             \/ \E p \in Producers : OpenAppend(s, p)
             \/ \E a \in Auths : ReapMarker(s, a)
      PROVE  SubStep \/ StreamStep
  BY <1>4 DEF SubStep, StreamStep
<1> QED
  BY <1>1, <1>2, <1>3, <1>4 DEF Next

\* The steps of the subscription keep the state well typed.
LEMMA SubStepType == TypeOK /\ SubStep => TypeOK'
<1> SUFFICES ASSUME TypeOK, SubStep PROVE TypeOK'
  OBVIOUS
<1> DEFINE Shape == /\ sub \in [phase : {"absent", "idle", "live"}, auth : 0 .. MaxAuth,
                                gen : 0 .. MaxGen, links : SUBSET Streams]
                    /\ sub.phase # "absent" => sub.auth \in Auths
<1>a. Shape
  BY DEF TypeOK
<1>b. SUFFICES Shape' /\ lapsed' \in [Auths -> 0 .. MaxGen]
               /\ UNCHANGED <<stream, marker, calls, writes, scene>>
  BY <1>b DEF TypeOK
<1>c. lapsed \in [Auths -> 0 .. MaxGen]
  BY DEF TypeOK
<1>1. CASE ClaimSub
  <2>1. sub.gen + 1 \in 0 .. MaxGen /\ sub.phase # "absent"
    BY <1>a, <1>1 DEF ClaimSub
  <2>2. sub' = [sub EXCEPT !.phase = "live", !.gen = sub.gen + 1]
    BY <1>1 DEF ClaimSub
  <2> QED
    BY <1>a, <1>c, <1>1, <2>1, <2>2, Zenon DEF ClaimSub
<1>2. CASE ExpireLease
  BY <1>a, <1>c, <1>2 DEF ExpireLease
<1>3. CASE Lapse
  <2>1. PICK a \in Auths : /\ lapsed[a] < (IF a = sub.auth THEN sub.gen ELSE MaxGen)
                           /\ lapsed' = [lapsed EXCEPT ![a] = @ + 1]
    BY <1>3, Zenon DEF Lapse
  <2>2. lapsed[a] + 1 \in 0 .. MaxGen
    BY <1>a, <1>c, <2>1
  <2> QED
    BY <1>a, <1>c, <1>3, <2>1, <2>2, Zenon DEF Lapse
<1>4. CASE CreateSub
  BY <1>a, <1>c, <1>4 DEF CreateSub
<1>5. CASE \E s \in Streams : Link(s)
  BY <1>a, <1>c, <1>5 DEF Link
<1> QED
  BY <1>1, <1>2, <1>3, <1>4, <1>5 DEF SubStep

\* Every step keeps the state well typed.
LEMMA TypeStep == TypeOK /\ [Next]_vars => TypeOK'
<1> SUFFICES ASSUME TypeOK, [Next]_vars PROVE TypeOK'
  OBVIOUS
<1>1. CASE SubStep
  BY <1>1, SubStepType
<1>2. ASSUME NEW k \in Calls, CallStep(k) PROVE TypeOK'
  BY <1>2, CallStepType DEF CallStep
<1>3. CASE StreamStep
  BY <1>3, StreamStepType DEF StreamStep
<1>4. CASE UNCHANGED vars
  BY <1>4 DEF vars, TypeOK
<1> QED
  BY <1>1, <1>2, <1>3, <1>4, NextKinds

\* The state is always well typed.
THEOREM TypeCorrect == Spec => []TypeOK
BY TypeInit, TypeStep, PTL DEF Spec

-----------------------------------------------------------------------------
(* The inductive invariant holds initially *)

\* No message, no call and no write: nothing to show.
LEMMA FenceInit == Init => FenceInv
<1> SUFFICES ASSUME Init PROVE FenceInv
  OBVIOUS
<1>1. \A s \in Streams : Len(stream[s].log) = 0
  BY NewStreamFacts DEF Init
<1>2. \A s \in Fenced : 1 .. Len(stream[s].log) = {}
  BY <1>1
<1>3. \A k \in Calls : calls[k] = NoCall
  BY DEF Init
<1>4. \A w \in Writers : writes[w] = NoWrite
  BY DEF Init
<1> QED
  BY <1>2, <1>3, <1>4, TypeInit, Zenon
     DEF FenceInv, ClaimsArePast, LastAndBoundCover, MarkerLeads, SealsAreFinal,
         BoundProducersStayFenced, ClaimsDoNotInterleave

-----------------------------------------------------------------------------
(* Steps that append nothing *)

\* The subscription goes on: the same authority with no lower a generation, or
\* the next authority.
SubMoves ==
    \/ sub'.auth = sub.auth /\ sub.gen <= sub'.gen
    \/ sub'.auth = sub.auth + 1

\* The messages of a log are well formed.
LEMMA MessageType ==
    ASSUME TypeOK, NEW s \in Fenced, NEW i \in 1 .. Len(stream[s].log)
    PROVE  /\ stream[s].log[i] \in Messages
           /\ IsFenced(s, i) => /\ stream[s].log[i].claim \in ClaimRecords
                                /\ stream[s].log[i].claim.auth \in Auths
                                /\ stream[s].log[i].claim.gen \in 0 .. MaxGen
<1>1. stream[s].log \in Seq(Messages)
  BY DEF TypeOK, StreamRecords
<1>2. stream[s].log[i] \in Messages
  BY <1>1
<1> QED
  BY <1>2 DEF Messages, IsFenced, ClaimRecords

\* A claim of the past stays one.
LEMMA PastMoves ==
    ASSUME TypeOK, TypeOK', SubMoves, NEW c \in ClaimRecords, Past(c)
    PROVE  Past(c)'
<1>1. sub.auth \in Nat /\ sub.gen \in Nat /\ sub'.auth \in Nat /\ sub'.gen \in Nat
  BY DEF TypeOK
<1>2. c.auth \in Nat /\ c.gen \in Nat
  BY DEF ClaimRecords
<1> QED
  BY <1>1, <1>2 DEF SubMoves, Past

\* A step that changes streams only in their seals keeps all that is said of
\* the logs: a new seal is at LastOffset, after every fenced message.
LEMMA QuietLogs ==
    ASSUME FenceInv, TypeOK', SealsOnly, SubMoves, scene' = scene
    PROVE  /\ LastAndBoundCover' /\ SealsAreFinal' /\ BoundProducersStayFenced'
           /\ ClaimsDoNotInterleave'
           /\ \A s \in Fenced : \A i \in 1 .. Len(stream'[s].log) :
                 IsFenced(s, i)' => Past(stream[s].log[i].claim)'
<1>a. TypeOK /\ \A t \in Fenced : t \in Streams /\ stream'[t].log = stream[t].log
  BY DEF FenceInv, SealsOnly
<1>b. \A t \in Fenced : \A i : IsFenced(t, i)' = IsFenced(t, i)
  BY <1>a DEF IsFenced
<1>1. LastAndBoundCover'
  BY <1>a, <1>b DEF FenceInv, LastAndBoundCover, SealsOnly
<1>2. BoundProducersStayFenced'
  BY <1>a, <1>b DEF FenceInv, BoundProducersStayFenced
<1>3. ClaimsDoNotInterleave'
  BY <1>a, <1>b, Zenon DEF FenceInv, ClaimsDoNotInterleave
<1>4. ASSUME NEW s \in Fenced, NEW i \in 1 .. Len(stream'[s].log), IsFenced(s, i)'
      PROVE  Past(stream[s].log[i].claim)'
  <2>1. Past(stream[s].log[i].claim)
    BY <1>a, <1>b, <1>4 DEF FenceInv, ClaimsArePast
  <2>2. stream[s].log[i].claim \in ClaimRecords
    BY <1>a, <1>b, <1>4, MessageType
  <2>3. PICK c \in ClaimRecords : c = stream[s].log[i].claim
    BY <2>2
  <2>4. Past(c)'
    BY <1>a, <2>1, <2>3, PastMoves, Zenon
  <2> QED
    BY <1>a, <2>3, <2>4 DEF Past
<1>5. SealsAreFinal'
  <2> SUFFICES ASSUME NEW s \in Fenced, NEW i \in 1 .. Len(stream'[s].log), IsFenced(s, i)',
                      stream'[s].log[i].claim.gen <= stream'[s].seal[stream'[s].log[i].claim.auth].gen
               PROVE  i <= stream'[s].seal[stream'[s].log[i].claim.auth].off
    BY Zenon DEF SealsAreFinal
  <2> DEFINE c == stream[s].log[i].claim
  <2>1. /\ i \in 1 .. Len(stream[s].log) /\ IsFenced(s, i) /\ stream'[s].log[i].claim = c
        /\ c.auth \in Auths
    BY <1>a, <1>b, MessageType, Zenon
  <2>2. i <= stream[s].last
    BY <2>1, Zenon DEF FenceInv, LastAndBoundCover
  <2>3. i <= LastOffset(s)
    <3>1. stream[s].last \in Nat \cup {Unset} /\ stream[s].log \in Seq(Messages)
      BY <1>a, ZenonT(40) DEF TypeOK, StreamRecords
    <3>2. i \in Nat /\ i >= 1
      BY <2>1, <3>1, PlaceInLog, Zenon
    <3>3. stream[s].last # Unset
      BY <2>2, <3>2 DEF Unset
    <3> QED
      BY <2>2, <3>3, Zenon DEF LastOffset
  <2>4. CASE stream'[s].seal[c.auth] = stream[s].seal[c.auth]
    BY <2>1, <2>4, Zenon DEF FenceInv, SealsAreFinal
  <2>5. CASE stream'[s].seal[c.auth].off = LastOffset(s)
    BY <2>1, <2>3, <2>5, Zenon
  <2> QED
    BY <1>a, <2>1, <2>4, <2>5, ZenonT(40) DEF SealsOnly
<1> QED
  BY <1>1, <1>2, <1>3, <1>4, <1>5

\* A grant that is under way after a step was before, or has just read the
\* current claim.
GrantsFollow ==
    \A k \in Calls : calls'[k].at = "grant" =>
       \/ calls[k].at = "grant" /\ calls'[k].claim = calls[k].claim
       \/ calls'[k].claim = Claim

\* A marker rises and does not come alive, or is what a grant under way made it.
MarkersFollow ==
    \A s \in Fenced, a \in Auths :
       LET old == marker[s][a]
           new == marker'[s][a]
       IN  \/ old.gen <= new.gen /\ (new.state = "live" => old.state = "live")
           \/ \E k \in Calls : /\ calls[k].at = "grant" /\ calls[k].claim.auth = a
                               /\ new.gen = calls[k].claim.gen /\ old.gen <= new.gen

\* Such a step keeps the markers ahead of the messages.
LEMMA QuietMarkers ==
    ASSUME FenceInv, TypeOK', SealsOnly, scene' = scene, GrantsFollow, MarkersFollow
    PROVE  MarkerLeads'
<1> SUFFICES ASSUME Scenes[scene].prompt, NEW s \in Fenced,
                    NEW i \in 1 .. Len(stream'[s].log), IsFenced(s, i)'
             PROVE  LET c == stream'[s].log[i].claim
                    IN  \/ c.gen <= marker'[s][c.auth].gen
                        \/ /\ marker'[s][c.auth].state # "live"
                           /\ \A k \in Calls :
                                 calls'[k].at = "grant" /\ calls'[k].claim.auth = c.auth =>
                                    c.gen <= calls'[k].claim.gen
  BY Zenon DEF MarkerLeads
<1> DEFINE c == stream[s].log[i].claim
           old == marker[s][c.auth]
           new == marker'[s][c.auth]
<1>1. /\ i \in 1 .. Len(stream[s].log) /\ IsFenced(s, i) /\ stream'[s].log[i].claim = c
      /\ s \in Streams /\ TypeOK
  BY DEF FenceInv, SealsOnly, IsFenced
<1>2. c.auth \in Auths /\ c.gen \in 0 .. MaxGen /\ Past(c)
  BY <1>1, MessageType, Zenon DEF FenceInv, ClaimsArePast
<1>3. old.gen \in 0 .. MaxGen /\ new.gen \in 0 .. MaxGen
  <2>1. marker \in [Streams -> [Auths -> Markers]]
    BY <1>1 DEF TypeOK
  <2>2. marker' \in [Streams -> [Auths -> Markers]]
    BY ZenonT(40) DEF TypeOK
  <2>3. old \in Markers /\ new \in Markers
    BY <1>1, <1>2, <2>1, <2>2, ZenonT(40)
  <2> QED
    BY <2>3, Zenon DEF Markers
<1>4. \A k \in Calls : calls[k].at = "grant" => calls[k].claim.gen \in 0 .. MaxGen
  BY <1>1, CallShape, Zenon DEF ClaimRecords
<1>5. \/ c.gen <= old.gen
      \/ /\ old.state # "live"
         /\ \A k \in Calls : calls[k].at = "grant" /\ calls[k].claim.auth = c.auth =>
               c.gen <= calls[k].claim.gen
  BY <1>1, Zenon DEF FenceInv, MarkerLeads
<1> HIDE DEF c, old, new
<1>6. \/ old.gen <= new.gen /\ (new.state = "live" => old.state = "live")
      \/ \E k \in Calls : /\ calls[k].at = "grant" /\ calls[k].claim.auth = c.auth
                          /\ new.gen = calls[k].claim.gen /\ old.gen <= new.gen
  BY <1>2 DEF MarkersFollow, old, new
<1>7. CASE c.gen <= old.gen
  <2>1. c.gen <= new.gen
    BY <1>2, <1>3, <1>6, <1>7
  <2> QED
    BY <1>1, <2>1 DEF new
<1>8. CASE /\ old.state # "live"
           /\ \A k \in Calls : calls[k].at = "grant" /\ calls[k].claim.auth = c.auth =>
                 c.gen <= calls[k].claim.gen
  <2>1. ASSUME NEW k \in Calls, calls'[k].at = "grant", calls'[k].claim.auth = c.auth
        PROVE  c.gen <= calls'[k].claim.gen
    BY <1>2, <1>8, <2>1 DEF GrantsFollow, Claim, Past
  <2>2. c.gen <= new.gen \/ new.state # "live"
    BY <1>6, <1>8
  <2> QED
    BY <1>1, <2>1, <2>2 DEF new
<1> QED
  BY <1>5, <1>7, <1>8, ZenonT(40)

\* What a quiet step must show for the invariant.
LEMMA QuietStep ==
    ASSUME FenceInv, TypeOK', SealsOnly, SubMoves, scene' = scene, GrantsFollow, MarkersFollow,
           \A k \in Calls : calls'[k] # NoCall =>
              \/ calls'[k].claim = Claim /\ Past(Claim)
              \/ calls[k] # NoCall /\ calls'[k].claim = calls[k].claim,
           \A w \in Writers : writes'[w] # NoWrite =>
              \/ writes'[w].claim = Claim /\ Past(Claim)
              \/ writes[w] # NoWrite /\ writes'[w].claim = writes[w].claim
    PROVE  FenceInv'
<1>a. TypeOK
  BY DEF FenceInv
<1>1. ASSUME NEW c \in ClaimRecords, Past(c) PROVE Past(c)'
  BY <1>a, <1>1, PastMoves
<1>2. ASSUME NEW k \in Calls, calls'[k] # NoCall PROVE Past(calls[k].claim)'
  <2>1. calls'[k].claim \in ClaimRecords
    BY <1>2 DEF TypeOK, CallRecords
  <2>2. PICK c \in ClaimRecords : c = calls'[k].claim
    BY <2>1
  <2>3. Past(c)
    BY <1>2, <2>2 DEF FenceInv, ClaimsArePast
  <2>4. Past(c)'
    BY <1>1, <2>3
  <2> QED
    BY <2>2, <2>4 DEF Past
<1>3. ASSUME NEW w \in Writers, writes'[w] # NoWrite PROVE Past(writes[w].claim)'
  <2>1. writes'[w].claim \in ClaimRecords
    BY <1>3 DEF TypeOK, WriteRecords
  <2>2. PICK c \in ClaimRecords : c = writes'[w].claim
    BY <2>1
  <2>3. Past(c)
    BY <1>3, <2>2 DEF FenceInv, ClaimsArePast
  <2>4. Past(c)'
    BY <1>1, <2>3
  <2> QED
    BY <2>2, <2>4 DEF Past
<1>4. ClaimsArePast'
  BY <1>2, <1>3, QuietLogs DEF ClaimsArePast
<1> QED
  BY <1>4, QuietLogs, QuietMarkers DEF FenceInv

\* Markers have generations.
LEMMA MarkerGens == TypeOK => \A s \in Streams, a \in Auths : marker[s][a].gen \in 0 .. MaxGen
<1>1. TypeOK => marker \in [Streams -> [Auths -> Markers]]
  BY DEF TypeOK
<1> QED
  BY <1>1 DEF Markers

\* Markers that no step touches follow, and so do grants.
LEMMA NothingMoves ==
    ASSUME TypeOK
    PROVE  /\ marker' = marker => MarkersFollow
           /\ calls' = calls => GrantsFollow
           /\ sub' = sub => SubMoves
<1>1. \A s \in Streams, a \in Auths : marker[s][a].gen \in Nat
  BY MarkerGens
<1>2. sub.gen \in Nat
  BY DEF TypeOK
<1> QED
  BY <1>1, <1>2 DEF MarkersFollow, GrantsFollow, SubMoves

\* The steps of the subscription.
LEMMA SubStepInv == FenceInv /\ SubStep => FenceInv'
<1> SUFFICES ASSUME FenceInv, SubStep PROVE FenceInv'
  OBVIOUS
<1>1. TypeOK /\ TypeOK'
  BY SubStepType DEF FenceInv
<1>2. UNCHANGED <<stream, marker, calls, writes, scene>>
  BY DEF SubStep, ClaimSub, ExpireLease, Lapse, CreateSub, Link
<1>3. SubMoves
  <2>1. sub.gen \in Nat /\ sub.auth \in Nat
        /\ sub \in [phase : {"absent", "idle", "live"}, auth : 0 .. MaxAuth,
                    gen : 0 .. MaxGen, links : SUBSET Streams]
    BY <1>1 DEF TypeOK
  <2>2. \/ sub' = sub
        \/ sub' = [sub EXCEPT !.phase = "live", !.gen = @ + 1]
        \/ sub' = [sub EXCEPT !.phase = "idle"]
        \/ \E s \in Streams : sub' = [sub EXCEPT !.links = @ \cup {s}]
        \/ sub' = [phase |-> "idle", auth |-> sub.auth + 1, gen |-> 0, links |-> Streams]
    BY DEF SubStep, ClaimSub, ExpireLease, Lapse, CreateSub, Link
  <2>3. CASE sub' = [sub EXCEPT !.phase = "live", !.gen = @ + 1]
    BY <2>1, <2>3 DEF SubMoves
  <2>4. CASE sub' = [sub EXCEPT !.phase = "idle"]
    BY <2>1, <2>4 DEF SubMoves
  <2>5. CASE \E s \in Streams : sub' = [sub EXCEPT !.links = @ \cup {s}]
    BY <2>1, <2>5 DEF SubMoves
  <2> QED
    BY <2>1, <2>2, <2>3, <2>4, <2>5 DEF SubMoves
<1> QED
  BY <1>1, <1>2, <1>3, QuietStep, NothingMoves, SameStreams

\* One call moves on, and nothing else but seals and markers.
LEMMA CallMoves ==
    ASSUME FenceInv, TypeOK', NEW k \in Calls, NEW call, Goto(k, call), SealsOnly, SubMoves,
           MarkersFollow, UNCHANGED <<writes, scene>>,
           call = NoCall \/ (call.claim = Claim /\ Past(Claim))
           \/ (calls[k] # NoCall /\ call.claim = calls[k].claim),
           call.at = "grant" => call.claim = Claim
                                \/ (calls[k].at = "grant" /\ call.claim = calls[k].claim)
    PROVE  FenceInv'
<1>1. calls' = [calls EXCEPT ![k] = call]
  BY DEF Goto
<1>2. calls'[k] = call /\ \A j \in Calls \ {k} : calls'[j] = calls[j]
  BY <1>1 DEF FenceInv, TypeOK
<1>3. GrantsFollow
  BY <1>2 DEF GrantsFollow
<1>4. \A j \in Calls : calls'[j] # NoCall =>
         \/ calls'[j].claim = Claim /\ Past(Claim)
         \/ calls[j] # NoCall /\ calls'[j].claim = calls[j].claim
  BY <1>2
<1> QED
  BY <1>3, <1>4, QuietStep

\* The markers after a revocation or a seal.
LEMMA TombstoneFollows ==
    ASSUME TypeOK, NEW s \in Streams, NEW c \in ClaimRecords,
           \/ marker' = marker
           \/ marker' = Tombstone(s, c) /\ ~(marker[s][c.auth].gen > c.gen)
    PROVE  MarkersFollow
<1>1. CASE marker' = marker
  BY <1>1, NothingMoves
<1>2. CASE marker' = Tombstone(s, c) /\ ~(marker[s][c.auth].gen > c.gen)
  <2> SUFFICES ASSUME NEW t \in Fenced, NEW a \in Auths
               PROVE  /\ marker[t][a].gen <= marker'[t][a].gen
                      /\ marker'[t][a].state = "live" => marker[t][a].state = "live"
    BY DEF MarkersFollow
  <2>1. marker \in [Streams -> [Auths -> Markers]] /\ c.auth \in Auths /\ c.gen \in 0 .. MaxGen
    BY DEF TypeOK, ClaimRecords
  <2>2. \A u \in Streams, b \in Auths : marker[u][b] \in Markers /\ marker[u][b].gen \in 0 .. MaxGen
    BY <2>1, Zenon DEF Markers
  <2>3. CASE t = s /\ a = c.auth
    <3>1. marker'[t][a] = [marker[s][c.auth] EXCEPT !.state = "revoked", !.gen = c.gen]
      BY <1>2, <2>1, <2>3, Zenon DEF Tombstone
    <3>2. marker'[t][a].state = "revoked" /\ marker'[t][a].gen = c.gen
      BY <2>1, <2>2, <2>3, <3>1 DEF Markers
    <3> QED
      BY <1>2, <2>1, <2>2, <2>3, <3>2
  <2>4. CASE t # s \/ a # c.auth
    <3>1. marker'[t][a] = marker[t][a]
      BY <1>2, <2>1, <2>4 DEF Tombstone
    <3> QED
      BY <2>2, <3>1
  <2> QED
    BY <2>3, <2>4
<1> QED
  BY <1>1, <1>2

\* The steps of a manager call.
LEMMA CallStepInv ==
    ASSUME FenceInv, NEW k \in Calls, CallStep(k)
    PROVE  FenceInv'
<1>1. TypeOK /\ TypeOK'
  BY CallStepType DEF FenceInv, CallStep
<1>2. CASE BeginGrant(k)
  <2> DEFINE call == [at |-> "grant", claim |-> Claim, todo |-> sub.links, got |-> {}]
  <2>1. call.claim = Claim /\ Past(Claim)
    BY <1>1, <1>2, ClaimFacts DEF BeginGrant
  <2>2. Goto(k, call) /\ UNCHANGED <<sub, stream, marker, writes, scene>>
    BY <1>2 DEF BeginGrant
  <2> HIDE DEF call
  <2> QED
    BY <1>1, <2>1, <2>2, CallMoves, NothingMoves, SameStreams
<1>3. CASE AbandonGrant(k)
  <2> DEFINE call == [calls[k] EXCEPT !.at = "revoke", !.todo = calls[k].got]
  <2>1. call.at = "revoke" /\ call.claim = calls[k].claim /\ calls[k] # NoCall
    BY <1>1, <1>3, CallShape DEF AbandonGrant
  <2>2. Goto(k, call) /\ UNCHANGED <<sub, stream, marker, writes, scene>>
    BY <1>3 DEF AbandonGrant
  <2> HIDE DEF call
  <2> QED
    BY <1>1, <2>1, <2>2, CallMoves, NothingMoves, SameStreams
<1>4. CASE EndSeal(k)
  <2>1. Goto(k, NoCall) /\ UNCHANGED <<stream, marker, writes, scene>>
    BY <1>4 DEF EndSeal
  <2>2. SubMoves
    BY <1>1, <1>4 DEF EndSeal, SubMoves, TypeOK
  <2> QED
    BY <1>1, <2>1, <2>2, CallShape, CallMoves, NothingMoves, SameStreams
<1>5. CASE EndCall(k)
  <2>1. Goto(k, NoCall) /\ UNCHANGED <<sub, stream, marker, writes, scene>>
    BY <1>5 DEF EndCall
  <2> QED
    BY <1>1, <2>1, CallShape, CallMoves, NothingMoves, SameStreams
<1>6. ASSUME NEW s \in Streams, GrantOne(k, s) PROVE FenceInv'
  <2> DEFINE rest == [calls[k] EXCEPT !.todo = @ \ {s}]
             more == [rest EXCEPT !.got = @ \cup {s}]
             c == calls[k].claim
  <2>1. /\ calls[k].at = "grant" /\ calls[k] # NoCall /\ c \in ClaimRecords
        /\ rest.claim = c /\ more.claim = c /\ rest.at = "grant" /\ more.at = "grant"
    BY <1>1, <1>6, CallShape DEF GrantOne
  <2>2. UNCHANGED <<sub, writes, scene>>
    BY <1>6 DEF GrantOne
  <2>3. CASE GrantAllowed(s, c) /\ Grant(s, c) /\ Goto(k, more)
    <3>1. SealsOnly /\ \A t \in Streams, b \in Auths :
                          <<t, b>> # <<s, c.auth>> => marker'[t][b] = marker[t][b]
      BY <1>1, <2>1, <2>3, ScriptFacts
    <3>2. marker[s][c.auth].gen <= c.gen
      BY <2>3, ZenonT(40) DEF GrantAllowed
    <3>3. marker'[s][c.auth].gen = c.gen
      <4>1. marker \in [Streams -> [Auths -> Markers]] /\ c.auth \in Auths
        BY <1>1, <2>1 DEF TypeOK, ClaimRecords
      <4> QED
        BY <2>3, <4>1 DEF Grant
    <3>4. \A t \in Streams, b \in Auths : marker[t][b].gen \in Nat
      BY <1>1, MarkerGens
    <3>5. MarkersFollow
      BY <2>1, <3>1, <3>2, <3>3, <3>4 DEF MarkersFollow
    <3> HIDE DEF more
    <3> QED
      BY <1>1, <2>1, <2>2, <2>3, <3>1, <3>5, CallMoves, NothingMoves
  <2>4. CASE Goto(k, rest) /\ UNCHANGED <<stream, marker>>
    <3> HIDE DEF rest
    <3> QED
      BY <1>1, <2>1, <2>2, <2>4, CallMoves, NothingMoves, SameStreams
  <2> QED
    BY <1>6, <2>3, <2>4 DEF GrantOne
<1>7. ASSUME NEW s \in Streams, RevokeOne(k, s) PROVE FenceInv'
  <2> DEFINE rest == calls[k].todo \ {s}
             call == IF rest = {} THEN NoCall ELSE [calls[k] EXCEPT !.todo = rest]
             c == calls[k].claim
  <2>1. c \in ClaimRecords /\ calls[k] # NoCall /\ call.at # "grant"
        /\ (call = NoCall \/ call.claim = c)
    BY <1>1, <1>7, CallShape DEF RevokeOne
  <2>2. Revoke(s, c) /\ Goto(k, call) /\ UNCHANGED <<sub, stream, writes, scene>>
    BY <1>7 DEF RevokeOne
  <2>3. marker' = marker \/ (marker' = Tombstone(s, c) /\ ~(marker[s][c.auth].gen > c.gen))
    BY <2>2 DEF Revoke
  <2>4. MarkersFollow
    BY <1>1, <2>1, <2>3, TombstoneFollows
  <2> HIDE DEF call
  <2> QED
    BY <1>1, <2>1, <2>2, <2>4, CallMoves, NothingMoves, SameStreams
<1>8. ASSUME NEW s \in Streams, SealOne(k, s) PROVE FenceInv'
  <2> DEFINE call == [calls[k] EXCEPT !.todo = @ \ {s}]
             c == calls[k].claim
  <2>1. c \in ClaimRecords /\ calls[k] # NoCall /\ call.at = "seal" /\ call.claim = c
    BY <1>1, <1>8, CallShape DEF SealOne
  <2>2. Seal(s, c) /\ Goto(k, call) /\ UNCHANGED <<sub, writes, scene>>
    BY <1>8 DEF SealOne
  <2>3. marker' = marker \/ (marker' = Tombstone(s, c) /\ ~(marker[s][c.auth].gen > c.gen))
    BY <2>2 DEF Seal
  <2>4. MarkersFollow /\ SealsOnly
    BY <1>1, <2>1, <2>2, <2>3, TombstoneFollows, ScriptFacts
  <2> HIDE DEF call
  <2> QED
    BY <1>1, <2>1, <2>2, <2>4, CallMoves, NothingMoves
<1>9. ASSUME NEW end \in {"idle", "delete", "unlink"}, NEW paths \in SUBSET Streams,
             BeginSeal(k, end, paths)
      PROVE  FenceInv'
  <2> DEFINE call == [at |-> "seal", claim |-> Claim, end |-> end, paths |-> paths,
                      todo |-> IF sub.phase = "live" THEN paths ELSE {}]
  <2>1. call.at = "seal" /\ call.claim = Claim /\ Past(Claim)
    BY <1>1, <1>9, ClaimFacts DEF BeginSeal
  <2>2. Goto(k, call) /\ UNCHANGED <<sub, stream, marker, writes, scene>>
    BY <1>9 DEF BeginSeal
  <2> HIDE DEF call
  <2> QED
    BY <1>1, <2>1, <2>2, CallMoves, NothingMoves, SameStreams
<1> QED
  BY <1>2, <1>3, <1>4, <1>5, <1>6, <1>7, <1>8, <1>9 DEF CallStep

-----------------------------------------------------------------------------
(* Steps of writers, streams and markers *)

\* A marker is forgotten: in a prompt scene no grant of its authority is under
\* way.
LEMMA ReapInv ==
    ASSUME FenceInv, NEW s \in Streams, NEW a \in Auths, ReapMarker(s, a)
    PROVE  FenceInv'
<1>1. TypeOK /\ TypeOK'
  BY StreamStepType DEF FenceInv
<1>2. UNCHANGED <<sub, lapsed, stream, calls, writes, scene>>
  BY DEF ReapMarker
<1>3. \A t \in Streams, b \in Auths :
         marker'[t][b] = IF t = s /\ b = a THEN NoMarker ELSE marker[t][b]
  <2>1. marker \in [Streams -> [Auths -> Markers]]
    BY <1>1, Zenon DEF TypeOK
  <2> QED
    BY <2>1 DEF ReapMarker
<1>4. MarkerLeads'
  <2> SUFFICES ASSUME Scenes[scene].prompt, NEW t \in Fenced,
                      NEW i \in 1 .. Len(stream[t].log), IsFenced(t, i)
               PROVE  LET c == stream[t].log[i].claim
                      IN  \/ c.gen <= marker'[t][c.auth].gen
                          \/ /\ marker'[t][c.auth].state # "live"
                             /\ \A k \in Calls :
                                   calls[k].at = "grant" /\ calls[k].claim.auth = c.auth =>
                                      c.gen <= calls[k].claim.gen
    BY <1>2, Zenon DEF MarkerLeads, IsFenced
  <2> DEFINE c == stream[t].log[i].claim
  <2>1. c.auth \in Auths /\ t \in Streams
    BY <1>1, MessageType, Zenon
  <2>2. CASE t = s /\ c.auth = a
    <3>1. marker'[t][c.auth].state # "live"
      BY <1>3, <2>1, <2>2 DEF NoMarker
    <3>2. \A k \in Calls : calls[k].at = "grant" => calls[k].claim.auth # c.auth
      BY <2>2, Zenon DEF ReapMarker
    <3> QED
      BY <3>1, <3>2, Zenon
  <2>3. CASE ~(t = s /\ c.auth = a)
    <3>1. marker'[t][c.auth] = marker[t][c.auth]
      BY <1>3, <2>1, <2>3, Zenon
    <3> QED
      BY <3>1, Zenon DEF FenceInv, MarkerLeads
  <2> QED
    BY <2>2, <2>3, Zenon
<1>5. SubMoves /\ SealsOnly
  BY <1>1, <1>2, NothingMoves, SameStreams
<1>6. ClaimsArePast'
  BY <1>1, <1>2, <1>5, ZenonT(40) DEF FenceInv, ClaimsArePast, Past, IsFenced
<1> QED
  BY <1>1, <1>2, <1>4, <1>5, <1>6, QuietLogs DEF FenceInv

\* What the invariant says of one fenced message, and of one followed by another.
Led(s, c) ==
    \/ c.gen <= marker[s][c.auth].gen
    \/ /\ marker[s][c.auth].state # "live"
       /\ \A k \in Calls : calls[k].at = "grant" /\ calls[k].claim.auth = c.auth =>
             c.gen <= calls[k].claim.gen

MessageOK(s, i) ==
    LET m == stream[s].log[i]
        seal == stream[s].seal[m.claim.auth]
    IN  /\ Past(m.claim) /\ i <= stream[s].last /\ m.prod \in stream[s].bound
        /\ m.claim.gen <= seal.gen => i <= seal.off
        /\ Scenes[scene].prompt => Led(s, m.claim)

PairOK(s, i, j) ==
    LET m == stream[s].log[i]
        n == stream[s].log[j]
    IN  /\ m.prod = n.prod => IsFenced(s, j)
        /\ Scenes[scene].prompt /\ IsFenced(s, j) /\ m.claim.auth = n.claim.auth =>
              m.claim.gen <= n.claim.gen

LogOK(s) ==
    \A i \in 1 .. Len(stream[s].log) : IsFenced(s, i) =>
       MessageOK(s, i) /\ \A j \in 1 .. Len(stream[s].log) : i < j => PairOK(s, i, j)

LogsOK ==
    /\ \A s \in Fenced : LogOK(s)
    /\ \A k \in Calls : calls[k] # NoCall => Past(calls[k].claim)
    /\ \A w \in Writers : writes[w] # NoWrite => Past(writes[w].claim)

\* It says that of every message, and nothing else of the logs.
LEMMA InvByLog == FenceInv <=> TypeOK /\ LogsOK
<1>1. ASSUME FenceInv, NEW s \in Fenced PROVE LogOK(s)
  <2> SUFFICES ASSUME NEW i \in 1 .. Len(stream[s].log), IsFenced(s, i)
               PROVE  /\ MessageOK(s, i)
                      /\ \A j \in 1 .. Len(stream[s].log) : i < j => PairOK(s, i, j)
    BY Zenon DEF LogOK
  <2>1. MessageOK(s, i)
    <3>1. i <= stream[s].last /\ stream[s].log[i].prod \in stream[s].bound
      BY <1>1 DEF FenceInv, LastAndBoundCover
    <3>2. Past(stream[s].log[i].claim)
      BY <1>1, Zenon DEF FenceInv, ClaimsArePast
    <3>3. LET c == stream[s].log[i].claim
              seal == stream[s].seal[c.auth]
          IN  c.gen <= seal.gen => i <= seal.off
      BY <1>1, Zenon DEF FenceInv, SealsAreFinal
    <3>4. Scenes[scene].prompt => Led(s, stream[s].log[i].claim)
      BY <1>1, Zenon DEF FenceInv, MarkerLeads, Led
    <3> QED
      BY <3>1, <3>2, <3>3, <3>4, Zenon DEF MessageOK
  <2>2. ASSUME NEW j \in 1 .. Len(stream[s].log), i < j PROVE PairOK(s, i, j)
    <3>1. stream[s].log[i].prod = stream[s].log[j].prod => IsFenced(s, j)
      BY <1>1, <2>2, ZenonT(40) DEF FenceInv, BoundProducersStayFenced
    <3>2. Scenes[scene].prompt /\ IsFenced(s, j) =>
             LET c == stream[s].log[i].claim
                 d == stream[s].log[j].claim
             IN  c.auth = d.auth => c.gen <= d.gen
      BY <1>1, <2>2, ZenonT(40) DEF FenceInv, ClaimsDoNotInterleave
    <3> QED
      BY <3>1, <3>2, ZenonT(40) DEF PairOK
  <2> QED
    BY <2>1, <2>2
<1>2. ASSUME TypeOK, LogsOK PROVE FenceInv
  <2>1. \A s \in Fenced : \A i \in 1 .. Len(stream[s].log) : IsFenced(s, i) => MessageOK(s, i)
    BY <1>2 DEF LogsOK, LogOK
  <2>2. \A s \in Fenced : \A i, j \in 1 .. Len(stream[s].log) :
           IsFenced(s, i) /\ i < j => PairOK(s, i, j)
    BY <1>2, Zenon DEF LogsOK, LogOK
  <2>3. ClaimsArePast
    BY <1>2, <2>1, Zenon DEF LogsOK, ClaimsArePast, MessageOK
  <2>4. LastAndBoundCover
    BY <2>1, Zenon DEF LastAndBoundCover, MessageOK
  <2>5. MarkerLeads
    BY <2>1, Zenon DEF MarkerLeads, MessageOK, Led
  <2>6. SealsAreFinal
    BY <2>1, Zenon DEF SealsAreFinal, MessageOK
  <2>7. BoundProducersStayFenced
    BY <2>2 DEF BoundProducersStayFenced, PairOK
  <2>8. ClaimsDoNotInterleave
    BY <2>2, ZenonT(40) DEF ClaimsDoNotInterleave, PairOK
  <2> QED
    BY <1>2, <2>3, <2>4, <2>5, <2>6, <2>7, <2>8 DEF FenceInv
<1>3. FenceInv => TypeOK /\ LogsOK
  BY <1>1 DEF FenceInv, ClaimsArePast, LogsOK
<1> QED
  BY <1>2, <1>3

\* A step that changes the record of s alone, and ends writes: what is said of
\* s must be shown again.
LEMMA LogStep ==
    ASSUME FenceInv, TypeOK', NEW s \in Streams, UNCHANGED <<sub, marker, calls, scene>>,
           \A t \in Streams \ {s} : stream'[t] = stream[t],
           \A w \in Writers : writes'[w] = NoWrite \/ writes'[w] = writes[w],
           s \in Fenced => LogOK(s)'
    PROVE  FenceInv'
<1>1. ASSUME NEW t \in Fenced PROVE LogOK(t)'
  <2>1. LogOK(t)
    BY InvByLog DEF LogsOK
  <2>2. CASE t # s
    <3>1. stream'[t] = stream[t]
      BY <2>2
    <3>3. \A i : IsFenced(t, i)' = IsFenced(t, i)
      BY <3>1, Zenon DEF IsFenced
    <3>4. \A i : MessageOK(t, i) => MessageOK(t, i)'
      BY <3>1, ZenonT(40) DEF MessageOK, Past, Led
    <3>5. \A i, j : PairOK(t, i, j) => PairOK(t, i, j)'
      BY <3>1, <3>3, ZenonT(40) DEF PairOK
    <3> QED
      BY <2>1, <3>1, <3>3, <3>4, <3>5 DEF LogOK
  <2> QED
    BY <2>2
<1>2. LogsOK'
  BY <1>1, ZenonT(40) DEF FenceInv, ClaimsArePast, LogsOK, Past
<1>3. FenceInv' <=> TypeOK' /\ LogsOK'
  BY InvByLog, PTL
<1> QED
  BY <1>2, <1>3

\* The pre-check remembers the current claim.
LEMMA PreCheckInv ==
    ASSUME FenceInv, NEW w \in Writers, NEW s \in Streams, NEW p \in Producers, PreCheck(w, s, p)
    PROVE  FenceInv'
<1>1. TypeOK /\ TypeOK'
  BY StreamStepType DEF FenceInv
<1>2. UNCHANGED <<sub, stream, marker, calls, scene>> /\ Past(Claim)
  BY <1>1, ClaimFacts DEF PreCheck
<1>3. writes \in [Writers -> WriteRecords]
  BY <1>1 DEF TypeOK
<1>4. \A v \in Writers : writes'[v].claim = Claim \/ writes'[v] = writes[v]
  BY <1>3 DEF PreCheck
<1> QED
  BY <1>1, <1>2, <1>4, QuietStep, NothingMoves, SameStreams, ZenonT(40)

\* A stream that is deleted or created is empty.
LEMMA EmptyInv ==
    ASSUME FenceInv, NEW s \in Streams, DeleteStream(s) \/ CreateStream(s)
    PROVE  FenceInv'
<1>0. TypeOK /\ TypeOK'
  BY StreamStepType DEF FenceInv
<1>a. stream[s] \in StreamRecords
  BY <1>0 DEF TypeOK
<1>b. stream[s].life \in Nat
  BY <1>a DEF StreamRecords
<1>1. TypeOK /\ TypeOK' /\ stream[s].life \in Nat /\ stream[s].life + 1 \in Nat
  BY <1>0, <1>b
<1>2. UNCHANGED <<sub, marker, calls, writes, scene>>
  BY DEF DeleteStream, CreateStream
<1>3. stream \in [Streams -> StreamRecords]
  BY <1>1 DEF TypeOK
<1>4. /\ stream'[s] \in {Deleted(stream[s].life), NewStream(stream[s].life + 1)}
      /\ \A t \in Streams \ {s} : stream'[t] = stream[t]
  BY <1>3 DEF DeleteStream, CreateStream, Deleted
<1>5. Len(stream'[s].log) = 0
  BY <1>1, <1>4, NewStreamFacts
<1>6. 1 .. Len(stream'[s].log) = {}
  BY <1>5
<1>7. LogOK(s)'
  BY <1>6 DEF LogOK
<1> QED
  BY <1>1, <1>2, <1>4, <1>7, LogStep, ZenonT(40)

\* A message is appended to s.  Of the fenced class: its claim is the marker's,
\* above the seal.  Of the open class: its producer has written nothing fenced.
Appended(s, msg) ==
    /\ stream'[s].log = Append(stream[s].log, msg)
    /\ stream'[s].seal = stream[s].seal
    /\ stream[s].bound \subseteq stream'[s].bound
    /\ stream'[s].last \in {stream[s].last, Len(stream[s].log) + 1}
    /\ msg.class = "open" => msg.prod \notin stream[s].bound
    /\ msg.class = "fenced" =>
          /\ Past(msg.claim) /\ stream'[s].last = Len(stream[s].log) + 1
          /\ msg.prod \in stream'[s].bound
          /\ msg.claim.gen > stream[s].seal[msg.claim.auth].gen
          /\ marker[s][msg.claim.auth].state = "live"
          /\ marker[s][msg.claim.auth].gen = msg.claim.gen

\* No other stream changes, and nothing but writes that end.
OnlyStream(s) ==
    /\ UNCHANGED <<sub, marker, calls, scene>>
    /\ \A t \in Streams \ {s} : stream'[t] = stream[t]
    /\ \A w \in Writers : writes'[w] = NoWrite \/ writes'[w] = writes[w]

LEMMA AppendInv ==
    ASSUME FenceInv, TypeOK', NEW s \in Fenced, NEW msg \in Messages,
           OnlyStream(s), Appended(s, msg)
    PROVE  FenceInv'
<1>a. TypeOK /\ s \in Streams /\ LogOK(s)
  BY InvByLog DEF LogsOK
<1>b. /\ stream[s].log \in Seq(Messages) /\ stream[s].last \in Int
      /\ stream[s].last <= Len(stream[s].log)
      /\ \A a \in Auths : stream[s].seal[a].gen \in Int
  <2>1. stream[s] \in StreamRecords /\ stream[s].last <= Len(stream[s].log)
    BY <1>a, ZenonT(40) DEF TypeOK
  <2>2. stream[s].seal \in [Auths -> [gen : 0 .. MaxGen, off : Nat]]
        /\ stream[s].log \in Seq(Messages) /\ stream[s].last \in Int
    BY <2>1 DEF StreamRecords, Unset
  <2>3. \A a \in Auths : stream[s].seal[a] \in [gen : 0 .. MaxGen, off : Nat]
    BY <2>2
  <2>4. \A a \in Auths : stream[s].seal[a].gen \in Int
    BY <2>3
  <2> QED
    BY <2>1, <2>2, <2>4, ZenonT(40)
<1>c. PICK n \in Nat : n = Len(stream[s].log)
  BY <1>b
<1>d. PICK log : log = stream'[s].log
  OBVIOUS
<1>1. /\ Len(log) = n + 1 /\ log[n + 1] = msg
      /\ \A i \in 1 .. n : log[i] = stream[s].log[i]
  <2>1. log = Append(stream[s].log, msg)
    BY <1>d, Zenon DEF Appended
  <2>2. stream[s].log \in Seq(Messages)
    BY <1>b, Zenon
  <2> QED
    BY <1>c, <2>1, <2>2, AppendedLog, Zenon
<1>2. /\ msg.class \in {"open", "fenced"}
      /\ msg.class = "fenced" => msg.claim.auth \in Auths /\ msg.claim.gen \in 0 .. MaxGen
  BY DEF Messages, ClaimRecords
<1>3. /\ \A i : IsFenced(s, i)' <=> log[i].class = "fenced"
      /\ \A i \in 1 .. n : log[i].class = "fenced" <=> IsFenced(s, i)
  BY <1>1, <1>d DEF IsFenced
<1>4. stream'[s].last >= stream[s].last /\ stream'[s].last \in Int
  <2>1. stream'[s].last = stream[s].last \/ stream'[s].last = n + 1
    BY <1>c, Zenon DEF Appended
  <2>2. stream[s].last \in Int /\ stream[s].last <= n
    BY <1>b, <1>c, Zenon
  <2> QED
    BY <2>1, <2>2
<1>5. SUFFICES ASSUME NEW i \in 1 .. n + 1, log[i].class = "fenced"
               PROVE  /\ MessageOK(s, i)'
                      /\ \A j \in 1 .. n + 1 : i < j => PairOK(s, i, j)'
  <2>1. LogOK(s)'
    BY <1>1, <1>3, <1>5, <1>d, ZenonT(40) DEF LogOK
  <2> QED
    BY <1>a, <2>1, LogStep, Zenon DEF OnlyStream
<1>6. CASE i \in 1 .. n
  <2>1. /\ log[i] = stream[s].log[i] /\ IsFenced(s, i) /\ MessageOK(s, i)
        /\ \A j \in 1 .. n : i < j => PairOK(s, i, j)
    BY <1>a, <1>c, <1>1, <1>3, <1>5, <1>6, Zenon DEF LogOK
  <2>2. /\ Past(log[i].claim) /\ i <= stream[s].last /\ log[i].prod \in stream[s].bound
        /\ log[i].claim.gen <= stream[s].seal[log[i].claim.auth].gen
              => i <= stream[s].seal[log[i].claim.auth].off
        /\ Scenes[scene].prompt => Led(s, log[i].claim)
    BY <2>1, Zenon DEF MessageOK
  <2>3. i <= stream'[s].last
    <3>a. i \in Int
      OBVIOUS
    <3>1. i \in Int /\ i <= stream[s].last
      BY <2>2, <3>a, Zenon
    <3> QED
      BY <1>b, <1>4, <3>1
  <2>4. Past(log[i].claim)' /\ (Led(s, log[i].claim) => Led(s, log[i].claim)')
    BY <2>2, Zenon DEF OnlyStream, Past, Led
  <2>5. MessageOK(s, i)'
    <3>1. /\ stream'[s].seal = stream[s].seal /\ scene' = scene
          /\ log[i].prod \in stream'[s].bound
      BY <2>2, Zenon DEF Appended, OnlyStream
    <3> QED
      BY <1>d, <2>2, <2>3, <2>4, <3>1, Zenon DEF MessageOK
  <2>6. ASSUME NEW j \in 1 .. n, i < j PROVE PairOK(s, i, j)'
    <3>1. log[j] = stream[s].log[j] /\ (IsFenced(s, j)' <=> IsFenced(s, j)) /\ PairOK(s, i, j)
      BY <1>1, <1>3, <2>1, <2>6, Zenon
    <3> QED
      BY <1>d, <2>1, <3>1, Zenon DEF PairOK, OnlyStream
  <2>7. PairOK(s, i, n + 1)'
    <3>1. msg.prod = log[i].prod => msg.class = "fenced"
      BY <1>2, <2>2, ZenonT(40) DEF Appended
    <3>2. ASSUME Scenes[scene].prompt, msg.class = "fenced", log[i].claim.auth = msg.claim.auth
          PROVE  log[i].claim.gen <= msg.claim.gen
      BY <2>2, <3>2, ZenonT(40) DEF Led, Appended
    <3>3. IsFenced(s, n + 1)' <=> msg.class = "fenced"
      BY <1>1, <1>3
    <3> QED
      BY <1>1, <1>d, <3>1, <3>2, <3>3, ZenonT(40) DEF PairOK, OnlyStream
  <2> QED
    BY <1>c, <2>5, <2>6, <2>7
<1>7. CASE i = n + 1
  <2>1. log[i] = msg /\ msg.class = "fenced"
    BY <1>1, <1>5, <1>7
  <2>2. ~(msg.claim.gen <= stream[s].seal[msg.claim.auth].gen)
    <3>1. msg.claim.gen > stream[s].seal[msg.claim.auth].gen
      BY <2>1, Zenon DEF Appended
    <3>2. stream[s].seal[msg.claim.auth].gen \in Int /\ msg.claim.gen \in 0 .. MaxGen
      BY <1>b, <1>2, <2>1, ZenonT(40)
    <3> QED
      BY <3>1, <3>2
  <2>3. msg.claim.gen <= marker[s][msg.claim.auth].gen
    <3>1. marker[s][msg.claim.auth].gen = msg.claim.gen
      BY <2>1, Zenon DEF Appended
    <3>2. msg.claim.gen \in 0 .. MaxGen
      BY <1>2, <2>1, Zenon
    <3>3. msg.claim.gen <= msg.claim.gen
      BY <3>2
    <3> QED
      BY <3>1, <3>3, Zenon
  <2>4. Past(msg.claim)' /\ Led(s, msg.claim)'
    BY <2>1, <2>3, ZenonT(40) DEF Past, Led, Appended, OnlyStream
  <2>5. i <= stream'[s].last
    <3>1. stream'[s].last = n + 1
      BY <1>c, <2>1, Zenon DEF Appended
    <3>2. n + 1 <= n + 1
      OBVIOUS
    <3> QED
      BY <1>7, <3>1, <3>2, Zenon
  <2>6. MessageOK(s, i)'
    <3>1. stream'[s].seal = stream[s].seal /\ msg.prod \in stream'[s].bound
      BY <2>1, Zenon DEF Appended
    <3> QED
      BY <1>d, <2>1, <2>2, <2>4, <2>5, <3>1, ZenonT(40) DEF MessageOK
  <2> QED
    BY <1>7, <2>6
<1> QED
  BY <1>5, <1>6, <1>7

\* An open append.
LEMMA OpenAppendInv ==
    ASSUME FenceInv, NEW s \in Streams, NEW p \in Producers, OpenAppend(s, p)
    PROVE  FenceInv'
<1> DEFINE msg == [class |-> "open", prod |-> p]
<1>1. TypeOK /\ TypeOK'
  BY StreamStepType, Zenon DEF FenceInv
<1>2. stream \in [Streams -> StreamRecords] /\ stream[s] \in StreamRecords
  BY <1>1 DEF TypeOK
<1>3. /\ s \in Fenced /\ p \notin stream[s].bound
      /\ stream' = [stream EXCEPT ![s].log = Append(@, msg)]
      /\ UNCHANGED <<sub, marker, calls, writes, scene>>
  BY DEF OpenAppend
<1>4. msg \in Messages /\ msg.class = "open" /\ msg.prod = p
  BY DEF Messages
<1> HIDE DEF msg
<1>5. /\ stream'[s].log = Append(stream[s].log, msg) /\ stream'[s].seal = stream[s].seal
      /\ stream'[s].bound = stream[s].bound /\ stream'[s].last = stream[s].last
      /\ \A t \in Streams \ {s} : stream'[t] = stream[t]
  BY <1>2, <1>3 DEF StreamRecords
<1>6. OnlyStream(s)
  BY <1>3, <1>5, Zenon DEF OnlyStream
<1>7. Appended(s, msg)
  BY <1>3, <1>4, <1>5, Zenon DEF Appended
<1> QED
  BY <1>1, <1>3, <1>4, <1>6, <1>7, AppendInv

\* A fenced append: refused, or closing, or of a message.
LEMMA FencedAppendInv ==
    ASSUME FenceInv, NEW w \in Writers, NEW closing \in BOOLEAN, FencedAppend(w, closing)
    PROVE  FenceInv'
<1>1. TypeOK /\ TypeOK'
  BY StreamStepType, Zenon DEF FenceInv
<1>2. writes \in [Writers -> WriteRecords] /\ writes[w].s \in Streams
      /\ stream \in [Streams -> StreamRecords]
  BY <1>1, ZenonT(40) DEF FencedAppend, TypeOK, WriteRecords
<1>3. /\ writes[w] # NoWrite /\ UNCHANGED <<sub, lapsed, marker, calls, scene>>
      /\ \A v \in Writers : writes'[v] = NoWrite \/ writes'[v] = writes[v]
  BY <1>2, ZenonT(40) DEF FencedAppend
<1>4. Past(writes[w].claim)
  BY <1>3, ZenonT(40) DEF FenceInv, ClaimsArePast
<1>5. CASE stream' = stream
  BY <1>1, <1>3, <1>5, QuietStep, NothingMoves, SameStreams, ZenonT(40)
<1>6. CASE stream' # stream
  <2>a. PICK s \in Streams : s = writes[w].s
    BY <1>2, Zenon
  <2> DEFINE msg == Message(w)
  <2>b. Accepted(w, closing, s)
    BY <1>1, <1>6, <2>a, AppendFacts, Zenon
  <2>1. /\ writes[w] \in [s : Streams, claim : ClaimRecords, prod : Producers]
        /\ FenceAccepts(s, writes[w])
        /\ stream' = [stream EXCEPT ![s] = stream'[s]]
        /\ stream'[s] = [stream[s] EXCEPT !.log = stream'[s].log, !.last = stream'[s].last,
                                          !.bound = stream'[s].bound]
        /\ IF closing \/ s \notin Fenced THEN stream'[s].log = stream[s].log
                                         ELSE stream'[s].log = Append(stream[s].log, msg)
        /\ IF s \in Fenced
           THEN /\ stream'[s].last = Len(stream'[s].log)
                /\ stream'[s].bound = stream[s].bound \cup {writes[w].prod}
           ELSE stream'[s].last = stream[s].last /\ stream'[s].bound = stream[s].bound
    BY <2>b, Zenon DEF Accepted
  <2>2. msg \in Messages /\ msg.class = "fenced" /\ msg.claim = writes[w].claim
        /\ msg.prod = writes[w].prod
    BY <2>1, Zenon DEF Messages, Message
  <2> HIDE DEF msg
  <2>3. stream[s] \in StreamRecords
    BY <1>2
  <2>4. stream'[s].seal = stream[s].seal
    BY <2>1, <2>3, Zenon DEF StreamRecords
  <2>5. \A t \in Streams \ {s} : stream'[t] = stream[t]
    BY <1>2, <2>1, Zenon
  <2>6. CASE s \notin Fenced
    BY <1>1, <1>3, <2>5, <2>6, LogStep, ZenonT(40)
  <2>7. CASE s \in Fenced /\ closing
    <3>1. LogOK(s)
      BY <2>7, InvByLog, ZenonT(40) DEF LogsOK
    <3>2. /\ stream'[s].log = stream[s].log /\ stream[s].bound \subseteq stream'[s].bound
          /\ stream'[s].last = Len(stream[s].log)
      BY <2>1, <2>7
    <3>3. \A i : IsFenced(s, i)' = IsFenced(s, i)
      BY <3>2 DEF IsFenced
    <3>4. Len(stream[s].log) \in Nat
      BY <2>3, LogType
    <3>5. ASSUME NEW i \in 1 .. Len(stream[s].log), MessageOK(s, i) PROVE MessageOK(s, i)'
      <4>1. i <= stream'[s].last
        BY <3>2, <3>4, <3>5, InRange, Zenon
      <4> QED
        BY <1>3, <2>4, <3>2, <3>5, <4>1, Zenon DEF MessageOK, Past, Led
    <3>6. \A i, j : PairOK(s, i, j) => PairOK(s, i, j)'
      BY <1>3, <3>2, <3>3, Zenon DEF PairOK
    <3>7. LogOK(s)'
      BY <3>1, <3>2, <3>3, <3>5, <3>6, Zenon DEF LogOK
    <3> QED
      BY <1>1, <1>3, <2>5, <3>7, LogStep, ZenonT(40)
  <2>8. CASE s \in Fenced /\ ~closing
    <3>1. /\ stream'[s].log = Append(stream[s].log, msg)
          /\ stream'[s].bound = stream[s].bound \cup {msg.prod}
          /\ stream'[s].last = Len(stream'[s].log)
      BY <2>1, <2>2, <2>8
    <3>2. stream[s].log \in Seq(Messages)
      BY <2>3, Zenon DEF StreamRecords
    <3>3. stream'[s].last = Len(stream[s].log) + 1
      <4>1. Len(Append(stream[s].log, msg)) = Len(stream[s].log) + 1
        BY <2>2, <3>2, AppendedLog, ZenonT(40)
      <4> QED
        BY <3>1, <4>1, Zenon
    <3>4. /\ msg.claim.gen > stream[s].seal[msg.claim.auth].gen
          /\ marker[s][msg.claim.auth].state = "live"
          /\ marker[s][msg.claim.auth].gen = msg.claim.gen
      BY <2>1, <2>2, <2>8, Zenon DEF FenceAccepts
    <3>5. Past(msg.claim)
      BY <1>4, <2>2
    <3>6. OnlyStream(s)
      BY <1>3, <2>5, Zenon DEF OnlyStream
    <3>7. Appended(s, msg)
      BY <2>2, <2>4, <3>1, <3>3, <3>4, <3>5, Zenon DEF Appended
    <3> QED
      BY <1>1, <2>2, <2>8, <3>6, <3>7, AppendInv, Zenon
  <2> QED
    BY <2>6, <2>7, <2>8
<1> QED
  BY <1>5, <1>6

\* FenceInv is inductive.
LEMMA FenceStep == FenceInv /\ [Next]_vars => FenceInv'
<1> SUFFICES ASSUME FenceInv, [Next]_vars PROVE FenceInv'
  OBVIOUS
<1>1. TypeOK
  BY DEF FenceInv
<1>2. CASE UNCHANGED vars
  <2>1. UNCHANGED <<sub, lapsed, stream, marker, calls, writes, scene>>
    BY <1>2 DEF vars
  <2> QED
    BY <1>1, <2>1, TypeStep, QuietStep, NothingMoves, SameStreams
<1>3. CASE SubStep
  BY <1>3, SubStepInv
<1>4. CASE \E k \in Calls : CallStep(k)
  BY <1>4, CallStepInv
<1>5. CASE StreamStep
  BY <1>5, PreCheckInv, FencedAppendInv, EmptyInv, OpenAppendInv, ReapInv DEF StreamStep
<1> QED
  BY <1>1, <1>2, <1>3, <1>4, <1>5, NextKinds

LEMMA FenceAlways == Spec => []FenceInv
  BY FenceInit, FenceStep, PTL DEF Spec

-----------------------------------------------------------------------------
(* Theorems *)

\* A seal is final: whatever interleaving of grants, seals and appends, nothing
\* of a sealed generation lies after the offset that seal_append_fence.lua
\* returned.
THEOREM SealsFinal == Spec => []SealsAreFinal
<1>1. FenceInv => SealsAreFinal
  BY DEF FenceInv
<1> QED
  BY <1>1, FenceAlways, PTL

\* A producer that fence_bind has bound to the fenced class never writes to the
\* stream in the open class again.
THEOREM BoundProducers == Spec => []BoundProducersStayFenced
<1>1. FenceInv => BoundProducersStayFenced
  BY DEF FenceInv
<1> QED
  BY <1>1, FenceAlways, PTL

\* As long as no grant outlasts a tombstone, a deposed holder's append never
\* lands after one of its successor.
THEOREM ClaimsOrdered == Spec => []ClaimsDoNotInterleave
<1>1. FenceInv => ClaimsDoNotInterleave
  BY DEF FenceInv
<1> QED
  BY <1>1, FenceAlways, PTL

\* What SealsAreMonotone says of one stream in one step.
SealsRise(s) ==
    \A a \in Auths :
       LET old == stream[s].seal[a]
           new == stream'[s].seal[a]
       IN  old.gen <= new.gen /\ (old.gen = new.gen => old = new)

\* A seal that is left alone, or set at a higher generation, rises.
LEMMA SealTypes ==
    ASSUME TypeOK, NEW s \in Streams, NEW a \in Auths
    PROVE  stream[s].seal[a].gen \in Int
<1>1. stream[s] \in StreamRecords
  BY DEF TypeOK
<1>2. stream[s].seal \in [Auths -> [gen : 0 .. MaxGen, off : Nat]]
  BY <1>1 DEF StreamRecords
<1>3. stream[s].seal[a] \in [gen : 0 .. MaxGen, off : Nat]
  BY <1>2
<1> QED
  BY <1>3

LEMMA SealsOnlyRise ==
    ASSUME TypeOK, TypeOK', SealsOnly, NEW s \in Streams
    PROVE  SealsRise(s)
<1>1. \A a \in Auths : stream[s].seal[a].gen \in Int
  BY SealTypes
<1>2. SUFFICES ASSUME NEW a \in Auths
               PROVE  /\ stream[s].seal[a].gen <= stream'[s].seal[a].gen
                      /\ stream[s].seal[a].gen = stream'[s].seal[a].gen =>
                            stream[s].seal[a] = stream'[s].seal[a]
  BY <1>2 DEF SealsRise
<1>3. stream'[s].seal[a].gen \in Int
  <2>1. stream' \in [Streams -> StreamRecords]
    BY DEF SealsOnly
  <2>2. stream'[s].seal \in [Auths -> [gen : 0 .. MaxGen, off : Nat]]
    BY <2>1 DEF StreamRecords
  <2>3. stream'[s].seal[a] \in [gen : 0 .. MaxGen, off : Nat]
    BY <2>2
  <2> QED
    BY <2>3
<1>4. \/ stream'[s].seal[a] = stream[s].seal[a]
      \/ stream'[s].seal[a].gen > stream[s].seal[a].gen
  BY DEF SealsOnly
<1> QED
  BY <1>1, <1>3, <1>4

\* The steps of a call change streams only in their seals.
LEMMA CallStepSeals ==
    ASSUME TypeOK, NEW k \in Calls, CallStep(k)
    PROVE  SealsOnly
<1>1. CASE BeginGrant(k) \/ AbandonGrant(k) \/ EndSeal(k) \/ EndCall(k)
  BY <1>1, SameStreams DEF BeginGrant, AbandonGrant, EndSeal, EndCall
<1>2. ASSUME NEW s \in Streams, GrantOne(k, s) PROVE SealsOnly
  <2>1. calls[k].claim \in ClaimRecords
    BY <1>2, CallShape DEF GrantOne
  <2> QED
    BY <1>2, <2>1, ScriptFacts, SameStreams DEF GrantOne
<1>3. ASSUME NEW s \in Streams, RevokeOne(k, s) PROVE SealsOnly
  BY <1>3, SameStreams DEF RevokeOne
<1>4. ASSUME NEW s \in Streams, SealOne(k, s) PROVE SealsOnly
  <2>1. calls[k].claim \in ClaimRecords
    BY <1>4, CallShape DEF SealOne
  <2> QED
    BY <1>4, <2>1, ScriptFacts DEF SealOne
<1>5. ASSUME NEW end \in {"idle", "delete", "unlink"}, NEW paths \in SUBSET Streams,
             BeginSeal(k, end, paths)
      PROVE  SealsOnly
  BY <1>5, SameStreams, ZenonT(40) DEF BeginSeal
<1> QED
  BY <1>1, <1>2, <1>3, <1>4, <1>5 DEF CallStep

\* Appends leave every seal alone, and deleting or creating a stream makes it
\* another one.
LEMMA StreamStepSeals ==
    ASSUME TypeOK, StreamStep, NEW t \in Streams
    PROVE  \/ stream'[t].seal = stream[t].seal
           \/ ~stream[t].present \/ ~stream'[t].present
<1>a. stream \in [Streams -> StreamRecords]
  BY DEF TypeOK
<1>1. ASSUME NEW w \in Writers, NEW closing \in BOOLEAN, FencedAppend(w, closing)
      PROVE  stream'[t].seal = stream[t].seal
  <2>1. PICK s \in Streams : s = writes[w].s
    BY <1>1, ZenonT(40) DEF FencedAppend, TypeOK, WriteRecords
  <2>2. CASE stream' # stream
    <3>a. Accepted(w, closing, s)
      BY <1>1, <2>1, <2>2, AppendFacts, Zenon
    <3>1. /\ stream' = [stream EXCEPT ![s] = stream'[s]]
          /\ stream'[s] = [stream[s] EXCEPT !.log = stream'[s].log, !.last = stream'[s].last,
                                            !.bound = stream'[s].bound]
      BY <3>a, Zenon DEF Accepted, Zenon
    <3>2. stream[s] \in StreamRecords
      BY <1>a
    <3>3. stream'[s].seal = stream[s].seal
      BY <3>1, <3>2, Zenon DEF StreamRecords
    <3> QED
      BY <1>a, <3>1, <3>3, Zenon
  <2> QED
    BY <2>2, ZenonT(40)
<1>2. ASSUME NEW w \in Writers, NEW s \in Streams, NEW p \in Producers, PreCheck(w, s, p)
      PROVE  stream'[t].seal = stream[t].seal
  BY <1>2 DEF PreCheck
<1>3. ASSUME NEW s \in Streams, NEW p \in Producers, OpenAppend(s, p)
      PROVE  stream'[t].seal = stream[t].seal
  <2> DEFINE log == Append(stream[s].log, [class |-> "open", prod |-> p])
  <2>1. stream' = [stream EXCEPT ![s].log = log]
    BY <1>3 DEF OpenAppend
  <2> HIDE DEF log
  <2> QED
    BY <1>a, <2>1 DEF StreamRecords
<1>4. ASSUME NEW s \in Streams, NEW a \in Auths, ReapMarker(s, a)
      PROVE  stream'[t].seal = stream[t].seal
  BY <1>4 DEF ReapMarker
<1>5. ASSUME NEW s \in Streams, DeleteStream(s) \/ CreateStream(s)
      PROVE  \/ stream'[t] = stream[t]
             \/ ~stream[t].present \/ ~stream'[t].present
  BY <1>a, <1>5 DEF DeleteStream, CreateStream, NewStream
<1> QED
  BY <1>1, <1>2, <1>3, <1>4, <1>5, ZenonT(40) DEF StreamStep

LEMMA SealsStep ==
    ASSUME TypeOK, TypeOK', Next, NEW s \in Streams, stream[s].present, stream'[s].present
    PROVE  SealsRise(s)
<1>1. CASE SubStep
  <2>1. stream' = stream
    BY <1>1 DEF SubStep, ClaimSub, ExpireLease, Lapse, CreateSub, Link
  <2> QED
    BY <2>1, SameStreams, SealsOnlyRise
<1>2. CASE \E k \in Calls : CallStep(k)
  BY <1>2, CallStepSeals, SealsOnlyRise
<1>3. CASE StreamStep
  <2>1. stream'[s].seal = stream[s].seal
    BY <1>3, StreamStepSeals
  <2>2. \A a \in Auths : stream[s].seal[a].gen \in Int
    BY SealTypes
  <2> QED
    BY <2>1, <2>2 DEF SealsRise
<1> QED
  BY <1>1, <1>2, <1>3, NextKinds, ZenonT(40)

\* Seals only rise, and the offset a seal recorded never changes, as long as
\* the stream lives: a done that is delivered again is told the same offset.
THEOREM SealsMonotone == Spec => SealsAreMonotone
<1>1. TypeOK /\ TypeOK' /\ [Next]_vars =>
         [\A s \in Fenced : \A a \in Auths :
             stream[s].present /\ stream'[s].present =>
                LET old == stream[s].seal[a]
                    new == stream'[s].seal[a]
                IN  old.gen <= new.gen /\ (old.gen = new.gen => old = new)]_vars
  BY SealsStep DEF SealsRise
<1> QED
  BY <1>1, TypeCorrect, PTL DEF Spec, SealsAreMonotone
=============================================================================
