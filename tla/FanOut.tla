------------------------------ MODULE FanOut ------------------------------
(***************************************************************************)
(* Which subscriptions an append reaches: the links of a subscription, the *)
(* per-stream fan-out index derived from them, and the loops that repair   *)
(* both (webhook/manager.go, webhook/redis_store.go, webhook/routes.go).   *)
(*                                                                         *)
(* The links of a subscription are one Redis hash, written by scripts; the *)
(* index is a set of members per stream and slot plus an occupied bit, and *)
(* Go code writes it after the script.  Every call is therefore several    *)
(* steps (`tasks`), and calls overtake each other between them.  The hash  *)
(* of links is a key of its own: link_stream writes it whether or not the  *)
(* subscription still exists, and create_sub adds to what it finds.        *)
(*                                                                         *)
(* Offsets are counts of messages; a stream's first offset is 0.  The wake *)
(* cycle itself is the module Subscription; here a subscription is idle or *)
(* busy, and a busy one acknowledges every linked tail.                    *)
(***************************************************************************)
EXTENDS Naturals, FiniteSets, Sequences

CONSTANTS
    Subs, Paths,
    Configs,        \* [glob : the paths its pattern matches, streams : explicit paths]
    Tasks,          \* slots for API calls in progress: numbers
    NoTask,
    Budgets         \* records bounding the number of each kind of event

VARIABLES
    streams,        \* per path: exists, tail, time of creation
    subs,           \* per id: exists, configuration, time of creation, busy
    links,          \* per id and path: none, or type, cursor and first cursor
    member, bit,    \* the index: members of the shards, occupied bits
    dirty,          \* streams with an append hint in the process
    fan,            \* the dirty worker's stream in hand
    tasks,          \* API calls in progress
    pass,           \* the reconcile pass in progress
    clock,          \* orders creations
    torn,           \* history: links whose index entry was lost to a crash, an error or a race
    raced,          \* history: links whose first cursor a race decided
    budget

vars == <<streams, subs, links, member, bit, dirty, fan, tasks, pass, clock, torn, raced, budget>>

index == <<member, bit>>

Begin == 0
NoLink == [type |-> "none", off |-> 0, first |-> 0, asked |-> FALSE]
Linked(s, p) == links[s][p].type # "none"
Indexed(s, p) == <<s, p>> \in member /\ <<s, p>> \in bit
NoConfig == [glob |-> {}, streams |-> {}]
NoSub == [on |-> FALSE, cfg |-> NoConfig, born |-> 0, busy |-> FALSE]
AtRest == [at |-> "rest", p |-> "none", ids |-> {}, found |-> {}]
Item(s, p, type, off) == [s |-> s, p |-> p, type |-> type, off |-> off]

Spend(kind) == /\ budget[kind] > 0
               /\ budget' = [budget EXCEPT ![kind] = @ - 1]

\* What a cursor at the tail means, and what a wake is owed for.
TailOf(p) == IF streams[p].on THEN streams[p].tail ELSE Begin

HasPendingWork(s) ==
    \E p \in Paths : Linked(s, p) /\ streams[p].on /\ streams[p].tail > links[s][p].off

Init ==
    /\ streams = [p \in Paths |-> [on |-> FALSE, tail |-> 0, born |-> 0]]
    /\ subs = [s \in Subs |-> NoSub]
    /\ links = [s \in Subs |-> [p \in Paths |-> NoLink]]
    /\ member = {} /\ bit = {} /\ dirty = {}
    /\ fan = AtRest
    /\ tasks = [t \in Tasks |-> NoTask]
    /\ pass = NoTask
    /\ clock = 1
    /\ torn = {} /\ raced = {}
    /\ budget \in Budgets

-----------------------------------------------------------------------------
(* The scripts.                                                            *)

\* link_stream: an existing link keeps its cursor, an explicit link takes over
\* a glob one.  The subscription itself is not looked at.
LinkScript(i) ==
    links' = [links EXCEPT ![i.s][i.p] =
        IF @.type = "none" THEN [type |-> i.type, off |-> i.off, first |-> i.off,
                                 asked |-> i.type = "explicit"]
        ELSE IF i.type = "explicit" THEN [@ EXCEPT !.type = "explicit", !.asked = TRUE]
        ELSE @]

\* unlink_stream: kept as a glob link while the pattern still matches.
UnlinkScript(s, p, stillGlob) ==
    links' = [links EXCEPT ![s][p] =
        IF @.type = "none" THEN @
        ELSE IF stillGlob THEN [@ EXCEPT !.type = "glob"] ELSE NoLink]

\* create_sub: adds the explicit links to whatever the hash holds.
CreateScript(s, cfg, seeds) ==
    /\ subs' = [subs EXCEPT ![s] = [on |-> TRUE, cfg |-> cfg, born |-> clock, busy |-> FALSE]]
    /\ clock' = clock + 1
    /\ links' = [links EXCEPT ![s] = [p \in Paths |->
           IF \E i \in seeds : i.p = p
           THEN LET i == CHOOSE i \in seeds : i.p = p
                IN [type |-> "explicit", off |-> i.off, first |-> i.off, asked |-> TRUE]
           ELSE @[p]]]

DeleteScript(s) ==
    /\ subs' = [subs EXCEPT ![s] = NoSub]
    /\ links' = [links EXCEPT ![s] = [p \in Paths |-> NoLink]]

\* deindex_stale: only a member without subscription or link.
DeindexStale(ids, p) ==
    member' = member \ {<<s, p>> : s \in {s \in ids : ~(subs[s].on /\ Linked(s, p))}}

\* arm_wake of every idle one of ids that has pending work.
Armed(ids) == [s \in Subs |-> IF s \in ids /\ subs[s].on /\ HasPendingWork(s)
                              THEN [subs[s] EXCEPT !.busy = TRUE] ELSE subs[s]]

-----------------------------------------------------------------------------
(* Tasks: a plan of links to write, each followed by its index entry.      *)

Idle(t) == tasks[t] = NoTask
Free(t) == Idle(t) /\ \A u \in Tasks : u < t => ~Idle(u)
Work(op, at, todo) == [op |-> op, at |-> at, todo |-> todo, s |-> "none", cfg |-> NoConfig,
                       now |-> NoTask]

\* The next step of a task: the rest of its plan, or the end.  A created
\* subscription with a pattern goes on to the backfill.
Onward(w) ==
    IF w.todo # {} THEN [w EXCEPT !.at = w.op, !.now = NoTask]
    ELSE IF w.op = "seed" /\ w.cfg.glob # {} THEN [w EXCEPT !.at = "list", !.now = NoTask]
    ELSE NoTask

\* handleCreate: seedLinks reads the tails.
CreateSub(t, s, cfg) ==
    /\ Free(t) /\ Spend("create")
    /\ tasks' = [tasks EXCEPT ![t] =
           [Work("seed", "create", {Item(s, p, "explicit", TailOf(p)) : p \in cfg.streams})
               EXCEPT !.s = s, !.cfg = cfg]]
    /\ UNCHANGED <<streams, subs, links, index, dirty, fan, pass, clock, torn, raced>>

\* History: links that were there before their subscription.
Inherited(found) == torn' = torn \cup found /\ raced' = raced \cup found

\* CreateOrConfirmOwned: an existing subscription is left alone.
Create(t) ==
    /\ ~Idle(t) /\ tasks[t].at = "create"
    /\ IF subs[tasks[t].s].on
       THEN /\ tasks' = [tasks EXCEPT ![t] = NoTask]
            /\ UNCHANGED <<subs, links, clock, torn, raced>>
       ELSE /\ CreateScript(tasks[t].s, tasks[t].cfg, tasks[t].todo)
            /\ tasks' = [tasks EXCEPT ![t] = Onward(@)]
            /\ Inherited({<<tasks[t].s, p>> : p \in {q \in Paths : Linked(tasks[t].s, q)}})
    /\ UNCHANGED <<streams, index, dirty, fan, pass, budget>>

\* A seeded link is written already: only its index entry is left to do.
SeedNext(t) ==
    /\ ~Idle(t) /\ tasks[t].at = "seed"
    /\ \E i \in tasks[t].todo :
           tasks' = [tasks EXCEPT ![t].at = "index", ![t].now = i, ![t].todo = @ \ {i}]
    /\ UNCHANGED <<streams, subs, links, index, dirty, fan, pass, clock, torn, raced, budget>>

\* backfill: every existing stream the pattern matches, at its current tail.
Backfill(s, cfg) ==
    {Item(s, p, "glob", streams[p].tail) : p \in {q \in cfg.glob : streams[q].on}}

List(t) ==
    /\ ~Idle(t) /\ tasks[t].at = "list"
    /\ LET s == tasks[t].s
           todo == Backfill(s, tasks[t].cfg)
       IN /\ tasks' = [tasks EXCEPT ![t] = Onward([@ EXCEPT !.op = "link", !.todo = todo])]
          /\ raced' = raced \cup {<<s, i.p>> : i \in {j \in todo : streams[j.p].born > subs[s].born}}
    /\ UNCHANGED <<streams, subs, links, index, dirty, fan, pass, clock, torn, budget>>

\* Link: the script first.
Link(t) ==
    /\ ~Idle(t) /\ tasks[t].at = "link"
    /\ \E i \in tasks[t].todo :
           /\ LinkScript(i)
           /\ tasks' = [tasks EXCEPT ![t].at = "index", ![t].now = i, ![t].todo = @ \ {i}]
    /\ UNCHANGED <<streams, subs, index, dirty, fan, pass, clock, torn, raced, budget>>

\* indexStream: the member and the bit in one pipeline.
Index(t) ==
    /\ ~Idle(t) /\ tasks[t].at = "index"
    /\ LET e == <<tasks[t].now.s, tasks[t].now.p>>
       IN member' = member \cup {e} /\ bit' = bit \cup {e} /\ torn' = torn \ {e}
    /\ tasks' = [tasks EXCEPT ![t] = Onward(@)]
    /\ UNCHANGED <<streams, subs, links, dirty, fan, pass, clock, raced, budget>>

\* The pipeline fails, perhaps after one of the two writes.  A create and an
\* add-streams answer 500 and stop; the other callers log it and go on.
IndexFails(t) ==
    /\ ~Idle(t) /\ tasks[t].at = "index" /\ Spend("error")
    /\ LET e == <<tasks[t].now.s, tasks[t].now.p>>
       IN /\ \/ member' = member \cup {e} /\ UNCHANGED bit
             \/ bit' = bit \cup {e} /\ UNCHANGED member
             \/ UNCHANGED index
          /\ torn' = torn \cup {e}
    /\ tasks' = [tasks EXCEPT ![t] = IF @.op = "seed" THEN NoTask ELSE Onward(@)]
    /\ UNCHANGED <<streams, subs, links, dirty, fan, pass, clock, raced>>

\* handleAddStreams, for one stream: the tail is read, then the link written.
AddStream(t, s, p) ==
    /\ Free(t) /\ Spend("add")
    /\ tasks' = [tasks EXCEPT ![t] = Work("link", "link", {Item(s, p, "explicit", TailOf(p))})]
    /\ UNCHANGED <<streams, subs, links, index, dirty, fan, pass, clock, torn, raced>>

-----------------------------------------------------------------------------
(* Removing: handleRemoveStream, handleDelete, OnStreamDeleted.            *)

RemoveStream(t, s, p) ==
    /\ Free(t) /\ Spend("remove")
    /\ tasks' = [tasks EXCEPT ![t] =
           Work("unlink", "unlink",
                {Item(s, p, IF subs[s].on /\ p \in subs[s].cfg.glob THEN "glob" ELSE "none", 0)})]
    /\ UNCHANGED <<streams, subs, links, index, dirty, fan, pass, clock, torn, raced>>

\* Unlink: the script; only a removed link is taken out of the index.
Unlink(t) ==
    /\ ~Idle(t) /\ tasks[t].at = "unlink"
    /\ \E i \in tasks[t].todo :
           /\ UnlinkScript(i.s, i.p, i.type = "glob")
           /\ LET rest == [tasks[t] EXCEPT !.todo = @ \ {i}]
              IN tasks' = [tasks EXCEPT ![t] =
                     IF Linked(i.s, i.p) /\ i.type # "glob"
                     THEN [rest EXCEPT !.at = "deindex", !.now = i]
                     ELSE Onward(rest)]
    /\ UNCHANGED <<streams, subs, index, dirty, fan, pass, clock, torn, raced, budget>>

\* deindexStream: a plain SREM, whatever has happened to the link since.
Deindex(t) ==
    /\ ~Idle(t) /\ tasks[t].at = "deindex"
    /\ LET e == <<tasks[t].now.s, tasks[t].now.p>>
       IN /\ member' = member \ {e}
          /\ torn' = IF Linked(tasks[t].now.s, tasks[t].now.p) THEN torn \cup {e} ELSE torn
    /\ tasks' = [tasks EXCEPT ![t] = Onward(@)]
    /\ UNCHANGED <<streams, subs, links, bit, dirty, fan, pass, clock, raced, budget>>

\* delete: the links are read before the script and de-indexed after it.
DeleteSub(t, s) ==
    /\ Free(t) /\ subs[s].on /\ Spend("delete")
    /\ tasks' = [tasks EXCEPT ![t] =
           [Work("drop", "delete", {Item(s, p, "none", 0) : p \in {q \in Paths : Linked(s, q)}})
               EXCEPT !.s = s]]
    /\ UNCHANGED <<streams, subs, links, index, dirty, fan, pass, clock, torn, raced>>

Delete(t) ==
    /\ ~Idle(t) /\ tasks[t].at = "delete"
    /\ DeleteScript(tasks[t].s)
    /\ tasks' = [tasks EXCEPT ![t] = Onward(@)]
    /\ UNCHANGED <<streams, index, dirty, fan, pass, clock, torn, raced, budget>>

DropNext(t) ==
    /\ ~Idle(t) /\ tasks[t].at = "drop"
    /\ \E i \in tasks[t].todo :
           tasks' = [tasks EXCEPT ![t].at = "deindex", ![t].now = i, ![t].todo = @ \ {i}]
    /\ UNCHANGED <<streams, subs, links, index, dirty, fan, pass, clock, torn, raced, budget>>

-----------------------------------------------------------------------------
(* Streams and their hooks.                                                *)

\* A stream is created, with or without a first message; its hook follows.
CreateStream(t, p, first) ==
    /\ Free(t) /\ ~streams[p].on /\ Spend("stream")
    /\ streams' = [streams EXCEPT ![p] = [on |-> TRUE, tail |-> first, born |-> clock]]
    /\ clock' = clock + 1
    /\ tasks' = [tasks EXCEPT ![t] = [Work("link", "match", {}) EXCEPT !.s = p]]
    /\ dirty' = dirty \cup IF first > 0 THEN {p} ELSE {}
    /\ UNCHANGED <<subs, links, index, fan, pass, torn, raced>>

\* OnStreamCreated: every pattern subscription that matches, from the start.
Match(p) ==
    {Item(s, p, "glob", Begin) : s \in {u \in Subs : subs[u].on /\ p \in subs[u].cfg.glob}}

OnStreamCreated(t) ==
    /\ ~Idle(t) /\ tasks[t].at = "match"
    /\ tasks' = [tasks EXCEPT ![t] = Onward([@ EXCEPT !.todo = Match(tasks[t].s)])]
    /\ UNCHANGED <<streams, subs, links, index, dirty, fan, pass, clock, torn, raced, budget>>

AppendMessage(p) ==
    /\ streams[p].on /\ Spend("append")
    /\ streams' = [streams EXCEPT ![p].tail = @ + 1]
    /\ dirty' = dirty \cup {p}
    /\ UNCHANGED <<subs, links, index, fan, tasks, pass, clock, torn, raced>>

\* A deleted stream; OnStreamDeleted looks its subscribers up in the index.
DeleteStream(t, p) ==
    /\ Free(t) /\ streams[p].on /\ Spend("unstream")
    /\ streams' = [streams EXCEPT ![p] = [on |-> FALSE, tail |-> 0, born |-> 0]]
    /\ tasks' = [tasks EXCEPT ![t] = [Work("unlink", "lookup", {}) EXCEPT !.s = p]]
    /\ raced' = raced \cup {<<s, p>> : s \in Subs}
    /\ UNCHANGED <<subs, links, index, dirty, fan, pass, clock, torn>>

OnStreamDeleted(t) ==
    /\ ~Idle(t) /\ tasks[t].at = "lookup"
    /\ LET p == tasks[t].s
       IN tasks' = [tasks EXCEPT ![t] =
              Onward([@ EXCEPT !.todo = {Item(s, p, "none", 0) : s \in {u \in Subs : Indexed(u, p)}}])]
    /\ UNCHANGED <<streams, subs, links, index, dirty, fan, pass, clock, torn, raced, budget>>

-----------------------------------------------------------------------------
(* The dirty worker, the sweep, and the worker of the subscription.        *)

\* processDirtyStream: StreamSubscribers gives the members of the shards whose
\* bit is set, GetMany those of them that exist.
Lookup(p) ==
    /\ fan.at = "rest" /\ p \in dirty
    /\ dirty' = dirty \ {p}
    /\ LET ids == {s \in Subs : Indexed(s, p)}
       IN fan' = [at |-> "finish", p |-> p, ids |-> ids, found |-> {s \in ids : subs[s].on}]
    /\ UNCHANGED <<streams, subs, links, index, tasks, pass, clock, torn, raced, budget>>

\* Members with no subscription are removed, the others armed if owed.
Finish ==
    /\ fan.at = "finish"
    /\ DeindexStale(fan.ids \ fan.found, fan.p)
    /\ subs' = Armed(fan.found)
    /\ fan' = AtRest
    /\ torn' = torn \cup {e \in member \ member' : Linked(e[1], e[2]) /\ ~subs[e[1]].on}
    /\ UNCHANGED <<streams, links, bit, dirty, tasks, pass, clock, raced, budget>>

\* sweepOnce: every subscription, whatever the index says.
Sweep ==
    /\ \E s \in Subs : subs[s].on /\ ~subs[s].busy /\ HasPendingWork(s)
    /\ subs' = Armed(Subs)
    /\ UNCHANGED <<streams, links, index, dirty, fan, tasks, pass, clock, torn, raced, budget>>

\* The wake cycle, abstractly: the tails are acknowledged.
Acknowledge(s) ==
    /\ subs[s].on /\ subs[s].busy
    /\ subs' = [subs EXCEPT ![s].busy = FALSE]
    /\ links' = [links EXCEPT ![s] = [p \in Paths |->
           IF Linked(s, p) /\ streams[p].on /\ streams[p].tail > links[s][p].off
           THEN [links[s][p] EXCEPT !.off = streams[p].tail] ELSE links[s][p]]]
    /\ UNCHANGED <<streams, index, dirty, fan, tasks, pass, clock, torn, raced, budget>>

-----------------------------------------------------------------------------
(* The reconcile pass: ReconcileIndexes, then reconcilePatternLinks.       *)

Pass(at, entries, listed, ids) ==
    [at |-> at, entries |-> entries, listed |-> listed, ids |-> ids, todo |-> {}, now |-> NoTask]

\* The links of every listed subscription are read.  A pass that finds nothing
\* to repair matters only for what overtakes it: those are bounded, and so are
\* the ones that start while a call is in progress.
Repairable ==
    \E s \in Subs, p \in Paths :
        /\ subs[s].on
        /\ \/ Linked(s, p) /\ ~Indexed(s, p)
           \/ p \in subs[s].cfg.glob /\ streams[p].on /\ ~Linked(s, p)

ReconcileRead ==
    /\ pass = NoTask
    /\ \/ Repairable /\ (\A t \in Tasks : Idle(t)) /\ UNCHANGED budget
       \/ Spend("pass")
    /\ pass' = Pass("write", {e \in Subs \X Paths : subs[e[1]].on /\ Linked(e[1], e[2])}, {}, {})
    /\ UNCHANGED <<streams, subs, links, index, dirty, fan, tasks, clock, torn, raced>>

\* Mutant: the members are repaired and the occupied bits are not.
ReconcileMembersOnly ==
    /\ pass # NoTask /\ pass.at = "write"
    /\ member' = member \cup pass.entries
    /\ pass' = [pass EXCEPT !.at = "scan"]
    /\ UNCHANGED <<streams, subs, links, bit, dirty, fan, tasks, clock, torn, raced, budget>>

\* Every link's member and bit are asserted again; nothing is taken away.
ReconcileIndexes ==
    /\ pass # NoTask /\ pass.at = "write"
    /\ member' = member \cup pass.entries /\ bit' = bit \cup pass.entries
    /\ torn' = torn \ pass.entries
    /\ pass' = [pass EXCEPT !.at = "scan"]
    /\ UNCHANGED <<streams, subs, links, dirty, fan, tasks, clock, raced, budget>>

\* The listed streams sub's pattern matches and that it has no link to.
MissingGlobLinks(s, listed) ==
    {st \in listed : st.p \in subs[s].cfg.glob /\ ~Linked(s, st.p)}

\* The streams are listed once; the subscriptions that owe a link are found.
ReconcilePatternLinks ==
    /\ pass # NoTask /\ pass.at = "scan"
    /\ LET listed == {[p |-> p, tail |-> streams[p].tail, born |-> streams[p].born] :
                          p \in {q \in Paths : streams[q].on}}
       IN pass' = Pass("relink", {}, listed,
                       {s \in Subs : subs[s].on /\ MissingGlobLinks(s, listed) # {}})
    /\ UNCHANGED <<streams, subs, links, index, dirty, fan, tasks, clock, torn, raced, budget>>

\* relinkPatternSub: a fresh read; a stream younger than the subscription is
\* linked from its start, an older one at the tail that was listed.
RelinkPatternSub(s) ==
    /\ pass # NoTask /\ pass.at = "relink" /\ pass.todo = {} /\ s \in pass.ids
    /\ pass' = [pass EXCEPT !.ids = @ \ {s},
           !.todo = IF ~subs[s].on THEN {}
                    ELSE {Item(s, st.p, "glob", IF st.born > subs[s].born THEN Begin ELSE st.tail) :
                              st \in MissingGlobLinks(s, pass.listed)}]
    /\ UNCHANGED <<streams, subs, links, index, dirty, fan, tasks, clock, torn, raced, budget>>

RelinkWrite ==
    /\ pass # NoTask /\ pass.at = "relink"
    /\ \E i \in pass.todo :
           /\ LinkScript(i)
           /\ pass' = [pass EXCEPT !.at = "index", !.now = i, !.todo = @ \ {i}]
    /\ UNCHANGED <<streams, subs, index, dirty, fan, tasks, clock, torn, raced, budget>>

\* The index entry, and after the last one a wake if something is pending.
RelinkIndex ==
    /\ pass # NoTask /\ pass.at = "index"
    /\ LET e == <<pass.now.s, pass.now.p>>
       IN member' = member \cup {e} /\ bit' = bit \cup {e} /\ torn' = torn \ {e}
    /\ subs' = IF pass.todo = {} THEN Armed({pass.now.s}) ELSE subs
    /\ pass' = [pass EXCEPT !.at = "relink", !.now = NoTask]
    /\ UNCHANGED <<streams, links, dirty, fan, tasks, clock, raced, budget>>

ReconcileEnd ==
    /\ pass # NoTask /\ pass.at = "relink" /\ pass.ids = {} /\ pass.todo = {}
    /\ pass' = NoTask
    /\ UNCHANGED <<streams, subs, links, index, dirty, fan, tasks, clock, torn, raced, budget>>

\* The process dies: what it held in memory is gone, the keys stay.
Crash ==
    /\ Spend("crash")
    /\ tasks' = [t \in Tasks |-> NoTask]
    /\ pass' = NoTask /\ fan' = AtRest /\ dirty' = {}
    /\ torn' = torn \cup {e \in Subs \X Paths : Linked(e[1], e[2]) /\ ~Indexed(e[1], e[2])}
    /\ UNCHANGED <<streams, subs, links, index, clock, raced>>

-----------------------------------------------------------------------------
TaskStep(t) ==
    \/ Create(t) \/ SeedNext(t) \/ List(t) \/ Link(t) \/ Index(t)
    \/ Unlink(t) \/ Deindex(t) \/ Delete(t) \/ DropNext(t)
    \/ OnStreamCreated(t) \/ OnStreamDeleted(t)

PassStep ==
    \/ ReconcileIndexes \/ ReconcilePatternLinks \/ RelinkWrite \/ RelinkIndex \/ ReconcileEnd
    \/ \E s \in Subs : RelinkPatternSub(s)

FanStep == Finish \/ \E p \in Paths : Lookup(p)

Next ==
    \/ \E t \in Tasks, s \in Subs : DeleteSub(t, s) \/ \E cfg \in Configs : CreateSub(t, s, cfg)
    \/ \E t \in Tasks, s \in Subs, p \in Paths : AddStream(t, s, p) \/ RemoveStream(t, s, p)
    \/ \E t \in Tasks, p \in Paths, first \in {0, 1} : CreateStream(t, p, first)
    \/ \E t \in Tasks, p \in Paths : DeleteStream(t, p)
    \/ \E p \in Paths : AppendMessage(p)
    \/ \E t \in Tasks : TaskStep(t) \/ IndexFails(t)
    \/ \E s \in Subs : Acknowledge(s)
    \/ FanStep \/ Sweep \/ PassStep \/ ReconcileRead \/ Crash

Fairness ==
    /\ \A t \in Tasks : WF_vars(TaskStep(t))
    /\ WF_vars(FanStep) /\ WF_vars(Sweep) /\ WF_vars(PassStep) /\ WF_vars(ReconcileRead)
    /\ \A s \in Subs : WF_vars(Acknowledge(s))

Spec == Init /\ [][Next]_vars /\ Fairness

-----------------------------------------------------------------------------
TypeOK ==
    /\ \A p \in Paths : streams[p].on \in BOOLEAN /\ {streams[p].tail, streams[p].born} \subseteq Nat
    /\ \A s \in Subs : subs[s].on \in BOOLEAN /\ subs[s].busy \in BOOLEAN
                       /\ subs[s].cfg \in Configs \cup {NoConfig}
    /\ \A s \in Subs, p \in Paths : /\ links[s][p].type \in {"none", "glob", "explicit"}
                                     /\ links[s][p].first <= links[s][p].off
    /\ member \subseteq Subs \X Paths /\ bit \subseteq Subs \X Paths
    /\ dirty \subseteq Paths /\ \A kind \in DOMAIN budget : budget[kind] \in Nat
    /\ \A s \in Subs : subs[s].busy => subs[s].on

Holds(w, e) == w # NoTask /\ w.now # NoTask /\ <<w.now.s, w.now.p>> = e

\* Somebody is about to write the index entry e.
EntryIsComing(e) ==
    \/ \E t \in Tasks : ~Idle(t) /\ tasks[t].at = "index" /\ Holds(tasks[t], e)
    \/ \E t \in Tasks : /\ ~Idle(t) /\ tasks[t].op = "seed"
                        /\ \E i \in tasks[t].todo : <<i.s, i.p>> = e
    \/ Holds(pass, e) /\ pass.at = "index"

\* A link of a live subscription that appends cannot find is on its way into
\* the index, or its entry was lost to a crash, an error, a removal that a
\* newer link overtook, or the subscription found the link already there.
\* In particular the removal of stale members never hides a live link.
GapsHaveACause ==
    \A s \in Subs, p \in Paths :
        subs[s].on /\ Linked(s, p) /\ ~Indexed(s, p)
            => EntryIsComing(<<s, p>>) \/ <<s, p>> \in torn

\* A cursor lies within its stream, and a stream younger than a pattern
\* subscription is linked from its first message, whether the create hook or
\* a later reconcile pass wrote the link; unless the subscription's own
\* backfill listed it, it was deleted before, or the link is older than the
\* subscription.
CursorsAreSound ==
    \A s \in Subs, p \in Paths :
        subs[s].on /\ Linked(s, p) /\ streams[p].on /\ <<s, p>> \notin raced
            => /\ links[s][p].off <= streams[p].tail
               /\ ~links[s][p].asked /\ streams[p].born > subs[s].born => links[s][p].first = Begin

\* However calls overtake each other, fail or die half way: once nothing more
\* is asked for, every existing stream a live pattern matches is linked and
\* every link of a live subscription can be found by an append.
LinksConverge ==
    <>[]~Repairable

\* Owed: data beyond a cursor of an idle subscription.  None stays so.
Owed(s) == subs[s].on /\ ~subs[s].busy /\ HasPendingWork(s)
OwedIsWoken == \A s \in Subs : []<>(~Owed(s))

\* INVARIANTS.md, INV-RECOVER-03: a stream created after the subscription is
\* linked at its beginning.  Not so when the subscription's own backfill lists
\* the new stream and its link lands before the hook's: the cursor starts at
\* the listed tail and what the stream was created with is never delivered.
NewStreamsLinkFromTheStart ==
    \A s \in Subs, p \in Paths :
        subs[s].on /\ Linked(s, p) /\ streams[p].on /\ ~links[s][p].asked
            => (streams[p].born > subs[s].born => links[s][p].first = Begin)
=============================================================================
