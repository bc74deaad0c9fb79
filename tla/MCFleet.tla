----------------------------- MODULE MCFleet ------------------------------
(***************************************************************************)
(* Small instances of what replicas and workers share: the event-stream    *)
(* hub (SSEHub), the ownership of slots (SlotOwnership), and the two       *)
(* linearizability checks of the fault-injection suite (FenceOracle,       *)
(* StoreOracle).  They share no state; a behaviour is one of one of them,  *)
(* and the others rest.                                                    *)
(***************************************************************************)
EXTENDS SlotOwnership, TLC

CONSTANT Clients   \* of the hub; the workers of the fence scenarios

VARIABLE part   \* "hub", "slots", "fences" or "logs"

-----------------------------------------------------------------------------
(* The hub: a ring of several events and a stream long enough to evict     *)
(* from it, a fault, a stream that is re-created, and a client that comes  *)
(* back.                                                                   *)

VARIABLES stream, reg, hubs, conns, left

hubVars == <<stream, reg, hubs, conns, left>>

Left(appends, ends, creates, conns_, faults_) ==
    [appends |-> appends, ends |-> ends, creates |-> creates, conns |-> conns_,
     faults |-> faults_]

SSE == INSTANCE SSEHub WITH
    ReplayLimit <- 2, BatchLimit <- 2, PageLimit <- 2, MaxLen <- 5, budget <- left,
    Budgets <- {Left(4, 2, 0, 1, 0), Left(3, 0, 0, 2, 0), Left(1, 2, 0, 2, 1),
                Left(0, 4, 1, 2, 0), Left(1, 2, 0, 3, 0)}

-----------------------------------------------------------------------------
(* Slots: ownership that goes away and comes back; a rolling deploy,       *)
(* without and with a failing command; a crash.                            *)

slotVars == vars

Weight(r, h) == CASE r = "a" -> 3 [] r = "o" -> 2 [] OTHER -> 1
Passes(be, p, s, c, f, k) ==
    [beats |-> be, passes |-> p, scopes |-> s, claims |-> c, faults |-> f, crashes |-> k]

MCBudgets == {Passes(0, 4, 1, 0, 0, 0), Passes(1, 2, 0, 2, 0, 0), Passes(0, 2, 0, 1, 1, 0),
              Passes(0, 3, 1, 0, 1, 0), Passes(0, 3, 0, 0, 0, 1)}

ASSUME OwnershipConstants == Constants

-----------------------------------------------------------------------------
(* Fences: two workers in each of the three control-plane scenarios.       *)

VARIABLES scene, srv, pc, cycles, heldEpoch, token, op, late, faults, front, excused

fenceVars == <<scene, srv, pc, cycles, heldEpoch, token, op, late, faults, front, excused>>

Fen == INSTANCE FenceOracle WITH
    Workers <- Clients, NoOwner <- "nobody", Scenarios <- {"lease", "ownership", "composed"},
    MaxCycles <- 2, MaxGen <- 3, MaxFaults <- 1, held <- heldEpoch

-----------------------------------------------------------------------------
(* Logs: two clients, one of them the closer, with frames of two lengths.  *)

VARIABLES log, closed, latch, call, count, stray, spent, judged, pardoned

logVars == <<log, closed, latch, call, count, stray, spent, judged, pardoned>>

Log == INSTANCE StoreOracle WITH
    Clients <- {"writer", "closer"}, Closer <- "closer",
    SizeOf <- [writer |-> 1, closer |-> 2], MaxOps <- [writer |-> 2, closer |-> 3],
    MaxAttempts <- 2, MaxFaults <- 1,
    op <- call, faults <- spent, front <- judged, excused <- pardoned

-----------------------------------------------------------------------------
(* One part at a time.                                                     *)

HubRests == stream = 0 /\ reg = 0 /\ hubs = 0 /\ conns = 0 /\ left = 0
SlotsRest == Init /\ budget = Passes(0, 2, 0, 1, 1, 0)
FencesRest ==
    /\ scene = 0 /\ srv = 0 /\ pc = 0 /\ cycles = 0 /\ heldEpoch = 0 /\ token = 0 /\ op = 0
    /\ late = 0 /\ faults = 0 /\ front = 0 /\ excused = 0
LogsRest ==
    /\ log = 0 /\ closed = 0 /\ latch = 0 /\ call = 0 /\ count = 0 /\ stray = 0 /\ spent = 0
    /\ judged = 0 /\ pardoned = 0

SumInit ==
    \/ part = "hub" /\ SSE!Init /\ SlotsRest /\ FencesRest /\ LogsRest
    \/ part = "slots" /\ HubRests /\ Init /\ FencesRest /\ LogsRest
    \/ part = "fences" /\ HubRests /\ SlotsRest /\ Fen!Init /\ LogsRest
    \/ part = "logs" /\ HubRests /\ SlotsRest /\ FencesRest /\ Log!Init

InHub == part = "hub" /\ UNCHANGED <<part, slotVars, fenceVars, logVars>>
InSlots == part = "slots" /\ UNCHANGED <<part, hubVars, fenceVars, logVars>>
Fences == part = "fences" /\ UNCHANGED <<part, hubVars, slotVars, logVars>>
Logs == part = "logs" /\ UNCHANGED <<part, hubVars, slotVars, fenceVars>>

SumNext ==
    \/ \E c \in Clients : InHub /\ SSE!Connect(c)
    \/ \E c \in Clients : InHub /\ SSE!Disconnect(c)
    \/ \E c \in Clients, from \in {SSE!Now} \cup 0 .. 5 : InHub /\ SSE!FirstPage(c, from)
    \/ \E c \in Clients : InHub /\ SSE!Bind(c)
    \/ \E c \in Clients : InHub /\ SSE!Replace(c)
    \/ \E c \in Clients : InHub /\ SSE!Ready(c)
    \/ \E c \in Clients : InHub /\ SSE!CatchUp(c)
    \/ \E c \in Clients : InHub /\ SSE!Confirm(c)
    \/ \E c \in Clients : InHub /\ SSE!Confirmed(c)
    \/ \E c \in Clients : InHub /\ SSE!Abort(c)
    \/ \E c \in Clients : InHub /\ SSE!Attach(c)
    \/ \E c \in Clients : InHub /\ SSE!AttachBehind(c)
    \/ \E c \in Clients : InHub /\ SSE!Deliver(c)
    \/ \E c \in Clients : InHub /\ SSE!DeliverEnd(c)
    \/ \E c \in Clients : InHub /\ SSE!DropLive(c)
    \/ \E c \in Clients : InHub /\ SSE!Sleep(c)
    \/ \E c \in Clients : InHub /\ SSE!Wake(c)
    \/ \E h \in SSE!HubIds : InHub /\ SSE!Subscribe(h)
    \/ \E h \in SSE!HubIds : InHub /\ SSE!StartRefresh(h)
    \/ \E h \in SSE!HubIds : InHub /\ SSE!SubscriptionLost(h)
    \/ \E h \in SSE!HubIds : InHub /\ SSE!RefreshPage(h)
    \/ \E h \in SSE!HubIds : InHub /\ SSE!RefreshTerminal(h)
    \/ \E h \in SSE!HubIds : InHub /\ SSE!RefreshError(h)
    \/ \E lost \in BOOLEAN : InHub /\ SSE!AppendMessage(lost)
    \/ \E lost \in BOOLEAN : InHub /\ SSE!CloseStream(lost)
    \/ \E lost \in BOOLEAN : InHub /\ SSE!Delete(lost)
    \/ InHub /\ SSE!Create
    \/ \E r \in Replicas : InSlots /\ Heartbeat(r)
    \/ \E r \in New : InSlots /\ ReadMembers(r)
    \/ \E r \in New : InSlots /\ Release(r)
    \/ \E r \in New : InSlots /\ Land(r)
    \/ \E r \in New : InSlots /\ Crash(r)
    \/ \E r \in New, refused, lost \in SUBSET Slots :
          InSlots /\ Reserve(r, refused, lost)
    \/ \E r \in New, refused, lost \in SUBSET Slots :
          InSlots /\ Claim(r, refused, lost)
    \/ \E r \in New, refused, lost \in SUBSET Slots :
          InSlots /\ Settle(r, refused, lost)
    \/ \E r \in New, h \in Slots : InSlots /\ OwnedScopes(r, h)
    \/ \E r \in Old, h \in Slots : InSlots /\ OldClaim(r, h)
    \/ InSlots /\ Tick
    \/ \E w \in Clients : Fences /\ Fen!ClaimSlotCall(w)
    \/ \E w \in Clients : Fences /\ Fen!ClaimCall(w)
    \/ \E w \in Clients : Fences /\ Fen!CheckCall(w)
    \/ \E w \in Clients : Fences /\ Fen!SkipCheck(w)
    \/ \E w \in Clients : Fences /\ Fen!AckCall(w)
    \/ \E w \in Clients : Fences /\ Fen!Reply(w)
    \/ \E w \in Clients : Fences /\ Fen!LostReply(w)
    \/ \E w \in Clients : Fences /\ Fen!Resent(w)
    \/ \E w \in Clients : Fences /\ Fen!ClaimSlotTimeout(w)
    \/ Fences /\ Fen!LateRun
    \/ Fences /\ Fen!Lapse
    \/ Fences /\ Fen!ExpireLease
    \/ Fences /\ Fen!ArmWake
    \/ \E c \in {"writer", "closer"} : Logs /\ Log!appendInvoke(c)
    \/ \E c \in {"writer", "closer"} : Logs /\ Log!readTailAndContentType(c)
    \/ \E c \in {"writer", "closer"} : Logs /\ Log!appendEval(c)
    \/ \E c \in {"writer", "closer"} : Logs /\ Log!appendReturn(c)
    \/ \E c \in {"writer", "closer"} : Logs /\ Log!appendLost(c)
    \/ \E c \in {"writer", "closer"} : Logs /\ Log!appendResent(c)
    \/ \E c \in {"writer", "closer"} : Logs /\ Log!appendTimeout(c)
    \/ \E c \in {"writer", "closer"} : Logs /\ Log!readInvoke(c)
    \/ \E c \in {"writer", "closer"} : Logs /\ Log!readReturn(c)
    \/ \E c \in {"writer", "closer"} : Logs /\ Log!readFailed(c)
    \/ \E c \in {"writer", "closer"} : Logs /\ Log!storeDoGetOffset(c)
    \/ \E c \in {"writer", "closer"} : Logs /\ Log!getOffsetReturn(c)
    \/ Logs /\ Log!StrayLands
    \/ Logs /\ Log!closeInvoke
    \/ Logs /\ Log!closeReturn
    \/ Logs /\ Log!closeLost
    \/ Logs /\ Log!closeResent

SumSpec == SumInit /\ [][SumNext]_<<part, hubVars, slotVars, fenceVars, logVars>>

Symmetry == Permutations(Clients)

\* Nothing more is learnt from a history that was rejected.
Accepted ==
    /\ part = "fences" => front # {}
    /\ part = "logs" => judged # {}

-----------------------------------------------------------------------------
(* Properties of the parts.                                                *)

\* SSEHub!DeliveryIsExact: a connection sends a run of consecutive messages of one incarnation.
DeliveryIsExact == part = "hub" => SSE!DeliveryIsExact

\* FenceOracle!AlarmHasACause: the scripts are rejected only over an unrecorded claim.
FenceAlarmHasACause == part = "fences" => Fen!AlarmHasACause

\* StoreOracle!AlarmHasACause: a correct log is rejected only over a fault misrecorded.
LogAlarmHasACause == part = "logs" => Log!AlarmHasACause

=============================================================================
