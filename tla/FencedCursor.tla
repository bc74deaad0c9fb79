---------------------------- MODULE FencedCursor ----------------------------
(***************************************************************************)
(* What a subscription promises to the workers it wakes: a cursor guarded  *)
(* by a fence.  Fences are pairs <<incarnation, generation>>, ordered      *)
(* lexicographically and never handed out twice.  The cursor moves only    *)
(* forward, and only while the newest fence is open; a lapse closes the    *)
(* fence and leaves the cursor alone.                                      *)
(***************************************************************************)
EXTENDS Integers

VARIABLES fence,   \* the newest fence
          open,    \* that fence still has a holder or a wake under way
          cursor   \* the acknowledged offset

fvars == <<fence, open, cursor>>

Precedes(f, g) == f[1] < g[1] \/ (f[1] = g[1] /\ f[2] < g[2])

FInit == fence \in Int \X Int /\ ~open /\ cursor \in Nat

\* A wake is armed or a claim granted: a new fence opens.  A fence still open
\* is superseded.
Mint ==
    /\ fence' \in Int \X Int /\ Precedes(fence, fence') /\ open'
    /\ UNCHANGED cursor

\* The holder acknowledges, and perhaps finishes.
Use ==
    /\ open
    /\ cursor' \in Nat /\ cursor' >= cursor
    /\ open' \in BOOLEAN
    /\ UNCHANGED fence

\* The holder gives up, or its lease lapses.
Lapse == open /\ ~open' /\ UNCHANGED <<fence, cursor>>

\* The subscription is deleted, or created anew with a fresh cursor.
Restart ==
    /\ fence' \in Int \X Int /\ Precedes(fence, fence') /\ ~open'
    /\ cursor' \in Nat

FNext == Mint \/ Use \/ Lapse \/ Restart

FSpec == FInit /\ [][FNext]_fvars
=============================================================================
