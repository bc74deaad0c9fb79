----------------------------- MODULE AppendLog ------------------------------
(***************************************************************************)
(* What a stream promises its readers and writers: a log that only grows,  *)
(* that stays as it is once closed, and that is only ever replaced as a    *)
(* whole, by a new incarnation.                                            *)
(***************************************************************************)
EXTENDS Integers, Sequences

VARIABLES log,     \* the messages, in order
          closed,  \* no message follows
          life     \* <<number of incarnations so far, alive>>

lvars == <<log, closed, life>>

LInit == log = <<>> /\ ~closed /\ life = <<0, FALSE>>

Extends(old, new) ==
    /\ Len(old) <= Len(new)
    /\ \A i \in 1 .. Len(old) : new[i] = old[i]

\* Write whatever the request carries, and perhaps close.
Write ==
    /\ life[2] /\ ~closed
    /\ Extends(log, log') /\ closed' \in BOOLEAN
    /\ UNCHANGED life

Remove ==
    /\ life[2]
    /\ log' = <<>> /\ ~closed'
    /\ life' = <<life[1], FALSE>>

\* A new incarnation starts with its initial content, perhaps closed.
Create ==
    /\ life' = <<life[1] + 1, TRUE>>
    /\ closed' \in BOOLEAN

LNext == Write \/ Remove \/ Create

LSpec == LInit /\ [][LNext]_lvars
=============================================================================
