---------------------------- MODULE MCAppendFence ----------------------------
(***************************************************************************)
(* Two manager calls race, in the one scene over a stream that is          *)
(* re-created while tombstones may be forgotten early, in the other over   *)
(* two fenced appends.                                                     *)
(***************************************************************************)
EXTENDS AppendFence, TLC

CONSTANTS w1, w2

MCScenes == [race |-> [writers |-> {w1}, prompt |-> FALSE, lives |-> 2],
             order |-> [writers |-> {w1, w2}, prompt |-> TRUE, lives |-> 1]]

Symmetry == Permutations(Calls) \cup Permutations(Writers)
=============================================================================
