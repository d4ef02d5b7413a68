--------------------------- MODULE BoundedReplay ----------------------------
(***************************************************************************)
(* The abstract replay buffer: a window over the latest envelopes that     *)
(* grows at one end and, once it holds Capacity of them, gives way at the  *)
(* other.                                                                  *)
(***************************************************************************)
EXTENDS ReplayWindow

CONSTANT Envelopes     \* what can be committed

VARIABLE window

Init == window = << >>

Commit == \E e \in Envelopes : window' = Push(window, e)

Spec == Init /\ [][Commit]_window
=============================================================================
