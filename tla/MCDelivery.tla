---------------------------- MODULE MCDelivery ------------------------------
(***************************************************************************)
(* The instance of Delivery for TLC: two readers, which may be swapped.    *)
(***************************************************************************)
EXTENDS Delivery, TLC

Symmetry == Permutations(Readers)
=============================================================================
