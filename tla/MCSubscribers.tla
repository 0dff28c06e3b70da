--------------------------- MODULE MCSubscribers ----------------------------
(***************************************************************************)
(* A model of Subscribers: which address an array gets does not matter.    *)
(***************************************************************************)
EXTENDS Subscribers

Addresses == Permutations(Arrays)
=============================================================================
