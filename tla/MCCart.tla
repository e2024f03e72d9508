-------------------------------- MODULE MCCart --------------------------------
(* The cart on small instances. *)
EXTENDS Cart, TLC

Symmetric == Permutations(Proc) \cup Permutations(Option)
=============================================================================
