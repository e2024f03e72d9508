---------------------------- MODULE MCStorefront ----------------------------
(* A small instance of Storefront for TLC.                                  *)
EXTENDS Storefront, TLC

CONSTANTS t1, t2, k1, k2, k3, e1, e2, b1, b2

MCProc  == Tab \X {"mount", "page"}
MCBegun == 1 :> e1
Interchangeable == Permutations(Tab) \cup Permutations(Token) \cup Permutations(Order)
=============================================================================
