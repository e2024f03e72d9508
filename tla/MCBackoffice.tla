---------------------------- MODULE MCBackoffice ----------------------------
(* A small instance of Dashboard, and of Catalog under it, for TLC.          *)
EXTENDS Dashboard

CONSTANTS me, other, o1, o2, o3, s1, s2, a1

MCTraffic == [orders    |-> {"sell", "ship"},
              products  |-> {"create", "add", "delete"},
              inventory |-> {"restock", "sell", "add", "delete"}]
MCBegun == {[product |-> 1, option |-> o1, sku |-> s1]}
=============================================================================
