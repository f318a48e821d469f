---------------------------- MODULE MCCodeCache ----------------------------
(* Values a .cfg cannot write for CodeCache.tla: two pages of one line of two    *)
(* bytes.  The code at 1 ends in the second page; the code at 2 is all there is   *)
(* in that page, its second byte an immediate operand.                            *)
EXTENDS CodeCache, TLC
CONSTANTS b1, b2
MCMaps == [v \in 0..1 |-> v]
MCOpcodes == (1 :> {1, 2}) @@ (2 :> {2})
MCImmediates == (1 :> {}) @@ (2 :> {3})
MCReach == (1 :> {1, 2}) @@ (2 :> {2, 3})

\* For CodeCache_stale.cfg: pages of two lines of two bytes, and code at 3 that ends in
\* the second page, where nothing starts.
LongOpcodes == 3 :> {3, 4}
LongImmediates == 3 :> {}
LongReach == 3 :> {3, 4}
=============================================================================
