------------------------------- MODULE MCPic -------------------------------
(* Values a .cfg cannot write for Pic.tla. *)
EXTENDS Pic
\* ICW1 with the slave present and an ICW4 to follow (11h), as an AT writes it ...
Icw1At == {[ic4 |-> TRUE, sngl |-> FALSE]}
\* ... and the single chip of an XT, with and without ICW4 (13h, 12h).
Icw1Xt == {[ic4 |-> TRUE, sngl |-> TRUE], [ic4 |-> FALSE, sngl |-> TRUE]}
=============================================================================
