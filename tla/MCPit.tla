------------------------------- MODULE MCPit -------------------------------
(* Values a .cfg cannot write for Pit.tla. *)
EXTENDS Pit
AllWords == [m : Modes, rw : {2, 3}]
=============================================================================
