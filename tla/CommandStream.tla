--------------------------- MODULE CommandStream ---------------------------
(***************************************************************************)
(* What the Voodoo emulation promises to guest software: commands take      *)
(* effect one at a time and in the order written, pixels and buffers are    *)
(* touched only when the triangles before them are drawn, and a read of the *)
(* card sees all that was written before.  No ring buffer, no threads, no   *)
(* events: VoodooFifo implements it.                                        *)
(***************************************************************************)
EXTENDS Integers, Sequences

CONSTANTS Kinds,      (* of command                                          *)
          Triangles,  (* the kinds that start drawing                        *)
          Waiting,    (* the kinds that wait for all drawing to end          *)
          MaxDrawing  (* room for unfinished triangles                       *)

VARIABLES todo,     (* commands written and not yet carried out *)
          drawing,  (* triangles not yet on the screen          *)
          guest     (* "writes", or "reads" the card            *)

Init == todo = <<>> /\ drawing = 0 /\ guest = "writes"

Submit(k) ==
  /\ guest = "writes"
  /\ todo' = Append(todo, k) /\ UNCHANGED <<drawing, guest>>

Execute ==
  /\ todo # <<>>
  /\ todo' = Tail(todo)
  /\ Head(todo) \in Waiting => drawing = 0
  /\ drawing' = IF Head(todo) \in Triangles THEN drawing + 1 ELSE drawing
  /\ drawing' <= MaxDrawing
  /\ UNCHANGED guest

Rendered == drawing > 0 /\ drawing' = drawing - 1 /\ UNCHANGED <<todo, guest>>

Read ==
  /\ guest = "writes" /\ todo = <<>> /\ drawing = 0
  /\ guest' = "reads" /\ UNCHANGED <<todo, drawing>>

ReadDone == guest = "reads" /\ guest' = "writes" /\ UNCHANGED <<todo, drawing>>

Next == (\E k \in Kinds : Submit(k)) \/ Execute \/ Rendered \/ Read \/ ReadDone

Spec == Init /\ [][Next]_<<todo, drawing, guest>>
=============================================================================
