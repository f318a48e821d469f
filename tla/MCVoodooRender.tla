--------------------------- MODULE MCVoodooRender ---------------------------
(* Values a .cfg cannot write for VoodooRender.tla: two textures in pages of     *)
(* four units.  a fills a page and part of the next, b shares both pages and     *)
(* starts inside the first.                                                      *)
EXTENDS VoodooRender
CONSTANTS a, b
MCStart == [x \in Textures |-> IF x = a THEN 0 ELSE 3]
MCEnd == [x \in Textures |-> 5]
=============================================================================
