SPECIFICATION Spec
CONSTANTS
  Size = 3
  Limit = 2
  Late = 1
  Modulus = 6
  Kinds = {"reg", "tri"}
  MaxDrawing = 1
INVARIANTS EntryKnown
