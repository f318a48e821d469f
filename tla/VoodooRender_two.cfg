SPECIFICATION FairSpec
CONSTANTS
  Count = 2
  Slots = 2
  WakeBelow = 2
  RoomAbove = 0
  Modulus = 4
  Size = 1
  a = a
  b = b
  Textures = {a, b}
  NoTexture = NoTexture
  Start <- MCStart
  End <- MCEnd
  Page = 4
  Addresses = {4}
INVARIANTS CountsAgree AlignedCoherent NobodyStuck
PROPERTIES IdleMeansDrawn RoomComes NoneForgotten
