SPECIFICATION Spec
CONSTANTS
  AT = TRUE
  Cpu386 = TRUE
  Irqs = {0, 1, 8, 14}
  Shared = {14}
  Masks = {{}, {6}}
  Elcr = {6}
  Icw1 <- Icw1At
INVARIANTS MaskFollowsService CachedPending PriorityKept
PROPERTIES RequestKept
