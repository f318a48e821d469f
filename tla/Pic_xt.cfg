SPECIFICATION FairSpec
CONSTANTS
  AT = FALSE
  Cpu386 = FALSE
  Irqs = {0, 1, 4}
  Shared = {4}
  Masks = {{}, {1}}
  Elcr = {}
  Icw1 <- Icw1Xt
PROPERTIES Line0Served
