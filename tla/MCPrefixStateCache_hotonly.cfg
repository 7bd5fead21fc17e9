SPECIFICATION Spec
CONSTANTS
  k1 = k1
  k2 = k2
  k3 = k3
  Keys <- MCKeys
  Plain = Plain
  Terminal = Terminal
  None = None
  PlainSize = 1
  TerminalSize = 2
  RamBudget = 3
  HasHot = TRUE
  HotBudget = 3
  HasDisk = FALSE
  DiskBudget = 0
  MaxRefs = 1
INVARIANTS
  HotIsPromotion
