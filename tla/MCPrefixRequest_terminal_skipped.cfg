SPECIFICATION Spec
CONSTANTS
  a = a
  b = b
  Tokens = {a, b}
  None = None
  Setups <- TerminalSkipped
  BlockSize = 2
INVARIANTS
  FinalBlockHasLogits
