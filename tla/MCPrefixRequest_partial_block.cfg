SPECIFICATION Spec
CONSTANTS
  a = a
  b = b
  Tokens = {a, b}
  None = None
  Setups <- PartialBlock
  BlockSize = 2
INVARIANTS
  PrefillComputesPrompt
