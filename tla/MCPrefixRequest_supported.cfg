SPECIFICATION Spec
CONSTANTS
  a = a
  b = b
  Tokens = {a, b}
  None = None
  Setups <- Supported
  BlockSize = 2
INVARIANTS
  PrefillComputesPrompt
  StoreIsHonest
  RanksPartOnlyForCause
