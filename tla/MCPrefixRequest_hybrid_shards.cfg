SPECIFICATION Spec
CONSTANTS
  a = a
  b = b
  Tokens = {a, b}
  None = None
  Setups <- HybridShards
  BlockSize = 2
INVARIANTS
  ShardsAtSuffixStart
