SPECIFICATION Spec
CONSTANTS
  a = a
  b = b
  Tokens = {a, b}
  None = None
  Setups <- RankMtp
  BlockSize = 2
INVARIANTS
  RanksForwardTheSame
