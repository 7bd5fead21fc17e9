SPECIFICATION Spec
CONSTANTS
  a = a
  b = b
  Tokens = {a, b}
  None = None
  Setups <- RankFails
  BlockSize = 2
INVARIANTS
  RanksForwardTheSame
