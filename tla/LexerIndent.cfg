SPECIFICATION Spec
CONSTANTS
  Columns = {1, 2, 4}
  MaxParens = 1
INVARIANTS
  LevelsIncrease
  BlocksBalance
  LinesInTheirBlock
  NothingLeftOver
