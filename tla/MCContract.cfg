CONSTANTS
  x = x
  y = y
  Parameter = {x, y}
  Other = Other
  Missing = Missing
SPECIFICATION ContractSpec
INVARIANTS RefusalsJustified KeywordCallsBind
CHECK_DEADLOCK FALSE
