CONSTANTS
  x = x
  y = y
  Parameter = {x, y}
  Other = Other
  Missing = Missing
SPECIFICATION ContractSpec
INVARIANTS ProviderSatisfies
CHECK_DEADLOCK FALSE
