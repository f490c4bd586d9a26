SPECIFICATION Spec
CHECK_DEADLOCK FALSE
CONSTANTS
  x = x
  y = y
  Param = Param
  Capped = Capped
  Nowhere = Nowhere
  Amount = Amount
  Other = Other
  Locals = {x, y}
  Numbers <- MCNumbers
  Lints <- MCLints
  Longest <- MCLengths
  Contracts <- MCContracts
SYMMETRY MCSymmetry
INVARIANTS
  GuardsJudged
  ConstantsJudged
  ValuesJudged
  LoopsJudged
  CallsJudged
  CratesJudged
  ExamplesJudged
