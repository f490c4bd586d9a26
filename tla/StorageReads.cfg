SPECIFICATION Spec
CONSTANTS
  NoKey = NoKey
  Copies = {v}
  Keys = {k, l}
  MaxDepth = 2
INVARIANTS
  StaleReadsReported
  AlarmsExplained
CHECK_DEADLOCK FALSE
