\* The analysis of a crate ends.
CHECK_DEADLOCK FALSE
CONSTANTS
  entry = entry
  helper = helper
  inner = inner
  Functions = {entry, helper, inner}
  External = External
  Generated = {"spec"}
  Params = {1, 2}
  Current = Current
  Blocks = {1, 2, 3, 4}
  First = 1
  NoBlock = NoBlock
  Programs <- MCPrograms
  Cases <- MCCases
SPECIFICATION Spec
INVARIANTS NoSinkMissed AlarmsExplained
PROPERTIES SummariesGrow Terminates
