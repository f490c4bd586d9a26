\* The analysis of a crate ends.
CHECK_DEADLOCK FALSE
CONSTANTS
  entry = entry
  inner = inner
  leaf = leaf
  Functions = {entry, inner, leaf}
  External = External
  Generated = {"try", "spec"}
  Params = {1, 2}
  Programs <- MCPrograms
  AddressCases <- MCCases
SPECIFICATION TargetSpec
INVARIANTS TargetsReported
PROPERTY PropagationEnds
