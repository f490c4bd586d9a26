\* The analysis of a crate ends.
CHECK_DEADLOCK FALSE
CONSTANTS
  entry = entry
  second = second
  helper = helper
  Functions = {entry, second, helper}
  External = External
  Generated = {"try", "spec", "client"}
  Programs <- MCPrograms
  EventLints = {"storage-change-events", "token-interface-events"}
  StackLimit = 5
SPECIFICATION EventSpec
INVARIANTS SilenceReported OverflowOnlyOnRecursion
PROPERTY EventsTerminate
