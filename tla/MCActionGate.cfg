SPECIFICATION Spec
CONSTANTS
  Lists <- MCLists
  Formats = {"md", "json", "sarif"}
  Thresholds = {"none", "critical", "medium", "minor", "enhancement", "any"}
  Outcomes <- MCOutcomes
  Leftovers <- MCLeftovers
INVARIANTS PassMeansAnalyzed PassMeansBelow FailHasReason
CHECK_DEADLOCK FALSE
