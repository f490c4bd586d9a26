\* The analysis of a crate ends.
CHECK_DEADLOCK FALSE
CONSTANTS
  entry = entry
  second = second
  helper = helper
  Functions = {entry, second, helper}
  External = External
  Generated = {"try", "spec", "client"}
  Programs <- MCPrograms
  Lints = {"set-contract-storage", "token-admin-operation", "dos-unexpected-revert-with-storage", "auth-address-mismatch", "missing-initialization-guard", "unnecessary-admin-parameter", "instance-storage-per-user-key"}
  Cases <- MCCases
SPECIFICATION Spec
INVARIANTS ReportsJustified NoneMissed
PROPERTY Terminates
