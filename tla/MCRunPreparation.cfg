SPECIFICATION PreparationSpec
CONSTANTS
  Runs = {r1, r2}
  DoNotTrack = DoNotTrack
  Day = 1
  MaxTime = 2
  MaxBack = 1
  MaxReleases = 2
  Chain = "soroban"
  Toolchains = {"t1", "t2"}
  Revisions <- MCRevisions
  Exclusions <- MCExclusions
  Starts <- MCStarts
INVARIANTS OptOutKept UpdateNoticed PreparedAsSelected
CHECK_DEADLOCK FALSE
