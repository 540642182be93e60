SPECIFICATION Spec
CONSTANTS
  MaxCalls = 4
  MaxSnapshots = 2
  PayloadSizes = {0, 2}
  MaxJournalCells = 12
  IOMayFail = TRUE
INVARIANTS CrashIsNotCorruption AckedSurvives CountersMatchFile
CHECK_DEADLOCK FALSE
