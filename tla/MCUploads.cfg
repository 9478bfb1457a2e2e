SPECIFICATION Spec
CONSTANTS
  FileId = {1, 2}
  Run = {r1, r2}
  TotalParts = 2
  MaxConcurrent = 2
  MaxRetries = 2
  ListLimit = 1
  Presses = 2
  Lossy <- Call
  MaxFaults = 2
  NoFile = NoFile
INVARIANTS WholeObjects ActiveHasRun
PROPERTIES DoneIsDone ResumesFinish
ACTION_CONSTRAINT InOrder Apart
CHECK_DEADLOCK FALSE
