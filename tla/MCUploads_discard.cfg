SPECIFICATION Spec
CONSTANTS
  FileId = {1, 2}
  Run = {r1}
  TotalParts = 1
  MaxConcurrent = 2
  MaxRetries = 2
  ListLimit = 2
  Presses = 2
  Lossy = {"resume", "part", "complete", "reload"}
  MaxFaults = 1
  NoFile = NoFile
PROPERTY DiscardIsSafe
ACTION_CONSTRAINT InOrder
CHECK_DEADLOCK FALSE
