SPECIFICATION ReqSpec
CONSTANTS
  Root = root
  SubfolderId = {a, b}
  FileId = {f}
  Name = {n}
  NoParent = NoParent
  MaxClock = 2
  Request = {r1, r2}
  Ops = {"createFolder", "patchFolder", "initiateUpload", "completeUpload", "deleteFolder", "purge"}
  Faults = {}
ACTION_CONSTRAINT StampsOnly
INVARIANT NoOrphanedObject
