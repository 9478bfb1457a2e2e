SPECIFICATION ReqSpec
CONSTANTS
  Root = root
  SubfolderId = {a}
  FileId = {f}
  Name = {n}
  NoParent = NoParent
  MaxClock = 0
  Request = {r1}
  Ops = {"initiateUpload", "completeUpload", "patchFile"}
  Faults = {"completeUpload"}
INVARIANT UploadsCanBeResumed
