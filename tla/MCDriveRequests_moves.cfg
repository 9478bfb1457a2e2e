SPECIFICATION ReqSpec
CONSTANTS
  Root = root
  SubfolderId = {a, b}
  FileId = {f}
  Name = {m, n}
  NoParent = NoParent
  MaxClock = 0
  Request = {r1, r2}
  Ops = {"createFolder", "patchFolder"}
  Faults = {}
INVARIANT OneTree
