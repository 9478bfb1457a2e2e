SPECIFICATION ReqSpec
CONSTANTS
  Root = root
  SubfolderId = {a, b}
  FileId = {f, g}
  Name = {n}
  NoParent = NoParent
  MaxClock = 2
  Request = {r1}
  Ops <- OpName
  Faults <- OpName
SYMMETRY Symmetry
ACTION_CONSTRAINT Early
INVARIANTS ObjectsKept UploadsKept
PROPERTIES ImplementsTree ReadyKept
