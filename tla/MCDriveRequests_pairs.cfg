SPECIFICATION ReqSpec
CONSTANTS
  Root = root
  SubfolderId = {a, b}
  FileId = {f}
  Name = {m, n}
  NoParent = NoParent
  MaxClock = 2
  Request = {r1, r2}
  Ops <- OpName
  Faults = {}
SYMMETRY Symmetry
ACTION_CONSTRAINTS Winding SecondNameAlone
INVARIANTS TreeKept BinKept ServedKept ObjectsKept
PROPERTIES LiveKept ReadyKept OnlyTheseOvertake
