SPECIFICATION Spec
CONSTANTS
  Root = root
  SubfolderId = {a, b}
  FileId = {f, g}
  Name = {m, n}
  NoParent = NoParent
  MaxClock = 3
SYMMETRY Symmetry
INVARIANTS
  TypeOK OneTree BinOrder BinViewCoversTheBin RestoreClashesOnlyAtItsTop ObjectsMatchFiles
PROPERTIES
  NothingLiveIsDestroyed PurgeKeepsRetention RestoreBringsBackOneBatch
