SPECIFICATION ShareSpec
CONSTANTS
  Root = root
  SubfolderId = {a, b}
  FileId = {f}
  Name = {root, a, b, f}
  NoParent = NoParent
  MaxClock = 2
  User = {u}
  Reader = {r}
  NameOf <- Itself
  None = None
SYMMETRY Symmetry
INVARIANTS ReachableFromWithMe BinIsPrivate GrantsAreJustified
