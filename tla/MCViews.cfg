SPECIFICATION MCSpec
CONSTANTS
  Item = {i}
  Folder = {Root, F}
  Root = Root
  Bin = Bin
  Storage = Storage
  Act = {x, y}
  Asked = Asked
  Target = {s, t}
  Id = {p, q}
  Op = {o, r}
  MaxLoads = 2
  None = None
  Nothing = Nothing
SYMMETRY Symmetry
INVARIANTS SettledPageIsCurrent LateAnswersAreDropped SharesShownAreCurrent FreshLinkWorks
PROPERTY NothingDestroyedUnasked
