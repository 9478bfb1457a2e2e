SPECIFICATION MCSpec
CONSTANTS
  Email = {a, b, c}
  Invite = {i}
  Visitor = {v, w}
  Anyone = Anyone
  None = None
  Tab = {s, t}
  Request = {q, r}
  MaxSignIns = 2
  MaxFaults = 1
  FirstAdmin = a
  AnInvite = i
  Guest = v
  Address = b
SYMMETRY Symmetry
INVARIANTS InvitesOpenAccounts WholeSession NobodyLeftWaiting
PROPERTY SignedOutForCause
