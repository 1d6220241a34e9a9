CONSTANTS
  Users = {u1}
  Families = {f1}
  AccessLife = 0
  RefreshLife = 1
  MaxTime = 2
  Tabs = {t1, t2}
  Calls = {c1, c2}
  None = None
SPECIFICATION SessionsSpec
SYMMETRY MCSymmetry
CHECK_DEADLOCK FALSE
INVARIANTS
  SessionsTypeOK
  OneUsableToken
  DisabledHasNoToken
  TokensComeInPairs
PROPERTIES
  FamilySpec
  OnlyARaceOrALossEndsALiveSession
