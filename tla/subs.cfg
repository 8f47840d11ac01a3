SPECIFICATION Spec
CONSTANTS
  NoUser = NoUser
  NoFeature = NoFeature
  u1 = u1
  u2 = u2
  Users = {u1, u2}
  Features = {PREMIUM, ENTERPRISE}
  Premium = PREMIUM
  Plans = {2}
  TrialLength = 1
  Handlers = {h1, h2}
  Width <- Mixed
  MaxTime = 2
  MaxSubs = 3
SYMMETRY Symmetry
INVARIANTS TypeOK OverlapBounded TrialsBounded
PROPERTIES EntitlementSpec
