SPECIFICATION Spec
CONSTANTS
  NoUser = NoUser
  NoAccount = NoAccount
  NoSession = NoSession
  u1 = u1
  u2 = u2
  a1 = a1
  a2 = a2
  Users = {u1, u2}
  Accounts = {a1, a2}
  Sessions = {s1, s2}
  Linked <- OneLinked
  Handlers = {h1, h2}
  MaxFails = 1
SYMMETRY Symmetry
INVARIANTS TypeOK
PROPERTIES PlatformIdSticks DueIsHeard
