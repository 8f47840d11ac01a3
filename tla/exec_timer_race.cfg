SPECIFICATION FairSpec
CONSTANTS
  NoUser = NoUser
  u1 = u1
  u2 = u2
  Users = {u1}
  Sessions = {s1, s2}
  Handlers = {h1, h2}
  MayOverlap <- RequestsApart
  MaxFails = 0
  MaxCrashes = 0
PROPERTIES AutoStopped
