SPECIFICATION FairSpec
CONSTANTS
  NoUser = NoUser
  u1 = u1
  u2 = u2
  Users = {u1, u2}
  Sessions = {s1, s2, s3}
  Handlers = {h1, h2}
  MayOverlap <- Mixed
  MaxFails = 1
  MaxCrashes = 1
INVARIANTS TypeOK OneActivePerUser SessionsBounded Recoverable TimerGuards StopDelivers
PROPERTIES LeaseSpec AutoStoppedAlone
