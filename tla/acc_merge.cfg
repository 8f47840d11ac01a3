SPECIFICATION Spec
CONSTANTS
  NoUser = NoUser
  NoEmail = NoEmail
  NoDoc = NoDoc
  Users = {p1, r1}
  PlatformUsers = {p1}
  e1 = e1
  e2 = e2
  Emails = {e1, e2}
  Matches <- OneDotted
  Subs = {s1, s2}
  Handlers = {h1, h2}
  MaxTokens = 2
  MaxFails = 1
SYMMETRY Symmetry
INVARIANTS TypeOK MergedIntoLiving SubscriptionsFollow VerifiedByMail ResetOnce LogoutHolds
