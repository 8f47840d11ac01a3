SPECIFICATION Spec
CONSTANTS
  basic = basic
  pro = pro
  trial = trial
  other = other
  PREMIUM = PREMIUM
  ENTERPRISE = ENTERPRISE
  NoPlan = NoPlan
  Models = {basic, pro, trial}
  Features = {PREMIUM, ENTERPRISE}
  NamedTrial = other
  PriceLists <- Lists
  Collections <- Promos
  Carts <- SomeCarts
  Orders = {o1}
  Handlers = {h1}
  MaxTime = 2
  MaxEdits = 1
INVARIANTS TypeOK QuoteWasOffered PathsAgree SoldAtAPrice Unambiguous
