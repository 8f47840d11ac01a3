SPECIFICATION Spec
CONSTANTS
  NoOrder = NoOrder
  NoPayment = NoPayment
  Orders = {o1}
  Payments = {p1}
  Handlers = {h1, h2}
  MaxItems = 1
  GatewayMoves <- DirectMoves
  MaxFails = 0
  MaxCrashes = 0
INVARIANTS OnlyOnce
