SPECIFICATION InsistSpec
CONSTANTS
  NoOrder = NoOrder
  NoPayment = NoPayment
  Orders = {o1}
  Payments = {p1}
  Handlers = {h1, h2}
  MaxItems = 1
  GatewayMoves <- AllMoves
  MaxFails = 1
  MaxCrashes = 1
PROPERTIES PaidIsActivated
