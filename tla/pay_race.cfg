SPECIFICATION Spec
CONSTANTS
  NoOrder = NoOrder
  NoPayment = NoPayment
  Orders = {o1}
  Payments = {p1, p2}
  Handlers = {h1, h2}
  MaxItems = 2
  GatewayMoves <- ShortMoves
  MaxFails = 1
  MaxCrashes = 1
SYMMETRY Symmetry
INVARIANTS TypeOK NothingForFree ActivatedIsComplete OverActivationBounded OnceUndisturbed
