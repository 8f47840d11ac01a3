SPECIFICATION Spec
CONSTANTS
  Null = Null
  MANUAL_SALE = MANUAL_SALE
  Users = {"u"}
  Ids = {"s1", "s2"}
  Names = {"x"}
  Handlers = {h1}
  Owner <- OwnerOf
  ItemNames <- ItemsOf
  TransactionType <- TypeOf
  Initiated <- InitiatedOf
  Updated <- UpdatedOf
  Similar = {}
  EndStatus = {"COMPLETED_PROTECTED"}
  HistoryStatus = {"COMPLETED_PROTECTED"}
  Histories = {}
  MayPair = {}
  Recorded = {}
  MayCorrect = {}
SYMMETRY Symmetry
PROPERTIES MatchesBuys
