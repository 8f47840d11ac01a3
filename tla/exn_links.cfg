SPECIFICATION Spec
CONSTANTS
  Null = Null
  MANUAL_SALE = MANUAL_SALE
  Users = {"u", "v"}
  Ids = {"b1", "b2", "s1", "c1"}
  Names = {"x"}
  Handlers = {h1, h2}
  Owner <- OwnerOf
  ItemNames <- ItemsOf
  TransactionType <- TypeOf
  Initiated <- InitiatedOf
  Updated <- UpdatedOf
  Similar <- SimilarOf
  EndStatus = {"COMPLETED_PROTECTED"}
  HistoryStatus = {"COMPLETED_PROTECTED", "OTHER"}
  Histories = {{"s1"}}
  MayPair <- Pairs
  Recorded = {"b2", "c1"}
  MayCorrect = {"b1", "s1"}
SYMMETRY Symmetry
INVARIANTS TypeOK LinksWithinUser ClaimsAgree ProfitIsEarned
PROPERTIES OnlyStaleHistoriesReopen
