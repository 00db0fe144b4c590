SPECIFICATION FairSpec
CONSTANTS
  a1 = a1
  a2 = a2
  y1 = y1
  y2 = y2
  NoType = NoType
  NoKey = NoKey
  Attempts = {a1, a2}
  OldAttempts = {o1}
  Types = {y1, y2}
  DefaultType = y1
  Keys = {k1}
  Quantities = {1, 2}
  Capacity <- MCCapacity
  MaxInteger = 3
INVARIANTS StockMatchesLedger MirrorParity OneDecisionPerKey AnswersAreOnRecord ChangesAgree
PROPERTIES ImplementsSale ImplementsTables EveryPurchaseEnds
