\* A purchase overwrites a sale that commits between its read and its write.
SPECIFICATION Spec
CONSTANTS
  screen = screen
  battery = battery
  Products = {screen}
  Opening <- MCOpening
  Requests = {r1, r2}
  Jobs <- SaleAndPurchase
  NoRequest = none
  NoJob = nojob
INVARIANTS
  MovementsExplainStock
