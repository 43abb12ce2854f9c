\* A count takes off as a shortage what a sale has taken since the count began.
SPECIFICATION Spec
CONSTANTS
  screen = screen
  battery = battery
  Products = {screen}
  Opening <- MCOpening
  Requests = {r1, r2}
  Jobs <- SaleAndShortage
  NoRequest = none
  NoJob = nojob
INVARIANTS
  StockNeverNegative
