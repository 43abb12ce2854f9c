\* Any two postings on one product; no count that found a shortage.
SPECIFICATION Spec
CONSTANTS
  screen = screen
  battery = battery
  Products = {screen}
  Opening <- MCOpening
  Requests = {r1, r2}
  Jobs <- FlooredKinds
  NoRequest = none
  NoJob = nojob
INVARIANTS
  StockNeverNegative
  ClaimedOnce
