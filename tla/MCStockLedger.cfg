\* Sales, a cancellation and the deletion of a return: every row they write is locked or relative.
SPECIFICATION FairSpec
CONSTANTS
  screen = screen
  battery = battery
  Products = {screen, battery}
  Opening <- MCOpening
  Requests = {r1, r2, r3}
  Jobs <- ExactJobs
  NoRequest = none
  NoJob = nojob
INVARIANTS
  MovementsExplainStock
PROPERTIES
  ImplementsBook
  EveryRequestAnswered
