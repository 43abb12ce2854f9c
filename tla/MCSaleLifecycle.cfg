\* An orderly sale of a cashier and a sale whose requests overlap.
SPECIFICATION FairSpec
CONSTANTS
  Sales = {1, 2}
  Units <- MCUnits
  Cashier = {1}
  Shared = {2}
  Audited = 1
  Kinds <- MCKinds
  MaxSent = 4
  Requests = {r1, r2}
  NoRequest = none
INVARIANTS
  ReturnedWithinSold
  DocumentsAgree
PROPERTIES
  ImplementsSaleBook
  EveryRequestAnswered
