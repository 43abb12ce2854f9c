\* One orderly sale, whose returns may name the product instead of the line.
SPECIFICATION Spec
CONSTANTS
  Sales = {1}
  Units <- MCUnits
  Cashier = {}
  Shared = {}
  Audited = 1
  Kinds <- MCKinds
  MaxSent = 3
  Requests = {r1}
  NoRequest = none
INVARIANTS
  NothingReturnedTwice
