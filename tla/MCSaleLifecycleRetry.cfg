\* A cashier's creation is sent again after a crash.
SPECIFICATION Spec
CONSTANTS
  Sales = {1, 2}
  Units <- MCUnits
  Cashier = {1}
  Shared = {2}
  Audited = 1
  Kinds <- OnlyCreate
  MaxSent = 2
  Requests = {r1, r2}
  NoRequest = none
INVARIANTS
  CashierSalesPosted
