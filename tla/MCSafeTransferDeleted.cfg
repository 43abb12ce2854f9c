\* A safe is deleted after a transfer has reached it.
SPECIFICATION Spec
CONSTANTS
  Safes <- MCSafes
  Owner <- MCOwner
  Opening <- MCOpening
  Company <- MCCompany
  Requests = {r1, r2}
  NoRequest = none
  Deletable = {2}
  Amounts = {20}
  FeeTerms <- MCFees
INVARIANTS
  DeletedSafesEmpty
