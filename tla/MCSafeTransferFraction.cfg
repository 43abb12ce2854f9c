\* Amounts that are not a whole number of piastres.
SPECIFICATION Spec
CONSTANTS
  Safes <- MCSafes
  Owner <- MCOwner
  Opening <- MCOpening
  Company <- MCCompany
  Requests = {r1, r2}
  NoRequest = none
  Deletable = {}
  Amounts = {15, 20}
  FeeTerms <- MCFees
PROPERTIES
  MoneyConserved
