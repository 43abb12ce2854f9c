\* Two concurrent transfers among three safes, one of another company.
SPECIFICATION FairSpec
CONSTANTS
  Safes <- MCSafes
  Owner <- MCOwner
  Opening <- MCOpening
  Company <- MCCompany
  Requests = {r1, r2}
  NoRequest = none
  Deletable = {2}
  Amounts = {0, 20, 30}
  FeeTerms <- MCFees
INVARIANTS
  NoOverdraft
  RowsExplainBalance
PROPERTIES
  MoneyConserved
  OnlyLiveSafes
  ImplementsPromise
  EveryTransferAnswered
