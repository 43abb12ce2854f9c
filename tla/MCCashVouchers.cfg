\* Any four requests, two at a time, for seven documents.
SPECIFICATION FairSpec
CONSTANTS
  Safes = {"drawer", "till", "box"}
  Customers = {"ali"}
  NoCustomer = "nobody"
  Accounted = {"ali"}
  Docs = {"RV1", "PV1", "EXP1", "DV1", "TR1", "TP1", "INC1"}
  Voucher <- MCVoucher
  Opening <- MCOpening
  Drawer = "drawer"
  Shared = {"DV1", "TR1", "TP1"}
  MaxSent = 4
  Requests = {1, 2}
  NoRequest = 0
INVARIANTS SafeNeverNegative LedgerExplainsDebt
PROPERTIES ImplementsCashBook EveryRequestAnswered
