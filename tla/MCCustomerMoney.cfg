\* Any three requests, two at a time, for six invoices of three customers.
SPECIFICATION FairSpec
CONSTANTS
  Docs = {"S1", "S2", "S3", "P1", "P2", "P3"}
  Terms <- MCTerms
  Customers = {"ali", "omar", "mona"}
  NoCustomer = "walk-in"
  Safes = {"till", "drawer", "box"}
  NoSafe = "no safe"
  OnAccount = "account"
  Products = {"phone", "cable"}
  Opening <- MCOpening
  Asked <- MCAsked
  Ways <- MCWays
  Amounts = {1}
  Serial = {"omar"}
  Regular = "omar"
  Home = {"box"}
  MaxSent = 3
  Requests = {1, 2}
  NoRequest = 0
INVARIANTS DebtIsLedger
PROPERTIES ImplementsCustomerBook EveryRequestAnswered
