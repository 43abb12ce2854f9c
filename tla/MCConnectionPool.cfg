SPECIFICATION PoolSpec
CONSTANTS
  c1 = c1
  c2 = c2
  c3 = c3
  r1 = r1
  r2 = r2
  Conns = {c1, c2, c3}
  HttpRequests = {r1, r2}
  Companies = {"north", "south"}
  CompanyOf <- MCCompany
  Layers <- MCLayers
  Needs <- MCNeeds
  Leavers = {}
  MaxSent = 3
INVARIANTS
  HeldOnce
  ContextIsOwn
PROPERTIES
  EveryRequestDealtWith
