\* Two payments of one job overlap.
SPECIFICATION Spec
CONSTANTS
  phone = phone
  tablet = tablet
  screen = screen
  battery = battery
  r1 = r1
  r2 = r2
  Jobs = {tablet}
  Services = {battery}
  For <- MCFor
  Fees = {1, 3}
  Price <- MCPrice
  Freight <- MCFreight
  Opening = 1
  Shared = {tablet}
  Flaky = {tablet}
  Corrected = {}
  MaxSent = 4
  Requests = {r1, r2}
SYMMETRY Alike
INVARIANTS
  PaymentsWithinRest
