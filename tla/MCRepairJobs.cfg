SPECIFICATION Spec
CONSTANTS
  phone = phone
  tablet = tablet
  screen = screen
  battery = battery
  r1 = r1
  r2 = r2
  Jobs = {phone, tablet}
  Services = {screen, battery}
  For <- MCFor
  Fees = {1, 3}
  Price <- MCPrice
  Freight <- MCFreight
  Opening = 1
  Shared = {tablet}
  Flaky = {tablet}
  Corrected = {tablet}
  MaxSent = 5
  Requests = {r1, r2}
SYMMETRY Alike
INVARIANTS
  CommissionEarnedOnce
  CommissionAsPriced
  PaymentsAddUp
  ReportOfThisRepair
PROPERTIES
  ImplementsRepairBook
