SPECIFICATION Spec
CONSTANTS
  till = till
  petty = petty
  sara = sara
  omar = omar
  loan = loan
  gift = gift
  purse = purse
  may = may
  r1 = r1
  r2 = r2
  Safes = {till, petty}
  Staff = {sara, omar}
  Advances = {loan, gift}
  Owner <- MCOwner
  AdvanceSize <- MCAdvanceSize
  Custodies = {purse}
  Worth <- MCWorth
  GivenFrom <- MCGivenFrom
  Excess = 1
  Periods = {may}
  Salary <- MCSalary
  Desks <- MCDesks
  Petty = petty
  Opening <- MCOpening
  MaxAdvances = 1
  Trusted = {gift}
  Shared = {}
  Reviewed = {}
  MaxSent = 6
  Requests = {r1, r2}
INVARIANTS
  TypeOK
  AdvanceAccounted
  SalaryPaidOnce
  PeriodFollowsSalaries
PROPERTIES
  ImplementsCustodyBook
