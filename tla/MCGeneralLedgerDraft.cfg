\* The balances are repaired while an entry is a draft.
SPECIFICATION JournalSpec
CONSTANTS
  loan = loan
  correction = correction
  desk = desk
  copy = copy
  van = van
  rent = rent
  ads = ads
  r1 = r1
  r2 = r2
  bank = bank
  debt = debt
  expense = expense
  accrued = accrued
  wear = wear
  deskWorn = deskWorn
  vanWorn = vanWorn
  desks = desks
  vans = vans
  sale = sale
  gain = gain
  loss = loss
  till = till
  capital = capital
  Accounts = {bank, debt, expense, accrued, wear, deskWorn, vanWorn, desks, vans, sale, gain, loss, till, capital}
  CreditNormal = {debt, gain, accrued, capital}
  Manual = {loan, correction}
  Lines <- PaidLines
  Assets = {}
  Accruals = {}
  Limit <- MCLimit
  Portion <- MCPortion
  Debit <- MCDebit
  Credit <- MCCredit
  Cost <- MCCost
  AssetAccount <- MCAssetAccount
  Proceeds = sale
  Gain = gain
  Loss = loss
  Prices = {2}
  Months = {1, 2}
  Shared = {}
  Flaky = {}
  Repaired = {bank, desks, vans}
  MaxSent = 3
  Clerks = {r1, r2}
SYMMETRY Alike
INVARIANTS
  EveryAccountAddsUp
