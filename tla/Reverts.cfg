SPECIFICATION Spec
CONSTANTS
  NaN = NaN
  None = None
  Companies = {c1}
  Sections <- MCSections
  VoucherShows <- MCSections
  MasterShows <- MCMasterShows
  BrokenCompanies = {}
  BlindCompanies = {}
  MaxDay = 0
  MAX_ATTEMPTS = 2
  DrainLimit = 1
  Budgets <- RevertsBudgets
INVARIANTS
  NoSilentStaleness
