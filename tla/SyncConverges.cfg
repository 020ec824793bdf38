SPECIFICATION FairSpec
CONSTANTS
  NaN = NaN
  None = None
  Companies = {c1, c2}
  Sections <- MCSections
  VoucherShows <- MCSections
  MasterShows <- MCMasterShows
  BrokenCompanies = {}
  BlindCompanies = {}
  MaxDay = 0
  MAX_ATTEMPTS = 2
  DrainLimit = 2
  Budgets <- TogetherBudgets
PROPERTIES
  EventuallyMirrored
