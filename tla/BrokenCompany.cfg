SPECIFICATION FairSpec
CONSTANTS
  NaN = NaN
  None = None
  Companies = {c1, c2}
  Sections <- OneSection
  VoucherShows <- OneSection
  MasterShows <- OneSection
  BrokenCompanies = {c2}
  BlindCompanies = {}
  MaxDay = 0
  MAX_ATTEMPTS = 2
  DrainLimit = 2
  Budgets <- QuietBudgets
PROPERTIES
  EveryRowIsFlushed
