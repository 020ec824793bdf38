SPECIFICATION Spec
CONSTANTS
  NaN = NaN
  None = None
  Companies = {c1}
  Sections <- MCSections
  VoucherShows <- MCSections
  MasterShows <- MCMasterShows
  BrokenCompanies = {}
  BlindCompanies = {}
  MaxDay = 1
  MAX_ATTEMPTS = 2
  DrainLimit = 1
  Budgets <- SafetyBudgets
INVARIANTS
  NoSilentStaleness
  LocalDashboardFresh
  HashNeverAheadOfServer
PROPERTIES
  ServerNeverRollsBack
