SPECIFICATION MCSpec
CONSTANTS
  None = None
  Absent = Absent
  NaN = NaN
  Blank = Blank
  Refused = Refused
  name1 = name1
  name2 = name2
  amount1 = amount1
  amount2 = amount2
  OTHERS_PARTY = 0
  NO_NAME = 99
  TOP_PARTY_COUNT = 1
  CARD_PARTIES = 2
  MAX_PLAUSIBLE_AGE_DAYS = 100
  BUCKETS <- MCBuckets
  TOP = "top"
  CASH_GROUPS = {"Cash-in-Hand"}
  SALES_GROUPS = {"Sales Accounts"}
  STOCK_GROUPS = 5
  RENAMED_DEBTORS = "Trade Debtors"
  SPIKE_A_VARIANTS <- MCVariants
  DAYS_UNRESOLVED = 1
  DAYS_RESOLVED = 2
  Thrown = Thrown
  MANTISSA = 11
  FIELDS <- MCFields
  NoRoster = NoRoster
  Misspelt = Misspelt
  WORDS = 4
  PHRASE = 3
  VERIFY_WORD_POSITIONS <- MCPositions
  Guids <- MCGuids
  AlterIds <- MCAlterIds
  Tables <- MCTables
  Amounts <- MCAmounts
  BillLists <- MCBillLists
  Groups <- MCGroups
  Own <- MCOwn
  MyKey <- MCMyKey
  Keys <- MCKeys
  Typed <- MCTyped
  Rosters <- MCRosters
  Memories <- MCMemories
  Companies = {c1, c2}
  Installations <- MCInstallations
  Books <- MCBooks
  Mishaps <- MCMishaps
  MaxTrades = 2
  MaxDay = 3
CHECK_DEADLOCK FALSE
INVARIANTS
  GateAsksForWhatMoved
  AmountsNeverShift
  AgeingConserved
  GroupsCountedOnce
  StockRightWayRound
  CollapseNeverPublished
  SameFiguresSameHash
  RecoveryTellsTheTruth
