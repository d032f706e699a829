SPECIFICATION MCSpec
CONSTANTS
  Sessions = {w0}
  LastDay = 2
  Sums = {1, 3}
  Tolerance = 1
  MaxEntries = 2
  MaxPeriods = 2
  MaxRequests = 5
  Parts = {"ledger"}
  Threads = {w1}
  Nobody = Nobody
  None = None
  Contacts = {c1, c2}
  MaxFaults = 1
  Students = {st1}
  Teachers = {t1}
  Cards = {card}
  Start = 0
  End = 1
  LateLimit = 1
  LastTime = 1
  MaxMeetings = 1
  Processes = {p1}
  PayYears = {y1}
  Current = y1
  Default <- CodeRule
  TaxForms <- SmallTaxForms
  Slips = {s1}
  YearOf <- OneYear
  Bases = {2, 5}
  y1 = y1
  s1 = s1
  Codes = {cash, fees, own}
  Groups = {assets, revenues}
  DefaultGroup <- SmallGroups
  DefaultChart <- SmallChart
  OwnTypes = {"asset"}
  OwnAccounts <- OwnForms
  EntryForms <- SmallEntries
  MaxVouchers = 2
  MaxToggles = 1
  cash = cash
  fees = fees
  own = own
  assets = assets
  revenues = revenues
  MonthLength <- ShortMonths
  Terms <- SmallTerms
  MaxContracts = 2
  MaxFacts = 2
  MaxQuestions = 1
  MaxRows = 2
  Names = {n1, n2}
  MaxCheques = 1
  Other = Other
  Ports = {1, 2}
  Retries = 1
  MAX_ATTEMPTS = 2
  WINDOW_SECONDS = 1
  LOCK_SECONDS = 2
  TicksPerSecond = 2
  LastTick = 5
  MaxOpened = 1
  MaxPasswords = 2
  Limit = 2
  Period = 2
  LastSecond = 6
  m1 = m1
  m2 = m2
  Modules = {m1, m2}
  Roles = {clerk}
  Screens <- SomePages
  Rows <- SomeRows
  ActionGuard = TRUE
  Pids = {11, 12, 13}
  MaxStarts = 4
  Extensions = {pdf, exe}
  Allowed = {pdf}
  MaxFiles = 2
  Prefixes = {PS, SPL}
  Yearless = {SPL}
  Years = {1, 2}
  MaxAttempts = 2
  MaxDocs = 2
  MaxTimeouts = 1
  MaxLosses = 1
INVARIANTS
  TrialBalances
