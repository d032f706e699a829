------------------------------- MODULE MCOffice -------------------------------
(***************************************************************************)
(* One instance for TLC of the components that keep tables of their own    *)
(* and do not meet: a behaviour of MCSpec is one of a single component,    *)
(* chosen at the start among Parts; the variables of the others stay out   *)
(* of use.  The journal of Accounting is extended, the others are          *)
(* instances.                                                              *)
(***************************************************************************)
EXTENDS Accounting, TLC

CONSTANTS
  Parts,                                           \* components to choose from
  Threads, Nobody, None,
  Contacts, MaxFaults,                             \* Messaging
  Students, Teachers, Cards, Start, End, LateLimit, \* Attendance
  LastTime, MaxMeetings,
  Processes, PayYears, Current, Default,           \* TaxRules
  TaxForms, Slips, YearOf, Bases,
  y1, s1,
  Codes, Groups, DefaultGroup, DefaultChart,       \* Ledger
  OwnTypes, OwnAccounts, EntryForms, MaxVouchers, MaxToggles,
  cash, fees, own, assets, revenues,
  MonthLength, Terms, MaxContracts, MaxFacts,      \* Contracts
  MaxQuestions, MaxRows,                           \* Exams
  Names, MaxCheques,                               \* Treasury
  Other, Ports, Retries,                           \* Desktop
  MAX_ATTEMPTS, WINDOW_SECONDS, LOCK_SECONDS,      \* Login
  TicksPerSecond, LastTick, MaxOpened, MaxPasswords,
  Limit, Period, LastSecond,                       \* RateLimit
  m1, m2,                                          \* Access
  Modules, Roles, Screens, Rows, ActionGuard,
  Pids, MaxStarts,                                 \* Poller
  Extensions, Allowed, MaxFiles,                   \* Uploads
  Prefixes, Yearless, Years, MaxAttempts, MaxDocs, \* DocumentNumbers
  MaxTimeouts, MaxLosses

VARIABLES
  part,     \* the component of this behaviour
  alone,    \* no two requests have overlapped so far
  due, reminded, rows, got, inApp, lock, faults, excused,
  clock, meetings, sheet, device, cards,
  table, cache, slips, heard,
  groups, accounts, vouchers, toggles,
  contracts, facts, payslips, current, asked,
  bank, exam, paper, results, statuses, diplomas,
  fund, moves, cheques, categories, expenses, discount, enrolled, today,
  shell, held, owner,
  now, failures, until, active, password, opened, browsers, wrong, late, since, banned,
  user, grants,
  second, bucket, passed,
  pid, pc, file, others, starts,
  disk, named,
  counter, docs, year, wish, timeouts, saved, losses, gone, crossed

ASSUME PartsOK ==
  /\ Parts \subseteq
       {"journal", "messages", "roster", "tax", "ledger", "salaries", "exams",
        "treasury", "desktop", "login", "access", "traffic", "poller",
        "uploads", "numbers"}
  /\ Start < End /\ LateLimit > 0
  /\ Cardinality(Pids) > Cardinality(Threads)
  /\ Years # {} /\ Years \subseteq Nat \ {0}

(* There is a month; rates and amounts of a contract are whole numbers.    *)
ASSUME SalariesOK ==
  /\ MonthLength \in Seq(Nat) /\ MonthLength # <<>>
  /\ \A form \in Terms :
       {form.base, form.hour, form.meeting, form.percent, form.commission,
        form.insurance, form.tax} \subseteq Int

(* Accounts and items have the columns of models/accounting.py, with the   *)
(* types that the page of the chart offers.                                *)
AccountTypes == {"asset", "liability", "equity", "revenue", "expense"}
AccountRow == [group : Groups, type : AccountTypes, nature : {"debit", "credit"},
               active : BOOLEAN]
ItemRow == [account : Codes, debit : Int, credit : Int]

ASSUME LedgerOK ==
  /\ IsFiniteSet(Codes) /\ None \notin AccountRow
  /\ \A g \in DOMAIN DefaultGroup : DefaultGroup[g] \in AccountTypes
  /\ \A c \in DOMAIN DefaultChart : DefaultChart[c] \in AccountRow
  /\ OwnTypes \subseteq AccountTypes
  /\ OwnAccounts \subseteq
       [code : Codes, group : Groups, type : AccountTypes \cup {None},
        nature : {"debit", "credit", None}]
  /\ EntryForms \subseteq Seq(ItemRow)

(* Rules of the salary tax have the columns of models/system.py, in whole  *)
(* numbers; save_tax_rules() wants an exemption that is not negative and   *)
(* rates that are positive.  It does not look at the lower ends, which are *)
(* amounts and taken not to be negative here: below zero the code would    *)
(* tax more than there is.                                                 *)
BracketRow == [from : Nat, to : Int \cup {None}, rate : Nat]
RuleRow == [exemption : Nat, brackets : Seq(BracketRow)]

ASSUME TaxOK ==
  /\ Default \in RuleRow /\ TaxForms \subseteq RuleRow
  /\ Bases \subseteq Int

(* What a form of the roster may hold: present, late, absent, and times in *)
(* the wrong order.                                                        *)
Entries ==
  {[status |-> "present", arr |-> None, dep |-> None],
   [status |-> "absent", arr |-> None, dep |-> None],
   [status |-> "present", arr |-> 2, dep |-> 1]}

(* Rules of the salary tax: two brackets, with the upper ends left out or  *)
(* in the wrong order in the form.                                         *)
Bracket(from, to, rate) == [from |-> from, to |-> to, rate |-> rate]
CodeRule == [exemption |-> 2, brackets |-> <<Bracket(2, 3, 1), Bracket(3, None, 3)>>]
SmallTaxForms ==
  {[exemption |-> 1, brackets |-> <<Bracket(3, 9, 2), Bracket(1, None, 1)>>],
   [exemption |-> 2, brackets |-> <<Bracket(2, None, 1)>>]}
OneYear == [s \in {s1} |-> y1]

(* A small chart of accounts: cash and fees of the default chart, and one  *)
(* account of the user's own, from a form that leaves type and nature to   *)
(* the program and from one that makes it a payable kept on the debit side.*)
Account(group, type, nature) ==
  [group |-> group, type |-> type, nature |-> nature, active |-> TRUE]
SmallGroups == [g \in {assets, revenues} |-> IF g = assets THEN "asset" ELSE "revenue"]
SmallChart == [c \in {cash, fees} |->
  IF c = cash THEN Account(assets, "asset", "debit") ELSE Account(revenues, "revenue", "credit")]
OwnForms ==
  {[code |-> own, group |-> assets, type |-> None, nature |-> None],
   [code |-> own, group |-> assets, type |-> "liability", nature |-> "debit"]}

(* A fee received, one rounded by one, a payment from the own account, and *)
(* a draft that does not balance.                                          *)
Row(account, debit, credit) == [account |-> account, debit |-> debit, credit |-> credit]
SmallEntries ==
  {<<Row(cash, 5, 0), Row(fees, 0, 5)>>,
   <<Row(cash, 4, 0), Row(fees, 0, 5)>>,
   <<Row(own, 3, 0), Row(cash, 0, 3)>>,
   <<Row(cash, 5, 0), Row(fees, 0, 2)>>}

(* Contracts of a year of two short months: by the hour with a share of    *)
(* the tuition, by the meeting, and one that ends with the first month.    *)
ShortMonths == <<2, 1>>
Contract(kind, base, rate, last) ==
  [kind |-> kind, base |-> base, hour |-> rate, meeting |-> rate, percent |-> rate,
   commission |-> 1, insurance |-> 1, tax |-> 0, first |-> None, last |-> last]
SmallTerms ==
  {Contract("combined", 2, 1, None), Contract("session", 0, 2, None),
   Contract("fixed", 3, 0, 2)}

(* Questions: two options alike, and a gap among the options.              *)
Question(options, answer) ==
  [kind |-> "multiple_choice", options |-> options, answer |-> answer]
Asked ==
  {Question(<<"x", "y", "x", None>>, "c"), Question(<<"x", None, "z", None>>, "a"),
   [kind |-> "essay", options |-> <<None, None, None, None>>, answer |-> None]}
Weights == {[theory |-> 60, practical |-> 40, total |-> 1, pass |-> 1],
            [theory |-> 60, practical |-> 50, total |-> 1, pass |-> 1]}

(* A code for one use until the first day, and one from the second day     *)
(* whose limit is left at zero.                                            *)
Discount(most, first, last) == [most |-> most, first |-> first, last |-> last, used |-> 0]
DiscountForms == {Discount(1, None, 1), Discount(0, 2, None)}

(* Pages: one that shows, one that adds, one that deletes, one that edits, *)
(* each of the first module; one of the second module whose handler asks   *)
(* for the first; one of the administrator, one of everybody.              *)
Page(section, write, destructive, edit, ask) ==
  [section |-> section, write |-> write, destructive |-> destructive, edit |-> edit,
   second |-> ask]
SomePages ==
  {Page(m1, FALSE, FALSE, FALSE, None), Page(m1, TRUE, FALSE, FALSE, <<m1, "create">>),
   Page(m1, TRUE, TRUE, FALSE, <<m1, "delete">>), Page(m1, TRUE, FALSE, TRUE, None),
   Page(m1, FALSE, FALSE, FALSE, <<m1, "view">>),
   Page(m2, TRUE, FALSE, FALSE, <<m1, "create">>),
   Page("admin", TRUE, TRUE, FALSE, None), Page("free", TRUE, FALSE, TRUE, None)}
SomeRows == {{}, {<<m2, "create">>}} \cup
  {{<<m1, a>>, <<m2, b>>} : a \in {"view", "create", "edit", "delete"},
                            b \in {"view", "edit"}}

(* Bounds: requests in a behaviour of each component.                      *)
Most ==
  [messages |-> 2, roster |-> 2, tax |-> 3, salaries |-> 4, exams |-> 2, treasury |-> 3]

Messages == INSTANCE Messaging WITH Sessions <- Threads, MaxRequests <- Most["messages"]
Roster == INSTANCE Attendance WITH Sessions <- Threads, MaxRequests <- Most["roster"]
Tax == INSTANCE TaxRules WITH
  Sessions <- Threads, MaxRequests <- Most["tax"], Years <- PayYears, Forms <- TaxForms
Books == INSTANCE Ledger WITH
  entries <- vouchers, Forms <- EntryForms, MaxEntries <- MaxVouchers
Salaries == INSTANCE Contracts WITH
  Forms <- Terms, MaxRequests <- Most["salaries"]
School == INSTANCE Exams WITH
  Sessions <- Threads, Questions <- Asked, Papers <- Weights, Scores <- {-1, 2},
  MaxRequests <- Most["exams"]
Money == INSTANCE Treasury WITH
  Sessions <- Threads, Sums <- {1, 2}, Discounts <- DiscountForms, LastDay <- 2,
  MaxRequests <- Most["treasury"]
Window == INSTANCE Desktop WITH Shells <- Threads
Entrance == INSTANCE Login WITH Sessions <- Threads
Guard == INSTANCE Access WITH Sessions <- Threads, Pages <- Screens
Traffic == INSTANCE RateLimit WITH Sessions <- Threads
OneOfMany == INSTANCE Poller WITH Workers <- Threads
Files == INSTANCE Uploads WITH Sessions <- Threads
Numbers == INSTANCE DocumentNumbers WITH Users <- Threads

-----------------------------------------------------------------------------
(* The state of each component, and what stands for it while it is out of  *)
(* use.                                                                    *)
journal == <<entries, lines, periods>>
messaging == <<due, reminded, rows, got, inApp, lock, faults, excused>>
attendance == <<clock, meetings, sheet, device, cards>>
taxes == <<table, cache, slips, heard>>
books == <<groups, accounts, vouchers, toggles>>
salaries == <<contracts, facts, payslips, current, asked>>
exams == <<bank, exam, paper, results, statuses, diplomas>>
treasury == <<fund, moves, cheques, categories, expenses, discount, enrolled, today>>
desktop == <<shell, held, owner>>
login ==
  <<now, failures, until, active, password, opened, browsers, wrong, late, since, banned>>
access == <<user, grants>>
traffic == <<second, bucket, passed>>
poller == <<pid, pc, file, others, starts>>
uploads == <<disk, named>>
numbers == <<counter, docs, year, wish, timeouts, saved, losses, gone, crossed>>

JournalOff == entries = <<>> /\ lines = <<>> /\ periods = <<>>
MessagesOff ==
  /\ due = None /\ reminded = None /\ rows = None /\ got = None
  /\ inApp = None /\ lock = None /\ faults = None /\ excused = None
RosterOff ==
  clock = None /\ meetings = None /\ sheet = None /\ device = None /\ cards = None
TaxOff == table = None /\ cache = None /\ slips = None /\ heard = None
BooksOff == groups = None /\ accounts = None /\ vouchers = None /\ toggles = None
SalariesOff ==
  contracts = None /\ facts = None /\ payslips = None /\ current = None /\ asked = None
ExamsOff ==
  /\ bank = None /\ exam = None /\ paper = None /\ results = None
  /\ statuses = None /\ diplomas = None
TreasuryOff ==
  /\ fund = None /\ moves = None /\ cheques = None /\ categories = None /\ expenses = None
  /\ discount = None /\ enrolled = None /\ today = None
DesktopOff == shell = None /\ held = None /\ owner = None
LoginOff ==
  /\ now = None /\ failures = None /\ until = None /\ wrong = None /\ late = None
  /\ active = None /\ password = None /\ since = None /\ banned = None
  /\ opened = None /\ browsers = None
AccessOff == user = None /\ grants = None
TrafficOff == second = None /\ bucket = None /\ passed = None
PollerOff == pid = None /\ pc = None /\ file = None /\ others = None /\ starts = None
UploadsOff == disk = None /\ named = None
NumbersOff ==
  /\ counter = None /\ docs = None /\ year = None /\ wish = None /\ timeouts = None
  /\ saved = None /\ losses = None /\ gone = None /\ crossed = None

RequestsOff == req = [w \in Threads |-> Idle] /\ served = 0

MCInit ==
  /\ alone = TRUE
  /\ part \in Parts
  /\ IF part = "journal" THEN Init ELSE JournalOff
  /\ IF part = "messages" THEN Messages!Init ELSE MessagesOff
  /\ IF part = "roster" THEN Roster!Init ELSE RosterOff
  /\ IF part = "tax" THEN Tax!Init ELSE TaxOff
  /\ IF part = "ledger" THEN Books!Init /\ RequestsOff ELSE BooksOff
  /\ IF part = "salaries" THEN Salaries!Init /\ RequestsOff ELSE SalariesOff
  /\ IF part = "exams" THEN School!Init ELSE ExamsOff
  /\ IF part = "treasury" THEN Money!Init ELSE TreasuryOff
  /\ IF part = "desktop" THEN Window!Init /\ RequestsOff ELSE DesktopOff
  /\ IF part = "login" THEN Entrance!Init /\ served = 0 ELSE LoginOff
  /\ IF part = "access" THEN Guard!Init /\ served = 0 ELSE AccessOff
  /\ IF part = "traffic" THEN Traffic!Init /\ served = 0 ELSE TrafficOff
  /\ IF part = "poller" THEN OneOfMany!Init /\ RequestsOff ELSE PollerOff
  /\ IF part = "uploads" THEN Files!Init /\ served = 0 ELSE UploadsOff
  /\ IF part = "numbers" THEN Numbers!Init /\ served = 0 ELSE NumbersOff

(* Another actor changes a table while a request is in progress.           *)
Overlap(before, after) ==
  \E w \in Threads :
    req[w] # Idle /\ req'[w] = req[w] /\ (served' # served \/ before # after)

(* What component a behaviour does not have stays as it is.                *)
Others(name) ==
  /\ name # "journal" => UNCHANGED journal
  /\ name # "messages" => UNCHANGED messaging
  /\ name # "roster" => UNCHANGED attendance
  /\ name # "tax" => UNCHANGED taxes
  /\ name # "ledger" => UNCHANGED books
  /\ name # "salaries" => UNCHANGED salaries
  /\ name # "exams" => UNCHANGED exams
  /\ name # "treasury" => UNCHANGED treasury
  /\ name # "desktop" => UNCHANGED desktop
  /\ name # "login" => UNCHANGED login
  /\ name # "access" => UNCHANGED access
  /\ name # "traffic" => UNCHANGED traffic
  /\ name # "poller" => UNCHANGED poller
  /\ name # "uploads" => UNCHANGED uploads
  /\ name # "numbers" => UNCHANGED numbers

(* A step of the journal or of messages: nothing is said of overlaps.      *)
JournalStep == Next /\ UNCHANGED alone
MessagesStep == Messages!Next /\ UNCHANGED alone
RosterStep == Roster!Next /\ alone' = (alone /\ ~Overlap(sheet, sheet'))
TaxStep == Tax!Next /\ alone' = (alone /\ ~Overlap(<<table, slips>>, <<table, slips>>'))
BooksStep == Books!Next /\ UNCHANGED <<alone, req, served>>
SalariesStep == Salaries!Next /\ UNCHANGED <<alone, req, served>>
ExamsStep == School!Next /\ alone' = (alone /\ ~Overlap(diplomas, diplomas'))
TreasuryStep ==
  /\ Money!Next
  /\ alone' = (alone /\ ~Overlap(<<fund, categories>>, <<fund, categories>>'))
DesktopStep == Window!Next /\ UNCHANGED <<alone, req, served>>
LoginStep ==
  /\ Entrance!Next /\ UNCHANGED served
  /\ alone' = (alone /\ ~Overlap(<<active, password>>, <<active, password>>'))

(* Requests write nothing another one reads here: one at a time will do.   *)
AccessStep ==
  /\ Guard!Next /\ UNCHANGED <<alone, served>>
  /\ \E w \in Threads : \A v \in Threads \ {w} : req'[v] = Idle
TrafficStep == Traffic!Next /\ UNCHANGED <<alone, served>>
PollerStep ==
  /\ OneOfMany!Next /\ UNCHANGED <<req, served>>
  /\ alone' = (alone /\ Cardinality(OneOfMany!Booting') <= 1)
UploadsStep == Files!Next /\ UNCHANGED <<alone, served>>
NumbersStep == Numbers!Next /\ UNCHANGED <<alone, served>>

(* The bound is reached and nothing is in progress.                        *)
Rest ==
  /\ part \in DOMAIN Most => Most[part] = IF part = "salaries" THEN asked ELSE served
  /\ \A w \in DOMAIN req : req[w] \in {Idle, Messages!Idle}
  /\ UNCHANGED <<alone, req, served>>
  /\ Others("none")

MCNext ==
  /\ UNCHANGED part
  /\ \/ part = "journal" /\ JournalStep /\ Others("journal")
     \/ part = "messages" /\ MessagesStep /\ Others("messages")
     \/ part = "roster" /\ RosterStep /\ Others("roster")
     \/ part = "tax" /\ TaxStep /\ Others("tax")
     \/ part = "ledger" /\ BooksStep /\ Others("ledger")
     \/ part = "salaries" /\ SalariesStep /\ Others("salaries")
     \/ part = "exams" /\ ExamsStep /\ Others("exams")
     \/ part = "treasury" /\ TreasuryStep /\ Others("treasury")
     \/ part = "desktop" /\ DesktopStep /\ Others("desktop")
     \/ part = "login" /\ LoginStep /\ Others("login")
     \/ part = "access" /\ AccessStep /\ Others("access")
     \/ part = "traffic" /\ TrafficStep /\ Others("traffic")
     \/ part = "poller" /\ PollerStep /\ Others("poller")
     \/ part = "uploads" /\ UploadsStep /\ Others("uploads")
     \/ part = "numbers" /\ NumbersStep /\ Others("numbers")
     \/ Rest

mcvars ==
  <<part, alone, req, served, journal, messaging, attendance, taxes, books, salaries,
    exams, treasury, desktop, login, access, traffic, poller, uploads, numbers>>
MCSpec == MCInit /\ [][MCNext]_mcvars

Symmetry ==
  UNION {Permutations(Threads), Permutations(Contacts), Permutations(Processes)}

-----------------------------------------------------------------------------
(* Messaging: NoFalseSent and RemindedOnce of that module.                 *)
NoFalseSent == part = "messages" => Messages!NoFalseSent
RemindedOnce == part = "messages" => Messages!RemindedOnce

(* NoGaps of DocumentNumbers.                                              *)
NoGaps == part = "numbers" => Numbers!NoGaps

(* As long as no punch or other request came between the steps of a        *)
(* request: HoursFollowTimes of Attendance.                                *)
AloneHours == part = "roster" /\ alone => Roster!HoursFollowTimes

(* As long as no requests overlap: CalculatedByTheTable of TaxRules.       *)
AloneTax ==
  [][part = "tax" /\ alone' => \A w \in Threads : Tax!CalculatedByTheTable(w)]_mcvars

(* RuleFromTable of TaxRules, also after a restart.                        *)
RuleFromTable == part = "tax" => Tax!RuleFromTable

(* ReportsAgree and TrialBalances of Ledger.                               *)
ReportsAgree == part = "ledger" => Books!ReportsAgree
TrialBalances == part = "ledger" => Books!TrialBalances

(* MonthsAddUp of Contracts.                                               *)
MonthsAddUp == part = "salaries" => Salaries!MonthsAddUp

(* RightAnswerKept of Exams, and OneOfEach as long as no requests overlap. *)
ExamsHold ==
  part = "exams" => School!RightAnswerKept /\ (alone => School!OneOfEach)

(* NothingDangling of Treasury, and BooksOfTheBank as long as no requests  *)
(* overlap; SoundAttachments of Uploads.                                   *)
TreasuryHolds ==
  /\ part = "treasury" => Money!NothingDangling /\ (alone => Money!BooksOfTheBank)
  /\ part = "uploads" => Files!SoundAttachments

(* ReadyMeansBound and OneServer of Desktop; OnePoller of Poller as long   *)
(* as no boots overlap.                                                    *)
DesktopSound ==
  /\ part = "desktop" => Window!ReadyMeansBound /\ Window!OneServer
  /\ part = "poller" /\ alone => OneOfMany!OnePoller

(* What stands in front of the pages: FewAttempts and LockedForCause of    *)
(* Login, and its ShutOut and HonestPage as long as the user was not       *)
(* changed while a login was under way; WritersAreGranted of Access;       *)
(* NotFlooded of RateLimit.                                                *)
GuardKeepsItsRule ==
  /\ part = "login" =>
       /\ Entrance!FewAttempts /\ Entrance!LockedForCause
       /\ alone => Entrance!ShutOut /\ Entrance!HonestPage
  /\ part = "access" => Guard!WritersAreGranted
  /\ part = "traffic" => Traffic!NotFlooded
=============================================================================
