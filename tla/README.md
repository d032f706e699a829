# Verification of the academy manager

TLA+ specifications of the academy-management application in `src/` (Flask,
SQLAlchemy, SQLite by default), the TLC configurations that check them, and theorems
that TLAPS checks.

The program runs as one desktop process or behind gunicorn with one or two workers of two
to four threads.  Almost every operation is an HTTP handler that loads rows, tests
conditions, assigns columns and commits.  Between handlers there is neither a queue nor a lock:
all they share is the database.  Beside them run a few threads and processes of their own: the
license client, the updater, the bot, the backup scheduler, the boot of several workers, the
desktop window.  Two things are hard to test in it: a handler decides on rows that another has
changed by the time it writes; and the background parts work against a server, a disk or a
process that fails half way.

## How a handler is modelled

`UnitOfWork` states the rules all handlers share (`src/extensions.py`, SQLAlchemy 2.0 over
the sqlite3 driver):

- A SELECT runs outside any transaction; the driver begins one at the first INSERT, UPDATE
  or DELETE.  Rows loaded before that are as old as the load, and a loaded object is not
  refreshed by a later query of the same session.
- The first write takes the database's one write lock and keeps it until commit or rollback.
- A flush writes the columns that were changed with respect to the loaded value, and writes
  the new value itself.  `Flush(row, loaded, edited)` is that rule: a stale value overwrites,
  an unchanged one does not.

A request of a session is a `Begin...` action (everything up to the first write: loads and
guards), possibly a step that takes a document number, and a `Commit...` action (everything
under the write lock).  Handlers whose first write comes before they read a row are one
action.  `Abort` ends a request at any point with a rollback: an error, a lock timeout
(`busy_timeout` is 10 s), a compare-and-set that lost, a stopped worker.  A request that a
guard refuses changes nothing and is not a step.  `Quiet`, or `Rest`, lets a behaviour rest when its
requests are used up, so that TLC's deadlock check stays on (it is off in one run, the bot,
which may be stopped for good).

An operator marked *Fault* is a plausible bug of the definition below it.  Next to each
property of a passing run, `PROJECT.json` names the fault that breaks it.

Many properties hold whatever overlaps; others, only as long as requests come one at a time,
which is how the handlers were tested.  One run checks both: the MC modules keep a history variable
`alone` that is true until two requests overlap (in `MCOffice`: until another request changes
the tables the property is about), and the second kind is stated under it, with a name that begins
with `Alone` or the words *as long as* in the comment.  What an overlap can do is listed under *Known races*.

## Inventory and modules

| component (source) | state | operations | hard behaviour | module |
|---|---|---|---|---|
| Unit of work (`extensions.py`) | loaded objects, write lock | load, flush, commit, rollback | stale objects | `UnitOfWork` |
| Payroll (`routes/payroll.py`, `routes/finance.py`, `utils/money_guard.py`) | payslips, cashboxes, transactions, log | calculate, create, edit, approve, pay, cancel, manual transaction, expense | a payment races an approval, an edit, a cancellation | `Payroll`, `PayslipLedger` |
| Contracts and monthly amounts (`routes/payroll.py`, `utils/jalali.py`) | contracts, recorded meetings and bonuses, payslips | add, edit, switch, calculate | which contract counts, where a month begins and ends | `Contracts` |
| Tuition payments (`utils/payments.py`, `routes/finance.py`, `registration.py`, `new_features.py`) | registrations, installments, payments, cashbox | first payment, plan, payments, late fee, cancel, restore; what else moves the cashbox | lost updates of running totals and of the balance, refunds, rounding | `Payments` |
| Treasury (`routes/finance.py`, `routes/settings.py`, `routes/payroll.py`) | bank, cheques, categories, expenses, discounts | move, cheque, category from two pages, expense, use of a discount | a row deleted or used up since it was looked at | `Treasury` |
| Uploads (`utils/uploads.py`) | files, rows that name them | stream, refuse, store, commit | an upload cut short | `Uploads` |
| Document numberer (`utils/document_numbers.py`) | one counter per kind and year, codes in use | next number, retries, fallback, delete, restore | two users, the new year, lock timeouts, documents that are gone | `DocumentNumbers` |
| Enrollment (`routes/registration.py`, `classes.py`, `features.py`, `final.py`, `students.py`, `utils/system_diagnostics.py`) | registrations, classes with a seat count, students | register, cancel, transfer, merge, split, close, edit, delete, withdraw, repair | counts stepped from stale values, the last seat, deletion under a registration | `Enrollment` |
| Accounting (`routes/accounting.py`, `models/accounting.py`) | entries with lines, fiscal periods | add, edit, confirm, approve, cancel; add, close, reopen a period | entries edited while confirmed, drafts entered while a period closes | `Accounting` |
| Chart of accounts and reports (same, `utils/chart_of_accounts.py`) | groups, accounts, entries | seed, add, switch; trial balance, profit and loss, ledger | three reports of one journal | `Ledger` |
| Tax (`routes/tax.py`, `utils/tax_rules.py`) | rules, a cache in each process, payslips | save, delete, calculate, restart | a cache older than the table | `TaxRules` |
| Attendance (`utils/attendance_service.py`, `routes/attendance.py`) | meetings, attendance of students and teachers, devices, credentials | generate, roster, punch, resolve a card | roster and card reader write the same rows | `Attendance` |
| Exams and certificates (`routes/exams.py`, `additional.py`, `features.py`) | questions, papers, results, certificates | add, generate with shuffled options, grade, appeal, issue, cancel | which option is right after a shuffle | `Exams` |
| Messaging (`utils/sms_service.py`, `routes/messaging.py`, `new_features.py`, `settings_panel.py`, `final.py`) | messages, reminders, what the gateway did | send from every page, remind, in-program reminders | lost answers, rows written after sending | `Messaging` |
| License client (`license_client.py`, `routes/license.py`) | key and cache files, verdict per process | refresh, activate, release, heartbeat, offline decision | late and lost answers, restarts, clock set back | `License` |
| Updater (`license_updater.py`) | program files, VERSION, saved copies | check, download, copy, roll back | a crash between two files | `Updater` |
| Bale bot (`utils/bot_services.py`, `routes/bot_panel.py`, `settings_panel.py`) | offset, generations of threads, queues, users, broadcast | start, stop, fetch, dispatch, handle, panel, broadcast | a message twice or never, overtaking, overlapping generations | `Bot` |
| Choice of the polling worker (`bootstrap/runtime.py`) | pid file | look, truncate, write | pids used again | `Poller` |
| Backup (`utils/backup_service.py`, `routes/backup_center.py`, `features.py`) | database, packages | create, schedule, prune, import, delete, restore | replacing the file under open connections, crashes half way | `Backup` |
| Bootstrap (`bootstrap/`, `utils/file_lock.py`, `installer_config.py`, `access_policy.py`, `routes/setup.py`, `permissions.py`) | lock file, schema, base rows, roles, users, config.ini | boot, seed, backfill, wizard, roles and users | two workers that start at once, a lock not taken, a file that cannot be read or written | `Startup` |
| Access policy (`utils/access_policy.py`, `routes/permissions.py`) | roles, permissions | guard of a request, edit a role or a user | two guards over one page, roles without a module | `Access` |
| Login (`utils/login_guard.py`, `routes/auth.py`, `permissions.py`) | failures, lock, session rows, browsers, passwords | login, logout, new password, deactivate, delete | the window's boundary, seconds rounded down, logins that overlap a change of the user | `Login` |
| Rate limit (`utils/rate_limit.py`, `bootstrap/middleware.py`) | stamps of one address and path | hit, remaining | the clock read before the lock | `RateLimit` |
| Desktop shell (`app_desktop.py`, `utils/desktop_support.py`) | window, port, server thread, lock of an instance | launch, pick a port, bind, wait, load, quit, kill | a port taken between probe and bind | `Desktop` |
| Records, courses, settings, tickets, surveys | single rows | forms | none: no rule relates rows | not modelled |
| Reports, dashboards, templates, logging, installers, demo data | - | read or print | none | not modelled |

Components meet through shared tables.  Payroll, tuition payments and expenses share the cashboxes (all write
`cashboxes.balance`): `Payroll` has the foreign movements `Expense` and `BeginManual` among its
actions; `Payments` has `Expense` and, for the manual transaction and the payslip that is paid or cancelled, `BeginMove` and
`CommitMove`, which write what they loaded plus the amount.  All documents share the numberer: `Payroll` takes its
numbers from a counter with its rules, `DocumentNumbers` has the steps.  A registration belongs to enrollment (its
class), payments (its fee) and the treasury (its discount).  The bot and the backup center write
no table of the others.  `Startup` has the pages of roles and users beside the boot.  `MCOffice` puts
fifteen components that do not meet into one instance: a behaviour chooses one of them and leaves
the variables of the others out of use.

### State and actions

**`Payroll`**.  `slips` is the table `payslips` (by number, one fixed period), `seq` the
counter row of kind `payslip`, `balance` the column `cashboxes.balance`.  `journal`, `flow` and `log` are
what can be read off `cashbox_transactions` and `activity_log`: sums per cashbox and per payslip,
and the number of approvals, payments and refunds.  `req` holds what each session has loaded.
`BeginCalculate` .. `CommitIssue` are `calculate()` and `create_payslip()`; `BeginEdit` .. `CommitCancel` the
handlers of the workflow, with `atomic_transition()` as the guard `CanTransition` of `CommitPay` and `CommitCancel`;
`KeyFree` is the partial unique index on person and period.
The calculation is for one teacher (the request for several repeats it in one transaction); the computed
amount is any member of `Amounts`, negative ones included.

**`PayslipLedger`**.  The abstract specification of payroll: each request is one step, money leaves a
cashbox once and comes back on cancellation, a person has one payslip.  `Payroll` implements it, with
`till <- balance`, as long as requests do not overlap (`AloneLedger`).

**`Contracts`**.  `Amounts` is `_compute_period_amounts()`: each kind of contract pays by its own rule for
what `Recorded` finds between the `Bounds` of the month; a month is an interval of days, and `MonthLength` gives
short ones.  `ActiveContract` is the choice by the newest start.

**`Payments`**.  `regs`, `insts`, `payments` are the tables, `till` the main cashbox, `journal` and `flow` sums of its
transactions.  `Settle` is `settle_cashbox()`, `RegAfter`, `InstAfter`, `Apply` are `apply_payment_to_targets()`;
`Eps` is its tolerance of one currency unit.  `BeginMove` and `CommitMove` are the handlers of other pages that load the same
cashbox without the write lock; `crossed` (`MCPayments`) says that the balance was written while one of them had it in hand.  Amounts are integers (the code has floats that hold
whole units).  `RoundDiv` is Python's `round`, half to even.

**`Treasury`**.  Bank account and movements, cheques, categories with the ids SQLite gives (the id of a
deleted last row is used again), expenses, one discount code, the day.

**`Uploads`**.  A file by its size in chunks and whether its first chunk is of its kind; `Refused` looks before each
write, `Refuse` removes what it can, `CommitExpense` names the file.

**`DocumentNumbers`**.  One kind of document: `counter` per year, `docs` the codes in use.  The classes that `split_class()` makes are a kind of
their own in the same column, whose codes and counter have no year: a prefix in `Yearless`.  `Read` .. `Again` are the turns
of the loop in `next_sequence_number()`, `Fallback` what follows the last one, `Commit...` the write and the
handler's INSERT.  The UNIQUE column turns a repeated code into `Fail`, whose rollback takes the counter
update back as well.  `Delete` is `classes.delete()`, which leaves the counter alone, `Backup` and `Restore` a copy of the database file and
its return (the connections of requests under way belong to `Backup`); `gone` remembers the numbers of documents that
are there no longer, `crossed` that one went while a request held a number.

**`Enrollment`**.  `regs`, `classes` (status, capacity, `current_count`), `students`, and `moved`, the classes that rows of
`class_transfers` name (such a class cannot be deleted: foreign key).  `folded` (`MCEnrollment`) says that a class with registrations was merged into
itself, which the page does not offer and the handler does not refuse.  `Recount` is the COUNT query followed by
the assignment to a loaded object.

**`Accounting`**.  `entries`, `periods` are the tables, by id; `lines` the sums of `journal_items`, and `debit`, `credit` of
a row what its columns say.  The guards look at the columns, the reports at the lines.  `add_entry()` is three
steps, because it commits twice.  Dates are days `1..LastDay`, a period an interval of them.

**`Ledger`**.  The chart of accounts as it is seeded, with own groups and accounts, and the three reports over the same
entries: `TrialBalance`, `Profit`, `LedgerBalance` compute what the pages print.

**`TaxRules`**.  `table` is `tax_rules`, `cache` the `_CACHE` of each process, `heard` which processes have handled the last
change.  `Boot` is an import of `routes/tax.py` before there is an application.  `Progressive` walks the brackets as
`_progressive()` does, and the property computes the tax from the definition instead.

**`Attendance`**.  `meetings` are class sessions, `sheet` the rows of attendance, `device` the card reader, `cards` the
credentials.  A roster is `BeginRoster`, `ReadUnlocked` (rows read before the first write) and `CommitRoster`; a punch is one
step, `device_punch`, with `resolve_person` before it.

**`Exams`**.  A question by its options (with gaps) and the letter of the key; `Generate` draws and shuffles;
grading looks for a row, then writes one.

**`Messaging`**.  One gateway whose answer may be lost; `Open` .. `Save` are the pages that send, `Flushes` the ones that take the write
lock before the first call.  `got` counts what a contact really received, `rows` what the program recorded.

**`License`**.  `server` is what the license server holds, `keyFile` and `cache` the two files, `verdict` the state
in memory.  Three callers (`refresh`, `form`, `heartbeat`) have an exchange each: it is begun, answered (`Answer`, external) and
applied later, in any order.  Time is told apart by what the code does with it: stale or not, within the
grace or not, the clock right or set back.

**`Updater`**.  A file is known by the version it comes from; `CopyFile`, `CopyFails`, `RollFile`, `WriteVersion` are the turns of
`_apply_plan()`.  A crash forgets the job and leaves the disk.

**`Bot`**.  `gen` is the generation of threads last started, `stop` those told to stop, `fetch`, `queue`, `worker` their
state; `sent` and `confirmed` are the server's.  `Take`, `Taken`, `Save` are the conversation with a chat (contact, forget me), which reads
its row before it writes it.  `cast` is a broadcast, whose counters are written every `FlushEvery` messages, if that commit
works; the last commit is not protected (`CastEndFails`), and the row then says *sending* for ever, `unsaved` in the model.

**`Poller`**.  The pid file of `_acquire_single_instance()`: looked at, emptied, written.

**`Backup`**.  A database is the set of commits in it, or torn; a package is written in place, so an
interrupted creation leaves a partial one.  `stale` says that the file was replaced or written over and that connections from before may be
open: they go on with the old file, or with a -wal that is unlinked, so that their commits are lost (`Commit`), or write it back over the
new file (`WriteBack`), until the process is started again.  `Listed` is the order of names that decides which packages go.

**`Startup`**.  `pc` follows the order of `_initialize_with_context()` and `create_default_data()`; `Acquire` and
`GoOnWithout` are the file lock and its time-out; a wizard request is two steps.  `ReadIniFails` is a config.ini that cannot be opened or parsed, which reads as
none; `InstallFails` also a password that cannot be wiped.  `missed` says what a worker went on without, of `Needed`.

**`Access`**.  `resolve_policy`, `check_access`, `role_guard`, `Decorated` are the layers a request passes, in order.

**`Login`**.  `Begin`, then `Wrong` and `register_failure`, or `Right` and `reset`: the user is loaded, the password checked, and only then is
the clock read and the failure counted, under the lock of `login_guard`.  Time is in ticks, several to a second, and `lock_remaining` rounds
to whole seconds as the code does; `late` is the longest from a clock to its count.  `opened` are the rows of `user_sessions`, `browsers` the
cookies, which alone let anybody in (`load_user`).  `banned` and `since` remember what an administrator did last.

**`RateLimit`**, **`Desktop`**: one worker's window of stamps; shells that pick a port, serve and wait, with `held` the ports taken.

**`MCPayroll`, `MCPayments`, `MCEnrollment`, `MCBot`, `MCServer`, `MCOffice`** are the instances for TLC; `MCServer` has the three components that run
and keep the program on its server, with a specification for each (`BootSpec`, `InstallSpec`, `StoreSpec`).
The theorems are in **`PayrollProofs`**, **`PaymentsProofs`**, **`EnrollmentProofs`**, **`BotProofs`**, **`ServerProofs`** (`Startup`, `Updater` and `Backup`), **`OfficeProofs`** (the components that `MCOffice` puts side by side, and the journal it
extends) and **`OfficeSums`** (those of them that add up: `Contracts`, `Ledger`, `TaxRules`); **`FiniteSums`** holds the laws of finite sums they share.

## Runs

| run | result | shows |
|---|---|---|
| `payroll_sessions` | holds | two sessions: an approval backs at most one payment; as long as requests do not overlap, `Payroll` implements `PayslipLedger`, and balances, transactions and payslips agree |
| `payments_sessions` | holds | two sessions, with manual transactions and salaries on the same cashbox: it keeps its floor, it agrees with its transactions unless a movement crossed another, cancellations and restorations alternate; without overlap totals, remaining fees, installments and cash agree and a plan covers what is owed |
| `numbers_users` | holds | two users, two prefixes of which one has no year, a lock timeout, the fallback, a new year, a deletion or restoration: everyone is served unless the fallback was taken or a document went while a request held a number |
| `enrollment_sessions` | holds | two sessions: no registration that is over becomes active again; without overlap counts, capacities and registrations agree, but for a class merged into itself |
| `license_device` | holds | a license ended for good locks the program in the end; one that stands opens it again and again |
| `updater_install` | holds | VERSION never promises more than the files hold, a roll back leaves no trace, an update on offer arrives |
| `bot_poller` | holds | a chat is served in order and once by a generation, no message is forgotten before a worker has it, every message is answered, every broadcast goes on to its last recipient and ends with all counted, unless its last commit fails |
| `backup_hourly` | holds | what was committed is in the database or in a whole package, commits through connections older than a restoration aside; quiet data are backed up in the end |
| `startup_boot` | holds | base data once under the lock, no factory password beside a chosen administrator whose config.ini could be read, the password in it wiped in the end, both workers serve again after crashes |
| `office` | holds | fifteen components, one in each behaviour; see below |
| `tax_restart` | violated | after a restart the rule in the code is used although the table has one |
| `ledger_switched` | violated | an account switched off leaves the trial balance unbalanced |

A violated run checks one property, a sentence of the code's own comments, quoted under
`findings` in `PROJECT.json`.

The properties of `office`:

- `PostedBalanced`, `ClosedHasNoDraft`, `ClosedFrozen`, `NeverDraftAgain` (`Accounting`): one request at a time, the steps
  of aborted ones included, posted entries balance, a closed period holds no draft and changes by cancellations
  only, and nothing returns to the drafts.
- `NoFalseSent`, `RemindedOnce` (`Messaging`): what is recorded as sent was accepted by the gateway, and an installment is
  reminded of once, but for lost answers, stops and overlapping runs.
- `AloneHours` (`Attendance`): the hours a teacher is paid for follow the times of the row, after rosters and punches in
  any order.
- `AloneTax` (`TaxRules`): the calculated tax is that of the rule in the table.
- `ReportsAgree` (`Ledger`): profit and loss, the trial balance and the ledgers tell the same of the active accounts.
- `MonthsAddUp` (`Contracts`): what is paid for the months of a year is what was recorded in it, each meeting and bonus
  once.
- `ExamsHold` (`Exams`): the key of a shuffled question names the right option; one result and one certificate of each.
- `TreasuryHolds` (`Treasury`, `Uploads`): however requests interleave, no expense names a category that is gone, a bounced cheque
  tells when, and a discount code is not used beyond its limit; bank balance and category names are right without overlap; an invoice that a row names is whole and of its kind.
- `DesktopSound` (`Desktop`, `Poller`): the window shows a server that is bound, one instance serves; where no boots overlap one
  worker polls and the file names it.
- `GuardKeepsItsRule` (`Login`, `Access`, `RateLimit`): within a lock's time, a second less, no more wrong passwords than the rule allows, but for those of
  other threads and counts that came late; a lock has its cause; whom an administrator switched off is out, and the page of active sessions shows no
  login that should be closed, where logins do not overlap administration; whoever writes was granted it; no period holds more calls than the limit, but for one of each
  other thread.
- `NoGaps` (`DocumentNumbers`): no number is skipped; one that no document has belonged to a document that was deleted or lost in a
  restoration, never to a request that failed.

### Bounds

- *Sessions* two threads in every run that has requests (the journal of `office` has one: its properties are of
  requests one at a time, and an aborted request is still interleaved with later ones).  The races found need two.
- *Requests* five or six in a behaviour, three or four where two have overlapped, two to four in `office` (`Most`).  The longest workflow
  that returns to its start is issue, approve, pay, cancel, recompute, and a sixth request moves the cashbox
  meanwhile; for payments register, plan, pay, late fee, cancel, restore; for enrollment a class filled by
  two, a transfer or a split, and a cancellation; for accounting add a period, add, confirm, close, and one more.
- *Data* one person and two payslips (the second shows a duplicate), one registration with a fee of 5 in two
  installments (odd, so that rounding matters, with `Eps` 1), three payments; two classes of capacity 1 or 2, two
  students and three registrations; two journal entries whose sides differ by nothing or by more than the tolerance, two days and
  periods; a chart of three accounts with one nature against its type; a year of two months of two days and one;
  questions with a repeated and with a missing option; a code for one use.
- *Cash* opens with less than two payslips cost, or with nothing, so that the balance guards refuse.
- *Numbers* two users with up to three documents each (two in `office`), a prefix with a year and one without, two years, two turns of the loop
  instead of six, one lock timeout and one deletion or restoration.  A lock timeout and a counter row that another made are enough to reach the fallback.
- *License* one key and one process.  The files are shared, and another process reaches the first only by them; with
  clocks, restarts and lost answers the state space is closed without a bound on steps.
- *Updater* two files, three versions (the second ships a VERSION file, the third deletes a file), two faults.
- *Bot* two chats with a worker each, two generations, two messages, four events of users, administrators and the
  operating system, failures of the last commit of a broadcast among them.
- *Backup* one commit, two packages kept, an interval of one hour, three events (commits, clicks, write-backs, crashes) besides the
  scheduler's own endless work: a commit, a restoration, and a crash inside it or a commit of a connection that outlived it.
- *Startup* two workers, two roles, two account names, three mishaps (crashes, a lock or a file that fails) or administrative clicks.
- *Login* two wrong passwords lock for two seconds, of two ticks each, the clock has five ticks; the window is one second, so that the
  stretch in which wrong passwords are counted, a lock less the second that is rounded away, is as long as the window, the shortest that the theorem allows.  *RateLimit* two calls in two seconds.  *Poller* three pids, four processes.

`MaxEntries`, `MaxPayments`, `MaxRegs` and the like bound the tables; a request that would exceed one can only abort.
Symmetry is used in runs without liveness only: sessions everywhere, students and classes in `Enrollment`, contacts
and processes in `MCOffice`.

### Fairness

- `DocumentNumbers`: weak fairness of each user's `Step`.  A request that a server thread has begun is carried on, and a
  user whose request failed repeats it.  A user may lose any number of races for a number, but each is
  another user's document, of which there are finitely many.
- `License`: time passes (`CacheAges`, `Age`); an exchange ends, because `_call()` has timeouts; a program in use calls
  `get_state()` at every request, which starts the refresh that is due (strong, since restarts and other verdicts can take the occasion away); of
  endless exchanges some are answered.  Nothing is fair about users, the vendor or the heartbeat.
- `Updater`: an installation that runs goes on; the startup worker of every start asks for an update, and of endless
  downloads one works.
- `Bot`: a live thread goes on; of endless calls to the server one succeeds (`SF` of `Fetch`).
- `Backup`: the scheduler runs every hour and ends what it began; not every creation fails.  Nothing is asked of the administrator.
- `Startup`: a worker that the system lets run goes on and gets the lock in the end, which it asks for twenty times a second; it serves
  its share of requests and is recycled (`max_requests`).  Nothing is fair about crashes.

The others claim no liveness: a handler has nothing that must happen after it.

## Proofs

The theorems hold for all values of the constants of their module (sessions, rows, amounts, bounds), under the `ASSUME`s of
that module and what is named here.  An invariant is proved the same way each time: the initial states have it, every action keeps it
(one lemma per action), it implies the property.  Two kinds of strengthening come back:

- *What a request has in hand.*  A handler loads, tests and commits in steps, so an invariant over tables alone is lost
  at the commit.  Each proof says of every request in flight what it may assume of what it loaded.
- *`alone`.*  Where handlers promise something only without overlap, the promise is `alone => ...`.  The invariant then says that at most
  one request is in flight and that what it loaded is what the tables hold (`Fresh`, `InHand`, `ByItself`, `UpToDate`): an
  overlap, which would break that, also ends `alone`.

**`PayrollProofs`**

- `TypeCorrect`, and `ApprovalBacksPaymentAlways`: `Spec => []ApprovalBacksPayment`.  By itself the property is not inductive: a request
  to issue a payslip that has been numbered could insert any row.  `ApprovalInv` adds `TypeOK` and `IssuesDraft`, that
  a request that will insert a payslip holds a draft.  A payment needs the status approved, by the compare-and-set, and moves it from
  the second summand on the left to the first.  That is why the compare-and-set is enough for *this*
  property although a payslip can be paid twice: the number of approvals is not bounded by one.
- `AlonePaidAlways` and `AloneLedgerAlways`: without overlap the books agree, and every step is a step of the abstract `PayslipLedger`
  or leaves its state alone (the refinement, step by step).  `AloneInv` is `TypeOK` and, alone, `Books` and `Fresh`.  `Books` adds to the property that a
  payslip that is paid names a cashbox, without which a cancellation has nowhere to pay back to.

**`PaymentsProofs`**: `TypeCorrect`, `TillSoundAlways`, `CancelsAlternateAlways`, with any overlap; `AloneAgreeAlways`, without.

- `settle_cashbox()` reads the cashbox under the write lock, and the status of a payment changes by a compare-and-set, so that
  these hold without `alone`; a manual transaction or a salary has the balance in hand instead, and the invariant says that it is the present one
  unless the balance was written since (`crossed`), and in any case covers what is taken from it.  The invariant adds `Fresh`, that a receipt number not given out yet has no row: a new payment would else
  overwrite one, and its place in the sequence of cancellations with it.
- `AloneAgreeAlways`: `AInv` says that one request is in flight (`OneRequest`), that the rows it loaded are those of the tables
  (`Current`), and `TablesAgree`: besides what the property says, only a cancelled payment is refunded, and what has payments or
  installments is open.  The amount a handler steps is a sum over *all* receipts, in which what is not confirmed counts
  nothing (`Shares`); a step changes one term of it.  A plan adds up because its last part takes what rounding the others left over
  (`PlanSum`), however many parts there are.

**`EnrollmentProofs`**

- `TypeCorrect`, `NeverReactivatedAlways`, with any overlap, from `Sound`: what a request holds are rows of the tables, and
  no registration names an absent class.
- `AloneSeatsAlways`: without overlap every class counts its active registrations after each handler, and adding and transferring
  respect capacity.  The proof is about sets and their cardinalities: a registration that comes or goes
  changes one set by one member, a merge unites two disjoint ones.

**`BotProofs`**: `TypeCorrect`, `InOrderOnceAlways`, `NothingLostAlways`.

- `Orderly` says of each generation that what is in the batch is newer than what is on the queues, the queue of a worker
  is increasing and holds its own chats only, and all of it is newer than what was handled last.  A message is handled by the worker its
  chat belongs to, from the head of an increasing queue: hence in order and once.
- `NothingSkipped`: an offset passes only messages that are handled, thrown away or held by some generation.  Only with it does
  asking the server for the next (which confirms all before) lose nothing.  `Unborn` says that generations to come have no threads.

**`ServerProofs`**.  The components of `MCServer`.  Of `Startup`: `TypeCorrect`, `SeededOnceAlways`, `OperatorsAdminAlways`.

- `Exclusive`: as long as nobody went on without the lock, who is between lock and release holds it.  `OperatorsAdmin` also asks that no boot went on
  without a config.ini that it could read.  `StillEmpty` and `InstallerOK` are
  what the lock protects: the answer of a look at a table, or at the installer file, still holds when it is
  used.  A worker killed anywhere in between releases the lock, and the next one looks again.

Of `Updater`, under `PackagesOK` (versions count from 1, a manifest names program files only): `InstallTypeCorrect`, `StampNotAheadAlways`, `RollbackRestoresAlways`.

- `DiskTracked` says what an installation under way has made of the disk: what is not in its plan is as it found it, what it has
  copied is what the package brings, what it has put back is what was there before, as long as every copy of the roll back worked.
  With nothing left to put back the disk is the old one.
- `StampGuarded` says that what VERSION promises held of the disk when the installation began.  A crash leaves files of before, of the new
  version, absent or torn (`SoundHalfWay`): none is older than a VERSION that was not touched and is not newer than the package.  The two
  conditions are those of `Blur`.

Of `Backup`, under `StoreOK` (one package at least is kept; a whole database is no torn one): `StoreTypeCorrect`, `NoCommitLostAlways`.

- `Covered` relies on *safety* packages alone: any other may be pruned, at any time, by either set of pages.  While the
  database is written over, everything committed is elsewhere; while the safety package is still being
  written, nothing but that package and what is elsewhere is relied upon.  `OwnOK` says that a package with a writer is not whole yet, so that
  removing it after an error loses nothing; `RestorerOK`, that the scheduler never restores and that a restoration begins with a database that
  can be read.
- `CountedOff` and `WithoutIs` say what a folder is from which some packages were removed: the others, in their order.

**`OfficeProofs`**.  A behaviour of `MCSpec` is one of a single component; each has its invariant where it was chosen.  Threads,
contacts, students, cards, ports, pids, files and bounds are arbitrary; what `MCOffice` itself fixes (questions, forms of the roster, amounts of the bank) stays as it is there.

- `NoFalseSentAlways`, `RemindedOnceAlways` (finitely many threads): of a row that says "sent", `Backed` counts besides the rows
  of the table those that pages in flight will still write.  `Once` says that whoever the gateway has reminded is marked,
  or in the hands of the one page of reminders.
- `DesktopSoundAlways` (finitely many threads; `Nobody` and `Other` are no shells, `Nobody` no pid).  `Fits` says of a shell what its main
  thread may conclude from the event of its server thread; `LeastPort` that the first free port is one.  For the workers: `Named`, that
  nobody polls while another is about to write the pid file.
- `TreasuryHoldsAlways` (`None` is no number and no row; the limit of an upload a natural number).  `InHand` says that the balance a movement will write is the
  one it loaded plus its amount, a cheque that bounces has a date to write, a name that was free still is.
  `BooksOfTheBank` is stated as a chain, each movement from the balance the one before it left: the same as a sum, without a recursion.
- `SoundAttachmentsAlways`, one half of it, for `Uploads` by itself: what a row names was looked at from the first chunk
  to the last, so the invariant says of every *open* request that what it has written so far is genuine and within the limit, and `Apart`, that
  no two requests write to one file, and none to a file that a row names.
- `AloneHoursAlways`: a row is written whole from its times, and a roster that read its rows writes them over what it read.
- `ExamsHoldAlways` (finitely many students; `None` is no text): shuffling is a bijection on the options that are filled, so that the position of the
  right text is among those looked through and the key can be found again (`ShuffledKeeps`); alone, a student without a
  result when grading began still has none when it ends.
- `GuardKeepsItsRuleAlways` (finitely many threads, at least one attempt, a lock at most a second longer than the window, any number of ticks to a second, a
  natural limit of calls, no module called `admin`), each of its parts by an invariant of its own:
  - `AttemptsInv`.  Of every stretch of time no longer than a lock, less the second that is rounded away and less `late`: the list still counts every
    wrong password in it (`Remembered`), or a lock covers it, and those in it and those of the threads that had passed the look at the lock are
    no more than the rule allows and the other threads (`ShutFor`), or it is over and only threads that have read their clock can add to it
    (`BehindUs`).  The list that is cleared at the lock and thinned from the left is the end of the history, nearly in order (`Counts`).
  - `LoginInv` (`ShutOutAlways`): alone, what a login checked is what the table says when it opens the session (`UpToDate`), so that the last word of an
    administrator is still in the row (`WordKept`).  That nobody who is switched off is let in then follows from `load_user`.
  - `AccessInv` (`WritersAreGrantedAlways`): `Guarded` says that an admitted request carries the rows by which it was admitted, and that the
    second check, made with those rows, still holds when it is handled, whatever an administrator has changed in between.
  - `TrafficInv`.  Of every stretch of one period: either all calls that were let through in it are in the bucket, or the stretch is over
    and only threads that read the clock in it can add to it, one less than all, since whoever dropped a stamp of it had
    read a later time.  That stamps in the bucket are out of order by such threads does no harm: `FirstFrom` is where
    `popleft()` stops, not what a filter would leave.
- `NoGapsAlways`: the numbers given, to documents that are there or are gone, are those up to some *h*, no counter is past *h* + 1, in the table or in the backup, and no request in its commit holds a number
  past it (`BelowNext`).  All three are old knowledge by the time they are used, which does no harm since *h* only grows: a number up to *h*
  is taken, goes to another year or prefix, or is given again, *h* + 1 is the next.  It holds for any number of prefixes and years.

The journal of `MCOffice` is `Accounting` itself; these are theorems of its `Spec`:

- `JournalTypeCorrect`.  The one fact about data is that `for_date()` returns a period or none: a nonempty set of ids has a least
  member (`LeastOf`, by well-founded induction from the library).
- `NeverDraftAgainAlways`: `Spec => NeverDraftAgain`, from `TypeOK` alone.  The point is the unit of work: `edit_entry()` holds an entry
  it loaded as a draft, and its flush leaves the status of the table, because the handler did not change it.
  With a flush of all columns an edit would bring a confirmed entry back to the drafts.
- `PostedBalancedAlone`, `ClosedHasNoDraftAlone`, `ClosedFrozenAlone`, for one session (`\A v, w \in Sessions : v = w`; with two they fail,
  see the races).  The guards look at the sums of the *entry* and at the period found by *date*, the properties speak of its *lines* and
  of the period it *names*: `EntryOK` says that the sums are those of the lines, and that a draft belongs to the period of its day or to none.

**`OfficeSums`**: `MonthsAddUpAlways`, `ReportsAgreeAlways`, `AloneTaxAlways`, for any contracts and year, chart and entries, rules and payslips.

- `MonthsAddUpAlways` (`SalariesOK`: there is a month; rates are whole numbers).  `SalariesInv` says that a payslip counted as up to date
  has the net amount that the contract in force gives for its month.  The contract in force is the newest active one whatever the month (`OneContract`),
  and the `Bounds` of the months divide the days of the year, so that the sums of the months are the sum of the year (`SumPeriods`).
- `ReportsAgreeAlways` (`LedgerOK`: finitely many accounts, of the five types the chart offers, `routes/accounting.py:148`; debits and credits are
  whole numbers).  `LedgerInv` says that every line is on an account there is, and that posted entries balance.  The
  reports add up one table, by account or by entry (`SumSwap`); what is left between them is the tolerance of each posted entry.  That nature and type of an
  account may disagree does no harm: the ledger's sign comes from the nature, and the property takes it back.
- `AloneTaxAlways` (`TaxOK`: amounts and rates are whole numbers; the exemption is not negative, `routes/tax.py:382`, and the rates are positive,
  `utils/tax_rules.py:121`).  `TaxOK` also takes the lower ends of brackets as not negative, which the page does *not* look at: of a bracket from below zero
  the code would tax more than there is.  `TaxInv` says, alone, that a process that heard of the last change has the table's rule or none in
  its cache (`Knows`), and what each request holds in each of its steps.  That the code adds up slices of brackets and the property steps of the amount
  is one table added up by rows and by columns (`ProgressiveIsLegal`); `normalize_brackets()` needs a sorted
  order, which exists for any list (`SortingExists`).

**`FiniteSums`**.  The library's sum is a recursion of its own over the subsets of a set.  It has one value whatever term is taken first (`AddsExists`,
`AddsUnique`), from which the laws follow: one term more or changed, disjoint sets, rows and columns, consecutive periods.  Induction is over
*sets* (`SubsetInduction`, `NatSetInduction`: a nonempty set of numbers has a least one), because the library's theorems take a predicate as
a parameter, which the provers cannot give them.

Only model-checked are:

- liveness, under whatever fairness, which is beyond the prover, as is `ENABLED`: `ServedWithoutFallback`, `ClosesForGood`, `ComesBack`, `UpdateArrives`,
  `EveryAnswered`, `CastFinishes`, `BackedUp`, `PasswordSpent`, `WorkersServe`.  All safety properties of the passing runs are theorems;
- the two violated properties, `RuleFromTable` and `TrialBalances`, of which there is nothing to prove.

## Known races

What overlapping requests, crashes and lost answers do in the model and in the code, against
the intent of the code; none of it is promised otherwise in so many words, so that it is no finding.

**Payroll.**  Pay, cancel and the manual transaction write the balance from a stale read, over whatever moved the cashbox meanwhile, payments of students
too: the balance then no longer is what its transactions add up to (`routes/payroll.py:747`, `routes/finance.py:312`).  Two issues of one payslip pass the
check; the partial index stops the second, unless the first was cancelled.  An approval in flight over a payment makes
the payslip payable again, so it can be paid twice (`routes/payroll.py:684`).  A cancellation that loaded an approved payslip
before it was paid returns nothing; one in flight over another cancellation and a recalculation refunds twice.  An edit in
flight changes the amount of an approved payslip.  A recalculation to a negative net overlapping a payment that is then
cancelled leaves a negative balance.

**Contracts.**  `toggle_contract` can make two active contracts of one person (against `routes/payroll.py:250`); the newest contract, though
expired, hides an older valid one.  Meetings by session rate go to the class's current teacher.  Facts recorded
after a payslip was paid are never paid.  A contract that starts in mid-month pays the whole month.

**Payments.**  Two payments from one loaded total: one is lost (`utils/payments.py:108`).  A late fee raised under a payment; the
refunded amount read before the compare-and-set.  Two plans for one registration.

**Treasury.**  The bank balance has lost updates.  Two categories of one name when added at once; an expense in flight enters
a category switched off, or one that has got the id of a deleted one.  Discount uses of cancelled registrations are
not given back, and a limit of 0 means none.  Cheques go from any status to any and never move the bank balance; a stale
page that sets the loaded status again only writes the date.

**Uploads.**  A refused file stays when it cannot be removed; an expense refused for lack of cash, or a crash, leaves a file
that no row names.

**Numbers.**  A fallback number leaves the counter behind, after which requests fail until it is repaired by
hand.  With two prefixes on one counter, or a document deleted while a request holds its number, a stale
write is not refused and sets the counter back, after which the numbers that follow are given again or refused.  A restoration that brings back an older
counter gives the numbers of lost documents again.  Across the new year the counter of
the new year can be set back by a session that holds the old label.

**Enrollment.**  Two registrations take the last seat (`routes/registration.py:63`); two active registrations of one course, by
a race or by `multi_register`; counts stepped from stale values.  A class merged into itself is closed with its registrations in it and counts
none.  A registration and the deletion of its class: the foreign key refuses the second, with an error page.

**Accounting.**  An edit between the two commits of a creation, or of a draft confirmed meanwhile, leaves a posted entry
unbalanced (`routes/accounting.py:365`, `420`); the second commit confirms an entry that was cancelled since the first; a draft enters a
period that closes; two periods added at once overlap.  Each posted entry may be off by the tolerance, so the
trial balance page can say that the books do not balance.

**Tax.**  The cache is stale in the other worker, and when `get_rule()` runs between the clearing and the commit.  An
inactive row is used all the same.  `auto_calculate` changes the net of approved payslips, and of payslips paid meanwhile.

**Attendance.**  A roster over a punch leaves hours that do not belong to the times; a punch out gives hours to an
absent teacher.  Two generations make the meetings twice.  A card's uid that equals another person's code wins.

**Exams.**  Two grade requests at once insert two results.  A gap in the options leaves an option twice after the shuffle; a
key that is not among the options becomes none.  `issue_legacy` issues for cancelled registrations.

**Messaging.**  A message sent and not recorded (a crash, a lock not free in time) is sent again, so is one whose answer was
lost.  Two overlapping reminder runs send twice.  The write lock is held over the gateway calls, up to 20 seconds each,
while others wait 10.  The trigger pages record *sent* whatever the answer.  The in-program page marks
`reminder_sent`, so that no SMS goes out.

**License.**  A refresh that loaded the key before a release activates the seat again; the release of an old key clears one
activated meanwhile.  A failed activation shows the program locked although the old key stands.

**Updater.**  A return to an older version, or a package with a VERSION file of its own, that is interrupted
leaves a mix for ever (`blurred` in the model).  Two processes install at once.  An unreadable VERSION counts as 1.0.1.  That a mix of old and
new files still starts is assumed.

**Bot.**  While two generations overlap, up to half a minute after a token change, a message can be handled twice.  What a
worker has in its queue at a stop or crash is thrown away, though already confirmed.  Two chats that send one phone at once both get it.  A
broadcast's row stays *sending* after a crash, or when its last commit fails (`routes/bot_panel.py:240`).  An error of the
server whose answer is JSON but no object ends the fetch thread (`utils/bot_services.py:96`); it is left out.

**Poller.**  Two workers poll when their boots overlap.  A worker that starts with the pid of its predecessor, as
in a container, or a file whose pid another program has by now, never polls.  The start button of the panel ignores the file.  A file that does not hold a number, or cannot be
written, is left as it is and its reader polls (`bootstrap/runtime.py:113`); the model has files that can be read and written.

**Backup.**  Names are sorted by kind first, so imported and partial packages can displace good ones, and a file imported long
ago makes every hourly run back up.  Commits during a restoration are lost, and so are those of requests and workers whose connection was
open across it, until the process is started again; such a connection can also write pages of the old database over the new one; a failed copy leaves a torn database, which
cannot be restored from within the program.  The older page prunes its new package first when `max_backups` others exist,
overwrites `db.before_restore` and leaves the -wal file behind.

**Startup.**  A crash between the commit of roles and that of their permissions leaves them without for ever.  The backfill
of every boot brings back an action an administrator removed, and a stale read of it a module removed meanwhile.
Without the lock the settings row is inserted twice, and the factory administrator can appear beside the chosen
one.  `edit_user` can remove the last administrator.  A config.ini that cannot be opened or parsed at the first boot, or a password with a
percent sign (which `configparser` refuses, `utils/installer_config.py:81`), brings the factory administrator although the installer named one, and such a password
is never wiped.

**Access.**  *Edit* stands in for create and delete, so a role without delete deletes, which the docstring
(`utils/access_policy.py:14`) reads otherwise.

**Login.**  Up to one wrong password per other thread after the lock, and a lock that ends up to a second early (`utils/login_guard.py:52`); failures are counted per process and gone at
a restart.  A login that loaded the user before a deactivation still opens a session row, and with `is_active`
unset writes it back to active.  Logout closes the newest open row, whoever's browser made it; a changed own
password closes none.  No row of `user_sessions` is read by `load_user`: after `reset_password()`, or a new password in `edit_user()`, the rows are closed and the
browsers of the user stay in (`routes/permissions.py:219`).

**Desktop.**  A port taken between probe and bind shows another program in the window.  A server still starting
at quit runs until the process ends.

## Not modelled

- Forms over single rows (records of students and teachers, courses, settings, tickets, library, surveys), lists,
  reports, dashboards and printing: no rule relates their rows to each other.
- The waiting list, keyboards and texts of the bot and its statistics, delivery of packages to the bot, the
  table from paths to modules and from endpoints to features.
- The activity log beyond the counts used in properties, and `log_activity()`'s rollback when a row cannot be built.
- The mode in which an update is announced and left to the user (`license_updater.py:536`), and the switch that turns automatic updates off; a clock set back by less than the 300 seconds
  of tolerance (`license_client.py:948`), which the client does not notice; in `Login` a clock set back.
- In `Startup` reads and writes of config.ini fail a bounded number of times (`MaxEvents`): a file that never can be read or written is under *Known races*.
- Templates, static files, installers, deployment, demo data, the splash screen and tray of the desktop shell.
- PostgreSQL and MySQL, which the configuration also allows: reads are then inside a transaction; the races remain,
  since no handler locks what it reads.

## Plan

1. An abstract specification of the bot (a message is handled once or thrown away at a stop) and of the
   backup (a store of commits), and their refinements.
2. Two processes in `License` and `Updater`, and type correctness of `License`, all of whose properties are liveness.
3. The contents that `MCOffice` still fixes (questions, forms of the roster) as constants.
