------------------------------- MODULE Ledger --------------------------------
(***************************************************************************)
(* The chart of accounts and the reports drawn from the journal            *)
(* (routes/accounting.py, utils/chart_of_accounts.py): trial balance,      *)
(* profit and loss, the ledger of one account.  Accounting models the      *)
(* states of entries, their fiscal periods and the requests that overlap;  *)
(* here entries have their rows and requests are served one at a time.     *)
(***************************************************************************)
EXTENDS Integers, Sequences, FiniteSetsExt, Functions

CONSTANTS
  Codes,         \* codes of accounts
  Groups,        \* codes of account groups
  None,          \* a code nobody uses yet
  DefaultGroup,  \* DEFAULT_CHART: the type of its groups
  DefaultChart,  \* DEFAULT_CHART: its accounts
  OwnTypes,      \* types of the groups an administrator may add
  OwnAccounts,   \* accounts an administrator may add
  Days,          \* days of entries
  Forms,         \* rows a user may enter for an entry
  Tolerance,     \* _TOLERANCE
  MaxEntries,    \* bound: rows of journal_entries
  MaxToggles     \* bound: accounts switched on or off

VARIABLES
  groups,     \* table account_groups: the type of each group
  accounts,   \* table accounts: group, type, nature, active
  entries,    \* tables journal_entries and journal_items
  toggles     \* number of switches so far

vars == <<groups, accounts, entries, toggles>>

(* Fault: the reports count drafts.                                        *)
PostedOrDraft == {"draft", "confirmed", "approved"}

Posted == {"confirmed", "approved"}

Init ==
  /\ groups = [g \in Groups |-> None]
  /\ accounts = [c \in Codes |-> None]
  /\ entries = <<>>
  /\ toggles = 0

-----------------------------------------------------------------------------
(* The chart.                                                              *)

(* seed_default_chart(): what is there already is left alone.              *)
SeedChart ==
  /\ groups' = [g \in Groups |->
       IF g \in DOMAIN DefaultGroup /\ groups[g] = None THEN DefaultGroup[g] ELSE groups[g]]
  /\ accounts' = [c \in Codes |->
       IF c \in DOMAIN DefaultChart /\ accounts[c] = None THEN DefaultChart[c] ELSE accounts[c]]
  /\ UNCHANGED <<entries, toggles>>

AddGroup(g, type) ==
  /\ groups[g] = None
  /\ groups' = [groups EXCEPT ![g] = type]
  /\ UNCHANGED <<accounts, entries, toggles>>

(* The type is the form's or else the group's, the nature the form's or    *)
(* else that of the type.                                                  *)
AddAccount(form) ==
  LET c == form.code
      type == IF form.type = None THEN groups[form.group] ELSE form.type
      nature == IF form.nature # None THEN form.nature
                ELSE IF type \in {"asset", "expense"} THEN "debit" ELSE "credit"
  IN
  /\ accounts[c] = None
  /\ groups[form.group] # None
  /\ accounts' = [accounts EXCEPT ![c] =
       [group |-> form.group, type |-> type, nature |-> nature, active |-> TRUE]]
  /\ UNCHANGED <<groups, entries, toggles>>

(* An account in use is switched off all the same, with a warning.         *)
ToggleAccount(c) ==
  /\ accounts[c] # None
  /\ toggles < MaxToggles
  /\ accounts' = [accounts EXCEPT ![c].active = ~@]
  /\ toggles' = toggles + 1
  /\ UNCHANGED <<groups, entries>>

-----------------------------------------------------------------------------
(* Entries.                                                                *)

Side(items, side) == SumFunction([i \in DOMAIN items |-> items[i][side]])

Abs(n) == IF n < 0 THEN -n ELSE n

Balanced(items) == Abs(Side(items, "debit") - Side(items, "credit")) <= Tolerance

(* _parse_items(): at least two rows, each on an account of the chart,     *)
(* active or not, with an amount on one side.                              *)
WellFormed(items) ==
  /\ Len(items) >= 2
  /\ \A i \in DOMAIN items :
       /\ accounts[items[i].account] # None
       /\ (items[i].debit = 0) # (items[i].credit = 0)

AddEntry(day, items, confirmNow) ==
  /\ Len(entries) < MaxEntries
  /\ WellFormed(items)
  /\ confirmNow => Balanced(items)
  /\ entries' = Append(entries,
       [day |-> day, items |-> items, status |-> IF confirmNow THEN "confirmed" ELSE "draft"])
  /\ UNCHANGED <<groups, accounts, toggles>>

EditEntry(e, day, items) ==
  /\ entries[e].status = "draft"
  /\ WellFormed(items)
  /\ entries' = [entries EXCEPT ![e].day = day, ![e].items = items]
  /\ UNCHANGED <<groups, accounts, toggles>>

(* confirm_entry() and approve_entry().                                    *)
PostEntry(e, status) ==
  /\ entries[e].status \in IF status = "confirmed" THEN {"draft"} ELSE {"draft", "confirmed"}
  /\ Balanced(entries[e].items)
  /\ entries' = [entries EXCEPT ![e].status = status]
  /\ UNCHANGED <<groups, accounts, toggles>>

CancelEntry(e) ==
  /\ entries[e].status # "cancelled"
  /\ entries' = [entries EXCEPT ![e].status = "cancelled"]
  /\ UNCHANGED <<groups, accounts, toggles>>

Next ==
  \/ SeedChart
  \/ \E g \in Groups, type \in OwnTypes : AddGroup(g, type)
  \/ \E form \in OwnAccounts : AddAccount(form)
  \/ \E c \in Codes : ToggleAccount(c)
  \/ \E day \in Days, items \in Forms, confirmNow \in BOOLEAN :
       AddEntry(day, items, confirmNow)
  \/ \E e \in DOMAIN entries, day \in Days, items \in Forms : EditEntry(e, day, items)
  \/ \E e \in DOMAIN entries, status \in Posted : PostEntry(e, status)
  \/ \E e \in DOMAIN entries : CancelEntry(e)

Spec == Init /\ [][Next]_vars

-----------------------------------------------------------------------------
(* Reports of the days from..to.                                           *)

Counted(from, to) ==
  {e \in DOMAIN entries : entries[e].status \in Posted /\ entries[e].day \in from..to}

(* _account_totals(): one side of an account.                              *)
AccountTotal(c, side, from, to) ==
  LET Of(items) ==
        SumFunction([i \in {k \in DOMAIN items : items[k].account = c} |-> items[i][side]])
  IN SumFunction([e \in Counted(from, to) |-> Of(entries[e].items)])

Net(c, from, to) == AccountTotal(c, "debit", from, to) - AccountTotal(c, "credit", from, to)

Listed(types) ==
  {c \in Codes : accounts[c] # None /\ accounts[c].active /\ accounts[c].type \in types}

(* trial_balance(): every active account on the side of its net amount.    *)
TrialRow(c, side, from, to) ==
  LET net == Net(c, from, to)
  IN  IF side = "debit" THEN IF net > 0 THEN net ELSE 0
                        ELSE IF net < 0 THEN -net ELSE 0

TrialTotal(side, from, to) ==
  SumFunction([c \in {d \in Codes : accounts[d] # None /\ accounts[d].active} |->
                 TrialRow(c, side, from, to)])

(* profit_loss().                                                          *)
Profit(from, to) ==
  SumFunction([c \in Listed({"revenue"}) |-> -Net(c, from, to)])
  - SumFunction([c \in Listed({"expense"}) |-> Net(c, from, to)])

(* The balance account_ledger() runs up to.                                *)
LedgerBalance(c, from, to) ==
  IF accounts[c].nature = "debit" THEN Net(c, from, to) ELSE -Net(c, from, to)

-----------------------------------------------------------------------------
(***************************************************************************)
(* Properties.                                                             *)
(***************************************************************************)

InUse(c) == \E e \in DOMAIN entries : \E i \in DOMAIN entries[e].items :
              entries[e].items[i].account = c

(* What rounding may leave in the entries of a report.                     *)
Rounding(from, to) == Tolerance * Cardinality(Counted(from, to))

(* While every account in use is active, the two sides of the trial        *)
(* balance agree for any days, whatever was drafted, edited and cancelled, *)
(* and the profit is the change of the assets less that of the liabilities *)
(* and the equity, which the ledgers of the accounts show.                 *)
ReportsAgree ==
  (\A c \in Codes : InUse(c) => accounts[c].active) =>
    \A from, to \in Days :
      LET Worth(c) == IF accounts[c].nature = "debit" THEN LedgerBalance(c, from, to)
                      ELSE -LedgerBalance(c, from, to)
      IN
      /\ Abs(TrialTotal("debit", from, to) - TrialTotal("credit", from, to))
           <= Rounding(from, to)
      /\ Abs(SumFunction([c \in Listed({"asset", "liability", "equity"}) |-> Worth(c)])
             - Profit(from, to)) <= Rounding(from, to)

(* The same of the trial balance alone, with accounts in use switched off, *)
(* as a message of the program advises so as not to upset the reports      *)
(* (routes/accounting.py:212).                                             *)
TrialBalances ==
  \A from, to \in Days :
    Abs(TrialTotal("debit", from, to) - TrialTotal("credit", from, to)) <= Rounding(from, to)
=============================================================================
