----------------------------- MODULE Accounting -----------------------------
(***************************************************************************)
(* The double-entry journal and its fiscal periods (routes/accounting.py,  *)
(* models/accounting.py): journal entries are drafted, edited, confirmed,  *)
(* approved and cancelled; periods are added, closed and reopened.         *)
(*                                                                         *)
(* Of the lines of an entry the model keeps the two sums: what the table   *)
(* journal_items holds (lines) and what the entry's own columns            *)
(* total_debit and total_credit say.  A request loads and tests in its     *)
(* Begin action and writes and commits in its Commit action; add_entry()   *)
(* commits twice.                                                          *)
(***************************************************************************)
EXTENDS Integers, Sequences, FiniteSetsExt, UnitOfWork

CONSTANTS
  Sessions,     \* server threads that handle requests
  LastDay,      \* bound: days 1..LastDay
  Sums,         \* sums of the debit or the credit side of an entry
  Tolerance,    \* _TOLERANCE, in currency units
  MaxEntries,   \* bound: rows of journal_entries
  MaxPeriods,   \* bound: rows of fiscal_periods
  MaxRequests   \* bound: requests in one behaviour

ASSUME ConstantsOK ==
  /\ LastDay \in Nat /\ Sums \subseteq Nat /\ Tolerance \in Nat
  /\ MaxEntries \in Nat /\ MaxPeriods \in Nat /\ MaxRequests \in Nat

VARIABLES
  entries,    \* table journal_entries, by id
  lines,      \* sums of the rows of journal_items, by entry
  periods,    \* table fiscal_periods, by id
  req,        \* the request each session is in
  served      \* number of requests begun

vars == <<entries, lines, periods, req, served>>

Days == 1..LastDay
SumPair == [debit : Sums, credit : Sums]
Statuses == {"draft", "confirmed", "approved", "cancelled"}
Posted == {"confirmed", "approved"}       \* POSTED_STATUSES
NoPeriod == 0                             \* fiscal_period_id is NULL
EntryRow == [status : Statuses, day : Days, debit : Sums, credit : Sums,
             period : 0..MaxPeriods]
PeriodRow == [first : Days, last : Days, closed : BOOLEAN]
Idle == [op |-> "idle"]
EntryId == 1..MaxEntries
PeriodId == 1..MaxPeriods
Request ==
  {Idle} \cup
  [op : {"add"}, day : Days, sums : SumPair, confirmNow : BOOLEAN] \cup
  [op : {"post"}, e : EntryId] \cup
  [op : {"edit"}, e : EntryId, row : EntryRow, day : Days, sums : SumPair] \cup
  [op : {"confirm", "approve"}, e : EntryId, row : EntryRow] \cup
  [op : {"cancel"}, e : EntryId, row : EntryRow, admin : BOOLEAN] \cup
  [op : {"period"}, row : PeriodRow] \cup
  [op : {"close"}, p : PeriodId, row : PeriodRow, loose : SUBSET EntryId] \cup
  [op : {"reopen"}, p : PeriodId, row : PeriodRow]

Within(pair) ==
  /\ pair.debit - pair.credit <= Tolerance
  /\ pair.credit - pair.debit <= Tolerance

Covers(p, d) == p.first <= d /\ d <= p.last

(* for_date(): the first row found, by id.                                 *)
ForDate(d) ==
  LET found == {p \in DOMAIN periods : Covers(periods[p], d)} IN
  IF found = {} THEN NoPeriod ELSE Min(found)

Locked(d) == ForDate(d) # NoPeriod /\ periods[ForDate(d)].closed

Init ==
  /\ entries = <<>> /\ lines = <<>> /\ periods = <<>>
  /\ req = [w \in Sessions |-> Idle]
  /\ served = 0

-----------------------------------------------------------------------------
(* Steps of a request.                                                     *)

Begin(w, r) ==
  /\ req[w] = Idle
  /\ served < MaxRequests
  /\ served' = served + 1
  /\ req' = [req EXCEPT ![w] = r]
  /\ UNCHANGED <<entries, lines, periods>>

Finish(w) ==
  /\ req' = [req EXCEPT ![w] = Idle]
  /\ UNCHANGED served

Abort(w) ==
  /\ req[w] # Idle
  /\ Finish(w)
  /\ UNCHANGED <<entries, lines, periods>>

-----------------------------------------------------------------------------
(* add_entry(): an entry is confirmed at once only if it balances.  The    *)
(* number is taken before the period is looked up.                         *)
BeginAdd(w, d, sums, confirmNow) ==
  /\ ~Locked(d)
  /\ confirmNow => Within(sums)
  /\ Begin(w, [op |-> "add", day |-> d, sums |-> sums,
               confirmNow |-> confirmNow])

CommitAdd(w) ==
  LET r == req[w] IN
  /\ r.op = "add"
  /\ Len(entries) < MaxEntries
  /\ entries' = Append(entries,
       [status |-> "draft", day |-> r.day, debit |-> r.sums.debit,
        credit |-> r.sums.credit, period |-> ForDate(r.day)])
  /\ lines' = Append(lines, r.sums)
  /\ req' = [req EXCEPT ![w] =
       IF r.confirmNow THEN [op |-> "post", e |-> Len(entries) + 1] ELSE Idle]
  /\ UNCHANGED <<periods, served>>

(* The second commit of add_entry() writes the status without a look at    *)
(* the row: the first commit expired it.                                   *)
CommitPost(w) ==
  LET r == req[w] IN
  /\ r.op = "post"
  /\ entries' = [entries EXCEPT ![r.e].status = "confirmed"]
  /\ Finish(w)
  /\ UNCHANGED <<lines, periods>>

(* edit_entry(): a draft of an open period moves to a day of an open       *)
(* period.  Its lines are deleted first, which takes the write lock.       *)
BeginEdit(w, e, d, sums) ==
  /\ entries[e].status = "draft"
  /\ ~Locked(entries[e].day) /\ ~Locked(d)
  /\ Begin(w, [op |-> "edit", e |-> e, row |-> entries[e], day |-> d,
               sums |-> sums])

CommitEdit(w) ==
  LET r == req[w] IN
  /\ r.op = "edit"
  /\ lines' = [lines EXCEPT ![r.e] = r.sums]
  /\ entries' = [entries EXCEPT ![r.e] =
       Flush(@, r.row, [r.row EXCEPT !.day = r.day, !.debit = r.sums.debit,
                                     !.credit = r.sums.credit,
                                     !.period = ForDate(r.day)])]
  /\ Finish(w)
  /\ UNCHANGED periods

(* confirm_entry(): an entry without a period gets that of its day; the    *)
(* lookup flushes the status first.                                        *)
(* Fault: the sums are not compared.                                       *)
BeginConfirmAny(w, e) ==
  /\ ~Locked(entries[e].day)
  /\ entries[e].status = "draft"
  /\ Begin(w, [op |-> "confirm", e |-> e, row |-> entries[e]])

BeginConfirm(w, e) ==
  /\ Within(entries[e])
  /\ ~Locked(entries[e].day)
  /\ entries[e].status = "draft"
  /\ Begin(w, [op |-> "confirm", e |-> e, row |-> entries[e]])

CommitConfirm(w) ==
  LET r == req[w] IN
  /\ r.op = "confirm"
  /\ entries' = [entries EXCEPT ![r.e] =
       Flush(@, r.row, [r.row EXCEPT !.status = "confirmed",
                          !.period = IF @ = NoPeriod THEN ForDate(r.row.day)
                                     ELSE @])]
  /\ Finish(w)
  /\ UNCHANGED <<lines, periods>>

(* approve_entry()                                                         *)
(* Fault: a closed period is not looked for.                               *)
BeginApproveLocked(w, e) ==
  /\ Within(entries[e])
  /\ entries[e].status \in {"draft", "confirmed"}
  /\ Begin(w, [op |-> "approve", e |-> e, row |-> entries[e]])

BeginApprove(w, e) ==
  /\ Within(entries[e])
  /\ ~Locked(entries[e].day)
  /\ entries[e].status \in {"draft", "confirmed"}
  /\ Begin(w, [op |-> "approve", e |-> e, row |-> entries[e]])

CommitApprove(w) ==
  LET r == req[w] IN
  /\ r.op = "approve"
  /\ entries' = [entries EXCEPT ![r.e] =
       Flush(@, r.row, [r.row EXCEPT !.status = "approved"])]
  /\ Finish(w)
  /\ UNCHANGED <<lines, periods>>

(* cancel_entry(): in a closed period only by an administrator.            *)
BeginCancel(w, e, admin) ==
  /\ entries[e].status # "cancelled"
  /\ Locked(entries[e].day) => admin
  /\ Begin(w, [op |-> "cancel", e |-> e, row |-> entries[e], admin |-> admin])

CommitCancel(w) ==
  LET r == req[w] IN
  /\ r.op = "cancel"
  /\ entries' = [entries EXCEPT ![r.e] =
       Flush(@, r.row, [r.row EXCEPT !.status = "cancelled"])]
  /\ Finish(w)
  /\ UNCHANGED <<lines, periods>>

-----------------------------------------------------------------------------
(* add_fiscal(): no period may overlap the new one.                        *)
BeginAddPeriod(w, first, last) ==
  /\ first <= last
  /\ \A p \in DOMAIN periods :
       ~(periods[p].first <= last /\ periods[p].last >= first)
  /\ Begin(w, [op |-> "period",
               row |-> [first |-> first, last |-> last, closed |-> FALSE]])

CommitAddPeriod(w) ==
  LET r == req[w] IN
  /\ r.op = "period"
  /\ Len(periods) < MaxPeriods
  /\ periods' = Append(periods, r.row)
  /\ Finish(w)
  /\ UNCHANGED <<entries, lines>>

(* close_fiscal(): refused while drafts belong to the period or fall into  *)
(* it; entries without a period that fall into it are attached.            *)
Loose(p) == {e \in DOMAIN entries : entries[e].period = NoPeriod
                                    /\ Covers(periods[p], entries[e].day)}
DraftsOf(p) == {e \in DOMAIN entries : entries[e].status = "draft"
                                       /\ entries[e].period = p}

(* Fault: drafts without a period are forgotten.                           *)
BeginCloseAttached(w, p) ==
  /\ DraftsOf(p) = {}
  /\ Begin(w, [op |-> "close", p |-> p, row |-> periods[p],
               loose |-> Loose(p)])

BeginClose(w, p) ==
  /\ DraftsOf(p) = {}
  /\ \A e \in Loose(p) : entries[e].status # "draft"
  /\ Begin(w, [op |-> "close", p |-> p, row |-> periods[p],
               loose |-> Loose(p)])

CommitClose(w) ==
  LET r == req[w] IN
  /\ r.op = "close"
  /\ entries' = [e \in DOMAIN entries |->
       IF e \in r.loose THEN [entries[e] EXCEPT !.period = r.p]
       ELSE entries[e]]
  /\ periods' = [periods EXCEPT ![r.p] =
       Flush(@, r.row, [r.row EXCEPT !.closed = TRUE])]
  /\ Finish(w)
  /\ UNCHANGED lines

(* reopen_fiscal()                                                         *)
BeginReopen(w, p) ==
  /\ periods[p].closed
  /\ Begin(w, [op |-> "reopen", p |-> p, row |-> periods[p]])

(* Fault: the entries of the period become drafts again.                   *)
CommitReopenDrafts(w) ==
  LET r == req[w] IN
  /\ r.op = "reopen"
  /\ periods' = [periods EXCEPT ![r.p].closed = FALSE]
  /\ entries' = [e \in DOMAIN entries |->
       IF entries[e].period = r.p THEN [entries[e] EXCEPT !.status = "draft"]
       ELSE entries[e]]
  /\ Finish(w)
  /\ UNCHANGED lines

CommitReopen(w) ==
  LET r == req[w] IN
  /\ r.op = "reopen"
  /\ periods' = [periods EXCEPT ![r.p] =
       Flush(@, r.row, [r.row EXCEPT !.closed = FALSE])]
  /\ Finish(w)
  /\ UNCHANGED <<entries, lines>>

Quiet ==
  /\ served = MaxRequests
  /\ \A w \in Sessions : req[w] = Idle
  /\ UNCHANGED vars

BeginOnEntry(w, e) ==
  \/ \E d \in Days, sums \in SumPair : BeginEdit(w, e, d, sums)
  \/ BeginConfirm(w, e)
  \/ BeginApprove(w, e)
  \/ \E admin \in BOOLEAN : BeginCancel(w, e, admin)

BeginOnPeriod(w, p) ==
  \/ BeginClose(w, p)
  \/ BeginReopen(w, p)

Next ==
  \E w \in Sessions :
    \/ \E d \in Days, sums \in SumPair, confirmNow \in BOOLEAN :
         BeginAdd(w, d, sums, confirmNow)
    \/ CommitAdd(w) \/ CommitPost(w)
    \/ \E e \in DOMAIN entries : BeginOnEntry(w, e)
    \/ CommitEdit(w) \/ CommitConfirm(w) \/ CommitApprove(w) \/ CommitCancel(w)
    \/ \E first, last \in Days : BeginAddPeriod(w, first, last)
    \/ CommitAddPeriod(w)
    \/ \E p \in DOMAIN periods : BeginOnPeriod(w, p)
    \/ CommitClose(w) \/ CommitReopen(w)
    \/ Abort(w)
    \/ Quiet

Spec == Init /\ [][Next]_vars

-----------------------------------------------------------------------------
(***************************************************************************)
(* Properties.                                                             *)
(***************************************************************************)

TypeOK ==
  /\ entries \in Seq(EntryRow) /\ Len(entries) <= MaxEntries
  /\ lines \in Seq(SumPair) /\ Len(lines) = Len(entries)
  /\ periods \in Seq(PeriodRow) /\ Len(periods) <= MaxPeriods
  /\ req \in [Sessions -> Request]
  /\ served \in 0..MaxRequests

(* The lines of an entry that the reports count (confirmed or approved)    *)
(* balance, within the tolerance: the trial balance sums lines, the guards *)
(* of confirm_entry() and approve_entry() look at the entry's columns.     *)
PostedBalanced ==
  \A e \in DOMAIN entries : entries[e].status \in Posted => Within(lines[e])

(* No entry of a closed period is a draft, whether the entry was attached  *)
(* to the period or only falls into it (close_fiscal()).                   *)
ClosedHasNoDraft ==
  \A e \in DOMAIN entries : Locked(entries[e].day) => entries[e].status # "draft"

(* Nothing is entered into a closed period or moves into or out of it, the *)
(* lines of its entries stay, and their status changes to cancelled only   *)
(* («locked in a closed period», routes/accounting.py).                    *)
ClosedFrozen ==
  [][\A e \in DOMAIN entries' :
       LET new == e \notin DOMAIN entries
           touched == \/ new
                      \/ lines'[e] # lines[e]
                      \/ entries'[e].day # entries[e].day
                      \/ entries'[e].status \notin
                           {entries[e].status, "cancelled"}
       IN touched => /\ ~Locked(entries'[e].day)
                     /\ new \/ ~Locked(entries[e].day)]_vars

(* However many sessions run: an entry that has left the drafts is never a *)
(* draft again, so that it is never edited by a request that begins later. *)
NeverDraftAgain ==
  [][\A e \in DOMAIN entries :
       entries[e].status # "draft" => entries'[e].status # "draft"]_vars

=============================================================================
