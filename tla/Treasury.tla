------------------------------- MODULE Treasury -------------------------------
(***************************************************************************)
(* A bank account, cheques, expenses by category and a discount code       *)
(* (routes/finance.py, the categories of routes/settings.py, the discount  *)
(* of routes/registration.py).                                             *)
(*                                                                         *)
(* A request loads rows in its Begin action and writes them in its Commit. *)
(* Pages that write without looking at what is there are one action.       *)
(***************************************************************************)
EXTENDS Integers, Sequences, FiniteSetsExt, UnitOfWork

CONSTANTS
  Sessions,      \* server threads that handle requests
  None,          \* no row; a date or limit left open
  Names,         \* names of categories, equal ones differ in case only
  Sums,          \* amounts a form may hold
  Discounts,     \* discount codes an administrator may enter
  LastDay,       \* bound: days that pass
  MaxRows,       \* bound: rows of each table
  MaxCheques,    \* bound: cheques
  MaxRequests    \* bound: requests in one behaviour

VARIABLES
  fund,         \* table bank_accounts: its one row
  moves,        \* table bank_transactions
  cheques,      \* table checks
  categories,   \* table expense_categories, by id
  expenses,     \* table expenses: the category id of each
  discount,     \* table discount_codes: its one row
  enrolled,     \* the day of each registration with the code
  today,        \* the date
  req,          \* the request each session is in
  served        \* number of requests begun

bankVars == <<fund, moves, cheques>>
costVars == <<categories, expenses>>
discountVars == <<discount, enrolled, today>>
vars == <<bankVars, costVars, discountVars, req, served>>

Idle == [op |-> "idle"]

Init ==
  /\ fund = None
  /\ moves = <<>>
  /\ cheques = <<>>
  /\ categories = <<>>
  /\ expenses = <<>>
  /\ discount = None
  /\ enrolled = <<>>
  /\ today = 1
  /\ req = [w \in Sessions |-> Idle]
  /\ served = 0

Begin(w, r) ==
  /\ req[w] = Idle
  /\ served < MaxRequests
  /\ req' = [req EXCEPT ![w] = r]
  /\ served' = served + 1
  /\ UNCHANGED <<bankVars, costVars, discountVars>>

Finish(w) == req' = [req EXCEPT ![w] = Idle] /\ UNCHANGED served

(* An error, or a refusal by the database: nothing is written.             *)
Abort(w) ==
  /\ req[w] # Idle
  /\ Finish(w)
  /\ UNCHANGED <<bankVars, costVars, discountVars>>

-----------------------------------------------------------------------------
(* bank_transaction(): the balance is computed from the row loaded.        *)

AddBankAccount(balance) ==
  /\ fund = None
  /\ fund' = [opening |-> balance, balance |-> balance]
  /\ UNCHANGED <<moves, cheques, costVars, discountVars, req, served>>

BeginMove(w, kind, amount) ==
  /\ fund # None
  /\ kind = "withdrawal" => amount <= fund.balance
  /\ Begin(w, [op |-> "move", kind |-> kind, amount |-> amount,
               after |-> fund.balance + (IF kind = "deposit" THEN amount ELSE -amount)])

CommitMove(w) ==
  LET r == req[w] IN
  /\ r.op = "move"
  /\ Len(moves) < MaxRows
  /\ fund' = [fund EXCEPT !.balance = r.after]
  /\ moves' = Append(moves, [kind |-> r.kind, amount |-> r.amount, after |-> r.after])
  /\ Finish(w)
  /\ UNCHANGED <<cheques, costVars, discountVars>>

-----------------------------------------------------------------------------
(* Cheques.  Any status may follow any other; bouncing is dated.           *)

Statuses == {"received", "cashed", "bounced", "spent", "cancelled"}

AddCheck ==
  /\ Len(cheques) < MaxCheques
  /\ cheques' = Append(cheques, [status |-> "received", bounced |-> None])
  /\ UNCHANGED <<fund, moves, costVars, discountVars, req, served>>

BeginCheckStatus(w, n, status) ==
  Begin(w, [op |-> "cheque", n |-> n, status |-> status, loaded |-> cheques[n]])

CommitCheckStatus(w) ==
  LET r == req[w]
      written == [status |-> r.status,
                  bounced |-> IF r.status = "bounced" THEN today ELSE r.loaded.bounced]
  IN
  /\ r.op = "cheque"
  /\ cheques' = [cheques EXCEPT ![r.n] = Flush(@, r.loaded, written)]
  /\ Finish(w)
  /\ UNCHANGED <<fund, moves, costVars, discountVars>>

-----------------------------------------------------------------------------
(* Categories and expenses.  The id of a deleted last row is given again.  *)

Taken(name, others) == \E c \in others : categories[c].name = name
Used(c) == \E i \in DOMAIN expenses : expenses[i] = c
NewId == IF DOMAIN categories = {} THEN 1 ELSE 1 + Max(DOMAIN categories)

BeginAddCategory(w, name) ==
  /\ ~Taken(name, DOMAIN categories)
  /\ Begin(w, [op |-> "category", name |-> name])

(* The page of older versions has a check of its own, by the same rule.    *)
BeginOldAddCategory(w, name) ==
  /\ \A c \in DOMAIN categories : categories[c].name # name
  /\ Begin(w, [op |-> "category", name |-> name])

CommitAddCategory(w) ==
  /\ req[w].op = "category"
  /\ Cardinality(DOMAIN categories) < MaxRows
  /\ categories' = [c \in DOMAIN categories \cup {NewId} |->
       IF c = NewId THEN [name |-> req[w].name, active |-> TRUE] ELSE categories[c]]
  /\ Finish(w)
  /\ UNCHANGED <<bankVars, expenses, discountVars>>

BeginEditCategory(w, c, name, active) ==
  /\ ~Taken(name, DOMAIN categories \ {c})
  /\ Begin(w, [op |-> "rename", id |-> c, name |-> name, active |-> active])

CommitEditCategory(w) ==
  LET r == req[w] IN
  /\ r.op = "rename"
  /\ r.id \in DOMAIN categories
  /\ categories' = [categories EXCEPT ![r.id] = [name |-> r.name, active |-> r.active]]
  /\ Finish(w)
  /\ UNCHANGED <<bankVars, expenses, discountVars>>

BeginDeleteCategory(w, c) ==
  /\ ~Used(c)
  /\ Begin(w, [op |-> "delete", id |-> c])

(* Foreign keys are enforced: a row an expense refers to is not deleted.   *)
CommitDeleteCategory(w) ==
  LET r == req[w] IN
  /\ r.op = "delete"
  /\ r.id \in DOMAIN categories
  /\ ~Used(r.id)
  /\ categories' = [c \in DOMAIN categories \ {r.id} |-> categories[c]]
  /\ Finish(w)
  /\ UNCHANGED <<bankVars, expenses, discountVars>>

BeginExpense(w, c) ==
  /\ categories[c].active
  /\ Begin(w, [op |-> "expense", id |-> c])

CommitExpense(w) ==
  /\ req[w].op = "expense"
  /\ req[w].id \in DOMAIN categories
  /\ Len(expenses) < MaxRows
  /\ expenses' = Append(expenses, req[w].id)
  /\ Finish(w)
  /\ UNCHANGED <<bankVars, categories, discountVars>>

-----------------------------------------------------------------------------
(* Discount codes.  A registration reads the code after its number was     *)
(* issued, with the write lock held: its steps are one.  A limit of zero   *)
(* is none.                                                                *)

AddDiscount(form) ==
  /\ discount = None
  /\ discount' = [form EXCEPT !.most = IF @ = 0 THEN None ELSE @]
  /\ UNCHANGED <<bankVars, costVars, enrolled, today, req, served>>

(* Fault: one use too many.                                                *)
MayUseOneMore ==
  /\ discount.first # None => discount.first <= today
  /\ discount.last # None => discount.last >= today
  /\ discount.most # None => discount.used <= discount.most

MayUse ==
  /\ discount.first # None => discount.first <= today
  /\ discount.last # None => discount.last >= today
  /\ discount.most # None => discount.used < discount.most

Enrol ==
  /\ discount # None
  /\ MayUse
  /\ Len(enrolled) < MaxRows
  /\ discount' = [discount EXCEPT !.used = @ + 1]
  /\ enrolled' = Append(enrolled, today)
  /\ UNCHANGED <<bankVars, costVars, today, req, served>>

NextDay ==
  /\ today < LastDay
  /\ today' = today + 1
  /\ UNCHANGED <<bankVars, costVars, discount, enrolled, req, served>>

Next ==
  \/ \E balance \in Sums : AddBankAccount(balance)
  \/ \E w \in Sessions, kind \in {"deposit", "withdrawal"}, amount \in Sums :
       BeginMove(w, kind, amount)
  \/ \E w \in Sessions : CommitMove(w)
  \/ AddCheck
  \/ \E w \in Sessions, n \in DOMAIN cheques, status \in Statuses :
       BeginCheckStatus(w, n, status)
  \/ \E w \in Sessions : CommitCheckStatus(w)
  \/ \E w \in Sessions, name \in Names : BeginAddCategory(w, name)
  \/ \E w \in Sessions, name \in Names : BeginOldAddCategory(w, name)
  \/ \E w \in Sessions : CommitAddCategory(w)
  \/ \E w \in Sessions, c \in DOMAIN categories, name \in Names, active \in BOOLEAN :
       BeginEditCategory(w, c, name, active)
  \/ \E w \in Sessions : CommitEditCategory(w)
  \/ \E w \in Sessions, c \in DOMAIN categories : BeginDeleteCategory(w, c)
  \/ \E w \in Sessions : CommitDeleteCategory(w)
  \/ \E w \in Sessions, c \in DOMAIN categories : BeginExpense(w, c)
  \/ \E w \in Sessions : CommitExpense(w)
  \/ \E form \in Discounts : AddDiscount(form)
  \/ Enrol
  \/ NextDay
  \/ \E w \in Sessions : Abort(w)

Spec == Init /\ [][Next]_vars

-----------------------------------------------------------------------------
(***************************************************************************)
(* Properties.                                                             *)
(***************************************************************************)

Signed(m) == IF m.kind = "deposit" THEN m.amount ELSE -m.amount
Before(n) == IF n = 1 THEN fund.opening ELSE moves[n - 1].after

(* Each movement of the account shows the balance it left, which is what   *)
(* it made of the one before it, from the opening balance up to the        *)
(* balance of the account; and no name stands for two categories (to be    *)
(* asked where no requests overlap: rows are loaded before and written     *)
(* after).                                                                 *)
BooksOfTheBank ==
  /\ fund # None =>
       /\ \A n \in DOMAIN moves : moves[n].after = Before(n) + Signed(moves[n])
       /\ fund.balance = Before(Len(moves) + 1)
  /\ \A c \in DOMAIN categories : ~Taken(categories[c].name, DOMAIN categories \ {c})

(* However requests interleave, no expense is left without its category, a *)
(* cheque that bounced tells when, and a discount code is used as often as *)
(* it says and never more than its limit.                                  *)
NothingDangling ==
  /\ \A i \in DOMAIN expenses : expenses[i] \in DOMAIN categories
  /\ \A n \in DOMAIN cheques : cheques[n].status = "bounced" => cheques[n].bounced # None
  /\ discount # None =>
       /\ discount.used = Len(enrolled)
       /\ discount.most # None => discount.used <= discount.most
=============================================================================
