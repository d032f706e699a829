------------------------------- MODULE Payroll -------------------------------
(***************************************************************************)
(* The payslip workflow and the cashbox it pays from: routes/payroll.py,   *)
(* the payslip form of routes/finance.py, the manual cashbox transaction   *)
(* and the compare-and-set of utils/money_guard.py.                        *)
(*                                                                         *)
(* A request is two or three steps of a session: it loads rows and tests   *)
(* its guards (a Begin action), takes a document number where it creates a *)
(* payslip (TakeNumber), and writes and commits (a Commit action).  Other  *)
(* sessions run between these steps.  A request that a guard turns away    *)
(* changes nothing and is not a step.  The period is fixed: a payslip      *)
(* belongs to a person.  A payslip is named by its payslip_number, which   *)
(* the table keeps unique.                                                 *)
(***************************************************************************)
EXTENDS Integers, FiniteSets, UnitOfWork

CONSTANTS
  Sessions,      \* server threads that handle requests
  Persons,       \* persons that have payslips
  Boxes,         \* cashboxes
  NoBox,         \* payslips.cashbox_id is NULL
  Amounts,       \* values of net_amount a calculation or a form produces
  Cash,          \* amounts of manual transactions and expenses
  Opening,       \* balance of every cashbox at the start
  MaxSlips,      \* bound: payslip numbers 1..MaxSlips
  MaxRequests    \* bound: requests in one behaviour

ASSUME ConstantsOK ==
  /\ Sessions # {} /\ Persons # {} /\ Boxes # {}
  /\ NoBox \notin Boxes
  /\ Amounts \subseteq Int
  /\ Cash \subseteq Nat \ {0}
  /\ Opening \in Nat
  /\ MaxSlips \in Nat \ {0}
  /\ MaxRequests \in Nat

VARIABLES
  slips,     \* table payslips: number -> row ("absent": no such row)
  seq,       \* document_sequences.next_no of kind 'payslip'
  balance,   \* cashboxes.balance
  journal,   \* opening balance and the sum of the box's cashbox_transactions
  flow,      \* per payslip, sum of its 'salary' transactions ('out' minus 'in')
  log,       \* per payslip, number of its activity_log rows of each action
  req,       \* the request each session is in
  served     \* number of requests begun

vars == <<slips, seq, balance, journal, flow, log, req, served>>

Numbers  == 1..MaxSlips
Statuses == {"absent", "draft", "approved", "paid", "cancelled"}
Row      == [person : Persons, status : Statuses, net : Int,
             box : Boxes \cup {NoBox}]
Ops      == {"calculate", "create", "edit", "approve", "pay", "cancel",
             "manual"}
Stages   == {"loaded", "numbered"}

(* What a session holds between two steps: the payslip it loaded (0: none) *)
(* and its row as loaded, the document number it was given (0: none), the  *)
(* cashbox and its balance as loaded, and the amount of the form.          *)
Request == [op : Ops, stage : Stages, n : Numbers \cup {0}, row : Row,
            number : Nat, box : Boxes \cup {NoBox}, cash : Int, amount : Int]
Idle    == [op |-> "idle"]

(* A request on payslip n that has loaded `row`, with form amount `a`.     *)
Loaded(op, n, row, a) ==
  [op |-> op, stage |-> "loaded", n |-> n, row |-> row, number |-> 0,
   box |-> NoBox, cash |-> 0, amount |-> a]

Absent   == [person |-> CHOOSE p \in Persons : TRUE, status |-> "absent",
             net |-> 0, box |-> NoBox]
New(p, amount) == [person |-> p, status |-> "draft", net |-> amount,
                   box |-> NoBox]

SlipsOf(p) == {n \in Numbers : slips[n].status # "absent"
                               /\ slips[n].person = p}

(* Payslip.query.filter_by(person, period).first(): the oldest row, 0 when *)
(* there is none.                                                          *)
First(p) == IF SlipsOf(p) = {} THEN 0
            ELSE CHOOSE n \in SlipsOf(p) : \A m \in SlipsOf(p) : n <= m

Init ==
  /\ slips   = [n \in Numbers |-> Absent]
  /\ seq     = 1
  /\ balance = [b \in Boxes |-> Opening]
  /\ journal = [b \in Boxes |-> Opening]
  /\ flow    = [n \in Numbers |-> 0]
  /\ log     = [n \in Numbers |-> [approve |-> 0, pay |-> 0, refund |-> 0]]
  /\ req     = [w \in Sessions |-> Idle]
  /\ served  = 0

-----------------------------------------------------------------------------
(* Steps of a request.                                                     *)

Begin(w, r) ==
  /\ req[w] = Idle
  /\ served < MaxRequests
  /\ served' = served + 1
  /\ req' = [req EXCEPT ![w] = r]
  /\ UNCHANGED <<slips, seq, balance, journal, flow, log>>

InRequest(w, op, stage) ==
  /\ req[w] # Idle
  /\ req[w].op = op
  /\ req[w].stage = stage

Finish(w) ==
  /\ req' = [req EXCEPT ![w] = Idle]
  /\ UNCHANGED served

(* A cashbox transaction row for box b: `amount` leaves the box (enters it *)
(* when negative) and the box's balance column is set to `after`.          *)
Record(b, amount, after) ==
  /\ balance' = [balance EXCEPT ![b] = after]
  /\ journal' = [journal EXCEPT ![b] = @ - amount]

(* The request ends without a commit: the worker is stopped, the database  *)
(* stays locked too long, or another error rolls the session back.         *)
Abort(w) ==
  /\ req[w] # Idle
  /\ Finish(w)
  /\ UNCHANGED <<slips, seq, balance, journal, flow, log>>

-----------------------------------------------------------------------------
(* Issuing payslips.                                                       *)

(* Fault: 'replace_drafts' also recomputes a paid payslip.                 *)
BeginCalculatePaid(w, p, amount, replace) ==
  LET n == First(p) IN
  /\ n # 0 => slips[n].status = "draft" \/ replace
  /\ Begin(w, Loaded("calculate", n,
                     IF n = 0 THEN New(p, amount) ELSE slips[n], amount))

(* calculate(): a paid payslip is never recomputed; an approved or a       *)
(* cancelled one only with 'replace_drafts'.                               *)
BeginCalculate(w, p, amount, replace) ==
  LET n == First(p) IN
  /\ n # 0 => /\ slips[n].status # "paid"
              /\ slips[n].status # "draft" => replace
  /\ Begin(w, Loaded("calculate", n,
                     IF n = 0 THEN New(p, amount) ELSE slips[n], amount))

(* create_payslip(): refused when the person has any payslip already.      *)
BeginCreate(w, p, amount) ==
  /\ First(p) = 0
  /\ Begin(w, Loaded("create", 0, New(p, amount), amount))

(* calculate() looks the payslip up again: a row that the session holds    *)
(* stays as it was loaded, a row that appeared meanwhile is loaded now.    *)
(* Without a row, the counter is read (next_sequence_number).              *)
TakeNumber(w) ==
  /\ req[w] # Idle /\ req[w].op \in {"calculate", "create"}
  /\ req[w].stage = "loaded"
  /\ LET r == req[w]
         m == IF r.op = "calculate" THEN First(r.row.person) ELSE 0
     IN  req' = [req EXCEPT ![w] =
           IF r.n = 0 /\ m # 0
           THEN [r EXCEPT !.stage = "numbered", !.n = m, !.row = slips[m]]
           ELSE [r EXCEPT !.stage = "numbered",
                          !.number = IF r.n = 0 THEN seq ELSE 0]]
  /\ UNCHANGED <<slips, seq, balance, journal, flow, log, served>>

(* The unique index ux_payslip_person_period, of the payslips that are not *)
(* cancelled: a statement that breaks it is an IntegrityError, and Abort.  *)
KeyFree(n, p) ==
  \A m \in SlipsOf(p) : m = n \/ slips[m].status = "cancelled"

(* The recomputed payslip goes back to draft, whatever it is by now.       *)
CommitRecalculate(w) ==
  LET r == req[w] IN
  /\ InRequest(w, "calculate", "numbered")
  /\ r.n # 0
  /\ KeyFree(r.n, r.row.person)
  /\ slips' = [slips EXCEPT ![r.n] =
       Flush(@, r.row, [r.row EXCEPT !.status = "draft", !.net = r.amount])]
  /\ Finish(w)
  /\ UNCHANGED <<seq, balance, journal, flow, log>>

(* A new payslip under the number that was read, and the counter one past  *)
(* it.  A number already in the table is an IntegrityError: Abort.         *)
CommitIssue(w) ==
  LET r == req[w] IN
  /\ InRequest(w, "calculate", "numbered") \/ InRequest(w, "create", "numbered")
  /\ r.n = 0
  /\ r.number \in Numbers
  /\ slips[r.number].status = "absent"
  /\ KeyFree(r.number, r.row.person)
  /\ slips' = [slips EXCEPT ![r.number] = r.row]
  /\ seq' = r.number + 1
  /\ Finish(w)
  /\ UNCHANGED <<balance, journal, flow, log>>

-----------------------------------------------------------------------------
(* Editing, approving, paying and cancelling a payslip.                    *)

BeginEdit(w, n, amount) ==
  /\ slips[n].status = "draft"
  /\ Begin(w, Loaded("edit", n, slips[n], amount))

CommitEdit(w) ==
  LET r == req[w] IN
  /\ InRequest(w, "edit", "loaded")
  /\ slips' = [slips EXCEPT ![r.n] =
       Flush(@, r.row, [r.row EXCEPT !.net = r.amount])]
  /\ Finish(w)
  /\ UNCHANGED <<seq, balance, journal, flow, log>>

(* Fault: a payslip with a negative amount is approved.                    *)
BeginApproveAny(w, n) ==
  /\ slips[n].status = "draft"
  /\ Begin(w, Loaded("approve", n, slips[n], 0))

BeginApprove(w, n) ==
  /\ slips[n].status = "draft"
  /\ slips[n].net >= 0
  /\ Begin(w, Loaded("approve", n, slips[n], 0))

CommitApprove(w) ==
  LET r == req[w] IN
  /\ InRequest(w, "approve", "loaded")
  /\ slips' = [slips EXCEPT ![r.n] =
       Flush(@, r.row, [r.row EXCEPT !.status = "approved"])]
  /\ log' = [log EXCEPT ![r.n].approve = @ + 1]
  /\ Finish(w)
  /\ UNCHANGED <<seq, balance, journal, flow>>

(* pay_payslip() reads the amount and the cashbox before the status moves. *)
BeginPay(w, n, b) ==
  /\ slips[n].status = "approved"
  /\ slips[n].net > 0
  /\ slips[n].net <= balance[b]
  /\ Begin(w, [Loaded("pay", n, slips[n], slips[n].net)
                 EXCEPT !.box = b, !.cash = balance[b]])

(* Fault: the UPDATE forgets its WHERE status IN from.                     *)
CanTransitionAny(n, from) == slips[n].status # "absent"

(* atomic_transition(): UPDATE ... WHERE status IN from.                   *)
CanTransition(n, from) == slips[n].status \in from

CommitPay(w) ==
  LET r == req[w] IN
  /\ InRequest(w, "pay", "loaded")
  /\ CanTransition(r.n, {"approved"})
  /\ slips' = [slips EXCEPT ![r.n] =
       Flush([@ EXCEPT !.status = "paid"], r.row, [r.row EXCEPT !.box = r.box])]
  /\ Record(r.box, r.amount, r.cash - r.amount)
  /\ flow' = [flow EXCEPT ![r.n] = @ + r.amount]
  /\ log' = [log EXCEPT ![r.n].pay = @ + 1]
  /\ Finish(w)
  /\ UNCHANGED seq

BeginCancel(w, n) ==
  /\ slips[n].status \notin {"absent", "cancelled"}
  /\ Begin(w, Loaded("cancel", n, slips[n], 0))

(* Whether cash goes back, how much and to which box was read beforehand;  *)
(* the cashbox itself is read under the write lock.                        *)
CommitCancel(w) ==
  LET r == req[w]
      refund == r.row.status = "paid" /\ r.row.box # NoBox
  IN
  /\ InRequest(w, "cancel", "loaded")
  /\ CanTransition(r.n, {"draft", "approved", "paid"})
  /\ slips' = [slips EXCEPT ![r.n].status = "cancelled", ![r.n].box = NoBox]
  /\ IF refund
     THEN /\ Record(r.row.box, -r.row.net, balance[r.row.box] + r.row.net)
          /\ flow' = [flow EXCEPT ![r.n] = @ - r.row.net]
          /\ log' = [log EXCEPT ![r.n].refund = @ + 1]
     ELSE UNCHANGED <<balance, journal, flow, log>>
  /\ Finish(w)
  /\ UNCHANGED seq

-----------------------------------------------------------------------------
(* Other movements of the cashbox.                                         *)

(* cashbox_transaction(): 'in' or 'out', from the balance that was loaded. *)
BeginManual(w, b, amount) ==
  /\ amount <= balance[b]
  /\ Begin(w, [Loaded("manual", 0, Absent, amount)
                 EXCEPT !.box = b, !.cash = balance[b]])

CommitManual(w) ==
  LET r == req[w] IN
  /\ InRequest(w, "manual", "loaded")
  /\ Record(r.box, r.amount, r.cash - r.amount)
  /\ Finish(w)
  /\ UNCHANGED <<slips, seq, flow, log>>

(* add_advanced_expense(): its number is taken first, so the cashbox is    *)
(* read and written under the write lock, in one step.                     *)
Expense(w, b, amount) ==
  /\ req[w] = Idle
  /\ served < MaxRequests
  /\ served' = served + 1
  /\ amount <= balance[b]
  /\ Record(b, amount, balance[b] - amount)
  /\ UNCHANGED <<slips, seq, flow, log, req>>

(* The requests of the behaviour are used up.                              *)
Quiet ==
  /\ served = MaxRequests
  /\ \A w \in Sessions : req[w] = Idle
  /\ UNCHANGED vars

Next ==
  \/ \E w \in Sessions, p \in Persons, a \in Amounts, replace \in BOOLEAN :
       BeginCalculate(w, p, a, replace)
  \/ \E w \in Sessions, p \in Persons, a \in Amounts : BeginCreate(w, p, a)
  \/ \E w \in Sessions : TakeNumber(w)
  \/ \E w \in Sessions : CommitRecalculate(w)
  \/ \E w \in Sessions : CommitIssue(w)
  \/ \E w \in Sessions, n \in Numbers, a \in Amounts : BeginEdit(w, n, a)
  \/ \E w \in Sessions : CommitEdit(w)
  \/ \E w \in Sessions, n \in Numbers : BeginApprove(w, n)
  \/ \E w \in Sessions : CommitApprove(w)
  \/ \E w \in Sessions, n \in Numbers, b \in Boxes : BeginPay(w, n, b)
  \/ \E w \in Sessions : CommitPay(w)
  \/ \E w \in Sessions, n \in Numbers : BeginCancel(w, n)
  \/ \E w \in Sessions : CommitCancel(w)
  \/ \E w \in Sessions, b \in Boxes, a \in Cash, sign \in {-1, 1} :
       BeginManual(w, b, sign * a)
  \/ \E w \in Sessions : CommitManual(w)
  \/ \E w \in Sessions, b \in Boxes, a \in Cash : Expense(w, b, a)
  \/ \E w \in Sessions : Abort(w)
  \/ Quiet

Spec == Init /\ [][Next]_vars

-----------------------------------------------------------------------------
(***************************************************************************)
(* Properties.                                                             *)
(***************************************************************************)

TypeOK ==
  /\ slips \in [Numbers -> Row]
  /\ seq \in 1..(MaxSlips + 1)
  /\ balance \in [Boxes -> Int]
  /\ journal \in [Boxes -> Int]
  /\ flow \in [Numbers -> Int]
  /\ log \in [Numbers -> [approve : Nat, pay : Nat, refund : Nat]]
  /\ req \in [Sessions -> Request \cup {Idle}]
  /\ served \in 0..MaxRequests

Count(condition) == IF condition THEN 1 ELSE 0

(* However many sessions run: no approval is used for two payments.  A     *)
(* payslip has been paid at most as often as it was approved, and one that *)
(* is approved now still has an approval left for its payment              *)
(* (pay_payslip: payment "only from approved").                            *)
ApprovalBacksPayment ==
  \A n \in Numbers :
    log[n].pay + Count(slips[n].status = "approved") <= log[n].approve

(* One request at a time: each cashbox balance is its opening balance and  *)
(* the sum of its transactions.                                            *)
BalanceIsJournal == balance = journal

(* One request at a time: the salary transactions of a payslip add up to   *)
(* its net amount while it is paid and to nothing otherwise; in particular *)
(* cancelling a paid payslip returns exactly what was paid.                *)
PaidIsFlow ==
  \A n \in Numbers :
    flow[n] = IF slips[n].status = "paid" THEN slips[n].net ELSE 0

(* One request at a time: the handlers implement the workflow as promised, *)
(* a cashbox's balance being its money.                                    *)
Ledger == INSTANCE PayslipLedger WITH till <- balance
=============================================================================
