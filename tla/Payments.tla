------------------------------ MODULE Payments ------------------------------
(***************************************************************************)
(* Tuition payments: routes/registration.py (a registration and its first  *)
(* payment, the installment plan), routes/finance.py (add, cancel and      *)
(* restore a payment), routes/new_features.py (pay an installment, late    *)
(* fees) and utils/payments.py, which moves an amount to the registration, *)
(* the installment and the cashbox.                                        *)
(*                                                                         *)
(* A request loads its rows and tests its guards in a Begin action and     *)
(* writes and commits in a Commit action; other sessions run in between.   *)
(* The receipt number is taken in the commit: a request that read a number *)
(* another one has used by now fails at the UNIQUE column, which is Abort  *)
(* (Payroll and DocumentNumbers model the number's own step).  There is    *)
(* one cashbox, which expenses, manual transactions and the payment of     *)
(* salaries move too.                                                      *)
(***************************************************************************)
EXTENDS Integers, Sequences, FiniteSetsExt, Functions, UnitOfWork

CONSTANTS
  Sessions,        \* server threads that handle requests
  Registrations,   \* registrations
  Totals,          \* total fees of a registration
  Amounts,         \* amounts of a payment form
  Fees,            \* late fees, of a form or computed from the delay
  Opening,         \* balance of the cashbox at the start
  MaxPayments,     \* bound: receipt numbers 1..MaxPayments
  MaxParts,        \* bound: installments of a plan (24 in the code)
  MaxRequests      \* bound: requests in one behaviour

ASSUME ConstantsOK ==
  /\ Sessions # {} /\ Registrations # {}
  /\ Totals \subseteq Nat /\ Fees \subseteq Nat
  /\ Amounts \subseteq Nat \ {0}
  /\ Opening \in Nat /\ MaxPayments \in Nat /\ MaxRequests \in Nat
  /\ MaxParts \in Nat

VARIABLES
  regs,      \* table registrations
  insts,     \* table installments, in insertion order
  payments,  \* table payments: receipt number -> row ("absent": no row)
  seq,       \* document_sequences.next_no of kind 'payment'
  till,      \* cashboxes.balance
  journal,   \* opening balance and the sum of cashbox_transactions
  flow,      \* per payment, sum of its cashbox_transactions
  log,       \* per payment, number of its 'payment-cancel', '-restore' rows
  req,       \* the request each session is in
  served     \* number of requests begun

vars == <<regs, insts, payments, seq, till, journal, flow, log, req, served>>
books == <<payments, seq, flow, log>>
cash == <<till, journal>>

Eps == 1     \* _EPS: an amount up to this counts as nothing

Receipts == 1..MaxPayments
AtLeast0(x) == IF x < 0 THEN 0 ELSE x

NoReg == [total |-> 0, paid |-> 0, remaining |-> 0, open |-> FALSE]
NoInst == [reg |-> CHOOSE r \in Registrations : TRUE, amount |-> 0, late |-> 0,
           paid |-> 0, status |-> "pending"]
NoPayment == [reg |-> CHOOSE r \in Registrations : TRUE, inst |-> 0,
              amount |-> 0, cash |-> 0, status |-> "absent", refunded |-> 0]
Idle == [op |-> "idle"]

Left(inst) == inst.amount + inst.late - inst.paid      \* Installment.remaining

Init ==
  /\ regs     = [r \in Registrations |-> NoReg]
  /\ insts    = <<>>
  /\ payments = [n \in Receipts |-> NoPayment]
  /\ seq      = 1
  /\ till     = Opening
  /\ journal  = Opening
  /\ flow     = [n \in Receipts |-> 0]
  /\ log      = [n \in Receipts |-> [cancel |-> 0, restore |-> 0]]
  /\ req      = [w \in Sessions |-> Idle]
  /\ served   = 0

-----------------------------------------------------------------------------
(* Steps of a request.                                                     *)

Start(w) ==
  /\ req[w] = Idle
  /\ served < MaxRequests
  /\ served' = served + 1

Begin(w, r) ==
  /\ Start(w)
  /\ req' = [req EXCEPT ![w] = r]
  /\ UNCHANGED <<regs, insts, books, cash>>

Finish(w) ==
  /\ req' = [req EXCEPT ![w] = Idle]
  /\ UNCHANGED served

(* A rollback: an error, a lock that times out, a worker that is stopped,  *)
(* a refund that the cashbox cannot pay, a compare-and-set that fails.     *)
Abort(w) ==
  /\ req[w] # Idle
  /\ Finish(w)
  /\ UNCHANGED <<regs, insts, books, cash>>

-----------------------------------------------------------------------------
(* utils/payments.py                                                       *)

(* settle_cashbox(): amounts up to Eps are no cash at all; the cashbox is  *)
(* read under the write lock.  `amount` enters it, leaves it if negative;  *)
(* the cashbox may be Eps short of a refund.                               *)
Moved(amount) == IF amount \in -Eps..Eps THEN 0 ELSE amount

(* Fault: the cashbox moves without a transaction row.                     *)
SettleSilently(n, amount) ==
  /\ Moved(amount) < 0 => till + Eps >= -amount
  /\ till' = till + Moved(amount)
  /\ flow' = [flow EXCEPT ![n] = @ + Moved(amount)]
  /\ UNCHANGED journal

Settle(n, amount) ==
  /\ Moved(amount) < 0 => till + Eps >= -amount
  /\ till' = till + Moved(amount)
  /\ journal' = journal + Moved(amount)
  /\ flow' = [flow EXCEPT ![n] = @ + Moved(amount)]

RegAfter(row, amount) ==
  LET paid == AtLeast0(row.paid + amount)
  IN  [row EXCEPT !.paid = paid, !.remaining = AtLeast0(row.total - paid)]

InstAfter(row, amount) ==
  LET new == [row EXCEPT !.paid = AtLeast0(row.paid + amount)]
  IN  [new EXCEPT !.status = IF Left(new) <= Eps THEN "paid"
                             ELSE IF new.paid > Eps THEN "partial"
                             ELSE "pending"]

(* The rows of the payment's registration and installment after `amount`   *)
(* is applied to the rows loaded for it; fee is the installment's late fee *)
(* by then.                                                                *)
Apply(reg, i, regRow, instRow, fee, amount) ==
  /\ regs' = [regs EXCEPT ![reg] = Flush(@, regRow, RegAfter(regRow, amount))]
  /\ insts' = IF i = 0 THEN insts
              ELSE [insts EXCEPT ![i] =
                     Flush(@, instRow,
                           InstAfter([instRow EXCEPT !.late = fee], amount))]

ApplyFresh(p, amount) ==
  LET i == payments[p].inst
      row == IF i = 0 THEN NoInst ELSE insts[i]
  IN  Apply(payments[p].reg, i, regs[payments[p].reg], row, row.late, amount)

(* A payment row under the next receipt number.                            *)
NewPayment(reg, i, amount, cashPart) ==
  /\ seq \in Receipts
  /\ seq' = seq + 1
  /\ payments' = [payments EXCEPT ![seq] =
       [reg |-> reg, inst |-> i, amount |-> amount, cash |-> cashPart,
        status |-> "confirmed", refunded |-> 0]]

-----------------------------------------------------------------------------
(* registration.add(): a registration with its first payment.  Its own     *)
(* number is taken first, so all of it runs under the write lock.          *)
Register(w, reg, total, initial, cashPart) ==
  /\ Start(w)
  /\ ~regs[reg].open
  /\ initial \in 0..total /\ cashPart \in {0, initial}
  /\ regs' = [regs EXCEPT ![reg] = [total |-> total, paid |-> initial,
                                    remaining |-> total - initial,
                                    open |-> TRUE]]
  /\ IF initial > 0
     THEN NewPayment(reg, 0, initial, cashPart) /\ Settle(seq, cashPart)
          /\ UNCHANGED log
     ELSE UNCHANGED <<books, cash>>
  /\ UNCHANGED <<insts, req>>

(* registration.installments(): the remaining amount in `count` parts, the *)
(* last one taking what rounding left over.  Python rounds half to even.   *)
RoundDiv(a, b) ==
  LET q == a \div b
      twice == 2 * (a % b)
  IN  IF twice < b \/ (twice = b /\ q % 2 = 0) THEN q ELSE q + 1

PlanAmount(remaining, count, k) ==
  LET part == RoundDiv(remaining, count)
  IN  IF k < count THEN part ELSE remaining - part * (count - 1)

InstsOf(reg) == {i \in DOMAIN insts : insts[i].reg = reg}

BeginPlan(w, reg, count) ==
  /\ count \in 1..MaxParts
  /\ regs[reg].open /\ regs[reg].remaining > 0
  /\ InstsOf(reg) = {}
  /\ Begin(w, [op |-> "plan", reg |-> reg, count |-> count,
               regRow |-> regs[reg]])

CommitPlan(w) ==
  LET r == req[w] IN
  /\ r.op = "plan"
  /\ insts' = insts \o [k \in 1..r.count |->
       [NoInst EXCEPT !.reg = r.reg,
                      !.amount = PlanAmount(r.regRow.remaining, r.count, k)]]
  /\ Finish(w)
  /\ UNCHANGED <<regs, books, cash>>

-----------------------------------------------------------------------------
(* add_payment(): to a registration, and to one of its installments if     *)
(* i # 0.  The parts of a combined payment may differ from it by one.      *)
BeginPayment(w, reg, i, amount, cashPart) ==
  /\ regs[reg].open
  /\ i \in InstsOf(reg) \cup {0}
  /\ amount <= AtLeast0(regs[reg].remaining)
  /\ i # 0 => amount <= AtLeast0(Left(insts[i]))
  /\ cashPart \in 0..(amount + 1)
  /\ Begin(w, [op |-> "pay", reg |-> reg, i |-> i, amount |-> amount,
               cash |-> cashPart, regRow |-> regs[reg],
               instRow |-> IF i = 0 THEN NoInst ELSE insts[i],
               fee |-> IF i = 0 THEN 0 ELSE insts[i].late])

(* pay_installment(): the form may set the late fee; what the registration *)
(* still owes is not looked at.                                            *)
BeginInstallment(w, i, amount, cashPart, fee) ==
  /\ insts[i].status # "paid"
  /\ amount <= AtLeast0(Left(insts[i]))
  /\ cashPart \in {0, amount}
  /\ Begin(w, [op |-> "pay", reg |-> insts[i].reg, i |-> i, amount |-> amount,
               cash |-> cashPart, regRow |-> regs[insts[i].reg],
               instRow |-> insts[i], fee |-> fee])

CommitPayment(w) ==
  LET r == req[w] IN
  /\ r.op = "pay"
  /\ NewPayment(r.reg, r.i, r.amount, r.cash)
  /\ Apply(r.reg, r.i, r.regRow, r.instRow, r.fee, r.amount)
  /\ Settle(seq, r.cash)
  /\ Finish(w)
  /\ UNCHANGED log

(* cancel_payment(): whether and how much cash goes back is read before    *)
(* the compare-and-set, the rows it is applied to after it.                *)
BeginCancel(w, n, refund) ==
  /\ payments[n].status = "confirmed"
  /\ Begin(w, [op |-> "cancel", n |-> n,
               amount |-> IF refund THEN payments[n].cash ELSE 0])

(* Fault: the UPDATE forgets its WHERE status IN from.                     *)
CanTransitionAny(n, from) == payments[n].status # "absent"

(* atomic_transition(): UPDATE ... WHERE status IN from.                   *)
CanTransition(n, from) == payments[n].status \in from

CommitCancel(w) ==
  LET r == req[w] IN
  /\ r.op = "cancel"
  /\ CanTransition(r.n, {"confirmed"})
  /\ payments' = [payments EXCEPT ![r.n].status = "cancelled",
                                  ![r.n].refunded = r.amount]
  /\ Settle(r.n, -r.amount)
  /\ ApplyFresh(r.n, -payments[r.n].amount)
  /\ log' = [log EXCEPT ![r.n].cancel = @ + 1]
  /\ Finish(w)
  /\ UNCHANGED seq

(* restore_payment(): the refunded amount is read before the               *)
(* compare-and-set, which clears it.                                       *)
BeginRestore(w, n) ==
  /\ payments[n].status = "cancelled"
  /\ Begin(w, [op |-> "restore", n |-> n, amount |-> payments[n].refunded])

(* Fault: the refunded amount is not cleared.                              *)
CommitRestoreKeep(w) ==
  LET r == req[w] IN
  /\ r.op = "restore"
  /\ CanTransition(r.n, {"cancelled"})
  /\ payments' = [payments EXCEPT ![r.n].status = "confirmed"]
  /\ Settle(r.n, r.amount)
  /\ ApplyFresh(r.n, payments[r.n].amount)
  /\ log' = [log EXCEPT ![r.n].restore = @ + 1]
  /\ Finish(w)
  /\ UNCHANGED seq

CommitRestore(w) ==
  LET r == req[w] IN
  /\ r.op = "restore"
  /\ CanTransition(r.n, {"cancelled"})
  /\ payments' = [payments EXCEPT ![r.n].status = "confirmed",
                                  ![r.n].refunded = 0]
  /\ Settle(r.n, r.amount)
  /\ ApplyFresh(r.n, payments[r.n].amount)
  /\ log' = [log EXCEPT ![r.n].restore = @ + 1]
  /\ Finish(w)
  /\ UNCHANGED seq

(* auto_late_fee(): raises the late fee of the unpaid installments that    *)
(* are overdue, in one commit.                                             *)
BeginLateFee(w, overdue, fee) ==
  /\ overdue # {}
  /\ \A i \in overdue : insts[i].status \in {"pending", "partial"}
                        /\ insts[i].late < fee
  /\ Begin(w, [op |-> "late", overdue |-> overdue, fee |-> fee])

(* Only the late_fee column is written.                                    *)
CommitLateFee(w) ==
  LET r == req[w] IN
  /\ r.op = "late"
  /\ insts' = [i \in DOMAIN insts |->
       IF i \in r.overdue THEN [insts[i] EXCEPT !.late = r.fee] ELSE insts[i]]
  /\ Finish(w)
  /\ UNCHANGED <<regs, books, cash>>

(* Cash that a manual transaction, the payment of a payslip or its         *)
(* cancellation brings (amount > 0) or takes: these handlers load the      *)
(* cashbox without the write lock and write what they loaded plus amount.  *)
BeginMove(w, amount) ==
  /\ amount < 0 => till >= -amount
  /\ Begin(w, [op |-> "move", balance |-> till, amount |-> amount])

CommitMove(w) ==
  LET r == req[w] IN
  /\ r.op = "move"
  /\ till' = r.balance + r.amount
  /\ journal' = journal + r.amount
  /\ Finish(w)
  /\ UNCHANGED <<regs, insts, books>>

(* Cash that leaves for an expense (add_advanced_expense, under the write  *)
(* lock).                                                                  *)
Expense(w, amount) ==
  /\ Start(w)
  /\ amount <= till
  /\ till' = till - amount
  /\ journal' = journal - amount
  /\ UNCHANGED <<regs, insts, books, req>>

Quiet ==
  /\ served = MaxRequests
  /\ \A w \in Sessions : req[w] = Idle
  /\ UNCHANGED vars

Next ==
  \/ \E w \in Sessions, r \in Registrations, t \in Totals, a \in Amounts \cup {0},
        c \in Amounts \cup {0} : Register(w, r, t, a, c)
  \/ \E w \in Sessions, r \in Registrations, k \in 1..MaxParts :
       BeginPlan(w, r, k)
  \/ \E w \in Sessions : CommitPlan(w)
  \/ \E w \in Sessions, r \in Registrations, a \in Amounts :
       \E i \in DOMAIN insts \cup {0}, c \in {0, 1, a} :
         BeginPayment(w, r, i, a, c)
  \/ \E w \in Sessions, i \in DOMAIN insts, a \in Amounts :
       \E c \in {0, a}, fee \in Fees \cup {insts[i].late} :
         BeginInstallment(w, i, a, c, fee)
  \/ \E w \in Sessions : CommitPayment(w)
  \/ \E w \in Sessions, n \in Receipts, refund \in BOOLEAN :
       BeginCancel(w, n, refund)
  \/ \E w \in Sessions : CommitCancel(w)
  \/ \E w \in Sessions, n \in Receipts : BeginRestore(w, n)
  \/ \E w \in Sessions : CommitRestore(w)
  \/ \E w \in Sessions, fee \in Fees : \E due \in SUBSET (DOMAIN insts) :
       BeginLateFee(w, due, fee)
  \/ \E w \in Sessions : CommitLateFee(w)
  \/ \E w \in Sessions, a \in Amounts : BeginMove(w, a) \/ BeginMove(w, -a)
  \/ \E w \in Sessions : CommitMove(w)
  \/ \E w \in Sessions, a \in Amounts : Expense(w, a)
  \/ \E w \in Sessions : Abort(w)
  \/ Quiet

Spec == Init /\ [][Next]_vars

-----------------------------------------------------------------------------
(***************************************************************************)
(* Properties.                                                             *)
(***************************************************************************)

RegRow == [total : Nat, paid : Nat, remaining : Nat, open : BOOLEAN]
InstRow == [reg : Registrations, amount : Int, late : Nat, paid : Nat,
            status : {"pending", "partial", "paid"}]
PaymentRow == [reg : Registrations, inst : Nat, amount : Nat, cash : Nat,
               status : {"absent", "confirmed", "cancelled"}, refunded : Nat]

TypeOK ==
  /\ regs \in [Registrations -> RegRow]
  /\ insts \in Seq(InstRow)
  /\ payments \in [Receipts -> PaymentRow]
  /\ seq \in 1..(MaxPayments + 1)
  /\ till \in Int /\ journal \in Int
  /\ flow \in [Receipts -> Int]
  /\ log \in [Receipts -> [cancel : Nat, restore : Nat]]
  /\ DOMAIN req = Sessions
  /\ served \in 0..MaxRequests

Confirmed == {n \in Receipts : payments[n].status = "confirmed"}
AmountOf(ns) == SumFunction([n \in ns |-> payments[n].amount])

(* However many sessions run: a payment's cancellations and restorations   *)
(* alternate, so none is applied twice (cancel_payment, restore_payment:   *)
(* "a repeated click is applied once").                                    *)
CancelsAlternate ==
  \A n \in Receipts :
    log[n].cancel - log[n].restore
      = IF payments[n].status = "cancelled" THEN 1 ELSE 0

(* A registration's paid amount is the sum of its confirmed payments (the  *)
(* consistency check of utils/system_diagnostics.py).                      *)
PaidIsConfirmed ==
  \A r \in Registrations :
    regs[r].paid = AmountOf({n \in Confirmed : payments[n].reg = r})

(* An installment is settled exactly when nothing of it, late fee          *)
(* included, is left (apply_payment_to_targets).                           *)
SettledIffNothingLeft ==
  \A i \in DOMAIN insts :
    insts[i].paid > 0 => (insts[i].status = "paid" <=> Left(insts[i]) <= Eps)

(* The cash a payment keeps in the cashbox is its cash part, less what a   *)
(* cancellation returned and no restoration brought back.                  *)
CashFollowsPayment ==
  \A n \in Receipts :
    flow[n] = Moved(payments[n].cash) - Moved(payments[n].refunded)
=============================================================================
