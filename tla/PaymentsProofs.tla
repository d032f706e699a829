---------------------------- MODULE PaymentsProofs ----------------------------
(***************************************************************************)
(* Theorems about Payments, for any number of sessions, registrations and  *)
(* receipts, any amounts and fees, and every bound; and about MCPayments,  *)
(* the requests one at a time.                                             *)
(***************************************************************************)
EXTENDS MCPayments, FiniteSums, SequenceTheorems, TLAPS

Request ==
  {Idle} \cup
  [op : {"plan"}, reg : Registrations, count : 1..MaxParts, regRow : RegRow] \cup
  [op : {"pay"}, reg : Registrations, i : Nat, amount : Nat, cash : Nat,
   regRow : RegRow, instRow : InstRow, fee : Nat] \cup
  [op : {"cancel", "restore"}, n : Receipts, amount : Nat] \cup
  {q \in [op : {"move"}, balance : Int, amount : Int] : q.balance + q.amount >= -Eps} \cup
  [op : {"late"}, overdue : SUBSET Nat, fee : Nat]

TablesOK == regs \in [Registrations -> RegRow] /\ insts \in Seq(InstRow)

PaymentsOK ==
  /\ payments \in [Receipts -> PaymentRow]
  /\ seq \in 1..(MaxPayments + 1)
  /\ log \in [Receipts -> [cancel : Nat, restore : Nat]]

CashOK ==
  /\ till \in Int /\ till >= -Eps
  /\ journal \in Int
  /\ flow \in [Receipts -> Int]

RequestsOK == req \in [Sessions -> Request] /\ served \in 0..MaxRequests

(* Receipt numbers that were not given out yet have no row.                *)
Fresh == \A n \in Receipts : n >= seq => payments[n].status = "absent"

IInv ==
  /\ TablesOK /\ PaymentsOK /\ CashOK /\ RequestsOK
  /\ Fresh /\ CancelsAlternate

-----------------------------------------------------------------------------
(* The operators.                                                          *)

LEMMA NoRowsOK == NoReg \in RegRow /\ NoInst \in InstRow /\ NoPayment \in PaymentRow
  BY ConstantsOK DEF NoReg, RegRow, NoInst, InstRow, NoPayment, PaymentRow

LEMMA AtLeast0Nat == \A x \in Int : AtLeast0(x) \in Nat
  BY DEF AtLeast0

(* A flush of a registration's or an installment's columns leaves a row of *)
(* its table.                                                              *)
LEMMA FlushedReg ==
  ASSUME NEW row \in RegRow, NEW loaded \in RegRow, NEW edited \in RegRow
  PROVE  Flush(row, loaded, edited) \in RegRow
  <1> DEFINE f == Flush(row, loaded, edited)
             Columns == {"total", "paid", "remaining", "open"}
  <1>1. DOMAIN row = Columns
    BY DEF RegRow
  <1>2. \A c \in Columns :
          f[c] = IF edited[c] = loaded[c] THEN row[c] ELSE edited[c]
    BY <1>1 DEF Flush
  <1>3. f = [total |-> f.total, paid |-> f.paid, remaining |-> f.remaining,
             open |-> f.open]
    BY <1>1 DEF Flush
  <1>4. f.total \in Nat /\ f.paid \in Nat /\ f.remaining \in Nat
    BY <1>2 DEF RegRow
  <1>5. f.open \in BOOLEAN
    BY <1>2, Zenon DEF RegRow
  <1> QED
    BY <1>3, <1>4, <1>5 DEF RegRow

LEMMA FlushedInst ==
  ASSUME NEW row \in InstRow, NEW loaded \in InstRow, NEW edited \in InstRow
  PROVE  Flush(row, loaded, edited) \in InstRow
  <1> DEFINE f == Flush(row, loaded, edited)
             Columns == {"reg", "amount", "late", "paid", "status"}
  <1>1. DOMAIN row = Columns
    BY DEF InstRow
  <1>2. \A c \in Columns :
          f[c] = IF edited[c] = loaded[c] THEN row[c] ELSE edited[c]
    BY <1>1 DEF Flush
  <1>3. f = [reg |-> f.reg, amount |-> f.amount, late |-> f.late,
             paid |-> f.paid, status |-> f.status]
    BY <1>1 DEF Flush
  <1>4. /\ f.reg \in Registrations /\ f.amount \in Int /\ f.late \in Nat
        /\ f.paid \in Nat /\ f.status \in {"pending", "partial", "paid"}
    BY <1>2 DEF InstRow
  <1> QED
    BY <1>3, <1>4 DEF InstRow

LEMMA RegAfterOK ==
  ASSUME NEW row \in RegRow, NEW amount \in Int
  PROVE  RegAfter(row, amount) \in RegRow
  <1>1. PICK t \in Nat, p \in Nat, m \in Nat, o \in BOOLEAN :
          row = [total |-> t, paid |-> p, remaining |-> m, open |-> o]
    BY DEF RegRow
  <1>2. AtLeast0(p + amount) \in Nat /\ AtLeast0(t - AtLeast0(p + amount)) \in Nat
    BY DEF AtLeast0
  <1> QED
    BY <1>1, <1>2 DEF RegAfter, RegRow

LEMMA InstAfterOK ==
  ASSUME NEW row \in InstRow, NEW fee \in Nat, NEW amount \in Int
  PROVE  InstAfter([row EXCEPT !.late = fee], amount) \in InstRow
  <1> DEFINE late == [row EXCEPT !.late = fee]
             new == [late EXCEPT !.paid = AtLeast0(late.paid + amount)]
  <1>1. late \in InstRow /\ late.paid \in Nat
    BY DEF InstRow
  <1>2. AtLeast0(late.paid + amount) \in Nat
    BY <1>1, AtLeast0Nat
  <1>3. new \in InstRow
    BY <1>1, <1>2 DEF InstRow
  <1>4. \A s \in {"pending", "partial", "paid"} : [new EXCEPT !.status = s] \in InstRow
    BY <1>3 DEF InstRow
  <1> QED
    BY <1>4 DEF InstAfter

LEMMA PlanAmountInt ==
  ASSUME NEW remaining \in Nat, NEW count \in Nat \ {0}, NEW k \in Nat
  PROVE  PlanAmount(remaining, count, k) \in Int
  <1>1. RoundDiv(remaining, count) \in Int
    BY DEF RoundDiv
  <1> QED
    BY <1>1 DEF PlanAmount

LEMMA InstFields ==
  \A row \in InstRow : row.reg \in Registrations /\ row.late \in Nat
  BY DEF InstRow

LEMMA InstIsRow ==
  ASSUME TablesOK, NEW i \in DOMAIN insts
  PROVE  insts[i] \in InstRow
  <1>1. insts \in Seq(InstRow) /\ i \in 1..Len(insts)
    BY DEF TablesOK
  <1> QED BY <1>1, ElementOfSeq

(* A write at an index that the table does not have changes nothing.       *)
LEMMA SetInst ==
  ASSUME insts \in Seq(InstRow), NEW i \in Nat, NEW row,
         i \in DOMAIN insts => row \in InstRow
  PROVE  [insts EXCEPT ![i] = row] \in Seq(InstRow)
  <1>1. CASE i \in DOMAIN insts
    BY <1>1
  <1>2. CASE i \notin DOMAIN insts
    <2>1. [insts EXCEPT ![i] = row] = insts
      BY <1>2
    <2> QED BY <2>1
  <1> QED BY <1>1, <1>2

-----------------------------------------------------------------------------
(* utils/payments.py                                                       *)

(* settle_cashbox() writes one amount to the cashbox and to its            *)
(* transactions, and refuses a refund the cashbox does not have.           *)
LEMMA SettleKeeps ==
  ASSUME CashOK, NEW n \in Receipts, NEW amount \in Int, Settle(n, amount)
  PROVE  CashOK' /\ till' - till = journal' - journal
  <1>1. Moved(amount) \in Int /\ (Moved(amount) < 0 => Moved(amount) = amount)
    BY DEF Moved
  <1> QED
    BY <1>1 DEF Settle, CashOK, Eps

(* The receipt is a new one, and nobody cancelled it yet.                  *)
LEMMA NewPaymentKeeps ==
  ASSUME PaymentsOK, Fresh, CancelsAlternate,
         NEW reg \in Registrations, NEW i \in Nat, NEW amount \in Nat,
         NEW cashPart \in Nat,
         NewPayment(reg, i, amount, cashPart), UNCHANGED log
  PROVE  PaymentsOK' /\ Fresh' /\ CancelsAlternate'
  <1> DEFINE row == [reg |-> reg, inst |-> i, amount |-> amount, cash |-> cashPart,
                     status |-> "confirmed", refunded |-> 0]
  <1>1. row \in PaymentRow /\ row.status = "confirmed"
    BY DEF PaymentRow
  <1>2. payments' = [payments EXCEPT ![seq] = row] /\ seq' = seq + 1 /\ seq \in Receipts
    BY DEF NewPayment
  <1> HIDE DEF row
  <1>3. PaymentsOK'
    BY <1>1, <1>2, ConstantsOK DEF PaymentsOK, Receipts
  <1>4. \A n \in Receipts : payments'[n] = IF n = seq THEN row ELSE payments[n]
    BY <1>2 DEF PaymentsOK
  <1>5. Fresh'
    BY <1>2, <1>4 DEF Fresh, PaymentsOK, Receipts
  <1>6. CancelsAlternate'
    BY <1>1, <1>2, <1>4 DEF CancelsAlternate, Fresh, PaymentsOK
  <1> QED
    BY <1>3, <1>5, <1>6

(* The rows as loaded and as they are now may differ.                      *)
LEMMA ApplyKeeps ==
  ASSUME TablesOK, NEW reg \in Registrations, NEW i \in Nat,
         NEW regRow \in RegRow, NEW instRow, NEW fee, NEW amount \in Int,
         i \in DOMAIN insts => instRow \in InstRow /\ fee \in Nat,
         Apply(reg, i, regRow, instRow, fee, amount)
  PROVE  TablesOK'
  <1>1. regs' \in [Registrations -> RegRow]
    <2>1. RegAfter(regRow, amount) \in RegRow
      BY RegAfterOK
    <2>2. regs[reg] \in RegRow
      BY DEF TablesOK
    <2>3. Flush(regs[reg], regRow, RegAfter(regRow, amount)) \in RegRow
      BY <2>1, <2>2, FlushedReg
    <2> QED BY <2>3 DEF Apply, TablesOK
  <1>2. CASE i = 0
    BY <1>1, <1>2 DEF Apply, TablesOK
  <1>3. CASE i # 0
    <2> DEFINE row == Flush(insts[i], instRow,
                            InstAfter([instRow EXCEPT !.late = fee], amount))
    <2>1. ASSUME i \in DOMAIN insts PROVE row \in InstRow
      <3>1. insts[i] \in InstRow
        BY <2>1, ElementOfSeq DEF TablesOK
      <3>2. InstAfter([instRow EXCEPT !.late = fee], amount) \in InstRow
        BY <2>1, InstAfterOK
      <3> QED BY <2>1, <3>1, <3>2, FlushedInst
    <2>2. insts' = [insts EXCEPT ![i] = row]
      BY <1>3 DEF Apply
    <2> HIDE DEF row
    <2> QED BY <1>1, <2>1, <2>2, SetInst DEF TablesOK
  <1> QED BY <1>2, <1>3

LEMMA ApplyFreshKeeps ==
  ASSUME TablesOK, PaymentsOK, NEW p \in Receipts, NEW amount \in Int,
         ApplyFresh(p, amount)
  PROVE  TablesOK'
  <1> DEFINE i == payments[p].inst
             row == IF i = 0 THEN NoInst ELSE insts[i]
  <1>1. payments[p].reg \in Registrations /\ i \in Nat
    BY DEF PaymentsOK, PaymentRow
  <1>2. regs[payments[p].reg] \in RegRow
    BY <1>1 DEF TablesOK
  <1>3. i \in DOMAIN insts => row \in InstRow /\ row.late \in Nat
    BY NoRowsOK, InstIsRow, InstFields
  <1>4. Apply(payments[p].reg, i, regs[payments[p].reg], row, row.late, amount)
    BY DEF ApplyFresh
  <1> HIDE DEF i, row
  <1> QED BY <1>1, <1>2, <1>3, <1>4, ApplyKeeps

(* atomic_transition(): a payment leaves a state once, and the log counts  *)
(* what was applied.                                                       *)
LEMMA TransitionKeeps ==
  ASSUME PaymentsOK, Fresh, CancelsAlternate, NEW n \in Receipts, NEW row \in PaymentRow,
         NEW entry \in [cancel : Nat, restore : Nat],
         \/ /\ payments[n].status = "confirmed" /\ row.status = "cancelled"
            /\ entry = [log[n] EXCEPT !.cancel = @ + 1]
         \/ /\ payments[n].status = "cancelled" /\ row.status = "confirmed"
            /\ entry = [log[n] EXCEPT !.restore = @ + 1],
         payments' = [payments EXCEPT ![n] = row],
         log' = [log EXCEPT ![n] = entry],
         UNCHANGED seq
  PROVE  PaymentsOK' /\ Fresh' /\ CancelsAlternate'
  <1>1. PaymentsOK'
    BY DEF PaymentsOK
  <1>2. \A m \in Receipts : /\ payments'[m] = IF m = n THEN row ELSE payments[m]
                            /\ log'[m] = IF m = n THEN entry ELSE log[m]
    BY DEF PaymentsOK
  <1>3. Fresh'
    BY <1>2 DEF Fresh
  <1>4. log[n].cancel \in Nat /\ log[n].restore \in Nat
    BY DEF PaymentsOK
  <1>5. entry.cancel - entry.restore = IF row.status = "cancelled" THEN 1 ELSE 0
    <2>1. log[n] \in [cancel : Nat, restore : Nat]
      BY DEF PaymentsOK
    <2>2. \/ entry.cancel = log[n].cancel + 1 /\ entry.restore = log[n].restore
             /\ row.status = "cancelled" /\ payments[n].status = "confirmed"
          \/ entry.cancel = log[n].cancel /\ entry.restore = log[n].restore + 1
             /\ row.status = "confirmed" /\ payments[n].status = "cancelled"
      BY <2>1
    <2> QED BY <1>4, <2>2 DEF CancelsAlternate
  <1>6. CancelsAlternate'
    BY <1>2, <1>5 DEF CancelsAlternate
  <1> QED BY <1>1, <1>3, <1>6

-----------------------------------------------------------------------------
(* The steps.                                                              *)

LEMMA BeginKeeps ==
  ASSUME IInv, NEW w \in Sessions, NEW r \in Request, Begin(w, r)
  PROVE  IInv'
  <1>1. RequestsOK'
    BY ConstantsOK DEF Begin, Start, IInv, RequestsOK
  <1> QED
    BY <1>1 DEF Begin, Start, books, cash, IInv, TablesOK, PaymentsOK, CashOK,
                Fresh, CancelsAlternate

LEMMA FinishKeeps ==
  ASSUME RequestsOK, NEW w \in Sessions, Finish(w)
  PROVE  RequestsOK'
  BY DEF Finish, RequestsOK, Request

LEMMA RegisterKeeps ==
  ASSUME IInv, NEW w \in Sessions, NEW reg \in Registrations, NEW total \in Totals,
         NEW initial \in Amounts \cup {0}, NEW cashPart \in Amounts \cup {0},
         Register(w, reg, total, initial, cashPart)
  PROVE  IInv'
  <1>1. initial \in Nat /\ cashPart \in Nat /\ total \in Nat
    BY ConstantsOK
  <1>2. total - initial \in Nat
    BY <1>1 DEF Register
  <1>3. TablesOK'
    BY <1>1, <1>2 DEF Register, IInv, TablesOK, RegRow
  <1>4. RequestsOK'
    BY ConstantsOK DEF Register, Start, IInv, RequestsOK
  <1>5. CASE initial > 0
    <2>1. NewPayment(reg, 0, initial, cashPart) /\ Settle(seq, cashPart) /\ UNCHANGED log
      BY <1>5 DEF Register
    <2>2. seq \in Receipts
      BY <2>1 DEF NewPayment
    <2>3. PaymentsOK' /\ Fresh' /\ CancelsAlternate'
      BY <1>1, <2>1, NewPaymentKeeps DEF IInv
    <2>4. CashOK'
      BY <1>1, <2>1, <2>2, SettleKeeps DEF IInv
    <2> QED BY <1>3, <1>4, <2>3, <2>4 DEF IInv
  <1>6. CASE ~(initial > 0)
    BY <1>3, <1>4, <1>6 DEF Register, books, cash, IInv, PaymentsOK, CashOK,
                            Fresh, CancelsAlternate
  <1> QED BY <1>5, <1>6

LEMMA CommitPlanKeeps ==
  ASSUME IInv, NEW w \in Sessions, CommitPlan(w)
  PROVE  IInv'
  <1> DEFINE r == req[w]
             part == [k \in 1..r.count |->
               [NoInst EXCEPT !.reg = r.reg,
                              !.amount = PlanAmount(r.regRow.remaining, r.count, k)]]
  <1>1. /\ r.reg \in Registrations /\ r.count \in Nat \ {0}
        /\ r.regRow.remaining \in Nat
    <2>1. r \in Request /\ r.op = "plan"
      BY DEF CommitPlan, IInv, RequestsOK
    <2>2. r.reg \in Registrations /\ r.count \in 1..MaxParts /\ r.regRow \in RegRow
      BY <2>1 DEF Request, Idle
    <2>3. \A row \in RegRow : row.remaining \in Nat
      BY DEF RegRow
    <2> QED BY <2>2, <2>3, ConstantsOK
  <1>2. ASSUME NEW k \in 1..r.count PROVE part[k] \in InstRow
    <2>1. PlanAmount(r.regRow.remaining, r.count, k) \in Int
      BY <1>1, PlanAmountInt
    <2>2. \A x \in Int : [NoInst EXCEPT !.reg = r.reg, !.amount = x] \in InstRow
      BY <1>1, NoRowsOK DEF InstRow
    <2> QED BY <2>1, <2>2
  <1>3. part \in Seq(InstRow)
    <2>1. part \in [1..r.count -> InstRow]
      BY <1>2
    <2> HIDE DEF part
    <2> QED BY <1>1, <2>1
  <1>4. insts' = insts \o part
    BY DEF CommitPlan
  <1> HIDE DEF part
  <1>5. TablesOK'
    BY <1>3, <1>4, ConcatProperties DEF CommitPlan, IInv, TablesOK
  <1>6. RequestsOK'
    BY FinishKeeps DEF CommitPlan, IInv
  <1> QED
    BY <1>5, <1>6 DEF CommitPlan, books, cash, IInv, PaymentsOK, CashOK,
                      Fresh, CancelsAlternate

LEMMA CommitPaymentKeeps ==
  ASSUME IInv, NEW w \in Sessions, CommitPayment(w)
  PROVE  IInv'
  <1> DEFINE r == req[w]
  <1>1. /\ r.reg \in Registrations /\ r.i \in Nat /\ r.amount \in Nat /\ r.cash \in Nat
        /\ r.regRow \in RegRow /\ r.instRow \in InstRow /\ r.fee \in Nat
    BY DEF CommitPayment, IInv, RequestsOK, Request, Idle
  <1>2. /\ NewPayment(r.reg, r.i, r.amount, r.cash) /\ UNCHANGED log
        /\ Apply(r.reg, r.i, r.regRow, r.instRow, r.fee, r.amount)
        /\ Settle(seq, r.cash)
        /\ Finish(w)
    BY DEF CommitPayment
  <1>3. seq \in Receipts
    BY <1>2 DEF NewPayment
  <1> HIDE DEF r
  <1>4. PaymentsOK' /\ Fresh' /\ CancelsAlternate'
    BY <1>1, <1>2, NewPaymentKeeps DEF IInv
  <1>5. TablesOK'
    BY <1>1, <1>2, ApplyKeeps DEF IInv
  <1>6. CashOK'
    BY <1>1, <1>2, <1>3, SettleKeeps DEF IInv
  <1>7. RequestsOK'
    BY <1>2, FinishKeeps DEF IInv
  <1> QED BY <1>4, <1>5, <1>6, <1>7 DEF IInv

(* cancel_payment() and restore_payment() after their compare-and-set.     *)
LEMMA CommitCancelKeeps ==
  ASSUME IInv, NEW w \in Sessions, CommitCancel(w)
  PROVE  IInv'
  <1> DEFINE r == req[w]
             n == r.n
             row == [payments[n] EXCEPT !.status = "cancelled", !.refunded = r.amount]
             entry == [log[n] EXCEPT !.cancel = @ + 1]
  <1>1. r.n \in Receipts /\ r.amount \in Nat
    BY DEF CommitCancel, IInv, RequestsOK, Request, Idle
  <1>2. /\ payments[n] \in PaymentRow /\ payments[n].amount \in Nat
        /\ log[n] \in [cancel : Nat, restore : Nat]
    BY <1>1 DEF IInv, PaymentsOK, PaymentRow
  <1>3. row \in PaymentRow /\ row.status = "cancelled"
    BY <1>1, <1>2 DEF PaymentRow
  <1>4. entry \in [cancel : Nat, restore : Nat]
    BY <1>2
  <1>5. /\ payments' = [payments EXCEPT ![n] = row]
        /\ log' = [log EXCEPT ![n] = entry]
        /\ payments[n].status = "confirmed"
        /\ UNCHANGED seq
    BY DEF CommitCancel, CanTransition
  <1>6. /\ Settle(n, -r.amount) /\ ApplyFresh(n, -payments[n].amount) /\ Finish(w)
    BY DEF CommitCancel
  <1>7. PaymentsOK' /\ Fresh' /\ CancelsAlternate'
    <2> HIDE DEF row, n
    <2> QED BY <1>1, <1>3, <1>4, <1>5, TransitionKeeps DEF n, IInv
  <1>8. CashOK'
    BY <1>1, <1>6, SettleKeeps DEF IInv
  <1>9. TablesOK'
    BY <1>1, <1>2, <1>6, ApplyFreshKeeps DEF IInv
  <1>10. RequestsOK'
    BY <1>6, FinishKeeps DEF IInv
  <1> QED BY <1>7, <1>8, <1>9, <1>10 DEF IInv

LEMMA CommitRestoreKeeps ==
  ASSUME IInv, NEW w \in Sessions, CommitRestore(w)
  PROVE  IInv'
  <1> DEFINE r == req[w]
             n == r.n
             row == [payments[n] EXCEPT !.status = "confirmed", !.refunded = 0]
             entry == [log[n] EXCEPT !.restore = @ + 1]
  <1>1. r.n \in Receipts /\ r.amount \in Nat
    BY DEF CommitRestore, IInv, RequestsOK, Request, Idle
  <1>2. /\ payments[n] \in PaymentRow /\ payments[n].amount \in Nat
        /\ log[n] \in [cancel : Nat, restore : Nat]
    BY <1>1 DEF IInv, PaymentsOK, PaymentRow
  <1>3. row \in PaymentRow /\ row.status = "confirmed"
    BY <1>1, <1>2 DEF PaymentRow
  <1>4. entry \in [cancel : Nat, restore : Nat]
    BY <1>2
  <1>5. /\ payments' = [payments EXCEPT ![n] = row]
        /\ log' = [log EXCEPT ![n] = entry]
        /\ payments[n].status = "cancelled"
        /\ UNCHANGED seq
    BY DEF CommitRestore, CanTransition
  <1>6. Settle(n, r.amount) /\ ApplyFresh(n, payments[n].amount) /\ Finish(w)
    BY DEF CommitRestore
  <1>7. PaymentsOK' /\ Fresh' /\ CancelsAlternate'
    <2> HIDE DEF row, n
    <2> QED BY <1>1, <1>3, <1>4, <1>5, TransitionKeeps DEF n, IInv
  <1>8. CashOK'
    BY <1>1, <1>6, SettleKeeps DEF IInv
  <1>9. TablesOK'
    BY <1>1, <1>2, <1>6, ApplyFreshKeeps DEF IInv
  <1>10. RequestsOK'
    BY <1>6, FinishKeeps DEF IInv
  <1> QED BY <1>7, <1>8, <1>9, <1>10 DEF IInv

LEMMA CommitLateFeeKeeps ==
  ASSUME IInv, NEW w \in Sessions, CommitLateFee(w)
  PROVE  IInv'
  <1> DEFINE r == req[w]
             row(i) == IF i \in r.overdue THEN [insts[i] EXCEPT !.late = r.fee] ELSE insts[i]
  <1>1. r.fee \in Nat
    BY DEF CommitLateFee, IInv, RequestsOK, Request, Idle
  <1>2. DOMAIN insts = 1..Len(insts) /\ Len(insts) \in Nat
    BY DEF IInv, TablesOK
  <1>3. ASSUME NEW i \in DOMAIN insts PROVE row(i) \in InstRow
    <2>1. insts[i] \in InstRow
      BY <1>3, ElementOfSeq DEF IInv, TablesOK
    <2> QED BY <1>1, <2>1 DEF InstRow
  <1>4. insts' = [i \in DOMAIN insts |-> row(i)]
    BY DEF CommitLateFee
  <1> HIDE DEF row
  <1>5. insts' \in [1..Len(insts) -> InstRow]
    BY <1>2, <1>3, <1>4
  <1>6. TablesOK'
    BY <1>2, <1>5 DEF CommitLateFee, IInv, TablesOK
  <1>7. RequestsOK'
    BY FinishKeeps DEF CommitLateFee, IInv
  <1> QED
    BY <1>6, <1>7 DEF CommitLateFee, books, cash, IInv, PaymentsOK, CashOK,
                      Fresh, CancelsAlternate

(* Under the write lock the cashbox never pays what it does not have.      *)
LEMMA ExpenseKeeps ==
  ASSUME IInv, NEW w \in Sessions, NEW amount \in Amounts, Expense(w, amount)
  PROVE  IInv'
  <1>1. CashOK'
    BY ConstantsOK DEF Expense, books, IInv, CashOK, Eps
  <1>2. RequestsOK'
    BY ConstantsOK DEF Expense, Start, IInv, RequestsOK
  <1> QED
    BY <1>1, <1>2 DEF Expense, books, IInv, TablesOK, PaymentsOK, Fresh, CancelsAlternate

(* A manual transaction writes what it loaded and tested, whatever has     *)
(* happened to the cashbox since.                                          *)
LEMMA CommitMoveKeeps ==
  ASSUME IInv, NEW w \in Sessions, CommitMove(w)
  PROVE  IInv'
  <1>1. req[w].balance \in Int /\ req[w].amount \in Int
        /\ req[w].balance + req[w].amount >= -Eps
    BY DEF CommitMove, IInv, RequestsOK, Request, Idle
  <1>2. CashOK'
    BY <1>1 DEF CommitMove, books, IInv, CashOK, Eps
  <1>3. RequestsOK'
    BY FinishKeeps DEF CommitMove, IInv
  <1> QED
    BY <1>2, <1>3 DEF CommitMove, books, IInv, TablesOK, PaymentsOK, Fresh, CancelsAlternate

LEMMA AbortKeeps ==
  ASSUME IInv, NEW w \in Sessions, Abort(w)
  PROVE  IInv'
  <1>1. RequestsOK'
    BY FinishKeeps DEF Abort, IInv
  <1> QED
    BY <1>1 DEF Abort, books, cash, IInv, TablesOK, PaymentsOK, CashOK,
                Fresh, CancelsAlternate

-----------------------------------------------------------------------------
(* What each handler has loaded when it begins.                            *)
LEMMA BeginSteps ==
  ASSUME IInv, NEW w \in Sessions,
         \/ \E r \in Registrations, k \in 1..MaxParts : BeginPlan(w, r, k)
         \/ \E r \in Registrations, a \in Amounts :
              \E i \in DOMAIN insts \cup {0}, c \in {0, 1, a} :
                BeginPayment(w, r, i, a, c)
         \/ \E i \in DOMAIN insts, a \in Amounts :
              \E c \in {0, a}, fee \in Fees \cup {insts[i].late} :
                BeginInstallment(w, i, a, c, fee)
         \/ \E n \in Receipts, refund \in BOOLEAN : BeginCancel(w, n, refund)
         \/ \E n \in Receipts : BeginRestore(w, n)
         \/ \E fee \in Fees : \E due \in SUBSET (DOMAIN insts) : BeginLateFee(w, due, fee)
         \/ \E a \in Amounts : BeginMove(w, a) \/ BeginMove(w, -a)
  PROVE  IInv'
  <1>1. DOMAIN insts \subseteq Nat /\ Amounts \subseteq Nat /\ Fees \subseteq Nat
    BY ConstantsOK DEF IInv, TablesOK
  <1>2. \A i \in DOMAIN insts : insts[i] \in InstRow /\ insts[i].reg \in Registrations
                                /\ insts[i].late \in Nat
    BY InstIsRow, InstFields DEF IInv
  <1>3. \A r \in Registrations : regs[r] \in RegRow
    BY DEF IInv, TablesOK
  <1>4. ASSUME NEW r \in Registrations, NEW k \in 1..MaxParts, BeginPlan(w, r, k)
        PROVE  \E q \in Request : Begin(w, q)
    BY <1>3, <1>4 DEF BeginPlan, Request
  <1>5. ASSUME NEW r \in Registrations, NEW a \in Amounts, NEW i \in DOMAIN insts \cup {0},
               NEW c \in {0, 1, a}, BeginPayment(w, r, i, a, c)
        PROVE  \E q \in Request : Begin(w, q)
    <2>1. (IF i = 0 THEN NoInst ELSE insts[i]) \in InstRow
      BY <1>2, NoRowsOK
    <2>2. (IF i = 0 THEN 0 ELSE insts[i].late) \in Nat
      BY <1>2
    <2>3. i \in Nat /\ a \in Nat /\ c \in Nat /\ regs[r] \in RegRow
      BY <1>1, <1>3
    <2> QED BY <1>5, <2>1, <2>2, <2>3 DEF BeginPayment, Request
  <1>6. ASSUME NEW i \in DOMAIN insts, NEW a \in Amounts, NEW c \in {0, a},
               NEW fee \in Fees \cup {insts[i].late}, BeginInstallment(w, i, a, c, fee)
        PROVE  \E q \in Request : Begin(w, q)
    BY <1>1, <1>2, <1>3, <1>6 DEF BeginInstallment, Request
  <1>7. ASSUME NEW n \in Receipts, NEW refund \in BOOLEAN, BeginCancel(w, n, refund)
        PROVE  \E q \in Request : Begin(w, q)
    <2>1. (IF refund THEN payments[n].cash ELSE 0) \in Nat
      BY DEF IInv, PaymentsOK, PaymentRow
    <2> QED BY <1>7, <2>1 DEF BeginCancel, Request
  <1>8. ASSUME NEW n \in Receipts, BeginRestore(w, n)
        PROVE  \E q \in Request : Begin(w, q)
    <2>1. payments[n].refunded \in Nat
      BY DEF IInv, PaymentsOK, PaymentRow
    <2> QED BY <1>8, <2>1 DEF BeginRestore, Request
  <1>9. ASSUME NEW fee \in Fees, NEW due \in SUBSET (DOMAIN insts), BeginLateFee(w, due, fee)
        PROVE  \E q \in Request : Begin(w, q)
    BY <1>1, <1>9 DEF BeginLateFee, Request
  <1>10. ASSUME NEW a \in Amounts, BeginMove(w, a) \/ BeginMove(w, -a)
         PROVE  \E q \in Request : Begin(w, q)
    <2>1. a \in Int /\ a > 0 /\ till \in Int /\ till >= -Eps
      BY ConstantsOK DEF IInv, CashOK
    <2>2. ASSUME NEW b \in {a, -a}, BeginMove(w, b)
          PROVE  [op |-> "move", balance |-> till, amount |-> b] \in Request
      BY <2>1, <2>2 DEF BeginMove, Request, Eps
    <2> QED BY <1>10, <2>2 DEF BeginMove
  <1>11. \E q \in Request : Begin(w, q)
    BY <1>4, <1>5, <1>6, <1>7, <1>8, <1>9, <1>10
  <1> QED BY <1>11, BeginKeeps

LEMMA InitHolds == Init => IInv
  <1> SUFFICES ASSUME Init PROVE IInv
    OBVIOUS
  <1>1. TablesOK
    BY NoRowsOK DEF Init, TablesOK
  <1>2. PaymentsOK /\ Fresh /\ CancelsAlternate
    <2>1. NoPayment.status = "absent"
      BY DEF NoPayment
    <2> QED BY <2>1, NoRowsOK, ConstantsOK DEF Init, PaymentsOK, Fresh, CancelsAlternate
  <1>3. CashOK
    BY ConstantsOK DEF Init, CashOK, Eps
  <1>4. RequestsOK
    BY ConstantsOK DEF Init, RequestsOK, Request
  <1> QED BY <1>1, <1>2, <1>3, <1>4 DEF IInv

LEMMA StepKeeps == IInv /\ [Next]_vars => IInv'
  <1> SUFFICES ASSUME IInv, [Next]_vars PROVE IInv'
    OBVIOUS
  <1>1. ASSUME NEW w \in Sessions, NEW r \in Registrations, NEW t \in Totals,
               NEW a \in Amounts \cup {0}, NEW c \in Amounts \cup {0},
               Register(w, r, t, a, c)
        PROVE  IInv'
    BY <1>1, RegisterKeeps
  <1>2. ASSUME NEW w \in Sessions, CommitPlan(w) PROVE IInv'
    BY <1>2, CommitPlanKeeps
  <1>3. ASSUME NEW w \in Sessions, CommitPayment(w) PROVE IInv'
    BY <1>3, CommitPaymentKeeps
  <1>4. ASSUME NEW w \in Sessions, CommitCancel(w) PROVE IInv'
    BY <1>4, CommitCancelKeeps
  <1>5. ASSUME NEW w \in Sessions, CommitRestore(w) PROVE IInv'
    BY <1>5, CommitRestoreKeeps
  <1>6. ASSUME NEW w \in Sessions, CommitLateFee(w) PROVE IInv'
    BY <1>6, CommitLateFeeKeeps
  <1>7. ASSUME NEW w \in Sessions, NEW a \in Amounts, Expense(w, a) PROVE IInv'
    BY <1>7, ExpenseKeeps
  <1>8. ASSUME NEW w \in Sessions, Abort(w) PROVE IInv'
    BY <1>8, AbortKeeps
  <1>9. CASE UNCHANGED vars
    BY <1>9 DEF vars, IInv, TablesOK, PaymentsOK, CashOK, RequestsOK, Fresh,
                CancelsAlternate
  <1>10. CASE Quiet
    BY <1>9, <1>10 DEF Quiet
  <1>11. ASSUME NEW w \in Sessions, CommitMove(w) PROVE IInv'
    BY <1>11, CommitMoveKeeps
  <1> QED
    BY <1>1, <1>2, <1>3, <1>4, <1>5, <1>6, <1>7, <1>8, <1>9, <1>10, <1>11, BeginSteps DEF Next

-----------------------------------------------------------------------------
(* Every reachable state is well formed: no table holds a negative paid or *)
(* remaining amount, however stale the rows that were applied.             *)
THEOREM TypeCorrect == Spec => []TypeOK
  <1>1. IInv => TypeOK
    BY DEF IInv, TablesOK, PaymentsOK, CashOK, RequestsOK, TypeOK
  <1> QED
    BY <1>1, InitHolds, StepKeeps, PTL DEF Spec

(* The balance is the sum of the transactions, and so was what a handler   *)
(* without the write lock has loaded, until one of those is overtaken.     *)
TillInv ==
  ~crossed =>
    /\ till = journal
    /\ \A w \in Sessions : req[w].op = "move" => req[w].balance = till

(* Every step but that of a manual transaction or a salary moves the       *)
(* balance by what it books.                                               *)
LEMMA TillFollows ==
  ASSUME IInv, NEW w \in Sessions,
         \/ \E r \in Registrations, t \in Totals, a \in Amounts \cup {0},
              c \in Amounts \cup {0} : Register(w, r, t, a, c)
         \/ CommitPlan(w) \/ CommitPayment(w) \/ CommitCancel(w)
         \/ CommitRestore(w) \/ CommitLateFee(w) \/ Abort(w)
         \/ \E a \in Amounts : Expense(w, a)
  PROVE  /\ till' - till = journal' - journal
         /\ \A v \in Sessions : req'[v] = Idle \/ req'[v] = req[v]
  <1>1. till \in Int /\ journal \in Int /\ req \in [Sessions -> Request]
    BY DEF IInv, CashOK, RequestsOK
  <1>2. Finish(w) => \A v \in Sessions : req'[v] = Idle \/ req'[v] = req[v]
    BY <1>1 DEF Finish
  <1>3. ASSUME NEW r \in Registrations, NEW t \in Totals, NEW a \in Amounts \cup {0},
               NEW c \in Amounts \cup {0}, Register(w, r, t, a, c)
        PROVE  till' - till = journal' - journal /\ UNCHANGED req
    <2>1. CASE a > 0
      <3>1. seq \in Receipts /\ Settle(seq, c) /\ c \in Int
        BY <1>3, <2>1, ConstantsOK DEF Register, NewPayment
      <3> QED BY <1>3, <3>1, SettleKeeps DEF Register, IInv
    <2>2. CASE ~(a > 0)
      BY <1>1, <1>3, <2>2 DEF Register, cash
    <2> QED BY <2>1, <2>2
  <1>4. CASE CommitPayment(w)
    <2>1. seq \in Receipts /\ Settle(seq, req[w].cash) /\ req[w].cash \in Int
      BY <1>4 DEF CommitPayment, NewPayment, IInv, RequestsOK, Request, Idle
    <2> QED BY <1>2, <1>4, <2>1, SettleKeeps DEF CommitPayment, IInv
  <1>5. CASE CommitCancel(w)
    <2>1. req[w].n \in Receipts /\ req[w].amount \in Int
      BY <1>5 DEF CommitCancel, IInv, RequestsOK, Request, Idle
    <2>2. Settle(req[w].n, -req[w].amount) /\ -req[w].amount \in Int /\ Finish(w)
      BY <1>5, <2>1 DEF CommitCancel
    <2> QED BY <1>2, <2>1, <2>2, SettleKeeps DEF IInv
  <1>6. CASE CommitRestore(w)
    <2>1. req[w].n \in Receipts /\ req[w].amount \in Int
      BY <1>6 DEF CommitRestore, IInv, RequestsOK, Request, Idle
    <2>2. Settle(req[w].n, req[w].amount) /\ Finish(w)
      BY <1>6 DEF CommitRestore
    <2> QED BY <1>2, <2>1, <2>2, SettleKeeps DEF IInv
  <1>7. CASE CommitPlan(w) \/ CommitLateFee(w) \/ Abort(w)
    <2>1. Finish(w) /\ UNCHANGED cash
      BY <1>7 DEF CommitPlan, CommitLateFee, Abort
    <2> QED BY <1>1, <1>2, <2>1 DEF cash
  <1>8. ASSUME NEW a \in Amounts, Expense(w, a)
        PROVE  till' - till = journal' - journal /\ UNCHANGED req
    BY <1>1, <1>8, ConstantsOK DEF Expense
  <1> QED BY <1>3, <1>4, <1>5, <1>6, <1>7, <1>8

LEMMA TillStep ==
  ASSUME IInv, TillInv, Next, crossed' = (crossed \/ Crossing)
  PROVE  TillInv'
  <1> SUFFICES ASSUME ~crossed, ~Crossing
               PROVE  /\ till' = journal'
                      /\ \A v \in Sessions : req'[v].op = "move" => req'[v].balance = till'
    BY DEF TillInv
  <1>1. /\ till = journal /\ till \in Int
        /\ \A v \in Sessions : req[v].op = "move" => req[v].balance = till
        /\ req \in [Sessions -> Request]
    BY DEF TillInv, IInv, CashOK, RequestsOK
  <1>2. ASSUME \A v \in Sessions : req'[v] = Idle \/ req'[v] = req[v], NEW v \in Sessions,
               req'[v].op = "move"
        PROVE  req'[v].balance = till'
    BY <1>1, <1>2 DEF Crossing, Idle
  <1>3. ASSUME NEW w \in Sessions, NEW q, Begin(w, q), q.op = "move" => q.balance = till
        PROVE  /\ till' = journal'
               /\ \A v \in Sessions : req'[v].op = "move" => req'[v].balance = till'
    BY <1>1, <1>3 DEF Begin, cash
  <1>4. ASSUME NEW w \in Sessions,
               \/ \E r \in Registrations, k \in 1..MaxParts : BeginPlan(w, r, k)
               \/ \E r \in Registrations, a \in Amounts :
                    \E i \in DOMAIN insts \cup {0}, c \in {0, 1, a} :
                      BeginPayment(w, r, i, a, c)
               \/ \E i \in DOMAIN insts, a \in Amounts :
                    \E c \in {0, a}, fee \in Fees \cup {insts[i].late} :
                      BeginInstallment(w, i, a, c, fee)
               \/ \E n \in Receipts, refund \in BOOLEAN : BeginCancel(w, n, refund)
               \/ \E n \in Receipts : BeginRestore(w, n)
               \/ \E fee \in Fees : \E due \in SUBSET (DOMAIN insts) :
                    BeginLateFee(w, due, fee)
               \/ \E a \in Amounts : BeginMove(w, a) \/ BeginMove(w, -a)
        PROVE  \E q : Begin(w, q) /\ (q.op = "move" => q.balance = till)
    <2>1. ASSUME NEW r \in Registrations, NEW k \in 1..MaxParts, BeginPlan(w, r, k)
          PROVE  \E q : Begin(w, q) /\ (q.op = "move" => q.balance = till)
      BY <2>1 DEF BeginPlan
    <2>2. ASSUME NEW r \in Registrations, NEW a \in Amounts, NEW i \in DOMAIN insts \cup {0},
                 NEW c \in {0, 1, a}, BeginPayment(w, r, i, a, c)
          PROVE  \E q : Begin(w, q) /\ (q.op = "move" => q.balance = till)
      BY <2>2 DEF BeginPayment
    <2>3. ASSUME NEW i \in DOMAIN insts, NEW a \in Amounts, NEW c \in {0, a},
                 NEW fee \in Fees \cup {insts[i].late}, BeginInstallment(w, i, a, c, fee)
          PROVE  \E q : Begin(w, q) /\ (q.op = "move" => q.balance = till)
      BY <2>3 DEF BeginInstallment
    <2>4. ASSUME NEW n \in Receipts, NEW refund \in BOOLEAN, BeginCancel(w, n, refund)
          PROVE  \E q : Begin(w, q) /\ (q.op = "move" => q.balance = till)
      BY <2>4 DEF BeginCancel
    <2>5. ASSUME NEW n \in Receipts, BeginRestore(w, n)
          PROVE  \E q : Begin(w, q) /\ (q.op = "move" => q.balance = till)
      BY <2>5 DEF BeginRestore
    <2>6. ASSUME NEW fee \in Fees, NEW due \in SUBSET (DOMAIN insts),
                 BeginLateFee(w, due, fee)
          PROVE  \E q : Begin(w, q) /\ (q.op = "move" => q.balance = till)
      BY <2>6 DEF BeginLateFee
    <2>7. ASSUME NEW a \in Amounts, BeginMove(w, a) \/ BeginMove(w, -a)
          PROVE  \E q : Begin(w, q) /\ (q.op = "move" => q.balance = till)
      BY <2>7 DEF BeginMove
    <2> QED BY <1>4, <2>1, <2>2, <2>3, <2>4, <2>5, <2>6, <2>7, Zenon
  <1>5. ASSUME NEW w \in Sessions,
               \/ \E r \in Registrations, t \in Totals, a \in Amounts \cup {0},
                    c \in Amounts \cup {0} : Register(w, r, t, a, c)
               \/ CommitPlan(w) \/ CommitPayment(w) \/ CommitCancel(w)
               \/ CommitRestore(w) \/ CommitLateFee(w) \/ Abort(w)
               \/ \E a \in Amounts : Expense(w, a)
        PROVE  /\ till' = journal'
               /\ \A v \in Sessions : req'[v].op = "move" => req'[v].balance = till'
    <2>1. till' - till = journal' - journal
          /\ \A v \in Sessions : req'[v] = Idle \/ req'[v] = req[v]
      BY <1>5, TillFollows
    <2>2. IInv'
      BY StepKeeps
    <2>3. till' \in Int /\ journal' \in Int
      BY <2>2 DEF IInv, CashOK
    <2> QED BY <1>1, <1>2, <2>1, <2>3
  <1>6. ASSUME NEW w \in Sessions, CommitMove(w)
        PROVE  /\ till' = journal'
               /\ \A v \in Sessions : req'[v].op = "move" => req'[v].balance = till'
    <2>1. \A v \in Sessions : req'[v] = Idle \/ req'[v] = req[v]
      BY <1>1, <1>6 DEF CommitMove, Finish
    <2> QED BY <1>1, <1>2, <1>6, <2>1 DEF CommitMove
  <1>7. CASE Quiet
    BY <1>1, <1>7 DEF Quiet, vars
  <1> QED
    BY <1>3, <1>4, <1>5, <1>6, <1>7, Zenon DEF Next

(* For any number of sessions: the balance of the cashbox is the sum of    *)
(* its transactions, unless it was written under a manual transaction or a *)
(* salary that had it in hand (cashbox_transaction(), pay_payslip()), and  *)
(* at most _EPS below zero (settle_cashbox()).                             *)
THEOREM TillSoundAlways == MCSpec => []TillSound
  <1>1. MCInit => IInv /\ TillInv
    BY InitHolds DEF MCInit, Init, TillInv, Idle
  <1>2. ASSUME IInv, TillInv, [MCNext]_mcvars PROVE IInv' /\ TillInv'
    <2>1. CASE UNCHANGED mcvars
      BY <1>2, <2>1, StepKeeps DEF mcvars, vars, TillInv
    <2>2. CASE Next /\ crossed' = (crossed \/ Crossing)
      BY <1>2, <2>2, StepKeeps, TillStep
    <2>3. CASE Cut
      BY <2>1, <2>3 DEF Cut
    <2> QED BY <1>2, <2>1, <2>2, <2>3 DEF MCNext
  <1>3. IInv /\ TillInv => TillSound
    BY DEF IInv, CashOK, TillInv, TillSound
  <1> QED
    BY <1>1, <1>2, <1>3, PTL DEF MCSpec

(* For any number of sessions and clicks: cancellations and restorations   *)
(* of a payment alternate (atomic_transition() in cancel_payment() and     *)
(* restore_payment()).                                                     *)
THEOREM CancelsAlternateAlways == Spec => []CancelsAlternate
  <1>1. IInv => CancelsAlternate
    BY DEF IInv
  <1> QED
    BY <1>1, InitHolds, StepKeeps, PTL DEF Spec

-----------------------------------------------------------------------------
(* One request at a time.  As long as no two requests have overlapped, the *)
(* rows a request has loaded are those of the tables, and its writes bring *)
(* the sums of payments, the states of installments and the cash along.    *)

Free == \A w \in Sessions : req[w] = Idle
OneRequest == \A v, w \in Sessions : req[v] # Idle /\ req[w] # Idle => v = w

(* What has payments or installments is open.                              *)
OpenRows ==
  /\ \A n \in Receipts : payments[n].status # "absent" => regs[payments[n].reg].open
  /\ \A i \in DOMAIN insts : regs[insts[i].reg].open

(* Only a cancelled payment is refunded; without a row there is no cash.   *)
Refunds ==
  \A n \in Receipts : /\ payments[n].status # "cancelled" => payments[n].refunded = 0
                      /\ payments[n].status = "absent" => payments[n].cash = 0

TablesAgree ==
  OpenRows /\ Refunds /\ PaidIsConfirmed /\ SettledIffNothingLeft /\ CashFollowsPayment

(* What a request has loaded and tested still holds.                       *)
Current(r) ==
  /\ r.op = "plan" => regs[r.reg].open /\ r.regRow = regs[r.reg]
  /\ r.op = "pay" => /\ regs[r.reg].open /\ r.regRow = regs[r.reg]
                     /\ r.i \in DOMAIN insts => r.instRow = insts[r.i]
  /\ r.op = "restore" => r.amount = payments[r.n].refunded
  /\ r.op = "late" =>
       \A i \in r.overdue : /\ i \in DOMAIN insts
                            /\ insts[i].status \in {"pending", "partial"}
                            /\ insts[i].late < r.fee

AInv == OneRequest /\ TablesAgree /\ \A w \in Sessions : Current(req[w])

PlansAddUp ==
  \A r \in Registrations :
    InstsOf(r) = {} /\ InstsOf(r)' # {} =>
      SumFunction([i \in InstsOf(r)' |-> insts'[i].amount]) = regs[r].remaining

-----------------------------------------------------------------------------
(* The paid amount of a registration as a sum over all receipts.           *)

Share(p, r) == IF p.status = "confirmed" /\ p.reg = r THEN p.amount ELSE 0
Shares(table, r) == SumFunctionOnSet([n \in Receipts |-> Share(table[n], r)], Receipts)

LEMMA ReceiptsFinite == IsFiniteSet(Receipts)
BY FS_Interval, ConstantsOK DEF Receipts

LEMMA ShareNat == \A row \in PaymentRow, r \in Registrations : Share(row, r) \in Nat
BY DEF PaymentRow, Share

LEMMA SharesNat ==
  ASSUME NEW table \in [Receipts -> PaymentRow], NEW r \in Registrations
  PROVE  Shares(table, r) \in Nat
<1> DEFINE f == [n \in Receipts |-> Share(table[n], r)]
<1>1. \A n \in Receipts : f[n] \in Nat
  BY ShareNat
<1>2. Shares(table, r) = SumFunctionOnSet(f, Receipts)
  BY DEF Shares
<1> HIDE DEF f
<1> QED BY <1>1, <1>2, ReceiptsFinite, SumNat

(* Receipts that were not confirmed add nothing.                           *)
LEMMA ConfirmedShares ==
  ASSUME NEW table \in [Receipts -> PaymentRow], NEW r \in Registrations,
         NEW C, C = {n \in Receipts : table[n].status = "confirmed" /\ table[n].reg = r}
  PROVE  SumFunction([n \in C |-> table[n].amount]) = Shares(table, r)
<1> DEFINE f == [n \in Receipts |-> Share(table[n], r)]
           g == [n \in C |-> table[n].amount]
<1>1. C \in SUBSET Receipts /\ IsFiniteSet(C) /\ IsFiniteSet(Receipts)
  BY ReceiptsFinite, FS_Subset
<1>2. \A n \in Receipts : f[n] \in Int
  BY ShareNat
<1>3. (\A n \in Receipts \ C : f[n] = 0) /\ \A n \in C : f[n] = g[n]
  BY DEF Share
<1>4. Shares(table, r) = SumFunctionOnSet(f, Receipts) /\ DOMAIN g = C
  BY DEF Shares
<1> HIDE DEF f, g
<1>5. SumFunctionOnSet(f, Receipts) = SumFunctionOnSet(f, C)
  BY <1>1, <1>2, <1>3, SumWhere
<1>6. SumFunctionOnSet(f, C) = SumFunctionOnSet(g, C)
  BY <1>1, <1>3, SumSame
<1>7. SumFunction(g) = SumFunctionOnSet(g, C)
  BY <1>4 DEF SumFunction
<1> QED BY <1>4, <1>5, <1>6, <1>7 DEF g

LEMMA PaidIsShares ==
  ASSUME PaymentsOK
  PROVE  PaidIsConfirmed <=> \A r \in Registrations : regs[r].paid = Shares(payments, r)
<1>1. ASSUME NEW r \in Registrations
      PROVE  AmountOf({n \in Confirmed : payments[n].reg = r}) = Shares(payments, r)
  <2> DEFINE C == {n \in Confirmed : payments[n].reg = r}
  <2>1. C = {n \in Receipts : payments[n].status = "confirmed" /\ payments[n].reg = r}
    BY DEF Confirmed
  <2> HIDE DEF C
  <2>2. SumFunction([n \in C |-> payments[n].amount]) = Shares(payments, r)
    BY <2>1, ConfirmedShares DEF PaymentsOK
  <2> QED BY <2>2 DEF AmountOf, C
<1> QED BY <1>1 DEF PaidIsConfirmed

LEMMA PaidIsSharesNext ==
  ASSUME PaymentsOK'
  PROVE  PaidIsConfirmed' <=> \A r \in Registrations : regs'[r].paid = Shares(payments', r)
<1>1. ASSUME NEW r \in Registrations
      PROVE  AmountOf({n \in Confirmed : payments[n].reg = r})' = Shares(payments', r)
  <2> DEFINE C == {n \in Receipts : payments'[n].status = "confirmed" /\ payments'[n].reg = r}
  <2>1. C = {n \in Confirmed : payments[n].reg = r}'
    BY DEF Confirmed, Receipts
  <2>2. SumFunction([n \in C |-> payments'[n].amount]) = Shares(payments', r)
    <3>1. payments' \in [Receipts -> PaymentRow]
      BY DEF PaymentsOK, Receipts, PaymentRow
    <3> HIDE DEF C
    <3> QED BY <3>1, ConfirmedShares DEF C
  <2> QED BY <2>1, <2>2 DEF AmountOf
<1> QED BY <1>1 DEF PaidIsConfirmed

(* One row of payments changes.                                            *)
RowSet(new, table, n, row) == new = [table EXCEPT ![n] = row]

LEMMA SharesMove ==
  ASSUME NEW table \in [Receipts -> PaymentRow], NEW n \in Receipts, NEW row \in PaymentRow,
         NEW r \in Registrations, NEW new, RowSet(new, table, n, row)
  PROVE  Shares(new, r) = Shares(table, r) - Share(table[n], r) + Share(row, r)
<1> DEFINE f == [k \in Receipts |-> Share(table[k], r)]
           g == [k \in Receipts |-> Share(new[k], r)]
<1>1. \A k \in Receipts : new[k] = IF k = n THEN row ELSE table[k]
  BY DEF RowSet
<1>2. \A k \in Receipts : table[k] \in PaymentRow /\ new[k] \in PaymentRow
  BY <1>1
<1>3. \A k \in Receipts : f[k] \in Int /\ g[k] \in Int
  BY <1>2, ShareNat
<1>4. (\A k \in Receipts \ {n} : g[k] = f[k]) /\ f[n] = Share(table[n], r) /\ g[n] = Share(row, r)
  BY <1>1
<1>5. Shares(table, r) = SumFunctionOnSet(f, Receipts) /\ Shares(new, r) = SumFunctionOnSet(g, Receipts)
  BY DEF Shares
<1> HIDE DEF f, g
<1>6. SumFunctionOnSet(g, Receipts) = SumFunctionOnSet(f, Receipts) - f[n] + g[n]
  BY <1>3, <1>4, ReceiptsFinite, SumChange
<1> QED BY <1>4, <1>5, <1>6

(* A payment is confirmed or cancelled, and its registration's paid amount *)
(* goes with it.                                                           *)
LEMMA PaidMoves ==
  ASSUME TablesOK, PaymentsOK, PaidIsConfirmed, NEW n \in Receipts, NEW row \in PaymentRow,
         NEW amount \in Int,
         RowSet(payments', payments, n, row), PaymentsOK',
         regs' = [regs EXCEPT ![row.reg] = RegAfter(regs[row.reg], amount)],
         \A r \in Registrations :
           Share(row, r) = Share(payments[n], r) + IF r = row.reg THEN amount ELSE 0
  PROVE  PaidIsConfirmed'
<1>1. row.reg \in Registrations
  BY DEF PaymentRow
<1>2. payments \in [Receipts -> PaymentRow] /\ payments' \in [Receipts -> PaymentRow]
  BY DEF PaymentsOK
<1>3. ASSUME NEW r \in Registrations PROVE regs'[r].paid = Shares(payments', r)
  <2> DEFINE old == Shares(payments, r)
             new == Shares(payments', r)
             x == Share(payments[n], r)
             y == Share(row, r)
  <2>1. new = old - x + y
    BY <1>2, SharesMove
  <2>2. old \in Nat /\ new \in Nat /\ x \in Nat /\ y \in Nat
    BY <1>2, SharesNat, ShareNat
  <2>3. regs[r].paid = old
    BY PaidIsShares
  <2>4. y = x + IF r = row.reg THEN amount ELSE 0
    OBVIOUS
  <2> HIDE DEF old, new, x, y
  <2>5. CASE r = row.reg
    <3>1. new = old + amount
      BY <2>1, <2>2, <2>4, <2>5
    <3>2. regs'[r] = RegAfter(regs[r], amount)
      BY <2>5 DEF TablesOK
    <3>3. regs[r] \in RegRow
      BY DEF TablesOK
    <3>4. RegAfter(regs[r], amount).paid = AtLeast0(regs[r].paid + amount)
      BY <3>3 DEF RegAfter, RegRow
    <3> QED BY <2>2, <2>3, <3>1, <3>2, <3>4 DEF AtLeast0, new
  <2>6. CASE r # row.reg
    <3>1. new = old
      BY <2>1, <2>2, <2>4, <2>6
    <3>2. regs'[r] = regs[r]
      BY <2>6, <1>1 DEF TablesOK
    <3> QED BY <2>3, <3>1, <3>2 DEF new
  <2> QED BY <2>5, <2>6
<1> QED BY <1>3, PaidIsSharesNext

-----------------------------------------------------------------------------
(* The rows an amount is applied to, when nobody wrote them meanwhile.     *)

LEMMA FlushLoaded ==
  /\ \A row, edited \in RegRow : Flush(row, row, edited) = edited
  /\ \A row, edited \in InstRow : Flush(row, row, edited) = edited
<1>1. ASSUME NEW row, NEW edited, DOMAIN row = DOMAIN edited,
             edited = [c \in DOMAIN edited |-> edited[c]]
      PROVE  Flush(row, row, edited) = edited
  <2>1. Flush(row, row, edited) = [c \in DOMAIN edited |-> edited[c]]
    BY <1>1 DEF Flush
  <2> QED BY <1>1, <2>1
<1>2. \A row \in RegRow : DOMAIN row = {"total", "paid", "remaining", "open"}
                          /\ row = [c \in DOMAIN row |-> row[c]]
  BY DEF RegRow
<1>3. \A row \in InstRow : DOMAIN row = {"reg", "amount", "late", "paid", "status"}
                           /\ row = [c \in DOMAIN row |-> row[c]]
  BY DEF InstRow
<1> QED BY <1>1, <1>2, <1>3

LEMMA SettledInst ==
  ASSUME NEW row \in InstRow, NEW fee \in Nat, NEW amount \in Int,
         NEW new, new = InstAfter([row EXCEPT !.late = fee], amount)
  PROVE  /\ new.reg = row.reg /\ new.amount = row.amount
         /\ new.status = "paid" <=> Left(new) <= Eps
<1> DEFINE late == [row EXCEPT !.late = fee]
           paid == [late EXCEPT !.paid = AtLeast0(late.paid + amount)]
           status == IF Left(paid) <= Eps THEN "paid"
                     ELSE IF paid.paid > Eps THEN "partial" ELSE "pending"
<1>1. /\ late \in InstRow /\ late.reg = row.reg /\ late.amount = row.amount
      /\ late.paid \in Nat
  BY DEF InstRow
<1>2. AtLeast0(late.paid + amount) \in Nat
  BY <1>1, AtLeast0Nat
<1>3. paid \in InstRow /\ paid.reg = row.reg /\ paid.amount = row.amount
  BY <1>1, <1>2 DEF InstRow
<1>4. new = [paid EXCEPT !.status = status]
  BY DEF InstAfter
<1>5. status = "paid" <=> Left(paid) <= Eps
  OBVIOUS
<1> HIDE DEF paid, status, late
<1>6. /\ new.reg = paid.reg /\ new.amount = paid.amount /\ new.late = paid.late
      /\ new.paid = paid.paid /\ new.status = status
  BY <1>3, <1>4 DEF InstRow
<1> QED BY <1>3, <1>5, <1>6 DEF Left

(* Each row an amount is applied to is the row after that amount.          *)
Applied(reg, i, fee, amount) ==
  /\ regs' = [regs EXCEPT ![reg] = RegAfter(regs[reg], amount)]
  /\ insts' = [insts EXCEPT ![i] = InstAfter([insts[i] EXCEPT !.late = fee], amount)]

LEMMA AppliedAlone ==
  ASSUME TablesOK, NEW reg \in Registrations, NEW i \in Nat,
         NEW instRow, NEW fee, NEW amount \in Int,
         i \in DOMAIN insts => instRow = insts[i] /\ fee \in Nat,
         Apply(reg, i, regs[reg], instRow, fee, amount)
  PROVE  Applied(reg, i, fee, amount)
<1>1. regs[reg] \in RegRow /\ RegAfter(regs[reg], amount) \in RegRow
  BY RegAfterOK DEF TablesOK
<1>2. Flush(regs[reg], regs[reg], RegAfter(regs[reg], amount)) = RegAfter(regs[reg], amount)
  BY <1>1, FlushLoaded
<1>3. regs' = [regs EXCEPT ![reg] = RegAfter(regs[reg], amount)]
  BY <1>2 DEF Apply
<1>4. CASE i \in DOMAIN insts
  <2> DEFINE row == InstAfter([insts[i] EXCEPT !.late = fee], amount)
  <2>1. insts[i] \in InstRow /\ row \in InstRow
    BY <1>4, InstIsRow, InstAfterOK
  <2>2. Flush(insts[i], insts[i], row) = row
    BY <2>1, FlushLoaded
  <2>3. i # 0
    BY <1>4 DEF TablesOK
  <2>4. insts' = [insts EXCEPT ![i] = Flush(insts[i], insts[i], row)]
    BY <1>4, <2>3 DEF Apply
  <2> QED BY <1>3, <2>2, <2>4 DEF Applied
<1>5. CASE i \notin DOMAIN insts
  <2>1. \A row : [insts EXCEPT ![i] = row] = insts
    BY <1>5 DEF TablesOK
  <2>2. insts' = insts
    BY <2>1 DEF Apply
  <2> QED BY <1>3, <2>1, <2>2 DEF Applied
<1> QED BY <1>4, <1>5

(* Applying an amount keeps the registrations open and the installments    *)
(* theirs, and settles an installment when nothing of it is left.          *)
LEMMA ApplyAgrees ==
  ASSUME TablesOK, SettledIffNothingLeft, NEW reg \in Registrations, NEW i \in Nat,
         NEW instRow, NEW fee, NEW amount \in Int,
         i \in DOMAIN insts => instRow = insts[i] /\ fee \in Nat,
         Apply(reg, i, regs[reg], instRow, fee, amount)
  PROVE  /\ \A x \in Registrations : regs'[x].open = regs[x].open
         /\ DOMAIN insts' = DOMAIN insts
         /\ \A j \in DOMAIN insts : insts'[j].reg = insts[j].reg
         /\ SettledIffNothingLeft'
<1> DEFINE new == InstAfter([insts[i] EXCEPT !.late = fee], amount)
<1>1. /\ regs' = [regs EXCEPT ![reg] = RegAfter(regs[reg], amount)]
      /\ insts' = [insts EXCEPT ![i] = new]
  <2>1. Applied(reg, i, fee, amount)
    BY AppliedAlone
  <2> QED BY <2>1 DEF Applied
<1>2. RegAfter(regs[reg], amount).open = regs[reg].open
  <2>1. regs[reg] \in RegRow
    BY DEF TablesOK
  <2> QED BY <2>1 DEF RegAfter, RegRow
<1>3. \A x \in Registrations : regs'[x].open = regs[x].open
  BY <1>1, <1>2 DEF TablesOK
<1>4. i \in DOMAIN insts => new.reg = insts[i].reg /\ (new.status = "paid" <=> Left(new) <= Eps)
  BY InstIsRow, SettledInst
<1> HIDE DEF new
<1>5. DOMAIN insts' = DOMAIN insts /\ \A j \in DOMAIN insts : insts'[j] = IF j = i THEN new ELSE insts[j]
  BY <1>1 DEF TablesOK
<1>6. \A j \in DOMAIN insts : insts'[j].reg = insts[j].reg
  BY <1>4, <1>5
<1>7. ASSUME NEW j \in DOMAIN insts', insts'[j].paid > 0
      PROVE  insts'[j].status = "paid" <=> Left(insts'[j]) <= Eps
  <2>1. CASE j = i
    BY <1>4, <1>5, <2>1
  <2>2. CASE j # i
    BY <1>5, <1>7, <2>2 DEF SettledIffNothingLeft
  <2> QED BY <2>1, <2>2
<1>8. SettledIffNothingLeft'
  BY <1>7 DEF SettledIffNothingLeft, Left, Eps
<1> QED BY <1>3, <1>5, <1>6, <1>8

-----------------------------------------------------------------------------
(* A row of payments.                                                      *)

(* The cash of a payment moves as its row says.                            *)
LEMMA CashMoves ==
  ASSUME PaymentsOK, CashOK, CashFollowsPayment, NEW n \in Receipts, NEW row \in PaymentRow,
         NEW amount \in Int, RowSet(payments', payments, n, row), Settle(n, amount),
         Moved(row.cash) - Moved(row.refunded)
           = Moved(payments[n].cash) - Moved(payments[n].refunded) + Moved(amount)
  PROVE  CashFollowsPayment'
<1>1. \A k \in Receipts : payments'[k] = IF k = n THEN row ELSE payments[k]
  BY DEF RowSet, PaymentsOK
<1>2. \A k \in Receipts : flow'[k] = IF k = n THEN flow[n] + Moved(amount) ELSE flow[k]
  BY DEF Settle, CashOK
<1>3. flow[n] = Moved(payments[n].cash) - Moved(payments[n].refunded)
  BY DEF CashFollowsPayment
<1>4. ASSUME NEW k \in Receipts
      PROVE  flow'[k] = Moved(payments'[k].cash) - Moved(payments'[k].refunded)
  BY <1>1, <1>2, <1>3 DEF CashFollowsPayment
<1> QED BY <1>4 DEF CashFollowsPayment, Moved, Eps, Receipts

(* A payment becomes or ceases to be confirmed: its amount is applied to   *)
(* the registration and the installment, its cash to the cashbox.          *)
LEMMA PaymentMoves ==
  ASSUME IInv, IInv', TablesAgree, NEW n \in Receipts, NEW row \in PaymentRow,
         RowSet(payments', payments, n, row), regs[row.reg].open, row.status # "absent",
         row.status # "cancelled" => row.refunded = 0,
         NEW amount \in Int, NEW instRow, NEW fee,
         row.inst \in DOMAIN insts => instRow = insts[row.inst] /\ fee \in Nat,
         Apply(row.reg, row.inst, regs[row.reg], instRow, fee, amount),
         \A r \in Registrations :
           Share(row, r) = Share(payments[n], r) + IF r = row.reg THEN amount ELSE 0,
         NEW moved \in Int, Settle(n, moved),
         Moved(row.cash) - Moved(row.refunded)
           = Moved(payments[n].cash) - Moved(payments[n].refunded) + Moved(moved)
  PROVE  TablesAgree' /\ PlansAddUp
<1>1. row.reg \in Registrations /\ row.inst \in Nat
  BY DEF PaymentRow
<1>2. TablesOK /\ PaymentsOK /\ CashOK /\ TablesOK' /\ PaymentsOK'
  BY DEF IInv
<1>3. OpenRows /\ Refunds /\ PaidIsConfirmed /\ SettledIffNothingLeft /\ CashFollowsPayment
  BY DEF TablesAgree
<1>4. /\ \A x \in Registrations : regs'[x].open = regs[x].open
      /\ DOMAIN insts' = DOMAIN insts
      /\ \A j \in DOMAIN insts : insts'[j].reg = insts[j].reg
      /\ SettledIffNothingLeft'
  BY <1>1, <1>2, <1>3, ApplyAgrees
<1>5. \A k \in Receipts : payments'[k] = IF k = n THEN row ELSE payments[k]
  BY <1>2 DEF RowSet, PaymentsOK
<1>6. OpenRows'
  <2>1. ASSUME NEW k \in Receipts, payments'[k].status # "absent"
        PROVE  regs'[payments'[k].reg].open
    <3>1. payments'[k] \in PaymentRow
      BY <1>2, <1>5 DEF PaymentsOK
    <3>2. payments'[k].reg \in Registrations
      BY <3>1 DEF PaymentRow
    <3> QED BY <1>3, <1>4, <1>5, <2>1, <3>2 DEF OpenRows
  <2>2. ASSUME NEW j \in DOMAIN insts' PROVE regs'[insts'[j].reg].open
    <3>1. insts[j].reg \in Registrations
      BY <1>2, <1>4, InstIsRow, InstFields
    <3> QED BY <1>3, <1>4, <3>1 DEF OpenRows
  <2> QED BY <2>1, <2>2 DEF OpenRows, Receipts
<1>7. Refunds'
  BY <1>3, <1>5 DEF Refunds, Receipts
<1>8. PaidIsConfirmed'
  <2>1. Applied(row.reg, row.inst, fee, amount)
    BY <1>1, <1>2, AppliedAlone
  <2>2. regs' = [regs EXCEPT ![row.reg] = RegAfter(regs[row.reg], amount)]
    BY <2>1 DEF Applied
  <2> QED BY <1>2, <1>3, <2>2, PaidMoves
<1>9. CashFollowsPayment'
  BY <1>2, <1>3, CashMoves
<1>10. \A r \in Registrations : InstsOf(r)' = InstsOf(r)
  BY <1>4 DEF InstsOf
<1> QED BY <1>4, <1>6, <1>7, <1>8, <1>9, <1>10 DEF TablesAgree, PlansAddUp

LEMMA MovedIs ==
  /\ \A x \in Int : Moved(x) \in Int /\ Moved(-x) = -Moved(x)
  /\ Moved(0) = 0
BY DEF Moved, Eps

LEMMA PaymentFields ==
  \A row \in PaymentRow : /\ row.reg \in Registrations /\ row.inst \in Nat
                          /\ row.amount \in Nat /\ row.cash \in Nat /\ row.refunded \in Nat
BY DEF PaymentRow

(* The rows a handler loads after its compare-and-set are those it writes. *)
LEMMA FreshRows ==
  ASSUME TablesOK, NEW p \in Receipts, NEW amount, payments[p] \in PaymentRow, ApplyFresh(p, amount)
  PROVE  \E instRow, fee :
           /\ payments[p].inst \in DOMAIN insts => instRow = insts[payments[p].inst] /\ fee \in Nat
           /\ Apply(payments[p].reg, payments[p].inst, regs[payments[p].reg], instRow, fee, amount)
<1> DEFINE i == payments[p].inst
           row == IF i = 0 THEN NoInst ELSE insts[i]
<1>1. i \in DOMAIN insts => row = insts[i] /\ row.late \in Nat
  BY InstIsRow, InstFields DEF TablesOK
<1>2. Apply(payments[p].reg, i, regs[payments[p].reg], row, row.late, amount)
  BY DEF ApplyFresh
<1> HIDE DEF row
<1> QED BY <1>1, <1>2, Zenon

LEMMA CommitPaymentAgrees ==
  ASSUME IInv, IInv', TablesAgree, NEW w \in Sessions, Current(req[w]), CommitPayment(w)
  PROVE  TablesAgree' /\ PlansAddUp
<1> DEFINE r == req[w]
           row == [reg |-> r.reg, inst |-> r.i, amount |-> r.amount, cash |-> r.cash,
                   status |-> "confirmed", refunded |-> 0]
<1>1. /\ r.op = "pay" /\ r.reg \in Registrations /\ r.i \in Nat
      /\ r.amount \in Nat /\ r.cash \in Nat /\ r.fee \in Nat
  BY DEF CommitPayment, IInv, RequestsOK, Request, Idle
<1>2. /\ regs[r.reg].open /\ r.regRow = regs[r.reg]
      /\ r.i \in DOMAIN insts => r.instRow = insts[r.i]
  BY <1>1 DEF Current
<1>3. /\ NewPayment(r.reg, r.i, r.amount, r.cash)
      /\ Apply(r.reg, r.i, r.regRow, r.instRow, r.fee, r.amount)
      /\ Settle(seq, r.cash)
  BY DEF CommitPayment
<1>4. seq \in Receipts /\ RowSet(payments', payments, seq, row)
  BY <1>3 DEF NewPayment, RowSet
<1>5. row \in PaymentRow
  BY <1>1 DEF PaymentRow
<1>6. payments[seq].status = "absent" /\ payments[seq].refunded = 0 /\ payments[seq].cash = 0
  BY <1>4 DEF IInv, PaymentsOK, Fresh, Receipts, TablesAgree, Refunds
<1>7. /\ row.status = "confirmed" /\ row.refunded = 0 /\ row.reg = r.reg /\ row.inst = r.i
      /\ row.cash = r.cash /\ row.amount = r.amount
  OBVIOUS
<1> HIDE DEF r, row
<1>8. \A x \in Registrations :
        Share(row, x) = Share(payments[seq], x) + IF x = row.reg THEN r.amount ELSE 0
  BY <1>1, <1>6, <1>7 DEF Share
<1>9. Moved(row.cash) - Moved(row.refunded)
        = Moved(payments[seq].cash) - Moved(payments[seq].refunded) + Moved(r.cash)
  BY <1>1, <1>6, <1>7, MovedIs
<1>10. /\ regs[row.reg].open /\ row.status # "absent" /\ (row.status # "cancelled" => row.refunded = 0)
       /\ row.inst \in DOMAIN insts => r.instRow = insts[row.inst] /\ r.fee \in Nat
       /\ Apply(row.reg, row.inst, regs[row.reg], r.instRow, r.fee, r.amount)
  BY <1>1, <1>2, <1>3, <1>7
<1>11. r.amount \in Int /\ r.cash \in Int
  BY <1>1
<1> QED BY <1>3, <1>4, <1>5, <1>8, <1>9, <1>10, <1>11, PaymentMoves

LEMMA CommitCancelAgrees ==
  ASSUME IInv, IInv', TablesAgree, NEW w \in Sessions, CommitCancel(w)
  PROVE  TablesAgree' /\ PlansAddUp
<1> DEFINE r == req[w]
           n == r.n
           old == payments[n]
           row == [old EXCEPT !.status = "cancelled", !.refunded = r.amount]
<1>1. n \in Receipts /\ r.amount \in Nat
  BY DEF CommitCancel, IInv, RequestsOK, Request, Idle
<1>2. old \in PaymentRow
  BY <1>1 DEF IInv, PaymentsOK
<1>3. row \in PaymentRow
  BY <1>1, <1>2 DEF PaymentRow
<1>4. /\ row.status = "cancelled" /\ row.refunded = r.amount /\ row.reg = old.reg
      /\ row.inst = old.inst /\ row.cash = old.cash /\ row.amount = old.amount
  BY <1>2 DEF PaymentRow
<1>5. /\ payments' = [payments EXCEPT ![n] = row]
      /\ old.status = "confirmed" /\ Settle(n, -r.amount) /\ ApplyFresh(n, -old.amount)
  BY DEF CommitCancel, CanTransition
<1>6. RowSet(payments', payments, n, row)
  BY <1>5 DEF RowSet
<1>7. old.refunded = 0 /\ regs[old.reg].open
  BY <1>1, <1>5 DEF TablesAgree, Refunds, OpenRows
<1>8. /\ old.amount \in Nat /\ old.cash \in Nat /\ old.refunded \in Nat
  BY <1>2, PaymentFields
<1>9. PICK instRow, fee :
        /\ old.inst \in DOMAIN insts => instRow = insts[old.inst] /\ fee \in Nat
        /\ Apply(old.reg, old.inst, regs[old.reg], instRow, fee, -old.amount)
  BY <1>1, <1>2, <1>5, FreshRows DEF IInv
<1> HIDE DEF row, old, n, r
<1>10. \A x \in Registrations :
         Share(row, x) = Share(old, x) + IF x = row.reg THEN -old.amount ELSE 0
  BY <1>4, <1>5, <1>8 DEF Share
<1>11. Moved(row.cash) - Moved(row.refunded) = Moved(old.cash) - Moved(old.refunded) + Moved(-r.amount)
  <2>1. Moved(old.refunded) = 0 /\ Moved(-r.amount) = -Moved(r.amount)
        /\ Moved(r.amount) \in Int /\ Moved(old.cash) \in Int
    BY <1>1, <1>7, <1>8, MovedIs
  <2> HIDE DEF Moved
  <2> QED BY <1>4, <2>1
<1>12. /\ regs[row.reg].open /\ row.status # "absent" /\ (row.status # "cancelled" => row.refunded = 0)
       /\ row.inst \in DOMAIN insts => instRow = insts[row.inst] /\ fee \in Nat
       /\ Apply(row.reg, row.inst, regs[row.reg], instRow, fee, -old.amount)
  BY <1>4, <1>7, <1>9
<1>13. -r.amount \in Int /\ -old.amount \in Int
  BY <1>1, <1>8
<1>14. payments[n] = old
  BY DEF old
<1> QED BY <1>1, <1>3, <1>5, <1>6, <1>10, <1>11, <1>12, <1>13, <1>14, PaymentMoves

LEMMA CommitRestoreAgrees ==
  ASSUME IInv, IInv', TablesAgree, NEW w \in Sessions, Current(req[w]), CommitRestore(w)
  PROVE  TablesAgree' /\ PlansAddUp
<1> DEFINE r == req[w]
           n == r.n
           old == payments[n]
           row == [old EXCEPT !.status = "confirmed", !.refunded = 0]
<1>1. n \in Receipts /\ r.amount \in Nat /\ r.op = "restore"
  BY DEF CommitRestore, IInv, RequestsOK, Request, Idle
<1>2. old \in PaymentRow
  BY <1>1 DEF IInv, PaymentsOK
<1>3. row \in PaymentRow
  BY <1>2 DEF PaymentRow
<1>4. /\ row.status = "confirmed" /\ row.refunded = 0 /\ row.reg = old.reg
      /\ row.inst = old.inst /\ row.cash = old.cash /\ row.amount = old.amount
  BY <1>2 DEF PaymentRow
<1>5. /\ payments' = [payments EXCEPT ![n] = row]
      /\ old.status = "cancelled" /\ Settle(n, r.amount) /\ ApplyFresh(n, old.amount)
  BY DEF CommitRestore, CanTransition
<1>6. RowSet(payments', payments, n, row)
  BY <1>5 DEF RowSet
<1>7. regs[old.reg].open /\ r.amount = old.refunded
  BY <1>1, <1>5 DEF TablesAgree, OpenRows, Current
<1>8. /\ old.amount \in Nat /\ old.cash \in Nat /\ old.refunded \in Nat
  BY <1>2, PaymentFields
<1>9. PICK instRow, fee :
        /\ old.inst \in DOMAIN insts => instRow = insts[old.inst] /\ fee \in Nat
        /\ Apply(old.reg, old.inst, regs[old.reg], instRow, fee, old.amount)
  BY <1>1, <1>2, <1>5, FreshRows DEF IInv
<1> HIDE DEF row, old, n, r
<1>10. \A x \in Registrations :
         Share(row, x) = Share(old, x) + IF x = row.reg THEN old.amount ELSE 0
  BY <1>4, <1>5, <1>8 DEF Share
<1>11. Moved(row.cash) - Moved(row.refunded) = Moved(old.cash) - Moved(old.refunded) + Moved(r.amount)
  <2>1. Moved(row.refunded) = 0 /\ Moved(old.refunded) \in Int /\ Moved(old.cash) \in Int
    BY <1>4, <1>8, MovedIs
  <2> HIDE DEF Moved
  <2> QED BY <1>4, <1>7, <2>1
<1>12. /\ regs[row.reg].open /\ row.status # "absent" /\ (row.status # "cancelled" => row.refunded = 0)
       /\ row.inst \in DOMAIN insts => instRow = insts[row.inst] /\ fee \in Nat
       /\ Apply(row.reg, row.inst, regs[row.reg], instRow, fee, old.amount)
  BY <1>4, <1>7, <1>9
<1>13. r.amount \in Int /\ old.amount \in Int
  BY <1>1, <1>8
<1>14. payments[n] = old
  BY DEF old
<1> QED BY <1>1, <1>3, <1>5, <1>6, <1>10, <1>11, <1>12, <1>13, <1>14, PaymentMoves

(* A registration that is not open yet has no payments.                    *)
LEMMA NothingPaid ==
  ASSUME PaymentsOK, OpenRows, NEW r \in Registrations, ~regs[r].open
  PROVE  Shares(payments, r) = 0
<1> DEFINE f == [n \in Receipts |-> Share(payments[n], r)]
<1>1. \A n \in Receipts : f[n] = 0
  BY DEF Share, OpenRows
<1>2. Shares(payments, r) = SumFunctionOnSet(f, Receipts)
  BY DEF Shares
<1> HIDE DEF f
<1> QED BY <1>1, <1>2, ReceiptsFinite, SumOfZeros

LEMMA RegisterAgrees ==
  ASSUME IInv, IInv', TablesAgree, NEW w \in Sessions, NEW reg \in Registrations,
         NEW total \in Totals, NEW initial \in Amounts \cup {0}, NEW cashPart \in Amounts \cup {0},
         Register(w, reg, total, initial, cashPart)
  PROVE  TablesAgree' /\ PlansAddUp
<1> DEFINE row == [reg |-> reg, inst |-> 0, amount |-> initial, cash |-> cashPart,
                   status |-> "confirmed", refunded |-> 0]
<1>1. initial \in Nat /\ cashPart \in Nat /\ total \in Nat
  BY ConstantsOK
<1>2. TablesOK /\ PaymentsOK /\ CashOK /\ PaymentsOK' /\ Fresh
  BY DEF IInv
<1>3. OpenRows /\ Refunds /\ PaidIsConfirmed /\ SettledIffNothingLeft /\ CashFollowsPayment
  BY DEF TablesAgree
<1>4. insts' = insts /\ ~regs[reg].open /\ initial >= 0
  BY <1>1 DEF Register
<1>5. /\ regs'[reg].paid = initial /\ regs'[reg].open
      /\ \A x \in Registrations \ {reg} : regs'[x] = regs[x]
  BY <1>2 DEF Register, TablesOK
<1>6. \A j \in DOMAIN insts : insts[j].reg \in Registrations
  BY <1>2, InstIsRow, InstFields
<1>7. payments \in [Receipts -> PaymentRow] /\ payments' \in [Receipts -> PaymentRow]
  BY <1>2 DEF PaymentsOK, Receipts, PaymentRow
<1>8. \A x \in Registrations : Shares(payments, x) \in Nat
  BY <1>7, SharesNat
<1>9. /\ Shares(payments, reg) = 0
      /\ \A x \in Registrations : regs[x].paid = Shares(payments, x)
  BY <1>2, <1>3, <1>4, NothingPaid, PaidIsShares
<1>10. CASE initial > 0
  <2>1. row \in PaymentRow
    BY <1>1 DEF PaymentRow
  <2>2. RowSet(payments', payments, seq, row) /\ seq \in Receipts /\ Settle(seq, cashPart)
    BY <1>10 DEF Register, NewPayment, RowSet
  <2>3. payments[seq].status = "absent" /\ payments[seq].refunded = 0 /\ payments[seq].cash = 0
    BY <1>2, <1>3, <2>2 DEF PaymentsOK, Fresh, Receipts, Refunds
  <2>4. /\ row.status = "confirmed" /\ row.refunded = 0 /\ row.reg = reg
        /\ row.cash = cashPart /\ row.amount = initial
    OBVIOUS
  <2> HIDE DEF row
  <2>5. \A x \in Receipts : payments'[x] = IF x = seq THEN row ELSE payments[x]
    BY <1>7, <2>2 DEF RowSet
  <2>6. OpenRows'
    <3>1. ASSUME NEW k \in Receipts, payments'[k].status # "absent"
          PROVE  regs'[payments'[k].reg].open
      <4>1. payments'[k].reg \in Registrations
        BY <1>7, PaymentFields
      <4> QED BY <1>3, <1>5, <2>4, <2>5, <3>1, <4>1 DEF OpenRows
    <3> QED BY <1>3, <1>4, <1>5, <1>6, <3>1 DEF OpenRows, Receipts
  <2>7. Refunds'
    BY <1>3, <2>4, <2>5 DEF Refunds, Receipts
  <2>8. \A x \in Registrations : regs'[x].paid = Shares(payments', x)
    <3>1. ASSUME NEW x \in Registrations PROVE regs'[x].paid = Shares(payments', x)
      <4>1. Shares(payments', x) = Shares(payments, x) - Share(payments[seq], x) + Share(row, x)
        BY <1>7, <2>1, <2>2, SharesMove
      <4>2. /\ Share(payments[seq], x) = 0
            /\ Share(row, x) = IF x = reg THEN initial ELSE 0
        BY <2>3, <2>4 DEF Share
      <4> QED BY <1>1, <1>5, <1>8, <1>9, <4>1, <4>2
    <3> QED BY <3>1
  <2>9. CashFollowsPayment'
    <3>1. Moved(row.cash) - Moved(row.refunded)
            = Moved(payments[seq].cash) - Moved(payments[seq].refunded) + Moved(cashPart)
      BY <1>1, <2>3, <2>4, MovedIs
    <3> QED BY <1>1, <1>2, <1>3, <2>1, <2>2, <3>1, CashMoves
  <2>10. PaidIsConfirmed'
    BY <1>2, <2>8, PaidIsSharesNext
  <2>11. SettledIffNothingLeft'
    BY <1>3, <1>4 DEF SettledIffNothingLeft, Left, Eps
  <2> QED BY <1>4, <2>6, <2>7, <2>9, <2>10, <2>11 DEF TablesAgree, PlansAddUp, InstsOf
<1>11. CASE initial = 0
  <2>1. UNCHANGED <<payments, flow>>
    BY <1>11 DEF Register, books
  <2>2. OpenRows'
    <3>1. \A k \in Receipts : payments[k].reg \in Registrations
      BY <1>7, PaymentFields
    <3> QED BY <1>3, <1>4, <1>5, <1>6, <2>1, <3>1 DEF OpenRows, Receipts
  <2>3. PaidIsConfirmed'
    <3>1. \A x \in Registrations : regs'[x].paid = Shares(payments', x)
      BY <1>5, <1>9, <1>11, <2>1
    <3> QED BY <1>2, <3>1, PaidIsSharesNext
  <2>4. SettledIffNothingLeft' /\ Refunds' /\ CashFollowsPayment'
    BY <1>3, <1>4, <2>1 DEF SettledIffNothingLeft, Left, Eps, Refunds, CashFollowsPayment,
                            Moved, Receipts
  <2> QED BY <1>4, <2>2, <2>3, <2>4 DEF TablesAgree, PlansAddUp, InstsOf
<1> QED BY <1>1, <1>10, <1>11

-----------------------------------------------------------------------------
(* Installments.                                                           *)

(* The last part takes what rounding the others left over.                 *)
LEMMA PlanSum ==
  ASSUME NEW remaining \in Nat, NEW count \in Nat \ {0}, NEW n \in Nat, NEW f,
         \A k \in 1..count : f[n + k] = PlanAmount(remaining, count, k)
  PROVE  SumFunctionOnSet(f, (n + 1)..(n + count)) = remaining
<1> DEFINE S == (n + 1)..(n + count)
           T == (n + 1)..(n + (count - 1))
           part == RoundDiv(remaining, count)
           last == n + count
<1>1. part \in Int
  BY DEF RoundDiv
<1> HIDE DEF part
<1>2. \A x \in S : x - n \in 1..count /\ n + (x - n) = x
  OBVIOUS
<1>3. \A x \in S : f[x] = PlanAmount(remaining, count, x - n)
  <2>1. ASSUME NEW x \in S PROVE f[x] = PlanAmount(remaining, count, x - n)
    <3>1. PICK k \in 1..count : k = x - n /\ n + k = x
      BY <1>2
    <3> QED BY <3>1
  <2> QED BY <2>1
<1>4. \A x \in S : x # last => f[x] = part
  BY <1>3 DEF PlanAmount, part
<1>5. f[last] = remaining - part * (count - 1) /\ last \in S
  BY <1>3 DEF PlanAmount, part
<1>6. part * (count - 1) \in Int
  <2>1. \A x, y \in Int : x * y \in Int
    OBVIOUS
  <2> QED BY <1>1, <2>1
<1>7. \A x \in S : f[x] \in Int
  BY <1>1, <1>4, <1>5, <1>6
<1>8. IsFiniteSet(S) /\ IsFiniteSet(T) /\ Cardinality(T) = count - 1 /\ S \ {last} = T
  <2>1. IsFiniteSet(S) /\ IsFiniteSet(T)
    BY FS_Interval
  <2>2. Cardinality(T) = count - 1
    BY FS_Interval
  <2>3. S \ {last} = T
    OBVIOUS
  <2> QED BY <2>1, <2>2, <2>3
<1>9. \A x \in T : f[x] = part
  BY <1>4
<1> HIDE DEF S, T, last
<1>10. SumFunctionOnSet(f, S) = f[last] + SumFunctionOnSet(f, S \ {last})
  BY <1>5, <1>7, <1>8, SumOut
<1>11. SumFunctionOnSet(f, T) = (count - 1) * part
  BY <1>1, <1>8, <1>9, SumConstant
<1>12. (count - 1) * part = part * (count - 1)
  BY <1>1
<1>13. SumFunctionOnSet(f, S) = remaining
  <2> DEFINE others == part * (count - 1)
             sum == SumFunctionOnSet(f, T)
             lastPart == f[last]
  <2>1. lastPart = remaining - others /\ others \in Int /\ sum = others
    BY <1>5, <1>6, <1>11, <1>12
  <2>2. SumFunctionOnSet(f, S) = lastPart + sum
    BY <1>8, <1>10
  <2> HIDE DEF others, sum, lastPart
  <2> QED BY <2>1, <2>2
<1> QED BY <1>13 DEF S

(* Payments and registrations stay; each installment is of an open         *)
(* registration and settled when nothing of it is left.                    *)
LEMMA InstsAgree ==
  ASSUME IInv, TablesAgree, UNCHANGED <<regs, books, cash>>,
         \A j \in DOMAIN insts' : regs[insts'[j].reg].open,
         \A j \in DOMAIN insts' :
           insts'[j].paid > 0 => (insts'[j].status = "paid" <=> Left(insts'[j]) <= Eps)
  PROVE  TablesAgree'
<1>1. SettledIffNothingLeft'
  BY DEF SettledIffNothingLeft, Left, Eps
<1>2. OpenRows' /\ Refunds' /\ CashFollowsPayment'
  BY DEF TablesAgree, OpenRows, Refunds, CashFollowsPayment, books, Moved, Eps, Receipts
<1>3. PaidIsConfirmed'
  BY DEF TablesAgree, PaidIsConfirmed, AmountOf, Confirmed, books, Receipts
<1> QED BY <1>1, <1>2, <1>3 DEF TablesAgree

LEMMA CommitPlanAgrees ==
  ASSUME IInv, TablesAgree, NEW w \in Sessions, Current(req[w]), CommitPlan(w)
  PROVE  TablesAgree' /\ PlansAddUp
<1> DEFINE r == req[w]
           left == r.regRow.remaining
           part(k) == [NoInst EXCEPT !.reg = r.reg, !.amount = PlanAmount(left, r.count, k)]
           new == [k \in 1..r.count |-> part(k)]
           len == Len(insts)
<1>1. r.op = "plan" /\ r.reg \in Registrations /\ r.count \in Nat \ {0} /\ left \in Nat
  <2>1. r \in Request /\ r.op = "plan"
    BY DEF CommitPlan, IInv, RequestsOK
  <2>2. r.reg \in Registrations /\ r.count \in 1..MaxParts /\ r.regRow \in RegRow
    BY <2>1 DEF Request, Idle
  <2>3. \A row \in RegRow : row.remaining \in Nat
    BY DEF RegRow
  <2> QED BY <2>1, <2>2, <2>3, ConstantsOK
<1>2. regs[r.reg].open /\ left = regs[r.reg].remaining
  BY <1>1 DEF Current
<1>3. ASSUME NEW k \in 1..r.count
      PROVE  new[k].reg = r.reg /\ new[k].paid = 0 /\ new[k].amount = PlanAmount(left, r.count, k)
  <2>1. new[k] = part(k)
    OBVIOUS
  <2> QED BY <2>1 DEF NoInst
<1>4. insts' = insts \o new /\ DOMAIN new = 1..r.count /\ new \in Seq(Range(new))
      /\ UNCHANGED <<regs, books, cash>>
  <2>1. \A k \in 1..r.count : new[k] \in Range(new)
    BY DEF Range
  <2>2. new \in [1..r.count -> Range(new)]
    BY <2>1
  <2>3. new \in Seq(Range(new))
    <3> HIDE DEF new
    <3> QED BY <1>1, <2>2
  <2> QED BY <2>3 DEF CommitPlan
<1> HIDE DEF new, r
<1>5. insts \in Seq(InstRow) /\ len \in Nat /\ DOMAIN insts = 1..len
  BY DEF IInv, TablesOK
<1>6. Len(new) = r.count
  BY <1>1, <1>4
<1>7. DOMAIN insts' = 1..(len + r.count)
  BY <1>1, <1>4, <1>5, <1>6
<1>8. \A j \in 1..len : insts'[j] = insts[j]
  BY <1>1, <1>4, <1>5, <1>6
<1>9. \A k \in 1..r.count : insts'[len + k] = new[k]
  BY <1>1, <1>4, <1>5, <1>6
<1>10. \A j \in 1..(len + r.count) : j > len => j - len \in 1..r.count /\ insts'[j] = new[j - len]
  <2>1. ASSUME NEW j \in 1..(len + r.count), j > len
        PROVE  j - len \in 1..r.count /\ insts'[j] = new[j - len]
    <3>1. PICK k \in 1..r.count : k = j - len /\ len + k = j
      BY <1>1, <1>5, <2>1
    <3> QED BY <1>9, <3>1
  <2> QED BY <2>1
<1>11. \A j \in 1..(len + r.count) : j > len => insts'[j].reg = r.reg /\ insts'[j].paid = 0
  BY <1>3, <1>10
<1>12. TablesAgree'
  <2>1. ASSUME NEW j \in DOMAIN insts' PROVE regs[insts'[j].reg].open
    <3>1. CASE j > len
      BY <1>2, <1>7, <1>11, <2>1, <3>1
    <3>2. CASE ~(j > len)
      <4>1. j \in DOMAIN insts /\ insts'[j] = insts[j]
        BY <1>1, <1>5, <1>7, <1>8, <2>1, <3>2
      <4> QED BY <4>1 DEF TablesAgree, OpenRows
    <3> QED BY <3>1, <3>2
  <2>2. ASSUME NEW j \in DOMAIN insts', insts'[j].paid > 0
        PROVE  insts'[j].status = "paid" <=> Left(insts'[j]) <= Eps
    <3>1. j \in DOMAIN insts /\ insts'[j] = insts[j]
      BY <1>1, <1>5, <1>7, <1>8, <1>11, <2>2
    <3> QED BY <2>2, <3>1 DEF TablesAgree, SettledIffNothingLeft
  <2> QED BY <1>4, <2>1, <2>2, InstsAgree
<1>13. PlansAddUp
  <2> SUFFICES ASSUME NEW x \in Registrations, InstsOf(x) = {}, InstsOf(x)' # {}
               PROVE  SumFunction([i \in InstsOf(x)' |-> insts'[i].amount]) = regs[x].remaining
    BY DEF PlansAddUp
  <2> DEFINE S == InstsOf(x)'
             f == [i \in S |-> insts'[i].amount]
  <2>1. \A j \in 1..len : insts'[j].reg # x
    BY <1>5, <1>8 DEF InstsOf
  <2>2. S = {j \in 1..(len + r.count) : insts'[j].reg = x}
    BY <1>7 DEF InstsOf
  <2>3. x = r.reg
    <3>1. PICK j \in 1..(len + r.count) : insts'[j].reg = x
      BY <2>2
    <3>2. j > len
      BY <1>1, <1>5, <2>1, <3>1
    <3> QED BY <1>11, <3>1, <3>2
  <2>4. S = (len + 1)..(len + r.count)
    BY <1>1, <1>5, <1>11, <2>1, <2>2, <2>3
  <2>5. \A k \in 1..r.count : f[len + k] = PlanAmount(left, r.count, k)
    <3>1. ASSUME NEW k \in 1..r.count PROVE f[len + k] = PlanAmount(left, r.count, k)
      <4>1. len + k \in S
        BY <1>1, <1>5, <2>4
      <4> QED BY <1>3, <1>9, <4>1
    <3> QED BY <3>1
  <2>6. DOMAIN f = S
    OBVIOUS
  <2> HIDE DEF f, S, left
  <2>7. SumFunctionOnSet(f, (len + 1)..(len + r.count)) = left
    BY <1>1, <1>5, <2>5, PlanSum
  <2>8. SumFunction(f) = left
    BY <2>4, <2>6, <2>7 DEF SumFunction
  <2> QED BY <1>2, <2>3, <2>8 DEF f, S
<1> QED BY <1>12, <1>13

LEMMA CommitLateFeeAgrees ==
  ASSUME IInv, TablesAgree, NEW w \in Sessions, Current(req[w]), CommitLateFee(w)
  PROVE  TablesAgree' /\ PlansAddUp
<1> DEFINE r == req[w]
<1>1. r.op = "late" /\ r.fee \in Nat
  BY DEF CommitLateFee, IInv, RequestsOK, Request, Idle
<1>2. \A i \in r.overdue : insts[i].status \in {"pending", "partial"} /\ insts[i].late < r.fee
  BY <1>1 DEF Current
<1>3. /\ insts' = [i \in DOMAIN insts |->
           IF i \in r.overdue THEN [insts[i] EXCEPT !.late = r.fee] ELSE insts[i]]
      /\ UNCHANGED <<regs, books, cash>>
  BY DEF CommitLateFee
<1> HIDE DEF r
<1>4. ASSUME NEW i \in DOMAIN insts
      PROVE  /\ insts'[i].reg = insts[i].reg
             /\ insts'[i].paid > 0 => (insts'[i].status = "paid" <=> Left(insts'[i]) <= Eps)
  <2>1. insts[i] \in InstRow
    BY InstIsRow DEF IInv
  <2>2. insts[i].paid > 0 => (insts[i].status = "paid" <=> Left(insts[i]) <= Eps)
    BY DEF TablesAgree, SettledIffNothingLeft
  <2>3. CASE i \in r.overdue
    <3>1. insts'[i] = [insts[i] EXCEPT !.late = r.fee]
      BY <1>3, <2>3
    <3>2. /\ insts'[i].reg = insts[i].reg /\ insts'[i].amount = insts[i].amount
          /\ insts'[i].paid = insts[i].paid /\ insts'[i].status = insts[i].status
          /\ insts'[i].late = r.fee
      BY <2>1, <3>1 DEF InstRow
    <3>3. insts[i].amount \in Int /\ insts[i].late \in Nat /\ insts[i].paid \in Nat
      BY <2>1 DEF InstRow
    <3>4. Left(insts'[i]) > Left(insts[i]) /\ insts[i].status # "paid"
      BY <1>1, <1>2, <2>3, <3>2, <3>3 DEF Left
    <3>5. Left(insts[i]) \in Int /\ Left(insts'[i]) \in Int
      BY <1>1, <3>2, <3>3 DEF Left
    <3>6. insts[i].paid > 0 => ~(Left(insts[i]) <= Eps)
      BY <2>2, <3>4
    <3>7. insts[i].paid > 0 => ~(Left(insts'[i]) <= Eps)
      BY <3>4, <3>5, <3>6 DEF Eps
    <3> QED BY <3>2, <3>4, <3>7
  <2>4. CASE i \notin r.overdue
    <3>1. insts'[i] = insts[i]
      BY <1>3, <2>4
    <3> QED BY <2>2, <3>1
  <2> QED BY <2>3, <2>4
<1>5. DOMAIN insts' = DOMAIN insts
  BY <1>3
<1>6. TablesAgree'
  <2>1. \A j \in DOMAIN insts : regs[insts[j].reg].open
    BY DEF TablesAgree, OpenRows
  <2> QED BY <1>3, <1>4, <1>5, <2>1, InstsAgree
<1>7. \A x \in Registrations : InstsOf(x)' = InstsOf(x)
  BY <1>4, <1>5 DEF InstsOf
<1> QED BY <1>6, <1>7 DEF PlansAddUp

-----------------------------------------------------------------------------
(* The steps of a request that nobody runs beside.                         *)

LEMMA SameAgree ==
  ASSUME TablesAgree, UNCHANGED <<regs, insts, books>>
  PROVE  TablesAgree'
BY DEF TablesAgree, OpenRows, Refunds, PaidIsConfirmed, AmountOf, Confirmed,
       SettledIffNothingLeft, Left, CashFollowsPayment, books, Moved, Eps, Receipts

(* What the next request reads are the rows of the tables.                 *)
LEMMA BeginAlone ==
  ASSUME TablesAgree, Free, RequestsOK, NEW w \in Sessions, NEW r, Begin(w, r), Current(r)
  PROVE  AInv' /\ PlansAddUp
<1>1. UNCHANGED <<regs, insts, books, cash>> /\ req' = [req EXCEPT ![w] = r]
  BY DEF Begin
<1>2. TablesAgree'
  BY <1>1, SameAgree
<1>3. \A v \in Sessions : req'[v] = IF v = w THEN r ELSE Idle
  BY <1>1 DEF Free, RequestsOK
<1>4. OneRequest'
  BY <1>3 DEF OneRequest, Idle
<1>5. \A v \in Sessions : Current(req[v])'
  <2>1. Current(r)' /\ Current(Idle)'
    BY <1>1 DEF Current, books, Idle
  <2> QED BY <1>3, <2>1
<1>6. \A x \in Registrations : InstsOf(x)' = InstsOf(x)
  BY <1>1 DEF InstsOf
<1> QED BY <1>2, <1>4, <1>5, <1>6 DEF AInv, PlansAddUp

LEMMA IdleAgree ==
  ASSUME TablesAgree', Free'
  PROVE  AInv'
<1>1. OneRequest'
  BY DEF OneRequest, Free
<1>2. \A v \in Sessions : Current(req[v])'
  <2>1. Current(Idle)'
    BY DEF Current, Idle
  <2> QED BY <2>1 DEF Free
<1> QED BY <1>1, <1>2 DEF AInv

(* A request that nobody runs beside leaves the sessions idle.             *)
LEMMA FinishAlone ==
  ASSUME RequestsOK, OneRequest, NEW w \in Sessions, req[w] # Idle, Finish(w), TablesAgree'
  PROVE  AInv'
<1>1. \A v \in Sessions : req'[v] = Idle
  <2>1. \A v \in Sessions : v # w => req[v] = Idle
    BY DEF OneRequest
  <2> QED BY <2>1 DEF Finish, RequestsOK
<1>2. Free'
  BY <1>1 DEF Free, Idle
<1> QED BY <1>2, IdleAgree

LEMMA SameInsts ==
  ASSUME UNCHANGED insts PROVE PlansAddUp
BY DEF PlansAddUp, InstsOf

LEMMA BeginsAlone ==
  ASSUME IInv, AInv, Free, NEW w \in Sessions,
         \/ \E r \in Registrations, k \in 1..MaxParts : BeginPlan(w, r, k)
         \/ \E r \in Registrations, a \in Amounts :
              \E i \in DOMAIN insts \cup {0}, c \in {0, 1, a} :
                BeginPayment(w, r, i, a, c)
         \/ \E i \in DOMAIN insts, a \in Amounts :
              \E c \in {0, a}, fee \in Fees \cup {insts[i].late} :
                BeginInstallment(w, i, a, c, fee)
         \/ \E n \in Receipts, refund \in BOOLEAN : BeginCancel(w, n, refund)
         \/ \E n \in Receipts : BeginRestore(w, n)
         \/ \E fee \in Fees : \E due \in SUBSET (DOMAIN insts) : BeginLateFee(w, due, fee)
         \/ \E a \in Amounts : BeginMove(w, a) \/ BeginMove(w, -a)
  PROVE  AInv' /\ PlansAddUp
<1>1. TablesAgree /\ RequestsOK
  BY DEF AInv, IInv
<1>2. \A i \in DOMAIN insts : i # 0 /\ regs[insts[i].reg].open
  BY DEF IInv, TablesOK, TablesAgree, OpenRows, AInv
<1>3. ASSUME NEW r \in Registrations, NEW k \in 1..MaxParts, BeginPlan(w, r, k)
      PROVE  \E q : Begin(w, q) /\ Current(q)
  BY <1>3 DEF BeginPlan, Current
<1>4. ASSUME NEW r \in Registrations, NEW a \in Amounts, NEW i \in DOMAIN insts \cup {0},
             NEW c \in {0, 1, a}, BeginPayment(w, r, i, a, c)
      PROVE  \E q : Begin(w, q) /\ Current(q)
  BY <1>2, <1>4 DEF BeginPayment, Current
<1>5. ASSUME NEW i \in DOMAIN insts, NEW a \in Amounts, NEW c \in {0, a},
             NEW fee \in Fees \cup {insts[i].late}, BeginInstallment(w, i, a, c, fee)
      PROVE  \E q : Begin(w, q) /\ Current(q)
  BY <1>2, <1>5 DEF BeginInstallment, Current
<1>6. ASSUME NEW n \in Receipts, NEW refund \in BOOLEAN, BeginCancel(w, n, refund)
      PROVE  \E q : Begin(w, q) /\ Current(q)
  BY <1>6 DEF BeginCancel, Current
<1>7. ASSUME NEW n \in Receipts, BeginRestore(w, n)
      PROVE  \E q : Begin(w, q) /\ Current(q)
  BY <1>7 DEF BeginRestore, Current
<1>8. ASSUME NEW fee \in Fees, NEW due \in SUBSET (DOMAIN insts), BeginLateFee(w, due, fee)
      PROVE  \E q : Begin(w, q) /\ Current(q)
  BY <1>8 DEF BeginLateFee, Current
<1>9. ASSUME NEW a \in Amounts, BeginMove(w, a) \/ BeginMove(w, -a)
      PROVE  \E q : Begin(w, q) /\ Current(q)
  BY <1>9 DEF BeginMove, Current
<1>10. \E q : Begin(w, q) /\ Current(q)
  BY <1>3, <1>4, <1>5, <1>6, <1>7, <1>8, <1>9, Zenon
<1> QED BY <1>1, <1>10, BeginAlone

(* A request begins only when no other one is in progress.                 *)
LEMMA StartsAlone ==
  ASSUME RequestsOK, ~Overlap, NEW w \in Sessions, Start(w)
  PROVE  Free
BY DEF RequestsOK, Overlap, Start, Free

LEMMA AloneStep ==
  ASSUME IInv, IInv', AInv, Next, ~Overlap
  PROVE  AInv' /\ PlansAddUp
<1>1. RequestsOK /\ OneRequest /\ TablesAgree /\ \A w \in Sessions : Current(req[w])
  BY DEF IInv, AInv
<1>2. ASSUME NEW w \in Sessions, NEW r \in Registrations, NEW t \in Totals,
             NEW a \in Amounts \cup {0}, NEW c \in Amounts \cup {0},
             Register(w, r, t, a, c)
      PROVE  AInv' /\ PlansAddUp
  <2>1. Free /\ UNCHANGED req
    BY <1>1, <1>2, StartsAlone DEF Register
  <2>2. Free'
    BY <2>1 DEF Free
  <2>3. TablesAgree' /\ PlansAddUp
    BY <1>1, <1>2, RegisterAgrees
  <2> QED BY <2>2, <2>3, IdleAgree
<1>3. ASSUME NEW w \in Sessions, CommitPlan(w) PROVE AInv' /\ PlansAddUp
  <2>1. TablesAgree' /\ PlansAddUp
    BY <1>1, <1>3, CommitPlanAgrees
  <2>2. req[w] # Idle /\ Finish(w)
    <3>1. req[w].op = "plan" /\ Finish(w)
      BY <1>3 DEF CommitPlan
    <3> QED BY <3>1 DEF Idle
  <2> QED BY <1>1, <2>1, <2>2, FinishAlone
<1>4. ASSUME NEW w \in Sessions, CommitPayment(w) PROVE AInv' /\ PlansAddUp
  <2>1. TablesAgree' /\ PlansAddUp
    BY <1>1, <1>4, CommitPaymentAgrees
  <2>2. req[w] # Idle /\ Finish(w)
    BY <1>4 DEF CommitPayment, Idle
  <2> QED BY <1>1, <2>1, <2>2, FinishAlone
<1>5. ASSUME NEW w \in Sessions, CommitCancel(w) PROVE AInv' /\ PlansAddUp
  <2>1. TablesAgree' /\ PlansAddUp
    BY <1>1, <1>5, CommitCancelAgrees
  <2>2. req[w] # Idle /\ Finish(w)
    BY <1>5 DEF CommitCancel, Idle
  <2> QED BY <1>1, <2>1, <2>2, FinishAlone
<1>6. ASSUME NEW w \in Sessions, CommitRestore(w) PROVE AInv' /\ PlansAddUp
  <2>1. TablesAgree' /\ PlansAddUp
    BY <1>1, <1>6, CommitRestoreAgrees
  <2>2. req[w] # Idle /\ Finish(w)
    BY <1>6 DEF CommitRestore, Idle
  <2> QED BY <1>1, <2>1, <2>2, FinishAlone
<1>7. ASSUME NEW w \in Sessions, CommitLateFee(w) PROVE AInv' /\ PlansAddUp
  <2>1. TablesAgree' /\ PlansAddUp
    BY <1>1, <1>7, CommitLateFeeAgrees
  <2>2. req[w] # Idle /\ Finish(w)
    BY <1>7 DEF CommitLateFee, Idle
  <2> QED BY <1>1, <2>1, <2>2, FinishAlone
<1>8. ASSUME NEW w \in Sessions, NEW a \in Amounts, Expense(w, a) PROVE AInv' /\ PlansAddUp
  <2>1. Free /\ UNCHANGED <<regs, insts, books, req>>
    BY <1>1, <1>8, StartsAlone DEF Expense
  <2>2. Free'
    BY <2>1 DEF Free
  <2>3. TablesAgree' /\ PlansAddUp
    BY <1>1, <2>1, SameAgree, SameInsts
  <2> QED BY <2>2, <2>3, IdleAgree
<1>9. ASSUME NEW w \in Sessions, Abort(w) PROVE AInv' /\ PlansAddUp
  <2>1. UNCHANGED <<regs, insts, books>> /\ req[w] # Idle /\ Finish(w)
    BY <1>9 DEF Abort
  <2>2. TablesAgree' /\ PlansAddUp
    BY <1>1, <2>1, SameAgree, SameInsts
  <2> QED BY <1>1, <2>1, <2>2, FinishAlone
<1>10. CASE Quiet
  <2>1. UNCHANGED vars /\ Free
    BY <1>10 DEF Quiet, Free
  <2>2. Free'
    BY <2>1 DEF vars, Free
  <2>3. TablesAgree' /\ PlansAddUp
    BY <1>1, <2>1, SameAgree, SameInsts DEF vars, books
  <2> QED BY <2>2, <2>3, IdleAgree
<1>11. ASSUME NEW w \in Sessions,
         \/ \E r \in Registrations, k \in 1..MaxParts : BeginPlan(w, r, k)
         \/ \E r \in Registrations, a \in Amounts :
              \E i \in DOMAIN insts \cup {0}, c \in {0, 1, a} :
                BeginPayment(w, r, i, a, c)
         \/ \E i \in DOMAIN insts, a \in Amounts :
              \E c \in {0, a}, fee \in Fees \cup {insts[i].late} :
                BeginInstallment(w, i, a, c, fee)
         \/ \E n \in Receipts, refund \in BOOLEAN : BeginCancel(w, n, refund)
         \/ \E n \in Receipts : BeginRestore(w, n)
         \/ \E fee \in Fees : \E due \in SUBSET (DOMAIN insts) : BeginLateFee(w, due, fee)
         \/ \E a \in Amounts : BeginMove(w, a) \/ BeginMove(w, -a)
       PROVE AInv' /\ PlansAddUp
  <2>1. Start(w)
    BY <1>11 DEF BeginPlan, BeginPayment, BeginInstallment, BeginCancel, BeginRestore,
                 BeginLateFee, BeginMove, Begin
  <2>2. Free
    BY <1>1, <2>1, StartsAlone
  <2> QED BY <1>11, <2>2, BeginsAlone
<1>12. ASSUME NEW w \in Sessions, CommitMove(w) PROVE AInv' /\ PlansAddUp
  <2>1. UNCHANGED <<regs, insts, books>> /\ req[w] # Idle /\ Finish(w)
    BY <1>12 DEF CommitMove, Idle
  <2>2. TablesAgree' /\ PlansAddUp
    BY <1>1, <2>1, SameAgree, SameInsts
  <2> QED BY <1>1, <2>1, <2>2, FinishAlone
<1> QED
  BY <1>2, <1>3, <1>4, <1>5, <1>6, <1>7, <1>8, <1>9, <1>10, <1>11, <1>12, Zenon DEF Next

LEMMA AloneInit == Init => AInv
<1> SUFFICES ASSUME Init PROVE AInv
  OBVIOUS
<1>1. NoPayment.status = "absent" /\ NoPayment.refunded = 0 /\ NoPayment.cash = 0
  BY DEF NoPayment
<1>2. \A n \in Receipts : payments[n] = NoPayment /\ flow[n] = 0
  BY DEF Init
<1>3. IInv
  BY InitHolds
<1>4. OpenRows /\ Refunds /\ SettledIffNothingLeft /\ CashFollowsPayment
  BY <1>1, <1>2, MovedIs DEF Init, OpenRows, Refunds, SettledIffNothingLeft, CashFollowsPayment
<1>5. PaidIsConfirmed
  <2>1. ASSUME NEW r \in Registrations PROVE regs[r].paid = Shares(payments, r)
    <3> DEFINE f == [n \in Receipts |-> Share(payments[n], r)]
    <3>1. \A n \in Receipts : f[n] = 0
      BY <1>1, <1>2 DEF Share
    <3>2. Shares(payments, r) = SumFunctionOnSet(f, Receipts)
      BY DEF Shares
    <3>3. regs[r].paid = 0
      BY DEF Init, NoReg
    <3> HIDE DEF f
    <3> QED BY <3>1, <3>2, <3>3, ReceiptsFinite, SumOfZeros
  <2> QED BY <1>3, <2>1, PaidIsShares DEF IInv
<1>6. OneRequest /\ \A w \in Sessions : Current(req[w])
  BY DEF Init, OneRequest, Current, Idle
<1> QED BY <1>4, <1>5, <1>6 DEF AInv, TablesAgree

(* Served one at a time, for any number of sessions, registrations,        *)
(* receipts and parts and any amounts and fees: a registration's paid      *)
(* amount is the sum of its confirmed payments, an installment is settled  *)
(* exactly when nothing of it is left, a payment's cash is in the cashbox  *)
(* exactly while it is confirmed or was not refunded, and the installments *)
(* of a plan add up to what was owed (registration.installments(),         *)
(* utils/payments.py).                                                     *)
THEOREM AloneAgreeAlways == MCSpec => AloneAgree
<1> DEFINE Inv == IInv /\ (alone => AInv)
           Agree == alone' =>
             /\ PaidIsConfirmed'
             /\ SettledIffNothingLeft'
             /\ CashFollowsPayment'
             /\ \A r \in Registrations :
                  InstsOf(r) = {} /\ InstsOf(r)' # {} =>
                    SumFunction([i \in InstsOf(r)' |-> insts'[i].amount]) = regs[r].remaining
<1>1. MCInit => Inv
  BY InitHolds, AloneInit DEF MCInit
<1>2. ASSUME Inv, [MCNext]_mcvars PROVE Inv' /\ [Agree]_mcvars
  <2>1. CASE UNCHANGED mcvars
    <3>1. IInv'
      BY <1>2, <2>1, StepKeeps DEF mcvars
    <3>2. AInv => AInv'
      BY <2>1 DEF AInv, OneRequest, TablesAgree, OpenRows, Refunds, PaidIsConfirmed, AmountOf,
                  Confirmed, SettledIffNothingLeft, Left, CashFollowsPayment, Moved, Eps,
                  Receipts, Current, mcvars, vars, Idle
    <3> QED BY <1>2, <2>1, <3>1, <3>2 DEF mcvars
  <2>2. CASE Next /\ alone' = (alone /\ ~Overlap)
    <3>1. IInv'
      BY <1>2, <2>2, StepKeeps
    <3>2. alone' => AInv' /\ PlansAddUp
      BY <1>2, <2>2, <3>1, AloneStep
    <3>3. AInv' => PaidIsConfirmed' /\ SettledIffNothingLeft' /\ CashFollowsPayment'
      BY DEF AInv, TablesAgree
    <3> QED BY <3>1, <3>2, <3>3 DEF PlansAddUp
  <2>3. CASE Cut
    BY <2>1, <2>3 DEF Cut
  <2> QED BY <1>2, <2>1, <2>2, <2>3 DEF MCNext
<1> QED BY <1>1, <1>2, PTL DEF MCSpec, AloneAgree
=============================================================================
