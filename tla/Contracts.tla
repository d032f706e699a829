------------------------------ MODULE Contracts -------------------------------
(***************************************************************************)
(* Salary contracts of one teacher and the amounts of a period computed    *)
(* from them (routes/payroll.py: contract pages, _active_contract(),       *)
(* _compute_period_amounts(); utils/jalali.py: bounds of a month).         *)
(* Payroll models the payslips and the requests that overlap; here a       *)
(* payslip has its amounts and requests are served one at a time.          *)
(***************************************************************************)
EXTENDS Integers, Sequences, FiniteSetsExt, Functions

CONSTANTS
  MonthLength,    \* days of each month, a sequence
  None,           \* a date left open; no payslip
  Forms,          \* contracts an administrator may enter
  MaxContracts,   \* bound: rows of salary_contracts
  MaxFacts,       \* bound: hours, meetings, payments and fees recorded
  MaxRequests     \* bound: requests in one behaviour

VARIABLES
  contracts,   \* table salary_contracts, in the order of creation
  facts,       \* what other components recorded: how much of a kind on a day
  payslips,    \* amounts of the payslip of each month, whether it is paid
  current,     \* history: months computed since facts or contracts changed
  asked        \* number of requests so far

vars == <<contracts, facts, payslips, current, asked>>

Months == DOMAIN MonthLength
FactKinds == {"hours", "meetings", "tuition", "sold"}

(* jalali_period_bounds(): from the first day of the month to the day      *)
(* before the first of the next.                                           *)
FirstDay(m) == 1 + SumFunctionOnSet(MonthLength, 1..(m - 1))

(* Fault: the last day is left out.                                        *)
BoundsShort(m) == [first |-> FirstDay(m), last |-> FirstDay(m + 1) - 2]

Bounds(m) == [first |-> FirstDay(m), last |-> FirstDay(m + 1) - 1]

Days == 1..(FirstDay(Len(MonthLength) + 1) - 1)

Init ==
  /\ contracts = <<>>
  /\ facts = [kind \in FactKinds |-> [day \in Days |-> 0]]
  /\ payslips = [m \in Months |-> None]
  /\ current = {}
  /\ asked = 0

-----------------------------------------------------------------------------
(* The pages of contracts.                                                 *)

(* _contract_form_kwargs(): the rate the kind of contract needs is there,  *)
(* the dates are in order, and no other contract of the teacher is active. *)
Valid(form, others) ==
  /\ CASE form.kind = "fixed" -> form.base > 0
       [] form.kind = "hourly" -> form.hour > 0
       [] form.kind = "session" -> form.meeting > 0
       [] form.kind = "percentage" -> form.percent > 0
       [] form.kind = "combined" -> form.base > 0 \/ form.hour > 0
  /\ (form.first # None /\ form.last # None) => form.first <= form.last
  /\ \A c \in others : ~contracts[c].active

Ask == asked < MaxRequests /\ asked' = asked + 1

AddContract(form) ==
  /\ Ask
  /\ Len(contracts) < MaxContracts
  /\ Valid(form, DOMAIN contracts)
  /\ contracts' = Append(contracts, [form |-> form, active |-> TRUE])
  /\ current' = {}
  /\ UNCHANGED <<facts, payslips>>

EditContract(c, form, active) ==
  /\ Ask
  /\ Valid(form, DOMAIN contracts \ {c})
  /\ contracts' = [contracts EXCEPT ![c] = [form |-> form, active |-> active]]
  /\ current' = {}
  /\ UNCHANGED <<facts, payslips>>

(* Switched on and off without a look at other contracts.                  *)
ToggleContract(c) ==
  /\ Ask
  /\ contracts' = [contracts EXCEPT ![c].active = ~@]
  /\ current' = {}
  /\ UNCHANGED <<facts, payslips>>

-----------------------------------------------------------------------------
(* The amounts of a period.                                                *)

(* The newest active contract, if the period's end is within its dates.    *)
ActiveContract(day) ==
  LET active == {c \in DOMAIN contracts : contracts[c].active}
      newest == Max(active)
      form == contracts[newest].form
  IN
  IF \/ active = {}
     \/ form.last # None /\ form.last < day
     \/ form.first # None /\ form.first > day
  THEN None ELSE newest

Recorded(kind, period) ==
  SumFunctionOnSet(facts[kind], period.first..period.last)

(* A percentage is counted in money per unit of money.                     *)
Amounts(form, period) ==
  [base |-> form.base,
   teaching |-> IF form.kind \in {"hourly", "combined"}
                THEN Recorded("hours", period) * form.hour ELSE 0,
   meetings |-> IF form.kind = "session"
                THEN Recorded("meetings", period) * form.meeting ELSE 0,
   commission |->
     (IF form.kind \in {"percentage", "combined"}
      THEN Recorded("tuition", period) * form.percent ELSE 0)
     + Recorded("sold", period) * form.commission]

Net(amounts, form) ==
  amounts.base + amounts.teaching + amounts.meetings + amounts.commission
  - (form.insurance + form.tax)

(* calculate(): a payslip that is paid is left alone.                      *)
Calculate(m) ==
  LET c == ActiveContract(Bounds(m).last)
      form == contracts[c].form
      amounts == Amounts(form, Bounds(m))
  IN
  /\ Ask
  /\ c # None
  /\ payslips[m] # None => ~payslips[m].paid
  /\ payslips' = [payslips EXCEPT ![m] =
       [amounts |-> amounts, net |-> Net(amounts, form), paid |-> FALSE]]
  /\ current' = current \cup {m}
  /\ UNCHANGED <<contracts, facts>>

-----------------------------------------------------------------------------
(* Meanwhile: payslips are paid, and hours, completed meetings, payments   *)
(* and fees are recorded, for past days too.                               *)

Pay(m) ==
  /\ payslips[m] # None
  /\ payslips' = [payslips EXCEPT ![m].paid = TRUE]
  /\ UNCHANGED <<contracts, facts, current, asked>>

Record(kind, day) ==
  /\ SumFunction([k \in FactKinds |-> SumFunction(facts[k])]) < MaxFacts
  /\ facts' = [facts EXCEPT ![kind][day] = @ + 1]
  /\ current' = {}
  /\ UNCHANGED <<contracts, payslips, asked>>

Next ==
  \/ \E form \in Forms : AddContract(form)
  \/ \E c \in DOMAIN contracts, form \in Forms, active \in BOOLEAN :
       EditContract(c, form, active)
  \/ \E c \in DOMAIN contracts : ToggleContract(c)
  \/ \E m \in Months : Calculate(m)
  \/ \E m \in Months : Pay(m)
  \/ \E kind \in FactKinds, day \in Days : Record(kind, day)

Spec == Init /\ [][Next]_vars

-----------------------------------------------------------------------------
(***************************************************************************)
(* Properties.                                                             *)
(***************************************************************************)

(* Payslips of all months, computed from what is recorded now, pay for     *)
(* every hour, meeting, payment and fee once, at the contract's rates,     *)
(* and the base and the deductions once a month.                           *)
MonthsAddUp ==
  current = Months =>
    LET n == Len(MonthLength)
        form == contracts[ActiveContract(Bounds(n).last)].form
        All(kind) == SumFunction(facts[kind])
    IN SumFunction([m \in Months |-> payslips[m].net]) =
         n * (form.base - form.insurance - form.tax)
         + (IF form.kind \in {"hourly", "combined"} THEN All("hours") * form.hour ELSE 0)
         + (IF form.kind = "session" THEN All("meetings") * form.meeting ELSE 0)
         + (IF form.kind \in {"percentage", "combined"}
            THEN All("tuition") * form.percent ELSE 0)
         + All("sold") * form.commission
=============================================================================
