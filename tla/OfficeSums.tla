------------------------------ MODULE OfficeSums ------------------------------
(* What the office adds up: the net amounts of the payslips (Contracts), the *)
(* balances of the ledger's reports (Ledger) and the tax of a calculation    *)
(* (TaxRules), each with its own inductive invariant under the next-state    *)
(* relation of MCOffice.                                                     *)
EXTENDS MCOffice, FiniteSums, SequenceTheorems, TLAPS

-----------------------------------------------------------------------------
(* Contracts.  A payslip computed since the last change of a contract or   *)
(* of a record has the net amount that the contract in force gives for its *)
(* month; every month has the same contract, and the months divide the     *)
(* days.                                                                   *)

(* An instance has its copies of the library's operators.                  *)
LEMMA SalariesSum ==
  /\ \A f, S : Salaries!SumFunctionOnSet(f, S) = SumFunctionOnSet(f, S)
  /\ \A f : Salaries!SumFunction(f) = SumFunctionOnSet(f, DOMAIN f)
<1>1. \A f, S : Salaries!SumFunctionOnSet(f, S) = SumFunctionOnSet(f, S)
  BY Zenon DEF Salaries!SumFunctionOnSet, Salaries!FoldFunctionOnSet, Salaries!MapThenFoldSet,
               SumFunctionOnSet, FoldFunctionOnSet, MapThenFoldSet
<1> QED BY <1>1, Zenon DEF Salaries!SumFunction

Months == 1..Len(MonthLength)
Newest == Salaries!Max({c \in DOMAIN contracts : contracts[c].active})
InForce(m) == Salaries!ActiveContract(Salaries!Bounds(m).last)
Due(m) == LET form == contracts[InForce(m)].form
          IN  Salaries!Net(Salaries!Amounts(form, Salaries!Bounds(m)), form)

ContractRow == [form : Terms, active : BOOLEAN]
IsPayslip(row) == row = [column \in {"amounts", "net", "paid"} |-> row[column]]
Computed(m) == InForce(m) # None /\ IsPayslip(payslips[m]) /\ payslips[m].net = Due(m)

SalariesInv ==
  /\ contracts \in Seq(ContractRow)
  /\ facts \in [Salaries!FactKinds -> [Salaries!Days -> Int]]
  /\ DOMAIN payslips = Months
  /\ \A m \in current : Computed(m)

LEMMA MonthsOfYear == Salaries!Months = Months /\ Len(MonthLength) \in Nat \ {0}
<1>1. MonthLength \in Seq(Nat) /\ MonthLength # <<>>
  BY SalariesOK
<1>2. Len(MonthLength) \in Nat /\ DOMAIN MonthLength = 1..Len(MonthLength)
  BY <1>1, LenProperties
<1>3. Len(MonthLength) # 0
  BY <1>1, EmptySeq
<1> QED BY <1>2, <1>3 DEF Salaries!Months, Months

(* jalali_period_bounds(): the first month begins with the first day, each *)
(* other one the day after the one before it ends.                         *)
LEMMA FirstDays ==
  /\ Salaries!FirstDay(1) = 1
  /\ \A m \in 1..(Len(MonthLength) + 1) : Salaries!FirstDay(m) \in Int
  /\ \A m \in Months : Salaries!FirstDay(m) <= Salaries!FirstDay(m + 1)
<1> DEFINE n == Len(MonthLength)
           S(m) == SumFunctionOnSet(MonthLength, 1..(m - 1))
<1>0. n \in Nat
  BY MonthsOfYear
<1>1. \A k \in 1..n : MonthLength[k] \in Nat
  BY SalariesOK, ElementOfSeq
<1> HIDE DEF n
<1>2. \A m : Salaries!FirstDay(m) = 1 + S(m)
  BY SalariesSum, Zenon DEF Salaries!FirstDay
<1>3. S(1) = 0
  <2>1. 1..(1 - 1) = {}
    OBVIOUS
  <2> QED BY <2>1, SumEmpty
<1>4. ASSUME NEW m \in 1..(n + 1) PROVE S(m) \in Int
  <2>1. IsFiniteSet(1..(m - 1)) /\ \A k \in 1..(m - 1) : MonthLength[k] \in Int
    BY <1>0, <1>1, FS_Interval
  <2> QED BY <2>1, SumInt
<1>5. ASSUME NEW m \in 1..n PROVE S(m + 1) = MonthLength[m] + S(m)
  <2> DEFINE before == 1..(m - 1)
             upto == 1..(m + 1 - 1)
  <2>1. /\ upto = before \cup {m} /\ m \notin before
        /\ \A k \in before : MonthLength[k] \in Int
    BY <1>0, <1>1
  <2>2. IsFiniteSet(before) /\ MonthLength[m] \in Int
    BY <1>1, FS_Interval
  <2> HIDE DEF before, upto
  <2>3. SumFunctionOnSet(MonthLength, upto) = MonthLength[m] + SumFunctionOnSet(MonthLength, before)
    BY <2>1, <2>2, SumIn
  <2> QED BY <2>3 DEF before, upto
<1> HIDE DEF S
<1>6. Salaries!FirstDay(1) = 1
  BY <1>2, <1>3
<1>7. \A m \in 1..(n + 1) : Salaries!FirstDay(m) \in Int
  BY <1>2, <1>4
<1>8. ASSUME NEW m \in 1..n PROVE Salaries!FirstDay(m) <= Salaries!FirstDay(m + 1)
  <2>1. MonthLength[m] \in Nat /\ m \in 1..(n + 1)
    BY <1>0, <1>1
  <2>2. S(m) \in Int /\ S(m + 1) = MonthLength[m] + S(m)
    BY <1>4, <1>5, <2>1
  <2> QED BY <1>2, <2>1, <2>2
<1> QED BY <1>6, <1>7, <1>8 DEF n, Months

-----------------------------------------------------------------------------
(* The steps.                                                              *)

LEMMA SalariesInit == ASSUME Salaries!Init PROVE SalariesInv
<1>1. facts \in [Salaries!FactKinds -> [Salaries!Days -> Int]]
  BY DEF Salaries!Init
<1>2. <<>> \in Seq(ContractRow)
  OBVIOUS
<1>3. DOMAIN payslips = Months
  BY MonthsOfYear DEF Salaries!Init
<1>4. contracts = <<>> /\ current = {}
  BY DEF Salaries!Init
<1> QED BY <1>1, <1>2, <1>3, <1>4 DEF SalariesInv

(* What is due does not depend on the payslips.                            *)
LEMMA DueStays ==
  ASSUME UNCHANGED <<contracts, facts>>, NEW m
  PROVE  InForce(m)' = InForce(m) /\ Due(m)' = Due(m)
<1>1. InForce(m)' = InForce(m)
  BY DEF InForce, Salaries!ActiveContract
<1>2. \A form : Salaries!Amounts(form, Salaries!Bounds(m))' = Salaries!Amounts(form, Salaries!Bounds(m))
  BY DEF Salaries!Amounts, Salaries!Recorded
<1> QED BY <1>1, <1>2 DEF Due, Salaries!Net

LEMMA PaidSlip ==
  ASSUME NEW slip, IsPayslip(slip)
  PROVE  [slip EXCEPT !.paid = TRUE].net = slip.net /\ IsPayslip([slip EXCEPT !.paid = TRUE])
<1> DEFINE row == [slip EXCEPT !.paid = TRUE]
           Columns == {"amounts", "net", "paid"}
<1>1. DOMAIN slip = Columns
  BY DEF IsPayslip
<1>2. row = [column \in Columns |-> IF column = "paid" THEN TRUE ELSE slip[column]]
  BY <1>1
<1>3. row = [column \in Columns |-> row[column]]
  BY <1>2
<1>4. row.net = slip.net
  BY <1>2
<1> QED BY <1>3, <1>4, Zenon DEF IsPayslip

LEMMA SalariesStepKeeps ==
  ASSUME SalariesInv, [Salaries!Next]_(Salaries!vars) PROVE SalariesInv'
<1>1. ASSUME contracts' \in Seq(ContractRow), UNCHANGED <<facts, payslips>>, current' = {}
      PROVE  SalariesInv'
  BY <1>1 DEF SalariesInv
<1>2. ASSUME NEW form \in Terms, Salaries!AddContract(form) PROVE SalariesInv'
  <2>1. [form |-> form, active |-> TRUE] \in ContractRow
    BY DEF ContractRow
  <2>2. Append(contracts, [form |-> form, active |-> TRUE]) \in Seq(ContractRow)
    BY <2>1, AppendProperties DEF SalariesInv
  <2> QED BY <1>1, <1>2, <2>2 DEF Salaries!AddContract
<1>3. ASSUME NEW c \in DOMAIN contracts, NEW row \in ContractRow
      PROVE  [contracts EXCEPT ![c] = row] \in Seq(ContractRow)
  BY ExceptSeq DEF SalariesInv
<1>4. ASSUME NEW c \in DOMAIN contracts, NEW form \in Terms, NEW on \in BOOLEAN,
             Salaries!EditContract(c, form, on)
      PROVE  SalariesInv'
  <2>1. [form |-> form, active |-> on] \in ContractRow
    BY DEF ContractRow
  <2> QED BY <1>1, <1>3, <1>4, <2>1 DEF Salaries!EditContract
<1>5. ASSUME NEW c \in DOMAIN contracts, Salaries!ToggleContract(c) PROVE SalariesInv'
  <2>1. contracts[c] \in ContractRow
    BY ElementOfSeq DEF SalariesInv
  <2>2. \A row \in ContractRow : [row EXCEPT !.active = ~@] \in ContractRow
    BY DEF ContractRow
  <2>3. [contracts[c] EXCEPT !.active = ~@] \in ContractRow
    BY <2>1, <2>2
  <2> QED BY <1>1, <1>3, <1>5, <2>3 DEF Salaries!ToggleContract
<1>6. ASSUME UNCHANGED <<contracts, facts>>, NEW m \in Months, NEW row, IsPayslip(row),
             payslips' = [payslips EXCEPT ![m] = row],
             \/ current' = current /\ (m \in current => row.net = payslips[m].net)
             \/ current' = current \cup {m} /\ InForce(m) # None /\ row.net = Due(m)
      PROVE  SalariesInv'
  <2>1. \A k \in Months : payslips'[k] = IF k = m THEN row ELSE payslips[k]
    BY <1>6 DEF SalariesInv
  <2>2. \A k : InForce(k)' = InForce(k) /\ Due(k)' = Due(k)
    BY <1>6, DueStays
  <2>3. DOMAIN payslips' = Months /\ Months' = Months
    BY <1>6 DEF SalariesInv, Months
  <2>4. ASSUME NEW k \in current' PROVE Computed(k)'
    <3>1. CASE k = m
      <4>1. payslips'[k] = row
        BY <1>6, <2>1, <3>1
      <4>2. InForce(k) # None /\ row.net = Due(k)
        BY <1>6, <2>4, <3>1 DEF SalariesInv, Computed
      <4> QED BY <1>6, <2>2, <4>1, <4>2 DEF Computed
    <3>2. CASE k # m
      <4>1. k \in current
        BY <1>6, <2>4, <3>2
      <4>2. payslips'[k] = payslips[k]
        BY <1>6, <3>2
      <4> QED BY <2>2, <4>1, <4>2 DEF SalariesInv, Computed
    <3> QED BY <3>1, <3>2
  <2>5. contracts' \in Seq(ContractRow) /\ facts' \in [Salaries!FactKinds -> [Salaries!Days -> Int]]
    BY <1>6 DEF SalariesInv
  <2>6. DOMAIN payslips' = Months' /\ \A k \in current' : Computed(k)'
    BY <2>3, <2>4
  <2> QED BY <2>5, <2>6 DEF SalariesInv
<1>7. ASSUME NEW m \in Months, Salaries!Calculate(m) PROVE SalariesInv'
  <2> DEFINE form == contracts[InForce(m)].form
             amounts == Salaries!Amounts(form, Salaries!Bounds(m))
             row == [amounts |-> amounts, net |-> Salaries!Net(amounts, form), paid |-> FALSE]
  <2>1. /\ InForce(m) # None /\ payslips' = [payslips EXCEPT ![m] = row]
        /\ current' = current \cup {m} /\ UNCHANGED <<contracts, facts>>
    BY <1>7 DEF Salaries!Calculate, InForce
  <2>2. row.net = Due(m) /\ IsPayslip(row)
    BY DEF Due, IsPayslip
  <2> HIDE DEF row
  <2> QED BY <1>6, <2>1, <2>2
<1>8. ASSUME NEW m \in Months, Salaries!Pay(m) PROVE SalariesInv'
  <2>1. CASE m \in current
    <3> DEFINE row == [payslips[m] EXCEPT !.paid = TRUE]
    <3>1. IsPayslip(payslips[m])
      BY <2>1 DEF SalariesInv, Computed
    <3>2. payslips' = [payslips EXCEPT ![m] = row]
      BY <1>8 DEF Salaries!Pay
    <3>3. row.net = payslips[m].net /\ IsPayslip(row)
      BY <3>1, PaidSlip
    <3>4. current' = current /\ UNCHANGED <<contracts, facts>>
      BY <1>8 DEF Salaries!Pay
    <3> HIDE DEF row
    <3> QED BY <1>6, <3>2, <3>3, <3>4
  <2>2. CASE m \notin current
    <3>1. UNCHANGED <<contracts, facts, current>> /\ DOMAIN payslips' = DOMAIN payslips
      BY <1>8 DEF Salaries!Pay
    <3>2. \A k \in current : payslips'[k] = payslips[k]
      BY <1>8, <2>2 DEF Salaries!Pay
    <3>3. \A k \in current : Computed(k)'
      BY <3>1, <3>2, DueStays DEF SalariesInv, Computed
    <3>4. contracts' \in Seq(ContractRow) /\ facts' \in [Salaries!FactKinds -> [Salaries!Days -> Int]]
      BY <3>1 DEF SalariesInv
    <3>5. DOMAIN payslips' = Months' /\ \A k \in current' : Computed(k)'
      BY <3>1, <3>3 DEF SalariesInv, Months
    <3> QED BY <3>4, <3>5 DEF SalariesInv
  <2> QED BY <2>1, <2>2
<1>9. ASSUME NEW kind \in Salaries!FactKinds, NEW day \in Salaries!Days,
             Salaries!Record(kind, day)
      PROVE  SalariesInv'
  <2> DEFINE D == Salaries!Days
             K == Salaries!FactKinds
  <2>1. facts \in [K -> [D -> Int]] /\ facts' = [facts EXCEPT ![kind][day] = @ + 1]
    BY <1>9 DEF Salaries!Record, SalariesInv
  <2> HIDE DEF D, K
  <2>2. facts' \in [K -> [D -> Int]]
    BY <1>9, <2>1 DEF D, K
  <2>3. UNCHANGED <<contracts, payslips>> /\ current' = {}
    BY <1>9 DEF Salaries!Record
  <2> QED BY <2>2, <2>3 DEF SalariesInv, D, K, Months
<1>10. CASE UNCHANGED Salaries!vars
  BY <1>10, DueStays DEF Salaries!vars, SalariesInv, Computed, Months
<1>11. Salaries!Months = Months
  BY MonthsOfYear
<1>12. CASE Salaries!Next
  BY <1>2, <1>4, <1>5, <1>7, <1>8, <1>9, <1>11, <1>12, Zenon DEF Salaries!Next
<1> QED BY <1>10, <1>12

-----------------------------------------------------------------------------
LEMMA PeriodInYear ==
  ASSUME NEW m \in Months
  PROVE  LET period == Salaries!Bounds(m).first..Salaries!Bounds(m).last
         IN  IsFiniteSet(period) /\ period \subseteq Salaries!Days
<1> DEFINE n == Len(MonthLength)
           D == [k \in 1..(n + 1) |-> Salaries!FirstDay(k)]
<1>1. n \in Nat /\ n + 1 \in Nat
  BY MonthsOfYear
<1>2. /\ m \in 1..(n + 1) /\ m + 1 \in 1..(n + 1) /\ n + 1 \in 1..(n + 1) /\ 1 \in 1..(n + 1)
      /\ 1 <= m /\ m + 1 <= n + 1 /\ \A k \in 1..(n + 1) : k + 1 <= n + 1 => k \in 1..n
  BY <1>1 DEF Months
<1>3. /\ D[1] = 1 /\ (\A k \in 1..(n + 1) : D[k] \in Int)
      /\ \A k \in 1..n : D[k] <= D[k + 1]
  <2>1. \A k \in 1..n : k \in 1..(n + 1) /\ k + 1 \in 1..(n + 1)
    BY <1>1
  <2> QED BY <1>2, <2>1, FirstDays DEF Months
<1>4. Salaries!Bounds(m) = [first |-> D[m], last |-> D[m + 1] - 1] /\ Salaries!Days = 1..(D[n + 1] - 1)
  BY <1>2 DEF Salaries!Bounds, Salaries!Days
<1> HIDE DEF D
<1> DEFINE e == n + 1
<1> HIDE DEF e
<1>5. /\ e \in Nat /\ (\A k \in 1..e : D[k] \in Int)
      /\ (\A k \in 1..e : k + 1 <= e => D[k] <= D[k + 1])
      /\ 1 \in 1..e /\ m \in 1..e /\ m + 1 \in 1..e /\ e \in 1..e /\ 1 <= m /\ m + 1 <= e
  BY <1>1, <1>2, <1>3 DEF e
<1>6. D[1] <= D[m] /\ D[m + 1] <= D[e]
  BY <1>5, Ascending
<1>7. /\ D[m] \in Int /\ D[m + 1] \in Int /\ D[e] \in Int
      /\ 1 <= D[m] /\ D[m + 1] <= D[e]
  BY <1>3, <1>5, <1>6
<1>8. IsFiniteSet(D[m]..(D[m + 1] - 1)) /\ D[m]..(D[m + 1] - 1) \subseteq 1..(D[e] - 1)
  <2> DEFINE x == D[m]
             y == D[m + 1]
             z == D[e]
  <2> HIDE DEF x, y, z
  <2>1. x \in Int /\ y \in Int /\ z \in Int /\ 1 <= x /\ y <= z
    BY <1>7 DEF x, y, z
  <2>2. y - 1 \in Int
    BY <2>1
  <2>3. IsFiniteSet(x..(y - 1))
    BY <2>1, <2>2, FS_Interval
  <2>4. x..(y - 1) \subseteq 1..(z - 1)
    BY <2>1
  <2> QED BY <2>3, <2>4 DEF x, y, z
<1> QED BY <1>4, <1>8 DEF e

(* A record counted in the months of the year is counted once.             *)
LEMMA MonthsCover ==
  ASSUME NEW f, f \in [Salaries!Days -> Int],
         NEW g, \A m \in Months : g[m] = SumFunctionOnSet(f, Salaries!Bounds(m).first..Salaries!Bounds(m).last)
  PROVE  SumFunctionOnSet(g, Months) = SumFunctionOnSet(f, Salaries!Days)
<1> DEFINE n == Len(MonthLength)
           D == [m \in 1..(n + 1) |-> Salaries!FirstDay(m)]
<1>1. n \in Nat
  BY MonthsOfYear
<1>2. \A m \in Months : Salaries!Bounds(m) = [first |-> D[m], last |-> D[m + 1] - 1]
  BY <1>1 DEF Salaries!Bounds, Months
<1>3. Salaries!Days = 1..(D[n + 1] - 1)
  BY <1>1 DEF Salaries!Days
<1>4. 1 \in 1..(n + 1) /\ \A m \in 1..n : m \in 1..(n + 1) /\ m + 1 \in 1..(n + 1)
  BY <1>1
<1>5. /\ D[1] = 1 /\ (\A m \in 1..(n + 1) : D[m] \in Int)
      /\ \A m \in 1..n : D[m] <= D[m + 1]
  BY <1>4, FirstDays DEF Months
<1> HIDE DEF D
<1>6. \A d \in 1..(D[n + 1] - 1) : f[d] \in Int
  BY <1>3
<1>7. \A m \in 1..n : g[m] = SumFunctionOnSet(f, D[m]..(D[m + 1] - 1))
  BY <1>2 DEF Months
<1>8. Months = 1..n
  BY DEF Months
<1> HIDE DEF n
<1>9. SumFunctionOnSet(g, 1..n) = SumFunctionOnSet(f, 1..(D[n + 1] - 1))
  <2>1. FollowUp(D, n)
    BY <1>5 DEF FollowUp
  <2>2. PeriodSums(g, f, D, n)
    BY <1>7 DEF PeriodSums
  <2> QED BY <1>1, <1>6, <2>1, <2>2, SumPeriods
<1> QED BY <1>3, <1>8, <1>9

(* A sum of four amounts at a rate each, and one that is always the same.  *)
LEMMA SumOfAmounts ==
  ASSUME NEW S, IsFiniteSet(S), NEW b \in Int,
         NEW h \in Int, NEW m \in Int, NEW t \in Int, NEW c \in Int,
         NEW fh, NEW fm, NEW ft, NEW fc, NEW g,
         \A x \in S : /\ fh[x] \in Int /\ fm[x] \in Int /\ ft[x] \in Int /\ fc[x] \in Int
                      /\ g[x] = b + fh[x] * h + fm[x] * m + (ft[x] * t + fc[x] * c)
  PROVE  SumFunctionOnSet(g, S) =
           Cardinality(S) * b + SumFunctionOnSet(fh, S) * h + SumFunctionOnSet(fm, S) * m
           + (SumFunctionOnSet(ft, S) * t + SumFunctionOnSet(fc, S) * c)
<1> DEFINE g0 == [x \in S |-> b]
           g1 == [x \in S |-> fh[x] * h]
           g2 == [x \in S |-> fm[x] * m]
           g3 == [x \in S |-> ft[x] * t]
           g4 == [x \in S |-> fc[x] * c]
           g01 == [x \in S |-> g0[x] + g1[x]]
           g012 == [x \in S |-> g01[x] + g2[x]]
           g34 == [x \in S |-> g3[x] + g4[x]]
<1>1. /\ SumFunctionOnSet(g0, S) = Cardinality(S) * b
      /\ SumFunctionOnSet(g1, S) = SumFunctionOnSet(fh, S) * h
      /\ SumFunctionOnSet(g2, S) = SumFunctionOnSet(fm, S) * m
      /\ SumFunctionOnSet(g3, S) = SumFunctionOnSet(ft, S) * t
      /\ SumFunctionOnSet(g4, S) = SumFunctionOnSet(fc, S) * c
  <2>1. \A x \in S : g0[x] = b
    OBVIOUS
  <2>2. \A x \in S : fh[x] \in Int /\ g1[x] = fh[x] * h
    OBVIOUS
  <2>3. \A x \in S : fm[x] \in Int /\ g2[x] = fm[x] * m
    OBVIOUS
  <2>4. \A x \in S : ft[x] \in Int /\ g3[x] = ft[x] * t
    OBVIOUS
  <2>5. \A x \in S : fc[x] \in Int /\ g4[x] = fc[x] * c
    OBVIOUS
  <2> HIDE DEF g0, g1, g2, g3, g4
  <2>6. SumFunctionOnSet(g0, S) = Cardinality(S) * b
    BY <2>1, SumConstant
  <2>7. SumFunctionOnSet(g1, S) = SumFunctionOnSet(fh, S) * h
    BY <2>2, SumTimes
  <2>8. SumFunctionOnSet(g2, S) = SumFunctionOnSet(fm, S) * m
    BY <2>3, SumTimes
  <2>9. SumFunctionOnSet(g3, S) = SumFunctionOnSet(ft, S) * t
    BY <2>4, SumTimes
  <2>10. SumFunctionOnSet(g4, S) = SumFunctionOnSet(fc, S) * c
    BY <2>5, SumTimes
  <2> QED BY <2>6, <2>7, <2>8, <2>9, <2>10
<1>2. \A x \in S : /\ g0[x] \in Int /\ g1[x] \in Int /\ g2[x] \in Int /\ g3[x] \in Int /\ g4[x] \in Int
                   /\ g[x] = g0[x] + g1[x] + g2[x] + (g3[x] + g4[x])
  <2> SUFFICES ASSUME NEW x \in S
               PROVE  /\ g0[x] \in Int /\ g1[x] \in Int /\ g2[x] \in Int /\ g3[x] \in Int /\ g4[x] \in Int
                      /\ g[x] = g0[x] + g1[x] + g2[x] + (g3[x] + g4[x])
    OBVIOUS
  <2>1. \A u, v \in Int : u * v \in Int
    OBVIOUS
  <2>2. fh[x] * h \in Int /\ fm[x] * m \in Int /\ ft[x] * t \in Int /\ fc[x] * c \in Int
    BY <2>1
  <2> QED BY <2>2
<1> HIDE DEF g0, g1, g2, g3, g4
<1>3. SumFunctionOnSet(g01, S) = SumFunctionOnSet(g0, S) + SumFunctionOnSet(g1, S)
  <2>1. \A x \in S : g0[x] \in Int /\ g1[x] \in Int /\ g01[x] = g0[x] + g1[x]
    BY <1>2
  <2> HIDE DEF g01
  <2> QED BY <2>1, SumPlus
<1>4. SumFunctionOnSet(g012, S) = SumFunctionOnSet(g01, S) + SumFunctionOnSet(g2, S)
  <2>1. \A x \in S : g01[x] \in Int /\ g2[x] \in Int /\ g012[x] = g01[x] + g2[x]
    BY <1>2
  <2> HIDE DEF g01, g012
  <2> QED BY <2>1, SumPlus
<1>5. SumFunctionOnSet(g34, S) = SumFunctionOnSet(g3, S) + SumFunctionOnSet(g4, S)
  <2>1. \A x \in S : g3[x] \in Int /\ g4[x] \in Int /\ g34[x] = g3[x] + g4[x]
    BY <1>2
  <2> HIDE DEF g34
  <2> QED BY <2>1, SumPlus
<1>6. SumFunctionOnSet(g, S) = SumFunctionOnSet(g012, S) + SumFunctionOnSet(g34, S)
  <2>1. \A x \in S : g012[x] \in Int /\ g34[x] \in Int /\ g[x] = g012[x] + g34[x]
    BY <1>2
  <2> HIDE DEF g012, g34
  <2> QED BY <2>1, SumPlus
<1> HIDE DEF g01, g012, g34
<1> QED BY <1>1, <1>3, <1>4, <1>5, <1>6

(* The contract in force is the newest active one, whatever the month.     *)
LEMMA OneContract ==
  ASSUME SalariesInv, NEW k, InForce(k) # None
  PROVE  /\ contracts[Newest].form \in Terms
         /\ \A m : InForce(m) # None => InForce(m) = Newest
<1> DEFINE A == {c \in DOMAIN contracts : contracts[c].active}
<1>1. \A m : InForce(m) # None => A # {} /\ InForce(m) = Newest
  BY DEF InForce, Salaries!ActiveContract, Newest
<1>2. contracts \in Seq(ContractRow) /\ Len(contracts) \in Nat /\ DOMAIN contracts = 1..Len(contracts)
  BY LenProperties DEF SalariesInv
<1>3. A \in SUBSET Int /\ IsFiniteSet(A)
  <2>1. IsFiniteSet(1..Len(contracts))
    BY <1>2, FS_Interval
  <2>2. A \subseteq 1..Len(contracts)
    BY <1>2
  <2>3. A \in SUBSET Int
    BY <1>2
  <2> QED BY <2>1, <2>2, <2>3, FS_Subset
<1>4. A # {}
  BY <1>1
<1>5. Newest \in A
  <2>1. Newest = CHOOSE x \in A : \A y \in A : x >= y
    BY Zenon DEF Newest, Salaries!Max
  <2> HIDE DEF A
  <2>2. \E x \in A : \A y \in A : x >= y
    BY <1>3, <1>4, GreatestExists
  <2> QED BY <2>1, <2>2, Zenon
<1>6. contracts[Newest] \in ContractRow
  <2>1. Newest \in 1..Len(contracts)
    BY <1>2, <1>5
  <2> QED BY <1>2, <2>1, ElementOfSeq
<1>7. contracts[Newest].form \in Terms
  BY <1>6 DEF ContractRow
<1> QED BY <1>1, <1>7

LEMMA SalariesAddUp == ASSUME SalariesInv PROVE Salaries!MonthsAddUp
<1> DEFINE n == Len(MonthLength)
           form == contracts[Newest].form
           R(kind) == [m \in Months |-> Salaries!Recorded(kind, Salaries!Bounds(m))]
           All(kind) == SumFunctionOnSet(facts[kind], Salaries!Days)
           b == form.base - form.insurance - form.tax
           h == IF form.kind \in {"hourly", "combined"} THEN form.hour ELSE 0
           s == IF form.kind = "session" THEN form.meeting ELSE 0
           t == IF form.kind \in {"percentage", "combined"} THEN form.percent ELSE 0
           c == form.commission
           nets == [m \in Months |-> payslips[m].net]
<1>1. SUFFICES ASSUME current = Months
               PROVE  Salaries!MonthsAddUp
  BY MonthsOfYear DEF Salaries!MonthsAddUp
<1>2. n \in Nat \ {0} /\ n \in Months /\ Salaries!Months = Months
  BY MonthsOfYear DEF Months
<1>3. \A m \in Months : InForce(m) # None
  BY <1>1 DEF SalariesInv, Computed
<1>4. form \in Terms /\ \A m \in Months : InForce(m) = Newest
  BY <1>2, <1>3, OneContract
<1>5. b \in Int /\ h \in Int /\ s \in Int /\ t \in Int /\ c \in Int
  <2>1. /\ form.base \in Int /\ form.hour \in Int /\ form.meeting \in Int /\ form.percent \in Int
        /\ form.commission \in Int /\ form.insurance \in Int /\ form.tax \in Int
    BY <1>4, SalariesOK
  <2> HIDE DEF form
  <2> QED BY <2>1
<1>6. ASSUME NEW kind \in Salaries!FactKinds
      PROVE  /\ \A m \in Months : R(kind)[m] \in Int
             /\ SumFunctionOnSet(R(kind), Months) = All(kind)
             /\ Salaries!SumFunction(facts[kind]) = All(kind)
  <2>1. facts[kind] \in [Salaries!Days -> Int]
    BY DEF SalariesInv
  <2>2. \A m \in Months : R(kind)[m] =
          SumFunctionOnSet(facts[kind], Salaries!Bounds(m).first..Salaries!Bounds(m).last)
    BY SalariesSum, Zenon DEF Salaries!Recorded
  <2>3. SumFunctionOnSet(R(kind), Months) = All(kind)
    <3> HIDE DEF R
    <3> QED BY <2>1, <2>2, MonthsCover
  <2>4. Salaries!SumFunction(facts[kind]) = All(kind)
    <3>1. DOMAIN facts[kind] = Salaries!Days
      BY <2>1
    <3>2. Salaries!SumFunction(facts[kind]) = SumFunctionOnSet(facts[kind], DOMAIN facts[kind])
      BY SalariesSum, Zenon
    <3> QED BY <3>1, <3>2
  <2>5. ASSUME NEW m \in Months PROVE R(kind)[m] \in Int
    <3> DEFINE P == Salaries!Bounds(m).first..Salaries!Bounds(m).last
    <3>1. IsFiniteSet(P) /\ P \subseteq Salaries!Days
      BY <1>2, PeriodInYear
    <3>2. \A d \in P : facts[kind][d] \in Int
      BY <2>1, <3>1
    <3>3. R(kind)[m] = SumFunctionOnSet(facts[kind], P)
      BY <2>2
    <3> HIDE DEF P, R
    <3> QED BY <3>1, <3>2, <3>3, SumInt
  <2> QED BY <2>3, <2>4, <2>5
<1>7. {"hours", "meetings", "tuition", "sold"} = Salaries!FactKinds
  BY DEF Salaries!FactKinds
<1>8. ASSUME NEW m \in Months
      PROVE  nets[m] = b + R("hours")[m] * h + R("meetings")[m] * s
                       + (R("tuition")[m] * t + R("sold")[m] * c)
  <2>1. nets[m] = Salaries!Net(Salaries!Amounts(form, Salaries!Bounds(m)), form)
    BY <1>1, <1>4 DEF SalariesInv, Computed, Due
  <2>2. R("hours")[m] \in Int /\ R("meetings")[m] \in Int /\ R("tuition")[m] \in Int /\ R("sold")[m] \in Int
    BY <1>6, <1>7
  <2> DEFINE rh == Salaries!Recorded("hours", Salaries!Bounds(m))
             rm == Salaries!Recorded("meetings", Salaries!Bounds(m))
             rt == Salaries!Recorded("tuition", Salaries!Bounds(m))
             rs == Salaries!Recorded("sold", Salaries!Bounds(m))
  <2>3. R("hours")[m] = rh /\ R("meetings")[m] = rm /\ R("tuition")[m] = rt /\ R("sold")[m] = rs
    OBVIOUS
  <2> HIDE DEF R, rh, rm, rt, rs
  <2>4. nets[m] = form.base
                  + (IF form.kind \in {"hourly", "combined"} THEN rh * form.hour ELSE 0)
                  + (IF form.kind = "session" THEN rm * form.meeting ELSE 0)
                  + ((IF form.kind \in {"percentage", "combined"} THEN rt * form.percent ELSE 0)
                     + rs * form.commission)
                  - (form.insurance + form.tax)
    BY <2>1 DEF Salaries!Net, Salaries!Amounts, rh, rm, rt, rs
  <2>5. \A x \in Int : x * 0 = 0
    OBVIOUS
  <2>6. /\ rh * h = IF form.kind \in {"hourly", "combined"} THEN rh * form.hour ELSE 0
        /\ rm * s = IF form.kind = "session" THEN rm * form.meeting ELSE 0
        /\ rt * t = IF form.kind \in {"percentage", "combined"} THEN rt * form.percent ELSE 0
    BY <2>2, <2>3, <2>5
  <2>7. nets[m] = form.base + rh * h + rm * s + (rt * t + rs * c) - (form.insurance + form.tax)
    BY <2>4, <2>6
  <2>8. /\ rh * h \in Int /\ rm * s \in Int /\ rt * t \in Int /\ rs * c \in Int
        /\ form.base \in Int /\ form.insurance \in Int /\ form.tax \in Int
    <3>1. \A x, y \in Int : x * y \in Int
      OBVIOUS
    <3>2. rh \in Int /\ rm \in Int /\ rt \in Int /\ rs \in Int
      BY <2>2, <2>3
    <3> QED BY <1>4, <1>5, <3>1, <3>2, SalariesOK
  <2> DEFINE x1 == rh * h
             x2 == rm * s
             x3 == rt * t
             x4 == rs * c
             y0 == form.base
             y1_ == form.insurance
             y2 == form.tax
  <2>9. nets[m] = y0 + x1 + x2 + (x3 + x4) - (y1_ + y2) /\ b = y0 - y1_ - y2
    BY <2>7
  <2>10. /\ x1 \in Int /\ x2 \in Int /\ x3 \in Int /\ x4 \in Int
         /\ y0 \in Int /\ y1_ \in Int /\ y2 \in Int
    BY <2>8
  <2>11. b + x1 + x2 + (x3 + x4)
           = b + R("hours")[m] * h + R("meetings")[m] * s + (R("tuition")[m] * t + R("sold")[m] * c)
    BY <2>3
  <2> HIDE DEF x1, x2, x3, x4, y0, y1_, y2, nets, b
  <2>12. nets[m] = b + x1 + x2 + (x3 + x4)
    BY <2>9, <2>10
  <2> QED BY <2>11, <2>12
<1>9. SumFunctionOnSet(nets, Months) =
        Cardinality(Months) * b + SumFunctionOnSet(R("hours"), Months) * h
        + SumFunctionOnSet(R("meetings"), Months) * s
        + (SumFunctionOnSet(R("tuition"), Months) * t + SumFunctionOnSet(R("sold"), Months) * c)
  <2>1. IsFiniteSet(Months)
    BY <1>2, FS_Interval DEF Months
  <2>2. \A m \in Months :
          R("hours")[m] \in Int /\ R("meetings")[m] \in Int /\ R("tuition")[m] \in Int /\ R("sold")[m] \in Int
    BY <1>6, <1>7
  <2> DEFINE rh == R("hours")
             rm == R("meetings")
             rt == R("tuition")
             rs == R("sold")
  <2>3. \A m \in Months : rh[m] \in Int /\ rm[m] \in Int /\ rt[m] \in Int /\ rs[m] \in Int
    BY <2>2
  <2>4. \A m \in Months : nets[m] = b + rh[m] * h + rm[m] * s + (rt[m] * t + rs[m] * c)
    BY <1>8
  <2> HIDE DEF form, n, All, R, nets, b, h, s, t, c, rh, rm, rt, rs
  <2>5. SumFunctionOnSet(nets, Months) =
          Cardinality(Months) * b + SumFunctionOnSet(rh, Months) * h
          + SumFunctionOnSet(rm, Months) * s
          + (SumFunctionOnSet(rt, Months) * t + SumFunctionOnSet(rs, Months) * c)
    BY <1>5, <2>1, <2>3, <2>4, SumOfAmounts
  <2> QED BY <2>5 DEF rh, rm, rt, rs
<1>10. Cardinality(Months) = n
  BY <1>2, FS_Interval DEF Months
<1>11. Salaries!SumFunction([m \in Salaries!Months |-> payslips[m].net]) = SumFunctionOnSet(nets, Months)
  <2>1. nets = [m \in Salaries!Months |-> payslips[m].net] /\ DOMAIN nets = Months
    BY <1>2
  <2>2. Salaries!SumFunction(nets) = SumFunctionOnSet(nets, DOMAIN nets)
    BY SalariesSum, Zenon
  <2> HIDE DEF nets
  <2> QED BY <2>1, <2>2
<1>12. contracts[Salaries!ActiveContract(Salaries!Bounds(Len(MonthLength)).last)].form = form
  BY <1>2, <1>4 DEF InForce
<1>13. /\ SumFunctionOnSet(R("hours"), Months) = All("hours")
       /\ SumFunctionOnSet(R("meetings"), Months) = All("meetings")
       /\ SumFunctionOnSet(R("tuition"), Months) = All("tuition")
       /\ SumFunctionOnSet(R("sold"), Months) = All("sold")
       /\ Salaries!SumFunction(facts["hours"]) = All("hours")
       /\ Salaries!SumFunction(facts["meetings"]) = All("meetings")
       /\ Salaries!SumFunction(facts["tuition"]) = All("tuition")
       /\ Salaries!SumFunction(facts["sold"]) = All("sold")
  BY <1>6, <1>7
<1>14. /\ All("hours") \in Int /\ All("meetings") \in Int /\ All("tuition") \in Int /\ All("sold") \in Int
  <2>1. IsFiniteSet(Months)
    BY <1>2, FS_Interval DEF Months
  <2>2. ASSUME NEW kind \in Salaries!FactKinds PROVE SumFunctionOnSet(R(kind), Months) \in Int
    <3>1. \A m \in Months : R(kind)[m] \in Int
      BY <1>6
    <3> HIDE DEF R
    <3> QED BY <2>1, <3>1, SumInt
  <2> QED BY <1>7, <1>13, <2>2
<1> DEFINE ah == All("hours")
           am == All("meetings")
           at == All("tuition")
           as == All("sold")
<1>15. /\ ah * h = (IF form.kind \in {"hourly", "combined"} THEN ah * form.hour ELSE 0)
       /\ am * s = (IF form.kind = "session" THEN am * form.meeting ELSE 0)
       /\ at * t = (IF form.kind \in {"percentage", "combined"} THEN at * form.percent ELSE 0)
  <2>1. \A x \in Int : x * 0 = 0
    OBVIOUS
  <2>2. ah \in Int /\ am \in Int /\ at \in Int
    BY <1>14
  <2> HIDE DEF ah, am, at
  <2> QED BY <2>1, <2>2
<1>16. SumFunctionOnSet(nets, Months) = n * b + ah * h + am * s + at * t + as * c
  <2>1. SumFunctionOnSet(nets, Months) = n * b + ah * h + am * s + (at * t + as * c)
    BY <1>9, <1>10, <1>13
  <2>2. /\ n * b \in Int /\ ah * h \in Int /\ am * s \in Int /\ at * t \in Int /\ as * c \in Int
    <3>1. \A x, y \in Int : x * y \in Int
      OBVIOUS
    <3> HIDE DEF b, h, s, t, c, ah, am, at, as
    <3>2. n \in Int /\ ah \in Int /\ am \in Int /\ at \in Int /\ as \in Int
      BY <1>2, <1>14 DEF ah, am, at, as
    <3> QED BY <1>5, <3>1, <3>2
  <2> DEFINE x0 == n * b
             x1 == ah * h
             x2 == am * s
             x3 == at * t
             x4 == as * c
             x == SumFunctionOnSet(nets, Months)
  <2> HIDE DEF x, x0, x1, x2, x3, x4
  <2>3. x = x0 + x1 + x2 + (x3 + x4)
    BY <2>1 DEF x, x0, x1, x2, x3, x4
  <2>4. x0 \in Int /\ x1 \in Int /\ x2 \in Int /\ x3 \in Int /\ x4 \in Int
    BY <2>2 DEF x0, x1, x2, x3, x4
  <2>5. x = x0 + x1 + x2 + x3 + x4
    BY <2>3, <2>4
  <2> QED BY <2>5 DEF x, x0, x1, x2, x3, x4
<1>17. Salaries!SumFunction([m \in Salaries!Months |-> payslips[m].net]) =
         n * b
         + (IF form.kind \in {"hourly", "combined"} THEN ah * form.hour ELSE 0)
         + (IF form.kind = "session" THEN am * form.meeting ELSE 0)
         + (IF form.kind \in {"percentage", "combined"} THEN at * form.percent ELSE 0)
         + as * c
  <2> HIDE DEF nets, b, h, s, t, c, ah, am, at, as, form
  <2> QED BY <1>11, <1>15, <1>16
<1>18. /\ Salaries!SumFunction(facts["hours"]) = ah /\ Salaries!SumFunction(facts["meetings"]) = am
       /\ Salaries!SumFunction(facts["tuition"]) = at /\ Salaries!SumFunction(facts["sold"]) = as
  BY <1>13
<1> HIDE DEF ah, am, at, as
<1> QED BY <1>12, <1>17, <1>18, Zenon DEF Salaries!MonthsAddUp

(* Contracts: with any months, contracts and records, the payslips of all  *)
(* months together pay for every hour, meeting, payment and fee once.      *)
THEOREM MonthsAddUpAlways == MCSpec => []MonthsAddUp
<1> DEFINE Inv == part = "salaries" => SalariesInv
<1>1. MCInit => Inv
  BY SalariesInit DEF MCInit
<1>2. ASSUME Inv, [MCNext]_mcvars, part' = "salaries" PROVE SalariesInv'
  <2>1. part = "salaries" /\ SalariesInv
    BY <1>2 DEF MCNext, mcvars
  <2>2. CASE SalariesStep
    BY <2>1, <2>2, SalariesStepKeeps DEF SalariesStep
  <2>3. CASE UNCHANGED salaries
    <3>1. UNCHANGED Salaries!vars
      BY <2>3 DEF salaries, Salaries!vars
    <3> QED BY <2>1, <3>1, SalariesStepKeeps
  <2>4. SalariesStep \/ UNCHANGED salaries
    BY <1>2, <2>1 DEF MCNext, mcvars, Rest, Others
  <2> QED BY <2>2, <2>3, <2>4
<1>3. Inv /\ [MCNext]_mcvars => Inv'
  BY <1>2
<1>4. Inv => MonthsAddUp
  BY SalariesAddUp DEF MonthsAddUp
<1> QED BY <1>1, <1>3, <1>4, PTL DEF MCSpec

-----------------------------------------------------------------------------
(* Ledger.  Every account that an entry names exists, and posted entries   *)
(* balance.                                                                *)

VoucherRow == [day : Days, items : EntryForms, status : Statuses]

OnAccounts(items) == \A i \in DOMAIN items : accounts[items[i].account] # None

LedgerInv ==
  /\ groups \in [Groups -> AccountTypes \cup {None}]
  /\ accounts \in [Codes -> AccountRow \cup {None}]
  /\ vouchers \in Seq(VoucherRow)
  /\ \A e \in DOMAIN vouchers :
       /\ OnAccounts(vouchers[e].items)
       /\ vouchers[e].status \in Posted => Books!Balanced(vouchers[e].items)

LEMMA LedgerSum ==
  /\ \A f, S : Books!SumFunctionOnSet(f, S) = SumFunctionOnSet(f, S)
  /\ \A f : Books!SumFunction(f) = SumFunctionOnSet(f, DOMAIN f)
<1>1. \A f, S : Books!SumFunctionOnSet(f, S) = SumFunctionOnSet(f, S)
  BY Zenon DEF Books!SumFunctionOnSet, Books!FoldFunctionOnSet, Books!MapThenFoldSet,
               SumFunctionOnSet, FoldFunctionOnSet, MapThenFoldSet
<1> QED BY <1>1, Zenon DEF Books!SumFunction

LEMMA LedgerInit == ASSUME Books!Init PROVE LedgerInv
<1>1. vouchers = <<>> /\ <<>> \in Seq(VoucherRow)
  BY DEF Books!Init
<1>2. groups \in [Groups -> AccountTypes \cup {None}] /\ accounts \in [Codes -> AccountRow \cup {None}]
  BY DEF Books!Init
<1> QED BY <1>1, <1>2 DEF LedgerInv

(* Rows are added to the chart and never taken away.                       *)
LEMMA ChartStep ==
  ASSUME LedgerInv,
         groups' \in [Groups -> AccountTypes \cup {None}],
         accounts' \in [Codes -> AccountRow \cup {None}],
         \A c \in Codes : accounts[c] # None => accounts'[c] # None,
         UNCHANGED vouchers
  PROVE  LedgerInv'
<1>1. ASSUME NEW e \in DOMAIN vouchers PROVE OnAccounts(vouchers[e].items)'
  <2> DEFINE items == vouchers[e].items
  <2>1. vouchers[e] \in VoucherRow /\ OnAccounts(items)
    BY ElementOfSeq DEF LedgerInv
  <2>2. items \in Seq(ItemRow)
    BY <2>1, LedgerOK DEF VoucherRow
  <2> HIDE DEF items
  <2>3. \A i \in DOMAIN items : items[i] \in ItemRow
    BY <2>2, ElementOfSeq
  <2>4. \A i \in DOMAIN items : items[i].account \in Codes
    BY <2>3 DEF ItemRow
  <2>5. \A i \in DOMAIN items : accounts'[items[i].account] # None
    BY <2>1, <2>4 DEF OnAccounts
  <2> QED BY <2>5 DEF OnAccounts, items
<1>2. \A items : Books!Balanced(items)' = Books!Balanced(items)
  BY DEF Books!Balanced, Books!Abs, Books!Side
<1>3. vouchers' \in Seq(VoucherRow)
  BY DEF LedgerInv
<1> QED BY <1>1, <1>2, <1>3 DEF LedgerInv

LEMMA EntriesStep ==
  ASSUME LedgerInv, UNCHANGED <<groups, accounts>>, vouchers' \in Seq(VoucherRow),
         \A e \in DOMAIN vouchers' :
           \/ e \in DOMAIN vouchers /\ vouchers'[e] = vouchers[e]
           \/ /\ OnAccounts(vouchers'[e].items)
              /\ vouchers'[e].status \in Posted => Books!Balanced(vouchers'[e].items)
  PROVE  LedgerInv'
<1>1. \A items : OnAccounts(items)' = OnAccounts(items)
  BY DEF OnAccounts
<1>2. \A items : Books!Balanced(items)' = Books!Balanced(items)
  BY DEF Books!Balanced, Books!Abs, Books!Side
<1> QED BY <1>1, <1>2 DEF LedgerInv

LEMMA LedgerStepKeeps ==
  ASSUME LedgerInv, [Books!Next]_(Books!vars) PROVE LedgerInv'
<1> USE DEF LedgerInv
<1>1. CASE Books!SeedChart
  <2>1. groups' \in [Groups -> AccountTypes \cup {None}]
    BY <1>1, LedgerOK DEF Books!SeedChart
  <2>2. accounts' \in [Codes -> AccountRow \cup {None}]
    BY <1>1, LedgerOK DEF Books!SeedChart
  <2>3. \A c \in Codes : accounts[c] # None => accounts'[c] # None
    BY <1>1 DEF Books!SeedChart
  <2>4. UNCHANGED vouchers
    BY <1>1 DEF Books!SeedChart
  <2> HIDE DEF LedgerInv
  <2> QED BY <2>1, <2>2, <2>3, <2>4, ChartStep
<1>2. ASSUME NEW g \in Groups, NEW type \in OwnTypes, Books!AddGroup(g, type)
      PROVE  LedgerInv'
  <2>1. groups' \in [Groups -> AccountTypes \cup {None}] /\ UNCHANGED <<accounts, vouchers>>
    BY <1>2, LedgerOK DEF Books!AddGroup
  <2> QED BY <2>1, ChartStep
<1>3. ASSUME NEW form \in OwnAccounts, Books!AddAccount(form) PROVE LedgerInv'
  <2> DEFINE type == IF form.type = None THEN groups[form.group] ELSE form.type
             nature == IF form.nature # None THEN form.nature
                       ELSE IF type \in {"asset", "expense"} THEN "debit" ELSE "credit"
             row == [group |-> form.group, type |-> type, nature |-> nature, active |-> TRUE]
  <2>1. /\ form.code \in Codes /\ form.group \in Groups
        /\ form.type \in AccountTypes \cup {None} /\ form.nature \in {"debit", "credit", None}
    BY LedgerOK
  <2>2. groups[form.group] # None /\ accounts' = [accounts EXCEPT ![form.code] = row]
        /\ UNCHANGED <<groups, vouchers>>
    BY <1>3 DEF Books!AddAccount
  <2>3. type \in AccountTypes
    BY <2>1, <2>2
  <2>4. nature \in {"debit", "credit"}
    BY <2>1
  <2>5. row \in AccountRow
    BY <2>1, <2>3, <2>4 DEF AccountRow
  <2>6. row # None
    BY <2>5, LedgerOK
  <2> HIDE DEF row
  <2>7. accounts' \in [Codes -> AccountRow \cup {None}]
        /\ \A c \in Codes : accounts[c] # None => accounts'[c] # None
    BY <2>1, <2>2, <2>5, <2>6
  <2> QED BY <2>2, <2>7, ChartStep
<1>4. ASSUME NEW c \in Codes, Books!ToggleAccount(c) PROVE LedgerInv'
  <2> DEFINE row == [accounts[c] EXCEPT !.active = ~@]
  <2>1. accounts[c] \in AccountRow
    BY <1>4 DEF Books!ToggleAccount
  <2>2. \A r \in AccountRow : [r EXCEPT !.active = ~@] \in AccountRow
    BY DEF AccountRow
  <2>3. row \in AccountRow /\ row # None
    BY <2>1, <2>2, LedgerOK
  <2>4. accounts' = [accounts EXCEPT ![c] = row] /\ UNCHANGED <<groups, vouchers>>
    BY <1>4 DEF Books!ToggleAccount
  <2> HIDE DEF row
  <2>5. accounts' \in [Codes -> AccountRow \cup {None}]
        /\ \A d \in Codes : accounts[d] # None => accounts'[d] # None
    BY <2>3, <2>4
  <2> QED BY <2>4, <2>5, ChartStep
<1>5. ASSUME NEW day \in Days, NEW items \in EntryForms, NEW confirmNow \in BOOLEAN,
             Books!AddEntry(day, items, confirmNow)
      PROVE  LedgerInv'
  <2> DEFINE row == [day |-> day, items |-> items,
                     status |-> IF confirmNow THEN "confirmed" ELSE "draft"]
  <2>1. row \in VoucherRow
    BY DEF VoucherRow, Statuses
  <2>2. vouchers' = Append(vouchers, row) /\ UNCHANGED <<groups, accounts>>
    BY <1>5 DEF Books!AddEntry
  <2>3. OnAccounts(row.items)
    BY <1>5 DEF Books!AddEntry, Books!WellFormed, OnAccounts
  <2>4. row.status \in Posted => Books!Balanced(row.items)
    BY <1>5 DEF Books!AddEntry, Posted
  <2> HIDE DEF row
  <2>5. vouchers' \in Seq(VoucherRow)
        /\ \A e \in DOMAIN vouchers' : \/ e \in DOMAIN vouchers /\ vouchers'[e] = vouchers[e]
                                       \/ vouchers'[e] = row
    BY <2>1, <2>2, AppendProperties
  <2> QED BY <2>2, <2>3, <2>4, <2>5, EntriesStep
<1>6. ASSUME NEW e \in DOMAIN vouchers, NEW row \in VoucherRow,
             vouchers' = [vouchers EXCEPT ![e] = row], UNCHANGED <<groups, accounts>>,
             OnAccounts(row.items), row.status \in Posted => Books!Balanced(row.items)
      PROVE  LedgerInv'
  <2>1. vouchers' \in Seq(VoucherRow)
        /\ \A d \in DOMAIN vouchers' : \/ d \in DOMAIN vouchers /\ vouchers'[d] = vouchers[d]
                                       \/ vouchers'[d] = row
    BY <1>6, ExceptSeq
  <2> QED BY <1>6, <2>1, EntriesStep
<1>7. ASSUME NEW e \in DOMAIN vouchers
      PROVE  /\ vouchers[e] \in VoucherRow /\ OnAccounts(vouchers[e].items)
             /\ vouchers[e].status \in Posted => Books!Balanced(vouchers[e].items)
  BY ElementOfSeq
<1>8. ASSUME NEW e \in DOMAIN vouchers, NEW day \in Days, NEW items \in EntryForms,
             Books!EditEntry(e, day, items)
      PROVE  LedgerInv'
  <2> DEFINE row == [vouchers[e] EXCEPT !.day = day, !.items = items]
  <2>1. row \in VoucherRow /\ row.items = items /\ row.status = "draft"
    BY <1>7, <1>8 DEF Books!EditEntry, VoucherRow
  <2>2. vouchers' = [vouchers EXCEPT ![e] = row] /\ UNCHANGED <<groups, accounts>>
    BY <1>8 DEF Books!EditEntry
  <2>3. OnAccounts(items)
    BY <1>8 DEF Books!EditEntry, Books!WellFormed, OnAccounts
  <2> HIDE DEF row, LedgerInv
  <2> QED BY <1>6, <2>1, <2>2, <2>3 DEF Posted
<1>9. ASSUME NEW e \in DOMAIN vouchers, NEW status \in Statuses,
             status \in Posted => Books!Balanced(vouchers[e].items),
             vouchers' = [vouchers EXCEPT ![e].status = status], UNCHANGED <<groups, accounts>>
      PROVE  LedgerInv'
  <2> DEFINE row == [vouchers[e] EXCEPT !.status = status]
  <2>1. row \in VoucherRow /\ row.items = vouchers[e].items /\ row.status = status
    BY <1>7 DEF VoucherRow
  <2>2. vouchers' = [vouchers EXCEPT ![e] = row]
    BY <1>9
  <2> HIDE DEF row, LedgerInv
  <2> QED BY <1>6, <1>7, <1>9, <2>1, <2>2
<1>10. ASSUME NEW e \in DOMAIN vouchers, NEW status \in Books!Posted, Books!PostEntry(e, status)
       PROVE  LedgerInv'
  <2>1. /\ status \in Statuses /\ Books!Balanced(vouchers[e].items)
        /\ vouchers' = [vouchers EXCEPT ![e].status = status] /\ UNCHANGED <<groups, accounts>>
    BY <1>10 DEF Books!PostEntry, Books!Posted, Statuses
  <2> HIDE DEF LedgerInv
  <2> QED BY <1>9, <2>1
<1>11. ASSUME NEW e \in DOMAIN vouchers, Books!CancelEntry(e) PROVE LedgerInv'
  <2>1. /\ "cancelled" \in Statuses \ Posted
        /\ vouchers' = [vouchers EXCEPT ![e].status = "cancelled"]
        /\ UNCHANGED <<groups, accounts>>
    BY <1>11 DEF Books!CancelEntry, Statuses, Posted
  <2> HIDE DEF LedgerInv
  <2> QED BY <1>9, <2>1
<1> HIDE DEF LedgerInv
<1>12. CASE UNCHANGED Books!vars
  <2>1. UNCHANGED <<groups, accounts, vouchers>>
    BY <1>12 DEF Books!vars
  <2> QED BY <2>1, EntriesStep DEF LedgerInv
<1>13. CASE Books!Next
  BY <1>1, <1>2, <1>3, <1>4, <1>5, <1>8, <1>10, <1>11, <1>13, Zenon DEF Books!Next
<1> QED BY <1>12, <1>13

-----------------------------------------------------------------------------
(* The reports.  The items of an entry, added up account by account, are   *)
(* its two sides, so that over all accounts the reports of any days add up *)
(* the sides of the entries posted on these days.                          *)

Sides == {"debit", "credit"}
OnAccount(items, c) == {k \in DOMAIN items : items[k].account = c}

LEMMA ItemsTyped ==
  ASSUME NEW items \in Seq(ItemRow), NEW side \in Sides
  PROVE  /\ IsFiniteSet(DOMAIN items)
         /\ \A i \in DOMAIN items : items[i].account \in Codes /\ items[i][side] \in Int
<1>1. Len(items) \in Nat /\ DOMAIN items = 1..Len(items)
  BY LenProperties
<1>2. IsFiniteSet(DOMAIN items)
  BY <1>1, FS_Interval
<1>3. \A i \in DOMAIN items : items[i] \in ItemRow
  BY ElementOfSeq
<1> QED BY <1>2, <1>3 DEF ItemRow, Sides

LEMMA EntrySplits ==
  ASSUME NEW items \in Seq(ItemRow), NEW side \in Sides, NEW of,
         \A c \in Codes :
           of[c] = SumFunctionOnSet([i \in OnAccount(items, c) |-> items[i][side]], OnAccount(items, c))
  PROVE  /\ \A c \in Codes : of[c] \in Int
         /\ Books!Side(items, side) \in Int
         /\ SumFunctionOnSet(of, Codes) = Books!Side(items, side)
<1> DEFINE I == DOMAIN items
           x == [i \in I |-> items[i][side]]
           F == [c \in Codes |-> [i \in I |-> IF items[i].account = c THEN items[i][side] ELSE 0]]
           G == [i \in I |-> [c \in Codes |-> IF items[i].account = c THEN items[i][side] ELSE 0]]
<1>1. IsFiniteSet(I) /\ \A i \in I : items[i].account \in Codes /\ items[i][side] \in Int
  BY ItemsTyped
<1>2. \A c \in Codes, i \in I : F[c][i] \in Int /\ G[i][c] = F[c][i]
  BY <1>1
<1>3. ASSUME NEW c \in Codes PROVE of[c] = SumFunctionOnSet(F[c], I) /\ of[c] \in Int
  <2> DEFINE A == OnAccount(items, c)
             g == [i \in A |-> items[i][side]]
  <2>1. A \in SUBSET I /\ IsFiniteSet(A)
    BY <1>1, FS_Subset DEF OnAccount
  <2>2. /\ \A i \in I : F[c][i] \in Int
        /\ \A i \in I \ A : F[c][i] = 0
        /\ \A i \in A : F[c][i] = g[i]
    BY <1>1, <1>2 DEF OnAccount
  <2>3. of[c] = SumFunctionOnSet(g, A)
    OBVIOUS
  <2> HIDE DEF I, A, g, F
  <2>4. SumFunctionOnSet(F[c], I) = SumFunctionOnSet(F[c], A)
    BY <1>1, <2>1, <2>2, SumWhere
  <2>5. SumFunctionOnSet(F[c], A) = SumFunctionOnSet(g, A)
    BY <2>1, <2>2, SumSame
  <2>6. SumFunctionOnSet(F[c], I) \in Int
    BY <1>1, <2>2, SumInt
  <2> QED BY <2>3, <2>4, <2>5, <2>6
<1>4. ASSUME NEW i \in I PROVE x[i] = SumFunctionOnSet(G[i], Codes)
  <2> DEFINE a == items[i].account
  <2>1. a \in Codes /\ G[i][a] = x[i] /\ x[i] \in Int /\ \A c \in Codes \ {a} : G[i][c] = 0
    BY <1>1
  <2>2. IsFiniteSet(Codes)
    BY LedgerOK
  <2> HIDE DEF I, a, x, G
  <2> QED BY <2>1, <2>2, SumOne
<1>5. Books!Side(items, side) = SumFunctionOnSet(x, I)
  <2>1. DOMAIN x = I /\ Books!Side(items, side) = Books!SumFunction(x)
    BY DEF Books!Side
  <2> HIDE DEF x, I
  <2> QED BY <2>1, LedgerSum
<1>6. \A i \in I : x[i] \in Int
  BY <1>1
<1>7. IsFiniteSet(Codes)
  BY LedgerOK
<1> HIDE DEF I, x, F, G
<1>8. SumFunctionOnSet(of, Codes) = SumFunctionOnSet(x, I)
  <2>1. Table(F, Codes, I) /\ Transposed(F, G, Codes, I)
    BY <1>2 DEF Table, Transposed
  <2>2. RowSums(of, F, Codes, I) /\ RowSums(x, G, I, Codes)
    BY <1>3, <1>4 DEF RowSums
  <2> QED BY <1>1, <1>7, <2>1, <2>2, SumSwap
<1>9. SumFunctionOnSet(x, I) \in Int
  BY <1>1, <1>6, SumInt
<1> QED BY <1>3, <1>5, <1>8, <1>9

LEMMA CountedEntries ==
  ASSUME LedgerInv, NEW from, NEW to
  PROVE  /\ Books!Counted(from, to) \subseteq DOMAIN vouchers
         /\ IsFiniteSet(Books!Counted(from, to))
         /\ \A e \in DOMAIN vouchers : vouchers[e] \in VoucherRow /\ vouchers[e].items \in Seq(ItemRow)
<1>1. vouchers \in Seq(VoucherRow) /\ Len(vouchers) \in Nat /\ DOMAIN vouchers = 1..Len(vouchers)
  BY LenProperties DEF LedgerInv
<1>2. Books!Counted(from, to) \subseteq DOMAIN vouchers
  BY DEF Books!Counted
<1>3. IsFiniteSet(DOMAIN vouchers)
  BY <1>1, FS_Interval
<1>4. \A e \in DOMAIN vouchers : vouchers[e] \in VoucherRow
  BY <1>1, ElementOfSeq
<1>5. \A e \in DOMAIN vouchers : vouchers[e].items \in Seq(ItemRow)
  BY <1>4, LedgerOK DEF VoucherRow
<1> QED BY <1>2, <1>3, <1>4, <1>5, FS_Subset

LEMMA TotalsSplit ==
  ASSUME LedgerInv, NEW from, NEW to, NEW side \in Sides,
         NEW totals, \A c \in Codes : totals[c] = Books!AccountTotal(c, side, from, to),
         NEW sums, \A e \in Books!Counted(from, to) : sums[e] = Books!Side(vouchers[e].items, side)
  PROVE  /\ \A c \in Codes : totals[c] \in Int
         /\ \A e \in Books!Counted(from, to) : sums[e] \in Int
         /\ SumFunctionOnSet(totals, Codes) = SumFunctionOnSet(sums, Books!Counted(from, to))
<1> DEFINE C == Books!Counted(from, to)
           Of(c, items) == SumFunctionOnSet([i \in OnAccount(items, c) |-> items[i][side]],
                                            OnAccount(items, c))
           F == [c \in Codes |-> [e \in C |-> Of(c, vouchers[e].items)]]
           G == [e \in C |-> [c \in Codes |-> Of(c, vouchers[e].items)]]
<1>1. C \subseteq DOMAIN vouchers /\ IsFiniteSet(C) /\ \A e \in C : vouchers[e].items \in Seq(ItemRow)
  BY CountedEntries
<1>2. IsFiniteSet(Codes)
  BY LedgerOK
<1>3. ASSUME NEW e \in C
      PROVE  /\ \A c \in Codes : Of(c, vouchers[e].items) \in Int
             /\ sums[e] = SumFunctionOnSet(G[e], Codes) /\ sums[e] \in Int
  <2> DEFINE items == vouchers[e].items
             of == G[e]
  <2>1. items \in Seq(ItemRow) /\ sums[e] = Books!Side(items, side)
    BY <1>1
  <2>2. \A c \in Codes : of[c] = SumFunctionOnSet([i \in OnAccount(items, c) |-> items[i][side]],
                                               OnAccount(items, c))
    OBVIOUS
  <2>3. \A c \in Codes : Of(c, items) = of[c]
    OBVIOUS
  <2> HIDE DEF items, of, Of, C, G
  <2>4. /\ \A c \in Codes : of[c] \in Int
        /\ Books!Side(items, side) \in Int
        /\ SumFunctionOnSet(of, Codes) = Books!Side(items, side)
    BY <2>1, <2>2, EntrySplits
  <2>5. \A c \in Codes : Of(c, items) \in Int
    BY <2>3, <2>4
  <2> QED BY <2>1, <2>4, <2>5 DEF of, items
<1>4. ASSUME NEW c \in Codes PROVE totals[c] = SumFunctionOnSet(F[c], C)
  <2>1. totals[c] = Books!SumFunction(F[c])
    <3>1. \A items : Of(c, items) =
            Books!SumFunction([i \in OnAccount(items, c) |-> items[i][side]])
      <4> TAKE items
      <4> DEFINE g == [i \in OnAccount(items, c) |-> items[i][side]]
      <4>1. DOMAIN g = OnAccount(items, c) /\ Of(c, items) = SumFunctionOnSet(g, OnAccount(items, c))
        OBVIOUS
      <4> HIDE DEF g, Of
      <4>2. Books!SumFunction(g) = SumFunctionOnSet(g, OnAccount(items, c))
        BY <4>1, LedgerSum
      <4> QED BY <4>1, <4>2 DEF g
    <3>2. F[c] = [e \in C |-> Of(c, vouchers[e].items)]
      OBVIOUS
    <3> HIDE DEF Of, F
    <3>3. totals[c] = Books!SumFunction([e \in C |-> Of(c, vouchers[e].items)])
      BY <3>1, Zenon DEF Books!AccountTotal, OnAccount
    <3> QED BY <3>2, <3>3
  <2>2. DOMAIN F[c] = C
    OBVIOUS
  <2> HIDE DEF F, C
  <2> QED BY <2>1, <2>2, LedgerSum
<1>5. \A c \in Codes, e \in C : F[c][e] \in Int /\ G[e][c] = F[c][e]
  <2> HIDE DEF Of
  <2> QED BY <1>3
<1> HIDE DEF C, F, G
<1>6. SumFunctionOnSet(totals, Codes) = SumFunctionOnSet(sums, C)
  <2>1. Table(F, Codes, C) /\ Transposed(F, G, Codes, C)
    BY <1>5 DEF Table, Transposed
  <2>2. RowSums(totals, F, Codes, C) /\ RowSums(sums, G, C, Codes)
    BY <1>3, <1>4 DEF RowSums
  <2> QED BY <1>1, <1>2, <2>1, <2>2, SumSwap
<1>7. ASSUME NEW c \in Codes PROVE totals[c] \in Int
  <2>1. \A e \in C : F[c][e] \in Int
    BY <1>5
  <2> QED BY <1>1, <1>4, <2>1, SumInt
<1> QED BY <1>3, <1>6, <1>7 DEF C

(* Over all accounts the two sides differ by what rounding may leave.      *)
LEMMA NetsBalance ==
  ASSUME LedgerInv, NEW from, NEW to, NEW nets,
         \A c \in Codes : nets[c] = Books!Net(c, from, to)
  PROVE  /\ \A c \in Codes : nets[c] \in Int
         /\ Books!Rounding(from, to) \in Int
         /\ SumFunctionOnSet(nets, Codes) \in Int
         /\ SumFunctionOnSet(nets, Codes) <= Books!Rounding(from, to)
         /\ -Books!Rounding(from, to) <= SumFunctionOnSet(nets, Codes)
<1> DEFINE C == Books!Counted(from, to)
           debits == [c \in Codes |-> Books!AccountTotal(c, "debit", from, to)]
           credits == [c \in Codes |-> Books!AccountTotal(c, "credit", from, to)]
           debit == [e \in C |-> Books!Side(vouchers[e].items, "debit")]
           credit == [e \in C |-> Books!Side(vouchers[e].items, "credit")]
           left == [e \in C |-> debit[e] - credit[e]]
           most == [e \in C |-> Tolerance]
           least == [e \in C |-> -Tolerance]
<1>1. IsFiniteSet(C) /\ IsFiniteSet(Codes) /\ Tolerance \in Nat
  BY CountedEntries, LedgerOK, ConstantsOK
<1>2. /\ \A c \in Codes : debits[c] \in Int
      /\ \A e \in C : debit[e] \in Int
      /\ SumFunctionOnSet(debits, Codes) = SumFunctionOnSet(debit, C)
  <2>1. /\ \A c \in Codes : debits[c] = Books!AccountTotal(c, "debit", from, to)
        /\ \A e \in C : debit[e] = Books!Side(vouchers[e].items, "debit")
    OBVIOUS
  <2>2. "debit" \in Sides
    BY DEF Sides
  <2> HIDE DEF debits, debit
  <2> QED BY <2>1, <2>2, TotalsSplit
<1>3. /\ \A c \in Codes : credits[c] \in Int
      /\ \A e \in C : credit[e] \in Int
      /\ SumFunctionOnSet(credits, Codes) = SumFunctionOnSet(credit, C)
  <2>1. /\ \A c \in Codes : credits[c] = Books!AccountTotal(c, "credit", from, to)
        /\ \A e \in C : credit[e] = Books!Side(vouchers[e].items, "credit")
    OBVIOUS
  <2>2. "credit" \in Sides
    BY DEF Sides
  <2> HIDE DEF credits, credit
  <2> QED BY <2>1, <2>2, TotalsSplit
<1>4. \A c \in Codes : nets[c] = debits[c] - credits[c]
  BY DEF Books!Net
<1>5. \A e \in C : left[e] = debit[e] - credit[e]
  OBVIOUS
<1>6. ASSUME NEW e \in C PROVE -Tolerance <= left[e] /\ left[e] <= Tolerance
  <2>1. Books!Balanced(vouchers[e].items)
    BY DEF Books!Counted, Books!Posted, Posted, LedgerInv
  <2>2. Books!Abs(left[e]) <= Tolerance
    BY <2>1 DEF Books!Balanced
  <2>3. left[e] \in Int
    BY <1>2, <1>3
  <2> HIDE DEF left
  <2> QED BY <1>1, <2>2, <2>3 DEF Books!Abs
<1>7. \A e \in C : most[e] = Tolerance /\ least[e] = -Tolerance
  OBVIOUS
<1>8. Books!Rounding(from, to) = Tolerance * Cardinality(C)
  <2>1. Books!Cardinality(C) = Cardinality(C)
    BY Zenon DEF Books!Cardinality, Cardinality
  <2> QED BY <2>1 DEF Books!Rounding
<1> HIDE DEF C, debits, credits, debit, credit, left, most, least
<1>9. SumFunctionOnSet(nets, Codes) = SumFunctionOnSet(debits, Codes) - SumFunctionOnSet(credits, Codes)
  BY <1>1, <1>2, <1>3, <1>4, SumMinus
<1>10. SumFunctionOnSet(left, C) = SumFunctionOnSet(debit, C) - SumFunctionOnSet(credit, C)
  BY <1>1, <1>2, <1>3, <1>5, SumMinus
<1>11. SumFunctionOnSet(nets, Codes) = SumFunctionOnSet(left, C)
  BY <1>2, <1>3, <1>9, <1>10
<1>12. \A e \in C : left[e] \in Int /\ most[e] \in Int /\ least[e] \in Int
  BY <1>1, <1>2, <1>3, <1>5, <1>7
<1>13. SumFunctionOnSet(left, C) <= SumFunctionOnSet(most, C)
  <2>1. \A e \in C : left[e] <= most[e]
    BY <1>6, <1>7
  <2> QED BY <1>1, <1>12, <2>1, SumAtMost
<1>14. SumFunctionOnSet(least, C) <= SumFunctionOnSet(left, C)
  <2>1. \A e \in C : least[e] <= left[e]
    BY <1>6, <1>7
  <2> QED BY <1>1, <1>12, <2>1, SumAtMost
<1>15. Cardinality(C) \in Nat /\ -Tolerance \in Int
  BY <1>1, FS_CardinalityType
<1>16. SumFunctionOnSet(most, C) = Cardinality(C) * Tolerance
  BY <1>1, <1>7, SumConstant
<1>17. SumFunctionOnSet(least, C) = Cardinality(C) * (-Tolerance)
  BY <1>1, <1>7, <1>15, SumConstant
<1>18. SumFunctionOnSet(left, C) \in Int
  BY <1>1, <1>12, SumInt
<1>19. \A c \in Codes : nets[c] \in Int
  BY <1>2, <1>3, <1>4
<1> DEFINE sum == SumFunctionOnSet(nets, Codes)
           r == Books!Rounding(from, to)
<1>20. r \in Int /\ sum \in Int /\ sum <= r /\ -r <= sum
  <2> DEFINE n == Cardinality(C)
             u == SumFunctionOnSet(left, C)
  <2>1. \A x, y \in Int : x * y \in Int /\ x * y = y * x /\ x * (-y) = -(y * x)
    OBVIOUS
  <2>2. n \in Int /\ Tolerance \in Int
    BY <1>1, <1>15
  <2>3. r \in Int /\ n * Tolerance = r /\ n * (-Tolerance) = -r
    BY <1>8, <2>1, <2>2
  <2>4. sum = u /\ u \in Int /\ u <= n * Tolerance /\ n * (-Tolerance) <= u
    BY <1>11, <1>13, <1>14, <1>16, <1>17, <1>18
  <2> HIDE DEF r, sum, u, n
  <2> QED BY <2>3, <2>4
<1> QED BY <1>19, <1>20

LEMMA UnusedIsZero ==
  ASSUME LedgerInv, NEW from, NEW to, NEW c \in Codes, ~Books!InUse(c)
  PROVE  Books!Net(c, from, to) = 0
<1> DEFINE C == Books!Counted(from, to)
<1>1. IsFiniteSet(C) /\ C \subseteq DOMAIN vouchers
  BY CountedEntries
<1>2. ASSUME NEW side PROVE Books!AccountTotal(c, side, from, to) = 0
  <2> DEFINE Of(items) ==
               Books!SumFunction([i \in {k \in DOMAIN items : items[k].account = c} |-> items[i][side]])
             f == [e \in C |-> Of(vouchers[e].items)]
  <2>1. Books!AccountTotal(c, side, from, to) = Books!SumFunction(f)
    BY DEF Books!AccountTotal
  <2>2. ASSUME NEW e \in C PROVE f[e] = 0
    <3> DEFINE items == vouchers[e].items
               g == [i \in {k \in DOMAIN items : items[k].account = c} |-> items[i][side]]
    <3>1. DOMAIN g = {}
      BY <1>1 DEF Books!InUse
    <3>2. f[e] = Books!SumFunction(g)
      OBVIOUS
    <3> HIDE DEF g, f
    <3> QED BY <3>1, <3>2, LedgerSum, SumEmpty
  <2>3. DOMAIN f = C
    OBVIOUS
  <2> HIDE DEF f, C
  <2> QED BY <1>1, <2>1, <2>2, <2>3, LedgerSum, SumOfZeros
<1> QED BY <1>2 DEF Books!Net

(* The reports list the accounts by their types, and each type once.       *)
LEMMA ReportsOfAllAccounts == ASSUME LedgerInv PROVE Books!ReportsAgree
<1>1. SUFFICES ASSUME \A c \in Codes : Books!InUse(c) => accounts[c].active,
                      NEW from \in Days, NEW to \in Days
               PROVE  LET Worth(c) == IF accounts[c].nature = "debit"
                                      THEN Books!LedgerBalance(c, from, to)
                                      ELSE -Books!LedgerBalance(c, from, to)
                      IN
                      /\ Books!Abs(Books!TrialTotal("debit", from, to) - Books!TrialTotal("credit", from, to))
                           <= Books!Rounding(from, to)
                      /\ Books!Abs(Books!SumFunction([c \in Books!Listed({"asset", "liability", "equity"}) |-> Worth(c)])
                             - Books!Profit(from, to)) <= Books!Rounding(from, to)
  BY Zenon DEF Books!ReportsAgree
<1> DEFINE A == {c \in Codes : accounts[c] # None /\ accounts[c].active}
           nets == [c \in Codes |-> Books!Net(c, from, to)]
           Worth(c) == IF accounts[c].nature = "debit" THEN Books!LedgerBalance(c, from, to)
                       ELSE -Books!LedgerBalance(c, from, to)
           r == Books!Rounding(from, to)
           sum == SumFunctionOnSet(nets, A)
<1>2. IsFiniteSet(Codes) /\ A \in SUBSET Codes /\ IsFiniteSet(A)
  BY LedgerOK, FS_Subset
<1>3. \A c \in Codes : nets[c] = Books!Net(c, from, to)
  OBVIOUS
<1>4. /\ \A c \in Codes : nets[c] \in Int
      /\ r \in Int /\ SumFunctionOnSet(nets, Codes) \in Int
      /\ SumFunctionOnSet(nets, Codes) <= r /\ -r <= SumFunctionOnSet(nets, Codes)
  <2> HIDE DEF nets
  <2> QED BY <1>3, NetsBalance
<1>5. ASSUME NEW c \in Codes \ A PROVE nets[c] = 0
  <2>1. ASSUME Books!InUse(c) PROVE c \in A
    <3>1. PICK e \in DOMAIN vouchers : \E i \in DOMAIN vouchers[e].items : vouchers[e].items[i].account = c
      BY <2>1 DEF Books!InUse
    <3>2. accounts[c] # None
      BY <3>1 DEF LedgerInv, OnAccounts
    <3> QED BY <1>1, <2>1, <3>2
  <2> QED BY <2>1, UnusedIsZero
<1>6. sum = SumFunctionOnSet(nets, Codes)
  <2> HIDE DEF nets, A
  <2> QED BY <1>2, <1>4, <1>5, SumWhere
<1>7. sum \in Int /\ Books!Abs(sum) <= r
  <2>1. sum \in Int /\ sum <= r /\ -r <= sum
    BY <1>4, <1>6
  <2> HIDE DEF sum, r
  <2> QED BY <1>4, <2>1 DEF Books!Abs
<1>8. Books!TrialTotal("debit", from, to) - Books!TrialTotal("credit", from, to) = sum
  <2> DEFINE debit == [c \in A |-> Books!TrialRow(c, "debit", from, to)]
             credit == [c \in A |-> Books!TrialRow(c, "credit", from, to)]
  <2>1. \A c \in A : debit[c] \in Int /\ credit[c] \in Int /\ nets[c] = debit[c] - credit[c]
    <3> SUFFICES ASSUME NEW c \in A
                 PROVE  debit[c] \in Int /\ credit[c] \in Int /\ nets[c] = debit[c] - credit[c]
      OBVIOUS
    <3> DEFINE net == Books!Net(c, from, to)
    <3>1. net \in Int /\ nets[c] = net
      BY <1>2, <1>4
    <3>2. /\ debit[c] = IF net > 0 THEN net ELSE 0
          /\ credit[c] = IF net < 0 THEN -net ELSE 0
      BY DEF Books!TrialRow
    <3> HIDE DEF net, nets, debit, credit
    <3> QED BY <3>1, <3>2
  <2>2. /\ Books!TrialTotal("debit", from, to) = Books!SumFunction(debit)
        /\ Books!TrialTotal("credit", from, to) = Books!SumFunction(credit)
    BY Zenon DEF Books!TrialTotal
  <2>3. DOMAIN debit = A /\ DOMAIN credit = A
    OBVIOUS
  <2> HIDE DEF debit, credit, nets, A
  <2>4. sum = SumFunctionOnSet(debit, A) - SumFunctionOnSet(credit, A)
    BY <1>2, <2>1, SumMinus
  <2> HIDE DEF sum
  <2> QED BY <2>2, <2>3, <2>4, LedgerSum
<1>9. Books!SumFunction([c \in Books!Listed({"asset", "liability", "equity"}) |-> Worth(c)])
        - Books!Profit(from, to) = sum
  <2> DEFINE L == Books!Listed({"asset", "liability", "equity"})
             R == Books!Listed({"revenue"})
             E == Books!Listed({"expense"})
             worth == [c \in L |-> Worth(c)]
             earned == [c \in R |-> -Books!Net(c, from, to)]
             spent == [c \in E |-> Books!Net(c, from, to)]
  <2>1. /\ L \in SUBSET A /\ R = (A \ L) \ E /\ E \in SUBSET (A \ L)
        /\ R \in SUBSET (A \ L) /\ (A \ L) \ E = R
    <3>1. \A c \in A : accounts[c].type \in AccountTypes
      BY DEF LedgerInv, AccountRow
    <3> QED BY <3>1 DEF Books!Listed, AccountTypes
  <2>2. IsFiniteSet(L) /\ IsFiniteSet(R) /\ IsFiniteSet(E) /\ IsFiniteSet(A \ L)
    BY <1>2, <2>1, FS_Subset
  <2>3. /\ \A c \in L : worth[c] = nets[c]
        /\ \A c \in R : nets[c] \in Int /\ 0 \in Int /\ earned[c] = 0 - nets[c]
        /\ \A c \in E : spent[c] = nets[c]
    <3>1. \A c \in A : nets[c] \in Int /\ Books!Net(c, from, to) = nets[c]
      BY <1>2, <1>4
    <3>2. ASSUME NEW c \in A PROVE Worth(c) = nets[c]
      <4> DEFINE net == nets[c]
      <4>1. net \in Int /\ Books!LedgerBalance(c, from, to) =
                            IF accounts[c].nature = "debit" THEN net ELSE -net
        BY <3>1 DEF Books!LedgerBalance
      <4>2. Worth(c) = IF accounts[c].nature = "debit" THEN Books!LedgerBalance(c, from, to)
                       ELSE -Books!LedgerBalance(c, from, to)
        OBVIOUS
      <4> HIDE DEF net, Worth
      <4>3. Worth(c) = net
        BY <4>1, <4>2
      <4> QED BY <4>3 DEF net
    <3> HIDE DEF nets, A, L, R, E, Worth
    <3> QED BY <2>1, <3>1, <3>2
  <2>4. /\ Books!SumFunction(worth) = SumFunctionOnSet(worth, L)
        /\ Books!SumFunction(earned) = SumFunctionOnSet(earned, R)
        /\ Books!SumFunction(spent) = SumFunctionOnSet(spent, E)
    <3>1. DOMAIN worth = L /\ DOMAIN earned = R /\ DOMAIN spent = E
      OBVIOUS
    <3> HIDE DEF worth, earned, spent, L, R, E
    <3> QED BY <3>1, LedgerSum
  <2>5. Books!Profit(from, to) = Books!SumFunction(earned) - Books!SumFunction(spent)
    BY Zenon DEF Books!Profit
  <2> HIDE DEF worth, earned, spent, L, R, E, A, nets
  <2>6. SumFunctionOnSet(worth, L) = SumFunctionOnSet(nets, L)
    BY <2>2, <2>3, SumSame
  <2>7. SumFunctionOnSet(spent, E) = SumFunctionOnSet(nets, E)
    BY <2>2, <2>3, SumSame
  <2>8. SumFunctionOnSet(earned, R) = 0 - SumFunctionOnSet(nets, R)
    <3> DEFINE none == [c \in R |-> 0]
    <3>1. \A c \in R : none[c] = 0
      OBVIOUS
    <3> HIDE DEF none
    <3>2. SumFunctionOnSet(none, R) = 0
      BY <2>2, <3>1, SumOfZeros
    <3>3. \A c \in R : none[c] \in Int /\ nets[c] \in Int /\ earned[c] = none[c] - nets[c]
      BY <2>3, <3>1
    <3> QED BY <2>2, <3>2, <3>3, SumMinus
  <2>9. sum = SumFunctionOnSet(nets, L) + SumFunctionOnSet(nets, A \ L)
    <3>1. \A c \in A : nets[c] \in Int
      BY <1>2, <1>4
    <3> QED BY <1>2, <2>1, <3>1, SumUnion
  <2>10. SumFunctionOnSet(nets, A \ L) = SumFunctionOnSet(nets, E) + SumFunctionOnSet(nets, R)
    <3> DEFINE S == A \ L
    <3>1. \A c \in S : nets[c] \in Int
      BY <1>2, <1>4
    <3>2. IsFiniteSet(S) /\ E \in SUBSET S /\ R = S \ E
      BY <2>1, <2>2
    <3> HIDE DEF S
    <3>3. SumFunctionOnSet(nets, S) = SumFunctionOnSet(nets, E) + SumFunctionOnSet(nets, S \ E)
      BY <3>1, <3>2, SumUnion
    <3>4. SumFunctionOnSet(nets, S) = SumFunctionOnSet(nets, E) + SumFunctionOnSet(nets, R)
      BY <3>2, <3>3
    <3> QED BY <3>4 DEF S
  <2>11. /\ SumFunctionOnSet(nets, L) \in Int /\ SumFunctionOnSet(nets, E) \in Int
         /\ SumFunctionOnSet(nets, R) \in Int
    <3>1. \A c \in L \cup E \cup R : nets[c] \in Int
      BY <1>2, <1>4, <2>1
    <3> QED BY <2>2, <3>1, SumInt
  <2>12. Books!SumFunction(worth) - Books!Profit(from, to) = sum
    <3> HIDE DEF sum
    <3> QED BY <2>4, <2>5, <2>6, <2>7, <2>8, <2>9, <2>10, <2>11
  <2> QED BY <2>12 DEF worth, L
<1> HIDE DEF sum, r, Worth
<1> QED BY <1>7, <1>8, <1>9 DEF r, Worth

(* Ledger: with any chart, accounts and entries, the reports agree as long *)
(* as every account in use is active.                                      *)
THEOREM ReportsAgreeAlways == MCSpec => []ReportsAgree
<1> DEFINE Inv == part = "ledger" => LedgerInv
<1>1. MCInit => Inv
  BY LedgerInit DEF MCInit
<1>2. ASSUME Inv, [MCNext]_mcvars, part' = "ledger" PROVE LedgerInv'
  <2>1. part = "ledger" /\ LedgerInv
    BY <1>2 DEF MCNext, mcvars
  <2>2. CASE BooksStep
    BY <2>1, <2>2, LedgerStepKeeps DEF BooksStep
  <2>3. CASE UNCHANGED books
    <3>1. UNCHANGED Books!vars
      BY <2>3 DEF books, Books!vars
    <3> QED BY <2>1, <3>1, LedgerStepKeeps
  <2>4. BooksStep \/ UNCHANGED books
    BY <1>2, <2>1 DEF MCNext, mcvars, Rest, Others
  <2> QED BY <2>2, <2>3, <2>4
<1>3. Inv /\ [MCNext]_mcvars => Inv'
  BY <1>2
<1>4. Inv => ReportsAgree
  BY ReportsOfAllAccounts DEF ReportsAgree
<1> QED BY <1>1, <1>3, <1>4, PTL DEF MCSpec

-----------------------------------------------------------------------------
(* Tax.  As long as no two requests overlap, a calculation works with the  *)
(* payslips and the rule of the tables; adding up slices of brackets and   *)
(* adding up the steps of an amount is the same.                           *)

LEMMA TaxSum ==
  /\ \A f, S : Tax!SumFunctionOnSet(f, S) = SumFunctionOnSet(f, S)
  /\ \A f : Tax!SumFunction(f) = SumFunctionOnSet(f, DOMAIN f)
<1>1. \A f, S : Tax!SumFunctionOnSet(f, S) = SumFunctionOnSet(f, S)
  BY Zenon DEF Tax!SumFunctionOnSet, Tax!FoldFunctionOnSet, Tax!MapThenFoldSet,
               SumFunctionOnSet, FoldFunctionOnSet, MapThenFoldSet
<1> QED BY <1>1, Zenon DEF Tax!SumFunction

(* The steps of an amount that a bracket taxes.                            *)
InBracket(b, u) == b.from < u /\ (b.to # None => u <= b.to)

LEMMA SliceCountsSteps ==
  ASSUME NEW b \in BracketRow, NEW amount \in Int
  PROVE  /\ IsFiniteSet({u \in 1..amount : InBracket(b, u)})
         /\ Tax!Slice(b, amount) = Cardinality({u \in 1..amount : InBracket(b, u)})
<1> DEFINE upper == IF b.to = None THEN amount ELSE Tax!Smaller(amount, b.to)
           low == b.from
<1>1. low \in Nat /\ (b.to # None => b.to \in Int)
  BY DEF BracketRow
<1>2. upper \in Int /\ upper <= amount
  BY <1>1 DEF Tax!Smaller
<1>3. \A u \in 1..amount : (b.to # None => u <= b.to) <=> u <= upper
  BY <1>1 DEF Tax!Smaller
<1>4. {u \in 1..amount : InBracket(b, u)} = (low + 1)..upper
  <2> HIDE DEF upper
  <2> QED BY <1>1, <1>2, <1>3 DEF InBracket
<1>5. Tax!Slice(b, amount) = IF upper <= low THEN 0 ELSE upper - low
  BY DEF Tax!Slice
<1> HIDE DEF upper, low
<1>6. /\ IsFiniteSet((low + 1)..upper)
      /\ Cardinality((low + 1)..upper) = IF low + 1 > upper THEN 0 ELSE upper - (low + 1) + 1
  BY <1>1, <1>2, FS_Interval
<1> DEFINE cardinality == Cardinality((low + 1)..upper)
<1>7. cardinality = IF upper <= low THEN 0 ELSE upper - low
  <2>1. cardinality = IF low + 1 > upper THEN 0 ELSE upper - (low + 1) + 1
    BY <1>6
  <2> HIDE DEF cardinality
  <2> QED BY <1>1, <1>2, <2>1
<1>8. Tax!Slice(b, amount) = cardinality
  <2> HIDE DEF cardinality
  <2> QED BY <1>5, <1>7
<1> QED BY <1>4, <1>6, <1>8, Zenon

(* What a set of brackets takes of a step, and a bracket of all of them.   *)
LEMMA ProgressiveIsLegal ==
  ASSUME NEW rule \in RuleRow, NEW amount \in Int
  PROVE  Tax!Progressive(rule, amount) = Tax!LegalTax(rule, amount)
<1> DEFINE B == rule.brackets
           S == DOMAIN B
           T == 1..amount
           rates(u) == {i \in S : B[i].from < u /\ (B[i].to # None => u <= B[i].to)}
           F == [i \in S |-> [u \in T |-> IF InBracket(B[i], u) THEN B[i].rate ELSE 0]]
           G == [u \in T |-> [i \in S |-> IF InBracket(B[i], u) THEN B[i].rate ELSE 0]]
           slices == [i \in S |-> Tax!Slice(B[i], amount) * B[i].rate]
           ratesOf(u) == [i \in rates(u) |-> B[i].rate]
           cols == [u \in T |-> Tax!SumFunction(ratesOf(u))]
<1>1. /\ B \in Seq(BracketRow) /\ IsFiniteSet(S) /\ IsFiniteSet(T)
      /\ \A i \in S : B[i] \in BracketRow /\ B[i].rate \in Int
  <2>1. B \in Seq(BracketRow)
    BY DEF RuleRow
  <2>2. S = 1..Len(B) /\ Len(B) \in Nat /\ \A i \in S : B[i] \in BracketRow
    BY <2>1
  <2>3. IsFiniteSet(1..Len(B)) /\ IsFiniteSet(1..amount)
    BY <2>2, FS_Interval
  <2>4. \A i \in S : B[i].rate \in Int
    BY <2>2 DEF BracketRow
  <2> QED BY <2>1, <2>2, <2>3, <2>4
<1>2. Table(F, S, T)
  BY <1>1 DEF Table
<1>3. Transposed(F, G, S, T)
  BY DEF Transposed
<1>4. RowSums(slices, F, S, T)
  <2>1. ASSUME NEW i \in S PROVE slices[i] = SumFunctionOnSet(F[i], T)
    <3> DEFINE A == {u \in T : InBracket(B[i], u)}
               k == B[i].rate
               f == F[i]
    <3>1. k \in Int /\ IsFiniteSet(A) /\ Tax!Slice(B[i], amount) = Cardinality(A)
      BY <1>1, <2>1, SliceCountsSteps
    <3>2. /\ \A u \in T : f[u] \in Int
          /\ \A u \in A : f[u] = k
          /\ \A u \in T \ A : f[u] = 0
      BY <1>1, <2>1
    <3>3. A \in SUBSET T
      OBVIOUS
    <3>4. slices[i] = Tax!Slice(B[i], amount) * k
      BY <2>1
    <3> HIDE DEF A, k, f
    <3>5. SumFunctionOnSet(f, T) = SumFunctionOnSet(f, A)
      BY <1>1, <3>2, <3>3, SumWhere
    <3>6. SumFunctionOnSet(f, A) = Cardinality(A) * k
      BY <3>1, <3>2, SumConstant
    <3> QED BY <3>1, <3>4, <3>5, <3>6 DEF f
  <2> HIDE DEF slices, F, S, T
  <2> QED BY <2>1 DEF RowSums
<1>5. RowSums(cols, G, T, S)
  <2>1. ASSUME NEW u \in T PROVE cols[u] = SumFunctionOnSet(G[u], S)
    <3> DEFINE A == rates(u)
               g == G[u]
               f == ratesOf(u)
    <3>1. /\ \A i \in S : g[i] \in Int
          /\ \A i \in A : g[i] = f[i]
          /\ \A i \in S \ A : g[i] = 0
      BY <1>1, <2>1 DEF InBracket
    <3>2. A \in SUBSET S /\ IsFiniteSet(A)
      BY <1>1, FS_Subset
    <3>3. cols[u] = SumFunctionOnSet(f, A)
      <4>1. cols[u] = Tax!SumFunction(f) /\ DOMAIN f = A
        BY <2>1
      <4> HIDE DEF A, g, f, cols
      <4> QED BY <4>1, TaxSum
    <3> HIDE DEF A, g, f, S
    <3>4. SumFunctionOnSet(g, S) = SumFunctionOnSet(g, A)
      BY <1>1, <3>1, <3>2, SumWhere
    <3>5. SumFunctionOnSet(g, A) = SumFunctionOnSet(f, A)
      BY <3>1, <3>2, SumSame
    <3> QED BY <3>3, <3>4, <3>5 DEF g
  <2> HIDE DEF cols, G, S, T
  <2> QED BY <2>1 DEF RowSums
<1>6. Tax!Progressive(rule, amount) =
        IF amount <= rule.exemption THEN 0 ELSE SumFunctionOnSet(slices, S)
  <2>1. Tax!Progressive(rule, amount) =
          IF amount <= rule.exemption THEN 0 ELSE Tax!SumFunction(slices)
    BY DEF Tax!Progressive
  <2>2. DOMAIN slices = S
    OBVIOUS
  <2> HIDE DEF slices, S
  <2> QED BY <2>1, <2>2, TaxSum
<1>7. Tax!LegalTax(rule, amount) =
        IF amount <= rule.exemption THEN 0 ELSE SumFunctionOnSet(cols, T)
  <2>1. Tax!LegalTax(rule, amount) =
          IF amount <= rule.exemption THEN 0 ELSE Tax!SumFunction(cols)
    BY DEF Tax!LegalTax
  <2>2. DOMAIN cols = T
    OBVIOUS
  <2> HIDE DEF cols, T
  <2> QED BY <2>1, <2>2, TaxSum
<1> HIDE DEF F, G, S, T, slices, cols
<1>8. SumFunctionOnSet(slices, S) = SumFunctionOnSet(cols, T)
  BY <1>1, <1>2, <1>3, <1>4, <1>5, SumSwap
<1> QED BY <1>6, <1>7, <1>8

(* The brackets of a form can be put in order: first by their lower ends,  *)
(* then as they were sent.                                                 *)
Before(key, i, j) == key[i] < key[j] \/ (key[i] = key[j] /\ i < j)

LEMMA LastOfSome ==
  ASSUME NEW n \in Nat, NEW key, \A i \in 1..n : key[i] \in Int,
         NEW T \in SUBSET (1..n), T # {}
  PROVE  \E t \in T : \A u \in T \ {t} : Before(key, u, t)
<1> DEFINE Keys == {key[i] : i \in T}
<1>1. IsFiniteSet(T) /\ IsFiniteSet(Keys)
  <2>1. IsFiniteSet(1..n)
    BY FS_Interval
  <2>2. IsFiniteSet(T)
    BY <2>1, FS_Subset
  <2> DEFINE ofKey == [i \in T |-> key[i]]
  <2>3. ofKey \in [T -> Keys] /\ \A k \in Keys : \E i \in T : ofKey[i] = k
    OBVIOUS
  <2>4. ofKey \in Surjection(T, Keys)
    <3> HIDE DEF ofKey, Keys
    <3> QED BY <2>3 DEF Surjection
  <2> HIDE DEF ofKey, Keys
  <2> QED BY <2>2, <2>4, FS_Surjection
<1>2. Keys \in SUBSET Int /\ Keys # {}
  OBVIOUS
<1>3. PICK k \in Keys : \A l \in Keys : k >= l
  <2> HIDE DEF Keys
  <2> QED BY <1>1, <1>2, GreatestExists
<1> DEFINE Top == {i \in T : key[i] = k}
<1>4. Top \in SUBSET Int /\ Top # {} /\ IsFiniteSet(Top)
  <2>1. Top \in SUBSET T /\ Top # {} /\ T \in SUBSET Int
    OBVIOUS
  <2> HIDE DEF Top
  <2> QED BY <1>1, <2>1, FS_Subset
<1>5. PICK t \in Top : \A u \in Top : t >= u
  <2> HIDE DEF Top
  <2> QED BY <1>4, GreatestExists
<1>6. ASSUME NEW u \in T \ {t} PROVE Before(key, u, t)
  <2>1. key[u] \in Int /\ key[t] = k /\ k \in Int /\ key[u] <= k /\ u \in Int /\ t \in Int
    BY <1>2, <1>3
  <2>2. key[u] = k => u <= t
    BY <1>5
  <2> QED BY <2>1, <2>2 DEF Before
<1> QED BY <1>6

LEMMA SortingExists ==
  ASSUME NEW n \in Nat, NEW key, \A i \in 1..n : key[i] \in Int
  PROVE  \E s \in [1..n -> 1..n] : \A i, j \in 1..n : i < j => Before(key, s[i], s[j])
<1> DEFINE S == 1..n
           Sorts(s, T) == \A i, j \in 1..Cardinality(T) : i < j => Before(key, s[i], s[j])
           Good == {T \in SUBSET S : \E s \in [1..Cardinality(T) -> T] : Sorts(s, T)}
<1>1. IsFiniteSet(S) /\ Cardinality(S) = n
  BY FS_Interval
<1>2. {} \in Good
  <2> DEFINE s == [i \in 1..0 |-> 0]
  <2>1. Cardinality({}) = 0 /\ 1..0 = {}
    BY FS_EmptySet
  <2>2. s \in [1..Cardinality({}) -> {}] /\ Sorts(s, {})
    BY <2>1
  <2> QED BY <2>2
<1>3. ASSUME NEW T \in SUBSET S, T # {}, \A x \in T : T \ {x} \in Good
      PROVE  T \in Good
  <2>1. PICK t \in T : \A u \in T \ {t} : Before(key, u, t)
    BY <1>3, LastOfSome
  <2>2. PICK r \in [1..Cardinality(T \ {t}) -> T \ {t}] : Sorts(r, T \ {t})
    BY <1>3
  <2> DEFINE m == Cardinality(T)
             rest == Cardinality(T \ {t})
             s == [i \in 1..m |-> IF i = m THEN t ELSE r[i]]
  <2>3. rest = m - 1 /\ m \in Nat /\ rest \in Nat
    <3>1. IsFiniteSet(T)
      BY <1>1, FS_Subset
    <3> QED BY <3>1, FS_RemoveElement, FS_CardinalityType
  <2>4. \A i, j \in 1..rest : i < j => Before(key, r[i], r[j])
    BY <2>2
  <2>5. r \in [1..rest -> T \ {t}]
    BY <2>2
  <2> HIDE DEF m, rest
  <2>6. s \in [1..m -> T]
    <3>1. ASSUME NEW i \in 1..m, i # m PROVE r[i] \in T
      <4>1. i \in 1..rest
        BY <2>3, <3>1
      <4> QED BY <2>5, <4>1
    <3>2. \A i \in 1..m : (IF i = m THEN t ELSE r[i]) \in T
      BY <3>1
    <3> QED BY <3>2
  <2>7. ASSUME NEW i \in 1..m, NEW j \in 1..m, i < j PROVE Before(key, s[i], s[j])
    <3>1. i \in 1..rest /\ i # m
      BY <2>3, <2>7
    <3>2. s[i] = r[i] /\ r[i] \in T \ {t}
      BY <2>5, <3>1
    <3>3. CASE j = m
      BY <2>1, <3>2, <3>3
    <3>4. CASE j # m
      <4>1. j \in 1..rest /\ s[j] = r[j]
        BY <2>3, <3>4
      <4> QED BY <2>4, <2>7, <3>1, <3>2, <4>1
    <3> QED BY <3>3, <3>4
  <2> HIDE DEF s
  <2> QED BY <2>6, <2>7 DEF m
<1>4. S \in Good
  <2> HIDE DEF Good, S
  <2> QED BY <1>1, <1>2, <1>3, SubsetInduction
<1> QED BY <1>1, <1>4

(* What normalize_brackets() leaves are brackets again.                    *)
LEMMA NormalizedBrackets ==
  ASSUME NEW brackets \in Seq(BracketRow)
  PROVE  Tax!Normalized(brackets) \in Seq(BracketRow)
<1> DEFINE n == Len(brackets)
           Ordered(s) ==
             \A i, j \in 1..n : i < j =>
               /\ s[i] # s[j]
               /\ \/ brackets[s[i]].from < brackets[s[j]].from
                  \/ brackets[s[i]].from = brackets[s[j]].from /\ s[i] < s[j]
           up == CHOOSE s \in [1..n -> 1..n] : Ordered(s)
           key == [i \in 1..n |-> brackets[i].from]
           to(i) == IF i = n THEN None
                    ELSE IF brackets[up[i]].to = None THEN brackets[up[i + 1]].from
                    ELSE brackets[up[i]].to
           result == [i \in 1..n |-> [brackets[up[i]] EXCEPT !.to = to(i)]]
<1>1. n \in Nat /\ \A i \in 1..n : brackets[i] \in BracketRow /\ brackets[i].from \in Nat
  <2>1. n \in Nat /\ \A i \in 1..n : brackets[i] \in BracketRow
    OBVIOUS
  <2> QED BY <2>1 DEF BracketRow
<1>2. up \in [1..n -> 1..n]
  <2>1. \A i \in 1..n : key[i] \in Int /\ key[i] = brackets[i].from
    BY <1>1
  <2> HIDE DEF key, n
  <2>2. PICK s \in [1..n -> 1..n] : \A i, j \in 1..n : i < j => Before(key, s[i], s[j])
    BY <1>1, <2>1, SortingExists
  <2>3. ASSUME NEW i \in 1..n, NEW j \in 1..n, i < j
        PROVE  /\ s[i] # s[j]
               /\ \/ brackets[s[i]].from < brackets[s[j]].from
                  \/ brackets[s[i]].from = brackets[s[j]].from /\ s[i] < s[j]
    <3>1. Before(key, s[i], s[j]) /\ s[i] \in 1..n /\ s[j] \in 1..n
      BY <2>2, <2>3
    <3>2. s[i] \in Int /\ s[j] \in Int /\ key[s[i]] \in Int /\ key[s[j]] \in Int
      <4>1. key[s[i]] \in Int /\ key[s[j]] \in Int
        BY <2>1, <3>1, Zenon
      <4>2. 1..n \subseteq Int
        BY <1>1
      <4> QED BY <3>1, <4>1, <4>2, Zenon
    <3>3. key[s[i]] = brackets[s[i]].from /\ key[s[j]] = brackets[s[j]].from
      BY <2>1, <3>1
    <3>4. s[i] = s[j] => ~Before(key, s[i], s[j])
      BY <3>2 DEF Before
    <3> QED BY <3>1, <3>3, <3>4 DEF Before
  <2>4. Ordered(s)
    BY <2>3
  <2> HIDE DEF Ordered
  <2> QED BY <2>4, Zenon
<1>3. Tax!Normalized(brackets) = result
  BY Zenon DEF Tax!Normalized
<1> HIDE DEF up, n
<1>4. ASSUME NEW i \in 1..n PROVE [brackets[up[i]] EXCEPT !.to = to(i)] \in BracketRow
  <2>1. brackets[up[i]] \in BracketRow
    BY <1>1, <1>2
  <2>2. i # n => brackets[up[i + 1]].from \in Nat
    <3>1. i # n => i + 1 \in 1..n
      BY <1>1
    <3> QED BY <1>1, <1>2, <3>1
  <2>3. to(i) \in Int \cup {None}
    BY <2>1, <2>2 DEF BracketRow
  <2> HIDE DEF to
  <2> QED BY <2>1, <2>3 DEF BracketRow
<1>5. result \in [1..n -> BracketRow]
  BY <1>4
<1>6. result \in Seq(BracketRow)
  <2> HIDE DEF result
  <2> QED BY <1>1, <1>5
<1> QED BY <1>3, <1>6

LEMMA RuleOfForm == ASSUME NEW form \in RuleRow PROVE Tax!RuleOf(form) \in RuleRow
<1>1. form.brackets \in Seq(BracketRow)
  BY DEF RuleRow
<1>2. Tax!Normalized(form.brackets) \in Seq(BracketRow)
  BY <1>1, NormalizedBrackets
<1> QED BY <1>2 DEF Tax!RuleOf, RuleRow

(* Payslips have the columns that the model keeps of them.                 *)
SlipColumns == {"paid", "base", "tax", "net"}
IsSlip(row) == row = [c \in SlipColumns |-> row[c]] /\ row.base \in Int

(* A process that has heard of the last change knows what the table says.  *)
Knows(p, rules, known) ==
  \A y \in PayYears : known[p][y] \in {None, Tax!Effective(rules[y])}

TaxTables(rules, known, pay, told) ==
  /\ rules \in [PayYears -> RuleRow \cup {None}]
  /\ known = [p \in Processes |-> [y \in PayYears |-> known[p][y]]]
  /\ pay = [s \in Slips |-> pay[s]] /\ \A s \in Slips : IsSlip(pay[s])
  /\ told \subseteq Processes /\ \A p \in told : Knows(p, rules, known)

(* What a request has in hand, if nothing has changed since it began.      *)
Shows(r, rules) == r.rule = Tax!Effective(rules[r.y])
Writes(r, known) == \A y \in PayYears : known[r.p][y] = None
Saves(r, rules) == r.rule \in RuleRow /\ r.loaded = rules[r.y]

ToTax(y, pay) == {s \in Slips : YearOf[s] = y /\ ~pay[s].paid}
Calculates(r, rules, pay, told) ==
  /\ r = [c \in {"op", "p", "y", "loaded", "todo", "tax"} |-> r[c]]
  /\ r.loaded = pay
  /\ r.todo \cup DOMAIN r.tax = ToTax(r.y, pay)
  /\ r.p \in told =>
       \A s \in DOMAIN r.tax :
         r.tax[s] = Tax!Progressive(Tax!Effective(rules[r.y]), pay[s].base)

InHandOfTax(r, rules, known, pay, told) ==
  /\ r # Idle => r.p \in Processes /\ r.y \in PayYears
  /\ r.op = "show" => Shows(r, rules)
  /\ r.op \in {"save", "delete"} => Writes(r, known)
  /\ r.op = "save" => Saves(r, rules)
  /\ r.op = "calculate" => Calculates(r, rules, pay, told)

TaxInv ==
  /\ req = [w \in Threads |-> req[w]] /\ served \in Nat
  /\ alone =>
       /\ \A v, w \in Threads : req[v] # Idle /\ req[w] # Idle => v = w
       /\ TaxTables(table, cache, slips, heard)
       /\ \A w \in Threads : InHandOfTax(req[w], table, cache, slips, heard)

TaxAlone == alone' = (alone /\ ~Overlap(<<table, slips>>, <<table, slips>>'))

LEMMA IdleHasNothing ==
  ASSUME NEW rules, NEW known, NEW pay, NEW told
  PROVE  InHandOfTax(Idle, rules, known, pay, told)
BY DEF InHandOfTax, Idle

(* A request that begins, or the one in progress, while the others rest.   *)
LEMMA OneTaxRequest ==
  ASSUME TaxInv, TaxAlone, NEW w \in Threads, NEW r,
         req' = [req EXCEPT ![w] = r], served' \in Nat,
         req[w] # Idle \/ served' # served,
         alone /\ alone' =>
           /\ TaxTables(table', cache', slips', heard')
           /\ InHandOfTax(r, table', cache', slips', heard')
  PROVE  TaxInv'
<1>1. req' = [v \in Threads |-> req'[v]] /\ req'[w] = r
  BY DEF TaxInv
<1>2. alone' => alone
  BY DEF TaxAlone
<1>3. ASSUME alone', NEW v \in Threads, v # w PROVE req'[v] = Idle
  <2>1. req'[v] = req[v]
    BY <1>3 DEF TaxInv
  <2>2. CASE req[w] # Idle
    BY <1>2, <1>3, <2>1, <2>2 DEF TaxInv
  <2>3. CASE served' # served
    BY <1>3, <2>1, <2>3 DEF TaxAlone, Overlap
  <2> QED BY <2>2, <2>3
<1>4. ASSUME alone', NEW v \in Threads
      PROVE  InHandOfTax(req'[v], table', cache', slips', heard')
  BY <1>1, <1>2, <1>3, <1>4, IdleHasNothing
<1> QED BY <1>1, <1>2, <1>3, <1>4 DEF TaxInv

(* Requests go on or are lost.                                             *)
LEMMA TaxRequestsGoOn ==
  ASSUME TaxInv, TaxAlone, req' = [v \in Threads |-> req'[v]], UNCHANGED served,
         \A v \in Threads : req'[v] \in {req[v], Idle},
         alone /\ alone' =>
           /\ TaxTables(table', cache', slips', heard')
           /\ \A v \in Threads : req'[v] # Idle =>
                InHandOfTax(req'[v], table', cache', slips', heard')
  PROVE  TaxInv'
<1>1. alone' => alone
  BY DEF TaxAlone
<1>2. ASSUME alone', NEW v \in Threads
      PROVE  InHandOfTax(req'[v], table', cache', slips', heard')
  BY <1>1, <1>2, IdleHasNothing
<1>3. ASSUME alone', NEW v \in Threads, NEW w \in Threads, req'[v] # Idle, req'[w] # Idle
      PROVE  v = w
  BY <1>1, <1>3 DEF TaxInv
<1> QED BY <1>1, <1>2, <1>3 DEF TaxInv

LEMMA TaxInit == ASSUME Tax!Init PROVE TaxInv
<1>1. /\ req = [w \in Threads |-> Idle] /\ served = 0 /\ heard = Processes
      /\ table = [y \in PayYears |-> None]
      /\ cache = [p \in Processes |-> Tax!AtImport]
      /\ slips \in [Slips -> {Tax!NotComputed(b) : b \in Bases}]
  BY DEF Tax!Init, Tax!Idle, Idle
<1>2. \A s \in Slips : IsSlip(slips[s])
  <2>1. \A b \in Bases : IsSlip(Tax!NotComputed(b))
    BY TaxOK DEF IsSlip, SlipColumns, Tax!NotComputed
  <2> QED BY <1>1, <2>1
<1>3. slips = [s \in Slips |-> slips[s]]
  BY <1>1
<1>4. \A p \in Processes : Knows(p, table, cache)
  BY <1>1 DEF Knows, Tax!AtImport, Tax!Effective
<1>5. cache = [p \in Processes |-> [y \in PayYears |-> cache[p][y]]]
  BY <1>1 DEF Tax!AtImport
<1>6. table \in [PayYears -> RuleRow \cup {None}]
  BY <1>1
<1>7. TaxTables(table, cache, slips, heard)
  BY <1>1, <1>2, <1>3, <1>4, <1>5, <1>6 DEF TaxTables
<1>8. \A w \in Threads : req[w] = Idle /\ InHandOfTax(req[w], table, cache, slips, heard)
  BY <1>1, IdleHasNothing
<1> QED BY <1>1, <1>7, <1>8 DEF TaxInv

(* Requests that begin.                                                    *)
LEMMA TaxBegins ==
  ASSUME TaxInv, TaxAlone, NEW w \in Threads, NEW r, Tax!Begin(w, r),
         alone => TaxTables(table', cache', slips', heard'),
         alone => InHandOfTax(r, table', cache', slips', heard')
  PROVE  TaxInv'
<1>1. req' = [req EXCEPT ![w] = r] /\ served' = served + 1
  BY DEF Tax!Begin
<1>2. served' \in Nat /\ served' # served
  BY <1>1 DEF TaxInv
<1> QED BY <1>1, <1>2, OneTaxRequest

LEMMA BeginShowKeeps ==
  ASSUME TaxInv, TaxAlone, NEW w \in Threads, NEW p \in Processes, NEW y \in PayYears,
         Tax!BeginShow(w, p, y)
  PROVE  TaxInv'
<1> DEFINE r == [op |-> "show", p |-> p, y |-> y, rule |-> Tax!Effective(table[y])]
<1>1. Tax!Begin(w, r) /\ UNCHANGED <<table, cache, slips, heard>>
  BY DEF Tax!BeginShow
<1>2. InHandOfTax(r, table, cache, slips, heard)
  BY DEF InHandOfTax, Shows
<1> HIDE DEF r
<1> QED BY <1>1, <1>2, TaxBegins DEF TaxInv

LEMMA EmptiedKnows ==
  ASSUME NEW p \in Processes, Tax!Invalidate(p),
         UNCHANGED <<table, slips, heard>>, TaxTables(table, cache, slips, heard)
  PROVE  /\ TaxTables(table', cache', slips', heard')
         /\ \A y \in PayYears : cache'[p][y] = None
<1>1. cache' = [cache EXCEPT ![p] = [y \in PayYears |-> None]]
  BY DEF Tax!Invalidate
<1>2. /\ \A q \in Processes : cache'[q] = IF q = p THEN [y \in PayYears |-> None] ELSE cache[q]
      /\ cache' = [q \in Processes |-> cache'[q]]
  BY <1>1 DEF TaxTables
<1>3. cache' = [q \in Processes |-> [y \in PayYears |-> cache'[q][y]]]
  BY <1>2 DEF TaxTables
<1>4. ASSUME NEW q \in heard PROVE Knows(q, table', cache')
  <2>1. ASSUME NEW z \in PayYears PROVE cache'[q][z] \in {None, Tax!Effective(table[z])}
    <3>1. q \in Processes /\ Knows(q, table, cache)
      BY DEF TaxTables
    <3>2. cache[q][z] \in {None, Tax!Effective(table[z])}
      BY <3>1 DEF Knows
    <3>3. cache'[q] = IF q = p THEN [x \in PayYears |-> None] ELSE cache[q]
      BY <1>2, <3>1
    <3> QED BY <3>2, <3>3
  <2>2. table' = table
    OBVIOUS
  <2> QED BY <2>1, <2>2 DEF Knows
<1> QED BY <1>2, <1>3, <1>4 DEF TaxTables

LEMMA BeginChangeKeeps ==
  ASSUME TaxInv, TaxAlone, NEW w \in Threads, NEW p \in Processes, NEW y \in PayYears,
         Tax!BeginDelete(w, p, y) \/ \E form \in TaxForms : Tax!BeginSave(w, p, y, form)
  PROVE  TaxInv'
<1>1. Tax!Invalidate(p) /\ UNCHANGED <<table, slips, heard>>
  BY DEF Tax!BeginDelete, Tax!BeginSave
<1>2. alone => TaxTables(table', cache', slips', heard')
  BY <1>1, EmptiedKnows DEF TaxInv
<1>3. alone => \A z \in PayYears : cache'[p][z] = None
  BY <1>1, EmptiedKnows DEF TaxInv
<1>4. CASE Tax!BeginDelete(w, p, y)
  <2> DEFINE r == [op |-> "delete", p |-> p, y |-> y]
  <2>1. Tax!Begin(w, r)
    BY <1>4 DEF Tax!BeginDelete
  <2>2. alone => InHandOfTax(r, table', cache', slips', heard')
    BY <1>3 DEF InHandOfTax, Writes
  <2> HIDE DEF r
  <2> QED BY <1>2, <2>1, <2>2, TaxBegins
<1>5. ASSUME NEW form \in TaxForms, Tax!BeginSave(w, p, y, form) PROVE TaxInv'
  <2> DEFINE rule == Tax!RuleOf(form)
             r == [op |-> "save", p |-> p, y |-> y, rule |-> rule, loaded |-> table[y]]
  <2>1. Tax!Begin(w, r)
    BY <1>5 DEF Tax!BeginSave
  <2>2. rule \in RuleRow
    BY TaxOK, RuleOfForm
  <2> HIDE DEF rule
  <2>3. alone => InHandOfTax(r, table', cache', slips', heard')
    BY <1>1, <1>3, <2>2 DEF InHandOfTax, Writes, Saves
  <2> HIDE DEF r
  <2> QED BY <1>2, <2>1, <2>3, TaxBegins
<1> QED BY <1>4, <1>5

LEMMA BeginCalculateKeeps ==
  ASSUME TaxInv, TaxAlone, NEW w \in Threads, NEW p \in Processes, NEW y \in PayYears,
         Tax!BeginCalculate(w, p, y)
  PROVE  TaxInv'
<1> DEFINE none == [s \in {} |-> 0]
           todo == {s \in Slips : YearOf[s] = y /\ ~slips[s].paid}
           r == [op |-> "calculate", p |-> p, y |-> y, loaded |-> slips, todo |-> todo,
                 tax |-> none]
<1>1. Tax!Begin(w, r) /\ UNCHANGED <<table, cache, slips, heard>>
  BY DEF Tax!BeginCalculate
<1>2. DOMAIN none = {} /\ todo = ToTax(y, slips)
  BY DEF ToTax
<1> HIDE DEF none, todo
<1>3. Calculates(r, table, slips, heard)
  BY <1>2 DEF Calculates
<1>4. InHandOfTax(r, table, cache, slips, heard)
  BY <1>3 DEF InHandOfTax
<1> HIDE DEF r
<1> QED BY <1>1, <1>4, TaxBegins DEF TaxInv

-----------------------------------------------------------------------------
(* Requests that end.                                                      *)
LEMMA TaxEnds ==
  ASSUME TaxInv, TaxAlone, NEW w \in Threads, Tax!Finish(w), req[w] # Idle,
         alone => TaxTables(table', cache', slips', heard')
  PROVE  TaxInv'
<1>1. req' = [req EXCEPT ![w] = Idle] /\ served' = served
  BY DEF Tax!Finish, Tax!Idle, Idle
<1>2. served' \in Nat
  BY <1>1 DEF TaxInv
<1>3. InHandOfTax(Idle, table', cache', slips', heard')
  BY IdleHasNothing
<1> QED BY <1>1, <1>2, <1>3, OneTaxRequest

(* A cache that learns what the table says of a year.                      *)
LEMMA LearntKnows ==
  ASSUME TaxTables(table, cache, slips, heard), NEW p \in Processes, NEW y \in PayYears, NEW rule,
         p \in heard => rule = Tax!Effective(table[y]),
         cache' = [cache EXCEPT ![p][y] = rule], UNCHANGED <<table, slips, heard>>
  PROVE  TaxTables(table', cache', slips', heard')
<1>1. /\ cache = [q \in Processes |-> [z \in PayYears |-> cache[q][z]]]
      /\ heard \subseteq Processes /\ \A q \in heard : Knows(q, table, cache)
  BY DEF TaxTables
<1>2. /\ cache' = [q \in Processes |-> [z \in PayYears |-> cache'[q][z]]]
      /\ \A q \in Processes, z \in PayYears :
           cache'[q][z] = IF q = p /\ z = y THEN rule ELSE cache[q][z]
  BY <1>1
<1>3. ASSUME NEW q \in heard PROVE Knows(q, table', cache')
  <2>1. ASSUME NEW z \in PayYears PROVE cache'[q][z] \in {None, Tax!Effective(table[z])}
    <3>1. q \in Processes /\ cache[q][z] \in {None, Tax!Effective(table[z])}
      BY <1>1 DEF Knows
    <3>2. cache'[q][z] = IF q = p /\ z = y THEN rule ELSE cache[q][z]
      BY <1>2, <3>1
    <3> QED BY <3>1, <3>2
  <2>2. table' = table
    OBVIOUS
  <2> QED BY <2>1, <2>2 DEF Knows
<1> QED BY <1>2, <1>3 DEF TaxTables

LEMMA FillKeeps ==
  ASSUME TaxInv, TaxAlone, NEW w \in Threads, Tax!Fill(w) PROVE TaxInv'
<1> DEFINE r == req[w]
<1>1. /\ r.op = "show" /\ r # Idle /\ Tax!Finish(w)
      /\ cache' = [cache EXCEPT ![r.p][r.y] = r.rule] /\ UNCHANGED <<table, slips, heard>>
  BY DEF Tax!Fill, Idle
<1>2. ASSUME alone PROVE TaxTables(table', cache', slips', heard')
  <2>1. TaxTables(table, cache, slips, heard) /\ InHandOfTax(r, table, cache, slips, heard)
    BY <1>2 DEF TaxInv
  <2>2. r.p \in Processes /\ r.y \in PayYears /\ r.rule = Tax!Effective(table[r.y])
    BY <1>1, <2>1 DEF InHandOfTax, Shows
  <2> HIDE DEF r
  <2> QED BY <1>1, <2>1, <2>2, LearntKnows
<1> QED BY <1>1, <1>2, TaxEnds

LEMMA AbortTaxKeeps ==
  ASSUME TaxInv, TaxAlone, NEW w \in Threads, Tax!Abort(w) PROVE TaxInv'
<1>1. req[w] # Idle /\ Tax!Finish(w) /\ UNCHANGED <<table, cache, slips, heard>>
  BY DEF Tax!Abort, Tax!Idle, Idle
<1>2. alone => TaxTables(table', cache', slips', heard')
  BY <1>1 DEF TaxInv
<1> QED BY <1>1, <1>2, TaxEnds

(* The rule of a year is replaced: only this process knows of it, and its  *)
(* cache is empty.                                                         *)
LEMMA ChangedKnows ==
  ASSUME TaxTables(table, cache, slips, heard), NEW p \in Processes, NEW y \in PayYears,
         NEW row \in RuleRow \cup {None}, \A z \in PayYears : cache[p][z] = None,
         table' = [table EXCEPT ![y] = row], heard' = {p}, UNCHANGED <<cache, slips>>
  PROVE  TaxTables(table', cache', slips', heard')
<1>1. table' \in [PayYears -> RuleRow \cup {None}]
  BY DEF TaxTables
<1>2. Knows(p, table', cache')
  BY DEF Knows
<1> QED BY <1>1, <1>2 DEF TaxTables

LEMMA RuleFlushed ==
  ASSUME NEW row \in RuleRow, NEW rule \in RuleRow PROVE Tax!Flush(row, row, rule) = rule
BY DEF Tax!Flush, RuleRow

LEMMA CommitChangeKeeps ==
  ASSUME TaxInv, TaxAlone, NEW w \in Threads, Tax!CommitSave(w) \/ Tax!CommitDelete(w)
  PROVE  TaxInv'
<1> DEFINE r == req[w]
           written == IF table[r.y] = None THEN r.rule
                    ELSE Tax!Flush(table[r.y], r.loaded, r.rule)
           row == IF r.op = "save" THEN written ELSE None
<1>1. /\ r.op \in {"save", "delete"} /\ r # Idle /\ Tax!Finish(w)
      /\ heard' = {r.p} /\ UNCHANGED <<cache, slips>>
  BY DEF Tax!CommitSave, Tax!CommitDelete, Idle
<1>2. ASSUME alone PROVE TaxTables(table', cache', slips', heard')
  <2>1. TaxTables(table, cache, slips, heard) /\ InHandOfTax(r, table, cache, slips, heard)
    BY <1>2 DEF TaxInv
  <2>2. /\ r.p \in Processes /\ r.y \in PayYears /\ \A z \in PayYears : cache[r.p][z] = None
        /\ r.op = "save" => r.rule \in RuleRow /\ r.loaded = table[r.y]
    BY <1>1, <2>1 DEF InHandOfTax, Writes, Saves
  <2>3. table' = [table EXCEPT ![r.y] = row]
    <3>1. table \in [PayYears -> RuleRow \cup {None}]
      BY <2>1 DEF TaxTables
    <3>2. CASE Tax!CommitSave(w)
      <4>1. /\ r.op = "save"
            /\ table' = [table EXCEPT ![r.y] =
                 IF @ = None THEN r.rule ELSE Tax!Flush(@, r.loaded, r.rule)]
        BY <3>2 DEF Tax!CommitSave
      <4> QED BY <4>1
    <3>3. CASE Tax!CommitDelete(w)
      <4>1. r.op = "delete" /\ table' = [table EXCEPT ![r.y] = None]
        BY <3>3 DEF Tax!CommitDelete
      <4> QED BY <4>1
    <3> QED BY <3>2, <3>3
  <2>4. row \in RuleRow \cup {None}
    <3>1. table[r.y] \in RuleRow \cup {None}
      BY <2>1, <2>2 DEF TaxTables
    <3>2. ASSUME r.op = "save", table[r.y] # None PROVE written \in RuleRow
      <4>1. written = r.rule
        BY <2>2, <3>1, <3>2, RuleFlushed
      <4> QED BY <2>2, <3>2, <4>1
    <3>3. r.op = "save" => written \in RuleRow
      BY <2>2, <3>2
    <3> HIDE DEF written
    <3> QED BY <3>3
  <2> HIDE DEF r, row
  <2> QED BY <1>1, <2>1, <2>2, <2>3, <2>4, ChangedKnows
<1> QED BY <1>1, <1>2, TaxEnds

-----------------------------------------------------------------------------
(* A calculation.                                                          *)
RuleAsked(r) ==
  IF cache[r.p][r.y] # None THEN cache[r.p][r.y] ELSE Tax!Effective(table[r.y])

LEMMA CalculateKeeps ==
  ASSUME TaxInv, TaxAlone, NEW w \in Threads, NEW s \in Slips, Tax!Calculate(w, s)
  PROVE  TaxInv'
<1> DEFINE r == req[w]
           rule == RuleAsked(r)
           tax == [t \in DOMAIN r.tax \cup {s} |->
                     IF t = s THEN Tax!Progressive(rule, r.loaded[s].base) ELSE r.tax[t]]
           next == [r EXCEPT !.todo = r.todo \ {s}, !.tax = tax]
<1>1. /\ r.op = "calculate" /\ r # Idle /\ s \in r.todo
      /\ cache' = [cache EXCEPT ![r.p][r.y] = rule]
      /\ UNCHANGED <<table, slips, heard, served>>
  BY DEF Tax!Calculate, RuleAsked, Idle
<1>2. req' = [req EXCEPT ![w] = next]
  <2>1. req' = [req EXCEPT ![w].todo = @ \ {s},
                           ![w].tax = [t \in DOMAIN @ \cup {s} |->
                             IF t = s THEN Tax!Progressive(rule, r.loaded[s].base) ELSE @[t]]]
    BY DEF Tax!Calculate, RuleAsked
  <2>2. req = [v \in Threads |-> req[v]]
    BY DEF TaxInv
  <2> HIDE DEF rule
  <2> QED BY <2>1, <2>2
<1>3. ASSUME alone
      PROVE  /\ TaxTables(table, cache, slips, heard)
             /\ r.p \in Processes /\ r.y \in PayYears /\ Calculates(r, table, slips, heard)
             /\ r.p \in heard => rule = Tax!Effective(table[r.y])
  <2>1. /\ TaxTables(table, cache, slips, heard)
        /\ InHandOfTax(r, table, cache, slips, heard)
    BY <1>3 DEF TaxInv
  <2>2. r.p \in Processes /\ r.y \in PayYears /\ Calculates(r, table, slips, heard)
    BY <1>1, <2>1 DEF InHandOfTax
  <2>3. r.p \in heard => cache[r.p][r.y] \in {None, Tax!Effective(table[r.y])}
    BY <2>1, <2>2 DEF TaxTables, Knows
  <2> QED BY <2>1, <2>2, <2>3 DEF RuleAsked
<1>4. ASSUME alone PROVE TaxTables(table', cache', slips', heard')
  <2> HIDE DEF r, rule
  <2> QED BY <1>1, <1>3, <1>4, LearntKnows
<1>5. ASSUME alone PROVE InHandOfTax(next, table', cache', slips', heard')
  <2>1. /\ r = [c \in {"op", "p", "y", "loaded", "todo", "tax"} |-> r[c]]
        /\ r.loaded = slips /\ r.todo \cup DOMAIN r.tax = ToTax(r.y, slips)
        /\ r.p \in heard =>
             \A t \in DOMAIN r.tax :
               r.tax[t] = Tax!Progressive(Tax!Effective(table[r.y]), slips[t].base)
    BY <1>3, <1>5 DEF Calculates
  <2>2. /\ DOMAIN tax = DOMAIN r.tax \cup {s}
        /\ r.p \in heard =>
             \A t \in DOMAIN tax :
               tax[t] = Tax!Progressive(Tax!Effective(table[r.y]), slips[t].base)
    <3>1. r.p \in heard => rule = Tax!Effective(table[r.y])
      BY <1>3, <1>5
    <3> HIDE DEF r, rule
    <3> QED BY <2>1, <3>1
  <2> HIDE DEF tax, r
  <2>3. /\ next = [c \in {"op", "p", "y", "loaded", "todo", "tax"} |-> next[c]]
        /\ next.op = r.op /\ next.p = r.p /\ next.y = r.y /\ next.loaded = r.loaded
        /\ next.todo = r.todo \ {s} /\ next.tax = tax
    BY <2>1
  <2> HIDE DEF next
  <2>4. next.todo \cup DOMAIN next.tax = ToTax(next.y, slips)
    BY <1>1, <2>1, <2>2, <2>3
  <2>5. Calculates(next, table, slips, heard)
    BY <2>1, <2>2, <2>3, <2>4 DEF Calculates
  <2>6. next.op = "calculate" /\ next.p \in Processes /\ next.y \in PayYears
    BY <1>1, <1>3, <1>5, <2>3
  <2> QED BY <1>1, <2>5, <2>6 DEF InHandOfTax
<1> HIDE DEF next
<1>6. served' \in Nat /\ req[w] # Idle
  BY <1>1 DEF TaxInv
<1> QED BY <1>2, <1>4, <1>5, <1>6, OneTaxRequest

WithTax(row, tax, net) == [row EXCEPT !.tax = tax, !.net = net]
Taxed(r, s) == WithTax(r.loaded[s], r.tax[s], r.loaded[s].base - r.tax[s])

LEMMA TaxedSlip ==
  ASSUME NEW row, IsSlip(row), NEW tax, NEW net
  PROVE  /\ IsSlip(WithTax(row, tax, net))
         /\ Tax!Flush(row, row, WithTax(row, tax, net)) = WithTax(row, tax, net)
<1> DEFINE taxed == WithTax(row, tax, net)
<1>1. row = [c \in SlipColumns |-> row[c]] /\ row.base \in Int
  BY DEF IsSlip
<1>2. taxed = [c \in SlipColumns |-> taxed[c]] /\ taxed.base = row.base
  BY <1>1 DEF SlipColumns, WithTax
<1> HIDE DEF taxed
<1>3. Tax!Flush(row, row, taxed) = taxed
  BY <1>1, <1>2 DEF Tax!Flush
<1>4. IsSlip(taxed)
  BY <1>1, <1>2 DEF IsSlip
<1> QED BY <1>3, <1>4 DEF taxed

(* What it writes, nobody having changed a payslip since it loaded them.   *)
LEMMA SlipsTaxed ==
  ASSUME TaxInv, alone, NEW w \in Threads, Tax!CommitCalculate(w)
  PROVE  /\ Calculates(req[w], table, slips, heard) /\ req[w].todo = {}
         /\ TaxTables(table, cache, slips, heard)
         /\ slips' = [s \in Slips |-> slips'[s]]
         /\ \A s \in Slips :
              /\ IsSlip(slips'[s])
              /\ slips'[s] = IF s \in DOMAIN req[w].tax THEN Taxed(req[w], s) ELSE slips[s]
<1> DEFINE r == req[w]
<1>1. /\ r.op = "calculate" /\ r.todo = {}
      /\ slips' = [s \in Slips |->
           IF s \in DOMAIN r.tax THEN Tax!Flush(slips[s], r.loaded[s], Taxed(r, s))
           ELSE slips[s]]
  BY DEF Tax!CommitCalculate, Taxed, WithTax
<1>2. TaxTables(table, cache, slips, heard) /\ InHandOfTax(r, table, cache, slips, heard)
  BY DEF TaxInv
<1>3. Calculates(r, table, slips, heard)
  BY <1>1, <1>2 DEF InHandOfTax
<1>4. r.loaded = slips
  BY <1>3 DEF Calculates
<1>5. ASSUME NEW s \in Slips
      PROVE  /\ IsSlip(slips'[s])
             /\ slips'[s] = IF s \in DOMAIN r.tax THEN Taxed(r, s) ELSE slips[s]
  <2>1. IsSlip(slips[s])
    BY <1>2 DEF TaxTables
  <2>2. IsSlip(Taxed(r, s)) /\ Tax!Flush(slips[s], slips[s], Taxed(r, s)) = Taxed(r, s)
    BY <1>4, <2>1, TaxedSlip DEF Taxed
  <2> QED BY <1>1, <1>4, <2>1, <2>2
<1> HIDE DEF r
<1>6. slips' = [s \in Slips |-> slips'[s]]
  BY <1>1
<1> QED BY <1>1, <1>2, <1>3, <1>5, <1>6 DEF r

LEMMA CommitCalculateKeeps ==
  ASSUME TaxInv, TaxAlone, NEW w \in Threads, Tax!CommitCalculate(w) PROVE TaxInv'
<1>1. req[w].op = "calculate" /\ Tax!Finish(w) /\ UNCHANGED <<table, cache, heard>>
  BY Zenon DEF Tax!CommitCalculate
<1>2. ASSUME alone PROVE TaxTables(table', cache', slips', heard')
  <2>1. /\ TaxTables(table, cache, slips, heard)
        /\ slips' = [s \in Slips |-> slips'[s]] /\ \A s \in Slips : IsSlip(slips'[s])
    BY <1>2, SlipsTaxed
  <2> QED BY <1>1, <2>1 DEF TaxTables
<1>3. req[w] # Idle
  BY <1>1 DEF Idle
<1> QED BY <1>1, <1>2, <1>3, TaxEnds

-----------------------------------------------------------------------------
(* The process starts anew, or the payroll changes a payslip.              *)
LEMMA BootKeeps ==
  ASSUME TaxInv, TaxAlone, NEW p \in Processes, Tax!Boot(p) PROVE TaxInv'
<1>1. /\ cache' = [cache EXCEPT ![p] = Tax!AtImport]
      /\ heard' = IF Tax!Effective(table[Current]) = Default THEN heard \cup {p}
                  ELSE heard \ {p}
      /\ req' = [v \in Threads |-> IF Tax!InProcess(v, p) THEN Idle ELSE req[v]]
      /\ UNCHANGED <<table, slips, served>>
  BY DEF Tax!Boot, Tax!Idle, Idle
<1>2. ASSUME alone
      PROVE  /\ TaxTables(table', cache', slips', heard')
             /\ \A q \in Processes \ {p} : cache'[q] = cache[q]
  <2>1. TaxTables(table, cache, slips, heard)
    BY <1>2 DEF TaxInv
  <2>2. cache = [q \in Processes |-> [y \in PayYears |-> cache[q][y]]]
    BY <2>1 DEF TaxTables
  <2>3. Tax!AtImport = [y \in PayYears |-> Tax!AtImport[y]]
    BY DEF Tax!AtImport
  <2>4. \A q \in Processes : cache'[q] = IF q = p THEN Tax!AtImport ELSE cache[q]
    BY <1>1, <2>2
  <2>5. cache' = [q \in Processes |-> [y \in PayYears |-> cache'[q][y]]]
    <3>1. cache' = [q \in Processes |-> cache'[q]]
      BY <1>1, <2>2
    <3>2. \A q \in Processes : cache'[q] = [y \in PayYears |-> cache'[q][y]]
      BY <2>2, <2>3, <2>4
    <3> QED BY <3>1, <3>2
  <2>6. ASSUME NEW q \in heard', NEW y \in PayYears
        PROVE  cache'[q][y] \in {None, Tax!Effective(table[y])}
    <3>1. CASE q = p
      <4>1. Tax!Effective(table[Current]) = Default
        BY <1>1, <2>6, <3>1
      <4>2. Tax!AtImport[y] \in {None, Tax!Effective(table[y])}
        BY <4>1 DEF Tax!AtImport
      <4> QED BY <2>4, <3>1, <4>2
    <3>2. CASE q # p
      <4>1. q \in heard /\ q \in Processes
        BY <1>1, <2>1, <2>6, <3>2 DEF TaxTables
      <4>2. cache[q][y] \in {None, Tax!Effective(table[y])}
        BY <2>1, <4>1 DEF TaxTables, Knows
      <4> QED BY <2>4, <3>2, <4>1, <4>2
    <3> QED BY <3>1, <3>2
  <2>7. \A q \in heard' : Knows(q, table', cache')
    BY <1>1, <2>6 DEF Knows
  <2>8. heard' \subseteq Processes
    BY <1>1, <2>1 DEF TaxTables
  <2> QED BY <1>1, <2>1, <2>4, <2>5, <2>7, <2>8 DEF TaxTables
<1>3. ASSUME alone, NEW v \in Threads, req'[v] # Idle
      PROVE  InHandOfTax(req'[v], table', cache', slips', heard')
  <2> DEFINE r == req[v]
  <2>1. req'[v] = r /\ r # Idle /\ r.p # p
    BY <1>1, <1>3 DEF Tax!InProcess, Tax!Idle, Idle
  <2>2. InHandOfTax(r, table, cache, slips, heard)
    BY <1>3 DEF TaxInv
  <2> HIDE DEF r
  <2>3. r.p \in Processes /\ cache'[r.p] = cache[r.p]
    BY <1>2, <1>3, <2>1, <2>2 DEF InHandOfTax
  <2>4. r.p \in heard' => r.p \in heard
    BY <1>1, <2>1
  <2>5. Writes(r, cache) => Writes(r, cache')
    BY <2>3 DEF Writes
  <2>6. Calculates(r, table, slips, heard) => Calculates(r, table, slips, heard')
    BY <2>4 DEF Calculates
  <2> QED BY <1>1, <2>1, <2>2, <2>5, <2>6 DEF InHandOfTax
<1>4. \A v \in Threads : req'[v] \in {req[v], Idle}
  BY <1>1
<1>5. req' = [v \in Threads |-> req'[v]]
  BY <1>1
<1> QED BY <1>1, <1>2, <1>3, <1>4, <1>5, TaxRequestsGoOn

LEMMA PayrollKeeps ==
  ASSUME TaxInv, TaxAlone, UNCHANGED <<table, cache, heard, req, served>>,
         alone => slips' = [s \in Slips |-> slips'[s]] /\ \A s \in Slips : IsSlip(slips'[s])
  PROVE  TaxInv'
<1>1. alone => TaxTables(table', cache', slips', heard')
  BY DEF TaxInv, TaxTables
<1>2. ASSUME alone, alone', NEW v \in Threads, req'[v] # Idle
      PROVE  InHandOfTax(req'[v], table', cache', slips', heard')
  <2>1. <<table, slips>>' = <<table, slips>>
    BY <1>2 DEF TaxAlone, Overlap
  <2>2. InHandOfTax(req[v], table, cache, slips, heard)
    BY <1>2 DEF TaxInv
  <2> QED BY <2>1, <2>2
<1>3. \A v \in Threads : req'[v] \in {req[v], Idle}
  OBVIOUS
<1>4. req' = [v \in Threads |-> req'[v]]
  BY DEF TaxInv
<1> QED BY <1>1, <1>2, <1>3, <1>4, TaxRequestsGoOn

LEMMA SlipChanged ==
  ASSUME slips = [s \in Slips |-> slips[s]], \A s \in Slips : IsSlip(slips[s]),
         NEW s \in Slips, NEW row, IsSlip(row), slips' = [slips EXCEPT ![s] = row]
  PROVE  slips' = [t \in Slips |-> slips'[t]] /\ \A t \in Slips : IsSlip(slips'[t])
<1>1. slips' = [t \in Slips |-> IF t = s THEN row ELSE slips[t]]
  OBVIOUS
<1> QED BY <1>1

LEMMA PayOrRecomputeKeeps ==
  ASSUME TaxInv, TaxAlone, NEW s \in Slips,
         Tax!Pay(s) \/ \E base \in Bases : Tax!Recompute(s, base)
  PROVE  TaxInv'
<1>1. UNCHANGED <<table, cache, heard, req, served>>
  BY DEF Tax!Pay, Tax!Recompute
<1>2. ASSUME alone
      PROVE  slips' = [t \in Slips |-> slips'[t]] /\ \A t \in Slips : IsSlip(slips'[t])
  <2>1. slips = [t \in Slips |-> slips[t]] /\ \A t \in Slips : IsSlip(slips[t])
    BY <1>2 DEF TaxInv, TaxTables
  <2>2. slips[s] = [c \in SlipColumns |-> slips[s][c]] /\ slips[s].base \in Int
    BY <2>1 DEF IsSlip
  <2>3. CASE Tax!Pay(s)
    <3> DEFINE row == [slips[s] EXCEPT !.paid = ~slips[s].paid]
    <3>1. slips' = [slips EXCEPT ![s] = row]
      BY <2>1, <2>3 DEF Tax!Pay
    <3>2. row = [c \in SlipColumns |-> row[c]] /\ row.base = slips[s].base
      BY <2>2 DEF SlipColumns
    <3> HIDE DEF row
    <3>3. IsSlip(row)
      BY <2>2, <3>2 DEF IsSlip
    <3> QED BY <2>1, <3>1, <3>3, SlipChanged
  <2>4. ASSUME NEW base \in Bases, Tax!Recompute(s, base)
        PROVE  slips' = [t \in Slips |-> slips'[t]] /\ \A t \in Slips : IsSlip(slips'[t])
    <3> DEFINE row == [slips[s] EXCEPT !.base = base, !.net = base - slips[s].tax]
    <3>1. slips' = [slips EXCEPT ![s] = row]
      BY <2>1, <2>4 DEF Tax!Recompute
    <3>2. row = [c \in SlipColumns |-> row[c]] /\ row.base = base
      BY <2>2 DEF SlipColumns
    <3> HIDE DEF row
    <3>3. IsSlip(row)
      BY TaxOK, <3>2 DEF IsSlip
    <3> QED BY <2>1, <3>1, <3>3, SlipChanged
  <2> QED BY <2>3, <2>4
<1> QED BY <1>1, <1>2, PayrollKeeps

LEMMA TaxStepKeeps ==
  ASSUME TaxInv, TaxAlone, [Tax!Next]_(Tax!vars) PROVE TaxInv'
<1>1. ASSUME NEW p \in Processes, Tax!Boot(p) PROVE TaxInv'
  BY <1>1, BootKeeps
<1>2. ASSUME NEW w \in Threads, NEW p \in Processes, NEW y \in PayYears,
             \/ Tax!BeginShow(w, p, y) \/ Tax!BeginDelete(w, p, y)
             \/ Tax!BeginCalculate(w, p, y)
             \/ \E form \in TaxForms : Tax!BeginSave(w, p, y, form)
      PROVE  TaxInv'
  BY <1>2, BeginShowKeeps, BeginChangeKeeps, BeginCalculateKeeps
<1>3. ASSUME NEW w \in Threads,
             \/ Tax!Fill(w) \/ Tax!CommitSave(w) \/ Tax!CommitDelete(w)
             \/ Tax!CommitCalculate(w) \/ Tax!Abort(w)
      PROVE  TaxInv'
  BY <1>3, FillKeeps, CommitChangeKeeps, CommitCalculateKeeps, AbortTaxKeeps
<1>4. ASSUME NEW w \in Threads, NEW s \in Slips, Tax!Calculate(w, s) PROVE TaxInv'
  BY <1>4, CalculateKeeps
<1>5. ASSUME NEW s \in Slips, Tax!Pay(s) \/ \E base \in Bases : Tax!Recompute(s, base)
      PROVE  TaxInv'
  BY <1>5, PayOrRecomputeKeeps
<1>6. CASE UNCHANGED Tax!vars
  <2>1. UNCHANGED <<table, cache, slips, heard, req, served>>
    BY <1>6 DEF Tax!vars
  <2>2. alone' => alone
    BY DEF TaxAlone
  <2> QED BY <2>1, <2>2 DEF TaxInv
<1> QED BY <1>1, <1>2, <1>3, <1>4, <1>5, <1>6, Zenon DEF Tax!Next

(* Only the commit of a calculation ends a request and changes payslips.   *)
LEMMA OnlyCalculationsWrite ==
  ASSUME TaxInv, alone, Tax!Next, NEW w \in Threads, req[w] # Idle, req'[w] = Idle,
         slips' # slips
  PROVE  Tax!CommitCalculate(w)
<1>1. \A p \in Processes : ~Tax!Boot(p)
  BY DEF Tax!Boot
<1>2. \A v \in Threads : /\ ~Tax!Fill(v) /\ ~Tax!CommitSave(v) /\ ~Tax!CommitDelete(v)
                         /\ ~Tax!Abort(v) /\ \A s \in Slips : ~Tax!Calculate(v, s)
  BY DEF Tax!Fill, Tax!CommitSave, Tax!CommitDelete, Tax!Abort, Tax!Calculate
<1>3. \A v \in Threads, p \in Processes, y \in PayYears :
        /\ ~Tax!BeginShow(v, p, y) /\ ~Tax!BeginDelete(v, p, y) /\ ~Tax!BeginCalculate(v, p, y)
        /\ \A form \in TaxForms : ~Tax!BeginSave(v, p, y, form)
  BY DEF Tax!BeginShow, Tax!BeginDelete, Tax!BeginCalculate, Tax!BeginSave
<1>4. \A s \in Slips : ~Tax!Pay(s) /\ \A base \in Bases : ~Tax!Recompute(s, base)
  BY DEF Tax!Pay, Tax!Recompute
<1>5. PICK v \in Threads : Tax!CommitCalculate(v)
  BY <1>1, <1>2, <1>3, <1>4, Zenon DEF Tax!Next
<1>6. req[v].op = "calculate"
  BY <1>5, Zenon DEF Tax!CommitCalculate
<1>7. req[v] # Idle
  BY <1>6 DEF Idle
<1>8. v = w
  BY <1>7 DEF TaxInv
<1> QED BY <1>5, <1>8

LEMMA CalculatedLegally ==
  ASSUME TaxInv, alone, Tax!Next, NEW w \in Threads PROVE Tax!CalculatedByTheTable(w)
<1> DEFINE r == req[w]
           rule == Tax!Effective(table[r.y])
<1>1. SUFFICES ASSUME req[w] # Idle, r.op = "calculate", r.p \in heard, slips' # slips,
                      req'[w] = Idle
               PROVE  \A s \in Slips :
                        IF YearOf[s] = r.y /\ ~slips[s].paid
                        THEN LET tax == Tax!LegalTax(rule, slips[s].base)
                             IN  slips'[s] = [slips[s] EXCEPT !.tax = tax,
                                                              !.net = slips[s].base - tax]
                        ELSE slips'[s] = slips[s]
  BY Zenon DEF Tax!CalculatedByTheTable, Tax!Idle, Idle
<1>2. Tax!CommitCalculate(w)
  BY <1>1, OnlyCalculationsWrite
<1>3. /\ Calculates(r, table, slips, heard) /\ r.todo = {}
      /\ TaxTables(table, cache, slips, heard)
      /\ \A s \in Slips :
           slips'[s] = IF s \in DOMAIN r.tax THEN Taxed(r, s) ELSE slips[s]
  BY <1>2, SlipsTaxed
<1>4. /\ r.loaded = slips /\ DOMAIN r.tax = ToTax(r.y, slips)
      /\ \A s \in DOMAIN r.tax : r.tax[s] = Tax!Progressive(rule, slips[s].base)
  BY <1>1, <1>3 DEF Calculates
<1>5. rule \in RuleRow
  <2>1. r.y \in PayYears
    BY <1>1 DEF TaxInv, InHandOfTax
  <2>2. table[r.y] \in RuleRow \cup {None}
    BY <1>3, <2>1 DEF TaxTables
  <2> QED BY <2>2, TaxOK DEF Tax!Effective
<1> HIDE DEF r, rule
<1>6. TAKE s \in Slips
<1>7. CASE s \in ToTax(r.y, slips)
  <2> DEFINE tax == Tax!LegalTax(rule, slips[s].base)
  <2>1. slips[s].base \in Int
    BY <1>3 DEF TaxTables, IsSlip
  <2>2. r.tax[s] = tax
    BY <1>4, <1>5, <1>7, <2>1, ProgressiveIsLegal
  <2>3. slips'[s] = Taxed(r, s)
    BY <1>3, <1>4, <1>7
  <2> HIDE DEF tax
  <2>4. slips'[s] = [slips[s] EXCEPT !.tax = tax, !.net = slips[s].base - tax]
    BY <1>4, <2>2, <2>3 DEF Taxed, WithTax
  <2>5. YearOf[s] = r.y /\ ~slips[s].paid
    BY <1>7 DEF ToTax
  <2> QED BY <2>4, <2>5 DEF tax
<1>8. CASE s \notin ToTax(r.y, slips)
  BY <1>3, <1>4, <1>8 DEF ToTax
<1> QED BY <1>7, <1>8

(* Tax: with any rules, years and payslips, a calculation that no other    *)
(* request overlaps, in a process that knows of the last change of a rule, *)
(* gives the unpaid payslips of its year the legal tax by the table.       *)
THEOREM AloneTaxAlways == MCSpec => AloneTax
<1> DEFINE Inv == part = "tax" => TaxInv
           Legal == part = "tax" /\ alone' => \A w \in Threads : Tax!CalculatedByTheTable(w)
<1>1. MCInit => Inv
  BY TaxInit DEF MCInit
<1>2. ASSUME Inv, [MCNext]_mcvars, part' = "tax"
      PROVE  /\ part = "tax" /\ TaxInv
             /\ TaxStep \/ UNCHANGED <<alone, req, served, taxes>>
  BY <1>2 DEF MCNext, mcvars, Rest, Others
<1>3. ASSUME Inv, [MCNext]_mcvars, part' = "tax" PROVE TaxInv'
  <2>1. CASE TaxStep
    BY <1>2, <1>3, <2>1, TaxStepKeeps DEF TaxStep, TaxAlone
  <2>2. CASE UNCHANGED <<alone, req, served, taxes>>
    BY <1>2, <1>3, <2>2 DEF taxes, TaxInv
  <2> QED BY <1>2, <1>3, <2>1, <2>2
<1>4. Inv /\ [MCNext]_mcvars => Inv'
  BY <1>3
<1>5. ASSUME Inv, [MCNext]_mcvars PROVE [Legal]_mcvars
  <2>1. SUFFICES ASSUME part = "tax", alone', NEW w \in Threads
                 PROVE  Tax!CalculatedByTheTable(w)
    BY Zenon
  <2>2. part' = "tax"
    BY <1>5, <2>1 DEF MCNext, mcvars
  <2>3. CASE TaxStep
    <3>1. TaxInv /\ alone /\ Tax!Next
      BY <1>5, <2>1, <2>3 DEF TaxStep
    <3> QED BY <3>1, CalculatedLegally
  <2>4. CASE UNCHANGED <<alone, req, served, taxes>>
    BY <2>4 DEF taxes, Tax!CalculatedByTheTable
  <2> QED BY <1>2, <1>5, <2>2, <2>3, <2>4
<1> QED BY <1>1, <1>4, <1>5, PTL DEF MCSpec, AloneTax
===============================================================================
