---------------------------- MODULE PayrollProofs ----------------------------
(***************************************************************************)
(* Theorems about Payroll, for every set of sessions, persons, cashboxes   *)
(* and amounts and every bound.                                            *)
(***************************************************************************)
EXTENDS MCPayroll, WellFoundedInduction, TLAPS

(* A flush of payslip columns leaves a payslip row.                        *)
LEMMA FlushedRow ==
  ASSUME NEW row \in Row, NEW loaded \in Row, NEW edited \in Row
  PROVE  /\ Flush(row, loaded, edited) \in Row
         /\ Flush(row, loaded, edited).status
              = IF edited.status = loaded.status THEN row.status
                                                 ELSE edited.status
  <1> DEFINE f == Flush(row, loaded, edited)
  <1>1. DOMAIN row = {"person", "status", "net", "box"}
    BY DEF Row
  <1>2. \A c \in {"person", "status", "net", "box"} :
          f[c] = IF edited[c] = loaded[c] THEN row[c] ELSE edited[c]
    BY <1>1 DEF Flush
  <1>3. f = [person |-> f.person, status |-> f.status, net |-> f.net,
             box |-> f.box]
    BY <1>1 DEF Flush
  <1>4. /\ f.person \in Persons /\ f.status \in Statuses
        /\ f.net \in Int /\ f.box \in Boxes \cup {NoBox}
    BY <1>2 DEF Row
  <1> QED
    BY <1>2, <1>3, <1>4 DEF Row

(* query.first() finds the oldest payslip of the person, or none.          *)
LEMMA FirstIs ==
  ASSUME NEW p
  PROVE  IF SlipsOf(p) = {} THEN First(p) = 0
                            ELSE First(p) \in SlipsOf(p)
  <1> DEFINE S == SlipsOf(p)
  <1>1. S \in SUBSET Nat
    BY ConstantsOK DEF SlipsOf, Numbers
  <1>2. First(p) = IF S = {} THEN 0 ELSE CHOOSE n \in S : \A m \in S : n <= m
    BY Zenon DEF First
  <1> HIDE DEF S
  <1>3. CASE S # {}
    <2>1. PICK x \in S : \A y \in S : <<y, x>> \notin OpToRel(<, Nat)
      BY <1>1, <1>3, WFMin, NatLessThanWellFounded, Zenon
    <2>2. OpToRel(<, Nat) = {pair \in Nat \X Nat : pair[1] < pair[2]}
      BY Zenon DEF OpToRel
    <2>3. ASSUME NEW y \in S PROVE x <= y
      <3>1. <<y, x>> \notin {pair \in Nat \X Nat : pair[1] < pair[2]}
        BY <2>1, <2>2
      <3> QED BY <1>1, <3>1
    <2>4. \E n \in S : \A m \in S : n <= m
      BY <2>3
    <2>5. (CHOOSE n \in S : \A m \in S : n <= m) \in S
      BY <2>4, Zenon
    <2>6. First(p) \in S
      BY <1>2, <1>3, <2>5, Zenon
    <2> QED BY <1>3, <2>6, Zenon DEF S
  <1>4. CASE S = {}
    BY <1>2, <1>4, Zenon DEF S
  <1> QED BY <1>3, <1>4

LEMMA FirstType ==
  ASSUME NEW p
  PROVE  First(p) \in Numbers \cup {0}
  <1>1. SlipsOf(p) \subseteq Numbers
    BY DEF SlipsOf
  <1> QED BY <1>1, FirstIs

(* The rows and requests that actions build are of their types.            *)
LEMMA Built ==
  /\ Absent \in Row
  /\ \A p \in Persons, a \in Int : New(p, a) \in Row
  /\ \A op \in Ops, n \in Numbers \cup {0}, row \in Row, a \in Int :
       /\ Loaded(op, n, row, a) \in Request
       /\ \A b \in Boxes, c \in Int :
            [Loaded(op, n, row, a) EXCEPT !.box = b, !.cash = c] \in Request
  <1>1. Absent \in Row
    <2>1. Absent.person \in Persons
      <3>1. \E p \in Persons : TRUE
        BY ConstantsOK
      <3>2. (CHOOSE p \in Persons : TRUE) \in Persons
        BY <3>1, Zenon
      <3> QED BY <3>2, Zenon DEF Absent
    <2>2. Absent = [person |-> Absent.person, status |-> "absent", net |-> 0,
                    box |-> NoBox]
      BY DEF Absent
    <2> HIDE DEF Absent
    <2> QED BY <2>1, <2>2 DEF Row, Statuses
  <1>2. ASSUME NEW p \in Persons, NEW a \in Int
        PROVE  New(p, a) \in Row
    BY DEF New, Row, Statuses
  <1>3. ASSUME NEW op \in Ops, NEW n \in Numbers \cup {0}, NEW row \in Row,
               NEW a \in Int
        PROVE  /\ Loaded(op, n, row, a) \in Request
               /\ \A b \in Boxes, c \in Int :
                    [Loaded(op, n, row, a) EXCEPT !.box = b, !.cash = c]
                      \in Request
    <2> DEFINE r == Loaded(op, n, row, a)
    <2>1. r \in Request
      BY DEF Loaded, Request, Stages
    <2>2. ASSUME NEW b \in Boxes, NEW c \in Int
          PROVE  [r EXCEPT !.box = b, !.cash = c] \in Request
      <3> HIDE DEF r
      <3> QED BY <2>1 DEF Request
    <2> QED
      BY <2>1, <2>2
  <1> QED
    BY <1>1, <1>2, <1>3


LEMMA InitTypeOK == Init => TypeOK
  <1> SUFFICES ASSUME Init PROVE TypeOK
    OBVIOUS
  <1>1. slips \in [Numbers -> Row]
    BY Built DEF Init
  <1>2. seq \in 1..(MaxSlips + 1) /\ served \in 0..MaxRequests
    BY ConstantsOK DEF Init
  <1>3. balance \in [Boxes -> Int] /\ journal \in [Boxes -> Int]
        /\ flow \in [Numbers -> Int]
    BY ConstantsOK DEF Init
  <1>4. log \in [Numbers -> [approve : Nat, pay : Nat, refund : Nat]]
    BY DEF Init
  <1>5. req \in [Sessions -> Request \cup {Idle}]
    BY DEF Init
  <1> QED
    BY <1>1, <1>2, <1>3, <1>4, <1>5 DEF TypeOK

-----------------------------------------------------------------------------
(* Type correctness of the steps that requests share.                      *)

LEMMA BeginType ==
  ASSUME TypeOK, NEW w \in Sessions, NEW r \in Request, Begin(w, r)
  PROVE  TypeOK'
  BY ConstantsOK DEF Begin, TypeOK

LEMMA FinishType ==
  ASSUME TypeOK, NEW w \in Sessions, Finish(w)
  PROVE  /\ req' \in [Sessions -> Request \cup {Idle}]
         /\ served' \in 0..MaxRequests
  BY DEF Finish, TypeOK

LEMMA RecordType ==
  ASSUME TypeOK, NEW b \in Boxes \cup {NoBox}, NEW amount \in Int,
         NEW after \in Int, Record(b, amount, after)
  PROVE  balance' \in [Boxes -> Int] /\ journal' \in [Boxes -> Int]
  <1>1. CASE b \in Boxes
    BY <1>1 DEF Record, TypeOK
  <1>2. CASE b \notin Boxes
    BY <1>2 DEF Record, TypeOK
  <1> QED BY <1>1, <1>2

(* What a session in the middle of a request holds.                        *)
LEMMA RequestType ==
  ASSUME TypeOK, NEW w \in Sessions, NEW op, NEW stage,
         InRequest(w, op, stage)
  PROVE  /\ req[w] \in Request /\ req[w].row \in Row
         /\ req[w].n \in Numbers \cup {0} /\ req[w].number \in Nat
         /\ req[w].cash \in Int /\ req[w].amount \in Int
         /\ req[w].box \in Boxes \cup {NoBox}
         /\ req[w].op = op
  BY DEF InRequest, TypeOK, Request

(* A payslip row and its log after an update of one payslip.               *)
LEMMA SlipType ==
  ASSUME TypeOK, NEW n \in Numbers \cup {0}, NEW row,
         n \in Numbers => row \in Row
  PROVE  [slips EXCEPT ![n] = row] \in [Numbers -> Row]
  BY DEF TypeOK

LEMMA LogType ==
  ASSUME TypeOK, NEW n \in Numbers \cup {0}
  PROVE  /\ [log EXCEPT ![n].approve = @ + 1]
              \in [Numbers -> [approve : Nat, pay : Nat, refund : Nat]]
         /\ [log EXCEPT ![n].pay = @ + 1]
              \in [Numbers -> [approve : Nat, pay : Nat, refund : Nat]]
         /\ [log EXCEPT ![n].refund = @ + 1]
              \in [Numbers -> [approve : Nat, pay : Nat, refund : Nat]]
  <1>1. CASE n \in Numbers
    <2>1. /\ log[n] \in [approve : Nat, pay : Nat, refund : Nat]
          /\ log \in [Numbers -> [approve : Nat, pay : Nat, refund : Nat]]
      BY <1>1 DEF TypeOK
    <2>2. /\ [log[n] EXCEPT !.approve = @ + 1]
                \in [approve : Nat, pay : Nat, refund : Nat]
          /\ [log[n] EXCEPT !.pay = @ + 1]
                \in [approve : Nat, pay : Nat, refund : Nat]
          /\ [log[n] EXCEPT !.refund = @ + 1]
                \in [approve : Nat, pay : Nat, refund : Nat]
      BY <2>1
    <2> QED BY <1>1, <2>1, <2>2
  <1>2. CASE n \notin Numbers
    BY <1>2 DEF TypeOK
  <1> QED BY <1>1, <1>2

LEMMA FlowType ==
  ASSUME TypeOK, NEW n \in Numbers \cup {0}, NEW amount \in Int
  PROVE  [flow EXCEPT ![n] = @ + amount] \in [Numbers -> Int]
  <1>1. CASE n \in Numbers
    BY <1>1 DEF TypeOK
  <1>2. CASE n \notin Numbers
    BY <1>2 DEF TypeOK
  <1> QED BY <1>1, <1>2

-----------------------------------------------------------------------------
LEMMA NextTypeOK == TypeOK /\ [Next]_vars => TypeOK'
  <1> SUFFICES ASSUME TypeOK, [Next]_vars PROVE TypeOK'
    OBVIOUS
  <1> USE ConstantsOK
  <1>1. ASSUME NEW w \in Sessions, NEW p \in Persons, NEW a \in Amounts,
               NEW replace \in BOOLEAN, BeginCalculate(w, p, a, replace)
        PROVE  TypeOK'
    <2> DEFINE n == First(p)
               row == IF n = 0 THEN New(p, a) ELSE slips[n]
    <2>1. n \in Numbers \cup {0}
      BY FirstType
    <2>2. a \in Int
      OBVIOUS
    <2>3. row \in Row
      BY <2>1, <2>2, Built DEF TypeOK
    <2>4. Loaded("calculate", n, row, a) \in Request
      BY <2>1, <2>2, <2>3, Built DEF Ops
    <2> QED
      BY <1>1, <2>4, BeginType DEF BeginCalculate
  <1>2. ASSUME NEW w \in Sessions, NEW p \in Persons, NEW a \in Amounts,
               BeginCreate(w, p, a)
        PROVE  TypeOK'
    <2>1. New(p, a) \in Row /\ a \in Int
      BY Built
    <2>2. Loaded("create", 0, New(p, a), a) \in Request
      BY <2>1, Built DEF Ops
    <2> QED
      BY <1>2, <2>2, BeginType DEF BeginCreate
  <1>3. ASSUME NEW w \in Sessions, TakeNumber(w)
        PROVE  TypeOK'
    <2> DEFINE r == req[w]
               m == IF r.op = "calculate" THEN First(r.row.person) ELSE 0
               next == IF r.n = 0 /\ m # 0
                       THEN [r EXCEPT !.stage = "numbered", !.n = m,
                                      !.row = slips[m]]
                       ELSE [r EXCEPT !.stage = "numbered",
                                      !.number = IF r.n = 0 THEN seq ELSE 0]
    <2>1. r \in Request
      BY <1>3 DEF TakeNumber, TypeOK
    <2>2. m \in Numbers \cup {0}
      BY FirstType
    <2>3. m # 0 => slips[m] \in Row
      BY <2>2 DEF TypeOK
    <2>4. seq \in Nat
      BY DEF TypeOK
    <2>5. next \in Request
      <3> HIDE DEF r, m
      <3> QED BY <2>1, <2>2, <2>3, <2>4 DEF Request, Stages
    <2>6. req' = [req EXCEPT ![w] = next]
      BY <1>3 DEF TakeNumber
    <2>7. req' \in [Sessions -> Request \cup {Idle}]
      <3> HIDE DEF next
      <3> QED BY <2>5, <2>6 DEF TypeOK
    <2> QED
      BY <1>3, <2>7 DEF TakeNumber, TypeOK
  <1>4. ASSUME NEW w \in Sessions, CommitRecalculate(w)
        PROVE  TypeOK'
    <2> DEFINE r == req[w]
               new == Flush(slips[r.n], r.row,
                        [r.row EXCEPT !.status = "draft", !.net = r.amount])
    <2>1. r.n \in Numbers \cup {0} /\ r.row \in Row /\ r.amount \in Int
      BY <1>4, RequestType DEF CommitRecalculate
    <2>2. [r.row EXCEPT !.status = "draft", !.net = r.amount] \in Row
      BY <2>1 DEF Row, Statuses
    <2>3. r.n \in Numbers => new \in Row
      BY <2>1, <2>2, FlushedRow DEF TypeOK
    <2>4. slips' = [slips EXCEPT ![r.n] = new]
      BY <1>4 DEF CommitRecalculate
    <2>5. slips' \in [Numbers -> Row]
      BY <2>1, <2>3, <2>4, SlipType
    <2> QED
      BY <1>4, <2>5, FinishType DEF CommitRecalculate, TypeOK
  <1>5. ASSUME NEW w \in Sessions, CommitIssue(w)
        PROVE  TypeOK'
    <2>1. req[w].row \in Row /\ req[w].number \in Numbers
      BY <1>5, RequestType DEF CommitIssue
    <2>2. slips' \in [Numbers -> Row]
      BY <1>5, <2>1 DEF CommitIssue, TypeOK
    <2>3. seq' \in 1..(MaxSlips + 1)
      BY <1>5, <2>1 DEF CommitIssue, Numbers
    <2> QED
      BY <1>5, <2>2, <2>3, FinishType DEF CommitIssue, TypeOK
  <1>6. ASSUME NEW w \in Sessions, NEW n \in Numbers, NEW a \in Amounts,
               BeginEdit(w, n, a)
        PROVE  TypeOK'
    <2>1. Loaded("edit", n, slips[n], a) \in Request
      BY Built DEF Ops, TypeOK
    <2> QED
      BY <1>6, <2>1, BeginType DEF BeginEdit
  <1>7. ASSUME NEW w \in Sessions, CommitEdit(w)
        PROVE  TypeOK'
    <2> DEFINE r == req[w]
               new == Flush(slips[r.n], r.row, [r.row EXCEPT !.net = r.amount])
    <2>1. r.n \in Numbers \cup {0} /\ r.row \in Row /\ r.amount \in Int
      BY <1>7, RequestType DEF CommitEdit
    <2>2. [r.row EXCEPT !.net = r.amount] \in Row
      BY <2>1 DEF Row
    <2>3. r.n \in Numbers => new \in Row
      BY <2>1, <2>2, FlushedRow DEF TypeOK
    <2>4. slips' = [slips EXCEPT ![r.n] = new]
      BY <1>7 DEF CommitEdit
    <2>5. slips' \in [Numbers -> Row]
      BY <2>1, <2>3, <2>4, SlipType
    <2> QED
      BY <1>7, <2>5, FinishType DEF CommitEdit, TypeOK
  <1>8. ASSUME NEW w \in Sessions, NEW n \in Numbers, BeginApprove(w, n)
        PROVE  TypeOK'
    <2>1. "approve" \in Ops /\ slips[n] \in Row /\ 0 \in Int
      BY DEF Ops, TypeOK
    <2>2. Loaded("approve", n, slips[n], 0) \in Request
      BY <2>1, Built
    <2> QED
      BY <1>8, <2>2, BeginType DEF BeginApprove
  <1>9. ASSUME NEW w \in Sessions, CommitApprove(w)
        PROVE  TypeOK'
    <2> DEFINE r == req[w]
               new == Flush(slips[r.n], r.row,
                            [r.row EXCEPT !.status = "approved"])
    <2>1. r.n \in Numbers \cup {0} /\ r.row \in Row
      BY <1>9, RequestType DEF CommitApprove
    <2>2. [r.row EXCEPT !.status = "approved"] \in Row
      BY <2>1 DEF Row, Statuses
    <2>3. r.n \in Numbers => new \in Row
      BY <2>1, <2>2, FlushedRow DEF TypeOK
    <2>4. slips' = [slips EXCEPT ![r.n] = new]
      BY <1>9 DEF CommitApprove
    <2>5. slips' \in [Numbers -> Row]
      BY <2>1, <2>3, <2>4, SlipType
    <2>6. log' \in [Numbers -> [approve : Nat, pay : Nat, refund : Nat]]
      BY <1>9, <2>1, LogType DEF CommitApprove
    <2> QED
      BY <1>9, <2>5, <2>6, FinishType DEF CommitApprove, TypeOK
  <1>10. ASSUME NEW w \in Sessions, NEW n \in Numbers, NEW b \in Boxes,
                BeginPay(w, n, b)
         PROVE  TypeOK'
    <2>1. slips[n] \in Row /\ slips[n].net \in Int /\ balance[b] \in Int
      BY DEF TypeOK, Row
    <2>2. [Loaded("pay", n, slips[n], slips[n].net)
             EXCEPT !.box = b, !.cash = balance[b]] \in Request
      BY <2>1, Built DEF Ops
    <2> QED
      BY <1>10, <2>2, BeginType DEF BeginPay
  <1>11. ASSUME NEW w \in Sessions, CommitPay(w)
         PROVE  TypeOK'
    <2> DEFINE r == req[w]
               new == Flush([slips[r.n] EXCEPT !.status = "paid"], r.row,
                            [r.row EXCEPT !.box = r.box])
    <2>1. /\ r.n \in Numbers \cup {0} /\ r.row \in Row
          /\ r.box \in Boxes \cup {NoBox} /\ r.amount \in Int /\ r.cash \in Int
      BY <1>11, RequestType DEF CommitPay
    <2>2. [r.row EXCEPT !.box = r.box] \in Row
      BY <2>1 DEF Row
    <2>3. r.n \in Numbers => [slips[r.n] EXCEPT !.status = "paid"] \in Row
      BY DEF TypeOK, Row, Statuses
    <2>4. r.n \in Numbers => new \in Row
      BY <2>1, <2>2, <2>3, FlushedRow
    <2>5. slips' = [slips EXCEPT ![r.n] = new]
      BY <1>11 DEF CommitPay
    <2>6. slips' \in [Numbers -> Row]
      BY <2>1, <2>4, <2>5, SlipType
    <2>7. balance' \in [Boxes -> Int] /\ journal' \in [Boxes -> Int]
      BY <1>11, <2>1, RecordType DEF CommitPay
    <2>8. flow' \in [Numbers -> Int]
      BY <1>11, <2>1, FlowType DEF CommitPay
    <2>9. log' \in [Numbers -> [approve : Nat, pay : Nat, refund : Nat]]
      BY <1>11, <2>1, LogType DEF CommitPay
    <2> QED
      BY <1>11, <2>6, <2>7, <2>8, <2>9, FinishType DEF CommitPay, TypeOK
  <1>12. ASSUME NEW w \in Sessions, NEW n \in Numbers, BeginCancel(w, n)
         PROVE  TypeOK'
    <2>1. "cancel" \in Ops /\ slips[n] \in Row /\ 0 \in Int
      BY DEF Ops, TypeOK
    <2>2. Loaded("cancel", n, slips[n], 0) \in Request
      BY <2>1, Built
    <2> QED
      BY <1>12, <2>2, BeginType DEF BeginCancel
  <1>13. ASSUME NEW w \in Sessions, CommitCancel(w)
         PROVE  TypeOK'
    <2> DEFINE r == req[w]
    <2>1. /\ r.n \in Numbers \cup {0} /\ r.row.net \in Int
          /\ r.row.box \in Boxes \cup {NoBox}
      BY <1>13, RequestType DEF CommitCancel, Row
    <2> DEFINE new == [slips[r.n] EXCEPT !.status = "cancelled", !.box = NoBox]
    <2>2. r.n \in Numbers => new \in Row
      <3>1. r.n \in Numbers => slips[r.n] \in Row
        BY DEF TypeOK
      <3> HIDE DEF r
      <3> QED BY <3>1 DEF Row, Statuses
    <2>3. slips' = [slips EXCEPT ![r.n] = new]
      BY <1>13, <2>1 DEF CommitCancel, TypeOK
    <2>4. slips' \in [Numbers -> Row]
      BY <2>1, <2>2, <2>3, SlipType
    <2>5. /\ balance' \in [Boxes -> Int] /\ journal' \in [Boxes -> Int]
          /\ flow' \in [Numbers -> Int]
          /\ log' \in [Numbers -> [approve : Nat, pay : Nat, refund : Nat]]
      <3>1. CASE r.row.status = "paid" /\ r.row.box # NoBox
        <4>1. balance[r.row.box] \in Int
          BY <2>1, <3>1 DEF TypeOK
        <4>2. balance' \in [Boxes -> Int] /\ journal' \in [Boxes -> Int]
          <5>1. Record(r.row.box, -r.row.net,
                       balance[r.row.box] + r.row.net)
            BY <1>13, <3>1 DEF CommitCancel
          <5>2. -r.row.net \in Int /\ balance[r.row.box] + r.row.net \in Int
            BY <2>1, <4>1
          <5> QED BY <2>1, <5>1, <5>2, RecordType
        <4>3. flow' = [flow EXCEPT ![r.n] = @ + (-r.row.net)]
          BY <1>13, <2>1, <3>1 DEF CommitCancel, TypeOK
        <4>4. flow' \in [Numbers -> Int]
          BY <2>1, <4>3, FlowType
        <4>5. log' \in [Numbers -> [approve : Nat, pay : Nat, refund : Nat]]
          BY <1>13, <2>1, <3>1, LogType, ZenonT(60) DEF CommitCancel
        <4> QED BY <4>2, <4>4, <4>5
      <3>2. CASE ~(r.row.status = "paid" /\ r.row.box # NoBox)
        BY <1>13, <3>2 DEF CommitCancel, TypeOK
      <3> QED BY <3>1, <3>2
    <2> QED
      BY <1>13, <2>4, <2>5, FinishType DEF CommitCancel, TypeOK
  <1>14. ASSUME NEW w \in Sessions, NEW b \in Boxes, NEW a \in Cash,
                NEW sign \in {-1, 1}, BeginManual(w, b, sign * a)
         PROVE  TypeOK'
    <2>1. sign * a \in Int /\ balance[b] \in Int
      BY DEF TypeOK
    <2>2. [Loaded("manual", 0, Absent, sign * a)
             EXCEPT !.box = b, !.cash = balance[b]] \in Request
      BY <2>1, Built DEF Ops
    <2> QED
      BY <1>14, <2>2, BeginType DEF BeginManual
  <1>15. ASSUME NEW w \in Sessions, CommitManual(w)
         PROVE  TypeOK'
    <2>1. /\ req[w].box \in Boxes \cup {NoBox} /\ req[w].amount \in Int
          /\ req[w].cash \in Int
      BY <1>15, RequestType DEF CommitManual
    <2>2. balance' \in [Boxes -> Int] /\ journal' \in [Boxes -> Int]
      BY <1>15, <2>1, RecordType DEF CommitManual
    <2> QED
      BY <1>15, <2>2, FinishType DEF CommitManual, TypeOK
  <1>16. ASSUME NEW w \in Sessions, NEW b \in Boxes, NEW a \in Cash,
                Expense(w, b, a)
         PROVE  TypeOK'
    <2>1. balance' \in [Boxes -> Int] /\ journal' \in [Boxes -> Int]
      BY <1>16, RecordType DEF Expense, TypeOK
    <2> QED
      BY <1>16, <2>1 DEF Expense, TypeOK
  <1>17. ASSUME NEW w \in Sessions, Abort(w)
         PROVE  TypeOK'
    BY <1>17, FinishType DEF Abort, TypeOK
  <1>18. CASE UNCHANGED vars
    BY <1>18 DEF TypeOK, vars
  <1> QED
    BY <1>1, <1>2, <1>3, <1>4, <1>5, <1>6, <1>7, <1>8, <1>9, <1>10, <1>11,
       <1>12, <1>13, <1>14, <1>15, <1>16, <1>17, <1>18 DEF Next, Quiet

(* Every table, counter and session keeps its type, for every number of    *)
(* sessions, persons and cashboxes.                                        *)
THEOREM TypeCorrect == Spec => []TypeOK
  BY InitTypeOK, NextTypeOK, PTL DEF Spec

-----------------------------------------------------------------------------
(* A payslip that a session is about to issue is a draft.                  *)
IssuesDraft ==
  \A w \in Sessions :
    /\ req[w] # Idle
    /\ req[w].op \in {"calculate", "create"}
    /\ req[w].n = 0
    => req[w].row.status = "draft"

(* The inductive invariant behind ApprovalBacksPayment.                    *)
ApprovalInv == TypeOK /\ IssuesDraft /\ ApprovalBacksPayment

(* One payslip's part of ApprovalBacksPayment.                             *)
Backed(row, entry) ==
  entry.pay + Count(row.status = "approved") <= entry.approve

(* A step that touches one payslip row and its log keeps every payment     *)
(* backed if it does so for that payslip.                                  *)
LEMMA BackedElsewhere ==
  ASSUME ApprovalInv, NEW n, NEW row, NEW entry,
         slips' = [slips EXCEPT ![n] = row],
         log' = [log EXCEPT ![n] = entry],
         n \in Numbers => Backed(row, entry)
  PROVE  ApprovalBacksPayment'
  <1> SUFFICES ASSUME NEW k \in Numbers
               PROVE  Backed(slips'[k], log'[k])
    BY DEF ApprovalBacksPayment, Backed, Count
  <1>1. CASE k = n
    BY <1>1 DEF ApprovalInv, TypeOK
  <1>2. CASE k # n
    BY <1>2 DEF ApprovalInv, TypeOK, ApprovalBacksPayment, Backed, Count
  <1> QED BY <1>1, <1>2

(* Beginning or ending a request and touching no payslip.                  *)
LEMMA BackedUnchanged ==
  ASSUME ApprovalBacksPayment, UNCHANGED <<slips, log>>
  PROVE  ApprovalBacksPayment'
  BY DEF ApprovalBacksPayment, Count

LEMMA FinishIssues ==
  ASSUME ApprovalInv, NEW w \in Sessions, Finish(w)
  PROVE  IssuesDraft'
  BY DEF Finish, ApprovalInv, IssuesDraft, TypeOK, Idle

LEMMA BeginIssues ==
  ASSUME ApprovalInv, NEW w \in Sessions, NEW r, Begin(w, r),
         r.op \in {"calculate", "create"} /\ r.n = 0 => r.row.status = "draft"
  PROVE  IssuesDraft' /\ ApprovalBacksPayment'
  BY BackedUnchanged DEF Begin, ApprovalInv, IssuesDraft, TypeOK

LEMMA NextApprovalInv == ApprovalInv /\ [Next]_vars => ApprovalInv'
  <1> SUFFICES ASSUME ApprovalInv, [Next]_vars
               PROVE  IssuesDraft' /\ ApprovalBacksPayment'
    BY NextTypeOK DEF ApprovalInv
  <1>0. TypeOK /\ \A n \in Numbers : slips[n] \in Row /\ Backed(slips[n], log[n])
    BY DEF ApprovalInv, TypeOK, ApprovalBacksPayment, Backed
  <1>1. ASSUME NEW w \in Sessions, NEW p \in Persons, NEW a \in Amounts,
               NEW replace \in BOOLEAN, BeginCalculate(w, p, a, replace)
        PROVE  IssuesDraft' /\ ApprovalBacksPayment'
    BY <1>1, BeginIssues DEF BeginCalculate, Loaded, New
  <1>2. ASSUME NEW w \in Sessions, NEW p \in Persons, NEW a \in Amounts,
               BeginCreate(w, p, a)
        PROVE  IssuesDraft' /\ ApprovalBacksPayment'
    BY <1>2, BeginIssues DEF BeginCreate, Loaded, New
  <1>3. ASSUME NEW w \in Sessions, TakeNumber(w)
        PROVE  IssuesDraft' /\ ApprovalBacksPayment'
    <2>1. req[w] \in Request
      BY <1>0, <1>3 DEF TakeNumber, TypeOK
    <2>2. /\ req' = [req EXCEPT ![w] = req'[w]]
          /\ req'[w].op = req[w].op
          /\ req'[w].n = 0 => req[w].n = 0 /\ req'[w].row = req[w].row
          /\ UNCHANGED <<slips, log>>
      BY <1>0, <1>3, <2>1 DEF TakeNumber, TypeOK, Request
    <2>3. req[w] # Idle
      BY <1>3 DEF TakeNumber
    <2>4. IssuesDraft'
      BY <1>0, <2>2, <2>3 DEF ApprovalInv, IssuesDraft, TypeOK
    <2> QED BY <2>2, <2>4, BackedUnchanged DEF ApprovalInv
  <1>4. ASSUME NEW w \in Sessions, CommitRecalculate(w)
        PROVE  IssuesDraft' /\ ApprovalBacksPayment'
    <2> DEFINE r == req[w]
               edited == [r.row EXCEPT !.status = "draft", !.net = r.amount]
               new == Flush(slips[r.n], r.row, edited)
    <2>1. r.n \in Numbers \cup {0} /\ r.row \in Row /\ r.amount \in Int
      BY <1>0, <1>4, RequestType DEF CommitRecalculate
    <2>2. edited \in Row /\ edited.status = "draft"
      BY <2>1 DEF Row, Statuses
    <2>3. r.n \in Numbers => new.status \in {"draft", slips[r.n].status}
      <3> SUFFICES ASSUME r.n \in Numbers
                   PROVE  new.status \in {"draft", slips[r.n].status}
        OBVIOUS
      <3>1. slips[r.n] \in Row
        BY <1>0
      <3> HIDE DEF r, edited
      <3> QED BY <2>1, <2>2, <3>1, FlushedRow
    <2>4. r.n \in Numbers => Backed(new, log[r.n])
      BY <1>0, <2>3 DEF Backed, Count, TypeOK
    <2>5. /\ slips' = [slips EXCEPT ![r.n] = new]
          /\ log' = [log EXCEPT ![r.n] = log[r.n]]
      BY <1>0, <1>4 DEF CommitRecalculate, TypeOK
    <2> QED
      BY <1>4, <2>4, <2>5, BackedElsewhere, FinishIssues, ZenonT(60) DEF CommitRecalculate
  <1>5. ASSUME NEW w \in Sessions, CommitIssue(w)
        PROVE  IssuesDraft' /\ ApprovalBacksPayment'
    <2> DEFINE k == req[w].number
    <2>1. k \in Numbers /\ slips[k].status = "absent" /\ req[w].row.status = "draft"
      BY <1>5 DEF CommitIssue, InRequest, ApprovalInv, IssuesDraft
    <2>2. Backed(req[w].row, log[k])
      BY <1>0, <2>1 DEF Backed, Count, TypeOK
    <2>3. /\ slips' = [slips EXCEPT ![k] = req[w].row]
          /\ log' = [log EXCEPT ![k] = log[k]]
      BY <1>0, <1>5 DEF CommitIssue, TypeOK
    <2> QED
      BY <1>5, <2>2, <2>3, BackedElsewhere, FinishIssues DEF CommitIssue
  <1>6. ASSUME NEW w \in Sessions, NEW n \in Numbers, NEW a \in Amounts,
               BeginEdit(w, n, a)
        PROVE  IssuesDraft' /\ ApprovalBacksPayment'
    BY <1>6, BeginIssues DEF BeginEdit, Loaded
  <1>7. ASSUME NEW w \in Sessions, CommitEdit(w)
        PROVE  IssuesDraft' /\ ApprovalBacksPayment'
    <2> DEFINE r == req[w]
               edited == [r.row EXCEPT !.net = r.amount]
               new == Flush(slips[r.n], r.row, edited)
    <2>1. r.n \in Numbers \cup {0} /\ r.row \in Row /\ r.amount \in Int
      BY <1>0, <1>7, RequestType DEF CommitEdit
    <2>2. edited \in Row /\ edited.status = r.row.status
      BY <2>1 DEF Row
    <2>3. r.n \in Numbers => new.status = slips[r.n].status
      <3> SUFFICES ASSUME r.n \in Numbers
                   PROVE  new.status = slips[r.n].status
        OBVIOUS
      <3>1. slips[r.n] \in Row
        BY <1>0
      <3> HIDE DEF r, edited
      <3> QED BY <2>1, <2>2, <3>1, FlushedRow
    <2>4. r.n \in Numbers => Backed(new, log[r.n])
      BY <1>0, <2>3 DEF Backed
    <2>5. /\ slips' = [slips EXCEPT ![r.n] = new]
          /\ log' = [log EXCEPT ![r.n] = log[r.n]]
      BY <1>0, <1>7 DEF CommitEdit, TypeOK
    <2> QED
      BY <1>7, <2>4, <2>5, BackedElsewhere, FinishIssues, ZenonT(60) DEF CommitEdit
  <1>8. ASSUME NEW w \in Sessions, NEW n \in Numbers, BeginApprove(w, n)
        PROVE  IssuesDraft' /\ ApprovalBacksPayment'
    BY <1>8, BeginIssues DEF BeginApprove, Loaded
  <1>9. ASSUME NEW w \in Sessions, CommitApprove(w)
        PROVE  IssuesDraft' /\ ApprovalBacksPayment'
    <2> DEFINE r == req[w]
               new == Flush(slips[r.n], r.row,
                            [r.row EXCEPT !.status = "approved"])
               entry == [log[r.n] EXCEPT !.approve = @ + 1]
    <2>1. r.n \in Numbers => Backed(new, entry)
      BY <1>0 DEF Backed, Count, TypeOK
    <2>2. /\ slips' = [slips EXCEPT ![r.n] = new]
          /\ log' = [log EXCEPT ![r.n] = entry]
      BY <1>9 DEF CommitApprove
    <2> QED
      BY <1>9, <2>1, <2>2, BackedElsewhere, FinishIssues DEF CommitApprove
  <1>10. ASSUME NEW w \in Sessions, NEW n \in Numbers, NEW b \in Boxes,
                BeginPay(w, n, b)
         PROVE  IssuesDraft' /\ ApprovalBacksPayment'
    BY <1>10, BeginIssues DEF BeginPay, Loaded
  <1>11. ASSUME NEW w \in Sessions, CommitPay(w)
         PROVE  IssuesDraft' /\ ApprovalBacksPayment'
    <2> DEFINE r == req[w]
               paid == [slips[r.n] EXCEPT !.status = "paid"]
               edited == [r.row EXCEPT !.box = r.box]
               new == Flush(paid, r.row, edited)
               entry == [log[r.n] EXCEPT !.pay = @ + 1]
    <2>1. /\ r.n \in Numbers \cup {0} /\ r.row \in Row
          /\ r.box \in Boxes \cup {NoBox} /\ slips[r.n].status = "approved"
      BY <1>0, <1>11, RequestType DEF CommitPay, CanTransition
    <2>2. edited \in Row /\ edited.status = r.row.status
      BY <2>1 DEF Row
    <2>3. r.n \in Numbers => paid \in Row /\ paid.status = "paid"
      BY <1>0 DEF Row, Statuses
    <2>4. r.n \in Numbers => new.status = "paid"
      <3> SUFFICES ASSUME r.n \in Numbers PROVE new.status = "paid"
        OBVIOUS
      <3>1. paid \in Row /\ paid.status = "paid"
        BY <2>3
      <3> HIDE DEF r, paid, edited
      <3> QED BY <2>1, <2>2, <3>1, FlushedRow
    <2>5. r.n \in Numbers => Backed(new, entry)
      BY <1>0, <2>1, <2>4 DEF Backed, Count, TypeOK
    <2>6. /\ slips' = [slips EXCEPT ![r.n] = new]
          /\ log' = [log EXCEPT ![r.n] = entry]
      BY <1>11 DEF CommitPay
    <2> QED
      BY <1>11, <2>5, <2>6, BackedElsewhere, FinishIssues DEF CommitPay
  <1>12. ASSUME NEW w \in Sessions, NEW n \in Numbers, BeginCancel(w, n)
         PROVE  IssuesDraft' /\ ApprovalBacksPayment'
    BY <1>12, BeginIssues DEF BeginCancel, Loaded
  <1>13. ASSUME NEW w \in Sessions, CommitCancel(w)
         PROVE  IssuesDraft' /\ ApprovalBacksPayment'
    <2> DEFINE n == req[w].n
               new == [slips[n] EXCEPT !.status = "cancelled", !.box = NoBox]
               entry == IF req[w].row.status = "paid" /\ req[w].row.box # NoBox
                        THEN [log[n] EXCEPT !.refund = @ + 1] ELSE log[n]
    <2>1. slips' = [slips EXCEPT ![n] = new]
      BY <1>0, <1>13 DEF CommitCancel, TypeOK
    <2>2. log' = [log EXCEPT ![n] = entry]
      BY <1>0, <1>13 DEF CommitCancel, TypeOK
    <2>3. n \in Numbers => Backed(new, entry)
      <3>1. n \in Numbers => /\ entry.pay = log[n].pay
                             /\ entry.approve = log[n].approve
        BY <1>0 DEF TypeOK
      <3>2. n \in Numbers => new.status = "cancelled"
        BY <1>0 DEF Row
      <3> QED BY <1>0, <3>1, <3>2 DEF Backed, Count, TypeOK
    <2> QED
      BY <1>13, <2>1, <2>2, <2>3, BackedElsewhere, FinishIssues DEF CommitCancel
  <1>14. ASSUME NEW w \in Sessions, NEW b \in Boxes, NEW a \in Cash,
                NEW sign \in {-1, 1}, BeginManual(w, b, sign * a)
         PROVE  IssuesDraft' /\ ApprovalBacksPayment'
    BY <1>14, BeginIssues DEF BeginManual, Loaded
  <1>15. ASSUME NEW w \in Sessions, CommitManual(w)
         PROVE  IssuesDraft' /\ ApprovalBacksPayment'
    BY <1>15, FinishIssues, BackedUnchanged DEF CommitManual, ApprovalInv
  <1>16. ASSUME NEW w \in Sessions, NEW b \in Boxes, NEW a \in Cash,
                Expense(w, b, a)
         PROVE  IssuesDraft' /\ ApprovalBacksPayment'
    BY <1>16, BackedUnchanged DEF Expense, ApprovalInv, IssuesDraft
  <1>17. ASSUME NEW w \in Sessions, Abort(w)
         PROVE  IssuesDraft' /\ ApprovalBacksPayment'
    BY <1>17, FinishIssues, BackedUnchanged DEF Abort, ApprovalInv
  <1>18. CASE UNCHANGED vars
    BY <1>18, BackedUnchanged DEF vars, ApprovalInv, IssuesDraft
  <1> QED
    BY <1>1, <1>2, <1>3, <1>4, <1>5, <1>6, <1>7, <1>8, <1>9, <1>10, <1>11,
       <1>12, <1>13, <1>14, <1>15, <1>16, <1>17, <1>18 DEF Next, Quiet

(* However many sessions handle requests at once, a payslip is paid at     *)
(* most as often as it was approved: pay_payslip's compare-and-set uses up *)
(* the approval it tested.                                                 *)
THEOREM ApprovalBacksPaymentAlways == Spec => []ApprovalBacksPayment
  <1>1. Init => ApprovalInv
    <2> SUFFICES ASSUME Init PROVE ApprovalInv
      OBVIOUS
    <2>1. IssuesDraft
      BY DEF Init, IssuesDraft
    <2>2. ApprovalBacksPayment
      BY DEF Init, ApprovalBacksPayment, Count, Absent
    <2> QED BY <2>1, <2>2, InitTypeOK DEF ApprovalInv
  <1>2. ApprovalInv => ApprovalBacksPayment
    BY DEF ApprovalInv
  <1> QED
    BY <1>1, <1>2, NextApprovalInv, PTL DEF Spec

-----------------------------------------------------------------------------
(* Requests one at a time.  A request in progress then holds the rows as   *)
(* they are in the tables.                                                 *)

(* What request r has loaded and tested holds of the payslips ss and of    *)
(* the cashboxes bb.                                                       *)
Fresh(r, ss, bb) ==
  /\ r.op \in {"calculate", "create"} /\ r.n = 0 =>
       /\ r.row = New(r.row.person, r.row.net)
       /\ \A m \in Numbers : \/ ss[m].status = "absent"
                           \/ ss[m].person # r.row.person
  /\ r.op = "create" => r.n = 0
  /\ r.op = "calculate" /\ r.n # 0 =>
       /\ r.n \in Numbers /\ r.row = ss[r.n]
       /\ r.row.status \in {"draft", "approved", "cancelled"}
  /\ r.op \in {"edit", "approve", "pay", "cancel"} =>
       r.n \in Numbers /\ r.row = ss[r.n]
  /\ r.op = "edit" => r.row.status = "draft"
  /\ r.op = "approve" => r.row.status = "draft" /\ r.row.net >= 0
  /\ r.op = "pay" =>
       /\ r.row.status = "approved" /\ r.amount = r.row.net
       /\ r.row.net \in 1..bb[r.box]
  /\ r.op = "cancel" => r.row.status \in {"draft", "approved", "paid"}
  /\ r.op = "manual" => r.amount <= bb[r.box]
  /\ r.op \in {"pay", "manual"} => r.box \in Boxes /\ r.cash = bb[r.box]

(* A paid payslip names the cashbox that a cancellation pays back to.      *)
PaidFromBox == \A n \in Numbers : slips[n].status = "paid" =>
                                   slips[n].box \in Boxes

Books == BalanceIsJournal /\ PaidIsFlow /\ PaidFromBox

Lone ==
  /\ Books
  /\ \A v, w \in Sessions : req[v] # Idle /\ req[w] # Idle => v = w
  /\ \A w \in Sessions : req[w] # Idle => Fresh(req[w], slips, balance)

(* The commit is a step of the workflow as PayslipLedger promises it.      *)
Promised == [Ledger!Next]_<<slips, balance>>

(* A flush of what the session has just loaded leaves what it edited.      *)
LEMMA FreshFlush ==
  ASSUME NEW row, NEW edited, row \in Row /\ edited \in Row
  PROVE  Flush(row, row, edited) = edited
  <1> DEFINE f == Flush(row, row, edited)
  <1>1. DOMAIN row = {"person", "status", "net", "box"}
    BY DEF Row
  <1>2. \A c \in {"person", "status", "net", "box"} : f[c] = edited[c]
    BY <1>1 DEF Flush
  <1>3. f = [person |-> f.person, status |-> f.status, net |-> f.net,
             box |-> f.box]
    BY <1>1 DEF Flush
  <1>4. edited = [person |-> edited.person, status |-> edited.status,
                  net |-> edited.net, box |-> edited.box]
    BY DEF Row
  <1> QED
    BY <1>2, <1>3, <1>4

LEMMA LoneBegin ==
  ASSUME TypeOK, Lone, NEW w \in Sessions, \A v \in Sessions : req[v] = Idle,
         NEW r, Begin(w, r), Fresh(r, slips, balance)
  PROVE  Lone' /\ Promised
  <1>1. /\ UNCHANGED <<slips, balance, journal, flow>>
        /\ req' = [req EXCEPT ![w] = r]
    BY DEF Begin
  <1>2. \A v \in Sessions : req'[v] = IF v = w THEN r ELSE Idle
    BY <1>1 DEF TypeOK
  <1>3. Books'
    BY <1>1 DEF Lone, Books, BalanceIsJournal, PaidIsFlow, PaidFromBox
  <1> QED
    BY <1>1, <1>2, <1>3 DEF Lone, Promised

LEMMA LoneFinish ==
  ASSUME TypeOK, Lone, NEW w \in Sessions, req[w] # Idle, Finish(w), Books'
  PROVE  Lone'
  <1>1. \A v \in Sessions : req'[v] = Idle
    BY DEF Finish, Lone, TypeOK
  <1> QED BY <1>1 DEF Lone

(* A commit that writes one payslip.                                       *)
LEMMA SlipWritten ==
  ASSUME TypeOK, Books, NEW n \in Numbers, NEW row, NEW amount,
         slips' = [slips EXCEPT ![n] = row],
         flow' = [flow EXCEPT ![n] = amount],
         amount = IF row.status = "paid" THEN row.net ELSE 0,
         row.status = "paid" => row.box \in Boxes,
         balance' = journal'
  PROVE  Books'
  <1>1. \A m \in Numbers :
          /\ slips'[m] = IF m = n THEN row ELSE slips[m]
          /\ flow'[m] = IF m = n THEN amount ELSE flow[m]
    BY DEF TypeOK
  <1> QED
    BY <1>1 DEF Books, BalanceIsJournal, PaidIsFlow, PaidFromBox

-----------------------------------------------------------------------------
(* The commits, one lemma for each handler.                                *)

(* What a session in the middle of a request holds, one request at a time. *)
LEMMA LoneRequest ==
  ASSUME TypeOK, Lone, NEW w \in Sessions, NEW op, NEW stage,
         InRequest(w, op, stage)
  PROVE  /\ req[w] # Idle /\ req[w].op = op /\ req[w].row \in Row
         /\ Fresh(req[w], slips, balance)
         /\ req[w].amount \in Int /\ req[w].cash \in Int
  <1>1. req[w] # Idle /\ req[w].op = op
    BY DEF InRequest
  <1>2. Fresh(req[w], slips, balance)
    BY <1>1 DEF Lone
  <1> QED BY <1>1, <1>2, RequestType

LEMMA LoneTakeNumber ==
  ASSUME TypeOK, Lone, NEW w \in Sessions, TakeNumber(w)
  PROVE  Lone' /\ Promised
  <1> DEFINE r == req[w]
  <1>1. /\ r \in Request /\ r # Idle /\ r.op \in {"calculate", "create"}
        /\ Fresh(r, slips, balance)
    BY DEF TakeNumber, TypeOK, Lone
  <1>2. r.op = "calculate" /\ r.n = 0 => First(r.row.person) = 0
    <2>1. ASSUME r.op = "calculate", r.n = 0 PROVE First(r.row.person) = 0
      <3>1. SlipsOf(r.row.person) = {}
        BY <1>1, <2>1 DEF Fresh, SlipsOf
      <3> QED BY <3>1, FirstIs
    <2> QED BY <2>1
  <1>3. PICK number : req' = [req EXCEPT ![w] =
                        [r EXCEPT !.stage = "numbered", !.number = number]]
    <2>1. ~(r.n = 0 /\ (IF r.op = "calculate" THEN First(r.row.person) ELSE 0) # 0)
      BY <1>2
    <2> QED BY <2>1, Zenon DEF TakeNumber
  <1> DEFINE next == [r EXCEPT !.stage = "numbered", !.number = number]
  <1>4. /\ next.op = r.op /\ next.n = r.n /\ next.row = r.row
        /\ next.amount = r.amount /\ next.cash = r.cash /\ next.box = r.box
    BY <1>1 DEF Request
  <1>5. UNCHANGED <<slips, balance, journal, flow>>
    BY DEF TakeNumber
  <1> HIDE DEF next
  <1>6. \A v \in Sessions : req'[v] = IF v = w THEN next ELSE req[v]
    BY <1>3 DEF TypeOK, next
  <1>7. Fresh(next, slips, balance)
    BY <1>1, <1>4 DEF Fresh
  <1>8. Books'
    BY <1>5 DEF Lone, Books, BalanceIsJournal, PaidIsFlow, PaidFromBox
  <1>9. \A v \in Sessions : req'[v] # Idle => req[v] # Idle
    BY <1>1, <1>6
  <1> QED
    BY <1>5, <1>6, <1>7, <1>8, <1>9 DEF Lone, Promised

LEMMA LoneRecalculate ==
  ASSUME TypeOK, Lone, NEW w \in Sessions, CommitRecalculate(w)
  PROVE  Lone' /\ Promised
  <1> DEFINE r == req[w]
             edited == [r.row EXCEPT !.status = "draft", !.net = r.amount]
  <1>1. r # Idle /\ r.op = "calculate" /\ r.row \in Row /\ r.amount \in Int
        /\ Fresh(r, slips, balance)
    BY LoneRequest DEF CommitRecalculate
  <1>2. /\ r.n \in Numbers /\ r.row = slips[r.n]
        /\ r.row.status \in {"draft", "approved", "cancelled"}
    BY <1>1 DEF CommitRecalculate, Fresh
  <1>3. /\ edited \in Row /\ edited.status = "draft" /\ edited.net = r.amount
    BY <1>1 DEF Row, Statuses
  <1>4. /\ slips' = [slips EXCEPT ![r.n] = Flush(@, r.row, edited)]
        /\ UNCHANGED <<balance, journal, flow>> /\ Finish(w)
    BY DEF CommitRecalculate
  <1>5. slips' = [slips EXCEPT ![r.n] = edited]
    <2> HIDE DEF edited, r
    <2>1. Flush(slips[r.n], r.row, edited) = edited
      BY <1>1, <1>2, <1>3, FreshFlush
    <2> QED BY <1>4, <2>1
  <1>6. Ledger!Redraft(r.n, slips'[r.n].net)
    <2>1. slips'[r.n].net = r.amount
      BY <1>2, <1>3, <1>5 DEF TypeOK
    <2>2. slips' = [slips EXCEPT ![r.n] = [slips[r.n] EXCEPT !.status = "draft",
                                                           !.net = r.amount]]
      <3> HIDE DEF r
      <3> QED BY <1>2, <1>5
    <2> QED BY <1>2, <1>4, <2>1, <2>2 DEF Ledger!Redraft, TypeOK
  <1> HIDE DEF edited, r
  <1>7. flow[r.n] = 0 /\ flow' = [flow EXCEPT ![r.n] = 0]
    BY <1>2, <1>4 DEF Lone, Books, PaidIsFlow, TypeOK
  <1>8. Books'
    <2>1. Books /\ balance' = journal'
      BY <1>4 DEF Lone, Books, BalanceIsJournal
    <2>2. 0 = IF edited.status = "paid" THEN edited.net ELSE 0
      BY <1>3
    <2> QED BY <1>2, <1>3, <1>5, <1>7, <2>1, <2>2, SlipWritten
  <1>9. Lone'
    BY <1>1, <1>4, <1>8, LoneFinish DEF r
  <1> QED
    BY <1>2, <1>6, <1>9 DEF Promised, Ledger!Next

LEMMA LoneIssue ==
  ASSUME TypeOK, Lone, NEW w \in Sessions, CommitIssue(w)
  PROVE  Lone' /\ Promised
  <1> DEFINE r == req[w]
             k == r.number
             p == r.row.person
  <1>1. /\ r # Idle /\ r.op \in {"calculate", "create"} /\ r.row \in Row
        /\ Fresh(r, slips, balance) /\ r.n = 0
    BY LoneRequest DEF CommitIssue
  <1>2. /\ r.row = New(p, r.row.net)
        /\ \A m \in Numbers : slips[m].status = "absent" \/ slips[m].person # p
    BY <1>1 DEF Fresh
  <1>3. /\ k \in Numbers /\ slips[k].status = "absent"
        /\ slips' = [slips EXCEPT ![k] = r.row]
        /\ UNCHANGED <<balance, journal, flow>> /\ Finish(w)
    BY DEF CommitIssue
  <1>4. p \in Persons /\ r.row.status = "draft"
    BY <1>1, <1>2 DEF Row, New
  <1> HIDE DEF r, k, p
  <1>5. slips'[k] = r.row
    BY <1>3 DEF TypeOK
  <1>6. Ledger!Issue(k, p, slips'[k].net)
    <2>1. Ledger!Holder(p) = {}
      BY <1>2 DEF Ledger!Holder
    <2> QED BY <1>2, <1>3, <1>5, <2>1 DEF Ledger!Issue, New
  <1>7. flow' = [flow EXCEPT ![k] = 0]
    BY <1>3 DEF Lone, Books, PaidIsFlow, TypeOK
  <1>8. Books'
    BY <1>3, <1>4, <1>7, SlipWritten DEF Lone, Books, BalanceIsJournal
  <1>9. Lone'
    BY <1>1, <1>3, <1>8, LoneFinish DEF r
  <1> QED
    BY <1>3, <1>4, <1>6, <1>9 DEF Promised, Ledger!Next

LEMMA LoneEdit ==
  ASSUME TypeOK, Lone, NEW w \in Sessions, CommitEdit(w)
  PROVE  Lone' /\ Promised
  <1> DEFINE r == req[w]
             edited == [r.row EXCEPT !.net = r.amount]
  <1>1. r # Idle /\ r.op = "edit" /\ r.row \in Row /\ r.amount \in Int
        /\ Fresh(r, slips, balance)
    BY LoneRequest DEF CommitEdit
  <1>2. r.n \in Numbers /\ r.row = slips[r.n] /\ r.row.status = "draft"
    BY <1>1 DEF Fresh
  <1>3. edited \in Row /\ edited.status = "draft" /\ edited.net = r.amount
    BY <1>1, <1>2 DEF Row
  <1>4. /\ slips' = [slips EXCEPT ![r.n] = Flush(@, r.row, edited)]
        /\ UNCHANGED <<balance, journal, flow>> /\ Finish(w)
    BY DEF CommitEdit
  <1>5. slips' = [slips EXCEPT ![r.n] = edited]
    <2> HIDE DEF edited, r
    <2>1. Flush(slips[r.n], r.row, edited) = edited
      BY <1>1, <1>2, <1>3, FreshFlush
    <2> QED BY <1>4, <2>1
  <1>6. Ledger!Redraft(r.n, slips'[r.n].net)
    <2>1. slips'[r.n].net = r.amount
      BY <1>2, <1>3, <1>5 DEF TypeOK
    <2>2. edited = [r.row EXCEPT !.status = "draft", !.net = r.amount]
      BY <1>1, <1>2 DEF Row
    <2>3. slips' = [slips EXCEPT ![r.n] = [slips[r.n] EXCEPT !.status = "draft",
                                                           !.net = r.amount]]
      <3> HIDE DEF r, edited
      <3> QED BY <1>2, <1>5, <2>2
    <2> QED BY <1>2, <1>4, <2>1, <2>3 DEF Ledger!Redraft, TypeOK
  <1> HIDE DEF edited, r
  <1>7. flow' = [flow EXCEPT ![r.n] = 0]
    BY <1>2, <1>4 DEF Lone, Books, PaidIsFlow, TypeOK
  <1>8. Books'
    BY <1>2, <1>3, <1>4, <1>5, <1>7, SlipWritten
       DEF Lone, Books, BalanceIsJournal
  <1>9. Lone'
    BY <1>1, <1>4, <1>8, LoneFinish DEF r
  <1> QED
    BY <1>2, <1>6, <1>9 DEF Promised, Ledger!Next

LEMMA LoneApprove ==
  ASSUME TypeOK, Lone, NEW w \in Sessions, CommitApprove(w)
  PROVE  Lone' /\ Promised
  <1> DEFINE r == req[w]
             edited == [r.row EXCEPT !.status = "approved"]
  <1>1. r # Idle /\ r.op = "approve" /\ r.row \in Row
        /\ Fresh(r, slips, balance)
    BY LoneRequest DEF CommitApprove
  <1>2. /\ r.n \in Numbers /\ r.row = slips[r.n]
        /\ r.row.status = "draft" /\ r.row.net >= 0
    BY <1>1 DEF Fresh
  <1>3. edited \in Row /\ edited.status = "approved"
    BY <1>1 DEF Row, Statuses
  <1>4. /\ slips' = [slips EXCEPT ![r.n] = Flush(@, r.row, edited)]
        /\ UNCHANGED <<balance, journal, flow>> /\ Finish(w)
    BY DEF CommitApprove
  <1>5. slips' = [slips EXCEPT ![r.n] = edited]
    <2> HIDE DEF edited, r
    <2>1. Flush(slips[r.n], r.row, edited) = edited
      BY <1>1, <1>2, <1>3, FreshFlush
    <2> QED BY <1>4, <2>1
  <1>6. Ledger!Approve(r.n)
    <2>1. slips' = [slips EXCEPT ![r.n] = [slips[r.n] EXCEPT
                                             !.status = "approved"]]
      <3> HIDE DEF r
      <3> QED BY <1>2, <1>5
    <2> QED BY <1>2, <1>4, <2>1 DEF Ledger!Approve, TypeOK
  <1> HIDE DEF edited, r
  <1>7. flow' = [flow EXCEPT ![r.n] = 0]
    BY <1>2, <1>4 DEF Lone, Books, PaidIsFlow, TypeOK
  <1>8. Books'
    BY <1>2, <1>3, <1>4, <1>5, <1>7, SlipWritten, ZenonT(60)
       DEF Lone, Books, BalanceIsJournal
  <1>9. Lone'
    BY <1>1, <1>4, <1>8, LoneFinish DEF r
  <1> QED
    BY <1>2, <1>6, <1>9 DEF Promised, Ledger!Next

(* The flush of the cashbox after the compare-and-set of the status.       *)
LEMMA PaidFlush ==
  ASSUME NEW row \in Row, NEW b
  PROVE  Flush([row EXCEPT !.status = "paid"], row, [row EXCEPT !.box = b])
           = [row EXCEPT !.status = "paid", !.box = b]
  <1> DEFINE paid == [row EXCEPT !.status = "paid"]
             named == [row EXCEPT !.box = b]
             new == [row EXCEPT !.status = "paid", !.box = b]
             f == Flush(paid, row, named)
  <1>1. /\ paid.person = row.person /\ paid.status = "paid"
        /\ paid.net = row.net /\ paid.box = row.box
        /\ DOMAIN paid = {"person", "status", "net", "box"}
    BY DEF Row
  <1>2. /\ named.person = row.person /\ named.status = row.status
        /\ named.net = row.net /\ named.box = b
    BY DEF Row
  <1>3. new = [person |-> row.person, status |-> "paid", net |-> row.net,
                 box |-> b]
    <2>1. paid \in Row
      BY DEF Row, Statuses
    <2>2. new = [paid EXCEPT !.box = b]
      OBVIOUS
    <2> HIDE DEF paid, new
    <2>3. new = [person |-> paid.person, status |-> paid.status,
                 net |-> paid.net, box |-> b]
      BY <2>1, <2>2 DEF Row
    <2> QED BY <1>1, <2>3
  <1> HIDE DEF paid, named, new
  <1>4. /\ f.person = row.person /\ f.status = "paid"
        /\ f.net = row.net /\ f.box = b
    BY <1>1, <1>2 DEF Flush
  <1>5. f = [person |-> f.person, status |-> f.status, net |-> f.net,
             box |-> f.box]
    BY <1>1 DEF Flush
  <1> HIDE DEF f
  <1>6. f = new
    BY <1>3, <1>4, <1>5
  <1> QED BY <1>6 DEF f, paid, named, new

(* pay_payslip(): the compare-and-set moves the status, the flush writes   *)
(* the cashbox.                                                            *)
LEMMA LonePay ==
  ASSUME TypeOK, Lone, NEW w \in Sessions, CommitPay(w)
  PROVE  Lone' /\ Promised
  <1> DEFINE r == req[w]
             b == r.box
             paid == [r.row EXCEPT !.status = "paid"]
             named == [r.row EXCEPT !.box = b]
             new == [r.row EXCEPT !.status = "paid", !.box = b]
  <1>1. r # Idle /\ r.op = "pay" /\ r.row \in Row
        /\ Fresh(r, slips, balance)
    BY LoneRequest DEF CommitPay
  <1>2. /\ r.n \in Numbers /\ r.row = slips[r.n] /\ b \in Boxes
        /\ r.row.status = "approved" /\ r.amount = r.row.net
        /\ r.row.net \in 1..balance[b] /\ r.cash = balance[b]
    BY <1>1 DEF Fresh
  <1>3. new.status = "paid" /\ new.net = r.row.net /\ new.box = b
    BY <1>1 DEF Row
  <1>4. /\ slips' = [slips EXCEPT ![r.n] =
             Flush([@ EXCEPT !.status = "paid"], r.row, named)]
        /\ balance' = [balance EXCEPT ![b] = r.cash - r.amount]
        /\ journal' = [journal EXCEPT ![b] = @ - r.amount]
        /\ flow' = [flow EXCEPT ![r.n] = @ + r.amount] /\ Finish(w)
    BY DEF CommitPay, Record
  <1>5. Flush(paid, r.row, named) = new
    BY <1>1, PaidFlush
  <1>6. slips' = [slips EXCEPT ![r.n] = new]
    <2>1. slips' = [slips EXCEPT ![r.n] = Flush(paid, r.row, named)]
      <3> HIDE DEF r
      <3> QED BY <1>2, <1>4
    <2> HIDE DEF paid, named, new, r
    <2> QED BY <1>5, <2>1
  <1>7. balance' = [balance EXCEPT ![b] = balance[b] - slips[r.n].net]
    BY <1>2, <1>4
  <1>8. Ledger!Pay(r.n, b)
    <2>1. /\ slips[r.n].status = "approved"
          /\ slips[r.n].net \in 1..balance[b]
      BY <1>2
    <2>2. slips' = [slips EXCEPT ![r.n].status = "paid", ![r.n].box = b]
      <3>1. slips' = [slips EXCEPT ![r.n] = [slips[r.n] EXCEPT
                                               !.status = "paid", !.box = b]]
        <4> HIDE DEF r, b
        <4> QED BY <1>2, <1>6
      <3> HIDE DEF r, b
      <3> QED BY <1>2, <3>1 DEF TypeOK
    <2> QED BY <1>7, <2>1, <2>2 DEF Ledger!Pay
  <1> HIDE DEF paid, named, new, b, r
  <1>9. flow' = [flow EXCEPT ![r.n] = r.row.net]
    <2>1. flow[r.n] = 0 /\ r.row.net \in Int
      BY <1>1, <1>2 DEF Lone, Books, PaidIsFlow, Row
    <2>2. flow[r.n] + r.amount = r.row.net
      BY <1>2, <2>1
    <2> QED BY <1>4, <2>2
  <1>10. balance' = journal'
    BY <1>2, <1>4 DEF Lone, Books, BalanceIsJournal, TypeOK
  <1>11. Books'
    <2>1. Books /\ r.row.net = IF new.status = "paid" THEN new.net ELSE 0
      BY <1>3 DEF Lone
    <2> QED BY <1>2, <1>3, <1>6, <1>9, <1>10, <2>1, SlipWritten
  <1>12. Lone'
    BY <1>1, <1>4, <1>11, LoneFinish DEF r
  <1> QED
    BY <1>2, <1>8, <1>12 DEF Promised, Ledger!Next

(* cancel_payslip(): a paid payslip names the cashbox that its amount goes *)
(* back to.                                                                *)
LEMMA LoneCancel ==
  ASSUME TypeOK, Lone, NEW w \in Sessions, CommitCancel(w)
  PROVE  Lone' /\ Promised
  <1> DEFINE r == req[w]
             n == r.n
             row == slips[n]
             new == [row EXCEPT !.status = "cancelled", !.box = NoBox]
  <1>1. r # Idle /\ r.op = "cancel" /\ r.row \in Row
        /\ Fresh(r, slips, balance)
    BY LoneRequest DEF CommitCancel
  <1>2. /\ n \in Numbers /\ r.row = row
        /\ row.status \in {"draft", "approved", "paid"}
    BY <1>1 DEF Fresh
  <1>3. row \in Row
    BY <1>1, <1>2
  <1>4. new.status = "cancelled"
    BY <1>3 DEF Row
  <1>5. slips' = [slips EXCEPT ![n].status = "cancelled", ![n].box = NoBox]
        /\ Finish(w)
    BY DEF CommitCancel
  <1>6. slips' = [slips EXCEPT ![n] = new]
    BY <1>2, <1>5 DEF TypeOK
  <1>7. row.status = "paid" => /\ r.row.status = "paid" /\ r.row.box # NoBox
                               /\ row.box \in Boxes
    BY <1>2, ConstantsOK DEF Lone, Books, PaidFromBox
  <1>8. IF row.status = "paid"
        THEN /\ balance' = [balance EXCEPT ![row.box] = balance[row.box] + row.net]
             /\ journal' = [journal EXCEPT ![row.box] = @ - (-row.net)]
             /\ flow' = [flow EXCEPT ![n] = @ - row.net]
        ELSE UNCHANGED <<balance, journal, flow>>
    <2>1. CASE row.status = "paid"
      BY <1>2, <1>7, <2>1 DEF CommitCancel, Record
    <2>2. CASE row.status # "paid"
      BY <1>2, <2>2 DEF CommitCancel
    <2> QED BY <2>1, <2>2
  <1>9. Ledger!Cancel(n)
    <2>1. balance' = IF slips[n].status = "paid"
                     THEN [balance EXCEPT ![slips[n].box] = @ + slips[n].net]
                     ELSE balance
      BY <1>8
    <2> QED BY <1>2, <1>5, <2>1 DEF Ledger!Cancel
  <1> HIDE DEF r, n, row, new
  <1>10. balance' = journal'
    <2>1. balance = journal /\ balance \in [Boxes -> Int] /\ row.net \in Int
      BY <1>3 DEF Lone, Books, BalanceIsJournal, TypeOK, Row
    <2>2. CASE row.status = "paid"
      <3>1. journal[row.box] - (-row.net) = balance[row.box] + row.net
        BY <1>7, <2>1, <2>2
      <3> QED BY <1>8, <2>1, <2>2, <3>1
    <2>3. CASE row.status # "paid"
      BY <1>8, <2>1, <2>3
    <2> QED BY <2>2, <2>3
  <1>11. flow' = [flow EXCEPT ![n] = 0]
    <2>1. /\ flow \in [Numbers -> Int] /\ row.net \in Int
          /\ flow[n] = IF row.status = "paid" THEN row.net ELSE 0
      BY <1>2, <1>3 DEF Lone, Books, PaidIsFlow, TypeOK, Row, row
    <2>2. CASE row.status = "paid"
      BY <1>2, <1>8, <2>1, <2>2
    <2>3. CASE row.status # "paid"
      BY <1>2, <1>8, <2>1, <2>3
    <2> QED BY <2>2, <2>3
  <1>12. Books'
    <2>1. Books /\ 0 = IF new.status = "paid" THEN new.net ELSE 0
      BY <1>4 DEF Lone
    <2> QED BY <1>2, <1>4, <1>6, <1>10, <1>11, <2>1, SlipWritten
  <1>13. Lone'
    BY <1>1, <1>5, <1>12, LoneFinish DEF r
  <1> QED
    BY <1>2, <1>9, <1>13 DEF Promised, Ledger!Next

(* A movement of a cashbox that is not salary.                             *)
LEMMA CashMoved ==
  ASSUME TypeOK, Lone, NEW b \in Boxes, NEW amount \in Int,
         amount <= balance[b], Record(b, amount, balance[b] - amount),
         UNCHANGED <<slips, flow>>
  PROVE  Books' /\ Promised
  <1>1. /\ balance' = [balance EXCEPT ![b] = balance[b] - amount]
        /\ journal' = [journal EXCEPT ![b] = @ - amount]
        /\ balance = journal /\ balance \in [Boxes -> Int]
    BY DEF Record, Lone, Books, BalanceIsJournal, TypeOK
  <1>2. Books'
    BY <1>1 DEF Lone, Books, BalanceIsJournal, PaidIsFlow, PaidFromBox
  <1>3. balance'[b] = balance[b] - amount /\ balance'[b] >= 0
    BY <1>1
  <1>4. Ledger!Move(b)
    BY <1>1, <1>3 DEF Ledger!Move
  <1> QED
    BY <1>2, <1>4 DEF Promised, Ledger!Next

LEMMA LoneManual ==
  ASSUME TypeOK, Lone, NEW w \in Sessions, CommitManual(w)
  PROVE  Lone' /\ Promised
  <1> DEFINE r == req[w]
  <1>1. r # Idle /\ r.op = "manual" /\ r.amount \in Int
        /\ Fresh(r, slips, balance)
    BY LoneRequest DEF CommitManual
  <1>2. /\ r.box \in Boxes /\ r.cash = balance[r.box]
        /\ r.amount <= balance[r.box]
    BY <1>1 DEF Fresh
  <1>3. /\ Record(r.box, r.amount, balance[r.box] - r.amount)
        /\ UNCHANGED <<slips, flow>> /\ Finish(w)
    BY <1>2 DEF CommitManual
  <1> HIDE DEF r
  <1>4. Books' /\ Promised
    BY <1>1, <1>2, <1>3, CashMoved
  <1> QED
    BY <1>1, <1>3, <1>4, LoneFinish DEF r

LEMMA LoneExpense ==
  ASSUME TypeOK, Lone, NEW w \in Sessions, NEW b \in Boxes, NEW a \in Cash,
         Expense(w, b, a), \A v \in Sessions : req[v] = Idle
  PROVE  Lone' /\ Promised
  <1>1. Books' /\ Promised
    BY CashMoved, ConstantsOK DEF Expense
  <1>2. req' = req
    BY DEF Expense
  <1> QED BY <1>1, <1>2 DEF Lone

(* A request that begins while no other is in progress has read the tables *)
(* as they are.                                                            *)
LEMMA LoneBegins ==
  ASSUME TypeOK, Lone, NEW w \in Sessions, \A v \in Sessions : req[v] = Idle,
         \/ \E p \in Persons, a \in Amounts, replace \in BOOLEAN :
              BeginCalculate(w, p, a, replace)
         \/ \E p \in Persons, a \in Amounts : BeginCreate(w, p, a)
         \/ \E n \in Numbers, a \in Amounts : BeginEdit(w, n, a)
         \/ \E n \in Numbers : BeginApprove(w, n) \/ BeginCancel(w, n)
         \/ \E n \in Numbers, b \in Boxes : BeginPay(w, n, b)
         \/ \E b \in Boxes, a \in Int : BeginManual(w, b, a)
  PROVE  Lone' /\ Promised
  <1> DEFINE Goal == \E r : Begin(w, r) /\ Fresh(r, slips, balance)
  <1>0. \A n \in Numbers : slips[n] \in Row
    BY DEF TypeOK
  <1>1. ASSUME NEW p \in Persons, NEW a \in Amounts, NEW replace \in BOOLEAN,
               BeginCalculate(w, p, a, replace)
        PROVE  Goal
    <2> DEFINE n == First(p)
               row == IF n = 0 THEN New(p, a) ELSE slips[n]
               r == Loaded("calculate", n, row, a)
    <2>1. /\ n # 0 => /\ slips[n].status # "paid"
          /\ Begin(w, r)
      BY <1>1 DEF BeginCalculate
    <2>2. IF SlipsOf(p) = {} THEN n = 0 ELSE n \in SlipsOf(p)
      BY FirstIs
    <2>3. /\ r.op = "calculate" /\ r.n = n /\ r.row = row
      BY DEF Loaded
    <2> HIDE DEF n, r
    <2>4. CASE SlipsOf(p) = {}
      <3>1. n = 0 /\ row = New(p, a)
        BY <2>2, <2>4
      <3>2. row.person = p /\ row.net = a
        BY <3>1 DEF New
      <3>3. \A m \in Numbers : slips[m].status = "absent" \/ slips[m].person # p
        BY <2>4 DEF SlipsOf
      <3> HIDE DEF row
      <3>4. Fresh(r, slips, balance)
        BY <2>3, <3>1, <3>2, <3>3 DEF Fresh
      <3> QED BY <2>1, <3>4
    <2>5. CASE SlipsOf(p) # {}
      <3>1. n \in Numbers /\ slips[n].status # "absent"
        BY <2>2, <2>5 DEF SlipsOf
      <3>2. n # 0 /\ row = slips[n]
        BY <3>1 DEF Numbers
      <3>3. slips[n].status \in {"draft", "approved", "cancelled"}
        BY <1>0, <2>1, <3>1, <3>2 DEF Row, Statuses
      <3> HIDE DEF row
      <3>4. Fresh(r, slips, balance)
        BY <2>3, <3>1, <3>2, <3>3 DEF Fresh
      <3> QED BY <2>1, <3>4
    <2> QED BY <2>4, <2>5
  <1>2. ASSUME NEW p \in Persons, NEW a \in Amounts, BeginCreate(w, p, a)
        PROVE  Goal
    <2> DEFINE r == Loaded("create", 0, New(p, a), a)
    <2>1. SlipsOf(p) = {}
      <3>1. 0 \notin SlipsOf(p)
        BY DEF SlipsOf, Numbers
      <3>2. First(p) = 0
        BY <1>2 DEF BeginCreate
      <3> QED BY <3>1, <3>2, FirstIs
    <2>2. \A m \in Numbers : slips[m].status = "absent" \/ slips[m].person # p
      BY <2>1 DEF SlipsOf
    <2>3. Fresh(r, slips, balance)
      BY <2>2 DEF Fresh, Loaded, New
    <2> QED BY <1>2, <2>3 DEF BeginCreate
  <1>3. ASSUME NEW n \in Numbers, NEW a \in Amounts, BeginEdit(w, n, a)
        PROVE  Goal
    <2>1. Fresh(Loaded("edit", n, slips[n], a), slips, balance)
      BY <1>3 DEF BeginEdit, Fresh, Loaded
    <2> QED BY <1>3, <2>1 DEF BeginEdit
  <1>4. ASSUME NEW n \in Numbers, BeginApprove(w, n)
        PROVE  Goal
    <2>1. Fresh(Loaded("approve", n, slips[n], 0), slips, balance)
      BY <1>4 DEF BeginApprove, Fresh, Loaded
    <2> QED BY <1>4, <2>1 DEF BeginApprove
  <1>5. ASSUME NEW n \in Numbers, BeginCancel(w, n)
        PROVE  Goal
    <2>1. slips[n].status \in {"draft", "approved", "paid"}
      BY <1>0, <1>5 DEF BeginCancel, Row, Statuses
    <2>2. Fresh(Loaded("cancel", n, slips[n], 0), slips, balance)
      BY <2>1 DEF Fresh, Loaded
    <2> QED BY <1>5, <2>2 DEF BeginCancel
  <1>6. ASSUME NEW n \in Numbers, NEW b \in Boxes, BeginPay(w, n, b)
        PROVE  Goal
    <2> DEFINE r == [Loaded("pay", n, slips[n], slips[n].net)
                       EXCEPT !.box = b, !.cash = balance[b]]
    <2>1. /\ r.op = "pay" /\ r.n = n /\ r.row = slips[n] /\ r.box = b
          /\ r.amount = slips[n].net /\ r.cash = balance[b]
      BY DEF Loaded
    <2>2. /\ slips[n].status = "approved" /\ slips[n].net \in 1..balance[b]
          /\ Begin(w, r)
      <3>1. slips[n].net \in Int /\ balance[b] \in Int
        BY <1>0 DEF Row, TypeOK
      <3>2. /\ slips[n].status = "approved" /\ slips[n].net > 0
            /\ slips[n].net <= balance[b] /\ Begin(w, r)
        BY <1>6 DEF BeginPay
      <3> HIDE DEF r
      <3> QED BY <3>1, <3>2
    <2> HIDE DEF r
    <2>3. Fresh(r, slips, balance)
      BY <2>1, <2>2 DEF Fresh
    <2> QED BY <2>2, <2>3
  <1>7. ASSUME NEW b \in Boxes, NEW a \in Int, BeginManual(w, b, a)
        PROVE  Goal
    <2> DEFINE r == [Loaded("manual", 0, Absent, a)
                       EXCEPT !.box = b, !.cash = balance[b]]
    <2>1. /\ r.op = "manual" /\ r.box = b /\ r.amount = a
          /\ r.cash = balance[b]
      BY DEF Loaded
    <2>2. a <= balance[b] /\ Begin(w, r)
      BY <1>7 DEF BeginManual
    <2> HIDE DEF r
    <2>3. Fresh(r, slips, balance)
      BY <2>1, <2>2 DEF Fresh
    <2> QED BY <2>2, <2>3
  <1>8. Goal
    BY <1>1, <1>2, <1>3, <1>4, <1>5, <1>6, <1>7
  <1> QED
    BY <1>8, LoneBegin

LEMMA LoneInit ==
  ASSUME Init PROVE Lone /\ Ledger!Init
  <1>1. Books
    BY DEF Init, Books, BalanceIsJournal, PaidIsFlow, PaidFromBox, Absent
  <1>2. Lone
    BY <1>1 DEF Init, Lone
  <1>3. Ledger!Init
    BY ConstantsOK DEF Init, Ledger!Init, Absent
  <1> QED
    BY <1>2, <1>3

(* A step without an overlap: the books stay sound and the step is one     *)
(* that PayslipLedger allows, or a stutter.                                *)
LEMMA LoneStep ==
  ASSUME TypeOK, Lone, [Next]_vars, ~Overlap
  PROVE  Lone' /\ Promised
  <1>1. CASE UNCHANGED vars
    BY <1>1 DEF vars, Lone, Books, BalanceIsJournal, PaidIsFlow, PaidFromBox,
       Promised
  <1>2. ASSUME NEW w \in Sessions, NEW r, Begin(w, r)
        PROVE  \A v \in Sessions : req[v] = Idle
    <2>1. served' # served
      BY <1>2 DEF Begin, TypeOK
    <2> QED BY <2>1 DEF Overlap
  <1>3. ASSUME NEW w \in Sessions,
               \/ \E p \in Persons, a \in Amounts, replace \in BOOLEAN :
                    BeginCalculate(w, p, a, replace)
               \/ \E p \in Persons, a \in Amounts : BeginCreate(w, p, a)
               \/ \E n \in Numbers, a \in Amounts : BeginEdit(w, n, a)
               \/ \E n \in Numbers : BeginApprove(w, n) \/ BeginCancel(w, n)
               \/ \E n \in Numbers, b \in Boxes : BeginPay(w, n, b)
               \/ \E b \in Boxes, a \in Int : BeginManual(w, b, a)
        PROVE  Lone' /\ Promised
    <2>1. \E r : Begin(w, r)
      BY <1>3 DEF BeginCalculate, BeginCreate, BeginEdit, BeginApprove,
         BeginCancel, BeginPay, BeginManual
    <2>2. \A v \in Sessions : req[v] = Idle
      BY <1>2, <2>1
    <2> QED BY <1>3, <2>2, LoneBegins
  <1>4. ASSUME NEW w \in Sessions,
               \/ TakeNumber(w) \/ CommitRecalculate(w) \/ CommitIssue(w)
               \/ CommitEdit(w) \/ CommitApprove(w) \/ CommitPay(w)
               \/ CommitCancel(w) \/ CommitManual(w)
        PROVE  Lone' /\ Promised
    BY <1>4, LoneTakeNumber, LoneRecalculate, LoneIssue, LoneEdit, LoneApprove,
       LonePay, LoneCancel, LoneManual
  <1>5. ASSUME NEW w \in Sessions, NEW b \in Boxes, NEW a \in Cash,
               Expense(w, b, a)
        PROVE  Lone' /\ Promised
    <2>1. served' # served
      BY <1>5 DEF Expense, TypeOK
    <2>2. \A v \in Sessions : req[v] = Idle
      BY <2>1 DEF Overlap
    <2> QED BY <1>5, <2>2, LoneExpense
  <1>6. ASSUME NEW w \in Sessions, Abort(w)
        PROVE  Lone' /\ Promised
    <2>1. Books' /\ Promised
      BY <1>6 DEF Abort, Lone, Books, BalanceIsJournal, PaidIsFlow, PaidFromBox,
         Promised
    <2> QED BY <1>6, <2>1, LoneFinish DEF Abort
  <1>7. CASE Next
    <2>1. \A a \in Cash, sign \in {-1, 1} : sign * a \in Int
      BY ConstantsOK
    <2> QED BY <1>1, <1>3, <1>4, <1>5, <1>6, <1>7, <2>1 DEF Next, Quiet
  <1> QED
    BY <1>1, <1>7

(* The inductive invariant: as long as no two requests have overlapped.    *)
AloneInv == TypeOK /\ (alone => Lone)

LEMMA AloneInit == MCInit => AloneInv /\ Ledger!Init
  BY LoneInit, InitTypeOK DEF MCInit, AloneInv

LEMMA AloneStep ==
  ASSUME AloneInv, [MCNext]_<<vars, alone>>
  PROVE  AloneInv' /\ (alone' => Promised)
  <1>1. TypeOK /\ [Next]_vars
    BY DEF AloneInv, MCNext
  <1>2. TypeOK'
    BY <1>1, NextTypeOK
  <1>3. ASSUME alone' PROVE Lone' /\ Promised
    <2>1. CASE MCNext
      <3>1. alone /\ ~Overlap
        BY <1>3, <2>1 DEF MCNext
      <3> QED BY <1>1, <3>1, LoneStep DEF AloneInv
    <2>2. CASE UNCHANGED <<vars, alone>>
      <3>1. alone /\ ~Overlap
        BY <1>3, <2>2 DEF Overlap, vars
      <3> QED BY <1>1, <3>1, LoneStep DEF AloneInv
    <2> QED BY <2>1, <2>2
  <1> QED
    BY <1>2, <1>3 DEF AloneInv

LEMMA AloneAlways == MCSpec => []AloneInv
  <1>1. AloneInv /\ [MCNext]_<<vars, alone>> => AloneInv'
    BY AloneStep
  <1> QED
    BY <1>1, AloneInit, PTL DEF MCSpec

(* As long as no two requests have overlapped, each cashbox holds its      *)
(* opening balance and the sum of its transactions, and a payslip's salary *)
(* transactions add up to its net amount while it is paid.                 *)
THEOREM AlonePaidAlways == MCSpec => []AlonePaid
  <1>1. AloneInv => AlonePaid
    BY DEF AloneInv, Lone, Books, AlonePaid
  <1> QED
    BY <1>1, AloneAlways, PTL

(* Until two requests overlap, the handlers of the payslip workflow        *)
(* implement PayslipLedger: each commit is one of its steps, every other   *)
(* step leaves payslips and cashboxes alone.                               *)
THEOREM AloneLedgerAlways == MCSpec => AloneLedger
  <1>1. MCInit => Ledger!Init
    BY AloneInit
  <1>2. AloneInv /\ [MCNext]_<<vars, alone>>
          => [alone' => Promised]_<<vars, alone>>
    BY AloneStep
  <1>3. MCSpec => Ledger!Init /\ [][alone' => Promised]_<<vars, alone>>
    BY <1>1, <1>2, AloneAlways, PTL DEF MCSpec
  <1> QED
    BY <1>3 DEF AloneLedger, Promised
=============================================================================
