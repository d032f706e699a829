------------------------------ MODULE MCPayroll ------------------------------
(***************************************************************************)
(* Instances of Payroll for TLC.  Some properties hold however many        *)
(* sessions run, others only as long as requests come one at a time.  One  *)
(* run checks both: the history variable `alone` says that no two requests *)
(* have overlapped so far.                                                 *)
(***************************************************************************)
EXTENDS Payroll, TLC

VARIABLE alone

(* A request begins while another one is in progress.                      *)
Overlap == served' # served /\ \E w \in Sessions : req[w] # Idle

MCInit == Init /\ alone = TRUE
MCNext == Next /\ alone' = (alone /\ ~Overlap)
MCSpec == MCInit /\ [][MCNext]_<<vars, alone>>

(* A payslip whose deductions exceed its gross amount has a negative net.  *)
SignedAmounts == {-1, 2, 3}

(* Which thread serves a request makes no difference.                      *)
Symmetry == Permutations(Sessions)

-----------------------------------------------------------------------------
(* One request at a time: each cashbox balance is its opening balance and  *)
(* the sum of its transactions (BalanceIsJournal), and the salary          *)
(* transactions of a payslip add up to its net amount while it is paid and *)
(* to nothing otherwise (PaidIsFlow).                                      *)
AlonePaid == alone => BalanceIsJournal /\ PaidIsFlow

(* One request at a time: the handlers implement the workflow as promised  *)
(* by PayslipLedger, each commit being one of its steps or none.           *)
AloneLedger ==
  Ledger!Init /\ [][alone' => [Ledger!Next]_<<slips, balance>>]_<<vars, alone>>
=============================================================================
