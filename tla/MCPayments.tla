----------------------------- MODULE MCPayments -----------------------------
(***************************************************************************)
(* Instances of Payments for TLC.  Some properties hold however many       *)
(* sessions run, others only as long as requests come one at a time.  One  *)
(* run checks both: the history variable `alone` says that no two requests *)
(* have overlapped so far; behaviours with an overlap are cut earlier.     *)
(* The history variable `crossed` says that the balance of the cashbox was *)
(* written while a handler that does not hold the write lock had it in     *)
(* hand.                                                                   *)
(***************************************************************************)
EXTENDS Payments, TLC

CONSTANT
  MaxOverlapped    \* bound: requests of a behaviour with an overlap

VARIABLES alone, crossed

mcvars == <<vars, alone, crossed>>

(* A request begins while another one is in progress.                      *)
Overlap == served' # served /\ \E w \in Sessions : req[w] # Idle

(* The cashbox is written under a manual transaction or a salary that has  *)
(* loaded it and has not written it yet.                                   *)
Crossing ==
  till' # till /\ \E w \in Sessions : req[w].op = "move" /\ req'[w] = req[w]

MCInit == Init /\ alone = TRUE /\ crossed = FALSE
Cut ==
  /\ ~alone /\ served = MaxOverlapped
  /\ \A w \in Sessions : req[w] = Idle
  /\ UNCHANGED mcvars
MCNext ==
  \/ /\ Next
     /\ alone' = (alone /\ ~Overlap)
     /\ crossed' = (crossed \/ Crossing)
     /\ alone' \/ served' <= MaxOverlapped
  \/ Cut
MCSpec == MCInit /\ [][MCNext]_mcvars

(* Which thread serves a request makes no difference.                      *)
Symmetry == Permutations(Sessions)

-----------------------------------------------------------------------------
(* However many sessions run: payments, refunds and expenses, which read   *)
(* the cashbox under the write lock, never lose a movement: the balance is *)
(* what the transactions add up to, unless somebody wrote it under a       *)
(* manual transaction or a salary that had it in hand.  In any case it     *)
(* goes at most _EPS below zero ("balance + _EPS < amount" is refused).    *)
TillSound == till >= -Eps /\ (~crossed => till = journal)

(* One request at a time: a registration's paid amount is the sum of its   *)
(* confirmed payments (PaidIsConfirmed), an installment is settled exactly *)
(* when nothing of it, late fee included, is left (SettledIffNothingLeft), *)
(* the cash a payment keeps in the cashbox is its cash part, less what a   *)
(* cancellation returned and no restoration brought back                   *)
(* (CashFollowsPayment), and the installments of a new plan add up to what *)
(* the registration owes.                                                  *)
AloneAgree ==
  [][alone' =>
       /\ PaidIsConfirmed'
       /\ SettledIffNothingLeft'
       /\ CashFollowsPayment'
       /\ \A r \in Registrations :
            InstsOf(r) = {} /\ InstsOf(r)' # {} =>
              SumFunction([i \in InstsOf(r)' |-> insts'[i].amount]) = regs[r].remaining]_mcvars
=============================================================================
