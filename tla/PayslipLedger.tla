---------------------------- MODULE PayslipLedger ----------------------------
(***************************************************************************)
(* What the payslip workflow promises, as if every request were one step:  *)
(* a payslip moves from draft to approved to paid, each payment leaves one *)
(* cashbox and a cancellation brings it back, a person has one payslip in  *)
(* the period and no cashbox is overdrawn.  Payroll, with one session,     *)
(* implements this specification.                                          *)
(***************************************************************************)
EXTENDS Integers

CONSTANTS Persons, Boxes, NoBox, Numbers

VARIABLES
  slips,   \* number -> [person, status, net, box]
  till     \* cashbox -> its money

Holder(p) == {n \in Numbers : slips[n].status # "absent"
                              /\ slips[n].person = p}

Init ==
  /\ \A n \in Numbers : slips[n].status = "absent"
  /\ \A b \in Boxes : till[b] >= 0

(* A person without a payslip receives a draft.                            *)
Issue(n, p, net) ==
  /\ slips[n].status = "absent"
  /\ Holder(p) = {}
  /\ slips' = [slips EXCEPT ![n] = [person |-> p, status |-> "draft",
                                    net |-> net, box |-> NoBox]]
  /\ UNCHANGED till

(* A payslip that is not paid is computed again and has to be approved     *)
(* again.                                                                  *)
Redraft(n, net) ==
  /\ slips[n].status \in {"draft", "approved", "cancelled"}
  /\ slips' = [slips EXCEPT ![n].status = "draft", ![n].net = net]
  /\ UNCHANGED till

Approve(n) ==
  /\ slips[n].status = "draft"
  /\ slips[n].net >= 0
  /\ slips' = [slips EXCEPT ![n].status = "approved"]
  /\ UNCHANGED till

(* The approved amount leaves a cashbox that holds it.                     *)
Pay(n, b) ==
  /\ slips[n].status = "approved"
  /\ slips[n].net \in 1..till[b]
  /\ slips' = [slips EXCEPT ![n].status = "paid", ![n].box = b]
  /\ till' = [till EXCEPT ![b] = @ - slips[n].net]

(* A paid payslip gives its amount back to the cashbox that paid it.       *)
Cancel(n) ==
  /\ slips[n].status \in {"draft", "approved", "paid"}
  /\ slips' = [slips EXCEPT ![n].status = "cancelled", ![n].box = NoBox]
  /\ till' = IF slips[n].status = "paid"
             THEN [till EXCEPT ![slips[n].box] = @ + slips[n].net]
             ELSE till

(* Money that is not salary enters or leaves a cashbox.                    *)
Move(b) ==
  /\ till'[b] >= 0
  /\ till' = [till EXCEPT ![b] = till'[b]]
  /\ UNCHANGED slips

Next ==
  \/ \E n \in Numbers, p \in Persons : Issue(n, p, slips'[n].net)
  \/ \E n \in Numbers :
       Redraft(n, slips'[n].net) \/ Approve(n) \/ Cancel(n)
  \/ \E n \in Numbers, b \in Boxes : Pay(n, b)
  \/ \E b \in Boxes : Move(b)

vars == <<slips, till>>

Spec == Init /\ [][Next]_vars
=============================================================================
