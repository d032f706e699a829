---------------------------- MODULE MCEnrollment ----------------------------
(***************************************************************************)
(* Instances of Enrollment for TLC.  Some properties hold however many     *)
(* sessions run, others only as long as requests come one at a time.  One  *)
(* run checks both: the history variable `alone` says that no two requests *)
(* have overlapped so far; behaviours with an overlap are cut earlier.     *)
(* The history variable `folded` says that a class with registrations was  *)
(* merged into itself.                                                     *)
(***************************************************************************)
EXTENDS Enrollment, TLC

CONSTANT
  MaxOverlapped    \* bound: requests of a behaviour with an overlap

VARIABLES alone, folded

mcvars == <<vars, alone, folded>>

(* A request begins while another one is in progress.                      *)
Overlap == served' # served /\ \E w \in Sessions : req[w] # Idle

(* A merge ends whose class is its own target.                             *)
Folding ==
  \E w \in Sessions :
    /\ req[w].op = "merge" /\ req[w].to = req[w].from /\ req[w].rows # {}
    /\ req'[w] = Idle /\ classes' # classes

MCInit == Init /\ alone = TRUE /\ folded = FALSE
Cut ==
  /\ ~alone /\ served = MaxOverlapped
  /\ \A w \in Sessions : req[w] = Idle
  /\ UNCHANGED mcvars
MCNext ==
  \/ /\ Next
     /\ alone' = (alone /\ ~Overlap)
     /\ folded' = (folded \/ Folding)
     /\ alone' \/ served' <= MaxOverlapped
  \/ Cut
MCSpec == MCInit /\ [][MCNext]_mcvars

(* Which thread serves a request, which student it is about and which id a *)
(* class has make no difference.                                           *)
Symmetry ==
  Permutations(Sessions) \cup Permutations(Students) \cup Permutations(Classes)

-----------------------------------------------------------------------------
(* One request at a time, and as long as no class with registrations was   *)
(* merged into itself (which closes it with its registrations in it and    *)
(* counts none): the count of a class is the number of its active          *)
(* registrations (CountIsActive), and add and transfer fill no class       *)
(* beyond its capacity.                                                    *)
AloneSeats ==
  [][alone' /\ ~folded' =>
       /\ CountIsActive'
       /\ \A w \in Sessions :
            /\ req[w].op \in {"add", "transfer"}
            /\ req[w].to # NoClass
            /\ req'[w] = Idle /\ regs' # regs
            => CountIn(regs', req[w].to) <= classes[req[w].to].cap]_mcvars
=============================================================================
