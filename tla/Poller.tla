--------------------------------- MODULE Poller --------------------------------
(***************************************************************************)
(* Which of several workers polls the bot: the file with the pid of the    *)
(* one that does (bootstrap/runtime.py, start_bale).  The operating system *)
(* gives the pid of a process that has ended to any new one.               *)
(***************************************************************************)
EXTENDS Naturals, FiniteSets

CONSTANTS
  Workers,
  Pids,
  Nobody,        \* no pid: no worker process, an empty file or none
  MaxStarts      \* bound: processes started

VARIABLES
  pid,       \* the pid of each worker
  pc,        \* how far its boot is
  file,      \* the pid in .bale_poll.lock
  others,    \* pids of other programs
  starts     \* number of processes started

vars == <<pid, pc, file, others, starts>>

Init ==
  /\ pid = [w \in Workers |-> Nobody]
  /\ pc = [w \in Workers |-> "down"]
  /\ file = Nobody
  /\ others = {}
  /\ starts = 0

Alive == (others \cup {pid[w] : w \in Workers}) \ {Nobody}

NewProcess == starts < MaxStarts /\ starts' = starts + 1

(* Without the licence for it, or when it is switched off, it stays off.   *)
start_bale(w) ==
  /\ pc[w] = "down"
  /\ NewProcess
  /\ \E p \in Pids \ Alive : pid' = [pid EXCEPT ![w] = p]
  /\ pc' = [pc EXCEPT ![w] = "boot"]
  /\ UNCHANGED <<file, others>>

NotLicensed(w) ==
  /\ pc[w] = "boot"
  /\ pc' = [pc EXCEPT ![w] = "off"]
  /\ UNCHANGED <<pid, file, others, starts>>

(* _acquire_single_instance(): the owner is looked at, then the file is    *)
(* emptied and written.                                                    *)
LookAtOwner(w) ==
  /\ pc[w] = "boot"
  /\ pc' = [pc EXCEPT ![w] = IF file \in Alive THEN "off" ELSE "open"]
  /\ UNCHANGED <<pid, file, others, starts>>

Truncate(w) ==
  /\ pc[w] = "open"
  /\ file' = Nobody
  /\ pc' = [pc EXCEPT ![w] = "write"]
  /\ UNCHANGED <<pid, others, starts>>

WriteOwner(w) ==
  /\ pc[w] = "write"
  /\ file' = pid[w]
  /\ pc' = [pc EXCEPT ![w] = "polling"]
  /\ UNCHANGED <<pid, others, starts>>

(* A process ends; the file stays.                                         *)
Exit(w) ==
  /\ pc[w] # "down"
  /\ pc' = [pc EXCEPT ![w] = "down"]
  /\ pid' = [pid EXCEPT ![w] = Nobody]
  /\ UNCHANGED <<file, others, starts>>

OtherProgram(p) ==
  /\ NewProcess
  /\ p \notin Alive
  /\ others' = others \cup {p}
  /\ UNCHANGED <<pid, pc, file>>

Next ==
  \/ \E w \in Workers :
       start_bale(w) \/ NotLicensed(w) \/ LookAtOwner(w) \/ Truncate(w) \/ WriteOwner(w) \/ Exit(w)
  \/ \E p \in Pids : OtherProgram(p)

Spec == Init /\ [][Next]_vars

-----------------------------------------------------------------------------
(***************************************************************************)
(* Properties.                                                             *)
(***************************************************************************)

Booting == {w \in Workers : pc[w] \in {"boot", "open", "write"}}
Polling == {w \in Workers : pc[w] = "polling"}

(* One worker polls, and the file names it, whatever pids are used again   *)
(* (to be asked where no two boots have overlapped: the file is looked at  *)
(* first and written later).                                               *)
OnePoller ==
  /\ Cardinality(Polling) <= 1
  /\ \A w \in Polling : file = pid[w]
=============================================================================
