------------------------------- MODULE MCServer -------------------------------
(***************************************************************************)
(* One instance for TLC of what runs and keeps the program on its server:  *)
(* Startup, which is extended, Updater and Backup.  They do not meet; each *)
(* has a specification of its own here, in which the variables of the      *)
(* other two stay out of use.                                              *)
(***************************************************************************)
EXTENDS Startup, TLC

CONSTANTS
  Files, MaxVersion, Ships, Dropped, MaxFaults, MaxUploads, \* Updater
  Commits, Torn, MaxKeep, Interval                          \* Backup

VARIABLES
  disk, offer, required, job, faults, uploads, blurred,
  db, before, stale, folder, errand, auto, wake, clicks, made, unguarded, discarded

Setup == INSTANCE Updater
Store == INSTANCE Backup WITH job <- errand, events <- clicks

(* Versions count from 1, a manifest names program files only.             *)
PackagesOK ==
  /\ MaxVersion \in Nat \ {0} /\ MaxFaults \in Nat /\ MaxUploads \in Nat
  /\ Ships \subseteq Setup!Versions
  /\ Dropped \in [Setup!Versions -> SUBSET Files]
  /\ "VERSION" \notin Files

(* One package at least is kept, and a whole database is not a torn one.   *)
StoreOK ==
  /\ {MaxKeep, Interval} \subseteq Nat \ {0} /\ MaxEvents \in Nat
  /\ IsFiniteSet(Commits) /\ \A C \in SUBSET Commits : C # Torn

ASSUME ServerOK == PackagesOK /\ StoreOK

Unused == "unused"
BootOff ==
  /\ pc = Unused /\ seen = Unused /\ lock = Unused /\ schema = Unused
  /\ roles = Unused /\ grants = Unused /\ users = Unused /\ rows = Unused /\ ini = Unused
  /\ wizard = Unused /\ missed = Unused /\ events = Unused
InstallOff ==
  /\ disk = Unused /\ offer = Unused /\ required = Unused /\ job = Unused
  /\ faults = Unused /\ uploads = Unused /\ blurred = Unused
StoreOff ==
  /\ db = Unused /\ before = Unused /\ stale = Unused /\ folder = Unused /\ errand = Unused
  /\ auto = Unused /\ wake = Unused /\ clicks = Unused
  /\ made = Unused /\ unguarded = Unused /\ discarded = Unused

setup == <<disk, offer, required, job, faults, uploads, blurred>>
store == <<db, before, stale, folder, errand, auto, wake, clicks, made, unguarded, discarded>>
servervars == <<vars, setup, store>>

BootInit == Init /\ InstallOff /\ StoreOff
BootNext == Next /\ UNCHANGED <<setup, store>>
BootSpec == BootInit /\ [][BootNext]_servervars /\ Fairness

InstallInit == Setup!Init /\ BootOff /\ StoreOff
InstallNext == Setup!Next /\ UNCHANGED <<vars, store>>
InstallSpec == InstallInit /\ [][InstallNext]_servervars /\ Setup!Fairness

StoreInit == Store!Init /\ BootOff /\ InstallOff
StoreNext == Store!Next /\ UNCHANGED <<vars, setup>>
StoreSpec == StoreInit /\ [][StoreNext]_servervars /\ Store!Fairness

-----------------------------------------------------------------------------
(* StampNotAhead, RollbackRestores and UpdateArrives of Updater.           *)
StampNotAhead == Setup!StampNotAhead
RollbackRestores == Setup!RollbackRestores
UpdateArrives == Setup!UpdateArrives

(* NoCommitLost and BackedUp of Backup.                                    *)
NoCommitLost == Store!NoCommitLost
BackedUp == Store!BackedUp

-----------------------------------------------------------------------------
(* Two workers, as gunicorn.conf.py starts them on SQLite; three versions, *)
(* of which the second ships a VERSION file and the third deletes a file.  *)
CONSTANT f2
ShipsOne == {2}
DroppedOne == [v \in 1..3 |-> IF v = 3 THEN {f2} ELSE {}]
=============================================================================
