------------------------------- MODULE Updater -------------------------------
(***************************************************************************)
(* The installation of a new version over the program's own files:         *)
(* license_updater.py, called by the startup worker of license_client.py   *)
(* and by the update pages of routes/license.py.                           *)
(*                                                                         *)
(* An installation backs up the files of its plan, copies the package over *)
(* them one by one and writes VERSION last.  An error rolls the files      *)
(* back; a crash leaves them as they are, and no code looks for them at    *)
(* the next start.  _apply_lock lets one installation run in a process.    *)
(* A file is known by the version it comes from.                           *)
(***************************************************************************)
EXTENDS Integers

CONSTANTS
  Files,        \* program files that packages replace
  MaxVersion,   \* bound: versions 1..MaxVersion; 1 is installed first
  Ships,        \* versions whose package holds a VERSION file of its own
  Dropped,      \* Dropped[v]: files the manifest of v deletes
  MaxFaults,    \* bound: crashes and failing copies in one behaviour
  MaxUploads    \* bound: packages installed by hand

Versions == 1..MaxVersion

VARIABLES
  disk,      \* version each file, and VERSION, comes from
  offer,     \* newest version at the update server
  required,  \* _required_update_message is set, every page is closed
  job,       \* the installation under way
  faults, uploads,
  blurred    \* for the properties: see Blur

vars == <<disk, offer, required, job, faults, uploads, blurred>>

Absent == 0
Broken == -1
Paths == Files \cup {"VERSION"}
Content == Versions \cup {Absent, Broken}
Idle == [at |-> "idle"]
Stages == {"copy", "rollback"}
Job == [at : Stages, version : Versions, local : BOOLEAN,
        left : SUBSET Paths, saved : UNION {[D -> Content] : D \in SUBSET Paths},
        before : [Paths -> Content], whole : BOOLEAN]

(* current_version(): the first version when VERSION cannot be read.       *)
Stamp == IF disk["VERSION"] \in Versions THEN disk["VERSION"] ELSE 1

(* The paths a package replaces, and what it makes of one.                 *)
Plan(v) == Files \cup (IF v \in Ships THEN {"VERSION"} ELSE {})

Brought(v, f) == IF f \in Dropped[v] THEN Absent ELSE v

Init ==
  /\ disk = [f \in Paths |-> IF f = "VERSION" THEN 1 ELSE Brought(1, f)]
  /\ offer = 1
  /\ required = FALSE
  /\ job = Idle
  /\ faults = 0 /\ uploads = 0
  /\ blurred = FALSE

(* An installation that stops half way has blurred what VERSION says when  *)
(* it was to go back to an older version or had copied a VERSION already.  *)
Blur(j) ==
  blurred \/ j.version < j.before["VERSION"] \/ j.version \in Ships

Fault == faults < MaxFaults /\ faults' = faults + 1

-----------------------------------------------------------------------------
(* check_for_update(), download_and_verify() and the plan.                 *)

Publish ==
  /\ offer < MaxVersion /\ offer' = offer + 1
  /\ UNCHANGED <<disk, required, job, faults, uploads, blurred>>

(* Fault: the version after the installed one does not count as new.       *)
IsMuchNewer(v) == v > Stamp + 1

IsNewer(v) == v > Stamp

NothingNew ==
  /\ job = Idle
  /\ ~IsNewer(offer)
  /\ required' = FALSE
  /\ UNCHANGED <<disk, offer, job, faults, uploads, blurred>>

(* Fault: files that do not exist yet are left out of the backup, so that  *)
(* a roll back does not delete them.                                       *)
BackupExisting(plan) ==
  [f \in {g \in plan : disk[g] # Absent} |-> disk[f]]

(* _backup_targets(): a path with no file is noted as such.                *)
Backup(plan) == [f \in plan |-> disk[f]]

Begin(v, local) ==
  job' = [at |-> "copy", version |-> v, local |-> local, left |-> Plan(v),
          saved |-> Backup(Plan(v)), before |-> disk, whole |-> TRUE]

BeginUpdate ==
  /\ job = Idle
  /\ IsNewer(offer)
  /\ Begin(offer, FALSE)
  /\ UNCHANGED <<disk, offer, required, faults, uploads, blurred>>

(* The download fails, or does not have the signed hash.  The server says  *)
(* of an update whether it is required.                                    *)
DownloadFails ==
  /\ job = Idle
  /\ IsNewer(offer)
  /\ required' \in {required, TRUE}
  /\ UNCHANGED <<disk, offer, job, faults, uploads, blurred>>

(* apply_local_package(): the package of any version, chosen by hand.      *)
BeginLocal(v) ==
  /\ job = Idle
  /\ uploads < MaxUploads /\ uploads' = uploads + 1
  /\ Begin(v, TRUE)
  /\ UNCHANGED <<disk, offer, required, faults, blurred>>

-----------------------------------------------------------------------------
(* apply_update().                                                         *)

(* One file of _apply_plan().                                              *)
CopyFile(f) ==
  /\ job.at = "copy" /\ f \in job.left
  /\ disk' = [disk EXCEPT ![f] = Brought(job.version, f)]
  /\ job' = [job EXCEPT !.left = @ \ {f}]
  /\ UNCHANGED <<offer, required, faults, uploads, blurred>>

(* Copying a file fails, half way perhaps.                                 *)
CopyFails(f) ==
  /\ job.at = "copy" /\ f \in job.left
  /\ \/ UNCHANGED disk
     \/ f \notin Dropped[job.version] /\ disk' = [disk EXCEPT ![f] = Broken]
  /\ job' = [job EXCEPT !.at = "rollback", !.left = DOMAIN job.saved]
  /\ Fault
  /\ UNCHANGED <<offer, required, uploads, blurred>>

(* Fault: VERSION is written as soon as the package is open.               *)
WriteVersionEarly ==
  /\ job.at = "copy" /\ job.left = Plan(job.version)
  /\ disk' = [disk EXCEPT !["VERSION"] = job.version]
  /\ UNCHANGED <<offer, required, job, faults, uploads, blurred>>

(* VERSION is written when every file is in place.                         *)
WriteVersion ==
  /\ job.at = "copy" /\ job.left = {}
  /\ disk' = [disk EXCEPT !["VERSION"] = job.version]
  /\ required' = FALSE
  /\ job' = Idle
  /\ UNCHANGED <<offer, faults, uploads, blurred>>

(* A package installed by hand need not say its version.                   *)
FinishUnnamed ==
  /\ job.at = "copy" /\ job.left = {} /\ job.local
  /\ required' = FALSE
  /\ blurred' = Blur(job)
  /\ job' = Idle
  /\ UNCHANGED <<disk, offer, faults, uploads>>

(* Writing VERSION fails: the files stay, the installation has failed.     *)
VersionFails ==
  /\ job.at = "copy" /\ job.left = {}
  /\ Fault
  /\ required' \in {required, required \/ ~job.local}
  /\ blurred' = Blur(job)
  /\ job' = Idle
  /\ UNCHANGED <<disk, offer, uploads>>

(* One file of _rollback(); an error is logged and the next one is tried.  *)
RollFile(f) ==
  /\ job.at = "rollback" /\ f \in job.left
  /\ \/ /\ disk' = [disk EXCEPT ![f] = job.saved[f]]
        /\ job' = [job EXCEPT !.left = @ \ {f}]
     \/ /\ job' = [job EXCEPT !.left = @ \ {f}, !.whole = FALSE]
        /\ UNCHANGED disk
  /\ UNCHANGED <<offer, required, faults, uploads, blurred>>

EndRollback ==
  /\ job.at = "rollback" /\ job.left = {}
  /\ required' \in {required, required \/ ~job.local}
  /\ blurred' = (IF job.whole THEN blurred ELSE Blur(job))
  /\ job' = Idle
  /\ UNCHANGED <<disk, offer, faults, uploads>>

(* The process dies, while it copies a file perhaps.                       *)
Crash ==
  /\ Fault
  /\ required' = FALSE
  /\ job' = Idle
  /\ \/ UNCHANGED disk
     \/ \E f \in Paths :
          /\ job # Idle /\ f \in job.left
          /\ disk' = [disk EXCEPT ![f] = Broken]
     \/ /\ job.at = "copy" /\ job.left = {}
        /\ disk' = [disk EXCEPT !["VERSION"] = Broken]
  /\ blurred' = (IF job = Idle THEN blurred ELSE Blur(job))
  /\ UNCHANGED <<offer, uploads>>

Install ==
  \/ BeginUpdate \/ WriteVersion \/ FinishUnnamed \/ VersionFails \/ EndRollback
  \/ \E f \in Paths : CopyFile(f) \/ CopyFails(f) \/ RollFile(f)

Next ==
  \/ Publish \/ NothingNew \/ DownloadFails \/ Install \/ Crash
  \/ \E v \in Versions : BeginLocal(v)

(* The startup worker of every start asks for an update, and an            *)
(* installation that runs comes to its end; of endless downloads one works.*)
Fairness == WF_vars(Install) /\ SF_vars(BeginUpdate)

Spec == Init /\ [][Next]_vars /\ Fairness

-----------------------------------------------------------------------------
(* Properties.                                                             *)

(* Every variable keeps its type.                                          *)
TypeOK ==
  /\ disk \in [Paths -> Content]
  /\ offer \in Versions
  /\ required \in BOOLEAN /\ blurred \in BOOLEAN
  /\ job \in {Idle} \cup Job
  /\ faults \in 0..MaxFaults /\ uploads \in 0..MaxUploads

(* VERSION never promises more than the files hold: whatever crashes and   *)
(* errors came, no file that is in one piece is older than VERSION says,   *)
(* so that the next check still finds the update missing.  Installations   *)
(* under way aside, and those that Blur names.                             *)
StampNotAhead ==
  job = Idle /\ ~blurred =>
    \A f \in Files : disk[f] \in Versions => disk[f] >= Stamp

(* With every file restored, a failed installation has left no trace.      *)
RollbackRestores ==
  [][job.at = "rollback" /\ job.left = {} /\ job.whole /\ job' = Idle
       => disk' = job.before]_vars

(* A version that stays on offer is on the disk in the end, file by file,  *)
(* after crashes and failed attempts too, as long as nothing blurred what  *)
(* VERSION says.                                                           *)
UpdateArrives ==
  \A v \in Versions :
    <>[](offer = v /\ uploads = 0) =>
      <>(blurred \/ \A f \in Files : disk[f] = Brought(v, f))
=============================================================================
