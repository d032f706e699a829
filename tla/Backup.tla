--------------------------------- MODULE Backup ---------------------------------
(***************************************************************************)
(* Packages of the database, their hourly creation, their number and the   *)
(* restoration of one: utils/backup_service.py, routes/backup_center.py,   *)
(* the scheduler of bootstrap/runtime.py and the bot's backup command.     *)
(*                                                                         *)
(* The content of a database is the set of commits in it.  A package is    *)
(* written in its place, so that an interrupted creation leaves a partial  *)
(* one.  Restoring copies a package over the database while the program    *)
(* runs, after a safety package of what is there.  Connections of other    *)
(* requests and workers stay open over it, on a file or a -wal that is no  *)
(* longer the database.  Uploaded files and the transfer to the bot are    *)
(* left out.  The older pages of routes/features.py work on the same       *)
(* folder with rules of their own.                                         *)
(***************************************************************************)
EXTENDS Integers, Sequences, FiniteSets

CONSTANTS
  Commits,     \* transactions of the users
  Torn,        \* a database file half written over
  MaxKeep,     \* max_backups of the settings
  Interval,    \* backup_interval_hours
  MaxEvents    \* bound: commits, clicks, write-backs and crashes together

VARIABLES
  db,       \* the commits in the database, or Torn
  before,   \* the copy db.before_restore of the older page
  stale,    \* connections from before a replacement may be open, until the
            \* process is started again
  folder,   \* the packages, in the order they were begun
  job,      \* job[s]: what the scheduler and an administrator are doing
  auto, wake,  \* auto_backup; the hourly job has to run
  events,
  made,        \* history: commits so far
  unguarded,   \* history: commits during a restoration or through a stale
               \* connection, and those such a connection wrote over
  discarded    \* history: commits in packages deleted by hand, and in the
               \* copies that a later one of the older page replaced

setup == <<auto, wake, events>>
history == <<made, unguarded, discarded>>
vars == <<db, before, stale, folder, job, setup, history>>

Sessions == {"scheduler", "admin"}
Idle == [at |-> "idle"]
NoWriter == "nobody"
Kinds == {"imported", "full", "database", "old", "safety"}
Job == [at : {"pack", "prune", "replace", "copy", "swap"}, next : {"idle", "prune", "replace"},
        from : SUBSET Commits, spoilt : BOOLEAN]
Package == [kind : Kinds, content : SUBSET Commits, whole : BOOLEAN,
            by : Sessions \cup {NoWriter}, age : 0..Interval]

Init ==
  /\ db = {} /\ before = {} /\ stale = FALSE /\ folder = <<>>
  /\ job = [s \in Sessions |-> Idle]
  /\ auto = TRUE /\ wake = FALSE /\ events = 0
  /\ made = {} /\ unguarded = {} /\ discarded = {}

Event == events < MaxEvents /\ events' = events + 1

-----------------------------------------------------------------------------
(* list_backups() sorts by name, and a name begins with the kind.          *)

Rank(kind) ==
  CASE kind = "imported" -> 4 [] kind = "full" -> 3 [] kind = "database" -> 2
    [] kind = "old" -> 1 [] kind = "safety" -> 0

Ordinary == {i \in DOMAIN folder : folder[i].kind # "safety"}

ListedBefore(i, j) ==
  \/ Rank(folder[i].kind) > Rank(folder[j].kind)
  \/ folder[i].kind = folder[j].kind /\ i > j

Listed(i, S) == Cardinality({j \in S : ListedBefore(j, i)})

(* What the packages in S hold.                                            *)
Holds(S) == UNION {folder[i].content : i \in {j \in S : folder[j].whole}}

(* The k-th of the places in K.                                            *)
Nth(K, k) == CHOOSE i \in K : Cardinality({j \in K : j <= i}) = k

(* The packages at the places in K, in their order.                        *)
Kept == [K \in SUBSET DOMAIN folder |-> [k \in 1..Cardinality(K) |-> folder[Nth(K, k)]]]

Without(S) == Kept[DOMAIN folder \ S]

(* Fault: the safety packages are counted and pruned with the others.      *)
SurplusOfAll ==
  {i \in DOMAIN folder : Listed(i, DOMAIN folder) >= MaxKeep}

(* Fault: the first packages of the list are removed.                      *)
SurplusFirst ==
  {i \in Ordinary : Cardinality(Ordinary) - Listed(i, Ordinary) > MaxKeep}

(* What prune_backups() removes.                                           *)
Surplus == {i \in Ordinary : Listed(i, Ordinary) >= MaxKeep}

Pruned == Without(Surplus)

-----------------------------------------------------------------------------
(* create_backup().                                                        *)

Leave(s) == job' = [job EXCEPT ![s] = Idle]

Copying == {s \in Sessions : job[s].at = "copy"}

(* What a copy of the database may hold: nothing of a torn one, and while  *)
(* it is written over it may still be empty.                               *)
Readable ==
  IF db # Torn THEN {db} ELSE IF Copying # {} THEN {{}} ELSE {}

(* The copy is made and the package is begun in packages, the folder.      *)
Begin(s, kind, next, from, packages) ==
  /\ job' = [job EXCEPT ![s] =
               [at |-> "pack", next |-> next, from |-> from, spoilt |-> FALSE]]
  /\ \E c \in Readable :
       folder' = Append(packages, [kind |-> kind, content |-> c, whole |-> FALSE,
                                   by |-> s, age |-> 0])

Own(s) == {i \in DOMAIN folder : folder[i].by = s}

(* The package is complete, unless somebody has removed it meanwhile.      *)
Packed(s) ==
  /\ job[s].at = "pack"
  /\ IF Own(s) = {}
     THEN Leave(s)
     ELSE IF job[s].next = "idle" THEN Leave(s)
     ELSE job' = [job EXCEPT ![s].at = job[s].next]
  /\ folder' = [i \in DOMAIN folder |->
                  IF i \in Own(s) THEN [folder[i] EXCEPT !.whole = TRUE, !.by = NoWriter]
                  ELSE folder[i]]
  /\ UNCHANGED <<db, before, stale, setup, history>>

(* An error: the partial package goes, except that of the older page.      *)
CreateFails(s) ==
  /\ job[s].at = "pack" /\ Leave(s)
  /\ LET left == Without({i \in Own(s) : folder[i].kind # "old"})
     IN folder' = [i \in DOMAIN left |->
                     [left[i] EXCEPT !.by = IF @ = s THEN NoWriter ELSE @]]
  /\ UNCHANGED <<db, before, stale, setup, history>>

-----------------------------------------------------------------------------
(* run_scheduled_backup(), once an hour.                                   *)

Hour ==
  /\ wake' = TRUE
  /\ UNCHANGED <<db, before, stale, job, auto, events, history>>
  /\ folder' = [i \in DOMAIN folder |->
                  [folder[i] EXCEPT !.age = IF @ < Interval THEN @ + 1 ELSE @]]

(* latest_backup_time() is that of the first package of the list.          *)
Due == \A i \in Ordinary : Listed(i, Ordinary) = 0 => folder[i].age >= Interval

ScheduledRun ==
  /\ wake /\ wake' = FALSE
  /\ job["scheduler"] = Idle
  /\ IF auto /\ Due /\ Readable # {}
     THEN Begin("scheduler", "full", "prune", {}, folder)
     ELSE UNCHANGED <<job, folder>>
  /\ UNCHANGED <<db, before, stale, auto, events, history>>

(* Then a package for the bot, if the settings ask for one.                *)
ScheduledPrune ==
  /\ job["scheduler"].at = "prune"
  /\ \/ Leave("scheduler") /\ folder' = Pruned
     \/ Begin("scheduler", "database", "idle", {}, Pruned)
  /\ UNCHANGED <<db, before, stale, setup, history>>

-----------------------------------------------------------------------------
(* The pages of backup_center.py and the bot's command.                    *)

Click == Event /\ job["admin"] = Idle /\ UNCHANGED <<auto, wake>>

Create(kind) ==
  /\ Click
  /\ Begin("admin", kind, "idle", {}, folder)
  /\ UNCHANGED <<db, before, stale, history>>

(* import_backup(): a package from elsewhere.                              *)
Import ==
  /\ Click
  /\ folder' = Append(folder, [kind |-> "imported", content |-> {}, whole |-> TRUE,
                               by |-> NoWriter, age |-> 0])
  /\ UNCHANGED <<db, before, stale, job, history>>

Delete(i) ==
  /\ Click
  /\ folder' = Without({i})
  /\ discarded' = discarded \cup Holds({i})
  /\ UNCHANGED <<db, before, stale, job, made, unguarded>>

PruneByHand ==
  /\ Click
  /\ folder' = Pruned
  /\ UNCHANGED <<db, before, stale, job, history>>

SaveSettings ==
  /\ Event
  /\ auto' = ~auto
  /\ UNCHANGED <<db, before, stale, folder, job, wake, history>>

-----------------------------------------------------------------------------
(* The older pages.                                                        *)

OldCreate ==
  /\ Click
  /\ Begin("admin", "old", "prune", {}, folder)
  /\ UNCHANGED <<db, before, stale, history>>

(* Names of this kind sort before the others: the package that was just    *)
(* made is the first to go.                                                *)
OldPrune ==
  /\ job["admin"].at = "prune"
  /\ folder' = Pruned
  /\ Leave("admin")
  /\ UNCHANGED <<db, before, stale, setup, history>>

(* The safety copy has one place, and the one before is gone.              *)
OldRestore(i) ==
  /\ Click
  /\ i \in Ordinary /\ folder[i].whole
  /\ before' \in Readable
  /\ discarded' = discarded \cup before
  /\ job' = [job EXCEPT !["admin"] =
               [at |-> "swap", next |-> "idle",
                from |-> folder[i].content, spoilt |-> FALSE]]
  /\ UNCHANGED <<db, stale, folder, made, unguarded>>

(* The new file takes the name of the old one, whose -wal may be applied   *)
(* to it; connections that are open keep the old one.                      *)
Swap ==
  /\ job["admin"].at = "swap"
  /\ db' \in {job["admin"].from, Torn}
  /\ stale' = TRUE
  /\ Leave("admin")
  /\ UNCHANGED <<before, folder, setup, history>>

-----------------------------------------------------------------------------
(* restore_backup().                                                       *)

(* A partial package is refused; a whole one is unpacked before anything   *)
(* else, and a safety package is made first.                               *)
Restore(i) ==
  /\ Click
  /\ folder[i].whole
  /\ Begin("admin", "safety", "replace", folder[i].content, folder)
  /\ UNCHANGED <<db, before, stale, history>>

(* The -wal file goes, under connections that are open, and the copy       *)
(* begins.                                                                 *)
BeginReplace(s) ==
  /\ job[s].at = "replace"
  /\ db' = Torn
  /\ stale' = TRUE
  /\ job' = [job EXCEPT ![s].at = "copy"]
  /\ UNCHANGED <<before, folder, setup, history>>

(* A file beside the database is locked: what the -wal held may be gone.   *)
DropFails(s) ==
  /\ job[s].at = "replace" /\ Leave(s)
  /\ db' \in IF db = Torn THEN {Torn} ELSE SUBSET db
  /\ stale' = TRUE
  /\ UNCHANGED <<before, folder, setup, history>>

(* A commit of another connection meanwhile may spoil the copy.            *)
EndReplace(s) ==
  /\ job[s].at = "copy"
  /\ db' \in {job[s].from} \cup (IF job[s].spoilt THEN {Torn} ELSE {})
  /\ Leave(s)
  /\ UNCHANGED <<before, stale, folder, setup, history>>

ReplaceFails(s) ==
  /\ job[s].at = "copy"
  /\ db' \in {Torn, {}}
  /\ Leave(s)
  /\ UNCHANGED <<before, stale, folder, setup, history>>

-----------------------------------------------------------------------------

(* A restoration past the copy for its safety package.                     *)
Restoring(s) ==
  \/ job[s].at \in {"replace", "copy", "swap"}
  \/ job[s].at = "pack" /\ job[s].next = "replace"

(* A commit, into the database, into one that is being copied over, or     *)
(* through a stale connection, where it is lost.                           *)
Commit(c) ==
  /\ Event
  /\ c \notin made /\ made' = made \cup {c}
  /\ \/ /\ db # Torn /\ db' = db \cup {c} /\ UNCHANGED job
        /\ unguarded' = unguarded \cup (IF \E s \in Sessions : Restoring(s) THEN {c} ELSE {})
     \/ /\ Copying # {} /\ UNCHANGED db
        /\ job' = [s \in Sessions |->
                     IF s \in Copying THEN [job[s] EXCEPT !.spoilt = TRUE] ELSE job[s]]
        /\ unguarded' = unguarded \cup {c}
     \/ stale /\ unguarded' = unguarded \cup {c} /\ UNCHANGED <<db, job>>
  /\ UNCHANGED <<before, stale, folder, auto, wake, discarded>>

(* A stale connection writes back what its -wal holds, over the present    *)
(* file.                                                                   *)
WriteBack ==
  /\ Event
  /\ stale /\ db # Torn /\ db' = Torn
  /\ unguarded' = unguarded \cup db
  /\ UNCHANGED <<before, stale, folder, job, auto, wake, made, discarded>>

(* The process dies.  A file that has just been cut to nothing is an empty *)
(* database, one half written is none.                                     *)
Crash ==
  /\ Event
  /\ db' \in IF Copying = {} THEN {db} ELSE {Torn, {}}
  /\ folder' = [i \in DOMAIN folder |-> [folder[i] EXCEPT !.by = NoWriter]]
  /\ job' = [s \in Sessions |-> Idle]
  /\ wake' = FALSE /\ stale' = FALSE
  /\ UNCHANGED <<before, auto, history>>

Next ==
  \/ Hour \/ ScheduledRun \/ ScheduledPrune \/ SaveSettings \/ Crash
  \/ Import \/ PruneByHand \/ OldCreate \/ OldPrune \/ Swap
  \/ \E kind \in {"full", "database"} : Create(kind)
  \/ \E i \in DOMAIN folder : Delete(i) \/ Restore(i) \/ OldRestore(i)
  \/ \E s \in Sessions :
       \/ Packed(s) \/ CreateFails(s)
       \/ BeginReplace(s) \/ DropFails(s) \/ EndReplace(s) \/ ReplaceFails(s)
  \/ WriteBack
  \/ \E c \in Commits : Commit(c)

(* What the scheduler began goes on, one step at a time.                   *)
SchedulerGoesOn ==
  Packed("scheduler") \/ CreateFails("scheduler") \/ ScheduledRun \/ ScheduledPrune

(* The scheduler runs every hour and what it began comes to its end; not   *)
(* every creation fails.  Nothing is asked of the administrator.           *)
Fairness ==
  /\ WF_vars(Hour) /\ WF_vars(SchedulerGoesOn)
  /\ SF_vars(Packed("scheduler"))

Spec == Init /\ [][Next]_vars /\ Fairness

-----------------------------------------------------------------------------
(* Properties.                                                             *)

TypeOK ==
  /\ db \in {Torn} \cup SUBSET Commits /\ before \in SUBSET Commits
  /\ folder \in Seq(Package)
  /\ job \in [Sessions -> {Idle} \cup Job]
  /\ {auto, wake, stale} \subseteq BOOLEAN /\ events \in 0..MaxEvents
  /\ {made, unguarded, discarded} \subseteq SUBSET Commits

(* What was committed can be had again: it is in the database or in a      *)
(* whole package, however restorations, prunings and crashes follow each   *)
(* other.  Aside are commits made while a restoration runs, commits lost   *)
(* to a connection that outlived one (the older page asks for a restart),  *)
(* and packages that were deleted by hand.                                 *)
NoCommitLost ==
  made \subseteq unguarded \cup discarded \cup Holds(DOMAIN folder)
                   \cup before \cup (IF db = Torn THEN {} ELSE db)

(* Imported packages, and those an interruption left behind, take places   *)
(* among the max_backups that are kept.                                    *)
Stray ==
  {i \in Ordinary :
     folder[i].kind = "imported" \/ (~folder[i].whole /\ folder[i].by = NoWriter)}

(* While the hourly job is on and strays do not fill the places, a whole   *)
(* package of data that no longer changes is there in the end, and stays.  *)
BackedUp ==
  \A C \in SUBSET Commits :
    <>[](db = C /\ auto /\ Cardinality(Stray) < MaxKeep) =>
      <>[](\E i \in DOMAIN folder : folder[i].whole /\ folder[i].content = C)
=============================================================================
