-------------------------------- MODULE Startup --------------------------------
(***************************************************************************)
(* Worker processes that start over one database: bootstrap/schema.py and  *)
(* defaults.py under the lock of utils/file_lock.py, the administrator of  *)
(* the installer (utils/installer_config.py), the completion of the        *)
(* roles' permissions (utils/access_policy.py), and the pages of           *)
(* routes/permissions.py and routes/setup.py that change the same tables   *)
(* while another worker starts.                                            *)
(*                                                                         *)
(* A table counts as empty or filled; of the permissions one module is     *)
(* kept, of the accounts what decides about administrators.                *)
(***************************************************************************)
EXTENDS Integers, FiniteSets

CONSTANTS
  Workers,     \* processes of gunicorn
  Nobody,      \* not a worker
  Roles,       \* roles that are not administrators
  Default,     \* the role among them that a new installation has
  Usernames,   \* account names
  Factory,     \* the name of the default administrator
  Owner,       \* the name that config.ini asks for
  MaxEvents    \* bound: crashes, failures and administration together

ASSUME ConstantsOK ==
  /\ Nobody \notin Workers
  /\ Default \in Roles
  /\ {Factory, Owner} \subseteq Usernames
  /\ MaxEvents \in Nat

VARIABLES
  pc,       \* pc[w]: how far worker w has come
  seen,     \* seen[w]: what it found when it last looked
  lock,     \* the holder of .schema_init.lock
  schema,   \* "none", that of an older version, or "new"
  roles, grants,    \* roles in the table; grants[r]: their actions
  users,            \* users[u]: the account
  rows,             \* rows[t]: how many base rows there are
  ini,              \* the administrator of config.ini
  wizard,           \* a request of the wizard is under way
  missed,           \* history: what a worker went on without
  events

access == <<roles, grants, users>>
vars == <<pc, seen, lock, schema, access, rows, ini, wizard, missed, events>>

Actions == {"view", "edit"}    \* of BACKFILL_ACTIONS
Tables == {"roles", "settings", "branch"}
Needed == {"lock", "config.ini"}
NoTables == <<"no tables">>
Absent == [is |-> "absent"]
Account == [is : {"there"}, factory : BOOLEAN, admin : BOOLEAN, active : BOOLEAN]
Administrator(factory) ==
  [is |-> "there", factory |-> factory, admin |-> TRUE, active |-> TRUE]

Existing == {u \in Usernames : users[u] # Absent}

(* The order of _initialize_with_context() and create_default_data().      *)
Stages == {"down", "wait", "look", "create", "patch", "count roles",
           "roles", "grants", "count users", "read ini", "admin",
           "count settings", "settings", "count branch", "branch",
           "read grants", "backfill", "installer", "install", "consume",
           "finish", "up"}

(* A new installation, or an older version of the program with its         *)
(* administrator; the installer may have left an administrator in          *)
(* config.ini.  One whose password has a percent sign reads as none, and   *)
(* counts as none here: nobody makes the account or wipes the password.    *)
Init ==
  /\ pc = [w \in Workers |-> "down"]
  /\ seen = [w \in Workers |-> {}]
  /\ lock = Nobody
  /\ ini \in {"none", "pending"}
  /\ wizard = FALSE /\ missed = {} /\ events = 0
  /\ \/ /\ schema = "none" /\ roles = {}
        /\ grants = [r \in Roles |-> {}]
        /\ users = [u \in Usernames |-> Absent]
        /\ rows = [t \in Tables |-> 0]
     \/ /\ schema = "old" /\ roles = {Default}
        /\ grants = [r \in Roles |-> IF r = Default THEN {"view"} ELSE {}]
        /\ users = [u \in Usernames |->
                      IF u = Factory THEN Administrator(FALSE) ELSE Absent]
        /\ rows = [t \in Tables |-> 1]

Event == events < MaxEvents /\ events' = events + 1

-----------------------------------------------------------------------------
(* The lock.  It goes with its holder.                                     *)

Released(w) == IF lock = w THEN Nobody ELSE lock

At(w, stage) == pc[w] = stage
Goto(w, stage) == pc' = [pc EXCEPT ![w] = stage]
Sees(w, x) == seen' = [seen EXCEPT ![w] = x]
Forgets(w) == Sees(w, {})

(* The worker ends: a crash, or an error that the boot does not catch.     *)
Dies(w) ==
  /\ Goto(w, "down") /\ Forgets(w)
  /\ lock' = Released(w)

Start(w) ==
  /\ At(w, "down") /\ Goto(w, "wait")
  /\ UNCHANGED <<seen, lock, schema, access, rows, ini, wizard, missed, events>>

(* Fault: the lock is taken to be free.                                    *)
AcquireAnyway(w) ==
  /\ At(w, "wait")
  /\ lock' = w /\ Goto(w, "look")
  /\ UNCHANGED <<seen, schema, access, rows, ini, wizard, missed, events>>

Acquire(w) ==
  /\ At(w, "wait")
  /\ lock = Nobody /\ lock' = w /\ Goto(w, "look")
  /\ UNCHANGED <<seen, schema, access, rows, ini, wizard, missed, events>>

(* The lock file cannot be opened, or is not free within a minute.         *)
GoOnWithout(w) ==
  /\ At(w, "wait") /\ Event
  /\ missed' = missed \cup {"lock"} /\ Goto(w, "look")
  /\ UNCHANGED <<seen, lock, schema, access, rows, ini, wizard>>

Crash(w) ==
  /\ ~At(w, "down") /\ Event
  /\ Dies(w)
  /\ UNCHANGED <<schema, access, rows, ini, wizard, missed>>

-----------------------------------------------------------------------------
(* The schema.                                                             *)

LookAtSchema(w) ==
  /\ At(w, "look") /\ Goto(w, "create")
  /\ Sees(w, IF schema = "none" THEN {NoTables} ELSE {})
  /\ UNCHANGED <<lock, schema, access, rows, ini, wizard, missed, events>>

(* create_all() creates the tables it did not find; one that is there by   *)
(* now is an error.                                                        *)
CreateTables(w) ==
  /\ At(w, "create")
  /\ IF seen[w] # {} /\ schema # "none"
     THEN Dies(w) /\ UNCHANGED schema
     ELSE /\ schema' = IF schema = "none" THEN "new" ELSE schema
          /\ Goto(w, "patch") /\ Forgets(w) /\ UNCHANGED lock
  /\ UNCHANGED <<access, rows, ini, wizard, missed, events>>

(* Columns and indexes that are missing; one that another worker added is  *)
(* passed over.                                                            *)
Patch(w) ==
  /\ At(w, "patch") /\ Goto(w, "count roles")
  /\ schema' = "new"
  /\ UNCHANGED <<seen, lock, access, rows, ini, wizard, missed, events>>

-----------------------------------------------------------------------------
(* create_default_data(): each table is filled when it was empty, with a   *)
(* commit of its own.                                                      *)

(* Fault: the table is not counted.                                        *)
InsertAlways(w, t, look, insert, next) ==
  /\ At(w, look) /\ Goto(w, insert)
  /\ UNCHANGED <<seen, lock, schema, access, rows, ini, wizard, missed, events>>

CountRows(w, t, look, insert, next) ==
  /\ At(w, look)
  /\ Goto(w, IF rows[t] = 0 THEN insert ELSE next)
  /\ UNCHANGED <<seen, lock, schema, access, rows, ini, wizard, missed, events>>

(* The role of the administrators, which no page deletes, and the others;  *)
(* names of roles are unique.                                              *)
InsertRoles(w) ==
  /\ At(w, "roles")
  /\ IF rows["roles"] # 0
     THEN Dies(w) /\ UNCHANGED <<roles, rows>>
     ELSE /\ rows' = [rows EXCEPT !["roles"] = 1]
          /\ roles' = roles \cup {Default}
          /\ Goto(w, "grants") /\ UNCHANGED <<seen, lock>>
  /\ UNCHANGED <<schema, grants, users, ini, wizard, missed, events>>

(* A role that is gone again is passed over.                               *)
InsertGrants(w) ==
  /\ At(w, "grants") /\ Goto(w, "count users")
  /\ grants' = IF Default \in roles
               THEN [grants EXCEPT ![Default] = @ \cup {"view"}] ELSE grants
  /\ UNCHANGED <<seen, lock, schema, roles, users, rows, ini, wizard, missed, events>>

(* _ensure_default_admin(): only without users, and only when config.ini   *)
(* asks for no administrator.                                              *)
CountUsers(w) ==
  /\ At(w, "count users")
  /\ Goto(w, IF Existing = {} THEN "read ini" ELSE "count settings")
  /\ UNCHANGED <<seen, lock, schema, access, rows, ini, wizard, missed, events>>

(* Fault: the administrator of config.ini is not waited for.               *)
IniUnread(w) ==
  /\ At(w, "read ini") /\ Goto(w, "admin")
  /\ UNCHANGED <<seen, lock, schema, access, rows, ini, wizard, missed, events>>

ReadIni(w) ==
  /\ At(w, "read ini")
  /\ Goto(w, IF ini = "pending" THEN "count settings" ELSE "admin")
  /\ UNCHANGED <<seen, lock, schema, access, rows, ini, wizard, missed, events>>

(* A file that cannot be opened or parsed asks for no administrator.       *)
ReadIniFails(w) ==
  /\ At(w, "read ini") /\ Event
  /\ missed' = missed \cup {"config.ini"} /\ Goto(w, "admin")
  /\ UNCHANGED <<seen, lock, schema, access, rows, ini, wizard>>

(* User names are unique: a name taken since is passed over when the look  *)
(* for it still finds it, and an error when the INSERT does.               *)
InsertAdmin(w) ==
  /\ At(w, "admin")
  /\ \/ /\ users[Factory] # Absent
        /\ Dies(w) /\ UNCHANGED users
     \/ /\ users' = IF users[Factory] = Absent
                    THEN [users EXCEPT ![Factory] = Administrator(TRUE)] ELSE users
        /\ Goto(w, "count settings") /\ UNCHANGED <<seen, lock>>
  /\ UNCHANGED <<schema, roles, grants, rows, ini, wizard, missed, events>>

InsertSettings(w) ==
  /\ At(w, "settings") /\ Goto(w, "count branch")
  /\ rows' = [rows EXCEPT !["settings"] = @ + 1]
  /\ UNCHANGED <<seen, lock, schema, access, ini, wizard, missed, events>>

(* The branch, then the categories of expenses: their codes are unique.    *)
InsertBranch(w) ==
  /\ At(w, "branch")
  /\ IF rows["branch"] # 0
     THEN Dies(w) /\ UNCHANGED rows
     ELSE /\ rows' = [rows EXCEPT !["branch"] = 1]
          /\ Goto(w, "read grants") /\ UNCHANGED <<seen, lock>>
  /\ UNCHANGED <<schema, access, ini, wizard, missed, events>>

-----------------------------------------------------------------------------
(* backfill_role_actions(): a role with some action of the module is given *)
(* all of them.  What is missing is read first.                            *)

Lacking ==
  {m \in roles \X Actions : grants[m[1]] # {} /\ m[2] \notin grants[m[1]]}

ReadGrants(w) ==
  /\ At(w, "read grants") /\ Goto(w, "backfill")
  /\ Sees(w, Lacking)
  /\ UNCHANGED <<lock, schema, access, rows, ini, wizard, missed, events>>

(* A role deleted meanwhile fails the foreign key.                         *)
Backfill(w) ==
  /\ At(w, "backfill")
  /\ IF \E m \in seen[w] : m[1] \notin roles
     THEN Dies(w) /\ UNCHANGED grants
     ELSE /\ grants' = [r \in Roles |->
                         grants[r] \cup {a \in Actions : <<r, a>> \in seen[w]}]
          /\ Goto(w, "installer") /\ Forgets(w) /\ UNCHANGED lock
  /\ UNCHANGED <<schema, roles, users, rows, ini, wizard, missed, events>>

-----------------------------------------------------------------------------
(* bootstrap_admin() of config.ini.                                        *)

(* Fault: the password is wiped only by the boot that uses it.             *)
LookOnlyToInstall(w) ==
  /\ At(w, "installer")
  /\ Goto(w, IF /\ ini = "pending"
               /\ users[Owner] = Absent
               /\ \A u \in Existing : ~users[u].admin
             THEN "install" ELSE "finish")
  /\ UNCHANGED <<seen, lock, schema, access, rows, ini, wizard, missed, events>>

LookForAdmin(w) ==
  /\ At(w, "installer")
  /\ Goto(w, IF ini # "pending" THEN "finish"
             ELSE IF \/ \E u \in Existing : users[u].admin
                     \/ users[Owner] # Absent
             THEN "consume" ELSE "install")
  /\ UNCHANGED <<seen, lock, schema, access, rows, ini, wizard, missed, events>>

(* A name taken since is an error, which ends the installation only.       *)
InstallAdmin(w) ==
  /\ At(w, "install")
  /\ IF users[Owner] # Absent
     THEN Goto(w, "finish") /\ UNCHANGED users
     ELSE /\ users' = [users EXCEPT ![Owner] = Administrator(FALSE)]
          /\ Goto(w, "consume")
  /\ UNCHANGED <<seen, lock, schema, roles, grants, rows, ini, wizard, missed, events>>

(* So is any other error of the database; and the file may not be readable *)
(* now, or not be writable when the password is wiped.                     *)
InstallFails(w) ==
  /\ pc[w] \in {"installer", "install", "consume"}
  /\ Event /\ Goto(w, "finish")
  /\ UNCHANGED <<seen, lock, schema, access, rows, ini, wizard, missed>>

Consume(w) ==
  /\ At(w, "consume") /\ Goto(w, "finish")
  /\ ini' = "spent"
  /\ UNCHANGED <<seen, lock, schema, access, rows, wizard, missed, events>>

(* The upkeep of dates and old sessions, whose errors are swallowed; then  *)
(* the lock is left and the worker serves.                                 *)
Finish(w) ==
  /\ At(w, "finish") /\ Goto(w, "up")
  /\ lock' = Released(w)
  /\ UNCHANGED <<seen, schema, access, rows, ini, wizard, missed, events>>

(* gunicorn ends a worker after max_requests and starts another.           *)
Recycle(w) ==
  /\ At(w, "up") /\ Goto(w, "down")
  /\ UNCHANGED <<seen, lock, schema, access, rows, ini, wizard, missed, events>>

-----------------------------------------------------------------------------
(* The pages an administrator opens on a worker that serves.               *)

Asked ==
  /\ \E w \in Workers : At(w, "up")
  /\ \E u \in Existing : users[u].admin /\ users[u].active
  /\ Event
  /\ UNCHANGED <<pc, seen, lock, schema, rows, ini, wizard, missed>>

AddRole(r) ==
  /\ Asked /\ r \notin roles
  /\ roles' = roles \cup {r}
  /\ UNCHANGED <<grants, users>>

CopyRole(r, copy) ==
  /\ Asked /\ r \in roles /\ copy \notin roles
  /\ roles' = roles \cup {copy}
  /\ grants' = [grants EXCEPT ![copy] = grants[r]]
  /\ UNCHANGED users

EditRole(r, actions) ==
  /\ Asked /\ r \in roles
  /\ grants' = [grants EXCEPT ![r] = actions]
  /\ UNCHANGED <<roles, users>>

DeleteRole(r) ==
  /\ Asked /\ r \in roles
  /\ roles' = roles \ {r}
  /\ grants' = [grants EXCEPT ![r] = {}]
  /\ UNCHANGED users

AddUser(u, admin) ==
  /\ Asked /\ users[u] = Absent
  /\ users' = [users EXCEPT ![u] = [Administrator(FALSE) EXCEPT !.admin = admin]]
  /\ UNCHANGED <<roles, grants>>

(* The form, or the page that only sets a password.                        *)
EditUser(u, admin, active, password) ==
  /\ Asked /\ users[u] # Absent
  /\ users' = [users EXCEPT ![u].admin = admin, ![u].active = active,
                            ![u].factory = @ /\ ~password]
  /\ UNCHANGED <<roles, grants>>

(* Not the account of the one who asks.                                    *)
DeleteUser(u) ==
  /\ Asked /\ users[u] # Absent
  /\ \E v \in Existing \ {u} : users[v].admin /\ users[v].active
  /\ users' = [users EXCEPT ![u].active = FALSE]
  /\ UNCHANGED <<roles, grants>>

(* The wizard opens for anybody while there are no users.                  *)
BeginWizard ==
  /\ \E w \in Workers : At(w, "up")
  /\ Existing = {} /\ ~wizard /\ Event
  /\ wizard' = TRUE
  /\ UNCHANGED <<pc, seen, lock, schema, access, rows, ini, missed>>

EndWizard ==
  /\ wizard /\ wizard' = FALSE
  /\ users' = [users EXCEPT ![Factory] =
                 IF @ = Absent THEN Administrator(FALSE) ELSE [@ EXCEPT !.factory = FALSE]]
  /\ UNCHANGED <<pc, seen, lock, schema, roles, grants, rows, ini, missed, events>>

-----------------------------------------------------------------------------
Boot(w) ==
  \/ Start(w) \/ LookAtSchema(w) \/ CreateTables(w) \/ Patch(w)
  \/ CountRows(w, "roles", "count roles", "roles", "count users")
  \/ InsertRoles(w) \/ InsertGrants(w)
  \/ CountUsers(w) \/ ReadIni(w) \/ InsertAdmin(w)
  \/ CountRows(w, "settings", "count settings", "settings", "count branch")
  \/ InsertSettings(w)
  \/ CountRows(w, "branch", "count branch", "branch", "read grants")
  \/ InsertBranch(w)
  \/ ReadGrants(w) \/ Backfill(w)
  \/ LookForAdmin(w) \/ InstallAdmin(w) \/ Consume(w) \/ Finish(w)

Mishap(w) == Crash(w) \/ GoOnWithout(w) \/ ReadIniFails(w) \/ InstallFails(w)

Administration ==
  \/ \E r \in Roles : AddRole(r) \/ DeleteRole(r)
  \/ \E r, copy \in Roles : CopyRole(r, copy)
  \/ \E r \in Roles, actions \in SUBSET Actions : EditRole(r, actions)
  \/ \E u \in Usernames, admin \in BOOLEAN : AddUser(u, admin)
  \/ \E u \in Usernames, admin, active, password \in BOOLEAN :
       EditUser(u, admin, active, password)
  \/ \E u \in Usernames : DeleteUser(u)
  \/ BeginWizard \/ EndWizard

Next ==
  \/ \E w \in Workers : Acquire(w) \/ Boot(w) \/ Recycle(w) \/ Mishap(w)
  \/ Administration

(* A worker boots when the system lets it run, tries the lock twenty times *)
(* a second, and serves its share of requests; nothing is fair about       *)
(* crashes or about what an administrator does.                            *)
Fairness ==
  \A w \in Workers :
    WF_vars(Boot(w)) /\ SF_vars(Acquire(w)) /\ WF_vars(Recycle(w))

Spec == Init /\ [][Next]_vars /\ Fairness

-----------------------------------------------------------------------------
TypeOK ==
  /\ pc \in [Workers -> Stages]
  /\ seen \in [Workers -> SUBSET ({NoTables} \cup (Roles \X Actions))]
  /\ lock \in Workers \cup {Nobody}
  /\ schema \in {"none", "old", "new"}
  /\ roles \subseteq Roles /\ grants \in [Roles -> SUBSET Actions]
  /\ users \in [Usernames -> Account \cup {Absent}]
  /\ rows \in [Tables -> Nat]
  /\ ini \in {"none", "pending", "spent"}
  /\ wizard \in BOOLEAN /\ missed \subseteq Needed
  /\ events \in 0..MaxEvents

(* However often workers crash and start again, the base data is there at  *)
(* most once, as long as nobody went on without the lock: no unique key    *)
(* backs the row of the settings.                                          *)
SeededOnce == "lock" \notin missed => \A t \in Tables : rows[t] <= 1

(* An installation that chose its administrator in config.ini never gets   *)
(* the one with the password everybody knows, in whatever order the users  *)
(* and the file are read, written and wiped, unless the file could not be  *)
(* read when it counted.                                                   *)
OperatorsAdmin == missed = {} /\ ini # "none" => \A u \in Existing : ~users[u].factory

(* The password in config.ini is wiped in the end, though the installation *)
(* may crash or fail before, the wizard may have been quicker, and the     *)
(* file could not be read or written for a while.                          *)
PasswordSpent == ini = "pending" ~> ini # "pending"

(* No crash and no lock keeps a worker from serving again.                 *)
WorkersServe == \A w \in Workers : []<>At(w, "up")
=============================================================================
