----------------------------- MODULE ServerProofs ------------------------------
(***************************************************************************)
(* Theorems about what runs and keeps the program on its server: Startup,  *)
(* for any number of workers, roles and accounts, and any number of        *)
(* crashes and changes by administrators; below, Updater and Backup, as    *)
(* MCServer takes their instances.                                         *)
(***************************************************************************)
EXTENDS MCServer, FiniteSetTheorems, SequenceTheorems, TLAPS

(* The stages between the lock and its release.                            *)
Critical == Stages \ {"down", "wait", "up"}

(* The lock keeps the others out, until one goes on without it.            *)
Exclusive == "lock" \notin missed => \A w \in Workers : pc[w] \in Critical => lock = w

(* What the lock protects: the answer of a look still holds when the row   *)
(* is inserted.                                                            *)
StillEmpty ==
  "lock" \notin missed => \A w \in Workers : pc[w] = "settings" => rows["settings"] = 0

(* The administrator of config.ini: his password is wiped only when there  *)
(* is somebody, and who finds nobody finds it not wiped; who makes the      *)
(* factory's account has read that nobody else is asked for.               *)
InstallerOK ==
  /\ \A w \in Workers : pc[w] \in {"install", "consume"} => ini # "none"
  /\ \A w \in Workers : pc[w] = "consume" => Existing # {}
  /\ ini = "spent" => Existing # {}
  /\ "lock" \notin missed => \A w \in Workers : pc[w] = "read ini" => ini # "spent"
  /\ missed = {} => \A w \in Workers : pc[w] = "admin" => ini = "none"

IInv ==
  /\ TypeOK
  /\ Exclusive
  /\ StillEmpty /\ SeededOnce
  /\ InstallerOK /\ OperatorsAdmin

-----------------------------------------------------------------------------
(* Types.                                                                  *)

LEMMA GotoType ==
  ASSUME TypeOK, NEW w \in Workers, NEW stage \in Stages, Goto(w, stage)
  PROVE  /\ pc' \in [Workers -> Stages]
         /\ pc'[w] = stage
         /\ \A v \in Workers \ {w} : pc'[v] = pc[v]
  BY DEF TypeOK, Goto

LEMMA DiesType ==
  ASSUME TypeOK, NEW w \in Workers, Dies(w)
  PROVE  /\ pc' \in [Workers -> Stages]
         /\ seen' \in [Workers -> SUBSET ({NoTables} \cup (Roles \X Actions))]
         /\ lock' \in Workers \cup {Nobody}
         /\ pc'[w] = "down"
         /\ \A v \in Workers \ {w} : pc'[v] = pc[v]
  <1>1. "down" \in Stages
    BY DEF Stages
  <1> QED
    BY <1>1, GotoType DEF Dies, Forgets, Sees, Released, TypeOK

LEMMA EventType ==
  ASSUME TypeOK, Event
  PROVE  events' \in 0..MaxEvents
  BY ConstantsOK DEF TypeOK, Event

LEMMA RowsType ==
  ASSUME TypeOK
  PROVE  /\ \A t \in Tables : rows[t] \in Nat
         /\ \A t \in Tables, n \in Nat : [rows EXCEPT ![t] = n] \in [Tables -> Nat]
         /\ {"roles", "settings", "branch"} \subseteq Tables
  <1>1. \A t \in Tables : rows[t] \in Nat
    BY DEF TypeOK
  <1>2. \A t \in Tables, n \in Nat : [rows EXCEPT ![t] = n] \in [Tables -> Nat]
    BY DEF TypeOK
  <1> QED BY <1>1, <1>2 DEF Tables

LEMMA AdministratorType ==
  ASSUME NEW f \in BOOLEAN
  PROVE  /\ Administrator(f) \in Account
         /\ Administrator(f) # Absent
         /\ Administrator(f).factory = f
  BY DEF Administrator, Account, Absent

(* What the pages for accounts leave in the table, and that none of them   *)
(* makes an account one of the factory's.                                  *)
LEMMA EditType ==
  ASSUME TypeOK, NEW u \in Usernames, NEW admin \in BOOLEAN, NEW active \in BOOLEAN,
         NEW password \in BOOLEAN, EditUser(u, admin, active, password)
  PROVE  /\ users' \in [Usernames -> Account \cup {Absent}]
         /\ users'[u] # Absent
         /\ users'[u].factory => users[u].factory
         /\ \A v \in Usernames \ {u} : users'[v] = users[v]
  <1> DEFINE kept == users[u].factory /\ ~password
             row == [users[u] EXCEPT !.admin = admin, !.active = active, !.factory = kept]
  <1>1. users[u] \in Account
    BY DEF EditUser, TypeOK
  <1>2. kept \in BOOLEAN /\ (kept => users[u].factory)
    BY Zenon
  <1>3. users' = [users EXCEPT ![u] = row]
    BY DEF EditUser
  <1> HIDE DEF kept
  <1>4. row \in Account /\ row # Absent /\ row.factory = kept
    BY <1>1, <1>2 DEF Account, Absent
  <1> HIDE DEF row
  <1> QED BY <1>2, <1>3, <1>4 DEF TypeOK

LEMMA DeleteType ==
  ASSUME TypeOK, NEW u \in Usernames, DeleteUser(u)
  PROVE  /\ users' \in [Usernames -> Account \cup {Absent}]
         /\ users'[u] # Absent
         /\ users'[u].factory = users[u].factory
         /\ \A v \in Usernames \ {u} : users'[v] = users[v]
  <1> DEFINE row == [users[u] EXCEPT !.active = FALSE]
  <1>1. users[u] \in Account
    BY DEF DeleteUser, TypeOK
  <1>2. row \in Account /\ row # Absent /\ row.factory = users[u].factory
    BY <1>1 DEF Account, Absent
  <1>3. users' = [users EXCEPT ![u] = row]
    BY Zenon DEF DeleteUser
  <1> HIDE DEF row
  <1> QED BY <1>2, <1>3 DEF TypeOK

LEMMA WizardType ==
  ASSUME TypeOK, EndWizard
  PROVE  /\ users' \in [Usernames -> Account \cup {Absent}]
         /\ users'[Factory] # Absent
         /\ ~users'[Factory].factory
         /\ \A v \in Usernames \ {Factory} : users'[v] = users[v]
  <1> DEFINE old == users[Factory]
  <1> DEFINE row == IF old = Absent THEN Administrator(FALSE)
                    ELSE [old EXCEPT !.factory = FALSE]
  <1>1. Factory \in Usernames
    BY ConstantsOK
  <1>2. old \in Account \cup {Absent}
    BY <1>1 DEF TypeOK
  <1>3. row \in Account /\ row # Absent /\ row.factory = FALSE
    BY <1>2, AdministratorType DEF Account, Absent
  <1>4. users' = [users EXCEPT ![Factory] = row]
    BY Zenon DEF EndWizard
  <1> HIDE DEF row
  <1> QED BY <1>1, <1>3, <1>4 DEF TypeOK

(* The stages that a worker enters without touching anything but the lock, *)
(* the count of events and what was missed.                                *)
LEMMA MoveType ==
  ASSUME TypeOK, NEW w \in Workers,
         \/ Start(w) \/ Acquire(w) \/ GoOnWithout(w) \/ Crash(w) \/ Finish(w) \/ Recycle(w)
         \/ CountUsers(w) \/ ReadIni(w) \/ ReadIniFails(w)
         \/ LookForAdmin(w) \/ InstallFails(w) \/ Consume(w)
         \/ CountRows(w, "roles", "count roles", "roles", "count users")
         \/ CountRows(w, "settings", "count settings", "settings", "count branch")
         \/ CountRows(w, "branch", "count branch", "branch", "read grants")
  PROVE  TypeOK'
  <1>1. CASE GoOnWithout(w)
    <2>1. pc' \in [Workers -> Stages]
      BY <1>1, GotoType DEF GoOnWithout, Stages
    <2>2. missed' \subseteq Needed
      BY <1>1 DEF GoOnWithout, Needed, TypeOK
    <2> QED BY <1>1, <2>1, <2>2, EventType DEF GoOnWithout, TypeOK, access
  <1>2. CASE Crash(w)
    BY <1>2, DiesType, EventType DEF Crash, TypeOK, access
  <1>3. CASE InstallFails(w)
    <2>1. pc' \in [Workers -> Stages]
      BY <1>3, GotoType DEF InstallFails, Stages
    <2> QED BY <1>3, <2>1, EventType DEF InstallFails, TypeOK, access
  <1>4. CASE Finish(w) \/ Acquire(w)
    <2>1. pc' \in [Workers -> Stages]
      BY <1>4, GotoType DEF Finish, Acquire, Stages
    <2>2. lock' \in Workers \cup {Nobody}
      BY <1>4 DEF Finish, Acquire, Released, TypeOK
    <2> QED BY <1>4, <2>1, <2>2 DEF Finish, Acquire, TypeOK, access
  <1>5. CASE Consume(w)
    <2>1. pc' \in [Workers -> Stages]
      BY <1>5, GotoType DEF Consume, Stages
    <2> QED BY <1>5, <2>1 DEF Consume, TypeOK, access
  <1>6. CASE \/ Start(w) \/ Recycle(w) \/ CountUsers(w) \/ ReadIni(w) \/ LookForAdmin(w)
             \/ CountRows(w, "roles", "count roles", "roles", "count users")
             \/ CountRows(w, "settings", "count settings", "settings", "count branch")
             \/ CountRows(w, "branch", "count branch", "branch", "read grants")
    <2>1. UNCHANGED <<seen, lock, schema, access, rows, ini, wizard, missed, events>>
      BY <1>6 DEF Start, Recycle, CountUsers, ReadIni, LookForAdmin, CountRows
    <2>2. \E stage \in Stages : Goto(w, stage)
      BY <1>6 DEF Start, Recycle, CountUsers, ReadIni, LookForAdmin, CountRows, Stages
    <2>3. pc' \in [Workers -> Stages]
      BY <2>2, GotoType
    <2> QED BY <2>1, <2>3 DEF TypeOK, access
  <1>7. CASE ReadIniFails(w)
    <2>1. pc' \in [Workers -> Stages]
      BY <1>7, GotoType DEF ReadIniFails, Stages
    <2>2. missed' \subseteq Needed
      BY <1>7 DEF ReadIniFails, Needed, TypeOK
    <2> QED BY <1>7, <2>1, <2>2, EventType DEF ReadIniFails, TypeOK, access
  <1> QED BY <1>1, <1>2, <1>3, <1>4, <1>5, <1>6, <1>7

LEMMA FillType ==
  ASSUME TypeOK, NEW w \in Workers,
         \/ LookAtSchema(w) \/ CreateTables(w) \/ Patch(w) \/ InsertRoles(w)
         \/ InsertGrants(w) \/ InsertAdmin(w) \/ InsertSettings(w) \/ InsertBranch(w)
         \/ ReadGrants(w) \/ Backfill(w) \/ InstallAdmin(w)
  PROVE  TypeOK'
  <1> DEFINE Seen == SUBSET ({NoTables} \cup (Roles \X Actions))
  <1>1. CASE LookAtSchema(w)
    <2>1. pc' \in [Workers -> Stages]
      BY <1>1, GotoType DEF LookAtSchema, Stages
    <2>2. seen' \in [Workers -> Seen]
      BY <1>1 DEF LookAtSchema, Sees, TypeOK
    <2> QED BY <1>1, <2>1, <2>2 DEF LookAtSchema, TypeOK, access
  <1>2. CASE CreateTables(w)
    <2>1. CASE Dies(w)
      BY <1>2, <2>1, DiesType DEF CreateTables, TypeOK, access
    <2>2. CASE Goto(w, "patch") /\ Forgets(w) /\ UNCHANGED lock
      <3>1. pc' \in [Workers -> Stages]
        BY <2>2, GotoType DEF Stages
      <3>2. seen' \in [Workers -> Seen]
        BY <2>2 DEF Forgets, Sees, TypeOK
      <3> QED BY <1>2, <2>2, <3>1, <3>2 DEF CreateTables, TypeOK, access
    <2> QED BY <1>2, <2>1, <2>2 DEF CreateTables
  <1>3. CASE Patch(w)
    <2>1. pc' \in [Workers -> Stages]
      BY <1>3, GotoType DEF Patch, Stages
    <2> QED BY <1>3, <2>1 DEF Patch, TypeOK, access
  <1>4. CASE InsertRoles(w)
    <2>1. CASE Dies(w) /\ UNCHANGED <<roles, rows>>
      BY <1>4, <2>1, DiesType DEF InsertRoles, TypeOK
    <2>2. CASE ~(Dies(w) /\ UNCHANGED <<roles, rows>>)
      <3>1. pc' \in [Workers -> Stages]
        BY <1>4, <2>2, GotoType DEF InsertRoles, Stages
      <3>2. rows' \in [Tables -> Nat] /\ roles' \subseteq Roles /\ UNCHANGED <<seen, lock>>
        BY <1>4, <2>2, ConstantsOK, RowsType DEF InsertRoles, TypeOK
      <3> QED BY <1>4, <3>1, <3>2 DEF InsertRoles, TypeOK
    <2> QED BY <2>1, <2>2
  <1>5. CASE InsertGrants(w)
    <2>1. pc' \in [Workers -> Stages]
      BY <1>5, GotoType DEF InsertGrants, Stages
    <2>2. grants' \in [Roles -> SUBSET Actions]
      BY <1>5, ConstantsOK DEF InsertGrants, TypeOK, Actions
    <2> QED BY <1>5, <2>1, <2>2 DEF InsertGrants, TypeOK
  <1>6. CASE InsertAdmin(w)
    <2>1. CASE Dies(w) /\ UNCHANGED users
      BY <1>6, <2>1, DiesType DEF InsertAdmin, TypeOK
    <2>2. CASE ~(Dies(w) /\ UNCHANGED users)
      <3>1. pc' \in [Workers -> Stages]
        BY <1>6, <2>2, GotoType DEF InsertAdmin, Stages
      <3>2. users' \in [Usernames -> Account \cup {Absent}] /\ UNCHANGED <<seen, lock>>
        BY <1>6, <2>2, AdministratorType DEF InsertAdmin, TypeOK
      <3> QED BY <1>6, <3>1, <3>2 DEF InsertAdmin, TypeOK
    <2> QED BY <2>1, <2>2
  <1>7. CASE InsertSettings(w)
    <2>1. pc' \in [Workers -> Stages]
      BY <1>7, GotoType DEF InsertSettings, Stages
    <2>2. rows' \in [Tables -> Nat]
      <3>1. rows' = [rows EXCEPT !["settings"] = rows["settings"] + 1]
        BY <1>7 DEF InsertSettings
      <3> QED BY <3>1, RowsType
    <2> QED BY <1>7, <2>1, <2>2 DEF InsertSettings, TypeOK, access
  <1>8. CASE InsertBranch(w)
    <2>1. CASE Dies(w) /\ UNCHANGED rows
      BY <1>8, <2>1, DiesType DEF InsertBranch, TypeOK, access
    <2>2. CASE ~(Dies(w) /\ UNCHANGED rows)
      <3>1. pc' \in [Workers -> Stages]
        BY <1>8, <2>2, GotoType DEF InsertBranch, Stages
      <3>2. rows' \in [Tables -> Nat] /\ UNCHANGED <<seen, lock>>
        <4>1. rows' = [rows EXCEPT !["branch"] = 1] /\ UNCHANGED <<seen, lock>>
          BY <1>8, <2>2 DEF InsertBranch
        <4> QED BY <4>1, RowsType
      <3> QED BY <1>8, <3>1, <3>2 DEF InsertBranch, TypeOK, access
    <2> QED BY <2>1, <2>2
  <1>9. CASE ReadGrants(w)
    <2>1. pc' \in [Workers -> Stages]
      BY <1>9, GotoType DEF ReadGrants, Stages
    <2>2. Lacking \in Seen
      BY DEF Lacking, TypeOK
    <2>3. seen' \in [Workers -> Seen]
      BY <1>9, <2>2 DEF ReadGrants, Sees, TypeOK
    <2> QED BY <1>9, <2>1, <2>3 DEF ReadGrants, TypeOK, access
  <1>10. CASE Backfill(w)
    <2>1. CASE Dies(w) /\ UNCHANGED grants
      BY <1>10, <2>1, DiesType DEF Backfill, TypeOK
    <2>2. CASE ~(Dies(w) /\ UNCHANGED grants)
      <3>1. pc' \in [Workers -> Stages]
        BY <1>10, <2>2, GotoType DEF Backfill, Stages
      <3>2. seen' \in [Workers -> Seen] /\ UNCHANGED lock
        BY <1>10, <2>2 DEF Backfill, Forgets, Sees, TypeOK
      <3>3. grants' \in [Roles -> SUBSET Actions]
        BY <1>10, <2>2 DEF Backfill, TypeOK
      <3> QED BY <1>10, <3>1, <3>2, <3>3 DEF Backfill, TypeOK
    <2> QED BY <2>1, <2>2
  <1>11. CASE InstallAdmin(w)
    <2>1. pc' \in [Workers -> Stages]
      BY <1>11, GotoType DEF InstallAdmin, Stages
    <2>2. users' \in [Usernames -> Account \cup {Absent}]
      BY <1>11, AdministratorType DEF InstallAdmin, TypeOK
    <2> QED BY <1>11, <2>1, <2>2 DEF InstallAdmin, TypeOK
  <1> QED BY <1>1, <1>2, <1>3, <1>4, <1>5, <1>6, <1>7, <1>8, <1>9, <1>10, <1>11

LEMMA AdministrationType ==
  ASSUME TypeOK, Administration
  PROVE  TypeOK'
  <1>1. CASE \E r \in Roles : AddRole(r)
    BY <1>1, EventType DEF AddRole, Asked, TypeOK
  <1>2. CASE \E r \in Roles : DeleteRole(r)
    <2>1. PICK r \in Roles : DeleteRole(r)
      BY <1>2
    <2>2. roles' \subseteq Roles /\ grants' \in [Roles -> SUBSET Actions]
      BY <2>1 DEF DeleteRole, TypeOK
    <2> QED BY <2>1, <2>2, EventType DEF DeleteRole, Asked, TypeOK
  <1>3. CASE \E r, copy \in Roles : CopyRole(r, copy)
    <2>1. PICK r \in Roles, copy \in Roles : CopyRole(r, copy)
      BY <1>3
    <2>2. roles' \subseteq Roles /\ grants' \in [Roles -> SUBSET Actions]
      BY <2>1 DEF CopyRole, TypeOK
    <2> QED BY <2>1, <2>2, EventType DEF CopyRole, Asked, TypeOK
  <1>4. CASE \E r \in Roles, actions \in SUBSET Actions : EditRole(r, actions)
    <2>1. PICK r \in Roles, actions \in SUBSET Actions : EditRole(r, actions)
      BY <1>4
    <2>2. grants' \in [Roles -> SUBSET Actions]
      BY <2>1 DEF EditRole, TypeOK
    <2> QED BY <2>1, <2>2, EventType DEF EditRole, Asked, TypeOK
  <1>5. CASE \E u \in Usernames, admin \in BOOLEAN : AddUser(u, admin)
    <2>1. PICK u \in Usernames, admin \in BOOLEAN : AddUser(u, admin)
      BY <1>5
    <2>2. [Administrator(FALSE) EXCEPT !.admin = admin] \in Account
      BY DEF Administrator, Account
    <2>3. users' \in [Usernames -> Account \cup {Absent}]
      BY <2>1, <2>2 DEF AddUser, TypeOK
    <2> QED BY <2>1, <2>3, EventType DEF AddUser, Asked, TypeOK
  <1>6. CASE \E u \in Usernames, admin, active, password \in BOOLEAN :
               EditUser(u, admin, active, password)
    <2>1. PICK u \in Usernames, admin \in BOOLEAN, active \in BOOLEAN, password \in BOOLEAN :
                 EditUser(u, admin, active, password)
      BY <1>6
    <2>2. users' \in [Usernames -> Account \cup {Absent}]
      BY <2>1, EditType
    <2> QED BY <2>1, <2>2, EventType DEF EditUser, Asked, TypeOK
  <1>7. CASE \E u \in Usernames : DeleteUser(u)
    <2>1. PICK u \in Usernames : DeleteUser(u)
      BY <1>7
    <2>2. users' \in [Usernames -> Account \cup {Absent}]
      BY <2>1, DeleteType
    <2> QED BY <2>1, <2>2, EventType DEF DeleteUser, Asked, TypeOK
  <1>8. CASE BeginWizard
    BY <1>8, EventType DEF BeginWizard, TypeOK, access
  <1>9. CASE EndWizard
    <2>1. users' \in [Usernames -> Account \cup {Absent}]
      BY <1>9, WizardType
    <2> QED BY <1>9, <2>1 DEF EndWizard, TypeOK
  <1> QED BY <1>1, <1>2, <1>3, <1>4, <1>5, <1>6, <1>7, <1>8, <1>9 DEF Administration

LEMMA TypeStep ==
  ASSUME TypeOK, [Next]_vars
  PROVE  TypeOK'
  <1>1. CASE UNCHANGED vars
    BY <1>1 DEF vars, access, TypeOK
  <1>2. CASE \E w \in Workers : Acquire(w) \/ Boot(w) \/ Recycle(w) \/ Mishap(w)
    BY <1>2, MoveType, FillType DEF Boot, Mishap
  <1>3. CASE Administration
    BY <1>3, AdministrationType
  <1> QED BY <1>1, <1>2, <1>3 DEF Next

-----------------------------------------------------------------------------
(* The steps of a worker, told by the stage it enters.                     *)

(* The stages whose worker relies on what it read before.                  *)
Relying == {"settings", "read ini", "admin", "install", "consume"}

(* Steps that enter no such stage: what they leave alone.                  *)
Quiet(w) ==
  \/ Start(w) \/ LookAtSchema(w) \/ CreateTables(w) \/ Patch(w)
  \/ CountRows(w, "roles", "count roles", "roles", "count users")
  \/ InsertRoles(w) \/ InsertGrants(w) \/ InsertSettings(w)
  \/ CountRows(w, "branch", "count branch", "branch", "read grants")
  \/ InsertBranch(w) \/ ReadGrants(w) \/ Backfill(w) \/ Finish(w)
  \/ Acquire(w) \/ Recycle(w) \/ Crash(w) \/ GoOnWithout(w) \/ InstallFails(w)

LEMMA QuietStep ==
  ASSUME TypeOK, NEW w \in Workers, Quiet(w)
  PROVE  /\ \A v \in Workers : pc'[v] \in Relying => pc'[v] = pc[v]
         /\ UNCHANGED <<users, ini>>
         /\ missed \subseteq missed'
  <1>1. \E stage \in Stages \ Relying : Goto(w, stage)
    <2> USE DEF Stages, Relying
    <2>1. CASE Start(w) \/ LookAtSchema(w) \/ CreateTables(w) \/ Patch(w)
      BY <2>1 DEF Start, LookAtSchema, CreateTables, Patch, Dies
    <2>2. CASE CountRows(w, "roles", "count roles", "roles", "count users")
      BY <2>2 DEF CountRows
    <2>3. CASE InsertRoles(w) \/ InsertGrants(w) \/ InsertSettings(w) \/ InsertBranch(w)
      BY <2>3 DEF InsertRoles, InsertGrants, InsertSettings, InsertBranch, Dies
    <2>4. CASE CountRows(w, "branch", "count branch", "branch", "read grants")
      BY <2>4 DEF CountRows
    <2>5. CASE ReadGrants(w) \/ Backfill(w) \/ Finish(w)
      BY <2>5 DEF ReadGrants, Backfill, Finish, Dies
    <2>6. CASE Acquire(w) \/ Recycle(w) \/ Crash(w) \/ GoOnWithout(w) \/ InstallFails(w)
      BY <2>6 DEF Acquire, Recycle, Crash, GoOnWithout, InstallFails, Dies
    <2> QED BY <2>1, <2>2, <2>3, <2>4, <2>5, <2>6 DEF Quiet
  <1>2. \A v \in Workers : pc'[v] \in Relying => pc'[v] = pc[v]
    BY <1>1, GotoType
  <1>3. UNCHANGED <<users, ini>>
    BY DEF Quiet, access, Start, LookAtSchema, CreateTables, Patch, CountRows, InsertRoles,
           InsertGrants, InsertSettings, InsertBranch, ReadGrants, Backfill, Finish,
           Acquire, Recycle, Crash, GoOnWithout, InstallFails
  <1>4. UNCHANGED missed \/ missed' = missed \cup {"lock"}
    BY DEF Quiet, Start, LookAtSchema, CreateTables, Patch, CountRows, InsertRoles,
           InsertGrants, InsertSettings, InsertBranch, ReadGrants, Backfill, Finish,
           Acquire, Recycle, Crash, GoOnWithout, InstallFails
  <1> QED BY <1>2, <1>3, <1>4

(* The pages touch neither the workers nor config.ini, remove no account   *)
(* and make none one of the factory's.                                     *)
LEMMA PagesStep ==
  ASSUME TypeOK, Administration
  PROVE  /\ UNCHANGED <<pc, lock, rows, ini, missed>>
         /\ Existing \subseteq Existing'
         /\ \A u \in Existing' : users'[u].factory => u \in Existing /\ users[u].factory
  <1>1. UNCHANGED <<pc, lock, rows, ini, missed>>
    BY DEF Administration, Asked, AddRole, DeleteRole, CopyRole, EditRole, AddUser, EditUser,
           DeleteUser, BeginWizard, EndWizard, access
  <1>2. CASE \E u \in Usernames, admin \in BOOLEAN : AddUser(u, admin)
    <2>1. PICK u \in Usernames, admin \in BOOLEAN : AddUser(u, admin)
      BY <1>2
    <2>2. [Administrator(FALSE) EXCEPT !.admin = admin] # Absent
      BY DEF Administrator, Absent
    <2>3. ~[Administrator(FALSE) EXCEPT !.admin = admin].factory
      BY DEF Administrator
    <2>4. /\ users'[u] # Absent /\ ~users'[u].factory
          /\ \A v \in Usernames \ {u} : users'[v] = users[v]
      BY <2>1, <2>2, <2>3 DEF AddUser, TypeOK
    <2> QED BY <1>1, <2>1, <2>4 DEF Existing
  <1>3. CASE \E u \in Usernames, admin, active, password \in BOOLEAN :
               EditUser(u, admin, active, password)
    <2>1. PICK u \in Usernames, admin \in BOOLEAN, active \in BOOLEAN, password \in BOOLEAN :
                 EditUser(u, admin, active, password)
      BY <1>3
    <2>2. users[u] # Absent
      BY <2>1 DEF EditUser
    <2> QED BY <1>1, <2>1, <2>2, EditType DEF Existing
  <1>4. CASE \E u \in Usernames : DeleteUser(u)
    <2>1. PICK u \in Usernames : DeleteUser(u)
      BY <1>4
    <2>2. users[u] # Absent
      BY <2>1 DEF DeleteUser
    <2> QED BY <1>1, <2>1, <2>2, DeleteType DEF Existing
  <1>5. CASE EndWizard
    BY <1>1, <1>5, WizardType, ConstantsOK DEF Existing
  <1>6. CASE UNCHANGED users
    BY <1>1, <1>6 DEF Existing
  <1> QED
    BY <1>2, <1>3, <1>4, <1>5, <1>6
    DEF Administration, AddRole, DeleteRole, CopyRole, EditRole, BeginWizard, access

-----------------------------------------------------------------------------
(* The lock: a worker that has it, or needs none, goes on, and one that    *)
(* ends gives it back.                                                     *)

LEMMA ExclusiveKept ==
  ASSUME TypeOK, Exclusive, NEW w \in Workers, NEW stage \in Stages, Goto(w, stage),
         missed \subseteq missed',
         \/ stage \in Critical /\ pc[w] \in Critical /\ UNCHANGED lock
         \/ stage \in Critical /\ lock = Nobody /\ lock' = w
         \/ stage \notin Critical /\ (UNCHANGED lock \/ lock' = Released(w))
  PROVE  Exclusive'
  <1>1. pc'[w] = stage /\ \A v \in Workers \ {w} : pc'[v] = pc[v]
    BY GotoType
  <1>2. \A v \in Workers : v # Nobody
    BY ConstantsOK
  <1> QED
    BY <1>1, <1>2 DEF Exclusive, Released

(* Steps between the lock and its release.                                 *)
Inside(w) ==
  /\ pc[w] \in Critical
  /\ \E stage \in Critical : Goto(w, stage)
  /\ UNCHANGED lock /\ missed \subseteq missed'

LEMMA ExclusiveStep ==
  ASSUME TypeOK, Exclusive, [Next]_vars
  PROVE  Exclusive'
  <1>1. CASE UNCHANGED vars \/ Administration
    BY <1>1, PagesStep DEF vars, Exclusive
  <1>2. ASSUME NEW w \in Workers, Inside(w)
        PROVE  Exclusive'
    <2>1. PICK stage \in Critical : Goto(w, stage)
      BY <1>2 DEF Inside
    <2> QED BY <1>2, <2>1, ExclusiveKept DEF Inside, Critical
  <1>3. ASSUME NEW w \in Workers, Dies(w), UNCHANGED missed
        PROVE  Exclusive'
    <2>1. "down" \in Stages \ Critical
      BY DEF Critical, Stages
    <2> QED BY <1>3, <2>1, ExclusiveKept DEF Dies
  <1>4. ASSUME NEW w \in Workers, Start(w) \/ Recycle(w) \/ Finish(w)
        PROVE  Exclusive'
    <2>1. PICK stage \in {"wait", "down", "up"} : Goto(w, stage)
      BY <1>4 DEF Start, Recycle, Finish
    <2>2. stage \in Stages \ Critical
      BY <2>1 DEF Critical, Stages
    <2>3. UNCHANGED missed /\ (UNCHANGED lock \/ lock' = Released(w))
      BY <1>4 DEF Start, Recycle, Finish
    <2> QED BY <2>1, <2>2, <2>3, ExclusiveKept
  <1>5. ASSUME NEW w \in Workers, Acquire(w)
        PROVE  Exclusive'
    <2>1. "look" \in Stages \cap Critical
      BY DEF Critical, Stages
    <2> QED BY <1>5, <2>1, ExclusiveKept DEF Acquire
  <1>6. ASSUME NEW w \in Workers, GoOnWithout(w)
        PROVE  Exclusive'
    BY <1>6 DEF GoOnWithout, Exclusive
  <1>7. ASSUME NEW w \in Workers, Crash(w)
        PROVE  Exclusive'
    BY <1>3, <1>7 DEF Crash
  <1>8. ASSUME NEW w \in Workers,
               CreateTables(w) \/ InsertRoles(w) \/ InsertAdmin(w) \/ InsertBranch(w) \/ Backfill(w)
        PROVE  Inside(w) \/ (Dies(w) /\ UNCHANGED missed)
    <2> USE DEF Inside, Critical, Stages, At
    <2>1. CASE CreateTables(w)
      BY <2>1 DEF CreateTables
    <2>2. CASE InsertRoles(w)
      BY <2>2 DEF InsertRoles
    <2>3. CASE InsertAdmin(w)
      BY <2>3 DEF InsertAdmin
    <2>4. CASE InsertBranch(w)
      BY <2>4 DEF InsertBranch
    <2>5. CASE Backfill(w)
      BY <2>5 DEF Backfill
    <2> QED BY <1>8, <2>1, <2>2, <2>3, <2>4, <2>5
  <1>9. ASSUME NEW w \in Workers,
               \/ LookAtSchema(w) \/ Patch(w) \/ InsertGrants(w) \/ InsertSettings(w)
               \/ CountRows(w, "roles", "count roles", "roles", "count users")
               \/ CountRows(w, "settings", "count settings", "settings", "count branch")
               \/ CountRows(w, "branch", "count branch", "branch", "read grants")
               \/ CountUsers(w) \/ ReadIni(w) \/ ReadGrants(w) \/ LookForAdmin(w)
               \/ InstallAdmin(w) \/ InstallFails(w) \/ Consume(w) \/ ReadIniFails(w)
        PROVE  Inside(w)
    <2> USE DEF Inside, Critical, Stages, At
    <2>1. CASE LookAtSchema(w) \/ Patch(w)
      BY <2>1 DEF LookAtSchema, Patch
    <2>2. CASE CountRows(w, "roles", "count roles", "roles", "count users")
      BY <2>2 DEF CountRows
    <2>3. CASE CountRows(w, "settings", "count settings", "settings", "count branch")
      BY <2>3 DEF CountRows
    <2>4. CASE CountRows(w, "branch", "count branch", "branch", "read grants")
      BY <2>4 DEF CountRows
    <2>5. CASE InsertGrants(w) \/ InsertSettings(w)
      BY <2>5 DEF InsertGrants, InsertSettings
    <2>6. CASE CountUsers(w) \/ ReadIni(w) \/ ReadIniFails(w)
      BY <2>6 DEF CountUsers, ReadIni, ReadIniFails
    <2>7. CASE ReadGrants(w) \/ LookForAdmin(w)
      BY <2>7 DEF ReadGrants, LookForAdmin
    <2>8. CASE InstallAdmin(w) \/ InstallFails(w) \/ Consume(w)
      BY <2>8 DEF InstallAdmin, InstallFails, Consume
    <2> QED BY <1>9, <2>1, <2>2, <2>3, <2>4, <2>5, <2>6, <2>7, <2>8
  <1>10. ASSUME NEW w \in Workers, Acquire(w) \/ Boot(w) \/ Recycle(w) \/ Mishap(w)
         PROVE  Exclusive'
    <2>1. CASE Boot(w)
      <3>1. Start(w) \/ Finish(w) \/ Inside(w) \/ (Dies(w) /\ UNCHANGED missed)
        BY <2>1, <1>8, <1>9 DEF Boot
      <3>2. CASE Dies(w) /\ UNCHANGED missed
        BY <3>2, <1>3
      <3> QED BY <3>1, <3>2, <1>2, <1>4
    <2>2. CASE Mishap(w)
      BY <2>2, <1>2, <1>6, <1>7, <1>9 DEF Mishap
    <2> QED BY <1>10, <2>1, <2>2, <1>4, <1>5
  <1> QED
    BY <1>1, <1>10 DEF Next

-----------------------------------------------------------------------------
(* The base rows.                                                          *)

LEMMA SeededStep ==
  ASSUME TypeOK, Exclusive, StillEmpty, SeededOnce, [Next]_vars
  PROVE  StillEmpty' /\ SeededOnce'
  <1>1. CASE UNCHANGED vars \/ Administration
    BY <1>1, PagesStep DEF vars, StillEmpty, SeededOnce
  <1>2. ASSUME NEW w \in Workers,
               CountRows(w, "settings", "count settings", "settings", "count branch")
        PROVE  StillEmpty' /\ SeededOnce'
    <2>1. rows["settings"] # 0 => Goto(w, "count branch")
      BY <1>2 DEF CountRows
    <2>2. rows["settings"] # 0 => \A v \in Workers : pc'[v] = "settings" => pc[v] = "settings"
      BY <2>1, GotoType DEF Stages
    <2>3. UNCHANGED <<rows, missed>>
      BY <1>2 DEF CountRows
    <2> QED BY <2>2, <2>3 DEF StillEmpty, SeededOnce
  <1>3. ASSUME NEW w \in Workers, InsertSettings(w), "lock" \notin missed
        PROVE  StillEmpty' /\ SeededOnce'
    <2>1. At(w, "settings") /\ Goto(w, "count branch") /\ UNCHANGED missed
      BY <1>3 DEF InsertSettings
    <2>2. rows["settings"] = 0
      BY <1>3, <2>1 DEF StillEmpty, At
    <2>3. \A t \in Tables : rows'[t] = IF t = "settings" THEN 1 ELSE rows[t]
      <3>1. rows' = [rows EXCEPT !["settings"] = rows["settings"] + 1]
        BY <1>3 DEF InsertSettings
      <3> QED BY <2>2, <3>1 DEF TypeOK
    <2>4. \A v \in Workers : v # w => pc[v] # "settings"
      BY <1>3, <2>1 DEF Exclusive, Critical, Stages, At
    <2>5. \A v \in Workers : pc'[v] # "settings"
      BY <2>1, <2>4, GotoType DEF Stages
    <2>6. \A t \in Tables : rows'[t] <= 1
      BY <1>3, <2>3 DEF SeededOnce
    <2> QED BY <2>5, <2>6, Zenon DEF StillEmpty, SeededOnce
  <1>4. ASSUME NEW w \in Workers, InsertRoles(w) \/ InsertBranch(w)
        PROVE  StillEmpty' /\ SeededOnce'
    <2>1. Quiet(w)
      BY <1>4 DEF Quiet
    <2>2. \A t \in Tables : rows'[t] = rows[t] \/ (t # "settings" /\ rows'[t] = 1)
      <3>1. \/ UNCHANGED rows
            \/ \E x \in {"roles", "branch"} : rows' = [rows EXCEPT ![x] = 1]
        BY <1>4 DEF InsertRoles, InsertBranch
      <3> QED BY <3>1 DEF TypeOK
    <2>3. "settings" \in Tables
      BY DEF Tables
    <2>4. /\ \A v \in Workers : pc'[v] = "settings" => pc[v] = "settings"
          /\ UNCHANGED missed
      BY <1>4, <2>1, QuietStep DEF Relying, InsertRoles, InsertBranch
    <2>5. rows'["settings"] = rows["settings"]
      BY <2>2, <2>3
    <2>6. StillEmpty'
      BY <2>4, <2>5 DEF StillEmpty
    <2>7. (\A t \in Tables : rows[t] <= 1) => (\A t \in Tables : rows'[t] <= 1)
      BY <2>2
    <2> QED BY <2>4, <2>6, <2>7 DEF SeededOnce
  <1>5. ASSUME NEW w \in Workers, Quiet(w), UNCHANGED rows
        PROVE  StillEmpty' /\ SeededOnce'
    BY <1>5, QuietStep DEF StillEmpty, SeededOnce, Relying
  <1>6. ASSUME NEW w \in Workers,
               \/ CountUsers(w) \/ ReadIni(w) \/ InsertAdmin(w) \/ LookForAdmin(w)
               \/ InstallAdmin(w) \/ Consume(w) \/ ReadIniFails(w)
        PROVE  StillEmpty' /\ SeededOnce'
    <2>1. \E stage \in Stages \ {"settings"} : Goto(w, stage)
      BY <1>6 DEF CountUsers, ReadIni, InsertAdmin, LookForAdmin, InstallAdmin, Consume, Dies,
                  ReadIniFails, Stages
    <2>2. \A v \in Workers : pc'[v] = "settings" => pc[v] = "settings"
      BY <2>1, GotoType
    <2>3. UNCHANGED rows /\ missed \subseteq missed'
      BY <1>6 DEF CountUsers, ReadIni, InsertAdmin, LookForAdmin, InstallAdmin, Consume,
                  ReadIniFails
    <2> QED BY <2>2, <2>3 DEF StillEmpty, SeededOnce
  <1>7. ASSUME NEW w \in Workers, Quiet(w),
               ~(InsertRoles(w) \/ InsertBranch(w) \/ InsertSettings(w))
        PROVE  UNCHANGED rows
    BY <1>7 DEF Quiet, Start, LookAtSchema, CreateTables, Patch, CountRows, InsertGrants,
                ReadGrants, Backfill, Finish, Acquire, Recycle, Crash, GoOnWithout, InstallFails
  <1>8. ASSUME NEW w \in Workers, InsertSettings(w), "lock" \in missed
        PROVE  StillEmpty' /\ SeededOnce'
    BY <1>8 DEF InsertSettings, StillEmpty, SeededOnce
  <1>9. ASSUME NEW w \in Workers, Quiet(w)
        PROVE  StillEmpty' /\ SeededOnce'
    BY <1>9, <1>3, <1>4, <1>5, <1>7, <1>8
  <1> QED
    BY <1>1, <1>2, <1>6, <1>9 DEF Next, Boot, Mishap, Quiet

-----------------------------------------------------------------------------
(* The administrators of config.ini and of the factory.                    *)

LEMMA InsertAdminUsers ==
  ASSUME TypeOK, NEW w \in Workers, InsertAdmin(w)
  PROVE  Existing \subseteq Existing'
  <1>1. Factory \in Usernames /\ Administrator(TRUE) # Absent
    BY ConstantsOK, AdministratorType
  <1>2. UNCHANGED users \/ users' = [users EXCEPT ![Factory] = Administrator(TRUE)]
    BY DEF InsertAdmin
  <1> QED BY <1>1, <1>2 DEF Existing, TypeOK

LEMMA InstallAdminUsers ==
  ASSUME TypeOK, NEW w \in Workers, InstallAdmin(w)
  PROVE  /\ Existing \subseteq Existing'
         /\ \A u \in Existing' : users'[u].factory => u \in Existing /\ users[u].factory
         /\ pc'[w] = "consume" => Existing' # {}
  <1>1. Owner \in Usernames /\ Administrator(FALSE) # Absent /\ ~Administrator(FALSE).factory
    BY ConstantsOK, AdministratorType
  <1>2. CASE UNCHANGED users /\ Goto(w, "finish")
    <2>1. pc'[w] = "finish"
      BY <1>2, GotoType DEF Stages
    <2> QED BY <1>2, <2>1 DEF Existing
  <1>3. CASE users' = [users EXCEPT ![Owner] = Administrator(FALSE)]
    <2>1. /\ users'[Owner] = Administrator(FALSE)
          /\ \A v \in Usernames \ {Owner} : users'[v] = users[v]
      BY <1>1, <1>3 DEF TypeOK
    <2> QED BY <1>1, <2>1 DEF Existing
  <1> QED BY <1>2, <1>3 DEF InstallAdmin

LEMMA InstallerStep ==
  ASSUME TypeOK, Exclusive, InstallerOK, [Next]_vars
  PROVE  InstallerOK'
  <1> DEFINE Asking == {"read ini", "admin", "install", "consume"}
  <1>1. CASE UNCHANGED vars
    BY <1>1 DEF vars, access, InstallerOK, Existing
  <1>2. CASE Administration
    BY <1>2, PagesStep DEF InstallerOK
  <1>3. ASSUME NEW w \in Workers,
               \A v \in Workers : pc'[v] \in Asking => pc'[v] = pc[v],
               Existing \subseteq Existing', UNCHANGED ini,
               missed \subseteq missed'
        PROVE  InstallerOK'
    BY <1>3 DEF InstallerOK
  <1>4. ASSUME NEW w \in Workers, Quiet(w)
        PROVE  InstallerOK'
    <2>1. Existing' = Existing
      BY <1>4, QuietStep DEF Existing
    <2> QED BY <1>3, <1>4, <2>1, QuietStep DEF Relying
  <1>5. ASSUME NEW w \in Workers,
               CountRows(w, "settings", "count settings", "settings", "count branch")
        PROVE  InstallerOK'
    <2>1. \E stage \in Stages \ Asking : Goto(w, stage)
      BY <1>5 DEF CountRows, Stages
    <2>2. \A v \in Workers : pc'[v] \in Asking => pc'[v] = pc[v]
      BY <2>1, GotoType
    <2>3. Existing' = Existing /\ UNCHANGED <<ini, missed>>
      BY <1>5 DEF CountRows, access, Existing
    <2> QED BY <1>3, <2>2, <2>3
  <1>6. ASSUME NEW w \in Workers, CountUsers(w)
        PROVE  InstallerOK'
    <2>1. Existing' = Existing /\ UNCHANGED <<ini, missed>>
      BY <1>6 DEF CountUsers, access, Existing
    <2>2. CASE Existing = {}
      <3>1. pc'[w] = "read ini" /\ \A v \in Workers \ {w} : pc'[v] = pc[v]
        BY <1>6, <2>2, GotoType DEF CountUsers, Stages
      <3> QED BY <2>1, <2>2, <3>1 DEF InstallerOK
    <2>3. CASE Existing # {}
      <3>1. pc'[w] = "count settings" /\ \A v \in Workers \ {w} : pc'[v] = pc[v]
        BY <1>6, <2>3, GotoType DEF CountUsers, Stages
      <3> QED BY <2>1, <3>1 DEF InstallerOK
    <2> QED BY <2>2, <2>3
  <1>7. ASSUME NEW w \in Workers, ReadIni(w)
        PROVE  InstallerOK'
    <2>1. Existing' = Existing /\ UNCHANGED <<ini, missed>> /\ pc[w] = "read ini"
      BY <1>7 DEF ReadIni, access, Existing, At
    <2>2. CASE ini = "pending"
      <3>1. pc'[w] = "count settings" /\ \A v \in Workers \ {w} : pc'[v] = pc[v]
        BY <1>7, <2>2, GotoType DEF ReadIni, Stages
      <3> QED BY <2>1, <3>1 DEF InstallerOK
    <2>3. CASE ini # "pending"
      <3>1. pc'[w] = "admin" /\ \A v \in Workers \ {w} : pc'[v] = pc[v]
        BY <1>7, <2>3, GotoType DEF ReadIni, Stages
      <3>2. "lock" \notin missed => ini = "none"
        BY <2>1, <2>3 DEF InstallerOK, TypeOK
      <3> QED BY <2>1, <3>1, <3>2 DEF InstallerOK
    <2> QED BY <2>2, <2>3
  <1>8. ASSUME NEW w \in Workers, InsertAdmin(w)
        PROVE  InstallerOK'
    <2>1. \E stage \in Stages \ Asking : Goto(w, stage)
      BY <1>8 DEF InsertAdmin, Dies, Stages
    <2>2. \A v \in Workers : pc'[v] \in Asking => pc'[v] = pc[v]
      BY <2>1, GotoType
    <2>3. UNCHANGED <<ini, missed>>
      BY <1>8 DEF InsertAdmin
    <2> QED BY <1>3, <1>8, <2>2, <2>3, InsertAdminUsers
  <1>9. ASSUME NEW w \in Workers, LookForAdmin(w)
        PROVE  InstallerOK'
    <2>1. Existing' = Existing /\ UNCHANGED <<ini, missed>>
      BY <1>9 DEF LookForAdmin, access, Existing
    <2>2. /\ \A v \in Workers \ {w} : pc'[v] = pc[v]
          /\ \/ pc'[w] = "finish"
             \/ pc'[w] = "install" /\ ini = "pending"
             \/ pc'[w] = "consume" /\ ini = "pending" /\ Existing # {}
      <3>1. Owner \in Usernames
        BY ConstantsOK
      <3>2. \/ Goto(w, "finish")
            \/ Goto(w, "install") /\ ini = "pending"
            \/ Goto(w, "consume") /\ ini = "pending" /\ Existing # {}
        BY <1>9, <3>1 DEF LookForAdmin, Existing
      <3> QED BY <3>2, GotoType DEF Stages
    <2> QED BY <2>1, <2>2 DEF InstallerOK
  <1>10. ASSUME NEW w \in Workers, InstallAdmin(w)
         PROVE  InstallerOK'
    <2>1. UNCHANGED <<ini, missed>> /\ pc[w] = "install"
      BY <1>10 DEF InstallAdmin, At
    <2>2. pc'[w] \in {"finish", "consume"} /\ \A v \in Workers \ {w} : pc'[v] = pc[v]
      <3>1. Goto(w, "finish") \/ Goto(w, "consume")
        BY <1>10 DEF InstallAdmin
      <3> QED BY <3>1, GotoType DEF Stages
    <2>3. Existing \subseteq Existing' /\ (pc'[w] = "consume" => Existing' # {})
      BY <1>10, InstallAdminUsers
    <2> QED BY <2>1, <2>2, <2>3 DEF InstallerOK
  <1>11. ASSUME NEW w \in Workers, Consume(w)
         PROVE  InstallerOK'
    <2>1. Existing' = Existing /\ UNCHANGED missed /\ ini' = "spent" /\ pc[w] = "consume"
      BY <1>11 DEF Consume, access, Existing, At
    <2>2. pc'[w] = "finish" /\ \A v \in Workers \ {w} : pc'[v] = pc[v]
      BY <1>11, GotoType DEF Consume, Stages
    <2>3. Existing # {}
      BY <2>1 DEF InstallerOK
    <2>4. "lock" \notin missed => \A v \in Workers \ {w} : pc[v] \notin {"read ini", "admin"}
      BY <2>1 DEF Exclusive, Critical, Stages
    <2> QED BY <2>1, <2>2, <2>3, <2>4 DEF InstallerOK
  <1>12. ASSUME NEW w \in Workers, ReadIniFails(w)
         PROVE  InstallerOK'
    <2>1. Existing' = Existing /\ UNCHANGED ini /\ missed' = missed \cup {"config.ini"}
      BY <1>12 DEF ReadIniFails, access, Existing
    <2>2. pc'[w] = "admin" /\ \A v \in Workers \ {w} : pc'[v] = pc[v]
      BY <1>12, GotoType DEF ReadIniFails, Stages
    <2> QED BY <2>1, <2>2 DEF InstallerOK
  <1> QED
    BY <1>1, <1>2, <1>4, <1>5, <1>6, <1>7, <1>8, <1>9, <1>10, <1>11, <1>12
    DEF Next, Boot, Mishap, Quiet

LEMMA OperatorsStep ==
  ASSUME TypeOK, InstallerOK, OperatorsAdmin, [Next]_vars
  PROVE  OperatorsAdmin'
  <1>1. CASE UNCHANGED vars
    BY <1>1 DEF vars, access, OperatorsAdmin, Existing
  <1>2. CASE Administration
    BY <1>2, PagesStep DEF OperatorsAdmin
  <1>3. ASSUME NEW w \in Workers, Quiet(w)
        PROVE  OperatorsAdmin'
    <2>1. Existing' = Existing /\ UNCHANGED <<users, ini>> /\ missed \subseteq missed'
      BY <1>3, QuietStep DEF Existing
    <2> QED BY <2>1 DEF OperatorsAdmin
  <1>4. ASSUME NEW w \in Workers,
               \/ CountRows(w, "settings", "count settings", "settings", "count branch")
               \/ CountUsers(w) \/ ReadIni(w) \/ ReadIniFails(w) \/ LookForAdmin(w)
        PROVE  OperatorsAdmin'
    <2>1. UNCHANGED <<users, ini>> /\ missed \subseteq missed'
      BY <1>4 DEF CountRows, CountUsers, ReadIni, ReadIniFails, LookForAdmin, access
    <2> QED BY <2>1 DEF OperatorsAdmin, Existing
  <1>5. ASSUME NEW w \in Workers, InsertAdmin(w)
        PROVE  OperatorsAdmin'
    <2>1. UNCHANGED <<ini, missed>> /\ pc[w] = "admin"
      BY <1>5 DEF InsertAdmin, At
    <2>2. missed = {} => ini = "none"
      BY <2>1 DEF InstallerOK
    <2> QED BY <2>1, <2>2 DEF OperatorsAdmin
  <1>6. ASSUME NEW w \in Workers, InstallAdmin(w)
        PROVE  OperatorsAdmin'
    <2>1. UNCHANGED <<ini, missed>>
      BY <1>6 DEF InstallAdmin
    <2> QED BY <1>6, <2>1, InstallAdminUsers DEF OperatorsAdmin
  <1>7. ASSUME NEW w \in Workers, Consume(w)
        PROVE  OperatorsAdmin'
    <2>1. UNCHANGED <<users, missed>> /\ pc[w] = "consume"
      BY <1>7 DEF Consume, access, At
    <2>2. ini # "none"
      BY <2>1 DEF InstallerOK
    <2> QED BY <2>1, <2>2 DEF OperatorsAdmin, Existing
  <1> QED
    BY <1>1, <1>2, <1>3, <1>4, <1>5, <1>6, <1>7 DEF Next, Boot, Mishap, Quiet

-----------------------------------------------------------------------------
LEMMA InitHolds ==
  ASSUME Init
  PROVE  IInv
  <1>1. "down" \in Stages \ Critical
    BY DEF Stages, Critical
  <1>2. \A f \in BOOLEAN : Administrator(f) \in Account /\ Administrator(f).factory = f
    BY AdministratorType
  <1>8. \E n \in {0, 1} : rows = [t \in Tables |-> n]
    BY DEF Init
  <1>3. TypeOK
    <2>1. /\ pc \in [Workers -> Stages] /\ lock \in Workers \cup {Nobody}
          /\ seen \in [Workers -> SUBSET ({NoTables} \cup (Roles \X Actions))]
          /\ schema \in {"none", "old", "new"}
      BY <1>1 DEF Init
    <2>2. roles \subseteq Roles /\ grants \in [Roles -> SUBSET Actions]
      BY ConstantsOK DEF Init, Actions
    <2>3. users \in [Usernames -> Account \cup {Absent}]
      BY <1>2 DEF Init
    <2>4. rows \in [Tables -> Nat]
      BY <1>8
    <2>6. events \in 0..MaxEvents
      BY ConstantsOK DEF Init
    <2>5. ini \in {"none", "pending", "spent"} /\ wizard \in BOOLEAN /\ missed \subseteq Needed
      BY DEF Init
    <2> QED BY <2>1, <2>2, <2>3, <2>4, <2>5, <2>6 DEF TypeOK
  <1>4. \A u \in Existing : ~users[u].factory
    BY <1>2 DEF Init, Existing
  <1>5. Exclusive
    BY <1>1 DEF Init, Exclusive
  <1>6. StillEmpty /\ SeededOnce
    <2>1. \A w \in Workers : pc[w] = "down"
      BY DEF Init
    <2>2. \A t \in Tables : rows[t] <= 1
      BY <1>8
    <2> QED BY <2>1, <2>2 DEF StillEmpty, SeededOnce
  <1>7. InstallerOK
    <2>1. ini # "spent" /\ \A w \in Workers : pc[w] = "down"
      BY DEF Init
    <2> QED BY <2>1 DEF InstallerOK
  <1> QED BY <1>3, <1>4, <1>5, <1>6, <1>7 DEF IInv, OperatorsAdmin

LEMMA StepKeeps ==
  ASSUME IInv, [Next]_vars
  PROVE  IInv'
  BY TypeStep, ExclusiveStep, SeededStep, InstallerStep, OperatorsStep DEF IInv

(* Every value has its type: workers that crash at any stage, miss the     *)
(* lock or die of a unique key leave tables the next one can read.         *)
THEOREM TypeCorrect == Spec => []TypeOK
  <1>1. Init => TypeOK
    BY InitHolds DEF IInv
  <1>2. TypeOK /\ [Next]_vars => TypeOK'
    BY TypeStep
  <1> QED BY <1>1, <1>2, PTL DEF Spec

(* However many workers boot at once and crash at whatever stage, the base *)
(* rows of bootstrap/defaults.py are there at most once, as long as nobody *)
(* went on without the lock of utils/file_lock.py.                         *)
THEOREM SeededOnceAlways == Spec => []SeededOnce
  <1>1. Init => IInv
    BY InitHolds
  <1>2. IInv /\ [Next]_vars => IInv'
    BY StepKeeps
  <1>3. IInv => SeededOnce
    BY DEF IInv
  <1> QED BY <1>1, <1>2, <1>3, PTL DEF Spec

(* An installation that chose its administrator in config.ini never gets   *)
(* the account of _ensure_default_admin(), unless a boot that counted no   *)
(* users could not read the file or had no lock: for any number of workers *)
(* and accounts, with the wizard and the pages for accounts at any time,   *)
(* and however often the installation or the wiping of its password fails. *)
THEOREM OperatorsAdminAlways == Spec => []OperatorsAdmin
  <1>1. Init => IInv
    BY InitHolds
  <1>2. IInv /\ [Next]_vars => IInv'
    BY StepKeeps
  <1>3. IInv => OperatorsAdmin
    BY DEF IInv
  <1> QED BY <1>1, <1>2, <1>3, PTL DEF Spec

-----------------------------------------------------------------------------
(* What the instance for TLC runs are behaviours of the three components.  *)

LEMMA BootsOnly == BootSpec => Spec
<1>1. BootInit => Init
  BY DEF BootInit
<1>2. [BootNext]_servervars => [Next]_vars
  BY DEF BootNext, servervars, vars
<1> QED BY <1>1, <1>2, PTL DEF BootSpec, Spec

LEMMA InstallsOnly == InstallSpec => Setup!Spec
<1>1. InstallInit => Setup!Init
  BY DEF InstallInit
<1>2. [InstallNext]_servervars => [Setup!Next]_Setup!vars
  BY DEF InstallNext, servervars, setup, Setup!vars
<1> QED BY <1>1, <1>2, PTL DEF InstallSpec, Setup!Spec

LEMMA StoresOnly == StoreSpec => Store!Spec
<1>1. StoreInit => Store!Init
  BY DEF StoreInit
<1>2. [StoreNext]_servervars => [Store!Next]_Store!vars
  BY DEF StoreNext, servervars, store, Store!vars, Store!setup, Store!history
<1> QED BY <1>1, <1>2, PTL DEF StoreSpec, Store!Spec

-----------------------------------------------------------------------------
(***************************************************************************)
(* Updater, which replaces the files that such a start runs: the same for  *)
(* any files, versions, deletions, faults and packages installed by hand.  *)
(***************************************************************************)

(* No file of d that is in one piece is older than the VERSION of d says.  *)
StampOf(d) == IF d["VERSION"] \in Setup!Versions THEN d["VERSION"] ELSE 1
SoundDisk(d) == \A f \in Files : d[f] \in Setup!Versions => d[f] >= StampOf(d)

(* What an installation under way has made of the disk: nothing of what is *)
(* not in its plan, and of the rest it knows what was there before.        *)
DiskTracked ==
  job # Setup!Idle =>
    LET plan == Setup!Plan(job.version) IN
    /\ DOMAIN job.saved = plan /\ job.left \subseteq plan
    /\ \A f \in plan : job.saved[f] = job.before[f]
    /\ \A f \in Setup!Paths \ plan : disk[f] = job.before[f]
    /\ \A f \in plan : disk[f] \in {job.before[f], Setup!Brought(job.version, f), Setup!Broken}
    /\ job.at = "copy" => \A f \in plan \ job.left : disk[f] = Setup!Brought(job.version, f)
    /\ job.at = "rollback" /\ job.whole =>
         \A f \in plan \ job.left : disk[f] = job.before[f]

StampGuarded ==
  ~blurred => IF job = Setup!Idle THEN SoundDisk(disk) ELSE SoundDisk(job.before)

InstallInv == Setup!TypeOK /\ DiskTracked /\ StampGuarded

-----------------------------------------------------------------------------
(* Plans and what they bring.                                              *)

LEMMA VersionsAre ==
  ASSUME PackagesOK
  PROVE  /\ Setup!Versions \subseteq Nat \ {0} /\ 1 \in Setup!Versions
         /\ Setup!Broken \notin Setup!Versions
         /\ Setup!Absent \notin Setup!Versions /\ Setup!Content \subseteq Int
BY DEF PackagesOK, Setup!Versions, Setup!Broken, Setup!Absent, Setup!Content

LEMMA PlanIs ==
  ASSUME PackagesOK, NEW v \in Setup!Versions
  PROVE  /\ Files \subseteq Setup!Plan(v) /\ Setup!Plan(v) \subseteq Setup!Paths
         /\ "VERSION" \in Setup!Plan(v) <=> v \in Ships
         /\ \A f \in Setup!Paths : /\ Setup!Brought(v, f) \in {Setup!Absent, v}
                                  /\ Setup!Brought(v, f) \in Setup!Content
         /\ Setup!Brought(v, "VERSION") = v
<1>1. Dropped[v] \subseteq Files /\ "VERSION" \notin Files
  BY DEF PackagesOK
<1> QED BY <1>1 DEF Setup!Plan, Setup!Paths, Setup!Brought, Setup!Content

LEMMA JobIs ==
  ASSUME PackagesOK, Setup!TypeOK, job # Setup!Idle
  PROVE  /\ job \in Setup!Job /\ job.at \in Setup!Stages /\ job.version \in Setup!Versions
         /\ job.local \in BOOLEAN /\ job.left \subseteq Setup!Paths
         /\ job.saved \in [DOMAIN job.saved -> Setup!Content]
         /\ job.before \in [Setup!Paths -> Setup!Content] /\ job.whole \in BOOLEAN
<1>1. job \in Setup!Job
  BY DEF Setup!TypeOK
<1>2. job.saved \in UNION {[D -> Setup!Content] : D \in SUBSET Setup!Paths}
  BY <1>1 DEF Setup!Job
<1>3. job.saved \in [DOMAIN job.saved -> Setup!Content]
  BY <1>2
<1> QED BY <1>1, <1>3 DEF Setup!Job

LEMMA IdleIs ==
  ASSUME PackagesOK
  PROVE  /\ Setup!Idle.at = "idle" /\ Setup!Idle.at \notin Setup!Stages
         /\ Setup!Idle \notin Setup!Job
<1>1. Setup!Idle.at = "idle" /\ "idle" \notin Setup!Stages
  BY DEF Setup!Idle, Setup!Stages
<1>2. \A j \in Setup!Job : j.at \in Setup!Stages
  BY DEF Setup!Job
<1> QED BY <1>1, <1>2

LEMMA AtIs ==
  ASSUME PackagesOK, Setup!TypeOK, job.at \in Setup!Stages PROVE job # Setup!Idle
BY IdleIs

(* What an installation leaves that stops half way, torn files included.   *)
LEMMA SoundHalfWay ==
  ASSUME PackagesOK, InstallInv, job # Setup!Idle, ~Setup!Blur(job),
         NEW d \in [Setup!Paths -> Setup!Content],
         \A f \in Setup!Paths : d[f] \in {disk[f], Setup!Broken}
  PROVE  SoundDisk(d)
<1> DEFINE v == job.version
           b == job.before
<1>1. /\ v \in Setup!Versions
      /\ b \in [Setup!Paths -> Setup!Content] /\ disk \in [Setup!Paths -> Setup!Content]
  BY JobIs DEF InstallInv, Setup!TypeOK
<1>2. ~blurred /\ ~(v < b["VERSION"]) /\ v \notin Ships
  BY DEF Setup!Blur
<1>3. SoundDisk(b)
  BY <1>2 DEF InstallInv, StampGuarded
<1>4. "VERSION" \in Setup!Paths /\ Files \subseteq Setup!Paths
  BY DEF Setup!Paths
<1>5. disk["VERSION"] = b["VERSION"]
  BY <1>1, <1>2, <1>4, PlanIs DEF InstallInv, DiskTracked
<1>6. \A f \in Files : disk[f] \in {b[f], Setup!Absent, v, Setup!Broken}
  BY <1>1, <1>4, PlanIs DEF InstallInv, DiskTracked
<1> HIDE DEF v, b
<1> SUFFICES ASSUME NEW f \in Files, d[f] \in Setup!Versions PROVE d[f] >= StampOf(d)
  BY DEF SoundDisk
<1>7. d[f] \in {b[f], v}
  BY <1>4, <1>6, VersionsAre
<1>8. d[f] \in Int /\ d[f] >= 1
  <2>1. \A k \in Setup!Versions : k \in Int /\ k >= 1
    BY DEF PackagesOK, Setup!Versions

  <2> QED BY <2>1
<1>9. CASE d["VERSION"] \in Setup!Versions
  <2>1. d["VERSION"] = b["VERSION"] /\ b["VERSION"] \in Setup!Versions /\ b["VERSION"] \in Int
        /\ v \in Int
    <3>1. d["VERSION"] = disk["VERSION"]
      BY <1>4, <1>9, VersionsAre
    <3>2. \A k \in Setup!Versions : k \in Int
      BY DEF Setup!Versions
    <3> QED BY <1>1, <1>5, <1>9, <3>1, <3>2
  <2>2. StampOf(d) = b["VERSION"] /\ StampOf(b) = b["VERSION"]
    BY <2>1 DEF StampOf
  <2>3. CASE d[f] = v
    BY <1>2, <2>1, <2>2, <2>3
  <2>4. CASE d[f] = b[f]
    BY <1>3, <2>2, <2>4 DEF SoundDisk
  <2> QED BY <1>7, <2>3, <2>4
<1>10. CASE d["VERSION"] \notin Setup!Versions
  BY <1>8, <1>10 DEF StampOf
<1> QED BY <1>9, <1>10

-----------------------------------------------------------------------------
(* Every step keeps the invariant.                                         *)

LEMMA InstallInitOK == ASSUME PackagesOK, Setup!Init PROVE InstallInv
<1>1. /\ disk = [f \in Setup!Paths |-> IF f = "VERSION" THEN 1 ELSE Setup!Brought(1, f)]
      /\ offer = 1 /\ required = FALSE /\ job = Setup!Idle
      /\ faults = 0 /\ uploads = 0 /\ blurred = FALSE
  BY DEF Setup!Init
<1>2. 1 \in Setup!Versions /\ 1 \in Setup!Content
  BY VersionsAre DEF Setup!Content
<1>3. disk \in [Setup!Paths -> Setup!Content]
  BY <1>1, <1>2, PlanIs
<1>4. Setup!TypeOK
  <2>1. faults \in 0..MaxFaults /\ uploads \in 0..MaxUploads
    BY <1>1 DEF PackagesOK

  <2> QED BY <1>1, <1>2, <1>3, <2>1 DEF Setup!TypeOK
<1>5. SoundDisk(disk)
  <2> SUFFICES ASSUME NEW f \in Files, disk[f] \in Setup!Versions PROVE disk[f] >= StampOf(disk)
    BY DEF SoundDisk
  <2>1. f \in Setup!Paths /\ f # "VERSION" /\ "VERSION" \in Setup!Paths
    BY DEF PackagesOK, Setup!Paths

  <2>2. disk[f] = 1 /\ disk["VERSION"] = 1
    BY <1>1, <1>2, <2>1, PlanIs, VersionsAre
  <2> QED BY <2>2, VersionsAre DEF StampOf
<1> QED BY <1>1, <1>4, <1>5 DEF InstallInv, DiskTracked, StampGuarded

(* Steps that leave the files and the installation alone.                  *)
LEMMA FilesAside ==
  ASSUME PackagesOK, InstallInv, Setup!TypeOK', UNCHANGED <<disk, job, blurred>>
  PROVE  InstallInv'
<1>1. DiskTracked'
  BY DEF InstallInv, DiskTracked
<1>2. StampGuarded'
  BY DEF InstallInv, StampGuarded
<1> QED BY <1>1, <1>2 DEF InstallInv

LEMMA PublishKeeps == ASSUME PackagesOK, InstallInv, Setup!Publish PROVE InstallInv'
<1>1. offer' \in Setup!Versions
  BY DEF PackagesOK, Setup!Publish, InstallInv, Setup!TypeOK, Setup!Versions
<1>2. UNCHANGED <<disk, required, job, faults, uploads, blurred>>
  BY DEF Setup!Publish
<1>3. Setup!TypeOK'
  BY <1>1, <1>2 DEF InstallInv, Setup!TypeOK
<1> QED BY <1>2, <1>3, FilesAside

LEMMA AskKeeps ==
  ASSUME PackagesOK, InstallInv, Setup!NothingNew \/ Setup!DownloadFails
  PROVE  InstallInv'
<1>1. UNCHANGED <<disk, offer, job, faults, uploads, blurred>>
  BY DEF Setup!NothingNew, Setup!DownloadFails
<1>2. required' \in BOOLEAN
  BY DEF Setup!NothingNew, Setup!DownloadFails, InstallInv, Setup!TypeOK
<1>3. Setup!TypeOK'
  BY <1>1, <1>2 DEF InstallInv, Setup!TypeOK
<1> QED BY <1>1, <1>3, FilesAside

(* An installation begins.                                                 *)
LEMMA BeginInstallKeeps ==
  ASSUME PackagesOK, InstallInv, job = Setup!Idle, NEW v \in Setup!Versions,
         NEW local \in BOOLEAN, Setup!Begin(v, local),
         UNCHANGED <<disk, offer, required, faults, blurred>>, uploads' \in 0..MaxUploads
  PROVE  InstallInv'
<1> DEFINE plan == Setup!Plan(v)
           saved == Setup!Backup(plan)
<1>1. job' = [at |-> "copy", version |-> v, local |-> local, left |-> plan,
              saved |-> saved, before |-> disk, whole |-> TRUE]
  BY DEF Setup!Begin
<1>2. disk \in [Setup!Paths -> Setup!Content] /\ plan \in SUBSET Setup!Paths
  BY PlanIs DEF InstallInv, Setup!TypeOK
<1>3. /\ saved \in [plan -> Setup!Content] /\ DOMAIN saved = plan
      /\ \A f \in plan : saved[f] = disk[f]
  BY <1>2 DEF Setup!Backup
<1> HIDE DEF saved
<1>4. saved \in UNION {[D -> Setup!Content] : D \in SUBSET Setup!Paths}
  BY <1>2, <1>3
<1>5. job' \in Setup!Job
  BY <1>1, <1>2, <1>4 DEF Setup!Job, Setup!Stages
<1>6. Setup!TypeOK'
  BY <1>5 DEF InstallInv, Setup!TypeOK
<1>7. /\ job'.at = "copy" /\ job'.version = v /\ job'.left = plan /\ job'.saved = saved
      /\ job'.before = disk
  BY <1>1
<1>8. DiskTracked'
  BY <1>3, <1>7 DEF DiskTracked
<1>9. StampGuarded'
  <2>1. ~blurred => SoundDisk(disk)
    BY DEF InstallInv, StampGuarded
  <2>2. job' # Setup!Idle
    BY <1>5, IdleIs
  <2> QED BY <1>7, <2>1, <2>2 DEF StampGuarded
<1> QED BY <1>6, <1>8, <1>9 DEF InstallInv

LEMMA BeginUpdateKeeps ==
  ASSUME PackagesOK, InstallInv, Setup!BeginUpdate
  PROVE  InstallInv'
<1>1. offer \in Setup!Versions /\ uploads' \in 0..MaxUploads
  BY DEF Setup!BeginUpdate, InstallInv, Setup!TypeOK
<1> QED BY <1>1, BeginInstallKeeps DEF Setup!BeginUpdate

LEMMA BeginLocalKeeps ==
  ASSUME PackagesOK, InstallInv, NEW v \in Setup!Versions, Setup!BeginLocal(v)
  PROVE  InstallInv'
<1>1. uploads' \in 0..MaxUploads
  BY DEF PackagesOK, Setup!BeginLocal, InstallInv, Setup!TypeOK
<1> QED BY <1>1, BeginInstallKeeps DEF Setup!BeginLocal

-----------------------------------------------------------------------------
(* An installation under way.                                              *)

(* It goes on, at stage at, with left to do.                               *)
LEMMA InstallGoesOn ==
  ASSUME PackagesOK, InstallInv, job # Setup!Idle, NEW at \in Setup!Stages,
         NEW left \in SUBSET Setup!Plan(job.version),
         NEW whole \in BOOLEAN,
         job' = [job EXCEPT !.at = at, !.left = left, !.whole = whole],
         disk' \in [Setup!Paths -> Setup!Content],
         \A f \in Setup!Paths \ Setup!Plan(job.version) : disk'[f] = disk[f],
         \A f \in Setup!Plan(job.version) :
           disk'[f] \in {job.before[f], Setup!Brought(job.version, f), Setup!Broken},
         at = "copy" =>
           \A f \in Setup!Plan(job.version) \ left : disk'[f] = Setup!Brought(job.version, f),
         at = "rollback" /\ whole =>
           \A f \in Setup!Plan(job.version) \ left : disk'[f] = job.before[f],
         faults' \in 0..MaxFaults, UNCHANGED <<offer, required, uploads, blurred>>
  PROVE  InstallInv'
<1>1. job \in Setup!Job /\ job.version \in Setup!Versions
  BY JobIs DEF InstallInv
<1>2. left \in SUBSET Setup!Paths
  BY <1>1, PlanIs
<1>3. job' \in Setup!Job
  BY <1>1, <1>2 DEF Setup!Job
<1>4. /\ job'.at = at /\ job'.left = left /\ job'.whole = whole
      /\ job'.version = job.version /\ job'.saved = job.saved /\ job'.before = job.before
  BY <1>1 DEF Setup!Job
<1>5. Setup!TypeOK'
  BY <1>3 DEF InstallInv, Setup!TypeOK
<1>6. DiskTracked'
  BY <1>4 DEF InstallInv, DiskTracked
<1>7. StampGuarded'
  <2>1. job' # Setup!Idle
    BY <1>3, IdleIs
  <2> QED BY <1>4, <2>1 DEF InstallInv, StampGuarded
<1> QED BY <1>5, <1>6, <1>7 DEF InstallInv

LEMMA CopyFileKeeps ==
  ASSUME PackagesOK, InstallInv, NEW f \in Setup!Paths, Setup!CopyFile(f)
  PROVE  InstallInv'
<1> DEFINE left == job.left \ {f}
<1>1. /\ job.at = "copy" /\ f \in job.left /\ job' = [job EXCEPT !.left = left]
      /\ disk' = [disk EXCEPT ![f] = Setup!Brought(job.version, f)]
      /\ UNCHANGED <<offer, required, faults, uploads, blurred>>
  BY DEF Setup!CopyFile
<1>2. job # Setup!Idle
  BY <1>1, AtIs DEF InstallInv, Setup!Stages
<1>3. job \in Setup!Job /\ job.version \in Setup!Versions /\ job.whole \in BOOLEAN
  BY <1>2, JobIs DEF InstallInv
<1>4. job.left \subseteq Setup!Plan(job.version)
  BY <1>2 DEF InstallInv, DiskTracked
<1>5. job' = [job EXCEPT !.at = "copy", !.left = left, !.whole = job.whole]
  BY <1>1, <1>3 DEF Setup!Job
<1>6. disk \in [Setup!Paths -> Setup!Content] /\ Setup!Brought(job.version, f) \in Setup!Content
  BY <1>3, PlanIs DEF InstallInv, Setup!TypeOK
<1>7. /\ disk' \in [Setup!Paths -> Setup!Content] /\ disk'[f] = Setup!Brought(job.version, f)
      /\ \A g \in Setup!Paths : g # f => disk'[g] = disk[g]
  BY <1>1, <1>6
<1>8. \A g \in Setup!Paths \ Setup!Plan(job.version) : disk'[g] = disk[g]
  BY <1>1, <1>4, <1>7
<1>9. Setup!Plan(job.version) \subseteq Setup!Paths
  BY <1>3, PlanIs
<1>10. \A g \in Setup!Plan(job.version) :
         disk'[g] \in {job.before[g], Setup!Brought(job.version, g), Setup!Broken}
  BY <1>2, <1>7, <1>9 DEF InstallInv, DiskTracked
<1>11. \A g \in Setup!Plan(job.version) \ left : disk'[g] = Setup!Brought(job.version, g)
  BY <1>1, <1>2, <1>7, <1>9 DEF InstallInv, DiskTracked
<1>12. left \in SUBSET Setup!Plan(job.version) /\ "copy" \in Setup!Stages
       /\ faults' \in 0..MaxFaults
       /\ "copy" # "rollback"
  BY <1>1, <1>4 DEF Setup!Stages, InstallInv, Setup!TypeOK
<1>13. UNCHANGED <<offer, required, uploads, blurred>>
  BY <1>1
<1> HIDE DEF left
<1> QED BY <1>2, <1>3, <1>5, <1>7, <1>8, <1>10, <1>11, <1>12, <1>13, InstallGoesOn

LEMMA CopyFailsKeeps ==
  ASSUME PackagesOK, InstallInv, NEW f \in Setup!Paths, Setup!CopyFails(f)
  PROVE  InstallInv'
<1>1. /\ job.at = "copy" /\ f \in job.left
      /\ job' = [job EXCEPT !.at = "rollback", !.left = DOMAIN job.saved]
      /\ \/ disk' = disk
         \/ disk' = [disk EXCEPT ![f] = Setup!Broken]
      /\ faults < MaxFaults /\ faults' = faults + 1
      /\ UNCHANGED <<offer, required, uploads, blurred>>
  BY DEF Setup!CopyFails, Setup!Fault
<1>2. job # Setup!Idle
  BY <1>1, AtIs DEF InstallInv, Setup!Stages
<1>3. job \in Setup!Job /\ job.version \in Setup!Versions /\ job.whole \in BOOLEAN
  BY <1>2, JobIs DEF InstallInv
<1>4. job.left \subseteq Setup!Plan(job.version) /\ DOMAIN job.saved = Setup!Plan(job.version)
  BY <1>2 DEF InstallInv, DiskTracked
<1>5. job' = [job EXCEPT !.at = "rollback", !.left = Setup!Plan(job.version), !.whole = job.whole]
  BY <1>1, <1>3, <1>4 DEF Setup!Job
<1>6. disk \in [Setup!Paths -> Setup!Content] /\ Setup!Broken \in Setup!Content
  BY DEF InstallInv, Setup!TypeOK, Setup!Content
<1>7. /\ disk' \in [Setup!Paths -> Setup!Content] /\ disk'[f] \in {disk[f], Setup!Broken}
      /\ \A g \in Setup!Paths : g # f => disk'[g] = disk[g]
  BY <1>1, <1>6
<1>8. \A g \in Setup!Paths \ Setup!Plan(job.version) : disk'[g] = disk[g]
  BY <1>1, <1>4, <1>7
<1>9. Setup!Plan(job.version) \subseteq Setup!Paths
  BY <1>3, PlanIs
<1>10. \A g \in Setup!Plan(job.version) :
         disk'[g] \in {job.before[g], Setup!Brought(job.version, g), Setup!Broken}
  BY <1>2, <1>7, <1>9 DEF InstallInv, DiskTracked
<1>11. "rollback" \in Setup!Stages /\ "rollback" # "copy" /\ faults' \in 0..MaxFaults
  BY <1>1 DEF PackagesOK, Setup!Stages, InstallInv, Setup!TypeOK

<1>12. Setup!Plan(job.version) \in SUBSET Setup!Plan(job.version)
  OBVIOUS
<1>13. job.whole =>
         \A g \in Setup!Plan(job.version) \ Setup!Plan(job.version) : disk'[g] = job.before[g]
  OBVIOUS
<1>14. UNCHANGED <<offer, required, uploads, blurred>>
  BY <1>1
<1> QED BY <1>2, <1>3, <1>5, <1>7, <1>8, <1>10, <1>11, <1>12, <1>13, <1>14, InstallGoesOn

LEMMA RollFileKeeps ==
  ASSUME PackagesOK, InstallInv, NEW f \in Setup!Paths, Setup!RollFile(f)
  PROVE  InstallInv'
<1> DEFINE left == job.left \ {f}
<1>1. /\ job.at = "rollback" /\ f \in job.left
      /\ UNCHANGED <<offer, required, faults, uploads, blurred>>
      /\ \/ /\ disk' = [disk EXCEPT ![f] = job.saved[f]]
            /\ job' = [job EXCEPT !.left = left]
         \/ /\ disk' = disk
            /\ job' = [job EXCEPT !.left = left, !.whole = FALSE]
  BY DEF Setup!RollFile
<1>2. job # Setup!Idle
  BY <1>1, AtIs DEF InstallInv, Setup!Stages
<1>3. job \in Setup!Job /\ job.version \in Setup!Versions /\ job.whole \in BOOLEAN
      /\ job.before \in [Setup!Paths -> Setup!Content]
  BY <1>2, JobIs DEF InstallInv
<1>4. job.left \subseteq Setup!Plan(job.version) /\ Setup!Plan(job.version) \subseteq Setup!Paths
      /\ f \in Setup!Plan(job.version) /\ job.saved[f] = job.before[f]
  BY <1>1, <1>2, <1>3, PlanIs DEF InstallInv, DiskTracked
<1>5. disk \in [Setup!Paths -> Setup!Content] /\ job.before[f] \in Setup!Content
  BY <1>3 DEF InstallInv, Setup!TypeOK
<1>6. "rollback" \in Setup!Stages /\ left \in SUBSET Setup!Plan(job.version)
      /\ faults' \in 0..MaxFaults /\ "rollback" # "copy"
  BY <1>1, <1>4 DEF Setup!Stages, InstallInv, Setup!TypeOK
<1>7. CASE disk' = [disk EXCEPT ![f] = job.saved[f]] /\ job' = [job EXCEPT !.left = left]
  <2>1. job' = [job EXCEPT !.at = "rollback", !.left = left, !.whole = job.whole]
    BY <1>1, <1>3, <1>7 DEF Setup!Job
  <2>2. /\ disk' \in [Setup!Paths -> Setup!Content] /\ disk'[f] = job.before[f]
        /\ \A g \in Setup!Paths : g # f => disk'[g] = disk[g]
    BY <1>4, <1>5, <1>7
  <2>3. \A g \in Setup!Paths \ Setup!Plan(job.version) : disk'[g] = disk[g]
    BY <1>4, <2>2
  <2>4. \A g \in Setup!Plan(job.version) :
          disk'[g] \in {job.before[g], Setup!Brought(job.version, g), Setup!Broken}
    BY <1>2, <1>4, <2>2 DEF InstallInv, DiskTracked
  <2>5. job.whole => \A g \in Setup!Plan(job.version) \ left : disk'[g] = job.before[g]
    BY <1>1, <1>2, <1>4, <2>2 DEF InstallInv, DiskTracked
  <2> HIDE DEF left
  <2> QED BY <1>1, <1>2, <1>3, <1>6, <2>1, <2>2, <2>3, <2>4, <2>5, InstallGoesOn
<1>8. CASE disk' = disk /\ job' = [job EXCEPT !.left = left, !.whole = FALSE]
  <2>1. job' = [job EXCEPT !.at = "rollback", !.left = left, !.whole = FALSE]
    BY <1>1, <1>3, <1>8 DEF Setup!Job
  <2>2. disk' \in [Setup!Paths -> Setup!Content]
        /\ \A g \in Setup!Paths \ Setup!Plan(job.version) : disk'[g] = disk[g]
    BY <1>5, <1>8
  <2>3. \A g \in Setup!Plan(job.version) :
          disk'[g] \in {job.before[g], Setup!Brought(job.version, g), Setup!Broken}
    BY <1>2, <1>8 DEF InstallInv, DiskTracked
  <2>4. FALSE \in BOOLEAN
    OBVIOUS
  <2> HIDE DEF left
  <2> QED BY <1>1, <1>2, <1>6, <2>1, <2>2, <2>3, <2>4, InstallGoesOn
<1> QED BY <1>1, <1>7, <1>8

-----------------------------------------------------------------------------
(* An installation ends.                                                   *)

LEMMA InstallEnds ==
  ASSUME PackagesOK, InstallInv, job' = Setup!Idle, disk' \in [Setup!Paths -> Setup!Content],
         ~blurred' => SoundDisk(disk'),
         offer' = offer, required' \in BOOLEAN, blurred' \in BOOLEAN,
         faults' \in 0..MaxFaults, uploads' = uploads
  PROVE  InstallInv'
<1>1. Setup!TypeOK'
  BY DEF InstallInv, Setup!TypeOK
<1>2. StampGuarded'
  <2>1. SoundDisk(disk') <=> SoundDisk(disk)'
    BY DEF SoundDisk, StampOf
  <2> QED BY <2>1 DEF StampGuarded
<1> QED BY <1>1, <1>2 DEF InstallInv, DiskTracked

LEMMA BlurIs ==
  ASSUME PackagesOK, InstallInv, job # Setup!Idle PROVE Setup!Blur(job) \in BOOLEAN
BY DEF Setup!Blur, InstallInv, Setup!TypeOK

LEMMA WriteVersionKeeps ==
  ASSUME PackagesOK, InstallInv, Setup!WriteVersion
  PROVE  InstallInv'
<1> DEFINE v == job.version
<1>1. /\ job.at = "copy" /\ job.left = {} /\ disk' = [disk EXCEPT !["VERSION"] = v]
      /\ required' = FALSE /\ job' = Setup!Idle
      /\ UNCHANGED <<offer, faults, uploads, blurred>>
  BY DEF Setup!WriteVersion
<1>2. job # Setup!Idle
  BY <1>1, AtIs DEF InstallInv, Setup!Stages
<1>3. v \in Setup!Versions /\ v \in Setup!Content /\ disk \in [Setup!Paths -> Setup!Content]
  BY <1>2, JobIs DEF InstallInv, Setup!TypeOK, Setup!Content
<1>4. "VERSION" \in Setup!Paths /\ "VERSION" \notin Files /\ Files \subseteq Setup!Paths
  BY DEF PackagesOK, Setup!Paths
<1>5. /\ disk' \in [Setup!Paths -> Setup!Content] /\ disk'["VERSION"] = v
      /\ \A f \in Files : disk'[f] = disk[f]
  BY <1>1, <1>3, <1>4
<1>6. \A f \in Files : disk[f] \in {Setup!Absent, v}
  <2>1. \A f \in Files : f \in Setup!Plan(v) /\ Setup!Brought(v, f) \in {Setup!Absent, v}
    BY <1>3, <1>4, PlanIs
  <2> QED BY <1>1, <1>2, <2>1 DEF InstallInv, DiskTracked
<1> HIDE DEF v
<1>7. SoundDisk(disk')
  <2>1. StampOf(disk') = v /\ v \in Int
    BY <1>3, <1>5 DEF StampOf, Setup!Versions
  <2>2. \A f \in Files : disk'[f] \in Setup!Versions => disk'[f] = v
    BY <1>5, <1>6, VersionsAre
  <2> QED BY <2>1, <2>2 DEF SoundDisk
<1>8. required' \in BOOLEAN /\ blurred' \in BOOLEAN /\ faults' \in 0..MaxFaults
  BY <1>1 DEF InstallInv, Setup!TypeOK
<1> QED BY <1>1, <1>5, <1>7, <1>8, InstallEnds

LEMMA StopsKeeps ==
  ASSUME PackagesOK, InstallInv, Setup!FinishUnnamed \/ Setup!VersionFails
  PROVE  InstallInv'
<1>1. /\ job.at = "copy" /\ job' = Setup!Idle /\ blurred' = Setup!Blur(job)
      /\ UNCHANGED <<disk, offer, uploads>>
  BY DEF Setup!FinishUnnamed, Setup!VersionFails
<1>2. job # Setup!Idle
  BY <1>1, AtIs DEF InstallInv, Setup!Stages
<1>3. faults' \in 0..MaxFaults
  BY DEF PackagesOK, Setup!FinishUnnamed, Setup!VersionFails, Setup!Fault, InstallInv, Setup!TypeOK
<1>4. required' \in BOOLEAN
  BY <1>2, JobIs DEF Setup!FinishUnnamed, Setup!VersionFails, InstallInv, Setup!TypeOK
<1>5. /\ disk' \in [Setup!Paths -> Setup!Content]
      /\ \A f \in Setup!Paths : disk'[f] \in {disk[f], Setup!Broken}
  BY <1>1 DEF InstallInv, Setup!TypeOK
<1>6. ~blurred' => SoundDisk(disk')
  BY <1>1, <1>2, <1>5, SoundHalfWay
<1> QED BY <1>1, <1>2, <1>3, <1>4, <1>5, <1>6, BlurIs, InstallEnds

(* With every file restored the disk is what it was.                       *)
LEMMA RolledBack ==
  ASSUME PackagesOK, InstallInv, job.at = "rollback", job.left = {}, job.whole
  PROVE  disk = job.before
<1>1. job # Setup!Idle
  BY AtIs DEF InstallInv, Setup!Stages
<1>2. disk \in [Setup!Paths -> Setup!Content] /\ job.before \in [Setup!Paths -> Setup!Content]
  BY <1>1, JobIs DEF InstallInv, Setup!TypeOK
<1>3. \A f \in Setup!Paths : disk[f] = job.before[f]
  BY <1>1 DEF InstallInv, DiskTracked
<1> QED BY <1>2, <1>3

LEMMA EndRollbackKeeps ==
  ASSUME PackagesOK, InstallInv, Setup!EndRollback
  PROVE  InstallInv'
<1>1. /\ job.at = "rollback" /\ job.left = {} /\ job' = Setup!Idle
      /\ blurred' = (IF job.whole THEN blurred ELSE Setup!Blur(job))
      /\ UNCHANGED <<disk, offer, faults, uploads>>
  BY DEF Setup!EndRollback
<1>2. job # Setup!Idle
  BY <1>1, AtIs DEF InstallInv, Setup!Stages
<1>3. required' \in BOOLEAN
  BY <1>2, JobIs DEF Setup!EndRollback, InstallInv, Setup!TypeOK
<1>4. /\ disk' \in [Setup!Paths -> Setup!Content]
      /\ \A f \in Setup!Paths : disk'[f] \in {disk[f], Setup!Broken}
  BY <1>1 DEF InstallInv, Setup!TypeOK
<1>5. ~blurred' => SoundDisk(disk')
  <2>1. CASE job.whole
    BY <1>1, <1>2, <2>1, RolledBack DEF InstallInv, StampGuarded
  <2>2. CASE ~job.whole
    BY <1>1, <1>2, <1>4, <2>2, SoundHalfWay
  <2> QED BY <2>1, <2>2
<1>6. blurred' \in BOOLEAN /\ faults' \in 0..MaxFaults
  BY <1>1, <1>2, BlurIs DEF InstallInv, Setup!TypeOK
<1> QED BY <1>1, <1>3, <1>4, <1>5, <1>6, InstallEnds

LEMMA InstallCrashKeeps ==
  ASSUME PackagesOK, InstallInv, Setup!Crash
  PROVE  InstallInv'
<1>1. /\ faults < MaxFaults /\ faults' = faults + 1 /\ required' = FALSE /\ job' = Setup!Idle
      /\ blurred' = (IF job = Setup!Idle THEN blurred ELSE Setup!Blur(job))
      /\ UNCHANGED <<offer, uploads>>
  BY DEF Setup!Crash, Setup!Fault
<1>2. disk \in [Setup!Paths -> Setup!Content] /\ Setup!Broken \in Setup!Content
      /\ "VERSION" \in Setup!Paths
  BY DEF InstallInv, Setup!TypeOK, Setup!Content, Setup!Paths
<1>3. \/ disk' = disk
      \/ job # Setup!Idle /\ \E f \in Setup!Paths : disk' = [disk EXCEPT ![f] = Setup!Broken]
  <2>1. job.at = "copy" => job # Setup!Idle
    BY AtIs DEF InstallInv, Setup!Stages
  <2> QED BY <1>2, <2>1 DEF Setup!Crash
<1>4. /\ disk' \in [Setup!Paths -> Setup!Content]
      /\ \A f \in Setup!Paths : disk'[f] \in {disk[f], Setup!Broken}
  BY <1>2, <1>3
<1>5. ~blurred' => SoundDisk(disk')
  <2>1. CASE job = Setup!Idle
    BY <1>1, <1>3, <2>1 DEF InstallInv, StampGuarded
  <2>2. CASE job # Setup!Idle
    BY <1>1, <1>4, <2>2, SoundHalfWay
  <2> QED BY <2>1, <2>2
<1>6. blurred' \in BOOLEAN /\ required' \in BOOLEAN
  BY <1>1, BlurIs DEF InstallInv, Setup!TypeOK
<1>7. faults' \in 0..MaxFaults
  BY <1>1 DEF PackagesOK, InstallInv, Setup!TypeOK

<1> QED BY <1>1, <1>4, <1>5, <1>6, <1>7, InstallEnds

LEMMA InstallStep ==
  ASSUME PackagesOK, InstallInv, [Setup!Next]_Setup!vars
  PROVE  InstallInv'
<1>1. CASE Setup!Publish
  BY <1>1, PublishKeeps
<1>2. CASE Setup!NothingNew \/ Setup!DownloadFails
  BY <1>2, AskKeeps
<1>3. CASE Setup!Install
  <2>1. CASE Setup!BeginUpdate \/ Setup!WriteVersion \/ Setup!FinishUnnamed
             \/ Setup!VersionFails \/ Setup!EndRollback
    BY <2>1, BeginUpdateKeeps, WriteVersionKeeps, StopsKeeps, EndRollbackKeeps, Zenon
  <2>2. CASE \E f \in Setup!Paths : Setup!CopyFile(f) \/ Setup!CopyFails(f) \/ Setup!RollFile(f)
    BY <2>2, CopyFileKeeps, CopyFailsKeeps, RollFileKeeps, Zenon
  <2> QED BY <1>3, <2>1, <2>2, Zenon DEF Setup!Install
<1>4. CASE Setup!Crash
  BY <1>4, InstallCrashKeeps
<1>5. CASE \E v \in Setup!Versions : Setup!BeginLocal(v)
  BY <1>5, BeginLocalKeeps, Zenon
<1>6. CASE UNCHANGED Setup!vars
  <2>1. UNCHANGED <<disk, offer, required, job, faults, uploads, blurred>>
    BY <1>6 DEF Setup!vars
  <2>2. Setup!TypeOK'
    BY <2>1 DEF InstallInv, Setup!TypeOK
  <2> QED BY <2>1, <2>2, FilesAside
<1> QED BY <1>1, <1>2, <1>3, <1>4, <1>5, <1>6, Zenon DEF Setup!Next

-----------------------------------------------------------------------------
(* Theorems.                                                               *)

LEMMA InstallInvariance ==
  ASSUME PackagesOK
  PROVE  Setup!Spec => []InstallInv
<1>1. Setup!Init => InstallInv
  BY InstallInitOK
<1>2. InstallInv /\ [Setup!Next]_Setup!vars => InstallInv'
  BY InstallStep
<1> QED BY <1>1, <1>2, PTL DEF Setup!Spec

(* Every variable keeps its type.                                          *)
THEOREM InstallTypeCorrect == InstallSpec => []Setup!TypeOK
<1>1. InstallInv => Setup!TypeOK
  BY DEF InstallInv
<1> QED BY <1>1, ServerOK, InstallsOnly, InstallInvariance, PTL

(* VERSION never promises more than the files hold, whatever errors and    *)
(* crashes came at whatever file (license_updater.py, apply_update() and   *)
(* _rollback()); installations that Blur names aside.                      *)
THEOREM StampNotAheadAlways == InstallSpec => []StampNotAhead
<1>1. InstallInv => StampNotAhead
  BY DEF InstallInv, StampGuarded, StampNotAhead, Setup!StampNotAhead, SoundDisk, StampOf,
         Setup!Stamp
<1> QED BY <1>1, ServerOK, InstallsOnly, InstallInvariance, PTL

(* A failed installation whose files were all restored has left the disk   *)
(* as it found it (license_updater.py, _backup_targets() and _rollback()). *)
THEOREM RollbackRestoresAlways == InstallSpec => RollbackRestores
<1> DEFINE Step == job.at = "rollback" /\ job.left = {} /\ job.whole /\ job' = Setup!Idle
                     => disk' = job.before
<1>1. InstallInv /\ [Setup!Next]_Setup!vars => [Step]_Setup!vars
  <2> SUFFICES ASSUME InstallInv, Setup!Next, job.at = "rollback", job.left = {}, job.whole,
                      job' = Setup!Idle
               PROVE  disk' = job.before
    OBVIOUS
  <2>1. disk = job.before
    BY ServerOK, RolledBack
  <2>2. job # Setup!Idle /\ job.at # "copy"
    BY ServerOK, AtIs DEF InstallInv, Setup!Stages
  <2>3. disk' = disk
    BY <2>2 DEF Setup!Next, Setup!Install, Setup!Publish, Setup!NothingNew, Setup!DownloadFails,
       Setup!Crash, Setup!BeginLocal,
       Setup!BeginUpdate, Setup!WriteVersion, Setup!FinishUnnamed, Setup!VersionFails, Setup!EndRollback,
       Setup!CopyFile, Setup!CopyFails, Setup!RollFile
  <2> QED BY <2>1, <2>3
<1>2. [][Setup!Next]_Setup!vars /\ []InstallInv => [][Step]_Setup!vars
  BY <1>1, PTL
<1>3. InstallSpec => [][Setup!Next]_Setup!vars /\ []InstallInv
  BY ServerOK, InstallsOnly, InstallInvariance, PTL DEF Setup!Spec
<1> QED BY <1>2, <1>3, PTL DEF RollbackRestores, Setup!RollbackRestores

-----------------------------------------------------------------------------
(***************************************************************************)
(* Backup, which keeps packages of the data that such an installation has: *)
(* the same for any commits and any number of packages, restorations and   *)
(* crashes.  `errand` is its variable job, `clicks` its variable events.   *)
(***************************************************************************)

LEMMA StoreCardinality == \A S : Store!Cardinality(S) = Cardinality(S)
  BY Zenon DEF Store!Cardinality, Cardinality

(* What is in no other place than the database: nothing, while it is being *)
(* written over; and before that the safety package, as yet incomplete,    *)
(* holds it.  Ordinary packages are never relied upon, they may be pruned. *)
Safety == {i \in DOMAIN folder : folder[i].kind = "safety"}
Elsewhere == unguarded \cup discarded \cup Store!Holds(Safety) \cup before
Stored == IF db = Torn THEN {} ELSE db

Packing(s) == errand[s].at = "pack" /\ errand[s].next = "replace"
Writing(s) == errand[s].at \in {"replace", "copy", "swap"}

(* Who writes a package has not finished it.                               *)
OwnOK ==
  \A i \in DOMAIN folder, s \in Store!Sessions :
    folder[i].by = s => ~folder[i].whole /\ errand[s].at = "pack"

(* The scheduler restores nothing.                                         *)
RestorerOK == ~Packing("scheduler") /\ ~Writing("scheduler")

Covered ==
  /\ made \subseteq Elsewhere \cup Stored
  /\ \A s \in Store!Sessions : Writing(s) => made \subseteq Elsewhere
  /\ \A s \in Store!Sessions : Packing(s) =>
       \A i \in Store!Own(s) : i \in Safety /\ made \subseteq Elsewhere \cup folder[i].content

StoreInv == Store!TypeOK /\ OwnOK /\ RestorerOK /\ Covered

-----------------------------------------------------------------------------
(* Packages.                                                               *)

(* The members of a finite set of places can be counted off.               *)
LEMMA CountedOff ==
  ASSUME NEW n \in Nat, NEW K \in SUBSET (1..n)
  PROVE  /\ Cardinality(K) \in Nat
         /\ \A k \in 1..Cardinality(K) : Store!Nth(K, k) \in K
         /\ \A i \in K : \E k \in 1..Cardinality(K) : Store!Nth(K, k) = i
<1> DEFINE upto(i) == {j \in K : j <= i}
           count == [i \in K |-> Cardinality(upto(i))]
<1>1. IsFiniteSet(K) /\ Cardinality(K) \in Nat
  <2>1. IsFiniteSet(1..n)
    <3>1. n \in Int /\ 1 \in Int
      OBVIOUS
    <3> QED BY <3>1, FS_Interval
  <2> QED BY <2>1, FS_Subset, FS_CardinalityType
<1>2. ASSUME NEW i \in K
      PROVE  IsFiniteSet(upto(i)) /\ count[i] \in 1..Cardinality(K)
  <2>1. /\ IsFiniteSet(upto(i)) /\ Cardinality(upto(i)) \in Nat
        /\ Cardinality(upto(i)) <= Cardinality(K)
    BY <1>1, FS_Subset, FS_CardinalityType
  <2>2. i \in upto(i)
    OBVIOUS
  <2>3. Cardinality(upto(i)) # 0
    BY <2>1, <2>2, FS_EmptySet
  <2>4. count[i] = Cardinality(upto(i))
    OBVIOUS
  <2> HIDE DEF upto, count
  <2> QED BY <1>1, <2>1, <2>3, <2>4
<1>3. ASSUME NEW i \in K, NEW j \in K, i < j PROVE count[i] < count[j]
  <2>1. upto(i) \subseteq upto(j) /\ j \in upto(j) /\ j \notin upto(i)
    <3>1. i \in Int /\ j \in Int /\ \A k \in K : k \in Int
      OBVIOUS
    <3>2. j <= j /\ ~(j <= i) /\ \A k \in K : k <= i => k <= j
      BY <1>3, <3>1
    <3> QED BY <3>2
  <2>2. Cardinality(upto(i)) < Cardinality(upto(j))
    <3>1. IsFiniteSet(upto(i)) /\ IsFiniteSet(upto(j))
      BY <1>2
    <3>2. upto(i) # upto(j)
      BY <2>1
    <3> HIDE DEF upto
    <3>3. Cardinality(upto(i)) <= Cardinality(upto(j))
          /\ Cardinality(upto(i)) \in Nat /\ Cardinality(upto(j)) \in Nat
      BY <2>1, <3>1, FS_Subset, FS_CardinalityType
    <3>4. Cardinality(upto(i)) # Cardinality(upto(j))
      BY <2>1, <3>1, <3>2, FS_Subset
    <3> QED BY <3>3, <3>4
  <2> QED BY <2>2
<1>4. \A i, j \in K : count[i] = count[j] => i = j
  <2> SUFFICES ASSUME NEW i \in K, NEW j \in K, count[i] = count[j], i # j PROVE FALSE
    OBVIOUS
  <2>1. i < j \/ j < i
    OBVIOUS
  <2>2. count[i] \in Int /\ count[j] \in Int
    BY <1>1, <1>2
  <2> HIDE DEF count
  <2> QED BY <1>3, <2>1, <2>2
<1>5. \A k \in 1..Cardinality(K) : \E i \in K : count[i] = k
  <2>1. count \in [K -> 1..Cardinality(K)]
    BY <1>2
  <2>2. count \in Injection(K, 1..Cardinality(K))
    <3> HIDE DEF count
    <3> QED BY <1>4, <2>1 DEF Injection, IsInjective
  <2>3. IsFiniteSet(1..Cardinality(K)) /\ Cardinality(1..Cardinality(K)) = Cardinality(K)
    BY <1>1, FS_Interval
  <2>4. count \in Surjection(K, 1..Cardinality(K))
    <3> HIDE DEF count
    <3> QED BY <1>1, <2>2, <2>3, FS_Injection
  <2> HIDE DEF count
  <2> QED BY <2>4 DEF Surjection
<1>6. ASSUME NEW k \in 1..Cardinality(K)
      PROVE  Store!Nth(K, k) \in K /\ count[Store!Nth(K, k)] = k
  <2>1. \E i \in K : Store!Cardinality({j \in K : j <= i}) = k
    BY <1>5, StoreCardinality
  <2>2. /\ Store!Nth(K, k) \in K
        /\ Store!Cardinality({j \in K : j <= Store!Nth(K, k)}) = k
    BY <2>1, Zenon DEF Store!Nth
  <2> QED BY <2>2, StoreCardinality
<1>7. ASSUME NEW i \in K PROVE \E k \in 1..Cardinality(K) : Store!Nth(K, k) = i
  <2>1. count[i] \in 1..Cardinality(K)
    BY <1>2
  <2>2. Store!Nth(K, count[i]) \in K /\ count[Store!Nth(K, count[i])] = count[i]
    BY <1>6, <2>1
  <2> HIDE DEF count
  <2> QED BY <1>4, <2>1, <2>2
<1> QED BY <1>1, <1>6, <1>7

LEMMA WithoutIs ==
  ASSUME folder \in Seq(Store!Package), NEW S
  PROVE  /\ Store!Without(S) \in Seq(Store!Package)
         /\ \A k \in DOMAIN Store!Without(S) :
              \E i \in DOMAIN folder \ S : Store!Without(S)[k] = folder[i]
         /\ \A i \in DOMAIN folder \ S :
              \E k \in DOMAIN Store!Without(S) : Store!Without(S)[k] = folder[i]
<1> DEFINE K == DOMAIN folder \ S
           left == Store!Without(S)
<1>1. /\ Cardinality(K) \in Nat
      /\ \A k \in 1..Cardinality(K) : Store!Nth(K, k) \in K
      /\ \A i \in K : \E k \in 1..Cardinality(K) : Store!Nth(K, k) = i
  <2>1. Len(folder) \in Nat /\ K \in SUBSET (1..Len(folder))
    OBVIOUS
  <2> HIDE DEF K
  <2> QED BY <2>1, CountedOff
<1>2. left = [k \in 1..Cardinality(K) |-> folder[Store!Nth(K, k)]]
  <2>1. K \in SUBSET DOMAIN folder
    OBVIOUS
  <2>2. left = [k \in 1..Store!Cardinality(K) |-> folder[Store!Nth(K, k)]]
    BY <2>1, Zenon DEF Store!Without, Store!Kept
  <2> HIDE DEF K, left
  <2> QED BY <2>2, StoreCardinality, Zenon
<1>3. \A i \in K : i \in DOMAIN folder /\ folder[i] \in Store!Package
  OBVIOUS
<1> HIDE DEF K, left
<1>4. left \in [1..Cardinality(K) -> Store!Package]
  BY <1>1, <1>2, <1>3
<1>5. left \in Seq(Store!Package) /\ DOMAIN left = 1..Cardinality(K)
  BY <1>1, <1>4
<1>6. /\ \A k \in DOMAIN left : \E i \in K : left[k] = folder[i]
      /\ \A i \in K : \E k \in DOMAIN left : left[k] = folder[i]
  BY <1>1, <1>2, <1>5
<1> QED BY <1>5, <1>6 DEF K, left
-----------------------------------------------------------------------------
(* Steps that begin no package.                                            *)

(* Package i of the folder is package k of the next one, perhaps no longer *)
(* written by anybody; every one that is being written comes from one.     *)
From(k, i) ==
  /\ folder'[k].kind = folder[i].kind /\ folder'[k].content = folder[i].content
  /\ folder'[k].whole = folder[i].whole
  /\ folder'[k].by \in {folder[i].by, Store!NoWriter}

Traced ==
  \A k \in DOMAIN folder' :
    folder'[k].by \in Store!Sessions => \E i \in DOMAIN folder : From(k, i)

(* Whole safety packages stay, or are known to have been deleted.          *)
SafetyStays ==
  \A i \in Safety : folder[i].whole =>
    \/ folder[i].content \subseteq discarded'
    \/ \E k \in DOMAIN folder' :
         /\ folder'[k].kind = "safety" /\ folder'[k].whole
         /\ folder'[k].content = folder[i].content

LEMMA SessionsAre ==
  /\ "scheduler" \in Store!Sessions /\ "admin" \in Store!Sessions
  /\ Store!NoWriter \notin Store!Sessions
  /\ \A s \in Store!Sessions : s = "scheduler" \/ s = "admin"
BY DEF Store!Sessions, Store!NoWriter

LEMMA JobsAre ==
  ASSUME Store!TypeOK, NEW s \in Store!Sessions
  PROVE  /\ errand[s] = Store!Idle \/ errand[s] \in Store!Job
         /\ errand[s].at \in {"idle", "pack", "prune", "replace", "copy", "swap"}
         /\ errand[s] # Store!Idle => errand[s].at # "idle"
         /\ Store!Idle.at = "idle"
         /\ Store!Idle \notin Store!Job
<1>1. errand[s] = Store!Idle \/ errand[s] \in Store!Job
  BY DEF Store!TypeOK
<1>2. Store!Idle.at = "idle"
  BY DEF Store!Idle
<1>3. \A j \in Store!Job : j.at \in {"pack", "prune", "replace", "copy", "swap"}
  BY DEF Store!Job
<1> QED BY <1>1, <1>2, <1>3

LEMMA ElsewhereGrows ==
  ASSUME SafetyStays, unguarded \subseteq unguarded', discarded \subseteq discarded',
         before \subseteq before' \cup discarded'
  PROVE  Elsewhere \subseteq Elsewhere'
<1>1. Store!Holds(Safety) \subseteq Elsewhere'
  <2> SUFFICES ASSUME NEW i \in Safety, folder[i].whole
               PROVE  folder[i].content \subseteq Elsewhere'
    BY DEF Store!Holds
  <2>1. CASE folder[i].content \subseteq discarded'
    BY <2>1 DEF Elsewhere
  <2>2. ASSUME NEW k \in DOMAIN folder', folder'[k].kind = "safety", folder'[k].whole,
               folder'[k].content = folder[i].content
        PROVE  folder[i].content \subseteq Elsewhere'
    <3>1. folder[i].content \subseteq Store!Holds(Safety)'
      BY <2>2 DEF Store!Holds, Safety
    <3> QED BY <3>1 DEF Elsewhere
  <2> QED BY <2>1, <2>2 DEF SafetyStays
<1> QED BY <1>1 DEF Elsewhere

(* A session goes on with what it was doing, or with something else than   *)
(* a package; who restores relies on what is elsewhere.                    *)
LEMMA StepKept ==
  ASSUME StoreOK, StoreInv, Traced, Elsewhere \subseteq Elsewhere',
         \A s \in Store!Sessions : errand'[s].at = "pack" => errand'[s] = errand[s],
         \A s \in Store!Sessions : errand[s].at = "pack" /\ errand'[s].at # "pack" =>
            \A k \in DOMAIN folder' : folder'[k].by # s,
         made' \subseteq Elsewhere' \cup Stored',
         \A s \in Store!Sessions : Writing(s)' => made' \subseteq Elsewhere',
         \A s \in Store!Sessions : Packing(s)' => made' \subseteq made \cup Elsewhere',
         ~Writing("scheduler")'
  PROVE  OwnOK' /\ RestorerOK' /\ Covered'
<1>1. ASSUME NEW k \in DOMAIN folder', NEW s \in Store!Sessions, folder'[k].by = s
      PROVE  ~folder'[k].whole /\ errand'[s].at = "pack"
  <2>1. PICK i \in DOMAIN folder : From(k, i)
    BY <1>1 DEF Traced
  <2>2. folder[i].by = s
    BY <1>1, <2>1, SessionsAre DEF From
  <2>3. ~folder[i].whole /\ errand[s].at = "pack"
    BY <2>2 DEF StoreInv, OwnOK
  <2> QED BY <1>1, <2>1, <2>3 DEF From
<1>2. ~Packing("scheduler")'
  BY SessionsAre DEF Packing, StoreInv, RestorerOK
<1>3. ASSUME NEW s \in Store!Sessions, Packing(s)', NEW k \in Store!Own(s)'
      PROVE  k \in Safety' /\ made' \subseteq Elsewhere' \cup folder'[k].content
  <2>1. PICK i \in DOMAIN folder : From(k, i)
    BY <1>3 DEF Traced, Store!Own
  <2>2. folder'[k].by = s
    BY <1>3 DEF Store!Own
  <2>3. i \in Store!Own(s)
    BY <2>1, <2>2, SessionsAre DEF From, Store!Own
  <2>4. Packing(s)
    BY <1>3 DEF Packing
  <2>5. i \in Safety /\ made \subseteq Elsewhere \cup folder[i].content
    BY <2>3, <2>4 DEF StoreInv, Covered
  <2>6. k \in Safety'
    BY <1>3, <2>1, <2>5 DEF From, Safety, Store!Own
  <2>7. folder'[k].content = folder[i].content
    BY <2>1 DEF From
  <2> QED BY <1>3, <2>5, <2>6, <2>7
<1>4. OwnOK'
  BY <1>1 DEF OwnOK
<1>5. RestorerOK'
  BY <1>2 DEF RestorerOK
<1>6. Covered'
  BY <1>3 DEF Covered
<1> QED BY <1>4, <1>5, <1>6

(* The folder stays as it is.                                              *)
LEMMA FolderStays ==
  ASSUME UNCHANGED folder PROVE Traced /\ SafetyStays
BY DEF Traced, From, SafetyStays, Safety

(* Packages that are changed where they are.                               *)
LEMMA FolderMarked ==
  ASSUME DOMAIN folder' = DOMAIN folder, \A i \in DOMAIN folder : From(i, i)
  PROVE  Traced /\ SafetyStays
<1>1. Traced
  BY DEF Traced
<1>2. SafetyStays
  BY DEF SafetyStays, Safety, From
<1> QED BY <1>1, <1>2

(* Packages that are removed: ordinary ones, those nobody has finished, or *)
(* with their content noted.                                               *)
LEMMA FolderCut ==
  ASSUME folder \in Seq(Store!Package), NEW S,
         \A i \in S : i \in Safety /\ folder[i].whole => folder[i].content \subseteq discarded',
         DOMAIN folder' = DOMAIN Store!Without(S),
         \A k \in DOMAIN folder' :
           /\ folder'[k].kind = Store!Without(S)[k].kind
           /\ folder'[k].content = Store!Without(S)[k].content
           /\ folder'[k].whole = Store!Without(S)[k].whole
           /\ folder'[k].by \in {Store!Without(S)[k].by, Store!NoWriter}
  PROVE  Traced /\ SafetyStays
<1>1. /\ \A k \in DOMAIN Store!Without(S) :
           \E i \in DOMAIN folder \ S : Store!Without(S)[k] = folder[i]
      /\ \A i \in DOMAIN folder \ S :
           \E k \in DOMAIN Store!Without(S) : Store!Without(S)[k] = folder[i]
  BY WithoutIs
<1>2. Traced
  BY <1>1 DEF Traced, From
<1>3. ASSUME NEW i \in Safety, folder[i].whole, i \notin S
      PROVE  \E k \in DOMAIN folder' :
               /\ folder'[k].kind = "safety" /\ folder'[k].whole
               /\ folder'[k].content = folder[i].content
  BY <1>1, <1>3 DEF Safety
<1>4. SafetyStays
  BY <1>3 DEF SafetyStays
<1> QED BY <1>2, <1>4

(* The restorer is the administrator.                                      *)
LEMMA RestorerIs ==
  ASSUME StoreOK, StoreInv, NEW s \in Store!Sessions, Packing(s) \/ Writing(s) PROVE s = "admin"
BY SessionsAre DEF StoreInv, RestorerOK

LEMMA StoredTyped == ASSUME Store!TypeOK PROVE Stored \in SUBSET Commits
BY DEF Store!TypeOK, Stored

LEMMA ReadableIs ==
  ASSUME Store!TypeOK, NEW c \in Store!Readable PROVE c = Stored
BY DEF Store!Readable, Stored

-----------------------------------------------------------------------------
(* A package is begun.                                                     *)

LEMMA BeginKeeps ==
  ASSUME StoreOK, StoreInv, NEW s \in Store!Sessions, NEW kind \in Store!Kinds,
         NEW next \in {"idle", "prune", "replace"},
         NEW from \in SUBSET Commits, NEW packages,
         packages = folder \/ packages = Store!Pruned,
         errand[s].at \in {"idle", "prune"},
         next = "replace" => kind = "safety" /\ s = "admin",
         Store!Begin(s, kind, next, from, packages),
         auto' \in BOOLEAN, wake' \in BOOLEAN, clicks' \in 0..MaxEvents,
         UNCHANGED <<db, before, stale, made, unguarded, discarded>>
  PROVE  StoreInv'
<1> DEFINE task == [at |-> "pack", next |-> next, from |-> from, spoilt |-> FALSE]
<1>1. PICK c \in Store!Readable :
        folder' = Append(packages, [kind |-> kind, content |-> c, whole |-> FALSE,
                                    by |-> s, age |-> 0])
  BY DEF Store!Begin
<1> DEFINE new == [kind |-> kind, content |-> c, whole |-> FALSE, by |-> s, age |-> 0]
<1>2. /\ errand' = [errand EXCEPT ![s] = task]
      /\ errand \in [Store!Sessions -> {Store!Idle} \cup Store!Job]
  BY DEF Store!Begin, StoreInv, Store!TypeOK
<1>3. task \in Store!Job
  BY DEF Store!Job
<1>4. c = Stored /\ c \in SUBSET Commits
  BY ReadableIs, StoredTyped DEF StoreInv
<1>5. new \in Store!Package
  BY <1>4 DEF StoreOK, Store!Package
<1>6. folder \in Seq(Store!Package)
  BY DEF StoreInv, Store!TypeOK
<1>7. /\ packages \in Seq(Store!Package)
      /\ \A k \in DOMAIN packages : \E i \in DOMAIN folder : packages[k] = folder[i]
      /\ \A i \in Safety : \E k \in DOMAIN packages : packages[k] = folder[i]
  <2>1. CASE packages = folder
    BY <1>6, <2>1 DEF Safety
  <2>2. CASE packages = Store!Pruned
    <3>1. \A i \in Safety : i \in DOMAIN folder \ Store!Surplus
      BY DEF Safety, Store!Surplus, Store!Ordinary
    <3> QED BY <1>6, <2>2, <3>1, WithoutIs DEF Store!Pruned
  <2> QED BY <2>1, <2>2
<1> HIDE DEF new, task
<1>8. /\ folder' \in Seq(Store!Package) /\ DOMAIN folder' = 1..(Len(packages) + 1)
      /\ \A k \in DOMAIN packages : k \in DOMAIN folder' /\ folder'[k] = packages[k]
      /\ \A k \in DOMAIN folder' : k \in DOMAIN packages \/ folder'[k] = new
  <2>1. folder' = Append(packages, new)
    BY <1>1 DEF new
  <2> QED BY <1>5, <1>7, <2>1
<1>9. errand'[s] = task /\ \A v \in Store!Sessions : v # s => errand'[v] = errand[v]
  BY <1>2
<1>10. errand' \in [Store!Sessions -> {Store!Idle} \cup Store!Job]
  BY <1>2, <1>3
<1>11. Store!TypeOK'
  BY <1>8, <1>10 DEF StoreInv, Store!TypeOK
<1>12. Elsewhere \subseteq Elsewhere' /\ Stored' = Stored
  <2>1. ASSUME NEW i \in Safety, folder[i].whole
        PROVE  \E k \in DOMAIN folder' :
                 /\ folder'[k].kind = "safety" /\ folder'[k].whole
                 /\ folder'[k].content = folder[i].content
    <3>1. PICK k \in DOMAIN packages : packages[k] = folder[i]
      BY <1>7
    <3>2. k \in DOMAIN folder' /\ folder'[k] = folder[i] /\ folder[i].kind = "safety"
      BY <1>8, <3>1 DEF Safety
    <3> QED BY <2>1, <3>2
  <2>2. SafetyStays
    BY <2>1 DEF SafetyStays
  <2> QED BY <2>2, ElsewhereGrows DEF Stored
<1>13. new.by = s /\ ~new.whole /\ new.kind = kind /\ new.content = Stored
  BY <1>4 DEF new
<1>14. task.at = "pack" /\ task.next = next
  BY DEF task
<1>15. ASSUME NEW k \in DOMAIN folder', folder'[k] # new
       PROVE  \E i \in DOMAIN folder : folder'[k] = folder[i]
  BY <1>7, <1>8, <1>15
<1>16. \A i \in DOMAIN folder : folder[i].by # s
  BY DEF StoreInv, OwnOK
<1>17. OwnOK'
  <2> SUFFICES ASSUME NEW k \in DOMAIN folder', NEW v \in Store!Sessions, folder'[k].by = v
               PROVE  ~folder'[k].whole /\ errand'[v].at = "pack"
    BY DEF OwnOK
  <2>1. CASE folder'[k] = new
    BY <1>9, <1>13, <1>14, <2>1
  <2>2. CASE folder'[k] # new
    <3>1. PICK i \in DOMAIN folder : folder'[k] = folder[i]
      BY <1>15, <2>2
    <3>2. ~folder[i].whole /\ errand[v].at = "pack" /\ v # s
      BY <1>16, <3>1 DEF StoreInv, OwnOK
    <3> QED BY <1>9, <3>1, <3>2
  <2> QED BY <2>1, <2>2
<1>18. ASSUME NEW v \in Store!Sessions, v # s
       PROVE  (Packing(v)' <=> Packing(v)) /\ (Writing(v)' <=> Writing(v)) /\ errand'[v] = errand[v]
  BY <1>9, <1>18 DEF Packing, Writing
<1>19. ~Writing(s)' /\ (Packing(s)' <=> next = "replace")
  BY <1>9, <1>14 DEF Packing, Writing
<1>20. RestorerOK'
  BY <1>18, <1>19, SessionsAre DEF StoreInv, RestorerOK
<1>21. Covered'
  <2>1. made \subseteq Elsewhere \cup Stored
    BY DEF StoreInv, Covered
  <2>2. made' \subseteq Elsewhere' \cup Stored'
    BY <1>12, <2>1
  <2>3. \A v \in Store!Sessions : Writing(v)' => made' \subseteq Elsewhere'
    BY <1>12, <1>18, <1>19 DEF StoreInv, Covered
  <2>4. ASSUME NEW v \in Store!Sessions, Packing(v)', NEW k \in Store!Own(v)'
        PROVE  k \in Safety' /\ made' \subseteq Elsewhere' \cup folder'[k].content
    <3>1. k \in DOMAIN folder' /\ folder'[k].by = v
      BY <2>4 DEF Store!Own
    <3>2. CASE folder'[k] = new
      <4>1. v = s /\ kind = "safety"
        BY <1>13, <1>19, <2>4, <3>1, <3>2
      <4> QED BY <1>12, <1>13, <2>1, <3>1, <3>2, <4>1 DEF Safety
    <3>3. CASE folder'[k] # new
      <4>1. PICK i \in DOMAIN folder : folder'[k] = folder[i]
        BY <1>15, <3>1, <3>3
      <4>2. v # s /\ i \in Store!Own(v)
        BY <1>16, <3>1, <4>1 DEF Store!Own
      <4>3. i \in Safety /\ made \subseteq Elsewhere \cup folder[i].content
        BY <1>18, <2>4, <4>2 DEF StoreInv, Covered
      <4> QED BY <1>12, <3>1, <4>1, <4>3 DEF Safety
    <3> QED BY <3>2, <3>3
  <2> QED BY <2>2, <2>3, <2>4 DEF Covered
<1> QED BY <1>11, <1>17, <1>20, <1>21 DEF StoreInv

-----------------------------------------------------------------------------
(* A package is finished.                                                  *)

FinishedRow(row) == [row EXCEPT !.whole = TRUE, !.by = Store!NoWriter]

LEMMA RowFinished ==
  ASSUME NEW row \in Store!Package
  PROVE  /\ FinishedRow(row) \in Store!Package /\ FinishedRow(row).whole
         /\ FinishedRow(row).by = Store!NoWriter /\ FinishedRow(row).kind = row.kind
         /\ FinishedRow(row).content = row.content
BY DEF FinishedRow, Store!Package

LEMMA PackedKeeps ==
  ASSUME StoreOK, StoreInv, NEW s \in Store!Sessions, Store!Packed(s) PROVE StoreInv'
<1>1. /\ errand[s].at = "pack"
      /\ folder' = [i \in DOMAIN folder |->
                      IF i \in Store!Own(s) THEN FinishedRow(folder[i]) ELSE folder[i]]
      /\ UNCHANGED <<db, before, stale, auto, wake, clicks, made, unguarded, discarded>>
  BY DEF Store!Packed, FinishedRow, Store!setup, Store!history
<1>2. errand[s] \in Store!Job /\ errand \in [Store!Sessions -> {Store!Idle} \cup Store!Job]
  BY <1>1, JobsAre DEF StoreInv, Store!TypeOK
<1>3. \/ errand' = [errand EXCEPT ![s] = Store!Idle]
      \/ Store!Own(s) # {} /\ errand[s].next # "idle" /\ errand' = [errand EXCEPT ![s].at = errand[s].next]
  BY DEF Store!Packed, Store!Leave
<1> DEFINE moved == [errand[s] EXCEPT !.at = errand[s].next]
<1>4. errand[s].next # "idle" => moved \in Store!Job /\ moved.at = errand[s].next
  BY <1>2 DEF Store!Job
<1>5. /\ \A v \in Store!Sessions : v # s => errand'[v] = errand[v]
      /\ \/ errand'[s] = Store!Idle
         \/ Store!Own(s) # {} /\ errand[s].next # "idle" /\ errand'[s] = moved
  BY <1>2, <1>3
<1> HIDE DEF moved
<1>6. errand' \in [Store!Sessions -> {Store!Idle} \cup Store!Job]
  <2>1. errand' = [v \in Store!Sessions |-> errand'[v]]
    BY <1>2, <1>3
  <2>2. \A v \in Store!Sessions : errand'[v] \in {Store!Idle} \cup Store!Job
    BY <1>2, <1>4, <1>5
  <2> QED BY <2>1, <2>2
<1>7. folder \in Seq(Store!Package) /\ \A i \in DOMAIN folder : folder[i] \in Store!Package
  BY DEF StoreInv, Store!TypeOK
<1>8. /\ folder' \in Seq(Store!Package) /\ DOMAIN folder' = DOMAIN folder
      /\ \A i \in DOMAIN folder : i \notin Store!Own(s) => folder'[i] = folder[i]
      /\ \A i \in Store!Own(s) : /\ i \in DOMAIN folder /\ folder'[i].whole
                           /\ folder'[i].by = Store!NoWriter
                           /\ folder'[i].kind = folder[i].kind
                           /\ folder'[i].content = folder[i].content
  <2>1. \A i \in DOMAIN folder : FinishedRow(folder[i]) \in Store!Package
    BY <1>7, RowFinished
  <2>2. DOMAIN folder' = DOMAIN folder
    BY <1>1
  <2>3. folder' \in Seq(Store!Package)
    BY <1>1, <1>7, <2>1
  <2>4. \A i \in Store!Own(s) : i \in DOMAIN folder /\ folder'[i] = FinishedRow(folder[i])
    BY <1>1 DEF Store!Own
  <2>5. \A i \in DOMAIN folder : i \notin Store!Own(s) => folder'[i] = folder[i]
    BY <1>1
  <2> QED BY <1>7, <2>2, <2>3, <2>4, <2>5, RowFinished
<1>9. Store!TypeOK'
  BY <1>1, <1>6, <1>8 DEF StoreInv, Store!TypeOK
<1>10. Elsewhere \subseteq Elsewhere' /\ Stored' = Stored
  <2>1. SafetyStays
    <3> SUFFICES ASSUME NEW i \in Safety, folder[i].whole
                 PROVE  /\ folder'[i].kind = "safety" /\ folder'[i].whole
                        /\ folder'[i].content = folder[i].content
      BY <1>8 DEF SafetyStays, Safety
    <3> QED BY <1>8 DEF Safety
  <2> QED BY <1>1, <2>1, ElsewhereGrows DEF Stored
<1>11. OwnOK'
  <2> SUFFICES ASSUME NEW k \in DOMAIN folder', NEW v \in Store!Sessions, folder'[k].by = v
               PROVE  ~folder'[k].whole /\ errand'[v].at = "pack"
    BY DEF OwnOK
  <2>1. k \notin Store!Own(s) /\ folder'[k] = folder[k] /\ k \in DOMAIN folder
    BY <1>8, SessionsAre
  <2>2. v # s
    BY <2>1 DEF Store!Own
  <2> QED BY <1>5, <2>1, <2>2 DEF StoreInv, OwnOK
<1>12. errand'[s].at # "pack" /\ (errand'[s].at \in {"replace", "copy", "swap"} =>
                                  Packing(s) /\ Store!Own(s) # {})
  <2>1. errand[s].next \in {"idle", "prune", "replace"} /\ Store!Idle.at = "idle"
    BY <1>2 DEF Store!Job, Store!Idle
  <2> QED BY <1>1, <1>4, <1>5, <2>1 DEF Packing
<1>13. RestorerOK'
  BY <1>1, <1>5, <1>12, SessionsAre DEF StoreInv, RestorerOK, Packing, Writing
<1>14. Covered'
  <2>1. made' \subseteq Elsewhere' \cup Stored'
    BY <1>1, <1>10 DEF StoreInv, Covered
  <2>2. ASSUME NEW v \in Store!Sessions, Writing(v)' PROVE made' \subseteq Elsewhere'
    <3>1. CASE v # s
      BY <1>1, <1>5, <1>10, <2>2, <3>1 DEF StoreInv, Covered, Writing
    <3>2. CASE v = s
      <4>1. PICK i \in Store!Own(s) : TRUE
        BY <1>12, <2>2, <3>2 DEF Writing
      <4>2. i \in Safety /\ made \subseteq Elsewhere \cup folder[i].content
        BY <1>12, <2>2, <3>2, <4>1 DEF Writing, StoreInv, Covered
      <4>3. folder[i].content \subseteq Elsewhere'
        <5>1. i \in Safety' /\ folder'[i].whole /\ folder'[i].content = folder[i].content
          BY <1>8, <4>2 DEF Safety
        <5> QED BY <5>1 DEF Elsewhere, Store!Holds
      <4> QED BY <1>1, <1>10, <4>2, <4>3
    <3> QED BY <3>1, <3>2
  <2>3. ASSUME NEW v \in Store!Sessions, Packing(v)', NEW k \in Store!Own(v)'
        PROVE  k \in Safety' /\ made' \subseteq Elsewhere' \cup folder'[k].content
    <3>1. v # s /\ Packing(v)
      BY <1>5, <1>12, <2>3 DEF Packing
    <3>2. k \in DOMAIN folder /\ folder'[k] = folder[k] /\ k \in Store!Own(v)
      BY <1>8, <2>3, SessionsAre DEF Store!Own
    <3>3. k \in Safety /\ made \subseteq Elsewhere \cup folder[k].content
      BY <3>1, <3>2 DEF StoreInv, Covered
    <3> QED BY <1>1, <1>8, <1>10, <3>2, <3>3 DEF Safety
  <2> QED BY <2>1, <2>2, <2>3 DEF Covered
<1> QED BY <1>9, <1>11, <1>13, <1>14 DEF StoreInv


-----------------------------------------------------------------------------
(* Steps that leave the jobs and the database.                             *)

LEMMA FolderOnly ==
  ASSUME StoreOK, StoreInv, Store!TypeOK', Traced, SafetyStays,
         UNCHANGED <<db, before, stale, errand, made, unguarded>>,
         discarded \subseteq discarded'
  PROVE  StoreInv'
<1>1. Elsewhere \subseteq Elsewhere' /\ Stored' = Stored
  BY ElsewhereGrows DEF Stored
<1>2. made' \subseteq Elsewhere' \cup Stored'
  BY <1>1 DEF StoreInv, Covered
<1>3. \A s \in Store!Sessions : Writing(s)' => made' \subseteq Elsewhere'
  BY <1>1 DEF StoreInv, Covered, Writing
<1>4. ~Writing("scheduler")'
  BY DEF StoreInv, RestorerOK, Writing
<1>5. OwnOK' /\ RestorerOK' /\ Covered'
  BY <1>1, <1>2, <1>3, <1>4, StepKept
<1> QED BY <1>5 DEF StoreInv

(* An hour more, up to the interval.                                       *)
Older(row) == [row EXCEPT !.age = IF row.age < Interval THEN row.age + 1 ELSE row.age]

LEMMA RowOlder ==
  ASSUME StoreOK, NEW row \in Store!Package
  PROVE  /\ Older(row) \in Store!Package
         /\ Older(row).kind = row.kind /\ Older(row).content = row.content
         /\ Older(row).whole = row.whole /\ Older(row).by = row.by
BY DEF StoreOK, Older, Store!Package

LEMMA HourKeeps == ASSUME StoreOK, StoreInv, Store!Hour PROVE StoreInv'
<1>1. /\ folder' = [i \in DOMAIN folder |-> Older(folder[i])] /\ wake' = TRUE
      /\ UNCHANGED <<db, before, stale, errand, auto, clicks, made, unguarded, discarded>>
  BY DEF Store!Hour, Older, Store!history
<1>2. folder \in Seq(Store!Package) /\ \A i \in DOMAIN folder : folder[i] \in Store!Package
  BY DEF StoreInv, Store!TypeOK
<1>3. /\ folder' \in Seq(Store!Package) /\ DOMAIN folder' = DOMAIN folder
      /\ \A i \in DOMAIN folder : folder'[i] = Older(folder[i])
  <2>1. \A i \in DOMAIN folder : Older(folder[i]) \in Store!Package
    BY <1>2, RowOlder
  <2> QED BY <1>1, <1>2, <2>1
<1>4. Store!TypeOK'
  BY <1>1, <1>3 DEF StoreInv, Store!TypeOK
<1>5. \A i \in DOMAIN folder : From(i, i)
  BY <1>2, <1>3, RowOlder DEF From
<1> QED BY <1>1, <1>3, <1>4, <1>5, FolderMarked, FolderOnly

LEMMA ImportKeeps == ASSUME StoreOK, StoreInv, Store!Import PROVE StoreInv'
<1> DEFINE new == [kind |-> "imported", content |-> {}, whole |-> TRUE,
                   by |-> Store!NoWriter, age |-> 0]
<1>1. /\ folder' = Append(folder, new) /\ clicks < MaxEvents /\ clicks' = clicks + 1
      /\ UNCHANGED <<db, before, stale, errand, auto, wake, made, unguarded, discarded>>
  BY DEF Store!Import, Store!Click, Store!Event, Store!history
<1>2. new \in Store!Package /\ new.by = Store!NoWriter
  BY DEF StoreOK, Store!Package, Store!Kinds
<1> HIDE DEF new
<1>3. folder \in Seq(Store!Package)
  BY DEF StoreInv, Store!TypeOK
<1>4. /\ folder' \in Seq(Store!Package)
      /\ \A i \in DOMAIN folder : i \in DOMAIN folder' /\ folder'[i] = folder[i]
      /\ \A k \in DOMAIN folder' : k \in DOMAIN folder \/ folder'[k] = new
  BY <1>1, <1>2, <1>3
<1>5. Store!TypeOK'
  BY <1>1, <1>4 DEF StoreOK, StoreInv, Store!TypeOK
<1>6. Traced
  BY <1>2, <1>4, SessionsAre DEF Traced, From
<1>7. SafetyStays
  BY <1>4 DEF SafetyStays, Safety
<1> QED BY <1>1, <1>5, <1>6, <1>7, FolderOnly

LEMMA CutTyped ==
  ASSUME Store!TypeOK, NEW S, folder' = Store!Without(S) PROVE folder' \in Seq(Store!Package)
BY WithoutIs DEF Store!TypeOK

LEMMA PrunedKeepsSafety ==
  ASSUME Store!TypeOK, folder' = Store!Pruned
  PROVE  folder' \in Seq(Store!Package) /\ Traced /\ SafetyStays
<1>1. folder \in Seq(Store!Package)
  BY DEF Store!TypeOK
<1>2. folder' = Store!Without(Store!Surplus) /\ \A i \in Store!Surplus : i \notin Safety
  BY DEF Store!Pruned, Store!Surplus, Store!Ordinary, Safety
<1> QED BY <1>1, <1>2, FolderCut, CutTyped

LEMMA PruneByHandKeeps == ASSUME StoreOK, StoreInv, Store!PruneByHand PROVE StoreInv'
<1>1. /\ folder' = Store!Pruned /\ clicks < MaxEvents /\ clicks' = clicks + 1
      /\ UNCHANGED <<db, before, stale, errand, auto, wake, made, unguarded, discarded>>
  BY DEF Store!PruneByHand, Store!Click, Store!Event, Store!history
<1>2. folder' \in Seq(Store!Package) /\ Traced /\ SafetyStays
  BY <1>1, PrunedKeepsSafety DEF StoreInv
<1>3. Store!TypeOK'
  BY <1>1, <1>2 DEF StoreOK, StoreInv, Store!TypeOK
<1> QED BY <1>1, <1>2, <1>3, FolderOnly

LEMMA DeleteKeeps ==
  ASSUME StoreOK, StoreInv, NEW i \in DOMAIN folder, Store!Delete(i) PROVE StoreInv'
<1>1. /\ folder' = Store!Without({i}) /\ clicks < MaxEvents /\ clicks' = clicks + 1
      /\ discarded' = discarded \cup Store!Holds({i})
      /\ UNCHANGED <<db, before, stale, errand, auto, wake, made, unguarded>>
  BY DEF Store!Delete, Store!Click, Store!Event
<1>2. folder \in Seq(Store!Package) /\ folder[i] \in Store!Package
  BY DEF StoreInv, Store!TypeOK
<1>3. /\ Store!Holds({i}) \subseteq Commits
      /\ folder[i].whole => folder[i].content \subseteq Store!Holds({i})
  BY <1>2 DEF Store!Holds, Store!Package
<1>4. folder' \in Seq(Store!Package)
  BY <1>1, CutTyped DEF StoreInv
<1>5. Store!TypeOK'
  <2>1. discarded' \in SUBSET Commits /\ made' \in SUBSET Commits
        /\ unguarded' \in SUBSET Commits
    BY <1>1, <1>3 DEF StoreInv, Store!TypeOK
  <2>2. {made', unguarded', discarded'} \subseteq SUBSET Commits
    BY <2>1
  <2>3. clicks' \in 0..MaxEvents
    BY <1>1 DEF StoreOK, StoreInv, Store!TypeOK
  <2>4. /\ db' \in {Torn} \cup SUBSET Commits /\ before' \in SUBSET Commits
        /\ errand' \in [Store!Sessions -> {Store!Idle} \cup Store!Job]
        /\ {auto', wake', stale'} \subseteq BOOLEAN
    BY <1>1 DEF StoreInv, Store!TypeOK
  <2> QED BY <1>4, <2>2, <2>3, <2>4 DEF Store!TypeOK
<1>6. Traced /\ SafetyStays
  BY <1>1, <1>2, <1>3, FolderCut
<1> QED BY <1>1, <1>5, <1>6, FolderOnly

LEMMA SaveSettingsKeeps == ASSUME StoreOK, StoreInv, Store!SaveSettings PROVE StoreInv'
<1>1. /\ clicks < MaxEvents /\ clicks' = clicks + 1 /\ auto' \in BOOLEAN
      /\ UNCHANGED <<db, before, stale, folder, errand, wake, made, unguarded, discarded>>
  BY DEF Store!SaveSettings, Store!Event, Store!history
<1>2. Store!TypeOK'
  BY <1>1 DEF StoreOK, StoreInv, Store!TypeOK
<1> QED BY <1>1, <1>2, FolderStays, FolderOnly

LEMMA StoreStutterKeeps == ASSUME StoreOK, StoreInv, UNCHANGED Store!vars PROVE StoreInv'
<1>1. UNCHANGED <<db, before, stale, folder, errand, auto, wake, clicks, made, unguarded, discarded>>
  BY DEF Store!vars, Store!setup, Store!history
<1>2. Store!TypeOK'
  BY <1>1 DEF StoreInv, Store!TypeOK
<1> QED BY <1>1, <1>2, FolderStays, FolderOnly

-----------------------------------------------------------------------------
(* Steps of a session that is not packing.                                 *)

LEMMA JobOnly ==
  ASSUME StoreOK, StoreInv, Store!TypeOK', Traced, Elsewhere \subseteq Elsewhere', made' = made,
         NEW s \in Store!Sessions, errand[s].at # "pack", errand'[s].at \notin {"pack", "replace"},
         \A v \in Store!Sessions : v # s => errand'[v] = errand[v],
         made \subseteq Elsewhere' \cup Stored',
         Writing(s)' => s = "admin" /\ made \subseteq Elsewhere'
  PROVE  StoreInv'
<1>1. \A v \in Store!Sessions :
        v # s => (Writing(v)' => Writing(v)) /\ (Packing(v)' => Packing(v))
  BY DEF Writing, Packing
<1>2. ~Packing(s)'
  BY DEF Packing
<1>3. \A v \in Store!Sessions : Writing(v)' => made' \subseteq Elsewhere'
  BY <1>1 DEF StoreInv, Covered
<1>4. ~Writing("scheduler")'
  BY <1>1, SessionsAre DEF StoreInv, RestorerOK
<1>5. \A v \in Store!Sessions : errand'[v].at = "pack" => errand'[v] = errand[v]
  OBVIOUS
<1>6. \A v \in Store!Sessions : ~(errand[v].at = "pack" /\ errand'[v].at # "pack")
  OBVIOUS
<1>7. \A v \in Store!Sessions : Packing(v)' => made' \subseteq made \cup Elsewhere'
  OBVIOUS
<1>8. made' \subseteq Elsewhere' \cup Stored'
  OBVIOUS
<1>9. OwnOK' /\ RestorerOK' /\ Covered'
  BY <1>2, <1>3, <1>4, <1>5, <1>6, <1>7, <1>8, StepKept
<1> QED BY <1>9 DEF StoreInv

LEMMA LeaveIs ==
  ASSUME Store!TypeOK, NEW s \in Store!Sessions, Store!Leave(s)
  PROVE  /\ errand' \in [Store!Sessions -> {Store!Idle} \cup Store!Job]
         /\ errand'[s].at = "idle" /\ \A v \in Store!Sessions : v # s => errand'[v] = errand[v]
BY DEF Store!TypeOK, Store!Leave, Store!Idle

(* It leaves, and the folder is pruned or not.                             *)
LEMMA LeaveKeeps ==
  ASSUME StoreOK, StoreInv, NEW s \in Store!Sessions, errand[s].at # "pack", Store!Leave(s),
         folder' = Store!Pruned \/ folder' = folder,
         db' \in {Torn} \cup SUBSET Commits, db' # db => Writing(s), stale' \in BOOLEAN,
         UNCHANGED <<before, auto, wake, clicks, made, unguarded, discarded>>
  PROVE  StoreInv'
<1>1. folder' \in Seq(Store!Package) /\ Traced /\ SafetyStays
  <2>1. CASE folder' = Store!Pruned
    BY <2>1, PrunedKeepsSafety DEF StoreInv
  <2>2. CASE folder' = folder
    BY <2>2, FolderStays DEF StoreInv, Store!TypeOK
  <2> QED BY <2>1, <2>2
<1>2. /\ errand' \in [Store!Sessions -> {Store!Idle} \cup Store!Job] /\ errand'[s].at = "idle"
      /\ \A v \in Store!Sessions : v # s => errand'[v] = errand[v]
  BY LeaveIs DEF StoreInv
<1>3. Store!TypeOK'
  BY <1>1, <1>2 DEF StoreInv, Store!TypeOK
<1>4. Elsewhere \subseteq Elsewhere'
  BY <1>1, ElsewhereGrows
<1>5. made \subseteq Elsewhere' \cup Stored'
  <2>1. CASE db' = db
    BY <1>4, <2>1 DEF StoreInv, Covered, Stored
  <2>2. CASE Writing(s)
    BY <1>4, <2>2 DEF StoreInv, Covered
  <2> QED BY <2>1, <2>2
<1>6. ~Writing(s)'
  BY <1>2 DEF Writing
<1>7. errand'[s].at \notin {"pack", "replace"}
  BY <1>2
<1> QED BY <1>1, <1>2, <1>3, <1>4, <1>5, <1>6, <1>7, JobOnly

LEMMA OldPruneKeeps == ASSUME StoreOK, StoreInv, Store!OldPrune PROVE StoreInv'
<1>1. /\ errand["admin"].at = "prune" /\ Store!Leave("admin") /\ folder' = Store!Pruned
      /\ UNCHANGED <<db, before, stale, auto, wake, clicks, made, unguarded, discarded>>
  BY DEF Store!OldPrune, Store!setup, Store!history
<1>2. db' \in {Torn} \cup SUBSET Commits /\ stale' \in BOOLEAN
  BY <1>1 DEF StoreInv, Store!TypeOK
<1> QED BY <1>1, <1>2, SessionsAre, LeaveKeeps

LEMMA SwapKeeps == ASSUME StoreOK, StoreInv, Store!Swap PROVE StoreInv'
<1>1. /\ errand["admin"].at = "swap" /\ Store!Leave("admin")
      /\ db' \in {errand["admin"].from, Torn} /\ stale' = TRUE
      /\ UNCHANGED <<before, folder, auto, wake, clicks, made, unguarded, discarded>>
  BY DEF Store!Swap, Store!setup, Store!history
<1>2. errand["admin"] \in Store!Job
  BY <1>1, JobsAre, SessionsAre DEF StoreInv
<1>3. db' \in {Torn} \cup SUBSET Commits /\ Writing("admin")
  BY <1>1, <1>2 DEF Store!Job, Writing
<1> QED BY <1>1, <1>3, SessionsAre, LeaveKeeps

LEMMA DropFailsKeeps ==
  ASSUME StoreOK, StoreInv, NEW s \in Store!Sessions, Store!DropFails(s) PROVE StoreInv'
<1>1. /\ errand[s].at = "replace" /\ Store!Leave(s) /\ stale' = TRUE
      /\ db' \in IF db = Torn THEN {Torn} ELSE SUBSET db
      /\ UNCHANGED <<before, folder, auto, wake, clicks, made, unguarded, discarded>>
  BY DEF Store!DropFails, Store!setup, Store!history
<1>2. db' \in {Torn} \cup SUBSET Commits /\ Writing(s)
  BY <1>1 DEF StoreInv, Store!TypeOK, Writing
<1> QED BY <1>1, <1>2, LeaveKeeps

LEMMA EndReplaceKeeps ==
  ASSUME StoreOK, StoreInv, NEW s \in Store!Sessions, Store!EndReplace(s) PROVE StoreInv'
<1>1. /\ errand[s].at = "copy" /\ Store!Leave(s) /\ db' \in {errand[s].from, Torn}
      /\ UNCHANGED <<before, stale, folder, auto, wake, clicks, made, unguarded, discarded>>
  BY DEF Store!EndReplace, Store!setup, Store!history
<1>2. errand[s] \in Store!Job
  BY <1>1, JobsAre DEF StoreInv
<1>3. db' \in {Torn} \cup SUBSET Commits /\ Writing(s) /\ stale' \in BOOLEAN
  BY <1>1, <1>2 DEF Store!Job, Writing, StoreInv, Store!TypeOK
<1> QED BY <1>1, <1>3, LeaveKeeps

LEMMA ReplaceFailsKeeps ==
  ASSUME StoreOK, StoreInv, NEW s \in Store!Sessions, Store!ReplaceFails(s) PROVE StoreInv'
<1>1. /\ errand[s].at = "copy" /\ Store!Leave(s) /\ db' \in {Torn, {}}
      /\ UNCHANGED <<before, stale, folder, auto, wake, clicks, made, unguarded, discarded>>
  BY DEF Store!ReplaceFails, Store!setup, Store!history
<1>2. db' \in {Torn} \cup SUBSET Commits /\ Writing(s) /\ stale' \in BOOLEAN
  BY <1>1 DEF Writing, StoreInv, Store!TypeOK
<1> QED BY <1>1, <1>2, LeaveKeeps

LEMMA BeginReplaceKeeps ==
  ASSUME StoreOK, StoreInv, NEW s \in Store!Sessions, Store!BeginReplace(s) PROVE StoreInv'
<1>1. /\ errand[s].at = "replace" /\ db' = Torn /\ errand' = [errand EXCEPT ![s].at = "copy"]
      /\ stale' = TRUE
      /\ UNCHANGED <<before, folder, auto, wake, clicks, made, unguarded, discarded>>
  BY DEF Store!BeginReplace, Store!setup, Store!history
<1>2. errand[s] \in Store!Job /\ errand \in [Store!Sessions -> {Store!Idle} \cup Store!Job]
  BY <1>1, JobsAre DEF StoreInv, Store!TypeOK
<1>3. /\ [errand[s] EXCEPT !.at = "copy"] \in Store!Job
      /\ [errand[s] EXCEPT !.at = "copy"].at = "copy"
  BY <1>2 DEF Store!Job
<1>4. errand' = [errand EXCEPT ![s] = [errand[s] EXCEPT !.at = "copy"]]
  BY <1>1, <1>2
<1>5. /\ errand' \in [Store!Sessions -> {Store!Idle} \cup Store!Job] /\ errand'[s].at = "copy"
      /\ \A v \in Store!Sessions : v # s => errand'[v] = errand[v]
  BY <1>2, <1>3, <1>4
<1>6. Store!TypeOK'
  BY <1>1, <1>5 DEF StoreInv, Store!TypeOK
<1>7. Traced /\ Elsewhere \subseteq Elsewhere'
  BY <1>1, FolderStays, ElsewhereGrows
<1>8. Writing(s) /\ s = "admin" /\ made \subseteq Elsewhere'
  BY <1>1, <1>7, RestorerIs DEF Writing, StoreInv, Covered
<1> QED BY <1>1, <1>5, <1>6, <1>7, <1>8, JobOnly

LEMMA OldRestoreKeeps ==
  ASSUME StoreOK, StoreInv, NEW i \in DOMAIN folder, Store!OldRestore(i) PROVE StoreInv'
<1> DEFINE task == [at |-> "swap", next |-> "idle", from |-> folder[i].content,
                    spoilt |-> FALSE]
<1>1. /\ clicks < MaxEvents /\ clicks' = clicks + 1 /\ errand["admin"] = Store!Idle
      /\ before' \in Store!Readable /\ discarded' = discarded \cup before
      /\ errand' = [errand EXCEPT !["admin"] = task]
      /\ UNCHANGED <<db, stale, folder, auto, wake, made, unguarded>>
  BY DEF Store!OldRestore, Store!Click, Store!Event
<1>2. before' = Stored /\ before' \in SUBSET Commits
  BY <1>1, ReadableIs, StoredTyped DEF StoreInv
<1>3. folder[i] \in Store!Package /\ errand \in [Store!Sessions -> {Store!Idle} \cup Store!Job]
  BY DEF StoreInv, Store!TypeOK
<1>4. task \in Store!Job /\ task.at = "swap"
  BY <1>3 DEF Store!Package, Store!Job
<1> HIDE DEF task
<1>5. /\ errand' \in [Store!Sessions -> {Store!Idle} \cup Store!Job]
      /\ errand'["admin"].at = "swap"
      /\ \A v \in Store!Sessions : v # "admin" => errand'[v] = errand[v]
  BY <1>1, <1>3, <1>4, SessionsAre
<1>6. Store!TypeOK'
  <2>1. discarded' \in SUBSET Commits /\ made' \in SUBSET Commits
        /\ unguarded' \in SUBSET Commits
    BY <1>1 DEF StoreInv, Store!TypeOK
  <2>2. {made', unguarded', discarded'} \subseteq SUBSET Commits
    BY <2>1
  <2> QED BY <1>1, <1>2, <1>5, <2>2 DEF StoreOK, StoreInv, Store!TypeOK
<1>7. Traced /\ Elsewhere \subseteq Elsewhere'
  <2>1. SafetyStays /\ Traced
    BY <1>1, FolderStays
  <2> QED BY <1>1, <2>1, ElsewhereGrows
<1>8. made \subseteq Elsewhere'
  BY <1>1, <1>2, <1>7 DEF StoreInv, Covered, Elsewhere
<1>9. errand["admin"].at = "idle"
  BY <1>1 DEF Store!Idle
<1> QED BY <1>1, <1>5, <1>6, <1>7, <1>8, <1>9, SessionsAre, JobOnly

-----------------------------------------------------------------------------
(* The steps that begin a package.                                         *)

LEMMA ScheduledRunKeeps == ASSUME StoreOK, StoreInv, Store!ScheduledRun PROVE StoreInv'
<1>1. /\ wake' = FALSE /\ errand["scheduler"] = Store!Idle
      /\ UNCHANGED <<db, before, stale, auto, clicks, made, unguarded, discarded>>
  BY DEF Store!ScheduledRun, Store!history
<1>2. CASE Store!Begin("scheduler", "full", "prune", {}, folder)
  <2>1. errand["scheduler"].at \in {"idle", "prune"}
    BY <1>1 DEF Store!Idle
  <2>2. auto' \in BOOLEAN /\ wake' \in BOOLEAN /\ clicks' \in 0..MaxEvents
    BY <1>1 DEF StoreInv, Store!TypeOK
  <2>3. "full" \in Store!Kinds /\ "prune" \in {"idle", "prune", "replace"} /\ {} \in SUBSET Commits
        /\ "prune" # "replace"
    BY DEF Store!Kinds
  <2> QED BY <1>1, <1>2, <2>1, <2>2, <2>3, SessionsAre, BeginKeeps
<1>3. CASE UNCHANGED <<errand, folder>>
  <2>1. Store!TypeOK'
    BY <1>1, <1>3 DEF StoreInv, Store!TypeOK
  <2> QED BY <1>1, <1>3, <2>1, FolderStays, FolderOnly
<1> QED BY <1>2, <1>3 DEF Store!ScheduledRun

LEMMA ScheduledPruneKeeps == ASSUME StoreOK, StoreInv, Store!ScheduledPrune PROVE StoreInv'
<1>1. /\ errand["scheduler"].at = "prune"
      /\ UNCHANGED <<db, before, stale, auto, wake, clicks, made, unguarded, discarded>>
  BY DEF Store!ScheduledPrune, Store!setup, Store!history
<1>2. CASE Store!Leave("scheduler") /\ folder' = Store!Pruned
  <2>1. db' \in {Torn} \cup SUBSET Commits /\ stale' \in BOOLEAN
    BY <1>1 DEF StoreInv, Store!TypeOK
  <2> QED BY <1>1, <1>2, <2>1, SessionsAre, LeaveKeeps
<1>3. CASE Store!Begin("scheduler", "database", "idle", {}, Store!Pruned)
  <2>1. auto' \in BOOLEAN /\ wake' \in BOOLEAN /\ clicks' \in 0..MaxEvents
    BY <1>1 DEF StoreInv, Store!TypeOK
  <2>2. "database" \in Store!Kinds /\ "idle" \in {"idle", "prune", "replace"}
        /\ {} \in SUBSET Commits /\ "idle" # "replace"
    BY DEF Store!Kinds
  <2> QED BY <1>1, <1>3, <2>1, <2>2, SessionsAre, BeginKeeps
<1> QED BY <1>2, <1>3 DEF Store!ScheduledPrune

(* The same of the pages' creations.                                       *)
LEMMA ClickBegins ==
  ASSUME StoreOK, StoreInv, Store!Click, NEW kind \in Store!Kinds,
         NEW next \in {"idle", "prune", "replace"},
         NEW from \in SUBSET Commits, next = "replace" => kind = "safety",
         Store!Begin("admin", kind, next, from, folder), UNCHANGED <<db, before, stale, Store!history>>
  PROVE  StoreInv'
<1>1. /\ clicks < MaxEvents /\ clicks' = clicks + 1 /\ errand["admin"].at = "idle"
      /\ UNCHANGED <<db, before, stale, auto, wake, made, unguarded, discarded>>
  BY DEF Store!Click, Store!Event, Store!Idle, Store!history
<1>2. auto' \in BOOLEAN /\ wake' \in BOOLEAN /\ clicks' \in 0..MaxEvents
  BY <1>1 DEF StoreOK, StoreInv, Store!TypeOK
<1> QED BY <1>1, <1>2, SessionsAre, BeginKeeps

LEMMA CreateKeeps ==
  ASSUME StoreOK, StoreInv, NEW kind \in {"full", "database"}, Store!Create(kind)
  PROVE  StoreInv'
<1>1. kind \in Store!Kinds /\ {} \in SUBSET Commits
  BY DEF Store!Kinds
<1> QED BY <1>1, ClickBegins DEF Store!Create

LEMMA OldCreateKeeps == ASSUME StoreOK, StoreInv, Store!OldCreate PROVE StoreInv'
<1>1. "old" \in Store!Kinds /\ {} \in SUBSET Commits
  BY DEF Store!Kinds
<1> QED BY <1>1, ClickBegins DEF Store!OldCreate

LEMMA RestoreKeeps ==
  ASSUME StoreOK, StoreInv, NEW i \in DOMAIN folder, Store!Restore(i) PROVE StoreInv'
<1>1. "safety" \in Store!Kinds
  BY DEF Store!Kinds
<1>2. folder[i].content \in SUBSET Commits
  <2>1. folder[i] \in Store!Package
    BY DEF StoreInv, Store!TypeOK
  <2> QED BY <2>1 DEF Store!Package
<1> QED BY <1>1, <1>2, ClickBegins DEF Store!Restore

-----------------------------------------------------------------------------
(* An error, a transaction, what a stale connection wrote, a crash.        *)

(* A package that session s was writing has no writer any more.            *)
LeftBy(row, s) == [row EXCEPT !.by = IF row.by = s THEN Store!NoWriter ELSE row.by]

LEMMA RowLeft ==
  ASSUME NEW row \in Store!Package, NEW s
  PROVE  /\ LeftBy(row, s) \in Store!Package /\ LeftBy(row, s).kind = row.kind
         /\ LeftBy(row, s).content = row.content /\ LeftBy(row, s).whole = row.whole
         /\ LeftBy(row, s).by = IF row.by = s THEN Store!NoWriter ELSE row.by
BY DEF LeftBy, Store!Package

LEMMA CreateFailsKeeps ==
  ASSUME StoreOK, StoreInv, NEW s \in Store!Sessions, Store!CreateFails(s) PROVE StoreInv'
<1> DEFINE S == {i \in Store!Own(s) : folder[i].kind # "old"}
           left == Store!Without(S)
<1>1. /\ errand[s].at = "pack" /\ Store!Leave(s)
      /\ folder' = [i \in DOMAIN left |-> LeftBy(left[i], s)]
      /\ UNCHANGED <<db, before, stale, auto, wake, clicks, made, unguarded, discarded>>
  BY DEF Store!CreateFails, LeftBy, Store!setup, Store!history
<1>2. folder \in Seq(Store!Package)
  BY DEF StoreInv, Store!TypeOK
<1>3. \A i \in S : ~folder[i].whole
  BY DEF Store!Own, StoreInv, OwnOK
<1>4. left \in Seq(Store!Package)
  BY <1>2, WithoutIs
<1> HIDE DEF S
<1>5. \A i \in DOMAIN left : left[i] \in Store!Package
  BY <1>4
<1>6. /\ DOMAIN folder' = DOMAIN left
      /\ \A i \in DOMAIN left : folder'[i] = LeftBy(left[i], s)
  BY <1>1
<1>7. folder' \in Seq(Store!Package)
  <2>1. \A i \in DOMAIN left : LeftBy(left[i], s) \in Store!Package
    BY <1>5, RowLeft
  <2> HIDE DEF left
  <2> QED BY <1>1, <1>4, <2>1
<1>8. \A k \in DOMAIN folder' :
        /\ folder'[k].kind = left[k].kind /\ folder'[k].content = left[k].content
        /\ folder'[k].whole = left[k].whole
        /\ folder'[k].by = IF left[k].by = s THEN Store!NoWriter ELSE left[k].by
  BY <1>5, <1>6, RowLeft
<1>9. Traced /\ SafetyStays
  BY <1>2, <1>3, <1>6, <1>8, FolderCut
<1>10. /\ errand' \in [Store!Sessions -> {Store!Idle} \cup Store!Job] /\ errand'[s].at = "idle"
       /\ \A v \in Store!Sessions : v # s => errand'[v] = errand[v]
  BY <1>1, LeaveIs DEF StoreInv
<1>11. Store!TypeOK'
  BY <1>1, <1>7, <1>10 DEF StoreInv, Store!TypeOK
<1>12. Elsewhere \subseteq Elsewhere' /\ Stored' = Stored
  BY <1>1, <1>9, ElsewhereGrows DEF Stored
<1>13. \A k \in DOMAIN folder' : folder'[k].by # s
  BY <1>8, SessionsAre
<1>14. \A v \in Store!Sessions : (Writing(v)' => Writing(v)) /\ (Packing(v)' => Packing(v))
  BY <1>10 DEF Writing, Packing
<1>15. made' \subseteq Elsewhere' \cup Stored'
       /\ \A v \in Store!Sessions : Writing(v)' => made' \subseteq Elsewhere'
  BY <1>1, <1>12, <1>14 DEF StoreInv, Covered
<1>16. ~Writing("scheduler")'
  BY <1>14, SessionsAre DEF StoreInv, RestorerOK
<1>17. \A v \in Store!Sessions : errand'[v].at = "pack" => errand'[v] = errand[v]
  BY <1>10
<1>18. \A v \in Store!Sessions : errand[v].at = "pack" /\ errand'[v].at # "pack" =>
         \A k \in DOMAIN folder' : folder'[k].by # v
  BY <1>10, <1>13
<1>19. \A v \in Store!Sessions : Packing(v)' => made' \subseteq made \cup Elsewhere'
  BY <1>1
<1>20. OwnOK' /\ RestorerOK' /\ Covered'
  BY <1>9, <1>12, <1>15, <1>16, <1>17, <1>18, <1>19, StepKept
<1> QED BY <1>11, <1>20 DEF StoreInv

LEMMA CommitKeeps ==
  ASSUME StoreOK, StoreInv, NEW c \in Commits, Store!Commit(c) PROVE StoreInv'
<1>1. /\ clicks < MaxEvents /\ clicks' = clicks + 1 /\ made' = made \cup {c}
      /\ unguarded' \in {unguarded, unguarded \cup {c}}
      /\ (\E s \in Store!Sessions : Store!Restoring(s)) => c \in unguarded'
      /\ UNCHANGED <<before, stale, folder, auto, wake, discarded>>
  <2>1. CASE unguarded' = unguarded \cup
                (IF \E s \in Store!Sessions : Store!Restoring(s) THEN {c} ELSE {})
    BY <2>1 DEF Store!Commit, Store!Event
  <2>2. CASE unguarded' = unguarded \cup {c}
    BY <2>2 DEF Store!Commit, Store!Event
  <2> QED BY <2>1, <2>2 DEF Store!Commit
<1>2. /\ db \in {Torn} \cup SUBSET Commits
      /\ errand \in [Store!Sessions -> {Store!Idle} \cup Store!Job]
      /\ folder \in Seq(Store!Package)
  BY DEF StoreInv, Store!TypeOK
<1>3. \A s \in Store!Sessions : Packing(s) \/ Writing(s) => Store!Restoring(s)
  BY DEF Packing, Writing, Store!Restoring
<1>4. \/ db # Torn /\ db' = db \cup {c} /\ errand' = errand
      \/ /\ db' = db /\ c \in unguarded'
         /\ \/ errand' = errand
            \/ errand' = [s \in Store!Sessions |->
                  IF s \in Store!Copying THEN [errand[s] EXCEPT !.spoilt = TRUE] ELSE errand[s]]
  BY DEF Store!Commit
<1>5. \/ db' = db /\ c \in unguarded'
      \/ /\ db # Torn /\ db' = db \cup {c} /\ db' \in SUBSET Commits /\ db' # Torn
         /\ Stored' = Stored \cup {c}
  <2> SUFFICES ASSUME db # Torn, db' = db \cup {c}
               PROVE  db' \in SUBSET Commits /\ db' # Torn /\ Stored' = Stored \cup {c}
    BY <1>4
  <2>1. db' \in SUBSET Commits
    BY <1>2
  <2>2. db' # Torn
    BY <2>1 DEF StoreOK
  <2> QED BY <2>1, <2>2 DEF Stored
<1>6. /\ errand' \in [Store!Sessions -> {Store!Idle} \cup Store!Job]
      /\ \A s \in Store!Sessions : errand'[s].at = errand[s].at
      /\ \A s \in Store!Sessions : errand[s].at # "copy" => errand'[s] = errand[s]
  <2>1. CASE errand' = errand
    BY <1>2, <2>1
  <2>2. CASE errand' = [s \in Store!Sessions |->
                       IF s \in Store!Copying THEN [errand[s] EXCEPT !.spoilt = TRUE]
                       ELSE errand[s]]
    <3>1. ASSUME NEW s \in Store!Sessions, errand[s].at = "copy"
          PROVE  [errand[s] EXCEPT !.spoilt = TRUE] \in Store!Job
                 /\ [errand[s] EXCEPT !.spoilt = TRUE].at = errand[s].at
      <4>1. errand[s] \in Store!Job
        BY <3>1, JobsAre DEF StoreInv
      <4> QED BY <4>1 DEF Store!Job
    <3>2. \A s \in Store!Sessions : s \in Store!Copying <=> errand[s].at = "copy"
      BY DEF Store!Copying
    <3> QED BY <1>2, <2>2, <3>1, <3>2
  <2> QED BY <1>4, <2>1, <2>2
<1>7. Store!TypeOK'
  <2>1. discarded' \in SUBSET Commits /\ made' \in SUBSET Commits
        /\ unguarded' \in SUBSET Commits
    BY <1>1 DEF StoreInv, Store!TypeOK
  <2>2. {made', unguarded', discarded'} \subseteq SUBSET Commits
    BY <2>1
  <2>3. clicks' \in 0..MaxEvents
    BY <1>1 DEF StoreOK, StoreInv, Store!TypeOK
  <2>4. before' \in SUBSET Commits /\ {auto', wake', stale'} \subseteq BOOLEAN
    BY <1>1 DEF StoreInv, Store!TypeOK
  <2>5. db' \in {Torn} \cup SUBSET Commits /\ folder' \in Seq(Store!Package)
    BY <1>1, <1>2, <1>5
  <2> QED BY <1>6, <2>2, <2>3, <2>4, <2>5 DEF Store!TypeOK
<1>8. Traced /\ Elsewhere \subseteq Elsewhere'
  <2>1. Traced /\ SafetyStays
    BY <1>1, FolderStays
  <2> QED BY <1>1, <2>1, ElsewhereGrows
<1>9. unguarded' \subseteq Elsewhere'
  BY DEF Elsewhere
<1>10. \A s \in Store!Sessions : (Writing(s)' <=> Writing(s)) /\ (Packing(s)' <=> Packing(s))
  BY <1>6 DEF Writing, Packing
<1>11. ASSUME NEW s \in Store!Sessions, Packing(s) \/ Writing(s) PROVE c \in Elsewhere'
  BY <1>1, <1>3, <1>9, <1>11
<1>12. made' \subseteq Elsewhere' \cup Stored'
  <2>1. made \subseteq Elsewhere \cup Stored
    BY DEF StoreInv, Covered
  <2>2. CASE db' = db /\ c \in unguarded'
    BY <1>1, <1>8, <1>9, <2>1, <2>2 DEF Stored
  <2>3. CASE Stored' = Stored \cup {c}
    BY <1>1, <1>8, <2>1, <2>3
  <2> QED BY <1>5, <2>2, <2>3
<1>13. ASSUME NEW s \in Store!Sessions, Writing(s)' PROVE made' \subseteq Elsewhere'
  <2>1. made \subseteq Elsewhere
    BY <1>10, <1>13 DEF StoreInv, Covered
  <2> QED BY <1>1, <1>8, <1>10, <1>11, <1>13, <2>1
<1>14. \A s \in Store!Sessions : Packing(s)' => made' \subseteq made \cup Elsewhere'
  BY <1>1, <1>10, <1>11
<1>15. ~Writing("scheduler")'
  BY <1>10, SessionsAre DEF StoreInv, RestorerOK
<1>16. \A s \in Store!Sessions : errand'[s].at = "pack" => errand'[s] = errand[s]
  BY <1>6
<1>17. \A s \in Store!Sessions : ~(errand[s].at = "pack" /\ errand'[s].at # "pack")
  BY <1>6
<1>18. OwnOK' /\ RestorerOK' /\ Covered'
  BY <1>8, <1>12, <1>13, <1>14, <1>15, <1>16, <1>17, StepKept
<1> QED BY <1>7, <1>18 DEF StoreInv

LEMMA WriteBackKeeps == ASSUME StoreOK, StoreInv, Store!WriteBack PROVE StoreInv'
<1>1. /\ clicks < MaxEvents /\ clicks' = clicks + 1
      /\ db # Torn /\ db' = Torn /\ unguarded' = unguarded \cup db
      /\ UNCHANGED <<before, stale, folder, errand, auto, wake, made, discarded>>
  BY DEF Store!WriteBack, Store!Event
<1>2. Store!TypeOK'
  <2>1. clicks' \in 0..MaxEvents
    BY <1>1 DEF StoreOK, StoreInv, Store!TypeOK
  <2>2. unguarded' \in SUBSET Commits
    BY <1>1 DEF StoreInv, Store!TypeOK
  <2>3. {made', unguarded', discarded'} \subseteq SUBSET Commits
    BY <1>1, <2>2 DEF StoreInv, Store!TypeOK
  <2> QED BY <1>1, <2>1, <2>3 DEF StoreInv, Store!TypeOK
<1>3. Traced /\ Elsewhere \subseteq Elsewhere'
  BY <1>1, FolderStays, ElsewhereGrows
<1>4. made' \subseteq Elsewhere' \cup Stored'
  <2>1. Stored \subseteq unguarded'
    BY <1>1 DEF Stored
  <2>2. unguarded' \subseteq Elsewhere'
    BY DEF Elsewhere
  <2> QED BY <1>1, <1>3, <2>1, <2>2 DEF StoreInv, Covered
<1>5. \A s \in Store!Sessions : Writing(s)' => made' \subseteq Elsewhere'
  BY <1>1, <1>3 DEF StoreInv, Covered, Writing
<1>6. ~Writing("scheduler")'
  BY <1>1 DEF StoreInv, RestorerOK, Writing
<1>7. OwnOK' /\ RestorerOK' /\ Covered'
  BY <1>1, <1>3, <1>4, <1>5, <1>6, StepKept
<1> QED BY <1>2, <1>7 DEF StoreInv

Alone(row) == [row EXCEPT !.by = Store!NoWriter]

LEMMA RowAlone ==
  ASSUME NEW row \in Store!Package
  PROVE  /\ Alone(row) \in Store!Package /\ Alone(row).kind = row.kind
         /\ Alone(row).content = row.content /\ Alone(row).whole = row.whole
         /\ Alone(row).by = Store!NoWriter
BY DEF Alone, Store!Package

LEMMA CrashKeeps == ASSUME StoreOK, StoreInv, Store!Crash PROVE StoreInv'
<1>1. /\ clicks < MaxEvents /\ clicks' = clicks + 1 /\ wake' = FALSE /\ stale' = FALSE
      /\ db' \in IF Store!Copying = {} THEN {db} ELSE {Torn, {}}
      /\ folder' = [i \in DOMAIN folder |-> Alone(folder[i])]
      /\ errand' = [s \in Store!Sessions |-> Store!Idle]
      /\ UNCHANGED <<before, auto, made, unguarded, discarded>>
  BY DEF Store!Crash, Store!Event, Alone, Store!history
<1>2. folder \in Seq(Store!Package) /\ \A i \in DOMAIN folder : folder[i] \in Store!Package
  BY DEF StoreInv, Store!TypeOK
<1>3. /\ folder' \in Seq(Store!Package) /\ DOMAIN folder' = DOMAIN folder
      /\ \A i \in DOMAIN folder : folder'[i] = Alone(folder[i])
  <2>1. \A i \in DOMAIN folder : Alone(folder[i]) \in Store!Package
    BY <1>2, RowAlone
  <2> QED BY <1>1, <1>2, <2>1
<1>4. \A i \in DOMAIN folder : From(i, i) /\ folder'[i].by = Store!NoWriter
  BY <1>2, <1>3, RowAlone DEF From
<1>5. Traced /\ SafetyStays
  BY <1>3, <1>4, FolderMarked
<1>6. Elsewhere \subseteq Elsewhere'
  BY <1>1, <1>5, ElsewhereGrows
<1>7. /\ errand' \in [Store!Sessions -> {Store!Idle} \cup Store!Job]
      /\ \A s \in Store!Sessions : errand'[s].at = "idle"
  BY <1>1 DEF Store!Idle
<1>8. Store!TypeOK'
  <2>1. clicks' \in 0..MaxEvents
    BY <1>1 DEF StoreOK, StoreInv, Store!TypeOK
  <2>2. {auto', wake', stale'} \subseteq BOOLEAN
    BY <1>1 DEF StoreInv, Store!TypeOK
  <2>3. db' \in {Torn} \cup SUBSET Commits
    BY <1>1 DEF StoreInv, Store!TypeOK
  <2>4. before' \in SUBSET Commits
        /\ {made', unguarded', discarded'} \subseteq SUBSET Commits
    BY <1>1 DEF StoreInv, Store!TypeOK
  <2> QED BY <1>3, <1>7, <2>1, <2>2, <2>3, <2>4 DEF Store!TypeOK
<1>9. made' \subseteq Elsewhere' \cup Stored'
  <2>1. CASE Store!Copying = {}
    BY <1>1, <1>6, <2>1 DEF StoreInv, Covered, Stored
  <2>2. CASE Store!Copying # {}
    <3>1. PICK s \in Store!Sessions : errand[s].at = "copy"
      BY <2>2 DEF Store!Copying
    <3> QED BY <1>1, <1>6, <3>1 DEF StoreInv, Covered, Writing
  <2> QED BY <2>1, <2>2
<1>10. \A s \in Store!Sessions : ~Writing(s)' /\ ~Packing(s)' /\ errand'[s].at \notin {"pack", "replace"}
  BY <1>7 DEF Writing, Packing
<1>11. \A k \in DOMAIN folder' : \A s \in Store!Sessions : folder'[k].by # s
  BY <1>3, <1>4, SessionsAre
<1>12. OwnOK' /\ RestorerOK' /\ Covered'
  BY <1>5, <1>6, <1>9, <1>10, <1>11, SessionsAre, StepKept
<1> QED BY <1>8, <1>12 DEF StoreInv

-----------------------------------------------------------------------------
(* Theorems.                                                               *)

LEMMA StoreInitOK == ASSUME StoreOK, Store!Init PROVE StoreInv
<1>1. /\ db = {} /\ before = {} /\ stale = FALSE /\ folder = <<>>
      /\ errand = [s \in Store!Sessions |-> Store!Idle]
      /\ auto = TRUE /\ wake = FALSE /\ clicks = 0
      /\ made = {} /\ unguarded = {} /\ discarded = {}
  BY DEF Store!Init
<1>2. folder \in Seq(Store!Package) /\ DOMAIN folder = {}
  BY <1>1
<1>3. \A s \in Store!Sessions : errand[s].at = "idle"
  BY <1>1 DEF Store!Idle
<1>4. Store!TypeOK
  <2>1. clicks \in 0..MaxEvents
    BY <1>1 DEF StoreOK
  <2>2. {auto, wake, stale} \subseteq BOOLEAN
    BY <1>1
  <2>3. errand \in [Store!Sessions -> {Store!Idle} \cup Store!Job]
    BY <1>1
  <2>4. db \in {Torn} \cup SUBSET Commits /\ before \in SUBSET Commits
        /\ {made, unguarded, discarded} \subseteq SUBSET Commits
    BY <1>1
  <2> QED BY <1>2, <2>1, <2>2, <2>3, <2>4 DEF Store!TypeOK
<1>5. OwnOK
  BY <1>2 DEF OwnOK
<1>6. RestorerOK /\ Covered
  BY <1>1, <1>3, SessionsAre DEF RestorerOK, Covered, Packing, Writing
<1> QED BY <1>4, <1>5, <1>6 DEF StoreInv

LEMMA StoreNextKeeps ==
  ASSUME StoreOK, StoreInv, [Store!Next]_Store!vars PROVE StoreInv'
<1>1. CASE \/ Store!Hour \/ Store!ScheduledRun \/ Store!ScheduledPrune
           \/ Store!SaveSettings \/ Store!Crash
  BY <1>1, HourKeeps, ScheduledRunKeeps, ScheduledPruneKeeps, SaveSettingsKeeps,
     CrashKeeps, Zenon
<1>2. CASE Store!Import \/ Store!PruneByHand \/ Store!OldCreate \/ Store!OldPrune \/ Store!Swap
  BY <1>2, ImportKeeps, PruneByHandKeeps, OldCreateKeeps, OldPruneKeeps, SwapKeeps, Zenon
<1>3. CASE \E kind \in {"full", "database"} : Store!Create(kind)
  BY <1>3, CreateKeeps, Zenon
<1>4. CASE \E i \in DOMAIN folder : Store!Delete(i) \/ Store!Restore(i) \/ Store!OldRestore(i)
  BY <1>4, DeleteKeeps, RestoreKeeps, OldRestoreKeeps, Zenon
<1>5. ASSUME NEW s \in Store!Sessions,
             \/ Store!Packed(s) \/ Store!CreateFails(s)
             \/ Store!BeginReplace(s) \/ Store!DropFails(s)
             \/ Store!EndReplace(s) \/ Store!ReplaceFails(s)
      PROVE  StoreInv'
  BY <1>5, PackedKeeps, CreateFailsKeeps, BeginReplaceKeeps, DropFailsKeeps,
     EndReplaceKeeps, ReplaceFailsKeeps, Zenon
<1>6. CASE \E c \in Commits : Store!Commit(c)
  BY <1>6, CommitKeeps, Zenon
<1>7. CASE Store!WriteBack
  BY <1>7, WriteBackKeeps
<1>8. CASE UNCHANGED Store!vars
  BY <1>8, StoreStutterKeeps
<1> QED BY <1>1, <1>2, <1>3, <1>4, <1>5, <1>6, <1>7, <1>8, Zenon DEF Store!Next

LEMMA StoreHeld == ASSUME StoreOK, StoreInv PROVE Store!NoCommitLost
<1>1. Store!Holds(Safety) \subseteq Store!Holds(DOMAIN folder)
  BY DEF Store!Holds, Safety
<1> QED BY <1>1 DEF StoreInv, Covered, Elsewhere, Stored, Store!NoCommitLost

LEMMA StoreInvariance ==
  ASSUME StoreOK
  PROVE  Store!Spec => []StoreInv
<1>1. Store!Init => StoreInv
  BY StoreInitOK
<1>2. StoreInv /\ [Store!Next]_Store!vars => StoreInv'
  BY StoreNextKeeps
<1> QED BY <1>1, <1>2, PTL DEF Store!Spec

(* Whatever is created, pruned, restored, imported or deleted, by the      *)
(* scheduler and an administrator together, by either set of pages, and    *)
(* wherever the process dies: what was committed before a restoration is   *)
(* in the database, in a whole package, or in the copy of the older page,  *)
(* unless it was deleted by hand or written over by a connection from      *)
(* before an earlier restoration (utils/backup_service.py).                *)
THEOREM NoCommitLostAlways == StoreSpec => []NoCommitLost
<1>1. StoreInv => NoCommitLost
  BY ServerOK, StoreHeld DEF NoCommitLost
<1> QED BY <1>1, ServerOK, StoresOnly, StoreInvariance, PTL

(* The variables keep their types.                                         *)
THEOREM StoreTypeCorrect == StoreSpec => []Store!TypeOK
<1>1. StoreInv => Store!TypeOK
  BY DEF StoreInv
<1> QED BY <1>1, ServerOK, StoresOnly, StoreInvariance, PTL
===============================================================================
