----------------------------- MODULE Enrollment -----------------------------
(***************************************************************************)
(* Classes and the registrations in them: routes/registration.py (add,     *)
(* cancel), routes/classes.py (add, edit, close, delete, transfer),        *)
(* routes/features.py (merge, split), routes/final.py (multi_register),    *)
(* routes/students.py (edit, delete) and the repair of                     *)
(* utils/system_diagnostics.py.                                            *)
(*                                                                         *)
(* A request loads its rows and tests its guards in a Begin action and     *)
(* writes and commits in a Commit action; other sessions run in between.   *)
(* A handler that takes a document number, or writes, before it reads a    *)
(* row reads it under the write lock, in its Commit action.  All classes   *)
(* and registrations are of one course.  A registration that names a class *)
(* deleted by now breaks a foreign key: Abort.                             *)
(***************************************************************************)
EXTENDS Integers, FiniteSets, FiniteSetsExt, UnitOfWork

CONSTANTS
  Sessions,     \* server threads that handle requests
  Students,     \* students
  NoStudent,    \* student of a registration that does not exist
  Classes,      \* ids of classes
  NoClass,      \* registrations.class_id is NULL
  Capacities,   \* values of max_capacity
  MaxRegs,      \* bound: registrations 1..MaxRegs
  MaxRequests   \* bound: requests in one behaviour

ASSUME ConstantsOK ==
  /\ Sessions # {} /\ NoStudent \notin Students /\ NoClass \notin Classes
  /\ Capacities \subseteq Nat \ {0}
  /\ MaxRegs \in Nat /\ MaxRequests \in Nat

VARIABLES
  regs,       \* table registrations ("absent": no row)
  classes,    \* table class_groups
  students,   \* students.status
  moved,      \* classes named in a row of class_transfers
  req,        \* the request each session is in
  served      \* number of requests begun

vars == <<regs, classes, students, moved, req, served>>

RegIds == 1..MaxRegs
Seats == Classes \cup {NoClass}
RegRow == [student : Students \cup {NoStudent}, class : Seats,
           status : {"absent", "active", "completed", "withdrawn"}]
ClassStatuses == {"active", "completed", "cancelled"}
ClassRow == [status : ClassStatuses \cup {"absent"}, cap : Nat, count : Nat]
StudentStatuses == {"active", "withdrawn", "suspended"}

NoReg == [student |-> NoStudent, class |-> NoClass, status |-> "absent"]
NoRow == [status |-> "absent", cap |-> 0, count |-> 0]
Idle == [op |-> "idle"]

Exists(c) == classes[c].status # "absent"

(* Fault: off by one.                                                      *)
IsFullBeyond(row) == row.count > row.cap

IsFull(row) == row.count >= row.cap

ActiveIn(rows, c) ==
  {n \in RegIds : rows[n].status = "active" /\ rows[n].class = c}
CountIn(rows, c) == Cardinality(ActiveIn(rows, c))
ActiveOf(s) == {n \in RegIds : regs[n].status = "active"
                               /\ regs[n].student = s}

NewClass(cap) == [status |-> "active", cap |-> cap, count |-> 0]

Init ==
  /\ regs = [n \in RegIds |-> NoReg]
  /\ classes \in [Classes -> {NoRow} \cup {NewClass(cap) : cap \in Capacities}]
  /\ students = [s \in Students |-> "active"]
  /\ moved = {}
  /\ req = [w \in Sessions |-> Idle]
  /\ served = 0

-----------------------------------------------------------------------------
(* Steps of a request.                                                     *)

Start(w) ==
  /\ req[w] = Idle
  /\ served < MaxRequests
  /\ served' = served + 1

Begin(w, r) ==
  /\ Start(w)
  /\ req' = [req EXCEPT ![w] = r]
  /\ UNCHANGED <<regs, classes, students, moved>>

Finish(w) ==
  /\ req' = [req EXCEPT ![w] = Idle]
  /\ UNCHANGED served

Abort(w) ==
  /\ req[w] # Idle
  /\ Finish(w)
  /\ UNCHANGED <<regs, classes, students, moved>>

(* A registration row under the next id.                                   *)
Insert(s, c) ==
  \E n \in RegIds :
    /\ regs[n].status = "absent"
    /\ \A m \in 1..(n - 1) : regs[m].status # "absent"
    /\ regs' = [regs EXCEPT ![n] = [student |-> s, class |-> c,
                                    status |-> "active"]]

(* current_count := the active registrations of class c after this step,   *)
(* on the row the session has loaded.                                      *)
Recount(c, row) ==
  Flush(classes[c], row, [row EXCEPT !.count = CountIn(regs', c)])

-----------------------------------------------------------------------------
(* registration.add(): the guards look at the rows as loaded; the number   *)
(* is taken next, so the recount runs under the write lock.                *)
BeginAdd(w, s, c) ==
  /\ students[s] = "active"
  /\ c # NoClass => classes[c].status = "active" /\ ~IsFull(classes[c])
  /\ ActiveOf(s) = {}
  /\ Begin(w, [op |-> "add", student |-> s, to |-> c,
               toRow |-> IF c = NoClass THEN NoRow ELSE classes[c]])

CommitAdd(w) ==
  LET r == req[w] IN
  /\ r.op = "add"
  /\ r.to # NoClass => Exists(r.to)
  /\ Insert(r.student, r.to)
  /\ classes' = IF r.to = NoClass THEN classes
                ELSE [classes EXCEPT ![r.to] = Recount(r.to, r.toRow)]
  /\ Finish(w)
  /\ UNCHANGED <<students, moved>>

(* registration.cancel(): the class of the registration as loaded is       *)
(* counted again; its row is read after the first write.                   *)
BeginCancel(w, n) ==
  /\ regs[n].status = "active"
  /\ Begin(w, [op |-> "cancel", n |-> n, regRow |-> regs[n]])

CommitCancel(w) ==
  LET r == req[w]
      c == r.regRow.class
  IN
  /\ r.op = "cancel"
  /\ regs' = [regs EXCEPT ![r.n].status = "withdrawn"]
  /\ classes' = IF c # NoClass /\ Exists(c)
                THEN [classes EXCEPT ![c] = Recount(c, classes[c])]
                ELSE classes
  /\ Finish(w)
  /\ UNCHANGED <<students, moved>>

(* classes.transfer(): to another active class of the course with a free   *)
(* seat; both classes are counted again.                                   *)
BeginTransfer(w, n, t) ==
  LET c == regs[n].class IN
  /\ regs[n].status = "active"
  /\ c # NoClass /\ t # c
  /\ classes[t].status = "active" /\ ~IsFull(classes[t])
  /\ Begin(w, [op |-> "transfer", n |-> n, regRow |-> regs[n], from |-> c,
               fromRow |-> classes[c], to |-> t, toRow |-> classes[t]])

CommitTransfer(w) ==
  LET r == req[w] IN
  /\ r.op = "transfer"
  /\ Exists(r.from) /\ Exists(r.to)
  /\ regs' = [regs EXCEPT ![r.n] =
       Flush(@, r.regRow, [r.regRow EXCEPT !.class = r.to])]
  /\ classes' = [classes EXCEPT ![r.from] = Recount(r.from, r.fromRow),
                                ![r.to] = Recount(r.to, r.toRow)]
  /\ moved' = moved \cup {r.from, r.to}
  /\ Finish(w)
  /\ UNCHANGED students

-----------------------------------------------------------------------------
(* classes.add()                                                           *)
AddClass(w, c, cap) ==
  /\ Start(w)
  /\ ~Exists(c)
  /\ classes' = [classes EXCEPT ![c] = NewClass(cap)]
  /\ UNCHANGED <<regs, students, moved, req>>

(* classes.edit(): the capacity may not fall below the count as loaded;    *)
(* the status is the form's.                                               *)
BeginEdit(w, c, cap, status) ==
  /\ Exists(c)
  /\ cap >= classes[c].count
  /\ Begin(w, [op |-> "edit", from |-> c, fromRow |-> classes[c], cap |-> cap,
               status |-> status])

CommitEdit(w) ==
  LET r == req[w] IN
  /\ r.op = "edit"
  /\ Exists(r.from)
  /\ classes' = [classes EXCEPT ![r.from] =
       Flush(@, r.fromRow, [r.fromRow EXCEPT !.cap = r.cap,
                                             !.status = r.status])]
  /\ Finish(w)
  /\ UNCHANGED <<regs, students, moved>>

(* classes.close(): the query for the registrations flushes the class      *)
(* first, so they are read under the write lock.                           *)
BeginClose(w, c) ==
  /\ Exists(c) /\ classes[c].status # "completed"
  /\ Begin(w, [op |-> "close", from |-> c, fromRow |-> classes[c]])

CommitClose(w) ==
  LET r == req[w] IN
  /\ r.op = "close"
  /\ Exists(r.from)
  /\ regs' = [n \in RegIds |->
       IF n \in ActiveIn(regs, r.from)
       THEN [regs[n] EXCEPT !.status = "completed"] ELSE regs[n]]
  /\ classes' = [classes EXCEPT ![r.from] =
       Flush(@, r.fromRow, [r.fromRow EXCEPT !.status = "completed",
                                             !.count = 0])]
  /\ Finish(w)
  /\ UNCHANGED <<students, moved>>

(* classes.delete(): refused while registrations are active.  The sessions *)
(* go first, then the class; what still refers to it loses its class.      *)
BeginDelete(w, c) ==
  /\ Exists(c)
  /\ ActiveIn(regs, c) = {}
  /\ Begin(w, [op |-> "delete", from |-> c])

CommitDelete(w) ==
  LET r == req[w] IN
  /\ r.op = "delete"
  /\ Exists(r.from)
  /\ r.from \notin moved
  /\ classes' = [classes EXCEPT ![r.from] = NoRow]
  /\ regs' = [n \in RegIds |->
       IF regs[n].class = r.from THEN [regs[n] EXCEPT !.class = NoClass]
       ELSE regs[n]]
  /\ Finish(w)
  /\ UNCHANGED <<students, moved>>

(* merge_class(): every registration that was loaded moves, the target's   *)
(* count goes up by one for each, from the value loaded; the class that is *)
(* merged is closed after that, its own target too (the page does not      *)
(* offer it, the handler does not refuse it).                              *)
BeginMerge(w, c, t) ==
  /\ Exists(c) /\ Exists(t)
  /\ Begin(w, [op |-> "merge", from |-> c, fromRow |-> classes[c], to |-> t,
               toRow |-> classes[t], rows |-> ActiveIn(regs, c)])

CommitMerge(w) ==
  LET r == req[w] IN
  /\ r.op = "merge"
  /\ Exists(r.from)
  /\ r.rows # {} => Exists(r.to)
  /\ regs' = [n \in RegIds |->
       IF n \in r.rows /\ r.to # r.from
       THEN [regs[n] EXCEPT !.class = r.to] ELSE regs[n]]
  /\ classes' = [classes EXCEPT
       ![r.to] = Flush(@, r.toRow,
                       [r.toRow EXCEPT !.count = @ + Cardinality(r.rows)]),
       ![r.from] = Flush(classes[r.from], r.fromRow,
                         [r.fromRow EXCEPT !.status = "completed", !.count = 0])]
  /\ Finish(w)
  /\ UNCHANGED <<students, moved>>

(* split_class(): the class is loaded first, the registrations of the      *)
(* students named in the form are looked up under the write lock, one for  *)
(* each student.                                                           *)
BeginSplit(w, c, names) ==
  /\ Exists(c)
  /\ Begin(w, [op |-> "split", from |-> c, fromRow |-> classes[c],
               names |-> names])

CommitSplit(w) ==
  LET r == req[w]
      here(s) == {n \in ActiveIn(regs, r.from) : regs[n].student = s}
      going == {Min(here(s)) : s \in {s \in r.names : here(s) # {}}}
      k == Cardinality(going)
  IN
  /\ r.op = "split"
  /\ \E new \in Classes :
       /\ ~Exists(new) /\ new # r.from
       /\ regs' = [n \in RegIds |->
            IF n \in going THEN [regs[n] EXCEPT !.class = new] ELSE regs[n]]
       /\ classes' = [classes EXCEPT
            ![r.from] = Flush(@, r.fromRow, [r.fromRow EXCEPT !.count =
                                               IF @ < k THEN 0 ELSE @ - k]),
            ![new] = [NewClass(r.fromRow.cap) EXCEPT !.count = k]]
  /\ Finish(w)
  /\ UNCHANGED <<students, moved>>

-----------------------------------------------------------------------------
(* multi_register(): its number is taken first; neither the student, nor   *)
(* the seats, nor an earlier registration is looked at.                    *)
MultiRegister(w, s, c) ==
  /\ Start(w)
  /\ c # NoClass => Exists(c)
  /\ Insert(s, c)
  /\ classes' = IF c = NoClass THEN classes
                ELSE [classes EXCEPT ![c].count = @ + 1]
  /\ UNCHANGED <<students, moved, req>>

(* students.edit(): the status is the form's.                              *)
EditStudent(w, s, status) ==
  /\ Start(w)
  /\ students' = [students EXCEPT ![s] = status]
  /\ UNCHANGED <<regs, classes, moved, req>>

(* students.delete(): the query for the registrations flushes the student  *)
(* first, so they and their classes are read under the write lock.         *)
BeginWithdraw(w, s) ==
  /\ students[s] # "withdrawn"
  /\ Begin(w, [op |-> "withdraw", student |-> s])

CommitWithdraw(w) ==
  LET r == req[w]
      rows == ActiveOf(r.student)
      left == {regs[n].class : n \in rows}
  IN
  /\ r.op = "withdraw"
  /\ students' = [students EXCEPT ![r.student] = "withdrawn"]
  /\ regs' = [n \in RegIds |->
       IF n \in rows THEN [regs[n] EXCEPT !.status = "withdrawn"] ELSE regs[n]]
  /\ classes' = [c \in Classes |->
       IF c \in left THEN Recount(c, classes[c]) ELSE classes[c]]
  /\ Finish(w)
  /\ UNCHANGED moved

(* repair_safe_consistency_issues(): the classes are loaded at once and    *)
(* counted one after the other; those counted after the first correction   *)
(* (the late ones) are counted under the write lock.                       *)
BeginRepair(w) ==
  Begin(w, [op |-> "repair", loaded |-> classes,
            counts |-> [c \in Classes |-> CountIn(regs, c)]])

CommitRepair(w) ==
  LET r == req[w] IN
  /\ r.op = "repair"
  /\ \A c \in Classes : r.loaded[c].status # "absent" => Exists(c)
  /\ \E late \in SUBSET Classes :
       /\ late # {} => \E c \in Classes \ late : r.counts[c] # r.loaded[c].count
       /\ classes' = [c \in Classes |->
            IF r.loaded[c].status = "absent" THEN classes[c]
            ELSE Flush(classes[c], r.loaded[c],
                       [r.loaded[c] EXCEPT !.count =
                          IF c \in late THEN CountIn(regs, c)
                          ELSE r.counts[c]])]
  /\ Finish(w)
  /\ UNCHANGED <<regs, students, moved>>

Quiet ==
  /\ served = MaxRequests
  /\ \A w \in Sessions : req[w] = Idle
  /\ UNCHANGED vars

Next ==
  \/ \E w \in Sessions, s \in Students, c \in Seats : BeginAdd(w, s, c)
  \/ \E w \in Sessions : CommitAdd(w)
  \/ \E w \in Sessions, n \in RegIds : BeginCancel(w, n)
  \/ \E w \in Sessions : CommitCancel(w)
  \/ \E w \in Sessions, n \in RegIds, t \in Classes : BeginTransfer(w, n, t)
  \/ \E w \in Sessions : CommitTransfer(w)
  \/ \E w \in Sessions, c \in Classes, cap \in Capacities : AddClass(w, c, cap)
  \/ \E w \in Sessions, c \in Classes, cap \in Capacities,
        status \in ClassStatuses : BeginEdit(w, c, cap, status)
  \/ \E w \in Sessions : CommitEdit(w)
  \/ \E w \in Sessions, c \in Classes : BeginClose(w, c)
  \/ \E w \in Sessions : CommitClose(w)
  \/ \E w \in Sessions, c \in Classes : BeginDelete(w, c)
  \/ \E w \in Sessions : CommitDelete(w)
  \/ \E w \in Sessions, c, t \in Classes : BeginMerge(w, c, t)
  \/ \E w \in Sessions : CommitMerge(w)
  \/ \E w \in Sessions, c \in Classes, names \in SUBSET Students :
       BeginSplit(w, c, names)
  \/ \E w \in Sessions : CommitSplit(w)
  \/ \E w \in Sessions, s \in Students, c \in Seats : MultiRegister(w, s, c)
  \/ \E w \in Sessions, s \in Students, status \in StudentStatuses :
       EditStudent(w, s, status)
  \/ \E w \in Sessions, s \in Students : BeginWithdraw(w, s)
  \/ \E w \in Sessions : CommitWithdraw(w)
  \/ \E w \in Sessions : BeginRepair(w)
  \/ \E w \in Sessions : CommitRepair(w)
  \/ \E w \in Sessions : Abort(w)
  \/ Quiet

Spec == Init /\ [][Next]_vars

-----------------------------------------------------------------------------
(***************************************************************************)
(* Properties.                                                             *)
(***************************************************************************)

TypeOK ==
  /\ regs \in [RegIds -> RegRow]
  /\ classes \in [Classes -> ClassRow]
  /\ students \in [Students -> StudentStatuses]
  /\ moved \subseteq Classes
  /\ DOMAIN req = Sessions
  /\ served \in 0..MaxRequests

(* However many sessions run: a registration that was completed or         *)
(* withdrawn never becomes active again; a transfer or a merge that loaded *)
(* it while it was active moves it at most.                                *)
NeverReactivated ==
  [][\A n \in RegIds :
       regs[n].status \in {"completed", "withdrawn"}
         => regs'[n].status \in {"completed", "withdrawn"}]_vars

(* The count of a class is the number of its active registrations (the     *)
(* consistency check of utils/system_diagnostics.py).                      *)
CountIsActive ==
  \A c \in Classes : Exists(c) => classes[c].count = CountIn(regs, c)
=============================================================================
