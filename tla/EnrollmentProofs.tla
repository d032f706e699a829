--------------------------- MODULE EnrollmentProofs ---------------------------
(***************************************************************************)
(* Theorems about Enrollment, for any number of sessions, students,        *)
(* classes, registrations and requests.  The last is about its instance    *)
(* MCEnrollment, whose history variable says whether requests overlapped.  *)
(***************************************************************************)
EXTENDS MCEnrollment, FiniteSetTheorems, WellFoundedInduction, TLAPS

(* The rows a request holds are rows of the tables.                        *)
RequestOK(r) ==
  /\ r.op = "add" => r.student \in Students /\ r.to \in Seats /\ r.toRow \in ClassRow
  /\ r.op = "cancel" => r.n \in RegIds /\ r.regRow \in RegRow
  /\ r.op = "transfer" =>
       /\ r.n \in RegIds /\ r.regRow \in RegRow
       /\ r.from \in Classes /\ r.fromRow \in ClassRow
       /\ r.to \in Classes /\ r.toRow \in ClassRow
  /\ r.op = "edit" =>
       /\ r.from \in Classes /\ r.fromRow \in ClassRow
       /\ r.cap \in Nat /\ r.status \in ClassStatuses
  /\ r.op \in {"close", "split"} => r.from \in Classes /\ r.fromRow \in ClassRow
  /\ r.op = "delete" => r.from \in Classes
  /\ r.op = "merge" =>
       /\ r.from \in Classes /\ r.fromRow \in ClassRow
       /\ r.to \in Classes /\ r.toRow \in ClassRow
       /\ r.rows \in SUBSET RegIds
  /\ r.op = "withdraw" => r.student \in Students
  /\ r.op = "repair" =>
       r.loaded \in [Classes -> ClassRow] /\ r.counts \in [Classes -> Nat]

(* What request r has loaded is still what the tables rs and cs hold.      *)
Fresh(r, rs, cs) ==
  /\ r.op = "add" /\ r.to # NoClass => r.toRow = cs[r.to] /\ ~IsFull(r.toRow)
  /\ r.op = "cancel" => r.regRow = rs[r.n]
  /\ r.op = "transfer" =>
       /\ r.regRow = rs[r.n] /\ r.regRow.status = "active" /\ r.regRow.class = r.from
       /\ r.to # r.from /\ r.fromRow = cs[r.from]
       /\ r.toRow = cs[r.to] /\ ~IsFull(r.toRow)
  /\ r.op \in {"edit", "close", "split"} => r.fromRow = cs[r.from]
  /\ r.op = "merge" =>
       /\ r.fromRow = cs[r.from] /\ r.toRow = cs[r.to]
       /\ r.rows = ActiveIn(rs, r.from)
  /\ r.op = "repair" => r.loaded = cs /\ \A c \in Classes : r.counts[c] = CountIn(rs, c)

Tables(rs, cs) == rs \in [RegIds -> RegRow] /\ cs \in [Classes -> ClassRow]

Requests == \A w \in Sessions : RequestOK(req[w])

(* A registration names no deleted class.                                  *)
ClassKnown ==
  \A n \in RegIds : regs[n].class # NoClass => Exists(regs[n].class)

Sound == TypeOK /\ Requests /\ ClassKnown

Over == {"completed", "withdrawn"}
KeepsOver == \A n \in RegIds : regs[n].status \in Over => regs'[n].status \in Over

-----------------------------------------------------------------------------
(* Rows and counts.                                                        *)

LEMMA FlushedClass ==
  ASSUME NEW row \in ClassRow, NEW loaded \in ClassRow, NEW edited \in ClassRow
  PROVE  /\ Flush(row, loaded, edited) \in ClassRow
         /\ Flush(row, loaded, edited).status =
              IF edited.status = loaded.status THEN row.status ELSE edited.status
         /\ loaded = row => Flush(row, loaded, edited) = edited
  <1> DEFINE new == [status |-> IF edited.status = loaded.status THEN row.status ELSE edited.status,
                     cap |-> IF edited.cap = loaded.cap THEN row.cap ELSE edited.cap,
                     count |-> IF edited.count = loaded.count THEN row.count ELSE edited.count]
  <1>1. Flush(row, loaded, edited) = new
    <2>1. DOMAIN row = {"status", "cap", "count"}
      BY DEF ClassRow
    <2> QED BY <2>1 DEF Flush
  <1>2. new \in ClassRow
    BY DEF ClassRow
  <1>3. loaded = row => new = edited
    BY DEF ClassRow
  <1> QED BY <1>1, <1>2, <1>3

LEMMA FlushedReg ==
  ASSUME NEW row \in RegRow, NEW loaded \in RegRow, NEW c \in Seats
  PROVE  LET new == Flush(row, loaded, [loaded EXCEPT !.class = c])
         IN  /\ new \in RegRow /\ new.status = row.status
             /\ new.class \in {row.class, c}
             /\ loaded = row => new = [row EXCEPT !.class = c]
  <1> DEFINE new == [student |-> row.student,
                     class |-> IF c = loaded.class THEN row.class ELSE c,
                     status |-> row.status]
  <1>1. Flush(row, loaded, [loaded EXCEPT !.class = c]) = new
    <2>1. DOMAIN row = {"student", "class", "status"}
      BY DEF RegRow
    <2> QED BY <2>1 DEF Flush, RegRow
  <1>2. new \in RegRow
    BY DEF RegRow
  <1>3. loaded = row => new = [row EXCEPT !.class = c]
    BY DEF RegRow
  <1> QED BY <1>1, <1>2, <1>3

LEMMA CountIsNat ==
  ASSUME NEW rows, NEW c
  PROVE  /\ ActiveIn(rows, c) \subseteq RegIds /\ IsFiniteSet(ActiveIn(rows, c))
         /\ CountIn(rows, c) \in Nat
  <1>1. IsFiniteSet(RegIds)
    BY ConstantsOK, FS_Interval DEF RegIds
  <1>2. ActiveIn(rows, c) \subseteq RegIds
    BY DEF ActiveIn
  <1> QED BY <1>1, <1>2, FS_Subset, FS_CardinalityType DEF CountIn

(* Recount() keeps the class as it is but for its count.                   *)
LEMMA RecountedClass ==
  ASSUME NEW c, NEW loaded \in ClassRow, classes[c] \in ClassRow
  PROVE  /\ Recount(c, loaded) \in ClassRow
         /\ Recount(c, loaded).status = classes[c].status
         /\ loaded = classes[c] => Recount(c, loaded) = [loaded EXCEPT !.count = CountIn(regs', c)]
  <1> DEFINE k == CountIn(regs', c)
             edited == [loaded EXCEPT !.count = k]
  <1>1. k \in Nat
    BY CountIsNat
  <1> HIDE DEF k
  <1>2. edited \in ClassRow /\ edited.status = loaded.status
    BY <1>1 DEF ClassRow
  <1>3. Recount(c, loaded) = Flush(classes[c], loaded, edited)
    BY DEF Recount, k
  <1> HIDE DEF edited
  <1>4. /\ Recount(c, loaded) \in ClassRow
        /\ Recount(c, loaded).status = classes[c].status
        /\ loaded = classes[c] => Recount(c, loaded) = edited
    BY <1>2, <1>3, FlushedClass
  <1> QED BY <1>4 DEF edited, k

(* A nonempty set of numbers has its least member.                         *)
LEMMA MinIsMember ==
  ASSUME NEW S \in SUBSET Nat, S # {}
  PROVE  Min(S) \in S
  <1>1. PICK x \in S : \A y \in S : <<y, x>> \notin OpToRel(<, Nat)
    BY WFMin, NatLessThanWellFounded, Zenon
  <1>2. \A y \in S : x <= y
    <2>1. OpToRel(<, Nat) = {pair \in Nat \X Nat : pair[1] < pair[2]}
      BY Zenon DEF OpToRel
    <2>2. ASSUME NEW y \in S
          PROVE  x <= y
      <3>1. <<y, x>> \notin {pair \in Nat \X Nat : pair[1] < pair[2]}
        BY <1>1, <2>1, <2>2
      <3> QED BY <3>1
    <2> QED BY <2>2
  <1> QED BY <1>2 DEF Min

-----------------------------------------------------------------------------
(* Requests begin, end and are abandoned.                                  *)

LEMMA FinishRequest ==
  ASSUME Sound, NEW w \in Sessions, Finish(w)
  PROVE  /\ DOMAIN req' = Sessions /\ served' \in 0..MaxRequests /\ Requests'
         /\ req'[w] = Idle /\ \A v \in Sessions \ {w} : req'[v] = req[v]
  <1>1. DOMAIN req = Sessions /\ served' = served /\ req' = [req EXCEPT ![w] = Idle]
    BY DEF Sound, TypeOK, Finish
  <1>2. RequestOK(Idle)
    BY DEF RequestOK, Idle
  <1> HIDE DEF Idle
  <1>3. req'[w] = Idle /\ \A v \in Sessions \ {w} : req'[v] = req[v]
    BY <1>1
  <1>4. Requests'
    <2>1. \A v \in Sessions : RequestOK(req'[v])
      BY <1>2, <1>3 DEF Sound, Requests
    <2> QED BY <2>1 DEF Requests, RequestOK
  <1> QED BY <1>1, <1>3, <1>4 DEF Sound, TypeOK

LEMMA BeginSound ==
  ASSUME Sound, NEW w \in Sessions, NEW r, RequestOK(r), Begin(w, r)
  PROVE  Sound' /\ KeepsOver
  <1>1. /\ DOMAIN req = Sessions /\ req' = [req EXCEPT ![w] = r]
        /\ served' = served + 1 /\ served < MaxRequests /\ served \in 0..MaxRequests
        /\ UNCHANGED <<regs, classes, students, moved>>
    BY DEF Sound, TypeOK, Begin, Start
  <1>2. req'[w] = r /\ \A v \in Sessions \ {w} : req'[v] = req[v]
    BY <1>1
  <1>3. Requests'
    <2>1. \A v \in Sessions : RequestOK(req'[v])
      BY <1>2 DEF Sound, Requests
    <2> QED BY <2>1 DEF Requests, RequestOK
  <1>4. TypeOK'
    <2>1. served' \in 0..MaxRequests /\ DOMAIN req' = Sessions
      BY <1>1, ConstantsOK
    <2> QED BY <1>1, <2>1 DEF Sound, TypeOK
  <1>5. ClassKnown' /\ KeepsOver
    BY <1>1 DEF Sound, ClassKnown, Exists, KeepsOver
  <1> QED BY <1>3, <1>4, <1>5 DEF Sound

(* A commit that keeps the two tables in order.                            *)
LEMMA CommitSound ==
  ASSUME Sound, NEW w \in Sessions, Finish(w), Tables(regs', classes'),
         ClassKnown', students' \in [Students -> StudentStatuses], moved' \subseteq Classes
  PROVE  Sound'
  BY FinishRequest DEF Sound, TypeOK, Tables

-----------------------------------------------------------------------------
(* The handlers keep the tables in order.                                  *)


LEMMA InsertRow ==
  ASSUME Sound, NEW s \in Students, NEW c \in Seats, Insert(s, c)
  PROVE  /\ regs' \in [RegIds -> RegRow] /\ KeepsOver
         /\ \E n \in RegIds :
              /\ regs[n].status = "absent" /\ regs'[n].status = "active" /\ regs'[n].class = c
              /\ \A m \in RegIds \ {n} : regs'[m] = regs[m]
  <1> DEFINE row == [student |-> s, class |-> c, status |-> "active"]
  <1>1. row \in RegRow /\ row.status = "active" /\ row.class = c
    BY DEF RegRow
  <1>2. PICK n \in RegIds : regs[n].status = "absent" /\ regs' = [regs EXCEPT ![n] = row]
    BY DEF Insert
  <1> HIDE DEF row
  <1>3. regs \in [RegIds -> RegRow]
    BY DEF Sound, TypeOK
  <1>4. regs' \in [RegIds -> RegRow] /\ regs'[n] = row /\ \A m \in RegIds \ {n} : regs'[m] = regs[m]
    BY <1>1, <1>2, <1>3
  <1> QED BY <1>1, <1>2, <1>4 DEF KeepsOver, Over

LEMMA AddSound ==
  ASSUME Sound, NEW w \in Sessions, CommitAdd(w)
  PROVE  Sound' /\ KeepsOver
  <1> DEFINE r == req[w]
             row == Recount(r.to, r.toRow)
  <1>1. r.student \in Students /\ r.to \in Seats /\ r.toRow \in ClassRow
    BY DEF CommitAdd, Sound, Requests, RequestOK
  <1>2. /\ r.to # NoClass => Exists(r.to)
        /\ Insert(r.student, r.to) /\ Finish(w) /\ UNCHANGED <<students, moved>>
        /\ classes' = IF r.to = NoClass THEN classes ELSE [classes EXCEPT ![r.to] = row]
    BY DEF CommitAdd
  <1>3. classes \in [Classes -> ClassRow] /\ ClassKnown
    BY DEF Sound, TypeOK
  <1>4. r.to # NoClass => row \in ClassRow /\ row.status = classes[r.to].status
    BY <1>1, <1>3, RecountedClass DEF Seats
  <1> HIDE DEF r, row
  <1>5. /\ regs' \in [RegIds -> RegRow] /\ KeepsOver
        /\ \E n \in RegIds : /\ regs'[n].class = r.to
                             /\ \A m \in RegIds \ {n} : regs'[m] = regs[m]
    BY <1>1, <1>2, InsertRow
  <1>6. /\ classes' \in [Classes -> ClassRow]
        /\ \A c \in Classes : classes'[c].status = classes[c].status
    BY <1>1, <1>2, <1>3, <1>4 DEF Seats
  <1>7. ClassKnown'
    <2>1. \A n \in RegIds : regs'[n].class \in Seats
      BY <1>5 DEF RegRow
    <2> QED BY <1>2, <1>3, <1>5, <1>6, <2>1 DEF ClassKnown, Exists, Seats
  <1> QED BY <1>2, <1>5, <1>6, <1>7, CommitSound DEF Sound, TypeOK, Tables

LEMMA MultiRegisterSound ==
  ASSUME Sound, NEW w \in Sessions, NEW s \in Students, NEW c \in Seats, MultiRegister(w, s, c)
  PROVE  Sound' /\ KeepsOver
  <1>1. /\ served' = served + 1 /\ served < MaxRequests
        /\ c # NoClass => Exists(c)
        /\ Insert(s, c) /\ UNCHANGED <<students, moved, req>>
        /\ classes' = IF c = NoClass THEN classes ELSE [classes EXCEPT ![c].count = @ + 1]
    BY DEF MultiRegister, Start
  <1>2. classes \in [Classes -> ClassRow] /\ ClassKnown
    BY DEF Sound, TypeOK
  <1>3. /\ regs' \in [RegIds -> RegRow] /\ KeepsOver
        /\ \E n \in RegIds : /\ regs'[n].class = c
                             /\ \A m \in RegIds \ {n} : regs'[m] = regs[m]
    BY <1>1, InsertRow
  <1>4. /\ classes' \in [Classes -> ClassRow]
        /\ \A d \in Classes : classes'[d].status = classes[d].status
    <2>1. CASE c = NoClass
      BY <1>1, <1>2, <2>1
    <2>2. CASE c # NoClass
      <3> DEFINE row == [classes[c] EXCEPT !.count = @ + 1]
      <3>1. row \in ClassRow /\ row.status = classes[c].status
        BY <1>2, <2>2 DEF ClassRow, Seats
      <3>2. classes' = [classes EXCEPT ![c] = row]
        BY <1>1, <2>2
      <3> HIDE DEF row
      <3> QED BY <1>2, <3>1, <3>2
    <2> QED BY <2>1, <2>2
  <1>5. ClassKnown'
    <2>1. \A n \in RegIds : regs'[n].class \in Seats
      BY <1>3 DEF RegRow
    <2> QED BY <1>1, <1>2, <1>3, <1>4, <2>1 DEF ClassKnown, Exists, Seats
  <1>6. TypeOK'
    <2>1. served' \in 0..MaxRequests
      BY <1>1, ConstantsOK DEF Sound, TypeOK
    <2> QED BY <1>1, <1>3, <1>4, <2>1 DEF Sound, TypeOK
  <1>7. Requests'
    BY <1>1 DEF Sound, Requests
  <1> QED BY <1>3, <1>5, <1>6, <1>7 DEF Sound

LEMMA CancelSound ==
  ASSUME Sound, NEW w \in Sessions, CommitCancel(w)
  PROVE  Sound' /\ KeepsOver
  <1> DEFINE r == req[w]
             c == r.regRow.class
             row == Recount(c, classes[c])
             reg == [regs[r.n] EXCEPT !.status = "withdrawn"]
  <1>1. r.n \in RegIds /\ r.regRow \in RegRow /\ c \in Seats
    BY DEF CommitCancel, Sound, Requests, RequestOK, RegRow
  <1>2. /\ regs' = [regs EXCEPT ![r.n] = reg]
        /\ classes' = IF c # NoClass /\ Exists(c) THEN [classes EXCEPT ![c] = row] ELSE classes
        /\ Finish(w) /\ UNCHANGED <<students, moved>>
    BY DEF CommitCancel
  <1>3. classes \in [Classes -> ClassRow] /\ regs \in [RegIds -> RegRow] /\ ClassKnown
    BY DEF Sound, TypeOK
  <1>4. c # NoClass => row \in ClassRow /\ row.status = classes[c].status
    BY <1>1, <1>3, RecountedClass DEF Seats
  <1>5. reg \in RegRow /\ reg.status = "withdrawn" /\ reg.class = regs[r.n].class
    BY <1>1, <1>3 DEF RegRow
  <1> HIDE DEF r, c, row, reg
  <1>6. /\ classes' \in [Classes -> ClassRow]
        /\ \A d \in Classes : classes'[d].status = classes[d].status
    BY <1>1, <1>2, <1>3, <1>4 DEF Seats
  <1>7. /\ regs' \in [RegIds -> RegRow] /\ \A n \in RegIds : regs'[n].class = regs[n].class
        /\ \A n \in RegIds : regs'[n].status \in {regs[n].status, "withdrawn"}
    BY <1>1, <1>2, <1>3, <1>5
  <1>8. ClassKnown'
    <2>1. \A n \in RegIds : regs[n].class \in Seats
      BY <1>3 DEF RegRow
    <2> QED BY <1>3, <1>6, <1>7, <2>1 DEF ClassKnown, Exists, Seats
  <1> QED BY <1>2, <1>6, <1>7, <1>8, CommitSound DEF Sound, TypeOK, Tables, KeepsOver, Over

LEMMA TransferSound ==
  ASSUME Sound, NEW w \in Sessions, CommitTransfer(w)
  PROVE  Sound' /\ KeepsOver
  <1> DEFINE r == req[w]
             reg == Flush(regs[r.n], r.regRow, [r.regRow EXCEPT !.class = r.to])
             fromRow == Recount(r.from, r.fromRow)
             toRow == Recount(r.to, r.toRow)
  <1>1. /\ r.n \in RegIds /\ r.regRow \in RegRow
        /\ r.from \in Classes /\ r.fromRow \in ClassRow
        /\ r.to \in Classes /\ r.toRow \in ClassRow
    BY DEF CommitTransfer, Sound, Requests, RequestOK
  <1>2. classes \in [Classes -> ClassRow] /\ regs \in [RegIds -> RegRow] /\ ClassKnown
    BY DEF Sound, TypeOK
  <1>3. reg \in RegRow /\ reg.status = regs[r.n].status /\ reg.class \in {regs[r.n].class, r.to}
    BY <1>1, <1>2, FlushedReg, ZenonT(60) DEF Seats
  <1>4. fromRow \in ClassRow /\ fromRow.status = classes[r.from].status
    BY <1>1, <1>2, RecountedClass
  <1>5. toRow \in ClassRow /\ toRow.status = classes[r.to].status
    BY <1>1, <1>2, RecountedClass
  <1>6. /\ regs' = [regs EXCEPT ![r.n] = reg]
        /\ classes' = [classes EXCEPT ![r.from] = fromRow, ![r.to] = toRow]
        /\ Exists(r.to) /\ moved' = moved \cup {r.from, r.to}
        /\ Finish(w) /\ UNCHANGED students
    BY DEF CommitTransfer
  <1> HIDE DEF r, reg, fromRow, toRow
  <1>7. /\ classes' \in [Classes -> ClassRow]
        /\ \A d \in Classes : classes'[d].status = classes[d].status
    BY <1>1, <1>2, <1>4, <1>5, <1>6
  <1>8. /\ regs' \in [RegIds -> RegRow]
        /\ \A n \in RegIds : regs'[n].status = regs[n].status
        /\ \A n \in RegIds : regs'[n].class \in {regs[n].class, r.to}
    BY <1>1, <1>2, <1>3, <1>6
  <1>9. ClassKnown'
    <2>1. \A n \in RegIds : regs[n].class \in Seats
      BY <1>2 DEF RegRow
    <2> QED BY <1>1, <1>2, <1>6, <1>7, <1>8, <2>1 DEF ClassKnown, Exists, Seats
  <1>10. moved' \subseteq Classes /\ students' \in [Students -> StudentStatuses]
    BY <1>1, <1>6 DEF Sound, TypeOK
  <1> QED BY <1>6, <1>7, <1>8, <1>9, <1>10, CommitSound DEF Tables, KeepsOver

LEMMA EditSound ==
  ASSUME Sound, NEW w \in Sessions, CommitEdit(w)
  PROVE  Sound' /\ KeepsOver
  <1> DEFINE r == req[w]
             edited == [r.fromRow EXCEPT !.cap = r.cap, !.status = r.status]
             row == Flush(classes[r.from], r.fromRow, edited)
  <1>1. r.from \in Classes /\ r.fromRow \in ClassRow /\ r.cap \in Nat /\ r.status \in ClassStatuses
    BY DEF CommitEdit, Sound, Requests, RequestOK
  <1>2. classes \in [Classes -> ClassRow] /\ regs \in [RegIds -> RegRow] /\ ClassKnown
    BY DEF Sound, TypeOK
  <1>3. edited \in ClassRow /\ edited.status = r.status
    BY <1>1 DEF ClassRow, ClassStatuses
  <1>4. /\ classes' = [classes EXCEPT ![r.from] = row] /\ Exists(r.from)
        /\ Finish(w) /\ UNCHANGED <<regs, students, moved>>
    BY DEF CommitEdit
  <1> HIDE DEF edited
  <1>5. row \in ClassRow /\ row.status \in {classes[r.from].status, r.status}
    BY <1>1, <1>2, <1>3, FlushedClass
  <1> HIDE DEF r, row
  <1>6. /\ classes' \in [Classes -> ClassRow]
        /\ \A d \in Classes : Exists(d) => classes'[d].status # "absent"
    BY <1>1, <1>2, <1>4, <1>5 DEF Exists, ClassStatuses
  <1>7. ClassKnown'
    <2>1. \A n \in RegIds : regs[n].class \in Seats
      BY <1>2 DEF RegRow
    <2> QED BY <1>2, <1>4, <1>6, <2>1 DEF ClassKnown, Exists, Seats
  <1> QED BY <1>2, <1>4, <1>6, <1>7, CommitSound DEF Sound, TypeOK, Tables, KeepsOver

LEMMA CloseSound ==
  ASSUME Sound, NEW w \in Sessions, CommitClose(w)
  PROVE  Sound' /\ KeepsOver
  <1> DEFINE r == req[w]
             edited == [r.fromRow EXCEPT !.status = "completed", !.count = 0]
             row == Flush(classes[r.from], r.fromRow, edited)
             ended(n) == [regs[n] EXCEPT !.status = "completed"]
  <1>1. r.from \in Classes /\ r.fromRow \in ClassRow
    BY DEF CommitClose, Sound, Requests, RequestOK
  <1>2. classes \in [Classes -> ClassRow] /\ regs \in [RegIds -> RegRow] /\ ClassKnown
    BY DEF Sound, TypeOK
  <1>3. edited \in ClassRow /\ edited.status = "completed"
    BY <1>1 DEF ClassRow, ClassStatuses
  <1>4. \A n \in RegIds : /\ ended(n) \in RegRow /\ ended(n).status = "completed"
                          /\ ended(n).class = regs[n].class
    BY <1>2 DEF RegRow
  <1>5. /\ classes' = [classes EXCEPT ![r.from] = row] /\ Exists(r.from)
        /\ regs' = [n \in RegIds |-> IF n \in ActiveIn(regs, r.from) THEN ended(n) ELSE regs[n]]
        /\ Finish(w) /\ UNCHANGED <<students, moved>>
    BY DEF CommitClose
  <1> HIDE DEF edited, ended
  <1>6. row \in ClassRow /\ row.status \in {classes[r.from].status, "completed"}
    BY <1>1, <1>2, <1>3, FlushedClass
  <1> HIDE DEF r, row
  <1>7. /\ classes' \in [Classes -> ClassRow]
        /\ \A d \in Classes : Exists(d) => classes'[d].status # "absent"
    BY <1>1, <1>2, <1>5, <1>6 DEF Exists
  <1>8. /\ regs' \in [RegIds -> RegRow] /\ \A n \in RegIds : regs'[n].class = regs[n].class
        /\ \A n \in RegIds : regs'[n].status \in {regs[n].status, "completed"}
    BY <1>2, <1>4, <1>5
  <1>9. ClassKnown'
    <2>1. \A n \in RegIds : regs[n].class \in Seats
      BY <1>2 DEF RegRow
    <2> QED BY <1>2, <1>7, <1>8, <2>1 DEF ClassKnown, Exists, Seats
  <1> QED BY <1>5, <1>7, <1>8, <1>9, CommitSound DEF Sound, TypeOK, Tables, KeepsOver, Over

LEMMA DeleteSound ==
  ASSUME Sound, NEW w \in Sessions, CommitDelete(w)
  PROVE  Sound' /\ KeepsOver
  <1> DEFINE r == req[w]
             left(n) == [regs[n] EXCEPT !.class = NoClass]
  <1>1. r.from \in Classes
    BY DEF CommitDelete, Sound, Requests, RequestOK
  <1>2. classes \in [Classes -> ClassRow] /\ regs \in [RegIds -> RegRow] /\ ClassKnown
    BY DEF Sound, TypeOK
  <1>3. NoRow \in ClassRow
    BY DEF NoRow, ClassRow
  <1>4. \A n \in RegIds : /\ left(n) \in RegRow /\ left(n).status = regs[n].status
                          /\ left(n).class = NoClass
    BY <1>2 DEF RegRow, Seats
  <1>5. /\ classes' = [classes EXCEPT ![r.from] = NoRow]
        /\ regs' = [n \in RegIds |-> IF regs[n].class = r.from THEN left(n) ELSE regs[n]]
        /\ Finish(w) /\ UNCHANGED <<students, moved>>
    BY DEF CommitDelete
  <1> HIDE DEF r, left
  <1>6. /\ classes' \in [Classes -> ClassRow]
        /\ \A d \in Classes \ {r.from} : classes'[d] = classes[d]
    BY <1>1, <1>2, <1>3, <1>5
  <1>7. /\ regs' \in [RegIds -> RegRow]
        /\ \A n \in RegIds : regs'[n].status = regs[n].status
        /\ \A n \in RegIds : \/ regs'[n].class = NoClass
                             \/ regs'[n].class = regs[n].class /\ regs[n].class # r.from
    BY <1>2, <1>4, <1>5
  <1>8. ClassKnown'
    <2>1. \A n \in RegIds : regs[n].class \in Seats
      BY <1>2 DEF RegRow
    <2> QED BY <1>2, <1>6, <1>7, <2>1 DEF ClassKnown, Exists, Seats
  <1> QED BY <1>5, <1>6, <1>7, <1>8, CommitSound DEF Sound, TypeOK, Tables, KeepsOver

LEMMA MergeSound ==
  ASSUME Sound, NEW w \in Sessions, CommitMerge(w)
  PROVE  Sound' /\ KeepsOver
  <1> DEFINE r == req[w]
             more == r.toRow.count + Cardinality(r.rows)
             ended == [r.fromRow EXCEPT !.status = "completed", !.count = 0]
             joined == [r.toRow EXCEPT !.count = more]
             fromRow == Flush(classes[r.from], r.fromRow, ended)
             toRow(row) == Flush(row, r.toRow, joined)
             going(n) == [regs[n] EXCEPT !.class = r.to]
  <1>1. /\ r.from \in Classes /\ r.fromRow \in ClassRow
        /\ r.to \in Classes /\ r.toRow \in ClassRow /\ r.rows \in SUBSET RegIds
    BY DEF CommitMerge, Sound, Requests, RequestOK
  <1>2. classes \in [Classes -> ClassRow] /\ regs \in [RegIds -> RegRow] /\ ClassKnown
    BY DEF Sound, TypeOK
  <1>3. more \in Nat
    <2>1. IsFiniteSet(RegIds)
      BY ConstantsOK, FS_Interval DEF RegIds
    <2>2. Cardinality(r.rows) \in Nat
      BY <1>1, <2>1, FS_Subset, FS_CardinalityType
    <2> QED BY <1>1, <2>2 DEF ClassRow
  <1> HIDE DEF more
  <1>4. /\ ended \in ClassRow /\ ended.status = "completed"
        /\ joined \in ClassRow /\ joined.status = r.toRow.status
    BY <1>1, <1>3 DEF ClassRow, ClassStatuses
  <1>5. \A n \in RegIds : /\ going(n) \in RegRow /\ going(n).status = regs[n].status
                          /\ going(n).class = r.to
    BY <1>1, <1>2 DEF RegRow, Seats
  <1>6. /\ regs' = [n \in RegIds |->
               IF n \in r.rows /\ r.to # r.from THEN going(n) ELSE regs[n]]
        /\ classes' = [classes EXCEPT ![r.to] = toRow(@), ![r.from] = fromRow]
        /\ Exists(r.from) /\ (r.rows # {} => Exists(r.to))
        /\ Finish(w) /\ UNCHANGED <<students, moved>>
    BY DEF CommitMerge, more
  <1> HIDE DEF ended, joined, going
  <1>7. fromRow \in ClassRow /\ fromRow.status \in {classes[r.from].status, "completed"}
    BY <1>1, <1>2, <1>4, FlushedClass
  <1>8. \A row \in ClassRow : toRow(row) \in ClassRow /\ toRow(row).status = row.status
    BY <1>1, <1>4, FlushedClass
  <1> HIDE DEF r, fromRow, toRow
  <1>9. /\ classes' \in [Classes -> ClassRow]
        /\ \A d \in Classes : Exists(d) => classes'[d].status # "absent"
    <2> DEFINE joinedRow == toRow(classes[r.to])
    <2>1. joinedRow \in ClassRow /\ joinedRow.status = classes[r.to].status
      BY <1>1, <1>2, <1>8
    <2>2. classes' = [classes EXCEPT ![r.to] = joinedRow, ![r.from] = fromRow]
      BY <1>1, <1>2, <1>6
    <2> HIDE DEF joinedRow
    <2> QED BY <1>1, <1>2, <1>6, <1>7, <2>1, <2>2 DEF Exists
  <1>10. /\ regs' \in [RegIds -> RegRow]
         /\ \A n \in RegIds : regs'[n].status = regs[n].status
         /\ \A n \in RegIds : regs'[n].class = regs[n].class \/ (regs'[n].class = r.to /\ Exists(r.to))
    BY <1>2, <1>5, <1>6
  <1>11. ClassKnown'
    <2>1. \A n \in RegIds : regs[n].class \in Seats
      BY <1>2 DEF RegRow
    <2> QED BY <1>1, <1>2, <1>9, <1>10, <2>1 DEF ClassKnown, Exists, Seats
  <1> QED BY <1>6, <1>9, <1>10, <1>11, CommitSound DEF Sound, TypeOK, Tables, KeepsOver

(* The registrations that split_class() moves are among those of the class. *)
Here(c, s) == {n \in ActiveIn(regs, c) : regs[n].student = s}
Going(c, names) == {Min(Here(c, s)) : s \in {s \in names : Here(c, s) # {}}}

LEMMA GoingFromHere ==
  ASSUME NEW c, NEW names
  PROVE  /\ Going(c, names) \subseteq ActiveIn(regs, c)
         /\ IsFiniteSet(Going(c, names)) /\ Cardinality(Going(c, names)) \in Nat
  <1>1. ASSUME NEW s, Here(c, s) # {}
        PROVE  Min(Here(c, s)) \in ActiveIn(regs, c)
    <2>1. Here(c, s) \subseteq Nat
      BY ConstantsOK DEF Here, ActiveIn, RegIds
    <2>2. Min(Here(c, s)) \in Here(c, s)
      BY <1>1, <2>1, MinIsMember
    <2> QED BY <2>2 DEF Here
  <1>2. Going(c, names) \subseteq ActiveIn(regs, c)
    BY <1>1 DEF Going
  <1>3. IsFiniteSet(ActiveIn(regs, c))
    BY CountIsNat
  <1> QED BY <1>2, <1>3, FS_Subset, FS_CardinalityType

LEMMA SplitSound ==
  ASSUME Sound, NEW w \in Sessions, CommitSplit(w)
  PROVE  Sound' /\ KeepsOver
  <1> DEFINE r == req[w]
             going == Going(r.from, r.names)
             k == Cardinality(going)
             fewer == IF r.fromRow.count < k THEN 0 ELSE r.fromRow.count - k
             edited == [r.fromRow EXCEPT !.count = fewer]
             fromRow == Flush(classes[r.from], r.fromRow, edited)
             newRow == [NewClass(r.fromRow.cap) EXCEPT !.count = k]
             put(n, c) == [regs[n] EXCEPT !.class = c]
  <1>1. r.from \in Classes /\ r.fromRow \in ClassRow
    BY DEF CommitSplit, Sound, Requests, RequestOK
  <1>2. classes \in [Classes -> ClassRow] /\ regs \in [RegIds -> RegRow] /\ ClassKnown
    BY DEF Sound, TypeOK
  <1>3. going \subseteq RegIds /\ k \in Nat
    BY GoingFromHere, CountIsNat
  <1>4. PICK new \in Classes :
          /\ ~Exists(new)
          /\ regs' = [n \in RegIds |-> IF n \in going THEN put(n, new) ELSE regs[n]]
          /\ classes' = [classes EXCEPT ![r.from] = fromRow, ![new] = newRow]
          /\ Finish(w) /\ UNCHANGED <<students, moved>>
    BY DEF CommitSplit, Going, Here
  <1> HIDE DEF going, k
  <1>5. fewer \in Nat
    BY <1>1, <1>3 DEF ClassRow
  <1> HIDE DEF fewer
  <1>6. /\ edited \in ClassRow /\ edited.status = r.fromRow.status
        /\ newRow \in ClassRow /\ newRow.status = "active"
    BY <1>1, <1>3, <1>5 DEF ClassRow, NewClass, ClassStatuses
  <1>7. \A n \in RegIds : /\ put(n, new) \in RegRow /\ put(n, new).status = regs[n].status
                          /\ put(n, new).class = new
    BY <1>2 DEF RegRow, Seats
  <1> HIDE DEF edited, newRow, put
  <1>8. fromRow \in ClassRow /\ fromRow.status = classes[r.from].status
    BY <1>1, <1>2, <1>6, FlushedClass
  <1> HIDE DEF r, fromRow
  <1>9. /\ classes' \in [Classes -> ClassRow] /\ classes'[new].status # "absent"
        /\ \A d \in Classes : Exists(d) => classes'[d].status # "absent"
    BY <1>1, <1>2, <1>4, <1>6, <1>8 DEF Exists
  <1>10. /\ regs' \in [RegIds -> RegRow]
         /\ \A n \in RegIds : regs'[n].status = regs[n].status
         /\ \A n \in RegIds : regs'[n].class \in {regs[n].class, new}
    BY <1>2, <1>4, <1>7
  <1>11. ClassKnown'
    <2>1. \A n \in RegIds : regs[n].class \in Seats
      BY <1>2 DEF RegRow
    <2> QED BY <1>2, <1>9, <1>10, <2>1 DEF ClassKnown, Exists, Seats
  <1> QED BY <1>4, <1>9, <1>10, <1>11, CommitSound DEF Sound, TypeOK, Tables, KeepsOver

LEMMA WithdrawSound ==
  ASSUME Sound, NEW w \in Sessions, CommitWithdraw(w)
  PROVE  Sound' /\ KeepsOver
  <1> DEFINE r == req[w]
             rows == ActiveOf(r.student)
             left == {regs[n].class : n \in rows}
             out(n) == [regs[n] EXCEPT !.status = "withdrawn"]
  <1>1. classes \in [Classes -> ClassRow] /\ regs \in [RegIds -> RegRow] /\ ClassKnown
    BY DEF Sound, TypeOK
  <1>2. /\ students' = [students EXCEPT ![r.student] = "withdrawn"]
        /\ regs' = [n \in RegIds |-> IF n \in rows THEN out(n) ELSE regs[n]]
        /\ classes' = [c \in Classes |-> IF c \in left THEN Recount(c, classes[c]) ELSE classes[c]]
        /\ Finish(w) /\ UNCHANGED moved
    BY DEF CommitWithdraw
  <1>3. \A n \in RegIds : /\ out(n) \in RegRow /\ out(n).status = "withdrawn"
                          /\ out(n).class = regs[n].class
    BY <1>1 DEF RegRow
  <1>4. \A c \in Classes : /\ Recount(c, classes[c]) \in ClassRow
                           /\ Recount(c, classes[c]).status = classes[c].status
    BY <1>1, RecountedClass
  <1> HIDE DEF rows, left, out
  <1>5. /\ classes' \in [Classes -> ClassRow]
        /\ \A d \in Classes : classes'[d].status = classes[d].status
    BY <1>1, <1>2, <1>4
  <1>6. /\ regs' \in [RegIds -> RegRow] /\ \A n \in RegIds : regs'[n].class = regs[n].class
        /\ \A n \in RegIds : regs'[n].status \in {regs[n].status, "withdrawn"}
    BY <1>1, <1>2, <1>3
  <1>7. ClassKnown'
    <2>1. \A n \in RegIds : regs[n].class \in Seats
      BY <1>1 DEF RegRow
    <2> QED BY <1>1, <1>5, <1>6, <2>1 DEF ClassKnown, Exists, Seats
  <1>8. students' \in [Students -> StudentStatuses] /\ moved' \subseteq Classes
    BY <1>2 DEF Sound, TypeOK, StudentStatuses
  <1> QED BY <1>2, <1>5, <1>6, <1>7, <1>8, CommitSound DEF Tables, KeepsOver, Over

LEMMA RepairSound ==
  ASSUME Sound, NEW w \in Sessions, CommitRepair(w)
  PROVE  Sound' /\ KeepsOver
  <1> DEFINE r == req[w]
             count(c, late) == IF c \in late THEN CountIn(regs, c) ELSE r.counts[c]
             edited(c, late) == [r.loaded[c] EXCEPT !.count = count(c, late)]
             row(c, late) == Flush(classes[c], r.loaded[c], edited(c, late))
  <1>1. r.loaded \in [Classes -> ClassRow] /\ r.counts \in [Classes -> Nat]
    BY DEF CommitRepair, Sound, Requests, RequestOK
  <1>2. classes \in [Classes -> ClassRow] /\ regs \in [RegIds -> RegRow] /\ ClassKnown
    BY DEF Sound, TypeOK
  <1>3. PICK late \in SUBSET Classes :
          /\ classes' = [c \in Classes |-> IF r.loaded[c].status = "absent" THEN classes[c]
                                           ELSE row(c, late)]
          /\ Finish(w) /\ UNCHANGED <<regs, students, moved>>
    BY DEF CommitRepair
  <1>4. \A c \in Classes : count(c, late) \in Nat
    BY <1>1, CountIsNat
  <1> HIDE DEF count
  <1>5. \A c \in Classes : /\ edited(c, late) \in ClassRow
                           /\ edited(c, late).status = r.loaded[c].status
    BY <1>1, <1>4 DEF ClassRow
  <1> HIDE DEF edited
  <1>6. \A c \in Classes : row(c, late) \in ClassRow /\ row(c, late).status = classes[c].status
    <2>1. ASSUME NEW c \in Classes
          PROVE  row(c, late) \in ClassRow /\ row(c, late).status = classes[c].status
      <3>1. classes[c] \in ClassRow /\ r.loaded[c] \in ClassRow /\ edited(c, late) \in ClassRow
        BY <1>1, <1>2, <1>5
      <3> HIDE DEF r
      <3> QED BY <1>5, <3>1, FlushedClass
    <2> QED BY <2>1
  <1> HIDE DEF r, row
  <1>7. /\ classes' \in [Classes -> ClassRow]
        /\ \A d \in Classes : classes'[d].status = classes[d].status
    BY <1>2, <1>3, <1>6
  <1>8. ClassKnown'
    <2>1. \A n \in RegIds : regs[n].class \in Seats
      BY <1>2 DEF RegRow
    <2> QED BY <1>2, <1>3, <1>7, <2>1 DEF ClassKnown, Exists, Seats
  <1> QED BY <1>2, <1>3, <1>7, <1>8, CommitSound DEF Sound, TypeOK, Tables, KeepsOver

(* classes.add() and students.edit(): one step each.                       *)
LEMMA DirectSound ==
  ASSUME Sound, NEW w \in Sessions,
         \/ \E c \in Classes, cap \in Capacities : AddClass(w, c, cap)
         \/ \E s \in Students, status \in StudentStatuses : EditStudent(w, s, status)
  PROVE  Sound' /\ KeepsOver
  <1>1. /\ classes \in [Classes -> ClassRow] /\ regs \in [RegIds -> RegRow] /\ ClassKnown
        /\ students \in [Students -> StudentStatuses]
    BY DEF Sound, TypeOK
  <1>2. /\ served' = served + 1 /\ served < MaxRequests /\ UNCHANGED <<regs, moved, req>>
    BY DEF AddClass, EditStudent, Start
  <1>3. \A cap \in Capacities : NewClass(cap) \in ClassRow /\ NewClass(cap).status = "active"
    BY ConstantsOK DEF NewClass, ClassRow, ClassStatuses
  <1>4. /\ classes' \in [Classes -> ClassRow] /\ students' \in [Students -> StudentStatuses]
        /\ \A d \in Classes : Exists(d) => classes'[d].status # "absent"
    <2>1. ASSUME NEW c \in Classes, NEW cap \in Capacities, AddClass(w, c, cap)
          PROVE  /\ classes' \in [Classes -> ClassRow] /\ students' = students
                 /\ \A d \in Classes : Exists(d) => classes'[d].status # "absent"
      <3>1. classes' = [classes EXCEPT ![c] = NewClass(cap)] /\ students' = students
        BY <2>1 DEF AddClass
      <3> QED BY <1>1, <1>3, <3>1 DEF Exists
    <2>2. ASSUME NEW s \in Students, NEW status \in StudentStatuses, EditStudent(w, s, status)
          PROVE  classes' = classes /\ students' \in [Students -> StudentStatuses]
      BY <1>1, <2>2 DEF EditStudent
    <2> QED BY <1>1, <2>1, <2>2 DEF Exists
  <1>5. ClassKnown'
    <2>1. \A n \in RegIds : regs[n].class \in Seats
      BY <1>1 DEF RegRow
    <2> QED BY <1>1, <1>2, <1>4, <2>1 DEF ClassKnown, Exists, Seats
  <1>6. TypeOK' /\ Requests'
    <2>1. served' \in 0..MaxRequests
      BY <1>2, ConstantsOK DEF Sound, TypeOK
    <2> QED BY <1>1, <1>2, <1>4, <2>1 DEF Sound, TypeOK, Requests
  <1> QED BY <1>2, <1>5, <1>6 DEF Sound, KeepsOver

(* What a request loads, it loads from the tables.                         *)
LEMMA BeginsRequest ==
  ASSUME Sound, NEW w \in Sessions,
         \/ \E s \in Students, c \in Seats : BeginAdd(w, s, c)
         \/ \E n \in RegIds : BeginCancel(w, n)
         \/ \E n \in RegIds, t \in Classes : BeginTransfer(w, n, t)
         \/ \E c \in Classes, cap \in Capacities, status \in ClassStatuses :
              BeginEdit(w, c, cap, status)
         \/ \E c \in Classes : BeginClose(w, c) \/ BeginDelete(w, c)
         \/ \E c, t \in Classes : BeginMerge(w, c, t)
         \/ \E c \in Classes, names \in SUBSET Students : BeginSplit(w, c, names)
         \/ \E s \in Students : BeginWithdraw(w, s)
         \/ BeginRepair(w)
  PROVE  \E r : Begin(w, r) /\ RequestOK(r) /\ Fresh(r, regs, classes)
  <1>1. classes \in [Classes -> ClassRow] /\ regs \in [RegIds -> RegRow]
    BY DEF Sound, TypeOK
  <1>2. ASSUME NEW s \in Students, NEW c \in Seats, BeginAdd(w, s, c)
        PROVE  \E r : Begin(w, r) /\ RequestOK(r) /\ Fresh(r, regs, classes)
    <2> DEFINE row == IF c = NoClass THEN NoRow ELSE classes[c]
               r == [op |-> "add", student |-> s, to |-> c, toRow |-> row]
    <2>1. row \in ClassRow /\ (c # NoClass => row = classes[c] /\ ~IsFull(row))
      BY <1>1, <1>2 DEF BeginAdd, Seats, NoRow, ClassRow
    <2>2. Begin(w, r)
      BY <1>2 DEF BeginAdd
    <2>3. RequestOK(r) /\ Fresh(r, regs, classes)
      <3> HIDE DEF row
      <3> QED BY <2>1 DEF RequestOK, Fresh
    <2> QED BY <2>2, <2>3
  <1>3. ASSUME NEW n \in RegIds, BeginCancel(w, n)
        PROVE  \E r : Begin(w, r) /\ RequestOK(r) /\ Fresh(r, regs, classes)
    <2> DEFINE r == [op |-> "cancel", n |-> n, regRow |-> regs[n]]
    <2>1. Begin(w, r) /\ RequestOK(r) /\ Fresh(r, regs, classes)
      BY <1>1, <1>3 DEF BeginCancel, RequestOK, Fresh
    <2> QED BY <2>1
  <1>4. ASSUME NEW n \in RegIds, NEW t \in Classes, BeginTransfer(w, n, t)
        PROVE  \E r : Begin(w, r) /\ RequestOK(r) /\ Fresh(r, regs, classes)
    <2> DEFINE c == regs[n].class
               r == [op |-> "transfer", n |-> n, regRow |-> regs[n], from |-> c,
                     fromRow |-> classes[c], to |-> t, toRow |-> classes[t]]
    <2>1. /\ Begin(w, r) /\ c # NoClass /\ t # c
          /\ regs[n].status = "active" /\ ~IsFull(classes[t])
      BY <1>4 DEF BeginTransfer
    <2>2. c \in Classes
      BY <1>1, <2>1 DEF RegRow, Seats
    <2>3. RequestOK(r) /\ Fresh(r, regs, classes)
      BY <1>1, <2>1, <2>2 DEF RequestOK, Fresh
    <2> QED BY <2>1, <2>3
  <1>5. ASSUME NEW c \in Classes, NEW cap \in Capacities, NEW status \in ClassStatuses,
               BeginEdit(w, c, cap, status)
        PROVE  \E r : Begin(w, r) /\ RequestOK(r) /\ Fresh(r, regs, classes)
    <2> DEFINE r == [op |-> "edit", from |-> c, fromRow |-> classes[c], cap |-> cap,
                     status |-> status]
    <2>1. Begin(w, r) /\ RequestOK(r) /\ Fresh(r, regs, classes)
      BY <1>1, <1>5, ConstantsOK DEF BeginEdit, RequestOK, Fresh
    <2> QED BY <2>1
  <1>6. ASSUME NEW c \in Classes, BeginClose(w, c) \/ BeginDelete(w, c)
        PROVE  \E r : Begin(w, r) /\ RequestOK(r) /\ Fresh(r, regs, classes)
    <2> DEFINE close == [op |-> "close", from |-> c, fromRow |-> classes[c]]
               delete == [op |-> "delete", from |-> c]
    <2>1. Begin(w, close) \/ Begin(w, delete)
      BY <1>6 DEF BeginClose, BeginDelete
    <2>2. /\ RequestOK(close) /\ Fresh(close, regs, classes)
          /\ RequestOK(delete) /\ Fresh(delete, regs, classes)
      BY <1>1 DEF RequestOK, Fresh
    <2> QED BY <2>1, <2>2
  <1>7. ASSUME NEW c \in Classes, NEW t \in Classes, BeginMerge(w, c, t)
        PROVE  \E r : Begin(w, r) /\ RequestOK(r) /\ Fresh(r, regs, classes)
    <2> DEFINE r == [op |-> "merge", from |-> c, fromRow |-> classes[c], to |-> t,
                     toRow |-> classes[t], rows |-> ActiveIn(regs, c)]
    <2>1. Begin(w, r)
      BY <1>7 DEF BeginMerge
    <2>2. ActiveIn(regs, c) \in SUBSET RegIds
      BY CountIsNat
    <2>3. RequestOK(r) /\ Fresh(r, regs, classes)
      BY <1>1, <2>1, <2>2 DEF RequestOK, Fresh
    <2> QED BY <2>1, <2>3
  <1>8. ASSUME NEW c \in Classes, NEW names \in SUBSET Students, BeginSplit(w, c, names)
        PROVE  \E r : Begin(w, r) /\ RequestOK(r) /\ Fresh(r, regs, classes)
    <2> DEFINE r == [op |-> "split", from |-> c, fromRow |-> classes[c], names |-> names]
    <2>1. Begin(w, r) /\ RequestOK(r) /\ Fresh(r, regs, classes)
      BY <1>1, <1>8 DEF BeginSplit, RequestOK, Fresh
    <2> QED BY <2>1
  <1>9. ASSUME NEW s \in Students, BeginWithdraw(w, s)
        PROVE  \E r : Begin(w, r) /\ RequestOK(r) /\ Fresh(r, regs, classes)
    <2> DEFINE r == [op |-> "withdraw", student |-> s]
    <2>1. Begin(w, r) /\ RequestOK(r) /\ Fresh(r, regs, classes)
      BY <1>9 DEF BeginWithdraw, RequestOK, Fresh
    <2> QED BY <2>1
  <1>10. ASSUME BeginRepair(w)
         PROVE  \E r : Begin(w, r) /\ RequestOK(r) /\ Fresh(r, regs, classes)
    <2> DEFINE counts == [c \in Classes |-> CountIn(regs, c)]
               r == [op |-> "repair", loaded |-> classes, counts |-> counts]
    <2>1. Begin(w, r)
      BY <1>10 DEF BeginRepair
    <2>2. counts \in [Classes -> Nat] /\ \A c \in Classes : counts[c] = CountIn(regs, c)
      BY CountIsNat
    <2>3. RequestOK(r) /\ Fresh(r, regs, classes)
      <3> HIDE DEF counts
      <3> QED BY <1>1, <2>2 DEF RequestOK, Fresh
    <2> QED BY <2>1, <2>3
  <1> QED BY <1>2, <1>3, <1>4, <1>5, <1>6, <1>7, <1>8, <1>9, <1>10

LEMMA AbortSound ==
  ASSUME Sound, NEW w \in Sessions, Abort(w)
  PROVE  Sound' /\ KeepsOver
  <1>1. UNCHANGED <<regs, classes, students, moved>> /\ Finish(w)
    BY DEF Abort
  <1>2. ClassKnown' /\ KeepsOver /\ Tables(regs', classes')
    BY <1>1 DEF Sound, TypeOK, ClassKnown, Exists, KeepsOver, Tables
  <1> QED BY <1>1, <1>2, CommitSound DEF Sound, TypeOK

LEMMA StepSound ==
  ASSUME Sound, [Next]_vars
  PROVE  Sound' /\ KeepsOver
  <1>1. CASE UNCHANGED vars
    BY <1>1 DEF vars, Sound, TypeOK, Requests, ClassKnown, Exists, KeepsOver
  <1>2. CASE Quiet
    BY <1>1, <1>2 DEF Quiet
  <1>3. ASSUME NEW w \in Sessions,
               \/ CommitAdd(w) \/ CommitCancel(w) \/ CommitTransfer(w) \/ CommitEdit(w)
               \/ CommitClose(w) \/ CommitDelete(w) \/ CommitMerge(w) \/ CommitSplit(w)
               \/ CommitWithdraw(w) \/ CommitRepair(w) \/ Abort(w)
        PROVE  Sound' /\ KeepsOver
    BY <1>3, AddSound, CancelSound, TransferSound, EditSound, CloseSound, DeleteSound,
       MergeSound, SplitSound, WithdrawSound, RepairSound, AbortSound
  <1>4. ASSUME NEW w \in Sessions, NEW s \in Students, NEW c \in Seats, MultiRegister(w, s, c)
        PROVE  Sound' /\ KeepsOver
    BY <1>4, MultiRegisterSound
  <1> QED BY <1>1, <1>2, <1>3, <1>4, BeginsRequest, BeginSound, DirectSound DEF Next

LEMMA InitSound == Init => Sound
  <1> SUFFICES ASSUME Init
               PROVE  Sound
    OBVIOUS
  <1>1. NoReg \in RegRow /\ NoRow \in ClassRow /\ NoReg.class = NoClass
    BY DEF NoReg, RegRow, NoRow, ClassRow, Seats
  <1>2. \A cap \in Capacities : NewClass(cap) \in ClassRow
    BY ConstantsOK DEF NewClass, ClassRow, ClassStatuses
  <1>3. regs \in [RegIds -> RegRow] /\ classes \in [Classes -> ClassRow]
    BY <1>1, <1>2 DEF Init
  <1>4. TypeOK
    BY <1>3, ConstantsOK DEF Init, TypeOK, StudentStatuses
  <1>5. Requests
    BY DEF Init, Requests, RequestOK, Idle
  <1>6. ClassKnown
    BY <1>1 DEF Init, ClassKnown
  <1> QED BY <1>4, <1>5, <1>6 DEF Sound

-----------------------------------------------------------------------------
(* One request at a time.                                                  *)

Exclusive == \A v, w \in Sessions : req[v] # Idle /\ req[w] # Idle => v = w

Counted(rs, cs) == \A c \in Classes : cs[c].status # "absent" => cs[c].count = CountIn(rs, c)

Lone ==
  /\ Exclusive
  /\ \A w \in Sessions : Fresh(req[w], regs, classes)
  /\ Counted(regs, classes)

LEMMA CountKept ==
  ASSUME NEW c,
         \A n \in RegIds : (regs'[n].status = "active" /\ regs'[n].class = c)
                             <=> (regs[n].status = "active" /\ regs[n].class = c)
  PROVE  CountIn(regs', c) = CountIn(regs, c)
  BY DEF CountIn, ActiveIn

(* Registration n comes to class c.                                        *)
LEMMA CountGrows ==
  ASSUME NEW c, NEW n \in RegIds,
         regs[n].status # "active" \/ regs[n].class # c,
         regs'[n].status = "active" /\ regs'[n].class = c,
         \A m \in RegIds \ {n} : regs'[m] = regs[m]
  PROVE  CountIn(regs', c) = CountIn(regs, c) + 1
  <1>1. n \notin ActiveIn(regs, c) /\ ActiveIn(regs', c) = ActiveIn(regs, c) \cup {n}
    BY DEF ActiveIn
  <1> QED BY <1>1, CountIsNat, FS_AddElement, ZenonT(60) DEF CountIn

LEMMA CardinalityOfParts ==
  ASSUME NEW S, NEW T, IsFiniteSet(S), IsFiniteSet(T)
  PROVE  /\ S \cap T = {} => Cardinality(S \cup T) = Cardinality(S) + Cardinality(T)
         /\ T \subseteq S =>
              Cardinality(S \ T) = Cardinality(S) - Cardinality(T)
              /\ Cardinality(T) <= Cardinality(S)
  <1>1. Cardinality(S) \in Nat /\ Cardinality(T) \in Nat
    BY FS_CardinalityType
  <1>2. ASSUME S \cap T = {}
        PROVE  Cardinality(S \cup T) = Cardinality(S) + Cardinality(T)
    <2>1. Cardinality(S \cup T) = Cardinality(S) + Cardinality(T) - Cardinality(S \cap T)
      BY FS_Union
    <2>2. Cardinality(S \cap T) = 0
      BY <1>2, FS_EmptySet
    <2> QED BY <1>1, <2>1, <2>2
  <1>3. ASSUME T \subseteq S
        PROVE  Cardinality(S \ T) = Cardinality(S) - Cardinality(T)
               /\ Cardinality(T) <= Cardinality(S)
    <2>1. S \cap T = T
      BY <1>3
    <2>2. Cardinality(S \ T) = Cardinality(S) - Cardinality(S \cap T)
      BY FS_Difference
    <2> QED BY <1>3, <2>1, <2>2, FS_Subset
  <1> QED BY <1>2, <1>3

LEMMA AddCounts ==
  ASSUME Sound, Lone, NEW w \in Sessions, CommitAdd(w)
  PROVE  /\ Counted(regs', classes')
         /\ req[w].to # NoClass => CountIn(regs', req[w].to) <= classes[req[w].to].cap
  <1> DEFINE r == req[w]
             row == Recount(r.to, r.toRow)
  <1>1. /\ r.student \in Students /\ r.to \in Seats /\ r.toRow \in ClassRow
        /\ r.to # NoClass => r.toRow = classes[r.to] /\ ~IsFull(r.toRow)
    BY DEF CommitAdd, Sound, Requests, RequestOK, Lone, Fresh
  <1>2. /\ r.to # NoClass => Exists(r.to)
        /\ Insert(r.student, r.to)
        /\ classes' = IF r.to = NoClass THEN classes ELSE [classes EXCEPT ![r.to] = row]
    BY DEF CommitAdd
  <1>3. classes \in [Classes -> ClassRow] /\ Counted(regs, classes)
    BY DEF Sound, TypeOK, Lone
  <1>4. r.to # NoClass => row.count = CountIn(regs', r.to)
    <2>1. r.to # NoClass => row = [r.toRow EXCEPT !.count = CountIn(regs', r.to)]
      BY <1>1, <1>3, RecountedClass DEF Seats
    <2> QED BY <1>1, <2>1 DEF ClassRow
  <1> HIDE DEF r, row
  <1>5. PICK n \in RegIds : /\ regs[n].status = "absent" /\ regs'[n].status = "active"
                            /\ regs'[n].class = r.to
                            /\ \A m \in RegIds \ {n} : regs'[m] = regs[m]
    BY <1>1, <1>2, InsertRow
  <1>6. \A c \in Classes : c # r.to => /\ CountIn(regs', c) = CountIn(regs, c)
                                       /\ classes'[c] = classes[c]
    <2>1. ASSUME NEW c \in Classes, c # r.to
          PROVE  CountIn(regs', c) = CountIn(regs, c)
      BY <1>5, <2>1, CountKept
    <2> QED BY <1>2, <1>3, <2>1
  <1>7. r.to # NoClass => classes'[r.to].count = CountIn(regs', r.to)
    BY <1>1, <1>2, <1>3, <1>4 DEF Seats
  <1>8. r.to # NoClass => CountIn(regs', r.to) <= classes[r.to].cap
    <2>1. CountIn(regs', r.to) = CountIn(regs, r.to) + 1
      BY <1>5, CountGrows
    <2>2. r.to # NoClass => /\ classes[r.to].count = CountIn(regs, r.to)
                            /\ ~(classes[r.to].count >= classes[r.to].cap)
                            /\ classes[r.to].cap \in Nat /\ classes[r.to].count \in Nat
      BY <1>1, <1>2, <1>3 DEF Counted, Exists, IsFull, Seats, ClassRow
    <2> QED BY <2>1, <2>2
  <1>9. Counted(regs', classes')
    BY <1>3, <1>6, <1>7, ConstantsOK DEF Counted
  <1> QED BY <1>8, <1>9 DEF r

LEMMA MultiRegisterCounts ==
  ASSUME Sound, Lone, NEW w \in Sessions, NEW s \in Students, NEW c \in Seats,
         MultiRegister(w, s, c)
  PROVE  Counted(regs', classes')
  <1>1. /\ c # NoClass => Exists(c)
        /\ Insert(s, c)
        /\ classes' = IF c = NoClass THEN classes ELSE [classes EXCEPT ![c].count = @ + 1]
    BY DEF MultiRegister
  <1>2. classes \in [Classes -> ClassRow] /\ Counted(regs, classes)
    BY DEF Sound, TypeOK, Lone
  <1>3. PICK n \in RegIds : /\ regs[n].status = "absent" /\ regs'[n].status = "active"
                            /\ regs'[n].class = c
                            /\ \A m \in RegIds \ {n} : regs'[m] = regs[m]
    BY <1>1, InsertRow
  <1>4. \A d \in Classes : d # c => /\ CountIn(regs', d) = CountIn(regs, d)
                                    /\ classes'[d] = classes[d]
    <2>1. ASSUME NEW d \in Classes, d # c
          PROVE  CountIn(regs', d) = CountIn(regs, d)
      BY <1>3, <2>1, CountKept
    <2> QED BY <1>1, <1>2, <2>1
  <1>5. c # NoClass => classes'[c].count = CountIn(regs', c)
    <2>1. CountIn(regs', c) = CountIn(regs, c) + 1
      BY <1>3, CountGrows
    <2>2. c # NoClass => classes[c].count = CountIn(regs, c)
      BY <1>1, <1>2 DEF Counted, Exists, Seats
    <2>3. c # NoClass => classes'[c].count = classes[c].count + 1
      BY <1>1, <1>2 DEF Seats, ClassRow
    <2> QED BY <2>1, <2>2, <2>3
  <1> QED BY <1>2, <1>4, <1>5, ConstantsOK DEF Counted

LEMMA CancelCounts ==
  ASSUME Sound, Lone, NEW w \in Sessions, CommitCancel(w)
  PROVE  Counted(regs', classes')
  <1> DEFINE r == req[w]
             c == r.regRow.class
             row == Recount(c, classes[c])
             reg == [regs[r.n] EXCEPT !.status = "withdrawn"]
  <1>1. r.n \in RegIds /\ r.regRow = regs[r.n]
    BY DEF CommitCancel, Sound, Requests, RequestOK, Lone, Fresh
  <1>2. /\ regs' = [regs EXCEPT ![r.n] = reg]
        /\ classes' = IF c # NoClass /\ Exists(c) THEN [classes EXCEPT ![c] = row] ELSE classes
    BY DEF CommitCancel
  <1>3. /\ classes \in [Classes -> ClassRow] /\ regs \in [RegIds -> RegRow] /\ ClassKnown
        /\ Counted(regs, classes)
    BY DEF Sound, TypeOK, Lone
  <1>4. c \in Seats /\ (c # NoClass => Exists(c))
    BY <1>1, <1>3 DEF RegRow, ClassKnown
  <1>5. c # NoClass => row.count = CountIn(regs', c)
    <2>1. c # NoClass => row = [classes[c] EXCEPT !.count = CountIn(regs', c)]
      BY <1>3, <1>4, RecountedClass DEF Seats
    <2> QED BY <1>3, <1>4, <2>1 DEF ClassRow, Seats
  <1>6. reg.status = "withdrawn"
    BY <1>1, <1>3 DEF RegRow
  <1>7. regs[r.n].class = c
    BY <1>1
  <1> HIDE DEF r, c, row, reg
  <1>8. \A d \in Classes : d # c => /\ CountIn(regs', d) = CountIn(regs, d)
                                    /\ classes'[d] = classes[d]
    <2>1. ASSUME NEW d \in Classes, d # c
          PROVE  CountIn(regs', d) = CountIn(regs, d)
      BY <1>1, <1>2, <1>3, <1>6, <1>7, <2>1, CountKept
    <2> QED BY <1>2, <1>3, <2>1
  <1>9. c # NoClass => classes'[c].count = CountIn(regs', c)
    BY <1>2, <1>3, <1>4, <1>5 DEF Seats
  <1> QED BY <1>3, <1>8, <1>9, ConstantsOK DEF Counted

LEMMA TransferCounts ==
  ASSUME Sound, Lone, NEW w \in Sessions, CommitTransfer(w)
  PROVE  Counted(regs', classes') /\ CountIn(regs', req[w].to) <= classes[req[w].to].cap
  <1> DEFINE r == req[w]
             reg == Flush(regs[r.n], r.regRow, [r.regRow EXCEPT !.class = r.to])
             fromRow == Recount(r.from, r.fromRow)
             toRow == Recount(r.to, r.toRow)
  <1>1. /\ r.n \in RegIds /\ r.regRow \in RegRow /\ r.from \in Classes /\ r.to \in Classes
        /\ r.regRow = regs[r.n] /\ r.regRow.status = "active" /\ r.regRow.class = r.from
        /\ r.to # r.from /\ r.fromRow = classes[r.from]
        /\ r.toRow = classes[r.to] /\ ~IsFull(r.toRow)
    BY DEF CommitTransfer, Sound, Requests, RequestOK, Lone, Fresh
  <1>2. /\ classes \in [Classes -> ClassRow] /\ regs \in [RegIds -> RegRow]
        /\ Counted(regs, classes)
    BY DEF Sound, TypeOK, Lone
  <1>3. reg.status = "active" /\ reg.class = r.to
    <2>1. reg = [regs[r.n] EXCEPT !.class = r.to]
      BY <1>1, FlushedReg DEF Seats
    <2> QED BY <1>1, <2>1 DEF RegRow
  <1>4. fromRow.count = CountIn(regs', r.from)
    <2>1. fromRow = [r.fromRow EXCEPT !.count = CountIn(regs', r.from)]
      BY <1>1, <1>2, RecountedClass
    <2> QED BY <1>1, <1>2, <2>1 DEF ClassRow
  <1>5. toRow.count = CountIn(regs', r.to)
    <2>1. toRow = [r.toRow EXCEPT !.count = CountIn(regs', r.to)]
      BY <1>1, <1>2, RecountedClass
    <2> QED BY <1>1, <1>2, <2>1 DEF ClassRow
  <1>6. /\ regs' = [regs EXCEPT ![r.n] = reg]
        /\ classes' = [classes EXCEPT ![r.from] = fromRow, ![r.to] = toRow]
        /\ Exists(r.to)
    BY DEF CommitTransfer
  <1> HIDE DEF r, reg, fromRow, toRow
  <1>7. ASSUME NEW d \in Classes, d # r.from, d # r.to
        PROVE  CountIn(regs', d) = CountIn(regs, d) /\ classes'[d] = classes[d]
    BY <1>1, <1>2, <1>3, <1>6, <1>7, CountKept
  <1>8. /\ classes'[r.from].count = CountIn(regs', r.from)
        /\ classes'[r.to].count = CountIn(regs', r.to)
    BY <1>1, <1>2, <1>4, <1>5, <1>6
  <1>9. CountIn(regs', r.to) <= classes[r.to].cap
    <2>1. CountIn(regs', r.to) = CountIn(regs, r.to) + 1
      BY <1>1, <1>2, <1>3, <1>6, CountGrows
    <2>2. /\ classes[r.to].count = CountIn(regs, r.to)
          /\ ~(classes[r.to].count >= classes[r.to].cap)
          /\ classes[r.to].cap \in Nat /\ classes[r.to].count \in Nat
      BY <1>1, <1>2, <1>6 DEF Counted, Exists, IsFull, ClassRow
    <2> QED BY <2>1, <2>2
  <1>10. Counted(regs', classes')
    BY <1>2, <1>7, <1>8 DEF Counted
  <1> QED BY <1>9, <1>10 DEF r

LEMMA EditCounts ==
  ASSUME Sound, Lone, NEW w \in Sessions, CommitEdit(w)
  PROVE  Counted(regs', classes')
  <1> DEFINE r == req[w]
             edited == [r.fromRow EXCEPT !.cap = r.cap, !.status = r.status]
             row == Flush(classes[r.from], r.fromRow, edited)
  <1>1. /\ r.from \in Classes /\ r.fromRow = classes[r.from]
        /\ r.cap \in Nat /\ r.status \in ClassStatuses
    BY DEF CommitEdit, Sound, Requests, RequestOK, Lone, Fresh
  <1>2. /\ classes \in [Classes -> ClassRow] /\ Counted(regs, classes)
        /\ r.fromRow \in ClassRow
    BY <1>1 DEF Sound, TypeOK, Lone
  <1>3. edited \in ClassRow /\ edited.count = r.fromRow.count
    BY <1>1, <1>2 DEF ClassRow, ClassStatuses
  <1>4. /\ classes' = [classes EXCEPT ![r.from] = row] /\ Exists(r.from)
        /\ UNCHANGED regs
    BY DEF CommitEdit
  <1> HIDE DEF edited
  <1>5. row.count = classes[r.from].count
    BY <1>1, <1>2, <1>3, FlushedClass
  <1> HIDE DEF r, row
  <1> QED BY <1>1, <1>2, <1>4, <1>5 DEF Counted, Exists

LEMMA CloseCounts ==
  ASSUME Sound, Lone, NEW w \in Sessions, CommitClose(w)
  PROVE  Counted(regs', classes')
  <1> DEFINE r == req[w]
             edited == [r.fromRow EXCEPT !.status = "completed", !.count = 0]
             row == Flush(classes[r.from], r.fromRow, edited)
             ended(n) == [regs[n] EXCEPT !.status = "completed"]
  <1>1. r.from \in Classes /\ r.fromRow = classes[r.from]
    BY DEF CommitClose, Sound, Requests, RequestOK, Lone, Fresh
  <1>2. /\ classes \in [Classes -> ClassRow] /\ regs \in [RegIds -> RegRow]
        /\ Counted(regs, classes) /\ r.fromRow \in ClassRow
    BY <1>1 DEF Sound, TypeOK, Lone
  <1>3. edited \in ClassRow /\ edited.count = 0
    BY <1>2 DEF ClassRow, ClassStatuses
  <1>4. \A n \in RegIds : ended(n).status = "completed"
    BY <1>2 DEF RegRow
  <1>5. /\ classes' = [classes EXCEPT ![r.from] = row]
        /\ regs' = [n \in RegIds |-> IF n \in ActiveIn(regs, r.from) THEN ended(n) ELSE regs[n]]
    BY DEF CommitClose
  <1> HIDE DEF edited, ended
  <1>6. row.count = 0
    BY <1>1, <1>2, <1>3, FlushedClass
  <1> HIDE DEF r, row
  <1>7. ActiveIn(regs', r.from) = {}
    <2>1. ASSUME NEW n \in RegIds
          PROVE  ~(regs'[n].status = "active" /\ regs'[n].class = r.from)
      BY <1>4, <1>5 DEF ActiveIn
    <2> QED BY <2>1 DEF ActiveIn
  <1>8. classes'[r.from].count = CountIn(regs', r.from)
    BY <1>1, <1>2, <1>5, <1>6, <1>7, FS_EmptySet DEF CountIn
  <1>9. ASSUME NEW d \in Classes, d # r.from
        PROVE  CountIn(regs', d) = CountIn(regs, d) /\ classes'[d] = classes[d]
    <2>1. CountIn(regs', d) = CountIn(regs, d)
      <3>1. \A n \in RegIds : \/ regs'[n] = regs[n]
                              \/ regs'[n].status # "active" /\ regs[n].class = r.from
        BY <1>4, <1>5 DEF ActiveIn
      <3> QED BY <1>9, <3>1, CountKept
    <2> QED BY <1>2, <1>5, <1>9, <2>1
  <1> QED BY <1>2, <1>8, <1>9 DEF Counted

LEMMA DeleteCounts ==
  ASSUME Sound, Lone, NEW w \in Sessions, CommitDelete(w)
  PROVE  Counted(regs', classes')
  <1> DEFINE r == req[w]
             left(n) == [regs[n] EXCEPT !.class = NoClass]
  <1>1. r.from \in Classes
    BY DEF CommitDelete, Sound, Requests, RequestOK
  <1>2. /\ classes \in [Classes -> ClassRow] /\ regs \in [RegIds -> RegRow]
        /\ Counted(regs, classes)
    BY DEF Sound, TypeOK, Lone
  <1>3. \A n \in RegIds : left(n).class = NoClass
    BY <1>2 DEF RegRow
  <1>4. /\ classes' = [classes EXCEPT ![r.from] = NoRow]
        /\ regs' = [n \in RegIds |-> IF regs[n].class = r.from THEN left(n) ELSE regs[n]]
    BY DEF CommitDelete
  <1> HIDE DEF r, left
  <1>5. classes'[r.from].status = "absent"
    BY <1>1, <1>2, <1>4 DEF NoRow
  <1>6. ASSUME NEW d \in Classes, d # r.from
        PROVE  CountIn(regs', d) = CountIn(regs, d) /\ classes'[d] = classes[d]
    <2>1. CountIn(regs', d) = CountIn(regs, d)
      <3>1. \A n \in RegIds : \/ regs'[n] = regs[n]
                              \/ regs'[n].class = NoClass /\ regs[n].class = r.from
        BY <1>3, <1>4
      <3> QED BY <1>6, <3>1, CountKept, ConstantsOK
    <2> QED BY <1>2, <1>4, <1>6, <2>1
  <1> QED BY <1>2, <1>5, <1>6 DEF Counted

LEMMA MergeIntoOther ==
  ASSUME Sound, Lone, NEW w \in Sessions, CommitMerge(w), req[w].to # req[w].from
  PROVE  Counted(regs', classes')
  <1> DEFINE r == req[w]
             more == r.toRow.count + Cardinality(r.rows)
             ended == [r.fromRow EXCEPT !.status = "completed", !.count = 0]
             joined == [r.toRow EXCEPT !.count = more]
             fromRow == Flush(classes[r.from], r.fromRow, ended)
             toRow == Flush(classes[r.to], r.toRow, joined)
             going(n) == [regs[n] EXCEPT !.class = r.to]
  <1>1. /\ r.from \in Classes /\ r.fromRow = classes[r.from]
        /\ r.to \in Classes /\ r.toRow = classes[r.to] /\ r.to # r.from
        /\ r.rows = ActiveIn(regs, r.from)
    BY DEF CommitMerge, Sound, Requests, RequestOK, Lone, Fresh
  <1>2. /\ classes \in [Classes -> ClassRow] /\ regs \in [RegIds -> RegRow]
        /\ Counted(regs, classes)
        /\ r.fromRow \in ClassRow /\ r.toRow \in ClassRow
    BY <1>1 DEF Sound, TypeOK, Lone
  <1>3. Cardinality(r.rows) = CountIn(regs, r.from) /\ more \in Nat
    BY <1>1, <1>2, CountIsNat DEF CountIn, ClassRow
  <1>4. more = r.toRow.count + CountIn(regs, r.from)
    BY <1>3
  <1> HIDE DEF more
  <1>5. /\ ended \in ClassRow /\ ended.count = 0
        /\ joined \in ClassRow /\ joined.count = more
        /\ joined.status = r.toRow.status
    BY <1>2, <1>3 DEF ClassRow, ClassStatuses
  <1>6. \A n \in RegIds : going(n).status = regs[n].status /\ going(n).class = r.to
    BY <1>2 DEF RegRow
  <1>7. /\ regs' = [n \in RegIds |-> IF n \in r.rows THEN going(n) ELSE regs[n]]
        /\ classes' = [classes EXCEPT ![r.to] = toRow, ![r.from] = fromRow]
    <2>1. classes' = [classes EXCEPT ![r.to] = Flush(@, r.toRow, joined), ![r.from] = fromRow]
      BY DEF CommitMerge, more
    <2>2. regs' = [n \in RegIds |-> IF n \in r.rows THEN going(n) ELSE regs[n]]
      BY DEF CommitMerge
    <2> HIDE DEF fromRow, joined
    <2> QED BY <1>1, <1>2, <2>1, <2>2
  <1> HIDE DEF ended, joined, going
  <1>8. fromRow.count = 0
    BY <1>1, <1>2, <1>5, FlushedClass
  <1>9. toRow.count = more /\ toRow.status = classes[r.to].status
    BY <1>1, <1>2, <1>5, FlushedClass
  <1> HIDE DEF r, fromRow, toRow
  <1>10. \A n \in RegIds :
           \/ n \notin ActiveIn(regs, r.from) /\ regs'[n] = regs[n]
           \/ n \in ActiveIn(regs, r.from) /\ regs'[n].status = "active" /\ regs'[n].class = r.to
    BY <1>1, <1>6, <1>7 DEF ActiveIn
  <1>11. /\ ActiveIn(regs', r.from) = {}
         /\ ActiveIn(regs', r.to) = ActiveIn(regs, r.to) \cup ActiveIn(regs, r.from)
         /\ ActiveIn(regs, r.to) \cap ActiveIn(regs, r.from) = {}
    BY <1>1, <1>10 DEF ActiveIn
  <1>12. CountIn(regs', r.to) = CountIn(regs, r.to) + CountIn(regs, r.from)
    <2>1. IsFiniteSet(ActiveIn(regs, r.to)) /\ IsFiniteSet(ActiveIn(regs, r.from))
      BY CountIsNat
    <2> QED BY <1>11, <2>1, CardinalityOfParts DEF CountIn
  <1>13. CountIn(regs', r.from) = 0
    BY <1>11, FS_EmptySet DEF CountIn
  <1>14. classes'[r.from] = fromRow /\ classes'[r.to] = toRow
    BY <1>1, <1>2, <1>7
  <1>15. classes'[r.to].status # "absent" => classes'[r.to].count = CountIn(regs', r.to)
    BY <1>1, <1>2, <1>4, <1>9, <1>12, <1>14 DEF Counted
  <1>16. ASSUME NEW d \in Classes, d # r.from, d # r.to
         PROVE  CountIn(regs', d) = CountIn(regs, d) /\ classes'[d] = classes[d]
    <2>1. CountIn(regs', d) = CountIn(regs, d)
      BY <1>10, <1>16, CountKept DEF ActiveIn
    <2> QED BY <1>2, <1>7, <1>16, <2>1
  <1> QED BY <1>2, <1>8, <1>13, <1>14, <1>15, <1>16 DEF Counted

(* Merged into itself, a class without registrations is only closed.       *)
LEMMA MergeCounts ==
  ASSUME Sound, Lone, NEW w \in Sessions, CommitMerge(w), ~Folding
  PROVE  Counted(regs', classes')
  <1> DEFINE r == req[w]
             ended == [r.fromRow EXCEPT !.status = "completed", !.count = 0]
             row == Flush(classes[r.from], r.fromRow, ended)
  <1>1. CASE r.to # r.from
    BY <1>1, MergeIntoOther
  <1>2. CASE r.to = r.from
    <2>1. /\ r.from \in Classes /\ r.fromRow = classes[r.from] /\ r.rows = ActiveIn(regs, r.from)
          /\ r.op = "merge" /\ Exists(r.from)
      BY DEF CommitMerge, Sound, Requests, RequestOK, Lone, Fresh
    <2>2. classes \in [Classes -> ClassRow] /\ Counted(regs, classes) /\ r.fromRow \in ClassRow
      BY <2>1 DEF Sound, TypeOK, Lone
    <2>3. ended \in ClassRow /\ ended.count = 0
      BY <2>2 DEF ClassRow, ClassStatuses
    <2>4. req'[w] = Idle
      BY FinishRequest DEF CommitMerge, Sound, TypeOK
    <2>5. regs' = [n \in RegIds |-> regs[n]] /\ classes' = [classes EXCEPT ![r.from] = row]
      <3>1. regs' = [n \in RegIds |-> regs[n]]
        BY <1>2 DEF CommitMerge
      <3>2. classes' = [classes EXCEPT
              ![r.to] = Flush(@, r.toRow, [r.toRow EXCEPT !.count = @ + Cardinality(r.rows)]),
              ![r.from] = row]
        BY DEF CommitMerge
      <3> HIDE DEF row
      <3> QED BY <1>2, <2>1, <2>2, <3>1, <3>2
    <2> HIDE DEF ended
    <2>6. row.count = 0
      BY <2>1, <2>2, <2>3, FlushedClass
    <2> HIDE DEF row
    <2>7. regs' = regs
      BY <2>5 DEF Sound, TypeOK
    <2>8. CASE r.rows = {}
      <3>1. CountIn(regs', r.from) = 0
        BY <2>1, <2>7, <2>8, FS_EmptySet DEF CountIn
      <3> QED BY <2>1, <2>2, <2>5, <2>6, <2>7, <3>1 DEF Counted
    <2>9. CASE r.rows # {}
      <3>1. classes' = classes
        BY <1>2, <2>1, <2>4, <2>9 DEF Folding
      <3> QED BY <2>2, <2>7, <3>1
    <2> QED BY <2>8, <2>9
  <1> QED BY <1>1, <1>2

LEMMA SplitCounts ==
  ASSUME Sound, Lone, NEW w \in Sessions, CommitSplit(w)
  PROVE  Counted(regs', classes')
  <1> DEFINE r == req[w]
             going == Going(r.from, r.names)
             k == Cardinality(going)
             fewer == IF r.fromRow.count < k THEN 0 ELSE r.fromRow.count - k
             edited == [r.fromRow EXCEPT !.count = fewer]
             fromRow == Flush(classes[r.from], r.fromRow, edited)
             newRow == [NewClass(r.fromRow.cap) EXCEPT !.count = k]
             put(n, c) == [regs[n] EXCEPT !.class = c]
  <1>1. r.from \in Classes /\ r.fromRow = classes[r.from]
    BY DEF CommitSplit, Sound, Requests, RequestOK, Lone, Fresh
  <1>2. /\ classes \in [Classes -> ClassRow] /\ regs \in [RegIds -> RegRow]
        /\ Counted(regs, classes) /\ ClassKnown /\ r.fromRow \in ClassRow
    BY <1>1 DEF Sound, TypeOK, Lone
  <1>3. going \subseteq ActiveIn(regs, r.from) /\ k \in Nat
    BY GoingFromHere
  <1>4. PICK new \in Classes :
          /\ ~Exists(new) /\ new # r.from
          /\ regs' = [n \in RegIds |-> IF n \in going THEN put(n, new) ELSE regs[n]]
          /\ classes' = [classes EXCEPT ![r.from] = fromRow, ![new] = newRow]
    BY DEF CommitSplit, Going, Here
  <1>5. k = Cardinality(going)
    OBVIOUS
  <1> HIDE DEF going, k
  <1>6. fewer \in Nat /\ (k <= r.fromRow.count => fewer = r.fromRow.count - k)
    BY <1>2, <1>3 DEF ClassRow
  <1> HIDE DEF fewer
  <1>7. /\ edited \in ClassRow /\ edited.count = fewer /\ edited.status = r.fromRow.status
        /\ newRow.count = k
    BY <1>2, <1>3, <1>6 DEF ClassRow, NewClass
  <1>8. \A n \in RegIds : put(n, new).status = regs[n].status /\ put(n, new).class = new
    BY <1>2 DEF RegRow
  <1> HIDE DEF edited, newRow, put
  <1>9. fromRow.count = fewer /\ fromRow.status = classes[r.from].status
    BY <1>1, <1>2, <1>7, FlushedClass
  <1>10. Exists(r.from) => r.fromRow.count = CountIn(regs, r.from)
    BY <1>1, <1>2 DEF Counted, Exists
  <1> HIDE DEF r, fromRow
  <1>11. \A n \in RegIds :
           \/ n \notin going /\ regs'[n] = regs[n]
           \/ n \in going /\ regs'[n].status = "active" /\ regs'[n].class = new
    BY <1>3, <1>4, <1>8 DEF ActiveIn
  <1>12. \A n \in RegIds : regs[n].class # new
    BY <1>2, <1>4, ConstantsOK DEF ClassKnown
  <1>13. /\ ActiveIn(regs', r.from) = ActiveIn(regs, r.from) \ going
         /\ ActiveIn(regs', new) = going
         /\ ActiveIn(regs, r.from) \cap going = going
    BY <1>3, <1>4, <1>11, <1>12 DEF ActiveIn
  <1>14. CountIn(regs', r.from) = CountIn(regs, r.from) - k /\ k <= CountIn(regs, r.from)
    <2>1. IsFiniteSet(ActiveIn(regs, r.from)) /\ IsFiniteSet(going)
      BY <1>3, CountIsNat, FS_Subset
    <2> QED BY <1>3, <1>5, <1>13, <2>1, CardinalityOfParts DEF CountIn
  <1>15. classes'[r.from] = fromRow /\ classes'[new] = newRow
    BY <1>1, <1>2, <1>4
  <1>16. classes'[r.from].status # "absent" => classes'[r.from].count = CountIn(regs', r.from)
    BY <1>6, <1>9, <1>10, <1>14, <1>15 DEF Exists
  <1>17. classes'[new].count = CountIn(regs', new)
    BY <1>5, <1>7, <1>13, <1>15 DEF CountIn
  <1>18. ASSUME NEW d \in Classes, d # r.from, d # new
         PROVE  CountIn(regs', d) = CountIn(regs, d) /\ classes'[d] = classes[d]
    <2>1. CountIn(regs', d) = CountIn(regs, d)
      BY <1>3, <1>11, <1>18, CountKept DEF ActiveIn
    <2> QED BY <1>2, <1>4, <1>18, <2>1
  <1> QED BY <1>2, <1>16, <1>17, <1>18 DEF Counted

LEMMA WithdrawCounts ==
  ASSUME Sound, Lone, NEW w \in Sessions, CommitWithdraw(w)
  PROVE  Counted(regs', classes')
  <1> DEFINE r == req[w]
             rows == ActiveOf(r.student)
             left == {regs[n].class : n \in rows}
             out(n) == [regs[n] EXCEPT !.status = "withdrawn"]
  <1>1. /\ classes \in [Classes -> ClassRow] /\ regs \in [RegIds -> RegRow]
        /\ Counted(regs, classes)
    BY DEF Sound, TypeOK, Lone
  <1>2. /\ regs' = [n \in RegIds |-> IF n \in rows THEN out(n) ELSE regs[n]]
        /\ classes' = [c \in Classes |-> IF c \in left THEN Recount(c, classes[c]) ELSE classes[c]]
    BY DEF CommitWithdraw
  <1>3. \A n \in RegIds : out(n).status = "withdrawn"
    BY <1>1 DEF RegRow
  <1>4. ASSUME NEW c \in Classes
        PROVE  Recount(c, classes[c]).count = CountIn(regs', c)
    <2>1. Recount(c, classes[c]) = [classes[c] EXCEPT !.count = CountIn(regs', c)]
      BY <1>1, RecountedClass
    <2> QED BY <1>1, <2>1 DEF ClassRow
  <1> HIDE DEF rows, out
  <1>5. ASSUME NEW c \in Classes, c \notin left
        PROVE  CountIn(regs', c) = CountIn(regs, c)
    <2>1. \A n \in RegIds : \/ regs'[n] = regs[n]
                            \/ regs'[n].status # "active" /\ regs[n].class # c
      BY <1>2, <1>3, <1>5
    <2> QED BY <2>1, CountKept
  <1> HIDE DEF left
  <1> QED BY <1>1, <1>2, <1>4, <1>5 DEF Counted

LEMMA RepairCounts ==
  ASSUME Sound, Lone, NEW w \in Sessions, CommitRepair(w)
  PROVE  Counted(regs', classes')
  <1> DEFINE r == req[w]
             count(c, late) == IF c \in late THEN CountIn(regs, c) ELSE r.counts[c]
             edited(c, late) == [r.loaded[c] EXCEPT !.count = count(c, late)]
             row(c, late) == Flush(classes[c], r.loaded[c], edited(c, late))
  <1>1. r.loaded = classes /\ \A c \in Classes : r.counts[c] = CountIn(regs, c)
    BY DEF CommitRepair, Lone, Fresh
  <1>2. classes \in [Classes -> ClassRow] /\ Counted(regs, classes)
    BY DEF Sound, TypeOK, Lone
  <1>3. PICK late \in SUBSET Classes :
          /\ classes' = [c \in Classes |-> IF r.loaded[c].status = "absent" THEN classes[c]
                                           ELSE row(c, late)]
          /\ UNCHANGED regs
    BY DEF CommitRepair
  <1>4. \A c \in Classes : count(c, late) = CountIn(regs, c)
    BY <1>1
  <1> HIDE DEF count
  <1>5. ASSUME NEW c \in Classes, classes[c].status # "absent"
        PROVE  row(c, late).count = CountIn(regs, c)
    <2>1. /\ edited(c, late) \in ClassRow /\ edited(c, late).count = CountIn(regs, c)
          /\ r.loaded[c] = classes[c] /\ classes[c] \in ClassRow
      BY <1>1, <1>2, <1>4, CountIsNat DEF ClassRow
    <2> HIDE DEF r, edited
    <2> QED BY <2>1, FlushedClass
  <1> HIDE DEF row
  <1>6. \A c \in Classes : classes'[c] = IF classes[c].status = "absent" THEN classes[c]
                                         ELSE row(c, late)
    BY <1>1, <1>3
  <1> QED BY <1>2, <1>3, <1>5, <1>6 DEF Counted

(* A new class has no registrations: ClassKnown.                           *)
LEMMA AddClassCounts ==
  ASSUME Sound, Lone, NEW w \in Sessions, NEW c \in Classes, NEW cap \in Capacities,
         AddClass(w, c, cap)
  PROVE  Counted(regs', classes')
  <1>1. /\ classes \in [Classes -> ClassRow] /\ Counted(regs, classes) /\ ClassKnown
    BY DEF Sound, TypeOK, Lone
  <1>2. ~Exists(c) /\ classes' = [classes EXCEPT ![c] = NewClass(cap)] /\ UNCHANGED regs
    BY DEF AddClass
  <1>3. ActiveIn(regs, c) = {}
    BY <1>1, <1>2, ConstantsOK DEF ActiveIn, ClassKnown
  <1>4. CountIn(regs, c) = 0
    BY <1>3, FS_EmptySet DEF CountIn
  <1> QED BY <1>1, <1>2, <1>4 DEF Counted, NewClass

LEMMA IdleOp == Idle.op = "idle" /\ \A rs, cs : Fresh(Idle, rs, cs)
  BY DEF Idle, Fresh

(* A request that ends leaves none in progress.                            *)
LEMMA LoneAfterFinish ==
  ASSUME Sound, Lone, NEW w \in Sessions, req[w] # Idle, Finish(w), Counted(regs', classes')
  PROVE  Lone'
  <1>1. req'[w] = Idle /\ \A v \in Sessions \ {w} : req'[v] = req[v]
    BY FinishRequest
  <1>2. \A v \in Sessions : req'[v] = Idle
    BY <1>1 DEF Lone, Exclusive
  <1> QED BY <1>2, IdleOp DEF Lone, Exclusive

(* A request that begins when none is in progress has just loaded its rows. *)
LEMMA LoneAfterBegin ==
  ASSUME Sound, Lone, \A v \in Sessions : req[v] = Idle,
         NEW w \in Sessions, NEW r, Begin(w, r), Fresh(r, regs, classes)
  PROVE  Lone'
  <1>1. /\ DOMAIN req = Sessions /\ req' = [req EXCEPT ![w] = r]
        /\ UNCHANGED <<regs, classes>>
    BY DEF Sound, TypeOK, Begin
  <1>2. req'[w] = r /\ \A v \in Sessions \ {w} : req'[v] = Idle
    BY <1>1
  <1>3. \A v \in Sessions : Fresh(req'[v], regs', classes')
    BY <1>1, <1>2, IdleOp
  <1> QED BY <1>1, <1>2, <1>3 DEF Lone, Exclusive

LEMMA LoneStep ==
  ASSUME Sound, Lone, Next, ~Overlap, ~Folding
  PROVE  Lone'
  <1>1. served' # served => \A v \in Sessions : req[v] = Idle
    BY DEF Overlap
  <1>2. served \in Nat
    BY ConstantsOK DEF Sound, TypeOK
  <1>3. ASSUME NEW w \in Sessions, NEW r, Begin(w, r), Fresh(r, regs, classes)
        PROVE  Lone'
    <2>1. served' # served
      BY <1>2, <1>3 DEF Begin, Start
    <2> QED BY <1>1, <1>3, <2>1, LoneAfterBegin
  <1>4. ASSUME NEW w \in Sessions,
               \/ CommitAdd(w) \/ CommitCancel(w) \/ CommitTransfer(w) \/ CommitEdit(w)
               \/ CommitClose(w) \/ CommitDelete(w) \/ CommitMerge(w) \/ CommitSplit(w)
               \/ CommitWithdraw(w) \/ CommitRepair(w) \/ Abort(w)
        PROVE  Lone'
    <2>1. Finish(w)
      BY <1>4 DEF CommitAdd, CommitCancel, CommitTransfer, CommitEdit, CommitClose, CommitDelete,
                  CommitMerge, CommitSplit, CommitWithdraw, CommitRepair, Abort
    <2>2. req[w] # Idle
      BY <1>4, IdleOp DEF CommitAdd, CommitCancel, CommitTransfer, CommitEdit, CommitClose,
                          CommitDelete, CommitMerge, CommitSplit, CommitWithdraw, CommitRepair,
                          Abort
    <2>3. CASE Abort(w)
      <3>1. Counted(regs', classes')
        BY <2>3 DEF Abort, Lone, Counted
      <3> QED BY <2>1, <2>2, <3>1, LoneAfterFinish
    <2>4. ~Abort(w) => Counted(regs', classes')
      BY <1>4, AddCounts, CancelCounts, TransferCounts, EditCounts, CloseCounts, DeleteCounts,
         MergeCounts, SplitCounts, WithdrawCounts, RepairCounts
    <2> QED BY <2>1, <2>2, <2>3, <2>4, LoneAfterFinish
  <1>5. ASSUME NEW w \in Sessions,
               \/ \E c \in Classes, cap \in Capacities : AddClass(w, c, cap)
               \/ \E s \in Students, status \in StudentStatuses : EditStudent(w, s, status)
               \/ \E s \in Students, c \in Seats : MultiRegister(w, s, c)
        PROVE  Lone'
    <2>1. served' # served /\ UNCHANGED req
      BY <1>2, <1>5 DEF AddClass, EditStudent, MultiRegister, Start
    <2>2. Counted(regs', classes')
      <3>1. ASSUME NEW s \in Students, NEW status \in StudentStatuses, EditStudent(w, s, status)
            PROVE  Counted(regs', classes')
        BY <3>1 DEF EditStudent, Lone, Counted
      <3> QED BY <1>5, <3>1, AddClassCounts, MultiRegisterCounts
    <2>3. \A v \in Sessions : req'[v] = Idle
      BY <1>1, <2>1
    <2> QED BY <2>2, <2>3, IdleOp DEF Lone, Exclusive
  <1>6. CASE Quiet
    <2>1. UNCHANGED <<regs, classes, req>>
      BY <1>6 DEF Quiet, vars
    <2> QED BY <2>1 DEF Lone, Exclusive, Counted
  <1> QED BY <1>3, <1>4, <1>5, <1>6, BeginsRequest DEF Next

(* add() and transfer() fill no class beyond its capacity.                 *)
LEMMA SeatsStep ==
  ASSUME Sound, Lone, Next,
         NEW w \in Sessions, req[w].op \in {"add", "transfer"}, req[w].to # NoClass,
         req'[w] = Idle, regs' # regs
  PROVE  CountIn(regs', req[w].to) <= classes[req[w].to].cap
  <1>1. req[w] # Idle
    BY IdleOp
  <1>2. ASSUME NEW v \in Sessions,
               \/ CommitAdd(v) \/ CommitCancel(v) \/ CommitTransfer(v) \/ CommitEdit(v)
               \/ CommitClose(v) \/ CommitDelete(v) \/ CommitMerge(v) \/ CommitSplit(v)
               \/ CommitWithdraw(v) \/ CommitRepair(v) \/ Abort(v)
        PROVE  CountIn(regs', req[w].to) <= classes[req[w].to].cap
    <2>1. req[v] # Idle
      BY <1>2, IdleOp DEF CommitAdd, CommitCancel, CommitTransfer, CommitEdit, CommitClose,
                          CommitDelete, CommitMerge, CommitSplit, CommitWithdraw, CommitRepair,
                          Abort
    <2>2. v = w
      BY <1>1, <2>1 DEF Lone, Exclusive
    <2>3. CommitAdd(w) \/ CommitTransfer(w)
      BY <1>2, <2>2 DEF CommitCancel, CommitEdit, CommitClose, CommitDelete,
                        CommitMerge, CommitSplit, CommitWithdraw, CommitRepair, Abort
    <2> QED BY <2>3, AddCounts, TransferCounts
  <1>3. ASSUME NEW v \in Sessions, NEW s \in Students, NEW c \in Seats, MultiRegister(v, s, c)
        PROVE  FALSE
    BY <1>1, <1>3 DEF MultiRegister
  <1>4. ASSUME NEW v \in Sessions, NEW r, Begin(v, r)
        PROVE  FALSE
    BY <1>4 DEF Begin
  <1>5. ASSUME NEW v \in Sessions,
               \/ \E c \in Classes, cap \in Capacities : AddClass(v, c, cap)
               \/ \E s \in Students, status \in StudentStatuses : EditStudent(v, s, status)
        PROVE  FALSE
    BY <1>5 DEF AddClass, EditStudent
  <1>6. ~Quiet
    BY DEF Quiet, vars
  <1> QED BY <1>2, <1>3, <1>4, <1>5, <1>6, BeginsRequest DEF Next

-----------------------------------------------------------------------------
(* The tables and the rows that requests hold keep their types.            *)
THEOREM TypeCorrect == Spec => []TypeOK
  <1>1. Sound /\ [Next]_vars => Sound'
    BY StepSound
  <1>2. Sound => TypeOK
    BY DEF Sound
  <1> QED BY <1>1, <1>2, InitSound, PTL DEF Spec

(* A registration that is completed or withdrawn stays so, whatever a      *)
(* request that loaded it earlier goes on to write.                        *)
THEOREM NeverReactivatedAlways == Spec => NeverReactivated
  <1>1. Sound /\ [Next]_vars => Sound'
    BY StepSound
  <1>2. Sound /\ [Next]_vars => [KeepsOver]_vars
    BY StepSound
  <1>3. [KeepsOver]_vars <=> [\A n \in RegIds :
          regs[n].status \in {"completed", "withdrawn"}
            => regs'[n].status \in {"completed", "withdrawn"}]_vars
    BY DEF KeepsOver, Over
  <1> QED BY <1>1, <1>2, <1>3, InitSound, PTL DEF Spec, NeverReactivated

(* The state of the history variables, and of the program as long as no    *)
(* two requests have overlapped and no class was merged into itself.       *)
AloneInv == Sound /\ (alone /\ ~folded => Lone)

LEMMA InitAlone == MCInit => AloneInv
  <1> SUFFICES ASSUME MCInit
               PROVE  AloneInv
    OBVIOUS
  <1>1. Sound /\ Init
    BY InitSound DEF MCInit
  <1>2. ASSUME NEW c \in Classes, classes[c].status # "absent"
        PROVE  classes[c].count = CountIn(regs, c)
    <2>1. classes[c].count = 0
      BY <1>1, <1>2 DEF Init, NoRow, NewClass
    <2>2. ActiveIn(regs, c) = {}
      BY <1>1 DEF Init, ActiveIn, NoReg
    <2> QED BY <2>1, <2>2, FS_EmptySet DEF CountIn
  <1>3. Lone
    BY <1>1, <1>2, IdleOp DEF Init, Lone, Exclusive, Counted
  <1> QED BY <1>1, <1>3 DEF AloneInv

LEMMA StepAlone ==
  ASSUME AloneInv, [MCNext]_mcvars
  PROVE  AloneInv'
  <1>1. CASE UNCHANGED mcvars
    <2>1. UNCHANGED <<regs, classes, students, moved, req, served>> /\ UNCHANGED <<alone, folded>>
      BY <1>1 DEF mcvars, vars
    <2>2. Sound'
      BY <2>1, StepSound DEF AloneInv, vars
    <2> QED BY <2>1, <2>2 DEF AloneInv, Lone, Exclusive, Counted
  <1>2. CASE Next /\ alone' = (alone /\ ~Overlap) /\ folded' = (folded \/ Folding)
    BY <1>2, StepSound, LoneStep DEF AloneInv
  <1> QED BY <1>1, <1>2 DEF MCNext, Cut

(* As long as requests come one at a time and no class with registrations  *)
(* was merged into itself, the count that every handler of registrations   *)
(* and classes writes is the number of active registrations of the class,  *)
(* and add() and transfer() respect capacity.                              *)
THEOREM AloneSeatsAlways == MCSpec => AloneSeats
  <1> DEFINE Seated ==
        alone' /\ ~folded' =>
          /\ CountIsActive'
          /\ \A w \in Sessions :
               /\ req[w].op \in {"add", "transfer"}
               /\ req[w].to # NoClass
               /\ req'[w] = Idle /\ regs' # regs
               => CountIn(regs', req[w].to) <= classes[req[w].to].cap
  <1>1. AloneInv /\ [MCNext]_mcvars => AloneInv'
    BY StepAlone
  <1>2. ASSUME AloneInv, [MCNext]_mcvars, alone' /\ ~folded'
        PROVE  Seated
    <2>1. CountIsActive'
      <3>1. Counted(regs', classes')
        BY <1>1, <1>2 DEF AloneInv, Lone
      <3> QED BY <3>1 DEF CountIsActive, Counted, Exists
    <2>2. CASE UNCHANGED mcvars
      BY <2>1, <2>2 DEF mcvars, vars
    <2>3. CASE Next /\ alone' = (alone /\ ~Overlap) /\ folded' = (folded \/ Folding)
      BY <1>2, <2>1, <2>3, SeatsStep DEF AloneInv
    <2> QED BY <1>2, <2>2, <2>3 DEF MCNext, Cut
  <1>3. AloneInv /\ [MCNext]_mcvars => [Seated]_mcvars
    BY <1>2
  <1> QED BY <1>1, <1>3, InitAlone, PTL DEF MCSpec, AloneSeats
=============================================================================
