------------------------------ MODULE Attendance ------------------------------
(***************************************************************************)
(* Attendance of one class on one day: the meetings of the class (table    *)
(* class_sessions), the roster a user saves for one of them, and the       *)
(* punches of a card reader (utils/attendance_service.py,                  *)
(* routes/attendance.py, classes.generate_sessions()).  What a teacher is  *)
(* paid by the hour is the sum of the hours kept here.                     *)
(***************************************************************************)
EXTENDS Naturals, Sequences, FiniteSets, UnitOfWork

CONSTANTS
  Sessions,      \* server threads that handle requests
  Students,      \* students with an active registration in the class
  Teachers,      \* teacher of the class
  Cards,         \* identifiers of cards, those that are nobody's code
  None,          \* NULL: a time or a row that is not there
  Start, End,    \* times of the meetings
  LateLimit,     \* 10 minutes: a present student is late from there on
  Entries,       \* what a form may hold for a person
  LastTime,      \* bound: last time of the day
  MaxMeetings,   \* bound: rows of class_sessions on this day
  MaxRequests    \* bound: requests in one behaviour

People == Students \cup Teachers
Meetings == 1..MaxMeetings

(* What a reader may read: a card, or the code of a person.                *)
Identifiers == People \cup Cards

VARIABLES
  clock,     \* time of day
  meetings,  \* table class_sessions: status of each meeting of the day
  sheet,     \* tables attendances and teacher_attendances, unique by (meeting, person)
  device,    \* the card reader: not registered, active, switched off
  cards,     \* table attendance_credentials: the person of each identifier
  req,       \* the request each thread is in
  served     \* number of requests begun

vars == <<clock, meetings, sheet, device, cards, req, served>>

Idle == [op |-> "idle"]

Init ==
  /\ clock = 0
  /\ meetings = <<>>
  /\ sheet = [m \in Meetings |-> [p \in People |-> None]]
  /\ device = "none"
  /\ cards = [i \in Identifiers |-> None]
  /\ req = [w \in Sessions |-> Idle]
  /\ served = 0

-----------------------------------------------------------------------------
(* Times.                                                                  *)

Given(time, other) == IF time = None THEN other ELSE time

Lateness(arr) ==
  IF arr = None THEN 0 ELSE IF arr > Start THEN arr - Start ELSE 0

Duration(arr, dep) ==
  IF arr = None \/ dep = None THEN None
  ELSE IF dep < arr THEN None ELSE dep - arr

(* A time that is not known is that of the timetable; times in the wrong   *)
(* order count as the whole meeting.                                       *)
TeachingHours(arr, dep) ==
  LET d == Duration(Given(arr, Start), Given(dep, End))
  IN  IF d = None THEN End - Start ELSE d

-----------------------------------------------------------------------------
(* Writing one row.                                                        *)

Blank == [status |-> None, arr |-> None, dep |-> None, late |-> 0, hours |-> None]

StudentRow(row, entry) ==
  LET late == IF entry.status \in {"present", "late"} THEN Lateness(entry.arr) ELSE 0
      arr == Given(entry.arr, row.arr)
      dep == Given(entry.dep, row.dep)
  IN [status |-> IF entry.status = "present" /\ late >= LateLimit
                 THEN "late" ELSE entry.status,
      arr |-> arr, dep |-> dep, late |-> late, hours |-> Duration(arr, dep)]

(* Fault: the hours are those of the times just given.                     *)
TeacherRowOfForm(row, entry) ==
  [status |-> entry.status,
   arr |-> Given(entry.arr, row.arr), dep |-> Given(entry.dep, row.dep),
   late |-> Lateness(entry.arr),
   hours |-> IF entry.status = "absent" THEN 0
             ELSE TeachingHours(entry.arr, entry.dep)]

TeacherRow(row, entry) ==
  LET arr == Given(entry.arr, row.arr)
      dep == Given(entry.dep, row.dep)
  IN [status |-> entry.status, arr |-> arr, dep |-> dep,
      late |-> Lateness(entry.arr),
      hours |-> IF entry.status = "absent" THEN 0 ELSE TeachingHours(arr, dep)]

(* The row a person has after an entry, given the row that was loaded.     *)
Upsert(p, loaded, entry) ==
  LET row == IF loaded = None THEN Blank ELSE loaded
  IN  IF p \in Students THEN StudentRow(row, entry) ELSE TeacherRow(row, entry)

-----------------------------------------------------------------------------
(* Requests.                                                               *)

Begin(w, r) ==
  /\ req[w] = Idle
  /\ served < MaxRequests
  /\ req' = [req EXCEPT ![w] = r]
  /\ served' = served + 1

Finish(w) == req' = [req EXCEPT ![w] = Idle] /\ UNCHANGED served

(* generate_sessions(): refused when the class has meetings already.       *)
BeginGenerate(w) ==
  /\ meetings = <<>>
  /\ Begin(w, [op |-> "generate"])
  /\ UNCHANGED <<clock, meetings, sheet, device, cards>>

CommitGenerate(w) ==
  /\ req[w].op = "generate"
  /\ Len(meetings) < MaxMeetings
  /\ meetings' = Append(meetings, "scheduled")
  /\ Finish(w)
  /\ UNCHANGED <<clock, sheet, device, cards>>

(* The rows of a roster are loaded and written one after the other, the    *)
(* teacher's last.  The query for the next row flushes those before it,    *)
(* and from the first row that changes the thread has the write lock: only *)
(* the rows up to that one are read without it.                            *)
ReadUnlocked(m, form) ==
  {early \in SUBSET People \ {{}} :
     /\ early \subseteq Students \/ Students \subseteq early
     /\ Cardinality({p \in early : Upsert(p, sheet[m][p], form[p]) # sheet[m][p]}) <= 1}

BeginRoster(w, m, form) ==
  /\ m \in DOMAIN meetings
  /\ \E early \in ReadUnlocked(m, form) :
       Begin(w, [op |-> "roster", m |-> m, form |-> form,
                 loaded |-> [p \in early |-> sheet[m][p]]])
  /\ UNCHANGED <<clock, meetings, sheet, device, cards>>

(* Another request has put in a row this one did not find.                 *)
Collides(r) ==
  \E p \in DOMAIN r.loaded : r.loaded[p] = None /\ sheet[r.m][p] # None

Saved(r, p) ==
  IF p \notin DOMAIN r.loaded
  THEN Upsert(p, sheet[r.m][p], r.form[p])
  ELSE IF r.loaded[p] = None
       THEN Upsert(p, None, r.form[p])
       ELSE Flush(sheet[r.m][p], r.loaded[p], Upsert(p, r.loaded[p], r.form[p]))

CommitRoster(w) ==
  LET r == req[w] IN
  /\ r.op = "roster"
  /\ ~Collides(r)
  /\ sheet' = [sheet EXCEPT ![r.m] = [p \in People |-> Saved(r, p)]]
  /\ meetings' = [meetings EXCEPT ![r.m] = "completed"]
  /\ Finish(w)
  /\ UNCHANGED <<clock, device, cards>>

-----------------------------------------------------------------------------
(* The card reader.                                                        *)

AddDevice(w) ==
  /\ req[w] = Idle
  /\ device = "none"
  /\ device' = "active"
  /\ UNCHANGED <<clock, meetings, sheet, cards, req, served>>

(* A card is given to a person; an identifier once given stays so.         *)
AddCredential(i, p) ==
  /\ cards[i] = None
  /\ served < MaxRequests
  /\ cards' = [cards EXCEPT ![i] = p]
  /\ served' = served + 1
  /\ UNCHANGED <<clock, meetings, sheet, device, req>>

BeginToggle(w) ==
  /\ device # "none"
  /\ Begin(w, [op |-> "toggle", to |-> IF device = "active" THEN "off" ELSE "active"])
  /\ UNCHANGED <<clock, meetings, sheet, device, cards>>

CommitToggle(w) ==
  /\ req[w].op = "toggle"
  /\ device' = req[w].to
  /\ Finish(w)
  /\ UNCHANGED <<clock, meetings, sheet, cards>>

(* Whom an identifier stands for: its card goes before a person's code.    *)
resolve_person(i) ==
  IF cards[i] # None THEN cards[i] ELSE IF i \in People THEN i ELSE None

(* The meeting a punch belongs to: the first of the day for a student, as  *)
(* all begin at the same time; any of them for a teacher.                  *)
Today(p) == IF p \in Students THEN {1} ELSE DOMAIN meetings

At(time, out) == [status |-> "present", arr |-> time, dep |-> IF out THEN time ELSE None]

(* Leaving writes the departure and the hours, whatever the status is.     *)
Leave(p, row) ==
  [row EXCEPT !.dep = clock,
              !.hours = IF p \in Students THEN Duration(row.arr, clock)
                        ELSE TeachingHours(row.arr, clock)]

(* One punch.  Its log row is flushed before the meeting is looked for, so *)
(* that everything it reads it reads with the write lock.                  *)
Punch(p, out) ==
  \E m \in Today(p) :
    sheet' = [sheet EXCEPT ![m][p] =
      IF out /\ @ # None THEN Leave(p, @) ELSE Upsert(p, @, At(clock, out))]

(* The reader calls: one that is not switched on is refused, an identifier *)
(* that is not known is logged.                                            *)
device_punch(i, out) ==
  /\ device = "active"
  /\ meetings # <<>>
  /\ resolve_person(i) # None
  /\ Punch(resolve_person(i), out)
  /\ UNCHANGED <<clock, meetings, device, cards, req, served>>

-----------------------------------------------------------------------------
(* A request ends without a commit: a collision, a lock that was not free, *)
(* a worker that dies.                                                     *)
Abort(w) ==
  /\ req[w] # Idle
  /\ Finish(w)
  /\ UNCHANGED <<clock, meetings, sheet, device, cards>>

Tick ==
  /\ clock < LastTime
  /\ clock' = clock + 1
  /\ UNCHANGED <<meetings, sheet, device, cards, req, served>>

Forms == [People -> Entries]

Next ==
  \/ \E w \in Sessions : BeginGenerate(w)
  \/ \E w \in Sessions : CommitGenerate(w)
  \/ \E w \in Sessions, m \in Meetings, form \in Forms : BeginRoster(w, m, form)
  \/ \E w \in Sessions : CommitRoster(w)
  \/ \E w \in Sessions : AddDevice(w)
  \/ \E w \in Sessions : BeginToggle(w)
  \/ \E w \in Sessions : CommitToggle(w)
  \/ \E i \in Identifiers, p \in People : AddCredential(i, p)
  \/ \E i \in Identifiers, out \in BOOLEAN : device_punch(i, out)
  \/ \E w \in Sessions : Abort(w)
  \/ Tick

Spec == Init /\ [][Next]_vars

-----------------------------------------------------------------------------
(***************************************************************************)
(* Properties.                                                             *)
(***************************************************************************)

(* The hours a row holds, those a teacher is paid by, are those of the     *)
(* times it holds, whichever of the roster and the card reader wrote them; *)
(* a teacher who is absent is left out: leaving gives hours all the same.  *)
HoursFollowTimes ==
  \A m \in Meetings, p \in People :
    LET row == sheet[m][p] IN
    row # None =>
      IF p \in Students THEN row.hours = Duration(row.arr, row.dep)
      ELSE row.status # "absent" => row.hours = TeachingHours(row.arr, row.dep)
=============================================================================
