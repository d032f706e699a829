-------------------------------- MODULE Exams ---------------------------------
(***************************************************************************)
(* Exams of a class, their questions drawn from the bank, the marks of the *)
(* students, and the certificates of their registrations (routes/exams.py, *)
(* features.auto_generate_exam(), routes/additional.py).                   *)
(*                                                                         *)
(* A request loads rows in its Begin action and writes them in its Commit. *)
(***************************************************************************)
EXTENDS Integers, Sequences, FiniteSetsExt

CONSTANTS
  Sessions,       \* server threads that handle requests
  Students,       \* students, each with one registration in the class
  None,           \* an option left open; no answer
  Questions,      \* questions an administrator may enter
  Papers,         \* weights and marks an exam may have
  Scores,         \* scores a form may hold
  MaxQuestions,   \* bound: rows of question_bank
  MaxRows,        \* bound: rows of exam_results and of certificates
  MaxRequests     \* bound: requests in one behaviour

VARIABLES
  bank,       \* table question_bank
  exam,       \* the exam: its row, None before it is entered
  paper,      \* table exam_questions
  results,    \* table exam_results
  statuses,   \* status of each student's registration
  diplomas,   \* table certificates
  req,        \* the request each session is in
  served      \* number of requests begun

vars == <<bank, exam, paper, results, statuses, diplomas, req, served>>

Idle == [op |-> "idle"]
Keys == <<"a", "b", "c", "d">>
Multiple == "multiple_choice"
Standing == {"active", "completed"}

Init ==
  /\ bank = <<>>
  /\ exam = None
  /\ paper = <<>>
  /\ results = <<>>
  /\ statuses = [st \in Students |-> "active"]
  /\ diplomas = <<>>
  /\ req = [w \in Sessions |-> Idle]
  /\ served = 0

Begin(w, r) ==
  /\ req[w] = Idle
  /\ served < MaxRequests
  /\ req' = [req EXCEPT ![w] = r]
  /\ served' = served + 1
  /\ UNCHANGED <<bank, exam, paper, results, statuses, diplomas>>

Finish(w) == req' = [req EXCEPT ![w] = Idle] /\ UNCHANGED served

-----------------------------------------------------------------------------
(* The exam and the bank.                                                  *)

(* exams.add(): the weights make a hundred, nobody needs more than all.    *)
AddExam(p) ==
  /\ exam = None
  /\ p.theory + p.practical = 100
  /\ p.pass <= p.total
  /\ exam' = [weights |-> p, status |-> "draft"]
  /\ UNCHANGED <<bank, paper, results, statuses, diplomas, req, served>>

AddQuestion(q) ==
  /\ Len(bank) < MaxQuestions
  /\ bank' = Append(bank, q)
  /\ UNCHANGED <<exam, paper, results, statuses, diplomas, req, served>>

-----------------------------------------------------------------------------
(* auto_generate_exam(): a random choice of questions replaces those of    *)
(* the exam; the options of a choice question may be put in random order.  *)

Filled(q) == {k \in 1..4 : q.options[k] # None}

Orders(set) == {s \in [1..Cardinality(set) -> set] : \A i, j \in DOMAIN s : i # j => s[i] # s[j]}

Correct(q) == {k \in 1..4 : Keys[k] = q.answer}

(* The options left open move to the end, where the fields keep what the   *)
(* question had there.  The key is the last option with the right text.    *)
(* Fault: the key stays where it was.                                      *)
ShuffledKeyKept(q, order) ==
  LET place(k) == IF k <= Len(order) THEN q.options[order[k]] ELSE q.options[k]
  IN [q EXCEPT !.options = [k \in 1..4 |-> place(k)]]

Shuffled(q, order) ==
  LET place(k) == IF k <= Len(order) THEN q.options[order[k]] ELSE q.options[k]
      right == {k \in 1..Len(order) : \E c \in Correct(q) : place(k) = q.options[c]}
  IN [q EXCEPT !.options = [k \in 1..4 |-> place(k)],
               !.answer = IF right = {} THEN None ELSE Keys[Max(right)]]

Drawn(i, shuffle) ==
  LET q == bank[i] IN
  IF shuffle /\ q.kind = Multiple
  THEN {[from |-> i, q |-> Shuffled(q, order)] : order \in Orders(Filled(q))}
  ELSE {[from |-> i, q |-> q]}

(* Everything but the choice is one DELETE and the INSERTs that follow it. *)
Generate(chosen, shuffle) ==
  /\ exam # None
  /\ paper' \in {s \in [1..Len(chosen) -> UNION {Drawn(i, shuffle) : i \in DOMAIN bank}] :
                   \A n \in DOMAIN s : s[n] \in Drawn(chosen[n], shuffle)}
  /\ UNCHANGED <<bank, exam, results, statuses, diplomas, req, served>>

-----------------------------------------------------------------------------
(* exams.grade(): the results there are and the active registrations are   *)
(* loaded; then a result is changed or a new one added.                    *)

Held(score, most) == IF score < 0 THEN 0 ELSE IF score > most THEN most ELSE score

(* In hundredths of a mark.                                                *)
Total(p, theory, practical) == theory * p.theory + practical * p.practical

Marked(st, theory, practical) ==
  LET p == exam.weights
      t == Held(theory, p.total)
      total == Total(p, t, Held(practical, p.total))
  IN [student |-> st, total |-> total, passed |-> total >= 100 * p.pass, appeal |-> FALSE]

ResultOf(st) == {i \in DOMAIN results : results[i].student = st}

BeginGrade(w, form) ==
  /\ exam # None
  /\ Begin(w, [op |-> "grade", form |-> form,
               whom |-> {st \in Students : statuses[st] = "active"},
               found |-> [st \in Students |-> ResultOf(st)]])

CommitGrade(w) ==
  LET r == req[w]
      New(st) == Marked(st, r.form[st].theory, r.form[st].practical)
      added == {st \in r.whom : r.found[st] = {}}
      changed == [i \in DOMAIN results |->
        IF \E st \in r.whom : r.found[st] # {} /\ i = Max(r.found[st])
        THEN [New(results[i].student) EXCEPT !.appeal = results[i].appeal]
        ELSE results[i]]
  IN
  /\ r.op = "grade"
  /\ Len(results) + Cardinality(added) <= MaxRows
  /\ \E order \in Orders(added) :
       results' = changed \o [i \in DOMAIN order |-> New(order[i])]
  /\ exam' = [exam EXCEPT !.status = "completed"]
  /\ Finish(w)
  /\ UNCHANGED <<bank, paper, statuses, diplomas>>

Appeal(i) ==
  /\ results' = [results EXCEPT ![i].appeal = TRUE]
  /\ UNCHANGED <<bank, exam, paper, statuses, diplomas, req, served>>

-----------------------------------------------------------------------------
(* Certificates.                                                           *)

Valid(st) == {i \in DOMAIN diplomas : diplomas[i].student = st /\ diplomas[i].valid}

BeginIssue(w, st, legacy) ==
  /\ ~legacy => statuses[st] \in Standing
  /\ Valid(st) = {}
  /\ Begin(w, [op |-> "issue", student |-> st])

CommitIssue(w) ==
  LET r == req[w] IN
  /\ r.op = "issue"
  /\ Len(diplomas) < MaxRows
  /\ diplomas' = Append(diplomas, [student |-> r.student, valid |-> TRUE])
  /\ Finish(w)
  /\ UNCHANGED <<bank, exam, paper, results, statuses>>

CancelDiploma(i) ==
  /\ diplomas' = [diplomas EXCEPT ![i].valid = FALSE]
  /\ UNCHANGED <<bank, exam, paper, results, statuses, req, served>>

(* Meanwhile a registration is cancelled, or the class is closed.          *)
Change(st, status) ==
  /\ statuses[st] = "active"
  /\ statuses' = [statuses EXCEPT ![st] = status]
  /\ UNCHANGED <<bank, exam, paper, results, diplomas, req, served>>

Abort(w) ==
  /\ req[w] # Idle
  /\ Finish(w)
  /\ UNCHANGED <<bank, exam, paper, results, statuses, diplomas>>

Form == [Students -> [theory : Scores, practical : Scores]]

Next ==
  \/ \E p \in Papers : AddExam(p)
  \/ \E q \in Questions : AddQuestion(q)
  \/ \E some \in SUBSET DOMAIN bank, shuffle \in BOOLEAN :
       \E chosen \in Orders(some) : Generate(chosen, shuffle)
  \/ \E w \in Sessions, form \in Form : BeginGrade(w, form)
  \/ \E w \in Sessions : CommitGrade(w)
  \/ \E i \in DOMAIN results : Appeal(i)
  \/ \E w \in Sessions, st \in Students, legacy \in BOOLEAN : BeginIssue(w, st, legacy)
  \/ \E w \in Sessions : CommitIssue(w)
  \/ \E i \in DOMAIN diplomas : CancelDiploma(i)
  \/ \E st \in Students, status \in {"cancelled", "completed"} : Change(st, status)
  \/ \E w \in Sessions : Abort(w)

Spec == Init /\ [][Next]_vars

-----------------------------------------------------------------------------
(***************************************************************************)
(* Properties.                                                             *)
(***************************************************************************)

(* However the options of a question were put in order, the key of the     *)
(* exam points to the text that is right in the bank, and every text of    *)
(* the bank can be chosen.                                                 *)
RightAnswerKept ==
  \A n \in DOMAIN paper :
    LET asked == paper[n].q
        q == bank[paper[n].from]
    IN
    /\ {asked.options[k] : k \in Correct(asked)} = {q.options[k] : k \in Correct(q)}
    /\ {asked.options[k] : k \in Filled(asked)} = {q.options[k] : k \in Filled(q)}

(* A student has one result in an exam, and a registration one certificate *)
(* that is valid (to be asked where no requests overlap: no key of the     *)
(* tables stands behind it).                                               *)
OneOfEach ==
  \A st \in Students : Cardinality(ResultOf(st)) <= 1 /\ Cardinality(Valid(st)) <= 1
=============================================================================
