------------------------------ MODULE Messaging ------------------------------
(***************************************************************************)
(* Text messages: the pages of routes/new_features.py, settings_panel.py,  *)
(* messaging.py and final.py that send them one by one through the gateway *)
(* (utils/sms_service.py), and the reminders of installments.              *)
(*                                                                         *)
(* A page loads whom to write to, calls the gateway for one contact after  *)
(* the other and commits the rows of `messages`, and the mark on the       *)
(* installments it reminded of, once at the end.  A call of the gateway    *)
(* cannot be rolled back; its answer is waited for 20 seconds.  Where the  *)
(* loop queries the database before a call, the rows so far are flushed,   *)
(* and the session has the write lock from then on, over all the calls     *)
(* that follow.  Each contact has one installment; a contact stands for an *)
(* entry of the page's list.                                               *)
(***************************************************************************)
EXTENDS Integers

CONSTANTS
  Sessions,      \* server threads that handle requests
  Nobody,        \* no session
  Contacts,      \* students with a mobile number
  MaxRequests,   \* bound: requests in one behaviour
  MaxFaults      \* bound: requests cut short, and answers that get lost

VARIABLES
  due,       \* installments due within three days and not settled
  reminded,  \* installments.reminder_sent
  rows,      \* table messages: number of rows of each kind and status
  got,       \* messages that the gateway accepted, of each kind
  inApp,     \* installments the in-app page marked
  lock,      \* session that holds the write lock of the database
  req,       \* the request each session is in
  served,    \* number of requests begun
  faults,    \* number of faults so far
  excused    \* a second reminder has an excuse (see RemindedOnce)

vars == <<due, reminded, rows, got, inApp, lock, req, served, faults, excused>>

Kinds == {"reminder", "message", "trigger"}
Statuses == {"sent", "failed"}

(* The pages: what they send, and whether the loop flushes before a call.  *)
(* send_configured_sms queries the settings; the reminders of the settings *)
(* panel load the student lazily, unless the session has the row already;  *)
(* the bulk page of the panel has everything before it starts.             *)
Pages == {"reminders", "panel_reminders", "sms", "panel_bulk", "trigger"}
Kind(page) == CASE page \in {"reminders", "panel_reminders"} -> "reminder"
                [] page \in {"sms", "panel_bulk"} -> "message"
                [] page = "trigger" -> "trigger"
Flushes(page) == CASE page = "panel_bulk" -> {FALSE}
                   [] page = "panel_reminders" -> BOOLEAN
                   [] OTHER -> {TRUE}

Idle == [page |-> "none"]
NoAnswer == "none"

Init ==
  /\ due \in SUBSET Contacts
  /\ reminded = {}
  /\ rows = [k \in Kinds |-> [c \in Contacts |-> [s \in Statuses |-> 0]]]
  /\ got = [k \in Kinds |-> [c \in Contacts |-> 0]]
  /\ inApp = {}
  /\ lock = Nobody
  /\ req = [w \in Sessions |-> Idle]
  /\ served = 0
  /\ faults = 0
  /\ excused = FALSE

-----------------------------------------------------------------------------
(* Installments due within three days, not settled, not reminded of yet.   *)
ToRemind == due \ reminded

InReminders(w) ==
  req[w].page \in Pages /\ Kind(req[w].page) = "reminder"

(* A page loads its list: the installments to remind of, or the contacts   *)
(* a query or the form names.                                              *)
Open(w, page, list) ==
  /\ req[w] = Idle
  /\ served < MaxRequests
  /\ list # {}
  /\ Kind(page) = "reminder" => list = ToRemind
  /\ req' = [req EXCEPT ![w] =
       [page |-> page, list |-> list, answer |-> [c \in list |-> NoAnswer]]]
  /\ served' = served + 1
  /\ excused' = (excused \/ (/\ Kind(page) = "reminder"
                             /\ \E v \in Sessions : InReminders(v)))
  /\ UNCHANGED <<due, reminded, rows, got, inApp, lock, faults>>

Unsaved(r) == {c \in r.list : r.answer[c] # NoAnswer}

(* Fault: every row says 'sent'.                                           *)
StatusSent(page, ok) == "sent"

(* The trigger pages write 'sent' without looking at the answer.           *)
StatusOf(page, ok) == IF ok \/ page = "trigger" THEN "sent" ELSE "failed"

(* One call of the gateway and its row, which stays in the session.  The   *)
(* message is accepted and the answer says so; or it is refused, or never  *)
(* asked for (no licence, no settings, no valid number); or it is accepted *)
(* and the answer is lost, which the program takes for a refusal.          *)
Send(w, c, accepted, ok) ==
  LET r == req[w] IN
  /\ r.page \in Pages
  /\ c \in r.list /\ r.answer[c] = NoAnswer
  /\ \E flush \in Flushes(r.page) :
       IF flush /\ Unsaved(r) # {}
       THEN lock \in {Nobody, w} /\ lock' = w
       ELSE UNCHANGED lock
  /\ ok => accepted
  /\ accepted /\ ~ok => faults < MaxFaults
  /\ faults' = IF accepted /\ ~ok THEN faults + 1 ELSE faults
  /\ got' = [got EXCEPT ![Kind(r.page)][c] = IF accepted THEN @ + 1 ELSE @]
  /\ req' = [req EXCEPT ![w].answer[c] = StatusOf(r.page, ok)]
  /\ excused' = (excused \/ (accepted /\ ~ok))
  /\ UNCHANGED <<due, reminded, rows, inApp, served>>

(* Fault: the installments are not marked.                                 *)
MarkedNone(r) == {}

(* reminder_sent is set where the answer was good.                         *)
Marked(r) == IF Kind(r.page) = "reminder"
             THEN {c \in r.list : r.answer[c] = "sent"} ELSE {}

(* The commit at the end of the loop.                                      *)
Save(w) ==
  LET r == req[w] IN
  /\ r.page \in Pages
  /\ Unsaved(r) = r.list
  /\ lock \in {Nobody, w}
  /\ lock' = Nobody
  /\ rows' = [k \in Kinds |-> [c \in Contacts |-> [s \in Statuses |->
       IF k = Kind(r.page) /\ c \in r.list /\ r.answer[c] = s
       THEN rows[k][c][s] + 1 ELSE rows[k][c][s]]]]
  /\ reminded' = reminded \cup Marked(r)
  /\ req' = [req EXCEPT ![w] = Idle]
  /\ UNCHANGED <<due, got, inApp, served, faults, excused>>

(* The request ends without a commit: the lock was not free for ten        *)
(* seconds, or the worker is stopped or killed between two calls.          *)
Fail(w) ==
  /\ req[w] # Idle
  /\ \/ lock \notin {Nobody, w} /\ UNCHANGED faults
     \/ faults < MaxFaults /\ faults' = faults + 1
  /\ lock' = IF lock = w THEN Nobody ELSE lock
  /\ excused' = (excused \/ (/\ InReminders(w)
                             /\ \E c \in req[w].list : req[w].answer[c] = "sent"))
  /\ req' = [req EXCEPT ![w] = Idle]
  /\ UNCHANGED <<due, reminded, rows, got, inApp, served>>

-----------------------------------------------------------------------------
(* batch_reminders(): notes inside the program, for every installment due  *)
(* soon, which is marked like one that was reminded of.                    *)
OpenInApp(w) ==
  /\ req[w] = Idle
  /\ served < MaxRequests
  /\ due # {}
  /\ req' = [req EXCEPT ![w] = [page |-> "in_app", list |-> due]]
  /\ served' = served + 1
  /\ UNCHANGED <<due, reminded, rows, got, inApp, lock, faults, excused>>

SaveInApp(w) ==
  LET r == req[w] IN
  /\ r.page = "in_app"
  /\ lock = Nobody
  /\ reminded' = reminded \cup r.list
  /\ inApp' = inApp \cup r.list
  /\ req' = [req EXCEPT ![w] = Idle]
  /\ UNCHANGED <<due, rows, got, lock, served, faults, excused>>

(* Days pass, a payment settles an installment, its cancellation opens it. *)
Change(c) ==
  /\ due' = IF c \in due THEN due \ {c} ELSE due \cup {c}
  /\ UNCHANGED <<reminded, rows, got, inApp, lock, req, served, faults,
                 excused>>

Next ==
  \/ \E w \in Sessions, page \in Pages, list \in SUBSET Contacts :
       Open(w, page, list)
  \/ \E w \in Sessions, c \in Contacts, accepted, ok \in BOOLEAN :
       Send(w, c, accepted, ok)
  \/ \E w \in Sessions : Save(w)
  \/ \E w \in Sessions : Fail(w)
  \/ \E w \in Sessions : OpenInApp(w)
  \/ \E w \in Sessions : SaveInApp(w)
  \/ \E c \in Contacts : Change(c)

Spec == Init /\ [][Next]_vars

-----------------------------------------------------------------------------
(***************************************************************************)
(* Properties.                                                             *)
(***************************************************************************)

TypeOK ==
  /\ due \subseteq Contacts /\ reminded \subseteq Contacts
  /\ rows \in [Kinds -> [Contacts -> [Statuses -> Nat]]]
  /\ got \in [Kinds -> [Contacts -> Nat]]
  /\ inApp \subseteq Contacts
  /\ lock \in Sessions \cup {Nobody}
  /\ DOMAIN req = Sessions
  /\ served \in 0..MaxRequests /\ faults \in 0..MaxFaults
  /\ excused \in BOOLEAN

(* However many sessions run and wherever they stop: the list of messages  *)
(* shows no message as sent that the gateway did not accept, except those  *)
(* of the trigger pages.                                                   *)
NoFalseSent ==
  \A k \in {"reminder", "message"}, c \in Contacts :
    rows[k][c]["sent"] <= got[k][c]

(* A student is not reminded twice of one installment, unless the program  *)
(* could not know of the first time: the answer got lost, the request was  *)
(* cut short before its commit, or two runs of the reminders overlapped.   *)
RemindedOnce ==
  ~excused => \A c \in Contacts : got["reminder"][c] <= 1

=============================================================================
