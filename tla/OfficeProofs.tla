------------------------------ MODULE OfficeProofs -----------------------------
(***************************************************************************)
(* Proofs about components that MCOffice puts side by side, for any        *)
(* threads and any number of files, contacts, ports and pids.  A behaviour *)
(* of MCSpec is one of a single component, so that each part has an        *)
(* invariant of its own, which is one of MCSpec where that part was        *)
(* chosen.                                                                 *)
(***************************************************************************)
EXTENDS MCOffice, FiniteSetTheorems, SequenceTheorems, WellFoundedInduction, TLAPS

-----------------------------------------------------------------------------
(* Access.  What a request was admitted by it carries with it.              *)

Passed(r) == Guard!check_access(r)
PassedAgain(r) ==
  r.page.second = None \/ Guard!role_check(r, r.page.second[1], r.page.second[2])

(* A request that was admitted carries the rows it was admitted by; one    *)
(* that is handled has passed the second check with the same rows.         *)
Guarded(r) ==
  /\ r.op \in {"admitted", "handled"} => Passed(r)
  /\ r.op = "handled" => PassedAgain(r)

AccessInv ==
  /\ DOMAIN req = Threads
  /\ \A w \in Threads : Guarded(req[w])

(* The guard of the handler and the guard in front look at the same        *)
(* fields; the progress of the request is not one of them.                 *)
LEMMA OpIsNotAsked ==
  ASSUME NEW r, NEW q, q.page = r.page, q.user = r.user, q.rows = r.rows
  PROVE  /\ Passed(q) <=> Passed(r)
         /\ PassedAgain(q) <=> PassedAgain(r)
  BY DEF Passed, PassedAgain, Guard!check_access, Guard!role_check, Guard!resolve_policy,
         Guard!required_write_action, Guard!has_permission, Guard!has_module_access

LEMMA AccessStepKeeps == ASSUME AccessInv, [Guard!Next]_(Guard!vars) PROVE AccessInv'
<1>1. ASSUME NEW w \in Threads, NEW r, Guarded(r), req' = [req EXCEPT ![w] = r]
      PROVE  AccessInv'
  <2>1. DOMAIN req' = Threads
    BY <1>1 DEF AccessInv
  <2>2. \A v \in Threads : req'[v] = IF v = w THEN r ELSE req[v]
    BY <1>1 DEF AccessInv
  <2> QED BY <2>1, <2>2, <1>1 DEF AccessInv
<1>2. Guarded(Guard!Idle)
  BY DEF Guarded, Guard!Idle
<1>3. ASSUME NEW w \in Threads, NEW page \in Screens, Guard!Arrive(w, page) PROVE AccessInv'
  <2>1. Guarded([op |-> "arrived", page |-> page, user |-> user])
    BY DEF Guarded
  <2> QED BY <2>1, <1>1, <1>3 DEF Guard!Arrive
<1>4. ASSUME NEW w \in Threads, Guard!role_guard(w) PROVE AccessInv'
  <2> DEFINE r == [op |-> "admitted", page |-> req[w].page, user |-> req[w].user,
                   rows |-> Guard!RowsOf(req[w].user)]
             next == IF Guard!check_access(r) THEN r ELSE Guard!Idle
  <2>1. Guarded(next)
    <3>1. CASE Guard!check_access(r)
      <4>1. Passed(r) /\ r.op = "admitted" /\ next = r
        BY <3>1 DEF Passed
      <4> HIDE DEF r
      <4> QED BY <4>1 DEF Guarded
    <3>2. CASE ~Guard!check_access(r)
      BY <3>2, <1>2
    <3> QED BY <3>1, <3>2
  <2>2. req' = [req EXCEPT ![w] = next]
    BY <1>4 DEF Guard!role_guard
  <2> HIDE DEF next
  <2> QED BY <2>1, <2>2, <1>1
<1>5. ASSUME NEW w \in Threads, Guard!Decorated(w) PROVE AccessInv'
  <2> DEFINE r == req[w]
             next == IF PassedAgain(r) THEN [r EXCEPT !.op = "handled"] ELSE Guard!Idle
  <2>1. Guarded(next)
    <3>1. CASE PassedAgain(r)
      <4>1. r.op = "admitted" /\ Passed(r)
        BY <1>5 DEF Guard!Decorated, AccessInv, Guarded
      <4>2. next.page = r.page /\ next.user = r.user /\ next.rows = r.rows
        BY <3>1
      <4>3. Passed(next) /\ PassedAgain(next)
        BY <4>1, <4>2, <3>1, OpIsNotAsked
      <4> HIDE DEF next
      <4> QED BY <4>3 DEF Guarded
    <3>2. CASE ~PassedAgain(r)
      BY <3>2, <1>2
    <3> QED BY <3>1, <3>2
  <2>2. req' = [req EXCEPT ![w] = next]
    BY <1>5 DEF Guard!Decorated, PassedAgain
  <2> HIDE DEF next
  <2> QED BY <2>1, <2>2, <1>1
<1>6. ASSUME NEW w \in Threads, Guard!Respond(w) PROVE AccessInv'
  BY <1>1, <1>2, <1>6 DEF Guard!Respond
<1>7. ASSUME UNCHANGED req PROVE AccessInv'
  BY <1>7 DEF AccessInv
<1> QED
  BY <1>3, <1>4, <1>5, <1>6, <1>7 DEF Guard!Next, Guard!EditUser, Guard!EditRole, Guard!vars

(* What the two guards let through: every way to pass leads to a writing   *)
(* action of the module that is written in.                                *)
LEMMA GuardedWrites ==
  ASSUME "admin" \notin Modules, NEW r, Guarded(r), r.op = "handled", ~r.user.admin
  PROVE  /\ r.page.section # "admin"
         /\ r.page.section \in Modules /\ r.page.write /\ (ActionGuard \/ r.page.destructive) =>
              \E a \in Guard!Writing : <<r.page.section, a>> \in r.rows
         /\ r.page.second # None /\ r.page.second[2] \in Guard!Writing =>
              \E a \in Guard!Writing : <<r.page.second[1], a>> \in r.rows
<1>1. Guard!check_access(r) /\ PassedAgain(r)
  BY DEF Guarded, Passed
<1>2. r.page.section # "admin"
  BY <1>1 DEF Guard!check_access, Guard!resolve_policy
<1>3. ASSUME r.page.section \in Modules, r.page.write, ActionGuard \/ r.page.destructive
      PROVE  \E a \in Guard!Writing : <<r.page.section, a>> \in r.rows
  BY <1>1, <1>3 DEF Guard!check_access, Guard!resolve_policy, Guard!required_write_action, Guard!has_permission, Guard!Writing
<1>4. ASSUME r.page.second # None, r.page.second[2] \in Guard!Writing
      PROVE  \E a \in Guard!Writing : <<r.page.second[1], a>> \in r.rows
  BY <1>1, <1>4 DEF PassedAgain, Guard!role_check, Guard!has_permission, Guard!Writing
<1> QED BY <1>2, <1>3, <1>4

(* Who is no administrator reaches no page of the administrator and writes *)
(* only where he holds a writing action: init_access_guard() and           *)
(* require_role(), while users and roles are edited.                       *)
THEOREM WritersAreGrantedAlways ==
  ASSUME "admin" \notin Modules PROVE Guard!Spec => []Guard!WritersAreGranted
<1>1. Guard!Init => AccessInv
  BY DEF Guard!Init, AccessInv, Guarded, Guard!Idle
<1>2. AccessInv /\ [Guard!Next]_(Guard!vars) => AccessInv'
  BY AccessStepKeeps
<1>3. AccessInv => Guard!WritersAreGranted
  BY GuardedWrites DEF AccessInv, Guard!WritersAreGranted
<1> QED BY <1>1, <1>2, <1>3, PTL DEF Guard!Spec

-----------------------------------------------------------------------------
(* Uploads.  A file is on the disk before a row names it; the size a row   *)
(* may name is that of the whole file.                                     *)

StoredFile == [size : Int, genuine : BOOLEAN]
Upload ==
  {Files!Idle} \cup [op : {"stream", "stored"}, file : Nat, sent : Files!Sent]

FilesOK ==
  /\ disk \in Seq(StoredFile)
  /\ named \subseteq DOMAIN disk
  /\ req \in [Threads -> Upload]

Uploading(w) == req[w] # Files!Idle
Whole(f) == disk[f].genuine /\ disk[f].size \in 1..Limit

(* What has been written so far was looked at: nothing of a file that is   *)
(* not genuine, nothing beyond the limit.                                  *)
Looked(w) ==
  /\ req[w].file \in DOMAIN disk
  /\ disk[req[w].file].size >= 0
  /\ disk[req[w].file].genuine = req[w].sent.genuine
  /\ disk[req[w].file].size > 0 => Whole(req[w].file)
  /\ req[w].op = "stored" => Whole(req[w].file)

(* No two requests work on one file, and none on a file that a row names.  *)
Apart ==
  /\ \A w \in Threads : Uploading(w) => req[w].file \notin named
  /\ \A v, w \in Threads : v # w /\ Uploading(v) /\ Uploading(w) => req[v].file # req[w].file

UploadsInv ==
  /\ FilesOK
  /\ \A w \in Threads : Uploading(w) => Looked(w)
  /\ \A f \in named : Whole(f)
  /\ Apart

-----------------------------------------------------------------------------

LEMMA UploadsInit == ASSUME Limit \in Nat, Files!Init PROVE UploadsInv
  BY DEF Files!Init, UploadsInv, FilesOK, Uploading, Apart, Upload

(* A new file has no rival: it comes after all there are.                  *)
LEMMA OpenKeeps ==
  ASSUME Limit \in Nat, UploadsInv, NEW w \in Threads, NEW sent \in Files!Sent, Files!Open(w, sent)
  PROVE  UploadsInv'
<1> DEFINE r == [op |-> "stream", file |-> Len(disk) + 1, sent |-> sent]
           new == [size |-> 0, genuine |-> sent.genuine]
<1> USE DEF StoredFile
<1>1. disk \in Seq(StoredFile) /\ new \in StoredFile /\ disk' = Append(disk, new)
  BY DEF UploadsInv, FilesOK, Files!Open, Files!Sent
<1>2. /\ DOMAIN disk' = DOMAIN disk \cup {Len(disk) + 1}
      /\ Len(disk) + 1 \notin DOMAIN disk
      /\ \A f \in DOMAIN disk : disk'[f] = disk[f]
      /\ disk'[Len(disk) + 1] = new
      /\ disk' \in Seq(StoredFile)
  BY <1>1
<1>3. req' = [req EXCEPT ![w] = r] /\ named' = named /\ r \in Upload /\ r # Files!Idle
  BY <1>1 DEF Files!Open, Upload, Files!Idle
<1>4. FilesOK'
  BY <1>2, <1>3 DEF UploadsInv, FilesOK
<1>5. \A v \in Threads : v # w => req'[v] = req[v]
  BY <1>3 DEF UploadsInv, FilesOK
<1>6. req'[w] = r
  BY <1>3 DEF UploadsInv, FilesOK
<1>7. ASSUME NEW v \in Threads, Uploading(v)' PROVE Looked(v)'
  <2>1. CASE v = w
    BY <2>1, <1>2, <1>6 DEF Looked, Whole
  <2>2. CASE v # w
    BY <2>2, <1>2, <1>5, <1>7 DEF Looked, Whole, Uploading, UploadsInv
  <2> QED BY <2>1, <2>2
<1>8. \A f \in named' : Whole(f)'
  BY <1>2, <1>3 DEF Whole, UploadsInv, FilesOK
<1>9. Apart'
  <2>1. \A v \in Threads : Uploading(v)' => req'[v].file \notin named'
    BY <1>2, <1>3, <1>5, <1>6 DEF Apart, Uploading, UploadsInv, FilesOK
  <2>2. \A v \in Threads : v # w /\ Uploading(v)' => req'[v].file \in DOMAIN disk
    BY <1>5 DEF UploadsInv, Looked, Uploading
  <2>3. \A u, v \in Threads :
          u # v /\ Uploading(u)' /\ Uploading(v)' => req'[u].file # req'[v].file
    BY <2>2, <1>2, <1>5, <1>6 DEF Apart, Uploading, UploadsInv
  <2> QED BY <2>1, <2>3 DEF Apart
<1> QED BY <1>4, <1>7, <1>8, <1>9 DEF UploadsInv

(* A request ends, and perhaps its file.                                   *)
LEMMA EndKeeps ==
  ASSUME Limit \in Nat, UploadsInv, NEW w \in Threads, Uploading(w),
         req' = [req EXCEPT ![w] = Files!Idle],
         \/ named' = named /\ disk' \in {disk, [disk EXCEPT ![req[w].file] = Files!Removed]}
         \/ named' = named \cup {req[w].file} /\ disk' = disk /\ req[w].op = "stored"
  PROVE  UploadsInv'
<1>1. \A v \in Threads : req'[v] = IF v = w THEN Files!Idle ELSE req[v]
  BY DEF UploadsInv, FilesOK
<1>2. req[w].file \in DOMAIN disk
  BY DEF UploadsInv, Looked
<1>3. /\ DOMAIN disk' = DOMAIN disk
      /\ disk' \in Seq(StoredFile)
      /\ \A f \in DOMAIN disk : f # req[w].file => disk'[f] = disk[f]
  <2>1. disk \in Seq(StoredFile) /\ Files!Removed \in StoredFile
    BY DEF UploadsInv, FilesOK, Files!Removed, StoredFile
  <2> QED BY <2>1, <1>2
<1>4. FilesOK'
  BY <1>2, <1>3 DEF UploadsInv, FilesOK, Upload
<1>5. ASSUME NEW v \in Threads, Uploading(v)' PROVE Looked(v)' /\ v # w
  <2>1. v # w /\ req'[v] = req[v] /\ Uploading(v)
    BY <1>1, <1>5 DEF Uploading
  <2>2. req[v].file \in DOMAIN disk /\ disk'[req[v].file] = disk[req[v].file]
    BY <2>1, <1>3 DEF UploadsInv, Looked, Apart
  <2> QED BY <2>1, <2>2, <1>3 DEF UploadsInv, Looked, Whole
<1>6. \A f \in named' : Whole(f)'
  <2>1. CASE named' = named
    BY <2>1, <1>3 DEF UploadsInv, FilesOK, Apart, Whole
  <2>2. CASE named' = named \cup {req[w].file} /\ disk' = disk /\ req[w].op = "stored"
    BY <2>2 DEF UploadsInv, Looked, Whole
  <2> QED BY <2>1, <2>2
<1>7. Apart'
  BY <1>1, <1>5 DEF UploadsInv, Apart, Uploading
<1> QED BY <1>4, <1>5, <1>6, <1>7 DEF UploadsInv

LEMMA WriteKeeps ==
  ASSUME Limit \in Nat, UploadsInv, NEW w \in Threads, Files!WriteChunk(w)
  PROVE  UploadsInv'
<1> DEFINE f == req[w].file
<1> DEFINE written == [disk[f] EXCEPT !.size = disk[f].size + 1]
<1>1. /\ Uploading(w) /\ f \in DOMAIN disk /\ disk \in Seq(StoredFile)
      /\ disk[f] \in StoredFile /\ disk[f].size >= 0
      /\ req' = req /\ named' = named
      /\ disk' = [disk EXCEPT ![f] = written]
  <2>1. Uploading(w) /\ disk \in Seq(StoredFile) /\ req' = req /\ named' = named
    BY DEF Files!WriteChunk, UploadsInv, FilesOK, Uploading, Files!Idle
  <2>2. f \in DOMAIN disk /\ disk[f].size >= 0
    BY <2>1 DEF UploadsInv, Looked
  <2>3. disk[f] \in StoredFile
    BY <2>1, <2>2
  <2>4. disk' = [disk EXCEPT ![f].size = @ + 1]
    BY Zenon DEF Files!WriteChunk
  <2>5. disk' = [disk EXCEPT ![f] = written]
    BY <2>4, Zenon
  <2> QED BY <2>1, <2>2, <2>3, <2>5
<1>a. written \in StoredFile /\ written.size = disk[f].size + 1 /\ written.genuine = disk[f].genuine
  <2>1. PICK n \in Int, b \in BOOLEAN : disk[f] = [size |-> n, genuine |-> b]
    BY <1>1 DEF StoredFile
  <2> QED BY <2>1 DEF StoredFile
<1> HIDE DEF written
<1>2. /\ DOMAIN disk' = DOMAIN disk /\ disk' \in Seq(StoredFile)
      /\ \A g \in DOMAIN disk : g # f => disk'[g] = disk[g]
      /\ disk'[f].size = disk[f].size + 1
      /\ disk'[f].genuine = disk[f].genuine
      /\ disk[f].size \in Int
  <2>1. /\ DOMAIN disk' = DOMAIN disk /\ disk' \in Seq(StoredFile)
        /\ \A g \in DOMAIN disk : g # f => disk'[g] = disk[g]
        /\ disk'[f] = written
    <3>1. disk' \in Seq(StoredFile) /\ DOMAIN disk' = DOMAIN disk
      BY <1>1, <1>a, ExceptSeq
    <3> QED BY <3>1, <1>1
  <2> QED BY <2>1, <1>1, <1>a DEF StoredFile
<1>3. Whole(f)'
  <2>1. disk[f].size + 1 <= Limit /\ (disk[f].size = 0 => req[w].sent.genuine)
    BY <1>2 DEF Files!WriteChunk, Files!Refused, Files!Written
  <2> QED BY <2>1, <1>1, <1>2 DEF Whole, UploadsInv, Looked
<1>4. FilesOK'
  BY <1>1, <1>2 DEF UploadsInv, FilesOK
<1>5. ASSUME NEW v \in Threads, Uploading(v)' PROVE Looked(v)'
  <2>1. CASE v = w
    BY <2>1, <1>1, <1>2, <1>3 DEF Looked, UploadsInv
  <2>2. CASE v # w
    BY <2>2, <1>1, <1>2, <1>5 DEF Looked, Whole, Uploading, UploadsInv, Apart
  <2> QED BY <2>1, <2>2
<1>6. \A g \in named' : Whole(g)'
  BY <1>1, <1>2 DEF UploadsInv, FilesOK, Apart, Whole
<1>7. Apart'
  BY <1>1 DEF UploadsInv, Apart, Uploading
<1> QED BY <1>4, <1>5, <1>6, <1>7 DEF UploadsInv

LEMMA StoredKeeps ==
  ASSUME Limit \in Nat, UploadsInv, NEW w \in Threads, Files!Stored(w)
  PROVE  UploadsInv'
<1>1. Uploading(w) /\ Looked(w) /\ req[w] \in Upload /\ req[w].op = "stream"
  BY DEF Files!Stored, UploadsInv, FilesOK, Uploading, Files!Idle
<1>2. req[w].sent.size \in Int /\ disk[req[w].file].size = req[w].sent.size
  BY <1>1 DEF Files!Stored, Files!Written, Upload, Files!Sent, Files!Idle
<1>3. Whole(req[w].file)
  <2>1. req[w].sent.size # 0
    BY <1>2 DEF Files!Stored, Files!Refused, Files!Written
  <2> QED BY <2>1, <1>1, <1>2 DEF Looked
<1>4. /\ req' = [req EXCEPT ![w].op = "stored"] /\ disk' = disk /\ named' = named
      /\ \A v \in Threads : req'[v] = IF v = w THEN [req[w] EXCEPT !.op = "stored"] ELSE req[v]
  BY DEF Files!Stored, UploadsInv, FilesOK
<1>5. /\ req'[w] \in Upload /\ req'[w].file = req[w].file /\ req'[w].sent = req[w].sent
      /\ req[w].file = req'[w].file
  BY <1>1, <1>4 DEF Upload, Files!Idle
<1>6. FilesOK'
  BY <1>4, <1>5 DEF UploadsInv, FilesOK
<1>7. ASSUME NEW v \in Threads, Uploading(v)' PROVE Looked(v)'
  <2>1. CASE v = w
    BY <2>1, <1>1, <1>3, <1>4, <1>5 DEF Looked, Whole
  <2>2. CASE v # w
    BY <2>2, <1>4, <1>7 DEF Looked, Whole, Uploading, UploadsInv
  <2> QED BY <2>1, <2>2
<1>8. \A f \in named' : Whole(f)'
  BY <1>4 DEF UploadsInv, Whole
<1>9. Apart'
  <2>1. \A v \in Threads : Uploading(v)' => Uploading(v) /\ req'[v].file = req[v].file
    BY <1>1, <1>4, <1>5 DEF Uploading
  <2> QED BY <2>1, <1>4 DEF UploadsInv, Apart
<1> QED BY <1>6, <1>7, <1>8, <1>9 DEF UploadsInv

LEMMA FilesCrashKeeps == ASSUME UploadsInv, Files!Crash PROVE UploadsInv'
  BY DEF Files!Crash, UploadsInv, FilesOK, Uploading, Apart, Whole, Upload

LEMMA UploadsStepKeeps == ASSUME Limit \in Nat, UploadsInv, [Files!Next]_(Files!vars) PROVE UploadsInv'
<1>1. ASSUME NEW w \in Threads, NEW sent \in Files!Sent, Files!Open(w, sent) PROVE UploadsInv'
  BY <1>1, OpenKeeps
<1>2. ASSUME NEW w \in Threads, Files!WriteChunk(w) PROVE UploadsInv'
  BY <1>2, WriteKeeps
<1>3. ASSUME NEW w \in Threads, Files!Refuse(w) PROVE UploadsInv'
  <2>1. Uploading(w)
    BY <1>3 DEF Files!Refuse, Uploading, Files!Idle
  <2> QED BY <2>1, <1>3, EndKeeps DEF Files!Refuse, Files!Finish
<1>4. ASSUME NEW w \in Threads, Files!Stored(w) PROVE UploadsInv'
  BY <1>4, StoredKeeps
<1>5. ASSUME NEW w \in Threads, Files!CommitExpense(w) PROVE UploadsInv'
  <2>1. Uploading(w)
    BY <1>5 DEF Files!CommitExpense, Uploading, Files!Idle
  <2> QED BY <2>1, <1>5, EndKeeps DEF Files!CommitExpense, Files!Finish
<1>6. CASE Files!Crash
  BY <1>6, FilesCrashKeeps
<1>7. CASE UNCHANGED Files!vars
  BY <1>7 DEF Files!vars, UploadsInv, FilesOK, Uploading, Looked, Whole, Apart
<1> QED BY <1>1, <1>2, <1>3, <1>4, <1>5, <1>6, <1>7 DEF Files!Next

LEMMA UploadsInvImplies == ASSUME UploadsInv PROVE Files!SoundAttachments
  BY DEF UploadsInv, FilesOK, Whole, Files!SoundAttachments, Files!expense_attachment, Files!Removed

(* A row never names what is left of an upload that was refused, cut short *)
(* or not finished: store_upload() and add_advanced_expense(), for any     *)
(* number of threads.                                                      *)
THEOREM SoundAttachmentsAlways == ASSUME Limit \in Nat PROVE Files!Spec => []Files!SoundAttachments
<1>1. Files!Init => UploadsInv
  BY UploadsInit
<1>2. UploadsInv /\ [Files!Next]_(Files!vars) => UploadsInv'
  BY UploadsStepKeeps
<1>3. UploadsInv => Files!SoundAttachments
  BY UploadsInvImplies
<1> QED BY <1>1, <1>2, <1>3, PTL DEF Files!Spec

-----------------------------------------------------------------------------
(* Messaging.  A page that has not committed holds its rows with it; what  *)
(* it will write as sent has been accepted already.                        *)

Answers == {"none", "sent", "failed"}
ListPage ==
  UNION {[page : Messages!Pages, list : {l}, answer : [l -> Answers]] : l \in SUBSET Contacts}
InAppPage == [page : {"in_app"}, list : SUBSET Contacts]

MessagesOK ==
  /\ due \subseteq Contacts
  /\ rows \in [Messages!Kinds -> [Contacts -> [Messages!Statuses -> Nat]]]
  /\ got \in [Messages!Kinds -> [Contacts -> Nat]]
  /\ req \in [Threads -> {Messages!Idle} \cup ListPage \cup InAppPage]
  /\ excused \in BOOLEAN

(* The sessions that hold a row of kind k that says c was written to.      *)
Holds(w, k, c) ==
  /\ req[w] \in ListPage
  /\ Messages!Kind(req[w].page) = k
  /\ c \in req[w].list /\ req[w].answer[c] = "sent"
Pending(k, c) == {w \in Threads : Holds(w, k, c)}

Backed(k, c) == rows[k][c]["sent"] + Cardinality(Pending(k, c)) <= got[k][c]

(* Nobody was reminded twice, and of whom the gateway has a reminder the   *)
(* table or the one page of reminders knows it.                            *)
Once ==
  /\ \A v, w \in Threads : Messages!InReminders(v) /\ Messages!InReminders(w) => v = w
  /\ \A c \in Contacts :
       /\ got["reminder"][c] <= 1
       /\ got["reminder"][c] = 1 =>
            c \in reminded \/ \E w \in Threads : Holds(w, "reminder", c)
  /\ \A w \in Threads, c \in Contacts :
       Messages!InReminders(w) /\ c \in req[w].list /\ req[w].answer[c] # "sent" =>
         got["reminder"][c] = 0

MessagesInv ==
  /\ MessagesOK
  /\ \A k \in {"reminder", "message"}, c \in Contacts : Backed(k, c)
  /\ ~excused => Once

LEMMA ListPageIs ==
  ASSUME NEW r
  PROVE  r \in ListPage <=>
           /\ r = [page |-> r.page, list |-> r.list, answer |-> r.answer]
           /\ r.page \in Messages!Pages /\ r.list \subseteq Contacts
           /\ r.answer \in [r.list -> Answers]
<1>1. ASSUME r \in ListPage
      PROVE  /\ r = [page |-> r.page, list |-> r.list, answer |-> r.answer]
             /\ r.page \in Messages!Pages /\ r.list \subseteq Contacts
             /\ r.answer \in [r.list -> Answers]
  <2>1. PICK l \in SUBSET Contacts :
          r \in [page : Messages!Pages, list : {l}, answer : [l -> Answers]]
    BY <1>1 DEF ListPage
  <2> QED BY <2>1
<1>2. ASSUME r = [page |-> r.page, list |-> r.list, answer |-> r.answer],
             r.page \in Messages!Pages, r.list \subseteq Contacts,
             r.answer \in [r.list -> Answers]
      PROVE  r \in ListPage
  <2>1. r \in [page : Messages!Pages, list : {r.list}, answer : [r.list -> Answers]]
    BY <1>2
  <2> QED BY <2>1, <1>2 DEF ListPage
<1> QED BY <1>1, <1>2

LEMMA PagesApart ==
  /\ Messages!Idle \notin ListPage
  /\ \A r \in InAppPage : r \notin ListPage /\ r.page = "in_app" /\ r # Messages!Idle
  /\ "in_app" \notin Messages!Pages /\ "none" \notin Messages!Pages
  /\ Messages!Idle.page = "none"
  /\ \A page \in Messages!Pages :
       /\ Messages!Kind(page) \in Messages!Kinds
       /\ Messages!Kind(page) = "trigger" <=> page = "trigger"
<1>1. "in_app" \notin Messages!Pages /\ "none" \notin Messages!Pages
  BY DEF Messages!Pages
<1>2. Messages!Idle.page = "none"
  BY DEF Messages!Idle
<1>3. \A r \in ListPage : r.page \in Messages!Pages
  BY ListPageIs
<1>4. \A r \in InAppPage : r.page = "in_app"
  BY DEF InAppPage
<1>5. \A page \in Messages!Pages :
       /\ Messages!Kind(page) \in Messages!Kinds
       /\ Messages!Kind(page) = "trigger" <=> page = "trigger"
  <2> DEFINE Right(page) == /\ Messages!Kind(page) \in Messages!Kinds
                            /\ Messages!Kind(page) = "trigger" <=> page = "trigger"
  <2>1. Right("reminders") /\ Right("panel_reminders")
    BY DEF Messages!Kind, Messages!Kinds
  <2>2. Right("sms") /\ Right("panel_bulk")
    BY DEF Messages!Kind, Messages!Kinds
  <2>3. Right("trigger")
    BY DEF Messages!Kind, Messages!Kinds
  <2> HIDE DEF Right
  <2>4. \A page \in Messages!Pages : Right(page)
    BY <2>1, <2>2, <2>3 DEF Messages!Pages
  <2> QED BY <2>4 DEF Right
<1> QED BY <1>1, <1>2, <1>3, <1>4, <1>5

LEMMA MessagesInit == Messages!Init => MessagesInv
<1> SUFFICES ASSUME Messages!Init PROVE MessagesInv
  OBVIOUS
<1>1. MessagesOK
  BY DEF Messages!Init, MessagesOK
<1>2. \A w \in Threads : req[w] = Messages!Idle /\ ~Messages!InReminders(w)
  BY PagesApart DEF Messages!Init, Messages!InReminders
<1>3. \A k, c : Pending(k, c) = {}
  BY <1>2, PagesApart DEF Pending, Holds
<1>4. ASSUME NEW k \in {"reminder", "message"}, NEW c \in Contacts PROVE Backed(k, c)
  <2>1. rows[k][c]["sent"] = 0 /\ got[k][c] = 0
    BY DEF Messages!Init, Messages!Kinds, Messages!Statuses
  <2>2. Cardinality(Pending(k, c)) = 0
    BY <1>3, FS_EmptySet, Zenon
  <2> QED BY <2>1, <2>2 DEF Backed
<1>5. Once
  BY <1>2 DEF Once, Messages!Init, Messages!Kinds
<1> QED BY <1>1, <1>4, <1>5 DEF MessagesInv

(* A step that neither gives a page new answers nor changes the tables:    *)
(* what w is in may change to a request that holds nothing yet.            *)
LEMMA PendingKept ==
  ASSUME MessagesOK, NEW w \in Threads, NEW r, req' = [req EXCEPT ![w] = r],
         ~\E k, c : Holds(w, k, c) \/ Holds(w, k, c)'
  PROVE  \A k, c : /\ Pending(k, c)' = Pending(k, c)
                   /\ \A v \in Threads : Holds(v, k, c)' <=> Holds(v, k, c)
<1>1. ASSUME NEW k, NEW c, NEW v \in Threads PROVE Holds(v, k, c)' <=> Holds(v, k, c)
  <2>1. CASE v = w
    BY <2>1
  <2>2. CASE v # w
    <3>1. req'[v] = req[v]
      BY <2>2 DEF MessagesOK
    <3> QED BY <3>1 DEF Holds
  <2> QED BY <2>1, <2>2
<1> QED BY <1>1 DEF Pending

LEMMA OpenKeepsMessages ==
  ASSUME MessagesInv, NEW w \in Threads, NEW page \in Messages!Pages,
         NEW list \in SUBSET Contacts, Messages!Open(w, page, list)
  PROVE  MessagesInv'
<1> DEFINE r == [page |-> page, list |-> list, answer |-> [c \in list |-> Messages!NoAnswer]]
<1>1. /\ MessagesOK
      /\ req[w] = Messages!Idle /\ req' = [req EXCEPT ![w] = r]
      /\ UNCHANGED <<due, rows, got, reminded>>
  BY DEF MessagesInv, Messages!Open
<1>2. r \in ListPage /\ r.page = page /\ r.list = list
      /\ \A c \in list : r.answer[c] = "none"
  BY ListPageIs DEF Answers, Messages!NoAnswer
<1>3. req'[w] = r /\ \A v \in Threads : v # w => req'[v] = req[v]
  BY <1>1 DEF MessagesOK
<1> HIDE DEF r
<1>4. ~\E k, c : Holds(w, k, c) \/ Holds(w, k, c)'
  BY <1>1, <1>2, <1>3, PagesApart DEF Holds
<1>5. \A k, c : /\ Pending(k, c)' = Pending(k, c)
                /\ \A v \in Threads : Holds(v, k, c)' <=> Holds(v, k, c)
  BY <1>1, <1>4, PendingKept
<1>6. MessagesOK'
  BY <1>1, <1>2 DEF MessagesOK, Messages!Open
<1>7. \A k \in {"reminder", "message"}, c \in Contacts : Backed(k, c)'
  BY <1>1, <1>5 DEF MessagesInv, Backed
<1>8. ASSUME ~excused' PROVE Once'
  <2>1. Once /\ ~excused
    BY <1>8 DEF MessagesInv, Messages!Open
  <2>2. \A v \in Threads : v # w => (Messages!InReminders(v)' <=> Messages!InReminders(v))
    BY <1>3 DEF Messages!InReminders
  <2>3. CASE Messages!Kind(page) # "reminder"
    <3>1. ~Messages!InReminders(w)' /\ ~Messages!InReminders(w)
      BY <2>3, <1>1, <1>2, <1>3, PagesApart DEF Messages!InReminders
    <3> QED BY <2>1, <2>2, <3>1, <1>1, <1>3, <1>5 DEF Once
  <2>4. CASE Messages!Kind(page) = "reminder"
    <3>1. \A v \in Threads : ~Messages!InReminders(v)
      BY <2>4, <1>8 DEF Messages!Open
    <3>2. \A v \in Threads : Messages!InReminders(v)' => v = w
      BY <3>1, <2>2
    <3>3. list = due \ reminded
      BY <2>4 DEF Messages!Open, Messages!ToRemind
    <3>4. ASSUME NEW c \in list PROVE got["reminder"][c] = 0
      <4>1. ~\E v \in Threads : Holds(v, "reminder", c)
        BY <3>1, ListPageIs DEF Holds, Messages!InReminders
      <4>2. c \in Contacts /\ got["reminder"][c] # 1 /\ got["reminder"][c] <= 1
        BY <4>1, <3>3, <2>1 DEF Once
      <4>3. got["reminder"][c] \in Nat
        BY <4>2, <1>1 DEF MessagesOK, Messages!Kinds
      <4> QED BY <4>2, <4>3
    <3> QED BY <2>1, <3>2, <3>4, <1>1, <1>2, <1>3, <1>5 DEF Once
  <2> QED BY <2>3, <2>4
<1> QED BY <1>6, <1>7, <1>8 DEF MessagesInv

(* A request that ends takes its rows with it.                             *)
LEMMA PendingDropped ==
  ASSUME MessagesOK, NEW w \in Threads, req' = [req EXCEPT ![w] = Messages!Idle]
  PROVE  /\ \A v \in Threads : v # w => req'[v] = req[v]
         /\ ~Messages!InReminders(w)'
         /\ \A v \in Threads : v # w => (Messages!InReminders(v)' <=> Messages!InReminders(v))
         /\ \A k, c : /\ Pending(k, c)' = Pending(k, c) \ {w}
                      /\ ~Holds(w, k, c)'
                      /\ \A v \in Threads : v # w => (Holds(v, k, c)' <=> Holds(v, k, c))
<1>1. req'[w] = Messages!Idle /\ \A v \in Threads : v # w => req'[v] = req[v]
  BY DEF MessagesOK
<1>2. \A k, c : ~Holds(w, k, c)'
  BY <1>1, PagesApart DEF Holds
<1>3. \A k, c : \A v \in Threads : v # w => (Holds(v, k, c)' <=> Holds(v, k, c))
  BY <1>1 DEF Holds
<1>4. \A k, c : Pending(k, c)' = Pending(k, c) \ {w}
  BY <1>2, <1>3 DEF Pending
<1>5. ~Messages!InReminders(w)'
  BY <1>1, PagesApart DEF Messages!InReminders
<1>6. \A v \in Threads : v # w => (Messages!InReminders(v)' <=> Messages!InReminders(v))
  BY <1>1 DEF Messages!InReminders
<1> QED BY <1>1, <1>2, <1>3, <1>4, <1>5, <1>6

LEMMA PendingFinite ==
  ASSUME IsFiniteSet(Threads), NEW k, NEW c, NEW w
  PROVE  /\ IsFiniteSet(Pending(k, c)) /\ Cardinality(Pending(k, c)) \in Nat
         /\ Cardinality(Pending(k, c) \ {w}) \in Nat
         /\ Cardinality(Pending(k, c) \ {w}) =
              IF w \in Pending(k, c) THEN Cardinality(Pending(k, c)) - 1
              ELSE Cardinality(Pending(k, c))
<1>1. IsFiniteSet(Pending(k, c))
  <2>1. Pending(k, c) \subseteq Threads
    BY DEF Pending
  <2> QED BY <2>1, FS_Subset
<1>2. /\ Cardinality(Pending(k, c)) \in Nat
      /\ IsFiniteSet(Pending(k, c) \ {w})
      /\ Cardinality(Pending(k, c) \ {w}) =
           IF w \in Pending(k, c) THEN Cardinality(Pending(k, c)) - 1
           ELSE Cardinality(Pending(k, c))
  BY <1>1, FS_CardinalityType, FS_RemoveElement
<1>3. Cardinality(Pending(k, c) \ {w}) \in Nat
  BY <1>2, FS_CardinalityType
<1> QED BY <1>1, <1>2, <1>3

LEMMA FailKeepsMessages ==
  ASSUME IsFiniteSet(Threads), MessagesInv, NEW w \in Threads, Messages!Fail(w)
  PROVE  MessagesInv'
<1>1. MessagesOK /\ req' = [req EXCEPT ![w] = Messages!Idle]
      /\ UNCHANGED <<due, rows, got, reminded>>
  BY DEF MessagesInv, Messages!Fail
<1>2. MessagesOK'
  BY <1>1 DEF MessagesOK, Messages!Fail
<1>3. ASSUME NEW k \in {"reminder", "message"}, NEW c \in Contacts PROVE Backed(k, c)'
  <2>1. rows[k][c]["sent"] \in Nat /\ got[k][c] \in Nat
    BY <1>1 DEF MessagesOK, Messages!Kinds, Messages!Statuses
  <2>2. Pending(k, c)' = Pending(k, c) \ {w}
    BY <1>1, PendingDropped
  <2>3. Backed(k, c)
    BY DEF MessagesInv
  <2> QED BY <1>1, <2>1, <2>2, <2>3, PendingFinite DEF Backed
<1>4. ASSUME ~excused' PROVE Once'
  <2>1. /\ Once
        /\ \A c : ~(Messages!InReminders(w) /\ c \in req[w].list /\ req[w].answer[c] = "sent")
    BY <1>4 DEF MessagesInv, Messages!Fail
  <2>2. \A c : ~Holds(w, "reminder", c)
    BY <2>1, ListPageIs DEF Holds, Messages!InReminders
  <2>3. \A c : \A v \in Threads : Holds(v, "reminder", c)' <=> Holds(v, "reminder", c)
    BY <1>1, <2>2, PendingDropped
  <2>4. \A c \in Contacts :
          /\ got'["reminder"][c] <= 1
          /\ got'["reminder"][c] = 1 =>
               c \in reminded' \/ \E v \in Threads : Holds(v, "reminder", c)'
    BY <1>1, <2>1, <2>3 DEF Once
  <2>5. \A v \in Threads : Messages!InReminders(v)' =>
          v # w /\ req'[v] = req[v] /\ Messages!InReminders(v)
    BY <1>1, PendingDropped
  <2>6. \A u, v \in Threads : Messages!InReminders(u)' /\ Messages!InReminders(v)' => u = v
    BY <2>1, <2>5 DEF Once
  <2>7. \A v \in Threads, c \in Contacts :
          Messages!InReminders(v)' /\ c \in req'[v].list /\ req'[v].answer[c] # "sent" =>
            got'["reminder"][c] = 0
    BY <1>1, <2>1, <2>5 DEF Once
  <2> QED BY <2>4, <2>6, <2>7 DEF Once
<1> QED BY <1>2, <1>3, <1>4 DEF MessagesInv

LEMMA SaveKeepsMessages ==
  ASSUME IsFiniteSet(Threads), MessagesInv, NEW w \in Threads, Messages!Save(w)
  PROVE  MessagesInv'
<1> DEFINE r == req[w]
           K == Messages!Kind(r.page)
<1>1. /\ MessagesOK /\ req' = [req EXCEPT ![w] = Messages!Idle]
      /\ due' = due /\ got' = got /\ excused' = excused
      /\ reminded' = reminded \cup Messages!Marked(r)
      /\ r.page \in Messages!Pages /\ Messages!Unsaved(r) = r.list
  BY DEF MessagesInv, Messages!Save
<1>2. r \in ListPage /\ K \in Messages!Kinds
  BY <1>1, PagesApart DEF MessagesOK
<1>3. ASSUME NEW k \in Messages!Kinds, NEW c \in Contacts
      PROVE  rows'[k][c]["sent"] =
               IF Holds(w, k, c) THEN rows[k][c]["sent"] + 1 ELSE rows[k][c]["sent"]
  BY <1>2 DEF Messages!Save, Messages!Statuses, Holds
<1>4. MessagesOK'
  <2>1. \A k \in Messages!Kinds, c \in Contacts, s \in Messages!Statuses : rows[k][c][s] \in Nat
    BY <1>1 DEF MessagesOK
  <2>2. rows' \in [Messages!Kinds -> [Contacts -> [Messages!Statuses -> Nat]]]
    BY <2>1 DEF Messages!Save
  <2> QED BY <2>2, <1>1 DEF MessagesOK
<1>5. ASSUME NEW k \in {"reminder", "message"}, NEW c \in Contacts PROVE Backed(k, c)'
  <2>1. k \in Messages!Kinds
    BY DEF Messages!Kinds
  <2>2. rows[k][c]["sent"] \in Nat /\ got[k][c] \in Nat
    BY <2>1, <1>1 DEF MessagesOK, Messages!Statuses
  <2>3. Pending(k, c)' = Pending(k, c) \ {w} /\ (w \in Pending(k, c) <=> Holds(w, k, c))
    BY <1>1, PendingDropped DEF Pending
  <2>4. Backed(k, c)
    BY DEF MessagesInv
  <2> QED BY <1>1, <1>3, <2>1, <2>2, <2>3, <2>4, PendingFinite DEF Backed
<1>6. ASSUME ~excused' PROVE Once'
  <2>1. Once
    BY <1>1, <1>6 DEF MessagesInv
  <2>2. \A c : Holds(w, "reminder", c) => c \in reminded'
    BY <1>1 DEF Holds, Messages!Marked
  <2>3. \A c : \A v \in Threads : Holds(v, "reminder", c) => v = w \/ Holds(v, "reminder", c)'
    BY <1>1, PendingDropped
  <2>4. \A c \in Contacts :
          /\ got'["reminder"][c] <= 1
          /\ got'["reminder"][c] = 1 =>
               c \in reminded' \/ \E v \in Threads : Holds(v, "reminder", c)'
    BY <1>1, <2>1, <2>2, <2>3 DEF Once
  <2>5. \A v \in Threads : Messages!InReminders(v)' =>
          v # w /\ req'[v] = req[v] /\ Messages!InReminders(v)
    BY <1>1, PendingDropped
  <2>6. \A u, v \in Threads : Messages!InReminders(u)' /\ Messages!InReminders(v)' => u = v
    BY <2>1, <2>5 DEF Once
  <2>7. \A v \in Threads, c \in Contacts :
          Messages!InReminders(v)' /\ c \in req'[v].list /\ req'[v].answer[c] # "sent" =>
            got'["reminder"][c] = 0
    BY <1>1, <2>1, <2>5 DEF Once
  <2> QED BY <2>4, <2>6, <2>7 DEF Once
<1> QED BY <1>4, <1>5, <1>6 DEF MessagesInv

(* A call of the gateway: w has an answer more, and the gateway has one    *)
(* message more if it accepted it.                                         *)
LEMMA SendKeepsMessages ==
  ASSUME IsFiniteSet(Threads), MessagesInv, NEW w \in Threads, NEW c \in Contacts,
         NEW accepted \in BOOLEAN, NEW ok \in BOOLEAN, Messages!Send(w, c, accepted, ok)
  PROVE  MessagesInv'
<1> DEFINE r == req[w]
           K == Messages!Kind(r.page)
           a == Messages!StatusOf(r.page, ok)
           new == [r EXCEPT !.answer = [r.answer EXCEPT ![c] = a]]
<1>1. /\ MessagesOK /\ r.page \in Messages!Pages /\ c \in r.list /\ r.answer[c] = "none"
      /\ ok => accepted
      /\ got' = [got EXCEPT ![K] = [got[K] EXCEPT ![c] =
           IF accepted THEN got[K][c] + 1 ELSE got[K][c]]]
      /\ req' = [req EXCEPT ![w].answer[c] = a]
      /\ due' = due /\ rows' = rows /\ reminded' = reminded
      /\ excused' = (excused \/ (accepted /\ ~ok))
  BY DEF MessagesInv, Messages!Send, Messages!NoAnswer
<1>2. r \in ListPage /\ K \in Messages!Kinds /\ (K = "trigger" <=> r.page = "trigger")
  BY <1>1, PagesApart DEF MessagesOK
<1>3. a \in {"sent", "failed"} /\ (K # "trigger" => (a = "sent" <=> ok))
  BY <1>2 DEF Messages!StatusOf
<1>4. req' = [req EXCEPT ![w] = new]
  BY <1>1
<1>5. /\ new \in ListPage /\ new.page = r.page /\ new.list = r.list /\ new.answer[c] = a
      /\ \A d \in r.list : d # c => new.answer[d] = r.answer[d]
  <2>1. /\ r = [page |-> r.page, list |-> r.list, answer |-> r.answer]
        /\ r.list \subseteq Contacts /\ r.answer \in [r.list -> Answers]
    BY <1>2, ListPageIs
  <2>2. new = [page |-> r.page, list |-> r.list, answer |-> [r.answer EXCEPT ![c] = a]]
    BY <2>1
  <2>3. [r.answer EXCEPT ![c] = a] \in [r.list -> Answers]
    BY <2>1, <1>3 DEF Answers
  <2>4. /\ new.page = r.page /\ new.list = r.list
        /\ new.answer = [r.answer EXCEPT ![c] = a]
    BY <2>2
  <2> HIDE DEF new, a, r
  <2>5. new \in ListPage
    BY <1>1, <2>1, <2>2, <2>3, <2>4, ListPageIs
  <2> QED BY <1>1, <2>1, <2>4, <2>5
<1>6. req'[w] = new /\ \A v \in Threads : v # w => req'[v] = req[v]
  BY <1>1, <1>4 DEF MessagesOK
<1>7. \A k \in Messages!Kinds, d \in Contacts :
        got'[k][d] = IF k = K /\ d = c /\ accepted THEN got[k][d] + 1 ELSE got[k][d]
  <2>1. got \in [Messages!Kinds -> [Contacts -> Nat]]
    BY <1>1 DEF MessagesOK
  <2> HIDE DEF K
  <2> QED BY <1>1, <1>2, <2>1
<1>8. MessagesOK'
  <2>1. got' \in [Messages!Kinds -> [Contacts -> Nat]]
    <3>1. got \in [Messages!Kinds -> [Contacts -> Nat]]
      BY <1>1 DEF MessagesOK
    <3> HIDE DEF K
    <3> QED BY <1>1, <1>2, <3>1
  <2> HIDE DEF new, r
  <2> QED BY <1>1, <1>4, <1>5, <2>1 DEF MessagesOK
<1> HIDE DEF new, a, r, K
<1>9. \A k, d : Holds(w, k, d)' <=> Holds(w, k, d) \/ (k = K /\ d = c /\ a = "sent")
  <2>1. \A k, d : Holds(w, k, d) <=> K = k /\ d \in r.list /\ r.answer[d] = "sent"
    BY <1>2 DEF Holds, r, K
  <2>2. \A k, d : Holds(w, k, d)' <=> K = k /\ d \in r.list /\ new.answer[d] = "sent"
    <3>1. Messages!Kind(new.page) = K
      BY <1>5 DEF K
    <3> QED BY <1>5, <1>6, <3>1 DEF Holds
  <2> QED BY <1>1, <1>3, <1>5, <2>1, <2>2
<1>10. \A k, d : \A v \in Threads : v # w => (Holds(v, k, d)' <=> Holds(v, k, d))
  BY <1>6 DEF Holds
<1>11. \A k, d : Pending(k, d)' =
         IF k = K /\ d = c /\ a = "sent" THEN Pending(k, d) \cup {w} ELSE Pending(k, d)
  BY <1>9, <1>10 DEF Pending
<1>12. ASSUME NEW k \in {"reminder", "message"}, NEW d \in Contacts PROVE Backed(k, d)'
  <2>1. k \in Messages!Kinds /\ k # "trigger"
    BY DEF Messages!Kinds
  <2>2. rows[k][d]["sent"] \in Nat /\ got[k][d] \in Nat
    BY <2>1, <1>1 DEF MessagesOK, Messages!Statuses
  <2>3. Backed(k, d) /\ Cardinality(Pending(k, d)) \in Nat /\ IsFiniteSet(Pending(k, d))
    BY PendingFinite DEF MessagesInv
  <2>4. CASE k = K /\ d = c /\ a = "sent"
    <3>1. accepted
      BY <1>1, <1>3, <2>1, <2>4
    <3>2. w \notin Pending(k, d)
      BY <1>1, <2>4 DEF Pending, Holds, r
    <3>3. Cardinality(Pending(k, d)') = Cardinality(Pending(k, d)) + 1
      BY <1>11, <2>3, <2>4, <3>2, FS_AddElement
    <3>4. got'[k][d] = got[k][d] + 1 /\ rows' = rows
      BY <1>1, <1>7, <2>1, <2>4, <3>1
    <3> QED BY <2>2, <2>3, <3>3, <3>4 DEF Backed
  <2>5. CASE ~(k = K /\ d = c /\ a = "sent")
    <3>1. Pending(k, d)' = Pending(k, d)
      BY <1>11, <2>5
    <3>2. got'[k][d] >= got[k][d] /\ rows' = rows
      BY <1>1, <1>7, <2>1, <2>2
    <3>3. got'[k][d] \in Nat
      BY <1>8, <2>1 DEF MessagesOK
    <3> QED BY <2>2, <2>3, <3>1, <3>2, <3>3 DEF Backed
  <2> QED BY <2>4, <2>5
<1>13. ASSUME ~excused' PROVE Once'
  <2>1. Once /\ (accepted <=> ok) /\ "reminder" \in Messages!Kinds /\ "reminder" # "trigger"
    BY <1>1, <1>13 DEF MessagesInv, Messages!Kinds
  <2>2. \A v \in Threads : Messages!InReminders(v)' <=> Messages!InReminders(v)
    <3>1. Messages!InReminders(w)' <=> Messages!InReminders(w)
      BY <1>5, <1>6 DEF Messages!InReminders, r
    <3>2. \A v \in Threads : v # w => (Messages!InReminders(v)' <=> Messages!InReminders(v))
      BY <1>6 DEF Messages!InReminders
    <3> QED BY <3>1, <3>2
  <2>3. K = "reminder" => Messages!InReminders(w) /\ got["reminder"][c] = 0
    <3>1. K = "reminder" => Messages!InReminders(w)
      BY <1>1 DEF Messages!InReminders, K, r
    <3> QED BY <1>1, <2>1, <3>1 DEF Once, r
  <2>4. ASSUME NEW d \in Contacts
        PROVE  /\ got'["reminder"][d] <= 1
               /\ got'["reminder"][d] = 1 =>
                    d \in reminded' \/ \E v \in Threads : Holds(v, "reminder", d)'
    <3>1. CASE K = "reminder" /\ d = c /\ accepted
      <4>1. got'["reminder"][d] = 1
        BY <1>7, <2>1, <2>3, <3>1
      <4>2. Holds(w, "reminder", d)'
        BY <1>3, <1>9, <2>1, <3>1
      <4> QED BY <4>1, <4>2
    <3>2. CASE ~(K = "reminder" /\ d = c /\ accepted)
      <4>1. got'["reminder"][d] = got["reminder"][d]
        BY <1>7, <2>1, <3>2
      <4> QED BY <1>1, <1>9, <1>10, <2>1, <4>1 DEF Once
    <3> QED BY <3>1, <3>2
  <2>5. ASSUME NEW v \in Threads, NEW d \in Contacts,
               Messages!InReminders(v)', d \in req'[v].list, req'[v].answer[d] # "sent"
        PROVE  got'["reminder"][d] = 0
    <3>1. CASE v = w
      <4>1. Messages!InReminders(w) /\ K = "reminder"
        BY <2>2, <2>5, <3>1 DEF Messages!InReminders, K, r
      <4>2. d \in r.list /\ new.answer[d] # "sent"
        BY <1>5, <1>6, <2>5, <3>1
      <4>3. CASE d = c
        BY <1>3, <1>5, <1>7, <2>1, <2>3, <4>1, <4>2, <4>3
      <4>4. CASE d # c
        <5>1. got["reminder"][d] = 0
          BY <1>5, <2>1, <4>1, <4>2, <4>4 DEF Once, r
        <5> QED BY <1>7, <2>1, <4>4, <5>1
      <4> QED BY <4>3, <4>4
    <3>2. CASE v # w
      <4>1. Messages!InReminders(v) /\ d \in req[v].list /\ req[v].answer[d] # "sent"
        BY <1>6, <2>2, <2>5, <3>2
      <4>2. K # "reminder"
        BY <2>1, <2>3, <3>2, <4>1 DEF Once
      <4> QED BY <1>7, <2>1, <4>1, <4>2 DEF Once
    <3> QED BY <3>1, <3>2
  <2> QED BY <2>1, <2>2, <2>4, <2>5 DEF Once
<1> QED BY <1>8, <1>12, <1>13 DEF MessagesInv

(* The notes inside the program: no rows, no gateway.                      *)
LEMMA InAppKeepsMessages ==
  ASSUME IsFiniteSet(Threads), MessagesInv, NEW w \in Threads, NEW r,
         r \in InAppPage \/ r = Messages!Idle,
         req[w].page \notin Messages!Pages, req' = [req EXCEPT ![w] = r],
         UNCHANGED <<due, rows, got, excused>>, reminded \subseteq reminded'
  PROVE  MessagesInv'
<1>1. MessagesOK /\ r \notin ListPage /\ r.page \notin Messages!Pages /\ req[w] \notin ListPage
  BY PagesApart, ListPageIs DEF MessagesInv
<1>2. req'[w] = r /\ \A v \in Threads : v # w => req'[v] = req[v]
  BY <1>1 DEF MessagesOK
<1>3. ~\E k, c : Holds(w, k, c) \/ Holds(w, k, c)'
  BY <1>1, <1>2 DEF Holds
<1>4. \A k, c : /\ Pending(k, c)' = Pending(k, c)
                /\ \A v \in Threads : Holds(v, k, c)' <=> Holds(v, k, c)
  BY <1>1, <1>3, PendingKept
<1>5. MessagesOK'
  BY <1>1 DEF MessagesOK
<1>6. \A k \in {"reminder", "message"}, c \in Contacts : Backed(k, c)'
  BY <1>4 DEF MessagesInv, Backed
<1>7. \A v \in Threads : Messages!InReminders(v)' =>
        v # w /\ req'[v] = req[v] /\ Messages!InReminders(v)
  BY <1>1, <1>2 DEF Messages!InReminders
<1>8. ASSUME ~excused' PROVE Once'
  <2>1. Once
    BY <1>8 DEF MessagesInv
  <2> QED BY <2>1, <1>4, <1>7 DEF Once
<1> QED BY <1>5, <1>6, <1>8 DEF MessagesInv

(* An installment falls due, is settled, or opens again.                   *)
LEMMA ChangeKeepsMessages ==
  ASSUME MessagesInv, due' \subseteq Contacts,
         UNCHANGED <<reminded, rows, got, req, excused>>
  PROVE  MessagesInv'
<1>1. \A k, c : \A w \in Threads : Holds(w, k, c)' <=> Holds(w, k, c)
  BY DEF Holds
<1>2. \A k, c : Pending(k, c)' = Pending(k, c)
  BY <1>1 DEF Pending
<1>3. \A w \in Threads : Messages!InReminders(w)' <=> Messages!InReminders(w)
  BY DEF Messages!InReminders
<1>4. Once => Once'
  BY <1>1, <1>3 DEF Once
<1>5. \A k, c : Backed(k, c) => Backed(k, c)'
  BY <1>2 DEF Backed
<1> QED BY <1>4, <1>5 DEF MessagesInv, MessagesOK

LEMMA MessagesStepKeeps ==
  ASSUME IsFiniteSet(Threads), MessagesInv, [Messages!Next]_(Messages!vars)
  PROVE  MessagesInv'
<1>1. ASSUME NEW w \in Threads, NEW page \in Messages!Pages, NEW list \in SUBSET Contacts,
             Messages!Open(w, page, list)
      PROVE  MessagesInv'
  BY <1>1, OpenKeepsMessages
<1>2. ASSUME NEW w \in Threads, NEW c \in Contacts, NEW accepted \in BOOLEAN,
             NEW ok \in BOOLEAN, Messages!Send(w, c, accepted, ok)
      PROVE  MessagesInv'
  BY <1>2, SendKeepsMessages
<1>3. ASSUME NEW w \in Threads, Messages!Save(w) PROVE MessagesInv'
  BY <1>3, SaveKeepsMessages
<1>4. ASSUME NEW w \in Threads, Messages!Fail(w) PROVE MessagesInv'
  BY <1>4, FailKeepsMessages
<1>5. due \subseteq Contacts
  BY DEF MessagesInv, MessagesOK
<1>6. ASSUME NEW w \in Threads, Messages!OpenInApp(w) PROVE MessagesInv'
  <2> DEFINE r == [page |-> "in_app", list |-> due]
  <2>1. r \in InAppPage
    BY <1>5 DEF InAppPage
  <2>2. /\ req[w].page \notin Messages!Pages /\ req' = [req EXCEPT ![w] = r]
        /\ UNCHANGED <<due, rows, got, excused>> /\ reminded \subseteq reminded'
    BY <1>6, PagesApart DEF Messages!OpenInApp
  <2> HIDE DEF r
  <2> QED BY <2>1, <2>2, InAppKeepsMessages
<1>7. ASSUME NEW w \in Threads, Messages!SaveInApp(w) PROVE MessagesInv'
  <2>1. /\ req[w].page \notin Messages!Pages /\ req' = [req EXCEPT ![w] = Messages!Idle]
        /\ UNCHANGED <<due, rows, got, excused>> /\ reminded \subseteq reminded'
    BY <1>7, PagesApart DEF Messages!SaveInApp
  <2> QED BY <2>1, InAppKeepsMessages
<1>8. ASSUME NEW c \in Contacts, Messages!Change(c) PROVE MessagesInv'
  <2>1. due' \subseteq Contacts /\ UNCHANGED <<reminded, rows, got, req, excused>>
    BY <1>5, <1>8 DEF Messages!Change
  <2> QED BY <2>1, ChangeKeepsMessages
<1>9. CASE UNCHANGED Messages!vars
  <2>1. due' \subseteq Contacts /\ UNCHANGED <<reminded, rows, got, req, excused>>
    BY <1>5, <1>9 DEF Messages!vars
  <2> QED BY <2>1, ChangeKeepsMessages
<1> QED BY <1>1, <1>2, <1>3, <1>4, <1>6, <1>7, <1>8, <1>9 DEF Messages!Next

LEMMA MessagesInvImplies ==
  ASSUME IsFiniteSet(Threads), MessagesInv
  PROVE  Messages!NoFalseSent /\ Messages!RemindedOnce
<1>1. ASSUME NEW k \in {"reminder", "message"}, NEW c \in Contacts
      PROVE  rows[k][c]["sent"] <= got[k][c]
  <2>1. rows[k][c]["sent"] \in Nat /\ got[k][c] \in Nat
    BY DEF MessagesInv, MessagesOK, Messages!Kinds, Messages!Statuses
  <2>3. Cardinality(Pending(k, c)) \in Nat
    BY PendingFinite
  <2>2. Backed(k, c)
    BY DEF MessagesInv
  <2> QED BY <2>3, <2>1, <2>2 DEF Backed
<1> QED BY <1>1 DEF Messages!NoFalseSent, Messages!RemindedOnce, MessagesInv, Once

-----------------------------------------------------------------------------
(* MCOffice: a behaviour of a component is one of its specification.       *)

LEMMA MessagesPart ==
  ASSUME IsFiniteSet(Threads)
  PROVE  /\ MCInit /\ part = "messages" => MessagesInv
         /\ (part = "messages" => MessagesInv) /\ [MCNext]_mcvars
              => (part = "messages" => MessagesInv)'
<1>1. ASSUME MCInit, part = "messages" PROVE MessagesInv
  BY <1>1, MessagesInit DEF MCInit
<1>2. ASSUME part = "messages" => MessagesInv, [MCNext]_mcvars, part' = "messages"
      PROVE  MessagesInv'
  <2>1. CASE UNCHANGED mcvars
    <3>1. MessagesInv /\ UNCHANGED Messages!vars
      BY <1>2, <2>1 DEF mcvars, messaging, Messages!vars
    <3> QED BY <3>1, MessagesStepKeeps
  <2>2. CASE MCNext
    <3>1. part = "messages" /\ MessagesInv
      BY <1>2, <2>2 DEF MCNext
    <3>2. [Messages!Next]_(Messages!vars)
      BY <2>2, <3>1 DEF MCNext, MessagesStep, Rest, Others, messaging, Messages!vars
    <3> QED BY <3>1, <3>2, MessagesStepKeeps
  <2> QED BY <1>2, <2>1, <2>2
<1> QED BY <1>1, <1>2

(* What is recorded as sent was accepted by the gateway, but for the       *)
(* trigger pages: however many pages send at once, wherever they stop.     *)
THEOREM NoFalseSentAlways == ASSUME IsFiniteSet(Threads) PROVE MCSpec => []NoFalseSent
<1> DEFINE Inv == part = "messages" => MessagesInv
<1>1. MCInit => Inv
  BY MessagesPart
<1>2. Inv /\ [MCNext]_mcvars => Inv'
  BY MessagesPart
<1>3. Inv => NoFalseSent
  BY MessagesInvImplies DEF NoFalseSent
<1> QED BY <1>1, <1>2, <1>3, PTL DEF MCSpec

(* A student is reminded once of an installment, unless an answer got      *)
(* lost, a request was cut short, or two runs overlapped: reminder_sent is *)
(* written in time for the next run.                                       *)
THEOREM RemindedOnceAlways == ASSUME IsFiniteSet(Threads) PROVE MCSpec => []RemindedOnce
<1> DEFINE Inv == part = "messages" => MessagesInv
<1>1. MCInit => Inv
  BY MessagesPart
<1>2. Inv /\ [MCNext]_mcvars => Inv'
  BY MessagesPart
<1>3. Inv => RemindedOnce
  BY MessagesInvImplies DEF RemindedOnce
<1> QED BY <1>1, <1>2, <1>3, PTL DEF MCSpec

-----------------------------------------------------------------------------
(* Poller.  While a worker is about to write the file nobody polls: the    *)
(* pid in the file belonged to nobody when it was looked at, and nobody    *)
(* else has started to boot since.                                         *)

Boots(w) == pc[w] \in {"boot", "open", "write"}

PollerOK ==
  /\ pid \in [Threads -> Pids \cup {Nobody}]
  /\ pc \in [Threads -> {"down", "boot", "open", "write", "polling", "off"}]
  /\ others \subseteq Pids
  /\ \A w \in Threads : pid[w] = Nobody <=> pc[w] = "down"
  /\ \A v, w \in Threads : v # w /\ pid[v] # Nobody => pid[v] # pid[w]
  /\ \A w \in Threads : pid[w] \notin others

OneBoot == \A v, w \in Threads : Boots(v) /\ Boots(w) => v = w

Named ==
  /\ \A w \in Threads : pc[w] = "polling" => file = pid[w]
  /\ \A v, w \in Threads : pc[v] \in {"open", "write"} => pc[w] # "polling"

PollerInv == PollerOK /\ (alone => OneBoot /\ Named)

LEMMA PollerStart ==
  ASSUME Nobody \notin Pids, OneOfMany!Init PROVE PollerInv
BY DEF OneOfMany!Init, PollerInv, PollerOK, OneBoot, Named, Boots

(* At most one member: any two are the same.                               *)
LEMMA AtMostOne ==
  ASSUME NEW S, IsFiniteSet(S)
  PROVE  Cardinality(S) <= 1 <=> \A x, y \in S : x = y
<1>1. ASSUME Cardinality(S) <= 1, NEW x \in S, NEW y \in S, x # y PROVE FALSE
  <2>1. IsFiniteSet({x}) /\ Cardinality({x}) = 1
    BY FS_Singleton
  <2>2. Cardinality({x} \cup {y}) = 2
    <3>1. y \notin {x}
      BY <1>1
    <3>2. Cardinality({x} \cup {y}) = Cardinality({x}) + 1
      BY <2>1, <3>1, FS_AddElement
    <3> QED BY <2>1, <3>2
  <2>3. Cardinality({x} \cup {y}) <= Cardinality(S)
    <3>1. ({x} \cup {y}) \subseteq S
      OBVIOUS
    <3> QED BY <3>1, FS_Subset
  <2>4. Cardinality(S) \in Nat
    BY FS_CardinalityType
  <2> QED BY <1>1, <2>2, <2>3, <2>4
<1>2. ASSUME \A x, y \in S : x = y PROVE Cardinality(S) <= 1
  <2>1. CASE S = {}
    BY <2>1, FS_EmptySet
  <2>2. ASSUME NEW x \in S PROVE Cardinality(S) <= 1
    <3>1. S = {x}
      BY <1>2
    <3> QED BY <3>1, FS_Singleton
  <2> QED BY <2>1, <2>2
<1> QED BY <1>1, <1>2

LEMMA PollerTypeKept ==
  ASSUME Nobody \notin Pids, PollerOK, [OneOfMany!Next]_(OneOfMany!vars)
  PROVE  PollerOK'
<1>1. ASSUME NEW w \in Threads, OneOfMany!start_bale(w) PROVE PollerOK'
  <2>1. PICK p \in Pids \ OneOfMany!Alive :
          /\ pid' = [pid EXCEPT ![w] = p] /\ pc' = [pc EXCEPT ![w] = "boot"]
          /\ others' = others
    BY <1>1 DEF OneOfMany!start_bale
  <2>2. p # Nobody /\ p \notin others /\ \A v \in Threads : pid[v] # p
    BY <2>1 DEF OneOfMany!Alive
  <2> QED BY <2>1, <2>2 DEF PollerOK
<1>2. ASSUME NEW w \in Threads, OneOfMany!Exit(w) PROVE PollerOK'
  BY <1>2 DEF OneOfMany!Exit, PollerOK
<1>3. ASSUME NEW p \in Pids, OneOfMany!OtherProgram(p) PROVE PollerOK'
  BY <1>3 DEF OneOfMany!OtherProgram, OneOfMany!Alive, PollerOK
<1>4. ASSUME NEW w \in Threads,
             \/ OneOfMany!NotLicensed(w) \/ OneOfMany!LookAtOwner(w)
             \/ OneOfMany!Truncate(w) \/ OneOfMany!WriteOwner(w)
      PROVE  PollerOK'
  <2>1. PICK s \in {"off", "open", "write", "polling"} : pc' = [pc EXCEPT ![w] = s]
    BY <1>4 DEF OneOfMany!NotLicensed, OneOfMany!LookAtOwner, OneOfMany!Truncate,
                OneOfMany!WriteOwner
  <2>2. pc[w] # "down" /\ UNCHANGED <<pid, others>>
    BY <1>4 DEF OneOfMany!NotLicensed, OneOfMany!LookAtOwner, OneOfMany!Truncate,
                OneOfMany!WriteOwner
  <2> QED BY <2>1, <2>2 DEF PollerOK
<1>5. CASE UNCHANGED OneOfMany!vars
  BY <1>5 DEF OneOfMany!vars, PollerOK
<1> QED BY <1>1, <1>2, <1>3, <1>4, <1>5 DEF OneOfMany!Next

(* _acquire_single_instance(): the one that boots goes on only if nobody   *)
(* polls, since whoever polls is named in the file and alive.              *)
LEMMA NamedKept ==
  ASSUME Nobody \notin Pids, PollerOK, OneBoot, Named, [OneOfMany!Next]_(OneOfMany!vars)
  PROVE  Named'
<1>1. ASSUME NEW w \in Threads, OneOfMany!start_bale(w) PROVE Named'
  BY <1>1 DEF OneOfMany!start_bale, PollerOK, Named
<1>2. ASSUME NEW w \in Threads, OneOfMany!Exit(w) PROVE Named'
  BY <1>2 DEF OneOfMany!Exit, PollerOK, Named
<1>3. ASSUME NEW w \in Threads, OneOfMany!NotLicensed(w) PROVE Named'
  BY <1>3 DEF OneOfMany!NotLicensed, PollerOK, Named
<1>4. ASSUME NEW w \in Threads, OneOfMany!LookAtOwner(w) PROVE Named'
  <2>1. \A v \in Threads : pc[v] = "polling" => file \in OneOfMany!Alive
    BY DEF Named, PollerOK, OneOfMany!Alive
  <2> QED BY <1>4, <2>1 DEF OneOfMany!LookAtOwner, PollerOK, Named
<1>5. ASSUME NEW w \in Threads, OneOfMany!Truncate(w) PROVE Named'
  BY <1>5 DEF OneOfMany!Truncate, PollerOK, Named
<1>6. ASSUME NEW w \in Threads, OneOfMany!WriteOwner(w) PROVE Named'
  BY <1>6 DEF OneOfMany!WriteOwner, PollerOK, Named, OneBoot, Boots
<1>7. ASSUME NEW p \in Pids, OneOfMany!OtherProgram(p) PROVE Named'
  BY <1>7 DEF OneOfMany!OtherProgram, Named
<1>8. CASE UNCHANGED OneOfMany!vars
  BY <1>8 DEF OneOfMany!vars, Named
<1> QED BY <1>1, <1>2, <1>3, <1>4, <1>5, <1>6, <1>7, <1>8 DEF OneOfMany!Next

(* The instance's operator is the library's.                               *)
LEMMA PollerCardinality == \A S : OneOfMany!Cardinality(S) = Cardinality(S)
  BY Zenon DEF OneOfMany!Cardinality, Cardinality

LEMMA PollerInvImplies ==
  ASSUME IsFiniteSet(Threads), PollerInv, alone PROVE OneOfMany!OnePoller
<1>1. IsFiniteSet(OneOfMany!Polling)
  BY FS_Subset DEF OneOfMany!Polling
<1>2. \A v, w \in OneOfMany!Polling : v = w
  BY DEF OneOfMany!Polling, PollerInv, PollerOK, Named
<1>3. OneOfMany!Cardinality(OneOfMany!Polling) <= 1
  BY <1>1, <1>2, AtMostOne, PollerCardinality
<1>4. \A w \in OneOfMany!Polling : file = pid[w]
  BY DEF OneOfMany!Polling, PollerInv, Named
<1> QED BY <1>3, <1>4 DEF OneOfMany!OnePoller

-----------------------------------------------------------------------------
(* Desktop.                                                                *)

ShellState ==
  [stage : {"off", "port", "create", "wait", "probe", "window", "ending"},
   locked : BOOLEAN, port : Int,
   server : {"none", "starting", "serving", "failed", "stopped"}, event : BOOLEAN,
   error : BOOLEAN, late : BOOLEAN, said : {Nobody, "ready", "failed"}, fails : Int]

Owners == [Ports -> Threads \cup {Nobody, Other}]

(* A server that serves is bound to its port, and nobody is who does not;  *)
(* the event tells that the bind was tried; what main() reads of the       *)
(* server when it stops waiting holds until the window is left; and who    *)
(* asked for the lock has it.                                              *)
Fits(x, s, who, hold) ==
  /\ x.server = "serving" <=> \E p \in Ports : who[p] = s
  /\ x.server = "serving" => who[x.port] = s
  /\ x.server \in {"starting", "serving"} \/ x.stage = "create" => x.port \in Ports
  /\ x.stage \in {"off", "port", "create"} => x.server = "none" /\ ~x.event
  /\ x.stage \in {"wait", "probe", "window"} =>
       /\ x.server \in {"starting", "serving", "failed"}
       /\ x.event <=> x.server # "starting"
  /\ x.stage \in {"probe", "window"} /\ ~x.late =>
       /\ x.event
       /\ ~x.error => x.server = "serving"
  /\ x.stage = "window" /\ x.said = "ready" => ~x.error
  /\ x.locked => hold = s

DesktopInv ==
  /\ shell \in [Threads -> ShellState]
  /\ owner \in Owners
  /\ \A s \in Threads : Fits(shell[s], s, owner, held)

(* Which names the program, the lock and the ports are known by.           *)
NamesApart == Nobody \notin Threads /\ Other \notin Threads /\ Ports \subseteq Nat

LEMMA OffFits ==
  /\ Window!Off \in ShellState
  /\ \A s, who, hold : (\A p \in Ports : who[p] # s) => Fits(Window!Off, s, who, hold)
<1>1. Window!Off \in ShellState
  BY DEF Window!Off, ShellState
<1>2. /\ Window!Off.stage = "off" /\ Window!Off.server = "none" /\ Window!Off.event = FALSE
      /\ Window!Off.locked = FALSE
  BY DEF Window!Off
<1>3. \A s, who, hold : (\A p \in Ports : who[p] # s) => Fits(Window!Off, s, who, hold)
  BY <1>2 DEF Fits
<1> QED BY <1>1, <1>3

LEMMA DesktopInit == ASSUME NamesApart, Window!Init PROVE DesktopInv
<1>1. \A p \in Ports, s \in Threads : owner[p] # s
  BY DEF NamesApart, Window!Init
<1> QED BY <1>1, OffFits DEF Window!Init, DesktopInv, Owners

(* A step of the shell s leaves the others alone, if it takes neither      *)
(* their ports nor their lock.                                             *)
LEMMA ShellStep ==
  ASSUME DesktopInv, NEW s \in Threads, NEW x \in ShellState,
         shell' = [shell EXCEPT ![s] = x], owner' \in Owners,
         \A t \in Threads \ {s}, p \in Ports : owner'[p] = t <=> owner[p] = t,
         \A t \in Threads \ {s} : held = t => held' = t,
         Fits(x, s, owner', held')
  PROVE  DesktopInv'
<1>1. shell \in [Threads -> ShellState]
  BY DEF DesktopInv
<1>2. ASSUME NEW t \in Threads PROVE Fits(shell'[t], t, owner', held')
  <2>1. CASE t = s
    BY <1>1, <2>1
  <2>2. CASE t # s
    <3>1. shell'[t] = shell[t] /\ Fits(shell[t], t, owner, held)
      BY <1>1, <2>2 DEF DesktopInv
    <3>2. t \in Threads \ {s}
      BY <2>2
    <3>3. (\E p \in Ports : owner'[p] = t) <=> \E p \in Ports : owner[p] = t
      BY <3>2
    <3>4. shell[t].port \in Ports => (owner'[shell[t].port] = t <=> owner[shell[t].port] = t)
      BY <3>2
    <3>5. held = t => held' = t
      BY <3>2
    <3> QED BY <3>1, <3>3, <3>4, <3>5 DEF Fits
  <2> QED BY <2>1, <2>2
<1> QED BY <1>1, <1>2 DEF DesktopInv

(* A step that binds or frees nothing.                                     *)
LEMMA QuietShellStep ==
  ASSUME DesktopInv, NEW s \in Threads, NEW x \in ShellState,
         shell' = [shell EXCEPT ![s] = x], UNCHANGED <<owner, held>>,
         Fits(x, s, owner, held)
  PROVE  DesktopInv'
<1>1. owner' \in Owners
  BY DEF DesktopInv
<1> QED BY <1>1, ShellStep

(* The ports of a program that is gone are free.                           *)
LEMMA FreedPorts ==
  ASSUME NamesApart, owner \in Owners, NEW s \in Threads, Window!Free(s)
  PROVE  /\ owner' \in Owners
         /\ \A p \in Ports : owner'[p] # s
         /\ \A t \in Threads \ {s}, p \in Ports : owner'[p] = t <=> owner[p] = t
  BY DEF NamesApart, Owners, Window!Free

LEMMA LeaveKeeps ==
  ASSUME NamesApart, DesktopInv, NEW s \in Threads, Window!Leave(s)
  PROVE  DesktopInv'
<1>1. /\ owner' \in Owners
      /\ \A p \in Ports : owner'[p] # s
      /\ \A t \in Threads \ {s}, p \in Ports : owner'[p] = t <=> owner[p] = t
  BY FreedPorts DEF Window!Leave, DesktopInv
<1>2. \A t \in Threads \ {s} : held = t => held' = t
  BY DEF Window!Leave, Window!Unlock
<1>3. shell' = [shell EXCEPT ![s] = Window!Off]
  BY DEF Window!Leave
<1> QED BY <1>1, <1>2, <1>3, OffFits, ShellStep

LEMMA QuitKeeps ==
  ASSUME NamesApart, DesktopInv, NEW s \in Threads, Window!Quit(s)
  PROVE  DesktopInv'
<1> DEFINE x == [shell[s] EXCEPT !.stage = "ending",
                   !.server = IF shell[s].server = "serving" THEN "stopped" ELSE shell[s].server]
<1>1. shell[s] \in ShellState /\ Fits(shell[s], s, owner, held) /\ owner \in Owners
  BY DEF DesktopInv
<1>2. shell' = [shell EXCEPT ![s] = x] /\ held' = held
  BY DEF Window!Quit
<1>3. /\ x \in ShellState
      /\ x.stage = "ending" /\ x.locked = shell[s].locked /\ x.port = shell[s].port
      /\ x.server = IF shell[s].server = "serving" THEN "stopped" ELSE shell[s].server
  BY <1>1 DEF ShellState
<1> HIDE DEF x
<1>4. CASE shell[s].server = "serving"
  <2>1. /\ owner' \in Owners
        /\ \A p \in Ports : owner'[p] # s
        /\ \A t \in Threads \ {s}, p \in Ports : owner'[p] = t <=> owner[p] = t
    BY <1>1, <1>4, FreedPorts DEF Window!Quit
  <2>2. Fits(x, s, owner', held')
    BY <1>1, <1>2, <1>3, <1>4, <2>1 DEF Fits
  <2> QED BY <1>2, <1>3, <2>1, <2>2, ShellStep
<1>5. CASE shell[s].server # "serving"
  <2>1. owner' = owner
    BY <1>5 DEF Window!Quit
  <2>2. Fits(x, s, owner, held)
    BY <1>1, <1>3, <1>5 DEF Fits
  <2> QED BY <1>2, <1>3, <2>1, <2>2, QuietShellStep
<1> QED BY <1>4, <1>5

LEMMA BindKeeps ==
  ASSUME NamesApart, DesktopInv, NEW s \in Threads, Window!Bind(s)
  PROVE  DesktopInv'
<1> DEFINE p == shell[s].port
           bound == owner[p] = Nobody
           x == [shell[s] EXCEPT !.server = IF bound THEN "serving" ELSE "failed", !.event = TRUE]
<1>1. /\ shell[s] \in ShellState /\ Fits(shell[s], s, owner, held) /\ owner \in Owners
      /\ shell[s].server = "starting"
  BY DEF DesktopInv, Window!Bind
<1>2. /\ shell' = [shell EXCEPT ![s] = x] /\ held' = held
      /\ owner' = IF bound THEN [owner EXCEPT ![p] = s] ELSE owner
  BY DEF Window!Bind
<1>3. /\ x \in ShellState
      /\ x.stage = shell[s].stage /\ x.locked = shell[s].locked /\ x.port = shell[s].port
      /\ x.event = TRUE /\ x.late = shell[s].late /\ x.error = shell[s].error
      /\ x.said = shell[s].said
      /\ x.server = IF bound THEN "serving" ELSE "failed"
  BY <1>1 DEF ShellState
<1>4. p \in Ports /\ \A q \in Ports : owner[q] # s
  BY <1>1 DEF Fits
<1> HIDE DEF x, p
<1>5. /\ owner' \in Owners
      /\ \A t \in Threads \ {s}, q \in Ports : owner'[q] = t <=> owner[q] = t
      /\ bound <=> \E q \in Ports : owner'[q] = s
      /\ bound => owner'[p] = s
  BY <1>1, <1>2, <1>4 DEF Owners, NamesApart
<1>6. Fits(x, s, owner', held')
  BY <1>1, <1>2, <1>3, <1>4, <1>5 DEF Fits, p
<1> QED BY <1>2, <1>3, <1>5, <1>6, ShellStep

LEMMA LaunchKeeps ==
  ASSUME NamesApart, DesktopInv, NEW s \in Threads, NEW single \in BOOLEAN,
         Window!Launch(s, single)
  PROVE  DesktopInv'
<1> DEFINE x == [Window!Off EXCEPT !.stage = "port", !.locked = single]
<1>1. /\ Fits(shell[s], s, owner, held) /\ shell[s].stage = "off" /\ owner \in Owners
      /\ shell' = [shell EXCEPT ![s] = x] /\ owner' = owner
      /\ single => held = Nobody
      /\ held' = IF single THEN s ELSE held
  BY DEF DesktopInv, Window!Launch, Window!At
<1>2. /\ x \in ShellState /\ x.stage = "port" /\ x.locked = single /\ x.server = "none"
      /\ x.event = FALSE
  <2>1. Window!Off \in ShellState /\ Window!Off.server = "none" /\ Window!Off.event = FALSE
    BY OffFits DEF Window!Off
  <2> QED BY <2>1 DEF ShellState
<1> HIDE DEF x
<1>3. \A t \in Threads \ {s} : held = t => held' = t
  BY <1>1 DEF NamesApart
<1>4. Fits(x, s, owner', held')
  BY <1>1, <1>2 DEF Fits
<1> QED BY <1>1, <1>2, <1>3, <1>4, ShellStep

(* A set of numbers has a least one; the least of some ports is a port.    *)
LEMMA LeastOf ==
  ASSUME NEW S \in SUBSET Nat, S # {} PROVE \E n \in S : \A m \in S : n <= m
<1>1. PICK x \in S : \A y \in S : <<y, x>> \notin OpToRel(<, Nat)
  BY WFMin, NatLessThanWellFounded, Zenon
<1>2. OpToRel(<, Nat) = {pair \in Nat \X Nat : pair[1] < pair[2]}
  BY Zenon DEF OpToRel
<1>3. ASSUME NEW y \in S PROVE x <= y
  <2>1. <<y, x>> \notin {pair \in Nat \X Nat : pair[1] < pair[2]}
    BY <1>1, <1>2, <1>3
  <2> QED BY <2>1
<1> QED BY <1>3

(* Min() is the member that is below the others.                           *)
LEMMA MinIs ==
  ASSUME NEW S \in SUBSET Nat, NEW x \in S, \A y \in S : x <= y
  PROVE  Min(S) = x
  <1>1. x \in {z \in S : \A y \in S : z <= y}
    OBVIOUS
  <1>2. ASSUME NEW z \in S, \A y \in S : z <= y PROVE z = x
    <2>1. z <= x /\ x <= z /\ z \in Nat /\ x \in Nat
      BY <1>2
    <2> QED BY <2>1
  <1> QED
    BY <1>1, <1>2 DEF Min

(* A nonempty set of numbers has its least member.                         *)
LEMMA MinIsLeast ==
  ASSUME NEW S \in SUBSET Nat, S # {}
  PROVE  Min(S) \in S /\ \A y \in S : Min(S) <= y
  <1>3. PICK x \in S : \A y \in S : x <= y
    BY LeastOf
  <1> QED BY <1>3, MinIs

LEMMA LeastPort == ASSUME NEW S \in SUBSET Nat, S # {} PROVE Window!Min(S) \in S
<1>1. \E n \in S : \A m \in S : n <= m
  BY LeastOf
<1>2. Window!Min(S) = CHOOSE n \in S : \A m \in S : n <= m
  BY DEF Window!Min
<1> QED BY <1>1, <1>2, Zenon

LEMMA PickPortKeeps ==
  ASSUME NamesApart, DesktopInv, NEW s \in Threads, Window!PickPort(s)
  PROVE  DesktopInv'
<1> DEFINE free == {p \in Ports : owner[p] = Nobody}
           x == [shell[s] EXCEPT !.port = Window!Min(free), !.stage = "create"]
<1>1. CASE Window!Leave(s)
  BY <1>1, LeaveKeeps
<1>2. CASE /\ free # {} /\ UNCHANGED <<held, owner>>
           /\ shell' = [shell EXCEPT ![s].port = Window!Min(free), ![s].stage = "create"]
  <2>1. /\ shell[s] \in ShellState /\ Fits(shell[s], s, owner, held)
        /\ shell[s].stage = "port"
    BY DEF DesktopInv, Window!PickPort, Window!At
  <2>2. free \in SUBSET Nat /\ free \subseteq Ports
    BY DEF NamesApart
  <2>3. shell' = [shell EXCEPT ![s] = x]
    BY <1>2
  <2> HIDE DEF free
  <2>4. Window!Min(free) \in Ports /\ Window!Min(free) \in Int
    BY <1>2, <2>2, LeastPort
  <2>5. /\ x \in ShellState
        /\ x.stage = "create" /\ x.locked = shell[s].locked /\ x.port = Window!Min(free)
        /\ x.server = shell[s].server /\ x.event = shell[s].event
    BY <2>1, <2>4 DEF ShellState
  <2> HIDE DEF x
  <2>6. Fits(x, s, owner, held)
    BY <2>1, <2>4, <2>5 DEF Fits
  <2> QED BY <1>2, <2>3, <2>5, <2>6, QuietShellStep
<1>3. \/ free = {} /\ Window!Leave(s)
      \/ /\ free # {} /\ UNCHANGED <<held, owner>>
         /\ shell' = [shell EXCEPT ![s].port = Window!Min(free), ![s].stage = "create"]
  BY Zenon DEF Window!PickPort
<1> QED BY <1>1, <1>2, <1>3

LEMMA CreateAppKeeps ==
  ASSUME NamesApart, DesktopInv, NEW s \in Threads, Window!CreateApp(s)
  PROVE  DesktopInv'
<1> DEFINE x == [shell[s] EXCEPT !.stage = "wait", !.server = "starting"]
<1>1. CASE Window!Leave(s)
  BY <1>1, LeaveKeeps
<1>2. CASE /\ UNCHANGED <<held, owner>>
           /\ shell' = [shell EXCEPT ![s].stage = "wait", ![s].server = "starting"]
  <2>1. /\ shell[s] \in ShellState /\ Fits(shell[s], s, owner, held)
        /\ shell[s].stage = "create"
    BY DEF DesktopInv, Window!CreateApp, Window!At
  <2>2. shell' = [shell EXCEPT ![s] = x]
    BY <1>2
  <2>3. /\ x \in ShellState
        /\ x.stage = "wait" /\ x.locked = shell[s].locked /\ x.port = shell[s].port
        /\ x.server = "starting" /\ x.event = shell[s].event
    BY <2>1 DEF ShellState
  <2> HIDE DEF x
  <2>4. Fits(x, s, owner, held)
    BY <2>1, <2>3 DEF Fits
  <2> QED BY <1>2, <2>2, <2>3, <2>4, QuietShellStep
<1> QED BY <1>1, <1>2 DEF Window!CreateApp

LEMMA WaitReadyKeeps ==
  ASSUME DesktopInv, NEW s \in Threads, Window!WaitReady(s)
  PROVE  DesktopInv'
<1> DEFINE x == [shell[s] EXCEPT !.stage = "probe", !.late = ~shell[s].event,
                                 !.error = (shell[s].server = "failed")]
<1>1. /\ shell[s] \in ShellState /\ Fits(shell[s], s, owner, held)
      /\ shell[s].stage = "wait" /\ UNCHANGED <<held, owner>>
      /\ shell' = [shell EXCEPT ![s] = x]
  BY DEF DesktopInv, Window!WaitReady, Window!At
<1>2. /\ x \in ShellState
      /\ x.stage = "probe" /\ x.locked = shell[s].locked /\ x.port = shell[s].port
      /\ x.server = shell[s].server /\ x.event = shell[s].event
      /\ x.late = ~shell[s].event /\ x.error = (shell[s].server = "failed")
  BY <1>1 DEF ShellState
<1> HIDE DEF x
<1>3. Fits(x, s, owner, held)
  BY <1>1, <1>2 DEF Fits
<1> QED BY <1>1, <1>2, <1>3, QuietShellStep

LEMMA ProbeKeeps ==
  ASSUME DesktopInv, NEW s \in Threads, Window!Probe(s)
  PROVE  DesktopInv'
<1>1. PICK said \in {"ready", "failed"} :
        /\ said = "ready" => ~shell[s].error
        /\ shell' = [shell EXCEPT ![s].stage = "window", ![s].said = said]
  BY DEF Window!Probe
<1> DEFINE x == [shell[s] EXCEPT !.stage = "window", !.said = said]
<1>2. /\ shell[s] \in ShellState /\ Fits(shell[s], s, owner, held)
      /\ shell[s].stage = "probe" /\ UNCHANGED <<held, owner>>
      /\ shell' = [shell EXCEPT ![s] = x]
  BY <1>1 DEF DesktopInv, Window!Probe, Window!At
<1>3. /\ x \in ShellState
      /\ x.stage = "window" /\ x.locked = shell[s].locked /\ x.port = shell[s].port
      /\ x.server = shell[s].server /\ x.event = shell[s].event
      /\ x.late = shell[s].late /\ x.error = shell[s].error /\ x.said = said
  BY <1>2 DEF ShellState
<1> HIDE DEF x
<1>4. Fits(x, s, owner, held)
  BY <1>1, <1>2, <1>3 DEF Fits
<1> QED BY <1>2, <1>3, <1>4, QuietShellStep

(* Pages that load or fail change the count of failures only.              *)
LEMMA PageKeeps ==
  ASSUME NamesApart, DesktopInv, NEW s \in Threads,
         Window!PageLoaded(s) \/ Window!PageFailed(s)
  PROVE  DesktopInv'
<1>0. shell[s] \in ShellState /\ Fits(shell[s], s, owner, held) /\ shell = [shell EXCEPT ![s] = shell[s]]
  BY DEF DesktopInv
<1>1. ASSUME NEW n \in Int, UNCHANGED <<held, owner>>,
             shell' = [shell EXCEPT ![s].fails = n]
      PROVE  DesktopInv'
  <2> DEFINE x == [shell[s] EXCEPT !.fails = n]
  <2>1. shell' = [shell EXCEPT ![s] = x]
    BY <1>1
  <2>2. /\ x \in ShellState
        /\ x.stage = shell[s].stage /\ x.locked = shell[s].locked /\ x.port = shell[s].port
        /\ x.server = shell[s].server /\ x.event = shell[s].event
        /\ x.late = shell[s].late /\ x.error = shell[s].error /\ x.said = shell[s].said
    BY <1>0 DEF ShellState
  <2> HIDE DEF x
  <2>3. Fits(x, s, owner, held)
    BY <1>0, <2>2 DEF Fits
  <2> QED BY <1>1, <2>1, <2>2, <2>3, QuietShellStep
<1>2. CASE UNCHANGED <<shell, held, owner>>
  BY <1>2 DEF DesktopInv
<1>3. CASE Window!Quit(s)
  BY <1>3, QuitKeeps
<1>4. shell[s].fails + 1 \in Int /\ 0 \in Int
  BY <1>0 DEF ShellState
<1> QED BY <1>1, <1>2, <1>3, <1>4 DEF Window!PageLoaded, Window!PageFailed

LEMMA OtherKeeps ==
  ASSUME NamesApart, DesktopInv, NEW p \in Ports, Window!OtherProgram(p)
  PROVE  DesktopInv'
<1>1. owner' \in Owners /\ UNCHANGED <<shell, held>>
  BY DEF Window!OtherProgram, DesktopInv, Owners
<1>2. \A t \in Threads, q \in Ports : owner'[q] = t <=> owner[q] = t
  BY DEF Window!OtherProgram, DesktopInv, Owners, NamesApart
<1>3. ASSUME NEW t \in Threads PROVE Fits(shell'[t], t, owner', held')
  <2>1. Fits(shell[t], t, owner, held) /\ shell'[t] = shell[t] /\ held' = held
    BY <1>1 DEF DesktopInv
  <2> QED BY <1>2, <2>1 DEF Fits
<1> QED BY <1>1, <1>3 DEF DesktopInv

LEMMA DesktopStepKeeps ==
  ASSUME NamesApart, DesktopInv, [Window!Next]_(Window!vars)
  PROVE  DesktopInv'
<1>1. ASSUME NEW s \in Threads, NEW single \in BOOLEAN, Window!Launch(s, single)
      PROVE  DesktopInv'
  BY <1>1, LaunchKeeps
<1>2. ASSUME NEW s \in Threads, Window!PickPort(s) \/ Window!CreateApp(s) \/ Window!Bind(s)
      PROVE  DesktopInv'
  BY <1>2, PickPortKeeps, CreateAppKeeps, BindKeeps
<1>3. ASSUME NEW s \in Threads, Window!WaitReady(s) \/ Window!Probe(s)
      PROVE  DesktopInv'
  BY <1>3, WaitReadyKeeps, ProbeKeeps
<1>4. ASSUME NEW s \in Threads,
             \/ Window!Quit(s) \/ Window!PageLoaded(s) \/ Window!PageFailed(s)
             \/ Window!Exit(s) \/ Window!Kill(s)
      PROVE  DesktopInv'
  BY <1>4, QuitKeeps, PageKeeps, LeaveKeeps DEF Window!Exit, Window!Kill
<1>5. ASSUME NEW p \in Ports, Window!OtherProgram(p) PROVE DesktopInv'
  BY <1>5, OtherKeeps
<1>6. CASE UNCHANGED Window!vars
  BY <1>6 DEF Window!vars, DesktopInv
<1> QED BY <1>1, <1>2, <1>3, <1>4, <1>5, <1>6 DEF Window!Next

LEMMA DesktopInvImplies ==
  ASSUME DesktopInv PROVE Window!ReadyMeansBound /\ Window!OneServer
<1>1. \A s \in Threads : Fits(shell[s], s, owner, held) /\ shell[s] \in ShellState
  BY DEF DesktopInv
<1>2. Window!ReadyMeansBound
  BY <1>1 DEF Fits, Window!ReadyMeansBound, Window!At
<1>3. Window!OneServer
  BY <1>1 DEF Fits, Window!OneServer
<1> QED BY <1>2, <1>3

-----------------------------------------------------------------------------
(* Login.  Who is checked alone was checked against the user's row as it   *)
(* is; passwords are numbered in the order the user had them.              *)

Checked == [op : {"checked"}, active : {"on", "off", "unset"}, password : Int]
Stamped == [op : {"wrong"}, now : Int]

SessionRow == [open : BOOLEAN, password : Int]

AccountOK ==
  /\ active \in {"on", "off", "unset"}
  /\ password \in Int /\ since \in Int /\ since <= password
  /\ now \in Int
  /\ opened \in Seq(SessionRow)
  /\ req \in [Threads -> {Entrance!Idle, Entrance!Entered} \cup Checked \cup Stamped]

UpToDate ==
  \A w \in Threads :
    req[w] \in Checked => req[w].active = active /\ req[w].password = password

(* The last word of an administrator is still in the row, and the page     *)
(* shows nobody else.                                                      *)
WordKept == (banned => Entrance!is_blocked(active)) /\ Entrance!HonestPage

LoginInv == AccountOK /\ (alone => UpToDate /\ WordKept)

LEMMA CheckedApart ==
  /\ Entrance!Idle \notin Checked /\ Entrance!Entered \notin Checked
  /\ ~(Entrance!Idle.op \in {"checked", "wrong"})
  /\ ~(Entrance!Entered.op \in {"checked", "wrong"})
  /\ \A r \in Checked : r.op = "checked"
  /\ \A r \in Stamped : r.op = "wrong" /\ r \notin Checked
BY DEF Entrance!Idle, Entrance!Entered, Checked, Stamped

LEMMA LoginInit == ASSUME Entrance!Init PROVE LoginInv
<1>1. opened = <<>> /\ opened \in Seq(SessionRow)
  BY DEF Entrance!Init
<1>2. UpToDate
  BY CheckedApart DEF Entrance!Init, UpToDate
<1>3. WordKept
  BY <1>1 DEF WordKept, Entrance!HonestPage, Entrance!Init
<1> QED BY <1>1, <1>2, <1>3 DEF Entrance!Init, LoginInv, AccountOK

(* A step that changes the user's row under a request that is under way is *)
(* an overlap.                                                             *)
AloneStep ==
  alone' = (alone /\ ~Overlap(<<active, password>>, <<active, password>>'))

LEMMA RowUnderRequest ==
  ASSUME AccountOK, AloneStep, alone', UNCHANGED req,
         NEW w \in Threads, req[w] \in Checked
  PROVE  alone /\ UNCHANGED <<active, password>>
<1>1. req[w] # Idle /\ req'[w] = req[w]
  BY CheckedApart DEF Idle, Entrance!Idle
<1> QED BY <1>1 DEF AloneStep, Overlap

(* A change of the row while nothing is checked, or of nothing at all.     *)
LEMMA RowChange ==
  ASSUME AccountOK, AloneStep, UNCHANGED req, alone => UpToDate
  PROVE  alone' => UpToDate'
<1>1. ASSUME alone', NEW w \in Threads, req'[w] \in Checked
      PROVE  req'[w].active = active' /\ req'[w].password = password'
  <2>1. alone /\ UNCHANGED <<active, password>>
    BY <1>1, RowUnderRequest
  <2> QED BY <1>1, <2>1 DEF UpToDate
<1> QED BY <1>1 DEF UpToDate

(* A row of user_sessions that is closed.                                  *)
ClosedRow(row) == [row EXCEPT !.open = FALSE]

LEMMA RowClosed ==
  ASSUME NEW row \in SessionRow
  PROVE  /\ ClosedRow(row) \in SessionRow
         /\ ~ClosedRow(row).open /\ ClosedRow(row).password = row.password
  BY DEF ClosedRow, SessionRow

(* Closing every session leaves nobody in.                                 *)
LEMMA AllClosed ==
  ASSUME AccountOK, Entrance!_close_open_sessions
  PROVE  /\ opened' \in Seq(SessionRow)
         /\ \A n \in DOMAIN opened' : ~opened'[n].open
<1>1. DOMAIN opened = 1..Len(opened) /\ Len(opened) \in Nat
  BY DEF AccountOK
<1>2. ASSUME NEW n \in 1..Len(opened)
      PROVE  ClosedRow(opened[n]) \in SessionRow /\ ~ClosedRow(opened[n]).open
  <2>1. opened[n] \in SessionRow
    BY <1>1, <1>2, ElementOfSeq DEF AccountOK
  <2> QED BY <2>1, RowClosed
<1>3. opened' = [n \in DOMAIN opened |-> ClosedRow(opened[n])]
  BY Zenon DEF Entrance!_close_open_sessions, ClosedRow
<1> QED BY <1>1, <1>2, <1>3

(* The pages of an administrator.                                          *)
LEMMA AdministratorKeeps ==
  ASSUME LoginInv, AloneStep, UNCHANGED <<req, now>>,
         NEW a \in {"on", "off", "unset"}, NEW p \in Int, password <= p,
         active' = a, password' = p,
         banned' => Entrance!is_blocked(a) \/ (a = active /\ banned),
         \/ Entrance!_close_open_sessions /\ since' = p
         \/ p = password /\ ~Entrance!is_blocked(a) /\ UNCHANGED <<opened, since>>
  PROVE  LoginInv'
<1>1. AccountOK'
  BY AllClosed DEF LoginInv, AccountOK
<1>2. alone' => UpToDate'
  BY RowChange DEF LoginInv
<1>3. alone' => alone
  BY DEF AloneStep
<1>4. alone' => (banned' => Entrance!is_blocked(active'))
  BY <1>3 DEF LoginInv, WordKept
<1>5. CASE Entrance!_close_open_sessions
  <2>1. Entrance!HonestPage'
    BY <1>5, AllClosed DEF LoginInv, Entrance!HonestPage
  <2> QED BY <1>1, <1>2, <1>4, <2>1 DEF LoginInv, WordKept, Entrance!is_blocked
<1>6. CASE p = password /\ ~Entrance!is_blocked(a) /\ UNCHANGED <<opened, since>>
  <2>1. alone' => Entrance!HonestPage'
    BY <1>3, <1>6 DEF LoginInv, WordKept, Entrance!HonestPage, Entrance!is_blocked
  <2> QED BY <1>1, <1>2, <1>4, <2>1 DEF LoginInv, WordKept, Entrance!is_blocked
<1> QED BY <1>5, <1>6

LEMMA RightKeeps ==
  ASSUME LoginInv, AloneStep, NEW w \in Threads, Entrance!Right(w) PROVE LoginInv'
<1>1. /\ req[w] \in Checked /\ AccountOK /\ UNCHANGED <<password, since, banned, now>>
      /\ alone' => alone
  BY CheckedApart DEF Entrance!Right, Entrance!guard, LoginInv, AccountOK, AloneStep
<1>2. CASE Entrance!is_blocked(req[w].active)
  <2>1. UNCHANGED <<active, opened>> /\ req' = [req EXCEPT ![w] = Entrance!Idle]
    BY <1>2 DEF Entrance!Right, Entrance!Finish
  <2>2. AccountOK'
    BY <1>1, <2>1 DEF AccountOK
  <2>3. alone' => UpToDate'
    BY <1>1, <2>1, CheckedApart DEF LoginInv, AccountOK, UpToDate
  <2>4. alone' => WordKept'
    BY <1>1, <2>1 DEF LoginInv, WordKept, Entrance!HonestPage, Entrance!is_blocked
  <2> QED BY <2>2, <2>3, <2>4 DEF LoginInv
<1>3. CASE ~Entrance!is_blocked(req[w].active)
  <2> DEFINE row == [open |-> TRUE, password |-> req[w].password]
  <2>1. /\ opened' = Append(opened, row)
        /\ active' = IF req[w].active = "unset" THEN "on" ELSE active
        /\ req' = [req EXCEPT ![w] = Entrance!Entered]
    BY <1>3 DEF Entrance!Right
  <2>2. row \in SessionRow /\ row.open = TRUE /\ row.password = req[w].password
    BY <1>1 DEF Checked, SessionRow
  <2> HIDE DEF row
  <2>3. AccountOK'
    BY <1>1, <2>1, <2>2 DEF AccountOK
  <2>4. ASSUME alone' PROVE UpToDate'
    <3>1. ASSUME NEW v \in Threads, req'[v] \in Checked
          PROVE  req'[v].active = active' /\ req'[v].password = password'
      <4>1. v # w /\ req'[v] = req[v]
        BY <1>1, <2>1, <3>1, CheckedApart DEF AccountOK
      <4>2. req[v] # Idle
        BY <3>1, <4>1, CheckedApart DEF Idle, Entrance!Idle
      <4>3. active' = active
        BY <2>4, <4>1, <4>2 DEF AloneStep, Overlap
      <4> QED BY <1>1, <2>4, <3>1, <4>1, <4>3 DEF LoginInv, UpToDate
    <3> QED BY <3>1 DEF UpToDate
  <2>5. ASSUME alone' PROVE WordKept'
    <3>1. req[w].active = active /\ req[w].password = password /\ WordKept
      BY <1>1, <2>5 DEF LoginInv, UpToDate
    <3>2. ~Entrance!is_blocked(active')
      BY <1>3, <2>1, <3>1 DEF Entrance!is_blocked
    <3>3. \A n \in DOMAIN opened' :
            opened'[n] = row \/ (n \in DOMAIN opened /\ opened'[n] = opened[n])
      BY <1>1, <2>1, <2>2 DEF AccountOK
    <3>4. Entrance!HonestPage'
      BY <1>1, <2>2, <3>1, <3>2, <3>3 DEF WordKept, Entrance!HonestPage, AccountOK
    <3>5. ~banned
      BY <1>3, <3>1 DEF WordKept
    <3> QED BY <1>1, <3>4, <3>5 DEF WordKept
  <2> QED BY <2>3, <2>4, <2>5 DEF LoginInv
<1> QED BY <1>2, <1>3

(* The handler of a logout closes one row or none.                         *)
LEMMA LogoutCloses ==
  ASSUME AccountOK, Entrance!logout
  PROVE  /\ opened' \in Seq(SessionRow)
         /\ \A n \in DOMAIN opened' :
              /\ n \in DOMAIN opened /\ opened'[n].password = opened[n].password
              /\ opened'[n].open => opened[n].open
<1> DEFINE k == Entrance!Max({n \in DOMAIN opened : opened[n].open})
           S == {n \in DOMAIN opened : opened[n].open}
           row(n) == IF n \in S /\ n = k THEN ClosedRow(opened[n]) ELSE opened[n]
<1>1. DOMAIN opened = 1..Len(opened) /\ Len(opened) \in Nat
  BY DEF AccountOK
<1>2. opened' = [n \in DOMAIN opened |-> row(n)]
  BY Zenon DEF Entrance!logout, ClosedRow
<1>3. ASSUME NEW n \in 1..Len(opened)
      PROVE  /\ row(n) \in SessionRow /\ row(n).password = opened[n].password
             /\ row(n).open => opened[n].open
  <2>1. opened[n] \in SessionRow
    BY <1>1, <1>3, ElementOfSeq DEF AccountOK
  <2>2. /\ ClosedRow(opened[n]) \in SessionRow
        /\ ~ClosedRow(opened[n]).open /\ ClosedRow(opened[n]).password = opened[n].password
    BY <2>1, RowClosed
  <2> HIDE DEF k, S
  <2> QED BY <2>1, <2>2
<1> HIDE DEF row
<1> QED BY <1>1, <1>2, <1>3

(* The row and the page untouched, but for a password of the user's own.   *)
LEMMA WordUntouched ==
  ASSUME LoginInv, alone' => alone, UNCHANGED <<active, since, banned, opened>>
  PROVE  alone' => WordKept'
BY DEF LoginInv, WordKept, Entrance!HonestPage, Entrance!is_blocked

LEMMA LoginStepKeeps ==
  ASSUME MaxPasswords \in Int, LoginInv, AloneStep, [Entrance!Next]_(Entrance!vars)
  PROVE  LoginInv'
<1>0. (alone' => alone) /\ AccountOK
  BY DEF AloneStep, LoginInv
<1>1. ASSUME NEW w \in Threads, Entrance!Begin(w) PROVE LoginInv'
  <2> DEFINE r == [op |-> "checked", active |-> active, password |-> password]
  <2>1. /\ r \in Checked /\ r.active = active /\ r.password = password
        /\ req' = [req EXCEPT ![w] = r]
        /\ UNCHANGED <<active, password, since, banned, opened, now>>
    BY <1>0, <1>1 DEF Checked, AccountOK, Entrance!Begin, Entrance!account, Entrance!visits,
       Entrance!guard
  <2> HIDE DEF r
  <2>2. AccountOK' /\ (alone' => UpToDate')
    BY <1>0, <2>1 DEF LoginInv, AccountOK, UpToDate
  <2> QED BY <1>0, <2>1, <2>2, WordUntouched DEF LoginInv
<1>2. ASSUME NEW w \in Threads,
             Entrance!Wrong(w) \/ Entrance!register_failure(w) \/ Entrance!reset(w)
      PROVE  LoginInv'
  <2>1. PICK r \in {Entrance!Idle, [op |-> "wrong", now |-> now]} :
          /\ req' = [req EXCEPT ![w] = r]
          /\ UNCHANGED <<active, password, since, banned, opened, now>>
    BY <1>2 DEF Entrance!Wrong, Entrance!register_failure, Entrance!reset, Entrance!Finish,
       Entrance!account, Entrance!visits, Entrance!guard
  <2>2. r = Entrance!Idle \/ r \in Stamped
    BY <1>0 DEF Stamped, AccountOK
  <2>3. r \notin Checked
    BY <2>2, CheckedApart
  <2>4. AccountOK' /\ (alone' => UpToDate')
    BY <1>0, <2>1, <2>2, <2>3 DEF LoginInv, AccountOK, UpToDate
  <2> QED BY <1>0, <2>1, <2>4, WordUntouched DEF LoginInv
<1>3. ASSUME NEW w \in Threads, Entrance!Right(w) PROVE LoginInv'
  BY <1>3, RightKeeps
<1>4. CASE Entrance!logout
  <2>1. UNCHANGED <<active, password, since, banned, req, now>>
    BY <1>4 DEF Entrance!logout, Entrance!account, Entrance!guard
  <2>2. /\ opened' \in Seq(SessionRow)
        /\ \A n \in DOMAIN opened' :
             /\ n \in DOMAIN opened /\ opened'[n].password = opened[n].password
             /\ opened'[n].open => opened[n].open
    BY <1>0, <1>4, LogoutCloses
  <2>3. AccountOK' /\ (alone' => UpToDate')
    BY <1>0, <2>1, <2>2 DEF LoginInv, AccountOK, UpToDate
  <2>4. alone' => WordKept'
    BY <1>0, <2>1, <2>2 DEF LoginInv, WordKept, Entrance!HonestPage, Entrance!is_blocked
  <2> QED BY <2>3, <2>4 DEF LoginInv
<1>5. CASE Entrance!ChangePassword
  <2>1. password' = password + 1 /\ UNCHANGED <<active, since, banned, opened, req, now>>
    BY <1>5 DEF Entrance!ChangePassword, Entrance!visits, Entrance!guard
  <2>2. alone' => UpToDate'
    BY <2>1, RowChange DEF LoginInv
  <2>3. AccountOK'
    BY <1>0, <2>1 DEF AccountOK
  <2> QED BY <1>0, <2>1, <2>2, <2>3, WordUntouched DEF LoginInv
<1>6. ASSUME NEW a \in {"on", "off"}, NEW p \in password..MaxPasswords, Entrance!EditUser(a, p)
      PROVE  LoginInv'
  <2>1. p \in Int /\ password <= p
    BY <1>0, <1>6 DEF AccountOK
  <2>2. /\ UNCHANGED <<req, now>> /\ active' = a /\ password' = p
        /\ banned' => Entrance!is_blocked(a)
        /\ \/ Entrance!_close_open_sessions /\ since' = p
           \/ p = password /\ ~Entrance!is_blocked(a) /\ UNCHANGED <<opened, since>>
    BY <1>6 DEF Entrance!EditUser, Entrance!Written, Entrance!guard
  <2> QED BY <2>1, <2>2, AdministratorKeeps
<1>7. CASE Entrance!DeleteUser
  <2>1. /\ UNCHANGED <<req, now>> /\ active' = "off" /\ password' = password
        /\ Entrance!_close_open_sessions /\ since' = password
    BY <1>7 DEF Entrance!DeleteUser, Entrance!Written, Entrance!guard
  <2>2. password \in Int /\ password <= password /\ Entrance!is_blocked("off")
    BY <1>0 DEF AccountOK, Entrance!is_blocked
  <2> QED BY <2>1, <2>2, AdministratorKeeps
<1>8. CASE Entrance!ResetPassword
  <2>1. /\ UNCHANGED <<req, now>> /\ active' = active /\ password' = password + 1
        /\ Entrance!_close_open_sessions /\ since' = password + 1 /\ banned' = banned
    BY <1>8 DEF Entrance!ResetPassword, Entrance!Written, Entrance!guard
  <2>2. password + 1 \in Int /\ password <= password + 1 /\ active \in {"on", "off", "unset"}
    BY <1>0 DEF AccountOK
  <2> QED BY <2>1, <2>2, AdministratorKeeps
<1>9. CASE Entrance!Restart
  <2>1. /\ req' = [w \in Threads |-> Entrance!Idle]
        /\ UNCHANGED <<active, password, since, banned, opened, now>>
    BY <1>9 DEF Entrance!Restart, Entrance!account, Entrance!visits
  <2>2. AccountOK' /\ (alone' => UpToDate')
    BY <1>0, <2>1, CheckedApart DEF LoginInv, AccountOK, UpToDate
  <2> QED BY <1>0, <2>1, <2>2, WordUntouched DEF LoginInv
<1>10. CASE Entrance!Tick \/ UNCHANGED Entrance!vars
  <2>1. UNCHANGED <<active, password, since, banned, opened, req>> /\ now' \in {now, now + 1}
    BY <1>10 DEF Entrance!Tick, Entrance!vars, Entrance!account, Entrance!visits, Entrance!guard
  <2>2. AccountOK' /\ (alone' => UpToDate')
    BY <1>0, <2>1 DEF LoginInv, AccountOK, UpToDate
  <2> QED BY <1>0, <2>1, <2>2, WordUntouched DEF LoginInv
<1> QED BY <1>1, <1>2, <1>3, <1>4, <1>5, <1>6, <1>7, <1>8, <1>9, <1>10 DEF Entrance!Next

-----------------------------------------------------------------------------
(* Windows of stamps: login_guard.py and rate_limit.py drop what is too    *)
(* old from the left of a queue.                                           *)

FirstFrom(s, c) == Min({i \in DOMAIN s : s[i] >= c} \cup {Len(s) + 1})

LEMMA FirstFromIs ==
  ASSUME NEW s \in Seq(Int), NEW c \in Int
  PROVE  /\ FirstFrom(s, c) \in 1..(Len(s) + 1)
         /\ \A i \in 1..(FirstFrom(s, c) - 1) : s[i] < c
         /\ FirstFrom(s, c) <= Len(s) => s[FirstFrom(s, c)] >= c
<1> DEFINE S == {i \in DOMAIN s : s[i] >= c} \cup {Len(s) + 1}
<1>1. DOMAIN s = 1..Len(s) /\ Len(s) \in Nat /\ \A i \in 1..Len(s) : s[i] \in Int
  BY ElementOfSeq
<1>2. S \in SUBSET Nat /\ S # {} /\ S \subseteq 1..(Len(s) + 1)
  BY <1>1
<1>3. \A i \in 1..Len(s) : i \in S <=> s[i] >= c
  BY <1>1
<1> DEFINE n == FirstFrom(s, c)
<1>4. n = Min(S)
  BY DEF FirstFrom
<1> HIDE DEF S, n
<1>5. n \in S /\ \A i \in S : n <= i
  BY <1>2, <1>4, MinIsLeast
<1>6. n \in 1..(Len(s) + 1)
  BY <1>2, <1>5
<1>7. ASSUME NEW i \in 1..(n - 1) PROVE s[i] < c
  <2>1. i \in 1..Len(s) /\ ~(n <= i)
    BY <1>1, <1>6
  <2> QED BY <1>1, <1>3, <1>5, <2>1
<1>8. n <= Len(s) => s[n] >= c
  BY <1>3, <1>5, <1>6
<1> QED BY <1>6, <1>7, <1>8 DEF n

-----------------------------------------------------------------------------
(* The part of a sequence of stamps that lies in a stretch of time.        *)
Between(s, a, b) == {i \in DOMAIN s : s[i] \in a..b}

LEMMA BetweenFinite ==
  ASSUME NEW s \in Seq(Int), NEW a \in Int, NEW b \in Int
  PROVE  /\ IsFiniteSet(Between(s, a, b)) /\ Cardinality(Between(s, a, b)) \in Nat
         /\ Cardinality(Between(s, a, b)) <= Len(s)
<1>1. Len(s) \in Nat /\ Between(s, a, b) \in SUBSET (1..Len(s))
  BY DEF Between
<1>2. IsFiniteSet(1..Len(s)) /\ Cardinality(1..Len(s)) = Len(s)
  <2> DEFINE n == Len(s)
  <2>1. n \in Nat /\ n \in Int /\ 1 \in Int
    BY <1>1
  <2> HIDE DEF n
  <2>2. IsFiniteSet(1..n) /\ Cardinality(1..n) = IF 1 > n THEN 0 ELSE n - 1 + 1
    BY <2>1, FS_Interval
  <2>3. Cardinality(1..n) = n
    BY <2>1, <2>2
  <2> QED BY <2>2, <2>3 DEF n
<1> QED BY <1>1, <1>2, FS_Subset, FS_CardinalityType

LEMMA BetweenGrows ==
  ASSUME NEW s \in Seq(Int), NEW a \in Int, NEW b \in Int, NEW x \in Int
  PROVE  Cardinality(Between(Append(s, x), a, b)) =
           Cardinality(Between(s, a, b)) + (IF x \in a..b THEN 1 ELSE 0)
<1>1. /\ Len(s) \in Nat /\ DOMAIN s = 1..Len(s) /\ DOMAIN Append(s, x) = 1..(Len(s) + 1)
      /\ Append(s, x)[Len(s) + 1] = x /\ \A i \in 1..Len(s) : Append(s, x)[i] = s[i]
  OBVIOUS
<1>2. IsFiniteSet(Between(s, a, b)) /\ Cardinality(Between(s, a, b)) \in Nat
  BY BetweenFinite
<1>5. Len(s) + 1 \notin Between(s, a, b)
  BY <1>1 DEF Between
<1>3. CASE x \in a..b
  <2>1. Between(Append(s, x), a, b) = Between(s, a, b) \cup {Len(s) + 1}
    BY <1>1, <1>3 DEF Between
  <2> QED BY <1>2, <1>3, <1>5, <2>1, FS_AddElement
<1>4. CASE x \notin a..b
  <2>1. Between(Append(s, x), a, b) = Between(s, a, b)
    BY <1>1, <1>4 DEF Between
  <2> QED BY <1>2, <1>4, <2>1
<1> QED BY <1>3, <1>4

(* Stamps dropped from the left, none of them in the stretch.              *)
LEMMA BetweenKept ==
  ASSUME NEW s \in Seq(Int), NEW a \in Int, NEW b \in Int, NEW n \in 1..(Len(s) + 1),
         \A i \in 1..(n - 1) : s[i] \notin a..b
  PROVE  Cardinality(Between(s, a, b)) <= Cardinality(Between(SubSeq(s, n, Len(s)), a, b))
<1> DEFINE q == SubSeq(s, n, Len(s))
           f == [i \in Between(s, a, b) |-> i - n + 1]
<1>1. Len(s) \in Nat /\ DOMAIN s = 1..Len(s) /\ n \in Int /\ \A i \in 1..Len(s) : s[i] \in Int
  BY ElementOfSeq
<1>2. /\ q \in Seq(Int) /\ Len(q) = Len(s) + 1 - n
      /\ \A k \in 1..(Len(s) + 1 - n) : q[k] = s[n + k - 1]
  BY <1>1, SubSeqProperties
<1>3. DOMAIN q = 1..(Len(s) + 1 - n)
  BY <1>2
<1> HIDE DEF q
<1>4. \A i \in Between(s, a, b) : f[i] \in Between(q, a, b)
  <2> SUFFICES ASSUME NEW i \in Between(s, a, b) PROVE i - n + 1 \in Between(q, a, b)
    OBVIOUS
  <2>1. i \in 1..Len(s) /\ s[i] \in a..b /\ i >= n
    BY <1>1 DEF Between
  <2>2. i - n + 1 \in 1..(Len(s) + 1 - n) /\ n + (i - n + 1) - 1 = i
    BY <1>1, <2>1
  <2>3. q[i - n + 1] = s[i]
    BY <1>2, <2>2
  <2> QED BY <1>3, <2>1, <2>2, <2>3 DEF Between
<1>5. \A i, j \in Between(s, a, b) : f[i] = f[j] => i = j
  BY <1>1 DEF Between
<1>6. f \in [Between(s, a, b) -> Between(q, a, b)]
  BY <1>4
<1>7. f \in Injection(Between(s, a, b), Between(q, a, b))
  BY <1>5, <1>6 DEF Injection, IsInjective
<1>8. IsFiniteSet(Between(q, a, b))
  BY <1>2, BetweenFinite
<1> QED BY <1>7, <1>8, FS_Injection DEF q

-----------------------------------------------------------------------------
(* Login, the count of wrong passwords, in a stretch a..b a second shorter *)
(* than a lock, and shorter by what a count came late.  Either _failures   *)
(* remembers all of them; or a lock holds beyond the stretch, and only who *)
(* was past the look at it may go on; or the stretch is over, and only who *)
(* read the clock in it may add to it.                                     *)

LOCK == LOCK_SECONDS * TicksPerSecond
WINDOW == WINDOW_SECONDS * TicksPerSecond

InFlight == {w \in Threads : req[w].op \in {"checked", "wrong"}}
OnTheWay(a, b) == {w \in Threads : req[w].op = "wrong" /\ req[w].now \in a..b}
Room == MAX_ATTEMPTS + Cardinality(Threads) - 1

AttemptTypes ==
  /\ now \in Int /\ until \in Int /\ late \in Nat
  /\ failures \in Seq(Int) /\ wrong \in Seq(Int)
  /\ Len(failures) < MAX_ATTEMPTS
  /\ \A k \in DOMAIN wrong : wrong[k] <= now
  /\ DOMAIN req = Threads
  /\ \A w \in Threads : req[w].op = "wrong" => req[w].now \in Int /\ req[w].now <= now

(* _failures holds the last wrong passwords; none is entered long after a  *)
(* later one.                                                              *)
Counts ==
  /\ Len(failures) <= Len(wrong)
  /\ \A k \in DOMAIN failures : failures[k] = wrong[Len(wrong) - Len(failures) + k]
  /\ \A i, k \in DOMAIN wrong : i <= k => wrong[i] <= wrong[k] + late

Remembered(a, b) ==
  Cardinality(Between(wrong, a, b)) <= Cardinality(Between(failures, a, b))
ShutFor(a, b) ==
  /\ a <= now /\ b + TicksPerSecond <= until
  /\ Cardinality(Between(wrong, a, b)) + Cardinality(InFlight) <= Room
BehindUs(a, b) ==
  /\ b < now
  /\ Cardinality(Between(wrong, a, b)) + Cardinality(OnTheWay(a, b)) <= Room

Stretches ==
  \A a, b \in Int :
    b - a <= LOCK - TicksPerSecond - late => Remembered(a, b) \/ ShutFor(a, b) \/ BehindUs(a, b)

AttemptsInv == AttemptTypes /\ Counts /\ Stretches /\ Entrance!LockedForCause

(* The window is a second shorter than a lock at most: in the code it is   *)
(* longer.                                                                 *)
LoginRule ==
  /\ MAX_ATTEMPTS \in Nat \ {0} /\ LOCK_SECONDS \in Nat /\ WINDOW_SECONDS \in Nat
  /\ TicksPerSecond \in Nat \ {0}
  /\ LOCK_SECONDS <= WINDOW_SECONDS + 1
  /\ IsFiniteSet(Threads)

LEMMA LoginCardinality == \A S : Entrance!Cardinality(S) = Cardinality(S)
BY Zenon DEF Entrance!Cardinality, Cardinality

LEMMA LockFits ==
  ASSUME LoginRule
  PROVE  LOCK \in Int /\ WINDOW \in Int /\ LOCK - TicksPerSecond <= WINDOW
<1> DEFINE d == WINDOW_SECONDS + 1 - LOCK_SECONDS
<1>1. d \in Nat /\ TicksPerSecond \in Nat /\ LOCK_SECONDS \in Nat /\ WINDOW_SECONDS \in Nat
  BY DEF LoginRule
<1>2. LOCK \in Int /\ WINDOW \in Int /\ d * TicksPerSecond >= 0
  BY <1>1 DEF LOCK, WINDOW
<1>3. WINDOW + TicksPerSecond - LOCK = d * TicksPerSecond
  BY <1>1 DEF LOCK, WINDOW
<1> HIDE DEF d
<1> QED BY <1>1, <1>2, <1>3

LEMMA RuleOfEntrance == Entrance!LOCK = LOCK /\ Entrance!WINDOW = WINDOW
BY DEF Entrance!LOCK, Entrance!WINDOW, LOCK, WINDOW

LEMMA LaterOf ==
  ASSUME NEW x \in Int, NEW y \in Int
  PROVE  /\ Entrance!Max({x, y}) \in Int
         /\ Entrance!Max({x, y}) >= x /\ Entrance!Max({x, y}) >= y
<1>1. Entrance!Max({x, y}) = CHOOSE z \in {x, y} : \A v \in {x, y} : z >= v
  BY Zenon DEF Entrance!Max
<1>2. \E z \in {x, y} : \A v \in {x, y} : z >= v
  BY DEF Entrance!Max
<1>3. Entrance!Max({x, y}) \in {x, y} /\ \A v \in {x, y} : Entrance!Max({x, y}) >= v
  BY <1>1, <1>2, Zenon
<1> QED BY <1>3

(* The deque after popleft().                                              *)
LEMMA RecentIs ==
  \A c : Entrance!Recent(c) =
           SubSeq(failures, FirstFrom(failures, c - WINDOW), Len(failures))
<1>1. \A S : Entrance!Min(S) = Min(S)
  BY Zenon DEF Entrance!Min, Min
<1> QED BY <1>1, RuleOfEntrance, Zenon DEF Entrance!Recent, FirstFrom

LEMMA SomeOfThreads ==
  ASSUME LoginRule, NEW S \in SUBSET Threads
  PROVE  /\ IsFiniteSet(S) /\ Cardinality(S) \in Nat /\ Cardinality(Threads) \in Nat
         /\ Cardinality(S) <= Cardinality(Threads)
         /\ \A w \in Threads :
              /\ w \notin S => Cardinality(S) <= Cardinality(Threads) - 1
              /\ Cardinality(S \ {w}) = IF w \in S THEN Cardinality(S) - 1 ELSE Cardinality(S)
<1>1. IsFiniteSet(Threads) /\ IsFiniteSet(S) /\ Cardinality(S) <= Cardinality(Threads)
      /\ Cardinality(S) \in Nat /\ Cardinality(Threads) \in Nat
  BY FS_Subset, FS_CardinalityType DEF LoginRule
<1>2. ASSUME NEW w \in Threads, w \notin S PROVE Cardinality(S) <= Cardinality(Threads) - 1
  <2>1. S \in SUBSET (Threads \ {w})
    BY <1>2
  <2>2. IsFiniteSet(Threads \ {w}) /\ Cardinality(Threads \ {w}) = Cardinality(Threads) - 1
    BY <1>1, FS_RemoveElement
  <2> QED BY <2>1, <2>2, FS_Subset
<1>3. \A w \in Threads :
        Cardinality(S \ {w}) = IF w \in S THEN Cardinality(S) - 1 ELSE Cardinality(S)
  BY <1>1, FS_RemoveElement
<1> QED BY <1>1, <1>2, <1>3

LEMMA NoneBetween ==
  ASSUME NEW s, NEW a \in Int, NEW b \in Int, \A i \in DOMAIN s : s[i] \notin a..b
  PROVE  Cardinality(Between(s, a, b)) = 0
<1>1. Between(s, a, b) = {}
  BY DEF Between
<1> QED BY <1>1, FS_EmptySet

(* A request that was counted, or was a right one, is in flight no more.   *)
LEMMA OutOfFlight ==
  ASSUME LoginRule, AttemptTypes, NEW w \in Threads, req[w].op \in {"checked", "wrong"},
         NEW r, r.op \notin {"checked", "wrong"}, req' = [req EXCEPT ![w] = r]
  PROVE  /\ Cardinality(InFlight') = Cardinality(InFlight) - 1
         /\ Cardinality(InFlight) \in Nat /\ Cardinality(InFlight) >= 1
         /\ Cardinality(InFlight') \in Nat
         /\ Cardinality(InFlight) <= Cardinality(Threads) /\ Cardinality(Threads) \in Nat
         /\ \A a, b \in Int :
              /\ Cardinality(OnTheWay(a, b)) \in Nat /\ Cardinality(OnTheWay(a, b)') \in Nat
              /\ Cardinality(OnTheWay(a, b)') <= Cardinality(Threads) - 1
              /\ Cardinality(OnTheWay(a, b)') =
                   IF w \in OnTheWay(a, b) THEN Cardinality(OnTheWay(a, b)) - 1
                   ELSE Cardinality(OnTheWay(a, b))
<1>1. req'[w] = r /\ \A v \in Threads \ {w} : req'[v] = req[v]
  BY DEF AttemptTypes
<1>2. InFlight' = InFlight \ {w} /\ w \in InFlight /\ InFlight \in SUBSET Threads
      /\ InFlight' \in SUBSET Threads
  BY <1>1 DEF InFlight
<1>3. ASSUME NEW a \in Int, NEW b \in Int
      PROVE  /\ OnTheWay(a, b)' = OnTheWay(a, b) \ {w} /\ w \notin OnTheWay(a, b)'
             /\ OnTheWay(a, b) \in SUBSET Threads /\ OnTheWay(a, b)' \in SUBSET Threads
  BY <1>1 DEF OnTheWay
<1>4. /\ Cardinality(InFlight') = Cardinality(InFlight) - 1
      /\ Cardinality(InFlight) \in Nat /\ Cardinality(InFlight') \in Nat
      /\ Cardinality(InFlight) <= Cardinality(Threads) /\ Cardinality(Threads) \in Nat
  BY <1>2, SomeOfThreads
<1>5. ASSUME NEW a \in Int, NEW b \in Int
      PROVE  /\ Cardinality(OnTheWay(a, b)) \in Nat /\ Cardinality(OnTheWay(a, b)') \in Nat
             /\ Cardinality(OnTheWay(a, b)') <= Cardinality(Threads) - 1
             /\ Cardinality(OnTheWay(a, b)') =
                  IF w \in OnTheWay(a, b) THEN Cardinality(OnTheWay(a, b)) - 1
                  ELSE Cardinality(OnTheWay(a, b))
  <2>1. /\ OnTheWay(a, b)' = OnTheWay(a, b) \ {w} /\ w \notin OnTheWay(a, b)'
        /\ OnTheWay(a, b) \in SUBSET Threads /\ OnTheWay(a, b)' \in SUBSET Threads
    BY <1>3
  <2>2. Cardinality(OnTheWay(a, b)) \in Nat /\ Cardinality(OnTheWay(a, b) \ {w}) =
          IF w \in OnTheWay(a, b) THEN Cardinality(OnTheWay(a, b)) - 1 ELSE Cardinality(OnTheWay(a, b))
    BY <2>1, SomeOfThreads
  <2>3. Cardinality(OnTheWay(a, b)') \in Nat
        /\ Cardinality(OnTheWay(a, b)') <= Cardinality(Threads) - 1
    BY <2>1, SomeOfThreads
  <2> QED BY <2>1, <2>2, <2>3
<1>6. Cardinality(InFlight) >= 1
  BY <1>4
<1> QED BY <1>4, <1>5, <1>6

(* register_failure().                                                     *)
LEMMA RegisterIs ==
  ASSUME LoginRule, AttemptTypes, NEW w \in Threads, Entrance!register_failure(w)
  PROVE  LET s == req[w].now
             n == FirstFrom(failures, s - WINDOW)
             q == SubSeq(failures, n, Len(failures))
             full == Len(q) + 1 >= MAX_ATTEMPTS
         IN /\ s \in Int /\ s <= now /\ req[w].op = "wrong"
            /\ n \in 1..(Len(failures) + 1)
            /\ \A k \in 1..(n - 1) : failures[k] < s - WINDOW
            /\ n <= Len(failures) => failures[n] >= s - WINDOW
            /\ q \in Seq(Int) /\ Len(q) = Len(failures) + 1 - n
            /\ \A k \in 1..Len(q) : q[k] = failures[n + k - 1]
            /\ now' = now /\ wrong' = Append(wrong, s)
            /\ until' = IF full THEN s + LOCK ELSE until
            /\ failures' = IF full THEN <<>> ELSE Append(q, s)
            /\ late' \in Nat /\ late' >= late /\ late' >= now - s
            /\ req' = [req EXCEPT ![w] = Entrance!Idle]
<1> DEFINE s == req[w].now
           n == FirstFrom(failures, s - WINDOW)
           q == SubSeq(failures, n, Len(failures))
           full == Len(q) + 1 >= MAX_ATTEMPTS
<1>1. req[w].op = "wrong" /\ s \in Int /\ s <= now /\ now \in Int /\ failures \in Seq(Int)
      /\ WINDOW \in Int /\ late \in Nat /\ Len(failures) \in Nat
  BY LockFits DEF Entrance!register_failure, AttemptTypes
<1>2. s - WINDOW \in Int
  BY <1>1
<1>3. /\ n \in 1..(Len(failures) + 1)
      /\ \A k \in 1..(n - 1) : failures[k] < s - WINDOW
      /\ n <= Len(failures) => failures[n] >= s - WINDOW
  BY <1>1, <1>2, FirstFromIs
<1> HIDE DEF n
<1>4. /\ q \in Seq(Int) /\ Len(q) = Len(failures) + 1 - n
      /\ \A k \in 1..(Len(failures) + 1 - n) : q[k] = failures[n + k - 1]
  BY <1>1, <1>3, SubSeqProperties
<1>5. Entrance!Recent(s) = q
  BY RecentIs DEF n
<1> HIDE DEF q
<1>6. q \in Seq(Int) /\ Len(Append(q, s)) = Len(q) + 1
  BY <1>1, <1>4
<1>7. /\ now' = now /\ wrong' = Append(wrong, s)
      /\ until' = IF full THEN s + LOCK ELSE until
      /\ failures' = IF full THEN <<>> ELSE Append(q, s)
      /\ late' = Entrance!Max({late, now - s})
      /\ req' = [req EXCEPT ![w] = Entrance!Idle]
  BY <1>5, <1>6, RuleOfEntrance, Zenon DEF Entrance!register_failure, Entrance!Finish
<1>8. late' \in Nat /\ late' >= late /\ late' >= now - s
  <2>1. late \in Int /\ now - s \in Int
    BY <1>1
  <2>2. late' \in Int /\ late' >= late /\ late' >= now - s
    BY <1>7, <2>1, LaterOf
  <2> QED BY <1>1, <2>2
<1> QED BY <1>1, <1>3, <1>4, <1>7, <1>8 DEF q, n

(* A stretch of n1 to n2 at most l - t - d long, where d is what a count   *)
(* came late.                                                              *)
LEMMA StretchEnds ==
  ASSUME NEW n1 \in Int, NEW n2 \in Int, NEW l \in Int, NEW t \in Int, NEW d \in Int,
         n2 - n1 <= l - t - d
  PROVE  /\ \A e \in Int : d >= e => n2 - n1 <= l - t - e
         /\ \A m, x \in Int : n1 <= m /\ d >= m - x => n2 + t <= x + l
         /\ \A m, x \in Int : d >= 0 /\ l - t <= m /\ n1 < x - m => n2 < x
OBVIOUS

(* What the step leaves of a stretch.                                      *)
LEMMA StretchAfter ==
  ASSUME LoginRule, AttemptTypes, NEW w \in Threads, Entrance!register_failure(w),
         NEW a \in Int, NEW b \in Int, b - a <= LOCK - TicksPerSecond - late',
         Remembered(a, b) \/ ShutFor(a, b) \/ BehindUs(a, b)
  PROVE  (Remembered(a, b) \/ ShutFor(a, b) \/ BehindUs(a, b))'
<1> DEFINE s == req[w].now
           n == FirstFrom(failures, s - WINDOW)
           q == SubSeq(failures, n, Len(failures))
           full == Len(q) + 1 >= MAX_ATTEMPTS
           x == IF s \in a..b THEN 1 ELSE 0
           P == Cardinality(Between(wrong, a, b))
           G == Cardinality(Between(failures, a, b))
           Q == Cardinality(Between(q, a, b))
           C == Cardinality(InFlight)
           D == Cardinality(OnTheWay(a, b))
           E == Cardinality(OnTheWay(a, b)')
           T == Cardinality(Threads)
           M == MAX_ATTEMPTS
<1>1. /\ s \in Int /\ s <= now /\ req[w].op = "wrong"
      /\ n \in 1..(Len(failures) + 1)
      /\ \A k \in 1..(n - 1) : failures[k] < s - WINDOW
      /\ q \in Seq(Int)
      /\ now' = now /\ wrong' = Append(wrong, s)
      /\ until' = IF full THEN s + LOCK ELSE until
      /\ failures' = IF full THEN <<>> ELSE Append(q, s)
      /\ late' \in Nat /\ late' >= now - s
      /\ req' = [req EXCEPT ![w] = Entrance!Idle]
  BY RegisterIs
<1>2. /\ now \in Int /\ until \in Int /\ wrong \in Seq(Int) /\ failures \in Seq(Int)
      /\ M \in Nat /\ Len(failures) \in Nat /\ Len(failures) < M
      /\ LOCK \in Int /\ WINDOW \in Int /\ TicksPerSecond \in Nat
      /\ LOCK - TicksPerSecond <= WINDOW
      /\ \A i \in DOMAIN wrong : wrong[i] \in Int /\ wrong[i] <= now
  BY LockFits, ElementOfSeq DEF AttemptTypes, LoginRule
<1>3. P \in Nat /\ G \in Nat /\ G < M
  BY <1>2, BetweenFinite
<1>4. Q \in Nat /\ Cardinality(Between(Append(q, s), a, b)) = Q + x
  <2>1. q \in Seq(Int) /\ s \in Int
    BY <1>1
  <2> HIDE DEF q, s, n, full
  <2>2. Q \in Nat
    BY <2>1, BetweenFinite
  <2> QED BY <2>1, <2>2, BetweenGrows
<1>5. Cardinality(Between(wrong', a, b)) = P + x
  <2>1. wrong \in Seq(Int) /\ s \in Int /\ wrong' = Append(wrong, s)
    BY <1>1, <1>2
  <2> HIDE DEF s
  <2> QED BY <2>1, BetweenGrows
<1>6. /\ Cardinality(InFlight') = C - 1 /\ C \in Nat /\ C >= 1 /\ C <= T /\ T \in Nat
      /\ D \in Nat /\ E \in Nat /\ E <= T - 1 /\ E = D - x
  <2>1. Entrance!Idle.op \notin {"checked", "wrong"} /\ req[w].op \in {"checked", "wrong"}
    BY <1>1, CheckedApart
  <2>2. w \in OnTheWay(a, b) <=> s \in a..b
    BY <1>1 DEF OnTheWay
  <2>3. /\ Cardinality(InFlight') = C - 1 /\ C \in Nat /\ C >= 1 /\ C <= T /\ T \in Nat
        /\ D \in Nat /\ E \in Nat /\ E <= T - 1
        /\ E = IF w \in OnTheWay(a, b) THEN D - 1 ELSE D
    BY <1>1, <2>1, OutOfFlight
  <2> HIDE DEF C, T, D, E, s
  <2> QED BY <2>2, <2>3
<1>7. /\ Remembered(a, b) <=> P <= G
      /\ ShutFor(a, b) <=> a <= now /\ b + TicksPerSecond <= until /\ P + C <= M + T - 1
      /\ BehindUs(a, b) <=> b < now /\ P + D <= M + T - 1
  BY DEF Remembered, ShutFor, BehindUs, Room
<1>8. /\ ShutFor(a, b)' <=> a <= now /\ b + TicksPerSecond <= until' /\ P + x + (C - 1) <= M + T - 1
      /\ BehindUs(a, b)' <=> b < now /\ P + x + E <= M + T - 1
      /\ Remembered(a, b)' <=> P + x <= Cardinality(Between(failures', a, b))
  <2>1. Cardinality(Between(wrong, a, b)') = P + x
    BY <1>5 DEF Between
  <2>2. Cardinality(Between(failures, a, b)') = Cardinality(Between(failures', a, b))
    BY DEF Between
  <2> HIDE DEF P, x, C, E, T, M
  <2> QED BY <1>1, <1>6, <2>1, <2>2 DEF Remembered, ShutFor, BehindUs, Room, C, E, T, M
<1>9. a <= now /\ until' = s + LOCK => b + TicksPerSecond <= until'
  <2>1. s \in Int /\ now \in Int /\ late' \in Int /\ late' >= now - s
    BY <1>1, <1>2
  <2>2. LOCK \in Int /\ TicksPerSecond \in Int
    BY <1>2
  <2> HIDE DEF s
  <2>3. a <= now => b + TicksPerSecond <= s + LOCK
    BY <2>1, <2>2, StretchEnds
  <2> QED BY <2>3
<1> HIDE DEF P, G, Q, C, D, E, T, M, q, n, x, s
<1>10. x \in {0, 1}
  BY DEF x
<1>11. CASE BehindUs(a, b)
  BY <1>3, <1>6, <1>7, <1>8, <1>10, <1>11
<1>12. CASE ShutFor(a, b)
  BY <1>1, <1>2, <1>3, <1>6, <1>7, <1>8, <1>9, <1>10, <1>12
<1>13. CASE Remembered(a, b) /\ now < a
  <2>1. \A i \in DOMAIN wrong : wrong[i] \notin a..b
    BY <1>2, <1>13
  <2>2. P = 0
    BY <2>1, NoneBetween DEF P
  <2>3. x = 0
    BY <1>1, <1>2, <1>13 DEF x
  <2>4. Cardinality(Between(failures', a, b)) \in Nat
    <3>1. failures' \in Seq(Int)
      BY <1>1
    <3> QED BY <3>1, BetweenFinite
  <2> QED BY <1>8, <2>2, <2>3, <2>4
<1>14. CASE Remembered(a, b) /\ a <= now /\ full
  BY <1>1, <1>2, <1>3, <1>6, <1>7, <1>8, <1>9, <1>10, <1>14
<1>15. CASE /\ Remembered(a, b) /\ ~full
            /\ \A k \in 1..(n - 1) : failures[k] \notin a..b
  <2>1. G <= Q
    BY <1>1, <1>2, <1>15, BetweenKept DEF G, Q, q
  <2> QED BY <1>1, <1>3, <1>4, <1>7, <1>8, <1>10, <1>15, <2>1
<1>16. ASSUME Remembered(a, b), NEW k \in 1..(n - 1), failures[k] \in a..b
       PROVE  BehindUs(a, b)'
  <2>1. a < s - WINDOW
    BY <1>1, <1>2, <1>16
  <2>2. b < s
    <3>1. s \in Int /\ late' \in Nat
      BY <1>1
    <3>2. LOCK \in Int /\ WINDOW \in Int /\ TicksPerSecond \in Int
          /\ LOCK - TicksPerSecond <= WINDOW
      BY <1>2
    <3>3. late' \in Int /\ late' >= 0
      BY <3>1
    <3> QED BY <2>1, <3>1, <3>2, <3>3, StretchEnds
  <2>3. x = 0 /\ b < now
    BY <1>1, <1>2, <2>2 DEF x
  <2> QED BY <1>2, <1>3, <1>6, <1>7, <1>8, <1>16, <2>3
<1> QED BY <1>2, <1>11, <1>12, <1>13, <1>14, <1>15, <1>16

LEMMA RegisterKeepsAttempts ==
  ASSUME LoginRule, AttemptsInv, NEW w \in Threads, Entrance!register_failure(w)
  PROVE  AttemptsInv'
<1> DEFINE L == Len(wrong)
           F == Len(failures)
           s == req[w].now
           n == FirstFrom(failures, s - WINDOW)
           q == SubSeq(failures, n, Len(failures))
           full == Len(q) + 1 >= MAX_ATTEMPTS
<1>1. /\ s \in Int /\ s <= now /\ req[w].op = "wrong"
      /\ n \in 1..(F + 1)
      /\ n <= F => failures[n] >= s - WINDOW
      /\ q \in Seq(Int) /\ Len(q) = F + 1 - n
      /\ \A k \in 1..Len(q) : q[k] = failures[n + k - 1]
      /\ now' = now /\ wrong' = Append(wrong, s)
      /\ until' = IF full THEN s + LOCK ELSE until
      /\ failures' = IF full THEN <<>> ELSE Append(q, s)
      /\ late' \in Nat /\ late' >= late /\ late' >= now - s
      /\ req' = [req EXCEPT ![w] = Entrance!Idle]
  BY RegisterIs DEF AttemptsInv
<1>2. /\ now \in Int /\ until \in Int /\ late \in Nat
      /\ failures \in Seq(Int) /\ wrong \in Seq(Int)
      /\ L \in Nat /\ F \in Nat /\ F < MAX_ATTEMPTS /\ F <= L
      /\ DOMAIN wrong = 1..L /\ DOMAIN failures = 1..F
      /\ \A k \in 1..L : wrong[k] \in Int /\ wrong[k] <= now
      /\ \A k \in 1..F : failures[k] = wrong[L - F + k]
      /\ \A i, k \in 1..L : i <= k => wrong[i] <= wrong[k] + late
      /\ MAX_ATTEMPTS \in Nat \ {0} /\ LOCK \in Int /\ WINDOW \in Int /\ TicksPerSecond \in Nat
  <2>1. /\ now \in Int /\ until \in Int /\ late \in Nat
        /\ failures \in Seq(Int) /\ wrong \in Seq(Int)
        /\ F < MAX_ATTEMPTS /\ \A k \in DOMAIN wrong : wrong[k] <= now
    BY DEF AttemptsInv, AttemptTypes
  <2>2. /\ F <= L /\ \A k \in DOMAIN failures : failures[k] = wrong[L - F + k]
        /\ \A i, k \in DOMAIN wrong : i <= k => wrong[i] <= wrong[k] + late
    BY DEF AttemptsInv, Counts
  <2>3. L \in Nat /\ F \in Nat /\ DOMAIN wrong = 1..L /\ DOMAIN failures = 1..F
    BY <2>1
  <2>4. \A k \in 1..L : wrong[k] \in Int
    BY <2>1, ElementOfSeq
  <2> HIDE DEF L, F
  <2> QED BY <2>1, <2>2, <2>3, <2>4, LockFits DEF LoginRule
<1>3. /\ wrong' \in Seq(Int) /\ Len(wrong') = L + 1 /\ DOMAIN wrong' = 1..(L + 1)
      /\ wrong'[L + 1] = s /\ \A k \in 1..L : wrong'[k] = wrong[k]
  BY <1>1, <1>2
<1> HIDE DEF L, F, n, q, s
<1>4. /\ ~full => /\ failures' \in Seq(Int) /\ Len(failures') = F + 2 - n
                  /\ DOMAIN failures' = 1..(F + 2 - n)
                  /\ failures'[F + 2 - n] = s
                  /\ \A k \in 1..(F + 1 - n) : failures'[k] = failures[n + k - 1]
      /\ full => /\ failures' \in Seq(Int) /\ Len(failures') = 0 /\ DOMAIN failures' = {}
                 /\ n = 1 /\ F + 1 = MAX_ATTEMPTS
  <2>1. CASE ~full
    <3>1. Len(q) \in Nat /\ Len(q) + 1 = F + 2 - n /\ Len(q) = F + 1 - n
      BY <1>1, <1>2
    <3>2. failures' = Append(q, s)
      BY <1>1, <2>1
    <3>3. /\ failures' \in Seq(Int) /\ Len(failures') = Len(q) + 1
          /\ DOMAIN failures' = 1..(Len(q) + 1) /\ failures'[Len(q) + 1] = s
          /\ \A k \in 1..Len(q) : failures'[k] = q[k]
      BY <1>1, <3>2
    <3> QED BY <1>1, <2>1, <3>1, <3>3
  <2>2. CASE full
    BY <1>1, <1>2, <2>2
  <2> QED BY <2>1, <2>2
<1> HIDE DEF full
<1>5. AttemptTypes'
  <2>1. until' \in Int /\ now' \in Int /\ late' \in Nat /\ Len(failures') < MAX_ATTEMPTS
        /\ failures' \in Seq(Int)
    <3>1. CASE full
      BY <1>1, <1>2, <1>4, <3>1
    <3>2. CASE ~full
      BY <1>1, <1>2, <1>4, <3>2 DEF full
    <3> QED BY <3>1, <3>2
  <2>2. ASSUME NEW k \in DOMAIN wrong' PROVE wrong'[k] <= now'
    <3>1. k \in 1..L \/ k = L + 1
      BY <1>2, <1>3
    <3>2. now' = now /\ s <= now
      BY <1>1
    <3>3. CASE k \in 1..L
      BY <1>2, <1>3, <3>2, <3>3
    <3>4. CASE k = L + 1
      BY <1>3, <3>2, <3>4
    <3> QED BY <3>1, <3>3, <3>4
  <2>3. /\ DOMAIN req' = Threads
        /\ \A v \in Threads : req'[v].op = "wrong" => req'[v].now \in Int /\ req'[v].now <= now'
    <3>1. DOMAIN req = Threads
          /\ \A v \in Threads : req[v].op = "wrong" => req[v].now \in Int /\ req[v].now <= now
      BY DEF AttemptsInv, AttemptTypes
    <3> QED BY <1>1, <3>1, CheckedApart
  <2> QED BY <1>3, <2>1, <2>2, <2>3 DEF AttemptTypes
<1>6. Counts'
  <2>1. Len(failures') <= Len(wrong')
        /\ \A k \in DOMAIN failures' : failures'[k] = wrong'[Len(wrong') - Len(failures') + k]
    <3>1. CASE full
      BY <1>2, <1>3, <1>4, <3>1
    <3>2. CASE ~full
      <4>1. Len(failures') = F + 2 - n /\ Len(wrong') = L + 1 /\ F + 2 - n <= L + 1
        BY <1>1, <1>2, <1>3, <1>4, <3>2
      <4>2. ASSUME NEW k \in 1..(F + 1 - n)
            PROVE  failures'[k] = wrong'[L + 1 - (F + 2 - n) + k]
        <5>1. n + k - 1 \in 1..F /\ L - F + (n + k - 1) \in 1..L
              /\ L + 1 - (F + 2 - n) + k = L - F + (n + k - 1)
          BY <1>1, <1>2
        <5>2. failures'[k] = wrong[L - F + (n + k - 1)]
          BY <1>2, <1>4, <3>2, <5>1
        <5> QED BY <1>3, <5>1, <5>2
      <4>3. L + 1 - (F + 2 - n) + (F + 2 - n) = L + 1
        BY <1>1, <1>2
      <4>4. ASSUME NEW k \in 1..(F + 2 - n)
            PROVE  failures'[k] = wrong'[L + 1 - (F + 2 - n) + k]
        <5>1. k \in 1..(F + 1 - n) \/ k = F + 2 - n
          BY <1>1, <1>2
        <5> QED BY <1>3, <1>4, <3>2, <4>2, <4>3, <5>1
      <4>5. DOMAIN failures' = 1..(F + 2 - n)
        BY <1>4, <3>2
      <4>6. ASSUME NEW k \in DOMAIN failures'
            PROVE  failures'[k] = wrong'[Len(wrong') - Len(failures') + k]
        <5>1. k \in 1..(F + 2 - n)
          BY <4>5
        <5>2. Len(wrong') - Len(failures') = L + 1 - (F + 2 - n)
          <6>1. L \in Int /\ F \in Int /\ n \in Int
            BY <1>1, <1>2
          <6> QED BY <4>1, <6>1
        <5> QED BY <4>4, <5>1, <5>2
      <4> QED BY <4>1, <4>6
    <3> QED BY <3>1, <3>2
  <2>2. ASSUME NEW i \in 1..(L + 1), NEW k \in 1..(L + 1), i <= k
        PROVE  wrong'[i] <= wrong'[k] + late'
    <3>1. CASE k \in 1..L
      <4>1. i \in 1..L /\ wrong'[i] = wrong[i] /\ wrong'[k] = wrong[k]
        BY <1>2, <1>3, <2>2, <3>1
      <4> QED BY <1>1, <1>2, <2>2, <3>1, <4>1
    <3>2. CASE k = L + 1
      <4>1. wrong'[k] = s /\ wrong'[i] \in Int /\ wrong'[i] <= now
        <5>1. CASE i \in 1..L
          BY <1>2, <1>3, <3>2, <5>1
        <5>2. CASE i = L + 1
          BY <1>1, <1>3, <3>2, <5>2
        <5> QED BY <1>2, <5>1, <5>2
      <4>2. s \in Int /\ now \in Int /\ late' \in Int /\ late' >= now - s
        BY <1>1, <1>2
      <4> QED BY <4>1, <4>2
    <3> QED BY <1>2, <3>1, <3>2
  <2> QED BY <1>3, <2>1, <2>2 DEF Counts
<1>7. Stretches'
  <2>1. ASSUME NEW a \in Int, NEW b \in Int, b - a <= LOCK - TicksPerSecond - late'
        PROVE  (Remembered(a, b) \/ ShutFor(a, b) \/ BehindUs(a, b))'
    <3>1. b - a <= LOCK - TicksPerSecond - late
      <4>1. late \in Int /\ late' \in Int /\ late' >= late
        BY <1>1, <1>2
      <4>2. LOCK \in Int /\ TicksPerSecond \in Int
        BY <1>2
      <4> QED BY <2>1, <4>1, <4>2, StretchEnds
    <3>2. Remembered(a, b) \/ ShutFor(a, b) \/ BehindUs(a, b)
      BY <3>1 DEF AttemptsInv, Stretches
    <3> QED BY <2>1, <3>2, StretchAfter DEF AttemptsInv
  <2> QED BY <2>1 DEF Stretches, LOCK
<1>8. Entrance!LockedForCause'
  <2>1. CASE full
    <3> DEFINE i == L + 2 - MAX_ATTEMPTS
    <3>1. i \in 1..(L + 1) /\ i + MAX_ATTEMPTS - 1 = L + 1 /\ i = L - F + 1
      BY <1>2, <1>4, <2>1
    <3>2. ASSUME NEW k \in i..(L + 1) PROVE wrong'[L + 1] - wrong'[k] <= WINDOW + late'
      <4>1. CASE k = L + 1
        <5>1. WINDOW >= 0
          BY DEF WINDOW, LoginRule
        <5> QED BY <1>1, <1>2, <1>3, <4>1, <5>1
      <4>2. CASE k \in 1..L
        <5>1. F >= 1 /\ i \in 1..L /\ i <= k /\ 1 \in 1..F
          BY <1>2, <3>1, <3>2, <4>2
        <5>2. failures[1] = wrong[L - F + 1] /\ failures[1] >= s - WINDOW
          BY <1>1, <1>2, <1>4, <2>1, <5>1
        <5>3. wrong[i] <= wrong[k] + late /\ wrong[i] = failures[1] /\ wrong'[k] = wrong[k]
          BY <1>2, <1>3, <3>1, <4>2, <5>1, <5>2
        <5>4. wrong[i] \in Int /\ wrong[k] \in Int
          BY <1>2, <4>2, <5>1
        <5>5. /\ s \in Int /\ WINDOW \in Int /\ late \in Int /\ late' \in Int
              /\ late' >= late /\ wrong'[L + 1] = s
          BY <1>1, <1>2, <1>3
        <5> HIDE DEF i
        <5> QED BY <5>2, <5>3, <5>4, <5>5
      <4> QED BY <1>2, <3>1, <4>1, <4>2
    <3>3. until' = wrong'[L + 1] + LOCK
      BY <1>1, <1>3, <2>1 DEF full
    <3>4. L + 1 \in DOMAIN wrong' /\ i \in DOMAIN wrong'
      BY <1>2, <1>3, <3>1
    <3> HIDE DEF i
    <3> QED BY <3>1, <3>2, <3>3, <3>4, RuleOfEntrance DEF Entrance!LockedForCause
  <2>2. CASE ~full /\ until # 0
    <3>1. PICK i \in DOMAIN wrong :
            /\ i + MAX_ATTEMPTS - 1 \in DOMAIN wrong
            /\ \A k \in i..(i + MAX_ATTEMPTS - 1) :
                 wrong[i + MAX_ATTEMPTS - 1] - wrong[k] <= WINDOW + late
            /\ until = wrong[i + MAX_ATTEMPTS - 1] + LOCK
      BY <2>2, RuleOfEntrance DEF AttemptsInv, Entrance!LockedForCause
    <3> DEFINE j == i + MAX_ATTEMPTS - 1
    <3>2. i \in 1..L /\ j \in 1..L /\ i \in 1..(L + 1) /\ j \in 1..(L + 1)
      BY <1>2, <3>1
    <3>3. \A k \in i..j : k \in 1..L
      BY <1>2, <3>2
    <3>4. until' = until /\ wrong'[j] = wrong[j]
      BY <1>1, <1>3, <2>2, <3>2 DEF full
    <3>5. ASSUME NEW k \in i..j PROVE wrong'[j] - wrong'[k] <= WINDOW + late'
      <4>1. k \in 1..L /\ wrong'[k] = wrong[k] /\ wrong[k] \in Int /\ wrong[j] \in Int
        BY <1>2, <1>3, <3>2, <3>3
      <4>2. wrong[j] - wrong[k] <= WINDOW + late
        BY <3>1
      <4>3. WINDOW \in Int /\ late \in Int /\ late' \in Int /\ late' >= late
        BY <1>1, <1>2
      <4> HIDE DEF j
      <4> QED BY <3>4, <4>1, <4>2, <4>3
    <3>6. i \in DOMAIN wrong' /\ j \in DOMAIN wrong' /\ until' = wrong'[j] + LOCK
      BY <1>3, <3>1, <3>2, <3>4
    <3> QED BY <3>5, <3>6, RuleOfEntrance DEF Entrance!LockedForCause
  <2>3. CASE ~full /\ until = 0
    BY <1>1, <2>3 DEF Entrance!LockedForCause, full
  <2> QED BY <2>1, <2>2, <2>3
<1> QED BY <1>5, <1>6, <1>7, <1>8 DEF AttemptsInv

RequestTypes(n) ==
  /\ DOMAIN req = Threads
  /\ \A w \in Threads : req[w].op = "wrong" => req[w].now \in Int /\ req[w].now <= n

(* Nothing is counted and nobody locked out.                               *)
LEMMA ForgottenKeeps ==
  ASSUME LoginRule, now' \in Int, RequestTypes(now)',
         failures' = <<>>, wrong' = <<>>, until' = 0, late' = 0
  PROVE  AttemptsInv'
<1>1. Len(failures') = 0 /\ Len(wrong') = 0 /\ DOMAIN wrong' = {} /\ DOMAIN failures' = {}
      /\ failures' \in Seq(Int) /\ wrong' \in Seq(Int)
  OBVIOUS
<1>2. 0 < MAX_ATTEMPTS
  BY DEF LoginRule
<1>3. Stretches'
  <2>1. \A a, b \in Int : Between(wrong, a, b)' = {} /\ Between(failures, a, b)' = {}
    BY <1>1 DEF Between
  <2>2. ASSUME NEW a \in Int, NEW b \in Int PROVE Remembered(a, b)'
    <3>1. Between(wrong, a, b)' = {} /\ Between(failures, a, b)' = {}
      BY <2>1
    <3>2. Cardinality(Between(wrong, a, b)') <= Cardinality(Between(failures, a, b)')
      BY <3>1, FS_EmptySet
    <3> QED BY <3>2 DEF Remembered
  <2> QED BY <2>2 DEF Stretches
<1> QED BY <1>1, <1>2, <1>3
        DEF AttemptsInv, AttemptTypes, Counts, RequestTypes, Entrance!LockedForCause

(* The guard untouched, no request more in flight, and no stamp of the     *)
(* past more on its way.                                                   *)
LEMMA GuardUntouched ==
  ASSUME LoginRule, AttemptsInv, UNCHANGED <<failures, until, wrong, late>>,
         now' \in Int, now' >= now, RequestTypes(now)',
         InFlight' \subseteq InFlight,
         \A w \in Threads : req'[w].op = "wrong" /\ req'[w].now < now =>
                              req[w].op = "wrong" /\ req[w].now = req'[w].now
  PROVE  AttemptsInv'
<1>1. wrong \in Seq(Int) /\ failures \in Seq(Int) /\ until \in Int /\ now \in Int
      /\ \A k \in DOMAIN wrong : wrong[k] \in Int /\ wrong[k] <= now
  BY ElementOfSeq DEF AttemptsInv, AttemptTypes
<1>2. AttemptTypes'
  BY <1>1 DEF AttemptsInv, AttemptTypes, RequestTypes
<1>3. Counts' /\ Entrance!LockedForCause'
  BY DEF AttemptsInv, Counts, Entrance!LockedForCause, Entrance!WINDOW, Entrance!LOCK
<1>4. ASSUME NEW a \in Int, NEW b \in Int, Remembered(a, b) \/ ShutFor(a, b) \/ BehindUs(a, b)
      PROVE  (Remembered(a, b) \/ ShutFor(a, b) \/ BehindUs(a, b))'
  <2> DEFINE P == Cardinality(Between(wrong, a, b))
             C == Cardinality(InFlight)
             C1 == Cardinality(InFlight')
             D == Cardinality(OnTheWay(a, b))
             D1 == Cardinality(OnTheWay(a, b)')
             T == Cardinality(Threads)
             R == MAX_ATTEMPTS + T - 1
  <2>1. P \in Nat /\ R \in Int
    <3>1. Cardinality(Threads) \in Nat
      BY FS_CardinalityType DEF LoginRule
    <3> QED BY <1>1, <3>1, BetweenFinite DEF LoginRule
  <2>2. C \in Nat /\ C1 \in Nat /\ C1 <= C
    <3>1. InFlight \in SUBSET Threads
      BY DEF InFlight
    <3>2. IsFiniteSet(InFlight) /\ C \in Nat
      BY <3>1, SomeOfThreads
    <3> QED BY <3>2, FS_Subset, FS_CardinalityType
  <2>3. b < now => D \in Nat /\ D1 \in Nat /\ D1 <= D
    <3> SUFFICES ASSUME b < now PROVE D \in Nat /\ D1 \in Nat /\ D1 <= D
      OBVIOUS
    <3>1. OnTheWay(a, b) \in SUBSET Threads
      BY DEF OnTheWay
    <3>2. IsFiniteSet(OnTheWay(a, b)) /\ D \in Nat
      BY <3>1, SomeOfThreads
    <3>3. OnTheWay(a, b)' \in SUBSET OnTheWay(a, b)
      <4>1. ASSUME NEW v \in OnTheWay(a, b)' PROVE v \in OnTheWay(a, b)
        <5>1. v \in Threads /\ req'[v].op = "wrong" /\ req'[v].now \in a..b
          BY DEF OnTheWay
        <5>2. req'[v].now < now
          BY <1>1, <5>1
        <5> QED BY <5>1, <5>2 DEF OnTheWay
      <4> QED BY <4>1
    <3> QED BY <3>2, <3>3, FS_Subset, FS_CardinalityType
  <2>4. /\ ShutFor(a, b) => a <= now /\ b + TicksPerSecond <= until /\ P + C <= R
        /\ BehindUs(a, b) => b < now /\ P + D <= R
    BY DEF ShutFor, BehindUs, Room
  <2>5. Between(wrong, a, b)' = Between(wrong, a, b) /\ Between(failures, a, b)' = Between(failures, a, b)
    BY DEF Between
  <2>6. /\ ShutFor(a, b)' <=> a <= now' /\ b + TicksPerSecond <= until /\ P + C1 <= R
        /\ BehindUs(a, b)' <=> b < now' /\ P + D1 <= R
        /\ Remembered(a, b)' <=> Remembered(a, b)
    BY <2>5 DEF ShutFor, BehindUs, Remembered, Room
  <2> HIDE DEF P, C, C1, D, D1, R
  <2>7. CASE ShutFor(a, b)
    <3>1. P + C1 <= R
      BY <2>1, <2>2, <2>4, <2>7
    <3> QED BY <1>1, <2>4, <2>6, <2>7, <3>1
  <2>8. CASE BehindUs(a, b)
    <3>1. P + D1 <= R
      BY <2>1, <2>3, <2>4, <2>8
    <3> QED BY <1>1, <2>4, <2>6, <2>8, <3>1
  <2>9. CASE Remembered(a, b)
    BY <2>6, <2>9
  <2> QED BY <1>4, <2>7, <2>8, <2>9
<1>5. Stretches'
  <2>1. ASSUME NEW a \in Int, NEW b \in Int, b - a <= LOCK - TicksPerSecond - late'
        PROVE  (Remembered(a, b) \/ ShutFor(a, b) \/ BehindUs(a, b))'
    BY <1>4, <2>1 DEF AttemptsInv, Stretches
  <2> QED BY <2>1 DEF Stretches, LOCK
<1> QED BY <1>2, <1>3, <1>5 DEF AttemptsInv

(* The look at the lock: with no whole second left, every stretch a lock   *)
(* stood for is behind us.                                                 *)
LEMMA BeginKeepsAttempts ==
  ASSUME LoginRule, AttemptsInv, NEW w \in Threads, Entrance!Begin(w)
  PROVE  AttemptsInv'
<1> DEFINE r == [op |-> "checked", active |-> active, password |-> password]
<1>1. UNCHANGED <<now, failures, until, wrong, late>> /\ req' = [req EXCEPT ![w] = r]
      /\ req[w] = Entrance!Idle /\ Entrance!lock_remaining = 0
  BY DEF Entrance!Begin, Entrance!guard
<1>2. r.op = "checked"
  OBVIOUS
<1> HIDE DEF r
<1>3. AttemptTypes /\ now \in Int /\ until \in Int /\ TicksPerSecond \in Nat \ {0}
      /\ wrong \in Seq(Int)
  BY DEF AttemptsInv, AttemptTypes, LoginRule
<1>4. until < now + TicksPerSecond
  <2>1. until > now => (until - now) \div TicksPerSecond = 0
    BY <1>1, <1>3 DEF Entrance!lock_remaining
  <2> QED BY <1>3, <2>1
<1>5. \A v \in Threads : req'[v] = IF v = w THEN r ELSE req[v]
  BY <1>1, <1>3 DEF AttemptTypes
<1>6. AttemptTypes' /\ Counts' /\ Entrance!LockedForCause'
  <2>1. DOMAIN req' = Threads
        /\ \A v \in Threads : req'[v].op = "wrong" => req'[v].now \in Int /\ req'[v].now <= now'
    BY <1>1, <1>2, <1>3, <1>5 DEF AttemptTypes
  <2> QED BY <1>1, <2>1 DEF AttemptsInv, AttemptTypes, Counts, Entrance!LockedForCause,
             Entrance!WINDOW, Entrance!LOCK
<1>7. ASSUME NEW a \in Int, NEW b \in Int, Remembered(a, b) \/ ShutFor(a, b) \/ BehindUs(a, b)
      PROVE  (Remembered(a, b) \/ BehindUs(a, b))'
  <2>1. CASE Remembered(a, b)
    BY <1>1, <2>1 DEF Remembered, Between
  <2>2. CASE ShutFor(a, b) \/ BehindUs(a, b)
    <3> DEFINE P == Cardinality(Between(wrong, a, b))
               C == Cardinality(InFlight)
               D == Cardinality(OnTheWay(a, b))
    <3>1. OnTheWay(a, b)' = OnTheWay(a, b)
      BY <1>1, <1>2, <1>5, CheckedApart DEF OnTheWay
    <3>2. D <= C /\ D \in Nat /\ C \in Nat /\ P \in Nat /\ Room \in Int
      <4>1. InFlight \in SUBSET Threads /\ OnTheWay(a, b) \in SUBSET InFlight
        BY DEF InFlight, OnTheWay
      <4>2. IsFiniteSet(InFlight) /\ C \in Nat /\ Cardinality(Threads) \in Nat
        BY <4>1, SomeOfThreads
      <4>3. D <= C /\ D \in Nat
        BY <4>1, <4>2, FS_Subset, FS_CardinalityType
      <4> QED BY <1>3, <4>2, <4>3, BetweenFinite DEF Room, LoginRule
    <3>3. (ShutFor(a, b) => b + TicksPerSecond <= until /\ P + C <= Room)
          /\ (BehindUs(a, b) => b < now /\ P + D <= Room)
      BY DEF ShutFor, BehindUs
    <3> HIDE DEF P, C, D
    <3>4. b < now /\ P + D <= Room
      BY <1>3, <1>4, <2>2, <3>2, <3>3
    <3>5. Between(wrong, a, b)' = Between(wrong, a, b)
      BY <1>1 DEF Between
    <3>6. BehindUs(a, b)'
      BY <1>1, <3>1, <3>4, <3>5 DEF BehindUs, Room, P, D
    <3> QED BY <3>6
  <2> QED BY <1>7, <2>1, <2>2
<1>8. Stretches'
  <2>1. ASSUME NEW a \in Int, NEW b \in Int, b - a <= LOCK - TicksPerSecond - late'
        PROVE  (Remembered(a, b) \/ BehindUs(a, b))'
    BY <1>1, <1>7, <2>1 DEF AttemptsInv, Stretches
  <2> QED BY <2>1 DEF Stretches, LOCK
<1> QED BY <1>6, <1>8 DEF AttemptsInv

LEMMA AttemptsStepKeeps ==
  ASSUME LoginRule, LoginInv, AttemptsInv, [Entrance!Next]_(Entrance!vars)
  PROVE  AttemptsInv'
<1>1. now \in Int /\ DOMAIN req = Threads /\ RequestTypes(now)
  BY DEF AttemptsInv, AttemptTypes, RequestTypes
<1>2. ASSUME UNCHANGED <<failures, until, wrong, late, req>>, now' \in {now, now + 1}
      PROVE  AttemptsInv'
  <2>1. InFlight' = InFlight /\ now' \in Int /\ now' >= now
    BY <1>1, <1>2 DEF InFlight
  <2>2. RequestTypes(now)'
    BY <1>1, <1>2, <2>1 DEF RequestTypes
  <2> QED BY <1>2, <2>1, <2>2, GuardUntouched
<1>3. ASSUME NEW w \in Threads, Entrance!Right(w) \/ Entrance!Wrong(w) PROVE AttemptsInv'
  <2>1. UNCHANGED <<now, failures, until, wrong, late>> /\ req[w].op = "checked"
    BY <1>3 DEF Entrance!Right, Entrance!Wrong, Entrance!guard
  <2>2. PICK r \in {Entrance!Idle, Entrance!Entered, [op |-> "wrong", now |-> now]} :
          req' = [req EXCEPT ![w] = r]
    BY <1>3 DEF Entrance!Right, Entrance!Wrong, Entrance!Finish
  <2>3. r.op = "wrong" => r.now = now
    BY <2>2, CheckedApart
  <2>4. \A v \in Threads : req'[v] = IF v = w THEN r ELSE req[v]
    BY <1>1, <2>2
  <2>5. RequestTypes(now)'
    BY <1>1, <2>1, <2>2, <2>3, <2>4 DEF RequestTypes
  <2>6. InFlight' \subseteq InFlight
    BY <2>1, <2>4 DEF InFlight
  <2>7. \A v \in Threads : req'[v].op = "wrong" /\ req'[v].now < now =>
                             req[v].op = "wrong" /\ req[v].now = req'[v].now
    BY <1>1, <2>3, <2>4
  <2> QED BY <1>1, <2>1, <2>5, <2>6, <2>7, GuardUntouched
<1>4. ASSUME NEW w \in Threads, Entrance!reset(w) PROVE AttemptsInv'
  <2>1. now' = now /\ failures' = <<>> /\ wrong' = <<>> /\ until' = 0 /\ late' = 0
        /\ req' = [req EXCEPT ![w] = Entrance!Idle]
    BY <1>4 DEF Entrance!reset, Entrance!Finish
  <2>2. now' \in Int /\ RequestTypes(now)'
    BY <1>1, <2>1, CheckedApart DEF RequestTypes
  <2> QED BY <2>1, <2>2, ForgottenKeeps
<1>5. CASE Entrance!Restart
  <2>1. now' = now /\ failures' = <<>> /\ wrong' = <<>> /\ until' = 0 /\ late' = 0
        /\ req' = [w \in Threads |-> Entrance!Idle]
    BY <1>5 DEF Entrance!Restart
  <2>2. now' \in Int /\ RequestTypes(now)'
    BY <1>1, <2>1, CheckedApart DEF RequestTypes
  <2> QED BY <2>1, <2>2, ForgottenKeeps
<1>6. ASSUME Entrance!logout \/ Entrance!ChangePassword \/ Entrance!DeleteUser
             \/ Entrance!ResetPassword \/ Entrance!Tick \/ UNCHANGED Entrance!vars
             \/ \E a \in {"on", "off"}, p \in password..MaxPasswords : Entrance!EditUser(a, p)
      PROVE  AttemptsInv'
  <2>1. UNCHANGED <<failures, until, wrong, late, req>> /\ now' \in {now, now + 1}
    BY <1>6 DEF Entrance!logout, Entrance!ChangePassword, Entrance!DeleteUser, Entrance!ResetPassword,
       Entrance!Tick, Entrance!EditUser, Entrance!Written, Entrance!guard, Entrance!vars
  <2> QED BY <1>2, <2>1
<1>7. CASE \E w \in Threads : Entrance!Begin(w) \/ Entrance!register_failure(w)
  BY <1>7, BeginKeepsAttempts, RegisterKeepsAttempts
<1> QED BY <1>3, <1>4, <1>5, <1>6, <1>7, Zenon DEF Entrance!Next

LEMMA AttemptsInit == ASSUME LoginRule, Entrance!Init PROVE AttemptsInv
<1>1. now = 1 /\ failures = <<>> /\ wrong = <<>> /\ until = 0 /\ late = 0
      /\ req = [w \in Threads |-> Entrance!Idle]
  BY DEF Entrance!Init
<1>2. Len(failures) = 0 /\ Len(wrong) = 0 /\ DOMAIN wrong = {} /\ DOMAIN failures = {}
      /\ failures \in Seq(Int) /\ wrong \in Seq(Int)
  BY <1>1
<1>3. 0 < MAX_ATTEMPTS
  BY DEF LoginRule
<1>4. AttemptTypes
  BY <1>1, <1>2, <1>3, CheckedApart DEF AttemptTypes
<1>5. Stretches
  <2>1. \A a, b \in Int : Between(wrong, a, b) = {} /\ Between(failures, a, b) = {}
    BY <1>2 DEF Between
  <2>2. \A a, b \in Int : Remembered(a, b)
    BY <2>1, FS_EmptySet DEF Remembered
  <2> QED BY <2>2 DEF Stretches
<1> QED BY <1>1, <1>2, <1>4, <1>5 DEF AttemptsInv, Counts, Entrance!LockedForCause

LEMMA AttemptsInvImplies ==
  ASSUME LoginRule, AttemptsInv PROVE Entrance!FewAttempts /\ Entrance!LockedForCause
<1>1. wrong \in Seq(Int) /\ failures \in Seq(Int) /\ Len(failures) < MAX_ATTEMPTS /\ late \in Nat
      /\ Len(failures) \in Nat /\ MAX_ATTEMPTS \in Nat
  BY DEF AttemptsInv, AttemptTypes, LoginRule
<1>2. Cardinality(Threads) \in Nat /\ LOCK \in Int /\ TicksPerSecond \in Nat
  BY FS_CardinalityType, LockFits DEF LoginRule
<1>3. ASSUME NEW a \in Int, NEW b \in Int, b = a + LOCK - TicksPerSecond - late
      PROVE  Cardinality(Between(wrong, a, b)) <= MAX_ATTEMPTS + Cardinality(Threads) - 1
  <2> DEFINE P == Cardinality(Between(wrong, a, b))
             G == Cardinality(Between(failures, a, b))
             T == Cardinality(Threads)
  <2>1. P \in Nat /\ G \in Nat /\ G <= Len(failures)
    BY <1>1, BetweenFinite
  <2>2. b - a <= LOCK - TicksPerSecond - late
    BY <1>1, <1>2, <1>3
  <2>3. Remembered(a, b) \/ ShutFor(a, b) \/ BehindUs(a, b)
    BY <2>2 DEF AttemptsInv, Stretches
  <2>4. Cardinality(InFlight) \in Nat /\ Cardinality(OnTheWay(a, b)) \in Nat
    <3>1. InFlight \in SUBSET Threads /\ OnTheWay(a, b) \in SUBSET Threads
      BY DEF InFlight, OnTheWay
    <3> QED BY <3>1, SomeOfThreads
  <2>5. P <= G \/ P + Cardinality(InFlight) <= MAX_ATTEMPTS + T - 1
        \/ P + Cardinality(OnTheWay(a, b)) <= MAX_ATTEMPTS + T - 1
    BY <2>3 DEF Remembered, ShutFor, BehindUs, Room
  <2> HIDE DEF P, G, T
  <2>6. T \in Nat
    BY <1>2 DEF T
  <2> QED BY <1>1, <2>1, <2>4, <2>5, <2>6 DEF P, T
<1>4. ASSUME NEW i \in DOMAIN wrong
      PROVE  Cardinality({j \in DOMAIN wrong :
               wrong[j] \in wrong[i]..(wrong[i] + LOCK - TicksPerSecond - late)})
                 <= MAX_ATTEMPTS + Cardinality(Threads) - 1
  <2> DEFINE a == wrong[i]
             b == a + LOCK - TicksPerSecond - late
  <2>1. a \in Int
    BY <1>1, <1>4, ElementOfSeq
  <2> HIDE DEF a
  <2>2. b \in Int
    BY <1>1, <1>2, <2>1
  <2>3. Cardinality(Between(wrong, a, b)) <= MAX_ATTEMPTS + Cardinality(Threads) - 1
    BY <1>3, <2>1, <2>2
  <2> QED BY <2>3 DEF Between, a
<1> QED BY <1>4, LoginCardinality, RuleOfEntrance DEF AttemptsInv, Entrance!FewAttempts

-----------------------------------------------------------------------------
(* RateLimit.  Of a stretch of time either everything that was let through *)
(* is in the bucket still, or the stretch is over, and only who read the   *)
(* clock in it can add to it: fewer than all, because whoever dropped a    *)
(* stamp of it had read a later time.                                      *)

InStretch(s, t) == Between(s, t - Period, t)
Held(t) == Cardinality(InStretch(passed, t)) <= Cardinality(InStretch(bucket, t))
Late(t) == {w \in Threads : req[w].op = "arrived" /\ req[w].now <= t}
Over(t) ==
  /\ t < second
  /\ Cardinality(InStretch(passed, t)) + Cardinality(Late(t)) <= Limit + Cardinality(Threads) - 1

Arrived == [op : {"arrived"}, now : Int]
LetIn == [op |-> "passed"]

TrafficTypes ==
  /\ second \in Int
  /\ bucket \in Seq(Int) /\ Len(bucket) <= Limit
  /\ passed \in Seq(Int)
  /\ req \in [Threads -> {Traffic!Idle, LetIn} \cup Arrived]
  /\ \A w \in Threads : req[w].op = "arrived" => req[w].now <= second

TrafficInv == TrafficTypes /\ \A t \in Int : Held(t) \/ Over(t)

TrafficRule == Limit \in Nat /\ Period \in Int /\ IsFiniteSet(Threads) /\ Threads # {}

LEMMA TrafficCardinality == \A S : Traffic!Cardinality(S) = Cardinality(S)
BY Zenon DEF Traffic!Cardinality, Cardinality

LEMMA KeptIs ==
  \A c : Traffic!Kept(c) = SubSeq(bucket, FirstFrom(bucket, c), Len(bucket))
<1>1. \A S : Traffic!Min(S) = Min(S)
  BY Zenon DEF Traffic!Min, Min
<1> QED BY <1>1, Zenon DEF Traffic!Kept, FirstFrom

LEMMA KeptType ==
  ASSUME TrafficRule, TrafficInv, NEW c \in Int
  PROVE  /\ Traffic!Kept(c - Period) \in Seq(Int) /\ Len(Traffic!Kept(c - Period)) \in Nat
         /\ Len(Traffic!Kept(c - Period)) <= Len(bucket)
<1> DEFINE n == FirstFrom(bucket, c - Period)
           q == SubSeq(bucket, n, Len(bucket))
<1>1. bucket \in Seq(Int) /\ Len(bucket) \in Nat /\ c - Period \in Int
      /\ \A i \in 1..Len(bucket) : bucket[i] \in Int
  BY ElementOfSeq DEF TrafficInv, TrafficTypes, TrafficRule
<1>2. n \in 1..(Len(bucket) + 1)
  BY <1>1, FirstFromIs
<1> HIDE DEF n
<1>3. n \in Int /\ \A i \in n..Len(bucket) : bucket[i] \in Int
  BY <1>1, <1>2
<1>4. q \in Seq(Int) /\ Len(q) = IF n <= Len(bucket) THEN Len(bucket) - n + 1 ELSE 0
  BY <1>1, <1>3, SubSeqProperties
<1>5. Len(q) \in Nat /\ Len(q) <= Len(bucket)
  BY <1>1, <1>2, <1>4
<1> QED BY <1>4, <1>5, KeptIs DEF n

LEMMA ArrivedApart ==
  /\ Traffic!Idle.op # "arrived" /\ LetIn.op # "arrived"
  /\ Traffic!Idle.op # "passed" /\ LetIn.op = "passed"
  /\ \A r \in Arrived : r.op = "arrived" /\ r.now \in Int
BY DEF Traffic!Idle, LetIn, Arrived

LEMMA StretchFinite ==
  ASSUME TrafficRule, NEW s \in Seq(Int), NEW t \in Int
  PROVE  /\ Cardinality(InStretch(s, t)) \in Nat
         /\ Cardinality(InStretch(s, t)) <= Len(s)
BY BetweenFinite DEF InStretch, TrafficRule

LEMMA StretchGrows ==
  ASSUME TrafficRule, NEW s \in Seq(Int), NEW t \in Int, NEW x \in Int
  PROVE  Cardinality(InStretch(Append(s, x), t)) =
           Cardinality(InStretch(s, t)) + (IF x \in (t - Period)..t THEN 1 ELSE 0)
BY BetweenGrows DEF InStretch, TrafficRule

LEMMA StretchKept ==
  ASSUME TrafficRule, NEW s \in Seq(Int), NEW t \in Int, NEW n \in 1..(Len(s) + 1),
         \A i \in 1..(n - 1) : s[i] \notin (t - Period)..t
  PROVE  Cardinality(InStretch(s, t)) <= Cardinality(InStretch(SubSeq(s, n, Len(s)), t))
BY BetweenKept DEF InStretch, TrafficRule

LEMMA LateIs ==
  ASSUME TrafficRule, NEW t \in Int
  PROVE  /\ Late(t) \in SUBSET Threads /\ IsFiniteSet(Late(t)) /\ Cardinality(Late(t)) \in Nat
         /\ Cardinality(Threads) \in Nat /\ Cardinality(Threads) >= 1
         /\ Cardinality(Late(t)) <= Cardinality(Threads)
<1>1. Late(t) \in SUBSET Threads
  BY DEF Late
<1>2. Cardinality(Threads) \in Nat /\ Cardinality(Threads) # 0
  BY FS_CardinalityType, FS_EmptySet DEF TrafficRule
<1> QED BY <1>1, <1>2, FS_Subset, FS_CardinalityType DEF TrafficRule

LEMMA LateIsNext ==
  ASSUME TrafficRule, NEW t \in Int
  PROVE  /\ Late(t)' \in SUBSET Threads /\ IsFiniteSet(Late(t)') /\ Cardinality(Late(t)') \in Nat
<1>1. Late(t)' \in SUBSET Threads
  BY DEF Late
<1> QED BY <1>1, FS_Subset, FS_CardinalityType DEF TrafficRule

(* Who is among the late ones no more, and who was not.                    *)
LEMMA LateLess ==
  ASSUME TrafficRule, TrafficInv, NEW t \in Int, NEW w \in Threads,
         NEW r \in {Traffic!Idle, LetIn}, req' = [req EXCEPT ![w] = r]
  PROVE  /\ Cardinality(Late(t)') <= Cardinality(Late(t))
         /\ w \in Late(t) => Cardinality(Late(t)') = Cardinality(Late(t)) - 1
         /\ Cardinality(Late(t)') <= Cardinality(Threads) - 1
<1>1. req'[w] = r /\ \A v \in Threads \ {w} : req'[v] = req[v]
  BY DEF TrafficInv, TrafficTypes
<1>2. r.op # "arrived"
  BY ArrivedApart
<1>3. Late(t)' = Late(t) \ {w}
  BY <1>1, <1>2 DEF Late
<1>4. /\ Cardinality(Late(t) \ {w}) = IF w \in Late(t) THEN Cardinality(Late(t)) - 1 ELSE Cardinality(Late(t))
      /\ Cardinality(Threads \ {w}) = Cardinality(Threads) - 1 /\ IsFiniteSet(Threads \ {w})
  BY LateIs, FS_RemoveElement DEF TrafficRule
<1>5. Late(t)' \in SUBSET (Threads \ {w})
  BY <1>3, LateIs
<1>6. Cardinality(Late(t)') <= Cardinality(Threads \ {w})
  BY <1>4, <1>5, FS_Subset
<1> QED BY <1>3, <1>4, <1>6, LateIs

(* Stamps that are too old are dropped by one who is late no more: what    *)
(* may still be added to the stretch, his own call included, has room.     *)
LEMMA DropKeeps ==
  ASSUME TrafficRule, TrafficInv, NEW t \in Int, NEW w \in Threads,
         NEW r \in {Traffic!Idle, LetIn}, req' = [req EXCEPT ![w] = r],
         NEW c \in Int, c <= second, req[w].op = "arrived" => req[w].now = c,
         NEW kept, kept = Traffic!Kept(c - Period)
  PROVE  \/ Cardinality(InStretch(passed, t)) <= Cardinality(InStretch(kept, t))
         \/ /\ t < second
            /\ Cardinality(InStretch(passed, t)) + Cardinality(Late(t)') +
                 (IF w \in Late(t) THEN 1 ELSE 0) <= Limit + Cardinality(Threads) - 1
<1> DEFINE n == FirstFrom(bucket, c - Period)
<1>1. bucket \in Seq(Int) /\ passed \in Seq(Int) /\ Len(bucket) \in Nat /\ Len(bucket) <= Limit
      /\ Period \in Int /\ Limit \in Nat /\ c - Period \in Int /\ second \in Int
      /\ \A i \in 1..Len(bucket) : bucket[i] \in Int
  BY ElementOfSeq DEF TrafficInv, TrafficTypes, TrafficRule
<1>2. n \in 1..(Len(bucket) + 1) /\ \A i \in 1..(n - 1) : bucket[i] < c - Period
  BY <1>1, FirstFromIs
<1>3. kept = SubSeq(bucket, n, Len(bucket)) /\ kept \in Seq(Int)
  BY KeptType, KeptIs
<1> HIDE DEF n
<1> DEFINE P == Cardinality(InStretch(passed, t))
           B == Cardinality(InStretch(bucket, t))
           K == Cardinality(InStretch(kept, t))
           A == Cardinality(Late(t))
           Z == Cardinality(Late(t)')
           T == Cardinality(Threads)
<1>5. P \in Nat /\ B \in Nat /\ K \in Nat /\ B <= Len(bucket)
  BY <1>1, <1>3, StretchFinite
<1>6. /\ A \in Nat /\ Z \in Nat /\ T \in Nat /\ Z <= A /\ Z <= T - 1
      /\ w \in Late(t) => Z = A - 1
  BY LateIs, LateIsNext, LateLess
<1>7. P <= B \/ (t < second /\ P + A <= Limit + T - 1)
  BY DEF TrafficInv, Held, Over
<1>8. (\A i \in 1..(n - 1) : bucket[i] \notin (t - Period)..t) => B <= K
  BY <1>1, <1>2, <1>3, StretchKept
<1>9. t < c => w \notin Late(t)
  BY <1>1 DEF Late
<1>10. ASSUME NEW i \in 1..(n - 1), bucket[i] \in (t - Period)..t PROVE t < c
  <2>1. bucket[i] \in Int /\ bucket[i] < c - Period /\ t - Period <= bucket[i]
    BY <1>1, <1>2, <1>10
  <2> QED BY <1>1, <2>1
<1> HIDE DEF P, B, K, A, Z, T
<1>11. CASE t < second /\ P + A <= Limit + T - 1
  <2>1. P + Z + (IF w \in Late(t) THEN 1 ELSE 0) <= Limit + T - 1
    BY <1>1, <1>5, <1>6, <1>11
  <2> QED BY <1>11, <2>1 DEF P, Z, T
<1>12. CASE P <= B /\ B <= K
  <2>1. P <= K
    BY <1>5, <1>12
  <2> QED BY <2>1 DEF P, K
<1>13. CASE P <= B /\ ~(B <= K)
  <2>1. t < c /\ w \notin Late(t)
    BY <1>8, <1>9, <1>10, <1>13
  <2>2. t < second
    BY <1>1, <2>1
  <2>3. P + Z + (IF w \in Late(t) THEN 1 ELSE 0) <= Limit + T - 1
    BY <1>1, <1>5, <1>6, <1>13, <2>1
  <2> QED BY <2>2, <2>3 DEF P, Z, T
<1> QED BY <1>7, <1>11, <1>12, <1>13

LEMMA HitKeeps ==
  ASSUME TrafficRule, TrafficInv, NEW w \in Threads, Traffic!hit(w) PROVE TrafficInv'
<1> DEFINE c == req[w].now
           kept == Traffic!Kept(c - Period)
<1>1. req[w].op = "arrived" /\ c \in Int /\ c <= second /\ second' = second
  BY ArrivedApart DEF Traffic!hit, TrafficInv, TrafficTypes
<1>2. kept \in Seq(Int) /\ Len(kept) <= Len(bucket) /\ Len(kept) \in Nat
  BY <1>1, KeptType
<1>3. /\ passed \in Seq(Int) /\ bucket \in Seq(Int) /\ Len(bucket) <= Limit /\ Len(bucket) \in Nat
      /\ Limit \in Nat /\ Period \in Int /\ second \in Int
      /\ req \in [Threads -> {Traffic!Idle, LetIn} \cup Arrived]
  BY DEF TrafficInv, TrafficTypes, TrafficRule
<1>4. \/ /\ bucket' = kept /\ req' = [req EXCEPT ![w] = Traffic!Idle] /\ passed' = passed
      \/ /\ Len(kept) < Limit /\ bucket' = Append(kept, c) /\ passed' = Append(passed, c)
         /\ req' = [req EXCEPT ![w] = LetIn]
  <2>1. IF Len(kept) >= Limit
        THEN bucket' = kept /\ req' = [req EXCEPT ![w] = Traffic!Idle] /\ UNCHANGED passed
        ELSE bucket' = Append(kept, c) /\ req' = [req EXCEPT ![w] = LetIn]
             /\ passed' = Append(passed, c)
    BY DEF Traffic!hit, LetIn
  <2> HIDE DEF kept, c
  <2> QED BY <1>2, <1>3, <2>1
<1> HIDE DEF c, kept
<1>5. PICK r \in {Traffic!Idle, LetIn} : req' = [req EXCEPT ![w] = r]
  BY <1>4
<1>6. TrafficTypes'
  <2>1. bucket' \in Seq(Int) /\ Len(bucket') <= Limit /\ passed' \in Seq(Int)
    <3>1. CASE bucket' = kept /\ passed' = passed
      BY <1>2, <1>3, <3>1
    <3>2. CASE Len(kept) < Limit /\ bucket' = Append(kept, c) /\ passed' = Append(passed, c)
      <4>1. Len(bucket') = Len(kept) + 1 /\ bucket' \in Seq(Int) /\ passed' \in Seq(Int)
        BY <1>1, <1>2, <1>3, <3>2
      <4> QED BY <1>2, <1>3, <3>2, <4>1
    <3> QED BY <1>4, <3>1, <3>2
  <2>2. req' \in [Threads -> {Traffic!Idle, LetIn} \cup Arrived]
    BY <1>3, <1>5
  <2>3. \A v \in Threads : req'[v].op = "arrived" => req'[v].now <= second
    BY <1>3, <1>5, ArrivedApart DEF TrafficInv, TrafficTypes
  <2> QED BY <1>1, <1>3, <2>1, <2>2, <2>3 DEF TrafficTypes
<1>7. ASSUME NEW t \in Int PROVE Held(t)' \/ Over(t)'
  <2> DEFINE P == Cardinality(InStretch(passed, t))
             K == Cardinality(InStretch(kept, t))
             Z == Cardinality(Late(t)')
             T == Cardinality(Threads)
             x == IF c \in (t - Period)..t THEN 1 ELSE 0
  <2>1. P <= K \/ (t < second /\ P + Z + (IF w \in Late(t) THEN 1 ELSE 0) <= Limit + T - 1)
    BY <1>1, <1>5, DropKeeps DEF c, kept
  <2>2. P \in Nat /\ K \in Nat /\ Z \in Nat /\ T \in Nat /\ x \in {0, 1}
    BY <1>2, <1>3, StretchFinite, LateIs, LateIsNext
  <2>3. /\ Cardinality(InStretch(Append(passed, c), t)) = P + x
        /\ Cardinality(InStretch(Append(kept, c), t)) = K + x
    BY <1>1, <1>2, <1>3, StretchGrows
  <2>4. x <= IF w \in Late(t) THEN 1 ELSE 0
    BY <1>1, <1>3 DEF Late, c
  <2>5. /\ Held(t)' <=> Cardinality(InStretch(passed', t)) <= Cardinality(InStretch(bucket', t))
        /\ Over(t)' <=> t < second /\ Cardinality(InStretch(passed', t)) + Z <= Limit + T - 1
    BY <1>1 DEF Held, Over, InStretch
  <2> HIDE DEF P, K, Z, T, x
  <2>6. CASE bucket' = kept /\ passed' = passed
    <3>1. P <= K \/ (t < second /\ P + Z <= Limit + T - 1)
      BY <1>3, <2>1, <2>2
    <3> QED BY <2>5, <2>6, <3>1 DEF P, K
  <2>7. CASE bucket' = Append(kept, c) /\ passed' = Append(passed, c)
    <3>1. P + x <= K + x \/ (t < second /\ P + x + Z <= Limit + T - 1)
      BY <1>3, <2>1, <2>2, <2>4
    <3> QED BY <2>3, <2>5, <2>7, <3>1
  <2> QED BY <1>4, <2>6, <2>7
<1> QED BY <1>6, <1>7 DEF TrafficInv

LEMMA RemainingKeeps ==
  ASSUME TrafficRule, TrafficInv, NEW w \in Threads, Traffic!remaining(w) PROVE TrafficInv'
<1>1. /\ req[w].op = "passed" /\ bucket' = Traffic!Kept(second - Period)
      /\ req' = [req EXCEPT ![w] = Traffic!Idle] /\ UNCHANGED <<second, passed>>
  BY DEF Traffic!remaining
<1>2. /\ second \in Int /\ second <= second /\ passed \in Seq(Int) /\ Limit \in Nat
      /\ Len(bucket) <= Limit /\ Len(bucket) \in Nat
      /\ req \in [Threads -> {Traffic!Idle, LetIn} \cup Arrived]
  BY DEF TrafficInv, TrafficTypes, TrafficRule
<1>3. bucket' \in Seq(Int) /\ Len(bucket') <= Len(bucket) /\ Len(bucket') \in Nat
  BY <1>1, <1>2, KeptType
<1>4. TrafficTypes'
  <2>1. Len(bucket') <= Limit
    BY <1>2, <1>3
  <2>2. req' \in [Threads -> {Traffic!Idle, LetIn} \cup Arrived]
    BY <1>1, <1>2
  <2>3. \A v \in Threads : req'[v].op = "arrived" => req'[v].now <= second
    BY <1>1, <1>2, ArrivedApart DEF TrafficInv, TrafficTypes
  <2> QED BY <1>1, <1>2, <1>3, <2>1, <2>2, <2>3 DEF TrafficTypes
<1>5. ASSUME NEW t \in Int PROVE Held(t)' \/ Over(t)'
  <2> DEFINE P == Cardinality(InStretch(passed, t))
             K == Cardinality(InStretch(bucket', t))
             Z == Cardinality(Late(t)')
             T == Cardinality(Threads)
  <2>1. P <= K \/ (t < second /\ P + Z + (IF w \in Late(t) THEN 1 ELSE 0) <= Limit + T - 1)
    BY <1>1, <1>2, DropKeeps
  <2>2. P \in Nat /\ K \in Nat /\ Z \in Nat /\ T \in Nat
    BY <1>2, <1>3, StretchFinite, LateIs, LateIsNext
  <2>3. /\ Held(t)' <=> P <= K
        /\ Over(t)' <=> t < second /\ P + Z <= Limit + T - 1
    BY <1>1 DEF Held, Over, InStretch
  <2> HIDE DEF P, K, Z, T
  <2> QED BY <1>2, <2>1, <2>2, <2>3
<1> QED BY <1>4, <1>5 DEF TrafficInv

(* Who reads the clock now is late for no stretch that is over.            *)
LEMMA ArriveKeeps ==
  ASSUME TrafficRule, TrafficInv, NEW w \in Threads, Traffic!Arrive(w) PROVE TrafficInv'
<1> DEFINE r == [op |-> "arrived", now |-> second]
<1>1. r \in Arrived /\ r.op = "arrived" /\ r.now = second /\ second \in Int
  BY DEF TrafficInv, TrafficTypes, Arrived
<1>2. req' = [req EXCEPT ![w] = r] /\ UNCHANGED <<second, bucket, passed>>
      /\ req \in [Threads -> {Traffic!Idle, LetIn} \cup Arrived]
  BY DEF Traffic!Arrive, TrafficInv, TrafficTypes
<1> HIDE DEF r
<1>3. TrafficTypes'
  BY <1>1, <1>2 DEF TrafficInv, TrafficTypes
<1>4. ASSUME NEW t \in Int PROVE Held(t)' \/ Over(t)'
  <2>1. CASE Held(t)
    BY <1>2, <2>1 DEF Held, InStretch
  <2>2. CASE Over(t)
    <3>1. ~(second <= t)
      BY <1>1, <2>2 DEF Over
    <3>2. Late(t)' \in SUBSET Late(t)
      BY <1>1, <1>2, <3>1 DEF Late
    <3>3. Cardinality(Late(t)') <= Cardinality(Late(t))
      BY <3>2, LateIs, FS_Subset
    <3>4. Cardinality(InStretch(passed, t)) \in Nat /\ Limit \in Nat
      BY StretchFinite DEF TrafficInv, TrafficTypes, TrafficRule
    <3>5. Cardinality(InStretch(passed, t)) + Cardinality(Late(t)')
            <= Limit + Cardinality(Threads) - 1
      BY <2>2, <3>3, <3>4, LateIs, LateIsNext DEF Over
    <3> QED BY <1>2, <2>2, <3>5 DEF Over, InStretch
  <2> QED BY <2>1, <2>2 DEF TrafficInv
<1> QED BY <1>3, <1>4 DEF TrafficInv

LEMMA TrafficStepKeeps ==
  ASSUME TrafficRule, TrafficInv, [Traffic!Next]_(Traffic!vars) PROVE TrafficInv'
<1>1. CASE Traffic!Tick \/ UNCHANGED Traffic!vars
  <2>1. UNCHANGED <<bucket, passed, req>> /\ second' \in Int /\ second' >= second /\ second \in Int
    BY <1>1 DEF Traffic!Tick, Traffic!vars, TrafficInv, TrafficTypes
  <2>2. TrafficTypes'
    <3>1. \A w \in Threads : req[w].op = "arrived" => req[w].now \in Int /\ req[w].now <= second
      BY ArrivedApart DEF TrafficInv, TrafficTypes
    <3>2. \A w \in Threads : req'[w].op = "arrived" => req'[w].now <= second'
      BY <2>1, <3>1
    <3> QED BY <2>1, <3>2 DEF TrafficInv, TrafficTypes
  <2>3. ASSUME NEW t \in Int PROVE Held(t)' \/ Over(t)'
    <3>1. CASE Held(t)
      BY <2>1, <3>1 DEF Held, InStretch
    <3>2. CASE Over(t)
      BY <2>1, <3>2 DEF Over, InStretch, Late
    <3> QED BY <3>1, <3>2 DEF TrafficInv
  <2> QED BY <2>2, <2>3 DEF TrafficInv
<1>2. CASE \E w \in Threads : Traffic!Arrive(w) \/ Traffic!hit(w) \/ Traffic!remaining(w)
  BY <1>2, ArriveKeeps, HitKeeps, RemainingKeeps
<1> QED BY <1>1, <1>2, Zenon DEF Traffic!Next

LEMMA TrafficInit == ASSUME TrafficRule, Traffic!Init PROVE TrafficInv
<1>1. second = 1 /\ bucket = <<>> /\ passed = <<>> /\ req = [w \in Threads |-> Traffic!Idle]
  BY DEF Traffic!Init
<1>2. Len(bucket) = 0 /\ bucket \in Seq(Int) /\ 0 <= Limit
  BY <1>1 DEF TrafficRule
<1>3. TrafficTypes
  BY <1>1, <1>2, ArrivedApart DEF TrafficTypes
<1>4. \A t \in Int : Held(t)
  <2> TAKE t \in Int
  <2>1. Cardinality(InStretch(bucket, t)) \in Nat
    BY <1>2, StretchFinite
  <2> QED BY <1>1, <2>1 DEF Held
<1> QED BY <1>3, <1>4 DEF TrafficInv

LEMMA TrafficInvImplies == ASSUME TrafficRule, TrafficInv, LastSecond \in Int PROVE Traffic!NotFlooded
<1> SUFFICES ASSUME NEW t \in 1..LastSecond
             PROVE  Cardinality(InStretch(passed, t)) <= Limit + Cardinality(Threads) - 1
  BY TrafficCardinality DEF Traffic!NotFlooded, InStretch, Between
<1>1. t \in Int
  OBVIOUS
<1>6. /\ passed \in Seq(Int) /\ bucket \in Seq(Int) /\ Len(bucket) <= Limit
      /\ Len(bucket) \in Nat /\ Limit \in Nat
  BY DEF TrafficInv, TrafficTypes, TrafficRule
<1>2. /\ Cardinality(InStretch(passed, t)) \in Nat /\ Cardinality(InStretch(bucket, t)) \in Nat
      /\ Cardinality(InStretch(bucket, t)) <= Len(bucket)
  BY <1>1, <1>6, StretchFinite
<1>3. /\ Cardinality(Late(t)) \in Nat /\ Cardinality(Threads) \in Nat /\ Cardinality(Threads) >= 1
  BY <1>1, LateIs
<1>4. CASE Held(t)
  BY <1>2, <1>3, <1>4, <1>6 DEF Held
<1>5. CASE Over(t)
  BY <1>2, <1>3, <1>5, <1>6 DEF Over
<1> QED BY <1>1, <1>4, <1>5 DEF TrafficInv

-----------------------------------------------------------------------------
(* MCOffice, once more: the shells, the workers that may poll, the logins. *)

DesktopPart ==
  /\ part = "desktop" => DesktopInv
  /\ part = "poller" => PollerInv

(* Within at most one boot at a time.                                      *)
LEMMA BootsAlone ==
  ASSUME IsFiniteSet(Threads), PollerOK', Cardinality(OneOfMany!Booting') <= 1
  PROVE  OneBoot'
<1>1. OneOfMany!Booting' = {w \in Threads : Boots(w)'}
  BY DEF OneOfMany!Booting, Boots
<1>2. IsFiniteSet(OneOfMany!Booting')
  BY <1>1, FS_Subset
<1>3. \A v, w \in OneOfMany!Booting' : v = w
  BY <1>2, AtMostOne
<1> QED BY <1>1, <1>3 DEF OneBoot

LEMMA PollerStepKeeps ==
  ASSUME IsFiniteSet(Threads), Nobody \notin Pids, PollerInv, PollerStep
  PROVE  PollerInv'
<1>1. PollerOK'
  BY PollerTypeKept DEF PollerInv, PollerStep
<1>2. ASSUME alone' PROVE OneBoot' /\ Named'
  <2>1. alone /\ Cardinality(OneOfMany!Booting') <= 1
    BY <1>2 DEF PollerStep
  <2>2. Named'
    BY <2>1, NamedKept DEF PollerInv, PollerStep
  <2> QED BY <1>1, <2>1, <2>2, BootsAlone
<1> QED BY <1>1, <1>2 DEF PollerInv

(* A shell whose window says ready has its server, bound to the port it    *)
(* opens, and of the shells that asked for the lock one at most has a      *)
(* server; of the workers one polls, if no two booted at the same time,    *)
(* whatever pids come back.                                                *)
THEOREM DesktopSoundAlways ==
  ASSUME IsFiniteSet(Threads), NamesApart, Nobody \notin Pids
  PROVE  MCSpec => []DesktopSound
<1>1. MCInit => DesktopPart
  BY DesktopInit, PollerStart DEF MCInit, DesktopPart
<1>2. ASSUME DesktopPart, [MCNext]_mcvars PROVE DesktopPart'
  <2>1. part' = part
    BY <1>2 DEF MCNext, mcvars
  <2>2. ASSUME part = "desktop" PROVE DesktopInv'
    <3>1. DesktopStep \/ UNCHANGED desktop
      BY <1>2, <2>2 DEF MCNext, mcvars, Rest, Others
    <3>2. [Window!Next]_(Window!vars)
      BY <3>1 DEF DesktopStep, desktop, Window!vars
    <3> QED BY <1>2, <2>2, <3>2, DesktopStepKeeps DEF DesktopPart
  <2>3. ASSUME part = "poller" PROVE PollerInv'
    <3>1. PollerInv
      BY <1>2, <2>3 DEF DesktopPart
    <3>2. CASE PollerStep
      BY <3>1, <3>2, PollerStepKeeps
    <3>3. CASE UNCHANGED <<alone, poller>>
      BY <3>1, <3>3 DEF poller, PollerInv, PollerOK, OneBoot, Named, Boots
    <3>4. PollerStep \/ UNCHANGED <<alone, poller>>
      BY <1>2, <2>3 DEF MCNext, mcvars, Rest, Others
    <3> QED BY <3>2, <3>3, <3>4
  <2> QED BY <2>1, <2>2, <2>3 DEF DesktopPart
<1>3. DesktopPart => DesktopSound
  BY DesktopInvImplies, PollerInvImplies DEF DesktopPart, DesktopSound
<1> QED BY <1>1, <1>2, <1>3, PTL DEF MCSpec

LEMMA WordHolds ==
  ASSUME LoginInv, alone PROVE Entrance!ShutOut /\ Entrance!HonestPage
BY DEF LoginInv, WordKept, Entrance!ShutOut, Entrance!load_user

(* As long as no page changes a user while his login is under way, whom an *)
(* administrator has switched off is out, whatever his browsers hold, and  *)
(* the page of active sessions shows nobody who is blocked and no login    *)
(* with a password from before an administrator's.                         *)
THEOREM ShutOutAlways ==
  ASSUME MaxPasswords \in Int
  PROVE  MCSpec => [](part = "login" /\ alone => Entrance!ShutOut /\ Entrance!HonestPage)
<1> DEFINE Inv == part = "login" => LoginInv
<1>1. MCInit => Inv
  BY LoginInit DEF MCInit
<1>2. ASSUME Inv, [MCNext]_mcvars, part' = "login" PROVE LoginInv'
  <2>1. part = "login" /\ LoginInv
    BY <1>2 DEF MCNext, mcvars
  <2>2. CASE LoginStep
    BY <2>1, <2>2, LoginStepKeeps DEF LoginStep, AloneStep
  <2>3. CASE UNCHANGED <<alone, req, login>>
    BY <2>1, <2>3 DEF login, LoginInv, AccountOK, UpToDate, WordKept, Entrance!HonestPage,
       Entrance!is_blocked
  <2>4. LoginStep \/ UNCHANGED <<alone, req, login>>
    BY <1>2, <2>1 DEF MCNext, mcvars, Rest, Others
  <2> QED BY <2>2, <2>3, <2>4
<1>3. Inv /\ [MCNext]_mcvars => Inv'
  BY <1>2
<1>4. Inv => (part = "login" /\ alone => Entrance!ShutOut /\ Entrance!HonestPage)
  BY WordHolds
<1> QED BY <1>1, <1>3, <1>4, PTL DEF MCSpec

(* Nobody passes the guards: not a guesser, however late the requests that *)
(* are under way are counted and although the seconds left are rounded     *)
(* down; not a user who was switched off; not who was granted nothing; not *)
(* a flood (login_guard.py, auth.py, access_policy.py, rate_limit.py).     *)
THEOREM GuardKeepsItsRuleAlways ==
  ASSUME LoginRule, TrafficRule, MaxPasswords \in Int, LastSecond \in Int, "admin" \notin Modules
  PROVE  MCSpec => []GuardKeepsItsRule
<1> DEFINE Inv ==
      /\ part = "login" => LoginInv /\ AttemptsInv
      /\ part = "access" => AccessInv
      /\ part = "traffic" => TrafficInv
<1>1. MCInit => Inv
  <2>1. ASSUME MCInit, part = "login" PROVE LoginInv /\ AttemptsInv
    BY <2>1, LoginInit, AttemptsInit DEF MCInit
  <2>2. ASSUME MCInit, part = "access" PROVE AccessInv
    BY <2>2 DEF MCInit, Guard!Init, AccessInv, Guarded, Guard!Idle
  <2>3. ASSUME MCInit, part = "traffic" PROVE TrafficInv
    BY <2>3, TrafficInit DEF MCInit
  <2> QED BY <2>1, <2>2, <2>3
<1>2. ASSUME Inv, [MCNext]_mcvars, part' = "login" PROVE LoginInv' /\ AttemptsInv'
  <2>1. part = "login" /\ LoginInv /\ AttemptsInv
    BY <1>2 DEF MCNext, mcvars
  <2>2. CASE LoginStep
    BY <2>1, <2>2, LoginStepKeeps, AttemptsStepKeeps DEF LoginStep, AloneStep
  <2>3. CASE UNCHANGED <<alone, req, login>>
    <3>1. UNCHANGED Entrance!vars
      BY <2>3 DEF login, Entrance!vars, Entrance!guard, Entrance!account, Entrance!visits
    <3>2. AttemptsInv'
      BY <2>1, <3>1, AttemptsStepKeeps
    <3>3. LoginInv'
      BY <2>1, <2>3 DEF login, LoginInv, AccountOK, UpToDate, WordKept, Entrance!HonestPage,
         Entrance!is_blocked
    <3> QED BY <3>2, <3>3
  <2>4. LoginStep \/ UNCHANGED <<alone, req, login>>
    BY <1>2, <2>1 DEF MCNext, mcvars, Rest, Others
  <2> QED BY <2>2, <2>3, <2>4
<1>3. ASSUME Inv, [MCNext]_mcvars, part' = "access" PROVE AccessInv'
  <2>1. part = "access" /\ AccessInv
    BY <1>3 DEF MCNext, mcvars
  <2>2. Guard!Next \/ UNCHANGED <<req, access>>
    BY <1>3, <2>1 DEF MCNext, mcvars, Rest, Others, AccessStep
  <2>3. UNCHANGED <<req, access>> => UNCHANGED Guard!vars
    BY DEF access, Guard!vars
  <2> QED BY <2>1, <2>2, <2>3, AccessStepKeeps
<1>4. ASSUME Inv, [MCNext]_mcvars, part' = "traffic" PROVE TrafficInv'
  <2>1. part = "traffic" /\ TrafficInv
    BY <1>4 DEF MCNext, mcvars
  <2>2. Traffic!Next \/ UNCHANGED <<req, traffic>>
    BY <1>4, <2>1 DEF MCNext, mcvars, Rest, Others, TrafficStep
  <2>3. UNCHANGED <<req, traffic>> => UNCHANGED Traffic!vars
    BY DEF traffic, Traffic!vars
  <2> QED BY <2>1, <2>2, <2>3, TrafficStepKeeps
<1>5. Inv /\ [MCNext]_mcvars => Inv'
  BY <1>2, <1>3, <1>4
<1>6. Inv => GuardKeepsItsRule
  <2>1. ASSUME AccessInv PROVE Guard!WritersAreGranted
    BY <2>1, GuardedWrites DEF AccessInv, Guard!WritersAreGranted
  <2>2. ASSUME LoginInv, AttemptsInv
        PROVE  /\ Entrance!FewAttempts /\ Entrance!LockedForCause
               /\ alone => Entrance!ShutOut /\ Entrance!HonestPage
    BY <2>2, AttemptsInvImplies, WordHolds
  <2>3. ASSUME TrafficInv PROVE Traffic!NotFlooded
    BY <2>3, TrafficInvImplies
  <2> QED BY <2>1, <2>2, <2>3 DEF GuardKeepsItsRule
<1> QED BY <1>1, <1>5, <1>6, PTL DEF MCSpec

-----------------------------------------------------------------------------
(* Treasury.  What a request has in hand still holds when it commits, if   *)
(* nothing it relies on was changed: fund and categories as they are then. *)

FundRow == [opening : Int, balance : Int]
MoveRow == [kind : {"deposit", "withdrawal"}, amount : Int, after : Int]
ChequeRow == [status : Money!Statuses, bounced : Int \cup {None}]
CodeRow == [most : Int \cup {None}, first : Int \cup {None}, last : Int \cup {None}, used : Int]

(* NULL is no number and no row.                                           *)
NoneApart == None \notin Int /\ None \notin FundRow /\ None \notin CodeRow

TreasuryTables ==
  /\ fund \in FundRow \/ (fund = None /\ moves = <<>>)
  /\ moves \in Seq(MoveRow)
  /\ cheques \in Seq(ChequeRow)
  /\ expenses \in Seq(DOMAIN categories)
  /\ discount \in CodeRow \/ (discount = None /\ enrolled = <<>>)
  /\ enrolled \in Seq(Int)
  /\ today \in Int
  /\ req = [w \in Threads |-> req[w]]

Dated(cheque) == cheque.status = "bounced" => cheque.bounced # None

CodeHolds ==
  discount \in CodeRow =>
    /\ discount.used = Len(enrolled)
    /\ discount.most # None => discount.used <= discount.most

(* The request r, with these rows in the tables.                           *)
InHand(r, account, drawn, kinds, single) ==
  /\ r.op = "move" =>
       /\ r.kind \in {"deposit", "withdrawal"} /\ r.amount \in Int /\ r.after \in Int
       /\ account \in FundRow
       /\ single => r.after = account.balance + Money!Signed(r)
  /\ r.op = "cheque" =>
       /\ r.n \in DOMAIN drawn /\ r.status \in Money!Statuses /\ r.loaded \in ChequeRow
       /\ Dated(r.loaded)
       /\ r.loaded.bounced # None => drawn[r.n].bounced # None
  /\ single /\ r.op = "category" => \A c \in DOMAIN kinds : kinds[c].name # r.name
  /\ single /\ r.op = "rename" => \A c \in DOMAIN kinds \ {r.id} : kinds[c].name # r.name

TreasuryInv ==
  /\ TreasuryTables
  /\ \A n \in DOMAIN cheques : Dated(cheques[n])
  /\ CodeHolds
  /\ \A w \in Threads : InHand(req[w], fund, cheques, categories, alone)
  /\ alone => Money!BooksOfTheBank

TreasuryAlone ==
  alone' = (alone /\ ~Overlap(<<fund, categories>>, <<fund, categories>>'))

LEMMA TreasuryInit == ASSUME NoneApart, Money!Init PROVE TreasuryInv
<1>1. TreasuryTables /\ CodeHolds
  BY DEF Money!Init, TreasuryTables, CodeHolds, NoneApart
<1>2. \A w \in Threads : InHand(req[w], fund, cheques, categories, alone)
  BY DEF Money!Init, Money!Idle, InHand
<1>3. Money!BooksOfTheBank
  BY DEF Money!Init, Money!BooksOfTheBank
<1> QED BY <1>1, <1>2, <1>3 DEF Money!Init, TreasuryInv

LEMMA NothingInHand ==
  ASSUME NEW account, NEW drawn, NEW kinds, NEW single
  PROVE  InHand(Money!Idle, account, drawn, kinds, single)
  BY DEF InHand, Money!Idle

(* What a request has in hand outlives the steps of others.                *)
LEMMA StillInHand ==
  ASSUME TreasuryInv, TreasuryAlone, NEW v \in Threads, req'[v] = req[v],
         fund \in FundRow => fund' \in FundRow,
         DOMAIN cheques \subseteq DOMAIN cheques',
         \A n \in DOMAIN cheques : cheques[n].bounced # None => cheques'[n].bounced # None
  PROVE  InHand(req'[v], fund', cheques', categories', alone')
<1>1. CASE req[v] = Money!Idle
  BY <1>1, NothingInHand
<1>2. CASE req[v] # Money!Idle
  <2>1. InHand(req[v], fund, cheques, categories, alone)
    BY DEF TreasuryInv
  <2>2. alone' => alone /\ fund' = fund /\ categories' = categories
    BY <1>2 DEF TreasuryAlone, Overlap, Idle, Money!Idle
  <2> QED BY <2>1, <2>2 DEF InHand
<1> QED BY <1>1, <1>2

(* A request that begins leaves the tables alone.                          *)
LEMMA TreasuryBegin ==
  ASSUME TreasuryInv, TreasuryAlone, NEW w \in Threads, NEW r, Money!Begin(w, r),
         InHand(r, fund, cheques, categories, alone)
  PROVE  TreasuryInv'
<1>1. /\ UNCHANGED <<fund, moves, cheques, categories, expenses, discount, enrolled, today>>
      /\ req' = [req EXCEPT ![w] = r]
  BY DEF Money!Begin, Money!bankVars, Money!costVars, Money!discountVars
<1>2. alone' => alone
  BY DEF TreasuryAlone
<1>3. TreasuryTables'
  BY <1>1 DEF TreasuryInv, TreasuryTables
<1>4. ASSUME NEW v \in Threads PROVE InHand(req'[v], fund', cheques', categories', alone')
  <2>1. CASE v = w
    <3>1. req'[v] = r
      BY <1>1, <2>1 DEF TreasuryInv, TreasuryTables
    <3> QED BY <1>1, <1>2, <3>1 DEF InHand
  <2>2. CASE v # w
    <3>1. req'[v] = req[v]
      BY <1>1, <2>2 DEF TreasuryInv, TreasuryTables
    <3> QED BY <1>1, <3>1, StillInHand
  <2> QED BY <2>1, <2>2
<1>5. alone' => Money!BooksOfTheBank'
  BY <1>1, <1>2 DEF TreasuryInv, Money!BooksOfTheBank, Money!Before, Money!Taken
<1>6. (\A n \in DOMAIN cheques : Dated(cheques[n]))' /\ CodeHolds'
  BY <1>1 DEF TreasuryInv, CodeHolds
<1> QED BY <1>3, <1>4, <1>5, <1>6 DEF TreasuryInv

(* A step that ends a request w, or that is none of a request.             *)
LEMMA TreasuryStepKept ==
  ASSUME TreasuryInv, TreasuryAlone,
         UNCHANGED req \/ \E w \in Threads : req' = [req EXCEPT ![w] = Money!Idle],
         (TreasuryTables /\ (\A n \in DOMAIN cheques : Dated(cheques[n])) /\ CodeHolds)',
         fund \in FundRow => fund' \in FundRow,
         DOMAIN cheques \subseteq DOMAIN cheques',
         \A n \in DOMAIN cheques : cheques[n].bounced # None => cheques'[n].bounced # None,
         alone' => Money!BooksOfTheBank'
  PROVE  TreasuryInv'
<1>1. ASSUME NEW v \in Threads PROVE InHand(req'[v], fund', cheques', categories', alone')
  <2>1. req'[v] = req[v] \/ req'[v] = Money!Idle
    BY DEF TreasuryInv, TreasuryTables
  <2> QED BY <2>1, StillInHand, NothingInHand
<1> QED BY <1>1 DEF TreasuryInv

-----------------------------------------------------------------------------
(* The bank account.                                                       *)

LEMMA BeginMoveKeeps ==
  ASSUME NoneApart, TreasuryInv, TreasuryAlone, NEW w \in Threads,
         NEW kind \in {"deposit", "withdrawal"}, NEW amount \in {1, 2},
         Money!BeginMove(w, kind, amount)
  PROVE  TreasuryInv'
<1> DEFINE r == [op |-> "move", kind |-> kind, amount |-> amount,
                 after |-> fund.balance + (IF kind = "deposit" THEN amount ELSE -amount)]
<1>1. Money!Begin(w, r) /\ fund \in FundRow
  BY DEF Money!BeginMove, TreasuryInv, TreasuryTables
<1>2. fund.balance \in Int
  BY <1>1 DEF FundRow
<1>3. InHand(r, fund, cheques, categories, alone)
  BY <1>1, <1>2 DEF InHand, Money!Signed
<1> QED BY <1>1, <1>3, TreasuryBegin

LEMMA CommitMoveKeeps ==
  ASSUME NoneApart, TreasuryInv, TreasuryAlone, NEW w \in Threads, Money!CommitMove(w)
  PROVE  TreasuryInv'
<1> DEFINE r == req[w]
           row == [kind |-> r.kind, amount |-> r.amount, after |-> r.after]
<1>1. /\ r.op = "move" /\ InHand(r, fund, cheques, categories, alone) /\ TreasuryTables
      /\ CodeHolds
  BY DEF Money!CommitMove, TreasuryInv
<1>2. /\ fund' = [fund EXCEPT !.balance = r.after] /\ moves' = Append(moves, row)
      /\ req' = [req EXCEPT ![w] = Money!Idle]
      /\ UNCHANGED <<cheques, categories, expenses, discount, enrolled, today>>
  BY DEF Money!CommitMove, Money!Finish, Money!costVars, Money!discountVars
<1>3. /\ fund \in FundRow /\ row \in MoveRow /\ Money!Signed(row) = Money!Signed(r)
      /\ row.after = r.after /\ Money!Signed(row) \in Int
  BY <1>1 DEF InHand, MoveRow, Money!Signed
<1> HIDE DEF row
<1>4. /\ fund' \in FundRow /\ fund'.balance = r.after /\ fund'.opening = fund.opening
      /\ moves' \in Seq(MoveRow)
  <2>1. r.after \in Int
    BY <1>1 DEF InHand
  <2>2. moves' \in Seq(MoveRow)
    BY <1>1, <1>2, <1>3 DEF TreasuryTables
  <2> HIDE DEF r
  <2> QED BY <1>2, <1>3, <2>1, <2>2 DEF FundRow
<1>5. (TreasuryTables /\ (\A n \in DOMAIN cheques : Dated(cheques[n])) /\ CodeHolds)'
  BY <1>1, <1>2, <1>4 DEF TreasuryInv, TreasuryTables, CodeHolds
<1>6. ASSUME alone' PROVE Money!BooksOfTheBank'
  <2>1. alone /\ r.after = fund.balance + Money!Signed(r) /\ Money!BooksOfTheBank
    BY <1>1, <1>6 DEF TreasuryAlone, InHand, TreasuryInv
  <2>2. /\ \A n \in DOMAIN moves : moves[n].after = Money!Before(n) + Money!Signed(moves[n])
        /\ fund.balance = Money!Before(Len(moves) + 1)
    BY <1>3, <2>1 DEF Money!BooksOfTheBank, NoneApart
  <2>3. /\ Len(moves) \in Nat /\ DOMAIN moves = 1..Len(moves)
        /\ Len(moves') = Len(moves) + 1 /\ DOMAIN moves' = 1..(Len(moves) + 1)
        /\ \A n \in 1..Len(moves) : moves'[n] = moves[n]
        /\ moves'[Len(moves) + 1] = row
    BY <1>1, <1>2, <1>3 DEF TreasuryTables
  <2>4. \A n \in 1..(Len(moves) + 1) : Money!Before(n)' = Money!Before(n)
    BY <1>4, <2>3 DEF Money!Before
  <2>5. Money!Before(Len(moves) + 1)' = row.after
    BY <2>3 DEF Money!Before
  <2>6. \A n \in DOMAIN moves' : moves'[n].after = Money!Before(n)' + Money!Signed(moves'[n])
    BY <1>3, <2>1, <2>2, <2>3, <2>4
  <2>7. (\A c \in DOMAIN categories :
           ~Money!Taken(categories[c].name, DOMAIN categories \ {c}))'
    BY <1>2, <2>1 DEF Money!BooksOfTheBank, Money!Taken
  <2> QED BY <1>3, <1>4, <2>5, <2>6, <2>7 DEF Money!BooksOfTheBank
<1> QED BY <1>2, <1>4, <1>5, <1>6, TreasuryStepKept

LEMMA AddBankAccountKeeps ==
  ASSUME NoneApart, TreasuryInv, TreasuryAlone, NEW balance \in {1, 2},
         Money!AddBankAccount(balance)
  PROVE  TreasuryInv'
<1>1. /\ fund = None /\ fund' = [opening |-> balance, balance |-> balance]
      /\ UNCHANGED <<moves, cheques, categories, expenses, discount, enrolled, today, req>>
  BY DEF Money!AddBankAccount, Money!costVars, Money!discountVars
<1>2. moves = <<>> /\ fund' \in FundRow /\ fund'.balance = fund'.opening
  BY <1>1 DEF TreasuryInv, TreasuryTables, NoneApart, FundRow
<1>3. (TreasuryTables /\ (\A n \in DOMAIN cheques : Dated(cheques[n])) /\ CodeHolds)'
  BY <1>1, <1>2 DEF TreasuryInv, TreasuryTables, CodeHolds
<1>4. ASSUME alone' PROVE Money!BooksOfTheBank'
  <2>1. (\A c \in DOMAIN categories :
           ~Money!Taken(categories[c].name, DOMAIN categories \ {c}))'
    BY <1>1, <1>4 DEF TreasuryInv, TreasuryAlone, Money!BooksOfTheBank, Money!Taken
  <2>2. DOMAIN moves' = {} /\ Len(moves') = 0
    BY <1>1, <1>2
  <2>3. fund'.balance = Money!Before(Len(moves) + 1)'
    BY <1>1, <1>2 DEF Money!Before
  <2> QED BY <2>1, <2>2, <2>3 DEF Money!BooksOfTheBank
<1> QED BY <1>1, <1>2, <1>3, <1>4, TreasuryStepKept

-----------------------------------------------------------------------------
(* Cheques.  A date of bouncing is never taken back: a request that read a *)
(* cheque as bounced, or writes it so, leaves it with a date.              *)

LEMMA AddCheckKeeps ==
  ASSUME TreasuryInv, TreasuryAlone, Money!AddCheck PROVE TreasuryInv'
<1> DEFINE row == [status |-> "received", bounced |-> None]
<1>1. /\ cheques' = Append(cheques, row)
      /\ UNCHANGED <<fund, moves, categories, expenses, discount, enrolled, today, req>>
  BY DEF Money!AddCheck, Money!costVars, Money!discountVars
<1>2. row \in ChequeRow /\ Dated(row) /\ cheques \in Seq(ChequeRow)
  BY DEF ChequeRow, Dated, Money!Statuses, TreasuryInv, TreasuryTables
<1> HIDE DEF row
<1>3. /\ cheques' \in Seq(ChequeRow) /\ DOMAIN cheques \subseteq DOMAIN cheques'
      /\ \A n \in DOMAIN cheques : cheques'[n] = cheques[n]
      /\ \A n \in DOMAIN cheques' : n \in DOMAIN cheques \/ cheques'[n] = row
  BY <1>1, <1>2
<1>4. (TreasuryTables /\ (\A n \in DOMAIN cheques : Dated(cheques[n])) /\ CodeHolds)'
  BY <1>1, <1>2, <1>3 DEF TreasuryInv, TreasuryTables, CodeHolds
<1>5. alone' => Money!BooksOfTheBank'
  BY <1>1 DEF TreasuryInv, TreasuryAlone, Money!BooksOfTheBank, Money!Before, Money!Taken
<1> QED BY <1>1, <1>3, <1>4, <1>5, TreasuryStepKept

LEMMA CommitCheckKeeps ==
  ASSUME NoneApart, TreasuryInv, TreasuryAlone, NEW w \in Threads, Money!CommitCheckStatus(w)
  PROVE  TreasuryInv'
<1> DEFINE r == req[w]
           written == [status |-> r.status,
                       bounced |-> IF r.status = "bounced" THEN today ELSE r.loaded.bounced]
           row == Money!Flush(cheques[r.n], r.loaded, written)
<1>1. /\ r.op = "cheque" /\ InHand(r, fund, cheques, categories, alone) /\ TreasuryTables
      /\ \A n \in DOMAIN cheques : Dated(cheques[n])
  BY DEF Money!CommitCheckStatus, TreasuryInv
<1>2. /\ cheques' = [cheques EXCEPT ![r.n] = row]
      /\ req' = [req EXCEPT ![w] = Money!Idle]
      /\ UNCHANGED <<fund, moves, categories, expenses, discount, enrolled, today>>
  BY DEF Money!CommitCheckStatus, Money!Finish, Money!costVars, Money!discountVars
<1>3. /\ r.n \in DOMAIN cheques /\ cheques[r.n] \in ChequeRow /\ Dated(cheques[r.n])
      /\ r.loaded \in ChequeRow /\ r.status \in Money!Statuses /\ Dated(r.loaded)
      /\ r.loaded.bounced # None => cheques[r.n].bounced # None
  BY <1>1, ElementOfSeq DEF InHand, TreasuryTables
<1>4. /\ DOMAIN row = {"status", "bounced"}
      /\ row.status = IF r.status = r.loaded.status THEN cheques[r.n].status ELSE r.status
      /\ row.bounced = IF written.bounced = r.loaded.bounced THEN cheques[r.n].bounced
                       ELSE written.bounced
  BY <1>3 DEF ChequeRow, Money!Flush
<1>5. row = [status |-> row.status, bounced |-> row.bounced]
  BY <1>3 DEF ChequeRow, Money!Flush
<1>6. row \in ChequeRow
  BY <1>1, <1>3, <1>4, <1>5 DEF ChequeRow, TreasuryTables
<1>7. today # None
  BY <1>1 DEF TreasuryTables, NoneApart
<1>8. /\ cheques[r.n].bounced # None => row.bounced # None
      /\ Dated(row)
  BY <1>3, <1>4, <1>7 DEF Dated
<1> HIDE DEF row, written
<1>9. /\ cheques' \in Seq(ChequeRow) /\ DOMAIN cheques' = DOMAIN cheques
      /\ cheques'[r.n] = row /\ \A n \in DOMAIN cheques : n # r.n => cheques'[n] = cheques[n]
  <2>1. cheques \in Seq(ChequeRow)
    BY <1>1 DEF TreasuryTables
  <2> QED BY <1>2, <1>3, <1>6, <2>1
<1>10. (\A n \in DOMAIN cheques : Dated(cheques[n]))'
  <2>1. \A n \in DOMAIN cheques' : Dated(cheques'[n])
    BY <1>1, <1>8, <1>9
  <2> QED BY <2>1 DEF Dated
<1>11. (TreasuryTables /\ CodeHolds)'
  BY <1>1, <1>2, <1>9 DEF TreasuryInv, TreasuryTables, CodeHolds
<1>12. alone' => Money!BooksOfTheBank'
  BY <1>2 DEF TreasuryInv, TreasuryAlone, Money!BooksOfTheBank, Money!Before, Money!Taken
<1>13. \A n \in DOMAIN cheques : cheques[n].bounced # None => cheques'[n].bounced # None
  BY <1>8, <1>9
<1> QED BY <1>2, <1>9, <1>10, <1>11, <1>12, <1>13, TreasuryStepKept

LEMMA BeginCheckKeeps ==
  ASSUME TreasuryInv, TreasuryAlone, NEW w \in Threads, NEW n \in DOMAIN cheques,
         NEW status \in Money!Statuses, Money!BeginCheckStatus(w, n, status)
  PROVE  TreasuryInv'
<1> DEFINE r == [op |-> "cheque", n |-> n, status |-> status, loaded |-> cheques[n]]
<1>1. cheques[n] \in ChequeRow /\ Dated(cheques[n])
  BY ElementOfSeq DEF TreasuryInv, TreasuryTables
<1>2. /\ r.op = "cheque" /\ r.n = n /\ r.status = status /\ r.loaded = cheques[n]
      /\ Money!Begin(w, r)
  BY DEF Money!BeginCheckStatus
<1> HIDE DEF r
<1>3. InHand(r, fund, cheques, categories, alone)
  BY <1>1, <1>2 DEF InHand
<1> QED BY <1>2, <1>3, TreasuryBegin

-----------------------------------------------------------------------------
(* Categories and expenses.                                                *)

LEMMA BeginCategoryKeeps ==
  ASSUME TreasuryInv, TreasuryAlone, NEW w \in Threads, NEW name,
         Money!BeginAddCategory(w, name) \/ Money!BeginOldAddCategory(w, name)
  PROVE  TreasuryInv'
<1> DEFINE r == [op |-> "category", name |-> name]
<1>1. /\ r.op = "category" /\ r.name = name /\ Money!Begin(w, r)
      /\ \A c \in DOMAIN categories : categories[c].name # name
  BY DEF Money!BeginAddCategory, Money!BeginOldAddCategory, Money!Taken
<1> HIDE DEF r
<1>2. InHand(r, fund, cheques, categories, alone)
  BY <1>1 DEF InHand
<1> QED BY <1>1, <1>2, TreasuryBegin

LEMMA BeginEditKeeps ==
  ASSUME TreasuryInv, TreasuryAlone, NEW w \in Threads, NEW c, NEW name, NEW on,
         Money!BeginEditCategory(w, c, name, on)
  PROVE  TreasuryInv'
<1> DEFINE r == [op |-> "rename", id |-> c, name |-> name, active |-> on]
<1>1. /\ r.op = "rename" /\ r.name = name /\ r.id = c /\ Money!Begin(w, r)
      /\ \A k \in DOMAIN categories \ {c} : categories[k].name # name
  BY DEF Money!BeginEditCategory, Money!Taken
<1> HIDE DEF r
<1>2. InHand(r, fund, cheques, categories, alone)
  BY <1>1 DEF InHand
<1> QED BY <1>1, <1>2, TreasuryBegin

LEMMA BeginDeleteKeeps ==
  ASSUME TreasuryInv, TreasuryAlone, NEW w \in Threads, NEW c,
         Money!BeginDeleteCategory(w, c) \/ Money!BeginExpense(w, c)
  PROVE  TreasuryInv'
<1>1. PICK op \in {"delete", "expense"} : Money!Begin(w, [op |-> op, id |-> c])
  BY DEF Money!BeginDeleteCategory, Money!BeginExpense
<1>2. InHand([op |-> op, id |-> c], fund, cheques, categories, alone)
  BY DEF InHand
<1> QED BY <1>1, <1>2, TreasuryBegin

(* The categories and expenses that a commit writes: names stay apart, if  *)
(* no other request was under way.                                         *)
LEMMA CategoriesKept ==
  ASSUME TreasuryInv, TreasuryAlone, NEW w \in Threads,
         req' = [req EXCEPT ![w] = Money!Idle],
         UNCHANGED <<fund, moves, cheques, discount, enrolled, today>>,
         expenses' \in Seq(DOMAIN categories'),
         alone' => (\A c \in DOMAIN categories :
                      ~Money!Taken(categories[c].name, DOMAIN categories \ {c}))'
  PROVE  TreasuryInv'
<1>1. (TreasuryTables /\ (\A n \in DOMAIN cheques : Dated(cheques[n])) /\ CodeHolds)'
  BY DEF TreasuryInv, TreasuryTables, CodeHolds
<1>2. alone' => Money!BooksOfTheBank'
  BY DEF TreasuryInv, TreasuryAlone, Money!BooksOfTheBank, Money!Before
<1> QED BY <1>1, <1>2, TreasuryStepKept

LEMMA CommitCategoryKeeps ==
  ASSUME TreasuryInv, TreasuryAlone, NEW w \in Threads,
         \/ Money!CommitAddCategory(w) \/ Money!CommitEditCategory(w)
         \/ Money!CommitDeleteCategory(w) \/ Money!CommitExpense(w)
  PROVE  TreasuryInv'
<1> DEFINE r == req[w]
<1>1. /\ req' = [req EXCEPT ![w] = Money!Idle]
      /\ UNCHANGED <<fund, moves, cheques, discount, enrolled, today>>
  BY DEF Money!CommitAddCategory, Money!CommitEditCategory, Money!CommitDeleteCategory,
         Money!CommitExpense, Money!Finish, Money!bankVars, Money!discountVars
<1>2. /\ expenses \in Seq(DOMAIN categories) /\ InHand(r, fund, cheques, categories, alone)
      /\ alone => \A c \in DOMAIN categories : \A k \in DOMAIN categories \ {c} :
                    categories[k].name # categories[c].name
  BY DEF TreasuryInv, TreasuryTables, Money!BooksOfTheBank, Money!Taken
<1>3. alone' => alone
  BY DEF TreasuryAlone
<1> HIDE DEF r
<1>4. CASE Money!CommitAddCategory(w)
  <2> DEFINE id == Money!NewId
  <2>1. /\ r.op = "category" /\ UNCHANGED expenses
        /\ categories' = [c \in DOMAIN categories \cup {id} |->
             IF c = id THEN [name |-> r.name, active |-> TRUE] ELSE categories[c]]
    BY <1>4 DEF Money!CommitAddCategory, r
  <2> HIDE DEF id
  <2>2. expenses' \in Seq(DOMAIN categories')
    BY <1>2, <2>1
  <2>3. /\ \A c \in DOMAIN categories' : c # id => c \in DOMAIN categories
        /\ \A c \in DOMAIN categories' : categories'[c].name =
             IF c = id THEN r.name ELSE categories[c].name
    BY <2>1
  <2>4. ASSUME alone', NEW c \in DOMAIN categories', NEW k \in DOMAIN categories' \ {c}
        PROVE  categories'[k].name # categories'[c].name
    BY <1>2, <1>3, <2>1, <2>3, <2>4 DEF InHand
  <2>5. alone' => (\A c \in DOMAIN categories :
                     ~Money!Taken(categories[c].name, DOMAIN categories \ {c}))'
    BY <2>4 DEF Money!Taken
  <2> QED BY <1>1, <2>2, <2>5, CategoriesKept
<1>5. CASE Money!CommitEditCategory(w)
  <2>1. /\ r.op = "rename" /\ UNCHANGED expenses
        /\ categories' = [categories EXCEPT ![r.id] = [name |-> r.name, active |-> r.active]]
    BY <1>5 DEF Money!CommitEditCategory, r
  <2>2. /\ DOMAIN categories' = DOMAIN categories
        /\ \A c \in DOMAIN categories' : categories'[c].name =
             IF c = r.id THEN r.name ELSE categories[c].name
    BY <2>1
  <2>3. ASSUME alone', NEW c \in DOMAIN categories', NEW k \in DOMAIN categories' \ {c}
        PROVE  categories'[k].name # categories'[c].name
    BY <1>2, <1>3, <2>1, <2>2, <2>3 DEF InHand
  <2>4. alone' => (\A c \in DOMAIN categories :
                     ~Money!Taken(categories[c].name, DOMAIN categories \ {c}))'
    BY <2>3 DEF Money!Taken
  <2> QED BY <1>1, <1>2, <2>1, <2>2, <2>4, CategoriesKept
<1>6. CASE Money!CommitDeleteCategory(w)
  <2>1. /\ UNCHANGED expenses /\ \A i \in DOMAIN expenses : expenses[i] # r.id
        /\ categories' = [c \in DOMAIN categories \ {r.id} |-> categories[c]]
    BY <1>6 DEF Money!CommitDeleteCategory, Money!Used, r
  <2>2. expenses' \in Seq(DOMAIN categories')
    BY <1>2, <2>1
  <2>3. alone' => (\A c \in DOMAIN categories :
                     ~Money!Taken(categories[c].name, DOMAIN categories \ {c}))'
    BY <1>2, <1>3, <2>1 DEF Money!Taken
  <2> QED BY <1>1, <2>2, <2>3, CategoriesKept
<1>7. CASE Money!CommitExpense(w)
  <2>1. /\ UNCHANGED categories /\ r.id \in DOMAIN categories
        /\ expenses' = Append(expenses, r.id)
    BY <1>7 DEF Money!CommitExpense, r
  <2>2. expenses' \in Seq(DOMAIN categories')
    BY <1>2, <2>1
  <2>3. alone' => (\A c \in DOMAIN categories :
                     ~Money!Taken(categories[c].name, DOMAIN categories \ {c}))'
    BY <1>2, <1>3, <2>1 DEF Money!Taken
  <2> QED BY <1>1, <2>2, <2>3, CategoriesKept
<1> QED BY <1>4, <1>5, <1>6, <1>7

-----------------------------------------------------------------------------
(* Discount codes, and the days that pass.                                 *)

LEMMA DiscountKept ==
  ASSUME TreasuryInv, TreasuryAlone,
         UNCHANGED <<fund, moves, cheques, categories, expenses, req>>,
         discount' \in CodeRow \/ (discount' = None /\ enrolled' = <<>>),
         enrolled' \in Seq(Int), today' \in Int, CodeHolds'
  PROVE  TreasuryInv'
<1>1. (TreasuryTables /\ (\A n \in DOMAIN cheques : Dated(cheques[n])))'
  BY DEF TreasuryInv, TreasuryTables
<1>2. alone' => Money!BooksOfTheBank'
  BY DEF TreasuryInv, TreasuryAlone, Money!BooksOfTheBank, Money!Before, Money!Taken
<1> QED BY <1>1, <1>2, TreasuryStepKept

LEMMA AddDiscountKeeps ==
  ASSUME NoneApart, TreasuryInv, TreasuryAlone,
         NEW form \in {d \in CodeRow : d.used = 0 /\ (d.most # None => d.most >= 0)},
         Money!AddDiscount(form)
  PROVE  TreasuryInv'
<1>1. /\ discount = None /\ UNCHANGED <<enrolled, today, req>>
      /\ UNCHANGED <<fund, moves, cheques, categories, expenses>>
      /\ discount' = [form EXCEPT !.most = IF form.most = 0 THEN None ELSE form.most]
  BY DEF Money!AddDiscount, Money!bankVars, Money!costVars
<1>2. /\ discount' \in CodeRow /\ discount'.used = 0
      /\ discount'.most # None => discount'.most >= 0
  BY <1>1 DEF CodeRow
<1>3. enrolled = <<>>
  BY <1>1 DEF TreasuryInv, TreasuryTables, NoneApart
<1>4. CodeHolds'
  BY <1>1, <1>2, <1>3 DEF CodeHolds
<1>5. enrolled' \in Seq(Int) /\ today' \in Int
  BY <1>1 DEF TreasuryInv, TreasuryTables
<1> QED BY <1>1, <1>2, <1>4, <1>5, DiscountKept

LEMMA EnrolKeeps ==
  ASSUME NoneApart, TreasuryInv, TreasuryAlone, Money!Enrol PROVE TreasuryInv'
<1>1. /\ discount # None
      /\ discount.most # None => discount.used < discount.most
      /\ UNCHANGED <<fund, moves, cheques, categories, expenses, req>>
      /\ today' = today /\ discount' = [discount EXCEPT !.used = discount.used + 1]
      /\ enrolled' = Append(enrolled, today)
  BY DEF Money!Enrol, Money!MayUse, Money!bankVars, Money!costVars
<1>2. discount \in CodeRow /\ enrolled \in Seq(Int) /\ today \in Int /\ CodeHolds
  BY <1>1 DEF TreasuryInv, TreasuryTables
<1>3. /\ discount' \in CodeRow /\ discount'.used = discount.used + 1
      /\ discount'.most = discount.most
  <2>1. discount.used + 1 \in Int
    BY <1>2 DEF CodeRow
  <2> QED BY <1>1, <1>2, <2>1 DEF CodeRow
<1>4. enrolled' \in Seq(Int) /\ Len(enrolled') = Len(enrolled) + 1
  BY <1>1, <1>2
<1>5. discount.used \in Int /\ (discount.most # None => discount.most \in Int)
  BY <1>2 DEF CodeRow
<1>6. CodeHolds'
  BY <1>1, <1>2, <1>3, <1>4, <1>5 DEF CodeHolds
<1> QED BY <1>1, <1>2, <1>3, <1>4, <1>6, DiscountKept

(* The codes of MCOffice are rows that nobody has used.                    *)
LEMMA FormsAreCodes ==
  DiscountForms \subseteq {d \in CodeRow : d.used = 0 /\ (d.most # None => d.most >= 0)}
  BY DEF DiscountForms, Discount, CodeRow

LEMMA TreasuryStepKeeps ==
  ASSUME NoneApart, TreasuryInv, TreasuryAlone, [Money!Next]_(Money!vars)
  PROVE  TreasuryInv'
<1>1. ASSUME NEW balance \in {1, 2}, Money!AddBankAccount(balance) PROVE TreasuryInv'
  BY <1>1, AddBankAccountKeeps
<1>2. ASSUME NEW w \in Threads, NEW kind \in {"deposit", "withdrawal"},
             NEW amount \in {1, 2}, Money!BeginMove(w, kind, amount)
      PROVE  TreasuryInv'
  BY <1>2, BeginMoveKeeps
<1>3. ASSUME NEW w \in Threads, Money!CommitMove(w) PROVE TreasuryInv'
  BY <1>3, CommitMoveKeeps
<1>4. ASSUME NEW w \in Threads, NEW n \in DOMAIN cheques, NEW status \in Money!Statuses,
             Money!BeginCheckStatus(w, n, status)
      PROVE  TreasuryInv'
  BY <1>4, BeginCheckKeeps
<1>5. ASSUME NEW w \in Threads, Money!CommitCheckStatus(w) PROVE TreasuryInv'
  BY <1>5, CommitCheckKeeps
<1>6. ASSUME NEW w \in Threads, NEW name,
             Money!BeginAddCategory(w, name) \/ Money!BeginOldAddCategory(w, name)
      PROVE  TreasuryInv'
  BY <1>6, BeginCategoryKeeps
<1>7. ASSUME NEW w \in Threads, NEW c, NEW name, NEW on, Money!BeginEditCategory(w, c, name, on)
      PROVE  TreasuryInv'
  BY <1>7, BeginEditKeeps
<1>8. ASSUME NEW w \in Threads, NEW c, Money!BeginDeleteCategory(w, c) \/ Money!BeginExpense(w, c)
      PROVE  TreasuryInv'
  BY <1>8, BeginDeleteKeeps
<1>9. ASSUME NEW w \in Threads,
             \/ Money!CommitAddCategory(w) \/ Money!CommitEditCategory(w)
             \/ Money!CommitDeleteCategory(w) \/ Money!CommitExpense(w)
      PROVE  TreasuryInv'
  BY <1>9, CommitCategoryKeeps
<1>10. ASSUME NEW form \in DiscountForms, Money!AddDiscount(form) PROVE TreasuryInv'
  BY <1>10, FormsAreCodes, AddDiscountKeeps
<1>11. CASE Money!NextDay
  <2>1. /\ today' = today + 1 /\ UNCHANGED <<discount, enrolled, req>>
        /\ UNCHANGED <<fund, moves, cheques, categories, expenses>>
    BY <1>11 DEF Money!NextDay, Money!bankVars, Money!costVars
  <2>2. /\ today' \in Int /\ CodeHolds' /\ enrolled' \in Seq(Int)
        /\ discount' \in CodeRow \/ (discount' = None /\ enrolled' = <<>>)
    BY <2>1 DEF TreasuryInv, TreasuryTables, CodeHolds
  <2> QED BY <2>1, <2>2, DiscountKept
<1>12. CASE (\E w \in Threads : Money!Abort(w)) \/ UNCHANGED Money!vars
  <2>1. /\ UNCHANGED <<fund, moves, cheques, categories, expenses, discount, enrolled, today>>
        /\ UNCHANGED req \/ \E w \in Threads : req' = [req EXCEPT ![w] = Money!Idle]
    BY <1>12 DEF Money!Abort, Money!Finish, Money!vars, Money!bankVars, Money!costVars,
                 Money!discountVars
  <2>2. (TreasuryTables /\ (\A n \in DOMAIN cheques : Dated(cheques[n])) /\ CodeHolds)'
    BY <2>1 DEF TreasuryInv, TreasuryTables, CodeHolds
  <2>3. alone' => Money!BooksOfTheBank'
    BY <2>1 DEF TreasuryInv, TreasuryAlone, Money!BooksOfTheBank, Money!Before, Money!Taken
  <2> QED BY <2>1, <2>2, <2>3, TreasuryStepKept
<1>13. CASE Money!Enrol
  BY <1>13, EnrolKeeps
<1>14. CASE \/ \E w \in Threads, name \in Names :
                 Money!BeginAddCategory(w, name) \/ Money!BeginOldAddCategory(w, name)
            \/ \E w \in Threads, c \in DOMAIN categories, name \in Names, on \in BOOLEAN :
                 Money!BeginEditCategory(w, c, name, on)
            \/ \E w \in Threads, c \in DOMAIN categories :
                 Money!BeginDeleteCategory(w, c) \/ Money!BeginExpense(w, c)
            \/ \E w \in Threads :
                 \/ Money!CommitAddCategory(w) \/ Money!CommitEditCategory(w)
                 \/ Money!CommitDeleteCategory(w) \/ Money!CommitExpense(w)
  BY <1>6, <1>7, <1>8, <1>9, <1>14, Zenon
<1>15. CASE \/ \E balance \in {1, 2} : Money!AddBankAccount(balance)
            \/ \E w \in Threads, kind \in {"deposit", "withdrawal"}, amount \in {1, 2} :
                 Money!BeginMove(w, kind, amount)
            \/ \E w \in Threads : Money!CommitMove(w)
            \/ \E w \in Threads, n \in DOMAIN cheques, status \in Money!Statuses :
                 Money!BeginCheckStatus(w, n, status)
            \/ \E w \in Threads : Money!CommitCheckStatus(w)
            \/ \E form \in DiscountForms : Money!AddDiscount(form)
  BY <1>1, <1>2, <1>3, <1>4, <1>5, <1>10, <1>15, Zenon
<1>16. CASE Money!AddCheck
  BY <1>16, AddCheckKeeps
<1> QED BY <1>11, <1>12, <1>13, <1>14, <1>15, <1>16, Zenon DEF Money!Next

LEMMA TreasuryInvImplies ==
  ASSUME NoneApart, TreasuryInv
  PROVE  Money!NothingDangling /\ (alone => Money!BooksOfTheBank)
<1>1. \A i \in DOMAIN expenses : expenses[i] \in DOMAIN categories
  BY ElementOfSeq DEF TreasuryInv, TreasuryTables
<1>2. discount # None => discount \in CodeRow
  BY DEF TreasuryInv, TreasuryTables
<1> QED BY <1>1, <1>2 DEF TreasuryInv, Money!NothingDangling, Dated, CodeHolds

-----------------------------------------------------------------------------
(* MCOffice, for the treasury and the uploads.                             *)

TreasuryPart ==
  /\ part = "treasury" => TreasuryInv
  /\ part = "uploads" => UploadsInv

(* A step that is none of a component leaves it alone.                     *)
LEMMA TreasurySteps ==
  ASSUME [MCNext]_mcvars
  PROVE  /\ part' = part
         /\ part = "treasury" => TreasuryStep \/ UNCHANGED <<alone, req, treasury>>
         /\ part = "uploads" => UploadsStep \/ UNCHANGED <<req, uploads>>
  BY DEF MCNext, mcvars, Rest, Others

(* No expense is left without its category, no cheque that bounced without *)
(* its date, no code is used more often than it says; as long as no two    *)
(* requests overlap the balance of the account is the sum of its movements *)
(* and no name stands for two categories; and a row never names a file     *)
(* that was refused, cut short, not finished or too large.                 *)
THEOREM TreasuryHoldsAlways ==
  ASSUME NoneApart, Limit \in Nat PROVE MCSpec => []TreasuryHolds
<1>1. MCInit => TreasuryPart
  BY TreasuryInit, UploadsInit DEF MCInit, TreasuryPart
<1>2. ASSUME TreasuryPart, [MCNext]_mcvars PROVE TreasuryPart'
  <2>1. ASSUME part = "treasury" PROVE TreasuryInv'
    <3>1. TreasuryInv
      BY <1>2, <2>1 DEF TreasuryPart
    <3>2. CASE TreasuryStep
      BY <3>1, <3>2, TreasuryStepKeeps DEF TreasuryStep, TreasuryAlone
    <3>3. CASE UNCHANGED <<alone, req, treasury>>
      BY <3>1, <3>3 DEF treasury, TreasuryInv, TreasuryTables, CodeHolds, InHand,
         Money!BooksOfTheBank, Money!Before, Money!Taken
    <3> QED BY <1>2, <2>1, <3>2, <3>3, TreasurySteps
  <2>2. ASSUME part = "uploads" PROVE UploadsInv'
    <3>1. [Files!Next]_(Files!vars)
      BY <1>2, <2>2, TreasurySteps DEF UploadsStep, uploads, Files!vars
    <3> QED BY <1>2, <2>2, <3>1, UploadsStepKeeps DEF TreasuryPart
  <2> QED BY <1>2, <2>1, <2>2, TreasurySteps DEF TreasuryPart
<1>3. TreasuryPart => TreasuryHolds
  BY TreasuryInvImplies, UploadsInvImplies DEF TreasuryPart, TreasuryHolds
<1> QED BY <1>1, <1>2, <1>3, PTL DEF MCSpec

-----------------------------------------------------------------------------
(* Attendance.  A row is written whole from its times; a roster that read  *)
(* its rows with nobody in between writes them over what it read.          *)

Fields == {"status", "arr", "dep", "late", "hours"}

(* A row that is there has its fields, and the hours of its times.         *)
Follows(p, row) ==
  /\ row = [c \in Fields |-> row[c]]
  /\ IF p \in Students THEN row.hours = Roster!Duration(row.arr, row.dep)
     ELSE row.status # "absent" => row.hours = Roster!TeachingHours(row.arr, row.dep)

Rostered(r, kept) ==
  r.op = "roster" =>
    /\ r.m \in Roster!Meetings
    /\ \A p \in DOMAIN r.loaded : p \in Roster!People /\ r.loaded[p] = kept[r.m][p]

RosterInv ==
  /\ sheet = [m \in Roster!Meetings |-> [p \in Roster!People |-> sheet[m][p]]]
  /\ req = [w \in Threads |-> req[w]]
  /\ alone =>
       /\ \A m \in Roster!Meetings, p \in Roster!People :
            sheet[m][p] # None => Follows(p, sheet[m][p])
       /\ \A w \in Threads : Rostered(req[w], sheet)

RosterAlone == alone' = (alone /\ ~Overlap(sheet, sheet'))

LEMMA RosterInit == ASSUME Roster!Init PROVE RosterInv
<1>1. \A w \in Threads : req[w] = Roster!Idle
  BY DEF Roster!Init
<1>2. \A w \in Threads : Rostered(req[w], sheet)
  BY <1>1 DEF Rostered, Roster!Idle
<1>3. /\ sheet = [m \in Roster!Meetings |-> [p \in Roster!People |-> None]]
      /\ req = [w \in Threads |-> Roster!Idle]
  BY DEF Roster!Init
<1> QED BY <1>2, <1>3 DEF RosterInv

(* _upsert of either kind of row, and a punch that leaves.                 *)
LEMMA UpsertFollows ==
  ASSUME NEW p, NEW row, NEW entry PROVE Follows(p, Roster!Upsert(p, row, entry))
  BY DEF Follows, Fields, Roster!Upsert, Roster!StudentRow, Roster!TeacherRow

LEMMA LeaveFollows ==
  ASSUME NEW p, NEW row, Follows(p, row) PROVE Follows(p, Roster!Leave(p, row))
<1> DEFINE hours == IF p \in Students THEN Roster!Duration(row.arr, clock)
                    ELSE Roster!TeachingHours(row.arr, clock)
           left == Roster!Leave(p, row)
<1>1. row = [c \in Fields |-> row[c]]
  BY DEF Follows
<1>2. left = [row EXCEPT !.dep = clock, !.hours = hours]
  BY DEF Roster!Leave
<1> HIDE DEF hours, left
<1>3. /\ left = [c \in Fields |-> left[c]]
      /\ left.arr = row.arr /\ left.dep = clock /\ left.hours = hours
  BY <1>1, <1>2 DEF Fields
<1>4. p \in Students => left.hours = Roster!Duration(left.arr, left.dep)
  BY <1>3 DEF hours
<1>5. p \notin Students => left.hours = Roster!TeachingHours(left.arr, left.dep)
  BY <1>3 DEF hours
<1> QED BY <1>3, <1>4, <1>5 DEF Follows, left

(* What is written over the row that was loaded is the row as edited.      *)
LEMMA FlushOfLoaded ==
  ASSUME NEW row, NEW edited, row = [c \in Fields |-> row[c]],
         edited = [c \in Fields |-> edited[c]]
  PROVE  Roster!Flush(row, row, edited) = edited
  BY DEF Roster!Flush

(* What a request has in hand, if only it or nothing changes the sheet.    *)
LEMMA StillRostered ==
  ASSUME RosterInv, RosterAlone, alone', NEW v \in Threads, req'[v] = req[v]
  PROVE  Rostered(req'[v], sheet')
<1>1. alone /\ Rostered(req[v], sheet)
  BY DEF RosterAlone, RosterInv
<1>2. req[v] # Idle => sheet' = sheet
  BY DEF RosterAlone, Overlap
<1>3. req[v] = Idle => Rostered(req'[v], sheet')
  BY DEF Rostered, Idle
<1> QED BY <1>1, <1>2, <1>3

(* A step that writes no row: a request begins, ends or neither.           *)
LEMMA SheetUntouched ==
  ASSUME RosterInv, RosterAlone, UNCHANGED sheet,
         \/ UNCHANGED req
         \/ \E w \in Threads : \E r :
              req' = [req EXCEPT ![w] = r] /\ (alone => Rostered(r, sheet))
  PROVE  RosterInv'
<1>1. alone' => alone
  BY DEF RosterAlone
<1>2. ASSUME alone', NEW v \in Threads PROVE Rostered(req'[v], sheet')
  BY <1>1, <1>2, StillRostered DEF RosterInv
<1> QED BY <1>1, <1>2 DEF RosterInv

LEMMA BeginRosterKeeps ==
  ASSUME RosterInv, RosterAlone, NEW w \in Threads, NEW m \in Roster!Meetings, NEW form,
         Roster!BeginRoster(w, m, form)
  PROVE  RosterInv'
<1>1. PICK early \in Roster!ReadUnlocked(m, form) :
        Roster!Begin(w, [op |-> "roster", m |-> m, form |-> form,
                         loaded |-> [p \in early |-> sheet[m][p]]])
  BY DEF Roster!BeginRoster
<1> DEFINE r == [op |-> "roster", m |-> m, form |-> form,
                 loaded |-> [p \in early |-> sheet[m][p]]]
<1>2. early \subseteq Roster!People
  BY DEF Roster!ReadUnlocked
<1>3. Rostered(r, sheet)
  BY <1>2 DEF Rostered
<1>4. req' = [req EXCEPT ![w] = r] /\ UNCHANGED sheet
  BY <1>1 DEF Roster!Begin, Roster!BeginRoster
<1> HIDE DEF r
<1> QED BY <1>3, <1>4, SheetUntouched

(* A step that writes rows, all of them with the hours of their times.     *)
LEMMA SheetWritten ==
  ASSUME RosterInv, RosterAlone,
         UNCHANGED req \/ \E w \in Threads : req' = [req EXCEPT ![w] = Roster!Idle],
         sheet' = [m \in Roster!Meetings |-> [p \in Roster!People |-> sheet'[m][p]]],
         alone => \A m \in Roster!Meetings, p \in Roster!People :
                    sheet'[m][p] = sheet[m][p] \/ Follows(p, sheet'[m][p])
  PROVE  RosterInv'
<1>1. alone' => alone
  BY DEF RosterAlone
<1>2. ASSUME alone', NEW v \in Threads PROVE Rostered(req'[v], sheet')
  <2>1. req'[v] = req[v] \/ req'[v] = Roster!Idle
    BY DEF RosterInv
  <2>2. req'[v] = Roster!Idle => Rostered(req'[v], sheet')
    BY DEF Rostered, Roster!Idle
  <2> QED BY <1>2, <2>1, <2>2, StillRostered
<1>3. req' = [w \in Threads |-> req'[w]]
  BY DEF RosterInv
<1>4. ASSUME alone', NEW m \in Roster!Meetings, NEW p \in Roster!People, sheet'[m][p] # None
      PROVE  Follows(p, sheet'[m][p])
  BY <1>1, <1>4 DEF RosterInv
<1> QED BY <1>2, <1>3, <1>4 DEF RosterInv, Follows

LEMMA CommitRosterKeeps ==
  ASSUME RosterInv, RosterAlone, NEW w \in Threads, Roster!CommitRoster(w)
  PROVE  RosterInv'
<1> DEFINE r == req[w]
<1>1. /\ sheet' = [sheet EXCEPT ![r.m] = [p \in Roster!People |-> Roster!Saved(r, p)]]
      /\ req' = [req EXCEPT ![w] = Roster!Idle] /\ r.op = "roster"
  BY DEF Roster!CommitRoster, Roster!Finish
<1>2. sheet' = [m \in Roster!Meetings |-> [p \in Roster!People |-> sheet'[m][p]]]
  BY <1>1 DEF RosterInv
<1>3. ASSUME alone, NEW p \in Roster!People PROVE Follows(p, Roster!Saved(r, p))
  <2> DEFINE row == sheet[r.m][p]
             edited == Roster!Upsert(p, row, r.form[p])
  <2>1. /\ Rostered(r, sheet) /\ r.m \in Roster!Meetings
        /\ row # None => Follows(p, row)
    BY <1>1, <1>3 DEF RosterInv, Rostered
  <2>2. CASE p \notin DOMAIN r.loaded
    BY <2>2, UpsertFollows DEF Roster!Saved
  <2>3. CASE p \in DOMAIN r.loaded /\ r.loaded[p] = None
    BY <2>3, UpsertFollows DEF Roster!Saved
  <2>4. CASE p \in DOMAIN r.loaded /\ r.loaded[p] # None
    <3>1. r.loaded[p] = row /\ Follows(p, row) /\ Follows(p, edited)
      BY <1>1, <2>1, <2>4, UpsertFollows DEF Rostered
    <3>2. Roster!Saved(r, p) = Roster!Flush(row, row, edited)
      BY <2>4, <3>1 DEF Roster!Saved
    <3> HIDE DEF row, edited
    <3>3. row = [c \in Fields |-> row[c]] /\ edited = [c \in Fields |-> edited[c]]
      BY <3>1 DEF Follows
    <3> QED BY <3>1, <3>2, <3>3, FlushOfLoaded
  <2> QED BY <2>2, <2>3, <2>4
<1>4. ASSUME alone, NEW m \in Roster!Meetings, NEW p \in Roster!People
      PROVE  sheet'[m][p] = sheet[m][p] \/ Follows(p, sheet'[m][p])
  <2>1. CASE m = r.m
    <3>1. sheet'[m] = [q \in Roster!People |-> Roster!Saved(r, q)]
      BY <1>1, <2>1 DEF RosterInv
    <3>2. sheet'[m][p] = Roster!Saved(r, p)
      BY <3>1
    <3> QED BY <1>3, <1>4, <3>2
  <2>2. CASE m # r.m
    BY <1>1, <2>2 DEF RosterInv
  <2> QED BY <2>1, <2>2
<1> HIDE DEF r
<1> QED BY <1>1, <1>2, <1>4, SheetWritten

LEMMA PunchKeeps ==
  ASSUME RosterInv, RosterAlone, NEW i, NEW out \in BOOLEAN, Roster!device_punch(i, out)
  PROVE  RosterInv'
<1> DEFINE p == Roster!resolve_person(i)
<1>1. PICK m \in Roster!Today(p) :
        sheet' = [sheet EXCEPT ![m][p] =
          IF out /\ sheet[m][p] # None THEN Roster!Leave(p, sheet[m][p])
          ELSE Roster!Upsert(p, sheet[m][p], Roster!At(clock, out))]
  BY DEF Roster!device_punch, Roster!Punch
<1> DEFINE row == IF out /\ sheet[m][p] # None THEN Roster!Leave(p, sheet[m][p])
                  ELSE Roster!Upsert(p, sheet[m][p], Roster!At(clock, out))
<1>2. sheet' = [sheet EXCEPT ![m][p] = row] /\ UNCHANGED req
  BY <1>1 DEF Roster!device_punch
<1>3. ASSUME alone, m \in Roster!Meetings, p \in Roster!People PROVE Follows(p, row)
  BY <1>3, UpsertFollows, LeaveFollows DEF RosterInv
<1> HIDE DEF row, p
<1>4. sheet' = [k \in Roster!Meetings |-> [q \in Roster!People |-> sheet'[k][q]]]
  BY <1>2 DEF RosterInv
<1>5. ASSUME alone, NEW k \in Roster!Meetings, NEW q \in Roster!People
      PROVE  sheet'[k][q] = sheet[k][q] \/ Follows(q, sheet'[k][q])
  <2>1. CASE k = m /\ q = p
    <3>1. sheet'[k][q] = row
      BY <1>2, <2>1 DEF RosterInv
    <3> QED BY <1>3, <1>5, <2>1, <3>1
  <2>2. CASE ~(k = m /\ q = p)
    BY <1>2, <2>2 DEF RosterInv
  <2> QED BY <2>1, <2>2
<1> QED BY <1>2, <1>4, <1>5, SheetWritten

LEMMA RosterStepKeeps ==
  ASSUME RosterInv, RosterAlone, [Roster!Next]_(Roster!vars) PROVE RosterInv'
<1>1. ASSUME NEW w \in Threads,
             \/ Roster!BeginGenerate(w) \/ Roster!CommitGenerate(w) \/ Roster!BeginToggle(w)
             \/ Roster!CommitToggle(w) \/ Roster!Abort(w) \/ Roster!AddDevice(w)
      PROVE  RosterInv'
  <2>1. PICK r : /\ UNCHANGED req \/ req' = [req EXCEPT ![w] = r]
                 /\ r.op \in {"generate", "toggle", "idle"}
    <3>1. CASE Roster!BeginGenerate(w) \/ Roster!BeginToggle(w)
      <4> DEFINE generate == [op |-> "generate"]
                 toggle == [op |-> "toggle", to |-> IF device = "active" THEN "off" ELSE "active"]
      <4>1. generate.op = "generate" /\ toggle.op = "toggle"
        OBVIOUS
      <4>2. req' = [req EXCEPT ![w] = generate] \/ req' = [req EXCEPT ![w] = toggle]
        BY <3>1 DEF Roster!BeginGenerate, Roster!BeginToggle, Roster!Begin
      <4> HIDE DEF generate, toggle
      <4> QED BY <4>1, <4>2
    <3>2. CASE Roster!CommitGenerate(w) \/ Roster!CommitToggle(w) \/ Roster!Abort(w)
      BY <3>2 DEF Roster!CommitGenerate, Roster!CommitToggle, Roster!Abort, Roster!Finish,
                  Roster!Idle
    <3>3. CASE Roster!AddDevice(w)
      <4>1. UNCHANGED req /\ Roster!Idle.op = "idle"
        BY <3>3 DEF Roster!AddDevice, Roster!Idle
      <4> QED BY <4>1
    <3> QED BY <1>1, <3>1, <3>2, <3>3
  <2>2. UNCHANGED sheet
    BY <1>1 DEF Roster!BeginGenerate, Roster!CommitGenerate, Roster!BeginToggle,
                Roster!CommitToggle, Roster!Abort, Roster!AddDevice
  <2>3. Rostered(r, sheet)
    BY <2>1 DEF Rostered
  <2> QED BY <2>1, <2>2, <2>3, SheetUntouched
<1>2. ASSUME NEW w \in Threads, NEW m \in Roster!Meetings, NEW form, Roster!BeginRoster(w, m, form)
      PROVE  RosterInv'
  BY <1>2, BeginRosterKeeps
<1>3. ASSUME NEW w \in Threads, Roster!CommitRoster(w) PROVE RosterInv'
  BY <1>3, CommitRosterKeeps
<1>4. ASSUME NEW i, NEW out \in BOOLEAN, Roster!device_punch(i, out) PROVE RosterInv'
  BY <1>4, PunchKeeps
<1>5. CASE \/ \E i \in Roster!Identifiers, p \in Roster!People : Roster!AddCredential(i, p)
           \/ Roster!Tick \/ UNCHANGED Roster!vars
  <2>1. UNCHANGED <<sheet, req>>
    BY <1>5 DEF Roster!AddCredential, Roster!Tick, Roster!vars
  <2> QED BY <2>1, SheetUntouched
<1>6. CASE Roster!Next
  BY <1>1, <1>2, <1>3, <1>4, <1>5, <1>6, Zenon DEF Roster!Next
<1> QED BY <1>5, <1>6

(* As long as nobody writes between the steps of a request, a row holds    *)
(* the hours of its times, whichever of the roster and the card reader     *)
(* wrote them.                                                             *)
THEOREM AloneHoursAlways == MCSpec => []AloneHours
<1> DEFINE Inv == part = "roster" => RosterInv
<1>1. MCInit => Inv
  BY RosterInit DEF MCInit
<1>2. ASSUME Inv, [MCNext]_mcvars, part' = "roster" PROVE RosterInv'
  <2>1. part = "roster" /\ RosterInv
    BY <1>2 DEF MCNext, mcvars
  <2>2. CASE RosterStep
    BY <2>1, <2>2, RosterStepKeeps DEF RosterStep, RosterAlone
  <2>3. CASE UNCHANGED <<alone, req, attendance>>
    BY <2>1, <2>3 DEF attendance, RosterInv
  <2>4. RosterStep \/ UNCHANGED <<alone, req, attendance>>
    BY <1>2, <2>1 DEF MCNext, mcvars, Rest, Others
  <2> QED BY <2>2, <2>3, <2>4
<1>3. Inv /\ [MCNext]_mcvars => Inv'
  BY <1>2
<1>4. Inv => AloneHours
  BY DEF RosterInv, AloneHours, Roster!HoursFollowTimes, Follows
<1> QED BY <1>1, <1>3, <1>4, PTL DEF MCSpec

-----------------------------------------------------------------------------
(* Exams.  What auto_generate_exam() makes of a question: the texts of the *)
(* options in another order, the key with the right text.                  *)

(* A question with a key among its options, if it is one of choice.        *)
Answerable(q) ==
  /\ q = [kind |-> q.kind, options |-> q.options, answer |-> q.answer]
  /\ q.kind = School!Multiple =>
       \E k \in 1..4 : q.answer = School!Keys[k] /\ q.options[k] # None

SameTexts(printed, q) ==
  /\ {printed.options[k] : k \in School!Correct(printed)} = {q.options[k] : k \in School!Correct(q)}
  /\ {printed.options[k] : k \in School!Filled(printed)} = {q.options[k] : k \in School!Filled(q)}

LEMMA SchoolCardinality == \A S : School!Cardinality(S) = Cardinality(S)
  BY Zenon DEF School!Cardinality, Cardinality

LEMMA KeysApart == \A i, j \in 1..4 : School!Keys[i] = School!Keys[j] => i = j
  BY DEF School!Keys

(* An order of a finite set: every member comes once.                      *)
LEMMA OrderOf ==
  ASSUME NEW S, IsFiniteSet(S), NEW s \in School!Orders(S)
  PROVE  /\ Cardinality(S) \in Nat /\ s \in [1..Cardinality(S) -> S]
         /\ Len(s) = Cardinality(S)
         /\ \A i, j \in DOMAIN s : i # j => s[i] # s[j]
         /\ \A x \in S : \E i \in DOMAIN s : s[i] = x
<1>1. Cardinality(S) \in Nat
  BY FS_CardinalityType
<1>2. /\ s \in [1..Cardinality(S) -> S]
      /\ \A i, j \in DOMAIN s : i # j => s[i] # s[j]
  BY SchoolCardinality DEF School!Orders
<1>3. Len(s) = Cardinality(S)
  BY <1>1, <1>2
<1>4. s \in Injection(1..Cardinality(S), S)
  BY <1>2 DEF Injection, IsInjective
<1>5. Cardinality(1..Cardinality(S)) = Cardinality(S)
  BY <1>1, FS_Interval
<1>6. s \in Surjection(1..Cardinality(S), S)
  BY <1>4, <1>5, FS_Injection
<1> QED BY <1>1, <1>2, <1>3, <1>6 DEF Surjection

(* The last of some numbers up to four is one of them.                     *)
LEMMA LastOfFour ==
  ASSUME NEW S \in SUBSET (1..4), S # {} PROVE School!Max(S) \in S
<1>1. \E n \in S : \A m \in S : n >= m
  <2>1. \A m \in S : m = 1 \/ m = 2 \/ m = 3 \/ m = 4
    OBVIOUS
  <2>2. CASE 4 \in S
    BY <2>1, <2>2
  <2>3. CASE 4 \notin S /\ 3 \in S
    BY <2>1, <2>3
  <2>4. CASE 4 \notin S /\ 3 \notin S /\ 2 \in S
    BY <2>1, <2>4
  <2>5. CASE 4 \notin S /\ 3 \notin S /\ 2 \notin S
    <3>1. \A m \in S : m = 1
      BY <2>1, <2>5
    <3>2. 1 \in S
      BY <3>1
    <3> QED BY <3>1, <3>2
  <2> QED BY <2>2, <2>3, <2>4, <2>5
<1>2. School!Max(S) = CHOOSE n \in S : \A m \in S : n >= m
  BY DEF School!Max
<1> QED BY <1>1, <1>2, Zenon

LEMMA OneToFour == IsFiniteSet(1..4) /\ Cardinality(1..4) = 4
<1>1. 1 \in Int /\ 4 \in Int /\ ~(1 > 4) /\ 4 - 1 + 1 = 4
  OBVIOUS
<1>2. /\ IsFiniteSet(1..4)
      /\ Cardinality(1..4) = IF 1 > 4 THEN 0 ELSE 4 - 1 + 1
  BY <1>1, FS_Interval, Zenon
<1> QED BY <1>1, <1>2

LEMMA ShuffledKeeps ==
  ASSUME NEW q, Answerable(q), q.kind = School!Multiple,
         NEW order \in School!Orders(School!Filled(q))
  PROVE  SameTexts(School!Shuffled(q, order), q)
<1> DEFINE place(k) == IF k <= Len(order) THEN q.options[order[k]] ELSE q.options[k]
           right == {k \in 1..Len(order) : \E c \in School!Correct(q) : place(k) = q.options[c]}
           printed == School!Shuffled(q, order)
           filled == School!Filled(q)
<1>1. PICK c \in 1..4 : q.answer = School!Keys[c] /\ q.options[c] # None
  BY DEF Answerable
<1>2. School!Correct(q) = {c}
  BY <1>1, KeysApart DEF School!Correct
<1>3. filled \subseteq 1..4 /\ IsFiniteSet(filled) /\ Cardinality(filled) <= 4
  <2>2. filled \in SUBSET (1..4)
    BY DEF School!Filled
  <2> QED BY <2>2, OneToFour, FS_Subset
<1>4. /\ Len(order) \in 0..4 /\ DOMAIN order = 1..Len(order)
      /\ \A i \in 1..Len(order) : order[i] \in filled
      /\ \A x \in filled : \E i \in 1..Len(order) : order[i] = x
  <2>1. /\ Cardinality(filled) \in Nat /\ order \in [1..Cardinality(filled) -> filled]
        /\ Len(order) = Cardinality(filled)
        /\ \A x \in filled : \E i \in DOMAIN order : order[i] = x
    BY <1>3, OrderOf
  <2> HIDE DEF filled
  <2> QED BY <1>3, <2>1
<1>5. c \in filled /\ \A x \in filled : x \in 1..4 /\ q.options[x] # None
  BY <1>1 DEF School!Filled
<1>6. right # {} /\ right \in SUBSET (1..4)
  BY <1>2, <1>4, <1>5
<1>7. printed = [q EXCEPT !.options = [k \in 1..4 |-> place(k)],
                        !.answer = School!Keys[School!Max(right)]]
  BY <1>6, Zenon DEF School!Shuffled
<1> DEFINE last == School!Max(right)
<1>8. last \in right
  BY <1>6, LastOfFour
<1>9. place(last) = q.options[c]
  BY <1>2, <1>8
<1>10. last \in 1..4
  BY <1>6, <1>8
<1>11. /\ printed.options = [k \in 1..4 |-> place(k)]
       /\ printed.answer = School!Keys[last]
  <2> DEFINE opts == [k \in 1..4 |-> place(k)]
             key == School!Keys[last]
  <2>1. printed = [q EXCEPT !.options = opts, !.answer = key]
    BY <1>7
  <2>2. q = [kind |-> q.kind, options |-> q.options, answer |-> q.answer]
    BY DEF Answerable
  <2> HIDE DEF printed, opts, key
  <2>3. printed.options = opts /\ printed.answer = key
    BY <2>1, <2>2
  <2> QED BY <2>3 DEF opts, key
<1> HIDE DEF last, right, printed
<1>17. \A k \in 1..4 : printed.options[k] = place(k)
  BY <1>11
<1>12. School!Correct(printed) = {last}
  BY <1>10, <1>11, KeysApart DEF School!Correct
<1>13. {printed.options[k] : k \in School!Correct(printed)} = {q.options[k] : k \in School!Correct(q)}
  BY <1>2, <1>9, <1>10, <1>11, <1>12
<1>14. ASSUME NEW k \in School!Filled(printed)
       PROVE  \E x \in filled : printed.options[k] = q.options[x]
  <2>1. k \in 1..4 /\ printed.options[k] = place(k) /\ place(k) # None
    BY <1>17 DEF School!Filled
  <2>2. CASE k <= Len(order)
    <3>1. k \in 1..Len(order)
      BY <1>4, <2>1, <2>2
    <3>2. order[k] \in filled
      BY <1>4, <3>1
    <3>3. printed.options[k] = q.options[order[k]]
      BY <2>1, <2>2
    <3> QED BY <3>2, <3>3
  <2>3. CASE ~(k <= Len(order))
    BY <2>1, <2>3 DEF School!Filled
  <2> QED BY <2>2, <2>3
<1>15. ASSUME NEW x \in filled
       PROVE  \E k \in School!Filled(printed) : printed.options[k] = q.options[x]
  <2>1. PICK i \in 1..Len(order) : order[i] = x
    BY <1>4
  <2>2. i \in 1..4 /\ i <= Len(order)
    BY <1>4, <2>1
  <2>3. printed.options[i] = q.options[x]
    BY <1>17, <2>1, <2>2
  <2> QED BY <1>5, <2>2, <2>3 DEF School!Filled
<1>16. {printed.options[k] : k \in School!Filled(printed)} = {q.options[k] : k \in filled}
  BY <1>14, <1>15
<1> QED BY <1>13, <1>16 DEF SameTexts, printed

-----------------------------------------------------------------------------
(* The tables of the exams.                                                *)

ExamRow ==
  [weights : [theory : Int, practical : Int, total : Int, pass : Int],
   status : {"draft", "completed"}]
ResultRow == [student : Students, total : Int, passed : BOOLEAN, appeal : BOOLEAN]
DiplomaRow == [student : Students, valid : BOOLEAN]

ExamTables ==
  /\ bank \in Seq(Asked)
  /\ exam \in ExamRow \/ exam = None
  /\ results \in Seq(ResultRow)
  /\ diplomas \in Seq(DiplomaRow)
  /\ served \in Nat
  /\ req = [w \in Threads |-> req[w]]

(* A question of the exam is one of the bank, with the same texts.         *)
Printed ==
  \A n \in DOMAIN paper :
    paper[n].from \in DOMAIN bank /\ SameTexts(paper[n].q, bank[paper[n].from])

ExamRequest(r) ==
  /\ r.op = "grade" =>
       r.form \in School!Form /\ r.whom \subseteq Students /\ exam \in ExamRow
  /\ r.op = "issue" => r.student \in Students

(* Nobody else is at work, and what a request found is still so.           *)
ByItself ==
  /\ \A v, w \in Threads : req[v] # Idle /\ req[w] # Idle => v = w
  /\ \A w \in Threads :
       /\ req[w].op = "grade" => \A st \in Students : req[w].found[st] = School!ResultOf(st)
       /\ req[w].op = "issue" => School!Valid(req[w].student) = {}
  /\ \A i, j \in DOMAIN results : results[i].student = results[j].student => i = j
  /\ \A i, j \in DOMAIN diplomas :
       diplomas[i].valid /\ diplomas[j].valid /\ diplomas[i].student = diplomas[j].student => i = j

ExamsInv ==
  /\ ExamTables /\ Printed
  /\ \A w \in Threads : ExamRequest(req[w])
  /\ alone => ByItself

ExamsAlone == alone' = (alone /\ ~Overlap(diplomas, diplomas'))

(* The texts the questions of MCOffice are put in; none of them is NULL.    *)
Texts == {"x", "y", "z"}

(* The questions of MCOffice can be answered.                              *)
LEMMA AskedAnswerable == ASSUME None \notin Texts, NEW q \in Asked PROVE Answerable(q)
<1>0. "x" # None
  BY DEF Texts
<1>2. q = [kind |-> q.kind, options |-> q.options, answer |-> q.answer]
  BY DEF Asked, Question
<1>3. CASE q = Question(<<"x", "y", "x", None>>, "c")
  <2>1. q.answer = School!Keys[3]
    BY <1>3 DEF Question, School!Keys
  <2>2. q.options[3] = "x"
    BY <1>3 DEF Question
  <2> QED BY <1>0, <1>2, <2>1, <2>2 DEF Answerable
<1>4. CASE q = Question(<<"x", None, "z", None>>, "a")
  <2>1. q.answer = School!Keys[1]
    BY <1>4 DEF Question, School!Keys
  <2>2. q.options[1] = "x"
    BY <1>4 DEF Question
  <2> QED BY <1>0, <1>2, <2>1, <2>2 DEF Answerable
<1>5. CASE q = [kind |-> "essay", options |-> <<None, None, None, None>>, answer |-> None]
  <2>1. q.kind # School!Multiple
    BY <1>5 DEF School!Multiple
  <2> QED BY <1>2, <2>1 DEF Answerable
<1> QED BY <1>3, <1>4, <1>5 DEF Asked

LEMMA ExamsInit == ASSUME School!Init PROVE ExamsInv
<1>1. \A w \in Threads : req[w] = Idle /\ req[w].op = "idle"
  BY DEF School!Init, School!Idle, Idle
<1>2. ExamTables
  BY DEF School!Init, ExamTables
<1>3. Printed /\ ByItself
  BY <1>1 DEF School!Init, Printed, ByItself
<1> QED BY <1>1, <1>2, <1>3 DEF ExamsInv, ExamRequest

-----------------------------------------------------------------------------
(* Questions.                                                              *)

LEMMA ByItselfKept ==
  ASSUME ByItself, UNCHANGED <<results, diplomas, req>> PROVE ByItself'
<1>1. \A st : School!ResultOf(st)' = School!ResultOf(st) /\ School!Valid(st)' = School!Valid(st)
  BY DEF School!ResultOf, School!Valid
<1> QED BY <1>1 DEF ByItself

LEMMA AddQuestionKeeps ==
  ASSUME ExamsInv, ExamsAlone, NEW q \in Asked, School!AddQuestion(q) PROVE ExamsInv'
<1>1. /\ bank' = Append(bank, q) /\ bank \in Seq(Asked)
      /\ UNCHANGED <<exam, paper, results, diplomas, req, served>>
  BY DEF School!AddQuestion, ExamsInv, ExamTables
<1>2. /\ bank' \in Seq(Asked) /\ DOMAIN bank \subseteq DOMAIN bank'
      /\ \A i \in DOMAIN bank : bank'[i] = bank[i]
  BY <1>1
<1>3. Printed'
  BY <1>1, <1>2 DEF ExamsInv, Printed
<1>4. ExamTables' /\ (\A w \in Threads : ExamRequest(req[w]))'
  BY <1>1, <1>2 DEF ExamsInv, ExamTables, ExamRequest
<1>5. alone' => ByItself'
  BY <1>1, ByItselfKept DEF ExamsInv, ExamsAlone
<1> QED BY <1>3, <1>4, <1>5 DEF ExamsInv

LEMMA GenerateKeeps ==
  ASSUME None \notin Texts, ExamsInv, ExamsAlone, NEW some \in SUBSET DOMAIN bank,
         NEW shuffle \in BOOLEAN, NEW chosen \in School!Orders(some),
         School!Generate(chosen, shuffle)
  PROVE  ExamsInv'
<1>1. UNCHANGED <<bank, exam, results, diplomas, req, served>>
  BY DEF School!Generate
<1>2. bank \in Seq(Asked)
  BY DEF ExamsInv, ExamTables
<1>3. IsFiniteSet(some)
  <2>1. IsFiniteSet(1..Len(bank)) /\ DOMAIN bank = 1..Len(bank)
    <3>1. Len(bank) \in Int /\ 1 \in Int
      BY <1>2
    <3> QED BY <1>2, <3>1, FS_Interval
  <2> QED BY <2>1, FS_Subset
<1>4. DOMAIN chosen = 1..Len(chosen) /\ \A n \in DOMAIN chosen : chosen[n] \in some
  <2>1. /\ Cardinality(some) \in Nat /\ chosen \in [1..Cardinality(some) -> some]
        /\ Len(chosen) = Cardinality(some)
    BY <1>3, OrderOf
  <2> QED BY <2>1
<1>5. DOMAIN paper' = 1..Len(chosen) /\ \A n \in DOMAIN paper' : paper'[n] \in School!Drawn(chosen[n], shuffle)
  BY DEF School!Generate
<1>6. ASSUME NEW n \in DOMAIN paper'
      PROVE  paper'[n].from \in DOMAIN bank /\ SameTexts(paper'[n].q, bank[paper'[n].from])
  <2> DEFINE i == chosen[n]
             q == bank[i]
  <2>1. i \in DOMAIN bank /\ paper'[n] \in School!Drawn(i, shuffle)
    BY <1>4, <1>5
  <2>2. q \in Asked /\ Answerable(q)
    BY <1>2, <2>1, ElementOfSeq, AskedAnswerable
  <2>3. CASE shuffle /\ q.kind = School!Multiple
    <3>1. PICK order \in School!Orders(School!Filled(q)) :
            paper'[n] = [from |-> i, q |-> School!Shuffled(q, order)]
      BY <2>1, <2>3 DEF School!Drawn
    <3>2. SameTexts(School!Shuffled(q, order), q)
      BY <2>2, <2>3, ShuffledKeeps
    <3> QED BY <2>1, <3>1, <3>2
  <2>4. CASE ~(shuffle /\ q.kind = School!Multiple)
    <3>1. paper'[n] = [from |-> i, q |-> q]
      BY <2>1, <2>4 DEF School!Drawn
    <3>2. SameTexts(q, q)
      BY DEF SameTexts
    <3> QED BY <2>1, <3>1, <3>2
  <2> QED BY <2>3, <2>4
<1>7. Printed'
  BY <1>1, <1>6 DEF Printed
<1>8. ExamTables' /\ (\A w \in Threads : ExamRequest(req[w]))'
  BY <1>1 DEF ExamsInv, ExamTables, ExamRequest
<1>9. alone' => ByItself'
  BY <1>1, ByItselfKept DEF ExamsInv, ExamsAlone
<1> QED BY <1>7, <1>8, <1>9 DEF ExamsInv

-----------------------------------------------------------------------------
(* Requests.                                                               *)

(* Who begins while another request is under way has overlapped with it.   *)
LEMMA ExamsBegin ==
  ASSUME ExamsInv, ExamsAlone, NEW w \in Threads, NEW r, School!Begin(w, r), ExamRequest(r),
         r.op = "grade" => \A st \in Students : r.found[st] = School!ResultOf(st),
         r.op = "issue" => School!Valid(r.student) = {}
  PROVE  ExamsInv'
<1>1. /\ req' = [req EXCEPT ![w] = r] /\ served' = served + 1
      /\ UNCHANGED <<bank, exam, paper, results, diplomas>>
  BY DEF School!Begin
<1>2. ExamTables' /\ Printed'
  BY <1>1 DEF ExamsInv, ExamTables, Printed
<1>3. \A v \in Threads : req'[v] = IF v = w THEN r ELSE req[v]
  BY <1>1 DEF ExamsInv, ExamTables
<1>4. (\A v \in Threads : ExamRequest(req[v]))'
  BY <1>1, <1>3 DEF ExamsInv, ExamRequest
<1>5. ASSUME alone' PROVE ByItself'
  <2>1. alone /\ ByItself /\ served \in Nat
    BY <1>5 DEF ExamsAlone, ExamsInv, ExamTables
  <2>2. ASSUME NEW v \in Threads, v # w, req[v] # Idle PROVE FALSE
    <3>1. served' # served /\ req'[v] = req[v]
      BY <1>1, <1>3, <2>1, <2>2
    <3> QED BY <1>5, <2>2, <3>1 DEF ExamsAlone, Overlap
  <2>3. \A v \in Threads : v # w => req'[v] = Idle
    BY <1>3, <2>2
  <2>4. \A st : School!ResultOf(st)' = School!ResultOf(st) /\ School!Valid(st)' = School!Valid(st)
    BY <1>1 DEF School!ResultOf, School!Valid
  <2>5. ASSUME NEW v \in Threads
        PROVE  /\ req'[v].op = "grade" => \A st \in Students : req'[v].found[st] = School!ResultOf(st)
               /\ req'[v].op = "issue" => School!Valid(req'[v].student) = {}
    BY <1>3, <2>1 DEF ByItself
  <2> QED BY <1>1, <2>1, <2>3, <2>4, <2>5 DEF ByItself
<1> QED BY <1>2, <1>4, <1>5 DEF ExamsInv

(* A request that ends; what the others have in hand stays, if it was not  *)
(* written under them.                                                     *)
LEMMA ExamsStepKept ==
  ASSUME ExamsInv, ExamsAlone,
         UNCHANGED req \/ \E w \in Threads : req' = [req EXCEPT ![w] = School!Idle],
         UNCHANGED <<bank, paper, served>>,
         exam' \in ExamRow \/ (exam' = None /\ exam \notin ExamRow),
         results' \in Seq(ResultRow), diplomas' \in Seq(DiplomaRow),
         alone =>
           /\ \A v \in Threads : req'[v].op = "grade" =>
                \A st \in Students : School!ResultOf(st)' = School!ResultOf(st)
           /\ \A i, j \in DOMAIN results' : results'[i].student = results'[j].student => i = j
           /\ \A i, j \in DOMAIN diplomas' :
                diplomas'[i].valid /\ diplomas'[j].valid
                  /\ diplomas'[i].student = diplomas'[j].student => i = j
  PROVE  ExamsInv'
<1>1. \A v \in Threads : req'[v] = req[v] \/ (req'[v] = Idle /\ req'[v].op = "idle")
  BY DEF ExamsInv, ExamTables, School!Idle, Idle
<1>2. ExamTables' /\ Printed'
  BY DEF ExamsInv, ExamTables, Printed
<1>3. (\A v \in Threads : ExamRequest(req[v]))'
  BY <1>1 DEF ExamsInv, ExamRequest
<1>4. ASSUME alone' PROVE ByItself'
  <2>1. alone /\ ByItself
    BY <1>4 DEF ExamsAlone, ExamsInv
  <2>2. ASSUME NEW v \in Threads, req'[v].op = "issue", NEW st, st = req'[v].student
        PROVE  School!Valid(st)' = {}
    <3>1. req'[v] = req[v] /\ req[v] # Idle
      BY <1>1, <2>2 DEF Idle
    <3>2. diplomas' = diplomas
      BY <1>4, <3>1 DEF ExamsAlone, Overlap
    <3> QED BY <2>1, <2>2, <3>1, <3>2 DEF ByItself, School!Valid
  <2>3. ASSUME NEW v \in Threads, req'[v].op = "grade"
        PROVE  \A st \in Students : req'[v].found[st] = School!ResultOf(st)'
    BY <1>1, <2>1, <2>3 DEF ByItself
  <2>4. \A v, w \in Threads : req'[v] # Idle /\ req'[w] # Idle => v = w
    BY <1>1, <2>1 DEF ByItself
  <2>5. \A i, j \in DOMAIN results' : results'[i].student = results'[j].student => i = j
    BY <2>1
  <2>6. \A i, j \in DOMAIN diplomas' :
          diplomas'[i].valid /\ diplomas'[j].valid
            /\ diplomas'[i].student = diplomas'[j].student => i = j
    BY <2>1
  <2> QED BY <2>2, <2>3, <2>4, <2>5, <2>6 DEF ByItself
<1> QED BY <1>2, <1>3, <1>4 DEF ExamsInv

-----------------------------------------------------------------------------
(* Marks.                                                                  *)

LEMMA ProductsAreInt == \A a, b, c, d \in Int : a * b + c * d \in Int
OBVIOUS

LEMMA MarkedRow ==
  ASSUME exam \in ExamRow, NEW st \in Students, NEW a \in Int, NEW b \in Int
  PROVE  School!Marked(st, a, b) \in ResultRow /\ School!Marked(st, a, b).student = st
<1> DEFINE p == exam.weights
           t == School!Held(a, p.total)
           u == School!Held(b, p.total)
           total == School!Total(p, t, u)
           enough == total >= 100 * p.pass
<1>1. p.theory \in Int /\ p.practical \in Int /\ p.total \in Int /\ p.pass \in Int
  BY DEF ExamRow
<1>2. t \in Int /\ u \in Int
  BY <1>1 DEF School!Held
<1>3. total \in Int
  <2>1. total = t * p.theory + u * p.practical
    BY DEF School!Total
  <2> HIDE DEF t, u, p, total
  <2> QED BY <1>1, <1>2, <2>1, ProductsAreInt
<1>4. School!Marked(st, a, b) = [student |-> st, total |-> total, passed |-> enough, appeal |-> FALSE]
  BY DEF School!Marked
<1> HIDE DEF total
<1>5. enough \in BOOLEAN
  OBVIOUS
<1> HIDE DEF enough
<1> QED BY <1>3, <1>4, <1>5 DEF ResultRow

(* A row of a table and of the rows that are added to it.                  *)
LEMMA RowsAdded ==
  ASSUME NEW R, NEW s \in Seq(R), NEW t \in Seq(R), NEW u, u = s \o t
  PROVE  /\ u \in Seq(R) /\ DOMAIN u = 1..(Len(s) + Len(t))
         /\ \A i \in 1..Len(s) : u[i] = s[i]
         /\ \A i \in DOMAIN u : i \notin 1..Len(s) =>
              i - Len(s) \in 1..Len(t) /\ u[i] = t[i - Len(s)]
<1>1. u \in Seq(R) /\ Len(u) = Len(s) + Len(t) /\ Len(s) \in Nat /\ Len(t) \in Nat
  BY ConcatProperties
<1>2. DOMAIN u = 1..(Len(s) + Len(t))
  BY <1>1
<1>3. \A i \in 1..Len(u) : u[i] = IF i <= Len(s) THEN s[i] ELSE t[i - Len(s)]
  BY ConcatProperties
<1>4. \A i \in 1..Len(s) : u[i] = s[i]
  BY <1>1, <1>3
<1>5. ASSUME NEW i \in DOMAIN u, i \notin 1..Len(s)
      PROVE  i - Len(s) \in 1..Len(t) /\ u[i] = t[i - Len(s)]
  <2>1. i \in Int /\ i > Len(s) /\ i <= Len(s) + Len(t)
    BY <1>1, <1>2, <1>5
  <2> QED BY <1>1, <1>2, <1>3, <1>5, <2>1
<1> QED BY <1>1, <1>2, <1>4, <1>5

(* A row marked anew keeps its appeal.                                     *)
KeptAppeal(new, old) == [new EXCEPT !.appeal = old.appeal]

LEMMA AppealKept ==
  ASSUME NEW new \in ResultRow, NEW old \in ResultRow
  PROVE  KeptAppeal(new, old) \in ResultRow /\ KeptAppeal(new, old).student = new.student
BY DEF ResultRow, KeptAppeal

LEMMA BeginGradeKeeps ==
  ASSUME ExamsInv, ExamsAlone, NEW w \in Threads, NEW form \in School!Form,
         School!BeginGrade(w, form)
  PROVE  ExamsInv'
<1> DEFINE r == [op |-> "grade", form |-> form,
                 whom |-> {st \in Students : statuses[st] = "active"},
                 found |-> [st \in Students |-> School!ResultOf(st)]]
<1>1. School!Begin(w, r) /\ exam # None
  BY DEF School!BeginGrade
<1>2. ExamRequest(r)
  BY <1>1 DEF ExamRequest, ExamsInv, ExamTables
<1>3. \A st \in Students : r.found[st] = School!ResultOf(st)
  OBVIOUS
<1>4. r.op # "issue"
  OBVIOUS
<1> HIDE DEF r
<1> QED BY <1>1, <1>2, <1>3, <1>4, ExamsBegin

(* The rows there were keep their students; those added are of students    *)
(* that had none when the request began.                                   *)
LEMMA CommitGradeKeeps ==
  ASSUME IsFiniteSet(Students), ExamsInv, ExamsAlone, NEW w \in Threads, School!CommitGrade(w)
  PROVE  ExamsInv'
<1> DEFINE r == req[w]
           New(st) == School!Marked(st, r.form[st].theory, r.form[st].practical)
           added == {st \in r.whom : r.found[st] = {}}
           again(i) == \E st \in r.whom : r.found[st] # {} /\ i = School!Max(r.found[st])
           changed == [i \in DOMAIN results |->
             IF again(i) THEN [New(results[i].student) EXCEPT !.appeal = results[i].appeal]
             ELSE results[i]]
<1>1. PICK order \in School!Orders(added) :
        results' = changed \o [i \in DOMAIN order |-> New(order[i])]
  BY DEF School!CommitGrade
<1>2. /\ r.op = "grade" /\ exam' = [exam EXCEPT !.status = "completed"]
      /\ req' = [req EXCEPT ![w] = School!Idle]
      /\ UNCHANGED <<bank, paper, diplomas, served>>
  BY DEF School!CommitGrade, School!Finish
<1>3. r.form \in School!Form /\ r.whom \subseteq Students /\ exam \in ExamRow
  BY <1>2 DEF ExamsInv, ExamRequest
<1>4. ASSUME NEW st \in Students PROVE New(st) \in ResultRow /\ New(st).student = st
  <2>1. r.form[st].theory \in Int /\ r.form[st].practical \in Int
    BY <1>3 DEF School!Form
  <2> QED BY <1>3, <2>1, MarkedRow
<1>5. exam' \in ExamRow
  BY <1>2, <1>3 DEF ExamRow
<1>6. results \in Seq(ResultRow) /\ DOMAIN results = 1..Len(results) /\ Len(results) \in Nat
  BY DEF ExamsInv, ExamTables
<1> HIDE DEF New
<1>7. ASSUME NEW i \in DOMAIN results
      PROVE  changed[i] \in ResultRow /\ changed[i].student = results[i].student
  <2>1. results[i] \in ResultRow /\ results[i].student \in Students
    <3>1. results[i] \in ResultRow
      BY <1>6, ElementOfSeq
    <3> QED BY <3>1 DEF ResultRow
  <2>2. KeptAppeal(New(results[i].student), results[i]) \in ResultRow
    BY <1>4, <2>1, AppealKept
  <2>3. KeptAppeal(New(results[i].student), results[i]).student = results[i].student
    BY <1>4, <2>1, AppealKept
  <2>4. changed[i] = IF again(i) THEN KeptAppeal(New(results[i].student), results[i]) ELSE results[i]
    BY DEF KeptAppeal
  <2> QED BY <2>1, <2>2, <2>3, <2>4
<1>8. changed \in Seq(ResultRow) /\ Len(changed) = Len(results)
  <2>1. DOMAIN changed = 1..Len(results)
    BY <1>6
  <2> HIDE DEF changed
  <2>2. changed = [i \in 1..Len(results) |-> changed[i]]
    <3>1. changed = [i \in DOMAIN changed |-> changed[i]]
      BY DEF changed
    <3> QED BY <2>1, <3>1
  <2>3. changed \in [1..Len(results) -> ResultRow]
    BY <1>6, <1>7, <2>1, <2>2
  <2> QED BY <1>6, <2>3
<1>9. /\ IsFiniteSet(added) /\ added \subseteq Students
      /\ \A st \in added : r.found[st] = {}
  BY <1>3, FS_Subset
<1> HIDE DEF changed, added
<1> DEFINE tail == [i \in DOMAIN order |-> New(order[i])]
<1>10. /\ DOMAIN order = 1..Len(order) /\ Len(order) \in Nat
       /\ \A i \in 1..Len(order) : order[i] \in added
       /\ \A i, j \in 1..Len(order) : i # j => order[i] # order[j]
  <2>1. /\ Cardinality(added) \in Nat /\ order \in [1..Cardinality(added) -> added]
        /\ Len(order) = Cardinality(added)
        /\ \A i, j \in DOMAIN order : i # j => order[i] # order[j]
    BY <1>9, OrderOf
  <2> QED BY <2>1
<1>11. tail \in Seq(ResultRow) /\ Len(tail) = Len(order)
       /\ \A i \in 1..Len(order) : tail[i].student = order[i]
  <2>1. \A i \in 1..Len(order) : New(order[i]) \in ResultRow /\ New(order[i]).student = order[i]
    BY <1>4, <1>9, <1>10
  <2>2. tail \in [1..Len(order) -> ResultRow]
    BY <1>10, <2>1
  <2> QED BY <1>10, <2>1, <2>2
<1> HIDE DEF tail
<1>12. /\ results' \in Seq(ResultRow)
       /\ DOMAIN results' = 1..(Len(results) + Len(order))
       /\ \A i \in DOMAIN results : results'[i].student = results[i].student
       /\ \A i \in DOMAIN results' : i \notin DOMAIN results =>
            /\ i - Len(results) \in 1..Len(order)
            /\ results'[i].student = order[i - Len(results)]
  <2>1. results' = changed \o tail
    BY <1>1 DEF tail
  <2> DEFINE new == results'
  <2>2. new = changed \o tail
    BY <2>1
  <2> HIDE DEF new
  <2>3. /\ new \in Seq(ResultRow) /\ DOMAIN new = 1..(Len(changed) + Len(tail))
        /\ \A i \in 1..Len(changed) : new[i] = changed[i]
        /\ \A i \in DOMAIN new : i \notin 1..Len(changed) =>
              i - Len(changed) \in 1..Len(tail) /\ new[i] = tail[i - Len(changed)]
    <3>1. changed \in Seq(ResultRow) /\ tail \in Seq(ResultRow)
      BY <1>8, <1>11
    <3> DEFINE A == changed
               B == tail
    <3>2. A \in Seq(ResultRow) /\ B \in Seq(ResultRow) /\ new = A \o B
      BY <2>2, <3>1
    <3> HIDE DEF A, B
    <3>3. /\ new \in Seq(ResultRow) /\ DOMAIN new = 1..(Len(A) + Len(B))
          /\ \A i \in 1..Len(A) : new[i] = A[i]
          /\ \A i \in DOMAIN new : i \notin 1..Len(A) =>
                i - Len(A) \in 1..Len(B) /\ new[i] = B[i - Len(A)]
      BY <3>2, RowsAdded
    <3> QED BY <3>3 DEF A, B
  <2>4. /\ new \in Seq(ResultRow)
        /\ DOMAIN new = 1..(Len(results) + Len(order))
        /\ \A i \in DOMAIN results : new[i].student = results[i].student
        /\ \A i \in DOMAIN new : i \notin DOMAIN results =>
            /\ i - Len(results) \in 1..Len(order)
            /\ new[i].student = order[i - Len(results)]
    BY <1>6, <1>7, <1>8, <1>11, <2>3
  <2> QED BY <2>4 DEF new
<1>13. ASSUME alone PROVE \A i, j \in DOMAIN results' : results'[i].student = results'[j].student => i = j
  <2>1. ByItself
    BY <1>13 DEF ExamsInv
  <2>2. \A st \in added : \A i \in DOMAIN results : results[i].student # st
    <3>1. \A st \in added : School!ResultOf(st) = {}
      BY <1>2, <1>9, <2>1 DEF ByItself
    <3> QED BY <3>1 DEF School!ResultOf
  <2>3. \A i, j \in DOMAIN results : results[i].student = results[j].student => i = j
    BY <2>1 DEF ByItself
  <2> SUFFICES ASSUME NEW i \in DOMAIN results', NEW j \in DOMAIN results',
                      results'[i].student = results'[j].student
               PROVE  i = j
    OBVIOUS
  <2>4. CASE i \in DOMAIN results /\ j \in DOMAIN results
    BY <1>12, <2>3, <2>4
  <2>5. CASE i \in DOMAIN results /\ j \notin DOMAIN results
    <3>1. results[i].student = order[j - Len(results)] /\ order[j - Len(results)] \in added
      BY <1>10, <1>12, <2>5
    <3> QED BY <2>2, <2>5, <3>1
  <2>6. CASE i \notin DOMAIN results /\ j \in DOMAIN results
    <3>1. results[j].student = order[i - Len(results)] /\ order[i - Len(results)] \in added
      BY <1>10, <1>12, <2>6
    <3> QED BY <2>2, <2>6, <3>1
  <2>7. CASE i \notin DOMAIN results /\ j \notin DOMAIN results
    <3>1. /\ i - Len(results) \in 1..Len(order) /\ j - Len(results) \in 1..Len(order)
          /\ order[i - Len(results)] = order[j - Len(results)]
      BY <1>12, <2>7
    <3>2. i - Len(results) = j - Len(results)
      BY <1>10, <3>1
    <3>3. i \in Int /\ j \in Int
      BY <1>12
    <3> QED BY <1>6, <3>2, <3>3
  <2> QED BY <2>4, <2>5, <2>6, <2>7
<1>14. ASSUME alone PROVE \A v \in Threads : req'[v].op # "grade"
  <2>1. \A v \in Threads : v # w => req[v] = Idle
    BY <1>2, <1>14 DEF ExamsInv, ByItself, Idle
  <2>2. \A v \in Threads : req'[v] = Idle
    BY <1>2, <2>1 DEF ExamsInv, ExamTables, School!Idle, Idle
  <2> QED BY <2>2 DEF Idle
<1>15. diplomas' \in Seq(DiplomaRow) /\ (alone => \A i, j \in DOMAIN diplomas' :
          diplomas'[i].valid /\ diplomas'[j].valid
            /\ diplomas'[i].student = diplomas'[j].student => i = j)
  BY <1>2 DEF ExamsInv, ExamTables, ByItself
<1> QED BY <1>2, <1>5, <1>12, <1>13, <1>14, <1>15, ExamsStepKept

-----------------------------------------------------------------------------
(* Certificates, and what is no request.                                   *)

(* A step that writes neither results nor certificates.                    *)
LEMMA TablesUntouched ==
  ASSUME ExamsInv, ExamsAlone, UNCHANGED <<bank, paper, results, diplomas, served>>,
         UNCHANGED req \/ \E w \in Threads : req' = [req EXCEPT ![w] = School!Idle],
         exam' \in ExamRow \/ UNCHANGED exam
  PROVE  ExamsInv'
<1>1. results' \in Seq(ResultRow) /\ diplomas' \in Seq(DiplomaRow)
      /\ (exam' \in ExamRow \/ (exam' = None /\ exam \notin ExamRow))
  BY DEF ExamsInv, ExamTables
<1>2. \A st : School!ResultOf(st)' = School!ResultOf(st)
  BY DEF School!ResultOf
<1>3. alone => /\ \A i, j \in DOMAIN results' : results'[i].student = results'[j].student => i = j
               /\ \A i, j \in DOMAIN diplomas' :
                    diplomas'[i].valid /\ diplomas'[j].valid
                      /\ diplomas'[i].student = diplomas'[j].student => i = j
  BY DEF ExamsInv, ByItself
<1> QED BY <1>1, <1>2, <1>3, ExamsStepKept

LEMMA AddExamKeeps ==
  ASSUME ExamsInv, ExamsAlone, NEW p \in Weights, School!AddExam(p) PROVE ExamsInv'
<1>1. exam' = [weights |-> p, status |-> "draft"]
      /\ UNCHANGED <<bank, paper, results, diplomas, req, served>>
  BY DEF School!AddExam
<1>2. p \in [theory : Int, practical : Int, total : Int, pass : Int]
  BY DEF Weights
<1>3. exam' \in ExamRow
  BY <1>1, <1>2 DEF ExamRow
<1> QED BY <1>1, <1>3, TablesUntouched

(* An appeal is written into the row, and nothing else of it.              *)
Appealed(row) == [row EXCEPT !.appeal = TRUE]

LEMMA RowAppealed ==
  ASSUME NEW row \in ResultRow PROVE Appealed(row) \in ResultRow /\ Appealed(row).student = row.student
BY DEF Appealed, ResultRow

LEMMA AppealKeeps ==
  ASSUME ExamsInv, ExamsAlone, NEW i \in DOMAIN results, School!Appeal(i) PROVE ExamsInv'
<1>1. /\ results' = [results EXCEPT ![i] = Appealed(results[i])]
      /\ UNCHANGED <<bank, exam, paper, diplomas, req, served>>
  BY DEF School!Appeal, Appealed
<1>2. results \in Seq(ResultRow) /\ diplomas \in Seq(DiplomaRow)
      /\ (exam \in ExamRow \/ exam = None)
  BY DEF ExamsInv, ExamTables
<1>3. results[i] \in ResultRow
  BY <1>2, ElementOfSeq
<1>4. Appealed(results[i]) \in ResultRow /\ Appealed(results[i]).student = results[i].student
  BY <1>3, RowAppealed
<1>5. /\ results' \in Seq(ResultRow) /\ DOMAIN results' = DOMAIN results
      /\ \A k \in DOMAIN results : results'[k].student = results[k].student
  BY <1>1, <1>2, <1>4
<1>6. \A st : School!ResultOf(st)' = School!ResultOf(st)
  BY <1>5 DEF School!ResultOf
<1>7. alone => /\ \A k, j \in DOMAIN results' : results'[k].student = results'[j].student => k = j
               /\ \A k, j \in DOMAIN diplomas' :
                    diplomas'[k].valid /\ diplomas'[j].valid
                      /\ diplomas'[k].student = diplomas'[j].student => k = j
  BY <1>1, <1>5 DEF ExamsInv, ByItself
<1>8. exam' \in ExamRow \/ (exam' = None /\ exam \notin ExamRow)
  BY <1>1, <1>2
<1> QED BY <1>1, <1>2, <1>5, <1>6, <1>7, <1>8, ExamsStepKept

LEMMA BeginIssueKeeps ==
  ASSUME ExamsInv, ExamsAlone, NEW w \in Threads, NEW st \in Students, NEW legacy,
         School!BeginIssue(w, st, legacy)
  PROVE  ExamsInv'
<1> DEFINE r == [op |-> "issue", student |-> st]
<1>1. School!Begin(w, r) /\ School!Valid(st) = {}
  BY DEF School!BeginIssue
<1>2. ExamRequest(r) /\ r.op # "grade" /\ r.student = st
  BY DEF ExamRequest
<1> HIDE DEF r
<1> QED BY <1>1, <1>2, ExamsBegin

LEMMA CommitIssueKeeps ==
  ASSUME ExamsInv, ExamsAlone, NEW w \in Threads, School!CommitIssue(w) PROVE ExamsInv'
<1> DEFINE st == req[w].student
           row == [student |-> st, valid |-> TRUE]
<1>1. /\ req[w].op = "issue" /\ diplomas' = Append(diplomas, row)
      /\ req' = [req EXCEPT ![w] = School!Idle]
      /\ UNCHANGED <<bank, exam, paper, results, served>>
  BY DEF School!CommitIssue, School!Finish
<1>2. st \in Students
  BY <1>1 DEF ExamsInv, ExamRequest
<1>3. results \in Seq(ResultRow) /\ diplomas \in Seq(DiplomaRow)
      /\ (exam \in ExamRow \/ exam = None)
  BY DEF ExamsInv, ExamTables
<1>4. row \in DiplomaRow /\ row.student = st
  BY <1>2 DEF DiplomaRow
<1> HIDE DEF row, st
<1>5. /\ diplomas' \in Seq(DiplomaRow) /\ DOMAIN diplomas' = 1..(Len(diplomas) + 1)
      /\ \A k \in DOMAIN diplomas : diplomas'[k] = diplomas[k]
      /\ \A k \in DOMAIN diplomas' : k \notin DOMAIN diplomas =>
           k = Len(diplomas) + 1 /\ diplomas'[k] = row
  BY <1>1, <1>3, <1>4
<1>6. \A v : School!ResultOf(v)' = School!ResultOf(v)
  BY <1>1 DEF School!ResultOf
<1>7. ASSUME alone, NEW k \in DOMAIN diplomas', NEW j \in DOMAIN diplomas',
             diplomas'[k].valid, diplomas'[j].valid, diplomas'[k].student = diplomas'[j].student
      PROVE  k = j
  <2>1. ByItself
    BY <1>7 DEF ExamsInv
  <2>2. \A i \in DOMAIN diplomas : diplomas[i].valid => diplomas[i].student # st
    <3>1. School!Valid(st) = {}
      BY <1>1, <2>1 DEF ByItself, st
    <3> QED BY <3>1 DEF School!Valid
  <2> QED BY <1>4, <1>5, <1>7, <2>1, <2>2 DEF ByItself
<1>8. ASSUME alone
      PROVE  \A i, j \in DOMAIN results' : results'[i].student = results'[j].student => i = j
  BY <1>1, <1>8 DEF ExamsInv, ByItself
<1>9. exam' \in ExamRow \/ (exam' = None /\ exam \notin ExamRow)
  BY <1>1, <1>3
<1> QED BY <1>1, <1>3, <1>5, <1>6, <1>7, <1>8, <1>9, ExamsStepKept

(* A certificate that is cancelled is valid no more.                       *)
Cancelled(row) == [row EXCEPT !.valid = FALSE]

LEMMA RowCancelled ==
  ASSUME NEW row \in DiplomaRow PROVE Cancelled(row) \in DiplomaRow /\ ~Cancelled(row).valid
BY DEF Cancelled, DiplomaRow

LEMMA CancelDiplomaKeeps ==
  ASSUME ExamsInv, ExamsAlone, NEW i \in DOMAIN diplomas, School!CancelDiploma(i) PROVE ExamsInv'
<1>1. /\ diplomas' = [diplomas EXCEPT ![i] = Cancelled(diplomas[i])]
      /\ UNCHANGED <<bank, exam, paper, results, req, served>>
  BY DEF School!CancelDiploma, Cancelled
<1>2. results \in Seq(ResultRow) /\ diplomas \in Seq(DiplomaRow)
      /\ (exam \in ExamRow \/ exam = None)
  BY DEF ExamsInv, ExamTables
<1>3. Cancelled(diplomas[i]) \in DiplomaRow /\ ~Cancelled(diplomas[i]).valid
  BY <1>2, ElementOfSeq, RowCancelled
<1>5. /\ diplomas' \in Seq(DiplomaRow) /\ DOMAIN diplomas' = DOMAIN diplomas
      /\ \A k \in DOMAIN diplomas : diplomas'[k].valid => diplomas'[k] = diplomas[k]
  BY <1>1, <1>2, <1>3
<1>6. \A st : School!ResultOf(st)' = School!ResultOf(st)
  BY <1>1 DEF School!ResultOf
<1>7. alone => /\ \A k, j \in DOMAIN results' : results'[k].student = results'[j].student => k = j
               /\ \A k, j \in DOMAIN diplomas' :
                    diplomas'[k].valid /\ diplomas'[j].valid
                      /\ diplomas'[k].student = diplomas'[j].student => k = j
  BY <1>1, <1>5 DEF ExamsInv, ByItself
<1>8. exam' \in ExamRow \/ (exam' = None /\ exam \notin ExamRow)
  BY <1>1, <1>2
<1> QED BY <1>1, <1>2, <1>5, <1>6, <1>7, <1>8, ExamsStepKept

LEMMA ExamsStepKeeps ==
  ASSUME None \notin Texts, IsFiniteSet(Students), ExamsInv, ExamsAlone, School!Next
  PROVE  ExamsInv'
<1>1. CASE \E p \in Weights : School!AddExam(p)
  BY <1>1, AddExamKeeps
<1>2. CASE \E q \in Asked : School!AddQuestion(q)
  BY <1>2, AddQuestionKeeps
<1>3. CASE \E some \in SUBSET DOMAIN bank, shuffle \in BOOLEAN :
             \E chosen \in School!Orders(some) : School!Generate(chosen, shuffle)
  BY <1>3, GenerateKeeps
<1>4. CASE \E w \in Threads, form \in School!Form : School!BeginGrade(w, form)
  BY <1>4, BeginGradeKeeps
<1>5. CASE \E w \in Threads : School!CommitGrade(w)
  BY <1>5, CommitGradeKeeps
<1>6. CASE \E i \in DOMAIN results : School!Appeal(i)
  BY <1>6, AppealKeeps
<1>7. CASE \E w \in Threads, st \in Students, legacy \in BOOLEAN : School!BeginIssue(w, st, legacy)
  BY <1>7, BeginIssueKeeps
<1>8. CASE \E w \in Threads : School!CommitIssue(w)
  BY <1>8, CommitIssueKeeps
<1>9. CASE \E i \in DOMAIN diplomas : School!CancelDiploma(i)
  BY <1>9, CancelDiplomaKeeps
<1>10. CASE \/ \E st \in Students, status \in {"cancelled", "completed"} : School!Change(st, status)
            \/ \E w \in Threads : School!Abort(w)
  <2>1. UNCHANGED <<bank, exam, paper, results, diplomas, served>>
    BY <1>10 DEF School!Change, School!Abort, School!Finish
  <2>2. UNCHANGED req \/ \E w \in Threads : req' = [req EXCEPT ![w] = School!Idle]
    BY <1>10 DEF School!Change, School!Abort, School!Finish
  <2> QED BY <2>1, <2>2, TablesUntouched
<1> QED BY <1>1, <1>2, <1>3, <1>4, <1>5, <1>6, <1>7, <1>8, <1>9, <1>10, Zenon DEF School!Next

LEMMA ExamsInvImplies ==
  ASSUME ExamsInv PROVE School!RightAnswerKept /\ (alone => School!OneOfEach)
<1>1. School!RightAnswerKept
  BY DEF ExamsInv, Printed, SameTexts, School!RightAnswerKept
<1>2. ASSUME NEW R, NEW s \in Seq(R), NEW S \in SUBSET DOMAIN s PROVE IsFiniteSet(S)
  <2>1. DOMAIN s = 1..Len(s) /\ Len(s) \in Int /\ 1 \in Int
    OBVIOUS
  <2>2. IsFiniteSet(1..Len(s))
    BY <2>1, FS_Interval
  <2> QED BY <2>1, <2>2, FS_Subset
<1>3. ASSUME alone, NEW st \in Students PROVE Cardinality(School!ResultOf(st)) <= 1
  <2>1. IsFiniteSet(School!ResultOf(st))
    <3>1. results \in Seq(ResultRow) /\ School!ResultOf(st) \in SUBSET DOMAIN results
      BY DEF ExamsInv, ExamTables, School!ResultOf
    <3> QED BY <1>2, <3>1
  <2>2. \A i, j \in School!ResultOf(st) : i = j
    BY <1>3 DEF ExamsInv, ByItself, School!ResultOf
  <2> QED BY <2>1, <2>2, AtMostOne
<1>4. ASSUME alone, NEW st \in Students PROVE Cardinality(School!Valid(st)) <= 1
  <2>1. IsFiniteSet(School!Valid(st))
    <3>1. diplomas \in Seq(DiplomaRow) /\ School!Valid(st) \in SUBSET DOMAIN diplomas
      BY DEF ExamsInv, ExamTables, School!Valid
    <3> QED BY <1>2, <3>1
  <2>2. \A i, j \in School!Valid(st) : i = j
    BY <1>4 DEF ExamsInv, ByItself, School!Valid
  <2> QED BY <2>1, <2>2, AtMostOne
<1> QED BY <1>1, <1>3, <1>4, SchoolCardinality DEF School!OneOfEach

(* However the options of a question were put in order, the key of the     *)
(* exam points to the text that is right in the bank, and no text is lost; *)
(* as long as no two requests overlap a student has one result and a       *)
(* registration one certificate that is valid.                             *)
THEOREM ExamsHoldAlways ==
  ASSUME None \notin Texts, IsFiniteSet(Students) PROVE MCSpec => []ExamsHold
<1> DEFINE Inv == part = "exams" => ExamsInv
<1>1. MCInit => Inv
  BY ExamsInit DEF MCInit
<1>2. ASSUME Inv, [MCNext]_mcvars, part' = "exams" PROVE ExamsInv'
  <2>1. part = "exams" /\ ExamsInv
    BY <1>2 DEF MCNext, mcvars
  <2>2. CASE ExamsStep
    BY <2>1, <2>2, ExamsStepKeeps DEF ExamsStep, ExamsAlone
  <2>3. CASE UNCHANGED <<alone, req, served, exams>>
    <3>1. UNCHANGED <<alone, req, served, bank, exam, paper, results, diplomas>>
      BY <2>3 DEF exams
    <3>2. ExamTables' /\ Printed' /\ (\A w \in Threads : ExamRequest(req[w]))'
      BY <2>1, <3>1 DEF ExamsInv, ExamTables, Printed, ExamRequest
    <3>3. alone' => ByItself'
      BY <2>1, <3>1, ByItselfKept DEF ExamsInv
    <3> QED BY <3>2, <3>3 DEF ExamsInv
  <2>4. ExamsStep \/ UNCHANGED <<alone, req, served, exams>>
    BY <1>2, <2>1 DEF MCNext, mcvars, Rest, Others
  <2> QED BY <2>2, <2>3, <2>4
<1>3. Inv /\ [MCNext]_mcvars => Inv'
  BY <1>2
<1>4. Inv => ExamsHold
  BY ExamsInvImplies DEF ExamsHold
<1> QED BY <1>1, <1>3, <1>4, PTL DEF MCSpec

-----------------------------------------------------------------------------
(* DocumentNumbers.  The numbers given, those in use and those of documents*)
(* that are gone, are those up to some h; no counter row is past h + 1, in *)
(* the database or in its backup, and no request in its commit holds a     *)
(* number past it: what a counter row, a backup or a request knows may be  *)
(* old, and h only grows.                                                  *)

Asking ==
  [stage : {"ask", "create", "update", "fallback"}, label : Numbers!Keys,
   key : Numbers!Keys, number : Nat, attempt : Nat]

NumberTypes ==
  /\ DOMAIN counter = Numbers!Keys /\ DOMAIN saved.counter = Numbers!Keys
  /\ year \in Years
  /\ DOMAIN req = Threads
  /\ \A u \in Threads : req[u] = Numbers!Idle \/ req[u] \in Asking

Given == gone \cup Numbers!Numbers(docs)

BelowNext(h) ==
  /\ \A y \in Numbers!Keys : counter[y] \in 0..(h + 1) /\ saved.counter[y] \in 0..(h + 1)
  /\ Numbers!Numbers(saved.docs) \subseteq 1..h
  /\ \A u \in Threads : req[u] \in Asking /\ req[u].stage # "ask" => req[u].number \in 1..(h + 1)

NumbersInv == NumberTypes /\ \E h \in Nat : Given = 1..h /\ BelowNext(h)

(* No request of a user without one holds a number.                        *)
LEMMA IdleIsNotAsking == Numbers!Idle \notin Asking
<1>1. Numbers!Idle.stage = "idle" /\ \A r \in Asking : r.stage # "idle"
  BY DEF Numbers!Idle, Asking
<1> QED BY <1>1

(* _highest_existing_number() finds a number up to h: those past it may be *)
(* of documents that are gone.                                             *)
LEMMA HighestIs ==
  ASSUME NEW h \in Nat, Given = 1..h PROVE Numbers!Highest \in 0..h
<1> DEFINE S == {0} \cup Numbers!Numbers(docs)
<1>1. S \subseteq 0..h /\ 0 \in S
  BY DEF Given
<1> HIDE DEF S
<1>2. Numbers!Max(S) = CHOOSE x \in S : \A y \in S : x >= y
  BY Zenon DEF Numbers!Max
<1>3. \E x \in S : \A y \in S : x >= y
  <2> DEFINE U == {h - y : y \in S}
  <2>1. U \in SUBSET Nat /\ U # {}
    BY <1>1
  <2>2. PICK z \in U : \A v \in U : z <= v
    BY <2>1, LeastOf
  <2>3. PICK x \in S : z = h - x
    BY <2>2
  <2>4. ASSUME NEW y \in S PROVE x >= y
    <3>1. h - y \in U
      OBVIOUS
    <3>2. h - x <= h - y
      BY <2>2, <2>3, <3>1
    <3>3. x \in Int /\ y \in Int
      BY <1>1
    <3> QED BY <3>2, <3>3
  <2> QED BY <2>4
<1>4. Numbers!Max(S) \in S
  BY <1>2, <1>3, Zenon
<1>5. Numbers!Highest = Numbers!Max(S)
  BY Zenon DEF Numbers!Highest, S
<1> QED BY <1>1, <1>4, <1>5

(* One more number up to the next one.                                     *)
LEMMA OneMore ==
  ASSUME NEW h \in Nat, NEW n \in 1..(h + 1)
  PROVE  \E last \in Nat : h <= last /\ n <= last /\ (1..h) \cup {n} = 1..last
<1> DEFINE last == IF n = h + 1 THEN h + 1 ELSE h
<1>1. last \in Nat /\ h <= last /\ n <= last /\ (1..h) \cup {n} = 1..last
  OBVIOUS
<1> QED BY <1>1

(* A request that goes to another stage is one still.                      *)
LEMMA OtherStage ==
  ASSUME NEW q \in Asking, NEW s \in {"ask", "create", "update", "fallback"}, NEW n \in Nat
  PROVE  /\ [q EXCEPT !.stage = s, !.number = n] \in Asking
         /\ [q EXCEPT !.stage = s, !.number = n].number = n
         /\ [q EXCEPT !.stage = s, !.attempt = @ + 1] \in Asking
         /\ [q EXCEPT !.stage = s, !.attempt = @ + 1].stage = s
<1>1. q.attempt + 1 \in Nat
  BY DEF Asking
<1> DEFINE p == [q EXCEPT !.stage = s, !.number = n]
           t == [q EXCEPT !.stage = s, !.attempt = q.attempt + 1]
<1>2. p \in Asking
  BY DEF Asking
<1>3. p.number = n
  BY DEF Asking
<1>4. t \in Asking
  BY <1>1 DEF Asking
<1>5. t.stage = s
  BY DEF Asking
<1> QED BY <1>2, <1>3, <1>4, <1>5

(* A request changes its own row: the numbers stay.                        *)
LEMMA RequestKeeps ==
  ASSUME NumbersInv, NEW u \in Threads, NEW h \in Nat, Given = 1..h, BelowNext(h),
         NEW r, r = Numbers!Idle \/ r \in Asking,
         r \in Asking /\ r.stage # "ask" => r.number \in 1..(h + 1),
         req' = [req EXCEPT ![u] = r], UNCHANGED <<counter, docs, year, saved, gone>>
  PROVE  NumbersInv'
<1>1. DOMAIN req' = Threads /\ \A v \in Threads : req'[v] = IF v = u THEN r ELSE req[v]
  BY DEF NumbersInv, NumberTypes
<1>2. NumberTypes'
  BY <1>1 DEF NumbersInv, NumberTypes, Asking, Numbers!Idle
<1>3. Given' = 1..h
  BY DEF Given, Numbers!Numbers
<1>4. BelowNext(h)'
  BY <1>1 DEF BelowNext, Asking, Numbers!Numbers
<1> QED BY <1>2, <1>3, <1>4 DEF NumbersInv

LEMMA YearForKey ==
  ASSUME year \in Years, NEW u \in Threads PROVE Numbers!YearFor(u) \in Numbers!Keys
BY DEF Numbers!YearFor, Numbers!Keys

(* The turn of the loop that reads the counter row.                        *)
LEMMA ReadCounterKeeps ==
  ASSUME NumbersInv, NEW u \in Threads, req[u].stage = "ask", Numbers!ReadCounter(u)
  PROVE  NumbersInv'
<1>1. PICK h \in Nat : Given = 1..h /\ BelowNext(h)
  BY DEF NumbersInv
<1>2. Numbers!Highest \in 0..h
  BY <1>1, HighestIs
<1>3. req[u] \in Asking
  BY DEF NumbersInv, NumberTypes, Numbers!Idle
<1> DEFINE k == Numbers!Key(u)
           stage == IF counter[k] = 0 THEN "create" ELSE "update"
           number == IF counter[k] = 0 THEN Numbers!Highest + 1 ELSE counter[k]
           r == [req[u] EXCEPT !.stage = stage, !.key = k, !.number = number]
<1>4. k \in Numbers!Keys
  BY <1>3, YearForKey DEF NumbersInv, NumberTypes, Asking, Numbers!Key
<1>5. stage \in {"create", "update"} /\ number \in 1..(h + 1) /\ number \in Nat
  BY <1>1, <1>2, <1>4 DEF BelowNext
<1>6. req' = [req EXCEPT ![u] = r] /\ UNCHANGED <<counter, docs, year, saved, gone>>
  BY <1>4 DEF Numbers!ReadCounter, Numbers!past
<1> HIDE DEF k, stage, number
<1>7. r \in Asking /\ r.number = number
  BY <1>3, <1>4, <1>5 DEF Asking
<1> HIDE DEF r
<1> QED BY <1>1, <1>5, <1>6, <1>7, RequestKeeps

(* A document and the counter row it may have moved.                       *)
LEMMA InsertKeeps ==
  ASSUME NumbersInv, NEW u \in Threads, req[u] \in Asking, req[u].stage # "ask",
         Numbers!Insert(u),
         counter' \in {counter, [counter EXCEPT ![req[u].key] = req[u].number + 1]}
  PROVE  NumbersInv'
<1>1. PICK h \in Nat : Given = 1..h /\ BelowNext(h)
  BY DEF NumbersInv
<1> DEFINE d == Numbers!NewDoc(u)
<1>2. d.number = req[u].number /\ d.number \in 1..(h + 1)
  BY <1>1 DEF Numbers!NewDoc, BelowNext
<1>3. docs' = docs \cup {d} /\ req' = [req EXCEPT ![u] = Numbers!Idle]
      /\ UNCHANGED <<year, saved, gone>>
  BY DEF Numbers!Insert, Numbers!past
<1> HIDE DEF d
<1>4. PICK last \in Nat : h <= last /\ d.number <= last /\ (1..h) \cup {d.number} = 1..last
  BY <1>1, <1>2, OneMore
<1>6. Given' = 1..last
  <2>1. Numbers!Numbers(docs)' = Numbers!Numbers(docs) \cup {d.number}
    BY <1>3 DEF Numbers!Numbers
  <2>2. Given' = Given \cup {d.number}
    BY <1>3, <2>1 DEF Given
  <2> QED BY <1>1, <1>4, <2>2
<1>7. DOMAIN req' = Threads
      /\ \A v \in Threads : req'[v] = IF v = u THEN Numbers!Idle ELSE req[v]
  BY <1>3 DEF NumbersInv, NumberTypes
<1>8. DOMAIN counter' = Numbers!Keys
  BY DEF NumbersInv, NumberTypes
<1>9. \A y \in Numbers!Keys : counter'[y] \in {counter[y], d.number + 1}
  BY <1>2 DEF NumbersInv, NumberTypes
<1>10. NumberTypes'
  BY <1>3, <1>7, <1>8 DEF NumbersInv, NumberTypes, Asking, Numbers!Idle
<1>11. BelowNext(last)'
  <2>1. \A y \in Numbers!Keys :
          counter'[y] \in 0..(last + 1) /\ saved'.counter[y] \in 0..(last + 1)
    <3> TAKE y \in Numbers!Keys
    <3>1. /\ counter[y] \in 0..(h + 1) /\ d.number \in 1..(h + 1)
          /\ saved.counter[y] \in 0..(h + 1)
      BY <1>1, <1>2 DEF BelowNext
    <3> QED BY <1>3, <1>4, <1>9, <3>1
  <2>2. \A v \in Threads :
          req'[v] \in Asking /\ req'[v].stage # "ask" => req'[v].number \in 1..(last + 1)
    <3> SUFFICES ASSUME NEW v \in Threads, req'[v] \in Asking, req'[v].stage # "ask"
                 PROVE  req'[v].number \in 1..(last + 1)
      OBVIOUS
    <3>1. v # u /\ req'[v] = req[v]
      BY <1>7, IdleIsNotAsking
    <3>2. req[v].number \in 1..(h + 1)
      BY <1>1, <3>1 DEF BelowNext
    <3> QED BY <1>4, <3>1, <3>2
  <2>3. Numbers!Numbers(saved.docs)' \subseteq 1..last
    <3>1. Numbers!Numbers(saved.docs)' = Numbers!Numbers(saved.docs)
      BY <1>3 DEF Numbers!Numbers
    <3> QED BY <1>1, <1>4, <3>1 DEF BelowNext
  <2> QED BY <2>1, <2>2, <2>3 DEF BelowNext, Asking
<1> QED BY <1>4, <1>6, <1>10, <1>11 DEF NumbersInv

(* The handler of a document, the year and the lock: every step.           *)
LEMMA NumbersStepKeeps ==
  ASSUME NumbersInv, [Numbers!Next]_(Numbers!vars) PROVE NumbersInv'
<1>1. PICK h \in Nat : Given = 1..h /\ BelowNext(h)
  BY DEF NumbersInv
<1>2. ASSUME NEW u \in Threads, req[u].stage # "idle" PROVE req[u] \in Asking
  BY <1>2 DEF NumbersInv, NumberTypes, Numbers!Idle
<1>3. ASSUME NEW u \in Threads, Numbers!Begin(u) PROVE NumbersInv'
  <2> DEFINE y == Numbers!YearFor(u)
             r == [stage |-> "ask", label |-> y, key |-> y, number |-> 0, attempt |-> 1]
  <2>0. y \in Numbers!Keys
    BY YearForKey DEF NumbersInv, NumberTypes
  <2>1. r \in Asking /\ r.stage = "ask"
    BY <2>0 DEF Asking
  <2>2. req' = [req EXCEPT ![u] = r] /\ UNCHANGED <<counter, docs, year, saved, gone>>
    BY <1>3 DEF Numbers!Begin, Numbers!past
  <2> HIDE DEF r
  <2> QED BY <1>1, <2>1, <2>2, RequestKeeps
<1>4. ASSUME NEW u \in Threads, Numbers!Read(u) PROVE NumbersInv'
  BY <1>4, ReadCounterKeeps DEF Numbers!Read
<1>5. ASSUME NEW u \in Threads, Numbers!Fallback(u) PROVE NumbersInv'
  <2>1. req[u] \in Asking
    BY <1>2, <1>5 DEF Numbers!Fallback
  <2> DEFINE r == [req[u] EXCEPT !.stage = "fallback", !.number = Numbers!Highest + 1]
  <2>2. r \in Asking /\ r.number \in 1..(h + 1)
    <3> DEFINE top == Numbers!Highest
    <3>1. top \in 0..h
      BY <1>1, HighestIs
    <3> HIDE DEF top
    <3>2. top + 1 \in Nat /\ top + 1 \in 1..(h + 1)
      BY <3>1
    <3>3. [req[u] EXCEPT !.stage = "fallback", !.number = top + 1] \in Asking
          /\ [req[u] EXCEPT !.stage = "fallback", !.number = top + 1].number = top + 1
      BY <2>1, <3>2, OtherStage
    <3> QED BY <3>2, <3>3 DEF top
  <2>4. req' = [req EXCEPT ![u] = r] /\ UNCHANGED <<counter, docs, year, saved, gone>>
    BY <1>5, <2>1 DEF Numbers!Fallback, Numbers!past, NumbersInv, NumberTypes
  <2> HIDE DEF r
  <2> QED BY <1>1, <2>2, <2>4, RequestKeeps
<1>6. ASSUME NEW u \in Threads,
             Numbers!CommitUpdate(u) \/ Numbers!CommitCreate(u) \/ Numbers!CommitFallback(u)
      PROVE  NumbersInv'
  <2>1. req[u].stage \in {"update", "create", "fallback"} /\ Numbers!Insert(u)
        /\ counter' \in {counter, [counter EXCEPT ![req[u].key] = req[u].number + 1]}
    BY <1>6 DEF Numbers!CommitUpdate, Numbers!CommitCreate, Numbers!CommitFallback
  <2>2. req[u] \in Asking /\ req[u].stage # "ask"
    BY <1>2, <2>1
  <2> QED BY <2>1, <2>2, InsertKeeps
<1>7. ASSUME NEW u \in Threads, Numbers!RowExists(u) \/ Numbers!LockTimeout(u)
      PROVE  NumbersInv'
  <2>1. req[u].stage \in {"create", "update"} /\ Numbers!Again(u)
    BY <1>7 DEF Numbers!RowExists, Numbers!LockTimeout
  <2>2. req[u] \in Asking
    BY <1>2, <2>1
  <2> DEFINE r == [req[u] EXCEPT !.stage = "ask", !.attempt = @ + 1]
  <2>3. r \in Asking /\ r.stage = "ask"
    BY <2>2, OtherStage
  <2>4. req' = [req EXCEPT ![u] = r] /\ UNCHANGED <<counter, docs, year, saved, gone>>
    BY <2>1, <2>2 DEF Numbers!Again, Numbers!past, NumbersInv, NumberTypes
  <2> HIDE DEF r
  <2> QED BY <1>1, <2>3, <2>4, RequestKeeps
<1>8. ASSUME NEW u \in Threads, Numbers!LockFailure(u) \/ Numbers!Fail(u)
      PROVE  NumbersInv'
  <2>1. req' = [req EXCEPT ![u] = Numbers!Idle] /\ UNCHANGED <<counter, docs, year, saved, gone>>
    BY <1>8 DEF Numbers!LockFailure, Numbers!Fail, Numbers!past
  <2> QED BY <1>1, <2>1, IdleIsNotAsking, RequestKeeps
<1>9. ASSUME year' \in Years, UNCHANGED <<counter, docs, req, saved, gone>> PROVE NumbersInv'
  <2>1. NumberTypes'
    BY <1>9 DEF NumbersInv, NumberTypes, Asking, Numbers!Idle, Numbers!Keys
  <2>2. Given' = 1..h
    BY <1>1, <1>9 DEF Given, Numbers!Numbers
  <2>3. BelowNext(h)'
    BY <1>1, <1>9 DEF BelowNext, Asking, Numbers!Numbers, Numbers!Keys
  <2> QED BY <2>1, <2>2, <2>3 DEF NumbersInv
<1>10. CASE Numbers!NewYear \/ UNCHANGED Numbers!vars
  <2>1. year' \in Years /\ UNCHANGED <<counter, docs, req, saved, gone>>
    BY <1>10 DEF Numbers!NewYear, Numbers!vars, Numbers!requests, Numbers!past,
       NumbersInv, NumberTypes
  <2> QED BY <1>9, <2>1
<1>12. ASSUME NEW d \in docs, Numbers!Delete(d) PROVE NumbersInv'
  <2>1. docs' = docs \ {d} /\ gone' = gone \cup Numbers!Numbers({d})
        /\ UNCHANGED <<counter, year, req, saved>>
    BY <1>12 DEF Numbers!Delete, Numbers!Lost, Numbers!requests
  <2>2. Given' = Given
    BY <1>12, <2>1 DEF Given, Numbers!Numbers
  <2>3. NumberTypes' /\ BelowNext(h)'
    BY <1>1, <2>1
       DEF NumbersInv, NumberTypes, BelowNext, Asking, Numbers!Idle, Numbers!Keys, Numbers!Numbers
  <2> QED BY <1>1, <2>2, <2>3 DEF NumbersInv
<1>13. CASE Numbers!Backup
  <2>1. saved' = [counter |-> counter, docs |-> docs]
        /\ UNCHANGED <<counter, docs, year, req, gone>>
    BY <1>13 DEF Numbers!Backup, Numbers!requests
  <2>2. Given' = Given
    BY <2>1 DEF Given, Numbers!Numbers
  <2>3. NumberTypes'
    BY <2>1 DEF NumbersInv, NumberTypes, Asking, Numbers!Idle, Numbers!Keys
  <2>4. Numbers!Numbers(saved.docs)' \subseteq 1..h
    BY <1>1, <2>1 DEF Given, Numbers!Numbers
  <2>5. BelowNext(h)'
    BY <1>1, <2>1, <2>4 DEF BelowNext, Asking, Numbers!Keys
  <2> QED BY <1>1, <2>2, <2>3, <2>5 DEF NumbersInv
<1>14. CASE Numbers!Restore
  <2>1. counter' = saved.counter /\ docs' = saved.docs
        /\ gone' = gone \cup Numbers!Numbers(docs \ saved.docs)
        /\ UNCHANGED <<year, req, saved>>
    BY <1>14 DEF Numbers!Restore, Numbers!Lost, Numbers!requests
  <2>2. Given' = 1..h
    <3>1. Given' = gone \cup Numbers!Numbers(docs \ saved.docs) \cup Numbers!Numbers(saved.docs)
      BY <2>1 DEF Given, Numbers!Numbers
    <3>2. Numbers!Numbers(docs) \subseteq
            Numbers!Numbers(docs \ saved.docs) \cup Numbers!Numbers(saved.docs)
      BY DEF Numbers!Numbers
    <3>3. Numbers!Numbers(docs \ saved.docs) \subseteq Numbers!Numbers(docs)
      BY DEF Numbers!Numbers
    <3>4. Numbers!Numbers(saved.docs) \subseteq 1..h
      BY <1>1 DEF BelowNext
    <3> QED BY <1>1, <3>1, <3>2, <3>3, <3>4 DEF Given
  <2>3. NumberTypes'
    BY <2>1 DEF NumbersInv, NumberTypes, Asking, Numbers!Idle, Numbers!Keys
  <2>4. BelowNext(h)'
    BY <1>1, <2>1 DEF BelowNext, Asking, Numbers!Keys, Numbers!Numbers
  <2> QED BY <2>2, <2>3, <2>4 DEF NumbersInv
<1>11. CASE Numbers!Finished
  BY <1>10, <1>11 DEF Numbers!Finished
<1> QED
  BY <1>3, <1>4, <1>5, <1>6, <1>7, <1>8, <1>10, <1>11, <1>12, <1>13, <1>14 DEF Numbers!Next

(* The first year is one of the years.                                     *)
LEMMA MinYear ==
  ASSUME NEW S \in SUBSET Nat, S # {} PROVE Numbers!Min(S) \in S
<1>1. \E n \in S : \A m \in S : n <= m
  BY LeastOf
<1>2. Numbers!Min(S) = CHOOSE n \in S : \A m \in S : n <= m
  BY DEF Numbers!Min
<1> QED BY <1>1, <1>2, Zenon

(* No document, no counter row and no request: h is 0.                     *)
LEMMA NumbersInit == ASSUME Numbers!Init PROVE NumbersInv
<1>1. year \in Years
  BY PartsOK, MinYear DEF Numbers!Init
<1>2. /\ counter = [y \in Numbers!Keys |-> 0] /\ docs = {} /\ gone = {}
      /\ saved = [counter |-> counter, docs |-> docs]
      /\ req = [u \in Threads |-> Numbers!Idle]
  BY DEF Numbers!Init
<1>3. Given = 1..0
  BY <1>2 DEF Given, Numbers!Numbers
<1>4. NumberTypes
  BY <1>1, <1>2 DEF NumberTypes
<1>5. BelowNext(0)
  BY <1>2, IdleIsNotAsking DEF BelowNext, Numbers!Numbers
<1> QED BY <1>3, <1>4, <1>5 DEF NumbersInv

(* DocumentNumbers: with any threads, years, prefixes and attempts no      *)
(* number is skipped, however requests for a number overlap, lose a race,  *)
(* wait too long for the lock or fall back, and whatever is deleted or     *)
(* lost in a restoration meanwhile: one that no document has was the       *)
(* number of a document that is gone.                                      *)
THEOREM NoGapsAlways == MCSpec => []NoGaps
<1> DEFINE Inv == part = "numbers" => NumbersInv
<1>1. MCInit => Inv
  BY NumbersInit DEF MCInit
<1>2. ASSUME Inv, [MCNext]_mcvars, part' = "numbers" PROVE NumbersInv'
  <2>1. part = "numbers" /\ NumbersInv
    BY <1>2 DEF MCNext, mcvars
  <2>2. CASE NumbersStep
    BY <2>1, <2>2, NumbersStepKeeps DEF NumbersStep
  <2>3. CASE UNCHANGED <<req, numbers>>
    <3>1. UNCHANGED Numbers!vars
      BY <2>3 DEF numbers, Numbers!vars, Numbers!requests, Numbers!past
    <3> QED BY <2>1, <3>1, NumbersStepKeeps
  <2>4. NumbersStep \/ UNCHANGED <<req, numbers>>
    BY <1>2, <2>1 DEF MCNext, mcvars, Rest, Others
  <2> QED BY <2>2, <2>3, <2>4
<1>3. Inv /\ [MCNext]_mcvars => Inv'
  BY <1>2
<1>4. Inv => NoGaps
  <2>1. ASSUME NumbersInv PROVE Numbers!NoGaps
    <3>1. PICK h \in Nat : Given = 1..h
      BY <2>1 DEF NumbersInv
    <3> DEFINE S == {0} \cup Given
    <3>2. S = 0..h
      BY <3>1
    <3> HIDE DEF S
    <3>3. Numbers!Max(S) = CHOOSE x \in S : \A y \in S : x >= y
      BY Zenon DEF Numbers!Max
    <3>4. h \in S /\ (\A y \in S : h >= y) /\ \A x \in S : (\A y \in S : x >= y) => x = h
      BY <3>2
    <3>5. Numbers!Max(S) = h
      BY <3>3, <3>4, Zenon
    <3>6. Given = 1..Numbers!Max({0} \cup Given)
      BY <3>1, <3>5 DEF S
    <3> QED BY <3>6, Zenon DEF Given, Numbers!NoGaps
  <2> QED BY <2>1 DEF NoGaps
<1> QED BY <1>1, <1>3, <1>4, PTL DEF MCSpec

-----------------------------------------------------------------------------
(* The journal: Spec of Accounting, which MCOffice extends, for any        *)
(* sessions, days, entries and periods.                                    *)

(* for_date() finds a period or none.                                      *)
LEMMA ForDateType ==
  ASSUME TypeOK, NEW d \in Days
  PROVE  ForDate(d) \in 0..MaxPeriods
  <1> DEFINE found == {p \in DOMAIN periods : Covers(periods[p], d)}
  <1>1. found \subseteq 1..Len(periods) /\ Len(periods) \in Nat
        /\ Len(periods) <= MaxPeriods /\ MaxPeriods \in Nat
    BY ConstantsOK DEF TypeOK
  <1>2. found # {} => Min(found) \in found
    <2>1. found \in SUBSET Nat
      BY <1>1
    <2> HIDE DEF found
    <2> QED BY <2>1, MinIsLeast
  <1>3. ForDate(d) = IF found = {} THEN 0 ELSE Min(found)
    BY DEF ForDate, NoPeriod
  <1>4. CASE found = {}
    BY <1>1, <1>3, <1>4
  <1>5. CASE found # {}
    <2>1. Min(found) \in 1..Len(periods)
      BY <1>1, <1>2, <1>5
    <2>2. ForDate(d) = Min(found)
      BY <1>3, <1>5
    <2> HIDE DEF found
    <2> QED BY <1>1, <2>1, <2>2
  <1> QED
    BY <1>4, <1>5

(* A flush of an entry's columns leaves an entry; its status is the        *)
(* handler's if the handler changed it, and the table's otherwise.         *)
LEMMA FlushedEntry ==
  ASSUME NEW row \in EntryRow, NEW loaded \in EntryRow, NEW edited \in EntryRow
  PROVE  /\ Flush(row, loaded, edited) \in EntryRow
         /\ Flush(row, loaded, edited).status
              = IF edited.status = loaded.status THEN row.status
                                                 ELSE edited.status
  <1> DEFINE f == Flush(row, loaded, edited)
             Columns == {"status", "day", "debit", "credit", "period"}
  <1>1. DOMAIN row = Columns
    BY DEF EntryRow
  <1>2. \A c \in Columns :
          f[c] = IF edited[c] = loaded[c] THEN row[c] ELSE edited[c]
    BY <1>1 DEF Flush
  <1>3. f = [status |-> f.status, day |-> f.day, debit |-> f.debit,
             credit |-> f.credit, period |-> f.period]
    BY <1>1 DEF Flush
  <1>4. /\ f.status \in Statuses /\ f.day \in Days /\ f.debit \in Sums
        /\ f.credit \in Sums /\ f.period \in 0..MaxPeriods
    BY <1>2 DEF EntryRow
  <1> QED
    BY <1>2, <1>3, <1>4 DEF EntryRow

LEMMA FlushedPeriod ==
  ASSUME NEW row \in PeriodRow, NEW loaded \in PeriodRow,
         NEW edited \in PeriodRow
  PROVE  Flush(row, loaded, edited) \in PeriodRow
  <1> DEFINE f == Flush(row, loaded, edited)
             Columns == {"first", "last", "closed"}
  <1>1. DOMAIN row = Columns
    BY DEF PeriodRow
  <1>2. \A c \in Columns :
          f[c] = IF edited[c] = loaded[c] THEN row[c] ELSE edited[c]
    BY <1>1 DEF Flush
  <1>3. f = [first |-> f.first, last |-> f.last, closed |-> f.closed]
    BY <1>1 DEF Flush
  <1>4. f.first \in Days /\ f.last \in Days /\ f.closed \in BOOLEAN
    BY <1>2 DEF PeriodRow
  <1> QED
    BY <1>3, <1>4 DEF PeriodRow

-----------------------------------------------------------------------------
(* What steps have in common.                                              *)

(* No entry becomes a draft again in this step.                            *)
KeepsPosted ==
  \A e \in DOMAIN entries :
    entries[e].status # "draft" => entries'[e].status # "draft"

LEMMA BeginStep ==
  ASSUME TypeOK, NEW w \in Sessions, NEW r \in Request, Begin(w, r)
  PROVE  TypeOK' /\ KeepsPosted
  BY ConstantsOK DEF Begin, TypeOK, KeepsPosted

LEMMA FinishType ==
  ASSUME TypeOK, NEW w \in Sessions, Finish(w)
  PROVE  req' \in [Sessions -> Request] /\ served' \in 0..MaxRequests
  BY DEF Finish, TypeOK, Request

(* A step that writes one entry.                                           *)
LEMMA EntryStep ==
  ASSUME TypeOK, NEW e \in EntryId, NEW row,
         e \in DOMAIN entries =>
           /\ row \in EntryRow
           /\ entries[e].status # "draft" => row.status # "draft",
         entries' = [entries EXCEPT ![e] = row]
  PROVE  /\ entries' \in Seq(EntryRow) /\ Len(entries') = Len(entries)
         /\ KeepsPosted
  <1>1. entries \in Seq(EntryRow)
    BY DEF TypeOK
  <1>2. CASE e \in DOMAIN entries
    <2>1. entries' \in Seq(EntryRow) /\ Len(entries') = Len(entries)
      BY <1>1, <1>2
    <2>2. \A i \in DOMAIN entries :
            entries'[i] = IF i = e THEN row ELSE entries[i]
      BY <1>1, <1>2
    <2> QED
      BY <1>2, <2>1, <2>2 DEF KeepsPosted
  <1>3. CASE e \notin DOMAIN entries
    <2>1. entries' = entries
      BY <1>1, <1>3
    <2> QED
      BY <1>1, <2>1 DEF KeepsPosted
  <1> QED
    BY <1>2, <1>3

(* The same when the row is what a flush leaves.                           *)
LEMMA FlushStep ==
  ASSUME TypeOK, NEW e \in EntryId, NEW loaded \in EntryRow,
         NEW edited \in EntryRow,
         edited.status \in {loaded.status, "confirmed", "approved", "cancelled"},
         entries' = [entries EXCEPT ![e] = Flush(@, loaded, edited)]
  PROVE  /\ entries' \in Seq(EntryRow) /\ Len(entries') = Len(entries)
         /\ KeepsPosted
  <1> DEFINE row == Flush(entries[e], loaded, edited)
  <1>1. ASSUME e \in DOMAIN entries
        PROVE  /\ row \in EntryRow
               /\ entries[e].status # "draft" => row.status # "draft"
    <2>1. entries[e] \in EntryRow
      BY <1>1, ElementOfSeq DEF TypeOK
    <2>2. /\ row \in EntryRow
          /\ row.status = IF edited.status = loaded.status
                          THEN entries[e].status ELSE edited.status
      BY <2>1, FlushedEntry
    <2> HIDE DEF row
    <2> QED BY <2>2
  <1>2. entries' = [entries EXCEPT ![e] = row]
    OBVIOUS
  <1> HIDE DEF row
  <1> QED
    BY <1>1, <1>2, EntryStep

(* A step that writes one period.                                          *)
LEMMA PeriodStep ==
  ASSUME TypeOK, NEW p \in PeriodId, NEW loaded \in PeriodRow,
         NEW edited \in PeriodRow,
         periods' = [periods EXCEPT ![p] = Flush(@, loaded, edited)]
  PROVE  periods' \in Seq(PeriodRow) /\ Len(periods') = Len(periods)
  <1>1. periods \in Seq(PeriodRow)
    BY DEF TypeOK
  <1>2. CASE p \in DOMAIN periods
    <2> DEFINE row == Flush(periods[p], loaded, edited)
    <2>1. row \in PeriodRow
      BY <1>1, <1>2, ElementOfSeq, FlushedPeriod
    <2>2. periods' = [periods EXCEPT ![p] = row]
      OBVIOUS
    <2> HIDE DEF row
    <2> QED
      BY <1>1, <1>2, <2>1, <2>2
  <1>3. CASE p \notin DOMAIN periods
    <2>1. periods' = periods
      BY <1>1, <1>3
    <2> QED BY <1>1, <2>1
  <1> QED
    BY <1>2, <1>3

-----------------------------------------------------------------------------
(* The steps that commit, one lemma for each handler.                      *)

LEMMA AddStep ==
  ASSUME TypeOK, NEW w \in Sessions, CommitAdd(w)
  PROVE  TypeOK' /\ KeepsPosted
  <1> DEFINE r == req[w]
             new == [status |-> "draft", day |-> r.day, debit |-> r.sums.debit,
                     credit |-> r.sums.credit, period |-> ForDate(r.day)]
  <1>1. r \in Request /\ r.op = "add"
    BY DEF CommitAdd, TypeOK
  <1>2. r.day \in Days /\ r.sums \in SumPair
    BY <1>1 DEF Request, Idle
  <1>3. new \in EntryRow
    BY <1>2, ForDateType DEF EntryRow, SumPair, Statuses
  <1>4. /\ entries' = Append(entries, new) /\ lines' = Append(lines, r.sums)
        /\ Len(entries) < MaxEntries /\ UNCHANGED <<periods, served>>
    BY DEF CommitAdd
  <1>5. req' \in [Sessions -> Request]
    <2>1. Len(entries) + 1 \in EntryId
      BY <1>4, ConstantsOK DEF TypeOK, EntryId
    <2>2. [op |-> "post", e |-> Len(entries) + 1] \in Request /\ Idle \in Request
      BY <2>1 DEF Request
    <2>3. req' = [req EXCEPT ![w] = IF r.confirmNow
                    THEN [op |-> "post", e |-> Len(entries) + 1] ELSE Idle]
      BY DEF CommitAdd
    <2> QED BY <2>2, <2>3 DEF TypeOK
  <1>6. entries \in Seq(EntryRow) /\ lines \in Seq(SumPair)
        /\ Len(lines) = Len(entries)
    BY DEF TypeOK
  <1> HIDE DEF new
  <1>7. entries' \in Seq(EntryRow) /\ lines' \in Seq(SumPair)
        /\ Len(entries') = Len(entries) + 1 /\ Len(lines') = Len(lines) + 1
        /\ \A e \in DOMAIN entries : entries'[e] = entries[e]
    BY <1>2, <1>3, <1>4, <1>6
  <1>8. Len(entries') <= MaxEntries
    BY <1>4, <1>6, <1>7, ConstantsOK
  <1> QED
    BY <1>4, <1>5, <1>6, <1>7, <1>8 DEF TypeOK, KeepsPosted

LEMMA PostStep ==
  ASSUME TypeOK, NEW w \in Sessions, CommitPost(w)
  PROVE  TypeOK' /\ KeepsPosted
  <1> DEFINE e == req[w].e
             row == [entries[e] EXCEPT !.status = "confirmed"]
  <1>1. e \in EntryId
    BY DEF CommitPost, TypeOK, Request, Idle
  <1>2. ASSUME e \in DOMAIN entries
        PROVE  row \in EntryRow /\ row.status = "confirmed"
    <2>1. entries[e] \in EntryRow
      BY <1>2, ElementOfSeq DEF TypeOK
    <2> QED BY <2>1 DEF EntryRow, Statuses
  <1>3. entries' = [entries EXCEPT ![e] = row]
    BY DEF CommitPost
  <1>4. req' \in [Sessions -> Request] /\ served' \in 0..MaxRequests
    BY FinishType DEF CommitPost
  <1>5. UNCHANGED <<lines, periods>>
    BY DEF CommitPost
  <1> HIDE DEF e, row
  <1>6. /\ entries' \in Seq(EntryRow) /\ Len(entries') = Len(entries)
        /\ KeepsPosted
    BY <1>1, <1>2, <1>3, EntryStep
  <1> QED
    BY <1>4, <1>5, <1>6 DEF TypeOK

LEMMA EditStep ==
  ASSUME TypeOK, NEW w \in Sessions, CommitEdit(w)
  PROVE  TypeOK' /\ KeepsPosted
  <1> DEFINE r == req[w]
             edited == [r.row EXCEPT !.day = r.day, !.debit = r.sums.debit,
                                     !.credit = r.sums.credit,
                                     !.period = ForDate(r.day)]
  <1>1. r \in Request /\ r.op = "edit"
    BY DEF CommitEdit, TypeOK
  <1>2. r.e \in EntryId /\ r.row \in EntryRow /\ r.day \in Days
        /\ r.sums \in SumPair
    BY <1>1 DEF Request, Idle
  <1>3. ForDate(r.day) \in 0..MaxPeriods
    BY <1>2, ForDateType
  <1>4. edited \in EntryRow /\ edited.status = r.row.status
    BY <1>2, <1>3 DEF EntryRow, SumPair
  <1>5. /\ entries' = [entries EXCEPT ![r.e] = Flush(@, r.row, edited)]
        /\ lines' = [lines EXCEPT ![r.e] = r.sums]
        /\ UNCHANGED periods
    BY DEF CommitEdit
  <1>6. req' \in [Sessions -> Request] /\ served' \in 0..MaxRequests
    BY FinishType DEF CommitEdit
  <1>7. lines' \in Seq(SumPair) /\ Len(lines') = Len(lines)
    <2>1. lines \in Seq(SumPair)
      BY DEF TypeOK
    <2>2. CASE r.e \in DOMAIN lines
      BY <1>2, <1>5, <2>1, <2>2
    <2>3. CASE r.e \notin DOMAIN lines
      <3>1. lines' = lines
        BY <1>5, <2>1, <2>3
      <3> QED BY <2>1, <3>1
    <2> QED BY <2>2, <2>3
  <1> HIDE DEF edited
  <1>8. /\ entries' \in Seq(EntryRow) /\ Len(entries') = Len(entries)
        /\ KeepsPosted
    BY <1>2, <1>4, <1>5, FlushStep
  <1> QED
    BY <1>5, <1>6, <1>7, <1>8 DEF TypeOK

LEMMA ConfirmStep ==
  ASSUME TypeOK, NEW w \in Sessions, CommitConfirm(w)
  PROVE  TypeOK' /\ KeepsPosted
  <1> DEFINE r == req[w]
             edited == [r.row EXCEPT !.status = "confirmed",
                          !.period = IF @ = NoPeriod THEN ForDate(r.row.day)
                                     ELSE @]
  <1>1. r \in Request /\ r.op = "confirm"
    BY DEF CommitConfirm, TypeOK
  <1>2. r.e \in EntryId /\ r.row \in EntryRow /\ r.row.day \in Days
    BY <1>1 DEF Request, Idle, EntryRow
  <1>3. ForDate(r.row.day) \in 0..MaxPeriods
    BY <1>2, ForDateType
  <1>4. edited \in EntryRow /\ edited.status = "confirmed"
    BY <1>2, <1>3 DEF EntryRow, Statuses
  <1>5. /\ entries' = [entries EXCEPT ![r.e] = Flush(@, r.row, edited)]
        /\ UNCHANGED <<lines, periods>>
    BY DEF CommitConfirm
  <1>6. req' \in [Sessions -> Request] /\ served' \in 0..MaxRequests
    BY FinishType DEF CommitConfirm
  <1> HIDE DEF edited
  <1>7. /\ entries' \in Seq(EntryRow) /\ Len(entries') = Len(entries)
        /\ KeepsPosted
    BY <1>2, <1>4, <1>5, FlushStep
  <1> QED
    BY <1>5, <1>6, <1>7 DEF TypeOK

(* approve_entry() and cancel_entry(): only the status.                    *)
LEMMA StatusStep ==
  ASSUME TypeOK, NEW w \in Sessions, CommitApprove(w) \/ CommitCancel(w)
  PROVE  TypeOK' /\ KeepsPosted
  <1> DEFINE r == req[w]
             edited(status) == [r.row EXCEPT !.status = status]
  <1>1. r \in Request /\ r.op \in {"approve", "cancel"}
    BY DEF CommitApprove, CommitCancel, TypeOK
  <1>2. r.e \in EntryId /\ r.row \in EntryRow
    BY <1>1 DEF Request, Idle
  <1>3. \A status \in {"approved", "cancelled"} :
          edited(status) \in EntryRow /\ edited(status).status = status
    BY <1>2 DEF EntryRow, Statuses
  <1>4. PICK status \in {"approved", "cancelled"} :
          entries' = [entries EXCEPT ![r.e] = Flush(@, r.row, edited(status))]
    BY DEF CommitApprove, CommitCancel
  <1>5. req' \in [Sessions -> Request] /\ served' \in 0..MaxRequests
    BY FinishType DEF CommitApprove, CommitCancel
  <1>6. UNCHANGED <<lines, periods>>
    BY DEF CommitApprove, CommitCancel
  <1> HIDE DEF edited
  <1>7. /\ entries' \in Seq(EntryRow) /\ Len(entries') = Len(entries)
        /\ KeepsPosted
    BY <1>2, <1>3, <1>4, FlushStep
  <1> QED
    BY <1>5, <1>6, <1>7 DEF TypeOK

LEMMA AddPeriodStep ==
  ASSUME TypeOK, NEW w \in Sessions, CommitAddPeriod(w)
  PROVE  TypeOK' /\ KeepsPosted
  <1>1. req[w].row \in PeriodRow
    <2>1. req[w] \in Request /\ req[w].op = "period"
      BY DEF CommitAddPeriod, TypeOK
    <2> QED BY <2>1 DEF Request, Idle
  <1>2. periods' \in Seq(PeriodRow) /\ Len(periods') <= MaxPeriods
    BY <1>1, ConstantsOK DEF CommitAddPeriod, TypeOK
  <1>3. req' \in [Sessions -> Request] /\ served' \in 0..MaxRequests
    BY FinishType DEF CommitAddPeriod
  <1> QED
    BY <1>2, <1>3 DEF CommitAddPeriod, TypeOK, KeepsPosted

LEMMA CloseStep ==
  ASSUME TypeOK, NEW w \in Sessions, CommitClose(w)
  PROVE  TypeOK' /\ KeepsPosted
  <1> DEFINE r == req[w]
             edited == [r.row EXCEPT !.closed = TRUE]
             attached(e) == [entries[e] EXCEPT !.period = r.p]
  <1>1. r \in Request /\ r.op = "close"
    BY DEF CommitClose, TypeOK
  <1>2. r.p \in PeriodId /\ r.row \in PeriodRow
    BY <1>1 DEF Request, Idle
  <1>3. edited \in PeriodRow
    BY <1>2 DEF PeriodRow
  <1>4. /\ periods' = [periods EXCEPT ![r.p] = Flush(@, r.row, edited)]
        /\ entries' = [e \in DOMAIN entries |->
             IF e \in r.loose THEN attached(e) ELSE entries[e]]
        /\ UNCHANGED lines
    BY DEF CommitClose
  <1>5. req' \in [Sessions -> Request] /\ served' \in 0..MaxRequests
    BY FinishType DEF CommitClose
  <1>6. \A e \in DOMAIN entries :
          /\ entries[e] \in EntryRow /\ attached(e) \in EntryRow
          /\ attached(e).status = entries[e].status
    <2>1. ASSUME NEW e \in DOMAIN entries
          PROVE  entries[e] \in EntryRow
      BY <2>1, ElementOfSeq DEF TypeOK
    <2>2. ASSUME NEW row \in EntryRow
          PROVE  /\ [row EXCEPT !.period = r.p] \in EntryRow
                 /\ [row EXCEPT !.period = r.p].status = row.status
      BY <1>2, ConstantsOK DEF EntryRow, PeriodId
    <2> QED BY <2>1, <2>2
  <1> HIDE DEF edited, attached
  <1>7. periods' \in Seq(PeriodRow) /\ Len(periods') = Len(periods)
    BY <1>2, <1>3, <1>4, PeriodStep
  <1>8. /\ entries' \in Seq(EntryRow) /\ Len(entries') = Len(entries)
        /\ KeepsPosted
    <2>1. DOMAIN entries = 1..Len(entries) /\ Len(entries) \in Nat
      BY DEF TypeOK
    <2>2. entries' \in [1..Len(entries) -> EntryRow]
      BY <1>4, <1>6, <2>1
    <2>3. entries' \in Seq(EntryRow) /\ Len(entries') = Len(entries)
      BY <2>1, <2>2, IsASeq, LenProperties
    <2>4. KeepsPosted
      BY <1>4, <1>6 DEF KeepsPosted
    <2> QED BY <2>3, <2>4
  <1> QED
    BY <1>4, <1>5, <1>7, <1>8 DEF TypeOK

LEMMA ReopenStep ==
  ASSUME TypeOK, NEW w \in Sessions, CommitReopen(w)
  PROVE  TypeOK' /\ KeepsPosted
  <1> DEFINE r == req[w]
             edited == [r.row EXCEPT !.closed = FALSE]
  <1>1. r \in Request /\ r.op = "reopen"
    BY DEF CommitReopen, TypeOK
  <1>2. r.p \in PeriodId /\ r.row \in PeriodRow
    BY <1>1 DEF Request, Idle
  <1>3. edited \in PeriodRow
    BY <1>2 DEF PeriodRow
  <1>4. periods' = [periods EXCEPT ![r.p] = Flush(@, r.row, edited)]
    BY DEF CommitReopen
  <1>5. req' \in [Sessions -> Request] /\ served' \in 0..MaxRequests
    BY FinishType DEF CommitReopen
  <1> HIDE DEF edited
  <1>6. periods' \in Seq(PeriodRow) /\ Len(periods') = Len(periods)
    BY <1>2, <1>3, <1>4, PeriodStep
  <1>7. UNCHANGED <<entries, lines>>
    BY DEF CommitReopen
  <1> QED
    BY <1>5, <1>6, <1>7 DEF TypeOK, KeepsPosted

(* The steps that begin or abandon a request.                              *)
LEMMA BeginSteps ==
  ASSUME TypeOK, NEW w \in Sessions,
         \/ \E d \in Days, sums \in SumPair, confirmNow \in BOOLEAN :
              BeginAdd(w, d, sums, confirmNow)
         \/ \E e \in DOMAIN entries : BeginOnEntry(w, e)
         \/ \E first, last \in Days : BeginAddPeriod(w, first, last)
         \/ \E p \in DOMAIN periods : BeginOnPeriod(w, p)
  PROVE  TypeOK' /\ KeepsPosted
  <1>1. ASSUME NEW d \in Days, NEW sums \in SumPair, NEW confirmNow \in BOOLEAN,
               BeginAdd(w, d, sums, confirmNow)
        PROVE  \E r \in Request : Begin(w, r)
    BY <1>1 DEF BeginAdd, Request
  <1>2. ASSUME NEW e \in DOMAIN entries, BeginOnEntry(w, e)
        PROVE  \E r \in Request : Begin(w, r)
    <2>1. entries[e] \in EntryRow /\ e \in EntryId
      BY ElementOfSeq, ConstantsOK DEF TypeOK, EntryId
    <2>2. ASSUME NEW d \in Days, NEW sums \in SumPair, BeginEdit(w, e, d, sums)
          PROVE  \E r \in Request : Begin(w, r)
      BY <2>1, <2>2 DEF BeginEdit, Request
    <2>3. ASSUME BeginConfirm(w, e) \/ BeginApprove(w, e)
          PROVE  \E r \in Request : Begin(w, r)
      BY <2>1, <2>3 DEF BeginConfirm, BeginApprove, Request
    <2>4. ASSUME NEW admin \in BOOLEAN, BeginCancel(w, e, admin)
          PROVE  \E r \in Request : Begin(w, r)
      BY <2>1, <2>4 DEF BeginCancel, Request
    <2> QED BY <1>2, <2>2, <2>3, <2>4 DEF BeginOnEntry
  <1>3. ASSUME NEW first \in Days, NEW last \in Days,
               BeginAddPeriod(w, first, last)
        PROVE  \E r \in Request : Begin(w, r)
    BY <1>3 DEF BeginAddPeriod, Request, PeriodRow
  <1>4. ASSUME NEW p \in DOMAIN periods, BeginOnPeriod(w, p)
        PROVE  \E r \in Request : Begin(w, r)
    <2>1. periods[p] \in PeriodRow /\ p \in PeriodId
      BY ElementOfSeq, ConstantsOK DEF TypeOK, PeriodId
    <2>2. Loose(p) \subseteq EntryId
      BY ConstantsOK DEF Loose, TypeOK, EntryId
    <2>3. CASE BeginClose(w, p)
      BY <2>1, <2>2, <2>3 DEF BeginClose, Request
    <2>4. CASE BeginReopen(w, p)
      BY <2>1, <2>4 DEF BeginReopen, Request
    <2> QED BY <1>4, <2>3, <2>4 DEF BeginOnPeriod
  <1>5. \E r \in Request : Begin(w, r)
    BY <1>1, <1>2, <1>3, <1>4
  <1> QED
    BY <1>5, BeginStep

LEMMA AbortStep ==
  ASSUME TypeOK, NEW w \in Sessions, Abort(w)
  PROVE  TypeOK' /\ KeepsPosted
  <1>1. req' \in [Sessions -> Request] /\ served' \in 0..MaxRequests
    BY FinishType DEF Abort
  <1> QED
    BY <1>1 DEF Abort, TypeOK, KeepsPosted

LEMMA StepTypeAndStatus ==
  ASSUME TypeOK, [Next]_vars
  PROVE  TypeOK' /\ KeepsPosted
  <1>1. CASE UNCHANGED vars
    BY <1>1 DEF vars, TypeOK, KeepsPosted
  <1>2. ASSUME NEW w \in Sessions, CommitAdd(w) PROVE TypeOK' /\ KeepsPosted
    BY <1>2, AddStep
  <1>3. ASSUME NEW w \in Sessions, CommitPost(w) PROVE TypeOK' /\ KeepsPosted
    BY <1>3, PostStep
  <1>4. ASSUME NEW w \in Sessions, CommitEdit(w) PROVE TypeOK' /\ KeepsPosted
    BY <1>4, EditStep
  <1>5. ASSUME NEW w \in Sessions, CommitConfirm(w) PROVE TypeOK' /\ KeepsPosted
    BY <1>5, ConfirmStep
  <1>6. ASSUME NEW w \in Sessions, CommitApprove(w) \/ CommitCancel(w)
        PROVE  TypeOK' /\ KeepsPosted
    BY <1>6, StatusStep
  <1>7. ASSUME NEW w \in Sessions, CommitAddPeriod(w)
        PROVE  TypeOK' /\ KeepsPosted
    BY <1>7, AddPeriodStep
  <1>8. ASSUME NEW w \in Sessions, CommitClose(w) PROVE TypeOK' /\ KeepsPosted
    BY <1>8, CloseStep
  <1>9. ASSUME NEW w \in Sessions, CommitReopen(w) PROVE TypeOK' /\ KeepsPosted
    BY <1>9, ReopenStep
  <1>10. ASSUME NEW w \in Sessions, Abort(w) PROVE TypeOK' /\ KeepsPosted
    BY <1>10, AbortStep
  <1>11. CASE Quiet
    BY <1>1, <1>11 DEF Quiet
  <1>12. CASE Next
    BY <1>2, <1>3, <1>4, <1>5, <1>6, <1>7, <1>8, <1>9, <1>10, <1>11, <1>12,
       BeginSteps DEF Next
  <1> QED
    BY <1>1, <1>12

-----------------------------------------------------------------------------
(* Every reachable state is well formed: in particular each entry has its  *)
(* lines, and a request in flight holds well-formed rows.                  *)
THEOREM JournalTypeCorrect == Spec => []TypeOK
  <1>1. Init => TypeOK
    BY ConstantsOK DEF Init, TypeOK, Request
  <1>2. TypeOK /\ [Next]_vars => TypeOK'
    BY StepTypeAndStatus
  <1> QED
    BY <1>1, <1>2, PTL DEF Spec

(* With any number of sessions, and requests that loaded an entry while it *)
(* was a draft, edit_entry() and the others never make it a draft again.   *)
THEOREM NeverDraftAgainAlways == Spec => NeverDraftAgain
  <1>1. TypeOK /\ [Next]_vars => [KeepsPosted]_vars
    BY StepTypeAndStatus
  <1>2. [KeepsPosted]_vars <=> [\A e \in DOMAIN entries :
          entries[e].status # "draft" => entries'[e].status # "draft"]_vars
    BY DEF KeepsPosted
  <1> QED
    BY <1>1, <1>2, JournalTypeCorrect, PTL DEF Spec, NeverDraftAgain

-----------------------------------------------------------------------------
(* One session.  The invariant needs more of a state than the properties   *)
(* say: what the request in progress has read, and how entries and periods *)
(* belong together.                                                        *)

ForDateIn(ps, d) ==
  LET found == {p \in DOMAIN ps : Covers(ps[p], d)} IN
  IF found = {} THEN NoPeriod ELSE Min(found)

LockedIn(ps, d) == ForDateIn(ps, d) # NoPeriod /\ ps[ForDateIn(ps, d)].closed

(* The sums of an entry are those of its lines, what is posted balances,   *)
(* and a draft lies in no closed period and belongs to the period of its   *)
(* day, or to none.                                                        *)
EntryOK(row, sums, ps) ==
  /\ row.debit = sums.debit /\ row.credit = sums.credit
  /\ row.status \in Posted => Within(sums)
  /\ row.status = "draft" =>
       /\ row.period \in {NoPeriod, ForDateIn(ps, row.day)}
       /\ ~LockedIn(ps, row.day)

BooksOK(es, ls, ps) == \A e \in DOMAIN es : EntryOK(es[e], ls[e], ps)

(* What request r has loaded and tested holds of the tables.               *)
Fresh(r, es, ls, ps) ==
  /\ r.op = "add" => ~LockedIn(ps, r.day) /\ (r.confirmNow => Within(r.sums))
  /\ r.op = "post" =>
       /\ r.e \in DOMAIN es /\ Within(ls[r.e]) /\ ~LockedIn(ps, es[r.e].day)
  /\ r.op = "edit" =>
       /\ r.e \in DOMAIN es /\ r.row = es[r.e] /\ r.row.status = "draft"
       /\ ~LockedIn(ps, r.row.day) /\ ~LockedIn(ps, r.day)
  /\ r.op \in {"confirm", "approve"} =>
       /\ r.e \in DOMAIN es /\ r.row = es[r.e]
       /\ Within(r.row) /\ ~LockedIn(ps, r.row.day)
  /\ r.op = "cancel" => r.e \in DOMAIN es /\ r.row = es[r.e]
  /\ r.op = "close" =>
       /\ r.p \in DOMAIN ps /\ r.row = ps[r.p]
       /\ \A e \in DOMAIN es : es[e].status = "draft" =>
            /\ es[e].period # r.p /\ e \notin r.loose
            /\ es[e].period = NoPeriod => ~Covers(ps[r.p], es[e].day)
  /\ r.op = "period" => ~r.row.closed
  /\ r.op = "reopen" => r.p \in DOMAIN ps /\ r.row = ps[r.p]

Lone ==
  /\ BooksOK(entries, lines, periods)
  /\ \A w \in Sessions : Fresh(req[w], entries, lines, periods)

(* The step respects closed periods.                                       *)
Frozen ==
  \A e \in DOMAIN entries' :
    LET new == e \notin DOMAIN entries
        touched == \/ new
                   \/ lines'[e] # lines[e]
                   \/ entries'[e].day # entries[e].day
                   \/ entries'[e].status \notin {entries[e].status, "cancelled"}
    IN touched => /\ ~Locked(entries'[e].day)
                  /\ new \/ ~Locked(entries[e].day)

(* The model's operators are those two at the tables as they are.          *)
LEMMA LockedIs ==
  \A d : ForDate(d) = ForDateIn(periods, d)
         /\ (Locked(d) <=> LockedIn(periods, d))
  <1>1. ASSUME NEW d PROVE ForDate(d) = ForDateIn(periods, d)
    BY DEF ForDate, ForDateIn
  <1>2. ASSUME NEW d PROVE Locked(d) <=> LockedIn(periods, d)
    BY <1>1 DEF Locked, LockedIn
  <1> QED BY <1>1, <1>2

(* A new period is looked at last: what has a period keeps it.             *)
LEMMA ForDateAfterAppend ==
  ASSUME NEW ps \in Seq(PeriodRow), NEW row \in PeriodRow, ~row.closed, NEW d
  PROVE  LET more == Append(ps, row)
         IN  /\ ForDateIn(ps, d) # NoPeriod =>
                  ForDateIn(more, d) = ForDateIn(ps, d)
             /\ LockedIn(more, d) => LockedIn(ps, d)
  <1> DEFINE more == Append(ps, row)
             n == Len(ps)
             found == {p \in DOMAIN ps : Covers(ps[p], d)}
             foundMore == {p \in DOMAIN more : Covers(more[p], d)}
  <1>1. /\ n \in Nat /\ DOMAIN ps = 1..n /\ DOMAIN more = 1..(n + 1)
        /\ more[n + 1] = row /\ \A p \in 1..n : more[p] = ps[p]
    OBVIOUS
  <1> HIDE DEF more, n
  <1>2. /\ found \subseteq 1..n /\ found \subseteq foundMore
        /\ foundMore \subseteq found \cup {n + 1}
    BY <1>1
  <1>3. ForDateIn(ps, d) = IF found = {} THEN NoPeriod ELSE Min(found)
    BY DEF ForDateIn
  <1>4. ForDateIn(more, d) = IF foundMore = {} THEN NoPeriod
                             ELSE Min(foundMore)
    BY DEF ForDateIn
  <1> HIDE DEF found, foundMore
  <1>5. CASE found # {}
    <2>1. Min(found) \in found /\ \A y \in found : Min(found) <= y
      BY <1>1, <1>2, <1>5, MinIsLeast
    <2>2. foundMore \in SUBSET Nat /\ Min(found) \in foundMore
          /\ \A y \in foundMore : Min(found) <= y
      <3>1. DEFINE m == Min(found)
      <3>2. m \in found /\ m \in 1..n /\ \A y \in found : m <= y
        BY <1>2, <2>1
      <3> HIDE DEF m
      <3>3. \A y \in foundMore : y \in found \/ y = n + 1
        BY <1>2
      <3>4. ASSUME NEW y \in foundMore PROVE m <= y
        <4>1. n \in Nat /\ m <= n /\ m \in Nat
          BY <1>1, <3>2
        <4>2. m <= n + 1
          BY <4>1
        <4> QED BY <3>2, <3>3, <4>2
      <3>5. foundMore \in SUBSET Nat
        BY <1>1, <1>2
      <3> QED BY <1>2, <3>2, <3>4, <3>5 DEF m
    <2>3. Min(foundMore) = Min(found)
      BY <2>2, MinIs
    <2>4. ForDateIn(more, d) = ForDateIn(ps, d) /\ ForDateIn(ps, d) \in 1..n
      <3>1. ForDateIn(ps, d) = Min(found)
        BY <1>3, <1>5
      <3>2. foundMore # {}
        BY <2>2
      <3>3. ForDateIn(more, d) = Min(foundMore)
        BY <1>4, <3>2
      <3> QED BY <1>2, <2>1, <2>3, <3>1, <3>3
    <2> QED BY <1>1, <2>4 DEF LockedIn, more
  <1>6. CASE found = {}
    <2>1. ForDateIn(ps, d) = NoPeriod
      BY <1>3, <1>6
    <2>2. foundMore # {} => ForDateIn(more, d) = n + 1
      <3>1. foundMore # {} => foundMore = {n + 1}
        BY <1>2, <1>6
      <3>2. Min({n + 1}) = n + 1
        BY <1>1, MinIs
      <3> QED BY <1>4, <3>1, <3>2
    <2>3. ~LockedIn(more, d)
      BY <1>1, <1>4, <2>2 DEF LockedIn
    <2> QED BY <2>1, <2>3 DEF more
  <1> QED BY <1>5, <1>6

(* Closing and reopening leave the days of the periods alone.              *)
LEMMA ForDateAfterFlag ==
  ASSUME NEW ps \in Seq(PeriodRow), NEW p \in DOMAIN ps, NEW d,
         NEW after, DOMAIN after = DOMAIN ps,
         \A q \in DOMAIN ps : q # p => after[q] = ps[q],
         after[p].first = ps[p].first, after[p].last = ps[p].last
  PROVE  /\ ForDateIn(after, d) = ForDateIn(ps, d)
         /\ LockedIn(after, d) =>
              LockedIn(ps, d) \/ ForDateIn(ps, d) = p
         /\ LockedIn(after, d) /\ ~after[p].closed => LockedIn(ps, d)
         /\ ForDateIn(ps, d) # NoPeriod =>
              /\ ForDateIn(ps, d) \in DOMAIN ps
              /\ Covers(ps[ForDateIn(ps, d)], d)
  <1> DEFINE found == {q \in DOMAIN ps : Covers(ps[q], d)}
             foundAfter == {q \in DOMAIN after : Covers(after[q], d)}
  <1>3. foundAfter = found
    BY DEF Covers
  <1>4. found \in SUBSET Nat /\ (found # {} => Min(found) \in found)
    <2>1. found \in SUBSET Nat
      OBVIOUS
    <2> HIDE DEF found
    <2> QED BY <2>1, MinIsLeast
  <1>5. ForDateIn(ps, d) = IF found = {} THEN NoPeriod ELSE Min(found)
    BY DEF ForDateIn
  <1>6. ForDateIn(after, d) = ForDateIn(ps, d)
    <2>1. ForDateIn(after, d) = IF foundAfter = {} THEN NoPeriod
                                ELSE Min(foundAfter)
      BY DEF ForDateIn
    <2> HIDE DEF found, foundAfter
    <2> QED BY <1>3, <1>5, <2>1
  <1>7. ForDateIn(ps, d) # NoPeriod =>
          /\ ForDateIn(ps, d) \in DOMAIN ps
          /\ Covers(ps[ForDateIn(ps, d)], d)
    <2>1. ForDateIn(ps, d) # NoPeriod => ForDateIn(ps, d) \in found
      <3> HIDE DEF found
      <3> QED BY <1>4, <1>5
    <2> QED BY <2>1
  <1> HIDE DEF found, foundAfter
  <1>8. /\ LockedIn(after, d) => LockedIn(ps, d) \/ ForDateIn(ps, d) = p
        /\ LockedIn(after, d) /\ ~after[p].closed => LockedIn(ps, d)
    BY <1>6, <1>7 DEF LockedIn
  <1> QED BY <1>6, <1>7, <1>8

-----------------------------------------------------------------------------
(* A flush of what the session has just loaded leaves what it edited.      *)
LEMMA FreshFlush ==
  ASSUME NEW row, NEW edited, row \in EntryRow /\ edited \in EntryRow
  PROVE  Flush(row, row, edited) = edited
  <1> DEFINE f == Flush(row, row, edited)
             Columns == {"status", "day", "debit", "credit", "period"}
  <1>1. DOMAIN row = Columns
    BY DEF EntryRow
  <1>2. \A c \in Columns : f[c] = edited[c]
    BY <1>1 DEF Flush
  <1>3. f = [status |-> f.status, day |-> f.day, debit |-> f.debit,
             credit |-> f.credit, period |-> f.period]
    BY <1>1 DEF Flush
  <1>4. edited = [status |-> edited.status, day |-> edited.day,
                  debit |-> edited.debit, credit |-> edited.credit,
                  period |-> edited.period]
    BY DEF EntryRow
  <1> QED
    BY <1>2, <1>3, <1>4

LEMMA FreshFlushPeriod ==
  ASSUME NEW row, NEW edited, row \in PeriodRow /\ edited \in PeriodRow
  PROVE  Flush(row, row, edited) = edited
  <1> DEFINE f == Flush(row, row, edited)
             Columns == {"first", "last", "closed"}
  <1>1. DOMAIN row = Columns
    BY DEF PeriodRow
  <1>2. \A c \in Columns : f[c] = edited[c]
    BY <1>1 DEF Flush
  <1>3. f = [first |-> f.first, last |-> f.last, closed |-> f.closed]
    BY <1>1 DEF Flush
  <1>4. edited = [first |-> edited.first, last |-> edited.last,
                  closed |-> edited.closed]
    BY DEF PeriodRow
  <1> QED
    BY <1>2, <1>3, <1>4

(* A step after which no request is in progress.                           *)
LEMMA IdleIsFresh ==
  ASSUME NEW w \in Sessions, \A v \in Sessions : v = w, TypeOK, Finish(w)
  PROVE  \A v \in Sessions : Fresh(req'[v], entries', lines', periods')
  <1>1. \A v \in Sessions : req'[v] = Idle
    BY DEF Finish, TypeOK
  <1>2. Fresh(Idle, entries', lines', periods')
    BY DEF Fresh, Idle
  <1> QED
    BY <1>1, <1>2

(* A step that writes one entry, with its lines or without them.           *)
LEMMA EntryWritten ==
  ASSUME TypeOK, BooksOK(entries, lines, periods),
         NEW e \in DOMAIN entries, NEW row, EntryOK(row, lines'[e], periods),
         entries' = [entries EXCEPT ![e] = row],
         \A i \in DOMAIN entries : i # e => lines'[i] = lines[i],
         periods' = periods,
         \/ /\ lines'[e] = lines[e] /\ row.day = entries[e].day
            /\ row.status \in {entries[e].status, "cancelled"}
         \/ ~LockedIn(periods, row.day) /\ ~LockedIn(periods, entries[e].day)
  PROVE  BooksOK(entries', lines', periods') /\ Frozen
  <1>1. /\ DOMAIN entries' = DOMAIN entries /\ entries'[e] = row
        /\ \A i \in DOMAIN entries : i # e => entries'[i] = entries[i]
    OBVIOUS
  <1>2. BooksOK(entries', lines', periods')
    BY <1>1 DEF BooksOK
  <1>3. Frozen
    BY <1>1, LockedIs DEF Frozen
  <1> QED
    BY <1>2, <1>3

-----------------------------------------------------------------------------
(* The handlers, one lemma for each.                                       *)

LEMMA LoneAdd ==
  ASSUME TypeOK, Lone, NEW w \in Sessions, \A v \in Sessions : v = w,
         CommitAdd(w)
  PROVE  Lone' /\ Frozen
  <1> DEFINE r == req[w]
             n == Len(entries)
             new == [status |-> "draft", day |-> r.day, debit |-> r.sums.debit,
                     credit |-> r.sums.credit, period |-> ForDate(r.day)]
  <1>1. r.op = "add" /\ Fresh(r, entries, lines, periods)
    BY DEF CommitAdd, Lone
  <1>2. ~LockedIn(periods, r.day) /\ (r.confirmNow => Within(r.sums))
    BY <1>1 DEF Fresh
  <1>3. /\ entries' = Append(entries, new) /\ lines' = Append(lines, r.sums)
        /\ periods' = periods
        /\ req' = [req EXCEPT ![w] =
             IF r.confirmNow THEN [op |-> "post", e |-> n + 1] ELSE Idle]
    BY DEF CommitAdd
  <1>4. /\ entries \in Seq(EntryRow) /\ lines \in Seq(SumPair)
        /\ Len(lines) = n /\ n \in Nat /\ req \in [Sessions -> Request]
    BY DEF TypeOK
  <1>5. EntryOK(new, r.sums, periods) /\ new.day = r.day
    BY <1>2, LockedIs DEF EntryOK, Posted
  <1> HIDE DEF r, new, n
  <1>6. /\ DOMAIN entries = 1..n /\ DOMAIN entries' = 1..(n + 1)
        /\ entries'[n + 1] = new /\ lines'[n + 1] = r.sums
        /\ \A e \in 1..n : entries'[e] = entries[e] /\ lines'[e] = lines[e]
    BY <1>3, <1>4 DEF n
  <1>7. \A e \in 1..(n + 1) : e \in 1..n \/ e = n + 1
    BY <1>4
  <1>8. BooksOK(entries', lines', periods')
    BY <1>3, <1>5, <1>6, <1>7 DEF BooksOK, Lone
  <1>9. \A v \in Sessions : Fresh(req'[v], entries', lines', periods')
    <2>1. \A v \in Sessions :
            req'[v] = IF r.confirmNow THEN [op |-> "post", e |-> n + 1] ELSE Idle
      BY <1>3, <1>4
    <2>2. Fresh(Idle, entries', lines', periods')
      BY DEF Fresh, Idle
    <2>3. ASSUME r.confirmNow
          PROVE  Fresh([op |-> "post", e |-> n + 1], entries', lines', periods')
      <3>1. /\ n + 1 \in DOMAIN entries' /\ Within(lines'[n + 1])
            /\ ~LockedIn(periods', entries'[n + 1].day)
        BY <1>2, <1>3, <1>4, <1>5, <1>6, <2>3
      <3> QED BY <3>1 DEF Fresh
    <2> QED BY <2>1, <2>2, <2>3
  <1>10. Frozen
    <2>1. \A e \in 1..n : ~(e \notin DOMAIN entries) /\ lines'[e] = lines[e]
                          /\ entries'[e] = entries[e]
      BY <1>6
    <2>2. ~Locked(entries'[n + 1].day) /\ n + 1 \notin DOMAIN entries
      BY <1>2, <1>4, <1>5, <1>6, LockedIs
    <2> QED BY <1>6, <1>7, <2>1, <2>2 DEF Frozen
  <1> QED
    BY <1>8, <1>9, <1>10 DEF Lone

LEMMA LonePost ==
  ASSUME TypeOK, Lone, NEW w \in Sessions, \A v \in Sessions : v = w,
         CommitPost(w)
  PROVE  Lone' /\ Frozen
  <1> DEFINE e == req[w].e
             row == [entries[e] EXCEPT !.status = "confirmed"]
  <1>1. /\ e \in DOMAIN entries /\ Within(lines[e])
        /\ ~LockedIn(periods, entries[e].day)
    BY DEF CommitPost, Lone, Fresh
  <1>2. entries[e] \in EntryRow
    BY <1>1, ElementOfSeq DEF TypeOK
  <1>3. /\ row.status = "confirmed" /\ row.day = entries[e].day
        /\ row.debit = entries[e].debit /\ row.credit = entries[e].credit
    BY <1>2 DEF EntryRow
  <1>4. entries' = [entries EXCEPT ![e] = row] /\ lines' = lines
        /\ periods' = periods /\ Finish(w)
    BY DEF CommitPost
  <1> HIDE DEF e, row
  <1>5. EntryOK(row, lines'[e], periods)
    BY <1>1, <1>3, <1>4 DEF EntryOK, Lone, BooksOK
  <1>6. BooksOK(entries', lines', periods') /\ Frozen
    BY <1>1, <1>3, <1>4, <1>5, EntryWritten DEF Lone
  <1> QED
    BY <1>4, <1>6, IdleIsFresh DEF Lone

LEMMA LoneEdit ==
  ASSUME TypeOK, Lone, NEW w \in Sessions, \A v \in Sessions : v = w,
         CommitEdit(w)
  PROVE  Lone' /\ Frozen
  <1> DEFINE r == req[w]
             e == r.e
             edited == [r.row EXCEPT !.day = r.day, !.debit = r.sums.debit,
                                     !.credit = r.sums.credit,
                                     !.period = ForDate(r.day)]
  <1>1. /\ e \in DOMAIN entries /\ r.row = entries[e]
        /\ r.row.status = "draft"
        /\ ~LockedIn(periods, r.row.day) /\ ~LockedIn(periods, r.day)
    BY DEF CommitEdit, Lone, Fresh
  <1>2. r.row \in EntryRow /\ r.day \in Days /\ r.sums \in SumPair
    <2>1. r \in Request /\ r.op = "edit"
      BY DEF CommitEdit, TypeOK
    <2> QED BY <2>1 DEF Request, Idle
  <1>3. /\ edited \in EntryRow /\ edited.status = "draft"
        /\ edited.day = r.day /\ edited.debit = r.sums.debit
        /\ edited.credit = r.sums.credit /\ edited.period = ForDate(r.day)
    BY <1>1, <1>2, ForDateType DEF EntryRow, SumPair
  <1>4. /\ entries' = [entries EXCEPT ![e] = Flush(@, r.row, edited)]
        /\ lines' = [lines EXCEPT ![e] = r.sums]
        /\ periods' = periods /\ Finish(w)
    BY DEF CommitEdit
  <1>5. DOMAIN lines = DOMAIN entries
    BY DEF TypeOK
  <1> HIDE DEF edited, e, r
  <1>6. entries' = [entries EXCEPT ![e] = edited]
    <2>1. Flush(entries[e], r.row, edited) = edited
      BY <1>1, <1>2, <1>3, FreshFlush
    <2> QED BY <1>4, <2>1
  <1>7. /\ lines'[e] = r.sums
        /\ \A i \in DOMAIN entries : i # e => lines'[i] = lines[i]
    BY <1>1, <1>4, <1>5
  <1>8. EntryOK(edited, lines'[e], periods)
    BY <1>1, <1>3, <1>7, LockedIs DEF EntryOK, Posted
  <1>9. BooksOK(entries', lines', periods') /\ Frozen
    BY <1>1, <1>3, <1>4, <1>6, <1>7, <1>8, EntryWritten, ZenonT(60) DEF Lone
  <1> QED
    BY <1>4, <1>9, IdleIsFresh DEF Lone

LEMMA LoneConfirm ==
  ASSUME TypeOK, Lone, NEW w \in Sessions, \A v \in Sessions : v = w,
         CommitConfirm(w)
  PROVE  Lone' /\ Frozen
  <1> DEFINE r == req[w]
             e == r.e
             edited == [r.row EXCEPT !.status = "confirmed",
                          !.period = IF @ = NoPeriod THEN ForDate(r.row.day)
                                     ELSE @]
  <1>1. /\ e \in DOMAIN entries /\ r.row = entries[e]
        /\ Within(r.row) /\ ~LockedIn(periods, r.row.day)
    BY DEF CommitConfirm, Lone, Fresh
  <1>2. r.row \in EntryRow /\ r.row.day \in Days
    <2>1. r \in Request /\ r.op = "confirm"
      BY DEF CommitConfirm, TypeOK
    <2> QED BY <2>1 DEF Request, Idle, EntryRow
  <1>3. ForDate(r.row.day) \in 0..MaxPeriods
    BY <1>2, ForDateType
  <1>4. /\ edited \in EntryRow /\ edited.status = "confirmed"
        /\ edited.day = r.row.day /\ edited.debit = r.row.debit
        /\ edited.credit = r.row.credit
    BY <1>2, <1>3 DEF EntryRow, Statuses
  <1>5. /\ entries' = [entries EXCEPT ![e] = Flush(@, r.row, edited)]
        /\ lines' = lines /\ periods' = periods /\ Finish(w)
    BY DEF CommitConfirm
  <1> HIDE DEF edited, e, r
  <1>6. entries' = [entries EXCEPT ![e] = edited]
    <2>1. Flush(entries[e], r.row, edited) = edited
      BY <1>1, <1>2, <1>4, FreshFlush
    <2> QED BY <1>5, <2>1
  <1>7. EntryOK(edited, lines'[e], periods)
    <2>1. EntryOK(entries[e], lines[e], periods)
      BY <1>1 DEF Lone, BooksOK
    <2> QED BY <1>1, <1>4, <1>5, <2>1 DEF EntryOK, Within
  <1>8. BooksOK(entries', lines', periods') /\ Frozen
    BY <1>1, <1>4, <1>5, <1>6, <1>7, EntryWritten DEF Lone
  <1> QED
    BY <1>5, <1>8, IdleIsFresh DEF Lone

LEMMA LoneStatus ==
  ASSUME TypeOK, Lone, NEW w \in Sessions, \A v \in Sessions : v = w,
         CommitApprove(w) \/ CommitCancel(w)
  PROVE  Lone' /\ Frozen
  <1> DEFINE r == req[w]
             e == r.e
             edited(status) == [r.row EXCEPT !.status = status]
  <1>1. r \in Request /\ r.op \in {"approve", "cancel"}
    BY DEF CommitApprove, CommitCancel, TypeOK
  <1>2. /\ e \in DOMAIN entries /\ r.row = entries[e]
        /\ r.op = "approve" => Within(r.row) /\ ~LockedIn(periods, r.row.day)
    BY <1>1 DEF Lone, Fresh
  <1>3. r.row \in EntryRow
    BY <1>1 DEF Request, Idle
  <1>4. \A status \in Statuses :
          /\ edited(status) \in EntryRow /\ edited(status).status = status
          /\ edited(status).day = r.row.day
          /\ edited(status).debit = r.row.debit
          /\ edited(status).credit = r.row.credit
    BY <1>3 DEF EntryRow
  <1>5. PICK status \in {"approved", "cancelled"} :
          /\ status = "approved" => r.op = "approve"
          /\ entries' = [entries EXCEPT ![e] = Flush(@, r.row, edited(status))]
    BY DEF CommitApprove, CommitCancel
  <1>6. lines' = lines /\ periods' = periods /\ Finish(w)
    BY DEF CommitApprove, CommitCancel
  <1> DEFINE row == edited(status)
  <1>7. /\ row \in EntryRow /\ row.status = status /\ row.day = r.row.day
        /\ row.debit = r.row.debit /\ row.credit = r.row.credit
        /\ entries' = [entries EXCEPT ![e] = Flush(@, r.row, row)]
    <2>1. status \in Statuses
      BY DEF Statuses
    <2> HIDE DEF edited
    <2> QED BY <1>4, <1>5, <2>1
  <1> HIDE DEF row, edited, e, r
  <1>8. entries' = [entries EXCEPT ![e] = row]
    <2>1. Flush(entries[e], r.row, row) = row
      BY <1>2, <1>3, <1>7, FreshFlush
    <2> QED BY <1>7, <2>1
  <1>9. EntryOK(row, lines'[e], periods)
    <2>1. EntryOK(entries[e], lines[e], periods)
      BY <1>2 DEF Lone, BooksOK
    <2> QED BY <1>2, <1>5, <1>6, <1>7, <2>1 DEF EntryOK, Within, Posted
  <1>10. \/ row.status = "cancelled"
         \/ ~LockedIn(periods, row.day)
    BY <1>2, <1>5, <1>7
  <1>11. BooksOK(entries', lines', periods') /\ Frozen
    <2>1. /\ lines'[e] = lines[e] /\ row.day = entries[e].day
          /\ \A i \in DOMAIN entries : i # e => lines'[i] = lines[i]
      BY <1>2, <1>6, <1>7
    <2>2. \/ row.status \in {entries[e].status, "cancelled"}
          \/ ~LockedIn(periods, row.day) /\ ~LockedIn(periods, entries[e].day)
      BY <1>10, <2>1
    <2>3. BooksOK(entries, lines, periods) /\ periods' = periods
      BY <1>6 DEF Lone
    <2> QED BY <1>2, <1>8, <1>9, <2>1, <2>2, <2>3, EntryWritten
  <1> QED
    BY <1>6, <1>11, IdleIsFresh DEF Lone

LEMMA LoneAddPeriod ==
  ASSUME TypeOK, Lone, NEW w \in Sessions, \A v \in Sessions : v = w,
         CommitAddPeriod(w)
  PROVE  Lone' /\ Frozen
  <1> DEFINE row == req[w].row
  <1>1. row \in PeriodRow /\ ~row.closed
    <2>1. req[w] \in Request /\ req[w].op = "period"
      BY DEF CommitAddPeriod, TypeOK
    <2> QED BY <2>1 DEF Request, Idle, Lone, Fresh
  <1>2. periods' = Append(periods, row) /\ UNCHANGED <<entries, lines>>
        /\ Finish(w)
    BY DEF CommitAddPeriod
  <1>3. periods \in Seq(PeriodRow)
    BY DEF TypeOK
  <1> HIDE DEF row
  <1>4. \A d : /\ ForDateIn(periods, d) # NoPeriod =>
                    ForDateIn(periods', d) = ForDateIn(periods, d)
               /\ LockedIn(periods', d) => LockedIn(periods, d)
    BY <1>1, <1>2, <1>3, ForDateAfterAppend
  <1>5. BooksOK(entries', lines', periods')
    BY <1>2, <1>4 DEF BooksOK, EntryOK, Lone
  <1>6. Frozen
    BY <1>2 DEF Frozen
  <1> QED
    BY <1>2, <1>5, <1>6, IdleIsFresh DEF Lone

LEMMA LoneReopen ==
  ASSUME TypeOK, Lone, NEW w \in Sessions, \A v \in Sessions : v = w,
         CommitReopen(w)
  PROVE  Lone' /\ Frozen
  <1> DEFINE r == req[w]
             p == r.p
             edited == [r.row EXCEPT !.closed = FALSE]
  <1>1. p \in DOMAIN periods /\ r.row = periods[p]
    BY DEF CommitReopen, Lone, Fresh
  <1>2. r.row \in PeriodRow
    BY <1>1, ElementOfSeq DEF TypeOK
  <1>3. edited \in PeriodRow
    BY <1>2 DEF PeriodRow
  <1>4. /\ periods' = [periods EXCEPT ![p] = Flush(@, r.row, edited)]
        /\ UNCHANGED <<entries, lines>> /\ Finish(w)
    BY DEF CommitReopen
  <1>5. periods' = [periods EXCEPT ![p] = edited]
    <2> HIDE DEF edited, p, r
    <2>1. Flush(periods[p], r.row, edited) = edited
      BY <1>1, <1>2, <1>3, FreshFlushPeriod
    <2> QED BY <1>4, <2>1
  <1>6. periods' = [periods EXCEPT ![p] = [@ EXCEPT !.closed = FALSE]]
    <2> HIDE DEF p, r
    <2> QED BY <1>1, <1>5
  <1>7. periods \in Seq(PeriodRow)
    BY DEF TypeOK
  <1> HIDE DEF edited, p, r
  <1>8. \A d : /\ ForDateIn(periods', d) = ForDateIn(periods, d)
               /\ LockedIn(periods', d) => LockedIn(periods, d)
    <2>1. p \in DOMAIN periods /\ FALSE \in BOOLEAN
      BY <1>1
    <2> HIDE DEF p
    <2>0. periods[p] \in PeriodRow
      BY <1>7, <2>1, ElementOfSeq
    <2>2. /\ DOMAIN periods' = DOMAIN periods
          /\ \A q \in DOMAIN periods : q # p => periods'[q] = periods[q]
          /\ periods'[p].first = periods[p].first /\ periods'[p].last = periods[p].last
          /\ ~periods'[p].closed
      BY <1>6, <1>7, <2>0, <2>1 DEF PeriodRow
    <2> QED BY <1>7, <2>1, <2>2, ForDateAfterFlag
  <1>9. BooksOK(entries', lines', periods')
    BY <1>4, <1>8 DEF BooksOK, EntryOK, Lone
  <1>10. Frozen
    BY <1>4 DEF Frozen
  <1> QED
    BY <1>4, <1>9, <1>10, IdleIsFresh DEF Lone

(* close_fiscal(): its two tests, for the drafts attached to the period    *)
(* and for those that only fall into it, cover every draft that the        *)
(* closing could lock.                                                     *)
LEMMA LoneClose ==
  ASSUME TypeOK, Lone, NEW w \in Sessions, \A v \in Sessions : v = w,
         CommitClose(w)
  PROVE  Lone' /\ Frozen
  <1> DEFINE r == req[w]
             p == r.p
             edited == [r.row EXCEPT !.closed = TRUE]
             attached(e) == [entries[e] EXCEPT !.period = p]
  <1>1. /\ p \in DOMAIN periods /\ r.row = periods[p]
        /\ \A e \in DOMAIN entries : entries[e].status = "draft" =>
             /\ entries[e].period # p /\ e \notin r.loose
             /\ entries[e].period = NoPeriod =>
                  ~Covers(periods[p], entries[e].day)
    BY DEF CommitClose, Lone, Fresh
  <1>2. r.row \in PeriodRow
    BY <1>1, ElementOfSeq DEF TypeOK
  <1>3. edited \in PeriodRow
    BY <1>2 DEF PeriodRow
  <1>4. /\ periods' = [periods EXCEPT ![p] = Flush(@, r.row, edited)]
        /\ entries' = [e \in DOMAIN entries |->
             IF e \in r.loose THEN attached(e) ELSE entries[e]]
        /\ lines' = lines /\ Finish(w)
    BY DEF CommitClose
  <1>5. \A e \in DOMAIN entries :
          /\ attached(e).status = entries[e].status
          /\ attached(e).day = entries[e].day
          /\ attached(e).debit = entries[e].debit
          /\ attached(e).credit = entries[e].credit
    <2>1. \A e \in DOMAIN entries : entries[e] \in EntryRow
      BY ElementOfSeq DEF TypeOK
    <2> HIDE DEF p
    <2> QED BY <2>1 DEF EntryRow
  <1>6. periods' = [periods EXCEPT ![p] = edited]
    <2> HIDE DEF edited, p, r
    <2>1. Flush(periods[p], r.row, edited) = edited
      BY <1>1, <1>2, <1>3, FreshFlushPeriod
    <2> QED BY <1>4, <2>1
  <1>7. periods' = [periods EXCEPT ![p] = [@ EXCEPT !.closed = TRUE]]
    <2> HIDE DEF p, r
    <2> QED BY <1>1, <1>6
  <1>8. periods \in Seq(PeriodRow)
    BY DEF TypeOK
  <1> HIDE DEF edited, attached, p, r
  <1>9. \A d : /\ ForDateIn(periods', d) = ForDateIn(periods, d)
               /\ LockedIn(periods', d) =>
                    LockedIn(periods, d) \/ ForDateIn(periods, d) = p
               /\ ForDateIn(periods, d) # NoPeriod =>
                    Covers(periods[ForDateIn(periods, d)], d)
    <2>1. p \in DOMAIN periods /\ TRUE \in BOOLEAN
      BY <1>1
    <2>0. periods[p] \in PeriodRow
      BY <1>8, <2>1, ElementOfSeq
    <2>2. /\ DOMAIN periods' = DOMAIN periods
          /\ \A q \in DOMAIN periods : q # p => periods'[q] = periods[q]
          /\ periods'[p].first = periods[p].first /\ periods'[p].last = periods[p].last
      BY <1>7, <1>8, <2>0, <2>1 DEF PeriodRow
    <2> QED BY <1>8, <2>1, <2>2, ForDateAfterFlag
  <1>10. p # NoPeriod
    BY <1>1, <1>8 DEF NoPeriod
  <1>11. /\ DOMAIN entries' = DOMAIN entries
         /\ \A e \in DOMAIN entries :
              /\ entries'[e].status = entries[e].status
              /\ entries'[e].day = entries[e].day
              /\ entries'[e].debit = entries[e].debit
              /\ entries'[e].credit = entries[e].credit
              /\ entries[e].status = "draft" => entries'[e] = entries[e]
    BY <1>1, <1>4, <1>5
  <1>12. ASSUME NEW e \in DOMAIN entries
         PROVE  EntryOK(entries'[e], lines'[e], periods')
    <2>1. EntryOK(entries[e], lines[e], periods)
      BY DEF Lone, BooksOK
    <2>2. ASSUME entries[e].status = "draft"
          PROVE  ForDateIn(periods, entries[e].day) # p
      <3>1. SUFFICES ASSUME ForDateIn(periods, entries[e].day) = p PROVE FALSE
        OBVIOUS
      <3>2. entries[e].period = NoPeriod
        BY <1>1, <2>1, <2>2, <3>1 DEF EntryOK
      <3>3. Covers(periods[p], entries[e].day)
        BY <1>9, <1>10, <3>1
      <3> QED BY <1>1, <2>2, <3>2, <3>3
    <2> QED BY <1>4, <1>9, <1>11, <2>1, <2>2, ZenonT(60) DEF EntryOK
  <1>13. BooksOK(entries', lines', periods')
    BY <1>11, <1>12 DEF BooksOK
  <1>14. Frozen
    BY <1>4, <1>11 DEF Frozen
  <1> QED
    BY <1>4, <1>13, <1>14, IdleIsFresh DEF Lone

(* A request that begins has read the tables as they are.                  *)
LEMMA LoneBegin ==
  ASSUME TypeOK, Lone, NEW w \in Sessions, \A v \in Sessions : v = w,
         NEW r, Begin(w, r), Fresh(r, entries, lines, periods)
  PROVE  Lone' /\ Frozen
  <1>1. UNCHANGED <<entries, lines, periods>> /\ req' = [req EXCEPT ![w] = r]
    BY DEF Begin
  <1>2. \A v \in Sessions : req'[v] = r
    BY <1>1 DEF TypeOK
  <1>3. Frozen
    BY <1>1 DEF Frozen
  <1> QED
    BY <1>1, <1>2, <1>3 DEF Lone

LEMMA LoneBegins ==
  ASSUME TypeOK, Lone, NEW w \in Sessions, \A v \in Sessions : v = w,
         \/ \E d \in Days, sums \in SumPair, confirmNow \in BOOLEAN :
              BeginAdd(w, d, sums, confirmNow)
         \/ \E e \in DOMAIN entries : BeginOnEntry(w, e)
         \/ \E first, last \in Days : BeginAddPeriod(w, first, last)
         \/ \E p \in DOMAIN periods : BeginOnPeriod(w, p)
  PROVE  Lone' /\ Frozen
  <1> DEFINE Goal == \E r : Begin(w, r) /\ Fresh(r, entries, lines, periods)
  <1>1. ASSUME NEW d \in Days, NEW sums \in SumPair, NEW confirmNow \in BOOLEAN,
               BeginAdd(w, d, sums, confirmNow)
        PROVE  Goal
    <2> DEFINE r == [op |-> "add", day |-> d, sums |-> sums,
                     confirmNow |-> confirmNow]
    <2>1. Fresh(r, entries, lines, periods)
      BY <1>1, LockedIs DEF BeginAdd, Fresh
    <2> QED BY <1>1, <2>1 DEF BeginAdd
  <1>2. ASSUME NEW e \in DOMAIN entries, BeginOnEntry(w, e)
        PROVE  Goal
    <2>1. ASSUME NEW d \in Days, NEW sums \in SumPair, BeginEdit(w, e, d, sums)
          PROVE  Goal
      <3> DEFINE r == [op |-> "edit", e |-> e, row |-> entries[e], day |-> d,
                       sums |-> sums]
      <3>1. Fresh(r, entries, lines, periods)
        BY <2>1, LockedIs DEF BeginEdit, Fresh
      <3> QED BY <2>1, <3>1 DEF BeginEdit
    <2>2. ASSUME BeginConfirm(w, e)
          PROVE  Goal
      <3> DEFINE r == [op |-> "confirm", e |-> e, row |-> entries[e]]
      <3>1. Fresh(r, entries, lines, periods)
        BY <2>2, LockedIs DEF BeginConfirm, Fresh
      <3> QED BY <2>2, <3>1 DEF BeginConfirm
    <2>3. ASSUME BeginApprove(w, e)
          PROVE  Goal
      <3> DEFINE r == [op |-> "approve", e |-> e, row |-> entries[e]]
      <3>1. Fresh(r, entries, lines, periods)
        BY <2>3, LockedIs DEF BeginApprove, Fresh
      <3> QED BY <2>3, <3>1 DEF BeginApprove
    <2>4. ASSUME NEW admin \in BOOLEAN, BeginCancel(w, e, admin)
          PROVE  Goal
      <3> DEFINE r == [op |-> "cancel", e |-> e, row |-> entries[e],
                       admin |-> admin]
      <3>1. Fresh(r, entries, lines, periods)
        BY DEF Fresh
      <3> QED BY <2>4, <3>1 DEF BeginCancel
    <2> QED BY <1>2, <2>1, <2>2, <2>3, <2>4 DEF BeginOnEntry
  <1>3. ASSUME NEW first \in Days, NEW last \in Days,
               BeginAddPeriod(w, first, last)
        PROVE  Goal
    <2> DEFINE r == [op |-> "period", row |-> [first |-> first, last |-> last,
                                               closed |-> FALSE]]
    <2>1. Fresh(r, entries, lines, periods)
      BY DEF Fresh
    <2> QED BY <1>3, <2>1 DEF BeginAddPeriod
  <1>4. ASSUME NEW p \in DOMAIN periods, BeginOnPeriod(w, p)
        PROVE  Goal
    <2>1. CASE BeginClose(w, p)
      <3> DEFINE r == [op |-> "close", p |-> p, row |-> periods[p],
                       loose |-> Loose(p)]
      <3>1. Fresh(r, entries, lines, periods)
        BY <2>1 DEF BeginClose, DraftsOf, Loose, Fresh
      <3> QED BY <2>1, <3>1 DEF BeginClose
    <2>2. CASE BeginReopen(w, p)
      <3> DEFINE r == [op |-> "reopen", p |-> p, row |-> periods[p]]
      <3>1. Fresh(r, entries, lines, periods)
        BY DEF Fresh
      <3> QED BY <2>2, <3>1 DEF BeginReopen
    <2> QED BY <1>4, <2>1, <2>2 DEF BeginOnPeriod
  <1>5. Goal
    BY <1>1, <1>2, <1>3, <1>4
  <1> QED
    BY <1>5, LoneBegin

LEMMA LoneInit ==
  ASSUME Init PROVE Lone
  <1>1. BooksOK(entries, lines, periods)
    BY DEF Init, BooksOK
  <1>2. Fresh(Idle, entries, lines, periods)
    BY DEF Fresh, Idle
  <1> QED
    BY <1>1, <1>2 DEF Init, Lone

LEMMA LoneStep ==
  ASSUME TypeOK, Lone, \A v, w \in Sessions : v = w, [Next]_vars
  PROVE  Lone' /\ [Frozen]_vars
  <1>1. CASE UNCHANGED vars
    BY <1>1 DEF vars, Lone
  <1>2. ASSUME NEW w \in Sessions, Abort(w) PROVE Lone' /\ Frozen
    <2>1. UNCHANGED <<entries, lines, periods>> /\ Finish(w)
      BY <1>2 DEF Abort
    <2>2. BooksOK(entries', lines', periods') /\ Frozen
      BY <2>1 DEF Lone, Frozen
    <2> QED BY <2>1, <2>2, IdleIsFresh DEF Lone
  <1>3. ASSUME NEW w \in Sessions,
               \/ CommitAdd(w) \/ CommitPost(w) \/ CommitEdit(w)
               \/ CommitConfirm(w) \/ CommitApprove(w) \/ CommitCancel(w)
               \/ CommitAddPeriod(w) \/ CommitClose(w) \/ CommitReopen(w)
        PROVE  Lone' /\ Frozen
    <2>1. \A v \in Sessions : v = w
      OBVIOUS
    <2> QED BY <1>3, <2>1, LoneAdd, LonePost, LoneEdit, LoneConfirm, LoneStatus,
               LoneAddPeriod, LoneClose, LoneReopen
  <1>4. CASE Quiet
    BY <1>1, <1>4 DEF Quiet
  <1>5. CASE Next
    BY <1>2, <1>3, <1>4, <1>5, LoneBegins DEF Next
  <1> QED
    BY <1>1, <1>5

LEMMA LoneAlways ==
  ASSUME \A v, w \in Sessions : v = w
  PROVE  Spec => [](TypeOK /\ Lone)
  <1>1. Init => Lone
    BY LoneInit
  <1>2. TypeOK /\ Lone /\ [Next]_vars => Lone'
    BY LoneStep
  <1> QED
    BY <1>1, <1>2, JournalTypeCorrect, PTL DEF Spec

(* One session at a time: what confirm_entry(), approve_entry() and        *)
(* add_entry() post balances by its lines, not only by its own columns.    *)
THEOREM PostedBalancedAlone ==
  ASSUME \A v, w \in Sessions : v = w
  PROVE  Spec => []PostedBalanced
  <1>1. Lone => PostedBalanced
    BY DEF Lone, BooksOK, EntryOK, PostedBalanced
  <1> QED
    BY <1>1, LoneAlways, PTL

(* One session at a time: close_fiscal() leaves no draft behind in a       *)
(* period, and nothing puts one there later.                               *)
THEOREM ClosedHasNoDraftAlone ==
  ASSUME \A v, w \in Sessions : v = w
  PROVE  Spec => []ClosedHasNoDraft
  <1>1. Lone => ClosedHasNoDraft
    BY LockedIs DEF Lone, BooksOK, EntryOK, ClosedHasNoDraft
  <1> QED
    BY <1>1, LoneAlways, PTL

(* One session at a time: nothing is entered into a closed period, moved   *)
(* into or out of it, or changed in it except to cancel it.                *)
THEOREM ClosedFrozenAlone ==
  ASSUME \A v, w \in Sessions : v = w
  PROVE  Spec => ClosedFrozen
  <1>1. TypeOK /\ Lone /\ [Next]_vars => [Frozen]_vars
    BY LoneStep
  <1>2. Spec => [][Frozen]_vars
    BY <1>1, LoneAlways, PTL DEF Spec
  <1> QED
    BY <1>2, PTL DEF ClosedFrozen, Frozen
=============================================================================
