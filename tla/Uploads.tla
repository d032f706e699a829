-------------------------------- MODULE Uploads --------------------------------
(***************************************************************************)
(* The invoice uploaded with an expense (utils/uploads.py and              *)
(* add_advanced_expense of routes/payroll.py): the file is written chunk   *)
(* by chunk under a name of its own, looked at on the way, and named by    *)
(* the row that is committed last.  Names are random, so that uploads do   *)
(* not meet; a size counts chunks.                                         *)
(***************************************************************************)
EXTENDS Integers, Sequences

CONSTANTS
  Sessions,      \* server threads that handle requests
  Limit,         \* MAX_SIZE of the kind
  Extensions,    \* extensions a user may choose
  Allowed,       \* ALLOWED_EXT of the kind
  MaxFiles       \* bound: files written

VARIABLES
  disk,      \* the folder: what each file has become
  named,     \* the files that rows of expenses name
  req        \* the request each session is in

vars == <<disk, named, req>>

Idle == [op |-> "idle"]
Removed == [size |-> -1, genuine |-> FALSE]

(* What a user sends: its extension, its size, and whether the first chunk *)
(* begins as a file of that extension does.                                *)
Sent == [ext : Extensions, size : 0..(Limit + 1), genuine : BOOLEAN]

Init ==
  /\ disk = <<>>
  /\ named = {}
  /\ req = [w \in Sessions |-> Idle]

Finish(w) == req' = [req EXCEPT ![w] = Idle]

(* store_upload(): an extension that is not allowed is refused at once.    *)
Open(w, sent) ==
  /\ req[w] = Idle
  /\ sent.ext \in Allowed
  /\ Len(disk) < MaxFiles
  /\ disk' = Append(disk, [size |-> 0, genuine |-> sent.genuine])
  /\ req' = [req EXCEPT ![w] = [op |-> "stream", file |-> Len(disk) + 1, sent |-> sent]]
  /\ UNCHANGED named

Written(w) == disk[req[w].file].size

(* The next chunk is looked at before it is written.                       *)
Refused(w) ==
  LET sent == req[w].sent IN
  IF Written(w) < sent.size
  THEN (Written(w) = 0 /\ ~sent.genuine) \/ Written(w) + 1 > Limit
  ELSE sent.size = 0

WriteChunk(w) ==
  /\ req[w].op = "stream"
  /\ Written(w) < req[w].sent.size
  /\ ~Refused(w)
  /\ disk' = [disk EXCEPT ![req[w].file].size = @ + 1]
  /\ UNCHANGED <<named, req>>

(* A refusal or an error removes the file, when it can.                    *)
Refuse(w) ==
  /\ req[w].op = "stream"
  /\ disk' \in {disk, [disk EXCEPT ![req[w].file] = Removed]}
  /\ Finish(w)
  /\ UNCHANGED named

Stored(w) ==
  /\ req[w].op = "stream"
  /\ Written(w) = req[w].sent.size
  /\ ~Refused(w)
  /\ req' = [req EXCEPT ![w].op = "stored"]
  /\ UNCHANGED <<disk, named>>

(* The row is committed, or the cash box holds too little and the file     *)
(* stays behind.                                                           *)
CommitExpense(w) ==
  /\ req[w].op = "stored"
  /\ named' \in {named, named \cup {req[w].file}}
  /\ Finish(w)
  /\ UNCHANGED disk

(* The process dies and leaves what is written.                            *)
Crash ==
  /\ req' = [w \in Sessions |-> Idle]
  /\ UNCHANGED <<disk, named>>

(* The page that sends an invoice: not found when there is no such file.   *)
expense_attachment(f) == f \in named /\ disk[f] # Removed

Next ==
  \/ \E w \in Sessions, sent \in Sent : Open(w, sent)
  \/ \E w \in Sessions :
       WriteChunk(w) \/ Refuse(w) \/ Stored(w) \/ CommitExpense(w)
  \/ Crash

Spec == Init /\ [][Next]_vars

-----------------------------------------------------------------------------
(***************************************************************************)
(* Properties.                                                             *)
(***************************************************************************)

(* An invoice that a row names can be sent, is of the kind it says, not    *)
(* empty and within the limit, whatever uploads were refused or cut short  *)
(* and whether or not their files could be removed.                        *)
SoundAttachments ==
  \A f \in named :
    /\ expense_attachment(f)
    /\ disk[f].genuine /\ disk[f].size \in 1..Limit
=============================================================================
