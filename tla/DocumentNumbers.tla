--------------------------- MODULE DocumentNumbers ---------------------------
(***************************************************************************)
(* The document numberer, utils/document_numbers.py, and the handlers that *)
(* create a document under the number it gives them.                       *)
(*                                                                         *)
(* A number comes from a counter, one row for a kind of document and year. *)
(* The code of a document joins a prefix, the year and the number, and its *)
(* column is unique.  Most kinds have one prefix; a class has the prefix   *)
(* of its course (routes/classes.py add), and the classes that split_class *)
(* (routes/features.py) makes are a kind of their own in the same column,  *)
(* whose codes and counter have no year.                                   *)
(*                                                                         *)
(* A user repeats a request that failed until the document is there.       *)
(* Documents are deleted (routes/classes.py delete), and an older database *)
(* is restored: requests under way go on with the numbers they hold (what  *)
(* becomes of their connections is told in Backup).                        *)
(***************************************************************************)
EXTENDS Integers, FiniteSets, FiniteSetsExt

CONSTANTS
  Users,         \* users, each with requests of its own
  Prefixes,      \* prefixes of the codes in the column
  Yearless,      \* those of the kind whose codes have no year
  Years,         \* calendar years, numbers that follow each other
  MaxAttempts,   \* turns of the numberer's loop (6 in the code)
  MaxDocs,       \* bound: documents one user creates
  MaxTimeouts,   \* bound: writes that wait too long for the database lock
  MaxLosses      \* bound: deletions and restorations

ASSUME ConstantsOK ==
  /\ Users # {} /\ Prefixes # {} /\ Yearless \subseteq Prefixes
  /\ Years \subseteq Nat \ {0} /\ IsFiniteSet(Years) /\ Years # {}
  /\ MaxAttempts \in Nat \ {0} /\ MaxDocs \in Nat /\ MaxTimeouts \in Nat
  /\ MaxLosses \in Nat

VARIABLES
  counter,    \* document_sequences: year -> next_no (0: no row)
  docs,       \* the codes in the column: [prefix, year, number]
  year,       \* current_jalali_year()
  wish,       \* the prefix each user asks for and how many are still to come
  req,        \* the request of each user
  timeouts,   \* lock timeouts so far
  saved,      \* a backup of the database
  losses,     \* deletions and restorations so far
  gone,       \* history: the numbers of documents deleted or lost
  crossed     \* history: one came while a request held a number

requests == <<year, wish, req, timeouts>>
past == <<saved, losses, gone, crossed>>
vars == <<counter, docs, requests, past>>

NoYear == 0
Keys == Years \cup {NoYear}
Doc == [prefix : Prefixes, year : Keys, number : Nat]
Idle == [stage |-> "idle"]

Numbers(ds) == {d.number : d \in ds}

(* _highest_existing_number(): over all years and prefixes of the column.  *)
Highest == Max({0} \cup Numbers(docs))

Init ==
  /\ counter = [y \in Keys |-> 0]
  /\ docs = {}
  /\ year = Min(Years)
  /\ wish \in [Users -> [prefix : Prefixes, left : 0..MaxDocs]]
  /\ req = [u \in Users |-> Idle]
  /\ timeouts = 0
  /\ saved = [counter |-> counter, docs |-> docs]
  /\ losses = 0 /\ gone = {} /\ crossed = FALSE

YearFor(u) == IF wish[u].prefix \in Yearless THEN NoYear ELSE year

(* next_document_number() takes the year of the code first, then           *)
(* next_sequence_number() that of the counter, before its first turn.      *)
Begin(u) ==
  /\ req[u] = Idle
  /\ wish[u].left > 0
  /\ req' = [req EXCEPT ![u] =
       [stage |-> "ask", label |-> YearFor(u), key |-> YearFor(u), number |-> 0,
        attempt |-> 1]]
  /\ UNCHANGED <<counter, docs, year, wish, timeouts, past>>

(* The counter's year is fixed by the first turn of the loop.              *)
Key(u) == IF req[u].attempt = 1 THEN YearFor(u) ELSE req[u].key

(* SELECT of the counter row; without one, it will be made one past the    *)
(* highest number in use.  Neither takes the lock.                         *)
ReadCounter(u) ==
  /\ req' = [req EXCEPT ![u] =
       IF counter[Key(u)] = 0
       THEN [@ EXCEPT !.stage = "create", !.key = Key(u), !.number = Highest + 1]
       ELSE [@ EXCEPT !.stage = "update", !.key = Key(u),
                      !.number = counter[Key(u)]]]
  /\ UNCHANGED <<counter, docs, year, wish, timeouts, past>>

Read(u) ==
  /\ req[u].stage = "ask"
  /\ req[u].attempt <= MaxAttempts
  /\ ReadCounter(u)

(* After the last attempt: the highest number plus one, the counter is     *)
(* left alone.                                                             *)
Fallback(u) ==
  LET r == req[u] IN
  /\ r.stage = "ask"
  /\ r.attempt > MaxAttempts
  /\ req' = [req EXCEPT ![u].stage = "fallback", ![u].number = Highest + 1]
  /\ UNCHANGED <<counter, docs, year, wish, timeouts, past>>

(* The rest of the request, under the write lock: the counter's flush, the *)
(* INSERT of the document and the commit.                                  *)
NewDoc(u) ==
  [prefix |-> wish[u].prefix, year |-> req[u].label, number |-> req[u].number]

Insert(u) ==
  /\ NewDoc(u) \notin docs
  /\ docs' = docs \cup {NewDoc(u)}
  /\ wish' = [wish EXCEPT ![u].left = @ - 1]
  /\ req' = [req EXCEPT ![u] = Idle]
  /\ UNCHANGED <<year, timeouts, past>>

(* Fault: the counter is left on the number just given.                    *)
CommitUpdateStill(u) ==
  /\ req[u].stage = "update" /\ counter[req[u].key] # 0
  /\ counter' = [counter EXCEPT ![req[u].key] = req[u].number]
  /\ Insert(u)

(* Fault: the counter skips a number.                                      *)
CommitUpdateSkip(u) ==
  /\ req[u].stage = "update" /\ counter[req[u].key] # 0
  /\ counter' = [counter EXCEPT ![req[u].key] = req[u].number + 2]
  /\ Insert(u)

CommitUpdate(u) ==
  /\ req[u].stage = "update" /\ counter[req[u].key] # 0
  /\ counter' = [counter EXCEPT ![req[u].key] = req[u].number + 1]
  /\ Insert(u)

CommitCreate(u) ==
  /\ req[u].stage = "create"
  /\ counter[req[u].key] = 0
  /\ counter' = [counter EXCEPT ![req[u].key] = req[u].number + 1]
  /\ Insert(u)

CommitFallback(u) ==
  /\ req[u].stage = "fallback"
  /\ Insert(u)
  /\ UNCHANGED counter

Again(u) ==
  /\ req' = [req EXCEPT ![u].stage = "ask", ![u].attempt = @ + 1]
  /\ UNCHANGED <<counter, docs, year, wish, past>>

(* Another session made the counter row: UNIQUE(kind, year), rolled back   *)
(* and tried again.                                                        *)
RowExists(u) ==
  /\ req[u].stage = "create"
  /\ counter[req[u].key] # 0
  /\ Again(u)
  /\ UNCHANGED timeouts

(* The counter's UPDATE waits too long for the lock: OperationalError,     *)
(* rolled back and tried again.                                            *)
LockTimeout(u) ==
  /\ req[u].stage = "update"
  /\ timeouts < MaxTimeouts
  /\ timeouts' = timeouts + 1
  /\ Again(u)

(* The same at the INSERT of a counter row, which only expects an          *)
(* IntegrityError, or at the INSERT of a document: the request fails.      *)
LockFailure(u) ==
  /\ req[u].stage \in {"create", "fallback"}
  /\ timeouts < MaxTimeouts
  /\ timeouts' = timeouts + 1
  /\ req' = [req EXCEPT ![u] = Idle]
  /\ UNCHANGED <<counter, docs, year, wish, past>>

(* The code of the document is in use: IntegrityError, the request fails   *)
(* and the counter's flush is rolled back with it.  Or the counter row is  *)
(* not there any more (StaleDataError).                                    *)
Fail(u) ==
  /\ \/ req[u].stage = "update" /\ (counter[req[u].key] = 0 \/ NewDoc(u) \in docs)
     \/ req[u].stage = "create" /\ counter[req[u].key] = 0 /\ NewDoc(u) \in docs
     \/ req[u].stage = "fallback" /\ NewDoc(u) \in docs
  /\ req' = [req EXCEPT ![u] = Idle]
  /\ UNCHANGED <<counter, docs, year, wish, timeouts, past>>

NewYear ==
  /\ year + 1 \in Years
  /\ year' = year + 1
  /\ UNCHANGED <<counter, docs, wish, req, timeouts, past>>

-----------------------------------------------------------------------------
(* Documents that were there and are there no longer.                      *)
Lost(lost) ==
  /\ losses < MaxLosses
  /\ losses' = losses + 1
  /\ gone' = gone \cup Numbers(lost)
  /\ crossed' = (crossed \/ \E u \in Users : req[u].stage \in {"create", "update", "fallback"})
  /\ UNCHANGED <<requests, saved>>

(* delete(): the row is removed, the counter stays.                        *)
Delete(d) ==
  /\ docs' = docs \ {d}
  /\ Lost({d})
  /\ UNCHANGED counter

(* None after the last loss (bound): nothing would be restored from it.    *)
Backup ==
  /\ losses < MaxLosses
  /\ saved' = [counter |-> counter, docs |-> docs]
  /\ saved' # saved
  /\ UNCHANGED <<counter, docs, requests, losses, gone, crossed>>

Restore ==
  /\ counter' = saved.counter
  /\ docs' = saved.docs
  /\ Lost(docs \ saved.docs)

Finished ==
  /\ \A u \in Users : wish[u].left = 0
  /\ UNCHANGED vars

Step(u) ==
  \/ Begin(u) \/ Read(u) \/ Fallback(u) \/ CommitUpdate(u) \/ CommitCreate(u)
  \/ CommitFallback(u) \/ RowExists(u) \/ Fail(u)

Next ==
  \/ \E u \in Users : Begin(u)
  \/ \E u \in Users : Read(u)
  \/ \E u \in Users : Fallback(u)
  \/ \E u \in Users : CommitUpdate(u)
  \/ \E u \in Users : CommitCreate(u)
  \/ \E u \in Users : CommitFallback(u)
  \/ \E u \in Users : RowExists(u)
  \/ \E u \in Users : LockTimeout(u)
  \/ \E u \in Users : LockFailure(u)
  \/ \E u \in Users : Fail(u)
  \/ NewYear
  \/ \E d \in docs : Delete(d)
  \/ Backup \/ Restore
  \/ Finished

Spec == Init /\ [][Next]_vars

(* A thread that serves a request goes on, and a user whose request failed *)
(* repeats it.  The new year, lock timeouts and losses are not promised.   *)
FairSpec == Spec /\ \A u \in Users : WF_vars(Step(u))

-----------------------------------------------------------------------------
(***************************************************************************)
(* Properties.                                                             *)
(***************************************************************************)

(* No number is skipped: one that no document has was that of a document   *)
(* which was deleted or lost, never of a request that failed, because that *)
(* gives its number back with the rollback (document_numbers.py:85-91).    *)
NoGaps ==
  LET given == gone \cup Numbers(docs) IN given = 1..Max({0} \cup given)

(* models/system.py, DocumentSequence: two concurrent users no longer make *)
(* a duplicate number, and the page for a document is no longer an error:  *)
(* every document that users ask for is created in the end.                *)
EveryoneServed == <>(\A u \in Users : wish[u].left = 0)

(* The same in a year whose counter no fallback has left behind: a request *)
(* that loses a race for a number fails, and succeeds when repeated.  Nor  *)
(* may a document be deleted while a request holds a number: it might come *)
(* after all with the number of the deleted one, and set the counter back. *)
ServedWithoutFallback ==
  [](/\ year = Min(Years) /\ ~crossed
     /\ \A u \in Users : req[u].stage # "fallback")
    => EveryoneServed
=============================================================================
