----------------------------- MODULE UnitOfWork -----------------------------
(***************************************************************************)
(* How a request of the program reaches its database: the unit of work of  *)
(* SQLAlchemy (src/extensions.py creates the one `db` object) over the     *)
(* SQLite engine of the default configuration.                             *)
(*                                                                         *)
(*  - A handler loads rows with SELECTs that run outside any transaction   *)
(*    (the SQLite driver opens one at the first INSERT, UPDATE or DELETE). *)
(*    The objects it gets stay in the session, as loaded, until commit or  *)
(*    rollback: a later query of the same row returns the same object.     *)
(*  - The first write takes the database's only write lock and keeps it    *)
(*    until commit or rollback, so that from there to the commit no other  *)
(*    request writes.  One step of a specification models this part.       *)
(*  - A flush writes, in each changed object, exactly the columns whose    *)
(*    value differs from the value that was loaded, and writes the new     *)
(*    value itself, not a difference.                                      *)
(***************************************************************************)

(* Fault: a flush writes every column of a changed object.                 *)
FlushAll(row, loaded, edited) == IF edited = loaded THEN row ELSE edited

(***************************************************************************)
(* The row after a flush: `row` is what the table holds when the flush     *)
(* runs, `loaded` what the session read earlier, `edited` what the handler *)
(* made of it.                                                             *)
(***************************************************************************)
Flush(row, loaded, edited) ==
  [c \in DOMAIN row |-> IF edited[c] = loaded[c] THEN row[c] ELSE edited[c]]
=============================================================================
