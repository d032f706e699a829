--------------------------------- MODULE Access --------------------------------
(***************************************************************************)
(* Who may open which page: the guard in front of every page               *)
(* (utils/access_policy.py), the second check some handlers have           *)
(* (require_role) and the rows of a role (models/user.py).                 *)
(*                                                                         *)
(* A page stands for the paths the guard does not tell apart: the section  *)
(* its first segment belongs to, whether the method writes, and which of   *)
(* the guard's patterns the path matches.                                  *)
(***************************************************************************)
EXTENDS Naturals

CONSTANTS
  Sessions,      \* server threads that handle requests
  Modules,       \* sections that are modules; the others are "admin" and "free"
  Roles,
  None,          \* no role, no second check
  Pages,         \* [section, write, destructive, edit, second]
  Rows,          \* what a role may hold: sets of <<module, action>>
  ActionGuard    \* ACADEMY_DISABLE_ACTION_GUARD is not set

VARIABLES
  user,      \* the user's is_admin and role_id
  grants,    \* tables role_permissions and permissions: the rows of each role
  req        \* the request each session is in

vars == <<user, grants, req>>

Idle == [op |-> "idle"]
Users == [admin : BOOLEAN, role : Roles \cup {None}]

Init ==
  /\ user \in Users
  /\ grants = [r \in Roles |-> {}]
  /\ req = [w \in Sessions |-> Idle]

-----------------------------------------------------------------------------
(* What a page asks for.                                                   *)

required_write_action(page) ==
  IF page.edit THEN "edit" ELSE IF page.destructive THEN "delete" ELSE "create"

(* An action of the module, any action of it ("module"), an administrator, *)
(* or nothing.                                                             *)
resolve_policy(page) ==
  IF page.section \notin Modules THEN page.section
  ELSE IF page.write /\ page.destructive THEN "delete"
  ELSE IF page.write /\ ActionGuard THEN required_write_action(page)
  ELSE "module"

(* The rows a request works with are those it found when first asked.      *)
RowsOf(u) == IF u.role = None THEN {} ELSE grants[u.role]

has_permission(r, m, action) == r.user.admin \/ <<m, action>> \in r.rows
has_module_access(r, m) == r.user.admin \/ \E row \in r.rows : row[1] = m

(* edit stands for any action that writes.                                 *)
check_access(r) ==
  LET m == r.page.section
      policy == resolve_policy(r.page)
  IN
  \/ policy = "free" \/ r.user.admin
  \/ /\ policy # "admin" /\ r.user.role # None
     /\ IF policy = "module" THEN has_module_access(r, m)
        ELSE has_permission(r, m, policy) \/ has_permission(r, m, "edit")

(* require_role(): for a page of another module, too.                      *)
role_check(r, m, action) ==
  \/ r.user.admin
  \/ /\ r.user.role # None
     /\ \/ has_permission(r, m, action)
        \/ action \in {"edit", "create"} /\ has_permission(r, m, "edit")
        \/ action = "view" /\ has_module_access(r, m)

-----------------------------------------------------------------------------
(* A request: the user is loaded, then his rows; then the handler runs.    *)

Arrive(w, page) ==
  /\ req[w] = Idle
  /\ req' = [req EXCEPT ![w] = [op |-> "arrived", page |-> page, user |-> user]]
  /\ UNCHANGED <<user, grants>>

role_guard(w) ==
  /\ req[w].op = "arrived"
  /\ LET r == [op |-> "admitted", page |-> req[w].page, user |-> req[w].user,
               rows |-> RowsOf(req[w].user)]
     IN req' = [req EXCEPT ![w] = IF check_access(r) THEN r ELSE Idle]
  /\ UNCHANGED <<user, grants>>

Decorated(w) ==
  /\ req[w].op = "admitted"
  /\ LET r == req[w]
         second == r.page.second
     IN req' = [req EXCEPT ![w] =
          IF second = None \/ role_check(r, second[1], second[2])
          THEN [r EXCEPT !.op = "handled"] ELSE Idle]
  /\ UNCHANGED <<user, grants>>

Respond(w) ==
  /\ req[w].op = "handled"
  /\ req' = [req EXCEPT ![w] = Idle]
  /\ UNCHANGED <<user, grants>>

(* An administrator edits the user, or a role's rows.                      *)
EditUser(u) == user' = u /\ UNCHANGED <<grants, req>>

EditRole(r, rows) ==
  /\ grants' = [grants EXCEPT ![r] = rows]
  /\ UNCHANGED <<user, req>>

Next ==
  \/ \E w \in Sessions, page \in Pages : Arrive(w, page)
  \/ \E w \in Sessions : role_guard(w) \/ Decorated(w) \/ Respond(w)
  \/ \E u \in Users : EditUser(u)
  \/ \E r \in Roles, rows \in Rows : EditRole(r, rows)

Spec == Init /\ [][Next]_vars

-----------------------------------------------------------------------------
(***************************************************************************)
(* Properties.                                                             *)
(***************************************************************************)

Writing == {"create", "edit", "delete"}

(* Who is no administrator never gets to a page of the administrator, and  *)
(* writes in a module only with a writing action in it and, when the       *)
(* handler names another module, with one there as well; rows to look at   *)
(* a module never suffice, however the pages of it are named.              *)
WritersAreGranted ==
  \A w \in Sessions :
    LET r == req[w] IN
    r.op = "handled" /\ ~r.user.admin =>
      /\ r.page.section # "admin"
      /\ r.page.section \in Modules /\ r.page.write /\ (ActionGuard \/ r.page.destructive) =>
           \E a \in Writing : <<r.page.section, a>> \in r.rows
      /\ r.page.second # None /\ r.page.second[2] \in Writing =>
           \E a \in Writing : <<r.page.second[1], a>> \in r.rows
=============================================================================
