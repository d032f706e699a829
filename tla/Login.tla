--------------------------------- MODULE Login --------------------------------
(***************************************************************************)
(* Logging in and the limit on wrong passwords (utils/login_guard.py,      *)
(* routes/auth.py), for one name and address in one worker process: each   *)
(* process counts for itself; and the pages by which an administrator      *)
(* shuts the user out (routes/permissions.py).                             *)
(*                                                                         *)
(* A request looks at the lock and loads the user first, compares the      *)
(* password later; if it is wrong, register_failure() reads the clock, and *)
(* counts under its lock, so that stamps may be entered out of order.  The *)
(* clock is finer than the whole seconds that the rule counts in.          *)
(***************************************************************************)
EXTENDS Integers, Sequences, FiniteSetsExt

CONSTANTS
  Sessions,       \* server threads that handle requests
  MAX_ATTEMPTS,
  WINDOW_SECONDS,
  LOCK_SECONDS,
  TicksPerSecond, \* of the clock
  LastTick,       \* bound: the clock
  MaxOpened,      \* bound: rows of user_sessions
  MaxPasswords    \* bound: passwords the user has had

VARIABLES
  now,        \* the clock, in ticks
  failures,   \* _failures: times of failed attempts
  until,      \* _locked_until: 0 if there is none
  active,     \* the user's is_active: on, off, or unset in an old database
  password,   \* which of his passwords is the user's
  opened,     \* table user_sessions of the user
  browsers,   \* how many browsers hold a session of the user
  req,        \* the request each session is in
  wrong,      \* history: times of wrong passwords since the count was reset
  late,       \* history: the longest from reading the clock to counting
  since,      \* history: the password when an administrator last shut him out
  banned      \* history: the last word of an administrator was to switch him off

guard == <<now, failures, until, wrong, late>>
account == <<active, password, since, banned>>
visits == <<opened, browsers>>
vars == <<guard, account, visits, req>>

Idle == [op |-> "idle"]
Entered == [op |-> "entered"]

is_blocked(a) == a = "off"

Init ==
  /\ now = 1
  /\ failures = <<>>
  /\ until = 0
  /\ active \in {"on", "unset"}
  /\ password = 1
  /\ opened = <<>> /\ browsers = 0
  /\ req = [w \in Sessions |-> Idle]
  /\ wrong = <<>> /\ late = 0
  /\ since = 1 /\ banned = FALSE

Finish(w) == req' = [req EXCEPT ![w] = Idle]

WINDOW == WINDOW_SECONDS * TicksPerSecond
LOCK == LOCK_SECONDS * TicksPerSecond

(* Whole seconds: none is left during the last second of the lock.         *)
lock_remaining == IF until > now THEN (until - now) \div TicksPerSecond ELSE 0

Begin(w) ==
  /\ req[w] = Idle
  /\ lock_remaining = 0
  /\ req' = [req EXCEPT ![w] =
               [op |-> "checked", active |-> active, password |-> password]]
  /\ UNCHANGED <<guard, account, visits>>

(* The password is wrong: the clock is read, the count comes later.        *)
Wrong(w) ==
  /\ req[w].op = "checked"
  /\ req' = [req EXCEPT ![w] = [op |-> "wrong", now |-> now]]
  /\ UNCHANGED <<guard, account, visits>>

(* Attempts from before the window are dropped from the left.              *)
Recent(stamp) ==
  LET first == Min({i \in DOMAIN failures : failures[i] >= stamp - WINDOW}
                     \cup {Len(failures) + 1})
  IN  SubSeq(failures, first, Len(failures))

(* Fault: the lock comes one failure late.                                 *)
register_failure_late(w) ==
  LET stamp == req[w].now
      stamps == Append(Recent(stamp), stamp)
      full == Len(stamps) > MAX_ATTEMPTS
  IN
  /\ req[w].op = "wrong"
  /\ until' = IF full THEN stamp + LOCK ELSE until
  /\ failures' = IF full THEN <<>> ELSE stamps
  /\ wrong' = Append(wrong, stamp)
  /\ late' = Max({late, now - stamp})
  /\ Finish(w)
  /\ UNCHANGED <<now, account, visits>>

register_failure(w) ==
  LET stamp == req[w].now
      stamps == Append(Recent(stamp), stamp)
      full == Len(stamps) >= MAX_ATTEMPTS
  IN
  /\ req[w].op = "wrong"
  /\ until' = IF full THEN stamp + LOCK ELSE until
  /\ failures' = IF full THEN <<>> ELSE stamps
  /\ wrong' = Append(wrong, stamp)
  /\ late' = Max({late, now - stamp})
  /\ Finish(w)
  /\ UNCHANGED <<now, account, visits>>

(* The password of the row that was loaded: the session row is committed,  *)
(* and with it is_active when it was unset; the rest comes later.  A       *)
(* blocked user is sent away, the count stays.                             *)
Right(w) ==
  LET user == req[w] IN
  /\ user.op = "checked"
  /\ IF is_blocked(user.active)
     THEN Finish(w) /\ UNCHANGED <<active, opened>>
     ELSE /\ Len(opened) < MaxOpened
          /\ opened' = Append(opened, [open |-> TRUE, password |-> user.password])
          /\ active' = IF user.active = "unset" THEN "on" ELSE active
          /\ req' = [req EXCEPT ![w] = Entered]
  /\ UNCHANGED <<guard, password, since, banned, browsers>>

(* The count is forgotten, and login_user() looks at is_active once more,  *)
(* which the commit made the session load again.                           *)
reset(w) ==
  /\ req[w] = Entered
  /\ failures' = <<>>
  /\ until' = 0
  /\ wrong' = <<>> /\ late' = 0
  /\ browsers' = IF active = "on" THEN browsers + 1 ELSE browsers
  /\ Finish(w)
  /\ UNCHANGED <<now, account, opened>>

-----------------------------------------------------------------------------
(* Once in.  Every request loads the user again, whom the cookie of the    *)
(* browser names; a blocked one is out.  No row of user_sessions is read.  *)
load_user == browsers > 0 /\ ~is_blocked(active)

(* logout() closes the newest active row, whichever login made it.         *)
logout ==
  LET active_rows == {n \in DOMAIN opened : opened[n].open} IN
  /\ load_user
  /\ browsers' = browsers - 1
  /\ opened' = [n \in DOMAIN opened |->
                  IF n \in active_rows /\ n = Max(active_rows)
                  THEN [opened[n] EXCEPT !.open = FALSE] ELSE opened[n]]
  /\ UNCHANGED <<guard, account, req>>

(* profile(): a password of his own closes nothing.                        *)
ChangePassword ==
  /\ load_user
  /\ password < MaxPasswords
  /\ password' = password + 1
  /\ UNCHANGED <<guard, active, since, banned, visits, req>>

-----------------------------------------------------------------------------
(* The pages of an administrator: one UPDATE each, with its commit.        *)

_close_open_sessions == opened' = [n \in DOMAIN opened |-> [opened[n] EXCEPT !.open = FALSE]]

Written(a, p) ==
  /\ active' = a /\ password' = p
  /\ UNCHANGED <<guard, req, browsers>>

EditUser(a, p) ==
  /\ Written(a, p)
  /\ banned' = is_blocked(a)
  /\ IF p # password \/ is_blocked(a)
     THEN _close_open_sessions /\ since' = p
     ELSE UNCHANGED <<opened, since>>

DeleteUser ==
  /\ Written("off", password)
  /\ banned' = TRUE
  /\ _close_open_sessions
  /\ since' = password

ResetPassword ==
  /\ password < MaxPasswords
  /\ Written(active, password + 1)
  /\ _close_open_sessions
  /\ since' = password'
  /\ UNCHANGED banned

-----------------------------------------------------------------------------
(* The process restarts: what it counted is gone, the cookies are not.     *)
Restart ==
  /\ failures' = <<>>
  /\ until' = 0
  /\ wrong' = <<>> /\ late' = 0
  /\ req' = [w \in Sessions |-> Idle]
  /\ UNCHANGED <<now, account, visits>>

Tick ==
  /\ now < LastTick
  /\ now' = now + 1
  /\ UNCHANGED <<failures, until, wrong, late, account, visits, req>>

Next ==
  \/ \E w \in Sessions :
       Begin(w) \/ Wrong(w) \/ register_failure(w) \/ Right(w) \/ reset(w)
  \/ logout \/ ChangePassword
  \/ \E a \in {"on", "off"}, p \in password..MaxPasswords :
       p <= password + 1 /\ EditUser(a, p)
  \/ DeleteUser \/ ResetPassword
  \/ Restart \/ Tick

Spec == Init /\ [][Next]_vars

-----------------------------------------------------------------------------
(***************************************************************************)
(* Properties.                                                             *)
(***************************************************************************)

(* Between two resets no stretch of time holds more wrong passwords than   *)
(* allowed, but for those of requests that were past the look at the lock  *)
(* when it came: a stretch a second shorter than a lock, because the       *)
(* seconds left are rounded down, and shorter by what the count came late. *)
FewAttempts ==
  \A i \in DOMAIN wrong :
    Cardinality({j \in DOMAIN wrong :
                   wrong[j] \in wrong[i]..(wrong[i] + LOCK - TicksPerSecond - late)})
      <= MAX_ATTEMPTS + Cardinality(Sessions) - 1

(* Nobody is locked out without so many wrong passwords within a window,   *)
(* one counted after the other (login_guard.py:66-71).                     *)
LockedForCause ==
  until # 0 =>
    \E i \in DOMAIN wrong :
      LET last == i + MAX_ATTEMPTS - 1 IN
      /\ last \in DOMAIN wrong
      /\ \A k \in i..last : wrong[last] - wrong[k] <= WINDOW + late
      /\ until = wrong[last] + LOCK

(* Whom an administrator has switched off is out, whatever his browsers    *)
(* hold, until an administrator switches him on (models/user.py:181-184);  *)
(* to be asked where no login was under way meanwhile.  A new password     *)
(* shuts no browser out.                                                   *)
ShutOut == banned => ~load_user

(* The page of active sessions (routes/features2.py:129) shows nobody who  *)
(* is blocked, and no login with a password from before an administrator's *)
(* (routes/permissions.py:269-273), where no login was under way meanwhile.*)
HonestPage ==
  \A n \in DOMAIN opened :
    opened[n].open => ~is_blocked(active) /\ opened[n].password >= since
=============================================================================
