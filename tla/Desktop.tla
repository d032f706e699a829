-------------------------------- MODULE Desktop -------------------------------
(***************************************************************************)
(* The desktop shell: the lock of one instance, the choice of a port, the  *)
(* server thread, the window and its tray (app_desktop.py,                 *)
(* utils/desktop_support.py).  Shells and another program compete for the  *)
(* ports; a shell may be killed at any step.                               *)
(***************************************************************************)
EXTENDS Integers, FiniteSetsExt

CONSTANTS
  Shells,   \* processes of the desktop program
  Other,    \* another program on the computer
  Nobody,   \* holds the lock or owns a port; what no shell has said
  Ports,    \* the ports pick_port() looks at
  Retries   \* loads of a page that may fail before the box is shown: 3

VARIABLES
  shell,   \* the state of each shell
  held,    \* who holds single-instance.lock
  owner    \* who is bound to each port

vars == <<shell, held, owner>>

Off ==
  [stage |-> "off", locked |-> FALSE, port |-> 0, server |-> "none", event |-> FALSE,
   error |-> FALSE, late |-> FALSE, said |-> Nobody, fails |-> 0]

Init ==
  /\ shell = [s \in Shells |-> Off]
  /\ held = Nobody
  /\ owner = [p \in Ports |-> Nobody]

Unlock(s) == held' = IF held = s THEN Nobody ELSE held
Free(s) == owner' = [p \in Ports |-> IF owner[p] = s THEN Nobody ELSE owner[p]]
At(s, stage) == shell[s].stage = stage

-----------------------------------------------------------------------------
(* main().                                                                 *)

(* With --no-single-instance the lock is not asked for.                    *)
Launch(s, single) ==
  /\ At(s, "off")
  /\ single => held = Nobody
  /\ held' = IF single THEN s ELSE held
  /\ shell' = [shell EXCEPT ![s] = [Off EXCEPT !.stage = "port", !.locked = single]]
  /\ UNCHANGED owner

(* The program ends here, its sockets with it.                             *)
Leave(s) == Unlock(s) /\ Free(s) /\ shell' = [shell EXCEPT ![s] = Off]

PickPort(s) ==
  LET free == {p \in Ports : owner[p] = Nobody} IN
  /\ At(s, "port")
  /\ \/ free = {} /\ Leave(s)
     \/ /\ free # {}
        /\ shell' = [shell EXCEPT ![s].port = Min(free), ![s].stage = "create"]
        /\ UNCHANGED <<held, owner>>

(* create_app(); it creates the database too, so that the first-run setup  *)
(* after it never runs.  The server thread starts.                         *)
(* Fault: the event is set before the port is bound.                       *)
CreateAppReady(s) ==
  /\ At(s, "create")
  /\ \/ Leave(s)
     \/ /\ shell' = [shell EXCEPT ![s].stage = "wait", ![s].server = "starting",
                                  ![s].event = TRUE]
        /\ UNCHANGED <<held, owner>>

CreateApp(s) ==
  /\ At(s, "create")
  /\ \/ Leave(s)
     \/ /\ shell' = [shell EXCEPT ![s].stage = "wait", ![s].server = "starting"]
        /\ UNCHANGED <<held, owner>>

(* start_server(), in its thread.                                          *)
Bind(s) ==
  LET p == shell[s].port
      bound == owner[p] = Nobody
  IN
  /\ shell[s].server = "starting"
  /\ shell' = [shell EXCEPT ![s].server = IF bound THEN "serving" ELSE "failed",
                            ![s].event = TRUE]
  /\ owner' = IF bound THEN [owner EXCEPT ![p] = s] ELSE owner
  /\ UNCHANGED held

(* The event was set, or 25 seconds passed; the error is read only here.   *)
WaitReady(s) ==
  /\ At(s, "wait")
  /\ shell' = [shell EXCEPT ![s].stage = "probe", ![s].late = ~shell[s].event,
                            ![s].error = shell[s].server = "failed"]
  /\ UNCHANGED <<held, owner>>

(* wait_until_serving(): any answer of any program on the port will do.    *)
Probe(s) ==
  LET answerer == owner[shell[s].port] IN
  /\ At(s, "probe")
  /\ \/ /\ ~shell[s].error /\ answerer # Nobody
        /\ shell' = [shell EXCEPT ![s].stage = "window", ![s].said = "ready"]
     \/ /\ shell[s].error \/ answerer # s
        /\ shell' = [shell EXCEPT ![s].stage = "window", ![s].said = "failed"]
  /\ UNCHANGED <<held, owner>>

-----------------------------------------------------------------------------
(* The window.  Hidden in the tray it is the same to the server.           *)

(* _really_quit() and stop_server(): a server that is not bound yet is not *)
(* found.                                                                  *)
Quit(s) ==
  /\ At(s, "window")
  /\ shell' = [shell EXCEPT ![s].stage = "ending",
                            ![s].server = IF @ = "serving" THEN "stopped" ELSE @]
  /\ IF shell[s].server = "serving" THEN Free(s) ELSE UNCHANGED owner
  /\ UNCHANGED held

Exit(s) == At(s, "ending") /\ Leave(s)

PageLoaded(s) ==
  /\ At(s, "window")
  /\ owner[shell[s].port] # Nobody
  /\ shell' = [shell EXCEPT ![s].fails = 0]
  /\ UNCHANGED <<held, owner>>

(* Failures are tried again; then the box offers the log and another try,  *)
(* a fresh start, or the way out.                                          *)
PageFailed(s) ==
  /\ At(s, "window")
  /\ owner[shell[s].port] # s
  /\ \/ /\ shell[s].fails < Retries
        /\ shell' = [shell EXCEPT ![s].fails = @ + 1]
        /\ UNCHANGED <<held, owner>>
     \/ /\ shell[s].fails = Retries
        /\ \/ UNCHANGED shell
           \/ shell' = [shell EXCEPT ![s].fails = 0]
        /\ UNCHANGED <<held, owner>>
     \/ shell[s].fails = Retries /\ Quit(s)

(* The lock of a process that is gone is taken over: it is as if free.     *)
Kill(s) == ~At(s, "off") /\ Leave(s)

OtherProgram(p) ==
  /\ owner[p] \in {Nobody, Other}
  /\ owner' = [owner EXCEPT ![p] = IF @ = Nobody THEN Other ELSE Nobody]
  /\ UNCHANGED <<shell, held>>

Next ==
  \/ \E s \in Shells, single \in BOOLEAN : Launch(s, single)
  \/ \E s \in Shells :
       \/ PickPort(s) \/ CreateApp(s) \/ Bind(s) \/ WaitReady(s) \/ Probe(s)
       \/ Quit(s) \/ Exit(s) \/ PageLoaded(s) \/ PageFailed(s) \/ Kill(s)
  \/ \E p \in Ports : OtherProgram(p)

Spec == Init /\ [][Next]_vars

-----------------------------------------------------------------------------
(***************************************************************************)
(* Properties.                                                             *)
(***************************************************************************)

(* A shell that reported its server ready has one, bound to the port its   *)
(* window opens, unless the wait for it ran out of time: whatever program  *)
(* took the port between the look at it and the bind.                      *)
ReadyMeansBound ==
  \A s \in Shells :
    At(s, "window") /\ shell[s].said = "ready" /\ ~shell[s].late =>
      shell[s].server = "serving" /\ owner[shell[s].port] = s

(* Of the shells that asked for the lock at most one has a server, from    *)
(* the first of its steps to the last.                                     *)
OneServer ==
  \A s, t \in Shells :
    /\ s # t /\ shell[s].locked /\ shell[t].locked
    => ~(shell[s].server \in {"starting", "serving"} /\ shell[t].server \in {"starting", "serving"})
=============================================================================
