------------------------------- MODULE License -------------------------------
(***************************************************************************)
(* The license client: license_client.py and routes/license.py.            *)
(*                                                                         *)
(* A process keeps one verdict in memory, which every request reads.  The  *)
(* key and the server's last good answer (the cache) are files that every  *)
(* process shares.  Three kinds of caller ask the license server: the      *)
(* refresh, which _refresh_lock makes one per process, the form of the     *)
(* activation page, and the heartbeat thread.  The last two take no lock.  *)
(* An answer is given at one moment and applied at a later one, so answers *)
(* of different callers may be applied in another order.                   *)
(*                                                                         *)
(* Times are told apart by what the code does with them: a verdict is      *)
(* fresh or stale, a cache within the offline grace, overdue or expired,   *)
(* the clock right or set back beyond CLOCK_DRIFT_TOLERANCE.               *)
(***************************************************************************)
CONSTANTS
  Procs,    \* processes of the program on this device
  Keys,     \* license keys
  NoKey,    \* no key is stored
  Nobody    \* the heartbeat lock is free

ASSUME ConstantsOK == NoKey \notin Keys /\ Nobody \notin Procs

VARIABLES
  server,   \* what the server holds of each key for this device
  keyFile,  \* license.dat
  cache,    \* state.dat
  clock,    \* the wall clock of the device
  beat,     \* owner in heartbeat.lock
  verdict,  \* _state: unknown before the first check
  stale,    \* the verdict is older than its revalidation time
  flag,     \* _tamper_detected_at is set
  call      \* the exchange each caller is in

vars == <<server, keyFile, cache, clock, beat, verdict, stale, flag, call>>
files == <<keyFile, cache>>
outside == <<server, clock, beat>>

Callers == {"refresh", "form", "heartbeat"}
Standing == {"active", "free", "revoked"}
CacheStates == {"none", "good", "overdue", "expired"}
Verdicts == {"unknown", "online", "cached", "locked"}
Ops == {"verify", "activate", "deactivate"}
Answers == {"waiting", "ok", "refused", "free", "limit"}
Idle == [op |-> "idle"]
Exchange == {Idle} \cup [op : Ops, key : Keys, ans : Answers]

Init ==
  /\ server \in [Keys -> {"active", "free"}]
  /\ keyFile = NoKey
  /\ cache = "none"
  /\ clock = "right"
  /\ beat = Nobody
  /\ verdict = [p \in Procs |-> "unknown"]
  /\ stale = [p \in Procs |-> FALSE]
  /\ flag = [p \in Procs |-> FALSE]
  /\ call = [p \in Procs |-> [c \in Callers |-> Idle]]

Open(p) == verdict[p] \in {"online", "cached"}

-----------------------------------------------------------------------------
(* What a caller does with the files and the verdict.                      *)

Store(p, v) ==
  /\ verdict' = [verdict EXCEPT ![p] = v]
  /\ stale' = [stale EXCEPT ![p] = FALSE]

Hangup(p, c) == call' = [call EXCEPT ![p][c] = Idle]
Ask(p, c, op, k) ==
  call' = [call EXCEPT ![p][c] = [op |-> op, key |-> k, ans |-> "waiting"]]

(* A verified answer ends the suspicion, whatever it says.                 *)
Trust(p) == flag' = [flag EXCEPT ![p] = FALSE]
Suspect(p) == flag' = [flag EXCEPT ![p] = TRUE]

(* _state_from_data() of a success: the cache is written, the app opens.   *)
Accept(p) == cache' = "good" /\ Store(p, "online")

(* Fault: a refused key keeps its cache and its verdict.                   *)
RefuseNothing(p) == UNCHANGED <<cache, verdict, stale>>

(* A status of REJECT_STATUSES.                                            *)
Refuse(p) == cache' = "none" /\ Store(p, "locked")

(* _state_from_cache(): the decision without the server.                   *)
FromCache(p) ==
  \/ cache = "none" /\ Store(p, "locked") /\ UNCHANGED <<cache, flag>>
  \/ /\ cache # "none" /\ clock = "behind"
     /\ Store(p, "locked") /\ Suspect(p) /\ UNCHANGED cache
  \/ /\ cache = "expired" /\ clock = "right"
     /\ Refuse(p) /\ UNCHANGED flag
  \/ /\ cache = "overdue" /\ clock = "right"
     /\ Store(p, "locked") /\ UNCHANGED <<cache, flag>>
  \/ /\ cache = "good" /\ clock = "right"
     /\ Store(p, "cached") /\ UNCHANGED <<cache, flag>>

-----------------------------------------------------------------------------
(* refresh_state(), which runs under _refresh_lock.                        *)

(* The key is loaded; without one the cache goes and the app is locked.    *)
BeginRefresh(p) ==
  /\ call[p]["refresh"] = Idle
  /\ \/ /\ keyFile = NoKey
        /\ Refuse(p)
        /\ UNCHANGED call
     \/ /\ keyFile # NoKey
        /\ Ask(p, "refresh", "verify", keyFile)
        /\ UNCHANGED <<cache, verdict, stale>>
  /\ UNCHANGED <<outside, keyFile, flag>>

(* No answer after the retries, or a status that is about the server       *)
(* itself: the cache decides.                                              *)
RefreshUnanswered(p) ==
  /\ call[p]["refresh"] # Idle
  /\ FromCache(p)
  /\ Hangup(p, "refresh")
  /\ UNCHANGED <<outside, keyFile>>

(* SignatureError: what came back does not verify.                         *)
RefreshGarbled(p) ==
  /\ call[p]["refresh"] # Idle
  /\ Refuse(p) /\ Suspect(p)
  /\ Hangup(p, "refresh")
  /\ UNCHANGED <<outside, keyFile>>

EndRefresh(p) ==
  LET c == call[p]["refresh"] IN
  /\ c # Idle
  /\ Trust(p)
  /\ \/ c.ans = "ok" /\ Accept(p) /\ Hangup(p, "refresh")
     \/ c.ans = "refused" /\ Refuse(p) /\ Hangup(p, "refresh")
     \/ c.ans = "limit" /\ Store(p, "locked") /\ Hangup(p, "refresh")
        /\ UNCHANGED cache
     \/ c.ans = "free" /\ Ask(p, "refresh", "activate", c.key)
        /\ UNCHANGED <<cache, verdict, stale>>
  /\ UNCHANGED <<outside, keyFile>>

-----------------------------------------------------------------------------
(* activate_with_key() and deactivate_current_device().                    *)

BeginActivate(p, k) ==
  /\ call[p]["form"] = Idle
  /\ Ask(p, "form", "verify", k)
  /\ UNCHANGED <<outside, files, verdict, stale, flag>>

BeginDeactivate(p) ==
  /\ call[p]["form"] = Idle
  /\ keyFile # NoKey
  /\ Ask(p, "form", "deactivate", keyFile)
  /\ UNCHANGED <<outside, files, verdict, stale, flag>>

(* A key that is not accepted locks the app, the stored key stays.  A      *)
(* status about the server itself counts as not accepted.                  *)
EndActivate(p) ==
  LET c == call[p]["form"] IN
  /\ c # Idle /\ c.op # "deactivate"
  /\ \/ /\ c.ans = "ok"
        /\ keyFile' = c.key /\ Accept(p) /\ Trust(p) /\ Hangup(p, "form")
     \/ /\ c.ans = "free"
        /\ Ask(p, "form", "activate", c.key) /\ Trust(p)
        /\ UNCHANGED <<files, verdict, stale>>
     \/ /\ c.ans \notin {"ok", "free"}
        /\ Store(p, "locked") /\ Trust(p) /\ Hangup(p, "form")
        /\ UNCHANGED files
  /\ UNCHANGED outside

EndDeactivate(p) ==
  LET c == call[p]["form"] IN
  /\ c # Idle /\ c.op = "deactivate" /\ c.ans = "ok"
  /\ keyFile' = NoKey /\ Refuse(p) /\ Trust(p)
  /\ Hangup(p, "form")
  /\ UNCHANGED outside

-----------------------------------------------------------------------------
(* One round of _heartbeat_loop().                                         *)

BeginHeartbeat(p) ==
  /\ call[p]["heartbeat"] = Idle
  /\ beat \in {Nobody, p}
  /\ beat' = p
  /\ IF keyFile = NoKey THEN UNCHANGED call
     ELSE Ask(p, "heartbeat", "verify", keyFile)
  /\ UNCHANGED <<server, clock, files, verdict, stale, flag>>

EndHeartbeat(p) ==
  LET c == call[p]["heartbeat"] IN
  /\ c # Idle
  /\ Trust(p)
  /\ \/ c.ans = "ok" /\ Accept(p)
     \/ c.ans \in {"refused", "free"} /\ Refuse(p)
  /\ Hangup(p, "heartbeat")
  /\ UNCHANGED <<outside, keyFile>>

(* The form and the heartbeat change nothing when no answer comes, and     *)
(* only raise the flag when it does not verify.                            *)
Unanswered(p, c) ==
  /\ call[p][c] # Idle
  /\ Hangup(p, c)
  /\ UNCHANGED flag \/ Suspect(p)
  /\ UNCHANGED <<outside, files, verdict, stale>>

-----------------------------------------------------------------------------
(* get_state(), which every request calls.                                 *)

(* Fault: only an open verdict is checked again.                           *)
OpenIsStale(p) == stale[p] /\ Open(p)

NeedsRevalidation(p) == stale[p]

(* The first request of a process with a key decides from the cache and    *)
(* starts a refresh in the background, unless the startup worker has one.  *)
FirstState(p) ==
  /\ verdict[p] = "unknown"
  /\ keyFile # NoKey
  /\ FromCache(p)
  /\ IF call[p]["refresh"] # Idle THEN UNCHANGED call
     ELSE Ask(p, "refresh", "verify", keyFile)
  /\ UNCHANGED <<outside, keyFile>>

(* A stale verdict, or none, starts one background refresh.                *)
Revalidate(p) ==
  /\ NeedsRevalidation(p) \/ verdict[p] = "unknown"
  /\ BeginRefresh(p)

(* A flag that stands for TAMPER_LOCK_DELAY_SECONDS closes an open app.    *)
LockFlagged(p) ==
  /\ Open(p) /\ flag[p]
  /\ Store(p, "locked")
  /\ UNCHANGED <<outside, files, flag, call>>

-----------------------------------------------------------------------------
(* The server and the passing of time.                                     *)

(* The server's answer to a call, from what it holds at this moment; an    *)
(* activation may find every seat of the license taken.                    *)
Answer(p, c) ==
  LET x == call[p][c]
      Say(a) == call' = [call EXCEPT ![p][c].ans = a]
      Hold(s) == server' = [server EXCEPT ![x.key] = s] IN
  /\ x # Idle /\ x.ans = "waiting"
  /\ \/ /\ server[x.key] = "revoked" /\ Say("refused") /\ UNCHANGED server
     \/ /\ server[x.key] = "active" /\ x.op # "deactivate"
        /\ Say("ok") /\ UNCHANGED server
     \/ /\ server[x.key] = "free" /\ x.op = "verify"
        /\ Say("free") /\ UNCHANGED server
     \/ /\ server[x.key] = "free" /\ x.op = "activate"
        /\ Say("ok") /\ Hold("active")
     \/ /\ server[x.key] = "free" /\ x.op = "activate"
        /\ Say("limit") /\ UNCHANGED server
     \/ /\ server[x.key] # "revoked" /\ x.op = "deactivate"
        /\ Say("ok") /\ Hold("free")
  /\ UNCHANGED <<files, clock, beat, verdict, stale, flag>>

(* The vendor ends a license or restores it.                               *)
Decide(k) ==
  /\ \/ server[k] # "revoked" /\ server' = [server EXCEPT ![k] = "revoked"]
     \/ server[k] = "revoked" /\ server' = [server EXCEPT ![k] = "free"]
  /\ UNCHANGED <<files, clock, beat, verdict, stale, flag, call>>

Age(p) ==
  /\ verdict[p] # "unknown"
  /\ ~stale[p] /\ stale' = [stale EXCEPT ![p] = TRUE]
  /\ UNCHANGED <<outside, files, verdict, flag, call>>

CacheAges ==
  /\ \/ cache = "good" /\ cache' \in {"overdue", "expired"}
     \/ cache = "overdue" /\ cache' = "expired"
  /\ UNCHANGED <<outside, keyFile, verdict, stale, flag, call>>

SetClock ==
  /\ clock' = IF clock = "right" THEN "behind" ELSE "right"
  /\ UNCHANGED <<server, beat, files, verdict, stale, flag, call>>

(* heartbeat.lock is older than HEARTBEAT_LOCK_TTL.                        *)
BeatExpires ==
  /\ beat # Nobody /\ beat' = Nobody
  /\ UNCHANGED <<server, clock, files, verdict, stale, flag, call>>

(* A process stops and starts again: threads and verdict are gone.  A stop *)
(* inside save_cache(), which truncates the file first, empties the cache; *)
(* one after save_license_key() leaves the new key with the old cache.     *)
Restart(p) ==
  /\ verdict[p] # "unknown"
  /\ verdict' = [verdict EXCEPT ![p] = "unknown"]
  /\ stale' = [stale EXCEPT ![p] = FALSE]
  /\ flag' = [flag EXCEPT ![p] = FALSE]
  /\ call' = [call EXCEPT ![p] = [c \in Callers |-> Idle]]
  /\ LET applying(c) == call[p][c] # Idle /\ call[p][c].ans = "ok"
         newKey == applying("form") /\ call[p]["form"].op # "deactivate" IN
     \/ UNCHANGED files
     \/ \E c \in {"refresh", "heartbeat"} : applying(c)
        /\ cache' = "none" /\ UNCHANGED keyFile
     \/ newKey /\ keyFile' = call[p]["form"].key /\ cache' \in {cache, "none"}
     \/ applying("form") /\ ~newKey /\ cache' = "none" /\ UNCHANGED keyFile
  /\ UNCHANGED outside

-----------------------------------------------------------------------------
ProcessStep(p) ==
  \/ BeginRefresh(p) \/ EndRefresh(p)
  \/ RefreshUnanswered(p) \/ RefreshGarbled(p)
  \/ \E k \in Keys : BeginActivate(p, k)
  \/ EndActivate(p) \/ BeginDeactivate(p) \/ EndDeactivate(p)
  \/ BeginHeartbeat(p) \/ EndHeartbeat(p)
  \/ \E c \in {"form", "heartbeat"} : Unanswered(p, c)
  \/ FirstState(p) \/ Revalidate(p) \/ LockFlagged(p)
  \/ \E c \in Callers : Answer(p, c)
  \/ Age(p) \/ Restart(p)

Next ==
  \/ \E p \in Procs : ProcessStep(p)
  \/ \E k \in Keys : Decide(k)
  \/ CacheAges \/ SetClock \/ BeatExpires

(* Time passes, a process that is asked again and again starts the refresh *)
(* that is due, and a started exchange ends, _call() being bounded by its  *)
(* timeouts.  Of starts and refreshes without end some get that far and    *)
(* are answered.                                                           *)
Fairness ==
  /\ WF_vars(CacheAges)
  /\ \A p \in Procs :
       /\ WF_vars(Age(p))
       /\ SF_vars(Revalidate(p))
       /\ WF_vars(EndRefresh(p))
       /\ WF_vars(RefreshUnanswered(p))
       /\ SF_vars(Answer(p, "refresh"))
       /\ SF_vars(EndRefresh(p))

Spec == Init /\ [][Next]_vars /\ Fairness
-----------------------------------------------------------------------------
(* Properties.                                                             *)

(* Every variable keeps its type.                                          *)
TypeOK ==
  /\ server \in [Keys -> Standing]
  /\ keyFile \in Keys \cup {NoKey}
  /\ cache \in CacheStates
  /\ clock \in {"right", "behind"}
  /\ beat \in Procs \cup {Nobody}
  /\ verdict \in [Procs -> Verdicts]
  /\ stale \in [Procs -> BOOLEAN] /\ flag \in [Procs -> BOOLEAN]
  /\ call \in [Procs -> [Callers -> Exchange]]

(* Once no key is stored or the vendor has ended the license for good,     *)
(* every process ends up locked for good, although answers given earlier   *)
(* may still be applied, the cache still opens the app offline and the     *)
(* server may be out of reach from then on.                                *)
ClosesForGood ==
  \A p \in Procs :
    <>[](keyFile = NoKey \/ server[keyFile] = "revoked") => <>[](~Open(p))

(* A device whose stored key the server holds active is open again and     *)
(* again, whatever outage, refused form, restart or clock locked it before.*)
ComesBack ==
  \A p \in Procs :
    <>[](keyFile # NoKey /\ server[keyFile] = "active") => []<>Open(p)
=============================================================================
