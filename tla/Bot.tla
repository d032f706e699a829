---------------------------------- MODULE Bot ----------------------------------
(***************************************************************************)
(* The Bale bot: BalePollingManager and the message handler of             *)
(* utils/bot_services.py, its start and stop in routes/settings_panel.py   *)
(* and bootstrap/runtime.py, and the pages of routes/bot_panel.py.         *)
(*                                                                         *)
(* start() makes a new generation of threads: one that fetches messages    *)
(* from the server and hands them to workers through queues, by chat.  A   *)
(* generation that was told to stop goes on for a while, beside the next   *)
(* one.  Statistics, and the text of the answers, are left out.            *)
(***************************************************************************)
EXTENDS Integers, Sequences, FiniteSets

CONSTANTS
  Chats, Workers,
  WorkerOf,     \* WorkerOf[c]: the worker that hash(chat_id) chooses
  Kinds,        \* what a message may be: [is, phone]
  StudentPhones, \* phones that a student of the academy has
  NoPhone,
  MaxTokens,    \* bound: tokens, numbered as they are first used
  BatchLimit,   \* BATCH_LIMIT of one getUpdates
  FlushEvery,   \* BROADCAST_FLUSH_EVERY
  MaxStarts,    \* bound: generations
  MaxMessages,  \* bound: messages
  MaxEvents     \* bound: messages, starts, stops, crashes, clicks and failed
                \* last commits together

ASSUME ConstantsOK ==
  /\ WorkerOf \in [Chats -> Workers]
  /\ \A k \in Kinds : k.is \in {"contact", "forget", "ask"}
  /\ {BatchLimit, FlushEvery} \subseteq Nat \ {0}
  /\ {MaxTokens, MaxStarts, MaxMessages, MaxEvents} \subseteq Nat

VARIABLES
  sent,       \* messages sent to the bot, by update_id
  confirmed,  \* the server forgot the messages up to this one
  gen, token, \* the generation started last, and its token
  stop,       \* generations whose stop event is set
  fetch,      \* fetch[g]: the fetching thread
  queue,      \* queue[g][w]: what worker w has to do
  worker,     \* worker[g][w]: what it is doing
  user,       \* user[c]: the row of bot_users
  saved,      \* the token in system_settings
  cast,       \* a broadcast: its row and its thread
  events,
  last,       \* history: last[g][c], message of c handled last by g
  done, dropped \* history: messages handled, and thrown away at a stop

poller == <<gen, token, stop, fetch, queue, worker>>
history == <<last, done, dropped>>
vars == <<sent, confirmed, poller, user, cast, saved, events, history>>

Gens == 1..MaxStarts
NoToken == 0
Quit == 0     \* the None that _shutdown_workers() puts on every queue
ChatOf(m) == sent[m].chat
Body(m) == sent[m].body

Init ==
  /\ sent = <<>> /\ confirmed = 0
  /\ gen = 0 /\ token = NoToken /\ stop = {}
  /\ fetch = [g \in Gens |-> [at |-> "dead", offset |-> 0, batch |-> <<>>]]
  /\ queue = [g \in Gens |-> [w \in Workers |-> <<>>]]
  /\ worker = [g \in Gens |-> [w \in Workers |-> [at |-> "gone", id |-> Quit]]]
  /\ user = [c \in Chats |->
               [known |-> FALSE, phone |-> NoPhone, linked |-> FALSE, blocked |-> FALSE]]
  /\ cast = [status |-> "none", todo |-> {}, total |-> 0, good |-> 0, bad |-> 0,
             sent |-> 0, failed |-> 0]
  /\ saved = NoToken /\ events = 0
  /\ last = [g \in Gens |-> [c \in Chats |-> 0]]
  /\ done = {} /\ dropped = {}

-----------------------------------------------------------------------------
(* The server, and start() and stop().                                     *)

Event == events < MaxEvents /\ events' = events + 1

Send(c, k) ==
  /\ Event /\ Len(sent) < MaxMessages
  /\ sent' = Append(sent, [chat |-> c, body |-> k])
  /\ UNCHANGED <<confirmed, poller, user, cast, saved, history>>

Alive(g) == fetch[g].at # "dead"
Works(g, w) == worker[g][w].at # "gone"

Running(t) == token = t /\ gen # 0 /\ Alive(gen)

(* The threads of the next generation.                                     *)
Spawn(t) ==
  /\ gen < MaxStarts
  /\ gen' = gen + 1
  /\ token' = t
  /\ fetch' = [fetch EXCEPT ![gen + 1] = [@ EXCEPT !.at = "poll"]]
  /\ worker' = [worker EXCEPT ![gen + 1] =
                  [w \in Workers |-> [at |-> "get", id |-> Quit]]]
  /\ UNCHANGED queue

(* start(): a poller that runs with the same token is left alone.          *)
Start(t) ==
  /\ ~Running(t)
  /\ stop' = stop \cup (1..gen)
  /\ Spawn(t)

Stop ==
  /\ token' = NoToken
  /\ stop' = stop \cup (1..gen)
  /\ UNCHANGED <<gen, fetch, queue, worker>>

(* bale_config(): the token is stored; the poller starts with it if the    *)
(* server knows it.                                                        *)
SaveToken(t) ==
  /\ Event
  /\ t <= gen + 1 \/ t <= saved + 1
  /\ saved' = t
  /\ \/ t # NoToken /\ Start(t)
     \/ t # NoToken /\ t # saved /\ UNCHANGED poller
     \/ t = NoToken /\ token # NoToken /\ Stop
  /\ UNCHANGED <<sent, confirmed, user, cast, history>>

(* start_bale_polling() of the panel, and the one at boot.                 *)
StartPolling ==
  /\ Event
  /\ saved # NoToken /\ Start(saved)
  /\ UNCHANGED <<sent, confirmed, user, cast, saved, history>>

StopPolling ==
  /\ Event
  /\ token # NoToken /\ Stop
  /\ UNCHANGED <<sent, confirmed, user, cast, saved, history>>

-----------------------------------------------------------------------------
(* _fetch_loop().                                                          *)

Larger(a, b) == IF a > b THEN a ELSE b
Smaller(a, b) == IF a < b THEN a ELSE b

(* What getUpdates does at the server: it forgets what lies before the     *)
(* offset and answers with what is left.                                   *)
Forget(offset) == confirmed' = Larger(confirmed, offset - 1)

(* Fault: the offset is one too far.                                       *)
NextOffsetPast(g, batch) == Larger(fetch[g].offset, batch[Len(batch)] + 2)

NextOffset(g, batch) == Larger(fetch[g].offset, batch[Len(batch)] + 1)

Fetch(g) ==
  /\ fetch[g].at = "poll"
  /\ LET first == Larger(confirmed + 1, fetch[g].offset)
         size == Smaller(BatchLimit, Len(sent) + 1 - first)
         batch == [i \in 1..size |-> first + i - 1]
     IN /\ size > 0
        /\ fetch' = [fetch EXCEPT ![g] =
                       [at |-> "dispatch", batch |-> batch, offset |-> NextOffset(g, batch)]]
  /\ Forget(fetch[g].offset)
  /\ UNCHANGED <<sent, gen, token, stop, queue, worker, user, cast, saved, events, history>>

(* The top of the loop: a thread that was told to stop leaves it, wakes    *)
(* its workers and is dead.                                                *)
Loop(g, q) ==
  IF g \in stop
  THEN /\ fetch' = [fetch EXCEPT ![g] = [@ EXCEPT !.at = "dead", !.batch = <<>>]]
       /\ queue' = [queue EXCEPT ![g] =
                       [w \in Workers |-> IF Works(g, w) THEN Append(q[w], Quit) ELSE <<>>]]
  ELSE /\ fetch' = [fetch EXCEPT ![g] = [@ EXCEPT !.at = "poll", !.batch = <<>>]]
       /\ queue' = [queue EXCEPT ![g] = q]

(* Fault: the first error ends the thread.                                 *)
FetchDies(g) ==
  /\ fetch[g].at = "poll"
  /\ \/ Forget(fetch[g].offset)
     \/ UNCHANGED confirmed
  /\ fetch' = [fetch EXCEPT ![g].at = "dead"]
  /\ UNCHANGED <<sent, gen, token, stop, queue, worker, user, cast, saved, events, history>>

(* No message within the long poll, an answer that is lost, or no          *)
(* connection.                                                             *)
FetchNothing(g) ==
  /\ fetch[g].at = "poll"
  /\ \/ Forget(fetch[g].offset)
     \/ UNCHANGED confirmed
  /\ Loop(g, queue[g])
  /\ UNCHANGED <<sent, gen, token, stop, worker, user, cast, saved, events, history>>

(* A queue that nobody reads any more is as good as none.                  *)
HandTo(g, w, m) ==
  LET q == [queue[g] EXCEPT ![w] = IF Works(g, w) THEN Append(@, m) ELSE @]
  IN /\ dropped' = IF Works(g, w) THEN dropped ELSE dropped \cup {m}
     /\ IF Len(fetch[g].batch) = 1
        THEN Loop(g, q)
        ELSE /\ fetch' = [fetch EXCEPT ![g].batch = Tail(@)]
             /\ queue' = [queue EXCEPT ![g] = q]
     /\ UNCHANGED <<sent, confirmed, gen, token, stop, worker, user, cast, saved, events,
                    last, done>>

(* Fault: any worker will do.                                              *)
DispatchAnywhere(g) ==
  /\ fetch[g].at = "dispatch"
  /\ \E w \in Workers : HandTo(g, w, Head(fetch[g].batch))

(* _dispatch() of one message.                                             *)
Dispatch(g) ==
  /\ fetch[g].at = "dispatch"
  /\ LET m == Head(fetch[g].batch) IN HandTo(g, WorkerOf[ChatOf(m)], m)

-----------------------------------------------------------------------------
(* _worker_loop() and _handle_update().                                    *)

Entries(s) == {s[i] : i \in DOMAIN s} \ {Quit}

(* After a message.  A worker that was told to stop throws away what is    *)
(* left in its queue, q.                                                   *)
Turn(g, w, q) ==
  LET over == g \in stop
  IN /\ worker' = [worker EXCEPT ![g][w] =
                     [at |-> IF over THEN "gone" ELSE "get", id |-> Quit]]
     /\ queue' = [queue EXCEPT ![g][w] = IF over THEN <<>> ELSE q]
     /\ dropped' = dropped \cup (IF over THEN Entries(q) ELSE {})

(* The answer is sent, or fails: message m is over either way.             *)
Finish(g, w, m, q) ==
  /\ Turn(g, w, q)
  /\ done' = done \cup {m}
  /\ last' = [last EXCEPT ![g][ChatOf(m)] = m]

(* A phone that another chat has is refused.                               *)
Taken(c, phone) == \E d \in Chats \ {c} : user[d].phone = phone

(* The messages that change more than the log.                             *)
Writes(c, k) == k.is = "forget" \/ (k.is = "contact" /\ ~Taken(c, k.phone))

(* A worker takes a message, even if the stop event was set while it       *)
(* waited.  _ensure_bot_user() and the log row are one commit; then the    *)
(* phone of a contact is looked up.                                        *)
Take(g, w) ==
  /\ worker[g][w].at = "get" /\ queue[g][w] # <<>> /\ Head(queue[g][w]) # Quit
  /\ LET m == Head(queue[g][w])
         q == Tail(queue[g][w])
         c == ChatOf(m)
         k == Body(m)
     IN /\ user' = [user EXCEPT ![c].known = TRUE]
        /\ IF Writes(c, k)
           THEN /\ worker' = [worker EXCEPT ![g][w] = [at |-> "save", id |-> m]]
                /\ queue' = [queue EXCEPT ![g][w] = q]
                /\ UNCHANGED history
           ELSE Finish(g, w, m, q)
  /\ UNCHANGED <<sent, confirmed, gen, token, stop, fetch, cast, saved, events>>

(* Half a second with nothing in the queue, or the None that wakes it.     *)
Wake(g, w) ==
  /\ worker[g][w].at = "get" /\ g \in stop
  /\ Entries(queue[g][w]) = {}
  /\ Turn(g, w, <<>>)
  /\ UNCHANGED <<sent, confirmed, gen, token, stop, fetch, user, cast, saved, events, last,
                 done>>

(* The commit of a new phone, or of no phone.  It fails when the panel     *)
(* has deleted the row, and the error goes no further.                     *)
Save(g, w) ==
  /\ worker[g][w].at = "save"
  /\ LET m == worker[g][w].id
         c == ChatOf(m)
         p == Body(m).phone
     IN /\ \/ /\ user[c].known
              /\ user' = [user EXCEPT
                   ![c].phone = IF Body(m).is = "contact" THEN p ELSE NoPhone,
                   ![c].linked = Body(m).is = "contact" /\ (@ \/ p \in StudentPhones)]
           \/ ~user[c].known /\ UNCHANGED user
        /\ Finish(g, w, m, queue[g][w])
  /\ UNCHANGED <<sent, confirmed, gen, token, stop, fetch, cast, saved, events>>

-----------------------------------------------------------------------------
(* routes/bot_panel.py.                                                    *)

Panel(c, row) ==
  /\ Event
  /\ user[c].known
  /\ user' = [user EXCEPT ![c] = row]
  /\ UNCHANGED <<sent, confirmed, poller, cast, saved, history>>

ToggleBlock(c) == Panel(c, [user[c] EXCEPT !.blocked = ~@])
DeleteUser(c) ==
  Panel(c, [known |-> FALSE, phone |-> NoPhone, linked |-> FALSE, blocked |-> FALSE])
LinkStudent(c) == Panel(c, [user[c] EXCEPT !.linked = TRUE])

Target(c, type) ==
  /\ user[c].known /\ ~user[c].blocked
  /\ type = "verified" => user[c].phone # NoPhone \/ user[c].linked
  /\ type = "students" => user[c].linked

(* broadcast(): the row and the list of recipients; a thread does the rest. *)
Broadcast(type) ==
  LET recipients == {c \in Chats : Target(c, type)}
  IN /\ Event
     /\ cast.status = "none"
     /\ recipients # {}
     /\ cast' = [cast EXCEPT !.status = "sending", !.todo = recipients,
                             !.total = Cardinality(recipients)]
     /\ UNCHANGED <<sent, confirmed, poller, user, saved, history>>

(* Fault: a recipient that cannot be reached ends the thread.              *)
CastSendFragile(c, ok) ==
  /\ cast.status = "sending" /\ c \in cast.todo
  /\ cast' = [cast EXCEPT !.todo = IF ok THEN @ \ {c} ELSE {},
                          !.good = @ + 1]
  /\ UNCHANGED <<sent, confirmed, poller, user, saved, events, history>>

(* One recipient of _run_broadcast(); the counts reach the row now and     *)
(* then, or not: a commit that fails is rolled back.                       *)
CastSend(c, ok) ==
  /\ cast.status = "sending" /\ c \in cast.todo
  /\ LET good == cast.good + (IF ok THEN 1 ELSE 0)
         bad == cast.bad + (IF ok THEN 0 ELSE 1)
         next == [cast EXCEPT !.todo = @ \ {c}, !.good = good, !.bad = bad]
     IN \/ cast' = next
        \/ /\ (good + bad) % FlushEvery = 0
           /\ cast' = [next EXCEPT !.sent = good, !.failed = bad]
  /\ UNCHANGED <<sent, confirmed, poller, user, saved, events, history>>

CastEnd ==
  /\ cast.status = "sending" /\ cast.todo = {}
  /\ cast' = [cast EXCEPT !.status = "completed", !.sent = cast.good, !.failed = cast.bad]
  /\ UNCHANGED <<sent, confirmed, poller, user, saved, events, history>>

(* Nothing catches the failure of the last commit: the thread is gone, and *)
(* the row says "sending" from now on.                                     *)
CastEndFails ==
  /\ Event
  /\ cast.status = "sending" /\ cast.todo = {}
  /\ cast' = [cast EXCEPT !.status = "unsaved"]
  /\ UNCHANGED <<sent, confirmed, poller, user, saved, history>>

-----------------------------------------------------------------------------

(* Messages a generation has fetched and not finished.                     *)
Held(g) ==
  Entries(fetch[g].batch) \cup
  UNION {Entries(queue[g][w]) \cup ({worker[g][w].id} \ {Quit}) : w \in Workers}

(* The process dies: its threads are gone with what they held, and a       *)
(* broadcast is not taken up again.                                        *)
Crash ==
  /\ Event
  /\ token' = NoToken
  /\ stop' = stop \cup (1..gen)
  /\ fetch' = [g \in Gens |-> [fetch[g] EXCEPT !.at = "dead", !.batch = <<>>]]
  /\ queue' = [g \in Gens |-> [w \in Workers |-> <<>>]]
  /\ worker' = [g \in Gens |-> [w \in Workers |-> [at |-> "gone", id |-> Quit]]]
  /\ dropped' = dropped \cup UNION {Held(g) : g \in Gens}
  /\ cast' = IF cast.status = "sending" THEN [cast EXCEPT !.status = "lost"] ELSE cast
  /\ UNCHANGED <<sent, confirmed, gen, user, saved, last, done>>

Thread(g) ==
  \/ Fetch(g) \/ FetchNothing(g) \/ Dispatch(g)
  \/ \E w \in Workers : Take(g, w) \/ Wake(g, w) \/ Save(g, w)

Next ==
  \/ \E c \in Chats, k \in Kinds : Send(c, k)
  \/ \E t \in 0..MaxTokens : SaveToken(t)
  \/ StartPolling \/ StopPolling \/ Crash
  \/ \E g \in Gens : Thread(g)
  \/ \E c \in Chats : ToggleBlock(c) \/ DeleteUser(c) \/ LinkStudent(c)
  \/ \E type \in {"all", "verified", "students"} : Broadcast(type)
  \/ \E c \in Chats, ok \in BOOLEAN : CastSend(c, ok)
  \/ CastEnd \/ CastEndFails

(* A live thread goes on; of endless calls to the server one succeeds.     *)
Fairness ==
  /\ \A g \in Gens :
       /\ WF_vars(Dispatch(g)) /\ SF_vars(Fetch(g))
       /\ WF_vars(Fetch(g) \/ FetchNothing(g))
       /\ \A w \in Workers : WF_vars(Take(g, w) \/ Wake(g, w) \/ Save(g, w))
  /\ WF_vars(CastEnd \/ \E c \in Chats, ok \in BOOLEAN : CastSend(c, ok))

Spec == Init /\ [][Next]_vars /\ Fairness

-----------------------------------------------------------------------------
(* Properties.                                                             *)

(* A generation handles the messages of one chat in the order they were    *)
(* sent and each at most once, whatever its other workers do.              *)
InOrderOnce ==
  \A g \in Gens : \A m \in Held(g) : m > last[g][ChatOf(m)]

(* The server forgets a message only when it has reached a worker: it was  *)
(* handled, is on its way, or was thrown away when its generation stopped. *)
NothingLost ==
  (1..confirmed) \subseteq done \cup dropped \cup UNION {Held(g) : g \in Gens}

(* As long as nobody stops the bot every message is handled in the end,    *)
(* after failed calls, and after a restart that asks for it again.         *)
EveryAnswered ==
  \A m \in 1..MaxMessages :
    (token # NoToken /\ m <= Len(sent)) ~> (m \in done \cup dropped \/ token = NoToken)

(* Unless the process dies a broadcast goes on to the last recipient,      *)
(* whatever fails on the way, and its row ends with every one counted; if  *)
(* the last commit fails, which the code does not catch, all have had      *)
(* their message and the row never says so.                                *)
CastFinishes ==
  (cast.status = "sending") ~>
    \/ cast.status = "lost"
    \/ cast.status = "unsaved" /\ cast.good + cast.bad = cast.total
    \/ cast.status = "completed" /\ cast.sent + cast.failed = cast.total
=============================================================================
