------------------------------- MODULE BotProofs -------------------------------
(***************************************************************************)
(* Theorems about Bot, for any number of chats, workers, generations of    *)
(* the poller and messages, and for any batch size.                        *)
(***************************************************************************)
EXTENDS Bot, SequenceTheorems, TLAPS

(* Messages on a queue in the order they were sent.  The None that wakes a *)
(* worker may stand among them.                                            *)
Increasing(s) ==
  \A i, j \in 1..Len(s) : i < j /\ s[i] # Quit /\ s[j] # Quit => s[i] < s[j]

Busy(b, w) == {b[w].id} \ {Quit}

(* What one generation looks like: the thread f that fetches, the queues   *)
(* q, the workers b and the messages l it handled last.                    *)
Typed(f, q, b, l) ==
  /\ f \in [at : {"dead", "poll", "dispatch"}, offset : Nat, batch : Seq(Nat)]
  /\ q \in [Workers -> Seq(Nat)]
  /\ b \in [Workers -> [at : {"gone", "get", "save"}, id : Nat]]
  /\ l \in [Chats -> Nat]

(* A batch only while it is handed out, a message only while it is saved,  *)
(* and nothing on the queue of a worker that is gone.                      *)
Tidy(f, q, b) ==
  /\ f.at = "dispatch" <=> f.batch # <<>>
  /\ \A i \in 1..Len(f.batch) : f.batch[i] # Quit
  /\ \A w \in Workers : /\ b[w].at = "save" <=> b[w].id # Quit
                        /\ b[w].at = "gone" => q[w] = <<>>

(* Of the messages s, those in the batch, E, are newer than what the       *)
(* workers have and older than the next to ask for, next.                  *)
BatchOrdered(s, next, E, l) ==
  /\ \A c \in Chats : l[c] = 0 \/ l[c] < next
  /\ \A m \in E : /\ m \in 1..Len(s) /\ m < next
                  /\ \A c \in Chats : l[c] < m

(* Those of a worker, on its queue p or in its hands, H, are of its own    *)
(* chats and newer than the last it handled; the one it is at is older     *)
(* than those on its queue.                                                *)
LineOrdered(s, next, E, l, w, p, H) ==
  /\ Increasing(p)
  /\ \A m \in Entries(p) \cup H :
       /\ m \in 1..Len(s) /\ m < next
       /\ WorkerOf[s[m].chat] = w
       /\ l[s[m].chat] < m
       /\ \A n \in E : m < n
  /\ \A m \in H, n \in Entries(p) : m < n

Sound(s, f, q, b, l) ==
  /\ Typed(f, q, b, l)
  /\ Tidy(f, q, b)
  /\ Increasing(f.batch)
  /\ BatchOrdered(s, f.offset, Entries(f.batch), l)
  /\ \A w \in Workers :
       LineOrdered(s, f.offset, Entries(f.batch), l, w, q[w], Busy(b, w))

Has(f, q, b) == Entries(f.batch) \cup UNION {Entries(q[w]) \cup Busy(b, w) : w \in Workers}

(* Where a message is that some generation has asked for.                  *)
Accounted == done \cup dropped \cup UNION {Held(g) : g \in Gens}

TablesOK ==
  /\ sent \in Seq([chat : Chats, body : Kinds])
  /\ confirmed \in Nat /\ gen \in 0..MaxStarts
  /\ fetch \in [Gens -> [at : {"dead", "poll", "dispatch"}, offset : Nat,
                         batch : Seq(Nat)]]
  /\ queue \in [Gens -> [Workers -> Seq(Nat)]]
  /\ worker \in [Gens -> [Workers -> [at : {"gone", "get", "save"}, id : Nat]]]
  /\ last \in [Gens -> [Chats -> Nat]]

Orderly == \A g \in Gens : Sound(sent, fetch[g], queue[g], worker[g], last[g])

(* An offset passes only messages that are accounted for.                  *)
NothingSkipped == \A g \in Gens : (1..(fetch[g].offset - 1)) \subseteq Accounted

(* Generations that were not started have no threads.                      *)
Unborn ==
  \A g \in Gens : g > gen =>
    /\ fetch[g].at = "dead"
    /\ \A w \in Workers : worker[g][w].at = "gone"

IInv == TablesOK /\ Orderly /\ Unborn /\ NothingSkipped /\ NothingLost

-----------------------------------------------------------------------------
(* Sequences of messages.                                                  *)

LEMMA EntriesOf ==
  ASSUME NEW s \in Seq(Nat), NEW m
  PROVE  m \in Entries(s) <=> m # Quit /\ \E i \in 1..Len(s) : m = s[i]
  BY DEF Entries

LEMMA EntriesEmpty == Entries(<<>>) = {} /\ Increasing(<<>>)
  BY DEF Entries, Increasing

LEMMA TailEntries ==
  ASSUME NEW s \in Seq(Nat), s # <<>>
  PROVE  /\ Tail(s) \in Seq(Nat) /\ Head(s) \in Nat
         /\ Entries(s) = ({Head(s)} \ {Quit}) \cup Entries(Tail(s))
         /\ Increasing(s) =>
              /\ Increasing(Tail(s))
              /\ Head(s) # Quit => \A m \in Entries(Tail(s)) : Head(s) < m
  <1> DEFINE t == Tail(s)
             h == Head(s)
  <1>1. /\ Len(s) \in Nat \ {0} /\ h = s[1] /\ h \in Nat
        /\ t \in Seq(Nat) /\ Len(t) = Len(s) - 1
        /\ \A i \in 1..Len(t) : t[i] = s[i + 1]
    BY HeadTailProperties, EmptySeq
  <1> HIDE DEF t, h
  <1>2. 1 \in 1..Len(s) /\ \A i \in 1..Len(t) : i + 1 \in 1..Len(s)
    BY <1>1
  <1>3. \A i \in 1..Len(s) : i = 1 \/ (i - 1 \in 1..Len(t) /\ t[i - 1] = s[i])
    BY <1>1
  <1>4. \A m : m \in Entries(s) <=> m \in ({h} \ {Quit}) \cup Entries(t)
    <2>1. \A m : m \in Entries(s) <=> m # Quit /\ \E i \in 1..Len(s) : m = s[i]
      BY EntriesOf
    <2>2. \A m : m \in Entries(t) <=> m # Quit /\ \E i \in 1..Len(t) : m = t[i]
      BY <1>1, EntriesOf
    <2>3. ASSUME NEW m, m \in Entries(s)
          PROVE  m \in ({h} \ {Quit}) \cup Entries(t)
      <3>1. PICK i \in 1..Len(s) : m = s[i]
        BY <2>1, <2>3
      <3>2. i = 1 => m = h
        BY <1>1, <3>1
      <3> QED BY <1>3, <2>1, <2>2, <2>3, <3>1, <3>2
    <2>4. ASSUME NEW m, m \in Entries(t)
          PROVE  m \in Entries(s)
      <3>1. PICK i \in 1..Len(t) : m = t[i] /\ m # Quit
        BY <2>2, <2>4
      <3> QED BY <1>1, <1>2, <2>1, <3>1
    <2>5. h # Quit => h \in Entries(s)
      BY <1>1, <1>2, <2>1
    <2> QED BY <2>3, <2>4, <2>5
  <1>5. Entries(s) = ({h} \ {Quit}) \cup Entries(t)
    BY <1>4
  <1>6. ASSUME Increasing(s)
        PROVE  Increasing(t)
    <2>1. ASSUME NEW i \in 1..Len(t), NEW j \in 1..Len(t), i < j, t[i] # Quit, t[j] # Quit
          PROVE  t[i] < t[j]
      <3>1. i + 1 < j + 1
        BY <1>1, <2>1
      <3> QED BY <1>1, <1>2, <1>6, <2>1, <3>1 DEF Increasing
    <2> QED BY <2>1 DEF Increasing
  <1>7. ASSUME Increasing(s), h # Quit, NEW m \in Entries(t)
        PROVE  h < m
    <2>1. PICK i \in 1..Len(t) : m = t[i] /\ m # Quit
      BY <1>1, <1>7, EntriesOf
    <2>2. 1 < i + 1 /\ m = s[i + 1]
      BY <1>1, <2>1
    <2> QED BY <1>1, <1>2, <1>7, <2>1, <2>2 DEF Increasing
  <1> QED BY <1>1, <1>5, <1>6, <1>7 DEF t, h

LEMMA TailLength ==
  ASSUME NEW s \in Seq(Nat), s # <<>>
  PROVE  Tail(s) = <<>> <=> Len(s) = 1
  <1> DEFINE t == Tail(s)
  <1>1. /\ Len(s) \in Nat \ {0} /\ t \in Seq(Nat) /\ Len(t) = Len(s) - 1
    BY HeadTailProperties, EmptySeq
  <1> HIDE DEF t
  <1>2. t = <<>> <=> Len(t) = 0
    BY <1>1, EmptySeq
  <1>3. t = <<>> <=> Len(s) = 1
    BY <1>1, <1>2
  <1> QED BY <1>3 DEF t

LEMMA AppendEntries ==
  ASSUME NEW s \in Seq(Nat), NEW m \in Nat
  PROVE  /\ Append(s, m) \in Seq(Nat) /\ Append(s, m) # <<>>
         /\ Entries(Append(s, m)) = Entries(s) \cup ({m} \ {Quit})
         /\ Increasing(s) /\ (\A n \in Entries(s) : n < m) => Increasing(Append(s, m))
         /\ Increasing(s) /\ m = Quit => Increasing(Append(s, m))
  <1> DEFINE t == Append(s, m)
  <1>1. /\ Len(s) \in Nat /\ t \in Seq(Nat) /\ Len(t) = Len(s) + 1 /\ t # <<>>
        /\ t[Len(t)] = m /\ \A i \in 1..Len(s) : t[i] = s[i]
    BY AppendProperties, LenProperties, EmptySeq
  <1>2. \A i \in 1..Len(t) : i = Len(t) \/ i \in 1..Len(s)
    BY <1>1
  <1>3. Len(t) \in 1..Len(t) /\ \A i \in 1..Len(s) : i \in 1..Len(t)
    BY <1>1
  <1> HIDE DEF t
  <1>4. \A n : n \in Entries(t) <=> n \in Entries(s) \cup ({m} \ {Quit})
    BY <1>1, <1>2, <1>3, EntriesOf, SMTT(20)
  <1>5. ASSUME Increasing(s), (\A n \in Entries(s) : n < m) \/ m = Quit
        PROVE  Increasing(t)
    <2>1. ASSUME NEW i \in 1..Len(t), NEW j \in 1..Len(t), i < j, t[i] # Quit, t[j] # Quit
          PROVE  t[i] < t[j]
      <3>1. i \in 1..Len(s) /\ t[i] = s[i] /\ s[i] \in Entries(s)
        BY <1>1, <1>2, <2>1, EntriesOf
      <3>2. CASE j = Len(t)
        BY <1>1, <1>5, <2>1, <3>1, <3>2
      <3>3. CASE j \in 1..Len(s)
        BY <1>1, <1>5, <2>1, <3>1, <3>3 DEF Increasing
      <3> QED BY <1>2, <3>2, <3>3
    <2> QED BY <2>1 DEF Increasing
  <1>6. Entries(t) = Entries(s) \cup ({m} \ {Quit})
    BY <1>4
  <1> QED BY <1>1, <1>5, <1>6 DEF t

LEMMA BatchEntries ==
  ASSUME NEW first \in Nat \ {0}, NEW size \in Nat \ {0}
  PROVE  LET batch == [i \in 1..size |-> first + i - 1]
         IN  /\ batch \in Seq(Nat) /\ batch # <<>> /\ Len(batch) = size
             /\ batch[Len(batch)] = first + size - 1
             /\ \A i \in 1..Len(batch) : batch[i] # Quit
             /\ Increasing(batch)
             /\ Entries(batch) = first..(first + size - 1)
  <1> DEFINE batch == [i \in 1..size |-> first + i - 1]
  <1>1. batch \in Seq(Nat) /\ Len(batch) = size
    <2>1. batch \in [1..size -> Nat]
      OBVIOUS
    <2>2. DOMAIN batch = 1..size
      OBVIOUS
    <2> HIDE DEF batch
    <2> QED BY <2>1, <2>2, SeqDef, LenProperties
  <1>2. \A i \in 1..size : batch[i] = first + i - 1
    OBVIOUS
  <1> HIDE DEF batch
  <1>3. batch # <<>>
    BY <1>1, EmptySeq
  <1>4. Increasing(batch)
    BY <1>1, <1>2 DEF Increasing
  <1>5. \A m : m \in Entries(batch) <=> m \in first..(first + size - 1)
    <2>1. \A m : m \in Entries(batch) <=> m # Quit /\ \E i \in 1..size : m = first + i - 1
      <3>1. \A m : m \in Entries(batch) <=> m # Quit /\ \E i \in 1..Len(batch) : m = batch[i]
        BY <1>1, EntriesOf
      <3>2. \A m : (\E i \in 1..Len(batch) : m = batch[i]) <=> (\E i \in 1..size : m = first + i - 1)
        BY <1>1, <1>2
      <3> QED BY <3>1, <3>2
    <2>2. ASSUME NEW m \in first..(first + size - 1)
          PROVE  m # Quit /\ \E i \in 1..size : m = first + i - 1
      <3> DEFINE i == m - first + 1
      <3>1. i \in 1..size /\ m = first + i - 1 /\ m # Quit
        BY DEF Quit
      <3> HIDE DEF i
      <3> QED BY <3>1
    <2>3. \A i \in 1..size : first + i - 1 \in first..(first + size - 1)
      OBVIOUS
    <2>4. ASSUME NEW m, m \in Entries(batch)
          PROVE  m \in first..(first + size - 1)
      BY <2>1, <2>3, <2>4
    <2> QED BY <2>1, <2>2, <2>4
  <1>6. Entries(batch) = first..(first + size - 1)
    BY <1>5
  <1>7. batch[Len(batch)] = first + size - 1 /\ \A i \in 1..Len(batch) : batch[i] # Quit
    BY <1>1, <1>2 DEF Quit
  <1> QED BY <1>1, <1>3, <1>4, <1>6, <1>7 DEF batch

-----------------------------------------------------------------------------
(* One generation at a time: what its steps leave of Sound.                *)

Messages(s) == Len(s) \in Nat /\ \A m \in 1..Len(s) : s[m].chat \in Chats

LEMMA LineShrinks ==
  ASSUME NEW s, NEW next, NEW E, NEW l, NEW w, NEW p, NEW H,
         LineOrdered(s, next, E, l, w, p, H),
         NEW p2, Increasing(p2), Entries(p2) \subseteq Entries(p),
         NEW E2 \in SUBSET E, NEW H2 \in SUBSET H
  PROVE  LineOrdered(s, next, E2, l, w, p2, H2)
  BY DEF LineOrdered

(* The workers' queues are woken by None, or thrown away.                  *)
LEMMA LineWoken ==
  ASSUME NEW s, NEW next, NEW E, NEW l, NEW w, NEW p \in Seq(Nat), NEW H,
         LineOrdered(s, next, E, l, w, p, H)
  PROVE  /\ LineOrdered(s, next, E, l, w, Append(p, Quit), H)
         /\ LineOrdered(s, next, E, l, w, <<>>, H)
         /\ LineOrdered(s, next, E, l, w, <<>>, {})
  <1>1. Increasing(p)
    BY DEF LineOrdered
  <1>2. Entries(Append(p, Quit)) = Entries(p) /\ Increasing(Append(p, Quit))
    BY <1>1, AppendEntries DEF Quit
  <1>3. Entries(<<>>) = {} /\ Increasing(<<>>)
    BY EntriesEmpty
  <1> QED BY <1>2, <1>3, LineShrinks

LEMMA LineGrows ==
  ASSUME NEW s, Messages(s), NEW next \in Nat, NEW E, NEW l \in [Chats -> Nat], NEW w,
         NEW p \in Seq(Nat), NEW H,
         LineOrdered(s, next, E, l, w, p, H), BatchOrdered(s, next, E, l),
         NEW m \in E, WorkerOf[s[m].chat] = w,
         NEW E2 \in SUBSET E, \A n \in E2 : m < n
  PROVE  LineOrdered(s, next, E2, l, w, Append(p, m), H)
  <1>1. m \in 1..Len(s) /\ m \in Nat /\ m # Quit /\ m < next /\ l[s[m].chat] < m
    BY DEF BatchOrdered, Messages, Quit
  <1>2. /\ Increasing(p)
        /\ \A k \in Entries(p) \cup H :
             /\ k \in 1..Len(s) /\ k < next /\ WorkerOf[s[k].chat] = w
             /\ l[s[k].chat] < k /\ \A n \in E : k < n
        /\ \A k \in H, n \in Entries(p) : k < n
    BY DEF LineOrdered
  <1>3. Increasing(Append(p, m)) /\ Entries(Append(p, m)) = Entries(p) \cup {m}
    BY <1>1, <1>2, AppendEntries
  <1> QED BY <1>1, <1>2, <1>3 DEF LineOrdered

LEMMA FetchSound ==
  ASSUME NEW s, Messages(s), NEW f, NEW q, NEW b, NEW l, Sound(s, f, q, b, l),
         NEW first \in Nat \ {0}, NEW size \in Nat \ {0},
         f.offset <= first, first + size - 1 <= Len(s)
  PROVE  Sound(s, [at |-> "dispatch", batch |-> [i \in 1..size |-> first + i - 1],
                   offset |-> first + size], q, b, l)
  <1> DEFINE batch == [i \in 1..size |-> first + i - 1]
             f2 == [at |-> "dispatch", batch |-> batch, offset |-> first + size]
  <1>1. /\ batch \in Seq(Nat) /\ batch # <<>> /\ Increasing(batch)
        /\ \A i \in 1..Len(batch) : batch[i] # Quit
        /\ Entries(batch) = first..(first + size - 1)
    BY BatchEntries
  <1>2. f.offset \in Nat /\ l \in [Chats -> Nat]
    BY DEF Sound, Typed
  <1>3. f2.at = "dispatch" /\ f2.batch = batch /\ f2.offset = first + size
    OBVIOUS
  <1> HIDE DEF batch
  <1>4. f2 \in [at : {"dead", "poll", "dispatch"}, offset : Nat, batch : Seq(Nat)]
    BY <1>1
  <1> HIDE DEF f2
  <1>5. \A c \in Chats : l[c] \in Nat /\ (l[c] = 0 \/ l[c] < f.offset)
    BY <1>2 DEF Sound, BatchOrdered
  <1>6. BatchOrdered(s, first + size, Entries(batch), l)
    BY <1>1, <1>2, <1>5, SMTT(20) DEF BatchOrdered, Messages
  <1>7. ASSUME NEW w \in Workers
        PROVE  LineOrdered(s, first + size, Entries(batch), l, w, q[w], Busy(b, w))
    <2>1. LineOrdered(s, f.offset, Entries(f.batch), l, w, q[w], Busy(b, w))
      BY DEF Sound
    <2>2. \A m \in Entries(q[w]) \cup Busy(b, w) : m \in Nat /\ m < f.offset
      BY <2>1 DEF LineOrdered, Messages
    <2>3. \A m \in Entries(q[w]) \cup Busy(b, w) :
            m < first + size /\ \A n \in Entries(batch) : m < n
      BY <1>1, <1>2, <2>2
    <2> QED BY <2>1, <2>3 DEF LineOrdered
  <1>8. Typed(f2, q, b, l) /\ Tidy(f2, q, b)
    BY <1>1, <1>3, <1>4 DEF Sound, Typed, Tidy
  <1>9. Sound(s, f2, q, b, l)
    BY <1>1, <1>3, <1>6, <1>7, <1>8 DEF Sound
  <1> QED BY <1>9 DEF f2, batch

(* Worker w is over with message m; p is what is left of its queue.        *)
LEMMA FinishSound ==
  ASSUME NEW s, Messages(s), NEW f, NEW q, NEW b, NEW l, Sound(s, f, q, b, l),
         NEW w \in Workers, NEW m \in Entries(q[w]) \cup Busy(b, w),
         NEW p \in Seq(Nat), Increasing(p), Entries(p) \subseteq Entries(q[w]),
         \A n \in Entries(p) : m < n,
         NEW p2 \in {p, <<>>}, NEW stage \in {"get", "gone"}, stage = "gone" => p2 = <<>>
  PROVE  Sound(s, f, [q EXCEPT ![w] = p2], [b EXCEPT ![w] = [at |-> stage, id |-> Quit]],
               [l EXCEPT ![s[m].chat] = m])
  <1> DEFINE q2 == [q EXCEPT ![w] = p2]
             row == [at |-> stage, id |-> Quit]
             b2 == [b EXCEPT ![w] = row]
             l2 == [l EXCEPT ![s[m].chat] = m]
             E == Entries(f.batch)
  <1>1. Typed(f, q, b, l)
    BY DEF Sound
  <1>2. \A v \in Workers : LineOrdered(s, f.offset, E, l, v, q[v], Busy(b, v))
    BY DEF Sound
  <1>3. /\ m \in 1..Len(s) /\ m < f.offset /\ WorkerOf[s[m].chat] = w
        /\ \A n \in E : m < n
    BY <1>2 DEF LineOrdered
  <1>4. m \in Nat /\ s[m].chat \in Chats /\ Quit \in Nat
    BY <1>3 DEF Messages, Quit
  <1>5. p2 \in Seq(Nat) /\ Increasing(p2) /\ Entries(p2) \subseteq Entries(p)
    BY EntriesEmpty, EmptySeq
  <1>6. q2 \in [Workers -> Seq(Nat)] /\ l2 \in [Chats -> Nat]
    BY <1>1, <1>4, <1>5 DEF Typed
  <1>7. /\ q2[w] = p2 /\ b2[w] = row
        /\ \A v \in Workers \ {w} : q2[v] = q[v] /\ b2[v] = b[v]
        /\ l2[s[m].chat] = m /\ \A c \in Chats \ {s[m].chat} : l2[c] = l[c]
    BY <1>1, <1>4 DEF Typed
  <1>8. row \in [at : {"gone", "get", "save"}, id : Nat] /\ row.id = Quit /\ row.at = stage
    BY <1>4
  <1>9. b2 \in [Workers -> [at : {"gone", "get", "save"}, id : Nat]]
    <2> HIDE DEF row
    <2> QED BY <1>1, <1>8 DEF Typed
  <1> HIDE DEF q2, row, b2, l2, E
  <1>10. Typed(f, q2, b2, l2)
    BY <1>1, <1>6, <1>9 DEF Typed
  <1>11. Tidy(f, q2, b2)
    <2>1. Tidy(f, q, b)
      BY DEF Sound
    <2>2. b2[w].at # "save" /\ b2[w].id = Quit /\ (b2[w].at = "gone" => q2[w] = <<>>)
      BY <1>7, <1>8
    <2> QED BY <1>7, <2>1, <2>2 DEF Tidy
  <1>12. BatchOrdered(s, f.offset, E, l2)
    <2>1. BatchOrdered(s, f.offset, E, l)
      BY DEF Sound, E
    <2> QED BY <1>3, <1>7, <2>1 DEF BatchOrdered
  <1>13. ASSUME NEW v \in Workers
         PROVE  LineOrdered(s, f.offset, E, l2, v, q2[v], Busy(b2, v))
    <2>1. LineOrdered(s, f.offset, E, l, v, q[v], Busy(b, v))
      BY <1>2
    <2>2. CASE v = w
      <3>1. LineOrdered(s, f.offset, E, l, w, p2, {})
        BY <1>5, <2>1, <2>2, LineShrinks
      <3>2. \A n \in Entries(p2) : m < n
        BY <1>5
      <3>3. Busy(b2, w) = {}
        BY <1>7, <1>8 DEF Busy
      <3>4. \A n \in Entries(p2) : s[n].chat \in Chats /\ l[s[n].chat] < n
        BY <3>1 DEF LineOrdered, Messages
      <3>5. \A n \in Entries(p2) : l2[s[n].chat] < n
        BY <1>7, <3>2, <3>4
      <3> QED BY <1>7, <2>2, <3>1, <3>3, <3>5 DEF LineOrdered
    <2>3. CASE v # w
      <3>1. \A n \in Entries(q[v]) \cup Busy(b, v) :
              s[n].chat \in Chats /\ s[n].chat # s[m].chat
        BY <1>3, <2>1, <2>3 DEF LineOrdered, Messages
      <3>2. q2[v] = q[v] /\ Busy(b2, v) = Busy(b, v)
        BY <1>7, <2>3 DEF Busy
      <3> QED BY <1>7, <2>1, <3>1, <3>2 DEF LineOrdered
    <2> QED BY <2>2, <2>3
  <1>14. Sound(s, f, q2, b2, l2)
    BY <1>10, <1>11, <1>12, <1>13 DEF Sound, E
  <1> QED BY <1>14 DEF q2, row, b2, l2

(* Worker w takes the first message of its queue to save what it asks for. *)
LEMMA TakeSound ==
  ASSUME NEW s, Messages(s), NEW f, NEW q, NEW b, NEW l, Sound(s, f, q, b, l),
         NEW w \in Workers, b[w].at = "get", q[w] # <<>>, Head(q[w]) # Quit
  PROVE  Sound(s, f, [q EXCEPT ![w] = Tail(q[w])],
               [b EXCEPT ![w] = [at |-> "save", id |-> Head(q[w])]], l)
  <1> DEFINE m == Head(q[w])
             p == Tail(q[w])
             row == [at |-> "save", id |-> m]
             q2 == [q EXCEPT ![w] = p]
             b2 == [b EXCEPT ![w] = row]
             E == Entries(f.batch)
  <1>1. Typed(f, q, b, l) /\ q[w] \in Seq(Nat)
    BY DEF Sound, Typed
  <1>2. LineOrdered(s, f.offset, E, l, w, q[w], Busy(b, w))
    BY DEF Sound
  <1>3. /\ p \in Seq(Nat) /\ m \in Nat /\ Increasing(p)
        /\ Entries(q[w]) = {m} \cup Entries(p) /\ \A n \in Entries(p) : m < n
    BY <1>1, <1>2, TailEntries DEF LineOrdered
  <1> HIDE DEF m, p
  <1>4. /\ q2 \in [Workers -> Seq(Nat)] /\ q2[w] = p /\ b2[w] = row
        /\ \A v \in Workers \ {w} : q2[v] = q[v] /\ b2[v] = b[v]
    BY <1>1, <1>3 DEF Typed
  <1>5. row \in [at : {"gone", "get", "save"}, id : Nat] /\ row.id = m /\ row.at = "save"
    BY <1>3
  <1>6. b2 \in [Workers -> [at : {"gone", "get", "save"}, id : Nat]]
    <2> HIDE DEF row
    <2> QED BY <1>1, <1>5 DEF Typed
  <1> HIDE DEF q2, row, b2, E
  <1>7. Typed(f, q2, b2, l)
    BY <1>1, <1>4, <1>6 DEF Typed
  <1>8. Tidy(f, q2, b2)
    <2>1. Tidy(f, q, b) /\ m # Quit
      BY DEF Sound, m
    <2> QED BY <1>4, <1>5, <2>1 DEF Tidy
  <1>9. ASSUME NEW v \in Workers
        PROVE  LineOrdered(s, f.offset, E, l, v, q2[v], Busy(b2, v))
    <2>1. CASE v = w
      <3>1. Busy(b2, w) = {m}
        BY <1>4, <1>5 DEF Busy, m
      <3> QED BY <1>2, <1>3, <1>4, <2>1, <3>1 DEF LineOrdered
    <2>2. CASE v # w
      <3>1. q2[v] = q[v] /\ Busy(b2, v) = Busy(b, v)
        BY <1>4, <2>2 DEF Busy
      <3> QED BY <3>1 DEF Sound, E
    <2> QED BY <2>1, <2>2
  <1>10. Sound(s, f, q2, b2, l)
    BY <1>7, <1>8, <1>9 DEF Sound, E
  <1> QED BY <1>10 DEF q2, row, b2, m, p

(* The first message of the batch goes to its worker w, if there is one.   *)
Handed(f, q, b, w, f2, q2) ==
  /\ f2.batch = Tail(f.batch) /\ f2.offset = f.offset
  /\ f2.at = "dispatch" <=> f2.batch # <<>>
  /\ \A v \in Workers \ {w} : q2[v] = q[v]
  /\ b[w].at # "gone" => q2[w] = Append(q[w], Head(f.batch))
  /\ b[w].at = "gone" => q2[w] = q[w]

LEMMA HandSound ==
  ASSUME NEW s, Messages(s), NEW f, NEW q, NEW b, NEW l, Sound(s, f, q, b, l),
         f.batch # <<>>, NEW w \in Workers, w = WorkerOf[s[Head(f.batch)].chat],
         NEW f2, NEW q2, Typed(f2, q2, b, l), Handed(f, q, b, w, f2, q2)
  PROVE  Sound(s, f2, q2, b, l)
  <1> DEFINE m == Head(f.batch)
             rest == Tail(f.batch)
             E == Entries(f.batch)
             E2 == Entries(rest)
  <1>1. Typed(f, q, b, l) /\ f.batch \in Seq(Nat) /\ f.offset \in Nat /\ l \in [Chats -> Nat]
    BY DEF Sound, Typed
  <1>2. m # Quit
    <2>1. 1 \in 1..Len(f.batch) /\ m = f.batch[1]
      BY <1>1, EmptySeq, HeadTailProperties
    <2> QED BY <2>1 DEF Sound, Tidy
  <1>3. /\ rest \in Seq(Nat) /\ m \in Nat /\ Increasing(rest)
        /\ E = {m} \cup E2 /\ \A n \in E2 : m < n
    <2>1. Increasing(f.batch)
      BY DEF Sound
    <2> QED BY <1>1, <1>2, <2>1, TailEntries
  <1>4. \A i \in 1..Len(rest) : rest[i] # Quit
    <2>1. /\ Len(rest) = Len(f.batch) - 1 /\ Len(f.batch) \in Nat
          /\ \A i \in 1..Len(rest) : rest[i] = f.batch[i + 1]
      BY <1>1, EmptySeq, HeadTailProperties
    <2>2. \A i \in 1..Len(rest) : i + 1 \in 1..Len(f.batch)
      <3> HIDE DEF rest
      <3> QED BY <2>1
    <2>3. \A i \in 1..Len(f.batch) : f.batch[i] # Quit
      BY DEF Sound, Tidy
    <2> QED BY <2>1, <2>2, <2>3
  <1>5. f2.batch = rest /\ f2.offset = f.offset /\ (f2.at = "dispatch" <=> f2.batch # <<>>)
    BY DEF Handed
  <1>6. /\ \A v \in Workers \ {w} : q2[v] = q[v]
        /\ q2[w] = Append(q[w], m) \/ q2[w] = q[w]
        /\ q[w] \in Seq(Nat)
    BY <1>1 DEF Typed, Handed
  <1>7. \A v \in Workers : b[v].at = "gone" => q2[v] = q[v]
    BY DEF Handed
  <1> HIDE DEF m, rest, E, E2
  <1>9. Tidy(f2, q2, b)
    <2>1. Tidy(f, q, b)
      BY DEF Sound
    <2> QED BY <1>4, <1>5, <1>7, <2>1 DEF Tidy
  <1>10. BatchOrdered(s, f.offset, E, l)
    BY DEF Sound, E
  <1>11. BatchOrdered(s, f.offset, E2, l)
    BY <1>3, <1>10 DEF BatchOrdered
  <1>12. ASSUME NEW v \in Workers
         PROVE  LineOrdered(s, f.offset, E2, l, v, q2[v], Busy(b, v))
    <2>1. LineOrdered(s, f.offset, E, l, v, q[v], Busy(b, v))
      BY DEF Sound, E
    <2>2. CASE q2[v] = q[v]
      <3>1. E2 \in SUBSET E /\ Increasing(q[v])
        BY <1>3, <2>1 DEF LineOrdered
      <3> QED BY <2>1, <2>2, <3>1, LineShrinks
    <2>3. CASE v = w /\ q2[v] = Append(q[v], m)
      <3>1. m \in E /\ E2 \in SUBSET E /\ WorkerOf[s[m].chat] = v
        BY <1>3, <2>3 DEF m
      <3>2. q[v] \in Seq(Nat) /\ \A n \in E2 : m < n
        BY <1>3, <1>6, <2>3
      <3>3. LineOrdered(s, f.offset, E2, l, v, Append(q[v], m), Busy(b, v))
        BY <1>1, <1>10, <2>1, <3>1, <3>2, LineGrows
      <3> QED BY <2>3, <3>3
    <2> QED BY <1>6, <2>2, <2>3
  <1>13. Sound(s, f2, q2, b, l)
    BY <1>3, <1>5, <1>9, <1>11, <1>12 DEF Sound, E2
  <1> QED BY <1>13

(* The thread that fetches ends and wakes its workers.                     *)
Woken(f, q, b, f2, q2) ==
  /\ f2.at = "dead" /\ f2.batch = <<>> /\ f2.offset = f.offset
  /\ \A w \in Workers : /\ b[w].at # "gone" => q2[w] = Append(q[w], Quit)
                        /\ b[w].at = "gone" => q2[w] = <<>>

LEMMA WokenSound ==
  ASSUME NEW s, NEW f, NEW q, NEW b, NEW l, Sound(s, f, q, b, l), f.batch = <<>>,
         NEW f2, NEW q2, Typed(f2, q2, b, l), Woken(f, q, b, f2, q2)
  PROVE  Sound(s, f2, q2, b, l)
  <1> USE DEF Woken
  <1> DEFINE E == Entries(f.batch)
  <1>1. Typed(f, q, b, l) /\ Tidy(f, q, b)
    BY DEF Sound
  <1>2. \A w \in Workers :
          /\ q[w] \in Seq(Nat)
          /\ q2[w] = IF b[w].at # "gone" THEN Append(q[w], Quit) ELSE <<>>
    BY <1>1 DEF Typed
  <1> HIDE DEF E
  <1>6. Tidy(f2, q2, b)
    BY <1>1, <1>2 DEF Tidy
  <1>7. ASSUME NEW w \in Workers
        PROVE  LineOrdered(s, f.offset, E, l, w, q2[w], Busy(b, w))
    <2>1. LineOrdered(s, f.offset, E, l, w, q[w], Busy(b, w))
      BY DEF Sound, E
    <2>2. q[w] \in Seq(Nat)
      BY <1>1 DEF Typed
    <2>3. /\ LineOrdered(s, f.offset, E, l, w, Append(q[w], Quit), Busy(b, w))
          /\ LineOrdered(s, f.offset, E, l, w, <<>>, Busy(b, w))
      BY <2>1, <2>2, LineWoken, Zenon
    <2>4. q2[w] = Append(q[w], Quit) \/ q2[w] = <<>>
      BY <1>2
    <2> QED BY <2>3, <2>4
  <1>8. Sound(s, f2, q2, b, l)
    BY <1>6, <1>7 DEF Sound, E
  <1> QED BY <1>8

LEMMA WokenEntries ==
  ASSUME NEW s, NEW f, NEW q, NEW b, NEW l, Sound(s, f, q, b, l),
         NEW f2, NEW q2, Woken(f, q, b, f2, q2)
  PROVE  \A w \in Workers : Entries(q2[w]) = Entries(q[w])
  <1>1. Typed(f, q, b, l) /\ Tidy(f, q, b)
    BY DEF Sound
  <1>2. ASSUME NEW w \in Workers
        PROVE  Entries(q2[w]) = Entries(q[w])
    <2>1. q[w] \in Seq(Nat) /\ (b[w].at = "gone" => q[w] = <<>>)
      BY <1>1 DEF Typed, Tidy
    <2>2. Entries(Append(q[w], Quit)) = Entries(q[w])
      <3>1. Quit \in Nat
        BY DEF Quit
      <3>2. Entries(Append(q[w], Quit)) = Entries(q[w]) \cup ({Quit} \ {Quit})
        BY <2>1, <3>1, AppendEntries
      <3> QED BY <3>2
    <2> QED BY <2>1, <2>2 DEF Woken
  <1> QED BY <1>2

(* A worker that waits for nothing ends.                                   *)
LEMMA WakeSound ==
  ASSUME NEW s, NEW f, NEW q, NEW b, NEW l, Sound(s, f, q, b, l), NEW w \in Workers
  PROVE  Sound(s, f, [q EXCEPT ![w] = <<>>],
               [b EXCEPT ![w] = [at |-> "gone", id |-> Quit]], l)
  <1> DEFINE row == [at |-> "gone", id |-> Quit]
             q2 == [q EXCEPT ![w] = <<>>]
             b2 == [b EXCEPT ![w] = row]
             E == Entries(f.batch)
  <1>1. Typed(f, q, b, l)
    BY DEF Sound
  <1>2. /\ q2[w] = <<>> /\ b2[w] = row
        /\ \A v \in Workers \ {w} : q2[v] = q[v] /\ b2[v] = b[v]
    BY <1>1 DEF Typed
  <1>3. row \in [at : {"gone", "get", "save"}, id : Nat] /\ row.at = "gone" /\ row.id = Quit
    BY DEF Quit
  <1>4. q2 \in [Workers -> Seq(Nat)]
    BY <1>1, EmptySeq DEF Typed
  <1>5. b2 \in [Workers -> [at : {"gone", "get", "save"}, id : Nat]]
    <2> HIDE DEF row
    <2> QED BY <1>1, <1>3 DEF Typed
  <1> HIDE DEF q2, row, b2, E
  <1>6. Typed(f, q2, b2, l) /\ Tidy(f, q2, b2)
    <2>1. Tidy(f, q, b)
      BY DEF Sound
    <2>2. Typed(f, q2, b2, l)
      BY <1>1, <1>4, <1>5 DEF Typed
    <2>3. b2[w].at = "gone" /\ b2[w].id = Quit /\ q2[w] = <<>>
      BY <1>2, <1>3
    <2>4. Tidy(f, q2, b2)
      BY <1>2, <2>1, <2>3 DEF Tidy
    <2> QED BY <2>2, <2>4
  <1>7. ASSUME NEW v \in Workers
        PROVE  LineOrdered(s, f.offset, E, l, v, q2[v], Busy(b2, v))
    <2>1. LineOrdered(s, f.offset, E, l, v, q[v], Busy(b, v))
      BY DEF Sound, E
    <2>2. CASE v = w
      <3>1. Busy(b2, w) = {} /\ q[w] \in Seq(Nat)
        BY <1>1, <1>2, <1>3 DEF Busy, Typed
      <3> QED BY <1>2, <2>1, <2>2, <3>1, LineWoken
    <2>3. CASE v # w
      BY <1>2, <2>1, <2>3 DEF Busy
    <2> QED BY <2>2, <2>3
  <1>8. Sound(s, f, q2, b2, l)
    BY <1>6, <1>7 DEF Sound, E
  <1> QED BY <1>8 DEF q2, b2, row

-----------------------------------------------------------------------------
(* From one generation to all of them.                                     *)

LEMMA SentMessages ==
  ASSUME TablesOK
  PROVE  Messages(sent)
  <1> DEFINE Message == [chat : Chats, body : Kinds]
  <1>1. sent \in Seq(Message)
    BY DEF TablesOK
  <1>2. \A x \in Message : x.chat \in Chats
    OBVIOUS
  <1> HIDE DEF Message
  <1> QED BY <1>1, <1>2, LenProperties, ElementOfSeq DEF Messages

(* A step of generation g that accounts for every message g had or asks    *)
(* for from now on.                                                        *)
LEMMA ThreadKeeps ==
  ASSUME IInv, NEW g \in Gens, NEW f, NEW q, NEW b, NEW l,
         Sound(sent, f, q, b, l),
         fetch' = [fetch EXCEPT ![g] = f], queue' = [queue EXCEPT ![g] = q],
         worker' = [worker EXCEPT ![g] = b], last' = [last EXCEPT ![g] = l],
         UNCHANGED sent, gen' \in gen..MaxStarts, g <= gen',
         confirmed' \in {confirmed, Larger(confirmed, fetch[g].offset - 1)},
         done \subseteq done', dropped \subseteq dropped',
         Has(fetch[g], queue[g], worker[g]) \subseteq done' \cup dropped' \cup Has(f, q, b),
         \A m \in 1..(f.offset - 1) :
           m \in 1..(fetch[g].offset - 1) \/ m \in 1..confirmed \/ m \in Has(f, q, b)
  PROVE  IInv'
  <1>1. TablesOK /\ Typed(f, q, b, l)
    BY DEF IInv, Sound
  <1>2. /\ fetch'[g] = f /\ queue'[g] = q /\ worker'[g] = b /\ last'[g] = l
        /\ \A h \in Gens \ {g} : /\ fetch'[h] = fetch[h] /\ queue'[h] = queue[h]
                                 /\ worker'[h] = worker[h] /\ last'[h] = last[h]
    BY <1>1 DEF TablesOK
  <1>3. TablesOK'
    <2>1. confirmed' \in Nat
      BY <1>1 DEF TablesOK, Larger, Typed
    <2>2. fetch' \in [Gens -> [at : {"dead", "poll", "dispatch"}, offset : Nat,
                               batch : Seq(Nat)]]
      BY <1>1 DEF TablesOK, Typed
    <2>3. queue' \in [Gens -> [Workers -> Seq(Nat)]]
      BY <1>1 DEF TablesOK, Typed
    <2>4. worker' \in [Gens -> [Workers -> [at : {"gone", "get", "save"}, id : Nat]]]
      BY <1>1 DEF TablesOK, Typed
    <2>5. last' \in [Gens -> [Chats -> Nat]]
      BY <1>1 DEF TablesOK, Typed
    <2>6. sent' \in Seq([chat : Chats, body : Kinds]) /\ gen' \in 0..MaxStarts
      BY <1>1, ConstantsOK DEF TablesOK
    <2> QED BY <2>1, <2>2, <2>3, <2>4, <2>5, <2>6 DEF TablesOK
  <1>4. Orderly'
    <2>1. \A h \in Gens : Sound(sent, fetch'[h], queue'[h], worker'[h], last'[h])
      BY <1>2 DEF IInv, Orderly
    <2> QED BY <2>1 DEF Orderly
  <1>5. Accounted \subseteq Accounted' /\ Has(f, q, b) \subseteq Accounted'
    <2>1. /\ \A h \in Gens \ {g} : Held(h)' = Held(h)
          /\ Held(g)' = Has(f, q, b)
          /\ Held(g) = Has(fetch[g], queue[g], worker[g])
      BY <1>2 DEF Held, Has, Busy
    <2> QED BY <2>1 DEF Accounted
  <1>6. /\ fetch[g].offset \in Nat /\ confirmed \in Nat
        /\ \A h \in Gens : (1..(fetch[h].offset - 1)) \subseteq Accounted
        /\ (1..confirmed) \subseteq Accounted
    BY <1>1 DEF TablesOK, IInv, NothingSkipped, NothingLost, Accounted
  <1>7. NothingSkipped'
    BY <1>2, <1>5, <1>6 DEF NothingSkipped
  <1>8. (1..confirmed') \subseteq Accounted'
    <2>1. \A m \in 1..confirmed' : m \in 1..confirmed \/ m \in 1..(fetch[g].offset - 1)
      BY <1>6 DEF Larger
    <2> QED BY <1>5, <1>6, <2>1
  <1>9. Unborn'
    <2>1. gen \in Nat /\ gen <= gen'
      BY <1>1 DEF TablesOK
    <2>2. \A h \in Gens : h > gen' => h > gen /\ h # g
      BY <2>1, ConstantsOK DEF Gens
    <2> QED BY <1>2, <2>2 DEF Unborn, IInv
  <1> QED BY <1>3, <1>4, <1>7, <1>8, <1>9 DEF IInv, NothingLost, Accounted

(* A step that touches no thread.                                          *)
LEMMA IdleKeeps ==
  ASSUME IInv, UNCHANGED <<sent, confirmed, fetch, queue, worker, last, done, dropped>>,
         UNCHANGED gen
  PROVE  IInv'
  <1>1. TablesOK'
    BY DEF IInv, TablesOK
  <1>2. Orderly'
    BY DEF IInv, Orderly
  <1>3. Accounted' = Accounted
    BY DEF Accounted, Held
  <1> QED BY <1>1, <1>2, <1>3 DEF IInv, Unborn, NothingSkipped, NothingLost, Accounted

-----------------------------------------------------------------------------
(* start() and stop(), and the messages that come.                         *)

LEMMA SpawnKeeps ==
  ASSUME IInv, NEW t, Spawn(t), UNCHANGED <<sent, confirmed, last, done, dropped>>
  PROVE  IInv'
  <1> DEFINE g == gen + 1
             f == [fetch[g] EXCEPT !.at = "poll"]
             b == [w \in Workers |-> [at |-> "get", id |-> Quit]]
  <1>1. TablesOK /\ gen \in Nat /\ g \in Gens /\ g > gen /\ g \in gen..MaxStarts
    BY ConstantsOK DEF IInv, TablesOK, Spawn, Gens
  <1>2. /\ gen' = g /\ fetch' = [fetch EXCEPT ![g] = f]
        /\ worker' = [worker EXCEPT ![g] = b] /\ queue' = queue
    BY DEF Spawn
  <1>3. Sound(sent, fetch[g], queue[g], worker[g], last[g])
    BY <1>1 DEF IInv, Orderly
  <1>4. fetch[g].at = "dead" /\ \A w \in Workers : worker[g][w].at = "gone"
    BY <1>1 DEF IInv, Unborn
  <1>5. /\ fetch[g].batch = <<>>
        /\ \A w \in Workers : worker[g][w].id = Quit /\ queue[g][w] = <<>>
    BY <1>3, <1>4 DEF Sound, Tidy
  <1>6. /\ fetch[g] \in [at : {"dead", "poll", "dispatch"}, offset : Nat, batch : Seq(Nat)]
        /\ queue[g] \in [Workers -> Seq(Nat)] /\ last[g] \in [Chats -> Nat]
    BY <1>3 DEF Sound, Typed
  <1>7. /\ f \in [at : {"dead", "poll", "dispatch"}, offset : Nat, batch : Seq(Nat)]
        /\ f.at = "poll" /\ f.batch = <<>> /\ f.offset = fetch[g].offset
    BY <1>5, <1>6
  <1>8. /\ b \in [Workers -> [at : {"gone", "get", "save"}, id : Nat]]
        /\ \A w \in Workers : b[w].at = "get" /\ b[w].id = Quit
    BY DEF Quit
  <1>9. queue' = [queue EXCEPT ![g] = queue[g]] /\ last' = [last EXCEPT ![g] = last[g]]
    BY <1>1, <1>2 DEF TablesOK
  <1> HIDE DEF g, f, b
  <1>10. \A w \in Workers : Busy(b, w) = {} /\ Busy(worker[g], w) = {}
    BY <1>5, <1>8 DEF Busy
  <1>11. Sound(sent, f, queue[g], b, last[g])
    <2>1. Typed(f, queue[g], b, last[g]) /\ Tidy(f, queue[g], b)
      <3>1. Typed(f, queue[g], b, last[g])
        BY <1>6, <1>7, <1>8 DEF Typed
      <3>2. Tidy(fetch[g], queue[g], worker[g])
        BY <1>3 DEF Sound
      <3> QED BY <1>5, <1>7, <1>8, <3>1, <3>2 DEF Tidy
    <2>2. BatchOrdered(sent, f.offset, Entries(f.batch), last[g]) /\ Increasing(f.batch)
      BY <1>3, <1>5, <1>7 DEF Sound
    <2>3. \A w \in Workers : LineOrdered(sent, f.offset, Entries(f.batch), last[g], w,
                                         queue[g][w], Busy(b, w))
      BY <1>3, <1>5, <1>7, <1>10 DEF Sound
    <2> QED BY <2>1, <2>2, <2>3 DEF Sound
  <1>12. Has(fetch[g], queue[g], worker[g]) = Has(f, queue[g], b)
    BY <1>5, <1>7, <1>10 DEF Has
  <1>13. /\ UNCHANGED sent /\ gen' \in gen..MaxStarts /\ g <= gen'
         /\ confirmed' \in {confirmed, Larger(confirmed, fetch[g].offset - 1)}
         /\ done \subseteq done' /\ dropped \subseteq dropped'
    BY <1>1, <1>2
  <1>14. /\ Has(fetch[g], queue[g], worker[g]) \subseteq done' \cup dropped' \cup Has(f, queue[g], b)
         /\ \A m \in 1..(f.offset - 1) : m \in 1..(fetch[g].offset - 1)
    BY <1>7, <1>12
  <1> QED
    BY <1>1, <1>2, <1>9, <1>11, <1>13, <1>14, ThreadKeeps

LEMMA StartKeeps ==
  ASSUME IInv, NEW t, Start(t), UNCHANGED <<sent, confirmed, last, done, dropped>>
  PROVE  IInv'
  BY SpawnKeeps DEF Start

LEMMA StopKeeps ==
  ASSUME IInv, Stop, UNCHANGED <<sent, confirmed, last, done, dropped>>
  PROVE  IInv'
  BY IdleKeeps DEF Stop

(* A new message is the newest.                                            *)
LEMMA SendKeeps ==
  ASSUME IInv, NEW c \in Chats, NEW k \in Kinds, Send(c, k)
  PROVE  IInv'
  <1> DEFINE Message == [chat : Chats, body : Kinds]
             x == [chat |-> c, body |-> k]
  <1>1. sent' = Append(sent, x) /\ sent \in Seq(Message) /\ x \in Message
    BY DEF Send, IInv, TablesOK
  <1>2. UNCHANGED <<confirmed, gen, fetch, queue, worker, last, done, dropped>>
    BY DEF Send, poller, history
  <1> HIDE DEF Message, x
  <1>3. /\ sent' \in Seq(Message) /\ Len(sent) \in Nat /\ Len(sent') = Len(sent) + 1
        /\ \A m \in 1..Len(sent) : sent'[m] = sent[m]
    BY <1>1, AppendProperties, LenProperties
  <1>4. \A m \in 1..Len(sent) : m \in 1..Len(sent')
    BY <1>3
  <1>5. ASSUME NEW g \in Gens
        PROVE  Sound(sent', fetch[g], queue[g], worker[g], last[g])
    <2>1. Sound(sent, fetch[g], queue[g], worker[g], last[g])
      BY DEF IInv, Orderly
    <2>2. BatchOrdered(sent', fetch[g].offset, Entries(fetch[g].batch), last[g])
      BY <1>4, <2>1 DEF Sound, BatchOrdered
    <2>3. ASSUME NEW w \in Workers
          PROVE  LineOrdered(sent', fetch[g].offset, Entries(fetch[g].batch), last[g], w,
                             queue[g][w], Busy(worker[g], w))
      <3>1. LineOrdered(sent, fetch[g].offset, Entries(fetch[g].batch), last[g], w,
                        queue[g][w], Busy(worker[g], w))
        BY <2>1 DEF Sound
      <3> QED BY <1>3, <1>4, <3>1 DEF LineOrdered
    <2> QED BY <2>1, <2>2, <2>3 DEF Sound
  <1>6. Orderly'
    BY <1>2, <1>5 DEF Orderly
  <1>7. TablesOK'
    BY <1>2, <1>3 DEF IInv, TablesOK, Message
  <1>8. Accounted' = Accounted
    BY <1>2 DEF Accounted, Held
  <1> QED BY <1>2, <1>6, <1>7, <1>8 DEF IInv, Unborn, NothingSkipped, NothingLost, Accounted

-----------------------------------------------------------------------------
(* The thread that fetches.                                                *)

LEMMA GenerationOf ==
  ASSUME IInv, NEW g \in Gens
  PROVE  /\ Sound(sent, fetch[g], queue[g], worker[g], last[g])
         /\ fetch[g] \in [at : {"dead", "poll", "dispatch"}, offset : Nat, batch : Seq(Nat)]
         /\ queue[g] \in [Workers -> Seq(Nat)]
         /\ worker[g] \in [Workers -> [at : {"gone", "get", "save"}, id : Nat]]
         /\ last[g] \in [Chats -> Nat]
         /\ fetch = [fetch EXCEPT ![g] = fetch[g]] /\ queue = [queue EXCEPT ![g] = queue[g]]
         /\ worker = [worker EXCEPT ![g] = worker[g]] /\ last = [last EXCEPT ![g] = last[g]]
         /\ gen \in gen..MaxStarts /\ confirmed \in Nat
         /\ fetch[g].at # "dead" \/ (\E w \in Workers : worker[g][w].at # "gone") => g <= gen
  <1>1. Sound(sent, fetch[g], queue[g], worker[g], last[g]) /\ TablesOK /\ Unborn
    BY DEF IInv, Orderly
  <1>2. gen \in gen..MaxStarts /\ confirmed \in Nat
    BY <1>1, ConstantsOK DEF TablesOK
  <1>3. fetch[g].at # "dead" \/ (\E w \in Workers : worker[g][w].at # "gone") => g <= gen
    BY <1>1, <1>2, ConstantsOK DEF Unborn, Gens
  <1>4. /\ fetch = [fetch EXCEPT ![g] = fetch[g]] /\ queue = [queue EXCEPT ![g] = queue[g]]
        /\ worker = [worker EXCEPT ![g] = worker[g]] /\ last = [last EXCEPT ![g] = last[g]]
    BY <1>1 DEF TablesOK
  <1> QED BY <1>1, <1>2, <1>3, <1>4 DEF Sound, Typed

LEMMA FetchKeeps ==
  ASSUME IInv, NEW g \in Gens, Fetch(g)
  PROVE  IInv'
  <1> DEFINE first == Larger(confirmed + 1, fetch[g].offset)
             size == Smaller(BatchLimit, Len(sent) + 1 - first)
             batch == [i \in 1..size |-> first + i - 1]
             f == [at |-> "dispatch", batch |-> batch, offset |-> first + size]
  <1>1. /\ fetch[g].at = "poll" /\ size > 0
        /\ fetch' = [fetch EXCEPT ![g] = [at |-> "dispatch", batch |-> batch,
                                          offset |-> NextOffset(g, batch)]]
        /\ confirmed' = Larger(confirmed, fetch[g].offset - 1)
        /\ UNCHANGED <<sent, gen, queue, worker, last, done, dropped>>
    BY DEF Fetch, Forget, history
  <1>2. /\ Sound(sent, fetch[g], queue[g], worker[g], last[g])
        /\ fetch[g].offset \in Nat /\ confirmed \in Nat
        /\ queue = [queue EXCEPT ![g] = queue[g]] /\ worker = [worker EXCEPT ![g] = worker[g]]
        /\ last = [last EXCEPT ![g] = last[g]]
        /\ gen \in gen..MaxStarts /\ g <= gen
    BY <1>1, GenerationOf
  <1>3. Messages(sent) /\ Len(sent) \in Nat
    BY SentMessages DEF IInv, Messages
  <1>4. /\ first \in Nat \ {0} /\ fetch[g].offset <= first /\ confirmed + 1 <= first
        /\ (first = confirmed + 1 \/ first = fetch[g].offset)
    BY <1>2 DEF Larger
  <1>5. size \in Nat \ {0} /\ first + size - 1 <= Len(sent)
    <2> HIDE DEF first
    <2> QED BY <1>1, <1>3, <1>4, ConstantsOK DEF Smaller
  <1> HIDE DEF first, size
  <1>6. batch[Len(batch)] = first + size - 1 /\ Entries(batch) = first..(first + size - 1)
    BY <1>4, <1>5, BatchEntries
  <1>7. Sound(sent, f, queue[g], worker[g], last[g])
    BY <1>2, <1>3, <1>4, <1>5, FetchSound
  <1> HIDE DEF batch
  <1>8. NextOffset(g, batch) = first + size
    BY <1>2, <1>4, <1>5, <1>6 DEF NextOffset, Larger
  <1>9. fetch' = [fetch EXCEPT ![g] = f]
    BY <1>1, <1>8
  <1>10. f.batch = batch /\ f.offset = first + size
    OBVIOUS
  <1> HIDE DEF f
  <1>11. Has(fetch[g], queue[g], worker[g]) \subseteq Has(f, queue[g], worker[g])
    <2>1. fetch[g].batch = <<>>
      BY <1>1, <1>2 DEF Sound, Tidy
    <2> QED BY <2>1, EntriesEmpty DEF Has
  <1>12. ASSUME NEW m \in 1..(f.offset - 1)
         PROVE  m \in 1..(fetch[g].offset - 1) \/ m \in 1..confirmed
                  \/ m \in Has(f, queue[g], worker[g])
    <2>1. m < first => m \in 1..(fetch[g].offset - 1) \/ m \in 1..confirmed
      BY <1>2, <1>4
    <2>2. ~(m < first) => m \in Entries(f.batch)
      BY <1>4, <1>5, <1>6, <1>10
    <2> QED BY <2>1, <2>2 DEF Has
  <1>13. /\ UNCHANGED sent /\ gen' \in gen..MaxStarts /\ g <= gen'
         /\ confirmed' \in {confirmed, Larger(confirmed, fetch[g].offset - 1)}
         /\ done \subseteq done' /\ dropped \subseteq dropped'
         /\ queue' = [queue EXCEPT ![g] = queue[g]] /\ worker' = [worker EXCEPT ![g] = worker[g]]
         /\ last' = [last EXCEPT ![g] = last[g]]
    BY <1>1, <1>2
  <1>14. Has(fetch[g], queue[g], worker[g])
           \subseteq done' \cup dropped' \cup Has(f, queue[g], worker[g])
    BY <1>11
  <1> QED BY <1>7, <1>9, <1>12, <1>13, <1>14, ThreadKeeps

(* The top of the loop, with the queues q; fp is the thread that goes on.  *)
LEMMA LoopKeeps ==
  ASSUME IInv, NEW g \in Gens, NEW q, Loop(g, q), fetch[g].at # "dead",
         NEW fp, fp = [fetch[g] EXCEPT !.at = "poll", !.batch = <<>>],
         Sound(sent, fp, q, worker[g], last[g]),
         UNCHANGED <<sent, gen, worker, last>>,
         confirmed' \in {confirmed, Larger(confirmed, fetch[g].offset - 1)},
         done \subseteq done', dropped \subseteq dropped',
         Has(fetch[g], queue[g], worker[g]) \subseteq
           done' \cup dropped' \cup UNION {Entries(q[w]) \cup Busy(worker[g], w) : w \in Workers}
  PROVE  IInv'
  <1> DEFINE f2 == [fetch[g] EXCEPT !.at = "dead", !.batch = <<>>]
             q2 == [w \in Workers |-> IF worker[g][w].at # "gone" THEN Append(q[w], Quit) ELSE <<>>]
  <1>1. /\ fetch[g] \in [at : {"dead", "poll", "dispatch"}, offset : Nat, batch : Seq(Nat)]
        /\ gen \in gen..MaxStarts /\ g <= gen
        /\ worker = [worker EXCEPT ![g] = worker[g]] /\ last = [last EXCEPT ![g] = last[g]]
    BY GenerationOf
  <1>2. fp.batch = <<>> /\ fp.offset = fetch[g].offset
    BY <1>1
  <1>3. /\ UNCHANGED sent /\ gen' \in gen..MaxStarts /\ g <= gen'
        /\ worker' = [worker EXCEPT ![g] = worker[g]] /\ last' = [last EXCEPT ![g] = last[g]]
    BY <1>1
  <1>4. CASE g \in stop
    <2>1. fetch' = [fetch EXCEPT ![g] = f2] /\ queue' = [queue EXCEPT ![g] = q2]
      BY <1>4 DEF Loop, Works
    <2>2. <<>> \in Seq(Nat)
      BY EmptySeq
    <2>3. /\ f2 \in [at : {"dead", "poll", "dispatch"}, offset : Nat, batch : Seq(Nat)]
          /\ f2.at = "dead" /\ f2.batch = <<>> /\ f2.offset = fetch[g].offset
      BY <1>1, <2>2
    <2>4. /\ \A w \in Workers : worker[g][w].at # "gone" => q2[w] = Append(q[w], Quit)
          /\ \A w \in Workers : worker[g][w].at = "gone" => q2[w] = <<>>
      OBVIOUS
    <2>5. q2 \in [Workers -> Seq(Nat)]
      <3>1. \A w \in Workers : q[w] \in Seq(Nat)
        BY DEF Sound, Typed
      <3>2. \A w \in Workers : q2[w] \in Seq(Nat)
        BY <2>2, <2>4, <3>1, AppendEntries DEF Quit
      <3> QED BY <3>2
    <2> HIDE DEF f2, q2
    <2>6. /\ Sound(sent, f2, q2, worker[g], last[g])
          /\ \A w \in Workers : Entries(q2[w]) = Entries(q[w])
      <3>1. Typed(f2, q2, worker[g], last[g])
        BY <2>3, <2>5 DEF Sound, Typed
      <3>2. Woken(fp, q, worker[g], f2, q2)
        BY <1>2, <2>3, <2>4 DEF Woken
      <3>3. fp.batch = <<>> /\ Sound(sent, fp, q, worker[g], last[g])
        BY <1>2
      <3>4. Sound(sent, f2, q2, worker[g], last[g])
        BY <3>1, <3>2, <3>3, WokenSound
      <3>5. \A w \in Workers : Entries(q2[w]) = Entries(q[w])
        BY <3>1, <3>2, <3>3, WokenEntries
      <3> QED BY <3>4, <3>5
    <2>7. UNION {Entries(q[w]) \cup Busy(worker[g], w) : w \in Workers}
            \subseteq Has(f2, q2, worker[g])
      BY <2>6 DEF Has
    <2>8. /\ Has(fetch[g], queue[g], worker[g]) \subseteq done' \cup dropped' \cup Has(f2, q2, worker[g])
          /\ \A m \in 1..(f2.offset - 1) : m \in 1..(fetch[g].offset - 1)
      BY <2>3, <2>7
    <2> QED BY <1>3, <2>1, <2>6, <2>8, ThreadKeeps
  <1>5. CASE g \notin stop
    <2>1. fetch' = [fetch EXCEPT ![g] = fp] /\ queue' = [queue EXCEPT ![g] = q]
      BY <1>5 DEF Loop
    <2>2. /\ Has(fetch[g], queue[g], worker[g]) \subseteq done' \cup dropped' \cup Has(fp, q, worker[g])
          /\ \A m \in 1..(fp.offset - 1) : m \in 1..(fetch[g].offset - 1)
      BY <1>2 DEF Has
    <2> QED BY <1>3, <2>1, <2>2, ThreadKeeps
  <1> QED BY <1>4, <1>5

LEMMA FetchNothingKeeps ==
  ASSUME IInv, NEW g \in Gens, FetchNothing(g)
  PROVE  IInv'
  <1>1. /\ fetch[g].at = "poll" /\ Loop(g, queue[g])
        /\ confirmed' \in {confirmed, Larger(confirmed, fetch[g].offset - 1)}
        /\ UNCHANGED <<sent, gen, worker, last, done, dropped>>
    BY DEF FetchNothing, Forget, history
  <1>2. /\ Sound(sent, fetch[g], queue[g], worker[g], last[g])
        /\ fetch[g] \in [at : {"dead", "poll", "dispatch"}, offset : Nat, batch : Seq(Nat)]
    BY GenerationOf
  <1>3. fetch[g].batch = <<>>
    BY <1>1, <1>2 DEF Sound, Tidy
  <1>4. fetch[g] = [fetch[g] EXCEPT !.at = "poll", !.batch = <<>>]
    BY <1>1, <1>2, <1>3
  <1>5. Has(fetch[g], queue[g], worker[g]) \subseteq
          UNION {Entries(queue[g][w]) \cup Busy(worker[g], w) : w \in Workers}
    BY <1>3, EntriesEmpty DEF Has
  <1> QED BY <1>1, <1>2, <1>4, <1>5, LoopKeeps

LEMMA DispatchKeeps ==
  ASSUME IInv, NEW g \in Gens, Dispatch(g)
  PROVE  IInv'
  <1> DEFINE f == fetch[g]
             m == Head(f.batch)
             w == WorkerOf[ChatOf(m)]
             q == [queue[g] EXCEPT ![w] = IF Works(g, w) THEN Append(@, m) ELSE @]
  <1>1. f.at = "dispatch" /\ HandTo(g, w, m)
    BY DEF Dispatch
  <1>2. /\ Sound(sent, f, queue[g], worker[g], last[g])
        /\ f \in [at : {"dead", "poll", "dispatch"}, offset : Nat, batch : Seq(Nat)]
        /\ queue[g] \in [Workers -> Seq(Nat)]
        /\ worker = [worker EXCEPT ![g] = worker[g]] /\ last = [last EXCEPT ![g] = last[g]]
        /\ gen \in gen..MaxStarts /\ g <= gen
    BY <1>1, GenerationOf
  <1>3. Messages(sent)
    BY SentMessages DEF IInv
  <1>4. f.batch # <<>> /\ f.batch \in Seq(Nat)
    BY <1>1, <1>2 DEF Sound, Tidy
  <1>5. /\ Tail(f.batch) \in Seq(Nat) /\ m \in Nat
        /\ Entries(f.batch) = ({m} \ {Quit}) \cup Entries(Tail(f.batch))
    BY <1>4, TailEntries
  <1>6. m \in 1..Len(sent)
    <2>1. m \in Entries(f.batch)
      <3>1. 1 \in 1..Len(f.batch) /\ m = f.batch[1]
        BY <1>4, EmptySeq, HeadTailProperties
      <3>2. m # Quit
        BY <1>2, <3>1 DEF Sound, Tidy
      <3> QED BY <1>5, <3>2
    <2> QED BY <1>2, <2>1 DEF Sound, BatchOrdered
  <1>7. w \in Workers /\ w = WorkerOf[sent[m].chat]
    BY <1>3, <1>6, ConstantsOK DEF Messages, ChatOf
  <1>9. /\ dropped' = IF Works(g, w) THEN dropped ELSE dropped \cup {m}
        /\ UNCHANGED <<sent, confirmed, gen, worker, last, done>>
    BY <1>1 DEF HandTo
  <1> HIDE DEF w
  <1>10. /\ \A v \in Workers \ {w} : q[v] = queue[g][v]
         /\ Works(g, w) => q[w] = Append(queue[g][w], m)
         /\ ~Works(g, w) => q[w] = queue[g][w]
    BY <1>2, <1>7
  <1>11. Entries(Append(queue[g][w], m)) = Entries(queue[g][w]) \cup ({m} \ {Quit})
    <2>1. queue[g][w] \in Seq(Nat)
      BY <1>2, <1>7
    <2> QED BY <1>5, <2>1, AppendEntries
  <1>17. q \in [Workers -> Seq(Nat)]
    <2> DEFINE x == IF Works(g, w) THEN Append(queue[g][w], m) ELSE queue[g][w]
    <2>1. queue[g][w] \in Seq(Nat)
      BY <1>2, <1>7
    <2>2. x \in Seq(Nat)
      BY <1>5, <2>1, AppendEntries
    <2> HIDE DEF x
    <2>3. [queue[g] EXCEPT ![w] = x] \in [Workers -> Seq(Nat)]
      BY <1>2, <2>2
    <2> QED BY <2>3 DEF x
  <1> HIDE DEF q, m, f
  <1>12. /\ \A v \in Workers : Entries(queue[g][v]) \subseteq Entries(q[v])
         /\ ({m} \ {Quit}) \subseteq dropped' \cup Entries(q[w])
    BY <1>7, <1>9, <1>10, <1>11
  <1>13. Has(f, queue[g], worker[g]) \subseteq
           done' \cup dropped' \cup Entries(Tail(f.batch))
             \cup UNION {Entries(q[v]) \cup Busy(worker[g], v) : v \in Workers}
    BY <1>5, <1>7, <1>12, SMTT(20) DEF Has
  <1>14. done \subseteq done' /\ dropped \subseteq dropped'
    BY <1>9
  <1>15. CASE Len(f.batch) = 1
    <2>1. Tail(f.batch) = <<>>
      BY <1>4, <1>15, TailLength
    <2>2. Loop(g, q)
      BY <1>1, <1>15 DEF HandTo, q, f
    <2> DEFINE fp == [f EXCEPT !.at = "poll", !.batch = Tail(f.batch)]
    <2>3. Sound(sent, fp, q, worker[g], last[g])
      <3>1. /\ fp \in [at : {"dead", "poll", "dispatch"}, offset : Nat, batch : Seq(Nat)]
            /\ fp.at = "poll" /\ fp.batch = Tail(f.batch) /\ fp.offset = f.offset
        BY <1>2, <1>5
      <3> HIDE DEF fp
      <3>2. Typed(fp, q, worker[g], last[g])
        BY <1>2, <1>17, <3>1 DEF Sound, Typed
      <3>3. Handed(f, queue[g], worker[g], w, fp, q)
        BY <1>10, <2>1, <3>1 DEF Handed, Works, m
      <3> QED BY <1>2, <1>3, <1>4, <1>7, <3>2, <3>3, HandSound DEF m
    <2>4. fp = [fetch[g] EXCEPT !.at = "poll", !.batch = <<>>]
      BY <2>1 DEF f
    <2> HIDE DEF fp
    <2>5. Entries(Tail(f.batch)) = {}
      BY <2>1, EntriesEmpty
    <2>6. Has(fetch[g], queue[g], worker[g]) \subseteq
            done' \cup dropped' \cup UNION {Entries(q[v]) \cup Busy(worker[g], v) : v \in Workers}
      BY <1>13, <2>5 DEF f
    <2>7. UNCHANGED <<sent, gen, worker, last>>
          /\ confirmed' \in {confirmed, Larger(confirmed, fetch[g].offset - 1)}
          /\ fetch[g].at # "dead"
      BY <1>1, <1>9 DEF f
    <2> QED BY <1>14, <2>2, <2>3, <2>4, <2>6, <2>7, LoopKeeps
  <1>16. CASE Len(f.batch) # 1
    <2>1. Tail(f.batch) # <<>>
      BY <1>4, <1>16, TailLength
    <2> DEFINE f2 == [f EXCEPT !.at = "dispatch", !.batch = Tail(f.batch)]
    <2>2. Sound(sent, f2, q, worker[g], last[g])
      <3>1. /\ f2 \in [at : {"dead", "poll", "dispatch"}, offset : Nat, batch : Seq(Nat)]
            /\ f2.at = "dispatch" /\ f2.batch = Tail(f.batch) /\ f2.offset = f.offset
        BY <1>2, <1>5
      <3> HIDE DEF f2
      <3>2. Typed(f2, q, worker[g], last[g])
        BY <1>2, <1>17, <3>1 DEF Sound, Typed
      <3>3. Handed(f, queue[g], worker[g], w, f2, q)
        BY <1>10, <2>1, <3>1 DEF Handed, Works, m
      <3> QED BY <1>2, <1>3, <1>4, <1>7, <3>2, <3>3, HandSound DEF m
    <2>3. f2.batch = Tail(f.batch) /\ f2.offset = f.offset /\ f2 = [f EXCEPT !.batch = Tail(f.batch)]
      BY <1>1, <1>2
    <2>4. fetch' = [fetch EXCEPT ![g] = f2] /\ queue' = [queue EXCEPT ![g] = q]
      <3>1. fetch' = [fetch EXCEPT ![g] = [f EXCEPT !.batch = Tail(f.batch)]]
        BY <1>1, <1>16 DEF HandTo, f
      <3>2. queue' = [queue EXCEPT ![g] = q]
        BY <1>1, <1>16 DEF HandTo, q, f
      <3> QED BY <2>3, <3>1, <3>2
    <2> HIDE DEF f2
    <2>5. Has(fetch[g], queue[g], worker[g]) \subseteq done' \cup dropped' \cup Has(f2, q, worker[g])
      BY <1>13, <2>3 DEF Has, f
    <2>6. /\ UNCHANGED sent /\ gen' \in gen..MaxStarts /\ g <= gen'
          /\ confirmed' \in {confirmed, Larger(confirmed, fetch[g].offset - 1)}
          /\ worker' = [worker EXCEPT ![g] = worker[g]] /\ last' = [last EXCEPT ![g] = last[g]]
      BY <1>2, <1>9
    <2>7. \A n \in 1..(f2.offset - 1) : n \in 1..(fetch[g].offset - 1)
      BY <2>3 DEF f
    <2> QED BY <1>14, <2>2, <2>4, <2>5, <2>6, <2>7, ThreadKeeps
  <1> QED BY <1>15, <1>16

-----------------------------------------------------------------------------
(* The workers.                                                            *)

LEMMA FinishKeeps ==
  ASSUME IInv, NEW g \in Gens, NEW w \in Workers, worker[g][w].at # "gone",
         NEW m \in Entries(queue[g][w]) \cup Busy(worker[g], w),
         NEW p \in Seq(Nat), Increasing(p), Entries(p) \subseteq Entries(queue[g][w]),
         \A n \in Entries(p) : m < n,
         Entries(queue[g][w]) \cup Busy(worker[g], w) \subseteq {m} \cup Entries(p),
         Finish(g, w, m, p), UNCHANGED <<sent, confirmed, gen, fetch>>
  PROVE  IInv'
  <1> DEFINE stage == IF g \in stop THEN "gone" ELSE "get"
             p2 == IF g \in stop THEN <<>> ELSE p
             q2 == [queue[g] EXCEPT ![w] = p2]
             b2 == [worker[g] EXCEPT ![w] = [at |-> stage, id |-> Quit]]
             l2 == [last[g] EXCEPT ![sent[m].chat] = m]
  <1>1. /\ Sound(sent, fetch[g], queue[g], worker[g], last[g])
        /\ fetch = [fetch EXCEPT ![g] = fetch[g]]
        /\ queue[g] \in [Workers -> Seq(Nat)]
        /\ worker[g] \in [Workers -> [at : {"gone", "get", "save"}, id : Nat]]
        /\ gen \in gen..MaxStarts /\ g <= gen
    BY GenerationOf
  <1>2. Messages(sent)
    BY SentMessages DEF IInv
  <1>3. /\ queue' = [queue EXCEPT ![g] = q2] /\ worker' = [worker EXCEPT ![g] = b2]
        /\ last' = [last EXCEPT ![g] = l2]
        /\ done' = done \cup {m}
        /\ dropped' = dropped \cup (IF g \in stop THEN Entries(p) ELSE {})
    BY DEF Finish, Turn, ChatOf
  <1>4. p2 \in {p, <<>>} /\ stage \in {"get", "gone"} /\ (stage = "gone" => p2 = <<>>)
    OBVIOUS
  <1>5. b2[w].id = Quit /\ q2[w] = p2 /\ \A v \in Workers \ {w} : b2[v] = worker[g][v] /\ q2[v] = queue[g][v]
    BY <1>1
  <1>6. Entries(p) \subseteq dropped' \cup Entries(p2)
    BY <1>3
  <1> HIDE DEF p2, stage
  <1>7. Sound(sent, fetch[g], q2, b2, l2)
    BY <1>1, <1>2, <1>4, FinishSound
  <1> HIDE DEF q2, b2, l2
  <1>8. Has(fetch[g], queue[g], worker[g]) \subseteq done' \cup dropped' \cup Has(fetch[g], q2, b2)
    <2>1. Entries(queue[g][w]) \cup Busy(worker[g], w) \subseteq done' \cup dropped' \cup Entries(q2[w])
      BY <1>3, <1>5, <1>6
    <2>2. \A v \in Workers \ {w} : Entries(queue[g][v]) \cup Busy(worker[g], v)
                                     = Entries(q2[v]) \cup Busy(b2, v)
      BY <1>5 DEF Busy
    <2>3. \A v \in Workers : Entries(queue[g][v]) \cup Busy(worker[g], v)
            \subseteq done' \cup dropped' \cup Has(fetch[g], q2, b2)
      BY <2>1, <2>2 DEF Has
    <2> QED BY <2>3 DEF Has
  <1>9. /\ UNCHANGED sent /\ gen' \in gen..MaxStarts /\ g <= gen'
        /\ confirmed' \in {confirmed, Larger(confirmed, fetch[g].offset - 1)}
        /\ fetch' = [fetch EXCEPT ![g] = fetch[g]]
        /\ done \subseteq done' /\ dropped \subseteq dropped'
        /\ \A n \in 1..(fetch[g].offset - 1) : n \in 1..(fetch[g].offset - 1)
    BY <1>1, <1>3
  <1> QED BY <1>3, <1>7, <1>8, <1>9, ThreadKeeps

LEMMA TakeKeeps ==
  ASSUME IInv, NEW g \in Gens, NEW w \in Workers, Take(g, w)
  PROVE  IInv'
  <1> DEFINE m == Head(queue[g][w])
             p == Tail(queue[g][w])
             q2 == [queue[g] EXCEPT ![w] = p]
             b2 == [worker[g] EXCEPT ![w] = [at |-> "save", id |-> m]]
  <1>1. /\ worker[g][w].at = "get" /\ queue[g][w] # <<>> /\ m # Quit
        /\ UNCHANGED <<sent, confirmed, gen, fetch>>
        /\ \/ /\ worker' = [worker EXCEPT ![g] = b2] /\ queue' = [queue EXCEPT ![g] = q2]
              /\ UNCHANGED <<last, done, dropped>>
           \/ Finish(g, w, m, p)
    BY DEF Take, history
  <1>2. /\ Sound(sent, fetch[g], queue[g], worker[g], last[g])
        /\ fetch = [fetch EXCEPT ![g] = fetch[g]] /\ last = [last EXCEPT ![g] = last[g]]
        /\ queue[g] \in [Workers -> Seq(Nat)]
        /\ worker[g] \in [Workers -> [at : {"gone", "get", "save"}, id : Nat]]
        /\ gen \in gen..MaxStarts /\ g <= gen
    BY <1>1, GenerationOf
  <1>3. /\ p \in Seq(Nat) /\ m \in Nat /\ Increasing(p)
        /\ Entries(queue[g][w]) = {m} \cup Entries(p)
        /\ \A n \in Entries(p) : m < n
    <2>1. Increasing(queue[g][w]) /\ queue[g][w] \in Seq(Nat)
      BY <1>2 DEF Sound, LineOrdered
    <2> QED BY <1>1, <2>1, TailEntries
  <1>4. Busy(worker[g], w) = {}
    BY <1>1, <1>2 DEF Sound, Tidy, Busy
  <1>5. CASE Finish(g, w, m, p)
    BY <1>1, <1>3, <1>4, <1>5, FinishKeeps
  <1>6. CASE /\ worker' = [worker EXCEPT ![g] = b2] /\ queue' = [queue EXCEPT ![g] = q2]
             /\ UNCHANGED <<last, done, dropped>>
    <2>1. Sound(sent, fetch[g], q2, b2, last[g])
      BY <1>1, <1>2, TakeSound, SentMessages DEF IInv
    <2>2. /\ b2[w].id = m /\ q2[w] = p
          /\ \A v \in Workers \ {w} : b2[v] = worker[g][v] /\ q2[v] = queue[g][v]
      BY <1>2
    <2> HIDE DEF q2, b2, m, p
    <2>3. Has(fetch[g], queue[g], worker[g]) \subseteq Has(fetch[g], q2, b2)
      <3>1. Entries(queue[g][w]) \cup Busy(worker[g], w) \subseteq Entries(q2[w]) \cup Busy(b2, w)
        BY <1>1, <1>3, <1>4, <2>2 DEF Busy
      <3>2. \A v \in Workers \ {w} : Entries(queue[g][v]) \cup Busy(worker[g], v)
                                       = Entries(q2[v]) \cup Busy(b2, v)
        BY <2>2 DEF Busy
      <3>3. \A v \in Workers : Entries(queue[g][v]) \cup Busy(worker[g], v)
              \subseteq Has(fetch[g], q2, b2)
        BY <3>1, <3>2 DEF Has
      <3> QED BY <3>3 DEF Has
    <2>4. /\ UNCHANGED sent /\ gen' \in gen..MaxStarts /\ g <= gen'
          /\ confirmed' \in {confirmed, Larger(confirmed, fetch[g].offset - 1)}
          /\ fetch' = [fetch EXCEPT ![g] = fetch[g]] /\ last' = [last EXCEPT ![g] = last[g]]
          /\ done \subseteq done' /\ dropped \subseteq dropped'
          /\ \A n \in 1..(fetch[g].offset - 1) : n \in 1..(fetch[g].offset - 1)
      BY <1>1, <1>2, <1>6
    <2>5. Has(fetch[g], queue[g], worker[g]) \subseteq done' \cup dropped' \cup Has(fetch[g], q2, b2)
      BY <2>3
    <2> QED BY <1>6, <2>1, <2>4, <2>5, ThreadKeeps
  <1> QED BY <1>1, <1>5, <1>6

LEMMA SaveKeeps ==
  ASSUME IInv, NEW g \in Gens, NEW w \in Workers, Save(g, w)
  PROVE  IInv'
  <1> DEFINE m == worker[g][w].id
             p == queue[g][w]
  <1>1. /\ worker[g][w].at = "save" /\ Finish(g, w, m, p)
        /\ UNCHANGED <<sent, confirmed, gen, fetch>>
    BY DEF Save
  <1>2. /\ Sound(sent, fetch[g], queue[g], worker[g], last[g])
        /\ queue[g] \in [Workers -> Seq(Nat)]
    BY GenerationOf
  <1>3. m # Quit /\ Busy(worker[g], w) = {m}
    BY <1>1, <1>2 DEF Sound, Tidy, Busy
  <1>4. p \in Seq(Nat) /\ Increasing(p) /\ \A n \in Entries(p) : m < n
    BY <1>2, <1>3 DEF Sound, LineOrdered
  <1>5. worker[g][w].at # "gone"
    BY <1>1
  <1> QED BY <1>1, <1>3, <1>4, <1>5, FinishKeeps

LEMMA WakeKeeps ==
  ASSUME IInv, NEW g \in Gens, NEW w \in Workers, Wake(g, w)
  PROVE  IInv'
  <1> DEFINE q2 == [queue[g] EXCEPT ![w] = <<>>]
             b2 == [worker[g] EXCEPT ![w] = [at |-> "gone", id |-> Quit]]
  <1>1. /\ worker[g][w].at = "get" /\ Entries(queue[g][w]) = {}
        /\ worker' = [worker EXCEPT ![g] = b2] /\ queue' = [queue EXCEPT ![g] = q2]
        /\ UNCHANGED <<sent, confirmed, gen, fetch, last, done>>
        /\ dropped \subseteq dropped'
    BY DEF Wake, Turn
  <1>2. /\ Sound(sent, fetch[g], queue[g], worker[g], last[g])
        /\ fetch = [fetch EXCEPT ![g] = fetch[g]] /\ last = [last EXCEPT ![g] = last[g]]
        /\ queue[g] \in [Workers -> Seq(Nat)]
        /\ worker[g] \in [Workers -> [at : {"gone", "get", "save"}, id : Nat]]
        /\ gen \in gen..MaxStarts /\ g <= gen
    BY <1>1, GenerationOf
  <1>3. Sound(sent, fetch[g], q2, b2, last[g])
    BY <1>2, WakeSound
  <1>4. Busy(worker[g], w) = {}
    BY <1>1, <1>2 DEF Sound, Tidy, Busy
  <1>5. \A v \in Workers \ {w} : b2[v] = worker[g][v] /\ q2[v] = queue[g][v]
    BY <1>2
  <1> HIDE DEF q2, b2
  <1>6. Has(fetch[g], queue[g], worker[g]) \subseteq done' \cup dropped' \cup Has(fetch[g], q2, b2)
    <2>1. \A v \in Workers \ {w} : Entries(queue[g][v]) \cup Busy(worker[g], v)
                                     = Entries(q2[v]) \cup Busy(b2, v)
      BY <1>5 DEF Busy
    <2>2. \A v \in Workers : Entries(queue[g][v]) \cup Busy(worker[g], v)
            \subseteq Has(fetch[g], q2, b2)
      BY <1>1, <1>4, <2>1 DEF Has
    <2> QED BY <2>2 DEF Has
  <1>7. /\ UNCHANGED sent /\ gen' \in gen..MaxStarts /\ g <= gen'
        /\ confirmed' \in {confirmed, Larger(confirmed, fetch[g].offset - 1)}
        /\ fetch' = [fetch EXCEPT ![g] = fetch[g]] /\ last' = [last EXCEPT ![g] = last[g]]
        /\ done \subseteq done'
        /\ \A n \in 1..(fetch[g].offset - 1) : n \in 1..(fetch[g].offset - 1)
    BY <1>1, <1>2
  <1> QED BY <1>1, <1>3, <1>6, <1>7, ThreadKeeps

-----------------------------------------------------------------------------
(* The process dies, and the rest.                                         *)

LEMMA CrashKeeps ==
  ASSUME IInv, Crash
  PROVE  IInv'
  <1> DEFINE idle == [at |-> "gone", id |-> Quit]
             none == [w \in Workers |-> <<>>]
             off == [w \in Workers |-> idle]
  <1>1. /\ UNCHANGED <<sent, confirmed, gen, last, done>>
        /\ fetch' = [g \in Gens |-> [fetch[g] EXCEPT !.at = "dead", !.batch = <<>>]]
        /\ queue' = [g \in Gens |-> none] /\ worker' = [g \in Gens |-> off]
        /\ dropped' = dropped \cup UNION {Held(g) : g \in Gens}
    BY DEF Crash
  <1>2. <<>> \in Seq(Nat) /\ Quit \in Nat
    BY EmptySeq DEF Quit
  <1>3. idle \in [at : {"gone", "get", "save"}, id : Nat] /\ idle.at = "gone" /\ idle.id = Quit
    BY <1>2
  <1>4. ASSUME NEW g \in Gens
        PROVE  /\ fetch'[g] \in [at : {"dead", "poll", "dispatch"}, offset : Nat,
                                 batch : Seq(Nat)]
               /\ fetch'[g].at = "dead" /\ fetch'[g].batch = <<>>
               /\ fetch'[g].offset = fetch[g].offset
    <2>1. fetch[g] \in [at : {"dead", "poll", "dispatch"}, offset : Nat, batch : Seq(Nat)]
      BY GenerationOf
    <2> QED BY <1>1, <1>2, <2>1
  <1> HIDE DEF idle
  <1>5. none \in [Workers -> Seq(Nat)] /\ \A w \in Workers : none[w] = <<>>
    BY <1>2
  <1>6. /\ off \in [Workers -> [at : {"gone", "get", "save"}, id : Nat]]
        /\ \A w \in Workers : off[w].at = "gone" /\ off[w].id = Quit
    BY <1>3
  <1> HIDE DEF none, off
  <1>7. ASSUME NEW g \in Gens
        PROVE  Sound(sent', fetch'[g], queue'[g], worker'[g], last'[g])
    <2>1. Sound(sent, fetch[g], queue[g], worker[g], last[g])
      BY GenerationOf
    <2>2. queue'[g] = none /\ worker'[g] = off /\ last'[g] = last[g] /\ sent' = sent
      BY <1>1
    <2>3. Typed(fetch'[g], none, off, last[g]) /\ Tidy(fetch'[g], none, off)
      <3>1. Typed(fetch'[g], none, off, last[g])
        BY <1>4, <1>5, <1>6, <2>1 DEF Sound, Typed
      <3>2. Tidy(fetch'[g], none, off)
        <4>1. Len(<<>>) = 0
          BY EmptySeq
        <4> QED BY <1>4, <1>5, <1>6, <4>1 DEF Tidy
      <3> QED BY <3>1, <3>2
    <2>4. Entries(fetch'[g].batch) = {} /\ Increasing(fetch'[g].batch)
      BY <1>4, EntriesEmpty
    <2>5. BatchOrdered(sent, fetch'[g].offset, {}, last[g])
      BY <1>4, <2>1 DEF Sound, BatchOrdered
    <2>6. \A w \in Workers : LineOrdered(sent, fetch'[g].offset, {}, last[g], w, none[w], Busy(off, w))
      BY <1>5, <1>6, EntriesEmpty DEF LineOrdered, Busy
    <2> QED BY <2>2, <2>3, <2>4, <2>5, <2>6 DEF Sound
  <1>8. TablesOK'
    <2>1. fetch' \in [Gens -> [at : {"dead", "poll", "dispatch"}, offset : Nat,
                               batch : Seq(Nat)]]
      BY <1>1, <1>4
    <2>2. /\ queue' \in [Gens -> [Workers -> Seq(Nat)]]
          /\ worker' \in [Gens -> [Workers -> [at : {"gone", "get", "save"}, id : Nat]]]
      BY <1>1, <1>5, <1>6
    <2> QED BY <1>1, <2>1, <2>2 DEF IInv, TablesOK
  <1>9. Accounted \subseteq Accounted'
    BY <1>1 DEF Accounted
  <1>10. Unborn'
    BY <1>1, <1>4, <1>6 DEF Unborn
  <1>11. Orderly' /\ NothingSkipped'
    BY <1>4, <1>7, <1>9 DEF IInv, Orderly, NothingSkipped
  <1> QED BY <1>1, <1>8, <1>9, <1>10, <1>11 DEF IInv, NothingLost, Accounted

LEMMA ManageKeeps ==
  ASSUME IInv, NEW t, SaveToken(t) \/ StartPolling \/ StopPolling
  PROVE  IInv'
  <1>1. UNCHANGED <<sent, confirmed, last, done, dropped>>
    BY DEF SaveToken, StartPolling, StopPolling, history
  <1>2. Start(t) \/ Start(saved) \/ Stop \/ UNCHANGED poller
    BY DEF SaveToken, StartPolling, StopPolling
  <1>3. CASE UNCHANGED poller
    BY <1>1, <1>3, IdleKeeps DEF poller
  <1> QED BY <1>1, <1>2, <1>3, StartKeeps, StopKeeps

LEMMA StepKeeps ==
  ASSUME IInv, [Next]_vars
  PROVE  IInv'
  <1>1. ASSUME NEW c \in Chats, NEW k \in Kinds, Send(c, k)
        PROVE  IInv'
    BY <1>1, SendKeeps
  <1>2. ASSUME NEW t \in 0..MaxTokens, SaveToken(t)
        PROVE  IInv'
    BY <1>2, ManageKeeps
  <1>3. CASE StartPolling \/ StopPolling
    BY <1>3, ManageKeeps
  <1>4. CASE Crash
    BY <1>4, CrashKeeps
  <1>5. ASSUME NEW g \in Gens, Thread(g)
        PROVE  IInv'
    BY <1>5, FetchKeeps, FetchNothingKeeps, DispatchKeeps, TakeKeeps, WakeKeeps, SaveKeeps
       DEF Thread
  <1>6. ASSUME NEW c \in Chats, ToggleBlock(c) \/ DeleteUser(c) \/ LinkStudent(c)
        PROVE  IInv'
    <2>1. UNCHANGED <<sent, confirmed, poller, history>>
      BY <1>6 DEF ToggleBlock, DeleteUser, LinkStudent, Panel
    <2> QED BY <2>1, IdleKeeps DEF poller, history
  <1>7. CASE \/ \E type \in {"all", "verified", "students"} : Broadcast(type)
             \/ \E c \in Chats, ok \in BOOLEAN : CastSend(c, ok)
             \/ CastEnd \/ CastEndFails \/ UNCHANGED vars
    <2>1. UNCHANGED <<sent, confirmed, poller, history>>
      BY <1>7 DEF Broadcast, CastSend, CastEnd, CastEndFails, vars
    <2> QED BY <2>1, IdleKeeps DEF poller, history
  <1> QED BY <1>1, <1>2, <1>3, <1>4, <1>5, <1>6, <1>7 DEF Next

LEMMA InitHolds == Init => IInv
  <1> SUFFICES ASSUME Init
               PROVE  IInv
    OBVIOUS
  <1> DEFINE idle == [at |-> "gone", id |-> Quit]
             thread == [at |-> "dead", offset |-> 0, batch |-> <<>>]
  <1>1. <<>> \in Seq(Nat) /\ Quit \in Nat /\ Len(<<>>) = 0
    BY EmptySeq DEF Quit
  <1>2. idle \in [at : {"gone", "get", "save"}, id : Nat] /\ idle.at = "gone" /\ idle.id = Quit
    BY <1>1
  <1>3. /\ thread \in [at : {"dead", "poll", "dispatch"}, offset : Nat, batch : Seq(Nat)]
        /\ thread.at = "dead" /\ thread.offset = 0 /\ thread.batch = <<>>
    BY <1>1
  <1>4. /\ sent = <<>> /\ confirmed = 0 /\ gen = 0
        /\ fetch = [g \in Gens |-> thread]
        /\ queue = [g \in Gens |-> [w \in Workers |-> <<>>]]
        /\ worker = [g \in Gens |-> [w \in Workers |-> idle]]
        /\ last = [g \in Gens |-> [c \in Chats |-> 0]]
    BY DEF Init
  <1> HIDE DEF idle, thread
  <1>5. TablesOK
    <2>1. sent \in Seq([chat : Chats, body : Kinds]) /\ gen \in 0..MaxStarts
      BY <1>4, ConstantsOK, EmptySeq
    <2> QED BY <1>1, <1>2, <1>3, <1>4, <2>1 DEF TablesOK
  <1>6. ASSUME NEW g \in Gens
        PROVE  Sound(sent, fetch[g], queue[g], worker[g], last[g])
    <2>1. /\ fetch[g] = thread /\ \A w \in Workers : queue[g][w] = <<>> /\ worker[g][w] = idle
          /\ \A c \in Chats : last[g][c] = 0
      BY <1>4
    <2>2. Typed(fetch[g], queue[g], worker[g], last[g])
      BY <1>5 DEF TablesOK, Typed
    <2>3. Tidy(fetch[g], queue[g], worker[g])
      BY <1>1, <1>2, <1>3, <2>1 DEF Tidy
    <2>4. Entries(fetch[g].batch) = {} /\ Increasing(fetch[g].batch)
      BY <1>3, <2>1, EntriesEmpty
    <2>5. BatchOrdered(sent, fetch[g].offset, {}, last[g])
      BY <2>1 DEF BatchOrdered
    <2>6. \A w \in Workers : LineOrdered(sent, fetch[g].offset, {}, last[g], w, queue[g][w],
                                         Busy(worker[g], w))
      BY <1>2, <2>1, EntriesEmpty DEF LineOrdered, Busy
    <2> QED BY <2>2, <2>3, <2>4, <2>5, <2>6 DEF Sound
  <1>7. Orderly
    BY <1>6 DEF Orderly
  <1>8. Unborn
    BY <1>2, <1>3, <1>4 DEF Unborn
  <1>9. NothingSkipped /\ NothingLost
    BY <1>3, <1>4 DEF NothingSkipped, NothingLost
  <1> QED BY <1>5, <1>7, <1>8, <1>9 DEF IInv

LEMMA OrderFromInv == IInv => InOrderOnce
  <1> SUFFICES ASSUME IInv, NEW g \in Gens, NEW m \in Held(g)
               PROVE  m > last[g][ChatOf(m)]
    BY DEF InOrderOnce
  <1>1. /\ Sound(sent, fetch[g], queue[g], worker[g], last[g]) /\ last[g] \in [Chats -> Nat]
    BY GenerationOf
  <1>2. Messages(sent)
    BY SentMessages DEF IInv
  <1>3. CASE m \in Entries(fetch[g].batch)
    <2>1. m \in 1..Len(sent) /\ \A c \in Chats : last[g][c] < m
      BY <1>1, <1>3 DEF Sound, BatchOrdered
    <2>2. ChatOf(m) \in Chats
      BY <1>2, <2>1 DEF Messages, ChatOf
    <2> QED BY <1>1, <1>2, <2>1, <2>2 DEF Messages
  <1>4. ASSUME NEW w \in Workers, m \in Entries(queue[g][w]) \cup Busy(worker[g], w)
        PROVE  m > last[g][ChatOf(m)]
    <2>1. m \in 1..Len(sent) /\ last[g][sent[m].chat] < m
      BY <1>1, <1>4 DEF Sound, LineOrdered
    <2> QED BY <1>1, <1>2, <2>1 DEF Messages, ChatOf
  <1> QED BY <1>3, <1>4 DEF Held, Busy

-----------------------------------------------------------------------------
(* The tables of the poller keep their types.                              *)
THEOREM TypeCorrect == Spec => []TablesOK
  <1>1. Init => IInv
    BY InitHolds
  <1>2. IInv /\ [Next]_vars => IInv'
    BY StepKeeps
  <1>3. IInv => TablesOK
    BY DEF IInv
  <1> QED BY <1>1, <1>2, <1>3, PTL DEF Spec

(* _dispatch() and _worker_loop(): a generation handles the messages of a  *)
(* chat in the order they were sent and each at most once, whatever its    *)
(* workers, the other generations and the crashes do.                      *)
THEOREM InOrderOnceAlways == Spec => []InOrderOnce
  <1>1. Init => IInv
    BY InitHolds
  <1>2. IInv /\ [Next]_vars => IInv'
    BY StepKeeps
  <1> QED BY <1>1, <1>2, OrderFromInv, PTL DEF Spec

(* _fetch_loop(): what getUpdates makes the server forget was handled, is  *)
(* with a worker, or was thrown away when its generation stopped.          *)
THEOREM NothingLostAlways == Spec => []NothingLost
  <1>1. Init => IInv
    BY InitHolds
  <1>2. IInv /\ [Next]_vars => IInv'
    BY StepKeeps
  <1>3. IInv => NothingLost
    BY DEF IInv
  <1> QED BY <1>1, <1>2, <1>3, PTL DEF Spec
=============================================================================
