------------------------------- MODULE RateLimit -------------------------------
(***************************************************************************)
(* The limit on calls of the API (utils/rate_limit.py, as                  *)
(* bootstrap/middleware.py uses it), for one address and path in one       *)
(* worker process.  A request reads the clock before it takes the lock, so *)
(* that stamps may be entered out of order.                                *)
(***************************************************************************)
EXTENDS Integers, Sequences, FiniteSetsExt

CONSTANTS
  Sessions,      \* server threads that handle requests
  Limit,         \* ACADEMY_RATE_LIMIT
  Period,        \* ACADEMY_RATE_PERIOD
  LastSecond     \* bound: the clock

VARIABLES
  second,    \* the clock
  bucket,    \* _buckets of the address and path
  req,       \* the request each session is in
  passed     \* history: what the requests that were let through read off the clock

vars == <<second, bucket, req, passed>>

Idle == [op |-> "idle"]

Init ==
  /\ second = 1
  /\ bucket = <<>>
  /\ req = [w \in Sessions |-> Idle]
  /\ passed = <<>>

(* Stamps are dropped from the left as far as they are too old.            *)
Kept(cutoff) ==
  LET n == Min({i \in DOMAIN bucket : bucket[i] >= cutoff} \cup {Len(bucket) + 1})
  IN  SubSeq(bucket, n, Len(bucket))

Arrive(w) ==
  /\ req[w] = Idle
  /\ req' = [req EXCEPT ![w] = [op |-> "arrived", now |-> second]]
  /\ UNCHANGED <<second, bucket, passed>>

hit(w) ==
  LET now == req[w].now
      stamps == Kept(now - Period)
  IN
  /\ req[w].op = "arrived"
  /\ IF Len(stamps) >= Limit
     THEN /\ bucket' = stamps
          /\ req' = [req EXCEPT ![w] = Idle]
          /\ UNCHANGED passed
     ELSE /\ bucket' = Append(stamps, now)
          /\ req' = [req EXCEPT ![w] = [op |-> "passed"]]
          /\ passed' = Append(passed, now)
  /\ UNCHANGED second

(* For the header of the answer; it drops stamps, too.                     *)
remaining(w) ==
  /\ req[w].op = "passed"
  /\ bucket' = Kept(second - Period)
  /\ req' = [req EXCEPT ![w] = Idle]
  /\ UNCHANGED <<second, passed>>

Tick ==
  /\ second < LastSecond
  /\ second' = second + 1
  /\ UNCHANGED <<bucket, req, passed>>

Next ==
  \/ \E w \in Sessions : Arrive(w) \/ hit(w) \/ remaining(w)
  \/ Tick

Spec == Init /\ [][Next]_vars

-----------------------------------------------------------------------------
(***************************************************************************)
(* Properties.                                                             *)
(***************************************************************************)

(* No period holds more calls that were let through than the limit, but    *)
(* for one call of each other thread that read the clock and was overtaken.*)
NotFlooded ==
  \A t \in 1..LastSecond :
    Cardinality({i \in DOMAIN passed : passed[i] \in (t - Period)..t})
      <= Limit + Cardinality(Sessions) - 1
=============================================================================
