----------------------------- MODULE RateLimiter -----------------------------
(***************************************************************************)
(* core/rate_limit.py.  A request passes the counter of its address        *)
(* (RateLimitMiddleware) and, on some endpoints, the counter of its user   *)
(* there (rate_limit).  Each counter is met by _hit: INCR and TTL in one   *)
(* MULTI, then, at the beginning of a window or when the key has no time   *)
(* to live, EXPIRE in a call of its own, between which other requests run  *)
(* and this one may stop.  Redis failing at either call lets the request   *)
(* pass (fail-open).                                                       *)
(*                                                                         *)
(* The tick is the unit of the window; a key set to expire in n ticks is   *)
(* gone after n of them.                                                   *)
(***************************************************************************)
EXTENDS Integers, Sequences

CONSTANTS
  Keys,      \* counters: one for an address, one for a user on an endpoint
  Limit,     \* requests admitted in a window
  Window,    \* ticks
  Routes,    \* the counters a request meets, in order
  Requests,  \* requests in flight at the same time
  Failures,  \* what may go wrong
  MaxLosses  \* bound on the losses of data within Window ticks

AllFailures == {"crash", "lostReply", "wipe"}

ASSUME LimitAssumption == Limit \in [Keys -> Nat \ {0}]
ASSUME WindowAssumption == Window \in Nat \ {0}
ASSUME RoutesAssumption == Routes \subseteq Seq(Keys)
ASSUME FailuresAssumption == Failures \subseteq AllFailures
ASSUME LossesAssumption == MaxLosses \in Nat

VARIABLES
  redis,     \* a call gets through: Redis is up and its pool has a connection
  hits,      \* the counter, 0 without a key; not counted beyond Limit + 1
  ttl,       \* its time to live, 0 without one
  age,       \* ticks since the key appeared, no more than Window (history)
  recent,    \* requests admitted in this tick and the a before it (history)
  losses,    \* how often Redis lost its data in this tick and the a before it
             \* (history)
  pc,        \* the next call of a request
  todo,      \* the counters it has still to pass
  count      \* what INCR answered it

storeVars == <<hits, ttl, age, recent, losses>>
requestVars == <<pc, todo, count>>
vars == <<redis, hits, ttl, age, recent, losses, pc, todo, count>>

Ages == 0..Window - 1

TypeOK ==
  /\ redis \in BOOLEAN
  /\ hits \in [Keys -> Nat]
  /\ ttl \in [Keys -> 0..Window]
  /\ age \in [Keys -> 0..Window]
  /\ recent \in [Keys -> [Ages -> Nat]]
  /\ losses \in [Ages -> Nat]
  /\ pc \in [Requests -> {"idle", "hit", "expire"}]
  /\ todo \in [Requests -> Seq(Keys)]
  /\ count \in [Requests -> Nat]

Init ==
  /\ redis = TRUE
  /\ hits = [k \in Keys |-> 0]
  /\ ttl = [k \in Keys |-> 0]
  /\ age = [k \in Keys |-> 0]
  /\ recent = [k \in Keys |-> [a \in Ages |-> 0]]
  /\ losses = [a \in Ages |-> 0]
  /\ pc = [r \in Requests |-> "idle"]
  /\ todo = [r \in Requests |-> <<>>]
  /\ count = [r \in Requests |-> 0]
-----------------------------------------------------------------------------
(* Mistakes the properties must notice: what a definition below, named at  *)
(* the right, would be after a plausible slip in the code.                 *)

\* Admitted: the comparison is off by one.
OneMore(k, n) == n <= Limit[k] + 1

\* Fresh: only the first request sets the time to live.
OnlyFirst(k, n) == n = 1

\* Lifetime: the window is a tick short.
ShortLife == Window - 1
-----------------------------------------------------------------------------
OneOlder(n) == IF n < Window THEN n + 1 ELSE n
Bumped(k) == IF hits[k] <= Limit[k] THEN hits[k] + 1 ELSE hits[k]

Admitted(k, n) == n <= Limit[k]

\* count == 1 or ttl < 0: the time to live has to be set.
Fresh(k, n) == n = 1 \/ ttl[k] = 0

Lifetime == Window

Key(r) == Head(todo[r])

\* A history of the last ticks, when one more thing has happened in this tick
\* and when a tick is over.
OneMoreNow(row) == [a \in Ages |-> row[a] + 1]
OneTickOn(row) == [a \in Ages |-> IF a = 0 THEN 0 ELSE row[a - 1]]

\* INCR, and what it means for the histories.
Count(k) ==
  /\ hits' = [hits EXCEPT ![k] = Bumped(k)]
  /\ age' = [age EXCEPT ![k] = IF hits[k] = 0 THEN 0 ELSE @]
  /\ recent' = [recent EXCEPT ![k] =
                  IF Admitted(k, Bumped(k)) THEN OneMoreNow(@) ELSE @]
  /\ UNCHANGED losses

End(r) ==
  /\ pc' = [pc EXCEPT ![r] = "idle"]
  /\ todo' = [todo EXCEPT ![r] = <<>>]
  /\ count' = [count EXCEPT ![r] = 0]

\* On to the next counter, or into the handler.
Proceed(r) ==
  \/ Len(todo[r]) = 1 /\ End(r)
  \/ /\ Len(todo[r]) > 1
     /\ pc' = [pc EXCEPT ![r] = "hit"]
     /\ todo' = [todo EXCEPT ![r] = Tail(@)]
     /\ count' = [count EXCEPT ![r] = 0]

\* None, or the seconds to wait: 429.
Answer(r, k, n) ==
  \/ Admitted(k, n) /\ Proceed(r)
  \/ ~Admitted(k, n) /\ End(r)
-----------------------------------------------------------------------------
Start(r) ==
  /\ pc[r] = "idle"
  /\ \E route \in Routes \ {<<>>} : todo' = [todo EXCEPT ![r] = route]
  /\ pc' = [pc EXCEPT ![r] = "hit"]
  /\ UNCHANGED <<redis, storeVars, count>>

\* MULTI INCR TTL EXEC on a key that has its time to live.
Hit(r) ==
  LET k == Key(r)  n == Bumped(k) IN
  /\ pc[r] = "hit" /\ redis
  /\ Count(k)
  /\ ~Fresh(k, n)
  /\ Answer(r, k, n)
  /\ UNCHANGED <<redis, ttl>>

\* The same on a key that has none.
HitFresh(r) ==
  LET k == Key(r)  n == Bumped(k) IN
  /\ pc[r] = "hit" /\ redis
  /\ Count(k)
  /\ Fresh(k, n)
  /\ pc' = [pc EXCEPT ![r] = "expire"]
  /\ count' = [count EXCEPT ![r] = n]
  /\ UNCHANGED <<redis, ttl, todo>>

\* EXPIRE does nothing to a key that is gone.
SetExpiry(r) ==
  LET k == Key(r) IN
  /\ pc[r] = "expire" /\ redis
  /\ ttl' = [ttl EXCEPT ![k] = IF hits[k] = 0 THEN 0 ELSE Lifetime]
  /\ Answer(r, k, count[r])
  /\ UNCHANGED <<redis, hits, age, recent, losses>>

\* RedisError, OSError: the request passes.
FailOpen(r) ==
  /\ pc[r] # "idle" /\ ~redis
  /\ Proceed(r)
  /\ UNCHANGED redis
  /\ UNCHANGED storeVars

\* The commands were executed, the answer was lost: the request passes too.
HitUnanswered(r) ==
  /\ "lostReply" \in Failures
  /\ pc[r] = "hit" /\ redis
  /\ Count(Key(r))
  /\ Proceed(r)
  /\ UNCHANGED <<redis, ttl>>

\* The process stops, or the client goes away, between two calls.
Crash(r) ==
  /\ "crash" \in Failures
  /\ pc[r] # "idle"
  /\ End(r)
  /\ UNCHANGED redis
  /\ UNCHANGED storeVars
-----------------------------------------------------------------------------
Over(k) == ttl[k] = 1

\* A tick of the clock of Redis.
Tick ==
  /\ hits' = [k \in Keys |-> IF Over(k) THEN 0 ELSE hits[k]]
  /\ ttl' = [k \in Keys |-> IF ttl[k] = 0 THEN 0 ELSE ttl[k] - 1]
  /\ age' = [k \in Keys |-> IF Over(k) \/ hits[k] = 0 THEN 0 ELSE OneOlder(age[k])]
  /\ recent' = [k \in Keys |-> OneTickOn(recent[k])]
  /\ losses' = OneTickOn(losses)
  /\ UNCHANGED redis
  /\ UNCHANGED requestVars

\* Redis restarts without its data, as it does in production (no volume).  The
\* requests it had admitted stay admitted.
Wipe ==
  /\ "wipe" \in Failures
  /\ losses[Window - 1] < MaxLosses
  /\ hits' = [k \in Keys |-> 0]
  /\ ttl' = [k \in Keys |-> 0]
  /\ age' = [k \in Keys |-> 0]
  /\ losses' = OneMoreNow(losses)
  /\ UNCHANGED <<redis, recent>>
  /\ UNCHANGED requestVars

\* Redis, or its pool of connections, becomes unreachable or reachable.
Switch ==
  /\ redis' \in BOOLEAN
  /\ UNCHANGED storeVars
  /\ UNCHANGED requestVars

Advance(r) == Hit(r) \/ HitFresh(r) \/ SetExpiry(r) \/ FailOpen(r)

Step ==
  \/ \E r \in Requests : Start(r) \/ Advance(r) \/ HitUnanswered(r) \/ Crash(r)
  \/ Tick \/ Wipe

Next == Step \/ Switch

Spec == Init /\ [][Next]_vars
-----------------------------------------------------------------------------
(* Properties. *)

\* Every call on every counter gets through sometimes, and no process stops at
\* each EXPIRE: EXPIRE is a call like any other.
Fairness ==
  /\ WF_vars(Tick)
  /\ \A k \in Keys :
       /\ SF_vars(\E r \in Requests : (Hit(r) \/ HitFresh(r)) /\ Key(r) = k)
       /\ SF_vars(\E r \in Requests : SetExpiry(r) /\ Key(r) = k)

\* The inductive invariant: a counter that has a time to live will have lived
\* for Window ticks when it is over, as EXPIRE comes after the INCR that made
\* the key.
Busy(r) == pc[r] # "idle" => todo[r] # <<>>
FullLife(k) ==
  /\ hits[k] = 0 => ttl[k] = 0 /\ age[k] = 0
  /\ ttl[k] > 0 => ttl[k] + age[k] >= Window

IInv ==
  /\ TypeOK
  /\ \A r \in Requests : Busy(r)
  /\ \A k \in Keys : FullLife(k)

Asked(k) == \E r \in Requests : pc[r] = "hit" /\ redis /\ Key(r) = k

\* A client that keeps asking is let in again some day: a counter left without
\* a time to live by a process that stopped is given one by a later request,
\* "иначе счётчик не сбросится никогда" (core/rate_limit.py:77-81).
StartsAgain == \A k \in Keys : []<>Asked(k) => []<>(hits[k] = 0)

\* The counters in Redis implement windows of at least Window ticks in which at
\* most Limit requests are admitted, whatever calls fail, answers are lost and
\* processes stop between INCR and EXPIRE.
Quota == INSTANCE WindowQuota
  WITH used <- [k \in Keys |-> IF hits[k] <= Limit[k] THEN hits[k] ELSE Limit[k]],
       age <- age
WindowsKept == Quota!Spec

\* Over any Window ticks, and any shorter time, a counter admits at most two
\* limits, whatever calls fail and processes stop in between: "вдвое больше
\* запросов за короткий интервал, а не обход лимита" (core/rate_limit.py:11-13);
\* and one limit more for every time Redis lost its data meanwhile.  Requests
\* that pass because Redis cannot be reached are not admitted by a counter.
AtMostTwice ==
  \A k \in Keys, a \in Ages : recent[k][a] <= (2 + losses[a]) * Limit[k]

\* Why: those admitted since the key appeared are among the ones it has counted,
\* and those before it fill one window, and one more for each loss.
Counted(k) == IF hits[k] <= Limit[k] THEN hits[k] ELSE Limit[k]
Burst(k, a) ==
  /\ recent[k][a] <= Counted(k) + (1 + losses[a]) * Limit[k]
  /\ a < age[k] => recent[k][a] <= Counted(k)

BurstsCounted == \A k \in Keys, a \in Ages : Burst(k, a)
=============================================================================
