------------------------- MODULE RateLimiterProofs --------------------------
(***************************************************************************)
(* RateLimiter implements WindowQuota, for any counters, limits, window,   *)
(* routes and number of concurrent requests, and whatever fails; Gateway   *)
(* implements RateLimiter with the reachability of Redis left to the       *)
(* event streams, so the same holds of the process as a whole.             *)
(***************************************************************************)
EXTENDS Gateway, TLAPS

\* The invariant holds at the start.
LEMMA InitInv == Init => IInv
  BY LimitAssumption, WindowAssumption DEF Init, IInv, TypeOK, Busy, FullLife, Ages

\* Ending a request, or going on to its next counter, keeps the requests typed
\* and busy with something.
LEMMA RequestsKept ==
  ASSUME TypeOK, \A q \in Requests : Busy(q), NEW r \in Requests, pc[r] # "idle",
         Proceed(r) \/ End(r)
  PROVE  /\ pc' \in [Requests -> {"idle", "hit", "expire"}]
         /\ todo' \in [Requests -> Seq(Keys)]
         /\ count' \in [Requests -> Nat]
         /\ \A q \in Requests : Busy(q)'
<1>1. CASE End(r)
  BY <1>1 DEF End, TypeOK, Busy
<1>2. CASE Len(todo[r]) > 1 /\ Proceed(r) /\ ~End(r)
  <2> DEFINE rest == Tail(todo[r])
  <2>1. rest \in Seq(Keys) /\ rest # <<>>
    <3>1. todo[r] \in Seq(Keys)
      BY DEF TypeOK
    <3>2. todo[r] # <<>>
      BY <1>2
    <3>3. Len(rest) = Len(todo[r]) - 1 /\ rest \in Seq(Keys)
      BY <3>1, <3>2
    <3>4. Len(todo[r]) \in Nat
      BY <3>1
    <3>5. Len(todo[r]) > 1
      BY <1>2
    <3> HIDE DEF rest
    <3>6. Len(rest) # 0
      <4>1. \A n \in Nat : n > 1 => n - 1 # 0
        OBVIOUS
      <4> QED
        BY <4>1, <3>3, <3>4, <3>5
    <3>7. Len(<<>>) = 0
      OBVIOUS
    <3> QED
      BY <3>3, <3>6, <3>7
  <2>2. /\ pc' = [pc EXCEPT ![r] = "hit"]
        /\ todo' = [todo EXCEPT ![r] = rest]
        /\ count' = [count EXCEPT ![r] = 0]
    BY <1>2 DEF Proceed
  <2>3. todo' \in [Requests -> Seq(Keys)]
    <3> HIDE DEF rest
    <3> QED
      BY <2>1, <2>2 DEF TypeOK
  <2>4. pc' \in [Requests -> {"idle", "hit", "expire"}] /\ count' \in [Requests -> Nat]
    BY <2>2 DEF TypeOK
  <2>5. ASSUME NEW q \in Requests
        PROVE  Busy(q)'
    <3> HIDE DEF rest
    <3> QED
      BY <2>1, <2>2 DEF Busy, TypeOK
  <2> QED
    BY <2>3, <2>4, <2>5
<1> QED
  BY <1>1, <1>2 DEF Proceed

\* INCR of a counter.
LEMMA CountKept ==
  ASSUME IInv, NEW k \in Keys, Count(k), UNCHANGED ttl
  PROVE  /\ hits' \in [Keys -> Nat]
         /\ age' \in [Keys -> 0..Window]
         /\ recent' \in [Keys -> [Ages -> Nat]]
         /\ losses' \in [Ages -> Nat]
         /\ \A j \in Keys : FullLife(j)'
<1> USE LimitAssumption, WindowAssumption
<1>1. hits' \in [Keys -> Nat] /\ age' \in [Keys -> 0..Window]
  BY DEF Count, Bumped, IInv, TypeOK
<1>2. recent' \in [Keys -> [Ages -> Nat]] /\ losses' \in [Ages -> Nat]
  <2>1. OneMoreNow(recent[k]) \in [Ages -> Nat]
    BY DEF OneMoreNow, IInv, TypeOK
  <2> QED
    BY <2>1 DEF Count, IInv, TypeOK
<1>3. ASSUME NEW j \in Keys
      PROVE  FullLife(j)'
  BY DEF Count, Bumped, FullLife, IInv, TypeOK
<1> QED
  BY <1>1, <1>2, <1>3

\* The invariant is inductive.
LEMMA StepInv == IInv /\ [Next]_vars => IInv'
<1> USE LimitAssumption, WindowAssumption, RoutesAssumption
<1> SUFFICES ASSUME IInv, [Next]_vars
             PROVE  IInv'
  OBVIOUS
<1>1. ASSUME NEW r \in Requests, Start(r)
      PROVE  IInv'
  BY <1>1 DEF Start, storeVars, IInv, TypeOK, Busy, FullLife
<1>2. ASSUME NEW r \in Requests, pc[r] # "idle"
      PROVE  Key(r) \in Keys
  BY <1>2 DEF Key, IInv, TypeOK, Busy
<1>3. ASSUME NEW r \in Requests, pc[r] # "idle", Proceed(r) \/ End(r),
             Count(Key(r)) \/ UNCHANGED <<hits, age, recent, losses>>, UNCHANGED <<redis, ttl>>
      PROVE  IInv'
  <2>1. /\ pc' \in [Requests -> {"idle", "hit", "expire"}]
        /\ todo' \in [Requests -> Seq(Keys)]
        /\ count' \in [Requests -> Nat]
        /\ \A q \in Requests : Busy(q)'
    BY <1>3, RequestsKept DEF IInv
  <2>2. /\ hits' \in [Keys -> Nat]
        /\ age' \in [Keys -> 0..Window]
        /\ recent' \in [Keys -> [Ages -> Nat]]
        /\ losses' \in [Ages -> Nat]
        /\ \A j \in Keys : FullLife(j)'
    <3>1. CASE Count(Key(r))
      BY <3>1, <1>2, <1>3, CountKept
    <3>2. CASE UNCHANGED <<hits, age, recent, losses>>
      BY <3>2, <1>3 DEF IInv, TypeOK, FullLife
    <3> QED
      BY <3>1, <3>2, <1>3
  <2> QED
    BY <2>1, <2>2, <1>3 DEF IInv, TypeOK
<1>4. ASSUME NEW r \in Requests, Hit(r)
      PROVE  IInv'
  BY <1>3, <1>4 DEF Hit, Answer
<1>5. ASSUME NEW r \in Requests, HitFresh(r)
      PROVE  IInv'
  <2>1. /\ hits' \in [Keys -> Nat]
        /\ age' \in [Keys -> 0..Window]
        /\ recent' \in [Keys -> [Ages -> Nat]]
        /\ losses' \in [Ages -> Nat]
        /\ \A j \in Keys : FullLife(j)'
    BY <1>2, <1>5, CountKept DEF HitFresh
  <2>2. Bumped(Key(r)) \in Nat
    BY <1>2, <1>5 DEF Bumped, HitFresh, IInv, TypeOK
  <2>3. /\ pc' \in [Requests -> {"idle", "hit", "expire"}]
        /\ count' \in [Requests -> Nat]
        /\ \A q \in Requests : Busy(q)'
    BY <2>2, <1>5 DEF HitFresh, IInv, TypeOK, Busy
  <2> QED
    BY <2>1, <2>3, <1>5 DEF HitFresh, IInv, TypeOK
<1>6. ASSUME NEW r \in Requests, SetExpiry(r)
      PROVE  IInv'
  <2>1. /\ pc' \in [Requests -> {"idle", "hit", "expire"}]
        /\ todo' \in [Requests -> Seq(Keys)]
        /\ count' \in [Requests -> Nat]
        /\ \A q \in Requests : Busy(q)'
    BY <1>6, RequestsKept DEF IInv, SetExpiry, Answer
  <2>2. ttl' \in [Keys -> 0..Window] /\ \A j \in Keys : FullLife(j)'
    BY <1>2, <1>6 DEF SetExpiry, Lifetime, FullLife, IInv, TypeOK
  <2> QED
    BY <2>1, <2>2, <1>6 DEF SetExpiry, IInv, TypeOK
<1>7. ASSUME NEW r \in Requests, FailOpen(r) \/ HitUnanswered(r) \/ Crash(r)
      PROVE  IInv'
  BY <1>3, <1>7 DEF FailOpen, HitUnanswered, Crash, storeVars
<1>8. CASE Tick
  <2>1. recent' \in [Keys -> [Ages -> Nat]] /\ losses' \in [Ages -> Nat]
    BY <1>8 DEF Tick, OneTickOn, IInv, TypeOK, Ages
  <2>2. /\ hits' \in [Keys -> Nat]
        /\ ttl' \in [Keys -> 0..Window]
        /\ age' \in [Keys -> 0..Window]
    BY <1>8 DEF Tick, IInv, TypeOK, OneOlder
  <2>3. ASSUME NEW k \in Keys
        PROVE  FullLife(k)'
    BY <1>8, FullLife(k) DEF Tick, FullLife, Over, OneOlder, IInv, TypeOK
  <2> QED
    BY <2>1, <2>2, <2>3, <1>8 DEF Tick, requestVars, IInv, TypeOK, Busy
<1>9. CASE Wipe
  BY <1>9 DEF Wipe, OneMoreNow, requestVars, IInv, TypeOK, Busy, FullLife, Ages
<1>10. CASE Switch
  BY <1>10 DEF Switch, storeVars, requestVars, IInv, TypeOK, Busy, FullLife
<1>11. CASE UNCHANGED vars
  BY <1>11 DEF vars, IInv, TypeOK, Busy, FullLife
<1> QED
  BY <1>1, <1>4, <1>5, <1>6, <1>7, <1>8, <1>9, <1>10, <1>11 DEF Next, Step, Advance
-----------------------------------------------------------------------------
\* The inductive invariant of the counters: a key that has a time to live will
\* have lived for Window ticks when it is over.
THEOREM Invariance == Spec => []IInv
  BY InitInv, StepInv, PTL DEF Spec

\* The counters in Redis implement fixed windows (core/rate_limit.py:11-13):
\* INCR admits as long as there is room, and nothing but a lost store or the end
\* of a full window makes room again.
THEOREM WindowsHold == Spec => WindowsKept
<1> USE LimitAssumption, WindowAssumption
<1>1. Init => Quota!Init
  BY DEF Init, Quota!Init
<1>2. IInv /\ [Next]_vars => [Quota!Next]_(Quota!quotaVars)
  <2> SUFFICES ASSUME IInv, [Next]_vars
               PROVE  Quota!Next \/ UNCHANGED Quota!quotaVars
    OBVIOUS
  <2> DEFINE Used(k) == IF hits[k] <= Limit[k] THEN hits[k] ELSE Limit[k]
             used == [k \in Keys |-> Used(k)]
  <2>1. ASSUME UNCHANGED <<hits, age>>
        PROVE  UNCHANGED Quota!quotaVars
    BY <2>1 DEF Quota!quotaVars
  <2>2. ASSUME NEW k \in Keys, Count(k)
        PROVE  Quota!Next \/ UNCHANGED Quota!quotaVars
    <3>1. age' = age
      BY <2>2 DEF Count, IInv, TypeOK, FullLife
    <3>2. CASE hits[k] < Limit[k]
      <4>1. used[k] < Limit[k]
        BY <3>2 DEF IInv, TypeOK
      <4>2. ASSUME NEW j \in Keys
            PROVE  Used(j)' = IF j = k THEN used[k] + 1 ELSE used[j]
        BY <2>2, <3>2 DEF Count, Bumped, IInv, TypeOK
      <4>3. used' = [used EXCEPT ![k] = @ + 1]
        <5> HIDE DEF Used
        <5> QED
          BY <4>2
      <4> QED
        BY <4>1, <4>3, <3>1 DEF Quota!Next, Quota!Admit
    <3>3. CASE ~(hits[k] < Limit[k])
      <4>1. used' = used
        BY <2>2, <3>3 DEF Count, Bumped, IInv, TypeOK
      <4> QED
        BY <4>1, <3>1 DEF Quota!quotaVars
    <3> QED
      BY <3>2, <3>3
  <2>3. CASE Tick
    <3> DEFINE over == {k \in Keys : Over(k)}
    <3>1. over \in SUBSET {k \in Keys : Quota!OneOlder(age[k]) = Window}
      <4>1. ASSUME NEW k \in Keys, Over(k)
            PROVE  Quota!OneOlder(age[k]) = Window
        <5>1. ttl[k] = 1 /\ age[k] \in 0..Window /\ ttl[k] + age[k] >= Window
          BY <4>1 DEF Over, FullLife, IInv, TypeOK
        <5> QED
          BY <5>1 DEF Quota!OneOlder
      <4> QED
        BY <4>1
    <3>2. used' = [k \in Keys |-> IF k \in over THEN 0 ELSE used[k]]
      BY <2>3 DEF Tick, IInv, TypeOK
    <3>3. age' = [k \in Keys |->
            IF k \in over \/ used[k] = 0 THEN 0 ELSE Quota!OneOlder(age[k])]
      BY <2>3 DEF Tick, OneOlder, Quota!OneOlder, IInv, TypeOK
    <3> QED
      BY <3>1, <3>2, <3>3 DEF Quota!Next, Quota!Tick
  <2>4. CASE Wipe
    BY <2>4 DEF Wipe, Quota!Next, Quota!Wipe
  <2>5. ASSUME NEW r \in Requests, pc[r] # "idle"
        PROVE  Key(r) \in Keys
    BY <2>5 DEF Key, IInv, TypeOK, Busy
  <2>6. ASSUME NEW r \in Requests, Advance(r) \/ HitUnanswered(r)
        PROVE  Quota!Next \/ UNCHANGED Quota!quotaVars
    BY <2>1, <2>2, <2>5, <2>6
       DEF Advance, Hit, HitFresh, SetExpiry, FailOpen, HitUnanswered, storeVars
  <2>7. ASSUME NEW r \in Requests, Start(r) \/ Crash(r)
        PROVE  UNCHANGED <<hits, age>>
    BY <2>7 DEF Start, Crash, storeVars
  <2>8. ASSUME Switch \/ UNCHANGED vars
        PROVE  UNCHANGED <<hits, age>>
    BY <2>8 DEF Switch, vars, storeVars
  <2> QED
    BY <2>1, <2>3, <2>4, <2>6, <2>7, <2>8 DEF Next, Step
<1> QED
  BY <1>1, <1>2, Invariance, PTL DEF Spec, WindowsKept, Quota!Spec
-----------------------------------------------------------------------------
\* Gateway is a RateLimiter whose Redis is reachable when it is up and the
\* streams have left a connection free (core/redis.py:31-35).
THEOREM Composition == GatewaySpec => Spec
<1>1. GatewayInit => Init
  BY DEF GatewayInit
<1>2. [GatewayNext]_<<vars, eventVars>> => [Next]_vars
  <2>1. ASSUME Step
        PROVE  Next
    BY <2>1 DEF Next
  <2>2. ASSUME redis' = Events!Reachable', UNCHANGED <<storeVars, requestVars>>
        PROVE  Switch
    BY <2>2 DEF Switch, storeVars, requestVars, Events!Reachable
  <2> QED
    BY <2>1, <2>2 DEF GatewayNext, Next
<1> QED
  BY <1>1, <1>2, PTL DEF GatewaySpec, Spec

\* So its counters are windows of at least Window ticks that admit at most
\* Limit requests, while streams take and leak the limiter's connections
\* (core/rate_limit.py:60-90).
THEOREM GatewayWindows == GatewaySpec => WindowsKept
  BY Composition, WindowsHold
-----------------------------------------------------------------------------
(* Two limits in any Window ticks, and one more for each loss of data. *)

\* One loss is worth one limit.
LEMMA OneLimitMore ==
  \A n, l \in Nat : /\ (1 + n) * l \in Nat
                    /\ (1 + (n + 1)) * l = (1 + n) * l + l
                    /\ (2 + n) * l = (1 + n) * l + l
                    /\ (1 + n) * l >= l
<1> SUFFICES ASSUME NEW n \in Nat, NEW l \in Nat
             PROVE  /\ (1 + n) * l \in Nat
                    /\ (1 + (n + 1)) * l = (1 + n) * l + l
                    /\ (2 + n) * l = (1 + n) * l + l
                    /\ (1 + n) * l >= l
  OBVIOUS
<1>1. n * l \in Nat
  OBVIOUS
<1>2. /\ (1 + n) * l = n * l + l
      /\ (2 + n) * l = n * l + l + l
      /\ (1 + (n + 1)) * l = n * l + l + l
  OBVIOUS
<1> QED
  BY <1>1, <1>2

\* No request was admitted before the first one.
LEMMA InitBursts == Init => BurstsCounted
<1> SUFFICES ASSUME Init, NEW k \in Keys, NEW a \in Ages
             PROVE  Burst(k, a)
  BY DEF BurstsCounted
<1>1. recent[k][a] = 0 /\ losses[a] = 0 /\ hits[k] = 0 /\ age[k] = 0
  BY DEF Init
<1>2. Limit[k] \in Nat /\ a \in Nat
  BY LimitAssumption, WindowAssumption DEF Ages
<1>3. (1 + losses[a]) * Limit[k] \in Nat
  BY <1>1, <1>2, OneLimitMore
<1>4. Counted(k) = 0
  BY <1>1, <1>2 DEF Counted
<1> QED
  BY <1>1, <1>2, <1>3, <1>4 DEF Burst

\* A step that neither counts, nor loses data, nor takes time.
LEMMA BurstsUntouched ==
  ASSUME BurstsCounted, UNCHANGED <<hits, age, recent, losses>>
  PROVE  BurstsCounted'
  BY DEF BurstsCounted, Burst, Counted

\* INCR admits a request only while there is room in its window.
LEMMA BurstsGrow ==
  ASSUME IInv, BurstsCounted, NEW k \in Keys, Count(k)
  PROVE  BurstsCounted'
<1> USE LimitAssumption, WindowAssumption
<1> SUFFICES ASSUME NEW j \in Keys, NEW a \in Ages
             PROVE  Burst(j, a)'
  BY DEF BurstsCounted
<1> DEFINE room == (1 + losses[a]) * Limit[j]
<1>1. /\ hits[j] \in Nat /\ age[j] \in 0..Window /\ Limit[j] \in Nat /\ a \in Nat
      /\ recent[j][a] \in Nat /\ losses[a] \in Nat
      /\ Burst(j, a) /\ FullLife(j)
  <2>1. Burst(j, a)
    BY DEF BurstsCounted
  <2>2. a \in Nat
    BY DEF Ages
  <2> HIDE DEF room
  <2> QED
    BY <2>1, <2>2 DEF IInv, TypeOK
<1>2. room \in Nat
  BY <1>1, OneLimitMore
<1>3. losses' = losses /\ room' = room
  BY DEF Count
<1> HIDE DEF room
<1>4. CASE j # k
  <2>1. hits'[j] = hits[j] /\ age'[j] = age[j] /\ recent'[j] = recent[j]
    BY <1>4 DEF Count, IInv, TypeOK
  <2> QED
    BY <2>1, <1>1, <1>3 DEF Burst, Counted
<1>5. CASE j = k
  <2>1. hits'[j] = Bumped(j) /\ age'[j] = age[j]
    BY <1>5, <1>1 DEF Count, IInv, TypeOK, FullLife
  <2>2. recent'[j][a] = IF Admitted(j, Bumped(j)) THEN recent[j][a] + 1 ELSE recent[j][a]
    BY <1>5 DEF Count, OneMoreNow, IInv, TypeOK
  <2>3. recent[j][a] <= Counted(j) + room /\ (a < age[j] => recent[j][a] <= Counted(j))
    BY <1>1 DEF Burst, room
  <2>4. /\ Counted(j) \in Nat
        /\ Counted(j)' = IF Admitted(j, Bumped(j)) THEN Counted(j) + 1 ELSE Counted(j)
    BY <2>1, <1>1 DEF Counted, Bumped, Admitted
  <2>5. /\ recent'[j][a] <= Counted(j)' + room
        /\ a < age'[j] => recent'[j][a] <= Counted(j)'
    BY <2>1, <2>2, <2>3, <2>4, <1>1, <1>2
  <2> QED
    BY <2>5, <1>3 DEF Burst, room
<1> QED
  BY <1>4, <1>5

\* A window that ends has lived for Window ticks: what was admitted in those that
\* are still in sight was all admitted in it, and is one limit at most.
LEMMA BurstsAge ==
  ASSUME IInv, BurstsCounted, Tick
  PROVE  BurstsCounted'
<1> USE LimitAssumption, WindowAssumption
<1> SUFFICES ASSUME NEW k \in Keys, NEW a \in Ages
             PROVE  Burst(k, a)'
  BY DEF BurstsCounted
<1>1. /\ hits[k] \in Nat /\ age[k] \in 0..Window /\ ttl[k] \in 0..Window
      /\ Limit[k] \in Nat /\ a \in Nat /\ a <= Window - 1 /\ FullLife(k)
  BY DEF IInv, TypeOK, Ages
<1>2. /\ recent'[k][a] = IF a = 0 THEN 0 ELSE recent[k][a - 1]
      /\ losses'[a] = IF a = 0 THEN 0 ELSE losses[a - 1]
      /\ hits'[k] = IF Over(k) THEN 0 ELSE hits[k]
      /\ age'[k] = IF Over(k) \/ hits[k] = 0 THEN 0 ELSE OneOlder(age[k])
  BY DEF Tick, OneTickOn
<1>3. Counted(k) \in Nat /\ Counted(k) <= Limit[k] /\ Counted(k)' \in Nat
  BY <1>1, <1>2 DEF Counted
<1>4. CASE a = 0
  <2>1. recent'[k][a] = 0 /\ (1 + losses'[a]) * Limit[k] \in Nat
    BY <1>1, <1>2, <1>4, OneLimitMore
  <2> QED
    BY <2>1, <1>3 DEF Burst
<1>5. CASE a # 0
  <2> DEFINE b == a - 1
             room == (1 + losses[b]) * Limit[k]
  <2>1. b \in Ages /\ b \in Nat /\ a = b + 1
    BY <1>1, <1>5 DEF Ages
  <2>2. recent[k][b] \in Nat /\ losses[b] \in Nat /\ Burst(k, b)
    BY <2>1 DEF IInv, TypeOK, BurstsCounted
  <2>3. room \in Nat /\ room >= Limit[k]
    BY <2>2, <1>1, OneLimitMore
  <2>4. /\ recent'[k][a] = recent[k][b]
        /\ (1 + losses'[a]) * Limit[k] = room
    BY <1>2, <1>5
  <2>5. recent[k][b] <= Counted(k) + room /\ (b < age[k] => recent[k][b] <= Counted(k))
    BY <2>2 DEF Burst
  <2> HIDE DEF b, room
  <2>6. CASE Over(k)
    <3>1. b < age[k]
      BY <2>1, <2>6, <1>1 DEF Over, FullLife
    <3>2. recent[k][b] <= room /\ age'[k] = 0
      BY <3>1, <2>2, <2>3, <2>5, <2>6, <1>1, <1>2, <1>3
    <3>3. recent'[k][a] <= Counted(k)' + room /\ ~(a < age'[k])
      BY <3>2, <2>2, <2>3, <2>4, <1>1, <1>3
    <3> QED
      BY <3>3, <2>4 DEF Burst
  <2>7. CASE ~Over(k)
    <3>1. Counted(k)' = Counted(k)
      BY <1>2, <2>7 DEF Counted
    <3>2. a < age'[k] => b < age[k]
      BY <2>1, <2>7, <1>1, <1>2 DEF OneOlder
    <3>3. /\ recent'[k][a] <= Counted(k)' + room
          /\ a < age'[k] => recent'[k][a] <= Counted(k)'
      BY <3>1, <3>2, <2>4, <2>5
    <3> QED
      BY <3>3, <2>4 DEF Burst
  <2> QED
    BY <2>6, <2>7
<1> QED
  BY <1>4, <1>5

\* A restart of Redis forgets the counters, not what they have admitted: that is
\* one limit more.
LEMMA BurstsOutliveLoss ==
  ASSUME IInv, BurstsCounted, Wipe
  PROVE  BurstsCounted'
<1> USE LimitAssumption, WindowAssumption
<1> SUFFICES ASSUME NEW k \in Keys, NEW a \in Ages
             PROVE  Burst(k, a)'
  BY DEF BurstsCounted
<1> DEFINE room == (1 + losses[a]) * Limit[k]
<1>1. /\ Limit[k] \in Nat /\ recent[k][a] \in Nat /\ losses[a] \in Nat /\ a \in Nat
      /\ hits[k] \in Nat /\ Burst(k, a)
  BY DEF IInv, TypeOK, Ages, BurstsCounted
<1>2. /\ recent' = recent /\ losses'[a] = losses[a] + 1 /\ hits'[k] = 0 /\ age'[k] = 0
  BY DEF Wipe, OneMoreNow
<1>3. room \in Nat /\ (1 + losses'[a]) * Limit[k] = room + Limit[k]
  BY <1>1, <1>2, OneLimitMore
<1>4. recent[k][a] <= Counted(k) + room
  BY <1>1 DEF Burst
<1>5. Counted(k) \in Nat /\ Counted(k) <= Limit[k] /\ Counted(k)' = 0
  BY <1>1, <1>2 DEF Counted
<1> HIDE DEF room
<1>6. recent'[k][a] <= Counted(k)' + (room + Limit[k]) /\ ~(a < age'[k])
  BY <1>1, <1>2, <1>3, <1>4, <1>5
<1> QED
  BY <1>6, <1>3 DEF Burst

\* Every step keeps the bursts within bounds.
LEMMA StepBursts == IInv /\ BurstsCounted /\ [Next]_vars => BurstsCounted'
<1> SUFFICES ASSUME IInv, BurstsCounted, [Next]_vars
             PROVE  BurstsCounted'
  OBVIOUS
<1>1. ASSUME NEW r \in Requests, Hit(r) \/ HitFresh(r) \/ HitUnanswered(r)
      PROVE  BurstsCounted'
  <2>1. pc[r] # "idle" /\ Count(Key(r))
    BY <1>1 DEF Hit, HitFresh, HitUnanswered
  <2>2. Key(r) \in Keys
    BY <2>1, RoutesAssumption DEF Key, IInv, TypeOK, Busy
  <2> QED
    BY <2>1, <2>2, BurstsGrow
<1>2. ASSUME NEW r \in Requests, Start(r) \/ SetExpiry(r) \/ FailOpen(r) \/ Crash(r)
      PROVE  UNCHANGED <<hits, age, recent, losses>>
  BY <1>2 DEF Start, SetExpiry, FailOpen, Crash, storeVars
<1>3. ASSUME Switch \/ UNCHANGED vars
      PROVE  UNCHANGED <<hits, age, recent, losses>>
  BY <1>3 DEF Switch, vars, storeVars
<1> QED
  BY <1>1, <1>2, <1>3, BurstsUntouched, BurstsAge, BurstsOutliveLoss DEF Next, Step, Advance

\* Over any Window ticks a counter admits at most two limits, for every limit,
\* window and number of requests, whatever calls fail: a burst across the border
\* of two windows is all that a fixed window lets through
\* (core/rate_limit.py:11-13).  Each loss of the data of Redis within those ticks
\* costs one limit more.
THEOREM BurstsBounded == GatewaySpec => []AtMostTwice
<1>1. IInv /\ BurstsCounted => AtMostTwice
  <2> SUFFICES ASSUME IInv, BurstsCounted, NEW k \in Keys, NEW a \in Ages
               PROVE  recent[k][a] <= (2 + losses[a]) * Limit[k]
    BY DEF AtMostTwice
  <2> DEFINE room == (1 + losses[a]) * Limit[k]
  <2>1. /\ recent[k][a] \in Nat /\ losses[a] \in Nat /\ Limit[k] \in Nat /\ hits[k] \in Nat
        /\ Burst(k, a)
    BY LimitAssumption DEF IInv, TypeOK, BurstsCounted
  <2>2. recent[k][a] <= Counted(k) + room
    BY <2>1 DEF Burst
  <2>3. room \in Nat /\ (2 + losses[a]) * Limit[k] = room + Limit[k]
    BY <2>1, OneLimitMore
  <2>4. Counted(k) \in Nat /\ Counted(k) <= Limit[k]
    BY <2>1 DEF Counted
  <2> HIDE DEF room
  <2> QED
    BY <2>1, <2>2, <2>3, <2>4
<1>2. Spec => []AtMostTwice
  BY <1>1, InitBursts, StepBursts, Invariance, PTL DEF Spec
<1> QED
  BY <1>2, Composition
=============================================================================
