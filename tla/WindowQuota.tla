----------------------------- MODULE WindowQuota -----------------------------
(***************************************************************************)
(* What a fixed-window counter promises: in one window at most Limit[k]    *)
(* requests are admitted under key k, and a window lasts at least Window   *)
(* ticks.  RateLimiter is how core/rate_limit.py gets there with INCR, TTL *)
(* and EXPIRE.                                                             *)
(***************************************************************************)
EXTENDS Integers

CONSTANTS
  Keys,     \* counters
  Limit,    \* requests admitted in a window, at least one
  Window    \* ticks, at least one

VARIABLES
  used,     \* requests admitted in the window
  age       \* ticks since its first request, no more than Window

quotaVars == <<used, age>>

OneOlder(n) == IF n < Window THEN n + 1 ELSE n

Init ==
  /\ used = [k \in Keys |-> 0]
  /\ age = [k \in Keys |-> 0]

Admit(k) ==
  /\ used[k] < Limit[k]
  /\ used' = [used EXCEPT ![k] = @ + 1]
  /\ UNCHANGED age

\* Windows that have lasted long enough may end, and need not.
Tick ==
  \E over \in SUBSET {k \in Keys : OneOlder(age[k]) = Window} :
    /\ used' = [k \in Keys |-> IF k \in over THEN 0 ELSE used[k]]
    /\ age' = [k \in Keys |->
         IF k \in over \/ used[k] = 0 THEN 0 ELSE OneOlder(age[k])]

\* The store lost its data.
Wipe ==
  /\ used' = [k \in Keys |-> 0]
  /\ age' = [k \in Keys |-> 0]

Next == Tick \/ Wipe \/ \E k \in Keys : Admit(k)

Spec == Init /\ [][Next]_quotaVars
=============================================================================
