---------------------------- MODULE RefreshTokens ---------------------------
(***************************************************************************)
(* Refresh tokens: their rotation by POST /auth/refresh against the deny   *)
(* list in Redis, POST /auth/logout, and the browser that keeps the token  *)
(* in localStorage, which its tabs share, and refreshes on a 401           *)
(* (frontend/src/api/client.ts).  One account; its access token goes with  *)
(* the refresh token and is not modelled.                                  *)
(*                                                                         *)
(* A refresh is answered in two server steps, for the deny list is asked   *)
(* by one Redis call and written by another, and a third step brings the   *)
(* answer to the browser.                                                  *)
(***************************************************************************)
EXTENDS Integers, FiniteSets

CONSTANTS
  Tokens,     \* refresh tokens (jti) that may be issued
  Tabs,       \* tabs of the browser
  Requests,   \* POST /auth/refresh in flight
  Kinds,      \* what may go wrong or is done besides refreshing
  None

AllKinds == {"logout", "api", "admin", "age", "loss", "reload", "outage"}

ASSUME RefreshKindsAssumption == Kinds \subseteq AllKinds
ASSUME RefreshSetsAssumption == IsFiniteSet(Tokens) /\ IsFiniteSet(Requests)
ASSUME RefreshNoneAssumption == None \notin Tokens /\ None \notin Tabs

VARIABLES
  active,      \* users.is_active
  family,      \* the login a token descends from, None before it is issued
  age,         \* its time to exp: more than a second, within it, past it
  denied,      \* the deny list
  rounded,     \* entries of it that go up to a second before exp
  spared,      \* tokens that Redis failed to put on it (history)
  stored,      \* localStorage.refresh_token
  pc, tab, sent, reply,   \* a refresh: next step, tab, token sent and answered
  exchanged,   \* how many times a token was exchanged for a new pair (history)
  contended    \* tokens that two tabs, or a tab and the one it was before its
               \* reload, presented at once (history)

denyVars == <<denied, rounded, spared>>
serverVars == <<active, family, age, denyVars, exchanged>>
browserVars == <<stored, contended>>
requestVars == <<pc, tab, sent, reply>>
vars == <<serverVars, browserVars, requestVars>>

Issued == {k \in Tokens : family[k] # None}
Pending == {r \in Requests : pc[r] # "idle"}

TypeOK ==
  /\ active \in BOOLEAN
  /\ family \in [Tokens -> Tokens \cup {None}]
  /\ age \in [Tokens -> {"fresh", "lastSecond", "expired"}]
  /\ denied \in SUBSET Tokens
  /\ rounded \in SUBSET denied
  /\ spared \in SUBSET Issued
  /\ stored \in Tokens \cup {None}
  /\ pc \in [Requests -> {"idle", "check", "exchange", "answer", "refused"}]
  /\ tab \in [Requests -> Tabs \cup {None}]
  /\ sent \in [Requests -> Tokens \cup {None}]
  /\ reply \in [Requests -> Tokens \cup {None}]
  /\ exchanged \in [Tokens -> Nat]
  /\ contended \in SUBSET Issued

Init ==
  /\ active = TRUE
  /\ family = [k \in Tokens |-> None]
  /\ age = [k \in Tokens |-> "fresh"]
  /\ denied = {} /\ rounded = {} /\ spared = {}
  /\ stored = None
  /\ pc = [r \in Requests |-> "idle"]
  /\ tab = [r \in Requests |-> None]
  /\ sent = [r \in Requests |-> None]
  /\ reply = [r \in Requests |-> None]
  /\ exchanged = [k \in Tokens |-> 0]
  /\ contended = {}
-----------------------------------------------------------------------------
(* Mistakes the properties must notice; no action uses them. *)

\* Deny: the presented token is not put on the deny list.
NothingDenied(k) == UNCHANGED <<denied, rounded>>

\* Refreshing: every call that gets a 401 refreshes.
EachCallRefreshes(t) == FALSE
-----------------------------------------------------------------------------
(* Tokens and the deny list. *)

\* issue_token_pair: a fresh jti; the first one of a login is its own family.
Issue(k, login) == family' = [family EXCEPT ![k] = login]

\* revoke_refresh_jti: the time to live is rounded down to whole seconds, at
\* least one.
Deny(k) ==
  /\ denied' = denied \cup {k}
  /\ rounded' = IF age[k] = "fresh" THEN rounded \cup {k} ELSE rounded

\* A write to Redis that may fail; the failure is logged and swallowed.
TryDeny(k) ==
  \/ Deny(k) /\ UNCHANGED spared
  \/ "outage" \in Kinds /\ spared' = spared \cup {k} /\ UNCHANGED <<denied, rounded>>

\* What _decode_refresh and is_refresh_revoked let through.
Accepted(k) == k # None /\ age[k] # "expired" /\ k \notin denied

Age(k) ==
  /\ "age" \in Kinds
  /\ k \in Issued
  /\ \/ age[k] = "fresh" /\ age' = [age EXCEPT ![k] = "lastSecond"]
     \/ age[k] = "lastSecond" /\ age' = [age EXCEPT ![k] = "expired"]
  /\ UNCHANGED <<active, family, denyVars, exchanged>>
  /\ UNCHANGED <<browserVars, requestVars>>

\* Redis drops an entry whose time to live was rounded down.
DenyLapses(k) ==
  /\ k \in rounded
  /\ age[k] = "lastSecond"
  /\ denied' = denied \ {k}
  /\ rounded' = rounded \ {k}
  /\ UNCHANGED <<active, family, age, spared, exchanged>>
  /\ UNCHANGED <<browserVars, requestVars>>
-----------------------------------------------------------------------------
(* A refresh. *)

\* The tab waits for a refresh already under way (refreshing ??= ...).
Refreshing(t) == \E r \in Pending : tab[r] = t

\* Each refresh in flight, and a login, can be given a token.
EnoughTokens == Cardinality(Issued) + Cardinality(Pending) < Cardinality(Tokens)

\* The token in localStorage is one that these requests carry already.
Again(carriers) == ({stored'} \cap {sent[q] : q \in carriers}) \ {None}

\* A call of the tab got a 401.
Start(r, t) ==
  /\ pc[r] = "idle"
  /\ ~Refreshing(t)
  /\ EnoughTokens
  /\ pc' = [pc EXCEPT ![r] = "check"]
  /\ tab' = [tab EXCEPT ![r] = t]
  /\ sent' = [sent EXCEPT ![r] = stored]
  /\ UNCHANGED <<stored, reply>>
  /\ contended' = contended \cup Again({q \in Pending : tab[q] # t})
  /\ UNCHANGED serverVars

\* Redis not answering refuses the token like its being on the list.
Refuse(r) ==
  /\ pc[r] = "check"
  /\ ~Accepted(sent[r]) \/ "outage" \in Kinds
  /\ pc' = [pc EXCEPT ![r] = "refused"]
  /\ UNCHANGED <<browserVars, tab, sent, reply>>
  /\ UNCHANGED serverVars

Check(r) ==
  /\ pc[r] = "check"
  /\ Accepted(sent[r])
  /\ pc' = [pc EXCEPT ![r] = "exchange"]
  /\ UNCHANGED <<browserVars, tab, sent, reply>>
  /\ UNCHANGED serverVars

RefuseUser(r) ==
  /\ pc[r] = "exchange"
  /\ ~active
  /\ pc' = [pc EXCEPT ![r] = "refused"]
  /\ UNCHANGED <<browserVars, tab, sent, reply>>
  /\ UNCHANGED serverVars

\* The new pair, then the deny list: nobody has seen the pair in between.
Exchange(r) ==
  /\ pc[r] = "exchange"
  /\ active
  /\ \E k \in Tokens \ Issued :
       /\ Issue(k, family[sent[r]])
       /\ reply' = [reply EXCEPT ![r] = k]
  /\ TryDeny(sent[r])
  /\ exchanged' = [exchanged EXCEPT ![sent[r]] = @ + 1]
  /\ pc' = [pc EXCEPT ![r] = "answer"]
  /\ UNCHANGED <<active, age, browserVars, tab, sent>>

\* The promise is settled and forgotten (finally).
Finish(r) ==
  /\ pc' = [pc EXCEPT ![r] = "idle"]
  /\ tab' = [tab EXCEPT ![r] = None]
  /\ sent' = [sent EXCEPT ![r] = None]
  /\ reply' = [reply EXCEPT ![r] = None]

Store(r) ==
  /\ pc[r] = "answer"
  /\ tab[r] # None
  /\ stored' = reply[r]
  /\ Finish(r)
  /\ UNCHANGED <<serverVars, contended>>

\* A refused refresh signs the browser out.
SignOut(r) ==
  /\ pc[r] = "refused"
  /\ tab[r] # None
  /\ stored' = None
  /\ Finish(r)
  /\ UNCHANGED <<serverVars, contended>>

\* What is in localStorage after a tab has lost its refresh: nothing if the
\* network failed, for that signs the browser out; the old token if the tab was
\* reloaded.
Kept == (IF "loss" \in Kinds THEN {None} ELSE {})
          \cup (IF "reload" \in Kinds THEN {stored} ELSE {})

\* Whether the server has got the request, or goes on with it, is not known: a
\* tab that comes back with the same token presents it while it is on its way.
Lose(t) ==
  /\ Refreshing(t)
  /\ stored' \in Kept
  /\ tab' = [r \in Requests |-> IF tab[r] = t THEN None ELSE tab[r]]
  /\ contended' = contended \cup Again({r \in Requests : tab[r] = t})
  /\ UNCHANGED <<pc, sent, reply>>
  /\ UNCHANGED serverVars

\* Such a request ends, or never arrived.
Unheard(r) ==
  /\ pc[r] # "idle"
  /\ tab[r] = None
  /\ Finish(r)
  /\ UNCHANGED <<serverVars, browserVars>>
-----------------------------------------------------------------------------
(* The rest of a session. *)

\* authenticate, issue_token_pair; the answer is stored.
Login ==
  /\ active
  /\ EnoughTokens
  /\ \E k \in Tokens \ Issued : Issue(k, k) /\ stored' = k
  /\ UNCHANGED <<active, age, denyVars, exchanged, contended>>
  /\ UNCHANGED requestVars

\* The page forgets the tokens and does not call POST /auth/logout; so does a
\* profile that cannot be loaded.
Logout ==
  /\ "logout" \in Kinds
  /\ stored # None
  /\ stored' = None
  /\ UNCHANGED <<serverVars, contended>>
  /\ UNCHANGED requestVars

\* POST /auth/logout, by another client of the API that has the token.
ApiLogout ==
  /\ "api" \in Kinds
  /\ stored # None
  /\ age[stored] # "expired"
  /\ TryDeny(stored)
  /\ UNCHANGED <<active, family, age, exchanged>>
  /\ UNCHANGED <<browserVars, requestVars>>

\* The account is deactivated or activated.
Administer ==
  /\ "admin" \in Kinds
  /\ active' = ~active
  /\ UNCHANGED <<family, age, denyVars, exchanged>>
  /\ UNCHANGED <<browserVars, requestVars>>
-----------------------------------------------------------------------------
Serve(r) ==
  \/ Refuse(r) \/ Check(r) \/ RefuseUser(r) \/ Exchange(r)
  \/ Store(r) \/ SignOut(r) \/ Unheard(r)

Next ==
  \/ \E r \in Requests : Serve(r) \/ \E t \in Tabs : Start(r, t)
  \/ \E t \in Tabs : Lose(t)
  \/ \E k \in Tokens : Age(k) \/ DenyLapses(k)
  \/ Login \/ Logout \/ ApiLogout \/ Administer

Spec == Init /\ [][Next]_vars
-----------------------------------------------------------------------------
(* Properties. *)

\* Tokens the server would still exchange for some time.
Live == {k \in Issued : age[k] = "fresh" /\ k \notin denied}

\* No token of this login was presented by two tabs, or by a tab and the one it
\* was before its reload, at once.
Calm(login) == \A k \in Tokens : family[k] = login => k \notin contended

\* Rotation: of the tokens that descend from one login at most one is good,
\* however refreshes of several tabs, logins and failures of the network
\* interleave (users/routes.py:107-124).  Two exceptions, both of this code:
\* the tokens that Redis failed to take note of, and the logins one of whose
\* tokens two tabs, or a tab before and after its reload, presented at once,
\* for the deny list is read in one call and written in another.
OneLivePerLogin ==
  \A k, m \in Live \ spared :
    (family[k] = family[m] /\ Calm(family[k])) => k = m

\* Only a token that two tabs presented at once is exchanged twice: a tab waits
\* for its own refresh (client.ts:63).
ExchangedOnce == \A k \in Tokens \ contended : exchanged[k] <= 1

\* What users/routes.py:109-110 says of every refresh token: one presented
\* again is refused, so none is exchanged twice.
RefusedAgain == \A k \in Tokens : exchanged[k] <= 1

\* The server's part of the rotation: a token exchanged before, whoever has it
\* now, passes the deny list only if Redis failed to take note of it or it has
\* less than the second left by which its entry ends early
\* (users/routes.py:115-124, users/service.py:228-250).
NoReplay ==
  [][\A r \in Requests : Check(r) =>
       \/ exchanged[sent[r]] = 0
       \/ sent[r] \in spared
       \/ age[sent[r]] = "lastSecond"]_vars

\* The browser's part: what the server refuses it is refused for a reason, a
\* token that is old or revoked by a logout, an account that is off, and not
\* because the browser has had it exchanged, unless it presented it while it
\* was on its way (client.ts:63).
NoSpuriousSignOut ==
  [][\A r \in Requests : Refuse(r) =>
       \/ sent[r] = None
       \/ exchanged[sent[r]] = 0
       \/ sent[r] \in contended]_vars
=============================================================================
