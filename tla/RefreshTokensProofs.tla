------------------------ MODULE RefreshTokensProofs ------------------------
(***************************************************************************)
(* What the rotation of refresh tokens guarantees, for any number of       *)
(* tokens, tabs and requests and whatever goes wrong.  The server alone    *)
(* refuses a token that has been exchanged and noted; that no token is     *)
(* asked about twice before it is noted is the browser's doing, so the     *)
(* invariant follows the tokens on their way: each is carried once, or has *)
(* been presented by two tabs at once.                                     *)
(***************************************************************************)
EXTENDS RefreshTokens, TLAPS

\* Where tokens come from and where they are.
Registered ==
  /\ \A k \in Issued : family[k] \in Issued
  /\ \A k \in Tokens \ Issued : exchanged[k] = 0
  /\ stored \in Issued \cup {None}
  /\ \A r \in Requests :
       /\ sent[r] \in Issued \cup {None}
       /\ pc[r] = "exchange" => sent[r] # None
       /\ pc[r] = "answer" => /\ sent[r] # None /\ reply[r] \in Issued
                              /\ family[reply[r]] = family[sent[r]]

\* An answer on its way is a token that nobody has presented yet.
Unseen ==
  \A r \in Requests : pc[r] = "answer" =>
    /\ exchanged[reply[r]] = 0
    /\ reply[r] # stored
    /\ \A q \in Requests : sent[q] # reply[r]
    /\ \A q \in Requests : pc[q] = "answer" /\ reply[q] = reply[r] => q = r

\* A token is carried by one request, and a tab waits for the one that carries
\* the stored token.
CarriedOnce ==
  /\ \A r, q \in Pending : sent[r] # None /\ sent[r] = sent[q] /\ r # q => sent[r] \in contended
  /\ \A r \in Pending : sent[r] # None /\ sent[r] = stored /\ tab[r] = None => stored \in contended

\* What is asked about is unused; the stored token is used only while a tab
\* waits for its successor.
UnusedAsked ==
  /\ \A r \in Requests :
       pc[r] \in {"check", "exchange"} /\ sent[r] # None /\ sent[r] \notin contended
         => exchanged[sent[r]] = 0
  /\ stored # None /\ exchanged[stored] # 0 /\ stored \notin contended
       => \E r \in Requests : pc[r] = "answer" /\ sent[r] = stored /\ tab[r] # None

Unspared == Live \ spared

\* An exchanged token is noted.
Noted == \A k \in Unspared : exchanged[k] = 0

\* In a calm login: requests on their way carry tokens of different logins, and
\* one of the login the browser has now carries the very token it has.
Apart ==
  /\ \A r, q \in Pending :
       r # q /\ sent[r] # None /\ sent[q] # None /\ Calm(family[sent[r]])
         => family[sent[r]] # family[sent[q]]
  /\ \A r \in Pending :
       sent[r] # None /\ stored # None /\ family[sent[r]] = family[stored] /\ Calm(family[stored])
         => sent[r] = stored /\ tab[r] # None

\* The last token of its login.
Latest(k) == \A m \in Unspared : family[m] = family[k] => m = k

\* In a calm login: what is asked about, answered, or stored with no answer
\* under way is the last token.
LatestHeld ==
  /\ \A r \in Requests :
       pc[r] \in {"check", "exchange"} /\ sent[r] # None /\ Calm(family[sent[r]])
         => Latest(sent[r])
  /\ \A r \in Requests : pc[r] = "answer" /\ Calm(family[sent[r]]) => Latest(reply[r])
  /\ (/\ stored # None /\ Calm(family[stored])
      /\ \A r \in Requests : pc[r] = "answer" => family[sent[r]] # family[stored])
       => Latest(stored)

\* Tokens by themselves, and tokens by their logins.
TokenInv == Unseen /\ CarriedOnce /\ UnusedAsked /\ Noted /\ ExchangedOnce
LoginwiseInv == Apart /\ LatestHeld /\ OneLivePerLogin

\* The invariant that Next preserves.
IInv == TypeOK /\ Registered /\ TokenInv /\ LoginwiseInv

\* Nobody has a token at the start.
LEMMA InitInv == Init => IInv
<1> SUFFICES ASSUME Init
             PROVE  IInv
  OBVIOUS
<1>1. Issued = {} /\ Pending = {} /\ Live = {}
  BY DEF Init, Issued, Pending, Live
<1>2. TypeOK
  BY <1>1 DEF Init, TypeOK
<1>3. Registered
  BY <1>1 DEF Init, Registered
<1>4. TokenInv
  BY <1>1 DEF Init, TokenInv, Unseen, CarriedOnce, UnusedAsked, Noted, Unspared, ExchangedOnce
<1>5. LoginwiseInv
  BY <1>1 DEF Init, LoginwiseInv, Apart, LatestHeld, OneLivePerLogin
<1> QED
  BY <1>2, <1>3, <1>4, <1>5 DEF IInv
-----------------------------------------------------------------------------
(* What most steps leave alone.                                            *)

\* A step that only adds to the contended tokens makes no login calm.
LEMMA CalmBefore ==
  ASSUME contended \in SUBSET Issued, contended \subseteq contended',
         \A m \in Issued : family'[m] = family[m]
  PROVE  \A login : Calm(login)' => Calm(login)
BY DEF Calm, Issued

\* Fewer tokens are good, and nothing else happens.
LEMMA FewerGood ==
  ASSUME IInv, TypeOK', Unspared' \subseteq Unspared,
         UNCHANGED <<family, exchanged, browserVars, requestVars>>
  PROVE  IInv'
<1>1. UNCHANGED <<stored, contended, pc, tab, sent, reply, Issued, Pending>>
  BY DEF browserVars, requestVars, Issued, Pending
<1>2. Registered'
  BY <1>1 DEF IInv, Registered
<1>3. Unseen' /\ CarriedOnce' /\ UnusedAsked' /\ Noted' /\ ExchangedOnce'
  BY <1>1 DEF IInv, TokenInv, Unseen, CarriedOnce, UnusedAsked, Noted, ExchangedOnce
<1>4. (\A k : Latest(k) => Latest(k)') /\ \A login : Calm(login)' <=> Calm(login)
  BY <1>1 DEF Latest, Calm
<1>5. Apart' /\ LatestHeld'
  BY <1>1, <1>4 DEF IInv, LoginwiseInv, Apart, LatestHeld
<1>6. OneLivePerLogin'
  BY <1>4 DEF IInv, LoginwiseInv, OneLivePerLogin, Unspared
<1> QED
  BY <1>2, <1>3, <1>5, <1>6 DEF IInv, TokenInv, LoginwiseInv

\* No step but an exchange, a login or a revocation touches the server's part.
LEMMA ServerKept ==
  ASSUME IInv, UNCHANGED serverVars, contended \subseteq contended'
  PROVE  /\ UNCHANGED <<active, family, age, denied, rounded, spared, exchanged, Issued, Unspared>>
         /\ \A k : Latest(k) <=> Latest(k)'
         /\ \A login : Calm(login)' => Calm(login)
         /\ Noted' /\ OneLivePerLogin' /\ ExchangedOnce'
<1>1. UNCHANGED <<active, family, age, denied, rounded, spared, exchanged, Issued, Unspared>>
  BY DEF serverVars, denyVars, Issued, Unspared, Live
<1>2. \A login : Calm(login)' => Calm(login)
  BY <1>1, CalmBefore DEF IInv, TypeOK
<1>3. \A k : Latest(k) <=> Latest(k)'
  BY <1>1 DEF Latest
<1>4. OneLivePerLogin'
  BY <1>1, <1>2 DEF IInv, LoginwiseInv, OneLivePerLogin, Unspared
<1> QED
  BY <1>1, <1>2, <1>3, <1>4 DEF IInv, TokenInv, Noted, ExchangedOnce
-----------------------------------------------------------------------------
(* The deny list and the clock.                                            *)

\* The entries of the deny list only lapse for tokens about to end.
LEMMA ClockInv ==
  ASSUME IInv, NEW k \in Tokens, Age(k) \/ DenyLapses(k)
  PROVE  IInv'
<1>1. UNCHANGED <<family, exchanged, browserVars, requestVars, spared, active, Issued>>
  BY DEF Age, DenyLapses, denyVars, Issued
<1>2. TypeOK'
  BY <1>1 DEF Age, DenyLapses, denyVars, IInv, TypeOK, requestVars, browserVars
<1>3. Unspared' \subseteq Unspared
  <2>1. \A m \in Tokens : age'[m] = "fresh" => age[m] = "fresh"
    BY DEF Age, DenyLapses, IInv, TypeOK
  <2>2. \A m \in Tokens : age'[m] = "fresh" /\ m \notin denied' => m \notin denied
    BY DEF Age, DenyLapses, denyVars
  <2> QED
    BY <1>1, <2>1, <2>2 DEF Unspared, Live, Issued
<1> QED
  BY <1>1, <1>2, <1>3, FewerGood

\* A revocation, whether Redis takes note of it or not, takes one token away.
LEMMA TryDenyEffect ==
  ASSUME TypeOK, NEW k \in Issued, TryDeny(k)
  PROVE  /\ denied' \in SUBSET Tokens /\ rounded' \in SUBSET denied'
         /\ spared' \in SUBSET Issued
         /\ denied \subseteq denied' /\ spared \subseteq spared'
         /\ k \in denied' \cup spared'
  BY DEF TypeOK, TryDeny, Deny, Issued

\* Revocation by the API, and the account's being switched.
LEMMA OutsideInv ==
  ASSUME IInv, ApiLogout \/ Administer
  PROVE  IInv'
<1>1. UNCHANGED <<family, exchanged, browserVars, stored, contended, requestVars, age, Issued>>
  BY DEF ApiLogout, Administer, Issued, browserVars
<1>2. CASE Administer
  <2>1. UNCHANGED <<denied, rounded, spared>> /\ active' \in BOOLEAN
    BY <1>2 DEF Administer, denyVars, IInv, TypeOK
  <2>2. TypeOK'
    BY <1>1, <2>1 DEF IInv, TypeOK, requestVars
  <2> QED
    BY <1>1, <2>1, <2>2, FewerGood DEF Unspared, Live
<1>3. CASE ApiLogout
  <2>1. stored \in Issued
    BY <1>3 DEF ApiLogout, IInv, Registered
  <2>2. UNCHANGED active /\ TryDeny(stored)
    BY <1>3 DEF ApiLogout
  <2>3. TypeOK'
    BY <1>1, <2>1, <2>2, TryDenyEffect DEF IInv, TypeOK, requestVars
  <2>4. Unspared' \subseteq Unspared
    BY <1>1, <2>1, <2>2, TryDenyEffect DEF IInv, Unspared, Live
  <2> QED
    BY <1>1, <2>3, <2>4, FewerGood
<1> QED
  BY <1>2, <1>3

\* The page forgets its token.
LEMMA ForgetInv ==
  ASSUME IInv, Logout
  PROVE  IInv'
<1>1. stored' = None /\ UNCHANGED <<serverVars, contended, requestVars>>
  BY DEF Logout
<1>2. UNCHANGED <<pc, tab, sent, reply, Pending>>
  BY <1>1 DEF requestVars, Pending
<1>3. TypeOK' /\ Registered'
  BY <1>1, <1>2, ServerKept DEF IInv, TypeOK, Registered
<1>4. Unseen' /\ CarriedOnce' /\ UnusedAsked'
  <2>1. \A r \in Requests : pc[r] = "answer" => reply[r] # None
    BY RefreshNoneAssumption DEF IInv, Registered, Issued
  <2> QED
    BY <1>1, <1>2, <2>1, ServerKept DEF IInv, TokenInv, Unseen, CarriedOnce, UnusedAsked
<1>5. Apart' /\ LatestHeld'
  BY <1>1, <1>2, ServerKept DEF IInv, LoginwiseInv, Apart, LatestHeld
<1> QED
  BY <1>1, <1>3, <1>4, <1>5, ServerKept DEF IInv, TokenInv, LoginwiseInv
-----------------------------------------------------------------------------
(* A refresh.                                                              *)

\* A refresh begins with the stored token.  If another request carries it, it is
\* another tab's, and the token is contended from now on.
LEMMA StartInv ==
  ASSUME IInv, NEW r \in Requests, NEW t \in Tabs, Start(r, t)
  PROVE  IInv'
<1>1. /\ pc' = [pc EXCEPT ![r] = "check"] /\ tab' = [tab EXCEPT ![r] = t]
      /\ sent' = [sent EXCEPT ![r] = stored] /\ UNCHANGED <<stored, reply, serverVars>>
      /\ pc[r] = "idle" /\ contended \subseteq contended'
  BY DEF Start
<1>2. /\ pc'[r] = "check" /\ tab'[r] = t /\ sent'[r] = stored
      /\ \A q \in Requests \ {r} : pc'[q] = pc[q] /\ tab'[q] = tab[q] /\ sent'[q] = sent[q]
  BY <1>1 DEF IInv, TypeOK
<1>3. Pending' = Pending \cup {r} /\ r \notin Pending /\ t # None
  BY <1>1, <1>2, RefreshNoneAssumption DEF Pending
<1>4. \A q \in Pending : sent[q] = stored /\ stored # None => stored \in contended'
  BY <1>1 DEF Start, Refreshing, Again
<1>5. TypeOK'
  <2>1. contended' \subseteq contended \cup ({stored} \ {None})
    BY <1>1 DEF Start, Again
  <2>2. contended' \in SUBSET Issued'
    BY <1>1, <2>1, ServerKept DEF IInv, TypeOK, Registered
  <2> QED
    BY <1>1, <2>2, ServerKept DEF IInv, TypeOK
<1>6. Registered'
  BY <1>1, <1>2, ServerKept DEF IInv, Registered
<1>7. Unseen'
  BY <1>1, <1>2, ServerKept DEF IInv, TokenInv, Unseen
<1>8. CarriedOnce'
  BY <1>1, <1>2, <1>3, <1>4 DEF IInv, TokenInv, CarriedOnce
<1>9. UnusedAsked'
  <2>1. \A q \in Requests : pc[q] = "answer" => q \in Pending /\ pc'[q] = "answer"
                                              /\ tab'[q] = tab[q] /\ sent'[q] = sent[q]
    BY <1>1, <1>2 DEF Pending
  <2>2. stored # None /\ stored \notin contended' => exchanged[stored] = 0
    BY <1>1, <1>4, <2>1 DEF IInv, TokenInv, UnusedAsked
  <2> QED
    BY <1>1, <1>2, <2>1, <2>2, ServerKept DEF IInv, TokenInv, UnusedAsked
<1>10. \A q \in Pending : ~(/\ sent[q] # None /\ stored # None /\ family[sent[q]] = family[stored]
                            /\ Calm(family[stored])')
  <2>1. SUFFICES ASSUME NEW q \in Pending, sent[q] # None, stored # None,
                        family[sent[q]] = family[stored], Calm(family[stored])'
                 PROVE  FALSE
    BY <1>1, ServerKept
  <2>2. UNCHANGED <<family, stored>> /\ Calm(family[stored]) /\ stored \in Tokens
    BY <1>1, <2>1, ServerKept DEF IInv, TypeOK
  <2>3. sent[q] = stored
    BY <2>1, <2>2 DEF IInv, LoginwiseInv, Apart
  <2>4. stored \in contended'
    BY <1>4, <2>1, <2>3
  <2> QED
    BY <2>1, <2>2, <2>4 DEF Calm
<1>11. Apart'
  BY <1>1, <1>2, <1>3, <1>10, ServerKept DEF IInv, LoginwiseInv, Apart
<1>12. LatestHeld'
  <2>1. stored # None /\ Calm(family[stored])' => Latest(stored)
    <3>1. SUFFICES ASSUME stored # None, Calm(family[stored])'
                   PROVE  \A q \in Requests : pc[q] = "answer" => family[sent[q]] # family[stored]
      BY <1>1, ServerKept DEF IInv, LoginwiseInv, LatestHeld
    <3>2. TAKE q \in Requests
    <3>3. pc[q] = "answer" => q \in Pending /\ sent[q] # None
      BY DEF Pending, IInv, Registered
    <3> QED
      BY <1>10, <3>1, <3>3
  <2> QED
    BY <1>1, <1>2, <2>1, ServerKept DEF IInv, LoginwiseInv, LatestHeld
<1> QED
  BY <1>1, <1>5, <1>6, <1>7, <1>8, <1>9, <1>11, <1>12, ServerKept DEF IInv, TokenInv, LoginwiseInv

\* The server's two questions.
LEMMA AskInv ==
  ASSUME IInv, NEW r \in Requests, Refuse(r) \/ Check(r) \/ RefuseUser(r)
  PROVE  IInv'
<1>1. PICK step \in {"exchange", "refused"} :
        /\ pc' = [pc EXCEPT ![r] = step] /\ pc[r] \in {"check", "exchange"}
        /\ step = "exchange" => sent[r] # None /\ pc[r] = "check"
        /\ UNCHANGED <<stored, contended, tab, sent, reply, serverVars>>
  BY DEF Refuse, Check, RefuseUser, Accepted, browserVars
<1>2. pc'[r] = step /\ \A q \in Requests \ {r} : pc'[q] = pc[q]
  BY <1>1 DEF IInv, TypeOK
<1>3. Pending' = Pending
  BY <1>1, <1>2 DEF Pending
<1>4. TypeOK' /\ Registered'
  BY <1>1, <1>2, ServerKept DEF IInv, TypeOK, Registered
<1>5. Unseen' /\ CarriedOnce'
  BY <1>1, <1>2, <1>3, ServerKept DEF IInv, TokenInv, Unseen, CarriedOnce
<1>6. UnusedAsked'
  <2>1. \A q \in Requests : pc[q] = "answer" => pc'[q] = "answer"
    BY <1>1, <1>2
  <2> QED
    BY <1>1, <1>2, <2>1, ServerKept DEF IInv, TokenInv, UnusedAsked
<1>7. Apart'
  BY <1>1, <1>3, ServerKept DEF IInv, LoginwiseInv, Apart
<1>8. LatestHeld'
  BY <1>1, <1>2, ServerKept DEF IInv, LoginwiseInv, LatestHeld
<1> QED
  BY <1>1, <1>4, <1>5, <1>6, <1>7, <1>8, ServerKept DEF IInv, TokenInv, LoginwiseInv

\* The end of a refresh: its answer, which nobody has seen and which is the last
\* of its login, is stored, or nothing is, or nobody was waiting.
LEMMA FinishInv ==
  ASSUME IInv, NEW r \in Requests, Store(r) \/ SignOut(r) \/ Unheard(r)
  PROVE  IInv'
<1>1. /\ UNCHANGED <<serverVars, contended>> /\ Finish(r) /\ r \in Pending
      /\ \/ stored' = None
         \/ stored' = reply[r] /\ pc[r] = "answer"
         \/ stored' = stored /\ tab[r] = None
  BY DEF Store, SignOut, Unheard, Pending, browserVars
<1>2. /\ pc'[r] = "idle" /\ sent'[r] = None
      /\ \A q \in Requests \ {r} :
           pc'[q] = pc[q] /\ tab'[q] = tab[q] /\ sent'[q] = sent[q] /\ reply'[q] = reply[q]
  BY <1>1 DEF Finish, IInv, TypeOK
<1>3. \A q \in Pending' : /\ q \in Pending \ {r} /\ q \in Requests
                          /\ tab'[q] = tab[q] /\ sent'[q] = sent[q]
  BY <1>2 DEF Pending
<1>4. TypeOK'
  BY <1>1, ServerKept DEF IInv, TypeOK, Finish, Registered, Issued
<1>5. Registered'
  BY <1>1, <1>2, ServerKept DEF IInv, Registered
<1>6. pc[r] = "answer" => /\ reply[r] \in Issued /\ sent[r] # None /\ reply[r] # None
                          /\ family[reply[r]] = family[sent[r]]
                          /\ (Calm(family[sent[r]]) => Latest(reply[r]))
                          /\ exchanged[reply[r]] = 0
                          /\ \A q \in Requests : sent[q] # reply[r]
  BY RefreshNoneAssumption DEF IInv, Registered, LoginwiseInv, LatestHeld, TokenInv, Unseen, Issued
<1>7. Unseen'
  <2>1. ASSUME NEW q \in Requests, pc'[q] = "answer"
        PROVE  /\ q # r /\ pc[q] = "answer" /\ reply'[q] = reply[q] /\ reply[q] # None
               /\ stored' # reply[q] /\ exchanged'[reply[q]] = 0
               /\ \A z \in Requests : sent'[z] # reply[q]
               /\ \A z \in Requests : pc'[z] = "answer" /\ reply'[z] = reply[q] => z = q
    <3>1. q # r /\ pc[q] = "answer" /\ reply'[q] = reply[q] /\ reply[q] # None
      BY <1>2, <2>1, RefreshNoneAssumption DEF IInv, Registered, Issued
    <3>2. stored' # reply[q]
      BY <1>1, <2>1, <3>1 DEF IInv, TokenInv, Unseen
    <3>3. exchanged'[reply[q]] = 0
      BY <1>1, <3>1, ServerKept DEF IInv, TokenInv, Unseen
    <3>4. \A z \in Requests : sent'[z] # reply[q]
      BY <1>2, <3>1 DEF IInv, TokenInv, Unseen
    <3>5. \A z \in Requests : pc'[z] = "answer" /\ reply'[z] = reply[q] => z = q
      BY <1>2, <3>1 DEF IInv, TokenInv, Unseen
    <3> QED
      BY <3>1, <3>2, <3>3, <3>4, <3>5
  <2> QED
    BY <2>1 DEF Unseen
<1>8. CarriedOnce'
  BY <1>1, <1>3, <1>6 DEF IInv, TokenInv, CarriedOnce
<1>9. UnusedAsked'
  <2>1. ASSUME stored' # None, exchanged[stored'] # 0, stored' \notin contended
        PROVE  \E q \in Requests : pc'[q] = "answer" /\ sent'[q] = stored' /\ tab'[q] # None
    <3>1. stored' = stored /\ tab[r] = None
      BY <1>1, <1>6, <2>1
    <3>2. PICK q \in Requests : pc[q] = "answer" /\ sent[q] = stored /\ tab[q] # None
      BY <2>1, <3>1 DEF IInv, TokenInv, UnusedAsked
    <3> QED
      BY <1>2, <3>1, <3>2
  <2>2. UNCHANGED <<exchanged, contended>>
    BY <1>1, ServerKept
  <2>3. \A q \in Requests : pc'[q] \in {"check", "exchange"} => pc[q] = pc'[q] /\ sent'[q] = sent[q]
    BY <1>2
  <2>4. \A q \in Requests :
          pc'[q] \in {"check", "exchange"} /\ sent'[q] # None /\ sent'[q] \notin contended
            => exchanged[sent'[q]] = 0
    BY <2>3 DEF IInv, TokenInv, UnusedAsked
  <2> QED
    BY <2>1, <2>2, <2>4 DEF UnusedAsked
<1>10. \A login : Calm(login)' => Calm(login)
  BY <1>1, ServerKept
<1>11. Apart'
  <2>1. ASSUME NEW q \in Pending', sent'[q] # None, stored' # None,
               family[sent'[q]] = family[stored'], Calm(family[stored'])
        PROVE  sent'[q] = stored' /\ tab'[q] # None
    <3>1. CASE stored' = reply[r] /\ pc[r] = "answer"
      <4>1. q \in Pending /\ q # r /\ sent'[q] = sent[q]
        BY <1>3
      <4> QED
        BY <1>1, <1>6, <2>1, <3>1, <4>1 DEF IInv, LoginwiseInv, Apart
    <3>2. CASE stored' = stored
      BY <1>3, <2>1, <3>2 DEF IInv, LoginwiseInv, Apart
    <3> QED
      BY <1>1, <2>1, <3>1, <3>2
  <2>2. UNCHANGED family
    BY <1>1, ServerKept
  <2>3. \A q, z \in Pending' :
          q # z /\ sent'[q] # None /\ sent'[z] # None /\ Calm(family[sent'[q]])
            => family[sent'[q]] # family[sent'[z]]
    BY <1>3 DEF IInv, LoginwiseInv, Apart
  <2> QED
    BY <1>10, <2>1, <2>2, <2>3 DEF Apart
<1>12. LatestHeld'
  <2>1. \A q \in Requests : pc'[q] \in {"check", "exchange"} /\ sent'[q] # None
                              /\ Calm(family[sent'[q]]) => Latest(sent'[q])
    BY <1>2 DEF IInv, LoginwiseInv, LatestHeld
  <2>2. \A q \in Requests : pc'[q] = "answer" /\ Calm(family[sent'[q]]) => Latest(reply'[q])
    BY <1>2 DEF IInv, LoginwiseInv, LatestHeld
  <2>3. ASSUME stored' # None, Calm(family[stored']),
               \A q \in Requests : pc'[q] = "answer" => family[sent'[q]] # family[stored']
        PROVE  Latest(stored')
    <3>1. CASE stored' = reply[r] /\ pc[r] = "answer"
      BY <1>6, <2>3, <3>1
    <3>2. CASE stored' = stored /\ tab[r] = None
      <4>1. pc[r] = "answer" => family[sent[r]] # family[stored]
        BY <1>1, <1>6, <2>3, <3>2 DEF IInv, LoginwiseInv, Apart
      <4>2. \A q \in Requests : pc[q] = "answer" => family[sent[q]] # family[stored]
        BY <1>2, <2>3, <3>2, <4>1
      <4> QED
        BY <2>3, <3>2, <4>2 DEF IInv, LoginwiseInv, LatestHeld
    <3> QED
      BY <1>1, <2>3, <3>1, <3>2
  <2>4. UNCHANGED <<family, Unspared>>
    BY <1>1, ServerKept
  <2> QED
    BY <1>10, <2>1, <2>2, <2>3, <2>4 DEF LatestHeld, Latest
<1> QED
  BY <1>1, <1>4, <1>5, <1>7, <1>8, <1>9, <1>11, <1>12, ServerKept DEF IInv, TokenInv, LoginwiseInv

\* A tab that gives up its refresh keeps the token only if it is reloaded, and
\* then the token is contended.
LEMMA LoseInv ==
  ASSUME IInv, NEW t \in Tabs, Lose(t)
  PROVE  IInv'
<1>1. /\ stored' \in {None, stored} /\ UNCHANGED <<pc, sent, reply, serverVars>>
      /\ contended \subseteq contended'
      /\ tab' = [q \in Requests |-> IF tab[q] = t THEN None ELSE tab[q]]
  BY DEF Lose, Kept
<1>2. \A q \in Requests : tab[q] = t /\ sent[q] = stored' /\ stored' # None => stored' \in contended'
  BY DEF Lose, Again
<1>3. UNCHANGED Pending /\ Pending \subseteq Requests
  BY <1>1 DEF Pending
<1>4. \A q \in Requests : tab'[q] = tab[q] \/ (tab[q] = t /\ tab'[q] = None)
  BY <1>1
<1>5. TypeOK'
  <2>1. contended' \subseteq contended \cup ({stored'} \ {None})
    BY DEF Lose, Again
  <2>2. contended' \in SUBSET Issued'
    BY <1>1, <2>1, ServerKept DEF IInv, TypeOK, Registered
  <2>3. tab' \in [Requests -> Tabs \cup {None}]
    BY <1>1 DEF IInv, TypeOK
  <2> QED
    BY <1>1, <2>2, <2>3, ServerKept DEF IInv, TypeOK
<1>6. Registered'
  BY <1>1, ServerKept DEF IInv, Registered
<1>7. Unseen'
  <2>1. \A q \in Requests : pc[q] = "answer" => reply[q] # None
    BY RefreshNoneAssumption DEF IInv, Registered, Issued
  <2> QED
    BY <1>1, <2>1, ServerKept DEF IInv, TokenInv, Unseen
<1>8. CarriedOnce'
  <2>1. \A q \in Pending : sent[q] # None /\ sent[q] = stored' /\ tab'[q] = None
                             => stored' \in contended'
    BY <1>1, <1>2, <1>3, <1>4 DEF IInv, TokenInv, CarriedOnce
  <2> QED
    BY <1>1, <1>3, <2>1 DEF IInv, TokenInv, CarriedOnce
<1>9. UnusedAsked'
  <2>1. ASSUME stored' # None, exchanged[stored'] # 0, stored' \notin contended'
        PROVE  \E q \in Requests : pc[q] = "answer" /\ sent[q] = stored' /\ tab'[q] # None
    <3>1. PICK q \in Requests : pc[q] = "answer" /\ sent[q] = stored' /\ tab[q] # None
      BY <1>1, <2>1 DEF IInv, TokenInv, UnusedAsked
    <3> QED
      BY <1>2, <1>4, <2>1, <3>1
  <2> QED
    BY <1>1, <2>1, ServerKept DEF IInv, TokenInv, UnusedAsked
<1>10. Apart'
  <2>1. ASSUME NEW q \in Pending, sent[q] # None, stored' # None,
               family[sent[q]] = family[stored'], Calm(family[stored])'
        PROVE  sent[q] = stored' /\ tab'[q] # None
    <3>1. stored' = stored /\ sent[q] = stored /\ tab[q] # None
      BY <1>1, <2>1, ServerKept DEF IInv, LoginwiseInv, Apart
    <3>2. stored' \notin contended'
      BY <1>1, <2>1, ServerKept DEF Calm, IInv, TypeOK
    <3> QED
      BY <1>2, <1>3, <1>4, <2>1, <3>1, <3>2
  <2>2. UNCHANGED <<family, sent>>
    BY <1>1, ServerKept
  <2>3. \A q, z \in Pending :
          q # z /\ sent[q] # None /\ sent[z] # None /\ Calm(family[sent[q]])'
            => family[sent[q]] # family[sent[z]]
    BY <1>1, ServerKept DEF IInv, LoginwiseInv, Apart
  <2> QED
    BY <1>1, <1>3, <2>1, <2>2, <2>3, ServerKept DEF Apart
<1>11. LatestHeld'
  BY <1>1, ServerKept DEF IInv, LoginwiseInv, LatestHeld
<1> QED
  BY <1>1, <1>5, <1>6, <1>7, <1>8, <1>9, <1>10, <1>11, ServerKept DEF IInv, TokenInv, LoginwiseInv
-----------------------------------------------------------------------------
(* New tokens.                                                             *)

\* A token that has just been issued is the last of its login if no other of
\* the login is good any more, and leaves the last ones of other logins alone.
LEMMA NewToken ==
  ASSUME IInv, NEW k \in Tokens \ Issued, NEW login \in Tokens, Issue(k, login),
         UNCHANGED <<age, contended>>, denied \subseteq denied', spared \subseteq spared',
         Calm(login) => \A m \in Unspared : family[m] = login => m \notin Unspared'
  PROVE  /\ Issued' = Issued \cup {k}
         /\ \A m \in Issued : family'[m] = family[m]
         /\ family'[k] = login
         /\ Unspared' \subseteq Unspared \cup {k}
         /\ \A other : Calm(other)' => Calm(other)
         /\ OneLivePerLogin'
         /\ \A m \in Issued : Latest(m) /\ family[m] # login => Latest(m)'
         /\ Calm(login) => Latest(k)'
<1>1. /\ family' = [family EXCEPT ![k] = login] /\ family \in [Tokens -> Tokens \cup {None}]
      /\ login # None
  BY RefreshNoneAssumption DEF Issue, IInv, TypeOK
<1>2. Issued' = Issued \cup {k}
  BY <1>1 DEF Issued
<1>3. /\ \A m \in Issued : family'[m] = family[m]
      /\ family'[k] = login
  BY <1>1 DEF Issued
<1>4. Unspared' \subseteq Unspared \cup {k}
  BY <1>2 DEF Unspared, Live
<1>5. Unspared \subseteq Issued
  BY DEF Unspared, Live
<1>6. \A other : Calm(other)' => Calm(other)
  BY <1>3, CalmBefore DEF IInv, TypeOK
<1>7. Calm(login) => \A m \in Unspared' : family'[m] = login => m = k
  BY <1>3, <1>4, <1>5
<1>8. OneLivePerLogin'
  BY <1>3, <1>4, <1>5, <1>6, <1>7 DEF IInv, LoginwiseInv, OneLivePerLogin, Unspared
<1>9. \A m \in Issued : Latest(m) /\ family[m] # login => Latest(m)'
  BY <1>3, <1>4, <1>5 DEF Latest
<1>10. Calm(login) => Latest(k)'
  BY <1>3, <1>7 DEF Latest
<1> QED
  BY <1>2, <1>3, <1>4, <1>6, <1>8, <1>9, <1>10

\* A login begins a family of its own.
LEMMA LoginInv ==
  ASSUME IInv, Login
  PROVE  IInv'
<1>1. PICK k \in Tokens \ Issued : Issue(k, k) /\ stored' = k
  BY DEF Login
<1>2. UNCHANGED <<active, age, denied, rounded, spared, exchanged, contended,
                  pc, tab, sent, reply, Pending>>
  BY DEF Login, denyVars, requestVars, Pending
<1>3. /\ \A m \in Issued : family[m] # k /\ family[m] \in Issued
      /\ exchanged[k] = 0 /\ k # None
      /\ \A r \in Requests : /\ sent[r] # k
                             /\ pc[r] = "answer" => reply[r] # k
  BY RefreshNoneAssumption DEF IInv, Registered
<1>4. /\ Issued' = Issued \cup {k}
      /\ \A m \in Issued : family'[m] = family[m] /\ (Latest(m) => Latest(m)')
      /\ family'[k] = k /\ (Calm(k) => Latest(k)')
      /\ Unspared' \subseteq Unspared \cup {k}
      /\ \A other : Calm(other)' => Calm(other)
      /\ OneLivePerLogin'
  <2>1. Unspared \subseteq Issued
    BY DEF Unspared, Live
  <2> QED
    BY <1>1, <1>2, <1>3, <2>1, NewToken
<1>5. TypeOK'
  BY <1>1, <1>2, <1>4 DEF IInv, TypeOK, Issue
<1>6. Registered'
  BY <1>1, <1>2, <1>4 DEF IInv, Registered
<1>7. Unseen' /\ CarriedOnce' /\ UnusedAsked'
  <2>1. Unseen'
    BY <1>1, <1>2, <1>3 DEF IInv, TokenInv, Unseen
  <2>2. CarriedOnce'
    BY <1>1, <1>2, <1>3 DEF IInv, TokenInv, CarriedOnce, Pending
  <2>3. UnusedAsked'
    BY <1>1, <1>2, <1>3 DEF IInv, TokenInv, UnusedAsked
  <2> QED
    BY <2>1, <2>2, <2>3
<1>8. Noted' /\ ExchangedOnce'
  BY <1>2, <1>3, <1>4 DEF IInv, TokenInv, Noted, ExchangedOnce
<1>9. Apart'
  <2>1. \A r \in Pending : sent[r] # None => sent[r] \in Issued
    BY DEF IInv, Registered, Pending
  <2>2. \A r \in Pending : sent[r] # None => family'[sent[r]] # family'[k]
    BY <1>3, <1>4, <2>1
  <2>3. \A r \in Pending : sent[r] # None => family'[sent[r]] = family[sent[r]]
    BY <1>4, <2>1
  <2>4. \A r, q \in Pending :
          r # q /\ sent[r] # None /\ sent[q] # None /\ Calm(family[sent[r]])'
            => family'[sent[r]] # family'[sent[q]]
    BY <1>2, <1>4, <2>3 DEF IInv, LoginwiseInv, Apart
  <2> QED
    BY <1>1, <1>2, <2>2, <2>4 DEF Apart
<1>10. LatestHeld'
  BY <1>1, <1>2, <1>3, <1>4 DEF IInv, Registered, LoginwiseInv, LatestHeld
<1> QED
  BY <1>4, <1>5, <1>6, <1>7, <1>8, <1>9, <1>10 DEF IInv, TokenInv, LoginwiseInv

\* An exchange replaces the last token of a calm login by a new one.
LEMMA ExchangeInv ==
  ASSUME IInv, NEW r \in Requests, Exchange(r)
  PROVE  IInv'
<1> DEFINE old == sent[r]
<1>1. PICK k \in Tokens \ Issued :
        Issue(k, family[old]) /\ reply' = [reply EXCEPT ![r] = k]
  BY DEF Exchange
<1>2. /\ pc[r] = "exchange" /\ old \in Issued /\ old # None
      /\ family[old] \in Issued /\ family[old] \in Tokens
      /\ Calm(family[old]) => Latest(old)
      /\ old \notin contended => exchanged[old] = 0
      /\ r \in Pending
  BY DEF Exchange, IInv, Registered, LoginwiseInv, LatestHeld, TokenInv, UnusedAsked, Issued, Pending
<1>3. /\ UNCHANGED <<active, age, stored, contended, tab, sent>>
      /\ pc' = [pc EXCEPT ![r] = "answer"]
      /\ exchanged' = [exchanged EXCEPT ![old] = @ + 1]
      /\ TryDeny(old)
  BY DEF Exchange, browserVars
<1>4. /\ pc'[r] = "answer" /\ reply'[r] = k
      /\ \A q \in Requests \ {r} : pc'[q] = pc[q] /\ reply'[q] = reply[q]
      /\ \A m \in Tokens \ {old} : exchanged'[m] = exchanged[m]
      /\ exchanged'[old] = exchanged[old] + 1 /\ exchanged[old] \in Nat
  BY <1>1, <1>2, <1>3 DEF IInv, TypeOK, Issued
<1>5. /\ denied \subseteq denied' /\ spared \subseteq spared'
      /\ old \in denied' \cup spared'
  BY <1>2, <1>3, TryDenyEffect DEF IInv
<1>6. /\ Issued' = Issued \cup {k}
      /\ \A m \in Issued : family'[m] = family[m]
      /\ family'[k] = family[old] /\ (Calm(family[old]) => Latest(k)')
      /\ Unspared' \subseteq Unspared \cup {k}
      /\ \A other : Calm(other)' => Calm(other)
      /\ OneLivePerLogin'
      /\ \A m \in Issued : Latest(m) /\ family[m] # family[old] => Latest(m)'
  <2>1. old \notin Unspared'
    BY <1>5 DEF Unspared, Live
  <2>2. Calm(family[old]) => \A m \in Unspared : family[m] = family[old] => m \notin Unspared'
    BY <1>2, <2>1 DEF Latest
  <2> QED
    BY <1>1, <1>2, <1>3, <1>5, <2>2, NewToken
<1>7. /\ exchanged'[k] = 0 /\ k # stored /\ k # None
      /\ \A q \in Requests : sent[q] # k /\ (pc[q] = "answer" => reply[q] # k)
  BY <1>1, <1>2, <1>4, RefreshNoneAssumption DEF IInv, Registered
<1>8. TypeOK'
  <2>1. /\ denied' \in SUBSET Tokens /\ rounded' \in SUBSET denied' /\ spared' \in SUBSET Issued
    BY <1>2, <1>3, TryDenyEffect DEF IInv
  <2>2. exchanged' \in [Tokens -> Nat]
    BY <1>2, <1>3 DEF IInv, TypeOK, Issued
  <2>3. spared' \in SUBSET Issued'
    BY <1>6, <2>1
  <2> QED
    BY <1>1, <1>2, <1>3, <1>6, <2>1, <2>2, <2>3 DEF IInv, TypeOK, Issue
<1>9. Registered'
  BY <1>2, <1>3, <1>4, <1>6 DEF IInv, Registered, Issued
<1>10. UNCHANGED Pending
  BY <1>2, <1>4 DEF Pending
<1>11. Unseen'
  <2>1. \A q \in Requests \ {r} : pc'[q] = "answer" =>
          /\ pc[q] = "answer" /\ reply'[q] = reply[q] /\ reply[q] # k /\ reply[q] # old
          /\ reply[q] \in Tokens
    BY <1>4, <1>7 DEF IInv, Registered, TokenInv, Unseen, Issued
  <2>2. \A q \in Requests \ {r} : pc'[q] = "answer" => exchanged'[reply[q]] = 0
    BY <1>4, <2>1 DEF IInv, TokenInv, Unseen
  <2> QED
    BY <1>3, <1>4, <1>7, <2>1, <2>2 DEF IInv, TokenInv, Unseen
<1>12. CarriedOnce'
  BY <1>3, <1>10 DEF IInv, TokenInv, CarriedOnce
<1>13. UnusedAsked'
  <2>1. ASSUME NEW q \in Requests, pc'[q] \in {"check", "exchange"}, sent[q] # None,
               sent[q] \notin contended
        PROVE  exchanged'[sent[q]] = 0
    <3>1. q # r /\ pc[q] \in {"check", "exchange"} /\ q \in Pending /\ sent[q] \in Tokens
      BY <1>4, <2>1 DEF Pending, IInv, TypeOK
    <3>2. sent[q] # old
      BY <1>2, <2>1, <3>1 DEF IInv, TokenInv, CarriedOnce
    <3> QED
      BY <1>4, <2>1, <3>1, <3>2 DEF IInv, TokenInv, UnusedAsked
  <2>2. ASSUME stored # None, exchanged'[stored] # 0, stored \notin contended
        PROVE  \E q \in Requests : pc'[q] = "answer" /\ sent[q] = stored /\ tab[q] # None
    <3>1. CASE stored = old
      <4>1. tab[r] # None
        BY <1>2, <2>2, <3>1 DEF IInv, TokenInv, CarriedOnce
      <4> QED
        BY <1>4, <3>1, <4>1
    <3>2. CASE stored # old
      <4>1. exchanged[stored] # 0
        BY <1>4, <2>2, <3>2 DEF IInv, TypeOK
      <4>2. PICK q \in Requests : pc[q] = "answer" /\ sent[q] = stored /\ tab[q] # None
        BY <2>2, <4>1 DEF IInv, TokenInv, UnusedAsked
      <4> QED
        BY <1>4, <4>2
    <3> QED
      BY <3>1, <3>2
  <2> QED
    BY <1>3, <2>1, <2>2 DEF UnusedAsked
<1>14. Noted'
  <2>1. \A m \in Unspared' : m = k \/ (m \in Unspared /\ m # old /\ m \in Tokens)
    BY <1>5, <1>6 DEF Unspared, Live, Issued
  <2> QED
    BY <1>4, <1>7, <2>1 DEF IInv, TokenInv, Noted
<1>15. ExchangedOnce'
  BY <1>2, <1>3, <1>4 DEF IInv, TokenInv, ExchangedOnce
<1>16. Apart'
  BY <1>3, <1>6, <1>10 DEF IInv, Registered, LoginwiseInv, Apart, Pending
<1>17. LatestHeld'
  <2>1. ASSUME NEW q \in Requests, pc'[q] \in {"check", "exchange"}, sent'[q] # None,
               Calm(family[sent[q]])'
        PROVE  Latest(sent[q])'
    <3>1. /\ q # r /\ pc[q] \in {"check", "exchange"} /\ sent'[q] = sent[q]
          /\ sent[q] # None /\ sent[q] \in Issued
      BY <1>3, <1>4, <2>1 DEF IInv, Registered
    <3>2. q \in Pending /\ Calm(family[sent[q]])
      BY <1>3, <1>6, <2>1, <3>1 DEF Pending
    <3>3. family[sent[q]] # family[old] /\ Latest(sent[q])
      BY <1>2, <3>1, <3>2 DEF IInv, LoginwiseInv, Apart, LatestHeld
    <3>4. PICK m \in Issued : m = sent[q]
      BY <3>1
    <3>5. Latest(m)'
      BY <1>6, <3>3, <3>4
    <3> QED
      BY <3>1, <3>4, <3>5 DEF Latest
  <2>2. ASSUME NEW q \in Requests, pc'[q] = "answer", Calm(family[sent[q]])'
        PROVE  Latest(reply[q])'
    <3>1. CASE q = r
      <4>1. Calm(family[old])
        BY <1>2, <1>3, <1>6, <2>2, <3>1
      <4> QED
        BY <1>4, <1>6, <3>1, <4>1 DEF Latest
    <3>2. CASE q # r
      <4>1. /\ pc[q] = "answer" /\ reply'[q] = reply[q] /\ q \in Pending
            /\ sent[q] # None /\ sent[q] \in Issued /\ reply[q] \in Issued
            /\ family[reply[q]] = family[sent[q]]
        BY <1>4, <2>2, <3>2 DEF IInv, Registered, Pending
      <4>2. Calm(family[sent[q]])
        BY <1>3, <1>6, <2>2, <4>1
      <4>3. family[sent[q]] # family[old] /\ Latest(reply[q])
        BY <1>2, <3>2, <4>1, <4>2 DEF IInv, LoginwiseInv, Apart, LatestHeld
      <4>4. PICK m \in Issued : m = reply[q]
        BY <4>1
      <4>5. Latest(m)'
        BY <1>6, <4>1, <4>3, <4>4
      <4> QED
        BY <4>1, <4>4, <4>5 DEF Latest
    <3> QED
      BY <3>1, <3>2
  <2>3. ASSUME stored' # None, Calm(family[stored])',
               \A q \in Requests : pc'[q] = "answer" => family'[sent'[q]] # family'[stored']
        PROVE  Latest(stored)'
    <3>1. stored \in Issued /\ \A q \in Requests : pc[q] = "answer" => sent[q] \in Issued
      BY <1>3, <2>3 DEF IInv, Registered
    <3>2. family[old] # family[stored] /\ Calm(family[stored])
      BY <1>2, <1>3, <1>4, <1>6, <2>3, <3>1
    <3>3. \A q \in Requests : pc[q] = "answer" => family[sent[q]] # family[stored]
      BY <1>2, <1>3, <1>4, <1>6, <2>3, <3>1
    <3>4. Latest(stored)
      BY <1>3, <2>3, <3>2, <3>3 DEF IInv, LoginwiseInv, LatestHeld
    <3>5. PICK m \in Issued : m = stored
      BY <3>1
    <3>6. Latest(m)'
      BY <1>6, <3>2, <3>4, <3>5
    <3> QED
      BY <1>3, <3>5, <3>6 DEF Latest
  <2> QED
    BY <2>1, <2>2, <2>3 DEF LatestHeld
<1> QED
  BY <1>6, <1>8, <1>9, <1>11, <1>12, <1>13, <1>14, <1>15, <1>16, <1>17
     DEF IInv, TokenInv, LoginwiseInv
-----------------------------------------------------------------------------
(* The theorems.                                                           *)

\* Every step keeps the invariant.
LEMMA NextInv ==
  ASSUME IInv, [Next]_vars
  PROVE  IInv'
<1>1. ASSUME NEW r \in Requests, Serve(r)
      PROVE  IInv'
  BY <1>1, AskInv, ExchangeInv, FinishInv DEF Serve
<1>2. CASE UNCHANGED vars
  <2>1. UNCHANGED <<serverVars, browserVars, requestVars>>
    BY <1>2 DEF vars
  <2>2. UNCHANGED <<active, family, age, denied, rounded, spared, exchanged, stored, contended>>
    BY <2>1 DEF serverVars, denyVars, browserVars
  <2>3. Unspared' = Unspared
    BY <2>2 DEF Unspared, Live, Issued
  <2>4. TypeOK'
    BY <2>1, <2>2 DEF requestVars, IInv, TypeOK, Issued
  <2> QED
    BY <2>1, <2>2, <2>3, <2>4, FewerGood
<1> QED
  BY <1>1, <1>2, StartInv, LoseInv, ClockInv, LoginInv, ForgetInv, OutsideInv DEF Next

\* The inductive invariant: which token is where, and how often it was
\* exchanged (client.ts:63, users/routes.py:107-124).
THEOREM Invariance == Spec => []IInv
  BY InitInv, NextInv, PTL DEF Spec

\* Rotation: of a login whose tokens no two tabs presented at once, at most one
\* token that Redis has not failed to note is good (users/routes.py:107-124).
THEOREM RotationHolds == Spec => []OneLivePerLogin
<1>1. IInv => OneLivePerLogin
  BY DEF IInv, LoginwiseInv
<1> QED
  BY <1>1, Invariance, PTL

\* Only a token that two tabs presented at once is exchanged twice
\* (users/routes.py:115-124, client.ts:63).
THEOREM ExchangesOnce == Spec => []ExchangedOnce
<1>1. IInv => ExchangedOnce
  BY DEF IInv, TokenInv
<1> QED
  BY <1>1, Invariance, PTL

\* An exchanged token passes the deny list only if it was not noted or has less
\* than a second left (users/routes.py:115-124).
THEOREM ReplaysRefused == Spec => NoReplay
<1> DEFINE Justified == \A r \in Requests : Check(r) =>
       \/ exchanged[sent[r]] = 0
       \/ sent[r] \in spared
       \/ age[sent[r]] = "lastSecond"
<1>1. IInv => Justified
  <2>1. SUFFICES ASSUME IInv, NEW r \in Requests, Check(r), exchanged[sent[r]] # 0,
                        sent[r] \notin spared
                 PROVE  age[sent[r]] = "lastSecond"
    OBVIOUS
  <2>2. sent[r] \in Issued /\ sent[r] \in Tokens /\ Accepted(sent[r])
    BY <2>1 DEF Check, Accepted, IInv, Registered, Issued
  <2> QED
    BY <2>1, <2>2 DEF Accepted, IInv, TypeOK, TokenInv, Noted, Unspared, Live
<1> QED
  BY <1>1, Invariance, PTL DEF Spec, NoReplay

\* The browser is refused a token it had exchanged itself only if it presented
\* it from two tabs, or before and after a reload, at once (client.ts:63).
THEOREM NoSignOutByItself == Spec => NoSpuriousSignOut
<1> DEFINE Justified == \A r \in Requests : Refuse(r) =>
       \/ sent[r] = None
       \/ exchanged[sent[r]] = 0
       \/ sent[r] \in contended
<1>1. IInv => Justified
  BY DEF Refuse, IInv, TokenInv, UnusedAsked
<1> QED
  BY <1>1, Invariance, PTL DEF Spec, NoSpuriousSignOut
=============================================================================
