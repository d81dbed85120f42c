------------------------------ MODULE Catalogue ------------------------------
(***************************************************************************)
(* The benefits a merchant publishes (merchants/benefit_routes.py), the    *)
(* list an employee leafs through (benefits/visibility.py, pagination.py)  *)
(* and the assistants that ask a language model (ai/routes.py,             *)
(* ai/service.py), as concurrent requests over one database and one pool   *)
(* of its connections.                                                     *)
(*                                                                         *)
(* Every statement reads the rows committed before it.  A request takes a  *)
(* connection at its first statement and keeps it until its transaction    *)
(* ends; while none is free it waits, 30 seconds at most.                  *)
(***************************************************************************)
EXTENDS Integers, Sequences, FiniteSets, SequencesExt

CONSTANTS
  Benefits, Merchants, Companies, Plans, None,
  MerchantOf, CompanyOf, Title, Category,   \* columns no request here changes
  Employees,       \* pairs of a plan and a company
  MaxTime,         \* bound on the clock
  Edits, Payloads, \* requests of merchants and what they may ask for
  Walks, PageSize,
  Assistants, CatalogLimit, TopCount,
  MaxNamed,        \* bound on the ids a model names
  PoolSize         \* pool_size and max_overflow together

ASSUME CatalogueBounds ==
  /\ MaxTime \in Nat /\ PageSize \in Nat \ {0} /\ PoolSize \in Nat \ {0}
  /\ CatalogLimit \in Nat \ {0} /\ TopCount \in Nat \ {0} /\ MaxNamed \in Nat
ASSUME CatalogueNone == None \notin Merchants \cup Companies \cup Edits \cup Nat
ASSUME CatalogueRequests ==
  Edits \cap (Walks \cup Assistants) = {} /\ Walks \cap Assistants = {}

\* A table has finitely many rows; titles are compared, so they are numbers here.
ASSUME CatalogueRows == IsFiniteSet(Benefits) /\ Title \in [Benefits -> Int]

\* BenefitCreateRequest and BenefitUpdateRequest: a list of offers is not empty
\* and names a plan once; a creation has one.
ASSUME CataloguePayloads ==
  \A p \in Payloads :
    /\ p.op \in {"create", "patch"} /\ p.benefit \in Benefits
    /\ DOMAIN p.fields \subseteq {"active", "from", "until"}
    /\ \A f \in DOMAIN p.fields :
         p.fields[f] \in IF f = "active" THEN BOOLEAN ELSE 0..MaxTime \cup {None}
    /\ p.op = "create" => p.offers # None
    /\ p.offers # None =>
         /\ p.offers # {} /\ p.offers \subseteq Plans \X BOOLEAN
         /\ \A n, m \in p.offers : n[1] = m[1] => n = m

VARIABLES
  row,      \* benefits: is_active, valid_from, valid_until
  offers,   \* benefit_plan_offers, each with the request that inserted it
  open,     \* merchants that are ACTIVE
  now,
  pc, held, \* where each request is, and those with a connection
  edit,     \* what a merchant's request asks for and the rows it has read
  walk,     \* the page an employee is at and what the walk has met
  help      \* what an assistant has read and what it answers

storeVars == <<row, offers, open>>
vars == <<row, offers, open, now, pc, held, edit, walk, help>>

Requests == Edits \cup Walks \cup Assistants
Times == 0..MaxTime
Moments == Times \cup {None}
Rows == [there : BOOLEAN, active : BOOLEAN, from : Moments, until : Moments]
Blank == [there |-> FALSE, active |-> TRUE, from |-> None, until |-> None]

OffersOf(b) == {o \in offers : o.benefit = b}

TypeOK ==
  /\ row \in [Benefits -> Rows]
  /\ \A o \in offers : /\ o.benefit \in Benefits /\ o.plan \in Plans
                       /\ o.available \in BOOLEAN /\ o.by \in Edits \cup {None}
  /\ open \subseteq Merchants
  /\ now \in Times
  /\ pc \in [Requests -> {"idle", "wait", "rows", "offers", "model", "audit",
                          "commit", "between", "done", "failed"}]
  /\ held \subseteq {x \in Requests : pc[x] \notin {"idle", "wait", "between", "done", "failed"}}
  /\ Cardinality(held) <= PoolSize
  /\ \A r \in Edits : edit[r].payload \in Payloads \cup {None}
  /\ \A w \in Walks : walk[w].moment \in Times /\ walk[w].seen \subseteq Benefits
  /\ \A h \in Assistants : help[h].rows \subseteq Benefits

NoEdit == [payload |-> None, row |-> Blank, offers |-> {}]
NoWalk == [employee |-> None, page |-> 0, moment |-> 0, counted |-> {}, last |-> {},
           steady |-> Benefits, shrunk |-> FALSE, late |-> FALSE, seen |-> {}]
NoHelp == [employee |-> None, kind |-> "concierge", moment |-> 0, rows |-> {},
           eligible |-> {}, used |-> {}, answer |-> <<>>, ai |-> FALSE]

\* Some benefits published, each for some plan.
Init ==
  /\ row \in [Benefits -> {Blank, [Blank EXCEPT !.there = TRUE]}]
  /\ \E P \in (SUBSET Plans) \ {{}} :
       offers = [benefit : {b \in Benefits : row[b].there}, plan : P,
                 available : {TRUE}, by : {None}]
  /\ open = Merchants
  /\ now = 0
  /\ pc = [x \in Requests |-> "idle"]
  /\ held = {}
  /\ edit = [r \in Edits |-> NoEdit]
  /\ walk = [w \in Walks |-> NoWalk]
  /\ help = [h \in Assistants |-> NoHelp]
-----------------------------------------------------------------------------
(* Mistakes the properties must notice: what a definition below, named at  *)
(* the right, would be after a plausible slip in the code.  No action uses *)
(* them.                                                                   *)

\* IsWithinValidity: the last moment still counts.
LastMomentToo(b, t) ==
  /\ ~(row[b].from # None /\ t < row[b].from)
  /\ ~(row[b].until # None /\ t > row[b].until)

\* Ordered: only the ends in the payload are compared.
OnlySupplied(p) ==
  {"from", "until"} \subseteq DOMAIN p.fields /\ None \notin {p.fields.from, p.fields.until}
    => p.fields.from < p.fields.until

\* Changed: the session writes every column it has read.
WholeRow(r) ==
  [f \in {"active", "from", "until"} |->
     IF f \in DOMAIN edit[r].payload.fields THEN edit[r].payload.fields[f]
     ELSE edit[r].row[f]]

\* Clashes: benefit_plan_offers has no unique constraint.
NeverClashes(r) == FALSE

\* Sorted: the pages have no ORDER BY.
AnyOrder(V) == SetToSeqs(V)

\* Chosen: whatever the model names is shown.
NoAllowList(h, ids) == {ids}

\* ModelSilent: the call of the model has no timeout.
WaitsForever(h) == FALSE
-----------------------------------------------------------------------------
(* What an employee may see, and what redeem_benefit would let through.    *)

\* visible_benefits_query
Visible(b, e, t) ==
  /\ row[b].there /\ row[b].active
  /\ \E o \in OffersOf(b) : o.plan = e[1] /\ o.available
  /\ MerchantOf[b] \in open
  /\ row[b].from # None => row[b].from <= t
  /\ row[b].until # None => row[b].until > t
  /\ CompanyOf[b] \in {None, e[2]}

\* discount_for_plan
Offered(b, p) == \E o \in OffersOf(b) : o.plan = p /\ o.available

IsWithinValidity(b, t) ==
  /\ ~(row[b].from # None /\ t < row[b].from)
  /\ ~(row[b].until # None /\ t >= row[b].until)

\* The checks of redeem_benefit up to those of the limits, in their order.
Redeemable(b, e, t) ==
  /\ row[b].there
  /\ row[b].active
  /\ IsWithinValidity(b, t)
  /\ CompanyOf[b] # None => CompanyOf[b] = e[2]
  /\ Offered(b, e[1])
  /\ MerchantOf[b] \in open

VisibleTo(e, t) == {b \in Benefits : Visible(b, e, t)}
-----------------------------------------------------------------------------
(* The pool of database connections.                                       *)

HasFree == Cardinality(held) < PoolSize

Take(x) == x \notin held /\ HasFree /\ held' = held \cup {x}

End(x, how) == pc' = [pc EXCEPT ![x] = how] /\ held' = held \ {x}

\* pool_timeout: a request that waited too long for a connection fails.
GiveUp(x) ==
  /\ \/ pc[x] = "wait"
     \/ pc[x] = "audit" /\ x \notin held
  /\ ~HasFree
  /\ End(x, "failed")
  /\ UNCHANGED <<storeVars, now, edit, walk, help>>
-----------------------------------------------------------------------------
(* create_benefit, update_benefit and deactivate_benefit.                  *)

\* A creation makes a row of its own: one request at most is given its key.
StartEdit(r) ==
  /\ pc[r] = "idle"
  /\ \E p \in Payloads :
       /\ p.op = "create" =>
            ~row[p.benefit].there /\ \A q \in Edits : edit[q].payload # p
       /\ edit' = [edit EXCEPT ![r].payload = p]
  /\ pc' = [pc EXCEPT ![r] = "wait"]
  /\ UNCHANGED <<storeVars, now, held, walk, help>>

InOrder(v) == None \notin {v.from, v.until} => v.from < v.until

Put(fields, f, old) == IF f \in DOMAIN fields THEN fields[f] ELSE old

Overwritten(v, fields) ==
  [there |-> TRUE, active |-> Put(fields, "active", v.active),
   from |-> Put(fields, "from", v.from), until |-> Put(fields, "until", v.until)]

\* _assert_validity of the payload completed by the row as read.
Ordered(p) == InOrder(Overwritten(row[p.benefit], p.fields))

Found(p) == p.op = "create" \/ row[p.benefit].there

\* The merchant, or the benefit with its offers, is read; a creation reads
\* no benefit (its key is new).
EditReads(r) ==
  LET p == edit[r].payload IN
  /\ pc[r] = "wait" /\ Found(p) /\ Ordered(p)
  /\ Take(r)
  /\ pc' = [pc EXCEPT ![r] = "commit"]
  /\ edit' = [edit EXCEPT ![r].row = row[p.benefit], ![r].offers = OffersOf(p.benefit)]
  /\ UNCHANGED <<storeVars, now, walk, help>>

\* "Benefit not found", "valid_until must be after valid_from"
EditRefused(r) ==
  /\ pc[r] = "wait" /\ HasFree
  /\ ~(Found(edit[r].payload) /\ Ordered(edit[r].payload))
  /\ End(r, "failed")
  /\ UNCHANGED <<storeVars, now, edit, walk, help>>

\* The session writes the attributes that differ from what it has read.
Changed(r) ==
  LET p == edit[r].payload
      F == {f \in DOMAIN p.fields : p.fields[f] # edit[r].row[f]}
  IN  [f \in F |-> p.fields[f]]

\* The new offers are inserted before those read are deleted, so a plan the
\* benefit has an offer for breaks uq_benefit_plan_offer.
Clashes(r) ==
  LET p == edit[r].payload IN
  p.offers # None /\ \E o \in OffersOf(p.benefit), n \in p.offers : n[1] = o.plan

\* An offer another request has removed meanwhile is missed silently.
ReplacedOffers(r) ==
  LET p == edit[r].payload IN
  IF p.offers = None THEN offers
  ELSE (offers \ edit[r].offers)
         \cup {[benefit |-> p.benefit, plan |-> n[1], available |-> n[2], by |-> r]
                 : n \in p.offers}

\* The flush, the record of the audit and the commit, or none of them.
EditCommits(r) ==
  LET b == edit[r].payload.benefit IN
  /\ pc[r] = "commit"
  /\ IF Clashes(r)
     THEN End(r, "failed") /\ UNCHANGED <<row, offers>>
     ELSE /\ row' = [row EXCEPT ![b] = Overwritten(@, Changed(r))]
          /\ offers' = ReplacedOffers(r)
          /\ End(r, "done")
  /\ UNCHANGED <<open, now, edit, walk, help>>

\* update_merchant with a status.
SetMerchant(m) ==
  /\ open' \in {open \cup {m}, open \ {m}}
  /\ UNCHANGED <<row, offers, now, pc, held, edit, walk, help>>

Tick ==
  /\ now < MaxTime /\ now' = now + 1
  /\ UNCHANGED <<storeVars, pc, held, edit, walk, help>>
-----------------------------------------------------------------------------
(* list_benefits and paginate: an employee asks page after page while the  *)
(* answer says has_next.                                                   *)

\* visible_benefits_query fixes the moment before any statement runs.
AskPage(w) ==
  /\ pc[w] \in {"idle", "between"}
  /\ \E e \in Employees :
       /\ walk[w].employee \in {None, e}
       /\ walk' = [walk EXCEPT ![w].employee = e, ![w].page = @ + 1, ![w].moment = now]
  /\ pc' = [pc EXCEPT ![w] = "wait"]
  /\ UNCHANGED <<storeVars, now, held, edit, help>>

\* What the walk has met so far: seen by no step of the code.
Met(w, V) ==
  [walk[w] EXCEPT !.steady = @ \cap V, !.last = V,
                  !.shrunk = @ \/ ~(walk[w].last \subseteq V)]

CountRows(w) ==
  LET V == VisibleTo(walk[w].employee, walk[w].moment) IN
  /\ pc[w] = "wait" /\ Take(w)
  /\ walk' = [walk EXCEPT ![w] = [Met(w, V) EXCEPT !.counted = V]]
  /\ pc' = [pc EXCEPT ![w] = "rows"]
  /\ UNCHANGED <<storeVars, now, edit, help>>

\* ORDER BY title alone: rows of one title come in any order.
Sorted(V) ==
  {s \in SetToSeqs(V) : \A i, j \in 1..Cardinality(V) : i < j => Title[s[i]] <= Title[s[j]]}

\* LIMIT and OFFSET
PageOf(w, s) ==
  {s[i] : i \in DOMAIN s \cap ((walk[w].page - 1) * PageSize + 1)..walk[w].page * PageSize}

TotalPages(n) == (n + PageSize - 1) \div PageSize

\* The rows of the page; the statements after it only dress them.
ReadRows(w) ==
  LET V == VisibleTo(walk[w].employee, walk[w].moment)
      hasNext == walk[w].page < TotalPages(Cardinality(walk[w].counted))
  IN
  /\ pc[w] = "rows"
  /\ \E s \in Sorted(V) :
       walk' = [walk EXCEPT ![w] =
         [Met(w, V) EXCEPT !.late = ~(V \subseteq walk[w].counted),
                           !.seen = @ \cup PageOf(w, s)]]
  /\ End(w, IF hasNext THEN "between" ELSE "done")
  /\ UNCHANGED <<storeVars, now, edit, help>>
-----------------------------------------------------------------------------
(* concierge, generate_offer and get_company_report.  The draft for a      *)
(* platform administrator is the one that reads nothing before it asks the *)
(* model.  The numbers of the report are those of Reports.                 *)

Kinds == {"concierge", "draft", "adminDraft", "report"}

AskHelp(h) ==
  /\ pc[h] = "idle"
  /\ \E e \in Employees, k \in Kinds :
       /\ help' = [help EXCEPT ![h].employee = e, ![h].kind = k, ![h].moment = now]
       /\ pc' = [pc EXCEPT ![h] = IF k = "adminDraft" THEN "model" ELSE "wait"]
  /\ UNCHANGED <<storeVars, now, held, edit, walk>>

LesserOf(m, n) == IF m < n THEN m ELSE n

\* LIMIT without ORDER BY
AnyOf(S, limit) == kSubset(LesserOf(limit, Cardinality(S)), S)

AssistantReads(h) ==
  /\ pc[h] = "wait" /\ Take(h)
  /\ IF help[h].kind = "concierge"
     THEN /\ \E S \in AnyOf(VisibleTo(help[h].employee, help[h].moment), CatalogLimit) :
               help' = [help EXCEPT ![h].rows = S]
          /\ pc' = [pc EXCEPT ![h] = "offers"]
     ELSE UNCHANGED help /\ pc' = [pc EXCEPT ![h] = "model"]
  /\ UNCHANGED <<storeVars, now, edit, walk>>

\* The offers of the rows come with a statement of their own, then the
\* categories of the employee's redemptions.
ReadOffers(h) ==
  LET eligible == {b \in help[h].rows : Offered(b, help[h].employee[1])} IN
  /\ pc[h] = "offers"
  /\ \E U \in SUBSET {Category[b] : b \in Benefits} :
       help' = [help EXCEPT ![h].eligible = eligible, ![h].used = U]
  /\ pc' = [pc EXCEPT ![h] = IF eligible = {} THEN "audit" ELSE "model"]
  /\ UNCHANGED <<storeVars, now, held, edit, walk>>

\* The benefits that the model was shown among those it names, each at the
\* place of its first mention: of two, one stands first if some mention of it
\* comes before every mention of the other.
Chosen(h, ids) ==
  LET Before(b, c) == \E n \in DOMAIN ids : ids[n] = b /\ \A k \in 1..n : ids[k] # c
  IN  {s \in SetToSeqs(ToSet(ids) \cap help[h].eligible) :
         \A i, j \in DOMAIN s : i < j => Before(s[i], s[j])}

\* No valid id: the best discounts, of categories not used yet if there are
\* any.  Discounts are not modelled, so any choice in any order.
Best(h) ==
  LET fresh == {b \in help[h].eligible : Category[b] \notin help[h].used} IN
  UNION {SetToSeqs(S) : S \in AnyOf(IF fresh = {} THEN help[h].eligible ELSE fresh, TopCount)}

Answer(h, answer, ai) ==
  /\ help' = [help EXCEPT ![h].answer = answer, ![h].ai = ai]
  /\ pc' = [pc EXCEPT ![h] = "audit"]
  /\ UNCHANGED <<storeVars, now, held, edit, walk>>

\* A name that is no benefit's is None.
ModelAnswers(h) ==
  /\ pc[h] = "model"
  /\ \/ /\ help[h].kind = "concierge"
        /\ \E ids \in BoundedSeq(Benefits \cup {None}, MaxNamed) :
             \E s \in Chosen(h, ids) :
               IF s # <<>> THEN Answer(h, s, TRUE)
               ELSE \E t \in Best(h) : Answer(h, t, FALSE)
     \/ help[h].kind # "concierge" /\ Answer(h, <<>>, TRUE)

\* LLMUnavailableError, a timeout among others, or no JSON in the answer.
ModelSilent(h) ==
  /\ pc[h] = "model"
  /\ \E s \in SetToSeqs(help[h].eligible) : Answer(h, s, FALSE)

\* "benefit_ids" that is neither a list nor empty: the loop over it raises.
ModelGarbles(h) ==
  /\ pc[h] = "model" /\ help[h].kind = "concierge"
  /\ End(h, "failed")
  /\ UNCHANGED <<storeVars, now, edit, walk, help>>

\* record_audit and commit: AI_REQUEST or AI_ERROR as help[h].ai says.
Audit(h) ==
  /\ pc[h] = "audit" /\ (h \in held \/ HasFree)
  /\ End(h, "done")
  /\ UNCHANGED <<storeVars, now, edit, walk, help>>
-----------------------------------------------------------------------------
\* What a request does by itself once it has been sent.
Proceeds(x) ==
  \/ GiveUp(x)
  \/ x \in Edits /\ (EditReads(x) \/ EditRefused(x) \/ EditCommits(x))
  \/ x \in Walks /\ (CountRows(x) \/ ReadRows(x))
  \/ x \in Assistants /\ \/ AssistantReads(x) \/ ReadOffers(x)
                         \/ ModelSilent(x) \/ Audit(x)

Next ==
  \/ \E x \in Requests : Proceeds(x)
  \/ \E r \in Edits : StartEdit(r)
  \/ \E w \in Walks : AskPage(w)
  \/ \E h \in Assistants : AskHelp(h) \/ ModelAnswers(h) \/ ModelGarbles(h)
  \/ \E m \in Merchants : SetMerchant(m)
  \/ Tick

Spec == Init /\ [][Next]_vars

\* The server runs what it has started; a wait for a connection and a call of
\* the model end with their timeouts, whatever the model does.
Fairness == \A x \in Requests : WF_vars(Proceeds(x))

FairSpec == Spec /\ Fairness
-----------------------------------------------------------------------------
(* Properties. *)

\* A published benefit keeps an offer, and one per plan, while requests
\* replace its offers side by side (benefit_routes.py:77, plan_offers.py:34).
OneOfferPerPlan ==
  \A b \in Benefits : row[b].there =>
    /\ OffersOf(b) # {}
    /\ \A o, q \in OffersOf(b) : o.plan = q.plan => o = q

Commits(r, b) == pc[r] = "commit" /\ pc'[r] = "done" /\ edit[r].payload.benefit = b

\* The validity of a benefit is put out of order only by a request that has
\* read another row than the one it overwrites (benefit_routes.py:188).
OrderKept ==
  [][\A b \in Benefits : InOrder(row[b]) /\ ~InOrder(row'[b]) =>
       \E r \in Edits : Commits(r, b) /\ edit[r].row # row[b]]_vars

\* A column of a benefit changes only to what the request that commits asked
\* for: of two PATCHes at once neither undoes the other, so a benefit that was
\* taken off stays off (benefit_routes.py:190).
OnlyAsAsked ==
  [][\A b \in Benefits, f \in {"active", "from", "until"} :
       row'[b][f] # row[b][f] =>
         \E r \in Edits : /\ Commits(r, b)
                          /\ f \in DOMAIN edit[r].payload.fields
                          /\ row'[b][f] = edit[r].payload.fields[f]]_vars

\* The list and the redemption agree: an employee is shown exactly the
\* benefits redeem_benefit lets through at that moment, limits apart
\* (visibility.py:1-12, redemptions/service.py:95-151).
VisibleIsRedeemable ==
  \A b \in Benefits, e \in Employees : Visible(b, e, now) <=> Redeemable(b, e, now)

Tied == {b \in Benefits : \E q \in Benefits \ {b} : Title[q] = Title[b]}

\* Whoever leafs through all pages has seen every benefit that was visible all
\* the time and shares its title with none, unless a benefit was hidden on
\* the way or one appeared between the count and the rows of the last page
\* (pagination.py:73-80).
NoMiss ==
  \A w \in Walks : pc[w] = "done" =>
    \/ walk[w].steady \ Tied \subseteq walk[w].seen
    \/ walk[w].shrunk
    \/ walk[w].late

\* Whatever the model says, the concierge recommends benefits the employee was
\* shown to have, each once, and something if there is anything
\* (ai/service.py:123-126).
RecommendedEligible ==
  \A h \in Assistants : pc[h] = "done" /\ help[h].kind = "concierge" =>
    LET answer == help[h].answer IN
    /\ ToSet(answer) \subseteq help[h].eligible
    /\ Cardinality(ToSet(answer)) = Len(answer)
    /\ answer = <<>> => help[h].eligible = {}

\* A request that was sent is answered, though connections are few and the
\* assistants keep theirs while the model thinks (ai/routes.py:128).
EveryRequestEnds ==
  \A x \in Requests : pc[x] # "idle" ~> pc[x] \in {"between", "done", "failed"}
=============================================================================
