-------------------------- MODULE CatalogueProofs --------------------------
(***************************************************************************)
(* What the requests of merchants keep of the catalogue, for any benefits, *)
(* payloads and number of requests of every kind.                          *)
(***************************************************************************)
EXTENDS Catalogue, FiniteSetTheorems, TLAPS

OfferRows ==
  [benefit : Benefits, plan : Plans, available : BOOLEAN, by : Edits \cup {None}]

EditRecords ==
  [payload : Payloads \cup {None}, row : Rows, offers : SUBSET OfferRows]

PcSteps == {"idle", "wait", "rows", "offers", "model", "audit", "commit", "between",
            "done", "failed"}

\* The part of TypeOK that the requests of merchants concern.
Typed ==
  /\ row \in [Benefits -> Rows]
  /\ offers \in SUBSET OfferRows
  /\ now \in Times
  /\ pc \in [Requests -> PcSteps]
  /\ edit \in [Edits -> EditRecords]

\* A plan has one offer of a benefit, published or not.
OnePerPlan ==
  /\ \A o, q \in offers : o.benefit = q.benefit /\ o.plan = q.plan => o = q
  /\ \A b \in Benefits : row[b].there => \E o \in offers : o.benefit = b

\* What a request about to commit has read and checked.
EditFits(r) ==
  /\ pc[r] \in {"wait", "commit"} => edit[r].payload \in Payloads
  /\ pc[r] = "commit" =>
       LET p == edit[r].payload IN
       /\ p.op = "create" \/ row[p.benefit].there
       /\ \A o \in edit[r].offers : o.benefit = p.benefit
       /\ InOrder(Overwritten(edit[r].row, p.fields))

\* The invariant that Next preserves.
IInv == Typed /\ OnePerPlan /\ \A r \in Edits : EditFits(r)

\* A catalogue to begin with.
LEMMA InitInv == Init => IInv
<1> SUFFICES ASSUME Init
             PROVE  IInv
  OBVIOUS
<1>1. Blank \in Rows /\ [Blank EXCEPT !.there = TRUE] \in Rows
  BY DEF Blank, Rows, Moments
<1>2. row \in [Benefits -> Rows]
  BY <1>1 DEF Init
<1>3. PICK P \in (SUBSET Plans) \ {{}} :
        offers = [benefit : {b \in Benefits : row[b].there}, plan : P,
                  available : {TRUE}, by : {None}]
  BY DEF Init
<1>4. offers \in SUBSET OfferRows
  BY <1>3 DEF OfferRows
<1>5. edit \in [Edits -> EditRecords] /\ pc \in [Requests -> PcSteps] /\ now \in Times
  BY <1>1, CatalogueBounds DEF Init, EditRecords, NoEdit, PcSteps, Times
<1>6. OnePerPlan
  <2>1. PICK p \in P : TRUE
    BY <1>3
  <2>2. ASSUME NEW b \in Benefits, row[b].there
        PROVE  \E o \in offers : o.benefit = b
    <3>1. [benefit |-> b, plan |-> p, available |-> TRUE, by |-> None] \in offers
      BY <1>3, <2>1, <2>2
    <3> QED
      BY <3>1
  <2>3. ASSUME NEW o \in offers
        PROVE  o.available = TRUE /\ o.by = None
    BY <1>3
  <2>4. ASSUME NEW o \in offers, NEW q \in offers, o.benefit = q.benefit, o.plan = q.plan
        PROVE  o = q
    <3>1. o \in OfferRows /\ q \in OfferRows
      BY <1>4
    <3>2. o.available = q.available /\ o.by = q.by
      BY <2>3
    <3> QED
      BY <2>4, <3>1, <3>2 DEF OfferRows
  <2> QED
    BY <2>2, <2>4 DEF OnePerPlan
<1>7. \A r \in Edits : EditFits(r)
  BY DEF Init, EditFits, Requests
<1> QED
  BY <1>2, <1>4, <1>5, <1>6, <1>7 DEF IInv, Typed
-----------------------------------------------------------------------------
(* Steps that leave the catalogue alone.                                   *)

\* Requests that read or end, the clock and the employees.
LEMMA ElsewhereInv ==
  ASSUME IInv, UNCHANGED <<row, offers, edit>>, now' \in Times, pc' \in [Requests -> PcSteps],
         \A r \in Edits : pc'[r] \in {"wait", "commit"} => pc'[r] = pc[r]
  PROVE  IInv'
<1>1. \A r \in Edits : EditFits(r)'
  BY DEF IInv, EditFits, InOrder, Overwritten, Put
<1>2. Typed' /\ OnePerPlan'
  BY DEF IInv, Typed, OnePerPlan
<1> QED
  BY <1>1, <1>2 DEF IInv

\* A request that is sent.
LEMMA StartEditInv ==
  ASSUME IInv, NEW r \in Edits, StartEdit(r)
  PROVE  IInv'
<1>1. PICK p \in Payloads : edit' = [edit EXCEPT ![r].payload = p]
  BY DEF StartEdit
<1>2. UNCHANGED <<row, offers, now>> /\ pc' = [pc EXCEPT ![r] = "wait"] /\ r \in Requests
  BY DEF StartEdit, storeVars, Requests
<1>3. /\ edit' \in [Edits -> EditRecords] /\ edit'[r].payload = p
      /\ \A q \in Edits \ {r} : edit'[q] = edit[q] /\ pc'[q] = pc[q]
      /\ pc'[r] = "wait" /\ pc' \in [Requests -> PcSteps]
  BY <1>1, <1>2 DEF IInv, Typed, EditRecords, PcSteps, Requests
<1>4. \A q \in Edits : EditFits(q)'
  BY <1>2, <1>3 DEF IInv, EditFits, InOrder, Overwritten, Put
<1> QED
  BY <1>2, <1>3, <1>4 DEF IInv, Typed, OnePerPlan

\* The rows are read and the payload checked against them.
LEMMA EditReadsInv ==
  ASSUME IInv, NEW r \in Edits, EditReads(r)
  PROVE  IInv'
<1> DEFINE p == edit[r].payload
           new == [edit[r] EXCEPT !.row = row[p.benefit], !.offers = OffersOf(p.benefit)]
<1>1. p \in Payloads /\ p.benefit \in Benefits /\ r \in Requests
  BY CataloguePayloads DEF EditReads, IInv, EditFits, Requests
<1>2. /\ edit' = [edit EXCEPT ![r] = new] /\ pc' = [pc EXCEPT ![r] = "commit"]
      /\ UNCHANGED <<row, offers, now>>
  BY DEF EditReads, storeVars
<1>3. /\ new \in EditRecords /\ new.payload = p /\ new.row = row[p.benefit]
      /\ new.offers = OffersOf(p.benefit)
  BY <1>1 DEF IInv, Typed, EditRecords, OffersOf
<1>4. /\ edit' \in [Edits -> EditRecords] /\ edit'[r] = new
      /\ \A q \in Edits \ {r} : edit'[q] = edit[q] /\ pc'[q] = pc[q]
      /\ pc'[r] = "commit" /\ pc' \in [Requests -> PcSteps]
  BY <1>1, <1>2, <1>3 DEF IInv, Typed, PcSteps, Requests
<1>5. EditFits(r)'
  <2>1. /\ p.op = "create" \/ row[p.benefit].there
        /\ InOrder(Overwritten(row[p.benefit], p.fields))
    BY DEF EditReads, Found, Ordered
  <2>2. \A o \in OffersOf(p.benefit) : o.benefit = p.benefit
    BY DEF OffersOf
  <2> QED
    BY <1>1, <1>2, <1>3, <1>4, <2>1, <2>2 DEF EditFits, InOrder, Overwritten, Put
<1>6. \A q \in Edits \ {r} : EditFits(q)'
  BY <1>2, <1>4 DEF IInv, EditFits, InOrder, Overwritten, Put
<1> QED
  BY <1>2, <1>4, <1>5, <1>6 DEF IInv, Typed, OnePerPlan
-----------------------------------------------------------------------------
(* The commit.                                                             *)

\* A row that is overwritten is a row, and it is there.
LEMMA OverwrittenRow ==
  ASSUME NEW v \in Rows, NEW fields, DOMAIN fields \subseteq {"active", "from", "until"},
         \A f \in DOMAIN fields :
           fields[f] \in IF f = "active" THEN BOOLEAN ELSE 0..MaxTime \cup {None}
  PROVE  Overwritten(v, fields) \in Rows /\ Overwritten(v, fields).there
<1>1. /\ Put(fields, "active", v.active) \in BOOLEAN
      /\ Put(fields, "from", v.from) \in Moments
      /\ Put(fields, "until", v.until) \in Moments
  BY DEF Put, Rows, Moments, Times
<1> QED
  BY <1>1 DEF Overwritten, Rows

\* What a request writes is part of what it asks for.
LEMMA ChangedFields ==
  ASSUME NEW r \in Edits, edit[r].payload \in Payloads
  PROVE  /\ DOMAIN Changed(r) \subseteq DOMAIN edit[r].payload.fields
         /\ \A f \in DOMAIN Changed(r) : Changed(r)[f] = edit[r].payload.fields[f]
         /\ DOMAIN Changed(r) \subseteq {"active", "from", "until"}
         /\ \A f \in DOMAIN Changed(r) :
              Changed(r)[f] \in IF f = "active" THEN BOOLEAN ELSE 0..MaxTime \cup {None}
<1>1. /\ DOMAIN Changed(r) \subseteq DOMAIN edit[r].payload.fields
      /\ \A f \in DOMAIN Changed(r) : Changed(r)[f] = edit[r].payload.fields[f]
  BY DEF Changed
<1> QED
  BY <1>1, CataloguePayloads

\* The offers of a commit that does not clash: one per plan, and some for
\* every benefit that had some and for the one that is edited.
LEMMA ReplacedInv ==
  ASSUME IInv, NEW r \in Edits, pc[r] = "commit", ~Clashes(r)
  PROVE  LET b == edit[r].payload.benefit IN
         /\ ReplacedOffers(r) \in SUBSET OfferRows
         /\ \A o, q \in ReplacedOffers(r) : o.benefit = q.benefit /\ o.plan = q.plan => o = q
         /\ \A c \in Benefits : c = b \/ row[c].there =>
              \E o \in ReplacedOffers(r) : o.benefit = c
<1> DEFINE p == edit[r].payload
           new == {[benefit |-> p.benefit, plan |-> n[1], available |-> n[2], by |-> r]
                     : n \in p.offers}
<1>1. p \in Payloads /\ p.benefit \in Benefits /\ (\A o \in edit[r].offers : o.benefit = p.benefit)
  BY CataloguePayloads DEF IInv, EditFits
<1>2. /\ offers \in SUBSET OfferRows
      /\ \A o, q \in offers : o.benefit = q.benefit /\ o.plan = q.plan => o = q
      /\ \A c \in Benefits : row[c].there => \E o \in offers : o.benefit = c
  BY DEF IInv, Typed, OnePerPlan
<1>3. CASE p.offers = None
  <2>1. ReplacedOffers(r) = offers
    BY <1>3 DEF ReplacedOffers
  <2>2. row[p.benefit].there
    BY <1>1, <1>3, CataloguePayloads DEF IInv, EditFits
  <2> QED
    BY <1>2, <2>1, <2>2
<1>4. CASE p.offers # None
  <2>1. /\ p.offers # {} /\ p.offers \subseteq Plans \X BOOLEAN
        /\ \A n, m \in p.offers : n[1] = m[1] => n = m
    BY <1>1, <1>4, CataloguePayloads
  <2>2. ReplacedOffers(r) = (offers \ edit[r].offers) \cup new
    BY <1>4 DEF ReplacedOffers
  <2>3. new \in SUBSET OfferRows
    BY <1>1, <2>1 DEF OfferRows
  <2>4. \A o, q \in new : o.plan = q.plan => o = q
    BY <2>1
  <2>5. ASSUME NEW o \in offers, NEW q \in new
        PROVE  ~(o.benefit = q.benefit /\ o.plan = q.plan)
    BY <1>4, <2>1 DEF Clashes, OffersOf
  <2>6. \A o, q \in ReplacedOffers(r) : o.benefit = q.benefit /\ o.plan = q.plan => o = q
    BY <1>2, <2>2, <2>4, <2>5
  <2>7. \E o \in new : o.benefit = p.benefit
    <3>1. PICK n \in p.offers : TRUE
      BY <2>1
    <3>2. [benefit |-> p.benefit, plan |-> n[1], available |-> n[2], by |-> r] \in new
      OBVIOUS
    <3> QED
      BY <3>2
  <2>8. ASSUME NEW c \in Benefits, c # p.benefit, row[c].there
        PROVE  \E o \in ReplacedOffers(r) : o.benefit = c
    BY <1>1, <1>2, <2>2, <2>8
  <2> QED
    BY <1>2, <2>2, <2>3, <2>6, <2>7, <2>8
<1> QED
  BY <1>3, <1>4

\* A commit, or the constraint that refuses it.
LEMMA EditCommitsInv ==
  ASSUME IInv, NEW r \in Edits, EditCommits(r)
  PROVE  IInv'
<1> DEFINE p == edit[r].payload
<1>1. r \in Requests /\ pc \in [Requests -> PcSteps] /\ now \in Times /\ UNCHANGED <<now, edit>>
      /\ pc[r] = "commit"
  BY DEF EditCommits, IInv, Typed, Requests
<1>2. CASE Clashes(r)
  <2>1. UNCHANGED <<row, offers, edit>> /\ pc' = [pc EXCEPT ![r] = "failed"]
    BY <1>2 DEF EditCommits, End
  <2> QED
    BY <1>1, <2>1, ElsewhereInv DEF PcSteps
<1>3. CASE ~Clashes(r)
  <2>1. /\ row' = [row EXCEPT ![p.benefit] = Overwritten(row[p.benefit], Changed(r))]
        /\ offers' = ReplacedOffers(r) /\ pc' = [pc EXCEPT ![r] = "done"]
    BY <1>3 DEF EditCommits, End
  <2>2. p \in Payloads /\ p.benefit \in Benefits /\ row \in [Benefits -> Rows]
    BY <1>1, CataloguePayloads DEF IInv, EditFits, Typed
  <2>3. /\ Overwritten(row[p.benefit], Changed(r)) \in Rows
        /\ Overwritten(row[p.benefit], Changed(r)).there
    BY <2>2, ChangedFields, OverwrittenRow
  <2>4. /\ row' \in [Benefits -> Rows]
        /\ \A c \in Benefits : row'[c].there <=> c = p.benefit \/ row[c].there
    BY <2>1, <2>2, <2>3
  <2>5. /\ offers' \in SUBSET OfferRows
        /\ \A o, q \in offers' : o.benefit = q.benefit /\ o.plan = q.plan => o = q
        /\ \A c \in Benefits : row'[c].there => \E o \in offers' : o.benefit = c
    BY <1>1, <1>3, <2>1, <2>4, ReplacedInv
  <2>6. /\ pc' \in [Requests -> PcSteps] /\ pc'[r] = "done"
        /\ \A q \in Edits \ {r} : pc'[q] = pc[q]
    BY <1>1, <2>1 DEF PcSteps
  <2>7. ASSUME NEW q \in Edits
        PROVE  EditFits(q)'
    <3>1. CASE q = r
      BY <2>6, <3>1 DEF EditFits
    <3>2. CASE q # r
      <4>1. edit[q].payload \in Payloads => edit[q].payload.benefit \in Benefits
        BY CataloguePayloads
      <4> QED
        BY <1>1, <2>4, <2>6, <3>2, <4>1 DEF IInv, EditFits, InOrder, Overwritten, Put
    <3> QED
      BY <3>1, <3>2
  <2> QED
    BY <1>1, <2>4, <2>5, <2>6, <2>7 DEF IInv, Typed, OnePerPlan
<1> QED
  BY <1>2, <1>3
-----------------------------------------------------------------------------
(* Every step.                                                             *)

\* What the requests do besides reading a benefit and changing it.
OtherMove(x) ==
  \/ GiveUp(x)
  \/ x \in Edits /\ EditRefused(x)
  \/ x \in Walks /\ (CountRows(x) \/ ReadRows(x))
  \/ x \in Assistants /\ \/ AssistantReads(x) \/ ReadOffers(x)
                         \/ ModelSilent(x) \/ Audit(x)

OtherSteps ==
  \/ \E x \in Requests : OtherMove(x)
  \/ \E w \in Walks : AskPage(w)
  \/ \E h \in Assistants : AskHelp(h) \/ ModelAnswers(h) \/ ModelGarbles(h)
  \/ \E m \in Merchants : SetMerchant(m)
  \/ Tick
  \/ UNCHANGED vars

\* A step is one of a merchant's request or none of the catalogue's concern.
LEMMA Steps ==
  ASSUME [Next]_vars
  PROVE  \/ \E r \in Edits : StartEdit(r) \/ EditReads(r) \/ EditCommits(r)
         \/ OtherSteps
<1>1. ASSUME NEW x \in Requests, Proceeds(x)
      PROVE  (x \in Edits /\ (EditReads(x) \/ EditCommits(x))) \/ OtherSteps
  <2>1. (x \in Edits /\ (EditReads(x) \/ EditCommits(x))) \/ OtherMove(x)
    BY <1>1, Zenon DEF Proceeds, OtherMove
  <2> QED
    BY <2>1 DEF OtherSteps
<1>2. CASE UNCHANGED vars
  BY <1>2 DEF OtherSteps
<1>3. CASE Next
  <2>1. \/ \E x \in Requests : Proceeds(x)
        \/ \E r \in Edits : StartEdit(r)
        \/ OtherSteps
    BY <1>3, Zenon DEF Next, OtherSteps
  <2> QED
    BY <1>1, <2>1, Zenon
<1> QED
  BY <1>2, <1>3

\* The other steps move no request of a merchant forward.
LEMMA OtherStepsElsewhere ==
  ASSUME IInv, OtherSteps
  PROVE  /\ UNCHANGED <<row, offers, edit>> /\ now' \in Times
         /\ pc' \in [Requests -> PcSteps]
         /\ \A r \in Edits : pc'[r] \in {"wait", "commit"} => pc'[r] = pc[r]
<1> DEFINE Ended(x) == UNCHANGED <<row, offers, edit, now>> /\ pc' = [pc EXCEPT ![x] = "failed"]
           Moved(x) == /\ UNCHANGED <<row, offers, edit, now>>
                       /\ \E s \in PcSteps : pc' = [pc EXCEPT ![x] = s]
<1>1. pc \in [Requests -> PcSteps] /\ now \in Times
  BY DEF IInv, Typed
<1>2. \A x \in Walks \cup Assistants : x \notin Edits
  BY CatalogueRequests
<1>3. ASSUME NEW x \in Requests, Ended(x)
      PROVE  /\ pc' \in [Requests -> PcSteps]
             /\ \A r \in Edits : pc'[r] \in {"wait", "commit"} => pc'[r] = pc[r]
  BY <1>1, <1>3 DEF PcSteps, Requests
<1>4. ASSUME NEW x \in Walks \cup Assistants, Moved(x)
      PROVE  /\ pc' \in [Requests -> PcSteps]
             /\ \A r \in Edits : pc'[r] \in {"wait", "commit"} => pc'[r] = pc[r]
  BY <1>1, <1>2, <1>4 DEF Requests
<1>5. ASSUME UNCHANGED <<row, offers, edit, pc>>, now' \in Times
      PROVE  /\ UNCHANGED <<row, offers, edit>> /\ now' \in Times
             /\ pc' \in [Requests -> PcSteps]
             /\ \A r \in Edits : pc'[r] \in {"wait", "commit"} => pc'[r] = pc[r]
  BY <1>1, <1>5
<1>6. ASSUME NEW x \in Requests, GiveUp(x) \/ EditRefused(x)
      PROVE  Ended(x)
  BY <1>6 DEF GiveUp, EditRefused, End, storeVars
<1>7. ASSUME NEW w \in Walks, CountRows(w) \/ ReadRows(w) \/ AskPage(w)
      PROVE  Moved(w)
  BY <1>7 DEF CountRows, ReadRows, AskPage, End, storeVars, PcSteps
<1>8. ASSUME NEW h \in Assistants, AssistantReads(h) \/ ReadOffers(h) \/ AskHelp(h)
      PROVE  Moved(h)
  BY <1>8 DEF AssistantReads, ReadOffers, AskHelp, storeVars, PcSteps
<1>9. ASSUME NEW h \in Assistants,
             ModelSilent(h) \/ Audit(h) \/ ModelAnswers(h) \/ ModelGarbles(h)
      PROVE  Moved(h)
  BY <1>9 DEF ModelSilent, Audit, ModelAnswers, ModelGarbles, Answer, End, storeVars, PcSteps
<1>10. ASSUME NEW m \in Merchants, SetMerchant(m)
       PROVE  UNCHANGED <<row, offers, edit, pc, now>>
  BY <1>10 DEF SetMerchant
<1>11. ASSUME Tick
       PROVE  UNCHANGED <<row, offers, edit, pc>> /\ now' \in Times
  BY <1>1, <1>11, CatalogueBounds DEF Tick, storeVars, Times
<1>12. CASE UNCHANGED vars
  BY <1>1, <1>5, <1>12 DEF vars, storeVars
<1> QED
  BY <1>1, <1>3, <1>4, <1>5, <1>6, <1>7, <1>8, <1>9, <1>10, <1>11, <1>12
  DEF OtherSteps, OtherMove

\* Every step preserves the invariant.
LEMMA NextInv == IInv /\ [Next]_vars => IInv'
BY Steps, StartEditInv, EditReadsInv, EditCommitsInv, OtherStepsElsewhere, ElsewhereInv

\* The reachable states satisfy the invariant.
THEOREM Invariance == Spec => []IInv
BY InitInv, NextInv, PTL DEF Spec
-----------------------------------------------------------------------------
(* The properties.                                                         *)

\* A published benefit keeps an offer, and one per plan.
THEOREM OffersHold == Spec => []OneOfferPerPlan
<1>1. IInv => OneOfferPerPlan
  BY DEF IInv, OnePerPlan, OneOfferPerPlan, OffersOf
<1> QED
  BY <1>1, Invariance, PTL

\* The list shows what a redemption would let through.
THEOREM ListAgrees == Spec => []VisibleIsRedeemable
<1>1. IInv => VisibleIsRedeemable
  <2> SUFFICES ASSUME IInv, NEW b \in Benefits, NEW e \in Employees
               PROVE  Visible(b, e, now) <=> Redeemable(b, e, now)
    BY DEF VisibleIsRedeemable
  <2>1. /\ row[b].from \in Moments /\ row[b].until \in Moments /\ now \in Times
        /\ Times \subseteq Nat
    BY CatalogueBounds DEF IInv, Typed, Rows, Times
  <2> DEFINE from == row[b].from
             until == row[b].until
  <2>2. /\ from \in Nat \/ from = None
        /\ until \in Nat \/ until = None
        /\ now \in Nat
    BY <2>1 DEF Moments
  <2>3. from \in Nat => (from <= now <=> ~(now < from))
    BY <2>2
  <2>4. until \in Nat => (until > now <=> ~(now >= until))
    BY <2>2
  <2> QED
    BY <2>2, <2>3, <2>4, Zenon DEF Visible, Redeemable, IsWithinValidity, Offered
<1> QED
  BY <1>1, Invariance, PTL

\* What a step does to the row of a benefit: nothing, or what a request that
\* commits has changed.
LEMMA RowStep ==
  ASSUME IInv, [Next]_vars, NEW b \in Benefits
  PROVE  \/ row'[b] = row[b]
         \/ \E r \in Edits : Commits(r, b) /\ row'[b] = Overwritten(row[b], Changed(r))
<1>1. CASE OtherSteps
  BY <1>1, OtherStepsElsewhere
<1>2. ASSUME NEW r \in Edits, StartEdit(r) \/ EditReads(r)
      PROVE  row' = row
  BY <1>2 DEF StartEdit, EditReads, storeVars
<1>3. ASSUME NEW r \in Edits, EditCommits(r)
      PROVE  \/ row'[b] = row[b]
             \/ Commits(r, b) /\ row'[b] = Overwritten(row[b], Changed(r))
  BY <1>3 DEF EditCommits, End, IInv, Typed, Commits, Requests
<1> QED
  BY <1>1, <1>2, <1>3, Steps

\* A column changes only to what the request that commits asked for.
THEOREM AskedHolds == Spec => OnlyAsAsked
<1> DEFINE Asked == \A b \in Benefits, f \in {"active", "from", "until"} :
             row'[b][f] # row[b][f] =>
               \E r \in Edits : /\ Commits(r, b)
                                /\ f \in DOMAIN edit[r].payload.fields
                                /\ row'[b][f] = edit[r].payload.fields[f]
<1>1. IInv /\ [Next]_vars => Asked
  <2> SUFFICES ASSUME IInv, [Next]_vars, NEW b \in Benefits,
                      NEW f \in {"active", "from", "until"}, row'[b][f] # row[b][f]
               PROVE  \E r \in Edits : /\ Commits(r, b)
                                       /\ f \in DOMAIN edit[r].payload.fields
                                       /\ row'[b][f] = edit[r].payload.fields[f]
    OBVIOUS
  <2>1. PICK r \in Edits : Commits(r, b) /\ row'[b] = Overwritten(row[b], Changed(r))
    BY RowStep
  <2>2. edit[r].payload \in Payloads
    BY <2>1 DEF IInv, EditFits, Commits
  <2>3. row'[b][f] = Put(Changed(r), f, row[b][f])
    BY <2>1 DEF Overwritten
  <2>4. f \in DOMAIN Changed(r) /\ row'[b][f] = Changed(r)[f]
    BY <2>3 DEF Put
  <2> QED
    BY <2>1, <2>2, <2>4, ChangedFields
<1> QED
  BY <1>1, Invariance, PTL DEF Spec, OnlyAsAsked

\* Only a request that has read another row puts the validity out of order.
THEOREM OrderHolds == Spec => OrderKept
<1> DEFINE Kept == \A b \in Benefits : InOrder(row[b]) /\ ~InOrder(row'[b]) =>
             \E r \in Edits : Commits(r, b) /\ edit[r].row # row[b]
<1>1. IInv /\ [Next]_vars => Kept
  <2> SUFFICES ASSUME IInv, [Next]_vars, NEW b \in Benefits,
                      InOrder(row[b]), ~InOrder(row'[b])
               PROVE  \E r \in Edits : Commits(r, b) /\ edit[r].row # row[b]
    OBVIOUS
  <2>1. PICK r \in Edits : Commits(r, b) /\ row'[b] = Overwritten(row[b], Changed(r))
    BY RowStep
  <2>2. ASSUME edit[r].row = row[b]
        PROVE  FALSE
    <3>1. \A f \in {"from", "until"} :
            Put(Changed(r), f, row[b][f]) = Put(edit[r].payload.fields, f, row[b][f])
      BY <2>2 DEF Put, Changed
    <3>2. InOrder(Overwritten(row[b], edit[r].payload.fields))
      BY <2>1, <2>2 DEF IInv, EditFits, Commits
    <3> QED
      BY <2>1, <3>1, <3>2 DEF InOrder, Overwritten
  <2> QED
    BY <2>1, <2>2
<1> QED
  BY <1>1, Invariance, PTL DEF Spec, OrderKept
-----------------------------------------------------------------------------
(* What the employees' walks and the assistants keep.                      *)

WalkRecords ==
  [employee : Employees \cup {None}, page : Nat, moment : Times,
   counted : SUBSET Benefits, last : SUBSET Benefits, steady : SUBSET Benefits,
   shrunk : BOOLEAN, late : BOOLEAN, seen : SUBSET Benefits]

\* The benefits that every order by title puts before b.
Before(w, b) == {x \in walk[w].last : Title[x] < Title[b]}

\* The rows on the pages that a walk has read.
PagesRead(w) ==
  (IF pc[w] \in {"wait", "rows"} THEN walk[w].page - 1 ELSE walk[w].page) * PageSize

\* What was always there has been seen, or comes after the pages read.
Leafed(w) ==
  /\ pc[w] = "idle" => walk[w].page = 0
  /\ pc[w] # "failed" /\ ~walk[w].shrunk =>
       \A b \in walk[w].steady \ Tied :
         b \in walk[w].seen \/ Cardinality(Before(w, b)) >= PagesRead(w)
  /\ pc[w] = "done" =>
       \/ walk[w].steady \ Tied \subseteq walk[w].seen
       \/ walk[w].shrunk
       \/ walk[w].late

WalksInv == walk \in [Walks -> WalkRecords] /\ \A w \in Walks : Leafed(w)

HelpRecords ==
  [employee : Employees \cup {None}, kind : Kinds, moment : Times,
   rows : SUBSET Benefits, eligible : SUBSET Benefits,
   used : SUBSET {Category[b] : b \in Benefits}, answer : Seq(Benefits), ai : BOOLEAN]

\* An answer that recommends some of S, each once, and something if it can.
Advises(answer, S) ==
  /\ ToSet(answer) \subseteq S
  /\ Cardinality(ToSet(answer)) = Len(answer)
  /\ answer = <<>> => S = {}

Advised(h) ==
  /\ pc[h] \in {"idle", "wait", "offers"} => help[h].answer = <<>>
  /\ pc[h] \in {"audit", "done"} /\ help[h].kind = "concierge" =>
       Advises(help[h].answer, help[h].eligible)

HelpInv == help \in [Assistants -> HelpRecords] /\ \A h \in Assistants : Advised(h)

\* A connection is held by a request in its transaction, and there are enough.
PoolInv ==
  /\ held \subseteq {x \in Requests : pc[x] \notin {"idle", "wait", "between", "done", "failed"}}
  /\ IsFiniteSet(held) /\ Cardinality(held) <= PoolSize
-----------------------------------------------------------------------------
(* Sequences of the elements of a finite set.                              *)

\* They list each element once.
LEMMA ListedOnce ==
  ASSUME NEW S, IsFiniteSet(S), NEW s \in SetToSeqs(S)
  PROVE  /\ s \in Seq(S) /\ Len(s) = Cardinality(S) /\ Cardinality(S) \in Nat
         /\ DOMAIN s = 1..Cardinality(S)
         /\ ToSet(s) = S
         /\ \A i, j \in DOMAIN s : i # j => s[i] # s[j]
<1> DEFINE n == Cardinality(S)
<1>1. n \in Nat
  BY FS_CardinalityType
<1>2. s \in [1..n -> S] /\ \A i, j \in 1..n : i # j => s[i] # s[j]
  BY DEF SetToSeqs
<1>3. s \in Seq(S) /\ Len(s) = n /\ DOMAIN s = 1..n
  BY <1>1, <1>2
<1>4. IsFiniteSet(1..n) /\ Cardinality(1..n) = n
  BY <1>1, FS_Interval
<1>5. s \in Injection(1..n, S)
  BY <1>2 DEF Injection, IsInjective
<1>6. s \in Surjection(1..n, S)
  BY <1>4, <1>5, FS_Injection
<1>7. ToSet(s) = S
  BY <1>2, <1>3, <1>6 DEF ToSet, Surjection
<1> QED
  BY <1>1, <1>2, <1>3, <1>7

\* Of a sequence by title, the elements before one with a title of its own
\* are those with a lesser title.
LEMMA RankInSorted ==
  ASSUME NEW V \in SUBSET Benefits, NEW s \in Sorted(V), NEW i \in DOMAIN s, s[i] \notin Tied
  PROVE  /\ i \in 1..Cardinality(V) /\ Cardinality(V) \in Nat
         /\ Cardinality({x \in V : Title[x] < Title[s[i]]}) = i - 1
<1> DEFINE n == Cardinality(V)
           L == {x \in V : Title[x] < Title[s[i]]}
<1>1. IsFiniteSet(V) /\ s \in SetToSeqs(V)
  BY CatalogueRows, FS_Subset DEF Sorted
<1>2. /\ n \in Nat /\ DOMAIN s = 1..n /\ ToSet(s) = V /\ i \in 1..n
      /\ \A j, k \in DOMAIN s : j # k => s[j] # s[k]
  BY <1>1, ListedOnce
<1>3. \A j, k \in 1..n : j < k => Title[s[j]] <= Title[s[k]]
  BY DEF Sorted
<1>4. \A j \in 1..n : s[j] \in V /\ s[j] \in Benefits /\ Title[s[j]] \in Int
  BY <1>2, CatalogueRows DEF ToSet
<1>5. \A j \in 1..n : j # i => Title[s[j]] # Title[s[i]]
  BY <1>2, <1>4 DEF Tied
<1>6. \A j \in 1..n : Title[s[j]] < Title[s[i]] <=> j < i
  BY <1>2, <1>3, <1>4, <1>5
<1> DEFINE f == [j \in 1..(i - 1) |-> s[j]]
<1>7. f \in Bijection(1..(i - 1), L)
  <2>1. f \in [1..(i - 1) -> L]
    BY <1>2, <1>4, <1>6
  <2>2. \A x \in L : \E j \in 1..(i - 1) : f[j] = x
    BY <1>2, <1>6 DEF ToSet
  <2>3. \A j, k \in 1..(i - 1) : f[j] = f[k] => j = k
    BY <1>2
  <2> QED
    BY <2>1, <2>2, <2>3 DEF Bijection, Injection, IsInjective, Surjection
<1>8. IsFiniteSet(1..(i - 1)) /\ Cardinality(1..(i - 1)) = i - 1
  <2>1. 1 \in Int /\ i - 1 \in Int /\ (1 > i - 1 => i - 1 = 0) /\ (i - 1) - 1 + 1 = i - 1
    BY <1>2
  <2> HIDE DEF n
  <2> QED
    BY <2>1, FS_Interval
<1>9. Cardinality(L) = i - 1
  BY <1>7, <1>8, FS_Bijection DEF ExistsBijection
<1> QED
  BY <1>2, <1>9

\* A page past the last one leaves no row out.
LEMMA PagesCover ==
  ASSUME NEW n \in Nat, NEW page \in Nat, page >= TotalPages(n)
  PROVE  page * PageSize >= n
<1>1. PageSize \in Nat /\ PageSize > 0
  BY CatalogueBounds
<1>2. TotalPages(n) \in Nat /\ TotalPages(n) * PageSize >= n
  BY <1>1 DEF TotalPages
<1> QED
  BY <1>1, <1>2
-----------------------------------------------------------------------------
(* Who moves: each of the three invariants is about one kind of request.   *)

\* Outside the requests of a walk, walks are let be or fail.
LEMMA WalkSteps ==
  ASSUME IInv, [Next]_vars
  PROVE  \/ \E w \in Walks : AskPage(w) \/ CountRows(w) \/ ReadRows(w)
         \/ /\ walk' = walk
            /\ \A w \in Walks : pc'[w] \in {pc[w], "failed"}
<1>1. pc \in [Requests -> PcSteps] /\ Edits \subseteq Requests /\ Assistants \subseteq Requests
  BY DEF IInv, Typed, Requests
<1>2. \A w \in Walks : w \in Requests /\ w \notin Edits /\ w \notin Assistants
  BY CatalogueRequests DEF Requests
<1> DEFINE Kept == walk' = walk /\ \A w \in Walks : pc'[w] \in {pc[w], "failed"}
<1>3. ASSUME NEW x \in Requests, GiveUp(x)
      PROVE  Kept
  BY <1>1, <1>2, <1>3 DEF GiveUp, End
<1>4. ASSUME NEW r \in Edits, StartEdit(r) \/ EditReads(r) \/ EditRefused(r)
      PROVE  Kept
  BY <1>1, <1>2, <1>4 DEF StartEdit, EditReads, EditRefused, End
<1>5. ASSUME NEW r \in Edits, EditCommits(r)
      PROVE  Kept
  BY <1>1, <1>2, <1>5 DEF EditCommits, End
<1>6. ASSUME NEW h \in Assistants, AskHelp(h) \/ AssistantReads(h) \/ ReadOffers(h)
      PROVE  Kept
  BY <1>1, <1>2, <1>6 DEF AskHelp, AssistantReads, ReadOffers
<1>7. ASSUME NEW h \in Assistants,
             ModelAnswers(h) \/ ModelSilent(h) \/ ModelGarbles(h) \/ Audit(h)
      PROVE  Kept
  BY <1>1, <1>2, <1>7 DEF ModelAnswers, ModelSilent, ModelGarbles, Audit, Answer, End
<1>8. ASSUME (\E m \in Merchants : SetMerchant(m)) \/ Tick \/ UNCHANGED vars
      PROVE  Kept
  BY <1>8 DEF SetMerchant, Tick, vars
<1> HIDE DEF Kept
<1>9. (\E w \in Walks : AskPage(w) \/ CountRows(w) \/ ReadRows(w)) \/ Kept
  BY <1>3, <1>4, <1>5, <1>6, <1>7, <1>8, Steps, Zenon DEF OtherSteps, OtherMove
<1> QED
  BY <1>9 DEF Kept

\* Outside the requests of an assistant, assistants are let be or fail.
LEMMA HelpSteps ==
  ASSUME IInv, [Next]_vars
  PROVE  \/ \E h \in Assistants :
              \/ AskHelp(h) \/ AssistantReads(h) \/ ReadOffers(h)
              \/ ModelAnswers(h) \/ ModelSilent(h) \/ Audit(h)
         \/ /\ help' = help
            /\ \A h \in Assistants : pc'[h] \in {pc[h], "failed"}
<1>1. pc \in [Requests -> PcSteps] /\ Edits \subseteq Requests /\ Walks \subseteq Requests
  BY DEF IInv, Typed, Requests
<1>2. \A h \in Assistants : h \in Requests /\ h \notin Edits /\ h \notin Walks
  BY CatalogueRequests DEF Requests
<1> DEFINE Kept == help' = help /\ \A h \in Assistants : pc'[h] \in {pc[h], "failed"}
           Helps(h) == \/ AskHelp(h) \/ AssistantReads(h) \/ ReadOffers(h)
                       \/ ModelAnswers(h) \/ ModelSilent(h) \/ Audit(h)
<1>3. ASSUME NEW x \in Requests, GiveUp(x)
      PROVE  Kept
  BY <1>1, <1>2, <1>3 DEF GiveUp, End
<1>4. ASSUME NEW r \in Edits, StartEdit(r) \/ EditReads(r) \/ EditRefused(r)
      PROVE  Kept
  BY <1>1, <1>2, <1>4 DEF StartEdit, EditReads, EditRefused, End
<1>5. ASSUME NEW r \in Edits, EditCommits(r)
      PROVE  Kept
  BY <1>1, <1>2, <1>5 DEF EditCommits, End
<1>6. ASSUME NEW w \in Walks, AskPage(w) \/ CountRows(w) \/ ReadRows(w)
      PROVE  Kept
  BY <1>1, <1>2, <1>6 DEF AskPage, CountRows, ReadRows, End
<1>7. ASSUME NEW h \in Assistants, ModelGarbles(h)
      PROVE  Kept
  BY <1>1, <1>2, <1>7 DEF ModelGarbles, End
<1>8. ASSUME (\E m \in Merchants : SetMerchant(m)) \/ Tick \/ UNCHANGED vars
      PROVE  Kept
  BY <1>8 DEF SetMerchant, Tick, vars
<1> HIDE DEF Kept
<1>9. (\E h \in Assistants : Helps(h)) \/ Kept
  BY <1>3, <1>4, <1>5, <1>6, <1>7, <1>8, Steps, Zenon DEF OtherSteps, OtherMove
<1> QED
  BY <1>9 DEF Kept
-----------------------------------------------------------------------------
(* Walks.                                                                  *)

\* More rows, more of them before b.
LEMMA BeforeGrows ==
  ASSUME NEW W \in SUBSET Benefits, NEW V \in SUBSET W, NEW b \in Benefits
  PROVE  /\ Cardinality({x \in V : Title[x] < Title[b]}) \in Nat
         /\ Cardinality({x \in W : Title[x] < Title[b]}) \in Nat
         /\ Cardinality({x \in V : Title[x] < Title[b]})
              <= Cardinality({x \in W : Title[x] < Title[b]})
<1> DEFINE X == {x \in V : Title[x] < Title[b]}
           Y == {x \in W : Title[x] < Title[b]}
<1>1. X \in SUBSET Y /\ Y \in SUBSET Benefits
  OBVIOUS
<1> HIDE DEF X, Y
<1>2. IsFiniteSet(Y)
  BY <1>1, CatalogueRows, FS_Subset
<1>3. IsFiniteSet(X) /\ Cardinality(X) <= Cardinality(Y)
  BY <1>1, <1>2, FS_Subset
<1>4. Cardinality(X) \in Nat /\ Cardinality(Y) \in Nat
  BY <1>2, <1>3, FS_CardinalityType
<1> QED
  BY <1>3, <1>4 DEF X, Y

\* A walk that has read nothing.
LEMMA WalksInit == Init => WalksInv
<1> SUFFICES ASSUME Init
             PROVE  WalksInv
  OBVIOUS
<1>1. NoWalk \in WalkRecords
  BY CatalogueBounds DEF NoWalk, WalkRecords, Times
<1>2. ASSUME NEW w \in Walks
      PROVE  Leafed(w)
  <2>1. pc[w] = "idle" /\ walk[w] = NoWalk
    BY DEF Init, Requests
  <2>2. PagesRead(w) = 0 /\ \A b : Before(w, b) = {}
    BY <2>1, CatalogueBounds DEF PagesRead, Before, NoWalk
  <2> QED
    BY <2>1, <2>2, FS_EmptySet DEF Leafed, NoWalk
<1> QED
  BY <1>1, <1>2 DEF Init, WalksInv

\* What holds of a walk goes on holding while it is let be, or has failed.
LEMMA WalkKept ==
  ASSUME NEW w \in Walks, Leafed(w), walk'[w] = walk[w], pc'[w] \in {pc[w], "failed"}
  PROVE  Leafed(w)'
<1>1. CASE pc'[w] = pc[w]
  <2>1. PagesRead(w)' = PagesRead(w) /\ \A b : Before(w, b)' = Before(w, b)
    BY <1>1 DEF PagesRead, Before
  <2> QED
    BY <1>1, <2>1 DEF Leafed
<1>2. CASE pc'[w] = "failed"
  BY <1>2 DEF Leafed
<1> QED
  BY <1>1, <1>2

\* The next page is asked for: the pages read are the same.
LEMMA AskPageInv ==
  ASSUME IInv, WalksInv, NEW w \in Walks, AskPage(w)
  PROVE  WalksInv'
<1>1. PICK e \in Employees :
        walk' = [walk EXCEPT ![w].employee = e, ![w].page = @ + 1, ![w].moment = now]
  BY DEF AskPage
<1>2. /\ walk \in [Walks -> WalkRecords] /\ walk[w] \in WalkRecords /\ now \in Times
      /\ pc \in [Requests -> PcSteps] /\ w \in Requests /\ PageSize \in Nat
      /\ pc[w] \in {"idle", "between"} /\ pc' = [pc EXCEPT ![w] = "wait"]
  BY CatalogueBounds DEF WalksInv, IInv, Typed, AskPage, Requests
<1>3. walk' \in [Walks -> WalkRecords]
  BY <1>1, <1>2 DEF WalkRecords
<1>4. ASSUME NEW v \in Walks, v # w
      PROVE  Leafed(v)'
  <2>1. walk'[v] = walk[v] /\ pc'[v] = pc[v]
    BY <1>1, <1>2, <1>4 DEF Requests
  <2> QED
    BY <2>1, WalkKept DEF WalksInv
<1>5. Leafed(w)'
  <2>1. /\ pc'[w] = "wait" /\ walk'[w].page = walk[w].page + 1 /\ walk[w].page \in Nat
        /\ walk'[w].last = walk[w].last /\ walk'[w].steady = walk[w].steady
        /\ walk'[w].shrunk = walk[w].shrunk /\ walk'[w].seen = walk[w].seen
    BY <1>1, <1>2 DEF WalkRecords
  <2>2. PagesRead(w)' = PagesRead(w) /\ \A b : Before(w, b)' = Before(w, b)
    BY <1>2, <2>1 DEF PagesRead, Before
  <2> QED
    BY <1>2, <2>1, <2>2 DEF WalksInv, Leafed
<1> QED
  BY <1>3, <1>4, <1>5 DEF WalksInv

\* What a statement that finds V does to the part of a walk it always notes.
LEMMA MetRecord ==
  ASSUME WalksInv, NEW w \in Walks, NEW V \in SUBSET Benefits
  PROVE  /\ Met(w, V) \in WalkRecords
         /\ Met(w, V).last = V /\ Met(w, V).steady = walk[w].steady \cap V
         /\ Met(w, V).shrunk <=> (walk[w].shrunk \/ ~(walk[w].last \subseteq V))
         /\ Met(w, V).page = walk[w].page /\ Met(w, V).seen = walk[w].seen
         /\ Met(w, V).counted = walk[w].counted
<1> DEFINE shrunk == walk[w].shrunk \/ ~(walk[w].last \subseteq V)
<1>1. walk[w] \in WalkRecords
  BY DEF WalksInv
<1>2. shrunk \in BOOLEAN
  OBVIOUS
<1>3. Met(w, V) = [walk[w] EXCEPT !.steady = walk[w].steady \cap V, !.last = V, !.shrunk = shrunk]
  BY <1>1 DEF Met, WalkRecords
<1>4. shrunk <=> (walk[w].shrunk \/ ~(walk[w].last \subseteq V))
  OBVIOUS
<1> HIDE DEF shrunk
<1> QED
  BY <1>1, <1>2, <1>3, <1>4 DEF WalkRecords

\* The rows are counted: those before a benefit are no fewer than before.
LEMMA CountRowsInv ==
  ASSUME IInv, WalksInv, NEW w \in Walks, CountRows(w)
  PROVE  WalksInv'
<1> DEFINE V == VisibleTo(walk[w].employee, walk[w].moment)
           new == [Met(w, V) EXCEPT !.counted = V]
<1>1. V \in SUBSET Benefits
  BY DEF VisibleTo
<1>2. /\ walk \in [Walks -> WalkRecords] /\ walk[w] \in WalkRecords
      /\ pc \in [Requests -> PcSteps] /\ w \in Requests /\ PageSize \in Nat
      /\ pc[w] = "wait" /\ pc' = [pc EXCEPT ![w] = "rows"] /\ walk' = [walk EXCEPT ![w] = new]
  BY CatalogueBounds DEF WalksInv, IInv, Typed, CountRows, Requests
<1> HIDE DEF V
<1>3. /\ new \in WalkRecords /\ new.last = V /\ new.steady = walk[w].steady \cap V
      /\ new.shrunk <=> (walk[w].shrunk \/ ~(walk[w].last \subseteq V))
      /\ new.page = walk[w].page /\ new.seen = walk[w].seen
  BY <1>1, MetRecord DEF WalkRecords
<1> HIDE DEF new
<1>4. walk' \in [Walks -> WalkRecords] /\ walk'[w] = new /\ pc'[w] = "rows"
  BY <1>2, <1>3
<1>5. ASSUME NEW v \in Walks, v # w
      PROVE  Leafed(v)'
  <2>1. walk'[v] = walk[v] /\ pc'[v] = pc[v]
    BY <1>2, <1>5 DEF Requests
  <2> QED
    BY <2>1, WalkKept DEF WalksInv
<1>6. Leafed(w)'
  <2>1. PagesRead(w)' = PagesRead(w) /\ PagesRead(w) \in Int
    BY <1>2, <1>3, <1>4 DEF PagesRead, WalkRecords
  <2>2. ASSUME ~new.shrunk, NEW b \in new.steady \ Tied
        PROVE  b \in new.seen \/ Cardinality(Before(w, b))' >= PagesRead(w)
    <3>1. walk[w].last \in SUBSET V /\ b \in walk[w].steady \ Tied /\ b \in Benefits
      BY <1>1, <1>3, <2>2
    <3>2. b \in walk[w].seen \/ Cardinality(Before(w, b)) >= PagesRead(w)
      BY <1>2, <1>3, <2>2, <3>1 DEF WalksInv, Leafed
    <3>3. /\ Cardinality(Before(w, b)) \in Nat /\ Cardinality(Before(w, b))' \in Nat
          /\ Cardinality(Before(w, b)) <= Cardinality(Before(w, b))'
      BY <1>1, <1>3, <1>4, <3>1, BeforeGrows DEF Before
    <3> QED
      BY <1>3, <2>1, <3>2, <3>3
  <2> QED
    BY <1>4, <2>1, <2>2 DEF Leafed
<1> QED
  BY <1>4, <1>5, <1>6 DEF WalksInv

\* The rows of a page are read.  A benefit not seen so far comes after the
\* pages read before, so it is on this page or comes after it too.
LEMMA PageRead ==
  ASSUME IInv, WalksInv, NEW w \in Walks, pc[w] = "rows",
         NEW V \in SUBSET Benefits, NEW s \in Sorted(V),
         ~walk[w].shrunk, walk[w].last \subseteq V,
         NEW b \in (walk[w].steady \cap V) \ Tied, b \notin walk[w].seen
  PROVE  \/ b \in PageOf(w, s)
         \/ Cardinality({x \in V : Title[x] < Title[b]}) >= walk[w].page * PageSize
<1> DEFINE n == Cardinality(V)
           rank == Cardinality({x \in V : Title[x] < Title[b]})
           start == (walk[w].page - 1) * PageSize
           stop == walk[w].page * PageSize
<1>1. walk[w] \in WalkRecords /\ walk[w].page \in Nat /\ PageSize \in Nat
  BY CatalogueBounds DEF WalksInv, WalkRecords
<1>2. start \in Int /\ stop \in Int
  BY <1>1
<1>3. rank >= start /\ rank \in Nat
  <2>1. Cardinality(Before(w, b)) >= start
    BY DEF WalksInv, Leafed, PagesRead
  <2>2. Cardinality(Before(w, b)) <= rank /\ Cardinality(Before(w, b)) \in Nat /\ rank \in Nat
    BY BeforeGrows DEF Before
  <2> QED
    BY <1>2, <2>1, <2>2
<1>4. IsFiniteSet(V) /\ s \in SetToSeqs(V)
  BY CatalogueRows, FS_Subset DEF Sorted
<1>5. PICK i \in DOMAIN s : s[i] = b
  BY <1>4, ListedOnce DEF ToSet
<1>6. rank = i - 1 /\ i \in 1..n /\ n \in Nat
  BY <1>5, RankInSorted
<1>7. CASE rank < stop
  <2>1. i \in (start + 1)..stop
    BY <1>2, <1>3, <1>6, <1>7
  <2> QED
    BY <1>5, <2>1 DEF PageOf
<1> QED
  BY <1>2, <1>3, <1>7

\* A walk that ends has read as many rows as were counted: if no row came
\* after the count, none is left.
LEMMA LastPage ==
  ASSUME NEW V \in SUBSET Benefits, NEW counted \in SUBSET Benefits, V \subseteq counted,
         NEW page \in Nat, page >= TotalPages(Cardinality(counted)),
         NEW b \in V
  PROVE  Cardinality({x \in V : Title[x] < Title[b]}) < page * PageSize
<1> DEFINE L == {x \in V : Title[x] < Title[b]}
<1>1. IsFiniteSet(counted) /\ IsFiniteSet(V) /\ IsFiniteSet(V \ {b})
  BY CatalogueRows, FS_Subset
<1>2. /\ Cardinality(counted) \in Nat /\ Cardinality(V) \in Nat /\ PageSize \in Nat
      /\ Cardinality(V) <= Cardinality(counted)
  BY <1>1, FS_CardinalityType, FS_Subset, CatalogueBounds
<1>3. L \in SUBSET (V \ {b})
  BY CatalogueRows
<1> HIDE DEF L
<1>4. Cardinality(V \ {b}) = Cardinality(V) - 1
  BY <1>1, FS_RemoveElement
<1>5. Cardinality(L) \in Nat /\ Cardinality(L) <= Cardinality(V \ {b})
  BY <1>1, <1>3, FS_CardinalityType, FS_Subset
<1>6. page * PageSize >= Cardinality(counted) /\ page * PageSize \in Nat
  BY <1>2, PagesCover
<1>7. Cardinality(L) < page * PageSize
  BY <1>2, <1>4, <1>5, <1>6
<1> QED
  BY <1>7 DEF L

\* The rows of a page, of the last one perhaps.
LEMMA ReadRowsInv ==
  ASSUME IInv, WalksInv, NEW w \in Walks, ReadRows(w)
  PROVE  WalksInv'
<1> DEFINE V == VisibleTo(walk[w].employee, walk[w].moment)
           hasNext == walk[w].page < TotalPages(Cardinality(walk[w].counted))
<1>1. V \in SUBSET Benefits
  BY DEF VisibleTo
<1> DEFINE late == ~(V \subseteq walk[w].counted)
<1>2. PICK s \in Sorted(V) :
        walk' = [walk EXCEPT ![w] =
                   [Met(w, V) EXCEPT !.late = ~(V \subseteq walk[w].counted),
                                     !.seen = @ \cup PageOf(w, s)]]
  BY DEF ReadRows
<1>3. /\ walk \in [Walks -> WalkRecords] /\ walk[w] \in WalkRecords
      /\ pc \in [Requests -> PcSteps] /\ w \in Requests /\ PageSize \in Nat
      /\ pc[w] = "rows" /\ pc' = [pc EXCEPT ![w] = IF hasNext THEN "between" ELSE "done"]
  BY CatalogueBounds DEF WalksInv, IInv, Typed, ReadRows, End, Requests
<1>4. PageOf(w, s) \in SUBSET Benefits
  <2>1. IsFiniteSet(V) /\ s \in SetToSeqs(V)
    BY <1>1, CatalogueRows, FS_Subset DEF Sorted
  <2> HIDE DEF V
  <2> QED
    BY <1>1, <2>1, ListedOnce DEF PageOf, ToSet
<1> HIDE DEF V
<1>5. late \in BOOLEAN /\ (late <=> ~(V \subseteq walk[w].counted))
  OBVIOUS
<1> DEFINE met == Met(w, V)
<1>6. /\ met \in WalkRecords /\ met.last = V /\ met.steady = walk[w].steady \cap V
      /\ met.shrunk <=> (walk[w].shrunk \/ ~(walk[w].last \subseteq V))
      /\ met.page = walk[w].page /\ met.seen = walk[w].seen
      /\ walk' = [walk EXCEPT ![w] = [met EXCEPT !.late = late, !.seen = @ \cup PageOf(w, s)]]
  BY <1>1, <1>2, MetRecord
<1> HIDE DEF late, met
<1> DEFINE new == [met EXCEPT !.late = late, !.seen = @ \cup PageOf(w, s)]
<1>7. /\ new \in WalkRecords /\ new.last = V
      /\ new.steady = walk[w].steady \cap V
      /\ new.shrunk <=> (walk[w].shrunk \/ ~(walk[w].last \subseteq V))
      /\ new.page = walk[w].page /\ new.seen = walk[w].seen \cup PageOf(w, s)
      /\ new.late <=> ~(V \subseteq walk[w].counted)
  BY <1>3, <1>4, <1>5, <1>6 DEF WalkRecords
<1> HIDE DEF new
<1>8. /\ walk' \in [Walks -> WalkRecords] /\ walk'[w] = new
      /\ pc'[w] = IF hasNext THEN "between" ELSE "done"
  BY <1>3, <1>6, <1>7 DEF new
<1>9. ASSUME NEW v \in Walks, v # w
      PROVE  Leafed(v)'
  <2>1. walk'[v] = walk[v] /\ pc'[v] = pc[v]
    BY <1>3, <1>6, <1>9 DEF Requests
  <2> QED
    BY <2>1, WalkKept DEF WalksInv
<1>10. Leafed(w)'
  <2>1. PagesRead(w)' = walk[w].page * PageSize /\ pc'[w] \in {"between", "done"}
    BY <1>3, <1>7, <1>8 DEF PagesRead
  <2>2. ASSUME ~new.shrunk, NEW b \in new.steady \ Tied, b \notin new.seen
        PROVE  Cardinality(Before(w, b))' >= walk[w].page * PageSize
    <3>1. /\ ~walk[w].shrunk /\ walk[w].last \subseteq V /\ b \in (walk[w].steady \cap V) \ Tied
          /\ b \notin walk[w].seen /\ b \notin PageOf(w, s)
      BY <1>7, <2>2
    <3>2. Cardinality({x \in V : Title[x] < Title[b]}) >= walk[w].page * PageSize
      BY <1>1, <1>3, <3>1, PageRead
    <3> QED
      BY <1>7, <1>8, <3>2 DEF Before
  <2>3. ASSUME pc'[w] = "done", ~new.shrunk, ~new.late
        PROVE  new.steady \ Tied \subseteq new.seen
    <3>1. SUFFICES ASSUME NEW b \in new.steady \ Tied, b \notin new.seen
                   PROVE  FALSE
      OBVIOUS
    <3>2. Cardinality(Before(w, b))' >= walk[w].page * PageSize
      BY <2>2, <2>3, <3>1
    <3>3. ~hasNext
      BY <1>8, <2>3
    <3>4. b \in V /\ V \subseteq walk[w].counted /\ walk[w].counted \in SUBSET Benefits
          /\ walk[w].page \in Nat
      BY <1>3, <1>7, <2>3, <3>1 DEF WalkRecords
    <3>5. Cardinality(walk[w].counted) \in Nat
      BY <3>4, CatalogueRows, FS_Subset, FS_CardinalityType
    <3>6. TotalPages(Cardinality(walk[w].counted)) \in Int
      BY <1>3, <3>5, CatalogueBounds DEF TotalPages
    <3>7. Cardinality({x \in V : Title[x] < Title[b]}) < walk[w].page * PageSize
      <4>1. walk[w].page >= TotalPages(Cardinality(walk[w].counted))
        BY <3>3, <3>4, <3>6
      <4> QED
        BY <1>1, <3>4, <4>1, LastPage
    <3>8. Cardinality({x \in V : Title[x] < Title[b]}) \in Nat
      BY <1>1, <3>4, BeforeGrows
    <3>9. Before(w, b)' = {x \in V : Title[x] < Title[b]}
      BY <1>7, <1>8 DEF Before
    <3> QED
      BY <1>3, <3>2, <3>4, <3>7, <3>8, <3>9
  <2>4. \/ new.steady \ Tied \subseteq new.seen
        \/ new.shrunk
        \/ new.late
        \/ pc'[w] # "done"
    BY <2>3
  <2> QED
    BY <1>8, <2>1, <2>2, <2>4 DEF Leafed
<1> QED
  BY <1>8, <1>9, <1>10 DEF WalksInv

\* Every step preserves it.
LEMMA WalksNext == IInv /\ WalksInv /\ [Next]_vars => WalksInv'
<1> SUFFICES ASSUME IInv, WalksInv, [Next]_vars
             PROVE  WalksInv'
  OBVIOUS
<1>1. CASE \E w \in Walks : AskPage(w) \/ CountRows(w) \/ ReadRows(w)
  BY <1>1, AskPageInv, CountRowsInv, ReadRowsInv
<1>2. CASE walk' = walk /\ \A w \in Walks : pc'[w] \in {pc[w], "failed"}
  BY <1>2, WalkKept DEF WalksInv
<1> QED
  BY <1>1, <1>2, WalkSteps

\* Whoever leafs through all pages has seen every benefit that was there all
\* the time, unless one was hidden on the way or appeared at the last page.
THEOREM WalkMisses == Spec => []NoMiss
<1>1. WalksInv => NoMiss
  BY DEF WalksInv, Leafed, NoMiss
<1>2. Spec => []WalksInv
  BY WalksInit, WalksNext, Invariance, PTL DEF Spec
<1> QED
  BY <1>1, <1>2, PTL
-----------------------------------------------------------------------------
(* Assistants.                                                             *)

\* A sequence of the elements of S recommends some of T, if S is part of T
\* and empty only if T is.
LEMMA ListAdvises ==
  ASSUME NEW T \in SUBSET Benefits, NEW S \in SUBSET T, S = {} => T = {},
         NEW s \in SetToSeqs(S)
  PROVE  s \in Seq(Benefits) /\ Advises(s, T)
<1>1. IsFiniteSet(S)
  BY CatalogueRows, FS_Subset
<1>2. /\ s \in Seq(S) /\ Len(s) = Cardinality(S) /\ Cardinality(S) \in Nat
      /\ DOMAIN s = 1..Cardinality(S) /\ ToSet(s) = S
  BY <1>1, ListedOnce
<1>3. s \in Seq(Benefits)
  BY <1>2
<1>4. s = <<>> => S = {}
  BY <1>1, <1>2, FS_EmptySet
<1> QED
  BY <1>2, <1>3, <1>4 DEF Advises

\* What the model names and was shown, unless that is nothing.
LEMMA ChosenAdvises ==
  ASSUME NEW h \in Assistants, help[h].eligible \in SUBSET Benefits,
         NEW ids \in BoundedSeq(Benefits \cup {None}, MaxNamed), NEW s \in Chosen(h, ids),
         s # <<>>
  PROVE  s \in Seq(Benefits) /\ Advises(s, help[h].eligible)
<1> DEFINE S == ToSet(ids) \cap help[h].eligible
<1>1. s \in SetToSeqs(S)
  BY DEF Chosen
<1>2. S \in SUBSET help[h].eligible
  OBVIOUS
<1> HIDE DEF S
<1>3. IsFiniteSet(S)
  BY <1>2, CatalogueRows, FS_Subset
<1>4. s \in Seq(S) /\ Len(s) = Cardinality(S) /\ Cardinality(S) \in Nat
  BY <1>1, <1>3, ListedOnce
<1>5. S # {}
  <2>1. Len(s) # 0
    BY <1>4
  <2> QED
    BY <1>3, <1>4, <2>1, FS_EmptySet
<1> QED
  BY <1>1, <1>2, <1>5, ListAdvises

\* The best discounts: some, if there is any.
LEMMA BestAdvises ==
  ASSUME NEW h \in Assistants, help[h].eligible \in SUBSET Benefits, NEW s \in Best(h)
  PROVE  s \in Seq(Benefits) /\ Advises(s, help[h].eligible)
<1> DEFINE E == help[h].eligible
           fresh == {b \in E : Category[b] \notin help[h].used}
           from == IF fresh = {} THEN E ELSE fresh
<1>1. from \in SUBSET E /\ (from = {} => E = {})
  OBVIOUS
<1>2. PICK S \in AnyOf(from, TopCount) : s \in SetToSeqs(S)
  BY DEF Best
<1> HIDE DEF from
<1>3. IsFiniteSet(from)
  BY <1>1, CatalogueRows, FS_Subset
<1>4. S \in SUBSET from /\ Cardinality(S) = LesserOf(TopCount, Cardinality(from))
  BY <1>2 DEF AnyOf, kSubset
<1>5. S = {} => from = {}
  <2>1. Cardinality(from) \in Nat /\ TopCount \in Nat \ {0}
    BY <1>3, FS_CardinalityType, CatalogueBounds
  <2>2. Cardinality(S) = 0 => Cardinality(from) = 0
    BY <1>4, <2>1 DEF LesserOf
  <2> QED
    BY <1>3, <2>2, FS_EmptySet
<1> QED
  BY <1>1, <1>2, <1>4, <1>5, ListAdvises

\* An assistant that has not been asked.
LEMMA HelpInit == Init => HelpInv
<1> SUFFICES ASSUME Init
             PROVE  HelpInv
  OBVIOUS
<1>1. NoHelp \in HelpRecords
  BY CatalogueBounds DEF NoHelp, HelpRecords, Times, Kinds
<1>2. ASSUME NEW h \in Assistants
      PROVE  Advised(h)
  <2>1. pc[h] = "idle" /\ help[h] = NoHelp
    BY DEF Init, Requests
  <2> QED
    BY <2>1 DEF Advised, NoHelp
<1> QED
  BY <1>1, <1>2 DEF Init, HelpInv

\* A step of an assistant preserves what it says of that one and the others.
LEMMA HelpMoves ==
  ASSUME IInv, HelpInv, NEW h \in Assistants, NEW new \in HelpRecords, NEW to,
         help' = [help EXCEPT ![h] = new], pc' = [pc EXCEPT ![h] = to],
         to \in {"idle", "wait", "offers"} => new.answer = <<>>,
         to \in {"audit", "done"} /\ new.kind = "concierge" => Advises(new.answer, new.eligible)
  PROVE  HelpInv'
<1>1. /\ help \in [Assistants -> HelpRecords] /\ pc \in [Requests -> PcSteps]
      /\ Assistants \subseteq Requests
  BY DEF HelpInv, IInv, Typed, Requests
<1>2. /\ help' \in [Assistants -> HelpRecords] /\ help'[h] = new /\ pc'[h] = to
      /\ \A g \in Assistants \ {h} : help'[g] = help[g] /\ pc'[g] = pc[g]
  BY <1>1
<1>3. \A g \in Assistants : Advised(g)'
  BY <1>2 DEF HelpInv, Advised
<1> QED
  BY <1>2, <1>3 DEF HelpInv

\* The steps before the model is asked, and the record of the audit.
LEMMA AskingInv ==
  ASSUME IInv, HelpInv, NEW h \in Assistants,
         AskHelp(h) \/ AssistantReads(h) \/ ReadOffers(h) \/ Audit(h)
  PROVE  HelpInv'
<1>1. /\ help \in [Assistants -> HelpRecords] /\ help[h] \in HelpRecords /\ Advised(h)
      /\ now \in Times /\ pc \in [Requests -> PcSteps] /\ h \in Requests
  BY DEF HelpInv, IInv, Typed, Requests
<1>2. CASE AskHelp(h)
  <2>1. PICK e \in Employees, k \in Kinds :
          /\ help' = [help EXCEPT ![h].employee = e, ![h].kind = k, ![h].moment = now]
          /\ pc' = [pc EXCEPT ![h] = IF k = "adminDraft" THEN "model" ELSE "wait"]
    BY <1>2 DEF AskHelp
  <2> DEFINE new == [help[h] EXCEPT !.employee = e, !.kind = k, !.moment = now]
             to == IF k = "adminDraft" THEN "model" ELSE "wait"
  <2>2. new \in HelpRecords /\ new.answer = <<>> /\ help' = [help EXCEPT ![h] = new]
    BY <1>1, <1>2, <2>1 DEF HelpRecords, AskHelp, Advised
  <2>3. to \in {"model", "wait"} /\ pc' = [pc EXCEPT ![h] = to]
    BY <2>1
  <2> HIDE DEF new, to
  <2> QED
    BY <2>2, <2>3, HelpMoves
<1>3. CASE AssistantReads(h)
  <2>1. CASE help[h].kind = "concierge"
    <3>1. PICK S \in AnyOf(VisibleTo(help[h].employee, help[h].moment), CatalogLimit) :
            help' = [help EXCEPT ![h].rows = S] /\ pc' = [pc EXCEPT ![h] = "offers"]
      BY <1>3, <2>1 DEF AssistantReads
    <3>2. S \in SUBSET Benefits
      BY <3>1 DEF AnyOf, kSubset, VisibleTo
    <3> DEFINE new == [help[h] EXCEPT !.rows = S]
    <3>3. new \in HelpRecords /\ new.answer = <<>> /\ help' = [help EXCEPT ![h] = new]
      BY <1>1, <1>3, <3>1, <3>2 DEF HelpRecords, AssistantReads, Advised
    <3> HIDE DEF new
    <3> QED
      BY <3>1, <3>3, HelpMoves
  <2>2. CASE help[h].kind # "concierge"
    <3>1. help' = [help EXCEPT ![h] = help[h]] /\ pc' = [pc EXCEPT ![h] = "model"]
      BY <1>1, <1>3, <2>2 DEF AssistantReads
    <3> QED
      BY <1>1, <3>1, HelpMoves
  <2> QED
    BY <2>1, <2>2
<1>4. CASE ReadOffers(h)
  <2> DEFINE E == {b \in help[h].rows : Offered(b, help[h].employee[1])}
             to == IF E = {} THEN "audit" ELSE "model"
  <2>1. PICK U \in SUBSET {Category[b] : b \in Benefits} :
          help' = [help EXCEPT ![h].eligible = E, ![h].used = U]
    BY <1>4 DEF ReadOffers
  <2>2. E \in SUBSET Benefits
    BY <1>1 DEF HelpRecords
  <2>3. to \in {"audit", "model"} /\ (to = "audit" => E = {}) /\ pc' = [pc EXCEPT ![h] = to]
    BY <1>4 DEF ReadOffers
  <2> HIDE DEF E, to
  <2> DEFINE new == [help[h] EXCEPT !.eligible = E, !.used = U]
  <2>4. /\ new \in HelpRecords /\ new.answer = <<>> /\ new.eligible = E
        /\ help' = [help EXCEPT ![h] = new]
    BY <1>1, <1>4, <2>1, <2>2 DEF HelpRecords, ReadOffers, Advised
  <2>5. Advises(<<>>, {})
    BY FS_EmptySet DEF Advises, ToSet
  <2> HIDE DEF new
  <2> QED
    BY <2>3, <2>4, <2>5, HelpMoves
<1>5. CASE Audit(h)
  <2>1. help' = [help EXCEPT ![h] = help[h]] /\ pc' = [pc EXCEPT ![h] = "done"]
    BY <1>1, <1>5 DEF Audit, End
  <2> QED
    BY <1>1, <1>5, <2>1, HelpMoves DEF Audit, Advised
<1> QED
  BY <1>2, <1>3, <1>4, <1>5

\* The answer, or the rows as they were read when the model gives none.
LEMMA AnswerInv ==
  ASSUME IInv, HelpInv, NEW h \in Assistants, ModelAnswers(h) \/ ModelSilent(h)
  PROVE  HelpInv'
<1>1. /\ help \in [Assistants -> HelpRecords] /\ help[h] \in HelpRecords
      /\ help[h].eligible \in SUBSET Benefits
  BY DEF HelpInv, HelpRecords
<1>2. ASSUME NEW s \in Seq(Benefits), NEW ai \in BOOLEAN, Answer(h, s, ai),
             help[h].kind = "concierge" => Advises(s, help[h].eligible)
      PROVE  HelpInv'
  <2> DEFINE new == [help[h] EXCEPT !.answer = s, !.ai = ai]
  <2>1. /\ new \in HelpRecords /\ new.answer = s /\ new.eligible = help[h].eligible
        /\ new.kind = help[h].kind /\ help' = [help EXCEPT ![h] = new]
        /\ pc' = [pc EXCEPT ![h] = "audit"]
    BY <1>1, <1>2 DEF HelpRecords, Answer
  <2> HIDE DEF new
  <2> QED
    BY <1>2, <2>1, HelpMoves
<1>3. CASE ModelAnswers(h)
  <2>1. CASE help[h].kind # "concierge"
    <3>1. Answer(h, <<>>, TRUE)
      BY <1>3, <2>1, Zenon DEF ModelAnswers
    <3>2. <<>> \in Seq(Benefits)
      OBVIOUS
    <3> QED
      BY <1>2, <2>1, <3>1, <3>2
  <2>2. CASE help[h].kind = "concierge"
    <3>1. PICK ids \in BoundedSeq(Benefits \cup {None}, MaxNamed) :
            \E s \in Chosen(h, ids) :
              IF s # <<>> THEN Answer(h, s, TRUE)
              ELSE \E t \in Best(h) : Answer(h, t, FALSE)
      BY <1>3, <2>2 DEF ModelAnswers
    <3>2. PICK s \in Chosen(h, ids) :
            IF s # <<>> THEN Answer(h, s, TRUE)
            ELSE \E t \in Best(h) : Answer(h, t, FALSE)
      BY <3>1
    <3>3. CASE s # <<>>
      BY <1>1, <1>2, <3>2, <3>3, ChosenAdvises
    <3>4. CASE s = <<>>
      <4>1. PICK t \in Best(h) : Answer(h, t, FALSE)
        BY <3>2, <3>4
      <4> QED
        BY <1>1, <1>2, <4>1, BestAdvises
    <3> QED
      BY <3>3, <3>4
  <2> QED
    BY <2>1, <2>2
<1>4. CASE ModelSilent(h)
  <2>1. PICK s \in SetToSeqs(help[h].eligible) : Answer(h, s, FALSE)
    BY <1>4 DEF ModelSilent
  <2>2. s \in Seq(Benefits) /\ Advises(s, help[h].eligible)
    BY <1>1, ListAdvises
  <2> QED
    BY <1>2, <2>1, <2>2
<1> QED
  BY <1>3, <1>4

\* Every step preserves it.
LEMMA HelpNext == IInv /\ HelpInv /\ [Next]_vars => HelpInv'
<1> SUFFICES ASSUME IInv, HelpInv, [Next]_vars
             PROVE  HelpInv'
  OBVIOUS
<1>1. ASSUME NEW h \in Assistants,
             \/ AskHelp(h) \/ AssistantReads(h) \/ ReadOffers(h)
             \/ ModelAnswers(h) \/ ModelSilent(h) \/ Audit(h)
      PROVE  HelpInv'
  BY <1>1, AskingInv, AnswerInv
<1>2. CASE help' = help /\ \A h \in Assistants : pc'[h] \in {pc[h], "failed"}
  BY <1>2 DEF HelpInv, Advised
<1> QED
  BY <1>1, <1>2, HelpSteps

\* The concierge recommends what the employee was shown to have, each benefit
\* once, and something if there is anything, whatever the model says.
THEOREM AdviceHolds == Spec => []RecommendedEligible
<1>1. HelpInv => RecommendedEligible
  BY DEF HelpInv, Advised, Advises, RecommendedEligible
<1>2. Spec => []HelpInv
  BY HelpInit, HelpNext, Invariance, PTL DEF Spec
<1> QED
  BY <1>1, <1>2, PTL
-----------------------------------------------------------------------------
(* The pool of connections.                                                *)

\* No connection is taken before a request asks for one.
LEMMA PoolInit == Init => PoolInv
BY FS_EmptySet, CatalogueBounds DEF Init, PoolInv

\* A step that takes no connection, and lets those it leaves work on.
LEMMA PoolShrinks ==
  ASSUME PoolInv, held' \in SUBSET held,
         \A x \in held' : pc'[x] \notin {"idle", "wait", "between", "done", "failed"}
  PROVE  PoolInv'
<1>1. IsFiniteSet(held') /\ Cardinality(held') <= Cardinality(held)
  BY FS_Subset DEF PoolInv
<1>2. Cardinality(held) \in Nat /\ Cardinality(held') \in Nat /\ PoolSize \in Nat
  BY <1>1, FS_CardinalityType, CatalogueBounds DEF PoolInv
<1> QED
  BY <1>1, <1>2 DEF PoolInv

\* A request takes the connection it found free and goes to work.
LEMMA PoolTaken ==
  ASSUME IInv, PoolInv, NEW x \in Requests, Take(x), NEW to,
         pc' = [pc EXCEPT ![x] = to],
         to \notin {"idle", "wait", "between", "done", "failed"}
  PROVE  PoolInv'
<1>1. held' = held \cup {x} /\ x \notin held /\ Cardinality(held) < PoolSize
  BY DEF Take, HasFree
<1>2. IsFiniteSet(held) /\ Cardinality(held) \in Nat /\ PoolSize \in Nat
  BY FS_CardinalityType, CatalogueBounds DEF PoolInv
<1>3. IsFiniteSet(held') /\ Cardinality(held') = Cardinality(held) + 1
  BY <1>1, <1>2, FS_AddElement
<1>4. \A y \in held' : y \in Requests /\ pc'[y] \notin {"idle", "wait", "between", "done", "failed"}
  BY <1>1 DEF PoolInv, IInv, Typed
<1> QED
  BY <1>1, <1>2, <1>3, <1>4 DEF PoolInv

\* A request that ends, or is at rest, or goes on working.
LEMMA PoolKept ==
  ASSUME IInv, PoolInv, NEW x \in Requests, NEW to, pc' = [pc EXCEPT ![x] = to],
         \/ held' = held \ {x}
         \/ held' = held /\ (x \notin held \/ to \notin {"idle", "wait", "between", "done", "failed"})
  PROVE  PoolInv'
<1>1. \A y \in held' : pc'[y] \notin {"idle", "wait", "between", "done", "failed"}
  BY DEF PoolInv, IInv, Typed
<1> QED
  BY <1>1, PoolShrinks

\* Every step preserves it.
LEMMA PoolNext == IInv /\ PoolInv /\ [Next]_vars => PoolInv'
<1> SUFFICES ASSUME IInv, PoolInv, [Next]_vars
             PROVE  PoolInv'
  OBVIOUS
<1>1. /\ Edits \subseteq Requests /\ Walks \subseteq Requests /\ Assistants \subseteq Requests
      /\ \A x \in held : pc[x] \notin {"idle", "wait", "between", "done", "failed"}
  BY DEF PoolInv, Requests
<1>2. ASSUME NEW x \in Requests, GiveUp(x)
      PROVE  PoolInv'
  BY <1>2, PoolKept DEF GiveUp, End
<1>3. ASSUME NEW r \in Edits, StartEdit(r)
      PROVE  PoolInv'
  BY <1>1, <1>3, PoolKept DEF StartEdit
<1>4. ASSUME NEW r \in Edits, EditReads(r)
      PROVE  PoolInv'
  BY <1>1, <1>4, PoolTaken DEF EditReads
<1>5. ASSUME NEW r \in Edits, EditRefused(r) \/ EditCommits(r)
      PROVE  PoolInv'
  BY <1>1, <1>5, PoolKept DEF EditRefused, EditCommits, End
<1>6. ASSUME NEW w \in Walks, AskPage(w)
      PROVE  PoolInv'
  BY <1>1, <1>6, PoolKept DEF AskPage
<1>7. ASSUME NEW w \in Walks, CountRows(w)
      PROVE  PoolInv'
  BY <1>1, <1>7, PoolTaken DEF CountRows
<1>8. ASSUME NEW w \in Walks, ReadRows(w)
      PROVE  PoolInv'
  BY <1>1, <1>8, PoolKept DEF ReadRows, End
<1>9. ASSUME NEW h \in Assistants, AskHelp(h)
      PROVE  PoolInv'
  BY <1>1, <1>9, PoolKept DEF AskHelp
<1>10. ASSUME NEW h \in Assistants, AssistantReads(h)
       PROVE  PoolInv'
  <2>1. Take(h) /\ (pc' = [pc EXCEPT ![h] = "offers"] \/ pc' = [pc EXCEPT ![h] = "model"])
    BY <1>10 DEF AssistantReads
  <2> QED
    BY <1>1, <2>1, PoolTaken
<1>11. ASSUME NEW h \in Assistants, ReadOffers(h)
       PROVE  PoolInv'
  <2>1. held' = held /\ (pc' = [pc EXCEPT ![h] = "audit"] \/ pc' = [pc EXCEPT ![h] = "model"])
    BY <1>11 DEF ReadOffers
  <2> QED
    BY <1>1, <2>1, PoolKept
<1>12. ASSUME NEW h \in Assistants, ModelAnswers(h) \/ ModelSilent(h)
       PROVE  PoolInv'
  <2>1. held' = held /\ pc' = [pc EXCEPT ![h] = "audit"]
    BY <1>12 DEF ModelAnswers, ModelSilent, Answer
  <2> QED
    BY <1>1, <2>1, PoolKept
<1>13. ASSUME NEW h \in Assistants, ModelGarbles(h) \/ Audit(h)
       PROVE  PoolInv'
  BY <1>1, <1>13, PoolKept DEF ModelGarbles, Audit, End
<1>14. CASE (\E m \in Merchants : SetMerchant(m)) \/ Tick \/ UNCHANGED vars
  BY <1>14 DEF SetMerchant, Tick, vars, PoolInv
<1> QED
  BY <1>2, <1>3, <1>4, <1>5, <1>6, <1>7, <1>8, <1>9, <1>10, <1>11, <1>12, <1>13, <1>14,
     Steps, Zenon DEF OtherSteps, OtherMove

\* The pool never gives out more connections than it has, and whoever has one
\* is at work: the requests that wait or have been answered hold none.
THEOREM PoolBounded == Spec => []PoolInv
BY PoolInit, PoolNext, Invariance, PTL DEF Spec

OpenInv == open \subseteq Merchants

\* Every open merchant is a merchant, at first and after every step.
LEMMA OpenTyped == (Init => OpenInv) /\ (OpenInv /\ [Next]_vars => OpenInv')
<1>1. Init => OpenInv
  BY DEF Init, OpenInv
<1>2. ASSUME OpenInv, [Next]_vars
      PROVE  OpenInv'
  <2>1. ASSUME NEW m \in Merchants, SetMerchant(m)
        PROVE  OpenInv'
    <3>1. open' = open \cup {m} \/ open' = open \ {m}
      BY <2>1, Zenon DEF SetMerchant
    <3> QED
      BY <1>2, <3>1 DEF OpenInv
  <2>2. CASE open' = open
    BY <1>2, <2>2 DEF OpenInv
  <2>3. ASSUME NEW x \in Requests, Proceeds(x)
        PROVE  open' = open
    BY <2>3 DEF Proceeds, GiveUp, EditReads, EditRefused, EditCommits, CountRows, ReadRows,
                AssistantReads, ReadOffers, ModelSilent, Answer, Audit, storeVars
  <2>4. ASSUME NEW h \in Assistants, AskHelp(h) \/ ModelAnswers(h) \/ ModelGarbles(h)
        PROVE  open' = open
    BY <2>4 DEF AskHelp, ModelAnswers, ModelGarbles, Answer, storeVars
  <2>5. ASSUME (\E r \in Edits : StartEdit(r)) \/ (\E w \in Walks : AskPage(w)) \/ Tick
        PROVE  open' = open
    BY <2>5 DEF StartEdit, AskPage, Tick, storeVars
  <2>6. ASSUME UNCHANGED vars
        PROVE  open' = open
    BY <2>6 DEF vars, storeVars
  <2> QED
    BY <1>2, <2>1, <2>2, <2>3, <2>4, <2>5, <2>6, Zenon DEF Next
<1> QED
  BY <1>1, <1>2

\* The model's variables have their types.
THEOREM TypeCorrect == Spec => []TypeOK
<1>1. IInv /\ WalksInv /\ HelpInv /\ PoolInv /\ OpenInv => TypeOK
  <2> SUFFICES ASSUME IInv, WalksInv, HelpInv, PoolInv, OpenInv
               PROVE  TypeOK
    OBVIOUS
  <2>1. \A o \in offers : /\ o.benefit \in Benefits /\ o.plan \in Plans
                          /\ o.available \in BOOLEAN /\ o.by \in Edits \cup {None}
    BY DEF IInv, Typed, OfferRows
  <2>2. \A r \in Edits : edit[r].payload \in Payloads \cup {None}
    BY DEF IInv, Typed, EditRecords
  <2>3. \A w \in Walks : walk[w].moment \in Times /\ walk[w].seen \subseteq Benefits
    BY DEF WalksInv, WalkRecords
  <2>4. \A h \in Assistants : help[h].rows \subseteq Benefits
    BY DEF HelpInv, HelpRecords
  <2> QED
    BY <2>1, <2>2, <2>3, <2>4 DEF TypeOK, IInv, Typed, PoolInv, OpenInv, PcSteps
<1>2. Spec => [](WalksInv /\ HelpInv)
  BY WalksInit, WalksNext, HelpInit, HelpNext, Invariance, PTL DEF Spec
<1>3. Spec => []OpenInv
  BY OpenTyped, PTL DEF Spec
<1> QED
  BY <1>1, <1>2, <1>3, Invariance, PoolBounded, PTL
=============================================================================
