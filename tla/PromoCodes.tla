----------------------------- MODULE PromoCodes -----------------------------
(***************************************************************************)
(* Issuing promo codes under the limits of a benefit and redeeming them,   *)
(* as concurrent requests: POST /benefits/{id}/redeem (redeem_benefit and  *)
(* issue_promo_code), POST /merchant/promo-codes/{code}/redeem             *)
(* (confirm_redemption and redeem_promo_code), POST /bot/promo/{code}/     *)
(* redeem, and the merchant's edits of a benefit.                          *)
(*                                                                         *)
(* The database is the one of CompanySeats: a statement reads committed    *)
(* rows; a row lock is waited for and then read in its latest version.     *)
(* SQLAlchemy keeps one object per row in a session: a later SELECT of the *)
(* same row, FOR UPDATE or not, does not overwrite it unless the query     *)
(* asks for populate_existing.                                             *)
(***************************************************************************)
EXTENDS Integers, FiniteSets

CONSTANTS
  Plans, Benefits, Employees, Staff, Vouchers, Codes, MaxLimit, None,
  Requests,      \* HTTP requests in flight at the same time
  Kinds,         \* what the environment does
  MaxAttempts,   \* draws of a code before issue_promo_code gives up
  Tills          \* bound on the redemptions of codes in flight

AllKinds == {"issue", "confirm", "bot", "edit", "staff", "window", "lapse"}

ASSUME PromoKindsAssumption == Kinds \subseteq AllKinds
ASSUME PromoBoundsAssumption ==
  MaxLimit \in Nat /\ MaxAttempts \in Nat \ {0} /\ Tills \in Nat
ASSUME PromoSetsAssumption == IsFiniteSet(Vouchers) /\ IsFiniteSet(Requests)
ASSUME PromoNoneAssumption ==
  /\ None \notin Benefits
  /\ None \notin Vouchers
  /\ None \notin Codes
  /\ None \notin Staff
  /\ None \notin Requests
  /\ None \notin Plans
  /\ None \notin Employees

VARIABLES
  benefit, voucher, accepted,   \* committed rows and answers, as in VoucherLedger
  employee,      \* users.plan and users.is_active
  token,         \* the plan in the access token an employee holds, None without one
  backed,        \* benefits whose merchant is ACTIVE
  valid,         \* benefits within valid_from and valid_until
  lapsed,        \* vouchers whose code is past expires_at
  pc,            \* the next statement of a request
  job,           \* its operation and arguments
  seen,          \* the promo code as the session has it in memory
  draw,          \* the code it is trying and how many it has tried
  benefitLock,   \* the transaction holding a benefit row, or None
  byBot          \* the vouchers whose code the bot has redeemed (a history)

Ledger == INSTANCE VoucherLedger

ASSUME PromoRowAssumption == None \notin Ledger!VoucherRows

dbVars == <<benefit, voucher, accepted, byBot>>
outsideVars == <<employee, token, backed, valid, lapsed>>
sessionVars == <<pc, job, seen, draw, benefitLock>>
vars == <<benefit, voucher, accepted, employee, token, backed, valid, lapsed,
          pc, job, seen, draw, benefitLock, byBot>>

Steps == {"idle", "lockBenefit", "draw", "insert", "commit", "readCode", "redeem"}

Job(k, e, p, b, timely, v, s) ==
  [kind |-> k, employee |-> e, plan |-> p, benefit |-> b, timely |-> timely,
   voucher |-> v, staff |-> s]
NoJob == Job("none", None, None, None, FALSE, None, None)
IssueJob(e, b) == Job("issue", e, token[e], b, b \in valid, None, None)
ConfirmJob(v, s) == Job("confirm", None, None, None, FALSE, v, s)
BotJob(v) == Job("bot", None, None, None, FALSE, v, None)

NoCode == [promo |-> None, redemption |-> None]
NoDraw == [code |-> None, tries |-> 0]

TypeOK ==
  /\ Ledger!DbTypeOK
  /\ employee \in [Employees -> [plan : Plans \cup {None}, active : BOOLEAN]]
  /\ token \in [Employees -> Plans \cup {None}]
  /\ backed \in SUBSET Benefits
  /\ valid \in SUBSET Benefits
  /\ lapsed \in SUBSET Vouchers
  /\ pc \in [Requests -> Steps]
  /\ job \in [Requests ->
       [kind : {"none", "issue", "confirm", "bot"}, employee : Employees \cup {None},
        plan : Plans \cup {None}, benefit : Benefits \cup {None},
        timely : BOOLEAN, voucher : Vouchers \cup {None}, staff : Staff \cup {None}]]
  /\ seen \in [Requests ->
       [promo : {"ISSUED", "REDEEMED", None},
        redemption : {"ISSUED", "REDEEMED", None}]]
  /\ draw \in [Requests -> [code : Codes \cup {None}, tries : 0..MaxAttempts]]
  /\ benefitLock \in [Benefits -> Requests \cup {None}]
  /\ byBot \in SUBSET Vouchers

\* Employees on a plan, each logged in.
Init ==
  /\ Ledger!Init
  /\ employee \in [Employees -> [plan : Plans, active : {TRUE}]]
  /\ token = [e \in Employees |-> employee[e].plan]
  /\ backed = Benefits
  /\ valid = Benefits
  /\ lapsed = {}
  /\ pc = [r \in Requests |-> "idle"]
  /\ job = [r \in Requests |-> NoJob]
  /\ seen = [r \in Requests |-> NoCode]
  /\ draw = [r \in Requests |-> NoDraw]
  /\ benefitLock = [b \in Benefits |-> None]
  /\ byBot = {}
-----------------------------------------------------------------------------
(* Mistakes the properties must notice: what a definition below, named at  *)
(* the right, would be after a plausible slip in the code.  No action uses *)
(* them.                                                                   *)

\* BenefitFree: no FOR UPDATE on benefits.
NoBenefitLock(r) == TRUE

\* Eligible: is_active and the plan are not asked for.
AnyBenefit(r) == job[r].timely /\ job[r].benefit \in backed

\* WithinLimits: the comparison with usage_limit is off by one.
OneTooMany(r) ==
  LET b == job[r].benefit IN
  /\ benefit[b].limit # None => Cardinality(Ledger!UsedOf(b)) <= benefit[b].limit
  /\ Ledger!RoomFor(b, job[r].employee)

\* Taken: promo_codes.code has no unique index.
NothingTaken(c) == FALSE

\* Redeemed: the linked redemption is not updated.
CodeOnly(r) ==
  LET v == job[r].voucher IN [voucher[v] EXCEPT !.promo = "REDEEMED", !.by = job[r].staff]

\* End: the session is not rolled back.
KeepRows(r) == benefitLock
-----------------------------------------------------------------------------
(* Sessions. *)

Goto(r, step) == pc' = [pc EXCEPT ![r] = step]

ReleasedRows(r) ==
  [b \in Benefits |-> IF benefitLock[b] = r THEN None ELSE benefitLock[b]]

End(r) ==
  /\ Goto(r, "idle")
  /\ job' = [job EXCEPT ![r] = NoJob]
  /\ seen' = [seen EXCEPT ![r] = NoCode]
  /\ draw' = [draw EXCEPT ![r] = NoDraw]
  /\ benefitLock' = ReleasedRows(r)
  /\ UNCHANGED outsideVars

\* Any exception: what was flushed, a REDEMPTION_REJECTED record and the
\* status EXPIRED included, is rolled back with the session.
Rollback(r) == End(r) /\ UNCHANGED dbVars

\* Each issuing request can be given a row.
EnoughRows ==
  Cardinality(Ledger!Issued) + Cardinality({r \in Requests : job[r].kind = "issue"})
    < Cardinality(Vouchers)

\* get_current_user and _require_employee_scope: the plan is the token's.
\* The clock is read here, before the benefit is waited for.
StartIssue(r) ==
  /\ pc[r] = "idle"
  /\ "issue" \in Kinds
  /\ EnoughRows
  /\ \E e \in Employees, b \in Benefits :
       /\ token[e] # None
       /\ job' = [job EXCEPT ![r] = IssueJob(e, b)]
  /\ Goto(r, "lockBenefit")
  /\ UNCHANGED dbVars
  /\ UNCHANGED outsideVars
  /\ UNCHANGED <<seen, draw, benefitLock>>

Redeeming == {r \in Requests : pc[r] \in {"readCode", "redeem"}}

\* A code is looked up as soon as it exists; of a foreign merchant it is
\* refused like by Disconnect.
StartRedeem(r) ==
  /\ pc[r] = "idle"
  /\ Cardinality(Redeeming) < Tills
  /\ \E v \in Ledger!Issued :
       \/ "confirm" \in Kinds /\ \E s \in Staff : job' = [job EXCEPT ![r] = ConfirmJob(v, s)]
       \/ "bot" \in Kinds /\ job' = [job EXCEPT ![r] = BotJob(v)]
  /\ Goto(r, "readCode")
  /\ UNCHANGED dbVars
  /\ UNCHANGED outsideVars
  /\ UNCHANGED <<seen, draw, benefitLock>>
-----------------------------------------------------------------------------
(* Issuing a code: redeem_benefit, issue_promo_code. *)

\* FOR UPDATE OF benefits.  The offers cannot change while the row is held:
\* inserting one needs a key share lock on it.
BenefitFree(r) == benefitLock[job[r].benefit] = None

\* The checks on the benefit, its merchant and the plan.  The benefits here are
\* for every company; Catalogue has those for one company alone.
Eligible(r) ==
  LET b == job[r].benefit IN
  /\ benefit[b].open
  /\ job[r].timely
  /\ b \in backed
  /\ job[r].plan \in benefit[b].offers

\* The two counts.  Only a holder of the row adds a redemption to it.
WithinLimits(r) ==
  Ledger!RoomIn(job[r].benefit) /\ Ledger!RoomFor(job[r].benefit, job[r].employee)

RefuseBenefit(r) ==
  /\ pc[r] = "lockBenefit"
  /\ BenefitFree(r)
  /\ ~Eligible(r)
  /\ Rollback(r)

RefuseLimit(r) ==
  /\ pc[r] = "lockBenefit"
  /\ BenefitFree(r)
  /\ Eligible(r)
  /\ ~WithinLimits(r)
  /\ Rollback(r)

\* The redemption is inserted in the same transaction.
LockBenefit(r) ==
  /\ pc[r] = "lockBenefit"
  /\ BenefitFree(r)
  /\ Eligible(r)
  /\ WithinLimits(r)
  /\ benefitLock' = [benefitLock EXCEPT ![job[r].benefit] = r]
  /\ Goto(r, "draw")
  /\ UNCHANGED dbVars
  /\ UNCHANGED outsideVars
  /\ UNCHANGED <<job, seen, draw>>

DrawCode(r) ==
  /\ pc[r] = "draw"
  /\ \E c \in Codes :
       draw' = [draw EXCEPT ![r] = [code |-> c, tries |-> draw[r].tries + 1]]
  /\ Goto(r, "insert")
  /\ UNCHANGED dbVars
  /\ UNCHANGED outsideVars
  /\ UNCHANGED <<job, seen, benefitLock>>

\* The unique index has the code.
Taken(c) == \E v \in Ledger!Issued : voucher[v].code = c

\* The INSERT waits for a transaction that inserted the same code.
Awaited(r, c) == \E s \in Requests \ {r} : pc[s] = "commit" /\ draw[s].code = c

\* IntegrityError rolls back the savepoint; the benefit stays locked and the
\* redemption inserted.
Collide(r) ==
  /\ pc[r] = "insert"
  /\ ~Awaited(r, draw[r].code)
  /\ Taken(draw[r].code)
  /\ draw[r].tries < MaxAttempts
  /\ draw' = [draw EXCEPT ![r].code = None]
  /\ Goto(r, "draw")
  /\ UNCHANGED dbVars
  /\ UNCHANGED outsideVars
  /\ UNCHANGED <<job, seen, benefitLock>>

GiveUp(r) ==
  /\ pc[r] = "insert"
  /\ ~Awaited(r, draw[r].code)
  /\ Taken(draw[r].code)
  /\ draw[r].tries = MaxAttempts
  /\ Rollback(r)

InsertCode(r) ==
  /\ pc[r] = "insert"
  /\ ~Awaited(r, draw[r].code)
  /\ ~Taken(draw[r].code)
  /\ Goto(r, "commit")
  /\ UNCHANGED dbVars
  /\ UNCHANGED outsideVars
  /\ UNCHANGED <<job, seen, draw, benefitLock>>

CommitIssue(r) ==
  /\ pc[r] = "commit"
  /\ \E v \in Vouchers \ Ledger!Issued :
       voucher' = [voucher EXCEPT ![v] =
         Ledger!NewVoucher(job[r].benefit, job[r].employee, draw[r].code)]
  /\ UNCHANGED <<benefit, accepted, byBot>>
  /\ End(r)
-----------------------------------------------------------------------------
(* Redeeming a code. *)

\* can_be_redeemed, of a row just read.
Redeemable(v) == voucher[v].promo = "ISSUED" /\ v \notin lapsed

\* A code that is not ISSUED is refused before or after the lock, on the same
\* object; so is an expired one, by the clock as it was before the wait.
RefuseCode(r) == pc[r] = "readCode" /\ ~Redeemable(job[r].voucher) /\ Rollback(r)

\* The first SELECT, without a lock.  Its object is the one every later check
\* looks at.
ReadCode(r) ==
  LET v == job[r].voucher IN
  /\ pc[r] = "readCode"
  /\ Redeemable(v)
  /\ seen' = [seen EXCEPT ![r] =
       [promo |-> voucher[v].promo, redemption |-> voucher[v].redemption]]
  /\ Goto(r, "redeem")
  /\ UNCHANGED dbVars
  /\ UNCHANGED outsideVars
  /\ UNCHANGED <<job, draw, benefitLock>>

\* The row as the merchant's request leaves it.
Redeemed(r) ==
  LET row == voucher[job[r].voucher] IN
  [row EXCEPT !.promo = "REDEEMED", !.by = job[r].staff,
              !.redemption = IF seen[r].redemption = "ISSUED" THEN "REDEEMED" ELSE @]

\* SELECT FOR UPDATE, UPDATE, commit: the lock is taken, but the statuses
\* tested are those of the object in memory.  Nothing waits in between.
ConfirmCode(r) ==
  /\ pc[r] = "redeem"
  /\ job[r].kind = "confirm"
  /\ seen[r].promo = "ISSUED"
  /\ voucher' = [voucher EXCEPT ![job[r].voucher] = Redeemed(r)]
  /\ accepted' = [accepted EXCEPT ![job[r].voucher] = @ + 1]
  /\ UNCHANGED <<benefit, byBot>>
  /\ End(r)

\* UPDATE promo_codes at db.commit(): no lock before it, the status tested is
\* the one read, and the linked redemption and redeemed_by_id are left as they
\* are.
BotRedeem(r) ==
  /\ pc[r] = "redeem"
  /\ job[r].kind = "bot"
  /\ voucher' = [voucher EXCEPT ![job[r].voucher].promo = "REDEEMED"]
  /\ accepted' = [accepted EXCEPT ![job[r].voucher] = @ + 1]
  /\ byBot' = byBot \cup {job[r].voucher}
  /\ UNCHANGED benefit
  /\ End(r)
-----------------------------------------------------------------------------
(* The surroundings. *)

\* update_benefit, deactivate_benefit: one UPDATE, or the INSERT of offers,
\* that waits for the benefit row.  An offer for a plan that has one already
\* breaks the unique constraint, for the new offers are inserted before the
\* old ones are deleted; then nothing is written.  Catalogue has the two
\* edits side by side that leave the offers of both; to a request for a code
\* the outcome is one more edit.
EditBenefit ==
  /\ "edit" \in Kinds
  /\ \E b \in Benefits, row \in Ledger!BenefitRows :
       /\ benefitLock[b] = None
       /\ \/ row.offers = benefit[b].offers
          \/ row.offers \cap benefit[b].offers = {}
       /\ Ledger!Edit(b, row)
  /\ UNCHANGED byBot
  /\ UNCHANGED outsideVars
  /\ UNCHANGED sessionVars

\* The merchant is suspended or restored; the validity begins or ends.
Window ==
  /\ "window" \in Kinds
  /\ backed' \in SUBSET Benefits
  /\ valid' \in SUBSET Benefits
  /\ UNCHANGED dbVars
  /\ UNCHANGED <<employee, token, lapsed>>
  /\ UNCHANGED sessionVars

\* The clock passes the expires_at of a code.
LapseCode ==
  /\ "lapse" \in Kinds
  /\ \E v \in Ledger!Issued \ lapsed : lapsed' = lapsed \cup {v}
  /\ UNCHANGED dbVars
  /\ UNCHANGED <<employee, token, backed, valid>>
  /\ UNCHANGED sessionVars

\* What CompanySeats does to one employee.
Administer ==
  /\ "staff" \in Kinds
  /\ \E e \in Employees, p \in Plans \cup {None}, on \in BOOLEAN :
       employee' = [employee EXCEPT ![e] = [plan |-> p, active |-> on]]
  /\ UNCHANGED dbVars
  /\ UNCHANGED <<token, backed, valid, lapsed>>
  /\ UNCHANGED sessionVars

\* authenticate and issue_token_pair; the access token expires.
Login ==
  /\ "staff" \in Kinds
  /\ \E e \in Employees :
       \/ employee[e].active /\ token' = [token EXCEPT ![e] = employee[e].plan]
       \/ token' = [token EXCEPT ![e] = None]
  /\ UNCHANGED dbVars
  /\ UNCHANGED <<employee, backed, valid, lapsed>>
  /\ UNCHANGED sessionVars
-----------------------------------------------------------------------------
Disconnect(r) == pc[r] # "idle" /\ Rollback(r)

Advance(r) ==
  \/ RefuseBenefit(r) \/ RefuseLimit(r) \/ LockBenefit(r)
  \/ DrawCode(r) \/ Collide(r) \/ GiveUp(r) \/ InsertCode(r) \/ CommitIssue(r)
  \/ RefuseCode(r) \/ ReadCode(r) \/ ConfirmCode(r) \/ BotRedeem(r)

Next ==
  \/ \E r \in Requests :
       StartIssue(r) \/ StartRedeem(r) \/ Advance(r) \/ Disconnect(r)
  \/ EditBenefit \/ Window \/ LapseCode \/ Administer \/ Login

Spec == Init /\ [][Next]_vars

\* A benefit row is granted to a request that keeps asking for it, and the
\* event loop runs every handler.
FairSpec == Spec /\ \A r \in Requests : SF_vars(Advance(r))
-----------------------------------------------------------------------------
(* Properties. *)

\* A code is only added while both limits of its benefit, as they are then,
\* have room for it: concurrent requests and a merchant lowering a limit do
\* not get one code more out of the counts (redemptions/service.py:79-81).
LimitsKept ==
  [][\A b \in Benefits, e \in Employees :
       /\ Ledger!UsedOf(b)' # Ledger!UsedOf(b) /\ benefit[b].limit # None
            => Cardinality(Ledger!UsedOf(b)') <= benefit[b].limit
       /\ Ledger!UsedBy(b, e)' # Ledger!UsedBy(b, e)
            => Cardinality(Ledger!UsedBy(b, e)') <= benefit[b].each]_vars

\* No code of a benefit appears after the merchant has closed it, even for a
\* request that began before.
ClosedIssuesNothing ==
  [][\A v \in Vouchers : ~Ledger!Exists(v) /\ Ledger!Exists(v)'
       => benefit[voucher'[v].benefit].open]_vars

\* No two codes are the same text, however the draws collide.
CodesUnique ==
  \A v, w \in Ledger!Issued : voucher[v].code = voucher[w].code => v = w

\* A code is answered "redeemed" once, and exactly when it is redeemed.
AcceptedOnce ==
  \A v \in Vouchers :
    accepted[v] = IF Ledger!Exists(v) /\ voucher[v].promo = "REDEEMED" THEN 1 ELSE 0

\* Whoever redeems at the same time, a redemption is closed exactly when
\* somebody of the staff has confirmed it, only with its code, and a redeemed
\* code that nobody confirmed was redeemed by the bot, which leaves the
\* redemption open (promo_codes/routes.py:111-117, bot/routes.py:93-114): the
\* bot's write over a confirmation does not undo it.
ConfirmedByStaff ==
  \A v \in Ledger!Issued :
    /\ voucher[v].redemption = "REDEEMED" <=> voucher[v].by # None
    /\ voucher[v].by # None => voucher[v].promo = "REDEEMED"
    /\ voucher[v].promo = "REDEEMED" /\ v \notin byBot => voucher[v].by # None

\* Every request ends, without the help of a deadlock detector: a holder of a
\* benefit row only waits for a transaction that waits for nothing.
EveryRequestEnds == \A r \in Requests : pc[r] # "idle" ~> pc[r] = "idle"

\* A redemption that read its code before another redeemed it: accepted as
\* well, which AcceptedOnce forbids, it changes at most who has confirmed it.
Overtaken ==
  \E r \in Requests :
    LET v == job[r].voucher IN
    /\ pc[r] = "redeem"
    /\ voucher[v].promo = "REDEEMED"
    /\ \/ UNCHANGED voucher
       \/ \E s \in Staff :
            voucher' = [voucher EXCEPT ![v].by = s, ![v].redemption = "REDEEMED"]
    /\ accepted' = [accepted EXCEPT ![v] = @ + 1]
    /\ UNCHANGED benefit

\* The concurrent requests amount to the one-at-a-time operations, the
\* redemptions that AcceptedOnce is about excepted.
Serializable == Ledger!Init /\ [][Ledger!Next \/ Overtaken]_(Ledger!dbVars)
-----------------------------------------------------------------------------
(* The inductive invariant: what an issuing session knows of the benefit it *)
(* holds, and of the code it has inserted.                                  *)

Issuing == {"draw", "insert", "commit"}

StepFits(r) ==
  /\ pc[r] \in Issuing \cup {"lockBenefit"} =>
       /\ job[r].kind = "issue"
       /\ job[r].employee \in Employees /\ job[r].benefit \in Benefits
       /\ job[r].plan \in Plans
  /\ pc[r] \in {"readCode", "redeem"} =>
       job[r].kind \in {"confirm", "bot"} /\ job[r].voucher \in Ledger!Issued
  /\ pc[r] \in {"readCode", "redeem"} /\ job[r].kind = "confirm" => job[r].staff \in Staff
  /\ pc[r] \in {"insert", "commit"} => draw[r].code \in Codes
  /\ pc[r] = "draw" => draw[r].tries < MaxAttempts
  /\ pc[r] \notin Issuing => draw[r].tries = 0

BenefitHeld(r) ==
  pc[r] \in Issuing =>
    LET b == job[r].benefit IN
    /\ benefitLock[b] = r
    /\ benefit[b].open /\ job[r].plan \in benefit[b].offers
    /\ Ledger!RoomIn(b) /\ Ledger!RoomFor(b, job[r].employee)

CodeHeld(r) ==
  pc[r] = "commit" => ~Taken(draw[r].code) /\ ~Awaited(r, draw[r].code)

\* The invariant that Next preserves.
IInv ==
  /\ TypeOK
  /\ CodesUnique
  /\ \A r \in Requests : StepFits(r) /\ BenefitHeld(r) /\ CodeHeld(r)
=============================================================================
