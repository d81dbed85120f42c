# Verification of the corporate benefits platform

TLA+ models, TLC runs and TLAPS proofs of the backend in `src/backend/app`
(FastAPI, SQLAlchemy async sessions, PostgreSQL, Redis).  Companies buy *seats*
of tariff plans for their employees, employees join by invitation, merchants
offer *benefits* to plans, employees draw *promo codes* under the limits of a
benefit, and merchants or the Telegram bot redeem them.  Nearly all the
program's correctness lives in what concurrent requests do to shared rows:
which row is locked, what is read before the lock and used after it, what a
rollback takes back.  The models are about that.

All paths below are under `src/backend/app/` unless they start with `src/`.

## 1. Inventory

| part (code) | state | operations | with whom | what makes it correct |
|---|---|---|---|---|
| seats (`plans/`) | `plan_allocations`: allocated, assigned per company and plan | assign, unassign, set allocated | called inside the transactions of registration and of the employee operations | 0 <= assigned <= allocated; no lost update; assigned = active employees of the plan |
| employees (`companies/employee_service.py`, `companies/admin_routes.py`, `admin_routes.py`) | `users`: plan, is_active | change plan, deactivate, activate; platform block and unblock | seats | a repeated request changes nothing; row locks in an order that may deadlock |
| invitations (`invites/`) | `invite_tokens`: status, plan, bound email, user, expiry | create, validate under lock, consume, revoke, expire | registration | at most one account from an invitation; a finished invitation stays finished |
| registration (`users/service.py`, `users/routes.py`) | a new `users` row | register, login, refresh, logout | invitations, seats, refresh tokens in Redis | account, invitation and seat appear together or not at all |
| Bitrix24 import (`companies/routes.py`, `bitrix/`) | `users`: email, external_bitrix_id | sync of a whole list | employees, registration, deletion of companies | one account per address and per Bitrix24 id |
| issuing codes (`redemptions/`, `promo_codes/service.py`, `benefits/routes.py`) | `benefit_redemptions`, `promo_codes` | redeem benefit, issue code | benefits, access tokens | limits of a benefit kept; unique codes; nothing after closing |
| redeeming codes (`promo_codes/routes.py`, `bot/routes.py`) | the same two tables | confirm, redeem by bot | merchants, bot | a code is redeemed once; code and redemption agree |
| benefits (`merchants/benefit_routes.py`, `benefits/plan_offers.py`) | `benefits`, `benefit_plan_offers` | create, update, deactivate, replace offers | catalogue, issuing | validity ordered; offers unique per plan; edits do not undo each other |
| catalogue (`benefits/visibility.py`, `core/pagination.py`) | none of its own | list page by page | benefits, merchants | shown = redeemable; leafing through misses nothing |
| concierge (`ai/`) | none of its own | recommend, draft, report | catalogue, language model, database pool | only eligible benefits are recommended; an answer comes whatever the model does |
| access tokens (`core/deps.py`, `core/security.py`) | claims in the token | decode, require role | every route | claims may be older than the row |
| refresh tokens (`users/`, `src/frontend/src/api/client.ts`) | deny list in Redis, tokens in browser tabs | refresh, logout | rate limiter and events share the Redis pool | a token presented again is refused; a logged-out token is dead |
| rate limiter (`core/rate_limit.py`) | counters in Redis | INCR, TTL, EXPIRE | every endpoint; events share its pool | at most N per window, so twice N in any; no counter without expiry |
| events (`events/`, `core/redis.py`, `EmployeeDashboard.tsx`) | tickets and channels in Redis, one connection per stream | ticket, stream, publish | issuing and redeeming of codes, the employee's page | tickets single-use; committed news arrive; streams end |
| companies, merchants (`companies/routes.py`, `merchants/routes.py`) | their rows | create, update, delete | all of the above by foreign key | a deletion leaves no orphan and removes nothing of others |
| analytics (`analytics/`) | none of its own | company and merchant reports, several statements each | the same tables | what an early figure of a report counts, a later one has too |
| audit (`audit/`) | one INSERT in the caller's transaction | record | everybody | exists exactly when the caller committed; outlives the company |
| Telegram bot, web pages, demo data, configuration | | format, fill, wire | | not modelled, see section 7 |

**What is hard here.**  (1) Interleaving: every request is a transaction of
several statements, and READ COMMITTED shows each statement a different
database.  (2) Stale reads: SQLAlchemy keeps the first version of a row it has
seen in a session, even under `FOR UPDATE`, unless `populate_existing` is asked
for, and writes back only the columns it believes changed; access tokens carry
the plan of 15 minutes ago.  (3) Partial failure: a rollback takes back whatever
was flushed, a savepoint only a part, and one refusal path commits on purpose.
(4) Deadlock: employee operations lock the rows of two plans in the order of the
operation.  (5) Redis calls that are not atomic, or fail and are ignored; a
publication that follows the commit and may never happen.  (6) Two bounded
pools: one of Redis connections, of which each event stream keeps one, and one
of database connections, of which an assistant keeps one while it waits for the
language model.  (7) Deletions that combine what the ORM does to the children it
has loaded with what the schema does to the others.  `PROJECT.json` lists each
hazard with its line and the properties that cover it.

## 2. Modules

| module | models |
|---|---|
| `SeatLedger` | abstract: what each seat, employee and invitation operation does when it runs alone |
| `CompanySeats` | the same operations as concurrent transactions, statement by statement |
| `CompanySeatsProofs` | inductive invariant of `CompanySeats` and what follows from it |
| `CompanySeatsRefinement` | `CompanySeats` implements `SeatLedger`, and what that says of accounts and of the books |
| `VoucherLedger` | abstract: benefits, their limits, codes and redemptions, one operation at a time |
| `PromoCodes` | issuing and redeeming as concurrent requests against the edits of a merchant |
| `PromoCodesProofs` | inductive invariant of `PromoCodes` and what follows from it; it implements `VoucherLedger` but for second answers to a code already redeemed |
| `RefreshTokens` | rotation of refresh tokens against the deny list, and the browser that refreshes |
| `RefreshTokensProofs` | rotation, for any number of tabs and reloads |
| `WindowQuota` | abstract: windows of a minimal length that admit a limited number of requests |
| `RateLimiter` | the counters in Redis, call by call |
| `RateLimiterProofs` | `RateLimiter` implements `WindowQuota`, and so does `Gateway`; any `Window` ticks admit two limits, and one more per loss of data |
| `EventStream` | tickets, streams, publication and the pool of Redis connections |
| `EventStreamProofs` | what a ticket opens and what a stream delivers |
| `Gateway` | `RateLimiter` and `EventStream` over the one pool they share |
| `Catalogue` | edits of benefits, the list page by page, the assistants, the database pool |
| `CatalogueProofs` | what edits keep of the catalogue, that the list agrees with a redemption, walks, assistants and the pool |
| `Tenants` | deletion of companies and merchants against insertions and imports |
| `Reports` | the figures of analytics, read while `Tenants` runs |
| `TenantsProofs` | the rows that are left, and the figures that are read from them |
| `MC...` | instances for TLC of the module they are named after (`MCTenants` of `Reports`) |

`CompanySeats` and `PromoCodes` both contain an `INSTANCE` of their ledger over
the same committed variables; `Serializable == Ledger!Spec` is the refinement.
The mapping is the identity on the tables: everything that the concurrent
module adds (program counters, locks, what a session remembers) is hidden.

### The database of `CompanySeats` and `PromoCodes`

A request is a session (`core/database.py`, `get_session`): it runs statements,
commits in its route, and is rolled back by any exception.  In the models

* a statement reads the committed rows, and what a transaction writes is private
  until its commit: the committed variables change in commit actions only, and
  what a session is about to write is in its own variables;
* `FOR UPDATE`, `UPDATE` and `INSERT` of a unique key wait until the row is free
  and then see its latest version: the guard `... = None` on a lock variable;
* statements on a row the session already holds, and ORM assignments, are merged
  with the statement before them: nobody else can tell them apart;
* `Rollback` is every early return and exception: the session's memory and locks
  go, the tables stay.  A `REDEMPTION_REJECTED` audit record or an `EXPIRED`
  status flushed just before an exception is therefore lost, as in the code;
* `Disconnect` ends a request anywhere (client gone, process killed).

`FOR KEY SHARE` locks that foreign keys take on users and companies are left
out: they conflict only with key updates and deletions, which no modelled
operation of those two modules does on such rows; `Tenants` is about them.  The
one that matters elsewhere, an offer's key share lock on its benefit against
`FOR UPDATE`, is in `EditBenefit`.

### `CompanySeats`

| variable | code |
|---|---|
| `sold`, `allocated`, `assigned` | rows of `plan_allocations` and their two counters |
| `registered`, `planOf`, `active` | rows of `users` with role EMPLOYEE |
| `invite`, `terms`, `usedBy`, `lapsed` | rows of `invite_tokens`, the clock against `expires_at` |
| `origin` | the invitation an account was made from (history: `used_by` is overwritten by a second registration, this is not) |
| `pc`, `job` | a request: next statement, operation and arguments |
| `seen`, `counter`, `written` | the plan it read; the absolute counters it is going to write |
| `userLock`, `planLock`, `inviteLock` | holders of row locks and of uncommitted unique keys |

One company is modelled: every query of these services filters on the
`company_id` of the caller's token, so companies share no row.  A user is its
email.  Registration normalises the address; the Bitrix24 import does not, so
addresses that differ in case only would be two elements of `Users`.  The import
is modelled for one address at a time.  The steps of an operation follow the
code: registration locks the invitation, looks the email up without a lock,
inserts the account (waiting for an insert of the same email), takes the seat,
commits; a change of plan locks the employee, then the row of the new plan, then
the row of the old one; `block_user` reads without a lock and its UPDATE waits
for the row.  `DetectDeadlock` aborts any member of a cycle of waits, as the
victim is PostgreSQL's choice.

`set_allocated`, `check_seat_available`, `expire_old_tokens` and
`expire_old_codes` have no callers in the repository.  `set_allocated` is
modelled nevertheless, with its unlocked first read and the row lock after it,
because the seat counters are only safe if it takes part in the locking.  The
two expiry sweeps are not.

### `PromoCodes`

| variable | code |
|---|---|
| `benefit` | `is_active`, `usage_limit`, `max_redemptions_per_employee`, plan offers |
| `voucher` | a redemption and its promo code (inserted together): owner, benefit, text, both statuses, `redeemed_by_id` |
| `accepted`, `byBot` | answers "redeemed" given for a code, codes the bot has redeemed (histories) |
| `employee`, `token` | the employee's row, and the plan claim of the access token held |
| `backed`, `valid`, `lapsed` | merchant ACTIVE; benefit within its validity; code past `expires_at` |
| `pc`, `job`, `seen`, `draw`, `benefitLock` | a request, what its session has in memory, the code it is trying, benefit row locks |

`redeem_benefit` takes the time before it waits for the benefit row, so
`job.timely` is set when the request starts; `is_active`, the merchant, the
offers and the two counts are read under the lock.  `issue_promo_code` draws a
text, inserts it in a savepoint, and on a collision tries again, `MaxAttempts`
times.  An INSERT waits for an uncommitted one of the same text.
`redeem_promo_code` locks the code but, without `populate_existing`, tests the
status its session read before: `seen` is that memory.  Statuses EXPIRED and
CANCELLED are never committed by any operation, so they do not appear.  In
`EditBenefit` an offer for a plan that already has one is not possible: the ORM
inserts the new offers before it deletes the old ones, the unique constraint
fails and the edit leaves no trace.  An edit is one step here; two side by side,
which may leave the offers of both, are in `Catalogue`, and so is the company a
benefit may be limited to (`redemptions/service.py:116-126`): here every benefit
is for all companies.

### `RefreshTokens`

| variable | code |
|---|---|
| `active` | `users.is_active` of the one account |
| `family`, `age` | a refresh token: the login it descends from, the time to its `exp` |
| `denied`, `rounded` | keys of the deny list in Redis, and those that lapse up to a second before `exp` |
| `spared`, `exchanged` | tokens whose `SETEX` failed; how often a token was exchanged (histories) |
| `stored` | `localStorage.refresh_token`, shared by the tabs |
| `pc`, `tab`, `sent`, `reply` | a POST /auth/refresh: next step, the tab that waits for it, the token it carries, the answer |
| `contended` | tokens presented while they were on their way, by a second tab or by a tab after its reload (history) |

A refresh is three steps: `Check` (decode, `EXISTS`), `Exchange` (read the
account, issue, `SETEX`), and `Store` or `SignOut` in the browser.  A tab shares
one refresh among its calls (`refreshing ??= ...`), two tabs do not.  `Lose` is
a tab that stops waiting: a failed call clears the storage, a reload keeps the
token, and in both the server may have got the request (`Unheard`).
`revoke_refresh_jti` cuts the time to live to whole seconds, so an entry may
lapse in the last second of its token.  Redis may fail: `TryDeny` then writes
nothing, `Refuse` refuses.  The web page's logout only forgets the tokens; POST
/auth/logout is `ApiLogout`.  A login while a refresh is in flight is
overwritten by its answer, as in the page.

### `RateLimiter`, `WindowQuota`

| variable | code |
|---|---|
| `redis` | a call gets through: Redis is up and its pool has a connection |
| `hits`, `ttl` | a key in Redis and its time to live; 0 without |
| `age` | ticks since the key appeared (history) |
| `recent`, `losses` | for each a below `Window`, the requests a counter has admitted, and the times Redis has lost its data, in this tick and the a before it (histories) |
| `pc`, `todo`, `count` | a request: its next call, the counters it has still to pass, what INCR answered |

`_hit` is two calls: `Hit`/`HitFresh` (INCR and TTL in one MULTI) and
`SetExpiry`.  Between them other requests run and this one may stop (`Crash`).
`HitUnanswered` is a call that Redis executed and whose answer was lost, `FailOpen`
one that failed.  `Wipe` is a restart of Redis: `docker-compose.prod.yml` gives it
no volume; the requests it had admitted stay admitted, so `recent` stays.  A
counter is not counted beyond one more than its limit, as nothing distinguishes
larger values.

### `EventStream`

| variable | code |
|---|---|
| `up`, `tickets` | Redis; the keys `sse:ticket:*` |
| `owner`, `mounted`, `client` | one mount of the employee's page and its `EventSource` |
| `server`, `inbox`, `sent` | the generator `_event_stream`, what Redis has sent it, what it has yielded |
| `leaked` | connections of the pool that no generator will give back |
| `about`, `note` | rows committed for a user; what a request has committed and is about to publish |
| `missed`, `since`, `accepted` | publications that failed, news older than a subscription, tickets accepted (histories) |

A command takes a connection of the pool for as long as it lasts, a
subscription keeps one; when none is free the pool raises instead of waiting
(`Reachable`).  `IssueTicket` leads to "connecting" even when the page has gone:
the effect's cleanup knows no source yet.  An `EventSource` whose connection
breaks presents the same ticket again and is refused.  `Restore` waits until
every generator has noticed the outage, because each asks Redis for a message
without a pause.

`Gateway` extends `RateLimiter`, instantiates `EventStream` and ties `redis` to
`Reachable`: a step is one of the limiter, or one of the streams with whatever it
does to `redis`.  So everything stated of `RateLimiter` is stated of `Gateway` too.

### `Catalogue`

| variable | code |
|---|---|
| `row`, `offers` | `benefits` (is_active, valid_from, valid_until), `benefit_plan_offers` with the request that inserted each |
| `open` | merchants that are ACTIVE |
| `now` | the clock |
| `pc`, `held` | where a request is; requests that have a database connection |
| `edit` | a merchant's request: payload, the row and the offers it has read |
| `walk` | an employee that leafs through the list: page, moment, rows counted and seen; what has been visible all the time (history) |
| `help` | an assistant: rows it has read, eligible ones, its answer |

An edit is a read and a commit, without a lock between them: `Overwritten`
writes the columns that differ from what was read (`Changed`), `ReplacedOffers`
deletes the offers that were read and inserts the new ones, `Clashes` is the
unique constraint.  The `db.refresh` after the commit only dresses the answer
and is left out.  `AskPage` fixes the moment of visibility, `CountRows` and
`ReadRows` are the two statements of `paginate`.  An assistant reads, asks the
model with its transaction open, and records the audit.  `ModelAnswers`,
`ModelSilent` (error, timeout, no JSON) and `ModelGarbles` (JSON of a shape the
loop does not expect, which is answered with 500) are the three things a model
can do.  A request that finds no connection waits, and `GiveUp` is the end of
that wait.

### `Tenants`, `Reports`

| variable | code |
|---|---|
| `life` | of each row: not inserted, inserted and not committed, committed, deleted |
| `cut` | foreign keys set to NULL |
| `ext` | `users.external_bitrix_id` |
| `pc`, `target`, `known`, `found` | a deletion or an import: what it works on, the children the ORM has loaded, the accounts the list was matched with |
| `subject`, `step`, `counted`, `partial` | a report: of whom, the statements it has run, the rows each has counted, and which of them left rows out |

A row has its foreign keys in `Born`, and the schema with its ON DELETE rules is
`Schema`, table by table as in `alembic/versions/001_initial_schema.py`.  A deletion
is `Load` (the ORM reads the children it will detach) and `Delete`: the UPDATEs and
the DELETE, which waits while an uncommitted INSERT refers to a row that would go.
`sync_bitrix_employees` looks up every entry of its list and inserts all missing
accounts at its commit.  A company's report is five statements: codes, total, and the
tables of categories, merchants and benefits; a merchant's is three: codes,
benefits and the trend of thirty days.  Reports keep the set of rows a statement
counts rather than the number.  A table joins, groups and is cut by its LIMIT
(5 of a company, 10 of a merchant): `GroupingsOf` are the groups its rows may
fall into, as two benefits may share a category or a title, and `Largest` keeps the
rows of the largest groups, ties in any order.

## 3. Runs

`tlc -workers 2 -config <run>.cfg <module>.tla`.

| run | properties | what it shows |
|---|---|---|
| `Seats` | `IInv`, `NoLostUpdate`, `SeatsCoverStaff`, `LedgerKept`, `Serializable`, `EveryRequestEnds` | two requests at a time of a company administrator or of the platform that blocks, on two plans and two employees, from every consistent company: counters exact to the operations, deadlocks included, and every request ends |
| `SeatsInvites` | `SeatsWithinAllocation`, `OneAccountPerInvite`, `LedgerKept`, `FinishedInvitesStay`, `Serializable` | registrations, revocations, expiry, imports and changes of the allocation racing for two invitations, two addresses and the seats of a plan |
| `SeatsDrift` | `ActiveWithinAllocation` violated | finding 1 |
| `Promo` | `IInv`, `CodesUnique`, `ConfirmedByStaff`, `LimitsKept`, `ClosedIssuesNothing`, `Serializable`, `EveryRequestEnds` | two requests of employees, two tills and the bot against a merchant that edits, clocks and tokens that run out; texts collide under different benefit locks |
| `PromoDouble` | `AcceptedOnce` violated | finding 2 |
| `Sessions` | `OneLivePerLogin`, `ExchangedOnce`, `NoReplay`, `NoSpuriousSignOut` | two tabs that may be reloaded, against logouts, blocks, the clock, lost answers and failures of Redis |
| `SessionsReplay` | `RefusedAgain` violated | finding 3 |
| `Gateway` | `AtMostTwice`, `WindowsKept`, `StartsAgain` | two requests pass the counters of an address and of a login while a stream takes and returns the last connection, processes stop, answers get lost and Redis loses its data |
| `Events` | `TicketOnce`, `NewsArrive`, `StreamsEnd` | two mounts of the page, of one user or of two, with outages, crashes, broken connections and lapsed tickets |
| `Catalogue` | `OneOfferPerPlan`, `VisibleIsRedeemable`, `NoMiss`, `RecommendedEligible`, `OrderKept`, `OnlyAsAsked`, `EveryRequestEnds` | merchants edit side by side while employees leaf through the list and assistants wait for the model |
| `Tenants` | `NoDangling`, `AccountsUnique`, `LaterFiguresCover`, `MerchantHistory`, `BenefitsOutlive` | companies and merchants are deleted while rows of theirs are inserted, lists imported and reports made |
| `TenantsAccounts` | `AccountsFollow` violated | finding 4 |

Deadlock is checked wherever some request can always start or be aborted.
`Catalogue`, `Tenants` and `TenantsAccounts` do stop: their requests run once each
and the clock has an end.

**Bounds.** Two plans are the fewest with a change of plan and with two rows to
deadlock on.  Two requests are the fewest that interleave; a conflict on a row
is between its holder and one waiter, and for an unlimited number of requests
most safety properties are proved (section 6).  `MaxSeats` 1 (`Seats`) and 2
(`SeatsInvites`, on one plan) make "one seat left, two takers" and "lowered
below assigned" happen.  With two texts the second code may collide with the
first, and `MaxAttempts` 2 allows both the retry and the give-up.  `MaxLimit` 1
makes the second of two requests the one too many, with and without a limit of
the benefit as a whole.  `EnoughRows` keeps a request from starting when every
voucher row is used: it bounds the length of a behaviour, not what a request
does.  Initial states are *all* consistent companies or catalogues of that size,
not just empty ones, so that short runs reach what long histories build up.
`Counts` starts at -1, so that the proofs include the refused negative argument.
Three refresh tokens are a login with two rotations, or two logins of which one
is rotated; `EnoughTokens` is to them what `EnoughRows` is to vouchers.  Two
tabs are the fewest that contend for a token.  `Window` 2 is the shortest with a
tick inside it; limits of 1 make the second of two requests the refused one; one
loss of data in two ticks (`MaxLosses` 1) is the fewest that lets a third one
in.  In `Gateway` the pool has one connection and `Troubles` is empty, so the
stream alone decides whether the limiter gets through; outages and leaks reach
the limiter through the same variable `redis`, and theorem `Composition` covers
them.  In `Events` one news and two streams distinguish "mine" from "somebody
else's", and the pool of two is exhausted by both streams, or by one and a leak.
In `Catalogue` a page holds one of two benefits, the model names up to two ids,
one of them possibly no benefit's, and two connections are exhausted by two
assistants.  The rows of `Tenants` are the shortest chains of the schema's
cascades: company, account, redemption, code; company, benefit, redemption,
code; merchant, benefit.  There are two redemptions, two `Headings` and a LIMIT
of one group, so that a table may leave one of two groups out and two benefits
may share a group.

**Casts.**  `MCPromoCodes`, `MCCatalogue` and `MCTenants` choose at the start what
takes part, so that each combination is explored in full without multiplying all
of them.  In `Promo`: two employees before two benefits that are edited; an
employee, a clock, a platform and tokens that change; codes of two employees
that are confirmed at two tills, redeemed by the bot and lapse; codes that are
confirmed while the merchant edits.  In `Catalogue`: two edits; an edit and a walk
while time passes and the merchant is suspended; an edit and a recommendation;
two assistants and a walk over two connections.  In `Tenants`: two deletions with every
insertion; a deletion and a report with every insertion a report can count or
needs; a deletion and two imports with the one registration whose address is in
the list.

**Symmetry** permutes requests, people, plans, invitations, tokens and tabs where
no property tells them apart; the runs with a liveness property use none.
`Promo`, which has one, takes interchangeable requests, vouchers and texts in
their order instead (`InOrder`): a restriction of the next-state relation to one of
several behaviours that differ in names only.

**Restricted specifications.**  No property supposes that the code does what it
should: what it does otherwise is named in the property as an exception (a change
of plan of a deactivated employee and the switch of an account in `LedgerKept`, a
second answer to a redeemed code in `Serializable` of `PromoCodes`, tokens
presented at once in `OneLivePerLogin`, `ExchangedOnce` and `NoSpuriousSignOut`), so
that everything else is still checked in its presence.  `Kinds` says what a run
lets happen.  `Seats` leaves out "unblock", which takes no seat and so breaks
`SeatsCoverStaff` (section 5).  In the violated runs it only makes the counterexample
plain: nobody deactivated at the start (`OpenedSpec`), nothing lost or reloaded
(`QuietKinds`).  `InviteSpec` bounds `SeatsInvites`: requests
that share no row, such as an import and a revocation, are not in flight together;
an invitation that is presented exists (an unknown one is refused like a finished
one); and an allocation is lowered, to 0 or to 1, as the higher ones are among the
initial states.

**Fairness.**  In `CompanySeats` and `PromoCodes`, `SF_vars(Advance(r))` for
every request: PostgreSQL queues the waiters of a row, so a row that becomes
free again and again is granted in the end, and the event loop runs every ready
handler. `WF_vars(DetectDeadlock(r))` in `CompanySeats` (`FairSpec`) stands for
the detector that runs after `deadlock_timeout`.  `PromoCodes` needs no
detector: the holder of a benefit row waits only for an insert of the same text,
whose transaction has nothing left but its commit, and the run shows that this
is enough.  In `RateLimiter` time passes, a call on a counter that is asked
again and again gets through sometimes, and processes do not stop at *every*
EXPIRE (strong fairness per counter and call). In `EventStream` the event loop
runs every handler and generator (`WF_vars(Serve(s))`); nothing is assumed of
Redis or of publications.  In `Catalogue` `WF_vars(Proceeds(x))` includes the
ends of the two waits that have a timeout, for a connection (`pool_timeout`) and
for the model (`ModelSilent`), but not the model's answers.  Nothing is ever
assumed of clients: no request has to arrive and no connection to break.

## 4. What the properties say

* `SeatsWithinAllocation`, `NoLostUpdate`: the CHECK constraints never have to
  reject a statement, because each counter about to be written is one off the
  committed value and its row is held.
* `SeatsCoverStaff`, `LedgerKept`: seats and active employees, over all plans and
  per plan.  The second is an action property: no step makes exact books wrong but
  a change of plan of a deactivated employee and the platform's switch of an
  account, and whatever is in flight beside these is still bound by it.
* `OneAccountPerInvite`, `FinishedInvitesStay`: an invitation and the accounts made
  from it, remembered in `origin` and not in the cell `used_by`, which a second
  registration would overwrite.
* `LimitsKept`, `ClosedIssuesNothing`: at the commit of a code the benefit *as
  it then is* has room and is open, though the checks ran statements earlier.
* `CodesUnique`, `ConfirmedByStaff`: a code's text, redemption and confirming
  account.  The bot is in the run: it redeems without a confirming account and
  leaves the redemption open, which the second property names, and its write over
  a confirmation that came in between must undo nothing of it.
* `NoReplay`: the server's part of the rotation.  Whoever presents a token that was
  exchanged, it passes the deny list only if Redis failed to take note of it or in
  its last second.
* `OneLivePerLogin`, `ExchangedOnce`: of the tokens that descend from a login one
  is good, and none is exchanged twice, however refreshes of several tabs race with
  logins, reloads, lost answers and the clock.  Two exceptions: a token Redis failed
  to deny (`spared`), and tokens that two tabs, or a tab before and after its reload,
  present at once (`contended`), which is finding 3.
* `NoSpuriousSignOut`: the browser's part.  The server never refuses it a token
  because the browser itself had it exchanged, unless it presented the token while it
  was on its way.
* `WindowsKept`, `AtMostTwice`: no window is shorter than it should be, and any
  `Window` ticks, hence also any shorter time, admit at most two limits, and one
  more for each time Redis lost its data in them, whatever stops between INCR and
  EXPIRE.  `StartsAgain`: a counter left without an expiry is repaired.
* `TicketOnce`, `NewsArrive`, `StreamsEnd`: a ticket, what a stream delivers, and
  its end.
* `OneOfferPerPlan`, `OrderKept`, `OnlyAsAsked`: two edits of one benefit side by
  side.  `OrderKept` names the one way a validity gets out of order.
* `VisibleIsRedeemable`: two pieces of code that state the same rule agree.
* `NoMiss`, `RecommendedEligible`: what paging and the model can do to the answer.
* `NoDangling`, `MerchantHistory`, `BenefitsOutlive`, `AccountsUnique`: rows after
  deletions and imports.
* `LaterFiguresCover`: what an earlier figure of a report counts, a later one that
  its LIMIT leaves no group out of has counted too, but for rows removed meanwhile.
  The converse does not hold and is not claimed: redemptions that come after the
  total are in the tables, whose sums and shares may be above it.
* `Serializable`: the concurrent requests are the operations of the ledger in
  some order; of `PromoCodes`, but for the second answers of finding 2
  (`Overtaken`), which change at most who has confirmed a code.
* `EveryRequestEnds`: no request waits for ever.

Each has a mutant, a plausible slip such as a missing `FOR UPDATE` or an
off-by-one, under which its run fails (`PROJECT.json`; the operators are in
the section "Mistakes" of the modules and used by no action).  Modules with a
`TypeOK` define it for the reader and the proofs: `IInv`, where a run checks it,
contains it.

## 5. Findings

1. `change_employee_plan` never looks at `is_active`.  For a deactivated
   employee it gives back a seat of the old plan that someone else occupies;
   later activations leave more active employees than seats (`SeatsDrift`).
   The platform's `unblock_user`, which takes no seat, leads to the same state:
   the company deactivates an employee, somebody else takes the seat, the
   platform unblocks the employee.
2. `redeem_promo_code` locks without `populate_existing` a row its session
   already holds in memory: two tills both answer "redeemed" (`PromoDouble`).
   `plans/service.py` names this trap and avoids it.
3. `refresh_tokens` asks the deny list before it issues the new pair and writes it
   after (`users/routes.py:115-124`): two tabs of a browser, which share
   `localStorage` and nothing else, both have one token exchanged, and two
   tokens of one login are good (`SessionsReplay`).  `users/routes.py:109-110` says
   that a token presented again is refused.
4. `delete_company` promises to delete "in cascade" (`companies/routes.py:123`), and
   `users.company_id` is ON DELETE CASCADE (`001_initial_schema.py:95-96`), but
   `Company.users` (`companies/models.py:34`) leaves the children to the ORM, which
   sets the column to NULL before it deletes the company: the accounts outlive it
   (`TenantsAccounts`).

Other disagreements between the code and what it says of itself came up while
modelling.  They have no run of their own; most are visible in a guard or an
exception of a property.

* *Codes.*  No operation expires a redemption, so an expired code counts against
  its owner for ever, where `redemptions/service.py:30-31` lets such an employee
  get a new one.  The bot redeems a code without a confirming account and leaves
  the redemption ISSUED.  The `REDEMPTION_REJECTED` records of `_reject` are rolled
  back by the exception raised after them.
* *Tokens.*  No dependency reads `users.is_active`, so a deactivated employee gets
  codes until the access token expires.  Of two tabs that present a token one after
  the other the second is refused, and signs both out.
* *Pools.*  With the Redis pool exhausted by streams the limiter fails open while
  the deny list refuses everybody.  `unsubscribe()` raises while Redis is down, so
  that `aclose()` is not reached and the connection is lost
  (`events/routes.py:124-126`): `ConnectionsReturned` does not hold once "outage" is
  among the `Troubles`.
* *Events.*  `publish_plan_changed` and `publish_benefit_updated` have no callers
  (`events/publisher.py:109-136`).  The page listens with `onmessage`, which never
  hears named events (`events/publisher.py:37`, `src/frontend/src/api/client.ts:132`).
  An `EventSource` reconnects with the ticket it has used and gets 401.  A page that
  is left before its ticket arrives leaves its stream open
  (`EmployeeDashboard.tsx:10`).
* *Edits.*  Replacing offers while keeping a plan breaks the unique constraint,
  as the new rows are inserted before the old ones are deleted
  (`merchants/benefit_routes.py:183`).  Two replacements at once leave the offers
  of both.  Two PATCHes that each move one end of the validity can cross it: each
  checks its end against the other as it was, which `OrderKept` excepts.  A
  PATCH with an explicit null for a NOT NULL column is answered with 500.
* *Tenants.*  A merchant with benefits cannot
  be deleted: the ORM sets `benefits.merchant_id` to NULL, which the column refuses.
  A company name that is taken is noticed by the unique index alone, and answered
  with 500 (`companies/routes.py:83-88`).  The import may update an employee of another
  company, and creates accounts without an invitation, which `invites/models.py:1`
  calls the only way.  It commits once for the whole list, so an address that a
  registration inserts meanwhile loses all other entries too.  Its route names its
  types as strings, "BitrixSyncRequest" and "BitrixSyncResponse", and imports them
  inside the function only (`companies/routes.py:134-142`), where FastAPI may not
  resolve them; the model takes the import to be reachable.
* *Reports and assistants.*  `analytics/service.py:149-150` says that a merchant
  keeps the history of employees who were deleted, but the cascade on
  `promo_codes.employee_id` removes it.  As the tables of a report are read after its
  total, shares may exceed one and their LIMIT leaves the rest of the total without
  one.  "benefit_ids" that is not
  a list raises and is answered with 500, where `ai/routes.py:3-6` promises a
  fallback.  The page type of `client.ts` names `total` and `pages`, the API sends
  `total_items` and `total_pages`.

## 6. Proofs

Checked by TLAPS for every value of the constants that satisfies the named
assumptions.

| theorem | says |
|---|---|
| `CompanySeatsProofs!Invariance` | `Spec => []IInv` |
| `TypeCorrect`, `SeatsSafe`, `RowsSafe`, `CountersSafe` | `TypeOK`, `SeatsWithinAllocation`, `PlansHaveRows`, `NoLostUpdate` always hold |
| `InvitesFinal` | `Spec => FinishedInvitesStay` |
| `CompanySeatsRefinement!Refinement` | `Spec => Serializable`: the concurrent system implements `SeatLedger` |
| `AccountsSafe` | `Spec => []OneAccountPerInvite`, of all accounts ever made from an invitation |
| `BooksHold` | `Spec => LedgerKept` |
| `StaffCovered` | `Spec => []SeatsCoverStaff`, if `Kinds` has no "unblock" |
| `RateLimiterProofs!Invariance` | `Spec => []IInv`: a counter with a time to live will have lived a whole window when it is over |
| `WindowsHold` | `Spec => WindowsKept`: the counters implement `WindowQuota` |
| `Composition` | `GatewaySpec => Spec`: a limiter that shares its pool with streams is a limiter whose Redis comes and goes |
| `GatewayWindows`, `BurstsBounded` | `GatewaySpec => WindowsKept`, `GatewaySpec => []AtMostTwice` |
| `PromoCodesProofs!Invariance`, `UniqueTexts` | `IInv`, `CodesUnique` always hold |
| `LimitsHold`, `ClosingHolds` | `Spec => LimitsKept`, `Spec => ClosedIssuesNothing` |
| `ConfirmedHold` | `Spec => []ConfirmedByStaff`, the bot included |
| `Refinement` | `Spec => Serializable`: for any number of tills the concurrent requests implement `VoucherLedger`, but for second answers to a redeemed code |
| `RefreshTokensProofs!Invariance`, `RotationHolds`, `ExchangesOnce` | `IInv`, `OneLivePerLogin`, `ExchangedOnce` always hold, for any number of tabs and reloads |
| `ReplaysRefused`, `NoSignOutByItself` | `Spec => NoReplay`, `Spec => NoSpuriousSignOut` |
| `CatalogueProofs!Invariance`, `OffersHold`, `ListAgrees` | `IInv`, `OneOfferPerPlan`, `VisibleIsRedeemable` always hold |
| `AskedHolds`, `OrderHolds` | `Spec => OnlyAsAsked`, `Spec => OrderKept` |
| `WalkMisses`, `AdviceHolds` | `NoMiss`, `RecommendedEligible` always hold |
| `PoolBounded`, `TypeCorrect` | `PoolInv`, `TypeOK` always hold |
| `EventStreamProofs!Invariance`, `TypeCorrect` | `IInv`, `TypeOK` always hold |
| `TicketsOpenOnce`, `NewsDelivered` | `TicketOnce`, `NewsArrive` always hold |
| `TenantsProofs!Invariance` | `IInv` of `Tenants` and `Reports` always holds |
| `References`, `AccountsDiffer` | `NoDangling`, `AccountsUnique` always hold |
| `CodesStay`, `BenefitsStay` | `Spec => MerchantHistory`, `Spec => BenefitsOutlive` |
| `ReportsCover` | `LaterFiguresCover` always holds, for any limits and groupings |

*Seats.*  Any plans, users, invitations and requests, any `Kinds` and any
`MaxSeats`, from five assumptions: `KindsAssumption` (`Kinds` are known
operations), `MaxSeatsAssumption` (a natural number), `UsersAssumption`
(finitely many users), `PlansAssumption` (finitely many plans: `user_plan` is an
enum) and `NoneAssumption` (NULL is not a row).
`SeatsWithinAllocation` alone is not inductive: a commit writes
a counter computed earlier.  `IInv` adds, for each session, what it still knows
of rows it has read: an invitation being used is ACTIVE and held (`InviteHeld`),
an employee being changed is as read and held (`UserHeld`), each counter about
to be written is one off the committed one in a held row (`SeatsHeld` with
`TookSeat` and `GaveBack`), and the session is at a statement of its own
operation (`StepFits`).  Two lemmas carry the interference argument: a step that
leaves the rows others hold alone (`Kept`) preserves what the others know
(`OthersInv`), and the end of a session takes nothing from anybody
(`EndOfSession`).  Then there is one lemma per action.  For the refinement the
same invariant shows that at its commit each request finds what it read, so the
commit is the ledger's operation and every other statement a stutter.

The refinement is then used: `AccountsSafe` and `BooksHold` look at the ledger's
operations and not at the statements.  In `AccountsSafe` an operation of the ledger
makes an account from an invitation only while it is ACTIVE, and with it finishes
the invitation (`AccountsStep`).  In `BooksHold`, `Balanced` says of one plan
that its seats and its active employees move together; it needs the cardinality of
a set that gains or loses one employee, hence the finiteness of `Users`; and the
plan of somebody who holds a seat has a positive counter (`HeldSeat`), so that
giving the seat back lowers it.  `block_user` and
`unblock_user` change `is_active` without a seat: their commit is an exception of
`LedgerKept`, and whatever else is in flight with them is not.  A block only makes
the staff smaller (`BlockCovers`); of an unblock `StaffCovered` supposes that nobody
asks for it.  `SeatsCoverStaff` compares the active employees with the
seats given, each a pair of a plan and a number within it: so a seat more or less
is one element more or less (`SeatMore`, `SeatLess`), and no sum over the plans has
to be computed.  The proof goes over the ledger's operations (`CoverStep`): whoever
joins the staff brings a seat along, whoever gives back a seat leaves the staff,
and a change of plan takes a seat before it gives one back, so that the books can
go wrong between two plans, which is `SeatsDrift`, but not in total.

*Promo codes.*  Any benefits, employees, texts, vouchers and requests, from
`PromoKindsAssumption`, `PromoBoundsAssumption` (the bounds are natural
numbers), `PromoSetsAssumption` (finitely many vouchers and requests: both
limits are compared with counts), `PromoNoneAssumption` and `PromoRowAssumption`
(NULL is no row).  `IInv` says of each issuing session that it holds its
benefit's row, which still is open, offered to the plan and below both limits
(`BenefitHeld`), that the text it has inserted is nobody else's (`CodeHeld`),
and that it is at a statement of its operation (`StepFits`).  `Quiet` and
`SameCodes` carry the interference: what a step leaves alone for the others. At
the commit `OneMore` adds one to both counts, which had room when they were read
under the lock and which nobody else could raise since.  On the redeeming side
the status is read before the lock, so a till may answer for a code that is
redeemed already.  `RedeemedRow` says what such a commit writes: who has
confirmed it, over a row that is redeemed, which is `Overtaken`; any other
commit finds the row as read and is the ledger's (`ConfirmStep`, `BotStep`).
`ConfirmedHold` rests on `StaffInv`: a session that is about to redeem writes
both rows or, as the bot, the code alone, and neither takes back what the other
wrote.

*Refresh tokens.*  Any number of tabs, reloads, tokens, logins and requests, any
failure of Redis, lost answer and expiry, from `RefreshKindsAssumption`,
`RefreshSetsAssumption` and `RefreshNoneAssumption`.  The invariant has two parts.
`TokenInv` is about single tokens: one not issued yet is nowhere (`Unseen`), one that
was never contended is carried by one request (`CarriedOnce`) and not exchanged
while it is (`UnusedAsked`), and one the server would exchange was not exchanged,
unless Redis failed to note it (`Noted`).  From this follow `ExchangedOnce` and, with
`Noted` at the step that asks the list, `NoReplay`.  `LoginwiseInv` is about the
tokens of a login none of whose tokens was contended (`Calm`): no two requests carry
tokens of it (`Apart`), and the one carried or stored is its last (`LatestHeld`), so
a rotation replaces the only good one.  A login that is contended stays so
(`CalmBefore`), hence a step has to be considered for calm logins only.

*Catalogue.*  Any benefits, merchants, payloads and number of requests, from
`CatalogueBounds`, `CatalogueNone`, `CatalogueRequests` (a merchant's request is not
an employee's) and `CataloguePayloads` (a list of offers is not empty and names a
plan once, as `benefits/schemas.py` validates).  `OnePerPlan` is kept by the unique
constraint and not by a lock: `ReplacedInv` shows that offers inserted without a
clash differ from all that stay, those of other requests included, and that no
replacement leaves a benefit without any.  `EditFits` is what a request has checked
against the row it read; as only differing columns are written, a row unchanged
since then ends up as checked, which is `OrderKept`.

Three more invariants stand beside `IInv`, and `CatalogueRows` (a table is finite,
titles are ordered).  `WalksInv` is about somebody who leafs through the list while
it changes.  A benefit that has been visible all the time and shares its title with
none has a rank among the visible rows; as long as none was hidden this rank only
grows, so the pages read so far have shown the benefit or end before it
(`RankInSorted`, `PageRead`), and on the last page nothing is before it any more,
unless a row came between the count and the query (`PagesCover`, `LastPage`).
`HelpInv` says that what an assistant holds in memory are rows that were eligible
when it read them, each once (`ListedOnce`), whatever the answer of the model is;
`Chosen` filters it.  `PoolInv` says who holds a connection: nobody that waits, is
between two transactions or has been answered.

*Limiter.*  Any counters with positive limits, any positive `Window`, any routes
over the counters and any number of requests (`LimitAssumption`,
`WindowAssumption`, `RoutesAssumption`).  The point of `IInv` is `FullLife`: EXPIRE
comes after the INCR that made the key, so the time to live and the age of a
counter add up to at least a window, and `Over` ends no window early; a request
between INCR and EXPIRE may prolong a window, never cut one.  With it an admitted
`Hit` or `HitFresh` is the quota's `Admit`, a tick is `Tick` with the windows that
are over, and every other step a stutter.  `Composition` then says that a step of
the streams changes the limiter's world by `redis` at most, which is its `Switch`.

`AtMostTwice` counts the requests admitted in each last a ticks.
`BurstsCounted` makes it inductive: of the requests admitted since the key
appeared the counter has counted all (`Counted`, at most the limit), and those
before it fill one window, and one more for each loss of data meanwhile; while
the key is older than a, all of the last a ticks are of the first sort
(`Burst`).  An admission adds one to both sides (`OneMoreNow`, `BurstsGrow`), a
tick moves every count one tick on (`OneTickOn`, `BurstsAge`); when a window is
over, it has lived for `Window` ticks, so what is admitted in the last a of them
is within one limit: this is where `FullLife` is needed.  A loss of data, which
ends a window early, pays with one limit (`BurstsOutliveLoss`).

*Events.*  Any users, streams, writers, news and pool, and any troubles, from
`StreamsAssumption` (finitely many mounts: the bound on leaked connections counts
them).  `TicketGone` says where a ticket is in the life of its stream: it is
in Redis only while the page connects, and GETDEL takes it out with the one
acceptance.  `NoneMissing` is the invariant behind `NewsArrive`: what was
committed for the user since the subscription has been shown, waits in the inbox,
is about to be published by the writer that committed it, or is one whose
publication failed; `OwnOnly` is the converse, that nothing else is there.
`Spent` counts the streams that have ended, each of which leaks one connection at
most.

*Tenants and reports.*  Any rows, any inserting transactions, deletions, imports
and readers.  `TenantsSchema` says that rows have the columns of their table, that
a foreign key refers to a row of the right table and that NOT NULL columns are not
NULL: what PostgreSQL enforces of `001_initial_schema.py`.  `TenantsStanding` says
that the database is consistent at the start, `TenantsRequests` that a row is
inserted by one transaction, or by imports, which insert accounts of employees
only; `ReportsRows` that a code copies the benefit and the employee of its
redemption and a redemption the company of its employee, as `redeem_benefit` writes
them.  `TenantInv` says of
a row that is not committed that it refers to live rows or to rows of its own
transaction (`Held`): a deletion waits for those.  `Cascade` is applied as often as
the schema is deep, and the lemmas on it show that what is doomed is then closed
under the keys with CASCADE, table by table; so a key of a row that stays either
refers to a row that stays or is SET NULL, which is `NoDangling`.  `CutsAllowed`
limits the keys that are NULL to those of accounts and SET NULL ones, `Aimed` says
what a deletion in progress has loaded, `CodesKept` that a code loses its
redemption only with the company.  `ReportInv` carries the figures: after each of its
statements, what an earlier one counted was there (`Has`), and is counted by a
later one that left nothing out (`Shows`) or has gone since.  Of groups and limits it
needs only that a statement counts rows it joined, and all of them if it is not in
`partial`.

*Only model-checked:* liveness (`EveryRequestEnds`, `StartsAgain`, `StreamsEnd`),
which TLAPS does not treat under fairness.  Every invariant and action property
that a passing run checks is a theorem; `StaffCovered` alone has a hypothesis, and
section 5 tells what the code does without it.

## 7. Not modelled, and the plan

What remains worth proving, in this order:

1. **`CompanySeats`** with unblock: by how much the staff can exceed the seats.
2. **`RefreshTokens`** for contended logins: how many tokens of one can be good, in
   terms of the tabs that presented one at once.

Partly modelled, and what is left out of each:

* *invitations, issuing of codes*: the sweeps `expire_old_tokens` and
  `expire_old_codes`, which nothing calls; an invitation or a code is tested
  against its expiry where it is used, and that is modelled;
* *access tokens*: signatures, the RBAC table and the roles.  What matters to the
  other parts, that claims are older than the row, is in `PromoCodes`;
* *companies and merchants*: creation and renaming, single statements;
* *histories*: they page like the list in `Catalogue`, over rows of one owner;
* *analytics*: seats, numbers of employees, states of codes, and the
  formatting of reports; which rows the figures come from is modelled;
* *audit*: one INSERT in the caller's transaction, present exactly when that
  commits; its foreign keys are in `Tenants`.

Left out for good: the Telegram bot's and the web pages' formatting, demo data,
configuration, logging, the wording of errors, prompts and texts of the
assistants.
