---------------------------- MODULE CompanySeats ----------------------------
(***************************************************************************)
(* The requests that change a company's seats, employees and invitations,  *)
(* running concurrently, one action per SQL statement that another         *)
(* transaction can observe or wait for.                                    *)
(*                                                                         *)
(* PostgreSQL, READ COMMITTED: a statement reads the committed rows; a     *)
(* SELECT ... FOR UPDATE, an UPDATE or an INSERT of a unique key waits     *)
(* until no other transaction holds the row and then works on its latest   *)
(* committed version; what a transaction writes is private until it        *)
(* commits; commit, rollback and a lost connection release its rows.  A    *)
(* statement whose row stays locked by its own transaction is one step     *)
(* with the ORM assignments that follow it.                                *)
(*                                                                         *)
(* A request keeps the values it read (seen) and the counters it is going  *)
(* to write (counter, for the rows in written): SQLAlchemy sends the       *)
(* absolute value, not an increment.                                       *)
(***************************************************************************)
EXTENDS Integers, FiniteSets

CONSTANTS
  Plans, Users, Invites, MaxSeats, None,   \* as in SeatLedger
  Requests,   \* HTTP requests in flight at the same time
  Kinds       \* the operations the environment calls

AllKinds == {"register", "change", "deactivate", "activate", "block",
             "unblock", "import", "invite", "revoke", "allocate"}

ASSUME KindsAssumption == Kinds \subseteq AllKinds
ASSUME MaxSeatsAssumption == MaxSeats \in Nat
ASSUME UsersAssumption == IsFiniteSet(Users)
ASSUME PlansAssumption == IsFiniteSet(Plans)   \* an enumeration, UserPlan
ASSUME NoneAssumption ==
  /\ None \notin Plans
  /\ None \notin Users
  /\ None \notin Invites
  /\ None \notin Requests

VARIABLES
  sold, allocated, assigned, registered, planOf, active, origin,
  invite, terms, usedBy, lapsed,    \* committed rows, as in SeatLedger
  pc,         \* the next statement of a request
  job,        \* the operation and its arguments
  seen,       \* users.plan as the request read it
  counter,    \* assigned as the request is going to write it
  written,    \* the plan rows it is going to write
  userLock, planLock, inviteLock    \* the transaction holding a row, or None

Ledger == INSTANCE SeatLedger

seatVars == <<sold, allocated, assigned>>
userVars == <<registered, planOf, active, origin>>
inviteVars == <<invite, terms, usedBy, lapsed>>
dbVars == <<sold, allocated, assigned, registered, planOf, active, origin,
            invite, terms, usedBy, lapsed>>
lockVars == <<userLock, planLock, inviteLock>>
memVars == <<seen, counter, written>>
vars == <<sold, allocated, assigned, registered, planOf, active, origin,
          invite, terms, usedBy, lapsed,
          pc, job, seen, counter, written, userLock, planLock, inviteLock>>

Steps == {"idle", "lockInvite", "checkEmail", "insertUser", "lockUser",
          "readUser", "updateUser", "assign", "unassign",
          "readRow", "insertRow", "lockRow", "commit"}

Counts == -1..MaxSeats   \* arguments of set_allocated; below 0 is refused

Job(k, u, p, i, n) ==
  [kind |-> k, user |-> u, plan |-> p, invite |-> i, count |-> n]

NoJob == Job("none", None, None, None, 0)

\* The calls the environment can make.
Jobs ==
  {Job("register", u, None, i, 0) : u \in Users, i \in Invites}
    \cup {Job("change", u, p, None, 0) : u \in Users, p \in Plans}
    \cup {Job(k, u, None, None, 0) :
            k \in {"deactivate", "activate", "block", "unblock", "import"},
            u \in Users}
    \cup {Job("revoke", None, None, i, 0) : i \in Invites}
    \cup {Job("allocate", None, p, None, n) : p \in Plans, n \in Counts}

JobRecords ==
  [kind : AllKinds \cup {"none"}, user : Users \cup {None},
   plan : Plans \cup {None}, invite : Invites \cup {None}, count : Counts \cup {0}]

TypeOK ==
  /\ Ledger!DbTypeOK
  /\ pc \in [Requests -> Steps]
  /\ job \in [Requests -> JobRecords]
  /\ seen \in [Requests -> Plans \cup {None}]
  /\ counter \in [Requests -> [Plans -> Nat]]
  /\ written \in [Requests -> SUBSET Plans]
  /\ userLock \in [Users -> Requests \cup {None}]
  /\ planLock \in [Plans -> Requests \cup {None}]
  /\ inviteLock \in [Invites -> Requests \cup {None}]

NoCounters == [p \in Plans |-> 0]

Init ==
  /\ Ledger!Init
  /\ pc = [r \in Requests |-> "idle"]
  /\ job = [r \in Requests |-> NoJob]
  /\ seen = [r \in Requests |-> None]
  /\ counter = [r \in Requests |-> NoCounters]
  /\ written = [r \in Requests |-> {}]
  /\ userLock = [u \in Users |-> None]
  /\ planLock = [p \in Plans |-> None]
  /\ inviteLock = [i \in Invites |-> None]
-----------------------------------------------------------------------------
(* Mistakes the properties must notice: what a definition below, named at  *)
(* the right, would be after a plausible slip in the code.  No action uses *)
(* them.                                                                   *)

\* Released: get_session forgets to roll back.
StillHeld(lock, r) == lock

\* InviteFree: no FOR UPDATE on invite_tokens.
NoInviteLock(r) == TRUE

\* UserFree: no FOR UPDATE on users.
NoUserLock(r) == job[r].user \in registered

\* NothingToDo: a repeated deactivation gives back a second seat.
RepeatDeactivates(r) ==
  LET u == job[r].user IN
  \/ job[r].kind = "change" /\ planOf[u] = job[r].plan
  \/ job[r].kind = "activate" /\ (active[u] \/ planOf[u] = None)

\* AfterLock: activation takes no seat.
NoSeatToActivate(kind, plan) ==
  IF kind = "change" THEN "assign"
  ELSE IF kind = "activate" \/ plan = None THEN "commit" ELSE "unassign"

\* RowUnlocked: no FOR UPDATE on plan_allocations.
NoRowLock(p) == TRUE

\* AfterAssign: a change of plan keeps the old seat.
KeepsOldSeat(r) == "commit"

\* CountFits: seats already given out are not counted.
AnyCountFits(r) == TRUE

\* WrittenSeats: an account is created without its seat.
SeatlessRegistration(r) ==
  assigned' = [p \in Plans |->
                 IF p \in written[r] /\ job[r].kind # "register"
                 THEN counter[r][p] ELSE assigned[p]]
-----------------------------------------------------------------------------
(* Sessions (core/database.py, get_session). *)

At(r, step, kinds) == pc[r] = step /\ job[r].kind \in kinds
Goto(r, step) == pc' = [pc EXCEPT ![r] = step]

\* The rows of one table after a transaction released those it held.
Released(lock, r) ==
  [x \in DOMAIN lock |-> IF lock[x] = r THEN None ELSE lock[x]]

\* The session ends: its memory is gone and its rows are free.
End(r) ==
  /\ Goto(r, "idle")
  /\ job' = [job EXCEPT ![r] = NoJob]
  /\ seen' = [seen EXCEPT ![r] = None]
  /\ counter' = [counter EXCEPT ![r] = NoCounters]
  /\ written' = [written EXCEPT ![r] = {}]
  /\ userLock' = Released(userLock, r)
  /\ planLock' = Released(planLock, r)
  /\ inviteLock' = Released(inviteLock, r)

\* An exception, an early return, or a lost connection: nothing is written.
Rollback(r) == End(r) /\ UNCHANGED dbVars

FirstStep(kind) ==
  CASE kind \in {"register", "revoke"} -> "lockInvite"
    [] kind \in {"change", "deactivate", "activate"} -> "lockUser"
    [] kind \in {"block", "unblock", "import"} -> "readUser"
    [] kind = "allocate" -> "readRow"

Start(r) ==
  /\ pc[r] = "idle"
  /\ \E j \in Jobs :
       /\ j.kind \in Kinds
       /\ job' = [job EXCEPT ![r] = j]
       /\ Goto(r, FirstStep(j.kind))
  /\ UNCHANGED dbVars
  /\ UNCHANGED memVars
  /\ UNCHANGED lockVars
-----------------------------------------------------------------------------
(* Invitations: lock_and_validate_token, revoke_invite_token. *)

\* The row is free; FOR UPDATE returns its latest version.
InviteFree(r) == inviteLock[job[r].invite] = None

Mismatch(r) == terms[job[r].invite].email \notin {None, job[r].user}

\* Unknown or finished invitation.
RejectInvite(r) ==
  /\ At(r, "lockInvite", {"register", "revoke"})
  /\ InviteFree(r)
  /\ invite[job[r].invite] # "ACTIVE"
  /\ Rollback(r)

\* The status is flushed, InviteRejection raised, and the route commits.
ExpireInvite(r) ==
  /\ At(r, "lockInvite", {"register"})
  /\ InviteFree(r)
  /\ invite[job[r].invite] = "ACTIVE"
  /\ job[r].invite \in lapsed
  /\ invite' = [invite EXCEPT ![job[r].invite] = "EXPIRED"]
  /\ End(r)
  /\ UNCHANGED <<terms, usedBy, lapsed>>
  /\ UNCHANGED seatVars
  /\ UNCHANGED userVars

RejectEmail(r) ==
  /\ At(r, "lockInvite", {"register"})
  /\ InviteFree(r)
  /\ invite[job[r].invite] = "ACTIVE"
  /\ job[r].invite \notin lapsed
  /\ Mismatch(r)
  /\ Rollback(r)

LockInvite(r) ==
  /\ At(r, "lockInvite", {"register"})
  /\ InviteFree(r)
  /\ invite[job[r].invite] = "ACTIVE"
  /\ job[r].invite \notin lapsed
  /\ ~Mismatch(r)
  /\ inviteLock' = [inviteLock EXCEPT ![job[r].invite] = r]
  /\ Goto(r, "checkEmail")
  /\ UNCHANGED <<job, userLock, planLock>>
  /\ UNCHANGED dbVars
  /\ UNCHANGED memVars

\* Lock, status, commit; no other row is involved.
RevokeInvite(r) ==
  /\ At(r, "lockInvite", {"revoke"})
  /\ InviteFree(r)
  /\ invite[job[r].invite] = "ACTIVE"
  /\ invite' = [invite EXCEPT ![job[r].invite] = "REVOKED"]
  /\ End(r)
  /\ UNCHANGED <<terms, usedBy, lapsed>>
  /\ UNCHANGED seatVars
  /\ UNCHANGED userVars

\* One INSERT: the request cannot meet another transaction.
CreateInvite ==
  /\ "invite" \in Kinds
  /\ \E i \in Invites, t \in Ledger!Terms : Ledger!CreateInvite(i, t)
  /\ UNCHANGED <<pc, job>>
  /\ UNCHANGED memVars
  /\ UNCHANGED lockVars

Lapse ==
  /\ \E i \in Invites : i \notin lapsed /\ Ledger!Lapse(i)
  /\ UNCHANGED <<pc, job>>
  /\ UNCHANGED memVars
  /\ UNCHANGED lockVars
-----------------------------------------------------------------------------
(* Accounts: the checks of register_by_invite, the lock taken by           *)
(* _get_employee_for_update, the unlocked read of block_user.              *)

\* SELECT users.id WHERE email: no lock, committed rows only.
CheckEmail(r) ==
  /\ pc[r] = "checkEmail"
  /\ IF job[r].user \in registered
       THEN Rollback(r)
       ELSE /\ Goto(r, "insertUser")
            /\ UNCHANGED <<job>>
            /\ UNCHANGED dbVars
            /\ UNCHANGED memVars
            /\ UNCHANGED lockVars

\* The unique index makes the INSERT wait for one of the same email and
\* fail if that one committed.
DuplicateUser(r) ==
  /\ pc[r] = "insertUser"
  /\ userLock[job[r].user] = None
  /\ job[r].user \in registered
  /\ Rollback(r)

\* For a registration the invitation is consumed in the same flush order;
\* its row is already held.
InsertUser(r) ==
  /\ pc[r] = "insertUser"
  /\ userLock[job[r].user] = None
  /\ job[r].user \notin registered
  /\ userLock' = [userLock EXCEPT ![job[r].user] = r]
  /\ Goto(r, IF job[r].kind = "register" THEN "assign" ELSE "commit")
  /\ UNCHANGED <<job, planLock, inviteLock>>
  /\ UNCHANGED dbVars
  /\ UNCHANGED memVars

\* FOR UPDATE does not wait for a row that is not committed: NotFound.
EmployeeNotFound(r) ==
  /\ At(r, "lockUser", {"change", "deactivate", "activate"})
  /\ job[r].user \notin registered
  /\ Rollback(r)

UserFree(r) == job[r].user \in registered /\ userLock[job[r].user] = None

\* The same plan again, already (in)active, no plan to activate.
NothingToDo(r) ==
  LET u == job[r].user IN
  \/ job[r].kind = "change" /\ planOf[u] = job[r].plan
  \/ job[r].kind = "deactivate" /\ ~active[u]
  \/ job[r].kind = "activate" /\ (active[u] \/ planOf[u] = None)

RefuseEmployee(r) ==
  /\ At(r, "lockUser", {"change", "deactivate", "activate"})
  /\ UserFree(r)
  /\ NothingToDo(r)
  /\ Rollback(r)

\* The step after the employee is locked and found fit.
AfterLock(kind, plan) ==
  IF kind # "deactivate" THEN "assign"
  ELSE IF plan = None THEN "commit" ELSE "unassign"

LockEmployee(r) ==
  /\ At(r, "lockUser", {"change", "deactivate", "activate"})
  /\ UserFree(r)
  /\ ~NothingToDo(r)
  /\ userLock' = [userLock EXCEPT ![job[r].user] = r]
  /\ seen' = [seen EXCEPT ![r] = planOf[job[r].user]]
  /\ Goto(r, AfterLock(job[r].kind, planOf[job[r].user]))
  /\ UNCHANGED <<job, counter, written, planLock, inviteLock>>
  /\ UNCHANGED dbVars

\* What the unlocked read of block, unblock and of the Bitrix24 import finds
\* leaves nothing to write: no such account, the flag already has the value
\* (no UPDATE is sent), or the imported address exists (only its names
\* change).
NoUpdate(r) ==
  LET u == job[r].user IN
  \/ job[r].kind = "import" /\ u \in registered
  \/ job[r].kind # "import" /\ u \notin registered
  \/ job[r].kind = "block" /\ ~active[u]
  \/ job[r].kind = "unblock" /\ active[u]

ReadUserNoWrite(r) == pc[r] = "readUser" /\ NoUpdate(r) /\ Rollback(r)

ReadUser(r) ==
  /\ pc[r] = "readUser"
  /\ ~NoUpdate(r)
  /\ Goto(r, IF job[r].kind = "import" THEN "insertUser" ELSE "updateUser")
  /\ UNCHANGED job
  /\ UNCHANGED dbVars
  /\ UNCHANGED memVars
  /\ UNCHANGED lockVars

\* UPDATE users SET is_active, sent and committed by db.commit(): whatever
\* the row says by then is overwritten.
UpdateUser(r) ==
  /\ pc[r] = "updateUser"
  /\ userLock[job[r].user] = None
  /\ active' = [active EXCEPT ![job[r].user] = (job[r].kind = "unblock")]
  /\ End(r)
  /\ UNCHANGED <<registered, planOf, origin>>
  /\ UNCHANGED seatVars
  /\ UNCHANGED inviteVars
-----------------------------------------------------------------------------
(* Seats: assign_seat, unassign_seat, set_allocated. *)

\* The plan whose seat is taken: of the invitation, of the request, or the
\* employee's own.
PlanToTake(r) ==
  IF job[r].kind = "register" THEN terms[job[r].invite].plan
  ELSE IF job[r].kind = "change" THEN job[r].plan ELSE seen[r]

RowUnlocked(p) == planLock[p] = None

\* get_allocation found a row with something available.
SeatAvailable(p) == p \in sold /\ allocated[p] - assigned[p] > 0

\* There is no row to wait for, or nothing is available in it.
NoSeats(r) ==
  LET p == PlanToTake(r) IN
  /\ pc[r] = "assign"
  /\ p \in sold => RowUnlocked(p)
  /\ ~SeatAvailable(p)
  /\ Rollback(r)

\* A change of plan then gives back the old seat.
AfterAssign(r) ==
  IF job[r].kind = "change" /\ seen[r] # None THEN "unassign" ELSE "commit"

AssignSeat(r) ==
  LET p == PlanToTake(r) IN
  /\ pc[r] = "assign"
  /\ RowUnlocked(p)
  /\ SeatAvailable(p)
  /\ planLock' = [planLock EXCEPT ![p] = r]
  /\ counter' = [counter EXCEPT ![r][p] = assigned[p] + 1]
  /\ written' = [written EXCEPT ![r] = @ \cup {p}]
  /\ Goto(r, AfterAssign(r))
  /\ UNCHANGED <<job, seen, userLock, inviteLock>>
  /\ UNCHANGED dbVars

\* Nothing to give back: a zero counter, under the lock.  (That the row
\* exists at all is PlansHaveRows.)
NoSeatHeld(r) ==
  /\ pc[r] = "unassign"
  /\ RowUnlocked(seen[r])
  /\ assigned[seen[r]] = 0
  /\ planLock' = [planLock EXCEPT ![seen[r]] = r]
  /\ Goto(r, "commit")
  /\ UNCHANGED <<job, userLock, inviteLock>>
  /\ UNCHANGED dbVars
  /\ UNCHANGED memVars

UnassignSeat(r) ==
  LET p == seen[r] IN
  /\ pc[r] = "unassign"
  /\ RowUnlocked(p)
  /\ assigned[p] > 0
  /\ planLock' = [planLock EXCEPT ![p] = r]
  /\ counter' = [counter EXCEPT ![r][p] = assigned[p] - 1]
  /\ written' = [written EXCEPT ![r] = @ \cup {p}]
  /\ Goto(r, "commit")
  /\ UNCHANGED <<job, seen, userLock, inviteLock>>
  /\ UNCHANGED dbVars

\* set_allocated: a negative count is refused, a missing row is created.
ReadRow(r) ==
  /\ pc[r] = "readRow"
  /\ IF job[r].count < 0
       THEN Rollback(r)
       ELSE /\ Goto(r, IF job[r].plan \in sold THEN "lockRow" ELSE "insertRow")
            /\ UNCHANGED job
            /\ UNCHANGED dbVars
            /\ UNCHANGED memVars
            /\ UNCHANGED lockVars

DuplicateRow(r) ==
  /\ pc[r] = "insertRow"
  /\ planLock[job[r].plan] = None
  /\ job[r].plan \in sold
  /\ Rollback(r)

InsertRow(r) ==
  /\ pc[r] = "insertRow"
  /\ planLock[job[r].plan] = None
  /\ job[r].plan \notin sold
  /\ planLock' = [planLock EXCEPT ![job[r].plan] = r]
  /\ Goto(r, "lockRow")
  /\ UNCHANGED <<job, userLock, inviteLock>>
  /\ UNCHANGED dbVars
  /\ UNCHANGED memVars

RowFree(r) == planLock[job[r].plan] \in {None, r}

CountFits(r) == job[r].count >= assigned[job[r].plan]

TooFewSeats(r) ==
  /\ pc[r] = "lockRow"
  /\ RowFree(r)
  /\ ~CountFits(r)
  /\ Rollback(r)

LockRow(r) ==
  /\ pc[r] = "lockRow"
  /\ RowFree(r)
  /\ CountFits(r)
  /\ planLock' = [planLock EXCEPT ![job[r].plan] = r]
  /\ Goto(r, "commit")
  /\ UNCHANGED <<job, userLock, inviteLock>>
  /\ UNCHANGED dbVars
  /\ UNCHANGED memVars
-----------------------------------------------------------------------------
(* The route's db.commit(). *)

WrittenSeats(r) ==
  assigned' = [p \in Plans |->
                 IF p \in written[r] THEN counter[r][p] ELSE assigned[p]]

CommitRegister(r) ==
  LET u == job[r].user
      i == job[r].invite IN
  /\ At(r, "commit", {"register"})
  /\ WrittenSeats(r)
  /\ registered' = registered \cup {u}
  /\ planOf' = [planOf EXCEPT ![u] = terms[i].plan]
  /\ active' = [active EXCEPT ![u] = TRUE]
  /\ origin' = [origin EXCEPT ![u] = i]
  /\ invite' = [invite EXCEPT ![i] = "USED"]
  /\ usedBy' = [usedBy EXCEPT ![i] = u]
  /\ End(r)
  /\ UNCHANGED <<sold, allocated, terms, lapsed>>

CommitChange(r) ==
  /\ At(r, "commit", {"change"})
  /\ WrittenSeats(r)
  /\ planOf' = [planOf EXCEPT ![job[r].user] = job[r].plan]
  /\ End(r)
  /\ UNCHANGED <<sold, allocated, registered, active, origin>>
  /\ UNCHANGED inviteVars

CommitActive(r) ==
  /\ At(r, "commit", {"deactivate", "activate"})
  /\ WrittenSeats(r)
  /\ active' = [active EXCEPT ![job[r].user] = (job[r].kind = "activate")]
  /\ End(r)
  /\ UNCHANGED <<sold, allocated, registered, planOf, origin>>
  /\ UNCHANGED inviteVars

CommitImport(r) ==
  /\ At(r, "commit", {"import"})
  /\ registered' = registered \cup {job[r].user}
  /\ planOf' = [planOf EXCEPT ![job[r].user] = None]
  /\ active' = [active EXCEPT ![job[r].user] = TRUE]
  /\ origin' = [origin EXCEPT ![job[r].user] = None]
  /\ End(r)
  /\ UNCHANGED seatVars
  /\ UNCHANGED inviteVars

CommitAllocate(r) ==
  /\ At(r, "commit", {"allocate"})
  /\ sold' = sold \cup {job[r].plan}
  /\ allocated' = [allocated EXCEPT ![job[r].plan] = job[r].count]
  /\ End(r)
  /\ UNCHANGED assigned
  /\ UNCHANGED userVars
  /\ UNCHANGED inviteVars
-----------------------------------------------------------------------------
(* Waiting, the deadlock detector, lost connections. *)

\* The transaction that holds the row r's next statement needs, or None.
Blocker(r) ==
  CASE pc[r] = "lockInvite" -> inviteLock[job[r].invite]
    [] pc[r] \in {"insertUser", "updateUser"} -> userLock[job[r].user]
    [] pc[r] = "lockUser" /\ job[r].user \in registered -> userLock[job[r].user]
    [] pc[r] = "assign" /\ PlanToTake(r) \in sold -> planLock[PlanToTake(r)]
    [] pc[r] = "unassign" -> planLock[seen[r]]
    [] pc[r] = "insertRow" -> planLock[job[r].plan]
    [] pc[r] = "lockRow" /\ ~RowFree(r) -> planLock[job[r].plan]
    [] OTHER -> None

\* r waits for itself through others.
InWaitCycle(r) ==
  \E D \in SUBSET Requests :
    /\ r \in D
    /\ \A s \in D : Blocker(s) \in D /\ \E t \in D : Blocker(t) = s

DetectDeadlock(r) == InWaitCycle(r) /\ Rollback(r)

Disconnect(r) == pc[r] # "idle" /\ Rollback(r)

\* What request r does by itself.
Advance(r) ==
  \/ RejectInvite(r) \/ ExpireInvite(r) \/ RejectEmail(r)
  \/ LockInvite(r) \/ RevokeInvite(r)
  \/ CheckEmail(r) \/ DuplicateUser(r) \/ InsertUser(r)
  \/ EmployeeNotFound(r) \/ RefuseEmployee(r) \/ LockEmployee(r)
  \/ ReadUserNoWrite(r) \/ ReadUser(r) \/ UpdateUser(r)
  \/ NoSeats(r) \/ AssignSeat(r) \/ NoSeatHeld(r) \/ UnassignSeat(r)
  \/ ReadRow(r) \/ DuplicateRow(r) \/ InsertRow(r)
  \/ TooFewSeats(r) \/ LockRow(r)
  \/ CommitRegister(r) \/ CommitChange(r) \/ CommitActive(r)
  \/ CommitImport(r) \/ CommitAllocate(r)

Next ==
  \/ \E r \in Requests : Start(r) \/ Advance(r) \/ DetectDeadlock(r) \/ Disconnect(r)
  \/ CreateInvite
  \/ Lapse

Spec == Init /\ [][Next]_vars

\* PostgreSQL queues the waiters of a row, so a row that keeps becoming free
\* is granted; the event loop runs every handler; the detector runs after
\* deadlock_timeout.  Nobody has to send a request or to lose a connection.
Fairness == \A r \in Requests : SF_vars(Advance(r)) /\ WF_vars(DetectDeadlock(r))

FairSpec == Spec /\ Fairness
-----------------------------------------------------------------------------
(* Properties. *)

\* Never more seats given out than bought, and never a negative number, for
\* any mixture of requests: the CHECK constraints of plans/models.py never
\* have to reject a statement of these services.
SeatsWithinAllocation == \A p \in Plans : assigned[p] \in 0..allocated[p]

\* An employee is never on a plan the company has no row for, so giving a
\* seat back always finds the row it locks (plans/service.py:120-121).
PlansHaveRows == \A u \in registered : planOf[u] \in sold \cup {None}

\* A counter about to be written was computed from the committed one and is
\* protected by the row lock, so no seat is lost or given twice by two
\* requests that read the same value (plans/service.py:6-9, 51-53).
NoLostUpdate ==
  \A r \in Requests : \A p \in written[r] :
    /\ planLock[p] = r
    /\ counter[r][p] \in {assigned[p] - 1, assigned[p] + 1}
    /\ counter[r][p] \in 0..allocated[p]

\* The books are exact: a seat is assigned for each active employee of the
\* plan and for nobody else (plans/models.py:4).
ExactLedger == \A p \in Plans : assigned[p] = Cardinality(Ledger!Holders(p))

\* No request of a company administrator and no registration makes exact books
\* wrong, whatever else is in flight (plans/service.py:6-9).  Two requests do,
\* by what they are: a change of plan of a deactivated employee, and the
\* platform administrator's switch of an account.
LedgerKept ==
  [][ /\ ExactLedger
      /\ \A u \in registered : ~active[u] => planOf'[u] = planOf[u]
      /\ \A r \in Requests : ~UpdateUser(r)
      => ExactLedger']_vars

\* No plan has more active employees than seats bought for it.
ActiveWithinAllocation ==
  \A p \in Plans : Cardinality(Ledger!Holders(p)) <= allocated[p]

Staff == {u \in registered : active[u] /\ planOf[u] # None}

\* The seats assigned over all plans, when a[p] are assigned of plan p.
SeatsGiven(a) == UNION {{p} \X (1..a[p]) : p \in Plans}

\* Nobody is active in the company without a seat being paid for somewhere:
\* whatever a company administrator does, and whomever the platform blocks, the
\* seats assigned over all plans cover the active employees who have a plan.
\* (It is per plan that they may not: see ActiveWithinAllocation.)
SeatsCoverStaff == Cardinality(Staff) <= Cardinality(SeatsGiven(assigned))

\* An invitation makes at most one account, however many people present it at
\* once: of the address it is bound to, and the one that its row names as its
\* user; it has made one if and only if it is used (invites/service.py:64-92).
OneAccountPerInvite ==
  /\ \A u, v \in registered : origin[u] # None /\ origin[u] = origin[v] => u = v
  /\ \A u \in registered : origin[u] # None =>
       /\ usedBy[origin[u]] = u
       /\ terms[origin[u]].email \in {None, u}
  /\ \A i \in Invites : invite[i] = "USED" <=> \E u \in registered : origin[u] = i

\* A used, revoked or expired invitation keeps its status and its user,
\* whatever was in flight when it was finished.
FinishedInvitesStay ==
  [][\A i \in Invites :
       invite[i] \in {"USED", "EXPIRED", "REVOKED"} =>
         invite'[i] = invite[i] /\ usedBy'[i] = usedBy[i]]_vars

\* Every request gets an answer: two requests that wait for each other's
\* rows do not wait forever, and no lock outlives its session.
EveryRequestEnds == \A r \in Requests : pc[r] # "idle" ~> pc[r] = "idle"

\* The concurrent requests amount to the one-at-a-time operations.
Serializable == Ledger!Spec
-----------------------------------------------------------------------------
(* The inductive invariant: what a session that is past a statement knows  *)
(* about the rows it has read, because it still holds them.                *)

RegisterLike == {"register", "import"}
EmployeeKinds == {"change", "deactivate", "activate"}
SeatTakers == {"register", "change", "activate"}
Committers == {"register", "import", "change", "deactivate", "activate", "allocate"}

\* The arguments an operation needs are there.
JobFits(j) ==
  /\ j.kind \in AllKinds
  /\ j.kind \notin {"invite", "revoke", "allocate"} => j.user \in Users
  /\ j.kind \in {"register", "revoke"} => j.invite \in Invites
  /\ j.kind \in {"change", "allocate"} => j.plan \in Plans

\* A session is at a statement of its own operation.
StepFits(r) ==
  /\ pc[r] # "idle" => JobFits(job[r])
  /\ pc[r] = "lockInvite" => job[r].kind \in {"register", "revoke"}
  /\ pc[r] = "checkEmail" => job[r].kind = "register"
  /\ pc[r] = "insertUser" => job[r].kind \in RegisterLike
  /\ pc[r] = "lockUser" => job[r].kind \in EmployeeKinds
  /\ pc[r] = "readUser" => job[r].kind \in {"block", "unblock", "import"}
  /\ pc[r] = "updateUser" => /\ job[r].kind \in {"block", "unblock"}
                             /\ job[r].user \in registered
  /\ pc[r] = "assign" => job[r].kind \in SeatTakers
  /\ pc[r] = "unassign" => job[r].kind \in {"change", "deactivate"}
  /\ pc[r] \in {"readRow", "insertRow", "lockRow"} => job[r].kind = "allocate"
  /\ pc[r] = "commit" => job[r].kind \in Committers

\* A registration holds a usable invitation since it validated it.
InviteHeld(r) ==
  job[r].kind = "register" /\ pc[r] \in {"checkEmail", "insertUser", "assign", "commit"}
    => /\ inviteLock[job[r].invite] = r
       /\ invite[job[r].invite] = "ACTIVE"
       /\ terms[job[r].invite].email \in {None, job[r].user}

\* An account about to be created does not exist yet; an employee about to
\* be changed is still what the session read.
UserHeld(r) ==
  pc[r] \in {"assign", "unassign", "commit"} =>
    /\ job[r].kind \in RegisterLike => /\ userLock[job[r].user] = r
                                      /\ job[r].user \notin registered
    /\ job[r].kind \in EmployeeKinds =>
         /\ userLock[job[r].user] = r
         /\ job[r].user \in registered
         /\ seen[r] = planOf[job[r].user]
         /\ job[r].kind = "change" => seen[r] # job[r].plan
         /\ job[r].kind = "deactivate" => active[job[r].user]
         /\ job[r].kind = "activate" => ~active[job[r].user] /\ seen[r] # None

TookSeat(r, p) ==
  /\ p \in written[r] /\ p \in sold /\ planLock[p] = r
  /\ counter[r][p] = assigned[p] + 1
  /\ assigned[p] < allocated[p]

GaveBack(r, p) ==
  /\ planLock[p] = r
  /\ assigned[p] > 0 => p \in written[r] /\ counter[r][p] = assigned[p] - 1
  /\ assigned[p] = 0 => p \notin written[r]

\* The counters about to be written belong to the operation.
SeatsHeld(r) ==
  /\ pc[r] \notin {"unassign", "commit"} => written[r] = {}
  /\ pc[r] = "unassign" => seen[r] # None
  /\ pc[r] = "unassign" /\ job[r].kind = "deactivate" => written[r] = {}
  /\ pc[r] = "unassign" /\ job[r].kind = "change" =>
       written[r] = {job[r].plan} /\ TookSeat(r, job[r].plan)
  /\ pc[r] = "commit" /\ job[r].kind \in {"import", "allocate"} => written[r] = {}
  /\ pc[r] = "commit" /\ job[r].kind \in {"register", "activate"} =>
       written[r] = {PlanToTake(r)} /\ TookSeat(r, PlanToTake(r))
  /\ pc[r] = "commit" /\ job[r].kind \in {"change", "deactivate"} =>
       /\ written[r] \subseteq {job[r].plan, seen[r]} \cap Plans
       /\ job[r].kind = "change" => TookSeat(r, job[r].plan)
       /\ job[r].kind = "deactivate" => written[r] \subseteq {seen[r]}
       /\ seen[r] # None => GaveBack(r, seen[r])
  /\ pc[r] = "commit" /\ job[r].kind = "allocate" =>
       /\ planLock[job[r].plan] = r
       /\ job[r].count >= assigned[job[r].plan]

SessionInv(r) == StepFits(r) /\ InviteHeld(r) /\ UserHeld(r) /\ SeatsHeld(r)

\* The invariant that Next preserves.
IInv == /\ TypeOK
        /\ SeatsWithinAllocation
        /\ PlansHaveRows
        /\ \A r \in Requests : SessionInv(r)
=============================================================================
