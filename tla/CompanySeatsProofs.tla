------------------------ MODULE CompanySeatsProofs --------------------------
(***************************************************************************)
(* What holds of the concurrent requests for any number of plans, users,   *)
(* invitations, requests and seats.                                        *)
(***************************************************************************)
EXTENDS CompanySeats, FiniteSetTheorems, TLAPS

(***************************************************************************)
(* What a step of request r leaves alone: the other sessions, and every    *)
(* row another session holds.                                              *)
(***************************************************************************)
OthersKept(r) ==
  \A s \in Requests \ {r} :
    /\ pc'[s] = pc[s] /\ job'[s] = job[s] /\ seen'[s] = seen[s]
    /\ counter'[s] = counter[s] /\ written'[s] = written[s]

UsersKept(r) ==
  \A u \in Users : userLock[u] \notin {r, None} =>
    /\ userLock'[u] = userLock[u]
    /\ u \in registered' <=> u \in registered
    /\ planOf'[u] = planOf[u] /\ active'[u] = active[u]

SeatsKept(r) ==
  \A p \in Plans :
    /\ p \in sold => p \in sold'
    /\ planLock[p] \notin {r, None} =>
         /\ planLock'[p] = planLock[p]
         /\ assigned'[p] = assigned[p] /\ allocated'[p] = allocated[p]

InvitesKept(r) ==
  \A i \in Invites : inviteLock[i] \notin {r, None} =>
    /\ inviteLock'[i] = inviteLock[i]
    /\ invite'[i] = invite[i] /\ terms'[i] = terms[i]

Kept(r) == /\ OthersKept(r) /\ UsersKept(r) /\ SeatsKept(r) /\ InvitesKept(r)
           /\ registered \subseteq registered'

\* Another session still knows what it knew.
LEMMA OthersInv ==
  ASSUME NEW r \in Requests, NEW s \in Requests, s # r,
         TypeOK, Kept(r), SessionInv(s)
  PROVE  SessionInv(s)'
<1> USE NoneAssumption DEF Kept, OthersKept
<1>1. StepFits(s)'
  BY DEF SessionInv, StepFits, JobFits
<1>2. InviteHeld(s)'
  BY DEF SessionInv, InviteHeld, InvitesKept, StepFits, JobFits
<1>3. UserHeld(s)'
  BY DEF SessionInv, UserHeld, UsersKept, StepFits, JobFits, RegisterLike, EmployeeKinds
<1>4. SeatsHeld(s)'
  <2>1. pc[s] = "commit" => StepFits(s) /\ InviteHeld(s) /\ UserHeld(s) /\ SeatsHeld(s)
    BY DEF SessionInv
  <2>2. CASE pc[s] = "unassign"
    <3>1. seen[s] \in Plans /\ job[s].kind \in {"change", "deactivate"}
          /\ (job[s].kind = "change" => job[s].plan \in Plans)
      BY <2>2 DEF SessionInv, StepFits, JobFits, SeatsHeld, TypeOK
    <3> QED BY <2>2, <3>1 DEF SessionInv, SeatsHeld, TookSeat, SeatsKept
  <2>3. CASE pc[s] = "commit" /\ job[s].kind \in {"register", "activate"}
    <3>1. PlanToTake(s)' = PlanToTake(s)
      BY <2>1, <2>3 DEF PlanToTake, InviteHeld, InvitesKept, StepFits, JobFits
    <3>2. PlanToTake(s) \in Plans
      <4>1. CASE job[s].kind = "register"
        <5>1. terms[job[s].invite] \in Ledger!Terms
          BY <2>1, <2>3, <4>1 DEF InviteHeld, StepFits, JobFits, TypeOK, Ledger!DbTypeOK
        <5> QED BY <4>1, <5>1 DEF PlanToTake, Ledger!Terms
      <4>2. CASE job[s].kind = "activate"
        BY <2>1, <2>3, <4>2 DEF PlanToTake, UserHeld, EmployeeKinds, TypeOK
      <4> QED BY <2>3, <4>1, <4>2
    <3> QED BY <2>1, <2>3, <3>1, <3>2 DEF SeatsHeld, TookSeat, SeatsKept
  <2>4. CASE pc[s] = "commit" /\ job[s].kind \in {"change", "deactivate"}
    <3>1. seen[s] \in Plans \cup {None} /\ (job[s].kind = "change" => job[s].plan \in Plans)
      BY <2>1, <2>4 DEF StepFits, JobFits, TypeOK
    <3>2. seen[s] # None => GaveBack(s, seen[s])'
      BY <2>1, <2>4, <3>1 DEF SeatsHeld, GaveBack, SeatsKept
    <3>3. job[s].kind = "change" => TookSeat(s, job[s].plan)'
      BY <2>1, <2>4, <3>1 DEF SeatsHeld, TookSeat, SeatsKept
    <3> QED BY <2>1, <2>4, <3>2, <3>3 DEF SeatsHeld
  <2>5. CASE pc[s] = "commit" /\ job[s].kind \in {"import", "allocate"}
    BY <2>1, <2>5 DEF StepFits, JobFits, SeatsHeld, SeatsKept
  <2>6. CASE pc[s] \notin {"unassign", "commit"}
    BY <2>6 DEF SessionInv, SeatsHeld
  <2> QED
    BY <2>1, <2>2, <2>3, <2>4, <2>5, <2>6 DEF StepFits, Committers
<1> QED BY <1>1, <1>2, <1>3, <1>4 DEF SessionInv

\* The invariant after a step, from its effect on the acting session.
LEMMA Assemble ==
  ASSUME NEW r \in Requests, IInv, Kept(r),
         TypeOK', SeatsWithinAllocation', PlansHaveRows', SessionInv(r)'
  PROVE  IInv'
BY OthersInv DEF IInv

\* Without a change of committed rows their part of the invariant stays.
LEMMA DbUnchanged ==
  ASSUME IInv, UNCHANGED dbVars
  PROVE  Ledger!DbTypeOK' /\ SeatsWithinAllocation' /\ PlansHaveRows'
BY DEF IInv, TypeOK, dbVars, Ledger!DbTypeOK, SeatsWithinAllocation, PlansHaveRows

\* A statement that only reads, waits for and takes rows.
LEMMA ReadingStep ==
  ASSUME NEW r \in Requests, IInv, Kept(r), UNCHANGED dbVars, SessionInv(r)',
         pc' \in [Requests -> Steps], job' \in [Requests -> JobRecords],
         seen' \in [Requests -> Plans \cup {None}],
         counter' \in [Requests -> [Plans -> Nat]],
         written' \in [Requests -> SUBSET Plans],
         userLock' \in [Users -> Requests \cup {None}],
         planLock' \in [Plans -> Requests \cup {None}],
         inviteLock' \in [Invites -> Requests \cup {None}]
  PROVE  IInv'
BY DbUnchanged, Assemble DEF TypeOK

\* The end of a session takes nothing from the others and leaves it idle.
LEMMA EndOfSession ==
  ASSUME NEW r \in Requests, TypeOK, End(r)
  PROVE  /\ pc' \in [Requests -> Steps] /\ job' \in [Requests -> JobRecords]
         /\ seen' \in [Requests -> Plans \cup {None}]
         /\ counter' \in [Requests -> [Plans -> Nat]]
         /\ written' \in [Requests -> SUBSET Plans]
         /\ userLock' \in [Users -> Requests \cup {None}]
         /\ planLock' \in [Plans -> Requests \cup {None}]
         /\ inviteLock' \in [Invites -> Requests \cup {None}]
         /\ OthersKept(r)
         /\ SessionInv(r)'
         /\ \A u \in Users : userLock[u] \notin {r, None} => userLock'[u] = userLock[u]
         /\ \A p \in Plans : planLock[p] \notin {r, None} => planLock'[p] = planLock[p]
         /\ \A i \in Invites :
              inviteLock[i] \notin {r, None} => inviteLock'[i] = inviteLock[i]
<1> USE NoneAssumption DEF End, Released, Goto, TypeOK
<1>1. job' \in [Requests -> JobRecords]
  BY DEF NoJob, Job, JobRecords
<1>2. pc' \in [Requests -> Steps] /\ seen' \in [Requests -> Plans \cup {None}]
      /\ written' \in [Requests -> SUBSET Plans]
  BY DEF Steps
<1>3. counter' \in [Requests -> [Plans -> Nat]]
  BY DEF NoCounters
<1>4. OthersKept(r)
  BY DEF OthersKept
<1>5. SessionInv(r)'
  BY DEF SessionInv, StepFits, InviteHeld, UserHeld, SeatsHeld
<1> QED BY <1>1, <1>2, <1>3, <1>4, <1>5

\* An exception, an early return or a lost connection.
LEMMA RollbackInv ==
  ASSUME NEW r \in Requests, IInv, Rollback(r)
  PROVE  IInv'
<1>1. Kept(r)
  BY EndOfSession DEF IInv, Rollback, Kept, UsersKept, SeatsKept, InvitesKept, dbVars
<1> QED BY <1>1, EndOfSession, ReadingStep DEF IInv, Rollback

\* A request arrives.
LEMMA StartInv ==
  ASSUME NEW r \in Requests, IInv, Start(r)
  PROVE  IInv'
<1> PICK j \in Jobs : /\ j.kind \in Kinds
                      /\ job' = [job EXCEPT ![r] = j]
                      /\ Goto(r, FirstStep(j.kind))
  BY DEF Start
<1>1. JobFits(j) /\ j \in JobRecords /\ j.kind \in AllKinds \ {"invite"}
  BY DEF Jobs, Job, JobFits, AllKinds, JobRecords, Counts
<1>2. Kept(r)
  BY DEF Start, Goto, Kept, OthersKept, UsersKept, SeatsKept, InvitesKept,
         dbVars, memVars, lockVars, IInv, TypeOK
<1>3. pc' \in [Requests -> Steps] /\ job' \in [Requests -> JobRecords]
  BY <1>1 DEF Goto, FirstStep, Steps, IInv, TypeOK, AllKinds
<1>4. SessionInv(r)'
  <2>1. pc'[r] = FirstStep(j.kind) /\ job'[r] = j /\ written'[r] = {}
    BY DEF Start, Goto, memVars, IInv, TypeOK, SessionInv, SeatsHeld
  <2> QED
    BY <1>1, <2>1 DEF SessionInv, StepFits, InviteHeld, UserHeld, SeatsHeld,
         FirstStep, AllKinds, EmployeeKinds
<1> QED
  BY <1>2, <1>3, <1>4, ReadingStep DEF Start, memVars, lockVars, IInv, TypeOK
-----------------------------------------------------------------------------
(* The statements that read and lock. *)

\* lock_and_validate_token takes a usable invitation.
LEMMA LockInviteInv ==
  ASSUME NEW r \in Requests, IInv, LockInvite(r)
  PROVE  IInv'
<1> USE NoneAssumption DEF LockInvite, At, Goto, memVars
<1>1. job[r].invite \in Invites /\ written[r] = {}
  BY DEF IInv, SessionInv, StepFits, JobFits, SeatsHeld
<1>2. Kept(r)
  BY <1>1 DEF IInv, TypeOK, Kept, OthersKept, UsersKept, SeatsKept, InvitesKept, dbVars, InviteFree
<1>3. SessionInv(r)'
  BY <1>1 DEF IInv, TypeOK, SessionInv, StepFits, InviteHeld, UserHeld, SeatsHeld,
              JobFits, dbVars, Mismatch
<1> QED BY <1>2, <1>3, ReadingStep DEF IInv, TypeOK, Steps

\* register_by_invite finds the email free or refuses.
LEMMA CheckEmailInv ==
  ASSUME NEW r \in Requests, IInv, CheckEmail(r)
  PROVE  IInv'
<1>1. CASE job[r].user \in registered
  BY <1>1, RollbackInv DEF CheckEmail
<1>2. CASE job[r].user \notin registered
  <2> USE <1>2 DEF CheckEmail, Goto, memVars, lockVars
  <2>1. Kept(r)
    BY DEF IInv, TypeOK, Kept, OthersKept, UsersKept, SeatsKept, InvitesKept, dbVars
  <2>2. SessionInv(r)'
    BY DEF IInv, TypeOK, SessionInv, StepFits, InviteHeld, UserHeld, SeatsHeld,
           JobFits, dbVars, RegisterLike
  <2> QED BY <2>1, <2>2, ReadingStep DEF IInv, TypeOK, Steps
<1> QED BY <1>1, <1>2

\* The INSERT of an account reserves its email.
LEMMA InsertUserInv ==
  ASSUME NEW r \in Requests, IInv, InsertUser(r)
  PROVE  IInv'
<1> USE NoneAssumption DEF InsertUser, Goto, memVars
<1>1. job[r].user \in Users /\ job[r].kind \in RegisterLike /\ written[r] = {}
  BY DEF IInv, SessionInv, StepFits, JobFits, SeatsHeld, RegisterLike
<1>2. Kept(r)
  BY <1>1 DEF IInv, TypeOK, Kept, OthersKept, UsersKept, SeatsKept, InvitesKept, dbVars
<1>3. pc' \in [Requests -> Steps] /\ pc'[r] = (IF job[r].kind = "register" THEN "assign" ELSE "commit")
  BY DEF IInv, TypeOK, Steps
<1>4. SessionInv(r)'
  BY <1>1, <1>3 DEF IInv, TypeOK, SessionInv, StepFits, InviteHeld, UserHeld, SeatsHeld,
              JobFits, dbVars, RegisterLike, EmployeeKinds, SeatTakers, Committers
<1> QED BY <1>2, <1>3, <1>4, ReadingStep DEF IInv, TypeOK

\* _get_employee_for_update.
LEMMA LockEmployeeInv ==
  ASSUME NEW r \in Requests, IInv, LockEmployee(r)
  PROVE  IInv'
<1> USE NoneAssumption DEF LockEmployee, At, Goto
<1> DEFINE u == job[r].user
<1>1. u \in Users /\ job[r].kind \in EmployeeKinds /\ written[r] = {}
      /\ (job[r].kind = "change" => job[r].plan \in Plans)
  BY DEF IInv, SessionInv, StepFits, JobFits, SeatsHeld, EmployeeKinds
<1>2. Kept(r)
  BY <1>1 DEF IInv, TypeOK, Kept, OthersKept, UsersKept, SeatsKept, InvitesKept, dbVars, UserFree
<1>3. planOf[u] \in Plans \cup {None}
  BY <1>1 DEF IInv, TypeOK, Ledger!DbTypeOK
<1>4. /\ pc' \in [Requests -> Steps]
      /\ pc'[r] = AfterLock(job[r].kind, planOf[u])
      /\ pc'[r] \in {"assign", "unassign", "commit"}
      /\ job[r].kind # "deactivate" => pc'[r] = "assign"
      /\ job[r].kind = "deactivate" =>
           pc'[r] = IF planOf[u] = None THEN "commit" ELSE "unassign"
  BY <1>1 DEF IInv, TypeOK, Steps, AfterLock, EmployeeKinds
<1>5. SessionInv(r)'
  <2>1. StepFits(r)' /\ InviteHeld(r)'
    BY <1>1, <1>4 DEF IInv, SessionInv, StepFits, InviteHeld, JobFits, EmployeeKinds,
         SeatTakers, Committers, TypeOK
  <2>2. UserHeld(r)'
    BY <1>1, <1>4 DEF IInv, TypeOK, UserHeld, dbVars, RegisterLike, EmployeeKinds,
         NothingToDo, UserFree
  <2>3. SeatsHeld(r)'
    BY <1>1, <1>3, <1>4 DEF IInv, TypeOK, SeatsHeld, EmployeeKinds
  <2> QED BY <2>1, <2>2, <2>3 DEF SessionInv
<1> QED BY <1>2, <1>3, <1>4, <1>5, ReadingStep DEF IInv, TypeOK

\* The unlocked reads of the platform administrator and of the import.
LEMMA ReadUserInv ==
  ASSUME NEW r \in Requests, IInv, ReadUser(r)
  PROVE  IInv'
<1> USE DEF ReadUser, NoUpdate, Goto, memVars, lockVars
<1>1. job[r].kind \in {"block", "unblock", "import"} /\ written[r] = {}
      /\ job[r].user \in Users
  BY DEF IInv, SessionInv, StepFits, JobFits, SeatsHeld
<1>2. Kept(r)
  BY DEF IInv, TypeOK, Kept, OthersKept, UsersKept, SeatsKept, InvitesKept, dbVars
<1>3. /\ pc'[r] = IF job[r].kind = "import" THEN "insertUser" ELSE "updateUser"
      /\ pc' \in [Requests -> Steps]
      /\ job[r].kind # "import" => job[r].user \in registered
  BY <1>1 DEF IInv, TypeOK, Steps
<1>4. SessionInv(r)'
  BY <1>1, <1>3 DEF IInv, TypeOK, SessionInv, StepFits, InviteHeld, UserHeld, SeatsHeld,
         JobFits, dbVars, RegisterLike
<1> QED BY <1>2, <1>3, <1>4, ReadingStep DEF IInv, TypeOK
-----------------------------------------------------------------------------
(* The statements on the seats. *)

\* A plan a seat is taken of is a plan, for each operation that takes one.
LEMMA SeatPlan ==
  ASSUME NEW r \in Requests, IInv, pc[r] = "assign"
  PROVE  PlanToTake(r) \in Plans
<1>1. StepFits(r) /\ InviteHeld(r) /\ UserHeld(r)
  BY DEF IInv, SessionInv
<1>2. CASE job[r].kind = "register"
  <2>1. terms[job[r].invite] \in Ledger!Terms
    BY <1>1, <1>2 DEF InviteHeld, StepFits, JobFits, IInv, TypeOK, Ledger!DbTypeOK
  <2> QED BY <1>2, <2>1 DEF PlanToTake, Ledger!Terms
<1>3. CASE job[r].kind = "change"
  BY <1>1, <1>3 DEF PlanToTake, StepFits, JobFits
<1>4. CASE job[r].kind = "activate"
  BY <1>1, <1>4 DEF PlanToTake, UserHeld, EmployeeKinds, IInv, TypeOK
<1> QED BY <1>1, <1>2, <1>3, <1>4 DEF StepFits, SeatTakers

\* assign_seat.
LEMMA AssignSeatInv ==
  ASSUME NEW r \in Requests, IInv, AssignSeat(r)
  PROVE  IInv'
<1> USE NoneAssumption DEF AssignSeat, AfterAssign, RowUnlocked, SeatAvailable, Goto
<1> DEFINE p == PlanToTake(r)
           nxt == IF job[r].kind = "change" /\ seen[r] # None THEN "unassign" ELSE "commit"
<1>1. p \in Plans
  BY SeatPlan
<1>2. /\ StepFits(r) /\ InviteHeld(r) /\ UserHeld(r) /\ written[r] = {}
      /\ job[r].kind \in SeatTakers
  BY DEF IInv, SessionInv, SeatsHeld, StepFits
<1>3. Kept(r)
  BY <1>1 DEF IInv, TypeOK, Kept, OthersKept, UsersKept, SeatsKept, InvitesKept, dbVars
<1>4. /\ assigned[p] \in Nat /\ allocated[p] \in Nat
      /\ p \in sold /\ assigned[p] < allocated[p]
  <2>1. assigned[p] \in Nat /\ allocated[p] \in 0..MaxSeats
    BY <1>1 DEF IInv, TypeOK, Ledger!DbTypeOK
  <2>2. p \in sold /\ allocated[p] - assigned[p] > 0
    OBVIOUS
  <2> QED BY <2>1, <2>2, MaxSeatsAssumption
<1>5. /\ pc' = [pc EXCEPT ![r] = nxt] /\ pc'[r] = nxt
      /\ pc' \in [Requests -> Steps]
  BY DEF IInv, TypeOK, Steps
<1>6. /\ counter' \in [Requests -> [Plans -> Nat]] /\ counter'[r][p] = assigned[p] + 1
      /\ written' \in [Requests -> SUBSET Plans] /\ written'[r] = {p}
      /\ planLock' \in [Plans -> Requests \cup {None}] /\ planLock'[p] = r
  BY <1>1, <1>2, <1>4 DEF IInv, TypeOK
<1>7. SessionInv(r)'
  <2>0. pc[r] = "assign" /\ UNCHANGED <<job, seen, userLock, inviteLock>> /\ UNCHANGED dbVars
    OBVIOUS
  <2>1. StepFits(r)' /\ InviteHeld(r)'
    <3>1. pc'[r] \in {"unassign", "commit"} /\ (pc'[r] = "unassign" => job[r].kind = "change")
      BY <1>5
    <3>2. StepFits(r)'
      BY <1>2, <2>0, <3>1 DEF StepFits, JobFits, SeatTakers, Committers
    <3>3. InviteHeld(r)'
      BY <1>2, <2>0, <3>1 DEF InviteHeld, dbVars
    <3> QED BY <3>2, <3>3
  <2>2. UserHeld(r)'
    BY <1>2, <1>5 DEF UserHeld, StepFits, SeatTakers, RegisterLike, EmployeeKinds, dbVars
  <2>3. PlanToTake(r)' = p
    BY <2>0 DEF PlanToTake, dbVars
  <2>4. TookSeat(r, p)'
    BY <1>1, <1>4, <1>6, <2>0, <2>3 DEF TookSeat, dbVars
  <2>5. job[r].kind = "change" => p = job[r].plan
    BY DEF PlanToTake
  <2>6. SeatsHeld(r)'
    BY <1>2, <1>5, <1>6, <2>3, <2>4, <2>5 DEF SeatsHeld, SeatTakers
  <2> QED BY <2>1, <2>2, <2>6 DEF SessionInv
<1> QED BY <1>3, <1>5, <1>6, <1>7, ReadingStep DEF IInv, TypeOK

\* The row unassign_seat locks is that of an employee's plan, and not the row
\* the same request has just taken a seat of.
LEMMA SeatToReturn ==
  ASSUME NEW r \in Requests, IInv, pc[r] = "unassign"
  PROVE  /\ seen[r] \in Plans /\ assigned[seen[r]] \in Nat
         /\ job[r].kind \in {"change", "deactivate"}
         /\ job[r].kind = "change" => job[r].plan \in Plans /\ seen[r] # job[r].plan
<1> QED
  BY DEF IInv, TypeOK, Ledger!DbTypeOK, SessionInv, SeatsHeld, StepFits, JobFits,
         UserHeld, EmployeeKinds

\* unassign_seat leaves a counter of zero alone.
LEMMA NoSeatHeldInv ==
  ASSUME NEW r \in Requests, IInv, NoSeatHeld(r)
  PROVE  IInv'
<1> USE NoneAssumption DEF NoSeatHeld, RowUnlocked, Goto, memVars
<1>1. /\ seen[r] \in Plans /\ job[r].kind \in {"change", "deactivate"}
      /\ job[r].kind = "change" => job[r].plan \in Plans /\ seen[r] # job[r].plan
  BY SeatToReturn
<1>2. Kept(r)
  BY <1>1 DEF IInv, TypeOK, Kept, OthersKept, UsersKept, SeatsKept, InvitesKept, dbVars
<1>3. /\ pc' \in [Requests -> Steps] /\ pc'[r] = "commit"
      /\ planLock' \in [Plans -> Requests \cup {None}]
      /\ planLock' = [planLock EXCEPT ![seen[r]] = r]
  BY DEF IInv, TypeOK, Steps
<1>4. SessionInv(r)'
  <2>1. StepFits(r)' /\ InviteHeld(r)' /\ UserHeld(r)'
    BY <1>1, <1>3 DEF IInv, SessionInv, StepFits, InviteHeld, UserHeld, JobFits,
         Committers, RegisterLike, EmployeeKinds, dbVars
  <2>2. GaveBack(r, seen[r])'
    BY <1>1, <1>3 DEF GaveBack, IInv, TypeOK, SessionInv, SeatsHeld, dbVars
  <2>3. job[r].kind = "change" => TookSeat(r, job[r].plan)'
    BY <1>1, <1>3 DEF TookSeat, IInv, TypeOK, SessionInv, SeatsHeld, dbVars
  <2>4. SeatsHeld(r)'
    BY <1>1, <1>3, <2>2, <2>3 DEF IInv, SessionInv, SeatsHeld
  <2> QED BY <2>1, <2>4 DEF SessionInv
<1> QED BY <1>2, <1>3, <1>4, ReadingStep DEF IInv, TypeOK

\* unassign_seat.
LEMMA UnassignSeatInv ==
  ASSUME NEW r \in Requests, IInv, UnassignSeat(r)
  PROVE  IInv'
<1> USE NoneAssumption DEF UnassignSeat, RowUnlocked, Goto
<1> DEFINE p == seen[r]
<1>1. /\ p \in Plans /\ assigned[p] \in Nat /\ job[r].kind \in {"change", "deactivate"}
      /\ job[r].kind = "change" => job[r].plan \in Plans /\ p # job[r].plan
  BY SeatToReturn
<1>2. Kept(r)
  BY <1>1 DEF IInv, TypeOK, Kept, OthersKept, UsersKept, SeatsKept, InvitesKept, dbVars
<1>3. /\ pc' \in [Requests -> Steps] /\ pc'[r] = "commit"
      /\ planLock' \in [Plans -> Requests \cup {None}]
      /\ planLock' = [planLock EXCEPT ![p] = r]
  BY DEF IInv, TypeOK, Steps
<1>4. /\ counter' \in [Requests -> [Plans -> Nat]]
      /\ counter'[r][p] = assigned[p] - 1
      /\ \A q \in Plans \ {p} : counter'[r][q] = counter[r][q]
      /\ written' \in [Requests -> SUBSET Plans] /\ written'[r] = written[r] \cup {p}
  BY <1>1 DEF IInv, TypeOK
<1>5. SessionInv(r)'
  <2>1. StepFits(r)' /\ InviteHeld(r)' /\ UserHeld(r)'
    BY <1>1, <1>3 DEF IInv, SessionInv, StepFits, InviteHeld, UserHeld, JobFits,
         Committers, RegisterLike, EmployeeKinds, dbVars
  <2>2. GaveBack(r, p)'
    BY <1>1, <1>3, <1>4 DEF GaveBack, IInv, TypeOK, dbVars
  <2>3. job[r].kind = "change" => TookSeat(r, job[r].plan)'
    BY <1>1, <1>3, <1>4 DEF TookSeat, IInv, TypeOK, SessionInv, SeatsHeld, dbVars
  <2>4. SeatsHeld(r)'
    BY <1>1, <1>3, <1>4, <2>2, <2>3 DEF IInv, SessionInv, SeatsHeld
  <2> QED BY <2>1, <2>4 DEF SessionInv
<1> QED BY <1>2, <1>3, <1>4, <1>5, ReadingStep DEF IInv, TypeOK

\* The statements of set_allocated before its commit.
LEMMA AllocateInv ==
  ASSUME NEW r \in Requests, IInv, ReadRow(r) \/ InsertRow(r) \/ LockRow(r)
  PROVE  IInv'
<1> USE NoneAssumption DEF Goto, memVars, lockVars
<1>1. /\ job[r].kind = "allocate" /\ job[r].plan \in Plans /\ written[r] = {}
      /\ JobFits(job[r])
  BY DEF IInv, SessionInv, StepFits, JobFits, SeatsHeld, ReadRow, InsertRow, LockRow
<1>2. CASE ReadRow(r) /\ job[r].count < 0
  BY <1>2, RollbackInv DEF ReadRow
<1>3. CASE (ReadRow(r) /\ ~(job[r].count < 0)) \/ InsertRow(r) \/ LockRow(r)
  <2>1. Kept(r)
    BY <1>1, <1>3 DEF ReadRow, InsertRow, LockRow, RowFree, IInv, TypeOK, Kept,
         OthersKept, UsersKept, SeatsKept, InvitesKept, dbVars
  <2>2. pc' \in [Requests -> Steps] /\ pc'[r] \in {"insertRow", "lockRow", "commit"}
    BY <1>3 DEF ReadRow, InsertRow, LockRow, IInv, TypeOK, Steps
  <2>3. pc'[r] = "commit" => LockRow(r)
    BY <1>3 DEF ReadRow, InsertRow, IInv, TypeOK
  <2>4. planLock' \in [Plans -> Requests \cup {None}] /\ UNCHANGED <<job, userLock, inviteLock>>
        /\ UNCHANGED dbVars /\ UNCHANGED memVars
    BY <1>3 DEF ReadRow, InsertRow, LockRow, IInv, TypeOK
  <2>5. SessionInv(r)'
    <3>1. StepFits(r)' /\ InviteHeld(r)' /\ UserHeld(r)'
      BY <1>1, <2>2, <2>4 DEF StepFits, InviteHeld, UserHeld, Committers,
           RegisterLike, EmployeeKinds
    <3>2. pc'[r] = "commit" => /\ planLock'[job[r].plan] = r
                               /\ job[r].count >= assigned[job[r].plan]
      BY <1>1, <2>3 DEF LockRow, CountFits, IInv, TypeOK
    <3>3. SeatsHeld(r)'
      BY <1>1, <2>2, <2>4, <3>2 DEF SeatsHeld, dbVars
    <3> QED BY <3>1, <3>3 DEF SessionInv
  <2> QED BY <2>1, <2>2, <2>4, <2>5, ReadingStep DEF IInv, TypeOK
<1> QED BY <1>2, <1>3
-----------------------------------------------------------------------------
(* The steps that change committed rows. *)

\* An invitation is revoked or found expired.
LEMMA InviteStatusInv ==
  ASSUME NEW r \in Requests, IInv, ExpireInvite(r) \/ RevokeInvite(r)
  PROVE  IInv'
<1> USE NoneAssumption
<1> DEFINE i == job[r].invite
<1>1. i \in Invites /\ End(r) /\ inviteLock[i] = None /\ invite[i] = "ACTIVE"
  BY DEF ExpireInvite, RevokeInvite, At, InviteFree, IInv, SessionInv, StepFits, JobFits
<1>2. /\ UNCHANGED <<terms, usedBy, lapsed, sold, allocated, assigned, registered, planOf, active, origin>>
      /\ \/ invite' = [invite EXCEPT ![i] = "EXPIRED"]
         \/ invite' = [invite EXCEPT ![i] = "REVOKED"]
  BY DEF ExpireInvite, RevokeInvite, seatVars, userVars
<1>3. Kept(r)
  <2>1. TypeOK /\ \A j \in Invites \ {i} : invite'[j] = invite[j]
    BY <1>2 DEF IInv, TypeOK, Ledger!DbTypeOK
  <2>2. InvitesKept(r)
    BY <1>1, <1>2, <2>1, EndOfSession DEF InvitesKept
  <2> QED BY <1>1, <1>2, <2>1, <2>2, EndOfSession DEF Kept, UsersKept, SeatsKept
<1>4. Ledger!DbTypeOK'
  BY <1>1, <1>2 DEF IInv, TypeOK, Ledger!DbTypeOK, Ledger!InviteStatus
<1>5. SeatsWithinAllocation' /\ PlansHaveRows'
  BY <1>2 DEF IInv, SeatsWithinAllocation, PlansHaveRows
<1> QED BY <1>1, <1>3, <1>4, <1>5, EndOfSession, Assemble DEF IInv, TypeOK

\* block_user and unblock_user.
LEMMA UpdateUserInv ==
  ASSUME NEW r \in Requests, IInv, UpdateUser(r)
  PROVE  IInv'
<1> USE NoneAssumption DEF UpdateUser, seatVars, inviteVars
<1>1. job[r].user \in Users
  BY DEF IInv, SessionInv, StepFits, JobFits
<1>2. Kept(r)
  <2>1. /\ userLock[job[r].user] = None
        /\ \A v \in Users \ {job[r].user} : active'[v] = active[v]
        /\ UNCHANGED <<registered, planOf, sold, allocated, assigned, invite, terms>>
        /\ End(r)
    BY DEF IInv, TypeOK, Ledger!DbTypeOK
  <2> QED BY <2>1, EndOfSession DEF IInv, Kept, UsersKept, SeatsKept, InvitesKept
<1>3. Ledger!DbTypeOK'
  BY <1>1 DEF IInv, TypeOK, Ledger!DbTypeOK
<1>4. SeatsWithinAllocation' /\ PlansHaveRows'
  BY DEF IInv, SeatsWithinAllocation, PlansHaveRows
<1> QED BY <1>2, <1>3, <1>4, EndOfSession, Assemble DEF IInv, TypeOK

\* A row about to be written was taken or given back, under its lock.
LEMMA WrittenCounters ==
  ASSUME NEW r \in Requests, IInv, NEW p \in written[r]
  PROVE  TookSeat(r, p) \/ (GaveBack(r, p) /\ assigned[p] > 0)
<1>1. /\ StepFits(r) /\ SeatsHeld(r) /\ UserHeld(r)
      /\ p \in Plans /\ assigned[p] \in Nat
  BY DEF IInv, SessionInv, TypeOK, Ledger!DbTypeOK
<1>2. CASE job[r].kind \in {"register", "activate", "import", "allocate"}
  BY <1>1, <1>2 DEF SeatsHeld, StepFits
<1>3. CASE job[r].kind \in {"change", "deactivate"} /\ pc[r] = "commit"
  <2>1. p \in {job[r].plan, seen[r]}
    BY <1>1, <1>3 DEF SeatsHeld
  <2>2. CASE p = seen[r] /\ seen[r] # None
    BY <1>1, <1>3, <2>2 DEF SeatsHeld, GaveBack
  <2>3. CASE p = job[r].plan /\ job[r].kind = "change"
    BY <1>1, <1>3, <2>3 DEF SeatsHeld
  <2>4. CASE job[r].kind = "deactivate" /\ ~(p = seen[r] /\ seen[r] # None)
    BY <1>1, <1>3, <2>4, NoneAssumption DEF SeatsHeld
  <2> QED BY <1>3, <2>1, <2>2, <2>3, <2>4, NoneAssumption, <1>1
<1>4. CASE job[r].kind \in {"change", "deactivate"} /\ pc[r] # "commit"
  BY <1>1, <1>4 DEF SeatsHeld
<1>5. pc[r] \in {"unassign", "commit"}
  BY <1>1 DEF SeatsHeld
<1> QED BY <1>1, <1>2, <1>3, <1>4, <1>5 DEF StepFits, Committers

\* What the installed counters are: within the allocation, and only on rows
\* the committing transaction holds.
LEMMA CommittedSeats ==
  ASSUME NEW r \in Requests, IInv, WrittenSeats(r), UNCHANGED allocated
  PROVE  /\ assigned' \in [Plans -> Nat]
         /\ SeatsWithinAllocation'
         /\ \A p \in Plans : planLock[p] # r => assigned'[p] = assigned[p]
<1> USE DEF WrittenSeats
<1>1. \A p \in Plans : assigned[p] \in Nat /\ allocated[p] \in Nat /\ assigned[p] <= allocated[p]
  BY MaxSeatsAssumption DEF IInv, TypeOK, Ledger!DbTypeOK, SeatsWithinAllocation
<1>2. ASSUME NEW p \in Plans, p \in written[r]
      PROVE  planLock[p] = r /\ counter[r][p] \in 0..allocated[p]
  BY <1>1, <1>2, WrittenCounters DEF TookSeat, GaveBack
<1>3. \A p \in Plans : assigned'[p] \in 0..allocated[p]
  BY <1>1, <1>2
<1> QED BY <1>1, <1>2, <1>3 DEF SeatsWithinAllocation

\* What a committing session has in its hands.
LEMMA AtCommit ==
  ASSUME NEW r \in Requests, IInv, pc[r] = "commit"
  PROVE  /\ StepFits(r) /\ InviteHeld(r) /\ UserHeld(r) /\ SeatsHeld(r)
         /\ job[r].kind \in RegisterLike \cup EmployeeKinds =>
              job[r].user \in Users /\ userLock[job[r].user] = r
         /\ job[r].kind = "register" =>
              /\ job[r].invite \in Invites
              /\ inviteLock[job[r].invite] = r
              /\ terms[job[r].invite] \in Ledger!Terms
              /\ terms[job[r].invite].plan \in sold \cap Plans
         /\ job[r].kind = "change" => job[r].plan \in sold \cap Plans
         /\ job[r].kind = "allocate" => /\ job[r].plan \in Plans
                                        /\ planLock[job[r].plan] = r
<1>1. StepFits(r) /\ InviteHeld(r) /\ UserHeld(r) /\ SeatsHeld(r) /\ JobFits(job[r])
  BY DEF IInv, SessionInv, StepFits
<1>2. job[r].kind \in RegisterLike \cup EmployeeKinds =>
        job[r].user \in Users /\ userLock[job[r].user] = r
  BY <1>1 DEF JobFits, UserHeld, RegisterLike, EmployeeKinds
<1>3. ASSUME job[r].kind = "register"
      PROVE  /\ job[r].invite \in Invites
             /\ inviteLock[job[r].invite] = r
             /\ terms[job[r].invite] \in Ledger!Terms
             /\ terms[job[r].invite].plan \in sold \cap Plans
  <2>1. /\ job[r].invite \in Invites
        /\ inviteLock[job[r].invite] = r
        /\ invite[job[r].invite] = "ACTIVE"
    BY <1>1, <1>3 DEF JobFits, InviteHeld
  <2>2. terms[job[r].invite] \in Ledger!Terms
    BY <2>1 DEF IInv, TypeOK, Ledger!DbTypeOK
  <2>3. terms[job[r].invite].plan \in sold
    BY <1>1, <1>3 DEF SeatsHeld, TookSeat, PlanToTake
  <2> QED BY <2>1, <2>2, <2>3 DEF Ledger!Terms
<1>4. job[r].kind = "change" => job[r].plan \in sold \cap Plans
  BY <1>1 DEF JobFits, SeatsHeld, TookSeat
<1>5. job[r].kind = "allocate" => job[r].plan \in Plans /\ planLock[job[r].plan] = r
  BY <1>1 DEF JobFits, SeatsHeld
<1> QED BY <1>1, <1>2, <1>3, <1>4, <1>5

\* A registration commits account, invitation and seat.
LEMMA CommitRegisterInv ==
  ASSUME NEW r \in Requests, IInv, CommitRegister(r)
  PROVE  IInv'
<1> USE NoneAssumption
<1> DEFINE u == job[r].user
           i == job[r].invite
<1>1. /\ pc[r] = "commit" /\ job[r].kind = "register" /\ WrittenSeats(r) /\ End(r)
      /\ registered' = registered \cup {u}
      /\ planOf' = [planOf EXCEPT ![u] = terms[i].plan]
      /\ active' = [active EXCEPT ![u] = TRUE]
      /\ invite' = [invite EXCEPT ![i] = "USED"]
      /\ origin' = [origin EXCEPT ![u] = i] /\ usedBy' = [usedBy EXCEPT ![i] = u]
      /\ UNCHANGED <<sold, allocated, terms, lapsed>>
  BY DEF CommitRegister, At
<1>2. /\ u \in Users /\ userLock[u] = r /\ i \in Invites /\ inviteLock[i] = r
      /\ terms[i] \in Ledger!Terms /\ terms[i].plan \in sold \cap Plans
  BY <1>1, AtCommit DEF RegisterLike
<1>3. Ledger!DbTypeOK /\ TypeOK
  BY DEF IInv, TypeOK
<1>4. /\ assigned' \in [Plans -> Nat] /\ SeatsWithinAllocation'
      /\ \A p \in Plans : planLock[p] # r => assigned'[p] = assigned[p]
  BY <1>1, CommittedSeats
<1>5. Ledger!DbTypeOK'
  BY <1>1, <1>2, <1>3, <1>4 DEF Ledger!DbTypeOK, Ledger!InviteStatus
<1>6. PlansHaveRows'
  BY <1>1, <1>2, <1>3 DEF IInv, PlansHaveRows, Ledger!DbTypeOK
<1>7. Kept(r)
  <2>1. UsersKept(r)
    BY <1>1, <1>2, <1>3, EndOfSession DEF UsersKept, Ledger!DbTypeOK
  <2>2. InvitesKept(r)
    BY <1>1, <1>2, <1>3, EndOfSession DEF InvitesKept, Ledger!DbTypeOK
  <2>3. SeatsKept(r)
    BY <1>1, <1>3, <1>4, EndOfSession DEF SeatsKept
  <2> QED BY <1>1, <1>3, <2>1, <2>2, <2>3, EndOfSession DEF Kept
<1> QED BY <1>1, <1>3, <1>4, <1>5, <1>6, <1>7, EndOfSession, Assemble DEF TypeOK

\* A change of plan, a deactivation or an activation commits.
LEMMA CommitEmployeeInv ==
  ASSUME NEW r \in Requests, IInv, CommitChange(r) \/ CommitActive(r)
  PROVE  IInv'
<1> USE NoneAssumption
<1> DEFINE u == job[r].user
<1>1. /\ pc[r] = "commit" /\ job[r].kind \in EmployeeKinds /\ WrittenSeats(r) /\ End(r)
      /\ UNCHANGED <<sold, allocated, registered, origin, invite, terms, usedBy, lapsed>>
      /\ \/ /\ planOf' = [planOf EXCEPT ![u] = job[r].plan]
            /\ job[r].kind = "change" /\ active' = active
         \/ /\ active' = [active EXCEPT ![u] = (job[r].kind = "activate")]
            /\ planOf' = planOf
  BY DEF CommitChange, CommitActive, At, EmployeeKinds, inviteVars
<1>2. /\ u \in Users /\ userLock[u] = r
      /\ job[r].kind = "change" => job[r].plan \in sold \cap Plans
  BY <1>1, AtCommit
<1>3. Ledger!DbTypeOK /\ TypeOK
  BY DEF IInv, TypeOK
<1>4. /\ assigned' \in [Plans -> Nat] /\ SeatsWithinAllocation'
      /\ \A p \in Plans : planLock[p] # r => assigned'[p] = assigned[p]
  BY <1>1, CommittedSeats
<1>5. Ledger!DbTypeOK'
  BY <1>1, <1>2, <1>3, <1>4 DEF Ledger!DbTypeOK
<1>6. PlansHaveRows'
  BY <1>1, <1>2, <1>3 DEF IInv, PlansHaveRows, Ledger!DbTypeOK
<1>7. Kept(r)
  <2>1. UsersKept(r)
    BY <1>1, <1>2, <1>3, EndOfSession DEF UsersKept, Ledger!DbTypeOK
  <2>2. InvitesKept(r)
    BY <1>1, <1>3, EndOfSession DEF InvitesKept
  <2>3. SeatsKept(r)
    BY <1>1, <1>3, <1>4, EndOfSession DEF SeatsKept
  <2> QED BY <1>1, <1>3, <2>1, <2>2, <2>3, EndOfSession DEF Kept
<1> QED BY <1>1, <1>3, <1>4, <1>5, <1>6, <1>7, EndOfSession, Assemble DEF TypeOK

\* An imported account commits.
LEMMA CommitImportInv ==
  ASSUME NEW r \in Requests, IInv, CommitImport(r)
  PROVE  IInv'
<1> USE NoneAssumption
<1> DEFINE u == job[r].user
<1>1. /\ pc[r] = "commit" /\ job[r].kind = "import" /\ End(r)
      /\ registered' = registered \cup {u}
      /\ planOf' = [planOf EXCEPT ![u] = None]
      /\ active' = [active EXCEPT ![u] = TRUE]
      /\ origin' = [origin EXCEPT ![u] = None]
      /\ UNCHANGED <<sold, allocated, assigned, invite, terms, usedBy, lapsed>>
  BY DEF CommitImport, At, seatVars, inviteVars
<1>2. u \in Users /\ userLock[u] = r
  BY <1>1, AtCommit DEF RegisterLike
<1>3. Ledger!DbTypeOK /\ TypeOK
  BY DEF IInv, TypeOK
<1>4. Ledger!DbTypeOK'
  BY <1>1, <1>2, <1>3 DEF Ledger!DbTypeOK
<1>5. SeatsWithinAllocation' /\ PlansHaveRows'
  BY <1>1, <1>2, <1>3 DEF IInv, SeatsWithinAllocation, PlansHaveRows, Ledger!DbTypeOK
<1>6. Kept(r)
  <2>1. UsersKept(r)
    BY <1>1, <1>2, <1>3, EndOfSession DEF UsersKept, Ledger!DbTypeOK
  <2>2. InvitesKept(r) /\ SeatsKept(r)
    BY <1>1, <1>3, EndOfSession DEF InvitesKept, SeatsKept
  <2> QED BY <1>1, <1>3, <2>1, <2>2, EndOfSession DEF Kept
<1> QED BY <1>1, <1>3, <1>4, <1>5, <1>6, EndOfSession, Assemble DEF TypeOK

\* set_allocated commits.
LEMMA CommitAllocateInv ==
  ASSUME NEW r \in Requests, IInv, CommitAllocate(r)
  PROVE  IInv'
<1> USE NoneAssumption
<1> DEFINE p == job[r].plan
           n == job[r].count
<1>1. /\ pc[r] = "commit" /\ job[r].kind = "allocate" /\ End(r)
      /\ sold' = sold \cup {p} /\ allocated' = [allocated EXCEPT ![p] = n]
      /\ UNCHANGED <<assigned, registered, planOf, active, origin, invite, terms, usedBy, lapsed>>
  BY DEF CommitAllocate, At, userVars, inviteVars
<1>2. Ledger!DbTypeOK /\ TypeOK
  BY DEF IInv, TypeOK
<1>3. p \in Plans /\ planLock[p] = r /\ n >= assigned[p]
  BY <1>1, AtCommit DEF SeatsHeld
<1>4. n \in 0..MaxSeats
  <2>1. n \in Counts \cup {0} /\ assigned[p] \in Nat
    BY <1>2, <1>3 DEF TypeOK, JobRecords, Ledger!DbTypeOK
  <2> QED BY <1>3, <2>1, MaxSeatsAssumption DEF Counts
<1>5. Ledger!DbTypeOK'
  BY <1>1, <1>2, <1>3, <1>4 DEF Ledger!DbTypeOK
<1>6. SeatsWithinAllocation'
  <2>1. \A q \in Plans : assigned[q] \in Nat
    BY <1>2 DEF Ledger!DbTypeOK
  <2>2. \A q \in Plans : allocated'[q] = IF q = p THEN n ELSE allocated[q]
    BY <1>1, <1>2 DEF Ledger!DbTypeOK
  <2> QED BY <1>1, <1>3, <1>4, <2>1, <2>2, MaxSeatsAssumption DEF IInv, SeatsWithinAllocation
<1>7. PlansHaveRows'
  BY <1>1 DEF IInv, PlansHaveRows
<1>8. Kept(r)
  <2>1. SeatsKept(r)
    BY <1>1, <1>2, <1>3, EndOfSession DEF SeatsKept, Ledger!DbTypeOK
  <2>2. InvitesKept(r) /\ UsersKept(r)
    BY <1>1, <1>2, EndOfSession DEF InvitesKept, UsersKept
  <2> QED BY <1>1, <1>2, <2>1, <2>2, EndOfSession DEF Kept
<1> QED BY <1>1, <1>2, <1>5, <1>6, <1>7, <1>8, EndOfSession, Assemble DEF TypeOK
-----------------------------------------------------------------------------
(* Steps of nobody's session: an invitation appears or runs out of time.   *)

\* A session only relies on invitations it has found ACTIVE, and a new one
\* takes a row that was not there.
LEMMA CreateInviteInv ==
  ASSUME IInv, CreateInvite \/ Lapse
  PROVE  IInv'
<1>1. /\ UNCHANGED <<pc, job, seen, counter, written, userLock, planLock, inviteLock>>
      /\ UNCHANGED <<sold, allocated, assigned, registered, planOf, active, origin, usedBy>>
  BY DEF CreateInvite, Lapse, Ledger!CreateInvite, Ledger!Lapse, memVars, lockVars,
         Ledger!seatVars, Ledger!userVars
<1>2. Ledger!DbTypeOK'
  <2>1. ASSUME NEW i \in Invites, NEW t \in Ledger!Terms, Ledger!CreateInvite(i, t)
        PROVE  Ledger!DbTypeOK'
    <3>1. Ledger!DbTypeOK
      BY DEF IInv, TypeOK
    <3>2. /\ invite' = [invite EXCEPT ![i] = "ACTIVE"] /\ terms' = [terms EXCEPT ![i] = t]
          /\ UNCHANGED lapsed
      BY <2>1 DEF Ledger!CreateInvite
    <3>3. /\ invite' \in [Invites -> Ledger!InviteStatus]
          /\ terms' \in [Invites -> Ledger!Terms \cup {None}]
      BY <3>1, <3>2 DEF Ledger!DbTypeOK, Ledger!InviteStatus
    <3>4. \A j \in Invites : invite'[j] # "NONE" => terms'[j] \in Ledger!Terms
      BY <3>1, <3>2 DEF Ledger!DbTypeOK
    <3> QED BY <1>1, <3>1, <3>2, <3>3, <3>4 DEF Ledger!DbTypeOK
  <2>2. ASSUME NEW i \in Invites, Ledger!Lapse(i)
        PROVE  Ledger!DbTypeOK'
    BY <1>1, <2>2 DEF Ledger!Lapse, IInv, TypeOK, Ledger!DbTypeOK
  <2> QED BY <2>1, <2>2 DEF CreateInvite, Lapse
<1>3. \A i \in Invites : invite[i] = "ACTIVE" =>
        invite'[i] = "ACTIVE" /\ terms'[i] = terms[i]
  BY DEF CreateInvite, Lapse, Ledger!CreateInvite, Ledger!Lapse, IInv, TypeOK,
         Ledger!DbTypeOK
<1>4. ASSUME NEW s \in Requests
      PROVE  SessionInv(s)'
  <2>1. SessionInv(s)
    BY DEF IInv
  <2>2. StepFits(s)' /\ UserHeld(s)'
    BY <1>1, <2>1 DEF SessionInv, StepFits, JobFits, UserHeld
  <2>3. InviteHeld(s)'
    BY <1>1, <1>3, <2>1 DEF SessionInv, InviteHeld, StepFits, JobFits
  <2>4. pc[s] = "commit" => PlanToTake(s)' = PlanToTake(s)
    BY <1>1, <1>3, <2>1 DEF SessionInv, InviteHeld, StepFits, JobFits, PlanToTake
  <2>5. SeatsHeld(s)'
    BY <1>1, <2>1, <2>4 DEF SessionInv, SeatsHeld, TookSeat, GaveBack
  <2> QED BY <2>2, <2>3, <2>5 DEF SessionInv
<1> QED
  BY <1>1, <1>2, <1>4 DEF IInv, TypeOK, SeatsWithinAllocation, PlansHaveRows
-----------------------------------------------------------------------------
(* The invariant. *)

\* The initial states.
LEMMA InitInv ==
  ASSUME Init
  PROVE  IInv
<1> USE NoneAssumption DEF Init
<1>1. \A p \in Plans : Ledger!Cardinality(Ledger!Holders(p)) \in Nat
  <2>1. \A p \in Plans : Ledger!Holders(p) \subseteq Users
    BY DEF Ledger!Init, Ledger!Holders
  <2>2. \A p \in Plans : Cardinality(Ledger!Holders(p)) \in Nat
    BY <2>1, UsersAssumption, FS_Subset, FS_CardinalityType
  <2>3. ASSUME NEW S PROVE Ledger!Cardinality(S) = Cardinality(S)
    BY DEF Ledger!Cardinality, Cardinality
  <2> QED BY <2>2, <2>3
<1>2. Ledger!DbTypeOK
  BY <1>1 DEF Ledger!Init, Ledger!DbTypeOK, Ledger!InviteStatus
<1>3. TypeOK
  BY <1>2 DEF TypeOK, Steps, NoJob, Job, JobRecords, NoCounters
<1>4. SeatsWithinAllocation
  BY <1>2, MaxSeatsAssumption DEF Ledger!Init, Ledger!DbTypeOK, SeatsWithinAllocation
<1>5. PlansHaveRows
  BY DEF Ledger!Init, PlansHaveRows
<1>6. ASSUME NEW r \in Requests
      PROVE  SessionInv(r)
  BY DEF SessionInv, StepFits, InviteHeld, UserHeld, SeatsHeld
<1> QED BY <1>3, <1>4, <1>5, <1>6 DEF IInv

\* Any statement of a request.
LEMMA AdvanceInv ==
  ASSUME NEW r \in Requests, IInv, Advance(r)
  PROVE  IInv'
<1>1. CASE Rollback(r)
  BY <1>1, RollbackInv
<1>2. CASE ExpireInvite(r) \/ RevokeInvite(r)
  BY <1>2, InviteStatusInv
<1>3. CASE LockInvite(r) \/ CheckEmail(r) \/ InsertUser(r)
  BY <1>3, LockInviteInv, CheckEmailInv, InsertUserInv
<1>4. CASE LockEmployee(r) \/ ReadUser(r) \/ UpdateUser(r)
  BY <1>4, LockEmployeeInv, ReadUserInv, UpdateUserInv
<1>5. CASE AssignSeat(r) \/ NoSeatHeld(r) \/ UnassignSeat(r)
  BY <1>5, AssignSeatInv, NoSeatHeldInv, UnassignSeatInv
<1>6. CASE ReadRow(r) \/ InsertRow(r) \/ LockRow(r)
  BY <1>6, AllocateInv
<1>7. CASE CommitRegister(r) \/ CommitChange(r) \/ CommitActive(r)
           \/ CommitImport(r) \/ CommitAllocate(r)
  BY <1>7, CommitRegisterInv, CommitEmployeeInv, CommitImportInv, CommitAllocateInv
<1> QED
  BY <1>1, <1>2, <1>3, <1>4, <1>5, <1>6, <1>7
  DEF Advance, RejectInvite, RejectEmail, DuplicateUser, EmployeeNotFound,
      RefuseEmployee, ReadUserNoWrite, NoSeats, DuplicateRow, TooFewSeats

\* Any step: the invariant is inductive.
LEMMA NextInv ==
  ASSUME IInv, [Next]_vars
  PROVE  IInv'
<1>1. ASSUME NEW r \in Requests, Start(r) \/ Advance(r) \/ DetectDeadlock(r) \/ Disconnect(r)
      PROVE  IInv'
  BY <1>1, StartInv, AdvanceInv, RollbackInv DEF DetectDeadlock, Disconnect
<1>2. CASE CreateInvite \/ Lapse
  BY <1>2, CreateInviteInv
<1>3. CASE UNCHANGED vars
  <2>1. UNCHANGED <<pc, job, seen, counter, written, userLock, planLock, inviteLock>>
        /\ UNCHANGED <<sold, allocated, assigned, registered, planOf, active, origin>>
        /\ UNCHANGED <<invite, terms, usedBy, lapsed>>
    BY <1>3 DEF vars
  <2>2. TypeOK' /\ SeatsWithinAllocation' /\ PlansHaveRows'
    BY <2>1 DEF IInv, TypeOK, Ledger!DbTypeOK, SeatsWithinAllocation, PlansHaveRows
  <2>3. ASSUME NEW s \in Requests
        PROVE  SessionInv(s)'
    BY <2>1 DEF IInv, SessionInv, StepFits, JobFits, InviteHeld, UserHeld, SeatsHeld,
       TookSeat, GaveBack, PlanToTake
  <2> QED BY <2>2, <2>3 DEF IInv
<1> QED BY <1>1, <1>2, <1>3 DEF Next

\* At every moment each session in flight still knows what it has read under
\* a lock: the inductive invariant of the concurrent requests.
THEOREM Invariance == Spec => []IInv
<1>1. Init => IInv
  BY InitInv
<1>2. IInv /\ [Next]_vars => IInv'
  BY NextInv
<1> QED BY <1>1, <1>2, PTL DEF Spec

\* Every variable keeps its type, in particular no counter is negative.
THEOREM TypeCorrect == Spec => []TypeOK
<1>1. IInv => TypeOK
  BY DEF IInv
<1> QED BY <1>1, Invariance, PTL

\* The CHECK constraints of plans/models.py never reject what assign_seat,
\* unassign_seat and set_allocated write.
THEOREM SeatsSafe == Spec => []SeatsWithinAllocation
<1>1. IInv => SeatsWithinAllocation
  BY DEF IInv
<1> QED BY <1>1, Invariance, PTL

\* The row unassign_seat looks for is always there.
THEOREM RowsSafe == Spec => []PlansHaveRows
<1>1. IInv => PlansHaveRows
  BY DEF IInv
<1> QED BY <1>1, Invariance, PTL

\* assign_seat and unassign_seat write what they computed from the committed
\* counter, and nobody else can have changed it: no lost update.
THEOREM CountersSafe == Spec => []NoLostUpdate
<1>1. ASSUME IInv
      PROVE  NoLostUpdate
  <2>1. ASSUME NEW r \in Requests, NEW p \in written[r]
        PROVE  TookSeat(r, p) \/ (GaveBack(r, p) /\ assigned[p] > 0)
    BY <1>1, WrittenCounters
  <2>2. ASSUME NEW r \in Requests, NEW p \in written[r]
        PROVE  p \in Plans /\ assigned[p] \in Nat /\ allocated[p] \in Nat
               /\ assigned[p] <= allocated[p]
    BY <1>1, MaxSeatsAssumption DEF IInv, TypeOK, Ledger!DbTypeOK, SeatsWithinAllocation
  <2> QED BY <2>1, <2>2 DEF NoLostUpdate, TookSeat, GaveBack
<1> QED BY <1>1, Invariance, PTL

\* A used, expired or revoked invitation stays as it is: whatever request
\* was waiting for it, or had read it before, changes neither its status nor
\* its user.
THEOREM InvitesFinal == Spec => FinishedInvitesStay
<1> DEFINE Stay == \A i \in Invites :
       invite[i] \in {"USED", "EXPIRED", "REVOKED"} =>
         invite'[i] = invite[i] /\ usedBy'[i] = usedBy[i]
<1>1. ASSUME IInv, [Next]_vars
      PROVE  Stay
  <2>0. /\ invite \in [Invites -> Ledger!InviteStatus]
        /\ usedBy \in [Invites -> Users \cup {None}]
    BY <1>1 DEF IInv, TypeOK, Ledger!DbTypeOK
  <2>1. CASE UNCHANGED <<invite, usedBy>>
    BY <2>1
  <2>2. CASE CreateInvite
    <3>1. PICK j \in Invites : /\ invite[j] = "NONE"
                               /\ invite' = [invite EXCEPT ![j] = "ACTIVE"]
                               /\ UNCHANGED usedBy
      BY <2>2 DEF CreateInvite, Ledger!CreateInvite
    <3> QED BY <2>0, <3>1
  <2>3. ASSUME NEW r \in Requests, ExpireInvite(r) \/ RevokeInvite(r)
        PROVE  Stay
    <3>1. /\ invite[job[r].invite] = "ACTIVE" /\ UNCHANGED usedBy
          /\ \/ invite' = [invite EXCEPT ![job[r].invite] = "EXPIRED"]
             \/ invite' = [invite EXCEPT ![job[r].invite] = "REVOKED"]
      BY <2>3 DEF ExpireInvite, RevokeInvite
    <3> QED BY <2>0, <3>1
  <2>4. ASSUME NEW r \in Requests, CommitRegister(r)
        PROVE  Stay
    <3>1. invite[job[r].invite] = "ACTIVE"
      BY <1>1, <2>4, AtCommit DEF CommitRegister, At, InviteHeld
    <3> QED BY <2>0, <2>4, <3>1 DEF CommitRegister
  <2>5. ASSUME NEW r \in Requests, Advance(r)
        PROVE  Stay
    BY <2>1, <2>3, <2>4, <2>5
    DEF Advance, RejectInvite, RejectEmail, LockInvite, CheckEmail, DuplicateUser,
        InsertUser, EmployeeNotFound, RefuseEmployee, LockEmployee, ReadUserNoWrite,
        ReadUser, UpdateUser, NoSeats, AssignSeat, NoSeatHeld, UnassignSeat, ReadRow,
        DuplicateRow, InsertRow, TooFewSeats, LockRow, CommitChange, CommitActive,
        CommitImport, CommitAllocate, Rollback, dbVars, inviteVars
  <2>6. ASSUME NEW r \in Requests, Start(r) \/ DetectDeadlock(r) \/ Disconnect(r)
        PROVE  Stay
    BY <2>1, <2>6 DEF Start, DetectDeadlock, Disconnect, Rollback, dbVars
  <2>7. CASE Lapse
    BY <2>1, <2>7 DEF Lapse, Ledger!Lapse
  <2>8. CASE UNCHANGED vars
    BY <2>1, <2>8 DEF vars
  <2> QED BY <1>1, <2>2, <2>5, <2>6, <2>7, <2>8 DEF Next
<1>2. IInv /\ [Next]_vars => [Stay]_vars
  BY <1>1
<1> QED BY <1>2, Invariance, PTL DEF Spec, FinishedInvitesStay
=============================================================================
