----------------------- MODULE CompanySeatsRefinement -----------------------
(***************************************************************************)
(* The concurrent requests implement the one-at-a-time operations of       *)
(* SeatLedger: the commit of a request is the operation, every other       *)
(* statement is a stutter.  What makes the commit the right operation is   *)
(* the inductive invariant: the values the session read are still the      *)
(* committed ones, because it has held their rows since it read them.      *)
(***************************************************************************)
EXTENDS CompanySeatsProofs

\* A commit that takes the seat of one plan.
LEMMA SeatTaken ==
  ASSUME NEW r \in Requests, NEW p \in Plans, IInv, WrittenSeats(r),
         written[r] = {p}, TookSeat(r, p)
  PROVE  Ledger!HasSeat(p) /\ assigned' = Ledger!Taken(p)
<1>1. assigned \in [Plans -> Nat]
  BY DEF IInv, TypeOK, Ledger!DbTypeOK
<1> QED BY <1>1 DEF WrittenSeats, TookSeat, Ledger!HasSeat, Ledger!Taken

\* A committed registration is Register.
LEMMA RegisterStep ==
  ASSUME NEW r \in Requests, IInv, CommitRegister(r)
  PROVE  \E u \in Users, i \in Invites : Ledger!Register(u, i)
<1> DEFINE u == job[r].user
           i == job[r].invite
           p == terms[i].plan
<1>1. pc[r] = "commit" /\ job[r].kind = "register" /\ WrittenSeats(r)
  BY DEF CommitRegister, At
<1>2. /\ u \in Users /\ i \in Invites /\ p \in Plans
      /\ u \notin registered /\ invite[i] = "ACTIVE" /\ terms[i].email \in {None, u}
  BY <1>1, AtCommit DEF RegisterLike, UserHeld, InviteHeld
<1>3. Ledger!HasSeat(p) /\ assigned' = Ledger!Taken(p)
  <2>1. written[r] = {p} /\ TookSeat(r, p)
    BY <1>1, AtCommit DEF SeatsHeld, PlanToTake
  <2> QED BY <1>1, <1>2, <2>1, SeatTaken
<1>4. Ledger!Register(u, i)
  BY <1>2, <1>3 DEF CommitRegister, Ledger!Register
<1> QED BY <1>2, <1>4

\* A committed change of plan is ChangePlan.
LEMMA ChangeStep ==
  ASSUME NEW r \in Requests, IInv, CommitChange(r)
  PROVE  \E u \in Users, p \in Plans : Ledger!ChangePlan(u, p)
<1> DEFINE u == job[r].user
           p == job[r].plan
           q == planOf[u]
<1>1. pc[r] = "commit" /\ job[r].kind = "change" /\ WrittenSeats(r)
  BY DEF CommitChange, At
<1>2. /\ u \in Users /\ p \in Plans /\ u \in registered /\ seen[r] = q /\ q # p
      /\ TookSeat(r, p)
      /\ written[r] \subseteq {p, q} \cap Plans
      /\ q # None => GaveBack(r, q)
  BY <1>1, AtCommit DEF EmployeeKinds, UserHeld, SeatsHeld
<1>3. assigned \in [Plans -> Nat] /\ q \in Plans \cup {None}
  BY <1>2 DEF IInv, TypeOK, Ledger!DbTypeOK
<1>4. assigned' = IF q = None THEN Ledger!Taken(p)
                  ELSE Ledger!Returned(Ledger!Taken(p), q)
  <2>1. CASE q = None
    BY <1>1, <1>2, <1>3, <2>1, NoneAssumption DEF WrittenSeats, TookSeat, Ledger!Taken
  <2>2. CASE q # None /\ assigned[q] = 0
    <3>1. written[r] = {p} /\ assigned' = Ledger!Taken(p)
      BY <1>1, <1>2, <1>3, <2>2 DEF WrittenSeats, TookSeat, GaveBack, Ledger!Taken
    <3>2. Ledger!Taken(p)[q] = 0
      BY <1>2, <1>3, <2>2 DEF Ledger!Taken
    <3> QED BY <2>2, <3>1, <3>2 DEF Ledger!Returned
  <2>3. CASE q # None /\ assigned[q] > 0
    <3>1. /\ counter[r][q] = assigned[q] - 1 /\ counter[r][p] = assigned[p] + 1
          /\ written[r] = {p, q}
      BY <1>2, <2>3 DEF TookSeat, GaveBack
    <3>2. Ledger!Taken(p) = [assigned EXCEPT ![p] = assigned[p] + 1]
          /\ Ledger!Taken(p)[q] = assigned[q]
      BY <1>2, <1>3 DEF Ledger!Taken
    <3>3. assigned' = [Ledger!Taken(p) EXCEPT ![q] = @ - 1]
      BY <1>1, <1>2, <1>3, <3>1, <3>2 DEF WrittenSeats
    <3> QED BY <2>3, <3>2, <3>3 DEF Ledger!Returned
  <2>4. q # None => assigned[q] = 0 \/ assigned[q] > 0
    BY <1>3
  <2> QED BY <2>1, <2>2, <2>3, <2>4
<1>5. Ledger!ChangePlan(u, p)
  BY <1>2, <1>4
  DEF CommitChange, inviteVars, TookSeat, Ledger!ChangePlan, Ledger!HasSeat, Ledger!inviteVars
<1> QED BY <1>2, <1>5

\* A committed deactivation or activation is Deactivate or Activate.
LEMMA ActiveStep ==
  ASSUME NEW r \in Requests, IInv, CommitActive(r)
  PROVE  \E u \in Users : Ledger!Deactivate(u) \/ Ledger!Activate(u)
<1> DEFINE u == job[r].user
           q == planOf[u]
<1>1. /\ pc[r] = "commit" /\ job[r].kind \in {"deactivate", "activate"} /\ WrittenSeats(r)
      /\ active' = [active EXCEPT ![u] = (job[r].kind = "activate")]
      /\ UNCHANGED <<sold, allocated, registered, planOf, origin>> /\ UNCHANGED inviteVars
  BY DEF CommitActive, At
<1>2. u \in Users /\ u \in registered /\ seen[r] = q
  BY <1>1, AtCommit DEF EmployeeKinds, UserHeld
<1>3. assigned \in [Plans -> Nat] /\ q \in Plans \cup {None}
  BY <1>2 DEF IInv, TypeOK, Ledger!DbTypeOK
<1>4. CASE job[r].kind = "activate"
  <2>1. ~active[u] /\ q \in Plans /\ written[r] = {q} /\ TookSeat(r, q)
    BY <1>1, <1>2, <1>3, <1>4, AtCommit DEF EmployeeKinds, UserHeld, SeatsHeld, PlanToTake
  <2>2. Ledger!HasSeat(q) /\ assigned' = Ledger!Taken(q)
    BY <1>1, <2>1, SeatTaken
  <2>3. Ledger!Activate(u)
    BY <1>1, <1>2, <1>4, <2>1, <2>2, NoneAssumption
    DEF inviteVars, Ledger!Activate, Ledger!inviteVars
  <2> QED BY <1>2, <2>3
<1>5. CASE job[r].kind = "deactivate"
  <2>1. active[u] /\ written[r] \subseteq {q} \cap Plans /\ (q # None => GaveBack(r, q))
    BY <1>1, <1>2, <1>5, AtCommit DEF EmployeeKinds, UserHeld, SeatsHeld
  <2>2. assigned' = IF q = None THEN assigned ELSE Ledger!Returned(assigned, q)
    <3>1. CASE q = None \/ assigned[q] = 0
      <4>1. written[r] = {}
        BY <2>1, <3>1, NoneAssumption DEF GaveBack
      <4>2. assigned' = assigned
        BY <1>1, <1>3, <4>1 DEF WrittenSeats
      <4> QED BY <3>1, <4>2 DEF Ledger!Returned
    <3>2. CASE q # None /\ assigned[q] > 0
      BY <1>1, <1>3, <2>1, <3>2 DEF WrittenSeats, GaveBack, Ledger!Returned
    <3>3. q # None => assigned[q] = 0 \/ assigned[q] > 0
      BY <1>3
    <3> QED BY <3>1, <3>2, <3>3
  <2>3. Ledger!Deactivate(u)
    BY <1>1, <1>2, <1>5, <2>1, <2>2 DEF inviteVars, Ledger!Deactivate, Ledger!inviteVars
  <2> QED BY <1>2, <2>3
<1> QED BY <1>1, <1>4, <1>5

\* Every other step that writes is its operation of the ledger.
LEMMA OtherCommitStep ==
  ASSUME NEW r \in Requests, IInv
  PROVE  /\ CommitImport(r) => \E u \in Users : Ledger!Import(u)
         /\ CommitAllocate(r) => \E p \in Plans, n \in 0..MaxSeats : Ledger!SetAllocated(p, n)
         /\ UpdateUser(r) => \E u \in Users, on \in BOOLEAN : Ledger!SetActive(u, on)
         /\ ExpireInvite(r) \/ RevokeInvite(r) =>
              \E i \in Invites : Ledger!RevokeInvite(i) \/ Ledger!ExpireInvite(i)
<1> USE DEF inviteVars, seatVars, userVars, Ledger!inviteVars, Ledger!seatVars, Ledger!userVars
<1>1. ASSUME CommitImport(r)
      PROVE  \E u \in Users : Ledger!Import(u)
  <2>1. job[r].user \in Users /\ job[r].user \notin registered
    BY <1>1, AtCommit DEF CommitImport, At, RegisterLike, UserHeld
  <2>2. Ledger!Import(job[r].user)
    BY <1>1, <2>1 DEF CommitImport, Ledger!Import
  <2> QED BY <2>1, <2>2
<1>2. ASSUME CommitAllocate(r)
      PROVE  \E p \in Plans, n \in 0..MaxSeats : Ledger!SetAllocated(p, n)
  <2>1. job[r].plan \in Plans /\ job[r].count >= assigned[job[r].plan]
    BY <1>2, AtCommit DEF CommitAllocate, At, SeatsHeld
  <2>2. job[r].count \in 0..MaxSeats
    <3>1. job[r].count \in Counts \cup {0} /\ assigned[job[r].plan] \in Nat
      BY <2>1 DEF IInv, TypeOK, JobRecords, Ledger!DbTypeOK
    <3> QED BY <2>1, <3>1, MaxSeatsAssumption DEF Counts
  <2>3. Ledger!SetAllocated(job[r].plan, job[r].count)
    BY <1>2, <2>1 DEF CommitAllocate, Ledger!SetAllocated
  <2> QED BY <2>1, <2>2, <2>3
<1>3. ASSUME UpdateUser(r)
      PROVE  \E u \in Users, on \in BOOLEAN : Ledger!SetActive(u, on)
  <2>1. job[r].user \in Users /\ job[r].user \in registered
    BY <1>3 DEF UpdateUser, IInv, SessionInv, StepFits, JobFits
  <2>2. Ledger!SetActive(job[r].user, job[r].kind = "unblock")
    BY <1>3, <2>1 DEF UpdateUser, Ledger!SetActive
  <2>3. (job[r].kind = "unblock") \in BOOLEAN
    OBVIOUS
  <2> QED BY <2>1, <2>2, <2>3
<1>4. ASSUME ExpireInvite(r) \/ RevokeInvite(r)
      PROVE  \E i \in Invites : Ledger!RevokeInvite(i) \/ Ledger!ExpireInvite(i)
  <2>1. job[r].invite \in Invites
    BY <1>4 DEF ExpireInvite, RevokeInvite, At, IInv, SessionInv, StepFits, JobFits
  <2>2. Ledger!RevokeInvite(job[r].invite) \/ Ledger!ExpireInvite(job[r].invite)
    BY <1>4 DEF ExpireInvite, RevokeInvite, Ledger!RevokeInvite, Ledger!ExpireInvite
  <2> QED BY <2>1, <2>2
<1> QED BY <1>1, <1>2, <1>3, <1>4

\* Every step is one operation of the ledger or changes no committed row.
LEMMA StepRefines ==
  ASSUME IInv, [Next]_vars
  PROVE  [Ledger!Next]_(Ledger!dbVars)
<1>1. ASSUME NEW r \in Requests, Advance(r)
      PROVE  Ledger!Next \/ UNCHANGED dbVars
  <2>1. CASE CommitRegister(r)
    BY <2>1, RegisterStep DEF Ledger!Next
  <2>2. CASE CommitChange(r)
    BY <2>2, ChangeStep DEF Ledger!Next
  <2>3. CASE CommitActive(r)
    BY <2>3, ActiveStep DEF Ledger!Next
  <2>4. CASE CommitImport(r) \/ CommitAllocate(r) \/ UpdateUser(r)
             \/ ExpireInvite(r) \/ RevokeInvite(r)
    BY <2>4, OtherCommitStep DEF Ledger!Next
  <2>5. CASE UNCHANGED dbVars
    BY <2>5
  <2> QED
    BY <1>1, <2>1, <2>2, <2>3, <2>4, <2>5
    DEF Advance, RejectInvite, RejectEmail, LockInvite, CheckEmail, DuplicateUser,
        InsertUser, EmployeeNotFound, RefuseEmployee, LockEmployee, ReadUserNoWrite,
        ReadUser, NoSeats, AssignSeat, NoSeatHeld, UnassignSeat, ReadRow, DuplicateRow,
        InsertRow, TooFewSeats, LockRow, Rollback
<1>2. ASSUME NEW r \in Requests, Start(r) \/ DetectDeadlock(r) \/ Disconnect(r)
      PROVE  UNCHANGED dbVars
  BY <1>2 DEF Start, DetectDeadlock, Disconnect, Rollback
<1>3. CASE CreateInvite \/ Lapse
  BY <1>3 DEF CreateInvite, Lapse, Ledger!Next
<1>4. CASE UNCHANGED vars
  BY <1>4 DEF vars, Ledger!dbVars
<1>5. dbVars' = dbVars => UNCHANGED Ledger!dbVars
  BY DEF dbVars, Ledger!dbVars
<1> QED BY <1>1, <1>2, <1>3, <1>4, <1>5 DEF Next

\* Any number of concurrent requests, with their waits, rollbacks, deadlocks
\* and lost connections, change the company exactly as the operations of
\* SeatLedger done one after another.
THEOREM Refinement == Spec => Serializable
<1>1. Init => Ledger!Init
  BY DEF Init
<1>2. IInv /\ [Next]_vars => [Ledger!Next]_(Ledger!dbVars)
  BY StepRefines
<1> QED BY <1>1, <1>2, Invariance, PTL DEF Spec, Serializable, Ledger!Spec
-----------------------------------------------------------------------------
(* What the operations keep one at a time, the requests keep side by side. *)

\* An invitation that has made an account is used, so it is none of the ACTIVE
\* ones that an operation makes an account from or finishes.
LEMMA AccountsStep ==
  ASSUME Ledger!DbTypeOK, OneAccountPerInvite, [Ledger!Next]_(Ledger!dbVars)
  PROVE  OneAccountPerInvite'
<1> USE DEF Ledger!seatVars, Ledger!userVars, Ledger!inviteVars, Ledger!DbTypeOK,
            Ledger!InviteStatus
<1>1. CASE \E u \in Users, i \in Invites : Ledger!Register(u, i)
  <2>1. PICK u \in Users, i \in Invites : Ledger!Register(u, i)
    BY <1>1
  <2>2. \A v \in registered : origin[v] # i
    BY <2>1 DEF OneAccountPerInvite, Ledger!Register
  <2>3. /\ invite'[i] = "USED" /\ usedBy'[i] = u /\ terms' = terms
        /\ registered' = registered \cup {u} /\ u \notin registered
        /\ origin'[u] = i /\ \A v \in registered : origin'[v] = origin[v]
        /\ \A j \in Invites \ {i} : invite'[j] = invite[j] /\ usedBy'[j] = usedBy[j]
    BY <2>1 DEF Ledger!Register
  <2>4. i # None /\ terms[i].email \in {None, u}
    BY <2>1, NoneAssumption DEF Ledger!Register
  <2>5. \A v \in registered : origin[v] # None => origin[v] \in Invites \ {i}
    BY <2>2
  <2>6. \A v, w \in registered' : origin'[v] # None /\ origin'[v] = origin'[w] => v = w
    BY <2>2, <2>3 DEF OneAccountPerInvite
  <2>7. \A v \in registered' : origin'[v] # None =>
          usedBy'[origin'[v]] = v /\ terms'[origin'[v]].email \in {None, v}
    BY <2>3, <2>4, <2>5 DEF OneAccountPerInvite
  <2>8. \A j \in Invites : invite'[j] = "USED" <=> \E v \in registered' : origin'[v] = j
    BY <2>2, <2>3 DEF OneAccountPerInvite
  <2> QED
    BY <2>6, <2>7, <2>8 DEF OneAccountPerInvite
<1>2. CASE \E i \in Invites, t \in Ledger!Terms : Ledger!CreateInvite(i, t)
  <2>1. PICK i \in Invites, t \in Ledger!Terms : Ledger!CreateInvite(i, t)
    BY <1>2
  <2>2. \A v \in registered : origin[v] # i
    BY <2>1 DEF OneAccountPerInvite, Ledger!CreateInvite
  <2> QED
    BY <2>1, <2>2 DEF OneAccountPerInvite, Ledger!CreateInvite
<1>3. CASE \E i \in Invites : Ledger!RevokeInvite(i) \/ Ledger!ExpireInvite(i)
  BY <1>3 DEF OneAccountPerInvite, Ledger!RevokeInvite, Ledger!ExpireInvite
<1>4. ASSUME NEW u \in Users, Ledger!Import(u)
      PROVE  OneAccountPerInvite'
  <2>1. /\ registered' = registered \cup {u} /\ u \notin registered
        /\ origin'[u] = None /\ \A v \in registered : origin'[v] = origin[v]
        /\ UNCHANGED <<invite, terms, usedBy>>
    BY <1>4 DEF Ledger!Import
  <2> QED
    BY <2>1, NoneAssumption DEF OneAccountPerInvite
<1>5. CASE UNCHANGED <<invite, terms, usedBy, registered, origin>>
  BY <1>5 DEF OneAccountPerInvite
<1>6. ASSUME NEW u \in Users, \/ Ledger!Deactivate(u) \/ Ledger!Activate(u)
                             \/ \E on \in BOOLEAN : Ledger!SetActive(u, on)
                             \/ \E p \in Plans : Ledger!ChangePlan(u, p)
      PROVE  OneAccountPerInvite'
  BY <1>5, <1>6 DEF Ledger!ChangePlan, Ledger!Deactivate, Ledger!Activate, Ledger!SetActive
<1>7. CASE \/ \E p \in Plans, n \in 0..MaxSeats : Ledger!SetAllocated(p, n)
           \/ \E i \in Invites : Ledger!Lapse(i)
           \/ UNCHANGED Ledger!dbVars
  BY <1>5, <1>7 DEF Ledger!SetAllocated, Ledger!Lapse, Ledger!dbVars
<1> QED
  BY <1>1, <1>2, <1>3, <1>4, <1>6, <1>7 DEF Ledger!Next

\* However many registrations present an invitation at once, it makes at most
\* one account, and is used if and only if it has (invites/service.py:64-92).
THEOREM AccountsSafe == Spec => []OneAccountPerInvite
<1>1. Init => OneAccountPerInvite
  BY NoneAssumption DEF Init, Ledger!Init, OneAccountPerInvite
<1>2. ASSUME IInv, OneAccountPerInvite, [Next]_vars
      PROVE  OneAccountPerInvite'
  <2>1. Ledger!DbTypeOK
    BY <1>2 DEF IInv, TypeOK
  <2> QED
    BY <1>2, <2>1, StepRefines, AccountsStep
<1> QED
  BY <1>1, <1>2, Invariance, PTL DEF Spec
-----------------------------------------------------------------------------
(* The books.                                                              *)

\* Nobody has asked to unblock.
NoUnblock == \A r \in Requests : job[r].kind # "unblock"

\* If the platform administrator unblocks nobody, nobody ever has.
LEMMA SwitchStep ==
  ASSUME IInv, NoUnblock, "unblock" \notin Kinds, [Next]_vars
  PROVE  NoUnblock'
<1>1. job \in [Requests -> JobRecords]
  BY DEF IInv, TypeOK
<1>2. ASSUME NEW r \in Requests,
             UNCHANGED job \/ job' = [job EXCEPT ![r] = NoJob] \/ Start(r)
      PROVE  NoUnblock'
  <2>1. NoJob.kind = "none"
    BY DEF NoJob, Job
  <2>2. CASE UNCHANGED job
    BY <2>2 DEF NoUnblock
  <2>3. CASE job' = [job EXCEPT ![r] = NoJob]
    BY <1>1, <2>1, <2>3 DEF NoUnblock
  <2>4. CASE Start(r)
    <3>1. PICK j : j.kind \in Kinds /\ job' = [job EXCEPT ![r] = j]
      BY <2>4 DEF Start
    <3> QED
      BY <1>1, <3>1 DEF NoUnblock
  <2> QED
    BY <1>2, <2>2, <2>3, <2>4
<1>3. ASSUME NEW r \in Requests, Advance(r) \/ DetectDeadlock(r) \/ Disconnect(r)
      PROVE  UNCHANGED job \/ job' = [job EXCEPT ![r] = NoJob]
  BY <1>3
  DEF Advance, DetectDeadlock, Disconnect, Rollback, End,
      RejectInvite, ExpireInvite, RejectEmail, LockInvite, RevokeInvite, CheckEmail,
      DuplicateUser, InsertUser, EmployeeNotFound, RefuseEmployee, LockEmployee,
      ReadUserNoWrite, ReadUser, UpdateUser, NoSeats, AssignSeat, NoSeatHeld, UnassignSeat,
      ReadRow, DuplicateRow, InsertRow, TooFewSeats, LockRow,
      CommitRegister, CommitChange, CommitActive, CommitImport, CommitAllocate
<1>4. CASE CreateInvite \/ Lapse \/ UNCHANGED vars
  BY <1>4 DEF CreateInvite, Lapse, vars, NoUnblock
<1> QED
  BY <1>2, <1>3, <1>4 DEF Next

\* The operations of the company's administrator and of its employees.
Clerical ==
  \/ \E p \in Plans, n \in 0..MaxSeats : Ledger!SetAllocated(p, n)
  \/ \E u \in Users, i \in Invites : Ledger!Register(u, i)
  \/ \E u \in Users, p \in Plans : Ledger!ChangePlan(u, p)
  \/ \E u \in Users : Ledger!Deactivate(u) \/ Ledger!Activate(u) \/ Ledger!Import(u)
  \/ UNCHANGED <<assigned, registered, planOf, active>>

\* But for the platform's switch, the requests amount to those.
LEMMA ClericalStep ==
  ASSUME IInv, [Next]_vars, \A r \in Requests : ~UpdateUser(r)
  PROVE  Clerical
<1>1. ASSUME NEW r \in Requests, Advance(r)
      PROVE  Clerical
  <2>1. CASE CommitRegister(r)
    BY <2>1, RegisterStep DEF Clerical
  <2>2. CASE CommitChange(r)
    BY <2>2, ChangeStep DEF Clerical
  <2>3. CASE CommitActive(r)
    BY <2>3, ActiveStep DEF Clerical
  <2>4. CASE CommitImport(r) \/ CommitAllocate(r)
    BY <2>4, OtherCommitStep DEF Clerical
  <2>5. CASE ExpireInvite(r) \/ RevokeInvite(r)
    BY <2>5 DEF ExpireInvite, RevokeInvite, seatVars, userVars, Clerical
  <2>6. ~UpdateUser(r)
    OBVIOUS
  <2>7. CASE UNCHANGED dbVars
    BY <2>7 DEF dbVars, Clerical
  <2> QED
    BY <1>1, <2>1, <2>2, <2>3, <2>4, <2>5, <2>6, <2>7
    DEF Advance, RejectInvite, RejectEmail, LockInvite, CheckEmail, DuplicateUser,
        InsertUser, EmployeeNotFound, RefuseEmployee, LockEmployee, ReadUserNoWrite,
        ReadUser, NoSeats, AssignSeat, NoSeatHeld, UnassignSeat, ReadRow, DuplicateRow,
        InsertRow, TooFewSeats, LockRow, Rollback
<1>2. ASSUME NEW r \in Requests, Start(r) \/ DetectDeadlock(r) \/ Disconnect(r)
      PROVE  Clerical
  BY <1>2 DEF Start, DetectDeadlock, Disconnect, Rollback, dbVars, Clerical
<1>3. CASE CreateInvite \/ Lapse \/ UNCHANGED vars
  BY <1>3 DEF CreateInvite, Lapse, Ledger!CreateInvite, Ledger!Lapse, Ledger!seatVars,
              Ledger!userVars, vars, Clerical
<1> QED
  BY <1>1, <1>2, <1>3 DEF Next

\* Who holds a seat of a plan can be counted.
LEMMA Countable ==
  ASSUME NEW S \in SUBSET Users
  PROVE  IsFiniteSet(S) /\ Cardinality(S) \in Nat
  BY UsersAssumption, FS_Subset, FS_CardinalityType

\* Books stay exact if each counter goes up with a new holder of its plan,
\* down with one who was, and stays with the others.
LEMMA Balanced ==
  ASSUME ExactLedger, Ledger!DbTypeOK, NEW u \in Users,
         \A q \in Plans :
           \/ assigned'[q] = assigned[q] /\ Ledger!Holders(q)' = Ledger!Holders(q)
           \/ /\ assigned'[q] = assigned[q] + 1 /\ u \notin Ledger!Holders(q)
              /\ Ledger!Holders(q)' = Ledger!Holders(q) \cup {u}
           \/ /\ assigned'[q] = assigned[q] - 1 /\ u \in Ledger!Holders(q)
              /\ Ledger!Holders(q)' = Ledger!Holders(q) \ {u}
  PROVE  ExactLedger'
<1> SUFFICES ASSUME NEW q \in Plans
             PROVE  assigned'[q] = Cardinality(Ledger!Holders(q)')
  BY DEF ExactLedger
<1>1. Ledger!Holders(q) \in SUBSET Users
  BY DEF Ledger!Holders, Ledger!DbTypeOK
<1>2. /\ IsFiniteSet(Ledger!Holders(q)) /\ Cardinality(Ledger!Holders(q)) \in Nat
      /\ assigned[q] = Cardinality(Ledger!Holders(q))
  BY <1>1, Countable DEF ExactLedger
<1> QED
  BY <1>2, FS_AddElement, FS_RemoveElement

\* A holder makes the counter of the plan positive.
LEMMA HeldSeat ==
  ASSUME ExactLedger, Ledger!DbTypeOK, NEW p \in Plans, NEW u \in Ledger!Holders(p)
  PROVE  assigned[p] > 0
<1>1. Ledger!Holders(p) \in SUBSET Users
  BY DEF Ledger!Holders, Ledger!DbTypeOK
<1>2. /\ IsFiniteSet(Ledger!Holders(p)) /\ Cardinality(Ledger!Holders(p)) \in Nat
      /\ assigned[p] = Cardinality(Ledger!Holders(p))
  BY <1>1, Countable DEF ExactLedger
<1>3. Cardinality(Ledger!Holders(p)) # 0
  BY <1>2, FS_EmptySet
<1> QED
  BY <1>2, <1>3

\* Each operation balances them.
LEMMA BooksStep ==
  ASSUME ExactLedger, Ledger!DbTypeOK, Ledger!DbTypeOK', Clerical,
         \A u \in registered : ~active[u] => planOf'[u] = planOf[u]
  PROVE  ExactLedger'
<1> USE DEF Ledger!DbTypeOK, Ledger!Holders, Ledger!seatVars, Ledger!userVars
<1>1. CASE UNCHANGED <<assigned, registered, planOf, active>>
  BY <1>1 DEF ExactLedger
<1>2. ASSUME NEW p \in Plans, NEW n \in 0..MaxSeats, Ledger!SetAllocated(p, n)
      PROVE  ExactLedger'
  BY <1>1, <1>2 DEF Ledger!SetAllocated
<1>3. ASSUME NEW u \in Users, NEW i \in Invites, Ledger!Register(u, i)
      PROVE  ExactLedger'
  <2>1. PICK p \in Plans : p = terms[i].plan
    BY <1>3 DEF Ledger!Register, Ledger!Terms
  <2>2. assigned' = [assigned EXCEPT ![p] = @ + 1] /\ u \notin registered
        /\ registered' = registered \cup {u} /\ planOf' = [planOf EXCEPT ![u] = p]
        /\ active' = [active EXCEPT ![u] = TRUE]
    BY <1>3, <2>1 DEF Ledger!Register, Ledger!Taken
  <2>3. /\ Ledger!Holders(p)' = Ledger!Holders(p) \cup {u} /\ u \notin Ledger!Holders(p)
        /\ \A q \in Plans \ {p} : Ledger!Holders(q)' = Ledger!Holders(q)
    BY <2>1, <2>2
  <2>4. assigned'[p] = assigned[p] + 1 /\ \A q \in Plans \ {p} : assigned'[q] = assigned[q]
    BY <2>1, <2>2
  <2> QED
    BY <2>3, <2>4, Balanced
<1>4. ASSUME NEW u \in Users, NEW p \in Plans, Ledger!ChangePlan(u, p)
      PROVE  ExactLedger'
  <2>1. PICK o \in Plans \cup {None} : o = planOf[u]
    OBVIOUS
  <2>2. /\ u \in registered /\ active[u] /\ o # p
        /\ planOf' = [planOf EXCEPT ![u] = p] /\ UNCHANGED <<registered, active>>
        /\ assigned' = IF o = None THEN Ledger!Taken(p) ELSE Ledger!Returned(Ledger!Taken(p), o)
    BY <1>4, <2>1 DEF Ledger!ChangePlan
  <2>3. /\ Ledger!Holders(p)' = Ledger!Holders(p) \cup {u} /\ u \notin Ledger!Holders(p)
        /\ o # None => /\ u \in Ledger!Holders(o)
                       /\ Ledger!Holders(o)' = Ledger!Holders(o) \ {u}
        /\ \A q \in Plans \ {p, o} : Ledger!Holders(q)' = Ledger!Holders(q)
    BY <2>1, <2>2
  <2>4. o # None => assigned[o] > 0
    BY <2>3, HeldSeat
  <2>5. /\ Ledger!Taken(p) = [assigned EXCEPT ![p] = @ + 1]
        /\ o # None => Ledger!Taken(p)[o] = assigned[o]
    BY <2>2 DEF Ledger!Taken
  <2>6. assigned' = IF o = None THEN Ledger!Taken(p) ELSE [Ledger!Taken(p) EXCEPT ![o] = @ - 1]
    BY <2>2, <2>4, <2>5 DEF Ledger!Returned
  <2>7. /\ assigned'[p] = assigned[p] + 1
        /\ o # None => assigned'[o] = assigned[o] - 1
        /\ \A q \in Plans \ {p, o} : assigned'[q] = assigned[q]
    <3>1. CASE o = None
      BY <2>5, <2>6, <3>1
    <3>2. CASE o \in Plans
      <4>1. PICK t : t = Ledger!Taken(p)
        OBVIOUS
      <4>2. /\ t = [assigned EXCEPT ![p] = @ + 1] /\ t[o] = assigned[o]
            /\ assigned' = [t EXCEPT ![o] = @ - 1]
        BY <2>5, <2>6, <3>2, <4>1, NoneAssumption
      <4>3. /\ t \in [Plans -> Nat] /\ t[p] = assigned[p] + 1
            /\ \A q \in Plans \ {p} : t[q] = assigned[q]
        BY <4>2
      <4> QED
        BY <2>2, <3>2, <4>2, <4>3
    <3> QED
      BY <3>1, <3>2
  <2>8. \A q \in Plans : q = o => o # None
    BY NoneAssumption
  <2> HIDE DEF Ledger!Holders
  <2> QED
    BY <2>3, <2>7, <2>8, Balanced
<1>5. ASSUME NEW u \in Users, Ledger!Deactivate(u)
      PROVE  ExactLedger'
  <2>1. PICK o \in Plans \cup {None} : o = planOf[u]
    OBVIOUS
  <2>2. /\ u \in registered /\ active[u]
        /\ active' = [active EXCEPT ![u] = FALSE] /\ UNCHANGED <<registered, planOf>>
        /\ assigned' = IF o = None THEN assigned ELSE Ledger!Returned(assigned, o)
    BY <1>5, <2>1 DEF Ledger!Deactivate
  <2>3. /\ o # None => /\ u \in Ledger!Holders(o)
                       /\ Ledger!Holders(o)' = Ledger!Holders(o) \ {u}
        /\ \A q \in Plans \ {o} : Ledger!Holders(q)' = Ledger!Holders(q)
    BY <2>1, <2>2
  <2>4. o # None => assigned[o] > 0
    BY <2>3, HeldSeat
  <2>5. /\ o # None => assigned'[o] = assigned[o] - 1
        /\ \A q \in Plans \ {o} : assigned'[q] = assigned[q]
    BY <2>2, <2>4 DEF Ledger!Returned
  <2>6. \A q \in Plans : q = o => o # None
    BY NoneAssumption
  <2> HIDE DEF Ledger!Holders
  <2> QED
    BY <2>3, <2>5, <2>6, Balanced
<1>6. ASSUME NEW u \in Users, Ledger!Activate(u)
      PROVE  ExactLedger'
  <2>1. PICK o \in Plans : o = planOf[u]
    BY <1>6 DEF Ledger!Activate
  <2>2. /\ u \in registered /\ ~active[u]
        /\ active' = [active EXCEPT ![u] = TRUE] /\ UNCHANGED <<registered, planOf>>
        /\ assigned' = [assigned EXCEPT ![o] = @ + 1]
    BY <1>6, <2>1 DEF Ledger!Activate, Ledger!Taken
  <2>3. /\ Ledger!Holders(o)' = Ledger!Holders(o) \cup {u} /\ u \notin Ledger!Holders(o)
        /\ \A q \in Plans \ {o} : Ledger!Holders(q)' = Ledger!Holders(q)
    BY <2>1, <2>2
  <2>4. assigned'[o] = assigned[o] + 1 /\ \A q \in Plans \ {o} : assigned'[q] = assigned[q]
    BY <2>2
  <2> QED
    BY <2>3, <2>4, Balanced
<1>7. ASSUME NEW u \in Users, Ledger!Import(u)
      PROVE  ExactLedger'
  <2>1. /\ u \notin registered /\ registered' = registered \cup {u}
        /\ planOf' = [planOf EXCEPT ![u] = None] /\ active' = [active EXCEPT ![u] = TRUE]
        /\ assigned' = assigned
    BY <1>7 DEF Ledger!Import
  <2>2. \A q \in Plans : Ledger!Holders(q)' = Ledger!Holders(q)
    BY <2>1, NoneAssumption
  <2> QED
    BY <2>1, <2>2 DEF ExactLedger
<1> QED
  BY <1>1, <1>2, <1>3, <1>4, <1>5, <1>6, <1>7 DEF Clerical

\* No request of a company's administrator and no registration makes exact
\* books wrong, whatever else is in flight, blocks and unblocks of the platform
\* included, except a change of plan of a deactivated employee; the switch of an
\* account by the platform does, when it is written (plans/service.py:6-9).
THEOREM BooksHold == Spec => LedgerKept
<1> DEFINE Careful == \A u \in registered : ~active[u] => planOf'[u] = planOf[u]
           Switched == \E r \in Requests : UpdateUser(r)
<1>1. ASSUME IInv, IInv', [Next]_vars
      PROVE  ExactLedger /\ Careful /\ ~Switched => ExactLedger'
  BY <1>1, ClericalStep, BooksStep DEF IInv, TypeOK
<1>2. IInv /\ IInv' /\ [Next]_vars =>
        (/\ ExactLedger
         /\ \A u \in registered : ~active[u] => planOf'[u] = planOf[u]
         /\ \A r \in Requests : ~UpdateUser(r)
         => ExactLedger')
  BY <1>1
<1> QED
  BY <1>2, Invariance, PTL DEF Spec, LedgerKept
-----------------------------------------------------------------------------
(* Seats over all plans.                                                   *)

\* The seats given are finitely many pairs of a plan and a number.
LEMMA SeatsCountable ==
  ASSUME NEW a \in [Plans -> 0..MaxSeats]
  PROVE  /\ \A x : x \in SeatsGiven(a) <=> \E p \in Plans, n \in Nat : 1 <= n /\ n <= a[p] /\ x = <<p, n>>
         /\ IsFiniteSet(SeatsGiven(a)) /\ Cardinality(SeatsGiven(a)) \in Nat
<1>1. \A x : x \in SeatsGiven(a) <=> \E p \in Plans, n \in Nat : 1 <= n /\ n <= a[p] /\ x = <<p, n>>
  BY DEF SeatsGiven
<1>2. SeatsGiven(a) \in SUBSET (Plans \X (1..MaxSeats))
  <2>1. \A p \in Plans : 1..a[p] \subseteq 1..MaxSeats
    BY MaxSeatsAssumption
  <2> QED
    BY <1>1, <2>1
<1>3. IsFiniteSet(1..MaxSeats)
  BY MaxSeatsAssumption, FS_Interval
<1>4. IsFiniteSet(Plans \X (1..MaxSeats))
  BY <1>3, PlansAssumption, FS_Product
<1>5. IsFiniteSet(SeatsGiven(a))
  BY <1>2, <1>4, FS_Subset
<1> QED
  BY <1>1, <1>5, FS_CardinalityType

\* A counter that goes up gives one seat more.
LEMMA SeatMore ==
  ASSUME NEW a \in [Plans -> 0..MaxSeats], NEW b \in [Plans -> 0..MaxSeats],
         NEW p \in Plans, b = [a EXCEPT ![p] = a[p] + 1]
  PROVE  Cardinality(SeatsGiven(b)) = Cardinality(SeatsGiven(a)) + 1
<1> DEFINE s == <<p, a[p] + 1>>
<1>1. /\ \A q \in Plans : a[q] \in Nat /\ b[q] \in Nat
      /\ b[p] = a[p] + 1 /\ \A q \in Plans \ {p} : b[q] = a[q]
  BY MaxSeatsAssumption
<1>2. /\ \A x : x \in SeatsGiven(a) <=> \E q \in Plans, n \in Nat : 1 <= n /\ n <= a[q] /\ x = <<q, n>>
      /\ \A x : x \in SeatsGiven(b) <=> \E q \in Plans, n \in Nat : 1 <= n /\ n <= b[q] /\ x = <<q, n>>
      /\ IsFiniteSet(SeatsGiven(a)) /\ Cardinality(SeatsGiven(a)) \in Nat
  BY SeatsCountable
<1>3. s \notin SeatsGiven(a)
  BY <1>1, <1>2
<1>4. s \in SeatsGiven(b)
  <2>1. s = <<p, b[p]>> /\ b[p] \in Nat /\ 1 <= b[p] /\ b[p] <= b[p]
    BY <1>1
  <2> HIDE DEF s
  <2> QED
    BY <1>2, <2>1
<1>5. ASSUME NEW q \in Plans, NEW n \in Nat, <<q, n>> # s
      PROVE  n <= b[q] <=> n <= a[q]
  BY <1>1, <1>5
<1> HIDE DEF s
<1>6. ASSUME NEW x, x # s
      PROVE  x \in SeatsGiven(b) <=> x \in SeatsGiven(a)
  BY <1>2, <1>5, <1>6
<1>7. SeatsGiven(b) = SeatsGiven(a) \cup {s}
  BY <1>4, <1>6
<1>8. IsFiniteSet(SeatsGiven(a)) /\ Cardinality(SeatsGiven(a)) \in Nat
  BY <1>2
<1> QED
  BY <1>3, <1>7, <1>8, FS_AddElement

\* A counter that goes down, one less.
LEMMA SeatLess ==
  ASSUME NEW a \in [Plans -> 0..MaxSeats], NEW p \in Plans, a[p] > 0
  PROVE  LET b == [a EXCEPT ![p] = a[p] - 1] IN
         /\ b \in [Plans -> 0..MaxSeats]
         /\ Cardinality(SeatsGiven(a)) = Cardinality(SeatsGiven(b)) + 1
<1> DEFINE b == [a EXCEPT ![p] = a[p] - 1]
<1>1. b \in [Plans -> 0..MaxSeats]
  BY MaxSeatsAssumption
<1>2. a = [b EXCEPT ![p] = b[p] + 1]
  <2>1. a[p] \in Int /\ b[p] + 1 = a[p] /\ \A q \in Plans \ {p} : b[q] = a[q]
    BY MaxSeatsAssumption
  <2> HIDE DEF b
  <2> QED
    BY <1>1, <2>1
<1> HIDE DEF b
<1>3. Cardinality(SeatsGiven(a)) = Cardinality(SeatsGiven(b)) + 1
  BY <1>1, <1>2, SeatMore
<1> QED
  BY <1>1, <1>3 DEF b

\* Books in which a seat is assigned for each active employee cover the staff:
\* counting the holders of each plan gives every one of them a seat.
LEMMA ExactBooksCover ==
  ASSUME Ledger!DbTypeOK, SeatsWithinAllocation, PlansHaveRows, ExactLedger
  PROVE  SeatsCoverStaff
<1>1. /\ assigned \in [Plans -> 0..MaxSeats]
      /\ registered \in SUBSET Users /\ planOf \in [Users -> Plans \cup {None}]
  BY MaxSeatsAssumption DEF Ledger!DbTypeOK, SeatsWithinAllocation
<1> DEFINE H(p) == Ledger!Holders(p)
           Lists(p) == Surjection(1..assigned[p], H(p))
           listing == [p \in Plans |-> CHOOSE b : b \in Lists(p)]
           f == [s \in SeatsGiven(assigned) |-> listing[s[1]][s[2]]]
<1>2. ASSUME NEW p \in Plans
      PROVE  listing[p] \in Lists(p)
  <2>1. H(p) \in SUBSET Users
    BY <1>1 DEF Ledger!Holders
  <2>2. IsFiniteSet(H(p)) /\ Cardinality(H(p)) = assigned[p]
    BY <2>1, Countable DEF ExactLedger
  <2>3. PICK b : b \in Bijection(1..assigned[p], H(p))
    BY <2>2, FS_CardinalityType DEF ExistsBijection
  <2>4. b \in Lists(p)
    BY <2>3 DEF Bijection
  <2> HIDE DEF Lists
  <2> QED
    BY <2>4
<1>3. \A p \in Plans : \A n \in 1..assigned[p] : listing[p][n] \in H(p)
  BY <1>2 DEF Surjection
<1>4. \A p \in Plans : \A u \in H(p) : \E n \in 1..assigned[p] : listing[p][n] = u
  BY <1>2 DEF Surjection
<1> HIDE DEF listing, Lists
<1>5. ASSUME NEW s \in SeatsGiven(assigned)
      PROVE  f[s] \in Staff
  <2>1. PICK p \in Plans, n \in Nat : 1 <= n /\ n <= assigned[p] /\ s = <<p, n>>
    BY <1>1, SeatsCountable
  <2>2. f[s] \in H(p)
    BY <1>3, <2>1
  <2> QED
    BY <2>2, NoneAssumption DEF Ledger!Holders, Staff
<1>6. ASSUME NEW u \in Staff
      PROVE  \E s \in SeatsGiven(assigned) : f[s] = u
  <2>1. PICK p \in Plans : p = planOf[u]
    BY <1>1 DEF Staff
  <2>2. u \in H(p)
    BY <2>1 DEF Staff, Ledger!Holders
  <2>3. PICK n \in 1..assigned[p] : listing[p][n] = u
    BY <1>4, <2>2
  <2>4. <<p, n>> \in SeatsGiven(assigned)
    BY <1>1, SeatsCountable
  <2> QED
    BY <2>3, <2>4
<1>7. f \in Surjection(SeatsGiven(assigned), Staff)
  BY <1>5, <1>6 DEF Surjection
<1> HIDE DEF f
<1> QED
  BY <1>1, <1>7, SeatsCountable, FS_Surjection DEF SeatsCoverStaff

\* A company to begin with has exact books.
LEMMA CoverInit ==
  ASSUME Init
  PROVE  SeatsCoverStaff
<1>1. IInv
  BY InitInv
<1>2. \A p \in Plans : assigned[p] = Ledger!Cardinality(Ledger!Holders(p))
  BY DEF Init, Ledger!Init
<1>3. ASSUME NEW S
      PROVE  Ledger!Cardinality(S) = Cardinality(S)
  BY DEF Ledger!Cardinality, Cardinality
<1>4. ExactLedger
  BY <1>2, <1>3 DEF ExactLedger
<1> QED
  BY <1>1, <1>4, ExactBooksCover DEF IInv, TypeOK

\* One employee more or less.
LEMMA StaffCount ==
  ASSUME NEW S \in SUBSET Users, NEW u \in Users
  PROVE  /\ Cardinality(S) \in Nat
         /\ Cardinality(S \cup {u}) \in Nat /\ Cardinality(S \cup {u}) <= Cardinality(S) + 1
         /\ Cardinality(S \ {u}) \in Nat /\ Cardinality(S \ {u}) <= Cardinality(S)
         /\ u \in S => Cardinality(S \ {u}) = Cardinality(S) - 1
<1>1. IsFiniteSet(S) /\ Cardinality(S) \in Nat
  BY Countable
<1> QED
  BY <1>1, FS_AddElement, FS_RemoveElement, FS_CardinalityType, Countable

\* Each operation of the company's administrator and employees keeps the staff
\* covered, a change of plan of a deactivated employee too.
LEMMA CoverStep ==
  ASSUME SeatsCoverStaff, SeatsWithinAllocation, SeatsWithinAllocation',
         Ledger!DbTypeOK, Ledger!DbTypeOK', Clerical
  PROVE  SeatsCoverStaff'
<1> DEFINE S == Staff
           given == Cardinality(SeatsGiven(assigned))
<1>1. /\ assigned \in [Plans -> 0..MaxSeats] /\ assigned' \in [Plans -> 0..MaxSeats]
      /\ S \in SUBSET Users /\ given \in Nat /\ Cardinality(S) <= given
      /\ given' \in Nat
  <2>1. assigned \in [Plans -> 0..MaxSeats] /\ assigned' \in [Plans -> 0..MaxSeats]
    BY MaxSeatsAssumption DEF Ledger!DbTypeOK, SeatsWithinAllocation
  <2> QED
    BY <2>1, SeatsCountable DEF Ledger!DbTypeOK, Staff, SeatsCoverStaff
<1>2. Cardinality(S) \in Nat
  BY <1>1, Countable
<1>3. CASE UNCHANGED <<assigned, registered, planOf, active>>
  BY <1>3 DEF SeatsCoverStaff, Staff
<1>4. ASSUME NEW p \in Plans, NEW n \in 0..MaxSeats, Ledger!SetAllocated(p, n)
      PROVE  SeatsCoverStaff'
  BY <1>3, <1>4 DEF Ledger!SetAllocated, Ledger!userVars
\* A seat is taken and one employee is covered by it.
<1>5. ASSUME NEW p \in Plans, NEW u \in Users, assigned' = Ledger!Taken(p),
             S' \subseteq S \cup {u}
      PROVE  SeatsCoverStaff'
  <2>1. given' = given + 1
    BY <1>1, <1>5, SeatMore DEF Ledger!Taken
  <2>2. IsFiniteSet(S \cup {u}) /\ IsFiniteSet(S') /\ Cardinality(S') <= Cardinality(S \cup {u})
    BY <1>1, <1>5, Countable, FS_Subset
  <2>3. Cardinality(S') \in Nat
    BY <2>2, FS_CardinalityType
  <2> QED
    <3>1. Cardinality(S \cup {u}) \in Nat /\ Cardinality(S \cup {u}) <= Cardinality(S) + 1
      BY <1>1, StaffCount
    <3>2. Cardinality(S') <= given'
      BY <1>1, <1>2, <2>1, <2>2, <2>3, <3>1
    <3> QED
      BY <3>2 DEF SeatsCoverStaff
<1>6. ASSUME NEW u \in Users, NEW i \in Invites, Ledger!Register(u, i)
      PROVE  SeatsCoverStaff'
  <2>1. PICK p \in Plans : p = terms[i].plan
    BY <1>6 DEF Ledger!Register, Ledger!DbTypeOK, Ledger!Terms
  <2>2. /\ assigned' = Ledger!Taken(p) /\ registered' = registered \cup {u}
        /\ planOf' = [planOf EXCEPT ![u] = p] /\ active' = [active EXCEPT ![u] = TRUE]
    BY <1>6, <2>1 DEF Ledger!Register
  <2>3. S' \subseteq S \cup {u}
    BY <2>2 DEF Staff, Ledger!DbTypeOK
  <2> QED
    BY <1>5, <2>2, <2>3
<1>7. ASSUME NEW u \in Users, NEW p \in Plans, Ledger!ChangePlan(u, p)
      PROVE  SeatsCoverStaff'
  <2>1. PICK o \in Plans \cup {None} : o = planOf[u]
    BY DEF Ledger!DbTypeOK
  <2>2. /\ u \in registered /\ o # p /\ planOf' = [planOf EXCEPT ![u] = p]
        /\ UNCHANGED <<registered, active>>
        /\ assigned' = IF o = None THEN Ledger!Taken(p) ELSE Ledger!Returned(Ledger!Taken(p), o)
    BY <1>7, <2>1 DEF Ledger!ChangePlan
  <2>3. S' \subseteq S \cup {u}
    BY <2>2 DEF Staff, Ledger!DbTypeOK
  <2>4. CASE o = None \/ Ledger!Returned(Ledger!Taken(p), o) = Ledger!Taken(p)
    BY <1>5, <2>2, <2>3, <2>4
  <2>5. CASE o \in Plans /\ Ledger!Returned(Ledger!Taken(p), o) # Ledger!Taken(p)
    <3> DEFINE t == Ledger!Taken(p)
    <3>1. t = [assigned EXCEPT ![p] = assigned[p] + 1]
      BY DEF Ledger!Taken
    <3>2. t \in [Plans -> 0..MaxSeats] /\ assigned[p] + 1 \in 0..MaxSeats
      <4>1. allocated[p] \in 0..MaxSeats /\ assigned[p] < allocated[p]
        BY <1>7 DEF Ledger!ChangePlan, Ledger!HasSeat, Ledger!DbTypeOK
      <4>2. assigned[p] + 1 \in 0..MaxSeats
        BY <1>1, <4>1, MaxSeatsAssumption
      <4> QED
        BY <1>1, <3>1, <4>2
    <3> HIDE DEF t
    <3>3. t[o] > 0 /\ assigned' = [t EXCEPT ![o] = t[o] - 1]
      BY <2>2, <2>5, NoneAssumption DEF t, Ledger!Returned
    <3>4. Cardinality(SeatsGiven(t)) = given + 1
      BY <1>1, <3>1, <3>2, SeatMore
    <3>5. Cardinality(SeatsGiven(t)) = given' + 1
      BY <2>5, <3>2, <3>3, SeatLess
    <3>6. S' = S
      BY <2>2, <2>5, NoneAssumption, <2>1 DEF Staff, Ledger!DbTypeOK
    <3> QED
      BY <1>1, <1>2, <3>4, <3>5, <3>6 DEF SeatsCoverStaff
  <2> QED
    BY <2>4, <2>5
<1>8. ASSUME NEW u \in Users, Ledger!Deactivate(u)
      PROVE  SeatsCoverStaff'
  <2>1. PICK o \in Plans \cup {None} : o = planOf[u]
    BY DEF Ledger!DbTypeOK
  <2>2. /\ u \in registered /\ active[u] /\ active' = [active EXCEPT ![u] = FALSE]
        /\ UNCHANGED <<registered, planOf>>
        /\ assigned' = IF o = None THEN assigned ELSE Ledger!Returned(assigned, o)
    BY <1>8, <2>1 DEF Ledger!Deactivate
  <2>3. S' = S \ {u} /\ (o # None => u \in S)
    BY <2>1, <2>2 DEF Staff, Ledger!DbTypeOK
  <2>4. CASE o = None \/ assigned' = assigned
    <3>1. assigned' = assigned
      BY <2>2, <2>4
    <3> QED
      <4>1. given' = given
        BY <3>1
      <4>2. Cardinality(S \ {u}) \in Nat /\ Cardinality(S \ {u}) <= Cardinality(S)
        BY <1>1, StaffCount
      <4>3. Cardinality(S') <= given'
        BY <1>1, <1>2, <2>3, <4>1, <4>2
      <4> QED
        BY <4>3 DEF SeatsCoverStaff
  <2>5. CASE o \in Plans /\ assigned' # assigned
    <3>1. assigned[o] > 0 /\ assigned' = [assigned EXCEPT ![o] = assigned[o] - 1]
      BY <2>2, <2>5, NoneAssumption DEF Ledger!Returned
    <3>2. given = given' + 1
      BY <1>1, <2>5, <3>1, SeatLess
    <3>3. Cardinality(S') = Cardinality(S) - 1
      BY <1>1, <2>3, <2>5, NoneAssumption, StaffCount
    <3> QED
      BY <1>1, <1>2, <3>2, <3>3 DEF SeatsCoverStaff
  <2> QED
    BY <2>4, <2>5
<1>9. ASSUME NEW u \in Users, Ledger!Activate(u)
      PROVE  SeatsCoverStaff'
  <2>1. PICK o \in Plans : o = planOf[u]
    BY <1>9 DEF Ledger!Activate, Ledger!DbTypeOK
  <2>2. /\ u \in registered /\ active' = [active EXCEPT ![u] = TRUE]
        /\ UNCHANGED <<registered, planOf>> /\ assigned' = Ledger!Taken(o)
    BY <1>9, <2>1 DEF Ledger!Activate
  <2>3. S' \subseteq S \cup {u}
    BY <2>2 DEF Staff, Ledger!DbTypeOK
  <2> QED
    BY <1>5, <2>2, <2>3
<1>10. ASSUME NEW u \in Users, Ledger!Import(u)
       PROVE  SeatsCoverStaff'
  <2>1. /\ u \notin registered /\ registered' = registered \cup {u}
        /\ planOf' = [planOf EXCEPT ![u] = None] /\ active' = [active EXCEPT ![u] = TRUE]
        /\ assigned' = assigned
    BY <1>10 DEF Ledger!Import, Ledger!seatVars
  <2>2. S' = S
    BY <2>1 DEF Staff, Ledger!DbTypeOK
  <2> QED
    BY <1>1, <2>1, <2>2 DEF SeatsCoverStaff
<1> QED
  BY <1>3, <1>4, <1>6, <1>7, <1>8, <1>9, <1>10 DEF Clerical

\* A block takes an employee off the staff and no seat away.
LEMMA BlockCovers ==
  ASSUME SeatsCoverStaff, SeatsWithinAllocation, Ledger!DbTypeOK, IInv, NoUnblock,
         NEW r \in Requests, UpdateUser(r)
  PROVE  SeatsCoverStaff'
<1>1. /\ active' = [active EXCEPT ![job[r].user] = FALSE]
      /\ UNCHANGED <<assigned, registered, planOf>>
  BY DEF UpdateUser, NoUnblock, seatVars
<1>2. Staff' \subseteq Staff /\ Staff \in SUBSET Users
  BY <1>1 DEF Staff, Ledger!DbTypeOK
<1>3. /\ IsFiniteSet(Staff) /\ Cardinality(Staff') <= Cardinality(Staff)
      /\ Cardinality(Staff) \in Nat /\ Cardinality(Staff') \in Nat
  BY <1>2, Countable, FS_Subset, FS_CardinalityType
<1>4. assigned \in [Plans -> 0..MaxSeats]
  BY MaxSeatsAssumption DEF Ledger!DbTypeOK, SeatsWithinAllocation
<1>5. Cardinality(SeatsGiven(assigned)) \in Nat
  BY <1>4, SeatsCountable
<1>6. Cardinality(SeatsGiven(assigned))' = Cardinality(SeatsGiven(assigned))
  BY <1>1
<1> QED
  BY <1>3, <1>5, <1>6 DEF SeatsCoverStaff

\* Whatever a company's administrator and employees do side by side, and
\* whomever the platform blocks, the seats assigned over all plans cover the
\* active employees who have a plan.
THEOREM StaffCovered ==
  ASSUME "unblock" \notin Kinds
  PROVE  Spec => []SeatsCoverStaff
<1>1. Init => NoUnblock
  BY DEF Init, NoUnblock, NoJob, Job
<1>2. Init => SeatsCoverStaff
  BY CoverInit
<1>3. ASSUME IInv, IInv', NoUnblock, SeatsCoverStaff, [Next]_vars
      PROVE  SeatsCoverStaff'
  <2>1. CASE \E r \in Requests : UpdateUser(r)
    BY <1>3, <2>1, BlockCovers DEF IInv, TypeOK
  <2>2. CASE \A r \in Requests : ~UpdateUser(r)
    BY <1>3, <2>2, ClericalStep, CoverStep DEF IInv, TypeOK
  <2> QED
    BY <2>1, <2>2
<1> QED
  BY <1>1, <1>2, <1>3, SwitchStep, Invariance, PTL DEF Spec
=============================================================================
