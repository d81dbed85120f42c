----------------------------- MODULE SeatLedger -----------------------------
(***************************************************************************)
(* What one company's seats, employees and invitations promise: the        *)
(* database tables plan_allocations, users (role EMPLOYEE) and             *)
(* invite_tokens restricted to one company, changed by operations that     *)
(* happen at once.  Each operation is what one HTTP request is meant to    *)
(* do when nothing else runs; CompanySeats shows that the requests, run    *)
(* concurrently statement by statement, amount to these operations.        *)
(*                                                                         *)
(* An employee account is identified with its (normalised) email: the      *)
(* column is unique.  Every query of these services filters on the         *)
(* company_id of the caller's token, so companies do not interact.         *)
(***************************************************************************)
EXTENDS Integers, FiniteSets

CONSTANTS
  Plans,      \* the tariffs (UserPlan)
  Users,      \* email addresses, i.e. employee accounts that may exist
  Invites,    \* invitation rows that may be created
  MaxSeats,   \* bound on the seats of one tariff
  None        \* SQL NULL: no plan, no bound email, no user

VARIABLES
  sold,        \* plans the company has a plan_allocations row for
  allocated,   \* plan_allocations.allocated
  assigned,    \* plan_allocations.assigned
  registered,  \* employee accounts that exist
  planOf,      \* users.plan
  active,      \* users.is_active
  origin,      \* the invitation an account was made from, or None (history)
  invite,      \* invite_tokens.status, "NONE" before creation
  terms,       \* the plan and the email an invitation is bound to
  usedBy,      \* invite_tokens.used_by_id
  lapsed       \* invitations whose expires_at has passed

seatVars == <<sold, allocated, assigned>>
userVars == <<registered, planOf, active, origin>>
inviteVars == <<invite, terms, usedBy, lapsed>>
dbVars == <<sold, allocated, assigned, registered, planOf, active, origin,
            invite, terms, usedBy, lapsed>>

InviteStatus == {"NONE", "ACTIVE", "USED", "EXPIRED", "REVOKED"}
Terms == [plan : Plans, email : Users \cup {None}]

DbTypeOK ==
  /\ sold \in SUBSET Plans
  /\ allocated \in [Plans -> 0..MaxSeats]
  /\ assigned \in [Plans -> Nat]
  /\ registered \in SUBSET Users
  /\ planOf \in [Users -> Plans \cup {None}]
  /\ active \in [Users -> BOOLEAN]
  /\ origin \in [Users -> Invites \cup {None}]
  /\ invite \in [Invites -> InviteStatus]
  /\ terms \in [Invites -> Terms \cup {None}]
  /\ \A i \in Invites : invite[i] # "NONE" => terms[i] \in Terms
  /\ usedBy \in [Invites -> Users \cup {None}]
  /\ lapsed \in SUBSET Invites

\* The active employees on plan p: those a seat of p is meant for.
Holders(p) == {u \in registered : active[u] /\ planOf[u] = p}

(***************************************************************************)
(* Any company whose books are in order: employees hold seats of the plans *)
(* they are on, no invitation has been issued.                             *)
(***************************************************************************)
Init ==
  /\ sold \in SUBSET Plans
  /\ allocated \in {a \in [Plans -> 0..MaxSeats] :
                      \A p \in Plans \ sold : a[p] = 0}
  /\ registered \in SUBSET Users
  /\ planOf \in {f \in [Users -> sold \cup {None}] :
                   \A u \in Users \ registered : f[u] = None}
  /\ active \in {f \in [Users -> BOOLEAN] :
                   \A u \in Users \ registered : ~f[u]}
  /\ assigned = [p \in Plans |-> Cardinality(Holders(p))]
  /\ \A p \in Plans : assigned[p] <= allocated[p]
  /\ origin = [u \in Users |-> None]
  /\ invite = [i \in Invites |-> "NONE"]
  /\ terms = [i \in Invites |-> None]
  /\ usedBy = [i \in Invites |-> None]
  /\ lapsed = {}
-----------------------------------------------------------------------------
(* Seats (plans/service.py). *)

\* The assigned column after a seat of p was taken.
Taken(p) == [assigned EXCEPT ![p] = @ + 1]

\* The assigned column after a seat of p was given back: a zero counter is
\* left alone.
Returned(a, p) == IF a[p] > 0 THEN [a EXCEPT ![p] = @ - 1] ELSE a

HasSeat(p) == p \in sold /\ assigned[p] < allocated[p]

SetAllocated(p, n) ==
  /\ n >= assigned[p]
  /\ sold' = sold \cup {p}
  /\ allocated' = [allocated EXCEPT ![p] = n]
  /\ UNCHANGED assigned
  /\ UNCHANGED userVars
  /\ UNCHANGED inviteVars
-----------------------------------------------------------------------------
(* Employees (users/service.py, companies/employee_service.py,             *)
(* admin_routes.py, companies/routes.py).                                  *)

Register(u, i) ==
  /\ u \notin registered
  /\ invite[i] = "ACTIVE"
  /\ terms[i].email \in {None, u}
  /\ HasSeat(terms[i].plan)
  /\ registered' = registered \cup {u}
  /\ planOf' = [planOf EXCEPT ![u] = terms[i].plan]
  /\ active' = [active EXCEPT ![u] = TRUE]
  /\ origin' = [origin EXCEPT ![u] = i]
  /\ invite' = [invite EXCEPT ![i] = "USED"]
  /\ usedBy' = [usedBy EXCEPT ![i] = u]
  /\ assigned' = Taken(terms[i].plan)
  /\ UNCHANGED <<sold, allocated, terms, lapsed>>

ChangePlan(u, p) ==
  /\ u \in registered
  /\ planOf[u] # p
  /\ HasSeat(p)
  /\ assigned' = IF planOf[u] = None THEN Taken(p)
                 ELSE Returned(Taken(p), planOf[u])
  /\ planOf' = [planOf EXCEPT ![u] = p]
  /\ UNCHANGED <<sold, allocated, registered, active, origin>>
  /\ UNCHANGED inviteVars

Deactivate(u) ==
  /\ u \in registered
  /\ active[u]
  /\ assigned' = IF planOf[u] = None THEN assigned
                 ELSE Returned(assigned, planOf[u])
  /\ active' = [active EXCEPT ![u] = FALSE]
  /\ UNCHANGED <<sold, allocated, registered, planOf, origin>>
  /\ UNCHANGED inviteVars

Activate(u) ==
  /\ u \in registered
  /\ ~active[u]
  /\ planOf[u] # None
  /\ HasSeat(planOf[u])
  /\ assigned' = Taken(planOf[u])
  /\ active' = [active EXCEPT ![u] = TRUE]
  /\ UNCHANGED <<sold, allocated, registered, planOf, origin>>
  /\ UNCHANGED inviteVars

\* The platform administrator's switch: no seat is touched.
SetActive(u, on) ==
  /\ u \in registered
  /\ active' = [active EXCEPT ![u] = on]
  /\ UNCHANGED <<registered, planOf, origin>>
  /\ UNCHANGED seatVars
  /\ UNCHANGED inviteVars

\* An employee imported from Bitrix24: active, without a plan or a seat.
Import(u) ==
  /\ u \notin registered
  /\ registered' = registered \cup {u}
  /\ planOf' = [planOf EXCEPT ![u] = None]
  /\ active' = [active EXCEPT ![u] = TRUE]
  /\ origin' = [origin EXCEPT ![u] = None]
  /\ UNCHANGED seatVars
  /\ UNCHANGED inviteVars
-----------------------------------------------------------------------------
(* Invitations (invites/service.py). *)

CreateInvite(i, t) ==
  /\ invite[i] = "NONE"
  /\ invite' = [invite EXCEPT ![i] = "ACTIVE"]
  /\ terms' = [terms EXCEPT ![i] = t]
  /\ UNCHANGED <<usedBy, lapsed>>
  /\ UNCHANGED seatVars
  /\ UNCHANGED userVars

RevokeInvite(i) ==
  /\ invite[i] = "ACTIVE"
  /\ invite' = [invite EXCEPT ![i] = "REVOKED"]
  /\ UNCHANGED <<terms, usedBy, lapsed>>
  /\ UNCHANGED seatVars
  /\ UNCHANGED userVars

ExpireInvite(i) ==
  /\ invite[i] = "ACTIVE"
  /\ i \in lapsed
  /\ invite' = [invite EXCEPT ![i] = "EXPIRED"]
  /\ UNCHANGED <<terms, usedBy, lapsed>>
  /\ UNCHANGED seatVars
  /\ UNCHANGED userVars

\* The clock passes expires_at; nothing reads it once the status is final.
Lapse(i) ==
  /\ invite[i] = "ACTIVE"
  /\ lapsed' = lapsed \cup {i}
  /\ UNCHANGED <<invite, terms, usedBy>>
  /\ UNCHANGED seatVars
  /\ UNCHANGED userVars

Next ==
  \/ \E p \in Plans, n \in 0..MaxSeats : SetAllocated(p, n)
  \/ \E u \in Users, i \in Invites : Register(u, i)
  \/ \E u \in Users, p \in Plans : ChangePlan(u, p)
  \/ \E u \in Users : Deactivate(u) \/ Activate(u) \/ Import(u)
  \/ \E u \in Users, on \in BOOLEAN : SetActive(u, on)
  \/ \E i \in Invites, t \in Terms : CreateInvite(i, t)
  \/ \E i \in Invites : RevokeInvite(i) \/ ExpireInvite(i) \/ Lapse(i)

Spec == Init /\ [][Next]_dbVars
=============================================================================
