------------------------------ MODULE MCTenants ------------------------------
(* An instance of Reports, and so of Tenants, for TLC: a company c with an  *)
(* employee u, a merchant m with an account s and a benefit b for all, a    *)
(* merchant g without either, and the rows requests may add: an account v,  *)
(* an invitation i, a benefit k of g for the company alone, a redemption    *)
(* with its code by each employee, and accounts w, z that only an import    *)
(* makes.                                                                   *)
EXTENDS Reports, TLC

CONSTANTS c, m, g, u, s, b, a, v, i, k, r1, p1, r2, p2, l, w, z, d1, d2, n1, n2, q1

Redemption(e, y) == [employee |-> e, company |-> c, benefit |-> y]
Code(e, y, r) == [benefit |-> y, employee |-> e, redemption |-> r, redeemed_by |-> None]
Account == [company |-> c, merchant |-> None]

MCTable ==
  (c :> "companies") @@ (m :> "merchants") @@ (g :> "merchants") @@ (a :> "plan_allocations") @@
  (i :> "invite_tokens") @@ (l :> "audit_logs") @@
  [y \in {u, s, v, w, z} |-> "users"] @@ [y \in {b, k} |-> "benefits"] @@
  [y \in {r1, r2} |-> "benefit_redemptions"] @@ [y \in {p1, p2} |-> "promo_codes"]

MCBorn ==
  (c :> [y \in {} |-> None]) @@ (m :> [y \in {} |-> None]) @@ (g :> [y \in {} |-> None]) @@
  (u :> Account) @@ (v :> Account) @@ (w :> Account) @@ (z :> Account) @@
  (s :> [company |-> None, merchant |-> m]) @@
  (a :> [company |-> c]) @@
  (i :> [company |-> c, created_by |-> u, used_by |-> None]) @@
  (b :> [merchant |-> m, company |-> None]) @@ (k :> [merchant |-> g, company |-> c]) @@
  (r1 :> Redemption(u, b)) @@ (p1 :> Code(u, b, r1)) @@
  (r2 :> Redemption(v, k)) @@ (p2 :> Code(v, k, r2)) @@
  (l :> [actor |-> u, company |-> c])

\* The import's account w has the address of the registration v.
MCEmail == [y \in {u, s, v, w, z} |-> IF y = w THEN v ELSE y]

MCBatches == {{v}, {i, l}, {k}, {r1, p1}, {r2, p2}}

Entry(y, n) == [email |-> MCEmail[y], ext |-> n, row |-> y]
MCSheet == (n1 :> <<Entry(w, 1), Entry(z, 2)>>) @@ (n2 :> <<Entry(z, 2)>>)

\* Who takes part beside the insertions: a second deletion, a report, or two
\* imports with the one registration that is in their way.
VARIABLE cast

Casts == {[who |-> {d1, d2}, adds |-> MCBatches],
          [who |-> {d1, q1}, adds |-> MCBatches \ {{i, l}}],
          [who |-> {d1, n1, n2}, adds |-> {{v}}]}

\* The insertions of a behaviour.
Added == {B \in MCBatches : \A y \in B : life[y] # "new"}

MCNext ==
  /\ Next
  /\ UNCHANGED cast
  /\ \A n \in (Deletions \cup Imports) \ cast.who : pc'[n] = "idle"
  /\ q1 \in cast.who \/ subject'[q1] = None
  /\ pc'[d2] # "idle" => pc'[d1] # "idle"
  /\ (Added \ cast.adds)' = Added \ cast.adds

MCInit == Init /\ cast \in Casts

MCSpec == MCInit /\ [][MCNext]_<<vars, cast>>
=============================================================================
