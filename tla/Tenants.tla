------------------------------- MODULE Tenants -------------------------------
(***************************************************************************)
(* What the deletion of a company or a merchant does to the rows that      *)
(* belong to it (companies/routes.py, merchants/routes.py), while other    *)
(* requests insert such rows: accounts, invitations, benefits, redemptions *)
(* with their codes, records of the audit, an import from Bitrix24.        *)
(*                                                                         *)
(* Two mechanisms meet in a deletion.  SQLAlchemy loads the children it    *)
(* knows by a relationship and, for those without a delete cascade, sets   *)
(* their foreign key to NULL.  PostgreSQL then applies ON DELETE to        *)
(* whatever still refers to the row, children inserted since included.     *)
(* An INSERT locks the rows it refers to (FOR KEY SHARE) until it commits, *)
(* and the DELETE of a locked row waits.                                   *)
(***************************************************************************)
EXTENDS Integers, Sequences, FiniteSets

CONSTANTS
  Rows,
  Table,     \* the table of a row
  Born,      \* its foreign keys as inserted: columns to rows, or None
  Email,     \* users.email
  Standing,  \* rows there from the start
  Batches,   \* sets of rows that one transaction inserts
  Deletions, \* requests to delete
  Imports, Sheet,   \* requests to import and the lists Bitrix24 answers with
  None

ASSUME TenantsRows ==
  /\ Standing \subseteq Rows /\ Batches \subseteq SUBSET (Rows \ Standing)
  /\ None \notin Rows

VARIABLES
  life,     \* of each row: "new", "pending" (not committed), "live" or "gone"
  cut,      \* <<row, column>> of the foreign keys set to NULL since
  ext,      \* users.external_bitrix_id
  pc,       \* where each deletion and import is
  target,   \* the company or merchant being deleted, the company importing
  known,    \* children a deletion has loaded and will detach
  found     \* the accounts an import has matched its entries with

rowVars == <<life, cut, ext>>
tenantVars == <<life, cut, ext, pc, target, known, found>>
-----------------------------------------------------------------------------
(* The foreign keys of the schema.  benefit_plan_offers is left out: its   *)
(* rows refer to their benefit alone, go with it and are counted nowhere.  *)

Key(table, column, onDelete) == [table |-> table, column |-> column, onDelete |-> onDelete]

-----------------------------------------------------------------------------
(* Mistakes the properties must notice: what a definition below, named at  *)
(* the right, would be after a plausible slip in the code.  No action uses *)
(* them.                                                                   *)

\* CodeKeys: the code goes with its redemption.
CodeFollows ==
  {Key("promo_codes", c, "CASCADE") : c \in {"benefit", "employee", "redemption"}}
    \cup {Key("promo_codes", "redeemed_by", "SET NULL")}

\* Holders: an INSERT does not lock what it refers to.
NoHolders(S) == {}

\* Detached: Merchant.benefits with passive_deletes.
OnlyAccounts(x) == {y \in Rows : life[y] = "live" /\ Table[y] = "users"
                                 /\ \E c \in {"company", "merchant"} : Born[y][c] = x}

\* EmailFree: users.email is not unique.
AnyEmail(R) == TRUE
-----------------------------------------------------------------------------
UserKeys == {Key("users", "company", "CASCADE"), Key("users", "merchant", "CASCADE")}
AllocationKeys == {Key("plan_allocations", "company", "CASCADE")}
InviteKeys == {Key("invite_tokens", "company", "CASCADE"),
               Key("invite_tokens", "created_by", "SET NULL"),
               Key("invite_tokens", "used_by", "SET NULL")}
BenefitKeys == {Key("benefits", "merchant", "CASCADE"), Key("benefits", "company", "CASCADE")}
RedemptionKeys ==
  {Key("benefit_redemptions", c, "CASCADE") : c \in {"employee", "company", "benefit"}}
CodeKeys == {Key("promo_codes", "benefit", "CASCADE"), Key("promo_codes", "employee", "CASCADE"),
             Key("promo_codes", "redemption", "SET NULL"),
             Key("promo_codes", "redeemed_by", "SET NULL")}
AuditKeys == {Key("audit_logs", "actor", "SET NULL"), Key("audit_logs", "company", "SET NULL")}

Schema == UserKeys \cup AllocationKeys \cup InviteKeys \cup BenefitKeys
            \cup RedemptionKeys \cup CodeKeys \cup AuditKeys

\* The table a column refers to, and the columns that are NOT NULL.
RefersTo ==
  [company |-> "companies", merchant |-> "merchants", benefit |-> "benefits",
   redemption |-> "benefit_redemptions", employee |-> "users", actor |-> "users",
   created_by |-> "users", used_by |-> "users", redeemed_by |-> "users"]

NotNull ==
  {<<"plan_allocations", "company">>, <<"invite_tokens", "company">>,
   <<"benefits", "merchant">>, <<"promo_codes", "benefit">>, <<"promo_codes", "employee">>}
    \cup {<<"benefit_redemptions", c>> : c \in {"employee", "company", "benefit"}}

Columns(table) == {k.column : k \in {key \in Schema : key.table = table}}

\* The rows are of the schema.
ASSUME TenantsSchema ==
  \A x \in Rows :
    /\ DOMAIN Born[x] = Columns(Table[x])
    /\ \A c \in DOMAIN Born[x] :
         \/ Born[x][c] \in Rows /\ Table[Born[x][c]] = RefersTo[c]
         \/ Born[x][c] = None /\ <<Table[x], c>> \notin NotNull

\* What is there from the start satisfies its constraints.
ASSUME TenantsStanding ==
  /\ \A x \in Standing : \A c \in DOMAIN Born[x] : Born[x][c] \in Standing \cup {None}
  /\ \A x, y \in Standing :
       x # y /\ Table[x] = "users" /\ Table[y] = "users" => Email[x] # Email[y]

\* A row is inserted by one request or by imports, and these insert accounts
\* of employees only.
ASSUME TenantsRequests ==
  /\ Deletions \cap Imports = {}
  /\ \A A, B \in Batches : A # B => A \cap B = {}
  /\ \A i \in Imports :
       /\ Sheet[i] \in Seq({Sheet[i][j] : j \in DOMAIN Sheet[i]})
       /\ \A j \in DOMAIN Sheet[i] :
            /\ Sheet[i][j].row \in Rows \ UNION Batches
            /\ Table[Sheet[i][j].row] = "users" /\ Born[Sheet[i][j].row]["merchant"] = None

Live == {x \in Rows : life[x] = "live"}
Of(table) == {x \in Live : Table[x] = table}

\* The row a foreign key refers to, None if it is NULL.
RefIn(x, column, C) == IF <<x, column>> \in C THEN None ELSE Born[x][column]
Ref(x, column) == RefIn(x, column, cut)

\* The keys of live rows that refer to a row of S, with what happens to them.
Referring(onDelete, S, C) ==
  {t \in Live \X Schema : /\ Table[t[1]] = t[2].table /\ t[2].onDelete = onDelete
                         /\ RefIn(t[1], t[2].column, C) \in S}

Cascade(S, C) == S \cup {t[1] : t \in Referring("CASCADE", S, C)}

\* The longest chain of cascades: company, account or benefit, redemption.
Doomed(x, C) == Cascade(Cascade(Cascade({x}, C), C), C)

Unset(S, C) == {<<t[1], t[2].column>> : t \in Referring("SET NULL", S, C)}

\* Rows inserted but not committed that hold a row of S.
Holders(S) ==
  {x \in Rows : life[x] = "pending" /\ \E c \in DOMAIN Born[x] : Born[x][c] \in S}
-----------------------------------------------------------------------------
TypeOK ==
  /\ life \in [Rows -> {"new", "pending", "live", "gone"}]
  /\ \A t \in cut : t[2] \in DOMAIN Born[t[1]] /\ Born[t[1]][t[2]] # None
  /\ pc \in [Deletions \cup Imports -> {"idle", "work", "done", "failed"}]
  /\ target \in [Deletions \cup Imports -> Rows \cup {None}]
  /\ known \in [Deletions -> SUBSET Rows]
  /\ \A i \in Imports : Len(found[i]) <= Len(Sheet[i])

TenantInit ==
  /\ life = [x \in Rows |-> IF x \in Standing THEN "live" ELSE "new"]
  /\ cut = {}
  /\ ext = [x \in {y \in Rows : Table[y] = "users"} |-> None]
  /\ pc = [d \in Deletions \cup Imports |-> "idle"]
  /\ target = [d \in Deletions \cup Imports |-> None]
  /\ known = [d \in Deletions |-> {}]
  /\ found = [i \in Imports |-> <<>>]

Become(S, state) == life' = [x \in Rows |-> IF x \in S THEN state ELSE life[x]]

\* The unique index on users.email; an INSERT waits for one of the same
\* address that has not been committed.
EmailFree(R) ==
  \A x \in R, y \in Rows :
    /\ x # y /\ Table[x] = "users" /\ Table[y] = "users" /\ Email[x] = Email[y]
    => y \notin R /\ life[y] \notin {"live", "pending"}
-----------------------------------------------------------------------------
(* Transactions that insert: registration, create_invite, create_benefit,  *)
(* redeem_benefit with issue_promo_code.                                   *)

Insert(B) ==
  /\ \A x \in B : life[x] = "new"
  /\ \A x \in B : \A c \in DOMAIN Born[x] :
       Born[x][c] # None => life[Born[x][c]] = "live" \/ Born[x][c] \in B
  /\ EmailFree(B)
  /\ Become(B, "pending")
  /\ UNCHANGED <<cut, ext, pc, target, known, found>>

Commit(B) ==
  /\ \A x \in B : life[x] = "pending"
  /\ Become(B, "live")
  /\ UNCHANGED <<cut, ext, pc, target, known, found>>

\* An error later in the request, a deadlock, a stop of the process.
Abort(B) ==
  /\ \A x \in B : life[x] = "pending"
  /\ Become(B, "gone")
  /\ UNCHANGED <<cut, ext, pc, target, known, found>>
-----------------------------------------------------------------------------
(* delete_company and delete_merchant.                                     *)

\* Company.users, Merchant.users and Merchant.benefits have no delete
\* cascade.  Allocations and invitations have: they go with the company
\* whether they were loaded or not.
Detached(x) ==
  {y \in Live : \/ Table[y] = "users" /\ x \in {Ref(y, "company"), Ref(y, "merchant")}
                \/ Table[y] = "benefits" /\ x = Ref(y, "merchant")}

Load(d) ==
  /\ pc[d] = "idle"
  /\ \E x \in Live :
       /\ Table[x] \in {"companies", "merchants"}
       /\ target' = [target EXCEPT ![d] = x]
       /\ known' = [known EXCEPT ![d] = Detached(x)]
  /\ pc' = [pc EXCEPT ![d] = "work"]
  /\ UNCHANGED <<rowVars, found>>

\* The columns a deletion sets to NULL before it deletes.
Nulled(d) ==
  {t \in known[d] \X {"company", "merchant"} : Ref(t[1], t[2]) = target[d]}

\* benefits.merchant_id is NOT NULL; an account that is gone matches no row.
FlushFails(d) == \E y \in known[d] : Table[y] = "benefits" \/ life[y] # "live"

DeletionFails(d) ==
  /\ pc[d] = "work" /\ FlushFails(d)
  /\ pc' = [pc EXCEPT ![d] = "failed"]
  /\ UNCHANGED <<rowVars, target, known, found>>

\* A row that is gone already is deleted without complaint.
Delete(d) ==
  LET C == cut \cup Nulled(d)
      gone == Doomed(target[d], C)
  IN
  /\ pc[d] = "work" /\ ~FlushFails(d)
  /\ Holders(gone) = {}
  /\ Become(gone, "gone")
  /\ cut' = C \cup Unset(gone, C)
  /\ pc' = [pc EXCEPT ![d] = "done"]
  /\ UNCHANGED <<ext, target, known, found>>
-----------------------------------------------------------------------------
(* sync_bitrix_employees.                                                  *)

\* fetch_employees has followed "next" to the end of the list.
ImportStarts(i) ==
  /\ pc[i] = "idle"
  /\ \E x \in Live : Table[x] = "companies" /\ target' = [target EXCEPT ![i] = x]
  /\ pc' = [pc EXCEPT ![i] = "work"]
  /\ UNCHANGED <<rowVars, known, found>>

\* No list, a violated index, a company that is gone: nothing is kept.
ImportFails(i) ==
  /\ pc[i] = "work"
  /\ pc' = [pc EXCEPT ![i] = "failed"]
  /\ UNCHANGED <<rowVars, target, known, found>>

Matches(entry) ==
  {u \in Live : Table[u] = "users" /\ (Email[u] = entry.email \/ ext[u] = entry.ext)}

\* The account an entry is about, of whatever company; any one of several.
LookUp(i) ==
  LET entry == Sheet[i][Len(found[i]) + 1] IN
  /\ pc[i] = "work" /\ Len(found[i]) < Len(Sheet[i])
  /\ \E u \in IF Matches(entry) = {} THEN {None} ELSE Matches(entry) :
       found' = [found EXCEPT ![i] = Append(@, u)]
  /\ pc' = pc
  /\ UNCHANGED <<rowVars, target, known>>

\* Accounts to insert, and the row each entry ends up in.
RowFor(i, j) == IF found[i][j] = None THEN Sheet[i][j].row ELSE found[i][j]
NewAccounts(i) == {Sheet[i][j].row : j \in {k \in DOMAIN found[i] : found[i][k] = None}}

\* Of two entries about one account the later one counts.
Renumbered(i) ==
  [u \in DOMAIN ext |->
     LET J == {j \in DOMAIN found[i] : RowFor(i, j) = u} IN
     IF J = {} THEN ext[u] ELSE Sheet[i][CHOOSE j \in J : \A k \in J : k <= j].ext]

NumbersUnique(S, e) ==
  \A u, v \in S \cap DOMAIN e : u # v => e[u] = None \/ e[u] # e[v]

ImportCommits(i) ==
  LET N == NewAccounts(i) IN
  /\ pc[i] = "work" /\ Len(found[i]) = Len(Sheet[i])
  /\ life[target[i]] = "live"
  /\ \A j \in DOMAIN found[i] : found[i][j] # None => life[found[i][j]] = "live"
  /\ \A u \in N : life[u] = "new" /\ Born[u]["company"] = target[i]
  /\ EmailFree(N) /\ NumbersUnique(Live \cup N, Renumbered(i))
  /\ Become(N, "live")
  /\ ext' = Renumbered(i)
  /\ pc' = [pc EXCEPT ![i] = "done"]
  /\ UNCHANGED <<cut, target, known, found>>
-----------------------------------------------------------------------------
TenantNext ==
  \/ \E B \in Batches : Insert(B) \/ Commit(B) \/ Abort(B)
  \/ \E d \in Deletions : Load(d) \/ DeletionFails(d) \/ Delete(d)
  \/ \E i \in Imports : ImportStarts(i) \/ ImportFails(i) \/ LookUp(i) \/ ImportCommits(i)

TenantSpec == TenantInit /\ [][TenantNext]_tenantVars
-----------------------------------------------------------------------------
(* Properties. *)

\* No row refers to one that is gone, whatever was being inserted while a
\* tenant was deleted (001_initial_schema.py:50-306).
NoDangling ==
  \A x \in Live : \A c \in DOMAIN Born[x] : Ref(x, c) # None => Ref(x, c) \in Live

\* delete_company says that it deletes what belongs to the company in cascade
\* (companies/routes.py:123), and users.company_id is ON DELETE CASCADE
\* (001_initial_schema.py:95-96): no account outlives its company.
AccountsFollow ==
  \A x \in Of("users") : Born[x]["company"] # None => life[Born[x]["company"]] # "gone"

\* A code stays while its benefit and the account it was issued to do: the
\* merchant keeps his history (analytics/service.py:149-150).
MerchantHistory ==
  [][\A x \in Live : Table[x] = "promo_codes" /\ life'[x] = "gone" =>
       \E c \in {"benefit", "employee"} : life'[Born[x][c]] = "gone"]_tenantVars

\* The deletion of a merchant removes no benefit that was there before: only
\* the deletion of its company does (merchants/models.py:32).
BenefitsOutlive ==
  [][\A x \in Live \cap Standing : Table[x] = "benefits" /\ life'[x] = "gone" =>
       Born[x]["company"] # None /\ life'[Born[x]["company"]] = "gone"]_tenantVars

\* No two accounts of one address or one Bitrix24 id, though imports and
\* registrations look first and insert later (companies/routes.py:162-192).
AccountsUnique ==
  /\ NumbersUnique(Live, ext)
  /\ \A u, v \in Live :
       u # v /\ Table[u] = "users" /\ Table[v] = "users" => Email[u] # Email[v]
=============================================================================
