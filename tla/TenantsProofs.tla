---------------------------- MODULE TenantsProofs ----------------------------
(***************************************************************************)
(* Proofs about Tenants and Reports: what a deletion leaves behind, and    *)
(* that what an earlier figure of a report counts a later one has counted. *)
(* The assumptions of Tenants and Reports say that the rows are of the     *)
(* schema and of the requests that insert them. Four facts carry the       *)
(* proof: the rows a deletion takes are closed under cascades, although    *)
(* Doomed follows them three steps only; a row not committed refers to     *)
(* live rows and to rows of its own transaction; the only columns ever set *)
(* to NULL are those of accounts and those the schema sets to NULL; a code *)
(* stays with its redemption until the company is deleted.                 *)
(***************************************************************************)
EXTENDS Reports, TLAPS

Typed ==
  /\ life \in [Rows -> {"new", "pending", "live", "gone"}]
  /\ pc \in [Deletions \cup Imports -> {"idle", "work", "done", "failed"}]
  /\ target \in [Deletions \cup Imports -> Rows \cup {None}]
  /\ known \in [Deletions -> SUBSET Rows]
  /\ found \in [Imports -> Seq(Rows \cup {None})]
  /\ DOMAIN ext = {x \in Rows : Table[x] = "users"}

Tenancies == {"companies", "merchants"}

\* What is there from the start never waits for a commit.
Started == \A x \in Standing : life[x] \in {"live", "gone"}

\* A row not committed is of a transaction of which no row is, and refers to
\* live rows, which it locks, and to rows of that transaction.
Held ==
  \A x \in Rows : life[x] = "pending" =>
    \E B \in Batches :
      /\ x \in B /\ \A y \in B : life[y] = "pending"
      /\ \A c \in DOMAIN Born[x] : Born[x][c] # None => Born[x][c] \in Live \cup B

\* Columns set to NULL: of an account, or ON DELETE SET NULL.
CutsAllowed ==
  \A t \in cut : \/ Table[t[1]] = "users"
                 \/ Key(Table[t[1]], t[2], "SET NULL") \in Schema

\* A deletion under way is of a tenant, has loaded accounts and benefits only,
\* and every benefit of a merchant that was there from the start.
Aimed ==
  /\ \A i \in Imports : pc[i] = "work" => target[i] \in Rows
  /\ \A d \in Deletions : pc[d] = "work" =>
       /\ target[d] \in Rows /\ Table[target[d]] \in Tenancies
       /\ life[target[d]] \in {"live", "gone"}
       /\ \A y \in known[d] : Table[y] \in {"users", "benefits"}
       /\ \A y \in Live \cap Standing :
            Table[y] = "benefits" /\ Born[y]["merchant"] = target[d] => y \in known[d]

\* Addresses differ among the accounts there and being inserted; an account not
\* committed has no number yet.
Accounts ==
  /\ NumbersUnique(Live, ext)
  /\ \A x, y \in Rows :
       /\ x # y /\ Table[x] = "users" /\ Table[y] = "users"
       /\ life[x] \in {"pending", "live"} /\ life[y] \in {"pending", "live"}
       => Email[x] # Email[y]
  /\ \A x \in DOMAIN ext : life[x] \in {"new", "pending"} => ext[x] = None

\* A code outlives its redemption only with the company deleted.
CodesKept ==
  \A p \in Of("promo_codes") : LET r == Born[p]["redemption"] IN
    life[r] = "live" \/ life[Born[r]["company"]] = "gone"

TenantInv ==
  /\ Typed /\ NoDangling /\ Started /\ Held
  /\ CutsAllowed /\ Aimed /\ Accounts /\ CodesKept
-----------------------------------------------------------------------------
(* Reports. *)

ReaderTyped ==
  /\ subject \in [Readers -> Rows \cup {None}]
  /\ step \in [Readers -> 0..5]
  /\ counted \in [Readers -> [Figures -> SUBSET Rows]]
  /\ partial \in [Readers -> SUBSET Figures]
  /\ \A q \in Readers :
       IF subject[q] = None THEN step[q] = 0
       ELSE Table[subject[q]] \in Tenancies /\ step[q] <= Len(Statements(q))

Once(x) == life[x] \in {"live", "gone"}

\* A redemption is in a table of a report, unless the table leaves groups out.
Shows(q, r, table) == table \in partial[q] \/ r \in counted[q][table]

\* Or it is gone.
Has(q, r, table) == Shows(q, r, table) \/ life[r] = "gone"

\* What the statements of a company's report have counted so far.
CompanyReport(q) ==
  LET x == subject[q]
      rows == counted[q]
  IN
  (x # None /\ Table[x] = "companies") =>
    /\ step[q] >= 1 =>
         \A p \in rows["codes"] : LET r == Born[p]["redemption"] IN
           /\ r \in Rows /\ Table[r] = "benefit_redemptions"
           /\ Once(r) /\ Born[r]["company"] = x
           /\ step[q] >= 2 => r \in rows["total"] \/ life[r] = "gone"
    /\ step[q] >= 2 =>
         \A r \in rows["total"] :
           /\ r \in Rows /\ Table[r] = "benefit_redemptions"
           /\ Once(r) /\ Born[r]["company"] = x
           /\ step[q] >= 3 => Has(q, r, "categories")
           /\ step[q] >= 4 => Has(q, r, "merchants")
           /\ step[q] >= 5 => Has(q, r, "benefits")

\* And of a merchant's.
MerchantReport(q) ==
  LET x == subject[q]
      rows == counted[q]
  IN
  (x # None /\ Table[x] = "merchants" /\ step[q] >= 1) =>
    \A p \in rows["codes"] : LET r == Born[p]["redemption"] IN
      /\ Table[p] = "promo_codes" /\ Born[Born[p]["benefit"]]["merchant"] = x
      /\ \/ IF step[q] = 1 THEN life[r] = "live" ELSE Shows(q, r, "benefits")
         \/ life[Born[r]["company"]] = "gone"
         \/ life[x] = "gone"

ReportInv == ReaderTyped /\ \A q \in Readers : CompanyReport(q) /\ MerchantReport(q)

IInv == TenantInv /\ ReportInv
-----------------------------------------------------------------------------
(* The schema. *)

\* The keys, one by one.
LEMMA SchemaKeys ==
  ASSUME NEW k
  PROVE  k \in Schema <=>
           \/ k = Key("users", "company", "CASCADE")
           \/ k = Key("users", "merchant", "CASCADE")
           \/ k = Key("plan_allocations", "company", "CASCADE")
           \/ k = Key("invite_tokens", "company", "CASCADE")
           \/ k = Key("invite_tokens", "created_by", "SET NULL")
           \/ k = Key("invite_tokens", "used_by", "SET NULL")
           \/ k = Key("benefits", "merchant", "CASCADE")
           \/ k = Key("benefits", "company", "CASCADE")
           \/ k = Key("benefit_redemptions", "employee", "CASCADE")
           \/ k = Key("benefit_redemptions", "company", "CASCADE")
           \/ k = Key("benefit_redemptions", "benefit", "CASCADE")
           \/ k = Key("promo_codes", "benefit", "CASCADE")
           \/ k = Key("promo_codes", "employee", "CASCADE")
           \/ k = Key("promo_codes", "redemption", "SET NULL")
           \/ k = Key("promo_codes", "redeemed_by", "SET NULL")
           \/ k = Key("audit_logs", "actor", "SET NULL")
           \/ k = Key("audit_logs", "company", "SET NULL")
  <1>1. k \in RedemptionKeys <=>
          \/ k = Key("benefit_redemptions", "employee", "CASCADE")
          \/ k = Key("benefit_redemptions", "company", "CASCADE")
          \/ k = Key("benefit_redemptions", "benefit", "CASCADE")
    BY DEF RedemptionKeys
  <1> QED
    BY <1>1, Zenon
    DEF Schema, UserKeys, AllocationKeys, InviteKeys, BenefitKeys, CodeKeys, AuditKeys

\* Two keys are equal when their parts are.
LEMMA KeyParts ==
  ASSUME NEW t, NEW c, NEW o, NEW u, NEW d, NEW p
  PROVE  /\ Key(t, c, o).table = t /\ Key(t, c, o).column = c /\ Key(t, c, o).onDelete = o
         /\ Key(t, c, o) = Key(u, d, p) <=> t = u /\ c = d /\ o = p
  BY DEF Key

\* A key is what its parts say, and ON DELETE is one of two actions.
LEMMA SchemaParts ==
  ASSUME NEW k \in Schema
  PROVE  /\ k = Key(k.table, k.column, k.onDelete)
         /\ k.onDelete \in {"CASCADE", "SET NULL"}
  <1>1. \E t, c : k = Key(t, c, "CASCADE") \/ k = Key(t, c, "SET NULL")
    BY SchemaKeys, Zenon
  <1>2. PICK t, c : k = Key(t, c, "CASCADE") \/ k = Key(t, c, "SET NULL")
    BY <1>1
  <1>3. CASE k = Key(t, c, "CASCADE")
    BY <1>3 DEF Key
  <1>4. CASE k = Key(t, c, "SET NULL")
    BY <1>4 DEF Key
  <1> QED BY <1>2, <1>3, <1>4

\* A cascade follows a column of a tenant to it, or one of a redemption or a
\* code to an account or a benefit; no tenant refers to anything.
LEMMA CascadeKeys ==
  ASSUME NEW t, NEW c, Key(t, c, "CASCADE") \in Schema
  PROVE  /\ t \notin Tenancies /\ t # "audit_logs"
         /\ t \in {"users", "benefits"} => c \in {"company", "merchant"}
         /\ c = "merchant" => t \in {"users", "benefits"}
         /\ t = "promo_codes" => c \in {"employee", "benefit"}
         /\ \/ c \in {"company", "merchant"} /\ RefersTo[c] \in Tenancies
            \/ /\ t \in {"benefit_redemptions", "promo_codes"}
               /\ c \in {"employee", "benefit"} /\ RefersTo[c] \in {"users", "benefits"}
  <1>1. \/ t \in {"users", "benefits"} /\ c \in {"company", "merchant"}
        \/ t \in {"plan_allocations", "invite_tokens"} /\ c = "company"
        \/ t = "benefit_redemptions" /\ c \in {"employee", "company", "benefit"}
        \/ t = "promo_codes" /\ c \in {"employee", "benefit"}
    <2> DEFINE k == Key(t, c, "CASCADE")
    <2> HIDE DEF k
    <2>1. \A u, d : k = Key(u, d, "CASCADE") => t = u /\ c = d
      BY KeyParts DEF k
    <2>2. \A u, d : k # Key(u, d, "SET NULL")
      <3>1. k.onDelete = "CASCADE"
        BY DEF k, Key
      <3>2. ASSUME NEW u, NEW d PROVE Key(u, d, "SET NULL").onDelete = "SET NULL"
        BY DEF Key
      <3> QED BY <3>1, <3>2
    <2>3. k \in Schema
      BY DEF k
    <2>4. \E u, d : k = Key(u, d, "CASCADE") /\
            (\/ u \in {"users", "benefits"} /\ d \in {"company", "merchant"}
             \/ u \in {"plan_allocations", "invite_tokens"} /\ d = "company"
             \/ u = "benefit_redemptions" /\ d \in {"employee", "company", "benefit"}
             \/ u = "promo_codes" /\ d \in {"employee", "benefit"})
      BY <2>2, <2>3, SchemaKeys, Zenon
    <2> QED BY <2>1, <2>4
  <1>2. /\ RefersTo["company"] = "companies" /\ RefersTo["merchant"] = "merchants"
        /\ RefersTo["employee"] = "users" /\ RefersTo["benefit"] = "benefits"
    BY DEF RefersTo
  <1> QED BY <1>1, <1>2 DEF Tenancies

\* What is set to NULL: who created, used or redeemed, the redemption of a code
\* and the columns of the audit; never a column that cascades.
LEMMA SetNullKeys ==
  ASSUME NEW t, NEW c, Key(t, c, "SET NULL") \in Schema
  PROVE  /\ \/ t = "audit_logs" /\ c \in {"actor", "company"}
            \/ /\ t \in {"invite_tokens", "promo_codes"}
               /\ c \in {"created_by", "used_by", "redemption", "redeemed_by"}
         /\ Key(t, c, "CASCADE") \notin Schema
  <1> DEFINE k == Key(t, c, "SET NULL")
  <1> HIDE DEF k
  <1>1. ASSUME NEW u, NEW d, k = Key(u, d, "SET NULL") PROVE t = u /\ c = d
    BY <1>1 DEF k, Key
  <1>2. \A u, d : k # Key(u, d, "CASCADE")
    <2>1. k.onDelete = "SET NULL"
      BY DEF k, Key
    <2>2. ASSUME NEW u, NEW d PROVE Key(u, d, "CASCADE").onDelete = "CASCADE"
      BY DEF Key
    <2> QED BY <2>1, <2>2
  <1>3. k \in Schema
    BY DEF k
  <1>4. \E u, d : k = Key(u, d, "SET NULL") /\
          (\/ u = "audit_logs" /\ d \in {"actor", "company"}
           \/ /\ u \in {"invite_tokens", "promo_codes"}
              /\ d \in {"created_by", "used_by", "redemption", "redeemed_by"})
    BY <1>2, <1>3, SchemaKeys, Zenon
  <1>5. \/ t = "audit_logs" /\ c \in {"actor", "company"}
        \/ /\ t \in {"invite_tokens", "promo_codes"}
           /\ c \in {"created_by", "used_by", "redemption", "redeemed_by"}
    BY <1>1, <1>4
  <1>6. ASSUME Key(t, c, "CASCADE") \in Schema PROVE FALSE
    BY <1>5, <1>6, CascadeKeys
  <1> QED BY <1>5, <1>6

\* Every column has a key with one of the two ON DELETE actions.
LEMMA KeyOf ==
  ASSUME NEW x \in Rows, NEW c \in DOMAIN Born[x]
  PROVE  \/ Key(Table[x], c, "CASCADE") \in Schema
         \/ Key(Table[x], c, "SET NULL") \in Schema
  <1>1. PICK k \in Schema : k.table = Table[x] /\ k.column = c
    BY TenantsSchema DEF Columns
  <1> QED BY <1>1, SchemaParts

\* A column of a row with a key is in its domain.
LEMMA KeyColumn ==
  ASSUME NEW x \in Rows, NEW c, NEW o, Key(Table[x], c, o) \in Schema
  PROVE  c \in DOMAIN Born[x]
  BY TenantsSchema DEF Columns, Key

\* Who is in one step of the cascade.
LEMMA CascadeStep ==
  ASSUME NEW S, NEW C, NEW y
  PROVE  y \in Cascade(S, C) <=>
           \/ y \in S
           \/ y \in Live /\ \E c : /\ Key(Table[y], c, "CASCADE") \in Schema
                                  /\ RefIn(y, c, C) \in S
  <1> DEFINE R == Referring("CASCADE", S, C)
  <1>1. ASSUME NEW t \in R
        PROVE  t[1] \in Live /\ \E c : /\ Key(Table[t[1]], c, "CASCADE") \in Schema
                                     /\ RefIn(t[1], c, C) \in S
    <2>1. /\ t \in Live \X Schema /\ Table[t[1]] = t[2].table /\ t[2].onDelete = "CASCADE"
          /\ RefIn(t[1], t[2].column, C) \in S
      BY DEF Referring
    <2>2. t[1] \in Live /\ t[2] \in Schema
      BY <2>1
    <2>3. t[2] = Key(Table[t[1]], t[2].column, "CASCADE")
      BY <2>1, <2>2, SchemaParts
    <2> QED BY <2>1, <2>2, <2>3
  <1>2. ASSUME y \in Live, NEW c, Key(Table[y], c, "CASCADE") \in Schema, RefIn(y, c, C) \in S
        PROVE  \E t \in R : y = t[1]
    <2> DEFINE t == <<y, Key(Table[y], c, "CASCADE")>>
    <2>1. t \in Live \X Schema /\ t[1] = y /\ t[2] = Key(Table[y], c, "CASCADE")
      BY <1>2
    <2>2. t[2].table = Table[y] /\ t[2].column = c /\ t[2].onDelete = "CASCADE"
      BY <2>1, KeyParts
    <2> HIDE DEF t
    <2>3. t \in R
      BY <1>2, <2>1, <2>2 DEF Referring
    <2> QED BY <2>1, <2>3
  <1>3. y \in Cascade(S, C) <=> y \in S \/ \E t \in R : y = t[1]
    BY DEF Cascade
  <1> QED BY <1>1, <1>2, <1>3

\* A foreign key that refers to a row is the one inserted, to a row of its
\* column's table, and has not been set to NULL.
LEMMA RefersToRow ==
  ASSUME NEW y \in Rows, NEW c \in DOMAIN Born[y], NEW C, RefIn(y, c, C) \in Rows
  PROVE  /\ <<y, c>> \notin C /\ RefIn(y, c, C) = Born[y][c]
         /\ Table[Born[y][c]] = RefersTo[c]
  BY TenantsRows, TenantsSchema DEF RefIn

\* Three steps of the cascade are all of it: the deletion of a tenant takes the
\* tenant and live rows, with every live row that cascades from one it takes;
\* and each row it takes cascades from another.
LEMMA DoomedClosed ==
  ASSUME NEW x \in Rows, Table[x] \in Tenancies, NEW C
  PROVE  LET G == Doomed(x, C) IN
         /\ x \in G /\ G \subseteq Live \cup {x}
         /\ \A y \in Live : \A c \in DOMAIN Born[y] :
              Key(Table[y], c, "CASCADE") \in Schema /\ RefIn(y, c, C) \in G => y \in G
         /\ \A y \in G : y = x \/ \E c \in DOMAIN Born[y] :
              /\ Key(Table[y], c, "CASCADE") \in Schema
              /\ <<y, c>> \notin C /\ Born[y][c] \in G
  <1> DEFINE S == Cascade({x}, C)
             T == Cascade(S, C)
             G == Cascade(T, C)
  <1> HIDE DEF S, T, G
  <1>1. \A y : y \in S <=> y = x \/ (y \in Live /\ \E c :
                   Key(Table[y], c, "CASCADE") \in Schema /\ RefIn(y, c, C) = x)
    BY CascadeStep DEF S
  <1>2. \A y : y \in T <=> y \in S \/ (y \in Live /\ \E c :
                   Key(Table[y], c, "CASCADE") \in Schema /\ RefIn(y, c, C) \in S)
    BY CascadeStep DEF T
  <1>3. \A y : y \in G <=> y \in T \/ (y \in Live /\ \E c :
                   Key(Table[y], c, "CASCADE") \in Schema /\ RefIn(y, c, C) \in T)
    BY CascadeStep DEF G
  <1>4. /\ x \in S /\ S \subseteq T /\ T \subseteq G
        /\ G \subseteq Live \cup {x} /\ Live \subseteq Rows /\ G \subseteq Rows
    BY <1>1, <1>2, <1>3 DEF Live
  <1>5. ASSUME NEW y \in Live, NEW c, Key(Table[y], c, "CASCADE") \in Schema,
               RefIn(y, c, C) \in G
        PROVE  /\ c \in DOMAIN Born[y] /\ <<y, c>> \notin C
               /\ RefIn(y, c, C) = Born[y][c] /\ Table[Born[y][c]] = RefersTo[c]
    <2>1. y \in Rows /\ RefIn(y, c, C) \in Rows
      BY <1>4, <1>5
    <2>2. c \in DOMAIN Born[y]
      BY <1>5, <2>1, KeyColumn
    <2> QED BY <2>1, <2>2, RefersToRow
  <1>6. ASSUME NEW y \in G
        PROVE  y = x \/ (y \in Live /\ \E c : /\ Key(Table[y], c, "CASCADE") \in Schema
                                           /\ RefIn(y, c, C) \in G)
    BY <1>1, <1>2, <1>3, <1>4
  <1>7. ASSUME NEW y \in G, Table[y] \in Tenancies
        PROVE  y = x
    BY <1>6, <1>7, CascadeKeys
  <1>8. ASSUME NEW y \in G, Table[y] \in {"users", "benefits"}
        PROVE  y \in S
    <2>1. y # x
      BY <1>8 DEF Tenancies
    <2>2. PICK c : /\ y \in Live /\ Key(Table[y], c, "CASCADE") \in Schema
                   /\ RefIn(y, c, C) \in G
      BY <1>6, <2>1
    <2>3. c \in {"company", "merchant"} /\ RefIn(y, c, C) = Born[y][c]
          /\ Table[Born[y][c]] = RefersTo[c]
      BY <1>5, <1>8, <2>2, CascadeKeys
    <2>4. Table[Born[y][c]] \in Tenancies
      BY <2>3 DEF RefersTo, Tenancies
    <2> QED BY <1>1, <1>7, <2>2, <2>3, <2>4
  <1>9. ASSUME NEW y \in Live, NEW c, Key(Table[y], c, "CASCADE") \in Schema,
               RefIn(y, c, C) \in G
        PROVE  y \in G
    <2>1. Table[RefIn(y, c, C)] = RefersTo[c]
      BY <1>5, <1>9
    <2>2. RefIn(y, c, C) = x \/ RefIn(y, c, C) \in S
      BY <1>7, <1>8, <1>9, <2>1, CascadeKeys
    <2> QED BY <1>2, <1>3, <1>4, <1>9, <2>2
  <1>10. G = Doomed(x, C)
    BY DEF G, T, S, Doomed
  <1> QED BY <1>4, <1>5, <1>6, <1>9, <1>10
-----------------------------------------------------------------------------
(* Deletions. *)

\* Outside accounts, a column that cascades is never set to NULL.
LEMMA NeverCut ==
  ASSUME CutsAllowed, NEW y \in Rows, Table[y] # "users",
         NEW c, Key(Table[y], c, "CASCADE") \in Schema
  PROVE  <<y, c>> \notin cut /\ Ref(y, c) = Born[y][c]
  <1>1. ASSUME <<y, c>> \in cut PROVE FALSE
    <2>1. <<y, c>>[1] = y /\ <<y, c>>[2] = c
      OBVIOUS
    <2> QED BY <1>1, <2>1, SetNullKeys DEF CutsAllowed
  <1> QED BY <1>1 DEF Ref, RefIn

\* The rows a deletion takes.
Taken(d) == Doomed(target[d], cut \cup Nulled(d))

\* A deletion takes a tenant and live rows.  A live row it leaves, and a row
\* not committed, refers to none of them any more.  A row it takes cascades
\* from another; outside accounts, one that cascades from them is taken.
LEMMA DeleteFacts ==
  ASSUME TenantInv, NEW d \in Deletions, Delete(d)
  PROVE  LET G == Taken(d) IN
         /\ target[d] \in G /\ Table[target[d]] \in Tenancies
         /\ G \subseteq Live \cup {target[d]} /\ G \subseteq Rows
         /\ life[target[d]] \in {"live", "gone"}
         /\ \A x \in Rows : life'[x] = IF x \in G THEN "gone" ELSE life[x]
         /\ life' \in [Rows -> {"new", "pending", "live", "gone"}]
         /\ cut \subseteq cut'
         /\ \A t \in cut' \ cut : \/ Table[t[1]] = "users"
                                 \/ Key(Table[t[1]], t[2], "SET NULL") \in Schema
         /\ \A x \in Live \ G : \A c \in DOMAIN Born[x] :
              <<x, c>> \notin cut' => Born[x][c] \notin G
         /\ \A x \in Rows : life[x] = "pending" =>
              \A c \in DOMAIN Born[x] : Born[x][c] \notin G
         /\ \A x \in G : x = target[d] \/ \E c \in DOMAIN Born[x] :
              /\ Key(Table[x], c, "CASCADE") \in Schema
              /\ <<x, c>> \notin cut \cup Nulled(d) /\ Born[x][c] \in G
         /\ \A x \in Live : \A c \in DOMAIN Born[x] :
              /\ Table[x] # "users" /\ Key(Table[x], c, "CASCADE") \in Schema
              /\ Born[x][c] \in G
              => x \in G
  <1> DEFINE C == cut \cup Nulled(d)
             G == Taken(d)
  <1>1. /\ pc[d] = "work" /\ ~FlushFails(d) /\ Holders(G) = {}
        /\ Become(G, "gone") /\ cut' = C \cup Unset(G, C)
    BY DEF Delete, Taken
  <1>2. /\ target[d] \in Rows /\ Table[target[d]] \in Tenancies
        /\ life[target[d]] \in {"live", "gone"}
        /\ \A y \in known[d] : Table[y] = "users"
    BY <1>1 DEF TenantInv, Aimed, FlushFails
  <1>3. /\ target[d] \in G /\ G \subseteq Live \cup {target[d]}
        /\ \A y \in Live : \A c \in DOMAIN Born[y] :
             Key(Table[y], c, "CASCADE") \in Schema /\ RefIn(y, c, C) \in G => y \in G
        /\ \A y \in G : y = target[d] \/ \E c \in DOMAIN Born[y] :
             /\ Key(Table[y], c, "CASCADE") \in Schema
             /\ <<y, c>> \notin C /\ Born[y][c] \in G
    BY <1>2, DoomedClosed DEF Taken
  <1> HIDE DEF G
  <1>4. G \subseteq Rows
    BY <1>2, <1>3 DEF Live
  <1>5. /\ \A x \in Rows : life'[x] = IF x \in G THEN "gone" ELSE life[x]
        /\ life' \in [Rows -> {"new", "pending", "live", "gone"}]
    BY <1>1 DEF Become, TenantInv, Typed
  <1>6. \A t \in Unset(G, C) : Key(Table[t[1]], t[2], "SET NULL") \in Schema
    <2>1. ASSUME NEW t \in Referring("SET NULL", G, C)
          PROVE  Key(Table[t[1]], t[2].column, "SET NULL") \in Schema
      <3>1. t[2] \in Schema /\ Table[t[1]] = t[2].table /\ t[2].onDelete = "SET NULL"
        BY DEF Referring
      <3> QED BY <3>1, SchemaParts
    <2>2. ASSUME NEW t \in Unset(G, C)
          PROVE  Key(Table[t[1]], t[2], "SET NULL") \in Schema
      <3>1. PICK r \in Referring("SET NULL", G, C) : t = <<r[1], r[2].column>>
        BY DEF Unset
      <3>2. t[1] = r[1] /\ t[2] = r[2].column
        BY <3>1
      <3> QED BY <2>1, <3>2
    <2> QED BY <2>2
  <1>7. \A t \in Nulled(d) : Table[t[1]] = "users"
    BY <1>2 DEF Nulled
  <1>8. ASSUME NEW x \in Live \ G, NEW c \in DOMAIN Born[x], <<x, c>> \notin cut',
               Born[x][c] \in G
        PROVE  FALSE
    <2>1. x \in Rows /\ x \in Live /\ x \notin G /\ RefIn(x, c, C) = Born[x][c]
      BY <1>1, <1>8 DEF Live, RefIn
    <2>2. Key(Table[x], c, "SET NULL") \in Schema
      BY <1>3, <1>8, <2>1, KeyOf
    <2> DEFINE t == <<x, Key(Table[x], c, "SET NULL")>>
    <2>3. t \in Live \X Schema /\ t[1] = x /\ t[2] = Key(Table[x], c, "SET NULL")
      BY <2>1, <2>2
    <2>4. t[2].table = Table[x] /\ t[2].column = c /\ t[2].onDelete = "SET NULL"
      BY <2>3 DEF Key
    <2> HIDE DEF t
    <2>5. t \in Referring("SET NULL", G, C)
      BY <1>8, <2>1, <2>3, <2>4 DEF Referring
    <2>6. <<x, c>> \in Unset(G, C)
      BY <2>3, <2>4, <2>5 DEF Unset
    <2> QED BY <1>1, <1>8, <2>6
  <1>9. ASSUME NEW x \in Rows, life[x] = "pending", NEW c \in DOMAIN Born[x]
        PROVE  Born[x][c] \notin G
    BY <1>1, <1>9 DEF Holders
  <1>10. ASSUME NEW x \in Live, NEW c \in DOMAIN Born[x], Table[x] # "users",
                Key(Table[x], c, "CASCADE") \in Schema, Born[x][c] \in G
         PROVE  x \in G
    <2>1. x \in Rows /\ <<x, c>> \notin cut
      BY <1>10, NeverCut DEF Live, TenantInv
    <2>2. <<x, c>> \notin Nulled(d)
      BY <1>7, <1>10
    <2>3. RefIn(x, c, C) = Born[x][c]
      BY <2>1, <2>2 DEF RefIn
    <2> QED BY <1>3, <1>10, <2>3
  <1>11. \A t \in cut' \ cut : \/ Table[t[1]] = "users"
                              \/ Key(Table[t[1]], t[2], "SET NULL") \in Schema
    BY <1>1, <1>6, <1>7
  <1>12. cut \subseteq cut'
    BY <1>1
  <1> QED BY <1>2, <1>3, <1>4, <1>5, <1>8, <1>9, <1>10, <1>11, <1>12 DEF G
-----------------------------------------------------------------------------
(* Rows of redemptions and codes. *)

\* What a redemption refers to exists and takes the redemption with it.
LEMMA RedemptionRow ==
  ASSUME NEW r \in Rows, Table[r] = "benefit_redemptions"
  PROVE  \A c \in {"employee", "company", "benefit"} :
           /\ c \in DOMAIN Born[r] /\ Key(Table[r], c, "CASCADE") \in Schema
           /\ Born[r][c] \in Rows /\ Table[Born[r][c]] = RefersTo[c]
  <1> SUFFICES ASSUME NEW c \in {"employee", "company", "benefit"}
               PROVE  /\ c \in DOMAIN Born[r] /\ Key(Table[r], c, "CASCADE") \in Schema
                      /\ Born[r][c] \in Rows /\ Table[Born[r][c]] = RefersTo[c]
    OBVIOUS
  <1>1. Key(Table[r], c, "CASCADE") \in Schema
    BY SchemaKeys
  <1>2. c \in DOMAIN Born[r]
    BY <1>1, KeyColumn
  <1>3. <<Table[r], c>> \in NotNull
    BY DEF NotNull
  <1> QED BY <1>1, <1>2, <1>3, TenantsSchema

\* A code is of the benefit and the account of its redemption, and both take it
\* with them.
LEMMA CodeRow ==
  ASSUME NEW p \in Rows, Table[p] = "promo_codes"
  PROVE  LET r == Born[p]["redemption"] IN
         /\ r \in Rows /\ Table[r] = "benefit_redemptions"
         /\ "redemption" \in DOMAIN Born[p]
         /\ \A c \in {"employee", "benefit"} :
              /\ c \in DOMAIN Born[p] /\ Key(Table[p], c, "CASCADE") \in Schema
              /\ Born[p][c] = Born[r][c]
  <1>1. /\ Key(Table[p], "redemption", "SET NULL") \in Schema
        /\ Key(Table[p], "employee", "CASCADE") \in Schema
        /\ Key(Table[p], "benefit", "CASCADE") \in Schema
    BY SchemaKeys
  <1>2. {"redemption", "employee", "benefit"} \subseteq DOMAIN Born[p]
    BY <1>1, KeyColumn
  <1>3. RefersTo["redemption"] = "benefit_redemptions"
    BY DEF RefersTo
  <1>4. Born[p]["redemption"] # None
    BY ReportsRows
  <1>5. /\ Born[p]["redemption"] \in Rows
        /\ Table[Born[p]["redemption"]] = "benefit_redemptions"
    BY <1>2, <1>3, <1>4, TenantsSchema
  <1> QED BY <1>1, <1>2, <1>5, ReportsRows

\* A benefit has a merchant.
LEMMA BenefitRow ==
  ASSUME NEW b \in Rows, Table[b] = "benefits"
  PROVE  /\ \A c \in {"company", "merchant"} :
              c \in DOMAIN Born[b] /\ Key(Table[b], c, "CASCADE") \in Schema
         /\ Born[b]["merchant"] \in Rows /\ Table[Born[b]["merchant"]] = "merchants"
  <1>1. \A c \in {"company", "merchant"} : Key(Table[b], c, "CASCADE") \in Schema
    BY SchemaKeys
  <1>2. \A c \in {"company", "merchant"} : c \in DOMAIN Born[b]
    BY <1>1, KeyColumn
  <1>3. <<Table[b], "merchant">> \in NotNull
    BY DEF NotNull
  <1>4. RefersTo["merchant"] = "merchants"
    BY DEF RefersTo
  <1> QED BY <1>1, <1>2, <1>3, <1>4, TenantsSchema
-----------------------------------------------------------------------------
(* The invariant of Tenants. *)

\* It holds at the start.
LEMMA TenantStart == TenantInit => TenantInv
  <1> SUFFICES ASSUME TenantInit PROVE TenantInv
    OBVIOUS
  <1>1. /\ life = [x \in Rows |-> IF x \in Standing THEN "live" ELSE "new"]
        /\ cut = {} /\ ext = [x \in {y \in Rows : Table[y] = "users"} |-> None]
        /\ pc = [d \in Deletions \cup Imports |-> "idle"]
        /\ target = [d \in Deletions \cup Imports |-> None]
        /\ known = [d \in Deletions |-> {}] /\ found = [i \in Imports |-> <<>>]
    BY DEF TenantInit
  <1>2. Typed
    <2>1. <<>> \in Seq(Rows \cup {None})
      OBVIOUS
    <2>2. life \in [Rows -> {"new", "pending", "live", "gone"}]
      BY <1>1
    <2>3. /\ pc \in [Deletions \cup Imports -> {"idle", "work", "done", "failed"}]
          /\ target \in [Deletions \cup Imports -> Rows \cup {None}]
      BY <1>1
    <2>4. known \in [Deletions -> SUBSET Rows] /\ found \in [Imports -> Seq(Rows \cup {None})]
      BY <1>1, <2>1
    <2> QED BY <1>1, <2>2, <2>3, <2>4 DEF Typed
  <1>3. Live = Standing
    BY <1>1, TenantsRows DEF Live
  <1>4. NoDangling
    BY <1>1, <1>3, TenantsStanding DEF NoDangling, Ref, RefIn
  <1>5. Started /\ Held /\ CutsAllowed /\ Aimed
    BY <1>1, TenantsRows DEF Started, Held, CutsAllowed, Aimed
  <1>6. Accounts
    BY <1>1, TenantsStanding DEF Accounts, NumbersUnique
  <1>7. CodesKept
    <2> SUFFICES ASSUME NEW p \in Of("promo_codes")
                 PROVE  life[Born[p]["redemption"]] = "live"
      BY DEF CodesKept
    <2>1. p \in Standing /\ p \in Rows /\ Table[p] = "promo_codes"
      BY <1>3, TenantsRows DEF Of
    <2>2. Born[p]["redemption"] \in Standing
      BY <2>1, CodeRow, TenantsStanding, TenantsRows
    <2> QED BY <1>1, <2>2, TenantsRows
  <1> QED BY <1>2, <1>4, <1>5, <1>6, <1>7 DEF TenantInv

\* Every INSERT of a batch keeps it: the new rows wait for nothing but live rows
\* and each other.
LEMMA InsertKeeps ==
  ASSUME TenantInv, NEW B \in Batches, Insert(B)
  PROVE  TenantInv'
  <1>1. /\ \A x \in B : life[x] = "new" /\ x \in Rows
        /\ life' = [x \in Rows |-> IF x \in B THEN "pending" ELSE life[x]]
        /\ UNCHANGED <<cut, ext, pc, target, known, found>>
    BY TenantsRows DEF Insert, Become
  <1>2. Typed'
    BY <1>1 DEF TenantInv, Typed
  <1>3. Live' = Live
    BY <1>1 DEF Live
  <1>4. NoDangling'
    BY <1>1, <1>3 DEF TenantInv, NoDangling, Ref, RefIn
  <1>5. Started' /\ CutsAllowed'
    BY <1>1, TenantsRows DEF TenantInv, Started, CutsAllowed
  <1>6. Held'
    <2> SUFFICES ASSUME NEW x \in Rows, life'[x] = "pending"
                 PROVE  \E A \in Batches :
                          /\ x \in A /\ \A y \in A : life'[y] = "pending"
                          /\ \A c \in DOMAIN Born[x] :
                               Born[x][c] # None => Born[x][c] \in Live \cup A
      BY <1>3 DEF Held
    <2>1. CASE x \in B
      <3>1. \A c \in DOMAIN Born[x] : Born[x][c] # None => Born[x][c] \in Live \cup B
        BY <2>1, TenantsSchema DEF Insert, Live
      <3> QED BY <1>1, <2>1, <3>1
    <2>2. CASE x \notin B
      <3>1. life[x] = "pending"
        BY <1>1, <2>2
      <3>2. PICK A \in Batches : /\ x \in A /\ \A y \in A : life[y] = "pending"
                                 /\ \A c \in DOMAIN Born[x] :
                                      Born[x][c] # None => Born[x][c] \in Live \cup A
        BY <3>1 DEF TenantInv, Held
      <3>3. \A y \in A : life'[y] = "pending"
        BY <1>1, <3>2, TenantsRows
      <3> QED BY <3>2, <3>3
    <2> QED BY <2>1, <2>2
  <1>7. Aimed'
    <2>1. \A x \in Rows : life[x] \in {"live", "gone"} => life'[x] = life[x]
      BY <1>1
    <2> QED BY <1>1, <1>3, <2>1 DEF TenantInv, Aimed
  <1>8. Accounts'
    <2>1. NumbersUnique(Live, ext)'
      BY <1>1, <1>3 DEF TenantInv, Accounts, NumbersUnique
    <2>2. ASSUME NEW x \in Rows, NEW y \in Rows, x # y, Table[x] = "users", Table[y] = "users",
                 life'[x] \in {"pending", "live"}, life'[y] \in {"pending", "live"}
          PROVE  Email[x] # Email[y]
      <3>1. EmailFree(B)
        BY DEF Insert
      <3>2. (x \in B \/ life[x] \in {"pending", "live"}) /\ (y \in B \/ life[y] \in {"pending", "live"})
        BY <1>1, <2>2
      <3> QED BY <2>2, <3>1, <3>2 DEF EmailFree, TenantInv, Accounts
    <2>3. \A x \in DOMAIN ext' : life'[x] \in {"new", "pending"} => ext'[x] = None
      BY <1>1 DEF TenantInv, Accounts, Typed
    <2> QED BY <2>1, <2>2, <2>3 DEF Accounts
  <1>9. CodesKept'
    <2> SUFFICES ASSUME NEW p \in Of("promo_codes")
                 PROVE  LET r == Born[p]["redemption"] IN
                        life'[r] = "live" \/ life'[Born[r]["company"]] = "gone"
      BY <1>3 DEF CodesKept, Of
    <2>1. p \in Rows /\ Table[p] = "promo_codes"
      BY DEF Of, Live
    <2> DEFINE r == Born[p]["redemption"]
    <2>2. r \in Rows /\ Born[r]["company"] \in Rows
      BY <2>1, CodeRow, RedemptionRow
    <2>3. life[r] = "live" \/ life[Born[r]["company"]] = "gone"
      BY DEF TenantInv, CodesKept
    <2> QED BY <1>1, <2>2, <2>3
  <1> QED BY <1>2, <1>4, <1>5, <1>6, <1>7, <1>8, <1>9 DEF TenantInv

\* Two transactions insert different rows.
LEMMA OneBatch ==
  ASSUME NEW A \in Batches, NEW B \in Batches, NEW x \in A, x \in B
  PROVE  A = B
  BY TenantsRequests

\* COMMIT keeps it: what the new rows refer to is live, as no deletion could take
\* it while they held it.
LEMMA CommitKeeps ==
  ASSUME TenantInv, NEW B \in Batches, Commit(B)
  PROVE  TenantInv'
  <1>1. /\ \A x \in B : life[x] = "pending" /\ x \in Rows
        /\ life' = [x \in Rows |-> IF x \in B THEN "live" ELSE life[x]]
        /\ UNCHANGED <<cut, ext, pc, target, known, found>>
    BY TenantsRows DEF Commit, Become
  <1>2. Typed'
    BY <1>1 DEF TenantInv, Typed
  <1>3. Live' = Live \cup B
    BY <1>1 DEF Live
  <1>4. \A x \in B : \A c \in DOMAIN Born[x] : Born[x][c] # None => Born[x][c] \in Live \cup B
    BY <1>1, OneBatch DEF TenantInv, Held
  <1>5. NoDangling'
    BY <1>1, <1>3, <1>4 DEF TenantInv, NoDangling, Ref, RefIn
  <1>6. Started' /\ CutsAllowed'
    BY <1>1, TenantsRows DEF TenantInv, Started, CutsAllowed
  <1>7. Held'
    <2> SUFFICES ASSUME NEW x \in Rows, life'[x] = "pending"
                 PROVE  \E A \in Batches :
                          /\ x \in A /\ \A y \in A : life'[y] = "pending"
                          /\ \A c \in DOMAIN Born[x] :
                               Born[x][c] # None => Born[x][c] \in Live' \cup A
      BY DEF Held
    <2>1. life[x] = "pending" /\ x \notin B
      BY <1>1
    <2>2. PICK A \in Batches : /\ x \in A /\ \A y \in A : life[y] = "pending"
                               /\ \A c \in DOMAIN Born[x] :
                                    Born[x][c] # None => Born[x][c] \in Live \cup A
      BY <2>1 DEF TenantInv, Held
    <2>3. \A y \in A : y \notin B /\ y \in Rows
      BY <2>1, <2>2, OneBatch, TenantsRows
    <2> QED BY <1>1, <1>3, <2>2, <2>3
  <1>8. Aimed'
    <2>1. \A x \in Rows : life[x] \in {"live", "gone"} => life'[x] = life[x]
      BY <1>1
    <2>2. Live' \cap Standing \subseteq Live
      BY <1>1, <1>3 DEF TenantInv, Started
    <2> QED BY <1>1, <2>1, <2>2 DEF TenantInv, Aimed
  <1>9. Accounts'
    <2>1. \A x \in B : x \in DOMAIN ext => ext[x] = None
      BY <1>1 DEF TenantInv, Accounts
    <2>2. NumbersUnique(Live, ext)'
      BY <1>1, <1>3, <2>1 DEF TenantInv, Accounts, NumbersUnique
    <2>3. \A x \in Rows : life'[x] \in {"pending", "live"} => life[x] \in {"pending", "live"}
      BY <1>1
    <2>4. \A x \in DOMAIN ext' : life'[x] \in {"new", "pending"} => ext'[x] = None
      BY <1>1 DEF TenantInv, Accounts, Typed
    <2> QED BY <2>2, <2>3, <2>4 DEF TenantInv, Accounts
  <1>10. CodesKept'
    <2> SUFFICES ASSUME NEW p \in Rows, life'[p] = "live", Table[p] = "promo_codes"
                 PROVE  LET r == Born[p]["redemption"] IN
                        life'[r] = "live" \/ life'[Born[r]["company"]] = "gone"
      BY DEF CodesKept, Of, Live
    <2> DEFINE r == Born[p]["redemption"]
    <2>1. r \in Rows /\ Born[r]["company"] \in Rows /\ r # None
          /\ "redemption" \in DOMAIN Born[p]
      BY CodeRow, RedemptionRow, TenantsRows
    <2>2. CASE p \in B
      BY <1>1, <1>3, <1>4, <2>1, <2>2 DEF Live
    <2>3. CASE p \notin B
      <3>1. life[r] = "live" \/ life[Born[r]["company"]] = "gone"
        BY <1>1, <2>3 DEF TenantInv, CodesKept, Of, Live
      <3> QED BY <1>1, <2>1, <3>1
    <2> QED BY <2>2, <2>3
  <1> QED BY <1>2, <1>5, <1>6, <1>7, <1>8, <1>9, <1>10 DEF TenantInv

\* ROLLBACK keeps it: nobody but its own rows referred to the rows of a batch.
LEMMA AbortKeeps ==
  ASSUME TenantInv, NEW B \in Batches, Abort(B)
  PROVE  TenantInv'
  <1>1. /\ \A x \in B : life[x] = "pending" /\ x \in Rows
        /\ life' = [x \in Rows |-> IF x \in B THEN "gone" ELSE life[x]]
        /\ UNCHANGED <<cut, ext, pc, target, known, found>>
    BY TenantsRows DEF Abort, Become
  <1>2. Typed'
    BY <1>1 DEF TenantInv, Typed
  <1>3. Live' = Live
    BY <1>1 DEF Live
  <1>4. NoDangling'
    BY <1>1, <1>3 DEF TenantInv, NoDangling, Ref, RefIn
  <1>5. Started' /\ CutsAllowed'
    BY <1>1, TenantsRows DEF TenantInv, Started, CutsAllowed
  <1>6. Held'
    <2> SUFFICES ASSUME NEW x \in Rows, life'[x] = "pending"
                 PROVE  \E A \in Batches :
                          /\ x \in A /\ \A y \in A : life'[y] = "pending"
                          /\ \A c \in DOMAIN Born[x] :
                               Born[x][c] # None => Born[x][c] \in Live \cup A
      BY <1>3 DEF Held
    <2>1. life[x] = "pending" /\ x \notin B
      BY <1>1
    <2>2. PICK A \in Batches : /\ x \in A /\ \A y \in A : life[y] = "pending"
                               /\ \A c \in DOMAIN Born[x] :
                                    Born[x][c] # None => Born[x][c] \in Live \cup A
      BY <2>1 DEF TenantInv, Held
    <2>3. \A y \in A : y \notin B /\ y \in Rows
      BY <2>1, <2>2, OneBatch, TenantsRows
    <2> QED BY <1>1, <2>2, <2>3
  <1>7. Aimed'
    <2>1. \A x \in Rows : life[x] \in {"live", "gone"} => life'[x] = life[x]
      BY <1>1
    <2> QED BY <1>1, <1>3, <2>1 DEF TenantInv, Aimed
  <1>8. Accounts'
    <2>1. NumbersUnique(Live, ext)'
      BY <1>1, <1>3 DEF TenantInv, Accounts, NumbersUnique
    <2>2. \A x \in Rows : life'[x] \in {"new", "pending", "live"} => life'[x] = life[x]
      BY <1>1
    <2>3. \A x \in DOMAIN ext' : life'[x] \in {"new", "pending"} => ext'[x] = None
      BY <1>1 DEF TenantInv, Accounts, Typed
    <2> QED BY <2>1, <2>2, <2>3 DEF TenantInv, Accounts
  <1>9. CodesKept'
    <2> SUFFICES ASSUME NEW p \in Of("promo_codes")
                 PROVE  LET r == Born[p]["redemption"] IN
                        life'[r] = "live" \/ life'[Born[r]["company"]] = "gone"
      BY <1>3 DEF CodesKept, Of
    <2>1. p \in Rows /\ Table[p] = "promo_codes"
      BY DEF Of, Live
    <2> DEFINE r == Born[p]["redemption"]
    <2>2. r \in Rows /\ Born[r]["company"] \in Rows
      BY <2>1, CodeRow, RedemptionRow
    <2>3. life[r] = "live" \/ life[Born[r]["company"]] = "gone"
      BY DEF TenantInv, CodesKept
    <2> QED BY <1>1, <2>2, <2>3
  <1> QED BY <1>2, <1>4, <1>5, <1>6, <1>7, <1>8, <1>9 DEF TenantInv

\* So does a step of a request that only reads or fails.
LEMMA RowsStay ==
  ASSUME TenantInv, UNCHANGED rowVars
  PROVE  /\ Live' = Live
         /\ NoDangling' /\ Started' /\ Held' /\ CutsAllowed' /\ Accounts' /\ CodesKept'
  <1>1. life' = life /\ cut' = cut /\ ext' = ext
    BY DEF rowVars
  <1>2. Live' = Live
    BY <1>1 DEF Live
  <1>3. NoDangling' /\ Started' /\ Held' /\ CutsAllowed'
    BY <1>1, <1>2 DEF TenantInv, NoDangling, Ref, RefIn, Started, Held, CutsAllowed
  <1>4. Accounts' /\ CodesKept'
    BY <1>1, <1>2 DEF TenantInv, Accounts, NumbersUnique, CodesKept, Of
  <1> QED BY <1>2, <1>3, <1>4

\* A deletion loads accounts and benefits, the ones from the start among them.
LEMMA LoadKeeps ==
  ASSUME TenantInv, NEW d \in Deletions, Load(d)
  PROVE  TenantInv'
  <1>1. PICK x \in Live : /\ Table[x] \in Tenancies
                          /\ target' = [target EXCEPT ![d] = x]
                          /\ known' = [known EXCEPT ![d] = Detached(x)]
    BY DEF Load, Tenancies
  <1>2. pc' = [pc EXCEPT ![d] = "work"] /\ UNCHANGED rowVars /\ found' = found
    BY DEF Load
  <1>3. x \in Rows /\ life[x] = "live" /\ Detached(x) \subseteq Rows
    BY DEF Detached, Live
  <1>4. Typed'
    BY <1>1, <1>2, <1>3 DEF TenantInv, Typed, rowVars
  <1>5. Aimed'
    <2>1. ASSUME NEW i \in Imports, pc'[i] = "work" PROVE target'[i] \in Rows
      BY <1>1, <1>2, <2>1, TenantsRequests DEF TenantInv, Typed, Aimed
    <2> SUFFICES ASSUME NEW e \in Deletions, pc'[e] = "work"
                 PROVE  /\ target'[e] \in Rows /\ Table[target'[e]] \in Tenancies
                        /\ life[target'[e]] \in {"live", "gone"}
                        /\ \A y \in known'[e] : Table[y] \in {"users", "benefits"}
                        /\ \A y \in Live \cap Standing :
                             Table[y] = "benefits" /\ Born[y]["merchant"] = target'[e]
                             => y \in known'[e]
      BY <1>2, <2>1, RowsStay DEF Aimed, rowVars
    <2>2. CASE e # d
      BY <1>1, <1>2, <2>2 DEF TenantInv, Typed, Aimed
    <2>3. CASE e = d
      <3>1. target'[e] = x /\ known'[e] = Detached(x)
        BY <1>1, <2>3 DEF TenantInv, Typed
      <3>2. \A y \in Detached(x) : Table[y] \in {"users", "benefits"}
        BY DEF Detached
      <3>3. ASSUME NEW y \in Live, Table[y] = "benefits", Born[y]["merchant"] = x
            PROVE  y \in Detached(x)
        <4>1. Ref(y, "merchant") = x
          BY <3>3, NeverCut, BenefitRow DEF TenantInv, Live
        <4> QED BY <3>3, <4>1 DEF Detached
      <3> QED BY <1>1, <1>3, <3>1, <3>2, <3>3
    <2> QED BY <2>2, <2>3
  <1> QED BY <1>2, <1>4, <1>5, RowsStay DEF TenantInv

\* The flush of a deletion fails and changes no row.
LEMMA DeletionFailsKeeps ==
  ASSUME TenantInv, NEW d \in Deletions, DeletionFails(d)
  PROVE  TenantInv'
  <1>1. pc' = [pc EXCEPT ![d] = "failed"] /\ UNCHANGED <<rowVars, target, known, found>>
    BY DEF DeletionFails
  <1>2. Typed'
    BY <1>1 DEF TenantInv, Typed, rowVars
  <1>3. \A e \in Deletions \cup Imports : pc'[e] = "work" => pc[e] = "work"
    BY <1>1 DEF TenantInv, Typed
  <1>4. Aimed'
    BY <1>1, <1>3, RowsStay DEF TenantInv, Aimed, rowVars
  <1> QED BY <1>1, <1>2, <1>4, RowsStay DEF TenantInv

\* A deletion keeps it: see DeleteFacts.
LEMMA DeleteKeeps ==
  ASSUME TenantInv, NEW d \in Deletions, Delete(d)
  PROVE  TenantInv'
  <1> DEFINE G == Taken(d)
  <1> HIDE DEF G
  <1>1. /\ G \subseteq Live \cup {target[d]} /\ G \subseteq Rows
        /\ life[target[d]] \in {"live", "gone"}
        /\ \A x \in Rows : life'[x] = IF x \in G THEN "gone" ELSE life[x]
        /\ life' \in [Rows -> {"new", "pending", "live", "gone"}]
        /\ cut \subseteq cut'
    BY DeleteFacts DEF G
  <1>2. /\ \A x \in Live \ G : \A c \in DOMAIN Born[x] :
             <<x, c>> \notin cut' => Born[x][c] \notin G
        /\ \A x \in Rows : life[x] = "pending" =>
             \A c \in DOMAIN Born[x] : Born[x][c] \notin G
    BY DeleteFacts DEF G
  <1>3. pc' = [pc EXCEPT ![d] = "done"] /\ UNCHANGED <<ext, target, known, found>>
    BY DEF Delete
  <1>4. Typed'
    BY <1>1, <1>3 DEF TenantInv, Typed
  <1>5. Live' = Live \ G
    BY <1>1 DEF Live
  <1>6. NoDangling'
    <2> SUFFICES ASSUME NEW x \in Live', NEW c \in DOMAIN Born[x], <<x, c>> \notin cut',
                        Born[x][c] # None
                 PROVE  Born[x][c] \in Live'
      BY DEF NoDangling, Ref, RefIn
    <2>1. <<x, c>> \notin cut /\ x \in Live /\ Born[x][c] \notin G
      BY <1>1, <1>2, <1>5
    <2>2. Born[x][c] \in Live
      BY <2>1 DEF TenantInv, NoDangling, Ref, RefIn
    <2> QED BY <1>5, <2>1, <2>2
  <1>7. \A x \in Rows : life[x] = "pending" <=> life'[x] = "pending"
    BY <1>1 DEF Live
  <1>8. Started'
    BY <1>1, TenantsRows DEF TenantInv, Started
  <1>9. Held'
    <2> SUFFICES ASSUME NEW x \in Rows, life'[x] = "pending"
                 PROVE  \E A \in Batches :
                          /\ x \in A /\ \A y \in A : life'[y] = "pending"
                          /\ \A c \in DOMAIN Born[x] :
                               Born[x][c] # None => Born[x][c] \in Live' \cup A
      BY DEF Held
    <2>1. life[x] = "pending"
      BY <1>7
    <2>2. PICK A \in Batches : /\ x \in A /\ \A y \in A : life[y] = "pending"
                               /\ \A c \in DOMAIN Born[x] :
                                    Born[x][c] # None => Born[x][c] \in Live \cup A
      BY <2>1 DEF TenantInv, Held
    <2>3. \A y \in A : life'[y] = "pending"
      BY <1>7, <2>2, TenantsRows
    <2> QED BY <1>2, <1>5, <2>1, <2>2, <2>3
  <1>10. CutsAllowed'
    BY DeleteFacts DEF TenantInv, CutsAllowed
  <1>11. Aimed'
    <2>1. \A x \in Rows : life[x] \in {"live", "gone"} => life'[x] \in {"live", "gone"}
      BY <1>1
    <2>2. \A e \in Deletions \cup Imports : pc'[e] = "work" => pc[e] = "work"
      BY <1>3 DEF TenantInv, Typed
    <2> QED BY <1>3, <1>5, <2>1, <2>2 DEF TenantInv, Aimed
  <1>12. Accounts'
    <2>1. NumbersUnique(Live, ext)'
      BY <1>3, <1>5 DEF TenantInv, Accounts, NumbersUnique
    <2>2. \A x \in Rows : life'[x] \in {"new", "pending", "live"} => life'[x] = life[x]
      BY <1>1
    <2>3. \A x \in DOMAIN ext' : life'[x] \in {"new", "pending"} => ext'[x] = None
      BY <1>3, <2>2 DEF TenantInv, Accounts, Typed
    <2> QED BY <2>1, <2>2, <2>3 DEF TenantInv, Accounts
  <1>13. CodesKept'
    <2> SUFFICES ASSUME NEW p \in Live', Table[p] = "promo_codes"
                 PROVE  LET r == Born[p]["redemption"] IN
                        life'[r] = "live" \/ life'[Born[r]["company"]] = "gone"
      BY DEF CodesKept, Of
    <2> DEFINE r == Born[p]["redemption"]
    <2>1. p \in Live /\ p \in Rows /\ p \notin G
      BY <1>5 DEF Live
    <2>2. /\ r \in Rows /\ Table[r] = "benefit_redemptions" /\ Born[r]["company"] \in Rows
      BY <2>1, CodeRow, RedemptionRow
    <2>3. life[r] = "live" \/ life[Born[r]["company"]] = "gone"
      BY <2>1 DEF TenantInv, CodesKept, Of
    <2>4. ASSUME r \in G PROVE Born[r]["company"] \in G
      <3>1. r # target[d] /\ Table[r] # "users"
        BY <2>2, DeleteFacts DEF Tenancies
      <3>2. PICK c \in DOMAIN Born[r] : /\ Key(Table[r], c, "CASCADE") \in Schema
                                        /\ Born[r][c] \in G
        <4>1. \A x \in G : x = target[d] \/ \E c \in DOMAIN Born[x] :
                /\ Key(Table[x], c, "CASCADE") \in Schema /\ Born[x][c] \in G
          BY DeleteFacts DEF G
        <4> QED BY <2>4, <3>1, <4>1
      <3>3. ASSUME c \in {"employee", "benefit"} PROVE FALSE
        <4>1. /\ c \in DOMAIN Born[p] /\ Key(Table[p], c, "CASCADE") \in Schema
              /\ Born[p][c] \in G
          BY <2>1, <3>2, <3>3, CodeRow
        <4> QED BY <2>1, <4>1, DeleteFacts DEF G
      <3>4. c = "company"
        BY <2>2, <3>2, <3>3, CascadeKeys
      <3> QED BY <3>2, <3>4
    <2> QED BY <1>1, <2>2, <2>3, <2>4
  <1> QED BY <1>4, <1>6, <1>8, <1>9, <1>10, <1>11, <1>12, <1>13 DEF TenantInv

\* An import changes no row before it commits.
LEMMA ImportReads ==
  ASSUME TenantInv, NEW i \in Imports, ImportStarts(i) \/ ImportFails(i) \/ LookUp(i)
  PROVE  TenantInv'
  <1>1. UNCHANGED rowVars /\ known' = known
    BY DEF ImportStarts, ImportFails, LookUp
  <1>2. i \notin Deletions
    BY TenantsRequests
  <1>3. /\ pc' \in [Deletions \cup Imports -> {"idle", "work", "done", "failed"}]
        /\ target' \in [Deletions \cup Imports -> Rows \cup {None}]
        /\ \A j \in Deletions \cup Imports : j # i => pc'[j] = pc[j] /\ target'[j] = target[j]
        /\ pc'[i] = "work" => target'[i] \in Rows
    <2> USE DEF TenantInv, Typed, Aimed
    <2>1. CASE ImportStarts(i)
      <3>1. PICK x \in Live : target' = [target EXCEPT ![i] = x]
        BY <2>1 DEF ImportStarts
      <3>2. pc' = [pc EXCEPT ![i] = "work"] /\ x \in Rows
        BY <2>1 DEF ImportStarts, Live
      <3> QED BY <3>1, <3>2
    <2>2. CASE ImportFails(i)
      <3>1. pc' = [pc EXCEPT ![i] = "failed"] /\ target' = target
        BY <2>2 DEF ImportFails
      <3> QED BY <3>1
    <2>3. CASE LookUp(i)
      BY <2>3 DEF LookUp
    <2> QED BY <2>1, <2>2, <2>3
  <1>4. found' \in [Imports -> Seq(Rows \cup {None})]
    <2>1. CASE ImportStarts(i) \/ ImportFails(i)
      BY <2>1 DEF ImportStarts, ImportFails, TenantInv, Typed
    <2>2. CASE LookUp(i)
      <3>1. PICK u \in Rows \cup {None} : found' = [found EXCEPT ![i] = Append(@, u)]
        BY <2>2 DEF LookUp, Matches, Live
      <3>2. found[i] \in Seq(Rows \cup {None})
        BY DEF TenantInv, Typed
      <3>3. Append(found[i], u) \in Seq(Rows \cup {None})
        BY <3>2
      <3> QED BY <3>1, <3>3 DEF TenantInv, Typed
    <2> QED BY <2>1, <2>2
  <1>5. Typed'
    BY <1>1, <1>3, <1>4 DEF TenantInv, Typed, rowVars
  <1>6. \A d \in Deletions : pc'[d] = pc[d] /\ target'[d] = target[d]
    BY <1>2, <1>3
  <1>7. \A j \in Imports : pc'[j] = "work" => target'[j] \in Rows
    BY <1>3 DEF TenantInv, Aimed
  <1>8. Aimed'
    BY <1>1, <1>6, <1>7, RowsStay DEF TenantInv, Aimed, rowVars
  <1> QED BY <1>1, <1>5, <1>8, RowsStay DEF TenantInv

\* An import commits accounts of a company that is live, and numbers that do not
\* occur twice.
LEMMA ImportCommitsKeeps ==
  ASSUME TenantInv, NEW i \in Imports, ImportCommits(i)
  PROVE  TenantInv'
  <1> DEFINE N == NewAccounts(i)
  <1>1. /\ target[i] \in Rows /\ life[target[i]] = "live"
        /\ \A j \in DOMAIN found[i] : found[i][j] # None => life[found[i][j]] = "live"
        /\ \A x \in N : life[x] = "new" /\ Born[x]["company"] = target[i]
        /\ EmailFree(N) /\ NumbersUnique(Live \cup N, Renumbered(i))
        /\ Become(N, "live") /\ ext' = Renumbered(i)
        /\ pc' = [pc EXCEPT ![i] = "done"] /\ UNCHANGED <<cut, target, known, found>>
    BY DEF ImportCommits, TenantInv, Aimed
  <1>2. DOMAIN found[i] = DOMAIN Sheet[i]
    <2>1. Len(found[i]) = Len(Sheet[i])
      BY DEF ImportCommits
    <2>2. found[i] \in Seq(Rows \cup {None})
      BY DEF TenantInv, Typed
    <2>3. Sheet[i] \in Seq({Sheet[i][j] : j \in DOMAIN Sheet[i]})
      BY TenantsRequests
    <2> QED BY <2>1, <2>2, <2>3
  <1>3. \A x \in N : /\ x \in Rows \ UNION Batches
                    /\ Table[x] = "users" /\ Born[x]["merchant"] = None
    <2> SUFFICES ASSUME NEW x \in N
                 PROVE  /\ x \in Rows \ UNION Batches
                        /\ Table[x] = "users" /\ Born[x]["merchant"] = None
      OBVIOUS
    <2>1. PICK j \in DOMAIN Sheet[i] : x = Sheet[i][j].row
      BY <1>2 DEF NewAccounts
    <2> QED BY <2>1, TenantsRequests
  <1> HIDE DEF N
  <1>4. /\ \A x \in Rows : life'[x] = IF x \in N THEN "live" ELSE life[x]
        /\ life' \in [Rows -> {"new", "pending", "live", "gone"}]
    BY <1>1 DEF Become, TenantInv, Typed
  <1>5. Typed'
    <2>1. DOMAIN ext' = DOMAIN ext
      BY <1>1 DEF Renumbered
    <2> QED BY <1>1, <1>4, <2>1 DEF TenantInv, Typed
  <1>6. Live' = Live \cup N
    BY <1>3, <1>4 DEF Live
  <1>7. NoDangling'
    <2> SUFFICES ASSUME NEW x \in Live', NEW c \in DOMAIN Born[x], Ref(x, c)' # None
                 PROVE  Ref(x, c)' \in Live'
      BY DEF NoDangling
    <2>1. Ref(x, c)' = Ref(x, c)
      BY <1>1 DEF Ref, RefIn
    <2>2. CASE x \in N
      <3>1. Ref(x, c) = Born[x][c]
        BY <2>1 DEF Ref, RefIn
      <3>2. \A e \in DOMAIN Born[x] : e \in {"company", "merchant"}
        <4> SUFFICES ASSUME NEW e \in DOMAIN Born[x] PROVE e \in {"company", "merchant"}
          OBVIOUS
        <4>1. x \in Rows /\ Table[x] = "users"
          BY <1>3, <2>2
        <4>2. ASSUME Key(Table[x], e, "SET NULL") \in Schema PROVE FALSE
          BY <4>1, <4>2, SetNullKeys
        <4> QED BY <4>1, <4>2, KeyOf, CascadeKeys
      <3> QED BY <1>1, <1>3, <1>6, <2>1, <2>2, <3>1, <3>2 DEF Live
    <2>3. CASE x \in Live
      BY <1>6, <2>1, <2>3 DEF TenantInv, NoDangling
    <2> QED BY <1>6, <2>2, <2>3
  <1>8. Started'
    BY <1>1, <1>4, TenantsRows DEF TenantInv, Started
  <1>9. CutsAllowed'
    BY <1>1 DEF TenantInv, CutsAllowed
  <1>10. \A x \in Rows : x \notin N => life'[x] = life[x]
    BY <1>4
  <1>11. Held'
    <2> SUFFICES ASSUME NEW x \in Rows, life'[x] = "pending"
                 PROVE  \E A \in Batches :
                          /\ x \in A /\ \A y \in A : life'[y] = "pending"
                          /\ \A c \in DOMAIN Born[x] :
                               Born[x][c] # None => Born[x][c] \in Live' \cup A
      BY DEF Held
    <2>1. life[x] = "pending"
      BY <1>4
    <2>2. PICK A \in Batches : /\ x \in A /\ \A y \in A : life[y] = "pending"
                               /\ \A c \in DOMAIN Born[x] :
                                    Born[x][c] # None => Born[x][c] \in Live \cup A
      BY <2>1 DEF TenantInv, Held
    <2>3. \A y \in A : life'[y] = "pending"
      BY <1>1, <1>10, <2>2, TenantsRows
    <2> QED BY <1>6, <2>2, <2>3
  <1>12. Aimed'
    <2>1. \A x \in Rows : life[x] \in {"live", "gone"} => life'[x] = life[x]
      BY <1>1, <1>4
    <2>2. Live' \cap Standing \subseteq Live
      BY <1>1, <1>6, TenantsRows DEF TenantInv, Started
    <2>3. \A e \in Deletions \cup Imports : pc'[e] = "work" => pc[e] = "work"
      BY <1>1 DEF TenantInv, Typed
    <2> QED BY <1>1, <2>1, <2>2, <2>3 DEF TenantInv, Aimed
  <1>13. Accounts'
    <2>1. NumbersUnique(Live, ext)'
      BY <1>1, <1>6 DEF NumbersUnique
    <2>2. ASSUME NEW x \in Rows, NEW y \in Rows, x # y, Table[x] = "users", Table[y] = "users",
                 life'[x] \in {"pending", "live"}, life'[y] \in {"pending", "live"}
          PROVE  Email[x] # Email[y]
      <3>1. (x \in N \/ life[x] \in {"pending", "live"}) /\ (y \in N \/ life[y] \in {"pending", "live"})
        BY <1>4, <2>2
      <3> QED BY <1>1, <2>2, <3>1 DEF EmailFree, TenantInv, Accounts
    <2>3. ASSUME NEW x \in DOMAIN ext', life'[x] \in {"new", "pending"}
          PROVE  ext'[x] = None
      <3>1. x \in DOMAIN ext /\ x \in Rows
        BY <1>1 DEF Renumbered, TenantInv, Typed
      <3>2. x \notin N /\ life[x] \in {"new", "pending"}
        BY <1>4, <2>3, <3>1
      <3>3. \A j \in DOMAIN found[i] : RowFor(i, j) # x
        BY <1>1, <3>2 DEF RowFor, NewAccounts, N
      <3>4. Renumbered(i)[x] = ext[x]
        BY <3>1, <3>3 DEF Renumbered
      <3> QED BY <1>1, <3>1, <3>2, <3>4 DEF TenantInv, Accounts
    <2> QED BY <2>1, <2>2, <2>3 DEF Accounts
  <1>14. CodesKept'
    <2> SUFFICES ASSUME NEW p \in Live', Table[p] = "promo_codes"
                 PROVE  LET r == Born[p]["redemption"] IN
                        life'[r] = "live" \/ life'[Born[r]["company"]] = "gone"
      BY DEF CodesKept, Of
    <2> DEFINE r == Born[p]["redemption"]
    <2>1. p \in Live /\ p \in Rows
      BY <1>3, <1>6 DEF Live
    <2>2. r \in Rows /\ Born[r]["company"] \in Rows
      BY <2>1, CodeRow, RedemptionRow
    <2>3. life[r] = "live" \/ life[Born[r]["company"]] = "gone"
      BY <2>1 DEF TenantInv, CodesKept, Of
    <2> QED BY <1>1, <1>4, <2>2, <2>3
  <1> QED BY <1>5, <1>7, <1>8, <1>9, <1>11, <1>12, <1>13, <1>14 DEF TenantInv

\* Every step of Tenants keeps it.
LEMMA TenantStep ==
  ASSUME TenantInv, TenantNext
  PROVE  TenantInv'
  <1>1. ASSUME NEW B \in Batches, Insert(B) \/ Commit(B) \/ Abort(B) PROVE TenantInv'
    BY <1>1, InsertKeeps, CommitKeeps, AbortKeeps
  <1>2. ASSUME NEW d \in Deletions, Load(d) \/ DeletionFails(d) \/ Delete(d) PROVE TenantInv'
    BY <1>2, LoadKeeps, DeletionFailsKeeps, DeleteKeeps
  <1>3. ASSUME NEW i \in Imports,
               ImportStarts(i) \/ ImportFails(i) \/ LookUp(i) \/ ImportCommits(i)
        PROVE  TenantInv'
    BY <1>3, ImportReads, ImportCommitsKeeps
  <1> QED BY <1>1, <1>2, <1>3 DEF TenantNext
-----------------------------------------------------------------------------
(* How rows go. *)

\* A row that was committed stays until it is gone, for ever.
LEMMA Forward ==
  ASSUME TenantInv, TenantNext, NEW x \in Rows
  PROVE  /\ life[x] = "gone" => life'[x] = "gone"
         /\ life[x] = "live" => life'[x] \in {"live", "gone"}
  <1>1. ASSUME NEW B \in Batches, Insert(B) \/ Commit(B) \/ Abort(B)
        PROVE  life[x] \in {"live", "gone"} => life'[x] = life[x]
    BY <1>1 DEF Insert, Commit, Abort, Become
  <1>2. ASSUME NEW d \in Deletions, Delete(d)
        PROVE  life'[x] = life[x] \/ life'[x] = "gone"
    BY <1>2, DeleteFacts
  <1>3. ASSUME NEW i \in Imports, ImportCommits(i)
        PROVE  life[x] \in {"live", "gone"} => life'[x] = life[x]
    BY <1>3 DEF ImportCommits, Become
  <1>4. ASSUME UNCHANGED rowVars PROVE life'[x] = life[x]
    BY <1>4 DEF rowVars
  <1> QED BY <1>1, <1>2, <1>3, <1>4
    DEF TenantNext, Load, DeletionFails, ImportStarts, ImportFails, LookUp

\* Only a deletion takes a row that is live.
LEMMA OnlyDeletions ==
  ASSUME TenantInv, TenantNext, NEW x \in Live, life'[x] = "gone"
  PROVE  \E d \in Deletions : Delete(d) /\ x \in Taken(d)
  <1> x \in Rows /\ life[x] = "live"
    BY DEF Live
  <1>1. ASSUME NEW B \in Batches, Insert(B) \/ Commit(B) \/ Abort(B) PROVE FALSE
    BY <1>1 DEF Insert, Commit, Abort, Become
  <1>2. ASSUME NEW d \in Deletions, Delete(d) PROVE x \in Taken(d)
    BY <1>2, DeleteFacts
  <1>3. ASSUME NEW i \in Imports, ImportCommits(i) PROVE FALSE
    BY <1>3 DEF ImportCommits, Become
  <1>4. ASSUME UNCHANGED rowVars PROVE FALSE
    BY <1>4 DEF rowVars
  <1> QED BY <1>1, <1>2, <1>3, <1>4
    DEF TenantNext, Load, DeletionFails, ImportStarts, ImportFails, LookUp

\* A redemption goes with the company or with the merchant of the benefit: its
\* account belongs to the company alone, its benefit to no other company.
LEMMA RedemptionGoes ==
  ASSUME TenantInv, TenantNext, NEW r \in Live, Table[r] = "benefit_redemptions",
         life'[r] = "gone"
  PROVE  \/ life'[Born[r]["company"]] = "gone"
         \/ life'[Born[Born[r]["benefit"]]["merchant"]] = "gone"
  <1>1. PICK d \in Deletions : Delete(d) /\ r \in Taken(d)
    BY OnlyDeletions
  <1> DEFINE G == Taken(d)
  <1> HIDE DEF G
  <1>2. /\ Table[target[d]] \in Tenancies /\ G \subseteq Rows
        /\ \A x \in G : life'[x] = "gone"
        /\ \A x \in G : x = target[d] \/ \E c \in DOMAIN Born[x] :
             Key(Table[x], c, "CASCADE") \in Schema /\ Born[x][c] \in G
    BY <1>1, DeleteFacts DEF G
  <1>3. r \in Rows /\ r \in G
    BY <1>1 DEF Live, G
  <1>4. PICK c \in DOMAIN Born[r] :
          Key(Table[r], c, "CASCADE") \in Schema /\ Born[r][c] \in G
    BY <1>2, <1>3 DEF Tenancies
  <1>5. /\ Table[Born[r]["employee"]] = "users" /\ Table[Born[r]["benefit"]] = "benefits"
    BY <1>3, RedemptionRow DEF RefersTo
  <1>6. CASE c = "company"
    BY <1>2, <1>4, <1>6
  <1>7. CASE c = "employee"
    <2> DEFINE e == Born[r]["employee"]
    <2>1. e \in G /\ e \in Rows /\ e # target[d]
      BY <1>2, <1>4, <1>5, <1>7 DEF Tenancies
    <2>2. PICK k \in DOMAIN Born[e] :
            Key(Table[e], k, "CASCADE") \in Schema /\ Born[e][k] \in G
      BY <1>2, <2>1
    <2>3. k \in {"company", "merchant"}
      BY <1>5, <2>2, CascadeKeys
    <2>4. Born[e]["company"] = Born[r]["company"] /\ Born[e]["merchant"] = None
      BY <1>3, ReportsRows
    <2> QED BY <1>2, <2>2, <2>3, <2>4, TenantsRows
  <1>8. CASE c = "benefit"
    <2> DEFINE b == Born[r]["benefit"]
    <2>1. b \in G /\ b \in Rows /\ b # target[d]
      BY <1>2, <1>4, <1>5, <1>8 DEF Tenancies
    <2>2. PICK k \in DOMAIN Born[b] :
            Key(Table[b], k, "CASCADE") \in Schema /\ Born[b][k] \in G
      BY <1>2, <2>1
    <2>3. k \in {"company", "merchant"}
      BY <1>5, <2>2, CascadeKeys
    <2>4. Born[b]["company"] \in {None, Born[r]["company"]}
      BY <1>3, ReportsRows
    <2> QED BY <1>2, <2>2, <2>3, <2>4, TenantsRows
  <1> QED BY <1>4, <1>6, <1>7, <1>8, CascadeKeys
-----------------------------------------------------------------------------
(* The invariant of reports. *)

\* What the statements of a report are.
LEMMA OrderOf ==
  ASSUME NEW q, subject[q] # None
  PROVE  /\ Table[subject[q]] = "companies" =>
              /\ Len(Statements(q)) = 5
              /\ Statements(q)[1] = "codes" /\ Statements(q)[2] = "total"
              /\ Statements(q)[3] = "categories" /\ Statements(q)[4] = "merchants"
              /\ Statements(q)[5] = "benefits"
         /\ Table[subject[q]] = "merchants" =>
              /\ Len(Statements(q)) = 3
              /\ Statements(q)[1] = "codes" /\ Statements(q)[2] = "benefits"
              /\ Statements(q)[3] = "trend"
  BY DEF Statements, Order

\* A statement counts some of the rows it joins; the codes and the total, all.
LEMMA ReadingsOf ==
  ASSUME NEW R, NEW what, NEW n, NEW S \in Readings(R, what, n)
  PROVE  S \subseteq R /\ (what \in {"codes", "total"} => S = R)
  <1>1. CASE what \in Shares
    <2>1. PICK h \in GroupingsOf(R, what) : S \in Largest(R, h, n)
      BY <1>1 DEF Readings
    <2>2. PICK T : S = {r \in R : h[r] \in T}
      BY <2>1 DEF Largest
    <2> QED BY <1>1, <2>2 DEF Shares
  <1>2. CASE what \notin Shares /\ what = "trend"
    BY <1>2 DEF Readings
  <1>3. CASE what \notin Shares /\ what # "trend"
    BY <1>3 DEF Readings
  <1> QED BY <1>1, <1>2, <1>3

\* It holds before the first report.
LEMMA ReportStart == Init => ReportInv
  BY DEF Init, ReportInv, ReaderTyped, CompanyReport, MerchantReport

\* Rows that come and go keep it.
LEMMA RowsMove ==
  ASSUME TenantInv, ReportInv, TenantNext, UNCHANGED reportVars
  PROVE  ReportInv'
  <1>1. UNCHANGED <<subject, step, counted, partial>>
    BY DEF reportVars
  <1>2. ReaderTyped'
    BY <1>1 DEF ReportInv, ReaderTyped, Statements
  <1>3. \A x \in Rows : Once(x) => Once(x)' /\ (life[x] = "gone" => life'[x] = "gone")
    BY Forward DEF Once
  <1>4. ASSUME NEW q \in Readers PROVE CompanyReport(q)'
    BY <1>1, <1>3 DEF ReportInv, ReaderTyped, CompanyReport, Has, Shows
  <1>5. ASSUME NEW q \in Readers PROVE MerchantReport(q)'
    <2> DEFINE x == subject[q]
    <2> SUFFICES ASSUME x # None, Table[x] = "merchants", step[q] >= 1,
                        NEW p \in counted[q]["codes"]
                 PROVE  LET r == Born[p]["redemption"] IN
                        /\ Table[p] = "promo_codes" /\ Born[Born[p]["benefit"]]["merchant"] = x
                        /\ \/ IF step[q] = 1 THEN life'[r] = "live" ELSE Shows(q, r, "benefits")'
                           \/ life'[Born[r]["company"]] = "gone"
                           \/ life'[x] = "gone"
      BY <1>1 DEF MerchantReport
    <2> DEFINE r == Born[p]["redemption"]
    <2>1. /\ Table[p] = "promo_codes" /\ Born[Born[p]["benefit"]]["merchant"] = x
          /\ \/ IF step[q] = 1 THEN life[r] = "live" ELSE Shows(q, r, "benefits")
             \/ life[Born[r]["company"]] = "gone"
             \/ life[x] = "gone"
      BY DEF ReportInv, MerchantReport
    <2>2. x \in Rows /\ p \in Rows
      BY DEF ReportInv, ReaderTyped, Figures
    <2>3. /\ r \in Rows /\ Table[r] = "benefit_redemptions" /\ Born[r]["company"] \in Rows
          /\ Born[r]["benefit"] = Born[p]["benefit"]
      BY <2>1, <2>2, CodeRow, RedemptionRow
    <2>4. CASE life[r] = "live" /\ step[q] = 1
      <3>1. CASE life'[r] = "gone"
        BY <2>1, <2>3, <2>4, <3>1, RedemptionGoes DEF Live
      <3>2. CASE life'[r] = "live"
        BY <2>1, <2>4, <3>2
      <3> QED BY <2>3, <2>4, <3>1, <3>2, Forward
    <2>5. CASE life[Born[r]["company"]] = "gone" \/ life[x] = "gone"
      BY <2>1, <2>2, <2>3, <2>5, Forward
    <2>6. CASE step[q] # 1 /\ Shows(q, r, "benefits")
      <3>1. Shows(q, r, "benefits")'
        BY <1>1, <2>6 DEF Shows
      <3> QED BY <2>1, <2>6, <3>1
    <2> QED BY <2>1, <2>4, <2>5, <2>6
  <1> QED BY <1>1, <1>2, <1>4, <1>5 DEF ReportInv

\* So does the start of a report.
LEMMA AskKeeps ==
  ASSUME ReportInv, NEW q \in Readers, Ask(q)
  PROVE  ReportInv'
  <1>1. PICK x \in Live : Table[x] \in Tenancies /\ subject' = [subject EXCEPT ![q] = x]
    BY DEF Ask, Tenancies
  <1>2. subject[q] = None /\ UNCHANGED <<life, step, counted, partial>>
    BY DEF Ask
  <1>3. x \in Rows /\ step[q] = 0
    BY <1>2 DEF Live, ReportInv, ReaderTyped
  <1>4. /\ \A k \in Readers : k # q => subject'[k] = subject[k]
        /\ subject'[q] = x /\ subject' \in [Readers -> Rows \cup {None}]
    BY <1>1, <1>3 DEF ReportInv, ReaderTyped
  <1>5. ReaderTyped'
    <2>1. ASSUME NEW k \in Readers
          PROVE  IF subject'[k] = None THEN step'[k] = 0
                 ELSE Table[subject'[k]] \in Tenancies /\ step'[k] <= Len(Statements(k)')
      <3>1. CASE k = q
        <4>1. Len(Statements(k)') \in {3, 5}
          BY <1>1, <1>4, <3>1 DEF Statements, Order, Tenancies
        <4> QED BY <1>1, <1>2, <1>3, <1>4, <3>1, <4>1, TenantsRows
      <3>2. CASE k # q
        BY <1>2, <1>4, <3>2 DEF ReportInv, ReaderTyped, Statements
      <3> QED BY <3>1, <3>2
    <2> QED BY <1>2, <1>4, <2>1 DEF ReportInv, ReaderTyped
  <1>6. ASSUME NEW k \in Readers PROVE CompanyReport(k)' /\ MerchantReport(k)'
    <2>1. CASE k = q
      BY <1>2, <1>3, <2>1 DEF CompanyReport, MerchantReport
    <2>2. CASE k # q
      BY <1>2, <1>4, <2>2 DEF ReportInv, CompanyReport, MerchantReport, Once, Has, Shows
    <2> QED BY <2>1, <2>2
  <1> QED BY <1>5, <1>6 DEF ReportInv

\* What a statement of a company's report reads.
LEMMA CompanyReads ==
  ASSUME TenantInv, NEW x \in Rows
  PROVE  LET R == CompanyRows(x, "total") IN
         /\ \A r \in Rows : r \in R <=> /\ Table[r] = "benefit_redemptions"
                                     /\ life[r] = "live" /\ Born[r]["company"] = x
         /\ \A table \in Shares : CompanyRows(x, table) = R
         /\ \A p \in CompanyRows(x, "codes") : Born[p]["redemption"] \in R
         /\ R \subseteq Rows /\ CompanyRows(x, "codes") \subseteq Rows
  <1> DEFINE R == {r \in Redemptions : Ref(r, "company") = x}
  <1>1. /\ CompanyRows(x, "codes") = {p \in Of("promo_codes") : Ref(p, "redemption") \in R}
        /\ CompanyRows(x, "total") = R
        /\ \A table \in Shares : CompanyRows(x, table) = Joined(R, table)
    BY DEF CompanyRows, Shares
  <1>2. ASSUME NEW r \in Rows, Table[r] = "benefit_redemptions",
               NEW c \in {"employee", "company", "benefit"}
        PROVE  Ref(r, c) = Born[r][c]
    BY <1>2, RedemptionRow, NeverCut DEF TenantInv
  <1>3. ASSUME NEW r \in Rows
        PROVE  r \in R <=> /\ Table[r] = "benefit_redemptions"
                          /\ life[r] = "live" /\ Born[r]["company"] = x
    BY <1>2 DEF Redemptions, Of, Live
  <1>4. R \subseteq Rows
    BY DEF Redemptions, Of, Live
  <1>5. \A table \in Shares : Joined(R, table) = R
    <2> SUFFICES ASSUME NEW r \in R
                 PROVE  Ref(r, "benefit") \in Live /\ Ref(Ref(r, "benefit"), "merchant") \in Live
      BY DEF Joined
    <2> DEFINE b == Born[r]["benefit"]
    <2>1. /\ r \in Live /\ r \in Rows /\ "benefit" \in DOMAIN Born[r]
          /\ Ref(r, "benefit") = b /\ b \in Rows /\ Table[b] = "benefits"
      BY <1>2, <1>3, <1>4, RedemptionRow DEF RefersTo, Live
    <2>2. b \in Live
      BY <2>1, TenantsRows DEF TenantInv, NoDangling
    <2>3. Ref(b, "merchant") = Born[b]["merchant"] /\ Born[b]["merchant"] # None
          /\ "merchant" \in DOMAIN Born[b]
      BY <2>1, BenefitRow, NeverCut, TenantsRows DEF TenantInv
    <2> QED BY <2>1, <2>2, <2>3 DEF TenantInv, NoDangling
  <1>6. ASSUME NEW p \in Of("promo_codes"), Ref(p, "redemption") \in R
        PROVE  Born[p]["redemption"] \in R
    <2>1. p \in Rows /\ Table[p] = "promo_codes" /\ Ref(p, "redemption") # None
      BY <1>4, <1>6, TenantsRows DEF Of, Live
    <2> QED BY <1>6, <2>1 DEF Ref, RefIn
  <1>7. CompanyRows(x, "codes") \subseteq Rows
    BY <1>1 DEF Of, Live
  <1> HIDE DEF R
  <1> QED BY <1>1, <1>3, <1>4, <1>5, <1>6, <1>7

\* What a statement of a merchant's report reads.
LEMMA MerchantReads ==
  ASSUME TenantInv, NEW x \in Rows
  PROVE  /\ \A p \in MerchantRows(x, "codes") :
              /\ p \in Of("promo_codes") /\ Born[Born[p]["benefit"]]["merchant"] = x
         /\ \A r \in Rows : /\ Table[r] = "benefit_redemptions" /\ life[r] = "live"
                            /\ Born[Born[r]["benefit"]]["merchant"] = x
                            => r \in MerchantRows(x, "benefits")
         /\ \A what : MerchantRows(x, what) \subseteq Rows
  <1>1. /\ MerchantRows(x, "codes")
             = {p \in Of("promo_codes") : Ref(Ref(p, "benefit"), "merchant") = x}
        /\ MerchantRows(x, "benefits")
             = {r \in Redemptions : Ref(Ref(r, "benefit"), "merchant") = x}
    BY DEF MerchantRows
  <1>2. ASSUME NEW b \in Rows, Table[b] = "benefits"
        PROVE  Ref(b, "merchant") = Born[b]["merchant"]
    BY <1>2, BenefitRow, NeverCut DEF TenantInv
  <1>3. ASSUME NEW r \in Rows, Table[r] = "benefit_redemptions"
        PROVE  /\ Ref(r, "benefit") = Born[r]["benefit"]
               /\ Born[r]["benefit"] \in Rows /\ Table[Born[r]["benefit"]] = "benefits"
    <2>1. RefersTo["benefit"] = "benefits"
      BY DEF RefersTo
    <2>2. /\ Key(Table[r], "benefit", "CASCADE") \in Schema
          /\ Born[r]["benefit"] \in Rows /\ Table[Born[r]["benefit"]] = RefersTo["benefit"]
      BY <1>3, RedemptionRow
    <2>3. Ref(r, "benefit") = Born[r]["benefit"]
      BY <1>3, <2>2, NeverCut DEF TenantInv
    <2> QED BY <2>1, <2>2, <2>3
  <1>4. ASSUME NEW p \in Rows, Table[p] = "promo_codes"
        PROVE  /\ Ref(p, "benefit") = Born[p]["benefit"]
               /\ Born[p]["benefit"] \in Rows /\ Table[Born[p]["benefit"]] = "benefits"
    <2>1. Key(Table[p], "benefit", "CASCADE") \in Schema
      BY SchemaKeys, <1>4
    <2>2. Ref(p, "benefit") = Born[p]["benefit"]
      BY <1>4, <2>1, NeverCut DEF TenantInv
    <2> QED BY <1>3, <1>4, <2>2, CodeRow
  <1>5. ASSUME NEW p \in Of("promo_codes"), Ref(Ref(p, "benefit"), "merchant") = x
        PROVE  Born[Born[p]["benefit"]]["merchant"] = x
    BY <1>2, <1>4, <1>5 DEF Of, Live
  <1>6. ASSUME NEW r \in Rows, Table[r] = "benefit_redemptions", life[r] = "live",
               Born[Born[r]["benefit"]]["merchant"] = x
        PROVE  r \in MerchantRows(x, "benefits")
    BY <1>1, <1>2, <1>3, <1>6 DEF Redemptions, Of, Live
  <1>7. \A what : MerchantRows(x, what) \subseteq Rows
    BY DEF MerchantRows, Redemptions, Of, Live
  <1> QED BY <1>1, <1>5, <1>6, <1>7

\* A statement keeps the invariant: what it counts agrees with what the earlier
\* ones have counted.
LEMMA ReadKeeps ==
  ASSUME TenantInv, ReportInv, NEW q \in Readers, Read(q)
  PROVE  ReportInv'
  <1> DEFINE x == subject[q]
             what == Statements(q)[step[q] + 1]
             R == IF Table[x] = "companies" THEN CompanyRows(x, what) ELSE MerchantRows(x, what)
  <1>1. /\ x # None /\ step[q] < Len(Statements(q))
        /\ step' = [step EXCEPT ![q] = @ + 1]
        /\ UNCHANGED <<life, subject>>
    BY DEF Read
  <1>2. PICK S \in Readings(R, what, Top[Table[x]]) :
          /\ counted' = [counted EXCEPT ![q][what] = S]
          /\ partial' = IF S = R THEN partial ELSE [partial EXCEPT ![q] = @ \cup {what}]
    BY DEF Read
  <1>3. /\ x \in Rows /\ Table[x] \in Tenancies /\ step[q] \in 0..5
        /\ counted[q] \in [Figures -> SUBSET Rows] /\ partial[q] \in SUBSET Figures
    BY <1>1 DEF ReportInv, ReaderTyped
  <1>4. /\ what \in Figures
        /\ Table[x] = "companies" => Len(Statements(q)) = 5 /\
             (\/ step[q] = 0 /\ what = "codes"
              \/ step[q] = 1 /\ what = "total"
              \/ step[q] = 2 /\ what = "categories"
              \/ step[q] = 3 /\ what = "merchants"
              \/ step[q] = 4 /\ what = "benefits")
        /\ Table[x] = "merchants" => Len(Statements(q)) = 3 /\
             (\/ step[q] = 0 /\ what = "codes"
              \/ step[q] = 1 /\ what = "benefits"
              \/ step[q] = 2 /\ what = "trend")
    <2>1. CASE Table[x] = "companies"
      <3>1. Len(Statements(q)) = 5
        BY <1>1, <2>1, OrderOf
      <3>2. step[q] \in {0, 1, 2, 3, 4}
        BY <1>1, <1>3, <3>1
      <3>3. \A k \in {0, 1, 2, 3, 4} : step[q] = k => what = Statements(q)[k + 1]
        OBVIOUS
      <3> HIDE DEF what
      <3> QED BY <1>1, <2>1, <3>1, <3>2, <3>3, OrderOf DEF Figures, Shares
    <2>2. CASE Table[x] = "merchants"
      <3>1. Len(Statements(q)) = 3
        BY <1>1, <2>2, OrderOf
      <3>2. step[q] \in {0, 1, 2}
        BY <1>1, <1>3, <3>1
      <3>3. \A k \in {0, 1, 2} : step[q] = k => what = Statements(q)[k + 1]
        OBVIOUS
      <3> HIDE DEF what
      <3> QED BY <1>1, <2>2, <3>1, <3>2, <3>3, OrderOf DEF Figures, Shares
    <2> QED BY <1>3, <2>1, <2>2 DEF Tenancies
  <1>5. S \subseteq R /\ (what \in {"codes", "total"} => S = R)
    BY <1>2, ReadingsOf
  <1>6. R \subseteq Rows
    <2>1. CASE Table[x] = "companies"
      BY <1>3, <1>4, <2>1, CompanyReads DEF Shares
    <2>2. CASE Table[x] # "companies"
      BY <1>3, <2>2, MerchantReads
    <2> QED BY <2>1, <2>2
  <1> HIDE DEF what, R
  <1>7. /\ \A k \in Readers : k # q => step'[k] = step[k] /\ counted'[k] = counted[k]
        /\ step'[q] = step[q] + 1 /\ step'[q] \in 0..5 /\ step'[q] <= Len(Statements(q))
        /\ counted'[q] = [counted[q] EXCEPT ![what] = S]
    BY <1>1, <1>2, <1>3, <1>4 DEF ReportInv, ReaderTyped, Tenancies
  <1>8. /\ counted'[q][what] = S
        /\ \A w \in Figures : w # what => counted'[q][w] = counted[q][w]
        /\ counted'[q] \in [Figures -> SUBSET Rows]
    BY <1>3, <1>4, <1>5, <1>6, <1>7
  <1>9. /\ \A k \in Readers : k # q => partial'[k] = partial[k]
        /\ partial' \in [Readers -> SUBSET Figures]
        /\ partial[q] \subseteq partial'[q] /\ (S = R \/ what \in partial'[q])
    BY <1>2, <1>3, <1>4 DEF ReportInv, ReaderTyped
  <1>10. ReaderTyped'
    <2>1. counted' \in [Readers -> [Figures -> SUBSET Rows]]
      BY <1>2, <1>7, <1>8 DEF ReportInv, ReaderTyped
    <2>2. step' \in [Readers -> 0..5]
      BY <1>1, <1>7 DEF ReportInv, ReaderTyped
    <2>3. \A k \in Readers : Statements(k)' = Statements(k)
      BY <1>1 DEF Statements
    <2> QED BY <1>1, <1>3, <1>7, <1>9, <2>1, <2>2, <2>3 DEF ReportInv, ReaderTyped
  <1>11. ASSUME NEW k \in Readers, k # q PROVE CompanyReport(k)' /\ MerchantReport(k)'
    BY <1>1, <1>7, <1>9, <1>11 DEF ReportInv, CompanyReport, MerchantReport, Once, Has, Shows
  <1>12. PICK now : now = what
    OBVIOUS
  <1>13. \A r \in Rows, w \in Figures : w # now =>
           (Shows(q, r, w) => Shows(q, r, w)') /\ (Has(q, r, w) => Has(q, r, w)')
    BY <1>1, <1>8, <1>9, <1>12 DEF Has, Shows
  <1>14. \A r \in R : Shows(q, r, now)'
    BY <1>8, <1>9, <1>12 DEF Shows
  <1>15. ASSUME Table[x] = "companies" PROVE CompanyReport(q)'
    <2> DEFINE T == CompanyRows(x, "total")
    <2>1. /\ \A r \in Rows : r \in T <=> /\ Table[r] = "benefit_redemptions"
                                     /\ life[r] = "live" /\ Born[r]["company"] = x
          /\ \A table \in Shares : CompanyRows(x, table) = T
          /\ T \subseteq Rows
          /\ \A p \in CompanyRows(x, "codes") : Born[p]["redemption"] \in T
      BY <1>3, CompanyReads
    <2> HIDE DEF T
    <2>2. CompanyReport(q)
      BY DEF ReportInv
    <2>3. CASE step[q] = 0
      <3>1. what = "codes" /\ step'[q] = 1
        BY <1>4, <1>7, <1>15, <2>3 DEF Tenancies
      <3>2. counted'[q]["codes"] = CompanyRows(x, "codes")
        BY <1>5, <1>8, <1>15, <3>1 DEF R
      <3> QED BY <1>1, <2>1, <3>1, <3>2 DEF CompanyReport, Once
    <2>4. CASE step[q] = 1
      <3>1. what = "total" /\ step'[q] = 2
        BY <1>4, <1>7, <1>15, <2>4
      <3>2. counted'[q]["total"] = T /\ counted'[q]["codes"] = counted[q]["codes"]
        BY <1>5, <1>8, <1>15, <3>1 DEF R, T, Figures
      <3> QED BY <1>1, <1>15, <2>1, <2>2, <2>4, <3>1, <3>2 DEF CompanyReport, Once
    <2>5. CASE step[q] \in {2, 3, 4}
      <3>1. what \in Shares /\ step'[q] = step[q] + 1
        BY <1>4, <1>7, <1>15, <2>5 DEF Shares
      <3>2. R = T
        BY <1>15, <2>1, <3>1 DEF R
      <3>3. counted'[q]["codes"] = counted[q]["codes"] /\ counted'[q]["total"] = counted[q]["total"]
        BY <1>8, <3>1 DEF Shares, Figures
      <3>4. ASSUME NEW p \in counted[q]["codes"]
            PROVE  LET r == Born[p]["redemption"] IN
                   /\ r \in Rows /\ Table[r] = "benefit_redemptions"
                   /\ Once(r)' /\ Born[r]["company"] = x
                   /\ r \in counted[q]["total"] \/ life'[r] = "gone"
        BY <1>1, <1>15, <2>2, <2>5 DEF CompanyReport, Once
      <3>5. ASSUME NEW r \in counted[q]["total"]
            PROVE  /\ r \in Rows /\ Table[r] = "benefit_redemptions"
                   /\ Once(r)' /\ Born[r]["company"] = x
                   /\ step'[q] >= 3 => Has(q, r, "categories")'
                   /\ step'[q] >= 4 => Has(q, r, "merchants")'
                   /\ step'[q] >= 5 => Has(q, r, "benefits")'
        <4>1. /\ r \in Rows /\ Table[r] = "benefit_redemptions"
              /\ Once(r) /\ Born[r]["company"] = x
              /\ step[q] >= 3 => Has(q, r, "categories")
              /\ step[q] >= 4 => Has(q, r, "merchants")
              /\ step[q] >= 5 => Has(q, r, "benefits")
          BY <1>1, <1>15, <2>2, <2>5 DEF CompanyReport
        <4>2. Has(q, r, now)'
          <5>1. CASE life[r] = "gone"
            BY <1>1, <5>1 DEF Has
          <5>2. CASE life[r] = "live"
            BY <1>14, <2>1, <3>2, <4>1, <5>2 DEF Has
          <5> QED BY <4>1, <5>1, <5>2 DEF Once
        <4>3. /\ Has(q, r, "categories") => Has(q, r, "categories")'
              /\ Has(q, r, "merchants") => Has(q, r, "merchants")'
              /\ Has(q, r, "benefits") => Has(q, r, "benefits")'
          BY <1>13, <4>1, <4>2, Zenon DEF Figures, Shares
        <4>4. Once(r)'
          BY <1>1, <4>1 DEF Once
        <4>5. \/ step[q] = 2 /\ step'[q] = 3 /\ now = "categories"
              \/ step[q] = 3 /\ step'[q] = 4 /\ now = "merchants"
              \/ step[q] = 4 /\ step'[q] = 5 /\ now = "benefits"
          BY <1>4, <1>15, <1>12, <2>5, <3>1
        <4>6. step'[q] >= 3 => Has(q, r, "categories")'
          BY <4>1, <4>2, <4>3, <4>5
        <4>7. step'[q] >= 4 => Has(q, r, "merchants")'
          BY <4>1, <4>2, <4>3, <4>5
        <4>8. step'[q] >= 5 => Has(q, r, "benefits")'
          BY <4>1, <4>2, <4>3, <4>5
        <4> QED BY <4>1, <4>4, <4>6, <4>7, <4>8
      <3> QED BY <1>1, <3>3, <3>4, <3>5 DEF CompanyReport
    <2> QED BY <1>4, <1>15, <2>3, <2>4, <2>5
  <1>16. ASSUME Table[x] = "merchants" PROVE MerchantReport(q)'
    <2>1. MerchantReport(q)
      BY DEF ReportInv
    <2>2. CASE step[q] = 0
      <3>1. what = "codes" /\ step'[q] = 1
        BY <1>4, <1>7, <1>16, <2>2
      <3>2. counted'[q]["codes"] = MerchantRows(x, "codes")
        BY <1>5, <1>8, <1>16, <3>1 DEF R
      <3>3. ASSUME NEW p \in MerchantRows(x, "codes")
            PROVE  LET r == Born[p]["redemption"] IN
                   /\ Table[p] = "promo_codes" /\ Born[Born[p]["benefit"]]["merchant"] = x
                   /\ life[r] = "live" \/ life[Born[r]["company"]] = "gone"
        BY <1>3, MerchantReads DEF TenantInv, CodesKept, Of
      <3> QED BY <1>1, <3>1, <3>2, <3>3 DEF MerchantReport
    <2>3. CASE step[q] \in {1, 2}
      <3>1. what \in {"benefits", "trend"} /\ step'[q] # 1
        BY <1>4, <1>7, <1>16, <2>3
      <3>2. counted'[q]["codes"] = counted[q]["codes"]
        BY <1>8, <3>1 DEF Figures
      <3>3. ASSUME NEW p \in counted[q]["codes"]
            PROVE  LET r == Born[p]["redemption"] IN
                   /\ Table[p] = "promo_codes" /\ Born[Born[p]["benefit"]]["merchant"] = x
                   /\ \/ Shows(q, r, "benefits")'
                      \/ life'[Born[r]["company"]] = "gone"
                      \/ life'[x] = "gone"
        <4> DEFINE r == Born[p]["redemption"]
        <4>1. /\ p \in Rows /\ Table[p] = "promo_codes"
              /\ Born[Born[p]["benefit"]]["merchant"] = x
              /\ \/ IF step[q] = 1 THEN life[r] = "live" ELSE Shows(q, r, "benefits")
                 \/ life[Born[r]["company"]] = "gone"
                 \/ life[x] = "gone"
          BY <1>1, <1>3, <1>16, <2>1, <2>3 DEF MerchantReport, Figures
        <4>2. r \in Rows /\ Table[r] = "benefit_redemptions" /\ Born[r]["benefit"] = Born[p]["benefit"]
          BY <4>1, CodeRow
        <4>3. CASE step[q] = 1 /\ life[r] = "live"
          <5>1. what = "benefits"
            BY <1>4, <1>16, <4>3
          <5>2. r \in MerchantRows(x, "benefits")
            BY <1>3, <4>1, <4>2, <4>3, MerchantReads
          <5>3. r \in R
            BY <1>16, <5>1, <5>2 DEF R
          <5>4. Shows(q, r, "benefits")'
            BY <1>14, <1>12, <5>1, <5>3
          <5> QED BY <4>1, <5>4
        <4>4. CASE step[q] = 2 /\ Shows(q, r, "benefits")
          <5>1. what = "trend"
            BY <1>4, <1>16, <4>4
          <5> QED BY <1>13, <1>12, <4>1, <4>2, <4>4, <5>1 DEF Figures, Shares
        <4> QED BY <1>1, <2>3, <4>1, <4>3, <4>4
      <3> QED BY <1>1, <3>1, <3>2, <3>3 DEF MerchantReport
    <2> QED BY <1>4, <1>16, <2>2, <2>3
  <1>17. CompanyReport(q)' /\ MerchantReport(q)'
    BY <1>1, <1>3, <1>15, <1>16 DEF CompanyReport, MerchantReport, Tenancies
  <1> QED BY <1>10, <1>11, <1>17 DEF ReportInv
-----------------------------------------------------------------------------
(* Theorems. *)

\* A step of Reports is one of Tenants or one of a reader, who changes no row.
LEMMA StepOf ==
  ASSUME TenantInv, Next
  PROVE  \/ TenantNext /\ UNCHANGED reportVars
         \/ UNCHANGED tenantVars /\ \E q \in Readers : Ask(q) \/ Read(q)
  BY DEF Next, Ask, Read, tenantVars

\* The invariant holds in every state of Tenants and Reports: types, references,
\* transactions under way, deletions, accounts, codes and what a report has
\* counted so far.
THEOREM Invariance == Spec => []IInv
  <1>1. Init => IInv
    BY TenantStart, ReportStart DEF Init, IInv
  <1>2. IInv /\ [Next]_vars => IInv'
    <2> SUFFICES ASSUME IInv, [Next]_vars PROVE IInv'
      OBVIOUS
    <2>1. CASE TenantNext /\ UNCHANGED reportVars
      BY <2>1, TenantStep, RowsMove DEF IInv
    <2>2. ASSUME UNCHANGED tenantVars PROVE TenantInv'
      <3>1. UNCHANGED rowVars /\ UNCHANGED <<pc, target, known, found>>
        BY <2>2 DEF tenantVars, rowVars
      <3>2. Typed' /\ Aimed'
        BY <3>1, RowsStay DEF IInv, TenantInv, Typed, Aimed, rowVars
      <3> QED BY <3>1, <3>2, RowsStay DEF IInv, TenantInv
    <2>3. CASE UNCHANGED tenantVars /\ \E q \in Readers : Ask(q) \/ Read(q)
      BY <2>2, <2>3, AskKeeps, ReadKeeps DEF IInv
    <2>4. CASE UNCHANGED vars
      <3>1. UNCHANGED tenantVars /\ UNCHANGED <<life, subject, step, counted, partial>>
        BY <2>4 DEF vars, tenantVars
      <3>2. ReportInv'
        BY <3>1 DEF IInv, ReportInv, ReaderTyped, CompanyReport, MerchantReport, Once, Has, Shows,
                    Statements
      <3> QED BY <2>2, <3>1, <3>2 DEF IInv
    <2> QED BY <2>1, <2>3, <2>4, StepOf DEF IInv
  <1> QED BY <1>1, <1>2, PTL DEF Spec

\* No live row refers to one that is gone (001_initial_schema.py:50-306), whatever
\* was being inserted when its company or its merchant was deleted.
THEOREM References == Spec => []NoDangling
  <1>1. IInv => NoDangling
    BY DEF IInv, TenantInv
  <1> QED BY <1>1, Invariance, PTL

\* No two accounts of one address or one Bitrix24 id, though imports and
\* registrations look first and insert later (companies/routes.py:162-192).
THEOREM AccountsDiffer == Spec => []AccountsUnique
  <1>1. IInv => AccountsUnique
    BY DEF IInv, TenantInv, Accounts, AccountsUnique, Live
  <1> QED BY <1>1, Invariance, PTL

\* A code goes only with its benefit or the account it was issued to, never with
\* its redemption alone (analytics/service.py:149-150).
THEOREM CodesStay == Spec => MerchantHistory
  <1>1. ASSUME IInv, [Next]_vars
        PROVE  [\A x \in Live : Table[x] = "promo_codes" /\ life'[x] = "gone" =>
                  \E c \in {"benefit", "employee"} : life'[Born[x][c]] = "gone"]_tenantVars
    <2> SUFFICES ASSUME TenantNext, NEW x \in Live, Table[x] = "promo_codes", life'[x] = "gone"
                 PROVE  \E c \in {"benefit", "employee"} : life'[Born[x][c]] = "gone"
      BY <1>1, StepOf DEF IInv, vars, tenantVars
    <2>1. PICK d \in Deletions : Delete(d) /\ x \in Taken(d)
      BY <1>1, OnlyDeletions DEF IInv
    <2>2. /\ Table[target[d]] \in Tenancies /\ \A y \in Taken(d) : life'[y] = "gone"
          /\ x = target[d] \/ \E c \in DOMAIN Born[x] :
               Key(Table[x], c, "CASCADE") \in Schema /\ Born[x][c] \in Taken(d)
      BY <1>1, <2>1, DeleteFacts DEF IInv
    <2>3. PICK c \in DOMAIN Born[x] :
            Key(Table[x], c, "CASCADE") \in Schema /\ Born[x][c] \in Taken(d)
      BY <2>2 DEF Tenancies
    <2>4. c \in {"benefit", "employee"}
      BY <2>3, CascadeKeys
    <2> QED BY <2>2, <2>3, <2>4
  <1> QED BY <1>1, Invariance, PTL DEF Spec, MerchantHistory

\* A benefit there from the start goes with its company only: the deletion of a
\* merchant fails while he has one (merchants/models.py:32).
THEOREM BenefitsStay == Spec => BenefitsOutlive
  <1>1. ASSUME IInv, [Next]_vars
        PROVE  [\A x \in Live \cap Standing : Table[x] = "benefits" /\ life'[x] = "gone" =>
                  Born[x]["company"] # None /\ life'[Born[x]["company"]] = "gone"]_tenantVars
    <2> SUFFICES ASSUME TenantNext, NEW x \in Live \cap Standing, Table[x] = "benefits",
                        life'[x] = "gone"
                 PROVE  Born[x]["company"] # None /\ life'[Born[x]["company"]] = "gone"
      BY <1>1, StepOf DEF IInv, vars, tenantVars
    <2>1. PICK d \in Deletions : Delete(d) /\ x \in Taken(d)
      BY <1>1, OnlyDeletions DEF IInv
    <2> DEFINE G == Taken(d)
    <2> HIDE DEF G
    <2>2. /\ Table[target[d]] \in Tenancies /\ G \subseteq Rows
          /\ \A y \in G : life'[y] = "gone"
          /\ \A y \in G : y = target[d] \/ \E c \in DOMAIN Born[y] :
               Key(Table[y], c, "CASCADE") \in Schema /\ Born[y][c] \in G
      BY <1>1, <2>1, DeleteFacts DEF IInv, G
    <2>3. x \in G /\ x \in Rows
      BY <2>1 DEF G, Live
    <2>4. PICK c \in DOMAIN Born[x] :
            Key(Table[x], c, "CASCADE") \in Schema /\ Born[x][c] \in G
      BY <2>2, <2>3 DEF Tenancies
    <2>5. c \in {"company", "merchant"}
      BY <2>4, CascadeKeys
    <2>6. CASE c = "company"
      BY <2>2, <2>4, <2>6, TenantsRows
    <2>7. CASE c = "merchant"
      <3> DEFINE m == Born[x]["merchant"]
      <3>1. m \in G /\ Table[m] \in Tenancies
        BY <2>3, <2>4, <2>7, BenefitRow DEF Tenancies
      <3>2. m = target[d]
        BY <2>2, <3>1, CascadeKeys
      <3>3. pc[d] = "work" /\ ~FlushFails(d)
        BY <2>1 DEF Delete
      <3>4. x \in known[d]
        BY <1>1, <3>2, <3>3 DEF IInv, TenantInv, Aimed
      <3> QED BY <3>3, <3>4 DEF FlushFails
    <2> QED BY <2>5, <2>6, <2>7
  <1> QED BY <1>1, Invariance, PTL DEF Spec, BenefitsOutlive

\* What an earlier figure of a finished report counts, a later one that leaves
\* nothing out has counted too, but for what was removed meanwhile
\* (analytics/service.py:171-219, 243-266).
THEOREM ReportsCover == Spec => []LaterFiguresCover
  <1>1. IInv => LaterFiguresCover
    <2> SUFFICES ASSUME IInv, NEW q \in Readers, Complete(q)
                 PROVE  /\ Table[subject[q]] = "companies" => LET rows == counted[q] IN
                             /\ \A p \in rows["codes"] :
                                  \/ Born[p]["redemption"] \in rows["total"]
                                  \/ life[Born[p]["redemption"]] = "gone"
                             /\ \A table \in Shares \ partial[q] :
                                  \A r \in rows["total"] : r \in rows[table] \/ life[r] = "gone"
                        /\ Table[subject[q]] = "merchants" /\ "benefits" \notin partial[q] =>
                             \A p \in counted[q]["codes"] :
                               \/ Born[p]["redemption"] \in counted[q]["benefits"]
                               \/ life[Born[Born[p]["redemption"]]["company"]] = "gone"
                               \/ life[subject[q]] = "gone"
      BY DEF LaterFiguresCover, CompanyCovers, MerchantCovers
    <2>1. subject[q] # None /\ step[q] = Len(Statements(q))
      BY DEF Complete
    <2>2. CompanyReport(q) /\ MerchantReport(q)
      BY DEF IInv, ReportInv
    <2>3. ASSUME Table[subject[q]] = "companies"
          PROVE  /\ \A p \in counted[q]["codes"] : \/ Born[p]["redemption"] \in counted[q]["total"]
                                                 \/ life[Born[p]["redemption"]] = "gone"
                 /\ \A table \in Shares \ partial[q] :
                      \A r \in counted[q]["total"] : r \in counted[q][table] \/ life[r] = "gone"
      <3>1. step[q] = 5
        BY <2>1, <2>3, OrderOf
      <3>2. step[q] >= 1 /\ step[q] >= 2 /\ step[q] >= 3 /\ step[q] >= 4 /\ step[q] >= 5
        BY <3>1
      <3>3. \A p \in counted[q]["codes"] : \/ Born[p]["redemption"] \in counted[q]["total"]
                                          \/ life[Born[p]["redemption"]] = "gone"
        BY <2>1, <2>2, <2>3, <3>2 DEF CompanyReport
      <3>4. \A r \in counted[q]["total"] : \A table \in Shares : Has(q, r, table)
        BY <2>1, <2>2, <2>3, <3>2 DEF CompanyReport, Shares
      <3> QED BY <3>3, <3>4 DEF Has, Shows
    <2>4. ASSUME Table[subject[q]] = "merchants", "benefits" \notin partial[q]
          PROVE  \A p \in counted[q]["codes"] :
                   \/ Born[p]["redemption"] \in counted[q]["benefits"]
                   \/ life[Born[Born[p]["redemption"]]["company"]] = "gone"
                   \/ life[subject[q]] = "gone"
      <3>1. step[q] = 3
        BY <2>1, <2>4, OrderOf
      <3>2. step[q] >= 1 /\ step[q] # 1
        BY <3>1
      <3>3. \A p \in counted[q]["codes"] :
              \/ Shows(q, Born[p]["redemption"], "benefits")
              \/ life[Born[Born[p]["redemption"]]["company"]] = "gone"
              \/ life[subject[q]] = "gone"
        BY <2>1, <2>2, <2>4, <3>2 DEF MerchantReport
      <3> QED BY <2>4, <3>3 DEF Shows
    <2> QED BY <2>3, <2>4
  <1> QED BY <1>1, Invariance, PTL
=============================================================================
