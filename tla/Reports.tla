------------------------------- MODULE Reports -------------------------------
(***************************************************************************)
(* The figures of a company and of a merchant (analytics/service.py), read *)
(* statement by statement while Tenants inserts and deletes.  Each         *)
(* statement sees the rows committed before it; what the code counts is    *)
(* kept here as the set of counted rows.  Seats, the number of employees   *)
(* and the state of codes and benefits are not modelled: a title, a name,  *)
(* or when a code was redeemed, is any.                                    *)
(***************************************************************************)
EXTENDS Tenants

CONSTANTS
  Readers,
  Headings,                  \* categories, names and titles that rows are grouped by
  CompanyTop, MerchantTop    \* the LIMIT of a table: 5 and 10 in the code

ASSUME ReportsBounds == CompanyTop \in Nat /\ MerchantTop \in Nat

VARIABLES
  subject,   \* the company or merchant a report is about
  step,      \* the statements it has run
  counted,   \* the rows each statement has counted
  partial    \* the figures that leave rows out: a LIMIT, or thirty days

reportVars == <<subject, step, counted, partial>>
vars == <<life, cut, ext, pc, target, known, found, subject, step, counted, partial>>

Shares == {"categories", "merchants", "benefits"}
Figures == Shares \cup {"codes", "total", "trend"}

\* redeem_benefit: an employee redeems for the company of the account a benefit
\* of all companies or of that one, and the code is for the same redemption.
ASSUME ReportsRows ==
  \A x \in Rows :
    /\ Table[x] = "promo_codes" => LET r == Born[x]["redemption"] IN
         /\ r # None
         /\ \A c \in {"benefit", "employee"} : Born[r][c] = Born[x][c]
    /\ Table[x] = "benefit_redemptions" =>
         /\ Born[Born[x]["employee"]]["company"] = Born[x]["company"]
         /\ Born[Born[x]["employee"]]["merchant"] = None
         /\ Born[Born[x]["benefit"]]["company"] \in {None, Born[x]["company"]}
-----------------------------------------------------------------------------
\* A mistake the properties must notice, used by no action.  Order: the
\* statements run the other way round.
Reversed ==
  [companies |-> <<"benefits", "merchants", "categories", "total", "codes">>,
   merchants |-> <<"trend", "benefits", "codes">>]
-----------------------------------------------------------------------------
\* The statements of company_analytics and of merchant_analytics, in order.
Order ==
  [companies |-> <<"codes", "total", "categories", "merchants", "benefits">>,
   merchants |-> <<"codes", "benefits", "trend">>]

Top == [companies |-> CompanyTop, merchants |-> MerchantTop]

Redemptions == Of("benefit_redemptions")

\* JOIN benefits, and JOIN merchants for the table of merchants.
Joined(S, what) ==
  {r \in S : /\ Ref(r, "benefit") \in Live
             /\ what = "merchants" => Ref(Ref(r, "benefit"), "merchant") \in Live}

\* A join over redemption_id: a code without a redemption is in no company.
CompanyRows(x, what) ==
  LET R == {r \in Redemptions : Ref(r, "company") = x} IN
  CASE what = "codes" -> {p \in Of("promo_codes") : Ref(p, "redemption") \in R}
    [] what = "total" -> R
    [] what \in Shares -> Joined(R, what)

\* A join over benefit_id.
MerchantRows(x, what) ==
  LET mine(S) == {y \in S : Ref(Ref(y, "benefit"), "merchant") = x} IN
  IF what = "codes" THEN mine(Of("promo_codes")) ELSE mine(Redemptions)

\* GROUP BY the category or title of the benefit, or the name of the merchant;
\* two may have the same.
GroupingsOf(R, what) ==
  LET owner(r) == IF what = "merchants" THEN Ref(Ref(r, "benefit"), "merchant")
                  ELSE Ref(r, "benefit")
  IN {h \in [R -> Headings] : \A r, s \in R : owner(r) = owner(s) => h[r] = h[s]}

\* ORDER BY count DESC LIMIT n: the rows of the n largest groups, ties anyhow.
Largest(R, h, n) ==
  LET heads == {h[r] : r \in R}
      size(t) == Cardinality({r \in R : h[r] = t})
      shown == {T \in SUBSET heads :
        /\ Cardinality(T) <= n
        /\ Cardinality(T) = n \/ T = heads
        /\ \A t \in T, u \in heads \ T : size(t) >= size(u)}
  IN {{r \in R : h[r] \in T} : T \in shown}

\* What a statement counts of the rows R it joins.  The trend is of those
\* redeemed in the last thirty days.
Readings(R, what, n) ==
  IF what \in Shares THEN UNION {Largest(R, h, n) : h \in GroupingsOf(R, what)}
  ELSE {S \in SUBSET R : what = "trend" \/ S = R}

Statements(q) == Order[Table[subject[q]]]
Complete(q) == subject[q] # None /\ step[q] = Len(Statements(q))

ReportTypeOK ==
  /\ TypeOK
  /\ subject \in [Readers -> Rows \cup {None}]
  /\ step \in [Readers -> 0..5]
  /\ counted \in [Readers -> [Figures -> SUBSET Rows]]
  /\ partial \in [Readers -> SUBSET Figures]

Init ==
  /\ TenantInit
  /\ subject = [q \in Readers |-> None]
  /\ step = [q \in Readers |-> 0]
  /\ counted = [q \in Readers |-> [what \in Figures |-> {}]]
  /\ partial = [q \in Readers |-> {}]

\* get_company_analytics, get_merchant_analytics
Ask(q) ==
  /\ subject[q] = None
  /\ \E x \in Live : /\ Table[x] \in {"companies", "merchants"}
                     /\ subject' = [subject EXCEPT ![q] = x]
  /\ UNCHANGED <<life, cut, ext, pc, target, known, found, step, counted, partial>>

Read(q) ==
  LET x == subject[q]
      what == Statements(q)[step[q] + 1]
      R == IF Table[x] = "companies" THEN CompanyRows(x, what) ELSE MerchantRows(x, what)
  IN
  /\ x # None /\ step[q] < Len(Statements(q))
  /\ \E S \in Readings(R, what, Top[Table[x]]) :
       /\ counted' = [counted EXCEPT ![q][what] = S]
       /\ partial' = IF S = R THEN partial ELSE [partial EXCEPT ![q] = @ \cup {what}]
  /\ step' = [step EXCEPT ![q] = @ + 1]
  /\ UNCHANGED <<life, cut, ext, pc, target, known, found, subject>>

Next ==
  \/ UNCHANGED reportVars /\ TenantNext
  \/ \E q \in Readers : Ask(q) \/ Read(q)

Spec == Init /\ [][Next]_vars
-----------------------------------------------------------------------------
(* Properties. *)

\* A company's report has the redemption of every code it counts in its total,
\* and every redemption of its total in each of the three tables that does not
\* leave groups out, but for what was removed while the report was being made.
\* It is the order of the statements that makes it so; a table may count
\* redemptions that came after the total, so its sum may be above it.
CompanyCovers ==
  \A q \in Readers : Complete(q) /\ Table[subject[q]] = "companies" =>
    LET rows == counted[q] IN
    /\ \A p \in rows["codes"] : \/ Born[p]["redemption"] \in rows["total"]
                                \/ life[Born[p]["redemption"]] = "gone"
    /\ \A table \in Shares \ partial[q] :
         \A r \in rows["total"] : r \in rows[table] \/ life[r] = "gone"

\* Every code a merchant's report counts is that of a redemption in its table of
\* benefits, unless this leaves benefits out, or the employee's company was
\* deleted, now or before, or the merchant is.
MerchantCovers ==
  \A q \in Readers : (Complete(q) /\ Table[subject[q]] = "merchants"
                     /\ "benefits" \notin partial[q]) =>
      \A p \in counted[q]["codes"] :
        \/ Born[p]["redemption"] \in counted[q]["benefits"]
        \/ life[Born[Born[p]["redemption"]]["company"]] = "gone"
        \/ life[subject[q]] = "gone"

\* What an earlier figure of a finished report counts, a later one has counted
\* too, although each comes from a statement of its own and rows come and go in
\* between (analytics/service.py:171-219, 243-266).
LaterFiguresCover == CompanyCovers /\ MerchantCovers
=============================================================================
