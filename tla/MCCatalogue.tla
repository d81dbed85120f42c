----------------------------- MODULE MCCatalogue -----------------------------
(* An instance of Catalogue for TLC.  Not every request takes part in every *)
(* behaviour: cast, chosen at the start, says which ones do.               *)
EXTENDS Catalogue

CONSTANTS b1, b2, m1, p1, p2, c1, c2, e1, e2, w1, h1, h2

VARIABLE cast

MCMerchantOf == [b \in {b1, b2} |-> m1]
MCCompanyOf == (b1 :> None) @@ (b2 :> c1)
MCTitle == (b1 :> 1) @@ (b2 :> 2)
MCCategory == (b1 :> "FITNESS") @@ (b2 :> "TRAVEL")
MCEmployees == {<<p1, c1>>, <<p2, c2>>}

Patch(b, fields, new) == [op |-> "patch", benefit |-> b, fields |-> fields, offers |-> new]
MCPayloads == {
  Patch(b1, [from |-> 1], None),
  Patch(b1, [until |-> 1], None),
  Patch(b1, [active |-> FALSE], None),
  Patch(b1, [active |-> TRUE, until |-> None], {<<p2, TRUE>>}),
  Patch(b1, [active |-> TRUE], {<<p1, TRUE>>, <<p2, FALSE>>}),
  [op |-> "create", benefit |-> b2, fields |-> [until |-> 1], offers |-> {<<p1, TRUE>>}],
  [op |-> "create", benefit |-> b1, fields |-> [from |-> 0], offers |-> {<<p1, TRUE>>}]}

\* Who takes part, what assistants are asked for, and whether time passes and
\* merchants are suspended.
Casts == {
  [who |-> {e1, e2}, kinds |-> {}, moves |-> FALSE],
  [who |-> {e1, w1}, kinds |-> {}, moves |-> TRUE],
  [who |-> {e1, h1}, kinds |-> {"concierge"}, moves |-> FALSE],
  [who |-> {h1, h2, w1}, kinds |-> {"draft", "adminDraft", "report"}, moves |-> FALSE]}

CastNext ==
  /\ Next
  /\ UNCHANGED cast
  /\ \A x \in Requests \ cast.who : pc'[x] = "idle"
  /\ \A h \in Assistants : pc'[h] # "idle" => help'[h].kind \in cast.kinds
  /\ cast.moves \/ UNCHANGED <<now, open>>

CastInit == Init /\ cast \in Casts

CastSpec == CastInit /\ [][CastNext]_<<vars, cast>> /\ Fairness
=============================================================================
