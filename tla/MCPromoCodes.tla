---------------------------- MODULE MCPromoCodes ----------------------------
(* Instances of PromoCodes for TLC.  Not everything happens in every        *)
(* behaviour: cast, chosen at the start, says what does.                    *)
EXTENDS PromoCodes

CONSTANTS p1, b1, b2, e1, e2, s1, s2, v1, v2, c1, c2, r1, r2

TillKinds == {"issue", "confirm", "edit"}

VARIABLE cast

\* What happens: two employees before two benefits that are edited; a clock,
\* a platform and tokens that change; or codes of two employees redeemed.
Casts == {
  [kinds |-> {"issue", "edit"}, benefits |-> {b1, b2}, employees |-> {e1, e2}],
  [kinds |-> {"issue", "staff", "window"}, benefits |-> {b1}, employees |-> {e1}],
  [kinds |-> {"issue", "confirm", "bot", "lapse"}, benefits |-> {b1}, employees |-> {e1, e2}],
  [kinds |-> {"issue", "confirm", "edit"}, benefits |-> {b1}, employees |-> {e1}]}

Shut == [open |-> FALSE, limit |-> None, each |-> 1, offers |-> {}]

CastKinds ==
  /\ \A r \in Requests :
       pc[r] = "idle" /\ pc'[r] # "idle" =>
         /\ job'[r].kind \in cast.kinds
         /\ job'[r].employee \in cast.employees \cup {None}
         /\ job'[r].benefit \in cast.benefits \cup {None}
  /\ "edit" \in cast.kinds \/ UNCHANGED benefit
  /\ \A b \in Benefits \ cast.benefits : benefit'[b] = benefit[b]
  /\ "staff" \in cast.kinds \/ UNCHANGED <<employee, token>>
  /\ \A e \in Employees \ cast.employees : employee'[e] = employee[e] /\ token'[e] = token[e]
  /\ "window" \in cast.kinds \/ UNCHANGED <<backed, valid>>
  /\ Benefits \ cast.benefits \subseteq backed' \cap valid'
  /\ "lapse" \in cast.kinds \/ UNCHANGED lapsed

\* Of interchangeable values the first comes first.
InOrder ==
  /\ pc[r1] = "idle" /\ pc[r2] = "idle" => pc'[r2] = "idle"
  /\ voucher'[v2] # None => voucher'[v1] # None
  /\ \A r \in Requests :
       draw'[r].code = c2 /\ draw[r].code # c2 =>
         \/ \E q \in Requests \ {r} : draw[q].code # None
         \/ Ledger!Issued # {}

CastNext == Next /\ UNCHANGED cast /\ CastKinds /\ InOrder

CastInit ==
  /\ Init
  /\ cast \in Casts
  /\ \A b \in Benefits \ cast.benefits : benefit[b] = Shut

CastSpec ==
  CastInit /\ [][CastNext]_<<vars, cast>> /\ \A r \in Requests : SF_vars(Advance(r))
=============================================================================
