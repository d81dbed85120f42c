---------------------------- MODULE VoucherLedger ---------------------------
(***************************************************************************)
(* What the benefits, their limits and the promo codes promise when one    *)
(* request runs at a time: the tables benefits (with its plan offers),     *)
(* benefit_redemptions and promo_codes.  A redemption and its promo code   *)
(* are written together and are one voucher here.  PromoCodes runs the     *)
(* requests concurrently, statement by statement.                          *)
(***************************************************************************)
EXTENDS Integers, FiniteSets

CONSTANTS
  Plans,       \* the tariffs (UserPlan)
  Benefits,    \* benefit rows
  Employees,   \* employee accounts
  Staff,       \* merchant and administrator accounts that confirm codes
  Vouchers,    \* redemption rows, with their promo codes, that may be created
  Codes,       \* what the generator can draw
  MaxLimit,    \* bound on usage_limit and max_redemptions_per_employee
  None         \* SQL NULL

VARIABLES
  benefit,     \* a benefit: is_active, its two limits, the plans it is offered to
  voucher,     \* a redemption row and its promo code
  accepted     \* how many times a code was answered "redeemed successfully"

dbVars == <<benefit, voucher, accepted>>

Limits == 1..MaxLimit

BenefitRows ==
  [open : BOOLEAN, limit : Limits \cup {None}, each : Limits, offers : SUBSET Plans]

VoucherRows ==
  [owner : Employees, benefit : Benefits, code : Codes, by : Staff \cup {None},
   promo : {"ISSUED", "REDEEMED"}, redemption : {"ISSUED", "REDEEMED"}]

DbTypeOK ==
  /\ benefit \in [Benefits -> BenefitRows]
  /\ voucher \in [Vouchers -> VoucherRows \cup {None}]
  /\ accepted \in [Vouchers -> Nat]

Exists(v) == voucher[v] # None
Issued == {v \in Vouchers : Exists(v)}

\* Both statuses of a redemption count against the limits.
UsedOf(b) == {v \in Issued : voucher[v].benefit = b}
UsedBy(b, e) == {v \in UsedOf(b) : voucher[v].owner = e}

RoomIn(b) == benefit[b].limit # None => Cardinality(UsedOf(b)) < benefit[b].limit
RoomFor(b, e) == Cardinality(UsedBy(b, e)) < benefit[b].each

NewVoucher(b, e, c) ==
  [owner |-> e, benefit |-> b, code |-> c, by |-> None,
   promo |-> "ISSUED", redemption |-> "ISSUED"]

\* Any catalogue, no code issued yet.
Init ==
  /\ benefit \in [Benefits -> BenefitRows]
  /\ voucher = [v \in Vouchers |-> None]
  /\ accepted = [v \in Vouchers |-> 0]
-----------------------------------------------------------------------------
Issue(e, p, b, v, c) ==
  /\ benefit[b].open
  /\ p \in benefit[b].offers
  /\ RoomIn(b)
  /\ RoomFor(b, e)
  /\ ~Exists(v)
  /\ \A w \in Issued : voucher[w].code # c
  /\ voucher' = [voucher EXCEPT ![v] = NewVoucher(b, e, c)]
  /\ UNCHANGED <<benefit, accepted>>

Confirm(v, s) ==
  /\ Exists(v)
  /\ voucher[v].promo = "ISSUED"
  /\ voucher' = [voucher EXCEPT ![v].promo = "REDEEMED",
                                ![v].redemption = "REDEEMED", ![v].by = s]
  /\ accepted' = [accepted EXCEPT ![v] = @ + 1]
  /\ UNCHANGED benefit

\* The bot closes the code and leaves the redemption open.
ConfirmByBot(v) ==
  /\ Exists(v)
  /\ voucher[v].promo = "ISSUED"
  /\ voucher' = [voucher EXCEPT ![v].promo = "REDEEMED"]
  /\ accepted' = [accepted EXCEPT ![v] = @ + 1]
  /\ UNCHANGED benefit

Edit(b, row) ==
  /\ benefit' = [benefit EXCEPT ![b] = row]
  /\ UNCHANGED <<voucher, accepted>>

Next ==
  \/ \E e \in Employees, p \in Plans, b \in Benefits, v \in Vouchers, c \in Codes :
       Issue(e, p, b, v, c)
  \/ \E v \in Vouchers, s \in Staff : Confirm(v, s)
  \/ \E v \in Vouchers : ConfirmByBot(v)
  \/ \E b \in Benefits, row \in BenefitRows : Edit(b, row)

Spec == Init /\ [][Next]_dbVars
=============================================================================
