-------------------------- MODULE PromoCodesProofs --------------------------
(***************************************************************************)
(* The inductive invariant of PromoCodes and what follows from it, for any *)
(* benefits, employees, vouchers, texts and number of concurrent requests. *)
(***************************************************************************)
EXTENDS PromoCodes, FiniteSetTheorems, TLAPS

\* The ledger counts with the library's cardinality.
LEMMA SameCount == \A S : Ledger!Cardinality(S) = Cardinality(S)
  BY DEF Ledger!Cardinality, Cardinality

\* The vouchers are finitely many, so their counts are numbers.
LEMMA Countable ==
  ASSUME NEW S \in SUBSET Vouchers
  PROVE  IsFiniteSet(S) /\ Cardinality(S) \in Nat
  BY PromoSetsAssumption, FS_Subset, FS_CardinalityType

\* The invariant holds at the start.
LEMMA InitInv == Init => IInv
<1> SUFFICES ASSUME Init
             PROVE  IInv
  OBVIOUS
<1> USE PromoBoundsAssumption DEF Init, Ledger!Init
<1>1. TypeOK
  <2>1. Ledger!DbTypeOK
    BY DEF Ledger!DbTypeOK
  <2>2. employee \in [Employees -> [plan : Plans \cup {None}, active : BOOLEAN]]
    <3> DEFINE Hired == [plan : Plans, active : {TRUE}]
    <3>1. \A x \in Hired : x \in [plan : Plans \cup {None}, active : BOOLEAN]
      OBVIOUS
    <3>2. employee \in [Employees -> Hired]
      OBVIOUS
    <3> HIDE DEF Hired
    <3> QED
      BY <3>1, <3>2
  <2>3. token \in [Employees -> Plans \cup {None}]
    OBVIOUS
  <2> QED
    BY <2>1, <2>2, <2>3 DEF TypeOK, Steps, NoJob, Job, NoCode, NoDraw
<1>2. Ledger!Issued = {}
  BY DEF Ledger!Issued, Ledger!Exists
<1>3. \A r \in Requests : StepFits(r) /\ BenefitHeld(r) /\ CodeHeld(r)
  BY DEF StepFits, BenefitHeld, CodeHeld, NoDraw, Issuing
<1> QED
  BY <1>1, <1>2, <1>3 DEF IInv, CodesUnique
-----------------------------------------------------------------------------
(* Interference.                                                           *)

\* A step of r leaves the other sessions and the rows they hold alone.
Quiet(r) ==
  /\ \A q \in Requests \ {r} : pc'[q] = pc[q] /\ job'[q] = job[q] /\ draw'[q] = draw[q]
  /\ \A b \in Benefits : benefitLock[b] \notin {r, None} => benefitLock'[b] = benefitLock[b]

\* No code comes or goes, or changes anything but its status.
SameCodes ==
  \A v \in Vouchers :
    /\ (voucher[v] = None) <=> (voucher'[v] = None)
    /\ voucher[v] # None => /\ voucher'[v].code = voucher[v].code
                            /\ voucher'[v].benefit = voucher[v].benefit
                            /\ voucher'[v].owner = voucher[v].owner

\* A step that writes no voucher.
LEMMA SameTables == UNCHANGED voucher => SameCodes
  BY DEF SameCodes

\* The counts then stay, and the texts stay different.
LEMMA SameCounts ==
  ASSUME SameCodes
  PROVE  /\ Ledger!Issued' = Ledger!Issued
         /\ \A b : Ledger!UsedOf(b)' = Ledger!UsedOf(b)
         /\ \A b, e : Ledger!UsedBy(b, e)' = Ledger!UsedBy(b, e)
         /\ \A c : Taken(c) <=> Taken(c)'
         /\ CodesUnique => CodesUnique'
<1>1. Ledger!Issued' = Ledger!Issued
  BY DEF SameCodes, Ledger!Issued, Ledger!Exists
<1>2. \A b : Ledger!UsedOf(b)' = Ledger!UsedOf(b)
  BY <1>1 DEF SameCodes, Ledger!UsedOf, Ledger!Issued, Ledger!Exists
<1>3. \A b, e : Ledger!UsedBy(b, e)' = Ledger!UsedBy(b, e)
  BY <1>2 DEF SameCodes, Ledger!UsedBy, Ledger!UsedOf, Ledger!Issued, Ledger!Exists
<1>4. (\A c : Taken(c) <=> Taken(c)') /\ (CodesUnique => CodesUnique')
  BY <1>1 DEF SameCodes, Taken, CodesUnique, Ledger!Issued, Ledger!Exists
<1> QED
  BY <1>1, <1>2, <1>3, <1>4

\* If the benefits stay too, they have the same room.
LEMMA SameRoom ==
  ASSUME SameCodes, UNCHANGED benefit
  PROVE  /\ Ledger!Issued' = Ledger!Issued
         /\ \A b, e : (Ledger!RoomIn(b) <=> Ledger!RoomIn(b)')
                    /\ (Ledger!RoomFor(b, e) <=> Ledger!RoomFor(b, e)')
         /\ \A c : Taken(c) <=> Taken(c)'
  BY SameCounts DEF Ledger!RoomIn, Ledger!RoomFor

\* What such a step lets another session go on knowing, as long as r has not
\* just inserted the text the other session has inserted.
LEMMA OthersInv ==
  ASSUME IInv, NEW r \in Requests, NEW q \in Requests \ {r}, Quiet(r),
         SameCodes, UNCHANGED benefit,
         pc'[r] = "commit" => ~Awaited(r, draw'[r].code)
  PROVE  StepFits(q)' /\ BenefitHeld(q)' /\ CodeHeld(q)'
<1> USE SameRoom DEF IInv, Quiet
<1>1. StepFits(q)'
  BY DEF StepFits, Issuing
<1>2. BenefitHeld(q)'
  <2>1. pc[q] \in Issuing => job[q].benefit \in Benefits
    BY DEF StepFits
  <2> QED
    BY <2>1, PromoNoneAssumption DEF BenefitHeld
<1>3. CodeHeld(q)'
  BY DEF CodeHeld, Awaited
<1> QED
  BY <1>1, <1>2, <1>3

\* So much for the others: a step of r that keeps the tables keeps the
\* invariant if it is typed and r knows what it should.
LEMMA OwnStep ==
  ASSUME IInv, NEW r \in Requests, Quiet(r), SameCodes, UNCHANGED benefit,
         TypeOK', StepFits(r)', BenefitHeld(r)', CodeHeld(r)',
         pc'[r] = "commit" => ~Awaited(r, draw'[r].code)
  PROVE  IInv'
<1>1. CodesUnique'
  BY SameCounts DEF IInv
<1>2. \A q \in Requests \ {r} : StepFits(q)' /\ BenefitHeld(q)' /\ CodeHeld(q)'
  BY OthersInv
<1> QED
  BY <1>1, <1>2 DEF IInv

\* The end of a session takes nothing from anybody.
LEMMA EndOfSession ==
  ASSUME TypeOK, NEW r \in Requests, End(r)
  PROVE  /\ Quiet(r)
         /\ pc'[r] = "idle"
         /\ Ledger!DbTypeOK' /\ byBot' \in SUBSET Vouchers => TypeOK'
         /\ StepFits(r)' /\ BenefitHeld(r)' /\ CodeHeld(r)'
<1> USE PromoBoundsAssumption DEF End, Goto, TypeOK
<1>1. Quiet(r)
  BY DEF Quiet, ReleasedRows
<1>2. pc'[r] = "idle" /\ draw'[r] = NoDraw
  BY DEF NoDraw
<1>3. ASSUME Ledger!DbTypeOK', byBot' \in SUBSET Vouchers
      PROVE  TypeOK'
  BY <1>3 DEF outsideVars, Steps, NoJob, Job, NoCode, NoDraw, ReleasedRows
<1>4. StepFits(r)' /\ BenefitHeld(r)' /\ CodeHeld(r)'
  BY <1>2 DEF StepFits, BenefitHeld, CodeHeld, Issuing, NoDraw
<1> QED
  BY <1>1, <1>2, <1>3, <1>4

\* A refusal, an exception or a lost connection keeps the invariant.
LEMMA RollbackInv ==
  ASSUME IInv, NEW r \in Requests, Rollback(r)
  PROVE  IInv'
<1>1. SameCodes /\ UNCHANGED <<benefit, voucher, accepted, byBot>>
  BY SameTables DEF Rollback, dbVars
<1>2. Ledger!DbTypeOK' /\ byBot' \in SUBSET Vouchers
  BY <1>1 DEF IInv, TypeOK, Ledger!DbTypeOK
<1>3. TypeOK /\ End(r)
  BY DEF IInv, Rollback
<1> QED
  BY <1>1, <1>2, <1>3, EndOfSession, OwnStep
-----------------------------------------------------------------------------
(* The actions of a session.                                               *)

\* A request for a code takes the plan of the token with it.
LEMMA StartIssueInv ==
  ASSUME IInv, NEW r \in Requests, StartIssue(r)
  PROVE  IInv'
<1> USE DEF StartIssue, Goto, IInv
<1>1. PICK e \in Employees, b \in Benefits :
        token[e] # None /\ job' = [job EXCEPT ![r] = IssueJob(e, b)]
  OBVIOUS
<1>2. Quiet(r) /\ SameCodes /\ UNCHANGED benefit
  BY <1>1, SameTables DEF Quiet, TypeOK, dbVars
<1>3. token[e] \in Plans
  BY <1>1 DEF TypeOK
<1>4. TypeOK'
  BY <1>1, <1>3 DEF TypeOK, Ledger!DbTypeOK, dbVars, outsideVars, IssueJob, Job, Steps
<1>5. StepFits(r)' /\ BenefitHeld(r)' /\ CodeHeld(r)' /\ pc'[r] # "commit"
  BY <1>1, <1>3 DEF TypeOK, StepFits, BenefitHeld, CodeHeld, Issuing, IssueJob, Job
<1> QED
  BY <1>2, <1>4, <1>5, OwnStep

\* A request to redeem names a code that exists.
LEMMA StartRedeemInv ==
  ASSUME IInv, NEW r \in Requests, StartRedeem(r)
  PROVE  IInv'
<1> USE DEF StartRedeem, Goto, IInv
<1>1. PICK v \in Ledger!Issued :
        \/ \E s \in Staff : job' = [job EXCEPT ![r] = ConfirmJob(v, s)]
        \/ job' = [job EXCEPT ![r] = BotJob(v)]
  OBVIOUS
<1>2. Quiet(r) /\ SameCodes /\ UNCHANGED benefit
  BY <1>1, SameTables DEF Quiet, TypeOK, dbVars
<1>3. v \in Vouchers
  BY DEF Ledger!Issued
<1>4. TypeOK'
  <2> DEFINE Jobs ==
        [kind : {"none", "issue", "confirm", "bot"}, employee : Employees \cup {None},
         plan : Plans \cup {None}, benefit : Benefits \cup {None},
         timely : BOOLEAN, voucher : Vouchers \cup {None}, staff : Staff \cup {None}]
  <2>1. BotJob(v) \in Jobs /\ \A s \in Staff : ConfirmJob(v, s) \in Jobs
    BY <1>3 DEF ConfirmJob, BotJob, Job
  <2>2. job \in [Requests -> Jobs]
    BY DEF TypeOK
  <2> HIDE DEF Jobs
  <2>3. job' \in [Requests -> Jobs]
    BY <1>1, <2>1, <2>2
  <2>4. UNCHANGED <<benefit, voucher, accepted, employee, token, backed, valid, lapsed,
                    seen, draw, benefitLock, byBot>>
    BY DEF dbVars, outsideVars
  <2>5. pc' = [pc EXCEPT ![r] = "readCode"]
    OBVIOUS
  <2> QED
    BY <2>3, <2>4, <2>5 DEF TypeOK, Ledger!DbTypeOK, Steps, Jobs
<1>5. StepFits(r)' /\ BenefitHeld(r)' /\ CodeHeld(r)' /\ pc'[r] # "commit"
  BY <1>1, <1>2, SameRoom
     DEF TypeOK, StepFits, BenefitHeld, CodeHeld, Issuing, ConfirmJob, BotJob, Job
<1> QED
  BY <1>2, <1>4, <1>5, OwnStep

\* The checks pass under the lock they were made for.
LEMMA LockBenefitInv ==
  ASSUME IInv, NEW r \in Requests, LockBenefit(r)
  PROVE  IInv'
<1> USE PromoBoundsAssumption DEF LockBenefit, Goto, IInv
<1>1. Quiet(r) /\ SameCodes /\ UNCHANGED benefit
  BY SameTables DEF Quiet, TypeOK, dbVars, BenefitFree
<1>2. job[r].benefit \in Benefits
  BY DEF StepFits
<1>3. TypeOK'
  BY <1>2 DEF TypeOK, Ledger!DbTypeOK, dbVars, outsideVars, Steps
<1>4. StepFits(r)' /\ CodeHeld(r)' /\ pc'[r] = "draw"
  BY DEF TypeOK, StepFits, CodeHeld, Issuing
<1>5. BenefitHeld(r)'
  BY <1>1, <1>2, SameRoom DEF TypeOK, BenefitHeld, Eligible, WithinLimits
<1> QED
  BY <1>1, <1>3, <1>4, <1>5, OwnStep

\* A draw is one of the attempts.
LEMMA DrawCodeInv ==
  ASSUME IInv, NEW r \in Requests, DrawCode(r)
  PROVE  IInv'
<1> USE PromoBoundsAssumption DEF DrawCode, Goto, IInv
<1>1. Quiet(r) /\ SameCodes /\ UNCHANGED benefit
  BY SameTables DEF Quiet, TypeOK, dbVars
<1>2. draw[r].tries \in 0..MaxAttempts /\ draw[r].tries < MaxAttempts
  BY DEF TypeOK, StepFits
<1>3. TypeOK'
  BY <1>2 DEF TypeOK, Ledger!DbTypeOK, dbVars, outsideVars, Steps
<1>4. StepFits(r)' /\ CodeHeld(r)' /\ pc'[r] = "insert"
  BY DEF TypeOK, StepFits, CodeHeld, Issuing
<1>5. BenefitHeld(r)'
  BY <1>1, SameRoom DEF TypeOK, BenefitHeld, Issuing
<1> QED
  BY <1>1, <1>3, <1>4, <1>5, OwnStep

\* A collision keeps the benefit.
LEMMA CollideInv ==
  ASSUME IInv, NEW r \in Requests, Collide(r)
  PROVE  IInv'
<1> USE PromoBoundsAssumption DEF Collide, Goto, IInv
<1>1. Quiet(r) /\ SameCodes /\ UNCHANGED benefit
  BY SameTables DEF Quiet, TypeOK, dbVars
<1>2. TypeOK'
  BY DEF TypeOK, Ledger!DbTypeOK, dbVars, outsideVars, Steps
<1>3. StepFits(r)' /\ CodeHeld(r)' /\ pc'[r] = "draw"
  BY DEF TypeOK, StepFits, CodeHeld, Issuing
<1>4. BenefitHeld(r)'
  BY <1>1, SameRoom DEF TypeOK, BenefitHeld, Issuing
<1> QED
  BY <1>1, <1>2, <1>3, <1>4, OwnStep

\* The text is nobody's when it is inserted.
LEMMA InsertCodeInv ==
  ASSUME IInv, NEW r \in Requests, InsertCode(r)
  PROVE  IInv'
<1> USE DEF InsertCode, Goto, IInv
<1>1. Quiet(r) /\ SameCodes /\ UNCHANGED benefit
  BY SameTables DEF Quiet, TypeOK, dbVars
<1>2. TypeOK'
  BY DEF TypeOK, Ledger!DbTypeOK, dbVars, outsideVars, Steps
<1>3. StepFits(r)' /\ ~Awaited(r, draw'[r].code)
  BY DEF TypeOK, StepFits, Issuing
<1>4. CodeHeld(r)'
  BY <1>1, SameRoom DEF TypeOK, CodeHeld, Awaited
<1>5. BenefitHeld(r)'
  BY <1>1, SameRoom DEF TypeOK, BenefitHeld, Issuing
<1> QED
  BY <1>1, <1>2, <1>3, <1>4, <1>5, OwnStep

\* The first look at a code to redeem.
LEMMA ReadCodeInv ==
  ASSUME IInv, NEW r \in Requests, ReadCode(r)
  PROVE  IInv'
<1> USE DEF ReadCode, Goto, IInv
<1>1. Quiet(r) /\ SameCodes /\ UNCHANGED benefit
  BY SameTables DEF Quiet, TypeOK, dbVars
<1>2. job[r].voucher \in Ledger!Issued
  BY DEF StepFits
<1>3. voucher[job[r].voucher] \in Ledger!VoucherRows
  BY <1>2 DEF TypeOK, Ledger!DbTypeOK, Ledger!Issued, Ledger!Exists
<1>4. TypeOK'
  BY <1>3 DEF TypeOK, Ledger!DbTypeOK, dbVars, outsideVars, Steps, Ledger!VoucherRows
<1>5. StepFits(r)' /\ BenefitHeld(r)' /\ CodeHeld(r)' /\ pc'[r] = "redeem"
  BY <1>1, SameRoom DEF TypeOK, StepFits, BenefitHeld, CodeHeld, Issuing
<1> QED
  BY <1>1, <1>4, <1>5, OwnStep

\* What a commit adds to the tables: one code, to the counts of one benefit.
LEMMA OneMore ==
  ASSUME IInv, NEW r \in Requests, pc[r] = "commit", NEW v \in Vouchers \ Ledger!Issued,
         voucher' = [voucher EXCEPT ![v] =
           Ledger!NewVoucher(job[r].benefit, job[r].employee, draw[r].code)]
  PROVE  /\ Ledger!NewVoucher(job[r].benefit, job[r].employee, draw[r].code) \in Ledger!VoucherRows
         /\ Ledger!Issued' = Ledger!Issued \cup {v}
         /\ \A b :
              \/ Ledger!UsedOf(b)' = Ledger!UsedOf(b)
              \/ b = job[r].benefit /\ Ledger!UsedOf(b)' = Ledger!UsedOf(b) \cup {v}
         /\ \A b, e :
              \/ Ledger!UsedBy(b, e)' = Ledger!UsedBy(b, e)
              \/ /\ b = job[r].benefit /\ e = job[r].employee
                 /\ Ledger!UsedBy(b, e)' = Ledger!UsedBy(b, e) \cup {v}
<1> DEFINE new == Ledger!NewVoucher(job[r].benefit, job[r].employee, draw[r].code)
<1>1. new \in Ledger!VoucherRows
  BY DEF IInv, StepFits, Issuing, Ledger!NewVoucher, Ledger!VoucherRows
<1>2. new.benefit = job[r].benefit /\ new.owner = job[r].employee
  BY DEF Ledger!NewVoucher
<1>3. new # None
  BY <1>1, PromoRowAssumption
<1>4. voucher' = [voucher EXCEPT ![v] = new] /\ voucher'[v] = new
  BY DEF IInv, TypeOK, Ledger!DbTypeOK
<1>5. \A w \in Vouchers \ {v} : voucher'[w] = voucher[w]
  BY DEF IInv, TypeOK, Ledger!DbTypeOK
<1> HIDE DEF new
<1>6. Ledger!Issued' = Ledger!Issued \cup {v}
  BY <1>3, <1>4, <1>5 DEF Ledger!Issued, Ledger!Exists
<1>7. \A b : IF b = job[r].benefit
             THEN Ledger!UsedOf(b)' = Ledger!UsedOf(b) \cup {v}
             ELSE Ledger!UsedOf(b)' = Ledger!UsedOf(b)
  BY <1>2, <1>4, <1>5, <1>6 DEF Ledger!UsedOf, Ledger!Issued
<1>8. \A b, e : IF b = job[r].benefit /\ e = job[r].employee
                THEN Ledger!UsedBy(b, e)' = Ledger!UsedBy(b, e) \cup {v}
                ELSE Ledger!UsedBy(b, e)' = Ledger!UsedBy(b, e)
  BY <1>2, <1>4, <1>5, <1>7 DEF Ledger!UsedBy, Ledger!UsedOf, Ledger!Issued
<1> QED
  BY <1>1, <1>6, <1>7, <1>8 DEF new

\* A commit uses up the room of its own benefit only, and its own text.
LEMMA CommitIssueInv ==
  ASSUME IInv, NEW r \in Requests, CommitIssue(r)
  PROVE  IInv'
<1> USE DEF CommitIssue
<1>1. PICK v \in Vouchers \ Ledger!Issued :
        voucher' = [voucher EXCEPT ![v] =
          Ledger!NewVoucher(job[r].benefit, job[r].employee, draw[r].code)]
  OBVIOUS
<1>2. /\ Ledger!Issued' = Ledger!Issued \cup {v}
      /\ \A b, e : b # job[r].benefit => /\ Ledger!UsedOf(b)' = Ledger!UsedOf(b)
                                         /\ Ledger!UsedBy(b, e)' = Ledger!UsedBy(b, e)
  BY <1>1, OneMore
<1>3. voucher'[v].code = draw[r].code
  BY <1>1 DEF Ledger!NewVoucher, IInv, TypeOK, Ledger!DbTypeOK
<1>4. \A w \in Vouchers \ {v} : voucher'[w] = voucher[w]
  BY <1>1 DEF IInv, TypeOK, Ledger!DbTypeOK
<1>5. End(r) /\ TypeOK /\ UNCHANGED <<benefit, accepted, byBot>>
  BY DEF IInv
<1>6. Ledger!DbTypeOK' /\ byBot' \in SUBSET Vouchers
  BY <1>1, <1>5, OneMore DEF TypeOK, Ledger!DbTypeOK
<1>7. CodesUnique'
  <2>1. \A w \in Ledger!Issued : voucher[w].code # draw[r].code
    BY DEF IInv, CodeHeld, Taken
  <2> QED
    BY <1>2, <1>3, <1>4, <2>1 DEF IInv, CodesUnique, Ledger!Issued
<1>8. ASSUME NEW q \in Requests \ {r}
      PROVE  StepFits(q)' /\ BenefitHeld(q)' /\ CodeHeld(q)'
  <2> USE <1>5, EndOfSession DEF Quiet, IInv
  <2>1. StepFits(q)'
    BY <1>2 DEF StepFits, Issuing
  <2>2. BenefitHeld(q)'
    <3>1. SUFFICES ASSUME pc[q] \in Issuing
                   PROVE  BenefitHeld(q)'
      BY DEF BenefitHeld
    <3>2. job[q].benefit \in Benefits /\ benefitLock[job[q].benefit] = q
      BY <3>1 DEF StepFits, BenefitHeld
    <3>3. job[q].benefit # job[r].benefit
      BY <3>2 DEF BenefitHeld, Issuing
    <3>4. \A b, e : b # job[r].benefit =>
            /\ Ledger!RoomIn(b) => Ledger!RoomIn(b)'
            /\ Ledger!RoomFor(b, e) => Ledger!RoomFor(b, e)'
      BY <1>2, <1>5 DEF Ledger!RoomIn, Ledger!RoomFor
    <3> QED
      BY <3>1, <3>2, <3>3, <3>4, PromoNoneAssumption DEF BenefitHeld
  <2>3. CodeHeld(q)'
    <3>1. pc[q] = "commit" => draw[q].code # draw[r].code
      BY DEF CodeHeld, Awaited
    <3> QED
      BY <1>2, <1>3, <1>4, <3>1 DEF CodeHeld, Taken, Awaited, Ledger!Issued
  <2> QED
    BY <2>1, <2>2, <2>3
<1> QED
  BY <1>5, <1>6, <1>7, <1>8, EndOfSession DEF IInv

\* Redeeming a code changes its statuses only.
LEMMA RedeemKeeps ==
  ASSUME IInv, NEW r \in Requests, ConfirmCode(r) \/ BotRedeem(r)
  PROVE  /\ SameCodes /\ Ledger!DbTypeOK' /\ byBot' \in SUBSET Vouchers
         /\ End(r) /\ UNCHANGED benefit
<1> DEFINE v == job[r].voucher
<1>1. v \in Ledger!Issued /\ v \in Vouchers
  BY DEF IInv, StepFits, ConfirmCode, BotRedeem, Ledger!Issued
<1>2. voucher[v] \in Ledger!VoucherRows
  BY <1>1 DEF IInv, TypeOK, Ledger!DbTypeOK, Ledger!Issued, Ledger!Exists
<1>3. PICK row \in Ledger!VoucherRows :
        /\ voucher' = [voucher EXCEPT ![v] = row]
        /\ row.code = voucher[v].code /\ row.benefit = voucher[v].benefit
        /\ row.owner = voucher[v].owner
  <2>1. CASE ConfirmCode(r)
    <3>1. job[r].staff \in Staff
      BY <2>1 DEF IInv, StepFits, ConfirmCode
    <3>2. Redeemed(r) \in Ledger!VoucherRows
      BY <1>2, <3>1 DEF Redeemed, Ledger!VoucherRows
    <3>3. /\ Redeemed(r).code = voucher[v].code /\ Redeemed(r).benefit = voucher[v].benefit
          /\ Redeemed(r).owner = voucher[v].owner
      BY <1>2 DEF Redeemed, Ledger!VoucherRows
    <3> QED
      BY <2>1, <3>2, <3>3 DEF ConfirmCode
  <2>2. CASE BotRedeem(r)
    <3> DEFINE row == [voucher[v] EXCEPT !.promo = "REDEEMED"]
    <3>1. voucher' = [voucher EXCEPT ![v] = row]
      BY <2>2 DEF BotRedeem
    <3>2. row \in Ledger!VoucherRows
      BY <1>2 DEF Ledger!VoucherRows
    <3>3. /\ row.code = voucher[v].code /\ row.benefit = voucher[v].benefit
          /\ row.owner = voucher[v].owner
      BY <1>2 DEF Ledger!VoucherRows
    <3> QED
      BY <3>1, <3>2, <3>3
  <2> QED
    BY <2>1, <2>2
<1>4. accepted' = [accepted EXCEPT ![v] = @ + 1] /\ End(r) /\ TypeOK /\ UNCHANGED benefit
  BY DEF ConfirmCode, BotRedeem, IInv
<1>5. Ledger!DbTypeOK'
  BY <1>1, <1>3, <1>4 DEF TypeOK, Ledger!DbTypeOK
<1>6. SameCodes
  BY <1>1, <1>3, PromoRowAssumption
     DEF IInv, TypeOK, Ledger!DbTypeOK, SameCodes, Ledger!Issued, Ledger!Exists
<1>7. byBot' \in SUBSET Vouchers
  BY <1>1 DEF ConfirmCode, BotRedeem, IInv, TypeOK
<1> QED
  BY <1>4, <1>5, <1>6, <1>7

\* A redemption keeps the invariant.
LEMMA RedeemInv ==
  ASSUME IInv, NEW r \in Requests, ConfirmCode(r) \/ BotRedeem(r)
  PROVE  IInv'
<1>1. TypeOK
  BY DEF IInv
<1> QED
  BY <1>1, RedeemKeeps, EndOfSession, OwnStep
-----------------------------------------------------------------------------
(* The actions of the surroundings.                                        *)

\* An edit waits for the benefit row, so no session holds the benefit.
LEMMA EditInv ==
  ASSUME IInv, EditBenefit
  PROVE  IInv'
<1>1. PICK b \in Benefits, row \in Ledger!BenefitRows :
        benefitLock[b] = None /\ Ledger!Edit(b, row)
  BY DEF EditBenefit
<1>2. benefit' = [benefit EXCEPT ![b] = row] /\ UNCHANGED <<voucher, accepted, byBot>>
  BY <1>1 DEF Ledger!Edit, EditBenefit
<1>3. UNCHANGED <<employee, token, backed, valid, lapsed, pc, job, seen, draw, benefitLock>>
  BY DEF EditBenefit, outsideVars, sessionVars
<1>4. SameCodes
  BY <1>2, SameTables
<1>5. TypeOK' /\ CodesUnique'
  BY <1>2, <1>3, <1>4, SameCounts DEF IInv, TypeOK, Ledger!DbTypeOK
<1>6. ASSUME NEW q \in Requests
      PROVE  StepFits(q)' /\ BenefitHeld(q)' /\ CodeHeld(q)'
  <2>1. StepFits(q)' /\ CodeHeld(q)'
    BY <1>3, <1>4, SameCounts DEF IInv, StepFits, CodeHeld, Issuing, Awaited
  <2>2. BenefitHeld(q)'
    <3>1. SUFFICES ASSUME pc[q] \in Issuing
                   PROVE  BenefitHeld(q)'
      BY <1>3 DEF BenefitHeld
    <3>2. job[q].benefit \in Benefits /\ benefitLock[job[q].benefit] = q
      BY <3>1 DEF IInv, StepFits, BenefitHeld
    <3>3. job[q].benefit # b
      BY <1>1, <3>2, PromoNoneAssumption
    <3>4. \A x \in Benefits \ {b} : benefit'[x] = benefit[x]
      BY <1>2 DEF IInv, TypeOK, Ledger!DbTypeOK
    <3>5. \A x \in Benefits \ {b} : \A e :
            /\ Ledger!RoomIn(x) => Ledger!RoomIn(x)'
            /\ Ledger!RoomFor(x, e) => Ledger!RoomFor(x, e)'
      BY <1>4, <3>4, SameCounts DEF Ledger!RoomIn, Ledger!RoomFor
    <3> QED
      BY <1>3, <3>1, <3>2, <3>3, <3>4, <3>5 DEF IInv, BenefitHeld
  <2> QED
    BY <2>1, <2>2
<1> QED
  BY <1>5, <1>6 DEF IInv

\* Whatever else happens outside, and nothing at all, leaves tables and
\* sessions alone.
LEMMA OutsideInv ==
  ASSUME IInv, Window \/ LapseCode \/ Administer \/ Login \/ UNCHANGED vars
  PROVE  IInv' /\ UNCHANGED dbVars
<1>1. UNCHANGED <<benefit, voucher, accepted, byBot, pc, job, seen, draw, benefitLock>>
  BY DEF Window, LapseCode, Administer, Login, vars, dbVars, sessionVars
<1>2. /\ employee' \in [Employees -> [plan : Plans \cup {None}, active : BOOLEAN]]
      /\ token' \in [Employees -> Plans \cup {None}]
      /\ backed' \in SUBSET Benefits /\ valid' \in SUBSET Benefits
      /\ lapsed' \in SUBSET Vouchers
  <2> USE DEF IInv, TypeOK
  <2>1. CASE Window
    BY <2>1 DEF Window
  <2>2. CASE LapseCode
    BY <2>2 DEF LapseCode, Ledger!Issued
  <2>3. CASE Administer
    BY <2>3 DEF Administer
  <2>4. CASE Login
    BY <2>4 DEF Login
  <2>5. CASE UNCHANGED vars
    BY <2>5 DEF vars
  <2> QED
    BY <2>1, <2>2, <2>3, <2>4, <2>5
<1>3. TypeOK'
  BY <1>1, <1>2 DEF IInv, TypeOK, Ledger!DbTypeOK
<1>4. SameCodes /\ UNCHANGED benefit
  BY <1>1, SameTables
<1>5. \A q \in Requests : StepFits(q)' /\ BenefitHeld(q)' /\ CodeHeld(q)'
  BY <1>1, <1>4, SameRoom DEF IInv, StepFits, BenefitHeld, CodeHeld, Issuing, Awaited
<1> QED
  BY <1>1, <1>3, <1>4, <1>5, SameCounts DEF IInv, dbVars

\* The tables change by an edit, by a new code, or by a redeemed one.
LEMMA TableSteps ==
  ASSUME IInv, [Next]_vars
  PROVE  \/ UNCHANGED dbVars
         \/ EditBenefit
         \/ \E r \in Requests : CommitIssue(r) \/ ConfirmCode(r) \/ BotRedeem(r)
<1>1. ASSUME NEW r \in Requests,
             StartIssue(r) \/ StartRedeem(r) \/ Rollback(r) \/ LockBenefit(r) \/ DrawCode(r)
               \/ Collide(r) \/ InsertCode(r) \/ ReadCode(r)
      PROVE  UNCHANGED dbVars
  BY <1>1 DEF StartIssue, StartRedeem, Rollback, LockBenefit, DrawCode, Collide, InsertCode,
              ReadCode
<1>2. CASE \E r \in Requests :
             StartIssue(r) \/ StartRedeem(r) \/ Advance(r) \/ Disconnect(r)
  BY <1>1, <1>2 DEF Advance, Disconnect, RefuseBenefit, RefuseLimit, GiveUp, RefuseCode
<1> QED
  BY <1>2, OutsideInv DEF Next

\* Every step keeps the invariant.
LEMMA NextInv ==
  ASSUME IInv, [Next]_vars
  PROVE  IInv'
<1>1. ASSUME NEW r \in Requests, Advance(r) \/ Disconnect(r)
      PROVE  IInv'
  BY <1>1, RollbackInv, LockBenefitInv, DrawCodeInv, CollideInv, InsertCodeInv, CommitIssueInv,
     ReadCodeInv, RedeemInv
     DEF Advance, Disconnect, RefuseBenefit, RefuseLimit, GiveUp, RefuseCode
<1> QED
  BY <1>1, StartIssueInv, StartRedeemInv, EditInv, OutsideInv DEF Next

\* The inductive invariant: what an issuing session knows of the benefit it
\* holds, and of the text it has inserted, stays true until it commits
\* (redemptions/service.py:79-151, promo_codes/service.py:34-75).
THEOREM Invariance == Spec => []IInv
  BY InitInv, NextInv, PTL DEF Spec

\* No two codes are the same text (promo_codes/service.py:45-66).
THEOREM UniqueTexts == Spec => []CodesUnique
<1>1. IInv => CodesUnique
  BY DEF IInv
<1> QED
  BY <1>1, Invariance, PTL

\* Every step but the commit of a code leaves the codes as they are, their
\* statuses apart.
LEMMA CodeSteps ==
  ASSUME IInv, [Next]_vars
  PROVE  SameCodes \/ \E r \in Requests : CommitIssue(r)
<1>1. ASSUME UNCHANGED dbVars \/ EditBenefit
      PROVE  SameCodes
  BY <1>1, SameTables DEF dbVars, EditBenefit, Ledger!Edit
<1>2. ASSUME NEW r \in Requests, ConfirmCode(r) \/ BotRedeem(r)
      PROVE  SameCodes
  BY <1>2, RedeemKeeps
<1> QED
  BY <1>1, <1>2, TableSteps

\* A code is added only while both limits have room for it
\* (redemptions/service.py:79-81).
THEOREM LimitsHold == Spec => LimitsKept
<1> DEFINE Within == \A b \in Benefits, e \in Employees :
       /\ Ledger!UsedOf(b)' # Ledger!UsedOf(b) /\ benefit[b].limit # None
            => Cardinality(Ledger!UsedOf(b)') <= benefit[b].limit
       /\ Ledger!UsedBy(b, e)' # Ledger!UsedBy(b, e)
            => Cardinality(Ledger!UsedBy(b, e)') <= benefit[b].each
<1>1. ASSUME IInv, [Next]_vars
      PROVE  Within
  <2>1. CASE SameCodes
    BY <2>1, SameCounts
  <2>2. ASSUME NEW r \in Requests, CommitIssue(r)
        PROVE  Within
    <3>1. pc[r] = "commit"
      BY <2>2 DEF CommitIssue
    <3>2. PICK v \in Vouchers \ Ledger!Issued :
            voucher' = [voucher EXCEPT ![v] =
              Ledger!NewVoucher(job[r].benefit, job[r].employee, draw[r].code)]
      BY <2>2 DEF CommitIssue
    <3>3. Ledger!RoomIn(job[r].benefit) /\ Ledger!RoomFor(job[r].benefit, job[r].employee)
      BY <1>1, <3>1 DEF IInv, BenefitHeld, Issuing
    <3>4. ASSUME NEW S \in SUBSET Vouchers, NEW n \in Nat, Ledger!Cardinality(S) < n
          PROVE  Cardinality(S \cup {v}) <= n
      BY <3>4, SameCount, Countable, FS_AddElement
    <3>5. TAKE b \in Benefits, e \in Employees
    <3>6. /\ benefit[b].limit \in Nat \cup {None} /\ benefit[b].each \in Nat
          /\ Ledger!UsedOf(b) \in SUBSET Vouchers /\ Ledger!UsedBy(b, e) \in SUBSET Vouchers
      BY <1>1, PromoBoundsAssumption
         DEF IInv, TypeOK, Ledger!DbTypeOK, Ledger!BenefitRows, Ledger!Limits, Ledger!UsedOf,
             Ledger!UsedBy, Ledger!Issued
    <3>7. ASSUME Ledger!UsedOf(b)' # Ledger!UsedOf(b), benefit[b].limit # None
          PROVE  Cardinality(Ledger!UsedOf(b)') <= benefit[b].limit
      <4>1. b = job[r].benefit /\ Ledger!UsedOf(b)' = Ledger!UsedOf(b) \cup {v}
        BY <1>1, <3>1, <3>2, <3>7, OneMore
      <4>2. Ledger!Cardinality(Ledger!UsedOf(b)) < benefit[b].limit
        BY <3>3, <3>7, <4>1 DEF Ledger!RoomIn
      <4> QED
        BY <3>4, <3>6, <3>7, <4>1, <4>2
    <3>8. ASSUME Ledger!UsedBy(b, e)' # Ledger!UsedBy(b, e)
          PROVE  Cardinality(Ledger!UsedBy(b, e)') <= benefit[b].each
      <4>1. /\ b = job[r].benefit /\ e = job[r].employee
            /\ Ledger!UsedBy(b, e)' = Ledger!UsedBy(b, e) \cup {v}
        BY <1>1, <3>1, <3>2, <3>8, OneMore
      <4>2. Ledger!Cardinality(Ledger!UsedBy(b, e)) < benefit[b].each
        BY <3>3, <4>1 DEF Ledger!RoomFor
      <4> QED
        BY <3>4, <3>6, <4>1, <4>2
    <3> QED
      BY <3>7, <3>8
  <2> QED
    BY <1>1, <2>1, <2>2, CodeSteps
<1> QED
  BY <1>1, Invariance, PTL DEF Spec, LimitsKept

\* No code appears after the merchant has closed the benefit
\* (redemptions/service.py:95-131).
THEOREM ClosingHolds == Spec => ClosedIssuesNothing
<1> DEFINE Open == \A v \in Vouchers : ~Ledger!Exists(v) /\ Ledger!Exists(v)'
                                      => benefit[voucher'[v].benefit].open
<1>1. ASSUME IInv, [Next]_vars
      PROVE  Open
  <2>1. CASE SameCodes
    BY <2>1 DEF SameCodes, Ledger!Exists
  <2>2. ASSUME NEW r \in Requests, CommitIssue(r)
        PROVE  Open
    <3>1. PICK v \in Vouchers \ Ledger!Issued :
            voucher' = [voucher EXCEPT ![v] =
              Ledger!NewVoucher(job[r].benefit, job[r].employee, draw[r].code)]
      BY <2>2 DEF CommitIssue
    <3>2. benefit[job[r].benefit].open
      BY <1>1, <2>2 DEF CommitIssue, IInv, BenefitHeld, Issuing
    <3>3. voucher'[v].benefit = job[r].benefit
          /\ \A w \in Vouchers \ {v} : voucher'[w] = voucher[w]
      BY <1>1, <3>1 DEF Ledger!NewVoucher, IInv, TypeOK, Ledger!DbTypeOK
    <3> QED
      BY <3>2, <3>3 DEF Ledger!Exists
  <2> QED
    BY <1>1, <2>1, <2>2, CodeSteps
<1> QED
  BY <1>1, Invariance, PTL DEF Spec, ClosedIssuesNothing
-----------------------------------------------------------------------------
(* Who redeems.  A code is only read, and redeemed, with its redemption    *)
(* open, however many redemptions are in flight.                           *)

\* The invariant that Next preserves together with IInv.
StaffInv ==
  /\ \A r \in Requests : pc[r] = "redeem" => seen[r].redemption = "ISSUED"
  /\ ConfirmedByStaff

\* The codes as they are, and no session at its commit of a redemption that
\* was not there before.
LEMMA StaffKept ==
  ASSUME IInv, StaffInv, UNCHANGED <<voucher, byBot>>,
         \A q \in Requests : pc'[q] = "redeem" => pc[q] = "redeem" /\ seen'[q] = seen[q]
  PROVE  StaffInv'
  BY DEF StaffInv, ConfirmedByStaff, Ledger!Issued, Ledger!Exists

\* After a session ended, the others are where they were.
LEMMA StaffEnd ==
  ASSUME IInv, StaffInv, NEW r \in Requests, End(r)
  PROVE  \A q \in Requests : pc'[q] = "redeem" => pc[q] = "redeem" /\ seen'[q] = seen[q]
  BY DEF End, Goto, StaffInv, IInv, TypeOK

\* A new code is neither confirmed nor redeemed.
LEMMA StaffIssue ==
  ASSUME IInv, StaffInv, NEW r \in Requests, CommitIssue(r)
  PROVE  StaffInv'
<1>1. PICK v \in Vouchers \ Ledger!Issued :
        voucher' = [voucher EXCEPT ![v] =
          Ledger!NewVoucher(job[r].benefit, job[r].employee, draw[r].code)]
  BY DEF CommitIssue
<1>2. /\ \A w \in Vouchers \ {v} : voucher'[w] = voucher[w]
      /\ voucher'[v].promo = "ISSUED" /\ voucher'[v].redemption = "ISSUED"
      /\ voucher'[v].by = None
  BY <1>1 DEF IInv, TypeOK, Ledger!DbTypeOK, Ledger!NewVoucher
<1>3. ConfirmedByStaff'
  BY <1>2 DEF StaffInv, ConfirmedByStaff, Ledger!Issued, Ledger!Exists, CommitIssue
<1> QED
  BY <1>3, StaffEnd DEF CommitIssue, StaffInv

\* The staff's redemption sets both statuses and itself.
LEMMA StaffConfirm ==
  ASSUME IInv, StaffInv, NEW r \in Requests, ConfirmCode(r)
  PROVE  StaffInv'
<1>0. PICK v \in Ledger!Issued : v = job[r].voucher
  BY DEF IInv, StepFits, ConfirmCode
<1>1. voucher[v] \in Ledger!VoucherRows /\ job[r].staff \in Staff
      /\ seen[r].redemption = "ISSUED"
  BY <1>0 DEF IInv, StepFits, TypeOK, Ledger!DbTypeOK, Ledger!Issued, Ledger!Exists, StaffInv,
              ConfirmCode
<1>2. /\ Redeemed(r).promo = "REDEEMED" /\ Redeemed(r).redemption = "REDEEMED"
      /\ Redeemed(r).by # None
  BY <1>0, <1>1, PromoNoneAssumption DEF Redeemed, Ledger!VoucherRows
<1>3. voucher' = [voucher EXCEPT ![v] = Redeemed(r)]
  BY <1>0 DEF ConfirmCode
<1>4. \A w \in Vouchers \ {v} : voucher'[w] = voucher[w]
  BY <1>3 DEF IInv, TypeOK, Ledger!DbTypeOK
<1>5. voucher'[v] = Redeemed(r)
  BY <1>3 DEF IInv, TypeOK, Ledger!DbTypeOK, Ledger!Issued
<1>6. ConfirmedByStaff'
  BY <1>2, <1>4, <1>5 DEF StaffInv, ConfirmedByStaff, Ledger!Issued, Ledger!Exists, ConfirmCode
<1> QED
  BY <1>6, StaffEnd DEF ConfirmCode, StaffInv

\* The bot's write leaves who confirmed a code, and its redemption, alone.
LEMMA StaffBot ==
  ASSUME IInv, StaffInv, NEW r \in Requests, BotRedeem(r)
  PROVE  StaffInv'
<1>0. PICK v \in Ledger!Issued : v = job[r].voucher
  BY DEF IInv, StepFits, BotRedeem
<1>1. voucher[v] \in Ledger!VoucherRows /\ v \in Vouchers
  BY <1>0 DEF IInv, TypeOK, Ledger!DbTypeOK, Ledger!Issued, Ledger!Exists
<1>2. /\ \A w \in Vouchers \ {v} : voucher'[w] = voucher[w]
      /\ voucher'[v].promo = "REDEEMED" /\ voucher'[v].by = voucher[v].by
      /\ voucher'[v].redemption = voucher[v].redemption
      /\ byBot' = byBot \cup {v}
  BY <1>0, <1>1 DEF BotRedeem, IInv, TypeOK, Ledger!DbTypeOK, Ledger!VoucherRows
<1>3. ConfirmedByStaff'
  BY <1>0, <1>2 DEF StaffInv, ConfirmedByStaff, Ledger!Issued, Ledger!Exists
<1> QED
  BY <1>3, StaffEnd DEF BotRedeem, StaffInv

\* Every step keeps it.
LEMMA NextStaff ==
  ASSUME IInv, StaffInv, [Next]_vars
  PROVE  StaffInv'
<1>1. ASSUME NEW r \in Requests, Rollback(r)
      PROVE  StaffInv'
  BY <1>1, StaffEnd, StaffKept DEF Rollback, dbVars
<1>2. ASSUME NEW r \in Requests,
             LockBenefit(r) \/ DrawCode(r) \/ Collide(r) \/ InsertCode(r)
      PROVE  StaffInv'
  <2>1. UNCHANGED <<voucher, byBot, seen>>
    BY <1>2 DEF LockBenefit, DrawCode, Collide, InsertCode, dbVars
  <2>2. \A q \in Requests : pc'[q] = "redeem" => pc[q] = "redeem"
    BY <1>2 DEF LockBenefit, DrawCode, Collide, InsertCode, Goto, IInv, TypeOK
  <2> QED
    BY <2>1, <2>2, StaffKept
<1>3. ASSUME NEW r \in Requests, StartIssue(r) \/ StartRedeem(r)
      PROVE  StaffInv'
  <2>1. UNCHANGED <<voucher, byBot, seen>>
        /\ \A q \in Requests : pc'[q] = "redeem" => pc[q] = "redeem"
    BY <1>3 DEF StartIssue, StartRedeem, Goto, IInv, TypeOK, dbVars
  <2> QED
    BY <2>1, StaffKept
<1>4. ASSUME NEW r \in Requests, ReadCode(r)
      PROVE  StaffInv'
  <2>1. job[r].voucher \in Ledger!Issued
    BY <1>4 DEF ReadCode, IInv, StepFits
  <2>2. seen'[r].redemption = "ISSUED"
    <3>1. voucher[job[r].voucher].promo = "ISSUED"
      BY <1>4 DEF ReadCode, Redeemable
    <3>2. voucher[job[r].voucher].redemption # "REDEEMED"
      BY <2>1, <3>1 DEF StaffInv, ConfirmedByStaff
    <3>3. voucher[job[r].voucher].redemption = "ISSUED"
      BY <2>1, <3>2
         DEF IInv, TypeOK, Ledger!DbTypeOK, Ledger!Issued, Ledger!Exists, Ledger!VoucherRows
    <3> QED
      BY <1>4, <3>3 DEF ReadCode, IInv, TypeOK
  <2>3. \A q \in Requests \ {r} : pc'[q] = pc[q] /\ seen'[q] = seen[q]
    BY <1>4 DEF ReadCode, Goto, IInv, TypeOK
  <2>4. UNCHANGED <<voucher, byBot>>
    BY <1>4 DEF ReadCode, dbVars
  <2> QED
    BY <2>2, <2>3, <2>4 DEF StaffInv, ConfirmedByStaff, Ledger!Issued, Ledger!Exists
<1>6. CASE EditBenefit \/ Window \/ LapseCode \/ Administer \/ Login \/ UNCHANGED vars
  <2>1. UNCHANGED <<voucher, byBot, pc, seen>>
    BY <1>6 DEF EditBenefit, Ledger!Edit, Window, LapseCode, Administer, Login, vars, dbVars,
                sessionVars
  <2> QED
    BY <2>1, StaffKept
<1>7. ASSUME NEW r \in Requests, Advance(r) \/ Disconnect(r)
      PROVE  StaffInv'
  BY <1>1, <1>2, <1>4, <1>7, StaffIssue, StaffConfirm, StaffBot
     DEF Advance, Disconnect, RefuseBenefit, RefuseLimit, GiveUp, RefuseCode
<1> QED
  BY <1>3, <1>6, <1>7 DEF Next

\* StaffInv holds all the time.
LEMMA StaffInvariance == Spec => []StaffInv
<1>1. Init => StaffInv
  BY DEF Init, Ledger!Init, StaffInv, ConfirmedByStaff, Ledger!Issued, Ledger!Exists
<1> QED
  BY <1>1, NextStaff, Invariance, PTL DEF Spec

\* Whoever redeems a code at the same time, a redemption is closed exactly when
\* somebody confirmed it, and a redeemed code nobody confirmed was the bot's
\* (promo_codes/routes.py:111-117, bot/routes.py:93-114).
THEOREM ConfirmedHold == Spec => []ConfirmedByStaff
<1>1. StaffInv => ConfirmedByStaff
  BY DEF StaffInv
<1> QED
  BY <1>1, StaffInvariance, PTL
-----------------------------------------------------------------------------
(* The concurrent requests implement the one-at-a-time operations of       *)
(* VoucherLedger: the commit of a request is the operation, every other    *)
(* statement a stutter.  For the issuing side this is what IInv says; the  *)
(* redeeming side looks at a copy it read before its lock, which StaffInv  *)
(* bounds, and is late where another redeemed meanwhile.                   *)

\* A committed code is Issue.
LEMMA IssueStep ==
  ASSUME IInv, NEW r \in Requests, CommitIssue(r)
  PROVE  Ledger!Next
<1> DEFINE e == job[r].employee
           p == job[r].plan
           b == job[r].benefit
           c == draw[r].code
<1>1. pc[r] = "commit"
  BY DEF CommitIssue
<1>2. e \in Employees /\ p \in Plans /\ b \in Benefits /\ c \in Codes
  BY <1>1 DEF IInv, StepFits, Issuing
<1>3. benefit[b].open /\ p \in benefit[b].offers /\ Ledger!RoomIn(b) /\ Ledger!RoomFor(b, e)
  BY <1>1 DEF IInv, BenefitHeld, Issuing
<1>4. \A w \in Ledger!Issued : voucher[w].code # c
  BY <1>1 DEF IInv, CodeHeld, Taken
<1>5. PICK v \in Vouchers \ Ledger!Issued :
        voucher' = [voucher EXCEPT ![v] = Ledger!NewVoucher(b, e, c)]
  BY DEF CommitIssue
<1>6. ~Ledger!Exists(v) /\ UNCHANGED <<benefit, accepted>>
  BY <1>5 DEF Ledger!Issued, CommitIssue
<1>7. Ledger!Issue(e, p, b, v, c)
  BY <1>3, <1>4, <1>5, <1>6 DEF Ledger!Issue
<1> QED
  BY <1>2, <1>5, <1>7 DEF Ledger!Next

\* The row after a redemption, and what its statuses were before.
LEMMA RedeemedRow ==
  ASSUME IInv, StaffInv, NEW r \in Requests, pc[r] = "redeem"
  PROVE  LET v == job[r].voucher IN
         /\ v \in Vouchers /\ Ledger!Exists(v) /\ voucher[v] \in Ledger!VoucherRows
         /\ voucher[v].promo \in {"ISSUED", "REDEEMED"}
         /\ Redeemed(r) = [voucher[v] EXCEPT !.promo = "REDEEMED", !.redemption = "REDEEMED",
                                             !.by = job[r].staff]
<1>1. job[r].voucher \in Vouchers /\ Ledger!Exists(job[r].voucher)
      /\ voucher[job[r].voucher] \in Ledger!VoucherRows
  BY DEF IInv, StepFits, TypeOK, Ledger!DbTypeOK, Ledger!Issued, Ledger!Exists
<1>2. seen[r].redemption = "ISSUED"
  BY DEF StaffInv
<1> QED
  BY <1>1, <1>2 DEF Redeemed, Ledger!VoucherRows

\* A redemption by the merchant's staff of an open code is Confirm; of one
\* redeemed meanwhile it is Overtaken.
LEMMA ConfirmStep ==
  ASSUME IInv, StaffInv, NEW r \in Requests, ConfirmCode(r)
  PROVE  Ledger!Next \/ Overtaken
<1> DEFINE v == job[r].voucher
           s == job[r].staff
<1>1. /\ pc[r] = "redeem" /\ s \in Staff
      /\ voucher' = [voucher EXCEPT ![v] = Redeemed(r)]
      /\ accepted' = [accepted EXCEPT ![v] = @ + 1] /\ UNCHANGED benefit
  BY DEF ConfirmCode, IInv, StepFits
<1>2. /\ v \in Vouchers /\ Ledger!Exists(v) /\ voucher[v] \in Ledger!VoucherRows
      /\ voucher[v].promo \in {"ISSUED", "REDEEMED"}
      /\ Redeemed(r) = [voucher[v] EXCEPT !.promo = "REDEEMED", !.redemption = "REDEEMED", !.by = s]
      /\ voucher \in [Vouchers -> Ledger!VoucherRows \cup {None}]
  BY <1>1, RedeemedRow DEF IInv, TypeOK, Ledger!DbTypeOK
<1> HIDE DEF v, s
<1>3. CASE voucher[v].promo = "ISSUED"
  <2>1. voucher' = [voucher EXCEPT ![v].promo = "REDEEMED",
                                   ![v].redemption = "REDEEMED", ![v].by = s]
    BY <1>1, <1>2
  <2>2. Ledger!Confirm(v, s)
    BY <1>1, <1>2, <1>3, <2>1 DEF Ledger!Confirm
  <2> QED
    BY <1>1, <1>2, <2>2 DEF Ledger!Next
<1>4. CASE voucher[v].promo = "REDEEMED"
  <2>1. voucher' = [voucher EXCEPT ![v].by = s, ![v].redemption = "REDEEMED"]
    <3>1. Redeemed(r) = [voucher[v] EXCEPT !.by = s, !.redemption = "REDEEMED"]
      BY <1>2, <1>4 DEF Ledger!VoucherRows
    <3> QED
      BY <1>1, <1>2, <3>1
  <2> QED
    BY <1>1, <1>4, <2>1 DEF Overtaken, v
<1> QED
  BY <1>2, <1>3, <1>4

\* A redemption by the bot of an open code is ConfirmByBot; of one redeemed
\* meanwhile it changes nothing and is Overtaken.
LEMMA BotStep ==
  ASSUME IInv, StaffInv, NEW r \in Requests, BotRedeem(r)
  PROVE  Ledger!Next \/ Overtaken
<1> DEFINE v == job[r].voucher
<1>1. /\ pc[r] = "redeem"
      /\ voucher' = [voucher EXCEPT ![v].promo = "REDEEMED"]
      /\ accepted' = [accepted EXCEPT ![v] = @ + 1] /\ UNCHANGED benefit
  BY DEF BotRedeem
<1>2. /\ v \in Vouchers /\ Ledger!Exists(v) /\ voucher[v] \in Ledger!VoucherRows
      /\ voucher[v].promo \in {"ISSUED", "REDEEMED"}
      /\ voucher \in [Vouchers -> Ledger!VoucherRows \cup {None}]
  BY <1>1, RedeemedRow DEF IInv, TypeOK, Ledger!DbTypeOK
<1> HIDE DEF v
<1>3. CASE voucher[v].promo = "ISSUED"
  <2>1. Ledger!ConfirmByBot(v)
    BY <1>1, <1>2, <1>3 DEF Ledger!ConfirmByBot
  <2> QED
    BY <1>2, <2>1 DEF Ledger!Next
<1>4. CASE voucher[v].promo = "REDEEMED"
  <2>1. [voucher[v] EXCEPT !.promo = "REDEEMED"] = voucher[v]
    BY <1>2, <1>4 DEF Ledger!VoucherRows
  <2>2. UNCHANGED voucher
    BY <1>1, <1>2, <2>1
  <2> QED
    BY <1>1, <1>4, <2>2 DEF Overtaken, v
<1> QED
  BY <1>2, <1>3, <1>4

\* Every step is an operation of the ledger, a late redemption, or changes
\* nothing of it.
LEMMA StepRefines ==
  ASSUME IInv, StaffInv, [Next]_vars
  PROVE  [Ledger!Next \/ Overtaken]_(Ledger!dbVars)
<1>1. EditBenefit => Ledger!Next
  BY DEF EditBenefit, Ledger!Next
<1>2. UNCHANGED dbVars => UNCHANGED Ledger!dbVars
  BY DEF dbVars, Ledger!dbVars
<1> QED
  BY <1>1, <1>2, TableSteps, IssueStep, ConfirmStep, BotStep

\* Any number of concurrent requests amount to the operations of
\* VoucherLedger one after the other, a code redeemed meanwhile being accepted
\* again apart (redemptions/service.py:79-151, promo_codes/service.py:34-166).
THEOREM Refinement == Spec => Serializable
<1>1. Init => Ledger!Init
  BY DEF Init
<1> QED
  BY <1>1, StepRefines, Invariance, StaffInvariance, PTL DEF Spec, Serializable
=============================================================================
