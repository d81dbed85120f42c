--------------------------- MODULE MCCompanySeats ---------------------------
(* Instances of CompanySeats for TLC. *)
EXTENDS CompanySeats, TLC

CONSTANTS p1, p2, u1, u2, u3, i1, i2, r1, r2

\* The requests are interchangeable, and so are plans, people and invitations
\* where no property of the run tells them apart in time.
RequestSymmetry == Permutations(Requests)
Interchangeable == Permutations(Requests) \cup Permutations(Users)
                     \cup Permutations(Plans) \cup Permutations(Invites)

\* What each run lets the environment call.
SeatKinds == {"change", "deactivate", "activate", "block"}
InviteKinds == {"register", "import", "invite", "revoke", "allocate"}
CompanyAdminKinds == {"change", "deactivate", "activate"}

\* Requests side by side share a row, an invitation that is presented exists,
\* and an allocation is lowered, to 0 or to 1.
NothingShared == {{"allocate", "revoke"}, {"allocate", "import"}, {"import", "revoke"}}

StartSharing(r) ==
  /\ Start(r)
  /\ job'[r].invite # None => invite[job'[r].invite] # "NONE"
  /\ job'[r].kind = "allocate" => job'[r].count \in {0, 1}
  /\ {job'[q].kind : q \in {q \in Requests : pc'[q] # "idle"}} \notin NothingShared

InviteNext ==
  \/ \E r \in Requests : StartSharing(r) \/ Advance(r) \/ DetectDeadlock(r) \/ Disconnect(r)
  \/ CreateInvite
  \/ Lapse

InviteSpec == Init /\ [][InviteNext]_vars

\* A company nobody has been deactivated in yet.
OpenedSpec ==
  Init /\ (\A u \in registered : active[u]) /\ [][Next]_vars
=============================================================================
