--------------------------- MODULE MCRefreshTokens --------------------------
(* Instances of RefreshTokens for TLC. *)
EXTENDS RefreshTokens, TLC

CONSTANTS k1, k2, k3, t1, t2, r1, r2

TokenSymmetry == Permutations(Tokens) \cup Permutations(Requests) \cup Permutations(Tabs)

\* Nothing is lost, reloaded, old or out of order.
QuietKinds == {"logout", "api", "admin"}
=============================================================================
