------------------------------ MODULE MCGateway ------------------------------
(* Instances of Gateway for TLC: a login, which meets the counter of the    *)
(* address and then the one of the endpoint.                                *)
EXTENDS Gateway

CONSTANTS address, login, r1, r2, u1, s1

OneEach == [k \in Keys |-> 1]
LoginRoutes == {<<address, login>>}
LimiterFailures == {"crash", "lostReply", "wipe"}

\* A page that is left before its stream is open has held no connection, so it
\* is left out.
MCNext == GatewayNext /\ \A s \in mounted \ mounted' : server[s] = "on"

FairSpec == GatewayInit /\ [][MCNext]_<<vars, eventVars>> /\ Fairness
=============================================================================
