------------------------------- MODULE Gateway -------------------------------
(***************************************************************************)
(* The rate limiter and the event streams of one process over the one pool *)
(* of Redis connections (core/redis.py).  A call of the limiter gets       *)
(* through when Redis is up and a connection is free; every open stream    *)
(* keeps one.  So what RateLimiter calls redis is, here, what EventStream  *)
(* calls Reachable, and its Switch is whatever the streams do.             *)
(***************************************************************************)
EXTENDS RateLimiter

CONSTANTS Users, Streams, Writers, News, PoolSize, Troubles, None  \* EventStream

VARIABLES
  up, tickets, owner, mounted, client, server, leaked, inbox, sent, about,
  note, missed, since, accepted

Events == INSTANCE EventStream

eventVars == <<up, tickets, owner, mounted, client, server, leaked, inbox, sent,
               about, note, missed, since, accepted>>

GatewayInit ==
  /\ Init
  /\ Events!Init
  /\ redis = Events!Reachable

GatewayNext ==
  \/ Step /\ UNCHANGED eventVars
  \/ /\ Events!Next
     /\ redis' = Events!Reachable'
     /\ UNCHANGED <<storeVars, requestVars>>

GatewaySpec == GatewayInit /\ [][GatewayNext]_<<vars, eventVars>>
=============================================================================
