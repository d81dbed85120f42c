----------------------------- MODULE EventStream -----------------------------
(***************************************************************************)
(* Server-sent events (events/routes.py, events/publisher.py) to the       *)
(* employee's page (EmployeeDashboard.tsx, subscribeToEvents in client.ts) *)
(* over Redis pub/sub, and the pool of connections that the streams share  *)
(* with every other caller of Redis (core/redis.py).                       *)
(*                                                                         *)
(* A stream is one mount of the page: it asks for a ticket, opens an       *)
(* EventSource with it, and the browser opens that again, with the same    *)
(* address, whenever the connection breaks.  News is a row some request    *)
(* committed for a user: a promo code issued or redeemed.                  *)
(***************************************************************************)
EXTENDS Integers, FiniteSets, Sequences, Functions

CONSTANTS
  Users, Streams,
  Writers,     \* requests that commit and publish
  News,        \* rows that may be committed
  PoolSize,    \* max_connections
  Troubles,    \* what may go wrong
  None

AllTroubles == {"outage", "crash", "break", "lapse"}

ASSUME PoolAssumption == PoolSize \in Nat \ {0}
ASSUME StreamsAssumption == IsFiniteSet(Streams)
ASSUME TroublesAssumption == Troubles \subseteq AllTroubles
ASSUME StreamNoneAssumption == None \notin Users \cup News

VARIABLES
  up,        \* Redis answers
  tickets,   \* streams whose ticket is in Redis
  owner,     \* the user a stream was mounted for, None before
  mounted,   \* streams whose page is shown
  client,    \* the browser's side of a stream
  server,    \* the generator's side of it
  leaked,    \* connections no generator will give back
  inbox,     \* messages Redis has sent a subscriber
  sent,      \* what the generator has yielded
  about,     \* committed news: the user it is about, None before
  note,      \* the news a writer has committed and will publish
  missed,    \* news whose publication failed, or was cut off (history)
  since,     \* news committed before a stream was subscribed (history)
  accepted   \* how often the ticket of a stream was accepted (history)

redisVars == <<up, tickets, leaked>>
streamVars == <<owner, mounted, client, server, inbox, sent, since, accepted>>
newsVars == <<about, note, missed>>
vars == <<up, tickets, owner, mounted, client, server, leaked, inbox, sent,
          about, note, missed, since, accepted>>

ClientSteps == {"none", "asking", "connecting", "open", "shut"}
ServerSteps == {"off", "subscribing", "on", "leaving"}

TypeOK ==
  /\ up \in BOOLEAN
  /\ tickets \subseteq Streams
  /\ owner \in [Streams -> Users \cup {None}]
  /\ mounted \subseteq Streams
  /\ client \in [Streams -> ClientSteps]
  /\ server \in [Streams -> ServerSteps]
  /\ leaked \in 0..Cardinality(Streams)
  /\ inbox \in [Streams -> Seq(News)]
  /\ \A s \in Streams : inbox[s] # <<>> => server[s] \in {"on", "leaving"}
  /\ sent \in [Streams -> SUBSET News]
  /\ about \in [News -> Users \cup {None}]
  /\ note \in [Writers -> News \cup {None}]
  /\ missed \subseteq News
  /\ since \in [Streams -> SUBSET News]
  /\ accepted \in [Streams -> Nat]

Init ==
  /\ up = TRUE
  /\ tickets = {}
  /\ owner = [s \in Streams |-> None]
  /\ mounted = {}
  /\ client = [s \in Streams |-> "none"]
  /\ server = [s \in Streams |-> "off"]
  /\ leaked = 0
  /\ inbox = [s \in Streams |-> <<>>]
  /\ sent = [s \in Streams |-> {}]
  /\ about = [n \in News |-> None]
  /\ note = [w \in Writers |-> None]
  /\ missed = {}
  /\ since = [s \in Streams |-> {}]
  /\ accepted = [s \in Streams |-> 0]
-----------------------------------------------------------------------------
(* Mistakes the properties must notice: what a definition below, named at  *)
(* the right, would be after a plausible slip in the code.                 *)

\* TicketsWithout: the ticket is read with GET and left to expire.
TicketKept(s) == tickets

\* Subscribers: one channel for everybody.
AnySubscriber(u) == {s \in Streams : server[s] = "on"}

\* Gone: a stream ends with its page's request only, never by its check of the
\* connection.
NeverGone(s) == FALSE
-----------------------------------------------------------------------------
(* The pool. *)

\* A subscription keeps its connection until aclose().
Holding == {s \in Streams : server[s] \in {"on", "leaving"}}
InUse == Cardinality(Holding) + leaked

\* A command takes a free connection for as long as it lasts; without one the
\* pool raises ConnectionError instead of waiting.
Reachable == up /\ InUse < PoolSize

Shut(s) == client' = [client EXCEPT ![s] = "shut"]
-----------------------------------------------------------------------------
(* The page. *)

Mount(s) ==
  /\ owner[s] = None
  /\ \E u \in Users : owner' = [owner EXCEPT ![s] = u]
  /\ mounted' = mounted \cup {s}
  /\ client' = [client EXCEPT ![s] = "asking"]
  /\ UNCHANGED <<server, inbox, sent, since, accepted>>
  /\ UNCHANGED redisVars
  /\ UNCHANGED newsVars

\* The cleanup of the effect closes the source it knows: none before the
\* answer to POST /events/ticket.
Unmount(s) ==
  /\ s \in mounted
  /\ mounted' = mounted \ {s}
  /\ IF client[s] = "asking" THEN UNCHANGED client ELSE Shut(s)
  /\ UNCHANGED <<owner, server, inbox, sent, since, accepted>>
  /\ UNCHANGED redisVars
  /\ UNCHANGED newsVars

\* The whole tab goes.
CloseTab(s) ==
  /\ client[s] \in {"asking", "connecting", "open"}
  /\ mounted' = mounted \ {s}
  /\ Shut(s)
  /\ UNCHANGED <<owner, server, inbox, sent, since, accepted>>
  /\ UNCHANGED redisVars
  /\ UNCHANGED newsVars

\* The network fails: the browser connects again by itself.
Break(s) ==
  /\ "break" \in Troubles
  /\ client[s] = "open"
  /\ client' = [client EXCEPT ![s] = "connecting"]
  /\ UNCHANGED <<owner, mounted, server, inbox, sent, since, accepted>>
  /\ UNCHANGED redisVars
  /\ UNCHANGED newsVars
-----------------------------------------------------------------------------
(* Tickets: issue_ticket, _consume_ticket. *)

\* The answer makes an EventSource, whether the page is still there or not.
IssueTicket(s) ==
  /\ client[s] = "asking"
  /\ Reachable
  /\ tickets' = tickets \cup {s}
  /\ client' = [client EXCEPT ![s] = "connecting"]
  /\ UNCHANGED <<up, leaked, owner, mounted, server, inbox, sent, since, accepted>>
  /\ UNCHANGED newsVars

\* 500 on the ticket, 401 or 500 on the stream: the page, or the EventSource,
\* gives up for good.
Refuse(s) ==
  /\ \/ client[s] = "asking" /\ ~Reachable
     \/ client[s] = "connecting" /\ (~Reachable \/ s \notin tickets)
  /\ Shut(s)
  /\ UNCHANGED <<owner, mounted, server, inbox, sent, since, accepted>>
  /\ UNCHANGED redisVars
  /\ UNCHANGED newsVars

TicketsWithout(s) == tickets \ {s}

\* GETDEL; the status 200 is sent before the generator runs.
Connect(s) ==
  /\ client[s] = "connecting"
  /\ Reachable
  /\ s \in tickets
  /\ tickets' = TicketsWithout(s)
  /\ accepted' = [accepted EXCEPT ![s] = @ + 1]
  /\ client' = [client EXCEPT ![s] = "open"]
  /\ server' = [server EXCEPT ![s] = "subscribing"]
  /\ UNCHANGED <<up, leaked, owner, mounted, inbox, sent, since>>
  /\ UNCHANGED newsVars

\* The time to live of the ticket is over.
Lapse(s) ==
  /\ "lapse" \in Troubles
  /\ s \in tickets
  /\ tickets' = tickets \ {s}
  /\ UNCHANGED <<up, leaked>>
  /\ UNCHANGED streamVars
  /\ UNCHANGED newsVars
-----------------------------------------------------------------------------
(* The generator: _event_stream. *)

Committed == {n \in News : about[n] # None}

Subscribe(s) ==
  /\ server[s] = "subscribing"
  /\ Reachable
  /\ server' = [server EXCEPT ![s] = "on"]
  /\ since' = [since EXCEPT ![s] = Committed]
  /\ UNCHANGED <<owner, mounted, client, inbox, sent, accepted>>
  /\ UNCHANGED redisVars
  /\ UNCHANGED newsVars

\* The browser of a stream that ends connects again.
Reconnecting(s) ==
  [client EXCEPT ![s] = IF @ = "open" THEN "connecting" ELSE @]

\* subscribe() raises before the try: there is nothing to give back.
SubscribeFails(s) ==
  /\ server[s] = "subscribing"
  /\ ~Reachable
  /\ server' = [server EXCEPT ![s] = "off"]
  /\ client' = Reconnecting(s)
  /\ UNCHANGED <<owner, mounted, inbox, sent, since, accepted>>
  /\ UNCHANGED redisVars
  /\ UNCHANGED newsVars

Gone(s) == client[s] # "open"

Yield(s) ==
  /\ server[s] = "on" /\ up
  /\ ~Gone(s)
  /\ inbox[s] # <<>>
  /\ inbox' = [inbox EXCEPT ![s] = Tail(@)]
  /\ sent' = [sent EXCEPT ![s] = @ \cup {Head(inbox[s])}]
  /\ UNCHANGED <<owner, mounted, client, server, since, accepted>>
  /\ UNCHANGED redisVars
  /\ UNCHANGED newsVars

\* is_disconnected, or get_message raises.
Leave(s) ==
  /\ server[s] = "on"
  /\ Gone(s) \/ ~up
  /\ server' = [server EXCEPT ![s] = "leaving"]
  /\ UNCHANGED <<owner, mounted, client, inbox, sent, since, accepted>>
  /\ UNCHANGED redisVars
  /\ UNCHANGED newsVars

\* unsubscribe(), which raises while Redis is down, and then aclose().
CleanUp(s) ==
  /\ server[s] = "leaving"
  /\ server' = [server EXCEPT ![s] = "off"]
  /\ leaked' = IF up THEN leaked ELSE leaked + 1
  /\ inbox' = [inbox EXCEPT ![s] = <<>>]
  /\ client' = Reconnecting(s)
  /\ UNCHANGED <<up, tickets, owner, mounted, sent, since, accepted>>
  /\ UNCHANGED newsVars
-----------------------------------------------------------------------------
(* Publishing: redeem, confirm_redemption, publish_event. *)

Commit(w) ==
  /\ note[w] = None
  /\ \E n \in News \ Committed, u \in Users :
       /\ about' = [about EXCEPT ![n] = u]
       /\ note' = [note EXCEPT ![w] = n]
  /\ UNCHANGED missed
  /\ UNCHANGED redisVars
  /\ UNCHANGED streamVars

Subscribers(u) == {s \in Streams : server[s] = "on" /\ owner[s] = u}

Publish(w) ==
  /\ note[w] # None
  /\ Reachable
  /\ inbox' = [s \in Streams |->
       IF s \in Subscribers(about[note[w]]) THEN Append(inbox[s], note[w]) ELSE inbox[s]]
  /\ note' = [note EXCEPT ![w] = None]
  /\ UNCHANGED <<about, missed, owner, mounted, client, server, sent, since, accepted>>
  /\ UNCHANGED redisVars

\* The error is swallowed, or the process stops before the call.
PublishFails(w) ==
  /\ note[w] # None
  /\ ~Reachable \/ "crash" \in Troubles
  /\ missed' = missed \cup {note[w]}
  /\ note' = [note EXCEPT ![w] = None]
  /\ UNCHANGED about
  /\ UNCHANGED redisVars
  /\ UNCHANGED streamVars
-----------------------------------------------------------------------------
(* Redis. *)

\* What was on its way to a subscriber is lost; without a volume, so are the
\* tickets.
Outage ==
  /\ "outage" \in Troubles
  /\ up
  /\ up' = FALSE
  /\ tickets' \in {tickets, {}}
  /\ inbox' = [s \in Streams |-> <<>>]
  /\ missed' = missed \cup UNION {Range(inbox[s]) : s \in Streams}
  /\ UNCHANGED <<leaked, owner, mounted, client, server, sent, since, accepted, about, note>>

\* The loop of a stream never stops asking for a message, so every one of them
\* notices that Redis was down.
Restore ==
  /\ ~up
  /\ \A s \in Streams : server[s] # "on"
  /\ up' = TRUE
  /\ UNCHANGED <<tickets, leaked>>
  /\ UNCHANGED streamVars
  /\ UNCHANGED newsVars
-----------------------------------------------------------------------------
Serve(s) ==
  IssueTicket(s) \/ Refuse(s) \/ Connect(s) \/ Subscribe(s) \/ SubscribeFails(s)
    \/ Yield(s) \/ Leave(s) \/ CleanUp(s)

Next ==
  \/ \E s \in Streams :
       Mount(s) \/ Unmount(s) \/ CloseTab(s) \/ Break(s) \/ Lapse(s) \/ Serve(s)
  \/ \E w \in Writers : Commit(w) \/ Publish(w) \/ PublishFails(w)
  \/ Outage \/ Restore

Spec == Init /\ [][Next]_vars

\* The event loop runs every handler and every generator.
Fairness == \A s \in Streams : WF_vars(Serve(s))
-----------------------------------------------------------------------------
(* Properties. *)

\* A ticket opens one stream at most, although the browser presents it again
\* each time it connects (events/routes.py:69-70).
TicketOnce == \A s \in Streams : accepted[s] <= 1

\* An open stream gets the news of its own user and misses none that was
\* committed after it subscribed, except where the publication failed.
NewsArrive ==
  \A s \in Streams : server[s] = "on" =>
    LET got == sent[s] \cup Range(inbox[s])
        coming == {note[w] : w \in Writers}
        own == {n \in News : about[n] = owner[s]} IN
    /\ got \subseteq own
    /\ own \ since[s] \subseteq got \cup coming \cup missed

\* The generator of a client that has gone ends.
StreamsEnd == \A s \in Streams : client[s] = "shut" ~> server[s] = "off"

\* When a generator has ended, nothing of it occupies the pool: "иначе
\* соединение к Redis остаётся занятым после ухода клиента и пул
\* исчерпывается" (events/routes.py:124-125).
ConnectionsReturned == InUse = Cardinality(Holding)
=============================================================================
