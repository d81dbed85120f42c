------------------------- MODULE EventStreamProofs -------------------------
(***************************************************************************)
(* What a stream accepts and delivers, for any users, streams, writers and *)
(* news, and whatever troubles meet Redis, the network and the processes.  *)
(***************************************************************************)
EXTENDS EventStream, FiniteSetTheorems, SequenceTheorems, TLAPS

\* A ticket is issued to a page that has been asking since it was mounted, and
\* leaves Redis for good when a stream is opened with it.
TicketGone(s) ==
  /\ owner[s] = None => client[s] = "none" /\ s \notin mounted /\ sent[s] = {}
  /\ client[s] = "none" => owner[s] = None
  /\ client[s] \in {"none", "asking"} \/ s \in tickets => accepted[s] = 0
  /\ client[s] \in {"none", "asking"} => s \notin tickets
  /\ server[s] # "off" => accepted[s] = 1
  /\ accepted[s] = 0 => sent[s] = {}
  /\ accepted[s] <= 1

Got(s) == sent[s] \cup Range(inbox[s])

\* What a stream has been sent is committed and about its own user.
OwnOnly(s) == \A n \in Got(s) : about[n] = owner[s] /\ about[n] # None

\* News of its user that came after its subscription is with it, on its way,
\* or lost with the failure of its publication.
NoneMissing(s) ==
  server[s] = "on" =>
    \A n \in News : about[n] = owner[s] /\ n \notin since[s] =>
      n \in Got(s) \/ n \in missed \/ \E w \in Writers : note[w] = n

\* Streams whose generator has run: each leaks one connection at most.
Spent == {s \in Streams : accepted[s] = 1 /\ server[s] = "off"}

\* The types of the variables, as in TypeOK but for the bound of leaked.
Typed ==
  /\ up \in BOOLEAN
  /\ tickets \subseteq Streams
  /\ owner \in [Streams -> Users \cup {None}]
  /\ mounted \subseteq Streams
  /\ client \in [Streams -> ClientSteps]
  /\ server \in [Streams -> ServerSteps]
  /\ inbox \in [Streams -> Seq(News)]
  /\ sent \in [Streams -> SUBSET News]
  /\ about \in [News -> Users \cup {None}]
  /\ note \in [Writers -> News \cup {None}]
  /\ missed \subseteq News
  /\ since \in [Streams -> SUBSET News]
  /\ accepted \in [Streams -> Nat]

Counted == leaked \in Nat /\ leaked <= Cardinality(Spent)
Empty(s) == inbox[s] # <<>> => server[s] \in {"on", "leaving"}

StreamInv(s) == TicketGone(s) /\ OwnOnly(s) /\ NoneMissing(s) /\ Empty(s)

\* What is about to be published has been committed.
NotesCommitted == \A w \in Writers : note[w] # None => about[note[w]] # None

\* The invariant that Next preserves.
IInv == Typed /\ Counted /\ NotesCommitted /\ \A s \in Streams : StreamInv(s)

-----------------------------------------------------------------------------
(* Sequences.                                                              *)

\* What a message adds to an inbox.
LEMMA RangeAppend ==
  ASSUME NEW q \in Seq(News), NEW n \in News
  PROVE  Range(Append(q, n)) = Range(q) \cup {n}
<1>1. /\ DOMAIN Append(q, n) = 1..Len(q) + 1 /\ DOMAIN q = 1..Len(q) /\ Len(q) \in Nat
      /\ Append(q, n)[Len(q) + 1] = n
      /\ \A i \in 1..Len(q) : Append(q, n)[i] = q[i]
  BY AppendProperties, LenProperties
<1>2. 1..Len(q) + 1 = 1..Len(q) \cup {Len(q) + 1}
  BY <1>1
<1> QED
  BY <1>1, <1>2 DEF Range

\* What a read takes from it.
LEMMA RangeTail ==
  ASSUME NEW q \in Seq(News), q # <<>>
  PROVE  Range(q) = {Head(q)} \cup Range(Tail(q)) /\ Head(q) \in News /\ Tail(q) \in Seq(News)
<1>1. /\ Head(q) = q[1] /\ Head(q) \in News /\ Tail(q) \in Seq(News)
      /\ Len(q) \in Nat /\ Len(q) > 0 /\ Len(Tail(q)) = Len(q) - 1
      /\ DOMAIN q = 1..Len(q) /\ DOMAIN Tail(q) = 1..Len(Tail(q))
      /\ \A i \in 1..Len(Tail(q)) : Tail(q)[i] = q[i + 1]
  BY HeadTailProperties, LenProperties, EmptySeq
<1>2. ASSUME NEW n \in Range(q)
      PROVE  n \in {Head(q)} \cup Range(Tail(q))
  <2>1. PICK i \in 1..Len(q) : n = q[i]
    BY <1>1 DEF Range
  <2>2. CASE i = 1
    BY <1>1, <2>1, <2>2
  <2>3. CASE i # 1
    <3>1. i - 1 \in 1..Len(Tail(q)) /\ q[i] = Tail(q)[i - 1]
      BY <1>1, <2>1, <2>3
    <3> QED
      BY <1>1, <2>1, <3>1 DEF Range
  <2> QED
    BY <2>2, <2>3
<1>3. ASSUME NEW n \in Range(Tail(q))
      PROVE  n \in Range(q)
  <2>1. PICK i \in 1..Len(Tail(q)) : n = Tail(q)[i]
    BY <1>1 DEF Range
  <2>2. i + 1 \in 1..Len(q) /\ n = q[i + 1]
    BY <1>1, <2>1
  <2> QED
    BY <1>1, <2>2 DEF Range
<1>4. Head(q) \in Range(q)
  BY <1>1 DEF Range
<1> QED
  BY <1>1, <1>2, <1>3, <1>4

\* An empty inbox holds nothing.
LEMMA RangeEmpty == Range(<<>>) = {}
  BY DEF Range
-----------------------------------------------------------------------------
(* The steps.                                                              *)

\* Nothing has happened at the start.
LEMMA InitInv == Init => IInv
<1> SUFFICES ASSUME Init
             PROVE  IInv
  OBVIOUS
<1>1. Typed
  BY StreamNoneAssumption DEF Init, Typed, ClientSteps, ServerSteps
<1>2. Spent = {}
  BY DEF Init, Spent
<1>3. Counted
  BY <1>2, FS_EmptySet DEF Init, Counted
<1>4. ASSUME NEW s \in Streams
      PROVE  StreamInv(s)
  BY RangeEmpty DEF Init, StreamInv, TicketGone, OwnOnly, NoneMissing, Empty, Got
<1> QED
  BY <1>1, <1>3, <1>4 DEF Init, IInv, NotesCommitted

\* Steps of the page and of the browser, and answers that refuse it.
LEMMA PageInv ==
  ASSUME IInv, NEW s \in Streams,
         Mount(s) \/ Unmount(s) \/ CloseTab(s) \/ Break(s) \/ Refuse(s)
  PROVE  IInv'
<1> USE DEF IInv
<1>1. UNCHANGED <<up, tickets, leaked, server, inbox, sent, since, accepted, about, note, missed>>
  BY DEF Mount, Unmount, CloseTab, Break, Refuse, redisVars, newsVars
<1>2. /\ owner' \in [Streams -> Users \cup {None}] /\ mounted' \subseteq Streams
      /\ \A t \in Streams \ {s} : owner'[t] = owner[t] /\ (t \in mounted' <=> t \in mounted)
  <2>1. CASE Mount(s)
    BY <2>1 DEF Mount, Typed
  <2>2. CASE Unmount(s) \/ CloseTab(s) \/ Break(s) \/ Refuse(s)
    <3>1. owner' = owner /\ mounted' \in {mounted, mounted \ {s}}
      BY <2>2 DEF Unmount, CloseTab, Break, Refuse
    <3> QED
      BY <3>1 DEF Typed
  <2> QED
    BY <2>1, <2>2
<1>3. /\ client' \in [Streams -> ClientSteps]
      /\ \A t \in Streams \ {s} : client'[t] = client[t]
  BY DEF Mount, Unmount, CloseTab, Break, Refuse, Shut, Typed, ClientSteps
<1>4. Typed' /\ Counted' /\ NotesCommitted'
  BY <1>1, <1>2, <1>3 DEF Typed, Counted, Spent, NotesCommitted
<1>5. StreamInv(s)'
  <2>1. TicketGone(s)'
    BY <1>1, StreamNoneAssumption
    DEF Mount, Unmount, CloseTab, Break, Refuse, Shut, TicketGone, StreamInv, Typed
  <2>2. owner'[s] = owner[s] \/ (sent[s] = {} /\ server[s] = "off")
    BY <1>1 DEF Mount, Unmount, CloseTab, Break, Refuse, TicketGone, StreamInv, Typed
  <2>3. OwnOnly(s)'
    BY <1>1, <2>2, RangeEmpty DEF OwnOnly, Got, Empty, StreamInv
  <2>4. NoneMissing(s)' /\ Empty(s)'
    BY <1>1, <2>2 DEF NoneMissing, Got, Empty, StreamInv
  <2> QED
    BY <2>1, <2>3, <2>4 DEF StreamInv
<1>6. ASSUME NEW t \in Streams, t # s
      PROVE  StreamInv(t)'
  BY <1>1, <1>2, <1>3, <1>6 DEF StreamInv, TicketGone, OwnOnly, NoneMissing, Empty, Got
<1> QED
  BY <1>4, <1>5, <1>6

\* A ticket is issued.
LEMMA IssueInv ==
  ASSUME IInv, NEW s \in Streams, IssueTicket(s)
  PROVE  IInv'
<1> USE DEF IInv
<1>1. /\ UNCHANGED <<up, leaked, owner, mounted, server, inbox, sent, since, accepted,
                     about, note, missed>>
      /\ tickets' = tickets \cup {s} /\ client' = [client EXCEPT ![s] = "connecting"]
      /\ client[s] = "asking"
  BY DEF IssueTicket, newsVars
<1>2. Typed' /\ Counted' /\ NotesCommitted'
  BY <1>1 DEF Typed, Counted, Spent, NotesCommitted, ClientSteps
<1>3. ASSUME NEW t \in Streams
      PROVE  StreamInv(t)'
  BY <1>1, <1>3, StreamNoneAssumption
  DEF StreamInv, TicketGone, OwnOnly, NoneMissing, Empty, Got, Typed
<1> QED
  BY <1>2, <1>3

\* A stream is opened with a ticket: its first and last.
LEMMA ConnectInv ==
  ASSUME IInv, NEW s \in Streams, Connect(s)
  PROVE  IInv'
<1> USE DEF IInv
<1>1. /\ UNCHANGED <<up, leaked, owner, mounted, inbox, sent, since, about, note, missed>>
      /\ tickets' = tickets \ {s} /\ client' = [client EXCEPT ![s] = "open"]
      /\ client[s] = "connecting" /\ s \in tickets
      /\ accepted' = [accepted EXCEPT ![s] = @ + 1]
      /\ server' = [server EXCEPT ![s] = "subscribing"]
  BY DEF Connect, TicketsWithout, newsVars
<1>2. accepted[s] = 0 /\ server[s] = "off"
  BY <1>1 DEF StreamInv, TicketGone
<1>3. Typed' /\ NotesCommitted'
  <2>1. accepted' \in [Streams -> Nat] /\ tickets' \subseteq Streams
    BY <1>1 DEF Typed
  <2>2. client' \in [Streams -> ClientSteps] /\ server' \in [Streams -> ServerSteps]
    BY <1>1 DEF Typed, ClientSteps, ServerSteps
  <2> QED
    BY <1>1, <2>1, <2>2 DEF Typed, NotesCommitted
<1>4. Spent' = Spent
  BY <1>1, <1>2 DEF Spent, Typed
<1>5. Counted'
  BY <1>1, <1>4 DEF Counted
<1>6. StreamInv(s)'
  <2>1. /\ client'[s] = "open" /\ server'[s] = "subscribing" /\ accepted'[s] = 1
        /\ s \notin tickets'
    BY <1>1, <1>2 DEF Typed
  <2>2. TicketGone(s)'
    BY <1>1, <2>1 DEF StreamInv, TicketGone
  <2>3. OwnOnly(s)' /\ NoneMissing(s)' /\ Empty(s)'
    BY <1>1, <1>2, <2>1 DEF StreamInv, OwnOnly, NoneMissing, Empty, Got
  <2> QED
    BY <2>2, <2>3 DEF StreamInv
<1>7. ASSUME NEW t \in Streams, t # s
      PROVE  StreamInv(t)'
  BY <1>1, <1>7 DEF StreamInv, TicketGone, OwnOnly, NoneMissing, Empty, Got, Typed
<1> QED
  BY <1>3, <1>5, <1>6, <1>7

\* A ticket lapses.
LEMMA LapseInv ==
  ASSUME IInv, NEW s \in Streams, Lapse(s)
  PROVE  IInv'
<1> USE DEF IInv
<1>1. /\ tickets' = tickets \ {s}
      /\ UNCHANGED <<up, leaked, owner, mounted, client, server, inbox, sent, since, accepted,
                     about, note, missed>>
  BY DEF Lapse, streamVars, newsVars
<1>2. Typed' /\ Counted' /\ NotesCommitted'
  BY <1>1 DEF Typed, Counted, Spent, NotesCommitted
<1>3. ASSUME NEW t \in Streams
      PROVE  StreamInv(t)'
  BY <1>1 DEF StreamInv, TicketGone, OwnOnly, NoneMissing, Empty, Got
<1> QED
  BY <1>2, <1>3

\* The generator subscribes, or notices that it has to leave.
LEMMA SubscribeInv ==
  ASSUME IInv, NEW s \in Streams, Subscribe(s) \/ Leave(s)
  PROVE  IInv'
<1> USE DEF IInv
<1>1. /\ UNCHANGED <<up, tickets, leaked, owner, mounted, client, inbox, sent, accepted,
                     about, note, missed>>
      /\ \/ /\ server[s] = "subscribing" /\ server' = [server EXCEPT ![s] = "on"]
            /\ since' = [since EXCEPT ![s] = Committed]
         \/ /\ server[s] = "on" /\ server' = [server EXCEPT ![s] = "leaving"]
            /\ since' = since
  BY DEF Subscribe, Leave, redisVars, newsVars
<1>2. Typed' /\ NotesCommitted'
  <2>1. server' \in [Streams -> ServerSteps]
    BY <1>1 DEF Typed, ServerSteps
  <2>2. since' \in [Streams -> SUBSET News]
    BY <1>1 DEF Typed, Committed
  <2> QED
    BY <1>1, <2>1, <2>2 DEF Typed, NotesCommitted
<1>3. Spent' = Spent
  BY <1>1 DEF Spent, Typed
<1>4. Counted'
  BY <1>1, <1>3 DEF Counted
<1>5. StreamInv(s)'
  <2>1. TicketGone(s)' /\ OwnOnly(s)' /\ Empty(s)'
    BY <1>1 DEF StreamInv, TicketGone, OwnOnly, Empty, Got, Typed
  <2>2. owner[s] # None
    BY <1>1 DEF StreamInv, TicketGone
  <2>3. NoneMissing(s)'
    BY <1>1, <2>2 DEF NoneMissing, Typed, Committed
  <2> QED
    BY <2>1, <2>3 DEF StreamInv
<1>6. ASSUME NEW t \in Streams, t # s
      PROVE  StreamInv(t)'
  BY <1>1, <1>6 DEF StreamInv, TicketGone, OwnOnly, NoneMissing, Empty, Got, Typed
<1> QED
  BY <1>2, <1>4, <1>5, <1>6

\* A message goes on to the page.
LEMMA YieldInv ==
  ASSUME IInv, NEW s \in Streams, Yield(s)
  PROVE  IInv'
<1> USE DEF IInv
<1>1. /\ UNCHANGED <<up, tickets, leaked, owner, mounted, client, server, since, accepted,
                     about, note, missed>>
      /\ inbox' = [inbox EXCEPT ![s] = Tail(inbox[s])]
      /\ sent' = [sent EXCEPT ![s] = sent[s] \cup {Head(inbox[s])}]
      /\ inbox[s] # <<>> /\ server[s] = "on" /\ inbox[s] \in Seq(News)
  BY DEF Yield, redisVars, newsVars, Typed
<1>2. /\ Range(inbox[s]) = {Head(inbox[s])} \cup Range(Tail(inbox[s]))
      /\ Head(inbox[s]) \in News /\ Tail(inbox[s]) \in Seq(News)
  BY <1>1, RangeTail
<1>3. Typed' /\ Counted' /\ NotesCommitted'
  <2>1. inbox' \in [Streams -> Seq(News)]
    BY <1>1, <1>2 DEF Typed
  <2>2. sent' \in [Streams -> SUBSET News]
    BY <1>1, <1>2 DEF Typed
  <2> QED
    BY <1>1, <2>1, <2>2 DEF Typed, Counted, Spent, NotesCommitted
<1>4. /\ inbox'[s] = Tail(inbox[s]) /\ sent'[s] = sent[s] \cup {Head(inbox[s])}
      /\ \A t \in Streams \ {s} : inbox'[t] = inbox[t] /\ sent'[t] = sent[t]
  BY <1>1 DEF Typed
<1>5. Got(s)' = Got(s)
  BY <1>2, <1>4 DEF Got
<1>6. StreamInv(s)'
  BY <1>1, <1>4, <1>5 DEF StreamInv, TicketGone, OwnOnly, NoneMissing, Empty
<1>7. ASSUME NEW t \in Streams, t # s
      PROVE  StreamInv(t)'
  BY <1>1, <1>4, <1>7 DEF StreamInv, TicketGone, OwnOnly, NoneMissing, Empty, Got
<1> QED
  BY <1>3, <1>6, <1>7

\* The generator ends; without Redis its connection leaks.
LEMMA EndInv ==
  ASSUME IInv, NEW s \in Streams, SubscribeFails(s) \/ CleanUp(s)
  PROVE  IInv'
<1> USE DEF IInv
<1>1. /\ UNCHANGED <<up, tickets, owner, mounted, sent, since, accepted, about, note, missed>>
      /\ server[s] # "off" /\ server' = [server EXCEPT ![s] = "off"]
      /\ client' = Reconnecting(s) /\ leaked' \in {leaked, leaked + 1}
      /\ inbox' = [inbox EXCEPT ![s] = <<>>]
  BY DEF SubscribeFails, CleanUp, redisVars, newsVars, StreamInv, Empty, Typed
<1>2. /\ client' \in [Streams -> ClientSteps]
      /\ \A t \in Streams \ {s} : client'[t] = client[t]
      /\ client[s] # "open" => client'[s] = client[s]
      /\ client[s] = "open" => client'[s] = "connecting"
  BY <1>1 DEF Reconnecting, Typed, ClientSteps
<1>3. Typed' /\ NotesCommitted'
  <2>1. <<>> \in Seq(News)
    OBVIOUS
  <2>2. inbox' \in [Streams -> Seq(News)] /\ server' \in [Streams -> ServerSteps]
    BY <1>1, <2>1 DEF Typed, ServerSteps
  <2> QED
    BY <1>1, <1>2, <2>2 DEF Typed, NotesCommitted
<1>4. Counted'
  <2>1. Spent' = Spent \cup {s} /\ s \notin Spent
    BY <1>1 DEF Spent, Typed, StreamInv, TicketGone
  <2>2. IsFiniteSet(Spent) /\ Cardinality(Spent) \in Nat
    BY StreamsAssumption, FS_Subset, FS_CardinalityType DEF Spent
  <2>3. Cardinality(Spent') = Cardinality(Spent) + 1
    BY <2>1, <2>2, FS_AddElement
  <2> QED
    BY <1>1, <2>2, <2>3 DEF Counted
<1>5. StreamInv(s)'
  <2>1. server'[s] = "off" /\ inbox'[s] = <<>>
    BY <1>1 DEF Typed
  <2>2. TicketGone(s)'
    BY <1>1, <1>2, <2>1 DEF StreamInv, TicketGone
  <2>3. OwnOnly(s)' /\ NoneMissing(s)' /\ Empty(s)'
    BY <1>1, <2>1, RangeEmpty DEF StreamInv, OwnOnly, NoneMissing, Empty, Got
  <2> QED
    BY <2>2, <2>3 DEF StreamInv
<1>6. ASSUME NEW t \in Streams, t # s
      PROVE  StreamInv(t)'
  BY <1>1, <1>2, <1>6 DEF StreamInv, TicketGone, OwnOnly, NoneMissing, Empty, Got, Typed
<1> QED
  BY <1>3, <1>4, <1>5, <1>6

\* A row is committed: its publication is on the way.
LEMMA CommitInv ==
  ASSUME IInv, NEW w \in Writers, Commit(w)
  PROVE  IInv'
<1> USE DEF IInv
<1>1. PICK n \in News \ Committed, u \in Users :
        /\ about' = [about EXCEPT ![n] = u]
        /\ note' = [note EXCEPT ![w] = n]
  BY DEF Commit
<1>2. /\ UNCHANGED <<up, tickets, leaked, owner, mounted, client, server, inbox, sent, since,
                     accepted, missed>>
      /\ note[w] = None
  BY DEF Commit, redisVars, streamVars
<1>3. /\ about' \in [News -> Users \cup {None}] /\ note' \in [Writers -> News \cup {None}]
      /\ about'[n] = u /\ about[n] = None /\ u # None /\ n # None /\ note'[w] = n
      /\ \A m \in News \ {n} : about'[m] = about[m]
      /\ \A v \in Writers \ {w} : note'[v] = note[v]
  BY <1>1, StreamNoneAssumption DEF Typed, Committed
<1>4. Typed' /\ Counted' /\ NotesCommitted'
  <2>1. Typed' /\ Counted'
    BY <1>2, <1>3 DEF Typed, Counted, Spent
  <2>2. ASSUME NEW v \in Writers, note'[v] # None
        PROVE  about'[note'[v]] # None
    BY <1>3, <2>2 DEF NotesCommitted, Typed
  <2> QED
    BY <2>1, <2>2 DEF NotesCommitted
<1>5. ASSUME NEW t \in Streams
      PROVE  StreamInv(t)'
  <2>1. TicketGone(t)' /\ Empty(t)' /\ Got(t)' = Got(t)
    BY <1>2 DEF StreamInv, TicketGone, Empty, Got
  <2>2. OwnOnly(t)'
    <3>1. Got(t) \subseteq News
      BY DEF Got, Typed, Range
    <3> QED
      BY <1>2, <1>3, <2>1, <3>1 DEF StreamInv, OwnOnly
  <2>3. NoneMissing(t)'
    <3> SUFFICES ASSUME server[t] = "on", NEW m \in News, about'[m] = owner[t], m \notin since[t]
                 PROVE  m \in Got(t) \/ m \in missed \/ \E v \in Writers : note'[v] = m
      BY <1>2, <2>1 DEF NoneMissing
    <3>1. CASE m = n
      BY <1>3, <3>1
    <3>2. CASE m # n
      <4>1. m # None
        BY StreamNoneAssumption
      <4>2. m \in Got(t) \/ m \in missed \/ \E v \in Writers \ {w} : note[v] = m
        BY <1>2, <1>3, <3>2, <4>1 DEF StreamInv, NoneMissing
      <4> QED
        BY <1>3, <4>2
    <3> QED
      BY <3>1, <3>2
  <2> QED
    BY <2>1, <2>2, <2>3 DEF StreamInv
<1> QED
  BY <1>4, <1>5

\* What is committed is given to every subscriber of its user, or lost.
LEMMA PublishInv ==
  ASSUME IInv, NEW w \in Writers, Publish(w) \/ PublishFails(w)
  PROVE  IInv'
<1> USE DEF IInv
<1> DEFINE n == note[w]
<1>1. /\ UNCHANGED <<up, tickets, leaked, owner, mounted, client, server, sent, since, accepted,
                     about>>
      /\ n # None /\ note' = [note EXCEPT ![w] = None]
  BY DEF Publish, PublishFails, redisVars, streamVars
<1>2. n \in News /\ about[n] # None
  BY <1>1 DEF Typed, NotesCommitted
<1>3. CASE Publish(w)
  <2>1. /\ missed' = missed
        /\ inbox' = [s \in Streams |->
             IF s \in Subscribers(about[n]) THEN Append(inbox[s], n) ELSE inbox[s]]
    BY <1>3 DEF Publish
  <2>2. ASSUME NEW t \in Streams
        PROVE  /\ inbox'[t] \in Seq(News)
               /\ \/ t \in Subscribers(about[n]) /\ Got(t)' = Got(t) \cup {n}
                  \/ /\ t \notin Subscribers(about[n]) /\ Got(t)' = Got(t)
                     /\ inbox'[t] = inbox[t]
    <3>1. inbox[t] \in Seq(News)
      BY DEF Typed
    <3>2. Append(inbox[t], n) \in Seq(News) /\ Range(Append(inbox[t], n)) = Range(inbox[t]) \cup {n}
      BY <1>2, <3>1, RangeAppend, AppendProperties
    <3> QED
      BY <1>1, <2>1, <3>1, <3>2 DEF Got
  <2>3. Typed' /\ Counted' /\ NotesCommitted'
    <3>1. inbox' \in [Streams -> Seq(News)]
      BY <2>1, <2>2
    <3> QED
      BY <1>1, <2>1, <3>1 DEF Typed, Counted, Spent, NotesCommitted
  <2>4. ASSUME NEW t \in Streams
        PROVE  StreamInv(t)'
    <3>1. TicketGone(t)'
      BY <1>1 DEF StreamInv, TicketGone
    <3>2. Empty(t)'
      BY <1>1, <2>2 DEF StreamInv, Empty, Subscribers
    <3>3. OwnOnly(t)'
      BY <1>1, <1>2, <2>2 DEF StreamInv, OwnOnly, Subscribers
    <3>4. NoneMissing(t)'
      <4> SUFFICES ASSUME server[t] = "on", NEW m \in News, about[m] = owner[t], m \notin since[t]
                   PROVE  m \in Got(t)' \/ m \in missed \/ \E v \in Writers : note'[v] = m
        BY <1>1, <2>1 DEF NoneMissing
      <4>1. CASE m = n
        BY <2>2, <4>1 DEF Subscribers
      <4>2. CASE m # n
        <5>1. m \in Got(t) \/ m \in missed \/ \E v \in Writers \ {w} : note[v] = m
          BY <4>2 DEF StreamInv, NoneMissing
        <5>2. \A v \in Writers \ {w} : note'[v] = note[v]
          BY <1>1 DEF Typed
        <5> QED
          BY <2>2, <5>1, <5>2
      <4> QED
        BY <4>1, <4>2
    <3> QED
      BY <3>1, <3>2, <3>3, <3>4 DEF StreamInv
  <2> QED
    BY <2>3, <2>4
<1>4. CASE PublishFails(w)
  <2>1. missed' = missed \cup {n} /\ UNCHANGED inbox
    BY <1>4 DEF PublishFails, streamVars
  <2>2. Typed' /\ Counted' /\ NotesCommitted'
    BY <1>1, <1>2, <2>1 DEF Typed, Counted, Spent, NotesCommitted
  <2>3. ASSUME NEW t \in Streams
        PROVE  StreamInv(t)'
    BY <1>1, <2>1 DEF StreamInv, TicketGone, OwnOnly, NoneMissing, Empty, Got, Typed
  <2> QED
    BY <2>2, <2>3
<1> QED
  BY <1>3, <1>4

\* Redis stops, and what was on its way to subscribers is lost; or it is back.
LEMMA RedisInv ==
  ASSUME IInv, Outage \/ Restore
  PROVE  IInv'
<1> USE DEF IInv
<1>1. CASE Restore
  BY <1>1 DEF Restore, streamVars, newsVars, Typed, Counted, Spent, NotesCommitted,
              StreamInv, TicketGone, OwnOnly, NoneMissing, Empty, Got
<1>2. CASE Outage
  <2>1. /\ UNCHANGED <<leaked, owner, mounted, client, server, sent, since, accepted, about, note>>
        /\ up' = FALSE /\ tickets' \subseteq tickets
        /\ inbox' = [s \in Streams |-> <<>>]
        /\ missed' = missed \cup UNION {Range(inbox[s]) : s \in Streams}
    BY <1>2 DEF Outage
  <2>2. \A s \in Streams : Range(inbox[s]) \subseteq News
    BY DEF Typed, Range
  <2>3. Typed' /\ Counted' /\ NotesCommitted'
    <3>1. missed' \subseteq News
      BY <2>1, <2>2 DEF Typed
    <3>2. <<>> \in Seq(News)
      OBVIOUS
    <3>3. inbox' \in [Streams -> Seq(News)]
      BY <2>1, <3>2
    <3> QED
      BY <2>1, <3>1, <3>3 DEF Typed, Counted, Spent, NotesCommitted
  <2>4. ASSUME NEW t \in Streams
        PROVE  StreamInv(t)'
    <3>1. inbox'[t] = <<>> /\ Got(t)' = sent[t] /\ Got(t) \subseteq sent[t] \cup missed'
      BY <2>1, RangeEmpty DEF Got
    <3>2. TicketGone(t)' /\ Empty(t)'
      BY <2>1, <3>1 DEF StreamInv, TicketGone, Empty
    <3>3. OwnOnly(t)' /\ NoneMissing(t)'
      BY <2>1, <3>1 DEF StreamInv, OwnOnly, NoneMissing, Got
    <3> QED
      BY <3>2, <3>3 DEF StreamInv
  <2> QED
    BY <2>3, <2>4
<1> QED
  BY <1>1, <1>2

\* Every step preserves the invariant.
LEMMA NextInv == IInv /\ [Next]_vars => IInv'
<1> SUFFICES ASSUME IInv, [Next]_vars
             PROVE  IInv'
  OBVIOUS
<1>1. CASE UNCHANGED vars
  BY <1>1 DEF vars, IInv, Typed, Counted, Spent, NotesCommitted,
              StreamInv, TicketGone, OwnOnly, NoneMissing, Empty, Got
<1> QED
  BY <1>1, PageInv, IssueInv, ConnectInv, LapseInv, SubscribeInv, YieldInv, EndInv,
     CommitInv, PublishInv, RedisInv DEF Next, Serve
-----------------------------------------------------------------------------
\* The inductive invariant of the streams.
THEOREM Invariance == Spec => []IInv
BY InitInv, NextInv, PTL DEF Spec

\* Every variable keeps its type; in particular no more connections of the pool
\* leak than there are streams (events/routes.py:124-126).
THEOREM TypeCorrect == Spec => []TypeOK
<1>1. IInv => TypeOK
  <2>1. /\ Cardinality(Spent) \in Nat /\ Cardinality(Streams) \in Nat
        /\ Cardinality(Spent) <= Cardinality(Streams)
    BY StreamsAssumption, FS_Subset, FS_CardinalityType DEF Spent
  <2>2. Counted => leaked \in 0..Cardinality(Streams)
    BY <2>1 DEF Counted
  <2> QED
    BY <2>2 DEF IInv, Typed, TypeOK, StreamInv, Empty
<1> QED
  BY <1>1, Invariance, PTL

\* A ticket opens one stream at most (events/routes.py:69-70).
THEOREM TicketsOpenOnce == Spec => []TicketOnce
<1>1. IInv => TicketOnce
  BY DEF IInv, StreamInv, TicketGone, TicketOnce
<1> QED
  BY <1>1, Invariance, PTL

\* An open stream has, or will have, the news of its user and no other, but for
\* those whose publication failed (events/publisher.py:40-66).
THEOREM NewsDelivered == Spec => []NewsArrive
<1>1. IInv => NewsArrive
  <2> SUFFICES ASSUME IInv, NEW s \in Streams, server[s] = "on"
               PROVE  LET own == {n \in News : about[n] = owner[s]} IN
                      /\ Got(s) \subseteq own
                      /\ own \ since[s] \subseteq Got(s) \cup {note[w] : w \in Writers} \cup missed
    BY DEF NewsArrive, Got
  <2>1. Got(s) \subseteq News
    BY DEF IInv, Typed, Got, Range
  <2> QED
    BY <2>1 DEF IInv, StreamInv, OwnOnly, NoneMissing
<1> QED
  BY <1>1, Invariance, PTL
=============================================================================
