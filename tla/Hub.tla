-------------------------------- MODULE Hub --------------------------------
(***************************************************************************)
(* The in-memory fan-out of server-sent events (internal/stream/hub.go),   *)
(* the handler that serves a connection (stream/handler.go) and the        *)
(* producers that store a row and then publish it (notification, report,   *)
(* moderation, bot and messaging services over app/adapters.go).           *)
(*                                                                         *)
(* The registry is guarded by a mutex: a locked region is one step.  The   *)
(* sends on the channels of a snapshot happen outside of it, one by one.   *)
(***************************************************************************)
EXTENDS Integers, Sequences, FiniteSets

CONSTANTS
  Users,
  Conns,       \* connections ever made; a reconnect is another one
  Owner,       \* the user each belongs to
  AdminConns,  \* those whose token carries the admin role
  Producers,   \* goroutines that publish
  Capacity,    \* subscriberChanBuf
  MaxEvents    \* bound: rows ever stored

ASSUME HubAssumption ==
  /\ Owner \in [Conns -> Users]
  /\ AdminConns \subseteq Conns
  /\ Capacity \in Nat \ {0}
  /\ MaxEvents \in Nat

VARIABLES
  registered,  \* byUser and admins: the subscribers in the registry
  closed,      \* connections that ended: their channels are closed
  channel,     \* the buffered channel of each subscriber
  rows,        \* rows stored so far, which number the events
  producer,    \* where each goroutine is
  received,    \* history: events written to each connection
  missed,      \* history: events a full channel made Publish drop
  broken,      \* history: events whose producer panicked
  addressed    \* history: the subscribers in the snapshot of each event

vars == <<registered, closed, channel, rows, producer, received, missed, broken, addressed>>

Everyone == "admins"

Event == [row: Nat, by: Producers, to: Users \cup {Everyone}]

Idle == [pc |-> "idle"]

Storing == [pc: {"store"}, to: Users \cup {Everyone}]
Publishing == [pc: {"snapshot"}, event: Event]
Sending == [pc: {"send"}, event: Event, left: SUBSET Conns]

TypeOK ==
  /\ registered \subseteq Conns /\ closed \subseteq Conns
  /\ registered \cap closed = {}
  /\ channel \in [Conns -> Seq(Event)]
  /\ \A c \in Conns : Len(channel[c]) <= Capacity
  /\ rows \in Nat
  /\ producer \in [Producers -> {Idle} \cup Storing \cup Publishing \cup Sending]
  /\ received \in [Conns -> Seq(Event)]
  /\ missed \subseteq Conns \X Event /\ addressed \subseteq Conns \X Event
  /\ broken \subseteq Event

Init ==
  /\ registered = {} /\ closed = {}
  /\ channel = [c \in Conns |-> <<>>]
  /\ rows = 0
  /\ producer = [p \in Producers |-> Idle]
  /\ received = [c \in Conns |-> <<>>]
  /\ missed = {} /\ broken = {} /\ addressed = {}

-----------------------------------------------------------------------------
(* Connections.                                                            *)

Subscribe(c) ==
  /\ c \notin registered \cup closed
  /\ registered' = registered \cup {c}
  /\ UNCHANGED <<closed, channel, rows, producer, received, missed, broken, addressed>>

\* Slip: the event stays in the channel.
DeliverTwice(c) ==
  /\ c \in registered
  /\ channel[c] # <<>>
  /\ received' = [received EXCEPT ![c] = Append(@, Head(channel[c]))]
  /\ UNCHANGED <<registered, closed, channel, rows, producer, missed, broken, addressed>>

\* The handler takes an event and writes it to the client.
Deliver(c) ==
  /\ c \in registered
  /\ channel[c] # <<>>
  /\ received' = [received EXCEPT ![c] = Append(@, Head(channel[c]))]
  /\ channel' = [channel EXCEPT ![c] = Tail(@)]
  /\ UNCHANGED <<registered, closed, rows, producer, missed, broken, addressed>>

\* The connection ends: unsubscribe removes it from the registry and closes the
\* channel, under the lock.  What is buffered is never read.
Unsubscribe(c) ==
  /\ c \in registered
  /\ registered' = registered \ {c}
  /\ closed' = closed \cup {c}
  /\ channel' = [channel EXCEPT ![c] = <<>>]
  /\ UNCHANGED <<rows, producer, received, missed, broken, addressed>>

-----------------------------------------------------------------------------
(* Producers.                                                              *)

Begin(p, to) ==
  /\ producer[p] = Idle
  /\ rows + Cardinality({q \in Producers : producer[q].pc = "store"}) < MaxEvents
  /\ producer' = [producer EXCEPT ![p] = [pc |-> "store", to |-> to]]
  /\ UNCHANGED <<registered, closed, channel, rows, received, missed, broken, addressed>>

\* The row is inserted; its event is published only then.
Store(p) ==
  /\ producer[p].pc = "store"
  /\ rows' = rows + 1
  /\ producer' = [producer EXCEPT ![p] =
       [pc |-> "snapshot", event |-> [row |-> rows + 1, by |-> p, to |-> producer[p].to]]]
  /\ UNCHANGED <<registered, closed, channel, received, missed, broken, addressed>>

\* Slip: admins get everything.
AudienceAndAdmins(to) ==
  {c \in Conns : c \in AdminConns \/ Owner[c] = to}

\* byUser[to] for Publish, admins for PublishToAdmins.
Audience(to) ==
  IF to = Everyone THEN AdminConns ELSE {c \in Conns : Owner[c] = to}

\* The copy of the subscribers, under the read lock.
Snapshot(p) ==
  LET e == producer[p].event
      audience == registered \cap Audience(e.to)
  IN /\ producer[p].pc = "snapshot"
     /\ producer' = [producer EXCEPT ![p] =
          IF audience = {} THEN Idle
          ELSE [pc |-> "send", event |-> e, left |-> audience]]
     /\ addressed' = addressed \cup (audience \X {e})
     /\ UNCHANGED <<registered, closed, channel, rows, received, missed, broken>>

\* Slip: a full channel ends the loop.
SentOrStopped(p, c) ==
  IF Len(channel[c]) = Capacity \/ producer[p].left = {c} THEN Idle
  ELSE [producer[p] EXCEPT !.left = @ \ {c}]

\* The next turn of the loop over the snapshot.
Sent(p, c) ==
  IF producer[p].left = {c} THEN Idle ELSE [producer[p] EXCEPT !.left = @ \ {c}]

\* Slip: case s.ch <- e without default.
SendBlocking(p, c) ==
  LET e == producer[p].event
  IN /\ c \notin closed /\ Len(channel[c]) < Capacity
     /\ channel' = [channel EXCEPT ![c] = Append(@, e)]
     /\ producer' = [producer EXCEPT ![p] = Sent(p, c)]
     /\ UNCHANGED <<registered, closed, rows, received, missed, broken, addressed>>

\* select { case s.ch <- e: default: } never waits: a full channel loses e, and
\* a closed one makes the producer panic; the middleware or the goroutine's own
\* recover ends its work.
Send(p, c) ==
  LET e == producer[p].event
  IN /\ \/ /\ c \notin closed /\ Len(channel[c]) < Capacity
           /\ channel' = [channel EXCEPT ![c] = Append(@, e)]
           /\ producer' = [producer EXCEPT ![p] = Sent(p, c)]
           /\ UNCHANGED <<missed, broken>>
        \/ /\ c \notin closed /\ Len(channel[c]) = Capacity
           /\ missed' = missed \cup {<<c, e>>}
           /\ producer' = [producer EXCEPT ![p] = Sent(p, c)]
           /\ UNCHANGED <<channel, broken>>
        \/ /\ c \in closed
           /\ broken' = broken \cup {e}
           /\ producer' = [producer EXCEPT ![p] = Idle]
           /\ UNCHANGED <<channel, missed>>
     /\ UNCHANGED <<registered, closed, rows, received, addressed>>

SendNext(p) ==
  /\ producer[p].pc = "send"
  /\ \E c \in producer[p].left : Send(p, c)

ProducerStep(p) == Store(p) \/ Snapshot(p) \/ SendNext(p)

Next ==
  \/ \E c \in Conns : Subscribe(c) \/ Deliver(c) \/ Unsubscribe(c)
  \/ \E p \in Producers :
       \/ \E to \in Users \cup {Everyone} : Begin(p, to)
       \/ ProducerStep(p)

Spec == Init /\ [][Next]_vars

\* A goroutine keeps running.  Clients need not read what they are sent.
FairSpec == Spec /\ \A p \in Producers : WF_vars(ProducerStep(p))

-----------------------------------------------------------------------------
\* What was, or will be, written to a connection, in this order.
Stream(c) == received[c] \o channel[c]

\* An event reaches only connections of the user it is for, or of admins if it
\* is for them, whatever subscribes while it is published.
RightAudience ==
  \A c \in Conns : \A i \in DOMAIN Stream(c) :
    LET e == Stream(c)[i]
    IN IF e.to = Everyone THEN c \in AdminConns ELSE Owner[c] = e.to

\* A connection gets the events of one producer in the order of their rows and
\* each of them once, though some may be missing.
ProducerOrder ==
  \A c \in Conns : \A i, j \in DOMAIN Stream(c) :
    i < j /\ Stream(c)[i].by = Stream(c)[j].by => Stream(c)[i].row < Stream(c)[j].row

\* The producer has still to send the event on the channel.
Pending(c, e) ==
  /\ producer[e.by].pc = "send"
  /\ producer[e.by].event = e
  /\ c \in producer[e.by].left

\* Whoever was in the snapshot of an event gets it, unless its own channel was
\* full, its connection ended, or the closed channel of another one made the
\* producer panic: the fate of one slow client does not decide another's.
NothingLostSilently ==
  \A a \in addressed :
    LET c == a[1]  e == a[2]
    IN \/ c \in closed \/ a \in missed \/ e \in broken \/ Pending(c, e)
       \/ \E i \in DOMAIN Stream(c) : Stream(c)[i] = e

\* "a slow consumer just drops this event rather than stalling the publisher":
\* every publication ends even if no client reads any more.
PublisherNotStalled ==
  \A p \in Producers : producer[p] # Idle ~> producer[p] = Idle

\* "producers should never let a notification failure break the user-visible
\* action": publishing never ends in a panic.
NoPanic == broken = {}
=============================================================================
