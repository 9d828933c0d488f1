------------------------------ MODULE HubProofs ------------------------------
(***************************************************************************)
(* Proofs about Hub, for every number of connections, producers and events *)
(* and every capacity: who gets an event, and in which order.              *)
(***************************************************************************)
EXTENDS Hub, TLAPS

\* What a producer has still to send goes to its audience and was numbered
\* already; a subscriber it has not reached holds earlier rows of it only.
SendingInv ==
  \A p \in Producers :
    /\ producer[p].pc = "snapshot" =>
         /\ producer[p].event.by = p /\ producer[p].event.row <= rows
         /\ \A c \in Conns : \A i \in DOMAIN Stream(c) :
              Stream(c)[i].by = p => Stream(c)[i].row < producer[p].event.row
    /\ producer[p].pc = "send" =>
         /\ producer[p].event.by = p /\ producer[p].event.row <= rows
         /\ producer[p].left \subseteq Audience(producer[p].event.to)
         /\ \A c \in producer[p].left : \A i \in DOMAIN Stream(c) :
              Stream(c)[i].by = p => Stream(c)[i].row < producer[p].event.row

\* No event in a stream has a number not given out yet.
NumberedInv == \A c \in Conns : \A i \in DOMAIN Stream(c) : Stream(c)[i].row <= rows

HubInv ==
  /\ TypeOK
  /\ SendingInv
  /\ NumberedInv
  /\ RightAudience
  /\ ProducerOrder

-----------------------------------------------------------------------------
(* Sequences.                                                              *)

\* Moving the head of the second sequence to the end of the first changes
\* nothing in their concatenation.
LEMMA MovedHead ==
  ASSUME NEW S, NEW s \in Seq(S), NEW t \in Seq(S), t # <<>>
  PROVE  Append(s, Head(t)) \o Tail(t) = s \o t
<1> DEFINE a == Append(s, Head(t)) \o Tail(t)
           b == s \o t
<1>1. Head(t) \in S /\ Tail(t) \in Seq(S) /\ Len(Tail(t)) = Len(t) - 1 /\ Len(t) \in Nat \ {0}
  OBVIOUS
<1>2. Append(s, Head(t)) \in Seq(S) /\ Len(Append(s, Head(t))) = Len(s) + 1 /\ Len(s) \in Nat
  BY <1>1
<1>3. a \in Seq(S) /\ b \in Seq(S) /\ Len(a) = Len(b) /\ Len(b) = Len(s) + Len(t)
  BY <1>1, <1>2
<1>4. ASSUME NEW i \in 1..Len(b) PROVE a[i] = b[i]
  <2>1. CASE i <= Len(s)
    BY <2>1, <1>1, <1>2, <1>3
  <2>2. CASE i = Len(s) + 1
    BY <2>2, <1>1, <1>2, <1>3
  <2>3. CASE i > Len(s) + 1
    BY <2>3, <1>1, <1>2, <1>3
  <2> QED
    BY <2>1, <2>2, <2>3, <1>2, <1>3
<1>5. a = b
  <2> HIDE DEF a, b
  <2> QED
    BY <1>3, <1>4
<1> QED
  BY <1>5

LEMMA AppendedLast ==
  ASSUME NEW S, NEW s \in Seq(S), NEW t \in Seq(S), NEW e \in S
  PROVE  s \o Append(t, e) = Append(s \o t, e)
<1> DEFINE a == s \o Append(t, e)
           b == Append(s \o t, e)
<1>1. Append(t, e) \in Seq(S) /\ Len(Append(t, e)) = Len(t) + 1 /\ Len(t) \in Nat /\ Len(s) \in Nat
  OBVIOUS
<1>2. s \o t \in Seq(S) /\ Len(s \o t) = Len(s) + Len(t)
  OBVIOUS
<1>3. a \in Seq(S) /\ b \in Seq(S) /\ Len(a) = Len(b) /\ Len(b) = Len(s) + Len(t) + 1
  BY <1>1, <1>2
<1>4. ASSUME NEW i \in 1..Len(b) PROVE a[i] = b[i]
  <2>1. CASE i <= Len(s)
    BY <2>1, <1>1, <1>2, <1>3
  <2>2. CASE i > Len(s) /\ i <= Len(s) + Len(t)
    BY <2>2, <1>1, <1>2, <1>3
  <2>3. CASE i = Len(s) + Len(t) + 1
    BY <2>3, <1>1, <1>2, <1>3
  <2> QED
    BY <2>1, <2>2, <2>3, <1>1, <1>3
<1>5. a = b
  <2> HIDE DEF a, b
  <2> QED
    BY <1>3, <1>4
<1> QED
  BY <1>5

\* A first sequence is the beginning of a concatenation.
LEMMA FirstPart ==
  ASSUME NEW S, NEW s \in Seq(S), NEW t \in Seq(S)
  PROVE  /\ s \o <<>> = s
         /\ Len(s) \in 0..Len(s \o t)
         /\ \A i \in 1..Len(s) : (s \o t)[i] = s[i]
<1>1. s \o <<>> \in Seq(S) /\ Len(s \o <<>>) = Len(s) /\ \A i \in 1..Len(s) : (s \o <<>>)[i] = s[i]
  OBVIOUS
<1>2. s \o <<>> = s
  BY <1>1
<1> QED
  BY <1>2

-----------------------------------------------------------------------------
(* How a step changes the streams.                                         *)

\* The first n events of the stream before.
Cut(c, n) == Len(Stream(c)') = n /\ \A i \in 1..n : Stream(c)'[i] = Stream(c)[i]

LEMMA StreamType ==
  ASSUME TypeOK, NEW c \in Conns
  PROVE  /\ Stream(c) \in Seq(Event)
         /\ Len(Stream(c)) = Len(received[c]) + Len(channel[c])
         /\ DOMAIN Stream(c) = 1..(Len(received[c]) + Len(channel[c]))
BY DEF TypeOK, Stream

\* A step that sends nothing leaves each stream, or a beginning of it.
Shortened(c) == \E n \in 0..Len(Stream(c)) : Cut(c, n)

LEMMA SameStream ==
  ASSUME TypeOK, NEW c \in Conns, received' = received, channel' = channel
  PROVE  Shortened(c)
<1>1. Stream(c)' = Stream(c)
  BY DEF Stream
<1>2. Len(Stream(c)) \in Nat
  BY StreamType
<1> QED
  BY <1>1, <1>2 DEF Shortened, Cut

LEMMA DeliverStream ==
  ASSUME TypeOK, NEW c \in Conns, NEW d \in Conns, Deliver(d)
  PROVE  Shortened(c)
<1>1. CASE c = d
  <2>1. received[c] \in Seq(Event) /\ channel[c] \in Seq(Event) /\ channel[c] # <<>>
    BY <1>1 DEF Deliver, TypeOK
  <2>2. received'[c] = Append(received[c], Head(channel[c])) /\ channel'[c] = Tail(channel[c])
    BY <1>1 DEF Deliver, TypeOK
  <2>3. Stream(c)' = Stream(c)
    BY <2>1, <2>2, MovedHead DEF Stream
  <2>4. Len(Stream(c)) \in Nat
    BY StreamType
  <2> QED
    BY <2>3, <2>4 DEF Shortened, Cut
<1>2. CASE c # d
  <2>1. received'[c] = received[c] /\ channel'[c] = channel[c]
    BY <1>2 DEF Deliver, TypeOK
  <2>2. Stream(c)' = Stream(c)
    BY <2>1 DEF Stream
  <2>3. Len(Stream(c)) \in Nat
    BY StreamType
  <2> QED
    BY <2>2, <2>3 DEF Shortened, Cut
<1> QED
  BY <1>1, <1>2

LEMMA UnsubscribeStream ==
  ASSUME TypeOK, NEW c \in Conns, NEW d \in Conns, Unsubscribe(d)
  PROVE  Shortened(c)
<1>1. CASE c = d
  <2>1. received[c] \in Seq(Event) /\ channel[c] \in Seq(Event)
    BY DEF TypeOK
  <2>2. received'[c] = received[c] /\ channel'[c] = <<>>
    BY <1>1 DEF Unsubscribe, TypeOK
  <2>3. /\ Len(received[c]) \in 0..Len(Stream(c))
        /\ Stream(c)' = received[c]
        /\ \A i \in 1..Len(received[c]) : received[c][i] = Stream(c)[i]
    BY <2>1, <2>2, FirstPart DEF Stream
  <2> QED
    BY <2>3 DEF Shortened, Cut
<1>2. CASE c # d
  <2>1. received'[c] = received[c] /\ channel'[c] = channel[c]
    BY <1>2 DEF Unsubscribe, TypeOK
  <2>2. Stream(c)' = Stream(c)
    BY <2>1 DEF Stream
  <2>3. Len(Stream(c)) \in Nat
    BY StreamType
  <2> QED
    BY <2>2, <2>3 DEF Shortened, Cut
<1> QED
  BY <1>1, <1>2

\* One turn of a producer's loop that ends in a channel.
SentTo(p, c) ==
  /\ producer[p].pc = "send" /\ c \in producer[p].left
  /\ Stream(c)' = Append(Stream(c), producer[p].event)
  /\ \A d \in Conns : d # c => Stream(d)' = Stream(d)

LEMMA SendStream ==
  ASSUME TypeOK, NEW p \in Producers, SendNext(p)
  PROVE  \/ \A c \in Conns : Stream(c)' = Stream(c)
         \/ \E c \in Conns : SentTo(p, c)
<1>1. producer[p] \in Sending
  BY DEF TypeOK, SendNext, Idle, Storing, Publishing, Sending
<1>2. PICK c \in producer[p].left : Send(p, c)
  BY DEF SendNext
<1>3. c \in Conns /\ producer[p].event \in Event
  BY <1>1 DEF Sending
<1>4. CASE channel' = channel
  BY <1>2, <1>4 DEF Send, Stream
<1>5. CASE channel' = [channel EXCEPT ![c] = Append(@, producer[p].event)]
  <2>1. received' = received /\ producer[p].pc = "send"
    BY <1>2 DEF Send, SendNext
  <2>2. received[c] \in Seq(Event) /\ channel[c] \in Seq(Event)
    BY <1>3 DEF TypeOK
  <2>3. Stream(c)' = received[c] \o Append(channel[c], producer[p].event)
    BY <2>1, <1>3, <1>5 DEF Stream, TypeOK
  <2>4. Stream(c)' = Append(Stream(c), producer[p].event)
    <3> DEFINE s == received[c]
               t == channel[c]
               e == producer[p].event
    <3>1. s \o Append(t, e) = Append(s \o t, e)
      <4>1. s \in Seq(Event) /\ t \in Seq(Event) /\ e \in Event
        BY <2>2, <1>3
      <4> HIDE DEF s, t, e
      <4> QED
        BY <4>1, AppendedLast
    <3> QED
      BY <2>3, <3>1 DEF Stream
  <2>5. \A d \in Conns : d # c => Stream(d)' = Stream(d)
    BY <2>1, <1>5 DEF Stream, TypeOK
  <2> QED
    BY <2>1, <2>4, <2>5, <1>2, <1>3 DEF SentTo
<1> QED
  BY <1>2, <1>4, <1>5 DEF Send

LEMMA StreamStep ==
  ASSUME TypeOK, [Next]_vars
  PROVE  \/ \A c \in Conns : Shortened(c)
         \/ \E p \in Producers, c \in Conns : SendNext(p) /\ SentTo(p, c)
<1>1. ASSUME NEW c \in Conns, Subscribe(c) PROVE \A d \in Conns : Shortened(d)
  BY <1>1, SameStream DEF Subscribe
<1>2. ASSUME NEW c \in Conns, Deliver(c) PROVE \A d \in Conns : Shortened(d)
  BY <1>2, DeliverStream
<1>3. ASSUME NEW c \in Conns, Unsubscribe(c) PROVE \A d \in Conns : Shortened(d)
  BY <1>3, UnsubscribeStream
<1>4. ASSUME NEW p \in Producers, NEW to \in Users \cup {Everyone}, Begin(p, to)
      PROVE  \A d \in Conns : Shortened(d)
  BY <1>4, SameStream DEF Begin
<1>5. ASSUME NEW p \in Producers, Store(p) PROVE \A d \in Conns : Shortened(d)
  BY <1>5, SameStream DEF Store
<1>6. ASSUME NEW p \in Producers, Snapshot(p) PROVE \A d \in Conns : Shortened(d)
  BY <1>6, SameStream DEF Snapshot
<1>7. ASSUME NEW p \in Producers, SendNext(p)
      PROVE  \/ \A d \in Conns : Shortened(d)
             \/ \E c \in Conns : SentTo(p, c)
  <2>1. ASSUME NEW d \in Conns, Stream(d)' = Stream(d) PROVE Shortened(d)
    BY <2>1, StreamType DEF Shortened, Cut
  <2> QED
    BY <2>1, <1>7, SendStream
<1>8. ASSUME UNCHANGED vars PROVE \A d \in Conns : Shortened(d)
  BY <1>8, SameStream DEF vars
<1> QED
  BY <1>1, <1>2, <1>3, <1>4, <1>5, <1>6, <1>7, <1>8 DEF Next, ProducerStep

-----------------------------------------------------------------------------
(* Each part of the invariant.                                             *)

LEMMA TypeStep == TypeOK /\ [Next]_vars => TypeOK'
<1> SUFFICES ASSUME TypeOK, [Next]_vars PROVE TypeOK'
  OBVIOUS
<1> USE HubAssumption
<1>1. ASSUME NEW c \in Conns, Subscribe(c) PROVE TypeOK'
  BY <1>1 DEF Subscribe, TypeOK
<1>2. ASSUME NEW c \in Conns, Deliver(c) PROVE TypeOK'
  <2>1. Head(channel[c]) \in Event /\ Tail(channel[c]) \in Seq(Event)
        /\ Len(Tail(channel[c])) <= Capacity
    BY <1>2 DEF Deliver, TypeOK
  <2>2. Append(received[c], Head(channel[c])) \in Seq(Event)
    BY <2>1 DEF TypeOK
  <2> QED
    BY <1>2, <2>1, <2>2 DEF Deliver, TypeOK
<1>3. ASSUME NEW c \in Conns, Unsubscribe(c) PROVE TypeOK'
  <2>1. <<>> \in Seq(Event) /\ Len(<<>>) = 0
    OBVIOUS
  <2> QED
    BY <1>3, <2>1 DEF Unsubscribe, TypeOK
<1>4. ASSUME NEW p \in Producers, NEW to \in Users \cup {Everyone}, Begin(p, to) PROVE TypeOK'
  <2>1. [pc |-> "store", to |-> to] \in Storing
    BY DEF Storing
  <2> QED
    BY <1>4, <2>1 DEF Begin, TypeOK
<1>5. ASSUME NEW p \in Producers, Store(p) PROVE TypeOK'
  <2>1. producer[p] \in Storing
    BY <1>5 DEF Store, TypeOK, Idle, Publishing, Sending, Storing
  <2>2. [pc |-> "snapshot", event |-> [row |-> rows + 1, by |-> p, to |-> producer[p].to]]
          \in Publishing
    BY <2>1 DEF Storing, Publishing, Event, TypeOK
  <2> QED
    BY <1>5, <2>2 DEF Store, TypeOK
<1>6. ASSUME NEW p \in Producers, Snapshot(p) PROVE TypeOK'
  <2>1. producer[p] \in Publishing
    BY <1>6 DEF Snapshot, TypeOK, Idle, Publishing, Sending, Storing
  <2>2. registered \cap Audience(producer[p].event.to) \in SUBSET Conns
    BY DEF TypeOK
  <2>3. [pc |-> "send", event |-> producer[p].event,
         left |-> registered \cap Audience(producer[p].event.to)] \in Sending
    BY <2>1, <2>2 DEF Publishing, Sending
  <2>4. producer' \in [Producers -> {Idle} \cup Storing \cup Publishing \cup Sending]
    BY <1>6, <2>3 DEF Snapshot, TypeOK
  <2>5. addressed' \subseteq Conns \X Event
    BY <1>6, <2>1, <2>2 DEF Snapshot, TypeOK, Publishing
  <2> QED
    BY <1>6, <2>4, <2>5 DEF Snapshot, TypeOK
<1>7. ASSUME NEW p \in Producers, SendNext(p) PROVE TypeOK'
  <2>1. producer[p] \in Sending
    BY <1>7 DEF SendNext, TypeOK, Idle, Publishing, Sending, Storing
  <2>2. PICK c \in producer[p].left : Send(p, c)
    BY <1>7 DEF SendNext
  <2>3. c \in Conns /\ producer[p].event \in Event
    BY <2>1 DEF Sending
  <2>4. Sent(p, c) \in {Idle} \cup Sending
    BY <2>1 DEF Sent, Sending
  <2>5. producer' \in [Producers -> {Idle} \cup Storing \cup Publishing \cup Sending]
    BY <2>2, <2>4 DEF Send, TypeOK
  <2>6. channel' \in [Conns -> Seq(Event)] /\ \A d \in Conns : Len(channel'[d]) <= Capacity
    <3>1. CASE channel' = channel
      BY <3>1 DEF TypeOK
    <3>2. CASE Len(channel[c]) < Capacity /\ channel' = [channel EXCEPT ![c] = Append(@, producer[p].event)]
      <4>1. channel[c] \in Seq(Event)
        BY <2>3 DEF TypeOK
      <4>2. /\ Append(channel[c], producer[p].event) \in Seq(Event)
            /\ Len(Append(channel[c], producer[p].event)) <= Capacity
        BY <4>1, <2>3, <3>2
      <4> QED
        BY <3>2, <4>2 DEF TypeOK
    <3> QED
      BY <2>2, <3>1, <3>2 DEF Send
  <2>7. missed' \subseteq Conns \X Event /\ broken' \subseteq Event
    BY <2>2, <2>3 DEF Send, TypeOK
  <2> QED
    BY <2>2, <2>5, <2>6, <2>7 DEF Send, TypeOK
<1>8. ASSUME UNCHANGED vars PROVE TypeOK'
  BY <1>8 DEF vars, TypeOK
<1> QED
  BY <1>1, <1>2, <1>3, <1>4, <1>5, <1>6, <1>7, <1>8 DEF Next, ProducerStep

\* What holds of every event of every stream still does where streams are cut.
LEMMA CutKeeps ==
  ASSUME TypeOK, TypeOK', NEW c \in Conns, Shortened(c), NEW i \in DOMAIN Stream(c)'
  PROVE  i \in DOMAIN Stream(c) /\ Stream(c)'[i] = Stream(c)[i]
<1>1. PICK n \in 0..Len(Stream(c)) : Cut(c, n)
  BY DEF Shortened
<1>2. Len(Stream(c)) \in Nat /\ DOMAIN Stream(c) = 1..Len(Stream(c))
  BY StreamType
<1>3. DOMAIN Stream(c)' = 1..Len(Stream(c)')
  BY DEF TypeOK, Stream
<1>4. i \in 1..n
  BY <1>1, <1>3 DEF Cut
<1> QED
  BY <1>1, <1>2, <1>4 DEF Cut

LEMMA SentKeeps ==
  ASSUME TypeOK, NEW p \in Producers, NEW c \in Conns, SentTo(p, c),
         producer[p].event \in Event, NEW d \in Conns, NEW i \in DOMAIN Stream(d)'
  PROVE  \/ i \in DOMAIN Stream(d) /\ Stream(d)'[i] = Stream(d)[i]
         \/ /\ d = c /\ i = Len(Stream(c)) + 1
            /\ Stream(d)'[i] = producer[p].event
<1>1. CASE d # c
  BY <1>1 DEF SentTo
<1>2. CASE d = c
  <2> DEFINE s == Stream(c)
             e == producer[p].event
             t == Append(s, e)
  <2>1. s \in Seq(Event) /\ e \in Event
    BY StreamType
  <2>2. ASSUME NEW j \in DOMAIN t
        PROVE  (j \in DOMAIN s /\ t[j] = s[j]) \/ (j = Len(s) + 1 /\ t[j] = e)
    <3> HIDE DEF s, e
    <3> QED
      BY <2>1
  <2>3. Stream(d)' = t
    BY <1>2 DEF SentTo
  <2> QED
    BY <1>2, <2>2, <2>3
<1> QED
  BY <1>1, <1>2

LEMMA EventOf ==
  ASSUME TypeOK, NEW p \in Producers, SendNext(p)
  PROVE  producer[p] \in Sending /\ producer[p].event \in Event
BY DEF TypeOK, SendNext, Idle, Storing, Publishing, Sending

LEMMA SendMoves ==
  ASSUME TypeOK, NEW p \in Producers, SendNext(p)
  PROVE  producer'[p] # producer[p]
<1>1. producer[p] \in Sending
  BY EventOf
<1>2. PICK c \in producer[p].left : Send(p, c)
  BY DEF SendNext
<1>3. producer'[p] = Idle \/ producer'[p] = Sent(p, c)
  BY <1>2 DEF Send, TypeOK
<1>4. Idle # producer[p]
  BY <1>1 DEF Idle, Sending
<1>5. Sent(p, c) # producer[p]
  <2>1. [producer[p] EXCEPT !.left = @ \ {c}].left = producer[p].left \ {c}
    BY <1>1 DEF Sending
  <2> QED
    BY <2>1, <1>2, <1>4 DEF Sent
<1> QED
  BY <1>3, <1>4, <1>5

LEMMA RightAudienceStep ==
  ASSUME HubInv, TypeOK', [Next]_vars
  PROVE  RightAudience'
<1>1. SUFFICES ASSUME NEW d \in Conns, NEW i \in DOMAIN Stream(d)'
               PROVE  LET e == Stream(d)'[i]
                      IN  IF e.to = Everyone THEN d \in AdminConns ELSE Owner[d] = e.to
  BY DEF RightAudience
<1>2. CASE \A c \in Conns : Shortened(c)
  <2>1. i \in DOMAIN Stream(d) /\ Stream(d)'[i] = Stream(d)[i]
    BY <1>2, CutKeeps DEF HubInv
  <2> QED
    BY <2>1 DEF HubInv, RightAudience
<1>3. ASSUME NEW p \in Producers, NEW c \in Conns, SendNext(p), SentTo(p, c)
      PROVE  LET e == Stream(d)'[i]
             IN  IF e.to = Everyone THEN d \in AdminConns ELSE Owner[d] = e.to
  <2>1. CASE i \in DOMAIN Stream(d) /\ Stream(d)'[i] = Stream(d)[i]
    BY <2>1 DEF HubInv, RightAudience
  <2>2. CASE d = c /\ Stream(d)'[i] = producer[p].event
    <3>1. c \in Audience(producer[p].event.to)
      BY <1>3 DEF SentTo, HubInv, SendingInv
    <3> QED
      BY <2>2, <3>1 DEF Audience
  <2> QED
    BY <1>3, <2>1, <2>2, SentKeeps, EventOf DEF HubInv
<1> QED
  BY <1>2, <1>3, StreamStep DEF HubInv

LEMMA ProducerOrderStep ==
  ASSUME HubInv, TypeOK', [Next]_vars
  PROVE  ProducerOrder'
<1>1. SUFFICES ASSUME NEW d \in Conns, NEW i \in DOMAIN Stream(d)', NEW j \in DOMAIN Stream(d)',
                      i < j, Stream(d)'[i].by = Stream(d)'[j].by
               PROVE  Stream(d)'[i].row < Stream(d)'[j].row
  BY DEF ProducerOrder
<1>2. CASE \A c \in Conns : Shortened(c)
  <2>1. /\ i \in DOMAIN Stream(d) /\ Stream(d)'[i] = Stream(d)[i]
        /\ j \in DOMAIN Stream(d) /\ Stream(d)'[j] = Stream(d)[j]
    BY <1>2, CutKeeps DEF HubInv
  <2> QED
    BY <1>1, <2>1 DEF HubInv, ProducerOrder
<1>3. ASSUME NEW p \in Producers, NEW c \in Conns, SendNext(p), SentTo(p, c)
      PROVE  Stream(d)'[i].row < Stream(d)'[j].row
  <2>1. \A k \in DOMAIN Stream(d)' :
          \/ k \in DOMAIN Stream(d) /\ Stream(d)'[k] = Stream(d)[k]
          \/ d = c /\ k = Len(Stream(c)) + 1 /\ Stream(d)'[k] = producer[p].event
    BY <1>3, SentKeeps, EventOf DEF HubInv
  <2>2. DOMAIN Stream(d) = 1..Len(Stream(d)) /\ Len(Stream(d)) \in Nat
    BY StreamType DEF HubInv
  <2>3. CASE j \in DOMAIN Stream(d) /\ Stream(d)'[j] = Stream(d)[j]
    <3>1. i \in DOMAIN Stream(d) /\ Stream(d)'[i] = Stream(d)[i]
      BY <1>1, <2>1, <2>2, <2>3
    <3> QED
      BY <1>1, <2>3, <3>1 DEF HubInv, ProducerOrder
  <2>4. CASE d = c /\ j = Len(Stream(c)) + 1 /\ Stream(d)'[j] = producer[p].event
    <3>1. i \in DOMAIN Stream(c) /\ Stream(c)'[i] = Stream(c)[i]
      BY <1>1, <2>1, <2>2, <2>4
    <3>2. Stream(c)[i].by = p => Stream(c)[i].row < producer[p].event.row
      BY <1>3, <3>1 DEF SentTo, HubInv, SendingInv
    <3>3. producer[p].event.by = p
      BY <1>3 DEF SentTo, HubInv, SendingInv
    <3> QED
      BY <1>1, <2>4, <3>1, <3>2, <3>3
  <2> QED
    BY <2>1, <2>3, <2>4
<1> QED
  BY <1>2, <1>3, StreamStep DEF HubInv

LEMMA NumberedStep ==
  ASSUME HubInv, TypeOK', [Next]_vars
  PROVE  NumberedInv'
<1>1. rows \in Nat /\ rows' \in Nat /\ rows <= rows'
  <2>1. rows' = rows \/ rows' = rows + 1
    BY DEF Next, Subscribe, Deliver, Unsubscribe, Begin, ProducerStep, Store, Snapshot,
           SendNext, Send, vars
  <2> QED
    BY <2>1 DEF HubInv, TypeOK
<1>2. SUFFICES ASSUME NEW d \in Conns, NEW i \in DOMAIN Stream(d)'
               PROVE  Stream(d)'[i].row <= rows'
  BY DEF NumberedInv
<1>3. CASE i \in DOMAIN Stream(d) /\ Stream(d)'[i] = Stream(d)[i]
  <2>1. Stream(d) \in Seq(Event)
    BY StreamType DEF HubInv
  <2>2. Stream(d)[i] \in Event
    BY <1>3, <2>1
  <2>3. Stream(d)[i].row <= rows
    BY <1>3 DEF HubInv, NumberedInv
  <2> QED
    BY <1>1, <1>3, <2>2, <2>3 DEF Event
<1>4. ASSUME NEW p \in Producers, SendNext(p), Stream(d)'[i] = producer[p].event
      PROVE  Stream(d)'[i].row <= rows'
  <2>1. producer[p].event.row <= rows
    BY <1>4 DEF SendNext, HubInv, SendingInv
  <2>2. producer[p].event.row \in Nat
    BY <1>4, EventOf DEF HubInv, Event
  <2> QED
    BY <1>1, <1>4, <2>1, <2>2
<1> QED
  BY <1>3, <1>4, StreamStep, CutKeeps, SentKeeps, EventOf DEF HubInv

\* What SendingInv says of one producer.
Prepared(p) ==
  /\ producer[p].pc = "snapshot" =>
       /\ producer[p].event.by = p /\ producer[p].event.row <= rows
       /\ \A c \in Conns : \A i \in DOMAIN Stream(c) :
            Stream(c)[i].by = p => Stream(c)[i].row < producer[p].event.row
  /\ producer[p].pc = "send" =>
       /\ producer[p].event.by = p /\ producer[p].event.row <= rows
       /\ producer[p].left \subseteq Audience(producer[p].event.to)
       /\ \A c \in producer[p].left : \A i \in DOMAIN Stream(c) :
            Stream(c)[i].by = p => Stream(c)[i].row < producer[p].event.row

\* A producer that does not move stays prepared while streams are cut and rows
\* are added, and while another one sends.
LEMMA StaysPrepared ==
  ASSUME HubInv, TypeOK', [Next]_vars, NEW p \in Producers, Prepared(p),
         producer'[p] = producer[p]
  PROVE  Prepared(p)'
<1>1. rows \in Nat /\ rows' \in Nat /\ rows <= rows'
  <2>1. rows' = rows \/ rows' = rows + 1
    BY DEF Next, Subscribe, Deliver, Unsubscribe, Begin, ProducerStep, Store, Snapshot,
           SendNext, Send, vars
  <2> QED
    BY <2>1 DEF HubInv, TypeOK
<1>2. producer[p].pc \in {"snapshot", "send"} => producer[p].event.row \in Nat
  BY DEF HubInv, TypeOK, Idle, Storing, Publishing, Sending, Event
<1>3. ASSUME NEW d \in Conns, NEW i \in DOMAIN Stream(d)', Stream(d)'[i].by = p
      PROVE  i \in DOMAIN Stream(d) /\ Stream(d)'[i] = Stream(d)[i]
  <2>1. CASE \A c \in Conns : Shortened(c)
    BY <2>1, CutKeeps DEF HubInv
  <2>2. ASSUME NEW q \in Producers, NEW c \in Conns, SendNext(q), SentTo(q, c)
        PROVE  i \in DOMAIN Stream(d) /\ Stream(d)'[i] = Stream(d)[i]
    <3>1. producer[q].event.by = q /\ q # p
      BY <2>2, SendMoves DEF SentTo, HubInv, SendingInv
    <3> QED
      BY <2>2, <3>1, <1>3, SentKeeps, EventOf DEF HubInv
  <2> QED
    BY <2>1, <2>2, StreamStep DEF HubInv
<1>4. CASE producer[p].pc = "snapshot"
  <2>1. \A d \in Conns : \A i \in DOMAIN Stream(d)' :
          Stream(d)'[i].by = p => Stream(d)'[i].row < producer[p].event.row
    BY <1>3, <1>4 DEF Prepared
  <2>2. producer[p].event.by = p /\ producer[p].event.row <= rows'
    BY <1>1, <1>2, <1>4 DEF Prepared
  <2> QED
    BY <1>4, <2>1, <2>2 DEF Prepared
<1>5. CASE producer[p].pc = "send"
  <2>1. producer[p].left \subseteq Conns
    <3>1. producer[p] \in {Idle} \cup Storing \cup Publishing \cup Sending
      BY DEF HubInv, TypeOK
    <3>2. producer[p] \in Sending
      BY <1>5, <3>1 DEF Idle, Storing, Publishing
    <3> QED
      BY <3>2 DEF Sending
  <2>2. \A d \in producer[p].left : \A i \in DOMAIN Stream(d)' :
          Stream(d)'[i].by = p => Stream(d)'[i].row < producer[p].event.row
    BY <1>3, <1>5, <2>1 DEF Prepared
  <2>3. producer[p].event.by = p /\ producer[p].event.row <= rows'
    BY <1>1, <1>2, <1>5 DEF Prepared
  <2>4. producer[p].left \subseteq Audience(producer[p].event.to)
    BY <1>5 DEF Prepared
  <2> QED
    BY <1>5, <2>2, <2>3, <2>4 DEF Prepared, Audience
<1>6. CASE producer[p].pc \notin {"snapshot", "send"}
  BY <1>6 DEF Prepared
<1> QED
  BY <1>4, <1>5, <1>6

LEMMA SendingStep ==
  ASSUME HubInv, TypeOK', [Next]_vars
  PROVE  SendingInv'
<1>1. \A p \in Producers : Prepared(p)
  BY DEF HubInv, SendingInv, Prepared
<1>2. SUFFICES ASSUME NEW q \in Producers PROVE Prepared(q)'
  BY DEF SendingInv, Prepared
<1>3. CASE producer'[q] = producer[q]
  BY <1>1, <1>3, StaysPrepared
<1>4. ASSUME NEW p \in Producers, NEW to \in Users \cup {Everyone}, Begin(p, to), p = q
      PROVE  Prepared(q)'
  BY <1>4 DEF Begin, Prepared, HubInv, TypeOK
<1>5. ASSUME Store(q) PROVE Prepared(q)'
  <2>1. producer'[q].pc = "snapshot" /\ producer'[q].event.by = q
        /\ producer'[q].event.row = rows + 1 /\ rows' = rows + 1 /\ rows \in Nat
    BY <1>5 DEF Store, HubInv, TypeOK
  <2>2. ASSUME NEW d \in Conns, NEW i \in DOMAIN Stream(d)'
        PROVE  Stream(d)'[i].row < rows + 1
    <3>1. Stream(d)' = Stream(d)
      BY <1>5 DEF Store, Stream
    <3>2. Stream(d) \in Seq(Event)
      BY StreamType DEF HubInv
    <3>3. Stream(d)[i] \in Event
      BY <3>1, <3>2
    <3>4. Stream(d)[i].row <= rows
      BY <3>1 DEF HubInv, NumberedInv
    <3> QED
      BY <2>1, <3>1, <3>3, <3>4 DEF Event
  <2> QED
    BY <2>1, <2>2 DEF Prepared
<1>6. ASSUME Snapshot(q) PROVE Prepared(q)'
  <2> DEFINE e == producer[q].event
             audience == registered \cap Audience(e.to)
  <2>1. \A c \in Conns : Stream(c)' = Stream(c)
    BY <1>6 DEF Snapshot, Stream
  <2>2. /\ e.by = q /\ e.row <= rows /\ rows' = rows
        /\ \A c \in Conns : \A i \in DOMAIN Stream(c) :
             Stream(c)[i].by = q => Stream(c)[i].row < e.row
    BY <1>1, <1>6 DEF Snapshot, Prepared
  <2>3. CASE producer'[q] = Idle
    BY <2>3 DEF Prepared, Idle
  <2>4. CASE producer'[q] = [pc |-> "send", event |-> e, left |-> audience]
    <3>1. audience \subseteq Conns /\ audience \subseteq Audience(e.to)
      BY DEF HubInv, TypeOK
    <3>2. /\ producer'[q].pc = "send" /\ producer'[q].event = e
          /\ producer'[q].left = audience
      BY <2>4
    <3> HIDE DEF e, audience
    <3> QED
      BY <2>1, <2>2, <3>1, <3>2 DEF Prepared, Audience
  <2> QED
    BY <1>6, <2>3, <2>4 DEF Snapshot, HubInv, TypeOK
<1>7. ASSUME SendNext(q) PROVE Prepared(q)'
  <2> DEFINE e == producer[q].event
             left == producer[q].left
  <2>1. PICK c \in left : Send(q, c)
    BY <1>7 DEF SendNext
  <2>2. producer[q] \in Sending /\ left \subseteq Conns
    BY <1>7, EventOf DEF HubInv, Sending
  <2>3. CASE producer'[q] = Idle
    BY <2>3 DEF Prepared, Idle
  <2>4. CASE producer'[q] = [producer[q] EXCEPT !.left = @ \ {c}]
    <3>1. /\ producer'[q].pc = "send" /\ producer'[q].event = e
          /\ producer'[q].left = left \ {c}
      BY <2>2, <2>4 DEF Sending
    <3>2. \A d \in left \ {c} : Stream(d)' = Stream(d)
      BY <2>1, <2>2 DEF Send, Stream, HubInv, TypeOK
    <3>3. /\ e.by = q /\ e.row <= rows /\ rows' = rows /\ left \subseteq Audience(e.to)
          /\ \A d \in left : \A i \in DOMAIN Stream(d) :
               Stream(d)[i].by = q => Stream(d)[i].row < e.row
      BY <1>1, <1>7, <2>1 DEF SendNext, Send, Prepared
    <3> HIDE DEF e, left
    <3> QED
      BY <3>1, <3>2, <3>3 DEF Prepared, Audience
  <2> QED
    BY <2>1, <2>3, <2>4 DEF Send, Sent, HubInv, TypeOK
<1>8. CASE UNCHANGED vars
  BY <1>3, <1>8 DEF vars
<1>9. ASSUME NEW c \in Conns, Subscribe(c) \/ Deliver(c) \/ Unsubscribe(c)
      PROVE  Prepared(q)'
  BY <1>3, <1>9 DEF Subscribe, Deliver, Unsubscribe
<1>10. ASSUME NEW p \in Producers, p # q, ProducerStep(p) \/ \E to \in Users \cup {Everyone} : Begin(p, to)
       PROVE  Prepared(q)'
  BY <1>3, <1>10 DEF ProducerStep, Store, Snapshot, SendNext, Send, Begin, HubInv, TypeOK
<1> QED
  BY <1>4, <1>5, <1>6, <1>7, <1>8, <1>9, <1>10 DEF Next, ProducerStep

-----------------------------------------------------------------------------
(* What becomes of an event for those in its snapshot.                     *)

Has(c, e) == \E i \in DOMAIN Stream(c) : Stream(c)[i] = e

Fate(c, e) ==
  c \in closed \/ <<c, e>> \in missed \/ e \in broken \/ Pending(c, e) \/ Has(c, e)

LEMMA FatesAre ==
  ASSUME TypeOK
  PROVE  NothingLostSilently <=> \A a \in addressed : Fate(a[1], a[2])
<1>1. \A a \in addressed : a = <<a[1], a[2]>>
  BY DEF TypeOK
<1> QED
  BY <1>1 DEF NothingLostSilently, Fate, Has

\* What a connection was sent stays in its stream until it ends.
LEMMA HasStays ==
  ASSUME TypeOK, [Next]_vars, NEW c \in Conns, NEW e \in Event, Has(c, e)
  PROVE  c \in closed' \/ Has(c, e)'
<1>1. Stream(c)' = Stream(c) => Has(c, e)'
  BY DEF Has
<1>2. ASSUME NEW d \in Conns, Deliver(d) PROVE Stream(c)' = Stream(c)
  <2>1. CASE c = d
    <3>1. received[c] \in Seq(Event) /\ channel[c] \in Seq(Event) /\ channel[c] # <<>>
      BY <1>2, <2>1 DEF Deliver, TypeOK
    <3>2. received'[c] = Append(received[c], Head(channel[c])) /\ channel'[c] = Tail(channel[c])
      BY <1>2, <2>1 DEF Deliver, TypeOK
    <3> QED
      BY <3>1, <3>2, MovedHead DEF Stream
  <2>2. CASE c # d
    BY <1>2, <2>2 DEF Deliver, TypeOK, Stream
  <2> QED
    BY <2>1, <2>2
<1>3. ASSUME NEW d \in Conns, Unsubscribe(d) PROVE c \in closed' \/ Stream(c)' = Stream(c)
  BY <1>3 DEF Unsubscribe, TypeOK, Stream
<1>4. ASSUME NEW p \in Producers, SendNext(p) PROVE Has(c, e)'
  <2>1. CASE \E d \in Conns : SentTo(p, d)
    <3>1. PICK d \in Conns : SentTo(p, d)
      BY <2>1
    <3>2. CASE d = c
      <4>1. Stream(c)' = Append(Stream(c), producer[p].event) /\ producer[p].event \in Event
        BY <1>4, <3>1, <3>2, EventOf DEF SentTo
      <4>2. Stream(c) \in Seq(Event)
        BY StreamType
      <4> QED
        BY <4>1, <4>2 DEF Has
    <3>3. CASE d # c
      <4>1. Stream(c)' = Stream(c)
        BY <3>1, <3>3 DEF SentTo
      <4> QED
        BY <1>1, <4>1
    <3> QED
      BY <3>2, <3>3
  <2>2. CASE Stream(c)' = Stream(c)
    BY <1>1, <2>2
  <2> QED
    BY <1>4, <2>1, <2>2, SendStream
<1>5. received' = received /\ channel' = channel => Stream(c)' = Stream(c)
  BY DEF Stream
<1> QED
  BY <1>1, <1>2, <1>3, <1>4, <1>5
     DEF Next, ProducerStep, Subscribe, Begin, Store, Snapshot, vars

\* The producer goes on with whoever it has not reached; for the others the turn
\* of its loop decides.
LEMMA PendingStep ==
  ASSUME TypeOK, [Next]_vars, NEW c \in Conns, NEW e \in Event, Pending(c, e)
  PROVE  Fate(c, e)'
<1> DEFINE p == e.by
<1>0. p \in Producers
  BY DEF Event
<1>1. CASE producer'[p] = producer[p]
  BY <1>1 DEF Pending, Fate
<1>2. CASE SendNext(p)
  <2>1. PICK d \in producer[p].left : Send(p, d)
    BY <1>2 DEF SendNext
  <2>2. producer[p] \in Sending /\ producer[p].event = e /\ c \in producer[p].left /\ d \in Conns
    BY <1>0, <1>2, <2>1, EventOf DEF Pending, Sending
  <2>3. CASE broken' = broken \cup {e}
    BY <2>3 DEF Fate
  <2>4. CASE d = c /\ missed' = missed \cup {<<d, e>>}
    BY <2>4 DEF Fate
  <2>5. CASE d = c /\ channel' = [channel EXCEPT ![d] = Append(@, e)] /\ received' = received
    <3>1. received[c] \in Seq(Event) /\ channel[c] \in Seq(Event)
      BY DEF TypeOK
    <3>2. Stream(c)' = received[c] \o Append(channel[c], e)
      BY <2>5 DEF Stream, TypeOK
    <3>3. Has(c, e)'
      <4> DEFINE s == received[c]
                 t == channel[c]
      <4>1. s \in Seq(Event) /\ t \in Seq(Event)
        BY <3>1
      <4> HIDE DEF s, t
      <4>2. /\ Len(s) + Len(t) + 1 \in DOMAIN (s \o Append(t, e))
            /\ (s \o Append(t, e))[Len(s) + Len(t) + 1] = e
        BY <4>1
      <4>3. Stream(c)' = s \o Append(t, e)
        BY <3>2 DEF s, t
      <4> QED
        BY <4>2, <4>3 DEF Has
    <3> QED
      BY <3>3 DEF Fate
  <2>6. CASE d # c /\ producer' = [producer EXCEPT ![p] = Sent(p, d)]
    <3>1. producer'[p] = [producer[p] EXCEPT !.left = @ \ {d}]
      BY <1>0, <2>2, <2>6 DEF Sent, TypeOK
    <3>2. producer'[p].pc = "send" /\ producer'[p].event = e /\ c \in producer'[p].left
      BY <2>2, <2>6, <3>1 DEF Sending
    <3> QED
      BY <3>2 DEF Pending, Fate
  <2> QED
    BY <2>1, <2>2, <2>3, <2>4, <2>5, <2>6 DEF Send
<1>3. producer[p].pc = "send"
  BY DEF Pending
<1>4. ASSUME NEW q \in Producers, q # p, ProducerStep(q) \/ \E to \in Users \cup {Everyone} : Begin(q, to)
      PROVE  producer'[p] = producer[p]
  BY <1>0, <1>4 DEF ProducerStep, Store, Snapshot, SendNext, Send, Begin, TypeOK
<1>5. ASSUME NEW d \in Conns, Subscribe(d) \/ Deliver(d) \/ Unsubscribe(d)
      PROVE  producer'[p] = producer[p]
  BY <1>5 DEF Subscribe, Deliver, Unsubscribe
<1>6. ~Store(p) /\ ~Snapshot(p) /\ \A to \in Users \cup {Everyone} : ~Begin(p, to)
  BY <1>3 DEF Store, Snapshot, Begin, Idle
<1>7. UNCHANGED vars => producer'[p] = producer[p]
  BY DEF vars
<1> QED
  BY <1>0, <1>1, <1>2, <1>4, <1>5, <1>6, <1>7 DEF Next, ProducerStep

LEMMA NothingLostStep ==
  ASSUME HubInv, TypeOK', NothingLostSilently, [Next]_vars
  PROVE  NothingLostSilently'
<1>0. TypeOK
  BY DEF HubInv
<1>1. closed \subseteq closed' /\ missed \subseteq missed' /\ broken \subseteq broken'
  BY DEF Next, ProducerStep, Subscribe, Deliver, Unsubscribe, Begin, Store, Snapshot, SendNext,
         Send, vars
<1>2. ASSUME NEW a \in addressed PROVE Fate(a[1], a[2])'
  <2>1. a[1] \in Conns /\ a[2] \in Event
    BY <1>0 DEF TypeOK
  <2>2. Fate(a[1], a[2])
    BY <1>0, FatesAre
  <2>3. CASE Pending(a[1], a[2])
    BY <1>0, <2>1, <2>3, PendingStep
  <2>4. CASE Has(a[1], a[2])
    BY <1>0, <2>1, <2>4, HasStays DEF Fate
  <2> QED
    BY <1>1, <2>2, <2>3, <2>4 DEF Fate
<1>3. ASSUME NEW a \in addressed', a \notin addressed PROVE Fate(a[1], a[2])'
  <2>1. PICK p \in Producers : Snapshot(p)
    BY <1>3 DEF Next, ProducerStep, Subscribe, Deliver, Unsubscribe, Begin, Store, SendNext,
                Send, vars
  <2> DEFINE e == producer[p].event
             audience == registered \cap Audience(e.to)
  <2>2. a \in audience \X {e}
    BY <1>3, <2>1 DEF Snapshot
  <2>3. a[1] \in audience /\ a[2] = e
    BY <2>2
  <2>4. producer'[p] = [pc |-> "send", event |-> e, left |-> audience]
    BY <1>0, <2>1, <2>3 DEF Snapshot, TypeOK
  <2>5. e.by = p
    BY <2>1 DEF Snapshot, HubInv, SendingInv
  <2>6. Pending(a[1], a[2])'
    <3> HIDE DEF e, audience
    <3> QED
      BY <2>3, <2>4, <2>5 DEF Pending
  <2> QED
    BY <2>6 DEF Fate
<1>4. \A a \in addressed' : Fate(a[1], a[2])'
  BY <1>2, <1>3
<1>5. \A a \in addressed' : a = <<a[1], a[2]>>
  BY DEF TypeOK
<1> QED
  BY <1>4, <1>5 DEF NothingLostSilently, Fate, Has

-----------------------------------------------------------------------------
LEMMA HubInvInit == Init => HubInv
<1> SUFFICES ASSUME Init PROVE HubInv
  OBVIOUS
<1>1. TypeOK
  BY HubAssumption DEF Init, TypeOK
<1>2. \A c \in Conns : DOMAIN Stream(c) = {}
  BY DEF Init, Stream
<1>3. \A p \in Producers : producer[p].pc = "idle"
  BY DEF Init, Idle
<1> QED
  BY <1>1, <1>2, <1>3 DEF HubInv, SendingInv, NumberedInv, RightAudience, ProducerOrder

LEMMA HubInvHolds == Spec => []HubInv
<1>1. HubInv /\ [Next]_vars => HubInv'
  <2> SUFFICES ASSUME HubInv, [Next]_vars PROVE HubInv'
    OBVIOUS
  <2>1. TypeOK'
    BY TypeStep DEF HubInv
  <2> QED
    BY <2>1, SendingStep, NumberedStep, RightAudienceStep, ProducerOrderStep DEF HubInv
<1> QED
  BY <1>1, HubInvInit, PTL DEF Spec

\* An event reaches only connections of the user, or of the admins, it is for,
\* whoever subscribes and leaves while it is published.
THEOREM RightAudienceSafe == Spec => []RightAudience
<1>1. HubInv => RightAudience
  BY DEF HubInv
<1> QED
  BY <1>1, HubInvHolds, PTL

\* A connection gets the events of one producer once and in the order of their
\* rows, however publications and connections overlap.
THEOREM ProducerOrderSafe == Spec => []ProducerOrder
<1>1. HubInv => ProducerOrder
  BY DEF HubInv
<1> QED
  BY <1>1, HubInvHolds, PTL
\* Whoever was in the snapshot of an event has it, will have it, or is one of the
\* named exceptions: its own channel full, its connection ended, the producer's panic.
THEOREM NothingLostSafe == Spec => []NothingLostSilently
<1>1. Init => NothingLostSilently
  BY DEF Init, NothingLostSilently
<1>2. HubInv /\ NothingLostSilently /\ [Next]_vars => NothingLostSilently'
  <2> SUFFICES ASSUME HubInv, NothingLostSilently, [Next]_vars PROVE NothingLostSilently'
    OBVIOUS
  <2>1. TypeOK'
    BY TypeStep DEF HubInv
  <2> QED
    BY <2>1, NothingLostStep
<1> QED
  BY <1>1, <1>2, HubInvHolds, PTL DEF Spec
=============================================================================
