---------------------------- MODULE EventHubProofs ----------------------------
(***************************************************************************)
(* Theorems about EventHub, for every number of clients and events, every  *)
(* capacity of a queue and every length of the ring.                       *)
(***************************************************************************)
EXTENDS EventHub, Integers, SequenceTheorems, TLAPS

USE HubAssumption

\* A sequence of consecutive events up to `top`.
UpToTop(seq, top) ==
    /\ Len(seq) <= top
    /\ \A i \in 1..Len(seq) : seq[i] = top - Len(seq) + i

\* The last event a connection has sent or is about to, before its queue.
Front(s) == IF s.pc = "send" THEN s.sending ELSE s.last + Len(s.backlog)

\* The queue holds the newest events, without a gap; the replay goes on from what
\* was sent; what is in front of the queue is older than the queue, and the newest
\* event of all when the queue is empty; and the books balance.
Balanced(s) ==
    /\ UpToTop(s.queue, published)
    /\ s.pc = "replay" <=> s.backlog # <<>>
    /\ \A i \in 1..Len(s.backlog) : s.backlog[i] = s.last + i
    /\ s.pc = "send" => s.last < s.sending
    /\ Front(s) <= published - Len(s.queue)
    /\ s.queue = <<>> => Front(s) = published
    /\ published - s.start = s.sent + (IF s.pc = "send" THEN 1 ELSE 0)
                               + Len(s.backlog) + Len(s.queue) + s.dropped

IInv ==
    /\ TypeOK
    /\ UpToTop(recent, published)
    /\ \A c \in Subscribers : Balanced(conn[c])

-----------------------------------------------------------------------------
\* Sequences.

\* Appending the next event keeps a sequence up to the top.
LEMMA AppendTop ==
    ASSUME NEW seq \in Seq(Events), NEW top \in 0..MaxEvents, top + 1 \in Events,
           UpToTop(seq, top)
    PROVE  /\ Append(seq, top + 1) \in Seq(Events)
           /\ Len(Append(seq, top + 1)) = Len(seq) + 1
           /\ UpToTop(Append(seq, top + 1), top + 1)
  <1> DEFINE app == Append(seq, top + 1)
  <1>1. /\ Len(seq) \in Nat /\ app \in Seq(Events) /\ Len(app) = Len(seq) + 1
        /\ \A i \in 1..Len(seq) : app[i] = seq[i]
        /\ app[Len(seq) + 1] = top + 1
    BY AppendProperties, LenProperties
  <1> HIDE DEF app
  <1>2. ASSUME NEW i \in 1..Len(app) PROVE app[i] = (top + 1) - Len(app) + i
    <2>1. CASE i = Len(seq) + 1 BY <1>1, <2>1
    <2>2. CASE i # Len(seq) + 1
      <3>1. i \in 1..Len(seq) BY <1>1, <2>2
      <3>2. seq[i] = top - Len(seq) + i BY <3>1 DEF UpToTop
      <3> QED BY <1>1, <3>1, <3>2
    <2> QED BY <2>1, <2>2
  <1> QED BY <1>1, <1>2 DEF UpToTop, app

\* A sequence of events is a sequence of numbers.
LEMMA SeqNat ==
    ASSUME NEW seq \in Seq(Events)
    PROVE  seq \in Seq(Nat)
  <1>1. Len(seq) \in Nat /\ seq \in [1..Len(seq) -> Events] BY LenProperties
  <1>2. Events \subseteq Nat BY DEF Events
  <1>3. seq \in [1..Len(seq) -> Nat] BY <1>1, <1>2
  <1> QED BY <1>1, <1>3

\* So does dropping the oldest.
LEMMA TailTop ==
    ASSUME NEW seq \in Seq(Events), NEW top \in 0..MaxEvents, seq # <<>>, UpToTop(seq, top)
    PROVE  /\ Tail(seq) \in Seq(Events) /\ Len(seq) \in Nat \ {0}
           /\ Len(Tail(seq)) = Len(seq) - 1
           /\ UpToTop(Tail(seq), top)
           /\ Head(seq) = top - Len(seq) + 1 /\ Head(seq) \in Events
  <1>1. /\ Tail(seq) \in Seq(Events) /\ Len(seq) \in Nat \ {0}
        /\ Len(Tail(seq)) = Len(seq) - 1
        /\ \A i \in 1..Len(Tail(seq)) : Tail(seq)[i] = seq[i+1]
        /\ Head(seq) \in Events
    BY HeadTailProperties, EmptySeq
  <1>2. Head(seq) = seq[1] OBVIOUS
  <1> QED BY <1>1, <1>2 DEF UpToTop

-----------------------------------------------------------------------------
\* What the books of one connection say of what it has yet to send.

\* The pending events are those in front of the queue, in order, and the queue.
LEMMA PendingShape ==
    ASSUME NEW s \in Connections, Balanced(s)
    PROVE  LET before == (IF s.pc = "send" THEN <<s.sending>> ELSE <<>>) \o s.backlog
           IN /\ before \in Seq(Nat)
              /\ Len(before) = (IF s.pc = "send" THEN 1 ELSE 0) + Len(s.backlog)
              /\ \A i \in 1..Len(before) :
                   s.last < before[i] /\ (i < Len(before) => before[i] < before[i+1])
              /\ IF Len(before) = 0 THEN s.last = Front(s)
                                    ELSE before[Len(before)] = Front(s)
  <1> DEFINE head == IF s.pc = "send" THEN <<s.sending>> ELSE <<>>
             before == head \o s.backlog
  <1>1. /\ s.backlog \in Seq(Events) /\ s.backlog \in Seq(Nat) /\ Len(s.backlog) \in Nat
        /\ s.sending \in Nat /\ s.last \in Nat
    <2>1. s.backlog \in Seq(Events) /\ s.sending \in 0..MaxEvents /\ s.last \in 0..MaxEvents
      BY DEF Connections
    <2>2. s.backlog \in Seq(Nat) BY <2>1, SeqNat
    <2> QED BY <2>1, <2>2, LenProperties
  <1>2. CASE s.pc = "send"
    <2>1. s.backlog = <<>> BY <1>2 DEF Balanced
    <2>2. before = <<s.sending>> BY <2>1, <1>2, <1>1, ConcatEmptySeq
    <2>3. s.last < s.sending /\ Front(s) = s.sending BY <1>2 DEF Balanced, Front
    <2> QED BY <1>1, <1>2, <2>1, <2>2, <2>3
  <1>3. CASE s.pc # "send"
    <2>1. before = s.backlog BY <1>3, <1>1, ConcatEmptySeq
    <2>2. \A i \in 1..Len(s.backlog) : s.backlog[i] = s.last + i BY DEF Balanced
    <2>3. Front(s) = s.last + Len(s.backlog) BY <1>3 DEF Front
    <2> HIDE DEF before
    <2> HIDE DEF head
    <2>4. \A i \in 1..Len(before) :
            s.last < before[i] /\ (i < Len(before) => before[i] < before[i+1])
      <3>1. ASSUME NEW i \in 1..Len(s.backlog)
            PROVE  /\ s.last < s.backlog[i]
                   /\ i < Len(s.backlog) => s.backlog[i] < s.backlog[i+1]
        <4>1. s.backlog[i] = s.last + i BY <2>2
        <4>2. ASSUME i < Len(s.backlog) PROVE s.backlog[i+1] = s.last + (i + 1)
          <5>1. i + 1 \in 1..Len(s.backlog) BY <1>1, <4>2
          <5> QED BY <5>1, <2>2
        <4> QED BY <1>1, <4>1, <4>2
      <3> QED BY <2>1, <3>1
    <2>5. IF Len(before) = 0 THEN s.last = Front(s) ELSE before[Len(before)] = Front(s)
      BY <1>1, <2>1, <2>2, <2>3
    <2> QED BY <1>1, <1>3, <2>1, <2>4, <2>5 DEF before
  <1> QED BY <1>2, <1>3

\* The feed of a connection is in order and ends with the newest event.
LEMMA FeedShape ==
    ASSUME NEW s \in Connections, Balanced(s), published \in 0..MaxEvents
    PROVE  LET feed == <<s.last>> \o Pending(s)
           IN /\ Len(feed) \in Nat \ {0}
              /\ \A i \in 1..Len(feed)-1 : feed[i] < feed[i+1]
              /\ feed[Len(feed)] = published
              /\ Len(Pending(s)) = (IF s.pc = "send" THEN 1 ELSE 0)
                                     + Len(s.backlog) + Len(s.queue)
  <1> DEFINE before == (IF s.pc = "send" THEN <<s.sending>> ELSE <<>>) \o s.backlog
             feed == <<s.last>> \o Pending(s)
             m == Len(before)
             q == Len(s.queue)
  <1>1. /\ before \in Seq(Nat)
        /\ m = (IF s.pc = "send" THEN 1 ELSE 0) + Len(s.backlog)
        /\ \A i \in 1..m : s.last < before[i] /\ (i < m => before[i] < before[i+1])
        /\ IF m = 0 THEN s.last = Front(s) ELSE before[m] = Front(s)
    BY PendingShape
  <1>2. Pending(s) = before \o s.queue BY DEF Pending
  <1>3. s.queue \in Seq(Nat) /\ s.last \in Nat /\ <<s.last>> \in Seq(Nat)
    <2>1. s.queue \in Seq(Events) /\ s.last \in 0..MaxEvents BY DEF Connections
    <2>2. s.queue \in Seq(Nat) BY <2>1, SeqNat
    <2> QED BY <2>1, <2>2
  <1> HIDE DEF before
  <1>4. m \in Nat /\ q \in Nat BY <1>1, <1>3, LenProperties
  <1>5. /\ Pending(s) \in Seq(Nat) /\ Len(Pending(s)) = m + q
        /\ \A i \in 1..m+q : Pending(s)[i] = IF i <= m THEN before[i] ELSE s.queue[i - m]
    <2>1. /\ before \o s.queue \in Seq(Nat)
          /\ Len(before \o s.queue) = Len(before) + Len(s.queue)
          /\ \A i \in 1..Len(before) + Len(s.queue) :
               (before \o s.queue)[i] = IF i <= Len(before) THEN before[i]
                                                           ELSE s.queue[i - Len(before)]
      BY <1>1, <1>3, ConcatProperties
    <2> QED BY <1>2, <2>1
  <1> HIDE DEF m, q
  <1>6. /\ Len(feed) = 1 + (m + q)
        /\ \A i \in 1..1+(m+q) : feed[i] = IF i <= 1 THEN s.last ELSE Pending(s)[i - 1]
    <2>1. Len(<<s.last>>) = 1 /\ <<s.last>>[1] = s.last OBVIOUS
    <2>2. /\ Len(feed) = Len(<<s.last>>) + Len(Pending(s))
          /\ \A i \in 1..Len(<<s.last>>) + Len(Pending(s)) :
               feed[i] = IF i <= Len(<<s.last>>) THEN <<s.last>>[i]
                                                 ELSE Pending(s)[i - Len(<<s.last>>)]
      BY <1>3, <1>5, ConcatProperties
    <2> HIDE DEF feed
    <2> QED BY <1>4, <1>5, <2>1, <2>2
  <1> HIDE DEF feed
  <1>7. /\ \A j \in 1..q : s.queue[j] = published - q + j
        /\ Front(s) <= published - q
        /\ q = 0 => Front(s) = published
    <2>1. s.queue = <<>> \/ q # 0 BY EmptySeq, <1>3 DEF q
    <2> QED BY <2>1, <1>4 DEF Balanced, UpToTop, q
  <1>8. Front(s) \in Int /\ published \in Int
    <2>1. s.sending \in 0..MaxEvents /\ s.backlog \in Seq(Events) BY DEF Connections
    <2>2. Len(s.backlog) \in Nat BY <2>1, LenProperties
    <2> QED BY <2>1, <2>2, <1>3 DEF Front
  <1>9. \A i \in 1..m : before[i] \in Nat BY <1>1, <1>4, LenProperties DEF m
  \* The part in front of the queue, and the queue.
  <1>10. /\ feed[1] = s.last
         /\ \A i \in 1..m : feed[i+1] = before[i]
         /\ \A j \in 1..q : feed[1+m+j] = published - q + j
         /\ feed[1+m] = Front(s)
    <2>1. feed[1] = s.last BY <1>4, <1>6
    <2>2. ASSUME NEW i \in 1..m PROVE feed[i+1] = before[i]
      <3>1. /\ i + 1 \in 1..1+(m+q) /\ ~(i + 1 <= 1) /\ (i + 1) - 1 = i /\ i \in 1..m+q /\ i <= m
        BY <1>4
      <3> QED BY <1>5, <1>6, <3>1
    <2>3. ASSUME NEW j \in 1..q PROVE feed[1+m+j] = published - q + j
      <3>1. /\ 1 + m + j \in 1..1+(m+q) /\ ~(1 + m + j <= 1) /\ (1 + m + j) - 1 = m + j
            /\ m + j \in 1..m+q /\ ~(m + j <= m) /\ (m + j) - m = j
        BY <1>4
      <3>2. feed[1+m+j] = Pending(s)[m + j] BY <1>6, <3>1
      <3>3. Pending(s)[m + j] = s.queue[j] BY <1>5, <3>1
      <3> QED BY <1>7, <3>2, <3>3
    <2>4. feed[1+m] = Front(s)
      <3>1. CASE m = 0 BY <3>1, <2>1, <1>1
      <3>2. CASE m # 0
        <4>1. m \in 1..m /\ m + 1 = 1 + m BY <3>2, <1>4
        <4> QED BY <3>2, <4>1, <2>2, <1>1
      <3> QED BY <3>1, <3>2
    <2> QED BY <2>1, <2>2, <2>3, <2>4
  <1>11. ASSUME NEW i \in 1..(m+q) PROVE feed[i] < feed[i+1]
    <2>1. CASE i = 1 /\ m > 0
      <3>1. 1 \in 1..m BY <2>1, <1>4
      <3> QED BY <2>1, <3>1, <1>1, <1>10
    <2>2. CASE i > 1 /\ i <= m
      <3>1. i - 1 \in 1..m /\ i \in 1..m /\ i - 1 < m /\ (i - 1) + 1 = i BY <2>2, <1>4
      <3>2. before[i-1] < before[i] BY <3>1, <1>1
      <3> QED BY <3>1, <3>2, <1>10
    <2>3. CASE i = m + 1
      <3>1. 1 \in 1..q BY <2>3, <1>4
      <3>2. feed[1+m+1] = published - q + 1 BY <3>1, <1>10
      <3>3. feed[1+m] = Front(s) BY <1>10
      <3> QED BY <2>3, <3>2, <3>3, <1>4, <1>7, <1>8
    <2>4. CASE i > m + 1
      <3>1. /\ i - m - 1 \in 1..q /\ i - m \in 1..q
            /\ 1 + m + (i - m - 1) = i /\ 1 + m + (i - m) = i + 1
        BY <2>4, <1>4
      <3>2. feed[i] = published - q + (i - m - 1) /\ feed[i+1] = published - q + (i - m)
        BY <3>1, <1>10
      <3> QED BY <3>2, <1>4, <1>8
    <2> QED BY <2>1, <2>2, <2>3, <2>4, <1>4
  <1>12. feed[1 + (m + q)] = published
    <2>1. CASE q = 0 BY <2>1, <1>4, <1>7, <1>10
    <2>2. CASE q # 0
      <3>1. q \in 1..q /\ 1 + m + q = 1 + (m + q) BY <2>2, <1>4
      <3>2. feed[1 + m + q] = published - q + q BY <3>1, <1>10
      <3> QED BY <3>1, <3>2, <1>4, <1>8
    <2> QED BY <2>1, <2>2
  <1>13. Len(feed) = 1 + (m + q) /\ Len(feed) \in Nat \ {0} /\ Len(feed) - 1 = m + q
    BY <1>4, <1>6
  <1>14. /\ Len(feed) \in Nat \ {0}
         /\ \A i \in 1..Len(feed)-1 : feed[i] < feed[i+1]
         /\ feed[Len(feed)] = published
    BY <1>11, <1>12, <1>13
  <1>15. Len(Pending(s)) = (IF s.pc = "send" THEN 1 ELSE 0) + Len(s.backlog) + Len(s.queue)
    BY <1>1, <1>5 DEF q
  <1> QED BY <1>14, <1>15 DEF feed

-----------------------------------------------------------------------------
\* The invariant is inductive.

LEMMA InitOK == Init => IInv
  <1> SUFFICES ASSUME Init PROVE IInv OBVIOUS
  <1>1. Unsubscribed \in Connections /\ Len(Unsubscribed.queue) = 0
    BY EmptySeq DEF Unsubscribed, FreshConnection, Connections, ConnPcs
  <1>2. TypeOK BY <1>1, EmptySeq DEF Init, TypeOK
  <1>3. UpToTop(recent, published) BY EmptySeq DEF Init, UpToTop
  <1>4. Subscribers = {} BY DEF Init, Subscribers, Unsubscribed, FreshConnection
  <1> QED BY <1>2, <1>3, <1>4 DEF IInv

\* What the invariant says of one connection.
LEMMA OneConnection ==
    ASSUME IInv, NEW c \in Clients
    PROVE  /\ conn[c] \in Connections /\ Len(conn[c].queue) <= Capacity
           /\ conn[c].pc # "out" => Balanced(conn[c])
           /\ published \in 0..MaxEvents /\ published \in Nat
           /\ conn[c].queue \in Seq(Events) /\ Len(conn[c].queue) \in Nat
           /\ conn[c].backlog \in Seq(Events) /\ Len(conn[c].backlog) \in Nat
           /\ conn[c].sending \in Nat /\ conn[c].last \in Nat /\ conn[c].sent \in Nat
           /\ conn[c].dropped \in Nat /\ conn[c].start \in Nat
  <1>1. /\ conn[c] \in Connections /\ Len(conn[c].queue) <= Capacity
        /\ published \in 0..MaxEvents
    BY DEF IInv, TypeOK
  <1>2. conn[c].pc # "out" => Balanced(conn[c]) BY DEF IInv, Subscribers
  <1>3. conn[c].queue \in Seq(Events) /\ conn[c].backlog \in Seq(Events)
    BY <1>1 DEF Connections
  <1>4. /\ conn[c].sending \in 0..MaxEvents /\ conn[c].last \in 0..MaxEvents
        /\ conn[c].sent \in Nat /\ conn[c].dropped \in Nat /\ conn[c].start \in 0..MaxEvents
    BY <1>1 DEF Connections
  <1>5. Len(conn[c].queue) \in Nat /\ Len(conn[c].backlog) \in Nat BY <1>3, LenProperties
  <1> QED BY <1>1, <1>2, <1>3, <1>4, <1>5

\* A step of one connection to a balanced one.
LEMMA OneMoves ==
    ASSUME IInv, NEW c \in Clients, NEW s \in Connections,
           Len(s.queue) <= Capacity, s.pc # "out" => Balanced(s),
           conn' = [conn EXCEPT ![c] = s],
           published' = published, recent' = recent,
           here' \in [Clients -> BOOLEAN], joins' \in [Clients -> 0..MaxJoins]
    PROVE  IInv'
  <1>1. /\ conn \in [Clients -> Connections] /\ published \in 0..MaxEvents
        /\ recent \in Seq(Events) /\ Len(recent) <= Replay
        /\ \A b \in Clients : Len(conn[b].queue) <= Capacity
    BY DEF IInv, TypeOK
  <1>2. /\ conn' \in [Clients -> Connections] /\ conn'[c] = s
        /\ \A b \in Clients \ {c} : conn'[b] = conn[b]
    BY <1>1
  <1>3. TypeOK' BY <1>1, <1>2 DEF TypeOK
  <1>4. UpToTop(recent, published)' BY DEF IInv
  <1>5. ASSUME NEW b \in Clients, conn'[b].pc # "out" PROVE Balanced(conn[b])'
    <2>1. CASE b = c
      <3>1. Balanced(s) BY <1>2, <1>5, <2>1
      <3>2. conn'[b] = s BY <1>2, <2>1
      <3> QED BY <3>1, <3>2 DEF Balanced, UpToTop, Front
    <2>2. CASE b # c
      <3>1. conn'[b] = conn[b] BY <1>2, <2>2
      <3>2. Balanced(conn[b]) BY <3>1, <1>5, OneConnection
      <3> QED BY <3>1, <3>2 DEF Balanced, UpToTop, Front
    <2> QED BY <2>1, <2>2
  <1> QED BY <1>3, <1>4, <1>5 DEF IInv, Subscribers

\* A connection that ends.
LEMMA Ends ==
    ASSUME IInv, NEW c \in Clients, conn' = [conn EXCEPT ![c] = Unsubscribed],
           published' = published, recent' = recent, joins' = joins,
           here' \in [Clients -> BOOLEAN]
    PROVE  IInv'
  <1>1. /\ Unsubscribed \in Connections /\ Len(Unsubscribed.queue) <= Capacity
        /\ Unsubscribed.pc = "out"
    BY EmptySeq DEF Unsubscribed, FreshConnection, Connections, ConnPcs
  <1>2. joins' \in [Clients -> 0..MaxJoins] BY DEF IInv, TypeOK
  <1> QED BY <1>1, <1>2, OneMoves

\* A step of a coroutine on its own.
LEMMA PumpOK ==
    ASSUME IInv, NEW c \in Clients, NEW from, NEW s \in Connections,
           Len(s.queue) <= Capacity, Balanced(s), Pump(c, from, s), here' = here
    PROVE  IInv'
  <1>1. here' \in [Clients -> BOOLEAN] /\ joins' \in [Clients -> 0..MaxJoins]
    BY DEF IInv, TypeOK, Pump
  <1> QED BY <1>1, OneMoves DEF Pump

LEMMA ConnectOK == ASSUME IInv, NEW c \in Clients, Connect(c) PROVE IInv'
  <1> DEFINE first == published - Len(recent)
             s == FreshConnection(IF recent = <<>> THEN "get" ELSE "replay", recent, first)
  <1>1. /\ recent \in Seq(Events) /\ Len(recent) \in Nat /\ published \in 0..MaxEvents
        /\ Len(recent) <= published /\ (recent = <<>> <=> Len(recent) = 0)
        /\ \A i \in 1..Len(recent) : recent[i] = published - Len(recent) + i
    BY LenProperties, EmptySeq DEF IInv, TypeOK, UpToTop
  <1>2. first \in 0..MaxEvents BY <1>1
  <1>3. /\ s.pc = IF recent = <<>> THEN "get" ELSE "replay"
        /\ s.backlog = recent /\ s.queue = <<>> /\ s.sending = 0 /\ s.dropped = 0
        /\ s.start = first /\ s.last = first /\ s.sent = 0
    BY DEF FreshConnection
  <1>4. s \in Connections
    <2>1. <<>> \in Seq(Events) BY EmptySeq
    <2> HIDE DEF first
    <2> QED BY <1>1, <1>2, <2>1 DEF Connections, ConnPcs, FreshConnection
  <1>5. conn' = [conn EXCEPT ![c] = s] /\ published' = published /\ recent' = recent
    BY DEF Connect
  <1>6. here' \in [Clients -> BOOLEAN] BY DEF Connect, IInv, TypeOK
  <1>7. joins' \in [Clients -> 0..MaxJoins]
    <2>1. joins \in [Clients -> 0..MaxJoins] /\ joins[c] < MaxJoins
      BY DEF Connect, IInv, TypeOK
    <2> QED BY <2>1 DEF Connect
  <1> HIDE DEF s
  <1>8. Len(s.queue) = 0 /\ Len(s.queue) <= Capacity BY <1>3, EmptySeq
  <1>9. Balanced(s)
    <2>1. UpToTop(s.queue, published) BY <1>1, <1>8 DEF UpToTop
    <2>2. Front(s) = published BY <1>1, <1>3 DEF Front
    <2>3. s.pc = "replay" <=> s.backlog # <<>> BY <1>3
    <2>4. s.pc # "send" BY <1>3
    <2>5. \A i \in 1..Len(s.backlog) : s.backlog[i] = s.last + i BY <1>1, <1>3
    <2>6. published - s.start = s.sent + 0 + Len(s.backlog) + Len(s.queue) + s.dropped
      BY <1>1, <1>3, <1>8
    <2> QED BY <1>1, <1>8, <2>1, <2>2, <2>3, <2>4, <2>5, <2>6 DEF Balanced
  <1> QED BY <1>4, <1>5, <1>6, <1>7, <1>8, <1>9, OneMoves

LEMMA ReplaySentOK == ASSUME IInv, NEW c \in Clients, ReplaySent(c) PROVE IInv'
  <1> DEFINE r == conn[c]
             s == [r EXCEPT !.backlog = Tail(@),
                            !.pc = IF Len(r.backlog) = 1 THEN "get" ELSE @,
                            !.last = Head(r.backlog), !.sent = @ + 1]
  <1>1. r.pc = "replay" /\ Pump(c, "replay", s) /\ here' = here BY DEF ReplaySent
  <1>2. /\ r \in Connections /\ Len(r.queue) <= Capacity /\ Balanced(r)
        /\ published \in Nat /\ r.backlog \in Seq(Events) /\ r.last \in Nat /\ r.sent \in Nat
        /\ r.queue \in Seq(Events) /\ Len(r.queue) \in Nat /\ r.dropped \in Nat /\ r.start \in Nat
    BY <1>1, OneConnection
  <1> HIDE DEF r
  <1>3. r.backlog # <<>> BY <1>1, <1>2 DEF Balanced
  <1>4. /\ Tail(r.backlog) \in Seq(Events) /\ Head(r.backlog) \in Events
        /\ Len(r.backlog) \in Nat \ {0} /\ Len(Tail(r.backlog)) = Len(r.backlog) - 1
        /\ \A i \in 1..Len(Tail(r.backlog)) : Tail(r.backlog)[i] = r.backlog[i+1]
    BY <1>2, <1>3, HeadTailProperties, EmptySeq
  <1>5. Head(r.backlog) = r.last + 1
    <2>1. Head(r.backlog) = r.backlog[1] BY <1>2, <1>3
    <2>2. 1 \in 1..Len(r.backlog) BY <1>4
    <2> QED BY <1>2, <2>1, <2>2 DEF Balanced
  <1>6. /\ s.pc = IF Len(r.backlog) = 1 THEN "get" ELSE "replay"
        /\ s.backlog = Tail(r.backlog) /\ s.last = r.last + 1 /\ s.sent = r.sent + 1
        /\ s.queue = r.queue /\ s.sending = r.sending /\ s.dropped = r.dropped
        /\ s.start = r.start
    BY <1>1, <1>2, <1>5 DEF Connections
  <1>7. s \in Connections
    <2>1. /\ Head(r.backlog) \in 0..MaxEvents /\ r.sent + 1 \in Nat
          /\ (IF Len(r.backlog) = 1 THEN "get" ELSE r.pc) \in ConnPcs
      BY <1>2, <1>4 DEF Events, Connections, ConnPcs
    <2> QED BY <1>2, <1>4, <2>1 DEF Connections
  <1> HIDE DEF s
  <1>8. Balanced(s)
    <2>1. UpToTop(s.queue, published) BY <1>2, <1>6 DEF Balanced
    <2>2. Front(s) = Front(r)
      <3>1. s.pc # "send" /\ Len(s.backlog) = Len(r.backlog) - 1 BY <1>4, <1>6
      <3>2. Front(s) = (r.last + 1) + (Len(r.backlog) - 1) BY <3>1, <1>6 DEF Front
      <3>3. Front(r) = r.last + Len(r.backlog) BY <1>1 DEF Front
      <3>4. Len(r.backlog) \in Nat /\ r.last \in Nat BY <1>2, <1>4
      <3> HIDE DEF Front
      <3> QED BY <3>2, <3>3, <3>4
    <2>3. s.pc = "replay" <=> s.backlog # <<>>
      <3>1. Len(s.backlog) = 0 <=> s.backlog = <<>> BY <1>4, <1>6, EmptySeq
      <3> QED BY <3>1, <1>4, <1>6
    <2>4. s.pc # "send" BY <1>6
    <2>5. ASSUME NEW i \in 1..Len(s.backlog) PROVE s.backlog[i] = s.last + i
      <3>1. i + 1 \in 1..Len(r.backlog) BY <1>4, <1>6
      <3>2. r.backlog[i+1] = r.last + (i + 1) BY <3>1, <1>2 DEF Balanced
      <3> QED BY <3>2, <1>2, <1>4, <1>6
    <2>6. published - s.start = s.sent + 0 + Len(s.backlog) + Len(s.queue) + s.dropped
      <3>1. published - r.start = r.sent + 0 + Len(r.backlog) + Len(r.queue) + r.dropped
        BY <1>1, <1>2 DEF Balanced
      <3> QED BY <3>1, <1>2, <1>4, <1>6
    <2>7. Front(r) <= published - Len(r.queue) /\ (r.queue = <<>> => Front(r) = published)
      BY <1>2 DEF Balanced
    <2> QED BY <1>6, <2>1, <2>2, <2>3, <2>4, <2>5, <2>6, <2>7 DEF Balanced
  <1> QED BY <1>1, <1>2, <1>6, <1>7, <1>8, PumpOK

LEMMA TakeOK == ASSUME IInv, NEW c \in Clients, Take(c) PROVE IInv'
  <1> DEFINE r == conn[c]
             s == [r EXCEPT !.queue = Tail(@), !.pc = "send", !.sending = Head(r.queue)]
  <1>1. /\ r.pc \in {"get", "wait"} /\ r.queue # <<>>
        /\ Pump(c, r.pc, s) /\ here' = here
    BY DEF Take
  <1>2. /\ r \in Connections /\ Len(r.queue) <= Capacity /\ Balanced(r)
        /\ published \in Nat /\ published \in 0..MaxEvents
        /\ r.queue \in Seq(Events) /\ Len(r.queue) \in Nat /\ r.backlog \in Seq(Events)
        /\ r.last \in Nat /\ r.sent \in Nat /\ r.dropped \in Nat /\ r.start \in Nat
    BY <1>1, OneConnection
  <1> HIDE DEF r
  <1>3. /\ UpToTop(r.queue, published) /\ r.backlog = <<>> /\ Len(r.backlog) = 0
        /\ Front(r) = r.last /\ r.last <= published - Len(r.queue)
        /\ published - r.start = r.sent + 0 + Len(r.backlog) + Len(r.queue) + r.dropped
    <2>1. r.pc # "send" /\ r.pc # "replay" BY <1>1
    <2>2. r.backlog = <<>> /\ Len(r.backlog) = 0 BY <1>2, <2>1, EmptySeq DEF Balanced
    <2>3. Front(r) = r.last BY <1>2, <2>1, <2>2 DEF Front
    <2>4. Front(r) <= published - Len(r.queue) BY <1>2 DEF Balanced
    <2>5. published - r.start = r.sent + 0 + Len(r.backlog) + Len(r.queue) + r.dropped
      BY <1>2, <2>1 DEF Balanced
    <2> QED BY <1>2, <2>2, <2>3, <2>4, <2>5 DEF Balanced
  <1>4. /\ Tail(r.queue) \in Seq(Events) /\ Len(Tail(r.queue)) = Len(r.queue) - 1
        /\ Len(r.queue) \in Nat \ {0} /\ UpToTop(Tail(r.queue), published)
        /\ Head(r.queue) = published - Len(r.queue) + 1 /\ Head(r.queue) \in Events
    BY <1>1, <1>2, <1>3, TailTop
  <1>5. /\ s.pc = "send" /\ s.backlog = r.backlog /\ s.queue = Tail(r.queue)
        /\ s.sending = Head(r.queue) /\ s.last = r.last /\ s.sent = r.sent
        /\ s.dropped = r.dropped /\ s.start = r.start
    BY <1>2 DEF Connections
  <1>6. s \in Connections
    <2>1. Head(r.queue) \in 0..MaxEvents /\ "send" \in ConnPcs
      BY <1>4 DEF Events, ConnPcs
    <2> QED BY <1>2, <1>4, <2>1 DEF Connections
  <1> HIDE DEF s
  <1>7. /\ Len(s.queue) = Len(r.queue) - 1 /\ Len(r.queue) \in Nat /\ Len(r.queue) # 0
        /\ s.sending = published - Len(r.queue) + 1
        /\ Len(s.backlog) = 0 /\ Len(r.backlog) = 0
    BY <1>3, <1>4, <1>5
  <1>8. /\ s.last = r.last /\ s.sent = r.sent /\ s.dropped = r.dropped /\ s.start = r.start
        /\ r.last \in Nat /\ r.sent \in Nat /\ r.dropped \in Nat /\ r.start \in Nat
        /\ published \in Nat
        /\ published - r.start = r.sent + 0 + Len(r.backlog) + Len(r.queue) + r.dropped
        /\ r.last <= published - Len(r.queue)
    BY <1>2, <1>3, <1>5
  <1>9. Front(s) = s.sending BY <1>5 DEF Front
  <1> DEFINE q == Len(r.queue)
  <1>10. q \in Nat /\ q # 0 /\ Len(s.queue) = q - 1 /\ s.sending = published - q + 1
    BY <1>7
  <1> HIDE DEF q
  <1>11. published - s.start = s.sent + 1 + Len(s.backlog) + Len(s.queue) + s.dropped
    <2>1. published - r.start = r.sent + q + r.dropped BY <1>7, <1>8 DEF q
    <2>2. published - r.start = r.sent + 1 + 0 + (q - 1) + r.dropped BY <2>1, <1>8, <1>10
    <2> QED BY <2>2, <1>7, <1>8, <1>10
  <1>12. s.queue = <<>> => Front(s) = published
    <2>1. s.queue = <<>> => Len(s.queue) = 0 BY EmptySeq
    <2>2. s.queue = <<>> => q = 1 BY <2>1, <1>10
    <2> QED BY <2>2, <1>10, <1>8, <1>9
  <1>13. s.last < s.sending /\ Front(s) <= published - Len(s.queue)
    <2>1. r.last <= published - q BY <1>8 DEF q
    <2>2. r.last < published - q + 1 /\ published - q + 1 <= published - (q - 1)
      BY <2>1, <1>8, <1>10
    <2> QED BY <2>2, <1>8, <1>9, <1>10
  <1>14. UpToTop(s.queue, published) BY <1>4, <1>5
  <1>15. ~(s.pc = "replay") /\ s.backlog = <<>> /\ Len(s.backlog) = 0 BY <1>3, <1>5
  <1>16. Balanced(s) BY <1>5, <1>11, <1>12, <1>13, <1>14, <1>15 DEF Balanced
  <1>17. Len(s.queue) <= Capacity BY <1>2, <1>4, <1>5
  <1> QED BY <1>1, <1>6, <1>16, <1>17, PumpOK

LEMMA StreamSentOK == ASSUME IInv, NEW c \in Clients, StreamSent(c) PROVE IInv'
  <1> DEFINE r == conn[c]
             s == [r EXCEPT !.pc = "get", !.sending = 0, !.last = r.sending, !.sent = @ + 1]
  <1>1. r.pc = "send" /\ Pump(c, "send", s) /\ here' = here BY DEF StreamSent, Pump
  <1>2. /\ r \in Connections /\ Len(r.queue) <= Capacity /\ Balanced(r)
        /\ published \in Nat /\ published \in 0..MaxEvents
        /\ r.queue \in Seq(Events) /\ Len(r.queue) \in Nat /\ r.sending \in Nat
        /\ r.last \in Nat /\ r.sent \in Nat /\ r.dropped \in Nat /\ r.start \in Nat
    BY <1>1, OneConnection
  <1> HIDE DEF r
  <1>3. /\ UpToTop(r.queue, published) /\ r.backlog = <<>> /\ Len(r.backlog) = 0
        /\ Front(r) = r.sending
        /\ r.sending <= published - Len(r.queue) /\ (r.queue = <<>> => r.sending = published)
        /\ published - r.start = r.sent + 1 + Len(r.backlog) + Len(r.queue) + r.dropped
    BY <1>1, <1>2, EmptySeq DEF Balanced, Front
  <1>4. /\ s.pc = "get" /\ s.backlog = r.backlog /\ s.queue = r.queue
        /\ s.last = r.sending /\ s.sent = r.sent + 1
        /\ s.dropped = r.dropped /\ s.start = r.start
    BY <1>2 DEF Connections
  <1>5. s \in Connections
    <2>1. /\ 0 \in 0..MaxEvents /\ r.sending \in 0..MaxEvents /\ r.sent + 1 \in Nat
          /\ "get" \in ConnPcs
      BY <1>2 DEF Connections, ConnPcs
    <2> QED BY <1>2, <2>1 DEF Connections
  <1> HIDE DEF s
  <1>6. Front(s) = r.sending BY <1>2, <1>3, <1>4 DEF Front
  <1>7. published - s.start = s.sent + 0 + Len(s.backlog) + Len(s.queue) + s.dropped
    BY <1>2, <1>3, <1>4
  <1>8. s.backlog = <<>> /\ Len(s.backlog) = 0 /\ s.pc # "send" /\ s.pc # "replay"
    BY <1>3, <1>4
  <1>9. Balanced(s) BY <1>3, <1>4, <1>6, <1>7, <1>8 DEF Balanced
  <1> QED BY <1>1, <1>2, <1>4, <1>5, <1>9, PumpOK

\* Steps that move neither an event nor a count of events.
LEMMA IdleOK ==
    ASSUME IInv, NEW c \in Clients, Await(c) \/ Heartbeat(c) \/ BeatSent(c) PROVE IInv'
  <1> DEFINE r == conn[c]
  <1>1. PICK pc \in {"get", "wait", "beat"}, to \in {"get", "wait", "beat"}, told \in Nat :
          /\ r.pc = pc /\ Pump(c, pc, [r EXCEPT !.pc = to, !.told = told]) /\ here' = here
    <2>1. r \in Connections BY OneConnection
    <2>2. r.told \in Nat /\ r.dropped \in Nat BY <2>1 DEF Connections
    <2>3. CASE Await(c)
      <3>1. [r EXCEPT !.pc = "wait", !.told = r.told] = [r EXCEPT !.pc = "wait"]
        BY <2>1 DEF Connections
      <3> QED BY <2>2, <2>3, <3>1 DEF Await, Pump
    <2>4. CASE Heartbeat(c) BY <2>2, <2>4 DEF Heartbeat, Pump
    <2>5. CASE BeatSent(c)
      <3>1. [r EXCEPT !.pc = "get", !.told = r.told] = [r EXCEPT !.pc = "get"]
        BY <2>1 DEF Connections
      <3> QED BY <2>2, <2>5, <3>1 DEF BeatSent, Pump
    <2> QED BY <2>3, <2>4, <2>5
  <1> DEFINE s == [r EXCEPT !.pc = to, !.told = told]
  <1>2. r \in Connections /\ Len(r.queue) <= Capacity /\ Balanced(r) BY <1>1, OneConnection
  <1> HIDE DEF r
  <1>3. s \in Connections BY <1>1, <1>2 DEF Connections, ConnPcs
  <1>4. /\ s.pc = to /\ s.backlog = r.backlog /\ s.queue = r.queue
        /\ s.sending = r.sending /\ s.last = r.last /\ s.sent = r.sent
        /\ s.dropped = r.dropped /\ s.start = r.start
    BY <1>2 DEF Connections
  <1>5. Pump(c, pc, s) BY <1>1
  <1> HIDE DEF s
  <1>6. r.pc # "send" /\ r.pc # "replay" /\ s.pc # "send" /\ s.pc # "replay" BY <1>1, <1>4
  <1>7. Balanced(s) BY <1>2, <1>4, <1>6 DEF Balanced, Front
  <1> QED BY <1>1, <1>2, <1>3, <1>4, <1>5, <1>7, PumpOK

\* What offer() makes of a subscriber keeps its books.
LEMMA OfferOK ==
    ASSUME IInv, Publish, NEW c \in Subscribers, NEW t, t = Offer(conn[c], published + 1)
    PROVE  /\ t \in Connections /\ Len(t.queue) <= Capacity /\ t.pc = conn[c].pc
           /\ Balanced(t)'
  <1> DEFINE r == conn[c]
             e == published + 1
             old == IF Full(r) THEN Tail(r.queue) ELSE r.queue
             lost == IF Full(r) THEN 1 ELSE 0
  <1>1. c \in Clients /\ r.pc # "out" BY DEF Subscribers
  <1>2. /\ r \in Connections /\ Len(r.queue) <= Capacity /\ Balanced(r)
        /\ published \in 0..MaxEvents /\ published \in Nat
        /\ r.queue \in Seq(Events) /\ Len(r.queue) \in Nat /\ Len(r.backlog) \in Nat
        /\ r.last \in Nat /\ r.sending \in Nat
        /\ r.sent \in Nat /\ r.dropped \in Nat /\ r.start \in Nat
    BY <1>1, OneConnection
  <1>3. e \in Events /\ published' = e BY <1>2 DEF Publish, Events
  <1>0. t = Offer(r, e) OBVIOUS
  <1> HIDE DEF r
  <1>4. t = [r EXCEPT !.queue = Append(old, e), !.dropped = @ + lost]
    <2>1. CASE Full(r) BY <1>0, <2>1 DEF Offer
    <2>2. CASE ~Full(r)
      <3>1. r.dropped + lost = r.dropped BY <1>2, <2>2
      <3>2. [r EXCEPT !.queue = Append(r.queue, e), !.dropped = r.dropped]
              = [r EXCEPT !.queue = Append(r.queue, e)]
        BY <1>2 DEF Connections
      <3> QED BY <1>0, <2>2, <3>1, <3>2 DEF Offer
    <2> QED BY <2>1, <2>2
  <1>5. /\ old \in Seq(Events) /\ UpToTop(old, published) /\ lost \in {0, 1}
        /\ Len(old) = Len(r.queue) - lost /\ Len(old) + 1 <= Capacity /\ Len(old) \in Nat
    <2>1. UpToTop(r.queue, published) BY <1>2 DEF Balanced
    <2>2. CASE Full(r)
      <3>1. Len(r.queue) = Capacity BY <2>2 DEF Full
      <3>2. r.queue # <<>> BY <3>1, EmptySeq
      <3>3. /\ Tail(r.queue) \in Seq(Events) /\ Len(Tail(r.queue)) = Len(r.queue) - 1
            /\ Len(r.queue) \in Nat \ {0} /\ UpToTop(Tail(r.queue), published)
        BY <1>2, <2>1, <3>2, TailTop
      <3> QED BY <2>2, <3>1, <3>3
    <2>3. CASE ~Full(r)
      <3>1. Len(r.queue) # Capacity BY <2>3 DEF Full
      <3> QED BY <1>2, <2>1, <2>3, <3>1
    <2> QED BY <2>2, <2>3
  <1> HIDE DEF old, lost
  <1> DEFINE new == Append(old, e)
  <1>6. new \in Seq(Events) /\ Len(new) = Len(old) + 1 /\ UpToTop(new, e)
    BY <1>2, <1>3, <1>5, AppendTop
  <1> HIDE DEF new
  <1>7. t = [r EXCEPT !.queue = new, !.dropped = @ + lost] BY <1>4 DEF new
  <1>8. t \in Connections
    <2>1. r.dropped + lost \in Nat BY <1>2, <1>5
    <2> QED BY <1>2, <1>6, <1>7, <2>1 DEF Connections
  <1>9. /\ t.pc = r.pc /\ t.backlog = r.backlog /\ t.queue = new /\ t.sending = r.sending
        /\ t.last = r.last /\ t.sent = r.sent /\ t.dropped = r.dropped + lost
        /\ t.start = r.start
    BY <1>2, <1>7 DEF Connections
  <1>10. Front(t) = Front(r) BY <1>9 DEF Front
  <1>11. Front(r) \in Int /\ Front(r) <= published - Len(r.queue) BY <1>2 DEF Balanced, Front
  <1> DEFINE k == Len(old)
             n == Len(r.queue)
  <1>12. /\ k \in Nat /\ n \in Nat /\ k = n - lost /\ lost \in {0, 1}
         /\ Len(t.queue) = k + 1 /\ t.queue # <<>> /\ k + 1 <= Capacity
    <2>1. Len(t.queue) = Len(old) + 1 BY <1>6, <1>9
    <2>2. t.queue # <<>> BY <2>1, <1>5, EmptySeq
    <2> QED BY <1>2, <1>5, <2>1, <2>2
  <1>13. Front(r) <= published - n BY <1>11
  <1>14. published - r.start = r.sent + (IF r.pc = "send" THEN 1 ELSE 0)
                                 + Len(r.backlog) + n + r.dropped
    BY <1>2 DEF Balanced
  <1> HIDE DEF k, n
  <1>15. Front(t) <= e - Len(t.queue) BY <1>2, <1>10, <1>11, <1>12, <1>13
  <1>16. e - t.start = t.sent + (IF t.pc = "send" THEN 1 ELSE 0)
                         + Len(t.backlog) + Len(t.queue) + t.dropped
    <2> DEFINE one == IF r.pc = "send" THEN 1 ELSE 0
               b == Len(r.backlog)
    <2>1. one \in Nat /\ b \in Nat /\ published - r.start = r.sent + one + b + n + r.dropped
      BY <1>2, <1>14
    <2> HIDE DEF one, b
    <2>2. lost \in Nat /\ k \in Nat /\ n = k + lost BY <1>12
    <2>3. (published + 1) - r.start = r.sent + one + b + (k + 1) + (r.dropped + lost)
      <3> DEFINE p == published
                 start == r.start
                 sent == r.sent
                 lose == r.dropped
      <3>1. p \in Nat /\ start \in Nat /\ sent \in Nat /\ lose \in Nat BY <1>2
      <3>2. p - start = sent + one + b + n + lose BY <2>1
      <3> HIDE DEF p, start, sent, lose
      <3>3. p = start + sent + one + b + n + lose BY <3>1, <3>2, <2>1, <2>2
      <3>4. (p + 1) - start = sent + one + b + (k + 1) + (lose + lost)
        BY <3>1, <3>3, <2>1, <2>2
      <3> QED BY <3>4 DEF p, start, sent, lose
    <2> QED BY <1>9, <1>12, <2>3 DEF one, b
  <1>17. /\ t.pc = "replay" <=> t.backlog # <<>>
         /\ \A i \in 1..Len(t.backlog) : t.backlog[i] = t.last + i
         /\ t.pc = "send" => t.last < t.sending
    BY <1>2, <1>9 DEF Balanced
  <1>18. UpToTop(t.queue, e) BY <1>6, <1>9
  <1> HIDE DEF e
  <1>19. Balanced(t)'
    <2>1. UpToTop(t.queue, published)' BY <1>3, <1>18 DEF UpToTop
    <2>2. Front(t)' = Front(t) BY DEF Front
    <2>3. Front(t)' <= published' - Len(t.queue) BY <2>2, <1>3, <1>15
    <2>4. published' - t.start = t.sent + (IF t.pc = "send" THEN 1 ELSE 0)
                                   + Len(t.backlog) + Len(t.queue) + t.dropped
      BY <1>3, <1>16
    <2> QED BY <2>1, <2>3, <2>4, <1>12, <1>17 DEF Balanced
  <1> QED BY <1>8, <1>9, <1>12, <1>19 DEF r

LEMMA PublishOK == ASSUME IInv, Publish PROVE IInv'
  <1> DEFINE e == published + 1
             all == Append(recent, e)
  <1>1. /\ published \in 0..MaxEvents /\ recent \in Seq(Events) /\ Len(recent) <= Replay
        /\ UpToTop(recent, published) /\ conn \in [Clients -> Connections]
        /\ here \in [Clients -> BOOLEAN] /\ joins \in [Clients -> 0..MaxJoins]
    BY DEF IInv, TypeOK
  <1>2. e \in Events /\ published' = e /\ e \in 0..MaxEvents BY <1>1 DEF Publish, Events
  <1>3. all \in Seq(Events) /\ Len(all) = Len(recent) + 1 /\ UpToTop(all, e)
    BY <1>1, <1>2, AppendTop
  <1>4. recent' = IF Len(all) > Replay THEN Tail(all) ELSE all BY DEF Publish, Remember
  <1> HIDE DEF all
  <1>5. recent' \in Seq(Events) /\ Len(recent') <= Replay /\ UpToTop(recent', e)
    <2>0. Len(recent) \in Nat BY <1>1, LenProperties
    <2>1. CASE Len(all) > Replay
      <3>1. all # <<>> BY <2>1, <2>0, <1>3, EmptySeq
      <3>2. Tail(all) \in Seq(Events) /\ Len(Tail(all)) = Len(all) - 1 /\ UpToTop(Tail(all), e)
        BY <1>2, <1>3, <3>1, TailTop
      <3> QED BY <2>0, <2>1, <3>2, <1>1, <1>3, <1>4
    <2>2. CASE ~(Len(all) > Replay) BY <2>0, <2>2, <1>3, <1>4
    <2> QED BY <2>1, <2>2
  <1>6. ASSUME NEW c \in Clients
        PROVE  /\ conn'[c] \in Connections /\ Len(conn'[c].queue) <= Capacity
               /\ conn'[c].pc # "out" => Balanced(conn[c])'
    <2>1. conn'[c] = IF c \in Subscribers THEN Offer(conn[c], published + 1) ELSE conn[c]
      BY DEF Publish
    <2>2. CASE c \in Subscribers
      <3>1. PICK t : t = Offer(conn[c], published + 1) OBVIOUS
      <3>2. t \in Connections /\ Len(t.queue) <= Capacity /\ Balanced(t)'
        BY <2>2, <3>1, OfferOK
      <3>3. conn'[c] = t BY <2>1, <2>2, <3>1
      <3>4. Balanced(conn[c])' BY <3>2, <3>3 DEF Balanced, Front, UpToTop
      <3> QED BY <3>2, <3>3, <3>4
    <2>3. CASE c \notin Subscribers
      <3>1. conn'[c] = conn[c] /\ conn[c].pc = "out" BY <2>1, <2>3 DEF Subscribers
      <3> QED BY <3>1, OneConnection
    <2> QED BY <2>2, <2>3
  <1>7. conn' \in [Clients -> Connections]
    <2>1. conn' = [c \in Clients |-> conn'[c]] BY DEF Publish
    <2> QED BY <2>1, <1>6
  <1>8. here' = here /\ joins' = joins BY DEF Publish
  <1>9. TypeOK' BY <1>1, <1>2, <1>5, <1>6, <1>7, <1>8 DEF TypeOK
  <1>10. UpToTop(recent, published)' BY <1>2, <1>5 DEF UpToTop
  <1> QED BY <1>6, <1>9, <1>10 DEF IInv, Subscribers

LEMMA NextOK == ASSUME IInv, [Next]_vars PROVE IInv'
  <1>1. CASE Publish BY <1>1, PublishOK
  <1>2. ASSUME NEW c \in Clients, Vanish(c) PROVE IInv'
    <2>1. /\ published' = published /\ recent' = recent /\ conn' = conn /\ joins' = joins
          /\ here' \in [Clients -> BOOLEAN]
      BY <1>2 DEF Vanish, IInv, TypeOK
    <2> QED BY <2>1 DEF IInv, TypeOK, Subscribers, Balanced, Front, UpToTop
  <1>3. ASSUME NEW c \in Clients, SendFails(c) \/ Cancelled(c) PROVE IInv'
    <2>1. /\ conn' = [conn EXCEPT ![c] = Unsubscribed] /\ published' = published
          /\ recent' = recent /\ joins' = joins
      BY <1>3 DEF SendFails, Cancelled, Pump
    <2>2. here' \in [Clients -> BOOLEAN] BY <1>3 DEF SendFails, Cancelled, IInv, TypeOK
    <2> QED BY <2>1, <2>2, Ends
  <1>4. CASE UNCHANGED vars
    BY <1>4 DEF vars, IInv, TypeOK, Subscribers, Balanced, Front, UpToTop
  <1> QED BY <1>1, <1>2, <1>3, <1>4, ConnectOK, ReplaySentOK, TakeOK, StreamSentOK, IdleOK
          DEF Next

LEMMA Inductive == Spec => []IInv
  <1>1. Init => IInv BY InitOK
  <1>2. IInv /\ [Next]_vars => IInv' BY NextOK
  <1> QED BY <1>1, <1>2, PTL DEF Spec

-----------------------------------------------------------------------------
\* Theorems.

\* The ring, each queue and each counter keep within their bounds: a slow client
\* costs the hub its queue and no more.  (ws.py:31-52.)
THEOREM TypeCorrect == Spec => []TypeOK
  <1>1. IInv => TypeOK BY DEF IInv
  <1> QED BY <1>1, Inductive, PTL

\* No event is lost or doubled without being counted, whatever the publishers, the
\* clients and the timers do.  (Subscriber.offer ws.py:32-42, stream() 69-95.)
THEOREM BooksBalance == Spec => []Accounted
  <1>1. ASSUME IInv PROVE Accounted
    <2> SUFFICES ASSUME NEW c \in Subscribers
                 PROVE  published - conn[c].start
                          = conn[c].sent + Len(Pending(conn[c])) + conn[c].dropped
      BY DEF Accounted
    <2> DEFINE s == conn[c]
               one == IF s.pc = "send" THEN 1 ELSE 0
               b == Len(s.backlog)
               q == Len(s.queue)
    <2>1. c \in Clients /\ s.pc # "out" BY DEF Subscribers
    <2>2. /\ s \in Connections /\ Balanced(s) /\ published \in 0..MaxEvents
          /\ b \in Nat /\ q \in Nat /\ s.sent \in Nat /\ s.dropped \in Nat /\ one \in Nat
      BY <2>1, <1>1, OneConnection
    <2>3. Len(Pending(s)) = one + b + q BY <2>2, FeedShape
    <2>4. published - s.start = s.sent + one + b + q + s.dropped BY <2>2 DEF Balanced
    <2> HIDE DEF s, one, b, q
    <2>5. published - s.start = s.sent + Len(Pending(s)) + s.dropped BY <2>2, <2>3, <2>4
    <2> QED BY <2>5 DEF s
  <1> QED BY <1>1, Inductive, PTL

\* A client is sent events in the order of publication, each at most once.
\* (pump_websocket ws.py:103-111.)
THEOREM FeedInOrder == Spec => []InOrder
  <1>1. ASSUME IInv PROVE InOrder
    <2> SUFFICES ASSUME NEW c \in Subscribers
                 PROVE  LET feed == <<conn[c].last>> \o Pending(conn[c])
                        IN \A i \in 1..Len(feed)-1 : feed[i] < feed[i+1]
      BY DEF InOrder
    <2>1. /\ conn[c] \in Connections /\ Balanced(conn[c]) /\ published \in 0..MaxEvents
      BY <1>1, OneConnection DEF Subscribers
    <2> QED BY <2>1, FeedShape
  <1> QED BY <1>1, Inductive, PTL

\* The newest event is never the one that is dropped.  (ws.py:36-38.)
THEOREM NewestReaches == Spec => []NewestKept
  <1>1. ASSUME IInv PROVE NewestKept
    <2> SUFFICES ASSUME NEW c \in Subscribers
                 PROVE  LET feed == <<conn[c].last>> \o Pending(conn[c])
                        IN feed[Len(feed)] = published
      BY DEF NewestKept
    <2>1. /\ conn[c] \in Connections /\ Balanced(conn[c]) /\ published \in 0..MaxEvents
      BY <1>1, OneConnection DEF Subscribers
    <2> QED BY <2>1, FeedShape
  <1> QED BY <1>1, Inductive, PTL

-----------------------------------------------------------------------------
\* How a client catches up.

\* What was pending is still to come at its place, or something newer is.
Forward(new, old) ==
    /\ Len(old) <= Len(new)
    /\ \A i \in 1..Len(old) : old[i] <= new[i]

\* As long as a connection lasts, a step either sends the first of what is pending or
\* leaves every place in the line at least as new as it was.
FeedMovesOn ==
    [][\A c \in Subscribers : c \in Subscribers' =>
          \/ /\ conn'[c].last = conn[c].last
             /\ Forward(Pending(conn'[c]), Pending(conn[c]))
          \/ /\ Pending(conn[c]) # <<>>
             /\ conn'[c].last = Head(Pending(conn[c]))
             /\ Pending(conn'[c]) = Tail(Pending(conn[c]))]_vars

\* And the line is never longer than the ring, the queue and the event being sent.
LineIsShort ==
    \A c \in Subscribers : Len(Pending(conn[c])) <= Replay + Capacity + 1

\* The events in front of the queue, and a connection's record as it is when `top` was
\* the last event published.
InFront(s) == IF s.pc = "send" THEN 1 ELSE Len(s.backlog)
Lined(s, top) ==
    /\ UpToTop(s.queue, top)
    /\ s.pc = "send" => s.backlog = <<>>
    /\ \A i \in 1..Len(s.backlog) : s.backlog[i] = s.last + i

LEMMA PendingAt ==
    ASSUME NEW s \in Connections, NEW top \in Nat, Lined(s, top)
    PROVE  /\ Pending(s) \in Seq(Nat) /\ InFront(s) \in Nat /\ Len(s.queue) \in Nat
           /\ Len(Pending(s)) = InFront(s) + Len(s.queue)
           /\ \A i \in 1..InFront(s) + Len(s.queue) :
                Pending(s)[i] = IF i > InFront(s) THEN top - Len(s.queue) + (i - InFront(s))
                                ELSE IF s.pc = "send" THEN s.sending ELSE s.last + i
  <1> DEFINE front == (IF s.pc = "send" THEN <<s.sending>> ELSE <<>>) \o s.backlog
  <1>1. /\ s.backlog \in Seq(Nat) /\ s.queue \in Seq(Nat) /\ s.sending \in Nat
        /\ s.last \in Nat
    <2>1. /\ s.backlog \in Seq(Events) /\ s.queue \in Seq(Events)
          /\ s.sending \in 0..MaxEvents /\ s.last \in 0..MaxEvents
      BY DEF Connections
    <2> QED BY <2>1, SeqNat
  <1>2. /\ front \in Seq(Nat) /\ Len(front) = InFront(s)
        /\ \A i \in 1..InFront(s) :
             front[i] = IF s.pc = "send" THEN s.sending ELSE s.last + i
    <2>1. CASE s.pc = "send"
      <3>1. s.backlog = <<>> BY <2>1 DEF Lined
      <3>2. front = <<s.sending>> BY <1>1, <2>1, <3>1, ConcatEmptySeq
      <3>3. InFront(s) = 1 BY <2>1 DEF InFront
      <3> HIDE DEF front
      <3> QED BY <1>1, <2>1, <3>2, <3>3
    <2>2. CASE s.pc # "send"
      <3>1. front = s.backlog BY <1>1, <2>2, ConcatEmptySeq
      <3> QED BY <1>1, <2>2, <3>1 DEF InFront, Lined
    <2> QED BY <2>1, <2>2
  <1>3. Pending(s) = front \o s.queue BY DEF Pending
  <1> HIDE DEF front
  <1> DEFINE f == InFront(s)
             q == Len(s.queue)
  <1>4. f \in Nat /\ q \in Nat BY <1>1, <1>2, LenProperties
  <1>5. /\ Pending(s) \in Seq(Nat) /\ Len(Pending(s)) = f + q
        /\ \A i \in 1..f+q : Pending(s)[i] = IF i <= f THEN front[i] ELSE s.queue[i - f]
    <2>1. /\ front \o s.queue \in Seq(Nat)
          /\ Len(front \o s.queue) = Len(front) + Len(s.queue)
          /\ \A i \in 1..Len(front) + Len(s.queue) :
               (front \o s.queue)[i] = IF i <= Len(front) THEN front[i]
                                                         ELSE s.queue[i - Len(front)]
      BY <1>1, <1>2, ConcatProperties
    <2> QED BY <1>2, <1>3, <2>1
  <1>6. \A j \in 1..q : s.queue[j] = top - q + j BY DEF Lined, UpToTop
  <1>7. \A i \in 1..f : front[i] = IF s.pc = "send" THEN s.sending ELSE s.last + i
    BY <1>2
  <1> HIDE DEF f, q
  <1>8. ASSUME NEW i \in 1..f+q
        PROVE  Pending(s)[i] = IF i > f THEN top - q + (i - f)
                               ELSE IF s.pc = "send" THEN s.sending ELSE s.last + i
    <2>1. CASE i > f
      <3>1. i - f \in 1..q /\ ~(i <= f) BY <1>4, <2>1
      <3> QED BY <1>5, <1>6, <2>1, <3>1
    <2>2. CASE ~(i > f)
      <3>1. i \in 1..f /\ i <= f BY <1>4, <2>2
      <3> QED BY <1>5, <1>7, <2>2, <3>1
    <2> QED BY <2>1, <2>2
  <1> QED BY <1>4, <1>5, <1>8 DEF f, q

LEMMA BalancedIsLined ==
    ASSUME NEW s, Balanced(s)
    PROVE  Lined(s, published)
  BY DEF Balanced, Lined

\* Sequences compared place by place.
LEMMA SameTail ==
    ASSUME NEW old \in Seq(Nat), NEW new \in Seq(Nat), Len(old) \in Nat \ {0},
           Len(new) = Len(old) - 1, \A i \in 1..Len(new) : new[i] = old[i+1]
    PROVE  old # <<>> /\ new = Tail(old) /\ Head(old) = old[1]
  <1>1. old # <<>> BY EmptySeq
  <1>2. /\ Tail(old) \in Seq(Nat) /\ Len(Tail(old)) = Len(old) - 1
        /\ \A i \in 1..Len(Tail(old)) : Tail(old)[i] = old[i+1]
    BY <1>1, HeadTailProperties
  <1>3. new = Tail(old) BY <1>2, SeqEqual
  <1> QED BY <1>1, <1>3

\* A step that touches nothing of what is pending.
LEMMA PendingStays ==
    ASSUME NEW r \in Connections, NEW s \in Connections, NEW top \in Nat, Lined(r, top),
           s.pc = "send" <=> r.pc = "send",
           s.sending = r.sending, s.backlog = r.backlog, s.queue = r.queue
    PROVE  Forward(Pending(s), Pending(r))
  <1>1. Pending(s) = Pending(r) BY DEF Pending
  <1>2. \A i \in 1..Len(Pending(r)) : Pending(r)[i] \in Nat BY PendingAt
  <1>3. Len(Pending(r)) \in Nat BY PendingAt, LenProperties
  <1> QED BY <1>1, <1>2, <1>3 DEF Forward

\* One event of the line is sent.
LEMMA SendMovesOn ==
    ASSUME IInv, IInv', NEW c \in Clients, conn[c].pc # "out", conn'[c].pc # "out",
           ReplaySent(c) \/ StreamSent(c)
    PROVE  /\ Pending(conn[c]) # <<>>
           /\ conn'[c].last = Head(Pending(conn[c]))
           /\ Pending(conn'[c]) = Tail(Pending(conn[c]))
  <1> DEFINE r == conn[c]
             s == conn'[c]
             top == published
  <1>1. /\ r \in Connections /\ Lined(r, top) /\ top \in Nat /\ r.last \in Nat
        /\ r.backlog \in Seq(Events) /\ Len(r.backlog) \in Nat /\ Balanced(r)
    BY OneConnection, BalancedIsLined
  <1>2. s \in Connections /\ Lined(s, top)
    <2>1. s \in Connections BY DEF IInv, TypeOK
    <2>2. published' = published BY DEF ReplaySent, StreamSent, Pump
    <2>3. Balanced(conn[c])' BY DEF IInv, Subscribers
    <2> QED BY <2>1, <2>2, <2>3 DEF Balanced, Lined, UpToTop
  <1>3. conn \in [Clients -> Connections] BY DEF IInv, TypeOK
  <1>4. CASE ReplaySent(c)
    <2>1. /\ r.pc = "replay" /\ s.pc # "send" /\ s.queue = r.queue
          /\ s.backlog = Tail(r.backlog) /\ s.last = Head(r.backlog)
      BY <1>1, <1>3, <1>4 DEF ReplaySent, Pump, Connections
    <2>2. r.backlog # <<>> BY <1>1, <2>1 DEF Balanced
    <2>3. /\ Len(r.backlog) \in Nat \ {0} /\ Len(s.backlog) = Len(r.backlog) - 1
          /\ Head(r.backlog) = r.backlog[1]
      BY <1>1, <2>1, <2>2, HeadTailProperties, EmptySeq
    <2>4. s.last = r.last + 1
      <3>1. 1 \in 1..Len(r.backlog) BY <2>3
      <3> QED BY <1>1, <2>1, <2>3, <3>1 DEF Balanced
    <2>5. InFront(r) = Len(r.backlog) /\ InFront(s) = InFront(r) - 1 /\ InFront(r) # 0
      BY <2>1, <2>3 DEF InFront
    <2> HIDE DEF r, s, top
    <2>6. /\ Pending(r) \in Seq(Nat) /\ Pending(s) \in Seq(Nat)
          /\ Len(Pending(r)) \in Nat \ {0} /\ Len(Pending(s)) = Len(Pending(r)) - 1
          /\ Pending(r)[1] = r.last + 1
          /\ \A i \in 1..Len(Pending(s)) : Pending(s)[i] = Pending(r)[i+1]
      <3> DEFINE f == InFront(r)
                 q == Len(r.queue)
      <3>1. /\ Pending(r) \in Seq(Nat) /\ f \in Nat \ {0} /\ q \in Nat
            /\ Len(Pending(r)) = f + q
            /\ \A i \in 1..f+q : Pending(r)[i] = IF i > f THEN top - q + (i - f) ELSE r.last + i
        BY <1>1, <2>1, <2>5, PendingAt
      <3>2. /\ Pending(s) \in Seq(Nat) /\ InFront(s) = f - 1 /\ Len(s.queue) = q
            /\ Len(Pending(s)) = (f - 1) + q
            /\ \A i \in 1..(f-1)+q :
                 Pending(s)[i] = IF i > f - 1 THEN top - q + (i - (f - 1)) ELSE s.last + i
        BY <1>1, <1>2, <2>1, <2>5, PendingAt
      <3> HIDE DEF f, q
      <3>3. 1 \in 1..f+q /\ ~(1 > f) BY <3>1
      <3>4. ASSUME NEW i \in 1..(f-1)+q PROVE Pending(s)[i] = Pending(r)[i+1]
        <4>1. i + 1 \in 1..f+q /\ (i + 1 > f <=> i > f - 1) BY <3>1
        <4>2. Pending(r)[i+1] = IF i > f - 1 THEN top - q + ((i + 1) - f) ELSE r.last + (i + 1)
          BY <3>1, <4>1
        <4>3. Pending(s)[i] = IF i > f - 1 THEN top - q + (i - (f - 1)) ELSE (r.last + 1) + i
          BY <2>4, <3>2
        <4>4. /\ top \in Nat /\ q \in Nat /\ f \in Nat /\ r.last \in Nat /\ i \in Nat
              /\ (i + 1) - f = i - (f - 1)
          BY <1>1, <3>1
        <4>5. CASE i > f - 1 BY <4>2, <4>3, <4>4, <4>5
        <4>6. CASE ~(i > f - 1) BY <4>2, <4>3, <4>4, <4>6
        <4> QED BY <4>5, <4>6
      <3> QED BY <3>1, <3>2, <3>3, <3>4
    <2>7. Pending(r) # <<>> /\ Pending(s) = Tail(Pending(r)) /\ s.last = Head(Pending(r))
      BY <2>4, <2>6, SameTail
    <2> QED BY <2>7 DEF r, s
  <1>5. CASE StreamSent(c)
    <2>1. /\ r.pc = "send" /\ s.pc = "get" /\ s.queue = r.queue
          /\ s.backlog = r.backlog /\ s.last = r.sending
      BY <1>1, <1>3, <1>5 DEF StreamSent, Pump, Connections
    <2>2. InFront(r) = 1 /\ InFront(s) = 0
      <3>1. s.backlog = <<>> BY <1>1, <2>1 DEF Lined
      <3> QED BY <2>1, <3>1, EmptySeq DEF InFront
    <2> HIDE DEF r, s, top
    <2>3. /\ Pending(r) \in Seq(Nat) /\ Pending(s) \in Seq(Nat)
          /\ Len(Pending(r)) \in Nat \ {0} /\ Len(Pending(s)) = Len(Pending(r)) - 1
          /\ Pending(r)[1] = r.sending
          /\ \A i \in 1..Len(Pending(s)) : Pending(s)[i] = Pending(r)[i+1]
      <3> DEFINE q == Len(r.queue)
      <3>1. /\ Pending(r) \in Seq(Nat) /\ q \in Nat /\ Len(Pending(r)) = 1 + q
            /\ Pending(r)[1] = r.sending
            /\ \A i \in 1..1+q : i > 1 => Pending(r)[i] = top - q + (i - 1)
        <4>1. /\ Pending(r) \in Seq(Nat) /\ q \in Nat /\ Len(Pending(r)) = InFront(r) + q
              /\ \A i \in 1..InFront(r)+q :
                   Pending(r)[i] = IF i > InFront(r) THEN top - q + (i - InFront(r))
                                   ELSE IF r.pc = "send" THEN r.sending ELSE r.last + i
          BY <1>1, PendingAt
        <4> HIDE DEF q
        <4>2. 1 \in 1..1+q /\ ~(1 > 1) BY <4>1
        <4> QED BY <2>1, <2>2, <4>1, <4>2
      <3>2. /\ Pending(s) \in Seq(Nat) /\ Len(s.queue) = q /\ Len(Pending(s)) = 0 + q
            /\ \A i \in 1..0+q : i > 0 => Pending(s)[i] = top - q + (i - 0)
        BY <1>1, <1>2, <2>1, <2>2, PendingAt
      <3> HIDE DEF q
      <3>3. ASSUME NEW i \in 1..q PROVE Pending(s)[i] = Pending(r)[i+1]
        <4>1. i + 1 \in 1..1+q /\ i + 1 > 1 /\ i \in 1..0+q /\ i > 0 BY <3>1
        <4> QED BY <1>1, <3>1, <3>2, <4>1
      <3> QED BY <3>1, <3>2, <3>3
    <2>4. Pending(r) # <<>> /\ Pending(s) = Tail(Pending(r)) /\ s.last = Head(Pending(r))
      BY <2>1, <2>3, SameTail
    <2> QED BY <2>4 DEF r, s
  <1> QED BY <1>4, <1>5

\* The oldest event leaves the queue and is the one that is being sent now.
LEMMA TakeMovesOn ==
    ASSUME IInv, IInv', NEW c \in Clients, Take(c)
    PROVE  conn'[c].last = conn[c].last /\ Forward(Pending(conn'[c]), Pending(conn[c]))
  <1> DEFINE r == conn[c]
             s == conn'[c]
             top == published
             q == Len(r.queue)
  <1>1. /\ r \in Connections /\ Lined(r, top) /\ top \in Nat /\ r.pc \in {"get", "wait"}
        /\ r.queue \in Seq(Events) /\ r.queue # <<>> /\ Balanced(r)
        /\ published \in 0..MaxEvents
    BY OneConnection, BalancedIsLined DEF Take
  <1>2. conn \in [Clients -> Connections] BY DEF IInv, TypeOK
  <1>3. /\ s.pc = "send" /\ s.sending = Head(r.queue) /\ s.queue = Tail(r.queue)
        /\ s.last = r.last
    BY <1>1, <1>2 DEF Take, Pump, Connections
  <1>4. s \in Connections /\ Lined(s, top)
    <2>1. s \in Connections BY DEF IInv, TypeOK
    <2>2. published' = published BY DEF Take, Pump
    <2>3. Balanced(conn[c])' BY <1>3 DEF IInv, Subscribers
    <2> QED BY <2>1, <2>2, <2>3 DEF Balanced, Lined, UpToTop
  <1>5. InFront(r) = 0 /\ InFront(s) = 1
    <2>1. r.backlog = <<>> BY <1>1 DEF Balanced
    <2> QED BY <1>1, <1>3, <2>1, EmptySeq DEF InFront
  <1>6. q \in Nat \ {0} /\ Len(s.queue) = q - 1 /\ s.sending = top - q + 1
    BY <1>1, <1>3, TailTop DEF Lined
  <1> HIDE DEF r, s, top
  <1>7. /\ Len(Pending(r)) = 0 + q
        /\ \A i \in 1..0+q : i > 0 => Pending(r)[i] = top - q + (i - 0)
    BY <1>1, <1>5, PendingAt
  <1>8. /\ Len(Pending(s)) = 1 + (q - 1)
        /\ \A i \in 1..1+(q-1) : Pending(s)[i] = IF i > 1 THEN top - (q - 1) + (i - 1)
                                                 ELSE s.sending
    <2>1. /\ Len(Pending(s)) = InFront(s) + Len(s.queue)
          /\ \A i \in 1..InFront(s) + Len(s.queue) :
               Pending(s)[i] = IF i > InFront(s) THEN top - Len(s.queue) + (i - InFront(s))
                               ELSE IF s.pc = "send" THEN s.sending ELSE s.last + i
      BY <1>1, <1>4, PendingAt
    <2> HIDE DEF q
    <2> QED BY <1>3, <1>5, <1>6, <2>1
  <1> HIDE DEF q
  <1>9. ASSUME NEW i \in 1..q PROVE Pending(r)[i] <= Pending(s)[i]
    <2>1. i \in 1..0+q /\ i > 0 /\ i \in 1..1+(q-1) BY <1>6
    <2>2. Pending(r)[i] = top - q + i BY <1>7, <2>1
    <2>3. CASE i > 1
      <3>1. Pending(s)[i] = top - (q - 1) + (i - 1) BY <1>8, <2>1, <2>3
      <3> QED BY <1>1, <1>6, <2>1, <2>2, <3>1
    <2>4. CASE ~(i > 1)
      <3>1. Pending(s)[i] = top - q + 1 /\ i = 1 BY <1>6, <1>8, <2>1, <2>4
      <3> QED BY <1>1, <1>6, <2>2, <3>1
    <2> QED BY <2>3, <2>4
  <1> QED BY <1>3, <1>6, <1>7, <1>8, <1>9 DEF Forward, r, s

\* A publication makes the line longer, or moves the queue's part of it up by one.
LEMMA PublishMovesOn ==
    ASSUME IInv, IInv', NEW c \in Subscribers, Publish
    PROVE  conn'[c].last = conn[c].last /\ Forward(Pending(conn'[c]), Pending(conn[c]))
  <1> DEFINE r == conn[c]
             s == conn'[c]
             top == published
             f == InFront(r)
             q == Len(r.queue)
             k == Len(s.queue)
  <1>1. /\ r \in Connections /\ Lined(r, top) /\ top \in Nat /\ r.pc # "out"
        /\ r.queue \in Seq(Events) /\ q \in Nat /\ r.last \in Nat /\ r.sending \in Nat
    <2>1. c \in Clients /\ r.pc # "out" BY DEF Subscribers
    <2> QED BY <2>1, OneConnection, BalancedIsLined
  <1>2. s = Offer(r, top + 1) BY DEF Publish, Subscribers
  <1>3. /\ s.pc = r.pc /\ s.sending = r.sending /\ s.backlog = r.backlog /\ s.last = r.last
        /\ s.queue = Append(IF Full(r) THEN Tail(r.queue) ELSE r.queue, top + 1)
    BY <1>1, <1>2 DEF Offer, Connections
  <1>4. s \in Connections /\ Lined(s, top + 1)
    <2>1. c \in Clients /\ s \in Connections BY DEF Subscribers, IInv, TypeOK
    <2>2. published' = top + 1 BY DEF Publish
    <2>3. Balanced(conn[c])' BY <1>1, <1>3, <2>1 DEF IInv, Subscribers
    <2> QED BY <2>1, <2>2, <2>3 DEF Balanced, Lined, UpToTop
  <1>5. k \in {q, q + 1}
    <2>1. CASE Full(r)
      <3>1. r.queue # <<>> BY <1>1, <2>1, EmptySeq DEF Full
      <3>2. Tail(r.queue) \in Seq(Events) /\ Len(Tail(r.queue)) = q - 1
        BY <1>1, <3>1, HeadTailProperties
      <3> QED BY <1>1, <1>3, <2>1, <3>2, AppendProperties
    <2>2. CASE ~Full(r) BY <1>1, <1>3, <2>2, AppendProperties
    <2> QED BY <2>1, <2>2
  <1>6. InFront(s) = f BY <1>3 DEF InFront
  <1> HIDE DEF r, s, top
  <1>7. /\ f \in Nat /\ Len(Pending(r)) = f + q
        /\ \A i \in 1..f+q :
             Pending(r)[i] = IF i > f THEN top - q + (i - f)
                             ELSE IF r.pc = "send" THEN r.sending ELSE r.last + i
    BY <1>1, PendingAt
  <1>8. /\ Len(Pending(s)) = f + k
        /\ \A i \in 1..f+k :
             Pending(s)[i] = IF i > f THEN (top + 1) - k + (i - f)
                             ELSE IF r.pc = "send" THEN r.sending ELSE r.last + i
    <2>1. top + 1 \in Nat BY <1>1
    <2> QED BY <1>3, <1>4, <1>6, <2>1, PendingAt
  <1> HIDE DEF f, q, k
  <1>9. ASSUME NEW i \in 1..f+q PROVE Pending(r)[i] <= Pending(s)[i]
    <2>1. i \in 1..f+k /\ i \in Nat BY <1>1, <1>5, <1>7
    <2>2. CASE i > f
      <3>1. Pending(r)[i] = top - q + (i - f) /\ Pending(s)[i] = (top + 1) - k + (i - f)
        BY <1>7, <1>8, <2>1, <2>2
      <3> QED BY <1>1, <1>5, <1>7, <2>1, <3>1
    <2>3. CASE ~(i > f)
      <3>1. Pending(s)[i] = Pending(r)[i] BY <1>7, <1>8, <2>1, <2>3
      <3>2. Pending(r)[i] \in Nat BY <1>1, <1>7, <2>1, <2>3
      <3> QED BY <3>1, <3>2
    <2> QED BY <2>2, <2>3
  <1> QED BY <1>1, <1>3, <1>5, <1>7, <1>8, <1>9 DEF Forward, r, s

\* Every step, as one connection that lasts sees it.
LEMMA EveryStepMovesOn ==
    ASSUME IInv, IInv', [Next]_vars, NEW c \in Subscribers, c \in Subscribers'
    PROVE  \/ /\ conn'[c].last = conn[c].last
              /\ Forward(Pending(conn'[c]), Pending(conn[c]))
           \/ /\ Pending(conn[c]) # <<>>
              /\ conn'[c].last = Head(Pending(conn[c]))
              /\ Pending(conn'[c]) = Tail(Pending(conn[c]))
  <1>1. /\ c \in Clients /\ conn[c].pc # "out" /\ conn'[c].pc # "out"
        /\ conn \in [Clients -> Connections] /\ conn[c] \in Connections
        /\ conn'[c] \in Connections
        /\ published \in Nat /\ Lined(conn[c], published)
    BY OneConnection, BalancedIsLined DEF Subscribers, IInv, TypeOK
  <1>2. CASE Publish BY <1>2, PublishMovesOn
  <1>3. CASE conn'[c] = conn[c]
    BY <1>1, <1>3, PendingStays
  <1>4. CASE ReplaySent(c) \/ StreamSent(c) BY <1>1, <1>4, SendMovesOn
  <1>5. CASE Take(c) BY <1>1, <1>5, TakeMovesOn
  <1>6. CASE Await(c) \/ Heartbeat(c) \/ BeatSent(c)
    <2>1. /\ conn[c].pc # "send" /\ conn'[c].pc # "send" /\ conn'[c].last = conn[c].last
          /\ conn'[c].sending = conn[c].sending /\ conn'[c].backlog = conn[c].backlog
          /\ conn'[c].queue = conn[c].queue
      <3>1. CASE Await(c) BY <1>1, <3>1 DEF Await, Pump, Connections
      <3>2. CASE Heartbeat(c) BY <1>1, <3>2 DEF Heartbeat, Pump, Connections
      <3>3. CASE BeatSent(c) BY <1>1, <3>3 DEF BeatSent, Pump, Connections
      <3> QED BY <1>6, <3>1, <3>2, <3>3
    <2> QED BY <1>1, <2>1, PendingStays
  <1>7. CASE Connect(c) BY <1>1, <1>7 DEF Connect
  <1>8. CASE SendFails(c) \/ Cancelled(c)
    BY <1>1, <1>8 DEF SendFails, Cancelled, Pump, Unsubscribed, FreshConnection
  <1>9. ASSUME NEW d \in Clients \ {c},
               Connect(d) \/ ReplaySent(d) \/ Take(d) \/ Await(d) \/ StreamSent(d)
                 \/ Heartbeat(d) \/ BeatSent(d) \/ SendFails(d) \/ Cancelled(d)
        PROVE  conn'[c] = conn[c]
    BY <1>1, <1>9 DEF Connect, ReplaySent, Take, Await, StreamSent, Heartbeat, BeatSent,
       SendFails, Cancelled, Pump
  <1>10. CASE (\E d \in Clients : Vanish(d)) \/ UNCHANGED vars
    BY <1>3, <1>10 DEF Vanish, vars
  <1> QED BY <1>2, <1>3, <1>4, <1>5, <1>6, <1>7, <1>8, <1>9, <1>10 DEF Next

\* An event that waits for a slow client gets nearer to it with each send and is never
\* set back by what is published meanwhile: its place is kept, or taken by something
\* newer.  (Subscriber.offer ws.py:31-42, pump_websocket ws.py:101-109.)
THEOREM FeedNeverFallsBack == Spec => FeedMovesOn
  <1>1. IInv /\ IInv' /\ [Next]_vars =>
          [\A c \in Subscribers : c \in Subscribers' =>
              \/ /\ conn'[c].last = conn[c].last
                 /\ Forward(Pending(conn'[c]), Pending(conn[c]))
              \/ /\ Pending(conn[c]) # <<>>
                 /\ conn'[c].last = Head(Pending(conn[c]))
                 /\ Pending(conn'[c]) = Tail(Pending(conn[c]))]_vars
    BY EveryStepMovesOn
  <1> QED BY <1>1, Inductive, PTL DEF Spec, FeedMovesOn

\* The replay that is left is no longer than the ring.
ShortReplay == \A c \in Clients : Len(conn[c].backlog) <= Replay

LEMMA ShortReplayNext == ASSUME IInv, ShortReplay, [Next]_vars PROVE ShortReplay'
  <1>1. /\ conn \in [Clients -> Connections] /\ recent \in Seq(Events)
        /\ Len(recent) <= Replay /\ Len(<<>>) = 0
    BY EmptySeq DEF IInv, TypeOK
  <1>2. ASSUME NEW c \in Clients, NEW s, conn' = [conn EXCEPT ![c] = s],
               Len(s.backlog) <= Replay
        PROVE  ShortReplay'
    BY <1>1, <1>2 DEF ShortReplay
  <1>3. ASSUME NEW c \in Clients, Connect(c) PROVE ShortReplay'
    <2> DEFINE s == FreshConnection(IF recent = <<>> THEN "get" ELSE "replay",
                                    recent, published - Len(recent))
    <2>1. conn' = [conn EXCEPT ![c] = s] BY <1>3 DEF Connect
    <2>2. s.backlog = recent BY DEF FreshConnection
    <2> HIDE DEF s
    <2> QED BY <1>1, <1>2, <2>1, <2>2
  <1>4. ASSUME NEW c \in Clients, ReplaySent(c) PROVE ShortReplay'
    <2> DEFINE r == conn[c]
               s == [r EXCEPT !.backlog = Tail(@),
                              !.pc = IF Len(r.backlog) = 1 THEN "get" ELSE @,
                              !.last = Head(r.backlog), !.sent = @ + 1]
    <2>1. conn' = [conn EXCEPT ![c] = s] /\ r.pc = "replay"
      BY <1>4 DEF ReplaySent, Pump
    <2>2. r \in Connections /\ r.backlog \in Seq(Events) /\ r.backlog # <<>>
      BY <2>1, OneConnection DEF Balanced
    <2>3. s.backlog = Tail(r.backlog) BY <2>2 DEF Connections
    <2>4. Len(s.backlog) = Len(r.backlog) - 1 /\ Len(r.backlog) \in Nat
      BY <2>2, <2>3, HeadTailProperties
    <2>5. Len(s.backlog) <= Replay BY <2>4 DEF ShortReplay
    <2> HIDE DEF s
    <2> QED BY <1>2, <2>1, <2>5
  <1>5. ASSUME NEW c \in Clients,
               Take(c) \/ Await(c) \/ StreamSent(c) \/ Heartbeat(c) \/ BeatSent(c)
        PROVE  ShortReplay'
    <2>1. ASSUME NEW from, NEW s, Pump(c, from, s), s.backlog = conn[c].backlog
          PROVE  ShortReplay'
      BY <1>2, <2>1 DEF Pump, ShortReplay
    <2>2. conn[c] \in Connections BY <1>1
    <2>3. CASE Take(c) BY <2>1, <2>2, <2>3 DEF Take, Connections
    <2>4. CASE Await(c) BY <2>1, <2>2, <2>4 DEF Await, Connections
    <2>5. CASE StreamSent(c) BY <2>1, <2>2, <2>5 DEF StreamSent, Connections
    <2>6. CASE Heartbeat(c) BY <2>1, <2>2, <2>6 DEF Heartbeat, Connections
    <2>7. CASE BeatSent(c) BY <2>1, <2>2, <2>7 DEF BeatSent, Connections
    <2> QED BY <1>5, <2>3, <2>4, <2>5, <2>6, <2>7
  <1>6. ASSUME NEW c \in Clients, SendFails(c) \/ Cancelled(c) PROVE ShortReplay'
    BY <1>1, <1>2, <1>6 DEF SendFails, Cancelled, Pump, Unsubscribed, FreshConnection
  <1>7. CASE Publish
    <2>1. ASSUME NEW c \in Clients PROVE conn'[c].backlog = conn[c].backlog
      BY <1>1, <1>7 DEF Publish, Offer, Connections
    <2> QED BY <2>1 DEF ShortReplay
  <1>8. CASE (\E c \in Clients : Vanish(c)) \/ UNCHANGED vars
    BY <1>8 DEF Vanish, vars, ShortReplay
  <1> QED BY <1>3, <1>4, <1>5, <1>6, <1>7, <1>8 DEF Next

\* A client is never further behind than the ring and its queue: after that many sends
\* it has what was the newest event when the first of them began, or a newer one.
\* (maxsize and maxlen, ws.py:29 and 45-50.)
THEOREM LineStaysShort == Spec => []LineIsShort
  <1>1. Init => ShortReplay
    <2>1. Unsubscribed.backlog = <<>> /\ Len(<<>>) = 0
      BY EmptySeq DEF Unsubscribed, FreshConnection
    <2>2. 0 <= Replay OBVIOUS
    <2> QED BY <2>1, <2>2 DEF Init, ShortReplay
  <1>2. IInv /\ ShortReplay /\ [Next]_vars => ShortReplay'
    BY ShortReplayNext
  <1>3. IInv /\ ShortReplay => LineIsShort
    <2> SUFFICES ASSUME IInv, ShortReplay, NEW c \in Subscribers
                 PROVE  Len(Pending(conn[c])) <= Replay + Capacity + 1
      BY DEF LineIsShort
    <2>1. /\ c \in Clients /\ conn[c] \in Connections /\ Lined(conn[c], published)
          /\ published \in Nat /\ Len(conn[c].queue) <= Capacity
          /\ Len(conn[c].backlog) <= Replay /\ Len(conn[c].backlog) \in Nat
      BY OneConnection, BalancedIsLined DEF Subscribers, ShortReplay
    <2>2. /\ Len(Pending(conn[c])) = InFront(conn[c]) + Len(conn[c].queue)
          /\ Len(conn[c].queue) \in Nat
      BY <2>1, PendingAt
    <2>3. InFront(conn[c]) \in Nat /\ InFront(conn[c]) <= Replay + 1
      BY <2>1 DEF InFront
    <2> QED BY <2>1, <2>2, <2>3
  <1> QED BY <1>1, <1>2, <1>3, Inductive, PTL DEF Spec
=============================================================================
