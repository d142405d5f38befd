------------------------------- MODULE EventHub -------------------------------
(***************************************************************************)
(* The event hub and the WebSocket fan-out of src/api/ws.py: publishers    *)
(* append to a ring of recent events and offer each event to every         *)
(* subscriber's bounded queue; a connection replays the ring, then sends   *)
(* what its queue holds, and a heartbeat with its drop count when the      *)
(* queue stays empty for a while.                                          *)
(*                                                                         *)
(* An event is its number in the order of publication.  publish() awaits   *)
(* nothing that suspends, so it is one step; a connection suspends in      *)
(* send_json() and in queue.get() only.                                    *)
(***************************************************************************)
EXTENDS Naturals, Sequences

CONSTANTS Clients,     \* browser tabs, one connection at a time each
          Capacity,    \* maxsize of a subscriber's queue
          Replay,      \* maxlen of the ring of recent events
          MaxEvents,   \* bound: events published
          MaxJoins     \* bound: connections per client

ASSUME HubAssumption ==
    /\ Capacity \in Nat \ {0} /\ Replay \in Nat
    /\ MaxEvents \in Nat /\ MaxJoins \in Nat

Events == 1..MaxEvents

VARIABLES
  published,   \* events published so far; the last one has this number
  recent,      \* EventHub._recent
  conn,        \* the connection of each client: its coroutine and Subscriber
  here,        \* ground truth: the client at the other end is still there
  joins

vars == <<published, recent, conn, here, joins>>

\* pc is the await the coroutine is suspended in: send_json() in replay, send
\* and beat, queue.get() under wait_for() before its first look at the queue in
\* get, and after it found the queue empty in wait.
\* backlog: the rest of the replay, its head being sent.  sending: the event
\* taken from the queue that is being sent, in send.  told: the drop count of the
\* last heartbeat.  History: start is the last event before the replay, last the
\* last event that was sent, sent how many were.
ConnPcs == {"out", "replay", "get", "wait", "send", "beat"}
Connections ==
    [pc : ConnPcs, backlog : Seq(Events), queue : Seq(Events), sending : 0..MaxEvents,
     dropped : Nat, told : Nat, start : 0..MaxEvents, last : 0..MaxEvents, sent : Nat]
FreshConnection(pc, backlog, start) ==
    [pc |-> pc, backlog |-> backlog, queue |-> <<>>, sending |-> 0,
     dropped |-> 0, told |-> 0, start |-> start, last |-> start, sent |-> 0]
Unsubscribed == FreshConnection("out", <<>>, 0)

Subscribers == {c \in Clients : conn[c].pc # "out"}

TypeOK ==
    /\ published \in 0..MaxEvents
    /\ recent \in Seq(Events) /\ Len(recent) <= Replay
    /\ conn \in [Clients -> Connections]
    /\ \A c \in Clients : Len(conn[c].queue) <= Capacity
    /\ here \in [Clients -> BOOLEAN]
    /\ joins \in [Clients -> 0..MaxJoins]

Init ==
    /\ published = 0 /\ recent = <<>>
    /\ conn = [c \in Clients |-> Unsubscribed]
    /\ here = [c \in Clients |-> FALSE]
    /\ joins = [c \in Clients |-> 0]

-----------------------------------------------------------------------------
\* Publishing.

Full(s) == Len(s.queue) = Capacity

\* Mutant: a full queue is left as it is; the new event is the one dropped.
OfferIfRoom(s, e) ==
    IF Full(s) THEN [s EXCEPT !.dropped = @ + 1] ELSE [s EXCEPT !.queue = Append(@, e)]

\* Mutant: the queue is not bounded.
OfferAlways(s, e) == [s EXCEPT !.queue = Append(@, e)]

\* Mutant: an overflow is not counted.
OfferUncounted(s, e) == [s EXCEPT !.queue = Append(IF Full(s) THEN Tail(@) ELSE @, e)]

\* offer(): the oldest event makes room for the new one, and is counted.
Offer(s, e) ==
    IF Full(s) THEN [s EXCEPT !.queue = Append(Tail(@), e), !.dropped = @ + 1]
               ELSE [s EXCEPT !.queue = Append(@, e)]

\* deque(maxlen=replay).append()
Remember(e) == LET all == Append(recent, e)
               IN IF Len(all) > Replay THEN Tail(all) ELSE all

\* publish(): into the ring, and to every subscriber.
Publish ==
    /\ published < MaxEvents
    /\ published' = published + 1
    /\ recent' = Remember(published + 1)
    /\ conn' = [c \in Clients |->
                  IF c \in Subscribers THEN Offer(conn[c], published + 1) ELSE conn[c]]
    /\ UNCHANGED <<here, joins>>

-----------------------------------------------------------------------------
\* A connection.

\* Its coroutine goes on to the await in pc, with what it did on the way there.
Pump(c, from, s) ==
    /\ conn[c].pc = from
    /\ conn' = [conn EXCEPT ![c] = s]
    /\ UNCHANGED <<published, recent, joins>>

\* pump_websocket() up to its first await: the subscription and the copy of the
\* ring are taken together, so the stream begins where the replay ends.
Connect(c) ==
    /\ conn[c].pc = "out" /\ joins[c] < MaxJoins
    /\ conn' = [conn EXCEPT ![c] =
         FreshConnection(IF recent = <<>> THEN "get" ELSE "replay",
                         recent, published - Len(recent))]
    /\ here' = [here EXCEPT ![c] = TRUE]
    /\ joins' = [joins EXCEPT ![c] = @ + 1]
    /\ UNCHANGED <<published, recent>>

\* Mutant: the ring is read again for every event of the replay.
ReplaySentRereads(c) ==
    LET e == Head(conn[c].backlog)
        rest == SelectSeq(recent, LAMBDA r : r > e)
    IN /\ conn[c].pc = "replay"
       /\ Pump(c, "replay",
               [conn[c] EXCEPT !.backlog = rest, !.pc = IF rest = <<>> THEN "get" ELSE @,
                               !.last = e, !.sent = @ + 1])
       /\ UNCHANGED here

\* One event of the replay was sent; after the last one the stream begins.
ReplaySent(c) ==
    /\ conn[c].pc = "replay"
    /\ Pump(c, "replay",
            [conn[c] EXCEPT !.backlog = Tail(@),
                            !.pc = IF Len(conn[c].backlog) = 1 THEN "get" ELSE @,
                            !.last = Head(conn[c].backlog), !.sent = @ + 1])
    /\ UNCHANGED here

\* stream(): queue.get() returns the oldest event, which is sent next.
Take(c) ==
    /\ conn[c].pc \in {"get", "wait"} /\ conn[c].queue # <<>>
    /\ Pump(c, conn[c].pc, [conn[c] EXCEPT !.queue = Tail(@), !.pc = "send",
                                           !.sending = Head(conn[c].queue)])
    /\ UNCHANGED here

\* stream(): the queue is empty, and the heartbeat's timer runs.
Await(c) ==
    /\ conn[c].queue = <<>>
    /\ Pump(c, "get", [conn[c] EXCEPT !.pc = "wait"])
    /\ UNCHANGED here

StreamSent(c) ==
    /\ Pump(c, "send", [conn[c] EXCEPT !.pc = "get", !.sending = 0,
                                       !.last = conn[c].sending, !.sent = @ + 1])
    /\ UNCHANGED here

\* Mutant: a timer that beats an event takes the event with it.
HeartbeatSwallows(c) ==
    /\ Pump(c, "wait", [conn[c] EXCEPT !.pc = "beat", !.told = conn[c].dropped,
                          !.queue = IF @ = <<>> THEN @ ELSE Tail(@)])
    /\ UNCHANGED here

\* Mutant: an idle feed stays silent.
HeartbeatNever(c) == FALSE /\ UNCHANGED vars

\* Mutant: the heartbeat does not carry the count.
HeartbeatBare(c) ==
    /\ Pump(c, "wait", [conn[c] EXCEPT !.pc = "beat"])
    /\ UNCHANGED here

\* stream(): heartbeat_s passed, and the drop count is sent.  The timer may beat an
\* event that was put just now, which then stays in the queue.
Heartbeat(c) ==
    /\ Pump(c, "wait", [conn[c] EXCEPT !.pc = "beat", !.told = conn[c].dropped])
    /\ UNCHANGED here

BeatSent(c) ==
    /\ Pump(c, "beat", [conn[c] EXCEPT !.pc = "get"])
    /\ UNCHANGED here

\* The client goes away.  The coroutine does not hear of it: the reader task of
\* progress_socket() ends, but nothing awaits it while the pump runs.
Vanish(c) ==
    /\ c \in Subscribers /\ here[c]
    /\ here' = [here EXCEPT ![c] = FALSE]
    /\ UNCHANGED <<published, recent, conn, joins>>

\* A send to a client that is gone raises, which ends the subscription; until the
\* socket notices, sends may still seem to succeed.
SendFails(c) ==
    /\ ~here[c] /\ conn[c].pc \in {"replay", "send", "beat"}
    /\ Pump(c, conn[c].pc, Unsubscribed)
    /\ UNCHANGED here

\* The server cancels the handler: CancelledError at whichever await.
Cancelled(c) ==
    /\ c \in Subscribers
    /\ Pump(c, conn[c].pc, Unsubscribed)
    /\ here' = [here EXCEPT ![c] = FALSE]

Next ==
    \/ Publish
    \/ \E c \in Clients :
         Connect(c) \/ ReplaySent(c) \/ Take(c) \/ Await(c) \/ StreamSent(c)
           \/ Heartbeat(c) \/ BeatSent(c) \/ Vanish(c) \/ SendFails(c) \/ Cancelled(c)

Spec == Init /\ [][Next]_vars

\* A client that reads lets each send return, a socket to a client that is gone
\* notices in the end, and queue.get() under wait_for() returns or times out.
\* Nothing is assumed of publishers, of joining, of leaving.
FairSpec ==
    /\ Spec
    /\ \A c \in Clients :
         /\ WF_vars(ReplaySent(c)) /\ WF_vars(StreamSent(c)) /\ WF_vars(BeatSent(c))
         /\ WF_vars(Take(c) \/ Await(c) \/ Heartbeat(c)) /\ SF_vars(SendFails(c))

-----------------------------------------------------------------------------
\* Properties.

\* What a connection has yet to send, in the order in which it will.
Pending(s) ==
    (IF s.pc = "send" THEN <<s.sending>> ELSE <<>>) \o s.backlog \o s.queue

\* Each event since the start of the replay was sent once, is pending once, or is
\* counted as dropped: none is lost or doubled between the replay and the stream,
\* in an overflow, or when the timer of the heartbeat and a put race.
\* (Subscriber.offer ws.py:32-42, pump_websocket ws.py:103-105.)
Accounted ==
    \A c \in Subscribers :
      LET s == conn[c]
      IN published - s.start = s.sent + Len(Pending(s)) + s.dropped

\* A client never sees an event twice or an older one after a newer one, whatever
\* is published while it is slow: what was sent and what is pending is in the
\* order of publication.  (The replay and the queue, ws.py:103-111.)
InOrder ==
    \A c \in Subscribers :
      LET feed == <<conn[c].last>> \o Pending(conn[c])
      IN \A i \in 1..Len(feed)-1 : feed[i] < feed[i+1]

\* The newest event is the last thing a client was sent or will be: dropping
\* costs history, never the current state.  ("Drop the oldest, keep the newest",
\* ws.py:36-38, and the replay for late joiners, ws.py:48-49.)
NewestKept ==
    \A c \in Subscribers :
      LET feed == <<conn[c].last>> \o Pending(conn[c])
      IN feed[Len(feed)] = published

\* A client that reads is never behind for good: once an event is out each
\* subscriber is sent it or a newer one, or leaves.  (stream(), ws.py:69-95.)
CatchesUp ==
    \A c \in Clients : \A e \in Events :
      (c \in Subscribers /\ published >= e)
        ~> (c \notin Subscribers \/ conn[c].last >= e)

\* A client that is gone does not keep its subscription: if no event meets the
\* dead socket, a heartbeat does.  (ws.py:72-76, server.py:151-158.)
GoneIsUnsubscribed ==
    \A c \in Clients :
      (c \in Subscribers /\ ~here[c]) ~> (c \notin Subscribers \/ here[c])

\* Once nothing more is published each subscriber is told how many events it
\* missed.  (The drop count of the heartbeat, ws.py:77-81.)
DropsAdmitted ==
    (<>[][UNCHANGED published]_published) =>
      \A c \in Clients :
        (c \in Subscribers) ~> (c \notin Subscribers \/ conn[c].told = conn[c].dropped)
=============================================================================
