-------------------------------- MODULE FanOut ---------------------------------
(***************************************************************************)
(* ConnectionManager of one API process: listen_to_redis reads the streams  *)
(* behind its cursors and puts every message on the bounded queue of every  *)
(* connected client; one sender task per client drains the queue.  With     *)
(* websocket_backend=direct there is no stream, broadcast fans out itself.  *)
(* Redis is external: XREAD with "$" waits for what is added after the call.*)
(***************************************************************************)
EXTENDS Integers, Sequences

CONSTANTS
    Clients,
    Stalled,       \* the clients that may stop reading for good
    None,          \* nothing in hand
    Backends,      \* websocket_backend: "redis", "direct" or either
    Capacity,      \* CLIENT_QUEUE_MAXSIZE
    Count,         \* COUNT of XREAD
    MaxPublished,  \* bound: messages per stream
    MaxTotal,      \* bound: messages on both streams together
    MaxFaults      \* bound: failed reads, trims and restarts of Redis
ASSUME FanOutAssumption ==
    /\ Capacity \in Nat \ {0} /\ Count \in Nat \ {0}
    /\ MaxPublished \in Nat /\ MaxTotal \in Nat /\ MaxFaults \in Nat
    /\ Stalled \subseteq Clients
    /\ None \notin Nat
    /\ Backends \subseteq {"redis", "direct"}

VARIABLES
    backend,    \* the setting
    published,  \* messages ever added to a stream: message n is its n-th
    gone,       \* the messages up to this one are no longer in Redis
    last_ids,   \* the cursor: a message, or "$"
    from,       \* what the XREAD under way reads after; None between two calls
    feed,       \* every message fanned out, in order
    active,     \* active_connections
    queue,      \* _queues: positions in feed
    sending,    \* the position a sender task awaits the send of
    got,        \* the position a client received last, or joined after
    faults

redis == <<published, gone>>
listener == <<last_ids, from>>
connections == <<active, queue, sending, got>>
ovars == <<backend, redis, listener, feed, connections, faults>>

Streams == {"telemetry", "events"}
Dollar == -1
Frame == Streams \X Nat

FanOutTypeOK ==
    /\ backend \in Backends
    /\ published \in [Streams -> 0..MaxPublished]
    /\ gone \in [Streams -> 0..MaxPublished]
    /\ last_ids \in [Streams -> {Dollar} \cup 1..MaxPublished]
    /\ from = None \/ from \in [Streams -> 0..MaxPublished]
    /\ feed \in Seq(Frame)
    /\ active \subseteq Clients
    /\ \A c \in Clients :
          /\ Len(queue[c]) <= Capacity
          /\ c \notin active => queue[c] = << >> /\ sending[c] = None
          /\ sending[c] \in {None} \cup 1..Len(feed)
          /\ got[c] \in 0..Len(feed)
    /\ faults \in 0..MaxFaults

FanOutInit ==
    /\ backend \in Backends
    /\ published = [s \in Streams |-> 0]
    /\ gone = [s \in Streams |-> 0]
    /\ last_ids = [s \in Streams |-> Dollar]
    /\ from = None
    /\ feed = << >>
    /\ active = {}
    /\ queue = [c \in Clients |-> << >>]
    /\ sending = [c \in Clients |-> None]
    /\ got = [c \in Clients |-> 0]
    /\ faults = 0

Fault == faults < MaxFaults /\ faults' = faults + 1

-----------------------------------------------------------------------------
(* _fan_out and _enqueue_to_all_clients. *)

\* Mutant: a full queue refuses the newest frame.
OverflowDropsNewest(q) == IF Len(q) > Capacity THEN SubSeq(q, 1, Capacity) ELSE q

\* Mutant: a full queue is emptied for the newest frame.
OverflowEmpties(q) == IF Len(q) > Capacity THEN <<q[Len(q)]>> ELSE q

\* Mutant: the queue has no bound.
OverflowUnbounded(q) == q

\* A full queue sheds its oldest frames.
Overflow(q) ==
    IF Len(q) > Capacity THEN SubSeq(q, Len(q) - Capacity + 1, Len(q)) ELSE q

\* The messages of a batch go to every queue without an await in between.
FanOutBatch(batch) ==
    /\ feed' = feed \o batch
    /\ queue' = [c \in Clients |->
          IF c \in active
          THEN Overflow(queue[c] \o [i \in 1..Len(batch) |-> Len(feed) + i])
          ELSE queue[c]]
    /\ UNCHANGED <<active, sending, got>>

-----------------------------------------------------------------------------
(* broadcast, broadcast_batch: XADD, or fan out at once. *)

Broadcast(s) ==
    /\ published[s] < MaxPublished
    /\ published["telemetry"] + published["events"] < MaxTotal
    /\ published' = [published EXCEPT ![s] = @ + 1]
    /\ \/ /\ backend = "direct"
          /\ FanOutBatch(<< <<s, published[s] + 1>> >>)
       \/ /\ backend = "redis"
          /\ UNCHANGED <<feed, connections>>
    /\ UNCHANGED <<backend, gone, listener, faults>>

\* MAXLEN trims the oldest messages; a restart of Redis forgets all of them.
Forget(s) ==
    /\ backend = "redis"
    /\ \E n \in gone[s] + 1 .. published[s] : gone' = [gone EXCEPT ![s] = n]
    /\ Fault
    /\ UNCHANGED <<backend, published, listener, feed, connections>>

-----------------------------------------------------------------------------
(* listen_to_redis. *)

\* XREAD starts: "$" is resolved now.
ListenerCall ==
    /\ backend = "redis"
    /\ from = None
    /\ from' = [s \in Streams |-> IF last_ids[s] = Dollar THEN published[s] ELSE last_ids[s]]
    /\ UNCHANGED <<backend, redis, last_ids, feed, connections, faults>>

\* What XREAD returns of a stream: up to Count messages behind the cursor.
Unread(s) ==
    LET after == IF gone[s] > from[s] THEN gone[s] ELSE from[s]
        n == IF published[s] - after > Count THEN Count ELSE published[s] - after
    IN [i \in 1..n |-> <<s, after + i>>]

\* last_ids[stream_name] = message_id, for each message returned
Advance(s) == IF Unread(s) = << >> THEN last_ids[s] ELSE Unread(s)[Len(Unread(s))][2]

\* The messages of all streams, one stream after the other.
Batch == Unread("telemetry") \o Unread("events")

\* XREAD returns something: the cursors move, every message is fanned out.
ListenerDeliver ==
    /\ from # None
    /\ Batch # << >>
    /\ last_ids' = [s \in Streams |-> Advance(s)]
    /\ FanOutBatch(Batch)
    /\ from' = None
    /\ UNCHANGED <<backend, redis, faults>>

\* XREAD blocked for a second in vain.
ListenerTimeout ==
    /\ from # None
    /\ Batch = << >>
    /\ from' = None
    /\ UNCHANGED <<backend, redis, last_ids, feed, connections, faults>>

\* Mutant: a failed read starts over at the end of the streams.
ListenerErrorStartsOver ==
    /\ from # None
    /\ from' = None
    /\ last_ids' = [s \in Streams |-> Dollar]
    /\ Fault
    /\ UNCHANGED <<backend, redis, feed, connections>>

\* The call fails; the loop sleeps and reads again behind the same cursors.
ListenerError ==
    /\ from # None
    /\ from' = None
    /\ Fault
    /\ UNCHANGED <<backend, redis, last_ids, feed, connections>>

-----------------------------------------------------------------------------
(* Connections: connect, _sender_loop, disconnect, websocket_endpoint. *)

Connect(c) ==
    /\ c \notin active
    /\ active' = active \cup {c}
    /\ got' = [got EXCEPT ![c] = Len(feed)]
    /\ UNCHANGED <<backend, redis, listener, feed, queue, sending, faults>>

\* disconnect: called by the endpoint when the client closes or a ping fails, and
\* by the sender when a send fails.
Disconnect(c) ==
    /\ c \in active
    /\ active' = active \ {c}
    /\ queue' = [queue EXCEPT ![c] = << >>]
    /\ sending' = [sending EXCEPT ![c] = None]
    /\ UNCHANGED <<backend, redis, listener, feed, got, faults>>

SenderTake(c) ==
    /\ c \in active
    /\ sending[c] = None
    /\ queue[c] # << >>
    /\ sending' = [sending EXCEPT ![c] = Head(queue[c])]
    /\ queue' = [queue EXCEPT ![c] = Tail(@)]
    /\ UNCHANGED <<backend, redis, listener, feed, active, got, faults>>

SenderSent(c) ==
    /\ sending[c] # None
    /\ got' = [got EXCEPT ![c] = sending[c]]
    /\ sending' = [sending EXCEPT ![c] = None]
    /\ UNCHANGED <<backend, redis, listener, feed, active, queue, faults>>

-----------------------------------------------------------------------------
Listener == ListenerCall \/ ListenerDeliver \/ ListenerTimeout

FanOutNext ==
    \/ \E s \in Streams : Broadcast(s) \/ Forget(s)
    \/ Listener
    \/ ListenerError
    \/ \E c \in Clients :
          Connect(c) \/ Disconnect(c) \/ SenderTake(c) \/ SenderSent(c)

\* The listener task goes on; so does the sender of a client that reads.
FanOutFairness ==
    /\ WF_ovars(Listener)
    /\ \A c \in Clients \ Stalled : WF_ovars(SenderTake(c)) /\ WF_ovars(SenderSent(c))

FanOutSpec == FanOutInit /\ [][FanOutNext]_ovars /\ FanOutFairness

-----------------------------------------------------------------------------
(* Properties. *)

\* The messages of one stream are fanned out in order, each once, and none is left
\* out between two of them unless Redis no longer had it, whatever reads failed.
Gapless ==
    \A i, j \in 1..Len(feed) :
        i < j /\ feed[i][1] = feed[j][1] =>
            /\ feed[i][2] < feed[j][2]
            /\ \A n \in feed[i][2] + 1 .. feed[j][2] - 1 :
                  n > gone[feed[i][1]] => \E k \in i..j : feed[k] = <<feed[i][1], n>>

Feed == INSTANCE LiveFeed WITH open <- active

\* The clients see what LiveFeed promises: a client sheds only frames that Capacity
\* newer ones follow.
ImplementsLiveFeed == Feed!FeedSpec

\* The newest frame reaches every connected client that reads, even when another
\* client has stopped reading for good.
NewestArrives ==
    \A c \in Clients \ Stalled :
        []<>(c \notin active \/ got[c] = Len(feed))

\* What is published behind a cursor is fanned out unless Redis lost it first.
PublishedIsFanned ==
    \A s \in Streams : \A n \in 1..MaxPublished :
        (last_ids[s] \in 1..n-1 /\ published[s] >= n)
            ~> (gone[s] >= n \/ \E i \in 1..Len(feed) : feed[i] = <<s, n>>)

================================================================================
