------------------------------- MODULE LiveFeed --------------------------------
(***************************************************************************)
(* What the WebSocket fan-out promises a dashboard: the frames of one feed  *)
(* in their order, none twice.  A client that is too slow misses frames,    *)
(* but only such as were already followed by Capacity newer ones.           *)
(***************************************************************************)
EXTENDS Naturals, Sequences

CONSTANTS
    Clients,
    Capacity   \* CLIENT_QUEUE_MAXSIZE

VARIABLES
    feed,  \* every frame fanned out so far
    open,  \* the clients that are connected
    got    \* position of the last frame a client received, or joined after

feedVars == <<feed, open, got>>

FeedInit ==
    /\ feed = << >>
    /\ open = {}
    /\ got = [c \in Clients |-> 0]

\* Frames are only ever added behind the others.
Extend ==
    /\ Len(feed') > Len(feed)
    /\ SubSeq(feed', 1, Len(feed)) = feed
    /\ UNCHANGED <<open, got>>

Join(c) ==
    /\ c \notin open
    /\ open' = open \cup {c}
    /\ got' = [got EXCEPT ![c] = Len(feed)]
    /\ UNCHANGED feed

\* Either end may close a connection; what was still queued is gone.
Leave(c) ==
    /\ c \in open
    /\ open' = open \ {c}
    /\ UNCHANGED <<feed, got>>

\* Frame i arrives; the ones between were shed.
Receive(c, i) ==
    /\ c \in open
    /\ i \in got[c] + 1 .. Len(feed)
    /\ \A j \in got[c] + 1 .. i - 1 : j + Capacity <= Len(feed)
    /\ got' = [got EXCEPT ![c] = i]
    /\ UNCHANGED <<feed, open>>

FeedNext ==
    \/ Extend
    \/ \E c \in Clients :
          \/ Join(c)
          \/ Leave(c)
          \/ \E i \in 1 .. Len(feed) : Receive(c, i)

FeedSpec == FeedInit /\ [][FeedNext]_feedVars

================================================================================
