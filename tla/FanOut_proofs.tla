----------------------------- MODULE FanOut_proofs -----------------------------
(***************************************************************************)
(* Proofs about FanOut for any number of clients, any queue capacity, any  *)
(* batch size and either backend.                                          *)
(*                                                                         *)
(* Two facts carry the argument.  The feed holds every message of a stream *)
(* between the first one fanned out and the cursor, except what Redis      *)
(* lost.  A client's queue is always the newest frames of the feed, so     *)
(* what lies between the frame in hand and the queue was shed behind       *)
(* Capacity newer frames.                                                  *)
(***************************************************************************)
EXTENDS FanOut, SequenceTheorems, TLAPS

FanTyped ==
    /\ backend \in Backends
    /\ published \in [Streams -> 0..MaxPublished]
    /\ gone \in [Streams -> 0..MaxPublished]
    /\ last_ids \in [Streams -> {Dollar} \cup 1..MaxPublished]
    /\ from = None \/ from \in [Streams -> 0..MaxPublished]
    /\ feed \in Seq(Frame)
    /\ active \in SUBSET Clients
    /\ queue \in [Clients -> Seq(Nat)]
    /\ sending \in [Clients -> Nat \cup {None}]
    /\ got \in [Clients -> Nat]
    /\ faults \in 0..MaxFaults

\* How far a stream has been fanned out.
Top(s) == IF backend = "direct" THEN published[s] ELSE last_ids[s]

\* The cursors stay inside the streams; a read under way starts at the cursor.
CursorInv ==
    \A s \in Streams :
        /\ gone[s] <= published[s]
        /\ last_ids[s] <= published[s]
        /\ from # None => /\ backend = "redis"
                          /\ from[s] <= published[s]
                          /\ last_ids[s] # Dollar => from[s] = last_ids[s]

\* Messages of a stream are fanned out in order, up to Top.
FeedOrdered ==
    /\ \A i \in 1..Len(feed) : feed[i][2] \in 1..Top(feed[i][1])
    /\ \A i, j \in 1..Len(feed) :
          i < j /\ feed[i][1] = feed[j][1] => feed[i][2] < feed[j][2]

\* From the first message fanned out up to Top none is left out that Redis still has.
FeedWhole ==
    \A i \in 1..Len(feed) : \A n \in feed[i][2]..Top(feed[i][1]) :
        n > gone[feed[i][1]] => \E k \in 1..Len(feed) : feed[k] = <<feed[i][1], n>>

\* The frame a client has or is being sent.
InFlight(c) == IF sending[c] = None THEN got[c] ELSE sending[c]

\* The queue of a client is the end of the feed; what is missing before it was
\* shed behind Capacity newer frames.
QueueInv(c) ==
    /\ Len(queue[c]) <= Capacity
    /\ c \notin active => queue[c] = << >> /\ sending[c] = None
    /\ \A i \in 1..Len(queue[c]) : queue[c][i] = Len(feed) - Len(queue[c]) + i
    /\ got[c] <= Len(feed)
    /\ InFlight(c) + Len(queue[c]) <= Len(feed)
    /\ sending[c] # None =>
          /\ got[c] < sending[c]
          /\ \A j \in got[c] + 1 .. sending[c] - 1 : j + Capacity <= Len(feed)
    /\ c \in active =>
          \A j \in InFlight(c) + 1 .. Len(feed) - Len(queue[c]) : j + Capacity <= Len(feed)

OInv ==
    /\ FanTyped
    /\ CursorInv
    /\ FeedOrdered
    /\ FeedWhole
    /\ \A c \in Clients : QueueInv(c)

-----------------------------------------------------------------------------
(* The queue at its limit. *)

\* Overflow keeps the newest frames, as many as fit.
LEMMA OverflowKeepsNewest ==
  ASSUME NEW q \in Seq(Nat)
  PROVE  /\ Overflow(q) \in Seq(Nat)
         /\ Len(Overflow(q)) = IF Len(q) > Capacity THEN Capacity ELSE Len(q)
         /\ \A i \in 1..Len(Overflow(q)) : Overflow(q)[i] = q[Len(q) - Len(Overflow(q)) + i]
  <1>1. Capacity \in Nat \ {0} /\ Len(q) \in Nat
    BY FanOutAssumption
  <1>2. CASE Len(q) > Capacity
    <2> DEFINE m == Len(q) - Capacity + 1
    <2>1. m \in Int /\ Len(q) \in Int /\ \A i \in m..Len(q) : q[i] \in Nat
      BY <1>1, <1>2
    <2>2. /\ SubSeq(q, m, Len(q)) \in Seq(Nat)
          /\ Len(SubSeq(q, m, Len(q))) = IF m <= Len(q) THEN Len(q) - m + 1 ELSE 0
          /\ \A i \in 1 .. Len(q) - m + 1 : SubSeq(q, m, Len(q))[i] = q[m + i - 1]
      <3> HIDE DEF m
      <3> QED
        BY <2>1, SubSeqProperties
    <2>3. Overflow(q) = SubSeq(q, m, Len(q))
      BY <1>2 DEF Overflow
    <2>4. Len(q) - m + 1 = Capacity /\ m <= Len(q)
      BY <1>1
    <2>5. Len(Overflow(q)) = Capacity
      BY <2>2, <2>3, <2>4
    <2>6. \A i \in 1..Capacity : m + i - 1 = Len(q) - Capacity + i
      BY <1>1
    <2> HIDE DEF m
    <2> QED
      BY <1>2, <2>2, <2>3, <2>4, <2>5, <2>6
  <1>3. CASE ~(Len(q) > Capacity)
    BY <1>1, <1>3 DEF Overflow
  <1> QED
    BY <1>2, <1>3

\* A batch is added behind the feed.
LEMMA FeedExtends ==
  ASSUME FanTyped, NEW batch \in Seq(Frame), FanOutBatch(batch)
  PROVE  /\ feed' \in Seq(Frame)
         /\ Len(feed) \in Nat
         /\ Len(batch) \in Nat
         /\ Len(feed') = Len(feed) + Len(batch)
         /\ \A i \in 1..Len(feed) : feed'[i] = feed[i]
         /\ \A i \in 1..Len(batch) : feed'[Len(feed) + i] = batch[i]
  <1>1. feed \in Seq(Frame) /\ feed' = feed \o batch
    BY DEF FanTyped, FanOutBatch
  <1>2. Len(feed) \in Nat /\ Len(batch) \in Nat
    BY <1>1
  <1>3. /\ feed' \in Seq(Frame)
        /\ Len(feed') = Len(feed) + Len(batch)
        /\ \A i \in 1 .. Len(feed) + Len(batch) :
              feed'[i] = IF i <= Len(feed) THEN feed[i] ELSE batch[i - Len(feed)]
    BY <1>1, ConcatProperties
  <1>4. ASSUME NEW i \in 1..Len(batch)
        PROVE  feed'[Len(feed) + i] = batch[i]
    <2>1. /\ Len(feed) + i \in 1 .. Len(feed) + Len(batch)
          /\ ~(Len(feed) + i <= Len(feed))
          /\ Len(feed) + i - Len(feed) = i
      BY <1>2
    <2> QED
      BY <1>3, <2>1
  <1>5. \A i \in 1..Len(feed) : feed'[i] = feed[i]
    BY <1>2, <1>3
  <1> QED
    BY <1>2, <1>3, <1>4, <1>5

\* _enqueue_to_all_clients keeps every queue the end of the feed.
LEMMA QueueExtends ==
  ASSUME OInv, NEW batch \in Seq(Frame), FanOutBatch(batch)
  PROVE  queue' \in [Clients -> Seq(Nat)] /\ \A c \in Clients : QueueInv(c)'
  <1> DEFINE m == Len(batch)
  <1> DEFINE L == Len(feed)
  <1> DEFINE new == [i \in 1..m |-> L + i]
  <1>1. /\ L \in Nat /\ m \in Nat
        /\ Len(feed') = L + m
    BY FeedExtends DEF OInv
  <1>2. Capacity \in Nat \ {0} /\ None \notin Nat
    BY FanOutAssumption
  <1>3. /\ queue \in [Clients -> Seq(Nat)]
        /\ sending \in [Clients -> Nat \cup {None}]
        /\ got \in [Clients -> Nat]
        /\ UNCHANGED <<active, sending, got>>
        /\ queue' = [c \in Clients |-> IF c \in active THEN Overflow(queue[c] \o new) ELSE queue[c]]
    BY DEF OInv, FanTyped, FanOutBatch
  <1>4. new \in Seq(Nat) /\ Len(new) = m /\ \A i \in 1..m : new[i] = L + i
    <2>1. \A i \in 1..m : L + i \in Nat
      BY <1>1
    <2>2. new \in Seq(Nat)
      <3> HIDE DEF L, m
      <3> QED
        BY <1>1, <2>1, IsASeq
    <2> QED
      BY <1>1, <2>2
  <1> HIDE DEF new, L, m
  <1>5. ASSUME NEW c \in Clients, c \in active
        PROVE  /\ queue'[c] \in Seq(Nat)
               /\ Len(queue'[c]) = IF Len(queue[c]) + m > Capacity THEN Capacity
                                   ELSE Len(queue[c]) + m
               /\ Len(queue[c]) \in Nat
               /\ \A i \in 1..Len(queue'[c]) : queue'[c][i] = (L + m) - Len(queue'[c]) + i
    <2> DEFINE q == queue[c] \o new
    <2> DEFINE l == Len(queue[c])
    <2>1. queue[c] \in Seq(Nat) /\ l \in Nat
      BY <1>3
    <2>2. /\ q \in Seq(Nat)
          /\ Len(q) = l + m
          /\ \A i \in 1 .. l + m : q[i] = IF i <= l THEN queue[c][i] ELSE new[i - l]
      BY <1>4, <2>1, ConcatProperties
    <2>3. queue'[c] = Overflow(q)
      BY <1>3, <1>5
    <2>4. \A i \in 1..l : queue[c][i] = L - l + i
      BY DEF OInv, QueueInv, L
    <2> HIDE DEF q, l
    <2>5. ASSUME NEW i \in 1..(l + m)
          PROVE  q[i] = L - l + i
      <3>1. CASE i <= l
        <4>1. i \in 1..l
          BY <1>1, <2>1, <3>1
        <4>2. q[i] = queue[c][i]
          BY <2>2, <3>1
        <4> QED
          BY <2>4, <4>1, <4>2
      <3>2. CASE ~(i <= l)
        <4>1. i - l \in 1..m /\ L + (i - l) = L - l + i
          BY <1>1, <2>1, <3>2
        <4> QED
          BY <1>4, <2>2, <3>2, <4>1
      <3> QED
        BY <3>1, <3>2
    <2> DEFINE k == Len(queue'[c])
    <2>6. /\ queue'[c] \in Seq(Nat)
          /\ k = IF l + m > Capacity THEN Capacity ELSE l + m
          /\ \A i \in 1..k : queue'[c][i] = q[(l + m) - k + i]
      <3>1. /\ Overflow(q) \in Seq(Nat)
            /\ Len(Overflow(q)) = IF Len(q) > Capacity THEN Capacity ELSE Len(q)
            /\ \A i \in 1..Len(Overflow(q)) : Overflow(q)[i] = q[Len(q) - Len(Overflow(q)) + i]
        BY <2>2, OverflowKeepsNewest
      <3>2. k = Len(Overflow(q))
        BY <2>3
      <3> HIDE DEF k
      <3>3. \A i \in 1..k : Overflow(q)[i] = q[(l + m) - k + i]
        BY <2>2, <3>1, <3>2
      <3> QED
        BY <2>2, <2>3, <3>1, <3>2, <3>3
    <2> HIDE DEF k
    <2>7. k \in Nat /\ k <= l + m
      BY <1>1, <1>2, <2>1, <2>6
    <2>8. ASSUME NEW i \in 1..k
          PROVE  queue'[c][i] = (L + m) - k + i
      <3>1. (l + m) - k + i \in 1..(l + m) /\ L - l + ((l + m) - k + i) = (L + m) - k + i
        BY <1>1, <2>1, <2>7
      <3> QED
        BY <2>5, <2>6, <3>1
    <2> QED
      BY <2>1, <2>6, <2>8 DEF k, l
  <1>6. ASSUME NEW c \in Clients, c \notin active
        PROVE  queue'[c] = queue[c]
    BY <1>3, <1>6
  <1>7. queue' \in [Clients -> Seq(Nat)]
    BY <1>3, <1>5, <1>6
  <1>8. ASSUME NEW c \in Clients
        PROVE  QueueInv(c)'
    <2>1. QueueInv(c) /\ InFlight(c)' = InFlight(c) /\ InFlight(c) \in Nat
      BY <1>3 DEF OInv, InFlight
    <2>2. sending[c] # None => sending[c] \in Nat /\ got[c] \in Nat
      BY <1>3
    <2>3. CASE c \in active
      <3>1. /\ Len(queue'[c]) = IF Len(queue[c]) + m > Capacity THEN Capacity
                                ELSE Len(queue[c]) + m
            /\ Len(queue[c]) \in Nat
            /\ \A i \in 1..Len(queue'[c]) : queue'[c][i] = (L + m) - Len(queue'[c]) + i
        BY <1>5, <2>3
      <3>2. InFlight(c) + Len(queue'[c]) <= L + m
        BY <1>1, <1>2, <2>1, <3>1 DEF QueueInv, L
      <3>3. \A j \in InFlight(c) + 1 .. (L + m) - Len(queue'[c]) : j + Capacity <= L + m
        <4>1. \A j \in InFlight(c) + 1 .. L - Len(queue[c]) : j + Capacity <= L
          BY <2>1, <2>3 DEF QueueInv, L
        <4>2. CASE Len(queue[c]) + m > Capacity
          BY <1>1, <1>2, <2>1, <3>1, <4>2
        <4>3. CASE ~(Len(queue[c]) + m > Capacity)
          <5>1. (L + m) - Len(queue'[c]) = L - Len(queue[c])
            BY <1>1, <3>1, <4>3
          <5>2. \A j \in InFlight(c) + 1 .. L - Len(queue[c]) : j \in Int /\ j + Capacity <= L + m
            BY <1>1, <1>2, <2>1, <3>1, <4>1
          <5> QED
            BY <5>1, <5>2
        <4> QED
          BY <4>2, <4>3
      <3>4. sending[c] # None =>
               /\ got[c] < sending[c]
               /\ \A j \in got[c] + 1 .. sending[c] - 1 : j + Capacity <= L + m
        BY <1>1, <1>2, <2>1, <2>2 DEF QueueInv, L
      <3>5. got[c] <= L + m /\ Len(queue'[c]) <= Capacity
        BY <1>1, <1>2, <1>3, <2>1, <3>1 DEF QueueInv, L
      <3> QED
        BY <1>1, <1>3, <2>1, <2>3, <3>1, <3>2, <3>3, <3>4, <3>5 DEF QueueInv
    <2>4. CASE c \notin active
      <3>1. queue'[c] = << >> /\ queue[c] = << >> /\ sending[c] = None
        BY <1>6, <2>1, <2>4 DEF QueueInv
      <3>2. got[c] <= L + m /\ InFlight(c) <= L + m
        BY <1>1, <1>3, <2>1, <3>1 DEF QueueInv, L
      <3> QED
        BY <1>1, <1>2, <1>3, <2>1, <2>4, <3>1, <3>2 DEF QueueInv
    <2> QED
      BY <2>3, <2>4
  <1> QED
    BY <1>7, <1>8

-----------------------------------------------------------------------------
(* The feed. *)

\* Fanning out what lies behind Top, in order and whole, keeps the feed so.
LEMMA FeedKept ==
  ASSUME OInv, NEW batch \in Seq(Frame), FanOutBatch(batch),
         \A s \in Streams : Top(s) \in Int /\ Top(s)' \in Int /\ Top(s) <= Top(s)',
         \A s \in Streams : gone[s] \in Int /\ gone'[s] \in Int /\ gone[s] <= gone'[s],
         \A i \in 1..Len(batch) : /\ Top(batch[i][1]) < batch[i][2]
                                  /\ batch[i][2] \in 1..Top(batch[i][1])',
         \A i, j \in 1..Len(batch) :
            i < j /\ batch[i][1] = batch[j][1] => batch[i][2] < batch[j][2],
         \A s \in Streams : \A n \in Top(s) + 1 .. Top(s)' :
            (/\ n > gone'[s]
             /\ Top(s) # Dollar \/ \E i \in 1..Len(batch) : batch[i][1] = s /\ batch[i][2] <= n)
               => \E k \in 1..Len(batch) : batch[k] = <<s, n>>
  PROVE  FeedOrdered' /\ FeedWhole'
  <1> DEFINE T == [s \in Streams |-> Top(s)']
  <1>0. /\ \A s \in Streams : T[s] = Top(s)' /\ Top(s) \in Int /\ T[s] \in Int /\ Top(s) <= T[s]
        /\ \A i \in 1..Len(batch) : /\ Top(batch[i][1]) < batch[i][2]
                                    /\ batch[i][2] \in 1..T[batch[i][1]]
        /\ \A s \in Streams : \A n \in Top(s) + 1 .. T[s] :
            (/\ n > gone'[s]
             /\ Top(s) # Dollar \/ \E i \in 1..Len(batch) : batch[i][1] = s /\ batch[i][2] <= n)
               => \E k \in 1..Len(batch) : batch[k] = <<s, n>>
    <2>1. \A s \in Streams : T[s] = Top(s)'
      OBVIOUS
    <2>2. \A i \in 1..Len(batch) : batch[i][1] \in Streams
      BY DEF Frame
    <2> HIDE DEF T
    <2> QED
      BY <2>1, <2>2
  <1> HIDE DEF T
  <1> DEFINE L == Len(feed)
  <1> DEFINE m == Len(batch)
  <1>1. /\ L \in Nat /\ m \in Nat
        /\ Len(feed') = L + m
        /\ \A i \in 1..L : feed'[i] = feed[i]
        /\ \A i \in 1..m : feed'[L + i] = batch[i]
    BY FeedExtends DEF OInv
  <1>2. /\ \A i \in 1..L : feed[i] \in Frame
        /\ \A i \in 1..m : batch[i] \in Frame
    BY DEF OInv, FanTyped
  <1>3. \A f \in Frame : f[1] \in Streams /\ f[2] \in Nat /\ f = <<f[1], f[2]>>
    BY DEF Frame
  <1>4. /\ \A i \in 1..L : feed[i][2] \in 1..Top(feed[i][1])
        /\ \A i, j \in 1..L : i < j /\ feed[i][1] = feed[j][1] => feed[i][2] < feed[j][2]
        /\ \A i \in 1..L : \A n \in feed[i][2]..Top(feed[i][1]) :
              n > gone[feed[i][1]] => \E k \in 1..L : feed[k] = <<feed[i][1], n>>
    BY DEF OInv, FeedOrdered, FeedWhole
  <1> HIDE DEF L, m
  <1>5. \A i \in 1..(L + m) : i \in 1..L \/ (i - L \in 1..m /\ i = L + (i - L))
    BY <1>1
  <1>6. \A i \in 1..m : L + i \in 1..(L + m)
    BY <1>1
  <1>7. \A i \in 1..L : i \in 1..(L + m)
    BY <1>1
  <1>8. ASSUME NEW i \in 1..(L + m)
        PROVE  feed'[i] \in Frame /\ feed'[i][2] \in 1..T[feed'[i][1]]
    <2>1. CASE i \in 1..L
      <3>1. feed'[i] = feed[i] /\ feed[i] \in Frame /\ feed[i][2] \in 1..Top(feed[i][1])
        BY <1>1, <1>2, <1>4, <2>1
      <3> QED
        BY <1>0, <1>3, <3>1
    <2>2. CASE i - L \in 1..m /\ i = L + (i - L)
      BY <1>0, <1>1, <1>2, <2>2 DEF m
    <2> QED
      BY <1>5, <2>1, <2>2
  <1>9. ASSUME NEW i \in 1..(L + m), NEW j \in 1..(L + m), i < j, feed'[i][1] = feed'[j][1]
        PROVE  feed'[i][2] < feed'[j][2]
    <2>1. CASE j \in 1..L
      <3>1. i \in 1..L
        BY <1>1, <1>9, <2>1
      <3> QED
        BY <1>1, <1>4, <1>9, <2>1, <3>1
    <2>2. CASE j - L \in 1..m /\ j = L + (j - L)
      <3>1. /\ feed'[j] = batch[j - L]
            /\ Top(batch[j - L][1]) < batch[j - L][2]
            /\ batch[j - L] \in Frame
        BY <1>0, <1>1, <1>2, <2>2 DEF m
      <3>2. CASE i \in 1..L
        <4>1. feed'[i] = feed[i] /\ feed[i][2] \in 1..Top(feed[i][1]) /\ feed[i] \in Frame
          BY <1>1, <1>2, <1>4, <3>2
        <4> QED
          BY <1>3, <1>9, <3>1, <4>1
      <3>3. CASE i - L \in 1..m /\ i = L + (i - L)
        <4>1. feed'[i] = batch[i - L] /\ i - L < j - L
          BY <1>1, <1>9, <2>2, <3>3
        <4> QED
          BY <1>9, <2>2, <3>1, <3>3, <4>1 DEF m
      <3> QED
        BY <1>5, <3>2, <3>3
    <2> QED
      BY <1>5, <2>1, <2>2
  <1>10. ASSUME NEW i \in 1..(L + m), NEW n \in feed'[i][2]..T[feed'[i][1]],
                n > gone'[feed'[i][1]]
         PROVE  \E k \in 1..(L + m) : feed'[k] = <<feed'[i][1], n>>
    <2> DEFINE s == feed'[i][1]
    <2>1. s \in Streams /\ feed'[i][2] \in Nat /\ n \in Nat
      BY <1>3, <1>8
    <2>2. ASSUME \E k \in 1..m : batch[k] = <<s, n>>
          PROVE  \E k \in 1..(L + m) : feed'[k] = <<s, n>>
      BY <1>1, <1>6, <2>2
    <2>3. CASE i \in 1..L
      <3>1. feed'[i] = feed[i] /\ feed[i][2] \in 1..Top(s)
        BY <1>1, <1>4, <2>3
      <3>2. CASE n <= Top(s)
        <4>1. n \in feed[i][2]..Top(feed[i][1]) /\ n > gone[feed[i][1]]
          BY <1>0, <1>10, <2>1, <3>1, <3>2
        <4>2. PICK k \in 1..L : feed[k] = <<feed[i][1], n>>
          BY <1>4, <2>3, <4>1
        <4> QED
          BY <1>1, <1>7, <3>1, <4>2
      <3>3. CASE ~(n <= Top(s))
        <4>1. n \in Top(s) + 1 .. T[s] /\ Top(s) # Dollar
          BY <1>0, <1>10, <2>1, <3>1, <3>3 DEF Dollar
        <4>2. \E k \in 1..m : batch[k] = <<s, n>>
          BY <1>0, <1>10, <2>1, <4>1 DEF m
        <4> QED
          BY <2>2, <4>2
      <3> QED
        BY <3>2, <3>3
    <2>4. CASE i - L \in 1..m /\ i = L + (i - L)
      <3>1. feed'[i] = batch[i - L]
        BY <1>1, <2>4
      <3>2. batch[i - L][1] = s /\ batch[i - L][2] <= n
        BY <1>10, <2>1, <3>1
      <3>3. n \in Top(s) + 1 .. T[s]
        BY <1>0, <1>10, <2>1, <2>4, <3>1, <3>2 DEF m
      <3>4. \E k \in 1..m : batch[k] = <<s, n>>
        BY <1>0, <1>10, <2>1, <2>4, <3>2, <3>3 DEF m
      <3> QED
        BY <2>2, <3>4
    <2> QED
      BY <1>5, <2>3, <2>4
  <1>11. FeedOrdered'
    <2>1. \A i \in 1..(L + m) : (IF backend' = "direct" THEN published'[feed'[i][1]]
                                ELSE last_ids'[feed'[i][1]]) = T[feed'[i][1]]
      BY <1>0, <1>3, <1>8 DEF Top
    <2> QED
      BY <1>1, <1>8, <1>9, <2>1 DEF FeedOrdered, Top
  <1>12. FeedWhole'
    <2>1. \A i \in 1..(L + m) : (IF backend' = "direct" THEN published'[feed'[i][1]]
                                ELSE last_ids'[feed'[i][1]]) = T[feed'[i][1]]
      BY <1>0, <1>3, <1>8 DEF Top
    <2> SUFFICES ASSUME NEW i \in 1..Len(feed'),
                        NEW n \in feed'[i][2]..(IF backend' = "direct" THEN published'[feed'[i][1]]
                                                ELSE last_ids'[feed'[i][1]]),
                        n > gone'[feed'[i][1]]
                 PROVE  \E k \in 1..Len(feed') : feed'[k] = <<feed'[i][1], n>>
      BY DEF FeedWhole, Top
    <2>2. i \in 1..(L + m) /\ n \in feed'[i][2]..T[feed'[i][1]]
      BY <1>1, <2>1
    <2> QED
      BY <1>1, <1>10, <2>2
  <1> QED
    BY <1>11, <1>12

\* XREAD returns consecutive messages behind the cursor, and the cursor moves to
\* the last of them.
LEMMA UnreadFacts ==
  ASSUME OInv, from # None, NEW s \in Streams
  PROVE  \E a \in Nat : \E n \in Nat :
            /\ gone[s] <= a /\ from[s] <= a
            /\ a = gone[s] \/ a = from[s]
            /\ a + n <= published[s]
            /\ Unread(s) \in Seq(Frame)
            /\ Len(Unread(s)) = n
            /\ \A i \in 1..n : Unread(s)[i] = <<s, a + i>>
            /\ Advance(s) = IF n = 0 THEN last_ids[s] ELSE a + n
  <1> DEFINE a == IF gone[s] > from[s] THEN gone[s] ELSE from[s]
  <1> DEFINE n == IF published[s] - a > Count THEN Count ELSE published[s] - a
  <1>1. /\ published[s] \in Nat /\ gone[s] \in Nat /\ from[s] \in Nat
        /\ gone[s] <= published[s] /\ from[s] <= published[s]
    BY FanOutAssumption DEF OInv, FanTyped, CursorInv
  <1>2. a \in Nat /\ gone[s] <= a /\ from[s] <= a /\ a <= published[s]
    BY <1>1
  <1>3. (a = gone[s] \/ a = from[s])
    OBVIOUS
  <1> HIDE DEF a
  <1>4. n \in Nat /\ a + n <= published[s]
    BY <1>1, <1>2, FanOutAssumption
  <1>5. Unread(s) = [i \in 1..n |-> <<s, a + i>>]
    BY DEF Unread, a
  <1> HIDE DEF n
  <1>6. \A i \in 1..n : <<s, a + i>> \in Frame
    BY <1>2, <1>4 DEF Frame
  <1>7. Unread(s) \in Seq(Frame)
    BY <1>4, <1>5, <1>6, IsASeq
  <1>8. Len(Unread(s)) = n /\ \A i \in 1..n : Unread(s)[i] = <<s, a + i>>
    BY <1>4, <1>5, <1>7
  <1>9. Advance(s) = IF n = 0 THEN last_ids[s] ELSE a + n
    <2>1. CASE n = 0
      BY <1>7, <1>8, <2>1, EmptySeq DEF Advance
    <2>2. CASE n # 0
      <3>1. Unread(s) # << >> /\ n \in 1..n
        BY <1>4, <1>7, <1>8, <2>2
      <3>2. Unread(s)[n] = <<s, a + n>>
        BY <1>8, <3>1
      <3> QED
        BY <1>8, <2>2, <3>1, <3>2 DEF Advance
    <2> QED
      BY <2>1, <2>2
  <1> QED
    BY <1>2, <1>3, <1>4, <1>7, <1>8, <1>9

-----------------------------------------------------------------------------
(* The steps. *)

\* A step that leaves feed, streams and cursors alone keeps the feed as it is.
LEMMA FeedUntouched ==
  ASSUME OInv, UNCHANGED <<backend, published, last_ids, feed>>,
         \A s \in Streams : gone[s] \in Int /\ gone'[s] \in Int /\ gone[s] <= gone'[s]
  PROVE  FeedOrdered' /\ FeedWhole'
  <1>1. FeedOrdered'
    BY DEF OInv, FeedOrdered, Top
  <1>2. \A i \in 1..Len(feed) : feed[i][1] \in Streams
    BY DEF OInv, FanTyped, Frame
  <1>3. \A i \in 1..Len(feed) : \A n \in feed[i][2]..Top(feed[i][1]) :
            n > gone'[feed[i][1]] => n > gone[feed[i][1]]
    <2> SUFFICES ASSUME NEW i \in 1..Len(feed), NEW n \in feed[i][2]..Top(feed[i][1]),
                        n > gone'[feed[i][1]]
                 PROVE  n > gone[feed[i][1]]
      OBVIOUS
    <2>1. gone[feed[i][1]] \in Int /\ gone'[feed[i][1]] \in Int /\ gone[feed[i][1]] <= gone'[feed[i][1]]
      BY <1>2
    <2> QED
      BY <2>1
  <1>4. FeedWhole'
    <2> SUFFICES ASSUME NEW i \in 1..Len(feed), NEW n \in feed[i][2]..Top(feed[i][1]),
                        n > gone'[feed[i][1]]
                 PROVE  \E k \in 1..Len(feed) : feed[k] = <<feed[i][1], n>>
      BY DEF FeedWhole, Top
    <2> QED
      BY <1>3 DEF OInv, FeedWhole
  <1> QED
    BY <1>1, <1>4

\* broadcast: XADD, or the one-message batch of the direct backend.
LEMMA BroadcastStep ==
  ASSUME OInv, NEW s \in Streams, Broadcast(s)
  PROVE  OInv'
  <1>1. /\ published[s] \in Nat
        /\ published[s] < MaxPublished
        /\ published' = [published EXCEPT ![s] = @ + 1]
        /\ UNCHANGED <<backend, gone, last_ids, from, faults>>
    BY FanOutAssumption DEF Broadcast, listener, OInv, FanTyped
  <1>2. published' \in [Streams -> 0..MaxPublished]
        /\ \A t \in Streams : published[t] \in Int /\ published'[t] \in Int
                              /\ published[t] <= published'[t]
    BY <1>1, FanOutAssumption DEF OInv, FanTyped
  <1>3. CursorInv'
    <2>1. \A t \in Streams : /\ gone[t] \in Int /\ last_ids[t] \in Int
                             /\ from # None => from[t] \in Int
      BY FanOutAssumption DEF OInv, FanTyped, Dollar
    <2> QED
      BY <1>1, <1>2, <2>1 DEF OInv, CursorInv
  <1>4. CASE backend = "direct"
    <2>0. PICK batch : batch = << <<s, published[s] + 1>> >>
      OBVIOUS
    <2>1. FanOutBatch(batch)
      BY <1>4, <2>0 DEF Broadcast
    <2>2. batch \in Seq(Frame) /\ Len(batch) = 1 /\ batch[1] = <<s, published[s] + 1>>
      BY <1>1, <2>0 DEF Frame
    <2>3. queue' \in [Clients -> Seq(Nat)] /\ \A c \in Clients : QueueInv(c)'
      BY <2>1, <2>2, QueueExtends
    <2>4. feed' \in Seq(Frame) /\ UNCHANGED <<active, sending, got>>
      BY <2>1, <2>2, FeedExtends DEF FanOutBatch, OInv
    <2>5. FanTyped'
      BY <1>1, <1>2, <2>3, <2>4 DEF OInv, FanTyped
    <2>6. \A t \in Streams : Top(t) = published[t] /\ Top(t)' = published'[t]
      BY <1>1, <1>4 DEF Top
    <2>7. \A t \in Streams : gone[t] \in Int
      BY FanOutAssumption DEF OInv, FanTyped
    <2>8. published'[s] = published[s] + 1 /\ \A t \in Streams \ {s} : published'[t] = published[t]
      BY <1>1 DEF OInv, FanTyped
    <2>9. \A t \in Streams : \A n \in Top(t) + 1 .. published'[t] : <<t, n>> = <<s, published[s] + 1>>
      BY <1>1, <1>2, <2>6, <2>8
    <2>10. \A i \in 1..Len(batch) : i = 1
      BY <2>2
    <2>11. FeedOrdered' /\ FeedWhole'
      <3>1. \A i \in 1..Len(batch) : /\ Top(batch[i][1]) < batch[i][2]
                                     /\ batch[i][2] \in 1..Top(batch[i][1])'
        BY <1>1, <2>2, <2>6, <2>8, <2>10
      <3>2. \A i, j \in 1..Len(batch) :
               i < j /\ batch[i][1] = batch[j][1] => batch[i][2] < batch[j][2]
        BY <2>10
      <3>3. \A t \in Streams : \A n \in Top(t) + 1 .. Top(t)' :
               (/\ n > gone'[t]
                /\ Top(t) # Dollar \/ \E i \in 1..Len(batch) : batch[i][1] = t /\ batch[i][2] <= n)
                  => \E k \in 1..Len(batch) : batch[k] = <<t, n>>
        BY <2>2, <2>6, <2>9
      <3>4. \A t \in Streams : Top(t) \in Int /\ Top(t)' \in Int /\ Top(t) <= Top(t)'
        BY <1>2, <2>6
      <3>5. \A t \in Streams : gone[t] \in Int /\ gone'[t] \in Int /\ gone[t] <= gone'[t]
        BY <1>1, <2>7
      <3> QED
        BY <2>1, <2>2, <3>1, <3>2, <3>3, <3>4, <3>5, FeedKept
    <2> QED
      BY <1>3, <2>3, <2>5, <2>11 DEF OInv
  <1>5. CASE backend = "redis" /\ UNCHANGED <<feed, connections>>
    <2>1. UNCHANGED <<feed, active, queue, sending, got>>
      BY <1>5 DEF connections
    <2>2. FanTyped'
      BY <1>1, <1>2, <2>1 DEF OInv, FanTyped
    <2>3. FeedOrdered' /\ FeedWhole'
      BY <1>1, <1>5, <2>1 DEF OInv, FeedOrdered, FeedWhole, Top
    <2>4. \A c \in Clients : QueueInv(c)'
      BY <2>1 DEF OInv, QueueInv, InFlight
    <2> QED
      BY <1>3, <2>2, <2>3, <2>4 DEF OInv
  <1> QED
    BY <1>4, <1>5 DEF Broadcast

\* Redis loses messages, a read starts, finds nothing or fails.
LEMMA ListenerIdleStep ==
  ASSUME OInv,
         (\E s \in Streams : Forget(s)) \/ ListenerCall \/ ListenerTimeout \/ ListenerError
  PROVE  OInv'
  <1>1. UNCHANGED <<backend, published, last_ids, feed, active, queue, sending, got>>
    BY DEF Forget, ListenerCall, ListenerTimeout, ListenerError, redis, listener, connections
  <1>2. /\ published \in [Streams -> 0..MaxPublished]
        /\ gone \in [Streams -> 0..MaxPublished]
        /\ last_ids \in [Streams -> {Dollar} \cup 1..MaxPublished]
        /\ MaxPublished \in Nat /\ MaxFaults \in Nat
    BY FanOutAssumption DEF OInv, FanTyped
  <1>3. /\ gone' \in [Streams -> 0..MaxPublished]
        /\ \A s \in Streams : gone[s] <= gone'[s] /\ gone'[s] <= published[s]
    <2>1. ASSUME NEW s \in Streams, Forget(s)
          PROVE  /\ gone' \in [Streams -> 0..MaxPublished]
                 /\ \A t \in Streams : gone[t] <= gone'[t] /\ gone'[t] <= published[t]
      <3>1. PICK n \in gone[s] + 1 .. published[s] : gone' = [gone EXCEPT ![s] = n]
        BY <2>1 DEF Forget
      <3>2. n \in 0..MaxPublished /\ gone[s] <= n /\ n <= published[s]
        BY <1>2
      <3> QED
        BY <1>2, <3>1, <3>2 DEF OInv, CursorInv
    <2>2. CASE UNCHANGED gone
      BY <1>2, <2>2 DEF OInv, CursorInv
    <2> QED
      BY <2>1, <2>2 DEF ListenerCall, ListenerTimeout, ListenerError, redis
  <1>4. faults' \in 0..MaxFaults
    BY <1>2 DEF Forget, ListenerCall, ListenerTimeout, ListenerError, Fault, OInv, FanTyped
  <1>5. /\ from' = None \/ from' \in [Streams -> 0..MaxPublished]
        /\ from' # None =>
              /\ backend = "redis"
              /\ \A s \in Streams : /\ from'[s] <= published[s]
                                    /\ last_ids[s] # Dollar => from'[s] = last_ids[s]
    <2>1. CASE ListenerCall
      <3>1. /\ backend = "redis"
            /\ from' = [s \in Streams |-> IF last_ids[s] = Dollar THEN published[s] ELSE last_ids[s]]
        BY <2>1 DEF ListenerCall
      <3>2. from' \in [Streams -> 0..MaxPublished]
        BY <1>2, <3>1
      <3>3. \A s \in Streams : last_ids[s] <= published[s]
        BY DEF OInv, CursorInv
      <3> QED
        BY <1>2, <3>1, <3>2, <3>3
    <2>2. CASE from' = None
      BY <2>2
    <2>3. CASE UNCHANGED from
      <3>1. "telemetry" \in Streams
        BY DEF Streams
      <3> QED
        BY <2>3, <3>1 DEF OInv, FanTyped, CursorInv
    <2> QED
      BY <2>1, <2>2, <2>3 DEF ListenerTimeout, ListenerError, Forget, listener
  <1>6. FanTyped'
    BY <1>1, <1>3, <1>4, <1>5 DEF OInv, FanTyped
  <1>7. CursorInv'
    BY <1>1, <1>3, <1>5 DEF OInv, CursorInv
  <1>8. FeedOrdered' /\ FeedWhole'
    BY <1>1, <1>2, <1>3, FeedUntouched
  <1>9. \A c \in Clients : QueueInv(c)'
    BY <1>1 DEF OInv, QueueInv, InFlight
  <1> QED
    BY <1>6, <1>7, <1>8, <1>9 DEF OInv

\* The batch of one read: per stream, n[s] messages behind a[s], in order.
LEMMA BatchFacts ==
  ASSUME OInv, from # None
  PROVE  \E a \in [Streams -> Nat], n \in [Streams -> Nat], off \in [Streams -> Nat] :
            /\ Batch \in Seq(Frame)
            /\ \A s \in Streams :
                  /\ gone[s] <= a[s] /\ from[s] <= a[s]
                  /\ a[s] = gone[s] \/ a[s] = from[s]
                  /\ a[s] + n[s] <= published[s]
                  /\ Advance(s) = IF n[s] = 0 THEN last_ids[s] ELSE a[s] + n[s]
                  /\ \A k \in 1..n[s] : /\ off[s] + k \in 1..Len(Batch)
                                        /\ Batch[off[s] + k] = <<s, a[s] + k>>
            /\ \A i \in 1..Len(Batch) :
                  \E s \in Streams : \E k \in 1..n[s] : i = off[s] + k
  <1>1. "telemetry" \in Streams /\ "events" \in Streams
        /\ \A s \in Streams : s = "telemetry" \/ s = "events"
    BY DEF Streams
  <1>2. PICK at \in Nat : \E nt \in Nat :
            /\ gone["telemetry"] <= at /\ from["telemetry"] <= at
            /\ at = gone["telemetry"] \/ at = from["telemetry"]
            /\ at + nt <= published["telemetry"]
            /\ Unread("telemetry") \in Seq(Frame)
            /\ Len(Unread("telemetry")) = nt
            /\ \A i \in 1..nt : Unread("telemetry")[i] = <<"telemetry", at + i>>
            /\ Advance("telemetry") = IF nt = 0 THEN last_ids["telemetry"] ELSE at + nt
    BY <1>1, UnreadFacts
  <1>3. PICK nt \in Nat :
            /\ gone["telemetry"] <= at /\ from["telemetry"] <= at
            /\ at = gone["telemetry"] \/ at = from["telemetry"]
            /\ at + nt <= published["telemetry"]
            /\ Unread("telemetry") \in Seq(Frame)
            /\ Len(Unread("telemetry")) = nt
            /\ \A i \in 1..nt : Unread("telemetry")[i] = <<"telemetry", at + i>>
            /\ Advance("telemetry") = IF nt = 0 THEN last_ids["telemetry"] ELSE at + nt
    BY <1>2
  <1>4. PICK ae \in Nat : \E ne \in Nat :
            /\ gone["events"] <= ae /\ from["events"] <= ae
            /\ ae = gone["events"] \/ ae = from["events"]
            /\ ae + ne <= published["events"]
            /\ Unread("events") \in Seq(Frame)
            /\ Len(Unread("events")) = ne
            /\ \A i \in 1..ne : Unread("events")[i] = <<"events", ae + i>>
            /\ Advance("events") = IF ne = 0 THEN last_ids["events"] ELSE ae + ne
    BY <1>1, UnreadFacts
  <1>5. PICK ne \in Nat :
            /\ gone["events"] <= ae /\ from["events"] <= ae
            /\ ae = gone["events"] \/ ae = from["events"]
            /\ ae + ne <= published["events"]
            /\ Unread("events") \in Seq(Frame)
            /\ Len(Unread("events")) = ne
            /\ \A i \in 1..ne : Unread("events")[i] = <<"events", ae + i>>
            /\ Advance("events") = IF ne = 0 THEN last_ids["events"] ELSE ae + ne
    BY <1>4
  <1>6. /\ Batch \in Seq(Frame)
        /\ Len(Batch) = nt + ne
        /\ \A i \in 1 .. nt + ne :
              Batch[i] = IF i <= nt THEN Unread("telemetry")[i] ELSE Unread("events")[i - nt]
    BY <1>3, <1>5, ConcatProperties DEF Batch
  <1>7. ASSUME NEW k \in 1..nt
        PROVE  k \in 1..Len(Batch) /\ Batch[k] = <<"telemetry", at + k>>
    <2>1. k \in 1 .. nt + ne /\ k <= nt
      OBVIOUS
    <2> QED
      BY <1>3, <1>6, <2>1
  <1>8. ASSUME NEW k \in 1..ne
        PROVE  nt + k \in 1..Len(Batch) /\ Batch[nt + k] = <<"events", ae + k>>
    <2>1. nt + k \in 1 .. nt + ne /\ ~(nt + k <= nt) /\ (nt + k) - nt = k
      OBVIOUS
    <2> QED
      BY <1>5, <1>6, <2>1
  <1>9. \A i \in 1..Len(Batch) : i \in 1..nt \/ (i - nt \in 1..ne /\ i = nt + (i - nt))
    BY <1>6
  <1> DEFINE a == [s \in Streams |-> IF s = "telemetry" THEN at ELSE ae]
  <1> DEFINE n == [s \in Streams |-> IF s = "telemetry" THEN nt ELSE ne]
  <1> DEFINE off == [s \in Streams |-> IF s = "telemetry" THEN 0 ELSE nt]
  <1>10. a \in [Streams -> Nat] /\ n \in [Streams -> Nat] /\ off \in [Streams -> Nat]
    OBVIOUS
  <1>11. /\ a["telemetry"] = at /\ n["telemetry"] = nt /\ off["telemetry"] = 0
         /\ a["events"] = ae /\ n["events"] = ne /\ off["events"] = nt
    BY <1>1
  <1> HIDE DEF a, n, off
  <1>12. ASSUME NEW s \in Streams
         PROVE  /\ gone[s] <= a[s] /\ from[s] <= a[s]
                /\ a[s] = gone[s] \/ a[s] = from[s]
                /\ a[s] + n[s] <= published[s]
                /\ Advance(s) = IF n[s] = 0 THEN last_ids[s] ELSE a[s] + n[s]
                /\ \A k \in 1..n[s] : /\ off[s] + k \in 1..Len(Batch)
                                      /\ Batch[off[s] + k] = <<s, a[s] + k>>
    <2>1. CASE s = "telemetry"
      <3>1. \A k \in 1..nt : 0 + k = k
        OBVIOUS
      <3> QED
        BY <1>3, <1>7, <1>11, <2>1, <3>1
    <2>2. CASE s = "events"
      BY <1>5, <1>8, <1>11, <2>2
    <2> QED
      BY <1>1, <2>1, <2>2
  <1>13. ASSUME NEW i \in 1..Len(Batch)
         PROVE  \E s \in Streams : \E k \in 1..n[s] : i = off[s] + k
    <2>1. CASE i \in 1..nt
      <3>1. i = 0 + i
        OBVIOUS
      <3> QED
        BY <1>1, <1>11, <2>1, <3>1
    <2>2. CASE i - nt \in 1..ne /\ i = nt + (i - nt)
      BY <1>1, <1>11, <2>2
    <2> QED
      BY <1>9, <2>1, <2>2
  <1> QED
    BY <1>6, <1>10, <1>12, <1>13

\* XREAD returns something: the cursors move behind it, every message goes out.
LEMMA DeliverStep ==
  ASSUME OInv, ListenerDeliver
  PROVE  OInv'
  <1>1. from # None /\ from' = None /\ UNCHANGED <<backend, published, gone, faults>>
    BY DEF ListenerDeliver, redis
  <1>2. PICK b : b = Batch
    OBVIOUS
  <1>3. FanOutBatch(b)
    BY <1>2 DEF ListenerDeliver
  <1>pick. PICK a \in [Streams -> Nat], n \in [Streams -> Nat], off \in [Streams -> Nat] :
            /\ Batch \in Seq(Frame)
            /\ \A s \in Streams :
                  /\ gone[s] <= a[s] /\ from[s] <= a[s]
                  /\ a[s] = gone[s] \/ a[s] = from[s]
                  /\ a[s] + n[s] <= published[s]
                  /\ Advance(s) = IF n[s] = 0 THEN last_ids[s] ELSE a[s] + n[s]
                  /\ \A k \in 1..n[s] : /\ off[s] + k \in 1..Len(Batch)
                                        /\ Batch[off[s] + k] = <<s, a[s] + k>>
            /\ \A i \in 1..Len(Batch) :
                  \E s \in Streams : \E k \in 1..n[s] : i = off[s] + k
    BY <1>1, BatchFacts
  <1>4. /\ b \in Seq(Frame)
        /\ \A s \in Streams :
              /\ gone[s] <= a[s] /\ from[s] <= a[s]
              /\ a[s] = gone[s] \/ a[s] = from[s]
              /\ a[s] + n[s] <= published[s]
              /\ Advance(s) = IF n[s] = 0 THEN last_ids[s] ELSE a[s] + n[s]
              /\ \A k \in 1..n[s] : /\ off[s] + k \in 1..Len(b)
                                    /\ b[off[s] + k] = <<s, a[s] + k>>
        /\ \A i \in 1..Len(b) :
              \E s \in Streams : \E k \in 1..n[s] : i = off[s] + k
    BY <1>2, <1>pick
  <1>5. last_ids' = [s \in Streams |-> IF n[s] = 0 THEN last_ids[s] ELSE a[s] + n[s]]
    BY <1>4 DEF ListenerDeliver
  <1>6. backend = "redis" /\ "telemetry" \in Streams
    BY <1>1 DEF OInv, CursorInv, Streams
  <1>7. \A s \in Streams : Top(s) = last_ids[s] /\ Top(s)' = last_ids'[s]
    BY <1>1, <1>6 DEF Top
  <1>8. ASSUME NEW s \in Streams
        PROVE  /\ last_ids[s] \in Int /\ gone[s] \in Nat /\ published[s] \in 0..MaxPublished
               /\ published[s] \in Nat
               /\ last_ids[s] = Dollar \/ last_ids[s] = from[s]
               /\ last_ids[s] <= a[s]
               /\ last_ids[s] <= published[s]
    <2>1. /\ last_ids[s] \in Int /\ gone[s] \in Nat /\ published[s] \in 0..MaxPublished
          /\ from[s] \in Nat /\ published[s] \in Nat
      BY <1>1, FanOutAssumption DEF OInv, FanTyped, Dollar
    <2>2. last_ids[s] = Dollar \/ last_ids[s] = from[s]
      BY <1>1 DEF OInv, CursorInv
    <2>3. a[s] \in Nat /\ from[s] <= a[s] /\ last_ids[s] <= published[s]
      BY <1>4 DEF OInv, CursorInv
    <2> QED
      BY <2>1, <2>2, <2>3 DEF Dollar
  <1>9. ASSUME NEW s \in Streams
        PROVE  /\ last_ids'[s] \in {Dollar} \cup 1..MaxPublished
               /\ last_ids'[s] <= published[s]
               /\ last_ids'[s] \in Int
               /\ last_ids[s] <= last_ids'[s]
    <2>1. CASE n[s] = 0
      BY <1>5, <1>8, <2>1 DEF OInv, FanTyped
    <2>2. CASE n[s] # 0
      <3>1. last_ids'[s] = a[s] + n[s] /\ a[s] \in Nat /\ n[s] \in Nat \ {0}
            /\ a[s] + n[s] <= published[s]
        BY <1>4, <1>5, <2>2
      <3> QED
        BY <1>8, <3>1, FanOutAssumption
    <2> QED
      BY <2>1, <2>2
  <1>10. queue' \in [Clients -> Seq(Nat)] /\ \A c \in Clients : QueueInv(c)'
    BY <1>3, <1>4, QueueExtends
  <1>11. feed' \in Seq(Frame) /\ UNCHANGED <<active, sending, got>>
    BY <1>3, <1>4, FeedExtends DEF FanOutBatch, OInv
  <1>12. FanTyped'
    BY <1>1, <1>5, <1>9, <1>10, <1>11 DEF OInv, FanTyped
  <1>13. CursorInv'
    BY <1>1, <1>9 DEF OInv, CursorInv
  <1>14. ASSUME NEW i \in 1..Len(b)
         PROVE  \E s \in Streams : \E k \in 1..n[s] :
                   /\ i = off[s] + k
                   /\ b[i] = <<s, a[s] + k>>
                   /\ b[i][1] = s
                   /\ b[i][2] = a[s] + k
                   /\ last_ids[s] < a[s] + k
                   /\ a[s] + k \in 1..last_ids'[s]
    <2>1. PICK s \in Streams : \E k \in 1..n[s] : i = off[s] + k
      BY <1>4
    <2>2. PICK k \in 1..n[s] : i = off[s] + k
      BY <2>1
    <2>3. b[i] = <<s, a[s] + k>> /\ a[s] \in Nat /\ n[s] \in Nat
      BY <1>4, <2>2
    <2>4. last_ids[s] < a[s] + k
      BY <1>8, <2>3
    <2>5. n[s] # 0 /\ a[s] + k \in 1..(a[s] + n[s])
      BY <2>3
    <2>6. a[s] + k \in 1..last_ids'[s]
      BY <1>5, <2>5
    <2>7. b[i][1] = s /\ b[i][2] = a[s] + k
      BY <2>3
    <2> QED
      BY <2>1, <2>2, <2>3, <2>4, <2>6, <2>7
  <1>15. FeedOrdered' /\ FeedWhole'
    <2>1. \A s \in Streams : Top(s) \in Int /\ Top(s)' \in Int /\ Top(s) <= Top(s)'
      BY <1>7, <1>8, <1>9
    <2>2. \A s \in Streams : gone[s] \in Int /\ gone'[s] \in Int /\ gone[s] <= gone'[s]
      BY <1>1, <1>8
    <2>3. \A i \in 1..Len(b) : /\ Top(b[i][1]) < b[i][2]
                               /\ b[i][2] \in 1..Top(b[i][1])'
      BY <1>7, <1>14
    <2>4. ASSUME NEW i \in 1..Len(b), NEW j \in 1..Len(b), i < j, b[i][1] = b[j][1]
          PROVE  b[i][2] < b[j][2]
      <3>1. PICK s \in Streams : \E k \in 1..n[s] :
                   i = off[s] + k /\ b[i][1] = s /\ b[i][2] = a[s] + k
        BY <1>14
      <3>2. PICK k \in 1..n[s] : i = off[s] + k /\ b[i][1] = s /\ b[i][2] = a[s] + k
        BY <3>1
      <3>5. PICK t \in Streams : \E l \in 1..n[t] :
                   j = off[t] + l /\ b[j][1] = t /\ b[j][2] = a[t] + l
        BY <1>14
      <3>6. t = s
        BY <2>4, <3>2, <3>5
      <3>3. PICK l \in 1..n[s] : j = off[s] + l /\ b[j][2] = a[s] + l
        BY <3>5, <3>6
      <3>4. a[s] \in Nat /\ off[s] \in Nat /\ n[s] \in Nat
        OBVIOUS
      <3> QED
        BY <2>4, <3>2, <3>3, <3>4
    <2>5. ASSUME NEW s \in Streams, NEW x \in Top(s) + 1 .. Top(s)', x > gone'[s],
                 Top(s) # Dollar \/ \E i \in 1..Len(b) : b[i][1] = s /\ b[i][2] <= x
          PROVE  \E k \in 1..Len(b) : b[k] = <<s, x>>
      <3>1. a[s] \in Nat /\ n[s] \in Nat /\ off[s] \in Nat /\ x \in Int /\ x > gone[s]
        BY <1>1, <1>7, <1>8, <1>9, <2>5
      <3>2. n[s] # 0 /\ x <= a[s] + n[s]
        BY <1>5, <1>7, <1>8, <2>5, <3>1
      <3>3. x > a[s]
        <4>1. CASE Top(s) # Dollar
          <5>0. Top(s) = from[s] /\ from[s] \in Int
            BY <1>7, <1>8, <4>1
          <5>1. x > from[s]
            BY <2>5, <3>1, <5>0
          <5> QED
            BY <1>4, <3>1, <5>1
        <4>2. CASE \E i \in 1..Len(b) : b[i][1] = s /\ b[i][2] <= x
          <5>1. PICK i \in 1..Len(b) : b[i][1] = s /\ b[i][2] <= x
            BY <4>2
          <5>2. PICK k \in 1..n[s] : b[i][2] = a[s] + k
            BY <1>14, <5>1
          <5> QED
            BY <3>1, <5>1, <5>2
        <4> QED
          BY <2>5, <4>1, <4>2
      <3>4. x - a[s] \in 1..n[s] /\ a[s] + (x - a[s]) = x
        BY <3>1, <3>2, <3>3
      <3> QED
        BY <1>4, <3>4
    <2> QED
      BY <1>3, <1>4, <2>1, <2>2, <2>3, <2>4, <2>5, FeedKept
  <1> QED
    BY <1>10, <1>12, <1>13, <1>15 DEF OInv

\* Connections come and go, senders drain their queues.
LEMMA ConnectionStep ==
  ASSUME OInv, NEW c \in Clients,
         Connect(c) \/ Disconnect(c) \/ SenderTake(c) \/ SenderSent(c)
  PROVE  OInv'
  <1>1. UNCHANGED <<backend, published, gone, last_ids, from, feed, faults>>
    BY DEF Connect, Disconnect, SenderTake, SenderSent, redis, listener
  <1>2. /\ active \in SUBSET Clients
        /\ queue \in [Clients -> Seq(Nat)]
        /\ sending \in [Clients -> Nat \cup {None}]
        /\ got \in [Clients -> Nat]
        /\ Len(feed) \in Nat
    BY DEF OInv, FanTyped
  <1>3. None \notin Nat /\ Capacity \in Nat
    BY FanOutAssumption
  <1>4. QueueInv(c)
    BY DEF OInv
  <1>5. sending[c] # None => c \in active
    BY <1>4 DEF QueueInv
  <1>6. CursorInv' /\ FeedOrdered' /\ FeedWhole'
    BY <1>1 DEF OInv, CursorInv, FeedOrdered, FeedWhole, Top
  <1>7. ASSUME NEW d \in Clients \ {c}
        PROVE  QueueInv(d)'
    <2>1. /\ queue'[d] = queue[d]
          /\ sending'[d] = sending[d]
          /\ got'[d] = got[d]
          /\ d \in active' <=> d \in active
      BY <1>2 DEF Connect, Disconnect, SenderTake, SenderSent
    <2>2. QueueInv(d)
      BY DEF OInv
    <2> QED
      BY <1>1, <2>1, <2>2 DEF QueueInv, InFlight
  <1>8. ASSUME Connect(c)
        PROVE  FanTyped' /\ QueueInv(c)'
    <2>1. /\ c \in active'
          /\ got'[c] = Len(feed)
          /\ queue'[c] = << >>
          /\ sending'[c] = None
          /\ UNCHANGED <<queue, sending>>
      BY <1>2, <1>4, <1>8 DEF Connect, QueueInv
    <2>2. active' \in SUBSET Clients /\ got' \in [Clients -> Nat]
      BY <1>2, <1>8 DEF Connect
    <2>3. FanTyped'
      BY <1>1, <2>1, <2>2 DEF OInv, FanTyped
    <2>4. InFlight(c)' = Len(feed)
      BY <2>1 DEF InFlight
    <2>5. \A j \in Len(feed) + 1 .. Len(feed) - 0 : FALSE
      BY <1>2
    <2>6. Len(queue'[c]) = 0
      BY <2>1
    <2> QED
      BY <1>1, <1>2, <1>3, <2>1, <2>3, <2>4, <2>5, <2>6 DEF QueueInv
  <1>9. ASSUME Disconnect(c)
        PROVE  FanTyped' /\ QueueInv(c)'
    <2>1. /\ c \notin active'
          /\ got'[c] = got[c]
          /\ queue'[c] = << >>
          /\ sending'[c] = None
          /\ UNCHANGED got
      BY <1>2, <1>9 DEF Disconnect
    <2>2. /\ active' \in SUBSET Clients
          /\ queue' \in [Clients -> Seq(Nat)]
          /\ sending' \in [Clients -> Nat \cup {None}]
      <3>1. << >> \in Seq(Nat)
        OBVIOUS
      <3> QED
        BY <1>2, <1>9, <3>1 DEF Disconnect
    <2>3. FanTyped'
      BY <1>1, <2>1, <2>2 DEF OInv, FanTyped
    <2>4. InFlight(c)' = got[c] /\ Len(queue'[c]) = 0 /\ got[c] \in Nat /\ got[c] <= Len(feed)
      BY <1>2, <1>4, <2>1 DEF InFlight, QueueInv
    <2> QED
      BY <1>1, <1>2, <1>3, <2>1, <2>3, <2>4 DEF QueueInv
  <1>10. ASSUME SenderTake(c)
         PROVE  FanTyped' /\ QueueInv(c)'
    <2> DEFINE q == queue[c]
    <2> DEFINE L == Len(feed)
    <2>1. /\ c \in active /\ sending[c] = None /\ q # << >>
          /\ sending' = [sending EXCEPT ![c] = Head(q)]
          /\ queue' = [queue EXCEPT ![c] = Tail(@)]
          /\ UNCHANGED <<active, got>>
      BY <1>10 DEF SenderTake
    <2>2. q \in Seq(Nat) /\ Len(q) \in Nat \ {0}
      BY <1>2, <2>1
    <2>3. /\ Head(q) \in Nat /\ Head(q) = q[1]
          /\ Tail(q) \in Seq(Nat)
          /\ Len(Tail(q)) = Len(q) - 1
          /\ \A i \in 1..Len(Tail(q)) : Tail(q)[i] = q[i + 1]
      BY <2>1, <2>2
    <2>4. /\ sending'[c] = Head(q)
          /\ queue'[c] = Tail(q)
          /\ got'[c] = got[c]
      BY <1>2, <2>1
    <2>5. FanTyped'
      <3>1. queue' \in [Clients -> Seq(Nat)] /\ sending' \in [Clients -> Nat \cup {None}]
        BY <1>2, <2>1, <2>3
      <3> QED
        BY <1>1, <2>1, <3>1 DEF OInv, FanTyped
    <2>6. /\ Len(q) <= Capacity
          /\ \A i \in 1..Len(q) : q[i] = L - Len(q) + i
          /\ got[c] + Len(q) <= L
          /\ \A j \in got[c] + 1 .. L - Len(q) : j + Capacity <= L
          /\ got[c] \in Nat
      BY <1>2, <1>4, <2>1 DEF QueueInv, InFlight
    <2>7. Head(q) = L - Len(q) + 1
      <3> HIDE DEF L, q
      <3>1. 1 \in 1..Len(q)
        BY <2>2
      <3> QED
        BY <2>3, <2>6, <3>1
    <2>8. InFlight(c)' = Head(q)
      BY <1>3, <2>3, <2>4 DEF InFlight
    <2> HIDE DEF L, q
    <2>9. L \in Nat
      BY <1>2 DEF L
    <2>10. ASSUME NEW i \in 1..Len(Tail(q))
           PROVE  Tail(q)[i] = L - Len(Tail(q)) + i
      <3>1. i + 1 \in 1..Len(q)
        BY <2>2, <2>3
      <3>2. Tail(q)[i] = L - Len(q) + (i + 1)
        BY <2>3, <2>6, <3>1
      <3> QED
        BY <2>2, <2>3, <2>9, <3>2
    <2>11. /\ got[c] < Head(q)
           /\ Head(q) + Len(Tail(q)) <= L
           /\ \A j \in got[c] + 1 .. Head(q) - 1 : j + Capacity <= L
           /\ \A j \in Head(q) + 1 .. L - Len(Tail(q)) : j + Capacity <= L
           /\ Len(Tail(q)) <= Capacity
           /\ got[c] <= L
      <3>1. Head(q) - 1 = L - Len(q) /\ L - Len(Tail(q)) = Head(q)
        BY <2>2, <2>3, <2>7, <2>9
      <3>2. \A j \in Head(q) + 1 .. Head(q) : FALSE
        BY <2>3
      <3>3. got[c] < Head(q) /\ Head(q) + Len(Tail(q)) <= L /\ got[c] <= L
        BY <2>2, <2>3, <2>6, <2>7, <2>9
      <3>4. Len(Tail(q)) <= Capacity
        BY <1>3, <2>2, <2>3, <2>6
      <3> QED
        BY <2>6, <3>1, <3>2, <3>3, <3>4
    <2>12. c \in active'
      BY <2>1
    <2> QED
      BY <1>1, <2>4, <2>5, <2>8, <2>10, <2>11, <2>12 DEF QueueInv, L
  <1>11. ASSUME SenderSent(c)
         PROVE  FanTyped' /\ QueueInv(c)'
    <2>1. /\ sending[c] # None /\ c \in active
          /\ sending[c] \in Nat
          /\ got' = [got EXCEPT ![c] = sending[c]]
          /\ sending' = [sending EXCEPT ![c] = None]
          /\ UNCHANGED <<active, queue>>
      BY <1>2, <1>5, <1>11 DEF SenderSent
    <2>2. got'[c] = sending[c] /\ sending'[c] = None
      BY <1>2, <2>1
    <2>3. got' \in [Clients -> Nat] /\ sending' \in [Clients -> Nat \cup {None}]
      BY <1>2, <2>1
    <2>4. FanTyped'
      BY <1>1, <2>1, <2>3 DEF OInv, FanTyped
    <2>5. InFlight(c)' = InFlight(c) /\ InFlight(c) = sending[c]
      BY <2>1, <2>2 DEF InFlight
    <2>6. sending[c] <= Len(feed)
      <3>1. sending[c] + Len(queue[c]) <= Len(feed) /\ Len(queue[c]) \in Nat
        BY <1>2, <1>4, <2>5 DEF QueueInv
      <3> QED
        BY <1>2, <2>1, <3>1
    <2> QED
      BY <1>1, <1>4, <2>1, <2>2, <2>4, <2>5, <2>6 DEF QueueInv
  <1> QED
    BY <1>6, <1>7, <1>8, <1>9, <1>10, <1>11 DEF OInv

-----------------------------------------------------------------------------
(* The theorems. *)

\* Nothing is published, read or connected at the start.
LEMMA FanInit == FanOutInit => OInv
  <1> SUFFICES ASSUME FanOutInit PROVE OInv
    OBVIOUS
  <1>1. FanTyped
    BY FanOutAssumption DEF FanOutInit, FanTyped, Dollar
  <1>2. CursorInv
    BY DEF FanOutInit, CursorInv, Dollar
  <1>3. Len(feed) = 0
    BY DEF FanOutInit
  <1>4. FeedOrdered /\ FeedWhole
    BY <1>3 DEF FeedOrdered, FeedWhole
  <1>5. ASSUME NEW c \in Clients
        PROVE  QueueInv(c)
    <2>1. queue[c] = << >> /\ sending[c] = None /\ got[c] = 0 /\ c \notin active /\ Len(queue[c]) = 0
      BY <1>5 DEF FanOutInit
    <2> QED
      BY <1>3, <2>1, FanOutAssumption DEF QueueInv, InFlight
  <1> QED
    BY <1>1, <1>2, <1>4, <1>5 DEF OInv

\* Every step keeps the invariant.
LEMMA FanStep == OInv /\ [FanOutNext]_ovars => OInv'
  <1>1. ASSUME OInv, FanOutNext PROVE OInv'
    BY <1>1, BroadcastStep, ListenerIdleStep, DeliverStep, ConnectionStep
       DEF FanOutNext, Listener
  <1>2. ASSUME OInv, UNCHANGED ovars PROVE OInv'
    <2>1. UNCHANGED <<backend, published, gone, last_ids, from, feed, active, queue, sending, got,
                      faults>>
      BY <1>2 DEF ovars, redis, listener, connections
    <2>2. FanTyped' /\ CursorInv'
      BY <1>2, <2>1 DEF OInv, FanTyped, CursorInv
    <2>3. FeedOrdered' /\ FeedWhole'
      BY <1>2, <2>1 DEF OInv, FeedOrdered, FeedWhole, Top
    <2>4. \A c \in Clients : QueueInv(c)'
      BY <1>2, <2>1 DEF OInv, QueueInv, InFlight
    <2> QED
      BY <2>2, <2>3, <2>4 DEF OInv
  <1> QED
    BY <1>1, <1>2

\* The fan-out keeps OInv, for any number of clients, any capacity and COUNT.
THEOREM FanOutInvariant == FanOutSpec => []OInv
  BY FanInit, FanStep, PTL DEF FanOutSpec

\* Queues never exceed CLIENT_QUEUE_MAXSIZE, and a client that is gone leaves no
\* queue and no send behind.
THEOREM FanOutTyped == FanOutSpec => []FanOutTypeOK
  <1>1. OInv => FanOutTypeOK
    <2> SUFFICES ASSUME OInv PROVE FanOutTypeOK
      OBVIOUS
    <2>1. ASSUME NEW c \in Clients
          PROVE  /\ Len(queue[c]) <= Capacity
                 /\ c \notin active => queue[c] = << >> /\ sending[c] = None
                 /\ sending[c] \in {None} \cup 1..Len(feed)
                 /\ got[c] \in 0..Len(feed)
      <3>1. /\ QueueInv(c) /\ got[c] \in Nat /\ sending[c] \in Nat \cup {None}
            /\ Len(queue[c]) \in Nat /\ Len(feed) \in Nat
        BY DEF OInv, FanTyped
      <3>2. sending[c] # None => sending[c] \in 1..Len(feed)
        <4>1. ASSUME sending[c] # None
              PROVE  sending[c] \in 1..Len(feed)
          <5>1. sending[c] + Len(queue[c]) <= Len(feed) /\ got[c] < sending[c] /\ sending[c] \in Nat
            BY <3>1, <4>1 DEF QueueInv, InFlight
          <5> QED
            BY <3>1, <5>1
        <4> QED
          BY <4>1
      <3>3. got[c] \in 0..Len(feed)
        BY <3>1 DEF QueueInv
      <3> QED
        BY <3>1, <3>2, <3>3 DEF QueueInv
    <2> QED
      BY <2>1 DEF OInv, FanTyped, FanOutTypeOK
  <1> QED
    BY <1>1, FanOutInvariant, PTL

\* Every message of a stream is fanned out once and in order, and none is left out
\* between two that Redis still had, whatever reads failed in between.
THEOREM FeedHasNoGap == FanOutSpec => []Gapless
  <1>1. OInv => Gapless
    <2> SUFFICES ASSUME OInv, NEW i \in 1..Len(feed), NEW j \in 1..Len(feed),
                        i < j, feed[i][1] = feed[j][1]
                 PROVE  /\ feed[i][2] < feed[j][2]
                        /\ \A n \in feed[i][2] + 1 .. feed[j][2] - 1 :
                              n > gone[feed[i][1]] => \E k \in i..j : feed[k] = <<feed[i][1], n>>
      BY DEF Gapless
    <2>1. /\ \A k \in 1..Len(feed) : feed[k] \in Frame
          /\ Len(feed) \in Nat
      BY DEF OInv, FanTyped
    <2>2. \A k \in 1..Len(feed) : feed[k][1] \in Streams /\ feed[k][2] \in Nat
      BY <2>1 DEF Frame
    <2>3. feed[i][2] < feed[j][2]
      BY DEF OInv, FeedOrdered
    <2>4. ASSUME NEW n \in feed[i][2] + 1 .. feed[j][2] - 1, n > gone[feed[i][1]]
          PROVE  \E k \in i..j : feed[k] = <<feed[i][1], n>>
      <3>1. feed[j][2] \in 1..Top(feed[j][1]) /\ Top(feed[j][1]) \in Int
        <4>1. Top(feed[j][1]) \in Int
          BY <2>2, FanOutAssumption DEF OInv, FanTyped, Top, Dollar
        <4> QED
          BY <4>1 DEF OInv, FeedOrdered
      <3>2. n \in feed[i][2]..Top(feed[i][1])
        BY <2>2, <3>1
      <3>3. PICK k \in 1..Len(feed) : feed[k] = <<feed[i][1], n>>
        BY <2>4, <3>2 DEF OInv, FeedWhole
      <3>4. feed[k][1] = feed[i][1] /\ feed[k][2] = n /\ n \in Nat
        BY <2>2, <3>3
      <3>5. ~(k < i)
        <4>1. k < i => feed[k][2] < feed[i][2]
          BY <3>4 DEF OInv, FeedOrdered
        <4> QED
          BY <2>2, <3>4, <4>1
      <3>6. ~(j < k)
        <4>1. j < k => feed[j][2] < feed[k][2]
          BY <3>4 DEF OInv, FeedOrdered
        <4> QED
          BY <2>2, <3>4, <4>1
      <3>7. k \in i..j
        BY <2>1, <3>5, <3>6
      <3> QED
        BY <3>3, <3>7
    <2> QED
      BY <2>3, <2>4
  <1> QED
    BY <1>1, FanOutInvariant, PTL

\* A batch extends the feed LiveFeed speaks of.
LEMMA BatchExtends ==
  ASSUME OInv, NEW batch \in Seq(Frame), batch # << >>, FanOutBatch(batch)
  PROVE  Feed!Extend
  <1>1. /\ feed' \in Seq(Frame)
        /\ Len(feed) \in Nat /\ Len(batch) \in Nat
        /\ Len(feed') = Len(feed) + Len(batch)
        /\ \A i \in 1..Len(feed) : feed'[i] = feed[i]
        /\ feed \in Seq(Frame)
    BY FeedExtends DEF OInv, FanTyped
  <1>2. Len(batch) # 0
    BY EmptySeq
  <1>3. Len(feed') > Len(feed)
    BY <1>1, <1>2
  <1>4. /\ SubSeq(feed', 1, Len(feed)) \in Seq(Frame)
        /\ Len(SubSeq(feed', 1, Len(feed))) = Len(feed)
        /\ \A i \in 1..Len(feed) : SubSeq(feed', 1, Len(feed))[i] = feed'[i]
    <2>1. \A i \in 1..Len(feed) : feed'[i] \in Frame
      BY <1>1
    <2> QED
      BY <1>1, <2>1, SubSeqProperties
  <1>5. SubSeq(feed', 1, Len(feed)) = feed
    BY <1>1, <1>4, SeqEqual
  <1>6. UNCHANGED <<active, got>>
    BY DEF FanOutBatch
  <1> QED
    BY <1>3, <1>5, <1>6 DEF Feed!Extend

\* Every step of the fan-out is one LiveFeed allows, or one it does not see.
LEMMA FeedStep ==
  ASSUME OInv, [FanOutNext]_ovars
  PROVE  [Feed!FeedNext]_(Feed!feedVars)
  <1>1. ASSUME UNCHANGED <<feed, active, got>>
        PROVE  [Feed!FeedNext]_(Feed!feedVars)
    BY <1>1 DEF Feed!feedVars
  <1>2. ASSUME NEW s \in Streams, Broadcast(s)
        PROVE  [Feed!FeedNext]_(Feed!feedVars)
    <2>1. CASE FanOutBatch(<< <<s, published[s] + 1>> >>)
      <3>1. published[s] \in Nat
        BY FanOutAssumption DEF OInv, FanTyped
      <3>2. << <<s, published[s] + 1>> >> \in Seq(Frame) /\ << <<s, published[s] + 1>> >> # << >>
        BY <3>1 DEF Frame
      <3> QED
        BY <2>1, <3>2, BatchExtends DEF Feed!FeedNext
    <2>2. CASE UNCHANGED <<feed, connections>>
      BY <1>1, <2>2 DEF connections
    <2> QED
      BY <1>2, <2>1, <2>2 DEF Broadcast
  <1>3. CASE ListenerDeliver
    <2>1. Batch \in Seq(Frame) /\ Batch # << >> /\ FanOutBatch(Batch)
      BY <1>3, BatchFacts DEF ListenerDeliver
    <2> QED
      BY <2>1, BatchExtends DEF Feed!FeedNext
  <1>4. ASSUME NEW c \in Clients, Connect(c)
        PROVE  [Feed!FeedNext]_(Feed!feedVars)
    BY <1>4 DEF Connect, Feed!FeedNext, Feed!Join
  <1>5. ASSUME NEW c \in Clients, Disconnect(c)
        PROVE  [Feed!FeedNext]_(Feed!feedVars)
    BY <1>5 DEF Disconnect, Feed!FeedNext, Feed!Leave
  <1>6. ASSUME NEW c \in Clients, SenderSent(c)
        PROVE  [Feed!FeedNext]_(Feed!feedVars)
    <2>1. /\ sending[c] # None
          /\ got' = [got EXCEPT ![c] = sending[c]]
          /\ UNCHANGED <<feed, active>>
      BY <1>6 DEF SenderSent
    <2>2. /\ QueueInv(c) /\ got[c] \in Nat /\ sending[c] \in Nat
          /\ Len(queue[c]) \in Nat /\ Len(feed) \in Nat
      BY <2>1 DEF OInv, FanTyped
    <2>3. /\ c \in active
          /\ got[c] < sending[c]
          /\ sending[c] + Len(queue[c]) <= Len(feed)
          /\ \A j \in got[c] + 1 .. sending[c] - 1 : j + Capacity <= Len(feed)
      BY <2>1, <2>2 DEF QueueInv, InFlight
    <2>4. sending[c] \in got[c] + 1 .. Len(feed) /\ sending[c] \in 1..Len(feed)
      BY <2>2, <2>3
    <2>5. Feed!Receive(c, sending[c])
      BY <2>1, <2>3, <2>4 DEF Feed!Receive
    <2> QED
      BY <2>4, <2>5 DEF Feed!FeedNext
  <1>7. CASE \/ \E s \in Streams : Forget(s)
             \/ ListenerCall \/ ListenerTimeout \/ ListenerError
             \/ \E c \in Clients : SenderTake(c)
             \/ UNCHANGED ovars
    <2>1. UNCHANGED <<feed, active, got>>
      BY <1>7 DEF Forget, ListenerCall, ListenerTimeout, ListenerError, SenderTake, ovars, connections
    <2> QED
      BY <1>1, <2>1
  <1> QED
    BY <1>2, <1>3, <1>4, <1>5, <1>6, <1>7 DEF FanOutNext, Listener

\* The fan-out implements LiveFeed: bounded queues shed only frames that Capacity
\* newer ones follow, and never reorder or repeat one.
THEOREM FanOutRefinesLiveFeed == FanOutSpec => ImplementsLiveFeed
  <1>1. FanOutInit => Feed!FeedInit
    BY DEF FanOutInit, Feed!FeedInit
  <1>2. OInv /\ [FanOutNext]_ovars => [Feed!FeedNext]_(Feed!feedVars)
    BY FeedStep
  <1> QED
    BY <1>1, <1>2, FanOutInvariant, PTL DEF FanOutSpec, ImplementsLiveFeed, Feed!FeedSpec

\* A client's position in the feed: it moves forward, or stays.
GotForward == [][\A c \in Clients : got[c] <= got'[c]]_ovars

\* No client receives a frame twice or after a newer one, also over reconnects: the
\* queue of the old connection is dropped and the new one starts at the newest frame.
THEOREM FramesForward == FanOutSpec => GotForward
  <1>1. ASSUME OInv, FanOutNext
        PROVE  \A c \in Clients : got[c] <= got'[c]
    <2>1. got \in [Clients -> Nat] /\ Len(feed) \in Nat
      BY <1>1 DEF OInv, FanTyped
    <2>2. \A c \in Clients : got[c] <= Len(feed)
      BY <1>1 DEF OInv, QueueInv
    <2>3. CASE UNCHANGED got
      BY <2>1, <2>3
    <2>4. ASSUME NEW c \in Clients, Connect(c)
          PROVE  \A d \in Clients : got[d] <= got'[d]
      BY <2>1, <2>2, <2>4 DEF Connect
    <2>5. ASSUME NEW c \in Clients, SenderSent(c)
          PROVE  \A d \in Clients : got[d] <= got'[d]
      <3>1. /\ sending[c] # None
            /\ got' = [got EXCEPT ![c] = sending[c]]
        BY <2>5 DEF SenderSent
      <3>2. QueueInv(c) /\ sending[c] \in Nat
        BY <1>1, <3>1 DEF OInv, FanTyped
      <3>3. got[c] < sending[c]
        BY <2>1, <3>1, <3>2 DEF QueueInv, InFlight
      <3> QED
        BY <2>1, <3>1, <3>2, <3>3
    <2> QED
      BY <1>1, <2>3, <2>4, <2>5 DEF FanOutNext, Listener, Broadcast, Forget, ListenerCall,
         ListenerDeliver, ListenerTimeout, ListenerError, Disconnect, SenderTake, FanOutBatch,
         connections
  <1> QED
    BY <1>1, FanOutInvariant, PTL DEF FanOutSpec, GotForward
=============================================================================
