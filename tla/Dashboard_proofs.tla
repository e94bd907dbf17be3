--------------------------- MODULE Dashboard_proofs ----------------------------
(***************************************************************************)
(* Proofs about Dashboard for any number of robots, of readings and of     *)
(* overlapping status requests, whatever order the live readings come in.  *)
(*                                                                         *)
(* One fact carries the argument.  A summary, once computed, stays true of *)
(* the table wherever it waits (in a request, in the cache, on the screen):*)
(* the readings only move on, and a robot is live again only with a newer  *)
(* reading.                                                                *)
(***************************************************************************)
EXTENDS Dashboard, TLAPS

PollRec == [pc : {"idle", "asked", "listed", "summed", "answered"},
            roster : SUBSET Robots, rows : Summaries]

ScreenTyped ==
    /\ reported \in [Robots -> Nat]
    /\ stored \in [Robots -> Nat]
    /\ age \in [Robots -> Ages]
    /\ cache \in Summaries \cup {None}
    /\ poll \in [Polls -> PollRec]
    /\ shown \in Summaries
    /\ pending \in [Robots -> Nat]
    /\ frames \in Nat

\* The table is not ahead of the robots.
StoredBehind == \A r \in Robots : stored[r] <= reported[r]

\* An entry of a summary: the robot is on the roster, the reading is in the table,
\* and if the entry says OFFLINE the robot has been quiet since that reading.
RowTrue(r, row) ==
    row # None =>
        /\ stored[r] > 0 /\ row.v <= stored[r]
        /\ row.offline /\ row.v = stored[r] => age[r] # "live"

SummaryTrue(s) == \A r \in Robots : RowTrue(r, s[r])

\* A request holds a true summary and names only robots of the roster.
PollTrue(p) ==
    /\ \A r \in poll[p].roster : stored[r] > 0
    /\ SummaryTrue(poll[p].rows)

CacheTrue == cache # None => SummaryTrue(cache)

\* What was collected from the socket was reported.
PendingTrue == \A r \in Robots : pending[r] <= reported[r]

BInv ==
    /\ ScreenTyped
    /\ StoredBehind
    /\ CacheTrue
    /\ \A p \in Polls : PollTrue(p)
    /\ DisplayTruthful
    /\ PendingTrue

-----------------------------------------------------------------------------
(* Rows and summaries. *)

\* What is in the table only moves on, and a robot is live again only with a newer
\* reading.
ServerForward ==
    /\ stored' \in [Robots -> Nat] /\ reported' \in [Robots -> Nat]
    /\ \A r \in Robots :
          /\ stored[r] <= stored'[r] /\ reported[r] <= reported'[r]
          /\ stored'[r] = stored[r] /\ age[r] # "live" => age'[r] # "live"

\* An entry that was true stays true wherever it is kept.
LEMMA RowStaysTrue ==
  ASSUME ScreenTyped, ServerForward, NEW r \in Robots, NEW row \in Row \cup {None},
         RowTrue(r, row)
  PROVE  row # None =>
            /\ stored'[r] > 0 /\ row.v <= stored'[r]
            /\ row.offline /\ row.v = stored'[r] => age'[r] # "live"
  <1> SUFFICES ASSUME row # None
               PROVE  /\ stored'[r] > 0 /\ row.v <= stored'[r]
                      /\ row.offline /\ row.v = stored'[r] => age'[r] # "live"
    OBVIOUS
  <1>1. row.v \in Nat /\ row.offline \in BOOLEAN
    BY DEF Row
  <1>2. /\ stored[r] \in Nat /\ stored'[r] \in Nat /\ stored[r] <= stored'[r]
        /\ stored'[r] = stored[r] /\ age[r] # "live" => age'[r] # "live"
    BY DEF ScreenTyped, ServerForward
  <1>3. stored[r] > 0 /\ row.v <= stored[r]
    BY DEF RowTrue
  <1>4. ASSUME row.offline, row.v = stored'[r] PROVE age'[r] # "live"
    <2>1. stored'[r] = stored[r] /\ row.v = stored[r]
      BY <1>1, <1>2, <1>3, <1>4
    <2> QED
      BY <1>2, <1>4, <2>1 DEF RowTrue
  <1> QED
    BY <1>1, <1>2, <1>3, <1>4

\* The entries of a summary are rows or None.
LEMMA SummaryRows ==
  ASSUME NEW s \in Summaries, NEW r \in Robots
  PROVE  s[r] \in Row \cup {None}
  BY DEF Summaries

\* A summary kept in the cache, in a request or on the screen stays true.
LEMMA KeptStayTrue ==
  ASSUME BInv, ServerForward, UNCHANGED <<cache, poll, shown>>
  PROVE  CacheTrue' /\ (\A p \in Polls : PollTrue(p)') /\ DisplayTruthful'
  <1>1. ScreenTyped
    BY DEF BInv
  <1>2. CacheTrue'
    <2>1. ASSUME cache # None, NEW r \in Robots PROVE RowTrue(r, cache[r])'
      <3>1. cache \in Summaries
        BY <1>1, <2>1 DEF ScreenTyped
      <3>2. cache[r] \in Row \cup {None} /\ RowTrue(r, cache[r])
        BY <2>1, <3>1, SummaryRows DEF BInv, CacheTrue, SummaryTrue
      <3> QED
        BY <1>1, <3>2, RowStaysTrue DEF RowTrue
    <2> QED
      BY <2>1 DEF CacheTrue, SummaryTrue
  <1>3. ASSUME NEW p \in Polls PROVE PollTrue(p)'
    <2>1. poll[p] \in PollRec /\ PollTrue(p)
      BY <1>1 DEF ScreenTyped, BInv
    <2>2. poll[p].roster \in SUBSET Robots /\ poll[p].rows \in Summaries
      BY <2>1 DEF PollRec
    <2>3. ASSUME NEW r \in poll[p].roster PROVE stored'[r] > 0
      <3>1. r \in Robots /\ stored[r] > 0
        BY <2>1, <2>2 DEF PollTrue
      <3>2. stored[r] \in Nat /\ stored'[r] \in Nat /\ stored[r] <= stored'[r]
        BY <1>1, <3>1 DEF ScreenTyped, ServerForward
      <3> QED
        BY <3>1, <3>2
    <2>4. ASSUME NEW r \in Robots PROVE RowTrue(r, poll[p].rows[r])'
      <3>1. poll[p].rows[r] \in Row \cup {None} /\ RowTrue(r, poll[p].rows[r])
        BY <2>1, <2>2, SummaryRows DEF PollTrue, SummaryTrue
      <3> QED
        BY <1>1, <3>1, RowStaysTrue DEF RowTrue
    <2> QED
      BY <2>3, <2>4 DEF PollTrue, SummaryTrue
  <1>4. DisplayTruthful'
    <2> SUFFICES ASSUME NEW r \in Robots, shown[r] # None
                 PROVE  /\ reported'[r] > 0 /\ shown[r].v <= reported'[r]
                        /\ shown[r].offline =>
                              /\ stored'[r] > 0 /\ shown[r].v <= stored'[r]
                              /\ shown[r].v = stored'[r] => age'[r] # "live"
      BY DEF DisplayTruthful
    <2>1. shown[r] \in Row /\ shown[r].v \in Nat /\ shown[r].offline \in BOOLEAN
      BY <1>1, SummaryRows DEF ScreenTyped, Row
    <2>2. /\ reported[r] > 0 /\ shown[r].v <= reported[r]
          /\ shown[r].offline => RowTrue(r, shown[r])
      BY DEF BInv, DisplayTruthful, RowTrue
    <2>3. reported[r] \in Nat /\ reported'[r] \in Nat /\ reported[r] <= reported'[r]
      BY <1>1 DEF ScreenTyped, ServerForward
    <2>4. reported'[r] > 0 /\ shown[r].v <= reported'[r]
      BY <2>1, <2>2, <2>3
    <2> QED
      BY <1>1, <2>1, <2>2, <2>4, RowStaysTrue
  <1> QED
    BY <1>2, <1>3, <1>4
-----------------------------------------------------------------------------
(* Readings. *)

\* Nothing on its way is about a reading that was not sent yet.
LEMMA SentStep ==
  ASSUME BInv, NEW r \in Robots, ReadingSent(r)
  PROVE  BInv'
  <1>1. ScreenTyped /\ StoredBehind /\ PendingTrue
    BY DEF BInv
  <1>2. /\ reported' = [reported EXCEPT ![r] = @ + 1]
        /\ UNCHANGED <<stored, age, cache, poll, shown, pending, frames>>
    BY DEF ReadingSent, tab
  <1>3. ScreenTyped' /\ ServerForward /\ StoredBehind' /\ PendingTrue'
    BY <1>1, <1>2 DEF ScreenTyped, ServerForward, StoredBehind, PendingTrue
  <1>4. CacheTrue' /\ (\A p \in Polls : PollTrue(p)') /\ DisplayTruthful'
    BY <1>2, <1>3, KeptStayTrue
  <1> QED
    BY <1>3, <1>4 DEF BInv

\* Storing a reading may make the robot live, but no entry is about that reading yet.
LEMMA StoredStep ==
  ASSUME BInv, NEW r \in Robots, ReadingStored(r)
  PROVE  BInv'
  <1>1. ScreenTyped /\ StoredBehind /\ PendingTrue
    BY DEF BInv
  <1>2. /\ \E v \in stored[r] + 1 .. reported[r] : stored' = [stored EXCEPT ![r] = v]
        /\ \E a \in Ages : age' = [age EXCEPT ![r] = a]
        /\ UNCHANGED <<reported, cache, poll, shown, pending, frames>>
    <2>1. NoOlder(age[r]) \subseteq Ages
      BY DEF NoOlder, Ages
    <2> QED
      BY <2>1 DEF ReadingStored, tab
  <1>3. stored \in [Robots -> Nat] /\ reported \in [Robots -> Nat] /\ age \in [Robots -> Ages]
    BY <1>1 DEF ScreenTyped
  <1>4. PICK v \in Nat : v > stored[r] /\ v <= reported[r] /\ stored' = [stored EXCEPT ![r] = v]
    <2>1. stored[r] \in Nat /\ reported[r] \in Nat
      BY <1>3
    <2>2. PICK v \in stored[r] + 1 .. reported[r] : stored' = [stored EXCEPT ![r] = v]
      BY <1>2
    <2>3. v \in Nat /\ v > stored[r] /\ v <= reported[r]
      BY <2>1, <2>2
    <2> QED
      BY <2>2, <2>3
  <1>5. /\ stored' \in [Robots -> Nat] /\ age' \in [Robots -> Ages]
        /\ stored'[r] = v /\ stored'[r] # stored[r]
        /\ \A q \in Robots : q # r => stored'[q] = stored[q] /\ age'[q] = age[q]
    BY <1>2, <1>3, <1>4
  <1>6. ScreenTyped'
    BY <1>1, <1>2, <1>5 DEF ScreenTyped
  <1>7. ServerForward
    <2> SUFFICES ASSUME NEW q \in Robots
                 PROVE  /\ stored[q] <= stored'[q]
                        /\ stored'[q] = stored[q] /\ age[q] # "live" => age'[q] # "live"
      BY <1>2, <1>3, <1>5 DEF ServerForward
    <2>1. CASE q = r
      BY <1>3, <1>4, <1>5, <2>1
    <2>2. CASE q # r
      BY <1>3, <1>5, <2>2
    <2> QED
      BY <2>1, <2>2
  <1>8. StoredBehind' /\ PendingTrue'
    BY <1>1, <1>2, <1>4, <1>5 DEF StoredBehind, PendingTrue
  <1>9. CacheTrue' /\ (\A p \in Polls : PollTrue(p)') /\ DisplayTruthful'
    BY <1>2, <1>7, KeptStayTrue
  <1> QED
    BY <1>6, <1>8, <1>9 DEF BInv

\* A robot that ages does not become live.
LEMMA AgesStep ==
  ASSUME BInv, NEW r \in Robots, ReadingAges(r)
  PROVE  BInv'
  <1>1. ScreenTyped /\ StoredBehind /\ PendingTrue
    BY DEF BInv
  <1>2. /\ age' = [age EXCEPT ![r] = IF @ = "live" THEN "quiet" ELSE "gone"]
        /\ UNCHANGED <<reported, stored, cache, poll, shown, pending, frames>>
    BY DEF ReadingAges, tab
  <1>3. ScreenTyped' /\ ServerForward /\ StoredBehind' /\ PendingTrue'
    BY <1>1, <1>2 DEF ScreenTyped, Ages, ServerForward, StoredBehind, PendingTrue
  <1>4. CacheTrue' /\ (\A p \in Polls : PollTrue(p)') /\ DisplayTruthful'
    BY <1>2, <1>3, KeptStayTrue
  <1> QED
    BY <1>3, <1>4 DEF BInv
-----------------------------------------------------------------------------
(* Status requests. *)

\* Summary returns what the table says now.
LEMMA SummaryIsTrue ==
  ASSUME ScreenTyped, NEW r \in Robots, NEW roster \in SUBSET Robots,
         \A q \in roster : stored[q] > 0
  PROVE  Summary(r, roster) \in Row \cup {None} /\ RowTrue(r, Summary(r, roster))
  <1>1. stored[r] \in Nat /\ age[r] \in {"live", "quiet", "gone"}
    BY DEF ScreenTyped, Ages
  <1>2. CASE Recent(r)
    <2>1. PICK row : row = [v |-> stored[r], offline |-> Offline(r)]
      OBVIOUS
    <2>2. row \in Row /\ row.v = stored[r] /\ (row.offline <=> age[r] = "quiet")
      BY <1>1, <2>1 DEF Row, Offline
    <2>3. Summary(r, roster) = row
      BY <1>2, <2>1 DEF Summary
    <2> QED
      BY <1>1, <1>2, <2>2, <2>3 DEF RowTrue, Recent
  <1>3. CASE ~Recent(r) /\ r \in roster
    <2>1. PICK row : row = [v |-> 0, offline |-> TRUE]
      OBVIOUS
    <2>2. row \in Row /\ row.v = 0
      BY <2>1 DEF Row
    <2>3. Summary(r, roster) = row
      BY <1>3, <2>1 DEF Summary
    <2>4. stored[r] > 0
      BY <1>3
    <2> QED
      BY <1>1, <2>2, <2>3, <2>4 DEF RowTrue
  <1>4. CASE ~Recent(r) /\ r \notin roster
    BY <1>4 DEF Summary, RowTrue
  <1> QED
    BY <1>2, <1>3, <1>4

\* What a request may hold.
HoldsTrue(t) == t \in PollRec /\ (\A r \in t.roster : stored[r] > 0) /\ SummaryTrue(t.rows)

\* A step that only moves a request on, and perhaps the cache or the screen.
Moved(p, t) ==
    /\ poll' = [poll EXCEPT ![p] = t]
    /\ UNCHANGED <<reported, stored, age, pending, frames>>

Put(x, y) == x = y \/ \E s \in Summaries : SummaryTrue(s) /\ x = s

\* Such a step keeps the invariant when what it puts there is true.
LEMMA PollMoves ==
  ASSUME BInv, NEW p \in Polls, NEW t, HoldsTrue(t), Moved(p, t),
         Put(cache', cache), Put(shown', shown)
  PROVE  BInv'
  <1>1. ScreenTyped /\ StoredBehind /\ PendingTrue
    BY DEF BInv
  <1>2. /\ poll' = [poll EXCEPT ![p] = t]
        /\ UNCHANGED <<reported, stored, age, pending, frames>>
    BY DEF Moved
  <1>3. ScreenTyped'
    BY <1>1, <1>2 DEF ScreenTyped, HoldsTrue, Put
  <1>4. StoredBehind' /\ PendingTrue'
    BY <1>1, <1>2 DEF StoredBehind, PendingTrue
  <1>5. CacheTrue'
    BY <1>2 DEF BInv, CacheTrue, SummaryTrue, RowTrue, Put
  <1>6. ASSUME NEW q \in Polls PROVE PollTrue(q)'
    <2>1. poll'[q] = t \/ poll'[q] = poll[q]
      BY <1>1, <1>2 DEF ScreenTyped
    <2>2. (\A r \in poll'[q].roster : stored[r] > 0)
          /\ \A r \in Robots : RowTrue(r, poll'[q].rows[r])
      BY <2>1 DEF BInv, PollTrue, HoldsTrue, SummaryTrue
    <2> QED
      BY <1>2, <2>2 DEF PollTrue, SummaryTrue, RowTrue
  <1>7. DisplayTruthful'
    <2>1. CASE shown' = shown
      BY <1>2, <2>1 DEF BInv, DisplayTruthful
    <2>2. ASSUME NEW s \in Summaries, SummaryTrue(s), shown' = s
          PROVE  DisplayTruthful'
      <3> SUFFICES ASSUME NEW r \in Robots, s[r] # None
                   PROVE  /\ reported[r] > 0 /\ s[r].v <= reported[r]
                          /\ s[r].offline =>
                                /\ stored[r] > 0 /\ s[r].v <= stored[r]
                                /\ s[r].v = stored[r] => age[r] # "live"
        BY <1>2, <2>2 DEF DisplayTruthful
      <3>1. RowTrue(r, s[r])
        BY <2>2 DEF SummaryTrue
      <3>2. s[r] \in Row
        BY SummaryRows
      <3>3. s[r].v \in Nat
        BY <3>2 DEF Row
      <3>4. stored[r] \in Nat /\ reported[r] \in Nat /\ stored[r] <= reported[r]
        BY <1>1 DEF ScreenTyped, StoredBehind
      <3> QED
        BY <3>1, <3>3, <3>4 DEF RowTrue
    <2> QED
      BY <2>1, <2>2 DEF Put
  <1> QED
    BY <1>3, <1>4, <1>5, <1>6, <1>7 DEF BInv

\* An idle request holds nothing.
LEMMA IdlePollTrue == HoldsTrue(IdlePoll)
  <1>1. NoSummary \in Summaries /\ SummaryTrue(NoSummary)
    BY DEF NoSummary, Summaries, SummaryTrue, RowTrue
  <1> QED
    BY <1>1 DEF IdlePoll, PollRec, HoldsTrue

\* A request is made, served from the cache or from the table, cached, shown or lost.
LEMMA PollStepInv ==
  ASSUME BInv, NEW p \in Polls,
         PollBegin(p) \/ PollStep(p) \/ PollShown(p) \/ PollFails(p)
  PROVE  BInv'
  <1>1. /\ ScreenTyped /\ CacheTrue /\ PollTrue(p)
        /\ poll \in [Polls -> PollRec] /\ poll[p] \in PollRec
    BY DEF BInv, ScreenTyped
  <1>2. /\ poll[p].roster \in SUBSET Robots /\ poll[p].rows \in Summaries
        /\ \A r \in poll[p].roster : stored[r] > 0
        /\ SummaryTrue(poll[p].rows)
    BY <1>1 DEF PollRec, PollTrue
  <1>3. CASE PollBegin(p)
    <2>1. PICK t : t = [poll[p] EXCEPT !.pc = "asked"]
      OBVIOUS
    <2>2. t \in PollRec /\ t.roster = poll[p].roster /\ t.rows = poll[p].rows
      BY <1>1, <2>1 DEF PollRec
    <2>3. HoldsTrue(t)
      BY <1>2, <2>2 DEF HoldsTrue
    <2>4. Moved(p, t) /\ UNCHANGED <<cache, shown>>
      BY <1>1, <1>3, <2>1 DEF PollBegin, Moved, server, tab
    <2> QED
      BY <2>3, <2>4, PollMoves DEF Put
  <1>4. CASE PollHit(p)
    <2>1. cache \in Summaries /\ SummaryTrue(cache)
      BY <1>1, <1>4 DEF PollHit, ScreenTyped, CacheTrue
    <2>2. PICK t : t = [poll[p] EXCEPT !.pc = "answered", !.rows = cache]
      OBVIOUS
    <2>3. t \in PollRec /\ t.roster = poll[p].roster /\ t.rows = cache
      BY <1>1, <2>1, <2>2 DEF PollRec
    <2>4. HoldsTrue(t)
      BY <1>2, <2>1, <2>3 DEF HoldsTrue
    <2>5. Moved(p, t) /\ UNCHANGED <<cache, shown>>
      BY <1>1, <1>4, <2>2 DEF PollHit, Moved, server, tab
    <2> QED
      BY <2>4, <2>5, PollMoves DEF Put
  <1>5. CASE PollList(p)
    <2>1. PICK t : t = [poll[p] EXCEPT !.pc = "listed",
                                       !.roster = {r \in Robots : stored[r] > 0}]
      OBVIOUS
    <2>2. t \in PollRec /\ t.roster = {r \in Robots : stored[r] > 0} /\ t.rows = poll[p].rows
      BY <1>1, <2>1 DEF PollRec
    <2>3. HoldsTrue(t)
      BY <1>2, <2>2 DEF HoldsTrue
    <2>4. Moved(p, t) /\ UNCHANGED <<cache, shown>>
      BY <1>1, <1>5, <2>1 DEF PollList, Moved, server, tab
    <2> QED
      BY <2>3, <2>4, PollMoves DEF Put
  <1>6. CASE PollSum(p)
    <2>1. PICK rows : rows = [r \in Robots |-> Summary(r, poll[p].roster)]
      OBVIOUS
    <2>2. \A r \in Robots : rows[r] \in Row \cup {None} /\ RowTrue(r, rows[r])
      BY <1>1, <1>2, <2>1, SummaryIsTrue
    <2>3. rows \in Summaries /\ SummaryTrue(rows)
      BY <2>1, <2>2 DEF Summaries, SummaryTrue
    <2>4. PICK t : t = [poll[p] EXCEPT !.pc = "summed", !.roster = {}, !.rows = rows]
      OBVIOUS
    <2>5. t \in PollRec /\ t.roster = {} /\ t.rows = rows
      BY <1>1, <2>3, <2>4 DEF PollRec
    <2>6. HoldsTrue(t)
      BY <2>3, <2>5 DEF HoldsTrue
    <2>7. Moved(p, t) /\ UNCHANGED <<cache, shown>>
      BY <1>1, <1>6, <2>1, <2>4 DEF PollSum, Moved, server, tab
    <2> QED
      BY <2>6, <2>7, PollMoves DEF Put
  <1>7. CASE PollCache(p)
    <2>1. PICK t : t = [poll[p] EXCEPT !.pc = "answered"]
      OBVIOUS
    <2>2. t \in PollRec /\ t.roster = poll[p].roster /\ t.rows = poll[p].rows
      BY <1>1, <2>1 DEF PollRec
    <2>3. HoldsTrue(t)
      BY <1>2, <2>2 DEF HoldsTrue
    <2>4. Moved(p, t) /\ UNCHANGED shown /\ (cache' = poll[p].rows \/ cache' = cache)
      BY <1>1, <1>7, <2>1 DEF PollCache, Moved, tab
    <2> QED
      BY <1>2, <2>3, <2>4, PollMoves DEF Put
  <1>8. CASE PollShown(p)
    <2>1. Moved(p, IdlePoll) /\ shown' = poll[p].rows /\ UNCHANGED cache
      BY <1>8 DEF PollShown, Moved, server
    <2> QED
      BY <1>2, <2>1, IdlePollTrue, PollMoves DEF Put
  <1>9. CASE PollFails(p)
    <2>1. Moved(p, IdlePoll) /\ UNCHANGED <<cache, shown>>
      BY <1>9 DEF PollFails, Moved, server, tab
    <2> QED
      BY <2>1, IdlePollTrue, PollMoves DEF Put
  <1> QED
    BY <1>3, <1>4, <1>5, <1>6, <1>7, <1>8, <1>9 DEF PollStep
\* The cached summary is gone.
LEMMA ExpiresStep ==
  ASSUME BInv, CacheExpires
  PROVE  BInv'
  <1>1. /\ cache' = None
        /\ UNCHANGED <<reported, stored, age, poll, shown, pending, frames>>
    BY DEF CacheExpires, tab
  <1>2. ScreenTyped' /\ StoredBehind' /\ PendingTrue'
    BY <1>1 DEF BInv, ScreenTyped, StoredBehind, PendingTrue
  <1>3. CacheTrue' /\ DisplayTruthful'
    BY <1>1 DEF BInv, CacheTrue, DisplayTruthful
  <1>4. \A p \in Polls : PollTrue(p)'
    BY <1>1 DEF BInv, PollTrue, SummaryTrue, RowTrue
  <1> QED
    BY <1>2, <1>3, <1>4 DEF BInv

-----------------------------------------------------------------------------
(* The tab. *)

\* A step of the socket or the timer: the server and the requests do not move.
LEMMA TabMoves ==
  ASSUME BInv, UNCHANGED <<reported, stored, age, cache, poll>>,
         shown' \in Summaries, pending' \in [Robots -> Nat], frames' \in Nat,
         DisplayTruthful', PendingTrue'
  PROVE  BInv'
  <1>1. ScreenTyped' /\ StoredBehind'
    BY DEF BInv, ScreenTyped, StoredBehind
  <1>2. CacheTrue'
    BY DEF BInv, CacheTrue, SummaryTrue, RowTrue
  <1>3. \A p \in Polls : PollTrue(p)'
    BY DEF BInv, PollTrue, SummaryTrue, RowTrue
  <1> QED
    BY <1>1, <1>2, <1>3 DEF BInv

\* A frame holds a reading that was reported, if not the newest.
LEMMA FrameStep ==
  ASSUME BInv, NEW r \in Robots, FrameArrives(r)
  PROVE  BInv'
  <1>1. /\ ScreenTyped /\ PendingTrue /\ DisplayTruthful
        /\ pending \in [Robots -> Nat] /\ reported \in [Robots -> Nat] /\ frames \in Nat
    BY DEF BInv, ScreenTyped
  <1>2. /\ \E v \in 1..reported[r] : pending' = [pending EXCEPT ![r] = v]
        /\ frames' = frames + 1
        /\ UNCHANGED <<reported, stored, age, cache, poll, shown>>
    BY DEF FrameArrives, server
  <1>3. pending' \in [Robots -> Nat] /\ frames' \in Nat
    BY <1>1, <1>2
  <1>4. PendingTrue'
    BY <1>1, <1>2 DEF PendingTrue
  <1>5. DisplayTruthful'
    BY <1>1, <1>2 DEF DisplayTruthful
  <1> QED
    BY <1>1, <1>2, <1>3, <1>4, <1>5, TabMoves DEF ScreenTyped

\* The merge displays readings that were reported, and none of them as OFFLINE.
LEMMA MergeStep ==
  ASSUME BInv, Merge
  PROVE  BInv'
  <1>1. /\ ScreenTyped /\ PendingTrue /\ DisplayTruthful
        /\ pending \in [Robots -> Nat] /\ reported \in [Robots -> Nat] /\ shown \in Summaries
    BY DEF BInv, ScreenTyped
  <1>2. /\ shown' = [r \in Robots |->
                        IF pending[r] > 0 THEN [v |-> pending[r], offline |-> FALSE]
                        ELSE shown[r]]
        /\ pending' = [r \in Robots |-> 0]
        /\ UNCHANGED <<reported, stored, age, cache, poll, frames>>
    BY DEF Merge, server
  <1>3. ASSUME NEW r \in Robots
        PROVE  /\ shown'[r] \in Row \cup {None}
               /\ \/ shown'[r] = shown[r]
                  \/ pending[r] > 0 /\ shown'[r].v = pending[r] /\ shown'[r].offline = FALSE
    <2>1. CASE pending[r] > 0
      <3>1. shown'[r] = [v |-> pending[r], offline |-> FALSE]
        BY <1>2, <2>1
      <3> QED
        BY <1>1, <2>1, <3>1 DEF Row
    <2>2. CASE ~(pending[r] > 0)
      BY <1>1, <1>2, <2>2, SummaryRows
    <2> QED
      BY <2>1, <2>2
  <1>4. shown' \in Summaries
    BY <1>2, <1>3 DEF Summaries
  <1>5. DisplayTruthful'
    <2> SUFFICES ASSUME NEW r \in Robots, shown'[r] # None
                 PROVE  /\ reported[r] > 0 /\ shown'[r].v <= reported[r]
                        /\ shown'[r].offline =>
                              /\ stored[r] > 0 /\ shown'[r].v <= stored[r]
                              /\ shown'[r].v = stored[r] => age[r] # "live"
      BY <1>2 DEF DisplayTruthful
    <2>1. CASE shown'[r] = shown[r]
      BY <1>1, <2>1 DEF DisplayTruthful
    <2>2. CASE pending[r] > 0 /\ shown'[r].v = pending[r] /\ shown'[r].offline = FALSE
      <3>1. pending[r] \in Nat /\ reported[r] \in Nat /\ pending[r] <= reported[r]
        BY <1>1 DEF PendingTrue
      <3> QED
        BY <2>2, <3>1
    <2> QED
      BY <1>3, <2>1, <2>2
  <1>6. PendingTrue' /\ pending' \in [Robots -> Nat]
    BY <1>1, <1>2 DEF PendingTrue
  <1> QED
    BY <1>1, <1>2, <1>4, <1>5, <1>6, TabMoves DEF ScreenTyped

-----------------------------------------------------------------------------
(* The theorems. *)

\* Nothing is reported, cached, asked or displayed at first.
LEMMA ScreenInit == DashboardInit => BInv
  <1> SUFFICES ASSUME DashboardInit PROVE BInv
    OBVIOUS
  <1>1. /\ reported = [r \in Robots |-> 0] /\ stored = [r \in Robots |-> 0]
        /\ age = [r \in Robots |-> "gone"] /\ cache = None
        /\ poll = [p \in Polls |-> IdlePoll]
        /\ shown = NoSummary /\ pending = [r \in Robots |-> 0] /\ frames = 0
    BY DEF DashboardInit
  <1>2. NoSummary \in Summaries
    BY DEF NoSummary, Summaries
  <1>3. HoldsTrue(IdlePoll)
    BY IdlePollTrue
  <1>4. IdlePoll \in PollRec
    BY <1>3 DEF HoldsTrue
  <1>5. ScreenTyped
    BY <1>1, <1>2, <1>4 DEF ScreenTyped, Ages
  <1>6. StoredBehind /\ CacheTrue
    BY <1>1 DEF StoredBehind, CacheTrue
  <1>7. \A p \in Polls : PollTrue(p)
    BY <1>1, <1>3 DEF PollTrue, HoldsTrue
  <1>8. DisplayTruthful
    BY <1>1 DEF DisplayTruthful, NoSummary
  <1>9. PendingTrue
    <2>1. ASSUME NEW r \in Robots PROVE pending[r] <= reported[r]
      <3>1. pending[r] = 0 /\ reported[r] = 0
        BY <1>1
      <3> QED
        BY <3>1
    <2> QED
      BY <2>1 DEF PendingTrue
  <1> QED
    BY <1>5, <1>6, <1>7, <1>8, <1>9 DEF BInv

\* Every step of the server, of a request or of the tab keeps BInv.
LEMMA ScreenStep == BInv /\ [DashboardNext]_dashVars => BInv'
  <1>1. ASSUME BInv, DashboardNext PROVE BInv'
    BY <1>1, SentStep, StoredStep, AgesStep, PollStepInv, ExpiresStep, FrameStep,
       MergeStep DEF DashboardNext
  <1>2. ASSUME BInv, UNCHANGED dashVars PROVE BInv'
    <2>1. UNCHANGED <<reported, stored, age, cache, poll, shown, pending, frames>>
      BY <1>2 DEF dashVars, server, tab
    <2>2. PendingTrue' /\ DisplayTruthful'
      BY <1>2, <2>1 DEF BInv, PendingTrue, DisplayTruthful
    <2> QED
      BY <1>2, <2>1, <2>2, TabMoves DEF BInv, ScreenTyped
  <1> QED
    BY <1>1, <1>2

\* BInv holds however status requests, cache, live readings and timer interleave, and
\* in whatever order the readings come.
THEOREM DashboardInvariant == DashboardSpec => []BInv
  BY ScreenInit, ScreenStep, PTL DEF DashboardSpec

\* Requests, cache and screen hold only summaries, also when Redis has no entry.
THEOREM DashboardTyped == DashboardSpec => []DashboardTypeOK
  <1>1. BInv => DashboardTypeOK
    <2> SUFFICES ASSUME BInv PROVE DashboardTypeOK
      OBVIOUS
    <2>1. ASSUME NEW r \in Robots
          PROVE  stored[r] \in 0..reported[r] /\ pending[r] \in 0..reported[r]
      <3>1. stored[r] \in Nat /\ pending[r] \in Nat /\ reported[r] \in Nat
        BY DEF BInv, ScreenTyped
      <3>2. stored[r] <= reported[r] /\ pending[r] <= reported[r]
        BY DEF BInv, StoredBehind, PendingTrue
      <3> QED
        BY <3>1, <3>2
    <2>2. \A p \in Polls : /\ poll[p].pc \in {"idle", "asked", "listed", "summed", "answered"}
                           /\ poll[p].roster \subseteq Robots
                           /\ poll[p].rows \in Summaries
      BY DEF BInv, ScreenTyped, PollRec
    <2> QED
      BY <2>1, <2>2 DEF BInv, ScreenTyped, DashboardTypeOK
  <1> QED
    BY <1>1, DashboardInvariant, PTL

\* What useFleetData displays was reported, and OFFLINE is never a false alarm,
\* however stale the answer, the cache entry or the frame that put it there.
THEOREM ScreenTruthful == DashboardSpec => []DisplayTruthful
  <1>1. BInv => DisplayTruthful
    BY DEF BInv
  <1> QED
    BY <1>1, DashboardInvariant, PTL
=============================================================================
