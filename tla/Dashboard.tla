------------------------------- MODULE Dashboard -------------------------------
(***************************************************************************)
(* The fleet view of one browser tab (useFleetData): live readings from the *)
(* socket are collected and merged every 100 ms, and every 5 s the list is  *)
(* replaced by the server's summary, which get_fleet_status takes from a    *)
(* 10 s cache or computes from roster and telemetry.                        *)
(*                                                                          *)
(* Live readings come in no order that could be relied on.  The fan-out     *)
(* keeps the order of the stream (FanOut), but a reading is put on the      *)
(* stream by a background task of one of several processes, so that it may  *)
(* be overtaken there, be lost with a failed XADD, or come again with a     *)
(* repeated POST; and queues that overflow and sockets that close lose some.*)
(***************************************************************************)
EXTENDS Naturals

CONSTANTS
    Robots,
    None,        \* not listed, not cached
    Polls,       \* status requests that may overlap
    MaxVersion,  \* bound: readings of one robot
    MaxFrames    \* bound: live readings that reach the tab

ASSUME DashboardAssumption ==
    /\ MaxVersion \in Nat /\ MaxFrames \in Nat
    /\ None \notin [v : Nat, offline : BOOLEAN]

VARIABLES
    reported,  \* the newest reading each robot has sent
    stored,    \* the newest one in the telemetry table; 0: no row, no roster entry
    age,       \* its age: "live", "quiet" (over 60 s), "gone" (out of the 15 min window)
    cache,     \* fleet_status_summary in Redis
    poll,      \* the status requests under way
    shown,     \* robots: what the tab displays
    pending,   \* pendingUpdates.robots: 0 for none
    frames     \* how many live readings came

server == <<reported, stored, age, cache>>
tab == <<shown, pending, frames>>
dashVars == <<server, poll, tab>>

Ages == {"live", "quiet", "gone"}
Row == [v : Nat, offline : BOOLEAN]
Summaries == [Robots -> Row \cup {None}]
NoSummary == [r \in Robots |-> None]

DashboardTypeOK ==
    /\ \A r \in Robots : stored[r] \in 0..reported[r]
    /\ age \in [Robots -> Ages]
    /\ cache \in Summaries \cup {None}
    /\ \A p \in Polls :
          /\ poll[p].pc \in {"idle", "asked", "listed", "summed", "answered"}
          /\ poll[p].roster \subseteq Robots
          /\ poll[p].rows \in Summaries
    /\ shown \in Summaries
    /\ \A r \in Robots : pending[r] \in 0..reported[r]

IdlePoll == [pc |-> "idle", roster |-> {}, rows |-> NoSummary]

DashboardInit ==
    /\ reported = [r \in Robots |-> 0]
    /\ stored = [r \in Robots |-> 0]
    /\ age = [r \in Robots |-> "gone"]
    /\ cache = None
    /\ poll = [p \in Polls |-> IdlePoll]
    /\ shown = NoSummary
    /\ pending = [r \in Robots |-> 0]
    /\ frames = 0

-----------------------------------------------------------------------------
(* Readings: accepted, stored, ageing. *)

\* ingest, ingest_batch: the POST is answered.
ReadingSent(r) ==
    /\ reported[r] < MaxVersion
    /\ reported' = [reported EXCEPT ![r] = @ + 1]
    /\ UNCHANGED <<stored, age, cache, poll, tab>>

\* How old a newer reading can be when the newest row had age a: not older.
NoOlder(a) == CASE a = "live" -> {"live"} [] a = "quiet" -> {"live", "quiet"} [] OTHER -> Ages

\* A newer reading reaches the table, perhaps late and past others.  The worker reads
\* on its own, ahead of the fan-out or behind it, and may never store some; a reading
\* older than the newest row changes nothing here.
ReadingStored(r) ==
    /\ \E v \in stored[r] + 1 .. reported[r] : stored' = [stored EXCEPT ![r] = v]
    /\ \E a \in NoOlder(age[r]) : age' = [age EXCEPT ![r] = a]
    /\ UNCHANGED <<reported, cache, poll, tab>>

ReadingAges(r) ==
    /\ stored[r] > 0
    /\ age[r] # "gone"
    /\ age' = [age EXCEPT ![r] = IF @ = "live" THEN "quiet" ELSE "gone"]
    /\ UNCHANGED <<reported, stored, cache, poll, tab>>

-----------------------------------------------------------------------------
(* get_fleet_status. *)

\* get_recent_per_robot: the robot has rows within the window.
Recent(r) == stored[r] > 0 /\ age[r] # "gone"

\* _derive_status of a robot's newest row.
Offline(r) == age[r] = "quiet"

\* Mutant: the fleet is whatever reported within the window.
SummaryOfTelemetry(r, roster) ==
    IF Recent(r) THEN [v |-> stored[r], offline |-> Offline(r)]
    ELSE None

\* summarize_robot_history when there are rows in the window, or
\* summarize_silent_robot for a robot of the roster without any.
Summary(r, roster) ==
    IF Recent(r) THEN [v |-> stored[r], offline |-> Offline(r)]
    ELSE IF r \in roster THEN [v |-> 0, offline |-> TRUE] ELSE None

\* The tab asks, every 5 s, whether or not the last request was answered.
PollBegin(p) ==
    /\ poll[p].pc = "idle"
    /\ poll' = [poll EXCEPT ![p].pc = "asked"]
    /\ UNCHANGED <<server, tab>>

\* The summary is cached.
PollHit(p) ==
    /\ poll[p].pc = "asked"
    /\ cache # None
    /\ poll' = [poll EXCEPT ![p].pc = "answered", ![p].rows = cache]
    /\ UNCHANGED <<server, tab>>

\* Nothing is cached, or Redis does not answer: the roster is read first,
PollList(p) ==
    /\ poll[p].pc = "asked"
    /\ poll' = [poll EXCEPT ![p].pc = "listed",
                            ![p].roster = {r \in Robots : stored[r] > 0}]
    /\ UNCHANGED <<server, tab>>

\* then the recent rows,
PollSum(p) ==
    /\ poll[p].pc = "listed"
    /\ poll' = [poll EXCEPT ![p].pc = "summed", ![p].roster = {},
                            ![p].rows = [r \in Robots |-> Summary(r, poll[p].roster)]]
    /\ UNCHANGED <<server, tab>>

\* and the result is cached, unless Redis does not answer.
PollCache(p) ==
    /\ poll[p].pc = "summed"
    /\ cache' \in {poll[p].rows, cache}
    /\ poll' = [poll EXCEPT ![p].pc = "answered"]
    /\ UNCHANGED <<reported, stored, age, tab>>

\* Mutant: the summary is cached without an expiry.
CacheNeverExpires == FALSE /\ UNCHANGED dashVars

\* setex: 10 s later
CacheExpires ==
    /\ cache # None
    /\ cache' = None
    /\ UNCHANGED <<reported, stored, age, poll, tab>>

-----------------------------------------------------------------------------
(* The tab. *)

\* The answer replaces the list; the pending updates stay pending.
PollShown(p) ==
    /\ poll[p].pc = "answered"
    /\ shown' = poll[p].rows
    /\ poll' = [poll EXCEPT ![p] = IdlePoll]
    /\ UNCHANGED <<server, pending, frames>>

\* The answer is lost, or the handler failed, perhaps after it filled the cache.
PollFails(p) ==
    /\ poll[p].pc = "answered"
    /\ poll' = [poll EXCEPT ![p] = IdlePoll]
    /\ UNCHANGED <<server, tab>>

\* handleMessage: of each robot the reading that came last is collected.
FrameArrives(r) ==
    /\ frames < MaxFrames
    /\ \E v \in 1..reported[r] : pending' = [pending EXCEPT ![r] = v]
    /\ frames' = frames + 1
    /\ UNCHANGED <<server, poll, shown>>

\* Mutant: the merge keeps the status the list had.
MergeKeepsStatus ==
    /\ \E r \in Robots : pending[r] > 0
    /\ shown' = [r \in Robots |->
                    IF pending[r] > 0
                    THEN [v |-> pending[r], offline |-> shown[r] # None /\ shown[r].offline]
                    ELSE shown[r]]
    /\ pending' = [r \in Robots |-> 0]
    /\ UNCHANGED <<server, poll, frames>>

\* The 100 ms timer: the collected updates are merged into the list.
Merge ==
    /\ \E r \in Robots : pending[r] > 0
    /\ shown' = [r \in Robots |->
                    IF pending[r] > 0 THEN [v |-> pending[r], offline |-> FALSE]
                    ELSE shown[r]]
    /\ pending' = [r \in Robots |-> 0]
    /\ UNCHANGED <<server, poll, frames>>

-----------------------------------------------------------------------------
PollStep(p) == PollHit(p) \/ PollList(p) \/ PollSum(p) \/ PollCache(p)

DashboardNext ==
    \/ \E r \in Robots :
          ReadingSent(r) \/ ReadingStored(r) \/ ReadingAges(r) \/ FrameArrives(r)
    \/ \E p \in Polls : PollBegin(p) \/ PollStep(p) \/ PollShown(p) \/ PollFails(p)
    \/ CacheExpires
    \/ Merge

\* The cache entry expires, the timer fires, requests are made again and again and
\* keep being answered.  No reading has to be stored or received, and none has to age:
\* what is to hold in the end holds of robots that stay live, quiet or gone.
DashboardFairness ==
    /\ WF_dashVars(CacheExpires)
    /\ WF_dashVars(Merge)
    /\ \A p \in Polls :
          /\ WF_dashVars(PollBegin(p))
          /\ WF_dashVars(PollStep(p))
          /\ SF_dashVars(PollShown(p))

DashboardSpec == DashboardInit /\ [][DashboardNext]_dashVars /\ DashboardFairness

-----------------------------------------------------------------------------
(* Properties. *)

\* The screen is never ahead of the fleet, and raises no false alarm: a displayed
\* reading was reported, and a robot is displayed as OFFLINE only if it is on the
\* roster and has been quiet since that reading was stored, however old the answer,
\* the cached summary or the collected frame was that put it there.
DisplayTruthful ==
    \A r \in Robots : shown[r] # None =>
        /\ reported[r] > 0 /\ shown[r].v <= reported[r]
        /\ shown[r].offline =>
              /\ stored[r] > 0 /\ shown[r].v <= stored[r]
              /\ shown[r].v = stored[r] => age[r] # "live"

\* The one job of the monitor: when a robot of the roster has gone quiet, the tab
\* shows it, and shows it as OFFLINE, for good, whatever frames, answers and cached
\* summaries are still on their way.
QuietIsOffline ==
    \A r \in Robots :
        <>[](stored[r] > 0 /\ age[r] # "live" => shown[r] # None /\ shown[r].offline)

\* When nothing new is reported the display comes to agree with the database and
\* stays so: a frame that came behind a newer one or was never stored, an older
\* answer or a stale cache entry does not remain.
DisplaySettles ==
    <>[](shown = [r \in Robots |-> Summary(r, {q \in Robots : stored[q] > 0})])

================================================================================
