# FleetOps: a TLA+ model of the robot fleet platform

This directory holds a formal model of the robot fleet platform: TLA+ modules
translated from the source, TLC configurations that model-check them on small
instances, and TLAPS proofs for instances of any size. `PROJECT.json` maps every
definition to the lines it models.

## 1. The system

FleetOps monitors and controls a fleet of robots.

| Part | State it keeps | Operations | Hard behaviour |
| --- | --- | --- | --- |
| Command service (`services/command_service.py`, `repositories/command_repo.py`, `routes/commands.py`) | `robot_commands` rows: status, `*_at` columns, idempotency key, deadline | create, claim, status update | several API processes write one row; compare-and-set; idempotency races; lost claim responses |
| Timeout sweeper (`worker.py`) | Redis lock with TTL, one transaction | lock, select, update row by row, commit, announce | stale selection, overlapping scans, row locks, crash while holding the lock |
| Robot (`simulator/robot_sim.py`) | inbox, `processed_command_ids` | poll, report, act | request timeouts, swallowed failures, restart without memory |
| Telemetry ingest (`services/telemetry_service.py`, `websocket_manager.py`) | background tasks, the Redis stream | accept, XADD | answered before queued, swallowed XADD failures, approximate trimming |
| Persistence worker (`worker.py`, `repositories/robot_repo.py`) | consumer group, pending entries, `telemetry` and `robots` rows | read own, claim idle, read new, persist, acknowledge | replay, several workers, crash between commit and XACK, lost group |
| Deferred buffer (`telemetry_buffer.py`) | in-memory list | buffer, flush | loss on failure and shutdown, nested transaction |
| WebSocket fan-out (`websocket_manager.py`) | connections, bounded queues, sender tasks, XREAD cursor | connect, disconnect, fan out | overflow, slow clients, a cursor that is `$` |
| Retention (`retention.py`) | Redis lock, old rows | prune loop in API and worker | a lock that outlives the interval |
| Rate limiter (`middleware.py`) | sorted set or list per bucket and address | check | limit boundary, refused requests that count, a clock read before Redis answers |
| Sign-in and tickets (`auth.py`, `tickets.py`, `routes/auth.py`) | users, signed tickets | sign in, mint, verify, bootstrap | start-up race for the first admin, expiry boundary |
| Fleet status and cache (`services/robot_service.py`, `cache.py`) | 10 s cache | summarise | stale summaries |
| Dashboard (`frontend/.../hooks`, `utils/ticket.js`, `App.jsx`) | robots, events, socket, cached ticket, session | poll, merge, reconnect, sign in | snapshots older than live updates, live updates that come late, sockets opened after unmount, one ticket request shared by many |
| Mission simulator (`robot_sim.py`) | missions, robot status, batch queue, viewer state | dispatch, drive, charge, repair, stop, resume, batch | stop commands racing the dispatcher, charging suspended by heat, retried batches |

They interact through PostgreSQL rows (commands, telemetry, roster), two Redis
streams (telemetry, which feeds both the worker and the fan-out, and events), two
Redis locks, HTTP requests that time out, and WebSockets. The API runs as four
processes, the worker as one or more containers that Docker restarts, Redis
without persistence, PostgreSQL at READ COMMITTED.

What makes the parts correct:

* a command walks its transition table once; its outcome never changes; nobody is
  told of a status it has not reached; no two pollers receive it; a retried
  create returns the first command; an expired command is swept;
* a robot performs a command at most once, in the order the operator sent them,
  and the table never claims a result that did not happen;
* a reading that was delivered is not lost by any crash or failure; the roster
  agrees with the table and never goes back or ahead of the clock; what is on the
  stream reaches the table;
* without Redis, an answered reading is in the table or in memory, is stored twice
  only when its POST was repeated, and the fleet reports while somebody watches;
* a robot has one duty at a time, stays where an operator stopped it, and comes
  back into service;
* a slow client loses only its oldest frames and delays nobody; the listener leaves
  nothing out behind its cursor;
* the screen ends up showing what the database says, and a quiet robot as OFFLINE;
* the limiter keeps its budget, a ticket is still valid when it arrives, no socket
  outlives the component that opened it, and a page gets its socket back.

## 2. Modules

| Module | Models |
| --- | --- |
| `CommandStates` | statuses, `VALID_TRANSITIONS`, `_transition_values` |
| `CommandContract` | abstract specification: submit, advance, expire, tell |
| `CommandLifecycle` | the command table and all its writers |
| `CommandDelivery` | `CommandLifecycle` composed with polling robots |
| `TelemetryPipeline` | buffered ingest, Redis stream and consumer group, worker, roster |
| `FreeTier` | the simulator's batcher and viewer gating composed with the direct and the deferred ingest |
| `FleetMissions` | dispatcher, mission and status machine of the robots |
| `LiveFeed` | abstract specification of the live feed: in order, losing only the oldest |
| `FanOut` | `ConnectionManager`: streams, cursors, client queues, sender tasks |
| `Dashboard` | fleet status with its cache, and the tab that merges it with live readings |
| `ConsoleAccess` | sign-in gate, tickets, reconnecting socket, rate limiter |
| `MC*` | symmetry, views and constant values for the runs |
| `*_proofs` | the theorems about the module of that name (section 5) |

`Dashboard` does not build on `LiveFeed`. What that promises is the order of a stream,
and the readings are not on the stream in their order (see below).

Operators called *Mutant* in a comment are deliberately broken variants of the
definition that follows them. They take no part in any specification; replacing
the definition by its mutant must make a named property fail.

### CommandLifecycle

A step is one database statement or one broadcast: the points where the code
awaits and other handlers can run. Handlers are processes with a `pc`
(`creating`, `claiming`, `patching`, `scanning`); the values they read before an
await and use after it (`seen`, `todo`, `claimed`) are part of their state.

| Action | Code |
| --- | --- |
| `CreateBegin`, `CreateCommit`, `CreateRecover`, `CreateBroadcast` | `create_command`: fresh id and deadline; INSERT, or the unique constraint; look up the winner; announce and answer |
| `ClaimBegin`, `ClaimSelect`, `ClaimDispatch`, `ClaimBroadcast`, `ClaimRespond` | `_claim_pending_commands`: oldest PENDING row, `try_dispatch`, announce, loop, answer |
| `PatchRead`, `PatchCas`, `PatchConflict`, `PatchReread`, `PatchBroadcast` | `update_status`: read and early returns, conditional UPDATE, 200 or 409, read again, announce |
| `ScanLock` ... `ScanUnlock` | `timeout_worker_loop` and `scan_for_timeouts` |
| `*Abort`, `ScanFail`, `ScanDeadlockAbort`, `ScanCrash`, `ScanLockExpire` | cancelled requests, database errors, deadlock victims, a dead worker, the TTL |

The scanner's transaction is not atomic: it keeps the rows it has updated locked
(`rowLock`) until it commits, other writers wait, and two overlapping scans can
deadlock. An UPDATE directly followed by its COMMIT is one step, because nothing
can see the state between them. Command ids stand for `created_at` as well: both
are taken when the request starts, while the commit comes later. A deadline is
`never`, `future` or `past`; what matters is whether it has passed.

### CommandDelivery

The robot's loop: poll, take the next command, report ACKNOWLEDGED and EXECUTING,
act, report the result. A claim may time out while its handler goes on; a report
is received by a handler or lost, and the robot continues either way. A report
that is delayed past later reports of the same robot is not modelled: a handler
may however stop between its read and its write while later reports overtake it.
`performed` and `prior` record what happened for the properties.

### TelemetryPipeline

An entry is its position in the order of the XADDs. `log` keeps every entry;
`trimmed` says how many are gone from Redis (MAXLEN is approximate: any point that
keeps at least `MaxLen` entries). The consumer group is `group`, `cursor`, `owner`
(the pending entries) and `idle`. A worker reads its own pending entries, claims
idle ones, reads new ones, persists in one transaction or row by row
(`BatchInsert`), and acknowledges; any call may fail, the worker may die and come
back under its hostname (`Lasting`) or not at all, Redis may restart and forget
everything. A reading is a robot, a resolved time and whether its columns can
hold it; other messages on the stream are skipped and acknowledged. The JSON and
ISO-8601 round trip of a timestamp is exact, so a resolved time is passed on as
it is. `copies` tells none, one and several rows apart.

### FleetMissions

The dispatcher and the robots are tasks of one event loop, so a step runs from one
await to the next. A tick of `robot_loop` is one step, except where it awaits a
request: `TakeCommand` and `Act` are separated by the reports of a command,
`Complete` and `Completed` by the post to `/events`; the dispatcher may run between
them. Battery and temperature are intervals between the thresholds the code
compares with (5, 20, 25, 30, 50, 100 percent; 60, 80, 95 degrees); one tick moves
less than the code's rates allow, so a level can be skipped only where it can in
the program. Load and charging heat a robot by less than it cools above 60 degrees:
only a random spike takes it over a threshold. Health wears down to 10 at most, so
the `< 10` conditions of `is_dead` never hold. Positions are reduced to whether the
robot is within reach of the base. `halted` records an emergency stop.

### FanOut and LiveFeed

A message is its number in its stream; `feed` records what was fanned out, and a
queue holds positions of `feed`. XREAD is two steps: `ListenerCall` resolves `$`,
and `ListenerDeliver`, `ListenerTimeout` or `ListenerError` ends it. A batch
goes to all queues without an await. The sender holds one frame (`sending`) while
it awaits the socket. `disconnect` is one action, whoever calls it. The unbounded
baseline (`_spawn_send_tasks`) is not modelled.

### Dashboard

A robot's readings are versions; `age` is that of its newest row: live, quiet (over
60 s) or out of the 15-minute window. A reading may be stored late, after newer ones or
never, and be quiet by then. A status request passes the cache, the roster, the recent
rows and the cache again, each a step; several may overlap. The tab replaces its list by
an answer, collects live readings (the last to come wins), and merges them with a timer.

Live readings come in any order. Each is published by a background task of one of four
processes, a failing XADD loses it, a repeated POST publishes it again, and overflow and
reconnects lose more; so `FrameArrives` takes any reading sent so far. That an older
reading replaces a newer one is therefore part of the model. Robots are not
decommissioned by the code, so the roster only grows; the pages of `skip` and `limit`
are left out. Rows and roster change together, as in the worker.

### FreeTier

The deployment without Redis. The batcher posts a batch up to three times; a
request that timed out may still be worked on. `Route` decides by the viewers at
that moment between writing and buffering. `insert_many` commits, so in the direct
path the row is stored before `mark_seen`, and in `flush`, which wraps both in
`session.begin()`, `mark_seen` is refused on the closed transaction: the rows are
stored, the roster is not touched and `flush` raises. Copies are counted up to two,
one for every entry of the list that is inserted: a batch that was posted again while
its first copy is still buffered is in the buffer twice and gives two rows.
The simulator's queue is unbounded, as in the code.

### ConsoleAccess

Time passes in ticks; tickets, requests and window entries have ages. A request
is at most `Transit` on its way, and with Redis it is stamped up to `Lag` before
it is counted. The page shares one ticket (`cached`) and one request (`inflight`);
`hook` holds the runs of the socket effect, of which only the last is mounted. A
restart of the API may rotate the key, which revokes every ticket. The limiter's
window is `window`, `served` records what it let through. Both auth modes and both
limiter backends occur as two deployments: the hosted demo (open, memory) and a
production one (required, redis). Ticket requests, commands and the requests of
other pages behind the same address fall into one bucket and share the window.

## 3. Runs

| Run | Instance | Shows |
| --- | --- | --- |
| `command_races` | 1 command, 2 PATCHes with every status, 1 scanner | `RowIsOneRun`, `ToldOnlyDurable`, refinement of `CommandContract` |
| `command_sweep` | 2 commands, 2 creates at once, a key, 2 scanners, 1 fault | `IdempotentReplies`, `ExpiredIsSwept` |
| `command_delivery` | 2 commands, 1 robot, 2 claims, 1 PATCH handler, 1 restart | `PerformedAtMostOnce`, `CompletedWasPerformed`, `PerformedInOrder`, `ExclusiveClaim` |
| `command_dangling` | 1 command without a deadline | `DanglingIsReconciled` is violated |
| `telemetry_pipeline` | 2 POSTs of up to 2 readings, 2 workers, 1 fault | `AtLeastOnce`, `RosterInStep`, `SeenNotAhead`, `LastSeenForward`, `SettledForGood` |
| `telemetry_drain` | 2 readings, 2 workers of which one may vanish, 1 fault | `DrainedByGroup` |
| `telemetry_group_lost` | 1 reading, 1 worker, 1 fault | `QueuedIsPersisted` is violated |
| `fleet_missions` | 1 robot, missions of 2 steps, 2 commands, 3 spikes | `OneDuty`, `StepInRange`, `StopHolds`, `BackInService` |
| `fan_out` | 2 streams of up to 3 and together 4 messages, 2 clients, queues of 2, 1 fault, both backends | `Gapless`, refinement of `LiveFeed`, `NewestArrives`, `PublishedIsFanned` |
| `live_view` | 1 robot, 2 readings, 3 live frames, 2 overlapping requests | `DisplayTruthful`, `QuietIsOffline`, `DisplaySettles` |
| `free_tier` | 2 readings, 2 requests at once, 3 faults | `AckedIsKept`, `TwiceOnlyByRetry`, `SeenIsStored`, `FollowsViewers` |
| `console_access` | 2 mounts, 1 command, 1 other page, 2 faults, budget 2 in 3 ticks | `BudgetHolds`, `TicketOutlastsUse`, `NoOrphanSocket`, `Reconnects` |

Bounds. Every race in the command table is between two writers of one row, or two
scans with two rows; order needs two commands. One fault suffices for each single
failure; replays and stolen batches need none. In the pipeline two entries make a
batch of two rows of which one is stored, and a second batch behind the first;
`MaxLen = 1` makes trimming happen, `MaxTime = MaxSkew = 1` gives times within,
at and beyond the skew. In `telemetry_drain` nothing is trimmed, so that every
reading has to reach the table. What small instances cannot show
is proved (section 5).

Robots share nothing but the mission queue, so one robot meets every interleaving
of dispatcher, operator and physics, and two commands stop and release it; three
spikes take it from cool to shut down and once more over 80 degrees. In `fan_out`
four messages overflow a queue of two, and of three messages on one stream the second
can be left out between the others. In `live_view` two readings give an older answer or
frame that comes after a newer one, and the third frame comes again; robots are
independent on the screen. In `free_tier` a batch is one reading, so that two are under
way at once;
three faults exhaust the attempts of a POST, or combine a timeout, a failed write and
a restart. In `console_access` a budget of 2 in 3 ticks is reached by
two retries and refused by one request of somebody else; the ticket's life, margin,
transit and the slow clock are kept at their boundary (`Transit + Skew = Margin`).

`command_delivery` uses a VIEW that hides variables which only record what was
sent; no action reads them and no property of the run mentions them. Symmetry is
used for handlers of one kind, never in a run with a liveness property.

## 4. Fairness

* Handlers: weak fairness of a started handler's next step (an event loop runs its
  tasks). No client is obliged to send anything.
* Scanners: weak fairness, also of starting: the loop never ends and Docker
  restarts the worker. Strong fairness for an UPDATE that waits for a row lock:
  PostgreSQL queues waiters.
* Time: deadlines and lock TTLs run out, pending entries become idle.
* Robots: weak fairness of the loop after a claim; polling itself is not owed,
  since it stops when no dashboard is connected.
* Workers: weak fairness only for those that are restarted. Strong fairness of
  reading what was claimed: a claim is followed by that read at once, so two
  workers cannot for ever take entries from each other, which needs 60 s between
  the two calls every time.
* Fleet: every loop ticks, commands under way end, the repair crew comes, and what a
  tick wears or cools a little at a time crosses the next threshold in the end
  (strong fairness: ticks that change nothing visible happen in between).
* Fan-out: the listener task goes on, and so does the sender of a client that reads;
  `Stalled` clients owe nothing.
* Dashboard: cache entries expire (`setex`), timers fire; requests may fail, but answers
  keep coming (strong fairness of `PollShown`). Nothing is owed by robots, worker and
  socket, and no reading has to age: `QuietIsOffline` and `DisplaySettles` are decided
  for robots that stay live, quiet, or out of the window, each.
* Free tier: the viewer poll is made, and answered, again and again.
* Console: the API answers, timers fire, the page goes on. Nobody has to sign in, and
  sockets may drop as long as faults last.
* Faults are bounded in number.

## 5. Proofs

Every invariant, action property and refinement that a passing run checks is a
theorem. The type invariants of `CommandLifecycle`, `TelemetryPipeline` and `Dashboard`
are theorems without being properties of a run. The theorems hold for any value of the
constants that satisfies the assumptions of the module: any number of commands,
robots, handlers, workers, readings, streams, clients, mounts and faults, any queue
capacity, batch size, budget and lifetime.

| Module | Theorems | Inductive invariant |
| --- | --- | --- |
| `CommandLifecycle_proofs` | `TypeCorrect`, `RowsAreOneRun`, `NothingToldEarly`, `ClaimsAreExclusive`, `CreationIsIdempotent`, `OutcomeIsFinal`, `Refinement` (of `CommandContract`) | `IInv` (`Invariance`) |
| `CommandDelivery_proofs` | `DeliveryTypeCorrect`, `NothingPerformedTwice`, `CompletedMeansPerformed`, `DeliveryInOrder`, `DeliveryClaimsExclusive`, `WithdrawnIsNeverPerformed`, `DeliveryRefinesContract` | `DInv` (`DeliveryInvariant`) |
| `TelemetryPipeline_proofs` | `PipelineTyped`, `DeliveredAtLeastOnce`, `RosterAgrees`, `SkewBounded`, `SeenMovesForward`, `RowsAreFinal` | `PInv` (`PipelineInvariant`) |
| `FanOut_proofs` | `FanOutTyped`, `FeedHasNoGap`, `FramesForward`, `FanOutRefinesLiveFeed` | `OInv` (`FanOutInvariant`) |
| `FleetMissions_proofs` | `FleetTyped`, `OneDutyAtATime`, `StepAlwaysInRange`, `StopStays` | `FInv` (`FleetInvariant`) |
| `FreeTier_proofs` | `FreeTierTyped`, `AnsweredIsKept`, `RowsTwiceOnlyByRetry`, `RosterShowsStored` | `TInv` (`FreeTierInvariant`) |
| `Dashboard_proofs` | `DashboardTyped`, `ScreenTruthful` | `BInv` (`DashboardInvariant`) |
| `ConsoleAccess_proofs` | `ConsoleTyped`, `BudgetKept`, `TicketsOutlastUse`, `NoSocketOrphaned` | `CInv` (`ConsoleInvariant`) |

Each inductive invariant was checked with TLC on the instance of its run (for
`FleetMissions` and `Dashboard` on two robots as well) before it was proved. The proofs
have one step per action; steps that leave a component alone share a frame lemma.

Assumptions. Only those the modules state, which TLC evaluates on every run: bounds
are natural numbers, capacities, batch sizes and lifetimes are positive, `None` is
none of the values it stands beside, settings are among those the code knows; the
fleet is finite. `ConsoleAccess` alone assumes relations between durations: a request
waits for Redis less than a window (`Lag < Window`), the refresh margin covers the
transit and the clock skew (`Transit + Skew <= Margin`), and a ticket outlives a round
trip (`2 * Transit < TTL`). The defaults of the code (60 s window, 30 s margin, 300 s
lifetime) meet them with requests of a few seconds. `Window < Budget * Retry` is
needed for `Reconnects` only and used in no proof.

### The command table: IInv

None of the invariants is inductive alone. `IInv` adds what each handler knows
between two steps: `CreateInv` (a create owns a fresh id, has no row before its
commit and a winner to find when it lost), `KeyInv` (the unique constraint),
`ReplyInv`, `ClaimInv` (what is being handed out was dispatched), `PatchInv` (the
compare-and-set uses the status its transition was validated against, and what
will be announced was reached), `ScanInv` (a row is locked exactly while an open
scan has updated it, and cannot leave its live status under the lock).

The argument goes through one lemma, `RowChange`: a step leaves the rows alone,
inserts one, moves one along the transition table, or expires a set of live rows.
From it follow the typing of rows, `RowIsOneRun`, the growth of what a row has
reached, and that terminal states stay. Each handler's part of the invariant is
then kept by its own steps, and by the others because reached statuses only grow.
A PENDING row has no stamps, so it is in no claim list and dispatching it keeps
claims exclusive. The refinement maps `status` and the reached statuses computed
from the row; a scan's commit is one `Expire` because locked rows stay live.
`OutcomeIsFinal` says over steps what the invariants say of states: `RowChange` leaves
a terminal row where it is, whichever stale handler still writes.

### Delivery: DInv

`IInv` carries over, since every step of the composition is a step of the table or
leaves it alone. `HandInv` says that what a robot holds was delivered to it, each
command once, and was not performed unless it is the one in hand: `ExclusiveClaim`
is what makes `PerformedAtMostOnce` survive a restart that forgets
`processed_command_ids`. `FifoInv` says that a command is not dispatched while an
earlier one of the same robot is PENDING; with `CollectInv` and `PollInv` the order
holds across overlapping claims. `ReportInv` and `ResultInv` carry
`CompletedWasPerformed`: COMPLETED is on its way only for a performed command.
The refinement of `CommandContract` carries over in the same way
(`DeliveryRefinesContract`). A command that was cancelled or timed out before it was
dispatched stays undispatched, and only dispatched commands reach a robot
(`WithdrawnIsNeverPerformed`).

### The pipeline: PInv

What a worker holds may be stale: the entries may be trimmed, acknowledged or stored
by another worker meanwhile. `BatchSound` says what stays true of it: its untrimmed
readings are its rows, those no longer left to insert are in the table, and before
the XACK all of them are, and on the roster. So acknowledging is harmless whoever
owns the entries by then. `PositionsSound` ties cursor, owners and copies to the log;
`StampsSound` bounds the times still on their way. `RowsAreFinal` bounds the
duplicates: a worker takes only what is pending or lies behind the cursor, and the
cursor goes back only when Redis has forgotten the stream as well, so an entry that is
acknowledged and in nobody's hands is never inserted again.

### Fan-out: OInv

A queue is the end of the feed (`QueueInv`): consecutive positions up to the newest,
so a frame that is missing in front of it was shed behind `Capacity` newer ones, which
is what `LiveFeed` allows. `FeedWhole` says that a stream is in the feed without gaps
from its first message fanned out to its cursor; a read under way starts at the cursor
(`CursorInv`), so its batch continues it. The refinement maps every action to a step
of `LiveFeed` or to a stutter. `FramesForward`: a client never receives a frame of the
feed twice or after a later one, not even over a reconnect, which starts at the newest
frame. Two frames may carry readings that are out of order themselves (see Dashboard).

### Missions: FInv

`OneDuty`, `StepInRange` and `StopHolds` are proved together. What they lack: a
robot's loop awaits the completion of a mission only with one in hand, and a robot is
DEAD only while its battery or temperature says so, which keeps the physics away from
a stopped robot that broke down until the repair.

### Free tier: TInv

`KeepInv` follows a reading from the handler to the answer: a handler that will answer
200 has buffered or stored its rows. `PlaceInv` is the counting argument: a reading
that was not posted again is with the simulator, with one handler, in the buffer, in a
flush or in the table, and in one of them only. While proving it the model was found
to count a reading twice in one inserted list as one row, and was corrected.

### Dashboard: BInv

What a tab shows of a robot passes through an answer, the cache and a set of collected
frames, and may be overtaken at each. `BInv` says the same of an answer and the cache
wherever they wait: the version was stored, and a robot that is OFFLINE in it with the
newest version stored is not live. It stays true because readings only move on and a
quiet robot is live again only with a newer one. Of frames it says only that their
reading was sent: their order is not assumed.

### Console: CInv

A request is counted by the clock it read, up to `Lag` before it is let through.
`LimiterInv` says that what was let through in the last `k` ticks is in the last
`k + Lag` ticks of the window, and that Redis keeps the window at least as long as it
holds something that was let through; `BudgetHolds` follows, since a request counts at
least what lies within the window less `Lag`. The sums are prefix sums; facts about
them are proved by looking at the least length for which they would fail
(lemma `Least`). A ticket and the request that carries it age together (`InTime`), so
what was fresh by the margin when it was sent is valid on arrival. A hook opens a
socket only while it is mounted, and its cleanup closes it.

## 6. Only model-checked

* Liveness: `ExpiredIsSwept`, `DrainedByGroup`, `BackInService`, `NewestArrives`,
  `PublishedIsFanned`, `QuietIsOffline`, `DisplaySettles`, `FollowsViewers`,
  `Reconnects`. TLAPS does not reason about fairness and ENABLED.
* That the instances of the two violation runs violate their properties.

## 7. Where code and documentation disagree

Shown by runs that find the violation:

* A command without `timeout_seconds` is not reconciled by the sweeper
  (`command_dangling`).
* A worker whose consumer group is missing never creates it again
  (`telemetry_group_lost`).

Visible in the models, where the properties state what does hold:

* Live readings can go back: `useFleetData.js:153` keeps the last message, whatever its
  timestamp, so a reading published late makes a quiet robot look alive. The next answer
  puts it right (`DisplaySettles`, `QuietIsOffline`).
* A reading is stored twice when the XACK fails after the COMMIT, although
  `docs/architecture.md:43` says "exactly once". It is stored at least once, the roster
  is not affected, and once it is acknowledged and in nobody's hands its rows are final
  (`AtLeastOnce`, `RosterInStep`, `SettledForGood`).
* Without Redis a reading is stored twice when its POST is repeated, and only then
  (`TwiceOnlyByRetry`).
* A flush whose INSERT fails loses its rows, although its log says "will retry next
  interval" (`telemetry_buffer.py:75`), and shutting down drops the buffer
  (`AckedIsKept` names both losses). No flush updates the roster.
* An emergency stop is forgotten when the robot is repaired after a breakdown: it is
  ACTIVE and dispatched again, although "STOPPED robots stay parked until an
  explicit RESUME command" (`robot_sim.py:372`). `StopHolds` ends at a repair.
* After a key rotation the page offers its cached ticket until it has aged, although
  `config.py:45` says it "fetches a fresh one whenever its socket reconnects"; it
  does get its socket back (`Reconnects`).
* Refused requests fill the limiter's window. One page retrying every 3 s stays
  within a budget of 60 per minute (`Window < Budget * Retry`); four pages behind one
  address do not, and may be refused for as long as they keep trying.
* `App.jsx:253` reads the session before `useAuthGate` restores it and is not told
  when it expires: a reload asks for a new sign-in, and a console whose session has
  expired stays on the screen without a ticket (the exception in `Reconnects`).

## 8. Not modelled, and the plan

Not modelled: the retention pruner (a periodic DELETE; how often it runs is a matter
of durations), analytics and events (SQL aggregations, one INSERT per event), the
dashboard's event log and rendering, roles and the first admin account, password
hashing and token encoding, metrics, logging, configuration parsing, the simulator's
health server, continuous robot physics, payloads and error texts, benchmarks and
deployment scripts. The event log is filled from the history once, on mount: what
happens while the socket is down is missing from it (`useFleetData.js:196-200`).

No safety property of a passing run is left without a proof. Beyond the prover's reach
are the liveness properties of section 6. The one recursive definition, the sum of the
limiter's window, needs no induction over data: its lemmas go by least counterexamples
(section 5). The next components to model would be the retention pruner and the events.
