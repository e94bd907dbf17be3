--------------------------- MODULE TelemetryPipeline ---------------------------
(***************************************************************************)
(* Buffered telemetry: a POST is answered and appended to the Redis stream *)
(* by a background task, the workers of the consumer group db_writers      *)
(* drain the stream into the telemetry table and the robot roster.         *)
(*                                                                         *)
(*   ingest, ingest_batch, broadcast(_batch)   Accept ... XAddFails        *)
(*   redis_to_db_sync_worker, process_batch    Start ... Ack               *)
(*                                                                         *)
(* An entry of the stream is known by its position in the order of the     *)
(* XADDs.  Redis is external: its stream (log, trimmed), its consumer      *)
(* group (group, cursor) and the group's list of pending entries (owner,   *)
(* idle) behave as the commands the code sends assume.                     *)
(***************************************************************************)
EXTENDS Naturals, Sequences, FiniteSets

CONSTANTS
    MaxPost,     \* bound: how many POSTs (and command broadcasts) are made
    MaxBatch,    \* bound: readings in one POST
    MaxEntries,  \* bound: entries ever appended to the stream
    MaxTime,     \* bound: the server clock
    MaxSkew,     \* max_clock_skew_seconds
    Robots,
    None,        \* no robot, no worker
    Fits,        \* may a reading fit its columns (TRUE), or not (FALSE)
    Workers,
    Lasting,     \* the workers that are restarted under their own hostname
    BatchInsert, \* the workers that run with OPT_BATCH_INSERT
    MaxLen,      \* telemetry_stream_maxlen
    Count,       \* COUNT of XREADGROUP and XAUTOCLAIM
    Restarts,    \* may Redis restart
    MaxFaults    \* bound: failed calls, crashes and restarts

ASSUME BoundsAssumption ==
    /\ MaxPost \in Nat /\ MaxBatch \in Nat /\ MaxEntries \in Nat
    /\ MaxTime \in Nat \ {0}
    /\ MaxSkew \in Nat /\ MaxLen \in Nat /\ MaxFaults \in Nat
ASSUME CountAssumption == Count \in Nat \ {0}
ASSUME NobodyAssumption == None \notin Robots \cup Workers
ASSUME SettingsAssumption ==
    /\ Fits \subseteq BOOLEAN
    /\ Lasting \subseteq Workers
    /\ BatchInsert \subseteq Workers
    /\ Restarts \in BOOLEAN

Posts == 1..MaxPost
Positions == 1..MaxEntries

VARIABLES
    now,        \* the server clock
    made,       \* how many POSTs have been accepted
    task,       \* what the background task of each answered POST has to append
    log,        \* every entry ever appended to the stream
    trimmed,    \* the entries up to this position are gone
    group,      \* does the consumer group exist
    cursor,     \* its last delivered position
    owner,      \* the consumer an entry is pending for
    idle,       \* pending entries not delivered again for 60 s
    worker,     \* the workers
    copies,     \* rows of an entry: 0, 1, or 2 for several
    lastSeen,   \* robots.last_seen; 0 when the robot has no roster row
    faults

ingress == <<made, task>>
stream == <<log, trimmed>>
pending == <<owner, idle>>
tables == <<copies, lastSeen>>
pvars == <<now, ingress, stream, group, cursor, pending, worker, tables, faults>>

-----------------------------------------------------------------------------
(* Entries. *)

\* A telemetry payload with its resolved timestamp; any other message the code
\* sends to this stream (a claim's broadcast) has no battery field, no robot here.
Reading == [robot : Robots, ts : Nat, fits : BOOLEAN]
Other == [robot |-> None, ts |-> 0, fits |-> TRUE]
Entry == Reading \cup {Other}

\* "battery" in decoded
IsReading(i) == log[i].robot # None

\* The first n of a set of positions.
FirstN(S, n) == {i \in S : Cardinality({j \in S : j < i}) < n}

Later(a, b) == IF a > b THEN a ELSE b

\* The readings among the entries of a batch that still have their fields.
RowsOf(batch) == {i \in batch : i > trimmed /\ IsReading(i)}

Stopped(state) == [pc |-> state, batch |-> {}, rows |-> {}, left |-> {}]

WorkerState == [pc : {"down", "gone", "own", "claim", "new", "persist", "ack"},
                batch : SUBSET Positions,  \* message_ids
                rows : SUBSET Positions,   \* insert_dicts
                left : SUBSET Positions]   \* rows not inserted yet

PipelineTypeOK ==
    /\ now \in 1..MaxTime
    /\ made \in 0..MaxPost
    /\ task \in [Posts -> Seq(Entry)]
    /\ log \in Seq(Entry)
    /\ trimmed \in 0..Len(log)
    /\ group \in BOOLEAN
    /\ cursor \in 0..Len(log)
    /\ owner \in [Positions -> Workers \cup {None}]
    /\ idle \in SUBSET Positions
    /\ worker \in [Workers -> WorkerState]
    /\ copies \in [Positions -> 0..2]
    /\ lastSeen \in [Robots -> Nat]
    /\ faults \in 0..MaxFaults

PipelineInit ==
    /\ now = 1
    /\ made = 0
    /\ task = [p \in Posts |-> << >>]
    /\ log = << >>
    /\ trimmed = 0
    /\ group = FALSE
    /\ cursor = 0
    /\ owner = [i \in Positions |-> None]
    /\ idle = {}
    /\ worker = [w \in Workers |-> Stopped("down")]
    /\ copies = [i \in Positions |-> 0]
    /\ lastSeen = [r \in Robots |-> 0]
    /\ faults = 0

Fault == faults < MaxFaults /\ faults' = faults + 1

-----------------------------------------------------------------------------
(* ingest and ingest_batch with OPT_REDIS_BUFFER. *)

\* Mutant: the device's time is always taken.
ResolveTimestampTrusting(reported, received) ==
    IF reported = 0 THEN received ELSE reported

\* resolve_timestamp: the server's time when the device reports none (0), or one
\* too far ahead.
ResolveTimestamp(reported, received) ==
    IF reported = 0 \/ reported > received + MaxSkew THEN received ELSE reported

\* A POST of readings is answered 200; its XADD is left to a background task.
Accept ==
    /\ made < MaxPost
    /\ made' = made + 1
    /\ \E n \in 1..MaxBatch :
       \E reported \in [1..n -> [robot : Robots, at : 0..(MaxTime + MaxSkew + 1), fits : Fits]] :
          task' = [task EXCEPT ![made'] =
              [k \in 1..n |-> [robot |-> reported[k].robot,
                               ts |-> ResolveTimestamp(reported[k].at, now),
                               fits |-> reported[k].fits]]]
    /\ UNCHANGED <<now, stream, group, cursor, pending, worker, tables, faults>>

\* _claim_pending_commands broadcasts to the manager's default stream, this one.
AcceptOther ==
    /\ made < MaxPost
    /\ made' = made + 1
    /\ task' = [task EXCEPT ![made'] = <<Other>>]
    /\ UNCHANGED <<now, stream, group, cursor, pending, worker, tables, faults>>

\* The background task: one XADD, or a MULTI/EXEC pipeline of them.  MAXLEN is
\* approximate: Redis keeps at least the last MaxLen entries, pending or not.
XAdd(p) ==
    /\ task[p] # << >>
    /\ Len(log) + Len(task[p]) <= MaxEntries
    /\ log' = log \o task[p]
    /\ trimmed' \in {trimmed} \cup {n \in trimmed..Len(log') : n + MaxLen <= Len(log')}
    /\ task' = [task EXCEPT ![p] = << >>]
    /\ UNCHANGED <<now, made, group, cursor, pending, worker, tables, faults>>

\* The XADD fails and broadcast swallows the exception, or the process dies first.
XAddFails(p) ==
    /\ Fault
    /\ task[p] # << >>
    /\ task' = [task EXCEPT ![p] = << >>]
    /\ UNCHANGED <<now, made, stream, group, cursor, pending, worker, tables>>

-----------------------------------------------------------------------------
(* redis_to_db_sync_worker. *)

\* Worker w goes to pc in its loop with nothing in hand.
Goto(w, pc) ==
    worker' = [worker EXCEPT ![w] = [@ EXCEPT !.pc = pc, !.batch = {}, !.rows = {}, !.left = {}]]

\* Worker w has read a batch and works on it.
Take(w, batch) ==
    worker' = [worker EXCEPT ![w] = [@ EXCEPT !.pc = "persist", !.batch = batch,
                                              !.rows = RowsOf(batch), !.left = RowsOf(batch)]]

\* Mutant: every worker that starts sets the group back to the first entry.
StartRewinds(w) ==
    /\ worker[w].pc = "down"
    /\ group' = TRUE
    /\ cursor' = 0
    /\ worker' = [worker EXCEPT ![w] = Stopped("own")]
    /\ UNCHANGED <<now, ingress, stream, pending, tables, faults>>

\* XGROUP CREATE ... 0 MKSTREAM; BUSYGROUP is ignored.
Start(w) ==
    /\ worker[w].pc = "down"
    /\ group' = TRUE
    /\ cursor' = IF group THEN cursor ELSE 0
    /\ worker' = [worker EXCEPT ![w] = Stopped("own")]
    /\ UNCHANGED <<now, ingress, stream, pending, tables, faults>>

\* Any other error is logged and the loop starts without a group.
StartFails(w) ==
    /\ Fault
    /\ worker[w].pc = "down"
    /\ worker' = [worker EXCEPT ![w] = Stopped("own")]
    /\ UNCHANGED <<now, ingress, stream, group, cursor, pending, tables>>

\* XREADGROUP 0: the entries pending for this consumer, which are delivered
\* again; a trimmed one comes without its fields.
ReadOwn(w) ==
    LET mine == {i \in Positions : owner[i] = w} IN
    /\ worker[w].pc = "own"
    /\ group
    /\ \/ /\ mine = {}
          /\ Goto(w, "claim")
          /\ UNCHANGED idle
       \/ /\ mine # {}
          /\ Take(w, FirstN(mine, Count))
          /\ idle' = {i \in idle : i \in FirstN(mine, Count) => i <= trimmed}
    /\ UNCHANGED <<now, ingress, stream, group, cursor, owner, tables, faults>>

\* The entries XAUTOCLAIM looks at: idle ones, and trimmed ones it drops.
Claimable == FirstN({i \in Positions : owner[i] # None /\ (i <= trimmed \/ i \in idle)}, Count)

AutoClaim(w) ==
    /\ owner' = [i \in Positions |-> IF i \notin Claimable THEN owner[i]
                                     ELSE IF i <= trimmed THEN None ELSE w]
    /\ idle' = idle \ Claimable

\* Mutant: entries pending for other consumers are left alone.
ClaimNothing(w) ==
    /\ worker[w].pc = "claim"
    /\ group
    /\ Goto(w, "new")
    /\ UNCHANGED <<now, ingress, stream, group, cursor, pending, tables, faults>>

\* XAUTOCLAIM 60000 0: read what was claimed as its own, or go on to new entries.
Claim(w) ==
    /\ worker[w].pc = "claim"
    /\ group
    /\ AutoClaim(w)
    /\ Goto(w, IF \E i \in Claimable : i > trimmed THEN "own" ELSE "new")
    /\ UNCHANGED <<now, ingress, stream, group, cursor, tables, faults>>

\* XAUTOCLAIM fails, before Redis executes it or after; the loop goes on.
ClaimFails(w) ==
    /\ Fault
    /\ worker[w].pc = "claim"
    /\ (group /\ AutoClaim(w)) \/ UNCHANGED pending
    /\ Goto(w, "new")
    /\ UNCHANGED <<now, ingress, stream, group, cursor, tables>>

\* XREADGROUP >: entries nobody in the group has seen.
ReadNew(w) ==
    LET fresh == FirstN({i \in 1..Len(log) : i > cursor /\ i > trimmed}, Count) IN
    /\ worker[w].pc = "new"
    /\ group
    /\ \/ /\ fresh = {}
          /\ Goto(w, "own")
          /\ UNCHANGED <<cursor, owner>>
       \/ /\ fresh # {}
          /\ Take(w, fresh)
          /\ cursor' = CHOOSE i \in fresh : \A j \in fresh : j <= i
          /\ owner' = [i \in Positions |-> IF i \in fresh THEN w ELSE owner[i]]
    /\ UNCHANGED <<now, ingress, stream, group, idle, tables, faults>>

\* NOGROUP: XAUTOCLAIM's is caught, XREADGROUP's ends the iteration; the loop
\* tries again after a delay and never creates the group.
NoGroup(w) ==
    /\ ~group
    /\ worker[w].pc \in {"own", "claim", "new"}
    /\ Goto(w, "own")
    /\ UNCHANGED <<now, ingress, stream, group, cursor, pending, tables, faults>>

-----------------------------------------------------------------------------
(* process_batch. *)

Inserted(S) == [i \in Positions |-> IF i \in S /\ copies[i] < 2 THEN copies[i] + 1 ELSE copies[i]]

\* Mutant: SET last_seen = excluded.last_seen, without GREATEST.
MarkSeenOverwrites(S) ==
    [r \in Robots |->
        LET seen == {log[i].ts : i \in {j \in S : log[j].robot = r}}
        IN  IF seen = {} THEN lastSeen[r] ELSE CHOOSE t \in seen : \A u \in seen : u <= t]

\* _register_robots and mark_seen: the latest timestamp of each robot in the
\* batch, unless the roster has a later one.
MarkSeen(S) ==
    [r \in Robots |->
        LET seen == {log[i].ts : i \in {j \in S : log[j].robot = r}}
            latest == CHOOSE t \in seen : \A u \in seen : u <= t
        IN  IF seen = {} THEN lastSeen[r] ELSE Later(latest, lastSeen[r])]

\* One multi-row INSERT, the roster, COMMIT.
PersistBatch(w) ==
    LET rows == worker[w].rows IN
    /\ worker[w].pc = "persist"
    /\ w \in BatchInsert
    /\ \A i \in rows : log[i].fits
    /\ copies' = Inserted(rows)
    /\ lastSeen' = MarkSeen(rows)
    /\ worker' = [worker EXCEPT ![w].pc = "ack", ![w].left = {}]
    /\ UNCHANGED <<now, ingress, stream, group, cursor, pending, faults>>

\* Row by row: INSERT and COMMIT of the next row.
PersistRow(w) ==
    \E i \in worker[w].left :
        /\ worker[w].pc = "persist"
        /\ w \notin BatchInsert
        /\ \A j \in worker[w].left : i <= j
        /\ log[i].fits
        /\ copies' = Inserted({i})
        /\ worker' = [worker EXCEPT ![w].left = @ \ {i}]
        /\ UNCHANGED <<now, ingress, stream, group, cursor, pending, lastSeen, faults>>

\* Mutant: only the batch insert updates the roster.
PersistRosterSkipped(w) ==
    /\ worker[w].pc = "persist"
    /\ w \notin BatchInsert
    /\ worker[w].left = {}
    /\ worker' = [worker EXCEPT ![w].pc = "ack"]
    /\ UNCHANGED <<now, ingress, stream, group, cursor, pending, tables, faults>>

\* Row by row: the roster, after the last row.
PersistRoster(w) ==
    /\ worker[w].pc = "persist"
    /\ w \notin BatchInsert
    /\ worker[w].left = {}
    /\ lastSeen' = MarkSeen(worker[w].rows)
    /\ worker' = [worker EXCEPT ![w].pc = "ack"]
    /\ UNCHANGED <<now, ingress, stream, group, cursor, pending, copies, faults>>

\* The next INSERT is of a row the table cannot hold: it raises and the loop
\* starts over after a delay.
Rejected(w) ==
    LET left == worker[w].left IN
    /\ worker[w].pc = "persist"
    /\ \E i \in left : ~log[i].fits /\ (w \notin BatchInsert => \A j \in left : i <= j)
    /\ Goto(w, "own")
    /\ UNCHANGED <<now, ingress, stream, group, cursor, pending, tables, faults>>

\* XACK, whoever the entries are pending for by now.
Ack(w) ==
    /\ worker[w].pc = "ack"
    /\ owner' = [i \in Positions |-> IF i \in worker[w].batch THEN None ELSE owner[i]]
    /\ idle' = idle \ worker[w].batch
    /\ Goto(w, "own")
    /\ UNCHANGED <<now, ingress, stream, group, cursor, tables, faults>>

\* Mutant: the XACK is in a finally clause.
LoopFailsAcks(w) ==
    /\ Fault
    /\ worker[w].pc \in {"own", "new", "persist", "ack"}
    /\ worker' = [worker EXCEPT ![w].pc = "ack"]
    /\ UNCHANGED <<now, ingress, stream, group, cursor, pending, tables>>

\* A call to Redis or to the database fails anywhere in the loop.
LoopFails(w) ==
    /\ Fault
    /\ worker[w].pc \in {"own", "new", "persist", "ack"}
    /\ Goto(w, "own")
    /\ UNCHANGED <<now, ingress, stream, group, cursor, pending, tables>>

\* The worker dies.  A container that is restarted keeps its hostname, one that
\* is replaced never asks for its pending entries again.
Crash(w) ==
    /\ Fault
    /\ worker[w].pc \notin {"down", "gone"}
    /\ worker' = [worker EXCEPT ![w] = Stopped(IF w \in Lasting THEN "down" ELSE "gone")]
    /\ UNCHANGED <<now, ingress, stream, group, cursor, pending, tables>>

-----------------------------------------------------------------------------
(* Redis and time. *)

\* 60 s since the entry was last delivered.
EntryIdles(i) ==
    /\ owner[i] # None
    /\ i \notin idle
    /\ idle' = idle \cup {i}
    /\ UNCHANGED <<now, ingress, stream, group, cursor, owner, worker, tables, faults>>

\* Redis keeps nothing over a restart (--save "" --appendonly no).
RedisRestart ==
    /\ Restarts
    /\ Fault
    /\ trimmed' = Len(log)
    /\ group' = FALSE
    /\ cursor' = 0
    /\ owner' = [i \in Positions |-> None]
    /\ idle' = {}
    /\ UNCHANGED <<now, ingress, log, worker, tables>>

Tick ==
    /\ now < MaxTime
    /\ now' = now + 1
    /\ UNCHANGED <<ingress, stream, group, cursor, pending, worker, tables, faults>>

Persist(w) == PersistBatch(w) \/ PersistRow(w) \/ PersistRoster(w) \/ Rejected(w)

WorkerStep(w) ==
    \/ Start(w)
    \/ ReadOwn(w) \/ Claim(w) \/ ReadNew(w) \/ NoGroup(w)
    \/ Persist(w)
    \/ Ack(w)

WorkerFault(w) ==
    \/ StartFails(w)
    \/ ClaimFails(w) \/ LoopFails(w) \/ Crash(w)

PipelineNext ==
    \/ Accept \/ AcceptOther
    \/ \E p \in Posts : XAdd(p) \/ XAddFails(p)
    \/ \E w \in Workers : WorkerStep(w) \/ WorkerFault(w)
    \/ \E i \in Positions : EntryIdles(i)
    \/ RedisRestart
    \/ Tick

PipelineSpec == PipelineInit /\ [][PipelineNext]_pvars

ReadPending(w) == ReadOwn(w) /\ \E i \in Positions : owner[i] = w

\* A worker that is restarted keeps looping, and time makes pending entries
\* idle.  A claim is followed at once by the read of what was claimed, so of all
\* its claims some are read before another 60 s have passed: strong fairness.
\* Nothing is assumed of a worker that may vanish, or of the clients.
PipelineFairSpec ==
    /\ PipelineSpec
    /\ \A w \in Lasting : WF_pvars(WorkerStep(w)) /\ SF_pvars(ReadPending(w))
    /\ \A i \in Positions : WF_pvars(EntryIdles(i))

-----------------------------------------------------------------------------
(* What the pipeline promises. *)

\* An entry the group has delivered and Redis still holds.
Held(i) == i <= cursor /\ i > trimmed

\* "Nothing may be acked that was not persisted": a reading that was delivered
\* is pending or in the table, whatever worker failed at whatever point, unless
\* the stream was trimmed past it.
AtLeastOnce ==
    \A i \in 1..Len(log) :
        (Held(i) /\ IsReading(i) /\ owner[i] = None) => copies[i] > 0

\* An entry that was delivered or trimmed, is not pending, and is in no worker's hands.
Settled(i) ==
    /\ i <= cursor \/ i <= trimmed
    /\ owner[i] = None
    /\ \A w \in Workers : i \notin worker[w].batch

\* What is left of "exactly once": the time in which a reading may be inserted again
\* ends.  Once it is acknowledged and the workers that had read it are through with
\* it, no restart, replay or claim brings it back and its rows are final.
SettledForGood ==
    [][\A i \in 1..Len(log) : Settled(i) => Settled(i)' /\ copies'[i] = copies[i]]_pvars

\* The roster is in step with the table: a robot's last_seen is the time of a
\* stored reading, and no stored reading is later, except while its entry is
\* pending and will be processed again (or was trimmed).
RosterInStep ==
    /\ \A r \in Robots : lastSeen[r] # 0 =>
          \E i \in 1..Len(log) : copies[i] > 0 /\ log[i].robot = r /\ log[i].ts = lastSeen[r]
    /\ \A i \in 1..Len(log) :
          (copies[i] > 0 /\ i > trimmed /\ owner[i] = None) => log[i].ts <= lastSeen[log[i].robot]

\* "last_seen only moves forward", although pending batches are drained out of
\* order and by several workers.
LastSeenForward == [][\A r \in Robots : lastSeen[r] <= lastSeen'[r]]_pvars

\* A device with a fast clock cannot make a dead robot look alive: no roster
\* entry is ever further ahead of the server's clock than the allowed skew.
SeenNotAhead == \A r \in Robots : lastSeen[r] <= now + MaxSkew

\* While the consumer group exists, a reading on the stream reaches the table,
\* unless the stream is trimmed past it first: also when it is pending for a
\* worker that is gone for good, behind entries that are processed again, or
\* while workers steal slow batches from each other.
DrainedByGroup ==
    \A i \in Positions :
        (group /\ i <= Len(log) /\ IsReading(i)) ~> (copies[i] > 0 \/ i <= trimmed)

\* The worker "ensures the consumer group exists" and survives failures of Redis:
\* every reading on the stream reaches the table or is trimmed.
QueuedIsPersisted ==
    \A i \in Positions :
        (i <= Len(log) /\ IsReading(i)) ~> (copies[i] > 0 \/ i <= trimmed)
=============================================================================
