-------------------------------- MODULE FreeTier -------------------------------
(***************************************************************************)
(* Telemetry without Redis and worker (opt_redis_buffer off,               *)
(* defer_writes_without_viewers on): the simulator batches readings while   *)
(* somebody watches and retries a failed POST, the API writes a batch at    *)
(* once when a dashboard is connected and otherwise keeps it in memory      *)
(* until the next flush.  A reading is its number, in the order of the      *)
(* measurements; all of them belong to one robot.                           *)
(***************************************************************************)
EXTENDS Naturals, Sequences, SequencesExt

CONSTANTS
    Handlers,     \* requests the API may be working on at once
    None,         \* no request
    MaxReadings,  \* bound: readings taken
    MaxBatch,     \* MAX_BATCH
    MaxFaults     \* bound: timeouts, failed writes, restarts

ASSUME FreeTierAssumption ==
    /\ MaxReadings \in Nat /\ MaxBatch \in Nat \ {0} /\ MaxFaults \in Nat
    /\ None \notin Handlers

Attempts == 3   \* post_telemetry
IdleAfter == 4  \* IDLE_AFTER_CONSECUTIVE_ZERO_POLLS

VARIABLES
    active,   \* viewer_state.active
    zeros,    \* consecutive_zero, up to IdleAfter
    taken,    \* readings emitted so far
    outq,     \* telemetry_queue
    batch,    \* the batcher's batch
    post,     \* its POST: attempt (0 when none is made) and the request awaited
    viewers,  \* is a dashboard connected
    handler,  \* the requests in the API
    held,     \* telemetry_buffer._pending
    flushing, \* the rows a flush has taken out of it
    copies,   \* rows of a reading in the table: 0, 1, or 2 for several
    lastSeen, \* robots.last_seen; 0 when the robot has no roster row
    acked,    \* readings answered 200
    retried,  \* readings posted more than once
    dropped,  \* readings a failed flush or a restart took from memory
    faults

simulator == <<active, zeros, taken, outq, batch, post>>
api == <<viewers, handler, held, flushing>>
tables == <<copies, lastSeen>>
history == <<acked, retried, dropped>>
tvars == <<simulator, api, tables, history, faults>>

Readings == 1..MaxReadings
IdleHandler == [pc |-> "idle", rows |-> << >>]
NoPost == [attempt |-> 0, via |-> None]

FreeTierTypeOK ==
    /\ active \in BOOLEAN /\ viewers \in BOOLEAN
    /\ zeros \in 0..IdleAfter
    /\ taken \in 0..MaxReadings
    /\ outq \in Seq(Readings) /\ held \in Seq(Readings)
    /\ batch \in Seq(Readings) /\ Len(batch) <= MaxBatch
    /\ post.attempt \in 0..Attempts
    /\ post.via \in Handlers \cup {None}
    /\ \A h \in Handlers :
          /\ handler[h].pc \in {"idle", "route", "insert", "seen", "ok", "error"}
          /\ handler[h].rows \in Seq(Readings)
    /\ flushing \in Seq(Readings)
    /\ copies \in [Readings -> 0..2]
    /\ lastSeen \in 0..MaxReadings
    /\ faults \in 0..MaxFaults

FreeTierInit ==
    /\ active = TRUE /\ zeros = 0 /\ taken = 0
    /\ outq = << >> /\ batch = << >> /\ post = NoPost
    /\ viewers = FALSE
    /\ handler = [h \in Handlers |-> IdleHandler]
    /\ held = << >> /\ flushing = << >>
    /\ copies = [i \in Readings |-> 0] /\ lastSeen = 0
    /\ acked = {} /\ retried = {} /\ dropped = {}
    /\ faults = 0

Fault == faults < MaxFaults /\ faults' = faults + 1

\* The list has one entry at most for the reading.
Once(rows, i) == \A j, k \in DOMAIN rows : rows[j] = i /\ rows[k] = i => j = k

\* insert_many: one INSERT and COMMIT, a row for every entry of the list
Inserted(rows) ==
    [i \in Readings |->
        IF i \notin ToSet(rows) THEN copies[i]
        ELSE IF copies[i] = 0 /\ Once(rows, i) THEN 1 ELSE 2]

\* latest_by_robot and mark_seen: GREATEST
Seen(rows) ==
    LET newest == CHOOSE i \in ToSet(rows) : \A j \in ToSet(rows) : j <= i
    IN IF newest > lastSeen THEN newest ELSE lastSeen

-----------------------------------------------------------------------------
(* The simulator: viewer_watch_loop, emit_telemetry, telemetry_batcher. *)

\* Mutant: a viewer resets the count but does not wake the fleet.
ViewerPollSleepsOn ==
    /\ zeros' = IF viewers THEN 0 ELSE IF zeros < IdleAfter THEN zeros + 1 ELSE zeros
    /\ active' = (active /\ (viewers \/ zeros' < IdleAfter))
    /\ UNCHANGED <<taken, outq, batch, post, api, tables, history, faults>>

\* GET /viewers, answered; a failed one changes nothing.
ViewerPoll ==
    /\ zeros' = IF viewers THEN 0 ELSE IF zeros < IdleAfter THEN zeros + 1 ELSE zeros
    /\ active' = (viewers \/ (active /\ zeros' < IdleAfter))
    /\ UNCHANGED <<taken, outq, batch, post, api, tables, history, faults>>

Emit ==
    /\ active
    /\ taken < MaxReadings
    /\ taken' = taken + 1
    /\ outq' = Append(outq, taken')
    /\ UNCHANGED <<active, zeros, batch, post, api, tables, history, faults>>

\* Mutant: the batch is posted one reading too late.
CollectOver ==
    /\ post.attempt = 0
    /\ Len(batch) <= MaxBatch
    /\ outq # << >>
    /\ batch' = Append(batch, Head(outq))
    /\ outq' = Tail(outq)
    /\ UNCHANGED <<active, zeros, taken, post, api, tables, history, faults>>

Collect ==
    /\ post.attempt = 0
    /\ Len(batch) < MaxBatch
    /\ outq # << >>
    /\ batch' = Append(batch, Head(outq))
    /\ outq' = Tail(outq)
    /\ UNCHANGED <<active, zeros, taken, post, api, tables, history, faults>>

\* The batch is full or a second old, or the backoff is over: the next attempt.
Post(h) ==
    /\ batch # << >>
    /\ post.via = None
    /\ post.attempt < Attempts
    /\ handler[h].pc = "idle"
    /\ post' = [attempt |-> post.attempt + 1, via |-> h]
    /\ handler' = [handler EXCEPT ![h] = [pc |-> "route", rows |-> batch]]
    /\ retried' = IF post.attempt > 0 THEN retried \cup ToSet(batch) ELSE retried
    /\ UNCHANGED <<active, zeros, taken, outq, batch, viewers, held, flushing, tables,
                   acked, dropped, faults>>

\* The answer arrives: done, or the attempt has failed.
PostAnswered(h) ==
    /\ post.via = h
    /\ handler[h].pc \in {"ok", "error"}
    /\ handler' = [handler EXCEPT ![h] = IdleHandler]
    /\ IF handler[h].pc = "ok"
       THEN /\ post' = NoPost
            /\ batch' = << >>
            /\ acked' = acked \cup ToSet(batch)
       ELSE /\ post' = [post EXCEPT !.via = None]
            /\ UNCHANGED <<batch, acked>>
    /\ UNCHANGED <<active, zeros, taken, outq, viewers, held, flushing, tables,
                   retried, dropped, faults>>

\* The 10 s timeout or a connection error.  The request may be lost, or its handler
\* goes on and nobody awaits its answer.
PostTimesOut(h) ==
    /\ post.via = h
    /\ Fault
    /\ post' = [post EXCEPT !.via = None]
    /\ \/ UNCHANGED handler
       \/ /\ handler[h].pc = "route"
          /\ handler' = [handler EXCEPT ![h] = IdleHandler]
    /\ UNCHANGED <<active, zeros, taken, outq, batch, viewers, held, flushing, tables, history>>

\* The third attempt has failed: the batch is given up.
PostGivesUp ==
    /\ post = [attempt |-> Attempts, via |-> None]
    /\ post' = NoPost
    /\ batch' = << >>
    /\ UNCHANGED <<active, zeros, taken, outq, api, tables, history, faults>>

-----------------------------------------------------------------------------
(* The API: ingest and ingest_batch. *)

Viewer ==
    /\ viewers' = ~viewers
    /\ UNCHANGED <<simulator, handler, held, flushing, tables, history, faults>>

\* A dashboard is connected: the batch is written now.  Else it is buffered.
Route(h) ==
    /\ handler[h].pc = "route"
    /\ IF viewers
       THEN /\ handler' = [handler EXCEPT ![h].pc = "insert"]
            /\ UNCHANGED held
       ELSE /\ held' = held \o handler[h].rows
            /\ handler' = [handler EXCEPT ![h].pc = "ok"]
    /\ UNCHANGED <<simulator, viewers, flushing, tables, history, faults>>

Insert(h) ==
    /\ handler[h].pc = "insert"
    /\ copies' = Inserted(handler[h].rows)
    /\ handler' = [handler EXCEPT ![h].pc = "seen"]
    /\ UNCHANGED <<simulator, viewers, held, flushing, lastSeen, history, faults>>

\* mark_seen, commit; the broadcast follows the answer.
MarkSeen(h) ==
    /\ handler[h].pc = "seen"
    /\ lastSeen' = Seen(handler[h].rows)
    /\ handler' = [handler EXCEPT ![h].pc = "ok"]
    /\ UNCHANGED <<simulator, viewers, held, flushing, copies, history, faults>>

\* Mutant: a refused INSERT is logged and the handler goes on.
WriteFailsSwallowed(h) ==
    /\ handler[h].pc = "insert"
    /\ Fault
    /\ handler' = [handler EXCEPT ![h].pc = "seen"]
    /\ UNCHANGED <<simulator, viewers, held, flushing, tables, history>>

\* The database refuses either statement: HTTP 500.
WriteFails(h) ==
    /\ handler[h].pc \in {"insert", "seen"}
    /\ Fault
    /\ handler' = [handler EXCEPT ![h].pc = "error"]
    /\ UNCHANGED <<simulator, viewers, held, flushing, tables, history>>

\* A handler nobody waits for is done.
HandlerEnds(h) ==
    /\ handler[h].pc \in {"ok", "error"}
    /\ post.via # h
    /\ handler' = [handler EXCEPT ![h] = IdleHandler]
    /\ UNCHANGED <<simulator, viewers, held, flushing, tables, history, faults>>

-----------------------------------------------------------------------------
(* flush_loop, flush, and the end of the process. *)

\* Under the lock: everything buffered is taken out.
FlushTake ==
    /\ held # << >>
    /\ flushing = << >>
    /\ flushing' = held
    /\ held' = << >>
    /\ UNCHANGED <<simulator, viewers, handler, tables, history, faults>>

\* Mutant: the buffer is emptied once the rows are written.
FlushWriteEmpties ==
    /\ flushing # << >>
    /\ copies' = Inserted(flushing)
    /\ flushing' = << >>
    /\ held' = << >>
    /\ UNCHANGED <<simulator, viewers, handler, lastSeen, history, faults>>

\* Mutant: the rows are put back when flush raises.
FlushWriteRestores ==
    /\ flushing # << >>
    /\ copies' = Inserted(flushing)
    /\ held' = flushing \o held
    /\ flushing' = << >>
    /\ UNCHANGED <<simulator, viewers, handler, lastSeen, history, faults>>

\* insert_many commits the transaction session.begin() opened, so mark_seen is
\* refused and flush raises: the rows are stored, the roster is not touched.
FlushWrite ==
    /\ flushing # << >>
    /\ copies' = Inserted(flushing)
    /\ flushing' = << >>
    /\ UNCHANGED <<simulator, viewers, handler, held, lastSeen, history, faults>>

\* The INSERT fails: the rows are gone.
FlushFails ==
    /\ flushing # << >>
    /\ Fault
    /\ dropped' = dropped \cup ToSet(flushing)
    /\ flushing' = << >>
    /\ UNCHANGED <<simulator, viewers, handler, held, tables, acked, retried>>

\* lifespan cancels the flush task and writes nothing; requests and connections die.
Restart ==
    /\ Fault
    /\ dropped' = dropped \cup ToSet(held) \cup ToSet(flushing)
    /\ held' = << >>
    /\ flushing' = << >>
    /\ handler' = [h \in Handlers |-> IdleHandler]
    /\ post' = [post EXCEPT !.via = None]
    /\ viewers' = FALSE
    /\ UNCHANGED <<active, zeros, taken, outq, batch, tables, acked, retried>>

-----------------------------------------------------------------------------
FreeTierNext ==
    \/ ViewerPoll \/ Emit \/ Collect \/ PostGivesUp
    \/ \E h \in Handlers :
          \/ Post(h) \/ PostAnswered(h) \/ PostTimesOut(h)
          \/ Route(h) \/ Insert(h) \/ MarkSeen(h) \/ WriteFails(h) \/ HandlerEnds(h)
    \/ Viewer
    \/ FlushTake \/ FlushWrite \/ FlushFails
    \/ Restart

\* The simulator polls every 15 s and some polls are answered.
FreeTierSpec ==
    FreeTierInit /\ [][FreeTierNext]_tvars /\ WF_tvars(ViewerPoll)

-----------------------------------------------------------------------------
(* Properties. *)

\* An answered reading is in the table, in the buffer or in a flush under way;
\* only a flush whose INSERT fails and the end of the process lose it, never a
\* batch that arrives while the buffer is being flushed.
AckedIsKept ==
    \A i \in acked :
        copies[i] > 0 \/ i \in ToSet(held) \cup ToSet(flushing) \cup dropped

\* A reading has several rows only when its POST was repeated: neither the failing
\* second half of a flush nor the switch between the two write paths stores it twice.
TwiceOnlyByRetry ==
    \A i \in Readings : copies[i] > 1 => i \in retried

\* The roster never shows a reading that is not in the table.
SeenIsStored == lastSeen > 0 => copies[lastSeen] > 0

\* The fleet follows its audience: it reports for good once somebody watches for
\* good, and goes quiet for good once nobody does.
FollowsViewers ==
    /\ <>[]viewers => <>[]active
    /\ <>[]~viewers => <>[]~active

================================================================================
