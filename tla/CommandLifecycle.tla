--------------------------- MODULE CommandLifecycle ---------------------------
(***************************************************************************)
(* The command table of FleetOps and every handler that writes it:         *)
(*                                                                         *)
(*   POST  /commands/{robot}         create_command   (Creators)           *)
(*   POST  /commands/{robot}/claim   _claim_pending   (Claimers)           *)
(*   PATCH /commands/{id}/status     update_status    (Patchers)           *)
(*   worker timeout_worker_loop      scan_for_timeouts (Scanners)          *)
(*                                                                         *)
(* Handlers run in several uvicorn processes and worker containers; a step *)
(* below is one database statement or one broadcast, the places where the  *)
(* code awaits.  Postgres runs READ COMMITTED: a SELECT reads the          *)
(* committed row, an UPDATE waits for the row lock of an open transaction  *)
(* and then re-evaluates its WHERE clause.  An UPDATE followed at once by  *)
(* its COMMIT is one step; the scanner, which keeps its locks over many    *)
(* statements, is not.                                                     *)
(***************************************************************************)
EXTENDS Naturals, Sequences, FiniteSets, CommandStates

CONSTANTS
    MaxCommand,  \* bound: how many create requests are ever made
    Robots,      \* robot ids
    Keys,        \* idempotency keys a client may send
    NoKey,       \* idempotency_key = NULL
    None,        \* no robot, no lock holder
    Deadlines,   \* what clients ask for: no timeout ("never"), a timeout ("future")
    Creators,    \* concurrent create_command handlers
    Claimers,    \* concurrent claim handlers
    Patchers,    \* concurrent update_status handlers
    Scanners,    \* worker processes running timeout_worker_loop
    MaxFaults    \* bound: worker crashes and failed scans

ASSUME MaxCommandAssumption == MaxCommand \in Nat \ {0}
ASSUME MaxFaultsAssumption == MaxFaults \in Nat
ASSUME NoneAssumption == None \notin Robots \cup Scanners
ASSUME NoKeyAssumption == NoKey \notin Keys
ASSUME DeadlinesAssumption == Deadlines \subseteq {"never", "future"}

\* Command ids.  The uuid and created_at are taken together when the request
\* starts, so a smaller id is an older created_at; the commit comes later.
Commands == 1..MaxCommand

NoCommand == 0

VARIABLES
    nextId,     \* the next fresh uuid / created_at
    status,     \* status column; ABSENT until the INSERT commits
    stamps,     \* which of the *_at columns are set
    robotOf,    \* robot_id column
    keyOf,      \* idempotency_key column
    deadline,   \* expires_at: never, in the future, or in the past
    rowLock,    \* the scanner whose open transaction has updated the row
    scanLock,   \* does the Redis key lock:timeout_scanner exist
    reply,      \* the command a create request was answered with
    told,       \* statuses broadcast to dashboards or confirmed by a 200
    delivered,  \* commands whose claim response was sent
    creating, claiming, patching, scanning,  \* the handlers
    claimed,    \* the list each claim handler will answer with
    faults      \* worker crashes and failed scans so far

handlers == <<creating, claiming, claimed, patching, scanning>>
vars == <<nextId, status, stamps, robotOf, keyOf, deadline, rowLock, scanLock,
          reply, told, delivered, handlers, faults>>

-----------------------------------------------------------------------------
(* Types. *)

Unanswered == 0
ConflictFailed == MaxCommand + 1   \* HTTP 500 "Database conflict handling failed"

IdleCreate == [pc |-> "idle", cmd |-> NoCommand]
IdleClaim  == [pc |-> "idle", robot |-> None, cmd |-> NoCommand]
IdlePatch  == [pc |-> "idle", cmd |-> NoCommand, new |-> "PENDING", seen |-> "PENDING"]
IdleScan   == [pc |-> "idle", todo |-> {}, hit |-> {}]

CreateState == [pc : {"idle", "commit", "broadcast", "recover"},
                cmd : Commands \cup {NoCommand}]
ClaimState == [pc : {"idle", "select", "dispatch", "broadcast", "respond"},
               robot : Robots \cup {None}, cmd : Commands \cup {NoCommand}]
PatchState == [pc : {"idle", "cas", "conflict", "reread", "broadcast"},
               cmd : Commands \cup {NoCommand}, new : Status, seen : Status]
ScanState == [pc : {"idle", "select", "update", "broadcast"},
              todo : SUBSET Commands, hit : SUBSET Commands]

TypeOK ==
    /\ nextId \in 1..(MaxCommand + 1)
    /\ status \in [Commands -> Status \cup {Absent}]
    /\ stamps \in [Commands -> SUBSET Stamp]
    /\ robotOf \in [Commands -> Robots \cup {None}]
    /\ keyOf \in [Commands -> Keys \cup {NoKey}]
    /\ deadline \in [Commands -> {"never", "future", "past"}]
    /\ rowLock \in [Commands -> Scanners \cup {None}]
    /\ scanLock \in BOOLEAN
    /\ reply \in [Commands -> 0..(MaxCommand + 1)]
    /\ told \in [Commands -> SUBSET Status]
    /\ delivered \in SUBSET Commands
    /\ creating \in [Creators -> CreateState]
    /\ claiming \in [Claimers -> ClaimState]
    /\ claimed \in [Claimers -> Seq(Commands)]
    /\ patching \in [Patchers -> PatchState]
    /\ scanning \in [Scanners -> ScanState]
    /\ faults \in 0..MaxFaults

Init ==
    /\ nextId = 1
    /\ status = [c \in Commands |-> Absent]
    /\ stamps = [c \in Commands |-> {}]
    /\ robotOf = [c \in Commands |-> None]
    /\ keyOf = [c \in Commands |-> NoKey]
    /\ deadline = [c \in Commands |-> "never"]
    /\ rowLock = [c \in Commands |-> None]
    /\ scanLock = FALSE
    /\ reply = [c \in Commands |-> Unanswered]
    /\ told = [c \in Commands |-> {}]
    /\ delivered = {}
    /\ creating = [p \in Creators |-> IdleCreate]
    /\ claiming = [h \in Claimers |-> IdleClaim]
    /\ claimed = [h \in Claimers |-> << >>]
    /\ patching = [p \in Patchers |-> IdlePatch]
    /\ scanning = [s \in Scanners |-> IdleScan]
    /\ faults = 0

requests == <<nextId, robotOf, keyOf>>
claims == <<claiming, claimed>>
rows == <<status, stamps>>
locks == <<rowLock, scanLock>>
outside == <<reply, told, delivered>>

-----------------------------------------------------------------------------
(* Writing a row. *)

\* A committed row.
Exists(c) == status[c] # Absent

\* One UPDATE that moves row c to status s and sets the columns
\* _transition_values lists for s.
SetStatus(c, s) ==
    /\ status' = [status EXCEPT ![c] = s]
    /\ stamps' = [stamps EXCEPT ![c] = @ \cup TransitionStamps(s)]

\* The outside learns of statuses S of command c: manager.broadcast to the
\* dashboards, or a PATCH answered 200.
Tell(c, S) == told' = [told EXCEPT ![c] = @ \cup S]

-----------------------------------------------------------------------------
(* create_command. *)

\* Mutant: the table has no UNIQUE (robot_id, idempotency_key).
CollidingNever(c) == {}

\* The rows that violate UNIQUE (robot_id, idempotency_key) with command c:
\* a NULL key never collides.
Colliding(c) ==
    {d \in Commands : /\ Exists(d)
                      /\ keyOf[c] # NoKey
                      /\ robotOf[d] = robotOf[c]
                      /\ keyOf[d] = keyOf[c]}

\* A POST arrives: fresh uuid, created_at, and expires_at only when
\* timeout_seconds is truthy.
CreateBegin(p, r, k, d) ==
    /\ creating[p].pc = "idle"
    /\ nextId <= MaxCommand
    /\ creating' = [creating EXCEPT ![p] = [pc |-> "commit", cmd |-> nextId]]
    /\ robotOf' = [robotOf EXCEPT ![nextId] = r]
    /\ keyOf' = [keyOf EXCEPT ![nextId] = k]
    /\ deadline' = [deadline EXCEPT ![nextId] = d]
    /\ nextId' = nextId + 1
    /\ UNCHANGED <<rows, locks, outside, claims, patching, scanning, faults>>

\* INSERT and COMMIT, or IntegrityError and rollback.
CreateCommit(p) ==
    LET c == creating[p].cmd IN
    /\ creating[p].pc = "commit"
    /\ \/ /\ Colliding(c) = {}
          /\ SetStatus(c, "PENDING")
          /\ creating' = [creating EXCEPT ![p].pc = "broadcast"]
       \/ /\ Colliding(c) # {}
          /\ creating' = [creating EXCEPT ![p].pc = "recover"]
          /\ UNCHANGED rows
    /\ UNCHANGED <<requests, deadline, locks, outside, claims, patching, scanning, faults>>

\* Broadcast COMMAND_CREATED and answer with the new command.
CreateBroadcast(p) ==
    LET c == creating[p].cmd IN
    /\ creating[p].pc = "broadcast"
    /\ Tell(c, {"PENDING"})
    /\ reply' = [reply EXCEPT ![c] = c]
    /\ creating' = [creating EXCEPT ![p] = IdleCreate]
    /\ UNCHANGED <<requests, deadline, rows, locks, delivered,
                   claims, patching, scanning, faults>>

\* Look up the command that won the key; HTTP 500 when there is none.
CreateRecover(p) ==
    LET c == creating[p].cmd IN
    /\ creating[p].pc = "recover"
    /\ reply' = [reply EXCEPT ![c] = IF Colliding(c) = {} THEN ConflictFailed
                                     ELSE CHOOSE d \in Colliding(c) : TRUE]
    /\ creating' = [creating EXCEPT ![p] = IdleCreate]
    /\ UNCHANGED <<requests, deadline, rows, locks, told, delivered,
                   claims, patching, scanning, faults>>

\* The process dies or the request is cancelled.
CreateAbort(p) ==
    /\ creating[p].pc # "idle"
    /\ creating' = [creating EXCEPT ![p] = IdleCreate]
    /\ UNCHANGED <<requests, deadline, rows, locks, outside, claims, patching, scanning, faults>>

-----------------------------------------------------------------------------
(* _claim_pending_commands. *)

PendingOf(r) == {c \in Commands : status[c] = "PENDING" /\ robotOf[c] = r}

ClaimBegin(h, r) ==
    /\ claiming[h].pc = "idle"
    /\ claiming' = [claiming EXCEPT ![h] = [pc |-> "select", robot |-> r, cmd |-> NoCommand]]
    /\ UNCHANGED <<claimed, requests, deadline, rows, locks, outside, creating, patching, scanning, faults>>

\* Mutant: ORDER BY created_at DESC.
ClaimSelectNewest(h) ==
    LET pending == PendingOf(claiming[h].robot) IN
    /\ claiming[h].pc = "select"
    /\ \/ /\ pending = {}
          /\ claiming' = [claiming EXCEPT ![h].pc = "respond"]
       \/ \E c \in pending :
             /\ \A d \in pending : c >= d
             /\ claiming' = [claiming EXCEPT ![h].pc = "dispatch", ![h].cmd = c]
    /\ UNCHANGED <<claimed, requests, deadline, rows, locks, outside, creating, patching, scanning, faults>>

\* get_next_pending: the oldest PENDING command, or the loop ends.
ClaimSelect(h) ==
    LET pending == PendingOf(claiming[h].robot) IN
    /\ claiming[h].pc = "select"
    /\ \/ /\ pending = {}
          /\ claiming' = [claiming EXCEPT ![h].pc = "respond"]
       \/ \E c \in pending :
             /\ \A d \in pending : c <= d
             /\ claiming' = [claiming EXCEPT ![h].pc = "dispatch", ![h].cmd = c]
    /\ UNCHANGED <<claimed, requests, deadline, rows, locks, outside, creating, patching, scanning, faults>>

\* Mutant: UPDATE ... WHERE id = :id, without status = 'PENDING'.
ClaimDispatchBlind(h) ==
    LET c == claiming[h].cmd IN
    /\ claiming[h].pc = "dispatch"
    /\ rowLock[c] = None
    /\ SetStatus(c, "DISPATCHED")
    /\ claiming' = [claiming EXCEPT ![h].pc = "broadcast"]
    /\ claimed' = [claimed EXCEPT ![h] = Append(@, c)]
    /\ UNCHANGED <<requests, deadline, locks, outside, creating, patching, scanning, faults>>

\* try_dispatch: UPDATE ... WHERE status = 'PENDING'.
ClaimDispatch(h) ==
    LET c == claiming[h].cmd IN
    /\ claiming[h].pc = "dispatch"
    /\ rowLock[c] = None
    /\ \/ /\ status[c] = "PENDING"
          /\ SetStatus(c, "DISPATCHED")
          /\ claiming' = [claiming EXCEPT ![h].pc = "broadcast"]
          /\ claimed' = [claimed EXCEPT ![h] = Append(@, c)]
       \/ /\ status[c] # "PENDING"
          /\ claiming' = [claiming EXCEPT ![h].pc = "select"]
          /\ UNCHANGED <<rows, claimed>>
    /\ UNCHANGED <<requests, deadline, locks, outside, creating, patching, scanning, faults>>

ClaimBroadcast(h) ==
    /\ claiming[h].pc = "broadcast"
    /\ Tell(claiming[h].cmd, {"DISPATCHED"})
    /\ claiming' = [claiming EXCEPT ![h].pc = "select"]
    /\ UNCHANGED <<claimed, requests, deadline, rows, locks, reply, delivered,
                   creating, patching, scanning, faults>>

\* The commands a claim handler has moved to DISPATCHED and not yet handed out.
Claimed(h) == {claimed[h][i] : i \in 1..Len(claimed[h])}

\* The response reaches the poller.
ClaimRespond(h) ==
    /\ claiming[h].pc = "respond"
    /\ delivered' = delivered \cup Claimed(h)
    /\ claiming' = [claiming EXCEPT ![h] = IdleClaim]
    /\ claimed' = [claimed EXCEPT ![h] = << >>]
    /\ UNCHANGED <<requests, deadline, rows, locks, reply, told,
                   creating, patching, scanning, faults>>

\* The process dies, or the response is lost: what was claimed stays DISPATCHED.
ClaimAbort(h) ==
    /\ claiming[h].pc # "idle"
    /\ claiming' = [claiming EXCEPT ![h] = IdleClaim]
    /\ claimed' = [claimed EXCEPT ![h] = << >>]
    /\ UNCHANGED <<requests, deadline, rows, locks, outside, creating, patching, scanning, faults>>

-----------------------------------------------------------------------------
(* update_status. *)

\* Mutant: the transition is not looked up in VALID_TRANSITIONS.
PatchReadAnyTransition(p, c, s) ==
    /\ patching[p].pc = "idle"
    /\ Exists(c)
    /\ status[c] # s
    /\ patching' = [patching EXCEPT
          ![p] = [pc |-> "cas", cmd |-> c, new |-> s, seen |-> status[c]]]
    /\ UNCHANGED <<requests, deadline, rows, locks, outside, creating, claims, scanning, faults>>

\* The first read, and the three early returns: the status is already there
\* (200), or the transition is not allowed (400), or the update goes ahead.
PatchRead(p, c, s) ==
    /\ patching[p].pc = "idle"
    /\ Exists(c)
    /\ \/ /\ status[c] = s
          /\ Tell(c, {s})
          /\ UNCHANGED patching
       \/ /\ status[c] # s
          /\ s \notin ValidTransitions(status[c])
          /\ UNCHANGED <<told, patching>>
       \/ /\ status[c] # s
          /\ s \in ValidTransitions(status[c])
          /\ patching' = [patching EXCEPT
                ![p] = [pc |-> "cas", cmd |-> c, new |-> s, seen |-> status[c]]]
          /\ UNCHANGED told
    /\ UNCHANGED <<requests, deadline, rows, locks, reply, delivered,
                   creating, claims, scanning, faults>>

\* Mutant: UPDATE ... WHERE id = :id, the read-modify-write race.
PatchCasBlind(p) ==
    LET c == patching[p].cmd IN
    /\ patching[p].pc = "cas"
    /\ rowLock[c] = None
    /\ SetStatus(c, patching[p].new)
    /\ patching' = [patching EXCEPT ![p].pc = "reread"]
    /\ UNCHANGED <<requests, deadline, locks, outside, creating, claims, scanning, faults>>

\* UPDATE ... WHERE id = :id AND status = :seen, then COMMIT.
PatchCas(p) ==
    LET c == patching[p].cmd IN
    /\ patching[p].pc = "cas"
    /\ rowLock[c] = None
    /\ \/ /\ status[c] = patching[p].seen
          /\ SetStatus(c, patching[p].new)
          /\ patching' = [patching EXCEPT ![p].pc = "reread"]
       \/ /\ status[c] # patching[p].seen
          /\ patching' = [patching EXCEPT ![p].pc = "conflict"]
          /\ UNCHANGED rows
    /\ UNCHANGED <<requests, deadline, locks, outside, creating, claims, scanning, faults>>

\* No row matched: 200 when the other writer made the same transition, else 409.
PatchConflict(p) ==
    LET c == patching[p].cmd IN
    /\ patching[p].pc = "conflict"
    /\ IF status[c] = patching[p].new THEN Tell(c, {patching[p].new}) ELSE UNCHANGED told
    /\ patching' = [patching EXCEPT ![p] = IdlePatch]
    /\ UNCHANGED <<requests, deadline, rows, locks, reply, delivered,
                   creating, claims, scanning, faults>>

\* The row is read again, for the broadcast: it may have moved on already.
PatchReread(p) ==
    /\ patching[p].pc = "reread"
    /\ patching' = [patching EXCEPT ![p].pc = "broadcast",
                                    ![p].seen = status[patching[p].cmd]]
    /\ UNCHANGED <<requests, deadline, rows, locks, outside, creating, claims, scanning, faults>>

\* Broadcast what was read and answer 200.
PatchBroadcast(p) ==
    LET c == patching[p].cmd IN
    /\ patching[p].pc = "broadcast"
    /\ Tell(c, {patching[p].seen, patching[p].new})
    /\ patching' = [patching EXCEPT ![p] = IdlePatch]
    /\ UNCHANGED <<requests, deadline, rows, locks, reply, delivered,
                   creating, claims, scanning, faults>>

PatchAbort(p) ==
    /\ patching[p].pc # "idle"
    /\ patching' = [patching EXCEPT ![p] = IdlePatch]
    /\ UNCHANGED <<requests, deadline, rows, locks, outside, creating, claims, scanning, faults>>

-----------------------------------------------------------------------------
(* timeout_worker_loop and scan_for_timeouts. *)

\* SET lock:timeout_scanner 1 NX EX 10.
ScanLock(s) ==
    /\ scanning[s].pc = "idle"
    /\ ~scanLock
    /\ scanLock' = TRUE
    /\ scanning' = [scanning EXCEPT ![s].pc = "select"]
    /\ UNCHANGED <<requests, deadline, rows, rowLock, outside, creating, claims, patching, faults>>

\* Mutant: the lock is taken without EX.
ScanLockForEver == FALSE /\ UNCHANGED vars

\* The TTL runs out, or Redis restarts without persistence.
ScanLockExpire ==
    /\ scanLock
    /\ scanLock' = FALSE
    /\ UNCHANGED <<requests, deadline, rows, rowLock, outside, handlers, faults>>

\* Mutant: only commands nobody has claimed are swept.
ScanSelectPending(s) ==
    /\ scanning[s].pc = "select"
    /\ scanning' = [scanning EXCEPT
          ![s].pc = "update",
          ![s].todo = {c \in Commands : deadline[c] = "past" /\ status[c] = "PENDING"}]
    /\ UNCHANGED <<requests, deadline, rows, locks, outside, creating, claims, patching, faults>>

\* SELECT the commands past their deadline that are not in a terminal state.
ScanSelect(s) ==
    /\ scanning[s].pc = "select"
    /\ scanning' = [scanning EXCEPT
          ![s].pc = "update",
          ![s].todo = {c \in Commands : /\ deadline[c] = "past"
                                        /\ Exists(c)
                                        /\ status[c] \notin TerminalStates}]
    /\ UNCHANGED <<requests, deadline, rows, locks, outside, creating, claims, patching, faults>>

\* Mutant: the UPDATE does not test the status again.
ScanUpdateBlind(s, c) ==
    /\ scanning[s].pc = "update"
    /\ c \in scanning[s].todo
    /\ rowLock[c] = None
    /\ rowLock' = [rowLock EXCEPT ![c] = s]
    /\ scanning' = [scanning EXCEPT ![s].todo = @ \ {c}, ![s].hit = @ \cup {c}]
    /\ UNCHANGED <<requests, deadline, rows, scanLock, outside, creating, claims, patching, faults>>

\* One guarded UPDATE of the scan's transaction; the row stays locked until the
\* transaction ends.  The SELECT has no ORDER BY, so the order is arbitrary.
ScanUpdate(s, c) ==
    /\ scanning[s].pc = "update"
    /\ c \in scanning[s].todo
    /\ rowLock[c] = None
    /\ \/ /\ status[c] \notin TerminalStates
          /\ rowLock' = [rowLock EXCEPT ![c] = s]
          /\ scanning' = [scanning EXCEPT ![s].todo = @ \ {c}, ![s].hit = @ \cup {c}]
       \/ /\ status[c] \in TerminalStates
          /\ scanning' = [scanning EXCEPT ![s].todo = @ \ {c}]
          /\ UNCHANGED rowLock
    /\ UNCHANGED <<requests, deadline, rows, scanLock, outside, creating, claims, patching, faults>>

\* The row locks left when the transaction of scanner s ends.
Unlocked(s) == [c \in Commands |-> IF rowLock[c] = s THEN None ELSE rowLock[c]]

\* COMMIT, when anything timed out; the rows become visible together.
ScanCommit(s) ==
    LET hit == scanning[s].hit IN
    /\ scanning[s].pc = "update"
    /\ scanning[s].todo = {}
    /\ status' = [c \in Commands |-> IF c \in hit THEN "TIMEOUT" ELSE status[c]]
    /\ stamps' = [c \in Commands |-> IF c \in hit
                                     THEN stamps[c] \cup TransitionStamps("TIMEOUT")
                                     ELSE stamps[c]]
    /\ rowLock' = Unlocked(s)
    /\ scanning' = [scanning EXCEPT ![s].pc = "broadcast"]
    /\ UNCHANGED <<requests, deadline, scanLock, outside, creating, claims, patching, faults>>

ScanBroadcast(s, c) ==
    /\ scanning[s].pc = "broadcast"
    /\ c \in scanning[s].hit
    /\ Tell(c, {"TIMEOUT"})
    /\ scanning' = [scanning EXCEPT ![s].hit = @ \ {c}]
    /\ UNCHANGED <<requests, deadline, rows, locks, reply, delivered,
                   creating, claims, patching, faults>>

\* The finally clause: DELETE lock:timeout_scanner, whoever holds it by now.
ScanUnlock(s) ==
    /\ scanning[s].pc = "broadcast"
    /\ scanning[s].hit = {}
    /\ scanLock' = FALSE
    /\ scanning' = [scanning EXCEPT ![s] = IdleScan]
    /\ UNCHANGED <<requests, deadline, rows, rowLock, outside, creating, claims, patching, faults>>

\* The transaction fails: rollback, and the finally clause.
ScanRollback(s) ==
    /\ scanning[s].pc \in {"select", "update"}
    /\ rowLock' = Unlocked(s)
    /\ scanLock' = FALSE
    /\ scanning' = [scanning EXCEPT ![s] = IdleScan]
    /\ UNCHANGED <<requests, deadline, rows, outside, creating, claims, patching>>

\* Scanner s may be waiting for a row that scanner t has locked.
WaitsFor(s, t) ==
    /\ scanning[s].pc = "update"
    /\ \E c \in scanning[s].todo : rowLock[c] = t

\* Two scanners wait for each other's rows: Postgres aborts one of them.
ScanDeadlockAbort(s) ==
    /\ \E t \in Scanners \ {s} : WaitsFor(s, t) /\ WaitsFor(t, s)
    /\ ScanRollback(s)
    /\ UNCHANGED faults

\* Any other database error during the scan.
ScanFail(s) ==
    /\ faults < MaxFaults
    /\ faults' = faults + 1
    /\ ScanRollback(s)

\* The worker process dies: the transaction rolls back, the Redis lock stays.
ScanCrash(s) ==
    /\ faults < MaxFaults
    /\ faults' = faults + 1
    /\ scanning[s].pc # "idle"
    /\ rowLock' = Unlocked(s)
    /\ scanning' = [scanning EXCEPT ![s] = IdleScan]
    /\ UNCHANGED <<requests, deadline, rows, scanLock, outside, creating, claims, patching>>

-----------------------------------------------------------------------------
\* Time passes expires_at.
DeadlinePasses(c) ==
    /\ deadline[c] = "future"
    /\ deadline' = [deadline EXCEPT ![c] = "past"]
    /\ UNCHANGED <<requests, rows, locks, outside, handlers, faults>>

CreateStep(p) == CreateCommit(p) \/ CreateBroadcast(p) \/ CreateRecover(p)
ClaimStep(h) == ClaimSelect(h) \/ ClaimDispatch(h) \/ ClaimBroadcast(h) \/ ClaimRespond(h)
PatchStep(p) == PatchCas(p) \/ PatchConflict(p) \/ PatchReread(p) \/ PatchBroadcast(p)
ScanStep(s) ==
    \/ ScanLock(s)
    \/ ScanSelect(s)
    \/ \E c \in Commands : ScanUpdate(s, c) \/ ScanBroadcast(s, c)
    \/ ScanCommit(s)
    \/ ScanUnlock(s)
    \/ ScanDeadlockAbort(s)

Next ==
    \/ \E p \in Creators : \/ \E r \in Robots, k \in Keys \cup {NoKey}, d \in Deadlines :
                                 CreateBegin(p, r, k, d)
                           \/ CreateStep(p)
                           \/ CreateAbort(p)
    \/ \E h \in Claimers : \/ \E r \in Robots : ClaimBegin(h, r)
                           \/ ClaimStep(h)
                           \/ ClaimAbort(h)
    \/ \E p \in Patchers : \/ \E c \in Commands, s \in Status : PatchRead(p, c, s)
                           \/ PatchStep(p)
                           \/ PatchAbort(p)
    \/ \E s \in Scanners : ScanStep(s) \/ ScanFail(s) \/ ScanCrash(s)
    \/ ScanLockExpire
    \/ \E c \in Commands : DeadlinePasses(c)

Spec == Init /\ [][Next]_vars

\* Time passes, a handler that can take a step takes it, and the worker is
\* restarted by Docker (restart: unless-stopped); no request is ever owed.  An
\* UPDATE that waits for a row lock is queued and gets the row in its turn:
\* strong fairness.
Fairness ==
    /\ \A p \in Creators : WF_vars(CreateStep(p))
    /\ \A h \in Claimers : WF_vars(ClaimStep(h))
    /\ \A p \in Patchers : WF_vars(PatchStep(p))
    /\ \A s \in Scanners : /\ WF_vars(ScanStep(s))
                          /\ \A c \in Commands : SF_vars(ScanUpdate(s, c))
    /\ WF_vars(ScanLockExpire)
    /\ \A c \in Commands : WF_vars(DeadlinePasses(c))

FairSpec == Spec /\ Fairness
-----------------------------------------------------------------------------
(* What the handlers promise. *)

\* The statuses the row shows command c to have gone through.
Reached(c) ==
    IF ~Exists(c) THEN {}
    ELSE {"PENDING"}
         \cup {s \in {"DISPATCHED", "ACKNOWLEDGED", "EXECUTING"} :
                  TransitionStamps(s) \subseteq stamps[c]}
         \cup ({status[c]} \cap TerminalStates)

\* Every row is the record of one run of the state machine: completed_at is set
\* exactly in a terminal state, each earlier *_at column only after the one
\* before it, a COMPLETED command was acknowledged and a CANCELLED one never
\* was.  A writer that does not compare before it sets (the race described in
\* update_status and scan_for_timeouts) leaves a row of two mixed runs.
RowIsOneRun ==
    \A c \in Commands :
        /\ "completed_at" \in stamps[c] <=> status[c] \in TerminalStates
        /\ "started_at" \in stamps[c] => "acknowledged_at" \in stamps[c]
        /\ "acknowledged_at" \in stamps[c] => "dispatched_at" \in stamps[c]
        /\ ~Exists(c) => stamps[c] = {}
        /\ status[c] = "PENDING" => stamps[c] = {}
        /\ status[c] = "DISPATCHED" => stamps[c] = {"dispatched_at"}
        /\ status[c] = "ACKNOWLEDGED" => stamps[c] = {"dispatched_at", "acknowledged_at"}
        /\ status[c] = "EXECUTING" => "started_at" \in stamps[c]
        /\ status[c] = "COMPLETED" => "acknowledged_at" \in stamps[c]
        /\ status[c] = "CANCELLED" => "acknowledged_at" \notin stamps[c]

\* Nothing is published before it is durable: every status a dashboard was sent
\* (broadcast) and every status a PATCH was answered 200 for is one the row has
\* really gone through.  In particular no dashboard is ever told TIMEOUT of a
\* command that COMPLETED, however the scan, the PATCHes and crashes interleave.
ToldOnlyDurable ==
    \A c \in Commands : told[c] \subseteq Reached(c)

\* At-most-once dispatch: a command in the hands of one claim handler is in no
\* other handler's list and in no response sent before, so no two pollers (or a
\* poller and its own timed-out request) ever receive the same command.
ExclusiveClaim ==
    \A h \in Claimers : \A i \in 1..Len(claimed[h]) :
        LET c == claimed[h][i] IN
        /\ "dispatched_at" \in stamps[c]
        /\ c \notin delivered
        /\ \A g \in Claimers \ {h} : c \notin Claimed(g)
        /\ \A j \in 1..Len(claimed[h]) : claimed[h][j] = c => i = j

\* Idempotent creation: a create request is answered with a command of its own
\* robot and key, never with the 500 of a conflict that cannot be resolved, and
\* two requests with one (robot, key) are answered with the same command.
IdempotentReplies ==
    \A c \in Commands : reply[c] # Unanswered =>
        /\ reply[c] \in Commands
        /\ Exists(reply[c])
        /\ robotOf[reply[c]] = robotOf[c]
        /\ keyOf[reply[c]] = keyOf[c]
        /\ \A d \in Commands :
              (/\ reply[d] # Unanswered
               /\ keyOf[d] # NoKey
               /\ robotOf[d] = robotOf[c]
               /\ keyOf[d] = keyOf[c]) => reply[d] = reply[c]

-----------------------------------------------------------------------------
(* The inductive invariant behind these: what each handler knows between   *)
(* two of its steps.                                                       *)

\* A create request owns a fresh id; it has no row before its commit, a row
\* after it, and a winner to look up when its key was taken.
CreateInv ==
    /\ \A p \in Creators : creating[p].pc # "idle" =>
          /\ creating[p].cmd \in Commands
          /\ creating[p].cmd < nextId
          /\ reply[creating[p].cmd] = Unanswered
          /\ creating[p].pc = "commit" => ~Exists(creating[p].cmd)
          /\ creating[p].pc = "broadcast" => Exists(creating[p].cmd)
          /\ creating[p].pc = "recover" => Colliding(creating[p].cmd) # {}
    /\ \A p, q \in Creators :
          (p # q /\ creating[p].pc # "idle" /\ creating[q].pc # "idle")
              => creating[p].cmd # creating[q].cmd
    /\ \A c \in Commands : c >= nextId => ~Exists(c) /\ reply[c] = Unanswered

\* UNIQUE (robot_id, idempotency_key), NULLs apart.
KeyInv ==
    \A c, d \in Commands :
        (/\ Exists(c) /\ Exists(d)
         /\ keyOf[c] # NoKey
         /\ robotOf[c] = robotOf[d]
         /\ keyOf[c] = keyOf[d]) => c = d

\* A create request was answered with a stored command of its robot and key.
ReplyInv ==
    \A c \in Commands : reply[c] # Unanswered =>
        /\ reply[c] \in Commands
        /\ Exists(reply[c])
        /\ robotOf[reply[c]] = robotOf[c]
        /\ keyOf[reply[c]] = keyOf[c]

\* A claim handler works on a stored row, and broadcasts and hands out only rows
\* that were dispatched.
ClaimInv ==
    /\ \A h \in Claimers :
          /\ claiming[h].pc = "dispatch" => claiming[h].cmd \in Commands /\ Exists(claiming[h].cmd)
          /\ claiming[h].pc = "broadcast" =>
                claiming[h].cmd \in Commands /\ "dispatched_at" \in stamps[claiming[h].cmd]
    /\ \A c \in delivered : "dispatched_at" \in stamps[c]

\* A PATCH compares with the status its transition was validated against, and
\* publishes only what the row has gone through.
PatchInv ==
    \A p \in Patchers : patching[p].pc # "idle" =>
        /\ patching[p].cmd \in Commands
        /\ Exists(patching[p].cmd)
        /\ patching[p].pc = "cas" => patching[p].new \in ValidTransitions(patching[p].seen)
        /\ patching[p].pc \in {"reread", "broadcast"} => patching[p].new \in Reached(patching[p].cmd)
        /\ patching[p].pc = "broadcast" => patching[p].seen \in Reached(patching[p].cmd)

\* A row is locked exactly while an open scan has updated it; it cannot leave its
\* live status under the lock; what a scan broadcasts has timed out.
ScanInv ==
    /\ \A c \in Commands, s \in Scanners :
          rowLock[c] = s <=> (scanning[s].pc = "update" /\ c \in scanning[s].hit)
    /\ \A c \in Commands : rowLock[c] # None => status[c] \in Status \ TerminalStates
    /\ \A s \in Scanners :
          /\ scanning[s].pc \in {"idle", "select"} => scanning[s].hit = {}
          /\ scanning[s].pc = "update" => \A c \in scanning[s].todo : Exists(c)
          /\ scanning[s].pc = "broadcast" => \A c \in scanning[s].hit : status[c] = "TIMEOUT"

IInv ==
    /\ TypeOK
    /\ RowIsOneRun
    /\ ToldOnlyDurable
    /\ ExclusiveClaim
    /\ CreateInv
    /\ KeyInv
    /\ ReplyInv
    /\ ClaimInv
    /\ PatchInv
    /\ ScanInv

-----------------------------------------------------------------------------
(* Refinement and liveness. *)

\* The lifecycle is the abstract state machine: rows move only along
\* VALID_TRANSITIONS, several at once only to TIMEOUT, and only reached statuses
\* are told.
Contract == INSTANCE CommandContract
    WITH st <- status,
         reached <- [c \in Commands |-> Reached(c)]

\* The refinement: every behaviour of the handlers is one of the contract.
ImplementsContract == Contract!Spec

\* The sweeper does its job: a command past its deadline reaches a terminal
\* state, in spite of a crash of the scanner that holds the Redis lock, of
\* overlapping scans that deadlock on their rows, and of PATCHes in between.
ExpiredIsSwept ==
    \A c \in Commands :
        (Exists(c) /\ deadline[c] = "past") ~> (status[c] \in TerminalStates)
=============================================================================
