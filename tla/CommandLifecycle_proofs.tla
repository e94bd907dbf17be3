------------------------ MODULE CommandLifecycle_proofs ------------------------
(***************************************************************************)
(* Proofs about CommandLifecycle for any number of commands, robots, keys, *)
(* handlers and scanners.                                                  *)
(*                                                                         *)
(* The argument goes over the rows first: under IInv every step leaves the *)
(* rows alone, moves one row along the transition table, or expires a set  *)
(* of live rows (RowChange).  What the table says of the past only grows   *)
(* under such a step, so what the handlers remember of it stays true.      *)
(***************************************************************************)
EXTENDS CommandLifecycle, TLAPS

-----------------------------------------------------------------------------
(* Facts about the tables of CommandStates. *)

\* _transition_values only names columns of the table.
LEMMA StampsTyped == \A s \in Status : TransitionStamps(s) \subseteq Stamp
  BY DEF TransitionStamps, Stamp, Status, TerminalStates

\* The column each live transition of _transition_values sets.
LEMMA StampTable ==
  /\ TransitionStamps("DISPATCHED") = {"dispatched_at"}
  /\ TransitionStamps("ACKNOWLEDGED") = {"acknowledged_at"}
  /\ TransitionStamps("EXECUTING") = {"started_at"}
  BY DEF TransitionStamps, TerminalStates

\* VALID_TRANSITIONS leads from a live status to another status.
LEMMA TransitionsTyped ==
  \A s \in Status \cup {Absent} : \A t \in ValidTransitions(s) :
     /\ s \in Status \ TerminalStates
     /\ t \in Status \ {"PENDING"}
     /\ s # t
  BY DEF ValidTransitions, Status, TerminalStates, Absent

-----------------------------------------------------------------------------
(* What a step may do to the rows. *)

\* One row is inserted, or moves along the transition table.
RowWrite(c, s) ==
    /\ SetStatus(c, s)
    /\ \/ status[c] = Absent /\ s = "PENDING"
       \/ s \in ValidTransitions(status[c])

\* The rows in S, all live, become TIMEOUT together.
RowExpire(S) ==
    /\ \A c \in S : status[c] \in Status \ TerminalStates
    /\ status' = [c \in Commands |-> IF c \in S THEN "TIMEOUT" ELSE status[c]]
    /\ stamps' = [c \in Commands |-> IF c \in S
                                     THEN stamps[c] \cup TransitionStamps("TIMEOUT")
                                     ELSE stamps[c]]

RowChange ==
    \/ UNCHANGED rows
    \/ \E c \in Commands, s \in Status : RowWrite(c, s)
    \/ \E S \in SUBSET Commands : RowExpire(S)

\* A row remembers: no command disappears, no timestamp is cleared, no status
\* a command has had is forgotten.
RowsGrow ==
    \A c \in Commands : /\ Exists(c) => Exists(c)'
                        /\ stamps[c] \subseteq stamps'[c]
                        /\ Reached(c) \subseteq Reached(c)'

\* A row change keeps the rows typed.
LEMMA RowsTyped ==
  ASSUME TypeOK, RowChange
  PROVE  /\ status' \in [Commands -> Status \cup {Absent}]
         /\ stamps' \in [Commands -> SUBSET Stamp]
  <1>1. CASE UNCHANGED rows
    BY <1>1 DEF TypeOK, rows
  <1>2. ASSUME NEW c \in Commands, NEW s \in Status, RowWrite(c, s)
        PROVE  /\ status' \in [Commands -> Status \cup {Absent}]
               /\ stamps' \in [Commands -> SUBSET Stamp]
    BY <1>2, StampsTyped DEF RowWrite, SetStatus, TypeOK
  <1>3. ASSUME NEW S \in SUBSET Commands, RowExpire(S)
        PROVE  /\ status' \in [Commands -> Status \cup {Absent}]
               /\ stamps' \in [Commands -> SUBSET Stamp]
    <2>1. "TIMEOUT" \in Status
      BY DEF Status, TerminalStates
    <2> QED
      BY <1>3, <2>1, StampsTyped DEF RowExpire, TypeOK
  <1> QED
    BY <1>1, <1>2, <1>3 DEF RowChange

\* A row change keeps every row the record of one run: the transition table
\* allows no second run and no step that skips a timestamp it implies.
LEMMA RowsOneRun ==
  ASSUME TypeOK, RowIsOneRun, RowChange
  PROVE  RowIsOneRun'
  <1>1. CASE UNCHANGED rows
    BY <1>1 DEF RowIsOneRun, rows, Exists
  <1>2. ASSUME NEW c \in Commands, NEW s \in Status, RowWrite(c, s)
        PROVE  RowIsOneRun'
    <2> SUFFICES ASSUME NEW d \in Commands
                 PROVE  (RowIsOneRun!(d))'
      BY DEF RowIsOneRun
    <2>1. CASE d # c
      BY <1>2, <2>1 DEF RowWrite, SetStatus, TypeOK, RowIsOneRun, Exists
    <2>2. CASE d = c
      BY <1>2, <2>2 DEF RowWrite, SetStatus, TypeOK, RowIsOneRun, Exists, Absent,
                        ValidTransitions, TransitionStamps, TerminalStates, Status
    <2> QED
      BY <2>1, <2>2
  <1>3. ASSUME NEW S \in SUBSET Commands, RowExpire(S)
        PROVE  RowIsOneRun'
    BY <1>3 DEF RowExpire, TypeOK, RowIsOneRun, Exists, Absent, TransitionStamps,
                TerminalStates, Status
  <1> QED
    BY <1>1, <1>2, <1>3 DEF RowChange

\* A row change forgets nothing.
LEMMA RowsOnlyGrow ==
  ASSUME TypeOK, RowIsOneRun, RowChange
  PROVE  RowsGrow
  <1>1. CASE UNCHANGED rows
    BY <1>1 DEF RowsGrow, rows, Exists, Reached
  <1>2. ASSUME NEW c \in Commands, NEW s \in Status, RowWrite(c, s)
        PROVE  RowsGrow
    <2> SUFFICES ASSUME NEW d \in Commands
                 PROVE  /\ Exists(d) => Exists(d)'
                        /\ stamps[d] \subseteq stamps'[d]
                        /\ Reached(d) \subseteq Reached(d)'
      BY DEF RowsGrow
    <2>1. CASE d # c
      BY <1>2, <2>1 DEF RowWrite, SetStatus, TypeOK, Exists, Reached
    <2>2. CASE d = c
      BY <1>2, <2>2 DEF RowWrite, SetStatus, TypeOK, Exists, Reached, Absent,
                        ValidTransitions, TerminalStates, Status
    <2> QED
      BY <2>1, <2>2
  <1>3. ASSUME NEW S \in SUBSET Commands, RowExpire(S)
        PROVE  RowsGrow
    BY <1>3 DEF RowExpire, RowsGrow, TypeOK, Exists, Reached, Absent, TerminalStates, Status
  <1> QED
    BY <1>1, <1>2, <1>3 DEF RowChange

-----------------------------------------------------------------------------
(* The steps by the handler that takes them, and what each kind leaves     *)
(* alone.                                                                  *)

CreateAny(p) ==
    \/ \E r \in Robots, k \in Keys \cup {NoKey}, d \in Deadlines : CreateBegin(p, r, k, d)
    \/ CreateStep(p)
    \/ CreateAbort(p)

ClaimAny(h) == (\E r \in Robots : ClaimBegin(h, r)) \/ ClaimStep(h) \/ ClaimAbort(h)

PatchAny(p) ==
    (\E c \in Commands, s \in Status : PatchRead(p, c, s)) \/ PatchStep(p) \/ PatchAbort(p)

ScanAny(s) == ScanStep(s) \/ ScanFail(s) \/ ScanCrash(s)

EnvAny == ScanLockExpire \/ \E c \in Commands : DeadlinePasses(c)

\* Every step is a step of one of the four handlers or of the environment.
LEMMA NextSplit ==
  Next <=> \/ \E p \in Creators : CreateAny(p)
           \/ \E h \in Claimers : ClaimAny(h)
           \/ \E p \in Patchers : PatchAny(p)
           \/ \E s \in Scanners : ScanAny(s)
           \/ EnvAny
  BY DEF Next, CreateAny, ClaimAny, PatchAny, ScanAny, EnvAny

\* create_command touches no lock, claim, PATCH or scan.
LEMMA CreateFrame ==
  ASSUME NEW p \in Creators, CreateAny(p)
  PROVE  UNCHANGED <<locks, delivered, claims, patching, scanning, faults>>
  BY DEF CreateAny, CreateStep, CreateBegin, CreateCommit, CreateBroadcast,
         CreateRecover, CreateAbort, outside

\* A claim touches no request, lock, PATCH or scan.
LEMMA ClaimFrame ==
  ASSUME NEW h \in Claimers, ClaimAny(h)
  PROVE  UNCHANGED <<requests, deadline, locks, reply, creating, patching, scanning, faults>>
  BY DEF ClaimAny, ClaimStep, ClaimBegin, ClaimSelect, ClaimDispatch, ClaimBroadcast,
         ClaimRespond, ClaimAbort, outside

\* update_status touches no request, lock, claim or scan.
LEMMA PatchFrame ==
  ASSUME NEW p \in Patchers, PatchAny(p)
  PROVE  UNCHANGED <<requests, deadline, locks, reply, delivered, creating, claims,
                     scanning, faults>>
  BY DEF PatchAny, PatchStep, PatchRead, PatchCas, PatchConflict, PatchReread,
         PatchBroadcast, PatchAbort, outside

\* The timeout loop touches no request, reply or API handler.
LEMMA ScanFrame ==
  ASSUME NEW s \in Scanners, ScanAny(s)
  PROVE  UNCHANGED <<requests, deadline, reply, delivered, creating, claims, patching>>
  BY DEF ScanAny, ScanStep, ScanLock, ScanSelect, ScanUpdate, ScanCommit, ScanBroadcast,
         ScanUnlock, ScanDeadlockAbort, ScanFail, ScanCrash, ScanRollback, outside

\* Time and the TTL of the Redis lock touch no row, handler or reply.
LEMMA EnvFrame ==
  ASSUME EnvAny
  PROVE  UNCHANGED <<requests, rows, rowLock, outside, handlers, faults>>
  BY DEF EnvAny, ScanLockExpire, DeadlinePasses, locks

-----------------------------------------------------------------------------
(* Every step is a row change. *)

\* create_command inserts its own fresh row as PENDING, or writes no row.
LEMMA CreateRows ==
  ASSUME IInv, NEW p \in Creators, CreateAny(p)
  PROVE  RowChange
  <1>1. CASE CreateCommit(p)
    <2>1. creating[p].cmd \in Commands /\ status[creating[p].cmd] = Absent
      BY <1>1 DEF CreateCommit, IInv, CreateInv, Exists
    <2>2. "PENDING" \in Status
      BY DEF Status
    <2> QED
      BY <1>1, <2>1, <2>2 DEF CreateCommit, RowChange, RowWrite
  <1>2. CASE ~CreateCommit(p)
    BY <1>2 DEF CreateAny, CreateStep, CreateBegin, CreateBroadcast, CreateRecover,
                CreateAbort, RowChange
  <1> QED
    BY <1>1, <1>2

\* try_dispatch moves a PENDING row to DISPATCHED, or writes no row.
LEMMA ClaimRows ==
  ASSUME IInv, NEW h \in Claimers, ClaimAny(h)
  PROVE  RowChange
  <1>1. CASE ClaimDispatch(h)
    <2>1. claiming[h].cmd \in Commands
      BY <1>1 DEF ClaimDispatch, IInv, ClaimInv
    <2>2. "DISPATCHED" \in Status /\ "DISPATCHED" \in ValidTransitions("PENDING")
      BY DEF Status, ValidTransitions
    <2> QED
      BY <1>1, <2>1, <2>2 DEF ClaimDispatch, RowChange, RowWrite
  <1>2. CASE ~ClaimDispatch(h)
    BY <1>2 DEF ClaimAny, ClaimStep, ClaimBegin, ClaimSelect, ClaimBroadcast,
                ClaimRespond, ClaimAbort, RowChange
  <1> QED
    BY <1>1, <1>2

\* The compare-and-set of update_status follows the transition table.
LEMMA PatchRows ==
  ASSUME IInv, NEW p \in Patchers, PatchAny(p)
  PROVE  RowChange
  <1>1. CASE PatchCas(p)
    <2>1. /\ patching[p].cmd \in Commands
          /\ patching[p].new \in ValidTransitions(patching[p].seen)
      BY <1>1 DEF PatchCas, IInv, PatchInv
    <2>2. patching[p].new \in Status
      BY DEF IInv, TypeOK, PatchState
    <2> QED
      BY <1>1, <2>1, <2>2 DEF PatchCas, RowChange, RowWrite
  <1>2. CASE ~PatchCas(p)
    BY <1>2 DEF PatchAny, PatchStep, PatchRead, PatchConflict, PatchReread,
                PatchBroadcast, PatchAbort, RowChange
  <1> QED
    BY <1>1, <1>2

\* scan_for_timeouts commits TIMEOUT only for rows it has locked while live.
LEMMA ScanRows ==
  ASSUME IInv, NEW s \in Scanners, ScanAny(s)
  PROVE  RowChange
  <1>1. CASE ScanCommit(s)
    <2>1. scanning[s].hit \in SUBSET Commands
      BY DEF IInv, TypeOK, ScanState
    <2>2. \A c \in scanning[s].hit : rowLock[c] = s
      BY <1>1, <2>1 DEF ScanCommit, IInv, ScanInv
    <2>3. \A c \in scanning[s].hit : status[c] \in Status \ TerminalStates
      BY <2>1, <2>2, NoneAssumption DEF IInv, ScanInv
    <2> QED
      BY <1>1, <2>1, <2>3 DEF ScanCommit, RowChange, RowExpire
  <1>2. CASE ~ScanCommit(s)
    BY <1>2 DEF ScanAny, ScanStep, ScanLock, ScanSelect, ScanUpdate, ScanBroadcast,
                ScanUnlock, ScanDeadlockAbort, ScanFail, ScanCrash, ScanRollback, RowChange
  <1> QED
    BY <1>1, <1>2

\* Every step is a row change, and forgets nothing.
LEMMA NextRows ==
  ASSUME IInv, Next
  PROVE  RowChange /\ RowsGrow
  <1>1. RowChange
    BY NextSplit, CreateRows, ClaimRows, PatchRows, ScanRows, EnvFrame DEF RowChange
  <1> QED
    BY <1>1, RowsOnlyGrow DEF IInv

-----------------------------------------------------------------------------
(* Type correctness. *)

\* A handler at rest is well typed.
LEMMA IdleTyped ==
  /\ IdleCreate \in CreateState
  /\ IdleClaim \in ClaimState
  /\ IdlePatch \in PatchState
  /\ IdleScan \in ScanState
  BY DEF CreateState, ClaimState, PatchState, ScanState, IdleCreate, IdleClaim, IdlePatch,
         IdleScan, NoCommand, Status

\* create_command keeps what it writes well typed.
LEMMA CreateTyped ==
  ASSUME IInv, NEW p \in Creators, CreateAny(p)
  PROVE  /\ nextId' \in 1..(MaxCommand + 1)
         /\ robotOf' \in [Commands -> Robots \cup {None}]
         /\ keyOf' \in [Commands -> Keys \cup {NoKey}]
         /\ deadline' \in [Commands -> {"never", "future", "past"}]
         /\ reply' \in [Commands -> 0..(MaxCommand + 1)]
         /\ told' \in [Commands -> SUBSET Status]
         /\ creating' \in [Creators -> CreateState]
  <1> USE DEF IInv
  <1>1. ASSUME NEW r \in Robots, NEW k \in Keys \cup {NoKey}, NEW d \in Deadlines,
               CreateBegin(p, r, k, d)
        PROVE  /\ nextId' \in 1..(MaxCommand + 1)
               /\ robotOf' \in [Commands -> Robots \cup {None}]
               /\ keyOf' \in [Commands -> Keys \cup {NoKey}]
               /\ deadline' \in [Commands -> {"never", "future", "past"}]
               /\ creating' \in [Creators -> CreateState]
               /\ UNCHANGED <<reply, told>>
    BY <1>1, MaxCommandAssumption, DeadlinesAssumption
    DEF CreateBegin, TypeOK, Commands, CreateState, outside
  <1>2. ASSUME CreateCommit(p) \/ CreateAbort(p)
        PROVE  /\ creating' \in [Creators -> CreateState]
               /\ UNCHANGED <<requests, deadline, reply, told>>
    <2>1. \/ creating' = [creating EXCEPT ![p].pc = "broadcast"]
          \/ creating' = [creating EXCEPT ![p].pc = "recover"]
          \/ creating' = [creating EXCEPT ![p] = IdleCreate]
      BY <1>2 DEF CreateCommit, CreateAbort
    <2>2. creating \in [Creators -> CreateState]
      BY DEF TypeOK
    <2>3. creating' \in [Creators -> CreateState]
      BY <2>1, <2>2, IdleTyped DEF CreateState
    <2> QED
      BY <1>2, <2>3 DEF CreateCommit, CreateAbort, outside
  <1>3. ASSUME CreateBroadcast(p)
        PROVE  /\ creating' \in [Creators -> CreateState]
               /\ reply' \in [Commands -> 0..(MaxCommand + 1)]
               /\ told' \in [Commands -> SUBSET Status]
               /\ UNCHANGED <<requests, deadline>>
    BY <1>3, MaxCommandAssumption
    DEF CreateBroadcast, TypeOK, CreateState, CreateInv, IdleCreate, NoCommand, Tell,
        Commands, Status
  <1>4. ASSUME CreateRecover(p)
        PROVE  /\ creating' \in [Creators -> CreateState]
               /\ reply' \in [Commands -> 0..(MaxCommand + 1)]
               /\ UNCHANGED <<requests, deadline, told>>
    <2>1. Colliding(creating[p].cmd) # {} =>
             (CHOOSE d \in Colliding(creating[p].cmd) : TRUE) \in Commands
      BY DEF Colliding
    <2>2. (IF Colliding(creating[p].cmd) = {} THEN ConflictFailed
           ELSE CHOOSE d \in Colliding(creating[p].cmd) : TRUE) \in 0..(MaxCommand + 1)
      BY <2>1, MaxCommandAssumption DEF ConflictFailed, Commands
    <2> QED
      BY <1>4, <2>2 DEF CreateRecover, TypeOK, CreateState, IdleCreate, NoCommand
  <1> QED
    BY <1>1, <1>2, <1>3, <1>4 DEF CreateAny, CreateStep, TypeOK, requests

\* A claim keeps what it writes well typed.
LEMMA ClaimTyped ==
  ASSUME IInv, NEW h \in Claimers, ClaimAny(h)
  PROVE  /\ told' \in [Commands -> SUBSET Status]
         /\ delivered' \in SUBSET Commands
         /\ claiming' \in [Claimers -> ClaimState]
         /\ claimed' \in [Claimers -> Seq(Commands)]
  <1>a. claiming \in [Claimers -> ClaimState]
    BY DEF IInv, TypeOK
  <1>b. claimed \in [Claimers -> Seq(Commands)]
    BY DEF IInv, TypeOK
  <1>1. ASSUME NEW r \in Robots, ClaimBegin(h, r)
        PROVE  claiming' \in [Claimers -> ClaimState] /\ UNCHANGED <<told, delivered, claimed>>
    BY <1>a, <1>1 DEF ClaimBegin, ClaimState, NoCommand, outside
  <1>2. ASSUME ClaimSelect(h)
        PROVE  claiming' \in [Claimers -> ClaimState] /\ UNCHANGED <<told, delivered, claimed>>
    <2>1. \/ claiming' = [claiming EXCEPT ![h].pc = "respond"]
          \/ \E c \in Commands :
                claiming' = [claiming EXCEPT ![h].pc = "dispatch", ![h].cmd = c]
      BY <1>2 DEF ClaimSelect, PendingOf
    <2>a. ASSUME NEW c \in Commands,
                 claiming' = [claiming EXCEPT ![h].pc = "dispatch", ![h].cmd = c]
          PROVE  claiming' \in [Claimers -> ClaimState]
      <3>1. [claiming[h] EXCEPT !.pc = "dispatch", !.cmd = c] \in ClaimState
        BY <1>a DEF ClaimState
      <3> QED
        BY <1>a, <2>a, <3>1
    <2>b. ASSUME claiming' = [claiming EXCEPT ![h].pc = "respond"]
          PROVE  claiming' \in [Claimers -> ClaimState]
      BY <1>a, <2>b DEF ClaimState
    <2>2. claiming' \in [Claimers -> ClaimState]
      BY <2>1, <2>a, <2>b
    <2> QED
      BY <1>2, <2>2 DEF ClaimSelect, outside
  <1>3. ASSUME ClaimDispatch(h)
        PROVE  /\ claiming' \in [Claimers -> ClaimState]
               /\ claimed' \in [Claimers -> Seq(Commands)]
               /\ UNCHANGED <<told, delivered>>
    <2>1. claiming[h].cmd \in Commands
      BY <1>3 DEF ClaimDispatch, IInv, ClaimInv
    <2>2. /\ \/ claiming' = [claiming EXCEPT ![h].pc = "broadcast"]
             \/ claiming' = [claiming EXCEPT ![h].pc = "select"]
          /\ \/ claimed' = [claimed EXCEPT ![h] = Append(@, claiming[h].cmd)]
             \/ UNCHANGED claimed
      BY <1>3 DEF ClaimDispatch
    <2>3. claiming' \in [Claimers -> ClaimState]
      BY <1>a, <2>2 DEF ClaimState
    <2>4. claimed' \in [Claimers -> Seq(Commands)]
      <3>1. Append(claimed[h], claiming[h].cmd) \in Seq(Commands)
        BY <1>b, <2>1
      <3> QED
        BY <1>b, <2>2, <3>1
    <2> QED
      BY <1>3, <2>3, <2>4 DEF ClaimDispatch, outside
  <1>4. ASSUME ClaimBroadcast(h)
        PROVE  /\ claiming' \in [Claimers -> ClaimState]
               /\ told' \in [Commands -> SUBSET Status]
               /\ UNCHANGED <<claimed, delivered>>
    <2>1. /\ claiming' = [claiming EXCEPT ![h].pc = "select"]
          /\ told' = [told EXCEPT ![claiming[h].cmd] = @ \cup {"DISPATCHED"}]
          /\ UNCHANGED <<claimed, delivered>>
      BY <1>4 DEF ClaimBroadcast, Tell
    <2>2. claiming' \in [Claimers -> ClaimState]
      BY <1>a, <2>1 DEF ClaimState
    <2>3. "DISPATCHED" \in Status
      BY DEF Status
    <2>4. told \in [Commands -> SUBSET Status] /\ claiming[h].cmd \in Commands
      BY <1>4 DEF ClaimBroadcast, IInv, TypeOK, ClaimInv
    <2>5. told' \in [Commands -> SUBSET Status]
      BY <2>1, <2>3, <2>4
    <2> QED
      BY <2>1, <2>2, <2>5
  <1>5. ASSUME ClaimRespond(h) \/ ClaimAbort(h)
        PROVE  /\ claiming' \in [Claimers -> ClaimState]
               /\ claimed' \in [Claimers -> Seq(Commands)]
               /\ delivered' \in SUBSET Commands
               /\ UNCHANGED told
    <2>1. Claimed(h) \subseteq Commands
      BY <1>b DEF Claimed
    <2>2. /\ claiming' = [claiming EXCEPT ![h] = IdleClaim]
          /\ claimed' = [claimed EXCEPT ![h] = << >>]
      BY <1>5 DEF ClaimRespond, ClaimAbort
    <2>3. claiming' \in [Claimers -> ClaimState] /\ claimed' \in [Claimers -> Seq(Commands)]
      BY <1>a, <1>b, <2>2, IdleTyped
    <2> QED
      BY <1>5, <2>1, <2>3 DEF ClaimRespond, ClaimAbort, IInv, TypeOK, outside
  <1> QED
    BY <1>a, <1>b, <1>1, <1>2, <1>3, <1>4, <1>5 DEF ClaimAny, ClaimStep, IInv, TypeOK

\* update_status keeps what it writes well typed.
LEMMA PatchTyped ==
  ASSUME IInv, NEW p \in Patchers, PatchAny(p)
  PROVE  /\ told' \in [Commands -> SUBSET Status]
         /\ patching' \in [Patchers -> PatchState]
  <1>0. /\ patching \in [Patchers -> PatchState]
        /\ told \in [Commands -> SUBSET Status]
        /\ status \in [Commands -> Status \cup {Absent}]
    BY DEF IInv, TypeOK
  <1>1. ASSUME NEW c \in Commands, NEW s \in Status, PatchRead(p, c, s)
        PROVE  told' \in [Commands -> SUBSET Status] /\ patching' \in [Patchers -> PatchState]
    <2>1. status[c] \in Status
      BY <1>0, <1>1 DEF PatchRead, Exists
    <2>2. [pc |-> "cas", cmd |-> c, new |-> s, seen |-> status[c]] \in PatchState
      BY <2>1 DEF PatchState
    <2> QED
      BY <1>0, <1>1, <2>2 DEF PatchRead, Tell
  <1>2. ASSUME PatchCas(p) \/ PatchAbort(p)
        PROVE  patching' \in [Patchers -> PatchState] /\ UNCHANGED told
    <2>1. \/ patching' = [patching EXCEPT ![p].pc = "reread"]
          \/ patching' = [patching EXCEPT ![p].pc = "conflict"]
          \/ patching' = [patching EXCEPT ![p] = IdlePatch]
      BY <1>2 DEF PatchCas, PatchAbort
    <2>2. patching' \in [Patchers -> PatchState]
      BY <1>0, <2>1, IdleTyped DEF PatchState
    <2> QED
      BY <1>2, <2>2 DEF PatchCas, PatchAbort, outside
  <1>3. ASSUME PatchConflict(p) \/ PatchBroadcast(p)
        PROVE  told' \in [Commands -> SUBSET Status] /\ patching' \in [Patchers -> PatchState]
    <2>1. patching[p].cmd \in Commands /\ patching[p].new \in Status /\ patching[p].seen \in Status
      BY <1>0, <1>3 DEF PatchConflict, PatchBroadcast, PatchState, IInv, PatchInv
    <2>2. told' \in [Commands -> SUBSET Status]
      BY <1>0, <1>3, <2>1 DEF PatchConflict, PatchBroadcast, Tell
    <2> QED
      BY <1>0, <1>3, <2>2, IdleTyped DEF PatchConflict, PatchBroadcast
  <1>4. ASSUME PatchReread(p)
        PROVE  patching' \in [Patchers -> PatchState] /\ UNCHANGED told
    <2>1. status[patching[p].cmd] \in Status
      BY <1>0, <1>4 DEF PatchReread, IInv, PatchInv, Exists
    <2>2. /\ patching' = [patching EXCEPT ![p].pc = "broadcast",
                                         ![p].seen = status[patching[p].cmd]]
          /\ UNCHANGED told
      BY <1>4 DEF PatchReread, outside
    <2>3. [patching[p] EXCEPT !.pc = "broadcast", !.seen = status[patching[p].cmd]] \in PatchState
      BY <1>0, <2>1 DEF PatchState
    <2> QED
      BY <1>0, <2>2, <2>3
  <1> QED
    BY <1>0, <1>1, <1>2, <1>3, <1>4 DEF PatchAny, PatchStep

\* The timeout loop keeps what it writes well typed.
LEMMA ScanTyped ==
  ASSUME IInv, NEW s \in Scanners, ScanAny(s)
  PROVE  /\ rowLock' \in [Commands -> Scanners \cup {None}]
         /\ scanLock' \in BOOLEAN
         /\ told' \in [Commands -> SUBSET Status]
         /\ scanning' \in [Scanners -> ScanState]
         /\ faults' \in 0..MaxFaults
  <1>0. /\ rowLock \in [Commands -> Scanners \cup {None}]
        /\ scanLock \in BOOLEAN
        /\ told \in [Commands -> SUBSET Status]
        /\ scanning \in [Scanners -> ScanState]
        /\ faults \in 0..MaxFaults
    BY DEF IInv, TypeOK
  <1>1. Unlocked(s) \in [Commands -> Scanners \cup {None}]
    BY <1>0 DEF Unlocked
  <1>2. ASSUME ScanLock(s) \/ ScanUnlock(s)
        PROVE  /\ scanLock' \in BOOLEAN
               /\ scanning' \in [Scanners -> ScanState]
               /\ UNCHANGED <<rowLock, told, faults>>
    <2>1. \/ scanning' = [scanning EXCEPT ![s].pc = "select"]
          \/ scanning' = [scanning EXCEPT ![s] = IdleScan]
      BY <1>2 DEF ScanLock, ScanUnlock
    <2>2. scanning' \in [Scanners -> ScanState]
      BY <1>0, <2>1, IdleTyped DEF ScanState
    <2> QED
      BY <1>2, <2>2 DEF ScanLock, ScanUnlock, outside
  <1>3. ASSUME ScanSelect(s)
        PROVE  scanning' \in [Scanners -> ScanState] /\ UNCHANGED <<locks, told, faults>>
    <2>1. PICK T \in SUBSET Commands :
             scanning' = [scanning EXCEPT ![s].pc = "update", ![s].todo = T]
      BY <1>3 DEF ScanSelect
    <2>2. [scanning[s] EXCEPT !.pc = "update", !.todo = T] \in ScanState
      BY <1>0 DEF ScanState
    <2>3. scanning' \in [Scanners -> ScanState]
      BY <1>0, <2>1, <2>2
    <2> QED
      BY <1>3, <2>3 DEF ScanSelect, outside
  <1>4. ASSUME NEW c \in Commands, ScanUpdate(s, c)
        PROVE  /\ rowLock' \in [Commands -> Scanners \cup {None}]
               /\ scanning' \in [Scanners -> ScanState]
               /\ UNCHANGED <<scanLock, told, faults>>
    <2>1. \/ scanning' = [scanning EXCEPT ![s].todo = @ \ {c}, ![s].hit = @ \cup {c}]
          \/ scanning' = [scanning EXCEPT ![s].todo = @ \ {c}]
      BY <1>4 DEF ScanUpdate
    <2>2. scanning' \in [Scanners -> ScanState]
      BY <1>0, <2>1 DEF ScanState
    <2>3. rowLock' = [rowLock EXCEPT ![c] = s] \/ UNCHANGED rowLock
      BY <1>4 DEF ScanUpdate
    <2>4. rowLock' \in [Commands -> Scanners \cup {None}]
      BY <1>0, <2>3
    <2> QED
      BY <1>4, <2>2, <2>4 DEF ScanUpdate, outside
  <1>5. ASSUME NEW c \in Commands, ScanBroadcast(s, c)
        PROVE  /\ told' \in [Commands -> SUBSET Status]
               /\ scanning' \in [Scanners -> ScanState]
               /\ UNCHANGED <<locks, faults>>
    <2>1. "TIMEOUT" \in Status
      BY DEF Status, TerminalStates
    <2>2. told' \in [Commands -> SUBSET Status]
      BY <1>0, <1>5, <2>1 DEF ScanBroadcast, Tell
    <2>3. scanning' \in [Scanners -> ScanState]
      BY <1>0, <1>5 DEF ScanBroadcast, ScanState
    <2> QED
      BY <1>5, <2>2, <2>3 DEF ScanBroadcast
  <1>6. ASSUME ScanCommit(s)
        PROVE  /\ rowLock' \in [Commands -> Scanners \cup {None}]
               /\ scanning' \in [Scanners -> ScanState]
               /\ UNCHANGED <<scanLock, told, faults>>
    <2>1. scanning' = [scanning EXCEPT ![s].pc = "broadcast"]
      BY <1>6 DEF ScanCommit
    <2>2. scanning' \in [Scanners -> ScanState]
      BY <1>0, <2>1 DEF ScanState
    <2> QED
      BY <1>1, <1>6, <2>2 DEF ScanCommit, outside
  <1>7. ASSUME ScanDeadlockAbort(s) \/ ScanFail(s) \/ ScanCrash(s)
        PROVE  /\ rowLock' \in [Commands -> Scanners \cup {None}]
               /\ scanLock' \in BOOLEAN
               /\ scanning' \in [Scanners -> ScanState]
               /\ UNCHANGED told
               /\ faults' \in 0..MaxFaults
    <2>1. scanning' = [scanning EXCEPT ![s] = IdleScan]
      BY <1>7 DEF ScanDeadlockAbort, ScanFail, ScanCrash, ScanRollback
    <2>2. scanning' \in [Scanners -> ScanState]
      BY <1>0, <2>1, IdleTyped
    <2>3. faults' \in 0..MaxFaults
      BY <1>0, <1>7, MaxFaultsAssumption DEF ScanDeadlockAbort, ScanFail, ScanCrash
    <2> QED
      BY <1>0, <1>1, <1>7, <2>2, <2>3
      DEF ScanDeadlockAbort, ScanFail, ScanCrash, ScanRollback, outside
  <1> QED
    BY <1>0, <1>2, <1>3, <1>4, <1>5, <1>6, <1>7 DEF ScanAny, ScanStep, locks

\* Every step keeps the state well typed.
LEMMA NextTyped ==
  ASSUME IInv, Next
  PROVE  TypeOK'
  <1>0. TypeOK
    BY DEF IInv
  <1>1. /\ status' \in [Commands -> Status \cup {Absent}]
        /\ stamps' \in [Commands -> SUBSET Stamp]
    BY <1>0, NextRows, RowsTyped
  <1>2. ASSUME NEW p \in Creators, CreateAny(p)
        PROVE  TypeOK'
    BY <1>0, <1>1, <1>2, CreateFrame, CreateTyped DEF TypeOK, locks, claims
  <1>3. ASSUME NEW h \in Claimers, ClaimAny(h)
        PROVE  TypeOK'
    BY <1>0, <1>1, <1>3, ClaimFrame, ClaimTyped DEF TypeOK, requests, locks
  <1>4. ASSUME NEW p \in Patchers, PatchAny(p)
        PROVE  TypeOK'
    BY <1>0, <1>1, <1>4, PatchFrame, PatchTyped DEF TypeOK, requests, locks, claims
  <1>5. ASSUME NEW s \in Scanners, ScanAny(s)
        PROVE  TypeOK'
    BY <1>0, <1>1, <1>5, ScanFrame, ScanTyped DEF TypeOK, requests, claims
  <1>6. ASSUME EnvAny
        PROVE  TypeOK'
    <2>1. scanLock' \in BOOLEAN /\ deadline' \in [Commands -> {"never", "future", "past"}]
      BY <1>0, <1>6 DEF EnvAny, ScanLockExpire, DeadlinePasses, TypeOK, locks
    <2> QED
      BY <1>0, <1>1, <1>6, <2>1, EnvFrame DEF TypeOK, requests, outside, handlers
  <1> QED
    BY <1>2, <1>3, <1>4, <1>5, <1>6, NextSplit

-----------------------------------------------------------------------------
(* Only what has been reached is told. *)

\* A command has reached its current status.
LEMMA StatusReached ==
  ASSUME TypeOK, RowIsOneRun, NEW c \in Commands, Exists(c)
  PROVE  status[c] \in Reached(c) /\ "PENDING" \in Reached(c)
  <1>1. status[c] \in Status
    BY DEF TypeOK, Exists
  <1>2. /\ status[c] = "DISPATCHED" => TransitionStamps("DISPATCHED") \subseteq stamps[c]
        /\ status[c] = "ACKNOWLEDGED" => TransitionStamps("ACKNOWLEDGED") \subseteq stamps[c]
        /\ status[c] = "EXECUTING" => TransitionStamps("EXECUTING") \subseteq stamps[c]
    BY StampTable DEF RowIsOneRun
  <1> QED
    BY <1>1, <1>2 DEF Reached, Status

\* A command whose dispatched_at is set has been DISPATCHED.
LEMMA DispatchedReached ==
  ASSUME TypeOK, RowIsOneRun, NEW c \in Commands, "dispatched_at" \in stamps[c]
  PROVE  Exists(c) /\ "DISPATCHED" \in Reached(c)
  BY StampTable DEF TypeOK, RowIsOneRun, Exists, Reached

\* A step tells nothing, or writes no row and tells statuses already reached.
TellsReached ==
    \/ UNCHANGED told
    \/ /\ UNCHANGED rows
       /\ \E c \in Commands, S \in SUBSET Status : S \subseteq Reached(c) /\ Tell(c, S)

\* Every broadcast and every 200 is about a status the row has reached.
LEMMA NextTells ==
  ASSUME IInv, Next
  PROVE  TellsReached
  <1>0. TypeOK /\ RowIsOneRun
    BY DEF IInv
  <1>a. "PENDING" \in Status /\ "DISPATCHED" \in Status /\ "TIMEOUT" \in Status
    BY DEF Status, TerminalStates
  <1>1. ASSUME NEW p \in Creators, CreateAny(p)
        PROVE  TellsReached
    <2>1. CASE CreateBroadcast(p)
      <3>1. creating[p].cmd \in Commands /\ Exists(creating[p].cmd)
        BY <2>1 DEF CreateBroadcast, IInv, CreateInv
      <3>2. {"PENDING"} \subseteq Reached(creating[p].cmd)
        BY <1>0, <3>1, StatusReached
      <3> QED
        BY <1>a, <2>1, <3>1, <3>2 DEF CreateBroadcast, TellsReached
    <2>2. CASE ~CreateBroadcast(p)
      BY <1>1, <2>2 DEF CreateAny, CreateStep, CreateBegin, CreateCommit, CreateRecover,
                        CreateAbort, TellsReached, outside
    <2> QED
      BY <2>1, <2>2
  <1>2. ASSUME NEW h \in Claimers, ClaimAny(h)
        PROVE  TellsReached
    <2>1. CASE ClaimBroadcast(h)
      <3>1. claiming[h].cmd \in Commands /\ "dispatched_at" \in stamps[claiming[h].cmd]
        BY <2>1 DEF ClaimBroadcast, IInv, ClaimInv
      <3>2. {"DISPATCHED"} \subseteq Reached(claiming[h].cmd)
        BY <1>0, <3>1, DispatchedReached
      <3> QED
        BY <1>a, <2>1, <3>1, <3>2 DEF ClaimBroadcast, TellsReached
    <2>2. CASE ~ClaimBroadcast(h)
      BY <1>2, <2>2 DEF ClaimAny, ClaimStep, ClaimBegin, ClaimSelect, ClaimDispatch,
                        ClaimRespond, ClaimAbort, TellsReached, outside
    <2> QED
      BY <2>1, <2>2
  <1>3. ASSUME NEW p \in Patchers, PatchAny(p)
        PROVE  TellsReached
    <2>1. ASSUME NEW c \in Commands, NEW s \in Status, PatchRead(p, c, s)
          PROVE  TellsReached
      <3>1. status[c] \in Reached(c)
        BY <1>0, <2>1, StatusReached DEF PatchRead
      <3> QED
        BY <2>1, <3>1 DEF PatchRead, TellsReached
    <2>2. CASE PatchConflict(p)
      <3>1. patching[p].cmd \in Commands /\ Exists(patching[p].cmd) /\ patching[p].new \in Status
        BY <1>0, <2>2 DEF PatchConflict, IInv, PatchInv, TypeOK, PatchState
      <3>2. status[patching[p].cmd] \in Reached(patching[p].cmd)
        BY <1>0, <3>1, StatusReached
      <3> QED
        BY <2>2, <3>1, <3>2 DEF PatchConflict, TellsReached
    <2>3. CASE PatchBroadcast(p)
      <3>1. /\ patching[p].cmd \in Commands
            /\ {patching[p].seen, patching[p].new} \subseteq Reached(patching[p].cmd)
        BY <2>3 DEF PatchBroadcast, IInv, PatchInv
      <3>2. {patching[p].seen, patching[p].new} \subseteq Status
        BY <1>0 DEF TypeOK, PatchState
      <3> QED
        BY <2>3, <3>1, <3>2 DEF PatchBroadcast, TellsReached
    <2>4. CASE PatchCas(p) \/ PatchReread(p) \/ PatchAbort(p)
      BY <2>4 DEF PatchCas, PatchReread, PatchAbort, TellsReached, outside
    <2> QED
      BY <1>3, <2>1, <2>2, <2>3, <2>4 DEF PatchAny, PatchStep
  <1>4. ASSUME NEW s \in Scanners, ScanAny(s)
        PROVE  TellsReached
    <2>1. ASSUME NEW c \in Commands, ScanBroadcast(s, c)
          PROVE  TellsReached
      <3>1. status[c] = "TIMEOUT"
        BY <2>1 DEF ScanBroadcast, IInv, ScanInv
      <3>2. {"TIMEOUT"} \subseteq Reached(c)
        BY <1>0, <3>1, StatusReached DEF Exists, Absent
      <3> QED
        BY <1>a, <2>1, <3>2 DEF ScanBroadcast, TellsReached
    <2>2. CASE \A c \in Commands : ~ScanBroadcast(s, c)
      BY <1>4, <2>2 DEF ScanAny, ScanStep, ScanLock, ScanSelect, ScanUpdate, ScanCommit,
                        ScanUnlock, ScanDeadlockAbort, ScanFail, ScanCrash, ScanRollback,
                        TellsReached, outside
    <2> QED
      BY <2>1, <2>2
  <1>5. ASSUME EnvAny
        PROVE  TellsReached
    BY <1>5, EnvFrame DEF TellsReached, outside
  <1> QED
    BY <1>1, <1>2, <1>3, <1>4, <1>5, NextSplit

\* Every step keeps ToldOnlyDurable: what is told was reached, and stays so.
LEMMA NextTold ==
  ASSUME IInv, Next
  PROVE  ToldOnlyDurable'
  <1> SUFFICES ASSUME NEW c \in Commands
               PROVE  told'[c] \subseteq Reached(c)'
    BY DEF ToldOnlyDurable
  <1>1. told'[c] \subseteq told[c] \cup Reached(c)
    <2>1. told \in [Commands -> SUBSET Status]
      BY DEF IInv, TypeOK
    <2>2. ASSUME NEW d \in Commands, NEW S \in SUBSET Status,
                 S \subseteq Reached(d), told' = [told EXCEPT ![d] = @ \cup S]
          PROVE  told'[c] \subseteq told[c] \cup Reached(c)
      <3>1. told'[c] = IF c = d THEN told[c] \cup S ELSE told[c]
        BY <2>1, <2>2
      <3> QED
        BY <2>2, <3>1
    <2> QED
      BY <2>2, NextTells DEF TellsReached, Tell
  <1>2. told[c] \subseteq Reached(c) /\ Reached(c) \subseteq Reached(c)'
    BY NextRows DEF RowsGrow, IInv, ToldOnlyDurable
  <1> QED
    BY <1>1, <1>2

-----------------------------------------------------------------------------
(* At-most-once dispatch. *)

\* While no claim handler moves, dispatched_at stays set and the lists stay.
LEMMA ExclusiveKept ==
  ASSUME IInv, RowsGrow, UNCHANGED <<claimed, delivered>>
  PROVE  ExclusiveClaim'
  <1>1. \A h \in Claimers : \A i \in 1..Len(claimed[h]) : claimed[h][i] \in Commands
    BY DEF IInv, TypeOK
  <1>2. \A h \in Claimers : Claimed(h)' = Claimed(h)
    BY DEF Claimed
  <1> QED
    BY <1>1, <1>2 DEF IInv, ExclusiveClaim, RowsGrow

\* try_dispatch wins only on a PENDING row, whose dispatched_at is not set: the
\* row is in no handler's list and in no response.
LEMMA ExclusiveDispatch ==
  ASSUME IInv, RowsGrow, NEW h \in Claimers, ClaimDispatch(h)
  PROVE  ExclusiveClaim'
  <1> DEFINE c == claiming[h].cmd
  <1>1. CASE status[c] # "PENDING"
    <2>1. UNCHANGED <<claimed, delivered>>
      BY <1>1 DEF ClaimDispatch, outside
    <2> QED
      BY <2>1, ExclusiveKept
  <1>2. CASE status[c] = "PENDING"
    <2>1. c \in Commands
      BY DEF ClaimDispatch, IInv, ClaimInv
    <2>2. /\ claimed' = [claimed EXCEPT ![h] = Append(@, c)]
          /\ stamps' = [stamps EXCEPT ![c] = @ \cup TransitionStamps("DISPATCHED")]
          /\ UNCHANGED delivered
      BY <1>2 DEF ClaimDispatch, SetStatus, outside
    <2>3. stamps[c] = {}
      BY <1>2, <2>1 DEF IInv, RowIsOneRun
    <2>4. claimed \in [Claimers -> Seq(Commands)]
      BY DEF IInv, TypeOK
    <2>5. c \notin delivered
      BY <2>3 DEF IInv, ClaimInv
    <2>6. \A g \in Claimers : \A i \in 1..Len(claimed[g]) :
             claimed[g][i] \in Commands /\ claimed[g][i] # c
      BY <2>3, <2>4 DEF IInv, ExclusiveClaim
    <2>7. "dispatched_at" \in stamps'[c]
      BY <2>1, <2>2, StampTable DEF IInv, TypeOK
    <2>8. /\ Len(claimed'[h]) = Len(claimed[h]) + 1
          /\ \A i \in 1..Len(claimed[h]) : claimed'[h][i] = claimed[h][i]
          /\ claimed'[h][Len(claimed[h]) + 1] = c
          /\ \A g \in Claimers \ {h} : claimed'[g] = claimed[g]
          /\ Len(claimed[h]) \in Nat
      BY <2>1, <2>2, <2>4
    <2>9. \A g \in Claimers \ {h} : Claimed(g)' = Claimed(g) /\ c \notin Claimed(g)
      BY <2>6, <2>8 DEF Claimed
    <2>10. \A d \in Claimed(h)' : d = c \/ d \in Claimed(h)
      <3>1. SUFFICES ASSUME NEW k \in 1..Len(claimed'[h])
                     PROVE  claimed'[h][k] = c \/ claimed'[h][k] \in Claimed(h)
        BY DEF Claimed
      <3>2. k \in 1..Len(claimed[h]) \/ k = Len(claimed[h]) + 1
        BY <2>8
      <3>3. ASSUME k \in 1..Len(claimed[h])
            PROVE  claimed'[h][k] \in Claimed(h)
        <4>1. claimed'[h][k] = claimed[h][k]
          BY <2>8, <3>3
        <4> QED
          BY <3>3, <4>1 DEF Claimed
      <3> QED
        BY <2>8, <3>2, <3>3
    <2> SUFFICES ASSUME NEW g \in Claimers, NEW i \in 1..Len(claimed'[g])
                 PROVE  /\ "dispatched_at" \in stamps'[claimed'[g][i]]
                        /\ claimed'[g][i] \notin delivered'
                        /\ \A f \in Claimers \ {g} : claimed'[g][i] \notin Claimed(f)'
                        /\ \A j \in 1..Len(claimed'[g]) :
                              claimed'[g][j] = claimed'[g][i] => i = j
      BY DEF ExclusiveClaim
    <2>11. CASE g # h
      <3>1. claimed'[g] = claimed[g] /\ i \in 1..Len(claimed[g])
        BY <2>8, <2>11
      <3>2. /\ "dispatched_at" \in stamps[claimed[g][i]]
            /\ claimed[g][i] \notin delivered
            /\ \A f \in Claimers \ {g} : claimed[g][i] \notin Claimed(f)
            /\ \A j \in 1..Len(claimed[g]) : claimed[g][j] = claimed[g][i] => i = j
        BY <3>1 DEF IInv, ExclusiveClaim
      <3>3. \A f \in Claimers \ {g} : claimed[g][i] \notin Claimed(f)'
        BY <2>6, <2>9, <2>10, <3>1, <3>2
      <3> QED
        BY <2>2, <2>6, <3>1, <3>2, <3>3 DEF RowsGrow
    <2>12. CASE g = h /\ i \in 1..Len(claimed[h])
      <3>1. /\ "dispatched_at" \in stamps[claimed[h][i]]
            /\ claimed[h][i] \notin delivered
            /\ \A f \in Claimers \ {h} : claimed[h][i] \notin Claimed(f)
            /\ \A j \in 1..Len(claimed[h]) : claimed[h][j] = claimed[h][i] => i = j
        BY <2>12 DEF IInv, ExclusiveClaim
      <3> QED
        BY <2>2, <2>6, <2>8, <2>9, <2>12, <3>1 DEF RowsGrow
    <2>13. CASE g = h /\ i = Len(claimed[h]) + 1
      BY <2>2, <2>5, <2>6, <2>7, <2>8, <2>9, <2>13
    <2>14. g = h => i \in 1..Len(claimed[h]) \/ i = Len(claimed[h]) + 1
      BY <2>8
    <2> QED
      BY <2>11, <2>12, <2>13, <2>14
  <1> QED
    BY <1>1, <1>2

\* Handing out or dropping a list: its commands are in no other list.
LEMMA ExclusiveHandOut ==
  ASSUME IInv, NEW h \in Claimers, ClaimRespond(h) \/ ClaimAbort(h)
  PROVE  ExclusiveClaim'
  <1>1. /\ claimed' = [claimed EXCEPT ![h] = << >>]
        /\ delivered' \subseteq delivered \cup Claimed(h)
        /\ UNCHANGED stamps
    BY DEF ClaimRespond, ClaimAbort, rows, outside
  <1>2. /\ Len(claimed'[h]) = 0
        /\ \A g \in Claimers \ {h} : claimed'[g] = claimed[g]
    BY <1>1 DEF IInv, TypeOK
  <1>3. \A g \in Claimers : Claimed(g)' \subseteq Claimed(g)
    BY <1>2 DEF Claimed
  <1> SUFFICES ASSUME NEW g \in Claimers, NEW i \in 1..Len(claimed'[g])
               PROVE  /\ "dispatched_at" \in stamps'[claimed'[g][i]]
                      /\ claimed'[g][i] \notin delivered'
                      /\ \A f \in Claimers \ {g} : claimed'[g][i] \notin Claimed(f)'
                      /\ \A j \in 1..Len(claimed'[g]) :
                            claimed'[g][j] = claimed'[g][i] => i = j
    BY DEF ExclusiveClaim
  <1>4. g # h /\ claimed'[g] = claimed[g] /\ i \in 1..Len(claimed[g])
    BY <1>2
  <1>5. /\ "dispatched_at" \in stamps[claimed[g][i]]
        /\ claimed[g][i] \notin delivered
        /\ \A f \in Claimers \ {g} : claimed[g][i] \notin Claimed(f)
        /\ \A j \in 1..Len(claimed[g]) : claimed[g][j] = claimed[g][i] => i = j
    BY <1>4 DEF IInv, ExclusiveClaim
  <1> QED
    BY <1>1, <1>3, <1>4, <1>5

\* Every step keeps claims exclusive.
LEMMA NextExclusive ==
  ASSUME IInv, Next
  PROVE  ExclusiveClaim'
  <1>1. RowsGrow
    BY NextRows
  <1>2. ASSUME NEW h \in Claimers, ClaimAny(h)
        PROVE  ExclusiveClaim'
    <2>1. CASE ClaimDispatch(h)
      BY <1>1, <2>1, ExclusiveDispatch
    <2>2. CASE ClaimRespond(h) \/ ClaimAbort(h)
      BY <2>2, ExclusiveHandOut
    <2>3. CASE (\E r \in Robots : ClaimBegin(h, r)) \/ ClaimSelect(h) \/ ClaimBroadcast(h)
      <3>1. UNCHANGED <<claimed, delivered>>
        BY <2>3 DEF ClaimBegin, ClaimSelect, ClaimBroadcast, outside
      <3> QED
        BY <1>1, <3>1, ExclusiveKept
    <2> QED
      BY <1>2, <2>1, <2>2, <2>3 DEF ClaimAny, ClaimStep
  <1>3. ASSUME ~(\E h \in Claimers : ClaimAny(h))
        PROVE  UNCHANGED <<claimed, delivered>>
    BY <1>3, NextSplit, CreateFrame, PatchFrame, ScanFrame, EnvFrame
    DEF claims, outside, handlers
  <1> QED
    BY <1>1, <1>2, <1>3, ExclusiveKept

-----------------------------------------------------------------------------
(* Idempotent creation. *)

\* Only create_command inserts rows.
LEMMA OthersInsertNothing ==
  ASSUME IInv, Next, ~(\E p \in Creators : CreateAny(p))
  PROVE  /\ \A c \in Commands : Exists(c)' <=> Exists(c)
         /\ UNCHANGED <<nextId, robotOf, keyOf, reply, creating>>
  <1>0. status \in [Commands -> Status \cup {Absent}]
    BY DEF IInv, TypeOK
  <1>1. ASSUME NEW h \in Claimers, ClaimAny(h)
        PROVE  \A c \in Commands : Exists(c)' <=> Exists(c)
    <2>1. CASE ClaimDispatch(h)
      BY <1>0, <2>1 DEF ClaimDispatch, SetStatus, Exists, Absent, rows
    <2>2. CASE ~ClaimDispatch(h)
      BY <1>1, <2>2 DEF ClaimAny, ClaimStep, ClaimBegin, ClaimSelect, ClaimBroadcast,
                        ClaimRespond, ClaimAbort, Exists, rows
    <2> QED
      BY <2>1, <2>2
  <1>2. ASSUME NEW p \in Patchers, PatchAny(p)
        PROVE  \A c \in Commands : Exists(c)' <=> Exists(c)
    <2>1. CASE PatchCas(p)
      <3>1. Exists(patching[p].cmd) /\ patching[p].new \in Status
        BY <2>1 DEF PatchCas, IInv, PatchInv, TypeOK, PatchState
      <3> QED
        BY <1>0, <2>1, <3>1 DEF PatchCas, SetStatus, Exists, Absent, Status, TerminalStates, rows
    <2>2. CASE ~PatchCas(p)
      BY <1>2, <2>2 DEF PatchAny, PatchStep, PatchRead, PatchConflict, PatchReread,
                        PatchBroadcast, PatchAbort, Exists, rows
    <2> QED
      BY <2>1, <2>2
  <1>3. ASSUME NEW s \in Scanners, ScanAny(s)
        PROVE  \A c \in Commands : Exists(c)' <=> Exists(c)
    <2>1. CASE ScanCommit(s)
      <3>1. \A c \in scanning[s].hit : Exists(c)
        <4>1. scanning[s].hit \in SUBSET Commands
          BY DEF IInv, TypeOK, ScanState
        <4>2. \A c \in scanning[s].hit : rowLock[c] = s
          BY <2>1, <4>1 DEF ScanCommit, IInv, ScanInv
        <4> QED
          BY <4>1, <4>2, NoneAssumption
          DEF IInv, ScanInv, Exists, Absent, Status, TerminalStates
      <3> QED
        BY <1>0, <2>1, <3>1 DEF ScanCommit, Exists, Absent
    <2>2. CASE ~ScanCommit(s)
      BY <1>3, <2>2 DEF ScanAny, ScanStep, ScanLock, ScanSelect, ScanUpdate, ScanBroadcast,
                        ScanUnlock, ScanDeadlockAbort, ScanFail, ScanCrash, ScanRollback,
                        Exists, rows
    <2> QED
      BY <2>1, <2>2
  <1>4. ASSUME EnvAny
        PROVE  \A c \in Commands : Exists(c)' <=> Exists(c)
    BY <1>4, EnvFrame DEF Exists, rows
  <1>5. \A c \in Commands : Exists(c)' <=> Exists(c)
    BY <1>1, <1>2, <1>3, <1>4, NextSplit
  <1>6. UNCHANGED <<nextId, robotOf, keyOf, reply, creating>>
    BY NextSplit, ClaimFrame, PatchFrame, ScanFrame, EnvFrame DEF requests, outside, handlers
  <1> QED
    BY <1>5, <1>6

CreationInv == CreateInv /\ KeyInv /\ ReplyInv

\* A step that inserts nothing keeps the creation invariants.
LEMMA CreationKept ==
  ASSUME CreationInv,
         \A c \in Commands : Exists(c)' <=> Exists(c),
         UNCHANGED <<nextId, robotOf, keyOf, reply, creating>>
  PROVE  CreationInv'
  <1>1. \A c \in Commands : Colliding(c)' = Colliding(c)
    BY DEF Colliding
  <1>2. CreateInv'
    BY <1>1 DEF CreationInv, CreateInv
  <1>3. KeyInv'
    BY DEF CreationInv, KeyInv
  <1>4. ReplyInv'
    BY DEF CreationInv, ReplyInv
  <1> QED
    BY <1>2, <1>3, <1>4 DEF CreationInv

\* A new request gets an id no row, reply or other request has.
LEMMA CreationBegin ==
  ASSUME IInv, NEW p \in Creators, NEW r \in Robots, NEW k \in Keys \cup {NoKey},
         NEW d \in Deadlines, CreateBegin(p, r, k, d)
  PROVE  CreationInv'
  <1>0. /\ nextId \in Commands /\ nextId' = nextId + 1 /\ nextId \in Nat
        /\ \A c \in Commands : c \in Nat
    BY MaxCommandAssumption DEF CreateBegin, IInv, TypeOK, Commands
  <1>1. /\ creating' = [creating EXCEPT ![p] = [pc |-> "commit", cmd |-> nextId]]
        /\ robotOf' = [robotOf EXCEPT ![nextId] = r]
        /\ keyOf' = [keyOf EXCEPT ![nextId] = k]
        /\ UNCHANGED <<status, stamps, reply>>
    BY DEF CreateBegin, rows, outside
  <1>2. \A c \in Commands : Exists(c)' <=> Exists(c)
    BY <1>1 DEF Exists
  <1>3. ~Exists(nextId) /\ reply[nextId] = Unanswered
    BY <1>0 DEF IInv, CreateInv
  <1>4. \A c \in Commands \ {nextId} : robotOf'[c] = robotOf[c] /\ keyOf'[c] = keyOf[c]
    BY <1>0, <1>1 DEF IInv, TypeOK
  <1>5. \A c \in Commands \ {nextId} : Colliding(c)' = Colliding(c)
    BY <1>2, <1>3, <1>4 DEF Colliding
  <1>6. /\ creating'[p] = [pc |-> "commit", cmd |-> nextId]
        /\ \A q \in Creators \ {p} : creating'[q] = creating[q]
    BY <1>1 DEF IInv, TypeOK
  <1>7. CreateInv'
    <2>0. \A q \in Creators \ {p} : creating[q].pc # "idle" =>
             /\ creating[q].cmd \in Commands
             /\ creating[q].cmd < nextId
             /\ reply[creating[q].cmd] = Unanswered
             /\ creating[q].pc = "commit" => ~Exists(creating[q].cmd)
             /\ creating[q].pc = "broadcast" => Exists(creating[q].cmd)
             /\ creating[q].pc = "recover" => Colliding(creating[q].cmd) # {}
      BY DEF IInv, CreateInv
    <2>1. \A q \in Creators \ {p} : creating[q].pc # "idle" =>
             /\ creating[q].cmd \in Commands \ {nextId}
             /\ creating[q].cmd < nextId'
      <3> SUFFICES ASSUME NEW q \in Creators \ {p}, creating[q].pc # "idle"
                   PROVE  creating[q].cmd \in Commands \ {nextId} /\ creating[q].cmd < nextId'
        OBVIOUS
      <3>1. creating[q].cmd \in Commands /\ creating[q].cmd \in Nat /\ creating[q].cmd < nextId
        BY <1>0, <2>0
      <3> QED
        BY <1>0, <3>1
    <2>2. \A q \in Creators : (creating[q].pc # "idle" =>
             /\ creating[q].cmd \in Commands
             /\ creating[q].cmd < nextId
             /\ reply[creating[q].cmd] = Unanswered
             /\ creating[q].pc = "commit" => ~Exists(creating[q].cmd)
             /\ creating[q].pc = "broadcast" => Exists(creating[q].cmd)
             /\ creating[q].pc = "recover" => Colliding(creating[q].cmd) # {})'
      <3> SUFFICES ASSUME NEW q \in Creators, creating'[q].pc # "idle"
                   PROVE  (/\ creating[q].cmd \in Commands
                           /\ creating[q].cmd < nextId
                           /\ reply[creating[q].cmd] = Unanswered
                           /\ creating[q].pc = "commit" => ~Exists(creating[q].cmd)
                           /\ creating[q].pc = "broadcast" => Exists(creating[q].cmd)
                           /\ creating[q].pc = "recover" => Colliding(creating[q].cmd) # {})'
        OBVIOUS
      <3>1. CASE q = p
        BY <1>0, <1>1, <1>2, <1>3, <1>6, <3>1
      <3>2. CASE q # p
        BY <1>1, <1>2, <1>5, <1>6, <2>0, <2>1, <3>2
      <3> QED
        BY <3>1, <3>2
    <2>3. \A q, o \in Creators :
             (q # o /\ creating'[q].pc # "idle" /\ creating'[o].pc # "idle")
                 => creating'[q].cmd # creating'[o].cmd
      BY <1>6, <2>1 DEF IInv, CreateInv
    <2>4. \A c \in Commands : c >= nextId' => ~Exists(c) /\ reply'[c] = Unanswered
      BY <1>0, <1>1 DEF IInv, CreateInv
    <2> QED
      BY <1>2, <2>2, <2>3, <2>4 DEF CreateInv
  <1>8. KeyInv'
    BY <1>2, <1>3, <1>4 DEF IInv, KeyInv
  <1>9. ReplyInv'
    <2>1. \A c \in Commands : reply[c] # Unanswered =>
             /\ c # nextId
             /\ reply[c] \in Commands \ {nextId}
             /\ Exists(reply[c])
             /\ robotOf[reply[c]] = robotOf[c]
             /\ keyOf[reply[c]] = keyOf[c]
      BY <1>3 DEF IInv, ReplyInv
    <2> QED
      BY <1>1, <1>2, <1>4, <2>1 DEF ReplyInv
  <1> QED
    BY <1>7, <1>8, <1>9 DEF CreationInv

\* INSERT and COMMIT happen only when no stored row has the robot and key.
LEMMA CreationCommit ==
  ASSUME IInv, NEW p \in Creators, CreateCommit(p)
  PROVE  CreationInv'
  <1> DEFINE c == creating[p].cmd
  <1>a. CreationInv
    BY DEF IInv, CreationInv
  <1>0. c \in Commands /\ ~Exists(c) /\ c < nextId /\ creating[p].pc = "commit"
    BY DEF CreateCommit, IInv, CreateInv
  <1>1. UNCHANGED <<nextId, robotOf, keyOf, reply>>
    BY DEF CreateCommit, requests, outside
  <1>2. status \in [Commands -> Status \cup {Absent}] /\ creating \in [Creators -> CreateState]
    BY DEF IInv, TypeOK
  <1>3. CASE Colliding(c) = {}
    <2>1. /\ creating' = [creating EXCEPT ![p].pc = "broadcast"]
          /\ status' = [status EXCEPT ![c] = "PENDING"]
      BY <1>3 DEF CreateCommit, SetStatus
    <2>2. \A d \in Commands : Exists(d)' <=> (d = c \/ Exists(d))
      BY <1>0, <1>2, <2>1 DEF Exists, Absent
    <2>3. /\ creating'[p].pc = "broadcast" /\ creating'[p].cmd = c
          /\ \A q \in Creators \ {p} : creating'[q] = creating[q]
      BY <1>2, <2>1 DEF CreateState
    <2>4. \A d \in Commands : Exists(d) => Exists(d)'
      BY <2>2
    <2>4a. \A d \in Commands : Colliding(d) \subseteq Colliding(d)'
      BY <1>1, <2>4 DEF Colliding
    <2>5. \A q \in Creators : (creating[q].pc # "idle" =>
             /\ creating[q].cmd \in Commands
             /\ creating[q].cmd < nextId
             /\ reply[creating[q].cmd] = Unanswered
             /\ creating[q].pc = "commit" => ~Exists(creating[q].cmd)
             /\ creating[q].pc = "broadcast" => Exists(creating[q].cmd)
             /\ creating[q].pc = "recover" => Colliding(creating[q].cmd) # {})'
      <3> SUFFICES ASSUME NEW q \in Creators, creating'[q].pc # "idle"
                   PROVE  (/\ creating[q].cmd \in Commands
                           /\ creating[q].cmd < nextId
                           /\ reply[creating[q].cmd] = Unanswered
                           /\ creating[q].pc = "commit" => ~Exists(creating[q].cmd)
                           /\ creating[q].pc = "broadcast" => Exists(creating[q].cmd)
                           /\ creating[q].pc = "recover" => Colliding(creating[q].cmd) # {})'
        OBVIOUS
      <3>1. CASE q = p
        BY <1>a, <1>0, <1>1, <2>2, <2>3, <3>1 DEF CreationInv, CreateInv
      <3>2. CASE q # p
        <4>1. /\ creating[q].cmd \in Commands \ {c}
              /\ creating[q].cmd < nextId
              /\ reply[creating[q].cmd] = Unanswered
              /\ creating[q].pc = "commit" => ~Exists(creating[q].cmd)
              /\ creating[q].pc = "broadcast" => Exists(creating[q].cmd)
              /\ creating[q].pc = "recover" => Colliding(creating[q].cmd) # {}
          BY <1>a, <1>0, <2>3, <3>2 DEF CreationInv, CreateInv
        <4> QED
          BY <1>1, <2>2, <2>3, <2>4a, <3>2, <4>1
      <3> QED
        BY <3>1, <3>2
    <2>6. \A q, o \in Creators :
             (q # o /\ creating'[q].pc # "idle" /\ creating'[o].pc # "idle")
                 => creating'[q].cmd # creating'[o].cmd
      BY <1>a, <1>0, <2>3 DEF CreationInv, CreateInv
    <2>7. \A d \in Commands : d >= nextId' => ~Exists(d)' /\ reply'[d] = Unanswered
      <3>1. nextId \in Nat /\ \A d \in Commands : d \in Nat
        BY MaxCommandAssumption DEF IInv, TypeOK, Commands
      <3> QED
        BY <1>a, <1>0, <1>1, <2>2, <3>1 DEF CreationInv, CreateInv
    <2>8. CreateInv'
      BY <2>5, <2>6, <2>7 DEF CreateInv
    <2>9. KeyInv'
      BY <1>a, <1>1, <1>3, <2>2 DEF CreationInv, KeyInv, Colliding
    <2>10. ReplyInv'
      BY <1>a, <1>1, <2>4 DEF CreationInv, ReplyInv
    <2> QED
      BY <2>8, <2>9, <2>10 DEF CreationInv
  <1>4. CASE Colliding(c) # {}
    <2>1. creating' = [creating EXCEPT ![p].pc = "recover"] /\ UNCHANGED status
      BY <1>4 DEF CreateCommit, rows
    <2>2. \A d \in Commands : (Exists(d)' <=> Exists(d)) /\ Colliding(d)' = Colliding(d)
      BY <1>1, <2>1 DEF Exists, Colliding
    <2>3. /\ creating'[p].pc = "recover" /\ creating'[p].cmd = c
          /\ \A q \in Creators \ {p} : creating'[q] = creating[q]
      BY <1>2, <2>1 DEF CreateState
    <2>4. CreateInv'
      BY <1>a, <1>0, <1>1, <1>4, <2>2, <2>3 DEF CreationInv, CreateInv
    <2>5. KeyInv' /\ ReplyInv'
      BY <1>a, <1>1, <2>2 DEF CreationInv, KeyInv, ReplyInv
    <2> QED
      BY <2>4, <2>5 DEF CreationInv
  <1> QED
    BY <1>3, <1>4

\* A request is answered with its own command, or with the stored one of its key.
LEMMA CreationAnswer ==
  ASSUME IInv, NEW p \in Creators,
         CreateBroadcast(p) \/ CreateRecover(p) \/ CreateAbort(p)
  PROVE  CreationInv'
  <1> DEFINE c == creating[p].cmd
  <1>a. CreationInv
    BY DEF IInv, CreationInv
  <1>0. c \in Commands /\ c < nextId /\ creating[p].pc # "idle"
    BY DEF CreateBroadcast, CreateRecover, CreateAbort, IInv, CreateInv
  <1>1. UNCHANGED <<nextId, robotOf, keyOf, status>>
    BY DEF CreateBroadcast, CreateRecover, CreateAbort, requests, rows
  <1>2. creating' = [creating EXCEPT ![p] = IdleCreate]
    BY DEF CreateBroadcast, CreateRecover, CreateAbort
  <1>3. /\ creating'[p].pc = "idle"
        /\ \A q \in Creators \ {p} : creating'[q] = creating[q]
    BY <1>2 DEF IInv, TypeOK, IdleCreate
  <1>4. \A d \in Commands : (Exists(d)' <=> Exists(d)) /\ Colliding(d)' = Colliding(d)
    BY <1>1 DEF Exists, Colliding
  <1>5. \E v \in Commands :
           \/ UNCHANGED reply
           \/ /\ reply' = [reply EXCEPT ![c] = v]
              /\ Exists(v) /\ robotOf[v] = robotOf[c] /\ keyOf[v] = keyOf[c]
    <2>1. CASE CreateBroadcast(p)
      BY <1>a, <1>0, <2>1 DEF CreateBroadcast, CreationInv, CreateInv
    <2>2. CASE CreateRecover(p)
      <3>1. Colliding(c) # {}
        BY <1>a, <1>0, <2>2 DEF CreateRecover, CreationInv, CreateInv
      <3>2. (CHOOSE d \in Colliding(c) : TRUE) \in Colliding(c)
        BY <3>1
      <3> QED
        BY <2>2, <3>1, <3>2 DEF CreateRecover, Colliding
    <2>3. CASE CreateAbort(p)
      BY <1>0, <2>3 DEF CreateAbort, outside
    <2> QED
      BY <2>1, <2>2, <2>3
  <1>6. \A d \in Commands \ {c} : reply'[d] = reply[d]
    BY <1>0, <1>5 DEF IInv, TypeOK
  <1>7. nextId \in Nat /\ \A d \in Commands : d \in Nat
    BY MaxCommandAssumption DEF IInv, TypeOK, Commands
  <1>8. CreateInv'
    BY <1>a, <1>0, <1>1, <1>3, <1>4, <1>6, <1>7 DEF CreationInv, CreateInv
  <1>9. KeyInv'
    BY <1>a, <1>1, <1>4 DEF CreationInv, KeyInv
  <1>10. ReplyInv'
    <2>1. reply \in [Commands -> 0..(MaxCommand + 1)]
      BY DEF IInv, TypeOK
    <2>2. PICK v \in Commands :
             \/ UNCHANGED reply
             \/ /\ reply' = [reply EXCEPT ![c] = v]
                /\ Exists(v) /\ robotOf[v] = robotOf[c] /\ keyOf[v] = keyOf[c]
      BY <1>5
    <2> QED
      BY <1>a, <1>0, <1>1, <1>4, <2>1, <2>2 DEF CreationInv, ReplyInv
  <1> QED
    BY <1>8, <1>9, <1>10 DEF CreationInv

\* Every step keeps the creation invariants.
LEMMA NextCreation ==
  ASSUME IInv, Next
  PROVE  CreationInv'
  <1>1. ASSUME NEW p \in Creators, CreateAny(p)
        PROVE  CreationInv'
    BY <1>1, CreationBegin, CreationCommit, CreationAnswer DEF CreateAny, CreateStep
  <1>2. ASSUME ~(\E p \in Creators : CreateAny(p))
        PROVE  CreationInv'
    <2>1. CreationInv
      BY DEF IInv, CreationInv
    <2> QED
      BY <1>2, <2>1, OthersInsertNothing, CreationKept
  <1> QED
    BY <1>1, <1>2

-----------------------------------------------------------------------------
(* What the handlers know between their steps. *)

\* Every step keeps what the claim handlers know.
LEMMA NextClaim ==
  ASSUME IInv, Next
  PROVE  ClaimInv'
  <1>0. TypeOK /\ RowIsOneRun /\ ClaimInv /\ RowsGrow
    BY NextRows DEF IInv
  <1>1. ASSUME UNCHANGED <<claiming, delivered>>
        PROVE  ClaimInv'
    BY <1>0, <1>1 DEF ClaimInv, RowsGrow, TypeOK
  <1>2. ASSUME NEW h \in Claimers, ClaimAny(h)
        PROVE  ClaimInv'
    <2>1. ASSUME NEW r \in Robots, ClaimBegin(h, r)
          PROVE  ClaimInv'
      <3>1. /\ claiming'[h].pc = "select"
            /\ \A g \in Claimers \ {h} : claiming'[g] = claiming[g]
            /\ UNCHANGED <<status, stamps, delivered>>
        BY <1>0, <2>1 DEF ClaimBegin, TypeOK, rows, outside
      <3> QED
        BY <1>0, <3>1 DEF ClaimInv, Exists
    <2>2. CASE ClaimSelect(h)
      <3>0. claiming \in [Claimers -> ClaimState]
        BY <1>0 DEF TypeOK
      <3>1. /\ \/ claiming' = [claiming EXCEPT ![h].pc = "respond"]
               \/ \E c \in Commands :
                     /\ status[c] = "PENDING"
                     /\ claiming' = [claiming EXCEPT ![h].pc = "dispatch", ![h].cmd = c]
            /\ UNCHANGED <<status, stamps, delivered>>
        BY <2>2 DEF ClaimSelect, PendingOf, rows, outside
      <3>2. /\ claiming'[h].pc \in {"respond", "dispatch"}
            /\ claiming'[h].pc = "dispatch" =>
                  claiming'[h].cmd \in Commands /\ status[claiming'[h].cmd] = "PENDING"
            /\ \A g \in Claimers \ {h} : claiming'[g] = claiming[g]
        BY <3>0, <3>1 DEF ClaimState
      <3>3. claiming'[h].pc = "dispatch" => Exists(claiming[h].cmd)'
        BY <3>1, <3>2 DEF Exists, Absent
      <3> QED
        BY <1>0, <3>1, <3>2, <3>3 DEF ClaimInv, Exists
    <2>3. CASE ClaimDispatch(h)
      <3>0. claiming \in [Claimers -> ClaimState] /\ claiming[h].cmd \in Commands
        BY <1>0, <2>3 DEF TypeOK, ClaimDispatch, ClaimInv
      <3>1. /\ \/ claiming' = [claiming EXCEPT ![h].pc = "select"]
               \/ /\ claiming' = [claiming EXCEPT ![h].pc = "broadcast"]
                  /\ stamps' = [stamps EXCEPT ![claiming[h].cmd] =
                                   @ \cup TransitionStamps("DISPATCHED")]
            /\ UNCHANGED delivered
        BY <2>3 DEF ClaimDispatch, SetStatus, outside
      <3>2. /\ claiming'[h].pc \in {"select", "broadcast"}
            /\ claiming'[h].cmd = claiming[h].cmd
            /\ \A g \in Claimers \ {h} : claiming'[g] = claiming[g]
        BY <3>0, <3>1 DEF ClaimState
      <3>3. claiming'[h].pc = "broadcast" => "dispatched_at" \in stamps'[claiming[h].cmd]
        <4>1. CASE claiming' = [claiming EXCEPT ![h].pc = "select"]
          BY <3>0, <4>1 DEF ClaimState
        <4>2. CASE stamps' = [stamps EXCEPT ![claiming[h].cmd] =
                                 @ \cup TransitionStamps("DISPATCHED")]
          BY <1>0, <3>0, <4>2, StampTable DEF TypeOK
        <4> QED
          BY <3>1, <4>1, <4>2
      <3> QED
        BY <1>0, <3>0, <3>1, <3>2, <3>3 DEF ClaimInv, RowsGrow, TypeOK
    <2>4. CASE ClaimBroadcast(h)
      <3>0. claiming \in [Claimers -> ClaimState]
        BY <1>0 DEF TypeOK
      <3>1. /\ claiming' = [claiming EXCEPT ![h].pc = "select"]
            /\ UNCHANGED <<status, stamps, delivered>>
        BY <2>4 DEF ClaimBroadcast, rows
      <3>2. /\ claiming'[h].pc = "select"
            /\ \A g \in Claimers \ {h} : claiming'[g] = claiming[g]
        BY <3>0, <3>1 DEF ClaimState
      <3> QED
        BY <1>0, <3>1, <3>2 DEF ClaimInv, Exists
    <2>5. CASE ClaimRespond(h) \/ ClaimAbort(h)
      <3>1. /\ claiming' = [claiming EXCEPT ![h] = IdleClaim]
            /\ delivered' \subseteq delivered \cup Claimed(h)
            /\ UNCHANGED <<status, stamps>>
        BY <2>5 DEF ClaimRespond, ClaimAbort, rows, outside
      <3>2. /\ claiming'[h].pc = "idle"
            /\ \A g \in Claimers \ {h} : claiming'[g] = claiming[g]
        BY <1>0, <3>1 DEF TypeOK, IdleClaim
      <3>3. \A c \in Claimed(h) : "dispatched_at" \in stamps[c]
        BY DEF Claimed, IInv, ExclusiveClaim
      <3> QED
        BY <1>0, <3>1, <3>2, <3>3 DEF ClaimInv, Exists
    <2> QED
      BY <1>2, <2>1, <2>2, <2>3, <2>4, <2>5 DEF ClaimAny, ClaimStep
  <1>3. ASSUME ~(\E h \in Claimers : ClaimAny(h))
        PROVE  UNCHANGED <<claiming, delivered>>
    BY <1>3, NextSplit, CreateFrame, PatchFrame, ScanFrame, EnvFrame
    DEF claims, outside, handlers
  <1> QED
    BY <1>1, <1>2, <1>3

\* What a PATCH handler knows, for one handler.
PatchKnows(p) ==
    patching[p].pc # "idle" =>
        /\ patching[p].cmd \in Commands
        /\ Exists(patching[p].cmd)
        /\ patching[p].pc = "cas" => patching[p].new \in ValidTransitions(patching[p].seen)
        /\ patching[p].pc \in {"reread", "broadcast"} => patching[p].new \in Reached(patching[p].cmd)
        /\ patching[p].pc = "broadcast" => patching[p].seen \in Reached(patching[p].cmd)

\* Every step keeps what the PATCH handlers know.
LEMMA NextPatch ==
  ASSUME IInv, Next
  PROVE  PatchInv'
  <1>0. TypeOK /\ RowIsOneRun /\ RowsGrow /\ \A p \in Patchers : PatchKnows(p)
    BY NextRows DEF IInv, PatchInv, PatchKnows
  <1>a. patching \in [Patchers -> PatchState]
    BY <1>0 DEF TypeOK
  <1>b. TypeOK' /\ RowIsOneRun'
    BY <1>0, NextTyped, NextRows, RowsOneRun
  <1>1. ASSUME NEW q \in Patchers, patching'[q] = patching[q]
        PROVE  PatchKnows(q)'
    <2>1. PatchKnows(q)
      BY <1>0
    <2> QED
      BY <1>0, <1>1, <2>1 DEF PatchKnows, RowsGrow
  <1>2. ASSUME NEW p \in Patchers, PatchAny(p)
        PROVE  (\A q \in Patchers \ {p} : patching'[q] = patching[q]) /\ PatchKnows(p)'
    <2>1. ASSUME NEW c \in Commands, NEW s \in Status, PatchRead(p, c, s)
          PROVE  (\A q \in Patchers \ {p} : patching'[q] = patching[q]) /\ PatchKnows(p)'
      <3>1. \/ UNCHANGED patching
            \/ /\ patching' = [patching EXCEPT
                      ![p] = [pc |-> "cas", cmd |-> c, new |-> s, seen |-> status[c]]]
               /\ Exists(c) /\ UNCHANGED status
               /\ s \in ValidTransitions(status[c])
        BY <2>1 DEF PatchRead, rows
      <3>2. CASE UNCHANGED patching
        BY <1>1, <3>2
      <3>3. ASSUME patching' = [patching EXCEPT
                      ![p] = [pc |-> "cas", cmd |-> c, new |-> s, seen |-> status[c]]],
                   Exists(c), UNCHANGED status, s \in ValidTransitions(status[c])
            PROVE  (\A q \in Patchers \ {p} : patching'[q] = patching[q]) /\ PatchKnows(p)'
        <4>1. /\ patching'[p] = [pc |-> "cas", cmd |-> c, new |-> s, seen |-> status[c]]
              /\ \A q \in Patchers \ {p} : patching'[q] = patching[q]
          BY <1>a, <3>3
        <4> QED
          BY <3>3, <4>1 DEF PatchKnows, Exists
      <3> QED
        BY <3>1, <3>2, <3>3
    <2>2. CASE PatchCas(p)
      <3>0. /\ patching[p].cmd \in Commands /\ Exists(patching[p].cmd)
            /\ patching[p].new \in Status
        BY <1>0, <1>a, <2>2 DEF PatchCas, PatchKnows, PatchState
      <3>1. \/ /\ patching' = [patching EXCEPT ![p].pc = "reread"]
               /\ status' = [status EXCEPT ![patching[p].cmd] = patching[p].new]
            \/ patching' = [patching EXCEPT ![p].pc = "conflict"]
        BY <2>2 DEF PatchCas, SetStatus
      <3>2. /\ patching'[p].pc \in {"reread", "conflict"}
            /\ patching'[p].cmd = patching[p].cmd /\ patching'[p].new = patching[p].new
            /\ \A q \in Patchers \ {p} : patching'[q] = patching[q]
        BY <1>a, <3>1 DEF PatchState
      <3>3. Exists(patching[p].cmd)'
        BY <1>0, <3>0, <3>2 DEF RowsGrow
      <3>4. patching'[p].pc = "reread" => status'[patching[p].cmd] = patching[p].new
        <4>1. CASE patching' = [patching EXCEPT ![p].pc = "conflict"]
          BY <1>a, <4>1 DEF PatchState
        <4>2. CASE status' = [status EXCEPT ![patching[p].cmd] = patching[p].new]
          BY <1>0, <3>0, <4>2 DEF TypeOK
        <4> QED
          BY <3>1, <4>1, <4>2
      <3>5. patching'[p].pc = "reread" => patching'[p].new \in Reached(patching[p].cmd)'
        <4>1. \A c \in Commands : Exists(c)' => status'[c] \in Reached(c)'
          BY <1>b, StampTable
          DEF Reached, TypeOK, RowIsOneRun, Exists, Status
        <4> QED
          BY <3>0, <3>2, <3>3, <3>4, <4>1
      <3> QED
        BY <3>0, <3>2, <3>3, <3>5 DEF PatchKnows
    <2>3. CASE PatchReread(p)
      <3>0. /\ patching[p].cmd \in Commands /\ Exists(patching[p].cmd)
            /\ patching[p].new \in Reached(patching[p].cmd)
            /\ status[patching[p].cmd] \in Reached(patching[p].cmd)
        BY <1>0, <2>3, StatusReached DEF PatchReread, PatchKnows
      <3>1. /\ patching' = [patching EXCEPT ![p].pc = "broadcast",
                                            ![p].seen = status[patching[p].cmd]]
            /\ UNCHANGED <<status, stamps>>
        BY <2>3 DEF PatchReread, rows
      <3>2. /\ patching'[p].pc = "broadcast" /\ patching'[p].seen = status[patching[p].cmd]
            /\ patching'[p].cmd = patching[p].cmd /\ patching'[p].new = patching[p].new
            /\ \A q \in Patchers \ {p} : patching'[q] = patching[q]
        BY <1>a, <3>1 DEF PatchState
      <3> QED
        BY <1>0, <3>0, <3>2 DEF PatchKnows, RowsGrow
    <2>4. CASE PatchConflict(p) \/ PatchBroadcast(p) \/ PatchAbort(p)
      <3>1. patching' = [patching EXCEPT ![p] = IdlePatch]
        BY <2>4 DEF PatchConflict, PatchBroadcast, PatchAbort
      <3>2. /\ patching'[p].pc = "idle"
            /\ \A q \in Patchers \ {p} : patching'[q] = patching[q]
        BY <1>a, <3>1 DEF IdlePatch
      <3> QED
        BY <3>2 DEF PatchKnows
    <2> QED
      BY <1>2, <2>1, <2>2, <2>3, <2>4 DEF PatchAny, PatchStep
  <1>3. ASSUME ~(\E p \in Patchers : PatchAny(p))
        PROVE  UNCHANGED patching
    BY <1>3, NextSplit, CreateFrame, ClaimFrame, ScanFrame, EnvFrame DEF handlers
  <1>4. \A q \in Patchers : PatchKnows(q)'
    BY <1>1, <1>2, <1>3
  <1> QED
    BY <1>4 DEF PatchInv, PatchKnows

\* A final outcome is final.
LEMMA TerminalStays ==
  ASSUME TypeOK, RowChange
  PROVE  \A c \in Commands : status[c] \in TerminalStates => status'[c] = status[c]
  <1>1. CASE UNCHANGED rows
    BY <1>1 DEF rows
  <1>2. ASSUME NEW c \in Commands, NEW s \in Status, RowWrite(c, s)
        PROVE  \A d \in Commands : status[d] \in TerminalStates => status'[d] = status[d]
    <2>1. status[c] \notin TerminalStates
      BY <1>2, TransitionsTyped DEF RowWrite, TypeOK, Absent, TerminalStates
    <2> QED
      BY <1>2, <2>1 DEF RowWrite, SetStatus, TypeOK
  <1>3. ASSUME NEW S \in SUBSET Commands, RowExpire(S)
        PROVE  \A d \in Commands : status[d] \in TerminalStates => status'[d] = status[d]
    BY <1>3 DEF RowExpire
  <1> QED
    BY <1>1, <1>2, <1>3 DEF RowChange

LockIsHit(c, s) == rowLock[c] = s <=> (scanning[s].pc = "update" /\ c \in scanning[s].hit)

ScanKnows(s) ==
    /\ scanning[s].pc \in {"idle", "select"} => scanning[s].hit = {}
    /\ scanning[s].pc = "update" => \A c \in scanning[s].todo : Exists(c)
    /\ scanning[s].pc = "broadcast" => \A c \in scanning[s].hit : status[c] = "TIMEOUT"

\* ScanInv, taken apart.
LEMMA ScanInvParts ==
  ScanInv <=> /\ \A c \in Commands, s \in Scanners : LockIsHit(c, s)
              /\ \A c \in Commands : rowLock[c] # None => status[c] \in Status \ TerminalStates
              /\ \A s \in Scanners : ScanKnows(s)
  BY DEF ScanInv, LockIsHit, ScanKnows

\* What a scanner knows stays true while it does not move itself.
LEMMA ScanKnowsKept ==
  ASSUME IInv, Next, NEW s \in Scanners, scanning'[s] = scanning[s]
  PROVE  ScanKnows(s)'
  <1>1. TypeOK /\ RowChange /\ RowsGrow /\ ScanKnows(s)
    BY NextRows, ScanInvParts DEF IInv
  <1>2. scanning[s].todo \subseteq Commands /\ scanning[s].hit \subseteq Commands
    BY <1>1 DEF TypeOK, ScanState
  <1>3. \A c \in Commands : status[c] = "TIMEOUT" => status'[c] = "TIMEOUT"
    BY <1>1, TerminalStays DEF TerminalStates
  <1> QED
    BY <1>1, <1>2, <1>3 DEF ScanKnows, RowsGrow

\* Others write no locked row: try_dispatch and the PATCH wait for the lock, and
\* an INSERT makes a new row.
LEMMA LockedStaysLive ==
  ASSUME IInv, Next, ~(\E s \in Scanners : ScanAny(s))
  PROVE  \A c \in Commands : rowLock[c] # None => status'[c] \in Status \ TerminalStates
  <1>0. status \in [Commands -> Status \cup {Absent}]
    BY DEF IInv, TypeOK
  <1>a. \A c \in Commands : rowLock[c] # None => status[c] \in Status \ TerminalStates
    BY ScanInvParts DEF IInv
  <1>1. ASSUME NEW p \in Creators, CreateAny(p)
        PROVE  \A c \in Commands : status'[c] \in {status[c], "PENDING"}
    <2>1. CASE CreateCommit(p)
      BY <1>0, <2>1 DEF CreateCommit, SetStatus, rows
    <2>2. CASE ~CreateCommit(p)
      BY <1>1, <2>2 DEF CreateAny, CreateStep, CreateBegin, CreateBroadcast, CreateRecover,
                        CreateAbort, rows
    <2> QED
      BY <2>1, <2>2
  <1>2. ASSUME NEW h \in Claimers, ClaimAny(h)
        PROVE  \A c \in Commands : rowLock[c] # None => status'[c] = status[c]
    <2>1. CASE ClaimDispatch(h)
      BY <1>0, <2>1 DEF ClaimDispatch, SetStatus, rows
    <2>2. CASE ~ClaimDispatch(h)
      BY <1>2, <2>2 DEF ClaimAny, ClaimStep, ClaimBegin, ClaimSelect, ClaimBroadcast,
                        ClaimRespond, ClaimAbort, rows
    <2> QED
      BY <2>1, <2>2
  <1>3. ASSUME NEW p \in Patchers, PatchAny(p)
        PROVE  \A c \in Commands : rowLock[c] # None => status'[c] = status[c]
    <2>1. CASE PatchCas(p)
      BY <1>0, <2>1 DEF PatchCas, SetStatus, rows
    <2>2. CASE ~PatchCas(p)
      BY <1>3, <2>2 DEF PatchAny, PatchStep, PatchRead, PatchConflict, PatchReread,
                        PatchBroadcast, PatchAbort, rows
    <2> QED
      BY <2>1, <2>2
  <1>4. ASSUME EnvAny
        PROVE  \A c \in Commands : status'[c] = status[c]
    BY <1>4, EnvFrame DEF rows
  <1>5. \A c \in Commands : rowLock[c] # None => status'[c] \in {status[c], "PENDING"}
    BY <1>1, <1>2, <1>3, <1>4, NextSplit
  <1> QED
    BY <1>a, <1>5 DEF Status, TerminalStates

\* Every step keeps the row locks and what the scanners know.
LEMMA NextScan ==
  ASSUME IInv, Next
  PROVE  ScanInv'
  <1>0. /\ \A c \in Commands, s \in Scanners : LockIsHit(c, s)
        /\ \A c \in Commands : rowLock[c] # None => status[c] \in Status \ TerminalStates
        /\ \A s \in Scanners : ScanKnows(s)
    BY ScanInvParts DEF IInv
  <1>a. /\ scanning \in [Scanners -> ScanState]
        /\ rowLock \in [Commands -> Scanners \cup {None}]
        /\ status \in [Commands -> Status \cup {Absent}]
    BY DEF IInv, TypeOK
  <1>1. ASSUME ~(\E s \in Scanners : ScanAny(s))
        PROVE  ScanInv'
    <2>1. UNCHANGED <<rowLock, scanning>>
      BY <1>1, NextSplit, CreateFrame, ClaimFrame, PatchFrame, EnvFrame DEF locks, handlers
    <2>2. \A s \in Scanners : ScanKnows(s)'
      BY <2>1, ScanKnowsKept
    <2>3. \A c \in Commands, s \in Scanners : LockIsHit(c, s)'
      BY <1>0, <2>1 DEF LockIsHit
    <2>4. \A c \in Commands : rowLock'[c] # None => status'[c] \in Status \ TerminalStates
      BY <1>1, <2>1, LockedStaysLive
    <2> QED
      BY <2>2, <2>3, <2>4 DEF ScanInv, LockIsHit, ScanKnows
  <1>2. ASSUME NEW s \in Scanners, ScanAny(s)
        PROVE  ScanInv'
    <2> DEFINE Mine == /\ \A t \in Scanners \ {s} : scanning'[t] = scanning[t]
                       /\ ScanKnows(s)'
                       /\ \A c \in Commands : LockIsHit(c, s)'
                       /\ \A c \in Commands : \/ rowLock'[c] = rowLock[c]
                                              \/ {rowLock'[c], rowLock[c]} \subseteq {s, None}
                       /\ \A c \in Commands :
                             rowLock'[c] # None => status'[c] \in Status \ TerminalStates
    <2>1. ASSUME ScanLock(s) \/ ScanSelect(s) \/ ScanUnlock(s)
          PROVE  Mine
      <3>1. /\ \/ scanning' = [scanning EXCEPT ![s].pc = "select"]
               \/ scanning' = [scanning EXCEPT ![s].pc = "update",
                      ![s].todo = {c \in Commands : /\ deadline[c] = "past"
                                                    /\ Exists(c)
                                                    /\ status[c] \notin TerminalStates}]
               \/ scanning' = [scanning EXCEPT ![s] = IdleScan]
            /\ UNCHANGED <<rowLock, status>>
            /\ scanning[s].pc # "update"
            /\ scanning[s].hit = {}
        BY <1>0, <2>1 DEF ScanLock, ScanSelect, ScanUnlock, ScanKnows, rows, locks
      <3>2. /\ scanning'[s].hit = {} /\ scanning'[s].pc \in {"idle", "select", "update"}
            /\ scanning'[s].pc = "update" => \A c \in scanning'[s].todo : status[c] # Absent
            /\ \A t \in Scanners \ {s} : scanning'[t] = scanning[t]
        BY <1>a, <3>1 DEF ScanState, IdleScan, Exists
      <3>3. \A c \in Commands : rowLock[c] # s
        BY <1>0, <3>1 DEF LockIsHit
      <3> QED
        BY <1>0, <3>1, <3>2, <3>3 DEF LockIsHit, ScanKnows, Exists
    <2>2. ASSUME NEW c \in Commands, ScanUpdate(s, c)
          PROVE  Mine
      <3>0. /\ scanning[s].pc = "update" /\ rowLock[c] = None /\ UNCHANGED status
            /\ \A d \in scanning[s].todo : Exists(d)
            /\ c \in scanning[s].todo
        BY <1>0, <2>2 DEF ScanUpdate, ScanKnows, rows
      <3>1. CASE status[c] \notin TerminalStates
        <4>1. /\ rowLock' = [rowLock EXCEPT ![c] = s]
              /\ scanning' = [scanning EXCEPT ![s].todo = @ \ {c}, ![s].hit = @ \cup {c}]
          BY <2>2, <3>1 DEF ScanUpdate
        <4>2. /\ scanning'[s].pc = "update"
              /\ scanning'[s].todo = scanning[s].todo \ {c}
              /\ scanning'[s].hit = scanning[s].hit \cup {c}
              /\ \A t \in Scanners \ {s} : scanning'[t] = scanning[t]
          BY <1>a, <3>0, <4>1 DEF ScanState
        <4>3. rowLock'[c] = s /\ \A d \in Commands \ {c} : rowLock'[d] = rowLock[d]
          BY <1>a, <4>1
        <4>4. ScanKnows(s)'
          BY <3>0, <4>2 DEF ScanKnows, Exists
        <4>5. \A d \in Commands : LockIsHit(d, s)'
          BY <1>0, <3>0, <4>2, <4>3 DEF LockIsHit
        <4>6. status[c] \in Status \ TerminalStates
          BY <1>a, <3>0, <3>1 DEF Exists
        <4> QED
          BY <1>0, <3>0, <4>2, <4>3, <4>4, <4>5, <4>6
      <3>2. CASE status[c] \in TerminalStates
        <4>1. UNCHANGED rowLock /\ scanning' = [scanning EXCEPT ![s].todo = @ \ {c}]
          BY <2>2, <3>2 DEF ScanUpdate
        <4>2. /\ scanning'[s].pc = "update"
              /\ scanning'[s].todo = scanning[s].todo \ {c}
              /\ scanning'[s].hit = scanning[s].hit
              /\ \A t \in Scanners \ {s} : scanning'[t] = scanning[t]
          BY <1>a, <3>0, <4>1 DEF ScanState
        <4>3. ScanKnows(s)'
          BY <3>0, <4>2 DEF ScanKnows, Exists
        <4>4. \A d \in Commands : LockIsHit(d, s)'
          BY <1>0, <3>0, <4>1, <4>2 DEF LockIsHit
        <4> QED
          BY <1>0, <3>0, <4>1, <4>2, <4>3, <4>4
      <3> QED
        BY <3>1, <3>2
    <2>3. ASSUME NEW c \in Commands, ScanBroadcast(s, c)
          PROVE  Mine
      <3>1. /\ scanning[s].pc = "broadcast"
            /\ scanning' = [scanning EXCEPT ![s].hit = @ \ {c}]
            /\ UNCHANGED <<rowLock, status>>
        BY <2>3 DEF ScanBroadcast, rows, locks
      <3>2. /\ scanning'[s].pc = "broadcast" /\ scanning'[s].hit = scanning[s].hit \ {c}
            /\ \A t \in Scanners \ {s} : scanning'[t] = scanning[t]
        BY <1>a, <3>1 DEF ScanState
      <3> QED
        BY <1>0, <3>1, <3>2 DEF LockIsHit, ScanKnows
    <2>4. ASSUME ScanCommit(s)
          PROVE  Mine
      <3>1. /\ scanning[s].pc = "update"
            /\ status' = [c \in Commands |-> IF c \in scanning[s].hit THEN "TIMEOUT" ELSE status[c]]
            /\ rowLock' = Unlocked(s)
            /\ scanning' = [scanning EXCEPT ![s].pc = "broadcast"]
        BY <2>4 DEF ScanCommit
      <3>2. /\ scanning'[s].pc = "broadcast" /\ scanning'[s].hit = scanning[s].hit
            /\ \A t \in Scanners \ {s} : scanning'[t] = scanning[t]
        BY <1>a, <3>1 DEF ScanState
      <3>3. scanning[s].hit \subseteq Commands
        BY <1>a DEF ScanState
      <3>4. ScanKnows(s)'
        BY <3>1, <3>2, <3>3 DEF ScanKnows
      <3>5. \A c \in Commands : rowLock'[c] # s /\ (rowLock[c] # s => rowLock'[c] = rowLock[c])
        BY <1>a, <3>1, NoneAssumption DEF Unlocked
      <3>6. \A c \in Commands : rowLock[c] = s => rowLock'[c] = None
        BY <1>a, <3>1 DEF Unlocked
      <3>7. \A c \in Commands : LockIsHit(c, s)'
        BY <3>2, <3>5 DEF LockIsHit
      <3>8. \A c \in Commands : rowLock'[c] # None => status'[c] = status[c]
        BY <1>0, <3>1, <3>5, <3>6 DEF LockIsHit
      <3> QED
        BY <1>0, <3>2, <3>4, <3>5, <3>6, <3>7, <3>8
    <2>5. ASSUME ScanDeadlockAbort(s) \/ ScanFail(s) \/ ScanCrash(s)
          PROVE  Mine
      <3>1. /\ rowLock' = Unlocked(s)
            /\ scanning' = [scanning EXCEPT ![s] = IdleScan]
            /\ UNCHANGED status
        BY <2>5 DEF ScanDeadlockAbort, ScanFail, ScanCrash, ScanRollback, rows
      <3>2. /\ scanning'[s].pc = "idle" /\ scanning'[s].hit = {}
            /\ \A t \in Scanners \ {s} : scanning'[t] = scanning[t]
        BY <1>a, <3>1 DEF IdleScan
      <3>3. \A c \in Commands : rowLock'[c] # s /\ (rowLock[c] # s => rowLock'[c] = rowLock[c])
        BY <1>a, <3>1, NoneAssumption DEF Unlocked
      <3>4. \A c \in Commands : rowLock[c] = s => rowLock'[c] = None
        BY <1>a, <3>1 DEF Unlocked
      <3> QED
        BY <1>0, <3>1, <3>2, <3>3, <3>4 DEF LockIsHit, ScanKnows
    <2>6. Mine
      BY <1>2, <2>1, <2>2, <2>3, <2>4, <2>5 DEF ScanAny, ScanStep
    <2>7. \A t \in Scanners : ScanKnows(t)'
      BY <2>6, ScanKnowsKept
    <2>8. ASSUME NEW c \in Commands, NEW t \in Scanners
          PROVE  LockIsHit(c, t)'
      <3>1. CASE t = s
        BY <2>6, <3>1
      <3>2. CASE t # s
        <4>1. rowLock'[c] = t <=> rowLock[c] = t
          BY <2>6, <3>2, NoneAssumption
        <4> QED
          BY <1>0, <2>6, <3>2, <4>1 DEF LockIsHit
      <3> QED
        BY <3>1, <3>2
    <2> QED
      BY <2>6, <2>7, <2>8 DEF ScanInv, LockIsHit, ScanKnows
  <1> QED
    BY <1>1, <1>2

-----------------------------------------------------------------------------
(* The inductive invariant. *)

\* The initial state is well typed.
LEMMA InitTyped == Init => TypeOK
  <1> SUFFICES ASSUME Init PROVE TypeOK
    OBVIOUS
  <1> USE DEF Init
  <1>1. nextId \in 1..(MaxCommand + 1) /\ faults \in 0..MaxFaults
    BY MaxCommandAssumption, MaxFaultsAssumption
  <1>2. reply \in [Commands -> 0..(MaxCommand + 1)]
    BY MaxCommandAssumption DEF Unanswered
  <1>3. /\ creating \in [Creators -> CreateState]
        /\ claiming \in [Claimers -> ClaimState]
        /\ patching \in [Patchers -> PatchState]
        /\ scanning \in [Scanners -> ScanState]
    BY IdleTyped
  <1>4. claimed \in [Claimers -> Seq(Commands)]
    OBVIOUS
  <1> QED
    BY <1>1, <1>2, <1>3, <1>4 DEF TypeOK

\* The inductive invariant holds initially.
LEMMA InitInv == Init => IInv
  <1> SUFFICES ASSUME Init PROVE IInv
    OBVIOUS
  <1>1. TypeOK
    BY InitTyped
  <1>2. \A c \in Commands : ~Exists(c)
    BY DEF Init, Exists
  <1>3. RowIsOneRun
    BY <1>2 DEF Init, RowIsOneRun, Exists, Absent, TerminalStates
  <1>4. ToldOnlyDurable
    BY DEF Init, ToldOnlyDurable
  <1>5. ExclusiveClaim
    BY DEF Init, ExclusiveClaim
  <1>6. CreateInv /\ KeyInv /\ ReplyInv
    BY <1>2 DEF Init, CreateInv, KeyInv, ReplyInv, IdleCreate
  <1>7. ClaimInv /\ PatchInv
    BY DEF Init, ClaimInv, PatchInv, IdleClaim, IdlePatch
  <1>8. ScanInv
    BY NoneAssumption DEF Init, ScanInv, IdleScan
  <1> QED
    BY <1>1, <1>3, <1>4, <1>5, <1>6, <1>7, <1>8 DEF IInv

\* A stuttering step keeps the inductive invariant.
LEMMA StutterInv == IInv /\ UNCHANGED vars => IInv'
  <1> SUFFICES ASSUME IInv, UNCHANGED vars PROVE IInv'
    OBVIOUS
  <1> USE DEF vars, handlers
  <1>1. /\ \A c \in Commands : (Exists(c)' <=> Exists(c)) /\ Reached(c)' = Reached(c)
        /\ \A c \in Commands : Colliding(c)' = Colliding(c)
        /\ \A h \in Claimers : Claimed(h)' = Claimed(h)
    BY DEF Exists, Reached, Colliding, Claimed
  <1>2. TypeOK'
    BY DEF IInv, TypeOK
  <1>3. RowIsOneRun' /\ ToldOnlyDurable' /\ ExclusiveClaim'
    BY <1>1 DEF IInv, RowIsOneRun, ToldOnlyDurable, ExclusiveClaim
  <1>4. CreateInv' /\ KeyInv' /\ ReplyInv'
    BY <1>1 DEF IInv, CreateInv, KeyInv, ReplyInv, Exists, Colliding
  <1>5. ClaimInv'
    BY DEF IInv, ClaimInv, Exists
  <1>6. PatchInv'
    BY <1>1 DEF IInv, PatchInv
  <1>7. ScanInv'
    BY DEF IInv, ScanInv, Exists
  <1> QED
    BY <1>2, <1>3, <1>4, <1>5, <1>6, <1>7 DEF IInv

\* Every step keeps the inductive invariant.
LEMMA StepInv == IInv /\ [Next]_vars => IInv'
  <1>1. ASSUME IInv, Next PROVE IInv'
    <2>1. RowIsOneRun'
      BY <1>1, NextRows, RowsOneRun DEF IInv
    <2> QED
      BY <1>1, <2>1, NextTyped, NextTold, NextExclusive, NextCreation, NextClaim, NextPatch,
         NextScan
      DEF IInv, CreationInv
  <1> QED
    BY <1>1, StutterInv

\* The inductive invariant holds for every instance: for any number of commands,
\* robots, handlers and scanners.
THEOREM Invariance == Spec => []IInv
  BY InitInv, StepInv, PTL DEF Spec

\* Every reachable state of the handlers, locks and rows is well typed.
THEOREM TypeCorrect == Spec => []TypeOK
  <1>1. IInv => TypeOK
    BY DEF IInv
  <1> QED
    BY <1>1, Invariance, PTL

\* The compare-and-set of update_status, the guarded UPDATE of the scan and
\* try_dispatch together keep every row the record of one run.
THEOREM RowsAreOneRun == Spec => []RowIsOneRun
  <1>1. IInv => RowIsOneRun
    BY DEF IInv
  <1> QED
    BY <1>1, Invariance, PTL

\* Dashboards and PATCH clients learn only of statuses the database holds or held.
THEOREM NothingToldEarly == Spec => []ToldOnlyDurable
  <1>1. IInv => ToldOnlyDurable
    BY DEF IInv
  <1> QED
    BY <1>1, Invariance, PTL

\* No two claims hand out one command.
THEOREM ClaimsAreExclusive == Spec => []ExclusiveClaim
  <1>1. IInv => ExclusiveClaim
    BY DEF IInv
  <1> QED
    BY <1>1, Invariance, PTL

\* Two create requests with one (robot, key) are answered with one command: the
\* stored row of a key is unique.
THEOREM CreationIsIdempotent == Spec => []IdempotentReplies
  <1>1. IInv => IdempotentReplies
    BY DEF IInv, ReplyInv, KeyInv, IdempotentReplies
  <1> QED
    BY <1>1, Invariance, PTL

-----------------------------------------------------------------------------
(* The lifecycle implements the contract. *)

\* A transition adds its status to those reached, and nothing else.
LEMMA WriteReaches ==
  ASSUME TypeOK, RowIsOneRun, NEW c \in Commands, NEW s \in Status, RowWrite(c, s)
  PROVE  /\ \A d \in Commands \ {c} : Reached(d)' = Reached(d)
         /\ status[c] = Absent => Reached(c) = {} /\ status'[c] = "PENDING"
         /\ Reached(c)' = Reached(c) \cup {s}
  <1>1. \A d \in Commands \ {c} : Reached(d)' = Reached(d)
    BY DEF RowWrite, SetStatus, TypeOK, Reached, Exists
  <1>2. status'[c] = s /\ stamps'[c] = stamps[c] \cup TransitionStamps(s)
    BY DEF RowWrite, SetStatus, TypeOK
  <1>3. CASE status[c] = Absent /\ s = "PENDING"
    <2>1. stamps'[c] = {} /\ Exists(c)'
      BY <1>2, <1>3 DEF RowIsOneRun, Exists, TransitionStamps, TerminalStates, Absent
    <2> QED
      BY <1>1, <1>2, <1>3, <2>1, StampTable DEF Reached, Exists, TerminalStates
  <1>4. CASE s \in ValidTransitions(status[c])
    <2>1. status[c] \in Status \ TerminalStates /\ s # "PENDING"
      BY <1>4, TransitionsTyped DEF TypeOK
    <2>2. Exists(c) /\ Exists(c)' /\ status[c] # Absent
      BY <1>2, <2>1 DEF Exists, Absent, Status, TerminalStates
    <2>3. CASE s \in {"DISPATCHED", "ACKNOWLEDGED", "EXECUTING"}
      <3>1. s \notin TerminalStates /\ {status[c]} \cap TerminalStates = {}
            /\ {status'[c]} \cap TerminalStates = {}
        BY <1>2, <2>1, <2>3 DEF TerminalStates
      <3>2. \A t \in {"DISPATCHED", "ACKNOWLEDGED", "EXECUTING"} :
               TransitionStamps(t) \subseteq stamps'[c]
                 <=> t = s \/ TransitionStamps(t) \subseteq stamps[c]
        BY <1>2, <2>3, StampTable
      <3>3. Reached(c)' = Reached(c) \cup {s}
        BY <2>2, <2>3, <3>1, <3>2 DEF Reached
      <3> QED
        BY <1>1, <2>2, <3>3
    <2>4. CASE s \in TerminalStates
      <3>1. TransitionStamps(s) = {"completed_at"}
        BY <2>4 DEF TransitionStamps, TerminalStates
      <3> QED
        BY <1>1, <1>2, <2>1, <2>2, <2>4, <3>1, StampTable DEF Reached
    <2> QED
      BY <2>1, <2>3, <2>4 DEF Status
  <1> QED
    BY <1>3, <1>4 DEF RowWrite

\* A sweep adds TIMEOUT to what its rows have reached.
LEMMA ExpireReaches ==
  ASSUME TypeOK, NEW S \in SUBSET Commands, RowExpire(S)
  PROVE  \A c \in Commands :
            Reached(c)' = IF c \in S THEN Reached(c) \cup {"TIMEOUT"} ELSE Reached(c)
  <1> SUFFICES ASSUME NEW c \in Commands
               PROVE  Reached(c)' = IF c \in S THEN Reached(c) \cup {"TIMEOUT"} ELSE Reached(c)
    OBVIOUS
  <1>1. CASE c \in S
    <2>1. /\ status'[c] = "TIMEOUT" /\ status[c] \in Status \ TerminalStates
          /\ stamps'[c] = stamps[c] \cup {"completed_at"}
      BY <1>1 DEF RowExpire, TransitionStamps, TerminalStates
    <2>2. Exists(c) /\ Exists(c)'
      BY <2>1 DEF Exists, Absent, Status, TerminalStates
    <2> QED
      BY <1>1, <2>1, <2>2, StampTable DEF Reached, TerminalStates
  <1>2. CASE c \notin S
    BY <1>2 DEF RowExpire, Reached, Exists
  <1> QED
    BY <1>1, <1>2

\* Every step of the handlers is a step of the contract, or none.
LEMMA ContractStep ==
  ASSUME IInv, [Next]_vars
  PROVE  [Contract!Next]_(Contract!cvars)
  <1> DEFINE reached == [c \in Commands |-> Reached(c)]
  <1>0. TypeOK /\ RowIsOneRun
    BY DEF IInv
  <1>1. ASSUME UNCHANGED rows
        PROVE  UNCHANGED <<status, reached>>
    BY <1>1 DEF rows, Reached, Exists
  <1>2. CASE UNCHANGED vars
    <2>1. UNCHANGED <<status, stamps, told>>
      BY <1>2 DEF vars
    <2> QED
      BY <1>1, <2>1 DEF Contract!cvars, rows
  <1>3. CASE Next
    <2>1. RowChange /\ TellsReached
      BY <1>3, NextRows, NextTells
    <2>2. CASE UNCHANGED rows
      <3>1. CASE UNCHANGED told
        BY <1>1, <2>2, <3>1 DEF Contract!cvars
      <3>2. ASSUME NEW c \in Commands, NEW S \in SUBSET Status, S \subseteq Reached(c), Tell(c, S)
            PROVE  Contract!Next
        <4>1. Contract!Tell(c, S)
          BY <1>1, <2>2, <3>2 DEF Contract!Tell, Tell
        <4>2. S \in SUBSET Contract!Status
          BY DEF Contract!Status, Contract!TerminalStates, Status, TerminalStates
        <4> QED
          BY <4>1, <4>2 DEF Contract!Next
      <3> QED
        BY <2>1, <3>1, <3>2 DEF TellsReached
    <2>3. ASSUME NEW c \in Commands, NEW s \in Status, RowWrite(c, s), UNCHANGED told
          PROVE  Contract!Next
      <3>1. /\ \A d \in Commands \ {c} : Reached(d)' = Reached(d)
            /\ status[c] = Absent => Reached(c) = {} /\ status'[c] = "PENDING"
            /\ Reached(c)' = Reached(c) \cup {s}
        BY <1>0, <2>3, WriteReaches
      <3>2. reached' = [reached EXCEPT ![c] = Reached(c) \cup {s}]
        BY <3>1
      <3>3. status' = [status EXCEPT ![c] = s]
        BY <2>3 DEF RowWrite, SetStatus
      <3>4. CASE status[c] = Absent /\ s = "PENDING"
        <4>1. reached' = [reached EXCEPT ![c] = {"PENDING"}]
          BY <3>1, <3>2, <3>4
        <4>2. Contract!Submit(c)
          BY <2>3, <3>3, <3>4, <4>1 DEF Contract!Submit, Contract!Absent, Absent
        <4> QED
          BY <4>2 DEF Contract!Next
      <3>5. CASE s \in ValidTransitions(status[c])
        <4>1. Contract!Advance(c, s)
          BY <2>3, <3>2, <3>3, <3>5
          DEF Contract!Advance, Contract!ValidTransitions, ValidTransitions
        <4>2. s \in Contract!Status
          BY DEF Contract!Status, Contract!TerminalStates, Status, TerminalStates
        <4> QED
          BY <4>1, <4>2 DEF Contract!Next
      <3> QED
        BY <2>3, <3>4, <3>5 DEF RowWrite
    <2>4. ASSUME NEW S \in SUBSET Commands, RowExpire(S), UNCHANGED told
          PROVE  Contract!Next
      <3>1. reached' = [c \in Commands |-> IF c \in S THEN reached[c] \cup {"TIMEOUT"}
                                           ELSE reached[c]]
        BY <1>0, <2>4, ExpireReaches
      <3>2. Contract!Expire(S)
        BY <2>4, <3>1 DEF RowExpire, Contract!Expire, Contract!Status, Contract!TerminalStates,
                          Status, TerminalStates
      <3> QED
        BY <3>2 DEF Contract!Next
    <2>5. CASE ~UNCHANGED rows
      BY <2>1, <2>3, <2>4, <2>5 DEF RowChange, TellsReached
    <2> QED
      BY <2>2, <2>5
  <1> QED
    BY <1>2, <1>3

\* Every behaviour of the handlers, for any number of them, is a behaviour of
\* the contract clients rely on.
THEOREM Refinement == Spec => ImplementsContract
  <1>1. Init => Contract!Init
    BY DEF Init, Contract!Init, Contract!Absent, Absent, Reached, Exists
  <1>2. IInv /\ [Next]_vars => [Contract!Next]_(Contract!cvars)
    BY ContractStep
  <1> QED
    BY <1>1, <1>2, Invariance, PTL DEF Spec, ImplementsContract, Contract!Spec

-----------------------------------------------------------------------------
(* A final outcome is final. *)

\* No writer, however late, changes the outcome of a command or erases a timestamp.
OutcomeFixed ==
    [][\A c \in Commands :
          /\ status[c] \in TerminalStates => status'[c] = status[c]
          /\ stamps[c] \subseteq stamps'[c]]_vars

\* COMPLETED, FAILED, TIMEOUT and CANCELLED are final under any race of PATCH,
\* claim and sweep, and the *_at columns are written once.
THEOREM OutcomeIsFinal == Spec => OutcomeFixed
  <1>1. ASSUME IInv, Next
        PROVE  \A c \in Commands : /\ status[c] \in TerminalStates => status'[c] = status[c]
                                   /\ stamps[c] \subseteq stamps'[c]
    <2>1. RowChange /\ RowsGrow /\ TypeOK
      BY <1>1, NextRows DEF IInv
    <2> QED
      BY <2>1, TerminalStays DEF RowsGrow
  <1> QED
    BY <1>1, Invariance, PTL DEF Spec, OutcomeFixed
=============================================================================
