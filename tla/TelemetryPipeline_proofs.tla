------------------------ MODULE TelemetryPipeline_proofs -----------------------
(***************************************************************************)
(* Proofs about TelemetryPipeline for any number of POSTs, entries, robots  *)
(* and workers, any trimming of the stream and any faults.                 *)
(*                                                                         *)
(* What a worker holds in its hands was read earlier and may be stale: the  *)
(* stream may have been trimmed, the entries acknowledged or inserted by    *)
(* another worker meanwhile.  BatchSound says what is still true of it, and *)
(* is what makes an XACK harmless.                                         *)
(***************************************************************************)
EXTENDS TelemetryPipeline, FiniteSetTheorems, SequenceTheorems, WellFoundedInduction, TLAPS

-----------------------------------------------------------------------------
(* The inductive invariant. *)

\* Positions are positions of the log: pending entries were delivered, and the
\* table has rows of readings only.
PositionsSound ==
    /\ Len(log) <= MaxEntries
    /\ ~group => cursor = 0
    /\ \A i \in Positions : owner[i] # None => i <= cursor
    /\ \A i \in Positions : copies[i] > 0 => i <= Len(log) /\ IsReading(i)

\* What is left of a batch after it was read: its untrimmed readings are its rows,
\* its untrimmed entries are behind the group's cursor, the rows no longer left to
\* insert are in the table, and before the XACK all of them are, and in the roster.
BatchSound(w) ==
    /\ worker[w].left \subseteq worker[w].rows
    /\ worker[w].rows \subseteq worker[w].batch
    /\ \A i \in worker[w].batch :
          /\ i <= Len(log)
          /\ i <= trimmed \/ i <= cursor
          /\ i > trimmed /\ IsReading(i) => i \in worker[w].rows
    /\ \A i \in worker[w].rows :
          /\ IsReading(i)
          /\ i \notin worker[w].left => copies[i] > 0
    /\ worker[w].pc = "ack" =>
          /\ worker[w].left = {}
          /\ \A i \in worker[w].rows : log[i].ts <= lastSeen[log[i].robot]

\* No reading is further ahead of the server's clock than the allowed skew.
StampsSound ==
    /\ \A i \in 1..Len(log) : log[i].ts <= now + MaxSkew
    /\ \A p \in Posts : \A k \in 1..Len(task[p]) : task[p][k].ts <= now + MaxSkew

PInv ==
    /\ PipelineTypeOK
    /\ PositionsSound
    /\ \A w \in Workers : BatchSound(w)
    /\ StampsSound
    /\ AtLeastOnce
    /\ RosterInStep
    /\ SeenNotAhead

-----------------------------------------------------------------------------
(* Facts about the operators of the model. *)

\* The fields of an entry.
LEMMA EntryFields ==
  /\ \A e \in Entry : e.robot \in Robots \cup {None} /\ e.ts \in Nat
  /\ None \notin Robots
  /\ Other \in Entry /\ Other.ts = 0
  <1>1. \A e \in Reading : e.robot \in Robots /\ e.ts \in Nat
    BY DEF Reading
  <1>2. Other.robot = None /\ Other.ts = 0
    BY DEF Other
  <1> QED
    BY <1>1, <1>2, NobodyAssumption DEF Entry

\* An entry of the log is an entry; a reading has a robot.
LEMMA LogFields ==
  ASSUME PipelineTypeOK, NEW i \in 1..Len(log)
  PROVE  /\ log[i] \in Entry
         /\ log[i].robot \in Robots \cup {None}
         /\ log[i].ts \in Nat
         /\ IsReading(i) => log[i].robot \in Robots
  BY EntryFields DEF PipelineTypeOK, IsReading

\* FirstN takes members of the set, the smallest ones first.
LEMMA FirstNPrefix ==
  ASSUME NEW m \in Nat, NEW S \in SUBSET (1..m), NEW n \in Nat,
         NEW i \in S, NEW k \in FirstN(S, n), i <= k
  PROVE  i \in FirstN(S, n)
  <1> DEFINE Below(j) == {x \in S : x < j}
  <1>1. IsFiniteSet(S)
    <2>1. IsFiniteSet(1..m)
      BY FS_Interval
    <2> QED
      BY <2>1, FS_Subset
  <1>2. k \in S /\ Cardinality(Below(k)) < n
    BY DEF FirstN
  <1>3. Below(k) \in SUBSET S /\ Below(i) \in SUBSET Below(k)
    <2>1. k \in S
      BY <1>2
    <2>2. \A x \in S : x < i => x < k
      BY <2>1
    <2> QED
      BY <2>2
  <1>4. IsFiniteSet(Below(k)) /\ Cardinality(Below(k)) \in Nat
    BY <1>1, <1>3, FS_Subset, FS_CardinalityType
  <1>5. Cardinality(Below(i)) <= Cardinality(Below(k)) /\ Cardinality(Below(i)) \in Nat
    BY <1>3, <1>4, FS_Subset, FS_CardinalityType
  <1>6. Cardinality(Below(i)) < n
    BY <1>2, <1>4, <1>5
  <1> QED
    BY <1>6 DEF FirstN

\* A bounded set of naturals has a greatest member: the one furthest from zero is
\* nearest to the bound.
LEMMA Greatest ==
  ASSUME NEW n \in Nat, NEW S \in SUBSET (0..n), S # {}
  PROVE  \E x \in S : \A y \in S : y <= x
  <1> DEFINE T == {k \in Nat : k <= n /\ n - k \in S}
  <1>1. \A y \in S : n - y \in T
    OBVIOUS
  <1>2. T \subseteq Nat /\ T # {}
    BY <1>1
  <1>3. \E k \in T : \A j \in T : ~(<<j, k>> \in OpToRel(<, Nat))
    <2> HIDE DEF T
    <2> QED
      BY <1>2, NatLessThanWellFounded, WFMin
  <1>4. PICK k \in T : \A j \in T : ~(j < k)
    BY <1>3 DEF OpToRel
  <1>5. \A y \in S : y <= n - k
    BY <1>1, <1>4
  <1> QED
    BY <1>4, <1>5

\* The greatest of a set of positions, as CHOOSE picks it.
LEMMA NewestPosition ==
  ASSUME NEW m \in Nat, NEW S \in SUBSET (1..m), S # {}
  PROVE  LET g == CHOOSE i \in S : \A j \in S : j <= i
         IN  g \in S /\ \A j \in S : j <= g
  <1>1. \E i \in S : \A j \in S : j <= i
    <2>1. S \in SUBSET (0..m)
      OBVIOUS
    <2> QED
      BY <2>1, Greatest
  <1> QED
    BY <1>1

\* mark_seen never lowers last_seen, covers every row it is given, and takes a
\* new value from one of them.
LEMMA MarkSeenSound ==
  ASSUME PipelineTypeOK, StampsSound, NEW S \in SUBSET (1..Len(log)),
         NEW r \in Robots
  PROVE  /\ MarkSeen(S)[r] \in Nat
         /\ MarkSeen(S)[r] >= lastSeen[r]
         /\ \A i \in S : log[i].robot = r => log[i].ts <= MarkSeen(S)[r]
         /\ \/ MarkSeen(S)[r] = lastSeen[r]
            \/ \E i \in S : log[i].robot = r /\ log[i].ts = MarkSeen(S)[r]
  <1> DEFINE seen == {log[i].ts : i \in {j \in S : log[j].robot = r}}
             latest == CHOOSE t \in seen : \A u \in seen : u <= t
  <1>1. MarkSeen(S)[r] = IF seen = {} THEN lastSeen[r] ELSE Later(latest, lastSeen[r])
    BY DEF MarkSeen
  <1>2. lastSeen[r] \in Nat /\ now + MaxSkew \in Nat
    BY BoundsAssumption DEF PipelineTypeOK
  <1>3. seen \in SUBSET (0..(now + MaxSkew))
    BY <1>2, LogFields DEF StampsSound
  <1>4. CASE seen = {}
    BY <1>1, <1>2, <1>4
  <1>5. CASE seen # {}
    <2>1. \E t \in seen : \A u \in seen : u <= t
      <3> HIDE DEF seen
      <3> QED
        BY <1>2, <1>3, <1>5, Greatest
    <2>2. latest \in seen /\ \A u \in seen : u <= latest
      <3> HIDE DEF seen
      <3> QED
        BY <2>1
    <2>3. latest \in Nat
      <3> HIDE DEF seen, latest
      <3> QED
        BY <1>2, <1>3, <2>2
    <2>4. MarkSeen(S)[r] = Later(latest, lastSeen[r])
      BY <1>1, <1>5
    <2>5. \A i \in S : log[i].robot = r => log[i].ts \in seen /\ log[i].ts <= latest
      BY <2>2
    <2>6. \E i \in S : log[i].robot = r /\ log[i].ts = latest
      BY <2>2
    <2>7. \A i \in S : log[i].ts \in Nat
      BY LogFields
    <2> HIDE DEF seen, latest
    <2> QED
      BY <1>2, <2>3, <2>4, <2>5, <2>6, <2>7 DEF Later
  <1> QED
    BY <1>4, <1>5

-----------------------------------------------------------------------------
(* POSTs, their background tasks, and time. *)

\* A fault is counted up to its bound.
LEMMA FaultTyped ==
  ASSUME PipelineTypeOK, Fault
  PROVE  faults' \in 0..MaxFaults
  BY BoundsAssumption DEF PipelineTypeOK, Fault

\* A step of the API or of the clock touches neither stream nor workers nor tables;
\* it may add tasks whose timestamps were resolved.
LEMMA IngressKeeps ==
  ASSUME PInv,
         UNCHANGED <<stream, group, cursor, pending, worker, tables>>,
         now' \in 1..MaxTime, now' >= now,
         made' \in 0..MaxPost,
         task' \in [Posts -> Seq(Entry)],
         \A p \in Posts : \A k \in 1..Len(task'[p]) : task'[p][k].ts <= now' + MaxSkew,
         faults' \in 0..MaxFaults
  PROVE  PInv'
  <1>1. UNCHANGED <<log, trimmed, owner, idle, copies, lastSeen>>
    BY DEF stream, pending, tables
  <1>2. now \in Nat /\ now' \in Nat /\ MaxSkew \in Nat
    BY BoundsAssumption DEF PInv, PipelineTypeOK
  <1>3. PipelineTypeOK'
    BY <1>1 DEF PInv, PipelineTypeOK
  <1>4. PositionsSound'
    BY <1>1 DEF PInv, PositionsSound, IsReading
  <1>5. \A w \in Workers : BatchSound(w)'
    BY <1>1 DEF PInv, BatchSound, IsReading
  <1>6. StampsSound'
    <2>1. \A i \in 1..Len(log) : log[i].ts \in Nat
      BY LogFields DEF PInv
    <2> QED
      BY <1>1, <1>2, <2>1 DEF PInv, StampsSound
  <1>7. AtLeastOnce' /\ RosterInStep'
    BY <1>1 DEF PInv, AtLeastOnce, RosterInStep, Held, IsReading
  <1>8. SeenNotAhead'
    BY <1>1, <1>2 DEF PInv, SeenNotAhead, PipelineTypeOK
  <1> QED
    BY <1>3, <1>4, <1>5, <1>6, <1>7, <1>8 DEF PInv

\* A POST of readings is answered: resolve_timestamp bounds their times.
LEMMA AcceptKeeps ==
  ASSUME PInv, Accept
  PROVE  PInv'
  <1>1. /\ made < MaxPost /\ made' = made + 1
        /\ UNCHANGED <<now, stream, group, cursor, pending, worker, tables, faults>>
    BY DEF Accept
  <1>0. PICK n \in 1..MaxBatch :
             \E reported \in [1..n -> [robot : Robots, at : 0..(MaxTime + MaxSkew + 1), fits : Fits]] :
                task' = [task EXCEPT ![made'] =
                    [k \in 1..n |-> [robot |-> reported[k].robot,
                                     ts |-> ResolveTimestamp(reported[k].at, now),
                                     fits |-> reported[k].fits]]]
    BY DEF Accept
  <1>2. PICK reported \in [1..n -> [robot : Robots, at : 0..(MaxTime + MaxSkew + 1), fits : Fits]] :
             task' = [task EXCEPT ![made'] =
                 [k \in 1..n |-> [robot |-> reported[k].robot,
                                  ts |-> ResolveTimestamp(reported[k].at, now),
                                  fits |-> reported[k].fits]]]
    BY <1>0
  <1> DEFINE new == [k \in 1..n |-> [robot |-> reported[k].robot,
                                     ts |-> ResolveTimestamp(reported[k].at, now),
                                     fits |-> reported[k].fits]]
  <1>3. now \in Nat /\ now \in 1..MaxTime /\ MaxSkew \in Nat /\ n \in Nat /\ MaxTime \in Nat
    BY BoundsAssumption DEF PInv, PipelineTypeOK
  <1>4. \A k \in 1..n : /\ ResolveTimestamp(reported[k].at, now) \in Nat
                        /\ ResolveTimestamp(reported[k].at, now) <= now + MaxSkew
    BY <1>3 DEF ResolveTimestamp
  <1>5. \A k \in 1..n : new[k] \in Entry /\ new[k].ts <= now + MaxSkew
    <2> SUFFICES ASSUME NEW k \in 1..n
                 PROVE  new[k] \in Entry /\ new[k].ts <= now + MaxSkew
      OBVIOUS
    <2>1. new[k] = [robot |-> reported[k].robot,
                    ts |-> ResolveTimestamp(reported[k].at, now),
                    fits |-> reported[k].fits]
      OBVIOUS
    <2>2. reported[k].robot \in Robots /\ reported[k].fits \in BOOLEAN
      <3>1. reported[k] \in [robot : Robots, at : 0..(MaxTime + MaxSkew + 1), fits : Fits]
        OBVIOUS
      <3> QED
        BY <3>1, SettingsAssumption
    <2> HIDE DEF new
    <2> QED
      BY <2>1, <2>2, <1>4 DEF Entry, Reading
  <1>6. new \in Seq(Entry) /\ Len(new) = n
    BY <1>3, <1>5
  <1>7. made' \in 0..MaxPost /\ made' \in Posts
    BY <1>1, BoundsAssumption DEF PInv, PipelineTypeOK, Posts
  <1>8. task' = [task EXCEPT ![made'] = new]
    BY <1>2
  <1>9. task' \in [Posts -> Seq(Entry)]
    <2> HIDE DEF new
    <2> QED
      BY <1>6, <1>7, <1>8 DEF PInv, PipelineTypeOK
  <1>10. \A p \in Posts : \A k \in 1..Len(task'[p]) : task'[p][k].ts <= now' + MaxSkew
    <2> SUFFICES ASSUME NEW p \in Posts
                 PROVE  \A k \in 1..Len(task'[p]) : task'[p][k].ts <= now' + MaxSkew
      OBVIOUS
    <2>1. task'[p] = IF p = made' THEN new ELSE task[p]
      <3> HIDE DEF new
      <3> QED
        BY <1>7, <1>8 DEF PInv, PipelineTypeOK
    <2>2. CASE p = made'
      <3> HIDE DEF new
      <3> QED
        BY <1>1, <1>5, <1>6, <2>1, <2>2
    <2>3. CASE p # made'
      BY <1>1, <2>1, <2>3 DEF PInv, StampsSound
    <2> QED
      BY <2>2, <2>3
  <1>11. faults' \in 0..MaxFaults
    BY <1>1 DEF PInv, PipelineTypeOK
  <1> QED
    BY <1>1, <1>3, <1>7, <1>9, <1>10, <1>11, IngressKeeps

\* A claim's broadcast is queued for the stream.
LEMMA AcceptOtherKeeps ==
  ASSUME PInv, AcceptOther
  PROVE  PInv'
  <1>1. /\ made < MaxPost /\ made' = made + 1
        /\ task' = [task EXCEPT ![made'] = <<Other>>]
        /\ UNCHANGED <<now, stream, group, cursor, pending, worker, tables, faults>>
    BY DEF AcceptOther
  <1>2. now \in 1..MaxTime /\ now \in Nat /\ MaxSkew \in Nat
    BY BoundsAssumption DEF PInv, PipelineTypeOK
  <1>3. made' \in 0..MaxPost /\ made' \in Posts
    BY <1>1, BoundsAssumption DEF PInv, PipelineTypeOK, Posts
  <1>4. <<Other>> \in Seq(Entry) /\ Len(<<Other>>) = 1 /\ <<Other>>[1].ts = 0
    BY EntryFields
  <1>5. task' \in [Posts -> Seq(Entry)]
    BY <1>1, <1>3, <1>4 DEF PInv, PipelineTypeOK
  <1>6. \A p \in Posts : \A k \in 1..Len(task'[p]) : task'[p][k].ts <= now' + MaxSkew
    <2> SUFFICES ASSUME NEW p \in Posts
                 PROVE  \A k \in 1..Len(task'[p]) : task'[p][k].ts <= now' + MaxSkew
      OBVIOUS
    <2>1. task'[p] = IF p = made' THEN <<Other>> ELSE task[p]
      BY <1>1, <1>3 DEF PInv, PipelineTypeOK
    <2>2. CASE p = made'
      BY <1>1, <1>2, <1>4, <2>1, <2>2
    <2>3. CASE p # made'
      BY <1>1, <2>1, <2>3 DEF PInv, StampsSound
    <2> QED
      BY <2>2, <2>3
  <1>7. faults' \in 0..MaxFaults
    BY <1>1 DEF PInv, PipelineTypeOK
  <1> QED
    BY <1>1, <1>2, <1>3, <1>5, <1>6, <1>7, IngressKeeps

\* A background task that fails leaves nothing behind.
LEMMA XAddFailsKeeps ==
  ASSUME PInv, NEW p \in Posts, XAddFails(p)
  PROVE  PInv'
  <1>1. /\ task' = [task EXCEPT ![p] = << >>]
        /\ UNCHANGED <<now, made, stream, group, cursor, pending, worker, tables>>
    BY DEF XAddFails
  <1>2. now \in 1..MaxTime /\ now \in Nat
    BY BoundsAssumption DEF PInv, PipelineTypeOK
  <1>3. task' \in [Posts -> Seq(Entry)]
    BY <1>1 DEF PInv, PipelineTypeOK
  <1>4. \A q \in Posts : \A k \in 1..Len(task'[q]) : task'[q][k].ts <= now' + MaxSkew
    BY <1>1 DEF PInv, PipelineTypeOK, StampsSound
  <1>5. faults' \in 0..MaxFaults /\ made' \in 0..MaxPost
    BY <1>1, FaultTyped DEF PInv, PipelineTypeOK, XAddFails
  <1> QED
    BY <1>1, <1>2, <1>3, <1>4, <1>5, IngressKeeps

\* Time passes.
LEMMA TickKeeps ==
  ASSUME PInv, Tick
  PROVE  PInv'
  <1>1. /\ now < MaxTime /\ now' = now + 1
        /\ UNCHANGED <<ingress, stream, group, cursor, pending, worker, tables, faults>>
    BY DEF Tick
  <1>2. now \in Nat /\ now' \in 1..MaxTime /\ now' >= now /\ MaxSkew \in Nat
    BY <1>1, BoundsAssumption DEF PInv, PipelineTypeOK
  <1>3. UNCHANGED <<made, task, faults>>
    BY <1>1 DEF ingress
  <1>4. /\ made' \in 0..MaxPost
        /\ task' \in [Posts -> Seq(Entry)]
        /\ faults' \in 0..MaxFaults
    BY <1>3 DEF PInv, PipelineTypeOK
  <1>5. \A p \in Posts : \A k \in 1..Len(task'[p]) : task'[p][k].ts <= now' + MaxSkew
    <2> SUFFICES ASSUME NEW p \in Posts, NEW k \in 1..Len(task[p])
                 PROVE  task[p][k].ts <= now' + MaxSkew
      BY <1>3
    <2>1. task[p][k] \in Entry
      BY DEF PInv, PipelineTypeOK
    <2>2. task[p][k].ts \in Nat /\ task[p][k].ts <= now + MaxSkew
      BY <2>1, EntryFields DEF PInv, StampsSound
    <2> QED
      BY <1>1, <1>2, <2>2
  <1> QED
    BY <1>1, <1>2, <1>4, <1>5, IngressKeeps

-----------------------------------------------------------------------------
(* XADD. *)

\* The log grows at its end and is trimmed at its start: nothing that was delivered
\* is touched, and no batch gains an untrimmed entry.
LEMMA XAddKeeps ==
  ASSUME PInv, NEW p \in Posts, XAdd(p)
  PROVE  PInv'
  <1>1. /\ Len(log) + Len(task[p]) <= MaxEntries
        /\ log' = log \o task[p]
        /\ trimmed' \in {trimmed} \cup {n \in trimmed..Len(log') : n + MaxLen <= Len(log')}
        /\ task' = [task EXCEPT ![p] = << >>]
        /\ UNCHANGED <<now, made, group, cursor, owner, idle, worker, copies, lastSeen, faults>>
    BY DEF XAdd, pending, tables
  <1>2. /\ log \in Seq(Entry) /\ task[p] \in Seq(Entry)
        /\ Len(log) \in Nat /\ Len(task[p]) \in Nat
    BY DEF PInv, PipelineTypeOK
  <1>3. /\ log' \in Seq(Entry)
        /\ Len(log') = Len(log) + Len(task[p])
        /\ \A i \in 1..Len(log) : log'[i] = log[i]
        /\ \A i \in Len(log)+1..Len(log') : log'[i] = task[p][i - Len(log)]
    BY <1>1, <1>2, ConcatProperties
  <1>4. /\ trimmed \in 0..Len(log) /\ cursor \in 0..Len(log)
        /\ trimmed' \in trimmed..Len(log') /\ Len(log') \in Nat
    BY <1>1, <1>2, <1>3 DEF PInv, PipelineTypeOK
  <1>5. \A i \in 1..Len(log) : IsReading(i)' <=> IsReading(i)
    BY <1>3 DEF IsReading
  <1>6. PipelineTypeOK'
    <2>1. task' \in [Posts -> Seq(Entry)]
      BY <1>1 DEF PInv, PipelineTypeOK
    <2>2. trimmed' \in 0..Len(log') /\ cursor' \in 0..Len(log')
      BY <1>1, <1>2, <1>3, <1>4
    <2> QED
      BY <1>1, <1>3, <2>1, <2>2 DEF PInv, PipelineTypeOK
  <1>7. PositionsSound'
    <2>1. \A i \in Positions : copies[i] > 0 => i <= Len(log') /\ IsReading(i)'
      <3> SUFFICES ASSUME NEW i \in Positions, copies[i] > 0
                   PROVE  i <= Len(log') /\ IsReading(i)'
        OBVIOUS
      <3>1. i <= Len(log) /\ IsReading(i) /\ i \in Nat /\ i >= 1
        BY DEF PInv, PositionsSound, Positions
      <3> QED
        BY <1>2, <1>3, <1>5, <3>1
    <2> QED
      BY <1>1, <1>3, <2>1 DEF PInv, PositionsSound
  <1>8. \A w \in Workers : BatchSound(w)'
    <2> SUFFICES ASSUME NEW w \in Workers
                 PROVE  BatchSound(w)'
      OBVIOUS
    <2>1. worker[w].batch \subseteq Positions /\ worker[w].rows \subseteq worker[w].batch
      BY DEF PInv, PipelineTypeOK, WorkerState, BatchSound
    <2>2. \A i \in worker[w].batch : i \in 1..Len(log)
      BY <2>1, <1>2 DEF PInv, BatchSound, Positions
    <2>3. \A i \in worker[w].batch : i <= Len(log') /\ (i <= trimmed' \/ i <= cursor)
      BY <2>2, <1>2, <1>3, <1>4 DEF PInv, BatchSound
    <2>4. \A i \in worker[w].batch : i > trimmed' /\ IsReading(i)' => i \in worker[w].rows
      BY <2>2, <1>4, <1>5 DEF PInv, BatchSound
    <2>5. \A i \in worker[w].rows : IsReading(i)' /\ log'[i] = log[i]
      BY <2>1, <2>2, <1>3, <1>5 DEF PInv, BatchSound
    <2> QED
      BY <1>1, <2>3, <2>4, <2>5 DEF PInv, BatchSound
  <1>9. StampsSound'
    <2>1. \A i \in 1..Len(log') : log'[i].ts <= now + MaxSkew
      <3> SUFFICES ASSUME NEW i \in 1..Len(log')
                   PROVE  log'[i].ts <= now + MaxSkew
        OBVIOUS
      <3>1. CASE i <= Len(log)
        BY <1>2, <1>3, <3>1 DEF PInv, StampsSound
      <3>2. CASE i > Len(log)
        <4>1. i - Len(log) \in 1..Len(task[p])
          BY <1>2, <1>3, <3>2
        <4>2. task[p][i - Len(log)].ts <= now + MaxSkew
          BY <4>1 DEF PInv, StampsSound
        <4>3. log'[i] = task[p][i - Len(log)]
          BY <1>2, <1>3, <3>2
        <4> QED
          BY <4>2, <4>3
      <3> QED
        BY <1>2, <3>1, <3>2
    <2>2. \A q \in Posts : \A k \in 1..Len(task'[q]) : task'[q][k].ts <= now + MaxSkew
      BY <1>1 DEF PInv, PipelineTypeOK, StampsSound
    <2> QED
      BY <1>1, <2>1, <2>2 DEF StampsSound
  <1>10. AtLeastOnce'
    <2> SUFFICES ASSUME NEW i \in 1..Len(log'), Held(i)', IsReading(i)', owner[i] = None
                 PROVE  copies[i] > 0
      BY <1>1 DEF AtLeastOnce
    <2>1. i <= cursor /\ i > trimmed' /\ i \in Nat /\ i >= 1
      BY <1>1, <1>3 DEF Held
    <2>2. i \in 1..Len(log) /\ Held(i)
      BY <2>1, <1>2, <1>4 DEF Held
    <2> QED
      BY <2>2, <1>5 DEF PInv, AtLeastOnce
  <1>11. RosterInStep'
    <2>1. \A r \in Robots : lastSeen[r] # 0 =>
             \E i \in 1..Len(log') : copies[i] > 0 /\ log'[i].robot = r /\ log'[i].ts = lastSeen[r]
      BY <1>2, <1>3 DEF PInv, RosterInStep
    <2>2. \A i \in 1..Len(log') :
             (copies[i] > 0 /\ i > trimmed' /\ owner[i] = None) =>
                log'[i].ts <= lastSeen[log'[i].robot]
      <3> SUFFICES ASSUME NEW i \in 1..Len(log'), copies[i] > 0, i > trimmed', owner[i] = None
                   PROVE  log'[i].ts <= lastSeen[log'[i].robot]
        OBVIOUS
      <3>1. i \in Positions
        BY <1>1, <1>2, <1>3, BoundsAssumption DEF Positions
      <3>2. i \in 1..Len(log)
        BY <3>1, <1>2 DEF PInv, PositionsSound, Positions
      <3> QED
        BY <3>2, <1>3, <1>4 DEF PInv, RosterInStep
    <2> QED
      BY <1>1, <2>1, <2>2 DEF RosterInStep
  <1>12. SeenNotAhead'
    BY <1>1 DEF PInv, SeenNotAhead
  <1> QED
    BY <1>6, <1>7, <1>8, <1>9, <1>10, <1>11, <1>12 DEF PInv

-----------------------------------------------------------------------------
(* Steps of a worker that leave log and tables alone. *)

\* Such a step keeps the invariant if the worker's new batch is sound, and the
\* entries it delivers or takes off the pending list are trimmed, no readings, or
\* in both tables.
LEMMA WorkerKeeps ==
  ASSUME PInv, NEW w \in Workers,
         UNCHANGED <<now, ingress, stream, tables>>,
         group' \in BOOLEAN, cursor' \in cursor..Len(log), ~group' => cursor' = 0,
         owner' \in [Positions -> Workers \cup {None}],
         idle' \in SUBSET Positions,
         worker' \in [Workers -> WorkerState],
         faults' \in 0..MaxFaults,
         \A v \in Workers : v # w => worker'[v] = worker[v],
         BatchSound(w)',
         \A i \in Positions : owner'[i] # None => i <= cursor',
         \A i \in 1..Len(log) :
            /\ i > trimmed /\ IsReading(i)
            /\ owner'[i] = None /\ i <= cursor' /\ (owner[i] # None \/ i > cursor)
            => copies[i] > 0 /\ log[i].ts <= lastSeen[log[i].robot]
  PROVE  PInv'
  <1>1. UNCHANGED <<now, made, task, log, trimmed, copies, lastSeen>>
    BY DEF ingress, stream, tables
  <1>2. /\ Len(log) \in Nat /\ trimmed \in 0..Len(log) /\ cursor \in 0..Len(log)
        /\ cursor' \in 0..Len(log) /\ cursor' >= cursor
    BY DEF PInv, PipelineTypeOK
  <1>3. PipelineTypeOK'
    BY <1>1, <1>2 DEF PInv, PipelineTypeOK
  <1>4. PositionsSound'
    BY <1>1 DEF PInv, PositionsSound, IsReading
  <1>5. \A v \in Workers : BatchSound(v)'
    <2> SUFFICES ASSUME NEW v \in Workers, v # w
                 PROVE  BatchSound(v)'
      OBVIOUS
    <2>1. worker'[v] = worker[v] /\ BatchSound(v)
      BY DEF PInv
    <2>2. \A i \in worker[v].batch : i \in Nat
      BY DEF PInv, PipelineTypeOK, WorkerState, Positions
    <2>3. \A i \in worker[v].batch : i <= trimmed \/ i <= cursor'
      BY <1>2, <2>1, <2>2 DEF BatchSound
    <2> QED
      BY <1>1, <2>1, <2>3 DEF BatchSound, IsReading
  <1>6. StampsSound' /\ SeenNotAhead'
    BY <1>1 DEF PInv, StampsSound, SeenNotAhead
  <1>7. AtLeastOnce'
    <2> SUFFICES ASSUME NEW i \in 1..Len(log), i <= cursor', i > trimmed,
                        IsReading(i), owner'[i] = None
                 PROVE  copies[i] > 0
      BY <1>1 DEF AtLeastOnce, Held, IsReading
    <2>1. CASE owner[i] # None \/ i > cursor
      BY <2>1
    <2>2. CASE owner[i] = None /\ i <= cursor
      BY <2>2 DEF PInv, AtLeastOnce, Held
    <2> QED
      BY <1>2, <2>1, <2>2
  <1>8. RosterInStep'
    <2> SUFFICES ASSUME NEW i \in 1..Len(log), copies[i] > 0, i > trimmed, owner'[i] = None
                 PROVE  log[i].ts <= lastSeen[log[i].robot]
      BY <1>1 DEF PInv, RosterInStep
    <2>1. i \in Positions /\ IsReading(i)
      BY <1>2, BoundsAssumption DEF PInv, PositionsSound, Positions
    <2>2. CASE owner[i] # None
      BY <1>2, <2>1, <2>2 DEF PInv, PositionsSound, Positions
    <2>3. CASE owner[i] = None
      BY <2>3 DEF PInv, RosterInStep
    <2> QED
      BY <2>2, <2>3
  <1> QED
    BY <1>3, <1>4, <1>5, <1>6, <1>7, <1>8 DEF PInv

\* A worker with nothing in hand.
LEMMA EmptyHanded ==
  ASSUME PInv, NEW w \in Workers, NEW pc \in {"down", "gone", "own", "claim", "new"},
         Goto(w, pc) \/ worker' = [worker EXCEPT ![w] = Stopped(pc)]
  PROVE  /\ worker' \in [Workers -> WorkerState]
         /\ \A v \in Workers : v # w => worker'[v] = worker[v]
         /\ BatchSound(w)'
  <1>1. worker \in [Workers -> WorkerState]
    BY DEF PInv, PipelineTypeOK
  <1>2. /\ worker' \in [Workers -> WorkerState]
        /\ \A v \in Workers : v # w => worker'[v] = worker[v]
        /\ worker'[w].batch = {} /\ worker'[w].rows = {} /\ worker'[w].left = {}
    <2>1. CASE Goto(w, pc)
      BY <1>1, <2>1 DEF Goto, WorkerState
    <2>2. CASE worker' = [worker EXCEPT ![w] = Stopped(pc)]
      BY <1>1, <2>2 DEF Stopped, WorkerState
    <2> QED
      BY <2>1, <2>2
  <1>3. BatchSound(w)'
    BY <1>2 DEF BatchSound
  <1> QED
    BY <1>2, <1>3

\* A worker that has just read a batch.
LEMMA FreshBatch ==
  ASSUME PInv, NEW w \in Workers, NEW S \in SUBSET Positions, Take(w, S),
         UNCHANGED <<stream, tables>>,
         \A i \in S : i <= Len(log) /\ i <= cursor'
  PROVE  /\ worker' \in [Workers -> WorkerState]
         /\ \A v \in Workers : v # w => worker'[v] = worker[v]
         /\ BatchSound(w)'
  <1>1. worker \in [Workers -> WorkerState]
    BY DEF PInv, PipelineTypeOK
  <1>2. RowsOf(S) \in SUBSET Positions
    BY DEF RowsOf
  <1>3. UNCHANGED <<log, trimmed, copies, lastSeen>>
    BY DEF stream, tables
  <1>4. /\ worker' \in [Workers -> WorkerState]
        /\ \A v \in Workers : v # w => worker'[v] = worker[v]
        /\ worker'[w].pc = "persist" /\ worker'[w].batch = S
        /\ worker'[w].rows = RowsOf(S) /\ worker'[w].left = RowsOf(S)
    BY <1>1, <1>2 DEF Take, WorkerState
  <1>5. BatchSound(w)'
    BY <1>3, <1>4 DEF BatchSound, RowsOf, IsReading
  <1> QED
    BY <1>4, <1>5

\* The worker starts, with or without its consumer group: a group is only created
\* where there is none, and then nothing was delivered.
LEMMA StartKeeps ==
  ASSUME PInv, NEW w \in Workers, Start(w) \/ StartFails(w)
  PROVE  PInv'
  <1>1. /\ worker' = [worker EXCEPT ![w] = Stopped("own")]
        /\ UNCHANGED <<now, ingress, stream, pending, tables>>
        /\ group' \in BOOLEAN /\ (~group' => cursor' = 0)
        /\ cursor' = cursor
    BY DEF Start, StartFails, PInv, PipelineTypeOK, PositionsSound
  <1>2. faults' \in 0..MaxFaults
    BY FaultTyped DEF Start, StartFails, PInv, PipelineTypeOK
  <1>3. UNCHANGED <<owner, idle>>
    BY <1>1 DEF pending
  <1>4. cursor' \in cursor..Len(log)
    BY <1>1 DEF PInv, PipelineTypeOK
  <1>5. /\ worker' \in [Workers -> WorkerState]
        /\ \A v \in Workers : v # w => worker'[v] = worker[v]
        /\ BatchSound(w)'
    BY <1>1, EmptyHanded
  <1>6. /\ owner' \in [Positions -> Workers \cup {None}] /\ idle' \in SUBSET Positions
        /\ \A i \in Positions : owner'[i] # None => i <= cursor'
    BY <1>1, <1>3 DEF PInv, PipelineTypeOK, PositionsSound
  <1>7. \A i \in 1..Len(log) :
           ~(owner'[i] = None /\ i <= cursor' /\ (owner[i] # None \/ i > cursor))
    BY <1>1, <1>3 DEF PInv, PipelineTypeOK
  <1> QED
    BY <1>1, <1>2, <1>4, <1>5, <1>6, <1>7, WorkerKeeps

\* A worker that drops what it has in hand, or finds no group, changes nothing else.
LEMMA DropKeeps ==
  ASSUME PInv, NEW w \in Workers, NoGroup(w) \/ Rejected(w) \/ LoopFails(w) \/ Crash(w)
  PROVE  PInv'
  <1>1. /\ \/ Goto(w, "own")
           \/ \E pc \in {"down", "gone"} : worker' = [worker EXCEPT ![w] = Stopped(pc)]
        /\ UNCHANGED <<now, ingress, stream, group, cursor, pending, tables>>
    BY DEF NoGroup, Rejected, LoopFails, Crash
  <1>2. faults' \in 0..MaxFaults
    BY FaultTyped DEF NoGroup, Rejected, LoopFails, Crash, PInv, PipelineTypeOK
  <1>3. UNCHANGED <<owner, idle>>
    BY <1>1 DEF pending
  <1>4. /\ cursor' \in cursor..Len(log) /\ group' \in BOOLEAN
        /\ ~group' => cursor' = 0
    BY <1>1 DEF PInv, PipelineTypeOK, PositionsSound
  <1>5. /\ worker' \in [Workers -> WorkerState]
        /\ \A v \in Workers : v # w => worker'[v] = worker[v]
        /\ BatchSound(w)'
    BY <1>1, EmptyHanded
  <1>6. /\ owner' \in [Positions -> Workers \cup {None}] /\ idle' \in SUBSET Positions
        /\ \A i \in Positions : owner'[i] # None => i <= cursor'
    BY <1>1, <1>3 DEF PInv, PipelineTypeOK, PositionsSound
  <1>7. \A i \in 1..Len(log) :
           ~(owner'[i] = None /\ i <= cursor' /\ (owner[i] # None \/ i > cursor))
    BY <1>1, <1>3 DEF PInv, PipelineTypeOK
  <1> QED
    BY <1>1, <1>2, <1>4, <1>5, <1>6, <1>7, WorkerKeeps

\* XREADGROUP 0: what is pending was delivered, trimmed or not.
LEMMA ReadOwnKeeps ==
  ASSUME PInv, NEW w \in Workers, ReadOwn(w)
  PROVE  PInv'
  <1> DEFINE mine == {i \in Positions : owner[i] = w}
  <1>1. /\ UNCHANGED <<now, ingress, stream, group, cursor, owner, tables, faults>>
        /\ \/ Goto(w, "claim") /\ UNCHANGED idle
           \/ /\ Take(w, FirstN(mine, Count))
              /\ idle' = {i \in idle : i \in FirstN(mine, Count) => i <= trimmed}
    BY DEF ReadOwn
  <1>2. FirstN(mine, Count) \in SUBSET mine
    BY DEF FirstN
  <1>3. \A i \in mine : i \in Positions /\ i <= Len(log) /\ i <= cursor'
    BY <1>1, NobodyAssumption DEF PInv, PipelineTypeOK, PositionsSound, Positions
  <1>4. /\ worker' \in [Workers -> WorkerState]
        /\ \A v \in Workers : v # w => worker'[v] = worker[v]
        /\ BatchSound(w)'
    <2>1. CASE Goto(w, "claim")
      BY <2>1, EmptyHanded
    <2>2. CASE Take(w, FirstN(mine, Count))
      <3>1. FirstN(mine, Count) \in SUBSET Positions
        BY <1>2, <1>3
      <3>2. \A i \in FirstN(mine, Count) : i <= Len(log) /\ i <= cursor'
        BY <1>2, <1>3
      <3> HIDE DEF mine
      <3> QED
        BY <1>1, <2>2, <3>1, <3>2, FreshBatch
    <2> QED
      BY <1>1, <2>1, <2>2
  <1>5. /\ cursor' \in cursor..Len(log) /\ group' \in BOOLEAN
        /\ ~group' => cursor' = 0
    BY <1>1 DEF PInv, PipelineTypeOK, PositionsSound
  <1>6. idle' \in SUBSET Positions
    <2>1. idle \in SUBSET Positions
      BY DEF PInv, PipelineTypeOK
    <2> HIDE DEF mine
    <2> QED
      BY <1>1, <2>1
  <1>7. /\ owner' \in [Positions -> Workers \cup {None}] /\ faults' \in 0..MaxFaults
        /\ \A i \in Positions : owner'[i] # None => i <= cursor'
    BY <1>1 DEF PInv, PipelineTypeOK, PositionsSound
  <1>8. \A i \in 1..Len(log) :
           ~(owner'[i] = None /\ i <= cursor' /\ (owner[i] # None \/ i > cursor))
    BY <1>1 DEF PInv, PipelineTypeOK
  <1> QED
    BY <1>1, <1>4, <1>5, <1>6, <1>7, <1>8, WorkerKeeps

\* XAUTOCLAIM: only trimmed entries leave the pending list.
LEMMA AutoClaimSound ==
  ASSUME PInv, NEW w \in Workers, AutoClaim(w)
  PROVE  /\ owner' \in [Positions -> Workers \cup {None}]
         /\ idle' \in SUBSET Positions
         /\ \A i \in Positions : owner'[i] # None => owner[i] # None
         /\ \A i \in Positions : owner'[i] = None => owner[i] = None \/ i <= trimmed
  <1>1. Claimable \in SUBSET {i \in Positions : owner[i] # None}
    BY DEF Claimable, FirstN
  <1>2. owner \in [Positions -> Workers \cup {None}] /\ idle \in SUBSET Positions
    BY DEF PInv, PipelineTypeOK
  <1> QED
    BY <1>1, <1>2, NobodyAssumption DEF AutoClaim

\* A claim that succeeds or fails, with or without effect.
LEMMA ClaimKeeps ==
  ASSUME PInv, NEW w \in Workers, Claim(w) \/ ClaimFails(w)
  PROVE  PInv'
  <1>1. /\ Goto(w, "own") \/ Goto(w, "new")
        /\ AutoClaim(w) \/ UNCHANGED pending
        /\ UNCHANGED <<now, ingress, stream, group, cursor, tables>>
    BY DEF Claim, ClaimFails
  <1>2. faults' \in 0..MaxFaults
    BY FaultTyped DEF Claim, ClaimFails, PInv, PipelineTypeOK
  <1>3. /\ worker' \in [Workers -> WorkerState]
        /\ \A v \in Workers : v # w => worker'[v] = worker[v]
        /\ BatchSound(w)'
    BY <1>1, EmptyHanded
  <1>4. /\ owner' \in [Positions -> Workers \cup {None}]
        /\ idle' \in SUBSET Positions
        /\ \A i \in Positions : owner'[i] # None => owner[i] # None
        /\ \A i \in Positions : owner'[i] = None => owner[i] = None \/ i <= trimmed
    <2>1. CASE AutoClaim(w)
      BY <2>1, AutoClaimSound
    <2>2. CASE UNCHANGED pending
      BY <2>2 DEF PInv, PipelineTypeOK, pending
    <2> QED
      BY <1>1, <2>1, <2>2
  <1>5. /\ cursor' = cursor /\ cursor' \in cursor..Len(log) /\ group' \in BOOLEAN
        /\ ~group' => cursor' = 0
    BY <1>1 DEF PInv, PipelineTypeOK, PositionsSound
  <1>6. \A i \in Positions : owner'[i] # None => i <= cursor'
    BY <1>4, <1>5 DEF PInv, PositionsSound
  <1>7. \A i \in 1..Len(log) :
           ~(i > trimmed /\ owner'[i] = None /\ i <= cursor' /\ (owner[i] # None \/ i > cursor))
    <2> SUFFICES ASSUME NEW i \in 1..Len(log), i > trimmed, owner'[i] = None, i <= cursor
                 PROVE  owner[i] = None
      BY <1>5 DEF PInv, PipelineTypeOK
    <2>1. i \in Positions /\ ~(i <= trimmed)
      BY BoundsAssumption DEF PInv, PositionsSound, PipelineTypeOK, Positions
    <2> QED
      BY <1>4, <2>1
  <1> QED
    BY <1>1, <1>2, <1>3, <1>4, <1>5, <1>6, <1>7, WorkerKeeps

\* XREADGROUP >: the cursor moves over the entries that are delivered and no other,
\* because the batch is a prefix of what is behind the cursor.
LEMMA ReadNewKeeps ==
  ASSUME PInv, NEW w \in Workers, ReadNew(w)
  PROVE  PInv'
  <1> DEFINE unread == {i \in 1..Len(log) : i > cursor /\ i > trimmed}
             fresh == FirstN(unread, Count)
  <1>1. /\ UNCHANGED <<now, ingress, stream, group, idle, tables, faults>>
        /\ worker[w].pc = "new" /\ group
        /\ \/ Goto(w, "own") /\ UNCHANGED <<cursor, owner>>
           \/ /\ fresh # {}
              /\ Take(w, fresh)
              /\ cursor' = CHOOSE i \in fresh : \A j \in fresh : j <= i
              /\ owner' = [i \in Positions |-> IF i \in fresh THEN w ELSE owner[i]]
    BY DEF ReadNew
  <1>2. /\ Len(log) \in Nat /\ cursor \in 0..Len(log) /\ trimmed \in 0..Len(log)
        /\ 1..Len(log) \subseteq Positions /\ Count \in Nat
    BY BoundsAssumption, CountAssumption DEF PInv, PipelineTypeOK, PositionsSound, Positions
  <1>3. unread \in SUBSET (1..Len(log)) /\ fresh \in SUBSET unread
    BY DEF FirstN
  <1>4. group' \in BOOLEAN /\ (~group' => cursor' = 0)
    BY <1>1 DEF PInv, PipelineTypeOK
  <1>5. faults' \in 0..MaxFaults /\ idle' \in SUBSET Positions
    BY <1>1 DEF PInv, PipelineTypeOK
  <1>6. CASE Goto(w, "own") /\ UNCHANGED <<cursor, owner>>
    <2>1. /\ worker' \in [Workers -> WorkerState]
          /\ \A v \in Workers : v # w => worker'[v] = worker[v]
          /\ BatchSound(w)'
      BY <1>6, EmptyHanded
    <2>2. /\ cursor' \in cursor..Len(log)
          /\ owner' \in [Positions -> Workers \cup {None}]
          /\ \A i \in Positions : owner'[i] # None => i <= cursor'
      BY <1>6, <1>2 DEF PInv, PipelineTypeOK, PositionsSound
    <2>3. \A i \in 1..Len(log) :
             ~(owner'[i] = None /\ i <= cursor' /\ (owner[i] # None \/ i > cursor))
      BY <1>6, <1>2
    <2> HIDE DEF unread, fresh
    <2> QED
      BY <1>1, <1>4, <1>5, <2>1, <2>2, <2>3, WorkerKeeps
  <1>7. CASE /\ fresh # {}
             /\ Take(w, fresh)
             /\ cursor' = CHOOSE i \in fresh : \A j \in fresh : j <= i
             /\ owner' = [i \in Positions |-> IF i \in fresh THEN w ELSE owner[i]]
    <2>1. cursor' \in fresh /\ \A j \in fresh : j <= cursor'
      <3>1. fresh \in SUBSET (1..Len(log))
        BY <1>3
      <3> HIDE DEF fresh, unread
      <3> QED
        BY <1>2, <1>7, <3>1, NewestPosition
    <2>2. cursor' \in cursor..Len(log) /\ cursor' > cursor
      <3>1. cursor' \in unread
        BY <1>3, <2>1
      <3> QED
        BY <1>2, <3>1
    <2>3. fresh \in SUBSET Positions /\ \A i \in fresh : i <= Len(log) /\ i <= cursor'
      BY <1>2, <1>3, <2>1
    <2>4. /\ worker' \in [Workers -> WorkerState]
          /\ \A v \in Workers : v # w => worker'[v] = worker[v]
          /\ BatchSound(w)'
      <3> HIDE DEF fresh, unread
      <3> QED
        BY <1>1, <1>7, <2>3, FreshBatch
    <2>5. owner' \in [Positions -> Workers \cup {None}]
      <3> HIDE DEF fresh, unread
      <3> QED
        BY <1>7 DEF PInv, PipelineTypeOK
    <2>6. \A i \in Positions : owner'[i] # None => i <= cursor'
      <3> SUFFICES ASSUME NEW i \in Positions, owner'[i] # None
                   PROVE  i <= cursor'
        OBVIOUS
      <3>1. CASE i \in fresh
        BY <2>1, <3>1
      <3>2. CASE i \notin fresh
        <4>1. owner[i] # None
          <5> HIDE DEF fresh, unread
          <5> QED
            BY <1>7, <3>2
        <4>2. i <= cursor /\ i \in Nat
          BY <4>1 DEF PInv, PositionsSound, Positions
        <4> QED
          BY <1>2, <2>2, <4>2
      <3> QED
        BY <3>1, <3>2
    <2>7. \A i \in 1..Len(log) :
             ~(i > trimmed /\ owner'[i] = None /\ i <= cursor' /\ (owner[i] # None \/ i > cursor))
      <3> SUFFICES ASSUME NEW i \in 1..Len(log), i > trimmed, owner'[i] = None, i <= cursor',
                          owner[i] # None \/ i > cursor
                   PROVE  FALSE
        OBVIOUS
      <3>1. i \in Positions
        BY <1>2
      <3>2. i \notin fresh /\ owner[i] = None
        <4> HIDE DEF fresh, unread
        <4> QED
          BY <1>7, <3>1, NobodyAssumption
      <3>3. i \in unread
        BY <3>2
      <3>4. i \in fresh
        <4> HIDE DEF unread
        <4> QED
          BY <1>2, <1>3, <2>1, <3>3, FirstNPrefix
      <3> QED
        BY <3>2, <3>4
    <2> HIDE DEF unread, fresh
    <2> QED
      BY <1>1, <1>4, <1>5, <2>2, <2>4, <2>5, <2>6, <2>7, WorkerKeeps
  <1> HIDE DEF unread, fresh
  <1> QED
    BY <1>1, <1>6, <1>7

\* XACK: a batch in this state has its untrimmed readings in both tables, whoever its
\* entries are pending for.
LEMMA AckKeeps ==
  ASSUME PInv, NEW w \in Workers, Ack(w)
  PROVE  PInv'
  <1>1. /\ worker[w].pc = "ack"
        /\ owner' = [i \in Positions |-> IF i \in worker[w].batch THEN None ELSE owner[i]]
        /\ idle' = idle \ worker[w].batch
        /\ Goto(w, "own")
        /\ UNCHANGED <<now, ingress, stream, group, cursor, tables, faults>>
    BY DEF Ack
  <1>2. /\ owner' \in [Positions -> Workers \cup {None}] /\ idle' \in SUBSET Positions
        /\ faults' \in 0..MaxFaults
    BY <1>1 DEF PInv, PipelineTypeOK
  <1>3. /\ worker' \in [Workers -> WorkerState]
        /\ \A v \in Workers : v # w => worker'[v] = worker[v]
        /\ BatchSound(w)'
    BY <1>1, EmptyHanded
  <1>4. /\ cursor' = cursor /\ cursor' \in cursor..Len(log) /\ group' \in BOOLEAN
        /\ ~group' => cursor' = 0
    BY <1>1 DEF PInv, PipelineTypeOK, PositionsSound
  <1>5. \A i \in Positions : owner'[i] # None => i <= cursor'
    BY <1>1 DEF PInv, PositionsSound
  <1>6. \A i \in 1..Len(log) :
           /\ i > trimmed /\ IsReading(i)
           /\ owner'[i] = None /\ i <= cursor' /\ (owner[i] # None \/ i > cursor)
           => copies[i] > 0 /\ log[i].ts <= lastSeen[log[i].robot]
    <2> SUFFICES ASSUME NEW i \in 1..Len(log), i > trimmed, IsReading(i), owner'[i] = None,
                        i <= cursor, owner[i] # None
                 PROVE  copies[i] > 0 /\ log[i].ts <= lastSeen[log[i].robot]
      BY <1>4 DEF PInv, PipelineTypeOK
    <2>1. i \in Positions
      BY BoundsAssumption DEF PInv, PositionsSound, PipelineTypeOK, Positions
    <2>2. i \in worker[w].batch
      BY <1>1, <2>1
    <2>3. i \in worker[w].rows /\ i \notin worker[w].left
      BY <1>1, <2>2 DEF PInv, BatchSound
    <2> QED
      BY <1>1, <2>3 DEF PInv, BatchSound
  <1> QED
    BY <1>1, <1>2, <1>3, <1>4, <1>5, <1>6, WorkerKeeps

-----------------------------------------------------------------------------
(* Redis: entries become idle, everything is lost in a restart. *)

\* Idleness is no part of the invariant but for its type.
LEMMA EntryIdlesKeeps ==
  ASSUME PInv, NEW i \in Positions, EntryIdles(i)
  PROVE  PInv'
  <1>1. /\ idle' = idle \cup {i}
        /\ UNCHANGED <<now, made, task, log, trimmed, group, cursor, owner, worker, copies,
                       lastSeen, faults>>
    BY DEF EntryIdles, ingress, stream, tables
  <1>2. PipelineTypeOK'
    BY <1>1 DEF PInv, PipelineTypeOK
  <1>3. PositionsSound' /\ (\A w \in Workers : BatchSound(w)') /\ StampsSound'
    BY <1>1 DEF PInv, PositionsSound, BatchSound, StampsSound, IsReading
  <1>4. AtLeastOnce' /\ RosterInStep' /\ SeenNotAhead'
    BY <1>1 DEF PInv, AtLeastOnce, RosterInStep, SeenNotAhead, Held, IsReading
  <1> QED
    BY <1>2, <1>3, <1>4 DEF PInv

\* After a restart of Redis no entry is held, so that nothing is promised of any.
LEMMA RedisRestartKeeps ==
  ASSUME PInv, RedisRestart
  PROVE  PInv'
  <1>1. /\ trimmed' = Len(log) /\ group' = FALSE /\ cursor' = 0
        /\ owner' = [i \in Positions |-> None] /\ idle' = {}
        /\ UNCHANGED <<now, made, task, log, worker, copies, lastSeen>>
    BY DEF RedisRestart, ingress, tables
  <1>2. faults' \in 0..MaxFaults
    BY FaultTyped DEF PInv, RedisRestart
  <1>3. Len(log) \in Nat /\ trimmed \in 0..Len(log)
    BY DEF PInv, PipelineTypeOK
  <1>4. PipelineTypeOK'
    <2>1. /\ trimmed' \in 0..Len(log') /\ cursor' \in 0..Len(log')
          /\ owner' \in [Positions -> Workers \cup {None}] /\ idle' \in SUBSET Positions
      BY <1>1, <1>3
    <2>2. group' \in BOOLEAN
      BY <1>1
    <2> QED
      BY <1>1, <1>2, <2>1, <2>2 DEF PInv, PipelineTypeOK
  <1>5. PositionsSound' /\ StampsSound' /\ SeenNotAhead'
    BY <1>1 DEF PInv, PositionsSound, StampsSound, SeenNotAhead, IsReading
  <1>6. \A w \in Workers : BatchSound(w)'
    <2> SUFFICES ASSUME NEW w \in Workers
                 PROVE  BatchSound(w)'
      OBVIOUS
    <2>1. \A i \in worker[w].batch : i \in Nat /\ i <= Len(log)
      BY DEF PInv, PipelineTypeOK, WorkerState, Positions, BatchSound
    <2> QED
      BY <1>1, <1>3, <2>1 DEF PInv, BatchSound, IsReading
  <1>7. AtLeastOnce' /\ RosterInStep'
    BY <1>1, <1>3 DEF PInv, AtLeastOnce, RosterInStep, Held
  <1> QED
    BY <1>4, <1>5, <1>6, <1>7 DEF PInv

-----------------------------------------------------------------------------
(* process_batch. *)

\* insert_many adds rows and removes none.
LEMMA InsertedSound ==
  ASSUME PipelineTypeOK, NEW S \in SUBSET Positions
  PROVE  /\ Inserted(S) \in [Positions -> 0..2]
         /\ \A i \in Positions : Inserted(S)[i] > 0 <=> (copies[i] > 0 \/ i \in S)
  <1>1. \A i \in Positions : copies[i] \in 0..2
    BY DEF PipelineTypeOK
  <1>2. \A i \in Positions :
           Inserted(S)[i] = IF i \in S /\ copies[i] < 2 THEN copies[i] + 1 ELSE copies[i]
    BY DEF Inserted
  <1>3. \A i \in Positions : /\ Inserted(S)[i] \in 0..2
                             /\ Inserted(S)[i] > 0 <=> (copies[i] > 0 \/ i \in S)
    BY <1>1, <1>2
  <1>4. Inserted(S) \in [Positions -> 0..2]
    BY <1>3 DEF Inserted
  <1> QED
    BY <1>3, <1>4

\* A step of process_batch adds rows of the batch to the table, moves last_seen
\* forward to times of stored rows, and leaves the stream alone.  A row that is
\* added without being pending was in both tables before.
LEMMA PersistKeeps ==
  ASSUME PInv, NEW w \in Workers, NEW S \in SUBSET worker[w].rows,
         UNCHANGED <<now, ingress, stream, group, cursor, pending, faults>>,
         copies' \in [Positions -> 0..2],
         \A i \in Positions : copies'[i] > 0 <=> (copies[i] > 0 \/ i \in S),
         lastSeen' \in [Robots -> Nat],
         \A r \in Robots :
            /\ lastSeen'[r] >= lastSeen[r]
            /\ \/ lastSeen'[r] = lastSeen[r]
               \/ \E i \in worker[w].rows :
                     copies'[i] > 0 /\ log[i].robot = r /\ log[i].ts = lastSeen'[r],
         worker' \in [Workers -> WorkerState],
         \A v \in Workers : v # w => worker'[v] = worker[v],
         BatchSound(w)'
  PROVE  PInv'
  <1>1. UNCHANGED <<now, made, task, log, trimmed, group, cursor, owner, idle, faults>>
    BY DEF ingress, stream, pending
  <1>2. /\ Len(log) \in Nat /\ trimmed \in 0..Len(log) /\ cursor \in 0..Len(log)
        /\ 1..Len(log) \subseteq Positions
    BY BoundsAssumption DEF PInv, PipelineTypeOK, PositionsSound, Positions
  <1>3. \A i \in worker[w].rows :
           i \in 1..Len(log) /\ IsReading(i) /\ (i <= trimmed \/ i <= cursor)
    <2>1. worker[w].batch \subseteq Positions
      BY DEF PInv, PipelineTypeOK, WorkerState
    <2> QED
      BY <2>1 DEF PInv, BatchSound, Positions
  <1>4. \A i \in 1..Len(log) : IsReading(i) => lastSeen[log[i].robot] <= lastSeen'[log[i].robot]
    BY LogFields DEF PInv, PipelineTypeOK
  <1>5. PipelineTypeOK'
    BY <1>1 DEF PInv, PipelineTypeOK
  <1>6. PositionsSound'
    <2>1. \A i \in Positions : copies'[i] > 0 => i <= Len(log) /\ IsReading(i)
      BY <1>2, <1>3 DEF PInv, PositionsSound
    <2> QED
      BY <1>1, <2>1 DEF PInv, PositionsSound, IsReading
  <1>7. \A v \in Workers : BatchSound(v)'
    <2> SUFFICES ASSUME NEW v \in Workers, v # w
                 PROVE  BatchSound(v)'
      OBVIOUS
    <2>1. worker'[v] = worker[v] /\ BatchSound(v)
      BY DEF PInv
    <2>2. \A i \in worker[v].rows : i \in Positions /\ i \in 1..Len(log) /\ IsReading(i)
      <3>1. worker[v].batch \subseteq Positions
        BY DEF PInv, PipelineTypeOK, WorkerState
      <3> QED
        BY <2>1, <3>1 DEF BatchSound, Positions
    <2>3. \A i \in worker[v].rows : copies[i] > 0 => copies'[i] > 0
      BY <2>2
    <2>4. worker[v].pc = "ack" =>
             \A i \in worker[v].rows : log[i].ts <= lastSeen'[log[i].robot]
      <3> SUFFICES ASSUME worker[v].pc = "ack", NEW i \in worker[v].rows
                   PROVE  log[i].ts <= lastSeen'[log[i].robot]
        OBVIOUS
      <3>1. log[i].ts <= lastSeen[log[i].robot]
        BY <2>1 DEF BatchSound
      <3>2. lastSeen[log[i].robot] <= lastSeen'[log[i].robot]
        BY <1>4, <2>2
      <3>3. log[i].ts \in Nat /\ log[i].robot \in Robots
        BY <2>2, LogFields DEF PInv
      <3> QED
        BY <3>1, <3>2, <3>3 DEF PInv, PipelineTypeOK
    <2> QED
      BY <1>1, <2>1, <2>3, <2>4 DEF BatchSound, IsReading
  <1>8. StampsSound'
    BY <1>1 DEF PInv, StampsSound
  <1>9. AtLeastOnce'
    BY <1>1, <1>2 DEF PInv, AtLeastOnce, Held, IsReading
  <1>10. RosterInStep'
    <2>1. \A r \in Robots : lastSeen'[r] # 0 =>
             \E i \in 1..Len(log) : copies'[i] > 0 /\ log[i].robot = r /\ log[i].ts = lastSeen'[r]
      <3> SUFFICES ASSUME NEW r \in Robots, lastSeen'[r] # 0
                   PROVE  \E i \in 1..Len(log) : /\ copies'[i] > 0 /\ log[i].robot = r
                                                 /\ log[i].ts = lastSeen'[r]
        OBVIOUS
      <3>1. CASE lastSeen'[r] = lastSeen[r]
        BY <1>2, <3>1 DEF PInv, RosterInStep
      <3>2. CASE lastSeen'[r] # lastSeen[r]
        BY <1>3, <3>2
      <3> QED
        BY <3>1, <3>2
    <2>2. \A i \in 1..Len(log) :
             (copies'[i] > 0 /\ i > trimmed /\ owner[i] = None) =>
                log[i].ts <= lastSeen'[log[i].robot]
      <3> SUFFICES ASSUME NEW i \in 1..Len(log), copies'[i] > 0, i > trimmed, owner[i] = None
                   PROVE  log[i].ts <= lastSeen'[log[i].robot]
        OBVIOUS
      <3>1. copies[i] > 0 /\ IsReading(i)
        <4>1. CASE copies[i] > 0
          BY <1>2, <4>1 DEF PInv, PositionsSound
        <4>2. CASE i \in S
          <5>1. IsReading(i) /\ i <= cursor
            BY <1>2, <1>3, <4>2
          <5> QED
            BY <5>1 DEF PInv, AtLeastOnce, Held
        <4> QED
          BY <1>2, <4>1, <4>2
      <3>2. log[i].ts <= lastSeen[log[i].robot]
        BY <3>1 DEF PInv, RosterInStep
      <3>3. lastSeen[log[i].robot] <= lastSeen'[log[i].robot]
        BY <1>4, <3>1
      <3>4. log[i].ts \in Nat /\ log[i].robot \in Robots
        BY <3>1, LogFields DEF PInv
      <3> QED
        BY <3>2, <3>3, <3>4 DEF PInv, PipelineTypeOK
    <2> QED
      BY <1>1, <2>1, <2>2 DEF RosterInStep
  <1>11. SeenNotAhead'
    BY <1>1, <1>3 DEF PInv, SeenNotAhead, StampsSound
  <1> QED
    BY <1>5, <1>6, <1>7, <1>8, <1>9, <1>10, <1>11 DEF PInv

\* The rows of a worker are readings of the log, and its record is typed.
LEMMA RowsInLog ==
  ASSUME PInv, NEW w \in Workers
  PROVE  /\ worker[w] \in WorkerState
         /\ worker[w].rows \in SUBSET Positions
         /\ worker[w].left \in SUBSET worker[w].rows
         /\ worker[w].rows \in SUBSET (1..Len(log))
         /\ \A i \in worker[w].rows : log[i].robot \in Robots /\ log[i].ts \in Nat
  <1>1. worker[w] \in WorkerState /\ BatchSound(w)
    BY DEF PInv, PipelineTypeOK
  <1>2. worker[w].rows \in SUBSET Positions /\ worker[w].left \in SUBSET worker[w].rows
    BY <1>1 DEF WorkerState, BatchSound
  <1>3. worker[w].rows \in SUBSET (1..Len(log))
    BY <1>1, <1>2 DEF BatchSound, Positions
  <1>4. \A i \in worker[w].rows : log[i].robot \in Robots /\ log[i].ts \in Nat
    BY <1>1, <1>3, LogFields DEF PInv, BatchSound
  <1> QED
    BY <1>1, <1>2, <1>3, <1>4

\* The roster update of a batch, for all robots.
LEMMA MarkSeenOfRows ==
  ASSUME PInv, NEW w \in Workers, lastSeen' = MarkSeen(worker[w].rows)
  PROVE  /\ lastSeen' \in [Robots -> Nat]
         /\ \A r \in Robots :
               /\ lastSeen'[r] >= lastSeen[r]
               /\ \/ lastSeen'[r] = lastSeen[r]
                  \/ \E i \in worker[w].rows : log[i].robot = r /\ log[i].ts = lastSeen'[r]
         /\ \A i \in worker[w].rows : log[i].ts <= lastSeen'[log[i].robot]
  <1> DEFINE S == worker[w].rows
  <1>1. S \in SUBSET (1..Len(log)) /\ \A i \in S : log[i].robot \in Robots
    BY RowsInLog
  <1> HIDE DEF S
  <1>2. \A r \in Robots :
           /\ MarkSeen(S)[r] \in Nat
           /\ MarkSeen(S)[r] >= lastSeen[r]
           /\ \A i \in S : log[i].robot = r => log[i].ts <= MarkSeen(S)[r]
           /\ \/ MarkSeen(S)[r] = lastSeen[r]
              \/ \E i \in S : log[i].robot = r /\ log[i].ts = MarkSeen(S)[r]
    BY <1>1, MarkSeenSound DEF PInv
  <1>3. lastSeen' = MarkSeen(S)
    BY DEF S
  <1>4. lastSeen' \in [Robots -> Nat]
    BY <1>2, <1>3 DEF MarkSeen
  <1>5. /\ \A r \in Robots :
              /\ lastSeen'[r] >= lastSeen[r]
              /\ \/ lastSeen'[r] = lastSeen[r]
                 \/ \E i \in S : log[i].robot = r /\ log[i].ts = lastSeen'[r]
        /\ \A i \in S : log[i].ts <= lastSeen'[log[i].robot]
    BY <1>1, <1>2, <1>3
  <1> QED
    BY <1>4, <1>5 DEF S

\* The whole batch in one transaction.
LEMMA PersistBatchKeeps ==
  ASSUME PInv, NEW w \in Workers, PersistBatch(w)
  PROVE  PInv'
  <1>1. /\ copies' = Inserted(worker[w].rows)
        /\ lastSeen' = MarkSeen(worker[w].rows)
        /\ worker' = [worker EXCEPT ![w].pc = "ack", ![w].left = {}]
        /\ UNCHANGED <<now, ingress, stream, group, cursor, pending, faults>>
    BY DEF PersistBatch
  <1>2. UNCHANGED <<log, trimmed>>
    BY <1>1 DEF stream
  <1>3. /\ copies' \in [Positions -> 0..2]
        /\ \A i \in Positions : copies'[i] > 0 <=> (copies[i] > 0 \/ i \in worker[w].rows)
    BY <1>1, RowsInLog, InsertedSound DEF PInv
  <1>4. /\ lastSeen' \in [Robots -> Nat]
        /\ \A r \in Robots :
               /\ lastSeen'[r] >= lastSeen[r]
               /\ \/ lastSeen'[r] = lastSeen[r]
                  \/ \E i \in worker[w].rows : log[i].robot = r /\ log[i].ts = lastSeen'[r]
        /\ \A i \in worker[w].rows : log[i].ts <= lastSeen'[log[i].robot]
    BY <1>1, MarkSeenOfRows
  <1>5. /\ worker' \in [Workers -> WorkerState]
        /\ \A v \in Workers : v # w => worker'[v] = worker[v]
        /\ worker'[w].pc = "ack" /\ worker'[w].left = {}
        /\ worker'[w].batch = worker[w].batch /\ worker'[w].rows = worker[w].rows
    BY <1>1 DEF PInv, PipelineTypeOK, WorkerState
  <1>6. \A i \in worker[w].rows : copies'[i] > 0
    BY <1>3, RowsInLog
  <1>7. BatchSound(w)'
    BY <1>1, <1>2, <1>4, <1>5, <1>6 DEF PInv, BatchSound, IsReading
  <1>8. \A r \in Robots :
           /\ lastSeen'[r] >= lastSeen[r]
           /\ \/ lastSeen'[r] = lastSeen[r]
              \/ \E i \in worker[w].rows :
                    copies'[i] > 0 /\ log[i].robot = r /\ log[i].ts = lastSeen'[r]
    BY <1>4, <1>6
  <1> DEFINE S == worker[w].rows
  <1>9. S \in SUBSET worker[w].rows
    OBVIOUS
  <1> QED
    BY <1>1, <1>3, <1>4, <1>5, <1>7, <1>8, <1>9, PersistKeeps

\* One row, committed by itself.
LEMMA PersistRowKeeps ==
  ASSUME PInv, NEW w \in Workers, PersistRow(w)
  PROVE  PInv'
  <1>1. PICK i \in worker[w].left :
           /\ worker[w].pc = "persist"
           /\ copies' = Inserted({i})
           /\ worker' = [worker EXCEPT ![w].left = @ \ {i}]
           /\ UNCHANGED <<now, ingress, stream, group, cursor, pending, lastSeen, faults>>
    BY DEF PersistRow
  <1>2. UNCHANGED <<log, trimmed>>
    BY <1>1 DEF stream
  <1>3. {i} \in SUBSET worker[w].rows /\ {i} \in SUBSET Positions
    BY RowsInLog
  <1>4. /\ copies' \in [Positions -> 0..2]
        /\ \A j \in Positions : copies'[j] > 0 <=> (copies[j] > 0 \/ j \in {i})
    BY <1>1, <1>3, InsertedSound DEF PInv
  <1>5. /\ worker' \in [Workers -> WorkerState]
        /\ \A v \in Workers : v # w => worker'[v] = worker[v]
        /\ worker'[w].pc = "persist" /\ worker'[w].left = worker[w].left \ {i}
        /\ worker'[w].batch = worker[w].batch /\ worker'[w].rows = worker[w].rows
    BY <1>1 DEF PInv, PipelineTypeOK, WorkerState
  <1>6. BatchSound(w)'
    <2>1. \A j \in worker[w].rows : j \notin worker'[w].left => copies'[j] > 0
      <3>1. worker[w].rows \in SUBSET Positions
        BY RowsInLog
      <3> QED
        BY <1>4, <1>5, <3>1 DEF PInv, BatchSound
    <2> QED
      BY <1>1, <1>2, <1>5, <2>1 DEF PInv, BatchSound, IsReading
  <1>7. /\ lastSeen' \in [Robots -> Nat]
        /\ \A r \in Robots : lastSeen'[r] = lastSeen[r] /\ lastSeen'[r] >= lastSeen[r]
    BY <1>1 DEF PInv, PipelineTypeOK
  <1> QED
    BY <1>1, <1>3, <1>4, <1>5, <1>6, <1>7, PersistKeeps

\* The roster after the last row.
LEMMA PersistRosterKeeps ==
  ASSUME PInv, NEW w \in Workers, PersistRoster(w)
  PROVE  PInv'
  <1>1. /\ worker[w].left = {}
        /\ lastSeen' = MarkSeen(worker[w].rows)
        /\ worker' = [worker EXCEPT ![w].pc = "ack"]
        /\ UNCHANGED <<now, ingress, stream, group, cursor, pending, copies, faults>>
    BY DEF PersistRoster
  <1>2. UNCHANGED <<log, trimmed>>
    BY <1>1 DEF stream
  <1>3. /\ lastSeen' \in [Robots -> Nat]
        /\ \A r \in Robots :
               /\ lastSeen'[r] >= lastSeen[r]
               /\ \/ lastSeen'[r] = lastSeen[r]
                  \/ \E i \in worker[w].rows : log[i].robot = r /\ log[i].ts = lastSeen'[r]
        /\ \A i \in worker[w].rows : log[i].ts <= lastSeen'[log[i].robot]
    BY <1>1, MarkSeenOfRows
  <1>4. /\ worker' \in [Workers -> WorkerState]
        /\ \A v \in Workers : v # w => worker'[v] = worker[v]
        /\ worker'[w].pc = "ack" /\ worker'[w].left = {}
        /\ worker'[w].batch = worker[w].batch /\ worker'[w].rows = worker[w].rows
    BY <1>1 DEF PInv, PipelineTypeOK, WorkerState
  <1>5. \A i \in worker[w].rows : copies'[i] > 0
    BY <1>1 DEF PInv, BatchSound
  <1>6. BatchSound(w)'
    BY <1>1, <1>2, <1>3, <1>4, <1>5 DEF PInv, BatchSound, IsReading
  <1>7. \A r \in Robots :
           /\ lastSeen'[r] >= lastSeen[r]
           /\ \/ lastSeen'[r] = lastSeen[r]
              \/ \E i \in worker[w].rows :
                    copies'[i] > 0 /\ log[i].robot = r /\ log[i].ts = lastSeen'[r]
    BY <1>3, <1>5
  <1> DEFINE S == {}
  <1>8. /\ S \in SUBSET worker[w].rows
        /\ copies' \in [Positions -> 0..2]
        /\ \A i \in Positions : copies'[i] > 0 <=> (copies[i] > 0 \/ i \in S)
    BY <1>1 DEF PInv, PipelineTypeOK
  <1> QED
    BY <1>1, <1>3, <1>4, <1>6, <1>7, <1>8, PersistKeeps

-----------------------------------------------------------------------------
(* The theorems. *)

\* The invariant holds initially.
LEMMA PInvInit ==
  ASSUME PipelineInit
  PROVE  PInv
  <1>1. PipelineTypeOK
    <2>1. group \in BOOLEAN
      BY DEF PipelineInit
    <2>2. worker \in [Workers -> WorkerState]
      BY DEF PipelineInit, Stopped, WorkerState
    <2>3. /\ now \in 1..MaxTime /\ made \in 0..MaxPost /\ faults \in 0..MaxFaults
          /\ trimmed \in 0..Len(log) /\ cursor \in 0..Len(log)
          /\ task \in [Posts -> Seq(Entry)] /\ log \in Seq(Entry)
      BY BoundsAssumption DEF PipelineInit
    <2>4. /\ owner \in [Positions -> Workers \cup {None}] /\ idle \in SUBSET Positions
          /\ copies \in [Positions -> 0..2] /\ lastSeen \in [Robots -> Nat]
      BY DEF PipelineInit
    <2> QED
      BY <2>1, <2>2, <2>3, <2>4 DEF PipelineTypeOK
  <1>2. PositionsSound
    BY BoundsAssumption DEF PipelineInit, PositionsSound
  <1>3. \A w \in Workers : BatchSound(w)
    BY DEF PipelineInit, BatchSound, Stopped
  <1>4. StampsSound /\ AtLeastOnce /\ RosterInStep
    BY DEF PipelineInit, StampsSound, AtLeastOnce, RosterInStep
  <1>5. SeenNotAhead
    BY BoundsAssumption DEF PipelineInit, SeenNotAhead
  <1> QED
    BY <1>1, <1>2, <1>3, <1>4, <1>5 DEF PInv

\* Every step of the pipeline keeps it.
LEMMA PInvNext ==
  ASSUME PInv, [PipelineNext]_pvars
  PROVE  PInv'
  <1>1. CASE Accept \/ AcceptOther \/ Tick \/ RedisRestart
    BY <1>1, AcceptKeeps, AcceptOtherKeeps, TickKeeps, RedisRestartKeeps
  <1>2. ASSUME NEW p \in Posts, XAdd(p) \/ XAddFails(p)
        PROVE  PInv'
    BY <1>2, XAddKeeps, XAddFailsKeeps
  <1>3. ASSUME NEW w \in Workers, WorkerStep(w) \/ WorkerFault(w)
        PROVE  PInv'
    <2>1. CASE Start(w) \/ StartFails(w)
      BY <2>1, StartKeeps
    <2>2. CASE ReadOwn(w) \/ ReadNew(w)
      BY <2>2, ReadOwnKeeps, ReadNewKeeps
    <2>3. CASE Claim(w) \/ ClaimFails(w)
      BY <2>3, ClaimKeeps
    <2>4. CASE NoGroup(w) \/ Rejected(w) \/ LoopFails(w) \/ Crash(w)
      BY <2>4, DropKeeps
    <2>5. CASE PersistBatch(w) \/ PersistRow(w) \/ PersistRoster(w)
      BY <2>5, PersistBatchKeeps, PersistRowKeeps, PersistRosterKeeps
    <2>6. CASE Ack(w)
      BY <2>6, AckKeeps
    <2> QED
      BY <1>3, <2>1, <2>2, <2>3, <2>4, <2>5, <2>6 DEF WorkerStep, WorkerFault, Persist
  <1>4. ASSUME NEW i \in Positions, EntryIdles(i)
        PROVE  PInv'
    BY <1>4, EntryIdlesKeeps
  <1>5. CASE UNCHANGED pvars
    <2>1. UNCHANGED <<now, made, task, log, trimmed, group, cursor, owner, idle, worker, copies,
                      lastSeen, faults>>
      BY <1>5 DEF pvars, ingress, stream, pending, tables
    <2> QED
      BY <2>1 DEF PInv, PipelineTypeOK, PositionsSound, BatchSound, StampsSound, AtLeastOnce,
                  RosterInStep, SeenNotAhead, Held, IsReading
  <1> QED
    BY <1>1, <1>2, <1>3, <1>4, <1>5 DEF PipelineNext

\* The invariant of the pipeline.
THEOREM PipelineInvariant == PipelineSpec => []PInv
  <1>1. PipelineInit => PInv
    BY PInvInit
  <1>2. PInv /\ [PipelineNext]_pvars => PInv'
    BY PInvNext
  <1> QED
    BY <1>1, <1>2, PTL DEF PipelineSpec

\* Every variable of API, stream, workers and tables keeps its type.
THEOREM PipelineTyped == PipelineSpec => []PipelineTypeOK
  <1>1. PInv => PipelineTypeOK
    BY DEF PInv
  <1> QED
    BY <1>1, PipelineInvariant, PTL

\* process_batch acknowledges nothing that is not persisted, however many workers
\* work on whatever batches, and whatever fails.
THEOREM DeliveredAtLeastOnce == PipelineSpec => []AtLeastOnce
  <1>1. PInv => AtLeastOnce
    BY DEF PInv
  <1> QED
    BY <1>1, PipelineInvariant, PTL

\* robots.last_seen and the telemetry table agree on every acknowledged reading.
THEOREM RosterAgrees == PipelineSpec => []RosterInStep
  <1>1. PInv => RosterInStep
    BY DEF PInv
  <1> QED
    BY <1>1, PipelineInvariant, PTL

\* resolve_timestamp keeps last_seen within the skew of the server's clock.
THEOREM SkewBounded == PipelineSpec => []SeenNotAhead
  <1>1. PInv => SeenNotAhead
    BY DEF PInv
  <1> QED
    BY <1>1, PipelineInvariant, PTL

\* mark_seen only ever moves last_seen forward.
THEOREM SeenMovesForward == PipelineSpec => LastSeenForward
  <1>1. ASSUME PInv, [PipelineNext]_pvars
        PROVE  [\A r \in Robots : lastSeen[r] <= lastSeen'[r]]_pvars
    <2>1. \A r \in Robots : lastSeen[r] \in Nat
      BY <1>1 DEF PInv, PipelineTypeOK
    <2>2. CASE UNCHANGED lastSeen
      BY <2>1, <2>2
    <2>3. ASSUME NEW w \in Workers, PersistBatch(w) \/ PersistRoster(w)
          PROVE  \A r \in Robots : lastSeen[r] <= lastSeen'[r]
      <3>1. lastSeen' = MarkSeen(worker[w].rows)
        BY <2>3 DEF PersistBatch, PersistRoster
      <3>2. lastSeen' \in [Robots -> Nat] /\ \A r \in Robots : lastSeen'[r] >= lastSeen[r]
        BY <1>1, <3>1, MarkSeenOfRows
      <3> QED
        BY <2>1, <3>2
    <2>4. \/ UNCHANGED lastSeen
          \/ \E w \in Workers : PersistBatch(w) \/ PersistRoster(w)
      BY <1>1 DEF PipelineNext, Accept, AcceptOther, XAdd, XAddFails, WorkerStep, WorkerFault,
             Persist, Start, StartFails, ReadOwn, Claim, ClaimFails, ReadNew, NoGroup, PersistRow,
             Rejected, Ack, LoopFails, Crash, EntryIdles, RedisRestart, Tick, pvars, tables
    <2> QED
      BY <2>2, <2>3, <2>4
  <1> QED
    BY <1>1, PipelineInvariant, PTL DEF PipelineSpec, LastSeenForward

-----------------------------------------------------------------------------
(* What is settled stays settled. *)

\* A step of worker w that drops its batch.
LEMMA HandsDropped ==
  ASSUME PipelineTypeOK, NEW w \in Workers, NEW pc,
         Goto(w, pc) \/ worker' = [worker EXCEPT ![w] = Stopped(pc)]
  PROVE  \A v \in Workers : worker'[v].batch = worker[v].batch \/ worker'[v].batch = {}
  <1>1. worker \in [Workers -> WorkerState]
    BY DEF PipelineTypeOK
  <1>2. \A v \in Workers : v # w => worker'[v] = worker[v]
    BY <1>1 DEF Goto
  <1>3. worker'[w].batch = {}
    <2>1. CASE Goto(w, pc)
      BY <1>1, <2>1 DEF Goto, WorkerState
    <2>2. CASE worker' = [worker EXCEPT ![w] = Stopped(pc)]
      BY <1>1, <2>2 DEF Stopped
    <2> QED
      BY <2>1, <2>2
  <1> QED
    BY <1>2, <1>3

\* A step of worker w that takes a batch.
LEMMA HandsTaken ==
  ASSUME PipelineTypeOK, NEW w \in Workers, NEW B, Take(w, B)
  PROVE  \A v \in Workers : worker'[v].batch = worker[v].batch \/ worker'[v].batch = B
  <1>1. worker \in [Workers -> WorkerState]
    BY DEF PipelineTypeOK
  <1>2. \A v \in Workers : v # w => worker'[v] = worker[v]
    BY <1>1 DEF Take
  <1>3. worker'[w].batch = B
    BY <1>1 DEF Take, WorkerState
  <1> QED
    BY <1>2, <1>3

\* A settled entry is not read, claimed or inserted by anybody.
LEMMA SettledStep ==
  ASSUME PInv, PipelineNext, NEW i \in 1..Len(log), Settled(i)
  PROVE  Settled(i)' /\ copies'[i] = copies[i]
  <1>1. /\ PipelineTypeOK /\ PositionsSound /\ \A w \in Workers : BatchSound(w)
        /\ i \in Positions /\ i \in Nat /\ cursor \in Nat /\ trimmed \in Nat /\ Len(log) \in Nat
        /\ worker \in [Workers -> WorkerState]
    BY BoundsAssumption DEF PInv, PipelineTypeOK, PositionsSound, Positions
  <1>2. /\ i <= cursor \/ i <= trimmed
        /\ owner[i] = None
        /\ \A v \in Workers : i \notin worker[v].batch
    BY DEF Settled
  <1>3. \A w \in Workers : i \notin worker[w].rows /\ i \notin worker[w].left
    BY <1>1, <1>2 DEF BatchSound
  <1>4. ASSUME i <= cursor' \/ i <= trimmed', owner'[i] = None, copies'[i] = copies[i],
               \A v \in Workers : worker'[v].batch = worker[v].batch \/ worker'[v].batch = {}
        PROVE  Settled(i)' /\ copies'[i] = copies[i]
    BY <1>2, <1>4 DEF Settled
  <1>5. CASE Accept \/ AcceptOther \/ (\E p \in Posts : XAddFails(p)) \/ Tick
             \/ \E j \in Positions : EntryIdles(j)
    <2>1. UNCHANGED <<cursor, trimmed, owner, copies, worker>>
      BY <1>5 DEF Accept, AcceptOther, XAddFails, Tick, EntryIdles, stream, pending, tables
    <2> QED
      BY <1>2, <1>4, <2>1
  <1>6. ASSUME NEW p \in Posts, XAdd(p) PROVE Settled(i)' /\ copies'[i] = copies[i]
    <2>1. UNCHANGED <<cursor, owner, copies, worker>>
      BY <1>6 DEF XAdd, pending, tables
    <2>2. trimmed <= trimmed'
      <3>1. trimmed' \in {trimmed} \cup {n \in trimmed..Len(log') : n + MaxLen <= Len(log')}
        BY <1>6 DEF XAdd
      <3> QED
        BY <1>1, <3>1
    <2>3. trimmed' \in Nat
      BY <1>1, <1>6 DEF XAdd
    <2> QED
      BY <1>1, <1>2, <1>4, <2>1, <2>2, <2>3
  <1>7. CASE RedisRestart
    <2>1. /\ trimmed' = Len(log) /\ owner' = [j \in Positions |-> None]
          /\ UNCHANGED <<worker, copies>>
      BY <1>7 DEF RedisRestart, tables
    <2> QED
      BY <1>1, <1>4, <2>1
  <1>8. ASSUME NEW w \in Workers, Start(w) \/ StartFails(w)
        PROVE  Settled(i)' /\ copies'[i] = copies[i]
    <2>1. /\ worker' = [worker EXCEPT ![w] = Stopped("own")]
          /\ UNCHANGED <<trimmed, owner, copies>>
      BY <1>8 DEF Start, StartFails, stream, pending, tables
    <2>2. cursor' = cursor
      BY <1>1, <1>8 DEF Start, StartFails, PositionsSound
    <2>3. \A v \in Workers : worker'[v].batch = worker[v].batch \/ worker'[v].batch = {}
      BY <1>1, <2>1, HandsDropped
    <2> QED
      BY <1>2, <1>4, <2>1, <2>2, <2>3
  <1>9. ASSUME NEW w \in Workers, ReadOwn(w) PROVE Settled(i)' /\ copies'[i] = copies[i]
    <2>1. UNCHANGED <<cursor, trimmed, owner, copies>>
      BY <1>9 DEF ReadOwn, stream, tables
    <2>2. PICK B : B = FirstN({j \in Positions : owner[j] = w}, Count)
      OBVIOUS
    <2>3. i \notin B
      BY <1>2, <2>2, NobodyAssumption DEF FirstN
    <2>4. Goto(w, "claim") \/ Take(w, B)
      BY <1>9, <2>2 DEF ReadOwn
    <2>5. \A v \in Workers : worker'[v].batch = worker[v].batch \/ worker'[v].batch = {}
                             \/ worker'[v].batch = B
      BY <1>1, <2>4, HandsDropped, HandsTaken
    <2> QED
      BY <1>2, <2>1, <2>3, <2>5 DEF Settled
  <1>10. ASSUME NEW w \in Workers, Claim(w) \/ ClaimFails(w)
         PROVE  Settled(i)' /\ copies'[i] = copies[i]
    <2>1. /\ Goto(w, "own") \/ Goto(w, "new")
          /\ AutoClaim(w) \/ UNCHANGED owner
          /\ UNCHANGED <<cursor, trimmed, copies>>
      BY <1>10 DEF Claim, ClaimFails, stream, pending, tables
    <2>2. owner'[i] = None
      BY <1>1, <1>2, <2>1, AutoClaimSound
    <2>3. \A v \in Workers : worker'[v].batch = worker[v].batch \/ worker'[v].batch = {}
      BY <1>1, <2>1, HandsDropped
    <2> QED
      BY <1>2, <1>4, <2>1, <2>2, <2>3
  <1>11. ASSUME NEW w \in Workers, ReadNew(w) PROVE Settled(i)' /\ copies'[i] = copies[i]
    <2>1. UNCHANGED <<trimmed, copies>>
      BY <1>11 DEF ReadNew, stream, tables
    <2>2. PICK B : B = FirstN({j \in 1..Len(log) : j > cursor /\ j > trimmed}, Count)
      OBVIOUS
    <2>3. i \notin B /\ \A j \in B : j \in Nat /\ j > cursor
      BY <1>1, <1>2, <2>2 DEF FirstN
    <2>4. \/ Goto(w, "own") /\ UNCHANGED <<cursor, owner>>
          \/ /\ Take(w, B)
             /\ owner' = [j \in Positions |-> IF j \in B THEN w ELSE owner[j]]
      BY <1>11, <2>2 DEF ReadNew
    <2>5. \A v \in Workers : worker'[v].batch = worker[v].batch \/ worker'[v].batch = {}
                             \/ worker'[v].batch = B
      BY <1>1, <2>4, HandsDropped, HandsTaken
    <2>6. owner'[i] = None
      BY <1>1, <1>2, <2>3, <2>4
    <2>7. cursor' \in Nat /\ cursor <= cursor'
      <3>1. CASE UNCHANGED cursor
        BY <1>1, <3>1
      <3>2. CASE B # {} /\ cursor' = CHOOSE j \in B : \A k \in B : k <= j
        <4>1. B \in SUBSET (1..Len(log))
          BY <2>2 DEF FirstN
        <4>2. cursor' \in B
          BY <1>1, <3>2, <4>1, NewestPosition
        <4> QED
          BY <1>1, <2>3, <4>2
      <3> QED
        BY <1>11, <2>2, <3>1, <3>2 DEF ReadNew
    <2>8. i <= cursor' \/ i <= trimmed'
      BY <1>1, <1>2, <2>1, <2>7
    <2> QED
      BY <1>2, <2>1, <2>3, <2>5, <2>6, <2>8 DEF Settled
  <1>12. ASSUME NEW w \in Workers, PersistBatch(w) \/ PersistRow(w) \/ PersistRoster(w)
         PROVE  Settled(i)' /\ copies'[i] = copies[i]
    <2>1. UNCHANGED <<cursor, trimmed, owner>>
      BY <1>12 DEF PersistBatch, PersistRow, PersistRoster, stream, pending
    <2>2. \A v \in Workers : worker'[v].batch = worker[v].batch
      <3>1. CASE PersistBatch(w)
        BY <1>1, <3>1 DEF PersistBatch, WorkerState
      <3>2. CASE PersistRow(w)
        BY <1>1, <3>2 DEF PersistRow, WorkerState
      <3>3. CASE PersistRoster(w)
        BY <1>1, <3>3 DEF PersistRoster, WorkerState
      <3> QED
        BY <1>12, <3>1, <3>2, <3>3
    <2>3. copies'[i] = copies[i]
      BY <1>1, <1>3, <1>12 DEF PersistBatch, PersistRow, PersistRoster, Inserted
    <2> QED
      BY <1>2, <1>4, <2>1, <2>2, <2>3
  <1>13. ASSUME NEW w \in Workers,
                NoGroup(w) \/ Rejected(w) \/ LoopFails(w) \/ Crash(w) \/ Ack(w)
         PROVE  Settled(i)' /\ copies'[i] = copies[i]
    <2>1. UNCHANGED <<cursor, trimmed, copies>>
      BY <1>13 DEF NoGroup, Rejected, LoopFails, Crash, Ack, stream, tables
    <2>2. owner'[i] = None
      BY <1>1, <1>2, <1>13 DEF NoGroup, Rejected, LoopFails, Crash, Ack, pending
    <2>3. \A v \in Workers : worker'[v].batch = worker[v].batch \/ worker'[v].batch = {}
      <3>1. \/ Goto(w, "own")
            \/ worker' = [worker EXCEPT ![w] = Stopped("down")]
            \/ worker' = [worker EXCEPT ![w] = Stopped("gone")]
        BY <1>13 DEF NoGroup, Rejected, LoopFails, Crash, Ack
      <3> QED
        BY <1>1, <3>1, HandsDropped
    <2> QED
      BY <1>2, <1>4, <2>1, <2>2, <2>3
  <1> QED
    BY <1>5, <1>6, <1>7, <1>8, <1>9, <1>10, <1>11, <1>12, <1>13
       DEF PipelineNext, WorkerStep, WorkerFault, Persist

\* A reading the workers are through with is never inserted again, whatever worker
\* restarts, replays its pending entries or claims another one's.
THEOREM RowsAreFinal == PipelineSpec => SettledForGood
  <1>1. ASSUME PInv, [PipelineNext]_pvars
        PROVE  [\A i \in 1..Len(log) : Settled(i) => Settled(i)' /\ copies'[i] = copies[i]]_pvars
    BY <1>1, SettledStep
  <1> QED
    BY <1>1, PipelineInvariant, PTL DEF PipelineSpec, SettledForGood
=============================================================================
