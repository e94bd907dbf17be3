----------------------------- MODULE FreeTier_proofs ---------------------------
(***************************************************************************)
(* Proofs about FreeTier for any number of readings, any batch size, any   *)
(* number of requests at once and of faults.                               *)
(*                                                                         *)
(* A reading that was posted once only is in one place at a time: with the *)
(* simulator, with one handler that is still to store it, in the buffer,   *)
(* in a flush under way or in the table.  An answer is only given for rows *)
(* that have reached the buffer or the table, and what is there stays,     *)
(* except for what a failed flush or a restart drops.                      *)
(***************************************************************************)
EXTENDS FreeTier, SequenceTheorems, WellFoundedInduction, TLAPS

HandlerState ==
    [pc : {"idle", "route", "insert", "seen", "ok", "error"}, rows : Seq(Readings)]

FreeTyped ==
    /\ active \in BOOLEAN /\ viewers \in BOOLEAN
    /\ zeros \in 0..IdleAfter /\ taken \in 0..MaxReadings
    /\ outq \in Seq(Readings) /\ held \in Seq(Readings) /\ flushing \in Seq(Readings)
    /\ batch \in Seq(Readings) /\ Len(batch) <= MaxBatch
    /\ post \in [attempt : 0..Attempts, via : Handlers \cup {None}]
    /\ handler \in [Handlers -> HandlerState]
    /\ copies \in [Readings -> 0..2]
    /\ lastSeen \in 0..MaxReadings
    /\ acked \in SUBSET Readings
    /\ faults \in 0..MaxFaults

\* The handler the simulator awaits is working on the batch in hand.
PostInv ==
    /\ post.via # None => post.attempt > 0
    /\ \A h \in Handlers : post.via = h => handler[h].pc # "idle" /\ handler[h].rows = batch

\* A reading that is stored, about to be, or dropped on the record.
Safe(i) == copies[i] > 0 \/ i \in ToSet(held) \cup ToSet(flushing) \cup dropped

\* What a handler has done by the time it gets where it is.
HandlerInv(h) ==
    /\ handler[h].pc # "idle" => handler[h].rows # << >>
    /\ handler[h].pc = "seen" => \A i \in ToSet(handler[h].rows) : copies[i] > 0
    /\ handler[h].pc = "ok" => \A i \in ToSet(handler[h].rows) : Safe(i)

KeepInv ==
    /\ FreeTyped
    /\ PostInv
    /\ \A h \in Handlers : HandlerInv(h)
    /\ AckedIsKept
    /\ SeenIsStored

\* The readings a handler is still to buffer or to store.
Writing(h) ==
    IF handler[h].pc \in {"route", "insert"} THEN ToSet(handler[h].rows) ELSE {}

\* A reading no POST has carried yet.
Unsent(i) ==
    \/ i \in ToSet(outq)
    \/ post.attempt = 0 /\ i \in ToSet(batch)
    \/ i > taken

\* A reading the API has not seen.
Fresh(i) ==
    /\ copies[i] = 0
    /\ i \notin ToSet(held) /\ i \notin ToSet(flushing)
    /\ \A h \in Handlers : i \notin Writing(h)

\* The simulator has one entry at most for the reading.
SendInv(i) ==
    /\ Unsent(i) => Fresh(i)
    /\ Once(outq, i) /\ Once(batch, i)
    /\ i \in ToSet(outq) => i \notin ToSet(batch)
    /\ i > taken => i \notin ToSet(outq) /\ i \notin ToSet(batch)
    /\ \A h \in Handlers : Once(handler[h].rows, i)

\* The reading is in one place of the API at most.
Single(i) ==
    /\ copies[i] <= 1
    /\ Once(held, i) /\ Once(flushing, i)
    /\ \A h \in Handlers : i \in Writing(h) =>
          /\ i \notin ToSet(held) /\ i \notin ToSet(flushing) /\ copies[i] = 0
          /\ \A g \in Handlers : i \in Writing(g) => g = h
    /\ i \in ToSet(held) => i \notin ToSet(flushing) /\ copies[i] = 0
    /\ i \in ToSet(flushing) => copies[i] = 0

PlaceInv == \A i \in Readings : SendInv(i) /\ (i \notin retried => Single(i))

TInv == KeepInv /\ PlaceInv

-----------------------------------------------------------------------------
(* Lists of readings. *)

\* The empty list.
LEMMA EmptyList ==
  ToSet(<< >>) = {} /\ \A i : Once(<< >>, i)
  BY DEF ToSet, Once

\* A list with an entry added at its end.
LEMMA Appended ==
  ASSUME NEW S, NEW s \in Seq(S), NEW e \in S
  PROVE  /\ Append(s, e) \in Seq(S)
         /\ ToSet(Append(s, e)) = ToSet(s) \cup {e}
         /\ \A i : Once(s, i) /\ (i # e \/ i \notin ToSet(s)) => Once(Append(s, e), i)
  <1> DEFINE a == Append(s, e)
  <1>1. /\ a \in Seq(S) /\ Len(a) = Len(s) + 1 /\ Len(s) \in Nat
        /\ DOMAIN a = 1..Len(s) + 1 /\ DOMAIN s = 1..Len(s)
        /\ \A k \in 1..Len(s) : a[k] = s[k]
        /\ a[Len(s) + 1] = e
    OBVIOUS
  <1> HIDE DEF a
  <1>2. \A k \in DOMAIN a : k \in DOMAIN s \/ k = Len(s) + 1
    BY <1>1
  <1>3. \A k \in DOMAIN s : k \in DOMAIN a /\ a[k] = s[k]
    BY <1>1
  <1>4. Len(s) + 1 \in DOMAIN a
    BY <1>1
  <1>5. ToSet(a) = ToSet(s) \cup {e}
    BY <1>1, <1>2, <1>3, <1>4 DEF ToSet
  <1>6. ASSUME NEW i, Once(s, i), i # e \/ i \notin ToSet(s)
        PROVE  Once(a, i)
    <2>1. SUFFICES ASSUME NEW j \in DOMAIN a, NEW k \in DOMAIN a, a[j] = i, a[k] = i
                   PROVE  j = k
      BY DEF Once
    <2>2. CASE i # e
      <3>1. j \in DOMAIN s /\ k \in DOMAIN s
        BY <1>1, <1>2, <2>1, <2>2
      <3> QED
        BY <1>3, <1>6, <2>1, <3>1 DEF Once
    <2>3. CASE i \notin ToSet(s)
      <3>1. j \notin DOMAIN s /\ k \notin DOMAIN s
        BY <1>3, <2>1, <2>3 DEF ToSet
      <3> QED
        BY <1>2, <3>1
    <2> QED
      BY <1>6, <2>2, <2>3
  <1> QED
    BY <1>1, <1>5, <1>6 DEF a

\* A list whose first entry is taken.
LEMMA Tailed ==
  ASSUME NEW S, NEW s \in Seq(S), s # << >>
  PROVE  /\ Head(s) \in S /\ Tail(s) \in Seq(S)
         /\ Head(s) \in ToSet(s)
         /\ ToSet(Tail(s)) \subseteq ToSet(s)
         /\ \A i : Once(s, i) => Once(Tail(s), i)
         /\ Once(s, Head(s)) => Head(s) \notin ToSet(Tail(s))
  <1> DEFINE t == Tail(s)
  <1>1. /\ Head(s) \in S /\ Head(s) = s[1] /\ t \in Seq(S)
        /\ Len(s) \in Nat \ {0} /\ DOMAIN s = 1..Len(s)
        /\ DOMAIN t = 1..Len(s) - 1
        /\ \A k \in 1..Len(s) - 1 : t[k] = s[k + 1]
    OBVIOUS
  <1> HIDE DEF t
  <1>2. 1 \in DOMAIN s
    BY <1>1
  <1>3. \A k \in DOMAIN t : k \in Nat /\ k # 0 /\ k + 1 \in DOMAIN s /\ t[k] = s[k + 1]
    BY <1>1
  <1>4. Head(s) \in ToSet(s) /\ ToSet(t) \subseteq ToSet(s)
    BY <1>1, <1>2, <1>3 DEF ToSet
  <1>5. ASSUME NEW i, Once(s, i)
        PROVE  Once(t, i)
    <2>1. SUFFICES ASSUME NEW j \in DOMAIN t, NEW k \in DOMAIN t, t[j] = i, t[k] = i
                   PROVE  j = k
      BY DEF Once
    <2>2. j + 1 = k + 1
      BY <1>3, <1>5, <2>1 DEF Once
    <2> QED
      BY <1>3, <2>2
  <1>6. ASSUME Once(s, Head(s)), Head(s) \in ToSet(t)
        PROVE  FALSE
    <2>1. PICK k \in DOMAIN t : t[k] = Head(s)
      BY <1>6 DEF ToSet
    <2>2. k + 1 = 1
      BY <1>1, <1>2, <1>3, <1>6, <2>1 DEF Once
    <2> QED
      BY <1>3, <2>2
  <1> QED
    BY <1>1, <1>4, <1>5, <1>6 DEF t

\* Two lists joined.
LEMMA Joined ==
  ASSUME NEW S, NEW s \in Seq(S), NEW t \in Seq(S)
  PROVE  /\ s \o t \in Seq(S)
         /\ ToSet(s \o t) = ToSet(s) \cup ToSet(t)
         /\ \A i : /\ Once(s, i) /\ Once(t, i)
                   /\ i \notin ToSet(s) \/ i \notin ToSet(t)
                   => Once(s \o t, i)
  <1> DEFINE a == s \o t
  <1>1. /\ a \in Seq(S) /\ Len(a) = Len(s) + Len(t)
        /\ Len(s) \in Nat /\ Len(t) \in Nat
        /\ DOMAIN a = 1..Len(s) + Len(t) /\ DOMAIN s = 1..Len(s) /\ DOMAIN t = 1..Len(t)
        /\ \A k \in 1..Len(s) + Len(t) :
              a[k] = IF k <= Len(s) THEN s[k] ELSE t[k - Len(s)]
    BY ConcatProperties
  <1> HIDE DEF a
  <1>2. ASSUME NEW k \in DOMAIN a
        PROVE  \/ k \in DOMAIN s /\ a[k] = s[k]
               \/ k - Len(s) \in DOMAIN t /\ a[k] = t[k - Len(s)] /\ k \in Nat
    BY <1>1
  <1>3. \A k \in DOMAIN s : k \in DOMAIN a /\ a[k] = s[k]
    BY <1>1
  <1>4. ASSUME NEW k \in DOMAIN t
        PROVE  k + Len(s) \in DOMAIN a /\ a[k + Len(s)] = t[k]
    <2>1. k + Len(s) \in 1..Len(s) + Len(t) /\ ~(k + Len(s) <= Len(s))
          /\ (k + Len(s)) - Len(s) = k
      BY <1>1
    <2> QED
      BY <1>1, <2>1
  <1>5. ToSet(a) \subseteq ToSet(s) \cup ToSet(t)
    BY <1>2 DEF ToSet
  <1>6. ToSet(s) \subseteq ToSet(a)
    BY <1>3 DEF ToSet
  <1>7. ToSet(t) \subseteq ToSet(a)
    <2>1. SUFFICES ASSUME NEW k \in DOMAIN t PROVE t[k] \in ToSet(a)
      BY DEF ToSet
    <2> QED
      BY <1>4 DEF ToSet
  <1>8. ASSUME NEW i, Once(s, i), Once(t, i), i \notin ToSet(s) \/ i \notin ToSet(t)
        PROVE  Once(a, i)
    <2>1. SUFFICES ASSUME NEW j \in DOMAIN a, NEW k \in DOMAIN a, a[j] = i, a[k] = i
                   PROVE  j = k
      BY DEF Once
    <2>2. CASE i \notin ToSet(s)
      <3>1. /\ j - Len(s) \in DOMAIN t /\ t[j - Len(s)] = i /\ j \in Nat
            /\ k - Len(s) \in DOMAIN t /\ t[k - Len(s)] = i /\ k \in Nat
        BY <1>2, <2>1, <2>2 DEF ToSet
      <3>2. j - Len(s) = k - Len(s)
        BY <1>8, <3>1 DEF Once
      <3> QED
        BY <1>1, <3>1, <3>2
    <2>3. CASE i \notin ToSet(t)
      <3>1. j \in DOMAIN s /\ s[j] = i /\ k \in DOMAIN s /\ s[k] = i
        BY <1>2, <2>1, <2>3 DEF ToSet
      <3> QED
        BY <1>8, <3>1 DEF Once
    <2> QED
      BY <1>8, <2>2, <2>3
  <1> QED
    BY <1>1, <1>5, <1>6, <1>7, <1>8 DEF a

\* The entries of a list are readings.
LEMMA ListOfReadings ==
  ASSUME NEW s \in Seq(Readings)
  PROVE  ToSet(s) \in SUBSET Readings /\ (s # << >> => ToSet(s) # {})
  <1>1. Len(s) \in Nat /\ DOMAIN s = 1..Len(s) /\ \A k \in DOMAIN s : s[k] \in Readings
    OBVIOUS
  <1>2. ASSUME s # << >> PROVE s[1] \in ToSet(s)
    <2>1. Len(s) # 0
      BY <1>2
    <2> QED
      BY <1>1, <2>1 DEF ToSet
  <1> QED
    BY <1>1, <1>2 DEF ToSet

\* insert_many stores every reading of the list, and keeps what is stored.
LEMMA InsertedFacts ==
  ASSUME FreeTyped, NEW rows \in Seq(Readings)
  PROVE  /\ Inserted(rows) \in [Readings -> 0..2]
         /\ \A i \in Readings :
               /\ Inserted(rows)[i] > 0 <=> (copies[i] > 0 \/ i \in ToSet(rows))
               /\ i \notin ToSet(rows) => Inserted(rows)[i] = copies[i]
               /\ i \in ToSet(rows) /\ copies[i] = 0 /\ Once(rows, i) => Inserted(rows)[i] = 1
  <1>1. \A i \in Readings : copies[i] \in 0..2
    BY DEF FreeTyped
  <1>2. \A i \in Readings :
          Inserted(rows)[i] = IF i \notin ToSet(rows) THEN copies[i]
                              ELSE IF copies[i] = 0 /\ Once(rows, i) THEN 1 ELSE 2
    BY DEF Inserted
  <1>3. Inserted(rows) \in [Readings -> 0..2]
    BY <1>1 DEF Inserted
  <1> QED
    BY <1>1, <1>2, <1>3

\* A bounded set of naturals has a greatest member: the one furthest from zero is
\* nearest to the bound.
LEMMA Greatest ==
  ASSUME NEW n \in Nat, NEW S \in SUBSET (0..n), S # {}
  PROVE  \E x \in S : \A y \in S : y <= x
  <1> DEFINE T == {k \in Nat : k <= n /\ n - k \in S}
  <1>1. \A y \in S : n - y \in T
    OBVIOUS
  <1>2. T \subseteq Nat /\ T # {}
    BY <1>1
  <1>3. \E k \in T : \A j \in T : ~(<<j, k>> \in OpToRel(<, Nat))
    <2> HIDE DEF T
    <2> QED
      BY <1>2, NatLessThanWellFounded, WFMin
  <1>4. PICK k \in T : \A j \in T : ~(j < k)
    BY <1>3 DEF OpToRel
  <1>5. \A y \in S : y <= n - k
    BY <1>1, <1>4
  <1> QED
    BY <1>4, <1>5

\* mark_seen moves last_seen to the newest reading of the list, or leaves it.
LEMMA SeenFacts ==
  ASSUME NEW rows \in Seq(Readings), rows # << >>
  PROVE  Seen(rows) = lastSeen \/ Seen(rows) \in ToSet(rows)
  <1> DEFINE R == ToSet(rows)
  <1> DEFINE newest == CHOOSE i \in R : \A j \in R : j <= i
  <1>1. R \in SUBSET (0..MaxReadings) /\ R # {}
    BY ListOfReadings, FreeTierAssumption DEF Readings
  <1>2. MaxReadings \in Nat
    BY FreeTierAssumption
  <1>3. newest \in R
    <2> HIDE DEF R
    <2>1. \E i \in R : \A j \in R : j <= i
      BY <1>1, <1>2, Greatest
    <2> QED
      BY <2>1
  <1>4. Seen(rows) = IF newest > lastSeen THEN newest ELSE lastSeen
    BY DEF Seen
  <1> HIDE DEF newest, R
  <1>5. Seen(rows) = lastSeen \/ Seen(rows) \in R
    BY <1>3, <1>4
  <1> QED
    BY <1>5 DEF R
-----------------------------------------------------------------------------
(* What keeps the two halves of the invariant. *)

\* The table only grows, nothing that was safe is lost, and whoever moves on has
\* done what its new place says.
LEMMA KeepKept ==
  ASSUME KeepInv, FreeTyped', PostInv',
         \A i \in Readings : copies[i] > 0 => copies'[i] > 0,
         \A i \in Readings : Safe(i) => Safe(i)',
         \A h \in Handlers : handler'[h] = handler[h] \/ HandlerInv(h)',
         \A i \in acked' : i \in acked \/ Safe(i)',
         lastSeen' = lastSeen \/ copies'[lastSeen'] > 0
  PROVE  KeepInv'
  <1>1. FreeTyped /\ (\A h \in Handlers : HandlerInv(h)) /\ AckedIsKept /\ SeenIsStored
    BY DEF KeepInv
  <1>2. ASSUME NEW h \in Handlers
        PROVE  HandlerInv(h)'
    <2>1. CASE handler'[h] = handler[h]
      <3>1. handler[h] \in HandlerState
        BY <1>1 DEF FreeTyped
      <3>2. ToSet(handler[h].rows) \subseteq Readings
        BY <3>1, ListOfReadings DEF HandlerState
      <3>3. HandlerInv(h)
        BY <1>1
      <3> QED
        BY <2>1, <3>2, <3>3 DEF HandlerInv
    <2> QED
      BY <2>1
  <1>3. AckedIsKept'
    <2>1. SUFFICES ASSUME NEW i \in acked' PROVE Safe(i)'
      BY DEF AckedIsKept, Safe
    <2>2. ASSUME i \in acked PROVE Safe(i)'
      <3>1. i \in Readings
        BY <1>1, <2>2 DEF FreeTyped
      <3>2. Safe(i)
        BY <1>1, <2>2 DEF AckedIsKept, Safe
      <3> QED
        BY <3>1, <3>2
    <2> QED
      BY <2>2
  <1>4. SeenIsStored'
    <2>1. SUFFICES ASSUME lastSeen' > 0 PROVE copies'[lastSeen'] > 0
      BY DEF SeenIsStored
    <2>2. CASE lastSeen' = lastSeen
      <3>1. lastSeen \in Readings
        BY <1>1, <2>1, <2>2, FreeTierAssumption DEF FreeTyped, Readings
      <3>2. copies[lastSeen] > 0
        BY <1>1, <2>1, <2>2 DEF SeenIsStored
      <3> QED
        BY <2>2, <3>1, <3>2
    <2> QED
      BY <2>2
  <1> QED
    BY <1>2, <1>3, <1>4 DEF KeepInv

\* Steps that leave the table alone and only take readings out of places.
LEMMA PlaceShrinks ==
  ASSUME PlaceInv,
         \A h \in Handlers : Writing(h)' \subseteq Writing(h),
         \A h \in Handlers : handler'[h].rows = handler[h].rows \/ handler'[h].rows = << >>,
         held' = held \/ held' = << >>,
         flushing' = flushing \/ flushing' = << >>,
         UNCHANGED <<copies, outq, taken, retried>>,
         \/ batch' = batch /\ (post'.attempt = 0 => post.attempt = 0)
         \/ batch' = << >>
  PROVE  PlaceInv'
  <1>1. ToSet(<< >>) = {} /\ \A i : Once(<< >>, i)
    BY EmptyList
  <1>2. SUFFICES ASSUME NEW i \in Readings
                 PROVE  SendInv(i)' /\ (i \notin retried' => Single(i)')
    BY DEF PlaceInv
  <1>3. SendInv(i) /\ (i \notin retried => Single(i))
    BY DEF PlaceInv
  <1>4. /\ ToSet(held') \subseteq ToSet(held) /\ (Once(held, i) => Once(held', i))
        /\ ToSet(flushing') \subseteq ToSet(flushing)
        /\ (Once(flushing, i) => Once(flushing', i))
        /\ ToSet(batch') \subseteq ToSet(batch) /\ (Once(batch, i) => Once(batch', i))
    BY <1>1
  <1>5. Unsent(i)' => Unsent(i)
    BY <1>1 DEF Unsent
  <1>6. Fresh(i) => Fresh(i)'
    BY <1>4 DEF Fresh
  <1>7. SendInv(i)'
    BY <1>1, <1>3, <1>4, <1>5, <1>6 DEF SendInv
  <1>8. Single(i) => Single(i)'
    BY <1>4 DEF Single
  <1> QED
    BY <1>3, <1>7, <1>8

\* A fault is counted within its bound.
LEMMA FaultTyped ==
  ASSUME FreeTyped, Fault
  PROVE  faults' \in 0..MaxFaults
  BY FreeTierAssumption DEF FreeTyped, Fault

\* The fields of a handler and of the POST.
LEMMA Fields ==
  ASSUME FreeTyped, NEW h \in Handlers
  PROVE  /\ handler[h] \in HandlerState
         /\ handler[h].pc \in {"idle", "route", "insert", "seen", "ok", "error"}
         /\ handler[h].rows \in Seq(Readings)
         /\ ToSet(handler[h].rows) \in SUBSET Readings
         /\ post.attempt \in 0..Attempts /\ post.via \in Handlers \cup {None}
         /\ h # None
  <1>1. handler[h] \in HandlerState /\ post \in [attempt : 0..Attempts, via : Handlers \cup {None}]
    BY DEF FreeTyped
  <1>2. handler[h].rows \in Seq(Readings)
    BY <1>1 DEF HandlerState
  <1> QED
    BY <1>1, <1>2, ListOfReadings, FreeTierAssumption DEF HandlerState

\* Nothing the invariant speaks of has moved.
LEMMA IdleStep ==
  ASSUME TInv, FreeTyped', PostInv',
         UNCHANGED <<taken, outq, batch, handler, held, flushing, copies, lastSeen,
                     acked, retried, dropped>>,
         post'.attempt = 0 => post.attempt = 0
  PROVE  TInv'
  <1>1. KeepInv /\ PlaceInv
    BY DEF TInv
  <1>2. \A i \in Readings : Safe(i) => Safe(i)'
    BY DEF Safe
  <1>3. \A h \in Handlers : Writing(h)' \subseteq Writing(h)
    BY DEF Writing
  <1>4. KeepInv'
    BY <1>1, <1>2, KeepKept
  <1>5. PlaceInv'
    BY <1>1, <1>3, PlaceShrinks
  <1> QED
    BY <1>4, <1>5 DEF TInv

-----------------------------------------------------------------------------
(* The simulator. *)

\* GET /viewers moves no reading.
LEMMA ViewerPollStep ==
  ASSUME TInv, ViewerPoll
  PROVE  TInv'
  <1>1. FreeTyped /\ PostInv
    BY DEF TInv, KeepInv
  <1>2. zeros' \in 0..IdleAfter
    BY <1>1 DEF ViewerPoll, FreeTyped, IdleAfter
  <1>3. active' \in BOOLEAN
    BY DEF ViewerPoll
  <1>4. UNCHANGED <<taken, outq, batch, post, viewers, handler, held, flushing, copies, lastSeen,
                    acked, retried, dropped, faults>>
    BY DEF ViewerPoll, api, tables, history
  <1>5. FreeTyped'
    BY <1>1, <1>2, <1>3, <1>4 DEF FreeTyped
  <1>6. PostInv'
    BY <1>1, <1>4 DEF PostInv
  <1> QED
    BY <1>4, <1>5, <1>6, IdleStep

\* A new reading is queued: nobody has seen it.
LEMMA EmitStep ==
  ASSUME TInv, Emit
  PROVE  TInv'
  <1>1. FreeTyped /\ PostInv /\ KeepInv /\ PlaceInv
    BY DEF TInv, KeepInv
  <1>2. /\ taken < MaxReadings /\ taken' = taken + 1 /\ outq' = Append(outq, taken + 1)
        /\ UNCHANGED <<active, zeros, batch, post, viewers, handler, held, flushing, copies,
                       lastSeen, acked, retried, dropped, faults>>
    BY DEF Emit, api, tables, history
  <1>3. /\ taken \in Nat /\ taken + 1 \in Readings /\ taken' \in 0..MaxReadings
        /\ outq \in Seq(Readings) /\ MaxReadings \in Nat
    BY <1>1, <1>2, FreeTierAssumption DEF FreeTyped, Readings
  <1>4. PICK e \in Readings : e = taken + 1
    BY <1>3
  <1>5. /\ outq' \in Seq(Readings) /\ ToSet(outq') = ToSet(outq) \cup {e}
        /\ \A i : Once(outq, i) /\ (i # e \/ i \notin ToSet(outq)) => Once(outq', i)
    BY <1>2, <1>3, <1>4, Appended
  <1>6. FreeTyped'
    BY <1>1, <1>2, <1>3, <1>5 DEF FreeTyped
  <1>7. PostInv'
    BY <1>1, <1>2 DEF PostInv
  <1>8. KeepInv'
    <2>1. \A i \in Readings : Safe(i) => Safe(i)'
      BY <1>2 DEF Safe
    <2> QED
      BY <1>1, <1>2, <1>6, <1>7, <2>1, KeepKept
  <1>9. ASSUME NEW i \in Readings
        PROVE  SendInv(i)' /\ (i \notin retried' => Single(i)')
    <2>1. SendInv(i) /\ (i \notin retried => Single(i))
      BY <1>1 DEF PlaceInv
    <2>2. i \in Nat /\ (i > taken' => i > taken) /\ e > taken /\ ~(e > taken')
      BY <1>2, <1>3, <1>4 DEF Readings
    <2>3. Unsent(i)' => Unsent(i)
      BY <1>2, <1>5, <2>2 DEF Unsent
    <2>4. Fresh(i) => Fresh(i)'
      BY <1>2 DEF Fresh, Writing
    <2>5. Single(i) => Single(i)'
      BY <1>2 DEF Single, Writing
    <2>6. SendInv(i)'
      BY <1>2, <1>5, <2>1, <2>2, <2>3, <2>4 DEF SendInv
    <2> QED
      BY <1>2, <2>1, <2>5, <2>6
  <1> QED
    BY <1>8, <1>9 DEF TInv, PlaceInv

\* A queued reading goes into the batch.
LEMMA CollectStep ==
  ASSUME TInv, Collect
  PROVE  TInv'
  <1>1. FreeTyped /\ PostInv /\ KeepInv /\ PlaceInv
    BY DEF TInv, KeepInv
  <1>2. /\ post.attempt = 0 /\ Len(batch) < MaxBatch /\ outq # << >>
        /\ batch' = Append(batch, Head(outq)) /\ outq' = Tail(outq)
        /\ UNCHANGED <<active, zeros, taken, post, viewers, handler, held, flushing, copies,
                       lastSeen, acked, retried, dropped, faults>>
    BY DEF Collect, api, tables, history
  <1>3. outq \in Seq(Readings) /\ batch \in Seq(Readings)
    BY <1>1 DEF FreeTyped
  <1>4. /\ Head(outq) \in Readings /\ outq' \in Seq(Readings)
        /\ Head(outq) \in ToSet(outq)
        /\ ToSet(outq') \subseteq ToSet(outq)
        /\ \A i : Once(outq, i) => Once(outq', i)
        /\ Once(outq, Head(outq)) => Head(outq) \notin ToSet(outq')
    BY <1>2, <1>3, Tailed
  <1>5. PICK e \in Readings : e = Head(outq)
    BY <1>4
  <1>6. /\ batch' \in Seq(Readings) /\ ToSet(batch') = ToSet(batch) \cup {e}
        /\ \A i : Once(batch, i) /\ (i # e \/ i \notin ToSet(batch)) => Once(batch', i)
    BY <1>2, <1>3, <1>5, Appended
  <1>7. Len(batch') <= MaxBatch
    BY <1>2, <1>3, FreeTierAssumption
  <1>8. FreeTyped'
    BY <1>1, <1>2, <1>4, <1>6, <1>7 DEF FreeTyped
  <1>9. PostInv'
    <2>1. post.via = None
      BY <1>1, <1>2 DEF PostInv
    <2> QED
      BY <1>2, <2>1, FreeTierAssumption DEF PostInv
  <1>10. KeepInv'
    <2>1. \A i \in Readings : Safe(i) => Safe(i)'
      BY <1>2 DEF Safe
    <2> QED
      BY <1>1, <1>2, <1>8, <1>9, <2>1, KeepKept
  <1>11. SendInv(e)
    BY <1>1 DEF PlaceInv
  <1>12. e \in ToSet(outq) /\ e \notin ToSet(batch) /\ ~(e > taken) /\ e \notin ToSet(outq')
    BY <1>4, <1>5, <1>11 DEF SendInv
  <1>13. ASSUME NEW i \in Readings
         PROVE  SendInv(i)' /\ (i \notin retried' => Single(i)')
    <2>1. SendInv(i) /\ (i \notin retried => Single(i))
      BY <1>1 DEF PlaceInv
    <2>2. Unsent(i)' => Unsent(i)
      BY <1>2, <1>4, <1>6, <1>12 DEF Unsent
    <2>3. Fresh(i) => Fresh(i)'
      BY <1>2 DEF Fresh, Writing
    <2>4. Single(i) => Single(i)'
      BY <1>2 DEF Single, Writing
    <2>5. SendInv(i)'
      BY <1>2, <1>4, <1>6, <1>12, <2>1, <2>2, <2>3 DEF SendInv
    <2> QED
      BY <1>2, <2>1, <2>4, <2>5
  <1> QED
    BY <1>10, <1>13 DEF TInv, PlaceInv
\* The batch goes out.  The first attempt carries readings nobody has seen; every
\* later one makes them retried.
LEMMA PostStep ==
  ASSUME TInv, NEW h \in Handlers, Post(h)
  PROVE  TInv'
  <1>1. FreeTyped /\ PostInv /\ KeepInv /\ PlaceInv
    BY DEF TInv, KeepInv
  <1>2. /\ batch # << >> /\ post.via = None /\ post.attempt < Attempts
        /\ handler[h].pc = "idle"
        /\ post' = [attempt |-> post.attempt + 1, via |-> h]
        /\ handler' = [handler EXCEPT ![h] = [pc |-> "route", rows |-> batch]]
        /\ retried' = IF post.attempt > 0 THEN retried \cup ToSet(batch) ELSE retried
        /\ UNCHANGED <<active, zeros, taken, outq, batch, viewers, held, flushing, copies,
                       lastSeen, acked, dropped, faults>>
    BY DEF Post, tables
  <1>3. /\ post.attempt \in 0..Attempts /\ handler \in [Handlers -> HandlerState]
        /\ batch \in Seq(Readings)
    BY <1>1, Fields DEF FreeTyped
  <1>4. [pc |-> "route", rows |-> batch] \in HandlerState
    BY <1>3 DEF HandlerState
  <1>5. post' \in [attempt : 0..Attempts, via : Handlers \cup {None}] /\ post'.attempt > 0
    BY <1>2, <1>3 DEF Attempts
  <1>6. handler' \in [Handlers -> HandlerState]
    BY <1>2, <1>3, <1>4
  <1>7. /\ handler'[h] = [pc |-> "route", rows |-> batch]
        /\ \A g \in Handlers \ {h} : handler'[g] = handler[g]
    BY <1>2, <1>3
  <1>8. FreeTyped'
    BY <1>1, <1>2, <1>5, <1>6 DEF FreeTyped
  <1>9. PostInv'
    BY <1>2, <1>5, <1>7 DEF PostInv
  <1>10. KeepInv'
    <2>1. \A i \in Readings : Safe(i) => Safe(i)'
      BY <1>2 DEF Safe
    <2>2. HandlerInv(h)'
      BY <1>2, <1>7 DEF HandlerInv
    <2> QED
      BY <1>1, <1>2, <1>7, <1>8, <1>9, <2>1, <2>2, KeepKept
  <1>11. ASSUME NEW i \in Readings
         PROVE  SendInv(i)' /\ (i \notin retried' => Single(i)')
    <2>1. SendInv(i) /\ (i \notin retried => Single(i))
      BY <1>1 DEF PlaceInv
    <2>2. /\ Writing(h)' = ToSet(batch) /\ Writing(h) = {}
          /\ \A g \in Handlers \ {h} : Writing(g)' = Writing(g)
      BY <1>2, <1>7 DEF Writing
    <2>3. Unsent(i)' => Unsent(i) /\ i \notin ToSet(batch)
      BY <1>2, <1>5, <2>1 DEF Unsent, SendInv
    <2>4. Fresh(i) /\ i \notin ToSet(batch) => Fresh(i)'
      BY <1>2, <2>2 DEF Fresh
    <2>5. SendInv(i)'
      <3>1. \A g \in Handlers : Once(handler'[g].rows, i)
        BY <1>7, <2>1 DEF SendInv
      <3> QED
        BY <1>2, <2>1, <2>3, <2>4, <3>1 DEF SendInv
    <2>6. CASE i \notin ToSet(batch)
      <3>1. Single(i) => Single(i)'
        BY <1>2, <2>2, <2>6 DEF Single
      <3> QED
        BY <1>2, <2>1, <2>5, <3>1
    <2>7. CASE i \in ToSet(batch) /\ post.attempt = 0
      <3>1. Fresh(i)
        BY <2>1, <2>7 DEF SendInv, Unsent
      <3>2. Single(i) => Single(i)'
        BY <1>2, <2>2, <3>1 DEF Single, Fresh
      <3> QED
        BY <1>2, <2>1, <2>5, <3>2
    <2>8. CASE i \in ToSet(batch) /\ post.attempt # 0
      <3>1. i \in retried'
        BY <1>2, <1>3, <2>8
      <3> QED
        BY <2>5, <3>1
    <2> QED
      BY <2>6, <2>7, <2>8
  <1> QED
    BY <1>10, <1>11 DEF TInv, PlaceInv

\* A handler's record is set aside, or moves on to a place where it writes nothing
\* more, and the lists and the table are as before.
LEMMA HandlerMoves ==
  ASSUME TInv, NEW h \in Handlers, NEW s \in HandlerState,
         handler' = [handler EXCEPT ![h] = s],
         s.rows = handler[h].rows \/ s.rows = << >>,
         s.pc \in {"route", "insert"} => handler[h].pc \in {"route", "insert"},
         HandlerInv(h)'
  PROVE  /\ handler' \in [Handlers -> HandlerState]
         /\ handler'[h] = s
         /\ \A g \in Handlers \ {h} : handler'[g] = handler[g]
         /\ \A g \in Handlers : handler'[g] = handler[g] \/ HandlerInv(g)'
         /\ \A g \in Handlers : Writing(g)' \subseteq Writing(g)
         /\ \A g \in Handlers : handler'[g].rows = handler[g].rows \/ handler'[g].rows = << >>
  <1>1. handler \in [Handlers -> HandlerState]
    BY DEF TInv, KeepInv, FreeTyped
  <1>2. /\ handler' \in [Handlers -> HandlerState] /\ handler'[h] = s
        /\ \A g \in Handlers \ {h} : handler'[g] = handler[g]
    BY <1>1
  <1>3. Writing(h)' \subseteq Writing(h)
    BY <1>2, EmptyList DEF Writing
  <1>4. \A g \in Handlers \ {h} : Writing(g)' = Writing(g)
    BY <1>2 DEF Writing
  <1> QED
    BY <1>2, <1>3, <1>4

\* An idle handler.
LEMMA IdleFacts ==
  IdleHandler \in HandlerState /\ IdleHandler.pc = "idle" /\ IdleHandler.rows = << >>
  BY DEF IdleHandler, HandlerState

\* The answer arrives: what it acknowledges has been buffered or stored.
LEMMA PostAnsweredStep ==
  ASSUME TInv, NEW h \in Handlers, PostAnswered(h)
  PROVE  TInv'
  <1>1. FreeTyped /\ PostInv /\ KeepInv /\ PlaceInv /\ HandlerInv(h)
    BY DEF TInv, KeepInv
  <1>2. /\ post.via = h /\ handler' = [handler EXCEPT ![h] = IdleHandler]
        /\ UNCHANGED <<active, zeros, taken, outq, viewers, held, flushing, copies, lastSeen,
                       retried, dropped, faults>>
    BY DEF PostAnswered, tables
  <1>3. HandlerInv(h)'
    <2>1. handler'[h] = IdleHandler
      BY <1>1, <1>2 DEF FreeTyped
    <2> QED
      BY <2>1, IdleFacts DEF HandlerInv
  <1>4. /\ handler' \in [Handlers -> HandlerState]
        /\ \A g \in Handlers : handler'[g] = handler[g] \/ HandlerInv(g)'
        /\ \A g \in Handlers : Writing(g)' \subseteq Writing(g)
        /\ \A g \in Handlers : handler'[g].rows = handler[g].rows \/ handler'[g].rows = << >>
    BY <1>2, <1>3, IdleFacts, HandlerMoves
  <1>5. handler[h].rows = batch /\ batch \in Seq(Readings)
    BY <1>1, <1>2 DEF PostInv, FreeTyped
  <1>6. \A i \in Readings : Safe(i) => Safe(i)'
    BY <1>2 DEF Safe
  <1>7. ToSet(batch) \in SUBSET Readings /\ acked \in SUBSET Readings
    BY <1>1, <1>5, ListOfReadings DEF FreeTyped
  <1>8. CASE handler[h].pc = "ok"
    <2>1. post' = NoPost /\ batch' = << >> /\ acked' = acked \cup ToSet(batch)
      BY <1>8 DEF PostAnswered
    <2>2. post' \in [attempt : 0..Attempts, via : Handlers \cup {None}] /\ post'.via = None
      BY <2>1 DEF NoPost, Attempts
    <2>3. Len(batch') <= MaxBatch /\ batch' \in Seq(Readings)
      BY <2>1, FreeTierAssumption
    <2>4. acked' \in SUBSET Readings
      BY <1>7, <2>1
    <2>5. FreeTyped'
      BY <1>1, <1>2, <1>4, <2>2, <2>3, <2>4 DEF FreeTyped
    <2>6. PostInv'
      BY <2>2, FreeTierAssumption DEF PostInv
    <2>7. \A i \in acked' : i \in acked \/ Safe(i)'
      <3>1. \A i \in ToSet(batch) : Safe(i)
        BY <1>1, <1>5, <1>8 DEF HandlerInv
      <3> QED
        BY <1>6, <1>7, <2>1, <3>1
    <2>8. KeepInv'
      BY <1>1, <1>2, <1>4, <1>6, <2>5, <2>6, <2>7, KeepKept
    <2>9. PlaceInv'
      BY <1>1, <1>2, <1>4, <2>1, PlaceShrinks
    <2> QED
      BY <2>8, <2>9 DEF TInv
  <1>9. CASE handler[h].pc # "ok"
    <2>1. post' = [post EXCEPT !.via = None] /\ batch' = batch /\ acked' = acked
      BY <1>9 DEF PostAnswered
    <2>2. /\ post' \in [attempt : 0..Attempts, via : Handlers \cup {None}]
          /\ post'.via = None /\ post'.attempt = post.attempt
      BY <1>1, <2>1 DEF FreeTyped
    <2>3. FreeTyped'
      BY <1>1, <1>2, <1>4, <2>1, <2>2 DEF FreeTyped
    <2>4. PostInv'
      BY <2>2, FreeTierAssumption DEF PostInv
    <2>5. KeepInv'
      BY <1>1, <1>2, <1>4, <1>6, <2>1, <2>3, <2>4, KeepKept
    <2>6. PlaceInv'
      BY <1>1, <1>2, <1>4, <2>1, <2>2, PlaceShrinks
    <2> QED
      BY <2>5, <2>6 DEF TInv
  <1> QED
    BY <1>8, <1>9

\* The simulator stops waiting; the handler goes on alone, or never started.
LEMMA PostTimesOutStep ==
  ASSUME TInv, NEW h \in Handlers, PostTimesOut(h)
  PROVE  TInv'
  <1>1. FreeTyped /\ PostInv /\ KeepInv /\ PlaceInv
    BY DEF TInv, KeepInv
  <1>2. /\ post' = [post EXCEPT !.via = None]
        /\ Fault
        /\ handler' = handler \/ handler' = [handler EXCEPT ![h] = IdleHandler]
        /\ UNCHANGED <<active, zeros, taken, outq, batch, viewers, held, flushing, copies,
                       lastSeen, acked, retried, dropped>>
    BY DEF PostTimesOut, tables, history
  <1>3. faults' \in 0..MaxFaults
    BY <1>1, <1>2, FaultTyped
  <1>4. /\ post' \in [attempt : 0..Attempts, via : Handlers \cup {None}]
        /\ post'.via = None /\ post'.attempt = post.attempt
    BY <1>1, <1>2 DEF FreeTyped
  <1>5. PostInv'
    BY <1>4, FreeTierAssumption DEF PostInv
  <1>6. CASE handler' = handler
    <2>1. FreeTyped'
      BY <1>1, <1>2, <1>3, <1>4, <1>6 DEF FreeTyped
    <2> QED
      BY <1>2, <1>4, <1>5, <1>6, <2>1, IdleStep
  <1>7. CASE handler' = [handler EXCEPT ![h] = IdleHandler]
    <2>1. HandlerInv(h)'
      <3>1. handler'[h] = IdleHandler
        BY <1>1, <1>7 DEF FreeTyped
      <3> QED
        BY <3>1, IdleFacts DEF HandlerInv
    <2>2. /\ handler' \in [Handlers -> HandlerState]
          /\ \A g \in Handlers : handler'[g] = handler[g] \/ HandlerInv(g)'
          /\ \A g \in Handlers : Writing(g)' \subseteq Writing(g)
          /\ \A g \in Handlers : handler'[g].rows = handler[g].rows \/ handler'[g].rows = << >>
      BY <1>7, <2>1, IdleFacts, HandlerMoves
    <2>3. FreeTyped'
      BY <1>1, <1>2, <1>3, <1>4, <2>2 DEF FreeTyped
    <2>4. \A i \in Readings : Safe(i) => Safe(i)'
      BY <1>2 DEF Safe
    <2>5. KeepInv'
      BY <1>1, <1>2, <1>5, <2>2, <2>3, <2>4, KeepKept
    <2>6. PlaceInv'
      BY <1>1, <1>2, <1>4, <2>2, PlaceShrinks
    <2> QED
      BY <2>5, <2>6 DEF TInv
  <1> QED
    BY <1>2, <1>6, <1>7

\* The batch is given up.
LEMMA PostGivesUpStep ==
  ASSUME TInv, PostGivesUp
  PROVE  TInv'
  <1>1. FreeTyped /\ PostInv /\ KeepInv /\ PlaceInv
    BY DEF TInv, KeepInv
  <1>2. /\ post' = NoPost /\ batch' = << >>
        /\ UNCHANGED <<active, zeros, taken, outq, viewers, handler, held, flushing, copies,
                       lastSeen, acked, retried, dropped, faults>>
    BY DEF PostGivesUp, api, tables, history
  <1>3. post' \in [attempt : 0..Attempts, via : Handlers \cup {None}] /\ post'.via = None
    BY <1>2 DEF NoPost, Attempts
  <1>4. Len(batch') <= MaxBatch /\ batch' \in Seq(Readings)
    BY <1>2, FreeTierAssumption
  <1>5. FreeTyped'
    BY <1>1, <1>2, <1>3, <1>4 DEF FreeTyped
  <1>6. PostInv'
    BY <1>3, FreeTierAssumption DEF PostInv
  <1>7. \A i \in Readings : Safe(i) => Safe(i)'
    BY <1>2 DEF Safe
  <1>8. KeepInv'
    BY <1>1, <1>2, <1>5, <1>6, <1>7, KeepKept
  <1>9. \A h \in Handlers : Writing(h)' \subseteq Writing(h)
    BY <1>2 DEF Writing
  <1>10. PlaceInv'
    BY <1>1, <1>2, <1>9, PlaceShrinks
  <1> QED
    BY <1>8, <1>10 DEF TInv
-----------------------------------------------------------------------------
(* The API. *)

\* A dashboard comes or goes.
LEMMA ViewerStep ==
  ASSUME TInv, Viewer
  PROVE  TInv'
  <1>1. FreeTyped /\ PostInv
    BY DEF TInv, KeepInv
  <1>2. UNCHANGED <<active, zeros, taken, outq, batch, post, handler, held, flushing, copies,
                    lastSeen, acked, retried, dropped, faults>>
    BY DEF Viewer, simulator, tables, history
  <1>3. viewers' \in BOOLEAN
    BY DEF Viewer
  <1>4. FreeTyped'
    BY <1>1, <1>2, <1>3 DEF FreeTyped
  <1>5. PostInv'
    BY <1>1, <1>2 DEF PostInv
  <1> QED
    BY <1>2, <1>4, <1>5, IdleStep

\* A handler that moves on is still the one the simulator awaits.
LEMMA PostInvKept ==
  ASSUME FreeTyped, PostInv, NEW h \in Handlers, NEW p \in {"route", "insert", "seen", "ok", "error"},
         handler[h].pc # "idle",
         handler' = [handler EXCEPT ![h].pc = p],
         UNCHANGED <<post, batch>>
  PROVE  /\ [handler[h] EXCEPT !.pc = p] \in HandlerState
         /\ handler' = [handler EXCEPT ![h] = [handler[h] EXCEPT !.pc = p]]
         /\ handler' \in [Handlers -> HandlerState]
         /\ handler'[h].pc = p /\ handler'[h].rows = handler[h].rows
         /\ \A g \in Handlers \ {h} : handler'[g] = handler[g]
         /\ PostInv'
  <1>1. handler \in [Handlers -> HandlerState] /\ handler[h] \in HandlerState
    BY DEF FreeTyped
  <1>2. [handler[h] EXCEPT !.pc = p] \in HandlerState
    BY <1>1 DEF HandlerState
  <1>3. handler' = [handler EXCEPT ![h] = [handler[h] EXCEPT !.pc = p]]
    BY <1>1
  <1>4. /\ handler' \in [Handlers -> HandlerState]
        /\ handler'[h] = [handler[h] EXCEPT !.pc = p]
        /\ \A g \in Handlers \ {h} : handler'[g] = handler[g]
    BY <1>1, <1>2, <1>3
  <1>5. handler'[h].pc = p /\ handler'[h].rows = handler[h].rows
    BY <1>1, <1>4 DEF HandlerState
  <1>6. PostInv'
    BY <1>4, <1>5 DEF PostInv
  <1> QED
    BY <1>2, <1>3, <1>4, <1>5, <1>6

\* The rows are buffered and acknowledged, or go on to be written.
LEMMA RouteStep ==
  ASSUME TInv, NEW h \in Handlers, Route(h)
  PROVE  TInv'
  <1>1. FreeTyped /\ PostInv /\ KeepInv /\ PlaceInv /\ HandlerInv(h)
    BY DEF TInv, KeepInv
  <1>2. /\ handler[h].pc = "route"
        /\ UNCHANGED <<active, zeros, taken, outq, batch, post, viewers, flushing, copies,
                       lastSeen, acked, retried, dropped, faults>>
    BY DEF Route, simulator, tables, history
  <1>3. handler[h].rows \in Seq(Readings) /\ held \in Seq(Readings)
    BY <1>1, Fields DEF FreeTyped
  <1>4. CASE viewers
    <2>1. handler' = [handler EXCEPT ![h].pc = "insert"] /\ held' = held
      BY <1>4 DEF Route
    <2>2. /\ [handler[h] EXCEPT !.pc = "insert"] \in HandlerState
          /\ handler' = [handler EXCEPT ![h] = [handler[h] EXCEPT !.pc = "insert"]]
          /\ handler' \in [Handlers -> HandlerState]
          /\ handler'[h].pc = "insert" /\ handler'[h].rows = handler[h].rows
          /\ \A g \in Handlers \ {h} : handler'[g] = handler[g]
          /\ PostInv'
      BY <1>1, <1>2, <2>1, PostInvKept
    <2>3. FreeTyped'
      BY <1>1, <1>2, <2>1, <2>2 DEF FreeTyped
    <2>4. HandlerInv(h)'
      BY <1>1, <1>2, <2>2 DEF HandlerInv
    <2>5. \A i \in Readings : Safe(i) => Safe(i)'
      BY <1>2, <2>1 DEF Safe
    <2>6. KeepInv'
      BY <1>1, <1>2, <2>2, <2>3, <2>4, <2>5, KeepKept
    <2>7. \A g \in Handlers : Writing(g)' \subseteq Writing(g)
      <3>1. Writing(h)' = Writing(h)
        BY <1>2, <2>2 DEF Writing
      <3> QED
        BY <2>2, <3>1 DEF Writing
    <2>8. \A g \in Handlers : handler'[g].rows = handler[g].rows
      BY <2>2
    <2>9. PlaceInv'
      BY <1>1, <1>2, <2>1, <2>7, <2>8, PlaceShrinks
    <2> QED
      BY <2>6, <2>9 DEF TInv
  <1>5. CASE ~viewers
    <2>1. held' = held \o handler[h].rows /\ handler' = [handler EXCEPT ![h].pc = "ok"]
      BY <1>5 DEF Route
    <2>2. /\ handler' \in [Handlers -> HandlerState]
          /\ handler'[h].pc = "ok" /\ handler'[h].rows = handler[h].rows
          /\ \A g \in Handlers \ {h} : handler'[g] = handler[g]
          /\ PostInv'
      BY <1>1, <1>2, <2>1, PostInvKept
    <2>3. PICK b \in Seq(Readings) : b = handler[h].rows
      BY <1>3
    <2>4. /\ held' \in Seq(Readings)
          /\ ToSet(held') = ToSet(held) \cup ToSet(b)
          /\ \A i : /\ Once(held, i) /\ Once(b, i)
                    /\ i \notin ToSet(held) \/ i \notin ToSet(b)
                    => Once(held', i)
      BY <1>3, <2>1, <2>3, Joined
    <2>5. FreeTyped'
      BY <1>1, <1>2, <2>2, <2>4 DEF FreeTyped
    <2>6. HandlerInv(h)'
      BY <1>1, <1>2, <2>2, <2>3, <2>4 DEF HandlerInv, Safe
    <2>7. \A i \in Readings : Safe(i) => Safe(i)'
      BY <1>2, <2>4 DEF Safe
    <2>8. KeepInv'
      BY <1>1, <1>2, <2>2, <2>5, <2>6, <2>7, KeepKept
    <2>9. Writing(h) = ToSet(b) /\ Writing(h)' = {}
      BY <1>2, <2>2, <2>3 DEF Writing
    <2>10. \A g \in Handlers \ {h} : Writing(g)' = Writing(g)
      BY <2>2 DEF Writing
    <2>11. ASSUME NEW i \in Readings
           PROVE  SendInv(i)' /\ (i \notin retried' => Single(i)')
      <3>1. SendInv(i) /\ (i \notin retried => Single(i))
        BY <1>1 DEF PlaceInv
      <3>2. Unsent(i)' => Unsent(i)
        BY <1>2 DEF Unsent
      <3>3. Fresh(i) => Fresh(i)'
        BY <1>2, <2>4, <2>9, <2>10 DEF Fresh
      <3>4. \A g \in Handlers : Once(handler'[g].rows, i)
        BY <2>2, <3>1 DEF SendInv
      <3>5. SendInv(i)'
        BY <1>2, <3>1, <3>2, <3>3, <3>4 DEF SendInv
      <3>6. Once(b, i)
        BY <2>3, <3>1 DEF SendInv
      <3>7. ASSUME Single(i) PROVE Single(i)'
        <4>1. CASE i \in ToSet(b)
          BY <1>2, <2>4, <2>9, <2>10, <3>6, <3>7, <4>1 DEF Single
        <4>2. CASE i \notin ToSet(b)
          BY <1>2, <2>4, <2>9, <2>10, <3>6, <3>7, <4>2 DEF Single
        <4> QED
          BY <4>1, <4>2
      <3> QED
        BY <1>2, <3>1, <3>5, <3>7
    <2> QED
      BY <2>8, <2>11 DEF TInv, PlaceInv
  <1> QED
    BY <1>4, <1>5

\* The rows reach the table.
LEMMA InsertStep ==
  ASSUME TInv, NEW h \in Handlers, Insert(h)
  PROVE  TInv'
  <1>1. FreeTyped /\ PostInv /\ KeepInv /\ PlaceInv /\ HandlerInv(h)
    BY DEF TInv, KeepInv
  <1>2. /\ handler[h].pc = "insert"
        /\ copies' = Inserted(handler[h].rows)
        /\ handler' = [handler EXCEPT ![h].pc = "seen"]
        /\ UNCHANGED <<active, zeros, taken, outq, batch, post, viewers, held, flushing,
                       lastSeen, acked, retried, dropped, faults>>
    BY DEF Insert, simulator, tables, history
  <1>3. handler[h].rows \in Seq(Readings) /\ ToSet(handler[h].rows) \in SUBSET Readings
    BY <1>1, Fields
  <1>4. PICK b \in Seq(Readings) : b = handler[h].rows
    BY <1>3
  <1>5. /\ copies' \in [Readings -> 0..2]
        /\ \A i \in Readings :
              /\ copies'[i] > 0 <=> (copies[i] > 0 \/ i \in ToSet(b))
              /\ i \notin ToSet(b) => copies'[i] = copies[i]
              /\ i \in ToSet(b) /\ copies[i] = 0 /\ Once(b, i) => copies'[i] = 1
    BY <1>1, <1>2, <1>4, InsertedFacts
  <1>6. /\ handler' \in [Handlers -> HandlerState]
        /\ handler'[h].pc = "seen" /\ handler'[h].rows = handler[h].rows
        /\ \A g \in Handlers \ {h} : handler'[g] = handler[g]
        /\ PostInv'
    BY <1>1, <1>2, PostInvKept
  <1>7. FreeTyped'
    BY <1>1, <1>2, <1>5, <1>6 DEF FreeTyped
  <1>8. HandlerInv(h)'
    BY <1>1, <1>2, <1>3, <1>4, <1>5, <1>6 DEF HandlerInv
  <1>9. \A i \in Readings : Safe(i) => Safe(i)'
    BY <1>2, <1>5 DEF Safe
  <1>10. KeepInv'
    BY <1>1, <1>2, <1>5, <1>6, <1>7, <1>8, <1>9, KeepKept
  <1>11. Writing(h) = ToSet(b) /\ Writing(h)' = {}
    BY <1>2, <1>4, <1>6 DEF Writing
  <1>12. \A g \in Handlers \ {h} : Writing(g)' = Writing(g)
    BY <1>6 DEF Writing
  <1>13. ASSUME NEW i \in Readings
         PROVE  SendInv(i)' /\ (i \notin retried' => Single(i)')
    <2>1. SendInv(i) /\ (i \notin retried => Single(i))
      BY <1>1 DEF PlaceInv
    <2>2. Unsent(i)' => Unsent(i)
      BY <1>2 DEF Unsent
    <2>3. Fresh(i) => Fresh(i)'
      BY <1>2, <1>5, <1>11, <1>12 DEF Fresh
    <2>4. \A g \in Handlers : Once(handler'[g].rows, i)
      BY <1>6, <2>1 DEF SendInv
    <2>5. SendInv(i)'
      BY <1>2, <2>1, <2>2, <2>3, <2>4 DEF SendInv
    <2>6. Once(b, i)
      BY <1>4, <2>1 DEF SendInv
    <2>7. ASSUME Single(i) PROVE Single(i)'
      <3>1. CASE i \in ToSet(b)
        BY <1>2, <1>5, <1>11, <1>12, <2>6, <2>7, <3>1 DEF Single
      <3>2. CASE i \notin ToSet(b)
        BY <1>2, <1>5, <1>11, <1>12, <2>7, <3>2 DEF Single
      <3> QED
        BY <3>1, <3>2
    <2> QED
      BY <1>2, <2>1, <2>5, <2>7
  <1> QED
    BY <1>10, <1>13 DEF TInv, PlaceInv

\* The roster follows, and the request is answered.
LEMMA MarkSeenStep ==
  ASSUME TInv, NEW h \in Handlers, MarkSeen(h)
  PROVE  TInv'
  <1>1. FreeTyped /\ PostInv /\ KeepInv /\ PlaceInv /\ HandlerInv(h)
    BY DEF TInv, KeepInv
  <1>2. /\ handler[h].pc = "seen"
        /\ lastSeen' = Seen(handler[h].rows)
        /\ handler' = [handler EXCEPT ![h].pc = "ok"]
        /\ UNCHANGED <<active, zeros, taken, outq, batch, post, viewers, held, flushing, copies,
                       acked, retried, dropped, faults>>
    BY DEF MarkSeen, simulator, history
  <1>3. handler[h].rows \in Seq(Readings) /\ ToSet(handler[h].rows) \in SUBSET Readings
    BY <1>1, Fields
  <1>4. /\ handler[h].rows # << >>
        /\ \A i \in ToSet(handler[h].rows) : copies[i] > 0
    BY <1>1, <1>2 DEF HandlerInv
  <1>5. lastSeen' = lastSeen \/ lastSeen' \in ToSet(handler[h].rows)
    BY <1>2, <1>3, <1>4, SeenFacts
  <1>6. lastSeen' \in 0..MaxReadings
    BY <1>1, <1>3, <1>5, FreeTierAssumption DEF FreeTyped, Readings
  <1>7. lastSeen' = lastSeen \/ copies'[lastSeen'] > 0
    BY <1>2, <1>4, <1>5
  <1>8. /\ [handler[h] EXCEPT !.pc = "ok"] \in HandlerState
        /\ handler' = [handler EXCEPT ![h] = [handler[h] EXCEPT !.pc = "ok"]]
        /\ handler' \in [Handlers -> HandlerState]
        /\ handler'[h].pc = "ok" /\ handler'[h].rows = handler[h].rows
        /\ \A g \in Handlers \ {h} : handler'[g] = handler[g]
        /\ PostInv'
    BY <1>1, <1>2, PostInvKept
  <1>9. FreeTyped'
    BY <1>1, <1>2, <1>6, <1>8 DEF FreeTyped
  <1>10. HandlerInv(h)'
    BY <1>2, <1>4, <1>8 DEF HandlerInv, Safe
  <1>11. \A i \in Readings : Safe(i) => Safe(i)'
    BY <1>2 DEF Safe
  <1>12. KeepInv'
    BY <1>1, <1>2, <1>7, <1>8, <1>9, <1>10, <1>11, KeepKept
  <1>13. \A g \in Handlers : Writing(g)' \subseteq Writing(g)
    BY <1>8 DEF Writing
  <1>14. \A g \in Handlers : handler'[g].rows = handler[g].rows
    BY <1>8
  <1>15. PlaceInv'
    BY <1>1, <1>2, <1>13, <1>14, PlaceShrinks
  <1> QED
    BY <1>12, <1>15 DEF TInv

\* The database refuses a statement: the request is answered with an error.
LEMMA WriteFailsStep ==
  ASSUME TInv, NEW h \in Handlers, WriteFails(h)
  PROVE  TInv'
  <1>1. FreeTyped /\ PostInv /\ KeepInv /\ PlaceInv /\ HandlerInv(h)
    BY DEF TInv, KeepInv
  <1>2. /\ handler[h].pc \in {"insert", "seen"}
        /\ Fault
        /\ handler' = [handler EXCEPT ![h].pc = "error"]
        /\ UNCHANGED <<active, zeros, taken, outq, batch, post, viewers, held, flushing, copies,
                       lastSeen, acked, retried, dropped>>
    BY DEF WriteFails, simulator, tables, history
  <1>3. faults' \in 0..MaxFaults
    BY <1>1, <1>2, FaultTyped
  <1>4. /\ handler' \in [Handlers -> HandlerState]
        /\ handler'[h].pc = "error" /\ handler'[h].rows = handler[h].rows
        /\ \A g \in Handlers \ {h} : handler'[g] = handler[g]
        /\ PostInv'
    BY <1>1, <1>2, PostInvKept
  <1>5. FreeTyped'
    BY <1>1, <1>2, <1>3, <1>4 DEF FreeTyped
  <1>6. HandlerInv(h)'
    BY <1>1, <1>2, <1>4 DEF HandlerInv
  <1>7. \A i \in Readings : Safe(i) => Safe(i)'
    BY <1>2 DEF Safe
  <1>8. KeepInv'
    BY <1>1, <1>2, <1>4, <1>5, <1>6, <1>7, KeepKept
  <1>9. \A g \in Handlers : Writing(g)' \subseteq Writing(g)
    BY <1>4 DEF Writing
  <1>10. \A g \in Handlers : handler'[g].rows = handler[g].rows
    BY <1>4
  <1>11. PlaceInv'
    BY <1>1, <1>2, <1>9, <1>10, PlaceShrinks
  <1> QED
    BY <1>8, <1>11 DEF TInv

\* A handler nobody awaits ends.
LEMMA HandlerEndsStep ==
  ASSUME TInv, NEW h \in Handlers, HandlerEnds(h)
  PROVE  TInv'
  <1>1. FreeTyped /\ PostInv /\ KeepInv /\ PlaceInv
    BY DEF TInv, KeepInv
  <1>2. /\ post.via # h
        /\ handler' = [handler EXCEPT ![h] = IdleHandler]
        /\ UNCHANGED <<active, zeros, taken, outq, batch, post, viewers, held, flushing, copies,
                       lastSeen, acked, retried, dropped, faults>>
    BY DEF HandlerEnds, simulator, tables, history
  <1>3. HandlerInv(h)'
    <2>1. handler'[h] = IdleHandler
      BY <1>1, <1>2 DEF FreeTyped
    <2> QED
      BY <2>1, IdleFacts DEF HandlerInv
  <1>4. /\ handler' \in [Handlers -> HandlerState]
        /\ \A g \in Handlers \ {h} : handler'[g] = handler[g]
        /\ \A g \in Handlers : handler'[g] = handler[g] \/ HandlerInv(g)'
        /\ \A g \in Handlers : Writing(g)' \subseteq Writing(g)
        /\ \A g \in Handlers : handler'[g].rows = handler[g].rows \/ handler'[g].rows = << >>
    BY <1>2, <1>3, IdleFacts, HandlerMoves
  <1>5. FreeTyped'
    BY <1>1, <1>2, <1>4 DEF FreeTyped
  <1>6. PostInv'
    BY <1>1, <1>2, <1>4 DEF PostInv
  <1>7. \A i \in Readings : Safe(i) => Safe(i)'
    BY <1>2 DEF Safe
  <1>8. KeepInv'
    BY <1>1, <1>2, <1>4, <1>5, <1>6, <1>7, KeepKept
  <1>9. PlaceInv'
    BY <1>1, <1>2, <1>4, PlaceShrinks
  <1> QED
    BY <1>8, <1>9 DEF TInv
-----------------------------------------------------------------------------
(* The flush and the end of the process. *)

\* The buffer is taken over whole.
LEMMA FlushTakeStep ==
  ASSUME TInv, FlushTake
  PROVE  TInv'
  <1>1. FreeTyped /\ PostInv /\ KeepInv /\ PlaceInv
    BY DEF TInv, KeepInv
  <1>2. /\ flushing = << >> /\ flushing' = held /\ held' = << >>
        /\ UNCHANGED <<active, zeros, taken, outq, batch, post, viewers, handler, copies,
                       lastSeen, acked, retried, dropped, faults>>
    BY DEF FlushTake, simulator, tables, history
  <1>3. ToSet(flushing) = {} /\ ToSet(held') = {} /\ ToSet(flushing') = ToSet(held)
    BY <1>2, EmptyList
  <1>4. \A i : Once(held', i)
    BY <1>2, EmptyList
  <1>5. held' \in Seq(Readings) /\ flushing' \in Seq(Readings)
    BY <1>1, <1>2 DEF FreeTyped
  <1>6. FreeTyped'
    BY <1>1, <1>2, <1>5 DEF FreeTyped
  <1>7. PostInv'
    BY <1>1, <1>2 DEF PostInv
  <1>8. \A i \in Readings : Safe(i) => Safe(i)'
    BY <1>2, <1>3 DEF Safe
  <1>9. KeepInv'
    BY <1>1, <1>2, <1>6, <1>7, <1>8, KeepKept
  <1>10. \A g \in Handlers : Writing(g)' = Writing(g)
    BY <1>2 DEF Writing
  <1>11. ASSUME NEW i \in Readings
         PROVE  SendInv(i)' /\ (i \notin retried' => Single(i)')
    <2>1. SendInv(i) /\ (i \notin retried => Single(i))
      BY <1>1 DEF PlaceInv
    <2>2. Unsent(i)' => Unsent(i)
      BY <1>2 DEF Unsent
    <2>3. Fresh(i) => Fresh(i)'
      BY <1>2, <1>3, <1>10 DEF Fresh
    <2>4. SendInv(i)'
      BY <1>2, <2>1, <2>2, <2>3 DEF SendInv
    <2>5. Single(i) => Single(i)'
      BY <1>2, <1>3, <1>4, <1>10 DEF Single
    <2> QED
      BY <1>2, <2>1, <2>4, <2>5
  <1> QED
    BY <1>9, <1>11 DEF TInv, PlaceInv

\* The rows of the flush reach the table.
LEMMA FlushWriteStep ==
  ASSUME TInv, FlushWrite
  PROVE  TInv'
  <1>1. FreeTyped /\ PostInv /\ KeepInv /\ PlaceInv
    BY DEF TInv, KeepInv
  <1>2. /\ copies' = Inserted(flushing) /\ flushing' = << >>
        /\ UNCHANGED <<active, zeros, taken, outq, batch, post, viewers, handler, held,
                       lastSeen, acked, retried, dropped, faults>>
    BY DEF FlushWrite, simulator, history
  <1>3. flushing \in Seq(Readings)
    BY <1>1 DEF FreeTyped
  <1>4. /\ copies' \in [Readings -> 0..2]
        /\ \A i \in Readings :
              /\ copies'[i] > 0 <=> (copies[i] > 0 \/ i \in ToSet(flushing))
              /\ i \notin ToSet(flushing) => copies'[i] = copies[i]
              /\ i \in ToSet(flushing) /\ copies[i] = 0 /\ Once(flushing, i) => copies'[i] = 1
    BY <1>1, <1>2, <1>3, InsertedFacts
  <1>5. ToSet(flushing') = {} /\ \A i : Once(flushing', i)
    BY <1>2, EmptyList
  <1>6. FreeTyped'
    <2>1. flushing' \in Seq(Readings)
      BY <1>2
    <2> QED
      BY <1>1, <1>2, <1>4, <2>1 DEF FreeTyped
  <1>7. PostInv'
    BY <1>1, <1>2 DEF PostInv
  <1>8. \A i \in Readings : Safe(i) => Safe(i)'
    BY <1>2, <1>4 DEF Safe
  <1>9. KeepInv'
    BY <1>1, <1>2, <1>4, <1>6, <1>7, <1>8, KeepKept
  <1>10. \A g \in Handlers : Writing(g)' = Writing(g)
    BY <1>2 DEF Writing
  <1>11. ASSUME NEW i \in Readings
         PROVE  SendInv(i)' /\ (i \notin retried' => Single(i)')
    <2>1. SendInv(i) /\ (i \notin retried => Single(i))
      BY <1>1 DEF PlaceInv
    <2>2. Unsent(i)' => Unsent(i)
      BY <1>2 DEF Unsent
    <2>3. Fresh(i) => Fresh(i)'
      BY <1>2, <1>4, <1>5, <1>10 DEF Fresh
    <2>4. SendInv(i)'
      BY <1>2, <2>1, <2>2, <2>3 DEF SendInv
    <2>5. ASSUME Single(i) PROVE Single(i)'
      <3>1. CASE i \in ToSet(flushing)
        BY <1>2, <1>4, <1>5, <1>10, <2>5, <3>1 DEF Single
      <3>2. CASE i \notin ToSet(flushing)
        BY <1>2, <1>4, <1>5, <1>10, <2>5, <3>2 DEF Single
      <3> QED
        BY <3>1, <3>2
    <2> QED
      BY <1>2, <2>1, <2>4, <2>5
  <1> QED
    BY <1>9, <1>11 DEF TInv, PlaceInv

\* A flush whose INSERT fails loses its rows.
LEMMA FlushFailsStep ==
  ASSUME TInv, FlushFails
  PROVE  TInv'
  <1>1. FreeTyped /\ PostInv /\ KeepInv /\ PlaceInv
    BY DEF TInv, KeepInv
  <1>2. /\ Fault /\ dropped' = dropped \cup ToSet(flushing) /\ flushing' = << >>
        /\ UNCHANGED <<active, zeros, taken, outq, batch, post, viewers, handler, held, copies,
                       lastSeen, acked, retried>>
    BY DEF FlushFails, simulator, tables
  <1>3. faults' \in 0..MaxFaults /\ flushing' \in Seq(Readings)
    BY <1>1, <1>2, FaultTyped
  <1>4. FreeTyped'
    BY <1>1, <1>2, <1>3 DEF FreeTyped
  <1>5. PostInv'
    BY <1>1, <1>2 DEF PostInv
  <1>6. \A i \in Readings : Safe(i) => Safe(i)'
    BY <1>2 DEF Safe
  <1>7. KeepInv'
    BY <1>1, <1>2, <1>4, <1>5, <1>6, KeepKept
  <1>8. \A g \in Handlers : Writing(g)' \subseteq Writing(g)
    BY <1>2 DEF Writing
  <1>9. PlaceInv'
    BY <1>1, <1>2, <1>8, PlaceShrinks
  <1> QED
    BY <1>7, <1>9 DEF TInv

\* The process ends with everything it holds in memory.
LEMMA RestartStep ==
  ASSUME TInv, Restart
  PROVE  TInv'
  <1>1. FreeTyped /\ PostInv /\ KeepInv /\ PlaceInv
    BY DEF TInv, KeepInv
  <1>2. /\ Fault
        /\ dropped' = dropped \cup ToSet(held) \cup ToSet(flushing)
        /\ held' = << >> /\ flushing' = << >>
        /\ handler' = [h \in Handlers |-> IdleHandler]
        /\ post' = [post EXCEPT !.via = None]
        /\ viewers' = FALSE
        /\ UNCHANGED <<active, zeros, taken, outq, batch, copies, lastSeen, acked, retried>>
    BY DEF Restart, tables
  <1>3. faults' \in 0..MaxFaults /\ flushing' \in Seq(Readings) /\ held' \in Seq(Readings)
    BY <1>1, <1>2, FaultTyped
  <1>4. /\ post' \in [attempt : 0..Attempts, via : Handlers \cup {None}]
        /\ post'.via = None /\ post'.attempt = post.attempt
    BY <1>1, <1>2 DEF FreeTyped
  <1>5. handler' \in [Handlers -> HandlerState]
    BY <1>2, IdleFacts
  <1>6. \A h \in Handlers : handler'[h].pc = "idle" /\ handler'[h].rows = << >>
    BY <1>2, IdleFacts
  <1>7. viewers' \in BOOLEAN
    BY <1>2
  <1>8. FreeTyped'
    BY <1>1, <1>2, <1>3, <1>4, <1>5, <1>7 DEF FreeTyped
  <1>9. PostInv'
    BY <1>4, FreeTierAssumption DEF PostInv
  <1>10. \A i \in Readings : Safe(i) => Safe(i)'
    BY <1>2 DEF Safe
  <1>11. \A h \in Handlers : HandlerInv(h)' /\ Writing(h)' = {}
    BY <1>6 DEF HandlerInv, Writing
  <1>12. KeepInv'
    BY <1>1, <1>2, <1>8, <1>9, <1>10, <1>11, KeepKept
  <1>13. PlaceInv'
    BY <1>1, <1>2, <1>4, <1>6, <1>11, PlaceShrinks
  <1> QED
    BY <1>12, <1>13 DEF TInv

-----------------------------------------------------------------------------
(* The theorems. *)

\* At the start no reading has been taken.
LEMMA FreeTierStarts == FreeTierInit => TInv
  <1> SUFFICES ASSUME FreeTierInit PROVE TInv
    OBVIOUS
  <1>1. /\ active = TRUE /\ zeros = 0 /\ taken = 0
        /\ outq = << >> /\ batch = << >> /\ post = NoPost /\ viewers = FALSE
        /\ handler = [h \in Handlers |-> IdleHandler]
        /\ held = << >> /\ flushing = << >>
        /\ copies = [i \in Readings |-> 0] /\ lastSeen = 0
        /\ acked = {} /\ retried = {} /\ dropped = {} /\ faults = 0
    BY DEF FreeTierInit
  <1>2. post.attempt = 0 /\ post.via = None
    BY <1>1 DEF NoPost
  <1>3. FreeTyped
    <2>1. /\ zeros \in 0..IdleAfter /\ taken \in 0..MaxReadings /\ lastSeen \in 0..MaxReadings
          /\ faults \in 0..MaxFaults
      BY <1>1, FreeTierAssumption DEF IdleAfter
    <2>2. post \in [attempt : 0..Attempts, via : Handlers \cup {None}]
      BY <1>1 DEF NoPost, Attempts
    <2>3. handler \in [Handlers -> HandlerState]
      BY <1>1, IdleFacts
    <2>4. copies \in [Readings -> 0..2]
      BY <1>1
    <2>5. /\ outq \in Seq(Readings) /\ held \in Seq(Readings) /\ flushing \in Seq(Readings)
          /\ batch \in Seq(Readings) /\ Len(batch) <= MaxBatch
      BY <1>1, FreeTierAssumption
    <2>6. active \in BOOLEAN /\ viewers \in BOOLEAN /\ acked \in SUBSET Readings
      BY <1>1
    <2> QED
      BY <2>1, <2>2, <2>3, <2>4, <2>5, <2>6 DEF FreeTyped
  <1>4. PostInv
    BY <1>2, FreeTierAssumption DEF PostInv
  <1>5. \A h \in Handlers : handler[h].pc = "idle" /\ handler[h].rows = << >>
    BY <1>1, IdleFacts
  <1>6. \A h \in Handlers : HandlerInv(h) /\ Writing(h) = {}
    BY <1>5 DEF HandlerInv, Writing
  <1>7. AckedIsKept /\ SeenIsStored
    BY <1>1 DEF AckedIsKept, SeenIsStored
  <1>8. ASSUME NEW i \in Readings
        PROVE  SendInv(i) /\ Single(i)
    <2>1. copies[i] = 0
      BY <1>1
    <2>2. ToSet(<< >>) = {} /\ Once(<< >>, i)
      BY EmptyList
    <2> QED
      BY <1>1, <1>5, <1>6, <2>1, <2>2 DEF SendInv, Unsent, Fresh, Single
  <1> QED
    BY <1>3, <1>4, <1>6, <1>7, <1>8 DEF TInv, KeepInv, PlaceInv

\* Every step keeps the invariant.
LEMMA FreeTierStep ==
  ASSUME TInv, [FreeTierNext]_tvars
  PROVE  TInv'
  <1>1. CASE ViewerPoll
    BY <1>1, ViewerPollStep
  <1>2. CASE Emit
    BY <1>2, EmitStep
  <1>3. CASE Collect
    BY <1>3, CollectStep
  <1>4. CASE PostGivesUp
    BY <1>4, PostGivesUpStep
  <1>5. ASSUME NEW h \in Handlers,
               \/ Post(h) \/ PostAnswered(h) \/ PostTimesOut(h)
               \/ Route(h) \/ Insert(h) \/ MarkSeen(h) \/ WriteFails(h) \/ HandlerEnds(h)
        PROVE  TInv'
    BY <1>5, PostStep, PostAnsweredStep, PostTimesOutStep, RouteStep, InsertStep,
       MarkSeenStep, WriteFailsStep, HandlerEndsStep
  <1>6. CASE Viewer
    BY <1>6, ViewerStep
  <1>7. CASE FlushTake
    BY <1>7, FlushTakeStep
  <1>8. CASE FlushWrite
    BY <1>8, FlushWriteStep
  <1>9. CASE FlushFails
    BY <1>9, FlushFailsStep
  <1>10. CASE Restart
    BY <1>10, RestartStep
  <1>11. CASE UNCHANGED tvars
    <2>1. UNCHANGED <<active, zeros, taken, outq, batch, post, viewers, handler, held, flushing,
                      copies, lastSeen, acked, retried, dropped, faults>>
      BY <1>11 DEF tvars, simulator, api, tables, history
    <2>2. FreeTyped' /\ PostInv'
      BY <2>1 DEF TInv, KeepInv, FreeTyped, PostInv
    <2> QED
      BY <2>1, <2>2, IdleStep
  <1> QED
    BY <1>1, <1>2, <1>3, <1>4, <1>5, <1>6, <1>7, <1>8, <1>9, <1>10, <1>11 DEF FreeTierNext

\* The invariant holds in every reachable state.
THEOREM FreeTierInvariant == FreeTierSpec => []TInv
  <1>1. FreeTierInit => TInv
    BY FreeTierStarts
  <1>2. TInv /\ [FreeTierNext]_tvars => TInv'
    BY FreeTierStep
  <1> QED
    BY <1>1, <1>2, PTL DEF FreeTierSpec

\* The state stays in its types; the batcher's batch never outgrows MAX_BATCH.
THEOREM FreeTierTyped == FreeTierSpec => []FreeTierTypeOK
  <1>1. TInv => FreeTierTypeOK
    <2> SUFFICES ASSUME TInv PROVE FreeTierTypeOK
      OBVIOUS
    <2>1. FreeTyped
      BY DEF TInv, KeepInv
    <2>2. \A h \in Handlers :
            /\ handler[h].pc \in {"idle", "route", "insert", "seen", "ok", "error"}
            /\ handler[h].rows \in Seq(Readings)
      BY <2>1, Fields
    <2>3. post.attempt \in 0..Attempts /\ post.via \in Handlers \cup {None}
      BY <2>1 DEF FreeTyped
    <2> QED
      BY <2>1, <2>2, <2>3 DEF FreeTyped, FreeTierTypeOK
  <1> QED
    BY <1>1, FreeTierInvariant, PTL

\* A reading ingest_batch has answered 200 for is in the table, in the buffer or in
\* the flush under way, unless a failed flush or a restart dropped it.
THEOREM AnsweredIsKept == FreeTierSpec => []AckedIsKept
  <1>1. TInv => AckedIsKept
    BY DEF TInv, KeepInv
  <1> QED
    BY <1>1, FreeTierInvariant, PTL

\* Only a repeated POST gives a reading several rows: the two write paths and the
\* flush never do, in any order.
THEOREM RowsTwiceOnlyByRetry == FreeTierSpec => []TwiceOnlyByRetry
  <1>1. TInv => TwiceOnlyByRetry
    <2> SUFFICES ASSUME TInv, NEW i \in Readings, copies[i] > 1 PROVE i \in retried
      BY DEF TwiceOnlyByRetry
    <2>1. i \notin retried => copies[i] <= 1
      BY DEF TInv, PlaceInv, Single
    <2>2. copies[i] \in 0..2
      BY DEF TInv, KeepInv, FreeTyped
    <2> QED
      BY <2>1, <2>2
  <1> QED
    BY <1>1, FreeTierInvariant, PTL

\* mark_seen never moves the roster to a reading that is not in the table.
THEOREM RosterShowsStored == FreeTierSpec => []SeenIsStored
  <1>1. TInv => SeenIsStored
    BY DEF TInv, KeepInv
  <1> QED
    BY <1>1, FreeTierInvariant, PTL
=============================================================================
