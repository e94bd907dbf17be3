------------------------ MODULE CommandDelivery_proofs ------------------------
(***************************************************************************)
(* Proofs about CommandDelivery for any number of commands, robots and     *)
(* handlers: the robots' loops on top of the command table.                *)
(*                                                                         *)
(* The table's own invariant, IInv, carries over, since every step of the  *)
(* composition is one of the table's steps or leaves it alone.  On top of  *)
(* it DInv says what a robot holds (only delivered commands of its own,    *)
(* each once, none performed before), what a claim handler collects for    *)
(* whom, and that a command created after another one of the same robot is *)
(* not dispatched while that other one is still PENDING.                   *)
(***************************************************************************)
EXTENDS CommandDelivery, CommandLifecycle_proofs

\* The robot is working on the head of its inbox.
InHand == {"ack", "exec", "act", "final"}

RobotState ==
    [pc : {"idle", "polling", "take", "act"} \cup DOMAIN After,
     via : Claimers \cup {None},
     inbox : Seq(Commands),
     result : {"COMPLETED", "FAILED"}]

DeliveryTyped ==
    /\ robot \in [Robots -> RobotState]
    /\ processed \in [Robots -> SUBSET Commands]
    /\ performed \in [Robots -> Seq(Commands)]
    /\ prior \in [Commands -> SUBSET Commands]

\* What robot r holds and has performed was delivered to it, each command once;
\* only the command in hand can be among the processed ones, and among the
\* performed ones only until its result is reported.
HandInv(r) ==
    /\ robot[r].pc # "replay"
    /\ robot[r].pc = "polling" => robot[r].via \in Claimers
    /\ robot[r].pc \in {"idle", "polling"} => robot[r].inbox = << >>
    /\ robot[r].pc \in InHand => robot[r].inbox # << >>
    /\ \A i \in 1..Len(robot[r].inbox) :
          /\ robot[r].inbox[i] \in delivered
          /\ robotOf[robot[r].inbox[i]] = r
          /\ robot[r].inbox[i] \in processed[r] => i = 1 /\ robot[r].pc \in InHand
          /\ \A j \in 1..Len(robot[r].inbox) : robot[r].inbox[i] = robot[r].inbox[j] => i = j
          /\ \A j \in 1..Len(performed[r]) :
                robot[r].inbox[i] = performed[r][j] => i = 1 /\ robot[r].pc = "final"
    /\ processed[r] \subseteq delivered
    /\ \A i \in 1..Len(performed[r]) :
          /\ performed[r][i] \in delivered
          /\ robotOf[performed[r][i]] = r
          /\ \A j \in 1..Len(performed[r]) : performed[r][i] = performed[r][j] => i = j
    /\ robot[r].pc = "final" /\ robot[r].result = "COMPLETED" =>
          \E j \in 1..Len(performed[r]) : performed[r][j] = robot[r].inbox[1]

\* Nothing robot r holds or performs comes after a command requested later.
OrderInv(r) ==
    /\ \A i, j \in 1..Len(performed[r]) :
          i < j => performed[r][j] \notin prior[performed[r][i]]
    /\ \A i \in 1..Len(performed[r]), j \in 1..Len(robot[r].inbox) :
          robot[r].inbox[j] \notin prior[performed[r][i]]
    /\ \A i, j \in 1..Len(robot[r].inbox) :
          i < j => robot[r].inbox[j] \notin prior[robot[r].inbox[i]]

\* A claim handler collects commands of the robot it serves, in order.
CollectInv(h) ==
    /\ claiming[h].pc = "idle" => claimed[h] = << >>
    /\ claiming[h].pc = "dispatch" => robotOf[claiming[h].cmd] = claiming[h].robot
    /\ \A i \in 1..Len(claimed[h]) :
          /\ robotOf[claimed[h][i]] = claiming[h].robot
          /\ \A j \in 1..Len(claimed[h]) : i < j => claimed[h][j] \notin prior[claimed[h][i]]

\* What a polling robot is about to receive does not come too late for what it
\* has performed.
PollInv(r) ==
    \A h \in Claimers :
        (robot[r].pc = "polling" /\ robot[r].via = h /\ claiming[h].robot = r) =>
            \A i \in 1..Len(performed[r]), j \in 1..Len(claimed[h]) :
                claimed[h][j] \notin prior[performed[r][i]]

\* Some robot has performed command c.
Done(c) == \E r \in Robots : \E i \in 1..Len(performed[r]) : performed[r][i] = c

\* COMPLETED is only reported of a command that was performed, and no client
\* reports DISPATCHED.
ReportInv(p) ==
    patching[p].pc # "idle" =>
        /\ patching[p].new # "DISPATCHED"
        /\ patching[p].new = "COMPLETED" => Done(patching[p].cmd)

ResultInv == \A c \in Commands : status[c] = "COMPLETED" => Done(c)

\* A command requested later waits until the ones before it are PENDING no more.
FifoInv ==
    /\ \A e \in Commands : \A c \in prior[e] : Exists(c) /\ c < e
    /\ \A e \in Commands : \A c \in prior[e] :
          (robotOf[c] = robotOf[e] /\ status[c] = "PENDING") =>
              /\ "dispatched_at" \notin stamps[e]
              /\ \A h \in Claimers : claiming[h].pc = "dispatch" => claiming[h].cmd # e

DInv ==
    /\ IInv
    /\ DeliveryTyped
    /\ \A r \in Robots : HandInv(r)
    /\ \A r \in Robots : OrderInv(r)
    /\ \A h \in Claimers : CollectInv(h)
    /\ \A r \in Robots : PollInv(r)
    /\ \A p \in Patchers : ReportInv(p)
    /\ ResultInv
    /\ FifoInv

-----------------------------------------------------------------------------
(* The composition's steps, seen from the table. *)

\* A robot's own steps: they touch no table and no handler.
Alone(r) == RobotPollFails(r) \/ RobotTake(r) \/ RobotReportLost(r) \/ RobotAct(r)

\* The command a robot has in hand is one of its own that was delivered.
LEMMA CurrentFacts ==
  ASSUME DInv, NEW r \in Robots, robot[r].inbox # << >>
  PROVE  /\ Current(r) = robot[r].inbox[1]
         /\ 1 \in 1..Len(robot[r].inbox)
         /\ Current(r) \in Commands
         /\ Current(r) \in delivered
         /\ robotOf[Current(r)] = r
  <1>1. robot[r].inbox \in Seq(Commands)
    BY DEF DInv, DeliveryTyped, RobotState
  <1>2. Current(r) = robot[r].inbox[1] /\ 1 \in 1..Len(robot[r].inbox) /\ Current(r) \in Commands
    BY <1>1 DEF Current
  <1> QED
    BY <1>2 DEF DInv, HandInv

\* A report is about the command in hand and carries one of four statuses.
LEMMA ReportFacts ==
  ASSUME DInv, NEW r \in Robots, robot[r].pc \in DOMAIN After
  PROVE  /\ robot[r].pc \in {"ack", "exec", "final"}
         /\ robot[r].inbox # << >>
         /\ Report(r) \in Status \ {"DISPATCHED"}
         /\ Report(r) = "COMPLETED" => Done(Current(r))
  <1>1. DOMAIN After = {"ack", "exec", "final", "replay"}
    BY DEF After
  <1>2. robot[r].pc \in {"ack", "exec", "final"}
    BY <1>1 DEF DInv, HandInv
  <1>3. robot[r].inbox # << >>
    BY <1>2 DEF DInv, HandInv, InHand
  <1>4. robot[r].result \in {"COMPLETED", "FAILED"}
    BY DEF DInv, DeliveryTyped, RobotState
  <1>5. Report(r) = IF robot[r].pc = "ack" THEN "ACKNOWLEDGED"
                    ELSE IF robot[r].pc = "exec" THEN "EXECUTING" ELSE robot[r].result
    BY <1>2 DEF Report
  <1>6. Report(r) \in Status \ {"DISPATCHED"}
    BY <1>2, <1>4, <1>5 DEF Status, TerminalStates
  <1>7. ASSUME Report(r) = "COMPLETED"
        PROVE  Done(Current(r))
    <2>1. robot[r].pc = "final" /\ robot[r].result = "COMPLETED"
      BY <1>2, <1>5, <1>7
    <2>2. PICK j \in 1..Len(performed[r]) : performed[r][j] = robot[r].inbox[1]
      BY <2>1 DEF DInv, HandInv
    <2> QED
      BY <2>2, <1>3, CurrentFacts DEF Done
  <1> QED
    BY <1>2, <1>3, <1>6, <1>7

\* The steps by who takes them.
LEMMA DeliverySplit ==
  DeliveryNext <=> \/ \E r \in Robots : Alone(r)
                   \/ \E r \in Robots : RobotRestart(r)
                   \/ \E r \in Robots, h \in Claimers : RobotPoll(r, h)
                   \/ \E r \in Robots : RobotReceive(r)
                   \/ \E r \in Robots, p \in Patchers : RobotReport(r, p)
                   \/ \E p \in Creators : Submit(p)
                   \/ Backend
  BY DEF DeliveryNext, Alone, RobotStep

\* A robot receives from the handler it polls.
LEMMA ReceiveFacts ==
  ASSUME DInv, NEW r \in Robots, RobotReceive(r)
  PROVE  robot[r].via \in Claimers /\ ClaimRespond(robot[r].via)
  BY DEF RobotReceive, DInv, HandInv

\* A report is a PATCH of a stored command.
LEMMA ReportIsPatch ==
  ASSUME DInv, NEW r \in Robots, NEW p \in Patchers, RobotReport(r, p)
  PROVE  /\ Current(r) \in Commands
         /\ Report(r) \in Status \ {"DISPATCHED"}
         /\ Report(r) = "COMPLETED" => Done(Current(r))
         /\ PatchRead(p, Current(r), Report(r))
  BY ReportFacts, CurrentFacts DEF RobotReport

\* Every step of the composition but a robot's own is a step of the table.
LEMMA TableStep ==
  ASSUME DInv, DeliveryNext
  PROVE  \/ Next
         \/ \E r \in Robots : Alone(r)
         \/ \E r \in Robots : RobotRestart(r)
  <1>1. ASSUME NEW r \in Robots, NEW h \in Claimers, RobotPoll(r, h)
        PROVE  Next
    BY <1>1 DEF RobotPoll, Next
  <1>2. ASSUME NEW r \in Robots, RobotReceive(r)
        PROVE  Next
    BY <1>2, ReceiveFacts DEF Next, ClaimStep
  <1>3. ASSUME NEW r \in Robots, NEW p \in Patchers, RobotReport(r, p)
        PROVE  Next
    BY <1>3, ReportIsPatch DEF Next
  <1>4. ASSUME NEW p \in Creators, Submit(p)
        PROVE  Next
    BY <1>4 DEF Submit, Next
  <1>5. CASE Backend
    <2>1. "CANCELLED" \in Status
      BY DEF Status, TerminalStates
    <2> QED
      BY <1>5, <2>1 DEF Backend, Next, Cancel, OrphanRespond, ClaimStep
  <1> QED
    BY <1>1, <1>2, <1>3, <1>4, <1>5, DeliverySplit

\* The table's invariant carries over.
LEMMA TableInv ==
  ASSUME DInv, DeliveryNext
  PROVE  IInv'
  <1>1. IInv
    BY DEF DInv
  <1>2. CASE Next
    BY <1>1, <1>2, StepInv
  <1>3. ASSUME NEW r \in Robots, Alone(r)
        PROVE  IInv'
    <2>1. UNCHANGED vars
      BY <1>3 DEF Alone, RobotPollFails, RobotTake, RobotReportLost, RobotAct
    <2> QED
      BY <1>1, <2>1, StutterInv
  <1>4. ASSUME NEW r \in Robots, RobotRestart(r)
        PROVE  IInv'
    <2>1. faults' \in 0..MaxFaults
      BY <1>1, <1>4, MaxFaultsAssumption DEF RobotRestart, IInv, TypeOK
    <2>2. UNCHANGED <<nextId, status, stamps, robotOf, keyOf, deadline, rowLock, scanLock,
                      reply, told, delivered, creating, claiming, claimed, patching, scanning>>
      BY <1>4 DEF RobotRestart, requests, rows, locks, outside, handlers
    <2>3. TypeOK'
      BY <1>1, <2>1, <2>2 DEF IInv, TypeOK
    <2>4. /\ \A c \in Commands : (Exists(c)' <=> Exists(c)) /\ Reached(c)' = Reached(c)
          /\ \A c \in Commands : Colliding(c)' = Colliding(c)
          /\ \A h \in Claimers : Claimed(h)' = Claimed(h)
      BY <2>2 DEF Exists, Reached, Colliding, Claimed
    <2>5. RowIsOneRun' /\ ToldOnlyDurable' /\ ExclusiveClaim'
      BY <1>1, <2>2, <2>4 DEF IInv, RowIsOneRun, ToldOnlyDurable, ExclusiveClaim
    <2>6. CreateInv' /\ KeyInv' /\ ReplyInv'
      BY <1>1, <2>2, <2>4 DEF IInv, CreateInv, KeyInv, ReplyInv, Exists
    <2>7. ClaimInv' /\ PatchInv'
      BY <1>1, <2>2, <2>4 DEF IInv, ClaimInv, PatchInv, Exists
    <2>8. ScanInv'
      BY <1>1, <2>2, <2>4 DEF IInv, ScanInv, Exists
    <2> QED
      BY <2>3, <2>5, <2>6, <2>7, <2>8 DEF IInv
  <1> QED
    BY <1>2, <1>3, <1>4, TableStep

-----------------------------------------------------------------------------
(* What every step leaves standing. *)

\* The requests made so far, and what was stored when each came in, are settled;
\* what was delivered stays delivered; a row forgets nothing.
Settled ==
    /\ RowsGrow
    /\ delivered \subseteq delivered'
    /\ \A c \in Commands : c < nextId => robotOf'[c] = robotOf[c] /\ prior'[c] = prior[c]

\* A stored or dispatched command is one already requested.
LEMMA StoredIsOld ==
  ASSUME IInv, NEW c \in Commands
  PROVE  /\ Exists(c) => c < nextId
         /\ "dispatched_at" \in stamps[c] => Exists(c) /\ c < nextId
         /\ c \in delivered => Exists(c) /\ c < nextId
  <1>1. nextId \in Nat /\ c \in Nat
    BY MaxCommandAssumption DEF IInv, TypeOK, Commands
  <1>2. Exists(c) => c < nextId
    BY <1>1 DEF IInv, CreateInv
  <1>3. "dispatched_at" \in stamps[c] => Exists(c)
    BY DEF IInv, RowIsOneRun
  <1>4. c \in delivered => "dispatched_at" \in stamps[c]
    BY DEF IInv, ClaimInv
  <1> QED
    BY <1>2, <1>3, <1>4

\* Only a create request writes robot_id, and the record of what was stored.
LEMMA RequestsFixed ==
  ASSUME DInv, DeliveryNext, ~(\E p \in Creators : Submit(p))
  PROVE  UNCHANGED <<robotOf, prior>>
  <1>1. UNCHANGED prior
    BY DeliverySplit DEF Alone, RobotPollFails, RobotTake, RobotReportLost, RobotAct,
          RobotRestart, RobotPoll, RobotReceive, RobotReport, Backend
  <1>2. UNCHANGED robotOf
    <2>1. ASSUME NEW r \in Robots, Alone(r) \/ RobotRestart(r)
          PROVE  UNCHANGED robotOf
      BY <2>1 DEF Alone, RobotPollFails, RobotTake, RobotReportLost, RobotAct, RobotRestart,
                  vars, requests
    <2>2. ASSUME NEW r \in Robots, NEW h \in Claimers, RobotPoll(r, h)
          PROVE  UNCHANGED robotOf
      BY <2>2 DEF RobotPoll, ClaimBegin, requests
    <2>3. ASSUME NEW r \in Robots, RobotReceive(r)
          PROVE  UNCHANGED robotOf
      BY <2>3 DEF RobotReceive, ClaimRespond, requests
    <2>4. ASSUME NEW r \in Robots, NEW p \in Patchers, RobotReport(r, p)
          PROVE  UNCHANGED robotOf
      BY <2>4 DEF RobotReport, PatchRead, requests
    <2>5. CASE Backend
      <3>1. ASSUME NEW p \in Creators, CreateStep(p) \/ CreateAbort(p)
            PROVE  UNCHANGED robotOf
        BY <3>1 DEF CreateStep, CreateCommit, CreateBroadcast, CreateRecover, CreateAbort,
                    requests
      <3>2. ASSUME NEW h \in Claimers,
                   ClaimSelect(h) \/ ClaimDispatch(h) \/ ClaimBroadcast(h) \/ OrphanRespond(h)
                   \/ ClaimAbort(h)
            PROVE  UNCHANGED robotOf
        BY <3>2, ClaimFrame DEF OrphanRespond, ClaimAny, ClaimStep, requests
      <3>3. ASSUME NEW p \in Patchers, PatchStep(p) \/ PatchAbort(p) \/ Cancel(p)
            PROVE  UNCHANGED robotOf
        BY <3>3 DEF PatchStep, PatchCas, PatchConflict, PatchReread, PatchBroadcast,
                    PatchAbort, Cancel, PatchRead, requests
      <3>4. ASSUME NEW s \in Scanners, ScanStep(s) \/ ScanFail(s) \/ ScanCrash(s)
            PROVE  UNCHANGED robotOf
        BY <3>4, ScanFrame DEF ScanAny, requests
      <3>5. ASSUME EnvAny
            PROVE  UNCHANGED robotOf
        BY <3>5, EnvFrame DEF requests
      <3> QED
        BY <2>5, <3>1, <3>2, <3>3, <3>4, <3>5 DEF Backend, EnvAny
    <2> QED
      BY <2>1, <2>2, <2>3, <2>4, <2>5, DeliverySplit
  <1> QED
    BY <1>1, <1>2

\* Every step is settled.
LEMMA StepSettled ==
  ASSUME DInv, DeliveryNext
  PROVE  Settled
  <1>1. IInv
    BY DEF DInv
  <1>2. CASE UNCHANGED <<rows, delivered, robotOf, prior>>
    BY <1>2 DEF Settled, RowsGrow, rows, Exists, Reached
  <1>3. CASE Next
    <2>1. RowsGrow
      BY <1>1, <1>3, NextRows
    <2>2. delivered \subseteq delivered'
      <3>1. ASSUME NEW h \in Claimers, ClaimAny(h)
            PROVE  delivered \subseteq delivered'
        BY <3>1 DEF ClaimAny, ClaimStep, ClaimBegin, ClaimSelect, ClaimDispatch, ClaimBroadcast,
                    ClaimRespond, ClaimAbort, outside
      <3> QED
        BY <1>3, <3>1, NextSplit, CreateFrame, PatchFrame, ScanFrame, EnvFrame DEF outside
    <2>3. CASE \E p \in Creators : Submit(p)
      <3>1. PICK p \in Creators : Submit(p)
        BY <2>3
      <3>2. PICK r \in Robots, k \in Keys \cup {NoKey}, d \in Deadlines : CreateBegin(p, r, k, d)
        BY <3>1 DEF Submit
      <3>3. /\ robotOf' = [robotOf EXCEPT ![nextId] = r]
            /\ prior' = [prior EXCEPT ![nextId] = {c \in Commands : Exists(c)}]
        BY <3>1, <3>2 DEF Submit, CreateBegin
      <3>4. nextId \in Nat /\ \A c \in Commands : c \in Nat
        BY <1>1, MaxCommandAssumption DEF IInv, TypeOK, Commands
      <3>5. ASSUME NEW c \in Commands, c < nextId
            PROVE  robotOf'[c] = robotOf[c] /\ prior'[c] = prior[c]
        <4>1. c # nextId
          BY <3>4, <3>5
        <4> QED
          BY <4>1, <3>3, <1>1 DEF IInv, TypeOK, DInv, DeliveryTyped
      <3> QED
        BY <2>1, <2>2, <3>5 DEF Settled
    <2>4. CASE ~(\E p \in Creators : Submit(p))
      BY <2>1, <2>2, <2>4, RequestsFixed DEF Settled
    <2> QED
      BY <2>3, <2>4
  <1>4. ASSUME NEW r \in Robots, Alone(r) \/ RobotRestart(r)
        PROVE  UNCHANGED <<rows, delivered, robotOf, prior>>
    BY <1>4 DEF Alone, RobotPollFails, RobotTake, RobotReportLost, RobotAct, RobotRestart,
                vars, requests, rows, outside
  <1> QED
    BY <1>2, <1>3, <1>4, TableStep

\* A robot that does not move keeps what it knows.
LEMMA HandKept ==
  ASSUME DInv, Settled, NEW r \in Robots,
         robot'[r] = robot[r], processed'[r] = processed[r], performed'[r] = performed[r]
  PROVE  HandInv(r)' /\ OrderInv(r)'
  <1>1. ASSUME NEW c \in delivered
        PROVE  c \in delivered' /\ robotOf'[c] = robotOf[c] /\ prior'[c] = prior[c]
    <2>1. c \in Commands
      BY DEF DInv, IInv, TypeOK
    <2> QED
      BY <2>1, StoredIsOld DEF DInv, Settled
  <1>2. HandInv(r) /\ OrderInv(r)
    BY DEF DInv
  <1>3. HandInv(r)'
    BY <1>1, <1>2 DEF HandInv
  <1>4. OrderInv(r)'
    BY <1>1, <1>2 DEF OrderInv, HandInv
  <1> QED
    BY <1>3, <1>4

-----------------------------------------------------------------------------
(* The robot's loop. *)

\* A robot at rest knows nothing but what it has performed: a failed poll, the
\* end of the list, a restart.
LEMMA HandRest ==
  ASSUME DInv, NEW r \in Robots,
         robot'[r].pc \in {"idle", "polling"}, robot'[r].inbox = << >>,
         robot'[r].pc = "polling" => robot'[r].via \in Claimers,
         processed'[r] \subseteq processed[r], performed'[r] = performed[r],
         UNCHANGED <<delivered, robotOf, prior>>
  PROVE  HandInv(r)' /\ OrderInv(r)'
  <1>1. HandInv(r) /\ OrderInv(r)
    BY DEF DInv
  <1>2. Len(robot'[r].inbox) = 0
    OBVIOUS
  <1>3. HandInv(r)'
    BY <1>1, <1>2 DEF HandInv, InHand
  <1>4. OrderInv(r)'
    BY <1>1, <1>2 DEF OrderInv
  <1> QED
    BY <1>3, <1>4

\* The robot takes up the next command, which it has not processed: none of the
\* delivered ones was delivered before.
LEMMA HandTake ==
  ASSUME DInv, NEW r \in Robots, RobotTake(r), robot[r].inbox # << >>
  PROVE  HandInv(r)' /\ OrderInv(r)'
  <1>1. HandInv(r) /\ OrderInv(r)
    BY DEF DInv
  <1>2. /\ Current(r) = robot[r].inbox[1]
        /\ 1 \in 1..Len(robot[r].inbox)
        /\ Current(r) \in delivered
    BY CurrentFacts
  <1>3. robot[r].pc = "take" /\ Current(r) \notin processed[r]
    BY <1>1, <1>2 DEF RobotTake, HandInv, InHand
  <1>4. /\ robot'[r] = [robot[r] EXCEPT !.pc = "ack"]
        /\ processed'[r] = processed[r] \cup {robot[r].inbox[1]}
        /\ UNCHANGED <<performed, delivered, robotOf, prior>>
    BY <1>2, <1>3 DEF RobotTake, vars, DInv, DeliveryTyped
  <1>5. /\ robot'[r].pc = "ack"
        /\ robot'[r].inbox = robot[r].inbox
        /\ robot'[r].via = robot[r].via
        /\ robot'[r].result = robot[r].result
    BY <1>4 DEF DInv, DeliveryTyped, RobotState
  <1>6. \A i \in 1..Len(robot[r].inbox) :
            robot[r].inbox[i] \in processed'[r] => i = 1
    BY <1>1, <1>2, <1>3, <1>4 DEF HandInv, InHand
  <1>7. processed'[r] \subseteq delivered
    BY <1>1, <1>2, <1>4 DEF HandInv
  <1>8. HandInv(r)'
    BY <1>1, <1>3, <1>4, <1>5, <1>6, <1>7 DEF HandInv, InHand
  <1>9. OrderInv(r)'
    BY <1>1, <1>4, <1>5 DEF OrderInv
  <1> QED
    BY <1>8, <1>9

\* The robot goes on after a report, whether the request got through or not.
LEMMA HandContinue ==
  ASSUME DInv, NEW r \in Robots, robot[r].pc \in DOMAIN After, Continue(r),
         UNCHANGED <<processed, performed, delivered, robotOf, prior>>
  PROVE  HandInv(r)' /\ OrderInv(r)'
  <1>1. HandInv(r) /\ OrderInv(r)
    BY DEF DInv
  <1>2. robot[r].pc \in {"ack", "exec", "final"} /\ robot[r].inbox # << >>
    BY ReportFacts
  <1>3. /\ After["ack"] = "exec"
        /\ After["exec"] = "act"
        /\ After["final"] = "take"
    BY DEF After
  <1>4. robot[r] \in RobotState /\ robot[r].inbox \in Seq(Commands)
    BY DEF DInv, DeliveryTyped, RobotState
  <1>5. /\ robot'[r].pc = After[robot[r].pc]
        /\ robot'[r].inbox = IF After[robot[r].pc] = "take" THEN Tail(robot[r].inbox)
                             ELSE robot[r].inbox
    BY DEF Continue, DInv, DeliveryTyped, RobotState
  <1>6. CASE robot[r].pc \in {"ack", "exec"}
    <2>1. robot'[r].pc \in {"exec", "act"} /\ robot'[r].inbox = robot[r].inbox
      BY <1>3, <1>5, <1>6
    <2>2. HandInv(r)'
      BY <1>1, <1>2, <1>6, <2>1 DEF HandInv, InHand
    <2>3. OrderInv(r)'
      BY <1>1, <2>1 DEF OrderInv
    <2> QED
      BY <2>2, <2>3
  <1>7. CASE robot[r].pc = "final"
    <2>1. robot'[r].pc = "take" /\ robot'[r].inbox = Tail(robot[r].inbox)
      BY <1>3, <1>5, <1>7
    <2>2. /\ Len(robot'[r].inbox) = Len(robot[r].inbox) - 1
          /\ \A i \in 1..Len(robot'[r].inbox) :
                /\ i \in Nat
                /\ i + 1 \in 1..Len(robot[r].inbox)
                /\ i + 1 # 1
                /\ robot'[r].inbox[i] = robot[r].inbox[i + 1]
      BY <1>2, <1>4, <2>1
    <2>3. HandInv(r)'
      BY <1>1, <2>1, <2>2 DEF HandInv, InHand
    <2>4. OrderInv(r)'
      <3>1. \A i, j \in 1..Len(robot'[r].inbox) : i < j => i + 1 < j + 1
        OBVIOUS
      <3> QED
        BY <1>1, <2>2, <3>1 DEF OrderInv
    <2> QED
      BY <2>3, <2>4
  <1> QED
    BY <1>2, <1>6, <1>7

\* The robot carries out the command in hand, or cannot.
LEMMA HandAct ==
  ASSUME DInv, NEW r \in Robots, RobotAct(r)
  PROVE  HandInv(r)' /\ OrderInv(r)'
  <1>1. HandInv(r) /\ OrderInv(r)
    BY DEF DInv
  <1>2. robot[r].pc = "act" /\ UNCHANGED <<processed, delivered, robotOf, prior>>
    BY DEF RobotAct, vars
  <1>3. robot[r].inbox # << >>
    BY <1>1, <1>2 DEF HandInv, InHand
  <1>4. /\ Current(r) = robot[r].inbox[1]
        /\ 1 \in 1..Len(robot[r].inbox)
        /\ Current(r) \in delivered
        /\ robotOf[Current(r)] = r
        /\ Current(r) \in Commands
    BY <1>3, CurrentFacts
  <1>5. CASE performed' = performed /\ robot' = [robot EXCEPT ![r].pc = "final", ![r].result = "FAILED"]
    <2>1. /\ robot'[r].pc = "final"
          /\ robot'[r].result = "FAILED"
          /\ robot'[r].inbox = robot[r].inbox
          /\ performed' = performed
      BY <1>5 DEF DInv, DeliveryTyped, RobotState
    <2>2. HandInv(r)'
      BY <1>1, <1>2, <1>3, <2>1 DEF HandInv, InHand
    <2>3. OrderInv(r)'
      BY <1>1, <1>2, <1>5, <2>1 DEF OrderInv
    <2> QED
      BY <2>2, <2>3
  <1>6. CASE /\ performed' = [performed EXCEPT ![r] = Append(@, Current(r))]
             /\ robot' = [robot EXCEPT ![r].pc = "final", ![r].result = "COMPLETED"]
    <2>1. /\ robot'[r].pc = "final"
          /\ robot'[r].result = "COMPLETED"
          /\ robot'[r].inbox = robot[r].inbox
      BY <1>6 DEF DInv, DeliveryTyped, RobotState
    <2>2. performed[r] \in Seq(Commands) /\ performed'[r] = Append(performed[r], robot[r].inbox[1])
      BY <1>4, <1>6 DEF DInv, DeliveryTyped
    <2> DEFINE n == Len(performed[r])
    <2>3. /\ n \in Nat
          /\ Len(performed'[r]) = n + 1
          /\ performed'[r][n + 1] = robot[r].inbox[1]
          /\ \A i \in 1..n : performed'[r][i] = performed[r][i]
      BY <1>4, <2>2
    <2>4. \A i \in 1..(n + 1) : i = n + 1 \/ i \in 1..n
      BY <2>3
    <2> HIDE DEF n
    <2>5. \A i \in 1..Len(performed[r]) : performed[r][i] # robot[r].inbox[1]
      BY <1>1, <1>2, <1>4 DEF HandInv
    <2>6. \A i \in 1..n : performed[r][i] # robot[r].inbox[1]
      BY <2>5 DEF n
    <2>7. ASSUME NEW i \in 1..(n + 1)
          PROVE  /\ performed'[r][i] \in delivered
                 /\ robotOf[performed'[r][i]] = r
                 /\ \A j \in 1..(n + 1) : performed'[r][i] = performed'[r][j] => i = j
      <3>1. \A k \in 1..n : /\ performed[r][k] \in delivered
                            /\ robotOf[performed[r][k]] = r
                            /\ \A j \in 1..n : performed[r][k] = performed[r][j] => k = j
        BY <1>1 DEF HandInv, n
      <3>2. CASE i = n + 1
        BY <1>4, <2>3, <2>4, <2>6, <3>2
      <3>3. CASE i \in 1..n
        BY <2>3, <2>4, <2>6, <3>1, <3>3
      <3> QED
        BY <2>4, <3>2, <3>3
    <2>8. ASSUME NEW i \in 1..Len(robot[r].inbox), NEW j \in 1..(n + 1),
                 robot[r].inbox[i] = performed'[r][j]
          PROVE  i = 1
      <3>1. CASE j = n + 1
        BY <1>1, <1>4, <2>3, <2>8, <3>1 DEF HandInv
      <3>2. CASE j \in 1..n
        BY <1>1, <2>3, <2>8, <3>2 DEF HandInv, n
      <3> QED
        BY <2>4, <3>1, <3>2
    <2>9. \E j \in 1..(n + 1) : performed'[r][j] = robot[r].inbox[1]
      <3>1. n + 1 \in 1..(n + 1)
        BY <2>3
      <3> QED
        BY <2>3, <3>1
    <2>10. HandInv(r)'
      BY <1>1, <1>2, <1>3, <2>1, <2>3, <2>7, <2>8, <2>9 DEF HandInv, InHand
    <2>11. ASSUME NEW i \in 1..(n + 1), NEW j \in 1..(n + 1), i < j
           PROVE  performed'[r][j] \notin prior[performed'[r][i]]
      <3>1. i \in 1..n
        BY <2>3, <2>4, <2>11
      <3>2. CASE j = n + 1
        BY <1>1, <1>4, <2>3, <3>1, <3>2 DEF OrderInv, n
      <3>3. CASE j \in 1..n
        BY <1>1, <2>3, <2>11, <3>1, <3>3 DEF OrderInv, n
      <3> QED
        BY <2>4, <3>2, <3>3
    <2>12. ASSUME NEW i \in 1..(n + 1), NEW j \in 1..Len(robot[r].inbox)
           PROVE  robot[r].inbox[j] \notin prior[performed'[r][i]]
      <3>1. CASE i = n + 1
        <4>1. CASE j = 1
          <5>1. \A c \in prior[robot[r].inbox[1]] : c < robot[r].inbox[1]
            BY <1>4 DEF DInv, FifoInv
          <5>2. robot[r].inbox[1] \in Nat
            BY <1>4 DEF Commands
          <5> QED
            BY <2>3, <3>1, <4>1, <5>1, <5>2
        <4>2. CASE j # 1
          BY <1>1, <1>4, <2>3, <3>1, <4>2 DEF OrderInv
        <4> QED
          BY <4>1, <4>2
      <3>2. CASE i \in 1..n
        BY <1>1, <2>3, <3>2 DEF OrderInv, n
      <3> QED
        BY <2>4, <3>1, <3>2
    <2>13. OrderInv(r)'
      BY <1>1, <1>2, <2>1, <2>3, <2>11, <2>12 DEF OrderInv
    <2> QED
      BY <2>10, <2>13
  <1> QED
    BY <1>5, <1>6 DEF RobotAct

\* The robot receives a list nobody was given before.
LEMMA HandReceive ==
  ASSUME DInv, NEW r \in Robots, RobotReceive(r)
  PROVE  HandInv(r)' /\ OrderInv(r)'
  <1>1. HandInv(r) /\ OrderInv(r)
    BY DEF DInv
  <1> DEFINE h == robot[r].via
  <1>2. /\ h \in Claimers
        /\ claiming[h].robot = r
        /\ robot[r].pc = "polling"
        /\ UNCHANGED <<processed, performed, robotOf, prior>>
        /\ delivered' = delivered \cup Claimed(h)
    BY ReceiveFacts DEF RobotReceive, ClaimRespond, requests
  <1>3. robot'[r].pc = "take" /\ robot'[r].inbox = claimed[h]
    BY DEF RobotReceive, DInv, DeliveryTyped, RobotState
  <1> HIDE DEF h
  <1>4. ASSUME NEW i \in 1..Len(claimed[h])
        PROVE  /\ claimed[h][i] \in delivered'
               /\ claimed[h][i] \notin delivered
               /\ robotOf[claimed[h][i]] = r
               /\ \A j \in 1..Len(claimed[h]) : claimed[h][i] = claimed[h][j] => i = j
               /\ \A j \in 1..Len(claimed[h]) : i < j => claimed[h][j] \notin prior[claimed[h][i]]
    <2>1. claimed[h][i] \in delivered'
      BY <1>2 DEF Claimed
    <2>2. /\ claimed[h][i] \notin delivered
          /\ \A j \in 1..Len(claimed[h]) : claimed[h][i] = claimed[h][j] => i = j
      BY <1>2 DEF DInv, IInv, ExclusiveClaim
    <2> QED
      BY <1>2, <2>1, <2>2 DEF DInv, CollectInv
  <1>5. /\ processed[r] \subseteq delivered
        /\ \A j \in 1..Len(performed[r]) : performed[r][j] \in delivered
    BY <1>1 DEF HandInv
  <1>6. HandInv(r)'
    BY <1>1, <1>2, <1>3, <1>4, <1>5 DEF HandInv, InHand
  <1>7. \A i \in 1..Len(performed[r]), j \in 1..Len(claimed[h]) :
            claimed[h][j] \notin prior[performed[r][i]]
    BY <1>2 DEF DInv, PollInv, h
  <1>8. OrderInv(r)'
    BY <1>1, <1>2, <1>3, <1>4, <1>7 DEF OrderInv
  <1> QED
    BY <1>6, <1>8

\* A step moves no robot, or moves one of them as its loop prescribes.
LEMMA NextHand ==
  ASSUME DInv, DeliveryNext
  PROVE  \A r \in Robots : HandInv(r)' /\ OrderInv(r)'
  <1>1. Settled
    BY StepSettled
  <1>2. /\ robot \in [Robots -> RobotState]
        /\ processed \in [Robots -> SUBSET Commands]
        /\ performed \in [Robots -> Seq(Commands)]
    BY DEF DInv, DeliveryTyped
  <1>3. ASSUME UNCHANGED robotVars
        PROVE  \A r \in Robots : HandInv(r)' /\ OrderInv(r)'
    BY <1>1, <1>3, HandKept DEF robotVars
  <1>4. ASSUME NEW r \in Robots, HandInv(r)' /\ OrderInv(r)',
               \A q \in Robots \ {r} : /\ robot'[q] = robot[q]
                                       /\ processed'[q] = processed[q]
                                       /\ performed'[q] = performed[q]
        PROVE  \A q \in Robots : HandInv(q)' /\ OrderInv(q)'
    BY <1>1, <1>4, HandKept
  <1>5. ASSUME NEW r \in Robots,
               Alone(r) \/ RobotRestart(r) \/ RobotReceive(r)
               \/ (\E h \in Claimers : RobotPoll(r, h)) \/ (\E p \in Patchers : RobotReport(r, p))
        PROVE  \A q \in Robots \ {r} : /\ robot'[q] = robot[q]
                                       /\ processed'[q] = processed[q]
                                       /\ performed'[q] = performed[q]
    BY <1>2, <1>5 DEF Alone, RobotPollFails, RobotTake, RobotReportLost, RobotAct, RobotRestart,
                      RobotReceive, RobotPoll, RobotReport, Continue
  <1>6. /\ IdleRobot.pc = "idle"
        /\ IdleRobot.inbox = << >>
    BY DEF IdleRobot
  <1>7. ASSUME NEW r \in Robots, Alone(r)
        PROVE  HandInv(r)' /\ OrderInv(r)'
    <2>1. UNCHANGED <<delivered, robotOf, prior>>
      BY <1>7 DEF Alone, RobotPollFails, RobotTake, RobotReportLost, RobotAct, vars
    <2>2. CASE RobotPollFails(r)
      <3>1. robot'[r] = IdleRobot /\ UNCHANGED <<processed, performed>>
        BY <1>2, <2>2 DEF RobotPollFails
      <3> QED
        BY <1>6, <2>1, <3>1, HandRest
    <2>3. CASE RobotTake(r) /\ robot[r].inbox = << >>
      <3>1. robot'[r] = IdleRobot /\ UNCHANGED <<processed, performed>>
        BY <1>2, <2>3 DEF RobotTake
      <3> QED
        BY <1>6, <2>1, <3>1, HandRest
    <2>4. CASE RobotTake(r) /\ robot[r].inbox # << >>
      BY <2>4, HandTake
    <2>5. CASE RobotReportLost(r)
      BY <2>1, <2>5, HandContinue DEF RobotReportLost
    <2>6. CASE RobotAct(r)
      BY <2>6, HandAct
    <2> QED
      BY <1>7, <2>2, <2>3, <2>4, <2>5, <2>6 DEF Alone
  <1>8. ASSUME NEW r \in Robots, RobotRestart(r)
        PROVE  HandInv(r)' /\ OrderInv(r)'
    <2>1. /\ robot'[r] = IdleRobot
          /\ processed'[r] = {}
          /\ UNCHANGED <<performed, delivered, robotOf, prior>>
      BY <1>2, <1>8 DEF RobotRestart, requests, outside
    <2> QED
      BY <1>6, <2>1, HandRest
  <1>9. ASSUME NEW r \in Robots, NEW h \in Claimers, RobotPoll(r, h)
        PROVE  HandInv(r)' /\ OrderInv(r)'
    <2>1. UNCHANGED <<processed, performed, delivered, robotOf, prior>>
      BY <1>9 DEF RobotPoll, ClaimBegin, requests, outside
    <2>2. robot[r].inbox = << >>
      BY <1>9 DEF RobotPoll, DInv, HandInv
    <2>3. /\ robot'[r].pc = "polling"
          /\ robot'[r].via = h
          /\ robot'[r].inbox = << >>
      BY <1>2, <1>9, <2>2 DEF RobotPoll, RobotState
    <2> QED
      BY <2>1, <2>3, HandRest
  <1>10. ASSUME NEW r \in Robots, NEW p \in Patchers, RobotReport(r, p)
         PROVE  HandInv(r)' /\ OrderInv(r)'
    <2>1. UNCHANGED <<processed, performed, delivered, robotOf, prior>>
      BY <1>10 DEF RobotReport, PatchRead, requests
    <2> QED
      BY <1>10, <2>1, HandContinue DEF RobotReport
  <1>11. ASSUME Backend \/ \E p \in Creators : Submit(p)
         PROVE  UNCHANGED robotVars
    BY <1>11 DEF Backend, Submit, robotVars
  <1>12. CASE \E r \in Robots : Alone(r)
    BY <1>12, <1>4, <1>5, <1>7
  <1>13. CASE \E r \in Robots : RobotRestart(r)
    BY <1>13, <1>4, <1>5, <1>8
  <1>14. CASE \E r \in Robots, h \in Claimers : RobotPoll(r, h)
    BY <1>14, <1>4, <1>5, <1>9
  <1>15. CASE \E r \in Robots : RobotReceive(r)
    BY <1>15, <1>4, <1>5, HandReceive
  <1>16. CASE \E r \in Robots, p \in Patchers : RobotReport(r, p)
    BY <1>16, <1>4, <1>5, <1>10
  <1> QED
    BY <1>3, <1>11, <1>12, <1>13, <1>14, <1>15, <1>16, DeliverySplit

\* What the loop writes is well typed.
LEMMA NextDeliveryTyped ==
  ASSUME DInv, DeliveryNext
  PROVE  DeliveryTyped'
  <1>1. DeliveryTyped
    BY DEF DInv
  <1>2. IdleRobot \in RobotState
    BY DEF IdleRobot, RobotState
  <1>3. CASE UNCHANGED <<robotVars, prior>>
    BY <1>1, <1>3 DEF DeliveryTyped, robotVars
  <1>4. ASSUME NEW p \in Creators, Submit(p)
        PROVE  DeliveryTyped'
    BY <1>1, <1>4 DEF Submit, DeliveryTyped, robotVars
  <1>5. ASSUME NEW r \in Robots, RobotPollFails(r) \/ RobotRestart(r)
        PROVE  DeliveryTyped'
    BY <1>1, <1>2, <1>5 DEF RobotPollFails, RobotRestart, DeliveryTyped
  <1>6. ASSUME NEW r \in Robots, RobotTake(r)
        PROVE  DeliveryTyped'
    <2>1. "ack" \in DOMAIN After /\ "replay" \in DOMAIN After
      BY DEF After
    <2>2. robot' \in [Robots -> RobotState]
      <3>1. \A x \in {"ack", "replay"} : [robot[r] EXCEPT !.pc = x] \in RobotState
        BY <1>1, <2>1 DEF DeliveryTyped, RobotState
      <3> QED
        BY <1>1, <1>2, <1>6, <3>1 DEF RobotTake, DeliveryTyped
    <2>3. processed' \in [Robots -> SUBSET Commands]
      BY <1>1, <1>6, CurrentFacts DEF RobotTake, DeliveryTyped
    <2> QED
      BY <1>1, <1>6, <2>2, <2>3 DEF RobotTake, DeliveryTyped
  <1>7. ASSUME NEW r \in Robots, robot[r].pc \in DOMAIN After, Continue(r),
               UNCHANGED <<processed, performed, prior>>
        PROVE  DeliveryTyped'
    <2>1. \A x \in DOMAIN After : After[x] \in {"take", "act"} \cup DOMAIN After
      BY DEF After
    <2>2. robot[r].inbox # << >>
      BY <1>7, ReportFacts
    <2>3. robot[r].inbox \in Seq(Commands) /\ Tail(robot[r].inbox) \in Seq(Commands)
      BY <1>1, <2>2 DEF DeliveryTyped, RobotState
    <2>4. robot' \in [Robots -> RobotState]
      <3>1. \A q \in {robot[r].inbox, Tail(robot[r].inbox)} :
                [robot[r] EXCEPT !.pc = After[robot[r].pc], !.inbox = q] \in RobotState
        BY <1>1, <1>7, <2>1, <2>3 DEF DeliveryTyped, RobotState
      <3> QED
        BY <1>1, <1>7, <3>1 DEF Continue, DeliveryTyped
    <2> QED
      BY <1>1, <1>7, <2>4 DEF DeliveryTyped
  <1>8. ASSUME NEW r \in Robots, RobotAct(r)
        PROVE  DeliveryTyped'
    <2>1. "final" \in DOMAIN After
      BY DEF After
    <2>2. robot[r].inbox # << >>
      BY <1>8 DEF RobotAct, DInv, HandInv, InHand
    <2>3. Append(performed[r], Current(r)) \in Seq(Commands)
      BY <1>1, <2>2, CurrentFacts DEF DeliveryTyped
    <2>4. robot' \in [Robots -> RobotState]
      <3>1. \A x \in {"COMPLETED", "FAILED"} :
                [robot[r] EXCEPT !.pc = "final", !.result = x] \in RobotState
        BY <1>1, <2>1 DEF DeliveryTyped, RobotState
      <3> QED
        BY <1>1, <1>8, <3>1 DEF RobotAct, DeliveryTyped
    <2>5. performed' \in [Robots -> Seq(Commands)]
      BY <1>1, <1>8, <2>3 DEF RobotAct, DeliveryTyped
    <2> QED
      BY <1>1, <1>8, <2>4, <2>5 DEF RobotAct, DeliveryTyped
  <1>9. ASSUME NEW r \in Robots, NEW h \in Claimers, RobotPoll(r, h)
        PROVE  DeliveryTyped'
    BY <1>1, <1>9 DEF RobotPoll, DeliveryTyped, RobotState
  <1>10. ASSUME NEW r \in Robots, RobotReceive(r)
         PROVE  DeliveryTyped'
    <2>1. claimed[robot[r].via] \in Seq(Commands)
      BY <1>10, ReceiveFacts DEF DInv, IInv, TypeOK
    <2>2. [robot[r] EXCEPT !.pc = "take", !.via = None, !.inbox = claimed[robot[r].via]]
             \in RobotState
      BY <1>1, <2>1 DEF DeliveryTyped, RobotState
    <2> QED
      BY <1>1, <1>10, <2>2 DEF RobotReceive, DeliveryTyped
  <1> QED
    BY <1>3, <1>4, <1>5, <1>6, <1>7, <1>8, <1>9, <1>10, DeliverySplit
       DEF Alone, RobotReportLost, RobotReport, Backend

-----------------------------------------------------------------------------
(* The rows. *)

\* Who can make a row PENDING, COMPLETED or dispatched.
RowsWritten ==
    \A c \in Commands :
        /\ status'[c] = "PENDING" => status[c] = "PENDING" \/ ~Exists(c)
        /\ status'[c] = "COMPLETED" =>
              \/ status[c] = "COMPLETED"
              \/ \E p \in Patchers : /\ patching[p].pc # "idle"
                                     /\ patching[p].cmd = c
                                     /\ patching[p].new = "COMPLETED"
        /\ "dispatched_at" \in stamps'[c] =>
              \/ "dispatched_at" \in stamps[c]
              \/ \E h \in Claimers : claiming[h].pc = "dispatch" /\ claiming[h].cmd = c
              \/ \E p \in Patchers : /\ patching[p].pc # "idle"
                                     /\ patching[p].cmd = c
                                     /\ patching[p].new = "DISPATCHED"

\* One UPDATE changes one row.
LEMMA OneRow ==
  ASSUME TypeOK, NEW c \in Commands, NEW s \in Status, SetStatus(c, s)
  PROVE  /\ status'[c] = s
         /\ stamps'[c] = stamps[c] \cup TransitionStamps(s)
         /\ "dispatched_at" \in TransitionStamps(s) => s = "DISPATCHED"
         /\ \A d \in Commands \ {c} : status'[d] = status[d] /\ stamps'[d] = stamps[d]
  <1>1. "dispatched_at" \in TransitionStamps(s) => s = "DISPATCHED"
    BY DEF TransitionStamps, TerminalStates
  <1> QED
    BY <1>1 DEF SetStatus, TypeOK

\* A claim makes rows DISPATCHED, a PATCH what its client asks for, a scan TIMEOUT,
\* a create PENDING.
LEMMA NextRowsWritten ==
  ASSUME IInv, Next
  PROVE  RowsWritten
  <1>1. TypeOK
    BY DEF IInv
  <1>2. CASE UNCHANGED rows
    BY <1>2 DEF RowsWritten, rows
  <1>3. ASSUME NEW p \in Creators, CreateAny(p), ~UNCHANGED rows
        PROVE  RowsWritten
    <2>1. CreateCommit(p) /\ SetStatus(creating[p].cmd, "PENDING")
      BY <1>3 DEF CreateAny, CreateStep, CreateBegin, CreateCommit, CreateBroadcast,
                  CreateRecover, CreateAbort
    <2>2. creating[p].cmd \in Commands /\ ~Exists(creating[p].cmd)
      BY <2>1 DEF CreateCommit, IInv, CreateInv
    <2>3. "PENDING" \in Status
      BY DEF Status
    <2> QED
      BY <1>1, <2>1, <2>2, <2>3, OneRow DEF RowsWritten
  <1>4. ASSUME NEW h \in Claimers, ClaimAny(h), ~UNCHANGED rows
        PROVE  RowsWritten
    <2>1. /\ claiming[h].pc = "dispatch"
          /\ ClaimDispatch(h)
          /\ SetStatus(claiming[h].cmd, "DISPATCHED")
      BY <1>4 DEF ClaimAny, ClaimStep, ClaimBegin, ClaimSelect, ClaimDispatch, ClaimBroadcast,
                  ClaimRespond, ClaimAbort
    <2>2. claiming[h].cmd \in Commands
      BY <2>1 DEF IInv, ClaimInv
    <2>3. "DISPATCHED" \in Status
      BY DEF Status
    <2> QED
      BY <1>1, <2>1, <2>2, <2>3, OneRow DEF RowsWritten
  <1>5. ASSUME NEW p \in Patchers, PatchAny(p), ~UNCHANGED rows
        PROVE  RowsWritten
    <2>1. /\ patching[p].pc = "cas"
          /\ status[patching[p].cmd] = patching[p].seen
          /\ SetStatus(patching[p].cmd, patching[p].new)
      BY <1>5 DEF PatchAny, PatchStep, PatchRead, PatchCas, PatchConflict, PatchReread,
                  PatchBroadcast, PatchAbort
    <2>2. /\ patching[p].cmd \in Commands
          /\ Exists(patching[p].cmd)
          /\ patching[p].new \in ValidTransitions(status[patching[p].cmd])
      BY <2>1 DEF IInv, PatchInv
    <2>3. patching[p].new \in Status \ {"PENDING"}
      BY <1>1, <2>2, TransitionsTyped DEF TypeOK
    <2>4. patching[p].pc # "idle"
      BY <2>1
    <2> QED
      BY <1>1, <2>1, <2>2, <2>3, <2>4, OneRow DEF RowsWritten
  <1>6. ASSUME NEW s \in Scanners, ScanAny(s), ~UNCHANGED rows
        PROVE  RowsWritten
    <2>1. ScanCommit(s)
      BY <1>6 DEF ScanAny, ScanStep, ScanLock, ScanSelect, ScanUpdate, ScanBroadcast,
                  ScanUnlock, ScanDeadlockAbort, ScanFail, ScanCrash, ScanRollback
    <2>2. TransitionStamps("TIMEOUT") = {"completed_at"}
      BY DEF TransitionStamps, TerminalStates
    <2>3. \A c \in Commands : /\ status'[c] \in {status[c], "TIMEOUT"}
                              /\ stamps'[c] \subseteq stamps[c] \cup {"completed_at"}
      BY <2>1, <2>2 DEF ScanCommit
    <2> QED
      BY <2>3 DEF RowsWritten
  <1>7. ASSUME EnvAny
        PROVE  UNCHANGED rows
    BY <1>7, EnvFrame
  <1> QED
    BY <1>2, <1>3, <1>4, <1>5, <1>6, <1>7, NextSplit

\* The same for a step of the composition.
LEMMA DeliveryRowsWritten ==
  ASSUME DInv, DeliveryNext
  PROVE  RowsWritten
  <1>1. ASSUME NEW r \in Robots, Alone(r) \/ RobotRestart(r)
        PROVE  UNCHANGED rows
    BY <1>1 DEF Alone, RobotPollFails, RobotTake, RobotReportLost, RobotAct, RobotRestart,
                vars, rows
  <1>2. UNCHANGED rows => RowsWritten
    BY DEF RowsWritten, rows
  <1> QED
    BY <1>1, <1>2, NextRowsWritten, TableStep DEF DInv

\* What was performed stays performed.
LEMMA DoneGrows ==
  ASSUME DInv, DeliveryNext
  PROVE  \A c \in Commands : Done(c) => Done(c)'
  <1>1. CASE UNCHANGED performed
    BY <1>1 DEF Done
  <1>2. ASSUME NEW r \in Robots, RobotAct(r), ~UNCHANGED performed
        PROVE  \A c \in Commands : Done(c) => Done(c)'
    <2>1. performed' = [performed EXCEPT ![r] = Append(@, Current(r))]
      BY <1>2 DEF RobotAct
    <2>2. robot[r].inbox # << >>
      BY <1>2 DEF RobotAct, DInv, HandInv, InHand
    <2>3. Current(r) \in Commands /\ performed \in [Robots -> Seq(Commands)]
      BY <2>2, CurrentFacts DEF DInv, DeliveryTyped
    <2>4. \A q \in Robots : \A i \in 1..Len(performed[q]) :
              i \in 1..Len(performed'[q]) /\ performed'[q][i] = performed[q][i]
      <3>1. ASSUME NEW q \in Robots, NEW i \in 1..Len(performed[q])
            PROVE  i \in 1..Len(performed'[q]) /\ performed'[q][i] = performed[q][i]
        <4>1. CASE q = r
          <5>1. performed[r] \in Seq(Commands) /\ performed'[r] = Append(performed[r], Current(r))
            BY <2>1, <2>3
          <5> QED
            BY <2>3, <4>1, <5>1
        <4>2. CASE q # r
          BY <2>1, <2>3, <4>2
        <4> QED
          BY <4>1, <4>2
      <3> QED
        BY <3>1
    <2> QED
      BY <2>4 DEF Done
  <1>3. ASSUME NEW r \in Robots, Alone(r)
        PROVE  UNCHANGED performed \/ RobotAct(r)
    BY <1>3 DEF Alone, RobotPollFails, RobotTake, RobotReportLost
  <1> QED
    BY <1>1, <1>2, <1>3, DeliverySplit
       DEF RobotRestart, RobotPoll, RobotReceive, RobotReport, Submit, Backend, robotVars

\* COMPLETED is reported by the robot alone, after it has acted.
LEMMA NextReport ==
  ASSUME DInv, DeliveryNext
  PROVE  \A p \in Patchers : ReportInv(p)'
  <1>1. \A p \in Patchers : ReportInv(p)
    BY DEF DInv
  <1>2. /\ patching \in [Patchers -> PatchState]
        /\ \A p \in Patchers : patching[p].pc # "idle" => patching[p].cmd \in Commands
    BY DEF DInv, IInv, TypeOK, PatchInv
  <1>3. ASSUME NEW p \in Patchers,
               \/ patching'[p].pc = "idle"
               \/ patching[p].pc # "idle" /\ patching'[p].new = patching[p].new
                  /\ patching'[p].cmd = patching[p].cmd
        PROVE  ReportInv(p)'
    BY <1>1, <1>2, <1>3, DoneGrows DEF ReportInv
  <1>4. CASE UNCHANGED patching
    BY <1>3, <1>4
  <1>5. ASSUME NEW p \in Patchers, NEW c \in Commands, NEW s \in Status \ {"DISPATCHED"},
               PatchRead(p, c, s), s = "COMPLETED" => Done(c)
        PROVE  \A q \in Patchers : ReportInv(q)'
    <2>1. CASE UNCHANGED patching
      BY <1>4, <2>1
    <2>2. CASE patching' = [patching EXCEPT
                  ![p] = [pc |-> "cas", cmd |-> c, new |-> s, seen |-> status[c]]]
      <3>1. ReportInv(p)'
        BY <1>2, <1>5, <2>2, DoneGrows DEF ReportInv
      <3>2. \A q \in Patchers \ {p} : ReportInv(q)'
        BY <1>2, <1>3, <2>2
      <3> QED
        BY <3>1, <3>2
    <2> QED
      BY <1>5, <2>1, <2>2 DEF PatchRead
  <1>6. ASSUME NEW p \in Patchers, PatchStep(p) \/ PatchAbort(p)
        PROVE  \A q \in Patchers : ReportInv(q)'
    <2>1. IdlePatch.pc = "idle"
      BY DEF IdlePatch
    <2>2. \/ patching'[p].pc = "idle"
          \/ patching[p].pc # "idle" /\ patching'[p].new = patching[p].new
             /\ patching'[p].cmd = patching[p].cmd
      BY <1>2, <1>6, <2>1 DEF PatchStep, PatchCas, PatchConflict, PatchReread, PatchBroadcast,
            PatchAbort, PatchState
    <2>3. \A q \in Patchers \ {p} : patching'[q] = patching[q]
      BY <1>2, <1>6 DEF PatchStep, PatchCas, PatchConflict, PatchReread, PatchBroadcast,
            PatchAbort
    <2> QED
      BY <1>3, <2>2, <2>3
  <1>7. ASSUME NEW p \in Patchers, Cancel(p)
        PROVE  \A q \in Patchers : ReportInv(q)'
    <2>1. "CANCELLED" \in Status \ {"DISPATCHED"} /\ "CANCELLED" # "COMPLETED"
      BY DEF Status, TerminalStates
    <2> QED
      BY <1>5, <1>7, <2>1 DEF Cancel
  <1>8. ASSUME NEW r \in Robots, NEW p \in Patchers, RobotReport(r, p)
        PROVE  \A q \in Patchers : ReportInv(q)'
    BY <1>5, <1>8, ReportIsPatch
  <1>9. ASSUME NEW r \in Robots, Alone(r) \/ RobotRestart(r)
        PROVE  UNCHANGED patching
    BY <1>9 DEF Alone, RobotPollFails, RobotTake, RobotReportLost, RobotAct, RobotRestart,
                vars, handlers
  <1>10. ASSUME NEW r \in Robots, RobotReceive(r) \/ \E h \in Claimers : RobotPoll(r, h)
         PROVE  UNCHANGED patching
    BY <1>10 DEF RobotReceive, RobotPoll, ClaimRespond, ClaimBegin
  <1>11. ASSUME NEW p \in Creators, Submit(p)
         PROVE  UNCHANGED patching
    BY <1>11 DEF Submit, CreateBegin
  <1>12. CASE Backend
    <2>1. ASSUME NEW p \in Creators, CreateStep(p) \/ CreateAbort(p)
          PROVE  UNCHANGED patching
      BY <2>1, CreateFrame DEF CreateAny
    <2>2. ASSUME NEW h \in Claimers,
                 ClaimSelect(h) \/ ClaimDispatch(h) \/ ClaimBroadcast(h) \/ OrphanRespond(h)
                 \/ ClaimAbort(h)
          PROVE  UNCHANGED patching
      BY <2>2, ClaimFrame DEF OrphanRespond, ClaimAny, ClaimStep
    <2>3. ASSUME NEW s \in Scanners, ScanStep(s) \/ ScanFail(s) \/ ScanCrash(s)
          PROVE  UNCHANGED patching
      BY <2>3, ScanFrame DEF ScanAny
    <2>4. ASSUME EnvAny
          PROVE  UNCHANGED patching
      BY <2>4, EnvFrame DEF handlers
    <2> QED
      BY <1>4, <1>6, <1>7, <1>12, <2>1, <2>2, <2>3, <2>4 DEF Backend, EnvAny
  <1> QED
    BY <1>4, <1>8, <1>9, <1>10, <1>11, <1>12, DeliverySplit

\* A COMPLETED row is one a robot has performed.
LEMMA NextResult ==
  ASSUME DInv, DeliveryNext
  PROVE  ResultInv'
  <1> SUFFICES ASSUME NEW c \in Commands, status'[c] = "COMPLETED"
               PROVE  Done(c)'
    BY DEF ResultInv
  <1>1. Done(c)
    BY DeliveryRowsWritten DEF RowsWritten, DInv, ResultInv, ReportInv
  <1> QED
    BY <1>1, DoneGrows

-----------------------------------------------------------------------------
(* The claims. *)

\* The oldest PENDING command is picked.
Picks(h) ==
    /\ claimed'[h] = claimed[h]
    /\ claiming'[h].robot = claiming[h].robot
    /\ claiming'[h].pc = "dispatch"
    /\ claiming'[h].cmd \in PendingOf(claiming[h].robot)
    /\ \A d \in PendingOf(claiming[h].robot) : claiming'[h].cmd <= d

\* try_dispatch wins.
Wins(h) ==
    /\ claiming[h].pc = "dispatch"
    /\ status[claiming[h].cmd] = "PENDING"
    /\ claimed'[h] = Append(claimed[h], claiming[h].cmd)
    /\ claiming'[h].robot = claiming[h].robot
    /\ claiming'[h].pc = "broadcast"

\* What a step may do to a claim handler: nothing, empty its list, pick, win, or
\* go on with the list as it is.
ClaimMove(h) ==
    \/ claiming'[h] = claiming[h] /\ claimed'[h] = claimed[h]
    \/ claiming'[h].pc # "dispatch" /\ claimed'[h] = << >>
    \/ Picks(h)
    \/ Wins(h)
    \/ /\ claimed'[h] = claimed[h]
       /\ claiming'[h].robot = claiming[h].robot
       /\ claiming'[h].pc \notin {"idle", "dispatch"}

\* A claim step moves one handler.
LEMMA OneClaim ==
  ASSUME DInv, NEW h \in Claimers, ClaimAny(h)
  PROVE  \A g \in Claimers : ClaimMove(g)
  <1>1. /\ claiming \in [Claimers -> ClaimState]
        /\ claimed \in [Claimers -> Seq(Commands)]
    BY DEF DInv, IInv, TypeOK
  <1>2. \A g \in Claimers \ {h} : claiming'[g] = claiming[g] /\ claimed'[g] = claimed[g]
    BY <1>1 DEF ClaimAny, ClaimStep, ClaimBegin, ClaimSelect, ClaimDispatch, ClaimBroadcast,
                ClaimRespond, ClaimAbort
  <1>3. IdleClaim.pc = "idle"
    BY DEF IdleClaim
  <1>4. ASSUME NEW r \in Robots, ClaimBegin(h, r)
        PROVE  ClaimMove(h)
    <2>1. claimed'[h] = << >>
      BY <1>4 DEF ClaimBegin, DInv, CollectInv
    <2>2. claiming'[h].pc = "select"
      BY <1>1, <1>4 DEF ClaimBegin
    <2> QED
      BY <2>1, <2>2 DEF ClaimMove
  <1>5. ASSUME ClaimSelect(h)
        PROVE  ClaimMove(h)
    <2>1. CASE claiming' = [claiming EXCEPT ![h].pc = "respond"] /\ UNCHANGED claimed
      <3>1. claiming'[h].pc = "respond" /\ claiming'[h].robot = claiming[h].robot
        BY <1>1, <2>1 DEF ClaimState
      <3> QED
        BY <2>1, <3>1 DEF ClaimMove
    <2>2. ASSUME NEW c \in PendingOf(claiming[h].robot),
                 \A d \in PendingOf(claiming[h].robot) : c <= d,
                 claiming' = [claiming EXCEPT ![h].pc = "dispatch", ![h].cmd = c],
                 UNCHANGED claimed
          PROVE  ClaimMove(h)
      <3>1. /\ claiming'[h].pc = "dispatch"
            /\ claiming'[h].cmd = c
            /\ claiming'[h].robot = claiming[h].robot
        BY <1>1, <2>2 DEF ClaimState
      <3> QED
        BY <2>2, <3>1 DEF ClaimMove, Picks
    <2>3. UNCHANGED claimed
      BY <1>5 DEF ClaimSelect
    <2>4. \/ claiming' = [claiming EXCEPT ![h].pc = "respond"]
          \/ \E c \in PendingOf(claiming[h].robot) :
                /\ \A d \in PendingOf(claiming[h].robot) : c <= d
                /\ claiming' = [claiming EXCEPT ![h].pc = "dispatch", ![h].cmd = c]
      BY <1>5 DEF ClaimSelect
    <2> QED
      BY <2>1, <2>2, <2>3, <2>4
  <1>6. ASSUME ClaimDispatch(h)
        PROVE  ClaimMove(h)
    <2>1. CASE /\ status[claiming[h].cmd] = "PENDING"
               /\ claiming' = [claiming EXCEPT ![h].pc = "broadcast"]
               /\ claimed' = [claimed EXCEPT ![h] = Append(@, claiming[h].cmd)]
      <3>1. claiming'[h].pc = "broadcast" /\ claiming'[h].robot = claiming[h].robot
        BY <1>1, <2>1 DEF ClaimState
      <3>2. claimed'[h] = Append(claimed[h], claiming[h].cmd)
        BY <1>1, <2>1
      <3>3. claiming[h].pc = "dispatch"
        BY <1>6 DEF ClaimDispatch
      <3> QED
        BY <2>1, <3>1, <3>2, <3>3 DEF ClaimMove, Wins
    <2>2. CASE claiming' = [claiming EXCEPT ![h].pc = "select"] /\ UNCHANGED claimed
      <3>1. claiming'[h].pc = "select" /\ claiming'[h].robot = claiming[h].robot
        BY <1>1, <2>2 DEF ClaimState
      <3> QED
        BY <2>2, <3>1 DEF ClaimMove
    <2> QED
      BY <1>6, <2>1, <2>2 DEF ClaimDispatch
  <1>7. ASSUME ClaimBroadcast(h)
        PROVE  ClaimMove(h)
    <2>1. claiming'[h].pc = "select" /\ claiming'[h].robot = claiming[h].robot
      BY <1>1, <1>7 DEF ClaimBroadcast, ClaimState
    <2> QED
      BY <1>7, <2>1 DEF ClaimMove, ClaimBroadcast
  <1>8. ASSUME ClaimRespond(h) \/ ClaimAbort(h)
        PROVE  ClaimMove(h)
    <2>1. claiming'[h].pc # "dispatch" /\ claimed'[h] = << >>
      BY <1>1, <1>3, <1>8 DEF ClaimRespond, ClaimAbort
    <2> QED
      BY <2>1 DEF ClaimMove
  <1>9. ClaimMove(h)
    BY <1>4, <1>5, <1>6, <1>7, <1>8 DEF ClaimAny, ClaimStep
  <1>10. \A g \in Claimers \ {h} : ClaimMove(g)
    BY <1>2 DEF ClaimMove
  <1> QED
    BY <1>9, <1>10

\* Every step moves the claim handlers in one of these ways.
LEMMA ClaimMoves ==
  ASSUME DInv, DeliveryNext
  PROVE  \A h \in Claimers : ClaimMove(h)
  <1>1. UNCHANGED claims => \A h \in Claimers : ClaimMove(h)
    BY DEF claims, ClaimMove
  <1>2. ASSUME NEW r \in Robots, Alone(r) \/ RobotRestart(r)
        PROVE  UNCHANGED claims
    BY <1>2 DEF Alone, RobotPollFails, RobotTake, RobotReportLost, RobotAct, RobotRestart,
                vars, handlers, claims
  <1>3. CASE Next
    BY <1>1, <1>3, OneClaim, NextSplit, CreateFrame, PatchFrame, ScanFrame, EnvFrame
       DEF handlers, claims
  <1> QED
    BY <1>1, <1>2, <1>3, TableStep

\* The command try_dispatch is about to win, and what it knows of it.
LEMMA WinsFacts ==
  ASSUME DInv, NEW h \in Claimers, Wins(h)
  PROVE  /\ claiming[h].cmd \in Commands
         /\ claiming[h].cmd < nextId
         /\ robotOf[claiming[h].cmd] = claiming[h].robot
         /\ \A e \in Commands :
               ("dispatched_at" \in stamps[e] /\ robotOf[e] = claiming[h].robot)
                  => claiming[h].cmd \notin prior[e]
  <1>1. claiming[h].cmd \in Commands /\ Exists(claiming[h].cmd)
    BY DEF Wins, DInv, IInv, ClaimInv
  <1>2. claiming[h].cmd < nextId
    BY <1>1, StoredIsOld DEF DInv
  <1>3. robotOf[claiming[h].cmd] = claiming[h].robot
    BY DEF Wins, DInv, CollectInv
  <1> QED
    BY <1>1, <1>2, <1>3 DEF Wins, DInv, FifoInv

\* Handlers collect for the robot they serve, in order.
LEMMA NextCollect ==
  ASSUME DInv, DeliveryNext
  PROVE  \A h \in Claimers : CollectInv(h)'
  <1> SUFFICES ASSUME NEW h \in Claimers
               PROVE  CollectInv(h)'
    OBVIOUS
  <1>1. Settled /\ ClaimMove(h) /\ CollectInv(h)
    BY StepSettled, ClaimMoves DEF DInv
  <1>2. ASSUME NEW i \in 1..Len(claimed[h])
        PROVE  /\ claimed[h][i] \in Commands
               /\ "dispatched_at" \in stamps[claimed[h][i]]
               /\ robotOf'[claimed[h][i]] = robotOf[claimed[h][i]]
               /\ prior'[claimed[h][i]] = prior[claimed[h][i]]
    <2>1. claimed[h][i] \in Commands
      BY DEF DInv, IInv, TypeOK
    <2>2. "dispatched_at" \in stamps[claimed[h][i]]
      BY DEF DInv, IInv, ExclusiveClaim
    <2>3. claimed[h][i] < nextId
      BY <2>1, <2>2, StoredIsOld DEF DInv
    <2> QED
      BY <1>1, <2>1, <2>2, <2>3 DEF Settled
  <1>3. CASE claimed'[h] = << >> /\ claiming'[h].pc # "dispatch"
    BY <1>3 DEF CollectInv
  <1>4. ASSUME NEW c \in Commands, Exists(c)
        PROVE  robotOf'[c] = robotOf[c]
    BY <1>1, <1>4, StoredIsOld DEF Settled, DInv
  <1>5. CASE claiming'[h] = claiming[h] /\ claimed'[h] = claimed[h]
    <2>1. claiming[h].pc = "dispatch" => claiming[h].cmd \in Commands /\ Exists(claiming[h].cmd)
      BY DEF DInv, IInv, ClaimInv
    <2> QED
      BY <1>1, <1>2, <1>4, <1>5, <2>1 DEF CollectInv
  <1>6. CASE Picks(h)
    <2>1. /\ claiming'[h].cmd \in Commands
          /\ Exists(claiming'[h].cmd)
          /\ robotOf[claiming'[h].cmd] = claiming[h].robot
      BY <1>6 DEF Picks, PendingOf, Exists, Absent
    <2> QED
      BY <1>1, <1>2, <1>4, <1>6, <2>1 DEF CollectInv, Picks
  <1>7. CASE Wins(h)
    <2> DEFINE c == claiming[h].cmd
    <2> DEFINE n == Len(claimed[h])
    <2>1. /\ c \in Commands
          /\ robotOf'[c] = claiming[h].robot
          /\ \A e \in Commands :
               ("dispatched_at" \in stamps[e] /\ robotOf[e] = claiming[h].robot) => c \notin prior[e]
      BY <1>1, <1>7, WinsFacts DEF Settled
    <2>2. claimed[h] \in Seq(Commands) /\ claimed'[h] = Append(claimed[h], c)
      BY <1>7 DEF Wins, DInv, IInv, TypeOK
    <2> HIDE DEF c
    <2>3. /\ n \in Nat
          /\ Len(claimed'[h]) = n + 1
          /\ claimed'[h][n + 1] = c
          /\ \A i \in 1..n : claimed'[h][i] = claimed[h][i]
      BY <2>1, <2>2
    <2>4. \A i \in 1..n : /\ claimed[h][i] \in Commands
                          /\ robotOf'[claimed[h][i]] = claiming[h].robot
                          /\ c \notin prior'[claimed[h][i]]
                          /\ \A j \in 1..n : i < j => claimed[h][j] \notin prior'[claimed[h][i]]
      BY <1>1, <1>2, <2>1 DEF CollectInv
    <2> HIDE DEF n
    <2>5. \A i \in 1..(n + 1) : i = n + 1 \/ i \in 1..n
      BY <2>3
    <2>6. \A i, j \in 1..(n + 1) : i < j => i \in 1..n
      BY <2>3
    <2>7. ASSUME NEW i \in 1..(n + 1)
          PROVE  /\ robotOf'[claimed'[h][i]] = claiming[h].robot
                 /\ \A j \in 1..(n + 1) : i < j => claimed'[h][j] \notin prior'[claimed'[h][i]]
      BY <2>1, <2>3, <2>4, <2>5, <2>6
    <2> QED
      BY <1>7, <2>3, <2>7 DEF CollectInv, Wins
  <1>8. CASE /\ claimed'[h] = claimed[h]
             /\ claiming'[h].robot = claiming[h].robot
             /\ claiming'[h].pc \notin {"idle", "dispatch"}
    BY <1>1, <1>2, <1>8 DEF CollectInv
  <1> QED
    BY <1>1, <1>3, <1>5, <1>6, <1>7, <1>8 DEF ClaimMove

\* A robot that is polling after a step was polling before it, with the same
\* record, or polls just now.
LEMMA PollMoves ==
  ASSUME DInv, DeliveryNext, NEW r \in Robots, robot'[r].pc = "polling"
  PROVE  /\ performed'[r] = performed[r]
         /\ \/ robot'[r] = robot[r]
            \/ claimed'[robot'[r].via] = << >>
  <1>1. /\ robot \in [Robots -> RobotState]
        /\ performed \in [Robots -> Seq(Commands)]
        /\ claimed \in [Claimers -> Seq(Commands)]
    BY DEF DInv, DeliveryTyped, IInv, TypeOK
  <1>2. IdleRobot.pc = "idle"
    BY DEF IdleRobot
  <1>3. \A x \in DOMAIN After : After[x] # "polling"
    BY DEF After
  <1>4. ASSUME NEW q \in Robots,
               Alone(q) \/ RobotRestart(q) \/ RobotReceive(q) \/ \E p \in Patchers : RobotReport(q, p)
        PROVE  q # r /\ robot'[r] = robot[r] /\ performed'[r] = performed[r]
    <2>1. robot'[q].pc # "polling"
      <3>1. CASE RobotPollFails(q) \/ RobotRestart(q)
        BY <1>1, <1>2, <3>1 DEF RobotPollFails, RobotRestart
      <3>2. CASE RobotTake(q)
        BY <1>1, <1>2, <3>2 DEF RobotTake, RobotState
      <3>3. CASE RobotReportLost(q) \/ \E p \in Patchers : RobotReport(q, p)
        BY <1>1, <1>3, <3>3 DEF RobotReportLost, RobotReport, Continue, RobotState
      <3>4. CASE RobotAct(q)
        BY <1>1, <3>4 DEF RobotAct, RobotState
      <3>5. CASE RobotReceive(q)
        BY <1>1, <3>5 DEF RobotReceive, RobotState
      <3> QED
        BY <1>4, <3>1, <3>2, <3>3, <3>4, <3>5 DEF Alone
    <2>2. q # r
      BY <2>1
    <2> QED
      BY <1>1, <1>4, <2>2
         DEF Alone, RobotPollFails, RobotTake, RobotReportLost, RobotAct, RobotRestart,
             RobotReceive, RobotReport, Continue
  <1>5. ASSUME NEW q \in Robots, NEW h \in Claimers, RobotPoll(q, h)
        PROVE  /\ performed'[r] = performed[r]
               /\ \/ robot'[r] = robot[r]
                  \/ claimed'[robot'[r].via] = << >>
    <2>1. claimed'[h] = << >> /\ UNCHANGED performed
      BY <1>5 DEF RobotPoll, ClaimBegin, DInv, CollectInv
    <2>2. CASE q = r
      <3>1. robot'[r].via = h
        BY <1>1, <1>5, <2>2 DEF RobotPoll, RobotState
      <3> QED
        BY <2>1, <3>1
    <2>3. CASE q # r
      BY <1>1, <1>5, <2>1, <2>3 DEF RobotPoll
    <2> QED
      BY <2>2, <2>3
  <1>6. ASSUME Backend \/ \E p \in Creators : Submit(p)
        PROVE  robot'[r] = robot[r] /\ performed'[r] = performed[r]
    BY <1>6 DEF Backend, Submit, robotVars
  <1> QED
    BY <1>4, <1>5, <1>6, DeliverySplit

\* What a polling robot will receive does not come too late.
LEMMA NextPoll ==
  ASSUME DInv, DeliveryNext
  PROVE  \A r \in Robots : PollInv(r)'
  <1> SUFFICES ASSUME NEW r \in Robots, NEW h \in Claimers,
                      robot'[r].pc = "polling", robot'[r].via = h, claiming'[h].robot = r,
                      NEW i \in 1..Len(performed'[r]), NEW j \in 1..Len(claimed'[h])
               PROVE  claimed'[h][j] \notin prior'[performed'[r][i]]
    BY DEF PollInv
  <1>1. Settled /\ ClaimMove(h)
    BY StepSettled, ClaimMoves
  <1>2. claimed'[h] # << >>
    OBVIOUS
  <1>3. performed'[r] = performed[r] /\ robot'[r] = robot[r]
    BY <1>2, PollMoves
  <1> DEFINE e == performed[r][i]
  <1>4. /\ e \in Commands
        /\ robotOf[e] = r
        /\ "dispatched_at" \in stamps[e]
        /\ prior'[e] = prior[e]
    <2>1. e \in Commands /\ e \in delivered /\ robotOf[e] = r
      BY <1>3 DEF DInv, HandInv, IInv, TypeOK
    <2>2. e < nextId /\ "dispatched_at" \in stamps[e]
      BY <2>1, StoredIsOld DEF DInv, IInv, ClaimInv
    <2> QED
      BY <1>1, <2>1, <2>2 DEF Settled
  <1>5. ASSUME claiming[h].robot = r, NEW k \in 1..Len(claimed[h])
        PROVE  claimed[h][k] \notin prior[e]
    BY <1>3, <1>5 DEF DInv, PollInv
  <1>6. CASE claimed'[h] = claimed[h] /\ claiming'[h].robot = claiming[h].robot
    BY <1>3, <1>4, <1>5, <1>6
  <1>7. CASE Wins(h)
    <2>1. claiming[h].robot = r /\ claimed'[h] = Append(claimed[h], claiming[h].cmd)
      BY <1>7 DEF Wins
    <2>2. claiming[h].cmd \in Commands /\ claiming[h].cmd \notin prior[e]
      BY <1>4, <1>7, <2>1, WinsFacts
    <2>3. claimed[h] \in Seq(Commands)
      BY DEF DInv, IInv, TypeOK
    <2>4. CASE j \in 1..Len(claimed[h])
      <3>1. claimed'[h][j] = claimed[h][j]
        BY <2>1, <2>2, <2>3, <2>4
      <3> QED
        BY <1>3, <1>4, <1>5, <2>1, <2>4, <3>1
    <2>5. CASE j = Len(claimed[h]) + 1
      <3>1. claimed'[h][j] = claiming[h].cmd
        BY <2>1, <2>2, <2>3, <2>5
      <3> QED
        BY <1>3, <1>4, <2>2, <3>1
    <2>6. Len(claimed'[h]) = Len(claimed[h]) + 1 /\ Len(claimed[h]) \in Nat
      BY <2>1, <2>2, <2>3
    <2>7. j \in 1..Len(claimed[h]) \/ j = Len(claimed[h]) + 1
      BY <2>6
    <2> QED
      BY <2>4, <2>5, <2>7
  <1> QED
    BY <1>1, <1>2, <1>6, <1>7 DEF ClaimMove, Picks

\* Dispatch is first in, first out.
LEMMA NextFifo ==
  ASSUME DInv, DeliveryNext
  PROVE  FifoInv'
  <1>1. FifoInv /\ Settled
    BY StepSettled DEF DInv
  <1>2. /\ prior \in [Commands -> SUBSET Commands]
        /\ robotOf \in [Commands -> Robots \cup {None}]
        /\ nextId \in Nat
        /\ \A c \in Commands : c \in Nat
    BY MaxCommandAssumption DEF DInv, DeliveryTyped, IInv, TypeOK, Commands
  <1>3. \A c \in Commands : Exists(c) => c < nextId /\ Exists(c)'
    BY <1>1, StoredIsOld DEF Settled, RowsGrow, DInv
  <1>4. CASE ~(\E p \in Creators : Submit(p))
    <2>1. prior' = prior /\ robotOf' = robotOf
      BY <1>4, RequestsFixed
    <2>2. ASSUME NEW e \in Commands, NEW c \in prior[e],
                 robotOf[c] = robotOf[e], status'[c] = "PENDING"
          PROVE  /\ "dispatched_at" \notin stamps'[e]
                 /\ \A h \in Claimers : claiming'[h].pc = "dispatch" => claiming'[h].cmd # e
      <3>1. c \in Commands /\ Exists(c) /\ c < e
        BY <1>1, <1>2 DEF FifoInv
      <3>2. status[c] = "PENDING"
        BY <2>2, <3>1, DeliveryRowsWritten DEF RowsWritten
      <3>3. /\ "dispatched_at" \notin stamps[e]
            /\ \A h \in Claimers : claiming[h].pc = "dispatch" => claiming[h].cmd # e
        BY <1>1, <2>2, <3>2 DEF FifoInv
      <3>4. "dispatched_at" \notin stamps'[e]
        BY <3>3, DeliveryRowsWritten DEF RowsWritten, DInv, ReportInv
      <3>5. ASSUME NEW h \in Claimers, claiming'[h].pc = "dispatch", claiming'[h].cmd = e
            PROVE  FALSE
        <4>1. ClaimMove(h)
          BY ClaimMoves
        <4>2. Picks(h)
          BY <3>3, <3>5, <4>1 DEF ClaimMove, Wins
        <4>3. c \in PendingOf(claiming[h].robot)
          BY <2>2, <3>1, <3>2, <3>5, <4>2 DEF Picks, PendingOf
        <4>4. e <= c
          BY <3>5, <4>2, <4>3 DEF Picks
        <4> QED
          BY <1>2, <3>1, <4>4
      <3> QED
        BY <3>4, <3>5
    <2>3. \A e \in Commands : \A c \in prior[e] : Exists(c)' /\ c < e
      BY <1>1, <1>2, <1>3 DEF FifoInv
    <2> QED
      BY <2>1, <2>2, <2>3 DEF FifoInv
  <1>5. ASSUME NEW p \in Creators, Submit(p)
        PROVE  FifoInv'
    <2>1. PICK r \in Robots, k \in Keys \cup {NoKey}, d \in Deadlines : CreateBegin(p, r, k, d)
      BY <1>5 DEF Submit
    <2>2. /\ nextId \in Commands
          /\ robotOf' = [robotOf EXCEPT ![nextId] = r]
          /\ prior' = [prior EXCEPT ![nextId] = {c \in Commands : Exists(c)}]
          /\ UNCHANGED <<status, stamps, claiming>>
      <3>1. nextId \in Commands
        BY <2>1 DEF CreateBegin, DInv, IInv, TypeOK, Commands
      <3> QED
        BY <1>5, <2>1, <3>1 DEF Submit, CreateBegin, rows, claims
    <2>3. ~Exists(nextId) /\ stamps[nextId] = {}
      <3>1. ~Exists(nextId)
        BY <1>2, <1>3, <2>2
      <3> QED
        BY <2>2, <3>1 DEF DInv, IInv, RowIsOneRun
    <2>4. \A h \in Claimers : claiming[h].pc = "dispatch" => claiming[h].cmd # nextId
      BY <2>3 DEF DInv, IInv, ClaimInv
    <2>5. ASSUME NEW e \in Commands, NEW c \in prior'[e]
          PROVE  /\ Exists(c)' /\ c < e
                 /\ (robotOf'[c] = robotOf'[e] /\ status'[c] = "PENDING") =>
                       /\ "dispatched_at" \notin stamps'[e]
                       /\ \A h \in Claimers : claiming'[h].pc = "dispatch" => claiming'[h].cmd # e
      <3>1. CASE e = nextId
        <4>1. c \in Commands /\ Exists(c)
          BY <1>2, <2>2, <3>1
        <4> QED
          BY <1>3, <2>2, <2>3, <2>4, <3>1, <4>1
      <3>2. CASE e # nextId
        <4>1. c \in prior[e] /\ c \in Commands
          BY <1>2, <2>2, <3>2
        <4>2. Exists(c) /\ c < e
          BY <1>1, <4>1 DEF FifoInv
        <4>3. robotOf'[c] = robotOf[c] /\ robotOf'[e] = robotOf[e]
          BY <1>2, <2>2, <2>3, <3>2, <4>1, <4>2
        <4> QED
          BY <1>1, <1>3, <2>2, <4>1, <4>2, <4>3 DEF FifoInv
      <3> QED
        BY <3>1, <3>2
    <2> QED
      BY <2>5 DEF FifoInv
  <1> QED
    BY <1>4, <1>5

-----------------------------------------------------------------------------
(* The theorems. *)

\* Nothing is requested, held or performed at the start.
LEMMA DeliveryInitInv == DeliveryInit => DInv
  <1> SUFFICES ASSUME DeliveryInit PROVE DInv
    OBVIOUS
  <1>1. Init /\ IInv
    BY InitInv DEF DeliveryInit
  <1>2. IdleRobot \in RobotState
    BY DEF IdleRobot, RobotState
  <1>3. /\ \A r \in Robots : /\ robot[r].pc = "idle"
                             /\ robot[r].inbox = << >>
                             /\ processed[r] = {}
                             /\ performed[r] = << >>
        /\ \A c \in Commands : prior[c] = {}
    BY DEF DeliveryInit, IdleRobot
  <1>4. DeliveryTyped
    BY <1>2 DEF DeliveryInit, DeliveryTyped
  <1>5. \A r \in Robots : HandInv(r) /\ OrderInv(r) /\ PollInv(r)
    BY <1>3 DEF HandInv, OrderInv, PollInv, InHand
  <1>6. /\ \A h \in Claimers : claiming[h].pc = "idle" /\ claimed[h] = << >>
        /\ \A p \in Patchers : patching[p].pc = "idle"
        /\ \A c \in Commands : status[c] = "ABSENT"
    BY <1>1 DEF Init, IdleClaim, IdlePatch, Absent
  <1>7. /\ \A h \in Claimers : CollectInv(h)
        /\ \A p \in Patchers : ReportInv(p)
        /\ ResultInv
    BY <1>6 DEF CollectInv, ReportInv, ResultInv
  <1>8. FifoInv
    BY <1>3 DEF FifoInv
  <1> QED
    BY <1>1, <1>4, <1>5, <1>7, <1>8 DEF DInv

\* A stuttering step keeps the invariant.
LEMMA DeliveryStutter == DInv /\ UNCHANGED dvars => DInv'
  <1> SUFFICES ASSUME DInv, UNCHANGED dvars PROVE DInv'
    OBVIOUS
  <1>1. /\ UNCHANGED vars
        /\ UNCHANGED <<robot, processed, performed, prior>>
        /\ UNCHANGED <<status, stamps, robotOf, delivered, claiming, claimed, patching>>
    BY DEF dvars, robotVars, vars, handlers
  <1>2. IInv'
    BY <1>1, StutterInv DEF DInv
  <1>3. DeliveryTyped'
    BY <1>1 DEF DInv, DeliveryTyped
  <1>4. \A r \in Robots : HandInv(r)' /\ OrderInv(r)'
    BY <1>1 DEF DInv, HandInv, OrderInv
  <1>5. (\A h \in Claimers : CollectInv(h)') /\ (\A r \in Robots : PollInv(r)')
    BY <1>1 DEF DInv, CollectInv, PollInv
  <1>6. (\A p \in Patchers : ReportInv(p)') /\ ResultInv'
    BY <1>1 DEF DInv, ReportInv, ResultInv, Done
  <1>7. FifoInv'
    BY <1>1 DEF DInv, FifoInv, Exists
  <1> QED
    BY <1>2, <1>3, <1>4, <1>5, <1>6, <1>7 DEF DInv

\* The robots' loops and the command table keep DInv, for any number of commands,
\* robots and handlers.
THEOREM DeliveryInvariant == DeliverySpec => []DInv
  <1>1. DInv /\ [DeliveryNext]_dvars => DInv'
    <2>1. ASSUME DInv, DeliveryNext PROVE DInv'
      BY <2>1, TableInv, NextDeliveryTyped, NextHand, NextCollect, NextPoll, NextReport,
         NextResult, NextFifo DEF DInv
    <2> QED
      BY <2>1, DeliveryStutter
  <1> QED
    BY <1>1, DeliveryInitInv, PTL DEF DeliverySpec

\* Robots, inboxes and reports are well typed: the robot reports only statuses the
\* API knows, and works only on commands.
THEOREM DeliveryTypeCorrect == DeliverySpec => []DeliveryTypeOK
  <1>1. DInv => DeliveryTypeOK
    BY DEF DInv, DeliveryTyped, DeliveryTypeOK, RobotState, IInv
  <1> QED
    BY <1>1, DeliveryInvariant, PTL

\* A restart that empties processed_command_ids, a claim that times out and is
\* retried: no robot performs a command twice.
THEOREM NothingPerformedTwice == DeliverySpec => []PerformedAtMostOnce
  <1>1. DInv => PerformedAtMostOnce
    <2> SUFFICES ASSUME DInv, NEW r \in Robots
                 PROVE  IsInjective(performed[r])
      BY DEF PerformedAtMostOnce
    <2>1. performed[r] \in Seq(Commands)
      BY DEF DInv, DeliveryTyped
    <2>2. DOMAIN performed[r] = 1..Len(performed[r])
      BY <2>1
    <2> QED
      BY <2>2 DEF IsInjective, DInv, HandInv
  <1> QED
    BY <1>1, DeliveryInvariant, PTL

\* COMPLETED in the table means performed, by the robot the command was for.
THEOREM CompletedMeansPerformed == DeliverySpec => []CompletedWasPerformed
  <1>1. DInv => CompletedWasPerformed
    <2> SUFFICES ASSUME DInv, NEW c \in Commands, status[c] = "COMPLETED", NEW r \in Robots
                 PROVE  c \in Range(performed[r]) <=> r = robotOf[c]
      BY DEF CompletedWasPerformed
    <2>1. \A q \in Robots : performed[q] \in Seq(Commands)
      BY DEF DInv, DeliveryTyped
    <2>2. \A q \in Robots : DOMAIN performed[q] = 1..Len(performed[q])
      BY <2>1
    <2>3. \A q \in Robots : c \in Range(performed[q]) => robotOf[c] = q
      BY <2>2 DEF Range, DInv, HandInv
    <2>4. \E q \in Robots : c \in Range(performed[q])
      <3>1. PICK q \in Robots : \E i \in 1..Len(performed[q]) : performed[q][i] = c
        BY DEF DInv, ResultInv, Done
      <3> QED
        BY <2>2, <3>1 DEF Range
    <2> QED
      BY <2>3, <2>4
  <1> QED
    BY <1>1, DeliveryInvariant, PTL

\* Commands of one robot are performed in the order they were requested, also
\* when several claims for the robot overlap.
THEOREM DeliveryInOrder == DeliverySpec => []PerformedInOrder
  <1>1. DInv => PerformedInOrder
    <2> SUFFICES ASSUME DInv, NEW r \in Robots
                 PROVE  \A i, j \in DOMAIN performed[r] :
                            i < j => performed[r][j] \notin prior[performed[r][i]]
      BY DEF PerformedInOrder
    <2>1. performed[r] \in Seq(Commands)
      BY DEF DInv, DeliveryTyped
    <2>2. DOMAIN performed[r] = 1..Len(performed[r])
      BY <2>1
    <2> QED
      BY <2>2 DEF DInv, OrderInv
  <1> QED
    BY <1>1, DeliveryInvariant, PTL

\* At-most-once dispatch also holds while robots poll, time out and restart.
THEOREM DeliveryClaimsExclusive == DeliverySpec => []ExclusiveClaim
  <1>1. DInv => ExclusiveClaim
    BY DEF DInv, IInv
  <1> QED
    BY <1>1, DeliveryInvariant, PTL

-----------------------------------------------------------------------------
(* What the table promises, it promises to the robots too. *)

\* Every step of the composition is a step of the contract, or none.
LEMMA DeliveryContractStep ==
  ASSUME DInv, [DeliveryNext]_dvars
  PROVE  [Contract!Next]_(Contract!cvars)
  <1>1. IInv
    BY DEF DInv
  <1>2. ASSUME UNCHANGED <<status, stamps, told>>
        PROVE  [Contract!Next]_(Contract!cvars)
    BY <1>2 DEF Contract!cvars, Reached, Exists
  <1>3. CASE Next
    BY <1>1, <1>3, ContractStep
  <1>4. ASSUME NEW r \in Robots, Alone(r)
        PROVE  [Contract!Next]_(Contract!cvars)
    <2>1. UNCHANGED vars
      BY <1>4 DEF Alone, RobotPollFails, RobotTake, RobotReportLost, RobotAct
    <2> QED
      BY <1>1, <2>1, ContractStep
  <1>5. ASSUME NEW r \in Robots, RobotRestart(r)
        PROVE  [Contract!Next]_(Contract!cvars)
    <2>1. UNCHANGED <<status, stamps, told>>
      BY <1>5 DEF RobotRestart, rows, outside
    <2> QED
      BY <1>2, <2>1
  <1>6. CASE UNCHANGED dvars
    <2>1. UNCHANGED vars
      BY <1>6 DEF dvars
    <2> QED
      BY <1>1, <2>1, ContractStep
  <1> QED
    BY <1>3, <1>4, <1>5, <1>6, TableStep

\* The table with robots that time out, lose reports and restart still implements
\* the contract: what one side does wrong, the other does not have to undo.
THEOREM DeliveryRefinesContract == DeliverySpec => ImplementsContract
  <1>1. DeliveryInit => Contract!Init
    BY DEF DeliveryInit, Init, Contract!Init, Contract!Absent, Absent, Reached, Exists
  <1>2. DInv /\ [DeliveryNext]_dvars => [Contract!Next]_(Contract!cvars)
    BY DeliveryContractStep
  <1> QED
    BY <1>1, <1>2, DeliveryInvariant, PTL DEF DeliverySpec, ImplementsContract, Contract!Spec

\* A command that was cancelled or timed out before it was dispatched.
Withdrawn(c) == status[c] \in TerminalStates /\ "dispatched_at" \notin stamps[c]

\* No robot performs a withdrawn command, and a withdrawn command stays so.
WithdrawnStays ==
    /\ [](\A c \in Commands, r \in Robots : Withdrawn(c) => c \notin Range(performed[r]))
    /\ [][\A c \in Commands : Withdrawn(c) => Withdrawn(c)']_dvars

\* An operator who cancels in time, or a deadline that passes in time, is final: a
\* claim that had already selected the row does not bring the command to a robot.
THEOREM WithdrawnIsNeverPerformed == DeliverySpec => WithdrawnStays
  <1>1. DInv => \A c \in Commands, r \in Robots : Withdrawn(c) => c \notin Range(performed[r])
    <2> SUFFICES ASSUME DInv, NEW c \in Commands, NEW r \in Robots, c \in Range(performed[r])
                 PROVE  ~Withdrawn(c)
      OBVIOUS
    <2>1. performed[r] \in Seq(Commands)
      BY DEF DInv, DeliveryTyped
    <2>2. DOMAIN performed[r] = 1..Len(performed[r])
      BY <2>1
    <2>3. PICK i \in 1..Len(performed[r]) : performed[r][i] = c
      BY <2>2 DEF Range
    <2>4. c \in delivered
      BY <2>3 DEF DInv, HandInv
    <2> QED
      BY <2>4 DEF DInv, IInv, ClaimInv, Withdrawn
  <1>2. ASSUME DInv, [DeliveryNext]_dvars
        PROVE  [\A c \in Commands : Withdrawn(c) => Withdrawn(c)']_dvars
    <2>1. IInv /\ TypeOK /\ RowIsOneRun
      BY <1>2 DEF DInv, IInv
    <2>2. ASSUME Next, NEW c \in Commands, Withdrawn(c) PROVE Withdrawn(c)'
      <3>1. RowChange
        BY <2>1, <2>2, NextRows
      <3>2. status'[c] = status[c] /\ status[c] \in TerminalStates
        BY <2>1, <2>2, <3>1, TerminalStays DEF Withdrawn
      <3>3. stamps'[c] = stamps[c]
        <4>1. CASE UNCHANGED rows
          BY <4>1 DEF rows
        <4>2. ASSUME NEW d \in Commands, NEW s \in Status, RowWrite(d, s)
              PROVE  stamps'[c] = stamps[c]
          <5>1. status[d] \notin TerminalStates
            BY <2>1, <4>2, TransitionsTyped DEF RowWrite, TypeOK, Absent, TerminalStates
          <5>2. c # d
            BY <3>2, <5>1
          <5> QED
            BY <2>1, <4>2, <5>2 DEF RowWrite, SetStatus, TypeOK
        <4>3. ASSUME NEW S \in SUBSET Commands, RowExpire(S)
              PROVE  stamps'[c] = stamps[c]
          BY <3>2, <4>3 DEF RowExpire
        <4> QED
          BY <3>1, <4>1, <4>2, <4>3 DEF RowChange
      <3> QED
        BY <2>2, <3>2, <3>3 DEF Withdrawn
    <2>3. ASSUME NEW r \in Robots, Alone(r) \/ RobotRestart(r), NEW c \in Commands, Withdrawn(c)
          PROVE  Withdrawn(c)'
      <3>1. UNCHANGED <<status, stamps>>
        BY <2>3 DEF Alone, RobotPollFails, RobotTake, RobotReportLost, RobotAct, RobotRestart,
                    vars, rows
      <3> QED
        BY <2>3, <3>1 DEF Withdrawn
    <2>4. CASE DeliveryNext
      BY <1>2, <2>2, <2>3, <2>4, TableStep
    <2> QED
      BY <1>2, <2>4
  <1> QED
    BY <1>1, <1>2, DeliveryInvariant, PTL DEF DeliverySpec, WithdrawnStays
=============================================================================
