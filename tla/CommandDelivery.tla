---------------------------- MODULE CommandDelivery ----------------------------
(***************************************************************************)
(* The command subsystem together with the robots that poll it             *)
(* (robot_loop and patch_command_status of the simulator).  A robot claims *)
(* its commands, and for each one reports ACKNOWLEDGED and EXECUTING,      *)
(* performs it, and reports the result.  Claims time out, PATCH requests   *)
(* and responses get lost (every failure is swallowed), the simulator      *)
(* restarts and forgets which commands it has processed.                   *)
(***************************************************************************)
EXTENDS CommandLifecycle, SequencesExt

VARIABLES
    robot,      \* per robot: where its loop is, the claim it awaits, its inbox
    processed,  \* processed_command_ids, in the simulator's memory
    performed,  \* the commands each robot has carried out, in order
    prior       \* the commands already stored when a create request came in

robotVars == <<robot, processed, performed>>
dvars == <<vars, robotVars, prior>>

IdleRobot == [pc |-> "idle", via |-> None, inbox |-> << >>, result |-> "COMPLETED"]

\* Where the loop goes after each report.
After == [ack |-> "exec", exec |-> "act", final |-> "take", replay |-> "take"]

\* The status each report carries.
Report(r) ==
    CASE robot[r].pc = "ack"    -> "ACKNOWLEDGED"
      [] robot[r].pc = "exec"   -> "EXECUTING"
      [] robot[r].pc = "final"  -> robot[r].result
      [] robot[r].pc = "replay" -> "COMPLETED"

\* The command in hand is the head of the inbox until it is reported.
Current(r) == Head(robot[r].inbox)

DeliveryTypeOK ==
    /\ TypeOK
    /\ \A r \in Robots :
          /\ robot[r].pc \in {"idle", "polling", "take", "act"} \cup DOMAIN After
          /\ robot[r].via \in Claimers \cup {None}
          /\ robot[r].inbox \in Seq(Commands)
          /\ robot[r].result \in {"COMPLETED", "FAILED"}
          /\ processed[r] \subseteq Commands
          /\ performed[r] \in Seq(Commands)
    /\ prior \in [Commands -> SUBSET Commands]

DeliveryInit ==
    /\ Init
    /\ robot = [r \in Robots |-> IdleRobot]
    /\ processed = [r \in Robots |-> {}]
    /\ performed = [r \in Robots |-> << >>]
    /\ prior = [c \in Commands |-> {}]

-----------------------------------------------------------------------------
(* robot_loop. *)

\* POST /commands/{robot}/claim.  The loop polls only while a dashboard is
\* connected, so nothing obliges it to.
RobotPoll(r, h) ==
    /\ robot[r].pc = "idle"
    /\ ClaimBegin(h, r)
    /\ robot' = [robot EXCEPT ![r].pc = "polling", ![r].via = h]
    /\ UNCHANGED <<processed, performed, prior>>

\* The response arrives in time.
RobotReceive(r) ==
    LET h == robot[r].via IN
    /\ robot[r].pc = "polling"
    /\ claiming[h].robot = r
    /\ ClaimRespond(h)
    /\ robot' = [robot EXCEPT ![r].pc = "take", ![r].via = None,
                              ![r].inbox = claimed[h]]
    /\ UNCHANGED <<processed, performed, prior>>

\* The 10 s client timeout or a connection error; the handler may live on.
RobotPollFails(r) ==
    /\ robot[r].pc = "polling"
    /\ robot' = [robot EXCEPT ![r] = IdleRobot]
    /\ UNCHANGED <<vars, processed, performed, prior>>

\* The next command of the response, or the end of the list.
RobotTake(r) ==
    /\ robot[r].pc = "take"
    /\ IF robot[r].inbox = << >>
       THEN /\ robot' = [robot EXCEPT ![r] = IdleRobot]
            /\ UNCHANGED processed
       ELSE /\ robot' = [robot EXCEPT
                  ![r].pc = IF Current(r) \in processed[r] THEN "replay" ELSE "ack"]
            /\ processed' = [processed EXCEPT ![r] = @ \cup {Current(r)}]
    /\ UNCHANGED <<vars, performed, prior>>

\* The loop continues after a report; after the last one the command is done.
Continue(r) ==
    robot' = [robot EXCEPT
        ![r].pc = After[@],
        ![r].inbox = IF After[robot[r].pc] = "take" THEN Tail(@) ELSE @]

\* patch_command_status: the request reaches a handler.  The robot goes on when
\* the answer comes, or when the request times out; the answer is ignored.
RobotReport(r, p) ==
    /\ robot[r].pc \in DOMAIN After
    /\ PatchRead(p, Current(r), Report(r))
    /\ Continue(r)
    /\ UNCHANGED <<processed, performed, prior>>

\* Mutant: a lost report makes the robot start the command over.
RobotReportLostStartsOver(r) ==
    /\ robot[r].pc \in DOMAIN After
    /\ robot' = [robot EXCEPT ![r].pc = "ack"]
    /\ UNCHANGED <<vars, processed, performed, prior>>

\* patch_command_status: the request is lost, the exception swallowed.
RobotReportLost(r) ==
    /\ robot[r].pc \in DOMAIN After
    /\ Continue(r)
    /\ UNCHANGED <<vars, processed, performed, prior>>

\* Mutant: a command of an unknown type is reported COMPLETED.
RobotActAlwaysCompletes(r) ==
    /\ robot[r].pc = "act"
    /\ robot' = [robot EXCEPT ![r].pc = "final", ![r].result = "COMPLETED"]
    /\ \/ performed' = [performed EXCEPT ![r] = Append(@, Current(r))]
       \/ UNCHANGED performed
    /\ UNCHANGED <<vars, processed, prior>>

\* Mutant: a command of an unknown type is reported with a status of its own.
RobotActUnsupported(r) ==
    /\ robot[r].pc = "act"
    /\ robot' = [robot EXCEPT ![r].pc = "final", ![r].result = "UNSUPPORTED"]
    /\ UNCHANGED <<vars, processed, performed, prior>>

\* Carry out RETURN_TO_BASE, EMERGENCY_STOP or RESUME; any other type FAILED.
RobotAct(r) ==
    /\ robot[r].pc = "act"
    /\ \/ /\ robot' = [robot EXCEPT ![r].pc = "final", ![r].result = "COMPLETED"]
          /\ performed' = [performed EXCEPT ![r] = Append(@, Current(r))]
       \/ /\ robot' = [robot EXCEPT ![r].pc = "final", ![r].result = "FAILED"]
          /\ UNCHANGED performed
    /\ UNCHANGED <<vars, processed, prior>>

\* The simulator process restarts with empty memory.
RobotRestart(r) ==
    /\ faults < MaxFaults
    /\ faults' = faults + 1
    /\ robot' = [robot EXCEPT ![r] = IdleRobot]
    /\ processed' = [processed EXCEPT ![r] = {}]
    /\ UNCHANGED <<requests, deadline, rows, locks, outside, handlers, performed, prior>>

-----------------------------------------------------------------------------
(* The backend's own steps. *)

\* A client creates a command.
Submit(p) ==
    /\ \E r \in Robots, k \in Keys \cup {NoKey}, d \in Deadlines : CreateBegin(p, r, k, d)
    /\ prior' = [prior EXCEPT ![nextId] = {c \in Commands : Exists(c)}]
    /\ UNCHANGED robotVars

\* Another API client cancels a command.
Cancel(p) == \E c \in Commands : PatchRead(p, c, "CANCELLED")

\* A claim response nobody waits for any more.
OrphanRespond(h) ==
    /\ \A r \in Robots : robot[r].via # h
    /\ ClaimRespond(h)

Backend ==
    /\ \/ \E p \in Creators : CreateStep(p) \/ CreateAbort(p)
       \/ \E h \in Claimers : \/ ClaimSelect(h) \/ ClaimDispatch(h) \/ ClaimBroadcast(h)
                              \/ OrphanRespond(h) \/ ClaimAbort(h)
       \/ \E p \in Patchers : PatchStep(p) \/ PatchAbort(p) \/ Cancel(p)
       \/ \E s \in Scanners : ScanStep(s) \/ ScanFail(s) \/ ScanCrash(s)
       \/ ScanLockExpire
       \/ \E c \in Commands : DeadlinePasses(c)
    /\ UNCHANGED <<robotVars, prior>>

RobotStep(r) ==
    \/ RobotReceive(r)
    \/ RobotTake(r)
    \/ \E p \in Patchers : RobotReport(r, p)
    \/ RobotAct(r)

DeliveryNext ==
    \/ \E r \in Robots : \/ \E h \in Claimers : RobotPoll(r, h)
                         \/ RobotStep(r)
                         \/ RobotPollFails(r)
                         \/ RobotReportLost(r)
                         \/ RobotRestart(r)
    \/ \E p \in Creators : Submit(p)
    \/ Backend

DeliverySpec == DeliveryInit /\ [][DeliveryNext]_dvars

Stays(A) == A /\ UNCHANGED <<robotVars, prior>>

\* The robot's loop and the handlers it talks to keep going, the worker sweeps.
DeliveryFairSpec ==
    /\ DeliverySpec
    /\ \A r \in Robots : WF_dvars(RobotStep(r))
    /\ \A h \in Claimers : WF_dvars(Stays(ClaimSelect(h) \/ ClaimDispatch(h) \/ ClaimBroadcast(h)))
    /\ \A p \in Patchers : WF_dvars(Stays(PatchStep(p)))
    /\ \A s \in Scanners : WF_dvars(Stays(ScanStep(s)))
    /\ WF_dvars(Stays(ScanLockExpire))
    /\ \A c \in Commands : WF_dvars(Stays(DeadlinePasses(c)))

-----------------------------------------------------------------------------
(* What operator and robot may rely on. *)

\* No robot performs a command twice, even though a claim may be retried and a
\* restart empties processed_command_ids.
PerformedAtMostOnce == \A r \in Robots : IsInjective(performed[r])

\* A command the table shows COMPLETED was performed by its robot, and by no other.
CompletedWasPerformed ==
    \A c \in Commands : status[c] = "COMPLETED" =>
        \A r \in Robots : c \in Range(performed[r]) <=> r = robotOf[c]

\* FIFO dispatch as the robot lives it: a command is never performed after one
\* that was requested when it was already stored, so an EMERGENCY_STOP is not
\* undone by a RESUME sent before it, whichever of several overlapping claims
\* picked up which of the two.
PerformedInOrder ==
    \A r \in Robots : \A i, j \in DOMAIN performed[r] :
        i < j => performed[r][j] \notin prior[performed[r][i]]

\* patch_command_status swallows failures because "the backend's timeout sweeper
\* will reconcile anything left dangling": a dispatched command is not left
\* without an outcome for ever.
DanglingIsReconciled ==
    \A c \in Commands : (status[c] = "DISPATCHED") ~> (status[c] \in TerminalStates)
=============================================================================
