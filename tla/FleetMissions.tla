----------------------------- MODULE FleetMissions -----------------------------
(***************************************************************************)
(* The simulated fleet: dispatcher_loop hands missions to free robots while *)
(* every robot_loop drives, charges, overheats, dies, is repaired and obeys *)
(* operator commands.  All of them are tasks of one event loop, so a step   *)
(* here runs from one await to the next.                                   *)
(*                                                                         *)
(* A battery level stands for the interval between the next lower threshold *)
(* of the code and itself, a temperature for the interval that ends below   *)
(* the next threshold: the guards then read as in the code.  What a tick    *)
(* changes within an interval is not visible.                              *)
(***************************************************************************)
EXTENDS Integers, FiniteSets, FiniteSetsExt

CONSTANTS
    Robots,
    None,           \* no mission, no command
    MissionLengths, \* how many steps build_mission gives a mission
    MaxCommands,    \* bound: operator commands
    MaxSpikes       \* bound: random temperature spikes

ASSUME FleetAssumption ==
    /\ IsFiniteSet(Robots)
    /\ MissionLengths \subseteq Nat \ {0}
    /\ MaxCommands \in Nat /\ MaxSpikes \in Nat
ASSUME NoneAssumption == None \notin [step : Nat, steps : Nat]

Actions == {"RETURN_TO_BASE", "EMERGENCY_STOP", "RESUME", "OTHER"}

VARIABLES
    rob,       \* RobotState of each robot
    pc,        \* what its loop awaits: the next tick, a command's reports, an event
    command,   \* the command in hand
    queued,    \* length of the dispatcher's mission queue
    commands,  \* commands received so far
    spikes,    \* temperature spikes so far
    halted     \* was the robot emergency-stopped, and neither released nor repaired

fvars == <<rob, pc, command, queued, commands, spikes, halted>>

Levels == {5, 20, 25, 30, 50, 99, 100}
Temperatures == {60, 79, 94, 99}
Statuses == {"ACTIVE", "LOW POWER", "CHARGING", "OVERHEATING", "STOPPED", "DEAD"}
Missions == [step : Nat, steps : MissionLengths]
RobotState ==
    [status : Statuses, online : BOOLEAN, mission : Missions \cup {None},
     returning : BOOLEAN, suspended : BOOLEAN, home : BOOLEAN,
     battery : Levels, temperature : Temperatures]

FleetTypeOK ==
    /\ rob \in [Robots -> RobotState]
    /\ pc \in [Robots -> {"tick", "command", "report"}]
    /\ command \in [Robots -> Actions \cup {None}]
    /\ queued \in 0..4
    /\ commands \in 0..MaxCommands
    /\ spikes \in 0..MaxSpikes
    /\ halted \in [Robots -> BOOLEAN]

-----------------------------------------------------------------------------
(* Battery and temperature.  A tick drains less than 4.4 and charges less   *)
(* than 9 points (dt is clamped to 2.5 s, healths to 10..100).              *)

Floor == [l \in Levels |-> Max({0} \cup {m \in Levels : m < l})]
Drained == [l \in Levels |-> {m \in Levels \ {100} : m <= l /\ m >= Floor[l] - 4}]
Charged == [l \in Levels |-> {m \in Levels : m >= l /\ (m = l \/ Floor[m] < l + 9)}]

\* Load and charging heat the robot by less than it cools above 60 degrees; only
\* a random spike takes it over a threshold, one at a time.
Cooled ==
    [t \in Temperatures |-> {t, Max({60} \cup {u \in Temperatures : u < t})}]
Spiked ==
    [t \in Temperatures |-> {t, Min({99} \cup {u \in Temperatures : u > t})}]

\* The end of a tick: perhaps a spike, counted when it crosses a threshold.
Settle(r, s, temperatures) ==
    \E t \in temperatures : \E u \in Spiked[t] :
        /\ u # t => spikes < MaxSpikes
        /\ spikes' = IF u # t THEN spikes + 1 ELSE spikes
        /\ rob' = [rob EXCEPT ![r] = [s EXCEPT !.temperature = u]]

assign_mission(s, m) ==
    [s EXCEPT !.mission = m, !.status = "ACTIVE", !.returning = FALSE]

clear_mission(s) == [s EXCEPT !.mission = None]

build_mission(len) == [step |-> 0, steps |-> len]

is_dead(s) == s.battery <= 5 \/ s.temperature >= 95

-----------------------------------------------------------------------------
(* main_async and dispatcher_loop. *)

FleetInit ==
    /\ rob \in [Robots -> [status : {"ACTIVE"}, online : {TRUE}, mission : {None},
                           returning : {FALSE}, suspended : {FALSE}, home : BOOLEAN,
                           battery : {99, 100}, temperature : {60}]]
    /\ pc = [r \in Robots |-> "tick"]
    /\ command = [r \in Robots |-> None]
    /\ queued = 0
    /\ commands = 0
    /\ spikes = 0
    /\ halted = [r \in Robots |-> FALSE]

\* Mutant: the dispatcher looks at the mission and the battery, not at the status.
CandidateWhateverStatus(s) ==
    /\ s.online
    /\ s.mission = None
    /\ ~s.returning
    /\ s.battery > 20

Candidate(s) ==
    /\ s.online
    /\ s.status \notin {"DEAD", "CHARGING", "OVERHEATING", "STOPPED"}
    /\ s.mission = None
    /\ ~s.returning
    /\ s.battery > 20

\* Mutant: one mission too many is queued.
RefilledOver == IF queued <= 4 THEN queued + 1 ELSE queued

\* The queue after the dispatcher has added a mission, if fewer than four wait.
Refilled == IF queued < 4 THEN queued + 1 ELSE queued

\* One round: the queue is refilled, then its missions go to free robots until one
\* of the two runs out.  Which robot is nearest, and how many steps a mission has,
\* is left open.
Dispatch ==
    LET free == {r \in Robots : Candidate(rob[r])}
        n == Min({Refilled, Cardinality(free)})
    IN \E chosen \in kSubset(n, free) : \E len \in [chosen -> MissionLengths] :
        /\ rob' = [r \in Robots |->
                     IF r \in chosen
                     THEN assign_mission(rob[r], build_mission(len[r]))
                     ELSE rob[r]]
        /\ queued' = Refilled - n
        /\ UNCHANGED <<pc, command, commands, spikes, halted>>

-----------------------------------------------------------------------------
(* robot_loop: commands.  Each is reported before and after it is obeyed, and *)
(* the dispatcher may run during either report.                             *)

TakeCommand(r, c) ==
    /\ pc[r] = "tick"
    /\ commands < MaxCommands
    /\ pc' = [pc EXCEPT ![r] = "command"]
    /\ command' = [command EXCEPT ![r] = c]
    /\ commands' = commands + 1
    /\ UNCHANGED <<rob, queued, spikes, halted>>

Obey(s, c) ==
    CASE c = "RETURN_TO_BASE" ->
            [clear_mission(s) EXCEPT !.returning = TRUE, !.status = "ACTIVE", !.online = TRUE]
      [] c = "EMERGENCY_STOP" ->
            [clear_mission(s) EXCEPT !.status = "STOPPED", !.returning = FALSE]
      [] c = "RESUME" -> [s EXCEPT !.status = "ACTIVE", !.online = TRUE]
      [] OTHER -> s

Act(r) ==
    /\ pc[r] = "command"
    /\ rob' = [rob EXCEPT ![r] = Obey(@, command[r])]
    /\ halted' = [halted EXCEPT ![r] =
                    CASE command[r] = "EMERGENCY_STOP" -> TRUE
                      [] command[r] \in {"RESUME", "RETURN_TO_BASE"} -> FALSE
                      [] OTHER -> @]
    /\ pc' = [pc EXCEPT ![r] = "tick"]
    /\ command' = [command EXCEPT ![r] = None]
    /\ UNCHANGED <<queued, commands, spikes>>

-----------------------------------------------------------------------------
(* robot_loop: the rest of a tick. *)

\* A robot whose battery or temperature gave out shuts down.
Die(r) ==
    /\ pc[r] = "tick"
    /\ is_dead(rob[r])
    /\ rob[r].status # "DEAD"
    /\ rob' = [rob EXCEPT ![r] = [clear_mission(@) EXCEPT !.status = "DEAD",
                                    !.online = FALSE, !.returning = FALSE]]
    /\ UNCHANGED <<pc, command, queued, commands, spikes, halted>>

\* The repair crew comes 45 to 90 s after dead_since.
Repair(r) ==
    /\ pc[r] = "tick"
    /\ is_dead(rob[r])
    /\ rob[r].status = "DEAD"
    /\ rob' = [rob EXCEPT ![r] = [@ EXCEPT !.battery = 100, !.temperature = 60,
                    !.status = "ACTIVE", !.online = TRUE, !.suspended = FALSE]]
    /\ halted' = [halted EXCEPT ![r] = FALSE]
    /\ UNCHANGED <<pc, command, queued, commands, spikes>>

LowPower(s) ==
    IF s.battery <= 30 /\ s.status # "CHARGING"
    THEN IF s.battery <= 25 /\ s.mission # None
         THEN [clear_mission(s) EXCEPT !.status = "LOW POWER", !.returning = TRUE]
         ELSE [s EXCEPT !.status = "LOW POWER"]
    ELSE s

\* Mutant: any robot low on charge is sent to top up, mission or not.
TopUpBusy(s) ==
    IF s.battery <= 50 /\ ~s.returning /\ s.status # "CHARGING"
    THEN [s EXCEPT !.returning = TRUE]
    ELSE s

TopUp(s) ==
    IF s.mission = None /\ s.battery <= 50 /\ ~s.returning /\ s.status # "CHARGING"
    THEN [s EXCEPT !.returning = TRUE]
    ELSE s

\* The state the physics of a tick starts from.
Ready(r) == TopUp(LowPower(rob[r]))

\* The physics runs only on a robot that is neither dead nor stopped.
Running(r) ==
    /\ pc[r] = "tick"
    /\ ~is_dead(rob[r])
    /\ rob[r].status # "STOPPED"

\* 1. Returning to the charge base.
ReturnToCharge(r) ==
    LET s == Ready(r) IN
    /\ Running(r)
    /\ s.returning
    /\ IF s.home
       THEN Settle(r, [s EXCEPT !.returning = FALSE, !.status = "CHARGING"],
                   {s.temperature})
       ELSE \E b \in Drained[s.battery], h \in BOOLEAN :
               Settle(r, [s EXCEPT !.battery = b, !.home = h,
                            !.status = IF s.battery <= 20 THEN "LOW POWER" ELSE "ACTIVE"],
                      Cooled[s.temperature])
    /\ UNCHANGED <<pc, command, queued, commands, halted>>

\* Mutant: the charge is released only at a temperature no robot ever has.
ReleasedNever(t) == t < 22

\* Cool enough to charge again.
Released(t) == t <= 60

\* 2. Charging, suspended from 80 degrees until it has cooled to 60.
Charge(r) ==
    LET s == Ready(r)
        suspended == s.suspended \/ s.temperature >= 80
    IN
    /\ Running(r)
    /\ ~s.returning
    /\ s.status = "CHARGING"
    /\ IF suspended
       THEN \E t \in Cooled[s.temperature] :
               Settle(r, [s EXCEPT !.suspended = ~Released(t),
                            !.status = IF Released(t) THEN "CHARGING" ELSE "OVERHEATING"],
                      {t})
       ELSE \E b \in Charged[s.battery] :
               Settle(r, [s EXCEPT !.battery = b,
                            !.status = IF b >= 100 THEN "ACTIVE" ELSE "CHARGING"],
                      Cooled[s.temperature])
    /\ UNCHANGED <<pc, command, queued, commands, halted>>

\* Mutant: a mission completed while overheating is not taken off the robot.
AdvanceKeepsMission(s) == [s EXCEPT !.mission.step = @ + 1]

\* The robot has reached the target of its step: the next one, or the end.
Advance(s) ==
    LET t == [s EXCEPT !.mission.step = @ + 1] IN
    IF t.mission.step >= t.mission.steps THEN clear_mission(t) ELSE t

\* 3. Overheating: half speed with a mission (pauses are not kept), else cooling.
Overheat(r) ==
    LET s == [Ready(r) EXCEPT !.status = "OVERHEATING"] IN
    /\ Running(r)
    /\ ~s.returning /\ Ready(r).status # "CHARGING" /\ s.temperature >= 80
    /\ \/ /\ s.mission # None
          /\ \E b \in Drained[s.battery] :
                \/ Settle(r, [Advance(s) EXCEPT !.battery = b], Cooled[s.temperature])
                \/ \E h \in BOOLEAN :
                      Settle(r, [s EXCEPT !.battery = b, !.home = h], Cooled[s.temperature])
       \/ /\ s.mission = None
          /\ Settle(r, s, Cooled[s.temperature])
    /\ UNCHANGED <<pc, command, queued, commands, halted>>

\* The robot is on a mission and cool enough to drive.
OnMission(r) ==
    /\ Running(r)
    /\ ~Ready(r).returning
    /\ Ready(r).status # "CHARGING"
    /\ Ready(r).temperature < 80
    /\ Ready(r).mission # None

\* 4. Driving to the step's target, pausing at an inspection, or reaching a target
\* that is not the last.
Drive(r) ==
    LET s == Ready(r) IN
    /\ OnMission(r)
    /\ \E b \in Drained[s.battery] :
          \/ \E h \in BOOLEAN :
                Settle(r, [s EXCEPT !.battery = b, !.home = h], Cooled[s.temperature])
          \/ /\ s.mission.step + 1 < s.mission.steps
             /\ Settle(r, [Advance(s) EXCEPT !.battery = b], Cooled[s.temperature])
    /\ UNCHANGED <<pc, command, queued, commands, halted>>

\* The last target is reached.  The mission stays on the robot while the completion
\* is posted to /events (in a blackout that post is skipped).
Complete(r) ==
    /\ OnMission(r)
    /\ Ready(r).mission.step + 1 >= Ready(r).mission.steps
    /\ rob' = [rob EXCEPT ![r] = [Ready(r) EXCEPT !.mission.step = @ + 1]]
    /\ pc' = [pc EXCEPT ![r] = "report"]
    /\ UNCHANGED <<command, queued, commands, spikes, halted>>

\* The post is answered or fails, and the tick ends.
Completed(r) ==
    LET s == [clear_mission(rob[r]) EXCEPT !.status = "ACTIVE"] IN
    /\ pc[r] = "report"
    /\ \E b \in Drained[s.battery] :
          Settle(r, [s EXCEPT !.battery = b], Cooled[s.temperature])
    /\ pc' = [pc EXCEPT ![r] = "tick"]
    /\ UNCHANGED <<command, queued, commands, halted>>

\* 5. Standby.
Standby(r) ==
    LET s == Ready(r) IN
    /\ Running(r)
    /\ ~s.returning /\ s.status # "CHARGING" /\ s.temperature < 80 /\ s.mission = None
    /\ \E b \in Drained[s.battery] :
          Settle(r, [s EXCEPT !.battery = b], Cooled[s.temperature])
    /\ UNCHANGED <<pc, command, queued, commands, halted>>

Tick(r) ==
    \/ Die(r)
    \/ ReturnToCharge(r)
    \/ Charge(r)
    \/ Overheat(r)
    \/ Drive(r)
    \/ Standby(r)

RobotStep(r) ==
    \/ \E c \in Actions : TakeCommand(r, c)
    \/ Act(r)
    \/ Repair(r)
    \/ Tick(r)
    \/ Complete(r)
    \/ Completed(r)

FleetNext == Dispatch \/ \E r \in Robots : RobotStep(r)

\* Every robot's loop goes on, the repair crew comes, and what a tick wears or
\* cools a little at a time in the end crosses the next threshold.
FleetFairness ==
    \A r \in Robots :
        /\ WF_fvars(Tick(r))
        /\ WF_fvars(Act(r))
        /\ WF_fvars(Completed(r))
        /\ WF_fvars(Repair(r))
        /\ SF_fvars(Tick(r) /\ rob'[r].battery # rob[r].battery)
        /\ SF_fvars(Tick(r) /\ rob'[r].temperature < rob[r].temperature)

FleetSpec == FleetInit /\ [][FleetNext]_fvars /\ FleetFairness

-----------------------------------------------------------------------------
(* Properties. *)

\* A robot has one duty at a time, whatever the order in which dispatcher, operator
\* and physics reach it: it is never both on a mission and on its way to the
\* charger; while it is stopped or dead it is on neither, and when it charges it
\* stands at the base and is on neither.
OneDuty ==
    \A r \in Robots :
        LET s == rob[r] IN
        /\ ~(s.returning /\ s.mission # None)
        /\ s.status \in {"STOPPED", "DEAD", "CHARGING"} => ~s.returning /\ s.mission = None
        /\ s.status = "CHARGING" => s.home

\* The mission a tick works on has a step left: mission.steps[current_step] is in
\* range, else the IndexError would end the robot's loop for good.
StepInRange ==
    \A r \in Robots :
        pc[r] # "report" /\ rob[r].mission # None =>
            rob[r].mission.step < rob[r].mission.steps

\* An emergency-stopped robot stays parked until it is released: neither the
\* dispatcher nor its own physics moves it, unless it breaks down and is repaired.
StopHolds ==
    \A r \in Robots :
        halted[r] =>
            rob[r].status \in {"STOPPED", "DEAD"} /\ rob[r].mission = None /\ ~rob[r].returning

\* No robot drops out of service for good: it is tasked, ready for a mission or
\* deliberately stopped again and again, however often it is drained, overheated,
\* shut down or sent home.
BackInService ==
    \A r \in Robots :
        []<>(Candidate(rob[r]) \/ rob[r].mission # None \/ rob[r].status = "STOPPED")

================================================================================
