-------------------------- MODULE FleetMissions_proofs -------------------------
(***************************************************************************)
(* Proofs about FleetMissions for any finite fleet and any set of mission  *)
(* lengths.  What the properties say of a robot is not inductive by itself: *)
(* that its loop awaits a report only with a mission in hand keeps the     *)
(* dispatcher away from it, and that a robot is marked DEAD only while its  *)
(* battery or temperature says so keeps the physics away from a stopped     *)
(* robot that broke down.                                                  *)
(***************************************************************************)
EXTENDS FleetMissions, FiniteSetTheorems, TLAPS

\* A robot has one duty at a time.
Duty(s) ==
    /\ ~(s.returning /\ s.mission # None)
    /\ s.status \in {"STOPPED", "DEAD", "CHARGING"} => ~s.returning /\ s.mission = None
    /\ s.status = "CHARGING" => s.home

\* The mission in hand has a step left.
StepLeft(s) == s.mission # None => s.mission.step < s.mission.steps

\* A robot in state s whose loop awaits p, stopped by an operator or not.
RobotInv(s, p, stopped) ==
    /\ Duty(s)
    /\ p # "report" => StepLeft(s)
    /\ p = "report" => s.mission # None
    /\ stopped => s.status \in {"STOPPED", "DEAD"} /\ s.mission = None /\ ~s.returning
    /\ s.status = "DEAD" => is_dead(s)

FInv ==
    /\ FleetTypeOK
    /\ \A r \in Robots : RobotInv(rob[r], pc[r], halted[r])

-----------------------------------------------------------------------------
(* The tables of battery and temperature, and the operators on a robot.     *)

\* A tick takes the battery to a level of the table.
LEMMA BatteryTables ==
  ASSUME NEW l \in Levels
  PROVE  Drained[l] \subseteq Levels /\ Charged[l] \subseteq Levels
  BY DEF Drained, Charged

\* Cooling and a spike take the temperature to a value of the table.
LEMMA TemperatureTables ==
  ASSUME NEW t \in Temperatures
  PROVE  Cooled[t] \subseteq Temperatures /\ Spiked[t] \subseteq Temperatures
  <1> DEFINE below == {60} \cup {u \in Temperatures : u < t}
  <1> DEFINE above == {99} \cup {u \in Temperatures : u > t}
  <1>1. below \in SUBSET (0..99) /\ below # {} /\ below \subseteq Temperatures
    BY DEF Temperatures
  <1>2. above \in SUBSET Nat /\ above # {} /\ above \subseteq Temperatures
    BY DEF Temperatures
  <1> HIDE DEF below, above
  <1>4. \E x \in below : \A y \in below : x >= y
    BY DEF Temperatures, below
  <1>5. Max(below) \in below
    BY <1>4 DEF Max
  <1>6. \E x \in above : \A y \in above : x <= y
    BY DEF Temperatures, above
  <1>7. Min(above) \in above
    BY <1>6 DEF Min
  <1>8. Cooled[t] = {t, Max(below)}
    BY DEF Cooled, below
  <1>9. Spiked[t] = {t, Min(above)}
    BY DEF Spiked, above
  <1> QED
    BY <1>1, <1>2, <1>5, <1>7, <1>8, <1>9

\* A mission is not None, and has a number of steps.
LEMMA MissionFacts ==
  ASSUME NEW m \in Missions
  PROVE  m # None /\ m.step \in Nat /\ m.steps \in Nat \ {0} /\ m.steps \in MissionLengths
  <1>1. m.step \in Nat /\ m.steps \in MissionLengths /\ m = [step |-> m.step, steps |-> m.steps]
    BY DEF Missions
  <1>2. m.steps \in Nat \ {0}
    BY <1>1, FleetAssumption
  <1>3. m \in [step : Nat, steps : Nat]
    BY <1>1, <1>2
  <1> QED
    BY <1>1, <1>2, <1>3, NoneAssumption

\* The fields of a robot.
LEMMA RobotFields ==
  ASSUME NEW s \in RobotState
  PROVE  /\ s.status \in Statuses /\ s.online \in BOOLEAN
         /\ s.mission \in Missions \cup {None}
         /\ s.returning \in BOOLEAN /\ s.suspended \in BOOLEAN /\ s.home \in BOOLEAN
         /\ s.battery \in Levels /\ s.temperature \in Temperatures
  BY DEF RobotState

\* A step of one robot, whatever it awaits afterwards, keeps the invariant when it
\* leaves that robot in a state that satisfies it.
LEMMA RobotKept ==
  ASSUME FInv, NEW r \in Robots,
         NEW s \in RobotState, NEW p \in {"tick", "command", "report"},
         rob' = [rob EXCEPT ![r] = s],
         pc' = [pc EXCEPT ![r] = p],
         RobotInv(s, p, halted'[r]),
         command' \in [Robots -> Actions \cup {None}],
         halted' \in [Robots -> BOOLEAN],
         \A q \in Robots \ {r} : halted'[q] = halted[q],
         queued' \in 0..4, commands' \in 0..MaxCommands, spikes' \in 0..MaxSpikes
  PROVE  FInv'
  <1>1. /\ rob \in [Robots -> RobotState]
        /\ pc \in [Robots -> {"tick", "command", "report"}]
    BY DEF FInv, FleetTypeOK
  <1>2. rob' \in [Robots -> RobotState]
    BY <1>1
  <1>3. pc' \in [Robots -> {"tick", "command", "report"}]
    BY <1>1
  <1>5. FleetTypeOK'
    BY <1>2, <1>3 DEF FleetTypeOK
  <1>6. ASSUME NEW q \in Robots
        PROVE  RobotInv(rob'[q], pc'[q], halted'[q])
    <2>1. CASE q = r
      <3>1. rob'[r] = s /\ pc'[r] = p
        BY <1>1
      <3> QED
        BY <2>1, <3>1
    <2>2. CASE q # r
      <3>1. rob'[q] = rob[q] /\ pc'[q] = pc[q] /\ halted'[q] = halted[q]
        BY <1>1, <2>2
      <3>2. RobotInv(rob[q], pc[q], halted[q])
        BY DEF FInv
      <3> QED
        BY <3>1, <3>2
    <2> QED
      BY <2>1, <2>2
  <1> QED
    BY <1>5, <1>6 DEF FInv

\* Of RobotInv only the duty, the mission and the status count: the temperature,
\* the battery and a place on the map are free for a robot that is not dead.
LEMMA Settled ==
  ASSUME FInv, NEW r \in Robots,
         NEW s \in RobotState, NEW T \in SUBSET Temperatures,
         Duty(s), StepLeft(s), s.status # "DEAD",
         ~halted[r],
         pc[r] = "tick" \/ pc[r] = "report",
         pc' = [pc EXCEPT ![r] = "tick"],
         Settle(r, s, T),
         UNCHANGED <<command, queued, commands, halted>>
  PROVE  FInv'
  <1>1. PICK t \in T : \E u \in Spiked[t] :
          /\ u # t => spikes < MaxSpikes
          /\ spikes' = IF u # t THEN spikes + 1 ELSE spikes
          /\ rob' = [rob EXCEPT ![r] = [s EXCEPT !.temperature = u]]
    BY DEF Settle
  <1>2. PICK u \in Spiked[t] :
          /\ u # t => spikes < MaxSpikes
          /\ spikes' = IF u # t THEN spikes + 1 ELSE spikes
          /\ rob' = [rob EXCEPT ![r] = [s EXCEPT !.temperature = u]]
    BY <1>1
  <1>3. u \in Temperatures
    BY TemperatureTables
  <1> DEFINE s2 == [s EXCEPT !.temperature = u]
  <1>4. s2 \in RobotState
    BY <1>3 DEF RobotState
  <1>5. /\ s2.status = s.status /\ s2.returning = s.returning
        /\ s2.mission = s.mission /\ s2.home = s.home
    BY DEF RobotState
  <1>6. RobotInv(s2, "tick", halted'[r])
    <2> HIDE DEF s2
    <2> QED
      BY <1>5 DEF RobotInv, Duty, StepLeft
  <1>7. spikes' \in 0..MaxSpikes
    <2>1. spikes \in 0..MaxSpikes
      BY DEF FInv, FleetTypeOK
    <2> QED
      BY <1>2, <2>1, FleetAssumption
  <1>8. /\ command \in [Robots -> Actions \cup {None}]
        /\ queued \in 0..4 /\ commands \in 0..MaxCommands
    BY DEF FInv, FleetTypeOK
  <1>9. halted \in [Robots -> BOOLEAN]
    BY DEF FInv, FleetTypeOK
  <1>10. command' \in [Robots -> Actions \cup {None}]
    BY <1>8
  <1>11. /\ halted' \in [Robots -> BOOLEAN]
         /\ \A q \in Robots \ {r} : halted'[q] = halted[q]
    BY <1>9
  <1>12. rob' = [rob EXCEPT ![r] = s2]
    BY <1>2
  <1>13. queued' \in 0..4 /\ commands' \in 0..MaxCommands
    BY <1>8
  <1>14. "tick" \in {"tick", "command", "report"}
    OBVIOUS
  <1> HIDE DEF s2
  <1> QED
    BY <1>4, <1>6, <1>7, <1>10, <1>11, <1>12, <1>13, <1>14, RobotKept

\* The state a tick's physics starts from keeps the robot's one duty, and no robot
\* that was emergency-stopped gets there.
LEMMA ReadyFacts ==
  ASSUME FInv, NEW r \in Robots, Running(r)
  PROVE  /\ Ready(r) \in RobotState
         /\ Duty(Ready(r)) /\ StepLeft(Ready(r))
         /\ Ready(r).status \notin {"STOPPED", "DEAD"}
         /\ ~halted[r]
         /\ pc[r] = "tick" /\ pc = [pc EXCEPT ![r] = "tick"]
  <1>1. /\ rob[r] \in RobotState /\ pc \in [Robots -> {"tick", "command", "report"}]
        /\ RobotInv(rob[r], pc[r], halted[r])
    BY DEF FInv, FleetTypeOK
  <1>2. pc[r] = "tick" /\ ~is_dead(rob[r]) /\ rob[r].status # "STOPPED"
    BY DEF Running
  <1>3. Duty(rob[r]) /\ StepLeft(rob[r])
    BY <1>1, <1>2 DEF RobotInv
  <1>4. rob[r].status \notin {"STOPPED", "DEAD"} /\ ~halted[r]
    BY <1>1, <1>2 DEF RobotInv
  <1>5. PICK s \in RobotState : s = rob[r]
    BY <1>1
  <1>6. PICK l : l = LowPower(s)
    OBVIOUS
  <1>7. /\ l \in RobotState /\ Duty(l) /\ StepLeft(l)
        /\ l.status \notin {"STOPPED", "DEAD"}
        /\ l.status = "CHARGING" => s.status = "CHARGING"
    <2>1. Duty(s) /\ StepLeft(s) /\ s.status \notin {"STOPPED", "DEAD"}
      BY <1>3, <1>4, <1>5
    <2>2. CASE /\ s.battery <= 30 /\ s.status # "CHARGING"
               /\ s.battery <= 25 /\ s.mission # None
      <3>1. l = [[s EXCEPT !.mission = None] EXCEPT !.status = "LOW POWER", !.returning = TRUE]
        BY <1>6, <2>2 DEF LowPower, clear_mission
      <3>2. l \in RobotState
        BY <3>1 DEF RobotState, Statuses
      <3>3. l.mission = None /\ l.status = "LOW POWER"
        BY <3>1 DEF RobotState
      <3> QED
        BY <3>2, <3>3 DEF Duty, StepLeft
    <2>3. CASE /\ s.battery <= 30 /\ s.status # "CHARGING"
               /\ ~(s.battery <= 25 /\ s.mission # None)
      <3>1. l = [s EXCEPT !.status = "LOW POWER"]
        BY <1>6, <2>3 DEF LowPower
      <3>2. l \in RobotState
        BY <3>1 DEF RobotState, Statuses
      <3>3. l.mission = s.mission /\ l.status = "LOW POWER" /\ l.returning = s.returning
        BY <3>1 DEF RobotState
      <3> QED
        BY <2>1, <3>2, <3>3 DEF Duty, StepLeft
    <2>4. CASE ~(s.battery <= 30 /\ s.status # "CHARGING")
      BY <1>6, <2>1, <2>4 DEF LowPower
    <2> QED
      BY <2>2, <2>3, <2>4
  <1>8. PICK t : t = TopUp(l)
    OBVIOUS
  <1>9. /\ t \in RobotState /\ Duty(t) /\ StepLeft(t)
        /\ t.status \notin {"STOPPED", "DEAD"}
    <2>1. CASE l.mission = None /\ l.battery <= 50 /\ ~l.returning /\ l.status # "CHARGING"
      <3>1. t = [l EXCEPT !.returning = TRUE]
        BY <1>8, <2>1 DEF TopUp
      <3>2. t \in RobotState
        BY <1>7, <3>1 DEF RobotState
      <3>3. t.mission = None /\ t.status = l.status
        BY <1>7, <2>1, <3>1 DEF RobotState
      <3> QED
        BY <1>7, <2>1, <3>2, <3>3 DEF Duty, StepLeft
    <2>2. CASE ~(l.mission = None /\ l.battery <= 50 /\ ~l.returning /\ l.status # "CHARGING")
      <3>1. t = l
        BY <1>8, <2>2 DEF TopUp
      <3> QED
        BY <1>7, <3>1
    <2> QED
      BY <2>1, <2>2
  <1>10. Ready(r) = t
    BY <1>5, <1>6, <1>8 DEF Ready
  <1>11. pc = [pc EXCEPT ![r] = "tick"]
    BY <1>1, <1>2
  <1> QED
    BY <1>2, <1>4, <1>9, <1>10, <1>11

\* Reaching a target leaves a mission with a step left, or none.
LEMMA AdvanceFacts ==
  ASSUME NEW s \in RobotState, s.mission # None
  PROVE  /\ Advance(s) \in RobotState
         /\ StepLeft(Advance(s))
         /\ Advance(s).status = s.status /\ Advance(s).returning = s.returning
         /\ Advance(s).mission # None => s.mission # None
  <1>1. s.mission \in Missions
    BY RobotFields
  <1> DEFINE m == [s.mission EXCEPT !.step = @ + 1]
  <1> DEFINE t == [s EXCEPT !.mission.step = @ + 1]
  <1>2. m \in Missions
    <2>1. s.mission.step + 1 \in Nat
      BY <1>1, MissionFacts
    <2> QED
      BY <1>1, <2>1 DEF Missions
  <1>3. t = [s EXCEPT !.mission = m]
    BY DEF RobotState
  <1> HIDE DEF m
  <1>4. /\ t \in RobotState
        /\ t.mission = m /\ t.status = s.status /\ t.returning = s.returning
    <2> HIDE DEF t
    <2>1. t \in RobotState
      BY <1>2, <1>3 DEF RobotState
    <2> QED
      BY <1>3, <2>1 DEF RobotState
  <1> HIDE DEF t
  <1>5. Advance(s) = IF t.mission.step >= t.mission.steps THEN clear_mission(t) ELSE t
    BY DEF Advance, t
  <1>6. CASE t.mission.step >= t.mission.steps
    <2>1. Advance(s) = [t EXCEPT !.mission = None]
      BY <1>5, <1>6 DEF clear_mission
    <2>2. Advance(s) \in RobotState
      BY <1>4, <2>1 DEF RobotState
    <2>3. /\ Advance(s).mission = None /\ Advance(s).status = s.status
          /\ Advance(s).returning = s.returning
      BY <1>4, <2>1 DEF RobotState
    <2> QED
      BY <2>2, <2>3 DEF StepLeft
  <1>7. CASE ~(t.mission.step >= t.mission.steps)
    <2>1. Advance(s) = t
      BY <1>5, <1>7
    <2>2. t.mission.step < t.mission.steps
      BY <1>2, <1>4, <1>7, MissionFacts
    <2> QED
      BY <1>4, <2>1, <2>2 DEF StepLeft
  <1> QED
    BY <1>6, <1>7
-----------------------------------------------------------------------------
(* One step of the dispatcher, of an operator's command and of a tick.      *)

\* The robots are ready and idle at the start.
LEMMA FleetStarts == FleetInit => FInv
  <1> SUFFICES ASSUME FleetInit PROVE FInv
    OBVIOUS
  <1>1. rob \in [Robots -> RobotState]
    <2> DEFINE Start == [status : {"ACTIVE"}, online : {TRUE}, mission : {None},
                         returning : {FALSE}, suspended : {FALSE}, home : BOOLEAN,
                         battery : {99, 100}, temperature : {60}]
    <2>1. rob \in [Robots -> Start]
      BY DEF FleetInit
    <2>2. Start \subseteq RobotState
      BY DEF RobotState, Statuses, Levels, Temperatures
    <2> HIDE DEF Start
    <2> QED
      BY <2>1, <2>2
  <1>2. pc \in [Robots -> {"tick", "command", "report"}] /\ command \in [Robots -> Actions \cup {None}]
    BY DEF FleetInit
  <1>3. queued \in 0..4 /\ commands \in 0..MaxCommands /\ spikes \in 0..MaxSpikes
    BY FleetAssumption DEF FleetInit
  <1>4. halted \in [Robots -> BOOLEAN]
    BY DEF FleetInit
  <1>5. ASSUME NEW r \in Robots
        PROVE  RobotInv(rob[r], pc[r], halted[r])
    <2>1. /\ rob[r].status = "ACTIVE" /\ rob[r].mission = None /\ rob[r].returning = FALSE
          /\ pc[r] = "tick" /\ halted[r] = FALSE
      BY DEF FleetInit
    <2> QED
      BY <2>1 DEF RobotInv, Duty, StepLeft
  <1> QED
    BY <1>1, <1>2, <1>3, <1>4, <1>5 DEF FInv, FleetTypeOK

\* The queue holds four missions at most.
LEMMA RefilledFacts ==
  ASSUME queued \in 0..4
  PROVE  Refilled \in 0..4
  BY DEF Refilled

\* The dispatcher gives a mission only to a robot that has no other duty.
LEMMA DispatchStep ==
  ASSUME FInv, Dispatch
  PROVE  FInv'
  <1> DEFINE free == {r \in Robots : Candidate(rob[r])}
  <1> DEFINE n == Min({Refilled, Cardinality(free)})
  <1>1. PICK chosen \in kSubset(n, free) : \E len \in [chosen -> MissionLengths] :
          /\ rob' = [r \in Robots |->
                       IF r \in chosen
                       THEN assign_mission(rob[r], build_mission(len[r]))
                       ELSE rob[r]]
          /\ queued' = Refilled - n
          /\ UNCHANGED <<pc, command, commands, spikes, halted>>
    BY DEF Dispatch
  <1>2. PICK len \in [chosen -> MissionLengths] :
          /\ rob' = [r \in Robots |->
                       IF r \in chosen
                       THEN assign_mission(rob[r], build_mission(len[r]))
                       ELSE rob[r]]
          /\ queued' = Refilled - n
          /\ UNCHANGED <<pc, command, commands, spikes, halted>>
    BY <1>1
  <1>3. chosen \subseteq free
    BY DEF kSubset
  <1>4. Cardinality(free) \in Nat
    <2>1. IsFiniteSet(Robots) /\ free \subseteq Robots
      BY FleetAssumption
    <2>2. IsFiniteSet(free)
      BY <2>1, FS_Subset
    <2> QED
      BY <2>2, FS_CardinalityType
  <1>5. Refilled \in 0..4
    BY RefilledFacts DEF FInv, FleetTypeOK
  <1>6. n \in 0..Refilled
    <2> DEFINE S == {Refilled, Cardinality(free)}
    <2>1. S \in SUBSET Nat /\ S # {} /\ Refilled \in S
      BY <1>4, <1>5
    <2> HIDE DEF S
    <2>2. \E x \in S : \A y \in S : x <= y
      BY <1>4, <1>5 DEF S
    <2>3. Min(S) \in S /\ \A y \in S : Min(S) <= y
      BY <2>2 DEF Min
    <2>4. n = Min(S)
      BY DEF S
    <2>5. Min(S) \in Nat /\ Min(S) <= Refilled
      BY <2>1, <2>3
    <2> HIDE DEF n
    <2> QED
      BY <1>5, <2>4, <2>5
  <1>7. queued' \in 0..4
    <2> HIDE DEF n
    <2> QED
      BY <1>2, <1>5, <1>6
  <1>8. /\ rob \in [Robots -> RobotState]
        /\ \A r \in Robots : RobotInv(rob[r], pc[r], halted[r])
    BY DEF FInv, FleetTypeOK
  <1>9. ASSUME NEW r \in Robots
        PROVE  rob'[r] \in RobotState /\ RobotInv(rob'[r], pc[r], halted[r])
    <2>1. CASE r \in chosen
      <3>1. Candidate(rob[r]) /\ rob[r] \in RobotState /\ len[r] \in MissionLengths
        BY <1>3, <1>8, <2>1
      <3> DEFINE m == [step |-> 0, steps |-> len[r]]
      <3>2. m \in Missions
        BY <3>1 DEF Missions
      <3>3. rob'[r] = [rob[r] EXCEPT !.mission = m, !.status = "ACTIVE", !.returning = FALSE]
        BY <1>2, <2>1 DEF assign_mission, build_mission
      <3>4. m # None /\ m.step < m.steps
        <4>1. m.steps \in Nat \ {0} /\ m # None
          BY <3>2, MissionFacts
        <4> QED
          BY <4>1
      <3> HIDE DEF m
      <3>5. rob'[r] \in RobotState
        BY <3>1, <3>2, <3>3 DEF RobotState, Statuses
      <3>6. rob'[r].mission = m /\ rob'[r].status = "ACTIVE" /\ rob'[r].returning = FALSE
        BY <3>1, <3>3 DEF RobotState
      <3>7. ~halted[r]
        <4>1. rob[r].status \notin {"STOPPED", "DEAD"}
          BY <3>1 DEF Candidate
        <4> QED
          BY <1>8, <4>1 DEF RobotInv
      <3> QED
        BY <3>4, <3>5, <3>6, <3>7 DEF RobotInv, Duty, StepLeft
    <2>2. CASE r \notin chosen
      <3>1. rob'[r] = rob[r]
        BY <1>2, <2>2
      <3> QED
        BY <1>8, <3>1
    <2> QED
      BY <2>1, <2>2
  <1>10. rob' \in [Robots -> RobotState]
    <2>1. rob' = [r \in Robots |-> rob'[r]]
      BY <1>2
    <2> QED
      BY <1>9, <2>1
  <1>11. FleetTypeOK'
    BY <1>2, <1>7, <1>10 DEF FInv, FleetTypeOK
  <1>12. \A r \in Robots : RobotInv(rob'[r], pc'[r], halted'[r])
    BY <1>2, <1>9
  <1> QED
    BY <1>11, <1>12 DEF FInv

\* A command is taken from the queue between two ticks.
LEMMA TakeCommandStep ==
  ASSUME FInv, NEW r \in Robots, NEW c \in Actions, TakeCommand(r, c)
  PROVE  FInv'
  <1>1. /\ pc[r] = "tick" /\ commands < MaxCommands
        /\ pc' = [pc EXCEPT ![r] = "command"]
        /\ command' = [command EXCEPT ![r] = c]
        /\ commands' = commands + 1
        /\ UNCHANGED <<rob, queued, spikes, halted>>
    BY DEF TakeCommand
  <1>2. /\ rob \in [Robots -> RobotState] /\ queued \in 0..4 /\ spikes \in 0..MaxSpikes
        /\ command \in [Robots -> Actions \cup {None}]
        /\ commands \in 0..MaxCommands
        /\ RobotInv(rob[r], pc[r], halted[r])
    BY DEF FInv, FleetTypeOK
  <1>3. halted' \in [Robots -> BOOLEAN] /\ \A q \in Robots \ {r} : halted'[q] = halted[q]
    BY <1>1 DEF FInv, FleetTypeOK
  <1>4. rob[r] \in RobotState /\ rob' = [rob EXCEPT ![r] = rob[r]]
    BY <1>1, <1>2
  <1>5. RobotInv(rob[r], "command", halted'[r])
    BY <1>1, <1>2 DEF RobotInv
  <1>6. commands' \in 0..MaxCommands /\ queued' \in 0..4 /\ spikes' \in 0..MaxSpikes
    BY <1>1, <1>2, FleetAssumption
  <1>7. command' \in [Robots -> Actions \cup {None}]
    BY <1>1, <1>2
  <1>8. "command" \in {"tick", "command", "report"}
    OBVIOUS
  <1> QED
    BY <1>1, <1>3, <1>4, <1>5, <1>6, <1>7, <1>8, RobotKept

\* Obeying a command clears the other duty first.
LEMMA ObeyFacts ==
  ASSUME NEW s \in RobotState, NEW c \in Actions \cup {None}
  PROVE  /\ Obey(s, c) \in RobotState
         /\ c = "RETURN_TO_BASE" => /\ Obey(s, c).mission = None
                                    /\ Obey(s, c).status = "ACTIVE"
         /\ c = "EMERGENCY_STOP" => /\ Obey(s, c).mission = None
                                    /\ Obey(s, c).status = "STOPPED"
                                    /\ Obey(s, c).returning = FALSE
         /\ c = "RESUME" => /\ Obey(s, c).mission = s.mission
                            /\ Obey(s, c).status = "ACTIVE"
                            /\ Obey(s, c).returning = s.returning
         /\ c \notin {"RETURN_TO_BASE", "EMERGENCY_STOP", "RESUME"} => Obey(s, c) = s
  <1>1. ASSUME c = "RETURN_TO_BASE"
        PROVE  /\ Obey(s, c) \in RobotState
               /\ Obey(s, c).mission = None /\ Obey(s, c).status = "ACTIVE"
    <2>1. Obey(s, c) = [[s EXCEPT !.mission = None]
                           EXCEPT !.returning = TRUE, !.status = "ACTIVE", !.online = TRUE]
      BY <1>1 DEF Obey, clear_mission
    <2> QED
      BY <2>1 DEF RobotState, Statuses
  <1>2. ASSUME c = "EMERGENCY_STOP"
        PROVE  /\ Obey(s, c) \in RobotState
               /\ Obey(s, c).mission = None /\ Obey(s, c).status = "STOPPED"
               /\ Obey(s, c).returning = FALSE
    <2>1. Obey(s, c) = [[s EXCEPT !.mission = None]
                           EXCEPT !.status = "STOPPED", !.returning = FALSE]
      BY <1>2 DEF Obey, clear_mission
    <2> QED
      BY <2>1 DEF RobotState, Statuses
  <1>3. ASSUME c = "RESUME"
        PROVE  /\ Obey(s, c) \in RobotState
               /\ Obey(s, c).mission = s.mission /\ Obey(s, c).status = "ACTIVE"
               /\ Obey(s, c).returning = s.returning
    <2>1. Obey(s, c) = [s EXCEPT !.status = "ACTIVE", !.online = TRUE]
      BY <1>3 DEF Obey
    <2> QED
      BY <2>1 DEF RobotState, Statuses
  <1>4. ASSUME c \notin {"RETURN_TO_BASE", "EMERGENCY_STOP", "RESUME"}
        PROVE  Obey(s, c) = s
    BY <1>4 DEF Obey
  <1> QED
    BY <1>1, <1>2, <1>3, <1>4
\* A command is obeyed, and a stop is in force until it is released.
LEMMA ActStep ==
  ASSUME FInv, NEW r \in Robots, Act(r)
  PROVE  FInv'
  <1>1. /\ pc[r] = "command"
        /\ rob' = [rob EXCEPT ![r] = Obey(@, command[r])]
        /\ halted' = [halted EXCEPT ![r] =
                        CASE command[r] = "EMERGENCY_STOP" -> TRUE
                          [] command[r] \in {"RESUME", "RETURN_TO_BASE"} -> FALSE
                          [] OTHER -> @]
        /\ pc' = [pc EXCEPT ![r] = "tick"]
        /\ command' = [command EXCEPT ![r] = None]
        /\ UNCHANGED <<queued, commands, spikes>>
    BY DEF Act
  <1>2. /\ rob[r] \in RobotState /\ command[r] \in Actions \cup {None}
        /\ command \in [Robots -> Actions \cup {None}]
        /\ queued \in 0..4 /\ commands \in 0..MaxCommands /\ spikes \in 0..MaxSpikes
        /\ RobotInv(rob[r], pc[r], halted[r])
    BY DEF FInv, FleetTypeOK
  <1>3. PICK s \in RobotState : s = rob[r]
    BY <1>2
  <1>4. PICK c \in Actions \cup {None} : c = command[r]
    BY <1>2
  <1>5. PICK o : o = Obey(s, c)
    OBVIOUS
  <1>6. rob' = [rob EXCEPT ![r] = o] /\ o \in RobotState
    BY <1>1, <1>3, <1>4, <1>5, ObeyFacts
  <1>7. halted \in [Robots -> BOOLEAN]
    BY DEF FInv, FleetTypeOK
  <1>8. halted' \in [Robots -> BOOLEAN] /\ \A q \in Robots \ {r} : halted'[q] = halted[q]
    BY <1>1, <1>7
  <1>9. Duty(s) /\ StepLeft(s)
    BY <1>1, <1>2, <1>3 DEF RobotInv
  <1>10. RobotInv(o, "tick", halted'[r])
    <2>1. CASE c = "RETURN_TO_BASE"
      <3>1. ~halted'[r]
        BY <1>1, <1>4, <1>7, <2>1
      <3>2. o.mission = None /\ o.status = "ACTIVE"
        BY <1>5, <2>1, ObeyFacts
      <3> QED
        BY <3>1, <3>2 DEF RobotInv, Duty, StepLeft
    <2>2. CASE c = "EMERGENCY_STOP"
      <3>1. o.mission = None /\ o.status = "STOPPED" /\ o.returning = FALSE
        BY <1>5, <2>2, ObeyFacts
      <3> QED
        BY <3>1 DEF RobotInv, Duty, StepLeft
    <2>3. CASE c = "RESUME"
      <3>1. ~halted'[r]
        BY <1>1, <1>4, <1>7, <2>3
      <3>2. o.mission = s.mission /\ o.status = "ACTIVE" /\ o.returning = s.returning
        BY <1>5, <2>3, ObeyFacts
      <3> QED
        BY <1>9, <3>1, <3>2 DEF RobotInv, Duty, StepLeft
    <2>4. CASE c \notin {"RETURN_TO_BASE", "EMERGENCY_STOP", "RESUME"}
      <3>1. halted'[r] = halted[r]
        BY <1>1, <1>4, <1>7, <2>4
      <3>2. o = s
        BY <1>5, <2>4, ObeyFacts
      <3> QED
        BY <1>1, <1>2, <1>3, <3>1, <3>2 DEF RobotInv
    <2> QED
      BY <2>1, <2>2, <2>3, <2>4
  <1>11. /\ command' \in [Robots -> Actions \cup {None}]
         /\ queued' \in 0..4 /\ commands' \in 0..MaxCommands /\ spikes' \in 0..MaxSpikes
    BY <1>1, <1>2
  <1>12. "tick" \in {"tick", "command", "report"}
    OBVIOUS
  <1> QED
    BY <1>1, <1>6, <1>8, <1>10, <1>11, <1>12, RobotKept

\* A robot that gives out has no duty left; a stopped one stays stopped.
LEMMA DieStep ==
  ASSUME FInv, NEW r \in Robots, Die(r)
  PROVE  FInv'
  <1> DEFINE s == [[rob[r] EXCEPT !.mission = None]
                      EXCEPT !.status = "DEAD", !.online = FALSE, !.returning = FALSE]
  <1>1. /\ pc[r] = "tick" /\ is_dead(rob[r])
        /\ rob' = [rob EXCEPT ![r] = s]
        /\ UNCHANGED <<pc, command, queued, commands, spikes, halted>>
    BY DEF Die, clear_mission
  <1>2. /\ rob[r] \in RobotState
        /\ command \in [Robots -> Actions \cup {None}]
        /\ pc \in [Robots -> {"tick", "command", "report"}]
        /\ queued \in 0..4 /\ commands \in 0..MaxCommands /\ spikes \in 0..MaxSpikes
    BY DEF FInv, FleetTypeOK
  <1>3. s \in RobotState
    BY <1>2 DEF RobotState, Statuses
  <1>4. /\ s.mission = None /\ s.status = "DEAD" /\ s.returning = FALSE
        /\ s.battery = rob[r].battery /\ s.temperature = rob[r].temperature
    BY <1>2 DEF RobotState
  <1> HIDE DEF s
  <1>5. RobotInv(s, "tick", halted'[r])
    BY <1>1, <1>4 DEF RobotInv, Duty, StepLeft, is_dead
  <1>6. halted' \in [Robots -> BOOLEAN] /\ \A q \in Robots \ {r} : halted'[q] = halted[q]
    BY <1>1 DEF FInv, FleetTypeOK
  <1>7. /\ command' \in [Robots -> Actions \cup {None}]
        /\ queued' \in 0..4 /\ commands' \in 0..MaxCommands /\ spikes' \in 0..MaxSpikes
    BY <1>1, <1>2
  <1>8. pc' = [pc EXCEPT ![r] = "tick"] /\ "tick" \in {"tick", "command", "report"}
    BY <1>1, <1>2
  <1> QED
    BY <1>1, <1>3, <1>5, <1>6, <1>7, <1>8, RobotKept

\* A repaired robot is ready, and no longer stopped.
LEMMA RepairStep ==
  ASSUME FInv, NEW r \in Robots, Repair(r)
  PROVE  FInv'
  <1> DEFINE s == [rob[r] EXCEPT !.battery = 100, !.temperature = 60,
                      !.status = "ACTIVE", !.online = TRUE, !.suspended = FALSE]
  <1>1. /\ pc[r] = "tick" /\ rob[r].status = "DEAD"
        /\ rob' = [rob EXCEPT ![r] = s]
        /\ halted' = [halted EXCEPT ![r] = FALSE]
        /\ UNCHANGED <<pc, command, queued, commands, spikes>>
    BY DEF Repair
  <1>2. /\ rob[r] \in RobotState
        /\ command \in [Robots -> Actions \cup {None}]
        /\ pc \in [Robots -> {"tick", "command", "report"}]
        /\ queued \in 0..4 /\ commands \in 0..MaxCommands /\ spikes \in 0..MaxSpikes
        /\ RobotInv(rob[r], pc[r], halted[r])
    BY DEF FInv, FleetTypeOK
  <1>3. s \in RobotState
    <2>1. 100 \in Levels /\ 60 \in Temperatures /\ "ACTIVE" \in Statuses
      BY DEF Levels, Temperatures, Statuses
    <2> QED
      BY <1>2, <2>1 DEF RobotState
  <1>4. s.mission = rob[r].mission /\ s.status = "ACTIVE" /\ s.returning = rob[r].returning
    BY <1>2 DEF RobotState
  <1> HIDE DEF s
  <1>5. halted \in [Robots -> BOOLEAN]
    BY DEF FInv, FleetTypeOK
  <1>6. halted' \in [Robots -> BOOLEAN] /\ \A q \in Robots \ {r} : halted'[q] = halted[q]
    BY <1>1, <1>5
  <1>7. RobotInv(s, "tick", halted'[r])
    <2>1. ~halted'[r]
      BY <1>1, <1>5
    <2> QED
      BY <1>1, <1>2, <1>4, <2>1 DEF RobotInv, Duty, StepLeft
  <1>8. /\ command' \in [Robots -> Actions \cup {None}]
        /\ queued' \in 0..4 /\ commands' \in 0..MaxCommands /\ spikes' \in 0..MaxSpikes
    BY <1>1, <1>2
  <1>9. pc' = [pc EXCEPT ![r] = "tick"] /\ "tick" \in {"tick", "command", "report"}
    BY <1>1, <1>2
  <1> QED
    BY <1>1, <1>3, <1>6, <1>7, <1>8, <1>9, RobotKept

\* The way to the charger, and the arrival.
LEMMA ReturnStep ==
  ASSUME FInv, NEW r \in Robots, ReturnToCharge(r)
  PROVE  FInv'
  <1>1. PICK s : s = Ready(r)
    OBVIOUS
  <1>2. /\ Running(r) /\ s.returning
        /\ IF s.home
           THEN Settle(r, [s EXCEPT !.returning = FALSE, !.status = "CHARGING"], {s.temperature})
           ELSE \E b \in Drained[s.battery], h \in BOOLEAN :
                   Settle(r, [s EXCEPT !.battery = b, !.home = h,
                                !.status = IF s.battery <= 20 THEN "LOW POWER" ELSE "ACTIVE"],
                          Cooled[s.temperature])
        /\ UNCHANGED <<pc, command, queued, commands, halted>>
    BY <1>1 DEF ReturnToCharge
  <1>3. /\ s \in RobotState /\ Duty(s) /\ StepLeft(s) /\ ~halted[r]
        /\ pc[r] = "tick" /\ pc' = [pc EXCEPT ![r] = "tick"]
    BY <1>1, <1>2, ReadyFacts
  <1>4. s.mission = None
    BY <1>2, <1>3 DEF Duty
  <1>5. UNCHANGED <<command, queued, commands, halted>>
    BY <1>2
  <1>6. s.battery \in Levels /\ s.temperature \in Temperatures
    BY <1>3, RobotFields
  <1>7. CASE s.home
    <2>1. PICK t : t = [s EXCEPT !.returning = FALSE, !.status = "CHARGING"]
      OBVIOUS
    <2>2. t \in RobotState
      BY <1>3, <2>1 DEF RobotState, Statuses
    <2>3. t.mission = None /\ t.returning = FALSE /\ t.status = "CHARGING" /\ t.home = s.home
      BY <1>3, <1>4, <2>1 DEF RobotState
    <2>4. Duty(t) /\ StepLeft(t) /\ t.status # "DEAD"
      BY <1>7, <2>3 DEF Duty, StepLeft
    <2>5. Settle(r, t, {s.temperature}) /\ {s.temperature} \in SUBSET Temperatures
      BY <1>2, <1>6, <1>7, <2>1
    <2> QED
      BY <1>3, <1>5, <2>2, <2>4, <2>5, Settled
  <1>8. CASE ~s.home
    <2>1. PICK b \in Drained[s.battery], h \in BOOLEAN :
            Settle(r, [s EXCEPT !.battery = b, !.home = h,
                         !.status = IF s.battery <= 20 THEN "LOW POWER" ELSE "ACTIVE"],
                   Cooled[s.temperature])
      BY <1>2, <1>8
    <2>2. PICK t : t = [s EXCEPT !.battery = b, !.home = h,
                          !.status = IF s.battery <= 20 THEN "LOW POWER" ELSE "ACTIVE"]
      OBVIOUS
    <2>3. b \in Levels /\ Cooled[s.temperature] \in SUBSET Temperatures
      BY <1>6, BatteryTables, TemperatureTables
    <2>4. t \in RobotState
      BY <1>3, <2>2, <2>3 DEF RobotState, Statuses
    <2>5. t.mission = None /\ t.status \in {"LOW POWER", "ACTIVE"}
      BY <1>3, <1>4, <2>2 DEF RobotState
    <2>6. Duty(t) /\ StepLeft(t) /\ t.status # "DEAD"
      BY <2>5 DEF Duty, StepLeft
    <2>7. Settle(r, t, Cooled[s.temperature])
      BY <2>1, <2>2
    <2> QED
      BY <1>3, <1>5, <2>3, <2>4, <2>6, <2>7, Settled
  <1> QED
    BY <1>7, <1>8

\* Charging, or waiting at the charger until it has cooled.
LEMMA ChargeStep ==
  ASSUME FInv, NEW r \in Robots, Charge(r)
  PROVE  FInv'
  <1>1. PICK s : s = Ready(r)
    OBVIOUS
  <1>2. /\ Running(r) /\ ~s.returning /\ s.status = "CHARGING"
        /\ UNCHANGED <<pc, command, queued, commands, halted>>
    BY <1>1 DEF Charge
  <1>3. /\ s \in RobotState /\ Duty(s) /\ StepLeft(s) /\ ~halted[r]
        /\ pc[r] = "tick" /\ pc' = [pc EXCEPT ![r] = "tick"]
    BY <1>1, <1>2, ReadyFacts
  <1>4. s.mission = None /\ s.home
    BY <1>2, <1>3 DEF Duty
  <1>5. UNCHANGED <<command, queued, commands, halted>>
    BY <1>2
  <1>6. s.battery \in Levels /\ s.temperature \in Temperatures
    BY <1>3, RobotFields
  <1>7. CASE s.suspended \/ s.temperature >= 80
    <2>1. PICK t \in Cooled[s.temperature] :
            Settle(r, [s EXCEPT !.suspended = ~Released(t),
                         !.status = IF Released(t) THEN "CHARGING" ELSE "OVERHEATING"], {t})
      BY <1>1, <1>7 DEF Charge
    <2>2. PICK u : u = [s EXCEPT !.suspended = ~Released(t),
                          !.status = IF Released(t) THEN "CHARGING" ELSE "OVERHEATING"]
      OBVIOUS
    <2>3. {t} \in SUBSET Temperatures
      BY <1>6, <2>1, TemperatureTables
    <2>4. u \in RobotState
      <3>1. Released(t) \in BOOLEAN
        BY DEF Released
      <3> QED
        BY <1>3, <2>2, <3>1 DEF RobotState, Statuses
    <2>5. /\ u.mission = None /\ u.home = s.home /\ u.returning = s.returning
          /\ u.status \in {"CHARGING", "OVERHEATING"}
      BY <1>3, <1>4, <2>2 DEF RobotState
    <2>6. Duty(u) /\ StepLeft(u) /\ u.status # "DEAD"
      BY <1>2, <1>4, <2>5 DEF Duty, StepLeft
    <2>7. Settle(r, u, {t})
      BY <2>1, <2>2
    <2> QED
      BY <1>3, <1>5, <2>3, <2>4, <2>6, <2>7, Settled
  <1>8. CASE ~(s.suspended \/ s.temperature >= 80)
    <2>1. PICK b \in Charged[s.battery] :
            Settle(r, [s EXCEPT !.battery = b,
                         !.status = IF b >= 100 THEN "ACTIVE" ELSE "CHARGING"],
                   Cooled[s.temperature])
      BY <1>1, <1>8 DEF Charge
    <2>2. PICK u : u = [s EXCEPT !.battery = b,
                          !.status = IF b >= 100 THEN "ACTIVE" ELSE "CHARGING"]
      OBVIOUS
    <2>3. b \in Levels /\ Cooled[s.temperature] \in SUBSET Temperatures
      BY <1>6, BatteryTables, TemperatureTables
    <2>4. u \in RobotState
      BY <1>3, <2>2, <2>3 DEF RobotState, Statuses
    <2>5. /\ u.mission = None /\ u.home = s.home /\ u.returning = s.returning
          /\ u.status \in {"CHARGING", "ACTIVE"}
      BY <1>3, <1>4, <2>2 DEF RobotState
    <2>6. Duty(u) /\ StepLeft(u) /\ u.status # "DEAD"
      BY <1>2, <1>4, <2>5 DEF Duty, StepLeft
    <2>7. Settle(r, u, Cooled[s.temperature])
      BY <2>1, <2>2
    <2> QED
      BY <1>3, <1>5, <2>3, <2>4, <2>6, <2>7, Settled
  <1> QED
    BY <1>7, <1>8
\* A robot on a mission that has overheated drives on at half speed.
LEMMA OverheatStep ==
  ASSUME FInv, NEW r \in Robots, Overheat(r)
  PROVE  FInv'
  <1>1. PICK w : w = Ready(r)
    OBVIOUS
  <1>2. PICK s : s = [w EXCEPT !.status = "OVERHEATING"]
    OBVIOUS
  <1>3. /\ Running(r) /\ ~s.returning
        /\ \/ /\ s.mission # None
              /\ \E b \in Drained[s.battery] :
                    \/ Settle(r, [Advance(s) EXCEPT !.battery = b], Cooled[s.temperature])
                    \/ \E h \in BOOLEAN :
                          Settle(r, [s EXCEPT !.battery = b, !.home = h], Cooled[s.temperature])
           \/ /\ s.mission = None
              /\ Settle(r, s, Cooled[s.temperature])
        /\ UNCHANGED <<pc, command, queued, commands, halted>>
    BY <1>1, <1>2 DEF Overheat
  <1>4. /\ w \in RobotState /\ Duty(w) /\ StepLeft(w) /\ ~halted[r]
        /\ pc[r] = "tick" /\ pc' = [pc EXCEPT ![r] = "tick"]
    BY <1>1, <1>3, ReadyFacts
  <1>5. s \in RobotState
    BY <1>2, <1>4 DEF RobotState, Statuses
  <1>6. s.mission = w.mission /\ s.returning = w.returning /\ s.status = "OVERHEATING"
    BY <1>2, <1>4 DEF RobotState
  <1>7. Duty(s) /\ StepLeft(s)
    BY <1>4, <1>6 DEF Duty, StepLeft
  <1>8. UNCHANGED <<command, queued, commands, halted>>
    BY <1>3
  <1>9. /\ s.battery \in Levels /\ s.temperature \in Temperatures
        /\ Drained[s.battery] \subseteq Levels
        /\ Cooled[s.temperature] \in SUBSET Temperatures
    BY <1>5, RobotFields, BatteryTables, TemperatureTables
  <1>10. ASSUME NEW b \in Drained[s.battery], s.mission # None,
                Settle(r, [Advance(s) EXCEPT !.battery = b], Cooled[s.temperature])
         PROVE  FInv'
    <2>1. PICK a : a = Advance(s)
      OBVIOUS
    <2>2. /\ a \in RobotState /\ StepLeft(a)
          /\ a.status = s.status /\ a.returning = s.returning
      BY <1>5, <1>10, <2>1, AdvanceFacts
    <2>3. PICK t : t = [a EXCEPT !.battery = b]
      OBVIOUS
    <2>4. t \in RobotState
      BY <1>9, <2>2, <2>3 DEF RobotState
    <2>5. t.mission = a.mission /\ t.status = "OVERHEATING" /\ t.returning = s.returning
      BY <1>6, <2>2, <2>3 DEF RobotState
    <2>6. Duty(t) /\ StepLeft(t) /\ t.status # "DEAD"
      BY <1>3, <2>2, <2>5 DEF Duty, StepLeft
    <2>7. Settle(r, t, Cooled[s.temperature])
      BY <1>10, <2>1, <2>3
    <2> QED
      BY <1>4, <1>8, <1>9, <2>4, <2>6, <2>7, Settled
  <1>11. ASSUME NEW b \in Drained[s.battery], NEW h \in BOOLEAN, s.mission # None,
                Settle(r, [s EXCEPT !.battery = b, !.home = h], Cooled[s.temperature])
         PROVE  FInv'
    <2>1. PICK t : t = [s EXCEPT !.battery = b, !.home = h]
      OBVIOUS
    <2>2. t \in RobotState
      BY <1>5, <1>9, <2>1 DEF RobotState
    <2>3. t.mission = s.mission /\ t.status = "OVERHEATING" /\ t.returning = s.returning
      BY <1>5, <1>6, <2>1 DEF RobotState
    <2>4. Duty(t) /\ StepLeft(t) /\ t.status # "DEAD"
      BY <1>3, <1>7, <2>3 DEF Duty, StepLeft
    <2>5. Settle(r, t, Cooled[s.temperature])
      BY <1>11, <2>1
    <2> QED
      BY <1>4, <1>8, <1>9, <2>2, <2>4, <2>5, Settled
  <1>12. ASSUME Settle(r, s, Cooled[s.temperature])
         PROVE  FInv'
    <2>1. s.status # "DEAD"
      BY <1>6
    <2> QED
      BY <1>4, <1>5, <1>7, <1>8, <1>9, <1>12, <2>1, Settled
  <1> QED
    BY <1>3, <1>10, <1>11, <1>12

\* Driving, and a target that is not the last.
LEMMA DriveStep ==
  ASSUME FInv, NEW r \in Robots, Drive(r)
  PROVE  FInv'
  <1>1. PICK s : s = Ready(r)
    OBVIOUS
  <1>2. /\ OnMission(r)
        /\ \E b \in Drained[s.battery] :
              \/ \E h \in BOOLEAN :
                    Settle(r, [s EXCEPT !.battery = b, !.home = h], Cooled[s.temperature])
              \/ /\ s.mission.step + 1 < s.mission.steps
                 /\ Settle(r, [Advance(s) EXCEPT !.battery = b], Cooled[s.temperature])
        /\ UNCHANGED <<pc, command, queued, commands, halted>>
    BY <1>1 DEF Drive
  <1>3. Running(r) /\ ~s.returning /\ s.status # "CHARGING" /\ s.mission # None
    BY <1>1, <1>2 DEF OnMission
  <1>4. /\ s \in RobotState /\ Duty(s) /\ StepLeft(s) /\ ~halted[r]
        /\ s.status \notin {"STOPPED", "DEAD"}
        /\ pc[r] = "tick" /\ pc' = [pc EXCEPT ![r] = "tick"]
    BY <1>1, <1>2, <1>3, ReadyFacts
  <1>5. UNCHANGED <<command, queued, commands, halted>>
    BY <1>2
  <1>6. /\ s.battery \in Levels /\ s.temperature \in Temperatures
        /\ Drained[s.battery] \subseteq Levels
        /\ Cooled[s.temperature] \in SUBSET Temperatures
    BY <1>4, RobotFields, BatteryTables, TemperatureTables
  <1>7. ASSUME NEW b \in Drained[s.battery],
               Settle(r, [Advance(s) EXCEPT !.battery = b], Cooled[s.temperature])
        PROVE  FInv'
    <2>1. PICK a : a = Advance(s)
      OBVIOUS
    <2>2. /\ a \in RobotState /\ StepLeft(a)
          /\ a.status = s.status /\ a.returning = s.returning
      BY <1>3, <1>4, <2>1, AdvanceFacts
    <2>3. PICK t : t = [a EXCEPT !.battery = b]
      OBVIOUS
    <2>4. t \in RobotState
      BY <1>6, <2>2, <2>3 DEF RobotState
    <2>5. t.mission = a.mission /\ t.status = s.status /\ t.returning = s.returning
      BY <2>2, <2>3 DEF RobotState
    <2>6. Duty(t) /\ StepLeft(t) /\ t.status # "DEAD"
      BY <1>3, <1>4, <2>2, <2>5 DEF Duty, StepLeft
    <2>7. Settle(r, t, Cooled[s.temperature])
      BY <1>7, <2>1, <2>3
    <2> QED
      BY <1>4, <1>5, <1>6, <2>4, <2>6, <2>7, Settled
  <1>8. ASSUME NEW b \in Drained[s.battery], NEW h \in BOOLEAN,
               Settle(r, [s EXCEPT !.battery = b, !.home = h], Cooled[s.temperature])
        PROVE  FInv'
    <2>1. PICK t : t = [s EXCEPT !.battery = b, !.home = h]
      OBVIOUS
    <2>2. t \in RobotState
      BY <1>4, <1>6, <2>1 DEF RobotState
    <2>3. t.mission = s.mission /\ t.status = s.status /\ t.returning = s.returning
      BY <1>4, <2>1 DEF RobotState
    <2>4. Duty(t) /\ StepLeft(t) /\ t.status # "DEAD"
      BY <1>3, <1>4, <2>3 DEF Duty, StepLeft
    <2>5. Settle(r, t, Cooled[s.temperature])
      BY <1>8, <2>1
    <2> QED
      BY <1>4, <1>5, <1>6, <2>2, <2>4, <2>5, Settled
  <1> QED
    BY <1>2, <1>7, <1>8

\* The last target: the mission stays on the robot for the report.
LEMMA CompleteStep ==
  ASSUME FInv, NEW r \in Robots, Complete(r)
  PROVE  FInv'
  <1>1. PICK s : s = Ready(r)
    OBVIOUS
  <1>2. PICK t : t = [s EXCEPT !.mission.step = @ + 1]
    OBVIOUS
  <1>3. /\ OnMission(r)
        /\ rob' = [rob EXCEPT ![r] = t]
        /\ pc' = [pc EXCEPT ![r] = "report"]
        /\ UNCHANGED <<command, queued, commands, spikes, halted>>
    BY <1>1, <1>2 DEF Complete
  <1>4. Running(r) /\ ~s.returning /\ s.status # "CHARGING" /\ s.mission # None
    BY <1>1, <1>3 DEF OnMission
  <1>5. s \in RobotState /\ ~halted[r] /\ s.status \notin {"STOPPED", "DEAD"}
    BY <1>1, <1>4, ReadyFacts
  <1>6. PICK m : m = [s.mission EXCEPT !.step = @ + 1]
    OBVIOUS
  <1>7. m \in Missions /\ m # None
    <2>1. s.mission \in Missions
      BY <1>4, <1>5, RobotFields
    <2>2. s.mission.step + 1 \in Nat
      BY <2>1, MissionFacts
    <2>3. m \in Missions
      BY <1>6, <2>1, <2>2 DEF Missions
    <2> QED
      BY <2>3, MissionFacts
  <1>8. t = [s EXCEPT !.mission = m]
    BY <1>2, <1>5, <1>6 DEF RobotState
  <1>9. t \in RobotState
    BY <1>5, <1>7, <1>8 DEF RobotState
  <1>10. t.mission = m /\ t.status = s.status /\ t.returning = s.returning
    BY <1>5, <1>8 DEF RobotState
  <1>11. RobotInv(t, "report", halted'[r])
    BY <1>3, <1>4, <1>5, <1>7, <1>10 DEF RobotInv, Duty
  <1>12. /\ command \in [Robots -> Actions \cup {None}]
         /\ queued \in 0..4 /\ commands \in 0..MaxCommands /\ spikes \in 0..MaxSpikes
    BY DEF FInv, FleetTypeOK
  <1>13. /\ command' \in [Robots -> Actions \cup {None}]
         /\ queued' \in 0..4 /\ commands' \in 0..MaxCommands /\ spikes' \in 0..MaxSpikes
    BY <1>3, <1>12
  <1>14. halted' \in [Robots -> BOOLEAN] /\ \A q \in Robots \ {r} : halted'[q] = halted[q]
    BY <1>3 DEF FInv, FleetTypeOK
  <1>15. "report" \in {"tick", "command", "report"}
    OBVIOUS
  <1> QED
    BY <1>3, <1>9, <1>11, <1>13, <1>14, <1>15, RobotKept

\* The report is over: the robot has no mission, and was not stopped meanwhile.
LEMMA CompletedStep ==
  ASSUME FInv, NEW r \in Robots, Completed(r)
  PROVE  FInv'
  <1>1. PICK s : s = [[rob[r] EXCEPT !.mission = None] EXCEPT !.status = "ACTIVE"]
    OBVIOUS
  <1>2. /\ pc[r] = "report"
        /\ \E b \in Drained[s.battery] :
              Settle(r, [s EXCEPT !.battery = b], Cooled[s.temperature])
        /\ pc' = [pc EXCEPT ![r] = "tick"]
        /\ UNCHANGED <<command, queued, commands, halted>>
    BY <1>1 DEF Completed, clear_mission
  <1>3. rob[r] \in RobotState /\ RobotInv(rob[r], pc[r], halted[r])
    BY DEF FInv, FleetTypeOK
  <1>4. ~halted[r]
    BY <1>2, <1>3 DEF RobotInv
  <1>5. s \in RobotState
    BY <1>1, <1>3 DEF RobotState, Statuses
  <1>6. s.mission = None /\ s.status = "ACTIVE"
    BY <1>1, <1>3 DEF RobotState
  <1>7. /\ s.battery \in Levels /\ s.temperature \in Temperatures
        /\ Drained[s.battery] \subseteq Levels
        /\ Cooled[s.temperature] \in SUBSET Temperatures
    BY <1>5, RobotFields, BatteryTables, TemperatureTables
  <1>8. PICK b \in Drained[s.battery] :
          Settle(r, [s EXCEPT !.battery = b], Cooled[s.temperature])
    BY <1>2
  <1>9. PICK t : t = [s EXCEPT !.battery = b]
    OBVIOUS
  <1>10. t \in RobotState
    BY <1>5, <1>7, <1>9 DEF RobotState
  <1>11. t.mission = None /\ t.status = "ACTIVE"
    BY <1>5, <1>6, <1>9 DEF RobotState
  <1>12. Duty(t) /\ StepLeft(t) /\ t.status # "DEAD"
    BY <1>11 DEF Duty, StepLeft
  <1>13. Settle(r, t, Cooled[s.temperature])
    BY <1>8, <1>9
  <1> QED
    BY <1>2, <1>4, <1>7, <1>10, <1>12, <1>13, Settled

\* Waiting for a mission.
LEMMA StandbyStep ==
  ASSUME FInv, NEW r \in Robots, Standby(r)
  PROVE  FInv'
  <1>1. PICK s : s = Ready(r)
    OBVIOUS
  <1>2. /\ Running(r) /\ ~s.returning /\ s.status # "CHARGING" /\ s.mission = None
        /\ \E b \in Drained[s.battery] :
              Settle(r, [s EXCEPT !.battery = b], Cooled[s.temperature])
        /\ UNCHANGED <<pc, command, queued, commands, halted>>
    BY <1>1 DEF Standby
  <1>3. /\ s \in RobotState /\ ~halted[r] /\ s.status \notin {"STOPPED", "DEAD"}
        /\ pc[r] = "tick" /\ pc' = [pc EXCEPT ![r] = "tick"]
    BY <1>1, <1>2, ReadyFacts
  <1>4. /\ s.battery \in Levels /\ s.temperature \in Temperatures
        /\ Drained[s.battery] \subseteq Levels
        /\ Cooled[s.temperature] \in SUBSET Temperatures
    BY <1>3, RobotFields, BatteryTables, TemperatureTables
  <1>5. PICK b \in Drained[s.battery] :
          Settle(r, [s EXCEPT !.battery = b], Cooled[s.temperature])
    BY <1>2
  <1>6. PICK t : t = [s EXCEPT !.battery = b]
    OBVIOUS
  <1>7. t \in RobotState
    BY <1>3, <1>4, <1>6 DEF RobotState
  <1>8. t.mission = s.mission /\ t.status = s.status /\ t.returning = s.returning
    BY <1>3, <1>6 DEF RobotState
  <1>9. Duty(t) /\ StepLeft(t) /\ t.status # "DEAD"
    BY <1>2, <1>3, <1>8 DEF Duty, StepLeft
  <1>10. Settle(r, t, Cooled[s.temperature])
    BY <1>5, <1>6
  <1>11. UNCHANGED <<command, queued, commands, halted>>
    BY <1>2
  <1> QED
    BY <1>3, <1>4, <1>7, <1>9, <1>10, <1>11, Settled

-----------------------------------------------------------------------------
(* The theorems. *)

\* Every step of the fleet keeps the invariant.
LEMMA FleetStep ==
  ASSUME FInv, [FleetNext]_fvars
  PROVE  FInv'
  <1>1. CASE Dispatch
    BY <1>1, DispatchStep
  <1>2. ASSUME NEW r \in Robots, RobotStep(r)
        PROVE  FInv'
    <2>1. ASSUME NEW c \in Actions, TakeCommand(r, c)
          PROVE  FInv'
      BY <2>1, TakeCommandStep
    <2>2. CASE Act(r)
      BY <2>2, ActStep
    <2>3. CASE Repair(r)
      BY <2>3, RepairStep
    <2>4. CASE Die(r)
      BY <2>4, DieStep
    <2>5. CASE ReturnToCharge(r)
      BY <2>5, ReturnStep
    <2>6. CASE Charge(r)
      BY <2>6, ChargeStep
    <2>7. CASE Overheat(r)
      BY <2>7, OverheatStep
    <2>8. CASE Drive(r)
      BY <2>8, DriveStep
    <2>9. CASE Standby(r)
      BY <2>9, StandbyStep
    <2>10. CASE Complete(r)
      BY <2>10, CompleteStep
    <2>11. CASE Completed(r)
      BY <2>11, CompletedStep
    <2> QED
      BY <1>2, <2>1, <2>2, <2>3, <2>4, <2>5, <2>6, <2>7, <2>8, <2>9, <2>10, <2>11
         DEF RobotStep, Tick
  <1>3. CASE UNCHANGED fvars
    BY <1>3 DEF fvars, FInv, FleetTypeOK, RobotInv, Duty, StepLeft, is_dead
  <1> QED
    BY <1>1, <1>2, <1>3 DEF FleetNext

\* The invariant holds in every reachable state of the fleet.
THEOREM FleetInvariant == FleetSpec => []FInv
  <1>1. FleetInit => FInv
    BY FleetStarts
  <1>2. FInv /\ [FleetNext]_fvars => FInv'
    BY FleetStep
  <1> QED
    BY <1>1, <1>2, PTL DEF FleetSpec

\* The fleet stays in its types; the dispatcher's queue never holds more than the
\* four missions dispatcher_loop allows.
THEOREM FleetTyped == FleetSpec => []FleetTypeOK
  <1>1. FInv => FleetTypeOK
    BY DEF FInv
  <1> QED
    BY <1>1, FleetInvariant, PTL

\* A robot has one duty at a time, in whatever order dispatcher_loop, an operator's
\* command and the physics of robot_loop reach it.
THEOREM OneDutyAtATime == FleetSpec => []OneDuty
  <1>1. FInv => OneDuty
    BY DEF FInv, RobotInv, Duty, OneDuty
  <1> QED
    BY <1>1, FleetInvariant, PTL

\* mission.steps[current_step] is in range whenever robot_loop evaluates it.
THEOREM StepAlwaysInRange == FleetSpec => []StepInRange
  <1>1. FInv => StepInRange
    BY DEF FInv, RobotInv, StepLeft, StepInRange
  <1> QED
    BY <1>1, FleetInvariant, PTL

\* Neither the dispatcher nor the physics moves an emergency-stopped robot.
THEOREM StopStays == FleetSpec => []StopHolds
  <1>1. FInv => StopHolds
    BY DEF FInv, RobotInv, StopHolds
  <1> QED
    BY <1>1, FleetInvariant, PTL
=============================================================================
